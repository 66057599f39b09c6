---------------------------- MODULE TriageProofs ----------------------------
(***************************************************************************)
(* Theorems about Triage: for any tickets, tenants, rankings, model        *)
(* replies and number of concurrent requests, an applied decision is kept, *)
(* the deadline follows the priority, and what a proposal names comes from *)
(* the ticket's own tenant.                                                *)
(***************************************************************************)
EXTENDS Triage, FiniteSetTheorems, WellFoundedInduction, NaturalsInduction, TLAPS

PCs == {"idle", "queue", "propose", "check", "advise", "assemble", "decide", "direct", "sent",
        "reply", "end"}
JobFields == {"pc", "ask", "check", "assign", "prio", "p", "reply", "final", "res"}
BusStates == {"none", "queued", "applied", "discarded", "error"}
Retrieved == {"category", "subcategory", "assigned_to", "ci_id"}
TenantOf(t) == Table0[t].tenant

(* A ticket to which a proposal about t may point. *)
Another(top, t) == top # t /\ top \in DOMAIN Table0 /\ TenantOf(top) = TenantOf(t)

(* What the search steps may hand on about the ticket t. *)
CheckOf(t, c) == DOMAIN c.sugg \subseteq Retrieved /\ (c.top # NoVal => Another(c.top, t))

ProposalOK(p) ==
  /\ p.ticket \in DOMAIN Table0 /\ p.tenant = TenantOf(p.ticket)
  /\ p.vals["priority"] # NoVal
  /\ p.top # NoVal => Another(p.top, p.ticket)

(* Rows keep their shape and their tenant; the deadline of each one        *)
(* follows its priority.                                                   *)
RowsOK ==
  /\ DOMAIN row = DOMAIN Table0
  /\ \A t \in DOMAIN Table0 :
       /\ DOMAIN row[t] = Fields /\ DOMAIN row[t].vals = Columns
       /\ row[t].tenant = TenantOf(t)
  /\ SlaFollowsPriority

ShapesOK ==
  /\ DOMAIN job = Jobs /\ DOMAIN prop = Jobs /\ bus \in [Jobs -> BusStates]
  /\ job = [j \in Jobs |-> job[j]]
  /\ \A j \in Jobs : DOMAIN job[j] = JobFields /\ job[j].pc \in PCs

PropsOK == \A j \in Jobs : prop[j] # NoProposal => ProposalOK(prop[j])

(* Where a request with the record r stands, its message being in state b: *)
(* its ticket is its tenant's, a decision carries the proposal it read, and *)
(* the bus holds only what was sent.                                       *)
Deciding(r, b) == r.pc \in {"direct", "sent", "reply"} \/ b # "none"
Stage(j, r, b) ==
  /\ r.pc # "idle" => r.ask \in Asks(j)
  /\ r.pc = "decide" => r.ask.kind = "decide"
  /\ r.pc \in {"check", "advise", "assemble"} =>
       r.ask.ticket \in DOMAIN Table0 /\ TenantOf(r.ask.ticket) = r.ask.tenant
  /\ r.pc \in {"advise", "assemble"} => CheckOf(r.ask.ticket, r.check)
  /\ r.pc = "assemble" => r.prio.priority # NoVal
  /\ r.pc \notin {"sent", "reply", "end"} => b = "none"
  /\ r.pc = "reply" => b # "queued"
  /\ r.pc # "end" => r.res = "none"
  /\ b = "queued" => r.res # "applied"
  /\ Deciding(r, b) => /\ ProposalOK(r.p) /\ r.p.tenant = r.ask.tenant
                       /\ r.ask \in Asks(j) /\ r.ask.kind = "decide"
StageOK == \A j \in Jobs : Stage(j, job[j], bus[j])

(* The decision of r has been written, whether its caller knows or not;    *)
(* then the row w of its ticket has its values and its deadline.           *)
Applied(r, b) ==
  r.res = "applied" \/ b = "applied" \/ (r.pc = "reply" /\ r.reply = "applied")
HeldBy(r, w) ==
  /\ \A c \in Columns : r.final[c] # NoVal => w.vals[c] = r.final[c]
  /\ w.sla = ComputeSlaDue(r.final["priority"])
AppliedOK ==
  \A j \in Jobs : Applied(job[j], bus[j]) /\ job[j].final["category"] # NoVal =>
    job[j].p.ticket \in DOMAIN Table0 /\ HeldBy(job[j], row[job[j].p.ticket])

TriageInv == RowsOK /\ ShapesOK /\ PropsOK /\ StageOK /\ AppliedOK

(* The same for the people that are named. *)
OwnPerson(v, tenant) == v \in Staff[tenant] \cup {NoVal}
CheckNamesOwn(t, c) ==
  "assigned_to" \in DOMAIN c.sugg => OwnPerson(c.sugg["assigned_to"].value, TenantOf(t))
NamesOwn(r, b) ==
  /\ r.pc \in {"advise", "assemble"} => CheckNamesOwn(r.ask.ticket, r.check)
  /\ Deciding(r, b) => OwnPerson(r.p.vals["assigned_to"], r.p.tenant)
RowsNameOwn == \A t \in DOMAIN Table0 : OwnPerson(row[t].vals["assigned_to"], TenantOf(t))
PropsNameOwn ==
  \A j \in Jobs : prop[j] # NoProposal => OwnPerson(prop[j].vals["assigned_to"], prop[j].tenant)
PeopleOK == RowsNameOwn /\ PropsNameOwn /\ \A j \in Jobs : NamesOwn(job[j], bus[j])

(* The people that decisions name are their tenant's: the endpoint checks  *)
(* which fields are edited, and takes the values as they come.             *)
OwnEdits ==
  \A j \in Jobs : \A a \in Asks(j) :
    a.kind = "decide" /\ "assigned_to" \in DOMAIN a.edits => OwnPerson(a.edits["assigned_to"], a.tenant)

-----------------------------------------------------------------------------
(* Sorting and filtering: P[i] is the set of the elements before i.  In a   *)
(* finite strict total order every place is taken.                         *)
LEMMA OrderRanks ==
  ASSUME NEW K, IsFiniteSet(K), NEW P \in [K -> SUBSET K],
         \A i \in K : i \notin P[i],
         \A i, j, k \in K : i \in P[j] /\ j \in P[k] => i \in P[k],
         \A i, j \in K : i # j => i \in P[j] \/ j \in P[i]
  PROVE  /\ Cardinality(K) \in Nat
         /\ \A k \in 1 .. Cardinality(K) : \E i \in K : 1 + Cardinality(P[i]) = k
<1> DEFINE f == [i \in K |-> 1 + Cardinality(P[i])]
           n == Cardinality(K)
<1>1. n \in Nat
  BY FS_CardinalityType
<1>2. ASSUME NEW i \in K PROVE IsFiniteSet(P[i]) /\ Cardinality(P[i]) \in 0 .. (n - 1)
  <2>1. P[i] \in SUBSET K /\ P[i] # K
    OBVIOUS
  <2>2. /\ IsFiniteSet(P[i]) /\ Cardinality(P[i]) <= n
        /\ n = Cardinality(P[i]) => K = P[i]
    BY <2>1, FS_Subset
  <2>3. Cardinality(P[i]) \in Nat
    BY <2>2, FS_CardinalityType
  <2> QED BY <1>1, <2>1, <2>2, <2>3
<1>3. ASSUME NEW i \in K, NEW j \in K, i \in P[j]
      PROVE  Cardinality(P[i]) < Cardinality(P[j])
  <2>1. P[i] \in SUBSET P[j] /\ i \in P[j] /\ i \notin P[i]
    BY <1>3
  <2>2. IsFiniteSet(P[j]) /\ Cardinality(P[i]) \in Int /\ Cardinality(P[j]) \in Int
    BY <1>2
  <2>3. Cardinality(P[i]) <= Cardinality(P[j]) /\ Cardinality(P[i]) # Cardinality(P[j])
    BY <2>1, <2>2, FS_Subset
  <2> QED BY <2>2, <2>3
<1>4. f \in Injection(K, 1 .. n)
  <2>1. \A i \in K : f[i] = 1 + Cardinality(P[i]) /\ f[i] \in 1 .. n
    BY <1>1, <1>2
  <2>2. \A i, j \in K : f[i] = f[j] => i = j
    <3> SUFFICES ASSUME NEW i \in K, NEW j \in K, i # j PROVE f[i] # f[j]
      OBVIOUS
    <3>1. Cardinality(P[i]) \in Int /\ Cardinality(P[j]) \in Int
      BY <1>2
    <3>2. Cardinality(P[i]) # Cardinality(P[j])
      BY <1>3, <3>1
    <3> QED BY <2>1, <3>1, <3>2
  <2>3. f \in [K -> 1 .. n]
    BY <2>1
  <2> HIDE DEF f
  <2> QED BY <2>2, <2>3 DEF Injection, IsInjective
<1>5. IsFiniteSet(1 .. n) /\ Cardinality(1 .. n) = n
  BY <1>1, FS_Interval
<1> HIDE DEF f
<1>6. f \in Surjection(K, 1 .. n)
  BY <1>4, <1>5, FS_Injection
<1> QED BY <1>1, <1>6 DEF Surjection, f

(* The part of a sequence at some positions holds elements of these. *)
LEMMA PartFacts ==
  ASSUME NEW D, NEW s \in Seq(D), NEW kept \in SUBSET DOMAIN s, NEW S, \A i \in kept : s[i] \in S
  PROVE  AtPositions(s, kept) \in Seq(S)
<1> DEFINE P == [i \in kept |-> {j \in kept : j < i}]
           upto(i) == {j \in kept : j <= i}
           nth(k) == CHOOSE i \in kept : Cardinality(upto(i)) = k
<1>1. kept \in SUBSET (1 .. Len(s)) /\ Len(s) \in Nat
  OBVIOUS
<1>2. IsFiniteSet(kept)
  <2>1. IsFiniteSet(1 .. Len(s))
    BY <1>1, FS_Interval
  <2> QED BY <1>1, <2>1, FS_Subset
<1>3. \A i \in kept : i \in Int
  BY <1>1
<1>4. P \in [kept -> SUBSET kept] /\ \A i, j \in kept : i \in P[j] <=> i < j
  OBVIOUS
<1> HIDE DEF P
<1>5. /\ \A i \in kept : i \notin P[i]
      /\ \A i, j, k \in kept : i \in P[j] /\ j \in P[k] => i \in P[k]
      /\ \A i, j \in kept : i # j => i \in P[j] \/ j \in P[i]
  BY <1>3, <1>4
<1>6. /\ Cardinality(kept) \in Nat
      /\ \A k \in 1 .. Cardinality(kept) : \E i \in kept : 1 + Cardinality(P[i]) = k
  BY <1>2, <1>4, <1>5, OrderRanks
<1>7. ASSUME NEW i \in kept PROVE Cardinality(upto(i)) = 1 + Cardinality(P[i])
  <2>1. upto(i) = P[i] \cup {i} /\ i \notin P[i] /\ P[i] \in SUBSET kept
    <3>1. \A j \in kept : j <= i <=> (j \in P[i] \/ j = i)
      BY <1>3, <1>4
    <3> QED BY <1>4, <1>5, <3>1
  <2>2. IsFiniteSet(P[i])
    BY <1>2, <2>1, FS_Subset
  <2>3. Cardinality(P[i]) \in Nat
    BY <2>2, FS_CardinalityType
  <2> HIDE DEF upto
  <2>4. Cardinality(P[i] \cup {i}) = Cardinality(P[i]) + 1
    BY <2>1, <2>2, FS_AddElement
  <2> QED BY <2>1, <2>3, <2>4
<1>8. ASSUME NEW k \in 1 .. Cardinality(kept) PROVE s[nth(k)] \in S
  <2> HIDE DEF upto
  <2>1. \E i \in kept : Cardinality(upto(i)) = k
    BY <1>6, <1>7
  <2>2. nth(k) \in kept
    BY <2>1
  <2> QED BY <2>2
<1>9. AtPositions(s, kept) = [k \in 1 .. Cardinality(kept) |-> s[nth(k)]]
  BY DEF AtPositions
<1> HIDE DEF nth
<1>10. [k \in 1 .. Cardinality(kept) |-> s[nth(k)]] \in [1 .. Cardinality(kept) -> S]
  BY <1>8
<1> DEFINE m == Cardinality(kept)
           g == [k \in 1 .. m |-> s[nth(k)]]
<1>11. m \in Nat /\ g \in [1 .. m -> S] /\ AtPositions(s, kept) = g
  BY <1>6, <1>9, <1>10
<1> HIDE DEF m, g
<1>12. g \in Seq(S)
  BY <1>11
<1> QED BY <1>11, <1>12

LEMMA FirstsFacts ==
  ASSUME NEW S, NEW s \in Seq(S), NEW n \in Nat
  PROVE  Firsts(s, n) \in Seq(S)
BY DEF Firsts

(* A sort permutes: its result holds elements of what is sorted, whatever  *)
(* the scores are.                                                         *)
LEMMA SortFacts ==
  ASSUME NEW S, NEW s \in Seq(S), NEW score
  PROVE  ByScore(s, score) \in Seq(S) /\ DOMAIN ByScore(s, score) = DOMAIN s
<1> DEFINE K == 1 .. Len(s)
           higher(i) == {j \in K : score[j] > score[i]}
           above == [i \in K |-> Cardinality(higher(i))]
           before(i, j) == above[i] < above[j] \/ (above[i] = above[j] /\ i < j)
           pred(i) == {j \in K : before(j, i)}
           P == [i \in K |-> pred(i)]
           place == [i \in K |-> 1 + Cardinality(pred(i))]
           pick(k) == CHOOSE i \in K : place[i] = k
<1>1. DOMAIN s = K /\ Len(s) \in Nat
  OBVIOUS
<1>2. \A n \in Nat : IsFiniteSet(1 .. n) /\ Cardinality(1 .. n) = n
  BY FS_Interval
<1>3. IsFiniteSet(K) /\ 1 .. Cardinality(K) = K /\ \A i \in K : i \in Int
  BY <1>1, <1>2
<1>4. ByScore(s, score) = [k \in K |-> s[pick(k)]]
  BY <1>1 DEF ByScore
<1> HIDE DEF K
<1>5. ASSUME NEW i \in K PROVE above[i] \in Int
  <2>1. higher(i) \in SUBSET K
    OBVIOUS
  <2> HIDE DEF higher
  <2>2. IsFiniteSet(higher(i))
    BY <1>3, <2>1, FS_Subset
  <2>3. Cardinality(higher(i)) \in Nat
    BY <2>2, FS_CardinalityType
  <2> QED BY <2>3
<1> HIDE DEF above
<1>6. /\ \A i \in K : ~ before(i, i)
      /\ \A i, j, k \in K : before(i, j) /\ before(j, k) => before(i, k)
      /\ \A i, j \in K : i # j => before(i, j) \/ before(j, i)
  BY <1>3, <1>5
<1> HIDE DEF before
<1>7. /\ P \in [K -> SUBSET K] /\ \A i \in K : P[i] = pred(i)
      /\ \A i, j \in K : i \in P[j] <=> before(i, j)
  OBVIOUS
<1> HIDE DEF P, pred
<1>8. \A k \in K : \E i \in K : 1 + Cardinality(P[i]) = k
  <2>1. /\ \A i \in K : i \notin P[i]
        /\ \A i, j, k \in K : i \in P[j] /\ j \in P[k] => i \in P[k]
        /\ \A i, j \in K : i # j => i \in P[j] \/ j \in P[i]
    BY <1>6, <1>7
  <2> QED BY <1>3, <1>7, <2>1, OrderRanks
<1>9. ASSUME NEW k \in K PROVE s[pick(k)] \in S
  <2>1. \E i \in K : place[i] = k
    BY <1>7, <1>8
  <2>2. pick(k) \in K
    BY <2>1
  <2> HIDE DEF pick
  <2> QED BY <1>1, <2>2
<1> HIDE DEF pick
<1>10. [k \in K |-> s[pick(k)]] \in [1 .. Len(s) -> S]
  BY <1>9 DEF K
<1>11. DOMAIN ByScore(s, score) = K
  BY <1>4
<1> QED BY <1>1, <1>4, <1>10, <1>11

(* Retrieval: what the searches return about a ticket is of its tenant,    *)
(* and fusing, sorting and dropping titles adds nothing to it.             *)
LEMMA RankedFacts ==
  ASSUME NEW D, NEW ranking \in Seq(D), NEW table, NEW probe
  PROVE  Ranked(table, ranking, probe) \in Seq({t \in D : table[t].tenant = table[probe].tenant})
<1> DEFINE S == {t \in D : table[t].tenant = table[probe].tenant}
           hit(t) == /\ table[t].tenant = table[probe].tenant
                     /\ table[t].service = table[probe].service
                     /\ table[t].status \in RetrievalSchema(table[probe].service).status
                     /\ table[t].age < One
           kept == {i \in DOMAIN ranking : hit(ranking[i])}
<1>1. kept \in SUBSET DOMAIN ranking /\ \A i \in kept : ranking[i] \in S
  OBVIOUS
<1>2. Ranked(table, ranking, probe) = Firsts(AtPositions(ranking, kept), PerSideLimit)
  BY DEF Ranked
<1> HIDE DEF kept, S
<1>3. AtPositions(ranking, kept) \in Seq(S)
  BY <1>1, PartFacts
<1>4. PerSideLimit \in Nat
  BY DEF PerSideLimit
<1>5. Firsts(AtPositions(ranking, kept), PerSideLimit) \in Seq(S)
  BY <1>3, <1>4, FirstsFacts
<1> QED BY <1>2, <1>5 DEF S

LEMMA FuseFacts ==
  ASSUME NEW S, NEW fts \in Seq(S), NEW vec \in Seq(S)
  PROVE  FuseRrf(fts, vec) \in Seq(S)
<1> DEFINE rest == {i \in DOMAIN vec : vec[i] \notin Range(fts)}
           found == fts \o AtPositions(vec, rest)
           score == [i \in DOMAIN found |-> FusedScore(fts, vec, found[i])]
           ranked == ByScore(found, score)
           good == {i \in DOMAIN ranked : FusedScore(fts, vec, ranked[i]) >= MinFused}
<1>1. FuseRrf(fts, vec) = AtPositions(ranked, good)
  BY DEF FuseRrf
<1>2. rest \in SUBSET DOMAIN vec /\ \A i \in rest : vec[i] \in S
  OBVIOUS
<1> HIDE DEF rest
<1>3. AtPositions(vec, rest) \in Seq(S)
  BY <1>2, PartFacts
<1>4. found \in Seq(S)
  BY <1>3
<1> HIDE DEF found
<1> HIDE DEF score
<1>5. ranked \in Seq(S)
  BY <1>4, SortFacts
<1> HIDE DEF ranked
<1>6. good \in SUBSET DOMAIN ranked /\ \A i \in good : ranked[i] \in S
  BY <1>5
<1> HIDE DEF good
<1>7. AtPositions(ranked, good) \in Seq(S)
  BY <1>5, <1>6, PartFacts
<1> QED BY <1>1, <1>7

LEMMA DedupFacts ==
  ASSUME NEW S, NEW s \in Seq(S), NEW table
  PROVE  DedupByTitle(table, s) \in Seq(S)
<1> DEFINE first(i) == table[s[i]].title[1] = "" \/
                       \A j \in 1..(i - 1) :
                          NormaliseTitle(table[s[j]].title) # NormaliseTitle(table[s[i]].title)
           kept == {i \in DOMAIN s : first(i)}
<1>1. DedupByTitle(table, s) = AtPositions(s, kept)
  BY DEF DedupByTitle
<1> HIDE DEF first
<1>2. kept \in SUBSET DOMAIN s /\ \A i \in kept : s[i] \in S
  OBVIOUS
<1> HIDE DEF kept
<1> QED BY <1>1, <1>2, PartFacts

LEMMA SearchFacts ==
  ASSUME NEW D, NEW ftsOrder \in Seq(D), NEW vecOrder \in Seq(D), NEW table, NEW probe,
         NEW S, S = {t \in D : table[t].tenant = table[probe].tenant},
         NEW found, found = SearchSimilar(table, probe, ftsOrder, vecOrder)
  PROVE  found.cands \in Seq(S) /\ found.top \in S \cup {NoVal}
<1> DEFINE fts == Ranked(table, ftsOrder, probe)
           vec == Ranked(table, vecOrder, probe)
           fused == FuseRrf(fts, vec)
           score(t) == RerankOne(table, probe, fts, vec, t)
           scores == [i \in DOMAIN fused |-> score(fused[i])]
           reranked == ByScore(fused, scores)
           top == Firsts(DedupByTitle(table, reranked), MaxCandidates)
<1>1. /\ found.cands = top
      /\ found.top = IF top # <<>> /\ score(top[1]) >= DuplicateThreshold THEN top[1] ELSE NoVal
  BY DEF SearchSimilar
<1>2. fts \in Seq(S) /\ vec \in Seq(S)
  BY RankedFacts
<1> HIDE DEF fts, vec
<1>3. fused \in Seq(S)
  BY <1>2, FuseFacts
<1> HIDE DEF fused
<1> HIDE DEF score, scores
<1>4. reranked \in Seq(S)
  BY <1>3, SortFacts
<1> HIDE DEF reranked
<1>5. DedupByTitle(table, reranked) \in Seq(S) /\ MaxCandidates \in Nat
  BY <1>4, DedupFacts DEF MaxCandidates
<1>6. top \in Seq(S)
  BY <1>5, FirstsFacts
<1> HIDE DEF top
<1>7. top # <<>> => top[1] \in S
  BY <1>6
<1> QED BY <1>1, <1>6, <1>7

(* Every non-empty set of naturals has a least element. *)
LEMMA Least ==
  ASSUME NEW T, T \subseteq Nat, T # {}
  PROVE  \E x \in T : \A y \in T : x <= y
<1> DEFINE R == OpToRel(<, Nat)
<1>1. IsWellFoundedOn(R, Nat)
  BY NatLessThanWellFounded
<1>2. \A x, y \in Nat : y < x => <<y, x>> \in R
  BY DEF OpToRel
<1> HIDE DEF R
<1>3. \E x \in T : \A y \in T : ~ (<<y, x>> \in R)
  BY <1>1, WFMin
<1>4. PICK x \in T : \A y \in T : ~ (<<y, x>> \in R)
  BY <1>3
<1>5. ASSUME NEW y \in T PROVE x <= y
  <2>1. x \in Nat /\ y \in Nat
    OBVIOUS
  <2>2. ~ (y < x)
    BY <1>2, <1>4, <2>1
  <2> QED BY <2>1, <2>2
<1> QED BY <1>5

(* The votes of the neighbours, and the one that wins. *)
LEMMA VotesFacts ==
  ASSUME NEW S, NEW cands \in Seq(S), NEW table, NEW col, NEW V,
         \A t \in S : table[t].vals[col] \in V
  PROVE  Votes(table, cands, col) \in Seq(V)
<1> DEFINE kept == {i \in DOMAIN cands : table[cands[i]].vals[col] # NoVal}
           voters == AtPositions(cands, kept)
<1>1. Votes(table, cands, col) = [i \in DOMAIN voters |-> table[voters[i]].vals[col]]
  BY DEF Votes
<1>2. kept \in SUBSET DOMAIN cands /\ \A i \in kept : cands[i] \in S
  OBVIOUS
<1> HIDE DEF kept
<1>3. voters \in Seq(S)
  BY <1>2, PartFacts
<1> HIDE DEF voters
<1>4. DOMAIN voters = 1 .. Len(voters) /\ Len(voters) \in Nat
  BY <1>3
<1>5. \A i \in DOMAIN voters : table[voters[i]].vals[col] \in V
  BY <1>3
<1>6. [i \in DOMAIN voters |-> table[voters[i]].vals[col]] \in [1 .. Len(voters) -> V]
  BY <1>4, <1>5
<1> QED BY <1>1, <1>4, <1>6

LEMMA WinnerFacts ==
  ASSUME NEW V, NEW votes \in Seq(V), votes # <<>>
  PROVE  Winner(votes) \in V
<1> DEFINE n == Len(votes)
           count(i) == CountOf(votes, votes[i])
           best(i) == /\ \A j \in DOMAIN votes : count(j) <= count(i)
                      /\ \A j \in 1..(i - 1) : count(j) < count(i)
<1>1. n \in Nat /\ DOMAIN votes = 1 .. n /\ 1 \in 1 .. n
  OBVIOUS
<1>2. ASSUME NEW i \in 1 .. n PROVE count(i) \in Nat /\ count(i) <= n
  <2> DEFINE same == {j \in DOMAIN votes : votes[j] = votes[i]}
  <2>1. same \in SUBSET (1 .. n) /\ count(i) = Cardinality(same)
    BY DEF CountOf
  <2>2. IsFiniteSet(1 .. n) /\ Cardinality(1 .. n) = n
    BY <1>1, FS_Interval
  <2> HIDE DEF same
  <2>3. IsFiniteSet(same) /\ Cardinality(same) <= n
    <3>1. same \subseteq 1 .. n /\ IsFiniteSet(1 .. n)
      BY <2>1, <2>2
    <3> HIDE DEF n
    <3> QED BY <2>2, <3>1, FS_Subset
  <2>4. Cardinality(same) \in Nat
    BY <2>3, FS_CardinalityType
  <2> QED BY <2>1, <2>3, <2>4
<1> HIDE DEF count
<1>3. PICK m \in 1 .. n : \A j \in 1 .. n : count(j) <= count(m)
  <2> DEFINE T == {n - count(i) : i \in 1 .. n}
  <2>1. T \subseteq Nat /\ T # {}
    BY <1>1, <1>2
  <2>2. PICK x \in T : \A y \in T : x <= y
    <3> HIDE DEF T
    <3> QED BY <2>1, Least
  <2>3. PICK m \in 1 .. n : x = n - count(m)
    BY <2>2
  <2>4. \A j \in 1 .. n : n - count(m) <= n - count(j)
    BY <2>2, <2>3
  <2> HIDE DEF n
  <2>5. \A j \in 1 .. n : count(j) <= count(m)
    BY <1>1, <1>2, <2>4
  <2> QED BY <2>5
<1>4. PICK i \in 1 .. n : best(i)
  <2> DEFINE T == {i \in 1 .. n : count(i) = count(m)}
  <2>1. T \subseteq Nat /\ m \in T
    BY <1>1
  <2>2. PICK i \in T : \A y \in T : i <= y
    <3> HIDE DEF T
    <3> QED BY <2>1, Least
  <2>3. i \in 1 .. n /\ count(i) = count(m)
    BY <2>2
  <2>4. ASSUME NEW j \in 1..(i - 1) PROVE count(j) < count(i)
    <3>1. j \in 1 .. n /\ j < i
      BY <1>1, <2>3
    <3>2. j \notin T
      BY <2>2, <2>3, <3>1
    <3>3. count(j) # count(m)
      BY <3>1, <3>2
    <3> HIDE DEF n
    <3> QED BY <1>2, <1>3, <2>3, <3>1, <3>3
  <2> QED BY <1>1, <1>3, <2>3, <2>4
<1> DEFINE b == CHOOSE k \in DOMAIN votes : best(k)
<1> HIDE DEF best
<1>5. b \in DOMAIN votes
  BY <1>1, <1>4
<1>6. Winner(votes) = votes[b]
  BY DEF Winner, best, count
<1> HIDE DEF b
<1> QED BY <1>5, <1>6

(* A suggestion for a field the model may not propose is one of the votes, *)
(* by majority or by tie-break.                                            *)
LEMMA SuggestFacts ==
  ASSUME NEW S, NEW cands \in Seq(S), NEW table, NEW col, col \notin ProposeAllowed, NEW llm,
         NEW V, \A t \in S : table[t].vals[col] \in V
  PROVE  ApplyProposeOverride(col, SuggestForField(table, cands, col, llm), llm).value \in V \cup {NoVal}
<1> DEFINE votes == Votes(table, cands, col)
           tie == TryTiebreak(votes, Len(cands), llm)
           s == SuggestForField(table, cands, col, llm)
<1>1. votes \in Seq(V)
  BY VotesFacts
<1>2. SafePropose(col, llm).value = NoVal
  BY DEF SafePropose, Suggestion
<1>3. ApplyProposeOverride(col, s, llm) = s
  BY <1>2 DEF ApplyProposeOverride
<1>4. tie.value \in V \cup {NoVal}
  <2>1. \A v \in Range(votes) : v \in V
    BY <1>1 DEF Range
  <2> HIDE DEF votes
  <2> QED BY <2>1 DEF TryTiebreak, Suggestion
<1>5. votes = <<>> => s.value = NoVal
  BY <1>2 DEF SuggestForField, SuggestWhenNoVotes, Suggestion
<1>6. votes # <<>> => s = tie \/ s.value = Winner(votes)
  BY DEF SuggestForField, Suggestion
<1> HIDE DEF votes, tie, s
<1>7. votes # <<>> => Winner(votes) \in V
  BY <1>1, WinnerFacts
<1> QED BY <1>3, <1>4, <1>5, <1>6, <1>7 DEF s

(* The duplicates step: other tickets of the tenant, its people, and only  *)
(* the fields the service retrieves.                                       *)
LEMMA CheckFacts ==
  ASSUME NEW D, NEW ftsOrder \in Seq(D), NEW vecOrder \in Seq(D), NEW table, NEW probe, NEW llm,
         NEW c, c = CheckDuplicates(table, probe, ftsOrder, vecOrder, llm)
  PROVE  /\ DOMAIN c.sugg \subseteq Retrieved /\ "assigned_to" \in DOMAIN c.sugg
         /\ c.top # NoVal => c.top \in D /\ c.top # probe /\ table[c.top].tenant = table[probe].tenant
         /\ c.sugg["assigned_to"].value # NoVal =>
              \E t \in D : /\ table[t].tenant = table[probe].tenant
                          /\ c.sugg["assigned_to"].value = table[t].vals["assigned_to"]
<1> DEFINE S == {t \in D : table[t].tenant = table[probe].tenant}
           V == {table[t].vals["assigned_to"] : t \in S}
           found == SearchSimilar(table, probe, ftsOrder, vecOrder)
           others == {i \in DOMAIN found.cands : found.cands[i] # probe}
           cands == AtPositions(found.cands, others)
           targets == RetrievalSchema(table[probe].service).targets
<1>0. /\ \A t \in S : t \in D /\ table[t].tenant = table[probe].tenant
      /\ \A t \in S : table[t].vals["assigned_to"] \in V
      /\ \A v \in V : \E t \in S : v = table[t].vals["assigned_to"]
  OBVIOUS
<1>1. found.cands \in Seq(S) /\ found.top \in S \cup {NoVal}
  <2>1. found = SearchSimilar(table, probe, ftsOrder, vecOrder)
    OBVIOUS
  <2>2. S = {t \in D : table[t].tenant = table[probe].tenant}
    OBVIOUS
  <2> HIDE DEF found, S
  <2> QED BY <2>1, <2>2, SearchFacts
<1>2. /\ c.top = IF found.top = probe THEN NoVal ELSE found.top
      /\ c.sugg = BuildFieldSuggestions(table, cands, targets, llm)
  BY DEF CheckDuplicates
<1> HIDE DEF found, S, V
<1>3. others \in SUBSET DOMAIN found.cands /\ \A i \in others : found.cands[i] \in S
  BY <1>1
<1> HIDE DEF others
<1>4. cands \in Seq(S)
  BY <1>1, <1>3, PartFacts
<1> HIDE DEF cands
<1>5. targets \subseteq Retrieved /\ "assigned_to" \in targets
  BY DEF RetrievalSchema, Retrieved
<1> HIDE DEF targets
<1>6. /\ DOMAIN c.sugg = targets
      /\ c.sugg["assigned_to"] =
           ApplyProposeOverride("assigned_to", SuggestForField(table, cands, "assigned_to", llm), llm)
  BY <1>2, <1>5 DEF BuildFieldSuggestions
<1>7. "assigned_to" \notin ProposeAllowed
  BY DEF ProposeAllowed
<1>8. c.sugg["assigned_to"].value \in V \cup {NoVal}
  BY <1>0, <1>4, <1>6, <1>7, SuggestFacts
<1> QED BY <1>0, <1>1, <1>2, <1>5, <1>6, <1>8

(* The matrix always gives a priority. *)
LEMMA PriorityFacts ==
  ASSUME NEW r, NEW category, NEW infer
  PROVE  PrioritizeEntity(r, category, infer).priority # NoVal
<1>1. ASSUME NEW impact, NEW urgency PROVE LookupPriority(impact, urgency) # NoVal
  <2> DEFINE u == {n \in DOMAIN Levels : Levels[n] = urgency}
             n == CHOOSE n \in u : TRUE
  <2>1. CASE impact \in Impacts /\ u # {}
    <3>1. n \in {1, 2, 3, 4}
      BY <2>1 DEF Levels
    <3> HIDE DEF n
    <3>2. Matrix[impact][n] \in {1, 2, 3, 4}
      <4>1. impact \in {"Low", "On Users", "On Department", "On Business"}
        BY <2>1 DEF Impacts
      <4>2. Matrix[impact] \in {<<1, 1, 2, 2>>, <<1, 1, 2, 3>>, <<2, 2, 3, 4>>, <<2, 3, 4, 4>>}
        BY <4>1 DEF Matrix, Impacts
      <4> QED BY <3>1, <4>2
    <3>3. Levels[Matrix[impact][n]] \in {"Low", "Medium", "High", "Urgent"}
      BY <3>2 DEF Levels
    <3>4. LookupPriority(impact, urgency) = Levels[Matrix[impact][n]]
      BY <2>1 DEF LookupPriority, n
    <3> QED BY <3>3, <3>4 DEF NoVal
  <2>2. CASE ~ (impact \in Impacts /\ u # {})
    BY <2>2 DEF LookupPriority, NoVal
  <2> QED BY <2>1, <2>2
<1> QED BY <1>1 DEF PrioritizeEntity

(* The proposal that is assembled from sound steps. *)
LEMMA ProposalFacts ==
  ASSUME NEW t \in DOMAIN Table0, NEW r, r.tenant = TenantOf(t), NEW check, CheckOf(t, check),
         NEW assign, NEW prio, prio.priority # NoVal,
         NEW p, p = AssembleProposal(t, r, check, assign, prio)
  PROVE  /\ ProposalOK(p) /\ p.tenant = TenantOf(t)
         /\ CheckNamesOwn(t, check) => OwnPerson(p.vals["assigned_to"], p.tenant)
<1>1. "priority" \notin DOMAIN check.sugg
  BY DEF CheckOf, Retrieved
<1>2. /\ p.ticket = t /\ p.tenant = r.tenant /\ p.top = check.top
      /\ p.vals["priority"] = prio.priority
      /\ p.vals["assigned_to"] = IF "assigned_to" \in DOMAIN check.sugg
                                 THEN check.sugg["assigned_to"].value ELSE NoVal
  <2> DEFINE value(c) ==
        CASE c \in DOMAIN check.sugg -> check.sugg[c].value
          [] c = "impact" -> prio.impact [] c = "urgency" -> prio.urgency
          [] c = "priority" -> prio.priority
          [] c = "assignment_group" -> assign.value [] OTHER -> NoVal
  <2>1. /\ p.ticket = t /\ p.tenant = r.tenant /\ p.top = check.top
        /\ p.vals = [c \in Columns |-> value(c)]
    BY DEF AssembleProposal
  <2>2. value("priority") = prio.priority
    BY <1>1
  <2>3. value("assigned_to") = IF "assigned_to" \in DOMAIN check.sugg
                               THEN check.sugg["assigned_to"].value ELSE NoVal
    OBVIOUS
  <2> HIDE DEF value
  <2>4. p.vals["priority"] = value("priority") /\ p.vals["assigned_to"] = value("assigned_to")
    BY <2>1 DEF Columns
  <2> QED BY <2>1, <2>2, <2>3, <2>4
<1> QED BY <1>1, <1>2 DEF ProposalOK, CheckOf, CheckNamesOwn, OwnPerson

-----------------------------------------------------------------------------
(* A row whose category is set is never written over. *)
Frozen ==
  \A t \in DOMAIN Table0 : row[t].vals["category"] # NoVal =>
    row'[t].vals = row[t].vals /\ row'[t].sla = row[t].sla

(* Rows that only lose their open status are as good as before. *)
LEMMA RowsStay ==
  ASSUME RowsOK, UNCHANGED row
  PROVE  RowsOK' /\ Frozen
BY DEF RowsOK, Frozen, SlaFollowsPriority

(* A step of one request keeps the invariant when it writes sound rows and *)
(* proposals, and leaves that request at a sound stage.                    *)
LEMMA Assemble ==
  ASSUME TriageInv, NEW j \in Jobs, RowsOK', Frozen, PropsOK', DOMAIN prop' = Jobs,
         NEW r, Set(j, r), DOMAIN r = JobFields, r.pc \in PCs,
         NEW b \in BusStates, bus' = [bus EXCEPT ![j] = b], Stage(j, r, b),
         Applied(r, b) /\ r.final["category"] # NoVal =>
           r.p.ticket \in DOMAIN Table0 /\ HeldBy(r, row'[r.p.ticket])
  PROVE  TriageInv'
<1>1. DOMAIN job = Jobs /\ DOMAIN bus = Jobs
  BY DEF TriageInv, ShapesOK
<1>2. /\ DOMAIN job' = Jobs /\ job'[j] = r /\ \A i \in Jobs \ {j} : job'[i] = job[i]
      /\ DOMAIN bus' = Jobs /\ bus'[j] = b /\ \A i \in Jobs \ {j} : bus'[i] = bus[i]
  BY <1>1 DEF Set
<1>3. ShapesOK'
  <2>1. job' = [i \in Jobs |-> job'[i]]
    BY <1>1 DEF Set
  <2> QED BY <1>2, <2>1 DEF TriageInv, ShapesOK
<1>4. StageOK'
  BY <1>2 DEF TriageInv, StageOK
<1>5. ASSUME NEW i \in Jobs, Applied(job'[i], bus'[i]), job'[i].final["category"] # NoVal
      PROVE  job'[i].p.ticket \in DOMAIN Table0 /\ HeldBy(job'[i], row'[job'[i].p.ticket])
  <2>1. CASE i = j
    BY <1>2, <1>5, <2>1
  <2>2. CASE i # j
    <3> DEFINE t == job[i].p.ticket
    <3>1. job'[i] = job[i] /\ bus'[i] = bus[i]
      BY <1>2, <2>2
    <3>2. t \in DOMAIN Table0 /\ HeldBy(job[i], row[t])
      BY <1>5, <3>1 DEF TriageInv, AppliedOK
    <3>3. row[t].vals["category"] # NoVal
      BY <1>5, <3>1, <3>2 DEF HeldBy, Columns
    <3>4. row'[t].vals = row[t].vals /\ row'[t].sla = row[t].sla
      BY <3>2, <3>3 DEF Frozen
    <3> QED BY <3>1, <3>2, <3>4 DEF HeldBy
  <2> QED BY <2>1, <2>2
<1>6. AppliedOK'
  BY <1>5 DEF AppliedOK
<1> QED BY <1>3, <1>4, <1>6 DEF TriageInv

(* In particular a step that writes neither rows nor proposals, and writes *)
(* nothing down as applied that was not.                                   *)
LEMMA JobKeeps ==
  ASSUME TriageInv, NEW j \in Jobs, UNCHANGED <<row, prop>>,
         NEW r, Set(j, r), DOMAIN r = JobFields, r.pc \in PCs,
         NEW b \in BusStates, bus' = [bus EXCEPT ![j] = b], Stage(j, r, b),
         Applied(r, b) => Applied(job[j], bus[j]) /\ r.final = job[j].final /\ r.p = job[j].p
  PROVE  TriageInv'
<1>1. RowsOK' /\ Frozen
  BY RowsStay DEF TriageInv
<1>2. PropsOK' /\ DOMAIN prop' = Jobs
  BY DEF TriageInv, PropsOK, ShapesOK
<1>3. Applied(r, b) /\ r.final["category"] # NoVal =>
        r.p.ticket \in DOMAIN Table0 /\ HeldBy(r, row'[r.p.ticket])
  BY DEF TriageInv, AppliedOK, HeldBy
<1> QED BY <1>1, <1>2, <1>3, Assemble

(* A request's record and what is known of it. *)
LEMMA JobFacts ==
  ASSUME TriageInv, NEW j \in Jobs
  PROVE  /\ Stage(j, job[j], bus[j]) /\ DOMAIN job[j] = JobFields /\ job[j].pc \in PCs
         /\ bus[j] \in BusStates
         /\ UNCHANGED bus => bus' = [bus EXCEPT ![j] = bus[j]]
<1>1. UNCHANGED bus => bus' = [bus EXCEPT ![j] = bus[j]]
  BY DEF TriageInv, ShapesOK
<1> QED BY <1>1 DEF TriageInv, StageOK, ShapesOK

(* The record of a request that ends. *)
LEMMA EndFacts ==
  ASSUME NEW j, NEW res, NEW r, r = End(j, res)
  PROVE  /\ DOMAIN r = JobFields /\ r.pc = "end" /\ r.res = res /\ r.ask = job[j].ask
         /\ r.p = job[j].p /\ r.final = job[j].final /\ r.reply = "none"
BY DEF End, Idle, JobFields

(* A request that ends with an answer other than "applied". *)
LEMMA EndKeeps ==
  ASSUME TriageInv, NEW j \in Jobs, UNCHANGED <<row, prop>>, job[j].pc # "idle",
         NEW res, res # "applied", Set(j, End(j, res)),
         NEW b \in BusStates, bus' = [bus EXCEPT ![j] = b], b \in {bus[j], "none"}
  PROVE  TriageInv'
<1> DEFINE r == End(j, res)
<1>1. /\ DOMAIN r = JobFields /\ r.pc = "end" /\ r.res = res /\ r.ask = job[j].ask
      /\ r.p = job[j].p /\ r.final = job[j].final /\ r.reply = "none"
  BY EndFacts
<1> HIDE DEF r
<1>2. Stage(j, job[j], bus[j])
  BY JobFacts
<1>3. Stage(j, r, b)
  BY <1>1, <1>2 DEF Stage, Deciding
<1>4. Applied(r, b) => Applied(job[j], bus[j])
  BY <1>1 DEF Applied
<1> QED BY <1>1, <1>3, <1>4, JobKeeps DEF PCs, r

LEMMA BeginKeeps ==
  ASSUME TriageInv, NEW j \in Jobs, Begin(j)
  PROVE  TriageInv'
<1>1. PICK a \in Asks(j) :
        Set(j, IF Refused(a) # {} THEN [Idle EXCEPT !.pc = "end", !.ask = a, !.res = "403"]
               ELSE [Idle EXCEPT !.pc = a.kind, !.ask = a])
  BY DEF Begin
<1> DEFINE r == IF Refused(a) # {} THEN [Idle EXCEPT !.pc = "end", !.ask = a, !.res = "403"]
                ELSE [Idle EXCEPT !.pc = a.kind, !.ask = a]
<1>2. a.kind \in {"queue", "propose", "decide"}
  BY AskAssumption
<1>3. /\ DOMAIN r = JobFields /\ r.ask = a /\ r.reply = "none"
      /\ (r.pc = "end" /\ r.res = "403") \/ (r.pc = a.kind /\ r.res = "none")
  BY DEF Idle, JobFields
<1>4. bus[j] = "none" /\ bus' = [bus EXCEPT ![j] = bus[j]] /\ bus[j] \in BusStates
  BY JobFacts DEF Begin, Stage
<1> HIDE DEF r
<1>5. Stage(j, r, bus[j])
  BY <1>2, <1>3, <1>4 DEF Stage, Deciding
<1>6. ~ Applied(r, bus[j])
  BY <1>2, <1>3, <1>4 DEF Applied
<1>7. r.pc \in PCs
  BY <1>2, <1>3 DEF PCs
<1>8. UNCHANGED <<row, prop>> /\ Set(j, r)
  BY <1>1 DEF Begin, r
<1> QED BY <1>3, <1>4, <1>5, <1>6, <1>7, <1>8, JobKeeps

LEMMA QueueKeeps ==
  ASSUME TriageInv, NEW j \in Jobs, QueueSummary(j)
  PROVE  TriageInv'
<1> DEFINE f == {t \in ListAll(job[j].ask.tenant, job[j].ask.service) : IsInQueue(row[t])}
           e == End(j, "ok")
           r == [e EXCEPT !.final = f]
<1> HIDE DEF f, e
<1>1. /\ DOMAIN e = JobFields /\ e.pc = "end" /\ e.res = "ok" /\ e.ask = job[j].ask /\ e.reply = "none"
  BY EndFacts DEF e
<1>2. /\ DOMAIN r = JobFields /\ r.pc = "end" /\ r.res = "ok" /\ r.ask = job[j].ask /\ r.reply = "none"
  BY <1>1 DEF JobFields
<1>3. /\ bus[j] = "none" /\ bus' = [bus EXCEPT ![j] = bus[j]] /\ bus[j] \in BusStates
      /\ job[j].ask \in Asks(j)
  BY JobFacts DEF QueueSummary, Stage
<1>4. UNCHANGED <<row, prop>> /\ Set(j, r)
  BY DEF QueueSummary, f, e
<1> HIDE DEF r
<1>5. Stage(j, r, bus[j]) /\ ~ Applied(r, bus[j])
  BY <1>2, <1>3 DEF Stage, Deciding, Applied
<1> QED BY <1>2, <1>3, <1>4, <1>5, JobKeeps DEF PCs

LEMMA ProposeReadKeeps ==
  ASSUME TriageInv, NEW j \in Jobs, ProposeRead(j)
  PROVE  TriageInv'
<1>1. /\ job[j].pc = "propose" /\ UNCHANGED <<row, prop, bus>> /\ Stage(j, job[j], bus[j])
      /\ DOMAIN job[j] = JobFields /\ bus[j] \in BusStates /\ bus' = [bus EXCEPT ![j] = bus[j]]
  BY JobFacts DEF ProposeRead
<1> DEFINE t == job[j].ask.ticket
           r == [job[j] EXCEPT !.pc = "check"]
<1>2. CASE Set(j, End(j, "404")) \/ Set(j, End(j, "409"))
  BY <1>1, <1>2, EndKeeps
<1>3. CASE Found(t, job[j].ask.tenant) /\ Set(j, r)
  <2>1. t \in DOMAIN Table0 /\ TenantOf(t) = job[j].ask.tenant
    BY <1>3 DEF Found, TriageInv, RowsOK
  <2>2. /\ DOMAIN r = JobFields /\ r.pc = "check" /\ r.ask = job[j].ask /\ r.res = job[j].res
        /\ r.reply = job[j].reply
    BY <1>1 DEF JobFields
  <2> HIDE DEF r
  <2>3. Stage(j, r, bus[j])
    BY <1>1, <2>1, <2>2 DEF Stage, Deciding
  <2>4. ~ Applied(r, bus[j])
    BY <1>1, <2>2 DEF Stage, Applied
  <2> QED BY <1>1, <1>3, <2>2, <2>3, <2>4, JobKeeps DEF PCs
<1> QED BY <1>2, <1>3 DEF ProposeRead

(* The table as the search sees it. *)
LEMMA TableFacts ==
  ASSUME RowsOK
  PROVE  /\ \A t \in DOMAIN Table0 : row[t].tenant = TenantOf(t)
         /\ \A s \in Rankings \cup {<<>>} : s \in Seq(DOMAIN Table0)
<1>1. \A t \in DOMAIN Table0 : row[t].tenant = TenantOf(t)
  BY DEF RowsOK
<1>2. \A s \in Rankings : s \in Seq(DOMAIN Table0)
  BY AskAssumption
<1>3. <<>> \in Seq(DOMAIN Table0)
  OBVIOUS
<1> QED BY <1>1, <1>2, <1>3

(* The step's record and the soundness of what it carries. *)
LEMMA CheckStepFacts ==
  ASSUME TriageInv, NEW j \in Jobs, CheckStep(j)
  PROVE  \E c : /\ CheckOf(job[j].ask.ticket, c)
                /\ PeopleOK => CheckNamesOwn(job[j].ask.ticket, c)
                /\ Set(j, [job[j] EXCEPT !.pc = "advise", !.check = c])
<1> DEFINE t == job[j].ask.ticket
<1>1. t \in DOMAIN Table0
  BY JobFacts DEF CheckStep, Stage
<1>2. PICK fts \in Rankings, vec \in Rankings \cup {<<>>}, llm \in Replies :
        Set(j, [job[j] EXCEPT !.pc = "advise", !.check = CheckDuplicates(row, t, fts, vec, llm)])
  BY DEF CheckStep
<1> DEFINE c == CheckDuplicates(row, t, fts, vec, llm)
           D == DOMAIN Table0
<1>3. fts \in Seq(D) /\ vec \in Seq(D) /\ \A x \in D : row[x].tenant = TenantOf(x)
  BY TableFacts DEF TriageInv
<1>5. PeopleOK => \A x \in D : OwnPerson(row[x].vals["assigned_to"], TenantOf(x))
  BY DEF PeopleOK, RowsNameOwn
<1> HIDE DEF D
<1>7. /\ DOMAIN c.sugg \subseteq Retrieved
      /\ c.top # NoVal => c.top \in D /\ c.top # t /\ row[c.top].tenant = row[t].tenant
      /\ c.sugg["assigned_to"].value # NoVal =>
           \E x \in D : /\ row[x].tenant = row[t].tenant
                       /\ c.sugg["assigned_to"].value = row[x].vals["assigned_to"]
  <2>1. c = CheckDuplicates(row, t, fts, vec, llm)
    OBVIOUS
  <2> HIDE DEF c, t
  <2> QED BY <1>3, <2>1, CheckFacts
<1> HIDE DEF c
<1>8. CheckOf(t, c)
  BY <1>1, <1>3, <1>7 DEF CheckOf, Another, D
<1>9. PeopleOK => CheckNamesOwn(t, c)
  BY <1>1, <1>3, <1>5, <1>7 DEF D, CheckNamesOwn, OwnPerson
<1>10. Set(j, [job[j] EXCEPT !.pc = "advise", !.check = c])
  BY <1>2 DEF c
<1> QED BY <1>8, <1>9, <1>10

LEMMA CheckKeeps ==
  ASSUME TriageInv, NEW j \in Jobs, CheckStep(j)
  PROVE  TriageInv'
<1>1. /\ job[j].pc = "check" /\ UNCHANGED <<row, prop, bus>> /\ Stage(j, job[j], bus[j])
      /\ DOMAIN job[j] = JobFields /\ bus[j] \in BusStates /\ bus' = [bus EXCEPT ![j] = bus[j]]
  BY JobFacts DEF CheckStep
<1>2. PICK c : /\ CheckOf(job[j].ask.ticket, c)
               /\ Set(j, [job[j] EXCEPT !.pc = "advise", !.check = c])
  BY CheckStepFacts
<1> DEFINE r == [job[j] EXCEPT !.pc = "advise", !.check = c]
<1>3. /\ DOMAIN r = JobFields /\ r.pc = "advise" /\ r.ask = job[j].ask /\ r.res = job[j].res
      /\ r.check = c
  BY <1>1 DEF JobFields
<1> HIDE DEF r
<1>4. Stage(j, r, bus[j]) /\ ~ Applied(r, bus[j])
  BY <1>1, <1>2, <1>3 DEF Stage, Deciding, Applied
<1> QED BY <1>1, <1>2, <1>3, <1>4, JobKeeps DEF PCs, r

LEMMA AdviseKeeps ==
  ASSUME TriageInv, NEW j \in Jobs, AdviseSteps(j)
  PROVE  TriageInv'
<1>1. /\ job[j].pc = "advise" /\ UNCHANGED <<row, prop, bus>> /\ Stage(j, job[j], bus[j])
      /\ DOMAIN job[j] = JobFields /\ bus[j] \in BusStates /\ bus' = [bus EXCEPT ![j] = bus[j]]
  BY JobFacts DEF AdviseSteps
<1>2. CASE Set(j, End(j, "500"))
  BY <1>1, <1>2, EndKeeps
<1>3. ASSUME NEW assign, NEW prio, prio.priority # NoVal,
             Set(j, [job[j] EXCEPT !.pc = "assemble", !.assign = assign, !.prio = prio])
      PROVE  TriageInv'
  <2> DEFINE r == [job[j] EXCEPT !.pc = "assemble", !.assign = assign, !.prio = prio]
  <2>1. /\ DOMAIN r = JobFields /\ r.pc = "assemble" /\ r.ask = job[j].ask /\ r.res = job[j].res
        /\ r.check = job[j].check /\ r.prio = prio
    BY <1>1 DEF JobFields
  <2> HIDE DEF r
  <2>2. Stage(j, r, bus[j]) /\ ~ Applied(r, bus[j])
    BY <1>1, <1>3, <2>1 DEF Stage, Deciding, Applied
  <2> QED BY <1>1, <1>3, <2>1, <2>2, JobKeeps DEF PCs, r
<1>4. \/ Set(j, End(j, "500"))
      \/ \E assign, prio : /\ prio.priority # NoVal
                           /\ Set(j, [job[j] EXCEPT !.pc = "assemble", !.assign = assign, !.prio = prio])
  BY PriorityFacts DEF AdviseSteps
<1> QED BY <1>2, <1>3, <1>4

LEMMA StepFailsKeeps ==
  ASSUME TriageInv, NEW j \in Jobs, StepFails(j)
  PROVE  TriageInv'
BY JobFacts, EndKeeps DEF StepFails

LEMMA AssembleStepKeeps ==
  ASSUME TriageInv, NEW j \in Jobs, AssembleStep(j)
  PROVE  TriageInv'
<1> DEFINE t == job[j].ask.ticket
           p == AssembleProposal(t, row[t], job[j].check, job[j].assign, job[j].prio)
           e == End(j, "ok")
           r == [e EXCEPT !.p = p]
<1>1. /\ job[j].pc = "assemble" /\ UNCHANGED <<row, bus>> /\ Stage(j, job[j], bus[j])
      /\ bus[j] \in BusStates /\ bus' = [bus EXCEPT ![j] = bus[j]]
  BY JobFacts DEF AssembleStep
<1>2. t \in DOMAIN Table0 /\ row[t].tenant = TenantOf(t) /\ CheckOf(t, job[j].check)
  BY <1>1 DEF Stage, TriageInv, RowsOK
<1>3. prop' = [prop EXCEPT ![j] = p] /\ Set(j, r)
  BY DEF AssembleStep
<1> HIDE DEF p, e
<1>4. ProposalOK(p)
  <2>1. p = AssembleProposal(t, row[t], job[j].check, job[j].assign, job[j].prio)
    BY DEF p
  <2>2. job[j].prio.priority # NoVal
    BY <1>1 DEF Stage
  <2> HIDE DEF t
  <2> QED BY <1>2, <2>1, <2>2, ProposalFacts
<1>5. PropsOK' /\ DOMAIN prop' = Jobs
  BY <1>3, <1>4 DEF TriageInv, PropsOK, ShapesOK
<1>6. /\ DOMAIN e = JobFields /\ e.pc = "end" /\ e.res = "ok" /\ e.ask = job[j].ask
  BY EndFacts DEF e
<1>7. /\ DOMAIN r = JobFields /\ r.pc = "end" /\ r.res = "ok" /\ r.ask = job[j].ask
  BY <1>6 DEF JobFields
<1> HIDE DEF r
<1>8. Stage(j, r, bus[j]) /\ ~ Applied(r, bus[j])
  BY <1>1, <1>7 DEF Stage, Deciding, Applied
<1>9. RowsOK' /\ Frozen
  BY <1>1, RowsStay DEF TriageInv
<1> QED BY <1>1, <1>3, <1>5, <1>7, <1>8, <1>9, Assemble DEF PCs

-----------------------------------------------------------------------------
(* What a decision writes: an edited or a proposed value for each field.   *)
LEMMA FinalFacts ==
  ASSUME NEW p, p.vals["priority"] # NoVal, NEW edits, NEW final, final = MergeFinalValues(p, edits)
  PROVE  /\ final["priority"] # NoVal
         /\ \/ final["assigned_to"] = p.vals["assigned_to"]
            \/ "assigned_to" \in DOMAIN edits /\ final["assigned_to"] = edits["assigned_to"]
<1>1. "priority" \in Columns /\ "assigned_to" \in Columns
  BY DEF Columns
<1>2. "priority" \in WritableFieldsFor(p.service) /\ "assigned_to" \in WritableFieldsFor(p.service)
  BY DEF WritableFieldsFor, TriageFieldsFor, Columns
<1> QED BY <1>1, <1>2 DEF MergeFinalValues

(* A row that is written. *)
LEMMA WrittenFacts ==
  ASSUME NEW r, DOMAIN r = Fields, NEW final, NEW sla, NEW w, w = Written(r, final, sla)
  PROVE  /\ DOMAIN w = Fields /\ DOMAIN w.vals = Columns
         /\ w.tenant = r.tenant /\ w.sla = sla
         /\ \A c \in Columns : w.vals[c] = IF final[c] # NoVal THEN final[c] ELSE r.vals[c]
BY DEF Written, Fields

(* The effect of a decision, whichever way it is taken. *)
LEMMA DecisionFacts ==
  ASSUME RowsOK, NEW p, ProposalOK(p), NEW ask, NEW d, d = Decision(p, ask), row' = d.row
  PROVE  /\ RowsOK' /\ Frozen
         /\ d.reply \in {"missing", "conflict", "applied", "discarded"}
         /\ d.reply = "applied" => HeldBy(d, row'[p.ticket])
         /\ \A t \in DOMAIN Table0 :
              \/ row'[t].vals["assigned_to"] = row[t].vals["assigned_to"]
              \/ /\ t = p.ticket
                 /\ \/ row'[t].vals["assigned_to"] = p.vals["assigned_to"]
                    \/ /\ "assigned_to" \in DOMAIN ask.edits
                       /\ row'[t].vals["assigned_to"] = ask.edits["assigned_to"]
<1> DEFINE t == p.ticket
           final == MergeFinalValues(p, ask.edits)
           sla == ComputeSlaDue(final["priority"])
           w == Written(row[t], final, sla)
<1>1. t \in DOMAIN Table0 /\ DOMAIN row = DOMAIN Table0 /\ DOMAIN row[t] = Fields
  BY DEF ProposalOK, RowsOK
<1>2. /\ final["priority"] # NoVal
      /\ \/ final["assigned_to"] = p.vals["assigned_to"]
         \/ "assigned_to" \in DOMAIN ask.edits /\ final["assigned_to"] = ask.edits["assigned_to"]
  <2> HIDE DEF final
  <2>1. final = MergeFinalValues(p, ask.edits)
    BY DEF final
  <2> QED BY <2>1, FinalFacts DEF ProposalOK
<1>3. \/ row' = row /\ d.reply \in {"missing", "conflict", "discarded"}
      \/ /\ row[t].vals["category"] = NoVal /\ row' = [row EXCEPT ![t] = w]
         /\ d.reply = "applied" /\ d.final = final
  <2> HIDE DEF final, sla, w
  <2>1. CASE ask.choice = "no"
    BY <2>1 DEF Decision
  <2>2. CASE ask.choice # "no"
    <3> DEFINE done == Apply(p, final, sla)
    <3>1. d.reply = done.reply /\ d.row = done.row /\ d.final = final
      BY <2>2 DEF Decision, final, sla
    <3>2. \/ done.reply \in {"missing", "conflict"} /\ done.row = row
          \/ /\ done.reply = "applied" /\ row[t].vals["category"] = NoVal
             /\ done.row = [row EXCEPT ![t] = w]
      BY DEF Apply, w
    <3> HIDE DEF done
    <3> QED BY <3>1, <3>2
  <2> QED BY <2>1, <2>2
<1>4. CASE row' = row /\ d.reply \in {"missing", "conflict", "discarded"}
  <2>1. RowsOK' /\ Frozen
    BY <1>4, RowsStay
  <2> QED BY <1>4, <2>1
<1>5. CASE /\ row[t].vals["category"] = NoVal /\ row' = [row EXCEPT ![t] = w]
           /\ d.reply = "applied" /\ d.final = final
  <2>1. /\ DOMAIN w = Fields /\ DOMAIN w.vals = Columns
        /\ w.tenant = row[t].tenant /\ w.sla = sla
        /\ \A c \in Columns : w.vals[c] = IF final[c] # NoVal THEN final[c] ELSE row[t].vals[c]
    BY <1>1, WrittenFacts
  <2>2. "priority" \in Columns /\ "assigned_to" \in Columns /\ "category" \in Columns
    BY DEF Columns
  <2> HIDE DEF final, w
  <2>3. DOMAIN row' = DOMAIN Table0 /\ row'[t] = w /\ \A x \in DOMAIN Table0 \ {t} : row'[x] = row[x]
    BY <1>1, <1>5
  <2>4. w.sla = ComputeSlaDue(w.vals["priority"]) /\ w.sla = ComputeSlaDue(final["priority"])
    BY <1>2, <2>1, <2>2
  <2>5. HeldBy(d, row'[t])
    BY <1>5, <2>1, <2>3, <2>4 DEF HeldBy
  <2>6. Frozen
    BY <1>5, <2>3 DEF Frozen
  <2>7. SlaFollowsPriority'
    BY <1>1, <2>3, <2>4 DEF RowsOK, SlaFollowsPriority
  <2>8. RowsOK'
    BY <1>1, <2>1, <2>3, <2>7 DEF RowsOK
  <2>9. \/ w.vals["assigned_to"] = row[t].vals["assigned_to"]
        \/ w.vals["assigned_to"] = p.vals["assigned_to"]
        \/ "assigned_to" \in DOMAIN ask.edits /\ w.vals["assigned_to"] = ask.edits["assigned_to"]
    BY <1>2, <2>1, <2>2
  <2> QED BY <1>5, <2>3, <2>5, <2>6, <2>8, <2>9
<1> QED BY <1>3, <1>4, <1>5

-----------------------------------------------------------------------------
(* The steps of POST /decide. *)
LEMMA DecideReadKeeps ==
  ASSUME TriageInv, NEW j \in Jobs, DecideRead(j)
  PROVE  TriageInv'
<1> DEFINE p == prop[job[j].ask.proposal]
           pc == IF job[j].ask.bus THEN "sent" ELSE "direct"
           b == IF job[j].ask.bus THEN "queued" ELSE bus[j]
           r == [job[j] EXCEPT !.pc = pc, !.p = p]
<1>1. /\ job[j].pc = "decide" /\ UNCHANGED <<row, prop>> /\ Stage(j, job[j], bus[j])
      /\ DOMAIN job[j] = JobFields /\ bus[j] = "none"
      /\ UNCHANGED bus => bus' = [bus EXCEPT ![j] = bus[j]]
  BY JobFacts DEF DecideRead, Stage
<1>2. CASE (Set(j, End(j, "404")) \/ Set(j, End(j, "422"))) /\ UNCHANGED bus
  BY <1>1, <1>2, EndKeeps DEF BusStates
<1>3. CASE p # NoProposal /\ p.tenant = job[j].ask.tenant /\ Set(j, r) /\ bus' = [bus EXCEPT ![j] = b]
  <2>1. job[j].ask \in Asks(j) /\ job[j].ask.kind = "decide" /\ job[j].ask.proposal \in Jobs
    BY <1>1, AskAssumption DEF Stage
  <2>2. ProposalOK(p)
    BY <1>3, <2>1 DEF TriageInv, PropsOK
  <2>3. /\ pc \in {"sent", "direct"} /\ b \in {"queued", "none"} /\ (pc = "direct" => b = "none")
    BY <1>1
  <2> HIDE DEF p, pc, b
  <2>4. /\ DOMAIN r = JobFields /\ r.pc = pc /\ r.ask = job[j].ask /\ r.res = job[j].res
        /\ r.p = p /\ r.reply = job[j].reply
    BY <1>1 DEF JobFields
  <2> HIDE DEF r
  <2>5. Stage(j, r, b) /\ ~ Applied(r, b)
    BY <1>1, <1>3, <2>1, <2>2, <2>3, <2>4 DEF Stage, Deciding, Applied
  <2>6. r.pc \in PCs /\ b \in BusStates
    BY <2>3, <2>4 DEF PCs, BusStates
  <2> QED BY <1>1, <1>3, <2>4, <2>5, <2>6, JobKeeps
<1>4. \/ (Set(j, End(j, "404")) \/ Set(j, End(j, "422"))) /\ UNCHANGED bus
      \/ p # NoProposal /\ p.tenant = job[j].ask.tenant /\ Set(j, r) /\ bus' = [bus EXCEPT ![j] = b]
  <2>1. CASE p = NoProposal \/ p.tenant # job[j].ask.tenant
    BY <2>1 DEF DecideRead
  <2>2. CASE p # NoProposal /\ p.tenant = job[j].ask.tenant /\ BadFields(p, job[j].ask) # {}
    BY <2>2 DEF DecideRead
  <2>3. CASE p # NoProposal /\ p.tenant = job[j].ask.tenant /\ BadFields(p, job[j].ask) = {}
    <3>1. Set(j, r) /\ bus' = IF job[j].ask.bus THEN [bus EXCEPT ![j] = "queued"] ELSE bus
      BY <2>3 DEF DecideRead
    <3>2. bus' = [bus EXCEPT ![j] = b]
      BY <1>1, <3>1
    <3> QED BY <2>3, <3>1, <3>2
  <2> QED BY <2>1, <2>2, <2>3
<1> QED BY <1>2, <1>3, <1>4

LEMMA DirectKeeps ==
  ASSUME TriageInv, NEW j \in Jobs, DecideDirect(j)
  PROVE  TriageInv'
<1> DEFINE p == job[j].p
           d == Decision(p, job[j].ask)
           r == [job[j] EXCEPT !.pc = "reply", !.reply = d.reply, !.final = d.final]
<1>1. /\ job[j].pc = "direct" /\ UNCHANGED <<prop, bus>> /\ Stage(j, job[j], bus[j])
      /\ DOMAIN job[j] = JobFields /\ bus[j] \in BusStates /\ bus' = [bus EXCEPT ![j] = bus[j]]
  BY JobFacts DEF DecideDirect
<1>2. ProposalOK(p) /\ bus[j] = "none"
  BY <1>1 DEF Stage, Deciding
<1>3. row' = d.row /\ Set(j, r)
  BY DEF DecideDirect
<1>4. /\ RowsOK' /\ Frozen
      /\ d.reply = "applied" => HeldBy(d, row'[p.ticket])
  <2>1. d = Decision(p, job[j].ask)
    OBVIOUS
  <2> HIDE DEF d, p
  <2> QED BY <1>2, <1>3, <2>1, DecisionFacts DEF TriageInv
<1> HIDE DEF d
<1>5. /\ DOMAIN r = JobFields /\ r.pc = "reply" /\ r.ask = job[j].ask /\ r.res = job[j].res
      /\ r.p = p /\ r.reply = d.reply /\ r.final = d.final
  BY <1>1 DEF JobFields
<1> HIDE DEF r
<1>6. Stage(j, r, bus[j])
  BY <1>1, <1>2, <1>5 DEF Stage, Deciding
<1>7. Applied(r, bus[j]) /\ r.final["category"] # NoVal =>
        r.p.ticket \in DOMAIN Table0 /\ HeldBy(r, row'[r.p.ticket])
  BY <1>1, <1>2, <1>4, <1>5 DEF Applied, HeldBy, Stage, ProposalOK
<1>8. PropsOK' /\ DOMAIN prop' = Jobs
  BY <1>1 DEF TriageInv, PropsOK, ShapesOK
<1> QED BY <1>1, <1>3, <1>4, <1>5, <1>6, <1>7, <1>8, Assemble DEF PCs

LEMMA OnDecideKeeps ==
  ASSUME TriageInv, NEW j \in Jobs, OnDecide(j)
  PROVE  TriageInv'
<1> DEFINE p == job[j].p
           d == Decision(p, job[j].ask)
           r == [job[j] EXCEPT !.final = d.final]
<1>1. /\ bus[j] = "queued" /\ UNCHANGED prop /\ Stage(j, job[j], bus[j])
      /\ DOMAIN job[j] = JobFields /\ job[j].pc \in PCs
  BY JobFacts DEF OnDecide
<1>2. ProposalOK(p) /\ job[j].pc \in {"sent", "end"} /\ job[j].res # "applied"
  BY <1>1 DEF Stage, Deciding
<1>3. PICK published \in BOOLEAN :
        /\ row' = d.row
        /\ bus' = [bus EXCEPT ![j] = IF d.reply = "discarded" \/ (d.reply = "applied" /\ published)
                                     THEN d.reply ELSE "error"]
        /\ Set(j, r)
  BY DEF OnDecide
<1> DEFINE b == IF d.reply = "discarded" \/ (d.reply = "applied" /\ published) THEN d.reply ELSE "error"
<1>4. /\ RowsOK' /\ Frozen
      /\ d.reply = "applied" => HeldBy(d, row'[p.ticket])
  <2>1. d = Decision(p, job[j].ask)
    OBVIOUS
  <2> HIDE DEF d, p
  <2> QED BY <1>2, <1>3, <2>1, DecisionFacts DEF TriageInv
<1> HIDE DEF d
<1>5. b \in {"applied", "discarded", "error"} /\ (b = "applied" => d.reply = "applied")
  OBVIOUS
<1>6. bus' = [bus EXCEPT ![j] = b]
  BY <1>3
<1>7. /\ DOMAIN r = JobFields /\ r.pc = job[j].pc /\ r.ask = job[j].ask /\ r.res = job[j].res
      /\ r.p = p /\ r.final = d.final
  BY <1>1 DEF JobFields
<1> HIDE DEF r, b
<1>8. Stage(j, r, b)
  BY <1>1, <1>2, <1>5, <1>7 DEF Stage, Deciding
<1>9. Applied(r, b) /\ r.final["category"] # NoVal =>
        r.p.ticket \in DOMAIN Table0 /\ HeldBy(r, row'[r.p.ticket])
  BY <1>2, <1>4, <1>5, <1>7 DEF Applied, HeldBy, ProposalOK
<1>10. PropsOK' /\ DOMAIN prop' = Jobs
  BY <1>1 DEF TriageInv, PropsOK, ShapesOK
<1>11. Set(j, r) /\ b \in BusStates
  BY <1>3, <1>5 DEF BusStates
<1> QED BY <1>1, <1>4, <1>6, <1>7, <1>8, <1>9, <1>10, <1>11, Assemble

(* A failed call of the store: it wrote nothing, or a decision of which    *)
(* the caller is not told.                                                 *)
LEMMA ApplyFailsKeeps ==
  ASSUME TriageInv, NEW j \in Jobs, ApplyFails(j)
  PROVE  TriageInv'
<1> DEFINE p == job[j].p
           d == Decision(p, job[j].ask)
<1>1. /\ UNCHANGED prop /\ Stage(j, job[j], bus[j]) /\ Deciding(job[j], bus[j])
      /\ DOMAIN job[j] = JobFields /\ job[j].pc \in PCs /\ bus[j] \in BusStates
  BY JobFacts DEF ApplyFails, Deciding
<1>2. ProposalOK(p)
  BY <1>1 DEF Stage
<1>3. RowsOK' /\ Frozen
  <2>1. d = Decision(p, job[j].ask) /\ row' \in {row, d.row}
    BY DEF ApplyFails
  <2> HIDE DEF d, p
  <2>2. CASE row' = row
    BY <2>2, RowsStay DEF TriageInv
  <2>3. CASE row' = d.row
    BY <1>2, <2>1, <2>3, DecisionFacts DEF TriageInv
  <2> QED BY <2>1, <2>2, <2>3
<1>4. PropsOK' /\ DOMAIN prop' = Jobs
  BY <1>1 DEF TriageInv, PropsOK, ShapesOK
<1>5. CASE job[j].pc = "direct" /\ Set(j, End(j, "500")) /\ UNCHANGED bus
  <2> DEFINE r == End(j, "500")
  <2>1. /\ DOMAIN r = JobFields /\ r.pc = "end" /\ r.res = "500" /\ r.ask = job[j].ask
    BY EndFacts
  <2> HIDE DEF r
  <2>2. bus' = [bus EXCEPT ![j] = bus[j]] /\ bus[j] = "none"
    BY <1>1, <1>5, JobFacts DEF Stage
  <2>3. Stage(j, r, bus[j]) /\ ~ Applied(r, bus[j])
    BY <1>1, <2>1, <2>2 DEF Stage, Deciding, Applied
  <2>4. Set(j, r) /\ r.pc \in PCs
    BY <1>5, <2>1 DEF r, PCs
  <2> QED BY <1>1, <1>3, <1>4, <2>1, <2>2, <2>3, <2>4, Assemble
<1>6. CASE bus[j] = "queued" /\ bus' = [bus EXCEPT ![j] = "error"] /\ UNCHANGED job
  <2>1. Set(j, job[j])
    BY <1>6 DEF Set, TriageInv, ShapesOK
  <2>2. Stage(j, job[j], "error") /\ ~ Applied(job[j], "error")
    BY <1>1, <1>6 DEF Stage, Deciding, Applied
  <2>3. "error" \in BusStates
    BY DEF BusStates
  <2> QED BY <1>1, <1>3, <1>4, <1>6, <2>1, <2>2, <2>3, Assemble
<1> QED BY <1>5, <1>6 DEF ApplyFails

LEMMA ReturnsKeeps ==
  ASSUME TriageInv, NEW j \in Jobs, DispatchReturns(j)
  PROVE  TriageInv'
<1> DEFINE reply == IF bus[j] = "error" THEN "conflict" ELSE bus[j]
           r == [job[j] EXCEPT !.pc = "reply", !.reply = reply]
<1>1. /\ job[j].pc = "sent" /\ UNCHANGED <<row, prop, bus>> /\ Stage(j, job[j], bus[j])
      /\ DOMAIN job[j] = JobFields /\ bus[j] \in BusStates /\ bus' = [bus EXCEPT ![j] = bus[j]]
      /\ bus[j] \in {"applied", "discarded", "error"} /\ Set(j, r)
  BY JobFacts DEF DispatchReturns
<1>2. reply = "applied" => bus[j] = "applied"
  OBVIOUS
<1> HIDE DEF reply
<1>3. /\ DOMAIN r = JobFields /\ r.pc = "reply" /\ r.ask = job[j].ask /\ r.res = job[j].res
      /\ r.p = job[j].p /\ r.reply = reply /\ r.final = job[j].final
  BY <1>1 DEF JobFields
<1> HIDE DEF r
<1>4. Stage(j, r, bus[j])
  BY <1>1, <1>3 DEF Stage, Deciding
<1>5. Applied(r, bus[j]) => Applied(job[j], bus[j])
  BY <1>2, <1>3 DEF Applied
<1> QED BY <1>1, <1>3, <1>4, <1>5, JobKeeps DEF PCs

LEMMA TimeoutKeeps ==
  ASSUME TriageInv, NEW j \in Jobs, DispatchTimeout(j) \/ NoResponders(j)
  PROVE  TriageInv'
<1>1. CASE DispatchTimeout(j)
  BY <1>1, JobFacts, EndKeeps DEF DispatchTimeout
<1>2. CASE NoResponders(j)
  <2>1. "none" \in BusStates
    BY DEF BusStates
  <2> QED BY <1>2, <2>1, EndKeeps DEF NoResponders
<1> QED BY <1>1, <1>2

LEMMA ReplyKeeps ==
  ASSUME TriageInv, NEW j \in Jobs, DecideReply(j)
  PROVE  TriageInv'
<1> DEFINE ok == job[j].reply \in {"applied", "discarded"}
           res == CASE ok -> job[j].reply [] job[j].reply = "missing" -> "404" [] OTHER -> "409"
           r == End(j, res)
<1>1. /\ job[j].pc = "reply" /\ UNCHANGED <<row, bus>> /\ Stage(j, job[j], bus[j])
      /\ bus[j] \in BusStates /\ bus' = [bus EXCEPT ![j] = bus[j]] /\ Set(j, r)
      /\ prop' = IF ok THEN [prop EXCEPT ![job[j].ask.proposal] = NoProposal] ELSE prop
  BY JobFacts DEF DecideReply
<1>2. res = "applied" => job[j].reply = "applied"
  <2>1. CASE ok
    <3>1. res = job[j].reply
      BY <2>1
    <3> QED BY <3>1
  <2>2. CASE ~ ok
    <3>1. res \in {"404", "409"}
      BY <2>2
    <3> QED BY <3>1
  <2> QED BY <2>1, <2>2
<1> HIDE DEF res
<1>3. /\ DOMAIN r = JobFields /\ r.pc = "end" /\ r.res = res /\ r.ask = job[j].ask
      /\ r.p = job[j].p /\ r.final = job[j].final /\ r.reply = "none"
  BY EndFacts
<1> HIDE DEF r
<1>4. Stage(j, r, bus[j])
  BY <1>1, <1>3 DEF Stage, Deciding
<1>5. Applied(r, bus[j]) => Applied(job[j], bus[j])
  BY <1>1, <1>2, <1>3 DEF Applied
<1>6. RowsOK' /\ Frozen
  BY <1>1, RowsStay DEF TriageInv
<1>7. PropsOK' /\ DOMAIN prop' = Jobs
  BY <1>1 DEF TriageInv, PropsOK, ShapesOK
<1>8. Applied(r, bus[j]) /\ r.final["category"] # NoVal =>
        r.p.ticket \in DOMAIN Table0 /\ HeldBy(r, row'[r.p.ticket])
  BY <1>1, <1>3, <1>5 DEF TriageInv, AppliedOK, HeldBy
<1> QED BY <1>1, <1>3, <1>4, <1>6, <1>7, <1>8, Assemble DEF PCs

(* Closing a ticket changes its status alone. *)
LEMMA CloseFacts ==
  ASSUME RowsOK, NEW x \in Closing, CloseTicket(x)
  PROVE  /\ RowsOK' /\ Frozen
         /\ \A t \in DOMAIN Table0 : row'[t].vals = row[t].vals /\ row'[t].sla = row[t].sla
<1>1. x \in DOMAIN Table0 /\ DOMAIN row = DOMAIN Table0 /\ DOMAIN row[x] = Fields
  BY AskAssumption DEF RowsOK
<1> DEFINE w == [row[x] EXCEPT !.status = "closed"]
<1>2. /\ DOMAIN w = Fields /\ w.vals = row[x].vals /\ w.sla = row[x].sla
      /\ w.tenant = row[x].tenant
  BY <1>1 DEF Fields
<1>3. row' = [row EXCEPT ![x] = w]
  BY DEF CloseTicket
<1> HIDE DEF w
<1>4. DOMAIN row' = DOMAIN Table0 /\ row'[x] = w /\ \A t \in DOMAIN Table0 \ {x} : row'[t] = row[t]
  BY <1>1, <1>3
<1>5. \A t \in DOMAIN Table0 : row'[t].vals = row[t].vals /\ row'[t].sla = row[t].sla
  BY <1>1, <1>2, <1>4
<1>6. SlaFollowsPriority'
  BY <1>1, <1>4, <1>5 DEF RowsOK, SlaFollowsPriority
<1> QED BY <1>1, <1>2, <1>4, <1>5, <1>6 DEF RowsOK, Frozen

LEMMA CloseKeeps ==
  ASSUME TriageInv, NEW x \in Closing, CloseTicket(x)
  PROVE  TriageInv'
<1>1. RowsOK' /\ \A t \in DOMAIN Table0 : row'[t].vals = row[t].vals /\ row'[t].sla = row[t].sla
  BY CloseFacts DEF TriageInv
<1>2. UNCHANGED <<prop, job, bus>>
  BY DEF CloseTicket
<1>3. AppliedOK'
  BY <1>1, <1>2 DEF TriageInv, AppliedOK, HeldBy
<1> QED BY <1>1, <1>2, <1>3 DEF TriageInv, ShapesOK, PropsOK, StageOK

LEMMA TriageInit ==
  ASSUME Init
  PROVE  TriageInv
<1>1. RowsOK
  BY TicketAssumption DEF Init, RowsOK, SlaFollowsPriority, TenantOf
<1>2. /\ \A j \in Jobs : /\ job[j] = Idle /\ prop[j] = NoProposal /\ bus[j] = "none"
      /\ DOMAIN job = Jobs /\ DOMAIN prop = Jobs /\ bus \in [Jobs -> BusStates]
      /\ job = [j \in Jobs |-> job[j]]
  BY DEF Init, BusStates
<1>3. /\ DOMAIN Idle = JobFields /\ Idle.pc = "idle" /\ Idle.res = "none" /\ Idle.reply = "none"
  BY DEF Idle, JobFields
<1>4. ShapesOK /\ PropsOK
  BY <1>2, <1>3 DEF ShapesOK, PropsOK, PCs
<1>5. StageOK
  BY <1>2, <1>3 DEF StageOK, Stage, Deciding
<1>6. AppliedOK
  BY <1>2, <1>3 DEF AppliedOK, Applied
<1> QED BY <1>1, <1>4, <1>5, <1>6 DEF TriageInv

LEMMA TriageStep ==
  ASSUME TriageInv, [Next]_vars
  PROVE  TriageInv'
<1>1. CASE UNCHANGED vars
  BY <1>1 DEF vars, TriageInv, RowsOK, SlaFollowsPriority, ShapesOK, PropsOK, StageOK, AppliedOK
<1>2. ASSUME NEW j \in Jobs,
             \/ Begin(j) \/ QueueSummary(j) \/ ProposeRead(j) \/ CheckStep(j) \/ AdviseSteps(j)
             \/ AssembleStep(j) \/ StepFails(j)
      PROVE  TriageInv'
  BY <1>2, BeginKeeps, QueueKeeps, ProposeReadKeeps, CheckKeeps, AdviseKeeps, AssembleStepKeeps,
     StepFailsKeeps
<1>3. ASSUME NEW j \in Jobs,
             \/ DecideRead(j) \/ DecideDirect(j) \/ OnDecide(j) \/ ApplyFails(j) \/ DispatchReturns(j)
             \/ DispatchTimeout(j) \/ NoResponders(j) \/ DecideReply(j)
      PROVE  TriageInv'
  BY <1>3, DecideReadKeeps, DirectKeeps, OnDecideKeeps, ApplyFailsKeeps, ReturnsKeeps, TimeoutKeeps, ReplyKeeps
<1>4. CASE \E x \in Closing : CloseTicket(x)
  BY <1>4, CloseKeeps
<1> QED BY <1>1, <1>2, <1>3, <1>4 DEF Next, Done

(* The invariant holds of every behaviour, whatever the tickets, the       *)
(* rankings, the model's replies and the requests.                         *)
THEOREM TriageInvariant == Spec => []TriageInv
BY TriageInit, TriageStep, PTL DEF Spec

(* DecisionIsKept: what a caller was told is applied is never written over *)
(* by another decision, a late message or a retry.                         *)
THEOREM AppliedIsKept == Spec => []DecisionIsKept
<1>1. TriageInv => DecisionIsKept
  BY DEF TriageInv, AppliedOK, Applied, HeldBy, DecisionIsKept
<1> QED BY <1>1, TriageInvariant, PTL

(* SlaFollowsPriority: the deadline of a row is that of its priority.      *)
THEOREM DeadlineFollows == Spec => []SlaFollowsPriority
<1>1. TriageInv => SlaFollowsPriority
  BY DEF TriageInv, RowsOK
<1> QED BY <1>1, TriageInvariant, PTL

(* DuplicateIsAnother: a proposal points to another ticket of the tenant.  *)
THEOREM DuplicateInTenant == Spec => []DuplicateIsAnother
<1>1. TriageInv => DuplicateIsAnother
  BY DEF TriageInv, RowsOK, PropsOK, ProposalOK, Another, DuplicateIsAnother
<1> QED BY <1>1, TriageInvariant, PTL

-----------------------------------------------------------------------------
(* The people that are named. *)
LEMMA NamesKeep ==
  ASSUME TriageInv, PeopleOK, NEW j \in Jobs, NEW r, Set(j, r), NEW b, bus' = [bus EXCEPT ![j] = b],
         NamesOwn(r, b), RowsNameOwn', PropsNameOwn'
  PROVE  PeopleOK'
<1>1. DOMAIN job = Jobs /\ DOMAIN bus = Jobs
  BY DEF TriageInv, ShapesOK
<1>2. /\ job'[j] = r /\ \A i \in Jobs \ {j} : job'[i] = job[i]
      /\ bus'[j] = b /\ \A i \in Jobs \ {j} : bus'[i] = bus[i]
  BY <1>1 DEF Set
<1>3. \A i \in Jobs : NamesOwn(job'[i], bus'[i])
  BY <1>2 DEF PeopleOK
<1> QED BY <1>3 DEF PeopleOK

LEMMA EndNames ==
  ASSUME PeopleOK, NEW j \in Jobs, UNCHANGED <<row, prop>>, NEW res, NEW b, b \in {bus[j], "none"}
  PROVE  NamesOwn(End(j, res), b) /\ RowsNameOwn' /\ PropsNameOwn'
<1> DEFINE r == End(j, res)
<1>1. r.pc = "end" /\ r.p = job[j].p
  BY EndFacts
<1> HIDE DEF r
<1>2. NamesOwn(r, b)
  BY <1>1 DEF PeopleOK, NamesOwn, Deciding
<1> QED BY <1>2 DEF PeopleOK, RowsNameOwn, PropsNameOwn, r

LEMMA EndsNames ==
  ASSUME TriageInv, PeopleOK, NEW j \in Jobs, UNCHANGED <<row, prop>>,
         NEW res, Set(j, End(j, res)), NEW b, b \in {bus[j], "none"}, bus' = [bus EXCEPT ![j] = b]
  PROVE  PeopleOK'
BY EndNames, NamesKeep

(* The steps that name nobody new. *)
LEMMA AsideNames ==
  ASSUME TriageInv, PeopleOK, NEW j \in Jobs,
         Begin(j) \/ QueueSummary(j) \/ ProposeRead(j) \/ StepFails(j)
  PROVE  PeopleOK'
<1>1. /\ Stage(j, job[j], bus[j]) /\ DOMAIN job[j] = JobFields /\ UNCHANGED <<row, prop, bus>>
      /\ bus' = [bus EXCEPT ![j] = bus[j]] /\ bus[j] = "none"
  BY JobFacts DEF Begin, QueueSummary, ProposeRead, StepFails, Stage
<1>2. RowsNameOwn' /\ PropsNameOwn'
  BY <1>1 DEF PeopleOK, RowsNameOwn, PropsNameOwn
<1>3. \/ \E res : Set(j, End(j, res))
      \/ \E r : Set(j, r) /\ r.pc \in {"queue", "propose", "decide", "check", "end"}
  <2>1. CASE Begin(j)
    <3>1. PICK a \in Asks(j) :
            Set(j, IF Refused(a) # {} THEN [Idle EXCEPT !.pc = "end", !.ask = a, !.res = "403"]
                   ELSE [Idle EXCEPT !.pc = a.kind, !.ask = a])
      BY <2>1 DEF Begin
    <3> DEFINE r == IF Refused(a) # {} THEN [Idle EXCEPT !.pc = "end", !.ask = a, !.res = "403"]
                    ELSE [Idle EXCEPT !.pc = a.kind, !.ask = a]
    <3>2. r.pc \in {"queue", "propose", "decide", "end"}
      BY AskAssumption DEF Idle
    <3> HIDE DEF r
    <3> QED BY <3>1, <3>2 DEF r
  <2>2. CASE QueueSummary(j)
    <3> DEFINE f == {t \in ListAll(job[j].ask.tenant, job[j].ask.service) : IsInQueue(row[t])}
               e == End(j, "ok")
               r == [e EXCEPT !.final = f]
    <3>1. Set(j, r)
      BY <2>2 DEF QueueSummary
    <3> HIDE DEF f, e
    <3>2. DOMAIN e = JobFields /\ e.pc = "end"
      BY EndFacts DEF e
    <3>3. r.pc = "end"
      BY <3>2 DEF JobFields
    <3> QED BY <3>1, <3>3
  <2>3. CASE ProposeRead(j)
    <3> DEFINE r == [job[j] EXCEPT !.pc = "check"]
    <3>1. Set(j, r) \/ \E res : Set(j, End(j, res))
      BY <2>3 DEF ProposeRead
    <3>2. r.pc = "check"
      BY <1>1 DEF JobFields
    <3> QED BY <3>1, <3>2
  <2>4. CASE StepFails(j)
    BY <2>4 DEF StepFails
  <2> QED BY <2>1, <2>2, <2>3, <2>4
<1>4. CASE \E res : Set(j, End(j, res))
  BY <1>1, <1>4, EndsNames
<1>5. ASSUME NEW r, Set(j, r), r.pc \in {"queue", "propose", "decide", "check", "end"}
      PROVE  PeopleOK'
  <2>1. NamesOwn(r, bus[j])
    BY <1>1, <1>5 DEF NamesOwn, Deciding
  <2> QED BY <1>1, <1>2, <1>5, <2>1, NamesKeep
<1> QED BY <1>3, <1>4, <1>5

LEMMA CheckNames ==
  ASSUME TriageInv, PeopleOK, NEW j \in Jobs, CheckStep(j)
  PROVE  PeopleOK'
<1>1. /\ Stage(j, job[j], bus[j]) /\ DOMAIN job[j] = JobFields /\ UNCHANGED <<row, prop, bus>>
      /\ bus' = [bus EXCEPT ![j] = bus[j]] /\ bus[j] = "none"
  BY JobFacts DEF CheckStep, Stage
<1>2. RowsNameOwn' /\ PropsNameOwn'
  BY <1>1 DEF PeopleOK, RowsNameOwn, PropsNameOwn
<1>3. PICK c : /\ CheckNamesOwn(job[j].ask.ticket, c)
               /\ Set(j, [job[j] EXCEPT !.pc = "advise", !.check = c])
  BY CheckStepFacts
<1> DEFINE r == [job[j] EXCEPT !.pc = "advise", !.check = c]
<1>4. r.pc = "advise" /\ r.ask = job[j].ask /\ r.check = c
  BY <1>1 DEF JobFields
<1> HIDE DEF r
<1>5. NamesOwn(r, bus[j])
  BY <1>1, <1>3, <1>4 DEF NamesOwn, Deciding
<1> QED BY <1>1, <1>2, <1>3, <1>5, NamesKeep DEF r

LEMMA AdviseNames ==
  ASSUME TriageInv, PeopleOK, NEW j \in Jobs, AdviseSteps(j)
  PROVE  PeopleOK'
<1>1. /\ Stage(j, job[j], bus[j]) /\ DOMAIN job[j] = JobFields /\ UNCHANGED <<row, prop, bus>>
      /\ bus' = [bus EXCEPT ![j] = bus[j]] /\ bus[j] = "none" /\ job[j].pc = "advise"
  BY JobFacts DEF AdviseSteps, Stage
<1>2. RowsNameOwn' /\ PropsNameOwn'
  BY <1>1 DEF PeopleOK, RowsNameOwn, PropsNameOwn
<1>3. CASE Set(j, End(j, "500"))
  BY <1>1, <1>3, EndsNames
<1>4. ASSUME NEW assign, NEW prio,
             Set(j, [job[j] EXCEPT !.pc = "assemble", !.assign = assign, !.prio = prio])
      PROVE  PeopleOK'
  <2> DEFINE r == [job[j] EXCEPT !.pc = "assemble", !.assign = assign, !.prio = prio]
  <2>1. r.pc = "assemble" /\ r.ask = job[j].ask /\ r.check = job[j].check
    BY <1>1 DEF JobFields
  <2> HIDE DEF r
  <2>2. NamesOwn(r, bus[j])
    BY <1>1, <2>1 DEF PeopleOK, NamesOwn, Deciding
  <2> QED BY <1>1, <1>2, <1>4, <2>2, NamesKeep DEF r
<1>5. \/ Set(j, End(j, "500"))
      \/ \E assign, prio : Set(j, [job[j] EXCEPT !.pc = "assemble", !.assign = assign, !.prio = prio])
  BY DEF AdviseSteps
<1> QED BY <1>3, <1>4, <1>5

LEMMA AssembleNames ==
  ASSUME TriageInv, PeopleOK, NEW j \in Jobs, AssembleStep(j)
  PROVE  PeopleOK'
<1> DEFINE t == job[j].ask.ticket
           p == AssembleProposal(t, row[t], job[j].check, job[j].assign, job[j].prio)
           e == End(j, "ok")
           r == [e EXCEPT !.p = p]
<1>1. /\ job[j].pc = "assemble" /\ UNCHANGED <<row, bus>> /\ Stage(j, job[j], bus[j])
      /\ bus[j] = "none" /\ bus' = [bus EXCEPT ![j] = bus[j]]
  BY JobFacts DEF AssembleStep, Stage
<1>2. /\ t \in DOMAIN Table0 /\ row[t].tenant = TenantOf(t) /\ CheckOf(t, job[j].check)
      /\ CheckNamesOwn(t, job[j].check) /\ job[j].prio.priority # NoVal
  BY <1>1 DEF Stage, TriageInv, RowsOK, PeopleOK, NamesOwn
<1>3. prop' = [prop EXCEPT ![j] = p] /\ Set(j, r)
  BY DEF AssembleStep
<1> HIDE DEF p, e
<1>4. OwnPerson(p.vals["assigned_to"], p.tenant)
  <2>1. p = AssembleProposal(t, row[t], job[j].check, job[j].assign, job[j].prio)
    BY DEF p
  <2> HIDE DEF t
  <2> QED BY <1>2, <2>1, ProposalFacts
<1>5. RowsNameOwn' /\ PropsNameOwn'
  <2>1. DOMAIN prop = Jobs
    BY DEF TriageInv, ShapesOK
  <2>2. prop'[j] = p /\ \A i \in Jobs \ {j} : prop'[i] = prop[i]
    BY <1>3, <2>1
  <2> QED BY <1>1, <1>4, <2>2 DEF PeopleOK, RowsNameOwn, PropsNameOwn
<1>6. DOMAIN e = JobFields /\ e.pc = "end"
  BY EndFacts DEF e
<1>7. r.pc = "end"
  BY <1>6 DEF JobFields
<1> HIDE DEF r
<1>8. NamesOwn(r, bus[j])
  BY <1>1, <1>7 DEF NamesOwn, Deciding
<1> QED BY <1>1, <1>3, <1>5, <1>8, NamesKeep

LEMMA DecideReadNames ==
  ASSUME TriageInv, PeopleOK, NEW j \in Jobs, DecideRead(j)
  PROVE  PeopleOK'
<1> DEFINE p == prop[job[j].ask.proposal]
           pc == IF job[j].ask.bus THEN "sent" ELSE "direct"
           b == IF job[j].ask.bus THEN "queued" ELSE bus[j]
           r == [job[j] EXCEPT !.pc = pc, !.p = p]
<1>1. /\ job[j].pc = "decide" /\ UNCHANGED <<row, prop>> /\ Stage(j, job[j], bus[j])
      /\ DOMAIN job[j] = JobFields /\ bus[j] = "none"
      /\ UNCHANGED bus => bus' = [bus EXCEPT ![j] = bus[j]]
  BY JobFacts DEF DecideRead, Stage
<1>2. RowsNameOwn' /\ PropsNameOwn'
  BY <1>1 DEF PeopleOK, RowsNameOwn, PropsNameOwn
<1>3. \/ \E res : Set(j, End(j, res)) /\ UNCHANGED bus
      \/ p # NoProposal /\ Set(j, r) /\ bus' = [bus EXCEPT ![j] = b]
  <2>1. \/ \E res : Set(j, End(j, res)) /\ UNCHANGED bus
        \/ /\ p # NoProposal /\ Set(j, r)
           /\ bus' = IF job[j].ask.bus THEN [bus EXCEPT ![j] = "queued"] ELSE bus
    BY DEF DecideRead
  <2> QED BY <1>1, <2>1
<1>4. CASE \E res : Set(j, End(j, res)) /\ UNCHANGED bus
  BY <1>1, <1>4, EndsNames
<1>5. CASE p # NoProposal /\ Set(j, r) /\ bus' = [bus EXCEPT ![j] = b]
  <2>1. job[j].ask.proposal \in Jobs
    BY <1>1, AskAssumption DEF Stage
  <2>2. OwnPerson(p.vals["assigned_to"], p.tenant)
    BY <1>5, <2>1 DEF PeopleOK, PropsNameOwn
  <2>3. pc \in {"sent", "direct"}
    OBVIOUS
  <2> HIDE DEF p, pc, b
  <2>4. r.pc = pc /\ r.p = p
    BY <1>1 DEF JobFields
  <2> HIDE DEF r
  <2>5. NamesOwn(r, b)
    BY <2>2, <2>3, <2>4 DEF NamesOwn
  <2> QED BY <1>2, <1>5, <2>5, NamesKeep
<1> QED BY <1>3, <1>4, <1>5

(* A decision by its own people leaves rows that name its own people.      *)
LEMMA DecisionNames ==
  ASSUME OwnEdits, TriageInv, PeopleOK, NEW j \in Jobs, Deciding(job[j], bus[j]),
         NEW d, d = Decision(job[j].p, job[j].ask), row' = d.row
  PROVE  RowsNameOwn'
<1> DEFINE p == job[j].p
<1>1. /\ ProposalOK(p) /\ p.tenant = job[j].ask.tenant
      /\ job[j].ask \in Asks(j) /\ job[j].ask.kind = "decide"
  BY JobFacts DEF Stage
<1>2. \A t \in DOMAIN Table0 :
        \/ row'[t].vals["assigned_to"] = row[t].vals["assigned_to"]
        \/ /\ t = p.ticket
           /\ \/ row'[t].vals["assigned_to"] = p.vals["assigned_to"]
              \/ /\ "assigned_to" \in DOMAIN job[j].ask.edits
                 /\ row'[t].vals["assigned_to"] = job[j].ask.edits["assigned_to"]
  BY <1>1, DecisionFacts DEF TriageInv
<1>3. p.tenant = TenantOf(p.ticket) /\ OwnPerson(p.vals["assigned_to"], p.tenant)
  BY <1>1 DEF ProposalOK, PeopleOK, NamesOwn
<1>4. "assigned_to" \in DOMAIN job[j].ask.edits => OwnPerson(job[j].ask.edits["assigned_to"], p.tenant)
  BY <1>1 DEF OwnEdits
<1> QED BY <1>2, <1>3, <1>4 DEF PeopleOK, RowsNameOwn

LEMMA DecidesNames ==
  ASSUME OwnEdits, TriageInv, PeopleOK, NEW j \in Jobs, DecideDirect(j) \/ OnDecide(j)
  PROVE  PeopleOK'
<1> DEFINE d == Decision(job[j].p, job[j].ask)
<1>1. /\ DOMAIN job[j] = JobFields /\ UNCHANGED prop /\ row' = d.row
      /\ UNCHANGED bus => bus' = [bus EXCEPT ![j] = bus[j]]
      /\ Deciding(job[j], bus[j])
  BY JobFacts DEF DecideDirect, OnDecide, Deciding
<1>2. RowsNameOwn'
  BY <1>1, DecisionNames
<1>3. PropsNameOwn' /\ NamesOwn(job[j], bus[j])
  BY <1>1 DEF PeopleOK, PropsNameOwn
<1>4. CASE DecideDirect(j)
  <2> DEFINE r == [job[j] EXCEPT !.pc = "reply", !.reply = d.reply, !.final = d.final]
  <2>1. Set(j, r) /\ UNCHANGED bus
    BY <1>4 DEF DecideDirect
  <2> HIDE DEF d
  <2>2. r.pc = "reply" /\ r.p = job[j].p
    BY <1>1 DEF JobFields
  <2> HIDE DEF r
  <2>3. NamesOwn(r, bus[j])
    BY <1>1, <1>3, <2>2 DEF NamesOwn
  <2> QED BY <1>1, <1>2, <1>3, <2>1, <2>3, NamesKeep
<1>5. CASE OnDecide(j)
  <2> DEFINE r == [job[j] EXCEPT !.final = d.final]
  <2>1. Set(j, r) /\ \E b : bus' = [bus EXCEPT ![j] = b]
    BY <1>5 DEF OnDecide
  <2> HIDE DEF d
  <2>2. r.pc = job[j].pc /\ r.p = job[j].p /\ r.ask = job[j].ask /\ r.check = job[j].check
    BY <1>1 DEF JobFields
  <2> HIDE DEF r
  <2>3. ASSUME NEW b PROVE NamesOwn(r, b)
    BY <1>1, <1>3, <2>2 DEF NamesOwn
  <2> QED BY <1>2, <1>3, <2>1, <2>3, NamesKeep
<1> QED BY <1>4, <1>5

LEMMA ApplyFailsNames ==
  ASSUME OwnEdits, TriageInv, PeopleOK, NEW j \in Jobs, ApplyFails(j)
  PROVE  PeopleOK'
<1>1. /\ UNCHANGED prop /\ Deciding(job[j], bus[j]) /\ NamesOwn(job[j], bus[j])
      /\ UNCHANGED bus => bus' = [bus EXCEPT ![j] = bus[j]]
  BY JobFacts DEF ApplyFails, Deciding, PeopleOK
<1>2. RowsNameOwn'
  <2> DEFINE d == Decision(job[j].p, job[j].ask)
  <2>1. d = Decision(job[j].p, job[j].ask) /\ row' \in {row, d.row}
    BY DEF ApplyFails
  <2> HIDE DEF d
  <2>2. CASE row' = row
    BY <2>2 DEF PeopleOK, RowsNameOwn
  <2>3. CASE row' = d.row
    BY <1>1, <2>1, <2>3, DecisionNames
  <2> QED BY <2>1, <2>2, <2>3
<1>3. PropsNameOwn'
  BY <1>1 DEF PeopleOK, PropsNameOwn
<1>4. CASE Set(j, End(j, "500")) /\ UNCHANGED bus
  <2> DEFINE r == End(j, "500")
  <2>1. r.pc = "end" /\ r.p = job[j].p
    BY EndFacts
  <2> HIDE DEF r
  <2>2. NamesOwn(r, bus[j])
    BY <1>1, <2>1 DEF NamesOwn, Deciding
  <2> QED BY <1>1, <1>2, <1>3, <1>4, <2>2, NamesKeep DEF r
<1>5. CASE bus' = [bus EXCEPT ![j] = "error"] /\ UNCHANGED job
  <2>1. Set(j, job[j])
    BY <1>5 DEF Set, TriageInv, ShapesOK
  <2>2. NamesOwn(job[j], "error")
    BY <1>1 DEF NamesOwn
  <2> QED BY <1>2, <1>3, <1>5, <2>1, <2>2, NamesKeep
<1> QED BY <1>4, <1>5 DEF ApplyFails

LEMMA AnswerNames ==
  ASSUME TriageInv, PeopleOK, NEW j \in Jobs,
         DispatchReturns(j) \/ DispatchTimeout(j) \/ NoResponders(j) \/ DecideReply(j)
  PROVE  PeopleOK'
<1>1. /\ DOMAIN job[j] = JobFields /\ UNCHANGED row /\ NamesOwn(job[j], bus[j])
      /\ UNCHANGED bus => bus' = [bus EXCEPT ![j] = bus[j]]
      /\ DOMAIN prop = Jobs
  BY JobFacts DEF DispatchReturns, DispatchTimeout, NoResponders, DecideReply, PeopleOK, TriageInv, ShapesOK
<1>2. CASE DispatchReturns(j)
  <2> DEFINE reply == IF bus[j] = "error" THEN "conflict" ELSE bus[j]
             r == [job[j] EXCEPT !.pc = "reply", !.reply = reply]
  <2>1. Set(j, r) /\ UNCHANGED <<prop, bus>> /\ job[j].pc = "sent"
    BY <1>2 DEF DispatchReturns
  <2> HIDE DEF reply
  <2>2. r.pc = "reply" /\ r.p = job[j].p
    BY <1>1 DEF JobFields
  <2> HIDE DEF r
  <2>3. NamesOwn(r, bus[j])
    BY <1>1, <2>1, <2>2 DEF NamesOwn, Deciding
  <2>4. RowsNameOwn' /\ PropsNameOwn'
    BY <1>1, <2>1 DEF PeopleOK, RowsNameOwn, PropsNameOwn
  <2> QED BY <1>1, <2>1, <2>3, <2>4, NamesKeep
<1>3. CASE DispatchTimeout(j)
  BY <1>1, <1>3, EndsNames DEF DispatchTimeout
<1>4. CASE NoResponders(j)
  BY <1>1, <1>4, EndsNames DEF NoResponders
<1>5. CASE DecideReply(j)
  <2>1. PICK res : Set(j, End(j, res))
    BY <1>5 DEF DecideReply
  <2>2. /\ UNCHANGED bus
        /\ \A i \in Jobs : prop'[i] = prop[i] \/ prop'[i] = NoProposal
    BY <1>1, <1>5 DEF DecideReply
  <2> DEFINE r == End(j, res)
  <2>3. r.pc = "end" /\ r.p = job[j].p
    BY EndFacts
  <2> HIDE DEF r
  <2>4. NamesOwn(r, bus[j])
    BY <1>1, <2>3 DEF NamesOwn, Deciding
  <2>5. RowsNameOwn' /\ PropsNameOwn'
    BY <1>1, <2>2 DEF PeopleOK, RowsNameOwn, PropsNameOwn
  <2> QED BY <1>1, <2>1, <2>2, <2>4, <2>5, NamesKeep DEF r
<1> QED BY <1>2, <1>3, <1>4, <1>5

LEMMA PeopleInit ==
  ASSUME Init
  PROVE  PeopleOK
<1>1. RowsNameOwn
  BY TicketAssumption DEF Init, RowsNameOwn, OwnPerson, TenantOf
<1>2. \A j \in Jobs : job[j] = Idle /\ prop[j] = NoProposal /\ bus[j] = "none"
  BY DEF Init
<1>3. Idle.pc = "idle"
  BY DEF Idle
<1> QED BY <1>1, <1>2, <1>3 DEF PeopleOK, PropsNameOwn, NamesOwn, Deciding

LEMMA PeopleStep ==
  ASSUME OwnEdits, TriageInv, PeopleOK, [Next]_vars
  PROVE  PeopleOK'
<1>1. CASE UNCHANGED vars
  BY <1>1 DEF vars, PeopleOK, RowsNameOwn, PropsNameOwn
<1>2. ASSUME NEW j \in Jobs,
             \/ Begin(j) \/ QueueSummary(j) \/ ProposeRead(j) \/ CheckStep(j) \/ AdviseSteps(j)
             \/ AssembleStep(j) \/ StepFails(j)
      PROVE  PeopleOK'
  BY <1>2, AsideNames, CheckNames, AdviseNames, AssembleNames
<1>3. ASSUME NEW j \in Jobs,
             \/ DecideRead(j) \/ DecideDirect(j) \/ OnDecide(j) \/ ApplyFails(j) \/ DispatchReturns(j)
             \/ DispatchTimeout(j) \/ NoResponders(j) \/ DecideReply(j)
      PROVE  PeopleOK'
  BY <1>3, DecideReadNames, DecidesNames, ApplyFailsNames, AnswerNames
<1>4. ASSUME NEW x \in Closing, CloseTicket(x) PROVE PeopleOK'
  BY <1>4, CloseFacts DEF CloseTicket, TriageInv, PeopleOK, RowsNameOwn, PropsNameOwn
<1> QED BY <1>1, <1>2, <1>3, <1>4 DEF Next, Done

(* StaffOfTenant: no proposal and no row names a person of another tenant, *)
(* as long as the people that decide name their own (OwnEdits): the search *)
(* and the votes bring in nobody else.                                     *)
THEOREM StaffOfOwnTenant == OwnEdits => (Spec => []StaffOfTenant)
<1> SUFFICES ASSUME OwnEdits PROVE Spec => []StaffOfTenant
  OBVIOUS
<1>1. TriageInv /\ PeopleOK => StaffOfTenant
  BY DEF TriageInv, RowsOK, PeopleOK, RowsNameOwn, PropsNameOwn, OwnPerson, StaffOfTenant
<1>2. Init => PeopleOK
  BY PeopleInit
<1>3. TriageInv /\ PeopleOK /\ [Next]_vars => PeopleOK'
  BY PeopleStep
<1> QED BY <1>1, <1>2, <1>3, TriageInvariant, PTL DEF Spec

=============================================================================
