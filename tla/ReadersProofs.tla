---------------------------- MODULE ReadersProofs ----------------------------
(***************************************************************************)
(* Theorems about Readers: whatever the tickets, articles, roles, model    *)
(* replies and caches, and however many requests run while others edit the *)
(* rows, a reader is told what its role may see of what it read, shown its *)
(* own tickets only, and given readable articles only.                     *)
(*                                                                         *)
(* The properties speak of requests that have ended.  ReadersInv says what *)
(* a request holds at every await before that (Stage), and what the caches *)
(* hold for requests to come: an entry suits every reader its key fits     *)
(* (SummariesOK, AnswersOK).                                               *)
(***************************************************************************)
EXTENDS Readers, FiniteSetTheorems, FunctionTheorems, TLAPS

(* A request, and the awaits of the three use cases. *)
JobFields == {"pc", "ask", "key", "rec", "intent", "src", "cands", "hits", "query", "embedded", "plain",
              "outcome", "told", "shown", "note", "text"}
ReadPCs == {"read", "recent", "summary", "intent", "link", "intent2", "cache", "llm", "store", "cacheget", "cacheput"}
SimilarPCs == {"similar", "tool", "words", "anchor", "candidates", "refine", "keep"}
KbPCs == {"kb", "embed", "search", "semantic", "rerank", "compose", "article", "get", "byticket",
          "symptoms", "score"}
PCs == ReadPCs \cup SimilarPCs \cup KbPCs \cup {"idle", "end"}

IsList(s) == s \in Seq(ToSet(s))

(* Everything the reader of r may be told of the record it has read. *)
ViewOf(r) == HumaniseRecord(Visible(r.rec, r.ask.role))
AllFacts(r) == Facts(r.key, ViewOf(r), DOMAIN ViewOf(r))

(* A candidate, and a result, that may be shown to a reader who is not to  *)
(* be shown the ticket x.                                                  *)
CandOK(d, a, x) ==
  /\ {"key", "row"} \subseteq DOMAIN d
  /\ d.key[1] = a.tenant /\ d.key[2] # x
  /\ a.role \in Restricted => d.row.by = a.user
GoodCands(s, a, x) == IsList(s) /\ \A d \in ToSet(s) : CandOK(d, a, x)
ResultOK(d, tenant, user, role) ==
  /\ d.key[1] = tenant
  /\ role \in Restricted => d.by = user
OwnResults(s, a) == \A d \in ToSet(s) : ResultOK(d, a.tenant, a.user, a.role)
Without(s, x) == \A d \in ToSet(s) : d.key[2] # x

(* What is echoed of a source is of the ticket asked about. *)
Echo(r) == r.note # <<>> => r.note[1].key = <<r.ask.tenant, r.ask.id>>

(* A hit the reader may be shown. *)
HitOK(h, a) ==
  /\ {"id", "tenant", "state", "audience"} \subseteq DOMAIN h
  /\ h.state = "published" /\ h.tenant = a.tenant /\ h.audience \in KbAudiencesFor(a.role)
GoodHits(s, a) == IsList(s) /\ \A h \in ToSet(s) : HitOK(h, a)

(* Nothing is told before the summary is at hand; that is all of the view. *)
ToldOK(r) ==
  /\ r.pc \notin {"store", "end"} => r.told = {}
  /\ r.pc = "store" => r.told = AllFacts(r)
  /\ r.pc \in {"idle", "read", "recent", "summary", "cacheget", "cacheput"} \cup SimilarPCs \cup KbPCs => r.rec = Missing
  /\ r.pc = "end" /\ r.rec # Missing =>
       r.told \subseteq AllFacts(r) /\ (r.outcome = "summarized" => r.told = AllFacts(r))

(* Candidates and results are the reader's own at every stage. *)
SimilarOK(r) ==
  /\ r.pc \in SimilarPCs \ {"keep"} => r.note = <<>> /\ r.key = <<r.ask.tenant, r.ask.id>>
  /\ r.pc = "refine" => GoodCands(r.cands, r.ask, r.ask.id)
  /\ r.pc = "keep" => OwnResults(r.shown, r.ask) /\ Without(r.shown, r.ask.id) /\ Echo(r)
  /\ r.pc = "end" /\ r.ask.kind \in {"similar", "tool"} =>
       OwnResults(r.shown, r.ask) /\ (~r.ask.text => Without(r.shown, r.ask.id)) /\ Echo(r)

(* So are hits readable, and the text cites no other article. *)
KbOK(r) ==
  /\ r.pc \in KbPCs => GoodHits(r.hits, r.ask)
  /\ r.pc = "end" /\ r.ask.kind \in {"kb", "article", "byticket"} =>
       /\ \A h \in ToSet(r.shown) : HitOK(h, r.ask)
       /\ r.outcome = "found" => r.text.cites \subseteq {h.id : h \in ToSet(r.shown)}

(* A request stays in its use case. *)
KindOK(j, r) ==
  /\ r.pc # "idle" => r.ask \in Asks(j)
  /\ r.pc \notin {"keep", "end"} => r.shown = <<>>
  /\ r.pc \in ReadPCs => r.ask.kind \in {"read", "recent", "summary", "cacheget", "cacheput"}
  /\ r.pc = "read" => r.ask.kind = "read"
  /\ r.pc = "cacheput" => r.ask.kind = "cacheput"
  /\ r.pc \in SimilarPCs => r.ask.kind \in {"similar", "tool"}
  /\ r.pc = "words" => r.ask.text
  /\ r.pc \in KbPCs => r.ask.kind \in {"kb", "article", "byticket"}

Stage(j, r) ==
  /\ DOMAIN r = JobFields /\ r.pc \in PCs
  /\ KindOK(j, r) /\ ToldOK(r) /\ SimilarOK(r) /\ KbOK(r)

(* Edits change rows, never which rows there are. *)
TablesOK ==
  /\ DOMAIN ticket = DOMAIN Tickets0 /\ DOMAIN kb = DOMAIN Kb0
  /\ \A k \in DOMAIN Tickets0 : "vals" \in DOMAIN ticket[k] /\ Parts \subseteq DOMAIN ticket[k].vals

(* A cached summary tells all of the view whose fingerprint it is kept     *)
(* under; what callers keep under fingerprints of their own is theirs.     *)
OfContent(f, facts) ==
  f[1] = "sha" => facts = Facts(f[2], HumaniseRecord(f[4]), DOMAIN HumaniseRecord(f[4]))
SummariesOK == \A k \in DOMAIN summaries : OfContent(k[2], summaries[k])

(* A cached answer is for the tenant, user and role of its key. *)
AnswersOK == \A f \in DOMAIN answers : \A d \in ToSet(answers[f].results) :
  ResultOK(d, f[1], f[2], f[3]) /\ d.key[2] # f[4]
EchoesOK == \A f \in DOMAIN answers :
  answers[f].note # <<>> => answers[f].note[1].key = <<f[1], f[4]>>

(* The inductive invariant. *)
ReadersInv ==
  /\ DOMAIN job = Jobs /\ \A j \in Jobs : Stage(j, job[j])
  /\ TablesOK /\ SummariesOK /\ AnswersOK /\ EchoesOK

-----------------------------------------------------------------------------
(* Sorting and filtering: P[i] is the set of the elements before i.  In a  *)
(* finite strict total order every place is taken.                         *)
LEMMA OrderRanks ==
  ASSUME NEW K, IsFiniteSet(K), NEW P \in [K -> SUBSET K],
         \A i \in K : i \notin P[i],
         \A i, j, k \in K : i \in P[j] /\ j \in P[k] => i \in P[k],
         \A i, j \in K : i # j => i \in P[j] \/ j \in P[i]
  PROVE  /\ Cardinality(K) \in Nat
         /\ \A k \in 1 .. Cardinality(K) : \E i \in K : 1 + Cardinality(P[i]) = k
<1> DEFINE f == [i \in K |-> 1 + Cardinality(P[i])]
           n == Cardinality(K)
<1>1. n \in Nat
  BY FS_CardinalityType
<1>2. ASSUME NEW i \in K PROVE IsFiniteSet(P[i]) /\ Cardinality(P[i]) \in 0 .. (n - 1)
  <2>1. P[i] \in SUBSET K /\ P[i] # K
    OBVIOUS
  <2>2. /\ IsFiniteSet(P[i]) /\ Cardinality(P[i]) <= n
        /\ n = Cardinality(P[i]) => K = P[i]
    BY <2>1, FS_Subset
  <2>3. Cardinality(P[i]) \in Nat
    BY <2>2, FS_CardinalityType
  <2> QED BY <1>1, <2>1, <2>2, <2>3
<1>3. ASSUME NEW i \in K, NEW j \in K, i \in P[j]
      PROVE  Cardinality(P[i]) < Cardinality(P[j])
  <2>1. P[i] \in SUBSET P[j] /\ i \in P[j] /\ i \notin P[i]
    BY <1>3
  <2>2. IsFiniteSet(P[j]) /\ Cardinality(P[i]) \in Int /\ Cardinality(P[j]) \in Int
    BY <1>2
  <2>3. Cardinality(P[i]) <= Cardinality(P[j]) /\ Cardinality(P[i]) # Cardinality(P[j])
    BY <2>1, <2>2, FS_Subset
  <2> QED BY <2>2, <2>3
<1>4. f \in Injection(K, 1 .. n)
  <2>1. \A i \in K : f[i] = 1 + Cardinality(P[i]) /\ f[i] \in 1 .. n
    BY <1>1, <1>2
  <2>2. \A i, j \in K : f[i] = f[j] => i = j
    <3> SUFFICES ASSUME NEW i \in K, NEW j \in K, i # j PROVE f[i] # f[j]
      OBVIOUS
    <3>1. Cardinality(P[i]) \in Int /\ Cardinality(P[j]) \in Int
      BY <1>2
    <3>2. Cardinality(P[i]) # Cardinality(P[j])
      BY <1>3, <3>1
    <3> QED BY <2>1, <3>1, <3>2
  <2>3. f \in [K -> 1 .. n]
    BY <2>1
  <2> HIDE DEF f
  <2> QED BY <2>2, <2>3 DEF Injection, IsInjective
<1>5. IsFiniteSet(1 .. n) /\ Cardinality(1 .. n) = n
  BY <1>1, FS_Interval
<1> HIDE DEF f
<1>6. f \in Surjection(K, 1 .. n)
  BY <1>4, <1>5, FS_Injection
<1> QED BY <1>1, <1>6 DEF Surjection, f

(* The part of a sequence at some positions holds elements of these. *)
LEMMA PartFacts ==
  ASSUME NEW D, NEW s \in Seq(D), NEW kept \in SUBSET DOMAIN s, NEW S, \A i \in kept : s[i] \in S
  PROVE  AtPositions(s, kept) \in Seq(S)
<1> DEFINE P == [i \in kept |-> {j \in kept : j < i}]
           upto(i) == {j \in kept : j <= i}
           nth(k) == CHOOSE i \in kept : Cardinality(upto(i)) = k
<1>1. kept \in SUBSET (1 .. Len(s)) /\ Len(s) \in Nat
  OBVIOUS
<1>2. IsFiniteSet(kept)
  <2>1. IsFiniteSet(1 .. Len(s))
    BY <1>1, FS_Interval
  <2> QED BY <1>1, <2>1, FS_Subset
<1>3. \A i \in kept : i \in Int
  BY <1>1
<1>4. P \in [kept -> SUBSET kept] /\ \A i, j \in kept : i \in P[j] <=> i < j
  OBVIOUS
<1> HIDE DEF P
<1>5. /\ \A i \in kept : i \notin P[i]
      /\ \A i, j, k \in kept : i \in P[j] /\ j \in P[k] => i \in P[k]
      /\ \A i, j \in kept : i # j => i \in P[j] \/ j \in P[i]
  BY <1>3, <1>4
<1>6. /\ Cardinality(kept) \in Nat
      /\ \A k \in 1 .. Cardinality(kept) : \E i \in kept : 1 + Cardinality(P[i]) = k
  BY <1>2, <1>4, <1>5, OrderRanks
<1>7. ASSUME NEW i \in kept PROVE Cardinality(upto(i)) = 1 + Cardinality(P[i])
  <2>1. upto(i) = P[i] \cup {i} /\ i \notin P[i] /\ P[i] \in SUBSET kept
    <3>1. \A j \in kept : j <= i <=> (j \in P[i] \/ j = i)
      BY <1>3, <1>4
    <3> QED BY <1>4, <1>5, <3>1
  <2>2. IsFiniteSet(P[i])
    BY <1>2, <2>1, FS_Subset
  <2>3. Cardinality(P[i]) \in Nat
    BY <2>2, FS_CardinalityType
  <2> HIDE DEF upto
  <2>4. Cardinality(P[i] \cup {i}) = Cardinality(P[i]) + 1
    BY <2>1, <2>2, FS_AddElement
  <2> QED BY <2>1, <2>3, <2>4
<1>8. ASSUME NEW k \in 1 .. Cardinality(kept) PROVE s[nth(k)] \in S
  <2> HIDE DEF upto
  <2>1. \E i \in kept : Cardinality(upto(i)) = k
    BY <1>6, <1>7
  <2>2. nth(k) \in kept
    BY <2>1
  <2> QED BY <2>2
<1>9. AtPositions(s, kept) = [k \in 1 .. Cardinality(kept) |-> s[nth(k)]]
  BY DEF AtPositions
<1> HIDE DEF nth
<1>10. [k \in 1 .. Cardinality(kept) |-> s[nth(k)]] \in [1 .. Cardinality(kept) -> S]
  BY <1>8
<1> DEFINE m == Cardinality(kept)
           g == [k \in 1 .. m |-> s[nth(k)]]
<1>11. m \in Nat /\ g \in [1 .. m -> S] /\ AtPositions(s, kept) = g
  BY <1>6, <1>9, <1>10
<1> HIDE DEF m, g
<1>12. g \in Seq(S)
  BY <1>11
<1> QED BY <1>11, <1>12

LEMMA FirstsFacts ==
  ASSUME NEW S, NEW s \in Seq(S), NEW n \in Nat
  PROVE  Firsts(s, n) \in Seq(S)
BY DEF Firsts

(* A sort permutes: its result holds elements of what is sorted, whatever  *)
(* the scores are.                                                         *)
LEMMA SortFacts ==
  ASSUME NEW S, NEW s \in Seq(S), NEW score
  PROVE  ByScore(s, score) \in Seq(S) /\ DOMAIN ByScore(s, score) = DOMAIN s
<1> DEFINE K == 1 .. Len(s)
           higher(i) == {j \in K : score[j] > score[i]}
           above == [i \in K |-> Cardinality(higher(i))]
           before(i, j) == above[i] < above[j] \/ (above[i] = above[j] /\ i < j)
           pred(i) == {j \in K : before(j, i)}
           P == [i \in K |-> pred(i)]
           place == [i \in K |-> 1 + Cardinality(pred(i))]
           pick(k) == CHOOSE i \in K : place[i] = k
<1>1. DOMAIN s = K /\ Len(s) \in Nat
  OBVIOUS
<1>2. \A n \in Nat : IsFiniteSet(1 .. n) /\ Cardinality(1 .. n) = n
  BY FS_Interval
<1>3. IsFiniteSet(K) /\ 1 .. Cardinality(K) = K /\ \A i \in K : i \in Int
  BY <1>1, <1>2
<1>4. ByScore(s, score) = [k \in K |-> s[pick(k)]]
  BY <1>1 DEF ByScore
<1> HIDE DEF K
<1>5. ASSUME NEW i \in K PROVE above[i] \in Int
  <2>1. higher(i) \in SUBSET K
    OBVIOUS
  <2> HIDE DEF higher
  <2>2. IsFiniteSet(higher(i))
    BY <1>3, <2>1, FS_Subset
  <2>3. Cardinality(higher(i)) \in Nat
    BY <2>2, FS_CardinalityType
  <2> QED BY <2>3
<1> HIDE DEF above
<1>6. /\ \A i \in K : ~ before(i, i)
      /\ \A i, j, k \in K : before(i, j) /\ before(j, k) => before(i, k)
      /\ \A i, j \in K : i # j => before(i, j) \/ before(j, i)
  BY <1>3, <1>5
<1> HIDE DEF before
<1>7. /\ P \in [K -> SUBSET K] /\ \A i \in K : P[i] = pred(i)
      /\ \A i, j \in K : i \in P[j] <=> before(i, j)
  OBVIOUS
<1> HIDE DEF P, pred
<1>8. \A k \in K : \E i \in K : 1 + Cardinality(P[i]) = k
  <2>1. /\ \A i \in K : i \notin P[i]
        /\ \A i, j, k \in K : i \in P[j] /\ j \in P[k] => i \in P[k]
        /\ \A i, j \in K : i # j => i \in P[j] \/ j \in P[i]
    BY <1>6, <1>7
  <2> QED BY <1>3, <1>7, <2>1, OrderRanks
<1>9. ASSUME NEW k \in K PROVE s[pick(k)] \in S
  <2>1. \E i \in K : place[i] = k
    BY <1>7, <1>8
  <2>2. pick(k) \in K
    BY <2>1
  <2> HIDE DEF pick
  <2> QED BY <1>1, <2>2
<1> HIDE DEF pick
<1>10. [k \in K |-> s[pick(k)]] \in [1 .. Len(s) -> S]
  BY <1>9 DEF K
<1>11. DOMAIN ByScore(s, score) = K
  BY <1>4
<1> QED BY <1>1, <1>4, <1>10, <1>11

(* The rows of a finite set, in the order they are scanned. *)
LEMMA ScanFacts ==
  ASSUME NEW S, IsFiniteSet(S)
  PROVE  SetToSeq(S) \in Seq(S)
<1>1. Cardinality(S) \in Nat /\ ExistsBijection(1..Cardinality(S), S)
  BY FS_CardinalityType
<1>2. PICK f \in Bijection(1..Cardinality(S), S) : TRUE
  BY <1>1 DEF ExistsBijection
<1>3. f \in [1..Cardinality(S) -> S] /\ \A a, b \in 1..Cardinality(S) : f[a] = f[b] => a = b
  BY <1>2, Fun_BijectionProperties
<1>4. SetToSeq(S) \in [1..Cardinality(S) -> S]
  BY <1>3 DEF SetToSeq, IsInjective
<1> QED BY <1>1, <1>4

(* A list over a set is one over the set of its elements. *)
LEMMA ListFacts ==
  ASSUME NEW S, NEW s \in Seq(S)
  PROVE  IsList(s) /\ ToSet(s) \subseteq S
BY DEF IsList, ToSet

(* A part of a list, sorted, and cut. *)
LEMMA SortedPart ==
  ASSUME NEW S, NEW s \in Seq(S), NEW score, NEW kept \in SUBSET DOMAIN s, NEW n \in Nat
  PROVE  Firsts(AtPositions(ByScore(s, score), kept), n) \in Seq(S)
<1>1. ByScore(s, score) \in Seq(S) /\ kept \in SUBSET DOMAIN ByScore(s, score)
  BY SortFacts
<1> DEFINE b == ByScore(s, score)
<1> HIDE DEF b
<1>2. \A i \in kept : b[i] \in S
  BY <1>1 DEF b
<1>3. AtPositions(b, kept) \in Seq(S)
  BY <1>1, <1>2, PartFacts DEF b
<1> QED BY <1>3, FirstsFacts DEF b

(* A list with every element replaced. *)
LEMMA MapFacts ==
  ASSUME NEW S, NEW s \in Seq(S), NEW f, f = [i \in DOMAIN s |-> f[i]]
  PROVE  IsList(f) /\ DOMAIN f = DOMAIN s
<1>1. Len(s) \in Nat /\ DOMAIN s = 1..Len(s)
  OBVIOUS
<1>2. f \in [1..Len(s) -> ToSet(f)]
  BY <1>1 DEF ToSet
<1> QED BY <1>1, <1>2 DEF IsList


-----------------------------------------------------------------------------
(* What a reader is told. *)

(* Some columns of a view tell no more than all of a view that has them. *)
LEMMA FactsPart ==
  ASSUME NEW key, NEW v, NEW w, NEW cols,
         \A c \in cols \cap DOMAIN v : c \in DOMAIN w /\ v[c] \subseteq w[c]
  PROVE  Facts(key, v, cols) \subseteq Facts(key, w, DOMAIN w)
<1> SUFFICES ASSUME NEW f \in Facts(key, v, cols) PROVE f \in Facts(key, w, DOMAIN w)
  OBVIOUS
<1>1. PICK c \in cols \cap DOMAIN v : f \in {<<key, c, i[1]>> : i \in v[c]}
  BY DEF Facts
<1>2. PICK i \in v[c] : f = <<key, c, i[1]>>
  BY <1>1
<1>3. c \in DOMAIN w /\ i \in w[c]
  BY <1>1, <1>2
<1>4. f \in {<<key, c, k[1]>> : k \in w[c]}
  BY <1>2, <1>3
<1> QED BY <1>3, <1>4 DEF Facts

LEMMA FieldsOfView ==
  ASSUME NEW key, NEW v, NEW cols
  PROVE  Facts(key, v, cols) \subseteq Facts(key, v, DOMAIN v)
BY FactsPart

(* The reading tools show part of the record's view. *)
LEMMA ShowsFacts ==
  ASSUME NEW a, NEW rec, NEW key, a.part \in Parts \cup {"details"}, Parts \subseteq DOMAIN rec
  PROVE  LET v == HumaniseRecord(Shows(a, rec))
             w == HumaniseRecord(Visible(rec, a.role))
         IN Facts(key, v, DOMAIN v) \subseteq Facts(key, w, DOMAIN w)
<1> DEFINE s == Shows(a, rec)
           u == Visible(rec, a.role)
           v == HumaniseRecord(s)
           w == HumaniseRecord(u)
<1>1. CASE a.part = "details"
  <2>1. s = u
    BY <1>1 DEF Shows
  <2> QED BY <2>1, FieldsOfView
<1>2. CASE a.part # "details"
  <2>1. \A c \in DOMAIN s : c \in DOMAIN u /\ s[c] = u[c]
    <3>1. a.part \in Parts /\ "timeline" \in DOMAIN rec /\ a.part \in DOMAIN rec
      BY <1>2 DEF Parts
    <3>2. DOMAIN Expose(rec) = {c \in DOMAIN rec : IsExposable(c)}
      BY DEF Expose, Restrict
    <3>3. \A c \in DOMAIN Expose(rec) : Expose(rec)[c] = rec[c]
      BY <3>2 DEF Expose, Restrict
    <3>4. DOMAIN u = DOMAIN Expose(rec)
      BY DEF Visible, RedactInternalContent
    <3>5. CASE a.part = "timeline"
      <4>1. s = RedactInternalContent(Restrict(rec, {"timeline"}), a.role)
        BY <3>5 DEF Shows
      <4>2. DOMAIN s = {"timeline"} /\ "timeline" \in DOMAIN Expose(rec)
        BY <3>1, <3>2, <4>1, ReadersAssumption DEF RedactInternalContent, Restrict
      <4>3. Restrict(rec, {"timeline"})["timeline"] = rec["timeline"]
        BY DEF Restrict
      <4>4. s["timeline"] = u["timeline"]
        BY <3>3, <4>1, <4>2, <4>3 DEF Visible, RedactInternalContent, Restrict
      <4> QED BY <3>4, <4>2, <4>4
    <3>6. CASE a.part # "timeline"
      <4>1. s = Expose(Restrict(rec, {a.part}))
        BY <1>2, <3>6 DEF Shows
      <4>2. \A c \in DOMAIN s : c = a.part /\ IsExposable(c) /\ s[c] = rec[c]
        BY <4>1 DEF Expose, Restrict
      <4>3. a.part \notin ContentArrays
        BY <3>1, <3>6 DEF Parts, ContentArrays
      <4>4. \A c \in DOMAIN s : c \in DOMAIN Expose(rec)
        BY <3>1, <3>2, <4>2
      <4>5. \A c \in DOMAIN Expose(rec) : c \notin ContentArrays => u[c] = rec[c]
        BY <3>3 DEF Visible, RedactInternalContent
      <4> QED BY <3>4, <4>2, <4>3, <4>4, <4>5
    <3> QED BY <3>5, <3>6
  <2>2. \A c \in DOMAIN v : c \in DOMAIN w /\ v[c] \subseteq w[c]
    <3> HIDE DEF s, u
    <3> QED BY <2>1 DEF HumaniseRecord, Restrict
  <2> HIDE DEF v, w
  <2>3. Facts(key, v, DOMAIN v) \subseteq Facts(key, w, DOMAIN w)
    BY <2>2, FactsPart
  <2> QED BY <2>3 DEF v, w
<1> QED BY <1>1, <1>2

(* A summary tells all of the view, whatever the model says. *)
LEMMA SummaryFacts ==
  ASSUME NEW key, NEW visible, NEW content
  PROVE  Summarize(key, visible, content)
           = Facts(key, HumaniseRecord(visible), DOMAIN HumaniseRecord(visible))
BY DEF Summarize, ParseSummaryText, AssembleSummary, DeterministicSummary

(* A field question is answered from the view. *)
LEMMA ServedFacts ==
  ASSUME NEW key, NEW intent, NEW view, NEW msg
  PROVE  ServeFieldRead(key, intent, view, msg).facts \subseteq Facts(key, view, DOMAIN view)
<1>1. \A labels : RenderFieldRead(key, view, labels) \subseteq Facts(key, view, DOMAIN view)
  BY FieldsOfView DEF RenderFieldRead
<1> QED BY <1>1 DEF ServeFieldRead

-----------------------------------------------------------------------------
(* Similar tickets: what each stage passes on. *)

(* A list made of another's elements, and of two lists. *)
LEMMA ToSetFacts ==
  ASSUME NEW s, IsList(s)
  PROVE  /\ Len(s) \in Nat /\ DOMAIN s = 1..Len(s)
         /\ \A i \in DOMAIN s : s[i] \in ToSet(s)
         /\ \A d \in ToSet(s) : \E i \in DOMAIN s : d = s[i]
BY DEF IsList, ToSet

LEMMA JoinFacts ==
  ASSUME NEW s, NEW t, IsList(s), IsList(t)
  PROVE  IsList(s \o t) /\ ToSet(s \o t) \subseteq ToSet(s) \cup ToSet(t)
<1>1. s \in Seq(ToSet(s) \cup ToSet(t)) /\ t \in Seq(ToSet(s) \cup ToSet(t))
  BY DEF IsList, ToSet
<1>2. s \o t \in Seq(ToSet(s) \cup ToSet(t))
  BY <1>1
<1> HIDE DEF IsList
<1> QED BY <1>2, ListFacts

LEMMA FilterFacts ==
  ASSUME NEW s, IsList(s), NEW kept \in SUBSET DOMAIN s
  PROVE  IsList(AtPositions(s, kept)) /\ ToSet(AtPositions(s, kept)) \subseteq ToSet(s)
<1>1. \A i \in kept : s[i] \in ToSet(s)
  BY ToSetFacts
<1>2. s \in Seq(ToSet(s))
  BY DEF IsList
<1>3. AtPositions(s, kept) \in Seq(ToSet(s))
  BY <1>1, <1>2, PartFacts
<1> QED BY <1>3, ListFacts

LEMMA CutFacts ==
  ASSUME NEW s, IsList(s), NEW score, NEW n \in Nat
  PROVE  /\ IsList(Firsts(s, n)) /\ ToSet(Firsts(s, n)) \subseteq ToSet(s)
         /\ IsList(ByScore(s, score)) /\ ToSet(ByScore(s, score)) \subseteq ToSet(s)
         /\ DOMAIN ByScore(s, score) = DOMAIN s
<1>1. s \in Seq(ToSet(s))
  BY DEF IsList
<1>2. Firsts(s, n) \in Seq(ToSet(s)) /\ ByScore(s, score) \in Seq(ToSet(s))
  BY <1>1, FirstsFacts, SortFacts
<1>3. DOMAIN ByScore(s, score) = DOMAIN s
  BY <1>1, SortFacts
<1> QED BY <1>2, <1>3, ListFacts

(* The statement returns rows of the tenant that the role may see, and not *)
(* the one excluded.                                                       *)
LEMMA CandidatesFacts ==
  ASSUME NEW rows, IsFiniteSet(DOMAIN rows), NEW tenant, NEW service, NEW src, NEW x,
         NEW a, a.max \in Nat, a.tenant = tenant
  PROVE  GoodCands(Candidates(rows, tenant, service, src, x, a), a, x)
<1> DEFINE ok == {k \in DOMAIN rows :
               /\ k[1] = tenant /\ rows[k].service = service /\ k[2] \in DOMAIN a.sem
               /\ k[2] # x
               /\ a.sameCategory /\ src # <<>> /\ Scalar(src, "category") # NoVal
                    => Scalar(rows[k], "category") = Scalar(src, "category")
               /\ a.sameService /\ service = "incident" /\ src # <<>> /\ Scalar(src, "service_name") # NoVal
                    => Scalar(rows[k], "service_name") = Scalar(src, "service_name")
               /\ TimeOk(a.window, rows[k]) /\ StatusOk(a.prefer, rows[k])
               /\ DefaultRbac(a.role, a.user, rows[k])}
           found == SetToSeq(ok)
           score == [i \in DOMAIN found |-> a.sem[found[i][2]]]
           ranked == ByScore(found, score)
           limit == IF a.max * Overfetch > a.max + 5 THEN a.max * Overfetch ELSE a.max + 5
           first == Firsts(ranked, limit)
           cands == [i \in DOMAIN first |-> [key |-> first[i], row |-> rows[first[i]], sem |-> a.sem[first[i][2]]]]
<1>1. Candidates(rows, tenant, service, src, x, a) = cands
  BY DEF Candidates
<1>2. ok \in SUBSET DOMAIN rows /\ \A k \in ok : k[1] = tenant /\ k[2] # x /\ DefaultRbac(a.role, a.user, rows[k])
  OBVIOUS
<1>3. limit \in Nat
  BY DEF Overfetch
<1> HIDE DEF ok, limit, score
<1>4. found \in Seq(ok)
  BY <1>2, FS_Subset, ScanFacts
<1> HIDE DEF found
<1>5. first \in Seq(ok)
  BY <1>3, <1>4, SortFacts, FirstsFacts
<1> HIDE DEF first
<1>6. IsList(cands)
  <2>1. cands = [i \in DOMAIN first |-> cands[i]]
    OBVIOUS
  <2> HIDE DEF cands
  <2> QED BY <1>5, <2>1, MapFacts
<1>7. ASSUME NEW d \in ToSet(cands) PROVE CandOK(d, a, x)
  <2>1. PICK i \in DOMAIN first : d = [key |-> first[i], row |-> rows[first[i]], sem |-> a.sem[first[i][2]]]
    BY DEF ToSet
  <2>2. first[i] \in ok
    BY <1>5
  <2>3. d.key = first[i] /\ d.row = rows[first[i]] /\ {"key", "row"} \subseteq DOMAIN d
    BY <2>1
  <2> QED BY <1>2, <2>2, <2>3 DEF CandOK, DefaultRbac
<1> QED BY <1>1, <1>6, <1>7 DEF GoodCands

(* The stages after it keep the key and the row. *)
LEMMA RerankFacts ==
  ASSUME NEW cands, NEW a, NEW x, GoodCands(cands, a, x), NEW src, NEW min
  PROVE  GoodCands(RerankCandidates(cands, src, min), a, x)
<1> DEFINE scored == [i \in DOMAIN cands |-> [key |-> cands[i].key, row |-> cands[i].row, sem |-> cands[i].sem,
                                              score |-> Composite(cands[i], src)]]
           kept == {i \in DOMAIN scored : scored[i].sem >= SemMin /\ scored[i].score >= min}
<1>1. RerankCandidates(cands, src, min) = AtPositions(scored, kept)
  BY DEF RerankCandidates
<1>2. IsList(cands) /\ \A d \in ToSet(cands) : CandOK(d, a, x)
  BY DEF GoodCands
<1>3. IsList(scored)
  <2>1. scored = [i \in DOMAIN cands |-> scored[i]] /\ cands \in Seq(ToSet(cands))
    BY <1>2 DEF IsList
  <2> HIDE DEF scored
  <2> QED BY <2>1, MapFacts
<1>4. ASSUME NEW d \in ToSet(scored) PROVE CandOK(d, a, x)
  <2>1. PICK i \in DOMAIN cands : d = scored[i]
    BY DEF ToSet
  <2>2. CandOK(cands[i], a, x)
    BY <1>2, ToSetFacts
  <2>3. d.key = cands[i].key /\ d.row = cands[i].row /\ {"key", "row"} \subseteq DOMAIN d
    BY <2>1
  <2> QED BY <2>2, <2>3 DEF CandOK
<1>5. kept \in SUBSET DOMAIN scored
  OBVIOUS
<1> HIDE DEF kept, scored
<1>6. IsList(AtPositions(scored, kept)) /\ ToSet(AtPositions(scored, kept)) \subseteq ToSet(scored)
  BY <1>3, <1>5, FilterFacts
<1> QED BY <1>1, <1>4, <1>6 DEF GoodCands

LEMMA ConfirmFacts ==
  ASSUME NEW cands, NEW a, NEW x, GoodCands(cands, a, x), NEW max, NEW trail
  PROVE  GoodCands(ConfirmWithDiagnosis(cands, max, trail), a, x)
<1> DEFINE out == ConfirmWithDiagnosis(cands, max, trail)
<1>1. IsList(cands) /\ \A d \in ToSet(cands) : CandOK(d, a, x)
  BY DEF GoodCands
<1>2. DOMAIN out = DOMAIN cands /\ out = [i \in DOMAIN cands |-> out[i]]
  BY DEF ConfirmWithDiagnosis
<1>3. ASSUME NEW i \in DOMAIN cands PROVE CandOK(out[i], a, x)
  <2>1. CandOK(cands[i], a, x)
    BY <1>1, ToSetFacts
  <2> DEFINE boosted == cands[i].score + (DiagBoost * SemTrust(cands[i].sem)) \div 100
  <2>2. out[i] = [cands[i] EXCEPT !.score = boosted] \/ out[i] = cands[i]
    BY DEF ConfirmWithDiagnosis
  <2> HIDE DEF out, boosted
  <2> QED BY <2>1, <2>2 DEF CandOK
<1> HIDE DEF out
<1>4. IsList(out)
  BY <1>1, <1>2, MapFacts DEF IsList
<1>5. \A d \in ToSet(out) : CandOK(d, a, x)
  BY <1>2, <1>3 DEF ToSet
<1> QED BY <1>4, <1>5 DEF GoodCands, out

LEMMA TopFacts ==
  ASSUME NEW cands, NEW a, NEW x, GoodCands(cands, a, x), NEW n \in Nat
  PROVE  GoodCands(Firsts(ByComposite(cands), n), a, x)
<1> DEFINE score == [i \in DOMAIN cands |-> cands[i].score]
           ranked == ByScore(cands, score)
<1>1. IsList(ranked) /\ ToSet(ranked) \subseteq ToSet(cands)
  BY CutFacts DEF GoodCands
<1> HIDE DEF ranked
<1>2. IsList(Firsts(ranked, n)) /\ ToSet(Firsts(ranked, n)) \subseteq ToSet(ranked)
  BY <1>1, CutFacts
<1> QED BY <1>1, <1>2 DEF GoodCands, ranked, ByComposite

LEMMA RelevantFacts ==
  ASSUME NEW top, NEW a, NEW x, GoodCands(top, a, x), NEW reply
  PROVE  GoodCands(FilterRelevantByText(top, reply), a, x)
<1> DEFINE kept == {i \in DOMAIN top : top[i].key[2] \in reply.relevant}
<1>1. kept \in SUBSET DOMAIN top
  OBVIOUS
<1>2. FilterRelevantByText(top, reply) \in {top, AtPositions(top, kept)}
  BY DEF FilterRelevantByText
<1> HIDE DEF kept
<1>3. GoodCands(AtPositions(top, kept), a, x)
  BY <1>1, FilterFacts DEF GoodCands
<1> QED BY <1>2, <1>3

(* What is shown of the candidates. *)
LEMMA ResultFacts ==
  ASSUME NEW top, NEW a, NEW x, GoodCands(top, a, x), NEW src
  PROVE  /\ IsList(BuildResults(top, src))
         /\ OwnResults(BuildResults(top, src), a) /\ Without(BuildResults(top, src), x)
<1> DEFINE out == BuildResults(top, src)
<1>1. IsList(top) /\ \A d \in ToSet(top) : CandOK(d, a, x)
  BY DEF GoodCands
<1>2. DOMAIN out = DOMAIN top /\ out = [i \in DOMAIN top |-> out[i]]
  BY DEF BuildResults
<1>3. \A i \in DOMAIN top : out[i].key = top[i].key /\ out[i].by = top[i].row.by
  BY DEF BuildResults
<1> HIDE DEF out
<1>4. IsList(out)
  BY <1>1, <1>2, MapFacts DEF IsList
<1>5. ASSUME NEW d \in ToSet(out) PROVE ResultOK(d, a.tenant, a.user, a.role) /\ d.key[2] # x
  <2>1. PICK i \in DOMAIN top : d = out[i]
    BY <1>2 DEF ToSet
  <2>2. CandOK(top[i], a, x)
    BY <1>1, ToSetFacts
  <2> QED BY <1>3, <2>1, <2>2 DEF CandOK, ResultOK
<1> QED BY <1>4, <1>5 DEF OwnResults, Without, out

LEMMA MergeFacts ==
  ASSUME NEW parts, NEW a, IsList(parts), OwnResults(parts, a), NEW max \in Nat
  PROVE  OwnResults(MergeTextResponses(parts, max), a)
<1> DEFINE score == [i \in DOMAIN parts |-> parts[i].score]
           ranked == ByScore(parts, score)
<1>1. IsList(ranked) /\ ToSet(ranked) \subseteq ToSet(parts)
  BY CutFacts
<1> HIDE DEF ranked
<1>2. ToSet(Firsts(ranked, max)) \subseteq ToSet(ranked)
  BY <1>1, CutFacts
<1> QED BY <1>1, <1>2 DEF OwnResults, ranked, ByComposite, MergeTextResponses

-----------------------------------------------------------------------------
(* Articles: what each stage passes on. *)

(* A list of hits with some fields of each replaced. *)
LEMMA SameHits ==
  ASSUME NEW hits, NEW a, GoodHits(hits, a), NEW out, out = [i \in DOMAIN hits |-> out[i]],
         \A i \in DOMAIN hits : /\ {"id", "tenant", "state", "audience"} \subseteq DOMAIN out[i]
                                /\ out[i].state = hits[i].state /\ out[i].tenant = hits[i].tenant
                                /\ out[i].audience = hits[i].audience
  PROVE  GoodHits(out, a)
<1>1. IsList(hits) /\ \A h \in ToSet(hits) : HitOK(h, a)
  BY DEF GoodHits
<1>2. IsList(out) /\ DOMAIN out = DOMAIN hits
  BY <1>1, MapFacts DEF IsList
<1>3. \A i \in DOMAIN hits : HitOK(hits[i], a)
  BY <1>1, ToSetFacts
<1>4. \A i \in DOMAIN hits : HitOK(out[i], a)
  BY <1>3 DEF HitOK
<1> QED BY <1>2, <1>4 DEF GoodHits, ToSet

(* Hits of rows that the WHERE clause keeps. *)
LEMMA HitsFacts ==
  ASSUME NEW rows, NEW a, NEW keys \in Seq(KbVisible(rows, a.tenant, KbAudiencesFor(a.role))), NEW n \in Nat
  PROVE  GoodHits(Hits(rows, keys, n), a)
<1> DEFINE V == KbVisible(rows, a.tenant, KbAudiencesFor(a.role))
           first == Firsts(keys, n)
           out == [i \in DOMAIN first |-> Hit(rows, first[i])]
<1>1. first \in Seq(V)
  BY FirstsFacts
<1> HIDE DEF first
<1>2. IsList(out)
  <2>1. out = [i \in DOMAIN first |-> out[i]]
    OBVIOUS
  <2> HIDE DEF out, V
  <2> QED BY <1>1, <2>1, MapFacts
<1>3. \A i \in DOMAIN first : first[i] \in V
  BY <1>1
<1>4. \A k \in V : HitOK(Hit(rows, k), a)
  BY DEF HitOK, Hit, KbVisible
<1>5. \A h \in ToSet(out) : HitOK(h, a)
  BY <1>3, <1>4 DEF ToSet
<1> QED BY <1>2, <1>5 DEF GoodHits, Hits, first

(* The rows a statement finds, sorted. *)
LEMMA FoundFacts ==
  ASSUME NEW S, IsFiniteSet(S), NEW T \in SUBSET S, NEW score
  PROVE  ByScore(SetToSeq(T), score) \in Seq(S)
<1>1. SetToSeq(T) \in Seq(T)
  BY FS_Subset, ScanFacts
<1>2. SetToSeq(T) \in Seq(S)
  BY <1>1
<1> QED BY <1>2, SortFacts

LEMMA SearchFacts ==
  ASSUME NEW rows, IsFiniteSet(DOMAIN rows), NEW a, NEW query, NEW n \in Nat
  PROVE  /\ GoodHits(KbSearch(rows, query, a.tenant, KbAudiencesFor(a.role), n), a)
         /\ GoodHits(KbSearchSemantic(rows, query, a.tenant, KbAudiencesFor(a.role), n), a)
         /\ \A entity : GoodHits(LinkedTo(rows, entity, a.tenant, KbAudiencesFor(a.role), n), a)
<1> DEFINE V == KbVisible(rows, a.tenant, KbAudiencesFor(a.role))
<1>1. IsFiniteSet(V)
  BY FS_Subset DEF KbVisible
<1> HIDE DEF V
<1>2. \A keys \in Seq(V) : GoodHits(Hits(rows, keys, n), a)
  BY HitsFacts DEF V
<1>3. \A T \in SUBSET V : \A score : ByScore(SetToSeq(T), score) \in Seq(V)
  BY <1>1, FoundFacts
<1>4. \A keys \in Seq(V) : \A score : ByScore(keys, score) \in Seq(V)
  BY SortFacts
<1>5. GoodHits(KbSearch(rows, query, a.tenant, KbAudiencesFor(a.role), n), a)
  <2> DEFINE T == {k \in V : rows[k].about \cap query # {}}
             found == SetToSeq(T)
             votes == [i \in DOMAIN found |-> rows[found[i]].votes]
             byVotes == ByScore(found, votes)
             matches == [i \in DOMAIN byVotes |-> Cardinality(rows[byVotes[i]].about \cap query)]
             ranked == ByScore(byVotes, matches)
  <2>1. KbSearch(rows, query, a.tenant, KbAudiencesFor(a.role), n) = Hits(rows, ranked, n)
    BY DEF KbSearch, V
  <2>2. T \in SUBSET V
    OBVIOUS
  <2> HIDE DEF T, votes, matches
  <2>3. byVotes \in Seq(V)
    BY <1>3, <2>2
  <2> HIDE DEF byVotes
  <2>4. ranked \in Seq(V)
    BY <1>4, <2>3
  <2> QED BY <1>2, <2>1, <2>4
<1>6. GoodHits(KbSearchSemantic(rows, query, a.tenant, KbAudiencesFor(a.role), n), a)
  <2> DEFINE T == {k \in V : rows[k].emb}
             found == SetToSeq(T)
             score == [i \in DOMAIN found |-> Cosine(found[i][2], query)]
  <2>1. KbSearchSemantic(rows, query, a.tenant, KbAudiencesFor(a.role), n) = Hits(rows, ByScore(found, score), n)
    BY DEF KbSearchSemantic, ByCosine, V
  <2>2. T \in SUBSET V
    OBVIOUS
  <2> HIDE DEF T, score
  <2> QED BY <1>2, <1>3, <2>1, <2>2
<1>7. ASSUME NEW entity PROVE GoodHits(LinkedTo(rows, entity, a.tenant, KbAudiencesFor(a.role), n), a)
  <2> DEFINE T == {k \in V : entity \in rows[k].linked}
             found == SetToSeq(T)
             score == [i \in DOMAIN found |-> rows[found[i]].votes]
  <2>1. LinkedTo(rows, entity, a.tenant, KbAudiencesFor(a.role), n) = Hits(rows, ByScore(found, score), n)
    BY DEF LinkedTo, V
  <2>2. T \in SUBSET V
    OBVIOUS
  <2> HIDE DEF T, score
  <2> QED BY <1>2, <1>3, <2>1, <2>2
<1> QED BY <1>5, <1>6, <1>7

LEMMA EmptyHits == \A a : GoodHits(<<>>, a)
BY DEF GoodHits, IsList, ToSet

LEMMA PlainFacts ==
  ASSUME NEW hits, NEW a, GoodHits(hits, a)
  PROVE  GoodHits(Plain(hits), a)
<1> DEFINE out == Plain(hits)
<1>1. /\ out = [i \in DOMAIN hits |-> out[i]]
      /\ \A i \in DOMAIN hits : /\ {"id", "tenant", "state", "audience"} \subseteq DOMAIN out[i]
                                /\ out[i].state = hits[i].state /\ out[i].tenant = hits[i].tenant
                                /\ out[i].audience = hits[i].audience
  BY DEF Plain
<1> HIDE DEF out
<1>2. GoodHits(out, a)
  BY <1>1, SameHits
<1> QED BY <1>2 DEF out

LEMMA GetFacts ==
  ASSUME NEW rows, NEW a, NEW id
  PROVE  GoodHits(KbGet(rows, a.tenant, id, KbAudiencesFor(a.role)), a)
<1> DEFINE k == <<a.tenant, id>>
<1>1. CASE k \in KbVisible(rows, a.tenant, KbAudiencesFor(a.role))
  <2>1. HitOK(Hit(rows, k), a)
    BY <1>1 DEF HitOK, Hit, KbVisible
  <2>2. KbGet(rows, a.tenant, id, KbAudiencesFor(a.role)) = <<Hit(rows, k)>>
    BY <1>1 DEF KbGet
  <2>3. \A h : IsList(<<h>>) /\ ToSet(<<h>>) = {h}
    BY DEF IsList, ToSet
  <2> QED BY <2>1, <2>2, <2>3 DEF GoodHits
<1>2. CASE k \notin KbVisible(rows, a.tenant, KbAudiencesFor(a.role))
  BY <1>2, EmptyHits DEF KbGet
<1> QED BY <1>1, <1>2

(* A part of the hits, ranked and cut. *)
LEMMA RankedHits ==
  ASSUME NEW hits, NEW a, GoodHits(hits, a), NEW score, NEW kept \in SUBSET DOMAIN hits, NEW n \in Nat
  PROVE  GoodHits(Firsts(AtPositions(ByScore(hits, score), kept), n), a)
<1>1. hits \in Seq(ToSet(hits))
  BY DEF GoodHits, IsList
<1>2. Firsts(AtPositions(ByScore(hits, score), kept), n) \in Seq(ToSet(hits))
  BY <1>1, SortedPart
<1> QED BY <1>2, ListFacts DEF GoodHits

LEMMA FuseFacts ==
  ASSUME NEW fts, NEW sem, NEW a, GoodHits(fts, a), GoodHits(sem, a), NEW cosines
  PROVE  GoodHits(RrfFuse(fts, sem, cosines), a)
<1> DEFINE isIn(hits, id) == \E i \in DOMAIN hits : hits[i].id = id
           slot(h) == [id |-> h.id, tenant |-> h.tenant, state |-> h.state, audience |-> h.audience,
                       fused |-> Contribution(fts, h.id) + Contribution(sem, h.id),
                       cos |-> IF isIn(sem, h.id) THEN cosines[h.id] ELSE Unscored, rr |-> Unscored]
           fresh == {i \in DOMAIN sem : ~isIn(fts, sem[i].id)}
           found == fts \o AtPositions(sem, fresh)
           slots == [i \in DOMAIN found |-> slot(found[i])]
           score == [i \in DOMAIN slots |-> slots[i].fused]
           ranked == ByScore(slots, score)
           kept == {i \in DOMAIN ranked : ranked[i].fused >= MinFused}
<1>1. RrfFuse(fts, sem, cosines) = Firsts(AtPositions(ranked, kept), FuseTopK)
  BY DEF RrfFuse
<1>2. GoodHits(found, a)
  <2>1. fresh \in SUBSET DOMAIN sem
    OBVIOUS
  <2> HIDE DEF fresh
  <2>2. IsList(AtPositions(sem, fresh)) /\ ToSet(AtPositions(sem, fresh)) \subseteq ToSet(sem)
    BY <2>1, FilterFacts DEF GoodHits
  <2>3. IsList(found) /\ ToSet(found) \subseteq ToSet(fts) \cup ToSet(AtPositions(sem, fresh))
    BY <2>2, JoinFacts DEF GoodHits
  <2> QED BY <2>2, <2>3 DEF GoodHits
<1> HIDE DEF found
<1>3. GoodHits(slots, a)
  <2>1. /\ slots = [i \in DOMAIN found |-> slots[i]]
        /\ \A i \in DOMAIN found : /\ {"id", "tenant", "state", "audience"} \subseteq DOMAIN slots[i]
                                   /\ slots[i].state = found[i].state /\ slots[i].tenant = found[i].tenant
                                   /\ slots[i].audience = found[i].audience
    BY DEF slot
  <2> HIDE DEF slots
  <2> QED BY <1>2, <2>1, SameHits
<1> HIDE DEF slots, score
<1>4. DOMAIN ranked = DOMAIN slots
  BY <1>3, CutFacts DEF GoodHits
<1> HIDE DEF ranked
<1>5. kept \in SUBSET DOMAIN slots /\ FuseTopK \in Nat
  BY <1>4 DEF FuseTopK
<1> HIDE DEF kept
<1> QED BY <1>1, <1>3, <1>5, RankedHits DEF ranked

(* The gates. *)
LEMMA GateFacts ==
  ASSUME NEW hits, NEW a, GoodHits(hits, a), NEW verdict, NEW embedded, NEW stored, NEW cosines
  PROVE  GoodHits(RerankAndGate(hits, verdict, embedded, stored, cosines).hits, a)
<1>0. MaxResults \in Nat
  BY DEF MaxResults
<1>1. GoodHits(Passing(WithVerdicts(hits, verdict), LAMBDA h : h.rr, RerankMin), a)
  <2> DEFINE out == WithVerdicts(hits, verdict)
             score == [i \in DOMAIN out |-> out[i].rr]
             ranked == ByScore(out, score)
             kept == {i \in DOMAIN ranked : ranked[i].rr >= RerankMin}
  <2>1. Passing(out, LAMBDA h : h.rr, RerankMin) = Firsts(AtPositions(ranked, kept), MaxResults)
    BY DEF Passing
  <2>2. out = [i \in DOMAIN hits |-> out[i]]
    BY DEF WithVerdicts
  <2>3. ASSUME NEW i \in DOMAIN hits
        PROVE  /\ {"id", "tenant", "state", "audience"} \subseteq DOMAIN out[i]
               /\ out[i].state = hits[i].state /\ out[i].tenant = hits[i].tenant
               /\ out[i].audience = hits[i].audience
    <3>1. HitOK(hits[i], a)
      BY ToSetFacts DEF GoodHits
    <3> DEFINE rr == IF hits[i].id \in DOMAIN verdict THEN (verdict[hits[i].id] * 100) \div MaxLabel ELSE 0
    <3>2. out[i] = [hits[i] EXCEPT !.rr = rr]
      BY DEF WithVerdicts
    <3> HIDE DEF rr, out
    <3> QED BY <3>1, <3>2 DEF HitOK
  <2> HIDE DEF out
  <2>4. GoodHits(out, a)
    BY <2>2, <2>3, SameHits
  <2> HIDE DEF score
  <2>5. DOMAIN ranked = DOMAIN out
    BY <2>4, CutFacts DEF GoodHits
  <2> HIDE DEF ranked
  <2>6. kept \in SUBSET DOMAIN out
    BY <2>5
  <2> HIDE DEF kept
  <2>7. GoodHits(Firsts(AtPositions(ranked, kept), MaxResults), a)
    BY <1>0, <2>4, <2>6, RankedHits DEF ranked
  <2> QED BY <2>1, <2>7 DEF out
<1>2. GoodHits(Passing(ScoreFtsOnly(hits, stored, cosines), LAMBDA h : h.cos, MinScore), a)
  <2> DEFINE out == ScoreFtsOnly(hits, stored, cosines)
             score == [i \in DOMAIN out |-> out[i].cos]
             ranked == ByScore(out, score)
             kept == {i \in DOMAIN ranked : ranked[i].cos >= MinScore}
  <2>1. Passing(out, LAMBDA h : h.cos, MinScore) = Firsts(AtPositions(ranked, kept), MaxResults)
    BY DEF Passing
  <2>2. out = [i \in DOMAIN hits |-> out[i]]
    BY DEF ScoreFtsOnly
  <2>3. ASSUME NEW i \in DOMAIN hits
        PROVE  /\ {"id", "tenant", "state", "audience"} \subseteq DOMAIN out[i]
               /\ out[i].state = hits[i].state /\ out[i].tenant = hits[i].tenant
               /\ out[i].audience = hits[i].audience
    <3>1. HitOK(hits[i], a)
      BY ToSetFacts DEF GoodHits
    <3> DEFINE cos == IF hits[i].id \in stored THEN cosines[hits[i].id] ELSE 0
    <3>2. out[i] = hits[i] \/ out[i] = [hits[i] EXCEPT !.cos = cos]
      BY DEF ScoreFtsOnly
    <3> HIDE DEF cos, out
    <3> QED BY <3>1, <3>2 DEF HitOK
  <2> HIDE DEF out
  <2>4. GoodHits(out, a)
    BY <2>2, <2>3, SameHits
  <2> HIDE DEF score
  <2>5. DOMAIN ranked = DOMAIN out
    BY <2>4, CutFacts DEF GoodHits
  <2> HIDE DEF ranked
  <2>6. kept \in SUBSET DOMAIN out
    BY <2>5
  <2> HIDE DEF kept
  <2>7. GoodHits(Firsts(AtPositions(ranked, kept), MaxResults), a)
    BY <1>0, <2>4, <2>6, RankedHits DEF ranked
  <2> QED BY <2>1, <2>7 DEF out
<1>3. GoodHits(Firsts(hits, MaxResults), a)
  BY <1>0, CutFacts DEF GoodHits
<1> QED BY <1>1, <1>2, <1>3 DEF RerankAndGate, RelevanceGate

LEMMA LinkedHits ==
  ASSUME NEW hits, NEW a, GoodHits(hits, a), NEW wired, NEW cosines, NEW scorer
  PROVE  GoodHits(ScoreLinkedHits(hits, wired, cosines, scorer), a)
<1> DEFINE score == [i \in DOMAIN hits |-> LinkedScore(cosines, scorer, hits[i].id)]
           ranked == ByScore(hits, score)
           kept == {i \in DOMAIN ranked : LinkedScore(cosines, scorer, ranked[i].id) >= MinScore}
<1>1. ScoreLinkedHits(hits, wired, cosines, scorer)
        \in {hits, Firsts(AtPositions(ranked, kept), MaxResults)}
  BY DEF ScoreLinkedHits, Passing
<1> HIDE DEF score
<1>2. DOMAIN ranked = DOMAIN hits
  BY CutFacts DEF GoodHits
<1> HIDE DEF ranked
<1>3. kept \in SUBSET DOMAIN hits /\ MaxResults \in Nat
  BY <1>2 DEF MaxResults
<1> HIDE DEF kept
<1>4. GoodHits(Firsts(AtPositions(ranked, kept), MaxResults), a)
  BY <1>3, RankedHits DEF ranked
<1> QED BY <1>1, <1>4

(* An answer names only articles it was given. *)
LEMMA TextFacts ==
  ASSUME NEW hits, IsList(hits), hits # <<>>, NEW plain, NEW reply
  PROVE  /\ ArticleText(hits, reply).cites \subseteq {h.id : h \in ToSet(hits)}
         /\ Compose(hits, plain, reply).cites \subseteq {h.id : h \in ToSet(hits)}
         /\ DeterministicCompose(hits).cites \subseteq {h.id : h \in ToSet(hits)}
<1>1. hits[1] \in ToSet(hits)
  BY DEF IsList, ToSet
<1>2. DeterministicCompose(hits).cites = {hits[1].id}
  BY DEF DeterministicCompose
<1>3. DeterministicCompose(hits).cites \subseteq {h.id : h \in ToSet(hits)}
  BY <1>1, <1>2
<1>4. LlmCompose(hits, reply).cites \subseteq {h.id : h \in ToSet(hits)}
  BY <1>3 DEF LlmCompose, HasUncitedKbId
<1>5. Compose(hits, plain, reply).cites \subseteq {h.id : h \in ToSet(hits)}
  BY <1>3, <1>4 DEF Compose, BlankText
<1>6. ArticleText(hits, reply).cites \subseteq {h.id : h \in ToSet(hits)}
  BY <1>1, <1>4 DEF ArticleText
<1> QED BY <1>3, <1>5, <1>6

LEMMA AnswerFacts ==
  ASSUME NEW hits, NEW a, GoodHits(hits, a), NEW plain, NEW reply
  PROVE  LET answer == ComposeKbAnswer(hits, plain, reply)
         IN /\ \A h \in ToSet(answer.shown) : HitOK(h, a)
            /\ answer.outcome = "found" => answer.text.cites \subseteq {h.id : h \in ToSet(answer.shown)}
<1> DEFINE text == Compose(hits, plain, reply)
           answer == ComposeKbAnswer(hits, plain, reply)
<1>1. CASE hits = <<>> \/ (text.none /\ ~GoodEnough(hits[1], plain))
  <2>1. answer.outcome = "no_match" /\ answer.shown = <<>>
    BY <1>1 DEF ComposeKbAnswer
  <2> QED BY <2>1, EmptyHits DEF GoodHits
<1>2. CASE ~(hits = <<>> \/ (text.none /\ ~GoodEnough(hits[1], plain)))
  <2>1. /\ answer.shown = hits
        /\ answer.text = IF text.none THEN DeterministicCompose(hits) ELSE text
    BY <1>2 DEF ComposeKbAnswer
  <2>2. text.cites \subseteq {h.id : h \in ToSet(hits)}
    BY <1>2, TextFacts DEF GoodHits
  <2>3. DeterministicCompose(hits).cites \subseteq {h.id : h \in ToSet(hits)}
    BY <1>2, TextFacts DEF GoodHits
  <2> HIDE DEF answer, text
  <2>4. answer.text.cites \subseteq {h.id : h \in ToSet(answer.shown)}
    BY <2>1, <2>2, <2>3
  <2>5. \A h \in ToSet(answer.shown) : HitOK(h, a)
    BY <2>1 DEF GoodHits
  <2> QED BY <2>4, <2>5 DEF answer
<1> QED BY <1>1, <1>2

-----------------------------------------------------------------------------
(* One request moves, the others stay. *)

LEMMA JobStep ==
  ASSUME ReadersInv, NEW j \in Jobs, NEW r, Stage(j, r), Go(j, r), UNCHANGED <<ticket, kb>>,
         SummariesOK', AnswersOK', EchoesOK'
  PROVE  ReadersInv'
<1>1. DOMAIN job = Jobs /\ \A k \in Jobs : Stage(k, job[k])
  BY DEF ReadersInv
<1>2. DOMAIN job' = Jobs /\ job'[j] = r /\ \A k \in Jobs : k # j => job'[k] = job[k]
  BY <1>1 DEF Go
<1>3. \A k \in Jobs : Stage(k, job'[k])
  BY <1>1, <1>2
<1>4. TablesOK'
  BY DEF ReadersInv, TablesOK
<1> QED BY <1>2, <1>3, <1>4 DEF ReadersInv

LEMMA QuietStep ==
  ASSUME ReadersInv, NEW j \in Jobs, NEW r, Stage(j, r), Go(j, r), UNCHANGED <<ticket, kb, summaries, answers>>
  PROVE  ReadersInv'
<1>1. SummariesOK' /\ AnswersOK' /\ EchoesOK'
  BY DEF ReadersInv, SummariesOK, AnswersOK, EchoesOK
<1> QED BY <1>1, JobStep

(* A request that ends with an error, or with nothing, shows nothing. *)
LEMMA EndStep ==
  ASSUME ReadersInv, NEW j \in Jobs, job[j].pc \notin {"idle", "store", "keep", "end"},
         NEW outcome, outcome \notin {"summarized", "found"}, End(j, outcome),
         UNCHANGED <<ticket, kb, summaries, answers>>
  PROVE  ReadersInv'
<1> DEFINE r == [job[j] EXCEPT !.pc = "end", !.outcome = outcome]
<1>1. Stage(j, job[j])
  BY DEF ReadersInv
<1>2. DOMAIN job[j] = JobFields
  BY <1>1 DEF Stage
<1>3. /\ DOMAIN r = JobFields /\ r.pc = "end" /\ r.outcome = outcome /\ r.ask = job[j].ask
      /\ r.told = job[j].told /\ r.shown = job[j].shown /\ r.note = job[j].note
  BY <1>2 DEF JobFields
<1> HIDE DEF r
<1>4. r.told = {} /\ r.shown = <<>> /\ r.ask \in Asks(j)
  BY <1>1, <1>3 DEF Stage, ToldOK, KindOK
<1>5. ToSet(r.shown) = {}
  BY <1>4 DEF ToSet
<1>6. Stage(j, r)
  <2>1. KindOK(j, r)
    BY <1>3, <1>4 DEF KindOK, ReadPCs, SimilarPCs, KbPCs
  <2>2. ToldOK(r)
    BY <1>3, <1>4 DEF ToldOK, SimilarPCs, KbPCs
  <2>3. SimilarOK(r)
    <3>1. r.ask.kind \in {"similar", "tool"} => r.note = <<>>
      BY <1>1, <1>3 DEF Stage, KindOK, SimilarOK, PCs, ReadPCs, SimilarPCs, KbPCs
    <3> QED BY <1>3, <1>5, <3>1 DEF SimilarOK, OwnResults, Without, Echo, SimilarPCs
  <2>4. KbOK(r)
    BY <1>3, <1>5 DEF KbOK, KbPCs
  <2> QED BY <1>3, <2>1, <2>2, <2>3, <2>4 DEF Stage, PCs
<1>7. Go(j, r)
  BY DEF End, r
<1> QED BY <1>6, <1>7, QuietStep

(* A request that reads on tells and shows nothing yet. *)
LEMMA OnStep ==
  ASSUME ReadersInv, NEW j \in Jobs, NEW r, DOMAIN r = JobFields,
         job[j].pc \notin {"idle", "store", "keep", "end"}, r.pc \notin {"idle", "read", "store", "keep", "end"},
         r.ask = job[j].ask, r.told = job[j].told, r.shown = job[j].shown,
         \/ job[j].pc \in ReadPCs /\ r.pc \in ReadPCs \ {"read", "recent", "summary", "cacheget", "cacheput"}
         \/ job[j].pc \in SimilarPCs /\ r.pc \in SimilarPCs /\ r.rec = job[j].rec
              /\ r.note = job[j].note /\ r.key = job[j].key
              /\ (r.pc = "words" => r.ask.text)
              /\ (r.pc = "refine" => GoodCands(r.cands, r.ask, r.ask.id))
         \/ job[j].pc \in KbPCs /\ r.pc \in KbPCs /\ r.rec = job[j].rec /\ GoodHits(r.hits, r.ask),
         Go(j, r), UNCHANGED <<ticket, kb, summaries, answers>>
  PROVE  ReadersInv'
<1>1. Stage(j, job[j])
  BY DEF ReadersInv
<1>2. KindOK(j, r)
  BY <1>1 DEF Stage, KindOK, ReadPCs, SimilarPCs, KbPCs
<1>3. ToldOK(r)
  BY <1>1 DEF Stage, ToldOK, ReadPCs, SimilarPCs, KbPCs
<1>4. SimilarOK(r)
  BY <1>1 DEF Stage, SimilarOK, ReadPCs, SimilarPCs, KbPCs
<1>5. KbOK(r)
  BY <1>1 DEF KbOK, ReadPCs, SimilarPCs, KbPCs
<1>6. Stage(j, r)
  BY <1>2, <1>3, <1>4, <1>5 DEF Stage, PCs
<1> QED BY <1>6, QuietStep

(* A reading that ends tells part of the view, and a summary all of it. *)
LEMMA TellStep ==
  ASSUME ReadersInv, NEW j \in Jobs, NEW r, DOMAIN r = JobFields,
         job[j].pc \in ReadPCs, r.pc = "end", r.ask = job[j].ask,
         r.told \subseteq AllFacts(r), r.outcome = "summarized" => r.told = AllFacts(r),
         Go(j, r), UNCHANGED <<ticket, kb>>, SummariesOK', AnswersOK', EchoesOK'
  PROVE  ReadersInv'
<1>1. Stage(j, job[j])
  BY DEF ReadersInv
<1>2. KindOK(j, r) /\ r.ask.kind \in {"read", "recent", "summary", "cacheget", "cacheput"}
  BY <1>1 DEF Stage, KindOK, ReadPCs, SimilarPCs, KbPCs
<1>3. ToldOK(r)
  BY <1>1 DEF Stage, ToldOK, ReadPCs, SimilarPCs, KbPCs
<1>4. SimilarOK(r)
  BY <1>2 DEF SimilarOK, SimilarPCs
<1>5. KbOK(r)
  BY <1>2 DEF KbOK, KbPCs
<1>6. Stage(j, r)
  BY <1>2, <1>3, <1>4, <1>5 DEF Stage, PCs
<1> QED BY <1>6, JobStep

LEMMA BeginStep ==
  ASSUME ReadersInv, NEW j \in Jobs, Begin(j)
  PROVE  ReadersInv'
<1>1. PICK a \in Asks(j) : Go(j, [Start EXCEPT !.pc = a.kind, !.ask = a, !.key = <<a.tenant, a.id>>])
  BY DEF Begin
<1> DEFINE r == [Start EXCEPT !.pc = a.kind, !.ask = a, !.key = <<a.tenant, a.id>>]
<1>2. /\ DOMAIN r = JobFields /\ r.pc = a.kind /\ r.ask = a /\ r.told = {} /\ r.shown = <<>>
      /\ r.rec = Missing /\ r.hits = <<>> /\ r.note = <<>> /\ r.key = <<r.ask.tenant, r.ask.id>>
  BY DEF Start, JobFields
<1>3. Go(j, r)
  BY <1>1
<1>4. a.kind \in Kinds
  BY ReadersAssumption
<1> HIDE DEF r
<1>5. KindOK(j, r)
  BY <1>2, <1>4 DEF KindOK, Kinds, ReadPCs, SimilarPCs, KbPCs
<1>6. ToldOK(r)
  BY <1>2, <1>4 DEF ToldOK, Kinds, SimilarPCs, KbPCs
<1>7. SimilarOK(r)
  BY <1>2, <1>4 DEF SimilarOK, Kinds, SimilarPCs
<1>8. KbOK(r)
  BY <1>2, <1>4, EmptyHits DEF KbOK, Kinds
<1>9. Stage(j, r)
  BY <1>2, <1>4, <1>5, <1>6, <1>7, <1>8 DEF Stage, PCs, Kinds, ReadPCs, SimilarPCs, KbPCs
<1> QED BY <1>3, <1>9, QuietStep DEF Begin, caches

-----------------------------------------------------------------------------
(* Reads and summaries. *)

LEMMA Fields ==
  ASSUME ReadersInv, NEW j \in Jobs
  PROVE  DOMAIN job[j] = JobFields /\ Stage(j, job[j])
BY DEF ReadersInv, Stage

LEMMA CachesKept ==
  ASSUME ReadersInv, UNCHANGED <<summaries, answers>>
  PROVE  SummariesOK' /\ AnswersOK' /\ EchoesOK'
BY DEF ReadersInv, SummariesOK, AnswersOK, EchoesOK

LEMMA FetchRecordStep ==
  ASSUME ReadersInv, NEW j \in Jobs, FetchRecord(j)
  PROVE  ReadersInv'
<1> DEFINE a == job[j].ask
           rec == TicketGet(ticket, a.tenant, a.service, a.id)
           view == HumaniseRecord(Shows(a, rec))
           r == [job[j] EXCEPT !.pc = "end", !.outcome = "found", !.rec = rec,
                               !.told = Facts(job[j].key, view, DOMAIN view)]
<1>1. job[j].pc = "read" /\ UNCHANGED <<ticket, kb, summaries, answers>>
  BY DEF FetchRecord, At, caches
<1>2. \/ \E o \in {"invalid_request", "error", "not_found"} : End(j, o)
      \/ rec # Missing /\ Go(j, r)
  BY DEF FetchRecord
<1>3. CASE \E o \in {"invalid_request", "error", "not_found"} : End(j, o)
  BY <1>1, <1>3, EndStep
<1>4. CASE rec # Missing /\ Go(j, r)
  <2>1. /\ DOMAIN r = JobFields /\ r.pc = "end" /\ r.outcome = "found" /\ r.ask = a /\ r.key = job[j].key
        /\ r.rec = rec /\ r.told = Facts(job[j].key, view, DOMAIN view)
    BY Fields DEF JobFields
  <2>2. a \in Asks(j) /\ a.kind = "read"
    BY <1>1, Fields DEF Stage, KindOK
  <2>3. a.part \in Parts \cup {"details"}
    BY <2>2, ReadersAssumption
  <2>4. Parts \subseteq DOMAIN rec
    <3>1. <<a.tenant, a.id>> \in DOMAIN ticket /\ rec = ticket[<<a.tenant, a.id>>].vals
      BY <1>4 DEF TicketGet
    <3> QED BY <3>1 DEF ReadersInv, TablesOK
  <2>5. r.told \subseteq AllFacts(r)
    <3> HIDE DEF rec, a, r
    <3> QED BY <2>1, <2>3, <2>4, ShowsFacts DEF AllFacts, ViewOf
  <2>6. Go(j, r)
    BY <1>4
  <2> HIDE DEF r
  <2> QED BY <1>1, <2>1, <2>5, <2>6, TellStep, CachesKept DEF ReadPCs
<1> QED BY <1>2, <1>3, <1>4

LEMMA ListRecentStep ==
  ASSUME ReadersInv, NEW j \in Jobs, ListRecent(j)
  PROVE  ReadersInv'
<1> DEFINE a == job[j].ask
           list == ListRecentForUser(ticket, a.tenant, a.user, a.services, a.max)
           r == [job[j] EXCEPT !.pc = "end", !.outcome = "found", !.shown = list]
<1>1. job[j].pc = "recent" /\ UNCHANGED <<ticket, kb, summaries, answers>> /\ Go(j, r)
  BY DEF ListRecent, At, caches
<1> HIDE DEF list
<1>2. DOMAIN r = JobFields /\ r.pc = "end" /\ r.outcome = "found" /\ r.ask = a /\ r.told = job[j].told
  BY Fields DEF JobFields
<1>3. r.told = {}
  BY <1>1, <1>2, Fields DEF Stage, ToldOK
<1> HIDE DEF r
<1> QED BY <1>1, <1>2, <1>3, TellStep, CachesKept DEF ReadPCs

LEMMA SummarizeEntityStep ==
  ASSUME ReadersInv, NEW j \in Jobs, SummarizeEntity(j)
  PROVE  ReadersInv'
<1> DEFINE a == job[j].ask
           rec == TicketGet(ticket, a.tenant, a.service, a.id)
           next == IF Blank(a.msg) THEN "cache" ELSE "intent"
           r == [job[j] EXCEPT !.rec = rec, !.pc = next]
<1>1. job[j].pc = "summary" /\ UNCHANGED <<ticket, kb, summaries, answers>>
  BY DEF SummarizeEntity, At, caches
<1>2. (\E o \in {"invalid_request", "error", "not_found"} : End(j, o)) \/ Go(j, r)
  BY DEF SummarizeEntity
<1>3. CASE \E o \in {"invalid_request", "error", "not_found"} : End(j, o)
  BY <1>1, <1>3, EndStep
<1>4. CASE Go(j, r)
  <2>1. next \in {"cache", "intent"}
    OBVIOUS
  <2> HIDE DEF rec, next
  <2>2. DOMAIN r = JobFields /\ r.pc = next /\ r.ask = a /\ r.told = job[j].told /\ r.shown = job[j].shown
    BY Fields DEF JobFields
  <2> HIDE DEF r
  <2> QED BY <1>1, <1>4, <2>1, <2>2, OnStep DEF ReadPCs
<1> QED BY <1>2, <1>3, <1>4

(* A reading that tells part of the view it holds. *)
LEMMA ToldStep ==
  ASSUME ReadersInv, NEW j \in Jobs, job[j].pc \in ReadPCs, NEW facts,
         facts \subseteq Facts(job[j].key, MyView(j), DOMAIN MyView(j)),
         Tell(j, "field_read", facts), UNCHANGED <<ticket, kb, summaries, answers>>
  PROVE  ReadersInv'
<1> DEFINE r == [job[j] EXCEPT !.pc = "end", !.outcome = "field_read", !.told = facts]
<1>1. /\ DOMAIN r = JobFields /\ r.pc = "end" /\ r.outcome = "field_read" /\ r.ask = job[j].ask
      /\ r.key = job[j].key /\ r.rec = job[j].rec /\ r.told = facts
  BY Fields DEF JobFields
<1>2. Go(j, r)
  BY DEF Tell
<1> HIDE DEF r
<1>3. r.told \subseteq AllFacts(r)
  BY <1>1 DEF AllFacts, ViewOf, MyView
<1> QED BY <1>1, <1>2, <1>3, TellStep, CachesKept

LEMMA FieldIntentStep ==
  ASSUME ReadersInv, NEW j \in Jobs, FieldIntent(j)
  PROVE  ReadersInv'
<1>1. job[j].pc = "intent" /\ UNCHANGED <<ticket, kb, summaries, answers>>
  BY DEF FieldIntent, At
<1>2. PICK ok, reply :
        LET a == job[j].ask
            view == MyView(j)
            intent == ResolveFieldIntent(a.wired, a.msg, DOMAIN view, ok, reply)
            served == ServeFieldRead(job[j].key, intent, view, a.msg)
        IN \/ Tell(j, "field_read", served.facts)
           \/ Go(j, [job[j] EXCEPT !.pc = "link", !.intent = intent])
           \/ Go(j, [job[j] EXCEPT !.pc = "cache"])
  BY DEF FieldIntent
<1> DEFINE a == job[j].ask
           intent == ResolveFieldIntent(a.wired, a.msg, DOMAIN MyView(j), ok, reply)
           served == ServeFieldRead(job[j].key, intent, MyView(j), a.msg)
           r == [job[j] EXCEPT !.pc = "link", !.intent = intent]
           s == [job[j] EXCEPT !.pc = "cache"]
<1>3. Tell(j, "field_read", served.facts) \/ Go(j, r) \/ Go(j, s)
  BY <1>2
<1>4. served.facts \subseteq Facts(job[j].key, MyView(j), DOMAIN MyView(j))
  BY ServedFacts
<1> HIDE DEF intent, served
<1>5. DOMAIN r = JobFields /\ r.pc = "link" /\ r.ask = a /\ r.told = job[j].told /\ r.shown = job[j].shown
  BY Fields DEF JobFields
<1>6. DOMAIN s = JobFields /\ s.pc = "cache" /\ s.ask = a /\ s.told = job[j].told /\ s.shown = job[j].shown
  BY Fields DEF JobFields
<1> HIDE DEF r, s
<1>7. CASE Tell(j, "field_read", served.facts)
  BY <1>1, <1>4, <1>7, ToldStep DEF ReadPCs
<1>8. CASE Go(j, r)
  BY <1>1, <1>5, <1>8, OnStep DEF ReadPCs
<1>9. CASE Go(j, s)
  BY <1>1, <1>6, <1>9, OnStep DEF ReadPCs
<1> QED BY <1>3, <1>7, <1>8, <1>9

LEMMA ReadLinkedStep ==
  ASSUME ReadersInv, NEW j \in Jobs, ReadLinked(j)
  PROVE  ReadersInv'
<1> DEFINE a == job[j].ask
           via == job[j].intent.via
           linked == LinkedId(MyView(j), via)
           rec == IF linked = NoVal THEN Missing ELSE TicketGet(ticket, a.tenant, ServiceOfId[linked], linked)
           facts == ServeViaLink(job[j].key, MyView(j), via)
           r == [job[j] EXCEPT !.pc = "intent2", !.key = <<a.tenant, linked>>, !.rec = rec]
<1>1. job[j].pc = "link" /\ UNCHANGED <<ticket, kb, summaries, answers>>
  BY DEF ReadLinked, At, caches
<1>2. Tell(j, "field_read", facts) \/ Go(j, r)
  BY DEF ReadLinked
<1>3. facts \subseteq Facts(job[j].key, MyView(j), DOMAIN MyView(j))
  BY FieldsOfView DEF ServeViaLink, RenderFieldRead
<1> HIDE DEF facts, linked, rec
<1>4. DOMAIN r = JobFields /\ r.pc = "intent2" /\ r.ask = a /\ r.told = job[j].told /\ r.shown = job[j].shown
  BY Fields DEF JobFields
<1> HIDE DEF r
<1>5. CASE Tell(j, "field_read", facts)
  BY <1>1, <1>3, <1>5, ToldStep DEF ReadPCs
<1>6. CASE Go(j, r)
  BY <1>1, <1>4, <1>6, OnStep DEF ReadPCs
<1> QED BY <1>2, <1>5, <1>6

LEMMA LinkedIntentStep ==
  ASSUME ReadersInv, NEW j \in Jobs, LinkedIntent(j)
  PROVE  ReadersInv'
<1> DEFINE r == [job[j] EXCEPT !.pc = "cache"]
<1>1. job[j].pc = "intent2" /\ UNCHANGED <<ticket, kb, summaries, answers>>
  BY DEF LinkedIntent, At, caches
<1>2. Go(j, r) \/ \E labels : Tell(j, "field_read", RenderFieldRead(job[j].key, MyView(j), labels))
  BY DEF LinkedIntent
<1>3. DOMAIN r = JobFields /\ r.pc = "cache" /\ r.ask = job[j].ask /\ r.told = job[j].told /\ r.shown = job[j].shown
  BY Fields DEF JobFields
<1> HIDE DEF r
<1>4. CASE Go(j, r)
  BY <1>1, <1>3, <1>4, OnStep DEF ReadPCs
<1>5. ASSUME NEW labels, Tell(j, "field_read", RenderFieldRead(job[j].key, MyView(j), labels)) PROVE ReadersInv'
  <2> DEFINE facts == RenderFieldRead(job[j].key, MyView(j), labels)
  <2>1. facts \subseteq Facts(job[j].key, MyView(j), DOMAIN MyView(j))
    BY FieldsOfView DEF RenderFieldRead
  <2>2. Tell(j, "field_read", facts)
    BY <1>5
  <2> HIDE DEF facts
  <2> QED BY <1>1, <2>1, <2>2, ToldStep DEF ReadPCs
<1> QED BY <1>2, <1>4, <1>5

(* A summary that tells all of the view. *)
LEMMA SummaryStep ==
  ASSUME ReadersInv, NEW j \in Jobs, job[j].pc \in ReadPCs, NEW facts,
         facts = Facts(job[j].key, MyView(j), DOMAIN MyView(j)),
         BuildSummaryResult(j, facts), UNCHANGED <<ticket, kb>>, SummariesOK', AnswersOK', EchoesOK'
  PROVE  ReadersInv'
<1> DEFINE note == IF job[j].key[2] = job[j].ask.id
                   THEN RecordBindableFields(Visible(job[j].rec, job[j].ask.role)) ELSE {}
           r == [job[j] EXCEPT !.pc = "end", !.outcome = "summarized", !.told = facts, !.note = note]
<1>1. Go(j, r)
  BY DEF BuildSummaryResult
<1> HIDE DEF note
<1>2. /\ DOMAIN r = JobFields /\ r.pc = "end" /\ r.ask = job[j].ask
      /\ r.key = job[j].key /\ r.rec = job[j].rec /\ r.told = facts
  BY Fields DEF JobFields
<1> HIDE DEF r
<1>3. r.told = AllFacts(r)
  BY <1>2 DEF AllFacts, ViewOf, MyView
<1> QED BY <1>1, <1>2, <1>3, TellStep

LEMMA KeyFacts ==
  ASSUME NEW j
  PROVE  LET f == MySummaryKey(j)[2]
         IN f[1] = "sha" /\ f[2] = job[j].key /\ f[4] = Visible(job[j].rec, job[j].ask.role)
BY DEF MySummaryKey, SummaryKey, FingerprintOf, Fingerprint

LEMMA SummaryCacheGetStep ==
  ASSUME ReadersInv, NEW j \in Jobs, SummaryCacheGet(j)
  PROVE  ReadersInv'
<1> DEFINE r == [job[j] EXCEPT !.pc = "llm"]
<1>1. job[j].pc = "cache" /\ UNCHANGED <<ticket, kb, summaries, answers>>
  BY DEF SummaryCacheGet, At, caches
<1>2. \/ End(j, "llm_unavailable")
      \/ MySummaryKey(j) \in DOMAIN summaries /\ BuildSummaryResult(j, summaries[MySummaryKey(j)])
      \/ Go(j, r)
  BY DEF SummaryCacheGet
<1>3. DOMAIN r = JobFields /\ r.pc = "llm" /\ r.ask = job[j].ask /\ r.told = job[j].told /\ r.shown = job[j].shown
  BY Fields DEF JobFields
<1> HIDE DEF r
<1>4. CASE End(j, "llm_unavailable")
  BY <1>1, <1>4, EndStep
<1>5. CASE MySummaryKey(j) \in DOMAIN summaries /\ BuildSummaryResult(j, summaries[MySummaryKey(j)])
  <2> DEFINE k == MySummaryKey(j)
  <2>1. k[2][1] = "sha" /\ k[2][2] = job[j].key /\ k[2][4] = Visible(job[j].rec, job[j].ask.role)
    BY KeyFacts
  <2> HIDE DEF k
  <2>2. k \in DOMAIN summaries /\ BuildSummaryResult(j, summaries[k])
    BY <1>5 DEF k
  <2>3. summaries[k] = Facts(job[j].key, MyView(j), DOMAIN MyView(j))
    BY <2>1, <2>2 DEF ReadersInv, SummariesOK, OfContent, MyView
  <2> QED BY <1>1, <2>2, <2>3, SummaryStep, CachesKept DEF ReadPCs
<1>6. CASE Go(j, r)
  BY <1>1, <1>3, <1>6, OnStep DEF ReadPCs
<1> QED BY <1>2, <1>4, <1>5, <1>6

LEMMA SummaryModelStep ==
  ASSUME ReadersInv, NEW j \in Jobs, SummaryModel(j)
  PROVE  ReadersInv'
<1>1. job[j].pc = "llm" /\ UNCHANGED <<ticket, kb, summaries, answers>>
  BY DEF SummaryModel, At, caches
<1>2. PICK c : \/ End(j, "error")
               \/ Go(j, [job[j] EXCEPT !.pc = "store",
                                       !.told = Summarize(job[j].key, Visible(job[j].rec, job[j].ask.role), c)])
  BY DEF SummaryModel
<1> DEFINE told == Summarize(job[j].key, Visible(job[j].rec, job[j].ask.role), c)
           r == [job[j] EXCEPT !.pc = "store", !.told = told]
<1>3. told = Facts(job[j].key, MyView(j), DOMAIN MyView(j))
  BY SummaryFacts DEF MyView
<1> HIDE DEF told
<1>4. /\ DOMAIN r = JobFields /\ r.pc = "store" /\ r.ask = job[j].ask /\ r.told = told
      /\ r.key = job[j].key /\ r.rec = job[j].rec /\ r.shown = job[j].shown
  BY Fields DEF JobFields
<1>5. CASE End(j, "error")
  BY <1>1, <1>5, EndStep
<1>6. CASE Go(j, r)
  <2> HIDE DEF r
  <2>1. Stage(j, job[j])
    BY Fields
  <2>2. r.told = AllFacts(r)
    BY <1>3, <1>4 DEF AllFacts, ViewOf, MyView
  <2>3. KindOK(j, r) /\ ToldOK(r)
    BY <1>1, <1>4, <2>1, <2>2 DEF Stage, KindOK, ToldOK, ReadPCs, SimilarPCs, KbPCs
  <2>4. SimilarOK(r) /\ KbOK(r)
    BY <1>4 DEF SimilarOK, KbOK, KbPCs, SimilarPCs
  <2>5. Stage(j, r)
    BY <1>4, <2>3, <2>4 DEF Stage, PCs, ReadPCs
  <2> QED BY <1>1, <1>6, <2>5, QuietStep
<1> QED BY <1>2, <1>5, <1>6 DEF told

LEMMA SummaryCachePutStep ==
  ASSUME ReadersInv, NEW j \in Jobs, SummaryCachePut(j)
  PROVE  ReadersInv'
<1> DEFINE f == MySummaryKey(j)
<1>1. /\ job[j].pc = "store" /\ UNCHANGED <<ticket, kb, answers>>
      /\ BuildSummaryResult(j, job[j].told)
      /\ summaries' \in {summaries, Put(summaries, f, job[j].told)}
  BY DEF SummaryCachePut, At
<1>2. job[j].told = Facts(job[j].key, MyView(j), DOMAIN MyView(j))
  BY <1>1, Fields DEF Stage, ToldOK, AllFacts, ViewOf, MyView
<1>3. f[2][2] = job[j].key /\ f[2][4] = Visible(job[j].rec, job[j].ask.role)
  BY KeyFacts
<1> HIDE DEF f
<1>4. OfContent(f[2], job[j].told)
  BY <1>2, <1>3 DEF MyView, OfContent
<1>5. SummariesOK'
  <2>1. SummariesOK
    BY DEF ReadersInv
  <2>2. CASE summaries' = Put(summaries, f, job[j].told)
    BY <1>4, <2>1, <2>2 DEF SummariesOK, Put
  <2> QED BY <1>1, <2>1, <2>2 DEF SummariesOK
<1>6. AnswersOK' /\ EchoesOK'
  BY <1>1 DEF ReadersInv, AnswersOK, EchoesOK
<1> QED BY <1>1, <1>2, <1>5, <1>6, SummaryStep DEF ReadPCs

(* The cache tools read and write texts that are not of a record read. *)
LEMMA GetCachedSummaryStep ==
  ASSUME ReadersInv, NEW j \in Jobs, GetCachedSummary(j)
  PROVE  ReadersInv'
<1>1. job[j].pc = "cacheget" /\ UNCHANGED <<ticket, kb, summaries, answers>>
  BY DEF GetCachedSummary, At, caches
<1>2. (\E o \in {"invalid_request", "miss"} : End(j, o)) \/ (\E facts : Tell(j, "hit", facts))
  BY DEF GetCachedSummary
<1>3. CASE \E o \in {"invalid_request", "miss"} : End(j, o)
  BY <1>1, <1>3, EndStep
<1>4. ASSUME NEW facts, Tell(j, "hit", facts) PROVE ReadersInv'
  <2> DEFINE r == [job[j] EXCEPT !.pc = "end", !.outcome = "hit", !.told = facts]
  <2>1. Go(j, r)
    BY <1>4 DEF Tell
  <2>2. /\ DOMAIN r = JobFields /\ r.pc = "end" /\ r.outcome = "hit" /\ r.ask = job[j].ask
        /\ r.rec = job[j].rec /\ r.shown = job[j].shown
    BY Fields DEF JobFields
  <2> HIDE DEF r
  <2>3. Stage(j, job[j])
    BY Fields
  <2>4. KindOK(j, r) /\ r.ask.kind \in {"read", "recent", "summary", "cacheget", "cacheput"} /\ ToldOK(r)
    BY <1>1, <2>2, <2>3 DEF Stage, KindOK, ToldOK, ReadPCs, SimilarPCs, KbPCs
  <2>5. SimilarOK(r) /\ KbOK(r)
    BY <2>2, <2>4 DEF SimilarOK, KbOK, SimilarPCs, KbPCs
  <2>6. Stage(j, r)
    BY <2>2, <2>4, <2>5 DEF Stage, PCs
  <2> QED BY <1>1, <2>1, <2>6, QuietStep
<1> QED BY <1>2, <1>3, <1>4

LEMMA PutCachedSummaryStep ==
  ASSUME ReadersInv, NEW j \in Jobs, PutCachedSummary(j)
  PROVE  ReadersInv'
<1> DEFINE a == job[j].ask
           k == SummaryKey(a.tenant, a.fp)
<1>1. /\ job[j].pc = "cacheput" /\ UNCHANGED <<ticket, kb, answers>>
      /\ summaries' \in {summaries, Put(summaries, k, a.summary)}
  BY DEF PutCachedSummary, At
<1>2. PICK o \in {"invalid_request", "stored"} : End(j, o)
  BY DEF PutCachedSummary
<1>3. Stage(j, job[j])
  BY Fields
<1>4. k[2][1] # "sha"
  <2>1. a \in Asks(j) /\ a.kind = "cacheput"
    BY <1>1, <1>3 DEF Stage, KindOK
  <2>2. a.fp[1] # "sha"
    BY <2>1, ReadersAssumption
  <2> QED BY <2>2 DEF SummaryKey
<1>5. OfContent(k[2], a.summary)
  BY <1>4 DEF OfContent
<1> HIDE DEF k
<1>6. SummariesOK'
  <2>1. SummariesOK
    BY DEF ReadersInv
  <2>2. CASE summaries' = Put(summaries, k, a.summary)
    BY <1>5, <2>1, <2>2 DEF SummariesOK, Put
  <2> QED BY <1>1, <2>1, <2>2 DEF SummariesOK
<1>7. AnswersOK' /\ EchoesOK'
  BY <1>1 DEF ReadersInv, AnswersOK, EchoesOK
<1> DEFINE r == [job[j] EXCEPT !.pc = "end", !.outcome = o]
<1>8. Go(j, r)
  BY <1>2 DEF End
<1>9. /\ DOMAIN r = JobFields /\ r.pc = "end" /\ r.outcome # "summarized" /\ r.ask = job[j].ask
      /\ r.told = job[j].told
  BY Fields DEF JobFields
<1>10. r.told = {}
  BY <1>1, <1>3, <1>9 DEF Stage, ToldOK
<1> HIDE DEF r
<1> QED BY <1>1, <1>6, <1>7, <1>8, <1>9, <1>10, TellStep DEF ReadPCs

-----------------------------------------------------------------------------
(* Similar tickets. *)

(* A request for similar tickets that ends with what it may show. *)
LEMMA ShowStep ==
  ASSUME ReadersInv, NEW j \in Jobs, NEW r, DOMAIN r = JobFields,
         job[j].pc \in SimilarPCs, r.pc \in {"end", "keep"}, r.ask = job[j].ask, r.told = job[j].told,
         r.rec = job[j].rec, OwnResults(r.shown, r.ask), Echo(r),
         r.pc = "keep" \/ ~r.ask.text => Without(r.shown, r.ask.id),
         Go(j, r), UNCHANGED <<ticket, kb>>, SummariesOK', AnswersOK', EchoesOK'
  PROVE  ReadersInv'
<1>1. Stage(j, job[j])
  BY Fields
<1>2. KindOK(j, r) /\ r.ask.kind \in {"similar", "tool"}
  BY <1>1 DEF Stage, KindOK, ReadPCs, SimilarPCs, KbPCs
<1>3. ToldOK(r)
  BY <1>1 DEF Stage, ToldOK, SimilarPCs, KbPCs
<1>4. SimilarOK(r)
  BY <1>2 DEF SimilarOK, SimilarPCs
<1>5. KbOK(r)
  BY <1>2 DEF KbOK, KbPCs
<1>6. Stage(j, r)
  BY <1>2, <1>3, <1>4, <1>5 DEF Stage, PCs, SimilarPCs
<1> QED BY <1>6, JobStep

LEMMA SimilarTicketsRouteStep ==
  ASSUME ReadersInv, NEW j \in Jobs, SimilarTicketsRoute(j)
  PROVE  ReadersInv'
<1> DEFINE a == job[j].ask
           f == CacheKey(a, ResolveId(a.id, a.service))
           r == [job[j] EXCEPT !.pc = "end", !.outcome = "found", !.shown = answers[f].results,
                               !.note = answers[f].note]
           s == [job[j] EXCEPT !.pc = "anchor"]
<1>1. job[j].pc = "similar" /\ UNCHANGED <<ticket, kb, summaries, answers>>
  BY DEF SimilarTicketsRoute, At, caches
<1>2. \/ \E o \in {"403", "400"} : End(j, o)
      \/ f \in DOMAIN answers /\ Go(j, r)
      \/ Go(j, s)
  BY DEF SimilarTicketsRoute
<1>3. f[1] = a.tenant /\ f[2] = a.user /\ f[3] = a.role /\ f[4] = a.id
  BY DEF CacheKey
<1> HIDE DEF f
<1>4. CASE \E o \in {"403", "400"} : End(j, o)
  BY <1>1, <1>4, EndStep
<1>5. CASE f \in DOMAIN answers /\ Go(j, r)
  <2> DEFINE shown == answers[f].results
  <2>1. OwnResults(shown, a) /\ Without(shown, a.id)
    BY <1>3, <1>5 DEF ReadersInv, AnswersOK, OwnResults, Without
  <2>2. /\ DOMAIN r = JobFields /\ r.pc = "end" /\ r.ask = a /\ r.told = job[j].told /\ r.rec = job[j].rec
        /\ r.shown = shown /\ r.note = answers[f].note
    BY Fields DEF JobFields
  <2> HIDE DEF r, shown
  <2>3. Echo(r)
    BY <1>3, <1>5, <2>2 DEF ReadersInv, EchoesOK, Echo
  <2> QED BY <1>1, <1>5, <2>1, <2>2, <2>3, ShowStep, CachesKept DEF SimilarPCs
<1>6. CASE Go(j, s)
  <2>1. /\ DOMAIN s = JobFields /\ s.pc = "anchor" /\ s.ask = a /\ s.told = job[j].told /\ s.rec = job[j].rec
        /\ s.shown = job[j].shown /\ s.note = job[j].note /\ s.key = job[j].key
    BY Fields DEF JobFields
  <2> HIDE DEF s
  <2> QED BY <1>1, <1>6, <2>1, OnStep DEF SimilarPCs
<1> QED BY <1>2, <1>4, <1>5, <1>6

LEMMA BoundaryOutcome == \A why : BoundaryResponse(why) \notin {"summarized", "found"}
BY DEF BoundaryResponse

LEMMA FindSimilarEntitiesStep ==
  ASSUME ReadersInv, NEW j \in Jobs, FindSimilarEntities(j)
  PROVE  ReadersInv'
<1> DEFINE a == job[j].ask
           o == BoundaryResponse(ResolveId(a.id, a.service))
           s(pc) == [job[j] EXCEPT !.pc = pc]
<1>1. job[j].pc = "tool" /\ UNCHANGED <<ticket, kb, summaries, answers>>
  BY DEF FindSimilarEntities, At, caches
<1>2. End(j, o) \/ \E pc \in {"words", "anchor"} : Go(j, s(pc)) /\ (pc = "words" => a.text)
  BY DEF FindSimilarEntities
<1>3. o \notin {"summarized", "found"}
  BY BoundaryOutcome
<1> HIDE DEF o
<1>4. CASE End(j, o)
  BY <1>1, <1>3, <1>4, EndStep
<1>5. ASSUME NEW pc \in {"words", "anchor"}, Go(j, s(pc)), pc = "words" => a.text PROVE ReadersInv'
  <2> DEFINE r == s(pc)
  <2>1. /\ DOMAIN r = JobFields /\ r.pc = pc /\ r.ask = a /\ r.told = job[j].told /\ r.rec = job[j].rec
        /\ r.shown = job[j].shown /\ r.note = job[j].note /\ r.key = job[j].key
    BY Fields DEF JobFields
  <2>2. Go(j, r)
    BY <1>5
  <2> HIDE DEF r
  <2> QED BY <1>1, <1>5, <2>1, <2>2, OnStep DEF SimilarPCs
<1> QED BY <1>2, <1>4, <1>5

LEMMA LoadSourceAnchorStep ==
  ASSUME ReadersInv, NEW j \in Jobs, LoadSourceAnchor(j)
  PROVE  ReadersInv'
<1> DEFINE a == job[j].ask
           src == ticket[<<a.tenant, a.id>>]
           r == [job[j] EXCEPT !.pc = "candidates", !.src = src]
<1>1. job[j].pc = "anchor" /\ UNCHANGED <<ticket, kb, summaries, answers>>
  BY DEF LoadSourceAnchor, At, caches
<1>2. (\E why : Fails(j, why)) \/ Go(j, r)
  BY DEF LoadSourceAnchor
<1>3. ASSUME NEW why, Fails(j, why) PROVE ReadersInv'
  <2> DEFINE o == IF job[j].ask.kind = "similar" THEN RunnerError(why) ELSE ErrorResponse(why)
  <2>1. o \notin {"summarized", "found"}
    BY DEF RunnerError, ErrorResponse
  <2>2. End(j, o)
    BY <1>3 DEF Fails
  <2> HIDE DEF o
  <2> QED BY <1>1, <2>1, <2>2, EndStep
<1>4. CASE Go(j, r)
  <2> HIDE DEF src
  <2>1. /\ DOMAIN r = JobFields /\ r.pc = "candidates" /\ r.ask = a /\ r.told = job[j].told /\ r.rec = job[j].rec
        /\ r.shown = job[j].shown /\ r.note = job[j].note /\ r.key = job[j].key
    BY Fields DEF JobFields
  <2> HIDE DEF r
  <2> QED BY <1>1, <1>4, <2>1, OnStep DEF SimilarPCs
<1> QED BY <1>2, <1>3, <1>4

(* The reader's role, as the statement uses it. *)
LEMMA RoleFacts ==
  ASSUME ReadersInv, NEW j \in Jobs, job[j].pc \in SimilarPCs
  PROVE  /\ job[j].ask.max \in Nat /\ RoleOf(j).max \in Nat
         /\ RoleOf(j).tenant = job[j].ask.tenant
         /\ \A s, x : GoodCands(s, RoleOf(j), x) => GoodCands(s, job[j].ask, x)
<1> DEFINE a == job[j].ask
           b == RoleOf(j)
<1>1. a \in Asks(j) /\ a.kind \in {"similar", "tool"}
  BY Fields DEF Stage, KindOK, SimilarPCs
<1>2. {"tenant", "role", "user", "max"} \subseteq DOMAIN a /\ a.max \in Nat
  BY <1>1, ReadersAssumption
<1>3. b.tenant = a.tenant /\ b.user = a.user /\ b.max = a.max /\ b.role = ToolRole(a.role)
  BY <1>2 DEF RoleOf
<1>4. a.role \in Restricted => b.role = a.role
  BY <1>3 DEF Restricted, ToolRole, NoVal
<1>5. \A d, x : CandOK(d, b, x) => CandOK(d, a, x)
  BY <1>3, <1>4 DEF CandOK
<1> QED BY <1>2, <1>3, <1>5 DEF GoodCands

LEMMA TicketsFinite == ReadersInv => IsFiniteSet(DOMAIN ticket) /\ IsFiniteSet(DOMAIN kb)
BY ReadersAssumption DEF ReadersInv, TablesOK

LEMMA CandidateRowsStep ==
  ASSUME ReadersInv, NEW j \in Jobs, CandidateRows(j)
  PROVE  ReadersInv'
<1> DEFINE a == job[j].ask
           found == Candidates(ticket, a.tenant, ResolveId(a.id, a.service), job[j].src, a.id, RoleOf(j))
           cands == RerankCandidates(found, job[j].src, a.min)
           r == [job[j] EXCEPT !.pc = "refine", !.cands = cands]
<1>1. job[j].pc = "candidates" /\ UNCHANGED <<ticket, kb, summaries, answers>> /\ Go(j, r)
  BY DEF CandidateRows, At, caches
<1>2. RoleOf(j).max \in Nat /\ RoleOf(j).tenant = a.tenant
  BY <1>1, RoleFacts DEF SimilarPCs
<1>3. GoodCands(found, RoleOf(j), a.id)
  BY <1>2, TicketsFinite, CandidatesFacts
<1>4. GoodCands(found, a, a.id)
  BY <1>1, <1>3, RoleFacts DEF SimilarPCs
<1>5. GoodCands(cands, a, a.id)
  BY <1>4, RerankFacts
<1> HIDE DEF cands
<1>6. /\ DOMAIN r = JobFields /\ r.pc = "refine" /\ r.ask = a /\ r.told = job[j].told /\ r.rec = job[j].rec
      /\ r.shown = job[j].shown /\ r.cands = cands /\ r.note = job[j].note /\ r.key = job[j].key
  BY Fields DEF JobFields
<1> HIDE DEF r
<1> QED BY <1>1, <1>5, <1>6, OnStep DEF SimilarPCs

LEMMA RefineCandidatesStep ==
  ASSUME ReadersInv, NEW j \in Jobs, RefineCandidates(j)
  PROVE  ReadersInv'
<1> DEFINE a == job[j].ask
           sure == ConfirmWithDiagnosis(job[j].cands, a.max, Trail)
           top == Firsts(ByComposite(sure), a.max)
           results == BuildResults(top, job[j].src)
           next == IF a.kind = "similar" THEN "keep" ELSE "end"
<1>1. job[j].pc = "refine" /\ UNCHANGED <<ticket, kb, summaries, answers>>
  BY DEF RefineCandidates, At, caches
<1>2. \E note : /\ note[1] = SourceSnapshot(job[j].key, job[j].src)
                /\ Go(j, [job[j] EXCEPT !.shown = results, !.outcome = "found", !.cands = <<>>, !.note = note, !.pc = next])
  BY DEF RefineCandidates
<1>3. PICK note : /\ note[1] = SourceSnapshot(job[j].key, job[j].src)
                  /\ Go(j, [job[j] EXCEPT !.shown = results, !.outcome = "found", !.cands = <<>>, !.note = note, !.pc = next])
  BY <1>2
<1> DEFINE r == [job[j] EXCEPT !.shown = results, !.outcome = "found", !.cands = <<>>, !.note = note, !.pc = next]
<1>4. GoodCands(job[j].cands, a, a.id)
  BY <1>1, Fields DEF Stage, SimilarOK
<1>5. a.max \in Nat
  BY <1>1, RoleFacts DEF SimilarPCs
<1>6. GoodCands(top, a, a.id)
  BY <1>4, <1>5, ConfirmFacts, TopFacts
<1>7. OwnResults(results, a) /\ Without(results, a.id)
  BY <1>6, ResultFacts
<1>8. next \in {"end", "keep"}
  OBVIOUS
<1> HIDE DEF results, next
<1>9. /\ DOMAIN r = JobFields /\ r.pc = next /\ r.ask = a /\ r.told = job[j].told /\ r.rec = job[j].rec
      /\ r.shown = results /\ r.note = note
  BY Fields DEF JobFields
<1>10. Go(j, r)
  BY <1>3
<1> HIDE DEF r
<1>11. Echo(r)
  <2>1. job[j].key = <<a.tenant, a.id>>
    BY <1>1, Fields DEF Stage, SimilarOK, SimilarPCs
  <2> QED BY <1>3, <1>9, <2>1 DEF Echo, SourceSnapshot
<1> QED BY <1>1, <1>7, <1>8, <1>9, <1>10, <1>11, ShowStep, CachesKept DEF SimilarPCs

LEMMA KeepAnswerStep ==
  ASSUME ReadersInv, NEW j \in Jobs, KeepAnswer(j)
  PROVE  ReadersInv'
<1> DEFINE a == job[j].ask
           f == CacheKey(a, ResolveId(a.id, a.service))
           v == [results |-> job[j].shown, note |-> job[j].note]
           r == [job[j] EXCEPT !.pc = "end"]
<1>1. /\ job[j].pc = "keep" /\ UNCHANGED <<ticket, kb, summaries>> /\ Go(j, r)
      /\ answers' \in {answers, Put(answers, f, v)}
  BY DEF KeepAnswer, At
<1>2. f[1] = a.tenant /\ f[2] = a.user /\ f[3] = a.role /\ f[4] = a.id
  BY DEF CacheKey
<1>3. v.results = job[j].shown /\ v.note = job[j].note
  OBVIOUS
<1>4. OwnResults(job[j].shown, a) /\ Without(job[j].shown, a.id) /\ Echo(job[j])
  BY <1>1, Fields DEF Stage, SimilarOK
<1> HIDE DEF f, v
<1>5. AnswersOK'
  <2>1. \A g \in DOMAIN answers : \A d \in ToSet(answers[g].results) :
          ResultOK(d, g[1], g[2], g[3]) /\ d.key[2] # g[4]
    BY DEF ReadersInv, AnswersOK
  <2>2. \A d \in ToSet(v.results) : ResultOK(d, f[1], f[2], f[3]) /\ d.key[2] # f[4]
    BY <1>2, <1>3, <1>4 DEF OwnResults, Without
  <2>3. CASE answers' = answers
    BY <2>1, <2>3 DEF AnswersOK
  <2>4. CASE answers' = Put(answers, f, v)
    <3>1. DOMAIN answers' = DOMAIN answers \cup {f}
      BY <2>4 DEF Put
    <3>2. \A g \in DOMAIN answers' : answers'[g] = IF g = f THEN v ELSE answers[g]
      BY <2>4 DEF Put
    <3> QED BY <2>1, <2>2, <3>1, <3>2 DEF AnswersOK
  <2> QED BY <1>1, <2>3, <2>4
<1>6. SummariesOK'
  BY <1>1 DEF ReadersInv, SummariesOK
<1>7. /\ DOMAIN r = JobFields /\ r.pc = "end" /\ r.ask = a /\ r.told = job[j].told /\ r.rec = job[j].rec
      /\ r.shown = job[j].shown /\ r.note = job[j].note
  BY Fields DEF JobFields
<1>8. EchoesOK'
  <2>1. EchoesOK /\ (v.note # <<>> => v.note[1].key = <<f[1], f[4]>>)
    BY <1>2, <1>3, <1>4 DEF ReadersInv, Echo
  <2>2. CASE answers' = Put(answers, f, v)
    BY <2>1, <2>2 DEF EchoesOK, Put
  <2> QED BY <1>1, <2>1, <2>2 DEF EchoesOK
<1> HIDE DEF r
<1>9. Echo(r)
  BY <1>4, <1>7 DEF Echo
<1> QED BY <1>1, <1>4, <1>5, <1>6, <1>7, <1>8, <1>9, ShowStep DEF SimilarPCs

(* The answer of one service searched in words. *)
LEMMA TextPart ==
  ASSUME ReadersInv, NEW j \in Jobs, job[j].pc \in SimilarPCs, NEW s, NEW reply
  PROVE  LET cands == Candidates(ticket, job[j].ask.tenant, s, <<>>, NoVal, RoleOf(j))
             top == Firsts(ByComposite(RerankCandidates(cands, <<>>, TextMinScore)), job[j].ask.max)
             part == BuildResults(FilterRelevantByText(top, reply), <<>>)
         IN IsList(part) /\ OwnResults(part, job[j].ask)
<1> DEFINE a == job[j].ask
           cands == Candidates(ticket, a.tenant, s, <<>>, NoVal, RoleOf(j))
           scored == RerankCandidates(cands, <<>>, TextMinScore)
           top == Firsts(ByComposite(scored), a.max)
           kept == FilterRelevantByText(top, reply)
<1>1. GoodCands(cands, RoleOf(j), NoVal)
  BY RoleFacts, TicketsFinite, CandidatesFacts
<1>2. GoodCands(cands, a, NoVal)
  BY <1>1, RoleFacts
<1> HIDE DEF cands
<1>3. GoodCands(scored, a, NoVal)
  BY <1>2, RerankFacts
<1> HIDE DEF scored
<1>4. GoodCands(top, a, NoVal)
  BY <1>3, RoleFacts, TopFacts
<1> HIDE DEF top
<1>5. GoodCands(kept, a, NoVal)
  BY <1>4, RelevantFacts
<1> HIDE DEF kept
<1>6. IsList(BuildResults(kept, <<>>)) /\ OwnResults(BuildResults(kept, <<>>), a)
  BY <1>5, ResultFacts
<1> QED BY <1>6 DEF kept, top, scored, cands

LEMMA FindSimilarByTextStep ==
  ASSUME ReadersInv, NEW j \in Jobs, FindSimilarByText(j)
  PROVE  ReadersInv'
<1>1. job[j].pc = "words" /\ UNCHANGED <<ticket, kb, summaries, answers>>
  BY DEF FindSimilarByText, At, caches
<1> DEFINE a == job[j].ask
           part(s, reply) ==
             LET cands == Candidates(ticket, a.tenant, s, <<>>, NoVal, RoleOf(j))
                 top == Firsts(ByComposite(RerankCandidates(cands, <<>>, TextMinScore)), a.max)
             IN BuildResults(FilterRelevantByText(top, reply), <<>>)
           services == ServicesForText(a.service)
           parts(reply) == IF Len(services) = 1 THEN part(services[1], reply)
                           ELSE part(services[1], reply) \o part(services[2], reply)
           merged(reply) == MergeTextResponses(parts(reply), a.max)
           o == BoundaryResponse(ResolveId(a.id, a.service))
           s == [job[j] EXCEPT !.pc = "anchor"]
<1>2. \E reply :
        \/ End(j, o)
        \/ Go(j, s)
        \/ Go(j, [job[j] EXCEPT !.pc = "end", !.outcome = "found", !.shown = merged(reply)])
  BY DEF FindSimilarByText
<1>3. PICK reply :
        \/ End(j, o)
        \/ Go(j, s)
        \/ Go(j, [job[j] EXCEPT !.pc = "end", !.outcome = "found", !.shown = merged(reply)])
  BY <1>2
<1>4. \A t : IsList(part(t, reply)) /\ OwnResults(part(t, reply), a)
  BY <1>1, TextPart DEF SimilarPCs
<1> HIDE DEF part
<1>5. IsList(parts(reply)) /\ OwnResults(parts(reply), a)
  <2> DEFINE p == part(services[1], reply)
             q == part(services[2], reply)
  <2>1. IsList(p) /\ IsList(q) /\ OwnResults(p, a) /\ OwnResults(q, a)
    BY <1>4
  <2> HIDE DEF p, q
  <2>2. IsList(p \o q) /\ OwnResults(p \o q, a)
    BY <2>1, JoinFacts DEF OwnResults
  <2>3. parts(reply) = p \/ parts(reply) = p \o q
    BY DEF p, q
  <2> QED BY <2>1, <2>2, <2>3
<1> HIDE DEF parts
<1>6. a.max \in Nat
  BY <1>1, RoleFacts DEF SimilarPCs
<1> DEFINE shown == merged(reply)
           r == [job[j] EXCEPT !.pc = "end", !.outcome = "found", !.shown = shown]
<1>7. OwnResults(shown, a)
  BY <1>5, <1>6, MergeFacts
<1>8. End(j, o) \/ Go(j, s) \/ Go(j, r)
  BY <1>3
<1> HIDE DEF merged, shown
<1>9. o \notin {"summarized", "found"}
  BY BoundaryOutcome
<1> HIDE DEF o
<1>10. CASE End(j, o)
  BY <1>1, <1>9, <1>10, EndStep
<1>11. CASE Go(j, s)
  <2>1. /\ DOMAIN s = JobFields /\ s.pc = "anchor" /\ s.ask = a /\ s.told = job[j].told /\ s.rec = job[j].rec
        /\ s.shown = job[j].shown /\ s.note = job[j].note /\ s.key = job[j].key
    BY Fields DEF JobFields
  <2> HIDE DEF s
  <2> QED BY <1>1, <1>11, <2>1, OnStep DEF SimilarPCs
<1>12. CASE Go(j, r)
  <2>1. /\ DOMAIN r = JobFields /\ r.pc = "end" /\ r.ask = a /\ r.told = job[j].told /\ r.rec = job[j].rec
        /\ r.shown = shown /\ r.note = job[j].note
    BY Fields DEF JobFields
  <2>2. a.text /\ job[j].note = <<>>
    BY <1>1, Fields DEF Stage, KindOK, SimilarOK, SimilarPCs
  <2> HIDE DEF r
  <2>3. Echo(r)
    BY <2>1, <2>2 DEF Echo
  <2> QED BY <1>1, <1>7, <1>12, <2>1, <2>2, <2>3, ShowStep, CachesKept DEF SimilarPCs
<1> QED BY <1>8, <1>10, <1>11, <1>12

-----------------------------------------------------------------------------
(* Knowledge lookup. *)

(* A lookup that ends with what it may show. *)
LEMMA FoundStep ==
  ASSUME ReadersInv, NEW j \in Jobs, NEW r, DOMAIN r = JobFields,
         job[j].pc \in KbPCs, r.pc = "end", r.ask = job[j].ask, r.told = job[j].told, r.rec = job[j].rec,
         \A h \in ToSet(r.shown) : HitOK(h, r.ask),
         r.outcome = "found" => r.text.cites \subseteq {h.id : h \in ToSet(r.shown)},
         Go(j, r), UNCHANGED <<ticket, kb, summaries, answers>>
  PROVE  ReadersInv'
<1>1. Stage(j, job[j])
  BY Fields
<1>2. KindOK(j, r) /\ r.ask.kind \in {"kb", "article", "byticket"}
  BY <1>1 DEF Stage, KindOK, ReadPCs, SimilarPCs, KbPCs
<1>3. ToldOK(r)
  BY <1>1 DEF Stage, ToldOK, SimilarPCs, KbPCs
<1>4. SimilarOK(r)
  BY <1>2 DEF SimilarOK, SimilarPCs
<1>5. KbOK(r)
  BY DEF KbOK, KbPCs
<1>6. Stage(j, r)
  BY <1>2, <1>3, <1>4, <1>5 DEF Stage, PCs
<1> QED BY <1>6, QuietStep

(* A lookup that goes on with the hits it may show. *)
LEMMA HitsStep ==
  ASSUME ReadersInv, NEW j \in Jobs, NEW r, DOMAIN r = JobFields,
         job[j].pc \in KbPCs, r.pc \in KbPCs, r.ask = job[j].ask, r.told = job[j].told, r.rec = job[j].rec,
         r.shown = job[j].shown, r.hits = job[j].hits \/ GoodHits(r.hits, r.ask),
         Go(j, r), UNCHANGED <<ticket, kb, summaries, answers>>
  PROVE  ReadersInv'
<1>1. GoodHits(job[j].hits, job[j].ask)
  BY Fields DEF Stage, KbOK
<1> QED BY <1>1, OnStep DEF KbPCs

LEMMA SearchKbStep ==
  ASSUME ReadersInv, NEW j \in Jobs, SearchKb(j)
  PROVE  ReadersInv'
<1> DEFINE query == KbSearchText(job[j].ask.words)
           r == [job[j] EXCEPT !.pc = "embed", !.query = query]
<1>1. job[j].pc = "kb" /\ UNCHANGED <<ticket, kb, summaries, answers>>
  BY DEF SearchKb, At, caches
<1>2. End(j, "invalid_request") \/ Go(j, r)
  BY DEF SearchKb
<1>3. CASE End(j, "invalid_request")
  BY <1>1, <1>3, EndStep
<1>4. CASE Go(j, r)
  <2> HIDE DEF query
  <2>1. /\ DOMAIN r = JobFields /\ r.pc = "embed" /\ r.ask = job[j].ask /\ r.told = job[j].told
        /\ r.rec = job[j].rec /\ r.shown = job[j].shown /\ r.hits = job[j].hits
    BY Fields DEF JobFields
  <2> HIDE DEF r
  <2> QED BY <1>1, <1>4, <2>1, HitsStep DEF KbPCs
<1> QED BY <1>2, <1>3, <1>4

LEMMA EmbedQueryStep ==
  ASSUME ReadersInv, NEW j \in Jobs, EmbedQuery(j)
  PROVE  ReadersInv'
<1>1. job[j].pc = "embed" /\ UNCHANGED <<ticket, kb, summaries, answers>>
  BY DEF EmbedQuery, At
<1>2. PICK ok : Go(j, [job[j] EXCEPT !.pc = "search", !.embedded = ok])
  BY DEF EmbedQuery
<1> DEFINE r == [job[j] EXCEPT !.pc = "search", !.embedded = ok]
<1>3. /\ DOMAIN r = JobFields /\ r.pc = "search" /\ r.ask = job[j].ask /\ r.told = job[j].told
      /\ r.rec = job[j].rec /\ r.shown = job[j].shown /\ r.hits = job[j].hits
  BY Fields DEF JobFields
<1>4. Go(j, r)
  BY <1>2
<1> HIDE DEF r
<1> QED BY <1>1, <1>3, <1>4, HitsStep DEF KbPCs

LEMMA KbTextSearchStep ==
  ASSUME ReadersInv, NEW j \in Jobs, KbTextSearch(j)
  PROVE  ReadersInv'
<1> DEFINE hits == KbSearch(kb, job[j].query, job[j].ask.tenant, Auds(j), PerSide)
           r == [job[j] EXCEPT !.pc = "semantic", !.hits = hits]
<1>1. job[j].pc = "search" /\ UNCHANGED <<ticket, kb, summaries, answers>> /\ Go(j, r)
  BY DEF KbTextSearch, At, caches
<1>2. GoodHits(hits, job[j].ask)
  BY TicketsFinite, SearchFacts DEF Auds, PerSide
<1> HIDE DEF hits
<1>3. /\ DOMAIN r = JobFields /\ r.pc = "semantic" /\ r.ask = job[j].ask /\ r.told = job[j].told
      /\ r.rec = job[j].rec /\ r.shown = job[j].shown /\ r.hits = hits
  BY Fields DEF JobFields
<1> HIDE DEF r
<1> QED BY <1>1, <1>2, <1>3, HitsStep DEF KbPCs

LEMMA KbSemanticSearchStep ==
  ASSUME ReadersInv, NEW j \in Jobs, KbSemanticSearch(j)
  PROVE  ReadersInv'
<1> DEFINE sem == IF job[j].embedded THEN KbSearchSemantic(kb, job[j].query, job[j].ask.tenant, Auds(j), PerSide) ELSE <<>>
           hits == RrfFuse(job[j].hits, sem, Cosines(job[j].query))
           r == [job[j] EXCEPT !.pc = "rerank", !.hits = hits]
<1>1. job[j].pc = "semantic" /\ UNCHANGED <<ticket, kb, summaries, answers>> /\ Go(j, r)
  BY DEF KbSemanticSearch, At, caches
<1>2. GoodHits(sem, job[j].ask)
  BY TicketsFinite, SearchFacts, EmptyHits DEF Auds, PerSide
<1>3. GoodHits(job[j].hits, job[j].ask)
  BY <1>1, Fields DEF Stage, KbOK, KbPCs
<1> HIDE DEF sem
<1>4. GoodHits(hits, job[j].ask)
  BY <1>2, <1>3, FuseFacts
<1> HIDE DEF hits
<1>5. /\ DOMAIN r = JobFields /\ r.pc = "rerank" /\ r.ask = job[j].ask /\ r.told = job[j].told
      /\ r.rec = job[j].rec /\ r.shown = job[j].shown /\ r.hits = hits
  BY Fields DEF JobFields
<1> HIDE DEF r
<1> QED BY <1>1, <1>4, <1>5, HitsStep DEF KbPCs

LEMMA RerankStep ==
  ASSUME ReadersInv, NEW j \in Jobs, Rerank(j)
  PROVE  ReadersInv'
<1> DEFINE Gate(verdict) ==
             RerankAndGate(job[j].hits, verdict, job[j].embedded,
                           FetchEmbeddingsByIds(kb, job[j].ask.tenant, {h.id : h \in ToSet(job[j].hits)}),
                           Cosines(job[j].query))
<1>1. job[j].pc = "rerank" /\ UNCHANGED <<ticket, kb, summaries, answers>>
  BY DEF Rerank, At
<1>2. \E verdict : \/ End(j, "no_match")
                   \/ Go(j, [job[j] EXCEPT !.pc = "compose", !.hits = Gate(verdict).hits,
                                           !.plain = Gate(verdict).plain])
  BY DEF Rerank
<1>3. PICK verdict : \/ End(j, "no_match")
                     \/ Go(j, [job[j] EXCEPT !.pc = "compose", !.hits = Gate(verdict).hits,
                                             !.plain = Gate(verdict).plain])
  BY <1>2
<1> DEFINE hits == Gate(verdict).hits
           plain == Gate(verdict).plain
           r == [job[j] EXCEPT !.pc = "compose", !.hits = hits, !.plain = plain]
<1>4. CASE End(j, "no_match")
  BY <1>1, <1>4, EndStep
<1>5. CASE Go(j, r)
  <2>1. GoodHits(job[j].hits, job[j].ask)
    BY <1>1, Fields DEF Stage, KbOK, KbPCs
  <2>2. GoodHits(hits, job[j].ask)
    BY <2>1, GateFacts
  <2> HIDE DEF hits, plain
  <2>3. /\ DOMAIN r = JobFields /\ r.pc = "compose" /\ r.ask = job[j].ask /\ r.told = job[j].told
        /\ r.rec = job[j].rec /\ r.shown = job[j].shown /\ r.hits = hits
    BY Fields DEF JobFields
  <2> HIDE DEF r
  <2> QED BY <1>1, <1>5, <2>2, <2>3, HitsStep DEF KbPCs
<1> QED BY <1>3, <1>4, <1>5

LEMMA ComposeAnswerStep ==
  ASSUME ReadersInv, NEW j \in Jobs, ComposeAnswer(j)
  PROVE  ReadersInv'
<1>1. job[j].pc = "compose" /\ UNCHANGED <<ticket, kb, summaries, answers>>
  BY DEF ComposeAnswer, At, caches
<1>2. PICK reply :
        LET answer == ComposeKbAnswer(job[j].hits, job[j].plain, reply)
        IN Go(j, [job[j] EXCEPT !.pc = "end", !.outcome = answer.outcome, !.shown = answer.shown, !.text = answer.text])
  BY DEF ComposeAnswer
<1> DEFINE answer == ComposeKbAnswer(job[j].hits, job[j].plain, reply)
           r == [job[j] EXCEPT !.pc = "end", !.outcome = answer.outcome, !.shown = answer.shown, !.text = answer.text]
<1>3. GoodHits(job[j].hits, job[j].ask)
  BY <1>1, Fields DEF Stage, KbOK, KbPCs
<1>4. /\ \A h \in ToSet(answer.shown) : HitOK(h, job[j].ask)
      /\ answer.outcome = "found" => answer.text.cites \subseteq {h.id : h \in ToSet(answer.shown)}
  BY <1>3, AnswerFacts
<1>5. Go(j, r)
  BY <1>2
<1> HIDE DEF answer
<1>6. /\ DOMAIN r = JobFields /\ r.pc = "end" /\ r.ask = job[j].ask /\ r.told = job[j].told
      /\ r.rec = job[j].rec /\ r.shown = answer.shown /\ r.outcome = answer.outcome /\ r.text = answer.text
  BY Fields DEF JobFields
<1> HIDE DEF r
<1> QED BY <1>1, <1>4, <1>5, <1>6, FoundStep DEF KbPCs

LEMMA ProbeArticleStep ==
  ASSUME ReadersInv, NEW j \in Jobs, ProbeArticle(j)
  PROVE  ReadersInv'
<1> DEFINE r == [job[j] EXCEPT !.pc = "get"]
<1>1. job[j].pc = "article" /\ UNCHANGED <<ticket, kb, summaries, answers>>
  BY DEF ProbeArticle, At, caches
<1>2. (\E o \in {"not_found", "denied"} : End(j, o)) \/ Go(j, r)
  BY DEF ProbeArticle, CheckKbAccess
<1>3. CASE \E o \in {"not_found", "denied"} : End(j, o)
  BY <1>1, <1>3, EndStep
<1>4. CASE Go(j, r)
  <2>1. /\ DOMAIN r = JobFields /\ r.pc = "get" /\ r.ask = job[j].ask /\ r.told = job[j].told
        /\ r.rec = job[j].rec /\ r.shown = job[j].shown /\ r.hits = job[j].hits
    BY Fields DEF JobFields
  <2> HIDE DEF r
  <2> QED BY <1>1, <1>4, <2>1, HitsStep DEF KbPCs
<1> QED BY <1>2, <1>3, <1>4

LEMMA GetArticleStep ==
  ASSUME ReadersInv, NEW j \in Jobs, GetArticle(j)
  PROVE  ReadersInv'
<1> DEFINE found == Plain(KbGet(kb, job[j].ask.tenant, job[j].ask.id, Auds(j)))
<1>1. job[j].pc = "get" /\ UNCHANGED <<ticket, kb, summaries, answers>>
  BY DEF GetArticle, At, caches
<1>2. \/ End(j, "not_found")
      \/ found # <<>> /\ \E reply :
           Go(j, [job[j] EXCEPT !.pc = "end", !.outcome = "found", !.shown = found, !.text = ArticleText(found, reply)])
  BY DEF GetArticle
<1>3. GoodHits(found, job[j].ask)
  BY GetFacts, PlainFacts DEF Auds
<1> HIDE DEF found
<1>4. CASE End(j, "not_found")
  BY <1>1, <1>4, EndStep
<1>5. ASSUME found # <<>>, NEW reply,
             Go(j, [job[j] EXCEPT !.pc = "end", !.outcome = "found", !.shown = found, !.text = ArticleText(found, reply)])
      PROVE  ReadersInv'
  <2> DEFINE text == ArticleText(found, reply)
             r == [job[j] EXCEPT !.pc = "end", !.outcome = "found", !.shown = found, !.text = text]
  <2>1. text.cites \subseteq {h.id : h \in ToSet(found)}
    BY <1>3, <1>5, TextFacts DEF GoodHits
  <2>2. Go(j, r)
    BY <1>5
  <2> HIDE DEF text
  <2>3. /\ DOMAIN r = JobFields /\ r.pc = "end" /\ r.ask = job[j].ask /\ r.told = job[j].told
        /\ r.rec = job[j].rec /\ r.shown = found /\ r.text = text
    BY Fields DEF JobFields
  <2> HIDE DEF r
  <2> QED BY <1>1, <1>3, <2>1, <2>2, <2>3, FoundStep DEF KbPCs, GoodHits
<1> QED BY <1>2, <1>4, <1>5

LEMMA LinkedArticlesStep ==
  ASSUME ReadersInv, NEW j \in Jobs, LinkedArticles(j)
  PROVE  ReadersInv'
<1> DEFINE found == LinkedTo(kb, job[j].ask.id, job[j].ask.tenant, Auds(j), 5)
           hits == Plain(found)
           next == IF hits = <<>> THEN "symptoms" ELSE "score"
           r == [job[j] EXCEPT !.pc = next, !.hits = hits]
<1>1. job[j].pc = "byticket" /\ UNCHANGED <<ticket, kb, summaries, answers>> /\ Go(j, r)
  BY DEF LinkedArticles, At, caches
<1>2. GoodHits(found, job[j].ask)
  BY TicketsFinite, SearchFacts DEF Auds
<1>3. GoodHits(hits, job[j].ask)
  BY <1>2, PlainFacts
<1>4. next \in {"symptoms", "score"}
  OBVIOUS
<1> HIDE DEF hits, next
<1>5. /\ DOMAIN r = JobFields /\ r.pc = next /\ r.ask = job[j].ask /\ r.told = job[j].told
      /\ r.rec = job[j].rec /\ r.shown = job[j].shown /\ r.hits = hits
  BY Fields DEF JobFields
<1> HIDE DEF r
<1> QED BY <1>1, <1>3, <1>4, <1>5, HitsStep DEF KbPCs

LEMMA SymptomFallbackStep ==
  ASSUME ReadersInv, NEW j \in Jobs, SymptomFallback(j)
  PROVE  ReadersInv'
<1>1. job[j].pc = "symptoms" /\ UNCHANGED <<ticket, kb, summaries, answers>>
  BY DEF SymptomFallback, At, caches
<1>2. \E query : Go(j, [job[j] EXCEPT !.pc = "embed", !.query = query])
  BY DEF SymptomFallback
<1>3. PICK query : Go(j, [job[j] EXCEPT !.pc = "embed", !.query = query])
  BY <1>2
<1> DEFINE r == [job[j] EXCEPT !.pc = "embed", !.query = query]
<1>4. /\ DOMAIN r = JobFields /\ r.pc = "embed" /\ r.ask = job[j].ask /\ r.told = job[j].told
      /\ r.rec = job[j].rec /\ r.shown = job[j].shown /\ r.hits = job[j].hits
  BY Fields DEF JobFields
<1>5. Go(j, r)
  BY <1>3
<1> HIDE DEF r
<1> QED BY <1>1, <1>4, <1>5, HitsStep DEF KbPCs

LEMMA ScoreLinkedStep ==
  ASSUME ReadersInv, NEW j \in Jobs, ScoreLinked(j)
  PROVE  ReadersInv'
<1> DEFINE a == job[j].ask
           words == TicketSymptomText(TicketGet(ticket, a.tenant, ServiceOfId[a.id], a.id))
<1>1. job[j].pc = "score" /\ UNCHANGED <<ticket, kb, summaries, answers>>
  BY DEF ScoreLinked, At, caches
<1>2. PICK scorer :
        \/ End(j, "no_match")
        \/ Go(j, [job[j] EXCEPT !.pc = "compose", !.hits = ScoreLinkedHits(job[j].hits, a.wired, Cosines(words), scorer)])
  BY DEF ScoreLinked
<1> HIDE DEF words
<1> DEFINE kept == ScoreLinkedHits(job[j].hits, a.wired, Cosines(words), scorer)
           r == [job[j] EXCEPT !.pc = "compose", !.hits = kept]
<1>3. End(j, "no_match") \/ Go(j, r)
  BY <1>2
<1>4. CASE End(j, "no_match")
  BY <1>1, <1>4, EndStep
<1>5. CASE Go(j, r)
  <2>1. GoodHits(job[j].hits, a)
    BY <1>1, Fields DEF Stage, KbOK, KbPCs
  <2>2. GoodHits(kept, a)
    BY <2>1, LinkedHits
  <2> HIDE DEF kept
  <2>3. /\ DOMAIN r = JobFields /\ r.pc = "compose" /\ r.ask = a /\ r.told = job[j].told
        /\ r.rec = job[j].rec /\ r.shown = job[j].shown /\ r.hits = kept
    BY Fields DEF JobFields
  <2> HIDE DEF r
  <2> QED BY <1>1, <1>5, <2>2, <2>3, HitsStep DEF KbPCs
<1> QED BY <1>3, <1>4, <1>5

-----------------------------------------------------------------------------
(* What others do, and the theorems. *)

LEMMA StoreFailsStep ==
  ASSUME ReadersInv, NEW j \in Jobs, StoreFails(j)
  PROVE  ReadersInv'
BY EndStep DEF StoreFails, caches

LEMMA EditTicketStep ==
  ASSUME ReadersInv, EditTicket
  PROVE  ReadersInv'
<1>1. PICK e \in TicketEdits : \/ ticket' = [ticket EXCEPT ![e[1]].vals[e[2]] = e[3]]
                              \/ ticket' = [ticket EXCEPT ![e[1]].by = e[3]]
  BY DEF EditTicket
<1>2. UNCHANGED <<kb, summaries, answers, job>>
  BY DEF EditTicket, caches
<1>3. TablesOK'
  <2>1. TablesOK
    BY DEF ReadersInv
  <2> DEFINE v == [ticket[e[1]].vals EXCEPT ![e[2]] = e[3]]
             w == [ticket[e[1]] EXCEPT !.vals = v]
             u == [ticket[e[1]] EXCEPT !.by = e[3]]
  <2>2. ticket' \in {[ticket EXCEPT ![e[1]] = w], [ticket EXCEPT ![e[1]] = u]}
    BY <1>1
  <2>3. DOMAIN v = DOMAIN ticket[e[1]].vals /\ DOMAIN w = DOMAIN ticket[e[1]] /\ DOMAIN u = DOMAIN ticket[e[1]]
    OBVIOUS
  <2>4. "vals" \in DOMAIN ticket[e[1]] => w.vals = v /\ u.vals = ticket[e[1]].vals
    OBVIOUS
  <2> HIDE DEF v, w, u
  <2>5. CASE ticket' = [ticket EXCEPT ![e[1]] = w]
    BY <1>2, <2>1, <2>3, <2>4, <2>5 DEF TablesOK
  <2>6. CASE ticket' = [ticket EXCEPT ![e[1]] = u]
    BY <1>2, <2>1, <2>3, <2>4, <2>6 DEF TablesOK
  <2> QED BY <2>2, <2>5, <2>6
<1>4. SummariesOK' /\ AnswersOK' /\ EchoesOK'
  BY <1>2, CachesKept
<1> QED BY <1>2, <1>3, <1>4 DEF ReadersInv

LEMMA EditArticleStep ==
  ASSUME ReadersInv, EditArticle
  PROVE  ReadersInv'
<1>1. PICK e \in KbEdits : kb' = [kb EXCEPT ![e[1]].state = e[2], ![e[1]].audience = e[3]]
  BY DEF EditArticle
<1>2. UNCHANGED <<ticket, summaries, answers, job>>
  BY DEF EditArticle, caches
<1>3. DOMAIN kb' = DOMAIN kb
  BY <1>1
<1>4. TablesOK'
  BY <1>2, <1>3 DEF ReadersInv, TablesOK
<1>5. SummariesOK' /\ AnswersOK' /\ EchoesOK'
  BY <1>2, CachesKept
<1> QED BY <1>2, <1>4, <1>5 DEF ReadersInv

LEMMA ReadersInit == Init => ReadersInv
<1> SUFFICES ASSUME Init PROVE ReadersInv
  OBVIOUS
<1>1. DOMAIN job = Jobs /\ \A j \in Jobs : job[j] = Start
  BY DEF Init
<1>2. \A j \in Jobs : Stage(j, Start)
  <2>1. /\ DOMAIN Start = JobFields /\ Start.pc = "idle" /\ Start.told = {} /\ Start.shown = <<>>
        /\ Start.rec = Missing
    BY DEF Start, JobFields
  <2>2. ToldOK(Start) /\ SimilarOK(Start) /\ KbOK(Start)
    BY <2>1 DEF ToldOK, SimilarOK, KbOK, KbPCs, SimilarPCs
  <2>3. \A j \in Jobs : KindOK(j, Start)
    BY <2>1 DEF KindOK, ReadPCs, SimilarPCs, KbPCs
  <2> QED BY <2>1, <2>2, <2>3 DEF Stage, PCs
<1>3. TablesOK
  BY ReadersAssumption DEF Init, TablesOK
<1>4. SummariesOK /\ AnswersOK /\ EchoesOK
  BY DEF Init, SummariesOK, AnswersOK, EchoesOK
<1> QED BY <1>1, <1>2, <1>3, <1>4 DEF ReadersInv

(* Every step keeps the invariant. *)
LEMMA ReadersStep ==
  ASSUME ReadersInv, [Next]_vars
  PROVE  ReadersInv'
<1>1. ASSUME NEW j \in Jobs,
             \/ Begin(j) \/ FetchRecord(j) \/ ListRecent(j) \/ SummarizeEntity(j) \/ FieldIntent(j) \/ ReadLinked(j)
             \/ LinkedIntent(j) \/ SummaryCacheGet(j) \/ SummaryModel(j) \/ SummaryCachePut(j)
             \/ GetCachedSummary(j) \/ PutCachedSummary(j)
      PROVE  ReadersInv'
  BY <1>1, BeginStep, FetchRecordStep, ListRecentStep, SummarizeEntityStep, FieldIntentStep, ReadLinkedStep,
     LinkedIntentStep, SummaryCacheGetStep, SummaryModelStep, SummaryCachePutStep, GetCachedSummaryStep,
     PutCachedSummaryStep
<1>2. ASSUME NEW j \in Jobs,
             \/ SimilarTicketsRoute(j) \/ FindSimilarEntities(j) \/ LoadSourceAnchor(j) \/ CandidateRows(j)
             \/ RefineCandidates(j) \/ KeepAnswer(j) \/ FindSimilarByText(j)
      PROVE  ReadersInv'
  BY <1>2, SimilarTicketsRouteStep, FindSimilarEntitiesStep, LoadSourceAnchorStep, CandidateRowsStep,
     RefineCandidatesStep, KeepAnswerStep, FindSimilarByTextStep
<1>3. ASSUME NEW j \in Jobs,
             \/ SearchKb(j) \/ EmbedQuery(j) \/ KbTextSearch(j) \/ KbSemanticSearch(j) \/ Rerank(j) \/ ComposeAnswer(j)
             \/ ProbeArticle(j) \/ GetArticle(j) \/ LinkedArticles(j) \/ SymptomFallback(j) \/ ScoreLinked(j)
             \/ StoreFails(j)
      PROVE  ReadersInv'
  BY <1>3, SearchKbStep, EmbedQueryStep, KbTextSearchStep, KbSemanticSearchStep, RerankStep, ComposeAnswerStep,
     ProbeArticleStep, GetArticleStep, LinkedArticlesStep, SymptomFallbackStep, ScoreLinkedStep, StoreFailsStep
<1>4. CASE EditTicket \/ EditArticle
  BY <1>4, EditTicketStep, EditArticleStep
<1>5. CASE Done \/ UNCHANGED vars
  BY <1>5 DEF Done, vars, ReadersInv, TablesOK, SummariesOK, AnswersOK, EchoesOK
<1> QED BY <1>1, <1>2, <1>3, <1>4, <1>5 DEF Next

LEMMA ReadersInvariant == Spec => []ReadersInv
<1>1. Init => ReadersInv
  BY ReadersInit
<1>2. ReadersInv /\ [Next]_vars => ReadersInv'
  BY ReadersStep
<1> QED BY <1>1, <1>2, PTL DEF Spec

(* Every answer made from a record tells only what the reader's role may   *)
(* see of the record as this very request read it, and a summary tells all *)
(* of it: summarize_entity, its cache and the linked record, whatever is   *)
(* cached and edited meanwhile.                                            *)
THEOREM ToldAsReadTheorem == Spec => []ToldAsRead
<1>1. ReadersInv => ToldAsRead
  <2> SUFFICES ASSUME ReadersInv, NEW j \in Jobs, At(j, "end"), job[j].rec # Missing
               PROVE  LET all == Facts(job[j].key, MyView(j), DOMAIN MyView(j))
                      IN job[j].told \subseteq all /\ (job[j].outcome = "summarized" => job[j].told = all)
    BY DEF ToldAsRead
  <2>1. ToldOK(job[j])
    BY Fields DEF Stage
  <2> QED BY <2>1 DEF ToldOK, At, AllFacts, ViewOf, MyView
<1> QED BY <1>1, ReadersInvariant, PTL

(* A restricted role is shown as similar only tickets of its own tenant    *)
(* that were its own when read, and nobody the ticket asked about; what is *)
(* echoed of a source is of the ticket asked about.  The candidate         *)
(* statement's _default_rbac and the result cache's _cache_key hold it for *)
(* every stage between them.                                               *)
THEOREM OwnTicketsOnlyTheorem == Spec => []OwnTicketsOnly
<1>1. ReadersInv => OwnTicketsOnly
  <2> SUFFICES ASSUME ReadersInv, NEW j \in Jobs, At(j, "end"), job[j].ask.kind \in {"similar", "tool"}
               PROVE  /\ job[j].note # <<>> => job[j].note[1].key = <<job[j].ask.tenant, job[j].ask.id>>
                      /\ \A i \in DOMAIN job[j].shown :
                           LET r == job[j].shown[i]
                           IN /\ r.key[1] = job[j].ask.tenant
                              /\ job[j].ask.role \in Restricted => r.by = job[j].ask.user
                              /\ ~job[j].ask.text => r.key[2] # job[j].ask.id
    BY DEF OwnTicketsOnly
  <2>1. SimilarOK(job[j])
    BY Fields DEF Stage
  <2>2. \A i \in DOMAIN job[j].shown : job[j].shown[i] \in ToSet(job[j].shown)
    BY DEF ToSet
  <2>3. Echo(job[j])
    BY <2>1 DEF SimilarOK, At
  <2> QED BY <2>1, <2>2, <2>3 DEF SimilarOK, At, OwnResults, Without, ResultOK, Echo
<1> QED BY <1>1, ReadersInvariant, PTL

(* Every article shown was, when read, published, in the reader's tenant   *)
(* and for its audience, and the answer names no other one: the WHERE      *)
(* clauses of both searches, and the composer's check of its own text.     *)
THEOREM ReadableArticlesTheorem == Spec => []ReadableArticles
<1>1. ReadersInv => ReadableArticles
  <2> SUFFICES ASSUME ReadersInv, NEW j \in Jobs, At(j, "end"), job[j].ask.kind \in {"kb", "article", "byticket"}
               PROVE  /\ \A i \in DOMAIN job[j].shown :
                           LET h == job[j].shown[i]
                           IN h.state = "published" /\ h.tenant = job[j].ask.tenant /\ h.audience \in Auds(j)
                      /\ job[j].outcome = "found" =>
                           job[j].text.cites \subseteq {job[j].shown[i].id : i \in DOMAIN job[j].shown}
    BY DEF ReadableArticles
  <2>1. KbOK(job[j])
    BY Fields DEF Stage
  <2> DEFINE S == ToSet(job[j].shown)
  <2>2. \A h \in S : HitOK(h, job[j].ask)
    BY <2>1 DEF KbOK, At
  <2>3. S = {job[j].shown[i] : i \in DOMAIN job[j].shown}
    BY DEF ToSet
  <2>4. \A i \in DOMAIN job[j].shown : HitOK(job[j].shown[i], job[j].ask)
    BY <2>2, <2>3
  <2>5. {h.id : h \in S} \subseteq {job[j].shown[i].id : i \in DOMAIN job[j].shown}
    BY <2>3
  <2>6. job[j].outcome = "found" => job[j].text.cites \subseteq {h.id : h \in S}
    BY <2>1 DEF KbOK, At
  <2> QED BY <2>4, <2>5, <2>6 DEF HitOK, Auds
<1> QED BY <1>1, ReadersInvariant, PTL
=============================================================================
