---------------------------- MODULE RankedLists ----------------------------
(***************************************************************************)
(* Lists as the searches and the router build them: cut, filtered and      *)
(* sorted.                                                                 *)
(***************************************************************************)
EXTENDS Integers, Sequences, FiniteSets

(* The part of s at some of its positions, and its first n elements. *)
AtPositions(s, kept) ==
  LET nth(k) == CHOOSE i \in kept : Cardinality({j \in kept : j <= i}) = k
  IN [k \in 1..Cardinality(kept) |-> s[nth(k)]]
Firsts(s, n) == SubSeq(s, 1, IF Len(s) > n THEN n ELSE Len(s))

(* The elements of a finite set in a strict total order. *)
InOrder(S, before(_, _)) ==
  [k \in 1..Cardinality(S) |-> CHOOSE x \in S : Cardinality({y \in S : before(y, x)}) = k - 1]

(* A stable sort of s, highest score first; score maps positions.  Fewer   *)
(* elements have a higher score than one that comes before another, or as  *)
(* many and it stood before it.                                            *)
ByScore(s, score) ==
  LET above == [i \in DOMAIN s |-> Cardinality({j \in DOMAIN s : score[j] > score[i]})]
      before(i, j) == above[i] < above[j] \/ (above[i] = above[j] /\ i < j)
      place == [i \in DOMAIN s |-> 1 + Cardinality({j \in DOMAIN s : before(j, i)})]
  IN [k \in DOMAIN s |-> s[CHOOSE i \in DOMAIN s : place[i] = k]]
=============================================================================
