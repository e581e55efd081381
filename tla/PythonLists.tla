---------------------------- MODULE PythonLists ----------------------------
(***************************************************************************)
(* What the algorithms do to lists.  Nothing here is recursive, and the    *)
(* orders are sets rather than operators, so that all of it can be proved  *)
(* about (AgentToolsProofs).                                               *)
(***************************************************************************)
EXTENDS SequencesExt

\* The elements of a finite set one after the other, where before[k] are those that
\* come before k.
Arranged(before) ==
  LET place == [k \in DOMAIN before |-> Cardinality(before[k]) + 1]
  IN [n \in 1..Cardinality(DOMAIN before) |-> CHOOSE k \in DOMAIN before : place[k] = n]

\* sorted(s) and s.sort(): elements of which none is less keep their order.
Sorted(s, Less(_, _)) ==
  LET order == Arranged([i \in DOMAIN s |->
                 {j \in DOMAIN s : Less(s[j], s[i]) \/ (~Less(s[i], s[j]) /\ j < i)}])
  IN [n \in DOMAIN order |-> s[order[n]]]

\* The elements at the positions K.
Picked(s, K) ==
  LET order == Arranged([i \in K |-> {j \in K : j < i}])
  IN [n \in DOMAIN order |-> s[order[n]]]

\* [x for x in s if Test(x)]
Kept(s, Test(_)) == Picked(s, {i \in DOMAIN s : Test(s[i])})

\* A loop that keeps the elements whose key it has not seen yet.
FirstOfEach(s, Key(_)) ==
  Picked(s, {i \in DOMAIN s : \A j \in 1..i - 1 : Key(s[j]) # Key(s[i])})

\* s[:n]
FirstOf(s, n) == SubSeq(s, 1, IF n < Len(s) THEN n ELSE Len(s))
=============================================================================
