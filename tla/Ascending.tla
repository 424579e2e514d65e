----------------------------- MODULE Ascending -----------------------------
(***************************************************************************)
(* A set of numbers in rising order: the keys a merge of tables brings,    *)
(* the logs a flush gives up.                                              *)
(***************************************************************************)
EXTENDS Integers, FiniteSets

\* Every element of S once, each greater than the one before.
Ascending(S) ==
  CHOOSE q \in [1..Cardinality(S) -> S] :
    /\ {q[i] : i \in DOMAIN q} = S
    /\ \A i, j \in DOMAIN q : i < j => q[i] < q[j]
=============================================================================
