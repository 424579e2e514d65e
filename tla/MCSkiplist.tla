----------------------------- MODULE MCSkiplist -----------------------------
(* Skiplist for TLC. *)
EXTENDS Skiplist, TLC

\* Writers differ only in name.
WriterSymmetry == Permutations(Writers)
=============================================================================
