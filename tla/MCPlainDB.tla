----------------------------- MODULE MCPlainDB -----------------------------
(* PlainDB for TLC. *)
EXTENDS PlainDB, TLC

\* Clients are interchangeable.
PlainSymmetry == Permutations(Clients)
=============================================================================
