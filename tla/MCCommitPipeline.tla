------------------------- MODULE MCCommitPipeline -------------------------
(***************************************************************************)
(* Model-checking instances of CommitPipeline.                             *)
(***************************************************************************)
EXTENDS CommitPipeline, TLC

\* Writers differ only in name (no CHOOSE ranges over them), so safety runs may
\* identify permuted states.
WriterSymmetry == Permutations(Writers)
=============================================================================
