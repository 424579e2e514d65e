------------------------------ MODULE MCSeqDB ------------------------------
(* SeqDB for TLC. *)
EXTENDS SeqDB, TLC
=============================================================================
