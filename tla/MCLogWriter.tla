---------------------------- MODULE MCLogWriter ----------------------------
(* LogWriter for TLC. *)
EXTENDS LogWriter, TLC
=============================================================================
