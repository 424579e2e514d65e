---------------------------- MODULE MCIterators ----------------------------
(* Iterators for TLC. *)
EXTENDS Iterators

\* Bounds on and between the keys 1 to 3, on either side and on both.
MCBounds == {<<0, 0>>, <<2, 0>>, <<0, 3>>, <<2, 3>>}
=============================================================================
