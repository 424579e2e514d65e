------------------------------- MODULE MCBdb -------------------------------
\* Small instances of Bdb for TLC.
EXTENDS Bdb
Symmetry == Permutations(Readers)
\* Nothing follows a rollback that leaves pending pages among the free ones.
BeforeOverlap == ~overlap
=============================================================================
