---------------------------- MODULE CommitOrder ----------------------------
(***************************************************************************)
(* What the commit pipeline (commit.go) promises to the readers of the     *)
(* plain DB: sequence numbers are handed out once, each is applied to a    *)
(* memtable at most once, and the visible sequence number moves forward    *)
(* only over numbers that have all been applied.  Nothing is said about    *)
(* queues, goroutines or who publishes what.                               *)
(***************************************************************************)
EXTENDS Integers

CONSTANT Counts                     \* numbers of operations a batch may hold

VARIABLES logSeqNum, visibleSeqNum, memSeqs

vars == <<logSeqNum, visibleSeqNum, memSeqs>>

Init == logSeqNum = 1 /\ visibleSeqNum = 1 /\ memSeqs = {}

Reserve ==
  /\ \E n \in Counts : logSeqNum' = logSeqNum + n
  /\ UNCHANGED <<visibleSeqNum, memSeqs>>

Insert ==
  /\ \E s \in 1..(logSeqNum - 1), n \in Counts :
       /\ s + n <= logSeqNum
       /\ s..(s + n - 1) \cap memSeqs = {}
       /\ memSeqs' = memSeqs \cup (s..(s + n - 1))
  /\ UNCHANGED <<logSeqNum, visibleSeqNum>>

Reveal ==
  /\ visibleSeqNum' \in (visibleSeqNum + 1)..logSeqNum
  /\ 1..(visibleSeqNum' - 1) \subseteq memSeqs
  /\ UNCHANGED <<logSeqNum, memSeqs>>

Next == Reserve \/ Insert \/ Reveal

Spec == Init /\ [][Next]_vars
=============================================================================
