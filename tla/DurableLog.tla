---------------------------- MODULE DurableLog ----------------------------
(***************************************************************************)
(* What a log writer (internal/record/log_writer.go) promises: cells are   *)
(* appended in one order, a prefix of them is in the file, a prefix of     *)
(* that is on disk, and only records all of whose cells are on disk are    *)
(* acknowledged.  Nothing is said about blocks, queues or goroutines.      *)
(***************************************************************************)
EXTENDS Integers, Sequences

VARIABLES log,      \* the cells appended; a cell names its record
          file,     \* what the file has of them
          durable,  \* how many of them are on disk
          acked     \* the records acknowledged

vars == <<log, file, durable, acked>>

Init == log = <<>> /\ file = <<>> /\ durable = 0 /\ acked = {}

Write == /\ Len(log') > Len(log) /\ SubSeq(log', 1, Len(log)) = log
         /\ UNCHANGED <<file, durable, acked>>

Flush == /\ \E n \in (Len(file) + 1)..Len(log) : file' = SubSeq(log, 1, n)
         /\ UNCHANGED <<log, durable, acked>>

Sync == durable' = Len(file) /\ UNCHANGED <<log, file, acked>>

OnDisk(r) == \A i \in DOMAIN log : log[i] = r => i <= durable

Ack == /\ acked \subseteq acked' /\ \A r \in acked' \ acked : OnDisk(r)
       /\ UNCHANGED <<log, file, durable>>

Next == Write \/ Flush \/ Sync \/ Ack

Spec == Init /\ [][Next]_vars
=============================================================================
