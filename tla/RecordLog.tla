----------------------------- MODULE RecordLog -----------------------------
(***************************************************************************)
(* The log's format (internal/record): how the writers cut records into    *)
(* chunks that never cross a block, and what a Reader makes of a file      *)
(* after a crash, when the file is preallocated or recycled from an older  *)
(* log.                                                                    *)
(*                                                                         *)
(* A file is a sequence of cells.  A chunk is its checksum's cell, the     *)
(* cell of its type and length, in the recyclable format the cell of its   *)
(* log number, and its payload.  A cell carries the identity of the chunk  *)
(* it was written for: a checksum matches when all the cells it covers are *)
(* its chunk's.                                                            *)
(***************************************************************************)
EXTENDS Integers, Sequences, SequencesExt, FiniteSetsExt

CONSTANTS BlockSize,        \* cells in a block
          Sizes,            \* payload sizes of records
          Preallocated,     \* cells of zeroes in a new file
          MaxRecords,       \* bound: records of one log
          MaxLogs           \* bound: logs written into one file

LegacyHeader == 2
RecyclableHeader == 3

ASSUME RecordAssumption ==
  /\ BlockSize \in Nat /\ BlockSize > RecyclableHeader /\ Preallocated \in Nat
  /\ Sizes \subseteq Nat

VARIABLES
  legacy,     \* written by a Writer, not by a LogWriter?
  log,        \* the log's number
  base,       \* what the file held before this log
  cells,      \* what this log has written, from the file's start
  synced,     \* how many of those cells are on disk
  ends,       \* for each record of this log, where it ends
  chunk,      \* the last chunk's identity
  closed

vars == <<legacy, log, base, cells, synced, ends, chunk, closed>>

-----------------------------------------------------------------------------
(***************************************************************************)
(* Cells and chunks.                                                       *)
(***************************************************************************)
Zero == [kind |-> "zero", chunk |-> 0, type |-> "none", val |-> 0]
Zeroes(n) == [i \in 1..n |-> Zero]
SumCell(c) == [kind |-> "sum", chunk |-> c, type |-> "none", val |-> 0]
TypeCell(l, c, t, n) ==
  [kind |-> IF l THEN "legacy" ELSE "recyclable", chunk |-> c, type |-> t, val |-> n]
LogCell(c, l) == [kind |-> "log", chunk |-> c, type |-> "none", val |-> l]
Payload(c, id, n) == [i \in 1..n |-> [kind |-> "data", chunk |-> c, type |-> "none", val |-> id]]

FirstTypes == {"full", "first"}
LastTypes == {"full", "last"}

\* The type of a fragment.
ChunkType(first, last) ==
  IF last THEN IF first THEN "full" ELSE "last" ELSE IF first THEN "first" ELSE "middle"

\* The room left in the block that holds the next cell.
Room(s) == BlockSize - (Len(s) % BlockSize)

HeaderSize(l) == IF l THEN LegacyHeader ELSE RecyclableHeader

\* The rest of a block that has no room for a header is filled with zeroes.
Pad(s, l) == IF Room(s) < HeaderSize(l) THEN s \o Zeroes(Room(s)) ELSE s

\* One chunk with as much of the n payload cells as fits after s, of log g (in the
\* legacy format chunks have no log number).
Chunk(s, l, g, c, id, n, first) ==
  LET room == Room(s) - HeaderSize(l)
      r == Min({n, room}) IN
  s \o <<SumCell(c), TypeCell(l, c, ChunkType(first, room >= n), r)>>
    \o (IF l THEN <<>> ELSE <<LogCell(c, g)>>)
    \o Payload(c, id, r)

(***************************************************************************)
(* A record of n cells after s.  The LogWriter pads after a chunk, the     *)
(* Writer before the next one.                                             *)
(***************************************************************************)
RECURSIVE Fragments(_, _, _, _, _, _, _)
Fragments(s, l, g, c, id, n, first) ==
  LET start == IF l THEN Pad(s, l) ELSE s
      r == Min({n, Room(start) - HeaderSize(l)})
      t == Chunk(start, l, g, c, id, n, first)
      next == IF l THEN t ELSE Pad(t, l) IN
  IF r = n THEN next ELSE Fragments(next, l, g, c + 1, id, n - r, FALSE)

\* emitEOFTrailer: a header of the next log with a checksum that never matches.
Trailer(s, g, c) == s \o <<Zero, TypeCell(FALSE, c, "full", 0), LogCell(c, g + 1)>>

-----------------------------------------------------------------------------
(***************************************************************************)
(* The Reader.  Its position: block number blk (from 0, -1 before the      *)
(* first) and, in that block's cells, the end of the last chunk.           *)
(***************************************************************************)
Block(f, blk) ==
  IF blk < 0 THEN <<>>
  ELSE SubSeq(f, blk * BlockSize + 1, Min({Len(f), (blk + 1) * BlockSize}))

\* The checksum in cell h covers the cells up to e.
SumOK(b, h, e) == b[h].kind = "sum" /\ \A i \in (h + 1)..e : b[i].chunk = b[h].chunk

\* mutant: the log number is not compared.
OtherLogAny(b, h, g) == FALSE

\* The chunk's log number, in cell h + 2, is not g.
OtherLog(b, h, g) == b[h + 2].kind # "log" \/ b[h + 2].val # g

Stop(kind, blk, b) == [kind |-> kind, blk |-> blk, begin |-> Len(b), end |-> Len(b), last |-> TRUE]

(***************************************************************************)
(* nextChunk: the next chunk of log g after position <<blk, end>> of file  *)
(* f, with its payload b[begin + 1 .. end], or the error that stops it.    *)
(* (Nothing ever sets recovering: recover is only called when it is set.)  *)
(***************************************************************************)
RECURSIVE NextChunk(_, _, _, _, _)
NextChunk(f, g, blk, end, wantFirst) ==
  LET b == Block(f, blk)
      n == Len(b)
      h == end + 1      \* the checksum's cell, then type and length
      head == b[h + 1]
      size == IF head.kind = "recyclable" THEN RecyclableHeader ELSE LegacyHeader
      begin == end + size
      stop == begin + (IF head.kind \in {"legacy", "recyclable"} THEN head.val ELSE 0) IN
  IF end + LegacyHeader <= n
  THEN CASE b[h] = Zero /\ head = Zero ->
              IF end + RecyclableHeader > n THEN NextChunk(f, g, blk, n, wantFirst)
                                            ELSE Stop("zeroed", blk, b)
         [] head.kind = "recyclable" /\ begin > n -> Stop("invalid", blk, b)
         [] head.kind = "recyclable" /\ begin <= n /\ OtherLog(b, h, g) ->
              Stop(IF wantFirst THEN "eof" ELSE "invalid", blk, b)
         [] OTHER ->
              IF stop > n \/ ~SumOK(b, h, stop) THEN Stop("invalid", blk, b)
              ELSE IF wantFirst /\ head.type \notin FirstTypes
                THEN NextChunk(f, g, blk, stop, wantFirst)
                ELSE [kind |-> "ok", blk |-> blk, begin |-> begin, end |-> stop,
                      last |-> head.type \in LastTypes]
  ELSE IF n < BlockSize /\ blk >= 0
         THEN Stop(IF ~wantFirst \/ end # n THEN "invalid" ELSE "eof", blk, b)
         ELSE IF Block(f, blk + 1) = <<>>
                THEN Stop(IF wantFirst THEN "eof" ELSE "unexpected", blk, b)
                ELSE NextChunk(f, g, blk + 1, 0, wantFirst)

\* The payload cells of a chunk, as the records they belong to.
PayloadOf(f, x) ==
  [i \in 1..(x.end - x.begin) |-> Block(f, x.blk)[x.begin + i].val]

(***************************************************************************)
(* singleReader: the rest of a record after its chunk x, [kind, data, at]. *)
(***************************************************************************)
RECURSIVE ReadRecord(_, _, _)
ReadRecord(f, g, x) ==
  IF x.kind # "ok" THEN [kind |-> x.kind, data |-> <<>>, at |-> x]
  ELSE IF x.last THEN [kind |-> "ok", data |-> PayloadOf(f, x), at |-> x]
  ELSE LET rest == ReadRecord(f, g, NextChunk(f, g, x.blk, x.end, FALSE)) IN
       [rest EXCEPT !.data = PayloadOf(f, x) \o @]

(***************************************************************************)
(* The loop of replayWAL: the records up to the first error, which is      *)
(* taken for the log's end.                                                *)
(***************************************************************************)
RECURSIVE ReplayFrom(_, _, _, _)
ReplayFrom(f, g, blk, end) ==
  LET r == ReadRecord(f, g, NextChunk(f, g, blk, end, TRUE)) IN
  IF r.kind # "ok" THEN [records |-> <<>>, kind |-> r.kind]
  ELSE LET rest == ReplayFrom(f, g, r.at.blk, r.at.end) IN
       [rest EXCEPT !.records = <<r.data>> \o @]

Replay(f, g) == ReplayFrom(f, g, -1, 0)

-----------------------------------------------------------------------------
\* A new file, preallocated or not.
Init ==
  /\ legacy \in BOOLEAN /\ log = 1 /\ base \in {<<>>, Zeroes(Preallocated)}
  /\ cells = <<>> /\ synced = 0 /\ ends = <<>> /\ chunk = 0 /\ closed = FALSE

\* SyncRecord, or the Writer's Next, Write and Flush.
WriteRecord(n) ==
  /\ ~closed /\ Len(ends) < MaxRecords
  /\ cells' = Fragments(cells, legacy, log, chunk + 1, Len(ends) + 1, n, TRUE)
  /\ ends' = Append(ends, [end |-> Len(cells'), size |-> n])
  /\ chunk' = chunk + n + 1       \* at least as many identities as it took
  /\ UNCHANGED <<legacy, log, base, synced, closed>>

Sync == synced' = Len(cells) /\ synced # Len(cells)
        /\ UNCHANGED <<legacy, log, base, cells, ends, chunk, closed>>

\* mutant: no trailer.
CloseBare ==
  /\ ~closed /\ closed' = TRUE /\ synced' = Len(cells) /\ chunk' = chunk + 1
  /\ UNCHANGED <<legacy, log, base, cells, ends>>

\* The LogWriter leaves a trailer; all is synced.
Close ==
  /\ ~closed /\ closed' = TRUE
  /\ cells' = IF legacy THEN cells ELSE Trailer(cells, log, chunk + 1)
  /\ synced' = Len(cells') /\ chunk' = chunk + 1
  /\ UNCHANGED <<legacy, log, base, ends>>

\* The file with the first n cells of this log over what it held before, but in
\* the blocks of lost only the synced ones: writes reach the disk in any order.
Image(n, lost) ==
  [i \in 1..(IF n > Len(base) THEN n ELSE Len(base)) |->
     IF i <= n /\ (i <= synced \/ ((i - 1) \div BlockSize) \notin lost) THEN cells[i]
     ELSE IF i <= Len(base) THEN base[i] ELSE Zero]

\* A closed log's file is renamed and written again from its start as a later log;
\* the number in between may have been another file's.
Recycle ==
  /\ closed /\ ~legacy /\ log < MaxLogs
  /\ \E g \in (log + 1)..MaxLogs : log' = g
  /\ base' = Image(Len(cells), {}) /\ cells' = <<>> /\ synced' = 0 /\ ends' = <<>>
  /\ closed' = FALSE /\ UNCHANGED <<legacy, chunk>>

Next == (\E n \in Sizes : WriteRecord(n)) \/ Sync \/ Close \/ Recycle

Spec == Init /\ [][Next]_vars

-----------------------------------------------------------------------------
(***************************************************************************)
(* Properties.                                                             *)
(***************************************************************************)

\* The records written to this log, as a reader returns them.
Written == [i \in 1..Len(ends) |-> [j \in 1..ends[i].size |-> i]]

\* The files a crash can leave: any part of the unsynced cells, with any of their
\* blocks missing.
Images == {Image(n, lost) : n \in synced..Len(cells),
                            lost \in SUBSET ((synced \div BlockSize)..(Len(cells) \div BlockSize))}

\* After any crash replayWAL reads a prefix of this log's records, in order and
\* whole, with every record that was synced: never a record of the log the file was
\* recycled from, never a torn one.
ReplayReadsLog ==
  \A f \in Images : LET r == Replay(f, log).records IN
    /\ IsPrefix(r, Written)
    /\ \A i \in DOMAIN ends : ends[i].end <= synced => i <= Len(r)

\* A closed log is read to its end, and the end is told from a corrupted entry
\* whatever the recycled file holds after it ("Readers will treat the header as EOF
\* when the log number does not match").  A legacy log, whose chunks have
\* no log number, is left out when its file was longer than what it holds: nothing
\* tells its end from the zeros or the old chunks behind it.
ClosedEndsCleanly ==
  closed /\ (legacy => Len(base) <= Len(cells)) =>
    Replay(Image(Len(cells), {}), log) = [records |-> Written, kind |-> "eof"]
=============================================================================
