---------------------------- MODULE ArrayTable ----------------------------
(***************************************************************************)
(* An array table (array_table.go) in its mapped file (table.go): items in *)
(* key order, an index of their offsets behind them, and two headers.  The *)
(* file grows ahead of the items, the mapping ahead of the file's use, and *)
(* writeFinish cuts both back.                                             *)
(*                                                                         *)
(* A table is [off, fsz, msz, cells, offs, num, idx, synced, panic, over]: *)
(* the allocation offset, the sizes of file and mapping, what was written  *)
(* where, itemsOffset, the header's number of items and index offset,      *)
(* whether the file has everything written so far, whether an access was   *)
(* out of bounds, and (history) whether off has passed its limit.  Sizes   *)
(* are counted in words: each header, a key, its length and an index entry *)
(* are one word, a value any number of them.                               *)
(***************************************************************************)
EXTENDS Integers, Sequences, SequencesExt, FiniteSetsExt

CONSTANTS MapSizes,       \* the powers of two of calcExpandSize, 2^15 to 2^30
          ExpandStep,     \* maxExpandStep
          InitMmapSize,   \* initMmapSize
          OffsetLimit     \* 2^32: offset is an atomic.Uint32

ASSUME MapAssumption ==
  /\ MapSizes \subseteq Nat \ {0} /\ \E m \in MapSizes : MapSizes \subseteq 1..m
  /\ {ExpandStep, InitMmapSize} \subseteq Nat \ {0}
  /\ OffsetLimit \in Nat /\ OffsetLimit > 6   \* a table of one item fits

HeaderLen == 1   \* of the table's own header, and of the array table's

\* calcExpandSize; its maxMapSize is beyond what an offset can ask for.
CalcExpandSize(n) ==
  IF n <= Max(MapSizes) THEN Min({p \in MapSizes : p >= n})
  ELSE ExpandStep * ((n + ExpandStep - 1) \div ExpandStep)

\* mutant: the new length is not synced.
TruncateOnly(t, n) == [t EXCEPT !.fsz = n]

\* fileTruncate: Sync writes out the mapping's pages too.
FileTruncate(t, n) == [t EXCEPT !.fsz = n, !.synced = TRUE]

\* t.data[o:o+n]: Go's bounds check; beyond the file's end the mapping has no pages.
InBounds(t, o, n) == o + n <= t.msz /\ o + n <= t.fsz

\* Writes the words s at o.
WriteAt(t, o, s) ==
  IF InBounds(t, o, Len(s))
    THEN [t EXCEPT !.cells = [x \in DOMAIN @ \cup (o..(o + Len(s) - 1)) |->
                                IF x \in o..(o + Len(s) - 1) THEN s[x - o + 1] ELSE @[x]],
                   !.synced = FALSE]
    ELSE [t EXCEPT !.panic = TRUE]

ReadAt(t, o, n) ==
  [i \in 1..n |-> IF o + i - 1 \in DOMAIN t.cells THEN t.cells[o + i - 1] ELSE 0]

-----------------------------------------------------------------------------

\* expandFileSize
ExpandFile(t, n) == IF n > t.fsz THEN FileTruncate(t, CalcExpandSize(n)) ELSE t

\* mutant: the mapping is not grown.
GrowNothing(t, n) == t

\* expandMmapSize: the old mapping goes before the new one is made.
ExpandMmap(t, n) == IF n > t.msz THEN [t EXCEPT !.msz = CalcExpandSize(n)] ELSE t

\* alloc's new offset, and its result; fault names the step that fails, if it comes
\* to that step.
Offset(t, n) == (t.off + n) % OffsetLimit
Refused(t, n, fault) == \/ fault = "file" /\ Offset(t, n) > t.fsz
                        \/ fault = "map" /\ Offset(t, n) > t.msz

Alloc(t, n, fault) ==
  LET o == Offset(t, n)
      moved == [t EXCEPT !.off = o, !.over = @ \/ t.off + n >= OffsetLimit] IN
  CASE fault = "file" /\ o > t.fsz -> moved
    [] fault = "map" /\ o > t.msz  -> [ExpandFile(moved, o) EXCEPT !.msz = 0]
    [] OTHER -> WriteAt(ExpandMmap(ExpandFile(moved, o), o), 0, <<o>>)

\* getBytes of what alloc gave: an offset that has passed the limit ends below its
\* start, and slicing panics.
Fill(t, n, s) ==
  IF t.off < n THEN [t EXCEPT !.panic = TRUE] ELSE WriteAt(t, t.off - n, s)

\* newArrayTable on a new file: the mapping is made before the file has a length.
NewArrayTable ==
  LET t == [off |-> 0, fsz |-> 0, msz |-> CalcExpandSize(InitMmapSize), cells |-> <<>>,
            offs |-> <<>>, num |-> 0, idx |-> 0, synced |-> TRUE, panic |-> FALSE,
            over |-> FALSE]
  IN  Alloc(Alloc(t, HeaderLen, "none"), HeaderLen, "none")

\* set: a refused item leaves the offset where its end would have been.
SetItem(t, item, fault) ==
  LET s == <<1, item.key>> \o item.val
      a == Alloc(t, Len(s), fault) IN
  IF t.panic \/ Refused(t, Len(s), fault) THEN a
  ELSE [Fill(a, Len(s), s) EXCEPT !.offs = Append(@, a.off - Len(s))]

\* writeFinish when all of it succeeds: index, header, and the cut.  Its file gets a
\* length, and with it a Sync, unless it has that length already.
WriteFinish(t) ==
  LET n == Len(t.offs)
      a == Alloc(t, n, "none")
      i == IF n = 0 THEN a ELSE Fill(a, n, t.offs)
      h == WriteAt([i EXCEPT !.num = n, !.idx = a.off - n, !.offs = <<>>],
                   HeaderLen, << <<n, a.off - n>> >>)
      c == IF h.fsz # h.off THEN FileTruncate(h, h.off) ELSE h
  IN  IF t.panic \/ i.panic THEN [i EXCEPT !.panic = TRUE] ELSE [c EXCEPT !.msz = c.off]

\* runFlush's loop: the items set one after the other.
SetAll(items, fault) ==
  LET after[n \in 0..Len(items)] ==
        IF n = 0 THEN NewArrayTable ELSE SetItem(after[n - 1], items[n], fault[n])
  IN  after[Len(items)]

\* openArrayTable: all it knows is in the file.
OpenArrayTable(t) ==
  [t EXCEPT !.off = t.cells[0], !.msz = t.fsz, !.num = t.cells[HeaderLen][1],
            !.idx = t.cells[HeaderLen][2], !.synced = TRUE]

-----------------------------------------------------------------------------

\* getItemOffset: 0 beyond the last item.
ItemOffset(t, i) == IF i \in 1..t.num THEN t.cells[t.idx + i - 1] ELSE 0

GetKey(t, i) == t.cells[ItemOffset(t, i) + 1]

\* getKV: a value ends where the next item, or the index, begins.
GetValue(t, i) ==
  LET end == IF i = t.num THEN t.idx ELSE ItemOffset(t, i + 1)
      o == ItemOffset(t, i) IN ReadAt(t, o + 2, end - o - 2)

\* findKeyIndexPos: sort.Search over ascending keys; num + 1 if all are smaller.
FindKeyIndexPos(t, k) == Min({i \in 1..(t.num + 1) : i > t.num \/ GetKey(t, i) >= k})

\* get: the key it lands on is not compared.
AtGet(t, k) ==
  LET p == FindKeyIndexPos(t, k) IN
  [found |-> p <= t.num, val |-> IF p <= t.num THEN GetValue(t, p) ELSE <<>>]

\* The flush iterator: every item.
Items(t) == [i \in 1..t.num |-> [key |-> GetKey(t, i), val |-> GetValue(t, i)]]
=============================================================================
