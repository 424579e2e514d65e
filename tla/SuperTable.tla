---------------------------- MODULE SuperTable ----------------------------
(***************************************************************************)
(* A super table (bitree/super_table.go): a key file, whose records name a *)
(* key and the place of its value, a value file, and a header that counts  *)
(* the records of finished flushes.                                        *)
(*                                                                         *)
(* A table is what its two files hold: keys is the sequence of records     *)
(* [key, off], vals the sequence of values, num the header.  A value is    *)
(* the number of the write it came from; an empty one, which is what a     *)
(* delete leaves, is 0.  Places are positions in vals: a record is written *)
(* whole or not at all.                                                    *)
(***************************************************************************)
EXTENDS Integers, Sequences, SequencesExt, FiniteSetsExt

\* newSuperTable
NewTable == [keys |-> <<>>, vals |-> <<>>, num |-> 0]

\* set: the record names the place the value is about to get (valueTbl.offset).
Record(st, i, k) == [key |-> k, off |-> Len(st.vals) + i]

\* The records of the writes e, a sequence of [key, val], appended to st.
Records(st, e) == [i \in DOMAIN e |-> Record(st, i, e[i].key)]

\* keyTbl.fdatasync, valueTbl.fdatasync: the first n of the records, of the values.
\* The writer's buffer may also spill in the middle of a record: a kill then leaves a
\* torn one, behind which the next flush is misaligned; that is left out.
WriteKeys(st, r, n) == [st EXCEPT !.keys = @ \o SubSeq(r, 1, n)]
WriteVals(st, e, n) == [st EXCEPT !.vals = @ \o [i \in 1..n |-> e[i].val]]

\* inuseBytes
InUse(st) == Len(st.keys) + Len(st.vals)

\* sort.Find: the place its bisection of the first n records ends at, n + 1 if none
\* is at or above k.
Find(st, n, k) ==
  LET find[w \in {x \in (1..(n + 1)) \X (1..(n + 1)) : x[1] <= x[2]}] ==
        LET h == (w[1] + w[2]) \div 2 IN
        IF w[1] = w[2] THEN w[1]
        ELSE IF st.keys[h].key < k THEN find[<<h + 1, w[2]>>] ELSE find[<<w[1], h>>]
  IN find[<<1, n + 1>>]

\* get and getValue among the n readable records: 0 is "not found", which an empty
\* value and a place outside the value file are too.
StGet(st, n, k) ==
  LET p == Find(st, n, k) IN
  IF p <= n /\ st.keys[p].key = k /\ st.keys[p].off <= Len(st.vals)
    THEN st.vals[st.keys[p].off] ELSE 0

\* readKeyFileHeader: the header is believed when it agrees with the key file's
\* length.
HeaderOk(st) == st.num = Len(st.keys)

\* What stops the scan that rebuilds it: a record without its value.  An empty value
\* at the very end of the value file looks like one.
Unbacked(st, i) ==
  LET o == st.keys[i].off IN
  o > Len(st.vals) \/ (o = Len(st.vals) /\ st.vals[o] = 0)

\* The number of records the scan counts.
Scanned(st) ==
  Min({i \in 1..(Len(st.keys) + 1) : i > Len(st.keys) \/ Unbacked(st, i)}) - 1

\* The scan does not get past an empty value that others follow.
ScanLoops(st) ==
  ~HeaderOk(st) /\ \E i \in 1..Scanned(st) : st.vals[st.keys[i].off] = 0

\* mutant: nothing is counted.
RebuiltNone(st) == IF HeaderOk(st) THEN st ELSE [st EXCEPT !.num = 0]

\* openSuperTable
Rebuilt(st) == IF HeaderOk(st) THEN st ELSE [st EXCEPT !.num = Scanned(st)]
=============================================================================
