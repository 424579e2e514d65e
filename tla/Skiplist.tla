------------------------------ MODULE Skiplist ------------------------------
(***************************************************************************)
(* The memtable's skiplist in its arena: writers reserve room, then add    *)
(* their entries without a lock, one compare-and-swap at a time, keeping   *)
(* the splice of the last entry for the next one; a reader looks keys up   *)
(* meanwhile.                                                              *)
(*                                                                         *)
(* A node is named by the place of its internal key in the order, so node  *)
(* 2u - 1 is a newer entry of user key u than node 2u.  Sequence numbers   *)
(* are never handed out twice, so no entry is added twice.  A walk along   *)
(* one level takes effect at its last load: the nodes before it only ever  *)
(* get closer.                                                             *)
(***************************************************************************)
EXTENDS Naturals, FiniteSets, Sequences, FiniteSetsExt, SequencesExt

CONSTANTS
  Writers,
  K,          \* the entries 1..K, each added once
  MaxHeight,  \* levels of the highest tower
  MaxBatch,   \* entries in a batch
  Capacity,   \* size of the arena
  MaxGets     \* bound on lookups

ASSUME SkiplistAssumption ==
  /\ {K, MaxHeight, MaxBatch, Capacity, MaxGets} \subseteq Nat
  /\ K > 0 /\ MaxHeight > 0 /\ MaxBatch > 0

VARIABLES
  next, prev,  \* the links of each level
  height,      \* Skiplist.height
  tower,       \* height of each node, 0 before newNode
  size,        \* Arena.n
  reserved,    \* memTable.reserved
  refs,        \* memTable.writerRefs
  w,           \* the writers
  done,        \* the entries whose Add returned
  r,           \* the reader
  gets         \* lookups so far

vars == <<next, prev, height, tower, size, reserved, refs, w, done, r, gets>>
list == <<next, prev, height, tower, size>>

Levels == 0..MaxHeight - 1
Nodes == 1..K
head == 0
tail == K + 1
nil == K + 2
NoSplice == [p |-> nil, n |-> nil]
UserKey(n) == (n + 1) \div 2

Idle == [pc |-> "idle", batch |-> <<>>, h |-> 0, lvl |-> 0,
         spl |-> [l \in Levels |-> NoSplice], insH |-> 0,
         p |-> nil, n |-> nil, np |-> nil, bad |-> FALSE]

NoGet == [pc |-> "idle", key |-> 0, lvl |-> 0, at |-> head, owed |-> tail]

Init ==
  /\ next = [l \in Levels |-> [n \in 0..K + 1 |-> IF n = head THEN tail ELSE nil]]
  /\ prev = [l \in Levels |-> [n \in 0..K + 1 |-> IF n = tail THEN head ELSE nil]]
  /\ height = 1 /\ tower = [n \in Nodes |-> 0]
  /\ size = 0 /\ reserved = 0 /\ refs = 1
  /\ w = [i \in Writers |-> Idle]
  /\ done = {} /\ r = NoGet /\ gets = 0

-----------------------------------------------------------------------------
(***************************************************************************)
(* Room: a node takes one unit and one for each level of its tower.        *)
(***************************************************************************)

NodeSize(h) == 1 + h

\* memTableEntrySize: the size with the highest tower.
MaxNodeSize == 1 + MaxHeight

\* mutant: the reservation drops to what is used beside other writers too.
ReservedNow == size

\* availBytes: with no writer left the reservation drops to what is used.
Reserved == IF refs = 1 THEN size ELSE reserved

Taken == (UNION {ToSet(w[i].batch) : i \in Writers}) \cup {n \in Nodes : tower[n] > 0}

\* memTable.prepare, under the mutex of the caller.
Prepare(i) ==
  /\ w[i].pc = "idle"
  /\ \E batch \in UNION {[1..m -> Nodes \ Taken] : m \in 1..MaxBatch} :
       /\ IsInjective(batch)
       /\ Len(batch) * MaxNodeSize <= Capacity - Reserved
       /\ w' = [w EXCEPT ![i] = [Idle EXCEPT !.pc = "splice", !.batch = batch]]
       /\ reserved' = Reserved + Len(batch) * MaxNodeSize
  /\ refs' = refs + 1
  /\ UNCHANGED <<list, done, r, gets>>

\* memTable.writerUnref after apply.
Unref(i) ==
  /\ w[i].pc = "unref"
  /\ refs' = refs - 1
  /\ w' = [w EXCEPT ![i] = Idle]
  /\ UNCHANGED <<list, reserved, done, r, gets>>

-----------------------------------------------------------------------------
(***************************************************************************)
(* Inserter.Add.                                                           *)
(***************************************************************************)

Key(i) == Head(w[i].batch)

\* The nodes reached along level l: those that are in every set which has the head
\* and, with a node, its successor.
On(l) ==
  LET closed == {S \in SUBSET (0..K) :
                   head \in S /\ \A m \in S : next[l][m] \in S \cup {tail, nil}}
  IN {n \in 0..K : \A S \in closed : n \in S}

\* mutant: a walk passes over the key itself.
WalkPast(l, a, key) ==
  LET p == Max({n \in On(l) : n >= a /\ n <= key} \cup {a}) IN [p |-> p, n |-> next[l][p]]

\* findSpliceForLevel: from node a along level l to the last node before key.
Walk(l, a, key) ==
  LET p == Max({n \in On(l) : n >= a /\ n < key} \cup {a}) IN [p |-> p, n |-> next[l][p]]

\* Whether the cached splice of a level still surrounds the key.
SpliceHolds(s, l, key) ==
  /\ s.p # nil /\ next[l][s.p] = s.n
  /\ s.p < key /\ key <= s.n

\* findSplice: the levels above which the cached splices are kept.  The first
\* level, from below, whose splice nothing was linked into decides; if the key is
\* not in it every level is searched.
SearchFrom(i) ==
  LET linked == {l \in 0..height - 1 : next[l][w[i].spl[l].p] = w[i].spl[l].n}
      first  == Min(linked)
  IN IF w[i].insH < height \/ linked = {} \/ ~SpliceHolds(w[i].spl[first], first, Key(i))
     THEN height ELSE first

\* findSplice, one level a step: lvl counts down from SearchFrom, p is where the
\* walk on the next lower level begins.
Splice(i) ==
  /\ w[i].pc = "splice"
  /\ LET from == SearchFrom(i) IN
     w' = [w EXCEPT ![i].pc = "search", ![i].lvl = from,
                    ![i].insH = IF @ < height THEN height ELSE @,
                    ![i].p = IF from = height THEN head ELSE w[i].spl[from].p]
  /\ UNCHANGED <<list, reserved, refs, done, r, gets>>

Search(i) ==
  /\ w[i].pc = "search" /\ w[i].lvl > 0
  /\ LET l == w[i].lvl - 1
         s == Walk(l, w[i].p, Key(i))
     IN w' = [w EXCEPT ![i].lvl = l, ![i].spl[l] = s, ![i].p = s.p]
  /\ UNCHANGED <<list, reserved, refs, done, r, gets>>

\* Where level l of the new node goes; above the splice it follows the head.
Target(i, l) ==
  IF w[i].spl[l].p = nil THEN [p |-> head, n |-> tail] ELSE w[i].spl[l]

\* newNode: a random height, the arena's alloc, and the list grows with the node.
NewNode(i) ==
  /\ w[i].pc = "search" /\ w[i].lvl = 0
  /\ \E h \in 1..MaxHeight :
       /\ IF size + MaxNodeSize > Capacity
          THEN /\ w' = [w EXCEPT ![i].pc = "full"]
               /\ UNCHANGED <<height, tower>>
          ELSE /\ w' = [w EXCEPT ![i].pc = "load", ![i].h = h, ![i].lvl = 0,
                                 ![i].bad = FALSE,
                                 ![i].p = Target(i, 0).p, ![i].n = Target(i, 0).n]
               /\ height' = Max({height, h})
               /\ tower' = [tower EXCEPT ![Key(i)] = h]
       /\ size' = size + NodeSize(h)
  /\ UNCHANGED <<next, prev, reserved, refs, done, r, gets>>

\* The node's own links are set and the back link of its successor is read.
Load(i) ==
  LET l == w[i].lvl IN
  /\ w[i].pc = "load"
  /\ next' = [next EXCEPT ![l][Key(i)] = w[i].n]
  /\ prev' = [prev EXCEPT ![l][Key(i)] = w[i].p]
  /\ w' = [w EXCEPT ![i].np = prev[l][w[i].n],
                    ![i].pc = IF prev[l][w[i].n] = w[i].p THEN "link" ELSE "check"]
  /\ UNCHANGED <<height, tower, size, reserved, refs, done, r, gets>>

\* mutant: nobody helps.
CheckNot(i) ==
  /\ w[i].pc = "check"
  /\ w' = [w EXCEPT ![i].pc = "link"]
  /\ UNCHANGED <<list, reserved, refs, done, r, gets>>

\* A back link that lags behind is helped along.
Check(i) ==
  /\ w[i].pc = "check"
  /\ w' = [w EXCEPT ![i].pc = IF next[w[i].lvl][w[i].p] = w[i].n THEN "help" ELSE "link"]
  /\ UNCHANGED <<list, reserved, refs, done, r, gets>>

Help(i) ==
  LET l == w[i].lvl IN
  /\ w[i].pc = "help"
  /\ prev' = [prev EXCEPT ![l][w[i].n] = IF @ = w[i].np THEN w[i].p ELSE @]
  /\ w' = [w EXCEPT ![i].pc = "link"]
  /\ UNCHANGED <<next, height, tower, size, reserved, refs, done, r, gets>>

\* mutant: the link is stored without comparing.
CanLinkAlways(i) == TRUE

\* casNextOffset succeeds if the predecessor still points to the successor.
CanLink(i) == next[w[i].lvl][w[i].p] = w[i].n

Link(i) ==
  LET l == w[i].lvl
      s == Walk(l, w[i].p, Key(i))
  IN /\ w[i].pc = "link"
     /\ IF CanLink(i)
        THEN /\ next' = [next EXCEPT ![l][w[i].p] = Key(i)]
             /\ w' = [w EXCEPT ![i].pc = "back"]
        ELSE /\ w' = [w EXCEPT ![i].pc = "load", ![i].p = s.p, ![i].n = s.n,
                               ![i].bad = TRUE]
             /\ UNCHANGED next
     /\ UNCHANGED <<prev, height, tower, size, reserved, refs, done, r, gets>>

\* A splice that had to be searched again is not used for the next entry.
ForgetSplice(x) == x.bad

\* The successor's back link follows; after the last level Add returns and the
\* inserter keeps the node as the predecessor of its next entry.
Back(i) ==
  LET l    == w[i].lvl
      x    == w[i]
      more == l + 1 < x.h
  IN /\ x.pc = "back"
     /\ prev' = [prev EXCEPT ![l][x.n] = IF @ = x.p THEN Key(i) ELSE @]
     /\ IF more
        THEN /\ w' = [w EXCEPT ![i].pc = "load", ![i].lvl = l + 1,
                               ![i].p = Target(i, l + 1).p, ![i].n = Target(i, l + 1).n]
             /\ UNCHANGED done
        ELSE /\ done' = done \cup {Key(i)}
             /\ w' = [w EXCEPT ![i] =
                  [x EXCEPT !.pc = IF Len(x.batch) = 1 THEN "unref" ELSE "splice",
                            !.batch = Tail(@), !.h = 0, !.lvl = 0,
                            !.p = nil, !.n = nil, !.np = nil, !.bad = FALSE,
                            !.insH = IF ForgetSplice(x) THEN 0 ELSE @,
                            !.spl = IF ForgetSplice(x) THEN @
                                    ELSE [m \in Levels |-> IF m < x.h
                                            THEN [@[m] EXCEPT !.p = Key(i)] ELSE @[m]]]]
     /\ UNCHANGED <<next, height, tower, size, reserved, refs, r, gets>>

-----------------------------------------------------------------------------
(***************************************************************************)
(* Skiplist.Get and Iterator.SeekGE: seekForBaseSplice, one level a step.  *)
(***************************************************************************)

\* The search key of user key u comes before all its entries.
SearchKey(u) == 2 * u - 1

\* History: the first entry from k on whose Add has returned.
Due(k) == Min({n \in done : n >= k} \cup {tail})

Seek ==
  /\ r.pc = "idle" /\ gets < MaxGets
  /\ \E u \in {UserKey(n) : n \in Nodes} :
       r' = [pc |-> "walk", key |-> u, lvl |-> height, at |-> head,
             owed |-> Due(SearchKey(u))]
  /\ gets' = gets + 1
  /\ UNCHANGED <<list, reserved, refs, w, done>>

SeekLevel ==
  /\ r.pc = "walk"
  /\ LET l == r.lvl - 1
         s == Walk(l, r.at, SearchKey(r.key))
     IN r' = IF l > 0 THEN [r EXCEPT !.lvl = l, !.at = s.p]
             ELSE [r EXCEPT !.lvl = 0, !.at = s.n, !.pc = "found"]
  /\ UNCHANGED <<list, reserved, refs, w, done, gets>>

\* Skiplist.Get or the caller's iterator has its node; what it reads of it changes
\* nothing.
Return ==
  /\ r.pc = "found"
  /\ r' = NoGet
  /\ UNCHANGED <<list, reserved, refs, w, done, gets>>

\* Iterator.Next.
IterNext ==
  /\ r.pc = "found" /\ r.at # tail
  /\ r' = [r EXCEPT !.at = next[0][@], !.owed = Due(r.at + 1)]
  /\ UNCHANGED <<list, reserved, refs, w, done, gets>>

Next ==
  \/ \E i \in Writers :
       \/ Prepare(i) \/ Splice(i) \/ Search(i) \/ NewNode(i) \/ Load(i)
       \/ Check(i) \/ Help(i) \/ Link(i) \/ Back(i) \/ Unref(i)
  \/ Seek \/ SeekLevel \/ Return \/ IterNext

Spec == Init /\ [][Next]_vars

-----------------------------------------------------------------------------
(***************************************************************************)
(* Properties.                                                             *)
(***************************************************************************)

\* At every step each level is a chain from head to tail in key order without a
\* turn back, and whatever stands on a level stands on the one below: two writers
\* linking next to each other never cut a node off (addInternal).
LevelsSorted ==
  \A l \in Levels :
    LET on == On(l) IN
    /\ \A n \in on : n < next[l][n] /\ next[l][n] \in on \cup {tail}
    /\ l > 0 => on \subseteq On(l - 1)
    /\ \A n \in done : l < tower[n] => n \in on

\* An entry whose Add returned is never missed by a lookup, a seek or a step of an
\* iterator that starts later, whatever is being linked around it on any level (Get,
\* Iterator.SeekGE, seekForBaseSplice, Iterator.Next).
ReadersFind == r.pc = "found" => r.at <= r.owed

\* Backward links: once no writer is between linking a node and its back link, each
\* level reads the same in both directions; none is left behind for good by the
\* helping of Load, Check and Help (addInternal, Iterator.Prev).
PrevMirrors ==
  \A l \in Levels :
    (\A i \in Writers : ~(w[i].pc = "back" /\ w[i].lvl = l)) =>
      \A n \in On(l) : prev[l][next[l][n]] = n

\* What prepare reserved is enough: no Add of a prepared batch finds the arena full,
\* however high its towers come out (memTable.prepare, availBytes, Arena.alloc).
RoomSuffices == \A i \in Writers : w[i].pc # "full"
=============================================================================
