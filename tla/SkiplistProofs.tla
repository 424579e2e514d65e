--------------------------- MODULE SkiplistProofs ---------------------------
(***************************************************************************)
(* The memtable's skiplist for any number of writers, entries and levels:  *)
(* no link is cut (LevelsSorted), no reader misses what was added before   *)
(* (ReadersFind), the back links catch up (PrevMirrors) and the arena has  *)
(* the room that was reserved (RoomSuffices).                              *)
(*                                                                         *)
(* A level is a chain that only gets longer, at one place at a time: an    *)
(* entry goes between two neighbours (LevelInv).  That the neighbours a    *)
(* writer has in hand surround its entry follows from how the splices of   *)
(* the levels are nested, those kept from the last entry included          *)
(* (SpliceInv).  A back link only ever moves to the true predecessor, and  *)
(* is the true predecessor's when the next entry is linked behind that one *)
(* (BackInv).  The room is counted by the entries still to be allocated    *)
(* (RoomInv).                                                              *)
(***************************************************************************)
EXTENDS Skiplist, NumberFacts, FiniteSetTheorems, TLAPS

Offsets == 0..(K + 2)
Pairs == [p : Offsets, n : Offsets]
Linking == {"load", "check", "help", "link", "back"}
Pcs == {"idle", "splice", "search", "unref", "full"} \cup Linking
Heights == 0..MaxHeight
Batches == Seq(Nodes)
Writer == [pc : Pcs, batch : Batches, h : Heights, lvl : Heights, spl : [Levels -> Pairs],
           insH : Heights, p : Offsets, n : Offsets, np : Offsets, bad : BOOLEAN]
Reader == [pc : {"idle", "walk", "found"}, key : Nat, lvl : Heights, at : 0..(K + 1),
           owed : 0..(K + 1)]
Links == [Levels -> [0..(K + 1) -> Offsets]]

TypeInv ==
  /\ next \in Links /\ prev \in Links
  /\ height \in 1..MaxHeight /\ tower \in [Nodes -> Heights]
  /\ size \in Nat /\ reserved \in Nat /\ refs \in Nat
  /\ w \in [Writers -> Writer] /\ done \subseteq Nodes /\ r \in Reader

\* A batch names each entry once, no two batches have one in common, and only the
\* entry that is being linked has its node.
BatchInv ==
  \A i \in Writers :
    /\ w[i].pc \in {"idle", "unref"} <=> w[i].batch = <<>>
    /\ \A a, b \in DOMAIN w[i].batch : w[i].batch[a] = w[i].batch[b] => a = b
    /\ \A j \in Writers : i # j =>
         \A a \in DOMAIN w[i].batch, b \in DOMAIN w[j].batch : w[i].batch[a] # w[j].batch[b]
    /\ \A a \in DOMAIN w[i].batch :
         ~(a = 1 /\ w[i].pc \in Linking) => tower[w[i].batch[a]] = 0
    /\ w[i].pc \in Linking =>
         tower[Key(i)] = w[i].h /\ w[i].lvl < w[i].h /\ w[i].h <= height

\* Each level is an upward chain of neighbours, a part of the level below; an entry
\* that was added is on all its levels, one that is being added on those it has done.
LevelInv ==
  /\ \A l \in Levels : \A n \in On(l) :
       /\ n < next[l][n] /\ next[l][n] \in On(l) \cup {tail}
       /\ \A m \in On(l) : n < m => next[l][n] <= m
       /\ n # head => tower[n] > 0
       /\ \A k \in Levels : k < l => n \in On(k)
  /\ \A n \in done : tower[n] > 0 /\ \A l \in Levels : l < tower[n] => n \in On(l)
  /\ \A i \in Writers : w[i].pc \in Linking => \A l \in Levels :
       Key(i) \in On(l) <=> l < w[i].lvl \/ (l = w[i].lvl /\ w[i].pc = "back")

\* Two nodes of a level S, or one and the tail, and two on either side of k.
Apart(S, p, n) == p \in S /\ n \in S \cup {tail} /\ p < n
Around(S, p, n, k) == Apart(S, p, n) /\ p < k /\ k < n

\* The splices of an inserter's levels from a to b are nested.
Nested(spl, a, b) ==
  \A l, m \in Levels : a <= l /\ l < m /\ m < b => spl[m].p <= spl[l].p /\ spl[l].n <= spl[m].n

\* What an inserter has found, or kept, surrounds its entry.
SpliceOf(i) ==
  LET x == w[i] IN
  /\ x.insH <= height
  /\ x.pc = "splice" =>
       /\ \A l \in Levels : l >= height => x.spl[l].p = nil
       /\ x.insH = height =>
            /\ \A l \in Levels : l < height => Apart(On(l), x.spl[l].p, x.spl[l].n)
            /\ Nested(x.spl, 0, height)
  /\ x.pc = "search" =>
       /\ x.lvl <= x.insH
       /\ \A l \in Levels : l >= x.insH => x.spl[l].p = nil
       /\ \A l \in Levels : x.lvl <= l /\ l < x.insH =>
            Around(On(l), x.spl[l].p, x.spl[l].n, Key(i)) /\ x.spl[l].p <= x.p
       /\ Nested(x.spl, x.lvl, x.insH)
       /\ \A l \in Levels : l < x.lvl => x.p \in On(l)
       /\ x.p < Key(i)
  /\ x.pc \in Linking =>
       /\ \A l \in Levels : l >= x.insH => x.spl[l].p = nil
       /\ \A l \in Levels : l < x.insH => Around(On(l), x.spl[l].p, x.spl[l].n, Key(i))
       /\ Nested(x.spl, 0, x.insH)
       /\ Around(On(x.lvl), x.p, x.n, Key(i))

SpliceInv == \A i \in Writers : SpliceOf(i)

\* The back link of m, a node of level l or the tail, never leads past the true
\* predecessor; it is behind only while the writer of that predecessor has still to
\* set it.
BackInv ==
  \A l \in Levels :
    /\ \A m \in On(l) \cup {tail} : m # head => prev[l][m] \in On(l) /\ prev[l][m] < m
    /\ \A n \in On(l) :
         LET m == next[l][n] IN
         \/ prev[l][m] = n
         \/ \E i \in Writers : /\ w[i].pc = "back" /\ w[i].lvl = l /\ Key(i) = n
                               /\ w[i].n = m /\ w[i].p = prev[l][m]

\* What a writer knows of the back link it helps along.
HelpOf(i) ==
  LET x   == w[i]
      nx  == next[x.lvl][x.p]
      pr  == prev[x.lvl][x.n] IN
  /\ x.pc \in {"check", "help", "link"} =>
       next[x.lvl][Key(i)] = x.n /\ prev[x.lvl][Key(i)] = x.p
  /\ x.pc \in {"check", "help"} =>
       x.np <= pr /\ x.np # x.p /\ (nx = x.n => pr \in {x.np, x.p})
  /\ x.pc = "help" => x.np < x.p /\ (nx = x.n \/ x.p <= pr)
  /\ x.pc = "link" => (nx = x.n => pr = x.p)
  /\ x.pc = "back" => (next[x.lvl][Key(i)] = x.n \/ Key(i) <= pr)

HelpInv == \A i \in Writers : HelpOf(i)

\* A lookup stands on all lower levels before its key; what it is due is on level 0.
ReadInv ==
  /\ r.pc = "walk" =>
       /\ r.lvl > 0 /\ r.lvl <= height /\ r.key > 0
       /\ \A l \in Levels : l < r.lvl => r.at \in On(l)
       /\ r.at < SearchKey(r.key) /\ SearchKey(r.key) <= r.owed
       /\ r.owed \in done \cup {tail}
  /\ r.pc = "found" => r.at \in On(0) \cup {tail} /\ r.at <= r.owed

\* The entries that still need their node, and the writers inside a batch.
Pending == {n \in Nodes : tower[n] = 0 /\ \E i \in Writers : n \in Range(w[i].batch)}
Active == {i \in Writers : w[i].pc # "idle"}

\* The reservation has room for them, each with the highest tower.
RoomInv ==
  /\ IsFiniteSet(Active) /\ refs = 1 + Cardinality(Active)
  /\ size + MaxNodeSize * Cardinality(Pending) <= Reserved /\ Reserved <= Capacity
  /\ RoomSuffices

IInv == /\ TypeInv /\ BatchInv /\ LevelInv /\ SpliceInv /\ BackInv /\ HelpInv /\ ReadInv
        /\ RoomInv
-----------------------------------------------------------------------------
(***************************************************************************)
(* The nodes along a level.                                                *)
(***************************************************************************)

\* Sizes are numbers.
LEMMA SizeFact ==
  K \in Nat /\ K > 0 /\ MaxHeight \in Nat /\ MaxHeight > 0 /\ Capacity \in Nat /\ MaxBatch \in Nat
BY SkiplistAssumption

\* What is reached along the links f.
Closed(f, S) == head \in S /\ \A m \in S : f[m] \in S \cup {tail, nil}
Chain(f) == {n \in 0..K : \A S \in SUBSET (0..K) : Closed(f, S) => n \in S}
LevelLinks == [0..(K + 1) -> Offsets]

\* On is the chain of a level's links.
LEMMA OnChain == \A l : On(l) = Chain(next[l]) /\ On(l)' = Chain(next'[l])
BY DEF On, Chain, Closed

\* The head is on a level, and with a node its successor.
LEMMA ChainFacts ==
  ASSUME NEW f \in LevelLinks
  PROVE  Chain(f) \subseteq 0..K /\ Closed(f, Chain(f))
<1> DEFINE C == Chain(f)
<1>1. C \subseteq 0..K /\ head \in C
  BY SizeFact DEF Chain, Closed, head
<1>2. ASSUME NEW m \in C PROVE f[m] \in C \cup {tail, nil}
  <2>1. f[m] \in 0..(K + 2)
    BY <1>1, SizeFact DEF LevelLinks, Offsets
  <2>2. CASE f[m] \in 0..K
    <3>1. ASSUME NEW S \in SUBSET (0..K), Closed(f, S) PROVE f[m] \in S
      <4>1. m \in S
        BY <1>2, <3>1 DEF Chain
      <4>2. f[m] \in S \cup {tail, nil}
        BY <3>1, <4>1 DEF Closed
      <4> QED BY <2>2, <4>2, SizeFact DEF tail, nil
    <3> QED BY <2>2, <3>1 DEF Chain
  <2>3. CASE f[m] \notin 0..K
    BY <2>1, <2>3, SizeFact DEF tail, nil
  <2> QED BY <2>2, <2>3
<1> QED BY <1>1, <1>2 DEF Closed

\* It is the least such set.
LEMMA ChainLeast ==
  ASSUME NEW f, NEW S, S \subseteq 0..K, Closed(f, S)
  PROVE  Chain(f) \subseteq S
BY DEF Chain

\* Links of nodes that are not on a level do not matter to it.
LEMMA ChainSame ==
  ASSUME NEW f \in LevelLinks, NEW g \in LevelLinks, \A m \in Chain(f) : g[m] = f[m]
  PROVE  Chain(g) = Chain(f)
<1>1. Chain(f) \subseteq 0..K /\ Closed(f, Chain(f)) /\ Chain(g) \subseteq 0..K /\ Closed(g, Chain(g))
  BY ChainFacts
<1>2. Closed(g, Chain(f))
  BY <1>1 DEF Closed
<1>3. Chain(g) \subseteq Chain(f)
  BY <1>1, <1>2, ChainLeast
<1>4. Closed(f, Chain(g))
  BY <1>1, <1>3 DEF Closed
<1> QED BY <1>1, <1>3, <1>4, ChainLeast

\* casNextOffset puts a node behind p whose own link already leads on.
LEMMA ChainAdd ==
  ASSUME NEW f \in LevelLinks, NEW p \in Chain(f), NEW k \in Nodes, k \notin Chain(f), f[k] = f[p]
  PROVE  /\ [f EXCEPT ![p] = k] \in LevelLinks
         /\ Chain([f EXCEPT ![p] = k]) = Chain(f) \cup {k}
<1> DEFINE g == [f EXCEPT ![p] = k]
<1>1. Chain(f) \subseteq 0..K /\ Closed(f, Chain(f)) /\ k \in 0..K /\ p \in 0..(K + 1) /\ k \in 0..(K + 1)
  BY ChainFacts, SizeFact DEF Nodes
<1>2. g \in LevelLinks
  BY <1>1, SizeFact DEF LevelLinks, Offsets
<1>3. g[p] = k /\ \A m \in 0..(K + 1) : m # p => g[m] = f[m]
  BY <1>1 DEF LevelLinks
<1>4. k # p
  OBVIOUS
<1>5. g[k] = f[p]
  BY <1>1, <1>3, <1>4
<1>5a. \A m \in 0..K : m \in 0..(K + 1)
  BY SizeFact
<1> HIDE DEF g
<1>6. Closed(g, Chain(f) \cup {k})
  <2>1. ASSUME NEW m \in Chain(f) \cup {k} PROVE g[m] \in (Chain(f) \cup {k}) \cup {tail, nil}
    <3>1. CASE m = p
      BY <1>3, <3>1
    <3>2. CASE m = k
      BY <1>1, <1>5, <3>2 DEF Closed
    <3>3. CASE m # p /\ m # k
      BY <1>1, <1>3, <1>5a, <2>1, <3>3 DEF Closed
    <3> QED BY <3>1, <3>2, <3>3
  <2> QED BY <1>1, <2>1 DEF Closed
<1>7. Chain(g) \subseteq Chain(f) \cup {k}
  BY <1>1, <1>6, ChainLeast
<1>8. Chain(g) \subseteq 0..K /\ Closed(g, Chain(g))
  BY <1>2, ChainFacts
<1>9. k \notin {tail, nil}
  BY SizeFact DEF Nodes, tail, nil
<1>10. Closed(f, Chain(g))
  <2>1. ASSUME NEW m \in Chain(g) PROVE f[m] \in Chain(g) \cup {tail, nil}
    <3>1. CASE m = p
      <4>1. k \in Chain(g)
        BY <1>3, <1>8, <1>9, <2>1, <3>1 DEF Closed
      <4> QED BY <1>5, <1>8, <3>1, <4>1 DEF Closed
    <3>2. CASE m # p
      BY <1>3, <1>5a, <1>8, <2>1, <3>2 DEF Closed
    <3> QED BY <3>1, <3>2
  <2> QED BY <1>8, <2>1 DEF Closed
<1>11. Chain(f) \subseteq Chain(g)
  BY <1>8, <1>10, ChainLeast
<1>12. k \in Chain(g)
  BY <1>3, <1>8, <1>9, <1>11 DEF Closed
<1>13. Chain(g) = Chain(f) \cup {k}
  BY <1>7, <1>11, <1>12
<1> QED BY <1>2, <1>13 DEF g
-----------------------------------------------------------------------------
(***************************************************************************)
(* What each step of a writer does to its inserter.                        *)
(***************************************************************************)

\* Nobody else's inserter is touched (an Inserter belongs to one goroutine).
Alone(i) == w' \in [Writers -> Writer] /\ \A j \in Writers : j # i => w'[j] = w[j]

\* The entry a writer is adding.
LEMMA KeyFact ==
  ASSUME TypeInv, BatchInv, NEW i \in Writers, w[i].pc \notin {"idle", "unref"}
  PROVE  /\ Key(i) \in Nodes /\ Key(i) = w[i].batch[1] /\ 1 \in DOMAIN w[i].batch
         /\ Key(i) \in Nat /\ Key(i) > 0 /\ Key(i) <= K /\ Key(i) # head /\ Key(i) # tail
<1>1. w[i].batch \in Seq(Nodes) /\ w[i].batch # <<>>
  BY DEF TypeInv, Writer, Batches, BatchInv
<1> QED BY <1>1, SizeFact DEF Key, Nodes, head, tail

\* The level a writer is linking is one of the list's.
LEMMA LinkLevel ==
  ASSUME TypeInv, BatchInv, NEW i \in Writers, w[i].pc \in Linking
  PROVE  /\ w[i].lvl \in Levels /\ w[i].lvl + 1 <= w[i].h /\ w[i].h \in 1..MaxHeight
         /\ w[i].h <= height /\ height <= MaxHeight
<1>1. w[i].lvl \in 0..MaxHeight /\ w[i].h \in 0..MaxHeight /\ height \in 1..MaxHeight
  BY DEF TypeInv, Writer, Heights
<1>2. w[i].lvl < w[i].h /\ w[i].h <= height
  BY DEF BatchInv
<1> QED BY <1>1, <1>2, SizeFact DEF Levels

\* prepare: entries nobody else has, and an inserter without splices.
LEMMA PrepareDoes ==
  ASSUME TypeInv, NEW i \in Writers, Prepare(i)
  PROVE  \E b \in Batches :
           /\ b # <<>> /\ \A x, y \in DOMAIN b : b[x] = b[y] => x = y
           /\ \A x \in DOMAIN b : b[x] \notin Taken
           /\ Len(b) * MaxNodeSize <= Capacity - Reserved
           /\ w' = [w EXCEPT ![i] = [Idle EXCEPT !.pc = "splice", !.batch = b]]
           /\ reserved' = Reserved + Len(b) * MaxNodeSize
           /\ Alone(i) /\ w'[i].pc = "splice" /\ w'[i].batch = b /\ w'[i].insH = 0
           /\ \A l \in Levels : w'[i].spl[l].p = nil
<1>1. PICK b \in UNION {[1..m -> Nodes \ Taken] : m \in 1..MaxBatch} :
         /\ IsInjective(b)
         /\ Len(b) * MaxNodeSize <= Capacity - Reserved
         /\ w' = [w EXCEPT ![i] = [Idle EXCEPT !.pc = "splice", !.batch = b]]
         /\ reserved' = Reserved + Len(b) * MaxNodeSize
  BY DEF Prepare
<1>2. PICK m \in 1..MaxBatch : b \in [1..m -> Nodes \ Taken]
  BY <1>1
<1>3. m \in Nat /\ m > 0
  BY SizeFact
<1>4. b \in Batches /\ b # <<>> /\ DOMAIN b = 1..m
  BY <1>2, <1>3 DEF Batches
<1>5. \A x, y \in DOMAIN b : b[x] = b[y] => x = y
  BY <1>1 DEF IsInjective
<1>6. \A x \in DOMAIN b : b[x] \notin Taken
  BY <1>2, <1>4
<1>7. [Idle EXCEPT !.pc = "splice", !.batch = b] \in Writer
  <2>1. nil \in Offsets /\ 0 \in Heights /\ NoSplice \in Pairs
    BY SizeFact DEF NoSplice, Pairs, Offsets, Heights, nil
  <2>2. [l \in Levels |-> NoSplice] \in [Levels -> Pairs]
    BY <2>1
  <2> QED BY <1>4, <2>1, <2>2 DEF Idle, Writer, Pcs
<1> DEFINE x == [Idle EXCEPT !.pc = "splice", !.batch = b]
<1>8. x.pc = "splice" /\ x.batch = b /\ x.insH = 0 /\ \A l \in Levels : x.spl[l].p = nil
  BY DEF Idle, NoSplice
<1> HIDE DEF x
<1>9. w' = [w EXCEPT ![i] = x] /\ x \in Writer
  BY <1>1, <1>7 DEF x
<1>10. Alone(i) /\ w'[i] = x
  BY <1>9 DEF Alone, TypeInv
<1> QED BY <1>1, <1>4, <1>5, <1>6, <1>8, <1>10

\* findSplice: either every level is searched, or the levels from one on whose splice
\* still holds are kept.
LEMMA SearchFromFact ==
  ASSUME TypeInv, NEW i \in Writers, w[i].insH <= height
  PROVE  \/ SearchFrom(i) = height
         \/ /\ SearchFrom(i) \in Levels /\ SearchFrom(i) < height /\ w[i].insH = height
            /\ SpliceHolds(w[i].spl[SearchFrom(i)], SearchFrom(i), Key(i))
<1> DEFINE linked == {l \in 0..(height - 1) : next[l][w[i].spl[l].p] = w[i].spl[l].n}
           first  == Min(linked)
<1>1. height \in Nat /\ height > 0 /\ height <= MaxHeight /\ w[i].insH \in Nat
  BY SizeFact DEF TypeInv, Writer, Heights
<1>2. SearchFrom(i) = IF w[i].insH < height \/ linked = {} \/ ~SpliceHolds(w[i].spl[first], first, Key(i))
                      THEN height ELSE first
  BY DEF SearchFrom
<1>3. linked \subseteq Nat /\ \A l \in linked : l \in Levels /\ l < height
  BY <1>1, SizeFact DEF Levels
<1>4. linked # {} => first \in linked
  <2> HIDE DEF linked
  <2> QED BY <1>3, MinFact
<1> HIDE DEF linked, first
<1>5. CASE w[i].insH < height \/ linked = {} \/ ~SpliceHolds(w[i].spl[first], first, Key(i))
  BY <1>2, <1>5
<1>6. CASE ~(w[i].insH < height \/ linked = {} \/ ~SpliceHolds(w[i].spl[first], first, Key(i)))
  <2>0. SearchFrom(i) = first /\ linked # {} /\ ~(w[i].insH < height)
    BY <1>2, <1>6, Zenon
  <2>1. SearchFrom(i) = first /\ w[i].insH = height /\ first \in Levels /\ first < height
    <3>1. first \in linked
      BY <1>4, <2>0
    <3>2. first \in Levels /\ first < height
      BY <1>3, <3>1
    <3>3. w[i].insH = height
      BY <1>1, <2>0
    <3> QED BY <2>0, <3>2, <3>3
  <2>2. SpliceHolds(w[i].spl[first], first, Key(i))
    BY <1>6
  <2> QED BY <2>1, <2>2
<1> QED BY <1>5, <1>6

\* findSplice begins.
LEMMA SpliceDoes ==
  ASSUME TypeInv, SpliceInv, NEW i \in Writers, Splice(i)
  PROVE  /\ Alone(i) /\ w[i].pc = "splice" /\ w'[i].pc = "search" /\ w'[i].insH = height
         /\ w'[i].lvl = SearchFrom(i) /\ w'[i].batch = w[i].batch /\ w'[i].spl = w[i].spl
         /\ w'[i].p = IF SearchFrom(i) = height THEN head ELSE w[i].spl[SearchFrom(i)].p
<1> DEFINE from == SearchFrom(i)
           at == IF from = height THEN head ELSE w[i].spl[from].p
<1>1. w[i] \in Writer /\ w[i].insH \in Nat /\ height \in Heights /\ height \in Nat /\ w[i].insH <= height
  BY SizeFact DEF TypeInv, Writer, Heights, SpliceInv, SpliceOf
<1>2. from = height \/ (from \in Levels /\ from < height)
  BY <1>1, SearchFromFact
<1>3. from \in Heights
  BY <1>1, <1>2, SizeFact DEF Heights, Levels
<1>4. at \in Offsets
  BY <1>1, <1>2, SizeFact DEF Writer, Pairs, Offsets, head
<1>5. (IF w[i].insH < height THEN height ELSE w[i].insH) = height
  BY <1>1
<1> HIDE DEF from, at
<1>6. w' = [w EXCEPT ![i] = [w[i] EXCEPT !.pc = "search", !.lvl = from, !.insH = height, !.p = at]]
  BY <1>1, <1>5 DEF Splice, from, at, TypeInv, Writer
<1>7. [w[i] EXCEPT !.pc = "search", !.lvl = from, !.insH = height, !.p = at] \in Writer
  BY <1>1, <1>3, <1>4 DEF Writer, Pcs
<1>8. Alone(i) /\ w'[i] = [w[i] EXCEPT !.pc = "search", !.lvl = from, !.insH = height, !.p = at]
  BY <1>6, <1>7 DEF Alone, TypeInv
<1>9. w[i].pc = "splice"
  BY DEF Splice
<1>10. w'[i].pc = "search" /\ w'[i].insH = height /\ w'[i].lvl = from /\ w'[i].batch = w[i].batch
         /\ w'[i].spl = w[i].spl /\ w'[i].p = at
  BY <1>1, <1>8 DEF Writer
<1> QED BY <1>8, <1>9, <1>10 DEF from, at
\* The nodes of a level are numbers up to K, the head among them.
LEMMA OnFacts ==
  ASSUME TypeInv, NEW l \in Levels
  PROVE  /\ head \in On(l) /\ On(l) \subseteq 0..K /\ On(l) \subseteq Nat
         /\ next[l] \in LevelLinks /\ prev[l] \in LevelLinks
         /\ \A n \in On(l) : next[l][n] \in Offsets
<1>1. next[l] \in LevelLinks /\ prev[l] \in LevelLinks
  BY DEF TypeInv, Links, LevelLinks
<1>2. Chain(next[l]) \subseteq 0..K /\ head \in Chain(next[l])
  BY <1>1, ChainFacts DEF Closed
<1>3. On(l) = Chain(next[l])
  BY OnChain
<1>4. \A n \in 0..K : n \in 0..(K + 1) /\ n \in Nat
  BY SizeFact
<1> QED BY <1>1, <1>2, <1>3, <1>4 DEF LevelLinks

\* findSpliceForLevel from a node a before the key: it ends at the neighbours between
\* which the key belongs.
LEMMA WalkFact ==
  ASSUME TypeInv, LevelInv, NEW l \in Levels, NEW a \in On(l), NEW k \in Nat, a < k, k <= K + 1
  PROVE  LET s == Walk(l, a, k) IN
         /\ s \in Pairs /\ s.p \in On(l) /\ s.p < k /\ a <= s.p
         /\ s.n = next[l][s.p] /\ s.n \in On(l) \cup {tail} /\ k <= s.n
         /\ \A m \in On(l) \cup {tail} : k <= m => s.n <= m
<1> DEFINE S == {n \in On(l) : n >= a /\ n < k} \cup {a}
           p == Max(S)
<1>1. On(l) \subseteq 0..K /\ On(l) \subseteq Nat /\ a \in Nat
  BY OnFacts
<1>2. S \subseteq Nat /\ S # {} /\ \A y \in S : y <= k
  BY <1>1
<1>3. p \in S /\ \A y \in S : p >= y
  <2> HIDE DEF S
  <2> QED BY <1>2, MaxFact
<1>4. p \in On(l) /\ p < k /\ a <= p /\ p \in Nat
  BY <1>1, <1>3
<1>5. \A m \in On(l) : m < k => m <= p
  <2> SUFFICES ASSUME NEW m \in On(l), m < k PROVE m <= p
    OBVIOUS
  <2>1. CASE m >= a
    BY <1>1, <1>3, <2>1
  <2>2. CASE ~(m >= a)
    BY <1>1, <1>4, <2>2
  <2> QED BY <2>1, <2>2
<1>6. Walk(l, a, k) = [p |-> p, n |-> next[l][p]]
  BY DEF Walk
<1> HIDE DEF p, S
<1>7. /\ p < next[l][p] /\ next[l][p] \in On(l) \cup {tail}
      /\ \A m \in On(l) : p < m => next[l][p] <= m
  BY <1>4 DEF LevelInv
<1> DEFINE n == next[l][p]
<1>8. n \in 0..(K + 1) /\ n \in Offsets /\ p \in Offsets /\ tail \in Nat /\ tail = K + 1
  BY <1>1, <1>4, <1>7, SizeFact DEF tail, Offsets
<1>9. k <= n
  <2>1. CASE n = tail
    BY <1>8, <2>1
  <2>2. CASE n \in On(l)
    <3> HIDE DEF n
    <3> QED BY <1>1, <1>4, <1>5, <1>7, <2>2 DEF n
  <2> QED BY <1>7, <2>1, <2>2
<1>10. ASSUME NEW m \in On(l) \cup {tail}, k <= m PROVE n <= m
  <2>1. CASE m = tail
    BY <1>8, <2>1
  <2>2. CASE m \in On(l)
    <3>1. m \in Nat /\ p < m
      BY <1>1, <1>4, <1>10, <2>2
    <3> QED BY <1>7, <2>2, <3>1
  <2> QED BY <1>10, <2>1, <2>2
<1> HIDE DEF n
<1>11. Walk(l, a, k) = [p |-> p, n |-> n]
  BY <1>6 DEF n
<1> QED BY <1>4, <1>7, <1>8, <1>9, <1>10, <1>11 DEF Pairs, n
\* findSplice on the next lower level.
LEMMA SearchDoes ==
  ASSUME TypeInv, BatchInv, LevelInv, SpliceInv, NEW i \in Writers, Search(i)
  PROVE  LET l == w[i].lvl - 1
             s == Walk(l, w[i].p, Key(i)) IN
         /\ Alone(i) /\ w[i].pc = "search" /\ w'[i].pc = "search" /\ l \in Levels /\ w[i].lvl = l + 1
         /\ w'[i].lvl = l /\ w'[i].insH = w[i].insH /\ w'[i].batch = w[i].batch /\ w'[i].p = s.p
         /\ w'[i].spl[l] = s /\ \A m \in Levels : m # l => w'[i].spl[m] = w[i].spl[m]
         /\ Around(On(l), s.p, s.n, Key(i)) /\ w[i].p <= s.p
         /\ \A m \in On(l) \cup {tail} : Key(i) <= m => s.n <= m
<1> DEFINE l == w[i].lvl - 1
           s == Walk(l, w[i].p, Key(i))
<1>1. w[i] \in Writer /\ w[i].lvl \in Nat /\ w[i].lvl <= MaxHeight /\ w[i].lvl > 0 /\ w[i].pc = "search"
  BY SizeFact DEF TypeInv, Writer, Heights, Search
<1>2. l \in Levels /\ l \in Heights /\ w[i].lvl = l + 1 /\ l < w[i].lvl
  BY <1>1, SizeFact DEF Levels, Heights
<1>3. w[i].p \in On(l) /\ w[i].p < Key(i)
  BY <1>1, <1>2 DEF SpliceInv, SpliceOf
<1>4. Key(i) \in Nat /\ Key(i) <= K /\ Key(i) \in Nodes
  BY <1>1, KeyFact
<1>5. Key(i) <= K + 1
  BY <1>4, SizeFact
<1>6. /\ s \in Pairs /\ s.p \in On(l) /\ s.p < Key(i) /\ w[i].p <= s.p
      /\ s.n = next[l][s.p] /\ s.n \in On(l) \cup {tail} /\ Key(i) <= s.n
      /\ \A m \in On(l) \cup {tail} : Key(i) <= m => s.n <= m
  BY <1>2, <1>3, <1>4, <1>5, WalkFact
<1>7. tower[Key(i)] = 0
  BY <1>1, KeyFact DEF BatchInv, Linking
<1>8. Key(i) \notin On(l) /\ Key(i) # tail /\ Key(i) # head
  BY <1>1, <1>2, <1>7, KeyFact DEF LevelInv
<1>9. On(l) \subseteq Nat /\ tail \in Nat
  BY <1>2, OnFacts, SizeFact DEF tail
<1>10. w' = [w EXCEPT ![i] = [w[i] EXCEPT !.lvl = l, !.spl = [@ EXCEPT ![l] = s], !.p = s.p]]
  BY <1>1 DEF Search, TypeInv, Writer
<1> HIDE DEF l, s
<1>11. s.p \in Offsets
  BY <1>6 DEF Pairs
<1> DEFINE x == [w[i] EXCEPT !.lvl = l, !.spl = [@ EXCEPT ![l] = s], !.p = s.p]
<1>12. x \in Writer
  BY <1>1, <1>2, <1>6, <1>11 DEF Writer
<1>13. /\ x.pc = "search" /\ x.lvl = l /\ x.insH = w[i].insH /\ x.batch = w[i].batch /\ x.p = s.p
       /\ x.spl[l] = s /\ \A m \in Levels : m # l => x.spl[m] = w[i].spl[m]
  BY <1>1, <1>2 DEF Writer
<1> HIDE DEF x
<1>14. Alone(i) /\ w'[i] = x
  BY <1>10, <1>12 DEF Alone, TypeInv, x
<1>15. s.p < s.n /\ Key(i) < s.n
  BY <1>4, <1>6, <1>8, <1>9
<1>16. Around(On(l), s.p, s.n, Key(i))
  BY <1>6, <1>15 DEF Around, Apart
<1> QED BY <1>1, <1>2, <1>6, <1>13, <1>14, <1>16 DEF l, s

\* newNode: there is room, the node gets a tower and the first level is next.
LEMMA NewNodeDoes ==
  ASSUME TypeInv, BatchInv, SpliceInv, NEW i \in Writers, NewNode(i),
         size + MaxNodeSize <= Capacity
  PROVE  \E h \in 1..MaxHeight :
           /\ Alone(i) /\ w[i].pc = "search" /\ w[i].lvl = 0 /\ w'[i].pc = "load" /\ w'[i].h = h
           /\ w'[i].lvl = 0 /\ w'[i].batch = w[i].batch /\ w'[i].spl = w[i].spl
           /\ w'[i].insH = w[i].insH /\ w'[i].p = Target(i, 0).p /\ w'[i].n = Target(i, 0).n
           /\ height' \in 1..MaxHeight /\ height <= height' /\ h <= height'
           /\ tower' = [tower EXCEPT ![Key(i)] = h] /\ size' = size + 1 + h
           /\ UNCHANGED <<next, prev, reserved, refs, done, r>>
<1>1. PICK h \in 1..MaxHeight :
         /\ w' = [w EXCEPT ![i].pc = "load", ![i].h = h, ![i].lvl = 0, ![i].bad = FALSE,
                           ![i].p = Target(i, 0).p, ![i].n = Target(i, 0).n]
         /\ height' = Max({height, h}) /\ tower' = [tower EXCEPT ![Key(i)] = h]
         /\ size' = size + NodeSize(h)
  <2>1. size \in Nat /\ MaxNodeSize \in Nat /\ ~(size + MaxNodeSize > Capacity)
    BY SizeFact DEF TypeInv, MaxNodeSize
  <2> QED BY <2>1 DEF NewNode
<1>2. height \in 1..MaxHeight /\ height \in Nat /\ h \in Nat /\ h >= 1 /\ h <= MaxHeight /\ MaxHeight \in Nat
  BY SizeFact DEF TypeInv
<1>3. height' \in {height, h} /\ height' >= height /\ height' >= h
  <2>1. {height, h} \subseteq Nat /\ {height, h} # {} /\ \A y \in {height, h} : y <= MaxHeight
    BY <1>2
  <2>2. Max({height, h}) \in {height, h} /\ \A y \in {height, h} : Max({height, h}) >= y
    BY <1>2, <2>1, MaxFact
  <2> QED BY <1>1, <2>2
<1>4. height' \in 1..MaxHeight /\ height <= height' /\ h <= height'
  BY <1>2, <1>3
<1>5. w[i] \in Writer /\ 0 \in Levels /\ 0 \in Heights /\ h \in Heights
  BY <1>2, SizeFact DEF TypeInv, Levels, Heights
<1>6. Target(i, 0) \in Pairs
  BY <1>5, SizeFact DEF Target, Writer, Pairs, Offsets, head, tail
<1> DEFINE x == [w[i] EXCEPT !.pc = "load", !.h = h, !.lvl = 0, !.bad = FALSE,
                             !.p = Target(i, 0).p, !.n = Target(i, 0).n]
<1>7. w' = [w EXCEPT ![i] = x]
  BY <1>1, <1>5 DEF TypeInv, Writer
<1>8. x \in Writer
  BY <1>5, <1>6 DEF Writer, Pairs, Pcs, Linking
<1>9. /\ x.pc = "load" /\ x.h = h /\ x.lvl = 0 /\ x.batch = w[i].batch /\ x.spl = w[i].spl
      /\ x.insH = w[i].insH /\ x.p = Target(i, 0).p /\ x.n = Target(i, 0).n
  BY <1>5 DEF Writer
<1> HIDE DEF x
<1>10. Alone(i) /\ w'[i] = x
  BY <1>7, <1>8 DEF Alone, TypeInv
<1>11. size' = size + 1 + h
  BY <1>1, <1>2 DEF NodeSize, TypeInv
<1>12. w[i].pc = "search" /\ w[i].lvl = 0 /\ UNCHANGED <<next, prev, reserved, refs, done, r>>
  BY DEF NewNode
<1> QED BY <1>1, <1>4, <1>9, <1>10, <1>11, <1>12
\* Steps within a level leave the batch, the level and the splices as they are.
Keeps(i) ==
  /\ w'[i].batch = w[i].batch /\ w'[i].h = w[i].h /\ w'[i].lvl = w[i].lvl
  /\ w'[i].spl = w[i].spl /\ w'[i].insH = w[i].insH

\* nd.tower[i].init and the load of the successor's back link.
LEMMA LoadDoes ==
  ASSUME TypeInv, BatchInv, LevelInv, SpliceInv, NEW i \in Writers, Load(i)
  PROVE  /\ Alone(i) /\ Keeps(i) /\ w[i].pc = "load" /\ w'[i].p = w[i].p /\ w'[i].n = w[i].n
         /\ w'[i].np = prev[w[i].lvl][w[i].n]
         /\ w'[i].pc = IF w'[i].np = w[i].p THEN "link" ELSE "check"
         /\ next' \in Links /\ prev' \in Links
         /\ next'[w[i].lvl][Key(i)] = w[i].n /\ prev'[w[i].lvl][Key(i)] = w[i].p
         /\ \A l \in Levels, m \in 0..(K + 1) : l # w[i].lvl \/ m # Key(i) =>
              next'[l][m] = next[l][m] /\ prev'[l][m] = prev[l][m]
<1> DEFINE l == w[i].lvl
           k == Key(i)
<1>1. w[i].pc = "load" /\ w[i].pc \in Linking /\ w[i] \in Writer
  BY DEF Load, Linking, TypeInv
<1>2. l \in Levels /\ k \in Nodes /\ k \in 0..(K + 1)
  BY <1>1, LinkLevel, KeyFact, SizeFact DEF Nodes
<1>3. w[i].p \in Offsets /\ w[i].n \in Offsets /\ w[i].n \in 0..(K + 1)
  <2>1. Around(On(l), w[i].p, w[i].n, k)
    BY <1>1 DEF SpliceInv, SpliceOf
  <2>2. w[i].n \in On(l) \cup {tail} /\ On(l) \subseteq 0..K
    BY <1>2, <2>1, OnFacts DEF Around, Apart
  <2> QED BY <1>1, <2>2, SizeFact DEF Writer, tail
<1>4. next' = [next EXCEPT ![l][k] = w[i].n] /\ prev' = [prev EXCEPT ![l][k] = w[i].p]
  BY DEF Load
<1> DEFINE np == prev[l][w[i].n]
<1>5. np \in Offsets
  BY <1>2, <1>3 DEF TypeInv, Links
<1>6. w' = [w EXCEPT ![i] = [w[i] EXCEPT !.np = np, !.pc = IF np = w[i].p THEN "link" ELSE "check"]]
  BY <1>1 DEF Load, TypeInv, Writer
<1> HIDE DEF l, k, np
<1> DEFINE x == [w[i] EXCEPT !.np = np, !.pc = IF np = w[i].p THEN "link" ELSE "check"]
<1>7. x \in Writer
  BY <1>1, <1>5 DEF Writer, Pcs, Linking
<1>8. /\ x.np = np /\ x.pc = (IF np = w[i].p THEN "link" ELSE "check") /\ x.batch = w[i].batch
      /\ x.h = w[i].h /\ x.lvl = w[i].lvl /\ x.spl = w[i].spl /\ x.insH = w[i].insH
      /\ x.p = w[i].p /\ x.n = w[i].n
  BY <1>1 DEF Writer
<1> HIDE DEF x
<1>9. Alone(i) /\ w'[i] = x
  BY <1>6, <1>7 DEF Alone, TypeInv, x
<1>10. /\ next' \in Links /\ next'[l][k] = w[i].n
       /\ \A j \in Levels, m \in 0..(K + 1) : j # l \/ m # k => next'[j][m] = next[j][m]
  BY <1>2, <1>3, <1>4 DEF TypeInv, Links
<1>11. /\ prev' \in Links /\ prev'[l][k] = w[i].p
       /\ \A j \in Levels, m \in 0..(K + 1) : j # l \/ m # k => prev'[j][m] = prev[j][m]
  BY <1>2, <1>3, <1>4 DEF TypeInv, Links
<1> QED BY <1>1, <1>8, <1>9, <1>10, <1>11 DEF Keeps, l, k, np

\* prevNextOffset is compared with nextOffset.
LEMMA CheckDoes ==
  ASSUME TypeInv, NEW i \in Writers, Check(i)
  PROVE  /\ Alone(i) /\ Keeps(i) /\ w[i].pc = "check"
         /\ w'[i].p = w[i].p /\ w'[i].n = w[i].n /\ w'[i].np = w[i].np
         /\ w'[i].pc = IF next[w[i].lvl][w[i].p] = w[i].n THEN "help" ELSE "link"
<1>1. w[i].pc = "check" /\ w[i] \in Writer
  BY DEF Check, TypeInv
<1> DEFINE to == IF next[w[i].lvl][w[i].p] = w[i].n THEN "help" ELSE "link"
<1>2. w' = [w EXCEPT ![i] = [w[i] EXCEPT !.pc = to]]
  BY DEF Check, TypeInv
<1>3. to \in Pcs
  BY DEF Pcs, Linking
<1> HIDE DEF to
<1>4. [w[i] EXCEPT !.pc = to] \in Writer
  BY <1>1, <1>3 DEF Writer
<1>5. Alone(i) /\ w'[i] = [w[i] EXCEPT !.pc = to]
  BY <1>2, <1>4 DEF Alone, TypeInv
<1> QED BY <1>1, <1>5 DEF Keeps, Writer, to

\* casPrevOffset of the lagging back link.
LEMMA HelpDoes ==
  ASSUME TypeInv, BatchInv, LevelInv, SpliceInv, NEW i \in Writers, Help(i)
  PROVE  LET l == w[i].lvl IN
         /\ Alone(i) /\ Keeps(i) /\ w[i].pc = "help" /\ w'[i].pc = "link"
         /\ w'[i].p = w[i].p /\ w'[i].n = w[i].n /\ prev' \in Links
         /\ prev'[l][w[i].n] = IF prev[l][w[i].n] = w[i].np THEN w[i].p ELSE prev[l][w[i].n]
         /\ \A j \in Levels, m \in 0..(K + 1) : j # l \/ m # w[i].n => prev'[j][m] = prev[j][m]
<1> DEFINE l == w[i].lvl
<1>1. w[i].pc = "help" /\ w[i].pc \in Linking /\ w[i] \in Writer /\ l \in Levels
  BY LinkLevel DEF Help, Linking, TypeInv
<1>2. w[i].p \in Offsets /\ w[i].n \in 0..(K + 1)
  <2>1. Around(On(l), w[i].p, w[i].n, Key(i))
    BY <1>1 DEF SpliceInv, SpliceOf
  <2>2. w[i].n \in On(l) \cup {tail} /\ On(l) \subseteq 0..K
    BY <1>1, <2>1, OnFacts DEF Around, Apart
  <2> QED BY <1>1, <2>2, SizeFact DEF Writer, tail
<1>3. prev' = [prev EXCEPT ![l][w[i].n] = IF @ = w[i].np THEN w[i].p ELSE @]
  BY DEF Help
<1>4. w' = [w EXCEPT ![i] = [w[i] EXCEPT !.pc = "link"]]
  BY DEF Help, TypeInv
<1>5. [w[i] EXCEPT !.pc = "link"] \in Writer
  BY <1>1 DEF Writer, Pcs, Linking
<1>6. Alone(i) /\ w'[i] = [w[i] EXCEPT !.pc = "link"]
  BY <1>4, <1>5 DEF Alone, TypeInv
<1>7. /\ Keeps(i) /\ w'[i].pc = "link" /\ w'[i].p = w[i].p /\ w'[i].n = w[i].n
  BY <1>1, <1>6 DEF Keeps, Writer
<1> HIDE DEF l
<1>8. /\ prev' \in Links
      /\ prev'[l][w[i].n] = IF prev[l][w[i].n] = w[i].np THEN w[i].p ELSE prev[l][w[i].n]
      /\ \A j \in Levels, m \in 0..(K + 1) : j # l \/ m # w[i].n => prev'[j][m] = prev[j][m]
  BY <1>1, <1>2, <1>3 DEF TypeInv, Links
<1> QED BY <1>1, <1>6, <1>7, <1>8 DEF l
\* A writer's place on its level: two nodes of it around its entry, which is not there
\* before casNextOffset.
LEMMA PlaceFact ==
  ASSUME TypeInv, BatchInv, LevelInv, SpliceInv, NEW i \in Writers, w[i].pc \in Linking
  PROVE  LET l == w[i].lvl IN
         /\ l \in Levels /\ w[i].p \in On(l) /\ w[i].n \in On(l) \cup {tail}
         /\ w[i].p \in 0..K /\ w[i].n \in 0..(K + 1) /\ Key(i) \in Nodes /\ Key(i) \in 0..K
         /\ w[i].p < Key(i) /\ Key(i) < w[i].n /\ w[i].n # head
         /\ w[i].pc # "back" => Key(i) \notin On(l)
         /\ w[i].pc = "back" => Key(i) \in On(l)
<1> DEFINE l == w[i].lvl
<1>1. l \in Levels /\ Key(i) \in Nodes
  BY LinkLevel, KeyFact DEF Linking
<1>2. Around(On(l), w[i].p, w[i].n, Key(i))
  BY DEF SpliceInv, SpliceOf
<1>3. On(l) \subseteq 0..K
  BY <1>1, OnFacts
<1>4. w[i].p \in On(l) /\ w[i].n \in On(l) \cup {tail} /\ w[i].p < Key(i) /\ Key(i) < w[i].n
  BY <1>2 DEF Around, Apart
<1>5. l \in Nat
  BY <1>1, SizeFact DEF Levels
<1>6. Key(i) \in On(l) <=> l < w[i].lvl \/ (l = w[i].lvl /\ w[i].pc = "back")
  BY <1>1 DEF LevelInv
<1>7. (w[i].pc # "back" => Key(i) \notin On(l)) /\ (w[i].pc = "back" => Key(i) \in On(l))
  BY <1>5, <1>6
<1> HIDE DEF l
<1>8. w[i].p \in 0..K /\ w[i].n \in 0..(K + 1) /\ Key(i) \in 0..K /\ w[i].n # head
  BY <1>1, <1>3, <1>4, SizeFact DEF Nodes, tail, head
<1> QED BY <1>1, <1>4, <1>7, <1>8 DEF l

\* casNextOffset succeeds: the entry is on the level, between its neighbours.
LEMMA LinkDoes ==
  ASSUME TypeInv, BatchInv, LevelInv, SpliceInv, HelpInv, NEW i \in Writers, Link(i), CanLink(i),
         NEW l \in Levels, l = w[i].lvl
  PROVE  /\ Alone(i) /\ Keeps(i) /\ w[i].pc = "link" /\ w'[i].pc = "back"
         /\ w'[i].p = w[i].p /\ w'[i].n = w[i].n
         /\ next[l][w[i].p] = w[i].n /\ next[l][Key(i)] = w[i].n /\ prev[l][Key(i)] = w[i].p
         /\ prev[l][w[i].n] = w[i].p
         /\ next' \in Links /\ next'[l][w[i].p] = Key(i)
         /\ \A j \in Levels, m \in 0..(K + 1) : j # l \/ m # w[i].p => next'[j][m] = next[j][m]
         /\ On(l)' = On(l) \cup {Key(i)} /\ \A j \in Levels : j # l => On(j)' = On(j)
<1> DEFINE k == Key(i)
<1>1. w[i].pc = "link" /\ w[i].pc \in Linking /\ w[i] \in Writer
  BY DEF Link, Linking, TypeInv
<1>2. /\ l \in Levels /\ k \in Nodes /\ k \in 0..K /\ w[i].p \in On(l) /\ w[i].p \in 0..K
      /\ k \notin On(l) /\ w[i].p < k
  BY <1>1, PlaceFact
<1>3. next[l][k] = w[i].n /\ prev[l][k] = w[i].p /\ (next[l][w[i].p] = w[i].n => prev[l][w[i].n] = w[i].p)
  BY <1>1 DEF HelpInv, HelpOf
<1>4. next[l][w[i].p] = w[i].n
  BY DEF CanLink
<1>5. next' = [next EXCEPT ![l][w[i].p] = k] /\ w' = [w EXCEPT ![i].pc = "back"]
  BY DEF Link
<1>6. [w[i] EXCEPT !.pc = "back"] \in Writer
  BY <1>1 DEF Writer, Pcs, Linking
<1>7. Alone(i) /\ w'[i] = [w[i] EXCEPT !.pc = "back"]
  BY <1>5, <1>6 DEF Alone, TypeInv
<1>8. /\ Keeps(i) /\ w'[i].pc = "back" /\ w'[i].p = w[i].p /\ w'[i].n = w[i].n
  BY <1>1, <1>7 DEF Keeps, Writer
<1> HIDE DEF k
<1>9. next[l] \in LevelLinks /\ On(l) = Chain(next[l]) /\ On(l)' = Chain(next'[l])
  BY <1>2, OnFacts, OnChain
<1>10. next'[l] = [next[l] EXCEPT ![w[i].p] = k]
  BY <1>2, <1>5 DEF TypeInv, Links
<1>11. On(l)' = On(l) \cup {k} /\ next'[l] \in LevelLinks
  BY <1>2, <1>3, <1>4, <1>9, <1>10, ChainAdd
<1>12. \A j \in Levels : j # l => next'[j] = next[j]
  BY <1>2, <1>5 DEF TypeInv, Links
<1>13. \A j \in Levels : j # l => On(j)' = On(j)
  BY <1>12, OnChain
<1>14. /\ next' \in Links /\ next'[l][w[i].p] = k
       /\ \A j \in Levels, m \in 0..(K + 1) : j # l \/ m # w[i].p => next'[j][m] = next[j][m]
  <2>1. w[i].p \in 0..(K + 1) /\ k \in Offsets
    BY <1>2, SizeFact DEF Offsets
  <2> QED BY <1>2, <1>5, <2>1 DEF TypeInv, Links
<1> QED BY <1>1, <1>3, <1>4, <1>7, <1>8, <1>11, <1>13, <1>14 DEF k

\* casNextOffset fails: the place is looked for again, from the old predecessor.
LEMMA RelinkDoes ==
  ASSUME TypeInv, BatchInv, LevelInv, SpliceInv, NEW i \in Writers, Link(i), ~CanLink(i)
  PROVE  /\ Alone(i) /\ Keeps(i) /\ w[i].pc = "link" /\ w'[i].pc = "load" /\ UNCHANGED next
         /\ Around(On(w[i].lvl), w'[i].p, w'[i].n, Key(i))
<1> DEFINE l == w[i].lvl
           k == Key(i)
           s == Walk(l, w[i].p, k)
<1>1. w[i].pc = "link" /\ w[i].pc \in Linking /\ w[i] \in Writer
  BY DEF Link, Linking, TypeInv
<1>2. /\ l \in Levels /\ k \in Nodes /\ k \in 0..K /\ w[i].p \in On(l) /\ k \notin On(l) /\ w[i].p < k
  BY <1>1, PlaceFact
<1>3. k \in Nat /\ k <= K + 1 /\ k # tail
  BY <1>2, SizeFact DEF tail
<1>4. UNCHANGED next /\ w' = [w EXCEPT ![i].pc = "load", ![i].p = s.p, ![i].n = s.n, ![i].bad = TRUE]
  BY DEF Link
<1> HIDE DEF l, k
<1>5. /\ s \in Pairs /\ s.p \in On(l) /\ s.p < k /\ s.n \in On(l) \cup {tail} /\ k <= s.n
  BY <1>2, <1>3, WalkFact
<1> HIDE DEF s
<1>6. On(l) \subseteq Nat /\ tail \in Nat
  BY <1>2, OnFacts, SizeFact DEF tail
<1>7. Around(On(l), s.p, s.n, k)
  <2>1. k < s.n /\ s.p < s.n
    BY <1>2, <1>3, <1>5, <1>6
  <2> QED BY <1>5, <2>1 DEF Around, Apart
<1> DEFINE x == [w[i] EXCEPT !.pc = "load", !.p = s.p, !.n = s.n, !.bad = TRUE]
<1>8. w' = [w EXCEPT ![i] = x]
  BY <1>1, <1>4 DEF TypeInv, Writer
<1>9. x \in Writer
  BY <1>1, <1>5 DEF Writer, Pcs, Linking, Pairs
<1>10. /\ x.pc = "load" /\ x.batch = w[i].batch /\ x.h = w[i].h /\ x.lvl = w[i].lvl
       /\ x.spl = w[i].spl /\ x.insH = w[i].insH /\ x.p = s.p /\ x.n = s.n
  BY <1>1 DEF Writer
<1> HIDE DEF x
<1>11. Alone(i) /\ w'[i] = x
  BY <1>8, <1>9 DEF Alone, TypeInv
<1> QED BY <1>1, <1>4, <1>7, <1>10, <1>11 DEF Keeps, l, k
\* The successor's back link after casPrevOffset.
LEMMA BackLink ==
  ASSUME TypeInv, BatchInv, LevelInv, SpliceInv, NEW i \in Writers, Back(i)
  PROVE  LET l == w[i].lvl IN
         /\ w[i].pc = "back" /\ prev' \in Links
         /\ prev'[l][w[i].n] = IF prev[l][w[i].n] = w[i].p THEN Key(i) ELSE prev[l][w[i].n]
         /\ \A j \in Levels, m \in 0..(K + 1) : j # l \/ m # w[i].n => prev'[j][m] = prev[j][m]
<1> DEFINE l == w[i].lvl
<1>1. w[i].pc = "back" /\ w[i].pc \in Linking
  BY DEF Back, Linking
<1>2. l \in Levels /\ w[i].n \in 0..(K + 1) /\ Key(i) \in 0..K
  BY <1>1, PlaceFact
<1>3. prev' = [prev EXCEPT ![l][w[i].n] = IF @ = w[i].p THEN Key(i) ELSE @]
  BY DEF Back
<1>4. Key(i) \in Offsets
  BY <1>2, SizeFact DEF Offsets
<1> HIDE DEF l
<1>5. /\ prev' \in Links
      /\ prev'[l][w[i].n] = IF prev[l][w[i].n] = w[i].p THEN Key(i) ELSE prev[l][w[i].n]
      /\ \A j \in Levels, m \in 0..(K + 1) : j # l \/ m # w[i].n => prev'[j][m] = prev[j][m]
  BY <1>2, <1>3, <1>4 DEF TypeInv, Links
<1> QED BY <1>1, <1>5 DEF l

\* On to the next level of the tower.
LEMMA MoreDoes ==
  ASSUME TypeInv, BatchInv, LevelInv, SpliceInv, NEW i \in Writers, Back(i), w[i].lvl + 1 < w[i].h
  PROVE  LET m == w[i].lvl + 1 IN
         /\ Alone(i) /\ m \in Levels /\ w'[i].pc = "load" /\ w'[i].lvl = m /\ UNCHANGED done
         /\ w'[i].batch = w[i].batch /\ w'[i].h = w[i].h /\ w'[i].spl = w[i].spl
         /\ w'[i].insH = w[i].insH /\ w'[i].p = Target(i, m).p /\ w'[i].n = Target(i, m).n
<1> DEFINE m == w[i].lvl + 1
<1>1. w[i].pc = "back" /\ w[i].pc \in Linking /\ w[i] \in Writer
  BY DEF Back, Linking, TypeInv
<1>2. m \in Levels /\ m \in Heights
  <2>1. w[i].lvl \in 0..(MaxHeight - 1) /\ w[i].h \in 1..MaxHeight
    BY <1>1, LinkLevel DEF Levels
  <2> QED BY <2>1, SizeFact DEF Levels, Heights
<1>3. UNCHANGED done /\ w' = [w EXCEPT ![i].pc = "load", ![i].lvl = m,
                                       ![i].p = Target(i, m).p, ![i].n = Target(i, m).n]
  BY DEF Back
<1>4. Target(i, m) \in Pairs
  BY <1>1, <1>2, SizeFact DEF Target, Writer, Pairs, Offsets, head, tail
<1> HIDE DEF m
<1> DEFINE x == [w[i] EXCEPT !.pc = "load", !.lvl = m, !.p = Target(i, m).p, !.n = Target(i, m).n]
<1>5. w' = [w EXCEPT ![i] = x]
  BY <1>1, <1>3 DEF TypeInv, Writer
<1>6. x \in Writer
  BY <1>1, <1>2, <1>4 DEF Writer, Pcs, Linking, Pairs
<1>7. /\ x.pc = "load" /\ x.batch = w[i].batch /\ x.h = w[i].h /\ x.lvl = m
      /\ x.spl = w[i].spl /\ x.insH = w[i].insH /\ x.p = Target(i, m).p /\ x.n = Target(i, m).n
  BY <1>1 DEF Writer
<1> HIDE DEF x
<1>8. Alone(i) /\ w'[i] = x
  BY <1>5, <1>6 DEF Alone, TypeInv
<1> QED BY <1>2, <1>3, <1>7, <1>8 DEF m

\* Add returns: the entry is done, and unless a level had to be searched again it is
\* the predecessor of the next one on its levels.
LEMMA LastDoes ==
  ASSUME TypeInv, BatchInv, LevelInv, SpliceInv, NEW i \in Writers, Back(i), ~(w[i].lvl + 1 < w[i].h)
  PROVE  /\ Alone(i) /\ done' = done \cup {Key(i)} /\ w[i].h = w[i].lvl + 1
         /\ w'[i].batch = Tail(w[i].batch)
         /\ w'[i].pc \in {"unref", "splice"} /\ (w'[i].pc = "unref" <=> Len(w[i].batch) = 1)
         /\ \/ w'[i].insH = 0 /\ w'[i].spl = w[i].spl
            \/ /\ w'[i].insH = w[i].insH
               /\ \A m \in Levels : IF m < w[i].h THEN w'[i].spl[m].p = Key(i) /\ w'[i].spl[m].n = w[i].spl[m].n
                                    ELSE w'[i].spl[m] = w[i].spl[m]
<1> DEFINE x == w[i]
           k == Key(i)
           spl == IF ForgetSplice(x) THEN x.spl
                  ELSE [m \in Levels |-> IF m < x.h THEN [x.spl[m] EXCEPT !.p = k] ELSE x.spl[m]]
           insH == IF ForgetSplice(x) THEN 0 ELSE x.insH
           y == [x EXCEPT !.pc = IF Len(x.batch) = 1 THEN "unref" ELSE "splice",
                          !.batch = Tail(@), !.h = 0, !.lvl = 0, !.p = nil, !.n = nil, !.np = nil,
                          !.bad = FALSE, !.insH = insH, !.spl = spl]
<1>1. x.pc = "back" /\ x.pc \in Linking /\ x \in Writer
  BY DEF Back, Linking, TypeInv
<1>2. k \in Nodes /\ k \in Offsets /\ x.batch \in Seq(Nodes) /\ x.batch # <<>>
  BY <1>1, KeyFact, SizeFact DEF Writer, Batches, Nodes, Offsets, Linking
<1>3. x.h = x.lvl + 1
  <2>1. x.lvl \in 0..(MaxHeight - 1) /\ x.h \in 1..MaxHeight /\ x.lvl + 1 <= x.h
    BY <1>1, LinkLevel DEF Levels
  <2> QED BY <2>1, SizeFact
<1>4. done' = done \cup {k} /\ w' = [w EXCEPT ![i] = y]
  BY DEF Back
<1>5. nil \in Offsets /\ 0 \in Heights
  BY SizeFact DEF nil, Offsets, Heights
<1>6. spl \in [Levels -> Pairs]
  BY <1>1, <1>2 DEF Writer, Pairs
<1>7. insH \in Heights
  BY <1>1, <1>5 DEF Writer
<1>8. Tail(x.batch) \in Batches
  BY <1>2 DEF Batches
<1>9. \/ insH = 0 /\ spl = x.spl
      \/ /\ insH = x.insH
         /\ \A m \in Levels : IF m < x.h THEN spl[m].p = k /\ spl[m].n = x.spl[m].n
                              ELSE spl[m] = x.spl[m]
  <2>1. CASE ForgetSplice(x)
    BY <2>1
  <2>2. CASE ~ForgetSplice(x)
    <3>1. \A m \in Levels : x.spl[m] \in Pairs
      BY <1>1 DEF Writer
    <3>2. spl = [m \in Levels |-> IF m < x.h THEN [x.spl[m] EXCEPT !.p = k] ELSE x.spl[m]]
      BY <2>2, Zenon
    <3>3. insH = x.insH
      BY <2>2, Zenon
    <3>4. \A m \in Levels : IF m < x.h THEN spl[m].p = k /\ spl[m].n = x.spl[m].n
                            ELSE spl[m] = x.spl[m]
      <4> HIDE DEF spl, k
      <4> QED BY <3>1, <3>2 DEF Pairs
    <3> QED BY <3>3, <3>4
  <2> QED BY <2>1, <2>2
<1> HIDE DEF spl, insH, k
<1>10. y \in Writer
  BY <1>1, <1>5, <1>6, <1>7, <1>8 DEF Writer, Pcs
<1>11. /\ y.pc = (IF Len(x.batch) = 1 THEN "unref" ELSE "splice") /\ y.batch = Tail(x.batch)
       /\ y.insH = insH /\ y.spl = spl
  BY <1>1 DEF Writer
<1> HIDE DEF y
<1>12. Alone(i) /\ w'[i] = y
  BY <1>4, <1>10 DEF Alone, TypeInv
<1> QED BY <1>3, <1>4, <1>9, <1>11, <1>12 DEF k

\* writerUnref: the inserter is gone.
LEMMA UnrefDoes ==
  ASSUME TypeInv, NEW i \in Writers, Unref(i)
  PROVE  Alone(i) /\ w[i].pc = "unref" /\ w'[i] = Idle /\ w'[i].pc = "idle" /\ w'[i].batch = <<>>
         /\ w'[i].insH = 0
<1>1. w[i].pc = "unref" /\ w' = [w EXCEPT ![i] = Idle]
  BY DEF Unref
<1>2. nil \in Offsets /\ 0 \in Heights /\ NoSplice \in Pairs
  BY SizeFact DEF NoSplice, Pairs, Offsets, Heights, nil
<1>3. [l \in Levels |-> NoSplice] \in [Levels -> Pairs]
  BY <1>2
<1>4. Idle \in Writer /\ Idle.pc = "idle" /\ Idle.batch = <<>> /\ Idle.insH = 0
  BY <1>2, <1>3 DEF Idle, Writer, Pcs, Batches
<1> QED BY <1>1, <1>4 DEF Alone, TypeInv
-----------------------------------------------------------------------------
(***************************************************************************)
(* What a step does to the levels.                                         *)
(***************************************************************************)

\* The number of entries that wait for their node, and room for the next of them
\* (Arena.alloc).
LEMMA RoomFact ==
  ASSUME TypeInv, BatchInv, RoomInv, NEW i \in Writers, w[i].pc = "search"
  PROVE  size + MaxNodeSize <= Capacity
<1>1. Key(i) \in Nodes /\ Key(i) = w[i].batch[1] /\ 1 \in DOMAIN w[i].batch
  BY KeyFact
<1>2. tower[Key(i)] = 0
  BY <1>1 DEF BatchInv, Linking
<1>3. Key(i) \in Pending
  BY <1>1, <1>2 DEF Pending, Range
<1>4. IsFiniteSet(Pending)
  <2>1. IsFiniteSet(1..K)
    BY SizeFact, FS_Interval
  <2> QED BY <2>1, FS_Subset DEF Pending, Nodes
<1>5. Cardinality(Pending) \in Nat /\ Cardinality(Pending) # 0
  BY <1>3, <1>4, FS_CardinalityType, FS_EmptySet
<1> DEFINE c == Cardinality(Pending)
           d == c - 1
<1>6. d \in Nat /\ c = d + 1 /\ MaxNodeSize \in Nat /\ size \in Nat /\ reserved \in Nat
  BY <1>5, SizeFact DEF MaxNodeSize, TypeInv
<1>7. size + MaxNodeSize * c <= Capacity
  BY <1>5, <1>6, SizeFact DEF RoomInv, Reserved
<1> HIDE DEF c, d
<1>8. MaxNodeSize * c = MaxNodeSize * d + MaxNodeSize /\ MaxNodeSize * d \in Nat
  BY <1>6
<1> QED BY <1>6, <1>7, <1>8, SizeFact

\* Only a successful casNextOffset changes a level.
LEMMA SameLevels ==
  ASSUME IInv, Next, \A i \in Writers : ~(Link(i) /\ CanLink(i))
  PROVE  \A l \in Levels : On(l)' = On(l) /\ \A n \in On(l) : next'[l][n] = next[l][n]
<1>0. TypeInv /\ BatchInv /\ LevelInv /\ SpliceInv
  BY DEF IInv
<1>1. CASE UNCHANGED next
  BY <1>1, OnChain
<1>2. ASSUME NEW i \in Writers, Load(i)
      PROVE  \A l \in Levels : On(l)' = On(l) /\ \A n \in On(l) : next'[l][n] = next[l][n]
  <2>1. /\ next' \in Links
        /\ \A l \in Levels, m \in 0..(K + 1) : l # w[i].lvl \/ m # Key(i) => next'[l][m] = next[l][m]
    BY <1>0, <1>2, LoadDoes
  <2>2. w[i].pc \in Linking /\ w[i].pc # "back"
    BY <1>2 DEF Load, Linking
  <2>3. Key(i) \notin On(w[i].lvl)
    BY <1>0, <2>2, PlaceFact
  <2> SUFFICES ASSUME NEW l \in Levels
               PROVE  On(l)' = On(l) /\ \A n \in On(l) : next'[l][n] = next[l][n]
    OBVIOUS
  <2>4. On(l) \subseteq 0..K /\ next[l] \in LevelLinks /\ next'[l] \in LevelLinks
    BY <1>0, <2>1, OnFacts DEF Links, LevelLinks
  <2>5. \A n \in 0..K : n \in 0..(K + 1)
    BY SizeFact
  <2>6. \A n \in On(l) : next'[l][n] = next[l][n]
    BY <2>1, <2>3, <2>4, <2>5
  <2>7. On(l) = Chain(next[l]) /\ On(l)' = Chain(next'[l])
    BY OnChain
  <2>8. Chain(next'[l]) = Chain(next[l])
    BY <2>4, <2>6, <2>7, ChainSame
  <2> QED BY <2>6, <2>7, <2>8
<1>3. ASSUME NEW i \in Writers, Link(i) PROVE UNCHANGED next
  BY <1>3 DEF Link
<1>4. UNCHANGED next \/ \E i \in Writers : Load(i)
  BY <1>3 DEF Next, Prepare, Splice, Search, NewNode, Check, Help, Back, Unref, Seek, SeekLevel,
              Return, IterNext, list
<1> QED BY <1>1, <1>2, <1>4
\* A level never loses a node, and a node's successor only comes closer.
LEMMA Grow ==
  ASSUME IInv, Next, NEW l \in Levels
  PROVE  /\ On(l) \subseteq On(l)' /\ On(l)' \subseteq 0..K
         /\ \A n \in On(l) : next'[l][n] <= next[l][n]
<1>0. TypeInv /\ BatchInv /\ LevelInv /\ SpliceInv /\ HelpInv
  BY DEF IInv
<1>1. On(l) \subseteq 0..K /\ \A n \in On(l) : next[l][n] \in Nat
  BY <1>0, OnFacts, SizeFact DEF Offsets
<1>2. CASE \A i \in Writers : ~(Link(i) /\ CanLink(i))
  <2>1. On(l)' = On(l) /\ \A n \in On(l) : next'[l][n] = next[l][n]
    BY <1>2, SameLevels
  <2> QED BY <1>1, <2>1
<1>3. ASSUME NEW i \in Writers, Link(i), CanLink(i)
      PROVE  /\ On(l) \subseteq On(l)' /\ On(l)' \subseteq 0..K
             /\ \A n \in On(l) : next'[l][n] <= next[l][n]
  <2>1. w[i].pc = "link" /\ w[i].pc \in Linking
    BY <1>3 DEF Link, Linking
  <2>2. PICK m \in Levels : m = w[i].lvl
    BY <1>0, <2>1, PlaceFact
  <2>3. /\ Key(i) \in 0..K /\ Key(i) < w[i].n /\ w[i].p \in 0..K
    BY <1>0, <2>1, PlaceFact
  <2>4. /\ next[m][w[i].p] = w[i].n /\ next'[m][w[i].p] = Key(i)
        /\ \A j \in Levels, x \in 0..(K + 1) : j # m \/ x # w[i].p => next'[j][x] = next[j][x]
        /\ On(m)' = On(m) \cup {Key(i)} /\ \A j \in Levels : j # m => On(j)' = On(j)
    BY <1>0, <1>3, <2>2, LinkDoes
  <2>5. On(l) \subseteq On(l)' /\ On(l)' \subseteq 0..K
    BY <1>1, <2>3, <2>4
  <2>6. ASSUME NEW n \in On(l) PROVE next'[l][n] <= next[l][n]
    <3>1. CASE l = m /\ n = w[i].p
      <4>1. next[l][n] = w[i].n /\ next'[l][n] = Key(i)
        BY <2>4, <3>1
      <4>2. w[i].n \in Nat
        BY <1>1, <2>6, <4>1
      <4> QED BY <2>3, <4>1, <4>2
    <3>2. CASE ~(l = m /\ n = w[i].p)
      <4>1. n \in 0..(K + 1)
        BY <1>1, SizeFact
      <4>2. next'[l][n] = next[l][n]
        BY <2>4, <3>2, <4>1
      <4> QED BY <1>1, <4>2
    <3> QED BY <3>1, <3>2
  <2> QED BY <2>5, <2>6
<1> QED BY <1>2, <1>3

\* The user key of an entry, and where the search for it starts.
LEMMA SeekKeyFact ==
  ASSUME NEW n \in Nodes
  PROVE  LET u == UserKey(n) IN
         u \in Nat /\ u > 0 /\ SearchKey(u) \in Nat /\ SearchKey(u) > 0 /\ SearchKey(u) <= n
<1>1. n \in Nat /\ n >= 1
  BY DEF Nodes
<1> DEFINE u == (n + 1) \div 2
<1>2. u \in Nat /\ 2 * u <= n + 1 /\ n < 2 * u + 1
  BY <1>1
<1>3. u > 0 /\ 2 * u - 1 \in Nat /\ 2 * u - 1 > 0 /\ 2 * u - 1 <= n
  BY <1>1, <1>2
<1> QED BY <1>2, <1>3 DEF UserKey, SearchKey

\* What a lookup from k on is due.
LEMMA DueFact ==
  ASSUME done \subseteq Nodes, NEW k \in Nat, k <= tail
  PROVE  /\ Due(k) \in done \cup {tail} /\ k <= Due(k) /\ Due(k) \in 0..(K + 1)
         /\ \A n \in done : k <= n => Due(k) <= n
<1> DEFINE S == {n \in done : n >= k} \cup {tail}
<1>1. tail \in Nat /\ tail = K + 1 /\ Nodes \subseteq Nat /\ \A n \in Nodes : n <= K
  BY SizeFact DEF tail, Nodes
<1>2. S \subseteq Nat /\ S # {}
  BY <1>1
<1>3. Min(S) \in S /\ \A y \in S : Min(S) <= y
  <2> HIDE DEF S
  <2> QED BY <1>2, MinFact
<1>4. Due(k) = Min(S)
  BY DEF Due
<1> DEFINE d == Min(S)
<1>5. d \in done \cup {tail} /\ k <= d
  BY <1>1, <1>3
<1>7. \A n \in done : k <= n => n \in S
  BY <1>1
<1> HIDE DEF d, S
<1>6. d \in 0..(K + 1)
  BY <1>1, <1>5, SizeFact
<1> QED BY <1>3, <1>4, <1>5, <1>6, <1>7 DEF d

\* The next node of a lookup.
LEMMA SeekLevelDoes ==
  ASSUME TypeInv, LevelInv, ReadInv, SeekLevel
  PROVE  LET l == r.lvl - 1
             s == Walk(l, r.at, SearchKey(r.key)) IN
         /\ r.pc = "walk" /\ l \in Levels /\ l < r.lvl /\ r' \in Reader
         /\ SearchKey(r.key) \in Nat /\ SearchKey(r.key) <= K + 1
         /\ s.p \in On(l) /\ s.p < SearchKey(r.key) /\ s.n \in On(l) \cup {tail}
         /\ \A m \in On(l) \cup {tail} : SearchKey(r.key) <= m => s.n <= m
         /\ l > 0 => r'.pc = "walk" /\ r'.lvl = l /\ r'.at = s.p
         /\ l = 0 => r'.pc = "found" /\ r'.at = s.n
         /\ r'.key = r.key /\ r'.owed = r.owed
<1> DEFINE l == r.lvl - 1
           k == SearchKey(r.key)
           s == Walk(l, r.at, k)
<1>1. r.pc = "walk" /\ r \in Reader /\ r' = IF l > 0 THEN [r EXCEPT !.lvl = l, !.at = s.p]
                               ELSE [r EXCEPT !.lvl = 0, !.at = s.n, !.pc = "found"]
  BY DEF SeekLevel, TypeInv
<1>2. r.lvl > 0 /\ r.key > 0 /\ r.key \in Nat /\ r.lvl \in Nat /\ r.lvl <= MaxHeight /\ r.owed \in 0..(K + 1)
  BY <1>1, SizeFact DEF ReadInv, Reader, Heights
<1>3. l \in Levels /\ l \in Heights /\ 0 \in Heights /\ l < r.lvl
  BY <1>2, SizeFact DEF Levels, Heights
<1>4. r.at \in On(l) /\ r.at < k /\ k <= r.owed
  BY <1>1, <1>3 DEF ReadInv
<1>5. k \in Nat /\ k <= K + 1
  BY <1>2, <1>4, SizeFact DEF SearchKey
<1> HIDE DEF l, k
<1>6. /\ s.p \in On(l) /\ s.p < k /\ s.n \in On(l) \cup {tail}
      /\ \A m \in On(l) \cup {tail} : k <= m => s.n <= m
  BY <1>3, <1>4, <1>5, WalkFact
<1> HIDE DEF s
<1>7. s.p \in 0..(K + 1) /\ s.n \in 0..(K + 1)
  BY <1>3, <1>6, OnFacts, SizeFact DEF tail
<1>8. l \in Nat
  BY <1>3, SizeFact DEF Levels
<1>9. CASE l > 0
  <2>1. r' = [r EXCEPT !.lvl = l, !.at = s.p]
    BY <1>1, <1>9
  <2>2. r' \in Reader /\ r'.pc = "walk" /\ r'.lvl = l /\ r'.at = s.p /\ r'.key = r.key /\ r'.owed = r.owed
    BY <1>1, <1>3, <1>7, <2>1 DEF Reader
  <2>3. ~(l = 0)
    BY <1>8, <1>9
  <2> QED BY <1>1, <1>3, <1>5, <1>6, <2>2, <2>3 DEF l, k, s
<1>10. CASE l = 0
  <2>1. r' = [r EXCEPT !.lvl = 0, !.at = s.n, !.pc = "found"]
    BY <1>1, <1>10
  <2> QED BY <1>1, <1>3, <1>5, <1>6, <1>7, <1>10, <2>1 DEF Reader, l, k, s
<1> QED BY <1>8, <1>9, <1>10
-----------------------------------------------------------------------------
(***************************************************************************)
(* Every step keeps the invariant.                                         *)
(***************************************************************************)

\* The steps of a writer.
Writing(i) ==
  \/ Prepare(i) \/ Splice(i) \/ Search(i) \/ NewNode(i) \/ Load(i)
  \/ Check(i) \/ Help(i) \/ Link(i) \/ Back(i) \/ Unref(i)

\* A step of a writer touches its own inserter only.
LEMMA WriterStep ==
  ASSUME IInv, NEW i \in Writers, Writing(i)
  PROVE  Alone(i)
<1>0. TypeInv /\ BatchInv /\ LevelInv /\ SpliceInv /\ HelpInv /\ RoomInv
  BY DEF IInv
<1>1. CASE Prepare(i)
  BY <1>0, <1>1, PrepareDoes
<1>2. CASE Splice(i)
  BY <1>0, <1>2, SpliceDoes
<1>3. CASE Search(i)
  BY <1>0, <1>3, SearchDoes
<1>4. CASE NewNode(i)
  <2>1. size + MaxNodeSize <= Capacity
    BY <1>0, <1>4, RoomFact DEF NewNode
  <2> QED BY <1>0, <1>4, <2>1, NewNodeDoes
<1>5. CASE Load(i)
  BY <1>0, <1>5, LoadDoes
<1>6. CASE Check(i)
  BY <1>0, <1>6, CheckDoes
<1>7. CASE Help(i)
  BY <1>0, <1>7, HelpDoes
<1>8. CASE Link(i)
  <2>1. CASE CanLink(i)
    <3>1. w[i].pc \in Linking
      BY <1>8 DEF Link, Linking
    <3>2. PICK l \in Levels : l = w[i].lvl
      BY <1>0, <3>1, PlaceFact
    <3> QED BY <1>0, <1>8, <2>1, <3>2, LinkDoes
  <2>2. CASE ~CanLink(i)
    BY <1>0, <1>8, <2>2, RelinkDoes
  <2> QED BY <2>1, <2>2
<1>9. CASE Back(i)
  BY <1>0, <1>9, MoreDoes, LastDoes
<1>10. CASE Unref(i)
  BY <1>0, <1>10, UnrefDoes
<1> QED BY <1>1, <1>2, <1>3, <1>4, <1>5, <1>6, <1>7, <1>8, <1>9, <1>10 DEF Writing

\* What the steps leave alone.
LEMMA Leaves ==
  ASSUME NEW i \in Writers
  PROVE  /\ Prepare(i) => UNCHANGED <<next, prev, height, tower, size, done, r>> /\ refs' = refs + 1
         /\ Splice(i) \/ Search(i) \/ Check(i) =>
              UNCHANGED <<next, prev, height, tower, size, reserved, refs, done, r>>
         /\ NewNode(i) => UNCHANGED <<next, prev, reserved, refs, done, r>>
         /\ Load(i) => UNCHANGED <<height, tower, size, reserved, refs, done, r>>
         /\ Help(i) => UNCHANGED <<next, height, tower, size, reserved, refs, done, r>>
         /\ Link(i) => UNCHANGED <<prev, height, tower, size, reserved, refs, done, r>>
         /\ Back(i) => UNCHANGED <<next, height, tower, size, reserved, refs, r>>
         /\ Unref(i) => UNCHANGED <<next, prev, height, tower, size, reserved, done, r>> /\ refs' = refs - 1
<1>1. Prepare(i) => UNCHANGED <<next, prev, height, tower, size, done, r>> /\ refs' = refs + 1
  BY DEF Prepare, list
<1>2. Splice(i) => UNCHANGED <<next, prev, height, tower, size, reserved, refs, done, r>>
  BY DEF Splice, list
<1>3. Search(i) => UNCHANGED <<next, prev, height, tower, size, reserved, refs, done, r>>
  BY DEF Search, list
<1>4. Check(i) => UNCHANGED <<next, prev, height, tower, size, reserved, refs, done, r>>
  BY DEF Check, list
<1>5. NewNode(i) => UNCHANGED <<next, prev, reserved, refs, done, r>>
  BY DEF NewNode
<1>6. Load(i) => UNCHANGED <<height, tower, size, reserved, refs, done, r>>
  BY DEF Load
<1>7. Help(i) => UNCHANGED <<next, height, tower, size, reserved, refs, done, r>>
  BY DEF Help
<1>8. Link(i) => UNCHANGED <<prev, height, tower, size, reserved, refs, done, r>>
  BY DEF Link
<1>9. Back(i) => UNCHANGED <<next, height, tower, size, reserved, refs, r>>
  BY DEF Back
<1>10. Unref(i) => UNCHANGED <<next, prev, height, tower, size, reserved, done, r>> /\ refs' = refs - 1
  BY DEF Unref, list
<1> QED BY <1>1, <1>2, <1>3, <1>4, <1>5, <1>6, <1>7, <1>8, <1>9, <1>10

\* The steps of the reader.
Reading == Seek \/ SeekLevel \/ Return \/ IterNext

\* A reader changes nothing.
LEMMA ReadingLeaves ==
  Reading => UNCHANGED <<next, prev, height, tower, size, reserved, refs, w, done>>
BY DEF Reading, Seek, SeekLevel, Return, IterNext, list

\* A step is a writer's or the reader's.
LEMMA NextSplit == Next => Reading \/ \E i \in Writers : Writing(i)
BY DEF Next, Reading, Writing

\* newNode has room, for an entry that had no node.
LEMMA NodeDoes ==
  ASSUME IInv, NEW i \in Writers, NewNode(i)
  PROVE  \E h \in 1..MaxHeight :
           /\ Alone(i) /\ w[i].pc = "search" /\ w[i].lvl = 0 /\ w'[i].pc = "load" /\ w'[i].h = h
           /\ w'[i].lvl = 0 /\ w'[i].batch = w[i].batch /\ w'[i].spl = w[i].spl
           /\ w'[i].insH = w[i].insH /\ w'[i].p = Target(i, 0).p /\ w'[i].n = Target(i, 0).n
           /\ height' \in 1..MaxHeight /\ height <= height' /\ h <= height'
           /\ tower' = [tower EXCEPT ![Key(i)] = h] /\ size' = size + 1 + h
           /\ Key(i) \in Nodes /\ tower[Key(i)] = 0 /\ tower' \in [Nodes -> Heights]
           /\ tower'[Key(i)] = h /\ \A n \in Nodes : n # Key(i) => tower'[n] = tower[n]
<1>0. TypeInv /\ BatchInv /\ SpliceInv /\ RoomInv
  BY DEF IInv
<1>1. w[i].pc = "search"
  BY DEF NewNode
<1>2. size + MaxNodeSize <= Capacity
  BY <1>0, <1>1, RoomFact
<1>3. PICK h \in 1..MaxHeight :
           /\ Alone(i) /\ w[i].pc = "search" /\ w[i].lvl = 0 /\ w'[i].pc = "load" /\ w'[i].h = h
           /\ w'[i].lvl = 0 /\ w'[i].batch = w[i].batch /\ w'[i].spl = w[i].spl
           /\ w'[i].insH = w[i].insH /\ w'[i].p = Target(i, 0).p /\ w'[i].n = Target(i, 0).n
           /\ height' \in 1..MaxHeight /\ height <= height' /\ h <= height'
           /\ tower' = [tower EXCEPT ![Key(i)] = h] /\ size' = size + 1 + h
  BY <1>0, <1>2, NewNodeDoes
<1>4. Key(i) \in Nodes /\ Key(i) = w[i].batch[1] /\ 1 \in DOMAIN w[i].batch
  BY <1>0, <1>1, KeyFact
<1>5. tower[Key(i)] = 0
  BY <1>0, <1>1, <1>4 DEF BatchInv, Linking
<1>6. h \in Heights /\ tower \in [Nodes -> Heights]
  BY <1>0, SizeFact DEF Heights, TypeInv
<1>7. /\ tower' \in [Nodes -> Heights]
      /\ tower'[Key(i)] = h /\ \A n \in Nodes : n # Key(i) => tower'[n] = tower[n]
  BY <1>3, <1>4, <1>6
<1> QED BY <1>3, <1>4, <1>5, <1>7

\* The list only gets higher, and a tower is set once.
LEMMA HeightStep ==
  ASSUME IInv, Next
  PROVE  /\ height' \in 1..MaxHeight /\ height <= height' /\ tower' \in [Nodes -> Heights]
         /\ \A n \in Nodes : tower[n] > 0 => tower'[n] = tower[n]
<1>0. TypeInv
  BY DEF IInv
<1>1. CASE UNCHANGED <<height, tower>>
  BY <1>0, <1>1, SizeFact DEF TypeInv
<1>2. ASSUME NEW i \in Writers, NewNode(i)
      PROVE  /\ height' \in 1..MaxHeight /\ height <= height' /\ tower' \in [Nodes -> Heights]
             /\ \A n \in Nodes : tower[n] > 0 => tower'[n] = tower[n]
  BY <1>2, NodeDoes
<1>3. UNCHANGED <<height, tower>> \/ \E i \in Writers : NewNode(i)
  BY NextSplit, ReadingLeaves, Leaves DEF Writing
<1> QED BY <1>1, <1>2, <1>3

\* Links stay links.
LEMMA LinksStep == ASSUME IInv, Next PROVE next' \in Links /\ prev' \in Links
<1>0. TypeInv /\ BatchInv /\ LevelInv /\ SpliceInv /\ HelpInv
  BY DEF IInv
<1>1. CASE UNCHANGED <<next, prev>>
  BY <1>0, <1>1 DEF TypeInv
<1>2. ASSUME NEW i \in Writers, Load(i) PROVE next' \in Links /\ prev' \in Links
  BY <1>0, <1>2, LoadDoes
<1>3. ASSUME NEW i \in Writers, Help(i) PROVE next' \in Links /\ prev' \in Links
  <2>1. prev' \in Links
    BY <1>0, <1>3, HelpDoes
  <2> QED BY <1>0, <1>3, <2>1 DEF Help, TypeInv
<1>4. ASSUME NEW i \in Writers, Link(i) PROVE next' \in Links /\ prev' \in Links
  <2>1. prev' \in Links
    BY <1>0, <1>4 DEF Link, TypeInv
  <2>2. CASE CanLink(i)
    <3>1. w[i].pc \in Linking
      BY <1>4 DEF Link, Linking
    <3>2. PICK l \in Levels : l = w[i].lvl
      BY <1>0, <3>1, PlaceFact
    <3> QED BY <1>0, <1>4, <2>1, <2>2, <3>2, LinkDoes
  <2>3. CASE ~CanLink(i)
    BY <1>0, <1>4, <2>1, <2>3, RelinkDoes DEF TypeInv
  <2> QED BY <2>2, <2>3
<1>5. ASSUME NEW i \in Writers, Back(i) PROVE next' \in Links /\ prev' \in Links
  <2>1. prev' \in Links
    BY <1>0, <1>5, BackLink
  <2> QED BY <1>0, <1>5, <2>1 DEF Back, TypeInv
<1>6. \/ UNCHANGED <<next, prev>>
      \/ \E i \in Writers : Load(i) \/ Help(i) \/ Link(i) \/ Back(i)
  BY DEF Next, Prepare, Splice, Search, NewNode, Check, Unref, Seek, SeekLevel,
         Return, IterNext, list
<1> QED BY <1>1, <1>2, <1>3, <1>4, <1>5, <1>6
\* The nodes already being linked stay so within a level.
LEMMA LinkingDoes ==
  ASSUME IInv, NEW i \in Writers,
         \/ Load(i) \/ Check(i) \/ Help(i) \/ Link(i) \/ (Back(i) /\ w[i].lvl + 1 < w[i].h)
  PROVE  /\ w[i].pc \in Linking /\ w'[i].pc \in Linking /\ w'[i].batch = w[i].batch
         /\ w'[i].h = w[i].h /\ w'[i].lvl < w[i].h
<1>0. TypeInv /\ BatchInv /\ LevelInv /\ SpliceInv /\ HelpInv
  BY DEF IInv
<1>1. w[i].pc \in Linking
  BY DEF Load, Check, Help, Link, Back, Linking
<1>2. w[i].lvl < w[i].h
  BY <1>0, <1>1 DEF BatchInv
<1>3. CASE Load(i)
  BY <1>0, <1>1, <1>2, <1>3, LoadDoes DEF Keeps, Linking
<1>4. CASE Check(i)
  BY <1>0, <1>1, <1>2, <1>4, CheckDoes DEF Keeps, Linking
<1>5. CASE Help(i)
  BY <1>0, <1>1, <1>2, <1>5, HelpDoes DEF Keeps, Linking
<1>6. CASE Link(i)
  <2>1. PICK l \in Levels : l = w[i].lvl
    BY <1>0, <1>1, PlaceFact
  <2> QED BY <1>0, <1>1, <1>2, <1>6, <2>1, LinkDoes, RelinkDoes DEF Keeps, Linking
<1>7. CASE Back(i) /\ w[i].lvl + 1 < w[i].h
  BY <1>0, <1>1, <1>7, MoreDoes DEF Linking
<1> QED BY <1>3, <1>4, <1>5, <1>6, <1>7

\* A writer that goes on with its batch.
LEMMA SameBatch ==
  ASSUME IInv, NEW i \in Writers, Alone(i), UNCHANGED <<tower, height>>, w'[i].batch = w[i].batch,
         \/ w[i].pc \in {"splice", "search"} /\ w'[i].pc \in {"splice", "search"}
         \/ /\ w[i].pc \in Linking /\ w'[i].pc \in Linking
            /\ w'[i].h = w[i].h /\ w'[i].lvl < w[i].h
  PROVE  BatchInv'
<1>0. BatchInv
  BY DEF IInv
<1>1. \A j \in Writers : w'[j].batch = w[j].batch /\ Key(j)' = Key(j)
  BY DEF Alone, Key
<1>2. \A j \in Writers : j # i => w'[j] = w[j]
  BY DEF Alone
<1>3. /\ w[i].pc \in Linking <=> w'[i].pc \in Linking
      /\ w[i].pc \in {"idle", "unref"} <=> w'[i].pc \in {"idle", "unref"}
      /\ w'[i].pc \in Linking => w'[i].h = w[i].h /\ w'[i].lvl < w'[i].h
  BY DEF Linking
<1> QED BY <1>0, <1>1, <1>2, <1>3 DEF BatchInv

\* Add returns: the rest of the batch.
LEMMA LastBatch ==
  ASSUME IInv, NEW i \in Writers, Back(i), ~(w[i].lvl + 1 < w[i].h)
  PROVE  /\ w'[i].batch \in Seq(Nodes) /\ (w'[i].batch = <<>> <=> w'[i].pc = "unref")
         /\ \A a \in DOMAIN w'[i].batch :
              a + 1 \in DOMAIN w[i].batch /\ w'[i].batch[a] = w[i].batch[a + 1] /\ a \in Nat /\ a > 0
<1>0. TypeInv /\ BatchInv /\ LevelInv /\ SpliceInv
  BY DEF IInv
<1>1. w[i].pc = "back"
  BY DEF Back
<1>2. w[i].batch # <<>> /\ w[i].batch \in Seq(Nodes)
  BY <1>0, <1>1 DEF BatchInv, TypeInv, Writer, Batches
<1>3. /\ w'[i].batch = Tail(w[i].batch) /\ w'[i].pc \in {"unref", "splice"}
      /\ (w'[i].pc = "unref" <=> Len(w[i].batch) = 1)
  BY <1>0, LastDoes
<1> DEFINE b == w[i].batch
<1> HIDE DEF b
<1>4. b \in Seq(Nodes) /\ b # <<>>
  BY <1>2 DEF b
<1>5. /\ Tail(b) \in Seq(Nodes) /\ (Tail(b) = <<>> <=> Len(b) = 1)
      /\ \A a \in DOMAIN Tail(b) : a + 1 \in DOMAIN b /\ Tail(b)[a] = b[a + 1] /\ a \in Nat /\ a > 0
  <2>1. Len(b) \in Nat /\ Len(b) > 0 /\ DOMAIN b = 1..Len(b)
    BY <1>4
  <2>2. Tail(b) \in Seq(Nodes) /\ Len(Tail(b)) = Len(b) - 1 /\ DOMAIN Tail(b) = 1..(Len(b) - 1)
    BY <1>4, <2>1
  <2>3. \A a \in 1..(Len(b) - 1) : Tail(b)[a] = b[a + 1]
    BY <1>4, <2>1
  <2>4. Tail(b) = <<>> <=> Len(Tail(b)) = 0
    <3>1. \A s \in Seq(Nodes) : s = <<>> <=> Len(s) = 0
      OBVIOUS
    <3> QED BY <2>2, <3>1, Zenon
  <2>5. \A a \in 1..(Len(b) - 1) : a + 1 \in 1..Len(b) /\ a \in Nat /\ a > 0
    BY <2>1
  <2>6. Tail(b) = <<>> <=> Len(b) = 1
    BY <2>1, <2>2, <2>4
  <2> QED BY <2>1, <2>2, <2>3, <2>5, <2>6
<1> QED BY <1>3, <1>5 DEF b

\* BatchInv is kept.
LEMMA BatchStep == ASSUME IInv, Next PROVE BatchInv'
<1>0. TypeInv /\ BatchInv /\ LevelInv /\ SpliceInv /\ HelpInv
  BY DEF IInv
<1>1. CASE Reading
  BY <1>0, <1>1, ReadingLeaves DEF BatchInv, Key
<1>2. ASSUME NEW i \in Writers, Splice(i) \/ Search(i) PROVE BatchInv'
  <2>1. CASE Splice(i)
    BY <1>0, <2>1, SpliceDoes, SameBatch, Leaves
  <2>2. CASE Search(i)
    BY <1>0, <2>2, SearchDoes, SameBatch, Leaves
  <2> QED BY <1>2, <2>1, <2>2
<1>3. ASSUME NEW i \in Writers,
             \/ Load(i) \/ Check(i) \/ Help(i) \/ Link(i) \/ (Back(i) /\ w[i].lvl + 1 < w[i].h)
      PROVE  BatchInv'
  <2>1. Alone(i) /\ UNCHANGED <<tower, height>>
    BY <1>3, WriterStep, Leaves DEF Writing
  <2> QED BY <1>3, <2>1, LinkingDoes, SameBatch
<1>4. ASSUME NEW i \in Writers, NewNode(i) PROVE BatchInv'
  <2>1. PICK h \in 1..MaxHeight :
           /\ Alone(i) /\ w[i].pc = "search" /\ w'[i].pc = "load" /\ w'[i].h = h
           /\ w'[i].lvl = 0 /\ w'[i].batch = w[i].batch
           /\ height <= height' /\ h <= height' /\ height' \in 1..MaxHeight
           /\ Key(i) \in Nodes /\ tower'[Key(i)] = h
           /\ \A n \in Nodes : n # Key(i) => tower'[n] = tower[n]
    BY <1>4, NodeDoes
  <2>2. \A j \in Writers : w'[j].batch = w[j].batch /\ Key(j)' = Key(j) /\ (j # i => w'[j] = w[j])
    BY <2>1 DEF Alone, Key
  <2>3. Key(i) = w[i].batch[1] /\ 1 \in DOMAIN w[i].batch
    BY <1>0, <2>1, KeyFact
  <2>4. \A j \in Writers : w[j].batch \in Seq(Nodes)
    BY <1>0 DEF TypeInv, Writer, Batches
  <2>5. ASSUME NEW j \in Writers, NEW a \in DOMAIN w[j].batch, j # i \/ a # 1
        PROVE  tower'[w[j].batch[a]] = tower[w[j].batch[a]]
    <3>1. w[j].batch[a] \in Nodes
      BY <2>4
    <3>2. w[j].batch[a] # Key(i)
      BY <1>0, <2>3, <2>5 DEF BatchInv
    <3> QED BY <2>1, <3>1, <3>2
  <2>6. ASSUME NEW j \in Writers
        PROVE  /\ w'[j].pc \in {"idle", "unref"} <=> w'[j].batch = <<>>
               /\ \A a, b \in DOMAIN w'[j].batch : w'[j].batch[a] = w'[j].batch[b] => a = b
               /\ \A k \in Writers : j # k =>
                    \A a \in DOMAIN w'[j].batch, b \in DOMAIN w'[k].batch : w'[j].batch[a] # w'[k].batch[b]
    <3>1. w'[j].pc \in {"idle", "unref"} <=> w[j].pc \in {"idle", "unref"}
      BY <2>1, <2>2
    <3> QED BY <1>0, <2>2, <3>1 DEF BatchInv
  <2>7. ASSUME NEW j \in Writers, NEW a \in DOMAIN w'[j].batch, ~(a = 1 /\ w'[j].pc \in Linking)
        PROVE  tower'[w'[j].batch[a]] = 0
    <3>1. j # i \/ a # 1
      BY <2>1, <2>7 DEF Linking
    <3>2. tower'[w[j].batch[a]] = tower[w[j].batch[a]]
      BY <2>2, <2>5, <2>7, <3>1
    <3>3. ~(a = 1 /\ w[j].pc \in Linking)
      BY <2>1, <2>2, <2>7 DEF Linking
    <3>4. tower[w[j].batch[a]] = 0
      BY <1>0, <2>2, <2>7, <3>3 DEF BatchInv
    <3> QED BY <2>2, <3>2, <3>4
  <2>8. ASSUME NEW j \in Writers, w'[j].pc \in Linking
        PROVE  tower'[Key(j)'] = w'[j].h /\ w'[j].lvl < w'[j].h /\ w'[j].h <= height'
    <3>1. CASE j = i
      BY <2>1, <2>2, <3>1, SizeFact
    <3>2. CASE j # i
      <4>1. w'[j] = w[j] /\ w[j].pc \notin {"idle", "unref"} /\ w[j].pc \in Linking
        BY <2>2, <2>8, <3>2 DEF Linking
      <4>2. Key(j) = w[j].batch[1] /\ 1 \in DOMAIN w[j].batch
        BY <1>0, <4>1, KeyFact
      <4>3. tower'[Key(j)] = tower[Key(j)]
        BY <2>5, <3>2, <4>2
      <4>4. tower[Key(j)] = w[j].h /\ w[j].lvl < w[j].h /\ w[j].h <= height
        BY <1>0, <4>1 DEF BatchInv
      <4>5. w[j].h \in Nat /\ height \in Nat /\ height' \in Nat
        BY <1>0, <2>1, SizeFact DEF TypeInv, Writer, Heights
      <4> QED BY <2>1, <2>2, <4>1, <4>3, <4>4, <4>5
    <3> QED BY <3>1, <3>2
  <2> QED BY <2>6, <2>7, <2>8 DEF BatchInv
<1>5. ASSUME NEW i \in Writers, Back(i), ~(w[i].lvl + 1 < w[i].h) PROVE BatchInv'
  <2>1. Alone(i) /\ w'[i].pc \in {"unref", "splice"} /\ w[i].pc = "back"
    BY <1>0, <1>5, LastDoes DEF Back
  <2>2. /\ w'[i].batch = <<>> <=> w'[i].pc = "unref"
        /\ \A a \in DOMAIN w'[i].batch :
              a + 1 \in DOMAIN w[i].batch /\ w'[i].batch[a] = w[i].batch[a + 1] /\ a \in Nat /\ a > 0
    BY <1>5, LastBatch
  <2>3. \A j \in Writers : j # i => w'[j] = w[j] /\ Key(j)' = Key(j)
    BY <2>1 DEF Alone, Key
  <2>4. UNCHANGED <<tower, height>>
    BY <1>5, Leaves
  <2>5. w'[i].pc \in {"idle", "unref"} <=> w'[i].batch = <<>>
    BY <2>1, <2>2
  <2>6. ASSUME NEW a \in DOMAIN w'[i].batch, NEW b \in DOMAIN w'[i].batch,
               w'[i].batch[a] = w'[i].batch[b]
        PROVE  a = b
    <3>1. a + 1 = b + 1
      BY <1>0, <2>2, <2>6 DEF BatchInv
    <3> QED BY <2>2, <3>1
  <2>7. ASSUME NEW j \in Writers, j # i, NEW a \in DOMAIN w'[i].batch, NEW b \in DOMAIN w'[j].batch
        PROVE  w'[i].batch[a] # w'[j].batch[b]
    BY <1>0, <2>2, <2>3, <2>7 DEF BatchInv
  <2>8. ASSUME NEW a \in DOMAIN w'[i].batch PROVE tower'[w'[i].batch[a]] = 0
    <3>1. a + 1 \in DOMAIN w[i].batch /\ w'[i].batch[a] = w[i].batch[a + 1] /\ ~(a + 1 = 1)
      BY <2>2
    <3> QED BY <1>0, <2>4, <3>1 DEF BatchInv
  <2>9. w'[i].pc \notin Linking
    BY <2>1 DEF Linking
  <2> QED BY <1>0, <2>3, <2>4, <2>5, <2>6, <2>7, <2>8, <2>9 DEF BatchInv
<1>6. ASSUME NEW i \in Writers, Unref(i) PROVE BatchInv'
  <2>1. Alone(i) /\ w'[i].pc = "idle" /\ w'[i].batch = <<>> /\ UNCHANGED <<tower, height>>
    BY <1>0, <1>6, UnrefDoes, Leaves
  <2>2. \A j \in Writers : j # i => w'[j] = w[j] /\ Key(j)' = Key(j)
    BY <2>1 DEF Alone, Key
  <2>3. DOMAIN w'[i].batch = {} /\ w'[i].pc \notin Linking
    BY <2>1 DEF Linking
  <2> QED BY <1>0, <2>1, <2>2, <2>3 DEF BatchInv
<1>7. ASSUME NEW i \in Writers, Prepare(i) PROVE BatchInv'
  <2>1. PICK b \in Batches :
           /\ b # <<>> /\ \A x, y \in DOMAIN b : b[x] = b[y] => x = y
           /\ \A x \in DOMAIN b : b[x] \notin Taken
           /\ Alone(i) /\ w'[i].pc = "splice" /\ w'[i].batch = b
    BY <1>0, <1>7, PrepareDoes
  <2>2. UNCHANGED <<tower, height>>
    BY <1>7, Leaves
  <2>3. \A j \in Writers : j # i => w'[j] = w[j] /\ Key(j)' = Key(j)
    BY <2>1 DEF Alone, Key
  <2>4. b \in Seq(Nodes)
    BY DEF Batches
  <2>5. ASSUME NEW x \in DOMAIN b PROVE tower[b[x]] = 0
    <3>1. b[x] \in Nodes /\ ~(tower[b[x]] > 0)
      BY <2>1, <2>4, <2>5 DEF Taken
    <3>2. tower[b[x]] \in Nat
      BY <1>0, <3>1, SizeFact DEF TypeInv, Heights
    <3> QED BY <3>1, <3>2
  <2>6. ASSUME NEW x \in DOMAIN b, NEW j \in Writers, NEW y \in DOMAIN w[j].batch PROVE b[x] # w[j].batch[y]
    BY <2>1, <2>6 DEF Taken, ToSet
  <2>7. w'[i].pc \notin Linking /\ w'[i].pc \notin {"idle", "unref"}
    BY <2>1 DEF Linking
  <2> QED BY <1>0, <2>1, <2>2, <2>3, <2>5, <2>6, <2>7 DEF BatchInv
<1> QED BY <1>1, <1>2, <1>3, <1>4, <1>5, <1>6, <1>7, NextSplit DEF Writing
\* A node of a level, and one that has no tower yet.
LEMMA OnNode ==
  ASSUME TypeInv, LevelInv, NEW l \in Levels, NEW n \in On(l), n # head
  PROVE  n \in Nodes /\ tower[n] > 0 /\ tower[n] # 0
<1>1. n \in 0..K /\ n # 0
  BY OnFacts DEF head
<1>2. n \in Nodes
  BY <1>1, SizeFact DEF Nodes
<1>3. tower[n] > 0
  BY DEF LevelInv
<1> QED BY <1>2, <1>3

\* LevelInv is kept by the steps that link nothing: only the writer moves on.
LEMMA LevelStay ==
  ASSUME IInv, Next, \A i \in Writers : ~(Link(i) /\ CanLink(i))
  PROVE  LevelInv'
<1>0. TypeInv /\ BatchInv /\ LevelInv /\ SpliceInv /\ HelpInv
  BY DEF IInv
<1>1. \A l \in Levels : On(l)' = On(l) /\ \A n \in On(l) : next'[l][n] = next[l][n]
  BY SameLevels
<1>2. \A n \in Nodes : tower[n] > 0 => tower'[n] = tower[n]
  BY HeightStep
<1>3. ASSUME NEW l \in Levels, NEW n \in On(l)'
      PROVE  /\ n < next'[l][n] /\ next'[l][n] \in On(l)' \cup {tail}
             /\ \A m \in On(l)' : n < m => next'[l][n] <= m
             /\ n # head => tower'[n] > 0
             /\ \A k \in Levels : k < l => n \in On(k)'
  <2>1. n \in On(l) /\ next'[l][n] = next[l][n]
    BY <1>1, <1>3
  <2>2. n # head => tower'[n] > 0
    BY <1>0, <1>2, <2>1, OnNode
  <2> QED BY <1>0, <1>1, <2>1, <2>2 DEF LevelInv
<1>4. ASSUME NEW n \in done' PROVE tower'[n] > 0 /\ \A l \in Levels : l < tower'[n] => n \in On(l)'
  <2>1. CASE n \in done
    <3>1. n \in Nodes /\ tower[n] > 0
      BY <1>0, <2>1 DEF TypeInv, LevelInv
    <3>2. tower'[n] = tower[n]
      BY <1>2, <3>1
    <3> QED BY <1>0, <1>1, <2>1, <3>1, <3>2 DEF LevelInv
  <2>2. CASE n \notin done
    <3>1. done' # done
      BY <1>4, <2>2
    <3>2. PICK i \in Writers : Back(i)
      BY <3>1, NextSplit, ReadingLeaves, Leaves DEF Writing
    <3>3. ~(w[i].lvl + 1 < w[i].h)
      BY <1>0, <3>1, <3>2, MoreDoes
    <3>4. done' = done \cup {Key(i)} /\ w[i].h = w[i].lvl + 1
      BY <1>0, <3>2, <3>3, LastDoes
    <3>5. w[i].pc = "back" /\ w[i].pc \in Linking /\ UNCHANGED tower
      BY <3>2, Leaves DEF Back, Linking
    <3>6. tower[Key(i)] = w[i].h
      BY <1>0, <3>5 DEF BatchInv
    <3>7. n = Key(i)
      BY <1>4, <2>2, <3>4
    <3>8. w[i].lvl \in Nat /\ \A l \in Levels : l \in Nat
      BY <1>0, SizeFact DEF TypeInv, Writer, Heights, Levels
    <3>9. ASSUME NEW l \in Levels, l < tower'[n] PROVE n \in On(l)
      <4>1. l < w[i].lvl \/ l = w[i].lvl
        BY <3>4, <3>5, <3>6, <3>7, <3>8, <3>9
      <4> QED BY <1>0, <3>5, <3>7, <4>1 DEF LevelInv
    <3> QED BY <1>1, <3>4, <3>5, <3>6, <3>7, <3>8, <3>9
  <2> QED BY <2>1, <2>2
<1>5. ASSUME NEW j \in Writers, w'[j] = w[j], w'[j].pc \in Linking, NEW l \in Levels
      PROVE  Key(j)' \in On(l)' <=> l < w'[j].lvl \/ (l = w'[j].lvl /\ w'[j].pc = "back")
  <2>1. Key(j)' = Key(j)
    BY <1>5 DEF Key
  <2> QED BY <1>0, <1>1, <1>5, <2>1 DEF LevelInv
<1>6. ASSUME NEW i \in Writers, Writing(i), w'[i].pc \in Linking, NEW l \in Levels
      PROVE  Key(i)' \in On(l)' <=> l < w'[i].lvl \/ (l = w'[i].lvl /\ w'[i].pc = "back")
  <2>1. l \in Nat /\ w[i].lvl \in Nat
    BY <1>0, SizeFact DEF TypeInv, Writer, Heights, Levels
  <2>2. CASE NewNode(i)
    <3>1. w'[i].lvl = 0 /\ w'[i].pc = "load" /\ w'[i].batch = w[i].batch /\ Key(i) \in Nodes /\ tower[Key(i)] = 0
      BY <2>2, NodeDoes
    <3>2. Key(i)' = Key(i) /\ Key(i) # head
      BY <3>1, SizeFact DEF Key, Nodes, head
    <3>3. Key(i) \notin On(l)
      BY <1>0, <3>1, <3>2, OnNode
    <3> QED BY <1>1, <2>1, <3>1, <3>2, <3>3
  <2>3. CASE Load(i) \/ Check(i) \/ Help(i) \/ Link(i)
    <3>1. w[i].pc \in Linking /\ w[i].pc # "back" /\ w'[i].pc # "back" /\ Keeps(i)
      <4>1. CASE Load(i)
        BY <1>0, <4>1, LoadDoes DEF Linking
      <4>2. CASE Check(i)
        BY <1>0, <4>2, CheckDoes DEF Linking
      <4>3. CASE Help(i)
        BY <1>0, <4>3, HelpDoes DEF Linking
      <4>4. CASE Link(i)
        BY <1>0, <4>4, RelinkDoes DEF Linking
      <4> QED BY <2>3, <4>1, <4>2, <4>3, <4>4
    <3>2. Key(i)' = Key(i) /\ w'[i].lvl = w[i].lvl
      BY <3>1 DEF Key, Keeps
    <3> QED BY <1>0, <1>1, <3>1, <3>2 DEF LevelInv
  <2>4. CASE Back(i)
    <3>1. w[i].pc = "back" /\ w[i].pc \in Linking
      BY <2>4 DEF Back, Linking
    <3>2. w[i].lvl + 1 < w[i].h
      BY <1>0, <1>6, <2>4, LastDoes DEF Linking
    <3>3. w'[i].pc = "load" /\ w'[i].lvl = w[i].lvl + 1 /\ w'[i].batch = w[i].batch
      BY <1>0, <2>4, <3>2, MoreDoes
    <3>4. Key(i)' = Key(i)
      BY <3>3 DEF Key
    <3>5. Key(i) \in On(l) <=> l < w[i].lvl \/ l = w[i].lvl
      BY <1>0, <3>1 DEF LevelInv
    <3> QED BY <1>1, <2>1, <3>3, <3>4, <3>5
  <2>5. CASE Prepare(i) \/ Splice(i) \/ Search(i) \/ Unref(i)
    <3>1. w'[i].pc \in {"splice", "search", "idle"}
      BY <1>0, <2>5, PrepareDoes, SpliceDoes, SearchDoes, UnrefDoes
    <3> QED BY <1>6, <3>1 DEF Linking
  <2> QED BY <1>6, <2>2, <2>3, <2>4, <2>5 DEF Writing
<1>7. ASSUME NEW j \in Writers, w'[j].pc \in Linking, NEW l \in Levels
      PROVE  Key(j)' \in On(l)' <=> l < w'[j].lvl \/ (l = w'[j].lvl /\ w'[j].pc = "back")
  <2>1. w'[j] = w[j] \/ Writing(j)
    BY NextSplit, ReadingLeaves, WriterStep DEF Alone
  <2> QED BY <1>5, <1>6, <1>7, <2>1
<1> QED BY <1>3, <1>4, <1>7 DEF LevelInv

\* Neighbours are told apart by their successors.
LEMMA Neighbours ==
  ASSUME TypeInv, LevelInv, NEW l \in Levels, NEW p \in On(l), NEW q \in On(l), next[l][p] = next[l][q]
  PROVE  p = q
<1>1. p \in Nat /\ q \in Nat /\ next[l][p] \in Nat
  BY OnFacts, SizeFact DEF Offsets
<1>2. p < next[l][p] /\ q < next[l][q] /\ (p < q => next[l][p] <= q) /\ (q < p => next[l][q] <= p)
  BY DEF LevelInv
<1> QED BY <1>1, <1>2

\* LevelInv is kept when an entry is linked.
LEMMA LevelLink ==
  ASSUME IInv, Next, NEW i \in Writers, Link(i), CanLink(i)
  PROVE  LevelInv'
<1>0. TypeInv /\ BatchInv /\ LevelInv /\ SpliceInv /\ HelpInv
  BY DEF IInv
<1>1. w[i].pc = "link" /\ w[i].pc \in Linking
  BY DEF Link, Linking
<1>2. PICK l \in Levels : l = w[i].lvl
  BY <1>0, <1>1, PlaceFact
<1> DEFINE k == Key(i)
           p == w[i].p
           n == w[i].n
<1>3. /\ p \in On(l) /\ n \in On(l) \cup {tail} /\ p \in 0..K /\ n \in 0..(K + 1) /\ k \in 0..K
      /\ p < k /\ k < n /\ k \notin On(l) /\ k \in Nodes
  BY <1>0, <1>1, <1>2, PlaceFact
<1>4. /\ Alone(i) /\ Keeps(i) /\ w'[i].pc = "back"
      /\ next[l][p] = n /\ next[l][k] = n /\ next'[l][p] = k
      /\ \A j \in Levels, m \in 0..(K + 1) : j # l \/ m # p => next'[j][m] = next[j][m]
      /\ On(l)' = On(l) \cup {k} /\ \A j \in Levels : j # l => On(j)' = On(j)
  BY <1>0, <1>2, LinkDoes
<1>5. UNCHANGED <<tower, done>>
  BY Leaves
<1>6. tower[k] = w[i].h /\ w[i].lvl < w[i].h /\ w[i].lvl \in Nat /\ w[i].h \in Nat
  BY <1>0, <1>1, SizeFact DEF BatchInv, TypeInv, Writer, Heights
<1>6a. \A j \in Levels : k \in On(j) <=> j < l \/ (j = l /\ w[i].pc = "back")
  BY <1>0, <1>1, <1>2 DEF LevelInv
<1>6b. \A j \in Writers : j # i /\ w[j].pc \in Linking => Key(j) # k
  <2>1. SUFFICES ASSUME NEW j \in Writers, j # i, w[j].pc \in Linking PROVE Key(j) # k
    OBVIOUS
  <2>2. w[j].pc \notin {"idle", "unref"} /\ w[i].pc \notin {"idle", "unref"}
    BY <1>1, <2>1 DEF Linking
  <2>3. /\ Key(j) = w[j].batch[1] /\ 1 \in DOMAIN w[j].batch
        /\ k = w[i].batch[1] /\ 1 \in DOMAIN w[i].batch
    BY <1>0, <2>2, KeyFact
  <2> QED BY <1>0, <2>1, <2>3 DEF BatchInv
<1>6c. Key(i)' = k
  BY <1>4 DEF Keeps, Key
<1> HIDE DEF k, p, n
<1>7. \A j \in Levels : On(j) \subseteq On(j)' /\ On(j) \subseteq 0..K /\ On(j) \subseteq 0..(K + 1) /\ On(j) \subseteq Nat
  BY <1>0, <1>4, OnFacts, SizeFact
<1>8. \A j \in Levels : \A m \in On(j) :
        /\ m < next[j][m] /\ next[j][m] \in On(j) \cup {tail}
        /\ \A a \in On(j) : m < a => next[j][m] <= a
        /\ m # head => tower[m] > 0
        /\ \A b \in Levels : b < j => m \in On(b)
  BY <1>0 DEF LevelInv
<1>9. ASSUME NEW j \in Levels, NEW m \in On(j)'
      PROVE  /\ m < next'[j][m] /\ next'[j][m] \in On(j)' \cup {tail}
             /\ \A a \in On(j)' : m < a => next'[j][m] <= a
             /\ m # head => tower'[m] > 0
             /\ \A b \in Levels : b < j => m \in On(b)'
  <2>1. CASE j # l
    <3>1. m \in On(j) /\ m \in 0..(K + 1) /\ next'[j][m] = next[j][m] /\ On(j)' = On(j)
      BY <1>4, <1>7, <1>9, <2>1
    <3> QED BY <1>5, <1>7, <1>8, <3>1
  <2>2. CASE j = l /\ m = k
    <3>1. next'[l][k] = n
      BY <1>3, <1>4, SizeFact
    <3>2. \A a \in On(l) : k < a => n <= a
      BY <1>3, <1>4, <1>7, <1>8
    <3>3. \A a \in On(l)' : k < a => n <= a
      <4>1. ~(k < k)
        BY <1>3
      <4> QED BY <1>4, <3>2, <4>1
    <3>4. n \in On(l)' \cup {tail}
      BY <1>3, <1>4
    <3>5. tower'[k] > 0
      BY <1>5, <1>6
    <3>6. \A b \in Levels : b < l => k \in On(b)'
      BY <1>6a, <1>7
    <3> QED BY <1>3, <2>2, <3>1, <3>3, <3>4, <3>5, <3>6
  <2>3. CASE j = l /\ m = p
    <3>1. \A a \in On(l)' : p < a => k <= a
      BY <1>3, <1>4, <1>7, <1>8
    <3>2. p # head => tower'[p] > 0
      BY <1>3, <1>5, <1>8
    <3>3. \A b \in Levels : b < l => p \in On(b)'
      BY <1>3, <1>7, <1>8
    <3> QED BY <1>3, <1>4, <2>3, <3>1, <3>2, <3>3
  <2>4. CASE j = l /\ m # k /\ m # p
    <3>1. m \in On(l) /\ m \in 0..(K + 1)
      BY <1>4, <1>7, <1>9, <2>4
    <3>2. next'[l][m] = next[l][m]
      BY <1>4, <2>4, <3>1
    <3>3. m < k => next[l][m] <= k
      <4>1. p < m => n <= m
        BY <1>3, <1>4, <1>8, <3>1
      <4>2. m < p => next[l][m] <= p
        BY <1>3, <1>8, <3>1
      <4>3. next[l][m] \in 0..(K + 1)
        BY <1>7, <1>8, <3>1, SizeFact DEF tail
      <4> HIDE DEF head, tail
      <4> QED BY <1>3, <2>4, <3>1, <4>1, <4>2, <4>3
    <3>4. \A a \in On(l)' : m < a => next[l][m] <= a
      BY <1>4, <1>8, <3>1, <3>3
    <3> QED BY <1>4, <1>5, <1>7, <1>8, <2>4, <3>1, <3>2, <3>4
  <2> QED BY <2>1, <2>2, <2>3, <2>4
<1>10. ASSUME NEW m \in done' PROVE tower'[m] > 0 /\ \A j \in Levels : j < tower'[m] => m \in On(j)'
  BY <1>0, <1>5, <1>7, <1>10 DEF LevelInv
<1>11. ASSUME NEW j \in Writers, w'[j].pc \in Linking, NEW a \in Levels
       PROVE  Key(j)' \in On(a)' <=> a < w'[j].lvl \/ (a = w'[j].lvl /\ w'[j].pc = "back")
  <2>1. CASE j = i
    <3>1. w'[i].lvl = l /\ w'[i].pc = "back"
      BY <1>2, <1>4 DEF Keeps
    <3>2. k \in On(a)' <=> a < l \/ a = l
      BY <1>1, <1>4, <1>6a
    <3> QED BY <1>6c, <2>1, <3>1, <3>2
  <2>2. CASE j # i
    <3>1. w'[j] = w[j] /\ Key(j)' = Key(j)
      BY <1>4, <2>2 DEF Alone, Key
    <3>2. Key(j) \in On(a)' <=> Key(j) \in On(a)
      BY <1>4, <1>6b, <1>11, <2>2, <3>1
    <3> QED BY <1>0, <1>11, <3>1, <3>2 DEF LevelInv
  <2> QED BY <2>1, <2>2
<1> QED BY <1>9, <1>10, <1>11 DEF LevelInv

\* LevelInv is kept.
LEMMA LevelStep == ASSUME IInv, Next PROVE LevelInv'
BY LevelStay, LevelLink
-----------------------------------------------------------------------------
(***************************************************************************)
(* The splices.                                                            *)
(***************************************************************************)

\* The splices of a writer that does nothing.
LEMMA SpliceFrame ==
  ASSUME IInv, Next, NEW i \in Writers, w'[i] = w[i]
  PROVE  SpliceOf(i)'
<1>0. TypeInv /\ SpliceOf(i)
  BY DEF IInv, SpliceInv
<1>1. PICK x, k : x = w[i] /\ k = Key(i)
  OBVIOUS
<1>2. w'[i] = x /\ Key(i)' = k
  BY <1>1 DEF Key
<1>3. height \in Nat /\ height' \in Nat /\ height <= height' /\ x.insH \in Nat /\ \A l \in Levels : l \in Nat
  BY <1>0, <1>1, HeightStep, SizeFact DEF TypeInv, Writer, Heights, Levels
<1>4. \A l \in Levels : On(l) \subseteq On(l)'
  BY Grow
<1>5. \A l \in Levels : \A p, n : Apart(On(l), p, n) => Apart(On(l)', p, n)
  BY <1>4 DEF Apart
<1>6. \A l \in Levels : \A p, n : Around(On(l), p, n, k) => Around(On(l)', p, n, k)
  BY <1>5 DEF Around
<1>7. x.insH <= height'
  BY <1>0, <1>1, <1>3 DEF SpliceOf
<1>8. ASSUME x.pc = "splice"
      PROVE  /\ \A l \in Levels : l >= height' => x.spl[l].p = nil
             /\ x.insH = height' =>
                  /\ \A l \in Levels : l < height' => Apart(On(l)', x.spl[l].p, x.spl[l].n)
                  /\ Nested(x.spl, 0, height')
  <2>1. /\ x.insH <= height
        /\ \A l \in Levels : l >= height => x.spl[l].p = nil
        /\ x.insH = height =>
             /\ \A l \in Levels : l < height => Apart(On(l), x.spl[l].p, x.spl[l].n)
             /\ Nested(x.spl, 0, height)
    BY <1>0, <1>1, <1>8 DEF SpliceOf
  <2>2. x.insH = height' => height' = height
    BY <1>3, <2>1
  <2> QED BY <1>3, <1>5, <2>1, <2>2
<1>9. ASSUME x.pc = "search"
      PROVE  /\ x.lvl <= x.insH
             /\ \A l \in Levels : l >= x.insH => x.spl[l].p = nil
             /\ \A l \in Levels : x.lvl <= l /\ l < x.insH =>
                  Around(On(l)', x.spl[l].p, x.spl[l].n, k) /\ x.spl[l].p <= x.p
             /\ Nested(x.spl, x.lvl, x.insH)
             /\ \A l \in Levels : l < x.lvl => x.p \in On(l)'
             /\ x.p < k
  BY <1>0, <1>1, <1>4, <1>6, <1>9 DEF SpliceOf
<1>10. ASSUME x.pc \in Linking
       PROVE  /\ \A l \in Levels : l >= x.insH => x.spl[l].p = nil
              /\ \A l \in Levels : l < x.insH => Around(On(l)', x.spl[l].p, x.spl[l].n, k)
              /\ Nested(x.spl, 0, x.insH)
              /\ Around(On(x.lvl)', x.p, x.n, k)
  <2>1. x.lvl \in Levels
    BY <1>0, <1>1, <1>10, LinkLevel DEF IInv
  <2> QED BY <1>0, <1>1, <1>6, <1>10, <2>1 DEF SpliceOf
<1> QED BY <1>2, <1>7, <1>8, <1>9, <1>10 DEF SpliceOf
\* Where a node goes on a level is around it.
LEMMA TargetFact ==
  ASSUME TypeInv, NEW i \in Writers, NEW l \in Levels, Key(i) \in Nodes,
         w[i].spl[l].p = nil \/ Around(On(l), w[i].spl[l].p, w[i].spl[l].n, Key(i))
  PROVE  Around(On(l), Target(i, l).p, Target(i, l).n, Key(i))
<1>1. CASE w[i].spl[l].p = nil
  <2>1. Target(i, l).p = head /\ Target(i, l).n = tail
    BY <1>1 DEF Target
  <2>2. head \in On(l)
    BY OnFacts
  <2>3. head < Key(i) /\ Key(i) < tail /\ head < tail
    BY SizeFact DEF head, tail, Nodes
  <2> QED BY <2>1, <2>2, <2>3 DEF Around, Apart
<1>2. CASE w[i].spl[l].p # nil
  BY <1>2 DEF Target
<1> QED BY <1>1, <1>2

\* The entry of a writer that searches stands on no level.
LEMMA KeyNew ==
  ASSUME IInv, NEW i \in Writers, w[i].pc \in {"splice", "search"}
  PROVE  /\ Key(i) \in Nodes /\ Key(i) # tail /\ Key(i) # head /\ tower[Key(i)] = 0
         /\ \A l \in Levels : Key(i) \notin On(l)
<1>0. TypeInv /\ BatchInv /\ LevelInv
  BY DEF IInv
<1>1. Key(i) \in Nodes /\ Key(i) = w[i].batch[1] /\ 1 \in DOMAIN w[i].batch /\ Key(i) # head /\ Key(i) # tail
  BY <1>0, KeyFact
<1>2. tower[Key(i)] = 0
  BY <1>0, <1>1 DEF BatchInv, Linking
<1> QED BY <1>0, <1>1, <1>2, OnNode

\* findSplice begins from splices that surround the entry.
LEMMA SpliceSplice ==
  ASSUME IInv, Next, NEW i \in Writers, Splice(i)
  PROVE  SpliceOf(i)'
<1>0. TypeInv /\ BatchInv /\ LevelInv /\ SpliceInv /\ SpliceOf(i)
  BY DEF IInv, SpliceInv
<1>1. PICK x, k, f : x = w'[i] /\ k = Key(i) /\ f = SearchFrom(i)
  OBVIOUS
<1>2. /\ w[i].pc = "splice" /\ x.pc = "search" /\ x.insH = height /\ x.lvl = f
      /\ x.batch = w[i].batch /\ x.spl = w[i].spl
      /\ x.p = IF f = height THEN head ELSE w[i].spl[f].p
  BY <1>0, <1>1, SpliceDoes
<1>3. Key(i)' = k /\ UNCHANGED <<next, height>>
  BY <1>1, <1>2, Leaves DEF Key
<1>4. \A l \in Levels : On(l)' = On(l)
  BY <1>3 DEF On
<1>5. k \in Nodes /\ k # tail /\ k > head /\ \A l \in Levels : k \notin On(l)
  BY <1>1, <1>2, KeyNew DEF Nodes, head
<1>6. height \in Nat /\ w[i].insH <= height /\ \A l \in Levels : l \in Nat /\ head \in On(l)
  BY <1>0, OnFacts, SizeFact DEF SpliceOf, TypeInv, Levels
<1>7. \A l \in Levels : l >= height => x.spl[l].p = nil
  BY <1>0, <1>2 DEF SpliceOf
<1>8. \/ f = height
      \/ f \in Levels /\ f < height /\ w[i].insH = height /\ SpliceHolds(w[i].spl[f], f, k)
  BY <1>0, <1>1, <1>6, SearchFromFact
<1>9. CASE f = height
  <2>1. \A l \in Levels : ~(f <= l /\ l < height)
    BY <1>6, <1>9
  <2>2. Nested(x.spl, f, height)
    BY <1>6, <1>9 DEF Nested
  <2> QED BY <1>1, <1>2, <1>3, <1>4, <1>5, <1>6, <1>7, <1>9, <2>1, <2>2 DEF SpliceOf, Linking
<1>10. CASE f \in Levels /\ f < height /\ w[i].insH = height /\ SpliceHolds(w[i].spl[f], f, k)
  <2>1. /\ \A l \in Levels : l < height => Apart(On(l), x.spl[l].p, x.spl[l].n)
        /\ Nested(x.spl, 0, height)
    BY <1>0, <1>2, <1>10 DEF SpliceOf
  <2>2. x.p = x.spl[f].p /\ x.p < k /\ k <= x.spl[f].n /\ f \in Nat
    BY <1>2, <1>6, <1>10 DEF SpliceHolds
  <2>3. \A l \in Levels : l < height =>
          x.spl[l].p \in On(l) /\ x.spl[l].n \in On(l) \cup {tail} /\ x.spl[l].p \in 0..K /\ x.spl[l].n \in 0..(K + 1)
    BY <1>0, <2>1, OnFacts, SizeFact DEF Apart, tail
  <2>4. k < x.spl[f].n
    BY <1>5, <1>10, <2>2, <2>3 DEF Nodes
  <2>5. ASSUME NEW l \in Levels, f <= l, l < height
        PROVE  Around(On(l), x.spl[l].p, x.spl[l].n, k) /\ x.spl[l].p <= x.p
    <3>1. x.spl[l].p <= x.spl[f].p /\ x.spl[f].n <= x.spl[l].n
      <4>1. CASE f = l
        BY <1>10, <2>3, <4>1
      <4>2. CASE f # l
        <5>1. 0 <= f /\ f < l
          BY <1>6, <2>2, <2>5, <4>2
        <5> QED BY <1>10, <2>1, <2>5, <5>1 DEF Nested
      <4> QED BY <4>1, <4>2
    <3>2. x.spl[l].p < k /\ k < x.spl[l].n
      BY <1>5, <1>10, <2>2, <2>3, <2>4, <2>5, <3>1 DEF Nodes
    <3> QED BY <2>1, <2>2, <2>5, <3>1, <3>2 DEF Around
  <2>6. Nested(x.spl, f, height)
    BY <1>6, <2>1, <2>2 DEF Nested
  <2>7. \A l \in Levels : l < f => x.p \in On(l)
    BY <1>0, <1>10, <2>2, <2>3 DEF LevelInv
  <2>8. f <= height
    BY <1>6, <1>10
  <2> QED BY <1>1, <1>2, <1>3, <1>4, <1>6, <1>7, <2>2, <2>5, <2>6, <2>7, <2>8 DEF SpliceOf, Linking
<1> QED BY <1>8, <1>9, <1>10

\* findSplice goes a level down.
LEMMA SpliceSearch ==
  ASSUME IInv, Next, NEW i \in Writers, Search(i)
  PROVE  SpliceOf(i)'
<1>0. TypeInv /\ BatchInv /\ LevelInv /\ SpliceInv /\ SpliceOf(i)
  BY DEF IInv, SpliceInv
<1>1. PICK x, y, k, l, s : x = w'[i] /\ y = w[i] /\ k = Key(i) /\ l = w[i].lvl - 1 /\ s = Walk(l, w[i].p, Key(i))
  OBVIOUS
<1>2. /\ y.pc = "search" /\ x.pc = "search" /\ l \in Levels /\ y.lvl = l + 1
      /\ x.lvl = l /\ x.insH = y.insH /\ x.batch = y.batch /\ x.p = s.p
      /\ x.spl[l] = s /\ \A m \in Levels : m # l => x.spl[m] = y.spl[m]
      /\ Around(On(l), s.p, s.n, k) /\ y.p <= s.p
      /\ \A m \in On(l) \cup {tail} : k <= m => s.n <= m
  BY <1>0, <1>1, SearchDoes
<1>3. Key(i)' = k /\ UNCHANGED <<next, height>>
  BY <1>1, <1>2, Leaves DEF Key
<1>4. \A m \in Levels : On(m)' = On(m)
  BY <1>3 DEF On
<1>5. /\ y.insH <= height /\ y.lvl <= y.insH
      /\ \A m \in Levels : m >= y.insH => y.spl[m].p = nil
      /\ \A m \in Levels : y.lvl <= m /\ m < y.insH =>
           Around(On(m), y.spl[m].p, y.spl[m].n, k) /\ y.spl[m].p <= y.p
      /\ Nested(y.spl, y.lvl, y.insH)
      /\ \A m \in Levels : m < y.lvl => y.p \in On(m)
  BY <1>0, <1>1, <1>2 DEF SpliceOf
<1>6. l \in Nat /\ y.insH \in Nat /\ \A m \in Levels : m \in Nat
  BY <1>0, <1>1, <1>2, SizeFact DEF TypeInv, Writer, Heights, Levels
<1>7. \A m \in Levels : On(m) \subseteq 0..K
  BY <1>0, OnFacts
<1>8. s.p \in On(l) /\ s.p < k /\ s.p \in Nat /\ y.p \in Nat /\ s.n \in On(l) \cup {tail}
  BY <1>2, <1>5, <1>6, <1>7, SizeFact DEF Around, Apart
<1>9. l <= x.insH /\ \A m \in Levels : m >= x.insH => x.spl[m].p = nil
  BY <1>2, <1>5, <1>6
<1>10. ASSUME NEW m \in Levels, l < m, m < x.insH
       PROVE  /\ Around(On(m), x.spl[m].p, x.spl[m].n, k) /\ x.spl[m].p <= s.p
              /\ s.n <= x.spl[m].n
  <2>1. x.spl[m] = y.spl[m] /\ y.lvl <= m /\ m < y.insH
    BY <1>2, <1>6, <1>10
  <2>2. Around(On(m), y.spl[m].p, y.spl[m].n, k) /\ y.spl[m].p <= y.p
    BY <1>5, <2>1
  <2>3. y.spl[m].p \in Nat /\ y.spl[m].n \in On(l) \cup {tail} /\ k < y.spl[m].n /\ y.spl[m].n \in Nat
    <3>1. y.spl[m].p \in On(m) /\ y.spl[m].n \in On(m) \cup {tail} /\ k < y.spl[m].n
      BY <2>2 DEF Around, Apart
    <3>2. \A n \in On(m) : n \in On(l)
      BY <1>0, <1>2, <1>10 DEF LevelInv
    <3>3. tail \in Nat
      BY SizeFact DEF tail
    <3> QED BY <1>7, <3>1, <3>2, <3>3, SizeFact
  <2>4. k \in Nat
    BY <1>0, <1>1, <1>2, KeyFact
  <2>5. s.n <= y.spl[m].n
    BY <1>2, <2>3, <2>4
  <2>6. y.spl[m].p <= s.p
    BY <1>2, <1>8, <2>2, <2>3
  <2> QED BY <2>1, <2>2, <2>5, <2>6
<1>11. \A m \in Levels : l <= m /\ m < x.insH =>
         Around(On(m), x.spl[m].p, x.spl[m].n, k) /\ x.spl[m].p <= x.p
  <2>1. s.p <= s.p
    BY <1>8
  <2> QED BY <1>2, <1>6, <1>10, <2>1
<1>12. Nested(x.spl, l, x.insH)
  <2>1. SUFFICES ASSUME NEW a \in Levels, NEW b \in Levels, l <= a, a < b, b < x.insH
                 PROVE  x.spl[b].p <= x.spl[a].p /\ x.spl[a].n <= x.spl[b].n
    BY DEF Nested
  <2>2. CASE a = l
    BY <1>2, <1>6, <1>10, <2>1, <2>2
  <2>3. CASE a # l
    <3>1. y.lvl <= a /\ a < b /\ b < y.insH /\ x.spl[a] = y.spl[a] /\ x.spl[b] = y.spl[b]
      BY <1>2, <1>6, <2>1, <2>3
    <3> QED BY <1>5, <3>1 DEF Nested
  <2> QED BY <2>2, <2>3
<1>13. \A m \in Levels : m < l => x.p \in On(m)
  BY <1>0, <1>2, <1>8 DEF LevelInv
<1> QED BY <1>1, <1>2, <1>3, <1>4, <1>5, <1>8, <1>9, <1>11, <1>12, <1>13 DEF SpliceOf, Linking

\* newNode and the levels of the tower.
LEMMA SpliceLinking ==
  ASSUME IInv, Next, NEW i \in Writers, Writing(i), w'[i].pc \in Linking,
         Key(i)' = Key(i), w'[i].spl = w[i].spl, w'[i].insH = w[i].insH,
         w[i].pc \in Linking \/ (w[i].pc = "search" /\ w[i].lvl = 0),
         w'[i].lvl \in Levels, Around(On(w'[i].lvl), w'[i].p, w'[i].n, Key(i))
  PROVE  SpliceOf(i)'
<1>0. TypeInv /\ SpliceOf(i)
  BY DEF IInv, SpliceInv
<1>1. PICK x, k : x = w'[i] /\ k = Key(i)
  OBVIOUS
<1>2. height \in Nat /\ height' \in Nat /\ height <= height' /\ x.insH \in Nat /\ \A l \in Levels : l \in Nat
  BY <1>0, <1>1, HeightStep, SizeFact DEF TypeInv, Writer, Heights, Levels
<1>3. \A l \in Levels : \A p, n : Around(On(l), p, n, k) => Around(On(l)', p, n, k)
  BY Grow DEF Around, Apart
<1>4. /\ x.insH <= height
      /\ \A l \in Levels : l >= x.insH => x.spl[l].p = nil
      /\ \A l \in Levels : l < x.insH => Around(On(l), x.spl[l].p, x.spl[l].n, k)
      /\ Nested(x.spl, 0, x.insH)
  <2>1. CASE w[i].pc \in Linking
    BY <1>0, <1>1, <2>1 DEF SpliceOf
  <2>2. CASE w[i].pc = "search" /\ w[i].lvl = 0
    <3>1. \A l \in Levels : 0 <= l
      BY <1>2
    <3> QED BY <1>0, <1>1, <2>2, <3>1 DEF SpliceOf
  <2> QED BY <2>1, <2>2
<1>5. x.insH <= height'
  BY <1>2, <1>4
<1>6. \A l \in Levels : l < x.insH => Around(On(l)', x.spl[l].p, x.spl[l].n, k)
  BY <1>3, <1>4
<1>7. PICK m \in Levels : m = x.lvl
  BY <1>1
<1>8. Around(On(m)', x.p, x.n, k)
  BY <1>1, <1>3, <1>7
<1>9. x.pc # "splice" /\ x.pc # "search"
  BY <1>1 DEF Linking
<1> QED BY <1>1, <1>4, <1>5, <1>6, <1>7, <1>8, <1>9 DEF SpliceOf
\* Add returns: the splices kept for the next entry.
LEMMA SpliceLast ==
  ASSUME IInv, Next, NEW i \in Writers, Back(i), ~(w[i].lvl + 1 < w[i].h)
  PROVE  SpliceOf(i)'
<1>0. TypeInv /\ BatchInv /\ LevelInv /\ SpliceInv /\ SpliceOf(i)
  BY DEF IInv, SpliceInv
<1>1. PICK x, y, k : x = w'[i] /\ y = w[i] /\ k = Key(i)
  OBVIOUS
<1>2. /\ y.h = y.lvl + 1 /\ x.pc \in {"unref", "splice"}
      /\ \/ x.insH = 0 /\ x.spl = y.spl
         \/ /\ x.insH = y.insH
            /\ \A m \in Levels : IF m < y.h THEN x.spl[m].p = k /\ x.spl[m].n = y.spl[m].n
                                 ELSE x.spl[m] = y.spl[m]
  BY <1>0, <1>1, LastDoes
<1>3. UNCHANGED <<next, height>> /\ y.pc = "back" /\ y.pc \in Linking
  BY <1>1, Leaves DEF Back, Linking
<1>4. \A m \in Levels : On(m)' = On(m)
  BY <1>3 DEF On
<1>5. /\ y.insH <= height
      /\ \A l \in Levels : l >= y.insH => y.spl[l].p = nil
      /\ \A l \in Levels : l < y.insH => Around(On(l), y.spl[l].p, y.spl[l].n, k)
      /\ Nested(y.spl, 0, y.insH)
  BY <1>0, <1>1, <1>3 DEF SpliceOf
<1>6. /\ height \in Nat /\ height > 0 /\ y.insH \in Nat /\ y.h \in Nat /\ y.lvl \in Nat /\ y.h <= height
      /\ \A m \in Levels : m \in Nat
  BY <1>0, <1>1, <1>3, LinkLevel, SizeFact DEF TypeInv, Writer, Heights, Levels
<1>7. \A m \in Levels : m < y.h => k \in On(m)
  BY <1>0, <1>1, <1>2, <1>3, <1>6 DEF LevelInv
<1>8. k \in Nat
  BY <1>0, <1>1, <1>3, KeyFact
<1>9. \A l \in Levels : l >= height => x.spl[l].p = nil
  <2>1. ASSUME NEW l \in Levels, l >= height PROVE l >= y.insH /\ ~(l < y.h)
    BY <1>5, <1>6, <2>1
  <2> QED BY <1>2, <1>5, <2>1
<1>10. x.insH <= height
  BY <1>2, <1>5, <1>6
<1>11. ASSUME x.insH = height
       PROVE  /\ \A l \in Levels : l < height => Apart(On(l), x.spl[l].p, x.spl[l].n)
              /\ Nested(x.spl, 0, height)
  <2>1. /\ y.insH = height
        /\ \A m \in Levels : IF m < y.h THEN x.spl[m].p = k /\ x.spl[m].n = y.spl[m].n
                             ELSE x.spl[m] = y.spl[m]
    BY <1>2, <1>6, <1>11
  <2>2. ASSUME NEW l \in Levels, l < height PROVE Apart(On(l), x.spl[l].p, x.spl[l].n)
    <3>1. Around(On(l), y.spl[l].p, y.spl[l].n, k)
      BY <1>5, <2>1, <2>2
    <3> QED BY <1>7, <2>1, <3>1 DEF Around, Apart
  <2>3. ASSUME NEW l \in Levels, NEW m \in Levels, 0 <= l, l < m, m < height
        PROVE  x.spl[m].p <= x.spl[l].p /\ x.spl[l].n <= x.spl[m].n
    <3>1. l < height
      BY <1>6, <2>3
    <3>2. y.spl[m].p <= y.spl[l].p /\ y.spl[l].n <= y.spl[m].n
      BY <1>5, <2>1, <2>3 DEF Nested
    <3>3. Around(On(m), y.spl[m].p, y.spl[m].n, k) /\ y.spl[m].p \in Nat
      <4>1. Around(On(m), y.spl[m].p, y.spl[m].n, k)
        BY <1>5, <2>1, <2>3
      <4> QED BY <1>0, <4>1, OnFacts DEF Around, Apart
    <3>4. x.spl[l].n = y.spl[l].n /\ x.spl[m].n = y.spl[m].n
      BY <2>1
    <3>5. x.spl[m].p <= x.spl[l].p
      <4>1. CASE m < y.h
        <5>1. l < y.h
          BY <1>6, <2>3, <4>1
        <5> QED BY <1>8, <2>1, <4>1, <5>1
      <4>2. CASE ~(m < y.h) /\ l < y.h
        BY <1>8, <2>1, <3>3, <4>2 DEF Around
      <4>3. CASE ~(m < y.h) /\ ~(l < y.h)
        BY <2>1, <3>2, <4>3
      <4> QED BY <4>1, <4>2, <4>3
    <3> QED BY <3>2, <3>4, <3>5
  <2> QED BY <2>2, <2>3 DEF Nested
<1> QED BY <1>1, <1>2, <1>3, <1>4, <1>9, <1>10, <1>11 DEF SpliceOf, Linking

\* SpliceInv is kept.
LEMMA SpliceStep == ASSUME IInv, Next PROVE SpliceInv'
<1>0. TypeInv /\ BatchInv /\ LevelInv /\ SpliceInv /\ HelpInv
  BY DEF IInv
<1>1. SUFFICES ASSUME NEW i \in Writers PROVE SpliceOf(i)'
  BY DEF SpliceInv
<1>2. CASE w'[i] = w[i]
  BY <1>2, SpliceFrame
<1>3. CASE Writing(i)
  <2>0. height' \in Nat /\ height' > 0 /\ SpliceOf(i)
    BY <1>0, HeightStep, SizeFact DEF SpliceInv
  <2>1. CASE Prepare(i)
    <3>1. w'[i].pc = "splice" /\ w'[i].insH = 0 /\ \A l \in Levels : w'[i].spl[l].p = nil
      BY <1>0, <2>1, PrepareDoes
    <3>2. 0 <= height' /\ 0 # height'
      BY <2>0
    <3> QED BY <3>1, <3>2 DEF SpliceOf, Linking
  <2>2. CASE Unref(i)
    <3>1. w'[i].pc = "idle" /\ w'[i].insH = 0
      BY <1>0, <2>2, UnrefDoes
    <3> QED BY <2>0, <3>1 DEF SpliceOf, Linking
  <2>3. CASE NewNode(i)
    <3>1. /\ w[i].pc = "search" /\ w[i].lvl = 0 /\ w'[i].pc \in Linking /\ Key(i)' = Key(i)
          /\ w'[i].spl = w[i].spl /\ w'[i].insH = w[i].insH /\ w'[i].lvl = 0
          /\ w'[i].p = Target(i, 0).p /\ w'[i].n = Target(i, 0).n /\ Key(i) \in Nodes
      BY <2>3, NodeDoes DEF Key, Linking
    <3>2. 0 \in Levels /\ w[i].insH \in Nat /\ (0 >= w[i].insH \/ 0 < w[i].insH) /\ 0 <= 0
      BY <1>0, SizeFact DEF Levels, TypeInv, Writer, Heights
    <3>3. w[i].spl[0].p = nil \/ Around(On(0), w[i].spl[0].p, w[i].spl[0].n, Key(i))
      BY <2>0, <3>1, <3>2 DEF SpliceOf
    <3>4. Around(On(0), Target(i, 0).p, Target(i, 0).n, Key(i))
      BY <1>0, <3>1, <3>2, <3>3, TargetFact
    <3> QED BY <1>3, <3>1, <3>2, <3>4, SpliceLinking
  <2>4. CASE Load(i) \/ Check(i) \/ Help(i) \/ Link(i)
    <3>1. w[i].pc \in Linking
      BY <2>4 DEF Load, Check, Help, Link, Linking
    <3>2. PICK l \in Levels : l = w[i].lvl
      BY <1>0, <3>1, PlaceFact
    <3>3. Around(On(l), w[i].p, w[i].n, Key(i))
      BY <2>0, <3>1, <3>2 DEF SpliceOf
    <3>4. Keeps(i) /\ w'[i].pc \in Linking /\ Around(On(l), w'[i].p, w'[i].n, Key(i))
      <4>1. CASE Load(i)
        BY <1>0, <3>3, <4>1, LoadDoes DEF Linking
      <4>2. CASE Check(i)
        BY <1>0, <3>3, <4>2, CheckDoes DEF Linking
      <4>3. CASE Help(i)
        BY <1>0, <3>3, <4>3, HelpDoes DEF Linking
      <4>4. CASE Link(i) /\ CanLink(i)
        BY <1>0, <3>2, <3>3, <4>4, LinkDoes DEF Linking
      <4>5. CASE Link(i) /\ ~CanLink(i)
        BY <1>0, <3>2, <4>5, RelinkDoes DEF Linking
      <4> QED BY <2>4, <4>1, <4>2, <4>3, <4>4, <4>5
    <3> QED BY <1>3, <3>1, <3>2, <3>4, SpliceLinking DEF Keeps, Key
  <2>5. CASE Back(i) /\ w[i].lvl + 1 < w[i].h
    <3>1. PICK m : m = w[i].lvl + 1
      OBVIOUS
    <3>2. /\ m \in Levels /\ w'[i].pc \in Linking /\ w'[i].lvl = m /\ Key(i)' = Key(i)
          /\ w'[i].spl = w[i].spl /\ w'[i].insH = w[i].insH
          /\ w'[i].p = Target(i, m).p /\ w'[i].n = Target(i, m).n
      BY <1>0, <2>5, <3>1, MoreDoes DEF Linking, Key
    <3>3. w[i].pc \in Linking /\ w[i].pc \notin {"idle", "unref"}
      BY <2>5 DEF Back, Linking
    <3>4. m >= w[i].insH \/ m < w[i].insH
      BY <1>0, <3>2, SizeFact DEF TypeInv, Writer, Heights, Levels
    <3>5. w[i].spl[m].p = nil \/ Around(On(m), w[i].spl[m].p, w[i].spl[m].n, Key(i))
      BY <2>0, <3>2, <3>3, <3>4 DEF SpliceOf
    <3>6. Key(i) \in Nodes
      BY <1>0, <3>3, KeyFact
    <3>7. Around(On(m), Target(i, m).p, Target(i, m).n, Key(i))
      BY <1>0, <3>2, <3>5, <3>6, TargetFact
    <3> QED BY <1>3, <3>2, <3>3, <3>7, SpliceLinking
  <2> QED BY <1>3, <2>1, <2>2, <2>3, <2>4, <2>5, SpliceLast, SpliceSplice, SpliceSearch DEF Writing
<1> QED BY <1>2, <1>3, NextSplit, ReadingLeaves, WriterStep DEF Alone
-----------------------------------------------------------------------------
(***************************************************************************)
(* The back links.                                                         *)
(***************************************************************************)

\* A back link on a level only moves forward, and to the true predecessor, while no
\* forward link moves.
LEMMA PrevMoves ==
  ASSUME IInv, Next, NEW l \in Levels, NEW m \in On(l) \cup {tail}
  PROVE  \/ prev'[l][m] = prev[l][m]
         \/ /\ UNCHANGED next /\ prev[l][m] < prev'[l][m] /\ prev'[l][m] \in On(l)
            /\ prev'[l][m] < m /\ next[l][prev'[l][m]] = m
<1>0. TypeInv /\ BatchInv /\ LevelInv /\ SpliceInv /\ HelpInv
  BY DEF IInv
<1>1. SUFFICES ASSUME prev'[l][m] # prev[l][m]
               PROVE  /\ UNCHANGED next /\ prev[l][m] < prev'[l][m] /\ prev'[l][m] \in On(l)
                      /\ prev'[l][m] < m /\ next[l][prev'[l][m]] = m
  OBVIOUS
<1>2. PICK i \in Writers : Load(i) \/ Help(i) \/ Back(i)
  BY <1>1, NextSplit, ReadingLeaves, Leaves DEF Writing
<1>3. w[i].pc \in Linking /\ HelpOf(i) /\ m \in 0..(K + 1)
  BY <1>0, <1>2, OnFacts, SizeFact DEF Load, Help, Back, Linking, HelpInv, tail
<1>4. PICK x, k : x = w[i] /\ k = Key(i)
  OBVIOUS
<1>5. /\ x.lvl \in Levels /\ x.p \in On(x.lvl) /\ x.p \in 0..K /\ x.n \in 0..(K + 1) /\ k \in 0..K
      /\ x.p < k /\ k < x.n /\ k \in Nodes
      /\ x.pc # "back" => k \notin On(x.lvl)
      /\ x.pc = "back" => k \in On(x.lvl)
  BY <1>0, <1>3, <1>4, PlaceFact
<1>6. CASE Load(i)
  <2>1. l = x.lvl /\ m = k /\ x.pc = "load"
    BY <1>0, <1>1, <1>3, <1>4, <1>6, LoadDoes
  <2> QED BY <1>5, <2>1, SizeFact DEF tail, Nodes
<1>7. CASE Help(i)
  <2>1. l = x.lvl /\ m = x.n /\ x.pc = "help" /\ prev[l][m] = x.np /\ prev'[l][m] = x.p
    BY <1>0, <1>1, <1>3, <1>4, <1>7, HelpDoes
  <2>2. x.np < x.p /\ (next[l][x.p] = x.n \/ x.p <= prev[l][m]) /\ x.np \in Nat
    BY <1>0, <1>3, <1>4, <2>1, SizeFact DEF HelpOf, TypeInv, Writer, Offsets
  <2>3. next[l][x.p] = m /\ x.p < m
    BY <1>5, <2>1, <2>2
  <2>4. UNCHANGED next
    BY <1>7, Leaves
  <2> QED BY <1>5, <2>1, <2>2, <2>3, <2>4
<1>8. CASE Back(i)
  <2>1. l = x.lvl /\ m = x.n /\ x.pc = "back" /\ prev[l][m] = x.p /\ prev'[l][m] = k
    BY <1>0, <1>1, <1>3, <1>4, <1>8, BackLink
  <2>2. next[l][k] = x.n \/ k <= prev[l][m]
    BY <1>3, <1>4, <2>1 DEF HelpOf
  <2>3. next[l][k] = m
    BY <1>5, <2>1, <2>2
  <2>4. UNCHANGED next
    BY <1>8, Leaves
  <2> QED BY <1>5, <2>1, <2>3, <2>4
<1> QED BY <1>2, <1>6, <1>7, <1>8

\* A forward link on a level only moves to a new node, while its successor's back link
\* is the true predecessor and no back link moves.
LEMMA NextMoves ==
  ASSUME IInv, Next, NEW l \in Levels, NEW q \in On(l)
  PROVE  \/ next'[l][q] = next[l][q]
         \/ UNCHANGED prev /\ prev[l][next[l][q]] = q /\ next'[l][q] \notin On(l) \cup {tail}
<1>0. TypeInv /\ BatchInv /\ LevelInv /\ SpliceInv /\ HelpInv
  BY DEF IInv
<1>1. CASE \A i \in Writers : ~(Link(i) /\ CanLink(i))
  BY <1>1, SameLevels
<1>2. ASSUME NEW i \in Writers, Link(i), CanLink(i)
      PROVE  \/ next'[l][q] = next[l][q]
             \/ UNCHANGED prev /\ prev[l][next[l][q]] = q /\ next'[l][q] \notin On(l) \cup {tail}
  <2>1. w[i].pc \in Linking /\ w[i].pc # "back" /\ q \in 0..(K + 1)
    BY <1>0, <1>2, OnFacts, SizeFact DEF Link, Linking
  <2>2. PICK j \in Levels : j = w[i].lvl
    BY <1>0, <2>1, PlaceFact
  <2>3. Key(i) \notin On(j) /\ Key(i) \in Nodes
    BY <1>0, <2>1, <2>2, PlaceFact
  <2>4. /\ next[j][w[i].p] = w[i].n /\ prev[j][w[i].n] = w[i].p /\ next'[j][w[i].p] = Key(i)
        /\ \A a \in Levels, b \in 0..(K + 1) : a # j \/ b # w[i].p => next'[a][b] = next[a][b]
    BY <1>0, <1>2, <2>2, LinkDoes
  <2>5. UNCHANGED prev
    BY <1>2, Leaves
  <2>6. Key(i) # tail
    BY <2>3, SizeFact DEF Nodes, tail
  <2> QED BY <2>1, <2>3, <2>4, <2>5, <2>6
<1> QED BY <1>1, <1>2

\* The links of a node that is not on the level are touched by its own writer only.
LEMMA OffLevel ==
  ASSUME IInv, Next, NEW l \in Levels, NEW m \in Nodes, m \notin On(l),
         \A i \in Writers : Load(i) => Key(i) # m
  PROVE  next'[l][m] = next[l][m] /\ prev'[l][m] = prev[l][m]
<1>0. TypeInv /\ BatchInv /\ LevelInv /\ SpliceInv /\ HelpInv
  BY DEF IInv
<1>1. m \in 0..(K + 1) /\ m # tail
  BY SizeFact DEF Nodes, tail
<1>2. CASE UNCHANGED <<next, prev>>
  BY <1>2
<1>3. ASSUME NEW i \in Writers, Load(i) PROVE next'[l][m] = next[l][m] /\ prev'[l][m] = prev[l][m]
  BY <1>0, <1>1, <1>3, LoadDoes
<1>4. ASSUME NEW i \in Writers, Help(i) \/ Back(i) \/ (Link(i) /\ CanLink(i))
      PROVE  next'[l][m] = next[l][m] /\ prev'[l][m] = prev[l][m]
  <2>1. w[i].pc \in Linking
    BY <1>4 DEF Help, Back, Link, Linking
  <2>2. PICK j \in Levels : j = w[i].lvl
    BY <1>0, <2>1, PlaceFact
  <2>3. w[i].p \in On(j) /\ w[i].n \in On(j) \cup {tail}
    BY <1>0, <2>1, <2>2, PlaceFact
  <2>4. l # j \/ (m # w[i].p /\ m # w[i].n)
    BY <1>1, <2>3
  <2>5. CASE Help(i)
    BY <1>0, <1>1, <2>2, <2>4, <2>5, HelpDoes, Leaves
  <2>6. CASE Back(i)
    BY <1>0, <1>1, <2>2, <2>4, <2>6, BackLink, Leaves
  <2>7. CASE Link(i) /\ CanLink(i)
    BY <1>0, <1>1, <2>2, <2>4, <2>7, LinkDoes, Leaves
  <2> QED BY <1>4, <2>5, <2>6, <2>7
<1>5. ASSUME NEW i \in Writers, Link(i), ~CanLink(i) PROVE UNCHANGED <<next, prev>>
  BY <1>0, <1>5, RelinkDoes, Leaves
<1>6. UNCHANGED <<next, prev>> \/ \E i \in Writers : Load(i) \/ Help(i) \/ Back(i) \/ Link(i)
  BY NextSplit, ReadingLeaves, Leaves DEF Writing
<1> QED BY <1>2, <1>3, <1>4, <1>5, <1>6
\* A writer that has its entry on a level and has still to set the successor's back link.
Behind(j, l, q, m, p) ==
  w[j].pc = "back" /\ w[j].lvl = l /\ Key(j) = q /\ w[j].n = m /\ w[j].p = p

\* BackInv is kept by the steps that link nothing.
LEMMA BackStay ==
  ASSUME IInv, Next, \A i \in Writers : ~(Link(i) /\ CanLink(i))
  PROVE  BackInv'
<1>0. TypeInv /\ BatchInv /\ LevelInv /\ SpliceInv /\ HelpInv /\ BackInv
  BY DEF IInv
<1>1. \A l \in Levels : On(l)' = On(l) /\ \A n \in On(l) : next'[l][n] = next[l][n]
  BY SameLevels
<1>2. ASSUME NEW l \in Levels, NEW m \in On(l) \cup {tail}, m # head
      PROVE  prev'[l][m] \in On(l) /\ prev'[l][m] < m
  <2>1. prev[l][m] \in On(l) /\ prev[l][m] < m
    BY <1>0, <1>2 DEF BackInv
  <2> QED BY <2>1, PrevMoves
<1>3. ASSUME NEW l \in Levels, NEW q \in On(l), NEW m, m = next[l][q]
      PROVE  prev'[l][m] = q \/ \E j \in Writers : Behind(j, l, q, m, prev[l][m])'
  <2>1. m \in On(l) \cup {tail}
    BY <1>0, <1>3 DEF LevelInv
  <2>2. CASE prev'[l][m] # prev[l][m]
    <3>1. prev'[l][m] \in On(l) /\ next[l][prev'[l][m]] = m
      BY <2>1, <2>2, PrevMoves
    <3>2. prev'[l][m] = q
      BY <1>0, <1>3, <3>1, Neighbours
    <3> QED BY <3>2
  <2>3. CASE prev'[l][m] = prev[l][m] /\ prev[l][m] # q
    <3>1. PICK j \in Writers : Behind(j, l, q, m, prev[l][m])
      BY <1>0, <1>3, <2>3 DEF BackInv, Behind
    <3>2. CASE w'[j] = w[j]
      BY <2>3, <3>1, <3>2 DEF Behind, Key
    <3>3. CASE Writing(j)
      <4>1. Back(j)
        BY <3>1, <3>3 DEF Behind, Writing, Prepare, Splice, Search, NewNode, Load, Check, Help, Link, Unref
      <4>2. prev'[l][m] = q
        BY <1>0, <3>1, <4>1, BackLink DEF Behind
      <4> QED BY <4>2
    <3> QED BY <3>2, <3>3, NextSplit, ReadingLeaves, WriterStep DEF Alone
  <2> QED BY <2>2, <2>3
<1>4. \A l \in Levels : \A m \in On(l)' \cup {tail} : m # head => prev'[l][m] \in On(l)' /\ prev'[l][m] < m
  BY <1>1, <1>2
<1>5. \A l \in Levels : \A q \in On(l)' :
        \/ prev'[l][next'[l][q]] = q
        \/ \E j \in Writers : /\ w'[j].pc = "back" /\ w'[j].lvl = l /\ Key(j)' = q
                              /\ w'[j].n = next'[l][q] /\ w'[j].p = prev'[l][next'[l][q]]
  <2>1. SUFFICES ASSUME NEW l \in Levels, NEW q \in On(l)', NEW m, m = next[l][q], next'[l][q] = m,
                        prev'[l][m] # q
                 PROVE  \E j \in Writers : /\ w'[j].pc = "back" /\ w'[j].lvl = l /\ Key(j)' = q
                                           /\ w'[j].n = m /\ w'[j].p = prev'[l][m]
    BY <1>1
  <2>2. PICK j \in Writers : Behind(j, l, q, m, prev[l][m])'
    BY <1>1, <1>3, <2>1
  <2> QED BY <2>2 DEF Behind
<1> QED BY <1>4, <1>5 DEF BackInv

\* BackInv is kept when an entry is linked: its writer is the one to set the back link.
LEMMA BackNew ==
  ASSUME IInv, Next, NEW i \in Writers, Link(i), CanLink(i)
  PROVE  BackInv'
<1>0. TypeInv /\ BatchInv /\ LevelInv /\ SpliceInv /\ HelpInv /\ BackInv
  BY DEF IInv
<1>1. w[i].pc = "link" /\ w[i].pc \in Linking /\ UNCHANGED prev
  BY Leaves DEF Link, Linking
<1>2. PICK l \in Levels : l = w[i].lvl
  BY <1>0, <1>1, PlaceFact
<1>3. PICK k, p, n : k = Key(i) /\ p = w[i].p /\ n = w[i].n
  OBVIOUS
<1>4. /\ p \in On(l) /\ n \in On(l) \cup {tail} /\ p \in 0..K /\ n \in 0..(K + 1) /\ k \in 0..K
      /\ p < k /\ k < n /\ k \notin On(l) /\ k \in Nodes
  BY <1>0, <1>1, <1>2, <1>3, PlaceFact
<1>5. /\ Alone(i) /\ Keeps(i) /\ w'[i].pc = "back" /\ w'[i].p = p /\ w'[i].n = n
      /\ next[l][p] = n /\ next[l][k] = n /\ prev[l][k] = p /\ prev[l][n] = p /\ next'[l][p] = k
      /\ \A j \in Levels, m \in 0..(K + 1) : j # l \/ m # p => next'[j][m] = next[j][m]
      /\ On(l)' = On(l) \cup {k} /\ \A j \in Levels : j # l => On(j)' = On(j)
  BY <1>0, <1>2, <1>3, LinkDoes
<1>6. Key(i)' = k /\ w'[i].lvl = l
  BY <1>2, <1>3, <1>5 DEF Keeps, Key
<1>7. ASSUME NEW a \in Levels, NEW m \in On(a)' \cup {tail}, m # head
      PROVE  prev'[a][m] \in On(a)' /\ prev'[a][m] < m
  <2>1. CASE a = l /\ m = k
    BY <1>1, <1>4, <1>5, <2>1
  <2>2. CASE m \in On(a) \cup {tail}
    <3>1. prev[a][m] \in On(a) /\ prev[a][m] < m
      BY <1>0, <1>7, <2>2 DEF BackInv
    <3> QED BY <1>1, <1>5, <3>1
  <2> QED BY <1>5, <1>7, <2>1, <2>2
<1>8. ASSUME NEW a \in Levels, NEW q \in On(a)', prev'[a][next'[a][q]] # q
      PROVE  \E j \in Writers : /\ w'[j].pc = "back" /\ w'[j].lvl = a /\ Key(j)' = q
                                /\ w'[j].n = next'[a][q] /\ w'[j].p = prev'[a][next'[a][q]]
  <2>1. CASE a = l /\ q = k
    <3>1. next'[l][k] = n
      BY <1>4, <1>5, SizeFact
    <3> QED BY <1>1, <1>5, <1>6, <2>1, <3>1
  <2>2. CASE a = l /\ q = p
    BY <1>1, <1>5, <1>8, <2>2
  <2>3. CASE (a # l \/ q # p) /\ (a # l \/ q # k)
    <3>1. q \in On(a) /\ q \in 0..(K + 1)
      BY <1>0, <1>5, <1>8, <2>3, OnFacts, SizeFact
    <3>2. next'[a][q] = next[a][q]
      BY <1>5, <2>3, <3>1
    <3>3. PICK j \in Writers : Behind(j, a, q, next[a][q], prev[a][next[a][q]])
      BY <1>0, <1>1, <1>8, <3>1, <3>2 DEF BackInv, Behind
    <3>4. j # i
      BY <1>1, <3>3 DEF Behind
    <3>5. w'[j] = w[j] /\ Key(j)' = Key(j)
      BY <1>5, <3>4 DEF Alone, Key
    <3> QED BY <1>1, <3>2, <3>3, <3>5 DEF Behind
  <2> QED BY <2>1, <2>2, <2>3
<1> QED BY <1>7, <1>8 DEF BackInv

\* BackInv is kept.
LEMMA BackStep == ASSUME IInv, Next PROVE BackInv'
BY BackStay, BackNew

\* What a writer knows of its back link stays true under the steps of others.
LEMMA HelpFrame ==
  ASSUME IInv, Next, NEW i \in Writers, w'[i] = w[i], ~Load(i)
  PROVE  HelpOf(i)'
<1>0. TypeInv /\ BatchInv /\ LevelInv /\ SpliceInv /\ HelpOf(i) /\ BackInv
  BY DEF IInv, HelpInv
<1>1. CASE w[i].pc \notin Linking
  BY <1>1 DEF HelpOf, Linking
<1>2. CASE w[i].pc \in Linking
  <2>1. PICK x, k, l : x = w[i] /\ k = Key(i) /\ l = w[i].lvl
    OBVIOUS
  <2>2. w'[i] = x /\ Key(i)' = k
    BY <2>1 DEF Key
  <2>3. /\ l \in Levels /\ x.p \in On(l) /\ x.n \in On(l) \cup {tail} /\ k \in Nodes
        /\ x.p \in Nat /\ k \in Nat /\ x.p < k /\ k < x.n /\ x.n # head
        /\ x.pc # "back" => k \notin On(l)
        /\ x.pc = "back" => k \in On(l)
    BY <1>0, <1>2, <2>1, PlaceFact DEF Nodes
  <2>4. ASSUME x.pc # "back" PROVE next'[l][k] = next[l][k] /\ prev'[l][k] = prev[l][k]
    <3>1. ASSUME NEW j \in Writers, Load(j) PROVE Key(j) # k
      <4>1. j # i /\ w[j].pc \notin {"idle", "unref"} /\ w[i].pc \notin {"idle", "unref"}
        BY <1>2, <3>1 DEF Load, Linking
      <4>2. /\ Key(j) = w[j].batch[1] /\ 1 \in DOMAIN w[j].batch
            /\ k = w[i].batch[1] /\ 1 \in DOMAIN w[i].batch
        BY <1>0, <2>1, <4>1, KeyFact
      <4> QED BY <1>0, <4>1, <4>2 DEF BatchInv
    <3> QED BY <2>3, <2>4, <3>1, OffLevel
  <2>5. PICK nx, pr, nx1, pr1 : nx = next[l][x.p] /\ pr = prev[l][x.n] /\ nx1 = next'[l][x.p] /\ pr1 = prev'[l][x.n]
    OBVIOUS
  <2>6. pr \in Nat /\ pr1 \in Nat /\ x.np \in Nat
    <3>1. x.n \in 0..(K + 1)
      BY <1>0, <2>3, OnFacts, SizeFact DEF tail
    <3>2. prev' \in Links /\ prev \in Links /\ x \in Writer
      BY <1>0, <2>1, LinksStep DEF TypeInv
    <3> QED BY <2>3, <2>5, <3>1, <3>2, SizeFact DEF Links, Offsets, Writer
  <2>7. pr1 = pr \/ (UNCHANGED next /\ pr < pr1 /\ pr1 \in On(l) /\ next[l][pr1] = x.n)
    BY <2>3, <2>5, PrevMoves
  <2>8. pr <= pr1
    BY <2>6, <2>7
  <2>9. nx1 = nx \/ (UNCHANGED prev /\ prev[l][nx] = x.p /\ nx1 # x.n)
    BY <2>3, <2>5, NextMoves
  <2>10. nx = x.n /\ pr1 # pr => pr1 = x.p
    BY <1>0, <2>3, <2>5, <2>7, Neighbours
  <2>11. ASSUME x.pc \in {"check", "help", "link"}
         PROVE  next'[l][k] = x.n /\ prev'[l][k] = x.p
    <3>1. next[l][k] = x.n /\ prev[l][k] = x.p
      BY <1>0, <2>1, <2>11 DEF HelpOf
    <3> QED BY <2>4, <2>11, <3>1
  <2>12. ASSUME x.pc \in {"check", "help"}
         PROVE  x.np <= pr1 /\ x.np # x.p /\ (nx1 = x.n => pr1 \in {x.np, x.p})
    <3>1. x.np <= pr /\ x.np # x.p /\ (nx = x.n => pr \in {x.np, x.p})
      BY <1>0, <2>1, <2>5, <2>12 DEF HelpOf
    <3>2. x.np <= pr1
      BY <2>6, <2>8, <3>1
    <3> QED BY <2>9, <2>10, <3>1, <3>2
  <2>13. ASSUME x.pc = "help" PROVE x.np < x.p /\ (nx1 = x.n \/ x.p <= pr1)
    <3>1. x.np < x.p /\ (nx = x.n \/ x.p <= pr)
      BY <1>0, <2>1, <2>5, <2>13 DEF HelpOf
    <3>2. CASE x.p <= pr
      BY <2>3, <2>6, <2>8, <3>1, <3>2
    <3>3. CASE nx = x.n /\ nx1 # nx
      <4>1. pr1 = x.p
        BY <2>5, <2>9, <3>3
      <4> QED BY <2>3, <3>1, <4>1
    <3> QED BY <3>1, <3>2, <3>3
  <2>14. ASSUME x.pc = "link", nx1 = x.n PROVE pr1 = x.p
    <3>1. nx = x.n => pr = x.p
      BY <1>0, <2>1, <2>5, <2>14 DEF HelpOf
    <3> QED BY <2>9, <2>10, <2>14, <3>1
  <2>15. ASSUME x.pc = "back" PROVE next'[l][k] = x.n \/ k <= pr1
    <3>1. next[l][k] = x.n \/ k <= pr
      BY <1>0, <2>1, <2>5, <2>15 DEF HelpOf
    <3>2. CASE k <= pr
      BY <2>3, <2>6, <2>8, <3>2
    <3>3. CASE next[l][k] = x.n /\ next'[l][k] # x.n
      <4>1. UNCHANGED prev /\ prev[l][x.n] = k
        BY <2>3, <2>15, <3>3, NextMoves
      <4>2. pr1 = k
        BY <2>5, <4>1
      <4> QED BY <2>3, <4>2
    <3> QED BY <3>1, <3>2, <3>3
  <2>16. x.lvl = l
    BY <2>1
  <2> QED BY <2>2, <2>5, <2>11, <2>12, <2>13, <2>14, <2>15, <2>16 DEF HelpOf
<1> QED BY <1>1, <1>2
\* What a writer learns of the back link by its own steps.
LEMMA HelpOwn ==
  ASSUME IInv, Next, NEW i \in Writers, Writing(i)
  PROVE  HelpOf(i)'
<1>0. TypeInv /\ BatchInv /\ LevelInv /\ SpliceInv /\ HelpInv /\ HelpOf(i) /\ BackInv
  BY DEF IInv, HelpInv
<1>1. CASE w'[i].pc \notin {"check", "help", "link", "back"}
  BY <1>1 DEF HelpOf
<1>2. CASE w'[i].pc \in {"check", "help", "link", "back"}
  <2>1. Load(i) \/ Check(i) \/ Help(i) \/ (Link(i) /\ CanLink(i))
    <3>1. ~Prepare(i) /\ ~Splice(i) /\ ~Search(i) /\ ~Unref(i)
      BY <1>0, <1>2, PrepareDoes, SpliceDoes, SearchDoes, UnrefDoes
    <3>2. ~NewNode(i)
      BY <1>2, NodeDoes
    <3>3. ~Back(i)
      BY <1>0, <1>2, MoreDoes, LastDoes
    <3>4. ~(Link(i) /\ ~CanLink(i))
      BY <1>0, <1>2, RelinkDoes
    <3> QED BY <3>1, <3>2, <3>3, <3>4 DEF Writing
  <2>2. w[i].pc \in Linking /\ w[i].pc # "back"
    BY <2>1 DEF Load, Check, Help, Link, Linking
  <2>3. PICK x, y, k : x = w'[i] /\ y = w[i] /\ k = Key(i)
    OBVIOUS
  <2>4. PICK l \in Levels : l = y.lvl
    BY <1>0, <2>2, <2>3, PlaceFact
  <2>5. /\ y.p \in On(l) /\ y.n \in On(l) \cup {tail} /\ k \in Nodes /\ k \notin On(l)
        /\ y.p \in Nat /\ k \in Nat /\ y.p < k /\ k < y.n /\ y.n # head /\ k # y.p
        /\ y.p \in 0..(K + 1) /\ y.n \in 0..(K + 1) /\ k \in 0..(K + 1) /\ k # y.n
    BY <1>0, <2>2, <2>3, <2>4, PlaceFact, SizeFact DEF Nodes
  <2>6. prev[l][y.n] \in Nat
    BY <1>0, <2>4, <2>5, SizeFact DEF TypeInv, Links, Offsets
  <2>7. CASE Load(i)
    <3>1. /\ Keeps(i) /\ x.p = y.p /\ x.n = y.n /\ x.np = prev[l][y.n]
          /\ x.pc = IF x.np = y.p THEN "link" ELSE "check"
          /\ next'[l][k] = y.n /\ prev'[l][k] = y.p
          /\ next'[l][y.p] = next[l][y.p] /\ prev'[l][y.n] = prev[l][y.n]
      BY <1>0, <2>3, <2>4, <2>5, <2>7, LoadDoes
    <3>2. Key(i)' = k /\ x.lvl = l
      BY <2>3, <2>4, <3>1 DEF Keeps, Key
    <3>3. x.np <= prev[l][y.n]
      BY <2>6, <3>1
    <3> QED BY <2>3, <3>1, <3>2, <3>3 DEF HelpOf
  <2>8. CASE Check(i)
    <3>1. /\ Keeps(i) /\ x.p = y.p /\ x.n = y.n /\ x.np = y.np /\ y.pc = "check"
          /\ x.pc = IF next[l][y.p] = y.n THEN "help" ELSE "link"
      BY <1>0, <2>3, <2>4, <2>8, CheckDoes
    <3>2. Key(i)' = k /\ x.lvl = l /\ UNCHANGED <<next, prev>>
      BY <2>3, <2>4, <2>8, <3>1, Leaves DEF Keeps, Key
    <3>3. /\ next[l][k] = y.n /\ prev[l][k] = y.p /\ y.np <= prev[l][y.n] /\ y.np # y.p
          /\ (next[l][y.p] = y.n => prev[l][y.n] \in {y.np, y.p})
      BY <1>0, <2>3, <2>4, <3>1 DEF HelpOf
    <3>4. ASSUME next[l][y.p] = y.n PROVE y.np < y.p
      <4>1. CASE prev[l][y.n] = y.p
        <5>1. y.np \in Nat
          BY <1>0, <2>3, SizeFact DEF TypeInv, Writer, Offsets
        <5> QED BY <2>5, <3>3, <4>1, <5>1
      <4>2. CASE prev[l][y.n] # y.p
        <5>1. PICK j \in Writers : Behind(j, l, y.p, y.n, prev[l][y.n])
          BY <1>0, <2>5, <3>4, <4>2 DEF BackInv, Behind
        <5>2. w[j].pc \in Linking
          BY <5>1 DEF Behind, Linking
        <5>3. w[j].p < Key(j)
          BY <1>0, <5>2, PlaceFact
        <5>4. prev[l][y.n] < y.p
          BY <5>1, <5>3 DEF Behind
        <5> QED BY <3>3, <3>4, <4>2, <5>4
      <4> QED BY <4>1, <4>2
    <3> QED BY <2>3, <3>1, <3>2, <3>3, <3>4 DEF HelpOf
  <2>9. CASE Help(i)
    <3>1. /\ Keeps(i) /\ x.p = y.p /\ x.n = y.n /\ y.pc = "help" /\ x.pc = "link"
          /\ prev'[l][y.n] = IF prev[l][y.n] = y.np THEN y.p ELSE prev[l][y.n]
          /\ prev'[l][k] = prev[l][k]
      BY <1>0, <2>3, <2>4, <2>5, <2>9, HelpDoes
    <3>2. Key(i)' = k /\ x.lvl = l /\ UNCHANGED next
      BY <2>3, <2>4, <2>9, <3>1, Leaves DEF Keeps, Key
    <3>3. /\ next[l][k] = y.n /\ prev[l][k] = y.p
          /\ (next[l][y.p] = y.n => prev[l][y.n] \in {y.np, y.p})
      BY <1>0, <2>3, <2>4, <3>1 DEF HelpOf
    <3> QED BY <2>3, <3>1, <3>2, <3>3 DEF HelpOf
  <2>10. CASE Link(i) /\ CanLink(i)
    <3>1. /\ Keeps(i) /\ x.p = y.p /\ x.n = y.n /\ x.pc = "back" /\ next[l][k] = y.n
          /\ next'[l][k] = next[l][k]
      BY <1>0, <2>3, <2>4, <2>5, <2>10, LinkDoes
    <3>2. Key(i)' = k /\ x.lvl = l
      BY <2>3, <2>4, <3>1 DEF Keeps, Key
    <3> QED BY <2>3, <3>1, <3>2 DEF HelpOf
  <2> QED BY <2>1, <2>7, <2>8, <2>9, <2>10
<1> QED BY <1>1, <1>2

\* HelpInv is kept.
LEMMA HelpStep == ASSUME IInv, Next PROVE HelpInv'
<1>1. SUFFICES ASSUME NEW i \in Writers PROVE HelpOf(i)'
  BY DEF HelpInv
<1>2. CASE Writing(i)
  BY <1>2, HelpOwn
<1>3. CASE ~Writing(i)
  <2>1. w'[i] = w[i]
    BY <1>3, NextSplit, ReadingLeaves, WriterStep DEF Alone
  <2> QED BY <1>3, <2>1, HelpFrame DEF Writing
<1> QED BY <1>2, <1>3
-----------------------------------------------------------------------------
(***************************************************************************)
(* The reader and the room.                                                *)
(***************************************************************************)

\* An entry that was added is on the lowest level.
LEMMA DoneOn ==
  ASSUME TypeInv, LevelInv, NEW n \in done
  PROVE  0 \in Levels /\ n \in On(0)
<1>1. n \in Nodes /\ tower[n] > 0 /\ 0 \in Levels
  BY SizeFact DEF TypeInv, LevelInv, Levels
<1>2. 0 < tower[n]
  BY <1>1
<1> QED BY <1>1, <1>2 DEF LevelInv

\* The next node of an iterator.
LEMMA IterDoes ==
  ASSUME TypeInv, LevelInv, ReadInv, IterNext
  PROVE  /\ r' \in Reader /\ r'.pc = "found" /\ r'.at \in On(0) \cup {tail} /\ r'.at <= r'.owed
<1>1. r.pc = "found" /\ r.at # tail /\ r.at \in On(0) /\ r \in Reader /\ 0 \in Levels
  BY SizeFact DEF IterNext, ReadInv, TypeInv, Levels
<1>2. PICK a, d, n : a = r.at /\ d = Due(r.at + 1) /\ n = next[0][r.at]
  OBVIOUS
<1>3. a \in 0..K /\ a + 1 \in Nat /\ a + 1 <= tail
  BY <1>1, <1>2, OnFacts, SizeFact DEF tail
<1>4. d \in done \cup {tail} /\ a + 1 <= d /\ d \in 0..(K + 1)
  BY <1>2, <1>3, DueFact DEF TypeInv
<1>5. n \in On(0) \cup {tail} /\ \A m \in On(0) : a < m => n <= m
  BY <1>1, <1>2 DEF LevelInv
<1>6. n \in 0..(K + 1) /\ n <= tail
  BY <1>1, <1>5, OnFacts, SizeFact DEF tail
<1>7. n <= d
  <2>1. CASE d = tail
    BY <1>6, <2>1
  <2>2. CASE d \in done
    <3>1. d \in On(0) /\ a < d
      BY <1>3, <1>4, <2>2, DoneOn
    <3> QED BY <1>5, <3>1
  <2> QED BY <1>4, <2>1, <2>2
<1>8. r' = [r EXCEPT !.at = n, !.owed = d]
  BY <1>2 DEF IterNext
<1> QED BY <1>1, <1>4, <1>5, <1>6, <1>7, <1>8 DEF Reader

\* A lookup begins.
LEMMA SeekDoes ==
  ASSUME TypeInv, LevelInv, Seek
  PROVE  /\ r' \in Reader /\ r'.pc = "walk" /\ r'.lvl = height /\ r'.key > 0 /\ r'.at = head
         /\ head < SearchKey(r'.key) /\ SearchKey(r'.key) <= r'.owed /\ r'.owed \in done \cup {tail}
<1>1. PICK u \in {UserKey(n) : n \in Nodes} :
        r' = [pc |-> "walk", key |-> u, lvl |-> height, at |-> head, owed |-> Due(SearchKey(u))]
  BY DEF Seek
<1>2. PICK n \in Nodes : u = UserKey(n)
  OBVIOUS
<1>3. u \in Nat /\ u > 0 /\ SearchKey(u) \in Nat /\ SearchKey(u) > 0 /\ SearchKey(u) <= n
  BY <1>2, SeekKeyFact
<1>4. PICK k, d : k = SearchKey(u) /\ d = Due(SearchKey(u))
  OBVIOUS
<1>5. k \in Nat /\ k <= tail
  BY <1>3, <1>4, SizeFact DEF Nodes, tail
<1>6. d \in done \cup {tail} /\ k <= d /\ d \in 0..(K + 1)
  BY <1>4, <1>5, DueFact DEF TypeInv
<1>7. height \in Heights /\ head \in 0..(K + 1) /\ head < k
  BY <1>3, <1>4, SizeFact DEF TypeInv, Heights, head
<1>8. r' = [pc |-> "walk", key |-> u, lvl |-> height, at |-> head, owed |-> d]
  BY <1>1, <1>4
<1>9. r' \in Reader /\ r'.pc = "walk" /\ r'.lvl = height /\ r'.key = u /\ r'.at = head /\ r'.owed = d
  BY <1>3, <1>6, <1>7, <1>8 DEF Reader
<1> QED BY <1>3, <1>4, <1>6, <1>7, <1>9

\* ReadInv is kept.
LEMMA ReadStep == ASSUME IInv, Next PROVE ReadInv'
<1>0. TypeInv /\ BatchInv /\ LevelInv /\ SpliceInv /\ HelpInv /\ ReadInv
  BY DEF IInv
<1>1. height \in Nat /\ height' \in Nat /\ height <= height' /\ 0 \in Levels /\ \A l \in Levels : l \in Nat
  BY <1>0, HeightStep, SizeFact DEF TypeInv, Levels
<1>2. ASSUME NEW i \in Writers, Writing(i) PROVE ReadInv'
  <2>1. r' = r
    BY <1>2, Leaves DEF Writing
  <2>2. done \subseteq done'
    BY <1>0, <1>2, Leaves, MoreDoes, LastDoes DEF Writing
  <2>3. \A l \in Levels : On(l) \subseteq On(l)'
    BY Grow
  <2>4. r.pc = "walk" => r.lvl <= height'
    BY <1>0, <1>1, SizeFact DEF ReadInv, TypeInv, Reader, Heights
  <2> QED BY <1>0, <1>1, <2>1, <2>2, <2>3, <2>4 DEF ReadInv
<1>3. ASSUME Reading PROVE ReadInv'
  <2>0. UNCHANGED <<next, height, done>>
    BY <1>3, ReadingLeaves
  <2>1. \A l \in Levels : On(l)' = On(l)
    BY <2>0 DEF On
  <2>2. CASE Seek
    <3>1. /\ r' \in Reader /\ r'.pc = "walk" /\ r'.lvl = height /\ r'.key > 0 /\ r'.at = head
          /\ head < SearchKey(r'.key) /\ SearchKey(r'.key) <= r'.owed /\ r'.owed \in done \cup {tail}
      BY <1>0, <2>2, SeekDoes
    <3>2. height > 0 /\ height <= height /\ \A l \in Levels : head \in On(l)
      BY <1>0, OnFacts, SizeFact DEF TypeInv
    <3> QED BY <2>0, <2>1, <3>1, <3>2 DEF ReadInv, SearchKey
  <2>3. CASE SeekLevel
    <3>1. PICK l, k, s : l = r.lvl - 1 /\ k = SearchKey(r.key) /\ s = Walk(l, r.at, k)
      OBVIOUS
    <3>2. /\ r.pc = "walk" /\ l \in Levels /\ l < r.lvl /\ r' \in Reader
          /\ k \in Nat /\ k <= K + 1
          /\ s.p \in On(l) /\ s.p < k /\ s.n \in On(l) \cup {tail}
          /\ \A m \in On(l) \cup {tail} : k <= m => s.n <= m
          /\ l > 0 => r'.pc = "walk" /\ r'.lvl = l /\ r'.at = s.p
          /\ l = 0 => r'.pc = "found" /\ r'.at = s.n
          /\ r'.key = r.key /\ r'.owed = r.owed
      BY <1>0, <2>3, <3>1, SeekLevelDoes
    <3>3. /\ r.lvl <= height /\ r.key > 0 /\ k <= r.owed /\ r.owed \in done \cup {tail}
      BY <1>0, <3>1, <3>2 DEF ReadInv
    <3>4. CASE l > 0
      <4>1. l <= height
        BY <1>0, <1>1, <3>2, <3>3, SizeFact DEF TypeInv, Reader, Heights
      <4>2. \A m \in Levels : m < l => s.p \in On(m)
        BY <1>0, <3>2 DEF LevelInv
      <4>3. SearchKey(r'.key) = k
        BY <3>1, <3>2
      <4>4. r'.pc = "walk" /\ r'.lvl = l /\ r'.at = s.p /\ r'.owed = r.owed /\ r'.key = r.key
        BY <3>2, <3>4
      <4> QED BY <2>0, <2>1, <3>2, <3>3, <3>4, <4>1, <4>2, <4>3, <4>4 DEF ReadInv, SearchKey
    <3>5. CASE l = 0
      <4>1. r.owed \in On(0) \cup {tail}
        BY <1>0, <3>3, DoneOn
      <4>2. s.n <= r.owed
        BY <3>2, <3>3, <3>5, <4>1
      <4>3. r'.pc = "found" /\ r'.at = s.n /\ r'.owed = r.owed
        BY <3>2, <3>5
      <4> QED BY <1>1, <2>1, <3>2, <3>5, <4>2, <4>3 DEF ReadInv
    <3> QED BY <1>1, <3>2, <3>4, <3>5
  <2>4. CASE Return
    BY <2>4 DEF Return, NoGet, ReadInv
  <2>5. CASE IterNext
    BY <1>0, <1>1, <2>1, <2>5, IterDoes DEF ReadInv
  <2> QED BY <1>3, <2>2, <2>3, <2>4, <2>5 DEF Reading
<1> QED BY <1>2, <1>3, NextSplit
\* Sets of entries are finite.
LEMMA NodeSets ==
  ASSUME NEW T \in SUBSET Nodes, NEW S \in SUBSET T
  PROVE  /\ IsFiniteSet(S) /\ IsFiniteSet(T) /\ Cardinality(S) \in Nat /\ Cardinality(T) \in Nat
         /\ Cardinality(S) <= Cardinality(T)
<1>1. IsFiniteSet(1..K)
  BY SizeFact, FS_Interval
<1>2. IsFiniteSet(T)
  BY <1>1, FS_Subset DEF Nodes
<1>3. IsFiniteSet(S) /\ Cardinality(S) <= Cardinality(T)
  BY <1>2, FS_Subset
<1> QED BY <1>2, <1>3, FS_CardinalityType

\* A batch has at most as many entries as its length.
LEMMA BatchSize ==
  ASSUME NEW b \in Batches
  PROVE  Range(b) \in SUBSET Nodes /\ Cardinality(Range(b)) <= Len(b) /\ Len(b) \in Nat
<1>1. b \in [1..Len(b) -> Nodes] /\ Len(b) \in Nat /\ DOMAIN b = 1..Len(b)
  BY DEF Batches
<1>2. Range(b) \in SUBSET Nodes
  BY <1>1 DEF Range
<1>3. b \in Surjection(1..Len(b), Range(b))
  BY <1>1 DEF Surjection, Range
<1>4. IsFiniteSet(1..Len(b)) /\ Cardinality(1..Len(b)) = Len(b)
  <2>1. PICK s \in Nat : s = Len(b)
    BY <1>1
  <2>2. IsFiniteSet(1..s) /\ Cardinality(1..s) = IF 1 > s THEN 0 ELSE s - 1 + 1
    BY FS_Interval
  <2> QED BY <2>1, <2>2
<1> QED BY <1>1, <1>2, <1>3, <1>4, FS_Surjection

\* Entries leave Pending or stay, and the writers inside a batch stay the same.
LEMMA RoomSame ==
  ASSUME IInv, Next, UNCHANGED <<size, reserved, refs>>, Pending' \subseteq Pending, Active' = Active,
         RoomSuffices'
  PROVE  RoomInv'
<1>0. RoomInv /\ TypeInv
  BY DEF IInv
<1>1. Pending \in SUBSET Nodes /\ Pending' \in SUBSET Pending
  BY DEF Pending
<1>2. PICK c, d : c = Cardinality(Pending) /\ d = Cardinality(Pending')
  OBVIOUS
<1>3. c \in Nat /\ d \in Nat /\ d <= c
  BY <1>1, <1>2, NodeSets
<1>4. size \in Nat /\ reserved \in Nat /\ MaxNodeSize \in Nat /\ Reserved \in Nat
  BY <1>0, SizeFact DEF TypeInv, MaxNodeSize, Reserved
<1>5. MaxNodeSize * d <= MaxNodeSize * c /\ MaxNodeSize * d \in Nat /\ MaxNodeSize * c \in Nat
  BY <1>3, <1>4
<1>6. Reserved' = Reserved
  BY DEF Reserved
<1>7. size + MaxNodeSize * c <= Reserved
  BY <1>0, <1>2 DEF RoomInv
<1>8. size + MaxNodeSize * d <= Reserved
  BY <1>4, <1>5, <1>7
<1>9. size' + MaxNodeSize * Cardinality(Pending') <= Reserved'
  BY <1>2, <1>6, <1>8
<1>10. /\ IsFiniteSet(Active') /\ refs' = 1 + Cardinality(Active') /\ Reserved' <= Capacity
  BY <1>0, <1>6 DEF RoomInv
<1> QED BY <1>9, <1>10 DEF RoomInv, MaxNodeSize

\* The writers inside a batch, after a step within it.
LEMMA SameActive ==
  ASSUME NEW i \in Writers, Alone(i), w[i].pc # "idle", w'[i].pc # "idle"
  PROVE  Active' = Active
<1>1. \A j \in Writers : w'[j].pc # "idle" <=> w[j].pc # "idle"
  BY DEF Alone
<1> QED BY <1>1 DEF Active

\* Entries that were pending stay so or get their node.
LEMMA LessPending ==
  ASSUME NEW i \in Writers, Alone(i), \A n \in Nodes : tower'[n] = 0 => tower[n] = 0,
         \A a \in DOMAIN w'[i].batch : \E b \in DOMAIN w[i].batch : w'[i].batch[a] = w[i].batch[b]
  PROVE  Pending' \subseteq Pending
<1>1. \A j \in Writers : Range(w'[j].batch) \subseteq Range(w[j].batch)
  BY DEF Alone, Range
<1>2. Pending' = {n \in Nodes : tower'[n] = 0 /\ \E j \in Writers : n \in Range(w'[j].batch)}
  BY DEF Pending
<1> QED BY <1>1, <1>2 DEF Pending

\* RoomInv is kept by the steps of a batch that allocate nothing.
LEMMA RoomWithin ==
  ASSUME IInv, Next, NEW i \in Writers, Writing(i), ~Prepare(i), ~Unref(i), ~NewNode(i)
  PROVE  RoomInv'
<1>0. TypeInv /\ BatchInv /\ LevelInv /\ SpliceInv /\ HelpInv /\ RoomInv
  BY DEF IInv
<1>1. Alone(i) /\ UNCHANGED <<size, reserved, refs, tower>>
  BY WriterStep, Leaves DEF Writing
<1>2. /\ w[i].pc # "idle" /\ w'[i].pc \notin {"idle", "full"}
      /\ \A a \in DOMAIN w'[i].batch : \E b \in DOMAIN w[i].batch : w'[i].batch[a] = w[i].batch[b]
  <2>1. CASE Splice(i)
    BY <1>0, <2>1, SpliceDoes
  <2>2. CASE Search(i)
    BY <1>0, <2>2, SearchDoes
  <2>3. CASE Load(i) \/ Check(i) \/ Help(i) \/ Link(i) \/ (Back(i) /\ w[i].lvl + 1 < w[i].h)
    BY <2>3, LinkingDoes DEF Linking
  <2>4. CASE Back(i) /\ ~(w[i].lvl + 1 < w[i].h)
    <3>1. w'[i].pc \in {"unref", "splice"} /\ w[i].pc = "back"
      BY <1>0, <2>4, LastDoes DEF Back
    <3> QED BY <2>4, <3>1, LastBatch
  <2> QED BY <2>1, <2>2, <2>3, <2>4 DEF Writing
<1>3. RoomSuffices'
  BY <1>0, <1>1, <1>2 DEF RoomInv, RoomSuffices, Alone
<1>4. Active' = Active
  BY <1>1, <1>2, SameActive
<1>5. Pending' \subseteq Pending
  BY <1>1, <1>2, LessPending
<1> QED BY <1>1, <1>3, <1>4, <1>5, RoomSame

\* newNode takes no more room than was set aside for its entry.
LEMMA RoomNode ==
  ASSUME IInv, Next, NEW i \in Writers, NewNode(i)
  PROVE  RoomInv'
<1>0. TypeInv /\ BatchInv /\ RoomInv
  BY DEF IInv
<1>1. PICK h \in 1..MaxHeight :
           /\ Alone(i) /\ w[i].pc = "search" /\ w'[i].pc = "load" /\ w'[i].batch = w[i].batch
           /\ size' = size + 1 + h /\ Key(i) \in Nodes /\ tower[Key(i)] = 0 /\ tower'[Key(i)] = h
           /\ \A n \in Nodes : n # Key(i) => tower'[n] = tower[n]
  BY NodeDoes
<1>2. UNCHANGED <<reserved, refs>>
  BY Leaves
<1>3. Active' = Active
  BY <1>1, SameActive
<1>4. Pending' \subseteq Pending /\ Key(i) \notin Pending' /\ Key(i) \in Pending
  <2>1. h # 0
    OBVIOUS
  <2>2. Pending' \subseteq Pending
    BY <1>1, <2>1, LessPending
  <2>3. Key(i) \notin Pending'
    BY <1>1, <2>1 DEF Pending
  <2>4. Key(i) = w[i].batch[1] /\ 1 \in DOMAIN w[i].batch
    BY <1>0, <1>1, KeyFact
  <2> QED BY <1>1, <2>2, <2>3, <2>4 DEF Pending, Range
<1>5. PICK c, d : c = Cardinality(Pending) /\ d = Cardinality(Pending')
  OBVIOUS
<1>6. c \in Nat /\ d \in Nat /\ d + 1 <= c
  <2>1. Pending \in SUBSET Nodes /\ Pending' \in SUBSET (Pending \ {Key(i)})
    BY <1>4 DEF Pending
  <2>2. IsFiniteSet(Pending) /\ c \in Nat
    BY <1>5, <2>1, NodeSets
  <2>3. Cardinality(Pending \ {Key(i)}) = c - 1 /\ IsFiniteSet(Pending \ {Key(i)})
    BY <1>4, <1>5, <2>2, FS_RemoveElement
  <2>4. d <= c - 1
    BY <1>5, <2>1, <2>3, FS_Subset
  <2>5. d \in Nat
    BY <1>5, <2>1, <2>3, FS_Subset, FS_CardinalityType
  <2> QED BY <2>2, <2>4, <2>5
<1>7. size \in Nat /\ reserved \in Nat /\ MaxNodeSize \in Nat /\ Reserved \in Nat /\ 1 + h <= MaxNodeSize /\ h \in Nat
  BY <1>0, SizeFact DEF TypeInv, MaxNodeSize, Reserved
<1>8. MaxNodeSize * d + MaxNodeSize <= MaxNodeSize * c /\ MaxNodeSize * d \in Nat /\ MaxNodeSize * c \in Nat
  <2>1. PICK e \in Nat : c = d + 1 + e
    <3>1. c - d - 1 \in Nat /\ c = d + 1 + (c - d - 1)
      BY <1>6
    <3> QED BY <3>1
  <2>2. MaxNodeSize * c = MaxNodeSize * d + MaxNodeSize + MaxNodeSize * e /\ MaxNodeSize * e \in Nat
    BY <1>6, <1>7, <2>1
  <2>3. MaxNodeSize * d \in Nat
    BY <1>6, <1>7
  <2> QED BY <1>7, <2>2, <2>3
<1>9. size + MaxNodeSize * c <= Reserved /\ Reserved <= Capacity
  BY <1>0, <1>5 DEF RoomInv
<1>10. Reserved = reserved /\ Reserved' = reserved
  <2>1. i \in Active /\ IsFiniteSet(Active) /\ refs = 1 + Cardinality(Active)
    BY <1>0, <1>1 DEF Active, RoomInv
  <2>2. refs # 1
    BY <2>1, FS_EmptySet, FS_CardinalityType
  <2> QED BY <1>2, <2>2 DEF Reserved
<1>11. size' + MaxNodeSize * d <= reserved
  BY <1>1, <1>7, <1>8, <1>9, <1>10
<1>12. RoomSuffices'
  BY <1>0, <1>1 DEF RoomInv, RoomSuffices, Alone
<1>13. /\ IsFiniteSet(Active') /\ refs' = 1 + Cardinality(Active')
  BY <1>0, <1>2, <1>3 DEF RoomInv
<1> QED BY <1>5, <1>9, <1>10, <1>11, <1>12, <1>13 DEF RoomInv, MaxNodeSize

\* prepare sets room aside for each entry of the batch.
LEMMA RoomPrepare ==
  ASSUME IInv, Next, NEW i \in Writers, Prepare(i)
  PROVE  RoomInv'
<1>0. TypeInv /\ BatchInv /\ RoomInv
  BY DEF IInv
<1>1. PICK b \in Batches :
           /\ Len(b) * MaxNodeSize <= Capacity - Reserved
           /\ reserved' = Reserved + Len(b) * MaxNodeSize
           /\ Alone(i) /\ w'[i].pc = "splice" /\ w'[i].batch = b
  BY <1>0, PrepareDoes
<1>2. UNCHANGED <<tower, size>> /\ refs' = refs + 1 /\ w[i].pc = "idle"
  BY Leaves DEF Prepare
<1>3. Active' = Active \cup {i} /\ i \notin Active
  <2>1. \A j \in Writers : j # i => w'[j] = w[j]
    BY <1>1 DEF Alone
  <2> QED BY <1>1, <1>2, <2>1 DEF Active
<1>4. IsFiniteSet(Active') /\ refs' = 1 + Cardinality(Active') /\ refs' # 1
  <2>1. IsFiniteSet(Active) /\ refs = 1 + Cardinality(Active) /\ Cardinality(Active) \in Nat
    BY <1>0, FS_CardinalityType DEF RoomInv
  <2>2. IsFiniteSet(Active') /\ Cardinality(Active') = Cardinality(Active) + 1
    BY <1>3, <2>1, FS_AddElement
  <2> QED BY <1>2, <2>1, <2>2
<1>5. Pending' \subseteq Pending \cup Range(b)
  <2>1. \A j \in Writers : j # i => w'[j] = w[j]
    BY <1>1 DEF Alone
  <2>2. Pending' = {n \in Nodes : tower[n] = 0 /\ \E j \in Writers : n \in Range(w'[j].batch)}
    BY <1>2 DEF Pending
  <2> QED BY <1>1, <2>1, <2>2 DEF Pending
<1>6. PICK c, d, s : c = Cardinality(Pending) /\ d = Cardinality(Pending') /\ s = Len(b)
  OBVIOUS
<1>7. c \in Nat /\ d \in Nat /\ s \in Nat /\ d <= c + s
  <2>1. Range(b) \in SUBSET Nodes /\ Cardinality(Range(b)) <= s /\ s \in Nat
    BY <1>6, BatchSize
  <2>2. Pending \in SUBSET Nodes /\ Pending \cup Range(b) \in SUBSET Nodes
        /\ Pending' \in SUBSET (Pending \cup Range(b)) /\ Pending \cap Range(b) \in SUBSET Nodes
    BY <1>5, <2>1 DEF Pending
  <2>3. /\ IsFiniteSet(Pending) /\ IsFiniteSet(Range(b)) /\ c \in Nat /\ Cardinality(Range(b)) \in Nat
        /\ Cardinality(Pending \cap Range(b)) \in Nat
    BY <1>6, <2>1, <2>2, NodeSets
  <2>4. Cardinality(Pending \cup Range(b)) = c + Cardinality(Range(b)) - Cardinality(Pending \cap Range(b))
    BY <1>6, <2>3, FS_Union
  <2>5. d \in Nat /\ d <= Cardinality(Pending \cup Range(b))
    BY <1>6, <2>2, NodeSets
  <2> QED BY <2>1, <2>3, <2>4, <2>5
<1>8. size \in Nat /\ MaxNodeSize \in Nat /\ Reserved \in Nat /\ Capacity \in Nat
  BY <1>0, SizeFact DEF TypeInv, MaxNodeSize, Reserved
<1>9. size + MaxNodeSize * c <= Reserved
  BY <1>0, <1>6 DEF RoomInv
<1>10. MaxNodeSize * d <= MaxNodeSize * c + s * MaxNodeSize /\ MaxNodeSize * d \in Nat /\ MaxNodeSize * c \in Nat
       /\ s * MaxNodeSize \in Nat
  <2>1. PICK e \in Nat : c + s = d + e
    <3>1. c + s - d \in Nat /\ c + s = d + (c + s - d)
      BY <1>7
    <3> QED BY <3>1
  <2>2. MaxNodeSize * (c + s) = MaxNodeSize * d + MaxNodeSize * e
    BY <1>7, <1>8, <2>1
  <2>3. MaxNodeSize * (c + s) = MaxNodeSize * c + s * MaxNodeSize
    BY <1>7, <1>8
  <2>4. MaxNodeSize * d \in Nat /\ MaxNodeSize * c \in Nat /\ s * MaxNodeSize \in Nat /\ MaxNodeSize * e \in Nat
    BY <1>7, <1>8
  <2> QED BY <2>2, <2>3, <2>4
<1>11. Reserved' = Reserved + s * MaxNodeSize /\ s * MaxNodeSize <= Capacity - Reserved
  BY <1>1, <1>4, <1>6 DEF Reserved
<1>12. size' + MaxNodeSize * d <= Reserved' /\ Reserved' <= Capacity
  BY <1>2, <1>8, <1>9, <1>10, <1>11
<1>13. RoomSuffices'
  BY <1>0, <1>1 DEF RoomInv, RoomSuffices, Alone
<1> QED BY <1>4, <1>6, <1>12, <1>13 DEF RoomInv, MaxNodeSize

\* writerUnref: what a finished batch did not use is given back with the last writer.
LEMMA RoomUnref ==
  ASSUME IInv, Next, NEW i \in Writers, Unref(i)
  PROVE  RoomInv'
<1>0. TypeInv /\ BatchInv /\ RoomInv
  BY DEF IInv
<1>1. Alone(i) /\ w[i].pc = "unref" /\ w'[i].pc = "idle" /\ w'[i].batch = <<>>
  BY <1>0, UnrefDoes
<1>2. UNCHANGED <<tower, size, reserved>> /\ refs' = refs - 1
  BY Leaves
<1>3. Active' = Active \ {i} /\ i \in Active
  <2>1. \A j \in Writers : j # i => w'[j] = w[j]
    BY <1>1 DEF Alone
  <2> QED BY <1>1, <2>1 DEF Active
<1>4. IsFiniteSet(Active') /\ refs' = 1 + Cardinality(Active') /\ Cardinality(Active') \in Nat /\ refs # 1
  <2>1. IsFiniteSet(Active) /\ refs = 1 + Cardinality(Active) /\ Cardinality(Active) \in Nat
    BY <1>0, FS_CardinalityType DEF RoomInv
  <2>2. IsFiniteSet(Active') /\ Cardinality(Active') = Cardinality(Active) - 1
    BY <1>3, <2>1, FS_RemoveElement
  <2>3. Cardinality(Active') \in Nat
    BY <2>2, FS_CardinalityType
  <2> QED BY <1>2, <2>1, <2>2, <2>3
<1>5. DOMAIN w'[i].batch = {}
  BY <1>1
<1>6. Pending' \subseteq Pending
  BY <1>1, <1>2, <1>5, LessPending
<1>7. PICK c, d : c = Cardinality(Pending) /\ d = Cardinality(Pending')
  OBVIOUS
<1>8. c \in Nat /\ d \in Nat /\ d <= c
  <2>1. Pending \in SUBSET Nodes /\ Pending' \in SUBSET Pending
    BY <1>6 DEF Pending
  <2> QED BY <1>7, <2>1, NodeSets
<1>9. size \in Nat /\ MaxNodeSize \in Nat /\ reserved \in Nat /\ Capacity \in Nat
  BY <1>0, SizeFact DEF TypeInv, MaxNodeSize
<1>10. size + MaxNodeSize * c <= reserved /\ reserved <= Capacity
  BY <1>0, <1>4, <1>7 DEF RoomInv, Reserved
<1>11. MaxNodeSize * d <= MaxNodeSize * c /\ MaxNodeSize * d \in Nat /\ MaxNodeSize * c \in Nat
  BY <1>8, <1>9
<1>12. RoomSuffices'
  BY <1>0, <1>1 DEF RoomInv, RoomSuffices, Alone
<1>13. size' + MaxNodeSize * d <= Reserved' /\ Reserved' <= Capacity
  <2>1. CASE refs' # 1
    <3>1. Reserved' = reserved
      BY <1>2, <2>1 DEF Reserved
    <3> QED BY <1>2, <1>9, <1>10, <1>11, <3>1
  <2>2. CASE refs' = 1
    <3>1. Active' = {}
      BY <1>4, <2>2, FS_EmptySet
    <3>2. \A j \in Writers : w'[j].pc = "idle"
      BY <3>1 DEF Active
    <3>3. \A j \in Writers : w'[j].batch = <<>>
      BY <3>2, BatchStep DEF BatchInv
    <3>4. Pending' = {}
      <4>1. \A j \in Writers : Range(w'[j].batch) = {}
        BY <3>3 DEF Range
      <4>2. Pending' = {n \in Nodes : tower'[n] = 0 /\ \E j \in Writers : n \in Range(w'[j].batch)}
        BY DEF Pending
      <4> QED BY <4>1, <4>2
    <3>5. d = 0
      BY <1>7, <3>4, FS_EmptySet
    <3>6. Reserved' = size
      BY <1>2, <2>2 DEF Reserved
    <3> QED BY <1>2, <1>9, <1>10, <1>11, <3>5, <3>6
  <2> QED BY <2>1, <2>2
<1> QED BY <1>4, <1>7, <1>12, <1>13 DEF RoomInv, MaxNodeSize

\* RoomInv is kept.
LEMMA RoomStep == ASSUME IInv, Next PROVE RoomInv'
<1>1. CASE Reading
  <2>1. UNCHANGED <<size, reserved, refs, tower, w>> /\ RoomInv
    BY <1>1, ReadingLeaves DEF IInv
  <2>2. Pending' = Pending /\ Active' = Active /\ RoomSuffices'
    BY <2>1 DEF Pending, Active, RoomInv, RoomSuffices
  <2> QED BY <2>1, <2>2, RoomSame
<1> QED BY <1>1, NextSplit, RoomWithin, RoomNode, RoomPrepare, RoomUnref
-----------------------------------------------------------------------------
(***************************************************************************)
(* The theorems.                                                           *)
(***************************************************************************)

\* TypeInv is kept.
LEMMA TypeStep == ASSUME IInv, Next PROVE TypeInv'
<1>0. TypeInv /\ BatchInv /\ LevelInv /\ SpliceInv /\ HelpInv /\ ReadInv /\ RoomInv
  BY DEF IInv
<1>1. next' \in Links /\ prev' \in Links /\ height' \in 1..MaxHeight /\ tower' \in [Nodes -> Heights]
  BY LinksStep, HeightStep
<1>2. ASSUME Reading PROVE TypeInv'
  <2>1. UNCHANGED <<size, reserved, refs, w, done>>
    BY <1>2, ReadingLeaves
  <2>2. r' \in Reader
    <3>1. CASE Return
      BY <3>1, SizeFact DEF Return, NoGet, Reader, Heights, head, tail
    <3> QED BY <1>0, <1>2, <3>1, SeekDoes, SeekLevelDoes, IterDoes DEF Reading
  <2> QED BY <1>0, <1>1, <2>1, <2>2 DEF TypeInv
<1>3. ASSUME NEW i \in Writers, Writing(i) PROVE TypeInv'
  <2>1. w' \in [Writers -> Writer] /\ r' = r
    BY <1>3, WriterStep, Leaves DEF Alone, Writing
  <2>2. done' \subseteq Nodes
    <3>1. CASE Back(i)
      <4>1. Key(i) \in Nodes
        BY <1>0, <3>1, KeyFact DEF Back
      <4> QED BY <1>0, <3>1, <4>1, MoreDoes, LastDoes DEF TypeInv
    <3> QED BY <1>0, <1>3, <3>1, Leaves DEF Writing, TypeInv
  <2>3. size' \in Nat
    <3>1. CASE NewNode(i)
      <4>1. PICK h \in 1..MaxHeight : size' = size + 1 + h
        BY <3>1, NodeDoes
      <4> QED BY <1>0, <4>1, SizeFact DEF TypeInv
    <3> QED BY <1>0, <1>3, <3>1, Leaves DEF Writing, TypeInv
  <2>4. reserved' \in Nat /\ refs' \in Nat
    <3>1. CASE Prepare(i)
      <4>1. PICK b \in Batches : reserved' = Reserved + Len(b) * MaxNodeSize
        BY <1>0, <3>1, PrepareDoes
      <4>2. Len(b) \in Nat /\ Reserved \in Nat /\ MaxNodeSize \in Nat /\ refs \in Nat /\ refs' = refs + 1
        BY <1>0, <3>1, BatchSize, Leaves, SizeFact DEF TypeInv, MaxNodeSize, Reserved
      <4>3. PICK s \in Nat : s = Len(b)
        BY <4>2
      <4> QED BY <4>1, <4>2, <4>3
    <3>2. CASE Unref(i)
      <4>1. w[i].pc = "unref" /\ reserved' = reserved /\ refs' = refs - 1
        BY <3>2, Leaves DEF Unref
      <4>2. i \in Active /\ IsFiniteSet(Active) /\ refs = 1 + Cardinality(Active)
        BY <1>0, <4>1 DEF Active, RoomInv
      <4>3. Cardinality(Active) \in Nat
        BY <4>2, FS_CardinalityType
      <4> QED BY <1>0, <4>1, <4>2, <4>3 DEF TypeInv
    <3> QED BY <1>0, <1>3, <3>1, <3>2, Leaves DEF Writing, TypeInv
  <2> QED BY <1>0, <1>1, <2>1, <2>2, <2>3, <2>4 DEF TypeInv
<1> QED BY <1>2, <1>3, NextSplit

\* A step keeps the invariant.
LEMMA IStep == ASSUME IInv, Next PROVE IInv'
BY TypeStep, BatchStep, LevelStep, SpliceStep, BackStep, HelpStep, ReadStep, RoomStep DEF IInv

\* The invariant holds of the empty list.
LEMMA InitFact == ASSUME Init PROVE IInv
<1>0. /\ 0 \in Heights /\ head \in 0..(K + 1) /\ tail \in 0..(K + 1) /\ nil \in Offsets /\ head \in Offsets
      /\ tail \in Offsets /\ head # tail /\ head < tail /\ head \in 0..K /\ tail \notin 0..K /\ head # nil
  BY SizeFact DEF Heights, head, tail, nil, Offsets
<1>1. TypeInv
  <2>1. Idle \in Writer
    <3>1. NoSplice \in Pairs
      BY <1>0 DEF NoSplice, Pairs
    <3>2. [l \in Levels |-> NoSplice] \in [Levels -> Pairs]
      BY <3>1
    <3>3. <<>> \in Batches
      BY DEF Batches
    <3> QED BY <1>0, <3>2, <3>3 DEF Idle, Writer, Pcs
  <2>2. w \in [Writers -> Writer]
    BY <2>1 DEF Init
  <2>3. next \in Links /\ prev \in Links
    BY <1>0 DEF Init, Links
  <2>4. height \in 1..MaxHeight /\ tower \in [Nodes -> Heights]
    BY <1>0, SizeFact DEF Init
  <2>5. r \in Reader
    BY <1>0 DEF Init, NoGet, Reader
  <2> QED BY <2>2, <2>3, <2>4, <2>5 DEF Init, TypeInv
<1>2. \A i \in Writers : w[i] = Idle /\ w[i].pc = "idle" /\ w[i].batch = <<>> /\ w[i].insH = 0
  BY DEF Init, Idle
<1>3. ASSUME NEW l \in Levels
      PROVE  On(l) = {head} /\ next[l][head] = tail /\ prev[l][tail] = head
  <2>1. next[l][head] = tail /\ prev[l][tail] = head
    BY <1>0 DEF Init
  <2>2. Closed(next[l], {head}) /\ {head} \subseteq 0..K
    BY <1>0, <2>1 DEF Closed
  <2>3. Chain(next[l]) \subseteq {head}
    BY <2>2, ChainLeast
  <2>4. head \in On(l)
    BY <1>1, <1>3, OnFacts
  <2> QED BY <2>1, <2>3, <2>4, OnChain
<1>4. BatchInv
  BY <1>2 DEF BatchInv, Linking
<1>5. LevelInv
  <2>1. ~(head < head)
    BY DEF head
  <2>2. \A i \in Writers : w[i].pc \notin Linking
    BY <1>2 DEF Linking
  <2> QED BY <1>0, <1>3, <2>1, <2>2 DEF LevelInv, Init
<1>6. SpliceInv
  <2>1. 0 <= height
    BY DEF Init
  <2> QED BY <1>2, <2>1 DEF SpliceInv, SpliceOf, Linking
<1>7. BackInv
  BY <1>0, <1>3 DEF BackInv
<1>8. HelpInv
  BY <1>2 DEF HelpInv, HelpOf
<1>9. ReadInv
  BY DEF ReadInv, Init, NoGet
<1>10. RoomInv
  <2>1. Active = {}
    BY <1>2 DEF Active
  <2>2. Pending = {}
    <3>1. \A i \in Writers : Range(w[i].batch) = {}
      BY <1>2 DEF Range
    <3> QED BY <3>1 DEF Pending
  <2>3. IsFiniteSet(Active) /\ Cardinality(Active) = 0 /\ Cardinality(Pending) = 0
    BY <2>1, <2>2, FS_EmptySet
  <2>4. Reserved = 0 /\ size = 0 /\ refs = 1
    BY DEF Reserved, Init
  <2>5. RoomSuffices
    BY <1>2 DEF RoomSuffices
  <2>6. MaxNodeSize \in Nat /\ Capacity \in Nat
    BY SizeFact DEF MaxNodeSize
  <2>7. MaxNodeSize * 0 = 0
    BY <2>6
  <2> QED BY <2>3, <2>4, <2>5, <2>6, <2>7 DEF RoomInv
<1> QED BY <1>1, <1>4, <1>5, <1>6, <1>7, <1>8, <1>9, <1>10 DEF IInv

\* The invariant of the skiplist holds in every state, for any number of writers and
\* entries, any highest tower and any size of the arena.
THEOREM ListSound == Spec => []IInv
<1>1. Init => IInv
  BY InitFact
<1>2. IInv /\ [Next]_vars => IInv'
  <2>1. CASE Next
    BY <2>1, IStep
  <2>2. ASSUME IInv, UNCHANGED vars PROVE IInv'
    <3>1. UNCHANGED <<next, prev, height, tower, size, reserved, refs, w, done, r>>
      BY <2>2 DEF vars
    <3>2. \A l : On(l)' = On(l)
      BY <3>1 DEF On
    <3>3. TypeInv' /\ BatchInv' /\ LevelInv' /\ BackInv' /\ ReadInv'
      BY <2>2, <3>1, <3>2 DEF IInv, TypeInv, BatchInv, LevelInv, BackInv, ReadInv, Key, SearchKey
    <3>4. HelpInv' /\ RoomInv'
      BY <2>2, <3>1 DEF IInv, HelpInv, HelpOf, RoomInv, Key, Pending, Active, Reserved, RoomSuffices
    <3>5. SpliceInv'
      BY <2>2, <3>1, <3>2 DEF IInv, SpliceInv, SpliceOf, Key
    <3> QED BY <3>3, <3>4, <3>5 DEF IInv
  <2> QED BY <2>1, <2>2
<1> QED BY <1>1, <1>2, PTL DEF Spec

\* Two writers linking next to each other never cut a node off: every level is an upward
\* chain to the tail, a part of the level below, with every entry whose Add returned
\* (addInternal).
THEOREM NoneCutOff == Spec => []LevelsSorted
<1>1. IInv => LevelsSorted
  <2>1. SUFFICES ASSUME IInv PROVE LevelsSorted
    OBVIOUS
  <2>2. TypeInv /\ LevelInv
    BY <2>1 DEF IInv
  <2>3. ASSUME NEW l \in Levels, l > 0 PROVE On(l) \subseteq On(l - 1)
    <3>1. PICK k \in Levels : k = l - 1
      BY <2>3, SizeFact DEF Levels
    <3>2. k < l
      BY <3>1, SizeFact DEF Levels
    <3>3. On(l) \subseteq On(k)
      BY <2>2, <3>2 DEF LevelInv
    <3> QED BY <3>1, <3>3
  <2>4. ASSUME NEW l \in Levels
        PROVE  /\ \A n \in On(l) : n < next[l][n] /\ next[l][n] \in On(l) \cup {tail}
               /\ \A n \in done : l < tower[n] => n \in On(l)
    BY <2>2 DEF LevelInv
  <2> QED BY <2>3, <2>4 DEF LevelsSorted
<1> QED BY <1>1, ListSound, PTL

\* A lookup, a seek or a step of an iterator never misses an entry whose Add returned
\* before it began (Skiplist.Get, Iterator.SeekGE, Iterator.Next).
THEOREM NoneMissed == Spec => []ReadersFind
<1>1. IInv => ReadersFind
  BY DEF IInv, ReadInv, ReadersFind
<1> QED BY <1>1, ListSound, PTL

\* A level on which no writer is between its two compare-and-swaps reads the same
\* backwards (addInternal, Iterator.Prev).
THEOREM BackwardsToo == Spec => []PrevMirrors
<1>1. IInv => PrevMirrors
  BY DEF IInv, BackInv, PrevMirrors
<1> QED BY <1>1, ListSound, PTL

\* No Add of a prepared batch finds the arena full (memTable.prepare, Arena.alloc).
THEOREM NeverFull == Spec => []RoomSuffices
<1>1. IInv => RoomSuffices
  BY DEF IInv, RoomInv
<1> QED BY <1>1, ListSound, PTL
=============================================================================
