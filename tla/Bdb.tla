-------------------------------- MODULE Bdb --------------------------------
(***************************************************************************)
(* The index's store (bitree/bdb): a B+ tree in the pages of a file.  One  *)
(* write transaction at a time changes copies of the nodes on its way,     *)
(* merges and splits them at Commit, writes them to pages nobody uses, and *)
(* makes them current by writing one of two meta pages in turn.  Readers   *)
(* keep the meta page they began with.  The freelist holds the free pages  *)
(* and, by transaction, the pages it stopped using while readers may still *)
(* see them.                                                               *)
(*                                                                         *)
(* Keys are numbers, every element has size 1 and a page header none; the  *)
(* value put is the transaction's number.  A tree page never overflows;    *)
(* the freelist always takes FreelistPages pages (commitFreelist's count). *)
(***************************************************************************)
EXTENDS Integers, Sequences, SequencesExt, FiniteSetsExt, TLC

CONSTANTS
  Readers,        \* read transactions
  PageSize,       \* elements of a full page
  MaxInline,      \* elements an inlined bucket has at most
  FreeAtStart,    \* free pages of a file that was in use before
  Loads,          \* how many keys the first transaction may put
  OpKeys,         \* keys that later transactions put and delete
  MaxOps,         \* bound: changes of one transaction
  MaxTx, MaxErrors, MaxCrashes, MaxFaults,   \* bounds: MaxFaults of errors and crashes together
  MaxFaultKeys    \* bound: keys of a tree that meets an error or a crash

MinKeysPerPage == 2
FreelistPages == 2
NoNode == -1
NoBucket == -1
NoKey == 0
NewRoot(x) == IF x = 1 THEN -2 ELSE 1     \* names the root a split of x makes: no page's number

VARIABLES
  noSync,         \* opts.NoSync: no fdatasync, and only the process may crash
  file, disk,     \* the pages as the process sees them, and those on disk
  metas, dmetas,  \* the two meta pages, likewise
  spans, pending, allocs,   \* the freelist: forwardMap, pending, allocs
  readers,        \* the open read transactions: reader -> meta
  w,              \* the write transaction, or its phase "none"
  panicked,       \* an assertion failed
  overlap,        \* a rollback found only pending pages in the freelist, and left them
                  \* among the free ones
  errors, crashes     \* bounds

flVars == <<spans, pending, allocs>>
vars == <<noSync, file, disk, metas, dmetas, flVars, readers, w, panicked, overlap, errors, crashes>>

-----------------------------------------------------------------------------
(***************************************************************************)
(* Pages and metas.                                                        *)
(***************************************************************************)
Page(type, root, els) ==
  [type |-> type, root |-> root, els |-> els, ids |-> {}, count |-> 0, pages |-> 1]
Leaf(els) == Page("leaf", 0, els)
Branch(els) == Page("branch", 0, els)
\* The root bucket's leaf: the header of the only bucket, inlined if root is 0.
RootPage(root, els) == Page("root", root, els)
FreelistPage(ids, count, n) ==
  [Page("freelist", 0, <<>>) EXCEPT !.ids = ids, !.count = count, !.pages = n]
Garbage == Page("garbage", 0, <<>>)       \* what a page holds that nothing uses
Elem(k, v, pg) == [key |-> k, val |-> v, pg |-> pg]

Restricted(f, S) == [x \in S |-> f[x]]
Put2(f, x, y) == (x :> y) @@ f
KeysOf(els) == {els[i].key : i \in DOMAIN els}

\* sort.Search: the first element whose key is not below k.
Search(els, k) == Min({i \in 1..(Len(els) + 1) : i > Len(els) \/ els[i].key >= k})

\* db.meta: the valid one with the higher transaction.
Current(m) ==
  LET a == IF m[1].txid > m[0].txid THEN 1 ELSE 0 IN
  IF m[a].ok THEN m[a] ELSE m[1 - a]

\* db.init
Meta(txid, root, fl, hwm) ==
  [txid |-> txid, root |-> root, fl |-> fl, hwm |-> hwm, ok |-> TRUE, data |-> <<>>]

-----------------------------------------------------------------------------
(***************************************************************************)
(* The freelist.                                                           *)
(***************************************************************************)
Pages(s) == s.start..(s.start + s.size - 1)
FreeIds(S) == UNION {Pages(s) : s \in S}
PendingIds(p) == UNION {{x.pg : x \in p[t].ids} : t \in DOMAIN p}

\* mergeWithExistingSpan
MergeSpan(pg, S) ==
  LET prev == {s \in S : s.start + s.size = pg}
      next == {s \in S : s.start = pg + 1}
      all == prev \cup next IN
  (S \ all) \cup {[start |-> Min({s.start : s \in prev} \cup {pg}),
                   size |-> 1 + MapThenSumSet(LAMBDA s : s.size, all)]}

MergeSpans(S, ids) == FoldSet(MergeSpan, S, ids)

\* hashmapReadIDs: an empty list leaves the spans as they are.
ReadIDs(S, ids) == IF ids = {} THEN S ELSE MergeSpans({}, ids)

\* hashmapAllocate: a span of that size, or else the start of any larger one.
Fits(S, n) == IF \E s \in S : s.size = n THEN {s \in S : s.size = n} ELSE {s \in S : s.size > n}
TakeFrom(S, s, n) ==
  (S \ {s}) \cup IF s.size = n THEN {} ELSE {[start |-> s.start + n, size |-> s.size - n]}

\* db.allocate, as [pg, spans, hwm, noted]: from the freelist, which notes who took the
\* page, or after the last page, of which it knows nothing.
Allocations(S, hwm, n) ==
  IF Fits(S, n) = {} THEN {[pg |-> hwm, spans |-> S, hwm |-> hwm + n, noted |-> FALSE]}
  ELSE {[pg |-> s.start, spans |-> TakeFrom(S, s, n), hwm |-> hwm, noted |-> TRUE]
        : s \in Fits(S, n)}
Note(a, c, t) == IF c.noted THEN Put2(a, c.pg, t) ELSE a

\* freelist.free of n pages from pg by transaction t: who allocated them goes along.
FreePending(p, t, pg, n, alloc) ==
  LET ids == {[pg |-> x, alloc |-> alloc] : x \in pg..(pg + n - 1)}
      old == IF t \in DOMAIN p THEN p[t] ELSE [ids |-> {}, last |-> 0] IN
  Put2(p, t, [old EXCEPT !.ids = @ \cup ids])

AllocTx(pg, default) == IF pg \in DOMAIN allocs THEN allocs[pg] ELSE default
Forget(a, pg) == Restricted(a, DOMAIN a \ {pg})
AlreadyFree(pg, n) == \E x \in pg..(pg + n - 1) : x \in FreeIds(spans) \cup PendingIds(pending)

(***************************************************************************)
(* freePages: what the readers cannot see.  Pages are released that were   *)
(* freed before the oldest reader, or allocated and freed between two.     *)
(***************************************************************************)
Top == MaxTx + MaxCrashes + 9      \* the highest transaction number

Released(p, S) == UNION {{x.pg : x \in p[t].ids} : t \in S}

Release(st, t) ==
  LET S == {u \in DOMAIN st.pend : u <= t} IN
  [st EXCEPT !.pend = Restricted(@, DOMAIN @ \ S), !.ids = @ \cup Released(st.pend, S)]

\* mutant: whoever allocated a page freed between two readers.
ReleaseRangeAll(st, b, e) ==
  LET S == {t \in DOMAIN st.pend : t \in b..e} IN
  [st EXCEPT !.pend = Restricted(@, DOMAIN @ \ S), !.ids = @ \cup Released(st.pend, S)]

ReleaseRange(st, b, e) ==
  LET S == {t \in DOMAIN st.pend : t \in b..e /\ st.pend[t].last # b}
      gone(t) == {x \in st.pend[t].ids : x.alloc \in b..e}
      left == {t \in DOMAIN st.pend : t \notin S \/ gone(t) # st.pend[t].ids} IN
  [st EXCEPT !.pend = [t \in left |-> IF t \in S THEN [ids |-> @[t].ids \ gone(t), last |-> b]
                                                 ELSE @[t]],
             !.ids = @ \cup UNION {{x.pg : x \in gone(t)} : t \in S}]

FreePages(p, txids) ==
  LET txs == SetToSortSeq(txids, <)
      first == IF txs = <<>> THEN Top ELSE txs[1]
      step(st, t) == [ReleaseRange(st, st.min, t - 1) EXCEPT !.min = t + 1]
      st == FoldLeft(step, Release([pend |-> p, ids |-> {}, min |-> first], first - 1), txs) IN
  ReleaseRange(st, st.min, Top)

-----------------------------------------------------------------------------
(***************************************************************************)
(* The tree of a write transaction: its nodes, by the page they were read  *)
(* from, over the pages of the file.                                       *)
(***************************************************************************)
\* node.read
ReadNode(pg, parent) ==
  LET els == IF pg = 0 THEN w.inline ELSE file[pg].els IN
  [leaf |-> pg = 0 \/ file[pg].type = "leaf", unb |-> FALSE, pg |-> pg, parent |-> parent,
   key |-> IF els = <<>> THEN NoKey ELSE els[1].key, els |-> els]

\* Bucket.pageNode
NodeAt(nodes, pg) == IF pg \in DOMAIN nodes THEN nodes[pg] ELSE ReadNode(pg, NoNode)

\* Bucket.node
Materialise(nodes, pg, parent) ==
  IF pg \in DOMAIN nodes THEN nodes ELSE Put2(nodes, pg, ReadNode(pg, parent))

\* searchNode, searchPage: the child that may have k.
ChildFor(els, k) ==
  LET i == Search(els, k) IN
  IF i > 1 /\ (i > Len(els) \/ els[i].key # k) THEN i - 1 ELSE i

\* The pages from the root to the leaf of k (Cursor.search).
RECURSIVE PathFrom(_, _, _)
PathFrom(nodes, pg, k) ==
  LET n == NodeAt(nodes, pg) IN
  IF n.leaf THEN <<pg>> ELSE <<pg>> \o PathFrom(nodes, n.els[ChildFor(n.els, k)].pg, k)

\* Cursor.node: all of them become nodes.
WithPath(nodes, path) ==
  FoldLeft(LAMBDA ns, i : Materialise(ns, path[i], IF i = 1 THEN NoNode ELSE path[i - 1]),
           nodes, [i \in DOMAIN path |-> i])

\* node.put: e in the place of the element with that key.
PutEl(els, key, e) ==
  LET i == Search(els, key) IN
  IF i <= Len(els) /\ els[i].key = key THEN [els EXCEPT ![i] = e]
  ELSE SubSeq(els, 1, i - 1) \o <<e>> \o SubSeq(els, i, Len(els))

\* node.del, which leaves the node unbalanced.
DelEl(n, key) ==
  LET i == Search(n.els, key) IN
  IF i <= Len(n.els) /\ n.els[i].key = key
    THEN [n EXCEPT !.els = RemoveAt(@, i), !.unb = TRUE] ELSE n

\* Bucket.Put
PutKey(nodes, k) ==
  LET path == PathFrom(nodes, w.root, k)
      leaf == path[Len(path)] IN
  [WithPath(nodes, path) EXCEPT ![leaf].els = PutEl(@, k, Elem(k, w.txid, 0))]

\* Bucket.Delete
HasKey(nodes, k) ==
  LET path == PathFrom(nodes, w.root, k) IN k \in KeysOf(NodeAt(nodes, path[Len(path)]).els)
DeleteKey(nodes, k) ==
  LET path == PathFrom(nodes, w.root, k)
      leaf == path[Len(path)] IN
  [WithPath(nodes, path) EXCEPT ![leaf] = DelEl(@, k)]

-----------------------------------------------------------------------------
\* The pages of the tree below pg, and its elements in order.
RECURSIVE TreePages(_, _)
TreePages(f, pg) ==
  {pg} \cup IF f[pg].type = "branch"
              THEN UNION {TreePages(f, f[pg].els[i].pg) : i \in DOMAIN f[pg].els} ELSE {}

RECURSIVE TreeElems(_, _)
TreeElems(f, pg) ==
  IF f[pg].type = "leaf" THEN f[pg].els
  ELSE FlattenSeq([i \in DOMAIN f[pg].els |-> TreeElems(f, f[pg].els[i].pg)])

Elements(f, rootPg) ==
  LET r == f[rootPg] IN IF r.root \in {0, NoBucket} THEN r.els ELSE TreeElems(f, r.root)
BucketPages(f, rootPg) ==
  {rootPg} \cup IF f[rootPg].root \in {0, NoBucket} THEN {} ELSE TreePages(f, f[rootPg].root)

InUse(f, m) == BucketPages(f, m.root) \cup {m.fl}

\* The pages that no tree of ms uses may hold anything.
Scrub(f, ms) ==
  LET used == UNION {InUse(f, m) : m \in ms} IN
  [pg \in DOMAIN f |-> IF overlap \/ pg \in used THEN f[pg] ELSE Garbage]

-----------------------------------------------------------------------------
(***************************************************************************)
(* Cursors over the tree of root page r in file f: a stack of pages with   *)
(* an index in each, from the root to a leaf.                              *)
(***************************************************************************)
ElsAt(f, r, pg) == IF pg = 0 THEN f[r].els ELSE f[pg].els
IsLeaf(f, pg) == pg = 0 \/ f[pg].type = "leaf"
TreeRoot(f, r) == IF f[r].root = NoBucket THEN 0 ELSE f[r].root
Ref(pg, i) == [pg |-> pg, i |-> i]

\* Cursor.first, Cursor.last: down to a leaf, along the first or the last elements.
RECURSIVE Descend(_, _, _, _)
Descend(f, r, st, toLast) ==
  LET top == Last(st) IN
  IF IsLeaf(f, top.pg) THEN st
  ELSE LET c == f[top.pg].els[top.i].pg IN
       Descend(f, r, Append(st, Ref(c, IF toLast THEN Len(ElsAt(f, r, c)) ELSE 1)), toLast)

\* Cursor.keyValue
CursorKey(f, r, st) ==
  IF st = <<>> \/ Last(st).i \notin DOMAIN ElsAt(f, r, Last(st).pg) THEN NoKey
  ELSE ElsAt(f, r, Last(st).pg)[Last(st).i].key

\* Cursor.next: at the end the stack stays where it is.
RECURSIVE CursorNext(_, _, _)
CursorNext(f, r, st) ==
  LET more == {i \in DOMAIN st : st[i].i < Len(ElsAt(f, r, st[i].pg))} IN
  IF more = {} THEN [st |-> st, key |-> NoKey]
  ELSE LET to == Descend(f, r, [SubSeq(st, 1, Max(more)) EXCEPT ![Max(more)].i = @ + 1], FALSE) IN
       IF ElsAt(f, r, Last(to).pg) = <<>> THEN CursorNext(f, r, to)
       ELSE [st |-> to, key |-> CursorKey(f, r, to)]

\* mutant: goes down along the first elements.
CursorPrevFirst(f, r, st) ==
  LET more == {i \in DOMAIN st : st[i].i > 1} IN
  IF more = {} THEN [st |-> <<>>, key |-> NoKey]
  ELSE LET to == Descend(f, r, [SubSeq(st, 1, Max(more)) EXCEPT ![Max(more)].i = @ - 1], FALSE) IN
       [st |-> to, key |-> CursorKey(f, r, to)]

\* Cursor.Prev: before the first element the stack is empty.
CursorPrev(f, r, st) ==
  LET more == {i \in DOMAIN st : st[i].i > 1} IN
  IF more = {} THEN [st |-> <<>>, key |-> NoKey]
  ELSE LET to == Descend(f, r, [SubSeq(st, 1, Max(more)) EXCEPT ![Max(more)].i = @ - 1], TRUE) IN
       [st |-> to, key |-> CursorKey(f, r, to)]

CursorFirst(f, r) ==
  LET st == Descend(f, r, <<Ref(TreeRoot(f, r), 1)>>, FALSE) IN
  IF ElsAt(f, r, Last(st).pg) = <<>> THEN CursorNext(f, r, st)
  ELSE [st |-> st, key |-> CursorKey(f, r, st)]

CursorLast(f, r) ==
  LET pg == TreeRoot(f, r)
      st == Descend(f, r, <<Ref(pg, Len(ElsAt(f, r, pg)))>>, TRUE) IN
  [st |-> st, key |-> CursorKey(f, r, st)]

\* Cursor.search, nsearch
RECURSIVE SearchFrom(_, _, _, _)
SearchFrom(f, r, pg, k) ==
  LET els == ElsAt(f, r, pg) IN
  IF IsLeaf(f, pg) THEN <<Ref(pg, Search(els, k))>>
  ELSE <<Ref(pg, ChildFor(els, k))>> \o SearchFrom(f, r, els[ChildFor(els, k)].pg, k)

\* Cursor.Seek: past the end of a leaf, the next leaf's first element.
CursorSeek(f, r, k) ==
  LET st == SearchFrom(f, r, TreeRoot(f, r), k) IN
  IF Last(st).i > Len(ElsAt(f, r, Last(st).pg)) THEN CursorNext(f, r, st)
  ELSE [st |-> st, key |-> CursorKey(f, r, st)]

\* n keys from cursor c on, by Step.
RECURSIVE Walk(_, _, _)
Walk(Step(_), c, n) == IF n = 0 THEN <<>> ELSE <<c.key>> \o Walk(Step, Step(c.st), n - 1)

-----------------------------------------------------------------------------
(***************************************************************************)
(* Transactions.                                                           *)
(***************************************************************************)
NoTx == [phase |-> "none"]

\* db.init: an empty root leaf, no bucket yet, no free pages.
NewFile ==
  /\ file = (2 :> FreelistPage({}, 0, 1)) @@ (3 :> RootPage(NoBucket, <<>>))
  /\ metas = [i \in 0..1 |-> Meta(i, 3, 2, 4)] /\ spans = {}

\* Open of a file whose bucket was emptied before: n free pages after the root leaf.
\* As a bound only with NoSync, which is what the databases set.
UsedFile(n) ==
  LET free == 5..(4 + n) IN
  /\ file = (2 :> FreelistPage(free, n, FreelistPages)) @@ (4 :> RootPage(0, <<>>))
  /\ metas = [i \in 0..1 |-> Meta(i, 4, 2, 5 + n)] /\ spans = ReadIDs({}, free)

Init ==
  /\ noSync \in BOOLEAN
  /\ NewFile \/ (noSync /\ UsedFile(FreeAtStart))
  /\ disk = file /\ dmetas = metas
  /\ pending = <<>> /\ allocs = <<>> /\ readers = <<>>
  /\ w = NoTx /\ panicked = FALSE /\ overlap = FALSE /\ errors = 0 /\ crashes = 0

diskVars == <<noSync, file, disk, metas, dmetas>>
ghostVars == <<overlap, errors, crashes>>

\* While a transaction works in memory nothing that readers or a crash meet changes:
\* they come before or after.
InMemory == w.phase \in {"ops", "rebalance", "spill", "freelist"}

\* beginTx and Rollback of a reader.
BeginRead(r) ==
  /\ ~InMemory /\ r \notin DOMAIN readers /\ readers' = Put2(readers, r, Current(metas))
  /\ UNCHANGED <<diskVars, flVars, w, panicked, ghostVars>>

EndRead(r) ==
  /\ ~InMemory /\ r \in DOMAIN readers /\ readers' = Restricted(readers, DOMAIN readers \ {r})
  /\ UNCHANGED <<diskVars, flVars, w, panicked, ghostVars>>

\* beginRWTx
BeginWrite ==
  LET m == Current(metas)
      st == FreePages(pending, {readers[r].txid : r \in DOMAIN readers}) IN
  /\ w.phase = "none" /\ m.txid < MaxTx
  /\ pending' = st.pend /\ spans' = MergeSpans(spans, st.ids)
  /\ w' = [phase |-> "ops", txid |-> m.txid + 1, hwm |-> m.hwm, fl |-> m.fl, rootPg |-> m.root,
           root |-> file[m.root].root, inline |-> file[m.root].els, rootDirty |-> FALSE,
           nodes |-> <<>>, next |-> NoNode, out |-> <<>>, ops |-> 0, data |-> m.data]
  /\ UNCHANGED <<diskVars, allocs, readers, panicked, ghostVars>>

TxOnly == UNCHANGED <<diskVars, flVars, readers, panicked, ghostVars>>

CreateBucket ==
  /\ w.phase = "ops" /\ w.root = NoBucket
  /\ w' = [w EXCEPT !.root = 0, !.rootDirty = TRUE] /\ TxOnly

\* Keys 1..n into the empty bucket.
Load(n) ==
  /\ w.phase = "ops" /\ w.root = 0 /\ w.inline = <<>> /\ w.ops = 0
  /\ w' = [w EXCEPT !.nodes = FoldLeft(PutKey, @, [i \in 1..n |-> i]), !.ops = MaxOps,
                    !.data = [i \in 1..n |-> w.txid]]
  /\ TxOnly

Put(k) ==
  /\ w.phase = "ops" /\ w.root # NoBucket /\ w.ops < MaxOps /\ DOMAIN w.data # {}
  /\ w' = [w EXCEPT !.nodes = PutKey(@, k), !.ops = @ + 1, !.data = Put2(@, k, w.txid)]
  /\ TxOnly

Delete(k) ==
  /\ w.phase = "ops" /\ w.root # NoBucket /\ w.ops < MaxOps /\ HasKey(w.nodes, k)
  /\ w' = [w EXCEPT !.nodes = DeleteKey(@, k), !.ops = @ + 1,
                    !.data = Restricted(@, DOMAIN @ \ {k})]
  /\ TxOnly

\* Tx.Rollback, before any page was freed.
Rollback == w.phase = "ops" /\ w' = NoTx /\ TxOnly

Commit == w.phase = "ops" /\ w' = [w EXCEPT !.phase = "rebalance"] /\ TxOnly

-----------------------------------------------------------------------------
(***************************************************************************)
(* Commit: rebalance.  The unbalanced nodes come in any order, but a       *)
(* node's parent right after it.                                           *)
(***************************************************************************)
\* freelist.free of the n pages of a page in use.
Free(pg, n, default) ==
  IF pg = 0 THEN UNCHANGED <<pending, panicked>>
  ELSE /\ pending' = FreePending(pending, w.txid, pg, n, AllocTx(pg, default))
       /\ panicked' = (panicked \/ AlreadyFree(pg, n))
FreeNode(pg) == Free(pg, 1, 0) /\ allocs' = Forget(allocs, pg)

MinKeys(n) == IF n.leaf THEN 1 ELSE 2

Adopt(nodes, els, parent) ==
  [x \in DOMAIN nodes |-> IF \E i \in DOMAIN els : els[i].pg = x /\ x # 0
                            THEN [nodes[x] EXCEPT !.parent = parent] ELSE nodes[x]]
Without(nodes, x) == Restricted(nodes, DOMAIN nodes \ {x})

\* A root with one child takes its place.
CollapseRoot(x, n, nodes) ==
  LET c == n.els[1].pg
      ns == Materialise(nodes, c, x)
      child == ns[c] IN
  /\ w' = [w EXCEPT !.nodes =
             Without(Adopt([ns EXCEPT ![x].leaf = child.leaf, ![x].els = child.els],
                           child.els, x), c), !.next = NoNode]
  /\ FreeNode(c)

\* An empty node is dropped.
DropNode(x, n, nodes) ==
  /\ w' = [w EXCEPT !.nodes = Without([nodes EXCEPT ![n.parent] = DelEl(@, n.key)], x),
                    !.next = n.parent]
  /\ FreeNode(x)

\* A small node and a sibling become one: from's elements go to into.
MergeNodes(into, from, parent, nodes) ==
  LET f == nodes[from] IN
  /\ w' = [w EXCEPT !.nodes =
             Without(Adopt([nodes EXCEPT ![into].els = @ \o f.els, ![parent] = DelEl(@, f.key)],
                           f.els, into), from),
                    !.next = parent]
  /\ FreeNode(from)

ParentFirst == w.next # NoNode /\ w.nodes[w.next].unb

RebalanceNode(x) ==
  LET n == w.nodes[x]
      nodes == [w.nodes EXCEPT ![x].unb = FALSE]
      small == ~(Len(n.els) > PageSize \div 4 /\ Len(n.els) > MinKeys(n)) IN
  /\ w.phase = "rebalance" /\ n.unb /\ (ParentFirst => w.next = x)
  /\ CASE small /\ n.parent = NoNode /\ ~n.leaf /\ Len(n.els) = 1 -> CollapseRoot(x, n, nodes)
       [] small /\ n.parent # NoNode /\ n.els = <<>> -> DropNode(x, n, nodes)
       [] small /\ n.parent # NoNode /\ n.els # <<>> ->
            LET p == nodes[n.parent]
                i == Search(p.els, n.key)
                s == p.els[IF i = 1 THEN 2 ELSE i - 1].pg
                ns == Materialise(nodes, s, n.parent) IN
            IF Len(p.els) < 2 THEN panicked' = TRUE /\ UNCHANGED <<w, pending, allocs>>
            ELSE IF i = 1 THEN MergeNodes(x, s, n.parent, ns) ELSE MergeNodes(s, x, n.parent, ns)
       [] OTHER -> /\ w' = [w EXCEPT !.nodes = nodes, !.next = NoNode]
                   /\ UNCHANGED <<pending, allocs, panicked>>
  /\ UNCHANGED <<diskVars, spans, readers, ghostVars>>

Rebalanced ==
  /\ w.phase = "rebalance" /\ \A x \in DOMAIN w.nodes : ~w.nodes[x].unb
  /\ w' = [w EXCEPT !.phase = "spill", !.next = NoNode] /\ TxOnly

-----------------------------------------------------------------------------
(***************************************************************************)
(* Commit: spill.  A node is written after its children, in as many pages  *)
(* as it is split into, and its parent points to them.                     *)
(***************************************************************************)
\* splitIndex, or no split.
SplitAt(els) ==
  IF Len(els) <= 2 * MinKeysPerPage \/ Len(els) < PageSize THEN Len(els)
  ELSE Min({PageSize, Len(els) - MinKeysPerPage - 1})

Root(nodes) == CHOOSE x \in DOMAIN nodes : nodes[x].parent = NoNode

\* Bucket.inlineable
Inlineable(nodes) ==
  LET r == nodes[Root(nodes)] IN r.leaf /\ Len(r.els) <= MaxInline

\* The next node to spill: of those without children the one with the lowest key.
ToSpill(nodes) ==
  LET ready == {x \in DOMAIN nodes : \A y \in DOMAIN nodes : nodes[y].parent # x} IN
  CHOOSE x \in ready : \A y \in ready : nodes[x].els[1].key <= nodes[y].els[1].key

\* One page of node x: the old page is freed, a new one allocated and written, and
\* the rest, if there is one, left as a node without a page.
SpillNode ==
  LET x == ToSpill(w.nodes)
      n == w.nodes[x]
      at == SplitAt(n.els)
      a == SubSeq(n.els, 1, at)
      rest == SubSeq(n.els, at + 1, Len(n.els))
      parent == IF rest # <<>> /\ n.parent = NoNode THEN NewRoot(x) ELSE n.parent
      key == IF n.key = NoKey THEN a[1].key ELSE n.key
      left == IF rest = <<>> THEN Without(w.nodes, x)
              ELSE [w.nodes EXCEPT ![x].els = rest, ![x].pg = 0, ![x].key = NoKey,
                                   ![x].parent = parent]
      all == IF parent # n.parent
               THEN Put2(left, parent, [leaf |-> FALSE, unb |-> FALSE, pg |-> 0, key |-> NoKey,
                                         parent |-> NoNode, els |-> <<>>])
               ELSE left IN
  /\ w.phase = "spill" /\ DOMAIN w.nodes # {} /\ ~Inlineable(w.nodes)
  /\ Free(n.pg, 1, 0)
  /\ \E c \in Allocations(spans, w.hwm, 1) :
       /\ spans' = c.spans /\ allocs' = Note(Forget(allocs, n.pg), c, w.txid)
       /\ w' = [w EXCEPT
            !.out = Put2(@, c.pg, IF n.leaf THEN Leaf(a) ELSE Branch(a)), !.hwm = c.hwm,
            !.nodes = IF parent = NoNode THEN all
                      ELSE [all EXCEPT ![parent].els = PutEl(@, key, Elem(a[1].key, 0, c.pg))],
            !.root = c.pg, !.inline = <<>>, !.rootDirty = TRUE]
  /\ UNCHANGED <<diskVars, readers, ghostVars>>

\* A small bucket goes into its header; its page is freed.
InlineBucket ==
  LET r == w.nodes[Root(w.nodes)] IN
  /\ w.phase = "spill" /\ DOMAIN w.nodes # {} /\ Inlineable(w.nodes)
  /\ FreeNode(w.root)
  /\ w' = [w EXCEPT !.nodes = <<>>, !.root = 0, !.inline = r.els, !.rootDirty = TRUE]
  /\ UNCHANGED <<diskVars, spans, readers, ghostVars>>

\* The root bucket's leaf, if the bucket's header changed.
SpillRoot ==
  /\ w.phase = "spill" /\ DOMAIN w.nodes = {}
  /\ IF w.rootDirty
       THEN /\ Free(w.rootPg, 1, 0)
            /\ \E c \in Allocations(spans, w.hwm, 1) :
                 /\ spans' = c.spans /\ allocs' = Note(Forget(allocs, w.rootPg), c, w.txid)
                 /\ w' = [w EXCEPT !.out = Put2(@, c.pg, RootPage(w.root, w.inline)),
                                   !.hwm = c.hwm, !.rootPg = c.pg, !.phase = "freelist"]
       ELSE w' = [w EXCEPT !.phase = "freelist"] /\ UNCHANGED <<flVars, panicked>>
  /\ UNCHANGED <<diskVars, readers, ghostVars>>

-----------------------------------------------------------------------------
(***************************************************************************)
(* Commit: the freelist, the pages, the meta page.                         *)
(***************************************************************************)
\* The pages of the list at pg that are free or pending.
OwnPages(pg, ids) == (pg..(pg + FreelistPages - 1)) \cap ids

\* mutant: also when the list is at the end of the file.
ListCountAlways(count, own) == Max({0, count - FreelistPages})

ListCount(count, own) == Max({0, count - Cardinality(own)})

\* freelist.free of the old list, then commitFreelist: what is free or pending,
\* without the pages the list itself takes.
CommitFreelist ==
  LET n == file[w.fl].pages
      pend == FreePending(pending, w.txid, w.fl, n, AllocTx(w.fl, w.txid - 1))
      ids == PendingIds(pend) \cup FreeIds(spans)
      count == MapThenSumSet(LAMBDA t : Cardinality(pend[t].ids), DOMAIN pend)
                 + MapThenSumSet(LAMBDA s : s.size, spans) IN
  /\ w.phase = "freelist"
  /\ Free(w.fl, n, w.txid - 1)
  /\ \E c \in Allocations(spans, w.hwm, FreelistPages) :
       LET own == OwnPages(c.pg, ids) IN
       /\ spans' = c.spans /\ allocs' = Note(Forget(allocs, w.fl), c, w.txid)
       /\ w' = [w EXCEPT !.out = Put2(@, c.pg, FreelistPage(ids \ own, ListCount(count, own),
                                                            FreelistPages)),
                         !.hwm = c.hwm, !.fl = c.pg, !.phase = "write"]
  /\ UNCHANGED <<diskVars, readers, ghostVars>>

NewMeta == [Meta(w.txid, w.rootPg, w.fl, w.hwm) EXCEPT !.data = w.data]
commitVars == <<flVars, readers, panicked, ghostVars, noSync>>

\* Tx.write
WritePages ==
  /\ w.phase = "write"
  /\ file' = Scrub(w.out @@ file, {Current(metas), NewMeta} \cup Range(readers))
  /\ disk' = IF noSync THEN file' ELSE Scrub(disk, {Current(metas)})
  /\ w' = [w EXCEPT !.phase = IF noSync THEN "meta" ELSE "sync"]
  /\ UNCHANGED <<metas, dmetas, commitVars>>

SyncPages ==
  /\ w.phase = "sync" /\ disk' = file /\ w' = [w EXCEPT !.phase = "meta"]
  /\ UNCHANGED <<file, metas, dmetas, commitVars>>

\* mutant: always the same meta page.
SlotOne(t) == 0

\* Which of the two meta pages.
Slot(t) == t % 2

\* writeMeta: readers see the new tree from here on,
WriteMeta ==
  /\ w.phase = "meta" /\ metas' = [metas EXCEPT ![Slot(w.txid)] = NewMeta]
  /\ dmetas' = IF noSync THEN metas' ELSE dmetas
  /\ w' = IF noSync THEN NoTx ELSE [w EXCEPT !.phase = "metasync"]
  /\ UNCHANGED <<file, disk, commitVars>>

\* and it is durable.
SyncMeta ==
  /\ w.phase = "metasync" /\ dmetas' = metas /\ w' = NoTx
  /\ UNCHANGED <<file, disk, metas, commitVars>>

-----------------------------------------------------------------------------
(***************************************************************************)
(* Failures.                                                               *)
(***************************************************************************)
FaultsLeft ==
  /\ errors + crashes < MaxFaults
  /\ Cardinality(DOMAIN (IF w.phase = "none" THEN Current(metas) ELSE w).data) <= MaxFaultKeys

\* freelist.read of the freelist page fl; an empty one leaves the spans.
ReadList(S, fl) == IF fl.count = 0 THEN S ELSE ReadIDs(S, fl.ids)

\* mutant: also the pending ones.
ReloadAll(read, pend) == read

\* freelist.reload: those of the pages read that are not pending, if there are any.
Reload(read, pend) == ReadIDs(read, FreeIds(read) \ PendingIds(pend))

\* Tx.rollback: what the transaction freed is in use again, and the free pages are
\* those of the current freelist page that are not pending.  (allocs keeps what the
\* transaction allocated; nothing reads that before it is allocated again.)
TxRollback(pages, m) ==
  LET own == IF w.txid \in DOMAIN pending THEN pending[w.txid].ids ELSE {}
      rest == Restricted(pending, DOMAIN pending \ {w.txid})
      back == {x \in own : x.alloc \notin {0, w.txid}}
      merged == MergeSpans(spans, {x.pg : x \in {y \in own : y.alloc = w.txid}})
      read == ReadList(merged, pages[Current(m).fl]) IN
  /\ pending' = rest
  /\ spans' = Reload(read, rest)
  /\ allocs' = [pg \in {x.pg : x \in back} |-> (CHOOSE x \in back : x.pg = pg).alloc]
               @@ Restricted(allocs, InUse(pages, Current(m)) \cap DOMAIN allocs)
  /\ overlap' = (overlap \/ (read # {} /\ FreeIds(read) \subseteq PendingIds(rest)))
  /\ w' = NoTx

\* A writeAt fails; of the pages, some may be written.  (A failing fdatasync is left
\* out: the product runs with NoSync.)
CommitFails ==
  /\ w.phase \in {"write", "meta"} /\ errors < MaxErrors /\ FaultsLeft
  /\ errors' = errors + 1
  /\ \E S \in IF w.phase = "write" THEN SUBSET DOMAIN w.out ELSE {{}} :
       /\ file' = Scrub(Restricted(w.out, S) @@ file, {Current(metas)} \cup Range(readers))
       /\ disk' = IF noSync THEN file' ELSE Scrub(disk, {Current(metas)})
       /\ TxRollback(file', metas)
  /\ UNCHANGED <<noSync, metas, dmetas, readers, panicked, crashes>>

\* The process crashes or, with syncs, the machine: of what is not synced any part
\* is on disk, and a meta page may be torn.  Then Open and loadFreelist.
Crash ==
  LET unsynced == {pg \in DOMAIN file : pg \notin DOMAIN disk \/ file[pg] # disk[pg]}
      out == IF w.phase = "write" THEN w.out ELSE <<>> IN
  /\ ~InMemory /\ crashes < MaxCrashes /\ FaultsLeft /\ crashes' = crashes + 1
  /\ \E S \in SUBSET unsynced, T \in SUBSET DOMAIN out :
     LET image == Restricted(out, T) @@ Restricted(file, S) @@ disk IN
     \E m \in {dmetas, metas} \cup (IF noSync \/ dmetas = metas THEN {}
                                    ELSE {[i \in 0..1 |-> IF metas[i] = dmetas[i] THEN metas[i]
                                                     ELSE [metas[i] EXCEPT !.ok = FALSE]]}) :
       /\ metas' = m
       /\ file' = Scrub(image, {Current(m)})
  /\ disk' = file' /\ dmetas' = metas'
  /\ LET fl == file'[Current(metas').fl] IN
     /\ spans' = IF fl.count = 0 THEN {} ELSE ReadIDs({}, fl.ids)
     /\ panicked' = (panicked \/ fl.count # Cardinality(fl.ids))
  /\ pending' = <<>> /\ allocs' = <<>> /\ readers' = <<>> /\ w' = NoTx
  /\ UNCHANGED <<noSync, errors, overlap>>

-----------------------------------------------------------------------------
Next == \/ \E r \in Readers : BeginRead(r) \/ EndRead(r)
        \/ BeginWrite \/ CreateBucket \/ (\E n \in Loads : Load(n))
        \/ (\E k \in OpKeys : Put(k) \/ Delete(k)) \/ Rollback \/ Commit
        \/ (\E x \in IF w.phase = "rebalance" THEN DOMAIN w.nodes ELSE {} : RebalanceNode(x))
        \/ Rebalanced \/ SpillNode \/ InlineBucket \/ SpillRoot \/ CommitFreelist
        \/ WritePages \/ SyncPages \/ WriteMeta \/ SyncMeta
        \/ CommitFails \/ Crash

Spec == Init /\ [][Next]_vars

-----------------------------------------------------------------------------
(***************************************************************************)
(* Properties.                                                             *)
(***************************************************************************)

\* The tree of meta m holds exactly its transaction's data, in key order.
Holds(f, m) ==
  LET els == Elements(f, m.root) IN
  /\ \A i \in 1..(Len(els) - 1) : els[i].key < els[i + 1].key
  /\ KeysOf(els) = DOMAIN m.data
  /\ \A i \in DOMAIN els : els[i].val = m.data[els[i].key]

\* Up to a rollback that leaves pending pages free (overlap) no assertion fails: no
\* page is freed twice, no branch is left with one child to merge, no freelist page
\* disagrees with its count.
NoPanic == panicked => overlap

\* While it is open a reader sees the data it began with, whatever other transactions
\* commit or roll back: none of its pages is given to a transaction, also when it was
\* freed between two other readers (release, releaseRange, beginRWTx).  Excepted is
\* what comes after a rollback that leaves pending pages free (overlap).
SnapshotsStable == ~overlap => \A r \in DOMAIN readers : Holds(file, readers[r])

\* The current tree is whole for the process, and the one on disk after a crash at
\* any moment, with pages written in any order and a meta page torn; up to a rollback
\* that leaves pending pages free (overlap).
CommittedWhole ==
  ~overlap => Holds(file, Current(metas)) /\ Holds(disk, Current(dmetas))

\* Going down from the root a cursor finds, for every key, the first one not below it
\* (Cursor.Seek), and walks all keys in order in either direction and stops at the
\* ends, whatever splits and merges made the tree: the branches' keys lead to the
\* leaves' keys.  (Every committed tree has a state without readers.)
CursorsFind ==
  LET r == Current(metas).root
      keys == [i \in DOMAIN Elements(file, r) |-> Elements(file, r)[i].key]
      n == Len(keys)
      next(st) == CursorNext(file, r, st)
      prev(st) == CursorPrev(file, r, st)
      from(k) == Min({i \in 1..(n + 1) : i > n \/ keys[i] >= k}) IN
  w.phase = "none" /\ readers = <<>> /\ ~overlap =>
    /\ Walk(next, CursorFirst(file, r), n + 2) = keys \o <<NoKey, NoKey>>
    /\ Walk(prev, CursorLast(file, r), n + 2) = Reverse(keys) \o <<NoKey, NoKey>>
    /\ \A k \in OpKeys \cup 1..n :
         LET c == CursorSeek(file, r, k) IN
         /\ Walk(next, c, n + 2 - from(k)) = SubSeq(keys, from(k), n) \o <<NoKey>>
         /\ from(k) > 1 => prev(c.st).key = keys[from(k) - 1]

\* Tx.check: on disk every page is part of the tree or the freelist, or free, and
\* not both; no page is lost by splits, merges, rollbacks or crashes.  In memory the
\* free spans are maximal and, with the pending pages, disjoint (hashmapMergeSpans,
\* hashmapAllocate, release, releaseRange, reload) - but not after a rollback whose
\* reload finds only pending pages in the list: hashmapReadIDs then does nothing, and
\* they stay free (overlap).
PagesAccounted ==
  LET m == Current(dmetas)
      fl == disk[m.fl]
      used == BucketPages(disk, m.root) \cup (m.fl..(m.fl + fl.pages - 1)) IN
  overlap \/
  /\ used \cap fl.ids = {} /\ used \cup fl.ids = 2..(m.hwm - 1)
  /\ fl.count = Cardinality(fl.ids)
  /\ \A s, t \in spans : s # t => Pages(s) \cap Pages(t) = {} /\ s.start + s.size # t.start
  /\ FreeIds(spans) \cap PendingIds(pending) = {}
=============================================================================
