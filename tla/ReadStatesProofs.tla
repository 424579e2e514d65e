-------------------------- MODULE ReadStatesProofs --------------------------
(***************************************************************************)
(* Proofs about the references to the tables of the plain DB, for any      *)
(* number of readers, keys, memtables and flushes, whatever an array table *)
(* holds: the counts are exact (RefsExact), nothing is used after it is    *)
(* freed (UsedIsLive) and nothing is left behind (NothingLeft).            *)
(*                                                                         *)
(* The counts are made of the queue's and arrtable's own references, the   *)
(* read states in use that list a table, and the readerUnrefs still to     *)
(* come (CountInv); a read state is in use while plainDB.readState or a    *)
(* reader has it (StateInv).  For a count to go down by one with each      *)
(* readerUnref no loop may meet a table twice (DropsInv), and for the      *)
(* memtable of a writer to be in the queue a flush must have left it there *)
(* (WriterInv).                                                            *)
(***************************************************************************)
EXTENDS ReadStates, NumberFacts, FiniteSetTheorems, TLAPS

Injective(q) == \A i, j \in DOMAIN q : q[i] = q[j] => i = j

Fields == {"kind", "refs", "live", "obsolete", "file", "writers", "used", "body"}
State == [refs : Nat, mems : Seq(Nat), arr : Nat]
Mu == [pc : {"free", "swap", "unref", "end"}, old : Nat, by : {"none", "switch", "flush"}]
Fl == [pc : {"none", "build", "install", "update", "release"}, n : Nat, new : Nat]

TypeInv ==
  /\ status \in {"open", "closing", "closed"}
  /\ tabs \in Seq(Range(tabs))
  /\ \A t \in DOMAIN tabs : /\ DOMAIN tabs[t] = Fields /\ tabs[t].kind \in {"mem", "arr"}
                            /\ tabs[t].refs \in Nat /\ tabs[t].writers \in Nat
  /\ queue \in Seq(Nat) /\ arr \in Nat /\ states \in Seq(State) /\ val \in Nat
  /\ mu \in Mu /\ fl \in Fl /\ orphans \subseteq Nat
  /\ drops \in [Actors -> Seq(Nat)]
  /\ DOMAIN rd = Readers /\ \A r \in Readers : rd[r].rs \in Nat
  /\ DOMAIN wr = {"mem", "key", "seq"} /\ wr.mem \in Nat

\* The tables of a kind.
Of(kind) == {t \in DOMAIN tabs : tabs[t].kind = kind}

\* Memtables are in the queue, array tables in arrtable, in a flush's hands or left
\* behind, each in one place only; a read state lists no table twice.
PlaceInv ==
  /\ Injective(queue) /\ Range(queue) \subseteq Of("mem")
  /\ {arr, fl.new} \ {0} \subseteq Of("arr") /\ orphans \subseteq Of("arr")
  /\ orphans \cap {arr, fl.new} = {}
  /\ \A s \in DOMAIN states :
       /\ Injective(states[s].mems) /\ Range(states[s].mems) \subseteq Of("mem")
       /\ {states[s].arr} \ {0} \subseteq Of("arr")

\* How far mu's holder, the flush and Close are.
PhaseInv ==
  /\ val \in DOMAIN states
  /\ mu.pc = "swap" => Len(states) = val + 1 /\ mu.old = val
  /\ mu.pc # "swap" => val = Len(states)
  /\ mu.pc = "unref" => mu.old \in DOMAIN states /\ mu.old # val
  /\ mu.pc # "free" => (mu.by = "flush" <=> fl.pc = "update") /\ mu.by \in {"switch", "flush"}
  /\ mu.pc # "free" /\ mu.by = "switch" => Len(queue) > 1
  /\ mu.pc = "free" => fl.pc # "update"
  /\ fl.pc = "none" => fl.n = 0 /\ fl.new = 0
  /\ fl.pc = "build" => fl.new = 0
  /\ fl.pc = "install" => fl.new # 0 /\ fl.new # arr
  /\ fl.pc \in {"build", "install"} => fl.n > 0 /\ fl.n < Len(queue)
  /\ fl.pc \in {"update", "release"} => fl.new # 0 /\ fl.new = arr
  /\ status # "open" => mu.pc = "free" /\ fl.pc = "none" /\ wr.mem = 0
  /\ status # "closed" => Len(queue) > 0
  /\ status = "closed" => queue = <<>> /\ arr = 0

\* The tables a goroutine is about to unreference: none twice, and only in the loops
\* that do so.
DropsInv ==
  /\ IsFiniteSet({a \in Actors : drops[a] # <<>>})
  /\ \A a \in Actors : Injective(drops[a]) /\ Range(drops[a]) \subseteq DOMAIN tabs
  /\ drops["mu"] # <<>> => mu.pc = "end"
  /\ drops["flush"] # <<>> => fl.pc \in {"update", "release"}
  /\ drops["close"] # <<>> => status # "open"
  /\ \A r \in Readers : drops[r] # <<>> => rd[r].rs = 0
  /\ Range(drops["flush"]) \cap (Range(queue) \cup {arr, fl.new} \cup orphans) = {}

\* The references to a read state: plainDB.readState's, or that of updateReadState's
\* new or old one, and the readers'.
Held(s) == \/ status = "open" /\ s = val
           \/ mu.pc = "swap" /\ s = Len(states)
           \/ mu.pc = "unref" /\ s = mu.old
On(s) == {r \in Readers : rd[r].rs = s}
StateInv ==
  /\ IsFiniteSet({r \in Readers : rd[r].rs # 0})
  /\ \A r \in Readers : rd[r].rs # 0 => rd[r].rs \in DOMAIN states
  /\ \A s \in DOMAIN states : states[s].refs = Cardinality(On(s)) + (IF Held(s) THEN 1 ELSE 0)
  /\ status = "open" => states[Len(states)].mems = queue /\ states[Len(states)].arr = arr

\* The references to a table.
Using(t) == {s \in DOMAIN states : InUse(s) /\ t \in Lists(s)}
Dropping(t) == {a \in Actors : t \in Range(drops[a])}
Owned(t) == (IF t \in Range(queue) THEN 1 ELSE 0)
            + (IF t \in {arr, fl.new} \cup orphans THEN 1 ELSE 0)
CountInv == \A t \in DOMAIN tabs :
              tabs[t].refs = Owned(t) + Cardinality(Using(t)) + Cardinality(Dropping(t))

\* A memtable's writers: its place at the end of the queue, makeRoomForWrite until it
\* ends, and the writer; what a flush reads has none.
Switching(i) == mu.pc # "free" /\ mu.by = "switch" /\ i = Len(queue) - 1
WriterInv ==
  /\ \A i \in DOMAIN queue :
       tabs[queue[i]].writers = (IF i = Len(queue) \/ Switching(i) THEN 1 ELSE 0)
                                + (IF wr.mem = queue[i] THEN 1 ELSE 0)
  /\ wr.mem # 0 => wr.mem \in Range(queue)
  /\ fl.pc \in {"build", "install"} => \A i \in 1..fl.n : tabs[queue[i]].writers = 0

\* A table is there while it is referenced; an obsolete one has left its place and
\* its file goes with it.
LiveInv ==
  \A t \in DOMAIN tabs :
    /\ tabs[t].live <=> tabs[t].refs > 0
    /\ tabs[t].kind = "arr" /\ tabs[t].refs > 0 => tabs[t].file
    /\ tabs[t].kind = "mem" => ~tabs[t].file
    /\ tabs[t].obsolete /\ tabs[t].refs = 0 => ~tabs[t].file
    /\ tabs[t].obsolete => t \notin Range(queue) \cup {arr, fl.new} \cup orphans

\* The file that is not obsolete, nor about to be: arrtable's.
Lasting(t) == /\ tabs[t].file /\ ~tabs[t].obsolete
              /\ t \notin orphans \cup {fl.new} \cup Range(drops["flush"])
FileInv ==
  \A t \in DOMAIN tabs : Lasting(t) =>
    /\ status # "closed" => t = arr
    /\ \A u \in DOMAIN tabs : Lasting(u) => u = t

IInv == /\ TypeInv /\ PlaceInv /\ PhaseInv /\ DropsInv /\ StateInv /\ CountInv
        /\ WriterInv /\ LiveInv /\ FileInv
-----------------------------------------------------------------------------
(***************************************************************************)
(* Sequences and counting.                                                 *)
(***************************************************************************)

\* What a sequence holds (the loops over queue, unrefs and drops).
LEMMA RangeFact ==
  ASSUME NEW S, NEW q \in Seq(S)
  PROVE  /\ Len(q) \in Nat /\ DOMAIN q = 1..Len(q) /\ Range(q) \subseteq S
         /\ \A i \in 1..Len(q) : q[i] \in Range(q)
         /\ \A x \in Range(q) : \E i \in 1..Len(q) : q[i] = x
         /\ q # <<>> <=> Len(q) > 0
         /\ q = <<>> => Range(q) = {}
BY DEF Range

\* One pass of a loop over different tables leaves the others.
LEMMA TailFact ==
  ASSUME NEW S, NEW q \in Seq(S), q # <<>>, Injective(q)
  PROVE  /\ Tail(q) \in Seq(S) /\ Injective(Tail(q))
         /\ Head(q) \in Range(q) /\ Range(Tail(q)) = Range(q) \ {Head(q)}
<1> DEFINE n == Len(q)
<1>1. n \in Nat /\ n > 0 /\ DOMAIN q = 1..n
  OBVIOUS
<1>2. /\ Tail(q) \in Seq(S) /\ Len(Tail(q)) = n - 1 /\ DOMAIN Tail(q) = 1..(n - 1)
      /\ Head(q) = q[1] /\ \A i \in 1..(n - 1) : Tail(q)[i] = q[i + 1]
  BY <1>1
<1> HIDE DEF n
<1>3. Injective(Tail(q))
  <2> SUFFICES ASSUME NEW i \in 1..(n - 1), NEW j \in 1..(n - 1), Tail(q)[i] = Tail(q)[j]
               PROVE  i = j
    BY <1>2 DEF Injective
  <2>1. i + 1 \in 1..n /\ j + 1 \in 1..n /\ q[i + 1] = q[j + 1]
    BY <1>1, <1>2
  <2>2. i + 1 = j + 1
    BY <1>1, <2>1 DEF Injective
  <2> QED BY <2>2
<1>4. Range(Tail(q)) \subseteq Range(q) \ {Head(q)}
  <2> SUFFICES ASSUME NEW i \in 1..(n - 1)
               PROVE  Tail(q)[i] \in Range(q) /\ Tail(q)[i] # Head(q)
    BY <1>2 DEF Range
  <2>1. i + 1 \in 1..n /\ 1 \in 1..n /\ i + 1 # 1 /\ Tail(q)[i] = q[i + 1]
    BY <1>1, <1>2
  <2>2. q[i + 1] # q[1]
    BY <1>1, <2>1 DEF Injective
  <2> QED BY <1>1, <1>2, <2>1, <2>2 DEF Range
<1>5. Range(q) \ {Head(q)} \subseteq Range(Tail(q))
  <2> SUFFICES ASSUME NEW i \in 1..n, q[i] # Head(q)
               PROVE  q[i] \in Range(Tail(q))
    BY <1>1 DEF Range
  <2>1. i - 1 \in 1..(n - 1) /\ (i - 1) + 1 = i
    BY <1>1, <1>2
  <2>2. Tail(q)[i - 1] = q[i]
    BY <1>2, <2>1
  <2> QED BY <1>2, <2>1, <2>2 DEF Range
<1>6. Head(q) \in Range(q)
  BY <1>1, <1>2 DEF Range
<1> QED BY <1>2, <1>3, <1>4, <1>5, <1>6

\* What stands first and what follows.
LEMMA JoinFact ==
  ASSUME NEW S, NEW p \in Seq(S), NEW q \in Seq(S)
  PROVE  /\ p \o q \in Seq(S) /\ Range(p \o q) = Range(p) \cup Range(q)
         /\ Injective(p) /\ Injective(q) /\ Range(p) \cap Range(q) = {} => Injective(p \o q)
         /\ p = <<>> => p \o q = q
<1> DEFINE n == Len(p)
           m == Len(q)
           r == p \o q
<1>1. /\ n \in Nat /\ m \in Nat /\ DOMAIN p = 1..n /\ DOMAIN q = 1..m
      /\ r \in Seq(S) /\ Len(r) = n + m /\ DOMAIN r = 1..(n + m)
      /\ \A i \in 1..n : r[i] = p[i]
      /\ \A i \in 1..(n + m) : i > n => r[i] = q[i - n]
      /\ p = <<>> => r = q
  OBVIOUS
<1> HIDE DEF n, m, r
<1>2. \A i \in 1..m : i + n \in 1..(n + m) /\ i + n > n /\ (i + n) - n = i
  BY <1>1
<1>3. \A i \in 1..m : r[i + n] = q[i]
  BY <1>1, <1>2
<1>4. \A i \in 1..(n + m) : i \in 1..n \/ (i > n /\ i - n \in 1..m)
  BY <1>1
<1>5. \A i \in 1..n : i \in 1..(n + m)
  BY <1>1
<1>6. Range(r) \subseteq Range(p) \cup Range(q)
  BY <1>1, <1>4 DEF Range
<1>7. Range(p) \subseteq Range(r) /\ Range(q) \subseteq Range(r)
  <2>1. \A i \in DOMAIN r : r[i] \in Range(r)
    BY DEF Range
  <2>2. \A i \in 1..n : p[i] \in Range(r)
    BY <1>1, <1>5, <2>1
  <2>3. \A i \in 1..m : q[i] \in Range(r)
    BY <1>1, <1>2, <1>3, <2>1
  <2> QED BY <1>1, <2>2, <2>3 DEF Range
<1>8. ASSUME Injective(p), Injective(q), Range(p) \cap Range(q) = {}
      PROVE  Injective(r)
  <2> SUFFICES ASSUME NEW i \in 1..(n + m), NEW j \in 1..(n + m), r[i] = r[j]
               PROVE  i = j
    BY <1>1 DEF Injective
  <2>1. \A x \in 1..n, y \in 1..m : p[x] # q[y]
    BY <1>1, <1>8 DEF Range
  <2>2. CASE i \in 1..n /\ j \in 1..n
    BY <1>1, <1>8, <2>2 DEF Injective
  <2>3. CASE i \in 1..n /\ j > n /\ j - n \in 1..m
    BY <1>1, <2>1, <2>3
  <2>4. CASE j \in 1..n /\ i > n /\ i - n \in 1..m
    BY <1>1, <2>1, <2>4
  <2>5. CASE i > n /\ i - n \in 1..m /\ j > n /\ j - n \in 1..m
    <3>1. q[i - n] = q[j - n]
      BY <1>1, <2>5
    <3>2. i - n = j - n
      BY <1>1, <1>8, <2>5, <3>1 DEF Injective
    <3> QED BY <1>1, <3>2
  <2> QED BY <1>4, <2>2, <2>3, <2>4, <2>5
<1> QED BY <1>1, <1>6, <1>7, <1>8 DEF r

\* flush1's cut of the queue.
LEMMA CutFact ==
  ASSUME NEW S, NEW q \in Seq(S), Injective(q), NEW n \in Nat, n <= Len(q)
  PROVE  LET p == SubSeq(q, 1, n)
             r == SubSeq(q, n + 1, Len(q)) IN
         /\ p \in Seq(S) /\ Injective(p) /\ Len(p) = n
         /\ r \in Seq(S) /\ Injective(r) /\ Len(r) = Len(q) - n
         /\ \A i \in 1..n : p[i] = q[i]
         /\ \A i \in 1..(Len(q) - n) : r[i] = q[i + n]
         /\ Range(p) \cup Range(r) = Range(q) /\ Range(p) \cap Range(r) = {}
<1> DEFINE p == SubSeq(q, 1, n)
           r == SubSeq(q, n + 1, Len(q))
           m == Len(q)
<1>1. /\ m \in Nat /\ n <= m /\ DOMAIN q = 1..m
      /\ p \in Seq(S) /\ Len(p) = n /\ DOMAIN p = 1..n /\ \A i \in 1..n : p[i] = q[i]
  OBVIOUS
<1>2. /\ r \in Seq(S) /\ Len(r) = m - n /\ DOMAIN r = 1..(m - n)
      /\ \A i \in 1..(m - n) : r[i] = q[i + n]
  <2>1. r \in Seq(S) /\ Len(r) = m - n /\ m - n \in Nat
    BY <1>1
  <2>2. \A i \in 1..(m - n) : r[i] = q[i + n]
    BY <1>1
  <2> QED BY <2>1, <2>2
<1> HIDE DEF p, r, m
<1>3. \A i \in 1..n : i \in 1..m
  BY <1>1
<1>4. \A i \in 1..(m - n) : i + n \in 1..m /\ i + n \notin 1..n
  BY <1>1
<1>5. Injective(p)
  BY <1>1, <1>3 DEF Injective
<1>6. Injective(r)
  <2> SUFFICES ASSUME NEW i \in 1..(m - n), NEW j \in 1..(m - n), q[i + n] = q[j + n]
               PROVE  i = j
    BY <1>2 DEF Injective
  <2>1. i + n = j + n
    BY <1>1, <1>4 DEF Injective
  <2> QED BY <1>1, <2>1
<1>7. Range(p) \cap Range(r) = {}
  <2> SUFFICES ASSUME NEW x \in Range(p), x \in Range(r) PROVE FALSE
    OBVIOUS
  <2>2. PICK i \in 1..n : x = q[i]
    BY <1>1 DEF Range
  <2>3. PICK j \in 1..(m - n) : x = q[j + n]
    BY <1>2 DEF Range
  <2>1. i = j + n
    BY <1>1, <1>3, <1>4, <2>2, <2>3 DEF Injective
  <2> QED BY <1>4, <2>1
<1>8. Range(p) \subseteq Range(q) /\ Range(r) \subseteq Range(q)
  BY <1>1, <1>2, <1>3, <1>4 DEF Range
<1>9. Range(q) \subseteq Range(p) \cup Range(r)
  <2> SUFFICES ASSUME NEW i \in 1..m PROVE q[i] \in Range(p) \cup Range(r)
    BY <1>1 DEF Range
  <2>1. CASE i \in 1..n
    BY <1>1, <2>1 DEF Range
  <2>2. CASE i \notin 1..n
    <3>1. i - n \in 1..(m - n) /\ (i - n) + n = i
      BY <1>1, <2>2
    <3>2. r[i - n] = q[i]
      BY <1>2, <3>1
    <3> QED BY <1>2, <3>1, <3>2 DEF Range
  <2> QED BY <2>1, <2>2
<1> QED BY <1>1, <1>2, <1>5, <1>6, <1>7, <1>8, <1>9 DEF p, r, m

\* A table, or a state, more.
LEMMA AppendFact ==
  ASSUME NEW q, q \in Seq(Range(q)), NEW x
  PROVE  LET r == Append(q, x) IN
         /\ r \in Seq(Range(r)) /\ Len(r) = Len(q) + 1 /\ DOMAIN r = 1..(Len(q) + 1)
         /\ \A i \in 1..Len(q) : r[i] = q[i]
         /\ r[Len(q) + 1] = x
<1> DEFINE S == Range(q) \cup {x}
           r == Append(q, x)
<1>1. q \in Seq(S)
  <2>1. \A i \in 1..Len(q) : q[i] \in S
    BY DEF Range
  <2> QED BY <2>1
<1> HIDE DEF S
<1>2. x \in S
  BY DEF S
<1>3. /\ r \in Seq(S) /\ Len(r) = Len(q) + 1 /\ DOMAIN r = 1..(Len(q) + 1)
      /\ (\A i \in 1..Len(q) : r[i] = q[i]) /\ r[Len(q) + 1] = x
  BY <1>1, <1>2
<1> HIDE DEF r
<1>4. \A i \in DOMAIN r : r[i] \in Range(r)
  BY DEF Range
<1>5. r \in Seq(Range(r))
  BY <1>3, <1>4
<1> QED BY <1>3, <1>5 DEF r

\* Adding and taking away one of those that are counted.
LEMMA CardFact ==
  /\ \A S, x : IsFiniteSet(S) => Cardinality(S) \in Nat
  /\ \A S, x : IsFiniteSet(S) /\ x \notin S =>
       IsFiniteSet(S \cup {x}) /\ Cardinality(S \cup {x}) = Cardinality(S) + 1
  /\ \A S, x : IsFiniteSet(S) /\ x \in S =>
       /\ IsFiniteSet(S \ {x}) /\ Cardinality(S \ {x}) = Cardinality(S) - 1
       /\ Cardinality(S) > 0
  /\ IsFiniteSet({}) /\ Cardinality({}) = 0
  /\ \A S, T : IsFiniteSet(S) /\ T \subseteq S => IsFiniteSet(T)
<1>1. \A S : IsFiniteSet(S) => Cardinality(S) \in Nat
  BY FS_CardinalityType
<1>2. \A S, x : IsFiniteSet(S) /\ x \notin S =>
       IsFiniteSet(S \cup {x}) /\ Cardinality(S \cup {x}) = Cardinality(S) + 1
  BY FS_AddElement
<1>3. \A S, x : IsFiniteSet(S) /\ x \in S =>
       IsFiniteSet(S \ {x}) /\ Cardinality(S \ {x}) = Cardinality(S) - 1
  BY FS_RemoveElement
<1>4. IsFiniteSet({}) /\ Cardinality({}) = 0
  BY FS_EmptySet
<1>5. \A S, T : IsFiniteSet(S) /\ T \subseteq S => IsFiniteSet(T)
  BY FS_Subset
<1>6. \A S, x : IsFiniteSet(S) /\ x \in S => Cardinality(S) > 0
  <2> SUFFICES ASSUME NEW S, NEW x \in S, IsFiniteSet(S) PROVE Cardinality(S) > 0
    OBVIOUS
  <2>1. Cardinality(S) \in Nat /\ Cardinality(S \ {x}) = Cardinality(S) - 1
    BY <1>1, <1>3
  <2>2. Cardinality(S \ {x}) \in Nat
    BY <1>1, <1>3
  <2> QED BY <2>1, <2>2
<1> QED BY <1>1, <1>2, <1>3, <1>4, <1>5, <1>6
-----------------------------------------------------------------------------
(***************************************************************************)
(* The operators of the model.                                             *)
(***************************************************************************)

\* readerUnref, field by field: the last one frees the memory or the mapping, and
\* the file of an obsolete table.
LEMMA UnrefFact ==
  ASSUME NEW t, DOMAIN t = Fields
  PROVE  LET u == ReaderUnref(t) IN
         /\ DOMAIN u = Fields /\ u.kind = t.kind /\ u.refs = t.refs - 1
         /\ u.writers = t.writers /\ u.obsolete = t.obsolete
         /\ u.live <=> t.live /\ t.refs > 1
         /\ u.file <=> t.file /\ ~(t.refs = 1 /\ t.obsolete)
BY DEF ReaderUnref, Fields

\* flush1's mark and readerUnref.
LEMMA FlushUnrefFact ==
  ASSUME NEW t, DOMAIN t = Fields
  PROVE  LET u == FlushUnref(t) IN
         /\ DOMAIN u = Fields /\ u.kind = t.kind /\ u.refs = t.refs - 1
         /\ u.writers = t.writers /\ u.obsolete
         /\ u.live <=> t.live /\ t.refs > 1
         /\ u.file <=> t.file /\ ~(t.refs = 1)
<1> DEFINE s == SetObsolete(t)
<1>1. /\ DOMAIN s = Fields /\ s.kind = t.kind /\ s.refs = t.refs /\ s.writers = t.writers
      /\ s.obsolete = TRUE /\ s.live = t.live /\ s.file = t.file
  BY DEF SetObsolete, Fields
<1> HIDE DEF s
<1>2. FlushUnref(t) = ReaderUnref(s)
  BY DEF FlushUnref, s
<1> QED BY <1>1, <1>2, UnrefFact

\* readerRef of the tables of a read state, field by field.
LEMMA RefFact ==
  ASSUME NEW ts, ts \in Seq(Range(ts)), NEW ids, \A i \in DOMAIN ts : DOMAIN ts[i] = Fields
  PROVE  LET us == Referenced(ts, ids) IN
         /\ us \in Seq(Range(us)) /\ Len(us) = Len(ts) /\ DOMAIN us = DOMAIN ts
         /\ \A i \in DOMAIN ts :
              /\ DOMAIN us[i] = Fields
              /\ us[i].kind = ts[i].kind /\ us[i].live = ts[i].live
              /\ us[i].writers = ts[i].writers /\ us[i].obsolete = ts[i].obsolete
              /\ us[i].file = ts[i].file
              /\ us[i].refs = IF i \in ids THEN ts[i].refs + 1 ELSE ts[i].refs
<1> DEFINE us == Referenced(ts, ids)
           E(i) == [ts[i] EXCEPT !.refs = ts[i].refs + 1]
<1>1. us = [i \in DOMAIN ts |-> IF i \in ids THEN E(i) ELSE ts[i]]
  BY DEF Referenced
<1>2. ASSUME NEW i \in DOMAIN ts
      PROVE  /\ DOMAIN E(i) = Fields /\ E(i).kind = ts[i].kind /\ E(i).live = ts[i].live
             /\ E(i).writers = ts[i].writers /\ E(i).obsolete = ts[i].obsolete
             /\ E(i).file = ts[i].file /\ E(i).refs = ts[i].refs + 1
  BY DEF Fields
<1> HIDE DEF E, us
<1>3. Len(ts) \in Nat /\ DOMAIN ts = 1..Len(ts) /\ DOMAIN us = DOMAIN ts
  BY <1>1
<1>4. us \in Seq(Range(us)) /\ Len(us) = Len(ts)
  BY <1>1, <1>3 DEF Range
<1> QED BY <1>1, <1>2, <1>3, <1>4 DEF us
\* One table of many changes.
LEMMA EntryFact ==
  ASSUME NEW ts, ts \in Seq(Range(ts)), NEW x \in DOMAIN ts, NEW e
  PROVE  LET us == [ts EXCEPT ![x] = e] IN
         /\ us \in Seq(Range(us)) /\ Len(us) = Len(ts) /\ DOMAIN us = DOMAIN ts
         /\ us[x] = e /\ \A i \in DOMAIN ts : i # x => us[i] = ts[i]
<1> DEFINE us == [ts EXCEPT ![x] = e]
<1>1. Len(ts) \in Nat /\ DOMAIN ts = 1..Len(ts)
  OBVIOUS
<1>2. /\ us = [i \in 1..Len(ts) |-> IF i = x THEN e ELSE ts[i]] /\ DOMAIN us = 1..Len(ts)
  BY <1>1
<1> HIDE DEF us
<1>3. us \in Seq(Range(us)) /\ Len(us) = Len(ts)
  BY <1>1, <1>2 DEF Range
<1> QED BY <1>1, <1>2, <1>3 DEF us

\* What a read state lists: no table twice, and only tables there are.
LEMMA ListsFact ==
  ASSUME TypeInv, PlaceInv, NEW s \in DOMAIN states
  PROVE  /\ Tables(s) \in Seq(Nat) /\ Injective(Tables(s))
         /\ Lists(s) = Range(states[s].mems) \cup ({states[s].arr} \ {0})
         /\ Range(Tables(s)) = Lists(s) /\ Lists(s) \subseteq DOMAIN tabs
         /\ states[s] \in State
<1> DEFINE p == states[s].mems
           q == IF states[s].arr = 0 THEN <<>> ELSE <<states[s].arr>>
<1>1. states[s] \in State
  BY DEF TypeInv
<1>2. p \in Seq(Nat) /\ states[s].arr \in Nat
  BY <1>1 DEF State
<1>3. q \in Seq(Nat) /\ Injective(q) /\ Range(q) = {states[s].arr} \ {0}
  BY <1>2 DEF Injective, Range
<1>4. Injective(p) /\ Range(p) \subseteq Of("mem") /\ {states[s].arr} \ {0} \subseteq Of("arr")
  BY DEF PlaceInv
<1>5. Of("mem") \cap Of("arr") = {} /\ Of("mem") \subseteq DOMAIN tabs /\ Of("arr") \subseteq DOMAIN tabs
  BY DEF Of
<1>6. Tables(s) = p \o q
  BY DEF Tables
<1> HIDE DEF p, q
<1>7. Range(p) \cap Range(q) = {}
  BY <1>3, <1>4, <1>5
<1>8. Tables(s) \in Seq(Nat) /\ Injective(Tables(s)) /\ Range(Tables(s)) = Range(p) \cup Range(q)
  BY <1>2, <1>3, <1>4, <1>6, <1>7, JoinFact
<1> QED
  BY <1>1, <1>3, <1>4, <1>5, <1>8 DEF p, Lists

\* unref of a read state by a goroutine that has nothing else to unreference.
LEMMA UnrefShape ==
  ASSUME TypeInv, PlaceInv, NEW s \in DOMAIN states, NEW a \in Actors, Unref(s, a),
         drops[a] = <<>>, states[s].refs > 0
  PROVE  /\ states' \in Seq(State) /\ Len(states') = Len(states) /\ DOMAIN states' = DOMAIN states
         /\ \A u \in DOMAIN states : u # s => states'[u] = states[u]
         /\ states'[s].refs = states[s].refs - 1
         /\ states[s].refs # 1 => /\ states'[s].mems = states[s].mems
                                  /\ states'[s].arr = states[s].arr
                                  /\ drops' = drops
         /\ states[s].refs = 1 => /\ states'[s].mems = <<>> /\ states'[s].arr = 0
                                  /\ drops'[a] = Tables(s)
         /\ DOMAIN drops' = Actors /\ drops'[a] \in Seq(Nat)
         /\ \A b \in Actors : b # a => drops'[b] = drops[b]
<1>1. states[s] \in State /\ Tables(s) \in Seq(Nat)
  BY ListsFact
<1>2. states \in Seq(State) /\ Len(states) \in Nat /\ DOMAIN states = 1..Len(states)
  BY DEF TypeInv
<1>3. drops \in [Actors -> Seq(Nat)] /\ DOMAIN drops = Actors /\ drops[a] \in Seq(Nat)
  BY DEF TypeInv
<1>4. <<>> \o Tables(s) = Tables(s)
  BY <1>1
<1>5. CASE states[s].refs = 1
  <2> DEFINE e == [refs |-> 0, mems |-> <<>>, arr |-> 0]
  <2>1. e \in State /\ e.refs = 0 /\ e.mems = <<>> /\ e.arr = 0
    BY DEF State
  <2>2. states' = [states EXCEPT ![s] = e] /\ drops' = [drops EXCEPT ![a] = Tables(s)]
    BY <1>3, <1>4, <1>5 DEF Unref
  <2> HIDE DEF e
  <2>3. /\ states' \in Seq(State) /\ Len(states') = Len(states) /\ DOMAIN states' = DOMAIN states
        /\ \A u \in DOMAIN states : states'[u] = IF u = s THEN e ELSE states[u]
    BY <1>2, <2>1, <2>2
  <2>4. DOMAIN drops' = Actors /\ drops'[a] = Tables(s)
        /\ \A b \in Actors : b # a => drops'[b] = drops[b]
    BY <1>3, <2>2
  <2> QED BY <1>1, <1>5, <2>1, <2>3, <2>4
<1>6. CASE states[s].refs # 1
  <2> DEFINE e == [states[s] EXCEPT !.refs = states[s].refs - 1]
  <2>0. states[s].refs - 1 \in Nat
    BY <1>1 DEF State
  <2>1. e \in State /\ e.refs = states[s].refs - 1 /\ e.mems = states[s].mems
        /\ e.arr = states[s].arr
    BY <1>1, <2>0 DEF State
  <2>2. states' = [states EXCEPT ![s] = e] /\ drops' = [drops EXCEPT ![a] = drops[a]]
    BY <1>6 DEF Unref
  <2> HIDE DEF e
  <2>3. /\ states' \in Seq(State) /\ Len(states') = Len(states) /\ DOMAIN states' = DOMAIN states
        /\ \A u \in DOMAIN states : states'[u] = IF u = s THEN e ELSE states[u]
    BY <1>2, <2>1, <2>2
  <2>4. DOMAIN drops' = Actors /\ drops'[a] = drops[a]
        /\ \A b \in Actors : b # a => drops'[b] = drops[b]
    BY <1>3, <2>2
  <2>5. drops' = drops
    BY <1>3, <2>2
  <2> QED BY <1>3, <1>6, <2>1, <2>3, <2>4, <2>5
<1> QED BY <1>5, <1>6

\* A new read state follows the others.
LEMMA NewState ==
  ASSUME TypeInv, NEW q \in Seq(Nat), NEW at \in Nat,
         states' = Append(states, [refs |-> 1, mems |-> q, arr |-> at])
  PROVE  LET n == Len(states) + 1 IN
         /\ states' \in Seq(State) /\ Len(states') = n /\ DOMAIN states' = 1..n
         /\ Len(states) \in Nat /\ DOMAIN states = 1..Len(states)
         /\ \A s \in DOMAIN states : states'[s] = states[s]
         /\ states'[n].refs = 1 /\ states'[n].mems = q /\ states'[n].arr = at
<1> DEFINE e == [refs |-> 1, mems |-> q, arr |-> at]
<1>1. e \in State /\ e.refs = 1 /\ e.mems = q /\ e.arr = at
  BY DEF State
<1>2. states \in Seq(State)
  BY DEF TypeInv
<1>3. states' = Append(states, e)
  OBVIOUS
<1> HIDE DEF e
<1> QED BY <1>1, <1>2, <1>3
-----------------------------------------------------------------------------
(***************************************************************************)
(* What the steps do to the tables.                                        *)
(***************************************************************************)

\* Steps that give and take no reference.
SameTabs ==
  /\ tabs' \in Seq(Range(tabs')) /\ Len(tabs') = Len(tabs) /\ DOMAIN tabs' = DOMAIN tabs
  /\ \A t \in DOMAIN tabs :
       /\ DOMAIN tabs'[t] = Fields /\ tabs'[t].kind = tabs[t].kind
       /\ tabs'[t].refs = tabs[t].refs /\ tabs'[t].live = tabs[t].live
       /\ tabs'[t].obsolete = tabs[t].obsolete /\ tabs'[t].file = tabs[t].file

\* A stuttering step, and those of readers and Close, which change no table.
LEMMA TabsUnchanged ==
  ASSUME TypeInv, UNCHANGED tabs
  PROVE  SameTabs
BY DEF TypeInv, SameTabs

\* writerRef, writerUnref and an entry for one memtable x.
LEMMA TabsWritten ==
  ASSUME TypeInv, NEW x \in DOMAIN tabs, NEW e, tabs' = [tabs EXCEPT ![x] = e],
         DOMAIN e = Fields, e.kind = tabs[x].kind, e.refs = tabs[x].refs,
         e.live = tabs[x].live, e.obsolete = tabs[x].obsolete, e.file = tabs[x].file
  PROVE  /\ SameTabs /\ tabs'[x].writers = e.writers
         /\ \A t \in DOMAIN tabs : t # x => tabs'[t].writers = tabs[t].writers
<1>1. /\ tabs' \in Seq(Range(tabs')) /\ Len(tabs') = Len(tabs) /\ DOMAIN tabs' = DOMAIN tabs
      /\ tabs'[x] = e /\ \A t \in DOMAIN tabs : t # x => tabs'[t] = tabs[t]
  BY EntryFact DEF TypeInv
<1>2. \A t \in DOMAIN tabs : DOMAIN tabs[t] = Fields
  BY DEF TypeInv
<1> QED BY <1>1, <1>2 DEF SameTabs

\* Indices of the queue are tables.
LEMMA QueueFact ==
  ASSUME TypeInv, PlaceInv
  PROVE  /\ Len(queue) \in Nat /\ DOMAIN queue = 1..Len(queue)
         /\ \A i \in 1..Len(queue) : /\ queue[i] \in DOMAIN tabs /\ queue[i] \in Range(queue)
                                     /\ tabs[queue[i]].kind = "mem"
         /\ \A i, j \in 1..Len(queue) : queue[i] = queue[j] => i = j
         /\ Len(tabs) \in Nat /\ DOMAIN tabs = 1..Len(tabs) /\ 0 \notin DOMAIN tabs
         /\ 0 \notin Range(queue) /\ Range(queue) \subseteq DOMAIN tabs
<1>1. Len(queue) \in Nat /\ DOMAIN queue = 1..Len(queue) /\ Len(tabs) \in Nat /\ DOMAIN tabs = 1..Len(tabs)
  BY DEF TypeInv
<1>2. \A i \in 1..Len(queue) : queue[i] \in Range(queue)
  BY <1>1 DEF Range
<1>3. Range(queue) \subseteq Of("mem") /\ Injective(queue)
  BY DEF PlaceInv
<1>4. 0 \notin DOMAIN tabs
  BY <1>1
<1> QED BY <1>1, <1>2, <1>3, <1>4 DEF Of, Injective

\* prepare: a writer's reference to the mutable memtable.
LEMMA WriteFact ==
  ASSUME TypeInv, PlaceInv, PhaseInv, NEW k \in Keys, Write(k)
  PROVE  LET x == queue[Len(queue)] IN
         /\ SameTabs /\ Len(queue) > 0 /\ tabs'[x].writers = tabs[x].writers + 1
         /\ \A t \in DOMAIN tabs : t # x => tabs'[t].writers = tabs[t].writers
         /\ wr'.mem = x /\ DOMAIN wr' = {"mem", "key", "seq"} /\ wr.mem = 0
         /\ status = "open" /\ mu.pc = "free"
<1> DEFINE x == queue[Len(queue)]
           e == [tabs[x] EXCEPT !.writers = tabs[x].writers + 1, !.used = tabs[x].used + 1]
<1>1. Len(queue) > 0
  BY DEF Write, PhaseInv
<1>2. x \in DOMAIN tabs
  BY <1>1, QueueFact
<1>3. DOMAIN tabs[x] = Fields
  BY <1>2 DEF TypeInv
<1>4. tabs' = [tabs EXCEPT ![x] = e]
  BY DEF Write, Mutable
<1>5. /\ DOMAIN e = Fields /\ e.kind = tabs[x].kind /\ e.refs = tabs[x].refs
      /\ e.live = tabs[x].live /\ e.obsolete = tabs[x].obsolete /\ e.file = tabs[x].file
      /\ e.writers = tabs[x].writers + 1
  BY <1>3 DEF Fields
<1>6. wr'.mem = x /\ DOMAIN wr' = {"mem", "key", "seq"} /\ wr.mem = 0 /\ status = "open"
      /\ mu.pc = "free"
  BY DEF Write, Mutable
<1> HIDE DEF e, x
<1>7. /\ SameTabs /\ tabs'[x].writers = e.writers
      /\ \A t \in DOMAIN tabs : t # x => tabs'[t].writers = tabs[t].writers
  BY <1>2, <1>4, <1>5, TabsWritten
<1> QED BY <1>1, <1>5, <1>6, <1>7 DEF x

\* apply and writerUnref.
LEMMA ApplyFact ==
  ASSUME TypeInv, PlaceInv, WriterInv, Apply
  PROVE  LET x == wr.mem IN
         /\ SameTabs /\ x \in Range(queue) /\ tabs'[x].writers = tabs[x].writers - 1
         /\ tabs[x].writers > 0
         /\ \A t \in DOMAIN tabs : t # x => tabs'[t].writers = tabs[t].writers
         /\ wr'.mem = 0 /\ DOMAIN wr' = {"mem", "key", "seq"}
<1> DEFINE x == wr.mem
           e == [tabs[x] EXCEPT !.body = [tabs[x].body EXCEPT ![wr.key] = wr.seq],
                                !.writers = tabs[x].writers - 1]
<1>1. x \in Range(queue) /\ x # 0
  BY DEF Apply, WriterInv
<1>2. x \in DOMAIN tabs
  BY <1>1, QueueFact
<1>3. DOMAIN tabs[x] = Fields
  BY <1>2 DEF TypeInv
<1>4. tabs' = [tabs EXCEPT ![x] = e]
  BY DEF Apply
<1>5. /\ DOMAIN e = Fields /\ e.kind = tabs[x].kind /\ e.refs = tabs[x].refs
      /\ e.live = tabs[x].live /\ e.obsolete = tabs[x].obsolete /\ e.file = tabs[x].file
      /\ e.writers = tabs[x].writers - 1
  BY <1>3 DEF Fields
<1>6. wr'.mem = 0 /\ DOMAIN wr' = {"mem", "key", "seq"}
  BY DEF Apply, IdleWriter
<1>7. tabs[x].writers > 0
  <2>1. PICK i \in DOMAIN queue : queue[i] = x
    BY <1>1 DEF Range
  <2> QED BY <2>1 DEF WriterInv
<1> HIDE DEF e, x
<1>8. /\ SameTabs /\ tabs'[x].writers = e.writers
      /\ \A t \in DOMAIN tabs : t # x => tabs'[t].writers = tabs[t].writers
  BY <1>2, <1>4, <1>5, TabsWritten
<1> QED BY <1>1, <1>5, <1>6, <1>7, <1>8 DEF x
\* The end of makeRoomForWrite, or of flush1's critical section.
LEMMA UpdateEndFact ==
  ASSUME TypeInv, PlaceInv, PhaseInv, WriterInv, UpdateEnd
  PROVE  /\ SameTabs
         /\ mu' = Free /\ mu.pc = "end" /\ drops["mu"] = <<>>
         /\ mu.by = "switch" =>
              LET x == queue[Len(queue) - 1] IN
              /\ UNCHANGED fl /\ Len(queue) > 1 /\ tabs[x].writers > 0
              /\ tabs'[x].writers = tabs[x].writers - 1
              /\ \A t \in DOMAIN tabs : t # x => tabs'[t].writers = tabs[t].writers
         /\ mu.by # "switch" => /\ fl.pc = "update" /\ fl'.pc = "release" /\ fl'.n = fl.n
                                /\ fl'.new = fl.new /\ fl' \in Fl /\ UNCHANGED tabs
<1>1. mu.pc = "end" /\ mu' = Free /\ drops["mu"] = <<>>
  BY DEF UpdateEnd
<1>2. CASE mu.by = "switch"
  <2> DEFINE x == queue[Len(queue) - 1]
             e == [tabs[x] EXCEPT !.writers = tabs[x].writers - 1]
  <2>1. Len(queue) > 1 /\ Len(queue) - 1 \in 1..Len(queue)
    BY <1>1, <1>2, QueueFact DEF PhaseInv
  <2>2. x \in DOMAIN tabs
    BY <2>1, QueueFact
  <2>3. DOMAIN tabs[x] = Fields
    BY <2>2 DEF TypeInv
  <2>4. tabs' = [tabs EXCEPT ![x] = e] /\ UNCHANGED fl
    BY <1>2 DEF UpdateEnd
  <2>5. /\ DOMAIN e = Fields /\ e.kind = tabs[x].kind /\ e.refs = tabs[x].refs
        /\ e.live = tabs[x].live /\ e.obsolete = tabs[x].obsolete /\ e.file = tabs[x].file
        /\ e.writers = tabs[x].writers - 1
    BY <2>3 DEF Fields
  <2>6. tabs[x].writers > 0
    BY <1>1, <1>2, <2>1, QueueFact DEF WriterInv, Switching
  <2> HIDE DEF e, x
  <2>7. /\ SameTabs /\ tabs'[x].writers = e.writers
        /\ \A t \in DOMAIN tabs : t # x => tabs'[t].writers = tabs[t].writers
    BY <2>2, <2>4, <2>5, TabsWritten
  <2> QED BY <1>1, <1>2, <2>1, <2>4, <2>5, <2>6, <2>7 DEF x
<1>3. CASE mu.by # "switch"
  <2>1. UNCHANGED tabs /\ fl' = [fl EXCEPT !.pc = "release"] /\ fl \in Fl
    BY <1>3 DEF UpdateEnd, TypeInv
  <2>2. fl.pc = "update"
    BY <1>1, <1>3 DEF PhaseInv
  <2>3. fl'.pc = "release" /\ fl'.n = fl.n /\ fl'.new = fl.new /\ fl' \in Fl
    BY <2>1 DEF Fl
  <2> QED BY <1>1, <1>3, <2>1, <2>2, <2>3, TabsUnchanged
<1> QED BY <1>2, <1>3

\* The sets that are counted are finite.
LEMMA CountFinite ==
  ASSUME TypeInv, DropsInv, NEW t
  PROVE  IsFiniteSet(Using(t)) /\ IsFiniteSet(Dropping(t))
         /\ Cardinality(Using(t)) \in Nat /\ Cardinality(Dropping(t)) \in Nat
<1>1. Len(states) \in Nat /\ DOMAIN states = 1..Len(states)
  BY DEF TypeInv
<1>2. IsFiniteSet(1..Len(states))
  BY <1>1, FS_Interval
<1>3. Using(t) \subseteq 1..Len(states)
  BY <1>1 DEF Using
<1>4. Dropping(t) \subseteq {b \in Actors : drops[b] # <<>>}
  BY DEF Dropping, Range
<1>5. IsFiniteSet(Using(t)) /\ IsFiniteSet(Dropping(t))
  BY <1>2, <1>3, <1>4, CardFact DEF DropsInv
<1> QED BY <1>5, CardFact

\* Whatever is owned, listed by a state in use or about to be unreferenced is
\* referenced.
LEMMA CountPositive ==
  ASSUME TypeInv, DropsInv, CountInv, NEW t \in DOMAIN tabs
  PROVE  /\ Dropping(t) # {} => tabs[t].refs > 0
         /\ Using(t) # {} => tabs[t].refs > 0
         /\ t \in Range(queue) => tabs[t].refs > 0
         /\ t \in {arr, fl.new} \cup orphans => tabs[t].refs > 0
<1> DEFINE u == Cardinality(Using(t))
           d == Cardinality(Dropping(t))
           o == IF t \in Range(queue) THEN 1 ELSE 0
           p == IF t \in {arr, fl.new} \cup orphans THEN 1 ELSE 0
<1>1. u \in Nat /\ d \in Nat /\ o \in Nat /\ p \in Nat
  BY CountFinite
<1>2. tabs[t].refs = o + p + u + d
  BY DEF CountInv, Owned
<1>3. (Using(t) # {} => u > 0) /\ (Dropping(t) # {} => d > 0)
  BY CountFinite, CardFact
<1>4. (t \in Range(queue) => o > 0) /\ (t \in {arr, fl.new} \cup orphans => p > 0)
  OBVIOUS
<1> HIDE DEF u, d, o, p
<1> QED BY <1>1, <1>2, <1>3, <1>4

\* One pass of an unreferencing loop.
LEMMA DropFact ==
  ASSUME TypeInv, DropsInv, CountInv, NEW a \in Actors, Drop(a)
  PROVE  LET x == Head(drops[a]) IN
         /\ drops[a] # <<>> /\ x \in Range(drops[a]) /\ x \in DOMAIN tabs
         /\ a = "flush" => fl.pc = "release"
         /\ tabs[x].refs > 0 /\ IsFiniteSet(Dropping(x)) /\ a \in Dropping(x)
         /\ tabs' \in Seq(Range(tabs')) /\ Len(tabs') = Len(tabs) /\ DOMAIN tabs' = DOMAIN tabs
         /\ \A t \in DOMAIN tabs : t # x => tabs'[t] = tabs[t]
         /\ DOMAIN tabs'[x] = Fields /\ tabs'[x].kind = tabs[x].kind
         /\ tabs'[x].refs = tabs[x].refs - 1 /\ tabs'[x].writers = tabs[x].writers
         /\ tabs'[x].live <=> tabs[x].live /\ tabs[x].refs > 1
         /\ a # "flush" => /\ tabs'[x].obsolete = tabs[x].obsolete
                           /\ tabs'[x].file <=> tabs[x].file /\ ~(tabs[x].refs = 1 /\ tabs[x].obsolete)
         /\ a = "flush" => tabs'[x].obsolete /\ (tabs'[x].file <=> tabs[x].file /\ ~(tabs[x].refs = 1))
         /\ drops' = [drops EXCEPT ![a] = Tail(drops[a])] /\ drops' \in [Actors -> Seq(Nat)]
         /\ Injective(drops'[a]) /\ Range(drops'[a]) = Range(drops[a]) \ {x}
         /\ \A b \in Actors : b # a => drops'[b] = drops[b]
<1> DEFINE x == Head(drops[a])
           e == IF a = "flush" THEN FlushUnref(tabs[x]) ELSE ReaderUnref(tabs[x])
<1>1. drops \in [Actors -> Seq(Nat)] /\ drops[a] \in Seq(Nat) /\ drops[a] # <<>>
      /\ (a = "flush" => fl.pc = "release")
  BY DEF TypeInv, Drop
<1>2. Injective(drops[a]) /\ Range(drops[a]) \subseteq DOMAIN tabs
  BY DEF DropsInv
<1>3. /\ Tail(drops[a]) \in Seq(Nat) /\ Injective(Tail(drops[a]))
      /\ x \in Range(drops[a]) /\ Range(Tail(drops[a])) = Range(drops[a]) \ {x}
  BY <1>1, <1>2, TailFact
<1>4. x \in DOMAIN tabs /\ DOMAIN tabs[x] = Fields
  BY <1>2, <1>3 DEF TypeInv
<1>5. tabs' = [tabs EXCEPT ![x] = e] /\ drops' = [drops EXCEPT ![a] = Tail(drops[a])]
  BY DEF Drop
<1> HIDE DEF x
<1>6. /\ DOMAIN e = Fields /\ e.kind = tabs[x].kind
      /\ e.refs = tabs[x].refs - 1 /\ e.writers = tabs[x].writers
      /\ e.live <=> tabs[x].live /\ tabs[x].refs > 1
      /\ a # "flush" => /\ e.obsolete = tabs[x].obsolete
                        /\ e.file <=> tabs[x].file /\ ~(tabs[x].refs = 1 /\ tabs[x].obsolete)
      /\ a = "flush" => e.obsolete /\ (e.file <=> tabs[x].file /\ ~(tabs[x].refs = 1))
  <2>1. CASE a = "flush"
    BY <1>4, <2>1, FlushUnrefFact
  <2>2. CASE a # "flush"
    BY <1>4, <2>2, UnrefFact
  <2> QED BY <2>1, <2>2
<1> HIDE DEF e
<1>7. /\ tabs' \in Seq(Range(tabs')) /\ Len(tabs') = Len(tabs) /\ DOMAIN tabs' = DOMAIN tabs
      /\ tabs'[x] = e /\ \A t \in DOMAIN tabs : t # x => tabs'[t] = tabs[t]
  BY <1>4, <1>5, EntryFact DEF TypeInv
<1>8. IsFiniteSet(Dropping(x)) /\ a \in Dropping(x)
  <2>1. a \in Dropping(x)
    BY <1>3 DEF Dropping
  <2>2. Dropping(x) \subseteq {b \in Actors : drops[b] # <<>>}
    BY DEF Dropping, Range
  <2> QED BY <2>1, <2>2, CardFact DEF DropsInv
<1>9. tabs[x].refs > 0
  BY <1>4, <1>8, CountPositive
<1>10. /\ drops' \in [Actors -> Seq(Nat)] /\ drops'[a] = Tail(drops[a])
       /\ \A b \in Actors : b # a => drops'[b] = drops[b]
  BY <1>1, <1>3, <1>5
<1>11. Injective(drops'[a]) /\ Range(drops'[a]) = Range(drops[a]) \ {x}
  BY <1>3, <1>10
<1> QED BY <1>1, <1>3, <1>4, <1>5, <1>6, <1>7, <1>8, <1>9, <1>10, <1>11 DEF x
\* updateReadState with one table for each of the ids of q and at.
More(ids) == \A t \in DOMAIN tabs :
  /\ DOMAIN tabs'[t] = Fields /\ tabs'[t].kind = tabs[t].kind
  /\ tabs'[t].live = tabs[t].live /\ tabs'[t].writers = tabs[t].writers
  /\ tabs'[t].obsolete = tabs[t].obsolete /\ tabs'[t].file = tabs[t].file
  /\ tabs'[t].refs = IF t \in ids THEN tabs[t].refs + 1 ELSE tabs[t].refs

\* makeRoomForWrite's switch: a memtable with the queue's and the new state's
\* references.
LEMMA SwitchFact ==
  ASSUME TypeInv, PlaceInv, SwitchMem
  PROVE  LET x == Len(tabs) + 1
             s == Len(states) + 1 IN
         /\ status = "open" /\ mu.pc = "free" /\ UNCHANGED arr
         /\ mu' = [pc |-> "swap", old |-> val, by |-> "switch"]
         /\ tabs' \in Seq(Range(tabs')) /\ DOMAIN tabs' = DOMAIN tabs \cup {x}
         /\ x \notin DOMAIN tabs /\ x \in Nat /\ x # 0 /\ DOMAIN tabs' = 1..x
         /\ More(Range(queue) \cup ({arr} \ {0}))
         /\ DOMAIN tabs'[x] = Fields /\ tabs'[x].kind = "mem" /\ tabs'[x].refs = 2
         /\ tabs'[x].live = TRUE /\ tabs'[x].obsolete = FALSE /\ tabs'[x].file = FALSE
         /\ tabs'[x].writers = 1
         /\ queue' \in Seq(Nat) /\ Injective(queue') /\ Range(queue') = Range(queue) \cup {x}
         /\ Len(queue') = Len(queue) + 1 /\ queue'[Len(queue) + 1] = x
         /\ \A i \in 1..Len(queue) : queue'[i] = queue[i]
         /\ states' \in Seq(State) /\ Len(states') = s /\ DOMAIN states' = 1..s
         /\ \A u \in DOMAIN states : states'[u] = states[u]
         /\ states'[s].refs = 1 /\ states'[s].mems = queue' /\ states'[s].arr = arr
<1> DEFINE x == Len(tabs) + 1
           q == Append(queue, x)
           ts == Append(tabs, NewMem)
           ids == RefsOf(q, arr)
<1>1. /\ status = "open" /\ mu.pc = "free" /\ arr' = arr /\ queue' = q
      /\ mu' = [pc |-> "swap", old |-> val, by |-> "switch"]
      /\ tabs' = Referenced(ts, ids)
      /\ states' = Append(states, [refs |-> 1, mems |-> q, arr |-> arr])
  BY DEF SwitchMem, Update
<1>2. Len(tabs) \in Nat /\ DOMAIN tabs = 1..Len(tabs) /\ queue \in Seq(Nat) /\ arr \in Nat
      /\ (\A t \in DOMAIN tabs : DOMAIN tabs[t] = Fields) /\ tabs \in Seq(Range(tabs))
  BY DEF TypeInv
<1>3. x \in Nat /\ x # 0 /\ x \notin DOMAIN tabs /\ DOMAIN tabs \cup {x} = 1..x
  BY <1>2
<1>4. /\ ts \in Seq(Range(ts)) /\ Len(ts) = x /\ DOMAIN ts = 1..x
      /\ (\A t \in DOMAIN tabs : ts[t] = tabs[t]) /\ ts[x] = NewMem
  BY <1>2, AppendFact
<1> HIDE DEF ts, x
<1>5. /\ DOMAIN NewMem = Fields /\ NewMem.kind = "mem" /\ NewMem.refs = 1 /\ NewMem.live = TRUE
      /\ NewMem.obsolete = FALSE /\ NewMem.file = FALSE /\ NewMem.writers = 1
  BY DEF NewMem, Fields
<1>6. \A t \in DOMAIN ts : DOMAIN ts[t] = Fields
  BY <1>2, <1>3, <1>4, <1>5
<1>7. /\ tabs' \in Seq(Range(tabs')) /\ Len(tabs') = x /\ DOMAIN tabs' = DOMAIN ts
      /\ \A i \in DOMAIN ts :
           /\ DOMAIN tabs'[i] = Fields
           /\ tabs'[i].kind = ts[i].kind /\ tabs'[i].live = ts[i].live
           /\ tabs'[i].writers = ts[i].writers /\ tabs'[i].obsolete = ts[i].obsolete
           /\ tabs'[i].file = ts[i].file
           /\ tabs'[i].refs = IF i \in ids THEN ts[i].refs + 1 ELSE ts[i].refs
  <2>1. tabs' = Referenced(ts, ids)
    BY <1>1
  <2> HIDE DEF ids
  <2> QED BY <1>4, <1>6, <2>1, RefFact
<1>8. /\ q \in Seq(Nat) /\ Len(q) = Len(queue) + 1 /\ DOMAIN q = 1..(Len(queue) + 1)
      /\ q[Len(queue) + 1] = x /\ \A i \in 1..Len(queue) : q[i] = queue[i]
  BY <1>2, <1>3
<1>9. Range(q) = Range(queue) \cup {x} /\ Injective(q)
  <2>1. q = queue \o <<x>> /\ <<x>> \in Seq(Nat) /\ Range(<<x>>) = {x} /\ Injective(<<x>>)
    BY <1>2, <1>3 DEF Range, Injective
  <2>2. x \notin Range(queue) /\ Injective(queue)
    BY <1>3, QueueFact DEF PlaceInv
  <2> DEFINE one == <<x>>
  <2>3. one \in Seq(Nat) /\ Range(queue) \cap Range(one) = {} /\ Injective(one) /\ q = queue \o one
    BY <2>1, <2>2
  <2>4. Range(one) = {x}
    BY <2>1
  <2> HIDE DEF q, one
  <2> QED BY <1>2, <2>2, <2>3, <2>4, JoinFact
<1> HIDE DEF q
<1>10. ids = Range(queue) \cup {x} \cup ({arr} \ {0})
  BY <1>9 DEF RefsOf
<1> HIDE DEF ids
<1>11. arr # x
  BY <1>3 DEF PlaceInv, Of
<1>12. More(Range(queue) \cup ({arr} \ {0}))
  <2> SUFFICES ASSUME NEW t \in DOMAIN tabs
               PROVE  /\ DOMAIN tabs'[t] = Fields /\ tabs'[t].kind = tabs[t].kind
                      /\ tabs'[t].live = tabs[t].live /\ tabs'[t].writers = tabs[t].writers
                      /\ tabs'[t].obsolete = tabs[t].obsolete /\ tabs'[t].file = tabs[t].file
                      /\ tabs'[t].refs = IF t \in Range(queue) \cup ({arr} \ {0})
                                         THEN tabs[t].refs + 1 ELSE tabs[t].refs
    BY DEF More
  <2>1. t \in DOMAIN ts /\ ts[t] = tabs[t] /\ t # x
    BY <1>3, <1>4
  <2>2. t \in ids <=> t \in Range(queue) \cup ({arr} \ {0})
    BY <1>10, <2>1
  <2> QED BY <1>7, <2>1, <2>2
<1>13. /\ DOMAIN tabs'[x] = Fields /\ tabs'[x].kind = "mem" /\ tabs'[x].refs = 2
       /\ tabs'[x].live = TRUE /\ tabs'[x].obsolete = FALSE /\ tabs'[x].file = FALSE
       /\ tabs'[x].writers = 1
  BY <1>3, <1>4, <1>5, <1>7, <1>10
<1>14. LET s == Len(states) + 1 IN
       /\ states' \in Seq(State) /\ Len(states') = s /\ DOMAIN states' = 1..s
       /\ \A u \in DOMAIN states : states'[u] = states[u]
       /\ states'[s].refs = 1 /\ states'[s].mems = q /\ states'[s].arr = arr
  BY <1>1, <1>2, <1>8, NewState
<1> QED BY <1>1, <1>3, <1>4, <1>7, <1>8, <1>9, <1>12, <1>13, <1>14 DEF x

\* flush1: the flushed memtables and the old array table leave their places for the
\* flush's loop, the new array table gets the new state's reference.
LEMMA InstallFact ==
  ASSUME TypeInv, PlaceInv, PhaseInv, FlushInstall
  PROVE  LET p == SubSeq(queue, 1, fl.n)
             s == Len(states) + 1 IN
         /\ mu.pc = "free" /\ fl.pc = "install" /\ status = "open"
         /\ mu' = [pc |-> "swap", old |-> val, by |-> "flush"]
         /\ tabs' \in Seq(Range(tabs')) /\ DOMAIN tabs' = DOMAIN tabs
         /\ More(Range(queue') \cup {fl.new}) /\ fl.new # 0 /\ fl.new # arr
         /\ queue' \in Seq(Nat) /\ Injective(queue') /\ arr' = fl.new
         /\ Len(queue') = Len(queue) - fl.n /\ Len(queue') > 0
         /\ \A i \in 1..Len(queue') : queue'[i] = queue[i + fl.n]
         /\ Range(p) \cup Range(queue') = Range(queue) /\ Range(p) \cap Range(queue') = {}
         /\ \A i \in 1..fl.n : i \in 1..Len(queue)
         /\ Range(p) = {queue[i] : i \in 1..fl.n}
         /\ states' \in Seq(State) /\ Len(states') = s /\ DOMAIN states' = 1..s
         /\ \A u \in DOMAIN states : states'[u] = states[u]
         /\ states'[s].refs = 1 /\ states'[s].mems = queue' /\ states'[s].arr = fl.new
         /\ drops' \in [Actors -> Seq(Nat)] /\ Injective(drops'["flush"])
         /\ Range(drops'["flush"]) = Range(p) \cup ({arr} \ {0})
         /\ \A a \in Actors : a # "flush" => drops'[a] = drops[a]
         /\ fl' \in Fl /\ fl'.pc = "update" /\ fl'.n = fl.n /\ fl'.new = fl.new
<1> DEFINE p == SubSeq(queue, 1, fl.n)
           q == SubSeq(queue, fl.n + 1, Len(queue))
           d == IF arr = 0 THEN <<>> ELSE <<arr>>
<1>1. /\ mu.pc = "free" /\ fl.pc = "install" /\ queue' = q /\ arr' = fl.new
      /\ mu' = [pc |-> "swap", old |-> val, by |-> "flush"]
      /\ tabs' = Referenced(tabs, RefsOf(q, fl.new))
      /\ states' = Append(states, [refs |-> 1, mems |-> q, arr |-> fl.new])
      /\ drops' = [drops EXCEPT !["flush"] = p \o d] /\ fl' = [fl EXCEPT !.pc = "update"]
  BY DEF FlushInstall, Update, Flushing
<1>2. /\ queue \in Seq(Nat) /\ arr \in Nat /\ fl \in Fl /\ fl.n \in Nat /\ fl.new \in Nat
      /\ (\A t \in DOMAIN tabs : DOMAIN tabs[t] = Fields) /\ tabs \in Seq(Range(tabs))
      /\ drops \in [Actors -> Seq(Nat)]
  BY DEF TypeInv, Fl
<1>3. fl.n < Len(queue) /\ fl.n > 0 /\ Injective(queue) /\ fl.new # 0 /\ fl.new # arr /\ status = "open"
      /\ Len(queue) \in Nat
  BY <1>1, <1>2 DEF PhaseInv, PlaceInv, TypeInv
<1>4. /\ p \in Seq(Nat) /\ Injective(p) /\ Len(p) = fl.n
      /\ q \in Seq(Nat) /\ Injective(q) /\ Len(q) = Len(queue) - fl.n
      /\ \A i \in 1..fl.n : p[i] = queue[i]
      /\ \A i \in 1..(Len(queue) - fl.n) : q[i] = queue[i + fl.n]
      /\ Range(p) \cup Range(q) = Range(queue) /\ Range(p) \cap Range(q) = {}
  <2>1. fl.n <= Len(queue)
    BY <1>2, <1>3
  <2> QED BY <1>2, <1>3, <2>1, CutFact
<1>5. Range(p) = {queue[i] : i \in 1..fl.n} /\ \A i \in 1..fl.n : i \in 1..Len(queue)
  <2>1. DOMAIN p = 1..fl.n
    BY <1>4
  <2>2. \A i \in 1..fl.n : i \in 1..Len(queue)
    BY <1>2, <1>3
  <2> HIDE DEF p
  <2>3. Range(p) = {p[i] : i \in 1..fl.n}
    BY <2>1 DEF Range
  <2>4. {p[i] : i \in 1..fl.n} = {queue[i] : i \in 1..fl.n}
    BY <1>4
  <2> QED BY <2>2, <2>3, <2>4
<1> HIDE DEF p, q
<1>6. d \in Seq(Nat) /\ Injective(d) /\ Range(d) = {arr} \ {0}
  BY <1>2 DEF Injective, Range
<1>7. Range(p) \cap Range(d) = {}
  BY <1>4, <1>6 DEF PlaceInv, Of
<1> HIDE DEF d
<1>8. p \o d \in Seq(Nat) /\ Injective(p \o d) /\ Range(p \o d) = Range(p) \cup ({arr} \ {0})
  BY <1>4, <1>6, <1>7, JoinFact
<1>9. "flush" \in Actors
  BY DEF Actors
<1>10. /\ drops' \in [Actors -> Seq(Nat)] /\ drops'["flush"] = p \o d
       /\ \A a \in Actors : a # "flush" => drops'[a] = drops[a]
  BY <1>1, <1>2, <1>8, <1>9
<1>11. fl' \in Fl /\ fl'.pc = "update" /\ fl'.n = fl.n /\ fl'.new = fl.new
  BY <1>1, <1>2 DEF Fl
<1>12. RefsOf(q, fl.new) = Range(queue') \cup {fl.new}
  BY <1>1, <1>3 DEF RefsOf
<1>13. tabs' \in Seq(Range(tabs')) /\ DOMAIN tabs' = DOMAIN tabs /\ More(Range(queue') \cup {fl.new})
  <2> DEFINE ids == Range(queue') \cup {fl.new}
  <2>1. tabs' = Referenced(tabs, ids)
    BY <1>1, <1>12
  <2> HIDE DEF ids
  <2>2. tabs' \in Seq(Range(tabs')) /\ DOMAIN tabs' = DOMAIN tabs /\ More(ids)
    BY <1>2, <2>1, RefFact DEF More
  <2> QED BY <2>2 DEF ids
<1>14. LET s == Len(states) + 1 IN
       /\ states' \in Seq(State) /\ Len(states') = s /\ DOMAIN states' = 1..s
       /\ \A u \in DOMAIN states : states'[u] = states[u]
       /\ states'[s].refs = 1 /\ states'[s].mems = q /\ states'[s].arr = fl.new
  BY <1>1, <1>2, <1>4, NewState
<1>15. Len(q) > 0
  BY <1>2, <1>3, <1>4
<1> QED BY <1>1, <1>3, <1>4, <1>5, <1>8, <1>10, <1>11, <1>13, <1>14, <1>15 DEF p

\* runFlush: a new array table with one reference, the flush's or nobody's.
LEMMA BuildFact ==
  ASSUME TypeInv, FlushBuild
  PROVE  LET x == Len(tabs) + 1 IN
         /\ tabs' \in Seq(Range(tabs')) /\ DOMAIN tabs' = DOMAIN tabs \cup {x}
         /\ x \notin DOMAIN tabs /\ x \in Nat /\ x # 0 /\ DOMAIN tabs' = 1..x
         /\ \A t \in DOMAIN tabs : tabs'[t] = tabs[t]
         /\ DOMAIN tabs'[x] = Fields /\ tabs'[x].kind = "arr" /\ tabs'[x].refs = 1
         /\ tabs'[x].live = TRUE /\ tabs'[x].obsolete = FALSE /\ tabs'[x].file = TRUE
         /\ tabs'[x].writers = 0
         /\ fl.pc = "build"
         /\ \/ orphans' = orphans \cup {x} /\ fl' = IdleFlush
            \/ /\ UNCHANGED orphans /\ fl' \in Fl
               /\ fl'.pc = "install" /\ fl'.n = fl.n /\ fl'.new = x
<1> DEFINE x == Len(tabs) + 1
<1>1. fl.pc = "build"
  BY DEF FlushBuild
<1>2. \E bad, all, done :
        /\ tabs' = Append(tabs, NewArr(IF bad THEN all ELSE done))
        /\ orphans' = IF bad THEN orphans \cup {Len(tabs) + 1} ELSE orphans
        /\ fl' = IF bad THEN IdleFlush ELSE [fl EXCEPT !.pc = "install", !.new = Len(tabs) + 1]
  <2> DEFINE in == Input
  <2>1. PICK fault \in {<<0, "none">>} \cup ((1..(Len(in) + 1)) \X {"file", "map"}) :
          LET all == SetAll(in, [i \in DOMAIN in |-> IF i = fault[1] THEN fault[2] ELSE "none"])
              done == WriteFinish(all)
              bad == fault[1] = Len(in) + 1 \/ done.panic IN
          /\ tabs' = Append(tabs, NewArr(IF bad THEN all ELSE done))
          /\ orphans' = IF bad THEN orphans \cup {Len(tabs) + 1} ELSE orphans
          /\ fl' = IF bad THEN IdleFlush ELSE [fl EXCEPT !.pc = "install", !.new = Len(tabs) + 1]
    BY Zenon DEF FlushBuild
  <2> DEFINE all == SetAll(in, [i \in DOMAIN in |-> IF i = fault[1] THEN fault[2] ELSE "none"])
             done == WriteFinish(all)
             bad == fault[1] = Len(in) + 1 \/ done.panic
  <2>2. /\ tabs' = Append(tabs, NewArr(IF bad THEN all ELSE done))
        /\ orphans' = IF bad THEN orphans \cup {Len(tabs) + 1} ELSE orphans
        /\ fl' = IF bad THEN IdleFlush ELSE [fl EXCEPT !.pc = "install", !.new = Len(tabs) + 1]
    BY <2>1, Zenon
  <2> HIDE DEF all, done
  <2>3. CASE bad
    BY <2>2, <2>3, Zenon
  <2>4. CASE ~bad
    BY <2>2, <2>4, Zenon
  <2> QED BY <2>3, <2>4
<1>3. PICK body :
        /\ tabs' = Append(tabs, NewArr(body))
        /\ \/ orphans' = orphans \cup {x} /\ fl' = IdleFlush
           \/ orphans' = orphans /\ fl' = [fl EXCEPT !.pc = "install", !.new = x]
  <2>1. PICK bad, all, done :
        /\ tabs' = Append(tabs, NewArr(IF bad THEN all ELSE done))
        /\ orphans' = IF bad THEN orphans \cup {Len(tabs) + 1} ELSE orphans
        /\ fl' = IF bad THEN IdleFlush ELSE [fl EXCEPT !.pc = "install", !.new = Len(tabs) + 1]
    BY <1>2, Zenon
  <2> QED BY <2>1, Zenon
<1>4. Len(tabs) \in Nat /\ DOMAIN tabs = 1..Len(tabs) /\ tabs \in Seq(Range(tabs)) /\ fl \in Fl
  BY DEF TypeInv
<1>5. x \in Nat /\ x # 0 /\ x \notin DOMAIN tabs /\ DOMAIN tabs \cup {x} = 1..x
  BY <1>4
<1>6. /\ tabs' \in Seq(Range(tabs')) /\ DOMAIN tabs' = 1..x
      /\ (\A t \in DOMAIN tabs : tabs'[t] = tabs[t]) /\ tabs'[x] = NewArr(body)
  BY <1>3, <1>4, AppendFact
<1>7. /\ DOMAIN NewArr(body) = Fields /\ NewArr(body).kind = "arr" /\ NewArr(body).refs = 1
      /\ NewArr(body).live = TRUE /\ NewArr(body).obsolete = FALSE
      /\ NewArr(body).file = TRUE /\ NewArr(body).writers = 0
  BY DEF NewArr, Fields
<1> HIDE DEF x
<1>8. \/ orphans' = orphans \cup {x} /\ fl' = IdleFlush
      \/ /\ UNCHANGED orphans /\ fl' \in Fl
         /\ fl'.pc = "install" /\ fl'.n = fl.n /\ fl'.new = x
  BY <1>3, <1>4, <1>5 DEF Fl
<1> QED BY <1>1, <1>5, <1>6, <1>7, <1>8 DEF x
\* A goroutine with nothing else to unreference gives up a state it holds.
Gives(s, a) == /\ s \in DOMAIN states /\ a \in Actors /\ drops[a] = <<>>
               /\ states[s].refs > 0 /\ Unref(s, a)

\* On(s) is finite, and counted.
LEMMA OnFinite ==
  ASSUME StateInv, NEW s, s # 0
  PROVE  IsFiniteSet(On(s)) /\ Cardinality(On(s)) \in Nat
         /\ \A r \in On(s) : Cardinality(On(s)) > 0
<1>1. On(s) \subseteq {r \in Readers : rd[r].rs # 0}
  BY DEF On
<1>2. IsFiniteSet(On(s))
  BY <1>1, CardFact DEF StateInv
<1> QED BY <1>2, CardFact

\* That is what unref does in updateReadState, for a reader and in Close.
LEMMA GivesFact ==
  ASSUME TypeInv, PhaseInv, DropsInv, StateInv
  PROVE  /\ UpdateUnref => Gives(mu.old, "mu")
         /\ \A r \in Readers : CloseReader(r) => Gives(rd[r].rs, r)
         /\ Close => Gives(val, "close")
<1>1. Len(states) \in Nat /\ DOMAIN states = 1..Len(states)
  BY DEF TypeInv
<1>2. {"mu", "close"} \subseteq Actors /\ Readers \subseteq Actors
  BY DEF Actors
<1>3. ASSUME NEW s \in DOMAIN states, Held(s) \/ On(s) # {} PROVE states[s].refs > 0
  <2>1. s # 0
    BY <1>1
  <2>2. Cardinality(On(s)) \in Nat /\ (On(s) # {} => Cardinality(On(s)) > 0)
    BY <2>1, OnFinite
  <2>3. states[s].refs = Cardinality(On(s)) + (IF Held(s) THEN 1 ELSE 0)
    BY DEF StateInv
  <2> QED BY <1>3, <2>2, <2>3
<1>4. UpdateUnref => Gives(mu.old, "mu")
  <2> SUFFICES ASSUME UpdateUnref PROVE Gives(mu.old, "mu")
    OBVIOUS
  <2>1. mu.pc = "unref" /\ Unref(mu.old, "mu")
    BY DEF UpdateUnref
  <2>2. mu.old \in DOMAIN states /\ Held(mu.old) /\ drops["mu"] = <<>>
    BY <2>1 DEF PhaseInv, DropsInv, Held
  <2> QED BY <1>2, <1>3, <2>1, <2>2 DEF Gives
<1>5. ASSUME NEW r \in Readers, CloseReader(r) PROVE Gives(rd[r].rs, r)
  <2>1. rd[r].rs # 0 /\ Unref(rd[r].rs, r)
    BY <1>5 DEF CloseReader
  <2>2. rd[r].rs \in DOMAIN states /\ r \in On(rd[r].rs) /\ drops[r] = <<>>
    BY <2>1 DEF StateInv, On, DropsInv
  <2> QED BY <1>2, <1>3, <2>1, <2>2 DEF Gives
<1>6. Close => Gives(val, "close")
  <2> SUFFICES ASSUME Close PROVE Gives(val, "close")
    OBVIOUS
  <2>1. status = "open" /\ Unref(val, "close")
    BY DEF Close
  <2>2. val \in DOMAIN states /\ Held(val) /\ drops["close"] = <<>>
    BY <2>1 DEF PhaseInv, DropsInv, Held
  <2> QED BY <1>2, <1>3, <2>1, <2>2 DEF Gives
<1> QED BY <1>4, <1>5, <1>6

\* loadReadState: one reference more to the state that is there.
LEMMA LoadFact ==
  ASSUME TypeInv, PhaseInv, NEW r \in Readers, Load(r)
  PROVE  /\ states' \in Seq(State) /\ Len(states') = Len(states) /\ DOMAIN states' = DOMAIN states
         /\ \A s \in DOMAIN states : /\ s # val => states'[s] = states[s]
                                     /\ states'[s].mems = states[s].mems
                                     /\ states'[s].arr = states[s].arr
         /\ states'[val].refs = states[val].refs + 1
         /\ DOMAIN rd' = Readers /\ rd'[r].rs = val
         /\ \A q \in Readers : q # r => rd'[q] = rd[q]
         /\ rd[r].rs = 0 /\ drops[r] = <<>> /\ status = "open"
<1> DEFINE e == [states[val] EXCEPT !.refs = states[val].refs + 1]
<1>1. val \in DOMAIN states /\ states \in Seq(State) /\ states[val] \in State
  BY DEF PhaseInv, TypeInv
<1>2. states[val].refs + 1 \in Nat
  BY <1>1 DEF State
<1>3. e \in State /\ e.refs = states[val].refs + 1 /\ e.mems = states[val].mems
      /\ e.arr = states[val].arr
  BY <1>1, <1>2 DEF State
<1>4. states' = [states EXCEPT ![val] = e]
  BY DEF Load
<1>5. DOMAIN rd' = Readers /\ rd'[r].rs = val /\ (\A q \in Readers : q # r => rd'[q] = rd[q])
  BY DEF Load, TypeInv
<1>6. rd[r].rs = 0 /\ drops[r] = <<>> /\ status = "open"
  BY DEF Load
<1> HIDE DEF e
<1>7. /\ states' \in Seq(State) /\ Len(states') = Len(states) /\ DOMAIN states' = DOMAIN states
      /\ states'[val] = e /\ \A s \in DOMAIN states : s # val => states'[s] = states[s]
  BY <1>1, <1>3, <1>4
<1> QED BY <1>1, <1>3, <1>5, <1>6, <1>7

\* The steps that change no table at all.
Idle == \/ UNCHANGED vars
        \/ UpdateSwap \/ UpdateUnref \/ FlushStart \/ FlushRefused \/ FlushEnd \/ Close \/ CloseQueue
        \/ \E r \in Readers : Load(r) \/ CloseReader(r)

\* The kinds of steps, as the tables see them.
LEMMA StepKinds ==
  ASSUME [Next]_vars
  PROVE  \/ (Idle /\ UNCHANGED tabs) \/ (\E a \in Actors : Drop(a)) \/ UpdateEnd
         \/ (\E k \in Keys : Write(k)) \/ Apply \/ SwitchMem \/ FlushBuild \/ FlushInstall
<1>1. Idle => UNCHANGED tabs
  BY DEF Idle, vars, UpdateSwap, UpdateUnref, FlushStart, FlushRefused, FlushEnd, Close,
         CloseQueue, Load, CloseReader
<1>2. \/ Idle \/ (\E a \in Actors : Drop(a)) \/ UpdateEnd
      \/ (\E k \in Keys : Write(k)) \/ Apply \/ SwitchMem \/ FlushBuild \/ FlushInstall
  BY DEF Next, Idle
<1> QED BY <1>1, <1>2
-----------------------------------------------------------------------------
(***************************************************************************)
(* The inductive step, one lemma for each part of the invariant.           *)
(***************************************************************************)

TabType == /\ tabs \in Seq(Range(tabs))
           /\ \A t \in DOMAIN tabs :
                /\ DOMAIN tabs[t] = Fields /\ tabs[t].kind \in {"mem", "arr"}
                /\ tabs[t].refs \in Nat /\ tabs[t].writers \in Nat

\* Tables stay tables, and no count goes below zero (readerUnref and writerUnref
\* panic there).
LEMMA TabStep ==
  ASSUME IInv, [Next]_vars
  PROVE  TabType'
<1> USE DEF IInv
<1>0. TypeInv /\ PlaceInv /\ PhaseInv /\ DropsInv /\ CountInv /\ WriterInv
  OBVIOUS
<1>1. TabType
  BY DEF TypeInv, TabType
<1>2. ASSUME SameTabs, \A t \in DOMAIN tabs : tabs'[t].writers \in Nat PROVE TabType'
  BY <1>1, <1>2 DEF SameTabs, TabType
<1>3. \A t \in DOMAIN tabs : tabs[t].writers \in Nat /\ tabs[t].refs \in Nat
  BY DEF TypeInv
<1>4. CASE UNCHANGED tabs
  BY <1>1, <1>4 DEF TabType
<1>5. ASSUME NEW a \in Actors, Drop(a) PROVE TabType'
  <2> DEFINE x == Head(drops[a])
  <2>1. /\ x \in DOMAIN tabs /\ tabs[x].refs > 0
        /\ tabs' \in Seq(Range(tabs')) /\ Len(tabs') = Len(tabs) /\ DOMAIN tabs' = DOMAIN tabs
        /\ \A t \in DOMAIN tabs : t # x => tabs'[t] = tabs[t]
        /\ DOMAIN tabs'[x] = Fields /\ tabs'[x].kind = tabs[x].kind
        /\ tabs'[x].refs = tabs[x].refs - 1 /\ tabs'[x].writers = tabs[x].writers
    BY <1>0, <1>5, DropFact
  <2> HIDE DEF x
  <2>2. tabs'[x].refs \in Nat /\ tabs'[x].writers \in Nat
    BY <1>3, <2>1
  <2> QED BY <1>1, <2>1, <2>2 DEF TabType
<1>6. CASE UpdateEnd
  <2>1. SameTabs
    BY <1>0, <1>6, UpdateEndFact
  <2>2. CASE mu.by = "switch"
    <3> DEFINE x == queue[Len(queue) - 1]
    <3>1. /\ tabs[x].writers > 0 /\ tabs'[x].writers = tabs[x].writers - 1 /\ Len(queue) > 1
          /\ \A t \in DOMAIN tabs : t # x => tabs'[t].writers = tabs[t].writers
      BY <1>0, <1>6, <2>2, UpdateEndFact
    <3>2. Len(queue) - 1 \in 1..Len(queue)
      BY <1>0, <3>1, QueueFact
    <3>3. x \in DOMAIN tabs
      BY <1>0, <3>2, QueueFact
    <3> HIDE DEF x
    <3>4. tabs'[x].writers \in Nat
      BY <1>3, <3>1, <3>3
    <3> QED BY <1>2, <1>3, <2>1, <3>1, <3>4
  <2>3. CASE mu.by # "switch"
    <3>1. UNCHANGED tabs
      BY <1>0, <1>6, <2>3, UpdateEndFact
    <3> QED BY <1>4, <3>1
  <2> QED BY <2>2, <2>3
<1>7. ASSUME NEW k \in Keys, Write(k) PROVE TabType'
  <2> DEFINE x == queue[Len(queue)]
  <2>1. /\ SameTabs /\ Len(queue) > 0 /\ tabs'[x].writers = tabs[x].writers + 1
        /\ \A t \in DOMAIN tabs : t # x => tabs'[t].writers = tabs[t].writers
    BY <1>0, <1>7, WriteFact
  <2>2. x \in DOMAIN tabs
    BY <1>0, <2>1, QueueFact
  <2> HIDE DEF x
  <2>3. tabs'[x].writers \in Nat
    BY <1>3, <2>1, <2>2
  <2> QED BY <1>2, <1>3, <2>1, <2>3
<1>8. CASE Apply
  <2> DEFINE x == wr.mem
  <2>1. /\ SameTabs /\ x \in Range(queue) /\ tabs'[x].writers = tabs[x].writers - 1
        /\ tabs[x].writers > 0
        /\ \A t \in DOMAIN tabs : t # x => tabs'[t].writers = tabs[t].writers
    BY <1>0, <1>8, ApplyFact
  <2>2. x \in DOMAIN tabs
    BY <1>0, <2>1, QueueFact
  <2> HIDE DEF x
  <2>3. tabs'[x].writers \in Nat
    BY <1>3, <2>1, <2>2
  <2> QED BY <1>2, <1>3, <2>1, <2>3
<1>9. CASE SwitchMem
  <2> DEFINE x == Len(tabs) + 1
  <2>1. /\ tabs' \in Seq(Range(tabs')) /\ DOMAIN tabs' = DOMAIN tabs \cup {x}
        /\ More(Range(queue) \cup ({arr} \ {0}))
        /\ DOMAIN tabs'[x] = Fields /\ tabs'[x].kind = "mem" /\ tabs'[x].refs = 2
        /\ tabs'[x].writers = 1
    BY <1>0, <1>9, SwitchFact
  <2> HIDE DEF x
  <2>2. \A t \in DOMAIN tabs : /\ DOMAIN tabs'[t] = Fields /\ tabs'[t].kind \in {"mem", "arr"}
                               /\ tabs'[t].refs \in Nat /\ tabs'[t].writers \in Nat
    BY <1>1, <1>3, <2>1 DEF More, TabType
  <2> QED BY <2>1, <2>2 DEF TabType
<1>10. CASE FlushBuild
  <2> DEFINE x == Len(tabs) + 1
  <2>1. /\ tabs' \in Seq(Range(tabs')) /\ DOMAIN tabs' = DOMAIN tabs \cup {x}
        /\ \A t \in DOMAIN tabs : tabs'[t] = tabs[t]
        /\ DOMAIN tabs'[x] = Fields /\ tabs'[x].kind = "arr" /\ tabs'[x].refs = 1
        /\ tabs'[x].writers = 0
    BY <1>0, <1>10, BuildFact
  <2> HIDE DEF x
  <2> QED BY <1>1, <2>1 DEF TabType
<1>11. CASE FlushInstall
  <2>1. /\ tabs' \in Seq(Range(tabs')) /\ DOMAIN tabs' = DOMAIN tabs
        /\ More(Range(queue') \cup {fl.new})
    BY <1>0, <1>11, InstallFact
  <2>2. \A t \in DOMAIN tabs : /\ DOMAIN tabs'[t] = Fields /\ tabs'[t].kind \in {"mem", "arr"}
                               /\ tabs'[t].refs \in Nat /\ tabs'[t].writers \in Nat
    BY <1>1, <1>3, <2>1 DEF More, TabType
  <2> QED BY <2>1, <2>2 DEF TabType
<1> QED
  BY <1>4, <1>5, <1>6, <1>7, <1>8, <1>9, <1>10, <1>11, StepKinds
\* unref, as the two lemmas above leave it.
LEMMA GaveFact ==
  ASSUME TypeInv, PlaceInv, NEW s, NEW a, Gives(s, a)
  PROVE  /\ s \in DOMAIN states /\ a \in Actors /\ drops[a] = <<>> /\ states[s].refs > 0
         /\ states' \in Seq(State) /\ Len(states') = Len(states) /\ DOMAIN states' = DOMAIN states
         /\ \A u \in DOMAIN states : u # s => states'[u] = states[u]
         /\ states'[s].refs = states[s].refs - 1
         /\ states[s].refs # 1 => /\ states'[s].mems = states[s].mems
                                  /\ states'[s].arr = states[s].arr
                                  /\ drops' = drops
         /\ states[s].refs = 1 => /\ states'[s].mems = <<>> /\ states'[s].arr = 0
                                  /\ Range(drops'[a]) = Lists(s)
         /\ drops' \in [Actors -> Seq(Nat)] /\ Injective(drops'[a])
         /\ Range(drops'[a]) \subseteq DOMAIN tabs
         /\ \A b \in Actors : b # a => drops'[b] = drops[b]
<1>1. s \in DOMAIN states /\ a \in Actors /\ drops[a] = <<>> /\ states[s].refs > 0 /\ Unref(s, a)
  BY DEF Gives
<1>2. /\ states' \in Seq(State) /\ Len(states') = Len(states) /\ DOMAIN states' = DOMAIN states
      /\ \A u \in DOMAIN states : u # s => states'[u] = states[u]
      /\ states'[s].refs = states[s].refs - 1
      /\ states[s].refs # 1 => /\ states'[s].mems = states[s].mems
                               /\ states'[s].arr = states[s].arr
                               /\ drops' = drops
      /\ states[s].refs = 1 => /\ states'[s].mems = <<>> /\ states'[s].arr = 0
                               /\ drops'[a] = Tables(s)
      /\ DOMAIN drops' = Actors /\ drops'[a] \in Seq(Nat)
      /\ \A b \in Actors : b # a => drops'[b] = drops[b]
  BY <1>1, UnrefShape
<1>3. /\ Tables(s) \in Seq(Nat) /\ Injective(Tables(s))
      /\ Range(Tables(s)) = Lists(s) /\ Lists(s) \subseteq DOMAIN tabs
  BY <1>1, ListsFact
<1>4. drops \in [Actors -> Seq(Nat)]
  BY DEF TypeInv
<1>5. drops' \in [Actors -> Seq(Nat)]
  <2> DEFINE e == IF states[s].refs = 1 THEN drops[a] \o Tables(s) ELSE drops[a]
  <2>1. drops' = [drops EXCEPT ![a] = e]
    BY <1>1 DEF Unref
  <2>2. e \in Seq(Nat)
    BY <1>1, <1>3, <1>4
  <2> HIDE DEF e
  <2> QED BY <1>4, <2>1, <2>2
<1>6. Injective(drops'[a]) /\ Range(drops'[a]) \subseteq DOMAIN tabs
  <2>1. CASE states[s].refs = 1
    BY <1>2, <1>3, <2>1
  <2>2. CASE states[s].refs # 1
    <3>1. drops'[a] = <<>>
      BY <1>1, <1>2, <2>2
    <3> QED BY <3>1 DEF Injective, Range
  <2> QED BY <2>1, <2>2
<1> QED BY <1>1, <1>2, <1>3, <1>5, <1>6

\* What the other variables are.
RestType ==
  /\ status \in {"open", "closing", "closed"}
  /\ queue \in Seq(Nat) /\ arr \in Nat /\ states \in Seq(State) /\ val \in Nat
  /\ mu \in Mu /\ fl \in Fl /\ orphans \subseteq Nat
  /\ drops \in [Actors -> Seq(Nat)]
  /\ DOMAIN rd = Readers /\ \A r \in Readers : rd[r].rs \in Nat
  /\ DOMAIN wr = {"mem", "key", "seq"} /\ wr.mem \in Nat

\* The list of a queue and of arrtable.
LEMMA ListFact ==
  ASSUME NEW p \in Seq(Nat), NEW n \in Nat
  PROVE  LET q == p \o (IF n = 0 THEN <<>> ELSE <<n>>) IN
         /\ Range(q) = Range(p) \cup ({n} \ {0}) /\ q \in Seq(Nat)
         /\ Injective(p) /\ n \notin Range(p) => Injective(q)
<1> DEFINE d == IF n = 0 THEN <<>> ELSE <<n>>
<1>1. d \in Seq(Nat) /\ Injective(d) /\ Range(d) = {n} \ {0}
  BY DEF Injective, Range
<1> HIDE DEF d
<1>2. p \o d \in Seq(Nat) /\ Range(p \o d) = Range(p) \cup Range(d)
      /\ (Injective(p) /\ Injective(d) /\ Range(p) \cap Range(d) = {} => Injective(p \o d))
  BY <1>1, JoinFact
<1> QED BY <1>1, <1>2 DEF d

\* How many memtables a flush may take: all before the first with a writer.
LEMMA ReadyFact ==
  ASSUME TypeInv, PlaceInv, Len(queue) > 0
  PROVE  /\ Ready \in Nat /\ Ready < Len(queue)
         /\ \A i \in 1..Ready : i \in 1..Len(queue) /\ ~(tabs[queue[i]].writers > 0)
<1> DEFINE S == {i \in DOMAIN queue : i = Len(queue) \/ tabs[queue[i]].writers > 0}
<1>1. Len(queue) \in Nat /\ DOMAIN queue = 1..Len(queue)
  BY QueueFact
<1>2. S \subseteq Nat /\ Len(queue) \in S /\ S \subseteq 1..Len(queue)
  BY <1>1
<1>3. Min(S) \in S /\ \A i \in S : Min(S) <= i
  BY <1>2, MinFact
<1>4. Ready = Min(S) - 1
  BY DEF Ready
<1>5. \A i \in 1..Len(queue) : i \notin S => ~(tabs[queue[i]].writers > 0)
  BY <1>1
<1> HIDE DEF S
<1>6. Min(S) \in 1..Len(queue)
  BY <1>2, <1>3
<1>7. ASSUME NEW i \in 1..Ready PROVE i \in 1..Len(queue) /\ i \notin S
  BY <1>1, <1>2, <1>3, <1>4, <1>6
<1> QED BY <1>1, <1>4, <1>5, <1>6, <1>7
\* The other variables keep their types.
LEMMA RestStep ==
  ASSUME IInv, [Next]_vars
  PROVE  RestType'
<1> USE DEF IInv
<1>0. TypeInv /\ PlaceInv /\ PhaseInv /\ DropsInv /\ StateInv /\ CountInv /\ WriterInv
  OBVIOUS
<1>1. RestType
  BY DEF TypeInv, RestType
<1>2. Free \in Mu /\ IdleFlush \in Fl
  BY DEF Free, Mu, IdleFlush, Fl
<1>3. CASE UNCHANGED vars
  BY <1>1, <1>3 DEF RestType, vars
<1>4. ASSUME NEW a \in Actors, Drop(a) PROVE RestType'
  <2>1. drops' \in [Actors -> Seq(Nat)]
    BY <1>0, <1>4, DropFact
  <2> QED BY <1>1, <1>4, <2>1 DEF RestType, Drop
<1>5. CASE UpdateSwap
  <2>1. val' \in Nat /\ mu' \in Mu
    BY <1>1, <1>5 DEF UpdateSwap, RestType, Mu
  <2> QED BY <1>1, <1>5, <2>1 DEF RestType, UpdateSwap
<1>6. CASE UpdateUnref
  <2>1. Gives(mu.old, "mu")
    BY <1>0, <1>6, GivesFact
  <2>2. states' \in Seq(State) /\ drops' \in [Actors -> Seq(Nat)]
    BY <1>0, <2>1, GaveFact
  <2>3. mu' \in Mu
    BY <1>1, <1>6 DEF UpdateUnref, RestType, Mu
  <2> QED BY <1>1, <1>6, <2>2, <2>3 DEF RestType, UpdateUnref
<1>7. CASE UpdateEnd
  <2>1. mu' \in Mu /\ fl' \in Fl
    <3>1. mu' = Free /\ (mu.by # "switch" => fl' \in Fl) /\ (mu.by = "switch" => fl' = fl)
      BY <1>0, <1>7, UpdateEndFact
    <3> QED BY <1>1, <1>2, <3>1 DEF RestType
  <2> QED BY <1>1, <1>7, <2>1 DEF RestType, UpdateEnd
<1>8. ASSUME NEW r \in Readers, Load(r) PROVE RestType'
  <2>1. /\ states' \in Seq(State) /\ DOMAIN rd' = Readers /\ rd'[r].rs = val
        /\ \A q \in Readers : q # r => rd'[q] = rd[q]
    BY <1>0, <1>8, LoadFact
  <2>2. \A q \in Readers : rd'[q].rs \in Nat
    BY <1>1, <2>1 DEF RestType
  <2> QED BY <1>1, <1>8, <2>1, <2>2 DEF RestType, Load
<1>9. ASSUME NEW r \in Readers, CloseReader(r) PROVE RestType'
  <2>1. Gives(rd[r].rs, r)
    BY <1>0, <1>9, GivesFact
  <2>2. states' \in Seq(State) /\ drops' \in [Actors -> Seq(Nat)]
    BY <1>0, <2>1, GaveFact
  <2>3. DOMAIN rd' = Readers /\ \A q \in Readers : rd'[q].rs \in Nat
    BY <1>1, <1>9 DEF CloseReader, RestType, IdleReader
  <2> QED BY <1>1, <1>9, <2>2, <2>3 DEF RestType, CloseReader
<1>10. ASSUME NEW k \in Keys, Write(k) PROVE RestType'
  <2> DEFINE x == queue[Len(queue)]
  <2>1. wr'.mem = x /\ DOMAIN wr' = {"mem", "key", "seq"} /\ Len(queue) > 0
    BY <1>0, <1>10, WriteFact
  <2>2. x \in Nat
    BY <1>1, <2>1 DEF RestType
  <2> QED BY <1>1, <1>10, <2>1, <2>2 DEF RestType, Write
<1>11. CASE SwitchMem
  <2>1. /\ queue' \in Seq(Nat) /\ states' \in Seq(State) /\ arr' = arr
        /\ mu' = [pc |-> "swap", old |-> val, by |-> "switch"]
    BY <1>0, <1>11, SwitchFact
  <2>2. mu' \in Mu
    BY <1>1, <2>1 DEF RestType, Mu
  <2> QED BY <1>1, <1>11, <2>1, <2>2 DEF RestType, SwitchMem
<1>12. CASE Apply
  <2>1. wr'.mem = 0 /\ DOMAIN wr' = {"mem", "key", "seq"}
    BY <1>0, <1>12, ApplyFact
  <2> QED BY <1>1, <1>12, <2>1 DEF RestType, Apply
<1>13. CASE FlushStart
  <2>1. status = "open" /\ Len(queue) > 0 /\ fl' = [pc |-> "build", n |-> Ready, new |-> 0]
    BY <1>0, <1>13 DEF FlushStart, PhaseInv
  <2>2. Ready \in Nat
    BY <1>0, <2>1, ReadyFact
  <2>3. fl' \in Fl
    BY <2>1, <2>2 DEF Fl
  <2> QED BY <1>1, <1>13, <2>3 DEF RestType, FlushStart
<1>14. CASE FlushBuild
  <2> DEFINE x == Len(tabs) + 1
  <2>1. /\ x \in Nat
        /\ \/ orphans' = orphans \cup {x} /\ fl' = IdleFlush
           \/ UNCHANGED orphans /\ fl' \in Fl
    BY <1>0, <1>14, BuildFact
  <2> HIDE DEF x
  <2>2. orphans' \subseteq Nat /\ fl' \in Fl
    BY <1>1, <1>2, <2>1 DEF RestType
  <2>3. UNCHANGED <<status, queue, arr, states, val, mu, drops, rd, wr>>
    BY <1>14 DEF FlushBuild
  <2> QED BY <1>1, <2>2, <2>3 DEF RestType
<1>15. CASE FlushInstall
  <2>1. /\ queue' \in Seq(Nat) /\ states' \in Seq(State) /\ arr' = fl.new
        /\ mu' = [pc |-> "swap", old |-> val, by |-> "flush"]
        /\ drops' \in [Actors -> Seq(Nat)] /\ fl' \in Fl
    BY <1>0, <1>15, InstallFact
  <2>2. mu' \in Mu /\ arr' \in Nat
    BY <1>1, <2>1 DEF RestType, Mu, Fl
  <2> QED BY <1>1, <1>15, <2>1, <2>2 DEF RestType, FlushInstall
<1>16. CASE FlushRefused
  <2>1. orphans' \subseteq Nat /\ fl' \in Fl
    BY <1>1, <1>2, <1>16 DEF RestType, FlushRefused, Fl
  <2> QED BY <1>1, <1>16, <2>1 DEF RestType, FlushRefused
<1>17. CASE FlushEnd
  BY <1>1, <1>2, <1>17 DEF RestType, FlushEnd
<1>18. CASE Close
  <2>1. Gives(val, "close")
    BY <1>0, <1>18, GivesFact
  <2>2. states' \in Seq(State) /\ drops' \in [Actors -> Seq(Nat)]
    BY <1>0, <2>1, GaveFact
  <2> QED BY <1>1, <1>18, <2>2 DEF RestType, Close
<1>19. CASE CloseQueue
  <2> DEFINE d == queue \o (IF arr = 0 THEN <<>> ELSE <<arr>>)
  <2>1. drops' = [drops EXCEPT !["close"] = d]
    BY <1>19 DEF CloseQueue
  <2>2. d \in Seq(Nat)
    BY <1>1, ListFact DEF RestType
  <2> HIDE DEF d
  <2>3. drops' \in [Actors -> Seq(Nat)]
    BY <1>1, <2>1, <2>2 DEF RestType
  <2> QED BY <1>1, <1>19, <2>3 DEF RestType, CloseQueue
<1> QED
  BY <1>3, <1>4, <1>5, <1>6, <1>7, <1>8, <1>9, <1>10, <1>11, <1>12, <1>13, <1>14, <1>15,
     <1>16, <1>17, <1>18, <1>19 DEF Next

\* The type invariant is kept.
LEMMA TypeStep ==
  ASSUME IInv, [Next]_vars
  PROVE  TypeInv'
<1>1. TabType' /\ RestType'
  BY TabStep, RestStep
<1> QED BY <1>1 DEF TabType, RestType, TypeInv
\* A table stays a memtable or an array table.
LEMMA KindStep ==
  ASSUME IInv, [Next]_vars
  PROVE  /\ DOMAIN tabs \subseteq DOMAIN tabs'
         /\ \A t \in DOMAIN tabs : tabs'[t].kind = tabs[t].kind
         /\ \A k : Of(k) \subseteq Of(k)'
<1> USE DEF IInv
<1>0. TypeInv /\ PlaceInv /\ PhaseInv /\ DropsInv /\ CountInv /\ WriterInv
  OBVIOUS
<1> SUFFICES /\ DOMAIN tabs \subseteq DOMAIN tabs'
             /\ \A t \in DOMAIN tabs : tabs'[t].kind = tabs[t].kind
  BY DEF Of
<1>1. CASE SameTabs
  BY <1>1 DEF SameTabs
<1>2. CASE UNCHANGED tabs
  BY <1>2
<1>3. ASSUME NEW a \in Actors, Drop(a)
      PROVE  DOMAIN tabs \subseteq DOMAIN tabs' /\ \A t \in DOMAIN tabs : tabs'[t].kind = tabs[t].kind
  <2> DEFINE x == Head(drops[a])
  <2>1. /\ DOMAIN tabs' = DOMAIN tabs /\ tabs'[x].kind = tabs[x].kind
        /\ \A t \in DOMAIN tabs : t # x => tabs'[t] = tabs[t]
    BY <1>0, <1>3, DropFact
  <2> HIDE DEF x
  <2> QED BY <2>1
<1>4. UpdateEnd => SameTabs
  BY <1>0, UpdateEndFact
<1>5. \A k \in Keys : Write(k) => SameTabs
  BY <1>0, WriteFact
<1>6. Apply => SameTabs
  BY <1>0, ApplyFact
<1>7. CASE SwitchMem
  <2>1. /\ More(Range(queue) \cup ({arr} \ {0})) /\ DOMAIN tabs' = DOMAIN tabs \cup {Len(tabs) + 1}
    BY <1>0, <1>7, SwitchFact
  <2> QED BY <2>1 DEF More
<1>8. CASE FlushBuild
  <2>1. /\ \A t \in DOMAIN tabs : tabs'[t] = tabs[t]
        /\ DOMAIN tabs' = DOMAIN tabs \cup {Len(tabs) + 1}
    BY <1>0, <1>8, BuildFact
  <2> QED BY <2>1
<1>9. CASE FlushInstall
  <2>1. More(Range(queue') \cup {fl.new}) /\ DOMAIN tabs' = DOMAIN tabs
    BY <1>0, <1>9, InstallFact
  <2> QED BY <2>1 DEF More
<1> QED BY <1>1, <1>2, <1>3, <1>4, <1>5, <1>6, <1>7, <1>8, <1>9, StepKinds

\* The kinds of steps, as the read states see them.
LEMMA StateKinds ==
  ASSUME IInv, [Next]_vars
  PROVE  \/ UNCHANGED states \/ (\E s, a : Gives(s, a)) \/ (\E r \in Readers : Load(r))
         \/ SwitchMem \/ FlushInstall
<1> USE DEF IInv
<1>0. TypeInv /\ PhaseInv /\ DropsInv /\ StateInv
  OBVIOUS
<1>1. UpdateUnref => Gives(mu.old, "mu")
  BY <1>0, GivesFact
<1>2. \A r \in Readers : CloseReader(r) => Gives(rd[r].rs, r)
  BY <1>0, GivesFact
<1>3. Close => Gives(val, "close")
  BY <1>0, GivesFact
<1>4. \/ UNCHANGED vars \/ UpdateUnref \/ Close \/ (\E r \in Readers : CloseReader(r) \/ Load(r))
      \/ SwitchMem \/ FlushInstall \/ (\E a \in Actors : Drop(a)) \/ UpdateSwap \/ UpdateEnd
      \/ (\E k \in Keys : Write(k)) \/ Apply \/ FlushStart \/ FlushBuild \/ FlushRefused
      \/ FlushEnd \/ CloseQueue
  BY DEF Next
<1>5. (UNCHANGED vars \/ (\E a \in Actors : Drop(a)) \/ UpdateSwap \/ UpdateEnd
       \/ (\E k \in Keys : Write(k)) \/ Apply \/ FlushStart \/ FlushRefused
       \/ FlushEnd \/ CloseQueue) => UNCHANGED states
  BY DEF vars, Drop, UpdateSwap, UpdateEnd, Write, Apply, FlushStart, FlushRefused, FlushEnd,
         CloseQueue
<1>6. FlushBuild => UNCHANGED states
  BY DEF FlushBuild
<1>7. UpdateUnref \/ Close \/ (\E r \in Readers : CloseReader(r)) => \E s, a : Gives(s, a)
  BY <1>1, <1>2, <1>3, Zenon
<1> QED BY <1>4, <1>5, <1>6, <1>7

\* A read state lists memtables and an array table, none twice.
LEMMA StatesPlaceStep ==
  ASSUME IInv, [Next]_vars, NEW s \in DOMAIN states'
  PROVE  /\ Injective(states'[s].mems) /\ Range(states'[s].mems) \subseteq Of("mem")'
         /\ {states'[s].arr} \ {0} \subseteq Of("arr")'
<1> USE DEF IInv
<1>0. TypeInv /\ PlaceInv /\ PhaseInv /\ DropsInv /\ StateInv /\ CountInv /\ WriterInv
  OBVIOUS
<1>1. Of("mem") \subseteq Of("mem")' /\ Of("arr") \subseteq Of("arr")'
  BY KindStep
<1>2. Len(states) \in Nat /\ DOMAIN states = 1..Len(states)
  BY DEF TypeInv
<1>3. ASSUME s \in DOMAIN states, states'[s].mems = states[s].mems, states'[s].arr = states[s].arr
      PROVE  /\ Injective(states'[s].mems) /\ Range(states'[s].mems) \subseteq Of("mem")'
             /\ {states'[s].arr} \ {0} \subseteq Of("arr")'
  <2>1. /\ Injective(states[s].mems) /\ Range(states[s].mems) \subseteq Of("mem")
        /\ {states[s].arr} \ {0} \subseteq Of("arr")
    BY <1>3 DEF PlaceInv
  <2> QED BY <1>1, <1>3, <2>1
<1>4. CASE UNCHANGED states
  BY <1>3, <1>4
<1>5. ASSUME NEW u, NEW a, Gives(u, a)
      PROVE  /\ Injective(states'[s].mems) /\ Range(states'[s].mems) \subseteq Of("mem")'
             /\ {states'[s].arr} \ {0} \subseteq Of("arr")'
  <2>1. /\ u \in DOMAIN states /\ DOMAIN states' = DOMAIN states
        /\ \A v \in DOMAIN states : v # u => states'[v] = states[v]
        /\ states[u].refs # 1 => states'[u].mems = states[u].mems /\ states'[u].arr = states[u].arr
        /\ states[u].refs = 1 => states'[u].mems = <<>> /\ states'[u].arr = 0
    BY <1>0, <1>5, GaveFact
  <2>2. CASE s # u \/ states[u].refs # 1
    BY <1>3, <2>1, <2>2
  <2>3. CASE s = u /\ states[u].refs = 1
    <3>1. Injective(<<>>) /\ Range(<<>>) = {}
      BY DEF Injective, Range
    <3> QED BY <2>1, <2>3, <3>1
  <2> QED BY <2>2, <2>3
<1>6. ASSUME NEW r \in Readers, Load(r)
      PROVE  /\ Injective(states'[s].mems) /\ Range(states'[s].mems) \subseteq Of("mem")'
             /\ {states'[s].arr} \ {0} \subseteq Of("arr")'
  <2>1. /\ DOMAIN states' = DOMAIN states
        /\ \A v \in DOMAIN states : states'[v].mems = states[v].mems /\ states'[v].arr = states[v].arr
    BY <1>0, <1>6, LoadFact
  <2> QED BY <1>3, <2>1
<1>7. CASE SwitchMem
  <2> DEFINE n == Len(states) + 1
             x == Len(tabs) + 1
  <2>1. /\ DOMAIN states' = 1..n /\ states'[n].mems = queue' /\ states'[n].arr = arr
        /\ \A v \in DOMAIN states : states'[v] = states[v]
        /\ Injective(queue') /\ Range(queue') = Range(queue) \cup {x}
        /\ DOMAIN tabs' = DOMAIN tabs \cup {x} /\ tabs'[x].kind = "mem"
    BY <1>0, <1>7, SwitchFact
  <2>2. s \in DOMAIN states \/ s = n
    BY <1>2, <2>1
  <2> HIDE DEF n, x
  <2>3. x \in Of("mem")'
    BY <2>1 DEF Of
  <2>4. CASE s = n
    BY <1>1, <2>1, <2>3, <2>4 DEF PlaceInv
  <2> QED BY <1>3, <2>1, <2>2, <2>4
<1>8. CASE FlushInstall
  <2> DEFINE n == Len(states) + 1
  <2>1. /\ DOMAIN states' = 1..n /\ states'[n].mems = queue' /\ states'[n].arr = fl.new
        /\ \A v \in DOMAIN states : states'[v] = states[v]
        /\ Injective(queue')
    BY <1>0, <1>8, InstallFact
  <2>0. Range(queue') \subseteq Range(queue)
    BY <1>0, <1>8, InstallFact
  <2>2. s \in DOMAIN states \/ s = n
    BY <1>2, <2>1
  <2> HIDE DEF n
  <2>4. CASE s = n
    BY <1>1, <2>0, <2>1, <2>4 DEF PlaceInv
  <2> QED BY <1>3, <2>1, <2>2, <2>4
<1> QED BY <1>4, <1>5, <1>6, <1>7, <1>8, StateKinds
\* The steps that move no table.
Still == UNCHANGED <<queue, arr, fl, orphans>>

\* The kinds of steps, as the places of the tables see them.
LEMMA PlaceKinds ==
  ASSUME [Next]_vars
  PROVE  \/ Still \/ UpdateEnd \/ SwitchMem \/ FlushStart \/ FlushBuild \/ FlushInstall
         \/ FlushRefused \/ FlushEnd \/ CloseQueue
<1>1. \/ UNCHANGED vars \/ UpdateUnref \/ Close \/ (\E r \in Readers : CloseReader(r) \/ Load(r))
      \/ SwitchMem \/ FlushInstall \/ (\E a \in Actors : Drop(a)) \/ UpdateSwap \/ UpdateEnd
      \/ (\E k \in Keys : Write(k)) \/ Apply \/ FlushStart \/ FlushBuild \/ FlushRefused
      \/ FlushEnd \/ CloseQueue
  BY DEF Next
<1>2. (UNCHANGED vars \/ UpdateUnref \/ Close \/ (\E r \in Readers : CloseReader(r) \/ Load(r))
       \/ (\E a \in Actors : Drop(a)) \/ UpdateSwap \/ (\E k \in Keys : Write(k)) \/ Apply) => Still
  BY DEF Still, vars, UpdateUnref, Close, CloseReader, Load, Drop, UpdateSwap, Write, Apply
<1> QED BY <1>1, <1>2

\* Every table keeps one place, and what updateReadState lists is in order.
LEMMA PlaceStep ==
  ASSUME IInv, [Next]_vars
  PROVE  PlaceInv'
<1> USE DEF IInv
<1>0. TypeInv /\ PlaceInv /\ PhaseInv /\ DropsInv /\ StateInv /\ CountInv /\ WriterInv
  OBVIOUS
<1>1. Of("mem") \subseteq Of("mem")' /\ Of("arr") \subseteq Of("arr")'
  BY KindStep
<1>2. \A s \in DOMAIN states' :
        /\ Injective(states'[s].mems) /\ Range(states'[s].mems) \subseteq Of("mem")'
        /\ {states'[s].arr} \ {0} \subseteq Of("arr")'
  BY StatesPlaceStep
<1> DEFINE Q == Injective(queue') /\ Range(queue') \subseteq Of("mem")'
           A == {arr', fl'.new} \ {0} \subseteq Of("arr")' /\ orphans' \subseteq Of("arr")'
           D == orphans' \cap {arr', fl'.new} = {}
<1> SUFFICES Q /\ A /\ D
  BY <1>2 DEF PlaceInv
<1>3. /\ Injective(queue) /\ Range(queue) \subseteq Of("mem")
      /\ {arr, fl.new} \ {0} \subseteq Of("arr") /\ orphans \subseteq Of("arr")
      /\ orphans \cap {arr, fl.new} = {}
  BY DEF PlaceInv
<1>4. 0 \notin orphans
  BY <1>0, <1>3, QueueFact DEF Of
<1>5. CASE UNCHANGED <<queue, arr, orphans>> /\ fl'.new = fl.new
  BY <1>1, <1>3, <1>5
<1>6. CASE UpdateEnd
  <2>1. fl'.new = fl.new
    BY <1>0, <1>6, UpdateEndFact
  <2> QED BY <1>5, <1>6, <2>1 DEF UpdateEnd
<1>7. CASE SwitchMem
  <2> DEFINE x == Len(tabs) + 1
  <2>1. /\ Injective(queue') /\ Range(queue') = Range(queue) \cup {x} /\ arr' = arr
        /\ DOMAIN tabs' = DOMAIN tabs \cup {x} /\ tabs'[x].kind = "mem"
    BY <1>0, <1>7, SwitchFact
  <2> HIDE DEF x
  <2>2. x \in Of("mem")'
    BY <2>1 DEF Of
  <2>3. UNCHANGED <<fl, orphans>>
    BY <1>7 DEF SwitchMem
  <2> QED BY <1>1, <1>3, <2>1, <2>2, <2>3
<1>8. CASE FlushStart
  <2>1. fl.new = 0 /\ fl'.new = 0
    BY <1>8 DEF FlushStart, PhaseInv
  <2> QED BY <1>5, <1>8, <2>1 DEF FlushStart
<1>9. CASE FlushBuild
  <2> DEFINE x == Len(tabs) + 1
  <2>1. /\ DOMAIN tabs' = DOMAIN tabs \cup {x} /\ x \notin DOMAIN tabs
        /\ tabs'[x].kind = "arr" /\ fl.pc = "build" /\ x # 0
        /\ \/ orphans' = orphans \cup {x} /\ fl' = IdleFlush
           \/ UNCHANGED orphans /\ fl'.new = x
    BY <1>0, <1>9, BuildFact
  <2> HIDE DEF x
  <2>2. x \in Of("arr")' /\ x \notin orphans /\ x # arr
    BY <1>3, <2>1 DEF Of
  <2>3. UNCHANGED <<queue, arr>>
    BY <1>9 DEF FlushBuild
  <2>4. IdleFlush.new = 0
    BY DEF IdleFlush
  <2> QED BY <1>1, <1>3, <1>4, <2>1, <2>2, <2>3, <2>4
<1>10. CASE FlushInstall
  <2>1. Injective(queue') /\ arr' = fl.new /\ fl'.new = fl.new
    BY <1>0, <1>10, InstallFact
  <2>2. Range(queue') \subseteq Range(queue)
    BY <1>0, <1>10, InstallFact
  <2>3. UNCHANGED orphans
    BY <1>10 DEF FlushInstall
  <2> QED BY <1>1, <1>3, <2>1, <2>2, <2>3
<1>11. CASE FlushRefused
  <2>1. fl.new # 0 /\ fl.new # arr /\ orphans' = orphans \cup {fl.new} /\ fl'.new = 0
        /\ UNCHANGED <<queue, arr>>
    BY <1>11 DEF FlushRefused, PhaseInv, IdleFlush
  <2> QED BY <1>1, <1>3, <1>4, <2>1
<1>12. CASE FlushEnd
  <2>1. fl'.new = 0 /\ UNCHANGED <<queue, arr, orphans>>
    BY <1>12 DEF FlushEnd, IdleFlush
  <2> QED BY <1>1, <1>3, <1>4, <2>1
<1>13. CASE CloseQueue
  <2>1. queue' = <<>> /\ arr' = 0 /\ UNCHANGED <<fl, orphans>>
    BY <1>13 DEF CloseQueue
  <2>2. Injective(<<>>) /\ Range(<<>>) = {}
    BY DEF Injective, Range
  <2> QED BY <1>1, <1>3, <1>4, <2>1, <2>2
<1> QED BY <1>5, <1>6, <1>7, <1>8, <1>9, <1>10, <1>11, <1>12, <1>13, PlaceKinds DEF Still
\* mu's holder, the flush and Close take turns as the code says.
LEMMA PhaseStep ==
  ASSUME IInv, [Next]_vars
  PROVE  PhaseInv'
<1> USE DEF IInv
<1>0. TypeInv /\ PlaceInv /\ PhaseInv /\ DropsInv /\ StateInv /\ CountInv /\ WriterInv
  OBVIOUS
<1>1. /\ Len(states) \in Nat /\ DOMAIN states = 1..Len(states) /\ Len(queue) \in Nat
      /\ mu \in Mu /\ fl \in Fl /\ fl.n \in Nat /\ fl.new \in Nat /\ val \in Nat
  BY DEF TypeInv, Fl
<1>2. /\ Free.pc = "free" /\ IdleFlush.pc = "none" /\ IdleFlush.n = 0 /\ IdleFlush.new = 0
  BY DEF Free, IdleFlush
<1>3. CASE UNCHANGED vars
  BY <1>3 DEF PhaseInv, vars
<1>4. ASSUME NEW a \in Actors, Drop(a) PROVE PhaseInv'
  BY <1>4 DEF PhaseInv, Drop
<1>5. CASE UpdateSwap
  <2>1. /\ mu.pc = "swap" /\ val' = Len(states) /\ mu'.pc = "unref" /\ mu'.old = mu.old
        /\ mu'.by = mu.by /\ UNCHANGED <<status, queue, arr, states, fl, wr>>
    BY <1>1, <1>5 DEF UpdateSwap, Mu
  <2> QED BY <1>1, <2>1 DEF PhaseInv
<1>6. CASE UpdateUnref
  <2>1. /\ mu.pc = "unref" /\ mu'.pc = "end" /\ mu'.old = mu.old
        /\ mu'.by = mu.by /\ UNCHANGED <<status, queue, arr, val, fl, wr>>
    BY <1>1, <1>6 DEF UpdateUnref, Mu
  <2>2. Gives(mu.old, "mu")
    BY <1>0, <1>6, GivesFact
  <2>3. Len(states') = Len(states) /\ DOMAIN states' = DOMAIN states
    BY <1>0, <2>2, GaveFact
  <2> QED BY <1>1, <2>1, <2>3 DEF PhaseInv
<1>7. CASE UpdateEnd
  <2>1. /\ mu' = Free /\ mu.pc = "end" /\ (mu.by = "switch" => UNCHANGED fl)
        /\ mu.by # "switch" => /\ fl.pc = "update" /\ fl'.pc = "release" /\ fl'.n = fl.n
                               /\ fl'.new = fl.new
    BY <1>0, <1>7, UpdateEndFact
  <2>2. UNCHANGED <<status, queue, arr, states, val, wr>>
    BY <1>7 DEF UpdateEnd
  <2>3. status = "open" /\ (mu.by = "switch" => fl.pc # "update")
    BY <2>1 DEF PhaseInv
  <2>4. val' \in DOMAIN states' /\ mu'.pc = "free" /\ (mu'.pc # "swap" => val' = Len(states'))
    BY <1>2, <2>1, <2>2 DEF PhaseInv
  <2>5. CASE mu.by = "switch"
    BY <2>1, <2>2, <2>3, <2>4, <2>5 DEF PhaseInv
  <2>6. CASE mu.by # "switch"
    BY <2>1, <2>2, <2>3, <2>4, <2>6 DEF PhaseInv
  <2> QED BY <2>5, <2>6
<1>8. ASSUME NEW r \in Readers, Load(r) PROVE PhaseInv'
  <2>1. Len(states') = Len(states) /\ DOMAIN states' = DOMAIN states
    BY <1>0, <1>8, LoadFact
  <2>2. UNCHANGED <<status, queue, arr, val, mu, fl, wr>>
    BY <1>8 DEF Load
  <2> QED BY <2>1, <2>2 DEF PhaseInv
<1>9. ASSUME NEW r \in Readers, CloseReader(r) PROVE PhaseInv'
  <2>1. Gives(rd[r].rs, r)
    BY <1>0, <1>9, GivesFact
  <2>2. Len(states') = Len(states) /\ DOMAIN states' = DOMAIN states
    BY <1>0, <2>1, GaveFact
  <2>3. UNCHANGED <<status, queue, arr, val, mu, fl, wr>>
    BY <1>9 DEF CloseReader
  <2> QED BY <2>2, <2>3 DEF PhaseInv
<1>10. ASSUME NEW k \in Keys, Write(k) PROVE PhaseInv'
  <2>1. status = "open" /\ UNCHANGED <<status, queue, arr, states, val, mu, fl>>
    BY <1>10 DEF Write
  <2> QED BY <2>1 DEF PhaseInv
<1>11. CASE SwitchMem
  <2>1. /\ status = "open" /\ mu.pc = "free" /\ arr' = arr
        /\ mu' = [pc |-> "swap", old |-> val, by |-> "switch"]
        /\ Len(queue') = Len(queue) + 1
        /\ Len(states') = Len(states) + 1 /\ DOMAIN states' = 1..(Len(states) + 1)
    BY <1>0, <1>11, SwitchFact
  <2>2. UNCHANGED <<status, val, fl, wr>>
    BY <1>11 DEF SwitchMem
  <2>3. mu'.pc = "swap" /\ mu'.old = val /\ mu'.by = "switch"
    BY <2>1
  <2>4. val = Len(states) /\ val \in DOMAIN states /\ fl.pc # "update" /\ Len(queue) > 0
    BY <2>1 DEF PhaseInv
  <2>5. val' \in DOMAIN states' /\ Len(states') = val' + 1 /\ Len(queue') > 1
    BY <1>1, <2>1, <2>2, <2>4
  <2>6. fl.pc \in {"build", "install"} => fl'.n > 0 /\ fl'.n < Len(queue')
    BY <1>1, <2>1, <2>2 DEF PhaseInv
  <2>7. status' # "closed" /\ Len(queue') > 0
    BY <2>1, <2>2, <2>5, <1>1
  <2> HIDE DEF IInv
  <2> QED BY <1>0, <2>1, <2>2, <2>3, <2>4, <2>5, <2>6, <2>7 DEF PhaseInv
<1>12. CASE Apply
  <2>1. wr.mem # 0 /\ UNCHANGED <<status, queue, arr, states, val, mu, fl>>
    BY <1>12 DEF Apply
  <2> QED BY <2>1 DEF PhaseInv
<1>13. CASE FlushStart
  <2>1. /\ status = "open" /\ mu.pc = "free" /\ Ready > 0
        /\ fl'.pc = "build" /\ fl'.n = Ready /\ fl'.new = 0
        /\ UNCHANGED <<status, queue, arr, states, val, mu, wr>>
    BY <1>13 DEF FlushStart
  <2>2. Len(queue) > 0
    BY <2>1 DEF PhaseInv
  <2>3. Ready \in Nat /\ Ready < Len(queue)
    BY <1>0, <2>2, ReadyFact
  <2> QED BY <2>1, <2>2, <2>3 DEF PhaseInv
<1>14. CASE FlushBuild
  <2> DEFINE x == Len(tabs) + 1
  <2>1. /\ fl.pc = "build" /\ x # 0 /\ x \notin DOMAIN tabs
        /\ \/ orphans' = orphans \cup {x} /\ fl' = IdleFlush
           \/ UNCHANGED orphans /\ fl'.pc = "install" /\ fl'.n = fl.n /\ fl'.new = x
    BY <1>0, <1>14, BuildFact
  <2> HIDE DEF x
  <2>2. UNCHANGED <<status, queue, arr, states, val, mu, wr>>
    BY <1>14 DEF FlushBuild
  <2>3. x # arr
    BY <2>1 DEF PlaceInv, Of
  <2>4. status = "open" /\ (mu.pc # "free" => mu.by = "switch")
    BY <2>1 DEF PhaseInv
  <2>5. CASE fl' = IdleFlush
    BY <1>2, <2>1, <2>2, <2>4, <2>5 DEF PhaseInv
  <2>6. CASE fl'.pc = "install" /\ fl'.n = fl.n /\ fl'.new = x
    BY <2>1, <2>2, <2>3, <2>4, <2>6 DEF PhaseInv
  <2> QED BY <2>1, <2>5, <2>6
<1>15. CASE FlushInstall
  <2>1. /\ mu.pc = "free" /\ fl.pc = "install" /\ status = "open" /\ fl.new # 0
        /\ mu' = [pc |-> "swap", old |-> val, by |-> "flush"] /\ arr' = fl.new
        /\ Len(queue') > 0
        /\ Len(states') = Len(states) + 1 /\ DOMAIN states' = 1..(Len(states) + 1)
        /\ fl'.pc = "update" /\ fl'.n = fl.n /\ fl'.new = fl.new
    BY <1>0, <1>15, InstallFact
  <2>2. UNCHANGED <<status, val, wr>>
    BY <1>15 DEF FlushInstall
  <2>3. mu'.pc = "swap" /\ mu'.old = val /\ mu'.by = "flush"
    BY <2>1
  <2>4. val = Len(states) /\ val \in DOMAIN states
    BY <2>1 DEF PhaseInv
  <2>5. val' \in DOMAIN states' /\ Len(states') = val' + 1
    BY <1>1, <2>1, <2>2, <2>4
  <2> HIDE DEF IInv
  <2> QED BY <2>1, <2>2, <2>3, <2>5 DEF PhaseInv
<1>16. CASE FlushRefused
  <2>1. /\ mu.pc = "free" /\ fl' = IdleFlush /\ UNCHANGED <<status, queue, arr, states, val, mu, wr>>
    BY <1>16 DEF FlushRefused
  <2> QED BY <1>2, <2>1 DEF PhaseInv
<1>17. CASE FlushEnd
  <2>1. /\ mu.pc = "free" /\ fl' = IdleFlush /\ UNCHANGED <<status, queue, arr, states, val, mu, wr>>
    BY <1>17 DEF FlushEnd
  <2> QED BY <1>2, <2>1 DEF PhaseInv
<1>18. CASE Close
  <2>1. Gives(val, "close")
    BY <1>0, <1>18, GivesFact
  <2>2. Len(states') = Len(states) /\ DOMAIN states' = DOMAIN states
    BY <1>0, <2>1, GaveFact
  <2>3. /\ status = "open" /\ mu.pc = "free" /\ wr.mem = 0 /\ fl.pc = "none" /\ status' = "closing"
        /\ UNCHANGED <<queue, arr, val, mu, fl, wr>>
    BY <1>18 DEF Close
  <2> QED BY <2>2, <2>3 DEF PhaseInv
<1>19. CASE CloseQueue
  <2>1. /\ status = "closing" /\ status' = "closed" /\ queue' = <<>> /\ arr' = 0
        /\ UNCHANGED <<states, val, mu, fl, wr>>
    BY <1>19 DEF CloseQueue
  <2>2. mu.pc = "free" /\ fl.pc = "none" /\ wr.mem = 0
    BY <2>1 DEF PhaseInv
  <2> QED BY <2>1, <2>2 DEF PhaseInv
<1> QED
  BY <1>3, <1>4, <1>5, <1>6, <1>7, <1>8, <1>9, <1>10, <1>11, <1>12, <1>13, <1>14, <1>15,
     <1>16, <1>17, <1>18, <1>19 DEF Next
\* The goroutines other than the readers are no readers.
LEMMA ActorFact ==
  /\ {"mu", "flush", "close"} \subseteq Actors /\ Readers \subseteq Actors
  /\ \A r \in Readers : r # "mu" /\ r # "flush" /\ r # "close"
  /\ \A a \in Actors : a \in Readers \/ a = "mu" \/ a = "flush" \/ a = "close"
BY ReadAssumption DEF Actors

\* What the loops have before them: no table twice, and only tables there are.
DropList == /\ IsFiniteSet({a \in Actors : drops[a] # <<>>})
            /\ \A a \in Actors : Injective(drops[a]) /\ Range(drops[a]) \subseteq DOMAIN tabs

\* One goroutine's list changes.
LEMMA OneList ==
  ASSUME IInv, [Next]_vars, NEW a \in Actors, \A b \in Actors : b # a => drops'[b] = drops[b],
         Injective(drops'[a]), Range(drops'[a]) \subseteq DOMAIN tabs'
  PROVE  DropList'
<1> DEFINE A == {b \in Actors : drops[b] # <<>>}
           B == {b \in Actors : drops'[b] # <<>>}
<1>1. IsFiniteSet(A)
  BY DEF IInv, DropsInv
<1>2. IsFiniteSet(A \cup {a})
  BY <1>1, FS_AddElement
<1>3. B \subseteq A \cup {a}
  OBVIOUS
<1> HIDE DEF A, B
<1>4. IsFiniteSet(B)
  BY <1>2, <1>3, CardFact
<1>5. \A b \in Actors : Injective(drops[b]) /\ Range(drops[b]) \subseteq DOMAIN tabs
  BY DEF IInv, DropsInv
<1>6. DOMAIN tabs \subseteq DOMAIN tabs'
  BY KindStep
<1>7. \A b \in Actors : Injective(drops'[b]) /\ Range(drops'[b]) \subseteq DOMAIN tabs'
  BY <1>5, <1>6
<1> QED BY <1>4, <1>7 DEF DropList, B

\* The lists stay lists of different tables.
LEMMA ListStep ==
  ASSUME IInv, [Next]_vars
  PROVE  DropList'
<1> USE DEF IInv
<1>0. TypeInv /\ PlaceInv /\ PhaseInv /\ DropsInv /\ StateInv /\ CountInv /\ WriterInv
  OBVIOUS
<1>1. DOMAIN tabs \subseteq DOMAIN tabs'
  BY KindStep
<1>2. CASE UNCHANGED drops
  BY <1>1, <1>2 DEF DropsInv, DropList
<1>3. ASSUME NEW a \in Actors, Drop(a) PROVE DropList'
  <2> DEFINE x == Head(drops[a])
  <2>1. /\ Injective(drops'[a]) /\ Range(drops'[a]) = Range(drops[a]) \ {x}
        /\ \A b \in Actors : b # a => drops'[b] = drops[b]
    BY <1>0, <1>3, DropFact
  <2> HIDE DEF x
  <2>2. Range(drops'[a]) \subseteq DOMAIN tabs'
    BY <1>0, <1>1, <2>1 DEF DropsInv
  <2> QED BY <2>1, <2>2, OneList
<1>4. ASSUME NEW s, NEW a, Gives(s, a) PROVE DropList'
  <2>1. /\ a \in Actors /\ Injective(drops'[a]) /\ Range(drops'[a]) \subseteq DOMAIN tabs
        /\ \A b \in Actors : b # a => drops'[b] = drops[b]
    BY <1>0, <1>4, GaveFact
  <2> QED BY <1>1, <2>1, OneList
<1>5. CASE FlushInstall
  <2> DEFINE p == SubSeq(queue, 1, fl.n)
  <2>1. /\ Injective(drops'["flush"]) /\ Range(drops'["flush"]) = Range(p) \cup ({arr} \ {0})
        /\ \A b \in Actors : b # "flush" => drops'[b] = drops[b]
        /\ Range(p) \cup Range(queue') = Range(queue)
    BY <1>0, <1>5, InstallFact
  <2> HIDE DEF p
  <2>2. Range(drops'["flush"]) \subseteq DOMAIN tabs
    BY <2>1 DEF PlaceInv, Of
  <2> QED BY <1>1, <2>1, <2>2, OneList, ActorFact
<1>6. CASE CloseQueue
  <2> DEFINE d == queue \o (IF arr = 0 THEN <<>> ELSE <<arr>>)
  <2>1. drops' = [drops EXCEPT !["close"] = d]
    BY <1>6 DEF CloseQueue
  <2>2. queue \in Seq(Nat) /\ arr \in Nat /\ DOMAIN drops = Actors
    BY DEF TypeInv
  <2>3. arr \notin Range(queue)
    <3>1. arr = 0 \/ arr \in Of("arr")
      BY DEF PlaceInv
    <3>2. Range(queue) \subseteq Of("mem") /\ 0 \notin Range(queue)
      BY <1>0, QueueFact DEF PlaceInv
    <3> QED BY <3>1, <3>2 DEF Of
  <2>4. Injective(d) /\ Range(d) = Range(queue) \cup ({arr} \ {0})
    BY <2>2, <2>3, ListFact DEF PlaceInv
  <2> HIDE DEF d
  <2>5. Range(d) \subseteq DOMAIN tabs
    BY <2>4 DEF PlaceInv, Of
  <2>6. drops'["close"] = d /\ \A b \in Actors : b # "close" => drops'[b] = drops[b]
    BY <2>1, <2>2, ActorFact
  <2> QED BY <1>1, <2>4, <2>5, <2>6, OneList, ActorFact
<1>7. \/ UNCHANGED drops \/ (\E a \in Actors : Drop(a)) \/ FlushInstall \/ CloseQueue
      \/ UpdateUnref \/ Close \/ (\E r \in Readers : CloseReader(r))
  <2>1. FlushBuild => UNCHANGED drops
    BY DEF FlushBuild
  <2>2. (UNCHANGED vars \/ (\E r \in Readers : Load(r)) \/ UpdateSwap \/ UpdateEnd
         \/ (\E k \in Keys : Write(k)) \/ Apply \/ SwitchMem \/ FlushStart \/ FlushRefused
         \/ FlushEnd) => UNCHANGED drops
    BY DEF vars, Load, UpdateSwap, UpdateEnd, Write, Apply, SwitchMem, FlushStart, FlushRefused,
           FlushEnd
  <2> QED BY <2>1, <2>2 DEF Next
<1>8. UpdateUnref \/ Close \/ (\E r \in Readers : CloseReader(r)) => DropList'
  BY <1>0, <1>4, GivesFact
<1> QED BY <1>2, <1>3, <1>5, <1>6, <1>7, <1>8
\* Each loop runs where the code has it.
DropPhase == /\ drops["mu"] # <<>> => mu.pc = "end"
             /\ drops["flush"] # <<>> => fl.pc \in {"update", "release"}
             /\ drops["close"] # <<>> => status # "open"
             /\ \A r \in Readers : drops[r] # <<>> => rd[r].rs = 0

\* updateReadState, flush1, Close and the readers run their loops to the end.
LEMMA DropPhaseStep ==
  ASSUME IInv, [Next]_vars
  PROVE  DropPhase'
<1> USE DEF IInv
<1>0. TypeInv /\ PlaceInv /\ PhaseInv /\ DropsInv /\ StateInv /\ CountInv /\ WriterInv
  OBVIOUS
<1>1. /\ drops["mu"] # <<>> => mu.pc = "end"
      /\ drops["flush"] # <<>> => fl.pc \in {"update", "release"}
      /\ drops["close"] # <<>> => status # "open"
      /\ \A r \in Readers : drops[r] # <<>> => rd[r].rs = 0
  BY DEF DropsInv
<1>2. mu \in Mu /\ fl \in Fl /\ DOMAIN rd = Readers
  BY DEF TypeInv
<1>3. CASE UNCHANGED vars
  BY <1>1, <1>3 DEF DropPhase, vars
<1>4. ASSUME NEW a \in Actors, Drop(a) PROVE DropPhase'
  <2>1. drops[a] # <<>> /\ \A b \in Actors : b # a => drops'[b] = drops[b]
    BY <1>0, <1>4, DropFact
  <2>2. \A b \in Actors : drops'[b] # <<>> => drops[b] # <<>>
    BY <2>1
  <2>3. UNCHANGED <<status, mu, rd, fl>>
    BY <1>4 DEF Drop
  <2> QED BY <1>1, <2>2, <2>3, ActorFact DEF DropPhase
<1>5. CASE UpdateSwap
  <2>1. mu.pc = "swap" /\ UNCHANGED <<status, drops, rd, fl>>
    BY <1>5 DEF UpdateSwap
  <2> QED BY <1>1, <2>1 DEF DropPhase
<1>6. CASE UpdateUnref
  <2>1. mu'.pc = "end" /\ UNCHANGED <<status, rd, fl>>
    BY <1>2, <1>6 DEF UpdateUnref, Mu
  <2>2. \A b \in Actors : b # "mu" => drops'[b] = drops[b]
    BY <1>0, <1>6, GivesFact, GaveFact
  <2> QED BY <1>1, <2>1, <2>2, ActorFact DEF DropPhase
<1>7. CASE UpdateEnd
  <2>1. /\ drops["mu"] = <<>> /\ (mu.by = "switch" => UNCHANGED fl)
        /\ mu.by # "switch" => fl'.pc = "release"
    BY <1>0, <1>7, UpdateEndFact
  <2>2. UNCHANGED <<status, rd, drops>>
    BY <1>7 DEF UpdateEnd
  <2> QED BY <1>1, <2>1, <2>2 DEF DropPhase
<1>8. ASSUME NEW r \in Readers, Load(r) PROVE DropPhase'
  <2>1. drops[r] = <<>> /\ \A q \in Readers : q # r => rd'[q] = rd[q]
    BY <1>0, <1>8, LoadFact
  <2>2. UNCHANGED <<status, mu, fl, drops>>
    BY <1>8 DEF Load
  <2> QED BY <1>1, <2>1, <2>2 DEF DropPhase
<1>9. ASSUME NEW r \in Readers, CloseReader(r) PROVE DropPhase'
  <2>1. UNCHANGED <<status, mu, fl>> /\ rd'[r].rs = 0 /\ \A q \in Readers : q # r => rd'[q] = rd[q]
    BY <1>2, <1>9 DEF CloseReader, IdleReader
  <2>2. \A b \in Actors : b # r => drops'[b] = drops[b]
    BY <1>0, <1>9, GivesFact, GaveFact
  <2> QED BY <1>1, <2>1, <2>2, ActorFact DEF DropPhase
<1>10. ASSUME NEW k \in Keys, Write(k) PROVE DropPhase'
  BY <1>1, <1>10 DEF DropPhase, Write
<1>11. CASE SwitchMem
  <2>1. mu.pc = "free" /\ UNCHANGED <<status, drops, rd, fl>>
    BY <1>11 DEF SwitchMem
  <2> QED BY <1>1, <2>1 DEF DropPhase
<1>12. CASE Apply
  BY <1>1, <1>12 DEF DropPhase, Apply
<1>13. CASE FlushStart
  <2>1. fl.pc = "none" /\ UNCHANGED <<status, drops, rd, mu>>
    BY <1>13 DEF FlushStart
  <2> QED BY <1>1, <2>1 DEF DropPhase
<1>14. CASE FlushBuild
  <2>1. fl.pc = "build" /\ UNCHANGED <<status, drops, rd, mu>>
    BY <1>14 DEF FlushBuild
  <2> QED BY <1>1, <2>1 DEF DropPhase
<1>15. CASE FlushInstall
  <2>1. /\ fl'.pc = "update" /\ mu.pc = "free"
        /\ \A a \in Actors : a # "flush" => drops'[a] = drops[a]
    BY <1>0, <1>15, InstallFact
  <2>2. UNCHANGED <<status, rd>>
    BY <1>15 DEF FlushInstall
  <2> QED BY <1>1, <2>1, <2>2, ActorFact DEF DropPhase
<1>16. CASE FlushRefused
  <2>1. fl.pc = "install" /\ UNCHANGED <<status, drops, rd, mu>>
    BY <1>16 DEF FlushRefused
  <2> QED BY <1>1, <2>1 DEF DropPhase
<1>17. CASE FlushEnd
  <2>1. drops["flush"] = <<>> /\ UNCHANGED <<status, drops, rd, mu>>
    BY <1>17 DEF FlushEnd
  <2> QED BY <1>1, <2>1 DEF DropPhase
<1>18. CASE Close
  <2>1. status' = "closing" /\ UNCHANGED <<rd, mu, fl>>
    BY <1>18 DEF Close
  <2>2. \A b \in Actors : b # "close" => drops'[b] = drops[b]
    BY <1>0, <1>18, GivesFact, GaveFact
  <2> QED BY <1>1, <2>1, <2>2, ActorFact DEF DropPhase
<1>19. CASE CloseQueue
  <2> DEFINE d == queue \o (IF arr = 0 THEN <<>> ELSE <<arr>>)
  <2>1. drops' = [drops EXCEPT !["close"] = d] /\ status' = "closed" /\ UNCHANGED <<rd, mu, fl>>
    BY <1>19 DEF CloseQueue
  <2> HIDE DEF d
  <2>2. \A b \in Actors : b # "close" => drops'[b] = drops[b]
    BY <2>1 DEF TypeInv
  <2> QED BY <1>1, <2>1, <2>2, ActorFact DEF DropPhase
<1> QED
  BY <1>3, <1>4, <1>5, <1>6, <1>7, <1>8, <1>9, <1>10, <1>11, <1>12, <1>13, <1>14, <1>15,
     <1>16, <1>17, <1>18, <1>19 DEF Next

\* What the flush gives up is nobody's own any more.
LEMMA FlushedStep ==
  ASSUME IInv, [Next]_vars
  PROVE  (Range(drops["flush"]) \cap (Range(queue) \cup {arr, fl.new} \cup orphans) = {})'
<1> USE DEF IInv
<1>0. TypeInv /\ PlaceInv /\ PhaseInv /\ DropsInv /\ StateInv /\ CountInv /\ WriterInv
  OBVIOUS
<1> DEFINE F == Range(drops["flush"])
           G == Range(drops'["flush"])
           O == Range(queue) \cup {arr, fl.new} \cup orphans
           P == Range(queue') \cup {arr', fl'.new} \cup orphans'
<1> SUFFICES G \cap P = {}
  OBVIOUS
<1>1. F \cap O = {} /\ F \subseteq DOMAIN tabs /\ (drops["flush"] # <<>> => fl.pc \in {"update", "release"})
  BY ActorFact DEF DropsInv
<1>2. 0 \notin DOMAIN tabs
  BY <1>0, QueueFact
<1>3. drops["flush"] = <<>> => F = {}
  BY DEF Range
<1>4. CASE FlushInstall
  <2> DEFINE p == SubSeq(queue, 1, fl.n)
  <2>1. /\ G = Range(p) \cup ({arr} \ {0}) /\ Range(p) \cup Range(queue') = Range(queue)
        /\ Range(p) \cap Range(queue') = {} /\ fl'.new = fl.new /\ arr' = fl.new
        /\ fl.new # 0 /\ fl.new # arr
    BY <1>0, <1>4, InstallFact
  <2> HIDE DEF p
  <2>2. UNCHANGED orphans
    BY <1>4 DEF FlushInstall
  <2>3. /\ Range(queue) \subseteq Of("mem") /\ {arr, fl.new} \ {0} \subseteq Of("arr")
        /\ orphans \subseteq Of("arr") /\ arr \notin orphans
    BY DEF PlaceInv
  <2>4. Of("mem") \cap Of("arr") = {}
    BY DEF Of
  <2> HIDE DEF G
  <2> QED BY <2>1, <2>2, <2>3, <2>4
<1>5. CASE drops["flush"] = <<>> /\ drops'["flush"] = drops["flush"]
  BY <1>3, <1>5
<1>6. CASE G \subseteq F /\ P \subseteq O \cup {0}
  BY <1>1, <1>2, <1>6
<1>7. ASSUME ~FlushInstall PROVE G \subseteq F
  <2>1. ASSUME NEW a \in Actors, Drop(a) PROVE G \subseteq F
    <3> DEFINE x == Head(drops[a])
    <3>1. /\ Range(drops'[a]) = Range(drops[a]) \ {x}
          /\ \A b \in Actors : b # a => drops'[b] = drops[b]
      BY <1>0, <2>1, DropFact
    <3> HIDE DEF x
    <3> QED BY <3>1, ActorFact
  <2>2. UpdateUnref \/ Close \/ (\E r \in Readers : CloseReader(r)) => drops'["flush"] = drops["flush"]
    <3>1. ASSUME NEW s, NEW a, Gives(s, a), a # "flush" PROVE drops'["flush"] = drops["flush"]
      BY <1>0, <3>1, GaveFact, ActorFact
    <3>2. UpdateUnref \/ Close => drops'["flush"] = drops["flush"]
      BY <1>0, <3>1, GivesFact
    <3>3. \A r \in Readers : CloseReader(r) => drops'["flush"] = drops["flush"]
      BY <1>0, <3>1, GivesFact, ActorFact
    <3> QED BY <3>2, <3>3
  <2>3. CloseQueue => drops'["flush"] = drops["flush"]
    BY DEF CloseQueue
  <2>4. (UNCHANGED vars \/ (\E r \in Readers : Load(r)) \/ UpdateSwap \/ UpdateEnd
         \/ (\E k \in Keys : Write(k)) \/ Apply \/ SwitchMem \/ FlushStart \/ FlushRefused
         \/ FlushEnd) => UNCHANGED drops
    BY DEF vars, Load, UpdateSwap, UpdateEnd, Write, Apply, SwitchMem, FlushStart, FlushRefused,
           FlushEnd
  <2>5. FlushBuild => UNCHANGED drops
    BY DEF FlushBuild
  <2>6. \/ UNCHANGED drops \/ (\E a \in Actors : Drop(a)) \/ CloseQueue
        \/ UpdateUnref \/ Close \/ (\E r \in Readers : CloseReader(r))
    BY <1>7, <2>4, <2>5 DEF Next
  <2> QED BY <2>1, <2>2, <2>3, <2>6
<1>8. CASE Still
  BY <1>4, <1>6, <1>7, <1>8 DEF Still
<1>9. CASE UpdateEnd
  <2>1. fl'.new = fl.new
    BY <1>0, <1>9, UpdateEndFact
  <2>2. UNCHANGED <<queue, arr, orphans, drops>>
    BY <1>9 DEF UpdateEnd
  <2> QED BY <1>6, <2>1, <2>2
<1>10. CASE SwitchMem
  <2> DEFINE x == Len(tabs) + 1
  <2>1. Range(queue') = Range(queue) \cup {x} /\ x \notin DOMAIN tabs /\ arr' = arr
    BY <1>0, <1>10, SwitchFact
  <2> HIDE DEF x
  <2>2. UNCHANGED <<fl, orphans, drops>>
    BY <1>10 DEF SwitchMem
  <2> QED BY <1>1, <2>1, <2>2
<1>11. CASE FlushStart
  <2>1. fl.pc = "none" /\ UNCHANGED drops
    BY <1>11 DEF FlushStart
  <2> QED BY <1>1, <1>5, <2>1
<1>12. CASE FlushBuild
  <2>1. fl.pc = "build" /\ UNCHANGED drops
    BY <1>12 DEF FlushBuild
  <2> QED BY <1>1, <1>5, <2>1
<1>13. CASE FlushRefused
  <2>1. fl.pc = "install" /\ UNCHANGED drops
    BY <1>13 DEF FlushRefused
  <2> QED BY <1>1, <1>5, <2>1
<1>14. CASE FlushEnd
  <2>1. drops["flush"] = <<>> /\ UNCHANGED drops
    BY <1>14 DEF FlushEnd
  <2> QED BY <1>5, <2>1
<1>15. CASE CloseQueue
  <2>1. status = "closing" /\ drops'["flush"] = drops["flush"]
    BY <1>15 DEF CloseQueue
  <2>2. fl.pc = "none"
    BY <2>1 DEF PhaseInv
  <2> QED BY <1>1, <1>5, <2>1, <2>2
<1> QED BY <1>4, <1>8, <1>9, <1>10, <1>11, <1>12, <1>13, <1>14, <1>15, PlaceKinds

\* The loops over readerUnref are in order.
LEMMA DropsStep ==
  ASSUME IInv, [Next]_vars
  PROVE  DropsInv'
<1>1. DropList' /\ DropPhase'
  BY ListStep, DropPhaseStep
<1>2. (Range(drops["flush"]) \cap (Range(queue) \cup {arr, fl.new} \cup orphans) = {})'
  BY FlushedStep
<1> QED BY <1>1, <1>2 DEF DropList, DropPhase, DropsInv
\* Readers open and close.
LEMMA ReadersStep ==
  ASSUME IInv, [Next]_vars
  PROVE  /\ IsFiniteSet({r \in Readers : rd'[r].rs # 0})
         /\ \A r \in Readers : rd'[r].rs # 0 => rd'[r].rs \in DOMAIN states'
<1> USE DEF IInv
<1>0. TypeInv /\ PlaceInv /\ PhaseInv /\ DropsInv /\ StateInv
  OBVIOUS
<1> DEFINE A == {r \in Readers : rd[r].rs # 0}
           B == {r \in Readers : rd'[r].rs # 0}
<1>1. IsFiniteSet(A) /\ \A r \in Readers : rd[r].rs # 0 => rd[r].rs \in DOMAIN states
  BY DEF StateInv
<1>2. DOMAIN states \subseteq DOMAIN states'
  <2>1. Len(states) \in Nat /\ DOMAIN states = 1..Len(states)
    BY DEF TypeInv
  <2>2. \A s, a : Gives(s, a) => DOMAIN states' = DOMAIN states
    BY <1>0, GaveFact
  <2>3. \A r \in Readers : Load(r) => DOMAIN states' = DOMAIN states
    BY <1>0, LoadFact
  <2>4. SwitchMem \/ FlushInstall => DOMAIN states' = 1..(Len(states) + 1)
    BY <1>0, SwitchFact, InstallFact
  <2>5. 1..Len(states) \subseteq 1..(Len(states) + 1)
    BY <2>1
  <2> QED BY <2>1, <2>2, <2>3, <2>4, <2>5, StateKinds
<1>3. CASE UNCHANGED rd
  BY <1>1, <1>2, <1>3
<1>4. ASSUME NEW r \in Readers, Load(r)
      PROVE  IsFiniteSet(B) /\ \A q \in Readers : rd'[q].rs # 0 => rd'[q].rs \in DOMAIN states'
  <2>1. rd'[r].rs = val /\ \A q \in Readers : q # r => rd'[q] = rd[q]
    BY <1>0, <1>4, LoadFact
  <2>2. IsFiniteSet(A \cup {r})
    BY <1>1, FS_AddElement
  <2>3. B \subseteq A \cup {r}
    BY <2>1
  <2>4. IsFiniteSet(B)
    BY <2>2, <2>3, CardFact
  <2>5. val \in DOMAIN states
    BY DEF PhaseInv
  <2> QED BY <1>1, <1>2, <2>1, <2>4, <2>5
<1>5. ASSUME NEW r \in Readers, CloseReader(r)
      PROVE  IsFiniteSet(B) /\ \A q \in Readers : rd'[q].rs # 0 => rd'[q].rs \in DOMAIN states'
  <2>1. rd'[r].rs = 0 /\ \A q \in Readers : q # r => rd'[q] = rd[q]
    BY <1>5 DEF CloseReader, IdleReader, TypeInv
  <2>2. B \subseteq A
    BY <2>1
  <2>3. IsFiniteSet(B)
    BY <1>1, <2>2, CardFact
  <2> QED BY <1>1, <1>2, <2>1, <2>3
<1>6. \/ UNCHANGED rd \/ \E r \in Readers : Load(r) \/ CloseReader(r)
  <2>1. FlushBuild => UNCHANGED rd
    BY DEF FlushBuild
  <2>2. (UNCHANGED vars \/ (\E a \in Actors : Drop(a)) \/ UpdateSwap \/ UpdateUnref \/ UpdateEnd
         \/ (\E k \in Keys : Write(k)) \/ Apply \/ SwitchMem \/ FlushStart \/ FlushInstall
         \/ FlushRefused \/ FlushEnd \/ Close \/ CloseQueue) => UNCHANGED rd
    BY DEF vars, Drop, UpdateSwap, UpdateUnref, UpdateEnd, Write, Apply, SwitchMem, FlushStart,
           FlushInstall, FlushRefused, FlushEnd, Close, CloseQueue
  <2> QED BY <2>1, <2>2 DEF Next
<1> QED BY <1>3, <1>4, <1>5, <1>6

\* The count of a read state is what its holders add up to.
Exact(s) == states[s].refs = Cardinality(On(s)) + (IF Held(s) THEN 1 ELSE 0)

\* updateReadState, loadReadState, the readers' Close and plainDB.Close keep the
\* counts of the read states.
LEMMA ExactStep ==
  ASSUME IInv, [Next]_vars, NEW s \in DOMAIN states'
  PROVE  Exact(s)'
<1> USE DEF IInv
<1>0. TypeInv /\ PlaceInv /\ PhaseInv /\ DropsInv /\ StateInv /\ CountInv /\ WriterInv
  OBVIOUS
<1>1. /\ Len(states) \in Nat /\ DOMAIN states = 1..Len(states) /\ mu \in Mu
      /\ DOMAIN rd = Readers /\ val \in DOMAIN states
  BY DEF TypeInv, PhaseInv
<1>2. \A u \in DOMAIN states : Exact(u) /\ u # 0
  BY <1>1 DEF StateInv, Exact
<1>3. \A r \in Readers : rd[r].rs # 0 => rd[r].rs \in DOMAIN states
  BY DEF StateInv
<1>4. CASE UNCHANGED <<states, rd, status, val, mu>>
  BY <1>2, <1>4 DEF Exact, On, Held
<1>5. CASE UpdateSwap
  <2>1. /\ mu.pc = "swap" /\ val' = Len(states) /\ mu'.pc = "unref" /\ mu'.old = mu.old
        /\ UNCHANGED <<status, states, rd>>
    BY <1>1, <1>5 DEF UpdateSwap, Mu
  <2>2. status = "open" /\ Len(states) = val + 1 /\ mu.old = val
    BY <2>1 DEF PhaseInv
  <2>3. Held(s)' <=> Held(s)
    BY <2>1, <2>2 DEF Held
  <2>4. On(s)' = On(s) /\ states'[s] = states[s] /\ s \in DOMAIN states
    BY <2>1 DEF On
  <2>5. Exact(s)
    BY <1>2, <2>4
  <2> QED BY <2>3, <2>4, <2>5 DEF Exact
<1>6. CASE UpdateUnref
  <2>1. /\ mu.pc = "unref" /\ mu'.pc = "end" /\ UNCHANGED <<status, val, rd>>
    BY <1>1, <1>6 DEF UpdateUnref, Mu
  <2>2. /\ \A u \in DOMAIN states : u # mu.old => states'[u] = states[u]
        /\ DOMAIN states' = DOMAIN states /\ states'[mu.old].refs = states[mu.old].refs - 1
    BY <1>0, <1>6, GivesFact, GaveFact
  <2>3. status = "open" /\ mu.old # val /\ mu.old \in DOMAIN states
    BY <2>1 DEF PhaseInv
  <2>4. On(s)' = On(s) /\ Exact(s) /\ IsFiniteSet(On(s)) /\ Cardinality(On(s)) \in Nat
    BY <1>0, <1>2, <2>1, <2>2, OnFinite DEF On
  <2>5. Held(s) <=> s = val \/ s = mu.old
    BY <2>1, <2>3 DEF Held
  <2>6. Held(s)' <=> s = val
    BY <2>1, <2>3 DEF Held
  <2>7. CASE s = mu.old
    BY <2>2, <2>3, <2>4, <2>5, <2>6, <2>7 DEF Exact
  <2>8. CASE s # mu.old
    BY <2>2, <2>3, <2>4, <2>5, <2>6, <2>8 DEF Exact
  <2> QED BY <2>7, <2>8
<1>7. CASE UpdateEnd
  <2>1. mu.pc = "end" /\ mu'.pc = "free" /\ UNCHANGED <<status, states, val, rd>>
    BY <1>7 DEF UpdateEnd, Free
  <2>2. Held(s)' <=> Held(s)
    BY <2>1 DEF Held
  <2>3. On(s)' = On(s) /\ Exact(s) /\ states'[s] = states[s]
    BY <1>2, <2>1 DEF On
  <2> QED BY <2>2, <2>3 DEF Exact
<1>8. ASSUME NEW r \in Readers, Load(r) PROVE Exact(s)'
  <2>1. /\ DOMAIN states' = DOMAIN states /\ rd'[r].rs = val /\ rd[r].rs = 0
        /\ \A u \in DOMAIN states : u # val => states'[u] = states[u]
        /\ states'[val].refs = states[val].refs + 1
        /\ \A q \in Readers : q # r => rd'[q] = rd[q]
        /\ Len(states') = Len(states)
    BY <1>0, <1>8, LoadFact
  <2>2. UNCHANGED <<status, val, mu>>
    BY <1>8 DEF Load
  <2>3. Held(s)' <=> Held(s)
    BY <2>1, <2>2 DEF Held
  <2>4. Exact(s) /\ IsFiniteSet(On(s)) /\ Cardinality(On(s)) \in Nat /\ s # 0
    BY <1>0, <1>2, <2>1, OnFinite
  <2>5. CASE s = val
    <3>1. On(s)' = On(s) \cup {r} /\ r \notin On(s)
      BY <2>1, <2>4, <2>5 DEF On
    <3>2. Cardinality(On(s)') = Cardinality(On(s)) + 1
      BY <2>4, <3>1, CardFact
    <3> QED BY <2>1, <2>3, <2>4, <2>5, <3>2 DEF Exact
  <2>6. CASE s # val
    <3>1. On(s)' = On(s) /\ states'[s] = states[s]
      BY <2>1, <2>4, <2>6 DEF On
    <3> QED BY <2>3, <2>4, <3>1 DEF Exact
  <2> QED BY <2>5, <2>6
<1>9. ASSUME NEW r \in Readers, CloseReader(r) PROVE Exact(s)'
  <2> DEFINE x == rd[r].rs
  <2>1. /\ \A u \in DOMAIN states : u # x => states'[u] = states[u]
        /\ DOMAIN states' = DOMAIN states /\ states'[x].refs = states[x].refs - 1
        /\ Len(states') = Len(states) /\ x \in DOMAIN states
    BY <1>0, <1>9, GivesFact, GaveFact
  <2>2. /\ UNCHANGED <<status, val, mu>> /\ rd'[r].rs = 0
        /\ \A q \in Readers : q # r => rd'[q] = rd[q]
    BY <1>1, <1>9 DEF CloseReader, IdleReader
  <2>3. Held(s)' <=> Held(s)
    BY <2>1, <2>2 DEF Held
  <2>4. Exact(s) /\ IsFiniteSet(On(s)) /\ Cardinality(On(s)) \in Nat /\ s # 0
    BY <1>0, <1>2, <2>1, OnFinite
  <2>5. rd[r].rs = x
    OBVIOUS
  <2> HIDE DEF x
  <2>6. CASE s = x
    <3>1. On(s)' = On(s) \ {r} /\ r \in On(s)
      BY <2>2, <2>4, <2>5, <2>6 DEF On
    <3>2. Cardinality(On(s)') = Cardinality(On(s)) - 1
      BY <2>4, <3>1, CardFact
    <3> QED BY <2>1, <2>3, <2>4, <2>6, <3>2 DEF Exact
  <2>7. CASE s # x
    <3>1. On(s)' = On(s) /\ states'[s] = states[s]
      BY <2>1, <2>2, <2>4, <2>5, <2>7 DEF On
    <3> QED BY <2>3, <2>4, <3>1 DEF Exact
  <2> QED BY <2>6, <2>7
<1>10. ASSUME status = "open", mu.pc = "free", UNCHANGED <<status, val, rd>>, mu'.pc = "swap",
              Len(states') = Len(states) + 1, DOMAIN states' = 1..(Len(states) + 1),
              \A u \in DOMAIN states : states'[u] = states[u],
              states'[Len(states) + 1].refs = 1
       PROVE  Exact(s)'
  <2> DEFINE n == Len(states) + 1
  <2>1. n \notin DOMAIN states /\ (s \in DOMAIN states \/ s = n) /\ n # 0
    BY <1>1, <1>10
  <2>2. Held(s)' <=> s = val \/ s = n
    BY <1>10 DEF Held
  <2>3. Held(s) <=> s = val
    BY <1>10 DEF Held
  <2>4. On(s)' = On(s)
    BY <1>10 DEF On
  <2>5. states'[n].refs = 1
    BY <1>10
  <2> HIDE DEF n
  <2>6. CASE s = n
    <3>1. On(s) = {}
      BY <1>3, <2>1, <2>6 DEF On
    <3>2. Cardinality(On(s)) = 0
      BY <3>1, CardFact
    <3> QED BY <2>2, <2>4, <2>5, <2>6, <3>2 DEF Exact
  <2>7. CASE s # n
    <3>1. states'[s] = states[s] /\ Exact(s)
      BY <1>2, <1>10, <2>1, <2>7
    <3> QED BY <2>2, <2>3, <2>4, <2>7, <3>1 DEF Exact
  <2> QED BY <2>6, <2>7
<1>11. CASE SwitchMem
  <2>1. /\ status = "open" /\ mu.pc = "free" /\ mu'.pc = "swap"
        /\ Len(states') = Len(states) + 1 /\ DOMAIN states' = 1..(Len(states) + 1)
        /\ \A u \in DOMAIN states : states'[u] = states[u]
        /\ states'[Len(states) + 1].refs = 1
    BY <1>0, <1>11, SwitchFact
  <2>2. UNCHANGED <<status, val, rd>>
    BY <1>11 DEF SwitchMem
  <2> QED BY <1>10, <2>1, <2>2
<1>12. CASE FlushInstall
  <2>1. /\ status = "open" /\ mu.pc = "free" /\ mu'.pc = "swap"
        /\ Len(states') = Len(states) + 1 /\ DOMAIN states' = 1..(Len(states) + 1)
        /\ \A u \in DOMAIN states : states'[u] = states[u]
        /\ states'[Len(states) + 1].refs = 1
    BY <1>0, <1>12, InstallFact
  <2>2. UNCHANGED <<status, val, rd>>
    BY <1>12 DEF FlushInstall
  <2> QED BY <1>10, <2>1, <2>2
<1>13. CASE Close
  <2>1. status = "open" /\ mu.pc = "free" /\ status' = "closing" /\ UNCHANGED <<val, mu, rd>>
    BY <1>13 DEF Close
  <2>2. /\ \A u \in DOMAIN states : u # val => states'[u] = states[u]
        /\ DOMAIN states' = DOMAIN states /\ states'[val].refs = states[val].refs - 1
    BY <1>0, <1>13, GivesFact, GaveFact
  <2>3. On(s)' = On(s) /\ Exact(s) /\ IsFiniteSet(On(s)) /\ Cardinality(On(s)) \in Nat
    BY <1>0, <1>2, <2>1, <2>2, OnFinite DEF On
  <2>4. (Held(s) <=> s = val) /\ ~Held(s)'
    BY <2>1 DEF Held
  <2>5. CASE s = val
    BY <2>2, <2>3, <2>4, <2>5 DEF Exact
  <2>6. CASE s # val
    BY <2>2, <2>3, <2>4, <2>6 DEF Exact
  <2> QED BY <2>5, <2>6
<1>14. CASE CloseQueue
  <2>1. status = "closing" /\ status' = "closed" /\ UNCHANGED <<states, val, mu, rd>>
    BY <1>14 DEF CloseQueue
  <2>2. Held(s)' <=> Held(s)
    BY <2>1 DEF Held
  <2>3. On(s)' = On(s) /\ Exact(s) /\ states'[s] = states[s]
    BY <1>2, <2>1 DEF On
  <2> QED BY <2>2, <2>3 DEF Exact
<1>15. (UNCHANGED vars \/ (\E a \in Actors : Drop(a)) \/ (\E k \in Keys : Write(k)) \/ Apply
        \/ FlushStart \/ FlushRefused \/ FlushEnd) => UNCHANGED <<states, rd, status, val, mu>>
  BY DEF vars, Drop, Write, Apply, FlushStart, FlushRefused, FlushEnd
<1>16. FlushBuild => UNCHANGED <<states, rd, status, val, mu>>
  BY DEF FlushBuild
<1> QED
  BY <1>4, <1>5, <1>6, <1>7, <1>8, <1>9, <1>11, <1>12, <1>13, <1>14, <1>15, <1>16 DEF Next
\* The newest read state lists the queue and arrtable: nobody gives up its last
\* reference while the DB is open.
LEMMA LastStep ==
  ASSUME IInv, [Next]_vars, status' = "open"
  PROVE  states'[Len(states')].mems = queue' /\ states'[Len(states')].arr = arr'
<1> USE DEF IInv
<1>0. TypeInv /\ PlaceInv /\ PhaseInv /\ DropsInv /\ StateInv /\ CountInv /\ WriterInv
  OBVIOUS
<1> DEFINE n == Len(states)
<1>1. n \in Nat /\ DOMAIN states = 1..n /\ val \in DOMAIN states /\ n \in DOMAIN states
  <2>1. n \in Nat /\ DOMAIN states = 1..n /\ val \in DOMAIN states
    BY DEF TypeInv, PhaseInv
  <2> QED BY <2>1
<1>2. status = "open"
  BY DEF Next, vars, Drop, UpdateSwap, UpdateUnref, UpdateEnd, Load, CloseReader, Write,
         SwitchMem, Apply, FlushStart, FlushBuild, FlushInstall, FlushRefused, FlushEnd, Close,
         CloseQueue
<1>3. states[n].mems = queue /\ states[n].arr = arr
  BY <1>2 DEF StateInv
<1>4. CASE SwitchMem
  BY <1>0, <1>4, SwitchFact
<1>5. CASE FlushInstall
  BY <1>0, <1>5, InstallFact
<1>6. ~Close /\ ~CloseQueue
  BY DEF Close, CloseQueue
<1>7. (~SwitchMem /\ ~FlushInstall) => UNCHANGED <<queue, arr>>
  <2>1. FlushBuild => UNCHANGED <<queue, arr>>
    BY DEF FlushBuild
  <2>2. Still => UNCHANGED <<queue, arr>>
    BY DEF Still
  <2>3. (UpdateEnd \/ FlushStart \/ FlushRefused \/ FlushEnd) => UNCHANGED <<queue, arr>>
    BY DEF UpdateEnd, FlushStart, FlushRefused, FlushEnd
  <2> QED BY <1>6, <2>1, <2>2, <2>3, PlaceKinds
<1>8. CASE UNCHANGED states /\ UNCHANGED <<queue, arr>>
  BY <1>3, <1>8
<1>9. ASSUME NEW r \in Readers, Load(r), UNCHANGED <<queue, arr>>
      PROVE  states'[Len(states')].mems = queue' /\ states'[Len(states')].arr = arr'
  <2>1. /\ Len(states') = n
        /\ \A v \in DOMAIN states : states'[v].mems = states[v].mems /\ states'[v].arr = states[v].arr
    BY <1>0, <1>9, LoadFact
  <2> QED BY <1>1, <1>3, <1>9, <2>1
<1>10. ASSUME NEW s, NEW a, Gives(s, a), UNCHANGED <<queue, arr>>, s = n => states[n].refs # 1
       PROVE  states'[Len(states')].mems = queue' /\ states'[Len(states')].arr = arr'
  <2>1. /\ Len(states') = n
        /\ \A u \in DOMAIN states : u # s => states'[u] = states[u]
        /\ states[s].refs # 1 => states'[s].mems = states[s].mems /\ states'[s].arr = states[s].arr
    BY <1>0, <1>10, GaveFact
  <2>2. CASE s = n
    BY <1>3, <1>10, <2>1, <2>2
  <2>3. CASE s # n
    BY <1>1, <1>3, <1>10, <2>1, <2>3
  <2> QED BY <2>2, <2>3
<1>11. CASE UpdateUnref /\ UNCHANGED <<queue, arr>>
  <2>1. mu.old # n
    BY <1>11 DEF PhaseInv, UpdateUnref
  <2> QED BY <1>0, <1>10, <1>11, <2>1, GivesFact
<1>12. ASSUME NEW r \in Readers, CloseReader(r), UNCHANGED <<queue, arr>>
       PROVE  states'[Len(states')].mems = queue' /\ states'[Len(states')].arr = arr'
  <2>1. ASSUME rd[r].rs = n PROVE states[n].refs # 1
    <3>1. r \in On(n) /\ n # 0
      BY <1>1, <2>1 DEF On
    <3>2. Cardinality(On(n)) \in Nat /\ Cardinality(On(n)) > 0
      BY <1>0, <3>1, OnFinite
    <3>3. Held(n)
      BY <1>2 DEF Held, PhaseInv
    <3>4. states[n].refs = Cardinality(On(n)) + 1
      BY <1>1, <3>3 DEF StateInv
    <3> QED BY <3>2, <3>4
  <2>2. Gives(rd[r].rs, r)
    BY <1>0, <1>12, GivesFact
  <2> QED BY <1>10, <1>12, <2>1, <2>2
<1>13. \/ UNCHANGED states \/ UpdateUnref \/ (\E r \in Readers : CloseReader(r))
       \/ (\E r \in Readers : Load(r)) \/ SwitchMem \/ FlushInstall
  <2>1. FlushBuild => UNCHANGED states
    BY DEF FlushBuild
  <2>2. (UNCHANGED vars \/ (\E a \in Actors : Drop(a)) \/ UpdateSwap \/ UpdateEnd
         \/ (\E k \in Keys : Write(k)) \/ Apply \/ FlushStart \/ FlushRefused \/ FlushEnd)
        => UNCHANGED states
    BY DEF vars, Drop, UpdateSwap, UpdateEnd, Write, Apply, FlushStart, FlushRefused, FlushEnd
  <2> QED BY <1>6, <2>1, <2>2 DEF Next
<1> QED BY <1>4, <1>5, <1>7, <1>8, <1>9, <1>11, <1>12, <1>13

\* The read states are counted exactly.
LEMMA StateStep ==
  ASSUME IInv, [Next]_vars
  PROVE  StateInv'
<1>1. /\ IsFiniteSet({r \in Readers : rd'[r].rs # 0})
      /\ \A r \in Readers : rd'[r].rs # 0 => rd'[r].rs \in DOMAIN states'
  BY ReadersStep
<1>2. \A s \in DOMAIN states' : Exact(s)'
  BY ExactStep
<1>3. status' = "open" => states'[Len(states')].mems = queue' /\ states'[Len(states')].arr = arr'
  BY LastStep
<1> QED BY <1>1, <1>2, <1>3 DEF StateInv, Exact
-----------------------------------------------------------------------------
(***************************************************************************)
(* The references to the tables.                                           *)
(***************************************************************************)

\* The states in use list what they listed.
LEMMA UsingSame ==
  ASSUME DOMAIN states' = DOMAIN states, NEW t,
         \A s \in DOMAIN states : /\ states'[s].mems = states[s].mems
                                  /\ states'[s].arr = states[s].arr
                                  /\ states'[s].refs > 0 <=> states[s].refs > 0
  PROVE  Using(t)' = Using(t)
<1>1. \A s \in DOMAIN states : Lists(s)' = Lists(s)
  BY DEF Lists, Tables
<1>2. \A s \in DOMAIN states : InUse(s)' <=> InUse(s)
  BY DEF InUse
<1> QED BY <1>1, <1>2 DEF Using

\* The states that list a table are finitely many.
LEMMA UsingFinite ==
  ASSUME TypeInv, NEW t
  PROVE  IsFiniteSet(Using(t))
<1>1. Len(states) \in Nat /\ DOMAIN states = 1..Len(states)
  BY DEF TypeInv
<1>2. IsFiniteSet(1..Len(states))
  BY <1>1, FS_Interval
<1>3. Using(t) \subseteq 1..Len(states)
  BY <1>1 DEF Using
<1> QED BY <1>2, <1>3, CardFact

\* updateReadState: one state more lists the queue and arrtable.
LEMMA UsingMore ==
  ASSUME TypeInv, NEW t, NEW q \in Seq(Nat), NEW at \in Nat,
         DOMAIN states' = 1..(Len(states) + 1),
         \A s \in DOMAIN states : states'[s] = states[s],
         states'[Len(states) + 1].refs = 1, states'[Len(states) + 1].mems = q,
         states'[Len(states) + 1].arr = at
  PROVE  /\ t \in Range(q) \cup ({at} \ {0}) =>
              Cardinality(Using(t)') = Cardinality(Using(t)) + 1
         /\ t \notin Range(q) \cup ({at} \ {0}) => Using(t)' = Using(t)
<1> DEFINE L == Range(q) \cup ({at} \ {0})
<1>1. Len(states) \in Nat /\ DOMAIN states = 1..Len(states)
  BY DEF TypeInv
<1>0. PICK n \in Nat : n = Len(states) + 1
  BY <1>1
<1>2. DOMAIN states' = DOMAIN states \cup {n} /\ n \notin DOMAIN states
  BY <1>0, <1>1
<1>3. states'[n].refs = 1 /\ states'[n].mems = q /\ states'[n].arr = at
  BY <1>0
<1>4. \A s \in DOMAIN states : Lists(s)' = Lists(s) /\ (InUse(s)' <=> InUse(s))
  BY DEF Lists, Tables, InUse
<1>5. Lists(n)' = L /\ InUse(n)'
  <2>1. Lists(n)' = Range(q \o (IF at = 0 THEN <<>> ELSE <<at>>))
    BY <1>3 DEF Lists, Tables
  <2> QED BY <1>3, <2>1, ListFact DEF InUse
<1> HIDE DEF L
<1>6. CASE t \in L
  <2>1. Using(t)' = Using(t) \cup {n} /\ n \notin Using(t)
    BY <1>2, <1>4, <1>5, <1>6 DEF Using
  <2>2. IsFiniteSet(Using(t))
    BY UsingFinite
  <2>3. Cardinality(Using(t)') = Cardinality(Using(t)) + 1
    BY <2>1, <2>2, CardFact
  <2> QED BY <1>6, <2>3 DEF L
<1>7. CASE t \notin L
  <2>1. Using(t)' = Using(t)
    BY <1>2, <1>4, <1>5, <1>7 DEF Using
  <2> QED BY <1>7, <2>1 DEF L
<1> QED BY <1>6, <1>7

\* A loop is given tables to unreference.
LEMMA DroppingMore ==
  ASSUME DropsInv, NEW t, NEW a \in Actors, drops[a] = <<>>,
         \A b \in Actors : b # a => drops'[b] = drops[b]
  PROVE  /\ t \in Range(drops'[a]) => Cardinality(Dropping(t)') = Cardinality(Dropping(t)) + 1
         /\ t \notin Range(drops'[a]) => Dropping(t)' = Dropping(t)
<1>1. Range(drops[a]) = {}
  BY DEF Range
<1>2. a \notin Dropping(t)
  BY <1>1 DEF Dropping
<1>3. IsFiniteSet(Dropping(t))
  <2>1. Dropping(t) \subseteq {b \in Actors : drops[b] # <<>>}
    BY DEF Dropping, Range
  <2> QED BY <2>1, CardFact DEF DropsInv
<1>4. CASE t \in Range(drops'[a])
  <2>1. Dropping(t)' = Dropping(t) \cup {a}
    BY <1>4 DEF Dropping
  <2> QED BY <1>2, <1>3, <1>4, <2>1, CardFact
<1>5. CASE t \notin Range(drops'[a])
  BY <1>1, <1>5 DEF Dropping
<1> QED BY <1>4, <1>5

\* unref of a read state: the last one hands the references of its tables to the loop.
LEMMA GivesCount ==
  ASSUME TypeInv, PlaceInv, DropsInv, NEW s, NEW a, Gives(s, a), NEW t
  PROVE  /\ Cardinality(Using(t)') \in Nat /\ Cardinality(Dropping(t)') \in Nat
         /\ Cardinality(Using(t)') + Cardinality(Dropping(t)')
              = Cardinality(Using(t)) + Cardinality(Dropping(t))
<1>0. /\ IsFiniteSet(Using(t)) /\ Cardinality(Using(t)) \in Nat /\ Cardinality(Dropping(t)) \in Nat
  BY CountFinite
<1>1. /\ s \in DOMAIN states /\ a \in Actors /\ drops[a] = <<>> /\ states[s].refs > 0
      /\ DOMAIN states' = DOMAIN states
      /\ \A u \in DOMAIN states : u # s => states'[u] = states[u]
      /\ states'[s].refs = states[s].refs - 1
      /\ states[s].refs # 1 => /\ states'[s].mems = states[s].mems
                               /\ states'[s].arr = states[s].arr
                               /\ drops' = drops
      /\ states[s].refs = 1 => /\ states'[s].mems = <<>> /\ states'[s].arr = 0
                               /\ Range(drops'[a]) = Lists(s)
      /\ \A b \in Actors : b # a => drops'[b] = drops[b]
  BY GaveFact
<1>2. states[s].refs \in Nat
  <2>1. states[s] \in State
    BY <1>1 DEF TypeInv
  <2> QED BY <2>1 DEF State
<1>3. CASE states[s].refs # 1
  <2>1. Using(t)' = Using(t)
    <3>1. states'[s].refs > 0
      BY <1>1, <1>2, <1>3
    <3>2. \A u \in DOMAIN states : /\ states'[u].mems = states[u].mems
                                   /\ states'[u].arr = states[u].arr
                                   /\ states'[u].refs > 0 <=> states[u].refs > 0
      BY <1>1, <1>3, <3>1
    <3> QED BY <1>1, <3>2, UsingSame
  <2>2. Dropping(t)' = Dropping(t)
    BY <1>1, <1>3 DEF Dropping
  <2> QED BY <1>0, <2>1, <2>2
<1>4. CASE states[s].refs = 1
  <2>1. \A u \in DOMAIN states : u # s => Lists(u)' = Lists(u) /\ (InUse(u)' <=> InUse(u))
    BY <1>1 DEF Lists, Tables, InUse
  <2>2. InUse(s) /\ ~InUse(s)'
    BY <1>1, <1>4 DEF InUse
  <2>3. Using(t)' = Using(t) \ {s} /\ (s \in Using(t) <=> t \in Lists(s))
    BY <1>1, <2>1, <2>2 DEF Using
  <2>5. CASE t \in Lists(s)
    <3>1. Cardinality(Using(t)') = Cardinality(Using(t)) - 1 /\ Cardinality(Using(t)) > 0
      BY <1>0, <2>3, <2>5, CardFact
    <3>2. Cardinality(Dropping(t)') = Cardinality(Dropping(t)) + 1
      BY <1>1, <1>4, <2>5, DroppingMore
    <3> QED BY <1>0, <3>1, <3>2
  <2>6. CASE t \notin Lists(s)
    <3>1. Using(t)' = Using(t)
      BY <2>3, <2>6
    <3>2. Dropping(t)' = Dropping(t)
      BY <1>1, <1>4, <2>6, DroppingMore
    <3> QED BY <1>0, <3>1, <3>2
  <2> QED BY <2>5, <2>6
<1> QED BY <1>3, <1>4
\* The count of one table.
Counted(t) == tabs[t].refs = Owned(t) + Cardinality(Using(t)) + Cardinality(Dropping(t))

\* Nobody has a table that is not there yet.
LEMMA NobodyHas ==
  ASSUME TypeInv, PlaceInv, DropsInv, NEW x, x \notin DOMAIN tabs
  PROVE  /\ Using(x) = {} /\ Dropping(x) = {} /\ Cardinality(Using(x)) = 0
         /\ Cardinality(Dropping(x)) = 0
         /\ x \notin Range(queue) /\ x \notin orphans /\ (x # 0 => x # arr /\ x # fl.new)
<1>1. Using(x) = {}
  BY ListsFact DEF Using
<1>2. Dropping(x) = {}
  BY DEF Dropping, DropsInv
<1>3. x \notin Range(queue) /\ x \notin orphans /\ (x # 0 => x # arr /\ x # fl.new)
  BY DEF PlaceInv, Of
<1> QED BY <1>1, <1>2, <1>3, CardFact

\* Nothing is given or taken.
LEMMA CountedSame ==
  ASSUME IInv, NEW t \in DOMAIN tabs, tabs'[t].refs = tabs[t].refs,
         UNCHANGED <<states, drops, queue, arr, orphans>>, fl'.new = fl.new
  PROVE  Counted(t)'
<1>1. Using(t)' = Using(t) /\ Dropping(t)' = Dropping(t) /\ Owned(t)' = Owned(t)
  BY DEF Using, Dropping, Owned, InUse, Lists, Tables
<1>2. Counted(t)
  BY DEF IInv, CountInv, Counted
<1> QED BY <1>1, <1>2 DEF Counted

\* readerUnref by one of the loops.
LEMMA CountedDrop ==
  ASSUME IInv, NEW a \in Actors, Drop(a), NEW t \in DOMAIN tabs
  PROVE  Counted(t)'
<1> USE DEF IInv
<1>0. TypeInv /\ PlaceInv /\ PhaseInv /\ DropsInv /\ StateInv /\ CountInv /\ WriterInv
  OBVIOUS
<1> DEFINE h == Head(drops[a])
<1>1. /\ h \in DOMAIN tabs /\ tabs[h].refs > 0 /\ IsFiniteSet(Dropping(h)) /\ a \in Dropping(h)
      /\ \A u \in DOMAIN tabs : u # h => tabs'[u] = tabs[u]
      /\ tabs'[h].refs = tabs[h].refs - 1
      /\ Range(drops'[a]) = Range(drops[a]) \ {h}
      /\ \A b \in Actors : b # a => drops'[b] = drops[b]
  BY <1>0, DropFact
<1> HIDE DEF h
<1>2. PICK x \in DOMAIN tabs :
        /\ tabs[x].refs > 0 /\ IsFiniteSet(Dropping(x)) /\ a \in Dropping(x)
        /\ \A u \in DOMAIN tabs : u # x => tabs'[u] = tabs[u]
        /\ tabs'[x].refs = tabs[x].refs - 1
        /\ Range(drops'[a]) = Range(drops[a]) \ {x}
        /\ \A b \in Actors : b # a => drops'[b] = drops[b]
  BY <1>1
<1>3. Using(t)' = Using(t) /\ Owned(t)' = Owned(t)
  BY DEF Drop, Using, Owned, InUse, Lists, Tables
<1>4. Counted(t) /\ Owned(t) \in Nat
  BY DEF CountInv, Counted, Owned
<1>5. /\ Cardinality(Using(t)) \in Nat /\ Cardinality(Dropping(t)) \in Nat
  BY <1>0, CountFinite
<1>6. CASE t = x
  <2>1. Dropping(t)' = Dropping(t) \ {a}
    BY <1>2, <1>6 DEF Dropping
  <2>2. Cardinality(Dropping(t)') = Cardinality(Dropping(t)) - 1
    BY <1>2, <1>6, <2>1, CardFact
  <2> HIDE DEF IInv
  <2> QED BY <1>2, <1>3, <1>4, <1>5, <1>6, <2>2 DEF Counted
<1>7. CASE t # x
  <2>1. Dropping(t)' = Dropping(t)
    BY <1>2, <1>7 DEF Dropping
  <2> QED BY <1>2, <1>3, <1>4, <1>7, <2>1 DEF Counted
<1> QED BY <1>6, <1>7

\* unref of a read state.
LEMMA CountedGives ==
  ASSUME IInv, NEW s, NEW a, Gives(s, a), NEW t \in DOMAIN tabs,
         UNCHANGED <<tabs, queue, arr, fl, orphans>>
  PROVE  Counted(t)'
<1> USE DEF IInv
<1>0. TypeInv /\ PlaceInv /\ DropsInv /\ CountInv
  OBVIOUS
<1>1. /\ Cardinality(Using(t)') \in Nat /\ Cardinality(Dropping(t)') \in Nat
      /\ Cardinality(Using(t)') + Cardinality(Dropping(t)')
           = Cardinality(Using(t)) + Cardinality(Dropping(t))
      /\ Cardinality(Using(t)) \in Nat /\ Cardinality(Dropping(t)) \in Nat
  BY <1>0, GivesCount, CountFinite
<1>2. Owned(t)' = Owned(t) /\ Owned(t) \in Nat
  BY DEF Owned
<1>3. Counted(t)
  BY DEF CountInv, Counted
<1>4. tabs'[t].refs = tabs[t].refs
  OBVIOUS
<1> HIDE DEF IInv
<1> QED BY <1>1, <1>2, <1>3, <1>4 DEF Counted
\* makeRoomForWrite's switch.
LEMMA CountedSwitch ==
  ASSUME IInv, SwitchMem, NEW t \in DOMAIN tabs'
  PROVE  Counted(t)'
<1> USE DEF IInv
<1>0. TypeInv /\ PlaceInv /\ PhaseInv /\ DropsInv /\ CountInv
  OBVIOUS
<1> DEFINE x == Len(tabs) + 1
           ids == Range(queue) \cup ({arr} \ {0})
<1>1. /\ DOMAIN tabs' = DOMAIN tabs \cup {x} /\ x \notin DOMAIN tabs /\ x # 0
      /\ More(ids) /\ tabs'[x].refs = 2 /\ arr' = arr
      /\ queue' \in Seq(Nat) /\ Range(queue') = Range(queue) \cup {x}
      /\ DOMAIN states' = 1..(Len(states) + 1)
      /\ \A u \in DOMAIN states : states'[u] = states[u]
      /\ states'[Len(states) + 1].refs = 1 /\ states'[Len(states) + 1].mems = queue'
      /\ states'[Len(states) + 1].arr = arr
  BY <1>0, SwitchFact
<1>2. UNCHANGED <<drops, fl, orphans>> /\ arr \in Nat
  BY DEF SwitchMem, TypeInv
<1> HIDE DEF x
<1>3. /\ t \in Range(queue') \cup ({arr} \ {0}) => Cardinality(Using(t)') = Cardinality(Using(t)) + 1
      /\ t \notin Range(queue') \cup ({arr} \ {0}) => Using(t)' = Using(t)
  BY <1>0, <1>1, <1>2, UsingMore
<1>4. Dropping(t)' = Dropping(t)
  BY <1>2 DEF Dropping
<1>5. /\ Cardinality(Using(t)) \in Nat /\ Cardinality(Dropping(t)) \in Nat
  BY <1>0, CountFinite
<1>6. CASE t = x
  <2>1. /\ Cardinality(Using(t)) = 0 /\ Cardinality(Dropping(t)) = 0
        /\ t \notin orphans /\ t # arr /\ t # fl.new
    BY <1>0, <1>1, <1>6, NobodyHas
  <2>2. t \in Range(queue')
    BY <1>1, <1>6
  <2>3. Owned(t)' = 1
    BY <1>1, <1>2, <2>1, <2>2 DEF Owned
  <2>4. tabs'[t].refs = 2
    BY <1>1, <1>6
  <2> HIDE DEF IInv
  <2> QED BY <1>3, <1>4, <2>1, <2>2, <2>3, <2>4 DEF Counted
<1>7. CASE t # x
  <2>1. t \in DOMAIN tabs
    BY <1>1, <1>7
  <2>2. Counted(t) /\ Owned(t) \in Nat
    BY <2>1 DEF CountInv, Counted, Owned
  <2>3. t \in Range(queue') <=> t \in Range(queue)
    BY <1>1, <1>7
  <2>4. Owned(t)' = Owned(t)
    BY <1>1, <1>2, <2>3 DEF Owned
  <2>5. tabs'[t].refs = IF t \in ids THEN tabs[t].refs + 1 ELSE tabs[t].refs
    BY <1>1, <2>1 DEF More
  <2>6. t \in ids <=> t \in Range(queue') \cup ({arr} \ {0})
    BY <2>3
  <2> HIDE DEF IInv, ids
  <2>7. CASE t \in ids
    <3>1. Cardinality(Using(t)') = Cardinality(Using(t)) + 1
      BY <1>3, <2>6, <2>7
    <3>2. tabs'[t].refs = tabs[t].refs + 1
      BY <2>5, <2>7
    <3> QED BY <1>4, <1>5, <2>2, <2>4, <3>1, <3>2 DEF Counted
  <2>8. CASE t \notin ids
    BY <1>3, <1>4, <2>2, <2>4, <2>5, <2>6, <2>8 DEF Counted
  <2> QED BY <2>7, <2>8
<1> QED BY <1>6, <1>7

\* runFlush's new table.
LEMMA CountedBuild ==
  ASSUME IInv, FlushBuild, NEW t \in DOMAIN tabs'
  PROVE  Counted(t)'
<1> USE DEF IInv
<1>0. TypeInv /\ PlaceInv /\ PhaseInv /\ DropsInv /\ CountInv
  OBVIOUS
<1> DEFINE x == Len(tabs) + 1
<1>1. /\ DOMAIN tabs' = DOMAIN tabs \cup {x} /\ x \notin DOMAIN tabs /\ x # 0
      /\ \A u \in DOMAIN tabs : tabs'[u] = tabs[u]
      /\ tabs'[x].refs = 1 /\ fl.pc = "build"
      /\ \/ orphans' = orphans \cup {x} /\ fl' = IdleFlush
         \/ UNCHANGED orphans /\ fl'.new = x
  BY <1>0, BuildFact
<1>2. UNCHANGED <<drops, queue, arr, states>>
  BY DEF FlushBuild
<1> HIDE DEF x
<1>3. fl.new = 0 /\ IdleFlush.new = 0
  BY <1>1 DEF PhaseInv, IdleFlush
<1>4. Dropping(t)' = Dropping(t) /\ Using(t)' = Using(t)
  BY <1>2 DEF Dropping, Using, InUse, Lists, Tables
<1>5. CASE t = x
  <2>1. /\ Cardinality(Using(t)) = 0 /\ Cardinality(Dropping(t)) = 0 /\ t \notin Range(queue)
    BY <1>0, <1>1, <1>5, NobodyHas
  <2>2. Owned(t)' = 1
    BY <1>1, <1>2, <1>5, <2>1 DEF Owned
  <2> HIDE DEF IInv
  <2> QED BY <1>1, <1>4, <1>5, <2>1, <2>2 DEF Counted
<1>6. CASE t # x
  <2>1. t \in DOMAIN tabs /\ t # 0
    BY <1>0, <1>1, <1>6, QueueFact
  <2>2. Counted(t)
    BY <2>1 DEF CountInv, Counted
  <2>3. t \in {arr', fl'.new} \cup orphans' <=> t \in {arr, fl.new} \cup orphans
    BY <1>1, <1>2, <1>3, <1>6, <2>1
  <2>4. Owned(t)' = Owned(t)
    BY <1>2, <2>3 DEF Owned
  <2> QED BY <1>1, <1>4, <2>1, <2>2, <2>4 DEF Counted
<1> QED BY <1>5, <1>6

\* flush1: the flushed tables' own references go to the loop, the new state's come.
LEMMA CountedInstall ==
  ASSUME IInv, FlushInstall, NEW t \in DOMAIN tabs'
  PROVE  Counted(t)'
<1> USE DEF IInv
<1>0. TypeInv /\ PlaceInv /\ PhaseInv /\ DropsInv /\ CountInv
  OBVIOUS
<1> DEFINE p == SubSeq(queue, 1, fl.n)
           ids == Range(queue') \cup {fl.new}
<1>1. /\ DOMAIN tabs' = DOMAIN tabs /\ More(ids) /\ fl.new # 0 /\ fl.new # arr /\ arr' = fl.new
      /\ fl.pc = "install" /\ fl'.new = fl.new
      /\ queue' \in Seq(Nat)
      /\ DOMAIN states' = 1..(Len(states) + 1)
      /\ \A u \in DOMAIN states : states'[u] = states[u]
      /\ states'[Len(states) + 1].refs = 1 /\ states'[Len(states) + 1].mems = queue'
      /\ states'[Len(states) + 1].arr = fl.new
      /\ \A a \in Actors : a # "flush" => drops'[a] = drops[a]
  BY <1>0, InstallFact
<1>2. /\ Range(drops'["flush"]) = Range(p) \cup ({arr} \ {0})
      /\ Range(p) \cup Range(queue') = Range(queue) /\ Range(p) \cap Range(queue') = {}
  BY <1>0, InstallFact
<1>3. UNCHANGED orphans /\ fl.new \in Nat /\ drops["flush"] = <<>> /\ t \in DOMAIN tabs /\ t # 0
  <2>1. fl.new \in Nat /\ 0 \notin DOMAIN tabs
    BY <1>0, QueueFact DEF TypeInv, Fl
  <2> QED BY <1>1, <2>1 DEF FlushInstall, DropsInv
<1>4. /\ Range(queue) \subseteq Of("mem") /\ {arr, fl.new} \ {0} \subseteq Of("arr")
      /\ orphans \subseteq Of("arr") /\ arr \notin orphans /\ Of("mem") \cap Of("arr") = {}
  BY DEF PlaceInv, Of
<1> HIDE DEF p
<1>5. /\ t \in Range(queue') \cup ({fl.new} \ {0}) => Cardinality(Using(t)') = Cardinality(Using(t)) + 1
      /\ t \notin Range(queue') \cup ({fl.new} \ {0}) => Using(t)' = Using(t)
  BY <1>0, <1>1, <1>3, UsingMore
<1>6. /\ t \in Range(drops'["flush"]) => Cardinality(Dropping(t)') = Cardinality(Dropping(t)) + 1
      /\ t \notin Range(drops'["flush"]) => Dropping(t)' = Dropping(t)
  BY <1>0, <1>1, <1>3, DroppingMore, ActorFact
<1>7. /\ Cardinality(Using(t)) \in Nat /\ Cardinality(Dropping(t)) \in Nat
  BY <1>0, CountFinite
<1>8. Counted(t) /\ Owned(t) \in Nat
  BY <1>3 DEF CountInv, Counted, Owned
<1>9. tabs'[t].refs = IF t \in ids THEN tabs[t].refs + 1 ELSE tabs[t].refs
  BY <1>1, <1>3 DEF More
<1>10. t \in ids <=> t \in Range(queue') \cup ({fl.new} \ {0})
  BY <1>1
<1>11. /\ t \in Range(drops'["flush"]) => Owned(t) = 1 /\ Owned(t)' = 0 /\ t \notin ids
       /\ t \notin Range(drops'["flush"]) => Owned(t)' = Owned(t)
  <2>1. ASSUME t \in Range(p) PROVE Owned(t) = 1 /\ Owned(t)' = 0 /\ t \notin ids
    BY <1>1, <1>2, <1>3, <1>4, <2>1 DEF Owned
  <2>2. ASSUME t = arr PROVE Owned(t) = 1 /\ Owned(t)' = 0 /\ t \notin ids
    BY <1>1, <1>2, <1>3, <1>4, <2>2 DEF Owned
  <2>3. ASSUME t \notin Range(p), t # arr PROVE Owned(t)' = Owned(t)
    BY <1>1, <1>2, <1>3, <2>3 DEF Owned
  <2> QED BY <1>2, <1>3, <2>1, <2>2, <2>3
<1> HIDE DEF IInv, ids
<1>12. CASE t \in Range(drops'["flush"])
  <2>1. Cardinality(Dropping(t)') = Cardinality(Dropping(t)) + 1 /\ Using(t)' = Using(t)
        /\ tabs'[t].refs = tabs[t].refs /\ Owned(t) = 1 /\ Owned(t)' = 0
    BY <1>5, <1>6, <1>9, <1>10, <1>11, <1>12
  <2> QED BY <1>7, <1>8, <2>1 DEF Counted
<1>13. CASE t \notin Range(drops'["flush"]) /\ t \in ids
  <2>1. Cardinality(Using(t)') = Cardinality(Using(t)) + 1 /\ Dropping(t)' = Dropping(t)
        /\ tabs'[t].refs = tabs[t].refs + 1 /\ Owned(t)' = Owned(t)
    BY <1>5, <1>6, <1>9, <1>10, <1>11, <1>13
  <2> QED BY <1>7, <1>8, <2>1 DEF Counted
<1>14. CASE t \notin Range(drops'["flush"]) /\ t \notin ids
  <2>1. Using(t)' = Using(t) /\ Dropping(t)' = Dropping(t)
        /\ tabs'[t].refs = tabs[t].refs /\ Owned(t)' = Owned(t)
    BY <1>5, <1>6, <1>9, <1>10, <1>11, <1>14
  <2> QED BY <1>7, <1>8, <2>1 DEF Counted
<1> QED BY <1>12, <1>13, <1>14

\* Close: the queue's and arrtable's references go to the loop.
LEMMA CountedClose ==
  ASSUME IInv, CloseQueue, NEW t \in DOMAIN tabs
  PROVE  Counted(t)'
<1> USE DEF IInv
<1>0. TypeInv /\ PlaceInv /\ PhaseInv /\ DropsInv /\ CountInv
  OBVIOUS
<1> DEFINE d == queue \o (IF arr = 0 THEN <<>> ELSE <<arr>>)
<1>1. /\ drops' = [drops EXCEPT !["close"] = d] /\ status = "closing" /\ queue' = <<>> /\ arr' = 0
      /\ drops["close"] = <<>> /\ UNCHANGED <<tabs, states, fl, orphans>>
  BY DEF CloseQueue
<1>2. queue \in Seq(Nat) /\ arr \in Nat /\ DOMAIN drops = Actors
  BY DEF TypeInv
<1>3. Range(d) = Range(queue) \cup ({arr} \ {0})
  BY <1>2, ListFact
<1> HIDE DEF d
<1>4. drops'["close"] = d /\ \A b \in Actors : b # "close" => drops'[b] = drops[b]
  BY <1>1, <1>2, ActorFact
<1>5. fl.new = 0 /\ t # 0
  BY <1>0, <1>1, QueueFact DEF PhaseInv
<1>6. /\ t \in Range(d) => Cardinality(Dropping(t)') = Cardinality(Dropping(t)) + 1
      /\ t \notin Range(d) => Dropping(t)' = Dropping(t)
  BY <1>0, <1>1, <1>4, DroppingMore, ActorFact
<1>7. Using(t)' = Using(t) /\ tabs'[t].refs = tabs[t].refs
  BY <1>1 DEF Using, InUse, Lists, Tables
<1>8. /\ Cardinality(Using(t)) \in Nat /\ Cardinality(Dropping(t)) \in Nat
  BY <1>0, CountFinite
<1>9. Counted(t) /\ Owned(t) \in Nat
  BY DEF CountInv, Counted, Owned
<1>10. /\ Range(queue) \subseteq Of("mem") /\ {arr, fl.new} \ {0} \subseteq Of("arr")
       /\ orphans \subseteq Of("arr") /\ arr \notin orphans /\ Of("mem") \cap Of("arr") = {}
       /\ Range(<<>>) = {}
  BY DEF PlaceInv, Of, Range
<1>11. /\ t \in Range(d) => Owned(t) = 1 /\ Owned(t)' = 0
       /\ t \notin Range(d) => Owned(t)' = Owned(t)
  <2>1. ASSUME t \in Range(queue) PROVE Owned(t) = 1 /\ Owned(t)' = 0
    BY <1>1, <1>5, <1>10, <2>1 DEF Owned
  <2>2. ASSUME t = arr PROVE Owned(t) = 1 /\ Owned(t)' = 0
    BY <1>1, <1>5, <1>10, <2>2 DEF Owned
  <2>3. ASSUME t \notin Range(queue), t # arr PROVE Owned(t)' = Owned(t)
    BY <1>1, <1>5, <1>10, <2>3 DEF Owned
  <2> QED BY <1>3, <1>5, <2>1, <2>2, <2>3
<1> HIDE DEF IInv
<1>12. CASE t \in Range(d)
  <2>1. Cardinality(Dropping(t)') = Cardinality(Dropping(t)) + 1 /\ Owned(t) = 1 /\ Owned(t)' = 0
    BY <1>6, <1>11, <1>12
  <2> QED BY <1>7, <1>8, <1>9, <2>1 DEF Counted
<1>13. CASE t \notin Range(d)
  BY <1>6, <1>7, <1>9, <1>11, <1>13 DEF Counted
<1> QED BY <1>12, <1>13
\* readerRef and readerUnref keep the counts exact.
LEMMA CountStep ==
  ASSUME IInv, [Next]_vars
  PROVE  CountInv'
<1> USE DEF IInv
<1>0. TypeInv /\ PlaceInv /\ PhaseInv /\ DropsInv /\ StateInv /\ CountInv /\ WriterInv
  OBVIOUS
<1> SUFFICES ASSUME NEW t \in DOMAIN tabs' PROVE Counted(t)'
  BY DEF CountInv, Counted
<1>1. \A u \in DOMAIN tabs : Counted(u) /\ u # 0
  BY <1>0, QueueFact DEF CountInv, Counted
<1>2. CASE UNCHANGED vars
  BY <1>2, CountedSame DEF vars
<1>3. ASSUME NEW a \in Actors, Drop(a) PROVE Counted(t)'
  <2>1. DOMAIN tabs' = DOMAIN tabs
    BY <1>0, <1>3, DropFact
  <2> QED BY <1>3, <2>1, CountedDrop
<1>4. CASE UpdateSwap
  BY <1>4, CountedSame DEF UpdateSwap
<1>5. ASSUME NEW s, NEW a, Gives(s, a), UNCHANGED <<tabs, queue, arr, fl, orphans>>
      PROVE  Counted(t)'
  BY <1>5, CountedGives
<1>6. CASE UpdateUnref
  <2>1. UNCHANGED <<tabs, queue, arr, fl, orphans>>
    BY <1>6 DEF UpdateUnref
  <2> QED BY <1>0, <1>5, <1>6, <2>1, GivesFact
<1>7. ASSUME NEW r \in Readers, CloseReader(r) PROVE Counted(t)'
  <2>1. UNCHANGED <<tabs, queue, arr, fl, orphans>>
    BY <1>7 DEF CloseReader
  <2> QED BY <1>0, <1>5, <1>7, <2>1, GivesFact
<1>8. CASE Close
  <2>1. UNCHANGED <<tabs, queue, arr, fl, orphans>>
    BY <1>8 DEF Close
  <2> QED BY <1>0, <1>5, <1>8, <2>1, GivesFact
<1>9. CASE UpdateEnd
  <2>1. SameTabs /\ fl'.new = fl.new
    BY <1>0, <1>9, UpdateEndFact
  <2>2. UNCHANGED <<states, drops, queue, arr, orphans>>
    BY <1>9 DEF UpdateEnd
  <2> QED BY <2>1, <2>2, CountedSame DEF SameTabs
<1>10. ASSUME NEW k \in Keys, Write(k) PROVE Counted(t)'
  <2>1. SameTabs
    BY <1>0, <1>10, WriteFact
  <2>2. UNCHANGED <<states, drops, queue, arr, orphans, fl>>
    BY <1>10 DEF Write
  <2> QED BY <2>1, <2>2, CountedSame DEF SameTabs
<1>11. CASE Apply
  <2>1. SameTabs
    BY <1>0, <1>11, ApplyFact
  <2>2. UNCHANGED <<states, drops, queue, arr, orphans, fl>>
    BY <1>11 DEF Apply
  <2> QED BY <2>1, <2>2, CountedSame DEF SameTabs
<1>12. CASE FlushStart
  <2>1. fl.new = 0 /\ fl'.new = 0 /\ UNCHANGED <<tabs, states, drops, queue, arr, orphans>>
    BY <1>12 DEF FlushStart, PhaseInv
  <2> QED BY <2>1, CountedSame
<1>13. ASSUME NEW r \in Readers, Load(r) PROVE Counted(t)'
  <2>1. /\ DOMAIN states' = DOMAIN states
        /\ \A s \in DOMAIN states : /\ s # val => states'[s] = states[s]
                                    /\ states'[s].mems = states[s].mems
                                    /\ states'[s].arr = states[s].arr
        /\ states'[val].refs = states[val].refs + 1 /\ status = "open"
    BY <1>0, <1>13, LoadFact
  <2>2. UNCHANGED <<tabs, queue, arr, drops, fl, orphans>>
    BY <1>13 DEF Load
  <2>3. val \in DOMAIN states /\ val # 0
    BY DEF PhaseInv, TypeInv
  <2>4. states[val].refs = Cardinality(On(val)) + 1
    BY <2>1, <2>3 DEF StateInv, Held
  <2>5. Cardinality(On(val)) \in Nat
    BY <1>0, <2>3, OnFinite
  <2>6. states[val].refs > 0 /\ states'[val].refs > 0
    BY <2>1, <2>4, <2>5
  <2>7. Using(t)' = Using(t)
    BY <2>1, <2>6, UsingSame
  <2>8. Dropping(t)' = Dropping(t) /\ Owned(t)' = Owned(t)
    BY <2>2 DEF Dropping, Owned
  <2> QED BY <1>1, <2>2, <2>7, <2>8 DEF Counted
<1>14. CASE FlushRefused \/ FlushEnd
  <2>1. UNCHANGED <<tabs, states, drops, queue, arr>> /\ fl'.new = 0
    BY <1>14 DEF FlushRefused, FlushEnd, IdleFlush
  <2>2. (FlushRefused => orphans' = orphans \cup {fl.new})
        /\ (FlushEnd => orphans' = orphans /\ fl.new = arr)
    BY DEF FlushRefused, FlushEnd, PhaseInv
  <2>3. t \in DOMAIN tabs /\ t # 0 /\ Counted(t)
    BY <1>1, <2>1
  <2>4. t \in {arr', fl'.new} \cup orphans' <=> t \in {arr, fl.new} \cup orphans
    BY <1>14, <2>1, <2>2, <2>3
  <2>5. Owned(t)' = Owned(t)
    BY <2>1, <2>4 DEF Owned
  <2>6. Dropping(t)' = Dropping(t) /\ Using(t)' = Using(t)
    BY <2>1 DEF Dropping, Using, InUse, Lists, Tables
  <2> QED BY <2>1, <2>3, <2>5, <2>6 DEF Counted
<1>15. CASE CloseQueue
  <2>1. UNCHANGED tabs
    BY <1>15 DEF CloseQueue
  <2> QED BY <1>15, <2>1, CountedClose
<1> QED
  BY <1>2, <1>3, <1>4, <1>6, <1>7, <1>8, <1>9, <1>10, <1>11, <1>12, <1>13, <1>14, <1>15,
     CountedSwitch, CountedBuild, CountedInstall DEF Next
-----------------------------------------------------------------------------
(***************************************************************************)
(* Writers, memory and files.                                              *)
(***************************************************************************)

\* The writers a memtable should have.
Writers(i) == (IF i = Len(queue) \/ Switching(i) THEN 1 ELSE 0)
              + (IF wr.mem = queue[i] THEN 1 ELSE 0)

\* writerRef and writerUnref are paired, and a flush leaves the memtable of a writer
\* in the queue.
LEMMA WriterStep ==
  ASSUME IInv, [Next]_vars
  PROVE  WriterInv'
<1> USE DEF IInv
<1>0. TypeInv /\ PlaceInv /\ PhaseInv /\ DropsInv /\ StateInv /\ CountInv /\ WriterInv
  OBVIOUS
<1>1. /\ Len(queue) \in Nat /\ DOMAIN queue = 1..Len(queue)
      /\ \A i \in 1..Len(queue) : queue[i] \in DOMAIN tabs /\ queue[i] # 0
      /\ \A i, j \in 1..Len(queue) : queue[i] = queue[j] => i = j
  BY <1>0, QueueFact
<1>2. /\ \A i \in 1..Len(queue) : tabs[queue[i]].writers = Writers(i)
      /\ wr.mem # 0 => wr.mem \in Range(queue)
      /\ fl.pc \in {"build", "install"} => \A i \in 1..fl.n : tabs[queue[i]].writers = 0
  BY <1>1 DEF WriterInv, Writers
<1>3. \A t \in DOMAIN tabs : tabs[t].writers \in Nat
  BY DEF TypeInv
<1>4. fl.pc \in {"build", "install"} => fl.n \in Nat /\ fl.n < Len(queue) /\ 1..fl.n \subseteq 1..Len(queue)
  <2>1. fl.n \in Nat
    BY DEF TypeInv, Fl
  <2> QED BY <1>1, <2>1 DEF PhaseInv
<1>5. ASSUME UNCHANGED <<queue, wr>>, \A i \in 1..Len(queue) : Switching(i)' <=> Switching(i),
             \A t \in DOMAIN tabs : tabs'[t].writers = tabs[t].writers,
             fl'.pc \in {"build", "install"} => fl.pc \in {"build", "install"} /\ fl'.n = fl.n
      PROVE  WriterInv'
  <2>1. \A i \in 1..Len(queue) : tabs'[queue[i]].writers = Writers(i)
    BY <1>1, <1>2, <1>5
  <2>2. \A i \in 1..Len(queue) : Writers(i)' = Writers(i)
    BY <1>5 DEF Writers
  <2>3. fl'.pc \in {"build", "install"} => \A i \in 1..fl'.n : tabs'[queue[i]].writers = 0
    BY <1>1, <1>2, <1>4, <1>5
  <2> QED BY <1>1, <1>2, <1>5, <2>1, <2>2, <2>3 DEF WriterInv, Writers
<1>6. CASE UNCHANGED vars
  BY <1>5, <1>6 DEF vars, Switching
<1>7. ASSUME NEW a \in Actors, Drop(a) PROVE WriterInv'
  <2> DEFINE x == Head(drops[a])
  <2>1. /\ tabs'[x].writers = tabs[x].writers
        /\ \A t \in DOMAIN tabs : t # x => tabs'[t] = tabs[t]
    BY <1>0, <1>7, DropFact
  <2> HIDE DEF x
  <2>2. \A t \in DOMAIN tabs : tabs'[t].writers = tabs[t].writers
    BY <2>1
  <2>3. UNCHANGED <<queue, wr, mu, fl>>
    BY <1>7 DEF Drop
  <2> QED BY <1>5, <2>2, <2>3 DEF Switching
<1>8. CASE UpdateSwap \/ UpdateUnref
  <2>1. mu.pc # "free" /\ mu'.pc # "free" /\ mu'.by = mu.by /\ UNCHANGED <<queue, wr, tabs, fl>>
    BY <1>8 DEF UpdateSwap, UpdateUnref, TypeInv, Mu
  <2>2. \A i \in 1..Len(queue) : Switching(i)' <=> Switching(i)
    BY <2>1 DEF Switching
  <2> QED BY <1>5, <2>1, <2>2
<1>9. ASSUME NEW r \in Readers, Load(r) \/ CloseReader(r) PROVE WriterInv'
  <2>1. UNCHANGED <<queue, wr, tabs, fl, mu>>
    BY <1>9 DEF Load, CloseReader
  <2> QED BY <1>5, <2>1 DEF Switching
<1>10. CASE FlushRefused \/ FlushEnd
  <2>1. UNCHANGED <<queue, wr, tabs, mu>> /\ fl'.pc = "none"
    BY <1>10 DEF FlushRefused, FlushEnd, IdleFlush
  <2> QED BY <1>5, <2>1 DEF Switching
<1>11. CASE Close
  <2>1. UNCHANGED <<queue, wr, tabs, mu, fl>>
    BY <1>11 DEF Close
  <2> QED BY <1>5, <2>1 DEF Switching
<1>12. CASE FlushBuild
  <2>1. /\ \A t \in DOMAIN tabs : tabs'[t] = tabs[t]
        /\ fl' = IdleFlush \/ fl'.n = fl.n
        /\ fl.pc = "build"
    BY <1>0, <1>12, BuildFact
  <2>2. UNCHANGED <<queue, wr, mu>>
    BY <1>12 DEF FlushBuild
  <2>3. IdleFlush.pc = "none"
    BY DEF IdleFlush
  <2> QED BY <1>5, <2>1, <2>2, <2>3 DEF Switching
<1>13. CASE UpdateEnd
  <2>1. mu' = Free /\ mu.pc = "end" /\ UNCHANGED <<queue, wr>> /\ Free.pc = "free"
    BY <1>13 DEF UpdateEnd, Free
  <2>2. CASE mu.by # "switch"
    <3>1. fl'.pc = "release" /\ UNCHANGED tabs
      BY <1>0, <1>13, <2>2, UpdateEndFact
    <3>2. \A i \in 1..Len(queue) : Switching(i)' <=> Switching(i)
      BY <2>1, <2>2 DEF Switching
    <3> QED BY <1>5, <2>1, <3>1, <3>2
  <2>3. CASE mu.by = "switch"
    <3> DEFINE m == Len(queue) - 1
    <3>1. /\ UNCHANGED fl /\ Len(queue) > 1 /\ tabs[queue[m]].writers > 0
          /\ tabs'[queue[m]].writers = tabs[queue[m]].writers - 1
          /\ \A t \in DOMAIN tabs : t # queue[m] => tabs'[t].writers = tabs[t].writers
      BY <1>0, <1>13, <2>3, UpdateEndFact
    <3>2. m \in 1..Len(queue) /\ m # Len(queue) /\ \A i \in 1..Len(queue) : Switching(i) <=> i = m
      <4>1. Len(queue) - 1 \in 1..Len(queue) /\ Len(queue) - 1 # Len(queue)
        <5>1. Len(queue) > 1 /\ Len(queue) \in Nat
          BY <1>1, <3>1
        <5> QED BY <5>1
      <4>2. \A i : Switching(i) <=> i = Len(queue) - 1
        BY <2>1, <2>3 DEF Switching
      <4> QED BY <4>1, <4>2
    <3>3. \A i \in 1..Len(queue) : ~Switching(i)'
      BY <2>1 DEF Switching
    <3> HIDE DEF m
    <3>4. ASSUME NEW i \in 1..Len(queue) PROVE tabs'[queue[i]].writers = Writers(i)'
      <4>1. CASE i = m
        <5>1. Writers(i) = 1 + (IF wr.mem = queue[i] THEN 1 ELSE 0)
          BY <3>2, <4>1 DEF Writers
        <5>2. Writers(i)' = 0 + (IF wr.mem = queue[i] THEN 1 ELSE 0)
          BY <2>1, <3>2, <3>3, <4>1 DEF Writers
        <5> QED BY <1>2, <3>1, <4>1, <5>1, <5>2
      <4>2. CASE i # m
        <5>1. Writers(i)' = Writers(i)
          BY <2>1, <3>2, <3>3, <4>2 DEF Writers
        <5>2. queue[i] # queue[m] /\ queue[i] \in DOMAIN tabs
          BY <1>1, <3>2, <4>2
        <5> QED BY <1>2, <3>1, <5>1, <5>2
      <4> QED BY <4>1, <4>2
    <3>5. fl'.pc \in {"build", "install"} => \A i \in 1..fl'.n : tabs'[queue[i]].writers = 0
      BY <1>1, <1>2, <1>4, <3>1
    <3> QED BY <1>1, <1>2, <2>1, <3>4, <3>5 DEF WriterInv, Writers
  <2> QED BY <2>2, <2>3
<1>14. ASSUME NEW k \in Keys, Write(k) PROVE WriterInv'
  <2> DEFINE m == Len(queue)
  <2>1. /\ m > 0 /\ tabs'[queue[m]].writers = tabs[queue[m]].writers + 1
        /\ \A t \in DOMAIN tabs : t # queue[m] => tabs'[t].writers = tabs[t].writers
        /\ wr'.mem = queue[m] /\ wr.mem = 0
    BY <1>0, <1>14, WriteFact
  <2>2. UNCHANGED <<queue, mu, fl>>
    BY <1>14 DEF Write
  <2>3. m \in 1..Len(queue)
    BY <1>1, <2>1
  <2>4. ASSUME NEW i \in 1..Len(queue) PROVE tabs'[queue[i]].writers = Writers(i)'
    <3>0. Switching(i)' <=> Switching(i)
      BY <2>2 DEF Switching
    <3>1. CASE i = m
      <4>1. Writers(i) = 1
        BY <1>1, <2>1, <3>1 DEF Writers
      <4>2. Writers(i)' = 2
        BY <2>1, <2>2, <3>1 DEF Writers
      <4> QED BY <1>2, <2>1, <3>1, <4>1, <4>2
    <3>2. CASE i # m
      <4>1. queue[i] # queue[m] /\ queue[i] \in DOMAIN tabs
        BY <1>1, <2>3, <3>2
      <4>2. Writers(i)' = Writers(i)
        BY <1>1, <2>1, <2>2, <3>0, <4>1 DEF Writers
      <4> QED BY <1>2, <2>1, <4>1, <4>2
    <3> QED BY <3>1, <3>2
  <2>5. fl'.pc \in {"build", "install"} => \A i \in 1..fl'.n : tabs'[queue[i]].writers = 0
    <3> SUFFICES ASSUME fl.pc \in {"build", "install"}, NEW i \in 1..fl.n
                 PROVE  tabs'[queue[i]].writers = 0
      BY <2>2
    <3>0. fl.n \in Nat /\ fl.n < Len(queue) /\ Len(queue) \in Nat
      BY <1>1, <1>4
    <3>1. i \in 1..Len(queue) /\ i # m
      BY <3>0
    <3>2. queue[i] # queue[m] /\ queue[i] \in DOMAIN tabs
      BY <1>1, <2>3, <3>1
    <3> QED BY <1>2, <2>1, <3>2
  <2>6. wr'.mem \in Range(queue')
    BY <1>1, <2>1, <2>2, <2>3 DEF Range
  <2> QED BY <1>1, <2>2, <2>4, <2>5, <2>6 DEF WriterInv, Writers
<1>15. CASE SwitchMem
  <2> DEFINE m == Len(queue)
             x == Len(tabs) + 1
  <2>1. /\ mu.pc = "free" /\ x \notin DOMAIN tabs /\ tabs'[x].writers = 1
        /\ mu' = [pc |-> "swap", old |-> val, by |-> "switch"]
        /\ Range(queue') = Range(queue) \cup {x} /\ queue' \in Seq(Nat)
        /\ Len(queue') = m + 1 /\ queue'[m + 1] = x /\ \A i \in 1..m : queue'[i] = queue[i]
    BY <1>0, <1>15, SwitchFact
  <2>2. \A t \in DOMAIN tabs : tabs'[t].writers = tabs[t].writers
    BY <1>0, <1>15, SwitchFact DEF More
  <2>3. UNCHANGED <<wr, fl>> /\ mu'.pc = "swap" /\ mu'.by = "switch"
    BY <1>15, <2>1 DEF SwitchMem
  <2> HIDE DEF x
  <2>4. DOMAIN queue' = 1..(m + 1) /\ \A i \in 1..(m + 1) : i \in 1..m \/ i = m + 1
    BY <1>1, <2>1
  <2>5. wr.mem # x
    <3>1. x # 0
      BY <1>0, <1>15, SwitchFact DEF x
    <3>2. Range(queue) \subseteq DOMAIN tabs
      BY <1>0, QueueFact
    <3> QED BY <1>2, <2>1, <3>1, <3>2
  <2>6. ASSUME NEW i \in 1..(m + 1) PROVE tabs'[queue'[i]].writers = Writers(i)'
    <3>1. CASE i = m + 1
      <4>1. Writers(i)' = 1
        BY <2>1, <2>3, <2>5, <3>1 DEF Writers
      <4> QED BY <2>1, <3>1, <4>1
    <3>2. CASE i \in 1..m
      <4>1. queue'[i] = queue[i] /\ queue[i] \in DOMAIN tabs /\ i # m + 1
        BY <1>1, <2>1, <3>2
      <4>2. Switching(i)' <=> i = m
        BY <1>1, <2>1, <2>3 DEF Switching
      <4>3. ~Switching(i)
        BY <2>1 DEF Switching
      <4>4. Writers(i)' = Writers(i)
        BY <2>1, <2>3, <4>1, <4>2, <4>3 DEF Writers
      <4> QED BY <1>2, <2>2, <3>2, <4>1, <4>4
    <3> QED BY <2>4, <3>1, <3>2
  <2>7. fl'.pc \in {"build", "install"} => \A i \in 1..fl'.n : tabs'[queue'[i]].writers = 0
    BY <1>1, <1>2, <1>4, <2>1, <2>2, <2>3
  <2>8. wr'.mem # 0 => wr'.mem \in Range(queue')
    BY <1>2, <2>1, <2>3
  <2> QED BY <2>4, <2>6, <2>7, <2>8 DEF WriterInv, Writers
<1>16. CASE Apply
  <2> DEFINE x == wr.mem
  <2>1. /\ x \in Range(queue) /\ tabs'[x].writers = tabs[x].writers - 1 /\ tabs[x].writers > 0
        /\ \A t \in DOMAIN tabs : t # x => tabs'[t].writers = tabs[t].writers
        /\ wr'.mem = 0
    BY <1>0, <1>16, ApplyFact
  <2>2. UNCHANGED <<queue, mu, fl>>
    BY <1>16 DEF Apply
  <2>3. ASSUME NEW i \in 1..Len(queue) PROVE tabs'[queue[i]].writers = Writers(i)'
    <3>0. Switching(i)' <=> Switching(i)
      BY <2>2 DEF Switching
    <3>1. Writers(i)' = IF i = Len(queue) \/ Switching(i) THEN 1 ELSE 0
      BY <1>1, <2>1, <2>2, <3>0 DEF Writers
    <3>2. tabs[queue[i]].writers = Writers(i) /\ queue[i] \in DOMAIN tabs
      BY <1>1, <1>2
    <3>3. CASE queue[i] = x
      <4>1. Writers(i) = (IF i = Len(queue) \/ Switching(i) THEN 1 ELSE 0) + 1
        BY <3>3 DEF Writers
      <4> QED BY <2>1, <3>1, <3>2, <3>3, <4>1
    <3>4. CASE queue[i] # x
      <4>1. Writers(i) = (IF i = Len(queue) \/ Switching(i) THEN 1 ELSE 0)
        BY <3>4 DEF Writers
      <4> QED BY <2>1, <3>1, <3>2, <3>4, <4>1
    <3> QED BY <3>3, <3>4
  <2>4. fl'.pc \in {"build", "install"} => \A i \in 1..fl'.n : tabs'[queue[i]].writers = 0
    BY <1>1, <1>2, <1>4, <2>1, <2>2
  <2> QED BY <1>1, <2>1, <2>2, <2>3, <2>4 DEF WriterInv, Writers
<1>17. CASE FlushStart
  <2>1. /\ status = "open" /\ fl'.n = Ready /\ UNCHANGED <<tabs, queue, wr, mu>>
    BY <1>17 DEF FlushStart
  <2>2. Len(queue) > 0
    BY <2>1 DEF PhaseInv
  <2>3. \A i \in 1..Ready : i \in 1..Len(queue) /\ ~(tabs[queue[i]].writers > 0)
    BY <1>0, <2>2, ReadyFact
  <2>4. \A i \in 1..Ready : tabs[queue[i]].writers = 0
    <3> SUFFICES ASSUME NEW i \in 1..Ready PROVE tabs[queue[i]].writers = 0
      OBVIOUS
    <3>1. tabs[queue[i]].writers \in Nat
      BY <1>1, <1>3, <2>3
    <3> QED BY <2>3, <3>1
  <2>5. \A i \in 1..Len(queue) : Writers(i)' = Writers(i)
    BY <2>1 DEF Writers, Switching
  <2> QED BY <1>1, <1>2, <2>1, <2>4, <2>5 DEF WriterInv, Writers
<1>18. CASE FlushInstall
  <2> DEFINE n == fl.n
             m == Len(queue) - n
  <2>1. /\ mu.pc = "free" /\ fl.pc = "install" /\ fl'.pc = "update"
        /\ mu' = [pc |-> "swap", old |-> val, by |-> "flush"]
        /\ queue' \in Seq(Nat) /\ Len(queue') = m
        /\ \A i \in 1..Len(queue') : queue'[i] = queue[i + n]
    BY <1>0, <1>18, InstallFact
  <2>2. \A t \in DOMAIN tabs : tabs'[t].writers = tabs[t].writers
    BY <1>0, <1>18, InstallFact DEF More
  <2>3. UNCHANGED wr /\ mu'.by = "flush"
    BY <1>18, <2>1 DEF FlushInstall
  <2>4. n \in Nat /\ n < Len(queue) /\ m \in Nat /\ DOMAIN queue' = 1..m
    BY <1>1, <1>4, <2>1
  <2>5. Len(queue) = m + n
    BY <1>1, <2>4
  <2> HIDE DEF m, n
  <2>6. \A i \in 1..m : i + n \in 1..Len(queue) /\ (i + n = Len(queue) <=> i = m)
    BY <2>4, <2>5
  <2>7. ASSUME NEW i \in 1..m PROVE tabs'[queue'[i]].writers = Writers(i)'
    <3>1. queue'[i] = queue[i + n] /\ queue[i + n] \in DOMAIN tabs
          /\ tabs[queue[i + n]].writers = Writers(i + n)
      BY <1>1, <1>2, <2>1, <2>6
    <3>2. ~Switching(i)' /\ ~Switching(i + n)
      BY <2>1, <2>3 DEF Switching
    <3>3. Writers(i)' = (IF i = m THEN 1 ELSE 0) + (IF wr.mem = queue[i + n] THEN 1 ELSE 0)
      BY <2>1, <2>3, <3>1, <3>2 DEF Writers
    <3>4. Writers(i + n) = (IF i = m THEN 1 ELSE 0) + (IF wr.mem = queue[i + n] THEN 1 ELSE 0)
      BY <2>6, <3>2 DEF Writers
    <3> QED BY <2>2, <3>1, <3>3, <3>4
  <2>8. ASSUME wr.mem # 0 PROVE wr.mem \in Range(queue')
    <3>1. PICK j \in 1..Len(queue) : queue[j] = wr.mem
      BY <1>1, <1>2, <2>8 DEF Range
    <3>2. Writers(j) # 0
      BY <3>1 DEF Writers
    <3>3. j \notin 1..n
      BY <1>2, <2>1, <3>2 DEF n
    <3>4. j - n \in 1..m /\ (j - n) + n = j
      BY <1>1, <2>4, <2>5, <3>3
    <3>5. queue'[j - n] = wr.mem
      BY <2>1, <3>1, <3>4
    <3> QED BY <2>4, <3>4, <3>5 DEF Range
  <2> QED BY <2>1, <2>3, <2>4, <2>7, <2>8 DEF WriterInv, Writers
<1>19. CASE CloseQueue
  <2>1. status = "closing" /\ queue' = <<>> /\ UNCHANGED <<fl, wr>>
    BY <1>19 DEF CloseQueue
  <2>2. fl.pc = "none" /\ wr.mem = 0
    BY <2>1 DEF PhaseInv
  <2> QED BY <2>1, <2>2 DEF WriterInv
<1> QED
  BY <1>6, <1>7, <1>8, <1>9, <1>10, <1>11, <1>12, <1>13, <1>14, <1>15, <1>16, <1>17, <1>18,
     <1>19 DEF Next
\* Whose own a table is: the queue's, arrtable's, a flush's or nobody's any more.
Owners == Range(queue) \cup {arr, fl.new} \cup orphans

\* A table that has left its place does not come back.
LEMMA OwnersStep ==
  ASSUME IInv, [Next]_vars, NEW t \in DOMAIN tabs, t \in Owners'
  PROVE  t \in Owners
<1> USE DEF IInv
<1>0. TypeInv /\ PlaceInv /\ PhaseInv /\ DropsInv /\ StateInv /\ CountInv /\ WriterInv
  OBVIOUS
<1>1. t # 0
  BY <1>0, QueueFact
<1>2. CASE Still
  BY <1>2 DEF Still, Owners
<1>3. CASE UpdateEnd
  <2>1. fl'.new = fl.new
    BY <1>0, <1>3, UpdateEndFact
  <2> QED BY <1>3, <2>1 DEF UpdateEnd, Owners
<1>4. CASE SwitchMem
  <2> DEFINE x == Len(tabs) + 1
  <2>1. Range(queue') = Range(queue) \cup {x} /\ x \notin DOMAIN tabs /\ arr' = arr
    BY <1>0, <1>4, SwitchFact
  <2> HIDE DEF x
  <2>2. UNCHANGED <<fl, orphans>>
    BY <1>4 DEF SwitchMem
  <2> QED BY <2>1, <2>2 DEF Owners
<1>5. CASE FlushStart \/ FlushEnd
  <2>1. fl'.new = 0 /\ UNCHANGED <<queue, arr, orphans>>
    BY <1>5 DEF FlushStart, FlushEnd, IdleFlush
  <2> QED BY <1>1, <2>1 DEF Owners
<1>6. CASE FlushBuild
  <2> DEFINE x == Len(tabs) + 1
  <2>1. /\ x \notin DOMAIN tabs
        /\ \/ orphans' = orphans \cup {x} /\ fl' = IdleFlush
           \/ UNCHANGED orphans /\ fl'.new = x
    BY <1>0, <1>6, BuildFact
  <2> HIDE DEF x
  <2>2. UNCHANGED <<queue, arr>> /\ IdleFlush.new = 0
    BY <1>6 DEF FlushBuild, IdleFlush
  <2> QED BY <1>1, <2>1, <2>2 DEF Owners
<1>7. CASE FlushInstall
  <2>1. Range(queue') \subseteq Range(queue)
    BY <1>0, <1>7, InstallFact
  <2>2. arr' = fl.new /\ fl'.new = fl.new
    BY <1>0, <1>7, InstallFact
  <2>3. UNCHANGED orphans
    BY <1>7 DEF FlushInstall
  <2> QED BY <2>1, <2>2, <2>3 DEF Owners
<1>8. CASE FlushRefused
  <2>1. fl'.new = 0 /\ orphans' = orphans \cup {fl.new} /\ UNCHANGED <<queue, arr>>
    BY <1>8 DEF FlushRefused, IdleFlush
  <2> QED BY <1>1, <2>1 DEF Owners
<1>9. CASE CloseQueue
  <2>1. queue' = <<>> /\ arr' = 0 /\ UNCHANGED <<fl, orphans>> /\ Range(<<>>) = {}
    BY <1>9 DEF CloseQueue, Range
  <2> QED BY <1>1, <2>1 DEF Owners
<1> QED BY <1>2, <1>3, <1>4, <1>5, <1>6, <1>7, <1>8, <1>9, PlaceKinds

\* One table's memory and file.
Kept(t) == /\ tabs[t].live <=> tabs[t].refs > 0
           /\ tabs[t].kind = "arr" /\ tabs[t].refs > 0 => tabs[t].file
           /\ tabs[t].kind = "mem" => ~tabs[t].file
           /\ tabs[t].obsolete /\ tabs[t].refs = 0 => ~tabs[t].file
           /\ tabs[t].obsolete => t \notin Owners

\* Memory and files go with the last reference and not before.
LEMMA LiveStep ==
  ASSUME IInv, [Next]_vars
  PROVE  LiveInv'
<1> USE DEF IInv
<1>0. TypeInv /\ PlaceInv /\ PhaseInv /\ DropsInv /\ StateInv /\ CountInv /\ WriterInv
  OBVIOUS
<1> SUFFICES ASSUME NEW t \in DOMAIN tabs' PROVE Kept(t)'
  BY DEF LiveInv, Kept, Owners
<1>1. \A u \in DOMAIN tabs : Kept(u) /\ tabs[u].refs \in Nat
  BY DEF LiveInv, Kept, Owners, TypeInv
<1>2. t \in DOMAIN tabs /\ t \in Owners' => t \in Owners
  BY OwnersStep
<1>3. CASE SameTabs
  BY <1>1, <1>2, <1>3 DEF SameTabs, Kept
<1>4. CASE UNCHANGED tabs
  BY <1>1, <1>2, <1>4 DEF Kept
<1>5. ASSUME NEW a \in Actors, Drop(a) PROVE Kept(t)'
  <2> DEFINE x == Head(drops[a])
  <2>1. /\ x \in Range(drops[a]) /\ x \in DOMAIN tabs /\ tabs[x].refs > 0
        /\ DOMAIN tabs' = DOMAIN tabs
        /\ \A u \in DOMAIN tabs : u # x => tabs'[u] = tabs[u]
        /\ tabs'[x].kind = tabs[x].kind
        /\ tabs'[x].refs = tabs[x].refs - 1
        /\ tabs'[x].live <=> tabs[x].live /\ tabs[x].refs > 1
        /\ a # "flush" => /\ tabs'[x].obsolete = tabs[x].obsolete
                          /\ tabs'[x].file <=> tabs[x].file /\ ~(tabs[x].refs = 1 /\ tabs[x].obsolete)
        /\ a = "flush" => tabs'[x].obsolete /\ (tabs'[x].file <=> tabs[x].file /\ ~(tabs[x].refs = 1))
    BY <1>0, <1>5, DropFact
  <2> HIDE DEF x
  <2>2. CASE t # x
    BY <1>1, <1>2, <2>1, <2>2 DEF Kept
  <2>3. CASE t = x
    <3>1. Kept(t) /\ tabs[t].refs \in Nat
      BY <1>1, <2>1, <2>3
    <3>2. a = "flush" => t \notin Owners
      BY <2>1, <2>3 DEF DropsInv, Owners
    <3>3. tabs'[t].live <=> tabs'[t].refs > 0
      BY <2>1, <2>3, <3>1 DEF Kept
    <3>4. tabs'[t].kind = "arr" /\ tabs'[t].refs > 0 => tabs'[t].file
      BY <2>1, <2>3, <3>1 DEF Kept
    <3>5. tabs'[t].kind = "mem" => ~tabs'[t].file
      BY <2>1, <2>3, <3>1 DEF Kept
    <3>6. tabs'[t].obsolete /\ tabs'[t].refs = 0 => ~tabs'[t].file
      <4> SUFFICES ASSUME tabs'[t].obsolete, tabs'[t].refs = 0 PROVE ~tabs'[t].file
        OBVIOUS
      <4>1. tabs[t].refs = 1
        BY <2>1, <2>3, <3>1
      <4>2. CASE a = "flush"
        BY <2>1, <2>3, <4>1, <4>2
      <4>3. CASE a # "flush"
        BY <2>1, <2>3, <4>1, <4>3
      <4> QED BY <4>2, <4>3
    <3>7. tabs'[t].obsolete => t \notin Owners'
      BY <1>2, <2>1, <2>3, <3>1, <3>2 DEF Kept
    <3> QED BY <3>3, <3>4, <3>5, <3>6, <3>7 DEF Kept
  <2> QED BY <2>2, <2>3
<1>6. UpdateEnd => SameTabs
  BY <1>0, UpdateEndFact
<1>7. \A k \in Keys : Write(k) => SameTabs
  BY <1>0, WriteFact
<1>8. Apply => SameTabs
  BY <1>0, ApplyFact
<1>9. ASSUME NEW ids, More(ids), t \in DOMAIN tabs, t \in ids => t \in Owners PROVE Kept(t)'
  <2>1. /\ tabs'[t].kind = tabs[t].kind /\ tabs'[t].live = tabs[t].live
        /\ tabs'[t].obsolete = tabs[t].obsolete /\ tabs'[t].file = tabs[t].file
        /\ tabs'[t].refs = IF t \in ids THEN tabs[t].refs + 1 ELSE tabs[t].refs
    BY <1>9 DEF More
  <2>2. t \in ids => tabs[t].refs > 0
    BY <1>0, <1>9, CountPositive DEF Owners
  <2>3. Kept(t) /\ tabs[t].refs \in Nat
    BY <1>1, <1>9
  <2>4. tabs'[t].refs > 0 <=> tabs[t].refs > 0
    BY <2>1, <2>2, <2>3
  <2>5. tabs'[t].refs = 0 => tabs[t].refs = 0
    BY <2>1, <2>2, <2>3
  <2> HIDE DEF IInv
  <2> QED BY <1>2, <1>9, <2>1, <2>3, <2>4, <2>5 DEF Kept
<1>10. CASE SwitchMem
  <2> DEFINE x == Len(tabs) + 1
             ids == Range(queue) \cup ({arr} \ {0})
  <2>1. /\ DOMAIN tabs' = DOMAIN tabs \cup {x} /\ More(ids)
        /\ tabs'[x].kind = "mem" /\ tabs'[x].refs = 2
        /\ tabs'[x].live = TRUE /\ tabs'[x].obsolete = FALSE /\ tabs'[x].file = FALSE
    BY <1>0, <1>10, SwitchFact
  <2>2. ids \subseteq Owners
    BY DEF Owners
  <2> HIDE DEF x, ids
  <2>3. CASE t = x
    BY <2>1, <2>3 DEF Kept
  <2>4. CASE t # x
    <3>1. t \in DOMAIN tabs
      BY <2>1, <2>4
    <3> QED BY <1>9, <2>1, <2>2, <3>1
  <2> QED BY <2>3, <2>4
<1>11. CASE FlushBuild
  <2> DEFINE x == Len(tabs) + 1
  <2>1. /\ DOMAIN tabs' = DOMAIN tabs \cup {x} /\ \A u \in DOMAIN tabs : tabs'[u] = tabs[u]
        /\ tabs'[x].kind = "arr" /\ tabs'[x].refs = 1
        /\ tabs'[x].live = TRUE /\ tabs'[x].obsolete = FALSE /\ tabs'[x].file = TRUE
    BY <1>0, <1>11, BuildFact
  <2> HIDE DEF x
  <2>2. CASE t = x
    BY <2>1, <2>2 DEF Kept
  <2>3. CASE t # x
    BY <1>1, <1>2, <2>1, <2>3 DEF Kept
  <2> QED BY <2>2, <2>3
<1>12. CASE FlushInstall
  <2> DEFINE ids == Range(queue') \cup {fl.new}
  <2>1. DOMAIN tabs' = DOMAIN tabs /\ More(ids)
    BY <1>0, <1>12, InstallFact
  <2>2. Range(queue') \subseteq Range(queue)
    BY <1>0, <1>12, InstallFact
  <2>3. ids \subseteq Owners
    BY <2>2 DEF Owners
  <2> HIDE DEF ids
  <2> QED BY <1>9, <2>1, <2>3
<1> QED BY <1>3, <1>4, <1>5, <1>6, <1>7, <1>8, <1>10, <1>11, <1>12, StepKinds
\* A file that lasts has lasted, until a flush ends.
LEMMA LastingStep ==
  ASSUME IInv, [Next]_vars, NEW t \in DOMAIN tabs', Lasting(t)'
  PROVE  \/ t \in DOMAIN tabs /\ Lasting(t)
         \/ FlushEnd /\ t = arr
<1> USE DEF IInv
<1>0. TypeInv /\ PlaceInv /\ PhaseInv /\ DropsInv /\ StateInv /\ CountInv /\ WriterInv
  OBVIOUS
<1> DEFINE W == orphans \cup {fl.new} \cup Range(drops["flush"])
<1>1. /\ tabs'[t].file /\ ~tabs'[t].obsolete
      /\ t \notin orphans' /\ t # fl'.new /\ t \notin Range(drops'["flush"])
  BY DEF Lasting
<1>2. \A u \in DOMAIN tabs : tabs[u].file /\ ~tabs[u].obsolete /\ u \notin W => Lasting(u)
  BY DEF Lasting
<1>3. t \in DOMAIN tabs => t # 0
  BY <1>0, QueueFact
<1>4. SameTabs => t \in DOMAIN tabs /\ tabs[t].file /\ ~tabs[t].obsolete
  BY <1>1 DEF SameTabs
<1>5. UNCHANGED tabs => t \in DOMAIN tabs /\ tabs[t].file /\ ~tabs[t].obsolete
  BY <1>1
<1>6. \A ids : More(ids) /\ t \in DOMAIN tabs => tabs[t].file /\ ~tabs[t].obsolete
  BY <1>1 DEF More
<1>7. CASE UNCHANGED <<tabs, drops, orphans>> /\ fl'.new = fl.new
  BY <1>1, <1>2, <1>5, <1>7
<1>8. ASSUME NEW a \in Actors, Drop(a) PROVE t \in DOMAIN tabs /\ Lasting(t)
  <2> DEFINE x == Head(drops[a])
  <2>1. /\ DOMAIN tabs' = DOMAIN tabs
        /\ \A u \in DOMAIN tabs : u # x => tabs'[u] = tabs[u]
        /\ a # "flush" => /\ tabs'[x].obsolete = tabs[x].obsolete
                          /\ tabs'[x].file <=> tabs[x].file /\ ~(tabs[x].refs = 1 /\ tabs[x].obsolete)
        /\ a = "flush" => tabs'[x].obsolete
        /\ Range(drops'[a]) = Range(drops[a]) \ {x}
        /\ \A b \in Actors : b # a => drops'[b] = drops[b]
    BY <1>0, <1>8, DropFact
  <2> HIDE DEF x
  <2>2. UNCHANGED <<fl, orphans>>
    BY <1>8 DEF Drop
  <2>3. tabs[t].file /\ ~tabs[t].obsolete /\ (a = "flush" => t # x)
    BY <1>1, <2>1
  <2>4. t \notin Range(drops["flush"])
    BY <1>1, <2>1, <2>3, ActorFact
  <2> QED BY <1>1, <1>2, <2>1, <2>2, <2>3, <2>4
<1>9. ASSUME UNCHANGED <<orphans>>, fl'.new = fl.new, drops'["flush"] = drops["flush"],
             SameTabs \/ UNCHANGED tabs
      PROVE  t \in DOMAIN tabs /\ Lasting(t)
  BY <1>1, <1>2, <1>4, <1>5, <1>9
<1>10. CASE UpdateEnd
  <2>1. fl'.new = fl.new /\ SameTabs
    BY <1>0, <1>10, UpdateEndFact
  <2> QED BY <1>9, <1>10, <2>1 DEF UpdateEnd
<1>11. ASSUME NEW k \in Keys, Write(k) PROVE t \in DOMAIN tabs /\ Lasting(t)
  <2>1. SameTabs
    BY <1>0, <1>11, WriteFact
  <2> QED BY <1>9, <1>11, <2>1 DEF Write
<1>12. CASE Apply
  <2>1. SameTabs
    BY <1>0, <1>12, ApplyFact
  <2> QED BY <1>9, <1>12, <2>1 DEF Apply
<1>13. CASE UpdateSwap \/ (\E r \in Readers : Load(r)) \/ UNCHANGED vars
  BY <1>9, <1>13 DEF UpdateSwap, Load, vars
<1>14. ASSUME NEW s, NEW a, Gives(s, a), a # "flush", UNCHANGED <<orphans, fl, tabs>>
       PROVE  t \in DOMAIN tabs /\ Lasting(t)
  <2>1. drops'["flush"] = drops["flush"]
    BY <1>0, <1>14, GaveFact, ActorFact
  <2> QED BY <1>9, <1>14, <2>1
<1>15. CASE UpdateUnref
  BY <1>0, <1>14, <1>15, GivesFact DEF UpdateUnref
<1>16. ASSUME NEW r \in Readers, CloseReader(r) PROVE t \in DOMAIN tabs /\ Lasting(t)
  BY <1>0, <1>14, <1>16, GivesFact, ActorFact DEF CloseReader
<1>17. CASE Close
  BY <1>0, <1>14, <1>17, GivesFact DEF Close
<1>18. CASE CloseQueue
  <2>1. drops'["flush"] = drops["flush"] /\ UNCHANGED <<orphans, fl, tabs>>
    BY <1>18 DEF CloseQueue
  <2> QED BY <1>9, <2>1
<1>19. CASE SwitchMem
  <2> DEFINE x == Len(tabs) + 1
             ids == Range(queue) \cup ({arr} \ {0})
  <2>1. DOMAIN tabs' = DOMAIN tabs \cup {x} /\ More(ids) /\ tabs'[x].file = FALSE
    BY <1>0, <1>19, SwitchFact
  <2> HIDE DEF x, ids
  <2>2. t \in DOMAIN tabs
    BY <1>1, <2>1
  <2>3. UNCHANGED <<orphans, fl, drops>>
    BY <1>19 DEF SwitchMem
  <2> QED BY <1>1, <1>2, <1>6, <2>1, <2>2, <2>3
<1>20. CASE FlushStart
  <2>1. fl.new = 0 /\ UNCHANGED <<tabs, drops, orphans>> /\ fl'.new = 0
    BY <1>20 DEF FlushStart, PhaseInv
  <2> QED BY <1>7, <2>1
<1>21. CASE FlushBuild
  <2> DEFINE x == Len(tabs) + 1
  <2>1. /\ DOMAIN tabs' = DOMAIN tabs \cup {x} /\ \A u \in DOMAIN tabs : tabs'[u] = tabs[u]
        /\ fl.pc = "build"
        /\ \/ orphans' = orphans \cup {x} /\ fl' = IdleFlush
           \/ UNCHANGED orphans /\ fl'.new = x
    BY <1>0, <1>21, BuildFact
  <2> HIDE DEF x
  <2>2. fl.new = 0 /\ UNCHANGED drops
    BY <1>21, <2>1 DEF FlushBuild, PhaseInv
  <2>3. t \in DOMAIN tabs
    BY <1>1, <2>1
  <2> QED BY <1>1, <1>2, <1>3, <2>1, <2>2, <2>3
<1>22. CASE FlushInstall
  <2> DEFINE ids == Range(queue') \cup {fl.new}
  <2>1. DOMAIN tabs' = DOMAIN tabs /\ More(ids) /\ fl'.new = fl.new /\ fl.pc = "install"
    BY <1>0, <1>22, InstallFact
  <2> HIDE DEF ids
  <2>2. drops["flush"] = <<>> /\ UNCHANGED orphans /\ Range(<<>>) = {}
    BY <1>22, <2>1 DEF DropsInv, FlushInstall, Range
  <2>3. tabs[t].file /\ ~tabs[t].obsolete
    BY <1>6, <2>1
  <2> QED BY <1>1, <1>2, <2>1, <2>2, <2>3
<1>23. CASE FlushRefused
  <2>1. orphans' = orphans \cup {fl.new} /\ UNCHANGED <<tabs, drops>>
    BY <1>23 DEF FlushRefused
  <2> QED BY <1>1, <1>2, <1>5, <2>1
<1>24. CASE FlushEnd
  <2>1. UNCHANGED <<tabs, drops, orphans>> /\ fl.new = arr
    BY <1>24 DEF FlushEnd, PhaseInv
  <2> QED BY <1>1, <1>2, <1>5, <1>24, <2>1
<1> HIDE DEF W
<1> QED
  BY <1>8, <1>10, <1>11, <1>12, <1>13, <1>15, <1>16, <1>17, <1>18, <1>19, <1>20, <1>21, <1>22,
     <1>23, <1>24 DEF Next

\* At most one file lasts, and while the DB is not closed it is arrtable's.
LEMMA FileStep ==
  ASSUME IInv, [Next]_vars
  PROVE  FileInv'
<1> USE DEF IInv
<1>0. TypeInv /\ PlaceInv /\ PhaseInv /\ DropsInv /\ StateInv /\ CountInv /\ WriterInv
  OBVIOUS
<1>1. \A t \in DOMAIN tabs : Lasting(t) =>
        (status # "closed" => t = arr) /\ \A u \in DOMAIN tabs : Lasting(u) => u = t
  BY DEF FileInv
<1>2. FlushEnd => status # "closed" /\ arr' = arr
  BY DEF FlushEnd, PhaseInv
<1>3. CASE status' # "closed"
  <2>1. status # "closed"
    BY <1>3 DEF Next, vars, Drop, UpdateSwap, UpdateUnref, UpdateEnd, Load, CloseReader, Write,
                SwitchMem, Apply, FlushStart, FlushBuild, FlushInstall, FlushRefused, FlushEnd,
                Close, CloseQueue
  <2>2. ASSUME NEW t \in DOMAIN tabs', Lasting(t)' PROVE t = arr'
    <3>1. (t \in DOMAIN tabs /\ Lasting(t)) \/ (FlushEnd /\ t = arr)
      BY <2>2, LastingStep
    <3>2. t = arr
      BY <1>1, <2>1, <3>1
    <3>3. CASE FlushInstall
      <4>1. Range(drops'["flush"]) = Range(SubSeq(queue, 1, fl.n)) \cup ({arr} \ {0})
            /\ DOMAIN tabs' = DOMAIN tabs
        BY <1>0, <3>3, InstallFact
      <4>2. t # 0
        BY <1>0, <4>1, QueueFact
      <4>3. t \in Range(drops'["flush"])
        BY <3>2, <4>1, <4>2
      <4> QED BY <2>2, <4>3 DEF Lasting
    <3>4. CASE ~FlushInstall
      <4>1. ~CloseQueue
        BY <1>3 DEF CloseQueue
      <4>2. SwitchMem => arr' = arr
        BY <1>0, SwitchFact
      <4>3. (Still \/ UpdateEnd \/ FlushStart \/ FlushRefused \/ FlushEnd) => arr' = arr
        BY DEF Still, UpdateEnd, FlushStart, FlushRefused, FlushEnd
      <4>4. FlushBuild => arr' = arr
        BY DEF FlushBuild
      <4> QED BY <3>2, <3>4, <4>1, <4>2, <4>3, <4>4, PlaceKinds
    <3> QED BY <3>3, <3>4
  <2> QED BY <1>3, <2>2 DEF FileInv
<1>4. CASE status' = "closed"
  <2>1. ~FlushEnd
    BY <1>2, <1>4 DEF FlushEnd
  <2>2. \A t \in DOMAIN tabs' : Lasting(t)' => t \in DOMAIN tabs /\ Lasting(t)
    BY <2>1, LastingStep
  <2>3. \A t \in DOMAIN tabs' : Lasting(t)' => \A u \in DOMAIN tabs' : Lasting(u)' => u = t
    BY <1>1, <2>2
  <2> QED BY <1>4, <2>3 DEF FileInv
<1> QED BY <1>3, <1>4
-----------------------------------------------------------------------------
(***************************************************************************)
(* The start, and the theorems.                                            *)
(***************************************************************************)

\* What newPlainDB leaves, with or without an array table of an earlier life.
LEMMA InitFact ==
  ASSUME Init
  PROVE  /\ \/ arr = 0 /\ DOMAIN tabs = {1}
            \/ /\ arr = 2 /\ DOMAIN tabs = {1, 2} /\ tabs[2].kind = "arr"
               /\ DOMAIN tabs[2] = Fields /\ tabs[2].refs = 2 /\ tabs[2].writers = 0
               /\ tabs[2].live = TRUE /\ tabs[2].obsolete = FALSE /\ tabs[2].file = TRUE
         /\ tabs \in Seq(Range(tabs))
         /\ DOMAIN tabs[1] = Fields /\ tabs[1].kind = "mem" /\ tabs[1].refs = 2
         /\ tabs[1].live = TRUE /\ tabs[1].obsolete = FALSE /\ tabs[1].file = FALSE
         /\ tabs[1].writers = 1
         /\ status = "open" /\ queue = <<1>> /\ val = 1
         /\ states = <<[refs |-> 1, mems |-> <<1>>, arr |-> arr]>>
         /\ mu = Free /\ drops = [a \in Actors |-> <<>>] /\ rd = [r \in Readers |-> IdleReader]
         /\ wr = IdleWriter /\ fl = IdleFlush /\ orphans = {}
<1> DEFINE M == [NewMem EXCEPT !.refs = 2]
           A(b) == [NewArr(b) EXCEPT !.refs = 2]
<1>1. \E b, o : /\ o \in BOOLEAN /\ tabs = (IF o THEN <<M, A(b)>> ELSE <<M>>)
                /\ arr = IF o THEN 2 ELSE 0
  BY Zenon DEF Init
<1>2. /\ status = "open" /\ queue = <<1>> /\ val = 1
      /\ states = <<[refs |-> 1, mems |-> <<1>>, arr |-> arr]>>
      /\ mu = Free /\ drops = [a \in Actors |-> <<>>] /\ rd = [r \in Readers |-> IdleReader]
      /\ wr = IdleWriter /\ fl = IdleFlush /\ orphans = {}
  BY Zenon DEF Init
<1>3. /\ DOMAIN M = Fields /\ M.kind = "mem" /\ M.refs = 2 /\ M.live = TRUE
      /\ M.obsolete = FALSE /\ M.file = FALSE /\ M.writers = 1
  BY DEF NewMem, Fields
<1>4. ASSUME NEW b
      PROVE  /\ DOMAIN A(b) = Fields /\ A(b).kind = "arr" /\ A(b).refs = 2 /\ A(b).live = TRUE
             /\ A(b).obsolete = FALSE /\ A(b).file = TRUE /\ A(b).writers = 0
  BY DEF NewArr, Fields
<1> HIDE DEF M, A
<1>5. PICK b, o : /\ o \in BOOLEAN /\ tabs = (IF o THEN <<M, A(b)>> ELSE <<M>>)
                  /\ arr = IF o THEN 2 ELSE 0
  BY <1>1
<1>6. CASE o
  <2>1. tabs = <<M, A(b)>> /\ arr = 2
    BY <1>5, <1>6
  <2>2. /\ DOMAIN tabs = {1, 2} /\ Len(tabs) = 2 /\ tabs[1] = M /\ tabs[2] = A(b)
    BY <2>1
  <2>3. tabs \in Seq(Range(tabs))
    BY <2>1, <2>2 DEF Range
  <2> QED BY <1>2, <1>3, <1>4, <2>1, <2>2, <2>3
<1>7. CASE ~o
  <2>1. tabs = <<M>> /\ arr = 0
    BY <1>5, <1>7
  <2>2. DOMAIN tabs = {1} /\ Len(tabs) = 1 /\ tabs[1] = M
    BY <2>1
  <2>3. tabs \in Seq(Range(tabs))
    BY <2>1, <2>2 DEF Range
  <2> QED BY <1>2, <1>3, <2>1, <2>2, <2>3
<1> QED BY <1>6, <1>7

\* newPlainDB makes the invariant true.
LEMMA IInit ==
  ASSUME Init
  PROVE  IInv
<1>1. /\ \/ arr = 0 /\ DOMAIN tabs = {1}
         \/ /\ arr = 2 /\ DOMAIN tabs = {1, 2} /\ tabs[2].kind = "arr"
            /\ DOMAIN tabs[2] = Fields /\ tabs[2].refs = 2 /\ tabs[2].writers = 0
            /\ tabs[2].live = TRUE /\ tabs[2].obsolete = FALSE /\ tabs[2].file = TRUE
      /\ tabs \in Seq(Range(tabs))
      /\ DOMAIN tabs[1] = Fields /\ tabs[1].kind = "mem" /\ tabs[1].refs = 2
      /\ tabs[1].live = TRUE /\ tabs[1].obsolete = FALSE /\ tabs[1].file = FALSE
      /\ tabs[1].writers = 1
  BY InitFact
<1>2. /\ status = "open" /\ queue = <<1>> /\ val = 1
      /\ states = <<[refs |-> 1, mems |-> <<1>>, arr |-> arr]>>
      /\ mu = Free /\ drops = [a \in Actors |-> <<>>] /\ rd = [r \in Readers |-> IdleReader]
      /\ wr = IdleWriter /\ fl = IdleFlush /\ orphans = {}
  BY InitFact
<1>3. /\ queue \in Seq(Nat) /\ Len(queue) = 1 /\ DOMAIN queue = {1} /\ queue[1] = 1
      /\ Range(queue) = {1} /\ Injective(queue)
  BY <1>2 DEF Range, Injective
<1>4. arr \in Nat
  BY <1>1
<1>5. /\ states \in Seq(State) /\ Len(states) = 1 /\ DOMAIN states = {1}
      /\ states[1].refs = 1 /\ states[1].mems = queue /\ states[1].arr = arr
  <2> DEFINE e == [refs |-> 1, mems |-> <<1>>, arr |-> arr]
  <2>1. e \in State /\ e.refs = 1 /\ e.mems = <<1>> /\ e.arr = arr
    BY <1>4 DEF State
  <2>2. states = <<e>>
    BY <1>2
  <2> HIDE DEF e
  <2> QED BY <1>2, <2>1, <2>2
<1>6. /\ mu.pc = "free" /\ mu.old = 0 /\ mu.by = "none" /\ mu \in Mu
  BY <1>2 DEF Free, Mu
<1>7. fl.pc = "none" /\ fl.n = 0 /\ fl.new = 0 /\ fl \in Fl
  BY <1>2 DEF IdleFlush, Fl
<1>8. wr.mem = 0 /\ DOMAIN wr = {"mem", "key", "seq"}
  BY <1>2 DEF IdleWriter
<1>9. DOMAIN rd = Readers /\ \A r \in Readers : rd[r].rs = 0
  BY <1>2 DEF IdleReader
<1>10. /\ drops \in [Actors -> Seq(Nat)] /\ \A a \in Actors : drops[a] = <<>>
  BY <1>2
<1>11. Range(<<>>) = {} /\ Injective(<<>>)
  BY DEF Range, Injective
<1>12. TypeInv
  <2>1. \A t \in DOMAIN tabs : /\ DOMAIN tabs[t] = Fields /\ tabs[t].kind \in {"mem", "arr"}
                               /\ tabs[t].refs \in Nat /\ tabs[t].writers \in Nat
    BY <1>1
  <2> QED BY <1>1, <1>2, <1>3, <1>4, <1>5, <1>6, <1>7, <1>8, <1>9, <1>10, <2>1 DEF TypeInv
<1>13. PlaceInv
  <2>1. 1 \in Of("mem") /\ {arr} \ {0} \subseteq Of("arr")
    BY <1>1 DEF Of
  <2> QED BY <1>2, <1>3, <1>5, <1>7, <2>1 DEF PlaceInv
<1>14. PhaseInv
  BY <1>2, <1>3, <1>5, <1>6, <1>7, <1>8 DEF PhaseInv
<1>15. DropsInv
  <2>1. {a \in Actors : drops[a] # <<>>} = {}
    BY <1>10
  <2> QED BY <1>10, <1>11, <2>1, ActorFact, CardFact DEF DropsInv
<1>16. StateInv
  <2>1. {r \in Readers : rd[r].rs # 0} = {} /\ On(1) = {}
    BY <1>9 DEF On
  <2>2. Held(1)
    BY <1>2 DEF Held
  <2>3. Cardinality(On(1)) = 0
    BY <2>1, CardFact
  <2> QED BY <1>5, <1>9, <2>1, <2>2, <2>3, CardFact DEF StateInv
<1>17. CountInv
  <2> SUFFICES ASSUME NEW t \in DOMAIN tabs
               PROVE  tabs[t].refs = Owned(t) + Cardinality(Using(t)) + Cardinality(Dropping(t))
    BY DEF CountInv
  <2>1. Lists(1) = {1} \cup ({arr} \ {0})
    <3>1. Lists(1) = Range(queue \o (IF arr = 0 THEN <<>> ELSE <<arr>>))
      BY <1>5 DEF Lists, Tables
    <3> QED BY <1>3, <1>4, <3>1, ListFact
  <2>2. t \in Lists(1)
    BY <1>1, <2>1
  <2>3. Using(t) = {1}
    BY <1>5, <2>2 DEF Using, InUse
  <2>4. Dropping(t) = {}
    BY <1>10, <1>11 DEF Dropping
  <2>5. Cardinality(Using(t)) = 1
    BY <2>3, FS_Singleton
  <2>6. Cardinality(Dropping(t)) = 0
    BY <2>4, CardFact
  <2>7. Owned(t) = 1 /\ tabs[t].refs = 2
    BY <1>1, <1>2, <1>3, <1>7 DEF Owned
  <2> QED BY <2>5, <2>6, <2>7
<1>18. WriterInv
  BY <1>1, <1>3, <1>7, <1>8 DEF WriterInv
<1>19. LiveInv
  BY <1>1 DEF LiveInv
<1>20. FileInv
  BY <1>1, <1>2 DEF FileInv, Lasting
<1> QED
  BY <1>12, <1>13, <1>14, <1>15, <1>16, <1>17, <1>18, <1>19, <1>20 DEF IInv

\* Every step keeps it.
LEMMA IStep ==
  ASSUME IInv, [Next]_vars
  PROVE  IInv'
<1>1. TypeInv' /\ PlaceInv' /\ PhaseInv' /\ DropsInv'
  BY TypeStep, PlaceStep, PhaseStep, DropsStep
<1>2. StateInv' /\ CountInv' /\ WriterInv'
  BY StateStep, CountStep, WriterStep
<1>3. LiveInv' /\ FileInv'
  BY LiveStep, FileStep
<1> QED BY <1>1, <1>2, <1>3 DEF IInv

\* The references of plainDB.mu, of the read states and of the loops over readerUnref
\* are in order after any number of reads, writes, switches, flushes, failed flushes
\* and a Close, in any interleaving.
THEOREM ReferencesSound == Spec => []IInv
<1>1. Init => IInv
  BY IInit
<1>2. IInv /\ [Next]_vars => IInv'
  BY IStep
<1> QED BY <1>1, <1>2, PTL DEF Spec

\* A loop that meets no table twice is counted once for each of its tables.
LEMMA LoopCount ==
  ASSUME TypeInv, DropsInv, NEW t
  PROVE  Cardinality(UNION {{a} \X {i \in DOMAIN drops[a] : drops[a][i] = t} : a \in Actors})
           = Cardinality(Dropping(t))
<1> DEFINE at(a) == CHOOSE i \in DOMAIN drops[a] : drops[a][i] = t
           U == UNION {{a} \X {i \in DOMAIN drops[a] : drops[a][i] = t} : a \in Actors}
           D == Dropping(t)
           g == [a \in D |-> <<a, at(a)>>]
<1>1. \A a \in D : a \in Actors /\ \E i \in DOMAIN drops[a] : drops[a][i] = t
  BY DEF Dropping, Range
<1>2. \A a \in D : at(a) \in DOMAIN drops[a] /\ drops[a][at(a)] = t
  BY <1>1
<1>3. \A p \in U : \E a \in Actors : \E i \in DOMAIN drops[a] : p = <<a, i>> /\ drops[a][i] = t
  OBVIOUS
<1>4. \A a \in Actors : \A i \in DOMAIN drops[a] : drops[a][i] = t => <<a, i>> \in U /\ a \in D
  BY DEF Dropping, Range
<1>5. \A a \in Actors : \A i, j \in DOMAIN drops[a] : drops[a][i] = drops[a][j] => i = j
  BY DEF DropsInv, Injective
<1> HIDE DEF at, U, D
<1>6. g \in [D -> U]
  BY <1>1, <1>2, <1>4
<1>7. g \in Injection(D, U)
  <2>1. \A a, b \in D : g[a] = g[b] => a = b
    OBVIOUS
  <2> QED BY <1>6, <2>1 DEF Injection, IsInjective
<1>8. g \in Surjection(D, U)
  <2> SUFFICES ASSUME NEW p \in U PROVE \E a \in D : g[a] = p
    BY <1>6 DEF Surjection
  <2>0. PICK a \in Actors : \E i \in DOMAIN drops[a] : p = <<a, i>> /\ drops[a][i] = t
    BY <1>3
  <2>1. PICK i \in DOMAIN drops[a] : p = <<a, i>> /\ drops[a][i] = t
    BY <2>0
  <2>2. a \in D
    BY <1>4, <2>1
  <2>3. at(a) = i
    BY <1>2, <1>5, <2>1, <2>2
  <2> QED BY <2>1, <2>2, <2>3
<1>9. ExistsBijection(D, U)
  BY <1>7, <1>8 DEF ExistsBijection, Bijection
<1>10. IsFiniteSet(D)
  BY CountFinite DEF D
<1>11. Cardinality(U) = Cardinality(D)
  BY <1>9, <1>10, FS_Bijection
<1> QED BY <1>11 DEF U, D

\* The counts of the invariant are the ones of the property.
LEMMA ExactCounts ==
  ASSUME IInv
  PROVE  RefsExact
<1> USE DEF IInv
<1> SUFFICES ASSUME NEW t \in DOMAIN tabs
             PROVE  tabs[t].refs =
                      Cardinality({i \in DOMAIN queue : queue[i] = t})
                      + (IF t \in {arr, fl.new} \cup orphans THEN 1 ELSE 0)
                      + Cardinality({s \in DOMAIN states : InUse(s) /\ t \in Lists(s)})
                      + Cardinality(UNION {{a} \X {i \in DOMAIN drops[a] : drops[a][i] = t} : a \in Actors})
  BY DEF RefsExact
<1>0. TypeInv /\ PlaceInv /\ DropsInv
  OBVIOUS
<1>1. Cardinality({i \in DOMAIN queue : queue[i] = t}) = IF t \in Range(queue) THEN 1 ELSE 0
  <2> DEFINE Q == {i \in DOMAIN queue : queue[i] = t}
  <2>1. CASE t \in Range(queue)
    <3>1. PICK i \in DOMAIN queue : queue[i] = t
      BY <2>1 DEF Range
    <3>2. Q = {i}
      BY <3>1 DEF PlaceInv, Injective
    <3>3. Cardinality(Q) = 1
      BY <3>2, FS_Singleton
    <3> QED BY <2>1, <3>3
  <2>2. CASE t \notin Range(queue)
    <3>1. Q = {}
      BY <2>2 DEF Range
    <3>2. Cardinality(Q) = 0
      BY <3>1, CardFact
    <3> QED BY <2>2, <3>2
  <2> QED BY <2>1, <2>2
<1>2. Cardinality(UNION {{a} \X {i \in DOMAIN drops[a] : drops[a][i] = t} : a \in Actors})
        = Cardinality(Dropping(t))
  BY <1>0, LoopCount
<1>3. tabs[t].refs = (IF t \in Range(queue) THEN 1 ELSE 0)
                     + (IF t \in {arr, fl.new} \cup orphans THEN 1 ELSE 0)
                     + Cardinality(Using(t)) + Cardinality(Dropping(t))
  BY DEF CountInv, Owned
<1>4. Using(t) = {s \in DOMAIN states : InUse(s) /\ t \in Lists(s)}
  BY DEF Using
<1> HIDE DEF IInv
<1> QED BY <1>1, <1>2, <1>3, <1>4, Zenon

\* readerRefs of every table is exactly what its owners add up to, whatever readers,
\* writers, flushes and Close do: no reference is lost and none is given up twice
\* (flushableEntry.readerUnref panics on the latter).
THEOREM RefsAddUp == Spec => []RefsExact
<1>1. IInv => RefsExact
  BY ExactCounts
<1> QED BY <1>1, ReferencesSound, PTL

\* What is used has a reference, and what has a reference is there.
LEMMA UsedHasRefs ==
  ASSUME IInv
  PROVE  UsedIsLive
<1> USE DEF IInv
<1>0. TypeInv /\ PlaceInv /\ PhaseInv /\ DropsInv /\ StateInv /\ CountInv /\ WriterInv /\ LiveInv
  OBVIOUS
<1> DEFINE R == UNION {Lists(rd[r].rs) : r \in {x \in Readers : rd[x].rs # 0}}
           F == IF fl.pc \in {"build", "install"} THEN Range(Flushing) ELSE {}
           W == {wr.mem, fl.new} \ {0}
<1>1. ASSUME NEW t \in DOMAIN tabs, tabs[t].refs > 0
      PROVE  tabs[t].live /\ (tabs[t].kind = "arr" => tabs[t].file)
  BY <1>1 DEF LiveInv
<1>2. ASSUME NEW t \in R PROVE t \in DOMAIN tabs /\ tabs[t].refs > 0
  <2>1. PICK r \in Readers : rd[r].rs # 0 /\ t \in Lists(rd[r].rs)
    OBVIOUS
  <2> DEFINE s == rd[r].rs
  <2>2. s \in DOMAIN states /\ s # 0 /\ r \in On(s)
    BY <2>1 DEF StateInv, On
  <2>3. t \in Lists(s)
    BY <2>1
  <2> HIDE DEF s
  <2>4. Cardinality(On(s)) \in Nat /\ Cardinality(On(s)) > 0
    BY <1>0, <2>2, OnFinite
  <2>5. states[s].refs = Cardinality(On(s)) + (IF Held(s) THEN 1 ELSE 0)
    BY <2>2 DEF StateInv
  <2>6. InUse(s)
    BY <2>4, <2>5 DEF InUse
  <2>7. t \in DOMAIN tabs /\ s \in Using(t)
    BY <1>0, <2>2, <2>3, <2>6, ListsFact DEF Using
  <2> QED BY <1>0, <2>7, CountPositive
<1>3. ASSUME NEW t \in F PROVE t \in DOMAIN tabs /\ tabs[t].refs > 0
  <2>1. fl.pc \in {"build", "install"} /\ t \in Range(Flushing)
    BY <1>3
  <2>2. fl.n \in Nat /\ fl.n <= Len(queue) /\ queue \in Seq(Nat) /\ Injective(queue) /\ arr \in Nat
    <3>1. fl.n \in Nat /\ queue \in Seq(Nat) /\ arr \in Nat /\ Len(queue) \in Nat
      BY DEF TypeInv, Fl
    <3>2. fl.n < Len(queue)
      BY <2>1 DEF PhaseInv
    <3> QED BY <3>1, <3>2 DEF PlaceInv
  <2>3. /\ SubSeq(queue, 1, fl.n) \in Seq(Nat)
        /\ Range(SubSeq(queue, 1, fl.n)) \subseteq Range(queue)
    BY <2>2, CutFact
  <2>4. Range(Flushing) = Range(SubSeq(queue, 1, fl.n)) \cup ({arr} \ {0})
    BY <2>2, <2>3, ListFact DEF Flushing
  <2>5. t \in Range(queue) \/ (t = arr /\ t # 0)
    BY <2>1, <2>3, <2>4
  <2>6. t \in DOMAIN tabs
    BY <2>5 DEF PlaceInv, Of
  <2> QED BY <1>0, <2>5, <2>6, CountPositive
<1>4. ASSUME NEW t \in W PROVE t \in DOMAIN tabs /\ tabs[t].refs > 0
  <2>1. t \in Range(queue) \/ (t = fl.new /\ t # 0)
    BY DEF WriterInv
  <2>2. t \in DOMAIN tabs
    BY <2>1 DEF PlaceInv, Of
  <2> QED BY <1>0, <2>1, <2>2, CountPositive
<1>5. \A t \in R \cup F \cup W : tabs[t].live /\ (tabs[t].kind = "arr" => tabs[t].file)
  <2> HIDE DEF R, F, W, IInv
  <2> QED BY <1>1, <1>2, <1>3, <1>4
<1> HIDE DEF IInv
<1> SUFFICES ASSUME NEW t \in (UNION {Lists(rd[r].rs) : r \in {x \in Readers : rd[x].rs # 0}})
                              \cup (IF fl.pc \in {"build", "install"} THEN Range(Flushing) ELSE {})
                              \cup ({wr.mem, fl.new} \ {0})
             PROVE  tabs[t].live /\ (tabs[t].kind = "arr" => tabs[t].file)
  BY Zenon DEF UsedIsLive
<1>6. t \in R \cup F \cup W
  BY Zenon
<1> HIDE DEF R, F, W
<1> QED BY <1>5, <1>6

\* Nothing is used after it is freed: whatever is flushed, switched or closed
\* meanwhile, the tables of an open reader, of a running flush and of a writer keep
\* their memory and their file.
THEOREM NoUseAfterFree == Spec => []UsedIsLive
<1>1. IInv => UsedIsLive
  BY UsedHasRefs
<1> QED BY <1>1, ReferencesSound, PTL

\* When all goroutines are at rest only the DB's own references are left.
LEMMA AtRest ==
  ASSUME IInv
  PROVE  NothingLeft
<1> USE DEF IInv
<1>0. TypeInv /\ PlaceInv /\ PhaseInv /\ DropsInv /\ StateInv /\ CountInv /\ WriterInv /\ LiveInv
      /\ FileInv
  OBVIOUS
<1> SUFFICES ASSUME \A r \in Readers : rd[r].rs = 0, \A a \in Actors : drops[a] = <<>>,
                    mu.pc = "free", fl.pc = "none", status # "closing"
             PROVE  /\ {t \in DOMAIN tabs : tabs[t].live} = Range(queue) \cup ({arr} \ {0}) \cup orphans
                    /\ {t \in DOMAIN tabs : tabs[t].file /\ tabs[t].obsolete} = {}
                    /\ Cardinality({t \in DOMAIN tabs \ orphans : tabs[t].file}) <= 1
  BY DEF NothingLeft
<1> DEFINE O == Range(queue) \cup ({arr} \ {0}) \cup orphans
<1>1. fl.new = 0 /\ 0 \notin DOMAIN tabs /\ val = Len(states) /\ Range(<<>>) = {}
  BY <1>0, QueueFact DEF PhaseInv, Range
<1>2. O \subseteq DOMAIN tabs
  BY DEF PlaceInv, Of
<1>3. ASSUME NEW t \in DOMAIN tabs, tabs[t].refs > 0 PROVE t \in O
  <2> SUFFICES ASSUME t \notin O PROVE FALSE
    OBVIOUS
  <2>1. Owned(t) = 0
    BY <1>1 DEF Owned
  <2>2. Dropping(t) = {}
    BY <1>1 DEF Dropping
  <2>3. Using(t) = {}
    <3> SUFFICES ASSUME NEW s \in DOMAIN states, InUse(s), t \in Lists(s) PROVE FALSE
      BY DEF Using
    <3>1. On(s) = {}
      BY DEF On, TypeInv
    <3>2. Cardinality(On(s)) = 0
      BY <3>1, CardFact
    <3>3. states[s].refs = Cardinality(On(s)) + (IF Held(s) THEN 1 ELSE 0)
      BY DEF StateInv
    <3>4. Held(s)
      BY <3>2, <3>3 DEF InUse
    <3>5. status = "open" /\ s = Len(states)
      BY <1>1, <3>4 DEF Held
    <3>6. states[s].mems = queue /\ states[s].arr = arr
      BY <3>5 DEF StateInv
    <3>7. Lists(s) = Range(queue) \cup ({arr} \ {0})
      BY <1>0, <3>6, ListsFact
    <3> QED BY <3>7
  <2>4. tabs[t].refs = Owned(t) + Cardinality(Using(t)) + Cardinality(Dropping(t))
    BY DEF CountInv
  <2>5. Cardinality(Using(t)) = 0 /\ Cardinality(Dropping(t)) = 0
    BY <2>2, <2>3, CardFact
  <2> QED BY <1>3, <2>1, <2>4, <2>5
<1>4. \A t \in O : tabs[t].refs > 0
  <2> SUFFICES ASSUME NEW t \in O PROVE tabs[t].refs > 0
    OBVIOUS
  <2>1. t \in DOMAIN tabs
    BY <1>2
  <2>2. t \in Range(queue) \/ t \in {arr, fl.new} \cup orphans
    OBVIOUS
  <2> HIDE DEF O
  <2> QED BY <1>0, <2>1, <2>2, CountPositive
<1>5. {t \in DOMAIN tabs : tabs[t].live} = O
  <2>1. \A t \in DOMAIN tabs : tabs[t].live <=> tabs[t].refs > 0
    BY DEF LiveInv
  <2> HIDE DEF O, IInv
  <2> QED BY <1>2, <1>3, <1>4, <2>1
<1>6. ASSUME NEW t \in DOMAIN tabs, tabs[t].file, tabs[t].obsolete PROVE FALSE
  <2>1. t \notin O
    BY <1>6 DEF LiveInv
  <2>2. tabs[t].refs \in Nat /\ ~(tabs[t].refs > 0)
    BY <1>3, <2>1 DEF TypeInv
  <2>3. tabs[t].refs = 0
    BY <2>2
  <2> QED BY <1>6, <2>3 DEF LiveInv
<1>7. Cardinality({t \in DOMAIN tabs \ orphans : tabs[t].file}) <= 1
  <2> DEFINE S == {t \in DOMAIN tabs \ orphans : tabs[t].file}
  <2>1. ASSUME NEW t \in S PROVE Lasting(t)
    BY <1>1, <1>6, ActorFact DEF Lasting
  <2>2. \A t, u \in S : t = u
    BY <2>1 DEF FileInv
  <2>3. CASE S = {}
    <3>1. Cardinality(S) = 0
      BY <2>3, CardFact
    <3> QED BY <3>1
  <2>4. CASE S # {}
    <3>1. PICK t : S = {t}
      BY <2>2, <2>4
    <3>2. Cardinality(S) = 1
      BY <3>1, FS_Singleton
    <3> QED BY <3>2
  <2> QED BY <2>3, <2>4
<1> QED BY <1>5, <1>6, <1>7

\* Nothing leaks: with all goroutines at rest the memory and the files that are left
\* are the queue's, arrtable's and those of failed flushes, however the last readers
\* and Close raced with switches and flushes.
THEOREM NoLeak == Spec => []NothingLeft
<1>1. IInv => NothingLeft
  BY AtRest
<1> QED BY <1>1, ReferencesSound, PTL
-----------------------------------------------------------------------------
(***************************************************************************)
(* What the array tables of ReadStates hold, in every instance: a reader   *)
(* finds what was applied before it began, unless a flush was refused the  *)
(* key (ReadsBack); a table panics only at the limit of its offset         *)
(* (PanicsOnlyAtLimit); the one that is installed is on disk, unless its   *)
(* size is the file's (InstalledSynced).                                   *)
(*                                                                         *)
(* The first half is about one table as a value: what an allocation, an    *)
(* item, a loop over items and writeFinish make of its words.  The loop is *)
(* a fold, so what holds after the j-th item is shown by the least j that  *)
(* would be a counterexample.  The second half is about the state:         *)
(* DataInv, on top of the reference counts.                                *)
(***************************************************************************)

\* The fields of a table.
TableFields == {"off", "fsz", "msz", "cells", "offs", "num", "idx", "synced", "panic", "over"}

\* A result of calcExpandSize, or the size of a new file.
Rounded(n) == n = 0 \/ CalcExpandSize(n) = n

\* Offset and sizes of a table that is written; it has panicked only if its offset
\* has passed the limit.
SizeInv(t) ==
  /\ DOMAIN t = TableFields
  /\ t.off \in Nat /\ t.off < OffsetLimit /\ t.fsz \in Nat /\ t.msz \in Nat
  /\ t.offs \in Seq(Int)
  /\ t.panic \in BOOLEAN /\ t.over \in BOOLEAN /\ (t.panic => t.over)
  /\ Rounded(t.fsz)

-----------------------------------------------------------------------------
(***************************************************************************)
(* Sizes.                                                                  *)
(***************************************************************************)

\* The largest power of two of calcExpandSize.
LEMMA LargestMap == /\ Max(MapSizes) \in MapSizes /\ MapSizes \subseteq Nat
                    /\ \A p \in MapSizes : Max(MapSizes) >= p
<1>1. PICK m \in MapSizes : MapSizes \subseteq 1..m
  BY MapAssumption
<1>2. MapSizes \subseteq Nat /\ m \in Nat /\ MapSizes # {}
  BY <1>1, MapAssumption
<1>3. \A y \in MapSizes : y <= m
  BY <1>1, <1>2
<1> QED BY <1>2, <1>3, MaxFact

\* Rounding up to a multiple of the step.
LEMMA RoundUp ==
  ASSUME NEW n \in Nat, NEW s \in Nat, s > 0
  PROVE  LET r == s * ((n + s - 1) \div s) IN
         r \in Nat /\ r >= n /\ s * ((r + s - 1) \div s) = r
<1> DEFINE q == (n + s - 1) \div s
           m == (n + s - 1) % s
<1>1. q \in Nat /\ m \in Nat /\ m < s /\ n + s - 1 = s * q + m
  BY SMT
<1> HIDE DEF q, m
<1>2. s * q \in Nat
  BY <1>1
<1>3. s * q >= n
  BY <1>1, <1>2
<1>4. (s * q + s - 1) \div s = q
  <2> DEFINE a == s * q + s - 1
             p == a \div s
             l == a % s
  <2>1. a \in Nat
    BY <1>1, <1>2
  <2> HIDE DEF a
  <2>2. p \in Nat /\ l \in Nat /\ l < s /\ a = s * p + l
    BY <2>1
  <2> HIDE DEF p, l
  <2>3. s * p + l = s * q + s - 1
    BY <2>2 DEF a
  <2>4. s * p \in Nat /\ s * (p - q) = s * p - s * q /\ s * (q - p) = s * q - s * p
    BY <1>1, <2>2
  <2>5. ~(p > q)
    <3> SUFFICES ASSUME p > q PROVE FALSE
      OBVIOUS
    <3>1. p - q >= 1 /\ p - q \in Nat
      BY <1>1, <2>2
    <3>2. s * (p - q) >= s
      BY <3>1
    <3> QED BY <1>2, <2>2, <2>3, <2>4, <3>2
  <2>6. ~(q > p)
    <3> SUFFICES ASSUME q > p PROVE FALSE
      OBVIOUS
    <3>1. q - p >= 1 /\ q - p \in Nat
      BY <1>1, <2>2
    <3>2. s * (q - p) >= s
      BY <3>1
    <3> QED BY <1>2, <2>2, <2>3, <2>4, <3>2
  <2>7. p = q
    BY <1>1, <2>2, <2>5, <2>6
  <2> QED BY <2>7 DEF p, a
<1> QED BY <1>1, <1>2, <1>3, <1>4 DEF q

\* calcExpandSize makes room, and of its own results it makes no more.
LEMMA CalcFact ==
  ASSUME NEW n \in Nat
  PROVE  /\ CalcExpandSize(n) \in Nat /\ CalcExpandSize(n) >= n
         /\ CalcExpandSize(CalcExpandSize(n)) = CalcExpandSize(n)
<1> DEFINE B == Max(MapSizes)
<1>1. B \in MapSizes /\ MapSizes \subseteq Nat /\ \A p \in MapSizes : B >= p
  BY LargestMap
<1>2. ExpandStep \in Nat /\ ExpandStep > 0
  BY MapAssumption
<1> HIDE DEF B
<1>3. CASE n <= B
  <2> DEFINE S(x) == {p \in MapSizes : p >= x}
             c == Min(S(n))
  <2>1. S(n) \subseteq Nat /\ S(n) # {}
    BY <1>1, <1>3
  <2>2. c \in S(n)
    BY <2>1, MinFact
  <2> HIDE DEF c
  <2>3. c \in MapSizes /\ c >= n /\ c \in Nat /\ c <= B
    BY <1>1, <2>2
  <2>4. S(c) \subseteq Nat /\ c \in S(c) /\ \A y \in S(c) : y >= c
    <3>1. S(c) \subseteq Nat /\ \A y \in S(c) : y >= c
      BY <1>1
    <3>2. c >= c
      BY <2>3
    <3> QED BY <2>3, <3>1, <3>2
  <2>5. Min(S(c)) \in S(c) /\ Min(S(c)) <= c
    BY <2>4, MinFact
  <2>6. Min(S(c)) = c
    BY <2>3, <2>4, <2>5, <1>1
  <2>7. CalcExpandSize(n) = c /\ CalcExpandSize(c) = Min(S(c))
    BY <1>3, <2>3 DEF CalcExpandSize, B, c
  <2> QED BY <2>3, <2>6, <2>7
<1>4. CASE ~(n <= B)
  <2> DEFINE r == ExpandStep * ((n + ExpandStep - 1) \div ExpandStep)
  <2>1. r \in Nat /\ r >= n /\ ExpandStep * ((r + ExpandStep - 1) \div ExpandStep) = r
    BY <1>2, RoundUp
  <2>2. CalcExpandSize(n) = r
    BY <1>4 DEF CalcExpandSize, B
  <2> HIDE DEF r
  <2>3. ~(r <= B)
    BY <1>1, <1>4, <2>1
  <2>4. CalcExpandSize(r) = ExpandStep * ((r + ExpandStep - 1) \div ExpandStep)
    BY <2>3 DEF CalcExpandSize, B
  <2> QED BY <2>1, <2>2, <2>4
<1> QED BY <1>3, <1>4
-----------------------------------------------------------------------------
(***************************************************************************)
(* What the operations on a table do to it.                                *)
(***************************************************************************)

\* What the words s written at o leave.
Written(cells, o, s) ==
  [x \in DOMAIN cells \cup (o..(o + Len(s) - 1)) |->
     IF x \in o..(o + Len(s) - 1) THEN s[x - o + 1] ELSE cells[x]]

\* The fields an access to the mapping leaves alone.
SameShape(w, t) ==
  /\ DOMAIN w = TableFields /\ w.off = t.off /\ w.fsz = t.fsz /\ w.msz = t.msz
  /\ w.offs = t.offs /\ w.num = t.num /\ w.idx = t.idx /\ w.over = t.over

\* A write within bounds, and one outside (getBytes, setHeader).
LEMMA AccessFact ==
  ASSUME NEW t, DOMAIN t = TableFields, NEW o, NEW s
  PROVE  LET w == WriteAt(t, o, s) IN
         /\ SameShape(w, t)
         /\ InBounds(t, o, Len(s)) =>
              w.cells = Written(t.cells, o, s) /\ w.panic = t.panic /\ w.synced = FALSE
         /\ ~InBounds(t, o, Len(s)) =>
              w.cells = t.cells /\ w.panic = TRUE /\ w.synced = t.synced
<1> DEFINE C == Written(t.cells, o, s)
           w == WriteAt(t, o, s)
<1>1. w = IF InBounds(t, o, Len(s)) THEN [t EXCEPT !.cells = C, !.synced = FALSE]
          ELSE [t EXCEPT !.panic = TRUE]
  BY DEF WriteAt, Written
<1> HIDE DEF C
<1>2. CASE InBounds(t, o, Len(s))
  <2>1. w = [t EXCEPT !.cells = C, !.synced = FALSE]
    BY <1>1, <1>2
  <2> HIDE DEF w
  <2>2. SameShape(w, t) /\ w.cells = C /\ w.panic = t.panic /\ w.synced = FALSE
    BY <2>1 DEF SameShape, TableFields
  <2> QED BY <1>2, <2>2 DEF w, C
<1>3. CASE ~InBounds(t, o, Len(s))
  <2>1. w = [t EXCEPT !.panic = TRUE]
    BY <1>1, <1>3
  <2> HIDE DEF w
  <2>2. SameShape(w, t) /\ w.cells = t.cells /\ w.panic = TRUE /\ w.synced = t.synced
    BY <2>1 DEF SameShape, TableFields
  <2> QED BY <1>3, <2>2 DEF w
<1> QED BY <1>2, <1>3

\* expandFileSize and expandMmapSize leave room for n words.
LEMMA ExpandFact ==
  ASSUME NEW t, DOMAIN t = TableFields, t.fsz \in Nat, t.msz \in Nat, NEW n \in Nat,
         Rounded(t.fsz)
  PROVE  LET f == ExpandFile(t, n)
             m == ExpandMmap(f, n) IN
         /\ DOMAIN f = TableFields /\ f.fsz \in Nat /\ f.fsz >= n /\ f.msz = t.msz
         /\ DOMAIN m = TableFields /\ m.fsz = f.fsz /\ m.msz \in Nat /\ m.msz >= n
         /\ Rounded(f.fsz)
         /\ \A u \in {f, m} : /\ u.off = t.off /\ u.cells = t.cells /\ u.offs = t.offs
                              /\ u.num = t.num /\ u.idx = t.idx /\ u.panic = t.panic
                              /\ u.over = t.over
<1> DEFINE c == CalcExpandSize(n)
           f == ExpandFile(t, n)
           m == ExpandMmap(f, n)
<1>1. c \in Nat /\ c >= n /\ Rounded(c)
  BY CalcFact DEF Rounded
<1>2. f = IF n > t.fsz THEN [t EXCEPT !.fsz = c, !.synced = TRUE] ELSE t
  BY DEF ExpandFile, FileTruncate
<1>3. m = IF n > f.msz THEN [f EXCEPT !.msz = c] ELSE f
  BY DEF ExpandMmap
<1> HIDE DEF c, m, f
<1>4. /\ DOMAIN f = TableFields /\ f.fsz \in Nat /\ f.fsz >= n /\ f.msz = t.msz
      /\ Rounded(f.fsz)
      /\ f.off = t.off /\ f.cells = t.cells /\ f.offs = t.offs /\ f.num = t.num
      /\ f.idx = t.idx /\ f.panic = t.panic /\ f.over = t.over
  <2>1. CASE n > t.fsz
    <3>1. f = [t EXCEPT !.fsz = c, !.synced = TRUE]
      BY <1>2, <2>1
    <3>2. /\ DOMAIN f = TableFields /\ f.fsz = c /\ f.msz = t.msz /\ f.synced = TRUE
          /\ f.off = t.off /\ f.cells = t.cells /\ f.offs = t.offs /\ f.num = t.num
          /\ f.idx = t.idx /\ f.panic = t.panic /\ f.over = t.over
      BY <3>1 DEF TableFields
    <3> QED BY <1>1, <3>2
  <2>2. CASE ~(n > t.fsz)
    <3>1. f = t /\ t.fsz >= n
      BY <1>2, <2>2
    <3> QED BY <3>1
  <2> QED BY <2>1, <2>2
<1>5. /\ DOMAIN m = TableFields /\ m.fsz = f.fsz /\ m.msz \in Nat /\ m.msz >= n
      /\ m.off = t.off /\ m.cells = t.cells /\ m.offs = t.offs /\ m.num = t.num
      /\ m.idx = t.idx /\ m.panic = t.panic /\ m.over = t.over
  BY <1>1, <1>3, <1>4 DEF TableFields
<1> QED BY <1>4, <1>5 DEF m, f

\* alloc's offset, with the wrap of an atomic.Uint32.
LEMMA OffsetFact ==
  ASSUME NEW t, t.off \in Nat, t.off < OffsetLimit, NEW n \in Nat
  PROVE  /\ Offset(t, n) \in Nat /\ Offset(t, n) < OffsetLimit
         /\ t.off + n < OffsetLimit => Offset(t, n) = t.off + n
         /\ t.off + n >= OffsetLimit => Offset(t, n) < n
<1>1. OffsetLimit \in Nat /\ OffsetLimit > 0
  BY MapAssumption
<1> DEFINE a == t.off + n
<1>2. a \in Nat
  OBVIOUS
<1>3. Offset(t, n) = a % OffsetLimit
  BY DEF Offset
<1> HIDE DEF a
<1>4. a % OffsetLimit \in Nat /\ a % OffsetLimit < OffsetLimit
  BY <1>1, <1>2
<1>5. a < OffsetLimit => a % OffsetLimit = a
  BY <1>1, <1>2
<1>6. ASSUME a >= OffsetLimit PROVE Offset(t, n) < n
  <2>1. CASE n >= OffsetLimit
    BY <1>1, <1>3, <1>4, <2>1
  <2>2. CASE n < OffsetLimit
    <3>1. a - OffsetLimit \in Nat /\ a - OffsetLimit < n /\ a - OffsetLimit < OffsetLimit
      BY <1>1, <1>2, <1>6, <2>2 DEF a
    <3>2. a % OffsetLimit = a - OffsetLimit
      BY <1>1, <1>2, <3>1
    <3> QED BY <1>3, <3>1, <3>2
  <2> QED BY <1>1, <2>1, <2>2
<1> QED BY <1>3, <1>4, <1>5, <1>6 DEF a

\* The fields alloc never changes.
SameItems(a, t) == a.offs = t.offs /\ a.num = t.num /\ a.idx = t.idx

\* alloc without a failing step: room for the new offset, which is written to the
\* header.
LEMMA AllocFact ==
  ASSUME NEW t, SizeInv(t), NEW n \in Nat, t.off + n > 0 \/ t.over, NEW fault,
         ~Refused(t, n, fault)
  PROVE  LET a == Alloc(t, n, fault)
             o == Offset(t, n) IN
         /\ SizeInv(a) /\ SameItems(a, t) /\ a.off = o /\ a.fsz >= o /\ a.msz >= o
         /\ a.over = (t.over \/ t.off + n >= OffsetLimit)
         /\ t.panic => a.panic
         /\ ~a.panic => a.cells = Written(t.cells, 0, <<o>>)
<1> DEFINE o == Offset(t, n)
           over == (t.over \/ t.off + n >= OffsetLimit)
           moved == [t EXCEPT !.off = o, !.over = over]
           f == ExpandFile(moved, o)
           e == ExpandMmap(f, o)
           a == Alloc(t, n, fault)
<1>0. OffsetLimit \in Nat /\ OffsetLimit > 0
  BY MapAssumption
<1>1. /\ o \in Nat /\ o < OffsetLimit /\ t.off \in Nat
      /\ t.off + n < OffsetLimit => o = t.off + n
  BY OffsetFact DEF SizeInv
<1>2. a = WriteAt(e, 0, <<o>>)
  BY DEF Alloc, Refused
<1> HIDE DEF o, a, over
<1>3. /\ DOMAIN moved = TableFields /\ moved.off = o /\ moved.fsz = t.fsz
      /\ moved.msz = t.msz /\ moved.cells = t.cells /\ SameItems(moved, t)
      /\ moved.panic = t.panic /\ moved.over = over
  BY DEF SizeInv, TableFields, SameItems
<1> HIDE DEF moved
<1>4. moved.fsz \in Nat /\ moved.msz \in Nat /\ Rounded(moved.fsz)
  BY <1>3 DEF SizeInv
<1>5. /\ DOMAIN f = TableFields /\ f.fsz \in Nat /\ f.fsz >= o /\ f.msz = moved.msz
      /\ DOMAIN e = TableFields /\ e.fsz = f.fsz /\ e.msz \in Nat /\ e.msz >= o
      /\ Rounded(f.fsz)
      /\ \A u \in {f, e} : /\ u.off = moved.off /\ u.cells = moved.cells /\ u.offs = moved.offs
                           /\ u.num = moved.num /\ u.idx = moved.idx /\ u.panic = moved.panic
                           /\ u.over = moved.over
  <2>1. DOMAIN moved = TableFields /\ o \in Nat
    BY <1>1, <1>3
  <2> QED BY ONLY <1>4, <2>1, ExpandFact, Zenon
<1> HIDE DEF e, f
<1>6. /\ DOMAIN e = TableFields /\ e.fsz \in Nat /\ e.fsz >= o /\ e.msz \in Nat /\ e.msz >= o
      /\ Rounded(e.fsz)
      /\ e.off = o /\ e.cells = t.cells /\ SameItems(e, t) /\ e.panic = t.panic /\ e.over = over
  BY <1>3, <1>5 DEF SameItems
<1>7. Len(<<o>>) = 1
  OBVIOUS
<1>8. /\ SameShape(a, e)
      /\ InBounds(e, 0, 1) => a.cells = Written(e.cells, 0, <<o>>) /\ a.panic = e.panic
      /\ ~InBounds(e, 0, 1) => a.panic = TRUE
  <2> DEFINE s == <<o>>
  <2>0. a = WriteAt(e, 0, s)
    BY <1>2
  <2>1. /\ SameShape(a, e)
        /\ InBounds(e, 0, Len(s)) => a.cells = Written(e.cells, 0, s) /\ a.panic = e.panic
        /\ ~InBounds(e, 0, Len(s)) => a.panic = TRUE
    <3> HIDE DEF s
    <3>0. DOMAIN e = TableFields
      BY <1>6
    <3>1. LET w == WriteAt(e, 0, s) IN
          /\ SameShape(w, e)
          /\ InBounds(e, 0, Len(s)) => w.cells = Written(e.cells, 0, s) /\ w.panic = e.panic
          /\ ~InBounds(e, 0, Len(s)) => w.panic = TRUE
      BY ONLY <3>0, AccessFact, Zenon
    <3> QED BY <2>0, <3>1
  <2> QED BY <1>7, <2>1
<1>9. ~InBounds(e, 0, 1) => o = 0
  <2> SUFFICES ASSUME o # 0 PROVE InBounds(e, 0, 1)
    OBVIOUS
  <2>1. e.fsz >= 1 /\ e.msz >= 1
    BY <1>1, <1>6
  <2> QED BY <1>6, <2>1 DEF InBounds
<1>10. ~InBounds(e, 0, 1) => over
  <2>1. t.off + n > 0 /\ o = 0 => t.off + n >= OffsetLimit
    BY <1>0, <1>1
  <2> QED BY <1>9, <2>1 DEF over
<1>11. a.panic \in BOOLEAN /\ a.over \in BOOLEAN /\ (a.panic => a.over) /\ (t.panic => a.panic)
  BY <1>6, <1>8, <1>10 DEF SizeInv, SameShape, over
<1>12. /\ DOMAIN a = TableFields /\ a.off = o /\ a.fsz = e.fsz /\ a.msz = e.msz
       /\ a.offs = t.offs /\ a.num = t.num /\ a.idx = t.idx
       /\ t.offs \in Seq(Int)
  BY <1>6, <1>8 DEF SameShape, SameItems, SizeInv
<1>13. SizeInv(a)
  <2>1. /\ a.off \in Nat /\ a.off < OffsetLimit /\ a.fsz \in Nat /\ a.msz \in Nat
        /\ a.offs \in Seq(Int) /\ Rounded(a.fsz)
    BY <1>1, <1>6, <1>12
  <2> QED BY <1>11, <1>12, <2>1, Zenon DEF SizeInv
<1>14. a.over = over /\ (~a.panic => a.cells = Written(t.cells, 0, <<o>>))
  BY <1>6, <1>8 DEF SameShape
<1> QED BY <1>6, <1>11, <1>12, <1>13, <1>14 DEF SameItems, over, o, a

\* alloc with a failing step: the offset has moved, nothing is written.
LEMMA AllocRefused ==
  ASSUME NEW t, SizeInv(t), NEW n \in Nat, NEW fault, Refused(t, n, fault)
  PROVE  LET a == Alloc(t, n, fault)
             o == Offset(t, n) IN
         /\ SizeInv(a) /\ SameItems(a, t) /\ a.off = o /\ a.cells = t.cells /\ a.panic = t.panic
         /\ a.over = (t.over \/ t.off + n >= OffsetLimit)
         /\ o > t.fsz \/ o > t.msz
<1> DEFINE o == Offset(t, n)
           over == (t.over \/ t.off + n >= OffsetLimit)
           moved == [t EXCEPT !.off = o, !.over = over]
           f == ExpandFile(moved, o)
           a == Alloc(t, n, fault)
<1>1. o \in Nat /\ o < OffsetLimit
  BY OffsetFact DEF SizeInv
<1>2. \/ fault = "file" /\ o > t.fsz /\ a = moved
      \/ fault = "map" /\ o > t.msz /\ a = [f EXCEPT !.msz = 0]
  BY DEF Alloc, Refused
<1> HIDE DEF o, a, over
<1>3. /\ DOMAIN moved = TableFields /\ moved.off = o /\ moved.fsz = t.fsz
      /\ moved.msz = t.msz /\ moved.cells = t.cells /\ SameItems(moved, t)
      /\ moved.panic = t.panic /\ moved.over = over
  BY DEF SizeInv, TableFields, SameItems
<1>4. over \in BOOLEAN /\ (t.panic => over) /\ t.panic \in BOOLEAN
  BY DEF over, SizeInv
<1> HIDE DEF moved
<1>5. moved.fsz \in Nat /\ moved.msz \in Nat /\ Rounded(moved.fsz)
  BY <1>3 DEF SizeInv
<1>6. /\ DOMAIN f = TableFields /\ f.fsz \in Nat /\ Rounded(f.fsz)
      /\ f.off = moved.off /\ f.cells = moved.cells /\ f.offs = moved.offs
      /\ f.num = moved.num /\ f.idx = moved.idx /\ f.panic = moved.panic /\ f.over = moved.over
  <2>1. DOMAIN moved = TableFields /\ o \in Nat
    BY <1>1, <1>3
  <2> QED BY ONLY <1>5, <2>1, ExpandFact, Zenon
<1> HIDE DEF f
<1>7. t.offs \in Seq(Int)
  BY DEF SizeInv
<1>8. CASE a = moved
  <2>1. SizeInv(a)
    BY <1>1, <1>3, <1>4, <1>5, <1>7, <1>8 DEF SizeInv, SameItems
  <2> QED BY <1>2, <1>3, <1>8, <2>1 DEF o, a, over
<1>9. CASE a = [f EXCEPT !.msz = 0]
  <2>1. /\ DOMAIN a = TableFields /\ a.off = o /\ a.fsz = f.fsz /\ a.msz = 0
        /\ a.cells = t.cells /\ SameItems(a, t) /\ a.panic = t.panic /\ a.over = over
    BY <1>3, <1>6, <1>9 DEF TableFields, SameItems
  <2>2. SizeInv(a)
    BY <1>1, <1>4, <1>6, <1>7, <2>1 DEF SizeInv, SameItems
  <2> QED BY <1>2, <2>1, <2>2 DEF o, a, over
<1> QED BY <1>2, <1>8, <1>9

\* getBytes and the copy into what alloc gave: an offset that has passed the limit
\* panics.
LEMMA FillFact ==
  ASSUME NEW t, SizeInv(t), NEW s, NEW n \in Nat, Len(s) = n,
         t.fsz >= t.off, t.msz >= t.off, t.off < n => t.over
  PROVE  LET w == Fill(t, n, s) IN
         /\ SizeInv(w) /\ SameItems(w, t) /\ w.off = t.off /\ w.fsz = t.fsz /\ w.msz = t.msz
         /\ w.over = t.over
         /\ t.panic => w.panic
         /\ t.off < n => w.panic
         /\ ~w.panic => w.cells = Written(t.cells, t.off - n, s)
<1> DEFINE w == Fill(t, n, s)
<1>1. DOMAIN t = TableFields /\ t.off \in Nat /\ t.panic \in BOOLEAN
  BY DEF SizeInv
<1>2. CASE t.off < n
  <2>1. w = [t EXCEPT !.panic = TRUE]
    BY <1>2 DEF Fill
  <2> HIDE DEF w
  <2>2. SameShape(w, t) /\ w.panic = TRUE
    BY <1>1, <2>1 DEF SameShape, TableFields
  <2>3. SizeInv(w) /\ SameItems(w, t)
    BY <1>2, <2>2 DEF SizeInv, SameShape, SameItems
  <2> QED BY <2>2, <2>3 DEF SameShape, w
<1>3. CASE ~(t.off < n)
  <2>1. w = WriteAt(t, t.off - n, s)
    BY <1>3 DEF Fill
  <2>2. InBounds(t, t.off - n, Len(s))
    <3>1. (t.off - n) + n = t.off
      BY <1>1
    <3> QED BY <3>1 DEF InBounds
  <2> HIDE DEF w
  <2>3. SameShape(w, t) /\ w.cells = Written(t.cells, t.off - n, s) /\ w.panic = t.panic
    BY <1>1, <2>1, <2>2, AccessFact
  <2>4. SizeInv(w) /\ SameItems(w, t)
    BY <2>3 DEF SizeInv, SameShape, SameItems
  <2> QED BY <1>3, <2>3, <2>4 DEF SameShape, w
<1> QED BY <1>2, <1>3

\* The words of an item.
Words(item) == <<1, item.key>> \o item.val

Item == [key : Nat, val : Seq(Nat)]

\* One sequence behind another.
LEMMA JoinWords ==
  ASSUME NEW p \in Seq(Nat), NEW q \in Seq(Nat)
  PROVE  /\ p \o q \in Seq(Nat) /\ Len(p \o q) = Len(p) + Len(q) /\ Len(q) \in Nat
         /\ \A i \in 1..(Len(p) + Len(q)) : (p \o q)[i] = IF i <= Len(p) THEN p[i] ELSE q[i - Len(p)]
OBVIOUS

\* The words of an item: the length, the key and the value.
LEMMA WordsFact ==
  ASSUME NEW item \in Item
  PROVE  /\ Words(item) \in Seq(Nat) /\ Len(Words(item)) = 2 + Len(item.val)
         /\ Len(item.val) \in Nat
         /\ Words(item)[2] = item.key
         /\ \A i \in 1..Len(item.val) : Words(item)[i + 2] = item.val[i]
<1>1. item.key \in Nat /\ item.val \in Seq(Nat) /\ <<1, item.key>> \in Seq(Nat)
  BY DEF Item
<1>2. Len(<<1, item.key>>) = 2 /\ <<1, item.key>>[2] = item.key
  OBVIOUS
<1> DEFINE h == <<1, item.key>>
<1> HIDE DEF h
<1>3. /\ h \o item.val \in Seq(Nat) /\ Len(h \o item.val) = 2 + Len(item.val)
      /\ (h \o item.val)[2] = item.key
      /\ \A i \in 1..Len(item.val) : (h \o item.val)[i + 2] = item.val[i]
  <2>1. h \in Seq(Nat) /\ Len(h) = 2 /\ h[2] = item.key
    BY <1>1, <1>2 DEF h
  <2>2. h \o item.val \in Seq(Nat) /\ Len(h \o item.val) = 2 + Len(item.val) /\ Len(item.val) \in Nat
    BY <1>1, <2>1, JoinWords
  <2>3. \A i \in 1..Len(h \o item.val) :
          (h \o item.val)[i] = IF i <= Len(h) THEN h[i] ELSE item.val[i - Len(h)]
    BY <1>1, <2>1, <2>2, JoinWords
  <2>4. (h \o item.val)[2] = item.key
    BY <2>1, <2>2, <2>3
  <2>5. \A i \in 1..Len(item.val) : (h \o item.val)[i + 2] = item.val[i]
    <3> TAKE i \in 1..Len(item.val)
    <3>1. i + 2 \in 1..Len(h \o item.val) /\ ~(i + 2 <= 2) /\ i + 2 - 2 = i
      BY <2>2
    <3> QED BY <2>1, <2>3, <3>1
  <2> QED BY <2>2, <2>4, <2>5
<1> QED BY <1>1, <1>3 DEF Words, h

\* set: what it leaves when the item is written, and when it is refused.
LEMMA SetFact ==
  ASSUME NEW t, SizeInv(t), NEW item \in Item, NEW fault
  PROVE  LET n == 2 + Len(item.val)
             u == SetItem(t, item, fault) IN
         /\ SizeInv(u)
         /\ t.panic => u.panic
         /\ ~u.panic /\ ~Refused(t, n, fault) =>
              /\ u.off = t.off + n /\ u.off < OffsetLimit /\ u.fsz >= u.off /\ u.msz >= u.off
              /\ u.offs = Append(t.offs, t.off)
              /\ u.cells = Written(Written(t.cells, 0, <<u.off>>), t.off, Words(item))
         /\ Refused(t, n, fault) => /\ u.offs = t.offs /\ u.cells = t.cells
                                    /\ u.off > t.fsz \/ u.off > t.msz
         /\ ~u.over => u.off = t.off + n /\ ~t.over
         /\ ~t.panic /\ ~t.over /\ t.off + n < OffsetLimit => ~u.over
<1> DEFINE s == Words(item)
           n == 2 + Len(item.val)
           a == Alloc(t, n, fault)
           u == SetItem(t, item, fault)
<1>1. /\ s \in Seq(Nat) /\ Len(s) = n /\ n \in Nat /\ n >= 2
  BY WordsFact
<1>2. u = IF t.panic \/ Refused(t, n, fault) THEN a
          ELSE [Fill(a, n, s) EXCEPT !.offs = Append(a.offs, a.off - n)]
  <2>1. Len(<<1, item.key>> \o item.val) = n
    BY <1>1 DEF Words
  <2>2. ~t.panic /\ ~Refused(t, n, fault) =>
          DOMAIN Fill(a, n, s) = TableFields /\ Fill(a, n, s).offs = a.offs
    <3> SUFFICES ASSUME ~t.panic, ~Refused(t, n, fault)
                 PROVE  DOMAIN Fill(a, n, s) = TableFields /\ Fill(a, n, s).offs = a.offs
      OBVIOUS
    <3>1. t.off + n > 0
      BY <1>1 DEF SizeInv
    <3> HIDE DEF a, s, n
    <3>2. SizeInv(a)
      BY <1>1, <3>1, AllocFact DEF a
    <3>3. DOMAIN a = TableFields
      BY <3>2 DEF SizeInv
    <3>4. CASE a.off < n
      <4>1. Fill(a, n, s) = [a EXCEPT !.panic = TRUE]
        BY <3>4 DEF Fill
      <4> QED BY <3>3, <4>1 DEF TableFields
    <3>5. CASE ~(a.off < n)
      <4>1. Fill(a, n, s) = WriteAt(a, a.off - n, s)
        BY <3>5 DEF Fill
      <4>2. SameShape(WriteAt(a, a.off - n, s), a)
        BY ONLY <3>3, AccessFact, Zenon
      <4> QED BY <4>1, <4>2 DEF SameShape
    <3> QED BY <3>4, <3>5
  <2> QED BY <2>1, <2>2 DEF SetItem, Words
<1> HIDE DEF u, a, s, n
<1>3. /\ Offset(t, n) \in Nat /\ t.off \in Nat /\ OffsetLimit \in Nat
      /\ t.off + n < OffsetLimit => Offset(t, n) = t.off + n
      /\ t.off + n >= OffsetLimit => Offset(t, n) < n
  BY <1>1, OffsetFact, MapAssumption DEF SizeInv
<1>4. CASE Refused(t, n, fault)
  <2>1. /\ SizeInv(a) /\ SameItems(a, t) /\ a.off = Offset(t, n) /\ a.cells = t.cells
        /\ a.panic = t.panic /\ (Offset(t, n) > t.fsz \/ Offset(t, n) > t.msz)
        /\ a.over = (t.over \/ t.off + n >= OffsetLimit)
    BY <1>1, <1>4, AllocRefused DEF a
  <2>2. u = a
    BY <1>2, <1>4
  <2>3. ~a.over => t.off + n < OffsetLimit /\ ~t.over
    <3>1. ~a.over => ~(t.off + n >= OffsetLimit) /\ ~t.over
      BY <2>1
    <3> QED BY <1>1, <1>3, <3>1
  <2>4. ~t.over /\ t.off + n < OffsetLimit => ~u.over
    <3>1. t.off + n < OffsetLimit => ~(t.off + n >= OffsetLimit)
      BY <1>1, <1>3
    <3> QED BY <2>1, <2>2, <3>1
  <2> QED BY <1>3, <1>4, <2>1, <2>2, <2>3, <2>4 DEF SameItems, n, u
<1>5. CASE ~Refused(t, n, fault)
  <2>1. t.off + n > 0
    BY <1>1, <1>3
  <2>2. /\ SizeInv(a) /\ SameItems(a, t) /\ a.off = Offset(t, n)
        /\ a.fsz >= Offset(t, n) /\ a.msz >= Offset(t, n)
        /\ a.over = (t.over \/ t.off + n >= OffsetLimit)
        /\ t.panic => a.panic
        /\ ~a.panic => a.cells = Written(t.cells, 0, <<Offset(t, n)>>)
    BY <1>1, <1>5, <2>1, AllocFact DEF a
  <2>3. CASE t.panic
    <3>1. u = a
      BY <1>2, <2>3
    <3>2. u.panic /\ u.over
      BY <2>2, <2>3, <3>1 DEF SizeInv
    <3> QED BY <1>5, <2>2, <2>3, <3>1, <3>2 DEF n, u
  <2>4. CASE ~t.panic
    <3> DEFINE w == Fill(a, n, s)
    <3>1. u = [w EXCEPT !.offs = Append(a.offs, a.off - n)]
      BY <1>2, <1>5, <2>4
    <3>0. /\ t.off + n >= OffsetLimit => a.over
          /\ ~a.over => ~(t.off + n >= OffsetLimit) /\ ~t.over
      BY <2>2
    <3>2. a.off < n => a.over
      <4>1. a.off < n => t.off + n >= OffsetLimit
        BY <1>1, <1>3, <2>2
      <4> QED BY <3>0, <4>1
    <3>3. /\ SizeInv(w) /\ SameItems(w, a) /\ w.off = a.off /\ w.fsz = a.fsz /\ w.msz = a.msz
          /\ w.over = a.over
          /\ a.panic => w.panic
          /\ a.off < n => w.panic
          /\ ~w.panic => w.cells = Written(a.cells, a.off - n, s)
      BY <1>1, <2>2, <3>2, FillFact
    <3> HIDE DEF w
    <3>4. /\ DOMAIN u = TableFields /\ u.off = w.off /\ u.fsz = w.fsz /\ u.msz = w.msz
          /\ u.num = w.num /\ u.idx = w.idx /\ u.panic = w.panic /\ u.over = w.over
          /\ u.cells = w.cells /\ u.offs = Append(a.offs, a.off - n)
      BY <3>1, <3>3 DEF TableFields, SizeInv
    <3>5. ~u.panic => a.off >= n /\ t.off + n < OffsetLimit /\ a.off = t.off + n
      BY <1>1, <1>3, <2>2, <3>3, <3>4
    <3>6. ~u.panic => /\ a.off - n = t.off /\ a.off = t.off + n
                      /\ u.cells = Written(Written(t.cells, 0, <<a.off>>), t.off, s)
      BY <1>1, <1>3, <2>2, <3>3, <3>4, <3>5
    <3>7. u.offs \in Seq(Int) /\ (~u.panic => u.offs = Append(t.offs, t.off))
      <4>1. a.offs \in Seq(Int) /\ a.offs = t.offs /\ a.off - n \in Int
        BY <1>1, <1>3, <2>2 DEF SameItems, SizeInv
      <4> QED BY <3>4, <3>6, <4>1
    <3>8. SizeInv(u)
      BY <3>3, <3>4, <3>7 DEF SizeInv
    <3>9. ~u.over => t.off + n < OffsetLimit /\ ~t.over
      BY <1>1, <1>3, <3>0, <3>3, <3>4
    <3>10. ~t.over /\ t.off + n < OffsetLimit => ~u.over
      <4>1. t.off + n < OffsetLimit => ~(t.off + n >= OffsetLimit)
        BY <1>1, <1>3
      <4> QED BY <2>2, <3>3, <3>4, <4>1
    <3> QED
      BY <1>3, <1>5, <2>2, <2>4, <3>3, <3>4, <3>5, <3>6, <3>7, <3>8, <3>9, <3>10 DEF n, u, s
  <2> QED BY <2>3, <2>4
<1> QED BY <1>4, <1>5 DEF u, n, s

\* newArrayTable: two headers and nothing else.
LEMMA NewFact ==
  LET t == NewArrayTable IN
  /\ SizeInv(t) /\ t.offs = <<>> /\ t.off = 2 /\ ~t.over /\ ~t.panic
  /\ t.fsz >= 2 /\ t.msz >= 2
  /\ DOMAIN t.cells = {0}
<1> DEFINE t0 == [off |-> 0, fsz |-> 0, msz |-> CalcExpandSize(InitMmapSize), cells |-> <<>>,
                  offs |-> <<>>, num |-> 0, idx |-> 0, synced |-> TRUE, panic |-> FALSE,
                  over |-> FALSE]
           t1 == Alloc(t0, 1, "none")
           t2 == Alloc(t1, 1, "none")
<1>0. OffsetLimit \in Nat /\ OffsetLimit > 6 /\ InitMmapSize \in Nat
  BY MapAssumption
<1>1. CalcExpandSize(InitMmapSize) \in Nat
  BY <1>0, CalcFact
<1>2. /\ SizeInv(t0) /\ t0.off = 0 /\ t0.over = FALSE /\ t0.panic = FALSE /\ t0.offs = <<>>
      /\ t0.cells = <<>>
  BY <1>0, <1>1 DEF SizeInv, TableFields, Rounded
<1>3. NewArrayTable = t2
  BY DEF NewArrayTable, HeaderLen
<1> HIDE DEF t0
<1>4. /\ SizeInv(t1) /\ t1.off = 1 /\ t1.over = FALSE /\ t1.offs = <<>> /\ t1.panic = FALSE
      /\ t1.cells = Written(t0.cells, 0, <<1>>)
  <2>1. ~Refused(t0, 1, "none")
    BY DEF Refused
  <2>2. /\ SizeInv(t1) /\ SameItems(t1, t0) /\ t1.off = Offset(t0, 1)
        /\ t1.over = (t0.over \/ t0.off + 1 >= OffsetLimit)
        /\ ~t1.panic => t1.cells = Written(t0.cells, 0, <<Offset(t0, 1)>>)
    BY <1>2, <2>1, AllocFact
  <2>3. Offset(t0, 1) = 1
    BY <1>0, <1>2, OffsetFact
  <2>4. ~(t0.off + 1 >= OffsetLimit)
    BY <1>0, <1>2
  <2>5. t1.over = FALSE
    BY <1>2, <2>2, <2>4
  <2> QED BY <1>2, <2>2, <2>3, <2>5 DEF SizeInv, SameItems
<1> HIDE DEF t1
<1>5. /\ SizeInv(t2) /\ t2.off = 2 /\ t2.over = FALSE /\ t2.offs = <<>> /\ t2.panic = FALSE
      /\ t2.fsz >= 2 /\ t2.msz >= 2 /\ t2.cells = Written(t1.cells, 0, <<2>>)
  <2>1. ~Refused(t1, 1, "none")
    BY DEF Refused
  <2>2. /\ SizeInv(t2) /\ SameItems(t2, t1) /\ t2.off = Offset(t1, 1)
        /\ t2.fsz >= Offset(t1, 1) /\ t2.msz >= Offset(t1, 1)
        /\ t2.over = (t1.over \/ t1.off + 1 >= OffsetLimit)
        /\ ~t2.panic => t2.cells = Written(t1.cells, 0, <<Offset(t1, 1)>>)
    BY <1>4, <2>1, AllocFact
  <2>3. Offset(t1, 1) = 2
    BY <1>0, <1>4, OffsetFact
  <2>4. ~(t1.off + 1 >= OffsetLimit)
    BY <1>0, <1>4
  <2>5. t2.over = FALSE
    BY <1>4, <2>2, <2>4
  <2> QED BY <1>4, <2>2, <2>3, <2>5 DEF SizeInv, SameItems
<1>6. DOMAIN t2.cells = {0}
  <2>1. Len(<<1>>) = 1 /\ Len(<<2>>) = 1 /\ 0..(0 + 1 - 1) = {0}
    OBVIOUS
  <2>2. DOMAIN t1.cells = {0}
    BY <1>2, <1>4, <2>1 DEF Written
  <2> QED BY <1>5, <2>1, <2>2 DEF Written
<1> HIDE DEF t2
<1> QED BY <1>3, <1>5, <1>6

-----------------------------------------------------------------------------
(***************************************************************************)
(* The layout of the items.                                                *)
(***************************************************************************)

\* Where the item after the p-th begins, or would.
End(t, p) == IF p = Len(t.offs) THEN t.off ELSE t.offs[p + 1]
KeyAt(t, p) == t.cells[t.offs[p] + 1]

\* Items behind the headers, one after the other, with rising keys.
Layout(t) ==
  /\ t.off >= 2
  /\ \A x \in DOMAIN t.cells : x \in Nat /\ (x >= 2 => t.cells[x] \in Nat)
  /\ \A p \in DOMAIN t.offs : /\ t.offs[p] >= 2 /\ t.offs[p] + 2 <= End(t, p)
                              /\ End(t, p) <= t.off
                              /\ t.offs[p] + 1 \in DOMAIN t.cells
  /\ \A p, q \in DOMAIN t.offs : p < q => KeyAt(t, p) < KeyAt(t, q)

\* Key k is greater than all that are there.
Above(t, k) == \A p \in DOMAIN t.offs : KeyAt(t, p) < k

\* The p-th item has value v.
ValueIs(t, p, v) ==
  /\ End(t, p) = t.offs[p] + 2 + Len(v)
  /\ \A i \in 1..Len(v) : /\ t.offs[p] + 1 + i \in DOMAIN t.cells
                          /\ t.cells[t.offs[p] + 1 + i] = v[i]

\* Key k is there with value v.
Holds(t, k, v) == \E p \in DOMAIN t.offs : KeyAt(t, p) = k /\ ValueIs(t, p, v)

\* d is c with the words s from o on, and perhaps another word 0.
Behind(d, c, o, s) ==
  /\ \A x \in Nat : x >= 1 /\ x < o => /\ x \in DOMAIN d <=> x \in DOMAIN c
                                       /\ d[x] = c[x] \/ x \notin DOMAIN c
  /\ \A i \in 1..Len(s) : o + i - 1 \in DOMAIN d /\ d[o + i - 1] = s[i]
  /\ \A x \in DOMAIN d : x \in Nat
  /\ \A x \in DOMAIN d : x # 0 => \/ x \in DOMAIN c /\ d[x] = c[x]
                                  \/ x >= o /\ x - o + 1 \in 1..Len(s) /\ d[x] = s[x - o + 1]

\* What a write behind the items leaves of them.
LEMMA WrittenFact ==
  ASSUME NEW c, \A x \in DOMAIN c : x \in Nat, NEW o \in Nat, NEW s, Len(s) \in Nat,
         NEW h
  PROVE  Behind(Written(Written(c, 0, <<h>>), o, s), c, o, s)
<1> DEFINE b == Written(c, 0, <<h>>)
           d == Written(b, o, s)
<1>0. Len(<<h>>) = 1 /\ Len(s) \in Nat /\ 0..(0 + 1 - 1) = {0}
  OBVIOUS
<1>1. DOMAIN b = DOMAIN c \cup {0} /\ \A x \in DOMAIN c : x # 0 => b[x] = c[x]
  BY <1>0 DEF Written
<1> HIDE DEF b
<1>2. /\ DOMAIN d = DOMAIN b \cup (o..(o + Len(s) - 1))
      /\ \A x \in o..(o + Len(s) - 1) : d[x] = s[x - o + 1]
      /\ \A x \in DOMAIN b : x \notin o..(o + Len(s) - 1) => d[x] = b[x]
  BY DEF Written
<1> HIDE DEF d
<1>3. \A i \in 1..Len(s) : o + i - 1 \in o..(o + Len(s) - 1) /\ (o + i - 1) - o + 1 = i
  BY <1>0
<1>4. \A x \in o..(o + Len(s) - 1) : x \in Nat /\ x >= o /\ x - o + 1 \in 1..Len(s)
  BY <1>0
<1>5. \A i \in 1..Len(s) : o + i - 1 \in DOMAIN d /\ d[o + i - 1] = s[i]
  BY <1>2, <1>3
<1>6. \A x \in Nat : x >= 1 /\ x < o => /\ x \in DOMAIN d <=> x \in DOMAIN c
                                        /\ d[x] = c[x] \/ x \notin DOMAIN c
  <2> SUFFICES ASSUME NEW x \in Nat, x >= 1, x < o
               PROVE  /\ x \in DOMAIN d <=> x \in DOMAIN c
                      /\ d[x] = c[x] \/ x \notin DOMAIN c
    OBVIOUS
  <2>1. x # 0 /\ x \notin o..(o + Len(s) - 1)
    BY <1>4
  <2> QED BY <1>1, <1>2, <2>1
<1>7. \A x \in DOMAIN d : x \in Nat
  BY <1>1, <1>2, <1>4
<1>8. \A x \in DOMAIN d : x # 0 => \/ x \in DOMAIN c /\ d[x] = c[x]
                                   \/ x >= o /\ x - o + 1 \in 1..Len(s) /\ d[x] = s[x - o + 1]
  BY <1>1, <1>2, <1>4
<1>9. Behind(d, c, o, s)
  BY <1>5, <1>6, <1>7, <1>8 DEF Behind
<1> QED BY <1>9 DEF d, b

\* An item written behind the others: all are there.
LEMMA SetWrites ==
  ASSUME NEW t, SizeInv(t), Layout(t), NEW item \in Item, NEW fault,
         ~Refused(t, 2 + Len(item.val), fault), ~SetItem(t, item, fault).panic,
         Above(t, item.key)
  PROVE  LET u == SetItem(t, item, fault) IN
         /\ Layout(u) /\ Holds(u, item.key, item.val)
         /\ \A k : \A v \in Seq(Nat) : Holds(t, k, v) => Holds(u, k, v)
         /\ \A p \in DOMAIN u.offs : \/ KeyAt(u, p) = item.key
                                     \/ \E q \in DOMAIN t.offs : KeyAt(u, p) = KeyAt(t, q)
<1> DEFINE s == Words(item)
           n == 2 + Len(item.val)
           u == SetItem(t, item, fault)
           m == Len(t.offs)
<1>1. /\ s \in Seq(Nat) /\ Len(s) = n /\ n \in Nat /\ n >= 2 /\ s[2] = item.key
      /\ Len(item.val) \in Nat /\ \A i \in 1..Len(item.val) : s[i + 2] = item.val[i]
  BY WordsFact
<1>2. /\ u.off = t.off + n /\ u.offs = Append(t.offs, t.off)
      /\ u.cells = Written(Written(t.cells, 0, <<u.off>>), t.off, s)
  BY SetFact
<1>3. t.off \in Nat /\ t.offs \in Seq(Int) /\ t.off >= 2
  BY DEF SizeInv, Layout
<1> HIDE DEF u, s, n
<1>4. /\ m \in Nat /\ DOMAIN t.offs = 1..m /\ Len(u.offs) = m + 1 /\ DOMAIN u.offs = 1..(m + 1)
      /\ u.offs[m + 1] = t.off /\ \A p \in 1..m : u.offs[p] = t.offs[p] /\ t.offs[p] \in Int
  BY <1>2, <1>3
<1> HIDE DEF m
<1>5. \A x \in DOMAIN t.cells : x \in Nat
  BY DEF Layout
<1>6. /\ \A x \in Nat : x >= 1 /\ x < t.off => /\ x \in DOMAIN u.cells <=> x \in DOMAIN t.cells
                                               /\ u.cells[x] = t.cells[x] \/ x \notin DOMAIN t.cells
      /\ \A i \in 1..n : t.off + i - 1 \in DOMAIN u.cells /\ u.cells[t.off + i - 1] = s[i]
      /\ \A x \in DOMAIN u.cells : x \in Nat
      /\ \A x \in DOMAIN u.cells :
           x # 0 => \/ x \in DOMAIN t.cells /\ u.cells[x] = t.cells[x]
                    \/ x >= t.off /\ x - t.off + 1 \in 1..n /\ u.cells[x] = s[x - t.off + 1]
  <2>1. Behind(u.cells, t.cells, t.off, s)
    BY <1>1, <1>2, <1>3, <1>5, WrittenFact
  <2>2. Len(s) = n
    BY <1>1
  <2> QED BY <2>1, <2>2 DEF Behind
<1>7. ASSUME NEW p \in 1..m
      PROVE  /\ p \in DOMAIN u.offs /\ u.offs[p] = t.offs[p] /\ t.offs[p] \in Int /\ t.offs[p] >= 2
             /\ End(u, p) = End(t, p) /\ End(t, p) \in Int /\ t.offs[p] + 2 <= End(t, p)
             /\ End(t, p) <= t.off
             /\ KeyAt(u, p) = KeyAt(t, p) /\ t.offs[p] + 1 \in DOMAIN u.cells
  <2>1. /\ t.offs[p] >= 2 /\ t.offs[p] + 2 <= End(t, p) /\ End(t, p) <= t.off
        /\ t.offs[p] + 1 \in DOMAIN t.cells
    BY <1>4 DEF Layout
  <2>2. p \in 1..(m + 1) /\ p # m + 1
    BY <1>4
  <2>3. End(u, p) = u.offs[p + 1]
    BY <1>4, <2>2 DEF End
  <2>4. End(u, p) = End(t, p) /\ End(t, p) \in Int
    <3>1. CASE p = m
      BY <1>3, <1>4, <2>3, <3>1 DEF End, m
    <3>2. CASE p # m
      <4>1. p + 1 \in 1..m
        BY <1>4, <3>2
      <4> QED BY <1>4, <2>3, <3>2, <4>1 DEF End, m
    <3> QED BY <3>1, <3>2
  <2>5. t.offs[p] + 1 \in Nat /\ t.offs[p] + 1 >= 1 /\ t.offs[p] + 1 < t.off
    <3>1. t.offs[p] \in Int /\ t.off \in Int
      BY <1>3, <1>4
    <3> QED BY ONLY <2>1, <2>4, <3>1
  <2>6. KeyAt(u, p) = KeyAt(t, p) /\ t.offs[p] + 1 \in DOMAIN u.cells
    BY <1>4, <1>6, <2>1, <2>5 DEF KeyAt
  <2> QED BY <1>4, <2>1, <2>2, <2>4, <2>6
<1>8. /\ u.offs[m + 1] = t.off /\ End(u, m + 1) = t.off + n
      /\ KeyAt(u, m + 1) = item.key /\ t.off + 1 \in DOMAIN u.cells
  <2>1. 2 \in 1..n /\ t.off + 2 - 1 = t.off + 1
    BY <1>1, <1>3
  <2>2. t.off + 1 \in DOMAIN u.cells /\ u.cells[t.off + 1] = item.key
    BY <1>1, <1>6, <2>1
  <2>3. End(u, m + 1) = u.off
    BY <1>4 DEF End
  <2> QED BY <1>2, <1>4, <2>2, <2>3 DEF KeyAt
<1>9. Layout(u)
  <2>1. u.off >= 2 /\ u.off \in Nat
    BY <1>1, <1>2, <1>3
  <2>2. \A x \in DOMAIN u.cells : x >= 2 => u.cells[x] \in Nat
    <3> SUFFICES ASSUME NEW x \in DOMAIN u.cells, x >= 2 PROVE u.cells[x] \in Nat
      OBVIOUS
    <3>1. x # 0
      OBVIOUS
    <3>2. CASE x \in DOMAIN t.cells /\ u.cells[x] = t.cells[x]
      BY <3>2 DEF Layout
    <3>3. CASE x >= t.off /\ x - t.off + 1 \in 1..n /\ u.cells[x] = s[x - t.off + 1]
      <4>1. \A i \in 1..n : s[i] \in Nat
        BY <1>1
      <4> QED BY <3>3, <4>1
    <3> QED BY <1>6, <3>1, <3>2, <3>3
  <2>3. ASSUME NEW p \in DOMAIN u.offs
        PROVE  /\ u.offs[p] >= 2 /\ u.offs[p] + 2 <= End(u, p) /\ End(u, p) <= u.off
               /\ u.offs[p] + 1 \in DOMAIN u.cells
    <3>0. t.off \in Int /\ n \in Int /\ n >= 2 /\ t.off >= 2 /\ u.off = t.off + n
      BY <1>1, <1>2, <1>3
    <3>1. CASE p \in 1..m
      <4>1. /\ u.offs[p] \in Int /\ u.offs[p] >= 2 /\ End(u, p) \in Int
            /\ u.offs[p] + 2 <= End(u, p) /\ End(u, p) <= t.off
            /\ u.offs[p] + 1 \in DOMAIN u.cells
        BY <1>7, <3>1
      <4> QED BY ONLY <3>0, <4>1
    <3>2. CASE p = m + 1
      BY ONLY <1>8, <3>0, <3>2
    <3> QED BY <1>4, <3>1, <3>2
  <2>4. ASSUME NEW p \in DOMAIN u.offs, NEW q \in DOMAIN u.offs, p < q
        PROVE  KeyAt(u, p) < KeyAt(u, q)
    <3>1. p \in 1..m
      BY <1>4, <2>4
    <3>2. CASE q \in 1..m
      BY <1>4, <1>7, <2>4, <3>1, <3>2 DEF Layout
    <3>3. CASE q = m + 1
      BY <1>4, <1>7, <1>8, <3>1, <3>3 DEF Above
    <3> QED BY <1>4, <3>2, <3>3
  <2> QED BY <1>6, <2>1, <2>2, <2>3, <2>4 DEF Layout
<1>10. Holds(u, item.key, item.val)
  <2>1. ValueIs(u, m + 1, item.val)
    <3>1. End(u, m + 1) = u.offs[m + 1] + 2 + Len(item.val)
      <4>1. t.off \in Int /\ Len(item.val) \in Int
        BY <1>1, <1>3
      <4> QED BY ONLY <1>8, <4>1 DEF n
    <3>2. ASSUME NEW i \in 1..Len(item.val)
          PROVE  t.off + 1 + i \in DOMAIN u.cells /\ u.cells[t.off + 1 + i] = item.val[i]
      <4>1. i + 2 \in 1..n /\ t.off + (i + 2) - 1 = t.off + 1 + i
        <5>1. Len(item.val) \in Nat /\ t.off \in Int /\ i \in 1..Len(item.val)
          BY <1>1, <1>3
        <5> QED BY ONLY <5>1 DEF n
      <4> QED BY <1>1, <1>6, <4>1
    <3> QED BY <1>8, <3>1, <3>2 DEF ValueIs
  <2>2. m + 1 \in DOMAIN u.offs
    BY <1>4
  <2> QED BY <1>8, <2>1, <2>2 DEF Holds
<1>11. ASSUME NEW k, NEW v \in Seq(Nat), Holds(t, k, v) PROVE Holds(u, k, v)
  <2>1. PICK p \in DOMAIN t.offs : KeyAt(t, p) = k /\ ValueIs(t, p, v)
    BY <1>11 DEF Holds
  <2>2. p \in 1..m
    BY <1>4
  <2>3. End(u, p) = u.offs[p] + 2 + Len(v)
    BY <1>7, <2>1, <2>2 DEF ValueIs
  <2>4. ASSUME NEW i \in 1..Len(v)
        PROVE  u.offs[p] + 1 + i \in DOMAIN u.cells /\ u.cells[u.offs[p] + 1 + i] = v[i]
    <3> DEFINE x == t.offs[p] + 1 + i
    <3>1. x \in DOMAIN t.cells /\ t.cells[x] = v[i]
      BY <2>1 DEF ValueIs
    <3>2. x \in Nat /\ x >= 1 /\ x < t.off
      <4>1. x \in Nat
        BY <1>5, <3>1
      <4>2. t.offs[p] + 2 + Len(v) <= t.off /\ t.offs[p] \in Int /\ t.offs[p] >= 2
        BY <1>7, <2>1, <2>2 DEF ValueIs
      <4>3. Len(v) \in Nat
        OBVIOUS
      <4>4. i \in 1..Len(v) /\ t.off \in Int
        BY <1>3
      <4> QED BY ONLY <4>1, <4>2, <4>3, <4>4
    <3> HIDE DEF x
    <3>3. x \in DOMAIN u.cells /\ u.cells[x] = v[i]
      BY <1>6, <3>1, <3>2
    <3> QED BY <1>7, <2>2, <3>3 DEF x
  <2>5. ValueIs(u, p, v)
    BY <2>3, <2>4 DEF ValueIs
  <2> QED BY <1>7, <2>1, <2>2, <2>5 DEF Holds
<1>12. \A p \in DOMAIN u.offs : \/ KeyAt(u, p) = item.key
                                \/ \E q \in DOMAIN t.offs : KeyAt(u, p) = KeyAt(t, q)
  BY <1>4, <1>7, <1>8
<1> QED BY <1>9, <1>10, <1>11, <1>12 DEF u

\* The key of an item is one.
LEMMA KeyNat ==
  ASSUME NEW t, SizeInv(t), Layout(t), NEW p \in DOMAIN t.offs
  PROVE  KeyAt(t, p) \in Nat
<1>1. t.offs[p] \in Int
  BY DEF SizeInv
<1>2. t.offs[p] >= 2 /\ t.offs[p] + 1 \in DOMAIN t.cells
  BY DEF Layout
<1>3. t.offs[p] + 1 >= 2
  BY ONLY <1>1, <1>2
<1> QED BY <1>2, <1>3 DEF Layout, KeyAt

\* A refused item: the last item's value gets longer, the others stay as they are.
LEMMA SetSkips ==
  ASSUME NEW t, SizeInv(t), Layout(t), NEW item \in Item, NEW fault,
         Refused(t, 2 + Len(item.val), fault), t.fsz >= t.off, t.msz >= t.off
  PROVE  LET u == SetItem(t, item, fault) IN
         /\ Layout(u)
         /\ \A k : \A v \in Seq(Nat) :
              Holds(t, k, v) /\ (\E q \in DOMAIN t.offs : KeyAt(t, q) > k) => Holds(u, k, v)
         /\ u.offs = t.offs /\ \A p \in DOMAIN u.offs : KeyAt(u, p) = KeyAt(t, p)
<1> DEFINE u == SetItem(t, item, fault)
           m == Len(t.offs)
<1>1. /\ u.offs = t.offs /\ u.cells = t.cells /\ (u.off > t.fsz \/ u.off > t.msz) /\ SizeInv(u)
  BY SetFact
<1> HIDE DEF u
<1>2. t.off \in Nat /\ t.fsz \in Nat /\ t.msz \in Nat /\ t.offs \in Seq(Int) /\ u.off \in Nat /\ t.off >= 2
  BY <1>1 DEF SizeInv, Layout
<1>3. u.off > t.off
  BY ONLY <1>1, <1>2, t.fsz >= t.off, t.msz >= t.off
<1>4. m \in Nat /\ DOMAIN t.offs = 1..m /\ \A p \in 1..m : t.offs[p] \in Int
  BY <1>2
<1> HIDE DEF m
<1>5. \A p \in DOMAIN u.offs : KeyAt(u, p) = KeyAt(t, p)
  BY <1>1 DEF KeyAt
<1>6. ASSUME NEW p \in 1..m
      PROVE  /\ p # m => End(u, p) = End(t, p)
             /\ End(t, p) \in Int /\ End(u, p) \in Int
             /\ End(t, p) <= End(u, p) /\ (End(t, p) <= t.off => End(u, p) <= u.off)
  <2>1. CASE p = m
    BY <1>1, <1>2, <1>3, <2>1 DEF End, m
  <2>2. CASE p # m
    <3>1. p + 1 \in 1..m
      BY <1>4, <2>2
    <3>2. End(u, p) = t.offs[p + 1] /\ End(t, p) = t.offs[p + 1] /\ t.offs[p + 1] \in Int
      BY <1>1, <1>4, <2>2, <3>1 DEF End, m
    <3> QED BY <1>2, <1>3, <2>2, <3>2
  <2> QED BY <2>1, <2>2
<1>7. Layout(u)
  <2>1. u.off >= 2
    BY <1>2, <1>3
  <2>2. ASSUME NEW p \in DOMAIN u.offs
        PROVE  /\ u.offs[p] >= 2 /\ u.offs[p] + 2 <= End(u, p) /\ End(u, p) <= u.off
               /\ u.offs[p] + 1 \in DOMAIN u.cells
    <3>1. p \in 1..m /\ p \in DOMAIN t.offs
      BY <1>1, <1>4
    <3>2. /\ t.offs[p] >= 2 /\ t.offs[p] + 2 <= End(t, p) /\ End(t, p) <= t.off
          /\ t.offs[p] + 1 \in DOMAIN t.cells
      BY <3>1 DEF Layout
    <3>3. /\ End(t, p) \in Int /\ End(u, p) \in Int /\ t.offs[p] \in Int
          /\ End(t, p) <= End(u, p) /\ End(u, p) <= u.off
      BY <1>4, <1>6, <3>1, <3>2
    <3>4. t.offs[p] + 2 <= End(u, p)
      BY ONLY <3>2, <3>3
    <3> QED BY <1>1, <3>2, <3>3, <3>4
  <2> QED BY <1>1, <1>5, <2>1, <2>2 DEF Layout
<1>8. ASSUME NEW k, NEW v \in Seq(Nat), Holds(t, k, v),
             NEW q \in DOMAIN t.offs, KeyAt(t, q) > k
      PROVE  Holds(u, k, v)
  <2>1. PICK p \in DOMAIN t.offs : KeyAt(t, p) = k /\ ValueIs(t, p, v)
    BY <1>8 DEF Holds
  <2>2. p # m
    <3> SUFFICES ASSUME p = m PROVE FALSE
      OBVIOUS
    <3>1. q < p \/ q = p
      BY <1>4
    <3>2. KeyAt(t, p) \in Nat /\ KeyAt(t, q) \in Nat
      BY <2>1, KeyNat
    <3>3. KeyAt(t, q) <= KeyAt(t, p)
      BY <3>1, <3>2 DEF Layout
    <3> QED BY <1>8, <2>1, <3>2, <3>3
  <2>3. End(u, p) = End(t, p)
    BY <1>4, <1>6, <2>2
  <2>4. ValueIs(u, p, v)
    BY <1>1, <2>1, <2>3 DEF ValueIs
  <2> QED BY <1>1, <1>5, <2>1, <2>4 DEF Holds
<1> QED BY <1>1, <1>5, <1>7, <1>8 DEF u

-----------------------------------------------------------------------------
(***************************************************************************)
(* runFlush's loop.                                                        *)
(***************************************************************************)

\* g is the table after each of the first n items.
Run(g, n, items, fault) ==
  g = [i \in 0..n |-> IF i = 0 THEN NewArrayTable
                      ELSE SetItem(g[i - 1], items[i], fault[i])]

\* The loop has a run to any item.
LEMMA RunExists ==
  ASSUME NEW items, NEW fault, NEW n \in Nat
  PROVE  \E g : Run(g, n, items, fault)
<1> DEFINE Bad == {m \in Nat : \A g : ~Run(g, m, items, fault)}
<1> SUFFICES ASSUME Bad # {} PROVE FALSE
  OBVIOUS
<1>1. PICK m \in Bad : \A y \in Bad : m <= y
  <2>1. Bad \subseteq Nat
    OBVIOUS
  <2> HIDE DEF Bad
  <2> QED BY <2>1, LeastNat
<1>2. m \in Nat /\ \A g : ~Run(g, m, items, fault)
  BY <1>1
<1>3. CASE m = 0
  <2> DEFINE g == [i \in 0..0 |-> NewArrayTable]
             h == [i \in 0..0 |-> IF i = 0 THEN NewArrayTable
                                  ELSE SetItem(g[i - 1], items[i], fault[i])]
  <2>1. \A i \in 0..0 : i = 0
    OBVIOUS
  <2>2. g = h
    BY <2>1
  <2>3. Run(g, m, items, fault)
    BY <1>3, <2>2 DEF Run
  <2> QED BY <1>2, <2>3
<1>4. CASE m # 0
  <2>1. m - 1 \in Nat /\ m - 1 < m
    BY <1>2, <1>4
  <2>2. m - 1 \notin Bad
    <3> HIDE DEF Bad
    <3> QED BY <1>1, <1>2, <2>1
  <2>3. PICK g : Run(g, m - 1, items, fault)
    BY <2>1, <2>2
  <2> DEFINE S(f, i) == IF i = 0 THEN NewArrayTable ELSE SetItem(f[i - 1], items[i], fault[i])
             h == [i \in 0..m |-> IF i = m THEN SetItem(g[m - 1], items[m], fault[m]) ELSE g[i]]
  <2>4. g = [i \in 0..(m - 1) |-> S(g, i)]
    BY <2>3 DEF Run
  <2>5. \A i \in 0..m : h[i] = S(h, i)
    <3> TAKE i \in 0..m
    <3>1. CASE i = m
      <4>1. m \in 0..m /\ m - 1 \in 0..m /\ m - 1 # m
        BY <1>2, <2>1
      <4>2. h[m] = SetItem(g[m - 1], items[m], fault[m]) /\ h[m - 1] = g[m - 1]
        BY <4>1
      <4> HIDE DEF h
      <4> QED BY <1>4, <3>1, <4>2
    <3>2. CASE i # m
      <4>1. i \in 0..(m - 1)
        BY <1>2, <3>2
      <4>2. h[i] = g[i] /\ g[i] = S(g, i)
        BY <2>4, <3>2, <4>1
      <4>3. i # 0 => i - 1 \in 0..m /\ i - 1 # m
        BY <1>2, <4>1
      <4>4. i # 0 => h[i - 1] = g[i - 1]
        BY <4>3
      <4> HIDE DEF h
      <4> QED BY <4>2, <4>4
    <3> QED BY <3>1, <3>2
  <2>6. h = [i \in 0..m |-> h[i]]
    OBVIOUS
  <2> HIDE DEF h
  <2>7. h = [i \in 0..m |-> S(h, i)]
    BY <2>5, <2>6
  <2>8. Run(h, m, items, fault)
    BY <2>7 DEF Run
  <2> QED BY <1>2, <2>8
<1> QED BY <1>3, <1>4

\* SetAll is its end.
LEMMA RunFact ==
  ASSUME NEW items, Len(items) \in Nat, NEW fault
  PROVE  \E g : /\ g[0] = NewArrayTable
                /\ \A i \in 1..Len(items) : g[i] = SetItem(g[i - 1], items[i], fault[i])
                /\ SetAll(items, fault) = g[Len(items)]
<1> DEFINE n == Len(items)
           g == CHOOSE f : f = [i \in 0..n |-> IF i = 0 THEN NewArrayTable
                                              ELSE SetItem(f[i - 1], items[i], fault[i])]
<1>1. SetAll(items, fault) = g[n]
  BY DEF SetAll
<1>2. Run(g, n, items, fault)
  <2>1. \E f : Run(f, n, items, fault)
    BY RunExists
  <2> QED BY <2>1 DEF Run
<1> HIDE DEF g
<1>3. g[0] = NewArrayTable
  <2>1. 0 \in 0..n
    OBVIOUS
  <2> QED BY <1>2, <2>1 DEF Run
<1>4. ASSUME NEW i \in 1..n PROVE g[i] = SetItem(g[i - 1], items[i], fault[i])
  <2>1. i \in 0..n /\ i # 0
    OBVIOUS
  <2> QED BY <1>2, <2>1 DEF Run
<1> QED BY <1>1, <1>3, <1>4

\* g is the table after each of the first n items.
Steps(g, n, items, fault) ==
  g[0] = NewArrayTable /\ \A i \in 1..n : g[i] = SetItem(g[i - 1], items[i], fault[i])

\* What is set up to an item does not depend on what comes after.
LEMMA RunAgree ==
  ASSUME NEW n \in Nat, NEW g, NEW items, NEW fault, Steps(g, n, items, fault),
         NEW h, NEW others, NEW faults, Steps(h, n, others, faults),
         \A i \in 1..n : items[i] = others[i] /\ fault[i] = faults[i]
  PROVE  g[n] = h[n]
<1> DEFINE Bad == {m \in 0..n : g[m] # h[m]}
<1> SUFFICES ASSUME Bad # {} PROVE FALSE
  OBVIOUS
<1>0. Bad \subseteq Nat
  OBVIOUS
<1>1. PICK m \in Bad : \A y \in Bad : m <= y
  <2> HIDE DEF Bad
  <2> QED BY <1>0, LeastNat
<1>2. m \in 0..n /\ g[m] # h[m] /\ m # 0
  BY <1>1 DEF Steps
<1>3. m \in 1..n /\ m - 1 \in 0..n /\ ~(m <= m - 1)
  BY <1>2
<1>4. m - 1 \notin Bad
  <2> HIDE DEF Bad
  <2> QED BY <1>1, <1>3
<1>5. g[m - 1] = h[m - 1]
  BY <1>3, <1>4
<1> QED BY <1>2, <1>3, <1>5 DEF Steps

\* The tables g after each item, when the set of item at may fail in step f.
Loop(g, items, at, f) ==
  /\ items \in Seq(Item) /\ at \in Nat
  /\ \A i, j \in DOMAIN items : i < j => items[i].key < items[j].key
  /\ g[0] = NewArrayTable
  /\ \A i \in DOMAIN items :
       g[i] = SetItem(g[i - 1], items[i], IF i = at THEN f ELSE "none")

\* The item that is skipped.
Skip(g, items, at, f) ==
  {i \in DOMAIN items : i = at /\ Refused(g[i - 1], 2 + Len(items[i].val), f)}

\* Offset and sizes at each step.
LEMMA LoopSizes ==
  ASSUME NEW g, NEW items, NEW at, NEW f, Loop(g, items, at, f), NEW j \in 0..Len(items)
  PROVE  SizeInv(g[j]) /\ (~g[j].over => g[j].off >= 2)
<1> DEFINE n == Len(items)
           P(m) == SizeInv(g[m]) /\ (~g[m].over => g[m].off >= 2)
           Bad == {m \in 0..n : ~P(m)}
<1>1. n \in Nat /\ DOMAIN items = 1..n /\ \A i \in 1..n : items[i] \in Item
  BY DEF Loop
<1> HIDE DEF n
<1> SUFFICES ASSUME Bad # {} PROVE FALSE
  BY DEF n
<1>2. Bad \subseteq Nat
  BY <1>1
<1>3. PICK m \in Bad : \A y \in Bad : m <= y
  <2> HIDE DEF Bad
  <2> QED BY <1>2, LeastNat
<1>4. m \in 0..n /\ ~P(m)
  BY <1>3
<1>5. m # 0
  <2>1. SizeInv(NewArrayTable) /\ NewArrayTable.off = 2
    BY NewFact
  <2>2. P(0)
    BY <2>1 DEF Loop
  <2> QED BY <1>4, <2>2
<1>6. m \in 1..n /\ m - 1 \in 0..n /\ ~(m <= m - 1)
  BY <1>1, <1>4, <1>5
<1>7. m - 1 \notin Bad
  <2> HIDE DEF Bad
  <2> QED BY <1>3, <1>6
<1>8. P(m - 1)
  BY <1>6, <1>7
<1> DEFINE F == IF m = at THEN f ELSE "none"
           t == g[m - 1]
           u == SetItem(t, items[m], F)
<1>9. g[m] = u /\ items[m] \in Item
  BY <1>1, <1>6 DEF Loop
<1> HIDE DEF F, t
<1>10. SizeInv(t) /\ (~t.over => t.off >= 2)
  BY <1>8 DEF t
<1>11. SizeInv(u) /\ (~u.over => u.off = t.off + (2 + Len(items[m].val)) /\ ~t.over)
  BY <1>9, <1>10, SetFact
<1>12. Len(items[m].val) \in Nat /\ t.off \in Nat
  BY <1>9, <1>10 DEF Item, SizeInv
<1> HIDE DEF u
<1>13. ~u.over => u.off >= 2
  BY <1>10, <1>11, <1>12
<1> QED BY <1>4, <1>9, <1>11, <1>13

\* What the table holds after j items: all but the skipped one and the one before it.
KeptUpTo(g, items, at, f, j) ==
  LET t == g[j]
      skip == Skip(g, items, at, f) IN
  /\ Layout(t)
  /\ \A p \in DOMAIN t.offs : \E i \in 1..j : KeyAt(t, p) = items[i].key
  /\ at \notin 1..j => t.fsz >= t.off /\ t.msz >= t.off
  /\ \A i \in 1..j : i \notin skip /\ (i + 1 \notin skip \/ i = j) => Holds(t, items[i].key, items[i].val)

\* One more item: what was held still is, but for the value before a skipped item.
LEMMA KeptStep ==
  ASSUME NEW g, NEW items, NEW at, NEW f, Loop(g, items, at, f),
         NEW j \in Nat, j + 1 \in DOMAIN items, KeptUpTo(g, items, at, f, j), ~g[j + 1].panic
  PROVE  KeptUpTo(g, items, at, f, j + 1)
<1> DEFINE n == Len(items)
           skip == Skip(g, items, at, f)
           F == IF j + 1 = at THEN f ELSE "none"
           t == g[j]
           e == items[j + 1]
           u == SetItem(t, e, F)
<1>1. n \in Nat /\ DOMAIN items = 1..n /\ \A i \in 1..n : items[i] \in Item
  BY DEF Loop
<1>2. g[j + 1] = u /\ (j + 1) - 1 = j
  BY DEF Loop
<1>3. e \in Item /\ j \in 0..n /\ j + 1 \in 1..n
  BY <1>1
<1>4. SizeInv(t)
  BY <1>3, LoopSizes DEF n
<1>5. /\ Layout(t)
      /\ \A p \in DOMAIN t.offs : \E i \in 1..j : KeyAt(t, p) = items[i].key
      /\ at \notin 1..j => t.fsz >= t.off /\ t.msz >= t.off
      /\ \A i \in 1..j : i \notin skip /\ (i + 1 \notin skip \/ i = j) => Holds(t, items[i].key, items[i].val)
  BY DEF KeptUpTo
<1>6. \A i \in 1..j : i \in 1..n /\ i # j + 1 /\ i < j + 1 /\ i \in 1..(j + 1)
  BY <1>1, <1>3
<1>7. \A i \in 1..(j + 1) : i \in 1..j \/ i = j + 1
  BY <1>3
<1>8. \A i \in 1..n : items[i].key \in Nat /\ items[i].val \in Seq(Nat)
  BY <1>1 DEF Item
<1>9. \A i, k \in 1..n : i < k => items[i].key < items[k].key
  BY <1>1 DEF Loop
<1>10. skip = {i \in 1..n : i = at /\ Refused(g[i - 1], 2 + Len(items[i].val), f)}
  BY <1>1 DEF Skip
<1>11. j + 1 \in skip <=> Refused(t, 2 + Len(e.val), F)
  <2>1. ~Refused(t, 2 + Len(e.val), "none")
    BY DEF Refused
  <2> QED BY <1>2, <1>3, <1>10, <2>1
<1>12. SizeInv(u)
  BY <1>3, <1>4, SetFact
<1>13. ~u.panic
  BY <1>2
<1> HIDE DEF skip, n
<1>14. CASE j + 1 \notin skip
  <2>1. ~Refused(t, 2 + Len(e.val), F)
    BY <1>11, <1>14
  <2>2. Above(t, e.key)
    <3> SUFFICES ASSUME NEW p \in DOMAIN t.offs PROVE KeyAt(t, p) < e.key
      BY DEF Above
    <3>1. PICK i \in 1..j : KeyAt(t, p) = items[i].key
      BY <1>5
    <3> QED BY <1>3, <1>6, <1>9, <3>1
  <2> HIDE DEF t, e, F
  <2>3. /\ Layout(u) /\ Holds(u, e.key, e.val)
        /\ \A k : \A v \in Seq(Nat) : Holds(t, k, v) => Holds(u, k, v)
        /\ \A p \in DOMAIN u.offs : \/ KeyAt(u, p) = e.key
                                    \/ \E q \in DOMAIN t.offs : KeyAt(u, p) = KeyAt(t, q)
    BY <1>3, <1>4, <1>5, <1>13, <2>1, <2>2, SetWrites
  <2>4. u.fsz >= u.off /\ u.msz >= u.off
    BY <1>3, <1>4, <1>13, <2>1, SetFact
  <2> HIDE DEF u
  <2>5. \A p \in DOMAIN u.offs : \E i \in 1..(j + 1) : KeyAt(u, p) = items[i].key
    <3> TAKE p \in DOMAIN u.offs
    <3>1. CASE KeyAt(u, p) = e.key
      <4>1. j + 1 \in 1..(j + 1)
        BY <1>3
      <4> QED BY <3>1, <4>1 DEF e
    <3>2. CASE \E q \in DOMAIN t.offs : KeyAt(u, p) = KeyAt(t, q)
      BY <1>5, <1>6, <3>2
    <3> QED BY <2>3, <3>1, <3>2
  <2>6. ASSUME NEW i \in 1..(j + 1), i \notin skip, i + 1 \notin skip \/ i = j + 1
        PROVE  Holds(u, items[i].key, items[i].val)
    <3>1. CASE i = j + 1
      BY <2>3, <3>1 DEF e
    <3>2. CASE i \in 1..j
      <4>1. i + 1 \notin skip
        BY <1>6, <2>6, <3>2
      <4>2. Holds(t, items[i].key, items[i].val)
        BY <1>5, <2>6, <3>2, <4>1
      <4> QED BY <1>6, <1>8, <2>3, <3>2, <4>2
    <3> QED BY <1>7, <3>1, <3>2
  <2> QED BY <1>2, <2>3, <2>4, <2>5, <2>6 DEF KeptUpTo, skip
<1>15. CASE j + 1 \in skip
  <2>1. Refused(t, 2 + Len(e.val), F) /\ j + 1 = at
    BY <1>10, <1>11, <1>15
  <2>2. t.fsz >= t.off /\ t.msz >= t.off
    BY <1>5, <1>6, <2>1
  <2>3. \A i \in 1..j : i \notin skip
    BY <1>6, <1>10, <2>1
  <2> HIDE DEF t, e, F
  <2>4. /\ Layout(u)
        /\ \A k : \A v \in Seq(Nat) :
              Holds(t, k, v) /\ (\E q \in DOMAIN t.offs : KeyAt(t, q) > k) => Holds(u, k, v)
        /\ u.offs = t.offs /\ \A p \in DOMAIN u.offs : KeyAt(u, p) = KeyAt(t, p)
    BY <1>3, <1>4, <1>5, <2>1, <2>2, SetSkips
  <2> HIDE DEF u
  <2>5. \A p \in DOMAIN u.offs : \E i \in 1..(j + 1) : KeyAt(u, p) = items[i].key
    BY <1>5, <1>6, <2>4
  <2>6. at \in 1..(j + 1)
    BY <1>3, <2>1
  <2>7. ASSUME NEW i \in 1..(j + 1), i \notin skip, i + 1 \notin skip \/ i = j + 1
        PROVE  Holds(u, items[i].key, items[i].val)
    <3>1. i \in 1..j /\ i # j /\ i + 1 \notin skip
      BY <1>7, <1>15, <2>7
    <3>2. j \in 1..j /\ i < j
      BY <3>1
    <3>3. Holds(t, items[i].key, items[i].val)
      BY <1>5, <2>7, <3>1
    <3>4. Holds(t, items[j].key, items[j].val)
      BY <1>5, <2>3, <3>2
    <3>5. PICK q \in DOMAIN t.offs : KeyAt(t, q) = items[j].key
      BY <3>4 DEF Holds
    <3>6. items[i].key < items[j].key /\ items[i].key \in Nat /\ items[j].key \in Nat
      BY <1>6, <1>8, <1>9, <3>1, <3>2
    <3>7. KeyAt(t, q) > items[i].key
      BY <3>5, <3>6
    <3> QED BY <1>6, <1>8, <2>4, <3>1, <3>3, <3>7
  <2> QED BY <1>2, <2>4, <2>5, <2>6, <2>7 DEF KeptUpTo, skip
<1> QED BY <1>14, <1>15

\* Whatever item fails, a loop that does not panic has written the others.
LEMMA LoopKept ==
  ASSUME NEW g, NEW items, NEW at, NEW f, Loop(g, items, at, f), NEW j \in 0..Len(items),
         ~g[j].panic
  PROVE  KeptUpTo(g, items, at, f, j)
<1> DEFINE n == Len(items)
           P(m) == g[m].panic \/ KeptUpTo(g, items, at, f, m)
           Bad == {m \in 0..n : ~P(m)}
<1>1. n \in Nat /\ DOMAIN items = 1..n /\ \A i \in 1..n : items[i] \in Item
  BY DEF Loop
<1> HIDE DEF n
<1> SUFFICES ASSUME Bad # {} PROVE FALSE
  BY DEF n
<1>2. Bad \subseteq Nat
  BY <1>1
<1>3. PICK m \in Bad : \A y \in Bad : m <= y
  <2> HIDE DEF Bad
  <2> QED BY <1>2, LeastNat
<1>4. m \in 0..n /\ ~P(m)
  BY <1>3
<1>5. m # 0
  <2> DEFINE t == g[0]
  <2>1. /\ SizeInv(t) /\ t.offs = <<>> /\ t.off = 2 /\ t.fsz >= 2 /\ t.msz >= 2
        /\ DOMAIN t.cells = {0}
    BY NewFact DEF Loop
  <2>2. DOMAIN t.offs = {}
    BY <2>1
  <2> HIDE DEF t
  <2>3. Layout(t)
    BY <2>1, <2>2 DEF Layout
  <2>4. t.fsz >= t.off /\ t.msz >= t.off
    BY <2>1
  <2>5. \A i \in 1..0 : FALSE
    OBVIOUS
  <2>6. P(0)
    BY <2>2, <2>3, <2>4, <2>5 DEF KeptUpTo, t
  <2> QED BY <1>4, <2>6
<1>6. m \in 1..n /\ m - 1 \in 0..n /\ ~(m <= m - 1) /\ m - 1 \in Nat /\ (m - 1) + 1 = m
  BY <1>1, <1>4, <1>5
<1>7. m - 1 \notin Bad
  <2> HIDE DEF Bad
  <2> QED BY <1>3, <1>6
<1>8. P(m - 1)
  BY <1>6, <1>7
<1>9. ~g[m].panic /\ ~KeptUpTo(g, items, at, f, m)
  BY <1>4
<1>10. ~g[m - 1].panic
  <2> DEFINE F == IF m = at THEN f ELSE "none"
  <2>1. g[m] = SetItem(g[m - 1], items[m], F) /\ items[m] \in Item
    BY <1>1, <1>6 DEF Loop
  <2>2. SizeInv(g[m - 1])
    BY <1>6, LoopSizes DEF n
  <2> HIDE DEF F
  <2>3. g[m - 1].panic => g[m].panic
    BY <2>1, <2>2, SetFact
  <2> QED BY <1>9, <2>3
<1>11. KeptUpTo(g, items, at, f, m - 1)
  BY <1>8, <1>10
<1>12. KeptUpTo(g, items, at, f, (m - 1) + 1)
  <2>1. m - 1 + 1 \in DOMAIN items /\ ~g[m - 1 + 1].panic
    BY <1>1, <1>6, <1>9
  <2> QED BY <1>6, <1>11, <2>1, KeptStep
<1> QED BY <1>6, <1>9, <1>12

-----------------------------------------------------------------------------
(***************************************************************************)
(* The finished table.                                                     *)
(***************************************************************************)

\* A table readers can use: its keys rise, its values are words.
Readable(b) ==
  /\ b.num \in Nat
  /\ \A i \in 1..b.num : GetKey(b, i) \in Nat /\ GetValue(b, i) \in Seq(Nat)
  /\ \A i, j \in 1..b.num : i < j => GetKey(b, i) < GetKey(b, j)

\* Key k has value v in it.
ReadsAs(b, k, v) == \E i \in 1..b.num : GetKey(b, i) = k /\ GetValue(b, i) = v

\* It is on disk, or its size needs no cut.
OnDisk(b) == b.synced \/ b.off = CalcExpandSize(b.off)

\* writeFinish, field by field.
LEMMA FinishShape ==
  ASSUME NEW t, SizeInv(t), ~t.panic => t.off >= 2
  PROVE  LET w == WriteFinish(t)
             n == Len(t.offs) IN
         /\ DOMAIN w = TableFields /\ w.panic \in BOOLEAN /\ (w.panic => w.over)
         /\ ~t.panic /\ ~t.over /\ t.off + n < OffsetLimit => ~w.panic
         /\ ~w.panic =>
              /\ ~t.panic /\ w.off = t.off + n /\ w.num = n /\ w.idx = t.off /\ OnDisk(w)
              /\ w.cells = Written(IF n = 0 THEN Written(t.cells, 0, <<w.off>>)
                                   ELSE Written(Written(t.cells, 0, <<w.off>>), t.off, t.offs),
                                   1, << <<n, t.off>> >>)
<1> DEFINE n == Len(t.offs)
           a == Alloc(t, n, "none")
           i == IF n = 0 THEN a ELSE Fill(a, n, t.offs)
           p == [i EXCEPT !.num = n, !.idx = a.off - n, !.offs = <<>>]
           x == << <<n, a.off - n>> >>
           h == WriteAt(p, 1, x)
           c == IF h.fsz # h.off THEN FileTruncate(h, h.off) ELSE h
           w == WriteFinish(t)
<1>1. n \in Nat /\ t.off \in Nat /\ t.off < OffsetLimit /\ OffsetLimit \in Nat /\ OffsetLimit > 6
  BY MapAssumption DEF SizeInv
<1>2. w = IF t.panic \/ i.panic THEN [i EXCEPT !.panic = TRUE] ELSE [c EXCEPT !.msz = c.off]
  BY DEF WriteFinish, HeaderLen
<1> HIDE DEF w, n
<1>3. t.off + n > 0 \/ t.over
  BY <1>1 DEF SizeInv
<1>4. /\ SizeInv(a) /\ SameItems(a, t) /\ a.off = Offset(t, n) /\ a.fsz >= a.off /\ a.msz >= a.off
      /\ a.over = (t.over \/ t.off + n >= OffsetLimit)
      /\ ~a.panic => a.cells = Written(t.cells, 0, <<a.off>>)
      /\ t.panic => a.panic
  <2>0. n \in Nat
    BY <1>1
  <2>1. ~Refused(t, n, "none")
    BY DEF Refused
  <2>2. LET b == Alloc(t, n, "none")
            o == Offset(t, n) IN
        /\ SizeInv(b) /\ SameItems(b, t) /\ b.off = o /\ b.fsz >= o /\ b.msz >= o
        /\ b.over = (t.over \/ t.off + n >= OffsetLimit)
        /\ t.panic => b.panic
        /\ ~b.panic => b.cells = Written(t.cells, 0, <<o>>)
    BY ONLY SizeInv(t), <2>0, <1>3, <2>1, AllocFact, Zenon
  <2> HIDE DEF a
  <2> QED BY <2>2 DEF a
<1>5. /\ t.off + n < OffsetLimit => a.off = t.off + n
      /\ t.off + n >= OffsetLimit => a.off < n
  BY <1>1, <1>4, OffsetFact
<1> HIDE DEF a
<1>6. a.off < n => a.over
  <2>1. a.off < n => t.off + n >= OffsetLimit
    BY <1>1, <1>5
  <2> QED BY <1>4, <2>1
<1>7. /\ SizeInv(i) /\ i.off = a.off /\ i.fsz >= i.off /\ i.msz >= i.off /\ i.over = a.over
      /\ a.panic => i.panic
      /\ ~i.panic => /\ a.off = t.off + n /\ a.off - n = t.off
                     /\ i.cells = IF n = 0 THEN Written(t.cells, 0, <<a.off>>)
                                  ELSE Written(Written(t.cells, 0, <<a.off>>), t.off, t.offs)
  <2>1. CASE n = 0
    <3>1. i = a /\ t.off + n < OffsetLimit
      BY <1>1, <2>1
    <3> QED BY <1>1, <1>4, <1>5, <2>1, <3>1
  <2>2. CASE n # 0
    <3>0. i = Fill(a, n, t.offs)
      BY <2>2
    <3> HIDE DEF i
    <3>1. /\ SizeInv(i) /\ i.off = a.off /\ i.fsz = a.fsz /\ i.msz = a.msz /\ i.over = a.over
          /\ a.panic => i.panic
          /\ a.off < n => i.panic
          /\ ~i.panic => i.cells = Written(a.cells, a.off - n, t.offs)
      BY <1>1, <1>4, <1>6, <3>0, FillFact DEF n
    <3>2. ~i.panic => a.off = t.off + n /\ a.off - n = t.off
      BY <1>1, <1>5, <3>1
    <3>3. ~i.panic => i.cells = Written(Written(t.cells, 0, <<a.off>>), t.off, t.offs)
      BY <1>4, <3>1, <3>2
    <3> QED BY <1>4, <2>2, <3>1, <3>2, <3>3
  <2> QED BY <2>1, <2>2
<1> HIDE DEF i
<1>8. CASE t.panic \/ i.panic
  <2>1. w = [i EXCEPT !.panic = TRUE] /\ DOMAIN i = TableFields
    BY <1>2, <1>7, <1>8 DEF SizeInv
  <2>2. DOMAIN w = TableFields /\ w.panic = TRUE /\ w.over = i.over
    BY <2>1 DEF TableFields
  <2>3. i.over
    BY <1>4, <1>7, <1>8 DEF SizeInv
  <2>4. ~(~t.panic /\ ~t.over /\ t.off + n < OffsetLimit)
    <3>1. t.off + n < OffsetLimit => ~(t.off + n >= OffsetLimit)
      BY <1>1
    <3> QED BY <1>4, <1>7, <2>3, <3>1
  <2> QED BY <2>2, <2>3, <2>4 DEF w, n
<1>9. CASE ~(t.panic \/ i.panic)
  <2>0. /\ a.off = t.off + n /\ a.off - n = t.off /\ DOMAIN i = TableFields /\ i.fsz \in Nat
        /\ i.msz \in Nat /\ Rounded(i.fsz) /\ t.off >= 2
    BY <1>7, <1>9 DEF SizeInv
  <2>1. w = [c EXCEPT !.msz = c.off]
    BY <1>2, <1>9
  <2>2. /\ DOMAIN p = TableFields /\ p.off = i.off /\ p.fsz = i.fsz /\ p.msz = i.msz
        /\ p.cells = i.cells /\ p.panic = i.panic /\ p.num = n /\ p.idx = a.off - n
    BY <2>0 DEF TableFields
  <2> HIDE DEF p
  <2>3. Len(x) = 1
    OBVIOUS
  <2>4. InBounds(p, 1, 1)
    <3>1. p.fsz >= 2 /\ p.msz >= 2
      BY <1>1, <1>7, <2>0, <2>2
    <3> QED BY <2>0, <2>2, <3>1 DEF InBounds
  <2>5. SameShape(h, p) /\ h.cells = Written(p.cells, 1, x) /\ h.panic = p.panic
    <3> HIDE DEF x
    <3>1. InBounds(p, 1, Len(x))
      BY <2>3, <2>4
    <3>2. DOMAIN p = TableFields
      BY <2>2
    <3> QED BY ONLY <3>1, <3>2, AccessFact, Zenon
  <2> HIDE DEF h
  <2>6. /\ DOMAIN c = TableFields /\ c.off = h.off /\ c.cells = h.cells /\ c.panic = h.panic
        /\ c.num = h.num /\ c.idx = h.idx
        /\ c.synced = TRUE \/ h.fsz = h.off
    <3>0. DOMAIN h = TableFields
      BY <2>5 DEF SameShape
    <3>1. CASE h.fsz # h.off
      <4>1. c = [h EXCEPT !.fsz = h.off, !.synced = TRUE]
        BY <3>1 DEF FileTruncate
      <4> HIDE DEF c
      <4> QED BY <3>0, <4>1 DEF TableFields
    <3>2. CASE h.fsz = h.off
      BY <3>0, <3>2
    <3> QED BY <3>1, <3>2
  <2> HIDE DEF c
  <2>7. /\ DOMAIN w = TableFields /\ w.off = c.off /\ w.cells = c.cells /\ w.panic = c.panic /\ w.num = c.num
        /\ w.idx = c.idx /\ w.synced = c.synced
    BY <2>1, <2>6 DEF TableFields
  <2>8. w.off = t.off + n /\ w.num = n /\ w.idx = t.off /\ w.panic = i.panic
    BY <1>7, <2>0, <2>2, <2>5, <2>6, <2>7 DEF SameShape
  <2>9. OnDisk(w)
    <3>1. CASE c.synced = TRUE
      BY <2>7, <3>1 DEF OnDisk
    <3>2. CASE h.fsz = h.off
      <4>1. Rounded(w.off) /\ w.off # 0
        <5>1. w.off = h.fsz /\ h.fsz = i.fsz
          BY <2>2, <2>5, <2>6, <2>7, <3>2 DEF SameShape
        <5> QED BY <1>1, <2>0, <2>8, <5>1
      <4> QED BY <4>1 DEF OnDisk, Rounded
    <3> QED BY <2>6, <3>1, <3>2
  <2>10. w.cells = Written(i.cells, 1, << <<n, t.off>> >>)
    BY <2>0, <2>2, <2>5, <2>6, <2>7
  <2>11. w.panic = FALSE /\ t.panic = FALSE
    BY <1>7, <1>9, <2>8 DEF SizeInv
  <2> QED BY <1>7, <1>9, <2>0, <2>7, <2>8, <2>9, <2>10, <2>11 DEF w, n
<1> QED BY <1>8, <1>9

\* What writeFinish makes readable is what the loop has written.
LEMMA FinishReads ==
  ASSUME NEW t, SizeInv(t), Layout(t), ~WriteFinish(t).panic
  PROVE  LET w == WriteFinish(t) IN
         /\ Readable(w)
         /\ \A k : \A v \in Seq(Nat) : Holds(t, k, v) => ReadsAs(w, k, v)
         /\ \A i \in 1..w.num : i \in DOMAIN t.offs /\ GetKey(w, i) = KeyAt(t, i)
<1> DEFINE w == WriteFinish(t)
           n == Len(t.offs)
           d == IF n = 0 THEN Written(t.cells, 0, <<w.off>>)
                ELSE Written(Written(t.cells, 0, <<w.off>>), t.off, t.offs)
           x == << <<n, t.off>> >>
<1>1. t.off >= 2 /\ t.off \in Nat /\ t.offs \in Seq(Int)
  BY DEF Layout, SizeInv
<1>2. /\ w.off = t.off + n /\ w.num = n /\ w.idx = t.off /\ w.cells = Written(d, 1, x)
  BY <1>1, FinishShape
<1>3. n \in Nat /\ DOMAIN t.offs = 1..n /\ \A i \in 1..n : t.offs[i] \in Int
  BY <1>1
<1>4. Len(x) = 1 /\ 1..(1 + 1 - 1) = {1}
  OBVIOUS
<1> HIDE DEF w, x, n
<1>5. DOMAIN w.cells = DOMAIN d \cup {1} /\ \A y \in DOMAIN d : y # 1 => w.cells[y] = d[y]
  BY <1>2, <1>4 DEF Written
<1>6. CASE n = 0
  <2>1. \A i \in 1..n : FALSE
    BY <1>6
  <2> QED BY <1>2, <1>3, <1>6, <2>1 DEF Readable, Holds, w
<1>7. CASE n # 0
  <2>1. d = Written(Written(t.cells, 0, <<w.off>>), t.off, t.offs)
    BY <1>7
  <2>2. \A y \in DOMAIN t.cells : y \in Nat
    BY DEF Layout
  <2>3. Behind(d, t.cells, t.off, t.offs)
    BY <1>1, <1>3, <2>1, <2>2, WrittenFact DEF n
  <2> HIDE DEF d
  <2>4. /\ \A y \in Nat : y >= 2 /\ y < t.off => /\ y \in DOMAIN w.cells <=> y \in DOMAIN t.cells
                                                 /\ w.cells[y] = t.cells[y] \/ y \notin DOMAIN t.cells
        /\ \A i \in 1..n : w.cells[t.off + i - 1] = t.offs[i]
    <3>1. ASSUME NEW y \in Nat, y >= 2, y < t.off
          PROVE  /\ y \in DOMAIN w.cells <=> y \in DOMAIN t.cells
                 /\ w.cells[y] = t.cells[y] \/ y \notin DOMAIN t.cells
      <4>1. y >= 1 /\ y # 1
        BY <3>1
      <4> QED BY <1>5, <2>3, <3>1, <4>1 DEF Behind
    <3>2. ASSUME NEW i \in 1..n PROVE w.cells[t.off + i - 1] = t.offs[i]
      <4>1. t.off + i - 1 \in DOMAIN d /\ d[t.off + i - 1] = t.offs[i]
        BY <2>3 DEF Behind, n
      <4>2. t.off + i - 1 # 1
        BY <1>1, <1>3
      <4> QED BY <1>5, <4>1, <4>2
    <3> QED BY <3>1, <3>2
  <2>5. \A i \in 1..n : ItemOffset(w, i) = t.offs[i]
    BY <1>2, <2>4 DEF ItemOffset
  <2>6. ASSUME NEW i \in 1..n
        PROVE  /\ t.offs[i] >= 2 /\ t.offs[i] \in Int /\ End(t, i) \in Int
               /\ t.offs[i] + 2 <= End(t, i) /\ End(t, i) <= t.off
               /\ GetKey(w, i) = KeyAt(t, i)
    <3>1. /\ t.offs[i] >= 2 /\ t.offs[i] + 2 <= End(t, i) /\ End(t, i) <= t.off
          /\ t.offs[i] + 1 \in DOMAIN t.cells
      BY <1>3 DEF Layout
    <3>2. End(t, i) \in Int
      <4>1. i # n => i + 1 \in 1..n
        BY <1>3
      <4> QED BY <1>1, <1>3, <4>1 DEF End, n
    <3>3. t.offs[i] \in Int
      BY <1>3
    <3>4. t.offs[i] + 1 \in Nat /\ t.offs[i] + 1 >= 2 /\ t.offs[i] + 1 < t.off
      <4>1. t.off \in Int
        BY <1>1
      <4> QED BY ONLY <3>1, <3>2, <3>3, <4>1
    <3>5. GetKey(w, i) = KeyAt(t, i)
      BY <2>4, <2>5, <3>1, <3>4 DEF GetKey, KeyAt
    <3> QED BY <3>1, <3>2, <3>3, <3>5
  <2>7. ASSUME NEW i \in 1..n
        PROVE  LET m == End(t, i) - t.offs[i] - 2 IN
               /\ m \in Nat /\ GetValue(w, i) \in Seq(Nat) /\ DOMAIN GetValue(w, i) = 1..m
               /\ \A j \in 1..m : t.offs[i] + 1 + j \in DOMAIN t.cells =>
                                    GetValue(w, i)[j] = t.cells[t.offs[i] + 1 + j]
    <3> DEFINE o == t.offs[i]
               m == End(t, i) - o - 2
               v == GetValue(w, i)
    <3>1. /\ o >= 2 /\ o \in Int /\ End(t, i) \in Int /\ o + 2 <= End(t, i) /\ End(t, i) <= t.off
      BY <2>6
    <3>2. m \in Nat
      BY ONLY <3>1
    <3>3. v = ReadAt(w, o + 2, m)
      <4>1. (IF i = w.num THEN w.idx ELSE ItemOffset(w, i + 1)) = End(t, i)
        <5>1. i # n => i + 1 \in 1..n
          BY <1>3
        <5> QED BY <1>2, <2>5, <5>1 DEF End, n
      <4> QED BY <2>5, <4>1 DEF GetValue
    <3>4. v = [j \in 1..m |-> IF o + 2 + j - 1 \in DOMAIN w.cells THEN w.cells[o + 2 + j - 1] ELSE 0]
      BY <3>3 DEF ReadAt
    <3> HIDE DEF v
    <3>5. ASSUME NEW j \in 1..m
          PROVE  /\ v[j] \in Nat
                 /\ o + 1 + j \in DOMAIN t.cells => v[j] = t.cells[o + 1 + j]
      <4> DEFINE y == o + 1 + j
      <4>1. o + 2 + j - 1 = y /\ y \in Nat /\ y >= 2 /\ y < t.off
        <5>1. t.off \in Int /\ j \in Int /\ j >= 1 /\ j <= End(t, i) - o - 2
          BY <1>1, <3>2
        <5> QED BY ONLY <3>1, <5>1
      <4>2. v[j] = IF y \in DOMAIN w.cells THEN w.cells[y] ELSE 0
        BY <3>4, <4>1
      <4> HIDE DEF y
      <4>3. y \in DOMAIN w.cells => w.cells[y] \in Nat
        BY <2>4, <4>1 DEF Layout
      <4>4. v[j] \in Nat /\ (y \in DOMAIN t.cells => v[j] = t.cells[y])
        BY <2>4, <4>1, <4>2, <4>3
      <4> QED BY <4>4 DEF y
    <3>6. DOMAIN v = 1..m
      BY <3>4
    <3>7. v \in Seq(Nat)
      <4>1. v = [j \in 1..m |-> v[j]]
        BY <3>4
      <4> HIDE DEF m
      <4> QED BY <3>2, <3>5, <4>1
    <3> QED BY <3>2, <3>5, <3>6, <3>7 DEF v
  <2>8. Readable(w)
    <3>1. \A i \in 1..n : GetKey(w, i) \in Nat
      BY <1>3, <2>6, KeyNat
    <3>2. \A i, j \in 1..n : i < j => GetKey(w, i) < GetKey(w, j)
      BY <1>3, <2>6 DEF Layout
    <3> QED BY <1>2, <1>3, <2>7, <3>1, <3>2 DEF Readable
  <2>9. ASSUME NEW k, NEW v \in Seq(Nat), Holds(t, k, v) PROVE ReadsAs(w, k, v)
    <3>1. PICK i \in DOMAIN t.offs : KeyAt(t, i) = k /\ ValueIs(t, i, v)
      BY <2>9 DEF Holds
    <3>2. i \in 1..n
      BY <1>3
    <3> DEFINE o == t.offs[i]
               m == End(t, i) - o - 2
               u == GetValue(w, i)
    <3>3. /\ m \in Nat /\ u \in Seq(Nat) /\ DOMAIN u = 1..m
          /\ \A j \in 1..m : o + 1 + j \in DOMAIN t.cells => u[j] = t.cells[o + 1 + j]
      BY <2>7, <3>2
    <3>4. o \in Int /\ End(t, i) = o + 2 + Len(v) /\ Len(v) \in Nat
      BY <2>6, <3>1, <3>2 DEF ValueIs
    <3>5. m = Len(v)
      BY ONLY <3>4
    <3> HIDE DEF m, u
    <3>6. \A j \in 1..Len(v) : u[j] = v[j]
      BY <3>1, <3>3, <3>5 DEF ValueIs
    <3>7. Len(u) = m /\ u = [j \in 1..m |-> u[j]] /\ v = [j \in 1..Len(v) |-> v[j]]
      BY <3>3
    <3>8. u = v
      BY <3>5, <3>6, <3>7
    <3>9. GetKey(w, i) = k
      BY <2>6, <3>1, <3>2
    <3> QED BY <1>2, <3>2, <3>8, <3>9 DEF ReadsAs, u
  <2> QED BY <1>2, <1>3, <2>6, <2>8, <2>9 DEF w
<1> QED BY <1>6, <1>7

\* The table a flush builds of items with rising keys when item at may fail in step f:
\* it panics only past the limit; otherwise it is on disk and readable, and has every
\* item but a skipped one and the one before it.
LEMMA FlushedTable ==
  ASSUME NEW items \in Seq(Item), NEW at \in Nat, NEW f,
         \A i, j \in DOMAIN items : i < j => items[i].key < items[j].key
  PROVE  LET all == SetAll(items, [i \in DOMAIN items |-> IF i = at THEN f ELSE "none"])
             done == WriteFinish(all)
             skipped == SkippedBy(items, at, f) IN
         /\ all.panic => all.over
         /\ done.panic => done.over
         /\ ~done.panic =>
              /\ Readable(done) /\ OnDisk(done)
              /\ \A i \in 1..done.num : \E j \in DOMAIN items : GetKey(done, i) = items[j].key
              /\ \A i \in DOMAIN items : i \notin skipped /\ i + 1 \notin skipped =>
                   ReadsAs(done, items[i].key, items[i].val)
<1> DEFINE n == Len(items)
           F == [i \in DOMAIN items |-> IF i = at THEN f ELSE "none"]
           all == SetAll(items, F)
           done == WriteFinish(all)
           skipped == SkippedBy(items, at, f)
<1>1. n \in Nat /\ DOMAIN items = 1..n /\ \A i \in 1..n : items[i] \in Item
  OBVIOUS
<1>2. PICK g : /\ g[0] = NewArrayTable
               /\ \A i \in 1..n : g[i] = SetItem(g[i - 1], items[i], F[i])
               /\ all = g[n]
  BY <1>1, RunFact
<1>3. \A i \in 1..n : F[i] = IF i = at THEN f ELSE "none"
  BY <1>1
<1> HIDE DEF F, n, all
<1>4. Loop(g, items, at, f)
  <2>1. \A i \in DOMAIN items : g[i] = SetItem(g[i - 1], items[i], IF i = at THEN f ELSE "none")
    BY <1>1, <1>2, <1>3
  <2> QED BY <1>2, <2>1 DEF Loop
<1>5. n \in 0..Len(items) /\ n = Len(items)
  BY <1>1 DEF n
<1>6. SizeInv(all)
  BY <1>2, <1>4, <1>5, LoopSizes
<1>7. ~all.panic => KeptUpTo(g, items, at, f, n)
  BY <1>2, <1>4, <1>5, LoopKept
<1>8. ~all.panic => Layout(all)
  BY <1>2, <1>7 DEF KeptUpTo
<1>9. ~all.panic => all.off >= 2
  BY <1>8 DEF Layout
<1>10. /\ done.panic \in BOOLEAN /\ (done.panic => done.over)
       /\ ~done.panic => ~all.panic /\ OnDisk(done)
  BY <1>6, <1>9, FinishShape
<1> HIDE DEF done
<1>11. ASSUME ~done.panic
       PROVE  /\ Readable(done)
              /\ \A k : \A v \in Seq(Nat) : Holds(all, k, v) => ReadsAs(done, k, v)
              /\ \A i \in 1..done.num : i \in DOMAIN all.offs /\ GetKey(done, i) = KeyAt(all, i)
  BY <1>6, <1>8, <1>10, <1>11, FinishReads DEF done
<1>12. Skip(g, items, at, f) \subseteq skipped
  <2> SUFFICES ASSUME NEW j \in Skip(g, items, at, f) PROVE j \in skipped
    OBVIOUS
  <2>1. j \in 1..n /\ j = at /\ Refused(g[j - 1], 2 + Len(items[j].val), f)
    BY <1>1 DEF Skip
  <2> DEFINE sub == SubSeq(items, 1, j - 1)
             none == [h \in 1..(j - 1) |-> "none"]
  <2>2. j - 1 \in Nat /\ j - 1 <= n
    BY <1>1, <2>1
  <2>3. Len(sub) = j - 1 /\ \A i \in 1..(j - 1) : sub[i] = items[i]
    BY <1>1, <2>1, <2>2 DEF n
  <2>4. \A i \in 1..(j - 1) : none[i] = "none" /\ i \in 1..n /\ i # j
    BY <1>1, <2>1, <2>2
  <2> HIDE DEF sub, none
  <2>5. PICK h : /\ h[0] = NewArrayTable
                 /\ \A i \in 1..(j - 1) : h[i] = SetItem(h[i - 1], sub[i], none[i])
                 /\ SetAll(sub, none) = h[j - 1]
    BY <2>2, <2>3, RunFact
  <2>6. \A i \in 1..(j - 1) : /\ items[i] = sub[i] /\ F[i] = none[i]
                              /\ g[i] = SetItem(g[i - 1], items[i], F[i])
    BY <1>2, <1>3, <2>1, <2>3, <2>4
  <2>7. g[j - 1] = h[j - 1]
    <3>1. Steps(g, j - 1, items, F)
      BY <1>2, <2>6 DEF Steps
    <3>2. Steps(h, j - 1, sub, none)
      BY <2>5 DEF Steps
    <3>4. \A i \in 1..(j - 1) : items[i] = sub[i] /\ F[i] = none[i]
      BY <2>6
    <3>5. j - 1 \in Nat
      BY <2>2
    <3> QED BY ONLY <3>1, <3>2, <3>4, <3>5, RunAgree
  <2>8. Refused(SetAll(sub, none), 2 + Len(items[j].val), f)
    BY <2>1, <2>5, <2>7
  <2> QED BY <1>1, <2>1, <2>8 DEF SkippedBy, sub, none
<1>13. ASSUME ~done.panic, NEW i \in DOMAIN items, i \notin skipped, i + 1 \notin skipped
       PROVE  ReadsAs(done, items[i].key, items[i].val)
  <2>1. i \notin Skip(g, items, at, f) /\ i + 1 \notin Skip(g, items, at, f) /\ i \in 1..n
    BY <1>1, <1>12, <1>13
  <2>2. Holds(all, items[i].key, items[i].val)
    BY <1>2, <1>7, <1>10, <1>13, <2>1 DEF KeptUpTo
  <2>3. items[i].val \in Seq(Nat)
    BY <1>1, <2>1 DEF Item
  <2> QED BY <1>11, <1>13, <2>2, <2>3
<1>14. ASSUME ~done.panic, NEW i \in 1..done.num
       PROVE  \E j \in DOMAIN items : GetKey(done, i) = items[j].key
  <2>1. i \in DOMAIN all.offs /\ GetKey(done, i) = KeyAt(all, i)
    BY <1>11, <1>14
  <2> QED BY <1>1, <1>2, <1>7, <1>10, <1>14, <2>1 DEF KeptUpTo
<1>15. all.panic => all.over
  BY <1>6 DEF SizeInv
<1> QED BY <1>10, <1>11, <1>13, <1>14, <1>15 DEF done, all, F

-----------------------------------------------------------------------------
(***************************************************************************)
(* What the tables hold.                                                   *)
(***************************************************************************)

Rising(q) == \A i, j \in DOMAIN q : i < j => q[i] < q[j]

\* Array table at has for key k the value of write x or of a later one.
Has(ts, ko, at, k, x) ==
  /\ at # 0 /\ Readable(ts[at].body)
  /\ \E s \in x..Len(ko) : ko[s] = k /\ ReadsAs(ts[at].body, k, Val(s))

\* Memtables M and array table at lose nothing of key k from write x on.
Finds(ts, ko, M, at, k, x) ==
  \/ x = 0
  \/ \E t \in M : ts[t].body[k] >= x
  \/ (\A t \in M : ts[t].body[k] = 0) /\ Has(ts, ko, at, k, x)

\* Array table new has for key k what memtables M and array table at have.
Merged(ts, M, at, new, k) ==
  /\ Readable(ts[new].body)
  /\ \/ \E t \in M : /\ ts[t].body[k] # 0
                     /\ \A u \in M : ts[u].body[k] <= ts[t].body[k]
                     /\ ReadsAs(ts[new].body, k, Val(ts[t].body[k]))
     \/ /\ \A t \in M : ts[t].body[k] = 0
        /\ at # 0 => \A i \in 1..ts[at].body.num : GetKey(ts[at].body, i) = k =>
                       ReadsAs(ts[new].body, k, GetValue(ts[at].body, i))

\* The writes, and the one that is under way.
WriteInv ==
  /\ keyOf \in Seq(Nat)
  /\ latest \in [Keys -> Nat] /\ \A k \in Keys : latest[k] <= Len(keyOf)
  /\ wr.mem # 0 => /\ wr.key \in Keys /\ wr.seq = Len(keyOf) /\ wr.seq > 0
                   /\ keyOf[wr.seq] = wr.key

\* A memtable has for a key a write of that key.
MemInv ==
  \A t \in Of("mem") : /\ tabs[t].body \in [Keys -> Nat]
                       /\ \A k \in Keys : tabs[t].body[k] # 0 =>
                            tabs[t].body[k] \in 1..Len(keyOf) /\ keyOf[tabs[t].body[k]] = k

\* Later memtables have later writes, and the writer fills the last that has any.
OrderInv ==
  /\ \A t, u \in Of("mem") : t < u =>
       \A k \in Keys : tabs[u].body[k] # 0 => tabs[t].body[k] <= tabs[u].body[k]
  /\ wr.mem # 0 => \A t \in Of("mem") : t > wr.mem => \A k \in Keys : tabs[t].body[k] = 0
  /\ Rising(queue) /\ \A s \in DOMAIN states : Rising(states[s].mems)
  /\ status = "open" => \A t \in Of("mem") : t <= queue[Len(queue)]

\* Array tables panic only at the limit; one that was finished can be read and is on
\* disk.
FinishedInv ==
  \A t \in Of("arr") :
    /\ tabs[t].body.panic => tabs[t].body.over
    /\ t \notin orphans => /\ Readable(tabs[t].body) /\ OnDisk(tabs[t].body)
                           /\ \A i \in 1..tabs[t].body.num : GetKey(tabs[t].body, i) \in Keys

\* A table ready to be installed has all of its input but what was refused.
MergedInv ==
  fl.pc = "install" =>
    \A k \in Keys \ damaged : Merged(tabs, {queue[i] : i \in 1..fl.n}, arr, fl.new, k)

\* The queue and arrtable have the newest writes, and so has the current read state.
QueueFinds ==
  status = "open" =>
    \A k \in Keys \ damaged : Finds(tabs, keyOf, Range(queue), arr, k, latest[k])
ValFinds ==
  /\ status = "open" =>
       \A k \in Keys \ damaged :
         Finds(tabs, keyOf, Range(states[val].mems), states[val].arr, k, latest[k])
  /\ wr.mem # 0 => wr.mem \in Range(states[val].mems)

\* A reader's state has the writes it must see.
ReaderFinds ==
  \A r \in Readers : rd[r].rs # 0 =>
    \A k \in Keys :
      /\ rd[r].floor[k] \in 0..Len(keyOf)
      /\ k \notin damaged => Finds(tabs, keyOf, Range(states[rd[r].rs].mems),
                                   states[rd[r].rs].arr, k, rd[r].floor[k])

DataInv == /\ IInv /\ WriteInv /\ MemInv /\ OrderInv /\ FinishedInv /\ MergedInv
           /\ QueueFinds /\ ValFinds /\ ReaderFinds

-----------------------------------------------------------------------------
(***************************************************************************)
(* What the steps do to the contents of the tables.                        *)
(***************************************************************************)

\* readerUnref and setObsolete leave a table's contents.
LEMMA UnrefBody ==
  ASSUME NEW t, DOMAIN t = Fields
  PROVE  ReaderUnref(t).body = t.body /\ FlushUnref(t).body = t.body
<1> DEFINE s == SetObsolete(t)
<1>1. DOMAIN s = Fields /\ s.body = t.body
  BY DEF SetObsolete, Fields
<1> HIDE DEF s
<1>2. \A u : DOMAIN u = Fields => ReaderUnref(u).body = u.body
  BY DEF ReaderUnref, Fields
<1>3. FlushUnref(t) = ReaderUnref(s)
  BY DEF FlushUnref, s
<1> QED BY <1>1, <1>2, <1>3

\* So does readerRef.
LEMMA RefBody ==
  ASSUME NEW ts, NEW ids, \A i \in DOMAIN ts : DOMAIN ts[i] = Fields
  PROVE  \A i \in DOMAIN ts : Referenced(ts, ids)[i].body = ts[i].body
<1> SUFFICES ASSUME NEW i \in DOMAIN ts PROVE Referenced(ts, ids)[i].body = ts[i].body
  OBVIOUS
<1> DEFINE e == [ts[i] EXCEPT !.refs = ts[i].refs + 1]
<1>1. e.body = ts[i].body
  BY DEF Fields
<1> HIDE DEF e
<1>2. Referenced(ts, ids)[i] = IF i \in ids THEN e ELSE ts[i]
  BY DEF Referenced, e
<1> QED BY <1>1, <1>2

Bodies == \A t \in DOMAIN tabs : tabs'[t].body = tabs[t].body

\* Only apply changes what a table holds.
LEMMA BodyStep ==
  ASSUME IInv, [Next]_vars, ~Apply
  PROVE  Bodies
<1>0. TypeInv /\ PlaceInv /\ PhaseInv /\ DropsInv /\ CountInv /\ WriterInv
  BY DEF IInv
<1>1. \A t \in DOMAIN tabs : DOMAIN tabs[t] = Fields
  BY <1>0 DEF TypeInv
<1>2. tabs \in Seq(Range(tabs))
  BY <1>0 DEF TypeInv
<1>3. CASE UNCHANGED tabs
  BY <1>3 DEF Bodies
<1>4. ASSUME NEW a \in Actors, Drop(a) PROVE Bodies
  <2> DEFINE x == Head(drops[a])
             e == IF a = "flush" THEN FlushUnref(tabs[x]) ELSE ReaderUnref(tabs[x])
  <2>1. x \in DOMAIN tabs
    BY <1>0, <1>4, DropFact
  <2>2. tabs' = [tabs EXCEPT ![x] = e]
    BY <1>4 DEF Drop
  <2>3. e.body = tabs[x].body
    BY <1>1, <2>1, UnrefBody
  <2> HIDE DEF e, x
  <2> QED BY <2>1, <2>2, <2>3 DEF Bodies
<1>5. CASE UpdateEnd
  <2>1. CASE mu.by = "switch"
    <3> DEFINE x == queue[Len(queue) - 1]
               e == [tabs[x] EXCEPT !.writers = tabs[x].writers - 1]
    <3>1. tabs' = [tabs EXCEPT ![x] = e]
      BY <1>5, <2>1 DEF UpdateEnd
    <3>2. x \in DOMAIN tabs => e.body = tabs[x].body
      BY <1>1 DEF Fields
    <3> HIDE DEF e, x
    <3> QED BY <3>1, <3>2 DEF Bodies
  <2>2. CASE mu.by # "switch"
    BY <1>3, <1>5, <2>2 DEF UpdateEnd
  <2> QED BY <2>1, <2>2
<1>6. ASSUME NEW k \in Keys, Write(k) PROVE Bodies
  <2> DEFINE x == queue[Len(queue)]
             e == [tabs[x] EXCEPT !.writers = tabs[x].writers + 1, !.used = tabs[x].used + 1]
  <2>1. tabs' = [tabs EXCEPT ![x] = e]
    BY <1>6 DEF Write, Mutable
  <2>2. x \in DOMAIN tabs => e.body = tabs[x].body
    BY <1>1 DEF Fields
  <2> HIDE DEF e, x
  <2> QED BY <2>1, <2>2 DEF Bodies
<1>7. CASE SwitchMem
  <2> DEFINE ts == Append(tabs, NewMem)
  <2>1. /\ DOMAIN ts = 1..(Len(tabs) + 1) /\ \A t \in DOMAIN tabs : t \in DOMAIN ts /\ ts[t] = tabs[t]
        /\ ts[Len(tabs) + 1] = NewMem
    BY <1>2, AppendFact
  <2>2. DOMAIN tabs = 1..Len(tabs) /\ Len(tabs) \in Nat /\ DOMAIN NewMem = Fields
    BY <1>2 DEF NewMem, Fields
  <2>3. tabs' = Referenced(ts, RefsOf(Append(queue, Len(tabs) + 1), arr))
    BY <1>7 DEF SwitchMem, Update
  <2> HIDE DEF ts
  <2>4. \A t \in DOMAIN ts : DOMAIN ts[t] = Fields
    BY <1>1, <2>1, <2>2
  <2>5. \A t \in DOMAIN ts : tabs'[t].body = ts[t].body
    BY <2>3, <2>4, RefBody
  <2> QED BY <2>1, <2>5 DEF Bodies
<1>8. CASE FlushBuild
  BY <1>0, <1>8, BuildFact DEF Bodies
<1>9. CASE FlushInstall
  <2>1. tabs' = Referenced(tabs, RefsOf(SubSeq(queue, fl.n + 1, Len(queue)), fl.new))
    BY <1>9 DEF FlushInstall, Update
  <2> QED BY <1>1, <2>1, RefBody DEF Bodies
<1> QED BY <1>3, <1>4, <1>5, <1>6, <1>7, <1>8, <1>9, StepKinds

\* makeRoomForWrite's new memtable is empty.
LEMMA SwitchBody ==
  ASSUME IInv, SwitchMem
  PROVE  tabs'[Len(tabs) + 1].body = [k \in Keys |-> 0]
<1> DEFINE ts == Append(tabs, NewMem)
           n == Len(tabs) + 1
<1>1. tabs \in Seq(Range(tabs)) /\ \A t \in DOMAIN tabs : DOMAIN tabs[t] = Fields
  BY DEF IInv, TypeInv
<1>2. /\ DOMAIN ts = 1..n /\ (\A t \in DOMAIN tabs : ts[t] = tabs[t]) /\ ts[n] = NewMem
  BY <1>1, AppendFact
<1>3. DOMAIN tabs = 1..Len(tabs) /\ Len(tabs) \in Nat /\ DOMAIN NewMem = Fields
  BY <1>1 DEF NewMem, Fields
<1>4. tabs' = Referenced(ts, RefsOf(Append(queue, n), arr))
  BY DEF SwitchMem, Update
<1>5. \A t \in 1..n : t \in DOMAIN tabs \/ t = n
  BY <1>3
<1>6. n \in 1..n
  BY <1>3
<1> HIDE DEF ts, n
<1>7. \A t \in DOMAIN ts : DOMAIN ts[t] = Fields
  BY <1>1, <1>2, <1>3, <1>5
<1>8. tabs'[n].body = NewMem.body
  BY <1>2, <1>4, <1>6, <1>7, RefBody
<1> QED BY <1>8 DEF NewMem, n

\* apply's one entry.
LEMMA ApplyBody ==
  ASSUME IInv, Apply
  PROVE  /\ wr.mem \in Of("mem") /\ wr.mem # 0
         /\ tabs'[wr.mem].body = [tabs[wr.mem].body EXCEPT ![wr.key] = wr.seq]
         /\ \A t \in DOMAIN tabs : t # wr.mem => tabs'[t].body = tabs[t].body
<1> DEFINE x == wr.mem
           e == [tabs[x] EXCEPT !.body = [tabs[x].body EXCEPT ![wr.key] = wr.seq],
                                !.writers = tabs[x].writers - 1]
<1>0. TypeInv /\ PlaceInv /\ WriterInv
  BY DEF IInv
<1>1. x \in Range(queue) /\ x # 0
  BY <1>0 DEF Apply, WriterInv
<1>2. x \in Of("mem") /\ x \in DOMAIN tabs
  BY <1>0, <1>1 DEF PlaceInv, Of
<1>3. DOMAIN tabs[x] = Fields
  BY <1>0, <1>2 DEF TypeInv
<1>4. tabs' = [tabs EXCEPT ![x] = e]
  BY DEF Apply
<1>5. e.body = [tabs[x].body EXCEPT ![wr.key] = wr.seq]
  BY <1>3 DEF Fields
<1> HIDE DEF e, x
<1>6. tabs'[x] = e /\ \A t \in DOMAIN tabs : t # x => tabs'[t] = tabs[t]
  BY <1>2, <1>4
<1> QED BY <1>1, <1>2, <1>5, <1>6 DEF x

\* New tables: makeRoomForWrite's memtables and the flush's array tables.
LEMMA GrowFact ==
  ASSUME IInv, [Next]_vars
  PROVE  /\ \A t \in Of("mem")' : t \in Of("mem") \/ (SwitchMem /\ t = Len(tabs) + 1)
         /\ \A t \in Of("arr")' : t \in Of("arr") \/ (FlushBuild /\ t = Len(tabs) + 1)
         /\ Of("mem") \subseteq Of("mem")' /\ Of("arr") \subseteq Of("arr")'
<1>0. TypeInv /\ PlaceInv /\ PhaseInv /\ DropsInv /\ CountInv /\ WriterInv
  BY DEF IInv
<1>1. /\ DOMAIN tabs \subseteq DOMAIN tabs'
      /\ \A t \in DOMAIN tabs : tabs'[t].kind = tabs[t].kind
      /\ Of("mem") \subseteq Of("mem")' /\ Of("arr") \subseteq Of("arr")'
  BY KindStep
<1>2. CASE DOMAIN tabs' = DOMAIN tabs
  BY <1>1, <1>2 DEF Of
<1>3. CASE SwitchMem
  <2>1. DOMAIN tabs' = DOMAIN tabs \cup {Len(tabs) + 1} /\ tabs'[Len(tabs) + 1].kind = "mem"
    BY <1>0, <1>3, SwitchFact
  <2> QED BY <1>1, <1>3, <2>1 DEF Of
<1>4. CASE FlushBuild
  <2>1. DOMAIN tabs' = DOMAIN tabs \cup {Len(tabs) + 1} /\ tabs'[Len(tabs) + 1].kind = "arr"
    BY <1>0, <1>4, BuildFact
  <2> QED BY <1>1, <1>4, <2>1 DEF Of
<1>5. UpdateEnd => DOMAIN tabs' = DOMAIN tabs
  BY <1>0, UpdateEndFact DEF SameTabs
<1>6. \A k \in Keys : Write(k) => DOMAIN tabs' = DOMAIN tabs
  BY <1>0, WriteFact DEF SameTabs
<1>7. Apply => DOMAIN tabs' = DOMAIN tabs
  BY <1>0, ApplyFact DEF SameTabs
<1>8. \A a \in Actors : Drop(a) => DOMAIN tabs' = DOMAIN tabs
  BY <1>0, DropFact
<1>9. FlushInstall => DOMAIN tabs' = DOMAIN tabs
  BY <1>0, InstallFact
<1> QED BY <1>2, <1>3, <1>4, <1>5, <1>6, <1>7, <1>8, <1>9, StepKinds

\* runFlush works without mu.
LEMMA BuildRest ==
  ASSUME FlushBuild
  PROVE  UNCHANGED <<status, queue, arr, states, val, mu, drops, rd, wr, latest, keyOf>>
BY DEF FlushBuild

\* Which steps touch the histories.
LEMMA HistoryKinds ==
  ASSUME [Next]_vars
  PROVE  /\ (\E k \in Keys : Write(k)) \/ UNCHANGED keyOf
         /\ Apply \/ UNCHANGED latest
         /\ Apply \/ (\E k \in Keys : Write(k)) \/ UNCHANGED wr
         /\ FlushBuild \/ UNCHANGED damaged
         /\ status' = "open" => status = "open"
<1>1. FlushBuild => UNCHANGED <<status, wr, latest, keyOf>>
  BY BuildRest
<1>2. \/ UNCHANGED vars \/ UpdateUnref \/ Close \/ (\E r \in Readers : CloseReader(r) \/ Load(r))
      \/ SwitchMem \/ FlushInstall \/ (\E a \in Actors : Drop(a)) \/ UpdateSwap \/ UpdateEnd
      \/ (\E k \in Keys : Write(k)) \/ Apply \/ FlushStart \/ FlushBuild \/ FlushRefused
      \/ FlushEnd \/ CloseQueue
  BY DEF Next
<1> DEFINE Quiet == /\ UNCHANGED <<keyOf, latest, wr, damaged>>
                    /\ status' = "open" => status = "open"
<1>3. (UNCHANGED vars \/ UpdateUnref \/ Close \/ (\E r \in Readers : CloseReader(r) \/ Load(r))
       \/ SwitchMem \/ FlushInstall \/ (\E a \in Actors : Drop(a)) \/ UpdateSwap \/ UpdateEnd
       \/ FlushStart \/ FlushRefused \/ FlushEnd \/ CloseQueue) => Quiet
  BY DEF vars, Drop, UpdateSwap, UpdateEnd, UpdateUnref, FlushStart, FlushRefused, FlushEnd,
         CloseQueue, Close, CloseReader, Load, SwitchMem, FlushInstall
<1>4. \A k \in Keys : Write(k) => UNCHANGED <<latest, damaged, status>>
  BY DEF Write
<1>5. Apply => UNCHANGED <<keyOf, damaged, status>>
  BY DEF Apply
<1> QED BY <1>1, <1>2, <1>3, <1>4, <1>5

\* The history of writes only grows.
LEMMA KeyOfStep ==
  ASSUME WriteInv, [Next]_vars
  PROVE  /\ Len(keyOf) \in Nat /\ Len(keyOf') \in Nat /\ Len(keyOf) <= Len(keyOf')
         /\ \A s \in 1..Len(keyOf) : s \in 1..Len(keyOf') /\ keyOf'[s] = keyOf[s]
         /\ keyOf' \in Seq(Nat)
<1>1. keyOf \in Seq(Nat) /\ Len(keyOf) \in Nat
  BY DEF WriteInv
<1>2. ASSUME NEW k \in Keys, Write(k)
      PROVE  /\ Len(keyOf') = Len(keyOf) + 1 /\ keyOf' \in Seq(Nat)
             /\ \A s \in 1..Len(keyOf) : keyOf'[s] = keyOf[s]
  <2>1. keyOf' = Append(keyOf, k) /\ k \in Nat
    BY <1>2 DEF Write, Keys
  <2> QED BY <1>1, <2>1
<1>3. CASE \E k \in Keys : Write(k)
  <2>1. /\ Len(keyOf') = Len(keyOf) + 1 /\ keyOf' \in Seq(Nat)
        /\ \A s \in 1..Len(keyOf) : keyOf'[s] = keyOf[s]
    BY <1>2, <1>3
  <2> QED BY <1>1, <2>1
<1>4. CASE UNCHANGED keyOf
  BY <1>1, <1>4
<1> QED BY <1>3, <1>4, HistoryKinds

\* The writes are kept in order.
LEMMA WriteStep ==
  ASSUME DataInv, [Next]_vars
  PROVE  WriteInv'
<1>0. IInv /\ WriteInv /\ TypeInv /\ PlaceInv /\ PhaseInv
  BY DEF DataInv, IInv
<1>1. /\ Len(keyOf) \in Nat /\ Len(keyOf') \in Nat /\ Len(keyOf) <= Len(keyOf')
      /\ keyOf' \in Seq(Nat)
  BY <1>0, KeyOfStep
<1>2. latest \in [Keys -> Nat] /\ \A k \in Keys : latest[k] <= Len(keyOf)
  BY <1>0 DEF WriteInv
<1>3. ASSUME NEW k \in Keys, Write(k) PROVE WriteInv'
  <2>1. /\ keyOf' = Append(keyOf, k) /\ wr'.key = k /\ wr'.seq = Len(keyOf) + 1 /\ UNCHANGED latest
        /\ keyOf \in Seq(Nat) /\ k \in Nat
    BY <1>0, <1>3 DEF Write, WriteInv, Keys
  <2>2. Len(keyOf') = Len(keyOf) + 1 /\ keyOf'[Len(keyOf) + 1] = k
    BY <2>1
  <2>3. \A i \in Keys : latest'[i] <= Len(keyOf')
    BY <1>1, <1>2, <2>1
  <2> QED BY <1>1, <1>2, <2>1, <2>2, <2>3 DEF WriteInv
<1>4. CASE Apply
  <2>1. /\ latest' = [latest EXCEPT ![wr.key] = wr.seq] /\ wr'.mem = 0 /\ UNCHANGED keyOf
        /\ wr.mem # 0
    BY <1>4 DEF Apply, IdleWriter
  <2>2. wr.seq = Len(keyOf)
    BY <1>0, <2>1 DEF WriteInv
  <2>3. latest' \in [Keys -> Nat] /\ \A i \in Keys : latest'[i] <= Len(keyOf')
    BY <1>1, <1>2, <2>1, <2>2
  <2> QED BY <1>1, <2>1, <2>3 DEF WriteInv
<1>5. CASE UNCHANGED <<keyOf, latest, wr>>
  BY <1>0, <1>5 DEF WriteInv
<1> QED BY <1>3, <1>4, <1>5, HistoryKinds

\* What stands in a memtable is a write of the key it stands for.
LEMMA MemStep ==
  ASSUME DataInv, [Next]_vars
  PROVE  MemInv'
<1>0. IInv /\ WriteInv /\ MemInv /\ PlaceInv /\ TypeInv
  BY DEF DataInv, IInv
<1> SUFFICES ASSUME NEW t \in Of("mem")'
             PROVE  /\ tabs'[t].body \in [Keys -> Nat]
                    /\ \A k \in Keys : tabs'[t].body[k] # 0 =>
                         tabs'[t].body[k] \in 1..Len(keyOf') /\ keyOf'[tabs'[t].body[k]] = k
  BY DEF MemInv
<1>1. /\ Len(keyOf) \in Nat /\ Len(keyOf') \in Nat /\ Len(keyOf) <= Len(keyOf')
      /\ \A s \in 1..Len(keyOf) : s \in 1..Len(keyOf') /\ keyOf'[s] = keyOf[s]
  BY <1>0, KeyOfStep
<1>2. t \in Of("mem") \/ (SwitchMem /\ t = Len(tabs) + 1)
  BY <1>0, GrowFact
<1>3. ASSUME t \in Of("mem"), tabs'[t].body = tabs[t].body
      PROVE  /\ tabs'[t].body \in [Keys -> Nat]
             /\ \A k \in Keys : tabs'[t].body[k] # 0 =>
                  tabs'[t].body[k] \in 1..Len(keyOf') /\ keyOf'[tabs'[t].body[k]] = k
  BY <1>0, <1>1, <1>3 DEF MemInv
<1>4. CASE SwitchMem /\ t = Len(tabs) + 1
  <2>1. tabs'[t].body = [k \in Keys |-> 0]
    BY <1>0, <1>4, SwitchBody
  <2> QED BY <2>1
<1>5. CASE t \in Of("mem") /\ ~Apply
  <2>1. tabs'[t].body = tabs[t].body
    BY <1>0, <1>5, BodyStep DEF Bodies, Of
  <2> QED BY <1>3, <1>5, <2>1
<1>6. CASE t \in Of("mem") /\ Apply
  <2>1. /\ wr.mem # 0 /\ tabs'[wr.mem].body = [tabs[wr.mem].body EXCEPT ![wr.key] = wr.seq]
        /\ \A u \in DOMAIN tabs : u # wr.mem => tabs'[u].body = tabs[u].body
    BY <1>0, <1>6, ApplyBody
  <2>2. CASE t # wr.mem
    <3>1. tabs'[t].body = tabs[t].body
      BY <1>6, <2>1, <2>2 DEF Of
    <3> QED BY <1>3, <1>6, <3>1
  <2>3. CASE t = wr.mem
    <3>1. wr.key \in Keys /\ wr.seq = Len(keyOf) /\ wr.seq > 0 /\ keyOf[wr.seq] = wr.key
      BY <1>0, <2>1 DEF WriteInv
    <3>2. UNCHANGED keyOf
      BY <1>6 DEF Apply
    <3>3. tabs[t].body \in [Keys -> Nat]
      BY <1>0, <1>6 DEF MemInv
    <3>4. \A k \in Keys : tabs[t].body[k] # 0 =>
            tabs[t].body[k] \in 1..Len(keyOf) /\ keyOf[tabs[t].body[k]] = k
      BY <1>0, <1>6 DEF MemInv
    <3>5. /\ tabs'[t].body = [tabs[t].body EXCEPT ![wr.key] = wr.seq]
          /\ wr.seq \in 1..Len(keyOf)
      BY <1>1, <2>1, <2>3, <3>1
    <3>6. tabs'[t].body \in [Keys -> Nat]
      BY <1>1, <3>1, <3>3, <3>5
    <3>7. ASSUME NEW k \in Keys, tabs'[t].body[k] # 0
          PROVE  tabs'[t].body[k] \in 1..Len(keyOf) /\ keyOf[tabs'[t].body[k]] = k
      <4>1. CASE k = wr.key
        BY <3>1, <3>3, <3>5, <4>1
      <4>2. CASE k # wr.key
        BY <3>3, <3>4, <3>5, <3>7, <4>2
      <4> QED BY <4>1, <4>2
    <3> QED BY <3>2, <3>6, <3>7
  <2> QED BY <2>2, <2>3
<1> QED BY <1>2, <1>4, <1>5, <1>6

\* The kinds of steps, as queue and arrtable see them.
LEMMA QueueKinds ==
  ASSUME [Next]_vars
  PROVE  UNCHANGED <<queue, arr>> \/ SwitchMem \/ FlushInstall \/ CloseQueue
<1>1. FlushBuild => UNCHANGED <<queue, arr>>
  BY BuildRest
<1>2. Still \/ UpdateEnd \/ FlushStart \/ FlushRefused \/ FlushEnd => UNCHANGED <<queue, arr>>
  BY DEF Still, UpdateEnd, FlushStart, FlushRefused, FlushEnd
<1> QED BY <1>1, <1>2, PlaceKinds

\* The tables of a list that grows at its end, or is cut at its front, still rise.
LEMMA RisingFact ==
  ASSUME NEW p, NEW q, NEW n \in Nat, NEW m \in Nat, DOMAIN p = 1..n, DOMAIN q = 1..m,
         Rising(p)
  PROVE  /\ m = n + 1 /\ (\A i \in 1..n : q[i] = p[i] /\ p[i] < q[m]) => Rising(q)
         /\ \A c \in Nat : m = n - c /\ (\A i \in 1..m : q[i] = p[i + c]) => Rising(q)
<1>1. ASSUME m = n + 1, \A i \in 1..n : q[i] = p[i] /\ p[i] < q[m] PROVE Rising(q)
  <2> SUFFICES ASSUME NEW i \in 1..m, NEW j \in 1..m, i < j PROVE q[i] < q[j]
    BY DEF Rising
  <2>1. i \in 1..n
    BY <1>1
  <2>2. CASE j = m
    BY <1>1, <2>1, <2>2
  <2>3. CASE j # m
    <3>1. j \in 1..n
      BY <1>1, <2>3
    <3> QED BY <1>1, <2>1, <3>1 DEF Rising
  <2> QED BY <2>2, <2>3
<1>2. ASSUME NEW c \in Nat, m = n - c, \A i \in 1..m : q[i] = p[i + c] PROVE Rising(q)
  <2> SUFFICES ASSUME NEW i \in 1..m, NEW j \in 1..m, i < j PROVE q[i] < q[j]
    BY DEF Rising
  <2>1. i + c \in 1..n /\ j + c \in 1..n /\ i + c < j + c
    BY <1>2
  <2> QED BY <1>2, <2>1 DEF Rising
<1> QED BY <1>1, <1>2

\* The queue rises, and its last memtable is the newest one.
LEMMA QueueOrderStep ==
  ASSUME DataInv, [Next]_vars
  PROVE  /\ Rising(queue')
         /\ status' = "open" => \A t \in Of("mem")' : t <= queue'[Len(queue')]
<1>0. IInv /\ OrderInv /\ PlaceInv /\ TypeInv /\ PhaseInv
  BY DEF DataInv, IInv
<1>1. /\ Len(queue) \in Nat /\ DOMAIN queue = 1..Len(queue) /\ Len(tabs) \in Nat
      /\ DOMAIN tabs = 1..Len(tabs) /\ \A i \in 1..Len(queue) : queue[i] \in DOMAIN tabs
  BY <1>0, QueueFact
<1>2. Rising(queue) /\ (status = "open" => \A t \in Of("mem") : t <= queue[Len(queue)])
  BY <1>0 DEF OrderInv
<1>3. ~SwitchMem => Of("mem")' \subseteq Of("mem")
  BY <1>0, GrowFact
<1>4. status' = "open" => status = "open"
  BY HistoryKinds
<1>5. CASE UNCHANGED <<queue, arr>> /\ ~SwitchMem
  BY <1>2, <1>3, <1>4, <1>5
<1>6. CASE SwitchMem
  <2> DEFINE x == Len(tabs) + 1
             m == Len(queue) + 1
  <2>1. /\ queue' \in Seq(Nat) /\ Len(queue') = m /\ queue'[m] = x
        /\ \A i \in 1..Len(queue) : queue'[i] = queue[i]
    BY <1>0, <1>6, SwitchFact
  <2>2. \A t \in DOMAIN tabs : t < x
    BY <1>1
  <2>3. DOMAIN queue' = 1..m /\ m \in Nat
    BY <1>1, <2>1
  <2>4. \A i \in 1..Len(queue) : queue'[i] = queue[i] /\ queue[i] < queue'[m]
    BY <1>1, <2>1, <2>2
  <2>5. Rising(queue')
    BY <1>1, <1>2, <2>3, <2>4, RisingFact
  <2>6. \A t \in Of("mem")' : t \in DOMAIN tabs \/ t = x
    BY <1>0, GrowFact DEF Of
  <2>7. \A t \in Of("mem")' : t <= x
    BY <1>1, <2>2, <2>6
  <2> QED BY <2>1, <2>5, <2>7
<1>7. CASE FlushInstall
  <2>1. /\ queue' \in Seq(Nat) /\ Len(queue') = Len(queue) - fl.n /\ Len(queue') > 0
        /\ \A i \in 1..Len(queue') : queue'[i] = queue[i + fl.n]
        /\ status = "open"
    BY <1>0, <1>7, InstallFact
  <2>2. fl.n \in Nat
    BY <1>0 DEF TypeInv, Fl
  <2>3. DOMAIN queue' = 1..Len(queue') /\ Len(queue') \in Nat
    BY <2>1
  <2>4. Rising(queue')
    BY <1>1, <1>2, <2>1, <2>2, <2>3, RisingFact
  <2>5. Len(queue') \in 1..Len(queue') /\ Len(queue') + fl.n = Len(queue)
    BY <1>1, <2>1, <2>2, <2>3
  <2>6. queue'[Len(queue')] = queue[Len(queue)]
    BY <2>1, <2>5
  <2>7. ~SwitchMem
    <3>1. mu'.by = "flush"
      BY <1>7 DEF FlushInstall, Update
    <3>2. SwitchMem => mu'.by = "switch"
      BY DEF SwitchMem, Update
    <3> QED BY <3>1, <3>2
  <2> QED BY <1>2, <1>3, <2>1, <2>4, <2>6, <2>7
<1>8. CASE CloseQueue
  <2>1. queue' = <<>> /\ status' = "closed"
    BY <1>8 DEF CloseQueue
  <2>2. Rising(<<>>)
    BY DEF Rising
  <2> QED BY <2>1, <2>2
<1> QED BY <1>5, <1>6, <1>7, <1>8, QueueKinds

\* So do the memtables of a read state.
LEMMA StatesOrderStep ==
  ASSUME DataInv, [Next]_vars, NEW s \in DOMAIN states'
  PROVE  Rising(states'[s].mems)
<1>0. IInv /\ OrderInv /\ PlaceInv /\ TypeInv /\ PhaseInv
  BY DEF DataInv, IInv
<1>1. \A u \in DOMAIN states : Rising(states[u].mems)
  BY <1>0 DEF OrderInv
<1>2. Rising(queue')
  BY QueueOrderStep
<1>3. DOMAIN states = 1..Len(states) /\ Len(states) \in Nat
  BY <1>0 DEF TypeInv
<1>4. CASE UNCHANGED states
  BY <1>1, <1>4
<1>5. ASSUME NEW u, NEW a, Gives(u, a) PROVE Rising(states'[s].mems)
  <2>1. /\ u \in DOMAIN states /\ DOMAIN states' = DOMAIN states
        /\ \A v \in DOMAIN states : v # u => states'[v] = states[v]
        /\ states[u].refs # 1 => states'[u].mems = states[u].mems
        /\ states[u].refs = 1 => states'[u].mems = <<>>
    BY <1>0, <1>5, GaveFact
  <2>2. Rising(<<>>)
    BY DEF Rising
  <2> QED BY <1>1, <2>1, <2>2
<1>6. ASSUME NEW r \in Readers, Load(r) PROVE Rising(states'[s].mems)
  BY <1>0, <1>1, <1>6, LoadFact
<1>7. CASE SwitchMem
  <2>1. /\ DOMAIN states' = 1..(Len(states) + 1) /\ states'[Len(states) + 1].mems = queue'
        /\ \A v \in DOMAIN states : states'[v] = states[v]
    BY <1>0, <1>7, SwitchFact
  <2>2. s \in DOMAIN states \/ s = Len(states) + 1
    BY <1>3, <2>1
  <2> QED BY <1>1, <1>2, <2>1, <2>2
<1>8. CASE FlushInstall
  <2>1. /\ DOMAIN states' = 1..(Len(states) + 1) /\ states'[Len(states) + 1].mems = queue'
        /\ \A v \in DOMAIN states : states'[v] = states[v]
    BY <1>0, <1>8, InstallFact
  <2>2. s \in DOMAIN states \/ s = Len(states) + 1
    BY <1>3, <2>1
  <2> QED BY <1>1, <1>2, <2>1, <2>2
<1> QED BY <1>0, <1>4, <1>5, <1>6, <1>7, <1>8, StateKinds

\* What apply enters is newer than all that is there.
LEMMA BodyOrderStep ==
  ASSUME DataInv, [Next]_vars, NEW t \in Of("mem")', NEW u \in Of("mem")', t < u, NEW k \in Keys,
         tabs'[u].body[k] # 0
  PROVE  tabs'[t].body[k] <= tabs'[u].body[k]
<1>0. IInv /\ WriteInv /\ MemInv /\ OrderInv /\ PlaceInv /\ TypeInv
  BY DEF DataInv, IInv
<1>1. Len(tabs) \in Nat /\ DOMAIN tabs = 1..Len(tabs) /\ Of("mem") \subseteq DOMAIN tabs
  BY <1>0, QueueFact DEF Of
<1>2. /\ t \in Of("mem") \/ (SwitchMem /\ t = Len(tabs) + 1)
      /\ u \in Of("mem") \/ (SwitchMem /\ u = Len(tabs) + 1)
  BY <1>0, GrowFact
<1>3. u \in Of("mem")
  <2> SUFFICES ASSUME SwitchMem, u = Len(tabs) + 1 PROVE FALSE
    BY <1>2
  <2>1. tabs'[u].body = [i \in Keys |-> 0]
    BY <1>0, SwitchBody
  <2> QED BY <2>1
<1>4. t \in Of("mem")
  BY <1>1, <1>2, <1>3
<1>5. /\ tabs[u].body[k] # 0 => tabs[t].body[k] <= tabs[u].body[k]
      /\ tabs[t].body \in [Keys -> Nat] /\ tabs[u].body \in [Keys -> Nat]
  BY <1>0, <1>3, <1>4 DEF OrderInv, MemInv
<1>6. CASE ~Apply
  <2>1. tabs'[t].body = tabs[t].body /\ tabs'[u].body = tabs[u].body
    BY <1>0, <1>1, <1>3, <1>4, <1>6, BodyStep DEF Bodies
  <2> QED BY <1>5, <2>1
<1>7. CASE Apply
  <2>1. /\ wr.mem # 0 /\ tabs'[wr.mem].body = [tabs[wr.mem].body EXCEPT ![wr.key] = wr.seq]
        /\ \A v \in DOMAIN tabs : v # wr.mem => tabs'[v].body = tabs[v].body
    BY <1>0, <1>7, ApplyBody
  <2>2. wr.key \in Keys /\ wr.seq = Len(keyOf) /\ Len(keyOf) \in Nat
    BY <1>0, <2>1 DEF WriteInv
  <2>3. tabs[t].body[k] <= Len(keyOf)
    <3>1. tabs[t].body[k] # 0 => tabs[t].body[k] \in 1..Len(keyOf)
      BY <1>0, <1>4 DEF MemInv
    <3> QED BY <1>5, <2>2, <3>1
  <2>4. CASE t = wr.mem
    <3>1. tabs[u].body[k] = 0 /\ u # wr.mem
      BY <1>0, <1>1, <1>3, <2>1, <2>4 DEF OrderInv
    <3>2. tabs'[u].body = tabs[u].body
      BY <1>1, <1>3, <2>1, <3>1
    <3> QED BY <3>1, <3>2
  <2>5. CASE u = wr.mem /\ t # wr.mem
    <3>1. tabs'[t].body = tabs[t].body
      BY <1>1, <1>4, <2>1, <2>5
    <3>2. CASE k = wr.key
      <4>1. tabs'[u].body[k] = wr.seq
        BY <1>5, <2>1, <2>2, <2>5, <3>2
      <4> QED BY <2>2, <2>3, <3>1, <4>1
    <3>3. CASE k # wr.key
      <4>1. tabs'[u].body[k] = tabs[u].body[k]
        BY <1>5, <2>1, <2>2, <2>5, <3>3
      <4> QED BY <1>5, <3>1, <4>1
    <3> QED BY <3>2, <3>3
  <2>6. CASE u # wr.mem /\ t # wr.mem
    <3>1. tabs'[t].body = tabs[t].body /\ tabs'[u].body = tabs[u].body
      BY <1>1, <1>3, <1>4, <2>1, <2>6
    <3> QED BY <1>5, <3>1
  <2> QED BY <2>4, <2>5, <2>6
<1> QED BY <1>6, <1>7

\* Memtables are filled in the order they were made in.
LEMMA OrderStep ==
  ASSUME DataInv, [Next]_vars
  PROVE  OrderInv'
<1>0. IInv /\ WriteInv /\ MemInv /\ OrderInv /\ PlaceInv /\ TypeInv /\ PhaseInv
  BY DEF DataInv, IInv
<1>1. \A t, u \in Of("mem")' : t < u =>
        \A k \in Keys : tabs'[u].body[k] # 0 => tabs'[t].body[k] <= tabs'[u].body[k]
  BY BodyOrderStep
<1>2. ASSUME wr'.mem # 0, NEW t \in Of("mem")', t > wr'.mem, NEW k \in Keys
      PROVE  tabs'[t].body[k] = 0
  <2>1. CASE \E i \in Keys : Write(i)
    <3>1. PICK i \in Keys : Write(i)
      BY <2>1
    <3>2. wr'.mem = queue[Len(queue)] /\ status = "open" /\ UNCHANGED queue
      BY <1>0, <3>1, WriteFact DEF Write
    <3>3. status' = "open"
      BY <3>1 DEF Write
    <3>4. t <= queue'[Len(queue')]
      BY <3>3, QueueOrderStep
    <3>5. t \in Nat /\ queue[Len(queue)] \in Nat
      <4>1. t \in DOMAIN tabs'
        BY DEF Of
      <4>2. TypeInv'
        BY <1>0, IStep DEF IInv
      <4>3. \A x \in DOMAIN tabs' : x \in Nat
        BY <4>2 DEF TypeInv
      <4>4. Len(queue) > 0
        BY <1>0, <3>1, WriteFact
      <4> QED BY <1>0, <4>1, <4>3, <4>4 DEF TypeInv
    <3> QED BY <1>2, <3>2, <3>4, <3>5
  <2>2. CASE UNCHANGED wr /\ ~Apply
    <3>1. CASE t \in Of("mem")
      <4>1. tabs'[t].body = tabs[t].body
        BY <1>0, <2>2, <3>1, BodyStep DEF Bodies, Of
      <4> QED BY <1>0, <1>2, <2>2, <3>1, <4>1 DEF OrderInv
    <3>2. CASE SwitchMem /\ t = Len(tabs) + 1
      <4>1. tabs'[t].body = [i \in Keys |-> 0]
        BY <1>0, <3>2, SwitchBody
      <4> QED BY <4>1
    <3> QED BY <1>0, <3>1, <3>2, GrowFact
  <2>3. ~Apply
    BY <1>2 DEF Apply, IdleWriter
  <2> QED BY <2>1, <2>2, <2>3, HistoryKinds
<1>3. Rising(queue') /\ (status' = "open" => \A t \in Of("mem")' : t <= queue'[Len(queue')])
  BY QueueOrderStep
<1>4. \A s \in DOMAIN states' : Rising(states'[s].mems)
  BY StatesOrderStep
<1> QED BY <1>1, <1>2, <1>3, <1>4 DEF OrderInv

-----------------------------------------------------------------------------
(***************************************************************************)
(* What a flush builds.                                                    *)
(***************************************************************************)

\* The newest write of k that is flushed, the items of arrtable, and the keys of both.
Newest(k) == Max({tabs[queue[i]].body[k] : i \in 1..fl.n})
OldItems == IF arr = 0 THEN <<>> ELSE Items(tabs[arr].body)
InputKeys == {k \in Keys : Newest(k) # 0} \cup {OldItems[i].key : i \in DOMAIN OldItems}

\* A value is words.
LEMMA ValFact ==
  ASSUME NEW s \in Nat
  PROVE  Val(s) \in Seq(Nat) /\ Len(Val(s)) = s % 3
<1> DEFINE n == s % 3
<1>1. n \in Nat
  OBVIOUS
<1>2. Val(s) = [i \in 1..n |-> s]
  BY DEF Val
<1> HIDE DEF n
<1>3. Val(s) \in Seq(Nat) /\ Len(Val(s)) = n
  BY <1>1, <1>2
<1> QED BY <1>3 DEF n

\* What arrtable has for the flush.
LEMMA OldFact ==
  ASSUME DataInv
  PROVE  /\ DOMAIN OldItems = IF arr = 0 THEN {} ELSE 1..tabs[arr].body.num
         /\ arr # 0 => /\ arr \in Of("arr") /\ Readable(tabs[arr].body) /\ OnDisk(tabs[arr].body)
                       /\ tabs[arr].body.num \in Nat
         /\ \A i \in DOMAIN OldItems :
              /\ OldItems[i].key \in Keys /\ OldItems[i].val \in Seq(Nat)
              /\ OldItems[i].key = GetKey(tabs[arr].body, i)
              /\ OldItems[i].val = GetValue(tabs[arr].body, i)
         /\ \A i, j \in DOMAIN OldItems : OldItems[i].key = OldItems[j].key => i = j
<1>0. IInv /\ FinishedInv /\ PlaceInv
  BY DEF DataInv, IInv
<1>1. CASE arr = 0
  BY <1>1 DEF OldItems
<1>2. CASE arr # 0
  <2> DEFINE b == tabs[arr].body
  <2>1. arr \in Of("arr") /\ arr \notin orphans
    BY <1>0, <1>2 DEF PlaceInv
  <2>2. Readable(b) /\ OnDisk(b) /\ \A i \in 1..b.num : GetKey(b, i) \in Keys
    BY <1>0, <2>1 DEF FinishedInv
  <2> HIDE DEF b
  <2>3. /\ b.num \in Nat /\ \A i \in 1..b.num : GetKey(b, i) \in Nat /\ GetValue(b, i) \in Seq(Nat)
        /\ \A i, j \in 1..b.num : i < j => GetKey(b, i) < GetKey(b, j)
    BY <2>2 DEF Readable
  <2>4. OldItems = [i \in 1..b.num |-> [key |-> GetKey(b, i), val |-> GetValue(b, i)]]
    BY <1>2 DEF OldItems, Items, b
  <2>5. \A i, j \in 1..b.num : GetKey(b, i) = GetKey(b, j) => i = j
    BY <2>3
  <2> QED BY <1>2, <2>1, <2>2, <2>3, <2>4, <2>5 DEF b
<1> QED BY <1>1, <1>2

\* The newest write is that of one of the flushed memtables.
LEMMA NewestFact ==
  ASSUME DataInv, fl.pc = "build", NEW k \in Keys
  PROVE  /\ Newest(k) \in Nat
         /\ \E i \in 1..fl.n : Newest(k) = tabs[queue[i]].body[k]
         /\ \A i \in 1..fl.n : tabs[queue[i]].body[k] <= Newest(k)
<1> DEFINE T == {tabs[queue[i]].body[k] : i \in 1..fl.n}
<1>0. IInv /\ WriteInv /\ MemInv /\ PlaceInv /\ TypeInv /\ PhaseInv
  BY DEF DataInv, IInv
<1>1. fl.n \in Nat /\ fl.n > 0 /\ fl.n < Len(queue) /\ Len(queue) \in Nat
  BY <1>0 DEF PhaseInv, TypeInv, Fl
<1>2. \A i \in 1..fl.n : queue[i] \in Of("mem")
  <2>1. \A i \in 1..fl.n : i \in 1..Len(queue)
    BY <1>1
  <2> QED BY <1>0, <2>1, QueueFact DEF Of
<1>3. Len(keyOf) \in Nat
  BY <1>0 DEF WriteInv
<1>4. \A t \in Of("mem") : tabs[t].body[k] \in Nat /\ tabs[t].body[k] <= Len(keyOf)
  BY <1>0, <1>3 DEF MemInv
<1>5. T \subseteq Nat /\ T # {} /\ \A y \in T : y <= Len(keyOf)
  BY <1>1, <1>2, <1>4
<1>6. Newest(k) = Max(T)
  BY DEF Newest
<1> HIDE DEF T
<1>7. Max(T) \in T /\ \A y \in T : Max(T) >= y
  BY <1>3, <1>5, MaxFact
<1>8. \A i \in 1..fl.n : tabs[queue[i]].body[k] \in T
  BY DEF T
<1>9. \E i \in 1..fl.n : Newest(k) = tabs[queue[i]].body[k]
  BY <1>6, <1>7 DEF T
<1> QED BY <1>5, <1>6, <1>7, <1>8, <1>9

\* The input of a flush: rising keys, and for each the newest value.
LEMMA InputFact ==
  ASSUME DataInv, fl.pc = "build"
  PROVE  /\ Input \in Seq(Item)
         /\ \A i, j \in DOMAIN Input : i < j => Input[i].key < Input[j].key
         /\ \A i \in DOMAIN Input : Input[i].key \in Keys
         /\ \A k \in Keys : Newest(k) # 0 =>
              \E j \in DOMAIN Input : Input[j].key = k /\ Input[j].val = Val(Newest(k))
         /\ \A i \in DOMAIN OldItems : Newest(OldItems[i].key) = 0 =>
              \E j \in DOMAIN Input : /\ Input[j].key = OldItems[i].key
                                      /\ Input[j].val = OldItems[i].val
<1> DEFINE in == Input
           q == Ascending(InputKeys)
           n == Cardinality(InputKeys)
           kept(k) == (CHOOSE i \in DOMAIN OldItems : OldItems[i].key = k)
           v(k) == IF Newest(k) # 0 THEN Val(Newest(k)) ELSE OldItems[kept(k)].val
<1>1. in = [i \in DOMAIN q |-> [key |-> q[i], val |-> v(q[i])]]
  BY DEF Input, Newest, OldItems, InputKeys
<1>2. \A k \in Keys : Newest(k) \in Nat
  BY NewestFact
<1>3. /\ \A i \in DOMAIN OldItems : OldItems[i].key \in Keys /\ OldItems[i].val \in Seq(Nat)
      /\ \A i, j \in DOMAIN OldItems : OldItems[i].key = OldItems[j].key => i = j
  BY OldFact
<1>4. InputKeys \in SUBSET (1..MaxKey) /\ MaxKey \in Nat
  BY <1>3, ReadAssumption DEF InputKeys, Keys
<1>5. /\ n \in Nat /\ q \in [1..n -> InputKeys]
      /\ \A x \in InputKeys : \E i \in 1..n : q[i] = x
      /\ \A i, j \in 1..n : i < j => q[i] < q[j]
  BY <1>4, AscendingFact
<1>6. \A k \in InputKeys : k \in Keys /\ k \in Nat
  BY <1>4 DEF Keys
<1>7. ASSUME NEW i \in DOMAIN OldItems
      PROVE  kept(OldItems[i].key) = i
  <2> DEFINE k == OldItems[i].key
  <2>1. kept(k) \in DOMAIN OldItems /\ OldItems[kept(k)].key = k
    <3>1. \E j \in DOMAIN OldItems : OldItems[j].key = k
      OBVIOUS
    <3> HIDE DEF k
    <3> QED BY <3>1
  <2> QED BY <1>3, <2>1
<1>8. \A k \in InputKeys : Newest(k) # 0 \/ \E i \in DOMAIN OldItems : OldItems[i].key = k
  BY DEF InputKeys
<1> HIDE DEF in, q, n, kept
<1>9. ASSUME NEW k \in InputKeys PROVE v(k) \in Seq(Nat)
  <2>1. CASE Newest(k) # 0
    <3>1. Val(Newest(k)) \in Seq(Nat)
      BY <1>2, <1>6, ValFact
    <3> QED BY <2>1, <3>1
  <2>2. CASE Newest(k) = 0
    <3>1. PICK i \in DOMAIN OldItems : OldItems[i].key = k
      BY <1>8, <2>2
    <3>2. kept(k) = i
      BY <1>7, <3>1
    <3> QED BY <1>3, <2>2, <3>2
  <2> QED BY <2>1, <2>2
<1>10. /\ DOMAIN in = 1..n
       /\ \A i \in 1..n : q[i] \in InputKeys /\ in[i] = [key |-> q[i], val |-> v(q[i])]
  BY <1>1, <1>5
<1>11. ASSUME NEW k \in InputKeys
       PROVE  \E j \in DOMAIN in : in[j].key = k /\ in[j].val = v(k)
  <2>1. PICK j \in 1..n : q[j] = k
    BY <1>5
  <2> HIDE DEF v
  <2> QED BY <1>10, <2>1
<1>12. ASSUME NEW i \in DOMAIN OldItems, Newest(OldItems[i].key) = 0
       PROVE  \E j \in DOMAIN in : in[j].key = OldItems[i].key /\ in[j].val = OldItems[i].val
  <2>1. OldItems[i].key \in InputKeys
    BY DEF InputKeys
  <2>2. v(OldItems[i].key) = OldItems[i].val
    BY <1>7, <1>12
  <2> HIDE DEF v
  <2> QED BY <1>11, <2>1, <2>2
<1>13. ASSUME NEW k \in Keys, Newest(k) # 0
       PROVE  \E j \in DOMAIN in : in[j].key = k /\ in[j].val = Val(Newest(k))
  <2>1. k \in InputKeys /\ v(k) = Val(Newest(k))
    BY <1>13 DEF InputKeys
  <2> HIDE DEF v
  <2> QED BY <1>11, <2>1
<1> HIDE DEF v
<1>14. \A i \in 1..n : in[i] \in Item /\ in[i].key = q[i]
  BY <1>6, <1>9, <1>10 DEF Item
<1>15. in \in Seq(Item)
  <2>1. in \in [1..n -> Item]
    <3>1. in = [i \in DOMAIN in |-> in[i]]
      BY <1>1
    <3> QED BY <1>10, <1>14, <3>1
  <2> QED BY <1>5, <2>1
<1>16. \A i \in DOMAIN in : in[i].key \in Keys
  BY <1>6, <1>10, <1>14
<1>17. \A i, j \in DOMAIN in : i < j => in[i].key < in[j].key
  BY <1>5, <1>10, <1>14
<1> QED BY <1>12, <1>13, <1>15, <1>16, <1>17 DEF in

\* runFlush: a table that panicked did so at the limit; one that is to be installed is
\* on disk, readable, and has all of the flush's input but what was refused.
LEMMA BuiltTable ==
  ASSUME DataInv, FlushBuild
  PROVE  LET x == Len(tabs) + 1
             b == tabs'[Len(tabs) + 1].body IN
         /\ fl.pc = "build" /\ damaged \subseteq damaged'
         /\ b.panic => b.over
         /\ x \notin orphans' =>
              /\ Readable(b) /\ OnDisk(b) /\ \A i \in 1..b.num : GetKey(b, i) \in Keys
              /\ \A k \in Keys \ damaged' : Merged(tabs', {queue[i] : i \in 1..fl.n}, arr, x, k)
<1> DEFINE in == Input
           x == Len(tabs) + 1
           b == tabs'[x].body
           n == Len(in)
<1>0. TypeInv /\ IInv
  BY DEF DataInv, IInv
<1>1. fl.pc = "build"
  BY DEF FlushBuild
<1>2. PICK fault \in {<<0, "none">>} \cup ((1..(n + 1)) \X {"file", "map"}) :
        LET all == SetAll(in, [i \in DOMAIN in |-> IF i = fault[1] THEN fault[2] ELSE "none"])
            done == WriteFinish(all)
            skipped == SkippedBy(in, fault[1], fault[2])
            bad == fault[1] = n + 1 \/ done.panic IN
        /\ tabs' = Append(tabs, NewArr(IF bad THEN all ELSE done))
        /\ orphans' = IF bad THEN orphans \cup {Len(tabs) + 1} ELSE orphans
        /\ damaged' = IF bad THEN damaged
                      ELSE damaged \cup {in[i].key : i \in
                             {j \in DOMAIN in : j \in skipped \/ j + 1 \in skipped}}
  BY DEF FlushBuild
<1> DEFINE at == fault[1]
           f == fault[2]
           all == SetAll(in, [i \in DOMAIN in |-> IF i = at THEN f ELSE "none"])
           done == WriteFinish(all)
           skipped == SkippedBy(in, at, f)
           bad == at = n + 1 \/ done.panic
           lost == {in[i].key : i \in {j \in DOMAIN in : j \in skipped \/ j + 1 \in skipped}}
<1>3. /\ tabs' = Append(tabs, NewArr(IF bad THEN all ELSE done))
      /\ orphans' = IF bad THEN orphans \cup {x} ELSE orphans
      /\ damaged' = IF bad THEN damaged ELSE damaged \cup lost
  BY <1>2
<1>4. /\ in \in Seq(Item) /\ n \in Nat /\ DOMAIN in = 1..n
      /\ \A i, j \in DOMAIN in : i < j => in[i].key < in[j].key
      /\ \A i \in DOMAIN in : in[i].key \in Keys
      /\ \A k \in Keys : Newest(k) # 0 =>
           \E j \in DOMAIN in : in[j].key = k /\ in[j].val = Val(Newest(k))
      /\ \A i \in DOMAIN OldItems : Newest(OldItems[i].key) = 0 =>
           \E j \in DOMAIN in : in[j].key = OldItems[i].key /\ in[j].val = OldItems[i].val
  BY <1>1, InputFact
<1>5. at \in Nat
  BY <1>4
<1> HIDE DEF in
<1>6. /\ all.panic => all.over
      /\ done.panic => done.over
      /\ ~done.panic =>
           /\ Readable(done) /\ OnDisk(done)
           /\ \A i \in 1..done.num : \E j \in DOMAIN in : GetKey(done, i) = in[j].key
           /\ \A i \in DOMAIN in : i \notin skipped /\ i + 1 \notin skipped =>
                ReadsAs(done, in[i].key, in[i].val)
  <2> HIDE DEF at, f
  <2> QED BY <1>4, <1>5, FlushedTable
<1> HIDE DEF at, f, all, done, skipped
<1> DEFINE body == IF bad THEN all ELSE done
<1>7. b = body
  <2>1. tabs'[x] = NewArr(body)
    BY <1>0, <1>3, AppendFact DEF TypeInv
  <2> HIDE DEF body
  <2> QED BY <2>1 DEF NewArr
<1>8. damaged \subseteq damaged'
  BY <1>3
<1>9. b.panic => b.over
  BY <1>6, <1>7
<1>10. ASSUME x \notin orphans'
       PROVE  /\ Readable(b) /\ OnDisk(b) /\ \A i \in 1..b.num : GetKey(b, i) \in Keys
              /\ \A k \in Keys \ damaged' : Merged(tabs', {queue[i] : i \in 1..fl.n}, arr, x, k)
  <2>1. ~bad /\ ~done.panic /\ b = done /\ damaged' = damaged \cup lost
    BY <1>3, <1>7, <1>10
  <2>2. Readable(b) /\ OnDisk(b) /\ \A i \in 1..b.num : GetKey(b, i) \in Keys
    BY <1>4, <1>6, <2>1
  <2>3. ASSUME NEW k \in Keys \ damaged', NEW j \in DOMAIN in, in[j].key = k
        PROVE  ReadsAs(b, k, in[j].val)
    <3>1. k \notin lost
      BY <2>1
    <3>2. j \notin skipped /\ j + 1 \notin skipped
      BY <2>3, <3>1
    <3> QED BY <1>6, <2>1, <2>3, <3>2
  <2>4. ASSUME NEW k \in Keys \ damaged'
        PROVE  Merged(tabs', {queue[i] : i \in 1..fl.n}, arr, x, k)
    <3> DEFINE M == {queue[i] : i \in 1..fl.n}
    <3>1. /\ Newest(k) \in Nat
          /\ \E i \in 1..fl.n : Newest(k) = tabs[queue[i]].body[k]
          /\ \A i \in 1..fl.n : tabs[queue[i]].body[k] <= Newest(k)
      BY <1>1, NewestFact
    <3>2. \A t \in DOMAIN tabs : tabs'[t] = tabs[t]
      BY <1>0, BuildFact
    <3>3. \A t \in M : t \in Of("mem") /\ t \in DOMAIN tabs
      <4>1. fl.n \in Nat /\ fl.n > 0 /\ fl.n < Len(queue) /\ Len(queue) \in Nat
        BY <1>0, <1>1 DEF IInv, PhaseInv, TypeInv, Fl
      <4>2. \A i \in 1..fl.n : i \in 1..Len(queue)
        BY <4>1
      <4> QED BY <1>0, <4>2, QueueFact DEF Of, IInv
    <3>4. \A t \in M : tabs'[t].body[k] = tabs[t].body[k]
      BY <3>2, <3>3
    <3>5. \A t \in M : tabs'[t].body[k] <= Newest(k)
      BY <3>1, <3>4
    <3>6. \E t \in M : tabs'[t].body[k] = Newest(k)
      BY <3>1, <3>4
    <3>7. \A t \in M : tabs'[t].body[k] \in Nat
      BY <3>3, <3>4 DEF DataInv, MemInv
    <3> HIDE DEF M
    <3>8. CASE Newest(k) # 0
      <4>1. PICK t \in M : tabs'[t].body[k] = Newest(k)
        BY <3>6
      <4>2. PICK j \in DOMAIN in : in[j].key = k /\ in[j].val = Val(Newest(k))
        BY <1>4, <3>8
      <4>3. ReadsAs(b, k, Val(tabs'[t].body[k]))
        BY <2>3, <4>1, <4>2
      <4>4. \A u \in M : tabs'[u].body[k] <= tabs'[t].body[k]
        BY <3>5, <4>1
      <4> QED BY <2>2, <3>8, <4>1, <4>3, <4>4 DEF Merged, M
    <3>9. CASE Newest(k) = 0
      <4>1. \A t \in M : tabs'[t].body[k] = 0
        BY <3>5, <3>7, <3>9
      <4>2. ASSUME arr # 0, NEW i \in 1..tabs'[arr].body.num, GetKey(tabs'[arr].body, i) = k
            PROVE  ReadsAs(b, k, GetValue(tabs'[arr].body, i))
        <5>1. /\ DOMAIN OldItems = 1..tabs[arr].body.num /\ arr \in DOMAIN tabs
              /\ \A h \in DOMAIN OldItems :
                    /\ OldItems[h].key = GetKey(tabs[arr].body, h)
                    /\ OldItems[h].val = GetValue(tabs[arr].body, h)
          BY <4>2, OldFact DEF Of
        <5>2. tabs'[arr] = tabs[arr]
          BY <3>2, <5>1
        <5>3. /\ i \in DOMAIN OldItems /\ OldItems[i].key = k
              /\ OldItems[i].val = GetValue(tabs'[arr].body, i)
          BY <4>2, <5>1, <5>2
        <5>4. PICK j \in DOMAIN in : in[j].key = OldItems[i].key /\ in[j].val = OldItems[i].val
          BY <1>4, <3>9, <5>3
        <5> QED BY <2>3, <5>3, <5>4
      <4> QED BY <2>2, <4>1, <4>2 DEF Merged, M
    <3> QED BY <3>8, <3>9
  <2> QED BY <2>2, <2>4
<1> QED BY <1>1, <1>8, <1>9, <1>10

\* Array tables are not written to once they are built.
LEMMA FinishedStep ==
  ASSUME DataInv, [Next]_vars
  PROVE  FinishedInv'
<1>0. IInv /\ FinishedInv /\ PlaceInv /\ TypeInv
  BY DEF DataInv, IInv
<1> SUFFICES ASSUME NEW t \in Of("arr")'
             PROVE  /\ tabs'[t].body.panic => tabs'[t].body.over
                    /\ t \notin orphans' =>
                         /\ Readable(tabs'[t].body) /\ OnDisk(tabs'[t].body)
                         /\ \A i \in 1..tabs'[t].body.num : GetKey(tabs'[t].body, i) \in Keys
  BY DEF FinishedInv
<1>1. CASE FlushBuild /\ t = Len(tabs) + 1
  BY <1>1, BuiltTable
<1>2. CASE t \in Of("arr")
  <2>1. tabs'[t].body = tabs[t].body
    <3>1. CASE ~Apply
      BY <1>0, <1>2, <3>1, BodyStep DEF Bodies, Of
    <3>2. CASE Apply
      <4>1. wr.mem \in Of("mem") /\ \A u \in DOMAIN tabs : u # wr.mem => tabs'[u].body = tabs[u].body
        BY <1>0, <3>2, ApplyBody
      <4> QED BY <1>2, <4>1 DEF Of
    <3> QED BY <3>1, <3>2
  <2>2. orphans \subseteq orphans'
    <3>1. UpdateEnd \/ SwitchMem \/ FlushStart \/ FlushInstall \/ FlushRefused \/ FlushEnd
            \/ CloseQueue \/ Still => orphans \subseteq orphans'
      BY DEF UpdateEnd, SwitchMem, FlushStart, FlushInstall, FlushRefused, FlushEnd, CloseQueue, Still
    <3>2. FlushBuild => orphans \subseteq orphans'
      BY <1>0, BuildFact
    <3> QED BY <3>1, <3>2, PlaceKinds
  <2> QED BY <1>0, <1>2, <2>1, <2>2 DEF FinishedInv
<1> QED BY <1>0, <1>1, <1>2, GrowFact

-----------------------------------------------------------------------------
(***************************************************************************)
(* What is found.                                                          *)
(***************************************************************************)

\* A memtable's entry stays or becomes the newest write's; an array table stays.
LEMMA BodyLater ==
  ASSUME DataInv, [Next]_vars
  PROVE  /\ \A t \in Of("arr") : tabs'[t].body = tabs[t].body
         /\ \A t \in Of("mem") : \A k \in Keys :
              \/ tabs'[t].body[k] = tabs[t].body[k]
              \/ Apply /\ t = wr.mem /\ k = wr.key /\ tabs'[t].body[k] = Len(keyOf)
<1>0. IInv /\ WriteInv /\ MemInv
  BY DEF DataInv
<1>1. CASE ~Apply
  BY <1>0, <1>1, BodyStep DEF Bodies, Of
<1>2. CASE Apply
  <2>1. /\ wr.mem \in Of("mem") /\ wr.mem # 0
        /\ tabs'[wr.mem].body = [tabs[wr.mem].body EXCEPT ![wr.key] = wr.seq]
        /\ \A t \in DOMAIN tabs : t # wr.mem => tabs'[t].body = tabs[t].body
    BY <1>0, <1>2, ApplyBody
  <2>2. wr.key \in Keys /\ wr.seq = Len(keyOf) /\ tabs[wr.mem].body \in [Keys -> Nat]
    BY <1>0, <2>1 DEF WriteInv, MemInv
  <2>3. \A k \in Keys : tabs'[wr.mem].body[k] = IF k = wr.key THEN wr.seq ELSE tabs[wr.mem].body[k]
    BY <2>1, <2>2
  <2>4. \A t \in Of("arr") : t # wr.mem /\ t \in DOMAIN tabs
    BY <2>1 DEF Of
  <2>5. \A t \in Of("mem") : t \in DOMAIN tabs
    BY DEF Of
  <2> QED BY <1>2, <2>1, <2>2, <2>3, <2>4, <2>5
<1> QED BY <1>1, <1>2

\* What memtables and an array table find, they find after every step.
LEMMA FindsKept ==
  ASSUME DataInv, [Next]_vars, NEW M, M \subseteq Of("mem"), NEW at, at = 0 \/ at \in Of("arr"),
         NEW k \in Keys, NEW x \in 0..Len(keyOf), Finds(tabs, keyOf, M, at, k, x)
  PROVE  Finds(tabs', keyOf', M, at, k, x)
<1>0. WriteInv /\ MemInv
  BY DEF DataInv
<1>1. /\ Len(keyOf) \in Nat /\ Len(keyOf') \in Nat /\ Len(keyOf) <= Len(keyOf')
      /\ \A s \in 1..Len(keyOf) : s \in 1..Len(keyOf') /\ keyOf'[s] = keyOf[s]
  BY <1>0, KeyOfStep
<1>2. \A t \in M : \/ tabs'[t].body[k] = tabs[t].body[k]
                   \/ tabs'[t].body[k] = Len(keyOf)
  BY BodyLater
<1>3. CASE x = 0
  BY <1>3 DEF Finds
<1>4. CASE \E t \in M : tabs'[t].body[k] # tabs[t].body[k]
  <2>1. PICK t \in M : tabs'[t].body[k] = Len(keyOf)
    BY <1>2, <1>4
  <2>2. tabs'[t].body[k] >= x
    BY <1>1, <2>1
  <2> QED BY <2>2 DEF Finds
<1>5. CASE (\A t \in M : tabs'[t].body[k] = tabs[t].body[k]) /\ \E t \in M : tabs[t].body[k] >= x
  BY <1>5 DEF Finds
<1>6. CASE /\ \A t \in M : tabs'[t].body[k] = tabs[t].body[k]
           /\ (\A t \in M : tabs[t].body[k] = 0) /\ Has(tabs, keyOf, at, k, x) /\ x # 0
  <2>1. at \in Of("arr") /\ Readable(tabs[at].body)
    BY <1>6 DEF Has
  <2>2. PICK s \in x..Len(keyOf) : keyOf[s] = k /\ ReadsAs(tabs[at].body, k, Val(s))
    BY <1>6 DEF Has
  <2>3. tabs'[at].body = tabs[at].body
    BY <2>1, BodyLater
  <2>4. s \in 1..Len(keyOf) /\ s \in x..Len(keyOf')
    BY <1>1, <1>6, <2>2
  <2>5. keyOf'[s] = k
    BY <1>1, <2>2, <2>4
  <2>6. Has(tabs', keyOf', at, k, x)
    BY <1>6, <2>1, <2>2, <2>3, <2>4, <2>5 DEF Has
  <2> QED BY <1>6, <2>6 DEF Finds
<1> QED BY <1>3, <1>4, <1>5, <1>6 DEF Finds

\* The memtables a flush has read are not written to, so what it has built of them
\* stays up to date until it is installed.
LEMMA MergedStep ==
  ASSUME DataInv, [Next]_vars
  PROVE  MergedInv'
<1>0. /\ IInv /\ MergedInv /\ PlaceInv /\ TypeInv /\ PhaseInv /\ WriterInv
      /\ \A t \in Of("arr") : tabs'[t].body = tabs[t].body
  BY BodyLater DEF DataInv, IInv
<1>1. CASE FlushBuild
  <2>1. UNCHANGED <<queue, arr>>
    BY <1>1, BuildRest
  <2>2. CASE fl' = IdleFlush
    BY <2>2 DEF IdleFlush, MergedInv
  <2>3. CASE fl'.new = Len(tabs) + 1 /\ UNCHANGED orphans /\ fl'.n = fl.n
    <3>1. Len(tabs) + 1 \notin orphans'
      <4>1. Len(tabs) + 1 \notin DOMAIN tabs
        BY <1>0, <1>1, BuildFact
      <4> QED BY <1>0, <2>3, <4>1 DEF PlaceInv, Of
    <3>2. \A k \in Keys \ damaged' :
            Merged(tabs', {queue[i] : i \in 1..fl.n}, arr, Len(tabs) + 1, k)
      BY <1>1, <3>1, BuiltTable
    <3> QED BY <2>1, <2>3, <3>2 DEF MergedInv
  <2> QED BY <1>0, <1>1, <2>2, <2>3, BuildFact
<1>2. ASSUME fl.pc = "install", ~FlushBuild, UNCHANGED <<arr, fl>>,
             \A i \in 1..fl.n : queue'[i] = queue[i]
      PROVE  MergedInv'
  <2> DEFINE M == {queue[i] : i \in 1..fl.n}
             N == {queue'[i] : i \in 1..fl'.n}
  <2>0. M = N
    BY <1>2
  <2>1. UNCHANGED damaged
    BY <1>2, HistoryKinds
  <2>2. fl.n \in Nat /\ fl.n > 0 /\ fl.n < Len(queue) /\ Len(queue) \in Nat /\ fl.new # 0
    BY <1>0, <1>2 DEF PhaseInv, TypeInv, Fl
  <2>3. \A i \in 1..fl.n : i \in 1..Len(queue)
    BY <2>2
  <2>4. \A t \in M : t \in Of("mem") /\ t \in DOMAIN tabs
    BY <1>0, <2>3, QueueFact DEF Of
  <2>5. \A t \in M : tabs'[t].body = tabs[t].body
    <3>1. CASE ~Apply
      BY <1>0, <2>4, <3>1, BodyStep DEF Bodies
    <3>2. CASE Apply
      <4>1. tabs[wr.mem].writers > 0
        BY <1>0, <3>2, ApplyFact
      <4>2. \A t \in M : tabs[t].writers = 0
        BY <1>0, <1>2 DEF WriterInv
      <4>3. \A t \in M : t # wr.mem
        BY <4>1, <4>2
      <4>4. \A t \in DOMAIN tabs : t # wr.mem => tabs'[t].body = tabs[t].body
        BY <1>0, <3>2, ApplyBody
      <4> QED BY <2>4, <4>3, <4>4
    <3> QED BY <3>1, <3>2
  <2>6. /\ tabs'[fl.new].body = tabs[fl.new].body
        /\ arr # 0 => tabs'[arr].body = tabs[arr].body
    BY <1>0, <2>2 DEF PlaceInv
  <2>7. \A k \in Keys \ damaged : Merged(tabs, M, arr, fl.new, k)
    BY <1>0, <1>2 DEF MergedInv
  <2> HIDE DEF M, N
  <2>8. \A k \in Keys \ damaged : Merged(tabs', M, arr, fl.new, k)
    BY <2>5, <2>6, <2>7 DEF Merged
  <2>9. \A k \in Keys \ damaged' : Merged(tabs', N, arr', fl'.new, k)
    BY <1>2, <2>0, <2>1, <2>8
  <2> QED BY <2>9 DEF MergedInv, N
<1>3. CASE Still /\ ~FlushBuild
  BY <1>2, <1>3 DEF Still, MergedInv
<1>4. CASE UpdateEnd /\ ~FlushBuild
  <2>1. mu.by = "switch" => UNCHANGED fl
    BY <1>0, <1>4, UpdateEndFact
  <2>2. mu.by # "switch" => fl'.pc = "release"
    BY <1>0, <1>4, UpdateEndFact
  <2>3. UNCHANGED <<queue, arr>>
    BY <1>4 DEF UpdateEnd
  <2> QED BY <1>2, <1>4, <2>1, <2>2, <2>3 DEF MergedInv
<1>5. CASE SwitchMem /\ ~FlushBuild
  <2>1. UNCHANGED <<arr, fl>> /\ \A i \in 1..Len(queue) : queue'[i] = queue[i]
    BY <1>0, <1>5, SwitchFact DEF SwitchMem
  <2>2. fl.pc = "install" => fl.n \in Nat /\ fl.n < Len(queue) /\ Len(queue) \in Nat
    BY <1>0 DEF PhaseInv, TypeInv, Fl
  <2>3. fl.pc = "install" => \A i \in 1..fl.n : i \in 1..Len(queue)
    BY <2>2
  <2> QED BY <1>2, <1>5, <2>1, <2>3 DEF MergedInv
<1>6. CASE FlushStart
  BY <1>6 DEF FlushStart, MergedInv
<1>7. CASE FlushInstall
  <2>1. fl'.pc = "update"
    BY <1>0, <1>7, InstallFact
  <2> QED BY <2>1 DEF MergedInv
<1>8. CASE FlushRefused \/ FlushEnd
  BY <1>8 DEF FlushRefused, FlushEnd, IdleFlush, MergedInv
<1>9. CASE CloseQueue
  <2>1. fl.pc = "none" /\ UNCHANGED fl
    BY <1>0, <1>9 DEF CloseQueue, PhaseInv
  <2> QED BY <2>1 DEF MergedInv
<1> QED BY <1>1, <1>3, <1>4, <1>5, <1>6, <1>7, <1>8, <1>9, PlaceKinds

\* The state in readState and a reader's state are in use.
LEMMA InUseFact ==
  IInv => /\ status = "open" => states[val].refs > 0 /\ val \in DOMAIN states
          /\ \A r \in Readers : rd[r].rs # 0 =>
               states[rd[r].rs].refs > 0 /\ rd[r].rs \in DOMAIN states
<1> SUFFICES ASSUME IInv
             PROVE  /\ status = "open" => states[val].refs > 0 /\ val \in DOMAIN states
                    /\ \A r \in Readers : rd[r].rs # 0 =>
                         states[rd[r].rs].refs > 0 /\ rd[r].rs \in DOMAIN states
  OBVIOUS
<1>0. TypeInv /\ PhaseInv /\ StateInv
  BY DEF IInv
<1>1. Len(states) \in Nat /\ DOMAIN states = 1..Len(states)
  BY <1>0 DEF TypeInv
<1>2. ASSUME NEW s \in DOMAIN states, Held(s) \/ On(s) # {} PROVE states[s].refs > 0
  <2>1. s # 0
    BY <1>1
  <2>2. Cardinality(On(s)) \in Nat /\ (On(s) # {} => Cardinality(On(s)) > 0)
    BY <1>0, <2>1, OnFinite
  <2>3. states[s].refs = Cardinality(On(s)) + (IF Held(s) THEN 1 ELSE 0)
    BY <1>0 DEF StateInv
  <2> QED BY <1>2, <2>2, <2>3
<1>3. status = "open" => Held(val) /\ val \in DOMAIN states
  BY <1>0 DEF Held, PhaseInv
<1>4. \A r \in Readers : rd[r].rs # 0 => rd[r].rs \in DOMAIN states /\ r \in On(rd[r].rs)
  BY <1>0 DEF StateInv, On
<1> QED BY <1>2, <1>3, <1>4

\* The same after a step.
LEMMA InUseNext ==
  ASSUME IInv, [Next]_vars
  PROVE  /\ status' = "open" => states'[val'].refs > 0
         /\ \A r \in Readers : rd'[r].rs # 0 => states'[rd'[r].rs].refs > 0
<1>1. IInv'
  BY IStep
<1>2. (IInv => /\ status = "open" => states[val].refs > 0 /\ val \in DOMAIN states
               /\ \A r \in Readers : rd[r].rs # 0 =>
                    states[rd[r].rs].refs > 0 /\ rd[r].rs \in DOMAIN states)'
  BY InUseFact, PTL
<1> QED BY <1>1, <1>2

\* A state that stays in use keeps its tables.
LEMMA StateKept ==
  ASSUME IInv, [Next]_vars, NEW s \in DOMAIN states, states'[s].refs > 0
  PROVE  states'[s].mems = states[s].mems /\ states'[s].arr = states[s].arr
<1>0. TypeInv /\ PlaceInv /\ PhaseInv
  BY DEF IInv
<1>1. CASE UNCHANGED states
  BY <1>1
<1>2. ASSUME NEW u, NEW a, Gives(u, a)
      PROVE  states'[s].mems = states[s].mems /\ states'[s].arr = states[s].arr
  <2>1. /\ u \in DOMAIN states
        /\ \A v \in DOMAIN states : v # u => states'[v] = states[v]
        /\ states[u].refs # 1 => states'[u].mems = states[u].mems /\ states'[u].arr = states[u].arr
        /\ states'[u].refs = states[u].refs - 1
    BY <1>0, <1>2, GaveFact
  <2>2. CASE s = u
    <3>1. states[u].refs # 1
      BY <2>1, <2>2
    <3> QED BY <2>1, <2>2, <3>1
  <2> QED BY <2>1, <2>2
<1>3. ASSUME NEW r \in Readers, Load(r)
      PROVE  states'[s].mems = states[s].mems /\ states'[s].arr = states[s].arr
  BY <1>0, <1>3, LoadFact
<1>4. CASE SwitchMem
  <2>1. \A v \in DOMAIN states : states'[v] = states[v]
    BY <1>0, <1>4, SwitchFact
  <2> QED BY <2>1
<1>5. CASE FlushInstall
  <2>1. \A v \in DOMAIN states : states'[v] = states[v]
    BY <1>0, <1>5, InstallFact
  <2> QED BY <2>1
<1> QED BY <1>1, <1>2, <1>3, <1>4, <1>5, StateKinds

\* What is lost stays lost.
LEMMA DamagedGrows ==
  ASSUME DataInv, [Next]_vars
  PROVE  damaged \subseteq damaged'
<1>1. CASE FlushBuild
  BY <1>1, BuiltTable
<1>2. CASE UNCHANGED damaged
  BY <1>2
<1> QED BY <1>1, <1>2, HistoryKinds

\* What the flushed memtables M and arrtable had is found in the new array table, below
\* the memtables N that are left.
LEMMA InstallFinds ==
  ASSUME DataInv, NEW M, NEW N, M \cup N = Range(queue), \A t \in M, u \in N : t < u,
         NEW new, new # 0, NEW k \in Keys, Merged(tabs, M, arr, new, k),
         NEW x \in 0..Len(keyOf), Finds(tabs, keyOf, Range(queue), arr, k, x)
  PROVE  Finds(tabs, keyOf, N, new, k, x)
<1>0. WriteInv /\ MemInv /\ OrderInv /\ PlaceInv
  BY DEF DataInv, IInv
<1>1. Len(keyOf) \in Nat
  BY <1>0 DEF WriteInv
<1>2. Range(queue) \subseteq Of("mem")
  BY <1>0 DEF PlaceInv
<1>3. \A t \in M \cup N : /\ t \in Of("mem") /\ tabs[t].body[k] \in Nat
                          /\ tabs[t].body[k] # 0 =>
                               tabs[t].body[k] \in 1..Len(keyOf) /\ keyOf[tabs[t].body[k]] = k
  BY <1>0, <1>2 DEF MemInv
<1>4. Readable(tabs[new].body)
  BY DEF Merged
<1>5. CASE x = 0
  BY <1>5 DEF Finds
<1>6. CASE x # 0 /\ \E u \in N : tabs[u].body[k] # 0
  <2>1. PICK u \in N : tabs[u].body[k] # 0
    BY <1>6
  <2>2. PICK t \in Range(queue) : tabs[t].body[k] >= x
    BY <1>6, <2>1 DEF Finds
  <2>3. CASE t \in N
    BY <2>2, <2>3 DEF Finds
  <2>4. CASE t \in M
    <3>1. t < u
      BY <2>1, <2>4
    <3>2. tabs[t].body[k] <= tabs[u].body[k]
      BY <1>0, <1>3, <2>1, <2>4, <3>1 DEF OrderInv
    <3>3. tabs[u].body[k] >= x
      BY <1>1, <1>3, <2>1, <2>2, <2>4, <3>2
    <3> QED BY <2>1, <3>3 DEF Finds
  <2> QED BY <2>2, <2>3, <2>4
<1>7. CASE x # 0 /\ \A u \in N : tabs[u].body[k] = 0
  <2>1. CASE \E t \in Range(queue) : tabs[t].body[k] >= x
    <3>1. PICK t \in Range(queue) : tabs[t].body[k] >= x
      BY <2>1
    <3>2. tabs[t].body[k] # 0 /\ t \in M
      BY <1>1, <1>7, <3>1
    <3>3. PICK h \in M : /\ tabs[h].body[k] # 0
                         /\ \A u \in M : tabs[u].body[k] <= tabs[h].body[k]
                         /\ ReadsAs(tabs[new].body, k, Val(tabs[h].body[k]))
      BY <3>2 DEF Merged
    <3>4. tabs[h].body[k] \in x..Len(keyOf) /\ keyOf[tabs[h].body[k]] = k
      <4>1. tabs[h].body[k] \in 1..Len(keyOf) /\ keyOf[tabs[h].body[k]] = k
        BY <1>3, <3>3
      <4>2. tabs[t].body[k] <= tabs[h].body[k] /\ tabs[t].body[k] \in Nat
        BY <1>3, <3>2, <3>3
      <4> QED BY <1>1, <3>1, <4>1, <4>2
    <3>5. Has(tabs, keyOf, new, k, x)
      BY <1>4, <3>3, <3>4 DEF Has
    <3> QED BY <1>7, <3>5 DEF Finds
  <2>2. CASE (\A t \in Range(queue) : tabs[t].body[k] = 0) /\ Has(tabs, keyOf, arr, k, x)
    <3>1. arr # 0
      BY <2>2 DEF Has
    <3>2. PICK s \in x..Len(keyOf) : keyOf[s] = k /\ ReadsAs(tabs[arr].body, k, Val(s))
      BY <2>2 DEF Has
    <3>3. PICK i \in 1..tabs[arr].body.num : /\ GetKey(tabs[arr].body, i) = k
                                             /\ GetValue(tabs[arr].body, i) = Val(s)
      BY <3>2 DEF ReadsAs
    <3>4. \A t \in M : tabs[t].body[k] = 0
      BY <2>2
    <3>5. ReadsAs(tabs[new].body, k, Val(s))
      BY <3>1, <3>3, <3>4 DEF Merged
    <3>6. Has(tabs, keyOf, new, k, x)
      BY <1>4, <3>2, <3>5 DEF Has
    <3> QED BY <1>7, <3>6 DEF Finds
  <2> QED BY <1>7, <2>1, <2>2 DEF Finds
<1> QED BY <1>5, <1>6, <1>7

\* What apply enters is found in every list with the writer's memtable.
LEMMA AppliedFound ==
  ASSUME DataInv, Apply, NEW M, wr.mem \in M, NEW at
  PROVE  /\ Finds(tabs', keyOf', M, at, wr.key, latest'[wr.key])
         /\ \A k \in Keys : k # wr.key => latest'[k] = latest[k]
<1>0. IInv /\ WriteInv /\ MemInv
  BY DEF DataInv
<1>1. /\ wr.mem \in Of("mem") /\ wr.mem # 0
      /\ tabs'[wr.mem].body = [tabs[wr.mem].body EXCEPT ![wr.key] = wr.seq]
  BY <1>0, ApplyBody
<1>2. wr.key \in Keys /\ wr.seq = Len(keyOf) /\ Len(keyOf) \in Nat /\ latest \in [Keys -> Nat]
  BY <1>0, <1>1 DEF WriteInv
<1>3. latest' = [latest EXCEPT ![wr.key] = wr.seq]
  BY DEF Apply
<1>4. tabs[wr.mem].body \in [Keys -> Nat]
  BY <1>0, <1>1 DEF MemInv
<1>5. tabs'[wr.mem].body[wr.key] = wr.seq /\ latest'[wr.key] = wr.seq
  BY <1>1, <1>2, <1>3, <1>4
<1>6. tabs'[wr.mem].body[wr.key] >= latest'[wr.key]
  BY <1>2, <1>5
<1>7. \A k \in Keys : k # wr.key => latest'[k] = latest[k]
  BY <1>2, <1>3
<1> QED BY <1>6, <1>7 DEF Finds

\* queue and arrtable have the newest write of every key after every step of an open DB.
LEMMA QueueFindsStep ==
  ASSUME DataInv, [Next]_vars
  PROVE  QueueFinds'
<1> SUFFICES ASSUME status' = "open", NEW k \in Keys \ damaged'
             PROVE  Finds(tabs', keyOf', Range(queue'), arr', k, latest'[k])
  BY DEF QueueFinds, Keys
<1>0. /\ IInv /\ WriteInv /\ MemInv /\ OrderInv /\ MergedInv /\ QueueFinds /\ PlaceInv /\ TypeInv
      /\ PhaseInv /\ WriterInv
  BY DEF DataInv, IInv
<1>1. status = "open" /\ k \in Keys \ damaged
  BY DamagedGrows, HistoryKinds
<1>2. Finds(tabs, keyOf, Range(queue), arr, k, latest[k])
  BY <1>0, <1>1 DEF QueueFinds
<1>3. latest[k] \in 0..Len(keyOf)
  BY <1>0 DEF WriteInv
<1>4. Range(queue) \subseteq Of("mem") /\ (arr = 0 \/ arr \in Of("arr"))
  BY <1>0 DEF PlaceInv
<1>5. Finds(tabs', keyOf', Range(queue), arr, k, latest[k])
  BY <1>2, <1>3, <1>4, FindsKept
<1>6. CASE UNCHANGED <<queue, arr>>
  <2>1. CASE Apply
    <3>1. wr.mem \in Range(queue)
      BY <1>0, <2>1 DEF Apply, WriterInv
    <3>2. /\ Finds(tabs', keyOf', Range(queue), arr, wr.key, latest'[wr.key])
          /\ \A i \in Keys : i # wr.key => latest'[i] = latest[i]
      BY <2>1, <3>1, AppliedFound
    <3>3. CASE k = wr.key
      BY <1>6, <3>2, <3>3
    <3>4. CASE k # wr.key
      BY <1>5, <1>6, <3>2, <3>4
    <3> QED BY <3>3, <3>4
  <2>2. CASE UNCHANGED latest
    BY <1>5, <1>6, <2>2
  <2> QED BY <2>1, <2>2, HistoryKinds
<1>7. CASE SwitchMem
  <2> DEFINE x == Len(tabs) + 1
  <2>1. Range(queue') = Range(queue) \cup {x} /\ UNCHANGED <<arr, latest>>
    BY <1>0, <1>7, SwitchFact DEF SwitchMem
  <2>2. tabs'[x].body[k] = 0
    BY <1>0, <1>7, SwitchBody
  <2> HIDE DEF x
  <2> QED BY <1>5, <2>1, <2>2 DEF Finds
<1>8. CASE FlushInstall
  <2> DEFINE M == {queue[i] : i \in 1..fl.n}
             N == Range(queue')
  <2>1. /\ fl.pc = "install" /\ fl.new # 0 /\ arr' = fl.new /\ queue' \in Seq(Nat)
        /\ Len(queue') = Len(queue) - fl.n /\ Len(queue') > 0
        /\ \A i \in 1..Len(queue') : queue'[i] = queue[i + fl.n]
        /\ \A i \in 1..fl.n : i \in 1..Len(queue)
        /\ M \cup N = Range(queue)
    BY <1>0, <1>8, InstallFact
  <2>2. UNCHANGED latest /\ fl.n \in Nat /\ Len(queue) \in Nat /\ DOMAIN queue = 1..Len(queue)
    BY <1>0, <1>8, QueueFact DEF FlushInstall, TypeInv, Fl
  <2>3. \A i \in 1..fl.n, j \in 1..Len(queue') :
          i \in DOMAIN queue /\ j + fl.n \in DOMAIN queue /\ i < j + fl.n
    BY <2>1, <2>2
  <2>4. \A i \in 1..fl.n, j \in 1..Len(queue') : queue[i] < queue'[j]
    BY <1>0, <2>1, <2>3 DEF OrderInv, Rising
  <2>5. N = {queue'[j] : j \in 1..Len(queue')}
    BY <2>1 DEF Range
  <2>6. \A t \in M, u \in N : t < u
    BY <2>4, <2>5
  <2>7. Merged(tabs, M, arr, fl.new, k)
    BY <1>0, <1>1, <2>1 DEF MergedInv
  <2>8. k \in Keys /\ fl.new \in Of("arr") /\ N \subseteq Of("mem")
    BY <1>0, <1>1, <1>4, <2>1 DEF PlaceInv
  <2> HIDE DEF M, N
  <2>9. Finds(tabs, keyOf, N, fl.new, k, latest[k])
    BY <1>2, <1>3, <2>1, <2>6, <2>7, <2>8, InstallFinds
  <2>10. Finds(tabs', keyOf', N, fl.new, k, latest[k])
    BY <1>3, <2>8, <2>9, FindsKept
  <2> QED BY <2>1, <2>2, <2>10 DEF N
<1>9. CASE CloseQueue
  BY <1>9 DEF CloseQueue
<1> QED BY <1>6, <1>7, <1>8, <1>9, QueueKinds

\* readState is replaced by updateReadState only.
LEMMA ValKinds ==
  ASSUME [Next]_vars
  PROVE  UNCHANGED val \/ UpdateSwap
<1>1. FlushBuild => UNCHANGED val
  BY BuildRest
<1>2. \/ UNCHANGED vars \/ UpdateUnref \/ Close \/ (\E r \in Readers : CloseReader(r) \/ Load(r))
      \/ SwitchMem \/ FlushInstall \/ (\E a \in Actors : Drop(a)) \/ UpdateSwap \/ UpdateEnd
      \/ (\E k \in Keys : Write(k)) \/ Apply \/ FlushStart \/ FlushBuild \/ FlushRefused
      \/ FlushEnd \/ CloseQueue
  BY DEF Next
<1>3. (UNCHANGED vars \/ UpdateUnref \/ Close \/ (\E r \in Readers : CloseReader(r) \/ Load(r))
       \/ SwitchMem \/ FlushInstall \/ (\E a \in Actors : Drop(a)) \/ UpdateEnd
       \/ (\E k \in Keys : Write(k)) \/ Apply \/ FlushStart \/ FlushRefused \/ FlushEnd
       \/ CloseQueue) => UNCHANGED val
  BY DEF vars, Drop, UpdateEnd, UpdateUnref, FlushStart, FlushRefused, FlushEnd,
         CloseQueue, Close, CloseReader, Load, SwitchMem, FlushInstall, Write, Apply
<1> QED BY <1>1, <1>2, <1>3

\* So has the read state a reader would load.
LEMMA ValFindsStep ==
  ASSUME DataInv, [Next]_vars
  PROVE  ValFinds'
<1>0. /\ IInv /\ WriteInv /\ ValFinds /\ PlaceInv /\ TypeInv /\ PhaseInv /\ WriterInv /\ StateInv
  BY DEF DataInv, IInv
<1>1. CASE UpdateSwap
  <2>1. /\ val' = Len(states) /\ UNCHANGED <<status, states, tabs, keyOf, latest, queue, arr, wr, damaged>>
    BY <1>1 DEF UpdateSwap
  <2>2. QueueFinds'
    BY QueueFindsStep
  <2>3. status = "open" => states[Len(states)].mems = queue /\ states[Len(states)].arr = arr
    BY <1>0 DEF StateInv
  <2>4. wr.mem # 0 => status = "open" /\ wr.mem \in Range(queue)
    BY <1>0 DEF PhaseInv, WriterInv
  <2>5. status' = "open" => states'[val'].mems = queue' /\ states'[val'].arr = arr'
    BY <2>1, <2>3
  <2>6. wr'.mem # 0 => wr'.mem \in Range(states'[val'].mems)
    BY <2>1, <2>4, <2>5
  <2>7. status' = "open" =>
          \A k \in Keys \ damaged' :
            Finds(tabs', keyOf', Range(states'[val'].mems), states'[val'].arr, k, latest'[k])
    BY <2>2, <2>5 DEF QueueFinds
  <2> QED BY <2>6, <2>7 DEF ValFinds
<1>2. CASE UNCHANGED val /\ status' = "open"
  <2> DEFINE M == Range(states[val].mems)
             at == states[val].arr
  <2>1. states'[val].refs > 0 /\ val \in DOMAIN states /\ status = "open"
    BY <1>0, <1>2, InUseNext, HistoryKinds DEF PhaseInv
  <2>2. Range(states'[val'].mems) = M /\ states'[val'].arr = at
    BY <1>0, <1>2, <2>1, StateKept
  <2>3. M \subseteq Of("mem") /\ (at = 0 \/ at \in Of("arr"))
    BY <1>0, <2>1 DEF PlaceInv
  <2>4. ASSUME NEW k \in Keys \ damaged' PROVE Finds(tabs', keyOf', M, at, k, latest'[k])
    <3>1. k \in Keys \ damaged
      BY DamagedGrows
    <3>2. Finds(tabs, keyOf, M, at, k, latest[k]) /\ latest[k] \in 0..Len(keyOf)
      BY <1>0, <2>1, <3>1 DEF ValFinds, WriteInv
    <3> HIDE DEF M, at
    <3>3. Finds(tabs', keyOf', M, at, k, latest[k])
      BY <2>3, <3>1, <3>2, FindsKept
    <3>4. CASE Apply
      <4>1. wr.mem \in M
        BY <1>0, <3>4 DEF Apply, ValFinds, M
      <4>2. /\ Finds(tabs', keyOf', M, at, wr.key, latest'[wr.key])
            /\ \A i \in Keys : i # wr.key => latest'[i] = latest[i]
        BY <3>4, <4>1, AppliedFound
      <4>3. CASE k = wr.key
        BY <4>2, <4>3
      <4>4. CASE k # wr.key
        BY <3>1, <3>3, <4>2, <4>4
      <4> QED BY <4>3, <4>4
    <3>5. CASE UNCHANGED latest
      BY <3>3, <3>5
    <3> QED BY <3>4, <3>5, HistoryKinds
  <2>5. wr'.mem # 0 => wr'.mem \in M
    <3>1. ASSUME NEW k \in Keys, Write(k) PROVE wr'.mem \in M
      <4>1. wr'.mem = queue[Len(queue)] /\ mu.pc = "free" /\ Len(queue) > 0
        BY <1>0, <3>1, WriteFact
      <4>2. states[val].mems = queue
        BY <1>0, <2>1, <4>1 DEF PhaseInv, StateInv
      <4>3. queue[Len(queue)] \in Range(queue)
        BY <1>0, <4>1, QueueFact
      <4> QED BY <4>1, <4>2, <4>3
    <3>2. Apply => wr'.mem = 0
      BY DEF Apply, IdleWriter
    <3>3. UNCHANGED wr => (wr'.mem # 0 => wr'.mem \in M)
      BY <1>0 DEF ValFinds
    <3> QED BY <3>1, <3>2, <3>3, HistoryKinds
  <2> HIDE DEF M, at
  <2> QED BY <2>2, <2>4, <2>5 DEF ValFinds
<1>3. CASE status' # "open"
  <2>1. wr'.mem = 0
    BY <1>0, <1>3, IStep DEF IInv, PhaseInv
  <2> QED BY <1>3, <2>1 DEF ValFinds
<1> QED BY <1>1, <1>2, <1>3, ValKinds

\* And so does a reader's state, whatever happens while it is open.
LEMMA ReaderFindsStep ==
  ASSUME DataInv, [Next]_vars
  PROVE  ReaderFinds'
<1>0. /\ IInv /\ WriteInv /\ ValFinds /\ ReaderFinds /\ PlaceInv /\ TypeInv /\ PhaseInv /\ StateInv
  BY DEF DataInv, IInv
<1> SUFFICES ASSUME NEW r \in Readers, rd'[r].rs # 0, NEW k \in Keys
             PROVE  /\ rd'[r].floor[k] \in 0..Len(keyOf')
                    /\ k \notin damaged' =>
                         Finds(tabs', keyOf', Range(states'[rd'[r].rs].mems),
                               states'[rd'[r].rs].arr, k, rd'[r].floor[k])
  BY DEF ReaderFinds
<1>1. Len(keyOf) \in Nat /\ Len(keyOf') \in Nat /\ Len(keyOf) <= Len(keyOf')
  BY <1>0, KeyOfStep
<1>2. damaged \subseteq damaged'
  BY DamagedGrows
<1>3. ASSUME NEW s \in DOMAIN states, NEW x \in 0..Len(keyOf), states'[s].refs > 0,
             Finds(tabs, keyOf, Range(states[s].mems), states[s].arr, k, x)
      PROVE  Finds(tabs', keyOf', Range(states'[s].mems), states'[s].arr, k, x)
  <2>1. states'[s].mems = states[s].mems /\ states'[s].arr = states[s].arr
    BY <1>0, <1>3, StateKept
  <2>2. Range(states[s].mems) \subseteq Of("mem") /\ (states[s].arr = 0 \/ states[s].arr \in Of("arr"))
    BY <1>0 DEF PlaceInv
  <2>3. Finds(tabs', keyOf', Range(states[s].mems), states[s].arr, k, x)
    BY <1>3, <2>2, FindsKept
  <2> QED BY <2>1, <2>3
<1>4. CASE rd'[r] = rd[r]
  <2> DEFINE s == rd[r].rs
             x == rd[r].floor[k]
  <2>1. s # 0 /\ s \in DOMAIN states /\ x \in 0..Len(keyOf)
    BY <1>0, <1>4 DEF StateInv, ReaderFinds
  <2>2. states'[s].refs > 0
    BY <1>0, <1>4, InUseNext
  <2>3. k \notin damaged => Finds(tabs, keyOf, Range(states[s].mems), states[s].arr, k, x)
    BY <1>0, <2>1 DEF ReaderFinds
  <2>4. rd'[r].rs = s /\ rd'[r].floor[k] = x
    BY <1>4
  <2> HIDE DEF s, x
  <2>5. x \in 0..Len(keyOf')
    BY <1>1, <2>1
  <2> QED BY <1>2, <1>3, <2>1, <2>2, <2>3, <2>4, <2>5
<1>5. CASE Load(r)
  <2>1. rd'[r] = [rs |-> val, floor |-> latest] /\ status = "open"
    BY <1>0, <1>5 DEF Load, TypeInv
  <2>2. val \in DOMAIN states /\ latest[k] \in 0..Len(keyOf)
    BY <1>0 DEF PhaseInv, WriteInv
  <2>3. states'[val].refs > 0
    <3>1. states'[rd'[r].rs].refs > 0
      BY <1>0, InUseNext
    <3> QED BY <2>1, <3>1
  <2>4. k \notin damaged =>
          Finds(tabs, keyOf, Range(states[val].mems), states[val].arr, k, latest[k])
    BY <1>0, <2>1 DEF ValFinds
  <2>5. latest[k] \in 0..Len(keyOf')
    BY <1>1, <2>2
  <2> QED BY <1>2, <1>3, <2>1, <2>2, <2>3, <2>4, <2>5
<1>6. rd'[r] = rd[r] \/ Load(r)
  <2>1. FlushBuild => UNCHANGED rd
    BY BuildRest
  <2>2. \/ UNCHANGED vars \/ UpdateUnref \/ Close \/ (\E q \in Readers : CloseReader(q) \/ Load(q))
        \/ SwitchMem \/ FlushInstall \/ (\E a \in Actors : Drop(a)) \/ UpdateSwap \/ UpdateEnd
        \/ (\E i \in Keys : Write(i)) \/ Apply \/ FlushStart \/ FlushBuild \/ FlushRefused
        \/ FlushEnd \/ CloseQueue
    BY DEF Next
  <2>3. (UNCHANGED vars \/ UpdateUnref \/ Close \/ UpdateSwap
         \/ SwitchMem \/ FlushInstall \/ (\E a \in Actors : Drop(a)) \/ UpdateEnd
         \/ (\E i \in Keys : Write(i)) \/ Apply \/ FlushStart \/ FlushRefused \/ FlushEnd
         \/ CloseQueue) => UNCHANGED rd
    BY DEF vars, Drop, UpdateEnd, UpdateUnref, FlushStart, FlushRefused, FlushEnd, UpdateSwap,
           CloseQueue, Close, SwitchMem, FlushInstall, Write, Apply
  <2>4. ASSUME NEW q \in Readers, Load(q) PROVE rd'[r] = rd[r] \/ Load(r)
    BY <1>0, <2>4, LoadFact
  <2>5. ASSUME NEW q \in Readers, CloseReader(q) PROVE rd'[r] = rd[r]
    <3>1. rd' = [rd EXCEPT ![q] = IdleReader] /\ DOMAIN rd = Readers
      BY <1>0, <2>5 DEF CloseReader, TypeInv
    <3>2. q # r
      BY <3>1 DEF IdleReader
    <3> QED BY <3>1, <3>2
  <2> QED BY <2>1, <2>2, <2>3, <2>4, <2>5
<1> QED BY <1>4, <1>5, <1>6

\* Every step keeps what the tables hold in order.
LEMMA DataStep ==
  ASSUME DataInv, [Next]_vars
  PROVE  DataInv'
<1>1. IInv' /\ WriteInv' /\ MemInv' /\ OrderInv'
  BY IStep, WriteStep, MemStep, OrderStep DEF DataInv
<1>2. FinishedInv' /\ MergedInv' /\ QueueFinds' /\ ValFinds' /\ ReaderFinds'
  BY FinishedStep, MergedStep, QueueFindsStep, ValFindsStep, ReaderFindsStep
<1> QED BY <1>1, <1>2 DEF DataInv

-----------------------------------------------------------------------------
(***************************************************************************)
(* The first state.                                                        *)
(***************************************************************************)

\* openArrayTable finds the table of an earlier life as writeFinish left it.
LEMMA FirstTable ==
  LET t == OpenArrayTable(WriteFinish(SetAll(<<[key |-> 1, val |-> Val(1)]>>, <<"none">>))) IN
  /\ ~t.panic /\ Readable(t) /\ OnDisk(t)
  /\ \A i \in 1..t.num : GetKey(t, i) = 1
  /\ ReadsAs(t, 1, Val(1))
<1> DEFINE it == [key |-> 1, val |-> Val(1)]
           items == <<it>>
           none == <<"none">>
           all == SetAll(items, none)
           w == WriteFinish(all)
           t == OpenArrayTable(w)
<1>1. Val(1) \in Seq(Nat) /\ Len(Val(1)) = 1
  <2>1. 1 % 3 = 1
    OBVIOUS
  <2> QED BY <2>1, ValFact
<1>2. it \in Item /\ it.key = 1 /\ it.val = Val(1)
  BY <1>1 DEF Item
<1> HIDE DEF it
<1>3. items \in Seq(Item) /\ Len(items) = 1 /\ DOMAIN items = {1} /\ items[1] = it
  BY <1>2
<1>4. none = [i \in DOMAIN items |-> IF i = 0 THEN "none" ELSE "none"] /\ none[1] = "none"
  BY <1>3
<1> HIDE DEF items
<1>5. /\ SkippedBy(items, 0, "none") = {}
      /\ ~w.panic =>
           /\ Readable(w) /\ OnDisk(w)
           /\ \A i \in 1..w.num : \E j \in DOMAIN items : GetKey(w, i) = items[j].key
           /\ \A i \in DOMAIN items :
                i \notin SkippedBy(items, 0, "none") /\ i + 1 \notin SkippedBy(items, 0, "none") =>
                  ReadsAs(w, items[i].key, items[i].val)
  <2>1. \A i, j \in DOMAIN items : i < j => items[i].key < items[j].key
    BY <1>3
  <2>2. SkippedBy(items, 0, "none") = {}
    BY <1>3 DEF SkippedBy
  <2>3. 0 \in Nat
    OBVIOUS
  <2> DEFINE F == [i \in DOMAIN items |-> IF i = 0 THEN "none" ELSE "none"]
             done == WriteFinish(SetAll(items, F))
  <2>4. ~done.panic =>
           /\ Readable(done) /\ OnDisk(done)
           /\ \A i \in 1..done.num : \E j \in DOMAIN items : GetKey(done, i) = items[j].key
           /\ \A i \in DOMAIN items :
                i \notin SkippedBy(items, 0, "none") /\ i + 1 \notin SkippedBy(items, 0, "none") =>
                  ReadsAs(done, items[i].key, items[i].val)
    BY ONLY <1>3, <2>1, <2>3, FlushedTable, Zenon
  <2>5. done = w
    BY <1>4
  <2> HIDE DEF done, w
  <2> QED BY <2>2, <2>4, <2>5
<1> HIDE DEF none
<1>6. all = SetItem(NewArrayTable, it, "none")
  <2>1. PICK g : /\ g[0] = NewArrayTable
                 /\ \A i \in 1..Len(items) : g[i] = SetItem(g[i - 1], items[i], none[i])
                 /\ SetAll(items, none) = g[Len(items)]
    <3>1. Len(items) \in Nat
      BY <1>3
    <3> QED BY ONLY <3>1, RunFact
  <2>2. 1 \in 1..Len(items) /\ 1 - 1 = 0
    BY <1>3
  <2>3. g[1] = SetItem(g[0], items[1], none[1])
    BY <2>1, <2>2
  <2> QED BY <1>3, <1>4, <2>1, <2>3
<1>7. SizeInv(all) /\ ~all.over /\ ~all.panic /\ all.off = 5 /\ all.offs = <<2>>
  <2> DEFINE b == NewArrayTable
  <2>1. SizeInv(b) /\ b.offs = <<>> /\ b.off = 2 /\ ~b.over /\ ~b.panic
    BY NewFact
  <2> HIDE DEF b
  <2>2. 2 + Len(it.val) = 3 /\ b.off + 3 < OffsetLimit /\ ~Refused(b, 3, "none")
    <3>1. 2 + Len(it.val) = 3
      <4>1. Len(it.val) = 1
        BY ONLY <1>1, <1>2, Zenon
      <4> QED BY <4>1
    <3>2. b.off + 3 < OffsetLimit
      BY <2>1, MapAssumption
    <3>3. ~Refused(b, 3, "none")
      BY DEF Refused
    <3> QED BY <3>1, <3>2, <3>3
  <2>3. LET n == 2 + Len(it.val)
            u == SetItem(b, it, "none") IN
        /\ SizeInv(u)
        /\ ~u.panic /\ ~Refused(b, n, "none") => u.off = b.off + n /\ u.offs = Append(b.offs, b.off)
        /\ ~b.panic /\ ~b.over /\ b.off + n < OffsetLimit => ~u.over
    BY ONLY <1>2, <2>1, SetFact
  <2>4. all = SetItem(b, it, "none")
    BY <1>6 DEF b
  <2> HIDE DEF all
  <2>5. /\ SizeInv(all) /\ ~all.over
        /\ ~all.panic => all.off = b.off + 3 /\ all.offs = Append(b.offs, b.off)
    BY <2>1, <2>2, <2>3, <2>4
  <2>6. ~all.panic
    BY <2>5 DEF SizeInv
  <2> QED BY <2>1, <2>5, <2>6
<1> HIDE DEF all
<1>8. /\ DOMAIN w = TableFields /\ ~w.panic /\ w.off = 6 /\ w.num = 1 /\ w.idx = 5
      /\ w.cells = Written(Written(Written(all.cells, 0, <<6>>), 5, <<2>>), 1, << <<1, 5>> >>)
  <2>1. Len(all.offs) = 1 /\ all.off >= 2 /\ all.off + 1 < OffsetLimit
    BY <1>7, MapAssumption
  <2>2. LET n == Len(all.offs) IN
        /\ DOMAIN w = TableFields
        /\ ~all.panic /\ ~all.over /\ all.off + n < OffsetLimit => ~w.panic
        /\ ~w.panic =>
             /\ w.off = all.off + n /\ w.num = n /\ w.idx = all.off
             /\ w.cells = Written(IF n = 0 THEN Written(all.cells, 0, <<w.off>>)
                                  ELSE Written(Written(all.cells, 0, <<w.off>>), all.off, all.offs),
                                  1, << <<n, all.off>> >>)
    BY ONLY <1>7, <2>1, FinishShape
  <2> HIDE DEF w
  <2> QED BY <1>7, <2>1, <2>2
<1> HIDE DEF w
<1>9. w.cells[0] = 6 /\ w.cells[1] = <<1, 5>>
  <2> DEFINE c == Written(all.cells, 0, <<6>>)
             d == Written(c, 5, <<2>>)
  <2>1. 0 \in DOMAIN c /\ c[0] = 6
    BY DEF Written
  <2> HIDE DEF c
  <2>2. 0 \in DOMAIN d /\ d[0] = 6
    BY <2>1 DEF Written
  <2>3. w.cells = Written(d, 1, << <<1, 5>> >>)
    BY <1>8 DEF c
  <2> HIDE DEF d
  <2> QED BY <2>2, <2>3 DEF Written
<1>10. /\ t.num = w.num /\ t.idx = w.idx /\ t.cells = w.cells /\ t.panic = w.panic
       /\ t.synced = TRUE
  <2>1. w.cells[1][1] = 1 /\ w.cells[1][2] = 5
    BY <1>9
  <2>2. t = [w EXCEPT !.off = w.cells[0], !.msz = w.fsz, !.num = w.cells[1][1],
                      !.idx = w.cells[1][2], !.synced = TRUE]
    BY DEF OpenArrayTable, HeaderLen
  <2> HIDE DEF t
  <2> QED BY <1>8, <2>1, <2>2 DEF TableFields
<1> HIDE DEF t
<1>11. /\ \A i : GetKey(t, i) = GetKey(w, i)
       /\ \A i : GetValue(t, i) = GetValue(w, i)
  <2>1. \A i : ItemOffset(t, i) = ItemOffset(w, i)
    BY <1>10 DEF ItemOffset
  <2>2. \A o, n : ReadAt(t, o, n) = ReadAt(w, o, n)
    BY <1>10 DEF ReadAt
  <2> QED BY <1>10, <2>1, <2>2 DEF GetKey, GetValue
<1>12. Readable(t)
  BY <1>5, <1>8, <1>10, <1>11 DEF Readable
<1>13. ReadsAs(t, 1, Val(1))
  <2>1. ReadsAs(w, 1, Val(1))
    BY <1>2, <1>3, <1>5, <1>8
  <2> QED BY <1>10, <1>11, <2>1 DEF ReadsAs
<1>14. \A i \in 1..t.num : GetKey(t, i) = 1
  BY <1>2, <1>3, <1>5, <1>8, <1>10, <1>11
<1>15. OnDisk(t)
  BY <1>10 DEF OnDisk
<1> QED BY <1>8, <1>10, <1>12, <1>13, <1>14, <1>15 DEF t, w, all, items, it, none

\* It holds at first.
LEMMA DataInit ==
  ASSUME Init
  PROVE  DataInv
<1> DEFINE b == OpenArrayTable(WriteFinish(SetAll(<<[key |-> 1, val |-> Val(1)]>>, <<"none">>)))
<1>0. IInv /\ TypeInv /\ PlaceInv
  BY IInit DEF IInv
<1>1. /\ ~b.panic /\ Readable(b) /\ OnDisk(b) /\ ReadsAs(b, 1, Val(1))
      /\ \A i \in 1..b.num : GetKey(b, i) = 1
  BY FirstTable
<1> HIDE DEF b
<1>2. PICK old \in BOOLEAN :
        /\ tabs = IF old THEN <<[NewMem EXCEPT !.refs = 2], [NewArr(b) EXCEPT !.refs = 2]>>
                  ELSE <<[NewMem EXCEPT !.refs = 2]>>
        /\ status = "open" /\ queue = <<1>> /\ arr = IF old THEN 2 ELSE 0
        /\ states = <<[refs |-> 1, mems |-> queue, arr |-> arr]>> /\ val = 1
        /\ rd = [r \in Readers |-> IdleReader] /\ wr = IdleWriter /\ fl = IdleFlush
        /\ keyOf = <<IF old THEN 1 ELSE 0>>
        /\ latest = [k \in Keys |-> IF old /\ k = 1 THEN 1 ELSE 0]
        /\ damaged = {} /\ orphans = {}
  BY DEF Init, b
<1>3. tabs[1].body = [k \in Keys |-> 0] /\ tabs[1].kind = "mem"
  BY <1>2 DEF NewMem
<1>4. old => tabs[2].body = b /\ tabs[2].kind = "arr" /\ DOMAIN tabs = {1, 2}
  BY <1>2 DEF NewArr
<1>5. ~old => DOMAIN tabs = {1}
  BY <1>2
<1>6. Of("mem") = {1} /\ Of("arr") = IF old THEN {2} ELSE {}
  <2>1. CASE old
    <3>1. DOMAIN tabs = {1, 2} /\ tabs[2].kind = "arr"
      BY <1>4, <2>1
    <3> QED BY <1>3, <2>1, <3>1 DEF Of
  <2>2. CASE ~old
    <3>1. DOMAIN tabs = {1}
      BY <1>5, <2>2
    <3> QED BY <1>3, <2>2, <3>1 DEF Of
  <2> QED BY <2>1, <2>2
<1>7. 1 \in Keys
  BY ReadAssumption DEF Keys
<1>8. /\ keyOf \in Seq(Nat) /\ Len(keyOf) = 1 /\ keyOf[1] = IF old THEN 1 ELSE 0
      /\ latest \in [Keys -> Nat] /\ \A k \in Keys : latest[k] = IF old /\ k = 1 THEN 1 ELSE 0
  BY <1>2
<1>9. WriteInv
  BY <1>2, <1>8 DEF WriteInv, IdleWriter
<1>10. MemInv
  BY <1>3, <1>6 DEF MemInv
<1>11. states[1].mems = <<1>> /\ states[1].arr = arr /\ DOMAIN states = {1} /\ Range(queue) = {1}
       /\ Range(states[val].mems) = {1} /\ states[val].arr = arr
  BY <1>2 DEF Range
<1>12. Rising(<<1>>)
  BY DEF Rising
<1>13. OrderInv
  BY <1>2, <1>6, <1>11, <1>12 DEF OrderInv, IdleWriter
<1>14. FinishedInv
  BY <1>1, <1>4, <1>6, <1>7 DEF FinishedInv
<1>15. ASSUME NEW k \in Keys
       PROVE  Finds(tabs, keyOf, {1}, arr, k, latest[k])
  <2>1. CASE latest[k] = 0
    BY <2>1 DEF Finds
  <2>2. CASE latest[k] # 0
    <3>1. old /\ k = 1 /\ latest[k] = 1 /\ arr = 2 /\ keyOf[1] = 1
      BY <1>2, <1>8, <2>2
    <3>2. 1 \in 1..Len(keyOf) /\ Len(keyOf) = 1
      BY <1>8
    <3>3. Has(tabs, keyOf, arr, k, latest[k])
      BY <1>1, <1>4, <3>1, <3>2 DEF Has
    <3>4. \A t \in {1} : tabs[t].body[k] = 0
      BY <1>3
    <3> QED BY <3>3, <3>4 DEF Finds
  <2> QED BY <2>1, <2>2
<1>16. QueueFinds
  BY <1>11, <1>15 DEF QueueFinds
<1>17. ValFinds
  BY <1>2, <1>11, <1>15 DEF ValFinds, IdleWriter
<1>18. MergedInv
  BY <1>2 DEF MergedInv, IdleFlush
<1>19. ReaderFinds
  BY <1>2 DEF ReaderFinds, IdleReader
<1> QED BY <1>0, <1>9, <1>10, <1>13, <1>14, <1>16, <1>17, <1>18, <1>19 DEF DataInv

-----------------------------------------------------------------------------
(***************************************************************************)
(* The theorems.                                                           *)
(***************************************************************************)

\* arrayTable.get finds the value of a key that is there, though it never compares the
\* key it lands on.
LEMMA GetFact ==
  ASSUME NEW b, Readable(b), NEW k \in Nat, NEW v, ReadsAs(b, k, v)
  PROVE  AtGet(b, k).found /\ AtGet(b, k).val = v
<1> DEFINE T == {i \in 1..(b.num + 1) : i > b.num \/ GetKey(b, i) >= k}
           p == FindKeyIndexPos(b, k)
<1>1. /\ b.num \in Nat
      /\ \A i \in 1..b.num : GetKey(b, i) \in Nat
      /\ \A i, j \in 1..b.num : i < j => GetKey(b, i) < GetKey(b, j)
  BY DEF Readable
<1>2. PICK h \in 1..b.num : GetKey(b, h) = k /\ GetValue(b, h) = v
  BY DEF ReadsAs
<1>3. T \subseteq Nat /\ h \in T
  BY <1>1, <1>2
<1>4. p = Min(T)
  BY DEF FindKeyIndexPos
<1>5. p \in T /\ p <= h
  <2> HIDE DEF T, p
  <2> QED BY <1>3, <1>4, MinFact
<1> HIDE DEF p
<1>6. p \in 1..b.num /\ GetKey(b, p) >= k
  BY <1>1, <1>2, <1>5
<1>7. p = h
  <2> SUFFICES ASSUME p < h PROVE FALSE
    BY <1>1, <1>2, <1>5, <1>6
  <2>1. GetKey(b, p) < k
    BY <1>1, <1>2, <1>6
  <2> QED BY <1>1, <1>6, <2>1
<1>8. p <= b.num
  BY <1>1, <1>6
<1>9. AtGet(b, k).found /\ AtGet(b, k).val = GetValue(b, p)
  <2> USE DEF p
  <2>1. FindKeyIndexPos(b, k) <= b.num
    BY <1>8
  <2> QED BY <2>1 DEF AtGet
<1> QED BY <1>2, <1>7, <1>9

\* plainDB.Get in a state that has write x of key k or a later one.
LEMMA LookupFact ==
  ASSUME DataInv, NEW s \in DOMAIN states, NEW k \in Keys, NEW x \in 1..Len(keyOf),
         Finds(tabs, keyOf, Range(states[s].mems), states[s].arr, k, x)
  PROVE  Lookup(s, k).found /\ \E w \in x..Len(keyOf) : keyOf[w] = k /\ Lookup(s, k).val = Val(w)
<1> DEFINE q == states[s].mems
           at == states[s].arr
           hits == {i \in DOMAIN q : tabs[q[i]].body[k] # 0}
           got == Lookup(s, k)
<1>0. IInv /\ WriteInv /\ MemInv /\ OrderInv /\ PlaceInv /\ TypeInv
  BY DEF DataInv, IInv
<1>1. q \in Seq(Nat) /\ Len(q) \in Nat /\ DOMAIN q = 1..Len(q)
  <2>1. states \in Seq(State)
    BY <1>0 DEF TypeInv
  <2>2. states[s] \in State
    BY <2>1
  <2>3. q \in Seq(Nat)
    BY <2>2 DEF State
  <2> QED BY <2>3
<1>2. \A i \in DOMAIN q : q[i] \in Range(q) /\ q[i] \in Of("mem")
  <2>1. Range(q) \subseteq Of("mem")
    BY <1>0 DEF PlaceInv
  <2> QED BY <2>1 DEF Range
<1>3. \A i \in DOMAIN q : /\ tabs[q[i]].body[k] \in Nat
                          /\ tabs[q[i]].body[k] # 0 =>
                               /\ tabs[q[i]].body[k] \in 1..Len(keyOf)
                               /\ keyOf[tabs[q[i]].body[k]] = k
  BY <1>0, <1>2 DEF MemInv
<1>4. Rising(q)
  BY <1>0 DEF OrderInv
<1>5. Len(keyOf) \in Nat
  BY <1>0 DEF WriteInv
<1>6. got = IF hits # {} THEN [found |-> TRUE, val |-> Val(tabs[q[Max(hits)]].body[k])]
            ELSE IF at # 0 THEN AtGet(tabs[at].body, k)
            ELSE [found |-> FALSE, val |-> <<>>]
  BY DEF Lookup
<1>7. Finds(tabs, keyOf, Range(q), at, k, x)
  OBVIOUS
<1> HIDE DEF q, at, got
<1>8. CASE hits # {}
  <2> DEFINE m == Max(hits)
  <2>1. m \in hits /\ \A i \in hits : m >= i
    <3>1. hits \subseteq Nat /\ \A i \in hits : i <= Len(q)
      BY <1>1
    <3> HIDE DEF hits
    <3> QED BY <1>1, <1>8, <3>1, MaxFact
  <2> HIDE DEF m
  <2>2. m \in DOMAIN q /\ tabs[q[m]].body[k] # 0
    BY <2>1
  <2>3. \E t \in Range(q) : tabs[t].body[k] >= x
    BY <1>2, <1>7, <2>2 DEF Finds
  <2>4. PICK j \in DOMAIN q : tabs[q[j]].body[k] >= x
    BY <1>1, <2>3 DEF Range
  <2>5. j \in hits
    <3>1. tabs[q[j]].body[k] # 0
      BY <1>5, <2>4
    <3> QED BY <3>1
  <2>6. tabs[q[j]].body[k] <= tabs[q[m]].body[k]
    <3>1. CASE j = m
      BY <1>3, <2>4, <3>1
    <3>2. CASE j # m
      <4>1. j < m
        BY <1>1, <2>1, <2>2, <2>5, <3>2
      <4>2. q[j] < q[m]
        BY <1>4, <2>2, <4>1 DEF Rising
      <4> QED BY <1>0, <1>2, <2>2, <4>2 DEF OrderInv
    <3> QED BY <3>1, <3>2
  <2>7. tabs[q[m]].body[k] \in x..Len(keyOf) /\ keyOf[tabs[q[m]].body[k]] = k
    <3>1. tabs[q[m]].body[k] \in 1..Len(keyOf) /\ keyOf[tabs[q[m]].body[k]] = k
      BY <1>3, <2>2
    <3>2. tabs[q[j]].body[k] \in Nat
      BY <1>3
    <3> QED BY <1>5, <2>4, <2>6, <3>1, <3>2
  <2>8. got.found /\ got.val = Val(tabs[q[m]].body[k])
    BY <1>6, <1>8 DEF m
  <2> QED BY <2>7, <2>8 DEF got
<1>9. CASE hits = {}
  <2>1. \A i \in DOMAIN q : tabs[q[i]].body[k] = 0
    BY <1>9
  <2>2. \A t \in Range(q) : tabs[t].body[k] = 0
    BY <2>1 DEF Range
  <2>3. Has(tabs, keyOf, at, k, x)
    BY <1>5, <1>7, <2>2 DEF Finds
  <2>4. at # 0 /\ Readable(tabs[at].body)
    BY <2>3 DEF Has
  <2>5. PICK w \in x..Len(keyOf) : keyOf[w] = k /\ ReadsAs(tabs[at].body, k, Val(w))
    BY <2>3 DEF Has
  <2>6. k \in Nat
    BY DEF Keys
  <2>7. AtGet(tabs[at].body, k).found /\ AtGet(tabs[at].body, k).val = Val(w)
    BY <2>4, <2>5, <2>6, GetFact
  <2>8. got = AtGet(tabs[at].body, k)
    BY <1>6, <1>9, <2>4
  <2> QED BY <2>5, <2>7, <2>8 DEF got
<1> QED BY <1>8, <1>9

\* What the tables hold is in order after any number of reads, writes, switches,
\* flushes, refused items and failed flushes, in any interleaving.
THEOREM ContentsSound == Spec => []DataInv
<1>1. Init => DataInv
  BY DataInit
<1>2. DataInv /\ [Next]_vars => DataInv'
  BY DataStep
<1> QED BY <1>1, <1>2, PTL DEF Spec

\* A reader finds the newest value that was applied before it loaded its read state, or
\* a newer one, for as long as it has the state open: makeRoomForWrite, flush1 and the
\* layout of the array tables hide nothing but what a flush could not write.
THEOREM NothingHidden == Spec => []ReadsBack
<1>1. DataInv => ReadsBack
  <2> SUFFICES ASSUME DataInv, NEW r \in Readers, rd[r].rs # 0, NEW k \in Keys \ damaged,
                      rd[r].floor[k] # 0
               PROVE  LET got == Lookup(rd[r].rs, k) IN
                      got.found /\ \E s \in rd[r].floor[k]..Len(keyOf) :
                                     keyOf[s] = k /\ got.val = Val(s)
    BY DEF ReadsBack
  <2>1. /\ rd[r].floor[k] \in 0..Len(keyOf)
        /\ Finds(tabs, keyOf, Range(states[rd[r].rs].mems), states[rd[r].rs].arr, k, rd[r].floor[k])
    BY DEF DataInv, ReaderFinds
  <2>2. rd[r].rs \in DOMAIN states
    BY DEF DataInv, IInv, StateInv
  <2>3. rd[r].floor[k] \in 1..Len(keyOf)
    <3>1. Len(keyOf) \in Nat
      BY DEF DataInv, WriteInv
    <3> QED BY <2>1, <3>1
  <2> QED BY <2>1, <2>2, <2>3, LookupFact
<1> QED BY <1>1, ContentsSound, PTL

\* No access of alloc, set, writeFinish or a reader leaves the mapping or the file of an
\* array table whose size has stayed below the limit of its offset, failed growth
\* included.
THEOREM NoPanicBelowLimit == Spec => []PanicsOnlyAtLimit
<1>1. DataInv => PanicsOnlyAtLimit
  BY DEF DataInv, FinishedInv, PanicsOnlyAtLimit, Of
<1> QED BY <1>1, ContentsSound, PTL

\* The array table flush1 installs is on disk to its last word, unless its size needs no
\* cut.
THEOREM InstalledOnDisk == Spec => []InstalledSynced
<1>1. DataInv => InstalledSynced
  <2> SUFFICES ASSUME DataInv, arr # 0 PROVE OnDisk(tabs[arr].body)
    BY DEF InstalledSynced, OnDisk
  <2> QED BY OldFact
<1> QED BY <1>1, ContentsSound, PTL
=============================================================================
