---------------------------- MODULE ObjectsProofs ----------------------------
(***************************************************************************)
(* The objects of a reconcile, for any set of ids. The argument is one of  *)
(* framing: an operation of the resource manager makes a copy all of whose *)
(* pointers are new, and then writes only to that copy and what it points  *)
(* to, so that whatever was in the heap before stays as it was.            *)
(***************************************************************************)
EXTENDS Objects, TLAPS

Ko == [id : Id \cup {0}, meta : Nat, cond : [Condition -> Nat]]
Metadata == [arn : Id \cup {0}, owner : {"nil", "own", "rm"}]
ConditionValue == Value \cup {"none"}
Heap == [ko : Seq(Ko), meta : Seq(Metadata), cond : Seq(ConditionValue)]

\* No pointer of a heap points outside of it.
Sound(h) ==
    /\ h \in Heap
    /\ \A o \in 1 .. Len(h.ko) :
          /\ h.ko[o].meta \in 0 .. Len(h.meta)
          /\ \A c \in Condition : h.ko[o].cond[c] \in 0 .. Len(h.cond)

\* k is g after writes to object o, and to what it points to or is made to.
Writes(g, k, o) ==
    /\ Sound(g) /\ Sound(k) /\ o \in 1 .. Len(g.ko)
    /\ Len(k.ko) = Len(g.ko) /\ Len(g.meta) <= Len(k.meta) /\ Len(g.cond) <= Len(k.cond)
    /\ \A q \in 1 .. Len(g.ko) : q # o => k.ko[q] = g.ko[q]
    /\ \A i \in 1 .. Len(g.meta) : i # g.ko[o].meta => k.meta[i] = g.meta[i]
    /\ \A i \in 1 .. Len(g.cond) :
          (\A c \in Condition : i # g.ko[o].cond[c]) => k.cond[i] = g.cond[i]
    /\ k.ko[o].meta = g.ko[o].meta \/ k.ko[o].meta > Len(g.meta)
    /\ \A c \in Condition :
          k.ko[o].cond[c] = g.ko[o].cond[c] \/ k.ko[o].cond[c] > Len(g.cond)

\* Everything in h is in g as it was.
Extends(h, g) ==
    /\ Sound(h) /\ Sound(g)
    /\ Len(h.ko) <= Len(g.ko) /\ Len(h.meta) <= Len(g.meta) /\ Len(h.cond) <= Len(g.cond)
    /\ \A q \in 1 .. Len(h.ko) : g.ko[q] = h.ko[q]
    /\ \A i \in 1 .. Len(h.meta) : g.meta[i] = h.meta[i]
    /\ \A i \in 1 .. Len(h.cond) : g.cond[i] = h.cond[i]

\* Object o of g is not in h and has no pointer into what is.
Fresh(h, g, o) ==
    /\ o \in 1 .. Len(g.ko) /\ o > Len(h.ko)
    /\ g.ko[o].meta = 0 \/ g.ko[o].meta > Len(h.meta)
    /\ \A c \in Condition : g.ko[o].cond[c] = 0 \/ g.ko[o].cond[c] > Len(h.cond)

\* Objects o and q point to different metadata and conditions.
Apart(h, o, q) ==
    /\ o # q
    /\ h.ko[o].meta # 0 => h.ko[o].meta # h.ko[q].meta
    /\ \A c, d \in Condition : h.ko[o].cond[c] # 0 => h.ko[o].cond[c] # h.ko[q].cond[d]

\* What a reconcile has in hand where. The resource it will write is a copy, or
\* the desired one itself when that has an id and no condition.
StepInv ==
    /\ pc # "idle" => desired \in 1 .. Len(heap.ko)
    /\ pc \in {"update", "delete"} => observed \in 1 .. Len(heap.ko)
    /\ pc \in {"patch", "synced", "status"} => latest \in 1 .. Len(heap.ko)
    /\ pc \in {"patch", "synced"} /\ latest # desired => Apart(heap, latest, desired)

\* Until the status is written, the desired resource has the one it was read with.
DesiredInv ==
    /\ pc \notin {"idle", "status"} => StatusOf(heap, desired) = cr
    /\ pc = "status" /\ latest # desired => StatusOf(heap, desired) = cr
    /\ pc = "update" => cr.id # 0
    /\ pc \in {"patch", "synced", "status"} /\ latest = desired =>
          cr.id # 0 /\ cr.conditions = NoConditions

\* All metadata, but for that at p, has an owner.
Owned(h, p) == \A i \in 1 .. Len(h.meta) : i # p => h.meta[i].owner # "nil"

\* setStatusDefaults has been called on whatever has metadata, here and in the
\* API server.
OwnerInv == Owned(heap, 0) /\ (cr.owner \/ cr.arn = 0)

IInv ==
    /\ TypeOK /\ Sound(heap) /\ StepInv /\ DesiredInv /\ OwnerInv
    /\ ManagerNotWritten

-----------------------------------------------------------------------------
(* Heaps and the writes to them.                                           *)

LEMMA SeqUpdate ==
    ASSUME NEW S, NEW s \in Seq(S), NEW x \in S
    PROVE  /\ Append(s, x) \in Seq(S) /\ Len(Append(s, x)) = Len(s) + 1
           /\ Append(s, x)[Len(s) + 1] = x
           /\ \A i \in 1 .. Len(s) : Append(s, x)[i] = s[i]
           /\ \A i \in 1 .. Len(s) :
                 /\ [s EXCEPT ![i] = x] \in Seq(S) /\ Len([s EXCEPT ![i] = x]) = Len(s)
                 /\ [s EXCEPT ![i] = x][i] = x
                 /\ \A j \in 1 .. Len(s) : j # i => [s EXCEPT ![i] = x][j] = s[j]
OBVIOUS

LEMMA HeapParts ==
    ASSUME NEW h \in Heap
    PROVE  /\ h.ko \in Seq(Ko) /\ h.meta \in Seq(Metadata) /\ h.cond \in Seq(ConditionValue)
           /\ Len(h.ko) \in Nat /\ Len(h.meta) \in Nat /\ Len(h.cond) \in Nat
           /\ \A k \in Seq(Ko) : /\ [h EXCEPT !.ko = k] \in Heap
                                 /\ [h EXCEPT !.ko = k].ko = k
                                 /\ [h EXCEPT !.ko = k].meta = h.meta
                                 /\ [h EXCEPT !.ko = k].cond = h.cond
           /\ \A m \in Seq(Metadata) : /\ [h EXCEPT !.meta = m] \in Heap
                                       /\ [h EXCEPT !.meta = m].ko = h.ko
                                       /\ [h EXCEPT !.meta = m].meta = m
                                       /\ [h EXCEPT !.meta = m].cond = h.cond
           /\ \A c \in Seq(ConditionValue) : /\ [h EXCEPT !.cond = c] \in Heap
                                             /\ [h EXCEPT !.cond = c].ko = h.ko
                                             /\ [h EXCEPT !.cond = c].meta = h.meta
                                             /\ [h EXCEPT !.cond = c].cond = c
BY DEF Heap

LEMMA HeapRecord ==
    ASSUME NEW h \in Heap, NEW k, NEW m
    PROVE  [h EXCEPT !.ko = k, !.meta = m] = [ko |-> k, meta |-> m, cond |-> h.cond]
<1>1. [h EXCEPT !.ko = k, !.meta = m] = [[h EXCEPT !.ko = k] EXCEPT !.meta = m]
  OBVIOUS
<1>2. [h EXCEPT !.ko = k] = [ko |-> k, meta |-> h.meta, cond |-> h.cond]
  <2>1. h = [ko |-> h.ko, meta |-> h.meta, cond |-> h.cond]
    BY DEF Heap
  <2>2. PICK a, b, c : a = h.ko /\ b = h.meta /\ c = h.cond
    OBVIOUS
  <2>3. [[ko |-> a, meta |-> b, cond |-> c] EXCEPT !.ko = k] = [ko |-> k, meta |-> b, cond |-> c]
    OBVIOUS
  <2> QED BY <2>1, <2>2, <2>3
<1>3. [[ko |-> k, meta |-> h.meta, cond |-> h.cond] EXCEPT !.meta = m] =
          [ko |-> k, meta |-> m, cond |-> h.cond]
  OBVIOUS
<1> QED BY <1>1, <1>2, <1>3

LEMMA NatOrder == \A x, y, z \in Nat : x <= y /\ y <= z => x <= z
OBVIOUS

LEMMA NatBeyond == \A x, y, z \in Nat : x <= y /\ z > y => z > x
OBVIOUS

LEMMA UpTo == \A n \in Nat : \A i \in 0 .. n : i \in Nat /\ (i # 0 => i \in 1 .. n)
OBVIOUS

LEMMA NotBeyond == \A n \in Nat : \A i \in 1 .. n : i # 0 /\ ~(i > n)
OBVIOUS

LEMMA Wider ==
    ASSUME NEW n \in Nat, NEW m \in Nat, n <= m
    PROVE  (\A i \in 1 .. n : i \in 1 .. m) /\ (\A i \in 0 .. n : i \in 0 .. m)
OBVIOUS

LEMMA SeqElement ==
    ASSUME NEW S, NEW s \in Seq(S), NEW i \in 1 .. Len(s)
    PROVE  s[i] \in S /\ [s EXCEPT ![i] = s[i]] = s
OBVIOUS

LEMMA WritesNothing ==
    ASSUME NEW g, Sound(g), NEW o \in 1 .. Len(g.ko) PROVE Writes(g, g, o)
BY HeapParts DEF Writes, Sound

LEMMA WritesTwice ==
    ASSUME NEW g, NEW k, NEW l, NEW o, Writes(g, k, o), Writes(k, l, o)
    PROVE  Writes(g, l, o)
<1>1. /\ Len(g.ko) \in Nat /\ Len(g.meta) \in Nat /\ Len(g.cond) \in Nat
      /\ Len(k.ko) \in Nat /\ Len(k.meta) \in Nat /\ Len(k.cond) \in Nat
      /\ Len(l.ko) \in Nat /\ Len(l.meta) \in Nat /\ Len(l.cond) \in Nat
  BY HeapParts DEF Writes, Sound
<1>2. /\ l.ko[o].meta \in 0 .. Len(l.meta)
      /\ \A c \in Condition : l.ko[o].cond[c] \in 0 .. Len(l.cond)
  BY DEF Writes, Sound
<1>3. /\ Sound(g) /\ Sound(l) /\ o \in 1 .. Len(g.ko)
      /\ Len(l.ko) = Len(g.ko) /\ Len(g.meta) <= Len(l.meta) /\ Len(g.cond) <= Len(l.cond)
      /\ \A q \in 1 .. Len(g.ko) : q # o => l.ko[q] = g.ko[q]
  <2>1. /\ Sound(g) /\ Sound(l) /\ o \in 1 .. Len(g.ko) /\ Len(l.ko) = Len(g.ko)
        /\ Len(g.meta) <= Len(k.meta) /\ Len(k.meta) <= Len(l.meta)
        /\ Len(g.cond) <= Len(k.cond) /\ Len(k.cond) <= Len(l.cond)
    BY DEF Writes
  <2>2. \A q \in 1 .. Len(g.ko) : q # o => l.ko[q] = g.ko[q]
    BY DEF Writes
  <2> QED BY <1>1, <2>1, <2>2, NatOrder
<1>4. ASSUME NEW i \in 1 .. Len(g.meta), i # g.ko[o].meta PROVE l.meta[i] = g.meta[i]
  <2>1. i \in 1 .. Len(k.meta) /\ k.meta[i] = g.meta[i]
    BY <1>1, <1>4 DEF Writes
  <2>2. i # k.ko[o].meta
    <3>1. k.ko[o].meta = g.ko[o].meta \/ k.ko[o].meta > Len(g.meta)
      BY DEF Writes
    <3>2. ~(i > Len(g.meta))
      BY <1>1, NotBeyond
    <3> QED BY <1>4, <3>1, <3>2
  <2> QED BY <2>1, <2>2 DEF Writes
<1>5. ASSUME NEW i \in 1 .. Len(g.cond), \A c \in Condition : i # g.ko[o].cond[c]
      PROVE  l.cond[i] = g.cond[i]
  <2>1. i \in 1 .. Len(k.cond) /\ k.cond[i] = g.cond[i]
    BY <1>1, <1>5 DEF Writes
  <2>2. ASSUME NEW c \in Condition PROVE i # k.ko[o].cond[c]
    <3>1. k.ko[o].cond[c] = g.ko[o].cond[c] \/ k.ko[o].cond[c] > Len(g.cond)
      BY DEF Writes
    <3>2. ~(i > Len(g.cond))
      BY <1>1, NotBeyond
    <3> QED BY <1>5, <3>1, <3>2
  <2> QED BY <2>1, <2>2 DEF Writes
<1>6. l.ko[o].meta = g.ko[o].meta \/ l.ko[o].meta > Len(g.meta)
  <2>1. /\ k.ko[o].meta = g.ko[o].meta \/ k.ko[o].meta > Len(g.meta)
        /\ l.ko[o].meta = k.ko[o].meta \/ l.ko[o].meta > Len(k.meta)
        /\ Len(g.meta) <= Len(k.meta)
    BY DEF Writes
  <2>2. PICK x \in Nat : x = l.ko[o].meta
    BY <1>1, <1>2, UpTo
  <2>3. x > Len(k.meta) => x > Len(g.meta)
    BY <1>1, <2>1, NatBeyond
  <2> QED BY <2>1, <2>2, <2>3
<1>7. ASSUME NEW c \in Condition
      PROVE  l.ko[o].cond[c] = g.ko[o].cond[c] \/ l.ko[o].cond[c] > Len(g.cond)
  <2>1. /\ k.ko[o].cond[c] = g.ko[o].cond[c] \/ k.ko[o].cond[c] > Len(g.cond)
        /\ l.ko[o].cond[c] = k.ko[o].cond[c] \/ l.ko[o].cond[c] > Len(k.cond)
        /\ Len(g.cond) <= Len(k.cond)
    BY DEF Writes
  <2>2. PICK x \in Nat : x = l.ko[o].cond[c]
    BY <1>1, <1>2, UpTo
  <2>3. x > Len(k.cond) => x > Len(g.cond)
    BY <1>1, <2>1, NatBeyond
  <2> QED BY <2>1, <2>2, <2>3
<1> QED BY <1>3, <1>4, <1>5, <1>6, <1>7 DEF Writes

\* What is written to a fresh object leaves the rest of the heap alone.
LEMMA WritesFresh ==
    ASSUME NEW h, NEW g, NEW k, NEW o, Extends(h, g), Fresh(h, g, o), Writes(g, k, o)
    PROVE  Extends(h, k) /\ Fresh(h, k, o)
<1>1. /\ Len(h.ko) \in Nat /\ Len(h.meta) \in Nat /\ Len(h.cond) \in Nat
      /\ Len(g.ko) \in Nat /\ Len(g.meta) \in Nat /\ Len(g.cond) \in Nat
      /\ Len(k.ko) \in Nat /\ Len(k.meta) \in Nat /\ Len(k.cond) \in Nat
  BY HeapParts DEF Writes, Sound, Extends
<1>2. /\ k.ko[o].meta \in 0 .. Len(k.meta)
      /\ \A c \in Condition : k.ko[o].cond[c] \in 0 .. Len(k.cond)
  BY DEF Writes, Sound
<1>3. ASSUME NEW q \in 1 .. Len(h.ko) PROVE k.ko[q] = h.ko[q]
  <2>1. q \in 1 .. Len(g.ko) /\ q # o
    BY <1>1 DEF Extends, Fresh
  <2> QED BY <2>1 DEF Extends, Writes
<1>4. ASSUME NEW i \in 1 .. Len(h.meta) PROVE k.meta[i] = h.meta[i]
  <2>1. i \in 1 .. Len(g.meta) /\ g.meta[i] = h.meta[i]
    BY <1>1, Wider DEF Extends
  <2>2. i # g.ko[o].meta
    <3>1. i # 0 /\ ~(i > Len(h.meta))
      BY <1>1, NotBeyond
    <3> QED BY <3>1 DEF Fresh
  <2> QED BY <2>1, <2>2 DEF Writes
<1>5. ASSUME NEW i \in 1 .. Len(h.cond) PROVE k.cond[i] = h.cond[i]
  <2>1. i \in 1 .. Len(g.cond) /\ g.cond[i] = h.cond[i]
    BY <1>1, Wider DEF Extends
  <2>2. \A c \in Condition : i # g.ko[o].cond[c]
    <3>1. i # 0 /\ ~(i > Len(h.cond))
      BY <1>1, NotBeyond
    <3> QED BY <3>1 DEF Fresh
  <2> QED BY <2>1, <2>2 DEF Writes
<1>6. Extends(h, k)
  <2>1. /\ Sound(h) /\ Sound(k) /\ Len(h.ko) <= Len(g.ko) /\ Len(k.ko) = Len(g.ko)
        /\ Len(h.meta) <= Len(g.meta) /\ Len(g.meta) <= Len(k.meta)
        /\ Len(h.cond) <= Len(g.cond) /\ Len(g.cond) <= Len(k.cond)
    BY DEF Extends, Writes
  <2>2. Len(h.ko) <= Len(k.ko)
    BY <2>1
  <2>3. Len(h.meta) <= Len(k.meta)
    BY <1>1, <2>1, NatOrder
  <2>4. Len(h.cond) <= Len(k.cond)
    BY <1>1, <2>1, NatOrder
  <2> QED BY <1>3, <1>4, <1>5, <2>1, <2>2, <2>3, <2>4 DEF Extends
<1>7. Fresh(h, k, o)
  <2>1. /\ o \in 1 .. Len(k.ko) /\ o > Len(h.ko)
        /\ k.ko[o].meta = 0 \/ k.ko[o].meta > Len(h.meta)
    <3>1. /\ o \in 1 .. Len(g.ko) /\ Len(k.ko) = Len(g.ko) /\ o > Len(h.ko)
          /\ k.ko[o].meta = g.ko[o].meta \/ k.ko[o].meta > Len(g.meta)
          /\ g.ko[o].meta = 0 \/ g.ko[o].meta > Len(h.meta)
          /\ Len(h.meta) <= Len(g.meta)
      BY DEF Writes, Fresh, Extends
    <3>2. PICK x \in Nat : x = k.ko[o].meta
      BY <1>1, <1>2, UpTo
    <3>3. x > Len(g.meta) => x > Len(h.meta)
      BY <1>1, <3>1, NatBeyond
    <3> QED BY <3>1, <3>2, <3>3
  <2>2. ASSUME NEW c \in Condition PROVE k.ko[o].cond[c] = 0 \/ k.ko[o].cond[c] > Len(h.cond)
    <3>1. /\ k.ko[o].cond[c] = g.ko[o].cond[c] \/ k.ko[o].cond[c] > Len(g.cond)
          /\ g.ko[o].cond[c] = 0 \/ g.ko[o].cond[c] > Len(h.cond)
          /\ Len(h.cond) <= Len(g.cond)
      BY DEF Writes, Fresh, Extends
    <3>2. PICK x \in Nat : x = k.ko[o].cond[c]
      BY <1>1, <1>2, UpTo
    <3>3. x > Len(g.cond) => x > Len(h.cond)
      BY <1>1, <3>1, NatBeyond
    <3> QED BY <3>1, <3>2, <3>3
  <2> QED BY <2>1, <2>2 DEF Fresh
<1> QED BY <1>6, <1>7

LEMMA ExtendsTwice ==
    ASSUME NEW h, NEW g, NEW k, Extends(h, g), Extends(g, k) PROVE Extends(h, k)
<1>1. /\ Len(h.ko) \in Nat /\ Len(h.meta) \in Nat /\ Len(h.cond) \in Nat
      /\ Len(g.ko) \in Nat /\ Len(g.meta) \in Nat /\ Len(g.cond) \in Nat
      /\ Len(k.ko) \in Nat /\ Len(k.meta) \in Nat /\ Len(k.cond) \in Nat
  BY HeapParts DEF Sound, Extends
<1>2. \A q \in 1 .. Len(h.ko) : k.ko[q] = h.ko[q]
  BY <1>1 DEF Extends
<1>3. \A i \in 1 .. Len(h.meta) : k.meta[i] = h.meta[i]
  BY <1>1 DEF Extends
<1>4. \A i \in 1 .. Len(h.cond) : k.cond[i] = h.cond[i]
  BY <1>1 DEF Extends
<1>5. Sound(h) /\ Sound(k)
  BY DEF Extends
<1>6. Len(h.ko) <= Len(k.ko) /\ Len(h.meta) <= Len(k.meta) /\ Len(h.cond) <= Len(k.cond)
  <2>1. /\ Len(h.ko) <= Len(g.ko) /\ Len(h.meta) <= Len(g.meta) /\ Len(h.cond) <= Len(g.cond)
        /\ Len(g.ko) <= Len(k.ko) /\ Len(g.meta) <= Len(k.meta) /\ Len(g.cond) <= Len(k.cond)
    BY DEF Extends
  <2> QED BY <1>1, <2>1, NatOrder
<1> QED BY <1>2, <1>3, <1>4, <1>5, <1>6 DEF Extends

\* A status is what its object and the objects it points to say.
LEMMA StatusKept ==
    ASSUME NEW h, NEW g, Sound(h), NEW o \in 1 .. Len(h.ko), g.ko[o] = h.ko[o],
           h.ko[o].meta # 0 => g.meta[h.ko[o].meta] = h.meta[h.ko[o].meta],
           \A c \in Condition :
               h.ko[o].cond[c] # 0 => g.cond[h.ko[o].cond[c]] = h.cond[h.ko[o].cond[c]]
    PROVE  StatusOf(g, o) = StatusOf(h, o)
BY DEF StatusOf

LEMMA ExtendsKeepsStatus ==
    ASSUME NEW h, NEW g, Extends(h, g), NEW o \in 1 .. Len(h.ko)
    PROVE  StatusOf(g, o) = StatusOf(h, o)
<1>1. /\ Sound(h) /\ g.ko[o] = h.ko[o]
      /\ h.ko[o].meta # 0 => g.meta[h.ko[o].meta] = h.meta[h.ko[o].meta]
      /\ \A c \in Condition :
             h.ko[o].cond[c] # 0 => g.cond[h.ko[o].cond[c]] = h.cond[h.ko[o].cond[c]]
  <2>1. Len(h.ko) \in Nat /\ Len(h.meta) \in Nat /\ Len(h.cond) \in Nat
    BY HeapParts DEF Extends, Sound
  <2>2. Sound(h) /\ g.ko[o] = h.ko[o] /\ h.ko[o].meta \in 0 .. Len(h.meta)
    BY DEF Extends, Sound
  <2>3. h.ko[o].meta # 0 => g.meta[h.ko[o].meta] = h.meta[h.ko[o].meta]
    <3>1. h.ko[o].meta # 0 => h.ko[o].meta \in 1 .. Len(h.meta)
      BY <2>1, <2>2, UpTo
    <3> QED BY <3>1 DEF Extends
  <2>4. ASSUME NEW c \in Condition, h.ko[o].cond[c] # 0
        PROVE  g.cond[h.ko[o].cond[c]] = h.cond[h.ko[o].cond[c]]
    <3>1. h.ko[o].cond[c] \in 0 .. Len(h.cond)
      BY DEF Extends, Sound
    <3>2. h.ko[o].cond[c] \in 1 .. Len(h.cond)
      BY <2>1, <2>4, <3>1, UpTo
    <3> QED BY <3>2 DEF Extends
  <2> QED BY <2>2, <2>3, <2>4
<1> QED BY <1>1, StatusKept

LEMMA WritesKeepsStatus ==
    ASSUME NEW g, NEW k, NEW o, Writes(g, k, o), NEW q \in 1 .. Len(g.ko), Apart(g, o, q)
    PROVE  StatusOf(k, q) = StatusOf(g, q)
<1>1. Len(g.ko) \in Nat /\ Len(g.meta) \in Nat /\ Len(g.cond) \in Nat
  BY HeapParts DEF Writes, Sound
<1>2. /\ g.ko[q].meta \in 0 .. Len(g.meta)
      /\ \A c \in Condition : g.ko[q].cond[c] \in 0 .. Len(g.cond)
  BY DEF Writes, Sound
<1>3. Sound(g) /\ k.ko[q] = g.ko[q]
  BY DEF Writes, Apart
<1>4. g.ko[q].meta # 0 => k.meta[g.ko[q].meta] = g.meta[g.ko[q].meta]
  <2> SUFFICES ASSUME g.ko[q].meta # 0
               PROVE  k.meta[g.ko[q].meta] = g.meta[g.ko[q].meta]
    OBVIOUS
  <2>1. g.ko[q].meta \in 1 .. Len(g.meta) /\ g.ko[q].meta # g.ko[o].meta
    BY <1>1, <1>2 DEF Apart
  <2> QED BY <2>1 DEF Writes
<1>5. ASSUME NEW c \in Condition, g.ko[q].cond[c] # 0
      PROVE  k.cond[g.ko[q].cond[c]] = g.cond[g.ko[q].cond[c]]
  <2>1. g.ko[q].cond[c] \in 1 .. Len(g.cond)
    BY <1>1, <1>2, <1>5
  <2>2. \A d \in Condition : g.ko[q].cond[c] # g.ko[o].cond[d]
    BY <1>5 DEF Apart
  <2> QED BY <2>1, <2>2 DEF Writes
<1> QED BY <1>3, <1>4, <1>5, StatusKept

\* A fresh object shares nothing with those there were.
LEMMA FreshIsApart ==
    ASSUME NEW h, NEW g, NEW o, Extends(h, g), Fresh(h, g, o), NEW q \in 1 .. Len(h.ko)
    PROVE  Apart(g, o, q)
<1>1. Len(h.ko) \in Nat /\ Len(h.meta) \in Nat /\ Len(h.cond) \in Nat
  BY HeapParts DEF Extends, Sound
<1>2. /\ g.ko[q].meta \in 0 .. Len(h.meta)
      /\ \A c \in Condition : g.ko[q].cond[c] \in 0 .. Len(h.cond)
  BY DEF Extends, Sound
<1>3. o # q /\ (g.ko[o].meta # 0 => g.ko[o].meta # g.ko[q].meta)
  BY <1>1, <1>2 DEF Fresh
<1>4. ASSUME NEW c \in Condition, NEW d \in Condition, g.ko[o].cond[c] # 0
      PROVE  g.ko[o].cond[c] # g.ko[q].cond[d]
  <2>1. g.ko[o].cond[c] > Len(h.cond) /\ g.ko[q].cond[d] \in 0 .. Len(h.cond)
    BY <1>2, <1>4 DEF Fresh
  <2> QED BY <1>1, <2>1
<1> QED BY <1>3, <1>4 DEF Apart

LEMMA StatusType ==
    ASSUME NEW h, Sound(h), NEW o \in 1 .. Len(h.ko) PROVE StatusOf(h, o) \in Status
<1>1. h.ko[o] \in Ko /\ h.ko[o].meta \in 0 .. Len(h.meta)
  BY HeapParts DEF Sound
<1>2. ASSUME h.ko[o].meta # 0 PROVE h.meta[h.ko[o].meta] \in Metadata
  BY <1>1, <1>2, HeapParts DEF Sound
<1>3. ASSUME NEW c \in Condition, h.ko[o].cond[c] # 0
      PROVE  h.cond[h.ko[o].cond[c]] \in ConditionValue
  <2>1. h.ko[o].cond[c] \in 1 .. Len(h.cond) /\ h.cond \in Seq(ConditionValue)
    BY <1>3, HeapParts DEF Sound
  <2> QED BY <2>1
<1>4. StatusOf(h, o).id \in Id \cup {0} /\ StatusOf(h, o).arn \in Id \cup {0}
  BY <1>1, <1>2 DEF StatusOf, Ko, Metadata
<1>5. StatusOf(h, o).owner \in BOOLEAN
  BY DEF StatusOf
<1>6. StatusOf(h, o).conditions \in [Condition -> Value \cup {"none"}]
  BY <1>3 DEF StatusOf, ConditionValue
<1>7. StatusOf(h, o) = [id |-> StatusOf(h, o).id, arn |-> StatusOf(h, o).arn,
                        owner |-> StatusOf(h, o).owner,
                        conditions |-> StatusOf(h, o).conditions]
  BY DEF StatusOf
<1> QED BY <1>4, <1>5, <1>6, <1>7 DEF Status

-----------------------------------------------------------------------------
(* The operations write to the object they are given.                      *)

\* A write: object o becomes y, and the metadata and conditions M and C.
Put(g, o, y, M, C) == [ko |-> [g.ko EXCEPT ![o] = y], meta |-> M, cond |-> C]

\* Of what there was only what o points to changes, and y has no other pointers
\* but to that or to what is new.
PutOK(g, o, y, M, C) ==
    /\ y \in Ko /\ M \in Seq(Metadata) /\ C \in Seq(ConditionValue)
    /\ Len(g.meta) <= Len(M) /\ Len(g.cond) <= Len(C)
    /\ y.meta \in 0 .. Len(M)
    /\ y.meta = g.ko[o].meta \/ y.meta > Len(g.meta)
    /\ \A c \in Condition : /\ y.cond[c] \in 0 .. Len(C)
                            /\ y.cond[c] = g.ko[o].cond[c] \/ y.cond[c] > Len(g.cond)
    /\ \A i \in 1 .. Len(g.meta) : i # g.ko[o].meta => M[i] = g.meta[i]
    /\ \A i \in 1 .. Len(g.cond) :
          (\A c \in Condition : i # g.ko[o].cond[c]) => C[i] = g.cond[i]

LEMMA WritesObject ==
    ASSUME NEW g, Sound(g), NEW o \in 1 .. Len(g.ko), NEW y, NEW M, NEW C,
           PutOK(g, o, y, M, C)
    PROVE  Writes(g, Put(g, o, y, M, C), o)
<1> DEFINE k == Put(g, o, y, M, C)
<1> USE DEF PutOK
<1>1. g.ko \in Seq(Ko) /\ Len(g.ko) \in Nat /\ Len(g.meta) \in Nat /\ Len(g.cond) \in Nat
  BY HeapParts DEF Sound
<1>2. /\ [g.ko EXCEPT ![o] = y] \in Seq(Ko) /\ Len([g.ko EXCEPT ![o] = y]) = Len(g.ko)
      /\ [g.ko EXCEPT ![o] = y][o] = y
      /\ \A q \in 1 .. Len(g.ko) : q # o => [g.ko EXCEPT ![o] = y][q] = g.ko[q]
  BY <1>1, SeqUpdate
<1>3. /\ k \in Heap /\ k.meta = M /\ k.cond = C
      /\ k.ko \in Seq(Ko) /\ Len(k.ko) = Len(g.ko) /\ k.ko[o] = y
      /\ \A q \in 1 .. Len(g.ko) : q # o => k.ko[q] = g.ko[q]
  BY <1>2 DEF Heap, Put
<1> HIDE DEF k
<1>4. ASSUME NEW q \in 1 .. Len(k.ko)
      PROVE  /\ k.ko[q].meta \in 0 .. Len(k.meta)
             /\ \A c \in Condition : k.ko[q].cond[c] \in 0 .. Len(k.cond)
  <2>1. CASE q = o
    BY <1>3, <2>1
  <2>2. CASE q # o
    <3>1. q \in 1 .. Len(g.ko) /\ k.ko[q] = g.ko[q]
      BY <1>3, <2>2
    <3>2. /\ g.ko[q].meta \in 0 .. Len(g.meta)
          /\ \A c \in Condition : g.ko[q].cond[c] \in 0 .. Len(g.cond)
      BY <3>1 DEF Sound
    <3>3. /\ Len(M) \in Nat /\ Len(C) \in Nat
          /\ Len(g.meta) <= Len(M) /\ Len(g.cond) <= Len(C)
      OBVIOUS
    <3> HIDE DEF PutOK
    <3>4. g.ko[q].meta \in 0 .. Len(M)
      BY <1>1, <3>2, <3>3, Wider
    <3>5. ASSUME NEW c \in Condition PROVE g.ko[q].cond[c] \in 0 .. Len(C)
      BY <1>1, <3>2, <3>3, Wider
    <3> QED BY <1>3, <3>1, <3>4, <3>5
  <2> QED BY <2>1, <2>2
<1>5. Sound(k)
  BY <1>3, <1>4 DEF Sound
<1>6. Writes(g, k, o)
  BY <1>3, <1>5 DEF Writes
<1> QED BY <1>6 DEF k

LEMMA KoCondition ==
    ASSUME NEW x \in Ko, NEW n \in Nat, NEW c \in Condition
    PROVE  /\ [x EXCEPT !.cond[c] = n] \in Ko /\ [x EXCEPT !.cond[c] = n].meta = x.meta
           /\ [x EXCEPT !.cond[c] = n].cond[c] = n
           /\ \A d \in Condition : d # c => [x EXCEPT !.cond[c] = n].cond[d] = x.cond[d]
BY DEF Ko

LEMMA KoMeta ==
    ASSUME NEW x \in Ko, NEW n \in Nat
    PROVE  /\ [x EXCEPT !.meta = n] \in Ko /\ [x EXCEPT !.meta = n].meta = n
           /\ [x EXCEPT !.meta = n].cond = x.cond
BY DEF Ko

LEMMA KoId ==
    ASSUME NEW x \in Ko, NEW i \in Id \cup {0}
    PROVE  /\ [x EXCEPT !.id = i] \in Ko /\ [x EXCEPT !.id = i].meta = x.meta
           /\ [x EXCEPT !.id = i].cond = x.cond
BY DEF Ko

LEMMA SameObject ==
    ASSUME NEW s \in Seq(Ko), NEW o \in 1 .. Len(s) PROVE [s EXCEPT ![o] = s[o]] = s
OBVIOUS

LEMMA PointerTypes ==
    ASSUME NEW g, Sound(g), NEW o \in 1 .. Len(g.ko)
    PROVE  /\ g \in Heap /\ g.ko \in Seq(Ko) /\ g.ko[o] \in Ko
           /\ g.meta \in Seq(Metadata) /\ g.cond \in Seq(ConditionValue)
           /\ Len(g.ko) \in Nat /\ Len(g.meta) \in Nat /\ Len(g.cond) \in Nat
           /\ g.ko[o].meta \in 0 .. Len(g.meta) /\ g.ko[o].meta \in Nat
           /\ \A c \in Condition : g.ko[o].cond[c] \in 0 .. Len(g.cond)
<1>1. g \in Heap
  BY DEF Sound
<1>2. /\ g.ko \in Seq(Ko) /\ g.meta \in Seq(Metadata) /\ g.cond \in Seq(ConditionValue)
      /\ Len(g.ko) \in Nat /\ Len(g.meta) \in Nat /\ Len(g.cond) \in Nat
  BY <1>1, HeapParts
<1>3. g.ko[o] \in Ko
  BY <1>2
<1>4. /\ g.ko[o].meta \in 0 .. Len(g.meta)
      /\ \A c \in Condition : g.ko[o].cond[c] \in 0 .. Len(g.cond)
  BY DEF Sound
<1> QED BY <1>1, <1>2, <1>3, <1>4

LEMMA SetConditionWrites ==
    ASSUME NEW g, Sound(g), NEW o \in 1 .. Len(g.ko), NEW c \in Condition, NEW v \in Value
    PROVE  /\ Writes(g, SetCondition(g, o, c, v), o)
           /\ SetCondition(g, o, c, v).ko[o].cond[c] # 0
<1> DEFINE p == g.ko[o].cond[c]
           k == SetCondition(g, o, c, v)
<1>1. /\ g \in Heap /\ g.ko \in Seq(Ko) /\ g.ko[o] \in Ko
      /\ g.meta \in Seq(Metadata) /\ g.cond \in Seq(ConditionValue)
      /\ Len(g.ko) \in Nat /\ Len(g.meta) \in Nat /\ Len(g.cond) \in Nat
      /\ g.ko[o].meta \in 0 .. Len(g.meta)
      /\ \A d \in Condition : g.ko[o].cond[d] \in 0 .. Len(g.cond)
  BY PointerTypes
<1>2. v \in ConditionValue
  BY DEF ConditionValue
<1>3. CASE p # 0
  <2> DEFINE C == [g.cond EXCEPT ![p] = v]
  <2>1. k = Put(g, o, g.ko[o], g.meta, C)
    <3>1. k = [g EXCEPT !.cond = C]
      BY <1>1, <1>3 DEF SetCondition, Heap
    <3>2. [g.ko EXCEPT ![o] = g.ko[o]] = g.ko
      BY <1>1, SameObject
    <3> QED BY <1>1, <3>1, <3>2 DEF Put, Heap
  <2>2. p \in 1 .. Len(g.cond)
    BY <1>1, <1>3
  <2>3. /\ C \in Seq(ConditionValue) /\ Len(C) = Len(g.cond)
        /\ \A i \in 1 .. Len(g.cond) : i # p => C[i] = g.cond[i]
    BY <1>1, <1>2, <2>2, SeqUpdate
  <2>4. k.ko[o] = g.ko[o]
    BY <1>1, <2>1 DEF Put
  <2> HIDE DEF C, k
  <2>5. PutOK(g, o, g.ko[o], g.meta, C)
    BY <1>1, <2>3 DEF PutOK
  <2>6. Writes(g, k, o)
    BY <2>1, <2>5, WritesObject
  <2> QED BY <1>3, <2>4, <2>6 DEF k
<1>4. CASE p = 0
  <2> DEFINE C == Append(g.cond, v)
             y == [g.ko[o] EXCEPT !.cond[c] = Len(g.cond) + 1]
  <2>1. k = Put(g, o, y, g.meta, C)
    BY <1>1, <1>4 DEF SetCondition, Heap, Put
  <2>2. /\ C \in Seq(ConditionValue) /\ Len(C) = Len(g.cond) + 1
        /\ \A i \in 1 .. Len(g.cond) : C[i] = g.cond[i]
    BY <1>1, <1>2, SeqUpdate
  <2>3. /\ y \in Ko /\ y.meta = g.ko[o].meta /\ y.cond[c] = Len(g.cond) + 1
        /\ \A d \in Condition : d # c => y.cond[d] = g.ko[o].cond[d]
    <3>1. PICK x \in Ko, n \in Nat : x = g.ko[o] /\ n = Len(g.cond) + 1
      BY <1>1
    <3>2. y = [x EXCEPT !.cond[c] = n]
      BY <3>1
    <3> HIDE DEF y
    <3>3. /\ y \in Ko /\ y.meta = x.meta /\ y.cond[c] = n
          /\ \A d \in Condition : d # c => y.cond[d] = x.cond[d]
      BY <3>2, KoCondition
    <3> QED BY <3>1, <3>3
  <2>4. k.ko[o] = y
    BY <1>1, <2>1 DEF Put
  <2> HIDE DEF C, k, y
  <2>5. \A d \in Condition : /\ y.cond[d] \in 0 .. Len(C)
                             /\ y.cond[d] = g.ko[o].cond[d] \/ y.cond[d] > Len(g.cond)
    <3> SUFFICES ASSUME NEW d \in Condition
                 PROVE  /\ y.cond[d] \in 0 .. Len(C)
                        /\ y.cond[d] = g.ko[o].cond[d] \/ y.cond[d] > Len(g.cond)
      OBVIOUS
    <3>1. CASE d = c
      BY <1>1, <2>2, <2>3, <3>1
    <3>2. CASE d # c
      BY <1>1, <2>2, <2>3, <3>2
    <3> QED BY <3>1, <3>2
  <2>6. PutOK(g, o, y, g.meta, C)
    BY <1>1, <2>2, <2>3, <2>5 DEF PutOK
  <2>7. Writes(g, k, o)
    BY <2>1, <2>6, WritesObject
  <2> QED BY <1>1, <2>3, <2>4, <2>7 DEF k
<1> QED BY <1>3, <1>4

LEMMA WithMetadataWrites ==
    ASSUME NEW g, Sound(g), NEW o \in 1 .. Len(g.ko)
    PROVE  /\ Writes(g, WithMetadata(g, o), o)
           /\ WithMetadata(g, o).ko[o].meta \in 1 .. Len(WithMetadata(g, o).meta)
<1> DEFINE k == WithMetadata(g, o)
<1>1. /\ g \in Heap /\ g.ko \in Seq(Ko) /\ g.ko[o] \in Ko
      /\ g.meta \in Seq(Metadata) /\ g.cond \in Seq(ConditionValue)
      /\ Len(g.ko) \in Nat /\ Len(g.meta) \in Nat /\ Len(g.cond) \in Nat
      /\ g.ko[o].meta \in 0 .. Len(g.meta)
      /\ \A d \in Condition : g.ko[o].cond[d] \in 0 .. Len(g.cond)
  BY PointerTypes
<1>2. CASE g.ko[o].meta # 0
  <2>1. k = g
    BY <1>2 DEF WithMetadata
  <2> QED BY <1>1, <1>2, <2>1, WritesNothing
<1>3. CASE g.ko[o].meta = 0
  <2> DEFINE m == [arn |-> 0, owner |-> "nil"]
             M == Append(g.meta, m)
             y == [g.ko[o] EXCEPT !.meta = Len(g.meta) + 1]
  <2>1. k = Put(g, o, y, M, g.cond)
    BY <1>1, <1>3 DEF WithMetadata, Heap, Put
  <2>2. m \in Metadata
    BY DEF Metadata
  <2> HIDE DEF m
  <2>3. /\ M \in Seq(Metadata) /\ Len(M) = Len(g.meta) + 1
        /\ \A i \in 1 .. Len(g.meta) : M[i] = g.meta[i]
    BY <1>1, <2>2, SeqUpdate
  <2>4. y \in Ko /\ y.meta = Len(g.meta) + 1 /\ y.cond = g.ko[o].cond
    <3>1. PICK x \in Ko, n \in Nat : x = g.ko[o] /\ n = Len(g.meta) + 1
      BY <1>1
    <3>2. y = [x EXCEPT !.meta = n]
      BY <3>1
    <3> HIDE DEF y
    <3>3. y \in Ko /\ y.meta = n /\ y.cond = x.cond
      BY <3>2, KoMeta
    <3> QED BY <3>1, <3>3
  <2>5. k.ko[o] = y /\ k.meta = M
    BY <1>1, <2>1 DEF Put
  <2> HIDE DEF M, k, y
  <2>6. PutOK(g, o, y, M, g.cond)
    BY <1>1, <2>3, <2>4 DEF PutOK
  <2>7. Writes(g, k, o)
    BY <2>1, <2>6, WritesObject
  <2>8. k.ko[o].meta \in 1 .. Len(k.meta)
    BY <1>1, <2>3, <2>4, <2>5
  <2> QED BY <2>7, <2>8 DEF k
<1> QED BY <1>2, <1>3

\* Metadata of an object, written in place.
LEMMA MetadataWrites ==
    ASSUME NEW g, Sound(g), NEW o \in 1 .. Len(g.ko), NEW m \in Metadata, NEW n \in Id \cup {0},
           g.ko[o].meta # 0
    PROVE  /\ Writes(g, [g EXCEPT !.meta[g.ko[o].meta] = m], o)
           /\ Writes(g, [g EXCEPT !.ko[o].id = n, !.meta[g.ko[o].meta] = m], o)
<1> DEFINE p == g.ko[o].meta
           M == [g.meta EXCEPT ![p] = m]
           y == [g.ko[o] EXCEPT !.id = n]
<1>1. /\ g \in Heap /\ g.ko \in Seq(Ko) /\ g.ko[o] \in Ko
      /\ g.meta \in Seq(Metadata) /\ g.cond \in Seq(ConditionValue)
      /\ Len(g.ko) \in Nat /\ Len(g.meta) \in Nat /\ Len(g.cond) \in Nat
      /\ g.ko[o].meta \in 0 .. Len(g.meta)
      /\ \A d \in Condition : g.ko[o].cond[d] \in 0 .. Len(g.cond)
  BY PointerTypes
<1>2. /\ M \in Seq(Metadata) /\ Len(M) = Len(g.meta)
      /\ \A i \in 1 .. Len(g.meta) : i # p => M[i] = g.meta[i]
  BY <1>1, SeqUpdate
<1>3. y \in Ko /\ y.meta = g.ko[o].meta /\ y.cond = g.ko[o].cond
  BY <1>1, KoId
<1>4. [g EXCEPT !.meta[p] = m] = Put(g, o, g.ko[o], M, g.cond)
  <2>1. [g.ko EXCEPT ![o] = g.ko[o]] = g.ko
    BY <1>1, SameObject
  <2>2. [g EXCEPT !.meta[p] = m] = [g EXCEPT !.meta = M]
    BY <1>1 DEF Heap
  <2> HIDE DEF M, p
  <2> QED BY <1>1, <2>1, <2>2 DEF Heap, Put
<1>5. [g EXCEPT !.ko[o].id = n, !.meta[p] = m] = Put(g, o, y, M, g.cond)
  <2>1. [g EXCEPT !.ko[o].id = n, !.meta[p] = m] =
            [g EXCEPT !.ko = [g.ko EXCEPT ![o] = y], !.meta = M]
    BY <1>1 DEF Heap
  <2> HIDE DEF M, p, y
  <2> QED BY <1>1, <2>1, HeapRecord DEF Put
<1> HIDE DEF M, y
<1>6. PutOK(g, o, g.ko[o], M, g.cond)
  BY <1>1, <1>2 DEF PutOK
<1>7. PutOK(g, o, y, M, g.cond)
  BY <1>1, <1>2, <1>3 DEF PutOK
<1> QED BY <1>4, <1>5, <1>6, <1>7, WritesObject

-----------------------------------------------------------------------------
(* Copies.                                                                 *)

LEMMA Orders ==
    Order("Terminal") = 1 /\ Order("Recoverable") = 2 /\ Order("ResourceSynced") = 3
BY DEF Order

LEMMA ThreeMore ==
    ASSUME NEW S, NEW s \in Seq(S), NEW a \in S, NEW b \in S, NEW c \in S
    PROVE  /\ s \o <<a, b, c>> \in Seq(S) /\ Len(s \o <<a, b, c>>) = Len(s) + 3
           /\ \A i \in 1 .. Len(s) : (s \o <<a, b, c>>)[i] = s[i]
           /\ (s \o <<a, b, c>>)[Len(s) + 1] = a /\ (s \o <<a, b, c>>)[Len(s) + 2] = b
           /\ (s \o <<a, b, c>>)[Len(s) + 3] = c
OBVIOUS

\* A decoded object is all new and has the status it was made from.
LEMMA DecodedFresh ==
    ASSUME NEW h, Sound(h), NEW s \in Status
    PROVE  LET d == Decoded(h, s)
               n == Len(h.ko) + 1
           IN  /\ Extends(h, d) /\ Fresh(h, d, n) /\ Len(d.ko) = n /\ New(d) = n
               /\ ~PointsIntoManager(d, n)
               /\ Owned(h, 0) => Owned(d, 0)
               /\ s.owner \/ s.arn = 0 => StatusOf(d, n) = s
               /\ d.ko[n].cond = NoPointers => s.conditions = NoConditions
               /\ Len(d.meta) = Len(h.meta) + 1 /\ d.meta[Len(h.meta) + 1].owner = "own"
               /\ d.ko[n].meta = IF s.owner THEN Len(h.meta) + 1 ELSE 0
<1> DEFINE d == Decoded(h, s)
           n == Len(h.ko) + 1
           m == Len(h.meta) + 1
           e == [id   |-> s.id,
                 meta |-> IF s.owner THEN m ELSE 0,
                 cond |-> [c \in Condition |-> IF s.conditions[c] = "none" THEN 0
                                               ELSE Len(h.cond) + Order(c)]]
           x == [arn |-> s.arn, owner |-> "own"]
<1>1. /\ h \in Heap /\ h.ko \in Seq(Ko)
      /\ h.meta \in Seq(Metadata) /\ h.cond \in Seq(ConditionValue)
      /\ Len(h.ko) \in Nat /\ Len(h.meta) \in Nat /\ Len(h.cond) \in Nat
  BY HeapParts DEF Sound
<1>2. /\ s.id \in Id \cup {0} /\ s.arn \in Id \cup {0}
      /\ s.conditions \in [Condition -> ConditionValue]
  BY DEF Status, ConditionValue
<1>3. \A c \in Condition : Order(c) \in 1 .. 3
  BY Orders DEF Condition
<1>4. e \in Ko /\ e.meta = (IF s.owner THEN m ELSE 0) /\ e.id = s.id
      /\ \A c \in Condition : e.cond[c] = IF s.conditions[c] = "none" THEN 0
                                          ELSE Len(h.cond) + Order(c)
  <2>1. \A c \in Condition : Len(h.cond) + Order(c) \in Nat
    BY <1>1, <1>3
  <2>2. e.cond \in [Condition -> Nat] /\ e.meta \in Nat /\ e.id \in Id \cup {0}
    BY <1>1, <1>2, <2>1
  <2>3. e = [id |-> e.id, meta |-> e.meta, cond |-> e.cond]
    OBVIOUS
  <2>4. e \in Ko
    <3> HIDE DEF e
    <3> QED BY <2>2, <2>3 DEF Ko
  <2> QED BY <2>4
<1>5. x \in Metadata /\ x.owner = "own" /\ x.arn = s.arn
  BY <1>2 DEF Metadata
<1>6. /\ d.ko = Append(h.ko, e) /\ d.meta = Append(h.meta, x)
      /\ d.cond = h.cond \o <<s.conditions["Terminal"], s.conditions["Recoverable"],
                              s.conditions["ResourceSynced"]>>
      /\ d = [ko |-> d.ko, meta |-> d.meta, cond |-> d.cond]
  BY DEF Decoded
<1> HIDE DEF d, e, x
<1>7. /\ d.ko \in Seq(Ko) /\ Len(d.ko) = n /\ d.ko[n] = e
      /\ \A i \in 1 .. Len(h.ko) : d.ko[i] = h.ko[i]
  BY <1>1, <1>4, <1>6, SeqUpdate
<1>8. /\ d.meta \in Seq(Metadata) /\ Len(d.meta) = m /\ d.meta[m] = x
      /\ \A i \in 1 .. Len(h.meta) : d.meta[i] = h.meta[i]
  BY <1>1, <1>5, <1>6, SeqUpdate
<1>9. /\ d.cond \in Seq(ConditionValue) /\ Len(d.cond) = Len(h.cond) + 3
      /\ \A i \in 1 .. Len(h.cond) : d.cond[i] = h.cond[i]
      /\ \A c \in Condition : d.cond[Len(h.cond) + Order(c)] = s.conditions[c]
  <2>1. /\ s.conditions["Terminal"] \in ConditionValue
        /\ s.conditions["Recoverable"] \in ConditionValue
        /\ s.conditions["ResourceSynced"] \in ConditionValue
    BY <1>2 DEF Condition
  <2>2. /\ d.cond \in Seq(ConditionValue) /\ Len(d.cond) = Len(h.cond) + 3
        /\ \A i \in 1 .. Len(h.cond) : d.cond[i] = h.cond[i]
        /\ d.cond[Len(h.cond) + 1] = s.conditions["Terminal"]
        /\ d.cond[Len(h.cond) + 2] = s.conditions["Recoverable"]
        /\ d.cond[Len(h.cond) + 3] = s.conditions["ResourceSynced"]
    <3>1. PICK f \in Seq(ConditionValue), a \in ConditionValue, b \in ConditionValue,
               c \in ConditionValue :
              /\ f = h.cond /\ a = s.conditions["Terminal"]
              /\ b = s.conditions["Recoverable"] /\ c = s.conditions["ResourceSynced"]
      BY <1>1, <2>1
    <3>2. d.cond = f \o <<a, b, c>>
      BY <1>6, <3>1
    <3>3. /\ f \o <<a, b, c>> \in Seq(ConditionValue) /\ Len(f \o <<a, b, c>>) = Len(f) + 3
          /\ \A i \in 1 .. Len(f) : (f \o <<a, b, c>>)[i] = f[i]
          /\ (f \o <<a, b, c>>)[Len(f) + 1] = a /\ (f \o <<a, b, c>>)[Len(f) + 2] = b
          /\ (f \o <<a, b, c>>)[Len(f) + 3] = c
      BY ThreeMore
    <3> QED BY <3>1, <3>2, <3>3
  <2> QED BY <2>2, Orders DEF Condition
<1>10. Sound(d)
  <2>1. d \in Heap
    BY <1>6, <1>7, <1>8, <1>9 DEF Heap
  <2>2. ASSUME NEW o \in 1 .. Len(d.ko)
        PROVE  /\ d.ko[o].meta \in 0 .. Len(d.meta)
               /\ \A c \in Condition : d.ko[o].cond[c] \in 0 .. Len(d.cond)
    <3>1. CASE o = n
      <4>1. e.meta \in 0 .. m
        BY <1>1, <1>4
      <4>2. ASSUME NEW c \in Condition PROVE e.cond[c] \in 0 .. Len(h.cond) + 3
        <5>1. PICK i \in 1 .. 3 : i = Order(c)
          BY <1>3
        <5>2. e.cond[c] = 0 \/ e.cond[c] = Len(h.cond) + i
          BY <1>4, <5>1
        <5>3. 0 \in 0 .. Len(h.cond) + 3 /\ Len(h.cond) + i \in 0 .. Len(h.cond) + 3
          BY <1>1
        <5> QED BY <5>2, <5>3
      <4> QED BY <1>7, <1>8, <1>9, <3>1, <4>1, <4>2
    <3>2. CASE o # n
      <4>1. o \in 1 .. Len(h.ko) /\ d.ko[o] = h.ko[o]
        BY <1>1, <1>7, <3>2
      <4>2. h.ko[o].meta \in 0 .. m
        BY <1>1, <4>1 DEF Sound
      <4>3. ASSUME NEW c \in Condition PROVE h.ko[o].cond[c] \in 0 .. Len(h.cond) + 3
        <5>1. h.ko[o].cond[c] \in 0 .. Len(h.cond)
          BY <4>1 DEF Sound
        <5> QED BY <1>1, <5>1
      <4> QED BY <1>8, <1>9, <4>1, <4>2, <4>3
    <3> QED BY <3>1, <3>2
  <2> QED BY <2>1, <2>2 DEF Sound
<1>11. Extends(h, d)
  <2>1. Len(h.ko) <= Len(d.ko) /\ Len(h.meta) <= Len(d.meta) /\ Len(h.cond) <= Len(d.cond)
    <3>1. \A j \in Nat : j <= j + 1 /\ j <= j + 3
      OBVIOUS
    <3> QED BY <1>1, <1>7, <1>8, <1>9, <3>1
  <2> QED BY <1>7, <1>8, <1>9, <1>10, <2>1 DEF Extends
<1>12. Fresh(h, d, n)
  <2>1. d.ko[n].meta = 0 \/ d.ko[n].meta > Len(h.meta)
    BY <1>1, <1>4, <1>7
  <2>2. ASSUME NEW c \in Condition PROVE d.ko[n].cond[c] = 0 \/ d.ko[n].cond[c] > Len(h.cond)
    BY <1>1, <1>3, <1>4, <1>7
  <2> QED BY <1>1, <1>7, <2>1, <2>2 DEF Fresh
<1>13. New(d) = n /\ ~PointsIntoManager(d, n)
  BY <1>1, <1>4, <1>5, <1>7, <1>8 DEF New, PointsIntoManager
<1>14. Owned(h, 0) => Owned(d, 0)
  <2> SUFFICES ASSUME Owned(h, 0), NEW i \in 1 .. Len(d.meta) PROVE d.meta[i].owner # "nil"
    BY DEF Owned
  <2>1. i = m \/ i \in 1 .. Len(h.meta)
    BY <1>1, <1>8
  <2>2. CASE i = m
    BY <1>5, <1>8, <2>2
  <2>3. CASE i \in 1 .. Len(h.meta)
    BY <1>8, <2>3 DEF Owned
  <2> QED BY <2>1, <2>2, <2>3
<1>15. s.owner \/ s.arn = 0 => StatusOf(d, n) = s
  <2> SUFFICES ASSUME s.owner \/ s.arn = 0 PROVE StatusOf(d, n) = s
    OBVIOUS
  <2>1. StatusOf(d, n).id = s.id
    BY <1>4, <1>7 DEF StatusOf
  <2>2. StatusOf(d, n).arn = s.arn
    BY <1>1, <1>4, <1>5, <1>7, <1>8 DEF StatusOf
  <2>3. StatusOf(d, n).owner = s.owner
    <3>1. s.owner \in BOOLEAN
      BY DEF Status
    <3>2. CASE s.owner
      <4>1. d.ko[n].meta # 0 /\ d.meta[d.ko[n].meta].owner # "nil"
        BY <1>1, <1>4, <1>5, <1>7, <1>8, <3>2
      <4>2. StatusOf(d, n).owner = (d.ko[n].meta # 0 /\ d.meta[d.ko[n].meta].owner # "nil")
        BY DEF StatusOf
      <4> QED BY <3>1, <3>2, <4>1, <4>2
    <3>3. CASE ~s.owner
      BY <1>4, <1>7, <3>1, <3>3 DEF StatusOf
    <3> QED BY <3>2, <3>3
  <2>4. StatusOf(d, n).conditions = s.conditions
    <3>1. ASSUME NEW c \in Condition PROVE StatusOf(d, n).conditions[c] = s.conditions[c]
      <4>1. StatusOf(d, n).conditions[c] = IF d.ko[n].cond[c] = 0 THEN "none"
                                           ELSE d.cond[d.ko[n].cond[c]]
        BY DEF StatusOf
      <4>2. CASE s.conditions[c] = "none"
        <5>1. d.ko[n].cond[c] = 0
          BY <1>4, <1>7, <4>2
        <5> QED BY <4>1, <4>2, <5>1
      <4>3. CASE s.conditions[c] # "none"
        <5>1. d.ko[n].cond[c] = Len(h.cond) + Order(c)
          BY <1>4, <1>7, <4>3
        <5>2. Len(h.cond) + Order(c) # 0
          BY <1>1, <1>3
        <5> QED BY <1>9, <4>1, <5>1, <5>2
      <4> QED BY <4>2, <4>3
    <3>2. StatusOf(d, n).conditions = [c \in Condition |-> StatusOf(d, n).conditions[c]]
      BY DEF StatusOf
    <3> QED BY <1>2, <3>1, <3>2
  <2>5. /\ s = [id |-> s.id, arn |-> s.arn, owner |-> s.owner, conditions |-> s.conditions]
        /\ StatusOf(d, n) = [id |-> StatusOf(d, n).id, arn |-> StatusOf(d, n).arn,
                             owner |-> StatusOf(d, n).owner,
                             conditions |-> StatusOf(d, n).conditions]
    BY DEF Status, StatusOf
  <2> QED BY <2>1, <2>2, <2>3, <2>4, <2>5
<1>16. d.ko[n].cond = NoPointers => s.conditions = NoConditions
  <2> SUFFICES ASSUME d.ko[n].cond = NoPointers PROVE s.conditions = NoConditions
    OBVIOUS
  <2>1. ASSUME NEW c \in Condition PROVE s.conditions[c] = "none"
    BY <1>1, <1>3, <1>4, <1>7 DEF NoPointers
  <2> QED BY <1>2, <2>1 DEF NoConditions
<1>17. /\ Len(d.meta) = Len(h.meta) + 1 /\ d.meta[Len(h.meta) + 1].owner = "own"
       /\ d.ko[n].meta = IF s.owner THEN Len(h.meta) + 1 ELSE 0
  BY <1>4, <1>5, <1>7, <1>8
<1> QED BY <1>7, <1>11, <1>12, <1>13, <1>14, <1>15, <1>16, <1>17 DEF d

\* Where all metadata has an owner, DeepCopyInto makes what a decoder would.
LEMMA DeepCopyIsDecoded ==
    ASSUME NEW h, Sound(h), Owned(h, 0), NEW o \in 1 .. Len(h.ko)
    PROVE  DeepCopy(h, o) = Decoded(h, StatusOf(h, o))
<1> DEFINE d == Decoded(h, StatusOf(h, o))
           n == Len(h.ko) + 1
           m == Len(h.meta) + 1
<1>1. CASE h.ko[o].meta = 0
  BY <1>1 DEF DeepCopy, StatusDeepCopyInto
<1>2. CASE h.ko[o].meta # 0
  <2>1. h.ko[o].meta \in 1 .. Len(h.meta) /\ h.meta[h.ko[o].meta].owner # "nil"
    BY <1>2, PointerTypes DEF Owned
  <2>2. StatusOf(h, o) \in Status /\ StatusOf(h, o).owner = TRUE
    <3>1. StatusOf(h, o).owner = (h.ko[o].meta # 0 /\ h.meta[h.ko[o].meta].owner # "nil")
      BY DEF StatusOf
    <3> QED BY <1>2, <2>1, <3>1, StatusType
  <2>3. /\ Sound(d) /\ Len(d.ko) = n /\ New(d) = n /\ Len(d.meta) = m
        /\ d.meta[m].owner = "own" /\ d.ko[n].meta = m
    BY <2>2, DecodedFresh DEF Extends
  <2>4. DeepCopy(h, o) = [d EXCEPT !.ko[n].meta = m, !.meta[m].owner = "own"]
    BY <1>2, <2>1, <2>3 DEF DeepCopy, StatusDeepCopyInto
  <2> HIDE DEF d
  <2>5. /\ d \in Heap /\ d.ko \in Seq(Ko) /\ d.meta \in Seq(Metadata)
        /\ n \in 1 .. Len(d.ko) /\ m \in 1 .. Len(d.meta)
    BY <2>3, HeapParts DEF Sound
  <2>6. [d.ko[n] EXCEPT !.meta = m] = d.ko[n]
    <3>1. PICK x \in Ko : x = d.ko[n]
      BY <2>5
    <3>2. [x EXCEPT !.meta = x.meta] = x
      BY DEF Ko
    <3> QED BY <2>3, <3>1, <3>2
  <2>7. [d.meta[m] EXCEPT !.owner = "own"] = d.meta[m]
    <3>1. PICK x \in Metadata : x = d.meta[m]
      BY <2>5
    <3>2. [x EXCEPT !.owner = x.owner] = x
      BY DEF Metadata
    <3> QED BY <2>3, <3>1, <3>2
  <2>8. [d EXCEPT !.ko[n].meta = m, !.meta[m].owner = "own"] =
            [d EXCEPT !.ko = [d.ko EXCEPT ![n] = [d.ko[n] EXCEPT !.meta = m]],
                      !.meta = [d.meta EXCEPT ![m] = [d.meta[m] EXCEPT !.owner = "own"]]]
    BY <2>5 DEF Heap
  <2>9. [d.ko EXCEPT ![n] = d.ko[n]] = d.ko /\ [d.meta EXCEPT ![m] = d.meta[m]] = d.meta
    <3> HIDE DEF n, m
    <3> QED BY <2>5, SeqElement
  <2>10. [d EXCEPT !.ko = d.ko, !.meta = d.meta] = d
    <3>1. [ko |-> d.ko, meta |-> d.meta, cond |-> d.cond] = d
      BY <2>5 DEF Heap
    <3> QED BY <2>5, <3>1, HeapRecord
  <2> QED BY <2>4, <2>6, <2>7, <2>8, <2>9, <2>10 DEF d
<1> QED BY <1>1, <1>2

LEMMA DeepCopyFresh ==
    ASSUME NEW h, Sound(h), Owned(h, 0), NEW o \in 1 .. Len(h.ko)
    PROVE  LET d == DeepCopy(h, o)
               n == Len(h.ko) + 1
           IN  /\ Extends(h, d) /\ Fresh(h, d, n) /\ Len(d.ko) = n /\ New(d) = n
               /\ ~PointsIntoManager(d, n) /\ Owned(d, 0)
               /\ d.ko[n].cond = NoPointers => StatusOf(h, o).conditions = NoConditions
BY DeepCopyIsDecoded, DecodedFresh, StatusType

-----------------------------------------------------------------------------
(* The operations of the resource manager write to copies.                 *)

\* setStatusDefaults gives the metadata its owner.
LEMMA SetStatusDefaultsWrites ==
    ASSUME NEW g, Sound(g), NEW o \in 1 .. Len(g.ko), Owned(g, g.ko[o].meta)
    PROVE  LET k == SetStatusDefaults(g, o) IN Writes(g, k, o) /\ Owned(k, 0)
<1> DEFINE g1 == WithMetadata(g, o)
           p  == g1.ko[o].meta
           m  == [g1.meta[p] EXCEPT !.owner = IF @ = "nil" THEN "rm" ELSE @]
           k  == SetStatusDefaults(g, o)
<1>1. Writes(g, g1, o) /\ p \in 1 .. Len(g1.meta)
  BY WithMetadataWrites
<1>2. Sound(g1) /\ o \in 1 .. Len(g1.ko) /\ g1.meta \in Seq(Metadata) /\ g1 \in Heap
  BY <1>1, HeapParts DEF Writes, Sound
<1>3. m \in Metadata /\ m.owner # "nil"
  <2>1. PICK x \in Metadata : x = g1.meta[p]
    BY <1>1, <1>2
  <2>2. PICK w \in {"own", "rm"} : w = IF x.owner = "nil" THEN "rm" ELSE x.owner
    BY DEF Metadata
  <2>3. m = [x EXCEPT !.owner = w]
    BY <2>1, <2>2
  <2> HIDE DEF m
  <2> QED BY <2>3 DEF Metadata
<1>4. k = [g1 EXCEPT !.meta[p] = m]
  BY <1>2 DEF SetStatusDefaults, Heap
<1> HIDE DEF m
<1>5. Writes(g1, k, o)
  <2>1. p # 0 /\ 0 \in Id \cup {0}
    BY <1>1
  <2> HIDE DEF g1, k
  <2> QED BY <1>2, <1>3, <1>4, <2>1, MetadataWrites
<1>6. Owned(g1, p)
  <2>1. CASE g.ko[o].meta # 0
    BY <2>1 DEF WithMetadata
  <2>2. CASE g.ko[o].meta = 0
    <3>1. /\ g1.meta = Append(g.meta, [arn |-> 0, owner |-> "nil"])
          /\ g1.ko[o].meta = Len(g.meta) + 1
      BY <2>2, PointerTypes DEF WithMetadata, Heap, Ko
    <3>2. g.meta \in Seq(Metadata) /\ Len(g.meta) \in Nat
      BY PointerTypes
    <3>3. /\ Len(g1.meta) = Len(g.meta) + 1
          /\ \A i \in 1 .. Len(g.meta) : g1.meta[i] = g.meta[i]
      BY <3>1, <3>2
    <3> QED BY <2>2, <3>1, <3>2, <3>3 DEF Owned
  <2> QED BY <2>1, <2>2
<1>7. Owned(k, 0)
  <2>1. k.meta = [g1.meta EXCEPT ![p] = m]
    BY <1>2, <1>4 DEF Heap
  <2> QED BY <1>1, <1>2, <1>3, <1>6, <2>1 DEF Owned
<1>8. Writes(g, k, o)
  BY <1>1, <1>5, WritesTwice
<1> QED BY <1>7, <1>8

\* Writing to a copy, so that what there was is as it was.
OnCopy(h, k, n) ==
    Extends(h, k) /\ Fresh(h, k, n) /\ Len(k.ko) = n /\ n = Len(h.ko) + 1 /\ Owned(k, 0)

\* The end of sdkFind, sdkCreate and sdkUpdate.
LEMMA MergeOnCopy ==
    ASSUME NEW h, Sound(h), Owned(h, 0), NEW o \in 1 .. Len(h.ko), NEW i \in Id \cup {0}
    PROVE  OnCopy(h, Merge(h, o, i), Len(h.ko) + 1)
<1> DEFINE n  == Len(h.ko) + 1
           h1 == DeepCopy(h, o)
           h2 == WithMetadata(h1, n)
           p  == h2.ko[n].meta
           m  == [h2.meta[p] EXCEPT !.arn = i]
           h3 == [h2 EXCEPT !.ko[n].id = i, !.meta[p].arn = i]
<1>1. /\ Extends(h, h1) /\ Fresh(h, h1, n) /\ Len(h1.ko) = n /\ New(h1) = n /\ Owned(h1, 0)
  BY DeepCopyFresh
<1>2. Sound(h1) /\ n \in 1 .. Len(h1.ko)
  BY <1>1 DEF Extends, Fresh
<1>3. Writes(h1, h2, n) /\ p \in 1 .. Len(h2.meta)
  BY <1>2, WithMetadataWrites
<1>4. /\ Sound(h2) /\ n \in 1 .. Len(h2.ko) /\ Len(h2.ko) = n
      /\ h2.meta \in Seq(Metadata) /\ h2 \in Heap
  BY <1>1, <1>2, <1>3, HeapParts DEF Writes, Sound
<1>5. New(h2) = n /\ Merge(h, o, i) = SetStatusDefaults(h3, n)
  BY <1>1, <1>3, <1>4 DEF Merge, New
<1>6. m \in Metadata
  <2>1. PICK x \in Metadata : x = h2.meta[p]
    <3> HIDE DEF p, h2
    <3> QED BY <1>3, <1>4, SeqElement
  <2>2. [x EXCEPT !.arn = i] \in Metadata
    BY DEF Metadata
  <2> QED BY <2>1, <2>2
<1>7. h3 = [h2 EXCEPT !.ko[n].id = i, !.meta[p] = m]
  BY <1>4 DEF Heap
<1>8. Owned(h2, p)
  <2>1. CASE h1.ko[n].meta # 0
    BY <1>1, <2>1 DEF WithMetadata, Owned
  <2>2. CASE h1.ko[n].meta = 0
    <3> HIDE DEF h1, n
    <3>1. h1 \in Heap /\ h1.ko \in Seq(Ko) /\ h1.meta \in Seq(Metadata) /\ Len(h1.meta) \in Nat
          /\ h1.ko[n] \in Ko
      BY <1>2, PointerTypes
    <3>2. /\ h2.meta = Append(h1.meta, [arn |-> 0, owner |-> "nil"])
          /\ h2.ko[n].meta = Len(h1.meta) + 1
      BY <1>2, <2>2, <3>1 DEF WithMetadata, Heap, Ko
    <3>3. /\ Len(h2.meta) = Len(h1.meta) + 1
          /\ \A j \in 1 .. Len(h1.meta) : h2.meta[j] = h1.meta[j]
      BY <3>1, <3>2
    <3> HIDE DEF h2
    <3> QED BY <1>1, <3>1, <3>2, <3>3 DEF Owned
  <2> QED BY <2>1, <2>2
<1> HIDE DEF h1, h2, m
<1>9. Writes(h2, h3, n)
  <2>1. p # 0
    BY <1>3
  <2> HIDE DEF h3
  <2> QED BY <1>4, <1>6, <1>7, <2>1, MetadataWrites
<1>10. Owned(h3, h3.ko[n].meta)
  <2>1. h3.meta = [h2.meta EXCEPT ![p] = m] /\ h3.ko[n].meta = p
    <3>1. h3.meta = [h2.meta EXCEPT ![p] = m]
      BY <1>4, <1>7 DEF Heap
    <3>2. PICK y \in Ko : y = h2.ko[n]
      BY <1>4, PointerTypes
    <3>3. h3.ko[n] = [y EXCEPT !.id = i]
      BY <1>4, <3>2, HeapParts DEF Heap
    <3> HIDE DEF h3
    <3> QED BY <3>1, <3>2, <3>3, KoId
  <2> HIDE DEF h3, p
  <2> QED BY <1>4, <1>8, <2>1 DEF Owned
<1> HIDE DEF h3
<1>11. Sound(h3) /\ n \in 1 .. Len(h3.ko)
  BY <1>4, <1>9 DEF Writes
<1>12. Writes(h3, Merge(h, o, i), n) /\ Owned(Merge(h, o, i), 0)
  BY <1>5, <1>10, <1>11, SetStatusDefaultsWrites
<1>13. Writes(h1, Merge(h, o, i), n)
  BY <1>3, <1>9, <1>12, WritesTwice
<1>14. Extends(h, Merge(h, o, i)) /\ Fresh(h, Merge(h, o, i), n)
  BY <1>1, <1>13, WritesFresh
<1> QED BY <1>1, <1>12, <1>13, <1>14 DEF OnCopy, Writes

\* updateConditions sets conditions, and after an error there is one.
LEMMA ConditionsWrites ==
    ASSUME NEW g, Sound(g), NEW o \in 1 .. Len(g.ko), NEW err \in Error \cup {"none"}
    PROVE  LET k == ConditionsOf(g, o, err) IN
           /\ Writes(g, k, o) /\ k.meta = g.meta
           /\ err # "none" => k.ko[o].cond # NoPointers
<1> DEFINE IfPresent(f, c) == IF f.ko[o].cond[c] = 0 THEN f ELSE SetCondition(f, o, c, "False")
           k == ConditionsOf(g, o, err)
<1>1. "True" \in Value /\ "False" \in Value
      /\ "Terminal" \in Condition /\ "Recoverable" \in Condition
  BY DEF Value, Condition
<1>2. ASSUME NEW f, Sound(f), o \in 1 .. Len(f.ko), NEW c \in Condition, NEW v \in Value
      PROVE  /\ Writes(f, SetCondition(f, o, c, v), o)
             /\ SetCondition(f, o, c, v).meta = f.meta
             /\ SetCondition(f, o, c, v).ko[o].cond # NoPointers
  <2>1. /\ Writes(f, SetCondition(f, o, c, v), o)
        /\ SetCondition(f, o, c, v).ko[o].cond[c] # 0
    BY <1>2, SetConditionWrites
  <2>2. SetCondition(f, o, c, v).meta = f.meta
    BY <1>2 DEF SetCondition, Sound, Heap
  <2> QED BY <2>1, <2>2 DEF NoPointers
<1>3. ASSUME NEW f, Sound(f), o \in 1 .. Len(f.ko), NEW c \in Condition
      PROVE  /\ Writes(f, IfPresent(f, c), o) /\ IfPresent(f, c).meta = f.meta
             /\ Sound(IfPresent(f, c)) /\ o \in 1 .. Len(IfPresent(f, c).ko)
  <2>1. Writes(f, f, o)
    BY <1>3, WritesNothing
  <2>2. /\ Writes(f, SetCondition(f, o, c, "False"), o)
        /\ SetCondition(f, o, c, "False").meta = f.meta
    BY <1>1, <1>2, <1>3
  <2>3. Writes(f, IfPresent(f, c), o) /\ IfPresent(f, c).meta = f.meta
    BY <2>1, <2>2
  <2> HIDE DEF IfPresent
  <2> QED BY <2>3 DEF Writes
<1>4. CASE err = "Terminal"
  <2>1. k = SetCondition(g, o, "Terminal", "True")
    BY <1>4 DEF ConditionsOf
  <2> QED BY <1>1, <1>2, <2>1
<1>5. CASE err = "Other"
  <2>1. k = SetCondition(IfPresent(g, "Terminal"), o, "Recoverable", "True")
    BY <1>5 DEF ConditionsOf
  <2> HIDE DEF IfPresent, k
  <2>2. /\ Writes(g, IfPresent(g, "Terminal"), o) /\ IfPresent(g, "Terminal").meta = g.meta
        /\ Sound(IfPresent(g, "Terminal")) /\ o \in 1 .. Len(IfPresent(g, "Terminal").ko)
    BY <1>1, <1>3
  <2>3. /\ Writes(IfPresent(g, "Terminal"), k, o) /\ k.meta = IfPresent(g, "Terminal").meta
        /\ k.ko[o].cond # NoPointers
    BY <1>1, <1>2, <2>1, <2>2
  <2>4. Writes(g, k, o)
    BY <2>2, <2>3, WritesTwice
  <2> QED BY <2>2, <2>3, <2>4 DEF k
<1>6. CASE err = "none"
  <2>1. k = IfPresent(IfPresent(g, "Terminal"), "Recoverable")
    BY <1>6 DEF ConditionsOf
  <2> HIDE DEF IfPresent, k
  <2>2. /\ Writes(g, IfPresent(g, "Terminal"), o) /\ IfPresent(g, "Terminal").meta = g.meta
        /\ Sound(IfPresent(g, "Terminal")) /\ o \in 1 .. Len(IfPresent(g, "Terminal").ko)
    BY <1>1, <1>3
  <2>3. Writes(IfPresent(g, "Terminal"), k, o) /\ k.meta = IfPresent(g, "Terminal").meta
    BY <1>1, <1>3, <2>1, <2>2
  <2>4. Writes(g, k, o)
    BY <2>2, <2>3, WritesTwice
  <2> QED BY <1>6, <2>2, <2>3, <2>4 DEF k
<1> QED BY <1>4, <1>5, <1>6 DEF Error

\* onSuccess and onError return a copy, or their argument as it is when there is
\* no error and the argument has no condition.
LEMMA FinishFrame ==
    ASSUME NEW h, Sound(h), Owned(h, 0), NEW o \in 1 .. Len(h.ko), NEW err \in Error \cup {"none"}
    PROVE  LET x == Finish(h, o, err) IN
           \/ OnCopy(h, x.heap, Len(h.ko) + 1) /\ x.res = Len(h.ko) + 1
           \/ /\ x.heap = h /\ x.res = o /\ err = "none"
              /\ StatusOf(h, o).conditions = NoConditions
<1> DEFINE n  == Len(h.ko) + 1
           h1 == DeepCopy(h, o)
           h2 == SetStatusDefaults(h1, n)
           h3 == ConditionsOf(h2, n, err)
           x  == UpdateConditions(h, o, err)
<1>1. /\ Extends(h, h1) /\ Fresh(h, h1, n) /\ Len(h1.ko) = n /\ New(h1) = n /\ Owned(h1, 0)
      /\ h1.ko[n].cond = NoPointers => StatusOf(h, o).conditions = NoConditions
  BY DeepCopyFresh
<1>2. x.heap = h3 /\ x.res = n
  BY <1>1 DEF UpdateConditions
<1>3. Sound(h1) /\ n \in 1 .. Len(h1.ko) /\ Owned(h1, h1.ko[n].meta)
  BY <1>1 DEF Extends, Fresh, Owned
<1> HIDE DEF h1
<1>4. Writes(h1, h2, n) /\ Owned(h2, 0)
  BY <1>3, SetStatusDefaultsWrites
<1>5. Sound(h2) /\ n \in 1 .. Len(h2.ko)
  BY <1>3, <1>4 DEF Writes
<1> HIDE DEF h2
<1>6. Writes(h2, h3, n) /\ h3.meta = h2.meta /\ (err # "none" => h3.ko[n].cond # NoPointers)
  BY <1>5, ConditionsWrites
<1> HIDE DEF h3
<1>7. Writes(h1, h3, n)
  BY <1>4, <1>6, WritesTwice
<1>8. OnCopy(h, h3, n)
  <2>1. Extends(h, h3) /\ Fresh(h, h3, n)
    BY <1>1, <1>7, WritesFresh
  <2>2. Len(h3.ko) = n /\ Owned(h3, 0)
    BY <1>1, <1>4, <1>6, <1>7 DEF Writes, Owned
  <2> QED BY <2>1, <2>2 DEF OnCopy
<1>9. CASE h3.ko[n].cond # NoPointers
  <2>1. Finish(h, o, err) = x
    BY <1>2, <1>9 DEF Finish
  <2> QED BY <1>2, <1>8, <2>1
<1>10. CASE h3.ko[n].cond = NoPointers
  <2>1. Finish(h, o, err) = [heap |-> h, res |-> o] /\ err = "none"
    BY <1>2, <1>6, <1>10 DEF Finish
  <2>2. h1.ko[n].cond = NoPointers
    <3>1. h1.ko[n] \in Ko /\ Len(h1.cond) \in Nat
      BY <1>3, PointerTypes
    <3>2. ASSUME NEW c \in Condition PROVE h1.ko[n].cond[c] = 0
      <4>1. h3.ko[n].cond[c] = 0
        BY <1>10 DEF NoPointers
      <4>2. h3.ko[n].cond[c] = h1.ko[n].cond[c] \/ h3.ko[n].cond[c] > Len(h1.cond)
        BY <1>7 DEF Writes
      <4> QED BY <3>1, <4>1, <4>2
    <3> QED BY <3>1, <3>2 DEF NoPointers, Ko
  <2> QED BY <1>1, <2>1, <2>2
<1> QED BY <1>9, <1>10

-----------------------------------------------------------------------------
(* The steps of a reconcile.                                               *)

\* The resource r that an operation returns is new in its heap k.
Returned(h, k, r) == Extends(h, k) /\ Fresh(h, k, r) /\ Owned(k, 0)

LEMMA ErrorReturned ==
    ASSUME NEW h, Sound(h), Owned(h, 0), NEW o \in 1 .. Len(h.ko), NEW err \in Error
    PROVE  Returned(h, Finish(h, o, err).heap, Finish(h, o, err).res)
<1>1. err # "none" /\ err \in Error \cup {"none"}
  BY DEF Error
<1> QED BY <1>1, FinishFrame DEF OnCopy, Returned

LEMMA MergeReturned ==
    ASSUME NEW h, Sound(h), Owned(h, 0), NEW o \in 1 .. Len(h.ko), NEW i \in Id \cup {0}
    PROVE  LET x == Finish(Merge(h, o, i), New(h) + 1, "none")
           IN  Returned(h, x.heap, x.res)
<1> DEFINE g == Merge(h, o, i)
           n == Len(h.ko) + 1
           x == Finish(g, n, "none")
<1>1. Extends(h, g) /\ Fresh(h, g, n) /\ Len(g.ko) = n /\ Owned(g, 0) /\ New(h) + 1 = n
  BY MergeOnCopy DEF OnCopy, New
<1>2. Sound(g) /\ n \in 1 .. Len(g.ko)
  BY <1>1 DEF Extends, Fresh
<1> HIDE DEF g
<1>3. \/ OnCopy(g, x.heap, n + 1) /\ x.res = n + 1
      \/ x.heap = g /\ x.res = n
  <2> HIDE DEF n
  <2>1. "none" \in Error \cup {"none"} /\ Len(g.ko) + 1 = n + 1
    BY <1>1
  <2> QED BY <1>1, <1>2, <2>1, FinishFrame
<1>4. CASE OnCopy(g, x.heap, n + 1) /\ x.res = n + 1
  <2> HIDE DEF x
  <2>1. Extends(h, x.heap) /\ Owned(x.heap, 0) /\ Fresh(g, x.heap, n + 1)
    BY <1>1, <1>4, ExtendsTwice DEF OnCopy
  <2>2. /\ Len(h.ko) \in Nat /\ Len(h.meta) \in Nat /\ Len(h.cond) \in Nat
        /\ Len(g.meta) \in Nat /\ Len(g.cond) \in Nat
        /\ Len(h.meta) <= Len(g.meta) /\ Len(h.cond) <= Len(g.cond)
    BY <1>1, HeapParts DEF Extends, Sound
  <2>3. Sound(x.heap) /\ n + 1 \in 1 .. Len(x.heap.ko)
    BY <2>1 DEF Extends, Fresh
  <2>4. Fresh(h, x.heap, n + 1)
    <3>1. /\ x.heap.ko[n + 1].meta \in Nat
          /\ \A c \in Condition : x.heap.ko[n + 1].cond[c] \in 0 .. Len(x.heap.cond)
          /\ Len(x.heap.cond) \in Nat
      BY <2>3, PointerTypes
    <3>2. x.heap.ko[n + 1].meta = 0 \/ x.heap.ko[n + 1].meta > Len(h.meta)
      <4>1. PICK j \in Nat : j = x.heap.ko[n + 1].meta
        BY <3>1
      <4>2. j = 0 \/ j > Len(g.meta)
        BY <2>1, <4>1 DEF Fresh
      <4>3. j > Len(g.meta) => j > Len(h.meta)
        BY <2>2, NatBeyond
      <4> QED BY <4>1, <4>2, <4>3
    <3>3. ASSUME NEW c \in Condition
          PROVE  x.heap.ko[n + 1].cond[c] = 0 \/ x.heap.ko[n + 1].cond[c] > Len(h.cond)
      <4>1. PICK j \in Nat : j = x.heap.ko[n + 1].cond[c]
        BY <3>1
      <4>2. j = 0 \/ j > Len(g.cond)
        BY <2>1, <4>1 DEF Fresh
      <4>3. j > Len(g.cond) => j > Len(h.cond)
        BY <2>2, NatBeyond
      <4> QED BY <4>1, <4>2, <4>3
    <3>4. n + 1 > Len(h.ko)
      BY <2>2
    <3> QED BY <2>3, <3>2, <3>3, <3>4 DEF Fresh
  <2> QED BY <1>1, <1>4, <2>1, <2>4 DEF Returned, x, g
<1>5. CASE x.heap = g /\ x.res = n
  BY <1>1, <1>5 DEF Returned, g
<1> QED BY <1>3, <1>4, <1>5

\* What every step does: keep the invariant, leave the arguments of an operation
\* alone, and write the status of the resource it returned.
Good ==
    /\ IInv'
    /\ pc \notin {"idle", "synced", "status"} =>
          \A o \in {desired, observed} \ {0} : StatusOf(heap', o) = StatusOf(heap, o)
    /\ pc = "status" /\ cr' # StatusOf(heap, latest) =>
          cr.id # 0 /\ cr.conditions = NoConditions

LEMMA HeapTypes ==
    ASSUME NEW h, Sound(h)
    PROVE  \A o \in 1 .. Len(h.ko) :
              /\ h.ko[o].meta \in 0 .. Len(h.meta)
              /\ \A c \in Condition : h.ko[o].cond[c] \in 0 .. Len(h.cond)
              /\ StatusOf(h, o) \in Status
BY StatusType, PointerTypes

\* An operation that returns ends with pointers that it had or that are new.
LEMMA FrameStep ==
    ASSUME IInv, Extends(heap, heap'), Owned(heap', 0),
           pc \notin {"idle", "synced", "status"}, UNCHANGED <<cr, desired>>, shared' = FALSE,
           pc' \in {"create", "update", "delete", "patch", "synced"},
           {observed', latest'} \subseteq 0 .. Len(heap'.ko),
           pc' \in {"update", "delete"} => observed' \in 1 .. Len(heap'.ko),
           pc' \in {"patch", "synced"} => latest' \in 1 .. Len(heap'.ko),
           pc' \in {"patch", "synced"} /\ latest' # desired => Apart(heap', latest', desired),
           pc' = "update" => cr.id # 0,
           pc' \in {"patch", "synced"} /\ latest' = desired =>
               cr.id # 0 /\ cr.conditions = NoConditions
    PROVE  Good
<1>1. /\ Sound(heap) /\ Sound(heap') /\ desired \in 1 .. Len(heap.ko)
      /\ Len(heap.ko) \in Nat /\ Len(heap'.ko) \in Nat /\ Len(heap.ko) <= Len(heap'.ko)
  BY HeapParts DEF IInv, StepInv, Extends, Sound
<1>2. TypeOK'
  <2>1. cr' \in Status /\ shared' \in BOOLEAN
    BY DEF IInv, TypeOK
  <2>2. {desired', observed', latest'} \subseteq 0 .. Len(heap'.ko)
    BY <1>1
  <2> QED BY <1>1, <2>1, <2>2, HeapTypes DEF TypeOK
<1>3. ASSUME NEW o \in 1 .. Len(heap.ko) PROVE StatusOf(heap', o) = StatusOf(heap, o)
  BY ExtendsKeepsStatus
<1>4. StepInv'
  BY <1>1 DEF StepInv
<1>5. DesiredInv'
  BY <1>1, <1>3 DEF IInv, DesiredInv
<1>6. OwnerInv' /\ ManagerNotWritten'
  BY DEF IInv, OwnerInv, ManagerNotWritten, Owned
<1>7. \A o \in {desired, observed} \ {0} : StatusOf(heap', o) = StatusOf(heap, o)
  BY <1>1, <1>3 DEF IInv, TypeOK
<1> QED BY <1>1, <1>2, <1>4, <1>5, <1>6, <1>7 DEF Good, IInv

LEMMA ReturnedStep ==
    ASSUME IInv, Returned(heap, heap', latest'),
           pc \in {"read", "create", "update", "delete"}, UNCHANGED <<cr, desired, shared>>,
           pc' \in {"update", "delete", "patch", "synced"},
           observed' \in {observed, latest'},
           pc' \in {"update", "delete"} => observed' = latest',
           pc' = "update" => cr.id # 0
    PROVE  Good
<1>1. /\ Extends(heap, heap') /\ Fresh(heap, heap', latest') /\ Owned(heap', 0)
      /\ desired \in 1 .. Len(heap.ko) /\ shared = FALSE
      /\ latest' \in 1 .. Len(heap'.ko) /\ observed \in 0 .. Len(heap.ko)
      /\ Len(heap.ko) \in Nat /\ Len(heap'.ko) \in Nat /\ Len(heap.ko) <= Len(heap'.ko)
  BY HeapParts
  DEF Returned, IInv, StepInv, TypeOK, ManagerNotWritten, Fresh, Extends, Sound
<1>2. Apart(heap', latest', desired) /\ latest' # desired
  BY <1>1, FreshIsApart DEF Apart
<1>3. {observed', latest'} \subseteq 0 .. Len(heap'.ko)
  BY <1>1
<1> QED BY <1>1, <1>2, <1>3, FrameStep

LEMMA StartStep == ASSUME IInv, Start PROVE Good
<1> DEFINE d == Decoded(NoHeap, cr)
<1>1. Sound(NoHeap) /\ Owned(NoHeap, 0) /\ Len(NoHeap.ko) = 0
  BY DEF Sound, NoHeap, Heap, Owned
<1>2. cr \in Status /\ (cr.owner \/ cr.arn = 0) /\ ~shared
  BY DEF IInv, TypeOK, OwnerInv, ManagerNotWritten
<1>3. /\ Extends(NoHeap, d) /\ Len(d.ko) = 0 + 1 /\ New(d) = 0 + 1
      /\ Owned(d, 0) /\ StatusOf(d, 0 + 1) = cr
  BY <1>1, <1>2, DecodedFresh
<1>4. /\ heap' = d /\ desired' = 1 /\ observed' = 0 /\ latest' = 0
      /\ pc = "idle" /\ pc' = "read" /\ UNCHANGED <<cr, shared>>
  BY <1>3 DEF Start, ResolveReferences
<1> HIDE DEF d
<1>5. Sound(heap') /\ Owned(heap', 0) /\ Len(heap'.ko) = 1 /\ StatusOf(heap', 1) = cr
  BY <1>3, <1>4 DEF Extends
<1>6. TypeOK'
  <2>1. {desired', observed', latest'} \subseteq 0 .. Len(heap'.ko)
    BY <1>4, <1>5
  <2>2. shared' \in BOOLEAN
    BY <1>4 DEF IInv, TypeOK
  <2> QED BY <1>2, <1>4, <1>5, <2>1, <2>2, HeapTypes DEF TypeOK
<1>7. StepInv' /\ DesiredInv'
  BY <1>4, <1>5 DEF StepInv, DesiredInv
<1>8. OwnerInv' /\ ManagerNotWritten'
  BY <1>2, <1>4, <1>5 DEF OwnerInv, ManagerNotWritten, Owned
<1> QED BY <1>4, <1>5, <1>6, <1>7, <1>8 DEF Good, IInv

LEMMA ReadStep == ASSUME IInv, ReadFound \/ ReadNotFound \/ ReadFail PROVE Good
<1>1. /\ pc = "read" /\ Sound(heap) /\ Owned(heap, 0) /\ desired \in 1 .. Len(heap.ko)
      /\ UNCHANGED <<cr, desired, shared>> /\ StatusOf(heap, desired) = cr
  BY DEF ReadFound, ReadNotFound, ReadFail, IInv, OwnerInv, StepInv, DesiredInv
<1>2. CASE ReadFound
  <2>1. heap.ko[desired].id \in Id \cup {0} /\ heap.ko[desired].id # 0
    BY <1>1, <1>2, PointerTypes DEF ReadFound, Ko
  <2>2. cr.id # 0
    <3>1. StatusOf(heap, desired).id = heap.ko[desired].id
      BY DEF StatusOf
    <3> QED BY <1>1, <2>1, <3>1
  <2>3. Returned(heap, heap', latest')
    BY <1>1, <1>2, <2>1, MergeReturned DEF ReadFound, Return
  <2>4. pc' \in {"synced", "update", "delete"} /\ observed' = latest'
    BY <1>2 DEF ReadFound, Return
  <2> QED BY <1>1, <2>2, <2>3, <2>4, ReturnedStep
<1>3. CASE ReadFail
  <2>1. Returned(heap, heap', latest')
    BY <1>1, <1>3, ErrorReturned DEF ReadFail, Return
  <2>2. pc' = "synced" /\ observed' = observed
    BY <1>3 DEF ReadFail, Return
  <2> QED BY <1>1, <2>1, <2>2, ReturnedStep
<1>4. CASE ReadNotFound
  <2>1. "Other" \in Error
    BY DEF Error
  <2>2. Extends(heap, heap') /\ Owned(heap', 0)
    BY <1>1, <1>4, <2>1, ErrorReturned DEF ReadNotFound, Returned
  <2>3. pc' = "create" /\ UNCHANGED <<observed, latest>> /\ shared = FALSE
    BY <1>4 DEF ReadNotFound, IInv, ManagerNotWritten, TypeOK
  <2>4. {observed', latest'} \subseteq 0 .. Len(heap'.ko)
    <3>1. /\ Len(heap.ko) \in Nat /\ Len(heap'.ko) \in Nat /\ Len(heap.ko) <= Len(heap'.ko)
      BY <2>2, HeapParts DEF Extends, Sound
    <3> QED BY <2>3, <3>1 DEF IInv, TypeOK
  <2> QED BY <1>1, <2>2, <2>3, <2>4, FrameStep
<1> QED BY <1>2, <1>3, <1>4

LEMMA WriteStep == ASSUME IInv, Create \/ Update \/ DeleteFail PROVE Good
<1>1. /\ Sound(heap) /\ Owned(heap, 0) /\ desired \in 1 .. Len(heap.ko)
      /\ UNCHANGED <<cr, desired, observed, shared>>
  BY DEF Create, Update, DeleteFail, IInv, OwnerInv, StepInv
<1>2. CASE Create
  <2>1. Returned(heap, heap', latest') /\ pc' \in {"patch", "synced"} /\ pc = "create"
    BY <1>1, <1>2, ErrorReturned, MergeReturned DEF Create, Return
  <2> QED BY <1>1, <2>1, ReturnedStep
<1>3. CASE DeleteFail
  <2>1. pc = "delete" /\ observed \in 1 .. Len(heap.ko)
    BY <1>3 DEF DeleteFail, IInv, StepInv
  <2>2. Returned(heap, heap', latest') /\ pc' = "synced"
    BY <1>1, <1>3, <2>1, ErrorReturned DEF DeleteFail, Return
  <2> QED BY <1>1, <2>1, <2>2, ReturnedStep
<1>4. CASE Update
  <2>1. /\ pc = "update" /\ observed \in 1 .. Len(heap.ko) /\ cr.id # 0
        /\ StatusOf(heap, desired) = cr
    BY <1>4 DEF Update, IInv, StepInv, DesiredInv
  <2>2. CASE Return(heap, desired, "none", "patch")
    <3>1. /\ heap' = Finish(heap, desired, "none").heap
          /\ latest' = Finish(heap, desired, "none").res /\ pc' = "patch"
      BY <2>2 DEF Return
    <3>2. \/ OnCopy(heap, heap', Len(heap.ko) + 1) /\ latest' = Len(heap.ko) + 1
          \/ /\ heap' = heap /\ latest' = desired
             /\ StatusOf(heap, desired).conditions = NoConditions
      BY <1>1, <3>1, FinishFrame
    <3>3. CASE OnCopy(heap, heap', Len(heap.ko) + 1) /\ latest' = Len(heap.ko) + 1
      <4>1. Returned(heap, heap', latest')
        BY <3>3 DEF OnCopy, Returned
      <4> QED BY <1>1, <2>1, <3>1, <4>1, ReturnedStep
    <3>4. CASE /\ heap' = heap /\ latest' = desired
               /\ StatusOf(heap, desired).conditions = NoConditions
      <4>1. Extends(heap, heap') /\ Owned(heap', 0)
        BY <1>1, <3>4, HeapParts DEF Extends, Sound
      <4>2. cr.id # 0 /\ cr.conditions = NoConditions /\ shared = FALSE
        BY <2>1, <3>4 DEF IInv, ManagerNotWritten, TypeOK
      <4>3. {observed', latest'} \subseteq 0 .. Len(heap'.ko)
        BY <1>1, <3>4 DEF IInv, TypeOK
      <4> QED BY <1>1, <2>1, <3>1, <3>4, <4>1, <4>2, <4>3, FrameStep
    <3> QED BY <3>2, <3>3, <3>4
  <2>3. CASE Return(Merge(heap, desired, heap.ko[desired].id), New(heap) + 1, "none", "patch")
    <3>1. heap.ko[desired].id \in Id \cup {0}
      BY <1>1, PointerTypes DEF Ko
    <3>2. Returned(heap, heap', latest') /\ pc' = "patch"
      BY <1>1, <2>3, <3>1, MergeReturned DEF Return
    <3> QED BY <1>1, <2>1, <3>2, ReturnedStep
  <2>4. CASE \E err \in Error : Return(heap, observed, err, "synced")
    <3>1. Returned(heap, heap', latest') /\ pc' = "synced"
      BY <1>1, <2>1, <2>4, ErrorReturned DEF Return
    <3> QED BY <1>1, <2>1, <3>1, ReturnedStep
  <2> QED BY <1>4, <2>2, <2>3, <2>4 DEF Update
<1> QED BY <1>2, <1>3, <1>4

LEMMA PatchSpecStep == ASSUME IInv, PatchSpec PROVE Good
<1>1. /\ pc = "patch" /\ Sound(heap) /\ Owned(heap, 0) /\ ~shared
      /\ desired \in 1 .. Len(heap.ko) /\ latest \in 1 .. Len(heap.ko)
      /\ latest # desired => Apart(heap, latest, desired)
  BY DEF PatchSpec, IInv, OwnerInv, StepInv, ManagerNotWritten
<1>2. /\ Extends(heap, DeepCopy(heap, latest)) /\ Owned(DeepCopy(heap, latest), 0)
      /\ ~PointsIntoManager(DeepCopy(heap, latest), New(DeepCopy(heap, latest)))
  BY <1>1, DeepCopyFresh
<1>3. /\ heap' = DeepCopy(heap, latest) /\ latest' = latest /\ pc' = "synced"
      /\ UNCHANGED <<cr, desired, observed>>
      /\ shared' = (shared \/ PointsIntoManager(DeepCopy(heap, latest),
                                                New(DeepCopy(heap, latest))))
  BY DEF PatchSpec, ClearResolvedReferences, LateInitialize
<1>4. shared' = FALSE
  BY <1>1, <1>2, <1>3
<1>5. Extends(heap, heap') /\ Owned(heap', 0)
  BY <1>2, <1>3
<1>6. /\ Len(heap.ko) \in Nat /\ Len(heap'.ko) \in Nat /\ Len(heap.ko) <= Len(heap'.ko)
      /\ heap'.ko[latest] = heap.ko[latest] /\ heap'.ko[desired] = heap.ko[desired]
  BY <1>1, <1>5, HeapParts DEF Extends, Sound
<1>7. latest # desired => Apart(heap', latest, desired)
  BY <1>1, <1>6 DEF Apart
<1>8. {observed', latest'} \subseteq 0 .. Len(heap'.ko) /\ latest' \in 1 .. Len(heap'.ko)
  BY <1>1, <1>3, <1>6 DEF IInv, TypeOK
<1>9. latest' = desired => cr.id # 0 /\ cr.conditions = NoConditions
  BY <1>1, <1>3 DEF IInv, DesiredInv
<1> QED BY <1>1, <1>3, <1>4, <1>5, <1>7, <1>8, <1>9, FrameStep

LEMMA SetSyncedStep == ASSUME IInv, SetSynced PROVE Good
<1>1. /\ pc = "synced" /\ pc' = "status" /\ Sound(heap) /\ Owned(heap, 0) /\ ~shared
      /\ desired \in 1 .. Len(heap.ko) /\ latest \in 1 .. Len(heap.ko)
      /\ UNCHANGED <<cr, desired, observed, latest, shared>>
  BY DEF SetSynced, IInv, OwnerInv, StepInv, ManagerNotWritten
<1>2. PICK v \in Value : heap' = SetCondition(heap, latest, "ResourceSynced", v)
  BY DEF SetSynced
<1>3. Writes(heap, heap', latest)
  BY <1>1, <1>2, SetConditionWrites DEF Condition
<1>4. Sound(heap') /\ Len(heap'.ko) = Len(heap.ko)
  BY <1>3 DEF Writes
<1>5. heap'.meta = heap.meta
  BY <1>1, <1>2 DEF SetCondition, Sound, Heap
<1>6. TypeOK'
  <2>1. {desired', observed', latest'} \subseteq 0 .. Len(heap'.ko) /\ cr' \in Status
        /\ shared' \in BOOLEAN
    BY <1>1, <1>4 DEF IInv, TypeOK
  <2> QED BY <1>1, <1>4, <2>1, HeapTypes DEF TypeOK
<1>7. StepInv'
  BY <1>1, <1>4 DEF StepInv
<1>8. DesiredInv'
  <2>1. latest # desired => StatusOf(heap', desired) = cr
    <3> SUFFICES ASSUME latest # desired PROVE StatusOf(heap', desired) = cr
      OBVIOUS
    <3>1. Apart(heap, latest, desired) /\ StatusOf(heap, desired) = cr
      BY <1>1 DEF IInv, StepInv, DesiredInv
    <3> QED BY <1>1, <1>3, <3>1, WritesKeepsStatus
  <2>2. latest = desired => cr.id # 0 /\ cr.conditions = NoConditions
    BY <1>1 DEF IInv, DesiredInv
  <2> QED BY <1>1, <2>1, <2>2 DEF DesiredInv
<1>9. OwnerInv' /\ ManagerNotWritten'
  BY <1>1, <1>5 DEF IInv, OwnerInv, ManagerNotWritten, Owned
<1> QED BY <1>1, <1>4, <1>6, <1>7, <1>8, <1>9 DEF Good, IInv

LEMMA PatchStatusStep == ASSUME IInv, PatchStatus PROVE Good
<1>1. /\ pc = "status" /\ Sound(heap) /\ Owned(heap, 0) /\ ~shared /\ cr \in Status
      /\ desired \in 1 .. Len(heap.ko) /\ latest \in 1 .. Len(heap.ko)
      /\ cr.owner \/ cr.arn = 0
  BY DEF PatchStatus, IInv, OwnerInv, StepInv, ManagerNotWritten, TypeOK
<1> DEFINE before == StatusOf(heap, desired)
           after  == StatusOf(heap, latest)
           h1     == DeepCopy(heap, latest)
<1>2. /\ cr' = IF before = after THEN cr ELSE after
      /\ shared' = (shared \/ PointsIntoManager(h1, New(h1)))
      /\ heap' = NoHeap /\ pc' = "idle" /\ desired' = 0 /\ observed' = 0 /\ latest' = 0
  BY DEF PatchStatus
<1>3. shared' = FALSE
  BY <1>1, <1>2, DeepCopyFresh
<1>4. after \in Status /\ (after.owner \/ after.arn = 0)
  <2>1. after \in Status
    BY <1>1, StatusType
  <2>2. CASE heap.ko[latest].meta = 0
    <3>1. after.arn = 0
      BY <2>2 DEF StatusOf
    <3> QED BY <2>1, <3>1
  <2>3. CASE heap.ko[latest].meta # 0
    <3>1. heap.meta[heap.ko[latest].meta].owner # "nil"
      BY <1>1, <2>3, PointerTypes DEF Owned
    <3>2. after.owner = (heap.ko[latest].meta # 0
                         /\ heap.meta[heap.ko[latest].meta].owner # "nil")
      BY DEF StatusOf
    <3> QED BY <2>1, <2>3, <3>1, <3>2
  <2> QED BY <2>1, <2>2, <2>3
<1>5. cr' \in Status /\ (cr'.owner \/ cr'.arn = 0)
  <2> HIDE DEF before, after
  <2> QED BY <1>1, <1>2, <1>4
<1>6. Sound(heap') /\ Owned(heap', 0) /\ Len(heap'.ko) = 0
  BY <1>2 DEF Sound, NoHeap, Heap, Owned
<1>7. TypeOK'
  BY <1>2, <1>3, <1>5, <1>6, HeapTypes DEF TypeOK
<1>8. StepInv' /\ DesiredInv' /\ OwnerInv' /\ ManagerNotWritten'
  BY <1>2, <1>3, <1>5, <1>6 DEF StepInv, DesiredInv, OwnerInv, ManagerNotWritten, Owned
<1>9. cr' # after => cr.id # 0 /\ cr.conditions = NoConditions
  <2> SUFFICES ASSUME cr' # after PROVE cr.id # 0 /\ cr.conditions = NoConditions
    OBVIOUS
  <2>1. before = after /\ cr # before
    BY <1>2
  <2>2. latest = desired
    BY <1>1, <2>1 DEF IInv, DesiredInv
  <2> QED BY <1>1, <2>2 DEF IInv, DesiredInv
<1> QED BY <1>1, <1>6, <1>7, <1>8, <1>9 DEF Good, IInv

-----------------------------------------------------------------------------
LEMMA InitIInv == Init => IInv
<1> SUFFICES ASSUME Init PROVE IInv
  OBVIOUS
<1>1. cr \in Status /\ (cr.owner \/ cr.arn = 0)
  <2>1. NoConditions \in [Condition -> Value \cup {"none"}]
    BY DEF NoConditions
  <2>2. CASE cr = NoStatus
    BY <2>1, <2>2 DEF NoStatus, Status
  <2>3. ASSUME NEW n \in Id,
               cr = [id |-> n, arn |-> n, owner |-> TRUE, conditions |-> NoConditions]
        PROVE  cr \in Status /\ (cr.owner \/ cr.arn = 0)
    BY <2>1, <2>3 DEF Status
  <2> QED BY <2>2, <2>3 DEF Init
<1>2. Sound(heap) /\ Owned(heap, 0) /\ Len(heap.ko) = 0
  BY DEF Init, Sound, NoHeap, Heap, Owned
<1>3. TypeOK
  <2>1. desired = 0 /\ observed = 0 /\ latest = 0 /\ shared = FALSE /\ pc = "idle"
    BY DEF Init
  <2>2. {desired, observed, latest} \subseteq 0 .. Len(heap.ko)
    BY <1>2, <2>1
  <2>3. \A o \in 1 .. Len(heap.ko) :
           /\ heap.ko[o].meta \in 0 .. Len(heap.meta)
           /\ \A c \in Condition : heap.ko[o].cond[c] \in 0 .. Len(heap.cond)
           /\ StatusOf(heap, o) \in Status
    BY <1>2, HeapTypes
  <2>4. /\ pc \in {"idle", "read", "create", "update", "delete", "patch", "synced", "status"}
        /\ shared \in BOOLEAN
    BY <2>1
  <2> QED BY <1>1, <2>2, <2>3, <2>4 DEF TypeOK
<1>4. StepInv /\ DesiredInv /\ OwnerInv /\ ManagerNotWritten
  BY <1>1, <1>2 DEF Init, StepInv, DesiredInv, OwnerInv, ManagerNotWritten
<1> QED BY <1>2, <1>3, <1>4 DEF IInv

LEMMA StepGood == IInv /\ [Next]_vars => [Good]_vars /\ IInv'
<1>1. ASSUME IInv, Next PROVE Good
  BY <1>1, StartStep, ReadStep, WriteStep, PatchSpecStep, SetSyncedStep, PatchStatusStep
  DEF Next
<1>2. ASSUME IInv, UNCHANGED vars PROVE IInv'
  <2>1. UNCHANGED <<cr, heap, pc, desired, observed, latest, shared>>
    BY <1>2 DEF vars
  <2>2. TypeOK'
    BY <1>2, <2>1 DEF IInv, TypeOK
  <2>3. StepInv' /\ DesiredInv'
    BY <1>2, <2>1 DEF IInv, StepInv, DesiredInv
  <2>4. OwnerInv' /\ ManagerNotWritten' /\ Sound(heap)'
    BY <1>2, <2>1 DEF IInv, OwnerInv, ManagerNotWritten
  <2> QED BY <2>2, <2>3, <2>4 DEF IInv
<1> QED BY <1>1, <1>2 DEF Good

LEMMA IInvHolds == Spec => []IInv
BY InitIInv, StepGood, PTL DEF Spec

\* Whatever the ids: statuses, pointers and locals keep their types, and no
\* pointer ever points outside the heap.
THEOREM TypeCorrect == Spec => []TypeOK
<1>1. IInv => TypeOK
  BY DEF IInv
<1> QED BY IInvHolds, <1>1, PTL

\* The deep copies of zz_generated.deepcopy.go: no answer of the API server is
\* ever decoded into an object that still points to the account of the resource
\* manager that all workers share.
THEOREM ManagerIsNotWritten == Spec => []ManagerNotWritten
<1>1. IInv => ManagerNotWritten
  BY DEF IInv
<1> QED BY IInvHolds, <1>1, PTL

\* Read, create, update and delete leave the status of the resources they are
\* given as it is.
THEOREM ArgumentsAreKept == Spec => ArgumentsKept
<1>1. IInv /\ [Next]_vars =>
        [pc \notin {"idle", "synced", "status"} =>
            \A o \in {desired, observed} \ {0} : StatusOf(heap', o) = StatusOf(heap, o)]_vars
  BY StepGood DEF Good
<1> QED BY IInvHolds, <1>1, PTL DEF Spec, ArgumentsKept

\* What a reconcile says of its resource reaches the API server, unless sdkUpdate
\* returned the desired resource itself in the first reconcile after adoption.
THEOREM StatusIsWritten == Spec => StatusReachesServer
<1>1. IInv /\ [Next]_vars =>
        [pc = "status" /\ cr' # StatusOf(heap, latest) =>
            cr.id # 0 /\ cr.conditions = NoConditions]_vars
  BY StepGood DEF Good
<1> QED BY IInvHolds, <1>1, PTL DEF Spec, StatusReachesServer
=============================================================================
