-------------------------- MODULE MmapReplayProofs --------------------------
(***************************************************************************)
(* Proofs about MmapReplay for every pair of capacities that new()         *)
(* accepts.  The inductive invariant joins the shape of the two rings, the *)
(* chain between them and the state of the file and its read map.          *)
(***************************************************************************)
EXTENDS MmapReplay, TLAPS

-----------------------------------------------------------------------------
(* What the operators of Rings preserve, for every capacity: cited for the *)
(* ring in memory and for the ring on disk.                                *)

(* Advancing an index modulo the capacity either adds one or returns to 0. *)
LEMMA NextSlot ==
  ASSUME NEW cap \in Nat \ {0}, NEW i \in 0 .. cap-1
  PROVE  (i + 1) % cap = IF i + 1 = cap THEN 0 ELSE i + 1
<1>1. CASE i + 1 = cap
  BY <1>1, SMT
<1>2. CASE i + 1 # cap
  BY <1>2, SMT
<1> QED BY <1>1, <1>2

(* A ring of the right shape, in which write_pos follows count.            *)
WellFormed(ring, cap) == ring \in Ring(cap) /\ FillsFromZero(ring, cap)

(* NewestFirst of a ring whose transitions up to gone have become zeros.   *)
EndsAt(ring, cap, newest, gone) ==
  \A offset \in LiveIndices(ring) :
     ring.slots[RecentIndex(ring, cap, offset)] =
       IF newest - offset > gone THEN newest - offset ELSE 0

(* Nothing is gone: EndsAt is NewestFirst.                                 *)
LEMMA EndsAtIsNewestFirst ==
  ASSUME NEW cap \in Nat \ {0}, NEW ring, WellFormed(ring, cap),
         NEW newest \in Nat, ring.count <= newest
  PROVE  EndsAt(ring, cap, newest, 0) <=> NewestFirst(ring, cap, newest)
<1>1. ring.count \in 0 .. cap
  BY DEF WellFormed, Ring
<1>2. \A offset \in LiveIndices(ring) : newest - offset > 0
  BY <1>1 DEF LiveIndices
<1> QED BY <1>2 DEF EndsAt, NewestFirst

LEMMA EmptyRingWellFormed ==
  ASSUME NEW cap \in Nat, NEW newest \in Nat
  PROVE  /\ WellFormed(EmptyRing(cap), cap)
         /\ NewestFirst(EmptyRing(cap), cap, newest)
         /\ LiveIndices(EmptyRing(cap)) = {}
         /\ EmptyRing(cap).count = 0
BY DEF WellFormed, EmptyRing, Ring, Unwritten, FillsFromZero, NewestFirst, LiveIndices

(* push_slices keeps the shape and the relation of write_pos to count.     *)
LEMMA PushWellFormed ==
  ASSUME NEW cap \in Nat \ {0}, NEW ring, WellFormed(ring, cap), NEW r \in Nat
  PROVE  /\ WellFormed(RingPush(ring, cap, r), cap)
         /\ RingPush(ring, cap, r).count =
              IF ring.count < cap THEN ring.count + 1 ELSE cap
         /\ RingPush(ring, cap, r).slots = [ring.slots EXCEPT ![ring.pos] = r]
         /\ RingPush(ring, cap, r).pos = IF ring.pos + 1 = cap THEN 0 ELSE ring.pos + 1
<1>1. /\ ring.pos \in 0 .. cap-1
      /\ ring.count \in 0 .. cap
      /\ ring.slots \in [0 .. cap-1 -> Nat]
  BY DEF WellFormed, Ring, FillsFromZero
<1>2. (ring.pos + 1) % cap = IF ring.pos + 1 = cap THEN 0 ELSE ring.pos + 1
  BY <1>1, NextSlot
<1>3. ring.count < cap => ring.pos = ring.count
  BY DEF WellFormed, FillsFromZero
<1>4. PICK s, p, c :
        /\ s = [ring.slots EXCEPT ![ring.pos] = r]
        /\ p = IF ring.pos + 1 = cap THEN 0 ELSE ring.pos + 1
        /\ c = IF ring.count < cap THEN ring.count + 1 ELSE cap
  OBVIOUS
<1>5. PICK new : new = RingPush(ring, cap, r)
  OBVIOUS
<1>6. new = [slots |-> s, pos |-> p, count |-> c]
  <2>1. c = IF ring.count < cap THEN ring.count + 1 ELSE ring.count
    BY <1>1, <1>4
  <2> QED BY <1>2, <1>4, <1>5, <2>1 DEF RingPush
<1>7. s \in [0 .. cap-1 -> Nat]
  BY <1>1, <1>4
<1>8. /\ p \in 0 .. cap /\ p < cap /\ c \in 0 .. cap
      /\ c < cap => p = c
  <2>1. PICK i, k : i = ring.pos /\ k = ring.count
    OBVIOUS
  <2>2. i \in 0 .. cap-1 /\ k \in 0 .. cap /\ (k < cap => i = k)
    BY <1>1, <1>3, <2>1
  <2>3. /\ p = IF i + 1 = cap THEN 0 ELSE i + 1
        /\ c = IF k < cap THEN k + 1 ELSE cap
    BY <1>4, <2>1
  <2>4. p \in 0 .. cap /\ p < cap
    BY <2>2, <2>3
  <2>5. c \in 0 .. cap
    BY <2>2, <2>3
  <2>6. c < cap => p = c
    BY <2>2, <2>3
  <2> QED BY <2>4, <2>5, <2>6
<1>9. new \in Ring(cap) /\ new.slots = s /\ new.pos = p /\ new.count = c
  BY <1>6, <1>7, <1>8 DEF Ring
<1>10. WellFormed(new, cap)
  BY <1>8, <1>9 DEF WellFormed, FillsFromZero
<1> QED BY <1>4, <1>5, <1>9, <1>10

(* The index arithmetic: an offset below count leads to a live row.        *)
LEMMA RecentIndexIsLive ==
  ASSUME NEW cap \in Nat \ {0}, NEW ring, WellFormed(ring, cap),
         NEW offset \in LiveIndices(ring)
  PROVE  RecentIndex(ring, cap, offset) \in LiveIndices(ring)
<1>1. /\ ring.pos \in 0 .. cap-1
      /\ ring.count \in 0 .. cap
      /\ ring.count < cap => ring.pos = ring.count
  BY DEF WellFormed, Ring, FillsFromZero
<1>2. offset \in 0 .. ring.count-1
  BY DEF LiveIndices
<1>3. PICK p, c : p = ring.pos /\ c = ring.count
  OBVIOUS
<1>4. CASE p > offset
  <2>1. p - 1 - offset \in 0 .. c-1
    BY <1>1, <1>2, <1>3, <1>4
  <2>2. RecentIndex(ring, cap, offset) = p - 1 - offset
    BY <1>3, <1>4 DEF RecentIndex
  <2> QED BY <1>3, <2>1, <2>2 DEF LiveIndices
<1>5. CASE ~(p > offset)
  <2>1. c = cap
    BY <1>1, <1>2, <1>3, <1>5
  <2>2. cap - 1 - (offset - p) \in 0 .. c-1
    BY <1>1, <1>2, <1>3, <1>5, <2>1
  <2>3. RecentIndex(ring, cap, offset) = cap - 1 - (offset - p)
    BY <1>3, <1>5 DEF RecentIndex
  <2> QED BY <1>3, <2>2, <2>3 DEF LiveIndices
<1> QED BY <1>4, <1>5

(* After push_slices the rows are still in arrival order, newest first.    *)
LEMMA PushEndsAt ==
  ASSUME NEW cap \in Nat \ {0}, NEW ring, WellFormed(ring, cap),
         NEW newest \in Nat, NEW gone \in 0 .. newest, EndsAt(ring, cap, newest, gone)
  PROVE  EndsAt(RingPush(ring, cap, newest + 1), cap, newest + 1, gone)
<1> DEFINE new == RingPush(ring, cap, newest + 1)
<1>1. /\ ring.pos \in 0 .. cap-1
      /\ ring.count \in 0 .. cap
      /\ ring.count < cap => ring.pos = ring.count
  BY DEF WellFormed, Ring, FillsFromZero
<1>2. ring.slots \in [0 .. cap-1 -> Nat]
  BY DEF WellFormed, Ring
<1>p. /\ new.count = IF ring.count < cap THEN ring.count + 1 ELSE cap
      /\ new.slots = [ring.slots EXCEPT ![ring.pos] = newest + 1]
      /\ new.pos = IF ring.pos + 1 = cap THEN 0 ELSE ring.pos + 1
  BY PushWellFormed
<1>3. /\ new.count = IF ring.count < cap THEN ring.count + 1 ELSE cap
      /\ new.pos = IF ring.pos + 1 = cap THEN 0 ELSE ring.pos + 1
  BY <1>p
<1>4. new.slots = [ring.slots EXCEPT ![ring.pos] = newest + 1]
  BY <1>p
<1> HIDE DEF new
<1> SUFFICES ASSUME NEW offset \in 0 .. new.count - 1
             PROVE  new.slots[RecentIndex(new, cap, offset)] =
                      IF newest + 1 - offset > gone THEN newest + 1 - offset ELSE 0
  BY DEF EndsAt, LiveIndices, new
<1>5. CASE offset = 0
  <2>1. RecentIndex(new, cap, 0) = ring.pos
    BY <1>1, <1>3 DEF RecentIndex
  <2> QED BY <1>1, <1>2, <1>4, <1>5, <2>1
<1>6. CASE offset # 0
  <2>1. offset \in 1 .. cap-1 /\ offset - 1 \in 0 .. ring.count - 1
    BY <1>1, <1>3, <1>6
  <2>2. /\ RecentIndex(new, cap, offset) = RecentIndex(ring, cap, offset - 1)
        /\ RecentIndex(ring, cap, offset - 1) \in 0 .. cap-1
        /\ RecentIndex(ring, cap, offset - 1) # ring.pos
    BY <1>1, <1>3, <2>1 DEF RecentIndex
  <2> DEFINE r == newest - (offset - 1)
  <2>3. ring.slots[RecentIndex(ring, cap, offset - 1)] = IF r > gone THEN r ELSE 0
    BY <2>1 DEF EndsAt, LiveIndices
  <2>4. new.slots[RecentIndex(new, cap, offset)] = IF r > gone THEN r ELSE 0
    BY <1>1, <1>2, <1>4, <2>2, <2>3
  <2>5. r = newest + 1 - offset
    BY <2>1
  <2> QED BY <2>4, <2>5
<1> QED BY <1>5, <1>6

(* In arrival order, the live rows are the newest count ones, less those   *)
(* that are gone, which read as zeros.                                     *)
LEMMA LiveRowsAreNewest ==
  ASSUME NEW cap \in Nat \ {0}, NEW ring, WellFormed(ring, cap),
         NEW newest \in Nat, NEW gone \in Nat, EndsAt(ring, cap, newest, gone),
         ring.count <= newest
  PROVE  LiveRows(ring) \ (IF gone > 0 THEN {0} ELSE {}) =
           {r \in newest - ring.count + 1 .. newest : r > gone}
<1>1. /\ ring.pos \in 0 .. cap-1
      /\ ring.count \in 0 .. cap
      /\ ring.count < cap => ring.pos = ring.count
  BY DEF WellFormed, Ring, FillsFromZero
<1> DEFINE live == {r \in newest - ring.count + 1 .. newest : r > gone}
<1>2. ASSUME NEW i \in 0 .. ring.count - 1
      PROVE  ring.slots[i] \in live \/ (gone > 0 /\ ring.slots[i] = 0)
  <2> DEFINE offset == IF i < ring.pos THEN ring.pos - 1 - i ELSE cap - 1 - i + ring.pos
  <2>1. offset \in 0 .. ring.count - 1 /\ RecentIndex(ring, cap, offset) = i
    BY <1>1 DEF RecentIndex
  <2>2. ring.slots[i] = IF newest - offset > gone THEN newest - offset ELSE 0
    BY <2>1 DEF EndsAt, LiveIndices
  <2> HIDE DEF offset
  <2>3. newest - offset \in newest - ring.count + 1 .. newest /\ newest - offset > 0
    BY <1>1, <2>1
  <2> QED BY <2>2, <2>3
<1>3. ASSUME NEW r \in live
      PROVE  r # 0 /\ \E i \in 0 .. ring.count - 1 : ring.slots[i] = r
  <2>1. newest - r \in LiveIndices(ring) /\ r \in Int /\ r > gone
    BY <1>1 DEF LiveIndices
  <2>2. ring.slots[RecentIndex(ring, cap, newest - r)] = r
    <3>1. newest - (newest - r) = r
      BY <2>1
    <3> QED BY <2>1, <3>1 DEF EndsAt
  <2>3. RecentIndex(ring, cap, newest - r) \in LiveIndices(ring)
    BY <2>1, RecentIndexIsLive
  <2> QED BY <2>1, <2>2, <2>3 DEF LiveIndices
<1>4. LiveRows(ring) = {ring.slots[i] : i \in 0 .. ring.count - 1}
  BY DEF LiveRows, RowsAt, LiveIndices
<1>5. 0 \notin live
  BY <1>1
<1> HIDE DEF live
<1>6. LiveRows(ring) \ (IF gone > 0 THEN {0} ELSE {}) \subseteq live
  BY <1>2, <1>4
<1>7. live \subseteq LiveRows(ring) \ (IF gone > 0 THEN {0} ELSE {})
  BY <1>3, <1>4, <1>5
<1> QED BY <1>6, <1>7 DEF live

-----------------------------------------------------------------------------
IInv ==
  /\ TypeOK
  /\ ColdContinuesHot
  /\ ViewIsCurrent
  /\ FileOpenForRefresh

LEMMA Capacities ==
  /\ HotCapacity \in Nat \ {0}
  /\ ColdCapacity \in Nat
  /\ TotalCapacity = HotCapacity + ColdCapacity
BY MmapAssumption DEF ColdCapacity

(* The file as the next spill finds it has the shape of cold.              *)
LEMMA OpenedColdShape ==
  ASSUME cold \in Ring(ColdCapacity)
  PROVE  /\ OpenedCold \in Ring(ColdCapacity)
         /\ OpenedCold.pos = cold.pos
         /\ OpenedCold.count = cold.count
BY Capacities DEF OpenedCold, Ring, Unwritten

(* ColdEndsAt in the terms of the lemmas on rings.                         *)
LEMMA ColdEndsAtIsEndsAt ==
  ASSUME cold \in Ring(ColdCapacity), NEW newest
  PROVE  ColdEndsAt(newest) <=> EndsAt(OpenedCold, ColdCapacity, newest, lost)
BY OpenedColdShape DEF ColdEndsAt, EndsAt, Kept, LiveIndices, RecentIndex

LEMMA RingsOK ==
  ASSUME IInv
  PROVE  /\ WellFormed(hot, HotCapacity)
         /\ NewestFirst(hot, HotCapacity, pushed)
         /\ EndsAt(hot, HotCapacity, pushed, 0)
         /\ WellFormed(cold, ColdCapacity)
         /\ WellFormed(OpenedCold, ColdCapacity)
         /\ OpenedCold.count = cold.count
         /\ OpenedCold.pos = cold.pos
         /\ EndsAt(OpenedCold, ColdCapacity, pushed - hot.count, lost)
         /\ pushed \in Nat
         /\ hot.count \in 0 .. HotCapacity
         /\ cold.count \in 0 .. ColdCapacity
         /\ pushed - hot.count \in Nat
         /\ cold.count <= pushed - hot.count
         /\ lost \in 0 .. pushed - hot.count
<1>1. /\ WellFormed(hot, HotCapacity)
      /\ NewestFirst(hot, HotCapacity, pushed)
      /\ WellFormed(cold, ColdCapacity)
      /\ cold \in Ring(ColdCapacity)
  BY DEF IInv, TypeOK, ColdContinuesHot, WellFormed
<1>2. /\ pushed \in Nat
      /\ hot.count \in 0 .. HotCapacity
      /\ cold.count \in 0 .. ColdCapacity
  BY DEF IInv, TypeOK, Ring
<1>3. /\ pushed - hot.count \in Nat
      /\ cold.count <= pushed - hot.count
      /\ lost \in 0 .. pushed - hot.count
  BY <1>2, Capacities DEF IInv, TypeOK, ColdContinuesHot
<1>4. EndsAt(hot, HotCapacity, pushed, 0)
  <2>1. hot.count <= pushed
    BY <1>2, <1>3, Capacities
  <2> QED BY <1>1, <1>2, <2>1, Capacities, EndsAtIsNewestFirst
<1>5. EndsAt(OpenedCold, ColdCapacity, pushed - hot.count, lost)
  BY <1>1, ColdEndsAtIsEndsAt DEF IInv, ColdContinuesHot
<1>6. /\ OpenedCold \in Ring(ColdCapacity)
      /\ OpenedCold.count = cold.count
      /\ OpenedCold.pos = cold.pos
  BY <1>1, OpenedColdShape
<1>7. WellFormed(OpenedCold, ColdCapacity)
  BY <1>1, <1>6 DEF WellFormed, FillsFromZero
<1> QED BY <1>1, <1>2, <1>3, <1>4, <1>5, <1>6, <1>7

(* The rows held, as the refinement mapping counts them.                   *)
Held(h, c, gone) == (LiveRows(h) \union LiveRows(c)) \ (IF gone > 0 THEN {0} ELSE {})

(* The transitions from lo to hi that no failed close has lost.            *)
Newer(lo, hi, gone) == {r \in lo .. hi : r > gone}

(* Memory and file hold an interval of arrival numbers, less those lost.   *)
HoldsInterval ==
  Held(hot, OpenedCold, lost) = Newer(pushed - hot.count - cold.count + 1, pushed, lost)

LEMMA LiveInterval == IInv => HoldsInterval
<1> SUFFICES ASSUME IInv PROVE HoldsInterval
  OBVIOUS
<1> DEFINE blank == IF lost > 0 THEN {0} ELSE {}
<1>1. PICK a, b : a = pushed - hot.count /\ b = a - cold.count
  OBVIOUS
<1>2. /\ a \in Nat /\ b \in Nat /\ b <= a /\ a <= pushed
      /\ pushed \in Nat /\ lost \in 0 .. a
      /\ hot.count <= pushed /\ cold.count <= a
  <2>1. hot.count \in Nat /\ cold.count \in Nat
    BY RingsOK, Capacities
  <2> QED BY <1>1, <2>1, RingsOK
<1>3. LiveRows(hot) = a + 1 .. pushed
  <2>1. LiveRows(hot) \ (IF 0 > 0 THEN {0} ELSE {})
          = {r \in pushed - hot.count + 1 .. pushed : r > 0}
    BY <1>2, RingsOK, Capacities, LiveRowsAreNewest
  <2>2. {r \in pushed - hot.count + 1 .. pushed : r > 0} = a + 1 .. pushed
    BY <1>1, <1>2
  <2>3. LiveRows(hot) \ (IF 0 > 0 THEN {0} ELSE {}) = LiveRows(hot)
    OBVIOUS
  <2> QED BY <2>1, <2>2, <2>3
<1>4. LiveRows(OpenedCold) \ blank = {r \in b + 1 .. a : r > lost}
  <2>1. CASE ColdCapacity = 0
    <3>1. OpenedCold.count = 0 /\ b = a
      BY <1>1, <1>2, <2>1, RingsOK
    <3>2. LiveRows(OpenedCold) = {}
      BY <3>1 DEF LiveRows, RowsAt, LiveIndices
    <3> QED BY <1>2, <3>1, <3>2
  <2>2. CASE ColdCapacity # 0
    <3>1. lost \in Nat /\ ColdCapacity \in Nat \ {0} /\ OpenedCold.count <= a
      BY <1>2, <2>2, RingsOK, Capacities
    <3>2. EndsAt(OpenedCold, ColdCapacity, a, lost)
      BY <1>1, RingsOK
    <3>3. LiveRows(OpenedCold) \ blank = {r \in a - OpenedCold.count + 1 .. a : r > lost}
      BY <1>2, <3>1, <3>2, RingsOK, LiveRowsAreNewest
    <3> QED BY <1>1, <3>3, RingsOK
  <2> QED BY <2>1, <2>2
<1>5. (a + 1 .. pushed) \ blank = {r \in a + 1 .. pushed : r > lost}
  BY <1>2
<1>6. {r \in a + 1 .. pushed : r > lost} \union {r \in b + 1 .. a : r > lost}
        = {r \in b + 1 .. pushed : r > lost}
  BY <1>2
<1>7. Held(hot, OpenedCold, lost) = (LiveRows(hot) \ blank) \union (LiveRows(OpenedCold) \ blank)
  BY DEF Held
<1> HIDE DEF blank
<1> QED BY <1>1, <1>3, <1>4, <1>5, <1>6, <1>7 DEF HoldsInterval, Newer

LEMMA InitIInv == Init => IInv
<1> SUFFICES ASSUME Init PROVE IInv
  OBVIOUS
<1>1. /\ WellFormed(hot, HotCapacity)
      /\ NewestFirst(hot, HotCapacity, 0)
      /\ hot.count = 0
      /\ WellFormed(cold, ColdCapacity)
      /\ LiveIndices(cold) = {}
      /\ cold.count = 0
  BY Capacities, EmptyRingWellFormed DEF Init
<1>2. TypeOK
  BY <1>1 DEF Init, TypeOK, WellFormed
<1>3. ColdContinuesHot
  BY <1>1, Capacities DEF Init, ColdContinuesHot, ColdEndsAt, WellFormed
<1>4. ViewIsCurrent /\ FileOpenForRefresh
  BY <1>1 DEF Init, ViewIsCurrent, FileOpenForRefresh
<1> QED BY <1>2, <1>3, <1>4 DEF IInv

(* read_oldest_hot_record really reads the oldest transition in memory.    *)
LEMMA OldestHotIsOldest ==
  ASSUME IInv, HotFull
  PROVE  OldestHot = pushed - hot.count + 1
<1>1. hot.pos \in 0 .. HotCapacity-1 /\ hot.count = HotCapacity
  BY Capacities, RingsOK DEF HotFull, WellFormed, Ring, FillsFromZero
<1>2. /\ HotCapacity - 1 \in LiveIndices(hot)
      /\ RecentIndex(hot, HotCapacity, HotCapacity - 1) = hot.pos
  BY <1>1, Capacities DEF LiveIndices, RecentIndex
<1>3. hot.slots[hot.pos] = pushed - (HotCapacity - 1)
  BY <1>2, RingsOK DEF NewestFirst
<1> QED BY <1>1, <1>3, RingsOK, Capacities DEF OldestHot

(* What a push does to the memory ring.                                    *)
LEMMA StoreHot ==
  ASSUME IInv, Store
  PROVE  /\ WellFormed(hot', HotCapacity)
         /\ NewestFirst(hot', HotCapacity, pushed')
         /\ hot'.count = IF hot.count < HotCapacity THEN hot.count + 1 ELSE HotCapacity
         /\ pushed' = pushed + 1
<1> DEFINE new == RingPush(hot, HotCapacity, pushed + 1)
<1>1. hot' = new /\ pushed' = pushed + 1
  BY DEF Store
<1>2. pushed + 1 \in Nat /\ WellFormed(hot, HotCapacity) /\ HotCapacity \in Nat \ {0}
  BY RingsOK, Capacities
<1>3. /\ WellFormed(new, HotCapacity)
      /\ new.count = IF hot.count < HotCapacity THEN hot.count + 1 ELSE HotCapacity
      /\ new.slots = [hot.slots EXCEPT ![hot.pos] = pushed + 1]
      /\ new.pos = IF hot.pos + 1 = HotCapacity THEN 0 ELSE hot.pos + 1
  BY <1>2, PushWellFormed
<1>4. EndsAt(new, HotCapacity, pushed + 1, 0)
  <2>1. 0 \in 0 .. pushed /\ pushed \in Nat
    BY RingsOK
  <2> QED BY <1>2, <2>1, RingsOK, PushEndsAt
<1>5. NewestFirst(new, HotCapacity, pushed + 1)
  <2>1. new.count <= pushed + 1
    BY <1>3, RingsOK, Capacities
  <2> HIDE DEF new
  <2> QED BY <1>2, <1>3, <1>4, <2>1, EndsAtIsNewestFirst
<1> QED BY <1>1, <1>3, <1>5

(* What a spill does to the file: it appends the transition that memory    *)
(* is about to overwrite.                                                  *)
LEMMA SpillCold ==
  ASSUME IInv, HotFull, Spill
  PROVE  /\ WellFormed(cold', ColdCapacity)
         /\ EndsAt(cold', ColdCapacity, pushed - hot.count + 1, lost)
         /\ OpenedCold' = cold'
         /\ cold'.count = IF cold.count < ColdCapacity THEN cold.count + 1 ELSE ColdCapacity
         /\ ColdCapacity \in Nat \ {0}
<1> DEFINE r == pushed - hot.count + 1
           new == RingPush(OpenedCold, ColdCapacity, r)
<1>1. cold' = new /\ ColdCapacity \in Nat \ {0}
  BY OldestHotIsOldest, Capacities DEF Spill
<1>2. r \in Nat /\ pushed - hot.count \in Nat /\ lost \in 0 .. pushed - hot.count
  BY RingsOK
<1>3. /\ WellFormed(new, ColdCapacity)
      /\ new.count = IF OpenedCold.count < ColdCapacity THEN OpenedCold.count + 1 ELSE ColdCapacity
      /\ new.slots = [OpenedCold.slots EXCEPT ![OpenedCold.pos] = r]
      /\ new.pos = IF OpenedCold.pos + 1 = ColdCapacity THEN 0 ELSE OpenedCold.pos + 1
  <2> HIDE DEF r
  <2> QED BY <1>1, <1>2, RingsOK, PushWellFormed
<1>4. EndsAt(new, ColdCapacity, r, lost)
  BY <1>1, <1>2, RingsOK, PushEndsAt
<1>5. OpenedCold' = cold'
  BY DEF Spill, OpenedCold
<1> QED BY <1>1, <1>3, <1>4, <1>5, RingsOK

LEMMA StoreIInv ==
  ASSUME IInv, Store, todo' \in Nat
  PROVE  IInv'
<1>1. /\ WellFormed(hot', HotCapacity)
      /\ NewestFirst(hot', HotCapacity, pushed')
      /\ hot'.count = IF hot.count < HotCapacity THEN hot.count + 1 ELSE HotCapacity
      /\ pushed' = pushed + 1
  BY StoreHot
<1>2. pushed' \in Nat /\ batch' \subseteq Nat /\ view' = view /\ lost' = lost
  BY RingsOK DEF Store
<1>3. CASE HotFull /\ Spill
  <2>1. /\ WellFormed(cold', ColdCapacity)
        /\ EndsAt(cold', ColdCapacity, pushed - hot.count + 1, lost)
        /\ OpenedCold' = cold'
        /\ cold'.count = IF cold.count < ColdCapacity THEN cold.count + 1 ELSE ColdCapacity
    BY <1>3, SpillCold
  <2>2. hot'.count = HotCapacity /\ hot.count = HotCapacity
    BY <1>1, <1>3, Capacities DEF HotFull
  <2>3. pushed' - hot'.count = pushed - hot.count + 1
    BY <1>1, <2>2, RingsOK, Capacities
  <2>4. hot'.count + cold'.count <= pushed' /\ lost' <= pushed' - hot'.count
    BY <1>1, <1>2, <2>1, <2>2, RingsOK, Capacities
  <2>5. TypeOK'
    BY <1>1, <1>2, <1>3, <2>1 DEF IInv, TypeOK, Spill, WellFormed
  <2>6. ColdEndsAt(pushed - hot.count)'
    <3>1. EndsAt(OpenedCold', ColdCapacity, pushed' - hot'.count, lost')
      BY <1>2, <2>1, <2>3
    <3> QED BY <2>1, <3>1
            DEF ColdEndsAt, EndsAt, Kept, LiveIndices, RecentIndex
  <2>7. ColdContinuesHot'
    BY <1>1, <2>1, <2>2, <2>4, <2>6, Capacities DEF ColdContinuesHot, WellFormed
  <2>8. ViewIsCurrent' /\ FileOpenForRefresh'
    BY <1>3 DEF Spill, ViewIsCurrent, FileOpenForRefresh, NeedsRefresh
  <2> QED BY <2>5, <2>7, <2>8 DEF IInv
<1>4. CASE ~HotFull /\ UNCHANGED <<cold, fileOpen, stale>>
  <2>1. /\ hot.count < HotCapacity
        /\ pushed = hot.count /\ cold.count = 0
        /\ hot'.count = hot.count + 1
    BY <1>1, <1>4, RingsOK, Capacities DEF HotFull, IInv, ColdContinuesHot
  <2>2. TypeOK'
    BY <1>1, <1>2, <1>4 DEF IInv, TypeOK, WellFormed
  <2>3. ColdEndsAt(pushed - hot.count)'
    BY <1>4, <2>1 DEF ColdEndsAt, LiveIndices
  <2>4. pushed' - hot'.count = 0 /\ lost' = 0 /\ cold'.count = 0
    BY <1>1, <1>2, <1>4, <2>1, RingsOK
  <2>5. ColdContinuesHot'
    <3>1. /\ FillsFromZero(hot', HotCapacity) /\ FillsFromZero(cold', ColdCapacity)
          /\ hot'.count < HotCapacity => pushed' = hot'.count /\ cold'.count = 0
      BY <1>1, <1>4, <2>1, RingsOK DEF WellFormed
    <3>2. hot'.count + cold'.count <= pushed' /\ lost' <= pushed' - hot'.count
      BY <1>1, <2>1, <2>4, RingsOK, Capacities
    <3> QED BY <1>1, <2>3, <3>1, <3>2 DEF ColdContinuesHot
  <2>6. ViewIsCurrent' /\ FileOpenForRefresh'
    BY <2>4 DEF ViewIsCurrent, FileOpenForRefresh
  <2> QED BY <2>2, <2>5, <2>6 DEF IInv
<1> QED BY <1>3, <1>4 DEF Store

(* A row that sample reads is a live row of one of the rings, although     *)
(* rows of the file are read through the read map.                         *)
LEMMA RowAtIsLive ==
  ASSUME IInv, NEW idx \in 0 .. Stored - 1, cold.count > 0 /\ NeedsRefresh => fileOpen
  PROVE  RowAt(idx) \in LiveRows(hot) \union LiveRows(OpenedCold)
<1>1. CASE idx < cold.count
  <2>1. cold.count > 0
    BY <1>1, RingsOK, Capacities
  <2>2. SeenCold = cold.slots /\ OpenedCold = cold
    BY <2>1 DEF SeenCold, OpenedCold, IInv, ViewIsCurrent
  <2>3. idx \in LiveIndices(cold)
    BY <1>1, RingsOK, Capacities DEF LiveIndices, Stored
  <2> QED BY <1>1, <2>2, <2>3 DEF RowAt, LiveRows, RowsAt
<1>2. CASE ~(idx < cold.count)
  <2>1. idx - cold.count \in LiveIndices(hot)
    BY <1>2, RingsOK, Capacities DEF LiveIndices, Stored
  <2> QED BY <1>2, <2>1 DEF RowAt, LiveRows, RowsAt
<1> QED BY <1>1, <1>2

LEMMA SampleDraws ==
  ASSUME IInv, Sample
  PROVE  /\ batch' \ Blank \subseteq Held(hot, OpenedCold, lost)
         /\ batch' \subseteq Nat
<1>1. PICK drawn \in SUBSET (0 .. Stored - 1) : batch' = {RowAt(i) : i \in drawn}
  BY DEF Sample
<1>2. batch' \subseteq LiveRows(hot) \union LiveRows(OpenedCold)
  BY <1>1, RowAtIsLive DEF Sample
<1>3. batch' \ Blank \subseteq Held(hot, OpenedCold, lost)
  BY <1>2 DEF Blank, Held
<1>4. Held(hot, OpenedCold, lost) \subseteq Nat
  <2>1. pushed - hot.count - cold.count + 1 .. pushed \subseteq Nat
    BY RingsOK, Capacities
  <2> QED BY <2>1, LiveInterval DEF HoldsInterval, Newer
<1> QED BY <1>3, <1>4 DEF Blank

(* The chain stays when neither ring, the file nor the history changes.    *)
LEMMA ChainKept ==
  ASSUME ColdContinuesHot, UNCHANGED <<hot, cold, fileOpen, pushed, lost>>
  PROVE  ColdContinuesHot'
BY DEF ColdContinuesHot, ColdEndsAt, OpenedCold, Kept

LEMMA StepIInv == IInv /\ [Next]_vars => IInv'
<1> SUFFICES ASSUME IInv, [Next]_vars PROVE IInv'
  OBVIOUS
<1> USE DEF IInv
<1>1. CASE Push
  BY <1>1, StoreIInv DEF Push, TypeOK
<1>2. ASSUME NEW n \in 1 .. MaxBatch, BeginBatch(n)
      PROVE  IInv'
  <2>1. UNCHANGED <<hot, cold, fileOpen, view, stale, pushed, batch, lost>> /\ todo' \in Nat
    BY <1>2 DEF BeginBatch
  <2> QED BY <2>1, ChainKept DEF TypeOK, ViewIsCurrent, FileOpenForRefresh, NeedsRefresh
<1>3. CASE BatchRow
  <2>1. todo' \in Nat
    BY <1>3 DEF BatchRow, TypeOK
  <2> QED BY <1>3, <2>1, StoreIInv DEF BatchRow
<1>4. CASE SpillFails
  <2>1. /\ UNCHANGED <<hot, cold, view, stale, pushed, batch, lost>> /\ todo' = 0
        /\ fileOpen' \in BOOLEAN
        /\ fileOpen' = fileOpen \/ (ColdCapacity = 0 /\ fileOpen')
    BY <1>4 DEF SpillFails, TypeOK
  <2>2. CASE fileOpen' = fileOpen
    BY <2>1, <2>2, ChainKept DEF TypeOK, ViewIsCurrent, FileOpenForRefresh, NeedsRefresh
  <2>3. CASE ColdCapacity = 0 /\ fileOpen'
    <3>1. cold.count = 0 /\ LiveIndices(cold) = {}
      BY <2>3, RingsOK DEF LiveIndices
    <3>2. ColdContinuesHot'
      BY <2>1, <3>1 DEF ColdContinuesHot, ColdEndsAt, LiveIndices
    <3> QED BY <2>1, <3>1, <3>2 DEF TypeOK, ViewIsCurrent, FileOpenForRefresh, NeedsRefresh
  <2> QED BY <2>1, <2>2, <2>3
<1>5. CASE Sample
  <2>1. UNCHANGED <<hot, cold, fileOpen, pushed, todo, lost>>
    BY <1>5 DEF Sample
  <2>2. batch' \subseteq Nat /\ ColdContinuesHot'
    BY <1>5, <2>1, SampleDraws, ChainKept
  <2>3. CASE cold.count > 0
    <3>1. view' = cold.slots /\ stale' = FALSE /\ fileOpen
      BY <1>5, <2>3 DEF Sample, SeenCold, ViewIsCurrent
    <3>2. TypeOK'
      BY <2>1, <2>2, <3>1 DEF TypeOK, Ring
    <3> QED BY <2>1, <2>2, <3>1, <3>2 DEF ViewIsCurrent, FileOpenForRefresh
  <2>4. CASE ~(cold.count > 0)
    <3>1. UNCHANGED <<view, stale>>
      BY <1>5, <2>4 DEF Sample
    <3> QED BY <2>1, <2>2, <2>4, <3>1
            DEF TypeOK, ViewIsCurrent, FileOpenForRefresh, NeedsRefresh
  <2> QED BY <2>3, <2>4
<1>6. CASE RefreshFails
  <2>1. UNCHANGED <<hot, cold, fileOpen, stale, pushed, todo, lost>> /\ view' = NoView /\ batch' = {}
    BY <1>6 DEF RefreshFails
  <2> QED BY <2>1, ChainKept DEF TypeOK, ViewIsCurrent, FileOpenForRefresh, NeedsRefresh
<1>7. CASE Close
  <2>0. /\ WellFormed(cold', ColdCapacity)
        /\ LiveIndices(cold') = {}
        /\ cold'.count = 0
    BY <1>7, RingsOK, Capacities, EmptyRingWellFormed DEF Close
  <2>1. /\ cold' \in Ring(ColdCapacity)
        /\ cold'.count = 0
    BY <2>0 DEF WellFormed
  <2>2. UNCHANGED <<hot, stale, pushed, todo, lost>> /\ view' = NoView /\ batch' = {}
        /\ fileOpen' = FALSE
    BY <1>7 DEF Close
  <2>3. TypeOK'
    BY <2>1, <2>2 DEF TypeOK
  <2>4. FillsFromZero(cold', ColdCapacity) /\ ColdEndsAt(pushed - hot.count)'
    BY <2>0 DEF WellFormed, ColdEndsAt
  <2>5. hot'.count + cold'.count <= pushed'
    BY <2>1, <2>2, RingsOK, Capacities
  <2>6. ColdContinuesHot'
    BY <2>1, <2>2, <2>4, <2>5 DEF ColdContinuesHot
  <2> QED BY <2>1, <2>3, <2>6 DEF ViewIsCurrent, FileOpenForRefresh
<1>8. CASE CloseFails
  <2>1. /\ UNCHANGED <<hot, cold, stale, pushed, todo>> /\ view' = NoView /\ batch' = {}
        /\ fileOpen' = FALSE /\ lost' = pushed - hot.count
    BY <1>8 DEF CloseFails
  <2>2. TypeOK'
    BY <2>1, RingsOK DEF TypeOK
  <2>3. ColdEndsAt(pushed - hot.count)'
    <3>1. SUFFICES ASSUME NEW offset \in 0 .. cold.count - 1
                   PROVE  (OpenedCold.slots[RecentIndex(cold, ColdCapacity, offset)])' =
                            Kept(pushed - hot.count - offset)'
      BY <2>1 DEF ColdEndsAt, LiveIndices
    <3>2. RecentIndex(cold, ColdCapacity, offset) \in 0 .. ColdCapacity - 1
      <4>1. ColdCapacity \in Nat \ {0} /\ offset \in LiveIndices(cold)
        BY RingsOK, Capacities DEF LiveIndices
      <4>2. RecentIndex(cold, ColdCapacity, offset) \in LiveIndices(cold)
        BY <4>1, RingsOK, RecentIndexIsLive
      <4> QED BY <4>2, RingsOK, Capacities DEF LiveIndices
    <3>3. OpenedCold' = [cold EXCEPT !.slots = Unwritten(ColdCapacity)]
      BY <2>1 DEF OpenedCold
    <3>4. OpenedCold'.slots = Unwritten(ColdCapacity)
      BY <3>3 DEF TypeOK, Ring
    <3>5. Unwritten(ColdCapacity)[RecentIndex(cold, ColdCapacity, offset)] = 0
      BY <3>2 DEF Unwritten
    <3>6. Kept(pushed - hot.count - offset)' = 0
      BY <2>1, RingsOK DEF Kept
    <3> QED BY <2>1, <3>4, <3>5, <3>6
  <2>4. ColdContinuesHot'
    BY <2>1, <2>3, RingsOK DEF ColdContinuesHot
  <2> QED BY <2>1, <2>2, <2>4 DEF ViewIsCurrent, FileOpenForRefresh, NeedsRefresh
<1>9. CASE UNCHANGED vars
  BY <1>9, ChainKept DEF vars, TypeOK, ViewIsCurrent, FileOpenForRefresh, NeedsRefresh
<1> QED BY <1>1, <1>2, <1>3, <1>4, <1>5, <1>6, <1>7, <1>8, <1>9 DEF Next

(* Memory and file chain without a gap, a double or a reordering, for all  *)
(* capacities that new() accepts; a close that fails costs the rows of the *)
(* file and no other.                                                      *)
THEOREM ColdContinuesHotHolds == Spec => [](TypeOK /\ ColdContinuesHot)
<1>1. IInv => TypeOK /\ ColdContinuesHot
  BY DEF IInv
<1> QED BY InitIInv, StepIInv, <1>1, PTL DEF Spec

(* sample never reads an outdated map, and finds the file closed only      *)
(* between a close that failed and the next spill.                         *)
THEOREM ReadsAreCurrent == Spec => [](ViewIsCurrent /\ FileOpenForRefresh)
<1>1. IInv => ViewIsCurrent /\ FileOpenForRefresh
  BY DEF IInv
<1> QED BY InitIInv, StepIInv, <1>1, PTL DEF Spec

(* Memory and file together implement the sliding window of the newest     *)
(* TotalCapacity transitions, with a part given up by close alone.         *)
THEOREM RefinesWindowHolds == Spec => RefinesWindow
<1> DEFINE window == (LiveRows(hot) \union LiveRows(OpenedCold)) \ Blank
<1>0. window = Held(hot, OpenedCold, lost)
  BY DEF Held, Blank
<1>n. IInv' => HoldsInterval'
  BY LiveInterval, PTL
<1>1. Init => Window!Init
  <2> SUFFICES ASSUME Init PROVE Window!Init
    OBVIOUS
  <2>1. hot.count = 0 /\ cold.count = 0 /\ OpenedCold.count = 0
    BY Capacities, OpenedColdShape, EmptyRingWellFormed DEF Init, WellFormed
  <2>2. LiveRows(hot) = {} /\ LiveRows(OpenedCold) = {}
    BY <2>1 DEF LiveRows, RowsAt, LiveIndices
  <2> QED BY <2>2 DEF Init, Window!Init
<1>2. ASSUME IInv, IInv', Store
      PROVE  Window!Push
  <2> DEFINE low == pushed - hot.count - cold.count + 1
             newLow == pushed' - hot'.count - cold'.count + 1
  <2>1. window = {r \in low .. pushed : r > lost}
    BY <1>0, <1>2, LiveInterval DEF HoldsInterval, Newer
  <2>2. window' = {r \in newLow .. pushed' : r > lost'}
    BY <1>2, <1>n DEF HoldsInterval, Newer, Held, Blank
  <2>3. pushed' = pushed + 1 /\ batch' = {} /\ lost' = lost /\ lost <= pushed /\ lost \in Nat
    BY <1>2, RingsOK, Capacities DEF Store
  <2>4. newLow .. pushed' = {r \in (low .. pushed) \union {pushed + 1} :
                               r > pushed + 1 - TotalCapacity}
    <3>1. /\ pushed \in Nat
          /\ hot.count \in 0 .. HotCapacity
          /\ cold.count \in 0 .. ColdCapacity
          /\ hot'.count = IF hot.count < HotCapacity THEN hot.count + 1 ELSE HotCapacity
      BY <1>2, RingsOK, StoreHot
    <3>2. CASE HotFull /\ Spill
      <4>1. cold'.count = IF cold.count < ColdCapacity THEN cold.count + 1 ELSE ColdCapacity
        BY <1>2, <3>2, SpillCold
      <4>2. hot.count = HotCapacity /\ hot'.count = HotCapacity
        BY <3>1, <3>2, Capacities DEF HotFull
      <4> QED BY <2>3, <3>1, <4>1, <4>2, Capacities
    <3>3. CASE ~HotFull /\ UNCHANGED cold
      <4>1. hot.count < HotCapacity /\ pushed = hot.count /\ cold.count = 0
        BY <1>2, <3>1, <3>3, Capacities DEF HotFull, IInv, ColdContinuesHot
      <4> QED BY <2>3, <3>1, <3>3, <4>1, Capacities
    <3> QED BY <1>2, <3>2, <3>3 DEF Store
  <2>5. pushed \in Nat
    BY <1>2, RingsOK
  <2> HIDE DEF low, newLow, window
  <2>6. window' = {r \in window \union {pushed + 1} : r > pushed + 1 - TotalCapacity}
    BY <2>1, <2>2, <2>3, <2>4, <2>5
  <2>7. (batch \ Blank)' = {}
    BY <2>3
  <2> QED BY <2>3, <2>6, <2>7 DEF Window!Push, window
<1>3. ASSUME IInv, IInv', Close \/ CloseFails
      PROVE  Window!Forget
  <2> DEFINE low == pushed - hot.count - cold.count + 1
             newLow == pushed' - hot'.count - cold'.count + 1
             oldest == pushed - hot.count + 1
  <2>1. /\ window = {r \in low .. pushed : r > lost}
        /\ window' = {r \in newLow .. pushed' : r > lost'}
    <3>1. window = {r \in low .. pushed : r > lost}
      BY <1>0, <1>3, LiveInterval DEF HoldsInterval, Newer
    <3>2. window' = {r \in newLow .. pushed' : r > lost'}
      BY <1>3, <1>n DEF HoldsInterval, Newer, Held, Blank
    <3> QED BY <3>1, <3>2
  <2>2. hot' = hot /\ pushed' = pushed /\ batch' = {}
    BY <1>3 DEF Close, CloseFails
  <2>3. newLow .. pushed' = oldest .. pushed \/ (lost' = oldest - 1 /\ newLow = low)
    BY <1>3, <2>2, RingsOK, Capacities DEF Close, CloseFails, EmptyRing
  <2>4. /\ oldest \in 1 .. pushed + 1 /\ low \in 1 .. oldest
        /\ lost \in 0 .. oldest - 1 /\ lost' \in 0 .. oldest - 1
        /\ pushed \in Nat
    BY <1>3, <2>2, RingsOK, Capacities DEF Close, CloseFails
  <2> HIDE DEF low, newLow, oldest, window
  <2>5. window' = {r \in window : r >= oldest}
    <3>1. CASE newLow .. pushed' = oldest .. pushed
      <4>0. window' = {r \in oldest .. pushed : r > lost'}
        BY <2>1, <3>1
      <4>1. window' = oldest .. pushed
        BY <2>4, <4>0
      <4>2. oldest .. pushed = {r \in window : r >= oldest}
        BY <2>1, <2>4
      <4> QED BY <4>1, <4>2
    <3>2. CASE lost' = oldest - 1 /\ newLow = low
      BY <2>1, <2>2, <2>4, <3>2
    <3> QED BY <2>3, <3>1, <3>2
  <2> QED BY <2>2, <2>4, <2>5 DEF Window!Forget, window
<1>4. IInv /\ IInv' /\ [Next]_vars => [Window!Next]_(Window!vars)
  <2> SUFFICES ASSUME IInv, IInv', [Next]_vars PROVE [Window!Next]_(Window!vars)
    OBVIOUS
  <2> USE DEF Window!Next, Window!vars
  <2>0. ASSUME UNCHANGED <<hot, cold, fileOpen, lost>>
        PROVE  window' = window /\ Blank' = Blank
    BY <2>0 DEF OpenedCold, Blank
  <2>1. CASE Push
    BY <2>1, <1>2 DEF Push
  <2>2. ASSUME NEW n \in 1 .. MaxBatch, BeginBatch(n)
        PROVE  [Window!Next]_(Window!vars)
    BY <2>0, <2>2 DEF BeginBatch
  <2>3. CASE BatchRow
    BY <2>3, <1>2 DEF BatchRow
  <2>4. CASE SpillFails
    <3>1. UNCHANGED <<hot, cold, pushed, batch, lost>>
      BY <2>4 DEF SpillFails
    <3>2. CASE UNCHANGED fileOpen
      BY <2>0, <3>1, <3>2
    <3>3. CASE ColdCapacity = 0
      <4>1. LiveRows(OpenedCold) = {} /\ LiveRows(OpenedCold)' = {}
        <5>1. cold.count = 0 /\ OpenedCold.count = 0
          BY <3>3, RingsOK
        <5>2. OpenedCold'.count = 0
          BY <3>1, <5>1, OpenedColdShape DEF OpenedCold, IInv, TypeOK, Ring
        <5> QED BY <5>1, <5>2 DEF LiveRows, RowsAt, LiveIndices
      <4>2. Blank' = Blank /\ LiveRows(hot)' = LiveRows(hot)
        BY <3>1 DEF Blank
      <4>3. window' = window
        BY <4>1, <4>2
      <4> QED BY <3>1, <4>2, <4>3
    <3>4. UNCHANGED fileOpen \/ ColdCapacity = 0
      BY <2>4 DEF SpillFails, IInv, TypeOK
    <3> QED BY <3>2, <3>3, <3>4
  <2>5. CASE Sample
    <3>1. UNCHANGED <<hot, cold, fileOpen, lost, pushed>>
      BY <2>5 DEF Sample
    <3>2. batch' \ Blank \subseteq window
      BY <1>0, <2>5, SampleDraws
    <3>3. window' = window /\ Blank' = Blank
      BY <2>0, <3>1
    <3> QED BY <3>1, <3>2, <3>3 DEF Window!Draw
  <2>6. CASE RefreshFails
    <3>1. UNCHANGED <<hot, cold, fileOpen, lost, pushed>> /\ batch' = {}
      BY <2>6 DEF RefreshFails
    <3>2. window' = window /\ Blank' = Blank
      BY <2>0, <3>1
    <3> QED BY <3>1, <3>2 DEF Window!Draw
  <2>7. CASE Close \/ CloseFails
    BY <2>7, <1>3
  <2>8. CASE UNCHANGED vars
    BY <2>0, <2>8 DEF vars
  <2> QED BY <2>1, <2>2, <2>3, <2>4, <2>5, <2>6, <2>7, <2>8 DEF Next
<1> QED BY InitIInv, StepIInv, <1>1, <1>4, PTL
        DEF Spec, RefinesWindow, Window!Spec
=============================================================================
