-------------------------- MODULE ReplayRingProofs --------------------------
(***************************************************************************)
(* Proofs about ReplayRing, and about EpisodeBuffer over it, for every     *)
(* capacity.  The ring's inductive invariant is TypeOK /\ RecencyOrder:    *)
(* what write_pos, count and the slots have to do with one another.        *)
(*                                                                         *)
(* The tracker knows an episode by its start and its length; the invariant *)
(* relates both to the age of its transitions: an episode whose newest     *)
(* transition is e rows old starts at the row that is e + length - 1 rows  *)
(* old.  A push makes every transition one row older and overwrites the    *)
(* oldest; that an episode keeps clear of it is what                       *)
(* invalidate_overwritten achieves.  The converse, that it gives up no     *)
(* other, has an invariant of its own.                                     *)
(***************************************************************************)
EXTENDS EpisodeBuffer, TLAPS

-----------------------------------------------------------------------------
(* What the operators of Rings preserve, for every capacity; a ring's      *)
(* newest row is `newest`.                                                 *)

(* Advancing an index modulo the capacity either adds one or returns to 0. *)
LEMMA NextSlot ==
  ASSUME NEW cap \in Nat \ {0}, NEW i \in 0 .. cap-1
  PROVE  (i + 1) % cap = IF i + 1 = cap THEN 0 ELSE i + 1
<1>1. CASE i + 1 = cap
  BY <1>1, SMT
<1>2. CASE i + 1 # cap
  BY <1>2, SMT
<1> QED BY <1>1, <1>2

(* A ring of the right shape, in which write_pos follows count.            *)
WellFormed(rg, cap) == rg \in Ring(cap) /\ FillsFromZero(rg, cap)

LEMMA EmptyRingWellFormed ==
  ASSUME NEW cap \in Nat, NEW newest \in Nat
  PROVE  /\ WellFormed(EmptyRing(cap), cap)
         /\ NewestFirst(EmptyRing(cap), cap, newest)
         /\ EmptyRing(cap).count = 0
BY DEF WellFormed, EmptyRing, Ring, Unwritten, FillsFromZero, NewestFirst, LiveIndices

(* push_slices keeps the shape and the relation of write_pos to count.     *)
LEMMA PushWellFormed ==
  ASSUME NEW cap \in Nat \ {0}, NEW rg, WellFormed(rg, cap), NEW r \in Nat
  PROVE  /\ WellFormed(RingPush(rg, cap, r), cap)
         /\ RingPush(rg, cap, r).count =
              IF rg.count < cap THEN rg.count + 1 ELSE cap
         /\ RingPush(rg, cap, r).slots = [rg.slots EXCEPT ![rg.pos] = r]
         /\ RingPush(rg, cap, r).pos = IF rg.pos + 1 = cap THEN 0 ELSE rg.pos + 1
<1>1. /\ rg.pos \in 0 .. cap-1
      /\ rg.count \in 0 .. cap
      /\ rg.slots \in [0 .. cap-1 -> Nat]
  BY DEF WellFormed, Ring, FillsFromZero
<1>2. (rg.pos + 1) % cap = IF rg.pos + 1 = cap THEN 0 ELSE rg.pos + 1
  BY <1>1, NextSlot
<1>3. rg.count < cap => rg.pos = rg.count
  BY DEF WellFormed, FillsFromZero
<1>4. PICK s, p, c :
        /\ s = [rg.slots EXCEPT ![rg.pos] = r]
        /\ p = IF rg.pos + 1 = cap THEN 0 ELSE rg.pos + 1
        /\ c = IF rg.count < cap THEN rg.count + 1 ELSE cap
  OBVIOUS
<1>5. PICK new : new = RingPush(rg, cap, r)
  OBVIOUS
<1>6. new = [slots |-> s, pos |-> p, count |-> c]
  <2>1. c = IF rg.count < cap THEN rg.count + 1 ELSE rg.count
    BY <1>1, <1>4
  <2> QED BY <1>2, <1>4, <1>5, <2>1 DEF RingPush
<1>7. s \in [0 .. cap-1 -> Nat]
  BY <1>1, <1>4
<1>8. /\ p \in 0 .. cap /\ p < cap /\ c \in 0 .. cap
      /\ c < cap => p = c
  <2>1. PICK i, k : i = rg.pos /\ k = rg.count
    OBVIOUS
  <2>2. i \in 0 .. cap-1 /\ k \in 0 .. cap /\ (k < cap => i = k)
    BY <1>1, <1>3, <2>1
  <2>3. /\ p = IF i + 1 = cap THEN 0 ELSE i + 1
        /\ c = IF k < cap THEN k + 1 ELSE cap
    BY <1>4, <2>1
  <2>4. p \in 0 .. cap /\ p < cap
    BY <2>2, <2>3
  <2>5. c \in 0 .. cap
    BY <2>2, <2>3
  <2>6. c < cap => p = c
    BY <2>2, <2>3
  <2> QED BY <2>4, <2>5, <2>6
<1>9. new \in Ring(cap) /\ new.slots = s /\ new.pos = p /\ new.count = c
  BY <1>6, <1>7, <1>8 DEF Ring
<1>10. WellFormed(new, cap)
  BY <1>8, <1>9 DEF WellFormed, FillsFromZero
<1> QED BY <1>4, <1>5, <1>9, <1>10

(* A row more is stored, until the ring is full.                            *)
LEMMA PushCount ==
  ASSUME NEW cap \in Nat \ {0}, NEW rg, rg.count \in 0 .. cap, NEW r
  PROVE  RingPush(rg, cap, r).count = IF rg.count < cap THEN rg.count + 1 ELSE cap
BY DEF RingPush

(* The index arithmetic: an offset below count leads to a live row.        *)
LEMMA RecentIndexIsLive ==
  ASSUME NEW cap \in Nat \ {0}, NEW rg, WellFormed(rg, cap),
         NEW offset \in LiveIndices(rg)
  PROVE  RecentIndex(rg, cap, offset) \in LiveIndices(rg)
<1>1. /\ rg.pos \in 0 .. cap-1
      /\ rg.count \in 0 .. cap
      /\ rg.count < cap => rg.pos = rg.count
  BY DEF WellFormed, Ring, FillsFromZero
<1>2. offset \in 0 .. rg.count-1
  BY DEF LiveIndices
<1>3. PICK p, c : p = rg.pos /\ c = rg.count
  OBVIOUS
<1>4. CASE p > offset
  <2>1. p - 1 - offset \in 0 .. c-1
    BY <1>1, <1>2, <1>3, <1>4
  <2>2. RecentIndex(rg, cap, offset) = p - 1 - offset
    BY <1>3, <1>4 DEF RecentIndex
  <2> QED BY <1>3, <2>1, <2>2 DEF LiveIndices
<1>5. CASE ~(p > offset)
  <2>1. c = cap
    BY <1>1, <1>2, <1>3, <1>5
  <2>2. cap - 1 - (offset - p) \in 0 .. c-1
    BY <1>1, <1>2, <1>3, <1>5, <2>1
  <2>3. RecentIndex(rg, cap, offset) = cap - 1 - (offset - p)
    BY <1>3, <1>5 DEF RecentIndex
  <2> QED BY <1>3, <2>2, <2>3 DEF LiveIndices
<1> QED BY <1>4, <1>5

(* After push_slices the rows are still in arrival order, newest first.    *)
LEMMA PushNewestFirst ==
  ASSUME NEW cap \in Nat \ {0}, NEW rg, WellFormed(rg, cap),
         NEW newest \in Nat, NewestFirst(rg, cap, newest)
  PROVE  NewestFirst(RingPush(rg, cap, newest + 1), cap, newest + 1)
<1> DEFINE new == RingPush(rg, cap, newest + 1)
<1>1. /\ rg.pos \in 0 .. cap-1
      /\ rg.count \in 0 .. cap
      /\ rg.count < cap => rg.pos = rg.count
  BY DEF WellFormed, Ring, FillsFromZero
<1>2. rg.slots \in [0 .. cap-1 -> Nat]
  BY DEF WellFormed, Ring
<1>p. /\ new.count = IF rg.count < cap THEN rg.count + 1 ELSE cap
      /\ new.slots = [rg.slots EXCEPT ![rg.pos] = newest + 1]
      /\ new.pos = IF rg.pos + 1 = cap THEN 0 ELSE rg.pos + 1
  BY PushWellFormed
<1>3. /\ new.count = IF rg.count < cap THEN rg.count + 1 ELSE cap
      /\ new.pos = IF rg.pos + 1 = cap THEN 0 ELSE rg.pos + 1
  BY <1>p
<1>4. new.slots = [rg.slots EXCEPT ![rg.pos] = newest + 1]
  BY <1>p
<1> HIDE DEF new
<1> SUFFICES ASSUME NEW offset \in 0 .. new.count - 1
             PROVE  new.slots[RecentIndex(new, cap, offset)] = newest + 1 - offset
  BY DEF NewestFirst, LiveIndices, new
<1>5. CASE offset = 0
  <2>1. RecentIndex(new, cap, 0) = rg.pos
    BY <1>1, <1>3 DEF RecentIndex
  <2> QED BY <1>1, <1>2, <1>4, <1>5, <2>1
<1>6. CASE offset # 0
  <2>1. offset \in 1 .. cap-1 /\ offset - 1 \in 0 .. rg.count - 1
    BY <1>1, <1>3, <1>6
  <2>2. /\ RecentIndex(new, cap, offset) = RecentIndex(rg, cap, offset - 1)
        /\ RecentIndex(rg, cap, offset - 1) \in 0 .. cap-1
        /\ RecentIndex(rg, cap, offset - 1) # rg.pos
    BY <1>1, <1>3, <2>1 DEF RecentIndex
  <2>3. rg.slots[RecentIndex(rg, cap, offset - 1)] = newest - (offset - 1)
    BY <2>1 DEF NewestFirst, LiveIndices
  <2>4. new.slots[RecentIndex(new, cap, offset)] = newest - (offset - 1)
    BY <1>1, <1>2, <1>4, <2>2, <2>3
  <2> QED BY <2>1, <2>4
<1> QED BY <1>5, <1>6

(* In arrival order, the live rows are exactly the newest count ones.      *)
LEMMA LiveRowsAreNewest ==
  ASSUME NEW cap \in Nat \ {0}, NEW rg, WellFormed(rg, cap),
         NEW newest \in Nat, NewestFirst(rg, cap, newest)
  PROVE  LiveRows(rg) = newest - rg.count + 1 .. newest
<1>1. /\ rg.pos \in 0 .. cap-1
      /\ rg.count \in 0 .. cap
      /\ rg.count < cap => rg.pos = rg.count
  BY DEF WellFormed, Ring, FillsFromZero
<1>2. ASSUME NEW i \in 0 .. rg.count - 1
      PROVE  rg.slots[i] \in newest - rg.count + 1 .. newest
  <2> DEFINE offset == IF i < rg.pos THEN rg.pos - 1 - i ELSE cap - 1 - i + rg.pos
  <2>1. offset \in 0 .. rg.count - 1 /\ RecentIndex(rg, cap, offset) = i
    BY <1>1 DEF RecentIndex
  <2>2. rg.slots[i] = newest - offset
    BY <2>1 DEF NewestFirst, LiveIndices
  <2> HIDE DEF offset
  <2> QED BY <1>1, <2>1, <2>2
<1>3. ASSUME NEW r \in newest - rg.count + 1 .. newest
      PROVE  \E i \in 0 .. rg.count - 1 : rg.slots[i] = r
  <2>1. newest - r \in LiveIndices(rg)
    BY <1>1 DEF LiveIndices
  <2>2. rg.slots[RecentIndex(rg, cap, newest - r)] = r
    BY <1>1, <2>1 DEF NewestFirst
  <2>3. RecentIndex(rg, cap, newest - r) \in LiveIndices(rg)
    BY <2>1, RecentIndexIsLive
  <2> QED BY <2>2, <2>3 DEF LiveIndices
<1> QED BY <1>2, <1>3 DEF LiveRows, RowsAt, LiveIndices

-----------------------------------------------------------------------------
IInv == TypeOK /\ RecencyOrder

LEMMA RingOK ==
  ASSUME IInv
  PROVE  /\ WellFormed(ring, Capacity)
         /\ NewestFirst(ring, Capacity, pushed)
         /\ Capacity \in Nat \ {0}
         /\ pushed \in Nat
         /\ LiveRows(ring) = pushed - ring.count + 1 .. pushed
<1>1. /\ WellFormed(ring, Capacity)
      /\ NewestFirst(ring, Capacity, pushed)
      /\ Capacity \in Nat \ {0}
      /\ pushed \in Nat
  BY RingAssumption DEF IInv, TypeOK, RecencyOrder, WellFormed
<1> QED BY <1>1, LiveRowsAreNewest

LEMMA InitIInv == Init => IInv
<1> SUFFICES ASSUME Init PROVE IInv
  OBVIOUS
<1>1. /\ WellFormed(ring, Capacity)
      /\ NewestFirst(ring, Capacity, 0)
      /\ ring.count = 0
  BY RingAssumption, EmptyRingWellFormed DEF Init
<1>2. TypeOK
  BY <1>1, RingAssumption DEF Init, TypeOK, WellFormed, EmptyRing, Unwritten
<1>3. RecencyOrder
  BY <1>1, RingAssumption DEF Init, RecencyOrder, WellFormed
<1> QED BY <1>2, <1>3 DEF IInv

(* One stored row, whether by push or inside push_batch.                   *)
LEMMA StoreIInv ==
  ASSUME IInv, Store, todo' \in Nat
  PROVE  IInv'
<1>1. ring' = RingPush(ring, Capacity, pushed + 1) /\ pushed' = pushed + 1
  BY DEF Store
<1>2. pushed + 1 \in Nat
  BY RingOK
<1>3. /\ WellFormed(ring', Capacity)
      /\ ring'.count = IF ring.count < Capacity THEN ring.count + 1 ELSE Capacity
      /\ ring'.pos = IF ring.pos + 1 = Capacity THEN 0 ELSE ring.pos + 1
  <2> DEFINE new == RingPush(ring, Capacity, pushed + 1)
  <2>1. WellFormed(ring, Capacity) /\ Capacity \in Nat \ {0}
    BY RingOK
  <2>2. /\ WellFormed(new, Capacity)
        /\ new.count = IF ring.count < Capacity THEN ring.count + 1 ELSE Capacity
        /\ new.slots = [ring.slots EXCEPT ![ring.pos] = pushed + 1]
        /\ new.pos = IF ring.pos + 1 = Capacity THEN 0 ELSE ring.pos + 1
    BY <1>2, <2>1, PushWellFormed
  <2> QED BY <1>1, <2>2
<1>4. NewestFirst(ring', Capacity, pushed')
  BY <1>1, RingOK, PushNewestFirst
<1>5. ring.pos \in 0 .. Capacity-1
  BY RingAssumption DEF IInv, TypeOK, Ring
<1>6. ring'.pos < Capacity
  BY <1>3, <1>5, RingAssumption
<1>7. TypeOK'
  BY <1>1, <1>2, <1>3, <1>6, RingAssumption DEF IInv, TypeOK, Store, WellFormed
<1>8. ring'.count = IF pushed' < Capacity THEN pushed' ELSE Capacity
  BY <1>1, <1>3, RingAssumption DEF IInv, TypeOK, RecencyOrder
<1>9. RecencyOrder'
  BY <1>3, <1>4, <1>8 DEF RecencyOrder, WellFormed
<1> QED BY <1>7, <1>9 DEF IInv

(* Drawn rows are live rows.                                               *)
LEMMA DrawnRows ==
  ASSUME IInv, NEW indices \in SUBSET LiveIndices(ring)
  PROVE  RowsAt(ring, indices) \subseteq LiveRows(ring)
BY DEF RowsAt, LiveRows

LEMMA SampleDraws ==
  ASSUME IInv, Sample
  PROVE  batch' \subseteq LiveRows(ring)
BY DrawnRows DEF Sample

(* The rows sample_recent(w) returns: live, and among the newest w.        *)
LEMMA SampleRecentDraws ==
  ASSUME IInv, NEW w \in 0 .. Capacity, SampleRecent(w)
  PROVE  /\ batch' \subseteq LiveRows(ring)
         /\ batch' \subseteq pushed - w + 1 .. pushed
<1>1. PICK offsets \in SUBSET (0 .. EffectiveWindow(w) - 1) :
        batch' = RowsAt(ring, {RecentIndex(ring, Capacity, o) : o \in offsets})
  BY DEF SampleRecent
<1>2. \A o \in offsets : o \in LiveIndices(ring) /\ o \in 0 .. w - 1
  <2>1. ring \in Ring(Capacity)
    BY DEF IInv, TypeOK
  <2>2. ring.count \in 0 .. Capacity
    BY <2>1 DEF Ring
  <2>3. PICK k : k = ring.count
    OBVIOUS
  <2>4. k \in Nat /\ w \in Nat
    BY <2>2, <2>3, RingAssumption
  <2>5. EffectiveWindow(w) = IF w < k THEN w ELSE k
    BY <2>3 DEF EffectiveWindow
  <2>6. \A o \in 0 .. EffectiveWindow(w) - 1 : o \in 0 .. k - 1 /\ o \in 0 .. w - 1
    BY <2>4, <2>5
  <2> QED BY <2>3, <2>6 DEF LiveIndices
<1>3. {RecentIndex(ring, Capacity, o) : o \in offsets} \in SUBSET LiveIndices(ring)
  BY <1>2, RecentIndexIsLive, RingOK
<1>4. ASSUME NEW r \in batch'
      PROVE  r \in pushed - w + 1 .. pushed
  <2>1. PICK o \in offsets : r = ring.slots[RecentIndex(ring, Capacity, o)]
    BY <1>1, <1>4 DEF RowsAt
  <2>2. r = pushed - o
    BY <1>2, <2>1, RingOK DEF NewestFirst
  <2> QED BY <1>2, <2>2, RingOK
<1> QED BY <1>1, <1>3, <1>4, DrawnRows

LEMMA LiveRowsAreNumbers ==
  ASSUME IInv
  PROVE  LiveRows(ring) \subseteq Nat
<1>1. /\ ring.slots \in [0 .. Capacity-1 -> Nat]
      /\ LiveIndices(ring) \subseteq 0 .. Capacity-1
  <2>1. ring \in Ring(Capacity)
    BY DEF IInv, TypeOK
  <2>2. ring.slots \in [0 .. Capacity-1 -> Nat] /\ ring.count \in 0 .. Capacity
    BY <2>1 DEF Ring
  <2> QED BY <2>2, RingAssumption DEF LiveIndices
<1> QED BY <1>1 DEF LiveRows, RowsAt

LEMMA StepIInv == IInv /\ [Next]_vars => IInv'
<1> SUFFICES ASSUME IInv, [Next]_vars PROVE IInv'
  OBVIOUS
<1>1. CASE Push
  BY <1>1, StoreIInv DEF Push, IInv, TypeOK
<1>2. ASSUME NEW n \in 1 .. MaxBatch, BeginBatch(n)
      PROVE  IInv'
  BY <1>2 DEF BeginBatch, IInv, TypeOK, RecencyOrder
<1>3. CASE BatchRow
  <2>1. todo' \in Nat
    BY <1>3 DEF BatchRow, IInv, TypeOK
  <2> QED BY <1>3, <2>1, StoreIInv DEF BatchRow
<1>4. CASE PushExtra
  <2>1. extra' \in [0 .. Capacity-1 -> Nat]
    BY <1>4 DEF PushExtra, IInv, TypeOK
  <2> QED BY <1>4, <2>1 DEF PushExtra, IInv, TypeOK, RecencyOrder
<1>5. CASE Sample
  <2>1. batch' \subseteq Nat
    BY <1>5, SampleDraws, LiveRowsAreNumbers
  <2> QED BY <1>5, <2>1, RingAssumption DEF Sample, IInv, TypeOK, RecencyOrder
<1>6. ASSUME NEW w \in 0 .. Capacity, SampleRecent(w)
      PROVE  IInv'
  <2>1. batch' \subseteq Nat
    BY <1>6, SampleRecentDraws, LiveRowsAreNumbers
  <2> QED BY <1>6, <2>1 DEF SampleRecent, IInv, TypeOK, RecencyOrder
<1>7. CASE UNCHANGED vars
  BY <1>7 DEF vars, IInv, TypeOK, RecencyOrder
<1> QED BY <1>1, <1>2, <1>3, <1>4, <1>5, <1>6, <1>7 DEF Next

(* In every reachable state of a ring of any capacity, counting back from  *)
(* write_pos as sample_recent does finds the newest transitions in order.  *)
THEOREM RecencyOrderHolds == Spec => [](TypeOK /\ RecencyOrder)
<1>1. IInv => TypeOK /\ RecencyOrder
  BY DEF IInv
<1> QED BY InitIInv, StepIInv, <1>1, PTL DEF Spec

(* sample_recent(w) returns none but the newest w transitions, for every   *)
(* capacity and window.                                                    *)
THEOREM RecentOnlyHolds == Spec => []RecentOnly
<1>1. Init => RecentOnly
  BY DEF Init, RecentOnly
<1>2. IInv /\ RecentOnly /\ [Next]_vars => RecentOnly'
  <2> SUFFICES ASSUME IInv, RecentOnly, [Next]_vars PROVE RecentOnly'
    OBVIOUS
  <2>1. CASE Push
    BY <2>1 DEF Push, Store, RecentOnly
  <2>2. ASSUME NEW n \in 1 .. MaxBatch, BeginBatch(n)
        PROVE  RecentOnly'
    BY <2>2 DEF BeginBatch, RecentOnly
  <2>3. CASE BatchRow
    BY <2>3 DEF BatchRow, Store, RecentOnly
  <2>4. CASE PushExtra
    BY <2>4 DEF PushExtra, RecentOnly
  <2>5. CASE Sample
    <3>1. batch' \subseteq pushed - ring.count + 1 .. pushed
      BY <2>5, SampleDraws, RingOK
    <3>2. ring.count \in 0 .. Capacity
      BY DEF IInv, TypeOK, Ring
    <3> QED BY <2>5, <3>1, <3>2, RingOK DEF Sample, RecentOnly
  <2>6. ASSUME NEW w \in 0 .. Capacity, SampleRecent(w)
        PROVE  RecentOnly'
    <3>1. batch' \subseteq pushed - w + 1 .. pushed
      BY <2>6, SampleRecentDraws
    <3> QED BY <2>6, <3>1 DEF SampleRecent, RecentOnly
  <2>7. CASE UNCHANGED vars
    BY <2>7 DEF vars, RecentOnly
  <2> QED BY <2>1, <2>2, <2>3, <2>4, <2>5, <2>6, <2>7 DEF Next
<1> QED BY InitIInv, StepIInv, <1>1, <1>2, PTL DEF Spec

(* push_extra touches no transition but the newest.                        *)
THEOREM ExtraGoesToNewestHolds == Spec => ExtraGoesToNewest
<1> DEFINE Aligned == \A i \in 0 .. Capacity-1 :
       extra'[i] # extra[i] => ring.slots[i] = pushed /\ extra'[i] = pushed
<1>1. IInv /\ [Next]_vars => [Aligned]_vars
  <2> SUFFICES ASSUME IInv, Next PROVE Aligned
    OBVIOUS
  <2>1. CASE PushExtra
    <3>0. ring.pos \in 0 .. Capacity-1 /\ ring.count \in 0 .. Capacity /\ ring.count > 0
      BY <2>1, RingAssumption DEF PushExtra, IInv, TypeOK, Ring
    <3>1. /\ NewestIndex \in 0 .. Capacity-1
          /\ NewestIndex = RecentIndex(ring, Capacity, 0)
          /\ 0 \in LiveIndices(ring)
      BY <3>0, RingAssumption DEF NewestIndex, RecentIndex, LiveIndices
    <3>2. ring.slots[NewestIndex] = pushed - 0
      BY <3>1, RingOK DEF NewestFirst
    <3>3. ring.slots[NewestIndex] = pushed
      BY <3>2, RingOK
    <3>4. extra \in [0 .. Capacity-1 -> Nat]
      BY DEF IInv, TypeOK
    <3> QED BY <2>1, <3>1, <3>3, <3>4 DEF PushExtra
  <2>2. CASE UNCHANGED extra
    BY <2>2
  <2> QED BY <2>1, <2>2
          DEF Next, Push, Store, BeginBatch, BatchRow, Sample, SampleRecent
<1> QED BY InitIInv, StepIInv, <1>1, PTL DEF Spec, ExtraGoesToNewest, Aligned

(* The ring implements the sliding window, for every capacity.             *)
THEOREM RefinesWindowHolds == Spec => RefinesWindow
<1>1. Init => Window!Init
  BY RingAssumption
  DEF Init, Window!Init, EmptyRing, LiveRows, RowsAt, LiveIndices
<1>2. ASSUME IInv, IInv', Store
      PROVE  Window!Push
  <2>0. /\ WellFormed(ring', Capacity)
        /\ NewestFirst(ring', Capacity, pushed')
        /\ Capacity \in Nat \ {0}
        /\ pushed' \in Nat
    BY <1>2, RingAssumption DEF IInv, TypeOK, RecencyOrder, WellFormed
  <2>1. /\ LiveRows(ring) = pushed - ring.count + 1 .. pushed
        /\ LiveRows(ring') = pushed' - ring'.count + 1 .. pushed'
        /\ pushed \in Nat
    BY <1>2, <2>0, RingOK, LiveRowsAreNewest
  <2>2. /\ ring.count = IF pushed < Capacity THEN pushed ELSE Capacity
        /\ ring'.count = IF pushed' < Capacity THEN pushed' ELSE Capacity
    BY <1>2 DEF IInv, RecencyOrder
  <2>3. pushed' = pushed + 1
    BY <1>2 DEF Store
  <2>4. LiveRows(ring') = {r \in LiveRows(ring) \union {pushed + 1} : r > pushed + 1 - Capacity}
    BY <2>1, <2>2, <2>3, RingAssumption
  <2> QED BY <1>2, <2>3, <2>4 DEF Store, Window!Push
<1>3. IInv /\ IInv' /\ [Next]_vars => [Window!Next]_(Window!vars)
  <2> SUFFICES ASSUME IInv, IInv', [Next]_vars PROVE [Window!Next]_(Window!vars)
    OBVIOUS
  <2> USE DEF Window!Next, Window!vars
  <2>1. CASE Push
    BY <2>1, <1>2 DEF Push
  <2>2. ASSUME NEW n \in 1 .. MaxBatch, BeginBatch(n)
        PROVE  [Window!Next]_(Window!vars)
    BY <2>2 DEF BeginBatch
  <2>3. CASE BatchRow
    BY <2>3, <1>2 DEF BatchRow
  <2>4. CASE PushExtra
    BY <2>4 DEF PushExtra
  <2>5. CASE Sample
    BY <2>5, SampleDraws DEF Sample, Window!Draw
  <2>6. ASSUME NEW w \in 0 .. Capacity, SampleRecent(w)
        PROVE  [Window!Next]_(Window!vars)
    BY <2>6, SampleRecentDraws DEF SampleRecent, Window!Draw
  <2>7. CASE UNCHANGED vars
    BY <2>7 DEF vars
  <2> QED BY <2>1, <2>2, <2>3, <2>4, <2>5, <2>6, <2>7 DEF Next
<1> QED BY InitIInv, StepIInv, <1>1, <1>3, PTL
        DEF Spec, RefinesWindow, Window!Spec
-----------------------------------------------------------------------------
(* Episodes over the ring.                                                 *)

(* The modulus of a sum of two indices, without %.                         *)
LEMMA Wrap ==
  ASSUME NEW cap \in Nat \ {0}, NEW x \in 0 .. 2*cap-1
  PROVE  x % cap = IF x < cap THEN x ELSE x - cap
<1>1. CASE x < cap
  BY <1>1, SMT
<1>2. CASE x >= cap
  <2>1. PICK y \in 0 .. cap-1 : x = y + cap
    BY <1>2
  <2>2. (y + cap) % cap = y
    BY SMT
  <2> QED BY <2>1, <2>2, <1>2
<1> QED BY <1>1, <1>2

(* k rows after the row that is o rows old comes the one o - k rows old,   *)
(* across the end of the ring too: sample_windows steps as sample_recent   *)
(* counts.                                                                 *)
LEMMA AtNewer ==
  ASSUME NEW cap \in Nat \ {0}, NEW ring_, WellFormed(ring_, cap),
         NEW o \in 0 .. ring_.count-1, NEW k \in 0 .. o
  PROVE  (RecentIndex(ring_, cap, o) + k) % cap = RecentIndex(ring_, cap, o - k)
<1>1. /\ ring_.pos \in 0 .. cap-1
      /\ ring_.count \in 0 .. cap
      /\ ring_.count < cap => ring_.pos = ring_.count
  BY DEF WellFormed, Ring, FillsFromZero
<1>2. RecentIndex(ring_, cap, o) \in 0 .. cap-1
  BY <1>1 DEF RecentIndex
<1> DEFINE x == RecentIndex(ring_, cap, o) + k
<1>3. x \in 0 .. 2*cap-1
  BY <1>1, <1>2
<1>4. x % cap = IF x < cap THEN x ELSE x - cap
  <2> HIDE DEF x
  <2> QED BY <1>3, Wrap
<1>5. CASE ring_.pos > o
  BY <1>1, <1>4, <1>5 DEF RecentIndex
<1>6. CASE ring_.pos <= o /\ ring_.pos > o - k
  BY <1>1, <1>4, <1>6 DEF RecentIndex
<1>7. CASE ring_.pos <= o - k
  BY <1>1, <1>4, <1>7 DEF RecentIndex
<1> QED BY <1>1, <1>5, <1>6, <1>7

(* A push makes every row that it does not overwrite one row older.        *)
LEMMA PushAges ==
  ASSUME NEW cap \in Nat \ {0}, NEW ring_, WellFormed(ring_, cap), NEW r \in Nat,
         NEW o \in 0 .. ring_.count-1, o < cap-1
  PROVE  /\ RecentIndex(RingPush(ring_, cap, r), cap, o + 1) = RecentIndex(ring_, cap, o)
         /\ RecentIndex(ring_, cap, o) # ring_.pos
         /\ RecentIndex(ring_, cap, o) \in 0 .. cap-1
         /\ o + 1 < RingPush(ring_, cap, r).count
<1>1. /\ ring_.pos \in 0 .. cap-1
      /\ ring_.count \in 0 .. cap
      /\ ring_.count < cap => ring_.pos = ring_.count
  BY DEF WellFormed, Ring, FillsFromZero
<1>2. /\ WellFormed(RingPush(ring_, cap, r), cap)
      /\ RingPush(ring_, cap, r).count =
           IF ring_.count < cap THEN ring_.count + 1 ELSE cap
      /\ RingPush(ring_, cap, r).slots = [ring_.slots EXCEPT ![ring_.pos] = r]
      /\ RingPush(ring_, cap, r).pos = IF ring_.pos + 1 = cap THEN 0 ELSE ring_.pos + 1
  BY PushWellFormed
<1> QED BY <1>1, <1>2 DEF RecentIndex

(* The row a push writes is the newest one afterwards.                     *)
LEMMA PushIsNewest ==
  ASSUME NEW cap \in Nat \ {0}, NEW ring_, WellFormed(ring_, cap), NEW r \in Nat
  PROVE  /\ RecentIndex(RingPush(ring_, cap, r), cap, 0) = ring_.pos
         /\ RingPush(ring_, cap, r).count >= 1
<1>1. /\ ring_.pos \in 0 .. cap-1
      /\ ring_.count \in 0 .. cap
  BY DEF WellFormed, Ring, FillsFromZero
<1>2. /\ WellFormed(RingPush(ring_, cap, r), cap)
      /\ RingPush(ring_, cap, r).count =
           IF ring_.count < cap THEN ring_.count + 1 ELSE cap
      /\ RingPush(ring_, cap, r).slots = [ring_.slots EXCEPT ![ring_.pos] = r]
      /\ RingPush(ring_, cap, r).pos = IF ring_.pos + 1 = cap THEN 0 ELSE ring_.pos + 1
  BY PushWellFormed
<1> QED BY <1>1, <1>2 DEF RecentIndex
-----------------------------------------------------------------------------
(* The rows of an episode are the live rows of ages e .. e + length - 1,   *)
(* and all belong to one episode.                                          *)
Span(r, h, ep, e) ==
  /\ e + ep.length <= r.count
  /\ ep.start = RecentIndex(r, Capacity, e + ep.length - 1)
  /\ \A age \in e .. e + ep.length - 1 :
       h[RecentIndex(r, Capacity, age)] = h[ep.start]

RingInv ==
  /\ WellFormed(ring, Capacity)
  /\ NewestFirst(ring, Capacity, pushed)

EpisodesInv ==
  \A ep \in tracker.episodes :
    \E e \in Nat : Span(ring, home, ep, e) /\ ended[RecentIndex(ring, Capacity, e)]

CurrentInv ==
  tracker.current # NoEpisode =>
    /\ Span(ring, home, tracker.current, 0)
    /\ home[tracker.current.start] = first

EpisodeInv == IInv /\ TrackerOK /\ EpisodesInv /\ CurrentInv

LEMMA RingHolds ==
  ASSUME EpisodeInv
  PROVE  RingInv
BY RingOK DEF EpisodeInv, RingInv

(* An episode that ring_range_overlaps clears of the row at write_pos does *)
(* not start there.                                                        *)
LEMMA ClearOfWrite ==
  ASSUME NEW ep \in Episode, NEW pos \in Slots,
         ~RangesOverlap(ep.start, ep.length, pos, 1)
  PROVE  ep.start # pos
<1> SUFFICES ASSUME ep.start = pos PROVE FALSE
  OBVIOUS
<1>1. ep.start \in 0 .. Capacity-1 /\ ep.length # 0 /\ Capacity \in Nat \ {0}
  BY RingAssumption DEF Episode, Slots
<1>2. ep.start + (Capacity - pos) = Capacity
  BY <1>1
<1>3. Capacity % Capacity = 0
  BY <1>1, Wrap
<1>4. At(ep.start, Capacity - pos) = 0
  BY <1>2, <1>3 DEF At
<1> QED BY <1>1, <1>4 DEF RangesOverlap

LEMMA RoomMadeTyped ==
  ASSUME EpisodeInv
  PROVE  RoomMade \in [episodes : SUBSET Episode, current : Episode \cup {NoEpisode}]
BY DEF EpisodeInv, TrackerOK, RoomMade, Invalidated

(* What making room leaves is part of what was there and clear of the row  *)
(* at write_pos when the ring is full.                                     *)
LEMMA RoomMadeLeaves ==
  ASSUME EpisodeInv
  PROVE  /\ RoomMade.episodes \subseteq tracker.episodes
         /\ RoomMade.current \in {tracker.current, NoEpisode}
         /\ ring.count = Capacity =>
              /\ \A ep \in RoomMade.episodes : ep.start # ring.pos
              /\ RoomMade.current.start # ring.pos
<1>1. /\ ring.pos \in Slots
      /\ tracker.episodes \subseteq Episode
      /\ tracker.current \in Episode \cup {NoEpisode}
  BY RingAssumption DEF EpisodeInv, IInv, TypeOK, TrackerOK, Ring, Slots
<1>2. CASE ring.count # Capacity
  BY <1>2 DEF RoomMade
<1>3. CASE ring.count = Capacity
  <2>1. RoomMade = Invalidated(tracker, ring.pos, 1)
    BY <1>3 DEF RoomMade
  <2>2. RoomMade.episodes =
          {ep \in tracker.episodes : ~RangesOverlap(ep.start, ep.length, ring.pos, 1)}
    BY <2>1 DEF Invalidated
  <2>3. RoomMade.current =
          IF /\ tracker.current.start # None
             /\ RangesOverlap(tracker.current.start, tracker.current.length, ring.pos, 1)
          THEN NoEpisode ELSE tracker.current
    BY <2>1 DEF Invalidated
  <2>4. \A ep \in RoomMade.episodes : ep.start # ring.pos
    BY <1>1, <2>2, ClearOfWrite
  <2>5. NoEpisode.start = None /\ None # ring.pos
    BY <1>1, RingAssumption DEF NoEpisode, None, Slots
  <2>6. RoomMade.current.start # ring.pos
    <3>1. CASE RoomMade.current = NoEpisode
      BY <2>5, <3>1
    <3>2. CASE RoomMade.current # NoEpisode
      <4>1. RoomMade.current = tracker.current /\ tracker.current \in Episode
        BY <1>1, <2>3, <3>2
      <4>2. tracker.current.start # None
        BY <4>1, RingAssumption DEF Episode, Slots, None
      <4>3. ~RangesOverlap(tracker.current.start, tracker.current.length, ring.pos, 1)
        BY <2>3, <3>2, <4>2
      <4> QED BY <1>1, <4>1, <4>3, ClearOfWrite
    <3> QED BY <3>1, <3>2
  <2> QED BY <2>2, <2>3, <2>4, <2>6
<1> QED BY <1>2, <1>3

LEMMA InitEpisodeInv == EpisodeInit => EpisodeInv
<1> SUFFICES ASSUME EpisodeInit PROVE EpisodeInv
  OBVIOUS
<1>1. IInv
  BY InitIInv DEF EpisodeInit
<1>2. home \in [Slots -> Nat]
  BY DEF EpisodeInit, Unwritten, Slots
<1>3. /\ tracker.episodes = {} /\ tracker.current = NoEpisode
      /\ tracker = [episodes |-> {}, current |-> NoEpisode]
  BY DEF EpisodeInit
<1>4. TrackerOK
  BY <1>2, <1>3 DEF EpisodeInit, TrackerOK
<1> QED BY <1>1, <1>3, <1>4 DEF EpisodeInv, EpisodesInv, CurrentInv

(* A push of the episode buffer is a push of its ring, and a rejected one  *)
(* leaves the ring as it was.                                              *)
LEMMA RingSteps == [EpisodeNext]_episodeVars => [Next]_vars
BY DEF EpisodeNext, episodeVars, PushSlices, PushRejected, Next

(* A rejected push leaves a part of what was tracked over the same ring.   *)
LEMMA RejectedEpisodeInv ==
  ASSUME EpisodeInv, PushRejected
  PROVE  EpisodeInv'
<1>1. /\ tracker'.episodes \subseteq tracker.episodes
      /\ tracker'.current \in {tracker.current, NoEpisode}
  BY RoomMadeLeaves DEF PushRejected
<1>2. UNCHANGED <<ring, ended, pushed, home, first>>
  BY DEF PushRejected, vars
<1>3. TrackerOK'
  BY <1>1, <1>2, RoomMadeTyped DEF EpisodeInv, TrackerOK, PushRejected
<1>4. IInv'
  BY RingSteps, StepIInv DEF EpisodeInv, EpisodeNext
<1>5. EpisodesInv'
  BY <1>1, <1>2 DEF EpisodeInv, EpisodesInv
<1>6. CurrentInv'
  BY <1>1, <1>2 DEF EpisodeInv, CurrentInv
<1> QED BY <1>3, <1>4, <1>5, <1>6 DEF EpisodeInv

(* What a push does to the rows.                                           *)
LEMMA PushRows ==
  ASSUME EpisodeInv, NEW done \in BOOLEAN, PushSlices(done)
  PROVE  /\ WellFormed(ring', Capacity)
         /\ NewestFirst(ring', Capacity, pushed')
         /\ ring.pos \in Slots /\ ring'.pos \in Slots
         /\ ring'.count \in 1 .. Capacity
         /\ RecentIndex(ring', Capacity, 0) = ring.pos
         /\ home' \in [Slots -> Nat] /\ ended' \in [Slots -> BOOLEAN]
         /\ home'[ring.pos] = first /\ ended'[ring.pos] = done
         /\ \A i \in Slots \ {ring.pos} : home'[i] = home[i] /\ ended'[i] = ended[i]
<1> DEFINE new == RingPush(ring, Capacity, pushed + 1)
<1>1. /\ Capacity \in Nat \ {0} /\ pushed + 1 \in Nat /\ pushed \in Nat
      /\ WellFormed(ring, Capacity)
      /\ NewestFirst(ring, Capacity, pushed)
  BY RingAssumption, RingHolds DEF EpisodeInv, IInv, TypeOK, RingInv
<1>2. ring' = new /\ pushed' = pushed + 1
  BY DEF PushSlices, Push, Store
<1>3. /\ WellFormed(new, Capacity)
      /\ new.count = IF ring.count < Capacity THEN ring.count + 1 ELSE Capacity
      /\ new.slots = [ring.slots EXCEPT ![ring.pos] = pushed + 1]
      /\ new.pos = IF ring.pos + 1 = Capacity THEN 0 ELSE ring.pos + 1
  BY <1>1, PushWellFormed
<1>4. NewestFirst(new, Capacity, pushed + 1)
  BY <1>1, PushNewestFirst
<1>5. /\ RecentIndex(new, Capacity, 0) = ring.pos
      /\ new.count >= 1
  BY <1>1, PushIsNewest
<1>6. /\ ring.pos \in Slots
      /\ ring.count \in 0 .. Capacity
  BY <1>1 DEF WellFormed, Ring, FillsFromZero, Slots
<1> HIDE DEF new
<1>7. new.pos \in Slots /\ new.count \in 1 .. Capacity
  BY <1>1, <1>3, <1>6 DEF Slots
<1>8. /\ home' = [home EXCEPT ![ring.pos] = first]
      /\ ended' = [ended EXCEPT ![ring.pos] = done]
      /\ home \in [Slots -> Nat] /\ ended \in [Slots -> BOOLEAN] /\ first \in Nat
  BY DEF PushSlices, EpisodeInv, TrackerOK
<1>9. /\ home' \in [Slots -> Nat] /\ ended' \in [Slots -> BOOLEAN]
      /\ home'[ring.pos] = first /\ ended'[ring.pos] = done
      /\ \A i \in Slots \ {ring.pos} : home'[i] = home[i] /\ ended'[i] = ended[i]
  BY <1>6, <1>8
<1> QED BY <1>2, <1>3, <1>4, <1>5, <1>6, <1>7, <1>9

(* An episode that is clear of the overwritten row keeps its rows, one row *)
(* older.                                                                  *)
LEMMA SpanAges ==
  ASSUME EpisodeInv, NEW done \in BOOLEAN, PushSlices(done),
         NEW ep \in Episode, NEW e \in Nat, Span(ring, home, ep, e),
         ring.count = Capacity => ep.start # ring.pos
  PROVE  /\ Span(ring', home', ep, e + 1)
         /\ home'[ep.start] = home[ep.start]
         /\ ended'[RecentIndex(ring', Capacity, e + 1)] =
              ended[RecentIndex(ring, Capacity, e)]
<1>1. /\ Capacity \in Nat \ {0} /\ pushed + 1 \in Nat
      /\ WellFormed(ring, Capacity)
      /\ ep.length \in 1 .. Capacity
  BY RingAssumption, RingHolds DEF EpisodeInv, IInv, TypeOK, RingInv, Episode
<1>2. /\ ring.pos \in 0 .. Capacity-1
      /\ ring.count \in 0 .. Capacity
  BY <1>1 DEF WellFormed, Ring, FillsFromZero
<1>3. /\ e + ep.length <= ring.count
      /\ ep.start = RecentIndex(ring, Capacity, e + ep.length - 1)
      /\ \A age \in e .. e + ep.length - 1 :
           home[RecentIndex(ring, Capacity, age)] = home[ep.start]
  BY DEF Span
<1>4. e + ep.length - 1 < Capacity - 1
  <2>1. CASE ring.count < Capacity
    BY <1>1, <1>2, <1>3, <2>1
  <2>2. CASE ring.count = Capacity
    <3>1. RecentIndex(ring, Capacity, Capacity - 1) = ring.pos
      BY <1>1, <1>2 DEF RecentIndex
    <3>2. e + ep.length - 1 # Capacity - 1
      BY <1>3, <2>2, <3>1
    <3> QED BY <1>1, <1>2, <1>3, <3>2
  <2> QED BY <1>1, <1>2, <2>1, <2>2
<1>5. \A age \in e .. e + ep.length - 1 :
        /\ RecentIndex(ring', Capacity, age + 1) = RecentIndex(ring, Capacity, age)
        /\ RecentIndex(ring, Capacity, age) \in Slots \ {ring.pos}
        /\ age + 1 < ring'.count
  <2>1. SUFFICES ASSUME NEW age \in e .. e + ep.length - 1
                 PROVE  /\ RecentIndex(ring', Capacity, age + 1) = RecentIndex(ring, Capacity, age)
                        /\ RecentIndex(ring, Capacity, age) \in Slots \ {ring.pos}
                        /\ age + 1 < ring'.count
    OBVIOUS
  <2>2. age \in 0 .. ring.count-1 /\ age < Capacity-1
    BY <1>1, <1>2, <1>3, <1>4
  <2>3. /\ RecentIndex(RingPush(ring, Capacity, pushed + 1), Capacity, age + 1) =
             RecentIndex(ring, Capacity, age)
        /\ RecentIndex(ring, Capacity, age) # ring.pos
        /\ RecentIndex(ring, Capacity, age) \in 0 .. Capacity-1
        /\ age + 1 < RingPush(ring, Capacity, pushed + 1).count
    BY <1>1, <2>2, PushAges
  <2>4. ring' = RingPush(ring, Capacity, pushed + 1)
    BY DEF PushSlices, Push, Store
  <2> QED BY <2>3, <2>4 DEF Slots
<1>6. /\ e \in e .. e + ep.length - 1
      /\ e + ep.length - 1 \in e .. e + ep.length - 1
      /\ (e + ep.length - 1) + 1 = (e + 1) + ep.length - 1
      /\ ring'.count \in Nat
  BY <1>1, PushRows
<1>7. /\ ep.start = RecentIndex(ring', Capacity, (e + 1) + ep.length - 1)
      /\ ep.start \in Slots \ {ring.pos}
  BY <1>3, <1>5, <1>6
<1>8. (e + 1) + ep.length <= ring'.count
  BY <1>1, <1>5, <1>6
<1>9. home'[ep.start] = home[ep.start]
  BY <1>7, PushRows
<1>10. ASSUME NEW age \in e + 1 .. (e + 1) + ep.length - 1
       PROVE  home'[RecentIndex(ring', Capacity, age)] = home'[ep.start]
  <2>1. age - 1 \in e .. e + ep.length - 1 /\ (age - 1) + 1 = age
    BY <1>1
  <2>2. /\ RecentIndex(ring', Capacity, age) = RecentIndex(ring, Capacity, age - 1)
        /\ RecentIndex(ring, Capacity, age - 1) \in Slots \ {ring.pos}
    BY <1>5, <2>1
  <2>3. home[RecentIndex(ring, Capacity, age - 1)] = home[ep.start]
    BY <1>3, <2>1
  <2> QED BY <1>9, <2>2, <2>3, PushRows
<1>11. ended'[RecentIndex(ring', Capacity, e + 1)] = ended[RecentIndex(ring, Capacity, e)]
  BY <1>5, <1>6, PushRows
<1> QED BY <1>7, <1>8, <1>9, <1>10, <1>11 DEF Span

(* The episode notify_push extends or begins, whether it then records it   *)
(* or not.                                                                 *)
Extended ==
  IF RoomMade.current.start = None
  THEN [start |-> ring.pos, length |-> 1]
  ELSE [RoomMade.current EXCEPT !.length = @ + 1]

LEMMA ExtendedSpans ==
  ASSUME EpisodeInv, NEW done \in BOOLEAN, PushSlices(done)
  PROVE  /\ Extended \in Episode
         /\ Span(ring', home', Extended, 0)
         /\ home'[Extended.start] = first
<1> DEFINE cur == RoomMade.current
<1>1. /\ Capacity \in Nat \ {0}
      /\ ring.pos \in Slots
      /\ ring'.count \in 1 .. Capacity
      /\ RecentIndex(ring', Capacity, 0) = ring.pos
      /\ home'[ring.pos] = first
  BY PushRows, RingAssumption
<1>2. /\ cur \in {tracker.current, NoEpisode}
      /\ ring.count = Capacity => cur.start # ring.pos
  BY RoomMadeLeaves
<1>3. tracker.current \in Episode \cup {NoEpisode}
  BY DEF EpisodeInv, TrackerOK
<1>4. CASE cur.start = None
  <2>1. Extended = [start |-> ring.pos, length |-> 1]
    BY <1>4 DEF Extended
  <2>2. Extended \in Episode /\ Extended.start = ring.pos /\ Extended.length = 1
    BY <1>1, <2>1 DEF Episode
  <2>3. \A age \in 0 .. 0 : age = 0
    OBVIOUS
  <2>4. Span(ring', home', Extended, 0)
    BY <1>1, <2>2, <2>3 DEF Span
  <2> QED BY <1>1, <2>2, <2>4
<1>5. CASE cur.start # None
  <2>1. cur = tracker.current /\ cur \in Episode /\ tracker.current # NoEpisode
    BY <1>2, <1>3, <1>5 DEF NoEpisode
  <2>2. Extended = [cur EXCEPT !.length = @ + 1]
    BY <1>5 DEF Extended
  <2>3. cur.start \in Slots /\ cur.length \in 1 .. Capacity
    BY <2>1 DEF Episode
  <2>4. Extended.start = cur.start /\ Extended.length = cur.length + 1
    BY <2>1, <2>2 DEF Episode
  <2>5. Span(ring, home, cur, 0) /\ home[cur.start] = first
    BY <2>1 DEF EpisodeInv, CurrentInv
  <2>6. Span(ring', home', cur, 0 + 1) /\ home'[cur.start] = home[cur.start]
    <3> HIDE DEF cur
    <3>1. 0 \in Nat
      OBVIOUS
    <3> QED BY <1>2, <2>1, <2>5, <3>1, SpanAges
  <2> HIDE DEF cur
  <2>7. /\ 1 + cur.length <= ring'.count
        /\ cur.start = RecentIndex(ring', Capacity, 1 + cur.length - 1)
        /\ \A age \in 1 .. 1 + cur.length - 1 :
             home'[RecentIndex(ring', Capacity, age)] = home'[cur.start]
    BY <2>6 DEF Span
  <2>8. Extended \in Episode
    <3>1. cur.length + 1 \in 1 .. Capacity
      BY <1>1, <2>3, <2>7
    <3>2. Extended = [start |-> cur.start, length |-> cur.length + 1]
      BY <2>1, <2>2 DEF Episode
    <3> QED BY <2>3, <3>1, <3>2 DEF Episode
  <2>9. /\ 0 + Extended.length <= ring'.count
        /\ Extended.start = RecentIndex(ring', Capacity, 0 + Extended.length - 1)
    <3>1. /\ 0 + (cur.length + 1) = 1 + cur.length
          /\ 0 + (cur.length + 1) - 1 = 1 + cur.length - 1
      BY <1>1, <2>3
    <3> QED BY <2>4, <2>7, <3>1
  <2>10. ASSUME NEW age \in 0 .. 0 + Extended.length - 1
         PROVE  home'[RecentIndex(ring', Capacity, age)] = home'[Extended.start]
    <3>1. CASE age = 0
      BY <1>1, <2>4, <2>5, <2>6, <3>1
    <3>2. CASE age # 0
      <4>1. age \in 1 .. 1 + cur.length - 1
        BY <1>1, <2>3, <2>4, <3>2
      <4> QED BY <2>4, <2>7, <4>1
    <3> QED BY <3>1, <3>2
  <2>11. Span(ring', home', Extended, 0)
    BY <2>9, <2>10 DEF Span
  <2> QED BY <2>4, <2>5, <2>6, <2>8, <2>11
<1> QED BY <1>4, <1>5

LEMMA PushEpisodeInv ==
  ASSUME EpisodeInv, NEW done \in BOOLEAN, PushSlices(done)
  PROVE  EpisodeInv'
<1>1. /\ tracker'.episodes = IF done THEN RoomMade.episodes \cup {Extended}
                                      ELSE RoomMade.episodes
      /\ tracker'.current = IF done THEN NoEpisode ELSE Extended
      /\ first' = IF done THEN pushed + 2 ELSE first
  BY RoomMadeTyped DEF PushSlices, Notified, Extended
<1>2. /\ RoomMade.episodes \subseteq tracker.episodes
      /\ ring.count = Capacity => \A ep \in RoomMade.episodes : ep.start # ring.pos
      /\ tracker.episodes \subseteq Episode
      /\ pushed \in Nat /\ first \in Nat
  BY RoomMadeLeaves DEF EpisodeInv, IInv, TypeOK, TrackerOK
<1>3. TrackerOK'
  <2>1. ended' \in [Slots -> BOOLEAN] /\ home' \in [Slots -> Nat]
    BY PushRows
  <2>2. tracker' \in [episodes : SUBSET Episode, current : Episode \cup {NoEpisode}]
    BY ExtendedSpans, RoomMadeTyped DEF PushSlices, Notified, Extended
  <2>3. first' \in Nat
    BY <1>1, <1>2
  <2> QED BY <2>1, <2>2, <2>3 DEF TrackerOK
<1>4. IInv'
  BY RingSteps, StepIInv DEF EpisodeInv, EpisodeNext
<1>5. ASSUME NEW ep \in tracker'.episodes
      PROVE  \E e \in Nat : Span(ring', home', ep, e) /\ ended'[RecentIndex(ring', Capacity, e)]
  <2>1. CASE ep \in RoomMade.episodes
    <3>1. PICK e \in Nat : Span(ring, home, ep, e) /\ ended[RecentIndex(ring, Capacity, e)]
      BY <1>2, <2>1 DEF EpisodeInv, EpisodesInv
    <3>2. /\ Span(ring', home', ep, e + 1)
          /\ ended'[RecentIndex(ring', Capacity, e + 1)] = ended[RecentIndex(ring, Capacity, e)]
      BY <1>2, <2>1, <3>1, SpanAges
    <3>3. e + 1 \in Nat
      OBVIOUS
    <3> QED BY <3>1, <3>2, <3>3
  <2>2. CASE done /\ ep = Extended
    <3>1. 0 \in Nat /\ ended'[RecentIndex(ring', Capacity, 0)]
      BY <2>2, PushRows
    <3> QED BY <2>2, <3>1, ExtendedSpans
  <2> QED BY <1>1, <2>1, <2>2
<1>6. EpisodesInv'
  BY <1>5 DEF EpisodesInv
<1>7. CurrentInv'
  <2>1. CASE done
    BY <1>1, <2>1 DEF CurrentInv
  <2>2. CASE ~done
    BY <1>1, <2>2, ExtendedSpans DEF CurrentInv
  <2> QED BY <2>1, <2>2
<1> QED BY <1>3, <1>4, <1>6, <1>7 DEF EpisodeInv
-----------------------------------------------------------------------------
LEMMA NextEpisodeInv == EpisodeInv /\ [EpisodeNext]_episodeVars => EpisodeInv'
<1> SUFFICES ASSUME EpisodeInv, [EpisodeNext]_episodeVars PROVE EpisodeInv'
  OBVIOUS
<1>1. ASSUME NEW done \in BOOLEAN, PushSlices(done) PROVE EpisodeInv'
  BY <1>1, PushEpisodeInv
<1>2. CASE PushRejected
  BY <1>2, RejectedEpisodeInv
<1>3. CASE UNCHANGED episodeVars
  <2>1. IInv'
    BY <1>3, StepIInv DEF episodeVars, EpisodeInv
  <2> QED BY <1>3, <2>1 DEF episodeVars, vars, EpisodeInv, TrackerOK, EpisodesInv, CurrentInv
<1> QED BY <1>1, <1>2, <1>3 DEF EpisodeNext

THEOREM EpisodeInvHolds == EpisodeSpec => []EpisodeInv
BY InitEpisodeInv, NextEpisodeInv, PTL DEF EpisodeSpec

(* Every variable stays in its range; no tracked episode is ever longer    *)
(* than the ring.                                                          *)
THEOREM TypeHolds == EpisodeSpec => [](TypeOK /\ TrackerOK)
<1>1. EpisodeInv => TypeOK /\ TrackerOK
  BY DEF EpisodeInv, IInv
<1> QED BY <1>1, EpisodeInvHolds, PTL

(* The ring inside an episode buffer is a ReplayRing: SequenceReplayBuffer *)
(* and HERBuffer change it by push_slices only, so that whatever holds of  *)
(* the ring holds of theirs.                                               *)
THEOREM RingInEpisodeBuffer == EpisodeSpec => Spec
<1>1. EpisodeInit => Init
  BY DEF EpisodeInit
<1> QED BY <1>1, RingSteps, PTL DEF EpisodeSpec, Spec

(* The rows of a recorded episode, by their offset from its start: live,   *)
(* consecutive, of one episode, and the last one ended it.                 *)
LEMMA RecordedRows ==
  ASSUME EpisodeInv, NEW ep \in tracker.episodes, NEW offset \in 0 .. ep.length-1
  PROVE  /\ At(ep.start, offset) \in Slots
         /\ home[At(ep.start, offset)] = home[ep.start]
         /\ ring.slots[At(ep.start, offset)] = ring.slots[ep.start] + offset
         /\ ring.slots[At(ep.start, offset)] \in pushed - ring.count + 1 .. pushed
         /\ ep.start \in Slots /\ ring.slots[ep.start] \in Int
         /\ \A k \in 0 .. ep.length - 1 - offset :
              At(At(ep.start, offset), k) = At(ep.start, offset + k)
         /\ ended[At(ep.start, ep.length - 1)]
<1>1. /\ Capacity \in Nat \ {0} /\ pushed \in Nat
      /\ WellFormed(ring, Capacity)
      /\ NewestFirst(ring, Capacity, pushed)
      /\ ep.length \in 1 .. Capacity /\ ep.start \in Slots
      /\ ring.count \in 0 .. Capacity
  BY RingAssumption, RingHolds DEF EpisodeInv, IInv, TypeOK, TrackerOK, RingInv, Episode, Ring
<1>2. PICK e \in Nat : Span(ring, home, ep, e) /\ ended[RecentIndex(ring, Capacity, e)]
  BY DEF EpisodeInv, EpisodesInv
<1>3. /\ e + ep.length <= ring.count
      /\ ep.start = RecentIndex(ring, Capacity, e + ep.length - 1)
      /\ \A age \in e .. e + ep.length - 1 :
           home[RecentIndex(ring, Capacity, age)] = home[ep.start]
  BY <1>2 DEF Span
<1> DEFINE oldest == e + ep.length - 1
<1>4. oldest \in 0 .. ring.count-1
  BY <1>1, <1>3
<1>5. \A k \in 0 .. oldest : At(ep.start, k) = RecentIndex(ring, Capacity, oldest - k)
  <2> HIDE DEF oldest
  <2>1. ep.start = RecentIndex(ring, Capacity, oldest)
    BY <1>3 DEF oldest
  <2> QED BY <1>1, <1>4, <2>1, AtNewer DEF At
<1>6. \A k \in 0 .. ep.length-1 : k \in 0 .. oldest /\ oldest - k \in e .. oldest
  BY <1>1
<1>7. \A age \in 0 .. ring.count-1 :
        /\ RecentIndex(ring, Capacity, age) \in Slots
        /\ ring.slots[RecentIndex(ring, Capacity, age)] = pushed - age
  <2>1. \A age \in 0 .. ring.count-1 : RecentIndex(ring, Capacity, age) \in 0 .. ring.count-1
    BY <1>1, RecentIndexIsLive DEF LiveIndices
  <2>2. 0 .. ring.count-1 \subseteq Slots
    BY <1>1 DEF Slots
  <2> QED BY <2>1, <2>2, <1>1 DEF NewestFirst, LiveIndices
<1>8. /\ At(ep.start, offset) = RecentIndex(ring, Capacity, oldest - offset)
      /\ oldest - offset \in e .. oldest
      /\ oldest - offset \in 0 .. ring.count-1
      /\ oldest - 0 = oldest /\ 0 \in 0 .. oldest
  BY <1>1, <1>4, <1>5, <1>6
<1>9. ring.slots[ep.start] = pushed - oldest
  BY <1>3, <1>4, <1>7
<1>10. /\ At(ep.start, offset) \in Slots
       /\ ring.slots[At(ep.start, offset)] = pushed - (oldest - offset)
  BY <1>7, <1>8
<1>11. /\ ring.slots[At(ep.start, offset)] = ring.slots[ep.start] + offset
       /\ ring.slots[At(ep.start, offset)] \in pushed - ring.count + 1 .. pushed
       /\ ring.slots[ep.start] \in Int
  BY <1>1, <1>4, <1>8, <1>9, <1>10
<1>12. home[At(ep.start, offset)] = home[ep.start]
  BY <1>3, <1>8
<1>13. ASSUME NEW k \in 0 .. ep.length - 1 - offset
       PROVE  At(At(ep.start, offset), k) = At(ep.start, offset + k)
  <2>1. /\ k \in 0 .. oldest - offset
        /\ offset + k \in 0 .. oldest
        /\ oldest - (offset + k) = (oldest - offset) - k
    BY <1>1
  <2>2. At(ep.start, offset + k) = RecentIndex(ring, Capacity, (oldest - offset) - k)
    BY <1>5, <2>1
  <2> DEFINE age == oldest - offset
  <2>3. age \in 0 .. ring.count-1 /\ k \in 0 .. age
    BY <1>8, <2>1
  <2> HIDE DEF age
  <2>4. (RecentIndex(ring, Capacity, age) + k) % Capacity = RecentIndex(ring, Capacity, age - k)
    BY <1>1, <2>3, AtNewer
  <2> QED BY <1>8, <2>2, <2>4 DEF At, age
<1>14. ended[At(ep.start, ep.length - 1)]
  <2>1. ep.length - 1 \in 0 .. oldest /\ oldest - (ep.length - 1) = e
    BY <1>1
  <2> QED BY <1>2, <1>5, <2>1
<1> QED BY <1>1, <1>10, <1>11, <1>12, <1>13, <1>14

(* Sampled sequences stay in one episode and never hold an overwritten or  *)
(* unwritten row, for every capacity.                                      *)
THEOREM SequencesStayInEpisodeHolds == EpisodeSpec => []SequencesStayInEpisode
<1>1. EpisodeInv => SequencesStayInEpisode
  <2> SUFFICES ASSUME EpisodeInv,
                      NEW seqLen \in 1 .. Capacity, NEW ep \in Eligible(seqLen),
                      NEW w \in WindowStarts(ep, seqLen), NEW k \in 0 .. seqLen-1
               PROVE  /\ ring.slots[At(w, k)] = ring.slots[w] + k
                      /\ ring.slots[w] > pushed - ring.count
                      /\ home[At(w, k)] = home[w]
    BY DEF SequencesStayInEpisode
  <2>1. /\ ep \in tracker.episodes /\ ep.length >= seqLen
        /\ ep.length \in 1 .. Capacity /\ Capacity \in Nat
        /\ pushed \in Nat /\ ring.count \in Nat
    BY RingAssumption DEF Eligible, EpisodeInv, IInv, TypeOK, TrackerOK, Episode, Ring
  <2>2. PICK offset \in 0 .. ep.length - seqLen : w = At(ep.start, offset)
    BY DEF WindowStarts
  <2>3. /\ offset \in 0 .. ep.length-1
        /\ offset + k \in 0 .. ep.length-1
        /\ k \in 0 .. ep.length - 1 - offset
    BY <2>1
  <2>4. /\ At(w, k) = At(ep.start, offset + k)
        /\ home[w] = home[ep.start]
        /\ ring.slots[w] = ring.slots[ep.start] + offset
        /\ ring.slots[w] \in pushed - ring.count + 1 .. pushed
        /\ ring.slots[ep.start] \in Int
    BY <2>1, <2>2, <2>3, RecordedRows
  <2>5. /\ home[At(w, k)] = home[ep.start]
        /\ ring.slots[At(w, k)] = ring.slots[ep.start] + (offset + k)
    BY <2>1, <2>3, <2>4, RecordedRows
  <2>6. ring.slots[At(w, k)] = ring.slots[w] + k
    BY <2>3, <2>4, <2>5
  <2>7. ring.slots[w] > pushed - ring.count
    BY <2>1, <2>4
  <2> QED BY <2>4, <2>5, <2>6, <2>7
<1> QED BY <1>1, EpisodeInvHolds, PTL

(* Every goal sample_with_relabeling may substitute was achieved in the    *)
(* same episode, at its end under Final and not before the transition      *)
(* under Future, for every capacity.                                       *)
THEOREM GoalsFromSameEpisodeHolds == EpisodeSpec => []GoalsFromSameEpisode
<1>1. EpisodeInv => GoalsFromSameEpisode
  <2> SUFFICES ASSUME EpisodeInv,
                      NEW ep \in tracker.episodes, NEW offset \in 0 .. ep.length-1,
                      NEW strategy \in Strategies, NEW g \in GoalOffsets(strategy, ep, offset)
               PROVE  /\ home[At(ep.start, g)] = home[At(ep.start, offset)]
                      /\ strategy = "Final" => ended[At(ep.start, g)]
                      /\ strategy = "Future" =>
                           \/ ring.slots[At(ep.start, g)] > ring.slots[At(ep.start, offset)]
                           \/ /\ At(ep.start, g) = At(ep.start, offset)
                              /\ ended[At(ep.start, offset)]
    BY DEF GoalsFromSameEpisode
  <2>1. ep.length \in 1 .. Capacity /\ Capacity \in Nat
    BY RingAssumption DEF EpisodeInv, TrackerOK, Episode
  <2>2. /\ strategy \in {"Final", "Future", "Episode"}
        /\ g \in 0 .. ep.length-1
        /\ strategy = "Final" => g = ep.length - 1
        /\ strategy = "Future" => g > offset \/ (g = offset /\ g = ep.length - 1)
    <3>1. CASE strategy = "Final"
      BY <2>1, <3>1 DEF GoalOffsets
    <3>2. CASE strategy = "Future"
      BY <2>1, <3>2 DEF GoalOffsets
    <3>3. CASE strategy = "Episode"
      BY <2>1, <3>3 DEF GoalOffsets
    <3> QED BY <3>1, <3>2, <3>3 DEF Strategies
  <2>3. /\ home[At(ep.start, offset)] = home[ep.start]
        /\ ring.slots[At(ep.start, offset)] = ring.slots[ep.start] + offset
        /\ ring.slots[ep.start] \in Int
        /\ ended[At(ep.start, ep.length - 1)]
    BY RecordedRows
  <2>4. /\ home[At(ep.start, g)] = home[ep.start]
        /\ ring.slots[At(ep.start, g)] = ring.slots[ep.start] + g
    BY <2>2, RecordedRows
  <2>5. g > offset => ring.slots[At(ep.start, g)] > ring.slots[At(ep.start, offset)]
    BY <2>1, <2>2, <2>3, <2>4
  <2> QED BY <2>2, <2>3, <2>4, <2>5
<1> QED BY <1>1, EpisodeInvHolds, PTL

-----------------------------------------------------------------------------
(* Nothing finished is forgotten.  An episode that begins with transition  *)
(* h is out of reach of the next push when h is stored and, in a full      *)
(* ring, is not the oldest; the tracker knows every such episode, the      *)
(* running one included.                                                   *)
OutOfReach(r, newest, h) ==
  /\ h > newest - r.count
  /\ r.count = Capacity => h # newest - Capacity + 1

(* The episode of the transitions from h to the one that is e rows old.    *)
Stretch(r, newest, h, e) ==
  [start |-> RecentIndex(r, Capacity, newest - h), length |-> newest - e - h + 1]

KeptInv ==
  \A e \in LiveIndices(ring) :
    LET h == home[RecentIndex(ring, Capacity, e)]
    IN  /\ h <= pushed - e
        /\ ended[RecentIndex(ring, Capacity, e)] /\ OutOfReach(ring, pushed, h)
             => Stretch(ring, pushed, h, e) \in tracker.episodes

RunningInv ==
  /\ first <= pushed + 1
  /\ first = pushed + 1 => tracker.current = NoEpisode
  /\ first <= pushed /\ OutOfReach(ring, pushed, first) => tracker.current = Stretch(ring, pushed, first, 0)

AllKept == EpisodeInv /\ KeptInv /\ RunningInv

(* Making room for one row in a full ring does not touch an episode that   *)
(* starts later than the oldest row: the converse of ClearOfWrite.         *)
LEMMA LaterIsClear ==
  ASSUME WellFormed(ring, Capacity), ring.count = Capacity,
         NEW o \in 0 .. Capacity-2, NEW length \in 1 .. o + 1
  PROVE  ~RangesOverlap(RecentIndex(ring, Capacity, o), length, ring.pos, 1)
<1>1. /\ Capacity \in Nat \ {0}
      /\ ring.pos \in 0 .. Capacity-1
  BY RingAssumption DEF WellFormed, Ring, FillsFromZero
<1> DEFINE start == RecentIndex(ring, Capacity, o)
<1>2. start = IF ring.pos > o THEN ring.pos - 1 - o ELSE Capacity - 1 - (o - ring.pos)
  BY DEF RecentIndex
<1>3. start \in 0 .. Capacity-1 /\ start # ring.pos
  BY <1>1, <1>2
<1>4. At(start, Capacity - ring.pos) \in Nat \ {0}
  <2> DEFINE x == start + (Capacity - ring.pos)
  <2> HIDE DEF start
  <2>1. x \in 0 .. 2*Capacity-1
    BY <1>1, <1>3
  <2>2. x # 0 /\ x # Capacity
    BY <1>1, <1>3
  <2> HIDE DEF x
  <2>3. x % Capacity = IF x < Capacity THEN x ELSE x - Capacity
    BY <1>1, <2>1, Wrap
  <2>4. x % Capacity \in Nat \ {0}
    BY <1>1, <2>1, <2>2, <2>3
  <2> QED BY <2>4 DEF At, x
<1>5. At(ring.pos, Capacity - start) = o + 1
  <2> DEFINE y == ring.pos + (Capacity - start)
  <2>1. y \in 0 .. 2*Capacity-1 /\ (y = o + 1 \/ y = o + 1 + Capacity)
    BY <1>1, <1>2
  <2> HIDE DEF y, start
  <2>2. y % Capacity = IF y < Capacity THEN y ELSE y - Capacity
    BY <1>1, <2>1, Wrap
  <2>3. y % Capacity = o + 1
    BY <1>1, <2>1, <2>2
  <2> QED BY <2>3 DEF At, y
<1> HIDE DEF start
<1>6. ~RangesOverlap(start, length, ring.pos, 1)
  BY <1>1, <1>4, <1>5 DEF RangesOverlap
<1> QED BY <1>6 DEF start

(* Where an episode out of reach lies, and that it survives making room.   *)
LEMMA StretchKept ==
  ASSUME EpisodeInv, NEW h \in Nat, NEW e \in LiveIndices(ring), h <= pushed - e,
         OutOfReach(ring, pushed, h)
  PROVE  /\ pushed - h \in e .. ring.count-1
         /\ ring.count = Capacity => pushed - h # Capacity - 1
         /\ Stretch(ring, pushed, h, e) \in tracker.episodes => Stretch(ring, pushed, h, e) \in RoomMade.episodes
         /\ tracker.current = Stretch(ring, pushed, h, e) => RoomMade.current = Stretch(ring, pushed, h, e)
<1>1. /\ Capacity \in Nat \ {0} /\ pushed \in Nat /\ ring.count \in 0 .. Capacity
      /\ WellFormed(ring, Capacity)
      /\ e \in 0 .. ring.count-1
  BY RingAssumption, RingHolds DEF EpisodeInv, IInv, TypeOK, RingInv, Ring, LiveIndices
<1>2. /\ pushed - h \in e .. ring.count-1
      /\ ring.count = Capacity => pushed - h # Capacity - 1
  BY <1>1 DEF OutOfReach
<1>3. CASE ring.count # Capacity
  BY <1>2, <1>3 DEF RoomMade
<1>4. CASE ring.count = Capacity
  <2> DEFINE o == pushed - h
             length == pushed - e - h + 1
  <2>1. o \in 0 .. Capacity-2 /\ length \in 1 .. o + 1
    BY <1>1, <1>2, <1>4
  <2>2. Stretch(ring, pushed, h, e) = [start |-> RecentIndex(ring, Capacity, o), length |-> length]
    BY DEF Stretch
  <2> HIDE DEF o, length
  <2>3. ~RangesOverlap(RecentIndex(ring, Capacity, o), length, ring.pos, 1)
    BY <1>1, <1>4, <2>1, LaterIsClear
  <2>4. ~RangesOverlap(Stretch(ring, pushed, h, e).start, Stretch(ring, pushed, h, e).length, ring.pos, 1)
    BY <2>2, <2>3
  <2>5. RoomMade = Invalidated(tracker, ring.pos, 1)
    BY <1>4 DEF RoomMade
  <2> QED BY <1>2, <2>4, <2>5 DEF Invalidated
<1> QED BY <1>3, <1>4

(* A push puts the episodes that are out of its reach one row further      *)
(* back; they were out of reach before.                                    *)
LEMMA StretchAges ==
  ASSUME EpisodeInv, NEW done \in BOOLEAN, PushSlices(done),
         NEW h \in Nat, NEW e \in LiveIndices(ring), h <= pushed - e,
         OutOfReach(ring', pushed', h)
  PROVE  /\ OutOfReach(ring, pushed, h)
         /\ Stretch(ring', pushed', h, e + 1) = Stretch(ring, pushed, h, e)
<1>1. /\ Capacity \in Nat \ {0} /\ pushed \in Nat /\ pushed + 1 \in Nat
      /\ ring.count \in 0 .. Capacity
      /\ WellFormed(ring, Capacity)
      /\ e \in 0 .. ring.count-1
  <2>1. IInv /\ RingInv
    BY RingHolds DEF EpisodeInv
  <2>2. ring \in Ring(Capacity) /\ pushed \in Nat
    BY <2>1 DEF IInv, TypeOK
  <2>3. ring.count \in 0 .. Capacity
    BY <2>2 DEF Ring
  <2>4. WellFormed(ring, Capacity)
    BY <2>1 DEF RingInv
  <2>5. e \in 0 .. ring.count-1
    BY DEF LiveIndices
  <2> QED BY <2>2, <2>3, <2>4, <2>5, RingAssumption
<1>2. ring' = RingPush(ring, Capacity, pushed + 1) /\ pushed' = pushed + 1
  BY DEF PushSlices, Push, Store
<1>3. ring'.count = IF ring.count < Capacity THEN ring.count + 1 ELSE Capacity
  BY <1>1, <1>2, PushCount
<1>4. /\ h > pushed + 1 - ring'.count
      /\ ring'.count = Capacity => h # pushed + 1 - Capacity + 1
  <2>1. h > pushed' - ring'.count /\ (ring'.count = Capacity => h # pushed' - Capacity + 1)
    BY DEF OutOfReach
  <2>2. pushed' = pushed + 1
    BY <1>2
  <2>3. ring'.count \in Nat
    BY <1>1, <1>3
  <2> QED BY <1>1, <2>1, <2>2, <2>3
<1>5. OutOfReach(ring, pushed, h)
  BY <1>1, <1>3, <1>4 DEF OutOfReach
<1> DEFINE o == pushed - h
<1>6. o \in 0 .. ring.count-1 /\ o < Capacity-1
  BY <1>1, <1>3, <1>4
<1>7. pushed' - h = o + 1 /\ pushed' - (e + 1) - h + 1 = pushed - e - h + 1
  BY <1>1, <1>2
<1>8. Stretch(ring, pushed, h, e) = [start |-> RecentIndex(ring, Capacity, o), length |-> pushed - e - h + 1]
  BY DEF Stretch
<1> HIDE DEF o
<1>9. RecentIndex(ring', Capacity, o + 1) = RecentIndex(ring, Capacity, o)
  BY <1>1, <1>2, <1>6, PushAges
<1>10. Stretch(ring', pushed', h, e + 1) =
         [start |-> RecentIndex(ring', Capacity, o + 1), length |-> pushed - e - h + 1]
  BY <1>7 DEF Stretch
<1> QED BY <1>5, <1>8, <1>9, <1>10

LEMMA RowsBefore ==
  ASSUME EpisodeInv, NEW done \in BOOLEAN, PushSlices(done), NEW e \in LiveIndices(ring'), e # 0
  PROVE  /\ e - 1 \in LiveIndices(ring)
         /\ RecentIndex(ring', Capacity, e) = RecentIndex(ring, Capacity, e - 1)
         /\ RecentIndex(ring, Capacity, e - 1) \in Slots \ {ring.pos}
         /\ home[RecentIndex(ring, Capacity, e - 1)] \in Nat
<1>1. /\ Capacity \in Nat \ {0} /\ pushed + 1 \in Nat
      /\ ring.count \in 0 .. Capacity
      /\ WellFormed(ring, Capacity)
      /\ home \in [Slots -> Nat]
  BY RingAssumption, RingHolds DEF EpisodeInv, IInv, TypeOK, TrackerOK, RingInv, Ring
<1>2. ring' = RingPush(ring, Capacity, pushed + 1)
  BY DEF PushSlices, Push, Store
<1>3. ring'.count = IF ring.count < Capacity THEN ring.count + 1 ELSE Capacity
  BY <1>1, <1>2, PushCount
<1>4. e \in 0 .. ring'.count-1
  BY DEF LiveIndices
<1> DEFINE o == e - 1
<1>5. o \in 0 .. ring.count-1 /\ o < Capacity-1 /\ o + 1 = e
  BY <1>1, <1>3, <1>4
<1> HIDE DEF o
<1>6. /\ RecentIndex(ring', Capacity, o + 1) = RecentIndex(ring, Capacity, o)
      /\ RecentIndex(ring, Capacity, o) # ring.pos
      /\ RecentIndex(ring, Capacity, o) \in Slots
  BY <1>1, <1>2, <1>5, PushAges DEF Slots
<1> QED BY <1>1, <1>5, <1>6 DEF o, LiveIndices

(* The episode being built is known in full as long as it is out of reach. *)
LEMMA ExtendedIsStretch ==
  ASSUME EpisodeInv, RunningInv, NEW done \in BOOLEAN, PushSlices(done),
         OutOfReach(ring', pushed', first)
  PROVE  Extended = Stretch(ring', pushed', first, 0)
<1>1. /\ Capacity \in Nat \ {0} /\ pushed \in Nat /\ first \in Nat
      /\ ring.count \in 0 .. Capacity
      /\ first <= pushed + 1
      /\ RecentIndex(ring', Capacity, 0) = ring.pos
      /\ pushed' = pushed + 1
  BY PushRows, RingAssumption DEF EpisodeInv, IInv, TypeOK, Ring, RunningInv, PushSlices, Push, Store
<1>2. CASE first = pushed + 1
  <2>1. RoomMade.current.start = None
    BY <1>2, RoomMadeLeaves DEF RunningInv, NoEpisode
  <2>2. pushed' - first = 0 /\ pushed' - 0 - first + 1 = 1
    BY <1>1, <1>2
  <2> QED BY <1>1, <2>1, <2>2 DEF Extended, Stretch
<1>3. CASE first <= pushed
  <2>1. 0 \in LiveIndices(ring)
    <3>1. CASE ring.count = 0
      <4>1. ring'.count = 1
        <5>1. /\ WellFormed(ring, Capacity)
              /\ ring' = RingPush(ring, Capacity, pushed + 1)
              /\ pushed + 1 \in Nat
          BY <1>1, RingHolds DEF RingInv, PushSlices, Push, Store
        <5>2. ring'.count = IF ring.count < Capacity THEN ring.count + 1 ELSE Capacity
          BY <1>1, <5>1, PushCount
        <5> QED BY <1>1, <3>1, <5>2
      <4>2. first > pushed' - ring'.count
        BY DEF OutOfReach
      <4> QED BY <1>1, <1>3, <4>1, <4>2
    <3>2. CASE ring.count # 0
      BY <1>1, <3>2 DEF LiveIndices
    <3> QED BY <3>1, <3>2
  <2>2. first <= pushed - 0
    BY <1>1, <1>3
  <2>3. /\ OutOfReach(ring, pushed, first)
        /\ Stretch(ring', pushed', first, 0 + 1) = Stretch(ring, pushed, first, 0)
    BY <1>1, <2>1, <2>2, StretchAges
  <2>4. tracker.current = Stretch(ring, pushed, first, 0)
    BY <1>3, <2>3 DEF RunningInv
  <2>5. RoomMade.current = Stretch(ring, pushed, first, 0)
    BY <1>1, <2>1, <2>2, <2>3, <2>4, StretchKept
  <2>6. RoomMade.current = [start |-> RecentIndex(ring', Capacity, pushed' - first),
                            length |-> pushed - first + 1]
    <3>1. pushed' - (0 + 1) - first + 1 = pushed - first + 1
      BY <1>1
    <3> QED BY <2>3, <2>5, <3>1 DEF Stretch
  <2>7. RoomMade.current.start # None
    <3>1. tracker.current \in Episode \cup {NoEpisode}
      BY DEF EpisodeInv, TrackerOK
    <3>2. RoomMade.current = tracker.current
      BY <2>4, <2>5
    <3>3. RoomMade.current.length # 0
      BY <1>1, <1>3, <2>6
    <3>4. tracker.current \in Episode
      BY <3>1, <3>2, <3>3 DEF NoEpisode
    <3> QED BY <3>2, <3>4, RingAssumption DEF Episode, Slots, None
  <2>8. Extended = [start |-> RecentIndex(ring', Capacity, pushed' - first),
                    length |-> (pushed - first + 1) + 1]
    BY <2>6, <2>7 DEF Extended
  <2>9. (pushed - first + 1) + 1 = pushed' - 0 - first + 1
    BY <1>1
  <2> QED BY <2>8, <2>9 DEF Stretch
<1> QED BY <1>1, <1>2, <1>3

LEMMA PushKept ==
  ASSUME AllKept, NEW done \in BOOLEAN, PushSlices(done)
  PROVE  KeptInv'
<1>1. /\ Capacity \in Nat \ {0} /\ pushed \in Nat /\ first \in Nat
      /\ ring.count \in 0 .. Capacity
      /\ first <= pushed + 1
      /\ pushed' = pushed + 1
      /\ EpisodeInv /\ RunningInv /\ KeptInv
  BY RingAssumption DEF AllKept, EpisodeInv, IInv, TypeOK, TrackerOK, Ring, RunningInv, PushSlices, Push, Store
<1>2. /\ RecentIndex(ring', Capacity, 0) = ring.pos
      /\ home'[ring.pos] = first /\ ended'[ring.pos] = done
      /\ \A i \in Slots \ {ring.pos} : home'[i] = home[i] /\ ended'[i] = ended[i]
  BY <1>1, PushRows
<1>3. /\ RoomMade.episodes \subseteq tracker'.episodes
      /\ done => Extended \in tracker'.episodes
  BY <1>1, RoomMadeTyped DEF PushSlices, Notified, Extended
<1>4. ASSUME NEW e \in LiveIndices(ring')
      PROVE  LET h == home'[RecentIndex(ring', Capacity, e)]
             IN  /\ h <= pushed' - e
                 /\ ended'[RecentIndex(ring', Capacity, e)] /\ OutOfReach(ring', pushed', h)
                      => Stretch(ring', pushed', h, e) \in tracker'.episodes
  <2>1. CASE e = 0
    <3>1. home'[RecentIndex(ring', Capacity, e)] = first
      BY <1>2, <2>1
    <3>2. ended'[RecentIndex(ring', Capacity, e)] = done
      BY <1>2, <2>1
    <3>3. first <= pushed' - e
      BY <1>1, <2>1
    <3>4. OutOfReach(ring', pushed', first) => Extended = Stretch(ring', pushed', first, e)
      BY <1>1, <2>1, ExtendedIsStretch
    <3> QED BY <1>3, <3>1, <3>2, <3>3, <3>4
  <2>2. CASE e # 0
    <3> DEFINE o == e - 1
               i == RecentIndex(ring, Capacity, o)
               h == home[i]
    <3>1. /\ o \in LiveIndices(ring)
          /\ RecentIndex(ring', Capacity, e) = i
          /\ i \in Slots \ {ring.pos}
          /\ h \in Nat
      BY <1>1, <2>2, RowsBefore
    <3>2. home'[i] = h /\ ended'[i] = ended[i]
      BY <1>2, <3>1
    <3>3. /\ h <= pushed - o
          /\ ended[i] /\ OutOfReach(ring, pushed, h)
               => Stretch(ring, pushed, h, o) \in tracker.episodes
      BY <1>1, <3>1 DEF KeptInv
    <3>4. o + 1 = e /\ pushed - o = pushed' - e
      BY <1>1 DEF LiveIndices
    <3> HIDE DEF o, i, h
    <3>5. OutOfReach(ring', pushed', h) =>
            /\ OutOfReach(ring, pushed, h)
            /\ Stretch(ring', pushed', h, o + 1) = Stretch(ring, pushed, h, o)
      BY <1>1, <3>1, <3>3, StretchAges
    <3>6. OutOfReach(ring, pushed, h) /\ Stretch(ring, pushed, h, o) \in tracker.episodes
            => Stretch(ring, pushed, h, o) \in RoomMade.episodes
      BY <1>1, <3>1, <3>3, StretchKept
    <3>7. ended'[i] /\ OutOfReach(ring', pushed', h)
            => Stretch(ring', pushed', h, e) \in tracker'.episodes
      BY <1>3, <3>2, <3>3, <3>4, <3>5, <3>6
    <3>8. h <= pushed' - e
      BY <3>3, <3>4
    <3> QED BY <3>1, <3>2, <3>7, <3>8
  <2> QED BY <2>1, <2>2
<1> QED BY <1>4 DEF KeptInv

LEMMA PushRunning ==
  ASSUME AllKept, NEW done \in BOOLEAN, PushSlices(done)
  PROVE  RunningInv'
<1>1. /\ pushed \in Nat /\ first \in Nat
      /\ first <= pushed + 1
      /\ pushed' = pushed + 1
      /\ first' = IF done THEN pushed + 2 ELSE first
      /\ EpisodeInv /\ RunningInv
  BY DEF AllKept, EpisodeInv, IInv, TypeOK, TrackerOK, RunningInv, PushSlices, Push, Store
<1>2. tracker'.current = IF done THEN NoEpisode ELSE Extended
  BY <1>1, RoomMadeTyped DEF PushSlices, Notified, Extended
<1>3. CASE done
  BY <1>1, <1>2, <1>3 DEF RunningInv
<1>4. CASE ~done
  <2>1. OutOfReach(ring', pushed', first) => Extended = Stretch(ring', pushed', first, 0)
    BY <1>1, ExtendedIsStretch
  <2>2. first' = first /\ first <= pushed' /\ first # pushed' + 1
    BY <1>1, <1>4
  <2> QED BY <1>1, <1>2, <1>4, <2>1, <2>2 DEF RunningInv
<1> QED BY <1>3, <1>4

(* A rejected push forgets only what the next push would overwrite.        *)
LEMMA RejectedKept ==
  ASSUME AllKept, PushRejected
  PROVE  KeptInv' /\ RunningInv'
<1>1. /\ Capacity \in Nat \ {0} /\ pushed \in Nat /\ first \in Nat
      /\ ring.count \in 0 .. Capacity
      /\ EpisodeInv /\ RunningInv /\ KeptInv
      /\ home \in [Slots -> Nat] /\ WellFormed(ring, Capacity)
  BY RingAssumption, RingHolds DEF AllKept, EpisodeInv, IInv, TypeOK, TrackerOK, Ring, RunningInv, RingInv
<1>2. /\ UNCHANGED <<ring, ended, pushed, home, first>>
      /\ tracker' = RoomMade
  BY DEF PushRejected, vars
<1>3. ASSUME NEW e \in LiveIndices(ring)
      PROVE  LET h == home[RecentIndex(ring, Capacity, e)]
             IN  /\ h <= pushed - e
                 /\ ended[RecentIndex(ring, Capacity, e)] /\ OutOfReach(ring, pushed, h)
                      => Stretch(ring, pushed, h, e) \in RoomMade.episodes
  <2> DEFINE h == home[RecentIndex(ring, Capacity, e)]
  <2>1. RecentIndex(ring, Capacity, e) \in Slots
    <3>1. RecentIndex(ring, Capacity, e) \in LiveIndices(ring)
      BY <1>1, RecentIndexIsLive
    <3> QED BY <1>1, <3>1 DEF LiveIndices, Slots
  <2>2. h \in Nat /\ h <= pushed - e
    BY <1>1, <2>1 DEF KeptInv
  <2>3. ended[RecentIndex(ring, Capacity, e)] /\ OutOfReach(ring, pushed, h)
          => Stretch(ring, pushed, h, e) \in tracker.episodes
    BY <1>1 DEF KeptInv
  <2> HIDE DEF h
  <2>4. OutOfReach(ring, pushed, h) /\ Stretch(ring, pushed, h, e) \in tracker.episodes
          => Stretch(ring, pushed, h, e) \in RoomMade.episodes
    BY <1>1, <2>2, StretchKept
  <2> QED BY <2>2, <2>3, <2>4 DEF h
<1>4. KeptInv'
  BY <1>2, <1>3 DEF KeptInv
<1>5. first = pushed + 1 => RoomMade.current = NoEpisode
  BY <1>1, RoomMadeLeaves DEF RunningInv
<1>6. ASSUME first <= pushed, OutOfReach(ring, pushed, first)
      PROVE  RoomMade.current = Stretch(ring, pushed, first, 0)
  <2>1. 0 \in LiveIndices(ring) /\ first <= pushed - 0
    BY <1>1, <1>6 DEF OutOfReach, LiveIndices
  <2>2. tracker.current = Stretch(ring, pushed, first, 0)
    BY <1>1, <1>6 DEF RunningInv
  <2> QED BY <1>1, <1>6, <2>1, <2>2, StretchKept
<1>7. RunningInv'
  BY <1>1, <1>2, <1>5, <1>6 DEF RunningInv
<1> QED BY <1>4, <1>7

LEMMA NextKept == AllKept /\ [EpisodeNext]_episodeVars => AllKept'
<1> SUFFICES ASSUME AllKept, [EpisodeNext]_episodeVars PROVE AllKept'
  OBVIOUS
<1>1. EpisodeInv'
  BY NextEpisodeInv DEF AllKept
<1>2. ASSUME NEW done \in BOOLEAN, PushSlices(done) PROVE KeptInv' /\ RunningInv'
  BY <1>2, PushKept, PushRunning
<1>3. CASE PushRejected
  BY <1>1, <1>3, RejectedKept DEF AllKept
<1>4. CASE UNCHANGED episodeVars
  BY <1>1, <1>4 DEF episodeVars, vars, AllKept, KeptInv, RunningInv
<1> QED BY <1>1, <1>2, <1>3, <1>4 DEF EpisodeNext, AllKept

(* The row k before a row of the ring, as At finds it.                     *)
LEMMA AtOlder ==
  ASSUME NEW cap \in Nat \ {0}, NEW x \in 0 .. cap-1, NEW k \in 0 .. cap-1
  PROVE  (((x + k) % cap) + (cap - k)) % cap = x
<1> DEFINE y == IF x + k < cap THEN x + k ELSE x + k - cap
           z == y + (cap - k)
<1>1. (x + k) % cap = y
  <2>1. PICK s \in 0 .. 2*cap-1 : s = x + k
    OBVIOUS
  <2>2. s % cap = IF s < cap THEN s ELSE s - cap
    BY Wrap
  <2> QED BY <2>1, <2>2
<1>2. z \in 0 .. 2*cap-1 /\ (z = x + cap \/ z = x)
  OBVIOUS
<1> HIDE DEF z
<1>3. z % cap = IF z < cap THEN z ELSE z - cap
  BY <1>2, Wrap
<1>4. z % cap = x
  BY <1>2, <1>3
<1> QED BY <1>1, <1>4 DEF z

(* Every live row is some number of rows old.                              *)
LEMMA LiveHasAge ==
  ASSUME NEW cap \in Nat \ {0}, NEW r, WellFormed(r, cap), NEW i \in LiveIndices(r)
  PROVE  \E e \in LiveIndices(r) : i = RecentIndex(r, cap, e)
<1>1. /\ r.pos \in 0 .. cap-1
      /\ r.count \in 0 .. cap
      /\ r.count < cap => r.pos = r.count
      /\ i \in 0 .. r.count-1
  BY DEF WellFormed, Ring, FillsFromZero, LiveIndices
<1>2. CASE i < r.pos
  <2>1. r.pos - 1 - i \in LiveIndices(r) /\ i = RecentIndex(r, cap, r.pos - 1 - i)
    BY <1>1, <1>2 DEF LiveIndices, RecentIndex
  <2> QED BY <2>1
<1>3. CASE i >= r.pos
  <2>1. /\ cap - 1 - i + r.pos \in LiveIndices(r)
        /\ i = RecentIndex(r, cap, cap - 1 - i + r.pos)
    BY <1>1, <1>3 DEF LiveIndices, RecentIndex
  <2> QED BY <2>1
<1> QED BY <1>1, <1>2, <1>3

(* A finished episode whose transitions are all stored stays available to  *)
(* sampling until the row about to be overwritten is its first one, for    *)
(* every capacity, however often a push is rejected after room was made    *)
(* for it.                                                                 *)
THEOREM FinishedEpisodesKeptHolds == EpisodeSpec => []FinishedEpisodesKept
<1>1. EpisodeInit => AllKept
  <2> SUFFICES ASSUME EpisodeInit PROVE KeptInv /\ RunningInv
    BY InitEpisodeInv DEF AllKept
  <2>1. ring.count = 0 /\ pushed = 0 /\ first = 1 /\ tracker.current = NoEpisode
    BY DEF EpisodeInit, Init, EmptyRing
  <2>2. LiveIndices(ring) = {}
    BY <2>1 DEF LiveIndices
  <2> QED BY <2>1, <2>2 DEF KeptInv, RunningInv
<1>2. AllKept => FinishedEpisodesKept
  <2> SUFFICES ASSUME AllKept, NEW last \in LiveIndices(ring), ended[last],
                      home[last] > pushed - ring.count,
                      ~(/\ ring.count = Capacity
                        /\ At(last, Capacity - (ring.slots[last] - home[last] + 1) + 1)
                             = ring.pos)
               PROVE  [start  |-> At(last, Capacity - (ring.slots[last] - home[last] + 1) + 1),
                       length |-> ring.slots[last] - home[last] + 1] \in tracker.episodes
    BY DEF FinishedEpisodesKept
  <2>1. /\ Capacity \in Nat \ {0} /\ pushed \in Nat /\ ring.count \in 0 .. Capacity
        /\ WellFormed(ring, Capacity) /\ NewestFirst(ring, Capacity, pushed)
        /\ home \in [Slots -> Nat] /\ KeptInv
        /\ ring.pos \in 0 .. Capacity-1 /\ last \in 0 .. ring.count-1 /\ last \in Slots
    <3>1. EpisodeInv /\ KeptInv /\ Capacity \in Nat \ {0}
      BY RingAssumption DEF AllKept
    <3>2. TypeOK /\ TrackerOK /\ RingInv
      BY <3>1, RingHolds DEF EpisodeInv, IInv
    <3>3. /\ ring \in Ring(Capacity) /\ ring.pos < Capacity
          /\ pushed \in Nat /\ home \in [Slots -> Nat]
      BY <3>2 DEF TypeOK, TrackerOK
    <3>4. ring.count \in 0 .. Capacity /\ ring.pos \in 0 .. Capacity-1
      BY <3>1, <3>3 DEF Ring
    <3>5. WellFormed(ring, Capacity) /\ NewestFirst(ring, Capacity, pushed)
      BY <3>2 DEF RingInv
    <3> QED BY <3>1, <3>3, <3>4, <3>5 DEF LiveIndices, Slots
  <2>2. PICK e \in LiveIndices(ring) : last = RecentIndex(ring, Capacity, e)
    BY <2>1, LiveHasAge
  <2>3. PICK h \in Nat : h = home[last]
    BY <2>1
  <2>4. /\ e \in 0 .. ring.count-1
        /\ ring.slots[last] = pushed - e
        /\ h <= pushed - e
        /\ OutOfReach(ring, pushed, h) => Stretch(ring, pushed, h, e) \in tracker.episodes
    BY <2>1, <2>2, <2>3 DEF LiveIndices, NewestFirst, KeptInv
  <2> DEFINE oldest == pushed - h
             k == oldest - e
             x == RecentIndex(ring, Capacity, oldest)
  <2>5. oldest \in 0 .. ring.count-1 /\ k \in 0 .. oldest /\ k \in 0 .. Capacity-1
    BY <2>1, <2>3, <2>4
  <2>6. oldest - k = e
    BY <2>1, <2>4
  <2>7. /\ ring.slots[last] - home[last] + 1 = k + 1
        /\ Capacity - (ring.slots[last] - home[last] + 1) + 1 = Capacity - k
    BY <2>1, <2>3, <2>4
  <2>8. Stretch(ring, pushed, h, e) = [start |-> x, length |-> k + 1]
    <3>1. pushed - e - h + 1 = k + 1
      BY <2>1, <2>4
    <3> QED BY <3>1 DEF Stretch
  <2>9. ring.count = Capacity /\ h = pushed - Capacity + 1 => x = ring.pos
    BY <2>1 DEF RecentIndex
  <2>10. x \in 0 .. Capacity-1
    BY <2>1, <2>5 DEF RecentIndex
  <2> HIDE DEF oldest, k
  <2>11. (x + k) % Capacity = last
    BY <2>1, <2>2, <2>5, <2>6, AtNewer
  <2> HIDE DEF x
  <2>12. At(last, Capacity - k) = x
    BY <2>1, <2>5, <2>10, <2>11, AtOlder DEF At
  <2>13. OutOfReach(ring, pushed, h)
    BY <2>3, <2>7, <2>9, <2>12 DEF OutOfReach
  <2> QED BY <2>4, <2>7, <2>8, <2>12, <2>13
<1> QED BY <1>1, <1>2, NextKept, PTL DEF EpisodeSpec
=============================================================================
