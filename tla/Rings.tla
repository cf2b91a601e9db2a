------------------------------- MODULE Rings -------------------------------
(***************************************************************************)
(* The circular storage every replay buffer of rlox-core is built on       *)
(* (crates/rlox-core/src/buffer/ringbuf.rs), as operators on a record.     *)
(*                                                                         *)
(* A transition is identified by its arrival number 1, 2, 3, ...; the      *)
(* number 0 stands for a pre-allocated row of zeros that was never         *)
(* written.  The parallel columns of the code (observations, actions,      *)
(* rewards, flags) are always written and read together, at one index, so  *)
(* one array of arrival numbers stands for all of them.                    *)
(***************************************************************************)
EXTENDS Integers

Ring(cap) == [slots : [0 .. cap-1 -> Nat], pos : 0 .. cap, count : 0 .. cap]

Unwritten(cap) == [i \in 0 .. cap-1 |-> 0]

EmptyRing(cap) == [slots |-> Unwritten(cap), pos |-> 0, count |-> 0]

(* Mutated form of RingPush: the write position stays on the last row      *)
(* instead of returning to row 0.                                          *)
RingPushStuck(ring, cap, r) ==
  [slots |-> [ring.slots EXCEPT ![ring.pos] = r],
   pos   |-> IF ring.pos + 1 < cap THEN ring.pos + 1 ELSE ring.pos,
   count |-> IF ring.count < cap THEN ring.count + 1 ELSE ring.count]

(* push_slices: write at write_pos, advance modulo the capacity, saturate  *)
(* the count.                                                              *)
RingPush(ring, cap, r) ==
  [slots |-> [ring.slots EXCEPT ![ring.pos] = r],
   pos   |-> (ring.pos + 1) % cap,
   count |-> IF ring.count < cap THEN ring.count + 1 ELSE ring.count]

(* Mutated form of RecentIndex: the wrapped branch forgets write_pos.       *)
RecentIndexForgetsPos(ring, cap, offset) ==
  IF ring.pos > offset THEN ring.pos - 1 - offset ELSE cap - 1 - offset

(* The index sample_recent computes for an offset back from the newest     *)
(* row.                                                                    *)
RecentIndex(ring, cap, offset) ==
  IF ring.pos > offset
  THEN ring.pos - 1 - offset
  ELSE cap - 1 - (offset - ring.pos)

(* The rows that sample and get may touch: the index is drawn below count. *)
LiveIndices(ring) == 0 .. ring.count - 1

RowsAt(ring, indices) == {ring.slots[i] : i \in indices}

LiveRows(ring) == RowsAt(ring, LiveIndices(ring))

(***************************************************************************)
(* What the index arithmetic has to achieve: counting back from the newest *)
(* row visits the stored transitions in arrival order, newest first, with  *)
(* none missing and none repeated.                                         *)
(***************************************************************************)
NewestFirst(ring, cap, newest) ==
  \A offset \in LiveIndices(ring) :
     ring.slots[RecentIndex(ring, cap, offset)] = newest - offset

(* Before the ring is full its rows lie in 0 .. count-1, in order.         *)
FillsFromZero(ring, cap) ==
  /\ ring.count < cap => ring.pos = ring.count
  /\ ring.count = cap => ring.pos < cap \/ cap = 0
=============================================================================
