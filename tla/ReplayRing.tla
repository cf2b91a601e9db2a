----------------------------- MODULE ReplayRing -----------------------------
(***************************************************************************)
(* ReplayBuffer (crates/rlox-core/src/buffer/ringbuf.rs) with its extra    *)
(* columns (extra_columns.rs).  ConcurrentReplayBuffer (concurrent.rs)     *)
(* holds its mutex for a whole call, so its behaviours are these too.      *)
(*                                                                         *)
(* A call that fails its shape or size check changes nothing and is a      *)
(* stuttering step here.                                                   *)
(***************************************************************************)
EXTENDS Rings, FiniteSets

CONSTANTS Capacity,    \* rows of the ring
          MaxPushed,   \* bound: transitions accepted in a behaviour
          MaxBatch     \* bound: rows of one push_batch call

ASSUME RingAssumption ==
  /\ Capacity \in Nat \ {0}
  /\ MaxPushed \in Nat
  /\ MaxBatch \in Nat

VARIABLES
  ring,      \* slots, write_pos and count
  extra,     \* one extra column: the transition whose value a row holds
  pushed,    \* arrival number of the newest transition (history)
  todo,      \* rows a running push_batch still has to write
  asked,     \* the window of the last sample call
  batch      \* the transitions it returned, {} once the buffer changes

vars == <<ring, extra, pushed, todo, asked, batch>>

Init ==
  /\ ring = EmptyRing(Capacity)
  /\ extra = Unwritten(Capacity)
  /\ pushed = 0
  /\ todo = 0
  /\ asked = 0
  /\ batch = {}

Store ==
  /\ pushed < MaxPushed
  /\ ring' = RingPush(ring, Capacity, pushed + 1)
  /\ pushed' = pushed + 1
  /\ asked' = 0
  /\ batch' = {}
  /\ UNCHANGED extra

Push ==
  /\ todo = 0
  /\ Store
  /\ UNCHANGED todo

(* push_batch checks every shape before its loop of push_slices; the       *)
(* caller holds the buffer until the loop ends, so nothing else runs       *)
(* while todo > 0.                                                         *)
BeginBatch(n) ==
  /\ todo = 0
  /\ n <= MaxPushed - pushed
  /\ todo' = n
  /\ UNCHANGED <<ring, extra, pushed, asked, batch>>

BatchRow ==
  /\ todo > 0
  /\ Store
  /\ todo' = todo - 1

(* Mutated form of NewestIndex: the row about to be overwritten.            *)
NextIndex == ring.pos

(* push_extra writes the row just behind write_pos.                        *)
NewestIndex == IF ring.pos = 0 THEN Capacity - 1 ELSE ring.pos - 1

PushExtra ==
  /\ todo = 0
  /\ ring.count > 0
  /\ extra' = [extra EXCEPT ![NewestIndex] = pushed]
  /\ UNCHANGED <<ring, pushed, todo, asked, batch>>

(* sample and sample_into: any rows below count, drawn with replacement.   *)
Sample ==
  /\ todo = 0
  /\ \E drawn \in SUBSET LiveIndices(ring) : batch' = RowsAt(ring, drawn)
  /\ asked' = Capacity
  /\ UNCHANGED <<ring, extra, pushed, todo>>

EffectiveWindow(w) == IF w < ring.count THEN w ELSE ring.count

SampleRecent(w) ==
  /\ todo = 0
  /\ \E offsets \in SUBSET (0 .. EffectiveWindow(w) - 1) :
        batch' = RowsAt(ring, {RecentIndex(ring, Capacity, o) : o \in offsets})
  /\ asked' = w
  /\ UNCHANGED <<ring, extra, pushed, todo>>

Next ==
  \/ Push
  \/ \E n \in 1 .. MaxBatch : BeginBatch(n)
  \/ BatchRow
  \/ PushExtra
  \/ Sample
  \/ \E w \in 0 .. Capacity : SampleRecent(w)

Spec == Init /\ [][Next]_vars
-----------------------------------------------------------------------------
(* Every variable stays in its range; the write position is an index.      *)
TypeOK ==
  /\ ring \in Ring(Capacity)
  /\ ring.pos < Capacity
  /\ extra \in [0 .. Capacity-1 -> Nat]
  /\ pushed \in Nat
  /\ todo \in Nat
  /\ asked \in 0 .. Capacity
  /\ batch \subseteq Nat

(* Counting back from write_pos visits exactly the newest transitions in   *)
(* order, across any number of wrap-arounds (push_slices against           *)
(* sample_recent), and the ring holds all of them until it is full.        *)
RecencyOrder ==
  /\ FillsFromZero(ring, Capacity)
  /\ NewestFirst(ring, Capacity, pushed)
  /\ ring.count = IF pushed < Capacity THEN pushed ELSE Capacity

(* sample_recent(w) never returns a transition older than the newest w,    *)
(* wherever the write position is.                                         *)
RecentOnly == \A r \in batch : r \in pushed - asked + 1 .. pushed

(* push_extra changes only the row of the newest transition: no other      *)
(* live transition loses or changes its extra values.                      *)
ExtraGoesToNewest ==
  [][\A i \in 0 .. Capacity-1 :
       extra'[i] # extra[i] => ring.slots[i] = pushed /\ extra'[i] = pushed]_vars

(* The ring implements the sliding window of the newest Capacity           *)
(* transitions: a push gives up the oldest one and only when it must, and  *)
(* a batch holds only stored transitions.                                  *)
Window == INSTANCE SlidingWindow
            WITH N <- Capacity, MayForget <- FALSE, window <- LiveRows(ring)

RefinesWindow == Window!Spec
=============================================================================
