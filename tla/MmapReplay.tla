----------------------------- MODULE MmapReplay -----------------------------
(***************************************************************************)
(* MmapReplayBuffer (crates/rlox-core/src/buffer/mmap.rs): a ring in       *)
(* memory (hot) that spills its oldest row to a ring in a memory-mapped    *)
(* file (cold), read back through a second, read-only map.                 *)
(*                                                                         *)
(* The read map is only promised to show what was flushed when it was      *)
(* made, so it is a snapshot here.  Calls that fail their shape or size    *)
(* check change nothing and are stuttering steps; the calls of the         *)
(* operating system may fail wherever the code handles their error, in the *)
(* middle of close too, which then leaves rows counted that no file holds. *)
(***************************************************************************)
EXTENDS Rings, FiniteSets

CONSTANTS HotCapacity,    \* rows kept in memory
          TotalCapacity,  \* rows kept in all
          MaxPushed,      \* bound: transitions accepted in a behaviour
          MaxBatch        \* bound: rows of one push_batch call

(* What new() demands of its arguments.                                    *)
ASSUME MmapAssumption ==
  /\ HotCapacity \in Nat \ {0}
  /\ TotalCapacity \in Nat /\ TotalCapacity >= HotCapacity
  /\ MaxPushed \in Nat
  /\ MaxBatch \in Nat

VARIABLES
  hot,        \* the ring in memory
  cold,       \* the ring in the file: its bytes, cold_write_pos, cold_count
  fileOpen,   \* cold_file and cold_mmap_mut are Some
  view,       \* the read map: the rows it shows, or NoView
  stale,      \* mmap_stale
  pushed,     \* arrival number of the newest transition (history)
  todo,       \* rows a running push_batch still has to write
  batch,      \* the rows of the last sample, {} once the buffer changes
  lost        \* the newest transition a failed close has lost (history)

vars == <<hot, cold, fileOpen, view, stale, pushed, todo, batch, lost>>

ColdCapacity == TotalCapacity - HotCapacity

NoView == <<>>

Stored == hot.count + cold.count

Init ==
  /\ hot = EmptyRing(HotCapacity)
  /\ cold = EmptyRing(ColdCapacity)
  /\ fileOpen = FALSE
  /\ view = NoView
  /\ stale = FALSE
  /\ pushed = 0
  /\ todo = 0
  /\ batch = {}
  /\ lost = 0

HotFull == hot.count = HotCapacity

(* ensure_cold_file opens with truncate(true): a file that is not open     *)
(* starts as zeros, whatever cold_count says.                              *)
OpenedCold == IF fileOpen THEN cold ELSE [cold EXCEPT !.slots = Unwritten(ColdCapacity)]

(* Mutated form of OldestHot: the newest row instead of the oldest.        *)
NewestHot == hot.slots[RecentIndex(hot, HotCapacity, 0)]

(* read_oldest_hot_record: the row at write_pos, about to be overwritten.  *)
OldestHot == hot.slots[hot.pos]

(* Mutated form of Spill: the read map is left as it is.                   *)
SpillKeepsView ==
  /\ ColdCapacity > 0
  /\ cold' = RingPush(OpenedCold, ColdCapacity, OldestHot)
  /\ fileOpen' = TRUE
  /\ UNCHANGED stale

(* write_to_cold, when the file has room for a row.                        *)
Spill ==
  /\ ColdCapacity > 0
  /\ cold' = RingPush(OpenedCold, ColdCapacity, OldestHot)
  /\ fileOpen' = TRUE
  /\ stale' = TRUE

(* The body of push: spill when the memory ring is full, then store.       *)
Store ==
  /\ pushed < MaxPushed
  /\ \/ HotFull /\ Spill
     \/ ~HotFull /\ UNCHANGED <<cold, fileOpen, stale>>
  /\ hot' = RingPush(hot, HotCapacity, pushed + 1)
  /\ pushed' = pushed + 1
  /\ batch' = {}
  /\ UNCHANGED <<view, lost>>

Push ==
  /\ todo = 0
  /\ Store
  /\ UNCHANGED todo

(* push_batch checks every shape, then calls push row by row; the rows     *)
(* stored before an error stay.                                            *)
BeginBatch(n) ==
  /\ todo = 0
  /\ n <= MaxPushed - pushed
  /\ todo' = n
  /\ UNCHANGED <<hot, cold, fileOpen, view, stale, pushed, batch, lost>>

BatchRow ==
  /\ todo > 0
  /\ Store
  /\ todo' = todo - 1

(* ensure_cold_file cannot create, size or map the file: push returns the  *)
(* error before anything is stored, and ends a push_batch.  So does a file *)
(* without room for a row (total_capacity = hot_capacity), where slicing   *)
(* the map panics after the file was opened.                               *)
SpillFails ==
  /\ HotFull
  /\ ~fileOpen \/ ColdCapacity = 0
  /\ fileOpen' \in {fileOpen, fileOpen \/ ColdCapacity = 0}
  /\ todo' = 0
  /\ UNCHANGED <<hot, cold, view, stale, pushed, batch, lost>>

NeedsRefresh == stale \/ view = NoView

(* Mutated form of SeenCold: the old read map is used once it exists.      *)
SeenColdOld == IF view = NoView THEN cold.slots ELSE view

(* What the read map shows after refresh_read_mmap.                        *)
SeenCold == IF NeedsRefresh THEN cold.slots ELSE view

(* Row idx of sample: below cold_count in the file, above it in memory.    *)
RowAt(idx) == IF idx < cold.count THEN SeenCold[idx] ELSE hot.slots[idx - cold.count]

Sample ==
  /\ todo = 0
  /\ cold.count > 0 /\ NeedsRefresh => fileOpen      \* or the expect() panics
  /\ \E drawn \in SUBSET (0 .. Stored - 1) : batch' = {RowAt(i) : i \in drawn}
  /\ IF cold.count > 0
     THEN view' = SeenCold /\ stale' = FALSE
     ELSE UNCHANGED <<view, stale>>
  /\ UNCHANGED <<hot, cold, fileOpen, pushed, todo, lost>>

(* The new read map cannot be made after the old one was dropped: sample   *)
(* returns the error, or panics when there is no file to map.              *)
RefreshFails ==
  /\ todo = 0
  /\ cold.count > 0 /\ NeedsRefresh
  /\ view' = NoView
  /\ batch' = {}
  /\ UNCHANGED <<hot, cold, fileOpen, stale, pushed, todo, lost>>

(* close drops the maps and the file handle, deletes the file and then     *)
(* resets the counters; the rows in memory and mmap_stale stay.            *)
Close ==
  /\ todo = 0
  /\ cold' = EmptyRing(ColdCapacity)
  /\ fileOpen' = FALSE
  /\ view' = NoView
  /\ batch' = {}
  /\ UNCHANGED <<hot, stale, pushed, todo, lost>>

(* remove_file fails: close returns with the maps and the handle dropped   *)
(* and the rows of the file still counted.                                 *)
CloseFails ==
  /\ todo = 0
  /\ fileOpen' = FALSE
  /\ view' = NoView
  /\ batch' = {}
  /\ lost' = pushed - hot.count
  /\ UNCHANGED <<hot, cold, stale, pushed, todo>>

Next ==
  \/ Push
  \/ \E n \in 1 .. MaxBatch : BeginBatch(n)
  \/ BatchRow
  \/ SpillFails
  \/ Sample
  \/ RefreshFails
  \/ Close
  \/ CloseFails

Spec == Init /\ [][Next]_vars

-----------------------------------------------------------------------------
(* Every variable stays in its range.                                      *)
TypeOK ==
  /\ hot \in Ring(HotCapacity)
  /\ cold \in Ring(ColdCapacity)
  /\ fileOpen \in BOOLEAN
  /\ view = NoView \/ view \in [0 .. ColdCapacity-1 -> Nat]
  /\ stale \in BOOLEAN
  /\ pushed \in Nat
  /\ todo \in Nat
  /\ batch \subseteq Nat
  /\ lost \in Nat

(* What the file shows for transition r: a row that a failed close lost is *)
(* counted and reads as zeros.                                             *)
Kept(r) == IF r > lost THEN r ELSE 0

(* The rows of the file, newest first, end at transition newest.           *)
ColdEndsAt(newest) ==
  \A offset \in LiveIndices(cold) :
     OpenedCold.slots[RecentIndex(cold, ColdCapacity, offset)] = Kept(newest - offset)

(* The two rings chain: memory holds the newest transitions in order and   *)
(* the file the ones just before them, so no transition is lost, doubled   *)
(* or reordered on the way from memory to the file (push, write_to_cold);  *)
(* a close that fails costs rows that were in the file, no other.          *)
ColdContinuesHot ==
  /\ FillsFromZero(hot, HotCapacity)
  /\ NewestFirst(hot, HotCapacity, pushed)
  /\ FillsFromZero(cold, ColdCapacity)
  /\ ColdEndsAt(pushed - hot.count)
  /\ hot.count < HotCapacity => pushed = hot.count /\ cold.count = 0
  /\ hot.count + cold.count <= pushed
  /\ lost <= pushed - hot.count

(* The read map shows the current rows of the file unless it is marked     *)
(* stale: a refresh that is skipped never returns an evicted row.          *)
ViewIsCurrent == cold.count > 0 /\ ~NeedsRefresh => fileOpen /\ view = cold.slots

(* The expect("cold_file must be open") of refresh_read_mmap holds when    *)
(* sample reaches it, but for one case: a close has failed and no row has  *)
(* been spilled since.                                                     *)
FileOpenForRefresh == cold.count > 0 => fileOpen \/ lost = pushed - hot.count

(* The rows that stand for no transition: once a close has failed, zeros.  *)
Blank == IF lost > 0 THEN {0} ELSE {}

(* Memory and file together implement the sliding window of the newest     *)
(* TotalCapacity transitions; only close, done or failed, gives any of it  *)
(* up, and a batch holds only transitions of the window, and zeros after a *)
(* close that failed.                                                      *)
Window == INSTANCE SlidingWindow
            WITH N <- TotalCapacity, MayForget <- TRUE,
                 window <- (LiveRows(hot) \union LiveRows(OpenedCold)) \ Blank,
                 batch <- batch \ Blank

RefinesWindow == Window!Spec
=============================================================================
