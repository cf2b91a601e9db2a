--------------------------- MODULE EpisodeBuffer ---------------------------
(***************************************************************************)
(* EpisodeTracker (crates/rlox-core/src/buffer/episode.rs) over a replay   *)
(* ring, as SequenceReplayBuffer (sequence.rs) and HERBuffer (her.rs) use  *)
(* it.  Both own a ring and a tracker and have the same push_slices; they  *)
(* differ in what they draw: windows of consecutive transitions, or one    *)
(* transition with the goal another transition of its episode achieved.    *)
(* The ring is ReplayRing's, and their only way to change it is its Push.  *)
(*                                                                         *)
(* The tracker knows ring positions only.  What it should know, to which   *)
(* episode a stored transition belongs, is kept here in the history        *)
(* variables home and first.  The list of recorded episodes is a set: its  *)
(* order decides nothing but the index a random draw picks.                *)
(***************************************************************************)
EXTENDS ReplayRing

VARIABLES
  ended,     \* the columns terminated and truncated: did the row end its episode
  tracker,   \* recorded complete episodes and the one being built
  home,      \* arrival number of the first transition of a row's episode (history)
  first      \* the same for the next transition to arrive (history)

episodeVars == <<vars, ended, tracker, home, first>>

Slots == 0 .. Capacity-1
At(start, offset) == (start + offset) % Capacity

None == -1
NoEpisode == [start |-> None, length |-> 0]

EpisodeInit ==
  /\ Init
  /\ ended = [i \in Slots |-> FALSE]
  /\ tracker = [episodes |-> {}, current |-> NoEpisode]
  /\ home = Unwritten(Capacity)
  /\ first = 1
-----------------------------------------------------------------------------
(* Mutated form of RangesOverlap: a range also covers the row behind its   *)
(* end.                                                                    *)
RangesTouch(aStart, aLen, bStart, bLen) ==
  /\ aLen # 0 /\ bLen # 0
  /\ \/ At(aStart, Capacity - bStart) <= bLen
     \/ At(bStart, Capacity - aStart) <= aLen

(* ring_range_overlaps: the start of one range lies in the other.          *)
RangesOverlap(aStart, aLen, bStart, bLen) ==
  /\ aLen # 0 /\ bLen # 0
  /\ \/ At(aStart, Capacity - bStart) < bLen
     \/ At(bStart, Capacity - aStart) < aLen

(* Mutated form of Invalidated: nothing is dropped.                        *)
NothingInvalidated(t, pos, n) == t

(* invalidate_overwritten: drop every recorded episode with a row in the   *)
(* region, and forget the running one when it reaches into it.             *)
Invalidated(t, pos, n) ==
  [episodes |-> {ep \in t.episodes : ~RangesOverlap(ep.start, ep.length, pos, n)},
   current  |-> IF /\ t.current.start # None
                   /\ RangesOverlap(t.current.start, t.current.length, pos, n)
                THEN NoEpisode ELSE t.current]

(* notify_push: the row at pos extends the running episode or starts one;  *)
(* done records it.                                                        *)
Notified(t, pos, done) ==
  LET extended == IF t.current.start = None
                  THEN [start |-> pos, length |-> 1]
                  ELSE [t.current EXCEPT !.length = @ + 1]
  IN  IF done
      THEN [episodes |-> t.episodes \cup {extended}, current |-> NoEpisode]
      ELSE [t EXCEPT !.current = extended]

(* push_slices of both buffers first makes room: only a full ring          *)
(* overwrites, and only the row at write_pos.                              *)
RoomMade ==
  IF ring.count = Capacity THEN Invalidated(tracker, ring.pos, 1) ELSE tracker

PushSlices(done) ==
  /\ Push
  /\ tracker' = Notified(RoomMade, ring.pos, done)
  /\ ended' = [ended EXCEPT ![ring.pos] = done]
  /\ home' = [home EXCEPT ![ring.pos] = first]
  /\ first' = IF done THEN pushed + 2 ELSE first

(* The ring rejects a transition of the wrong shape after room was made    *)
(* for it: the tracker has changed, the ring has not.  A transition that   *)
(* was never stored belongs to no episode.                                 *)
PushRejected ==
  /\ tracker' = RoomMade
  /\ UNCHANGED <<vars, ended, home, first>>

EpisodeNext == (\E done \in BOOLEAN : PushSlices(done)) \/ PushRejected

EpisodeSpec == EpisodeInit /\ [][EpisodeNext]_episodeVars
-----------------------------------------------------------------------------
(* eligible_episodes and sample_windows: any offset that leaves seqLen     *)
(* transitions of a long enough episode.                                   *)
Eligible(seqLen) == {ep \in tracker.episodes : ep.length >= seqLen}

WindowStarts(ep, seqLen) ==
  {At(ep.start, offset) : offset \in 0 .. ep.length - seqLen}

(* Mutated form of GoalOffsets: Future draws up to and including length.    *)
GoalOffsetsPastEnd(strategy, ep, offset) ==
  CASE strategy = "Final"   -> {ep.length - 1}
    [] strategy = "Future"  -> IF offset >= ep.length - 1 THEN {offset}
                               ELSE offset + 1 .. ep.length
    [] strategy = "Episode" -> 0 .. ep.length - 1

(* The transitions sample_with_relabeling may take the new goal from, for  *)
(* the transition at an offset of an episode.                              *)
GoalOffsets(strategy, ep, offset) ==
  CASE strategy = "Final"   -> {ep.length - 1}
    [] strategy = "Future"  -> IF offset >= ep.length - 1 THEN {offset}
                               ELSE offset + 1 .. ep.length - 1
    [] strategy = "Episode" -> 0 .. ep.length - 1

Strategies == {"Final", "Future", "Episode"}
-----------------------------------------------------------------------------
(* The variables added to the ring's stay in their range; in particular no *)
(* recorded or running episode is longer than the ring, however long the   *)
(* real one is (invalidate_overwritten restarts the running one).          *)
Episode == [start : Slots, length : 1 .. Capacity]

TrackerOK ==
  /\ ended \in [Slots -> BOOLEAN]
  /\ tracker \in [episodes : SUBSET Episode, current : Episode \cup {NoEpisode}]
  /\ home \in [Slots -> Nat]
  /\ first \in Nat

(* A sampled sequence is a run of consecutive stored transitions of one    *)
(* episode, whatever was overwritten or rejected before ("Sequences never  *)
(* cross episode boundaries", sequence.rs).                                *)
SequencesStayInEpisode ==
  \A seqLen \in 1 .. Capacity : \A ep \in Eligible(seqLen) :
    \A w \in WindowStarts(ep, seqLen) : \A k \in 0 .. seqLen-1 :
      /\ ring.slots[At(w, k)] = ring.slots[w] + k
      /\ ring.slots[w] > pushed - ring.count
      /\ home[At(w, k)] = home[w]

(* A relabelled goal was achieved in the same episode: by its last         *)
(* transition under Final, and never before the transition it is given to  *)
(* under Future (sample_with_relabeling against invalidate_overwritten).   *)
GoalsFromSameEpisode ==
  \A ep \in tracker.episodes : \A offset \in 0 .. ep.length-1 :
    \A strategy \in Strategies : \A g \in GoalOffsets(strategy, ep, offset) :
      LET row  == At(ep.start, offset)
          goal == At(ep.start, g)
      IN  /\ home[goal] = home[row]
          /\ strategy = "Final" => ended[goal]
          /\ strategy = "Future" =>
               \/ ring.slots[goal] > ring.slots[row]
               \/ goal = row /\ ended[row]

(* Room is made for one row only: a finished episode whose transitions are *)
(* all stored stays available to sampling until the row about to be        *)
(* overwritten is its first one, also when pushes are rejected.            *)
FinishedEpisodesKept ==
  \A last \in LiveIndices(ring) :
    LET length == ring.slots[last] - home[last] + 1
        start  == At(last, Capacity - length + 1)
    IN  /\ ended[last]
        /\ home[last] > pushed - ring.count
        /\ ~(ring.count = Capacity /\ start = ring.pos)
        => [start |-> start, length |-> length] \in tracker.episodes
=============================================================================
