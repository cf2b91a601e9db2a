--------------------------- MODULE MCReplayBuffers ---------------------------
(* Instance of ReplayRing and EpisodeBuffer for TLC.  A behaviour is one of   *)
(* a plain ReplayBuffer, or one of the ring inside a SequenceReplayBuffer or  *)
(* HERBuffer, which reach it through push_slices alone.  Three turns of the   *)
(* ring: episodes of every length up to three times the capacity begin at     *)
(* every row, and a batch may be one row longer than the ring.                *)
EXTENDS EpisodeBuffer

VARIABLE tracked     \* an EpisodeTracker owns the ring

MCInit == EpisodeInit /\ tracked \in BOOLEAN

MCNext ==
  /\ \/ tracked /\ EpisodeNext
     \/ ~tracked /\ Next /\ UNCHANGED <<ended, tracker, home, first>>
  /\ UNCHANGED tracked

MCSpec == MCInit /\ [][MCNext]_<<episodeVars, tracked>>
=============================================================================
