------------------------- MODULE MCRolloutPipeline --------------------------
(* Instance of RolloutPipeline for TLC: rollouts of two steps, a channel of *)
(* two batches, two weight updates.                                        *)
EXTENDS RolloutPipeline
=============================================================================
