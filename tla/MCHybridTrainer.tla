-------------------------- MODULE MCHybridTrainer ---------------------------
(* Instance of HybridTrainer for TLC: three updates over a channel of two  *)
(* batches (the default capacity), rollouts of two steps.                  *)
EXTENDS HybridTrainer
=============================================================================
