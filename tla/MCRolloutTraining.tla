--------------------------- MODULE MCRolloutTraining ---------------------------
(* Small experiments for TLC: one or two per algorithm, with rollouts long    *)
(* enough for an episode to end inside and another to cross into the next.    *)
EXTENDS RolloutTraining

Base == [algo |-> "PPO", envs |-> 1, steps |-> 3, epochs |-> 1, batch |-> 1, parts |-> 1, vf |-> 1,
         norm |-> FALSE, seqLen |-> 1, capacity |-> 1, freq |-> 6, envFn |-> FALSE]

MCConfigs ==
    {[Base EXCEPT !.norm = TRUE, !.batch = 2, !.epochs = 2, !.freq = 4],
     [Base EXCEPT !.batch = 5],
     [Base EXCEPT !.algo = "A2C", !.envs = 2, !.steps = 2, !.freq = 4],
     [Base EXCEPT !.algo = "VPG"],
     [Base EXCEPT !.algo = "TRPO", !.vf = 2, !.freq = 5],
     [Base EXCEPT !.algo = "PQN", !.epochs = 2, !.parts = 2, !.freq = 2],
     [Base EXCEPT !.algo = "RecurrentPPO", !.epochs = 2, !.parts = 2],
     [Base EXCEPT !.algo = "RecurrentPPO", !.envs = 2, !.steps = 2, !.parts = 3],
     [Base EXCEPT !.algo = "MAPPO", !.batch = 2, !.freq = 2],
     [Base EXCEPT !.algo = "MultiMAPPO", !.epochs = 2, !.freq = 4, !.envFn = TRUE],
     [Base EXCEPT !.algo = "Dreamer", !.seqLen = 2, !.capacity = 2, !.batch = 2],
     [Base EXCEPT !.algo = "Dreamer", !.seqLen = 4, !.capacity = 1]}

\* One PPO trainer, for what happens to the return of a truncated step.
PPOOnly == {[Base EXCEPT !.batch = 2]}

=============================================================================
