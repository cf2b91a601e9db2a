-------------------------- MODULE MCOffPolicyTraining --------------------------
(* Small experiments for TLC: one per algorithm and path, each with the      *)
(* warm-up, cadence, delay or window that its properties are about.          *)
EXTENDS OffPolicyTraining

Base == [algo |-> "SAC", envs |-> 1, starts |-> 1, batch |-> 2, freq |-> 1, grad |-> 1,
         delay |-> 1, targetFreq |-> 1, nStep |-> 1, capacity |-> 3]

MCConfigs ==
    {Base,
     [Base EXCEPT !.algo = "TD3", !.delay = 2],
     [Base EXCEPT !.algo = "DQN", !.targetFreq = 3, !.freq = 2, !.starts = 0, !.batch = 1],
     [Base EXCEPT !.algo = "DQN", !.nStep = 3, !.targetFreq = 2],
     [Base EXCEPT !.algo = "CrossQ", !.delay = 2, !.grad = 3],
     [Base EXCEPT !.algo = "TQC", !.freq = 2],
     [Base EXCEPT !.algo = "MPO"],
     [Base EXCEPT !.algo = "QMIX", !.starts = 0, !.targetFreq = 3],
     [Base EXCEPT !.algo = "QMIX", !.starts = 0, !.targetFreq = 2, !.batch = 1],
     [Base EXCEPT !.envs = 2, !.grad = 2],
     [Base EXCEPT !.algo = "TD3", !.envs = 2, !.delay = 2],
     [Base EXCEPT !.algo = "DQN", !.envs = 2, !.targetFreq = 2]}

=============================================================================
