--------------------------- MODULE MCOfflineTraining ---------------------------
(* Small experiments for TLC: one per algorithm, with datasets of several    *)
(* episodes, windows longer and shorter than an episode, and delays that     *)
(* do not divide the length of a call.                                       *)
EXTENDS OfflineTraining

Ended(len, end) == [len |-> len, end |-> end]
Base == [algo |-> "BC", batch |-> 1, warmup |-> 0, delay |-> 1, rounds |-> 1, obsH |-> 1,
         actH |-> 1, capacity |-> 3, auto |-> FALSE, entropy |-> TRUE,
         discrete |-> TRUE, order |-> "drawn",
         dataset |-> <<Ended(2, "term"), Ended(1, "run")>>]
Collecting == [Base EXCEPT !.dataset = <<>>]

MCConfigs ==
    {Base,
     [Base EXCEPT !.algo = "TD3BC", !.delay = 2],
     [Base EXCEPT !.algo = "TD3BC", !.delay = 3],
     [Base EXCEPT !.algo = "CQL", !.auto = TRUE],
     [Base EXCEPT !.algo = "CQL", !.auto = TRUE, !.entropy = FALSE],
     [Base EXCEPT !.algo = "IQL"],
     [Base EXCEPT !.algo = "DTP"],
     [Base EXCEPT !.algo = "DTP", !.order = "stored",
                  !.dataset = <<Ended(2, "term"), Ended(1, "term"), Ended(2, "trunc")>>],
     [Collecting EXCEPT !.algo = "DT", !.obsH = 2, !.batch = 2],
     [Collecting EXCEPT !.algo = "DT", !.obsH = 3, !.warmup = 3],
     [Collecting EXCEPT !.algo = "DT", !.obsH = 2, !.discrete = FALSE],
     [Collecting EXCEPT !.algo = "Diffusion", !.obsH = 2, !.actH = 2, !.batch = 2],
     [Collecting EXCEPT !.algo = "Diffusion", !.warmup = 4, !.actH = 2],
     [Collecting EXCEPT !.algo = "CalQL", !.warmup = 1, !.batch = 2, !.auto = TRUE],
     [Collecting EXCEPT !.algo = "AWR", !.rounds = 2, !.warmup = 1]}

=============================================================================
