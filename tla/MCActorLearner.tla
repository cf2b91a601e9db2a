--------------------------- MODULE MCActorLearner ---------------------------
(* Constructor calls for TLC.                                              *)
EXTENDS ActorLearner

Call(class, actors, workers, act, steps, runs, ups) ==
  [class |-> class, actors |-> actors, workers |-> workers, act |-> act,
   steps |-> steps, calls |-> runs, updates |-> ups, capacity |-> 1]
Impala == "IMPALA"
Distributed == "DistributedIMPALA"

(* One actor on two workers, with rollouts of two steps; one actor trained *)
(* twice; restored from a file, both have two actors with environments of  *)
(* their own.  One actor on workers of unequal size (the second refuses),  *)
(* and with one continuous number per environment; fewer workers than      *)
(* actors (refused); two actors on three workers; a Pipeline with room for *)
(* one batch.                                                              *)
MCConfigs ==
  {Call(Impala, 1, <<1, 1>>, "discrete", 2, 1, 2),
   Call(Impala, 1, <<1>>, "discrete", 1, 2, 1),
   Call(Distributed, 1, <<1, 2>>, "discrete", 1, 1, 1),
   Call(Distributed, 1, <<1, 1>>, "scalar", 1, 1, 1),
   Call(Impala, 2, <<1>>, "discrete", 1, 1, 1),
   Call(Distributed, 2, <<2, 2, 1>>, "vector", 1, 1, 1),
   Call("Pipeline", 1, <<>>, "discrete", 2, 1, 1)}
=============================================================================
