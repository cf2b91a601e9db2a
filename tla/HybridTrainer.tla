--------------------------- MODULE HybridTrainer ----------------------------
(***************************************************************************)
(* HybridPPO.train (python/rlox/algorithms/hybrid_ppo.py) driving a        *)
(* rollout pipeline: receive a batch, stop the collector, train, and put a *)
(* new collector in the place of the old one.                              *)
(*                                                                         *)
(* Weight version 0 is what a new Candle policy is initialised with;       *)
(* version v is what PyTorch holds after v updates.                        *)
(***************************************************************************)
EXTENDS RolloutPipeline

CONSTANT MaxUpdates   \* bound: updates of a behaviour, at most MaxSyncs

ASSUME UpdatesAssumption == MaxUpdates \in 1 .. MaxSyncs

VARIABLES
  tpc,       \* where train is
  trained,   \* version of the PyTorch weights
  read       \* weight versions behind the batch in hand

trainer == <<tpc, trained, read>>
allVars == <<vars, trainer>>

TrainerInit ==
  /\ Init
  /\ tpc = "collect"
  /\ trained = 0
  /\ read = {}

CollectorStep == CollectorNext /\ UNCHANGED trainer

AwaitBatch ==
  /\ tpc = "collect"
  /\ CallRecv
  /\ tpc' = "receiving"
  /\ UNCHANGED <<trained, read>>

GetBatch ==
  /\ tpc = "receiving"
  /\ RecvReturns
  /\ read' = Head(queue).used
  /\ tpc' = "stop"
  /\ UNCHANGED trained

(* The collector is stopped while PyTorch trains, and when train ends.     *)
StopCollector ==
  /\ tpc \in {"stop", "finish"}
  /\ tpc' = IF tpc = "stop" THEN "stopping" ELSE "finishing"
  /\ \/ CallStop
     \/ ~handle /\ UNCHANGED vars
  /\ UNCHANGED <<trained, read>>

CollectorStopped == StopReturns /\ UNCHANGED trainer

BeginTraining ==
  /\ tpc = "stopping"
  /\ lpc = "idle"
  /\ tpc' = "train"
  /\ UNCHANGED <<vars, trained, read>>

Train ==
  /\ tpc = "train"
  /\ trained < MaxUpdates
  /\ trained' = trained + 1
  /\ tpc' = "restart"
  /\ UNCHANGED <<vars, read>>

FreshCollector ==
  /\ pc' = "start"
  /\ row' = 0
  /\ used' = {}
  /\ built' = 0
  /\ stop' = FALSE
  /\ policy' = 0
  /\ handle' = TRUE

(* Mutated form of NewCollector: the channel outlives the collector.       *)
NewCollectorOldChannel ==
  /\ tpc = "restart"
  /\ FreshCollector
  /\ tpc' = "sync"
  /\ UNCHANGED <<open, queue, lpc, staleTaken, trained, read>>

(* The constructor makes a policy, a channel and the environments, and     *)
(* starts the thread at once.  The old collector, stopped before, is       *)
(* dropped with its channel and the batches left in it.                    *)
NewCollector ==
  /\ tpc = "restart"
  /\ FreshCollector
  /\ queue' = <<>>
  /\ tpc' = "sync"
  /\ UNCHANGED <<open, lpc, staleTaken, trained, read>>

(* _sync_pytorch_to_candle, while the new thread already runs.             *)
SyncNewCollector ==
  /\ tpc = "sync"
  /\ policy' = trained
  /\ tpc' = "callbacks"
  /\ UNCHANGED <<collector, stop, open, queue, learner, staleTaken, trained, read>>

(* on_step may end the training; so does the last update.                  *)
EndUpdate ==
  /\ tpc = "callbacks"
  /\ \/ tpc' = "collect" /\ trained < MaxUpdates
     \/ tpc' = "finish"
  /\ UNCHANGED <<vars, trained, read>>

TrainReturns ==
  /\ tpc = "finishing"
  /\ lpc = "idle"
  /\ tpc' = "returned"
  /\ UNCHANGED <<vars, trained, read>>

(* train called again, on a collector that has been stopped: recv can only *)
(* drain what that collector left.                                         *)
TrainAgain ==
  /\ tpc = "returned"
  /\ trained < MaxUpdates
  /\ tpc' = "collect"
  /\ UNCHANGED <<vars, trained, read>>

TrainStep ==
  \/ AwaitBatch \/ GetBatch \/ StopCollector \/ CollectorStopped
  \/ BeginTraining \/ Train \/ NewCollector \/ SyncNewCollector
  \/ EndUpdate \/ TrainReturns

TrainerNext == CollectorStep \/ TrainStep \/ TrainAgain

TrainerSpec ==
  /\ TrainerInit
  /\ [][TrainerNext]_allVars
  /\ WF_allVars(CollectorRuns /\ UNCHANGED trainer)
  /\ WF_allVars(TrainStep)

-----------------------------------------------------------------------------
(* No batch of an earlier update is trained on: a batch was collected with *)
(* the current weights or with the ones a new collector starts with.       *)
NoBatchFromEarlierUpdates ==
  tpc = "train" => read \subseteq {0, trained}

(* A call of train ends, unless the collector it waits on has ended.       *)
TrainEnds ==
  tpc = "collect" ~>
    \/ tpc = "returned"
    \/ tpc = "receiving" /\ pc = "ended" /\ queue = <<>>
=============================================================================
