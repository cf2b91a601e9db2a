-------------------------- MODULE RolloutPipeline ---------------------------
(***************************************************************************)
(* The asynchronous rollout pipeline: the thread of AsyncCollector         *)
(* (crates/rlox-core/src/pipeline/collector.rs), the bounded channel of    *)
(* Pipeline (channel.rs), the policy they share                            *)
(* (crates/rlox-candle/src/collector.rs) and the operations a learner has  *)
(* on the whole (PyCandleCollector, crates/rlox-python/src/nn.rs).         *)
(*                                                                         *)
(* A batch is its number, its row count and the weight versions that were  *)
(* read while it was collected; batches are numbered modulo IdLimit, so    *)
(* the collector may run forever.                                          *)
(***************************************************************************)
EXTENDS Integers, Sequences, FiniteSets

CONSTANTS NSteps,    \* environment steps of one rollout
          Capacity,  \* batches the channel buffers
          MaxSyncs   \* bound: calls of sync_weights

ASSUME PipelineAssumption ==
  /\ NSteps \in Nat \ {0}
  /\ Capacity \in Nat \ {0}   \* Pipeline::new asserts it
  /\ MaxSyncs \in Nat

IdLimit == Capacity + 3

VARIABLES
  \* the collector thread
  pc,         \* what it does next
  row,        \* environment steps of the rollout so far
  used,       \* weight versions read for the rollout so far
  built,      \* number of the next batch it builds
  \* shared with the learner
  stop,       \* the stop flag
  open,       \* the receiver exists
  queue,      \* the channel
  policy,     \* version of the weights in the shared policy
  \* the learner
  lpc,        \* the call it is in
  handle,     \* the collector has not been taken by stop or drop
  staleTaken  \* batches received since the last sync_weights (history)
              \* that read weights older than it

collector == <<pc, row, used, built>>
learner == <<lpc, handle>>
vars == <<collector, stop, open, queue, policy, learner, staleTaken>>

Versions == 0 .. MaxSyncs
Batches == [num : 0 .. IdLimit - 1, rows : Nat, used : SUBSET Versions]

Init ==
  /\ pc = "start"
  /\ row = 0
  /\ used = {}
  /\ built = 0
  /\ stop = FALSE
  /\ open = TRUE
  /\ queue = <<>>
  /\ policy = 0
  /\ lpc = "idle"
  /\ handle = TRUE
  /\ staleTaken = 0

-----------------------------------------------------------------------------
(* The collector thread.                                                   *)

Goes(to) ==
  /\ pc' = to
  /\ UNCHANGED <<built, stop, open, queue, policy, learner, staleTaken>>

(* The first reset_batch; if it fails the thread returns.                  *)
ResetEnvs ==
  /\ pc = "start"
  /\ \E to \in {"loop", "ended"} : Goes(to)
  /\ UNCHANGED <<row, used>>

BeginRollout ==
  /\ pc = "loop"
  /\ Goes(IF stop THEN "ended" ELSE "check")
  /\ row' = 0
  /\ used' = {}

CheckStop ==
  /\ pc = "check"
  /\ Goes(IF stop THEN "ended" ELSE "value")
  /\ UNCHANGED <<row, used>>

(* Mutated form of ReadWeights: the policy is cloned once, at the start,   *)
(* instead of being shared.                                                *)
ReadOwnCopy == used' = used \union {0}

(* value_fn and action_fn each take the read lock for themselves, so a     *)
(* sync_weights may fall between the two.                                  *)
ReadWeights == used' = used \union {policy}

(* Mutated form of StepValues: the callback needs the interpreter lock,    *)
(* and a learner inside recv keeps it.                                     *)
StepValuesUnderGil ==
  /\ pc = "value"
  /\ lpc # "recv"
  /\ ReadWeights
  /\ Goes("act")
  /\ UNCHANGED row

StepValues ==
  /\ pc = "value"
  /\ ReadWeights
  /\ Goes("act")
  /\ UNCHANGED row

StepActions ==
  /\ pc = "act"
  /\ ReadWeights
  /\ Goes("step")
  /\ UNCHANGED row

StepEnvs ==
  /\ pc = "step"
  /\ row' = row + 1
  /\ Goes(IF row + 1 = NSteps THEN "bootstrap" ELSE "check")
  /\ UNCHANGED used

(* Mutated form of EnvFails: the rollout so far is sent all the same.      *)
EnvFailsMidRollout ==
  /\ pc = "step"
  /\ Goes("bootstrap")
  /\ UNCHANGED <<row, used>>

(* step_batch fails: the rollout is dropped and the thread ends.           *)
EnvFails ==
  /\ pc = "step"
  /\ Goes("ended")
  /\ UNCHANGED <<row, used>>

(* A callback panics (the expect() on the network's result in              *)
(* make_candle_callbacks), which ends the thread; the read guard it held   *)
(* does not poison the lock.                                               *)
CallbackPanics ==
  /\ pc \in {"value", "act", "bootstrap"}
  /\ Goes("ended")
  /\ UNCHANGED <<row, used>>

(* The last value_fn call, GAE, and the batch put together.                *)
Bootstrap ==
  /\ pc = "bootstrap"
  /\ ReadWeights
  /\ Goes("send")
  /\ UNCHANGED row

NextId == IF built + 1 = IdLimit THEN 0 ELSE built + 1

Pending == [num |-> built, rows |-> row, used |-> used]

CheckStopBeforeSend ==
  /\ pc = "send"
  /\ Goes(IF stop THEN "ended" ELSE "sending")
  /\ UNCHANGED <<row, used>>

(* send_timeout finds room within its 50 ms.                               *)
Put ==
  /\ pc = "sending"
  /\ open
  /\ Len(queue) < Capacity
  /\ queue' = Append(queue, Pending)
  /\ built' = NextId
  /\ pc' = "loop"
  /\ row' = 0
  /\ used' = {}
  /\ UNCHANGED <<stop, open, policy, learner, staleTaken>>

(* Mutated form of SendTimesOut: a plain blocking send, which never looks  *)
(* at the stop flag again.                                                 *)
SendBlocks ==
  /\ pc = "sending"
  /\ open
  /\ Len(queue) = Capacity
  /\ Goes("sending")
  /\ UNCHANGED <<row, used>>

SendTimesOut ==
  /\ pc = "sending"
  /\ open
  /\ Len(queue) = Capacity
  /\ Goes("send")
  /\ UNCHANGED <<row, used>>

SendDisconnected ==
  /\ pc = "sending"
  /\ ~open
  /\ Goes("ended")
  /\ UNCHANGED <<row, used>>

CollectorRuns ==
  \/ ResetEnvs \/ BeginRollout \/ CheckStop
  \/ StepValues \/ StepActions \/ StepEnvs
  \/ Bootstrap \/ CheckStopBeforeSend
  \/ Put \/ SendTimesOut \/ SendDisconnected

CollectorFails == EnvFails \/ CallbackPanics

CollectorNext == CollectorRuns \/ CollectorFails

-----------------------------------------------------------------------------
(* The learner.                                                            *)

Stale(batch) == \E v \in batch.used : v < policy

TakeBatch ==
  /\ queue # <<>>
  /\ queue' = Tail(queue)
  /\ staleTaken' = IF Stale(Head(queue)) THEN staleTaken + 1 ELSE staleTaken

CallRecv ==
  /\ lpc = "idle"
  /\ lpc' = "recv"
  /\ UNCHANGED <<collector, stop, open, queue, policy, handle, staleTaken>>

(* The Pipeline holds a sender of its own, so recv never sees the channel  *)
(* disconnected: it waits for a batch, whatever became of the collector.   *)
RecvReturns ==
  /\ lpc = "recv"
  /\ TakeBatch
  /\ lpc' = "idle"
  /\ UNCHANGED <<collector, stop, open, policy, handle>>

TryRecv ==
  /\ lpc = "idle"
  /\ TakeBatch
  /\ UNCHANGED <<collector, stop, open, policy, learner>>

SyncWeights ==
  /\ lpc = "idle"
  /\ policy < MaxSyncs
  /\ policy' = policy + 1
  /\ staleTaken' = 0
  /\ UNCHANGED <<collector, stop, open, queue, learner>>

(* Mutated form of CallStop: the flag is set and the thread is detached.   *)
CallStopWithoutJoin ==
  /\ lpc = "idle"
  /\ handle
  /\ handle' = FALSE
  /\ stop' = TRUE
  /\ UNCHANGED <<collector, open, queue, policy, lpc, staleTaken>>

(* Mutated form of CallStop: stop empties the channel, so that a collector *)
(* waiting in send moves on.                                               *)
CallStopDrains ==
  /\ lpc = "idle"
  /\ handle
  /\ handle' = FALSE
  /\ stop' = TRUE
  /\ lpc' = "joining"
  /\ queue' = <<>>
  /\ UNCHANGED <<collector, open, policy, staleTaken>>

(* stop takes the collector, sets the flag and joins; called again it has  *)
(* nothing to take and changes nothing.                                    *)
CallStop ==
  /\ lpc = "idle"
  /\ handle
  /\ handle' = FALSE
  /\ stop' = TRUE
  /\ lpc' = "joining"
  /\ UNCHANGED <<collector, open, queue, policy, staleTaken>>

StopReturns ==
  /\ lpc = "joining"
  /\ pc = "ended"
  /\ lpc' = "idle"
  /\ UNCHANGED <<collector, stop, open, queue, policy, handle, staleTaken>>

(* The fields of the collector object are dropped in order: the channel    *)
(* with its receiver, then the AsyncCollector, whose Drop calls stop.      *)
DropPipeline ==
  /\ lpc = "idle"
  /\ lpc' = "dropping"
  /\ open' = FALSE
  /\ queue' = <<>>
  /\ UNCHANGED <<collector, stop, policy, handle, staleTaken>>

DropCollector ==
  /\ lpc = "dropping"
  /\ stop' = (stop \/ handle)
  /\ handle' = FALSE
  /\ lpc' = "joining last"
  /\ UNCHANGED <<collector, open, queue, policy, staleTaken>>

DropReturns ==
  /\ lpc = "joining last"
  /\ pc = "ended"
  /\ lpc' = "gone"
  /\ UNCHANGED <<collector, stop, open, queue, policy, handle, staleTaken>>

LearnerNext ==
  \/ CallRecv \/ RecvReturns \/ TryRecv \/ SyncWeights
  \/ CallStop \/ StopReturns
  \/ DropPipeline \/ DropCollector \/ DropReturns

Next == CollectorNext \/ LearnerNext

(* The thread keeps running and its timed waits expire; a learner's call   *)
(* goes on once it can.  Nothing makes the learner call, or the            *)
(* environments and the network fail.                                      *)
Fairness ==
  /\ WF_vars(CollectorRuns)
  /\ WF_vars(RecvReturns \/ StopReturns \/ DropCollector \/ DropReturns)

Spec == Init /\ [][Next]_vars /\ Fairness

-----------------------------------------------------------------------------
TypeOK ==
  /\ pc \in {"start", "loop", "check", "value", "act", "step", "bootstrap",
             "send", "sending", "ended"}
  /\ row \in 0 .. NSteps
  /\ used \subseteq Versions
  /\ built \in 0 .. IdLimit - 1
  /\ stop \in BOOLEAN
  /\ open \in BOOLEAN
  /\ queue \in Seq(Batches)
  /\ Len(queue) <= Capacity
  /\ policy \in Versions
  /\ lpc \in {"idle", "recv", "joining", "dropping", "joining last", "gone"}
  /\ handle \in BOOLEAN
  /\ staleTaken \in Nat

(* Every batch a learner can receive is a whole rollout: an environment    *)
(* error in the middle, or a stop, never lets a part of one through.       *)
WholeRollouts ==
  \A i \in 1 .. Len(queue) : queue[i].rows = NSteps

(* Once stop has returned, or the drop has, the thread has ended: it will  *)
(* not send, step the environments or read the policy again.               *)
StoppedMeansEnded ==
  lpc \in {"idle", "recv", "gone"} /\ ~handle => pc = "ended"

(* A rollout that is being collected and has read old weights.             *)
StaleInHand ==
  IF pc # "ended" /\ Stale(Pending) THEN 1 ELSE 0

(* After sync_weights, at most Capacity + 1 batches that were collected,   *)
(* even in part, with older weights are still received: those buffered and *)
(* the one the collector is at.                                            *)
StalenessBounded ==
  staleTaken + Cardinality({i \in 1 .. Len(queue) : Stale(queue[i])})
             + StaleInHand <= Capacity + 1

(* The pipeline is a bounded first-in first-out channel of rollouts: none  *)
(* is lost, repeated or reordered until the pipeline itself is dropped,    *)
(* those buffered when stop is called included, and nothing is accepted    *)
(* once the collector has ended.                                           *)
Channel ==
  INSTANCE BoundedChannel WITH
    N <- Capacity,
    open <- pc # "ended",
    listening <- open,
    next <- built,
    contents <- [i \in 1 .. Len(queue) |-> queue[i].num]

RefinesChannel == Channel!Spec

(* A receiver is served unless the collector has ended.  (If it has, recv  *)
(* drains the channel and then waits forever.)                             *)
RecvServed == lpc = "recv" ~> (lpc # "recv" \/ pc = "ended")
=============================================================================
