---------------------------- MODULE ActorLearner ----------------------------
(***************************************************************************)
(* IMPALA (python/rlox/algorithms/impala.py): the actor threads, the       *)
(* policy they share with the learner under a lock, the bounded queue      *)
(* between them, and the learner in train(), which ends by setting the     *)
(* stop event.  An actor steps an environment of its own or, through       *)
(* RemoteEnvPool (python/rlox/distributed/remote_env.py), gRPC workers     *)
(* (crates/rlox-grpc/src/server.rs), one call after another.               *)
(*                                                                         *)
(* The Python Pipeline (python/rlox/distributed/pipeline.py) is such an    *)
(* actor that acts at random, on a thread it starts when it is made, with  *)
(* next_batch, try_next_batch and close in place of train().               *)
(*                                                                         *)
(* The policy is two tensors, written and copied one after the other, each *)
(* the number of updates it has had.  Of an environment only this is kept: *)
(* whose last observation of it is still current.  A rollout is the        *)
(* snapshot it was collected with and the workers that were stepped on an  *)
(* outdated observation.  Losses, rewards and _global_step (which only     *)
(* labels logs and callbacks) are left out.                                *)
(***************************************************************************)
EXTENDS Integers, Sequences, SequencesExt

CONSTANTS Configs,      \* constructor calls
          DefaultSteps  \* stands for the default n_steps, 32

(* class  the class constructed                                            *)
(* actors n_actors, steps n_steps                                          *)
(* workers environments of every worker address, <<>> for local ones       *)
(* act    "discrete", "scalar" (continuous, one number) or "vector"        *)
(* calls, updates  bounds: train() calls, and updates of the policy        *)
(* capacity  channel_capacity of a Pipeline                                *)
IsConfig(c) ==
  /\ c \in [class : {"IMPALA", "DistributedIMPALA", "Pipeline"},
            actors : Nat \ {0}, steps : Nat \ {0}, workers : Seq(Nat \ {0}),
            act : {"discrete", "scalar", "vector"}, calls : Nat \ {0},
            updates : Nat \ {0}, capacity : Nat \ {0}]
  /\ c.class = "Pipeline" => c.actors = 1 /\ c.workers = <<>>

ASSUME ActorLearnerAssumption ==
  /\ \A c \in Configs : IsConfig(c)
  /\ DefaultSteps \in Nat \ {0}

VARIABLES
  cfg,     \* how the object was constructed
  policy,  \* the learner's tensors
  lock,    \* holder of _policy_lock
  stop,    \* _stop_event
  queue,   \* _queue
  lpc,     \* where the main thread is
  left,    \* updates left in this train()
  calls,   \* train() calls so far
  file,    \* the checkpoint, <<>> before the first
  strays,  \* actors of a train() call left with the stop event clear:
           \* "none", "running", or "overtaken" by those of a later call
  thread,  \* the actor threads of all calls
  seen,    \* <<t, w>>: t's last observation of w is its current state
  late     \* <<t, w>>: a call t gave up, which w may still execute

learner == <<lpc, left, calls, file, cfg, strays>>
vars == <<learner, policy, lock, stop, queue, thread, seen, late>>

Nobody == 0
Learner == -1

(* __init__ refuses more actors than addresses, and DistributedIMPALA no   *)
(* addresses.                                                              *)
Constructible(c) ==
  /\ c.workers # <<>> => Len(c.workers) >= c.actors
  /\ c.class = "DistributedIMPALA" => c.workers # <<>>

Defaults == [actors |-> 2, calls |-> 1]
MaxThreads == Max({c.actors * c.calls : c \in Configs \union {Defaults}})
Threads == 1 .. MaxThreads

At(pc) == [pc |-> pc, at |-> 1, row |-> 0, snap |-> <<>>, torn |-> {}]
NoThread == At("none")
Ended == At("ended")

IsPipeline == cfg.class = "Pipeline"

Init ==
  /\ cfg \in {c \in Configs : Constructible(c)}
  /\ policy = <<0, 0>>
  /\ lock = Nobody
  /\ stop = FALSE
  /\ queue = <<>>
  /\ lpc = "idle"
  /\ left = 0
  /\ calls = 0
  /\ file = <<>>
  /\ strays = "none"
  /\ thread = [t \in Threads |->
                 IF IsPipeline /\ t = 1 THEN At("connect") ELSE NoThread]
  /\ seen = {}
  /\ late = {}

-----------------------------------------------------------------------------
(* Workers.                                                                *)

Remote == cfg.workers # <<>>

(* Actor i's addresses: an equal share, one more for the first ones.       *)
PartitionAddresses(i) ==
  LET base == Len(cfg.workers) \div cfg.actors
      extra == Len(cfg.workers) % cfg.actors
      Size(j) == IF j <= extra THEN base + 1 ELSE base
      offset == IF i - 1 <= extra THEN (i - 1) * (base + 1)
                ELSE (i - 1) * base + extra
  IN  [k \in 1 .. Size(i) |-> offset + k]

(* What thread t steps; a local VecEnv is its own and bears its number.    *)
Pool(t) ==
  IF Remote THEN PartitionAddresses(((t - 1) % cfg.actors) + 1)
  ELSE << -t >>

Called(t) == Pool(t)[thread[t].at]

(* Actions are dealt out as if all workers had equally many environments,  *)
(* and one number per environment is sent as a discrete action.            *)
WorkerEnvs(t) ==
  FoldSeq(LAMBDA w, sum : cfg.workers[w] + sum, 0, Pool(t)) \div Len(Pool(t))
SentAsDiscrete == cfg.act \in {"discrete", "scalar"}

(* A worker refuses another number of actions than it has environments;    *)
(* its environments refuse a discrete action where they take a continuous. *)
Accepts(t, w) ==
  IF Remote THEN /\ WorkerEnvs(t) = cfg.workers[w]
                 /\ SentAsDiscrete => cfg.act = "discrete"
  ELSE TRUE

(* w executes a call of t, which has the answer; nobody else's observation *)
(* of w is current any more.                                               *)
Unseen(w) == {p \in seen : p[2] # w}
Answers(t, w) == seen' = Unseen(w) \union {<<t, w>>}

-----------------------------------------------------------------------------
(* An actor thread (_actor_loop).                                          *)

Becomes(t, r) == thread' = [thread EXCEPT ![t] = r]
Goes(t, pc) == Becomes(t, [thread[t] EXCEPT !.pc = pc])

(* A new pool asks every worker for its spaces; a local one is built, by a *)
(* Pipeline without having looked whether there is such an environment.    *)
Connect(t) ==
  /\ thread[t].pc = "connect"
  /\ Goes(t, "reset")
  /\ UNCHANGED <<learner, policy, lock, stop, queue, seen, late>>

ConnectFails(t) ==
  /\ thread[t].pc = "connect"
  /\ Remote \/ IsPipeline
  /\ Becomes(t, Ended)
  /\ UNCHANGED <<learner, policy, lock, stop, queue, seen, late>>

(* reset_all, worker by worker.                                            *)
ResetAll(t) ==
  /\ thread[t].pc = "reset"
  /\ Answers(t, Called(t))
  /\ Becomes(t, IF thread[t].at = Len(Pool(t)) THEN At("loop")
                ELSE [thread[t] EXCEPT !.at = @ + 1])
  /\ UNCHANGED <<learner, policy, lock, stop, queue, late>>

(* A Pipeline has no policy to copy: its actions are random.               *)
NewRollout ==
  IF IsPipeline THEN [At("step") EXCEPT !.snap = <<0, 0>>] ELSE At("sync")

CheckStop(t) ==
  /\ thread[t].pc = "loop"
  /\ Becomes(t, IF stop THEN Ended ELSE NewRollout)
  /\ UNCHANGED <<learner, policy, lock, stop, queue, seen, late>>

(* Mutated form of TakeLock: the state dict is read without the lock.      *)
SkipLock(t) ==
  /\ thread[t].pc = "sync"
  /\ Goes(t, "copy")
  /\ UNCHANGED <<learner, policy, lock, stop, queue, seen, late>>

TakeLock(t) ==
  /\ thread[t].pc = "sync"
  /\ lock = Nobody
  /\ lock' = t
  /\ Goes(t, "copy")
  /\ UNCHANGED <<learner, policy, stop, queue, seen, late>>

(* The tensors are cloned one by one; with the last one the lock is freed. *)
CopyTensor(t) ==
  LET snap == Append(thread[t].snap, policy[Len(thread[t].snap) + 1]) IN
  /\ thread[t].pc = "copy"
  /\ Becomes(t, [thread[t] EXCEPT
                   !.snap = snap,
                   !.pc = IF Len(snap) = Len(policy) THEN "step" ELSE @])
  /\ lock' = IF lock = t /\ Len(snap) = Len(policy) THEN Nobody ELSE lock
  /\ UNCHANGED <<learner, policy, stop, queue, seen, late>>

(* What t has after its worker at `at` answered: the next worker, the next *)
(* step of the rollout, or the rollout.                                    *)
AfterAnswer(t) ==
  LET r == [thread[t] EXCEPT
              !.torn = IF <<t, Called(t)>> \in seen THEN @
                       ELSE @ \union {Called(t)}]
  IN  IF r.at < Len(Pool(t)) THEN [r EXCEPT !.at = @ + 1]
      ELSE [r EXCEPT !.at = 1, !.row = @ + 1,
                     !.pc = IF r.row + 1 = cfg.steps THEN "offer" ELSE @]

(* step_all calls its workers one after another.                           *)
StepAll(t) ==
  /\ thread[t].pc = "step"
  /\ Accepts(t, Called(t))
  /\ Answers(t, Called(t))
  /\ Becomes(t, AfterAnswer(t))
  /\ UNCHANGED <<learner, policy, lock, stop, queue, late>>

(* The earlier workers of the pool have moved on.                          *)
StepRejected(t) ==
  /\ thread[t].pc = "step"
  /\ ~Accepts(t, Called(t))
  /\ Becomes(t, Ended)
  /\ UNCHANGED <<learner, policy, lock, stop, queue, seen, late>>

(* A call times out, or the worker or one of its environments fails: the   *)
(* exception ends the thread, and whether the worker has moved, or will,   *)
(* is open.                                                                *)
CallFails(t) ==
  /\ thread[t].pc \in {"reset", "step"}
  /\ late' = late \union {<<t, Called(t)>>}
  /\ Becomes(t, Ended)
  /\ UNCHANGED <<learner, policy, lock, stop, queue, seen>>

WorkerExecutesLate(t) ==
  \E c \in late :
    /\ c[1] = t
    /\ late' = late \ {c}
    /\ seen' = Unseen(c[2])
    /\ UNCHANGED <<learner, policy, lock, stop, queue, thread>>

(* Mutated form of OfferRollout: put is tried again until there is room.   *)
OfferForever(t) ==
  /\ thread[t].pc = "offer"
  /\ Goes(t, "put")
  /\ UNCHANGED <<learner, policy, lock, stop, queue, seen, late>>

(* The loop around put, which gives up once training is over.              *)
OfferRollout(t) ==
  /\ thread[t].pc = "offer"
  /\ IF stop THEN Becomes(t, At("loop")) ELSE Goes(t, "put")
  /\ UNCHANGED <<learner, policy, lock, stop, queue, seen, late>>

QueueSize == IF IsPipeline THEN cfg.capacity ELSE 2 * cfg.actors

Put(t) ==
  /\ thread[t].pc = "put"
  /\ IF Len(queue) < QueueSize
     THEN /\ queue' = Append(queue, [snap |-> thread[t].snap,
                                     torn |-> thread[t].torn])
          /\ Becomes(t, At("loop"))
     ELSE /\ Goes(t, "offer")   \* Full, after 0.1 s
          /\ UNCHANGED queue
  /\ UNCHANGED <<learner, policy, lock, stop, seen, late>>

-----------------------------------------------------------------------------
(* The main thread (train, save, from_checkpoint).                         *)

NewThreads == calls * cfg.actors + 1 .. (calls + 1) * cfg.actors

Enters(n) ==
  /\ ~IsPipeline
  /\ lpc = "idle"
  /\ calls < cfg.calls
  /\ policy[1] + n <= cfg.updates
  /\ calls' = calls + 1
  /\ left' = n
  /\ thread' = [t \in Threads |->
                  IF t \in NewThreads THEN At("connect") ELSE thread[t]]
  /\ lpc' = "begin"
  /\ strays' = IF strays = "running" THEN "overtaken" ELSE strays
  /\ UNCHANGED <<cfg, file, policy, lock, queue, seen, late>>

(* Mutated form of Train: the stop event is cleared, so that an object can *)
(* be trained again.                                                       *)
TrainClearingStop(n) == Enters(n) /\ stop' = FALSE

(* n_updates is at least one.  The stop event stays as it is.              *)
Train(n) == Enters(n) /\ UNCHANGED stop

Advances(pc) == lpc' = pc /\ UNCHANGED <<calls, cfg, file, strays>>

(* on_training_start, which runs before the try.                           *)
TrainingStarts ==
  /\ lpc = "begin"
  /\ Advances("get")
  /\ UNCHANGED <<left, policy, lock, stop, queue, thread, seen, late>>

(* If it raises, nothing sets the stop event or joins the actors.          *)
StartRaises ==
  /\ lpc = "begin"
  /\ lpc' = "idle"
  /\ left' = 0
  /\ strays' = IF strays = "none" /\ ~stop THEN "running" ELSE strays
  /\ UNCHANGED <<calls, cfg, file, policy, lock, stop, queue, thread, seen, late>>

GetRollout ==
  /\ lpc = "get"
  /\ queue # <<>>
  /\ queue' = Tail(queue)
  /\ left' = left - 1
  /\ Advances("loss")
  /\ UNCHANGED <<policy, lock, stop, thread, seen, late>>

(* Mutated form of GetTimesOut: get waits for as long as it takes.         *)
GetWaitsForever == FALSE

(* Empty after 30 s: the loop is left.                                     *)
GetTimesOut ==
  /\ lpc = "get"
  /\ queue = <<>>
  /\ Advances("stop")
  /\ UNCHANGED <<left, policy, lock, stop, queue, thread, seen, late>>

(* The loss is computed outside the lock.                                  *)
ComputeLoss ==
  /\ lpc = "loss"
  /\ lock = Nobody
  /\ lock' = Learner
  /\ Advances("write")
  /\ UNCHANGED <<left, policy, stop, queue, thread, seen, late>>

Whole == policy[1] = policy[2]

(* optimizer.step writes the tensors one by one, all under the lock.       *)
WriteTensor ==
  /\ lpc = "write"
  /\ policy' = [policy EXCEPT ![IF Whole THEN 1 ELSE 2] = @ + 1]
  /\ IF Whole THEN UNCHANGED lock /\ Advances("write")
              ELSE lock' = Nobody /\ Advances("callbacks")
  /\ UNCHANGED <<left, stop, queue, thread, seen, late>>

(* on_step goes on or stops; the loop also ends with its last update.      *)
RunCallbacks ==
  /\ lpc = "callbacks"
  /\ \E pc \in {"stop"} \union (IF left > 0 THEN {"get"} ELSE {}) : Advances(pc)
  /\ UNCHANGED <<left, policy, lock, stop, queue, thread, seen, late>>

(* The learner or a callback of the loop raises: the lock is freed on the  *)
(* way out.                                                                *)
LearnerRaises ==
  /\ lpc \in {"get", "loss", "write", "callbacks"}
  /\ Whole
  /\ lock' = IF lock = Learner THEN Nobody ELSE lock
  /\ Advances("stop")
  /\ UNCHANGED <<left, policy, stop, queue, thread, seen, late>>

SetStop ==
  /\ lpc = "stop"
  /\ stop' = TRUE
  /\ left' = 0
  /\ Advances("join")
  /\ UNCHANGED <<policy, lock, queue, thread, seen, late>>

(* join gives up on a thread after 5 s, so it may still run afterwards.    *)
JoinActors ==
  /\ lpc = "join"
  /\ Advances("idle")
  /\ UNCHANGED <<left, policy, lock, stop, queue, thread, seen, late>>

(* Between calls, or by a callback.                                        *)
Save ==
  /\ ~IsPipeline
  /\ lpc \in {"idle", "callbacks"}
  /\ file' = policy
  /\ UNCHANGED <<cfg, lpc, left, calls, strays, policy, lock, stop, queue,
                 thread, seen, late>>

(* A new process: all but env_id takes its default, so the actors are      *)
(* local; DistributedIMPALA raises, for want of addresses.  Bound: one     *)
(* train() call and one more update.                                       *)
FromCheckpoint ==
  /\ file # <<>>
  /\ cfg.class = "IMPALA"
  /\ cfg' = [cfg EXCEPT !.actors = Defaults.actors, !.workers = <<>>,
                        !.steps = DefaultSteps, !.calls = Defaults.calls,
                        !.updates = Min({file[1] + 1, @})]
  /\ policy' = file
  /\ lock' = Nobody
  /\ stop' = FALSE
  /\ queue' = <<>>
  /\ lpc' = "idle"
  /\ left' = 0
  /\ calls' = 0
  /\ strays' = "none"
  /\ thread' = [t \in Threads |-> NoThread]
  /\ seen' = {}
  /\ late' = {}
  /\ UNCHANGED file

-----------------------------------------------------------------------------
(* The main thread with a Pipeline.                                        *)

Uses(pc) ==
  /\ IsPipeline
  /\ lpc = "idle"
  /\ Advances(pc)
  /\ UNCHANGED <<left, policy, lock, stop, thread, seen, late>>

NextBatch == Uses("next") /\ UNCHANGED queue

(* next_batch returns a batch, or None after its timeout.                  *)
BatchReturned ==
  /\ lpc = "next"
  /\ queue' = IF queue = <<>> THEN queue ELSE Tail(queue)
  /\ Advances("idle")
  /\ UNCHANGED <<left, policy, lock, stop, thread, seen, late>>

TryNextBatch == Uses("idle") /\ queue # <<>> /\ queue' = Tail(queue)

Close == Uses("stop") /\ UNCHANGED queue

-----------------------------------------------------------------------------

ActorCalls(t) == Connect(t) \/ ConnectFails(t) \/ ResetAll(t) \/ StepAll(t)
                   \/ StepRejected(t) \/ CallFails(t)
ActorRest(t) == CheckStop(t) \/ TakeLock(t) \/ CopyTensor(t)
                   \/ OfferRollout(t) \/ Put(t)
LearnerSteps == TrainingStarts \/ GetRollout \/ GetTimesOut \/ ComputeLoss
                   \/ WriteTensor \/ RunCallbacks \/ SetStop \/ JoinActors \/ BatchReturned
PipelineCalls == NextBatch \/ TryNextBatch \/ Close

Next ==
  \/ \E t \in Threads : ActorCalls(t) \/ ActorRest(t) \/ WorkerExecutesLate(t)
  \/ LearnerSteps \/ LearnerRaises \/ StartRaises
  \/ \E n \in 1 .. cfg.updates : Train(n)
  \/ Save \/ FromCheckpoint \/ PipelineCalls

(* A call to a worker is answered or times out, and so does get; threads   *)
(* that can go on do.  Nothing makes a late call execute or a callback     *)
(* raise, and nobody has to call train, save, from_checkpoint, next_batch  *)
(* or close.                                                               *)
Fairness ==
  /\ \A t \in Threads : WF_vars(ActorCalls(t)) /\ WF_vars(ActorRest(t))
  /\ WF_vars(LearnerSteps)

Spec == Init /\ [][Next]_vars /\ Fairness

-----------------------------------------------------------------------------
(* Properties.                                                             *)

(* No actor collects with, and the learner is never handed, a policy of    *)
(* which one tensor has had an update that the other has not: the copy     *)
(* (impala.py:221-224) and the update (394-401) exclude each other.        *)
SnapshotsAreWhole ==
  /\ \A t \in Threads :
       thread[t].pc \in {"step", "offer", "put"} =>
         thread[t].snap[1] = thread[t].snap[2]
  /\ \A i \in DOMAIN queue : queue[i].snap[1] = queue[i].snap[2]

(* In a rollout that reaches the learner every action was chosen on the    *)
(* state its environment was in when it was stepped: no other actor, no    *)
(* thread that an earlier train() left behind and no call that was given   *)
(* up has moved a worker in between (impala.py:226-327, remote_env.py:     *)
(* 140-208).  The exception is a train() after one whose on_training_start *)
(* raised (impala.py:424): two generations of actors then step the same    *)
(* workers and put what they get.                                          *)
RolloutsAreUnbroken ==
  strays # "overtaken" => \A i \in DOMAIN queue : queue[i].torn = {}

(* Once training is over every actor ends, the one whose rollout finds the *)
(* queue full included (impala.py:322-327, 453-456; pipeline.py:123-129,   *)
(* 145-149).                                                               *)
ActorsStop ==
  \A t \in Threads : stop ~> (thread[t].pc \in {"none", "ended"})

(* train() returns, also when every actor has died of an error             *)
(* (impala.py:428-431); so do next_batch and close (pipeline.py:131-149).  *)
TrainEnds == lpc # "idle" ~> lpc = "idle"
=============================================================================
