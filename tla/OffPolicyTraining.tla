--------------------------- MODULE OffPolicyTraining ---------------------------
(***************************************************************************)
(* The off-policy trainers: SAC, TD3, DQN, CrossQ, TQC, MPO and QMIX, with *)
(* their single-environment loop, the vectorised collector, callbacks that *)
(* save or stop inside the loop, and checkpoints that outlive the process. *)
(*                                                                         *)
(* An observation is <<environment, episode, time>>: what a transition     *)
(* bootstraps from is then visible.  A network is the number of gradient   *)
(* steps it has taken, a target network the number of steps of the online  *)
(* network it has last seen.  The temperature, which is tuned or not, and  *)
(* MPO's dual variable are left out.  One loop iteration is one action:    *)
(* the loop has a single thread.                                           *)
(***************************************************************************)
EXTENDS Integers, Sequences, FiniteSets

CONSTANTS
    Configs,    \* hyperparameters an experiment may start from
    MaxSteps,   \* bound: iterations of one train() call
    MaxGlobal   \* bound: iterations over all calls and restarts

Algorithms == {"SAC", "TD3", "DQN", "CrossQ", "TQC", "MPO", "QMIX"}
Ends == {"run", "term", "trunc"}
Positive == Nat \ {0}

\* What the settings of an algorithm may be; starts is the warm-up, freq and
\* grad the cadence of the updates, delay that of the actor.
Settings(algo, envs, starts, delay, targetFreq, nStep) ==
    [algo: {algo}, envs: envs, starts: starts, batch: Positive, freq: Positive,
     grad: Positive, delay: delay, targetFreq: targetFreq, nStep: nStep, capacity: Positive]

SACConfig == Settings("SAC", Positive, Nat, {1}, {1}, {1})
TD3Config == Settings("TD3", Positive, Nat, Positive, {1}, {1})
CrossQConfig == Settings("CrossQ", {1}, Nat, Positive, {1}, {1})
TQCConfig == Settings("TQC", {1}, Nat, {1}, {1}, {1})
\* MPO and QMIX have no cadence: one gradient step in every iteration that may learn.
EveryStep(configs) == {c \in configs : c.freq = 1 /\ c.grad = 1}
MPOConfig == EveryStep(Settings("MPO", {1}, Nat, {1}, {1}, {1}))
QMIXConfig == EveryStep(Settings("QMIX", {1}, {0}, {1}, Positive, {1}))
\* The vectorised path stores one-step transitions (dqn.py:374).
DQNConfig ==
    {c \in Settings("DQN", Positive, Nat, {1}, Positive, Positive) : c.envs > 1 => c.nStep = 1}

Config == SACConfig \cup TD3Config \cup DQNConfig \cup CrossQConfig
              \cup TQCConfig \cup MPOConfig \cup QMIXConfig
ASSUME ConfigsAssumption == \A c \in Configs : c \in Config
ASSUME BoundsAssumption == MaxSteps \in Nat \ {0} /\ MaxGlobal \in Nat

VARIABLES
    cfg,         \* hyperparameters of the live trainer
    env,         \* env[i]: episode and time of environment i
    window,      \* DQN's n-step deque
    size,        \* len(buffer)
    nets,        \* gradient steps in each network
    count,       \* the update counter the policy delay is taken from
    call,        \* the running train() call: its number, step and total
    globalStep,  \* _global_step
    last,        \* what the latest iteration did (history)
    disk         \* the checkpoint on disk

vars == <<cfg, env, window, size, nets, count, call, globalStep, last, disk>>

NoCheckpoint == [step |-> -1]
Idle(n) == [on |-> FALSE, n |-> n, step |-> 0, total |-> 0]
Fresh == [critic |-> 0, target |-> 0, actor |-> 0, actorTarget |-> 0]
Nothing == [acted |-> "none", updates |-> 0, lag |-> 0, stored |-> {}]

Envs == 1..cfg.envs
Vectorised == cfg.envs > 1
Least(a, b) == IF a < b THEN a ELSE b

---------------------------------------------------------------------------
(* Environments and what the loops store                                   *)

Started(e) == [e EXCEPT !.ep = @ + 1, !.t = 0]
Here(i) == <<i, env[i].ep, env[i].t>>

\* gym.Env.step: the observation that followed, whatever ended.
Successor(i) == <<i, env[i].ep, env[i].t + 1>>

\* GymVecEnv.step_all resets a finished environment in the same step and
\* returns the observation after the reset; the last one is in terminal_obs.
StepAllObs(i, end) == IF end = "run" THEN Successor(i) ELSE <<i, env[i].ep + 1, 0>>

EnvAfter(ends) ==
    [i \in Envs |-> IF ends[i] = "run" THEN [env[i] EXCEPT !.t = @ + 1] ELSE Started(env[i])]

Transition(from, to, end, span) == [from |-> from, to |-> to, end |-> end, span |-> span]

\* collect_step pushes result["obs"], the observation after the reset.
CollectStep(ends) ==
    {Transition(Here(i), StepAllObs(i, ends[i]), ends[i], 1) : i \in Envs}

\* The n-step transition of the window's suffix that starts at k.
NStep(w, k) == Transition(w[k].from, w[Len(w)].to, w[Len(w)].end, Len(w) - k + 1)

\* _store_transition, and the flush of the window when the episode is over.
DQNWindow(end) == Append(window, Transition(Here(1), Successor(1), end, 1))
DQNStored(end) ==
    LET w == DQNWindow(end)
    IN  IF end # "run" THEN {NStep(w, k) : k \in 1..Len(w)}
        ELSE IF Len(w) < cfg.nStep THEN {} ELSE {NStep(w, 1)}

\* Mutated form of DQNKept: the window is not emptied when the episode is over.
DQNKeptOverEnds(end) ==
    LET w == DQNWindow(end) IN IF Len(w) < cfg.nStep THEN w ELSE Tail(w)

DQNKept(end) ==
    LET w == DQNWindow(end)
    IN  IF end # "run" THEN <<>> ELSE IF Len(w) < cfg.nStep THEN w ELSE Tail(w)

OneStep(end) == {Transition(Here(1), Successor(1), end, 1)}
Grown(stored) == Least(size + Cardinality(stored), cfg.capacity)

---------------------------------------------------------------------------
(* Gradient steps: k calls of _update                                      *)

\* Mutated form of Delayed: the delay is looked at once per round of gradient steps.
DelayedOncePerRound(k) == IF k > 0 /\ (count + k) % cfg.delay = 0 THEN 1 ELSE 0

\* Multiples of cfg.delay among count+1 .. count+k.
Delayed(k) == ((count + k) \div cfg.delay) - (count \div cfg.delay)

\* Critics and actor, then the soft target update.
SACUpdate(k) ==
    [nets EXCEPT !.critic = @ + k, !.target = IF k > 0 THEN nets.critic + k ELSE @,
                 !.actor = @ + k]

\* Critics and their targets each time, actor and its target with a delay.
TD3Update(k) ==
    [nets EXCEPT !.critic = @ + k, !.target = IF k > 0 THEN nets.critic + k ELSE @,
                 !.actor = @ + Delayed(k),
                 !.actorTarget = IF Delayed(k) > 0 THEN nets.actor + Delayed(k) ELSE @]

\* One network; the target is copied by the loop, not by the update.
DQNUpdate(k) == [nets EXCEPT !.critic = @ + k]

\* No target networks; the actor with a delay.
CrossQUpdate(k) ==
    [nets EXCEPT !.critic = @ + k, !.actor = @ + Delayed(k)]

\* The critic ensemble is one network with one optimiser.
TQCUpdate(k) ==
    [nets EXCEPT !.critic = @ + k, !.target = IF k > 0 THEN nets.critic + k ELSE @,
                 !.actor = @ + k]

\* Critic, M-step, targets.
MPOUpdate(k) ==
    [nets EXCEPT !.critic = @ + k, !.target = IF k > 0 THEN nets.critic + k ELSE @,
                 !.actor = @ + k]

\* The agents' networks and the mixer share one optimiser.
QMIXUpdate(k) == [nets EXCEPT !.critic = @ + k]

\* Mutated form of Due: no warm-up.
DueAtOnce(n) == IF n >= cfg.batch /\ call.step % cfg.freq = 0 THEN cfg.grad ELSE 0

\* The gate before the updates: past the warm-up, a batch at hand, on the beat.
Due(n) ==
    IF call.step >= cfg.starts /\ n >= cfg.batch /\ call.step % cfg.freq = 0
    THEN cfg.grad ELSE 0

\* Mutated form of DQNSync: the copy comes at the end of each period instead of its start.
DQNSyncAtEnd(n) ==
    IF (call.step + 1) % cfg.targetFreq = 0 THEN [n EXCEPT !.target = n.critic] ELSE n

\* target_network.load_state_dict every targetFreq iterations, update or not.
DQNSync(n) == IF call.step % cfg.targetFreq = 0 THEN [n EXCEPT !.target = n.critic] ELSE n

---------------------------------------------------------------------------
(* Checkpoints: named networks and settings; what is not in the file is as *)
(* the constructor makes it                                                *)

Networks == DOMAIN Fresh
SACNetworks == {"critic", "target", "actor"}
TD3Networks == {"critic", "target", "actor", "actorTarget"}
DQNNetworks == {"critic", "target"}
CrossQNetworks == {"critic", "actor"}
TQCNetworks == {"critic", "target", "actor"}
MPONetworks == {"critic", "target", "actor"}
QMIXNetworks == {"critic", "target"}
Defaults == [envs |-> 1, starts |-> 0, batch |-> 1, freq |-> 1, grad |-> 1,
             delay |-> 1, targetFreq |-> 1, nStep |-> 1, capacity |-> 1]

Checkpoint(n, s, k, names, settings) ==
    [step |-> s, count |-> k,
     nets |-> [x \in Networks |-> IF x \in names THEN n[x] ELSE 0],
     cfg |-> [f \in DOMAIN cfg |-> IF f \in settings \cup {"algo"} THEN cfg[f] ELSE Defaults[f]]]

Basics == {"starts", "batch", "capacity"}

\* No save keeps the replay buffer; most config records lack the cadence.
SACSave(n, s) == Checkpoint(n, s, 0, SACNetworks, Basics)
TD3Save(n, s) == Checkpoint(n, s, 0, TD3Networks, Basics \cup {"delay"})
DQNSave(n, s) ==
    Checkpoint(n, s, 0, DQNNetworks, Basics \cup {"freq", "grad", "targetFreq", "nStep"})
CrossQSave(n, s) == Checkpoint(n, s, count, CrossQNetworks, Basics \cup {"delay"})
TQCSave(n, s) == Checkpoint(n, s, 0, TQCNetworks, Basics)
MPOSave(n, s) == Checkpoint(n, s, 0, MPONetworks \ {"critic", "target"}, Basics)
QMIXSave(n, s) ==
    Checkpoint(n, s, 0, QMIXNetworks \ {"target"}, Basics \cup {"targetFreq"})

Saved(n, s) ==
    CASE cfg.algo = "SAC" -> SACSave(n, s)
      [] cfg.algo = "TD3" -> TD3Save(n, s)
      [] cfg.algo = "DQN" -> DQNSave(n, s)
      [] cfg.algo = "CrossQ" -> CrossQSave(n, s)
      [] cfg.algo = "TQC" -> TQCSave(n, s)
      [] cfg.algo = "MPO" -> MPOSave(n, s)
      [] cfg.algo = "QMIX" -> QMIXSave(n, s)

\* A new process builds the trainer from the saved settings and loads the
\* named networks; the buffer and the n-step window start empty.
Reload(names, updates) ==
    /\ disk # NoCheckpoint
    /\ cfg' = disk.cfg
    /\ nets' = [x \in Networks |-> IF x \in names THEN disk.nets[x] ELSE 0]
    /\ count' = updates
    /\ globalStep' = disk.step
    /\ env' = [i \in 1..disk.cfg.envs |-> [ep |-> 0, t |-> 0]]
    /\ window' = <<>>
    /\ size' = 0
    /\ call' = Idle(0)
    /\ last' = Nothing
    /\ UNCHANGED disk

SACFromCheckpoint == cfg.algo = "SAC" /\ Reload(SACNetworks, 0)
TD3FromCheckpoint == cfg.algo = "TD3" /\ Reload(TD3Networks, 0)
DQNFromCheckpoint == cfg.algo = "DQN" /\ Reload(DQNNetworks, 0)
CrossQFromCheckpoint == cfg.algo = "CrossQ" /\ Reload(CrossQNetworks, disk.count)
TQCFromCheckpoint == cfg.algo = "TQC" /\ Reload(TQCNetworks, 0)
MPOFromCheckpoint == cfg.algo = "MPO" /\ Reload({"actor"}, 0)
QMIXFromCheckpoint == cfg.algo = "QMIX" /\ Reload({"critic"}, 0)

---------------------------------------------------------------------------
(* train()                                                                 *)

\* Trainer.train: the environments are reset, the window is not.
Train ==
    /\ ~call.on
    /\ \E total \in 1..MaxSteps :
         /\ globalStep + total <= MaxGlobal
         /\ call' = [on |-> TRUE, n |-> call.n + 1, step |-> 0, total |-> total]
    /\ env' = [i \in Envs |-> Started(env[i])]
    /\ count' = IF cfg.algo = "CrossQ" THEN count ELSE 0
    /\ last' = Nothing
    /\ UNCHANGED <<cfg, window, size, nets, globalStep, disk>>

\* What an iteration did, and how far the target it computed with was behind.
Did(acted, updates, stored) ==
    [acted |-> acted, updates |-> updates, stored |-> stored,
     lag |-> IF updates > 0 THEN nets.critic - nets.target ELSE 0]

\* The loop goes on with the next iteration or leaves the call.
Advance(goOn) ==
    call' = IF goOn /\ call.step + 1 < call.total
            THEN [call EXCEPT !.step = @ + 1] ELSE Idle(call.n)

\* SAC, TD3, DQN, CrossQ and TQC: step, store, callbacks (which may save the
\* networks as they are, or stop the call), then the updates.
StepThenLearn(ends, stored, acted, learned, updates) ==
    /\ env' = EnvAfter(ends)
    /\ size' = Grown(stored)
    /\ globalStep' = globalStep + 1
    /\ \E save, goOn \in BOOLEAN :
         /\ disk' = IF save THEN Saved(nets, globalStep + 1) ELSE disk
         /\ nets' = IF goOn THEN learned ELSE nets
         /\ count' = IF goOn THEN count + updates ELSE count
         /\ last' = Did(acted, IF goOn THEN updates ELSE 0, stored)
         /\ Advance(goOn)
    /\ UNCHANGED cfg

ByStep == IF call.step < cfg.starts THEN "random" ELSE "policy"
ByGlobalStep == IF globalStep < cfg.starts THEN "random" ELSE "policy"

Single(algo) == call.on /\ cfg.algo = algo /\ ~Vectorised
Collector(algo) == call.on /\ cfg.algo = algo /\ Vectorised

SACTrain ==
    /\ Single("SAC")
    /\ \E end \in Ends : LET k == Due(Grown(OneStep(end))) IN
         StepThenLearn(<<end>>, OneStep(end), ByStep, SACUpdate(k), k)
    /\ UNCHANGED window

TD3Train ==
    /\ Single("TD3")
    /\ \E end \in Ends : LET k == Due(Grown(OneStep(end))) IN
         StepThenLearn(<<end>>, OneStep(end), ByStep, TD3Update(k), k)
    /\ UNCHANGED window

CrossQTrain ==
    /\ Single("CrossQ")
    /\ \E end \in Ends : LET k == Due(Grown(OneStep(end))) IN
         StepThenLearn(<<end>>, OneStep(end), ByStep, CrossQUpdate(k), k)
    /\ UNCHANGED window

TQCTrain ==
    /\ Single("TQC")
    /\ \E end \in Ends : LET k == Due(Grown(OneStep(end))) IN
         StepThenLearn(<<end>>, OneStep(end), ByStep, TQCUpdate(k), k)
    /\ UNCHANGED window

\* Epsilon-greedy counts as acting with the network.
DQNTrain ==
    /\ Single("DQN")
    /\ \E end \in Ends : LET k == Due(Grown(DQNStored(end))) IN
         /\ StepThenLearn(<<end>>, DQNStored(end), ByStep, DQNSync(DQNUpdate(k)), k)
         /\ window' = DQNKept(end)

\* With the collector the warm-up of the actions is taken from _global_step,
\* that of the updates from the step of the call.
SACTrainWithCollector ==
    /\ Collector("SAC")
    /\ \E ends \in [Envs -> Ends] : LET k == Due(Grown(CollectStep(ends))) IN
         StepThenLearn(ends, CollectStep(ends), ByGlobalStep, SACUpdate(k), k)
    /\ UNCHANGED window

TD3TrainWithCollector ==
    /\ Collector("TD3")
    /\ \E ends \in [Envs -> Ends] : LET k == Due(Grown(CollectStep(ends))) IN
         StepThenLearn(ends, CollectStep(ends), ByGlobalStep, TD3Update(k), k)
    /\ UNCHANGED window

DQNTrainWithCollector ==
    /\ Collector("DQN")
    /\ \E ends \in [Envs -> Ends] : LET k == Due(Grown(CollectStep(ends))) IN
         StepThenLearn(ends, CollectStep(ends), ByGlobalStep, DQNSync(DQNUpdate(k)), k)
    /\ UNCHANGED window

\* MPO learns before it counts the step and calls the callbacks.
MPOTrain ==
    /\ Single("MPO")
    /\ \E end \in Ends, save, goOn \in BOOLEAN :
         LET stored == OneStep(end)
             k == IF call.step >= cfg.starts /\ Grown(stored) >= cfg.batch THEN 1 ELSE 0
         IN  /\ env' = EnvAfter(<<end>>)
             /\ size' = Grown(stored)
             /\ nets' = MPOUpdate(k)
             /\ count' = count + k
             /\ globalStep' = globalStep + 1
             /\ last' = Did(ByStep, k, stored)
             /\ disk' = IF save THEN Saved(MPOUpdate(k), globalStep + 1) ELSE disk
             /\ Advance(goOn)
    /\ UNCHANGED <<cfg, window>>

\* QMIX has no warm-up and no callbacks inside the loop.
QMIXTrain ==
    /\ Single("QMIX")
    /\ \E end \in Ends :
         LET stored == OneStep(end)
             k == IF Grown(stored) >= cfg.batch THEN 1 ELSE 0
         IN  /\ env' = EnvAfter(<<end>>)
             /\ size' = Grown(stored)
             /\ nets' = DQNSync(QMIXUpdate(k))
             /\ count' = count + k
             /\ globalStep' = globalStep + 1
             /\ last' = Did("policy", k, stored)
             /\ Advance(TRUE)
    /\ UNCHANGED <<cfg, window, disk>>

\* Trainer.save between two calls.
Save ==
    /\ ~call.on
    /\ disk' = Saved(nets, globalStep)
    /\ UNCHANGED <<cfg, env, window, size, nets, count, call, globalStep, last>>

---------------------------------------------------------------------------
Init ==
    /\ cfg \in Configs
    /\ env = [i \in Envs |-> [ep |-> 0, t |-> 0]]
    /\ window = <<>>
    /\ size = 0
    /\ nets = Fresh
    /\ count = 0
    /\ call = Idle(0)
    /\ globalStep = 0
    /\ last = Nothing
    /\ disk = NoCheckpoint

Next ==
    \/ Train \/ Save
    \/ SACTrain \/ TD3Train \/ DQNTrain \/ CrossQTrain \/ TQCTrain \/ MPOTrain
    \/ QMIXTrain \/ QMIXFromCheckpoint
    \/ SACTrainWithCollector \/ TD3TrainWithCollector \/ DQNTrainWithCollector
    \/ SACFromCheckpoint \/ TD3FromCheckpoint \/ DQNFromCheckpoint
    \/ CrossQFromCheckpoint \/ TQCFromCheckpoint \/ MPOFromCheckpoint

Spec == Init /\ [][Next]_vars

---------------------------------------------------------------------------
(* Properties                                                              *)

SameEpisode(tr) == tr.from[1] = tr.to[1] /\ tr.from[2] = tr.to[2]

\* A stored transition the learner will bootstrap from (it did not terminate)
\* leads to an observation of its own episode, the number of steps later that
\* it spans.  Two exits are known and no others: the vectorised collector
\* stores the observation after the automatic reset of a truncated episode
\* (off_policy_collector.py:179), and DQN's n-step window survives from one
\* train() call into the next (dqn.py:133, 209).
BootstrapsStayInEpisode ==
    \A tr \in last.stored :
        \/ tr.end = "term"
        \/ SameEpisode(tr) /\ tr.to[3] = tr.from[3] + tr.span
        \/ Vectorised /\ tr.end = "trunc"
        \/ cfg.nStep > 1 /\ call.n > 1

\* A gradient step never computes its target with networks further behind than
\* the gradient steps that fit between two copies, whatever way calls are cut
\* short, continued or restored; a polyak target has seen the latest step.  The
\* exception: QMIX saves no targets (qmix.py:471), and with batch_size 1 the first
\* step after a restore is taken against freshly initialised ones.
TargetLagBounded ==
    LET between == IF cfg.algo \in {"DQN", "QMIX"}
                   THEN ((cfg.targetFreq + cfg.freq - 2) \div cfg.freq) * cfg.grad ELSE 0
    IN  \/ cfg.algo = "CrossQ"
        \/ last.lag \in 0..between
        \/ cfg.algo = "QMIX" /\ cfg.batch = 1 /\ call.n = 1

\* The actor follows the critic at the pace of the policy delay and never
\* trains on a critic younger than itself, over calls, early stops, saves and
\* restarts.  CrossQ keeps its counter, so its pace is exact; TD3 counts anew in
\* each call (td3.py:185) and falls behind; MPO's checkpoint has no critic
\* (mpo.py:416), so a restored actor may be older than its critic.
ActorFollowsCritic ==
    /\ cfg.algo \in {"SAC", "TQC"} => nets.actor = nets.critic
    /\ cfg.algo = "CrossQ" => nets.actor = nets.critic \div cfg.delay
    /\ cfg.algo = "TD3" =>
          /\ nets.actor * cfg.delay <= nets.critic
          /\ nets.actorTarget = nets.actor
    /\ cfg.algo = "MPO" => nets.critic <= nets.actor

\* An iteration that acted at random takes no gradient step, over repeated and
\* restored calls: the collector ends the warm-up of the actions by _global_step
\* (sac.py:336), the loop that of the updates by the step of the call.
UpdatesFollowPolicySteps == last.updates > 0 => last.acted = "policy"

=============================================================================
