---------------------------- MODULE RolloutTraining ----------------------------
(***************************************************************************)
(* The trainers that collect a rollout and then learn from it: PPO, A2C,   *)
(* VPG, TRPO, PQN, RecurrentPPO, MAPPO (one agent, and several agents with *)
(* a collector of their own) and DreamerV3; with the rollout collector,    *)
(* VecNormalize, evaluations that may raise, periodic checkpoints, and     *)
(* restarts from them.                                                     *)
(*                                                                         *)
(* An observation is its environment, episode and time.  A return is the   *)
(* set of rewards and value estimates that flow into it, an LSTM state the *)
(* set of observations it has seen since it was zeroed, and a network its  *)
(* number of gradient steps: where data comes from is then visible.  One   *)
(* loop iteration (collect, learn, on_step) is one action: a trainer has a *)
(* single thread.                                                          *)
(***************************************************************************)
EXTENDS Integers, Sequences, FiniteSets

CONSTANTS
    Configs,      \* hyperparameters an experiment may start from
    MaxRollouts,  \* bound: iterations of one train() call
    MaxTotal      \* bound: iterations over all calls and restarts

Algorithms == {"PPO", "A2C", "VPG", "TRPO", "PQN", "RecurrentPPO", "MAPPO", "MultiMAPPO", "Dreamer"}
Ends == {"run", "term", "trunc"}
Positive == Nat \ {0}

\* envs * steps observations per rollout; epochs passes in minibatches of
\* batch (or in parts of them), vf value steps; every freq steps the callbacks
\* evaluate and save; envFn is the factory the multi-agent collector needs.
Settings(algo, epochs, batch, parts, vf, norm, seqLen, capacity, envFn) ==
    [algo: {algo}, envs: Positive, steps: Positive, epochs: epochs, batch: batch, parts: parts,
     vf: vf, norm: norm, seqLen: seqLen, capacity: capacity, freq: Positive, envFn: envFn]

One == {1}
No == {FALSE}
PPOConfig == Settings("PPO", Positive, Positive, One, One, BOOLEAN, One, One, No)
A2CConfig == Settings("A2C", One, One, One, One, No, One, One, No)
VPGConfig == Settings("VPG", One, One, One, Positive, No, One, One, No)
TRPOConfig == Settings("TRPO", One, One, One, Positive, No, One, One, No)
PQNConfig == Settings("PQN", Positive, One, Positive, One, No, One, One, No)
RecurrentPPOConfig == Settings("RecurrentPPO", Positive, One, Positive, One, No, One, One, No)
MAPPOConfig == Settings("MAPPO", Positive, Positive, One, One, No, One, One, No)
                   \cup Settings("MultiMAPPO", Positive, One, One, One, No, One, One, BOOLEAN)
DreamerConfig == Settings("Dreamer", One, Positive, One, One, No, Positive, Positive, No)

Config == PPOConfig \cup A2CConfig \cup VPGConfig \cup TRPOConfig \cup PQNConfig
              \cup RecurrentPPOConfig \cup MAPPOConfig \cup DreamerConfig
ASSUME ConfigsAssumption == \A c \in Configs : c \in Config
ASSUME BoundsAssumption == MaxRollouts \in Positive /\ MaxTotal \in Nat

VARIABLES
    cfg,         \* hyperparameters of the live trainer
    obs,         \* obs[i]: the observation environment i stands at; episode 0: not reset yet
    memory,      \* RecurrentPPO's LSTM state per environment
    starts,      \* RecurrentPPO's _episode_starts
    stats,       \* VecNormalize: observations counted, and whether it is counting
    nets,        \* gradient steps per network, and rollouts behind them
    seqs,        \* Dreamer's _seq_buffer
    buffered,    \* len of Dreamer's flat buffer
    call,        \* the running train() call
    globalStep,  \* _global_step
    total,       \* iterations so far (bound)
    raised,      \* whether an evaluation has raised in this process (history)
    fed,         \* observations the rollouts of this process have seen (history)
    last,        \* what the latest iteration collected (history)
    disk         \* the latest checkpoint

vars == <<cfg, obs, memory, starts, stats, nets, seqs, buffered, call, globalStep, total,
          raised, fed, last, disk>>

NoCheckpoint == [step |-> -1]
Nothing == [on |-> FALSE]
Idle == [on |-> FALSE, step |-> 0, total |-> 0]

\* What each constructor trains: "policy" is the actor or the Q-network, "head"
\* the value head of the policy module, "critic" a value network of its own.
PPONetworks == {"policy", "head"}
A2CNetworks == {"policy", "head"}
VPGNetworks == {"policy", "head"}
TRPONetworks == {"policy", "head"}
PQNNetworks == {"policy"}
RecurrentPPONetworks == {"policy", "head"}
MAPPONetworks == {"policy", "head", "critic"}
DreamerNetworks == {"world", "policy", "head"}

Networks(algo) ==
    CASE algo = "PPO" -> PPONetworks
      [] algo = "A2C" -> A2CNetworks
      [] algo = "VPG" -> VPGNetworks
      [] algo = "TRPO" -> TRPONetworks
      [] algo = "PQN" -> PQNNetworks
      [] algo = "RecurrentPPO" -> RecurrentPPONetworks
      [] algo \in {"MAPPO", "MultiMAPPO"} -> MAPPONetworks
      [] algo = "Dreamer" -> DreamerNetworks

\* Gradient steps per network, and the rollouts behind them.
Untrained(algo) == [x \in Networks(algo) \cup {"rollouts"} |-> 0]

Envs == 1..cfg.envs
Times == 1..cfg.steps
Batch == cfg.envs * cfg.steps
Least(a, b) == IF a < b THEN a ELSE b
Running(algo) == call.on /\ cfg.algo = algo

---------------------------------------------------------------------------
(* Environments and rollouts                                               *)

Restarted(o) == [o EXCEPT !.ep = @ + 1, !.t = 0]
Successor(o) == [o EXCEPT !.t = @ + 1]

\* A vectorised environment resets a finished one in the same step.
After(o, end) == IF end = "run" THEN Successor(o) ELSE Restarted(o)

\* The collector resets once and goes on where the previous rollout stopped.
Continued == [i \in Envs |-> IF obs[i].ep = 0 THEN Restarted(obs[i]) ELSE obs[i]]
\* MultiAgentCollector.collect and Dreamer's _collect_experience reset each time.
AllReset == [i \in Envs |-> Restarted(obs[i])]

\* Path(first, ends)[i][k]: the observation of step k; the last one follows the rollout.
Path(first, ends) ==
    [i \in Envs |->
        LET at[k \in 1..cfg.steps + 1] ==
                IF k = 1 THEN first[i] ELSE After(at[k - 1], ends[i][k - 1])
        IN at]

Reached(path) == [i \in Envs |-> path[i][cfg.steps + 1]]

Reward(o) == [kind |-> "reward", at |-> o]
Value(o) == [kind |-> "value", at |-> o]

\* What flows into the return of each step of one environment: its reward, what
\* was added to it, and past a step that is not done the next value and return.
ComputeGAE(path, done, bonus) ==
    LET ret[k \in Times] ==
            {Reward(path[k])} \cup bonus[k]
                \cup (IF done[k] THEN {} ELSE {Value(path[k + 1])})
                \cup (IF done[k] \/ k = cfg.steps THEN {} ELSE ret[k + 1])
    IN ret

\* Mutated form of Bonus: the value of the terminal observation is forgotten.
BonusForgotten(path, ends, k) == {}

\* Truncation bootstrap: the value of the observation the episode was cut at.
Bonus(path, ends, k) == IF ends[k] = "trunc" THEN {Value(Successor(path[k]))} ELSE {}

\* RolloutCollector.collect hands only `terminated` to the estimator.
CollectorReturns(path, ends) ==
    [i \in Envs |-> ComputeGAE(path[i], [k \in Times |-> ends[i][k] = "term"],
                               [k \in Times |-> Bonus(path[i], ends[i], k)])]

\* PQN._compute_targets: the same, with the maximal action value as the value.
PQNTargets(path, ends) ==
    [i \in Envs |-> ComputeGAE(path[i], [k \in Times |-> ends[i][k] = "term"],
                               [k \in Times |-> Bonus(path[i], ends[i], k)])]

\* RecurrentPPO._collect_rollout: terminated only, and no terminal observation.
RecurrentReturns(path, ends) ==
    [i \in Envs |-> ComputeGAE(path[i], [k \in Times |-> ends[i][k] = "term"],
                               [k \in Times |-> {}])]

\* MultiAgentCollector.collect: done if an agent terminated or was truncated.
MultiAgentReturns(path, ends) ==
    [i \in Envs |-> ComputeGAE(path[i], [k \in Times |-> ends[i][k] # "run"],
                               [k \in Times |-> {}])]

\* The returns the trainer learns from; Dreamer learns from imagined ones.
Returns(path, ends) ==
    CASE cfg.algo = "PQN" -> PQNTargets(path, ends)
      [] cfg.algo = "RecurrentPPO" -> RecurrentReturns(path, ends)
      [] cfg.algo = "MultiMAPPO" -> MultiAgentReturns(path, ends)
      [] OTHER -> CollectorReturns(path, ends)

---------------------------------------------------------------------------
(* Recurrent state                                                         *)

\* get_states zeroes the state before a step that starts an episode.
Begins(i, k, ends) == IF k = 1 THEN starts[i] ELSE ends[i][k - 1] # "run"

\* The LSTM state each step of the rollout was taken with.
ActedWith(path, ends) ==
    [i \in Envs |->
        LET seen[k \in Times] ==
                {path[i][k]} \cup (IF Begins(i, k, ends) THEN {}
                                   ELSE IF k = 1 THEN memory[i] ELSE seen[k - 1])
        IN seen]

\* _split_into_segments: a segment starts at 1 and wherever an episode begins.
Segments(i, ends) ==
    {s \in Times \X Times :
        /\ s[1] = 1 \/ Begins(i, s[1], ends)
        /\ s[1] <= s[2]
        /\ s[2] = cfg.steps \/ Begins(i, s[2] + 1, ends)
        /\ \A k \in s[1] + 1..s[2] : ~Begins(i, k, ends)}

\* Mutated form of InitialState: every segment is seeded with the state carried in.
InitialStateCarried(i, first, ends) == memory[i]

\* _pad_segments seeds a segment that does not begin an episode with the state
\* carried into the rollout.
InitialState(i, first, ends) == IF Begins(i, first, ends) THEN {} ELSE memory[i]

\* The state a step is evaluated with in the loss, next to the one it was taken with.
RecurrentReplay(path, ends) ==
    UNION {UNION {{[at |-> path[i][k], acted |-> ActedWith(path, ends)[i][k],
                    seen |-> InitialState(i, s[1], ends) \cup {path[i][j] : j \in s[1]..k}] :
                    k \in s[1]..s[2]} : s \in Segments(i, ends)} : i \in Envs}

\* _sample_sequences: a window of a stored sequence, zero-padded with done = 1.
Padding == [env |-> 0, ep |-> 0, t |-> 0]
Window(seq, first) ==
    [k \in 1..cfg.seqLen |->
        IF first + k - 1 <= Len(seq) THEN seq[first + k - 1] ELSE [at |-> Padding, done |-> TRUE]]

WindowStarts(seq) == 1..(IF Len(seq) > cfg.seqLen THEN Len(seq) - cfg.seqLen + 1 ELSE 1)

\* _train_world_model starts a window from zero and zeroes the state after a done.
DreamerReplay(window) ==
    LET seen[k \in 1..cfg.seqLen] ==
            {window[k].at} \cup (IF k = 1 \/ window[k - 1].done THEN {} ELSE seen[k - 1])
    IN  {[at |-> window[k].at, acted |-> {}, seen |-> seen[k]] :
            k \in {k \in 1..cfg.seqLen : window[k].at # Padding}}

\* The sequence buffer keeps the newest `capacity` sequences.
Appended(more) ==
    LET all == seqs \o more
    IN  IF Len(all) > cfg.capacity THEN SubSeq(all, Len(all) - cfg.capacity + 1, Len(all)) ELSE all

---------------------------------------------------------------------------
(* Gradient steps per rollout                                              *)

\* sample_minibatches drops the remainder that does not fill a minibatch.
Minibatches == Batch \div cfg.batch
PPOSteps == cfg.epochs * Minibatches
\* PQN's last minibatch may be short; its size is a part of the rollout.
PQNSteps ==
    LET size == IF Batch < cfg.parts THEN 1 ELSE Batch \div cfg.parts
    IN  cfg.epochs * ((Batch + size - 1) \div size)
\* RecurrentPPO's minibatches are sets of segments.
AllSegments(ends) == UNION {{<<i, s>> : s \in Segments(i, ends)} : i \in Envs}
RecurrentSteps(ends) == cfg.epochs * Least(cfg.parts, Cardinality(AllSegments(ends)))

\* One optimiser for policy and value head.
Joint(g) == [nets EXCEPT !.policy = @ + g, !.head = @ + g, !.rollouts = @ + 1]
\* MAPPO's loss reads the separate critic; the head of its actors gets no gradient.
MAPPOLearn(g) == [nets EXCEPT !.policy = @ + g, !.critic = @ + g, !.rollouts = @ + 1]
\* Mutated form of VPGLearn: the value loop is one short.
VPGLearnShort == [nets EXCEPT !.policy = @ + 1, !.head = @ + cfg.vf - 1, !.rollouts = @ + 1]
VPGLearn == [nets EXCEPT !.policy = @ + 1, !.head = @ + cfg.vf, !.rollouts = @ + 1]
\* The line search may find no step, or the gradient may vanish.
TRPOLearn(accepted) ==
    [nets EXCEPT !.policy = @ + (IF accepted THEN 1 ELSE 0), !.head = @ + cfg.vf, !.rollouts = @ + 1]
PQNLearn(g) == [nets EXCEPT !.policy = @ + g, !.rollouts = @ + 1]
\* The world model each time, actor and value once the buffer holds a batch.
DreamerLearn(n) ==
    LET g == IF n >= cfg.batch THEN 1 ELSE 0
    IN  [nets EXCEPT !.policy = @ + g, !.head = @ + g, !.world = @ + 1, !.rollouts = @ + 1]

\* The network whose values the advantages are measured against.
Baseline == IF cfg.algo = "MultiMAPPO" THEN nets.critic
            ELSE IF cfg.algo = "PQN" THEN nets.policy ELSE nets.head

---------------------------------------------------------------------------
(* Checkpoints                                                             *)

Defaults == [envs |-> 1, steps |-> 2, epochs |-> 1, batch |-> 1, parts |-> 1, vf |-> 1,
             norm |-> FALSE, seqLen |-> 1, capacity |-> 1, freq |-> 1, envFn |-> FALSE]

\* The callbacks are the caller's, so their period outlives the process.
Checkpoint(n, s, settings) ==
    [step |-> s, nets |-> n,
     cfg |-> [f \in DOMAIN cfg |->
                IF f \in settings \cup {"algo", "freq"} THEN cfg[f] ELSE Defaults[f]]]

Everything == DOMAIN Defaults
PPOSave(n, s) == Checkpoint(n, s, Everything)
A2CSave(n, s) == Checkpoint(n, s, {})
VPGSave(n, s) == Checkpoint(n, s, Everything)
TRPOSave(n, s) == Checkpoint(n, s, Everything)
PQNSave(n, s) == Checkpoint(n, s, Everything)
\* Neither the rollout's shape nor the environment factory is in the file.
MAPPOSave(n, s) == Checkpoint(n, s, {})
DreamerSave(n, s) == Checkpoint(n, 0, {})

Saving == Algorithms \ {"RecurrentPPO"}
Saved(n, s) ==
    CASE cfg.algo = "PPO" -> PPOSave(n, s)
      [] cfg.algo = "A2C" -> A2CSave(n, s)
      [] cfg.algo = "VPG" -> VPGSave(n, s)
      [] cfg.algo = "TRPO" -> TRPOSave(n, s)
      [] cfg.algo = "PQN" -> PQNSave(n, s)
      [] cfg.algo \in {"MAPPO", "MultiMAPPO"} -> MAPPOSave(n, s)
      [] cfg.algo = "Dreamer" -> DreamerSave(n, s)

Standing(n) == [i \in 1..n |-> [env |-> i, ep |-> 0, t |-> 0]]

\* The state of a new trainer, all but its weights and counter.
Constructed(c) ==
    /\ obs' = Standing(c.envs)
    /\ memory' = [i \in 1..c.envs |-> {}]
    /\ starts' = [i \in 1..c.envs |-> TRUE]
    /\ stats' = [count |-> 0, training |-> TRUE]
    /\ seqs' = <<>>
    /\ buffered' = 0
    /\ call' = Idle
    /\ raised' = FALSE
    /\ fed' = 0
    /\ last' = Nothing

FromCheckpoint(algo) ==
    /\ cfg.algo = algo
    /\ disk # NoCheckpoint
    /\ cfg' = disk.cfg
    /\ nets' = disk.nets
    /\ globalStep' = disk.step
    /\ Constructed(disk.cfg)
    /\ UNCHANGED <<total, disk>>

PPOFromCheckpoint == FromCheckpoint("PPO")
A2CFromCheckpoint == FromCheckpoint("A2C")
VPGFromCheckpoint == FromCheckpoint("VPG")
TRPOFromCheckpoint == FromCheckpoint("TRPO")
PQNFromCheckpoint == FromCheckpoint("PQN")
MAPPOFromCheckpoint == FromCheckpoint("MAPPO") \/ FromCheckpoint("MultiMAPPO")
DreamerFromCheckpoint == FromCheckpoint("Dreamer")

---------------------------------------------------------------------------
(* Callbacks                                                               *)

\* Mutated form of Due: the callback counts its own calls, not the step it is told.
DueByCalls(step) == (call.step + 1) % cfg.freq = 0

\* EvalCallback and CheckpointCallback act on exact multiples.
Due(step) == step % cfg.freq = 0

\* Mutated form of Evaluated: counting is not switched on again.
EvaluatedFrozen(s) == [s EXCEPT !.training = FALSE]

\* An evaluation switches counting off and, unless it raises, on again.
Evaluated(s) == [s EXCEPT !.training = TRUE]
EvaluationRaised(s) == [s EXCEPT !.training = FALSE]

\* VecNormalize counts n more observations.
Counted(n) == IF cfg.norm /\ stats.training THEN [stats EXCEPT !.count = @ + n] ELSE stats

\* CallbackList.on_step with an evaluation and a checkpoint that are due, then
\* one that may stop the call.  An exception leaves train() as it is.
OnStep(step, n, s) ==
    \E outcome \in {"go", "stop"} \cup (IF Due(step) THEN {"raise"} ELSE {}) :
        /\ stats' = IF outcome = "raise" THEN EvaluationRaised(s)
                    ELSE IF Due(step) THEN Evaluated(s) ELSE s
        /\ raised' = (raised \/ outcome = "raise")
        /\ disk' = IF Due(step) /\ outcome # "raise" /\ cfg.algo \in Saving
                   THEN Saved(n, step) ELSE disk
        /\ call' = IF outcome = "go" /\ call.step + 1 < call.total
                   THEN [call EXCEPT !.step = @ + 1] ELSE Idle

---------------------------------------------------------------------------
(* train()                                                                 *)

\* A multi-agent trainer without an environment factory raises at once.
Train ==
    /\ ~call.on
    /\ cfg.algo = "MultiMAPPO" => cfg.envFn
    /\ \E n \in 1..MaxRollouts :
         /\ total + n <= MaxTotal
         /\ call' = [on |-> TRUE, step |-> 0, total |-> n]
    /\ obs' = IF cfg.algo = "PQN" THEN AllReset ELSE obs
    /\ last' = Nothing
    /\ UNCHANGED <<cfg, memory, starts, stats, nets, seqs, buffered, globalStep, total, raised,
                   fed, disk>>

\* What the iteration collected, with the age of the values it was measured against.
Collected(path, ends, replay) ==
    /\ obs' = Reached(path)
    /\ total' = total + 1
    /\ last' = [on |-> TRUE, path |-> path, ends |-> ends, replay |-> replay,
                values |-> Baseline, rollouts |-> nets.rollouts]

\* The first rollout also sees the observations of the reset.
Fresh == IF obs[1].ep = 0 THEN cfg.envs ELSE 0

\* Collect with the RolloutCollector, learn, then the callbacks.
CollectThenLearn(learned, step) ==
    \E ends \in [Envs -> [Times -> Ends]] :
        LET path == Path(Continued, ends)
        IN  /\ Collected(path, ends, {})
            /\ nets' = learned
            /\ globalStep' = step
            /\ fed' = fed + Fresh + Batch
            /\ OnStep(step, learned, Counted(Fresh + Batch))
            /\ UNCHANGED <<cfg, memory, starts, seqs, buffered>>

PPOTrain == Running("PPO") /\ CollectThenLearn(Joint(PPOSteps), globalStep + PPOSteps)
A2CTrain == Running("A2C") /\ CollectThenLearn(Joint(1), globalStep + Batch)
VPGTrain == Running("VPG") /\ CollectThenLearn(VPGLearn, globalStep + Batch)
TRPOTrain ==
    /\ Running("TRPO")
    /\ \E accepted \in BOOLEAN : CollectThenLearn(TRPOLearn(accepted), globalStep + Batch)
MAPPOTrain == Running("MAPPO") /\ CollectThenLearn(MAPPOLearn(PPOSteps), globalStep + PPOSteps)

\* The latest checkpoint after the first k environment steps of a rollout.
SavedWithin(k) ==
    LET due == {j \in 1..k : Due(globalStep + j * cfg.envs)}
    IN  IF due = {} THEN disk
        ELSE Saved(nets, globalStep + cfg.envs * (CHOOSE j \in due : \A i \in due : i <= j))

\* PQN calls on_step after each environment step, before it learns, and does
\* not look at the answer: a checkpoint holds the networks of the rollout before.
PQNTrain ==
    /\ Running("PQN")
    /\ \E ends \in [Envs -> [Times -> Ends]] :
         LET path == Path(Continued, ends) IN Collected(path, ends, {})
    /\ disk' = SavedWithin(cfg.steps)
    /\ nets' = PQNLearn(PQNSteps)
    /\ globalStep' = globalStep + Batch
    /\ fed' = fed + Batch
    /\ call' = IF call.step + 1 < call.total THEN [call EXCEPT !.step = @ + 1] ELSE Idle
    /\ UNCHANGED <<cfg, memory, starts, stats, seqs, buffered, raised>>

\* An evaluation raises in the middle of a rollout: what was collected is lost,
\* the counter is not.
PQNRaises ==
    /\ Running("PQN")
    /\ \E ends \in [Envs -> [Times -> Ends]], k \in Times :
         /\ Due(globalStep + k * cfg.envs)
         /\ obs' = [i \in Envs |-> Path(Continued, ends)[i][k + 1]]
         /\ globalStep' = globalStep + k * cfg.envs
         /\ fed' = fed + k * cfg.envs
         /\ disk' = SavedWithin(k - 1)
    /\ total' = total + 1
    /\ raised' = TRUE
    /\ call' = Idle
    /\ last' = Nothing
    /\ UNCHANGED <<cfg, memory, starts, stats, nets, seqs, buffered>>

RecurrentPPOTrain ==
    /\ Running("RecurrentPPO")
    /\ \E ends \in [Envs -> [Times -> Ends]] :
         LET path == Path(Continued, ends)
             g == RecurrentSteps(ends)
         IN  /\ Collected(path, ends, RecurrentReplay(path, ends))
             /\ memory' = [i \in Envs |-> ActedWith(path, ends)[i][cfg.steps]]
             /\ starts' = [i \in Envs |-> ends[i][cfg.steps] # "run"]
             /\ nets' = Joint(g)
             /\ globalStep' = globalStep + g
             /\ OnStep(globalStep + g, Joint(g), stats)
    /\ fed' = fed + Fresh + Batch
    /\ UNCHANGED <<cfg, seqs, buffered>>

\* _train_multi_agent: one gradient step per epoch on the whole rollout.
MultiMAPPOTrain ==
    /\ Running("MultiMAPPO")
    /\ \E ends \in [Envs -> [Times -> Ends]] :
         LET path == Path(AllReset, ends)
         IN  Collected(path, ends, {})
    /\ nets' = MAPPOLearn(cfg.epochs)
    /\ globalStep' = globalStep + cfg.epochs
    /\ fed' = fed + Batch + cfg.envs
    /\ OnStep(globalStep + cfg.epochs, MAPPOLearn(cfg.epochs), stats)
    /\ UNCHANGED <<cfg, memory, starts, seqs, buffered>>

\* No callbacks and no counter.
DreamerTrain ==
    /\ Running("Dreamer")
    /\ \E ends \in [Envs -> [Times -> Ends]] :
         LET path == Path(AllReset, ends)
             sequence(i) == [k \in Times |-> [at |-> path[i][k], done |-> ends[i][k] # "run"]]
             more == Appended([i \in Envs |-> sequence(i)])
         IN  /\ seqs' = more
             /\ \E n \in 1..Len(more) : \E first \in WindowStarts(more[n]) :
                  Collected(path, ends, DreamerReplay(Window(more[n], first)))
    /\ buffered' = Least(buffered + Batch, cfg.capacity)
    /\ nets' = DreamerLearn(Least(buffered + Batch, cfg.capacity))
    /\ fed' = fed + Batch + cfg.envs
    /\ call' = IF call.step + 1 < call.total THEN [call EXCEPT !.step = @ + 1] ELSE Idle
    /\ UNCHANGED <<cfg, memory, starts, stats, globalStep, raised, disk>>

\* Trainer.evaluate between two calls.
Evaluate ==
    /\ ~call.on
    /\ \/ stats' = Evaluated(stats) /\ UNCHANGED raised
       \/ stats' = EvaluationRaised(stats) /\ raised' = TRUE
    /\ last' = Nothing
    /\ UNCHANGED <<cfg, obs, memory, starts, nets, seqs, buffered, call, globalStep, total, fed,
                   disk>>

\* Trainer.save between two calls.
Save ==
    /\ ~call.on
    /\ cfg.algo \in Saving
    /\ disk' = Saved(nets, globalStep)
    /\ last' = Nothing
    /\ UNCHANGED <<cfg, obs, memory, starts, stats, nets, seqs, buffered, call, globalStep, total,
                   raised, fed>>

---------------------------------------------------------------------------
Init ==
    /\ cfg \in Configs
    /\ obs = Standing(cfg.envs)
    /\ memory = [i \in Envs |-> {}]
    /\ starts = [i \in Envs |-> TRUE]
    /\ stats = [count |-> 0, training |-> TRUE]
    /\ nets = Untrained(cfg.algo)
    /\ seqs = <<>>
    /\ buffered = 0
    /\ call = Idle
    /\ globalStep = 0
    /\ total = 0
    /\ raised = FALSE
    /\ fed = 0
    /\ last = Nothing
    /\ disk = NoCheckpoint

Next ==
    \/ Train \/ Evaluate \/ Save
    \/ PPOTrain \/ A2CTrain \/ VPGTrain \/ TRPOTrain \/ PQNTrain \/ PQNRaises
    \/ RecurrentPPOTrain \/ MAPPOTrain \/ MultiMAPPOTrain \/ DreamerTrain
    \/ PPOFromCheckpoint \/ A2CFromCheckpoint \/ VPGFromCheckpoint \/ TRPOFromCheckpoint
    \/ PQNFromCheckpoint \/ MAPPOFromCheckpoint \/ DreamerFromCheckpoint

Spec == Init /\ [][Next]_vars

---------------------------------------------------------------------------
(* Properties                                                              *)

SameEpisode(o, p) == o.env = p.env /\ o.ep = p.ep

\* The step at which the episode of step k ends, or the rollout does.
Horizon(i, k) ==
    CHOOSE e \in k..cfg.steps :
        /\ e = cfg.steps \/ last.ends[i][e] # "run"
        /\ \A j \in k..e - 1 : last.ends[i][j] = "run"

\* An observation the return of step k may lead to with no termination in between.
BeforeTermination(path, ends, k, o) ==
    \E j \in k..cfg.steps :
        /\ \A m \in k..j - 1 : ends[m] # "term"
        /\ \/ o = path[j]
           \/ ends[j] # "term" /\ o \in {path[j + 1], Successor(path[j])}

\* A return collects every reward up to the end of the episode or of the rollout,
\* and nothing past a termination, of its own episode or of one it runs on into.
\* Past any other end it has the value of the observation the episode reached,
\* not only of the one after the reset.  Two trainers leave that out on
\* truncation: RecurrentPPO never reads terminal_obs (recurrent_ppo.py:686), the
\* multi-agent collector takes it for a termination (mappo.py:209).
ReturnsReachTheirHorizon ==
    (last.on /\ cfg.algo # "Dreamer") =>
        LET returns == Returns(last.path, last.ends) IN
        \A i \in Envs, k \in Times :
            LET e == Horizon(i, k)
                end == last.ends[i][e]
                path == last.path[i]
                ret == returns[i][k]
            IN  /\ \A j \in k..e : Reward(path[j]) \in ret
                /\ \A x \in ret : BeforeTermination(path, last.ends[i], k, x.at)
                /\ \/ end = "term"
                   \/ Value(Successor(path[e])) \in ret
                   \/ end = "trunc" /\ cfg.algo \in {"RecurrentPPO", "MultiMAPPO"}

\* Truncation too keeps a return in its episode: no reward and no value of the
\* next one flows into it.  What "Truncation handling is correct everywhere"
\* (docs/plans/python-code-review.md:178) says of RolloutCollector; it hands only
\* `terminated` to the estimator, which takes a truncated step for an ongoing one.
ReturnsStayInEpisode ==
    (last.on /\ cfg.algo # "Dreamer") =>
        \A i \in Envs, k \in Times :
            \A x \in Returns(last.path, last.ends)[i][k] : SameEpisode(x.at, last.path[i][k])

\* A step is learned from with the recurrent state of its own episode and of
\* nothing later: for RecurrentPPO with exactly the state it was taken with, the
\* whole episode so far, also when that began in an earlier rollout or train()
\* call; for a Dreamer window with a gapless run of the episode up to the step.
ReplayedMemoryIsTheEpisode ==
    last.on => \A r \in last.replay :
        /\ \A o \in r.seen : SameEpisode(o, r.at) /\ o.t <= r.at.t
        /\ \A o \in r.seen : \A t \in o.t..r.at.t : [o EXCEPT !.t = t] \in r.seen
        /\ cfg.algo = "RecurrentPPO" => r.seen = r.acted /\ [r.at EXCEPT !.t = 0] \in r.seen

\* The values advantages are measured against come from a network that was
\* fitted to each rollout the policy has learned from, over calls, stops and
\* restarts.  MAPPO with one agent is the exception: the collector asks the
\* actor's own value head (mappo.py:498), which the loss never reaches.  Without
\* a full minibatch PPO takes no step at all (batch.py:90).
BaselineIsTrained ==
    last.on => \/ last.values >= last.rollouts
               \/ cfg.algo = "MAPPO" /\ last.values = 0
               \/ cfg.algo = "PPO" /\ Minibatches = 0
               \/ cfg.algo = "Dreamer"

\* The normaliser has counted the observations the rollouts collected and none of
\* an evaluation; only an evaluation that raised leaves it frozen, until the next
\* one that does not.
NormalizerFollowsTraining ==
    cfg.norm => \/ stats.count = fed /\ stats.training
                \/ raised /\ stats.count <= fed

\* How far the counter moves in an iteration (PQN: in an environment step).
Stride ==
    CASE cfg.algo = "PQN" -> cfg.envs
      [] cfg.algo \in {"A2C", "VPG", "TRPO"} -> Batch
      [] cfg.algo \in {"PPO", "MAPPO"} -> PPOSteps
      [] OTHER -> cfg.epochs

\* When the counter hits the multiples of save_freq, the latest checkpoint is
\* never save_freq steps old, over calls, stops and restarts, unless an
\* evaluation raised before the save.  A counter that steps over the multiples,
\* as gradient steps and whole rollouts mostly do, is saved when it happens to
\* hit one; RecurrentPPO has no save and Dreamer no callbacks.
CheckpointsNeverOverdue ==
    \/ cfg.algo \in {"RecurrentPPO", "Dreamer"}
    \/ raised
    \/ Stride = 0
    \/ cfg.freq % Stride # 0 \/ globalStep % Stride # 0
    \/ globalStep - (IF disk = NoCheckpoint THEN 0 ELSE disk.step) < cfg.freq

=============================================================================
