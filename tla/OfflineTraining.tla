---------------------------- MODULE OfflineTraining ----------------------------
(***************************************************************************)
(* The trainers that learn from recorded steps: BC, TD3BC, CQL and IQL over *)
(* a fixed dataset, the decision tree policies (DTP) over all of it at once,*)
(* the Decision Transformer (DT) and the Diffusion policy over episodes     *)
(* each train() call collects, and CalQL and AWR over a buffer they fill    *)
(* while they train; callbacks that stop a call, and checkpoints.           *)
(*                                                                         *)
(* A step is <<episode, time>>.  A return is the sequence of steps whose    *)
(* rewards it adds up.  A network is the number of gradient steps it took.  *)
(***************************************************************************)
EXTENDS Integers, Sequences, FiniteSets, SequencesExt

CONSTANTS
    Configs,    \* hyperparameters and dataset an experiment may start from
    MaxSteps,   \* bound: argument of one train() call
    MaxGlobal   \* bound: _global_step over all calls and restarts

Positive == Nat \ {0}
Ends == {"run", "term", "trunc"}
\* Only the last episode of the arrays may be unfinished: an end is a flag in them.
Recorded ==
    {eps \in Seq([len: Positive, end: Ends]) : \A k \in 1..Len(eps) - 1 : eps[k].end # "run"}

\* delay is TD3BC's policy_delay, rounds AWR's n_critic_updates, obsH the context
\* or observation horizon, actH the action horizon, auto the tuning of cql_alpha,
\* entropy the tuning of CQL's temperature, discrete the kind of DT's actions, order
\* whether dataset.sample draws at random or returns what is stored.
Settings(algo, delay, rounds, obsH, actH, dataset) ==
    [algo: {algo}, batch: Positive, warmup: Nat, delay: delay, rounds: rounds, obsH: obsH,
     actH: actH, capacity: Positive, auto: BOOLEAN, entropy: BOOLEAN, discrete: BOOLEAN,
     dataset: dataset, order: {"drawn", "stored"}]

BCConfig == Settings("BC", {1}, {1}, {1}, {1}, Recorded)
TD3BCConfig == Settings("TD3BC", Positive, {1}, {1}, {1}, Recorded)
CQLConfig == Settings("CQL", {1}, {1}, {1}, {1}, Recorded)
IQLConfig == Settings("IQL", {1}, {1}, {1}, {1}, Recorded)
CalQLConfig == Settings("CalQL", {1}, {1}, {1}, {1}, {<<>>})
AWRConfig == Settings("AWR", {1}, Positive, {1}, {1}, {<<>>})
DecisionTransformerConfig == Settings("DT", {1}, {1}, Positive, {1}, {<<>>})
DiffusionPolicyConfig == Settings("Diffusion", {1}, {1}, Positive, Positive, {<<>>})
DTPConfig == Settings("DTP", {1}, {1}, {1}, {1}, Recorded)

Config == BCConfig \cup TD3BCConfig \cup CQLConfig \cup IQLConfig \cup CalQLConfig
              \cup AWRConfig \cup DecisionTransformerConfig \cup DiffusionPolicyConfig \cup DTPConfig
ASSUME ConfigsAssumption == \A c \in Configs : c \in Config
ASSUME BoundsAssumption == MaxSteps \in Nat \ {0} /\ MaxGlobal \in Nat

VARIABLES
    cfg,         \* hyperparameters of the live trainer
    data,        \* the transitions of the dataset or of the collected episodes, in order
    size,        \* len(buffer) of CalQL and AWR
    env,         \* episode and time of the environment CalQL and AWR step
    sofar,       \* the steps added up in ep_reward
    returns,     \* CalQL: _return_buffer
    calibrated,  \* CalQL: the returns _calibration_value was computed from
    nets,        \* gradient steps in each network
    count,       \* TD3BC: _update_count
    call,        \* the running train() call: its step and its number of steps
    globalStep,  \* _global_step
    last,        \* what the latest gradient step was taken on (history)
    born,        \* nets when the trainer was made or restored (history)
    disk         \* the checkpoint on disk

vars == <<cfg, data, size, env, sofar, returns, calibrated, nets, count, call,
          globalStep, last, born, disk>>

NoCheckpoint == [step |-> -1]
Idle == [on |-> FALSE, step |-> 0, total |-> 0]
Fresh == [critic |-> 0, target |-> 0, value |-> 0, actor |-> 0, actorTarget |-> 0,
          alpha |-> 0, penalty |-> 0]
Nothing == [kind |-> "none"]
Least(a, b) == IF a < b THEN a ELSE b
Most(a, b) == IF a > b THEN a ELSE b

---------------------------------------------------------------------------
(* Recorded steps                                                          *)

\* The arrays a dataset is made from, one episode after the other.
FromArrays(episodes) ==
    FlattenSeq([k \in DOMAIN episodes |->
        [i \in 1..episodes[k].len |->
            [ep |-> k, t |-> i - 1, end |-> IF i = episodes[k].len THEN episodes[k].end ELSE "run"]]])

\* n steps of a random policy; an episode ends at each step in cuts, the last
\* one may be left unfinished and is kept as well.
CollectEpisodes(n, cuts) ==
    LET before(i) == {c \in cuts \cup {0} : c < i}
        start(i) == CHOOSE c \in before(i) : \A d \in before(i) : d <= c
    IN  [i \in 1..n |-> [ep |-> Cardinality(before(i)), t |-> i - 1 - start(i),
                         end |-> IF i \in cuts THEN "term" ELSE "run"]]

Episodes == {data[i].ep : i \in DOMAIN data}
EpLen(k) == Cardinality({i \in DOMAIN data : data[i].ep = k})
Span(k, from, to) == [j \in 1..(to - from) |-> <<k, from + j - 1>>]

---------------------------------------------------------------------------
(* Decision Transformer: windows and returns to go                         *)

\* _compute_rtg: backwards over the rewards of the whole episode.
ComputeRtg(k) ==
    LET rtg[t \in 0..EpLen(k)] ==
            IF t = EpLen(k) THEN <<>> ELSE <<<<k, t>>>> \o rtg[t + 1]
    IN  rtg

\* Mutated form of DTStarts: the last start is left out.
DTStartsShort(k) == 0..(Most(1, EpLen(k) - cfg.obsH) - 1)

\* rng.integers(max(1, ep_len - context_length + 1)).
DTStarts(k) == 0..(Most(1, EpLen(k) - cfg.obsH + 1) - 1)

\* One element of _sample_batch; pad zero rows follow the steps.
DTWindow(k, start) ==
    LET end == Least(start + cfg.obsH, EpLen(k))
        steps == Span(k, start, end)
    IN  [kind |-> "window", obs |-> steps, acts |-> steps, pad |-> cfg.obsH - Len(steps),
         rtg |-> [j \in DOMAIN steps |-> ComputeRtg(k)[start + j - 1]]]

DTSampleBatch == UNION {{DTWindow(k, start) : start \in DTStarts(k)} : k \in Episodes}

\* np.pad(a, (0, pad_len)) pads every axis: rows of continuous actions get wider as
\* well, which np.stack or the embedding rejects.
Rejected(w) == ~cfg.discrete /\ w.pad > 0
DTTrainable == {w \in DTSampleBatch : ~Rejected(w)}

---------------------------------------------------------------------------
(* Diffusion policy: observation and action windows                        *)

\* A short episode is padded with its last state and action.
PaddedLen(k) == Most(EpLen(k), cfg.obsH + cfg.actH - 1)
PaddedSpan(k, from, to) == [j \in 1..(to - from) |-> <<k, Least(from + j, EpLen(k)) - 1>>]

DiffusionStarts(k) == 0..(Most(1, PaddedLen(k) - cfg.obsH - cfg.actH + 2) - 1)

ActionsFrom(k, start, actStart) ==
    [kind |-> "window", obs |-> PaddedSpan(k, start, start + cfg.obsH),
     acts |-> PaddedSpan(k, actStart, Least(actStart + cfg.actH, PaddedLen(k))),
     pad |-> 0, rtg |-> <<>>]

\* The actions begin with the one taken at the last observation of the window.
DiffusionWindow(k, start) == ActionsFrom(k, start, start + cfg.obsH - 1)

DiffusionSampleBatch == UNION {{DiffusionWindow(k, s) : s \in DiffusionStarts(k)} : k \in Episodes}

---------------------------------------------------------------------------
(* Decision tree policies: returns and timesteps of a sample of everything *)

\* dataset.sample(len(dataset), seed=0): the built-in buffer draws each
\* transition at random, a dataset of the user's may return what it stores.
WholeSample ==
    IF cfg.order = "stored" THEN {[i \in DOMAIN data |-> i]} ELSE [DOMAIN data -> DOMAIN data]

StepAt(i) == <<data[i].ep, data[i].t>>
Terminated(i) == data[i].end = "term"

\* _compute_episode_returns: backwards, from zero at each terminated transition.
ComputeEpisodeReturns(draw) ==
    LET n == Len(draw)
        sum[i \in 1..n + 1] ==
            IF i = n + 1 THEN <<>>
            ELSE <<StepAt(draw[i])>> \o (IF Terminated(draw[i]) THEN <<>> ELSE sum[i + 1])
    IN  [i \in 1..n |-> sum[i]]

ComputeTimesteps(draw) ==
    LET time[i \in 1..Len(draw)] ==
            IF i = 1 \/ Terminated(draw[i - 1]) THEN 0 ELSE time[i - 1] + 1
    IN  time

---------------------------------------------------------------------------
(* Gradient steps                                                          *)

BCUpdate == [nets EXCEPT !.actor = @ + 1]

\* Critics and their targets each time, actor and its target with a delay.
TD3BCUpdate ==
    LET due == (count + 1) % cfg.delay = 0
        k == IF due THEN 1 ELSE 0
    IN  [nets EXCEPT !.critic = @ + 1, !.target = nets.critic + 1, !.actor = @ + k,
                     !.actorTarget = IF due THEN nets.actor + 1 ELSE @]

\* Penalty weight if tuned, critics, actor, temperature if tuned, targets.
CQLUpdate ==
    [nets EXCEPT !.penalty = @ + (IF cfg.auto THEN 1 ELSE 0), !.critic = @ + 1,
                 !.target = nets.critic + 1, !.actor = @ + 1,
                 !.alpha = @ + (IF cfg.entropy THEN 1 ELSE 0)]

\* Value function, critics, targets, actor.
IQLUpdate ==
    [nets EXCEPT !.value = @ + 1, !.critic = @ + 1, !.target = nets.critic + 1, !.actor = @ + 1]

\* Penalty weight if tuned, critics, actor, temperature, targets.
CalQLUpdate ==
    [nets EXCEPT !.penalty = @ + (IF cfg.auto THEN 1 ELSE 0), !.critic = @ + 1,
                 !.target = nets.critic + 1, !.actor = @ + 1, !.alpha = @ + 1]

\* n_critic_updates steps of the critic towards the same targets, then the actor.
AWRUpdate == [nets EXCEPT !.critic = @ + cfg.rounds, !.actor = @ + 1]

DTUpdate == [nets EXCEPT !.actor = @ + 1]
DiffusionUpdate == [nets EXCEPT !.actor = @ + 1]

---------------------------------------------------------------------------
(* train() over a fixed dataset                                            *)

Is(algorithms) == cfg.algo \in algorithms
OverDataset == {"BC", "TD3BC", "CQL", "IQL"}
CollectsEpisodes == {"DT", "Diffusion"}
Online == {"CalQL", "AWR"}

Start(n) == call' = [on |-> TRUE, step |-> 0, total |-> n]
Continue(go) ==
    call' = IF go /\ call.step + 1 < call.total THEN [call EXCEPT !.step = @ + 1] ELSE Idle

\* Mutated form of OfflineTrain: the update counter is a local of train().
OfflineTrainCountsAnew ==
    /\ Is(OverDataset) /\ ~call.on
    /\ \E n \in 1..MaxSteps : globalStep + n <= MaxGlobal /\ Start(n)
    /\ count' = 0 /\ last' = Nothing
    /\ UNCHANGED <<cfg, data, size, env, sofar, returns, calibrated, nets, globalStep, born, disk>>

OfflineTrain ==
    /\ Is(OverDataset) /\ ~call.on
    /\ \E n \in 1..MaxSteps : globalStep + n <= MaxGlobal /\ Start(n)
    /\ last' = Nothing
    /\ UNCHANGED <<cfg, data, size, env, sofar, returns, calibrated, nets, count, globalStep,
                   born, disk>>

\* sample, _update, on_step: a callback may end the call.
OfflineStep ==
    /\ Is(OverDataset) /\ call.on /\ data # <<>>
    /\ nets' = CASE Is({"BC"}) -> BCUpdate [] Is({"TD3BC"}) -> TD3BCUpdate
                 [] Is({"CQL"}) -> CQLUpdate [] Is({"IQL"}) -> IQLUpdate
    /\ count' = count + 1
    /\ globalStep' = globalStep + 1
    /\ \E go \in BOOLEAN : Continue(go)
    /\ UNCHANGED <<cfg, data, size, env, sofar, returns, calibrated, last, born, disk>>

\* The trees are fitted to the whole sample, again at each call.
DTPTrain ==
    /\ Is({"DTP"}) /\ data # <<>>
    /\ \E draw \in WholeSample :
           last' = [kind |-> "trees", draw |-> draw, ret |-> ComputeEpisodeReturns(draw),
                    time |-> ComputeTimesteps(draw)]
    /\ nets' = [nets EXCEPT !.actor = 1]
    /\ UNCHANGED <<cfg, data, size, env, sofar, returns, calibrated, count, call, globalStep,
                   born, disk>>

---------------------------------------------------------------------------
(* train() over episodes of its own                                        *)

\* max(warmup_steps, total) random steps, max(1, total // batch_size) updates.
CollectAndTrain ==
    /\ Is(CollectsEpisodes) /\ ~call.on
    /\ \E total \in 1..MaxSteps :
           LET n == Most(cfg.warmup, total)
               updates == Most(1, total \div cfg.batch)
           IN  /\ globalStep + updates <= MaxGlobal
               /\ \E cuts \in SUBSET (1..n) : data' = CollectEpisodes(n, cuts)
               /\ Start(updates)
    /\ last' = Nothing
    /\ UNCHANGED <<cfg, size, env, sofar, returns, calibrated, nets, count, globalStep, born, disk>>

WindowStep(windows, updated) ==
    /\ call.on
    /\ last' \in windows
    /\ nets' = updated
    /\ globalStep' = globalStep + 1
    /\ Continue(TRUE)
    /\ UNCHANGED <<cfg, data, size, env, sofar, returns, calibrated, count, born, disk>>

DTStep == Is({"DT"}) /\ WindowStep(DTTrainable, DTUpdate)

\* A batch with a rejected window ends the call.
DTRaises ==
    /\ Is({"DT"}) /\ call.on
    /\ \E w \in DTSampleBatch : Rejected(w)
    /\ call' = Idle /\ last' = Nothing
    /\ UNCHANGED <<cfg, data, size, env, sofar, returns, calibrated, nets, count, globalStep,
                   born, disk>>

DiffusionStep == Is({"Diffusion"}) /\ WindowStep(DiffusionSampleBatch, DiffusionUpdate)

---------------------------------------------------------------------------
(* train() that fills its buffer                                           *)

\* The environment is reset and ep_reward starts at zero.
OnlineTrain ==
    /\ Is(Online) /\ ~call.on
    /\ \E n \in 1..MaxSteps : globalStep + n <= MaxGlobal /\ Start(n)
    /\ env' = [ep |-> env.ep + 1, t |-> 0]
    /\ sofar' = <<>>
    /\ last' = Nothing
    /\ UNCHANGED <<cfg, data, size, returns, calibrated, nets, count, globalStep, born, disk>>

\* env.step, _push, and the reset when the episode is over.
Collect(end) ==
    /\ size' = Least(size + 1, cfg.capacity)
    /\ IF end = "run"
       THEN env' = [env EXCEPT !.t = @ + 1] /\ sofar' = Append(sofar, <<env.ep, env.t>>)
       ELSE env' = [ep |-> env.ep + 1, t |-> 0] /\ sofar' = <<>>

\* _update_calibration: the quantile of all returns so far.
Calibrate(end) ==
    IF end = "run" THEN UNCHANGED <<returns, calibrated>>
    ELSE /\ returns' = Append(returns, Append(sofar, <<env.ep, env.t>>))
         /\ calibrated' = returns'

\* Past the warm-up of the call, with a batch in the buffer.
Due == call.step >= cfg.warmup /\ size' >= cfg.batch

\* No callback is asked: the call runs to its end.
OnlineStep(updated) ==
    /\ call.on
    /\ nets' = IF Due THEN updated ELSE nets
    /\ globalStep' = globalStep + 1
    /\ Continue(TRUE)
    /\ UNCHANGED <<cfg, data, count, last, born, disk>>

CalQLStep(end) == Is({"CalQL"}) /\ Collect(end) /\ Calibrate(end) /\ OnlineStep(CalQLUpdate)
AWRStep(end) ==
    Is({"AWR"}) /\ Collect(end) /\ OnlineStep(AWRUpdate) /\ UNCHANGED <<returns, calibrated>>

---------------------------------------------------------------------------
(* Checkpoints                                                             *)

\* What each constructor makes; the networks of one trainer.
CalQLNetworks == {"actor", "critic", "target", "alpha", "penalty"}
AWRNetworks == {"actor", "critic"}
DTNetworks == {"actor"}
DiffusionNetworks == {"actor"}
DTPNetworks == {"actor"}

Keep(names) == [x \in DOMAIN Fresh |-> IF x \in names THEN nets[x] ELSE 0]
File(names, r, c) == [step |-> globalStep, nets |-> Keep(names), returns |-> r, calibrated |-> c]

\* Mutated form of CalQLSave: the returns are left out.
CalQLSaveWithoutReturns == File(CalQLNetworks \ {"alpha", "penalty"}, <<>>, calibrated)

\* Neither temperature is in the file, nor is the buffer.
CalQLSave == File(CalQLNetworks \ {"alpha", "penalty"}, returns, calibrated)
AWRSave == File(AWRNetworks, <<>>, <<>>)
DTSave == File(DTNetworks, <<>>, <<>>)
DiffusionSave == File(DiffusionNetworks, <<>>, <<>>)

\* A directory with one file per fitted model; _global_step is not kept.
DTPSave == [File(DTPNetworks, <<>>, <<>>) EXCEPT !.step = 0]

Save ==
    /\ Is(Online \cup CollectsEpisodes \cup {"DTP"}) /\ ~call.on
    /\ disk' = CASE Is({"CalQL"}) -> CalQLSave [] Is({"AWR"}) -> AWRSave [] Is({"DT"}) -> DTSave
                 [] Is({"Diffusion"}) -> DiffusionSave [] Is({"DTP"}) -> DTPSave
    /\ last' = Nothing
    /\ UNCHANGED <<cfg, data, size, env, sofar, returns, calibrated, nets, count, call,
                   globalStep, born>>

\* A new process constructs the trainer from the file's settings and loads it.
Restored ==
    /\ disk # NoCheckpoint
    /\ nets' = disk.nets /\ born' = disk.nets
    /\ globalStep' = disk.step
    /\ data' = <<>> /\ size' = 0 /\ sofar' = <<>> /\ env' = [ep |-> 0, t |-> 0]
    /\ call' = Idle /\ count' = 0 /\ last' = Nothing
    /\ UNCHANGED <<cfg, disk>>

CalQLFromCheckpoint ==
    /\ Is({"CalQL"}) /\ Restored
    /\ returns' = disk.returns /\ calibrated' = disk.calibrated

AWRFromCheckpoint == Is({"AWR"}) /\ Restored /\ UNCHANGED <<returns, calibrated>>
DTFromCheckpoint == Is({"DT"}) /\ Restored /\ UNCHANGED <<returns, calibrated>>
DiffusionFromCheckpoint == Is({"Diffusion"}) /\ Restored /\ UNCHANGED <<returns, calibrated>>

\* Loads one file per action dimension, which only a fitted policy has written;
\* the restored policy has no dataset.
DTPFromCheckpoint ==
    /\ Is({"DTP"}) /\ Restored /\ disk.nets.actor > 0
    /\ UNCHANGED <<returns, calibrated>>

---------------------------------------------------------------------------
Init ==
    /\ cfg \in Configs
    /\ data = FromArrays(cfg.dataset)
    /\ size = 0 /\ env = [ep |-> 0, t |-> 0] /\ sofar = <<>>
    /\ returns = <<>> /\ calibrated = <<>>
    /\ nets = Fresh /\ born = Fresh /\ count = 0
    /\ call = Idle /\ globalStep = 0 /\ last = Nothing /\ disk = NoCheckpoint

Next ==
    \/ OfflineTrain \/ OfflineStep \/ DTPTrain
    \/ CollectAndTrain \/ DTStep \/ DTRaises \/ DiffusionStep
    \/ OnlineTrain
    \/ \E end \in Ends : CalQLStep(end) \/ AWRStep(end)
    \/ Save
    \/ CalQLFromCheckpoint \/ AWRFromCheckpoint \/ DTFromCheckpoint
    \/ DiffusionFromCheckpoint \/ DTPFromCheckpoint

Spec == Init /\ [][Next]_vars

---------------------------------------------------------------------------
(* Properties                                                              *)

\* Over any sequence of calls, stops and restores the networks keep the ratios
\* the algorithm prescribes: TD3BC's actor takes one step in policy_delay of all
\* its critic's steps, not of each call's (td3_bc.py:149-166); AWR's critic takes
\* n_critic_updates for each of the actor's (awr.py:242-271); targets have seen the
\* latest critic; the step counter counts gradient steps where there is no
\* environment (base.py:74, decision_transformer.py:413). A temperature that is
\* tuned moves with the actor, CQL's only if it is asked to (cql.py:219); both
\* start over when CalQL is restored (calql.py:458-476).
NetworksInPace ==
    /\ Is({"BC", "CQL", "IQL", "DT", "Diffusion"}) => nets.actor = globalStep
    /\ Is({"TD3BC"}) =>
           /\ nets.critic = globalStep /\ nets.target = nets.critic
           /\ nets.actor = globalStep \div cfg.delay /\ nets.actorTarget = nets.actor
    /\ Is({"CQL", "IQL", "CalQL"}) => nets.critic = nets.actor /\ nets.target = nets.critic
    /\ Is({"IQL"}) => nets.value = nets.critic
    /\ Is({"CQL", "CalQL"}) =>
           /\ nets.alpha = IF Is({"CalQL"}) \/ cfg.entropy THEN nets.actor - born.actor ELSE 0
           /\ nets.penalty = IF cfg.auto THEN nets.actor - born.actor ELSE 0
    /\ Is({"AWR"}) => nets.critic = cfg.rounds * nets.actor
    /\ Is(Online) => nets.actor <= globalStep

Consecutive(steps) ==
    \A j \in 1..Len(steps) - 1 : steps[j + 1] = <<steps[j][1], steps[j][2] + 1>>

TaughtActions(windows) == UNION {{w.acts[j] : j \in DOMAIN w.acts} : w \in windows}

\* A training window is a run of steps of one episode. The Decision Transformer
\* pads only an episode shorter than its context (decision_transformer.py:339-354).
\* The Diffusion policy's actions begin at the last observation of the window, and
\* steps repeat only at the end of an episode too short for a window
\* (diffusion_policy.py:383-402). Every action from there on can be drawn: no start
\* is missing at the end of an episode. What the Decision Transformer can be taught
\* is every step of every episode; with continuous actions, of every episode as long
\* as its context, since a padded window ends the call (decision_transformer.py:352).
WindowsAreTheEpisodes ==
    /\ last.kind = "window" => Len(last.obs) + last.pad = cfg.obsH
    /\ (last.kind = "window" /\ Is({"DT"})) =>
           /\ Consecutive(last.obs) /\ last.acts = last.obs
           /\ (last.pad > 0) => Len(last.obs) = EpLen(last.obs[1][1])
    /\ (last.kind = "window" /\ Is({"Diffusion"})) =>
           /\ last.acts[1] = last.obs[cfg.obsH] /\ Len(last.acts) = cfg.actH
           /\ (EpLen(last.obs[1][1]) >= cfg.obsH + cfg.actH - 1) =>
                  Consecutive(last.obs \o Tail(last.acts))
    /\ (call.on /\ Is({"DT"})) =>
           TaughtActions(DTTrainable) =
               {StepAt(i) : i \in {j \in DOMAIN data :
                                      cfg.discrete \/ EpLen(data[j].ep) >= cfg.obsH}}
    /\ (call.on /\ Is({"Diffusion"})) =>
           {StepAt(i) : i \in {j \in DOMAIN data : data[j].t >= cfg.obsH - 1}}
               \subseteq TaughtActions(DiffusionSampleBatch)

WholeEpisode(r) == r # <<>> /\ r[1][2] = 0 /\ Consecutive(r)
ToTheEnd(k, t) == Span(k, t, EpLen(k))
InOrder(draw) ==
    /\ \A i \in DOMAIN data : draw[i] = i
    /\ \A i \in 1..Len(data) - 1 : data[i].end # "trunc"

\* What a policy is conditioned on or weighted by is the return of the step's own
\* episode, to its end. For the Decision Transformer that holds of every window,
\* also in the middle of an episode (decision_transformer.py:336-345). For the tree
\* policies it holds when the sample comes in the order of the dataset and no
\* episode before the last was truncated (dtp.py:225-241): only terminated is
\* looked at, and the built-in buffer draws at random. CalQL calibrates on returns
\* of whole episodes, all of them, also after a cut-off call or a restore
\* (calql.py:250-256, 323-327, 472-497).
ReturnsAreTheEpisodes ==
    /\ (last.kind = "window" /\ Is({"DT"})) =>
           \A j \in DOMAIN last.obs : last.rtg[j] = ToTheEnd(last.obs[j][1], last.obs[j][2])
    /\ (last.kind = "trees" /\ InOrder(last.draw)) =>
           \A i \in DOMAIN data : /\ last.ret[i] = ToTheEnd(data[i].ep, data[i].t)
                                  /\ last.time[i] = data[i].t
    /\ \A i \in DOMAIN returns : WholeEpisode(returns[i])
    /\ calibrated = returns

=============================================================================
