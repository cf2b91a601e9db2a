# rlox: TLA+ models and proofs

rlox is a Rust data plane (environments, replay buffers, rollout collection, a
server that runs generated programs in sandboxes) under a Python control plane
(some twenty-five algorithms and their training loops, actors on threads and
remote workers). This directory holds TLA+ modules that model the
parts of it whose correctness depends on order, interleaving, failure or index
arithmetic, the TLC configurations that check them, and TLAPS proofs.

Paths below are relative to the root of the repository. `PROJECT.json` maps every
definition that models code to its lines, and lists the runs, the mutated
definitions each property is known to reject, the hazards, the findings and the
theorems.

## 1. Inventory

### What is modelled

| Part | State it keeps | Operations | Talks to | What is hard | What makes it correct |
|---|---|---|---|---|---|
| Replay ring `crates/rlox-core/src/buffer/{ringbuf,extra_columns,concurrent}.rs` | parallel columns, `write_pos`, `count`, extra columns | push, push_batch, push_extra, sample, sample_recent | training loops; base of the episode buffers | index arithmetic over the wrap-around; extra columns written by a second call | counting back from `write_pos` gives the newest rows in order; a sample comes from the promised window; extra values land in their own row |
| Memory-mapped replay `buffer/mmap.rs` | ring in memory, ring in a file, a writable and a read-only map, `mmap_stale` | push, push_batch, sample, close | file system | two rings and a cached view of one of them; errors between two steps; reopening after close | memory and file are one window; the view is never stale when used; no panic |
| Episode buffers `buffer/{episode,sequence,her}.rs` | a ring, and the episodes known by ring position and length | push, sample_sequences, sample_with_relabeling | training loops | rows are overwritten under the episodes; rejected pushes; episodes longer than the ring | a sequence or a goal never crosses an episode; complete episodes are not given up early |
| Rollout pipeline `crates/rlox-core/src/pipeline/*.rs`, `crates/rlox-candle/src/collector.rs`, `PyCandleCollector` in `crates/rlox-python/src/nn.rs` | collector thread, stop flag, bounded channel, shared policy | recv, try_recv, sync_weights, stop, drop | environments, Candle policy, Python | a thread, a full channel, stop against send, weights changing under a rollout | whole rollouts, in order; stop returns; staleness bounded |
| HybridPPO loop `python/rlox/algorithms/hybrid_ppo.py` | the collector, the PyTorch weights | train | rollout pipeline | a collector is replaced on every update, while its thread already runs | no batch of an earlier update is trained on; `train` ends |
| IMPALA and the Python pipeline `python/rlox/algorithms/impala.py`, `python/rlox/distributed/{remote_env,pipeline}.py`, `crates/rlox-grpc/src/server.rs` | policy under a lock, bounded queue, stop event, actor threads; per worker its environments | train, save, from_checkpoint; reset_all, step_all; next_batch, try_next_batch, close | environments on other machines, callbacks | threads that outlive `train`; calls that fail, time out or execute late; workers of unequal size | a snapshot is one version of the policy; a rollout is unbroken; actors stop; `train` ends |
| Off-policy trainers `python/rlox/algorithms/{sac,td3,dqn,crossq,tqc,mpo,qmix}.py`, `off_policy_collector.py` | networks and targets, replay buffer, n-step deque, `_global_step`, counters | train, save, from_checkpoint | replay buffers, environments with automatic reset, callbacks | two collection paths; counters of the object, of the call and of neither; calls cut short and restored | a bootstrap stays in its episode; targets, actor and critic keep pace; updates wait for the policy |
| Rollout trainers `python/rlox/algorithms/{ppo,a2c,vpg,trpo,pqn,recurrent_ppo,mappo,dreamer}.py`, `collectors.py`, `batch.py`, `vec_normalize.py`, `callbacks.py` | networks, rollout, recurrent state, running statistics, step counter | train, save, from_checkpoint, the callbacks of a step | environments with automatic reset, evaluation, files | three ways a rollout can end at each step; memory carried over rollouts and calls; an evaluation that raises | returns reach their horizon; memory is the episode's; baseline, normaliser and checkpoints follow the training |
| Offline and sequence-model trainers `python/rlox/algorithms/{bc,td3_bc,cql,iql,calql,awr,decision_transformer,diffusion_policy,dtp}.py`, `offline/base.py` | networks, dataset or buffer, list of returns, counters | train, save, from_checkpoint | datasets, environments, callbacks | windows and paddings at episode boundaries; returns computed from an order; checkpoints that leave state out | windows and returns are the episode's; networks keep pace |
| Sandbox server `crates/rlox-sandbox/src/server.rs` | a semaphore of slots, a JoinSet per task, telemetry | /rollout, /verify | model server, sandbox worker, HTTP clients | slots taken and returned by hand; results in any order; cancellation at every await | slots are conserved; results in index order; telemetry consistent; requests end |
| Sandbox worker `crates/rlox-sandbox/src/{worker,cgroup}.rs` | cgroup leaf, scripts, pipes, child | run_sandboxed | kernel, child process | each step can fail; the child can die anywhere; deadlines; the call can be abandoned | the program runs confined or not at all; a return leaves nothing behind; the result tells what ran |

### What is not modelled

The components are all listed in `PROJECT.json`; section 6 gives the reasons. In
short: prioritized replay (a tree over floating-point priorities), environment
physics, neural networks and floating-point operators, the seccomp program (a
table of system calls; the model has "installed or not"), bindings that only
convert arguments, asynchronous checkpoint files, population training and
self-play, LLM post-training, deployment, registries, dashboards, documentation.

### How the parts interact

```
 HybridPPO.train ──recv/stop/sync──▶ PyCandleCollector ──▶ channel ◀── collector thread ──▶ environments
     HybridTrainer                        RolloutPipeline  (implements BoundedChannel)

 IMPALA.train ◀──queue── actor threads ──step_all──▶ environments of their own or gRPC workers
        └──policy, under a lock──▶┘       ActorLearner

 Trainer.train ──▶ OffPolicyTraining, RolloutTraining, OfflineTraining ──on_step──▶ callbacks
                        │ push/sample, collect                    │ save / from_checkpoint
                        ▼                                         ▼
                   replay buffers, environments              checkpoint files

 training loops ──push/sample──▶ replay ring ◀── episode tracker      memory ring ──spill──▶ file ring
                                 ReplayRing       EpisodeBuffer                MmapReplay
                                   └────────(both implement SlidingWindow)────────┘

 HTTP client ──▶ server handler ──slot──▶ run_sandboxed ──clone──▶ child
                 SandboxServer            SandboxWorker
```

`HybridTrainer` extends `RolloutPipeline`: its actions are the pipeline's actions
under the order of the Python code. `SandboxServer` sees one call of
`run_sandboxed` as a box that runs and then exits with one of the statuses
`SandboxWorker` returns; `SandboxWorker` takes that box apart. The three training
modules see a replay buffer as the number of transitions it holds, which is what
their loops ask of it; that a sample comes from what was stored is
`SlidingWindow`'s promise, which both buffers keep.

## 2. Modules

### Replay buffers

`Rings` has the circular storage as operators on a record `[slots, pos, count]`
(`RingPush` for `push_slices`, `RecentIndex` for the index computation of
`sample_recent`) and the two facts the index arithmetic has to achieve
(`NewestFirst`, `FillsFromZero`). The columns of the code are always written and
read together at one index, so a row is the arrival number of its transition.

`ReplayRing` has an action per operation: `Push`, `BeginBatch`/`BatchRow` (the
loop of `push_batch`; nothing else runs between its rows because the caller holds
the buffer), `PushExtra`, `Sample`, `SampleRecent`. `ConcurrentReplayBuffer`
holds its mutex for a whole call and so has the same behaviours. A call whose
shapes are rejected changes nothing.

`MmapReplay` has two rings: `Push` spills the oldest row of the memory ring
(`Spill`, for `write_to_cold`) and then stores. `view` is what the read-only map
shows. The code promises only that a map shows what was flushed before it was
made; the model therefore makes it a snapshot. On a system where a shared map
follows the file at once the code has fewer behaviours than the model.
`SpillFails` and `RefreshFails` are the error returns and the panics of the file
operations; a file that has only its header (`ColdCapacity = 0`) fails every spill.
`CloseFails` is a close whose `remove_file` fails, after the maps and the handle are
gone: the rows of the file stay counted, and the history variable `lost` remembers
which they were. The next spill truncates the file, and they read as zeros.

`SlidingWindow` is the abstract specification: a buffer holds the newest N
transitions, gives up only the oldest and only when it must (or, if `MayForget`,
when it is closed, whether that succeeds or not), and a batch is drawn from what is
held. Both buffers implement it (`RefinesWindow`); the zeros that a failed close leaves
among the rows of the memory-mapped one stand for no transition and are set aside.

`EpisodeBuffer` extends `ReplayRing`, as the buffers own a `ReplayBuffer`, and puts
the tracker over its ring: `RangesOverlap`, `Invalidated`, `Notified` for
`ring_range_overlaps`, `invalidate_overwritten`, `notify_push`; `PushSlices` and
`PushRejected` for the accepted and the rejected path of `push_slices` (an accepted
one is one `Push` of the ring; room is made before the ring looks at the shapes). `WindowStarts` and
`GoalOffsets` are what the two sampling operations may draw. History variables
`home` and `first` record to which real episode a row belongs; the tracker does
not see them. The float reward of a relabelled goal is left out. The run of both
modules (`MCReplayBuffers`) starts as a plain ring or as one that a tracker owns.

### Rollout pipeline and trainer

`RolloutPipeline` has the collector's thread as a program counter through its
loop: reset, check the stop flag, value and action callbacks (each takes the read
lock of the policy by itself, so a `sync_weights` may fall between them), the
environment step, the bootstrap value, and a send that waits at most 50 ms and
looks at the stop flag between tries. The learner makes one call at a time:
`CallRecv`/`RecvReturns`, `TryRecv`, `SyncWeights`, `CallStop`/`StopReturns` (the
join), and the three steps of a drop. The channel holds a sender of its own, so
`recv` is never told that the collector is gone. Batches are numbered modulo
`Capacity + 3`: at most `Capacity + 2` numbers can be in sight at a time, so the
numbering loses nothing and the collector may run forever. `EnvFails` (an
environment error) and `CallbackPanics` (the network cannot be evaluated) end the
thread, as in the code, without a sign to the learner.

`BoundedChannel` is the abstract first-in first-out channel that the pipeline
implements (`RefinesChannel`): while the receiver exists, a batch accepted leaves it
only by being taken, in order, also after the sender has gone; dropping the receiver,
once and for good, is the only step that loses one.

`HybridTrainer` is `train`: receive, stop, train, make a new collector, sync the
weights, callbacks. Version 0 stands for the weights a new Candle policy is
initialised with; version v for the PyTorch weights after v updates. `TrainAgain`
is a second call of `train` on the collector the first one stopped.

### Actors and learner

`ActorLearner` has the actor threads of every `train` call, each with a program
counter: connect, reset the pool worker by worker, check the stop event, take the
policy lock, copy the policy tensor by tensor, step the workers one after the
other for `n_steps` rows, offer the rollout, put it within the timeout. The main
thread runs `on_training_start`, which may raise before there is anything to set the
stop event (`StartRaises`), gets a rollout or times out, computes the loss, takes the lock, writes the
tensors one by one, runs the callbacks, and at the end sets the stop event and
joins for a limited time. The policy is two tensors, each the number of its
updates. Of an environment only this is kept: whose last observation of it is
still current (`seen`). Whether actors were left running by a raise, and whether a
later call's then ran beside them, is the history variable `strays`. A rollout is the snapshot it was collected with and the
workers that were stepped on an outdated observation (`torn`). A call that failed
or timed out may still be executed by its worker (`late`,
`WorkerExecutesLate`). `PartitionAddresses` deals the workers out to the actors;
`WorkerEnvs` and `SentAsDiscrete` say what a pool sends and `Accepts` what a worker
takes. `FromCheckpoint` is a new process with what the file restores. The Python
`Pipeline` is one such actor that acts at random: it has no policy to copy, its
thread starts when it is made, and `NextBatch`/`BatchReturned`, `TryNextBatch` and
`Close` stand in the place of `train`.

### Training loops

`OffPolicyTraining`, `RolloutTraining` and `OfflineTraining` each model a family
of trainers that share a loop. An iteration of the loop is one action, since a
trainer has one thread and the environments it steps are its own; `Train`, the
iteration, callbacks that save, stop or raise, `Save` and `FromCheckpoint` are
what can be ordered. The differences between the algorithms are parameters of the
configuration (`Configs` holds records, one assumption says which records are
constructor calls) and named operators (`SACUpdate`, `Due`, `Saved`), not copies of the loop.

What the data becomes is chosen so that its origin is visible:

* a network is the number of gradient steps it has taken, a target the number its
  source had when it was copied or averaged: pace and lag can be stated;
* an observation is its environment, episode and time: a successor that belongs to
  another episode is told from the right one;
* a return or an advantage is the set or sequence of rewards and value estimates
  that flow into it; an LSTM state the set of observations it has seen since it was
  last zeroed; a running statistic the number of observations it has counted.

Off-policy, the entropy temperature and MPO's dual variable are left out; offline,
whether CQL tunes its temperature is a setting (`entropy`).

`OffPolicyTraining` has the single-environment loop, the vectorised collector with
automatic reset, DQN's n-step window, the warm-up of actions and that of updates,
the policy delay and the target updates, for SAC, TD3, DQN, CrossQ, TQC, MPO, QMIX.

`RolloutTraining` has the rollout collector and what GAE adds up over it (masks,
bootstrap at truncation and at the end), minibatches, RecurrentPPO's replay of the
LSTM from the state carried into the rollout, Dreamer's sequence windows,
MAPPO with one and with several agents, VecNormalize, and the callbacks in their
order (evaluate, then save). The gradient steps of an iteration are counted, their
losses are not modelled.

`OfflineTraining` has the datasets as steps of episodes, the windows of the
Decision Transformer and the Diffusion policy, with discrete actions and continuous
ones (whose short windows the Decision Transformer cannot pad: it raises,
`DTRaises`), the returns of the tree policies,
TD3BC's delay, CalQL's collection and calibration, AWR's rounds.

### Sandboxes

`SandboxServer` has per request a program counter, the semaphore (permits, a queue
of waiters, permits granted to a waiter that has not gone on), and a box per
completion. `Spawn` takes and forgets the permit, `Join` gives it back, `Exit` is
a sandbox that ends (or whose task panics: `Duration::from_secs_f64` on a timeout
it cannot hold), `FinishGroup` sorts, rewards and counts. `Disconnect` is the
client going away: the handler's future is dropped at whatever await it is at.
The semaphore is tokio's and marked external.

`SandboxWorker` is one call of `run_sandboxed`: preparation (each step may fail and
undoes the ones before), clone, the handshake over four pipes, the poll loop
against the deadline, containment, the bounded reap, the verdict, and the child
with its own steps. A read of a pipe returns when the byte is there or no write
end is left, and the child's descriptor table is its own because `CLONE_FLAGS` has
no `CLONE_FILES`. `Abandon` is the future being dropped at one of its two awaits,
or a panic between them.

## 3. Runs

| Run | Instance | Distinct states | Shows |
|---|---|---|---|
| `replay_buffers` | 4 rows, 13 pushes, batches of up to 5 rows | 120,275 | a plain ring: order, windows and extra columns over three wrap-arounds, implements `SlidingWindow`; one under a tracker: sequences and goals stay in their episode, no finished episode is given up early |
| `mmap_replay` | 2 rows in memory, 2 in the file, 9 pushes | 4,157 | the two rings are one window over spills, refreshes, failures, closes that fail half way and reopening; implements `SlidingWindow` |
| `rollout_pipeline` | 2 steps, channel of 2, 2 updates | 45,285 | whole rollouts, staleness, a receiver is served; implements `BoundedChannel` |
| `hybrid_trainer` | the same, 3 updates, `train` called again | 12,860 | nothing of an earlier update is trained on; `train` ends |
| `sandbox_server` | 2 rollouts of 2 tasks × 2 completions, 1 verify, 3 permits | 231,250 | slots conserved over panics and disconnects, order, telemetry; requests end, as far as the model server answers and sandboxes end |
| `sandbox_slots` | 2 rollouts of 1 task × 2 completions, 2 permits, nobody disconnects | violation | section 4 |
| `sandbox_worker` | all behaviours of one call | 228 | confinement, clean-up, meaning of the result, the call ends |
| `actor_learner` | 7 constructions, at most 2 actors, 3 workers, 2 calls, 2 updates | 306,307 | whole snapshots and unbroken rollouts under failing, late and rejected calls; actors stop; `train` ends |
| `off_policy` | 12 experiments, 4 steps a call, 5 in all | 652,575 | bootstraps, target lag, actor and critic, warm-ups over calls, stops, saves, restores |
| `rollout_training` | 12 experiments, rollouts of 2 or 3 steps | 360,837 | returns, recurrent memory, baselines, normaliser, checkpoints over calls, raises, restores |
| `rollout_truncation` | one PPO trainer of those | violation | section 4 |
| `offline` | 15 experiments, 3 to 5 recorded steps | 91,001 | pace of the networks, windows, returns over calls, stops, restores |

Each property of a passing run is also known to fail for a plausible bug: next to
the definitions stand mutated forms of them (an off-by-one, a dropped guard, a
missing reset, a swapped order), and `PROJECT.json` names, for every property, one
that TLC rejects.

### Bounds, and why they are enough

* Rings. The code depends on positions only modulo the capacity and on whether the
  ring is full. Three rows would separate "newest", "oldest" and "in between"; four let
  several episodes of different lengths be stored together. Three turns put every
  operation before, at and after a wrap, and let an episode be longer than the ring
  twice over. A batch may be one row longer than the ring. That the results do not depend on these
  numbers is what the proofs add (section 5).
* Pipeline. Two steps per rollout put a stop or an update before, inside and after
  a rollout; a channel of two (the default) can be empty, half full and full; two
  updates can both fall into one rollout. The thread itself is not bounded.
* Trainer. Three updates, so that a batch two updates old would be told from one
  update old, and the train call after the last one.
* Server. Three permits are the fewest with which two rollouts and a verify
  compete and the two rollouts cannot hold all of them while both wait; two permits
  are the case in which they can (`sandbox_slots`). Statuses are cut to the two
  that the telemetry counts differently, with a panic for the third;
  `SetupError` comes from the panicking rollout.
* Worker. One call, nothing is bounded. Calls share only the semaphore, which is
  the server's, since the names of a leaf and of a script directory are unique.
* IMPALA. One actor on two workers has an earlier and a later call in a step;
  three workers over two actors are the smallest uneven split; two actors compete
  for the lock and can fill the queue; two `train` calls put the first call's
  threads beside the second's, on one worker, which is enough for the one to outdate
  the other's observation. Two updates let a copy fall before, between and
  after two writes. The instances with one update are there for what a worker
  rejects, which one step decides.
* Training loops. A configuration per algorithm and path, with numbers that do
  not divide each other (delay 2 or 3 in calls of 1 to 4 steps, target copies every
  2 or 3 steps, 3 gradient steps, minibatches of 2 out of 3 rows), so that every
  counter is at every residue when a call ends, stops or is restored. Rollouts of 3
  steps have an episode that ends inside and one that crosses into the next. Five or
  six steps in all (three rollouts) are a call, a second call, a save, a restore
  and a call after it. `MaxSteps`, `MaxGlobal`, `MaxRollouts`, `MaxTotal` are bounds of the
  models, not of the code.
* Datasets of two and three episodes with one, two and three steps: shorter than a
  window, equal to it, longer.

### Deadlock

TLC looks for deadlock in the runs of the buffers, of IMPALA, and of the
off-policy and rollout trainers. `CHECK_DEADLOCK FALSE` is set where the system
really stops: a learner in `recv` after the collector has ended waits forever
(`channel.rs`, `recv` cannot see a disconnection), and a dropped collector, a trainer
that has returned, a server whose requests have all ended and a worker call that
has returned do nothing more. In `offline` the trainers over a fixed dataset have
no save to repeat once the bound on their steps is reached.

### Fairness

* `RolloutPipeline`: weak fairness of the collector's thread (it is an operating
  system thread; its send times out after 50 ms) and of a call of the learner that
  can go on. Fairness is on the steps that succeed (`CollectorRuns`): a failure of
  an environment or of the network may happen at any time and need never happen,
  so that it cannot count as the progress a waiting learner hopes for. Nothing is
  assumed of when the learner calls.
* `HybridTrainer`: weak fairness of the thread and of `train`, which is sequential
  code. `TrainAgain` is not fair: nobody has to call `train` again. The loop's
  blocking `recv` may last forever once the collector has ended by itself, and
  `TrainEnds` says exactly that.
* `SandboxServer`: weak fairness of each handler that can go on (the runtime polls
  every task that was woken). Nothing is assumed of the model server, which the client
  calls without a timeout (`server.rs:869`), or of the end of a box, which may wait without a
  deadline (`worker.rs:825`); `RequestsEnd` names both as the reasons why a request may not
  end, besides lost permits. The run `sandbox_slots` grants all of it (`SpecConnected`),
  and a request still may not end. Clients need not disconnect. The
  semaphore's queue is first-in first-out, as tokio's is documented to be.
* `SandboxWorker`: weak fairness of the parent's steps, of the child's own steps
  before it runs the program, and of the delivery of a kill. Nothing makes the
  submitted program end, and the kernel may refuse the kill.

* `ActorLearner`: weak fairness of each actor thread and of the learner's steps. A
  call to a worker is answered or fails: `RemoteEnvPool` gives each call a timeout,
  and a local step returns or raises. `get` returns or times out after 30 s, `put`
  after 0.1 s, a join after 5 s. Nothing makes a late call execute or a callback
  raise, and nobody has to call `train`, `save`, `from_checkpoint`, `next_batch` or
  `close`.
* The training loops state no liveness: they are bounded loops of one thread.

## 4. Findings

The server documents that a slot is released when its completion's task completes;
it is released when the group is joined, which starts after the whole group is
spawned. Requests that hold all slots between them wait for each other for ever
although every sandbox has ended (`sandbox_slots`). With more slots than the groups
can hold while each waits, every request ends (`RequestsEnd`) unless a permit was lost,
its own call of the model server is never answered, or a sandbox never ends.

"Truncation handling is correct everywhere" (`docs/plans/python-code-review.md:178`): in
`collectors.py:214-220` the reward of a truncated step gets the value of the terminal
observation added, but the mask that GAE is given is of terminations only, and the
accumulation goes on into the next episode's first value and rewards
(`rollout_truncation`). `ReturnsReachTheirHorizon` says what does hold: a return contains
everything up to the end of its episode, and nothing beyond the first termination.

The following disagree with a text of the repository, or may surprise, and have no
run of their own. Where a property would be broken by one of them it says so in
its comment and excludes exactly that case.

Buffers, pipeline, sandboxes:

* `MmapReplayBuffer::close` drops the maps and the file handle before it deletes the
  file, and resets the counters only after that (`mmap.rs:253`); if the deletion
  fails, rows are counted that no file holds. A sample then panics ("cold_file must be
  open", line 399); after a spill, which truncates the file, it returns zeros for
  them. `FileOpenForRefresh` and `RefinesWindow` except exactly these. `new` accepts a
  total capacity equal to the memory capacity (`mmap.rs:78`); the first spill then slices
  past the end of a file that has only a header, and every later push fails.
* `_restart_collector` promises a collector "with current PyTorch weights"
  (`hybrid_ppo.py`); the constructor starts the thread on newly initialised weights
  and the copy comes later (line 157), so steps, or whole rollouts, of the initial
  weights are trained on. What does hold is `NoBatchFromEarlierUpdates`.
* When an ID map cannot be written, the parent closes its end of `sync_p2c` and waits
  without a deadline for the child to see the end of file (`worker.rs:825`). The child
  holds a write end of that pipe itself, so it never does. `RunEnds` counts this wait
  as an end.
* An abandoned call of `run_sandboxed` leaves its leaf, scripts, pipes and child
  behind; a disconnect during a rollout loses its permits for good (`leaked`); pipes
  made before a failing `pipe2` stay open; `recv` hangs after the collector ended by
  itself.

IMPALA and remote environments:

* `on_training_start` runs after the actors were started and before the `try`
  (`impala.py:424`): if it raises, the stop event stays clear and the actors run on. A
  `train` after that starts others beside them on the same remote workers, and rollouts
  with outdated observations reach the learner. `RolloutsAreUnbroken` excepts only this.
* Nothing clears the stop event: a second `train` starts actors that end at once and
  learns from what the first left in the queue, then times out.
* `__init__` refuses more actors than addresses but not workers of unequal size, which
  `step_all` cannot serve; one continuous action number per environment is sent as a
  discrete action, which the worker's environments refuse (`remote_env.py:164`).
* `from_checkpoint` restores an IMPALA with local environments and default numbers;
  on `DistributedIMPALA` it raises, because it passes no addresses.
* Which version of the policy a rollout was collected with is bounded by nothing: an
  actor may be overtaken by any number of updates that the others feed.
* Not visible in the model: `Pipeline` puts zeros for all values and bootstraps a
  rollout's end with zero; `RemoteEnvPool` drops the terminal observation of an
  automatic reset, and `n_updates` is computed from the local `n_envs`.

Off-policy trainers:

* The vectorised collector stores the observation after the automatic reset of a
  truncated episode as the successor (`off_policy_collector.py:179`); DQN's n-step
  window survives from one `train` call into the next (`dqn.py:133`).
* TD3's delay counter restarts with each call (`td3.py:185`); MPO saves only its actor,
  QMIX no targets; no checkpoint has the replay buffer.

Rollout trainers:

* RecurrentPPO never reads the terminal observation of a truncated episode; the
  multi-agent collector takes a truncation for a termination.
* MAPPO with one agent takes its baseline from the actor's own value head
  (`mappo.py:498`), which the loss never reaches.
* An evaluation that raises leaves VecNormalize frozen until the next evaluation; PPO's
  checkpoint has no running statistics; RecurrentPPO has no `save`; A2C saves its
  environment's name and no other constructor argument; a restored MAPPO loses
  `n_envs` and `env_fn`. `CheckpointCallback` saves only when the counter hits an exact
  multiple of its frequency.

Offline and sequence-model trainers:

* The tree policies compute returns as if the sample were the dataset in order; the
  built-in buffer samples at random with replacement, and only terminations, not
  truncations, separate the episodes (`dtp.py:225`). A restored one has no dataset.
* The seed of a sample is computed from the step of the call, so that some batches of
  one call come again in a later one (`offline/base.py:71`, AWR). CalQL and AWR call no `on_step`.
* The Decision Transformer pads both axes of continuous actions (`np.pad` with one pair,
  `decision_transformer.py:352`), so a batch with a window of a short episode raises; its
  loss covers the padding. Actions before the last
  observation of the first window are never taught to the Diffusion policy.
* CalQL's checkpoint has neither temperatures nor buffer.

## 5. Proofs

TLAPS checks the following for every value of the constants, from the assumptions
named in the modules only (`RingAssumption`, `MmapAssumption`, `PipelineAssumption`,
`UpdatesAssumption`, `ServerAssumption`, `ActorLearnerAssumption`,
`ConfigsAssumption`, `BoundsAssumption`: what the constructors demand of their
arguments, and that the bounds are natural numbers).

* `ReplayRingProofs`, for the ring and the episode buffers over it. It and
  `MmapReplayProofs` begin with what the ring operators preserve: a push keeps a ring
  well formed and newest first, and the live rows are the newest `count`. The ring:
  `RecencyOrder`, `RecentOnly`, `ExtraGoesToNewest`, `RefinesWindow`. The inductive
  invariant is `TypeOK /\ RecencyOrder`; the others follow from it in one step.
  `RecentOnly` speaks of the last batch, so its own induction carries `RecencyOrder`
  along. The episode buffers: `SequencesStayInEpisode`, `GoalsFromSameEpisode`,
  `FinishedEpisodesKept`, and `RingInEpisodeBuffer`: every behaviour of the episode
  buffer is one of the ring it owns, so that what was proved of the ring holds in it
  and `EpisodeInv` may start from the ring's invariant. `TrackerOK`, the types, is not
  inductive: that a running episode never outgrows the ring depends on its being
  forgotten when the write position reaches its start. The invariant says for each
  episode how old its newest transition is (`Span`): its rows are the live rows of
  consecutive ages and belong to one episode. A push makes all rows one older
  (`PushAges`, `SpanAges`); the oldest row is overwritten, and an episode that
  `ring_range_overlaps` clears of it does not contain it (`ClearOfWrite`,
  `RoomMadeLeaves`). `FinishedEpisodesKept` is the converse and needs one of its own
  (`AllKept`): the episode of every live row that is not about to lose its first one is
  recorded, or is the running one, with exactly the start and length its transitions
  have (`Stretch`).
* `MmapReplayProofs`: `ColdContinuesHot`, `ViewIsCurrent`, `FileOpenForRefresh`,
  `RefinesWindow`. All three invariants are needed at once: that a batch holds
  current rows needs the view to be current, which needs every spill to mark it
  stale and every close to drop it, done or failed. The rows a failed close left counted
  are those up to `lost`, which any spill can only leave behind (`EndsAt`). `NewestFirst` of the file is relative to
  `pushed - hot.count`, which a spill and the store after it move together; that is
  why the step is proved for the whole of `Store`.
* `RolloutPipelineProofs`, for both modules of the pipeline. `TypeOK`, `WholeRollouts`,
  `StoppedMeansEnded`: the invariant adds where the collector is in its loop to the
  rows it has (`RowsFollowPc`). `StalenessBounded`: the batches with old weights
  that were received, are buffered or are in the collector's hands are one sum
  (`StaleInv`). A `sync_weights` sets the first to zero and finds at most `Capacity + 1`
  of the others; later a batch only moves from one place to the next, and none is
  added. The buffered ones are counted by their place in the queue, so `CountFacts`
  and the lemmas after it say what a put and a take do to such a count.
  `RefinesChannel`: the initial states map to initial states, and each step of
  collector and learner to a put, a take, a shut, a discard or a stutter.
  `NoBatchFromEarlierUpdates` of `HybridTrainer`: the policy, the rollout in hand and
  the buffered batches know no versions but the one of the current update and the
  initial one (`Knows`), which a new collector starts with and which a collector's own
  steps preserve.
* `SandboxProofs`: `SlotsAccounted`, `ResultsInOrder`, `TelemetryAddsUp`, for
  every number of requests, permits, tasks and completions.
  That permits are conserved needs to know who can have one: waiting and granted
  handlers are distinct, a completion is joined after it was spawned and once
  (`SlotInv`). The order of the results is an argument about a sort: the results
  name each joined completion once (`ResultsInv`), so that the result with index i
  has exactly i - 1 smaller ones before it. A group that panicked sorts by the
  order of arrival and reports the same status for all. The counters of the
  telemetry are compared with the trajectories sent so far, one request at a time
  (`StatsInv`); no step of one request touches another's (`OthersStay`).
* `SandboxProofs`, second part, about the box a task of the server runs:
  `ProgramConfined`, `NothingLeftBehind`, `ResultTellsWhatRan` of `SandboxWorker`. That
  module has no constants and TLC visits all its states; the proof says why none of
  them is bad. None of the three is inductive: each speaks of
  where a call ends and not of how it got there. The invariant (`WorkerInv`) turns on the
  status byte "ok". The child writes it once, after it has entered the leaf and
  installed the filter and before it runs the program (`Confinement`); the parent polls,
  contains and collects only after it has read it (`Handshaken`). Before that, a child that
  is alive holds the write end of the report open (`HeldEnds`), so that a report other than
  "ok", or none, means that the child is gone, and the blocking reap at `worker.rs:886`
  is of a child that has exited. What a return may leave is then a matter of which pipe
  ends are open at each place (`OpenEnds`) and of who was waited for (`Deadlines`,
  `Returned`); only a call that gave up can return with a child that still takes steps.
* `ActorLearnerProofs`: `SnapshotsAreWhole`, `RolloutsAreUnbroken`. The first
  is not inductive, since it says nothing
  of a copy or an update that is half done. The invariant says who holds the lock
  (`PolicyOK`: the learner while it writes; `HasOf`: the actor while it copies) and how
  the tensors differ meanwhile; an actor in the middle of a copy keeps the learner
  out, so that the second tensor it copies has the version of the first. Records and
  sequences are taken by their shape only (`IsThread`, `IsSequence`), so nothing about
  workers or counters is needed. Restarts are covered because a checkpoint is never
  written while a thread is inside an update (`FileOK`).
  The second has two reasons, one for each value of the stop event
  (`UnbrokenInv`). While it is clear there has been one `train` call at most (or one was
  left by a raise and overtaken, of which nothing is said); its actors have disjoint shares of the workers (`PoolsApart`, from the arithmetic of
  `_partition_addresses`), and a thread knows the state of each worker it has reset
  or stepped; a call given up before can only execute late at a worker whose thread has
  ended. Once it is set, threads of several calls may share workers, but an actor
  looks at the event between its last step and its put, and nothing ever clears it.
  A `train` that cleared the event, as one would expect of it (section 4), would have
  to find another way to keep late threads from its workers.
* `OffPolicyTrainingProofs`: `UpdatesFollowPolicySteps`, `ActorFollowsCritic`,
  `TargetLagBounded`, `BootstrapsStayInEpisode`, for every
  allowed configuration. The first needs that the step of a call never passes
  `_global_step` (`CallOK`). The second is not inductive for TD3: the bound on the actor
  must leave room for the steps since its last turn (`count % delay`), a room that
  `DelayedSteps` gives back when the turn comes, and that a new call, which sets the
  counter to zero, only widens. The invariant says the same of the networks on disk
  (`FileOK`), so that a restored trainer starts with it. The third is that argument with
  the step of the call for a counter: the target is behind by no more than the
  updates since the last multiple of the copy period (`Room`), and between calls,
  wherever the last one was cut short, by no more than those of a whole period.
  The proof showed what the module had not said: QMIX and MPO update in every
  iteration (`EveryStep`), and with a coarser cadence QMIX would break the bound.
  For the fourth the window of DQN is followed through a call (`Chain`): its
  transitions are consecutive steps of one episode and the newest leads to where the
  environment stands; a window begun in an earlier call is exempt.
* `RolloutTrainingProofs`: `NormalizerFollowsTraining`, `BaselineIsTrained`,
  `CheckpointsNeverOverdue`, for the nine trainers at once, every allowed
  configuration and rollouts of any length. The invariant (`IInv`) says of the live
  networks and of those on disk that the one the baseline comes from has a step for
  each rollout (`Fitted`). That a learner takes one at all is arithmetic where it divides a
  rollout into minibatches (`StepCounts`; without a full one PPO takes none, which the
  property says), and for RecurrentPPO that every rollout has a segment
  (`SegmentsThere`). `CheckpointsNeverOverdue` is not inductive: a checkpoint that is just
  young enough would be too old after the next iteration. What is (`SavedOnTime`): it is no older
  than the counter's remainder by the period. A counter that moves by a divisor of the
  period stands on each multiple it passes, and PQN, which saves inside a rollout,
  finds the last of them (`HitsTheMultiple`).
  `ReturnsReachTheirHorizon` and `ReplayedMemoryIsTheEpisode` speak of paths, returns and
  recurrent states that recursive functions compute over a rollout of any length. A
  function is equal to its own equation once some function satisfies it, and one does:
  the lengths for which it exists contain 0 and with n also n + 1. The library's
  induction theorems take an operator for this, so `SetInduction` is stated for a set of numbers
  and proved from the least number outside it (`PathFollows`, `GAEEquation`,
  `ActedWithEquation`, `SeenEquation`). The return of a step is then followed back from
  the end of its episode (`OneReturn`, `ReturnsReach`). For the memory the invariant (`RInv`)
  says what is carried from one rollout to the next: RecurrentPPO's state is the
  observations of the running episode before the one the environment stands at, or the
  flag for a new episode is up (`Carried`); a sequence Dreamer stores moves on to the
  next observation unless it says done (`Linked`). A state is then always a run of one
  episode up to the step (`RunTo`), whether the step was taken with it or the loss
  rebuilt it from a segment or a padded window.
* `OfflineTrainingProofs`: `NetworksInPace`, `WindowsAreTheEpisodes`,
  `ReturnsAreTheEpisodes`, for the nine trainers over data. The invariant of the first
  (`PaceInv`) says the same of the networks in the checkpoint (`FileOK`), and of TD3BC
  that its counter, which a callback's early stop leaves as it is, has counted each of
  the critic's steps; that the actor has one step for `delay` of them is then the
  arithmetic of a quotient (`Quotient`, `DelayDivides`).
  The other two rest on the order of the record (`RecordOK`): a step is followed by the next
  of its episode or, if it ended that, by the first of the next episode. The arrays of
  a dataset and the collected steps have it (`RecordedInOrder`, `CollectedInOrder`), and with it
  an episode occupies consecutive places and `EpLen` is one more than the time of its last
  step (`EpisodeLength`). That a window fits, that padding or repeating is needed only in
  a short episode and that every step can be drawn is then arithmetic of the starts
  (`DTWindowOK`, `DTTeachesAll`, `DiffusionWindowOK`, `DiffusionTeachesAll`). The recursive
  returns and timesteps equal their closed forms by induction from the last step
  backwards or the first onwards (`RtgIs`, `ReturnsInOrder`, `TimesInOrder`). The
  invariant (`RecordInv`) adds that CalQL's `ep_reward` is the running episode from its first
  step, and that the returns in memory and on disk are whole (`WholeReturns`).

Checked by TLC only, on the instances above: liveness (`RecvServed`, `TrainEnds`,
`RequestsEnd`, `RunEnds`, `ActorsStop`). The prover handles neither fairness with
`ENABLED` nor what follows from it. The check of `RunEnds` is complete all the same,
since `SandboxWorker` has no constants.

No module has a RECURSIVE definition.

## 6. What the models leave out

Whole parts:

* Prioritized replay (`priority.rs`): sums and minima of floating-point powers in a
  tree; what could be wrong is rounding (and line 366, an update that stops half way
  over a list of indices that may be stale). DQN and SAC are modelled with uniform
  replay.
* `checkpoint.py`: two asynchronous saves of one path share a temporary file (line 51).
* Population training and self-play: `self_play.py:55` renumbers its pool when it evicts
  the oldest entry; `pbt.py:109` overlaps the best and the worst members above an exploit
  fraction of one half.
* One environment of several failing, seen from within (`parallel.rs:98` drops the
  others' results); `candle/collector.rs:123-125` overwrites tensors one by one in the
  order of the variable map, and stops half way on a short buffer.
* Environments, losses, forward passes, numeric operators, wrappers, LLM post-training,
  and whatever only converts, plots, deploys or looks up: no protocol.

Inside the modelled parts:

* Values: observations, actions, rewards and weights are identities or origins. Advantages,
  rewards of sandboxes, latencies and formatting are not modelled; the telemetry
  counters are.
* `her_ratio` above 1 (underflow in `sample_with_relabeling`) and other argument
  errors that a single call shows.
* In the worker: the freeze before the kill (it only removes behaviours),
  descriptors that a child cloned at the same time by another call inherits,
  `CString` conversion errors, output truncation. A `memory.events` that cannot be
  read counts as no OOM kill, as in the code.
* In the server: HTTP framing, authentication and the contents of prompts.

## 7. Plan

Still to model, in this order: `CheckpointFile` (two saves of one path, crash between
write and replace); `PrioritizedReplay` over `Rings` with integer priorities;
`OpponentPool` and exploit pairs; `VecEnvStep` with per-environment failures, then
`RolloutPipeline` and `ActorLearner` over it; sequence packing and the masks of V-trace
as operators against reference definitions.

Every invariant, action property and refinement that a run checks is proved; new modules
bring theirs.
