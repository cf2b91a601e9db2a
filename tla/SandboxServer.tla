--------------------------- MODULE SandboxServer ----------------------------
(***************************************************************************)
(* The handlers of the sandbox server                                      *)
(* (crates/rlox-sandbox/src/server.rs): /rollout asks a model server for a *)
(* group of completions per task and runs each of them in a sandbox,       *)
(* /verify runs one program.  A semaphore shared by all requests caps the  *)
(* sandboxes that run at a time.                                           *)
(*                                                                         *)
(* What happens inside a sandbox is SandboxWorker; here it runs and exits. *)
(***************************************************************************)
EXTENDS Integers, Sequences, FiniteSets, SequencesExt

CONSTANTS
  Rollouts, Verifies,    \* the requests, one client each
  Permits,               \* max_concurrent
  GroupSize,             \* completions per task
  NTasks,                \* tasks of a rollout request
  AdversarialTasks,      \* which of them are adversarial
  AdversarialVerifies,
  BadTimeouts,           \* rollouts whose timeout no Duration can hold
  Exits                  \* the ways a sandbox may end in this instance

Statuses == {"Clean", "Timeout", "OomKilled", "SetupError"}

ASSUME ServerAssumption ==
  /\ Permits \in Nat \ {0}
  /\ GroupSize \in Nat \ {0}
  /\ NTasks \in Nat \ {0}
  /\ AdversarialTasks \subseteq 1 .. NTasks
  /\ AdversarialVerifies \subseteq Verifies
  /\ BadTimeouts \subseteq Rollouts
  /\ Rollouts \intersect Verifies = {}
  /\ Exits \subseteq Statuses

VARIABLES
  pc,         \* where the handler of a request is
  task,       \* the task of a rollout it is at
  spawned,    \* completions of the task handed to a sandbox
  box,        \* the sandbox of each completion
  joined,     \* completions whose result the handler has taken
  results,    \* the results in the order they were taken: <<index, status>>
  permits,    \* free permits of the semaphore
  waiters,    \* handlers waiting for one, in order
  granted,    \* handlers given one that have not gone on yet
  leaked,     \* permits nobody will give back (history)
  sent,       \* the trajectories of a request
  stats       \* its containment telemetry

semaphore == <<permits, waiters, granted>>
vars == <<pc, task, spawned, box, joined, results, semaphore, leaked, sent, stats>>

Clients == Rollouts \union Verifies
Completions == 1 .. GroupSize
NoBoxes == [i \in Completions |-> "none"]

Injected(c) ==
  IF c \in Rollouts THEN Cardinality(AdversarialTasks) * GroupSize
  ELSE IF c \in AdversarialVerifies THEN 1 ELSE 0

Init ==
  /\ pc = [c \in Clients |-> IF c \in Rollouts THEN "model" ELSE "acquire"]
  /\ task = [c \in Clients |-> 1]
  /\ spawned = [c \in Clients |-> 0]
  /\ box = [c \in Clients |-> NoBoxes]
  /\ joined = [c \in Clients |-> {}]
  /\ results = [c \in Clients |-> <<>>]
  /\ permits = Permits
  /\ waiters = <<>>
  /\ granted = {}
  /\ leaked = 0
  /\ sent = [c \in Clients |-> <<>>]
  /\ stats = [c \in Clients |-> [injected |-> Injected(c), contained |-> 0,
                contagion |-> 0, setup |-> 0, latencies |-> 0]]

-----------------------------------------------------------------------------
(* tokio's semaphore: a freed permit goes to the first waiter, if any.     *)

Release(holders) ==
  IF waiters = <<>>
  THEN /\ permits' = permits + 1
       /\ granted' = holders
       /\ UNCHANGED waiters
  ELSE /\ granted' = holders \union {Head(waiters)}
       /\ waiters' = Tail(waiters)
       /\ UNCHANGED permits

Acquire(c) ==
  /\ pc[c] = "acquire"
  /\ pc' = [pc EXCEPT ![c] = "permit"]
  /\ \/ /\ permits > 0
        /\ permits' = permits - 1
        /\ granted' = granted \union {c}
        /\ UNCHANGED waiters
     \/ /\ permits = 0
        /\ waiters' = Append(waiters, c)
        /\ UNCHANGED <<permits, granted>>
  /\ UNCHANGED <<task, spawned, box, joined, results, leaked, sent, stats>>

-----------------------------------------------------------------------------
(* The rollout handler.                                                    *)

CallModel(r) ==
  /\ pc[r] = "model"
  /\ pc' = [pc EXCEPT ![r] = "acquire"]
  /\ spawned' = [spawned EXCEPT ![r] = 0]
  /\ box' = [box EXCEPT ![r] = NoBoxes]
  /\ joined' = [joined EXCEPT ![r] = {}]
  /\ results' = [results EXCEPT ![r] = <<>>]
  /\ UNCHANGED <<task, semaphore, leaked, sent, stats>>

(* A transport error, a bad status or body, or the wrong number of         *)
(* choices: 502, and the trajectories of earlier tasks are not sent.       *)
ModelFails(r) ==
  /\ pc[r] = "model"
  /\ pc' = [pc EXCEPT ![r] = "failed"]
  /\ sent' = [sent EXCEPT ![r] = <<>>]
  /\ UNCHANGED <<task, spawned, box, joined, results, semaphore, leaked, stats>>

HandOver(r) ==
  /\ pc[r] = "permit"
  /\ r \in granted
  /\ spawned' = [spawned EXCEPT ![r] = @ + 1]
  /\ box' = [box EXCEPT ![r][spawned[r] + 1] = "running"]
  /\ pc' = [pc EXCEPT ![r] = IF spawned[r] + 1 = GroupSize THEN "join" ELSE "acquire"]
  /\ UNCHANGED <<task, joined, results, leaked, sent, stats>>

(* The permit is forgotten, so that Join can give it back.                 *)
Spawn(r) ==
  /\ HandOver(r)
  /\ granted' = granted \ {r}
  /\ UNCHANGED <<permits, waiters>>

(* A sandbox ends, of a rollout or of a verify.  Duration::from_secs_f64   *)
(* panics on a timeout it cannot hold.                                     *)
Exit(c, i) ==
  /\ pc[c] # "gone"
  /\ box[c][i] = "running"
  /\ \E status \in IF c \in BadTimeouts THEN {"panic"} ELSE Exits :
        box' = [box EXCEPT ![c][i] = status]
  /\ UNCHANGED <<pc, task, spawned, joined, results, semaphore, leaked, sent, stats>>

ToJoin(r) ==
  {i \in 1 .. spawned[r] : i \notin joined[r] /\ box[r][i] # "running"}

TakeResult(r, i) ==
  /\ pc[r] = "join"
  /\ i \in ToJoin(r)
  /\ joined' = [joined EXCEPT ![r] = @ \union {i}]
  /\ results' = [results EXCEPT ![r] = Append(@,
        IF box[r][i] = "panic" THEN <<Len(@) + 1, "SetupError">>
                               ELSE <<i, box[r][i]>>)]
  /\ UNCHANGED <<pc, task, spawned, box, leaked, sent, stats>>

(* Mutated form of Join: the slot is given back only for a result.         *)
JoinUnlessPanicked(r, i) ==
  /\ TakeResult(r, i)
  /\ IF box[r][i] = "panic" THEN UNCHANGED semaphore ELSE Release(granted)

(* join_next, in the order the sandboxes ended, but only once the whole    *)
(* group has been spawned.                                                 *)
Join(r, i) ==
  /\ TakeResult(r, i)
  /\ Release(granted)

(* Mutated form of Sorted: the results as they came.                       *)
AsTaken(taken) == taken

(* sort_by_key is stable.                                                  *)
Before(taken, j, i) ==
  taken[j][1] < taken[i][1] \/ (taken[j][1] = taken[i][1] /\ j < i)

Place(taken, i) == Cardinality({j \in DOMAIN taken : Before(taken, j, i)}) + 1

Sorted(taken) ==
  [k \in DOMAIN taken |-> taken[CHOOSE i \in DOMAIN taken : Place(taken, i) = k]]

Trajectories(adversarial, taken) ==
  [i \in 1 .. Len(taken) |-> [adversarial |-> adversarial, status |-> taken[i][2]]]

HowMany(out, Test(_)) == Cardinality({i \in 1 .. Len(out) : Test(out[i])})

Contained(t) == t.adversarial /\ t.status \in {"Timeout", "OomKilled"}

(* Mutated form of Contagious: a failed setup counts as an escape.         *)
ContagiousOrUnset(t) == t.adversarial /\ t.status \in {"Clean", "SetupError"}

Contagious(t) == t.adversarial /\ t.status = "Clean"

NotSetUp(t) == t.status = "SetupError"

Counted(s, out) ==
  [s EXCEPT !.contained = @ + HowMany(out, Contained),
            !.contagion = @ + HowMany(out, Contagious),
            !.setup = @ + HowMany(out, NotSetUp),
            !.latencies = @ + HowMany(out, Contained)]

FinishGroup(r) ==
  LET out == Trajectories(task[r] \in AdversarialTasks, Sorted(results[r]))
  IN /\ pc[r] = "join"
     /\ joined[r] = Completions
     /\ sent' = [sent EXCEPT ![r] = @ \o out]
     /\ stats' = [stats EXCEPT ![r] = Counted(@, out)]
     /\ pc' = [pc EXCEPT ![r] = IF task[r] = NTasks THEN "replied" ELSE "model"]
     /\ task' = [task EXCEPT ![r] = IF task[r] = NTasks THEN @ ELSE @ + 1]
     /\ UNCHANGED <<spawned, box, joined, results, semaphore, leaked>>

-----------------------------------------------------------------------------
(* The verify handler holds its permit as a guard, dropped at the end.     *)

BeginVerify(v) ==
  /\ pc[v] = "permit"
  /\ v \in granted
  /\ granted' = granted \ {v}
  /\ box' = [box EXCEPT ![v][1] = "running"]
  /\ pc' = [pc EXCEPT ![v] = "verifying"]
  /\ UNCHANGED <<task, spawned, joined, results, permits, waiters, leaked, sent, stats>>

FinishVerify(v) ==
  LET out == Trajectories(v \in AdversarialVerifies, << <<1, box[v][1]>> >>)
  IN /\ pc[v] = "verifying"
     /\ box[v][1] # "running"
     /\ Release(granted)
     /\ sent' = [sent EXCEPT ![v] = out]
     /\ stats' = [stats EXCEPT ![v] = Counted(@, out)]
     /\ pc' = [pc EXCEPT ![v] = "replied"]
     /\ UNCHANGED <<task, spawned, box, joined, results, leaked>>

-----------------------------------------------------------------------------
Ended == {"replied", "failed", "gone"}

(* The client goes away and its handler's future is dropped where it       *)
(* waits: a queued or granted acquire and the guard of a verify are        *)
(* undone, the JoinSet aborts its tasks, and the forgotten permits stay    *)
(* forgotten.  The processes in the sandboxes run on without a supervisor. *)
Disconnect(c) ==
  /\ pc[c] \notin Ended
  /\ pc' = [pc EXCEPT ![c] = "gone"]
  /\ box' = [box EXCEPT ![c] = [i \in Completions |->
               IF @[i] = "running" THEN "orphan" ELSE @[i]]]
  /\ leaked' = leaked + Cardinality((1 .. spawned[c]) \ joined[c])
  /\ IF c \in granted \/ pc[c] = "verifying"
     THEN Release(granted \ {c})
     ELSE /\ \/ \E i \in DOMAIN waiters : waiters[i] = c /\ waiters' = RemoveAt(waiters, i)
             \/ c \notin ToSet(waiters) /\ UNCHANGED waiters
          /\ UNCHANGED <<permits, granted>>
  /\ UNCHANGED <<task, spawned, joined, results, sent, stats>>

ModelAnswers(r) == CallModel(r) \/ ModelFails(r)

HandlerStep(r) ==
  \/ Acquire(r) \/ Spawn(r)
  \/ \E i \in Completions : Join(r, i)
  \/ FinishGroup(r)

RolloutStep(r) == ModelAnswers(r) \/ HandlerStep(r)

VerifyStep(v) == Acquire(v) \/ BeginVerify(v) \/ FinishVerify(v)

Exiting(c) == \E i \in Completions : Exit(c, i)

ConnectedNext ==
  \/ \E r \in Rollouts : RolloutStep(r)
  \/ \E v \in Verifies : VerifyStep(v)
  \/ \E c \in Clients : Exiting(c)

Next == ConnectedNext \/ \E c \in Clients : Disconnect(c)

(* The runtime polls every handler that can go on.  Nothing makes the      *)
(* model server answer (the client has no timeout) or a sandbox end (the   *)
(* wait for a child that could not be mapped has no deadline).             *)
Fairness ==
  /\ \A r \in Rollouts : WF_vars(HandlerStep(r))
  /\ \A v \in Verifies : WF_vars(VerifyStep(v))

Spec == Init /\ [][Next]_vars /\ Fairness

(* The server at its best: every client stays for its answer, the model    *)
(* server answers every call and every sandbox ends.                       *)
SpecConnected ==
  /\ Init /\ [][ConnectedNext]_vars /\ Fairness
  /\ \A r \in Rollouts : WF_vars(ModelAnswers(r))
  /\ \A c \in Clients : WF_vars(Exiting(c))

-----------------------------------------------------------------------------
(* Permits in the hands of rollouts: completions spawned and not joined.   *)
Lent ==
  {l \in Rollouts \X Completions :
     /\ pc[l[1]] \notin Ended
     /\ l[2] <= spawned[l[1]]
     /\ l[2] \notin joined[l[1]]}

Verifying == {v \in Verifies : pc[v] = "verifying"}

(* Every permit is free, assigned, lent to a running request, or lost with *)
(* a request whose client went away while its sandboxes ran; none is ever  *)
(* given back twice, and no panic loses one.                               *)
SlotsAccounted ==
  permits + Cardinality(granted) + Cardinality(Lent) + Cardinality(Verifying)
    + leaked = Permits

(* "preserving index order": the trajectories of a task stand in the order *)
(* of its completions, whatever order the sandboxes ended in.              *)
ResultsInOrder ==
  \A r \in Rollouts :
    (pc[r] \in {"model", "replied"} /\ sent[r] # <<>>) =>
      LET before == Len(sent[r]) - GroupSize
      IN \A i \in Completions :
           sent[r][before + i].status =
             IF box[r][i] = "panic" THEN "SetupError" ELSE box[r][i]

(* The counters of a reply agree with one another: each adversarial        *)
(* completion injected is contained, escaped or was never set up; each     *)
(* contained one has a latency; and no adversarial task goes missing.      *)
TelemetryAddsUp ==
  \A c \in Clients : pc[c] = "replied" =>
    LET s == stats[c]
        unset == HowMany(sent[c], LAMBDA t : t.adversarial /\ NotSetUp(t))
    IN /\ s.injected = s.contained + s.contagion + unset
       /\ unset <= s.setup
       /\ s.latencies = s.contained
       /\ Len(sent[c]) = IF c \in Rollouts THEN NTasks * GroupSize ELSE 1

(* Every request ends, unless permits were lost, its own call of the model *)
(* server is never answered, or some sandbox of some request never ends:   *)
(* handlers never wait for each other alone, and what one request does not *)
(* get from the model server delays no other.  It takes more permits than  *)
(* the rollouts can hold while each still waits for one.                   *)
RequestsEnd ==
  \A c \in Clients :
    \/ <>(pc[c] \in Ended \/ leaked > 0)
    \/ <>[](pc[c] = "model")
    \/ \E d \in Clients : \E i \in Completions :
         <>[](pc[d] \notin Ended /\ box[d][i] = "running")

(* "Each sandbox slot is acquired before spawning a completion into the    *)
(* JoinSet and released when that task completes."                         *)
SlotReturnsAfterExit ==
  \A r \in Rollouts :
    \A i \in Completions :
      (<<r, i>> \in Lent /\ box[r][i] \in Statuses) ~> <<r, i>> \notin Lent
=============================================================================
