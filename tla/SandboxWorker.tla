--------------------------- MODULE SandboxWorker ---------------------------
(***************************************************************************)
(* One call of run_sandboxed (crates/rlox-sandbox/src/worker.rs): the      *)
(* parent, inside a server task, prepares a cgroup leaf, a directory of    *)
(* scripts and four pipes, clones a child, shakes hands with it over the   *)
(* pipes, polls it against a deadline, contains it and cleans up.  The     *)
(* child (sandbox_child_fn) confines itself before it runs the submitted   *)
(* program.  SandboxServer sees this call as one step that takes a slot    *)
(* for a while; here it is taken apart.                                    *)
(*                                                                         *)
(* The clone has a descriptor table of its own (CLONE_FLAGS has no         *)
(* CLONE_FILES), so the child holds every pipe end that was open when it   *)
(* was made.  It is process 1 of its PID namespace: when it ends, so do    *)
(* the processes it started.  The leaf's name and the directory's are      *)
(* unique (job_id), so no other call touches them.                         *)
(***************************************************************************)
VARIABLES
  place,       \* where the parent is
  leaf,        \* the cgroup leaf: "none", "bare" or "limited"
  scripts,     \* does the script directory exist
  fds,         \* pipe ends open in the parent
  child,       \* where the child is
  childEnds,   \* pipes whose write end is open in the child
  said,        \* the one-byte messages written so far
  confined,    \* what holds the child: its leaf, its filter
  killed,      \* has cgroup.kill reached the leaf
  oom,         \* the oom_kill counter of the leaf is not zero
  timedOut,    \* the poll loop ended at the deadline
  gaveUp,      \* the bounded reap ended at its deadline
  outcome,     \* what the call returned
  ran          \* did the submitted program ever start (history)

parent == <<place, leaf, scripts, fds, timedOut, gaveUp, outcome>>
process == <<child, childEnds, confined, ran>>
workerVars == <<place, leaf, scripts, fds, child, childEnds, said, confined, killed,
                oom, timedOut, gaveUp, outcome, ran>>

(* err_pipe, sync_c2p, sync_p2c and stdout_pipe, in the order of their     *)
(* pipe2 calls.                                                            *)
Pipes == {"code", "ready", "ack", "out"}
ReadEnd(p) == <<p, "r">>
WriteEnd(p) == <<p, "w">>
EndsOf(ps) == ps \X {"r", "w"}
PipePrefixes == {{}, {"code"}, {"code", "ready"}, {"code", "ready", "ack"}}

(* A read returns once the byte is there or no write end is left.          *)
Readable(p, message) ==
  message \in said \/ (WriteEnd(p) \notin fds /\ p \notin childEnds)

Unstarted == {"none"}
Alive == {"started", "waiting", "entering", "filtering", "ready", "running"}

WorkerInit ==
  /\ place = "start"
  /\ leaf = "none"
  /\ scripts = FALSE
  /\ fds = {}
  /\ child = "none"
  /\ childEnds = {}
  /\ said = {}
  /\ confined = {}
  /\ killed = FALSE
  /\ oom = FALSE
  /\ timedOut = FALSE
  /\ gaveUp = FALSE
  /\ outcome = "none"
  /\ ran = FALSE

-----------------------------------------------------------------------------
(* Preparation: one thread, no child yet; each step that fails undoes the  *)
(* steps before it and returns an error.                                   *)

Proceed(from, to) == place = from /\ place' = to /\ UNCHANGED outcome

(* Each return path removes the leaf, which the kernel refuses while a     *)
(* live process is in it; the error is ignored.                            *)
LeafRemoved == IF child \in Alive /\ "leaf" \in confined THEN leaf ELSE "none"

Return(result) ==
  /\ place' = "returned"
  /\ outcome' = result
  /\ leaf' = LeafRemoved

PreparationOnly ==
  UNCHANGED <<process, said, killed, oom, timedOut, gaveUp>>

MakeLeaf ==
  /\ Proceed("start", "leaf")
  /\ leaf' = "bare"
  /\ UNCHANGED <<scripts, fds>> /\ PreparationOnly

(* The four limits and the seccomp program and the nonce.                  *)
LimitLeaf ==
  /\ Proceed("leaf", "limited")
  /\ leaf' = "limited"
  /\ UNCHANGED <<scripts, fds>> /\ PreparationOnly

MakeScripts ==
  /\ Proceed("limited", "scripts")
  /\ scripts' = TRUE
  /\ UNCHANGED <<leaf, fds>> /\ PreparationOnly

MakePipes ==
  /\ Proceed("scripts", "pipes")
  /\ fds' = EndsOf(Pipes)
  /\ UNCHANGED <<leaf, scripts>> /\ PreparationOnly

(* Also the base check, and a leaf or a directory that cannot be made.     *)
PrepareFails ==
  /\ place \in {"start", "leaf", "limited"}
  /\ Return("Err")
  /\ UNCHANGED <<scripts, fds>> /\ PreparationOnly

(* pipe2 fails after some of the four pipes were made; those stay open.    *)
PipesFail ==
  /\ place = "scripts"
  /\ Return("Err")
  /\ scripts' = FALSE
  /\ \E made \in PipePrefixes : fds' = EndsOf(made)
  /\ PreparationOnly

CloneFails ==
  /\ place = "pipes"
  /\ Return("Err")
  /\ scripts' = FALSE
  /\ fds' = {}
  /\ PreparationOnly

Clone ==
  /\ Proceed("pipes", "cloned")
  /\ child' = "started"
  /\ childEnds' = Pipes
  /\ fds' = {WriteEnd("ack")} \cup {ReadEnd(p) : p \in Pipes \ {"ack"}}
  /\ UNCHANGED <<leaf, scripts, said, confined, killed, oom, timedOut, gaveUp, ran>>

-----------------------------------------------------------------------------
(* The handshake.                                                          *)

ParentOnly == UNCHANGED <<process, killed, oom, timedOut, gaveUp>>

AwaitReady ==
  /\ Proceed("cloned", "mapping")
  /\ Readable("ready", "ready")
  /\ fds' = fds \ {ReadEnd("ready")}
  /\ UNCHANGED <<leaf, scripts, said>> /\ ParentOnly

(* uid_map and gid_map are written and the child is told.                  *)
WriteMaps ==
  /\ Proceed("mapping", "setup")
  /\ said' = said \cup {"ack"}
  /\ fds' = fds \ {WriteEnd("ack")}
  /\ UNCHANGED <<leaf, scripts>> /\ ParentOnly

(* Either map cannot be written: the parent closes its end of sync_p2c and *)
(* waits, without a deadline, for the child to end.                        *)
MapsFail ==
  /\ Proceed("mapping", "mapFailed")
  /\ fds' = fds \ {WriteEnd("ack")}
  /\ UNCHANGED <<leaf, scripts, said>> /\ ParentOnly

(* Mutated form of SetupRead: the status byte starts as 0 and not as 255,  *)
(* so that a child that died silently looks ready.                         *)
SetupReadZero == IF "failed" \in said THEN "setupFailed" ELSE "polling"

(* The status byte; end of file leaves 255.                                *)
SetupRead == IF "ok" \in said THEN "polling" ELSE "setupFailed"

ReadSetup ==
  /\ place = "setup"
  /\ Readable("code", "ok") \/ Readable("code", "failed")
  /\ place' = SetupRead
  /\ fds' = fds \ {ReadEnd("code")}
  /\ UNCHANGED <<leaf, scripts, said, outcome>> /\ ParentOnly

(* Mutated form of FdsAfterReap: stdout_pipe stays open.                    *)
FdsAfterReapOut == fds \cap {ReadEnd("out")}

FdsAfterReap == {}

(* The blocking waitpid of both failure paths, and the clean-up after it.  *)
ReapFailedChild ==
  /\ place \in {"mapFailed", "setupFailed"}
  /\ child = "dead"
  /\ child' = "reaped"
  /\ scripts' = FALSE
  /\ fds' = FdsAfterReap
  /\ place' = "returned"
  /\ outcome' = IF place = "mapFailed" THEN "Err" ELSE "SetupError"
  /\ leaf' = LeafRemoved
  /\ UNCHANGED <<childEnds, said, confined, killed, oom, timedOut, gaveUp, ran>>

-----------------------------------------------------------------------------
(* The child.                                                              *)

ChildOnly == UNCHANGED <<parent, killed, oom>>

ChildReady ==
  /\ child = "started"
  /\ child' = "waiting"
  /\ said' = said \cup {"ready"}
  /\ childEnds' = childEnds \ {"ready"}
  /\ UNCHANGED <<confined, ran>> /\ ChildOnly

(* The result of the read is not looked at.                                *)
ChildAcked ==
  /\ child = "waiting"
  /\ Readable("ack", "ack")
  /\ child' = "entering"
  /\ UNCHANGED <<childEnds, said, confined, ran>> /\ ChildOnly

(* The child writes itself into cgroup.procs; when it cannot, it reports   *)
(* that and ends.                                                          *)
EnterLeaf ==
  /\ child = "entering"
  /\ child' = "filtering"
  /\ confined' = confined \cup {"leaf"}
  /\ UNCHANGED <<childEnds, said, ran>> /\ ChildOnly

(* Mutated form of EntryFails: the child reports and goes on.               *)
EntryFailureIgnored ==
  /\ child = "entering"
  /\ child' = "filtering"
  /\ said' = said \cup {"failed"}
  /\ UNCHANGED <<childEnds, confined, ran>> /\ ChildOnly

EntryFails ==
  /\ child = "entering"
  /\ child' = "dead"
  /\ said' = said \cup {"failed"}
  /\ childEnds' = {}
  /\ UNCHANGED <<confined, ran>> /\ ChildOnly

(* no_new_privs, the seccomp filter, and the report that all is set up.    *)
InstallFilter ==
  /\ child = "filtering"
  /\ child' = "ready"
  /\ confined' = confined \cup {"filter"}
  /\ said' = said \cup {"ok"}
  /\ childEnds' = childEnds \ {"code"}
  /\ UNCHANGED ran /\ ChildOnly

FilterFails ==
  /\ child = "filtering"
  /\ child' = "dead"
  /\ said' = said \cup {"failed"}
  /\ childEnds' = {}
  /\ UNCHANGED <<confined, ran>> /\ ChildOnly

(* execve, at which the kernel closes every pipe but stdout.               *)
RunProgram ==
  /\ child = "ready"
  /\ child' = "running"
  /\ childEnds' = {"out"}
  /\ ran' = TRUE
  /\ UNCHANGED <<said, confined>> /\ ChildOnly

(* The program ends by itself, execve fails, or something outside kills    *)
(* the child.                                                              *)
ChildDies ==
  /\ child \in Alive
  /\ child' = "dead"
  /\ childEnds' = {}
  /\ UNCHANGED <<said, confined, ran>> /\ ChildOnly

(* The kernel kills a process of the leaf, the child or one it started,    *)
(* when the leaf is over memory.max.                                       *)
OomKill ==
  /\ child \in Alive /\ "leaf" \in confined
  /\ oom' = TRUE
  /\ \/ child' = "dead" /\ childEnds' = {}
     \/ UNCHANGED <<child, childEnds>>
  /\ UNCHANGED <<parent, said, confined, killed, ran>>

(* cgroup.kill takes effect some time after it was written.                *)
KillArrives ==
  /\ killed
  /\ child \in Alive /\ "leaf" \in confined
  /\ child' = "dead"
  /\ childEnds' = {}
  /\ UNCHANGED <<said, confined, ran>> /\ ChildOnly
-----------------------------------------------------------------------------
(* Polling, containment and clean-up.                                      *)

(* One turn of the poll loop asks waitpid first and looks at the deadline  *)
(* only when the child has not ended.                                      *)
PollReaps ==
  /\ Proceed("polling", "collect")
  /\ child = "dead"
  /\ child' = "reaped"
  /\ UNCHANGED <<leaf, scripts, fds, childEnds, said, confined, killed, oom,
                 timedOut, gaveUp, ran>>

PollTimesOut ==
  /\ Proceed("polling", "contain")
  /\ child # "dead"
  /\ timedOut' = TRUE
  /\ UNCHANGED <<leaf, scripts, fds, said, killed, oom, gaveUp, process>>

(* cgroup.freeze, then cgroup.kill; both writes may fail and neither       *)
(* failure is looked at.  What a freeze does, keeping the program from     *)
(* ending by itself, only removes behaviours.                              *)
Contain ==
  /\ Proceed("contain", "reap")
  /\ killed' \in BOOLEAN
  /\ UNCHANGED <<leaf, scripts, fds, said, oom, timedOut, gaveUp, process>>

ReapKilled ==
  /\ Proceed("reap", "collect")
  /\ child = "dead"
  /\ child' = "reaped"
  /\ UNCHANGED <<leaf, scripts, fds, childEnds, said, confined, killed, oom,
                 timedOut, gaveUp, ran>>

(* Mutated form of GiveUp: the reap blocks, however long it takes.          *)
BlockingReap == FALSE

(* KILL_REAP_DEADLINE_MS passes.                                           *)
GiveUp ==
  /\ Proceed("reap", "collect")
  /\ child # "dead"
  /\ gaveUp' = TRUE
  /\ UNCHANGED <<leaf, scripts, fds, said, killed, oom, timedOut, process>>

(* The last drain, the pipe and the scripts; the await of 200 ms after a   *)
(* timeout lies between this step and the next.                            *)
Collect ==
  /\ Proceed("collect", "settle")
  /\ fds' = fds \ {ReadEnd("out")}
  /\ scripts' = FALSE
  /\ UNCHANGED <<leaf, said>> /\ ParentOnly

Verdict(oomRead) ==
  IF oomRead THEN "OomKilled" ELSE IF timedOut THEN "Timeout" ELSE "Clean"

(* memory.events is read before the leaf goes, and counts as zero when it  *)
(* cannot be read.                                                         *)
Finish ==
  /\ place = "settle"
  /\ \E oomRead \in {oom, FALSE} : Return(Verdict(oomRead))
  /\ UNCHANGED <<scripts, fds, said>> /\ ParentOnly

(* The future is dropped at one of its two awaits (the client of verify is *)
(* gone), or Duration::from_secs_f64 panics on the configured timeout      *)
(* before the poll loop: nothing after that point runs.                    *)
Abandon ==
  /\ \/ place = "polling"
     \/ place = "settle" /\ timedOut
  /\ place' = "abandoned"
  /\ UNCHANGED <<leaf, scripts, fds, outcome, said>> /\ ParentOnly

Prepare == \/ MakeLeaf \/ LimitLeaf \/ MakeScripts \/ MakePipes \/ Clone
           \/ PrepareFails \/ PipesFail \/ CloneFails

Handshake == AwaitReady \/ WriteMaps \/ MapsFail \/ ReadSetup \/ ReapFailedChild

Watch == \/ PollReaps \/ PollTimesOut \/ Contain \/ ReapKilled \/ GiveUp
         \/ Collect \/ Finish

Child == \/ ChildReady \/ ChildAcked \/ EnterLeaf \/ EntryFails
         \/ InstallFilter \/ FilterFails \/ RunProgram

WorkerNext == \/ Prepare \/ Handshake \/ Watch \/ Abandon
              \/ Child \/ ChildDies \/ OomKill \/ KillArrives

(* The parent's and the child's own steps are taken when they can be, and  *)
(* the kernel delivers a kill; nothing makes the submitted program end.    *)
WorkerSpec ==
  /\ WorkerInit /\ [][WorkerNext]_workerVars
  /\ WF_workerVars(Prepare) /\ WF_workerVars(Handshake) /\ WF_workerVars(Watch)
  /\ WF_workerVars(Child) /\ WF_workerVars(KillArrives)
-----------------------------------------------------------------------------
(* The submitted program never runs outside its leaf, without its filter   *)
(* or in a leaf whose limits are not set or that was removed, whichever    *)
(* step fails and whenever the call is abandoned ("safety-critical",       *)
(* sandbox_child_fn).                                                      *)
ProgramConfined ==
  child = "running" => confined = {"leaf", "filter"} /\ leaf = "limited"

(* However it goes, a call that returns has removed its scripts, closed    *)
(* its pipes and reaped its child, and its leaf is gone, except when the   *)
(* child outlived the bounded reap.  Pipes made before a failing pipe2     *)
(* stay open: there is no clean-up for them in the code.                   *)
NothingLeftBehind ==
  place = "returned" =>
    /\ ~scripts
    /\ fds # {} => child = "none" /\ outcome = "Err"
    /\ leaf # "none" \/ child \notin {"none", "reaped"} => gaveUp

(* The result tells what happened: after an error or a set-up error the    *)
(* submitted program never started; any other result comes from a child    *)
(* that reported its confinement complete; an exit status is reported only *)
(* if it was collected in time, and an OOM kill only if there was one.     *)
ResultTellsWhatRan ==
  place = "returned" =>
    /\ ran => outcome \notin {"Err", "SetupError"}
    /\ "ok" \in said \/ outcome \in {"Err", "SetupError"}
    /\ outcome = "Clean" => child = "reaped" /\ ~timedOut
    /\ outcome = "OomKilled" => oom

(* A call comes to its end although the program need not and kills may     *)
(* fail: the deadline and the bounded reap see to it.  A call that could   *)
(* not write an ID map is left out: it waits for a child that waits for it. *)
RunEnds == <>(place \in {"returned", "abandoned", "mapFailed"})

=============================================================================
