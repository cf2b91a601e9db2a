-------------------------- MODULE ActorLearnerProofs --------------------------
(***************************************************************************)
(* SnapshotsAreWhole and RolloutsAreUnbroken for every number of actors,   *)
(* workers, calls and updates.  For the first the invariant says who holds *)
(* the policy lock, and what an actor has copied so far and the learner    *)
(* written so far while they do; for the second which workers an actor     *)
(* knows the state of, and that nobody else moves them until the stop      *)
(* event is set.                                                           *)
(***************************************************************************)
EXTENDS ActorLearner, SequenceTheorems, TLAPS

IsSequence(s) == \E n \in Nat : s = [i \in 1 .. n |-> s[i]]

(* Shapes only: nothing here depends on the values of the other fields.    *)
IsThread(r) ==
  r = [pc |-> r.pc, at |-> r.at, row |-> r.row, snap |-> r.snap, torn |-> r.torn]

Even(p) == p[1] = p[2]

(* What an actor has of the policy, given the lock and the policy.         *)
HasOf(r, t) ==
  /\ r.pc = "sync" => r.snap = <<>>
  /\ r.pc = "copy" => lock = t /\ (r.snap = <<>> \/ r.snap = <<policy[1]>>)
  /\ r.pc \in {"step", "offer", "put"} => Even(r.snap)

PolicyOK ==
  /\ policy \in Nat \X Nat
  /\ Whole \/ (lpc = "write" /\ policy[1] = policy[2] + 1)
  /\ lpc = "write" => lock = Learner

FileOK == file = <<>> \/ (file \in Nat \X Nat /\ Even(file))

ThreadsOK ==
  /\ thread = [t \in Threads |-> thread[t]]
  /\ \A t \in Threads : IsThread(thread[t]) /\ HasOf(thread[t], t)

QueueOK ==
  /\ IsSequence(queue)
  /\ \A i \in DOMAIN queue : Even(queue[i].snap)

IInv == PolicyOK /\ FileOK /\ ThreadsOK /\ QueueOK

-----------------------------------------------------------------------------
(* Sequences of which only the shape is known.                             *)

LEMMA SequenceHasSet ==
  ASSUME NEW s, IsSequence(s)
  PROVE  s \in Seq({s[i] : i \in DOMAIN s})
<1>1. PICK n \in Nat : s = [i \in 1 .. n |-> s[i]]
  BY DEF IsSequence
<1>2. s \in [1 .. n -> {s[i] : i \in DOMAIN s}]
  BY <1>1
<1> QED BY <1>2, SeqDef

LEMMA AppendIsSequence ==
  ASSUME NEW s, IsSequence(s), NEW x
  PROVE  /\ IsSequence(Append(s, x))
         /\ \A i \in DOMAIN Append(s, x) :
              Append(s, x)[i] = x \/ (i \in DOMAIN s /\ Append(s, x)[i] = s[i])
<1> DEFINE S == {s[i] : i \in DOMAIN s} \union {x}
           a == Append(s, x)
<1>1. s \in Seq(S)
  <2>1. PICK T : T = {s[i] : i \in DOMAIN s}
    OBVIOUS
  <2>2. s \in Seq(T)
    BY <2>1, SequenceHasSet
  <2>3. T \subseteq S
    BY <2>1
  <2> QED BY <2>2, <2>3, SeqMonotonic
<1>2. /\ a \in Seq(S) /\ Len(a) = Len(s) + 1
      /\ \A i \in 1 .. Len(s) : a[i] = s[i]
      /\ a[Len(s) + 1] = x
  BY <1>1, AppendProperties
<1>3. Len(s) \in Nat /\ DOMAIN s = 1 .. Len(s) /\ DOMAIN a = 1 .. Len(s) + 1
  BY <1>1, <1>2, LenProperties
<1>4. IsSequence(a)
  <2>1. a = [i \in 1 .. Len(a) |-> a[i]] /\ Len(a) \in Nat
    BY <1>2, LenProperties, SeqDef
  <2> QED BY <2>1 DEF IsSequence
<1>5. \A i \in 1 .. Len(s) + 1 : i \in 1 .. Len(s) \/ i = Len(s) + 1
  BY <1>3
<1> QED BY <1>2, <1>3, <1>4, <1>5

LEMMA TailIsSequence ==
  ASSUME NEW s, IsSequence(s), s # <<>>
  PROVE  /\ IsSequence(Tail(s))
         /\ \A i \in DOMAIN Tail(s) : i + 1 \in DOMAIN s /\ Tail(s)[i] = s[i + 1]
<1> DEFINE S == {s[i] : i \in DOMAIN s}
<1>1. s \in Seq(S)
  BY SequenceHasSet
<1>2. /\ Tail(s) \in Seq(S) /\ Len(Tail(s)) = Len(s) - 1
      /\ \A i \in 1 .. Len(Tail(s)) : Tail(s)[i] = s[i + 1]
  BY <1>1, HeadTailProperties
<1>3. /\ Len(s) \in Nat /\ DOMAIN s = 1 .. Len(s)
      /\ Len(Tail(s)) \in Nat /\ DOMAIN Tail(s) = 1 .. Len(Tail(s))
  BY <1>1, <1>2, LenProperties
<1>4. Tail(s) = [i \in 1 .. Len(Tail(s)) |-> Tail(s)[i]]
  BY <1>2, SeqDef, LenProperties
<1>5. IsSequence(Tail(s))
  BY <1>3, <1>4 DEF IsSequence
<1>6. \A i \in 1 .. Len(s) - 1 : i + 1 \in 1 .. Len(s)
  BY <1>3
<1> QED BY <1>2, <1>3, <1>5, <1>6

-----------------------------------------------------------------------------
(* A step of one thread that leaves the lock with whom it was, or passes   *)
(* it between this thread and nobody.                                      *)

LEMMA OneThread ==
  ASSUME ThreadsOK, NEW t \in Threads, NEW r,
         Becomes(t, r), IsThread(r), HasOf(r, t)',
         UNCHANGED policy,
         \/ UNCHANGED lock
         \/ lock = Nobody
         \/ lock = t
  PROVE  ThreadsOK'
<1>1. /\ thread' = [u \in Threads |-> thread'[u]]
      /\ thread'[t] = r
      /\ \A u \in Threads : u # t => thread'[u] = thread[u]
  BY DEF ThreadsOK, Becomes
<1>2. ASSUME NEW u \in Threads, u # t
      PROVE  IsThread(thread'[u]) /\ HasOf(thread[u], u)'
  <2>1. t # Nobody /\ u # Nobody
    BY DEF Threads, Nobody
  <2>2. thread[u].pc = "copy" => lock = u /\ lock' = lock
    BY <1>2, <2>1 DEF ThreadsOK, HasOf
  <2> QED BY <1>1, <1>2, <2>2 DEF ThreadsOK, HasOf
<1> QED BY <1>1, <1>2 DEF ThreadsOK

(* The main thread leaves the threads alone unless train() starts some.    *)
LEMMA NoThreadMoves ==
  ASSUME ThreadsOK, UNCHANGED thread,
         \/ UNCHANGED <<policy, lock>>
         \/ lock \in {Nobody, Learner}
  PROVE  ThreadsOK'
<1>1. ASSUME NEW t \in Threads
      PROVE  HasOf(thread[t], t)'
  <2>1. t # Nobody /\ t # Learner
    BY DEF Threads, Nobody, Learner
  <2> QED BY <1>1, <2>1 DEF ThreadsOK, HasOf
<1> QED BY <1>1 DEF ThreadsOK

LEMMA InitIInv == Init => IInv
<1> SUFFICES ASSUME Init PROVE IInv
  OBVIOUS
<1>1. PolicyOK /\ FileOK
  BY DEF Init, PolicyOK, FileOK, Whole
<1>2. ThreadsOK
  BY DEF Init, ThreadsOK, NoThread, At, IsThread, HasOf
<1>3. QueueOK
  <2>1. queue = [i \in 1 .. 0 |-> queue[i]] /\ DOMAIN queue = {}
    BY DEF Init
  <2> QED BY <2>1 DEF QueueOK, IsSequence
<1> QED BY <1>1, <1>2, <1>3 DEF IInv

-----------------------------------------------------------------------------
(* An actor's own steps leave the policy, the file and the learner alone.  *)

ActorOwn(t) == ActorCalls(t) \/ ActorRest(t) \/ WorkerExecutesLate(t)

LEMMA CopyKeepsThreads ==
  ASSUME IInv, NEW t \in Threads, CopyTensor(t)
  PROVE  ThreadsOK'
<1>1. /\ thread[t].pc = "copy" /\ lock = t
      /\ thread[t].snap = <<>> \/ thread[t].snap = <<policy[1]>>
      /\ IsThread(thread[t])
  BY DEF IInv, ThreadsOK, HasOf, CopyTensor
<1>2. /\ policy = <<policy[1], policy[2]>> /\ Len(policy) = 2
      /\ policy[1] \in Nat /\ policy[1] = policy[2]
  <2>1. t # Learner
    BY DEF Threads, Learner
  <2> QED BY <1>1, <2>1 DEF IInv, PolicyOK, Whole
<1>3. PICK snap : snap = Append(thread[t].snap, policy[Len(thread[t].snap) + 1])
  OBVIOUS
<1>4. \/ snap = <<policy[1]>> /\ Len(snap) = 1
      \/ snap = <<policy[1], policy[2]>> /\ Len(snap) = 2
  <2>1. CASE thread[t].snap = <<>>
    BY <2>1, <1>2, <1>3
  <2>2. CASE thread[t].snap = <<policy[1]>>
    <3>1. Len(<<policy[1]>>) + 1 = 2
      OBVIOUS
    <3>2. snap = Append(<<policy[1]>>, policy[2])
      BY <1>3, <2>2, <3>1
    <3>3. \A a, b \in Nat : Append(<<a>>, b) = <<a, b>>
      <4> SUFFICES ASSUME NEW a \in Nat, NEW b \in Nat
                   PROVE  Append(<<a>>, b) = <<a, b>>
        OBVIOUS
      <4>1. <<a>> \in Seq(Nat) /\ Len(<<a>>) = 1 /\ <<a>>[1] = a
        OBVIOUS
      <4>2. <<a, b>> \in Seq(Nat) /\ Len(<<a, b>>) = 2 /\ <<a, b>>[1] = a /\ <<a, b>>[2] = b
        OBVIOUS
      <4>3. /\ Append(<<a>>, b) \in Seq(Nat) /\ Len(Append(<<a>>, b)) = 2
            /\ Append(<<a>>, b)[1] = a /\ Append(<<a>>, b)[2] = b
        BY <4>1, AppendProperties
      <4>4. \A i \in 1 .. 2 : i = 1 \/ i = 2
        OBVIOUS
      <4> QED BY <4>2, <4>3, <4>4, SeqEqual
    <3>4. Len(<<policy[1], policy[2]>>) = 2
      OBVIOUS
    <3> QED BY <1>2, <3>2, <3>3, <3>4
  <2> QED BY <1>1, <2>1, <2>2
<1>5. PICK r : r = [thread[t] EXCEPT
                      !.snap = snap,
                      !.pc = IF Len(snap) = 2 THEN "step" ELSE @]
  OBVIOUS
<1>6. r.snap = snap /\ IsThread(r) /\ r.pc = IF Len(snap) = 2 THEN "step" ELSE "copy"
  BY <1>1, <1>5 DEF IsThread
<1>7. /\ Becomes(t, r) /\ UNCHANGED policy
      /\ lock' = IF Len(snap) = 2 THEN Nobody ELSE lock
  BY <1>1, <1>2, <1>3, <1>5 DEF CopyTensor, learner
<1>8. HasOf(r, t)'
  <2>1. CASE Len(snap) = 1
    BY <1>1, <1>4, <1>6, <1>7, <2>1 DEF HasOf
  <2>2. CASE Len(snap) = 2
    BY <1>2, <1>4, <1>6, <1>7, <2>2 DEF HasOf, Even
  <2> QED BY <1>4, <2>1, <2>2
<1> QED BY <1>1, <1>6, <1>7, <1>8, OneThread DEF IInv

(* The other steps of a thread: what it becomes is nowhere near the policy *)
(* or keeps the snapshot it has.                                           *)
LEMMA ActorKeepsThreads ==
  ASSUME IInv, NEW t \in Threads, ActorOwn(t)
  PROVE  ThreadsOK'
<1>1. IsThread(thread[t]) /\ HasOf(thread[t], t) /\ ThreadsOK
  BY DEF IInv, ThreadsOK
<1>2. ASSUME NEW r, Becomes(t, r), IsThread(r), UNCHANGED <<policy, lock>>,
             \/ r.pc \notin {"sync", "copy", "step", "offer", "put"}
             \/ r.pc = "sync" /\ r.snap = <<>>
             \/ r.pc = "step" /\ r.snap = <<0, 0>>
             \/ /\ r.pc \in {"step", "offer", "put"}
                /\ thread[t].pc \in {"step", "offer", "put"}
                /\ r.snap = thread[t].snap
      PROVE  ThreadsOK'
  <2>1. HasOf(r, t)'
    BY <1>1, <1>2 DEF HasOf, Even
  <2> QED BY <1>1, <1>2, <2>1, OneThread
<1>3. \A pc : /\ IsThread(At(pc)) /\ At(pc).pc = pc /\ At(pc).snap = <<>>
  BY DEF IsThread, At
<1>4. \A pc : LET r == [thread[t] EXCEPT !.pc = pc]
             IN  IsThread(r) /\ r.pc = pc /\ r.snap = thread[t].snap
  BY <1>1 DEF IsThread
<1>5. CASE Connect(t)
  BY <1>2, <1>4, <1>5 DEF Connect, Goes, learner
<1>6. CASE ConnectFails(t) \/ StepRejected(t) \/ CallFails(t)
  BY <1>2, <1>3, <1>6 DEF ConnectFails, StepRejected, CallFails, Ended, learner
<1>7. CASE ResetAll(t)
  <2> DEFINE r == [thread[t] EXCEPT !.at = @ + 1]
  <2>1. IsThread(r) /\ r.pc = "reset"
    BY <1>1, <1>7 DEF IsThread, ResetAll
  <2>2. CASE thread[t].at = Len(Pool(t))
    BY <1>2, <1>3, <1>7, <2>2 DEF ResetAll, learner
  <2>3. CASE thread[t].at # Len(Pool(t))
    <3>1. Becomes(t, r) /\ UNCHANGED <<policy, lock>>
      BY <1>7, <2>3 DEF ResetAll, learner
    <3> HIDE DEF r
    <3> QED BY <1>2, <2>1, <3>1
  <2> QED BY <2>2, <2>3
<1>8. CASE StepAll(t)
  <2> DEFINE r == AfterAnswer(t)
  <2>1. /\ IsThread(r) /\ r.snap = thread[t].snap
        /\ r.pc \in {"step", "offer"} /\ thread[t].pc = "step"
    BY <1>1, <1>8 DEF IsThread, StepAll, AfterAnswer
  <2>2. Becomes(t, r) /\ UNCHANGED <<policy, lock>>
    BY <1>8 DEF StepAll, learner
  <2> HIDE DEF r
  <2> QED BY <1>2, <2>1, <2>2
<1>9. CASE CheckStop(t)
  <2>1. CASE stop
    BY <1>2, <1>3, <1>9, <2>1 DEF CheckStop, Ended, learner
  <2>2. CASE ~stop /\ ~IsPipeline
    BY <1>2, <1>3, <1>9, <2>2 DEF CheckStop, NewRollout, learner
  <2>3. CASE ~stop /\ IsPipeline
    <3>1. PICK r : r = [At("step") EXCEPT !.snap = <<0, 0>>]
      OBVIOUS
    <3>2. IsThread(r) /\ r.pc = "step" /\ r.snap = <<0, 0>>
      BY <3>1 DEF IsThread, At
    <3>3. Becomes(t, r) /\ UNCHANGED <<policy, lock>>
      BY <1>9, <2>3, <3>1 DEF CheckStop, NewRollout, learner
    <3> QED BY <1>2, <3>2, <3>3
  <2> QED BY <2>1, <2>2, <2>3
<1>10. CASE TakeLock(t)
  <2>0. PICK r : r = [thread[t] EXCEPT !.pc = "copy"]
    OBVIOUS
  <2>1. /\ Becomes(t, r) /\ UNCHANGED policy /\ lock = Nobody /\ lock' = t
        /\ thread[t].pc = "sync"
    BY <1>10, <2>0 DEF TakeLock, Goes, learner
  <2>2. IsThread(r) /\ r.pc = "copy" /\ r.snap = <<>>
    BY <1>1, <1>4, <2>0, <2>1 DEF HasOf
  <2>3. HasOf(r, t)'
    BY <2>1, <2>2 DEF HasOf
  <2> QED BY <1>1, <2>1, <2>2, <2>3, OneThread
<1>11. CASE CopyTensor(t)
  BY <1>11, CopyKeepsThreads
<1>12. CASE OfferRollout(t)
  BY <1>2, <1>3, <1>4, <1>12 DEF OfferRollout, Goes, learner
<1>13. CASE Put(t)
  BY <1>2, <1>3, <1>4, <1>13 DEF Put, Goes, learner
<1>14. CASE WorkerExecutesLate(t)
  BY <1>1, <1>14, NoThreadMoves DEF WorkerExecutesLate, learner
<1> QED
  BY <1>5, <1>6, <1>7, <1>8, <1>9, <1>10, <1>11, <1>12, <1>13, <1>14
  DEF ActorOwn, ActorCalls, ActorRest

LEMMA ActorKeepsQueue ==
  ASSUME IInv, NEW t \in Threads, ActorOwn(t)
  PROVE  QueueOK'
<1>1. CASE UNCHANGED queue
  BY <1>1 DEF IInv, QueueOK
<1>2. CASE Put(t) /\ ~UNCHANGED queue
  <2>1. PICK x : /\ x = [snap |-> thread[t].snap, torn |-> thread[t].torn]
                 /\ queue' = Append(queue, x)
    BY <1>2 DEF Put
  <2>2. Even(x.snap)
    BY <1>2, <2>1 DEF IInv, ThreadsOK, HasOf, Put
  <2> QED BY <2>1, <2>2, AppendIsSequence DEF IInv, QueueOK
<1> QED
  BY <1>1, <1>2
  DEF ActorOwn, ActorCalls, ActorRest, Connect, ConnectFails, ResetAll, StepAll, StepRejected,
      CallFails, CheckStop, TakeLock, CopyTensor, OfferRollout, WorkerExecutesLate, Goes

LEMMA ActorIInv ==
  ASSUME IInv, NEW t \in Threads, ActorOwn(t)
  PROVE  IInv'
<1>1. UNCHANGED <<policy, lpc, file>>
  BY DEF ActorOwn, ActorCalls, ActorRest, Connect, ConnectFails, ResetAll, StepAll, StepRejected,
         CallFails, CheckStop, TakeLock, CopyTensor, OfferRollout, Put, WorkerExecutesLate, learner
<1>2. lpc = "write" => UNCHANGED lock
  <2>1. t # Learner /\ t # Nobody /\ Learner # Nobody
    BY DEF Threads, Learner, Nobody
  <2>2. lpc = "write" => ~TakeLock(t) /\ ~CopyTensor(t)
    BY <2>1 DEF IInv, PolicyOK, ThreadsOK, HasOf, TakeLock, CopyTensor
  <2> QED
    BY <2>2 DEF ActorOwn, ActorCalls, ActorRest, Connect, ConnectFails, ResetAll, StepAll,
                StepRejected, CallFails, CheckStop, OfferRollout, Put, WorkerExecutesLate
<1>3. PolicyOK' /\ FileOK'
  BY <1>1, <1>2 DEF IInv, PolicyOK, FileOK, Whole
<1> QED BY <1>3, ActorKeepsThreads, ActorKeepsQueue DEF IInv

-----------------------------------------------------------------------------
(* The main thread.                                                        *)

LearnerOwn ==
  \/ LearnerSteps \/ LearnerRaises \/ StartRaises \/ Save \/ PipelineCalls
  \/ \E n \in 1 .. cfg.updates : Train(n)

LEMMA LearnerKeepsPolicy ==
  ASSUME IInv, LearnerOwn
  PROVE  PolicyOK' /\ FileOK'
<1>1. CASE WriteTensor
  <2>1. policy = <<policy[1], policy[2]>> /\ policy[1] \in Nat /\ policy[2] \in Nat
    BY DEF IInv, PolicyOK
  <2>2. CASE Whole
    <3>1. policy' = <<policy[1] + 1, policy[2]>> /\ lpc' = "write" /\ UNCHANGED <<lock, file>>
      BY <1>1, <2>1, <2>2 DEF WriteTensor, Advances
    <3> QED BY <1>1, <2>1, <2>2, <3>1 DEF IInv, PolicyOK, FileOK, Whole, WriteTensor
  <2>3. CASE ~Whole
    <3>1. policy' = <<policy[1], policy[2] + 1>> /\ lpc' = "callbacks" /\ UNCHANGED file
      BY <1>1, <2>1, <2>3 DEF WriteTensor, Advances
    <3>2. policy[1] = policy[2] + 1
      BY <2>3 DEF IInv, PolicyOK
    <3> QED BY <2>1, <3>1, <3>2 DEF IInv, PolicyOK, FileOK, Whole
  <2> QED BY <2>2, <2>3
<1>2. CASE ComputeLoss
  BY <1>2 DEF IInv, PolicyOK, FileOK, Whole, ComputeLoss, Advances
<1>3. CASE LearnerRaises
  BY <1>3 DEF IInv, PolicyOK, FileOK, Whole, LearnerRaises, Advances
<1>4. CASE Save
  BY <1>4 DEF IInv, PolicyOK, FileOK, Whole, Even, Save
<1>5. CASE \/ TrainingStarts \/ StartRaises \/ GetRollout \/ GetTimesOut \/ RunCallbacks \/ SetStop
           \/ JoinActors \/ BatchReturned \/ PipelineCalls
           \/ \E n \in 1 .. cfg.updates : Train(n)
  <2>1. lpc # "write" /\ lpc' # "write" /\ UNCHANGED <<policy, file>>
    BY <1>5 DEF TrainingStarts, StartRaises, GetRollout, GetTimesOut, RunCallbacks, SetStop, JoinActors, Train, Enters, Advances,
                BatchReturned, PipelineCalls, NextBatch, TryNextBatch, Close, Uses
  <2> QED BY <2>1 DEF IInv, PolicyOK, FileOK, Whole
<1> QED BY <1>1, <1>2, <1>3, <1>4, <1>5 DEF LearnerOwn, LearnerSteps

LEMMA LearnerKeepsThreads ==
  ASSUME IInv, LearnerOwn
  PROVE  ThreadsOK'
<1>1. CASE \E n \in 1 .. cfg.updates : Train(n)
  <2>1. /\ thread' = [t \in Threads |->
                        IF t \in NewThreads THEN At("connect") ELSE thread[t]]
        /\ UNCHANGED <<policy, lock>>
    BY <1>1 DEF Train, Enters
  <2>2. ASSUME NEW t \in Threads
        PROVE  IsThread(thread'[t]) /\ HasOf(thread[t], t)'
    BY <2>1, <2>2 DEF IInv, ThreadsOK, IsThread, HasOf, At
  <2> QED BY <2>1, <2>2 DEF ThreadsOK
<1>2. CASE WriteTensor \/ ComputeLoss \/ LearnerRaises
  <2>1. /\ UNCHANGED thread
        /\ UNCHANGED <<policy, lock>> \/ lock \in {Nobody, Learner}
    BY <1>2 DEF IInv, PolicyOK, WriteTensor, ComputeLoss, LearnerRaises
  <2> QED BY <2>1, NoThreadMoves DEF IInv
<1>3. CASE \/ TrainingStarts \/ StartRaises \/ GetRollout \/ GetTimesOut \/ RunCallbacks
           \/ SetStop \/ JoinActors \/ Save \/ BatchReturned \/ PipelineCalls
  <2>1. UNCHANGED <<thread, policy, lock>>
    BY <1>3 DEF TrainingStarts, StartRaises, GetRollout, GetTimesOut, RunCallbacks, SetStop, JoinActors, Save, BatchReturned,
                PipelineCalls, NextBatch, TryNextBatch, Close, Uses
  <2> QED BY <2>1, NoThreadMoves DEF IInv
<1> QED BY <1>1, <1>2, <1>3 DEF LearnerOwn, LearnerSteps

LEMMA LearnerKeepsQueue ==
  ASSUME IInv, LearnerOwn
  PROVE  QueueOK'
<1>1. CASE queue # <<>> /\ queue' = Tail(queue)
  BY <1>1, TailIsSequence DEF IInv, QueueOK
<1>2. CASE UNCHANGED queue
  BY <1>2 DEF IInv, QueueOK
<1> QED
  BY <1>1, <1>2
  DEF LearnerOwn, LearnerSteps, TrainingStarts, StartRaises, GetRollout, GetTimesOut, RunCallbacks, SetStop, JoinActors, Save,
      WriteTensor, ComputeLoss, LearnerRaises, Train, Enters, BatchReturned, PipelineCalls,
      NextBatch, TryNextBatch, Close, Uses

LEMMA RestartIInv ==
  ASSUME IInv, FromCheckpoint
  PROVE  IInv'
<1>1. PolicyOK' /\ FileOK'
  BY DEF IInv, FromCheckpoint, PolicyOK, FileOK, Whole, Even
<1>2. ThreadsOK'
  <2>1. ASSUME NEW t \in Threads
        PROVE  IsThread(thread'[t]) /\ HasOf(thread[t], t)'
    BY DEF FromCheckpoint, IsThread, HasOf, NoThread, At
  <2> QED BY <2>1 DEF ThreadsOK, FromCheckpoint
<1>3. QueueOK'
  <2>1. queue' = [i \in 1 .. 0 |-> queue'[i]] /\ DOMAIN queue' = {}
    BY DEF FromCheckpoint
  <2> QED BY <2>1 DEF QueueOK, IsSequence
<1> QED BY <1>1, <1>2, <1>3 DEF IInv

LEMMA NextIInv == IInv /\ [Next]_vars => IInv'
<1> SUFFICES ASSUME IInv, [Next]_vars PROVE IInv'
  OBVIOUS
<1>1. CASE \E t \in Threads : ActorOwn(t)
  BY <1>1, ActorIInv
<1>2. CASE LearnerOwn
  BY <1>2, LearnerKeepsPolicy, LearnerKeepsThreads, LearnerKeepsQueue DEF IInv
<1>3. CASE FromCheckpoint
  BY <1>3, RestartIInv
<1>4. CASE UNCHANGED vars
  <2>1. UNCHANGED <<policy, lpc, lock, file, thread, queue>>
    BY <1>4 DEF vars, learner
  <2> QED
    BY <2>1, NoThreadMoves DEF IInv, PolicyOK, FileOK, QueueOK, Whole
<1> QED BY <1>1, <1>2, <1>3, <1>4 DEF Next, ActorOwn, LearnerOwn

(* Between any two steps of any number of actors and of the learner, the   *)
(* lock of impala.py:221-224 and 394-401 is held by whoever is in the      *)
(* middle of the policy, over all train() calls, errors and restarts.      *)
THEOREM LockHolds == Spec => []IInv
<1> QED BY InitIInv, NextIInv, PTL DEF Spec

(* No actor acts on, and the learner never gets, a policy that one tensor  *)
(* of an update had reached and the other had not, for any number of       *)
(* actors, workers and updates.                                            *)
THEOREM SnapshotsAreWholeHold == Spec => []SnapshotsAreWhole
<1>1. IInv => SnapshotsAreWhole
  BY DEF IInv, ThreadsOK, HasOf, QueueOK, Even, SnapshotsAreWhole
<1> QED BY <1>1, LockHolds, PTL

-----------------------------------------------------------------------------
(* The environments.  Until the stop event is set there is one train()     *)
(* call at most (unless one was left to run and another made), whose       *)
(* actors share no worker: what one has observed only its own steps        *)
(* outdate.  Once it is set no actor starts to put.                        *)

ConfigOK(c) ==
  /\ {"class", "actors", "workers"} \subseteq DOMAIN c
  /\ c.actors \in Nat \ {0} /\ c.workers \in Seq(Nat \ {0})
  /\ c.workers # <<>> => Len(c.workers) >= c.actors
  /\ c.class = "Pipeline" => c.actors = 1

Pooled(t) == {Pool(t)[k] : k \in 1 .. Len(Pool(t))}

(* A thread r, number t, knows the state of what it has reset or stepped.  *)
Knows(r, t, s) ==
  r.pc \notin {"none", "ended"} =>
    /\ r.at \in 1 .. Len(Pool(t))
    /\ r.torn = {}
    /\ r.pc = "connect" => r.at = 1
    /\ r.pc = "reset" => \A k \in 1 .. r.at - 1 : <<t, Pool(t)[k]>> \in s
    /\ r.pc \notin {"connect", "reset"} => \A w \in Pooled(t) : <<t, w>> \in s

FirstCall ==
  /\ calls = 0 /\ ~IsPipeline => \A t \in Threads : thread[t].pc = "none"
  /\ \A t \in Threads :
       /\ thread[t].pc # "none" => t \in 1 .. cfg.actors
       /\ Knows(thread[t], t, seen)
  /\ \A c \in late : /\ c[1] \in Threads /\ thread[c[1]].pc = "ended"
                     /\ c[2] \in Pooled(c[1])

(* Nothing but the actors of one train() call can still put.               *)
Lone == ~stop /\ strays # "overtaken"

UnbrokenInv ==
  /\ ConfigOK(cfg)
  /\ calls \in Nat
  /\ IsPipeline => calls = 0
  /\ lpc = "join" => stop
  /\ lpc = "next" => IsPipeline
  /\ lpc = "idle" /\ ~stop /\ strays = "none" => calls = 0
  /\ strays \in {"none", "running", "overtaken"}
  /\ \A t \in Threads : thread[t].pc = "put" /\ strays # "overtaken" => thread[t].torn = {}
  /\ RolloutsAreUnbroken
  /\ Lone => FirstCall

LEMMA DivMod ==
  ASSUME NEW x \in Nat, NEW d \in Nat \ {0}
  PROVE  /\ x \div d \in Nat /\ x % d \in Nat
         /\ x = d * (x \div d) + (x % d) /\ x % d < d
OBVIOUS

(* A quotient is zero exactly below the divisor.                           *)
LEMMA SmallQuotient ==
  ASSUME NEW x \in Nat, NEW d \in Nat \ {0}
  PROVE  /\ x < d => x % d = x
         /\ x >= d => x \div d >= 1
<1>1. PICK q \in Nat, r \in Nat :
        /\ q = x \div d /\ r = x % d
        /\ x = d * q + r /\ r < d
  BY DivMod
<1>2. CASE q = 0
  <2>1. d * q = 0
    BY <1>2
  <2> QED BY <1>1, <2>1
<1>3. CASE q >= 1
  <2>1. PICK p \in Nat : q = p + 1
    <3>1. q - 1 \in Nat /\ q = (q - 1) + 1
      BY <1>3
    <3> QED BY <3>1
  <2>2. d * q = d * p + d
    BY <2>1
  <2>3. d * p \in Nat
    OBVIOUS
  <2>4. x >= d
    BY <1>1, <2>2, <2>3
  <2> QED BY <1>1, <1>3, <2>4
<1> QED BY <1>1, <1>2, <1>3

(* _partition_addresses, for share sizes that differ by one.               *)
Offset(i, base, extra) == IF i - 1 <= extra THEN (i - 1) * (base + 1) ELSE (i - 1) * base + extra
Share(i, base, extra) == IF i <= extra THEN base + 1 ELSE base

LEMMA SharesApart ==
  ASSUME NEW base \in Nat, NEW extra \in Nat, NEW i \in Nat \ {0}, NEW j \in Nat, i < j
  PROVE  /\ Offset(i, base, extra) \in Nat /\ Offset(j, base, extra) \in Nat
         /\ Offset(i, base, extra) + Share(i, base, extra) <= Offset(j, base, extra)
<1>1. PICK m \in Nat, gap \in Nat : m = i - 1 /\ gap = (j - 1) - i
  <2>1. i - 1 \in Nat /\ (j - 1) - i \in Nat
    OBVIOUS
  <2> QED BY <2>1
<1>2. i = m + 1 /\ j = m + gap + 2 /\ i - 1 = m /\ j - 1 = m + gap + 1
  BY <1>1
<1>3. PICK mb \in Nat, gb \in Nat : mb = m * base /\ gb = gap * base
  <2>1. m * base \in Nat /\ gap * base \in Nat
    OBVIOUS
  <2> QED BY <2>1
<1>4. /\ m * (base + 1) = mb + m
      /\ (m + gap + 1) * base = mb + gb + base
      /\ (m + gap + 1) * (base + 1) = mb + gb + base + m + gap + 1
  <2>1. m * (base + 1) = m * base + m
    OBVIOUS
  <2>2. (m + gap + 1) * base = m * base + gap * base + base
    OBVIOUS
  <2>3. (m + gap + 1) * (base + 1) = (m + gap + 1) * base + (m + gap + 1)
    OBVIOUS
  <2> QED BY <1>3, <2>1, <2>2, <2>3
<1>5. Offset(i, base, extra) = IF m <= extra THEN mb + m ELSE mb + extra
  BY <1>2, <1>3, <1>4 DEF Offset
<1>6. Offset(j, base, extra) = IF m + gap + 1 <= extra THEN mb + gb + base + m + gap + 1
                               ELSE mb + gb + base + extra
  BY <1>2, <1>4 DEF Offset
<1>7. Share(i, base, extra) = IF m + 1 <= extra THEN base + 1 ELSE base
  BY <1>2 DEF Share
<1>8. CASE m + gap + 1 <= extra
  BY <1>5, <1>6, <1>7, <1>8
<1>9. CASE ~(m + gap + 1 <= extra)
  BY <1>5, <1>6, <1>7, <1>9
<1> QED BY <1>8, <1>9

LEMMA PoolOfActor ==
  ASSUME ConfigOK(cfg), NEW t \in 1 .. cfg.actors
  PROVE  /\ Len(Pool(t)) \in Nat \ {0}
         /\ Remote => \E base \in Nat, extra \in Nat :
              /\ base = Len(cfg.workers) \div cfg.actors
              /\ extra = Len(cfg.workers) % cfg.actors
              /\ Pool(t) = [k \in 1 .. Share(t, base, extra) |-> Offset(t, base, extra) + k]
<1>1. CASE ~Remote
  BY <1>1 DEF Pool
<1>2. CASE Remote
  <2>1. /\ cfg.actors \in Nat \ {0} /\ Len(cfg.workers) \in Nat
        /\ Len(cfg.workers) >= cfg.actors
    BY <1>2 DEF ConfigOK, Remote
  <2>2. PICK base \in Nat, extra \in Nat :
          base = Len(cfg.workers) \div cfg.actors /\ extra = Len(cfg.workers) % cfg.actors
    BY <2>1, DivMod
  <2>3. base >= 1
    BY <2>1, <2>2, SmallQuotient
  <2>4. ((t - 1) % cfg.actors) + 1 = t
    <3>1. t - 1 \in Nat /\ t - 1 < cfg.actors
      BY <2>1
    <3>2. (t - 1) % cfg.actors = t - 1
      BY <2>1, <3>1, SmallQuotient
    <3> QED BY <2>1, <3>2
  <2>5. Pool(t) = PartitionAddresses(t)
    BY <1>2, <2>4 DEF Pool
  <2>6. PartitionAddresses(t) =
          [k \in 1 .. Share(t, base, extra) |-> Offset(t, base, extra) + k]
    BY <2>2 DEF PartitionAddresses, Share, Offset
  <2>7. Share(t, base, extra) \in Nat \ {0}
    BY <2>3 DEF Share
  <2>8. Len([k \in 1 .. Share(t, base, extra) |-> Offset(t, base, extra) + k])
          = Share(t, base, extra)
    BY <2>7
  <2> QED BY <2>2, <2>5, <2>6, <2>7, <2>8
<1> QED BY <1>1, <1>2

(* Actors of one train() call step workers of their own.                   *)
LEMMA PoolsApart ==
  ASSUME ConfigOK(cfg), NEW t \in 1 .. cfg.actors, NEW u \in 1 .. cfg.actors, t # u
  PROVE  Pooled(t) \cap Pooled(u) = {}
<1>1. CASE ~Remote
  BY <1>1 DEF Pooled, Pool, ConfigOK
<1>2. CASE Remote
  <2>1. PICK base \in Nat, extra \in Nat :
          /\ base = Len(cfg.workers) \div cfg.actors
          /\ extra = Len(cfg.workers) % cfg.actors
    BY <1>2, PoolOfActor
  <2>2. ASSUME NEW i \in 1 .. cfg.actors, NEW w \in Pooled(i)
        PROVE  /\ Offset(i, base, extra) + 1 <= w
               /\ w <= Offset(i, base, extra) + Share(i, base, extra)
               /\ w \in Int
    <3>1. /\ Pool(i) = [k \in 1 .. Share(i, base, extra) |-> Offset(i, base, extra) + k]
          /\ Len(Pool(i)) \in Nat
      BY <1>2, <2>1, PoolOfActor
    <3>2. Offset(i, base, extra) \in Nat /\ Share(i, base, extra) \in Nat
      <4>1. i \in Nat \ {0} /\ i + 1 \in Nat /\ i < i + 1
        BY DEF ConfigOK
      <4> QED BY <4>1, SharesApart DEF Share
    <3>3. Len(Pool(i)) = Share(i, base, extra)
      BY <3>1, <3>2
    <3>4. PICK k \in 1 .. Share(i, base, extra) : w = Pool(i)[k]
      BY <3>3 DEF Pooled
    <3>5. w = Offset(i, base, extra) + k
      BY <3>1, <3>4
    <3> QED BY <3>2, <3>5
  <2>3. ASSUME NEW i \in 1 .. cfg.actors, NEW j \in 1 .. cfg.actors, i < j,
               NEW w \in Pooled(i), w \in Pooled(j)
        PROVE  FALSE
    <3>1. i \in Nat \ {0} /\ j \in Nat
      BY DEF ConfigOK
    <3>2. /\ Offset(i, base, extra) \in Nat /\ Offset(j, base, extra) \in Nat
          /\ Offset(i, base, extra) + Share(i, base, extra) <= Offset(j, base, extra)
      BY <2>3, <3>1, SharesApart
    <3>3. Share(i, base, extra) \in Nat
      BY DEF Share
    <3>4. w \in Int /\ w <= Offset(i, base, extra) + Share(i, base, extra)
          /\ Offset(j, base, extra) + 1 <= w
      BY <2>2, <2>3
    <3> QED BY <3>2, <3>3, <3>4
  <2>4. t < u \/ u < t
    BY DEF ConfigOK
  <2> QED BY <2>3, <2>4
<1> QED BY <1>1, <1>2

LEMMA PoolsStay ==
  ASSUME cfg' = cfg
  PROVE  \A u : Pool(u)' = Pool(u) /\ Pooled(u)' = Pooled(u)
BY DEF Pooled, Pool, PartitionAddresses, Remote

(* A step of thread t: the worker that answers, if any, is one of its own, *)
(* and it goes on knowing what it has to.                                  *)
LEMMA ThreadStep ==
  ASSUME IInv, UnbrokenInv, NEW t \in Threads, thread[t].pc # "none",
         NEW r, Becomes(t, r), r.pc # "none",
         UNCHANGED <<cfg, calls, lpc, strays, stop, late>>,
         r.pc = "put" /\ strays # "overtaken" => r.torn = {},
         RolloutsAreUnbroken',
         Lone => /\ \/ UNCHANGED seen
                     \/ \E w \in Pooled(t) : Answers(t, w)
                  /\ Knows(r, t, seen')
                  /\ thread[t].pc # "ended"
  PROVE  UnbrokenInv'
<1>1. /\ thread'[t] = r
      /\ \A u \in Threads : u # t => thread'[u] = thread[u]
  BY DEF IInv, ThreadsOK, Becomes
<1>2. \A u \in Threads : thread'[u].pc = "put" /\ strays # "overtaken" => thread'[u].torn = {}
  BY <1>1 DEF UnbrokenInv
<1>3. ASSUME Lone PROVE FirstCall'
  <2>1. FirstCall /\ ConfigOK(cfg) /\ t \in 1 .. cfg.actors
    BY <1>3 DEF UnbrokenInv, FirstCall
  <2>2. ~(calls = 0 /\ ~IsPipeline) /\ (IsPipeline' <=> IsPipeline)
    BY <2>1 DEF FirstCall, IsPipeline
  <2>3. ASSUME NEW u \in Threads, u # t PROVE Knows(thread'[u], u, seen')
    <3>1. thread'[u] = thread[u] /\ Knows(thread[u], u, seen)
      BY <1>1, <2>1, <2>3 DEF FirstCall
    <3>2. CASE thread[u].pc \in {"none", "ended"}
      BY <3>1, <3>2 DEF Knows
    <3>3. CASE thread[u].pc \notin {"none", "ended"} /\ UNCHANGED seen
      BY <3>1, <3>3
    <3>4. CASE thread[u].pc \notin {"none", "ended"} /\ \E w \in Pooled(t) : Answers(t, w)
      <4>1. PICK w \in Pooled(t) : seen' = Unseen(w) \union {<<t, w>>}
        BY <3>4 DEF Answers
      <4>2. u \in 1 .. cfg.actors
        BY <2>1, <3>4 DEF FirstCall
      <4>3. w \notin Pooled(u)
        BY <2>1, <2>3, <4>2, PoolsApart
      <4>4. \A x \in Pooled(u) : <<u, x>> \in seen => <<u, x>> \in seen'
        BY <4>1, <4>3 DEF Unseen
      <4>5. thread[u].at \in 1 .. Len(Pool(u)) /\ Len(Pool(u)) \in Nat
        BY <2>1, <3>1, <3>4, <4>2, PoolOfActor DEF Knows
      <4>6. \A k \in 1 .. thread[u].at - 1 : Pool(u)[k] \in Pooled(u)
        BY <4>5 DEF Pooled
      <4> QED BY <3>1, <4>4, <4>6 DEF Knows
    <3> QED BY <1>3, <3>2, <3>3, <3>4
  <2>4. \A u \in Threads : /\ thread'[u].pc # "none" => u \in 1 .. cfg.actors
                           /\ Knows(thread'[u], u, seen')
    BY <1>1, <1>3, <2>1, <2>3 DEF FirstCall
  <2>5. \A c \in late : /\ c[1] \in Threads /\ thread'[c[1]].pc = "ended"
                        /\ c[2] \in Pooled(c[1])
    BY <1>1, <1>3, <2>1 DEF FirstCall
  <2>6. \A u : Pool(u)' = Pool(u) /\ Pooled(u)' = Pooled(u)
    BY PoolsStay
  <2>7. \A u \in Threads : Knows(thread[u], u, seen)'
    BY <2>4, <2>6 DEF Knows
  <2> QED BY <2>2, <2>4, <2>5, <2>6, <2>7 DEF FirstCall, Threads
<1> QED BY <1>2, <1>3 DEF UnbrokenInv, Lone, ConfigOK, IsPipeline

(* A running thread calls a worker of its own.                             *)
LEMMA CallsItsOwn ==
  ASSUME IInv, UnbrokenInv, NEW t \in Threads, Lone, thread[t].pc \notin {"none", "ended"}
  PROVE  /\ thread[t].at \in 1 .. Len(Pool(t)) /\ Len(Pool(t)) \in Nat \ {0}
         /\ Called(t) \in Pooled(t)
         /\ Called(t) = Pool(t)[thread[t].at]
         /\ Knows(thread[t], t, seen)
         /\ IsThread(thread[t])
<1>1. Knows(thread[t], t, seen) /\ t \in 1 .. cfg.actors /\ ConfigOK(cfg)
  BY DEF UnbrokenInv, FirstCall
<1>2. Len(Pool(t)) \in Nat \ {0}
  BY <1>1, PoolOfActor
<1>3. thread[t].at \in 1 .. Len(Pool(t)) /\ IsThread(thread[t])
  BY <1>1 DEF Knows, IInv, ThreadsOK
<1> QED BY <1>1, <1>2, <1>3 DEF Called, Pooled

LEMMA AnsweredStaysKnown ==
  ASSUME NEW t, NEW w, Answers(t, w), NEW x, <<t, x>> \in seen \/ x = w
  PROVE  <<t, x>> \in seen'
BY DEF Answers, Unseen

LEMMA ResetAllUnbroken ==
  ASSUME IInv, UnbrokenInv, NEW t \in Threads, ResetAll(t)
  PROVE  UnbrokenInv'
<1> DEFINE r == IF thread[t].at = Len(Pool(t)) THEN At("loop")
                ELSE [thread[t] EXCEPT !.at = @ + 1]
<1>1. /\ thread[t].pc = "reset" /\ Answers(t, Called(t)) /\ Becomes(t, r)
      /\ UNCHANGED <<cfg, calls, lpc, strays, stop, late, queue>>
  BY DEF ResetAll, learner
<1>2. IsThread(thread[t])
  BY DEF IInv, ThreadsOK
<1>3. r.pc \in {"loop", "reset"}
  BY <1>1, <1>2 DEF At, IsThread
<1>4. ASSUME Lone
      PROVE  Knows(r, t, seen') /\ \E w \in Pooled(t) : Answers(t, w)
  <2>1. /\ thread[t].at \in 1 .. Len(Pool(t)) /\ Len(Pool(t)) \in Nat \ {0}
        /\ Called(t) \in Pooled(t) /\ Called(t) = Pool(t)[thread[t].at]
        /\ Knows(thread[t], t, seen)
    BY <1>1, <1>4, CallsItsOwn
  <2>2. \A k \in 1 .. thread[t].at : <<t, Pool(t)[k]>> \in seen'
    <3> SUFFICES ASSUME NEW k \in 1 .. thread[t].at PROVE <<t, Pool(t)[k]>> \in seen'
      OBVIOUS
    <3>1. k \in 1 .. thread[t].at - 1 \/ k = thread[t].at
      BY <2>1
    <3>2. <<t, Pool(t)[k]>> \in seen \/ Pool(t)[k] = Called(t)
      BY <1>1, <2>1, <3>1 DEF Knows
    <3> QED BY <1>1, <3>2, AnsweredStaysKnown
  <2>3. CASE thread[t].at = Len(Pool(t))
    <3>1. r.pc = "loop" /\ r.at = 1 /\ r.torn = {}
      BY <2>3 DEF At
    <3> HIDE DEF r
    <3>2. \A w \in Pooled(t) : <<t, w>> \in seen'
      BY <2>2, <2>3 DEF Pooled
    <3> QED BY <1>1, <2>1, <3>1, <3>2 DEF Knows
  <2>4. CASE thread[t].at # Len(Pool(t))
    <3>1. PICK n \in 1 .. Len(Pool(t)) : n = thread[t].at + 1
      BY <2>1, <2>4
    <3>2. r = [thread[t] EXCEPT !.at = n]
      BY <2>4, <3>1
    <3> HIDE DEF r
    <3>3. r.pc = "reset" /\ r.at = n /\ r.torn = {}
      BY <1>1, <1>2, <2>1, <3>2 DEF IsThread, Knows
    <3>4. \A k \in 1 .. n - 1 : k \in 1 .. thread[t].at
      BY <2>1, <3>1
    <3> QED BY <1>1, <2>1, <2>2, <3>3, <3>4 DEF Knows
  <2> QED BY <1>1, <2>1, <2>3, <2>4
<1>5. RolloutsAreUnbroken'
  BY <1>1 DEF UnbrokenInv, RolloutsAreUnbroken
<1> HIDE DEF r
<1> QED BY <1>1, <1>3, <1>4, <1>5, ThreadStep

LEMMA StepAllUnbroken ==
  ASSUME IInv, UnbrokenInv, NEW t \in Threads, StepAll(t)
  PROVE  UnbrokenInv'
<1>1. PICK r : r = AfterAnswer(t)
  OBVIOUS
<1>2. /\ thread[t].pc = "step" /\ Answers(t, Called(t)) /\ Becomes(t, r)
      /\ UNCHANGED <<cfg, calls, lpc, strays, stop, late, queue>>
  BY <1>1 DEF StepAll, learner
<1>3. IsThread(thread[t])
  BY DEF IInv, ThreadsOK
<1>4. r.pc \in {"step", "offer"}
  BY <1>1, <1>2, <1>3 DEF AfterAnswer, IsThread
<1>5. ASSUME Lone
      PROVE  Knows(r, t, seen') /\ \E w \in Pooled(t) : Answers(t, w)
  <2>1. /\ thread[t].at \in 1 .. Len(Pool(t)) /\ Len(Pool(t)) \in Nat \ {0}
        /\ Called(t) \in Pooled(t) /\ Knows(thread[t], t, seen)
    BY <1>2, <1>5, CallsItsOwn
  <2>2. <<t, Called(t)>> \in seen /\ thread[t].torn = {}
    BY <1>2, <2>1 DEF Knows
  <2>3. r.torn = {}
    BY <1>1, <1>3, <2>2 DEF AfterAnswer, IsThread
  <2>4. r.at = IF thread[t].at < Len(Pool(t)) THEN thread[t].at + 1 ELSE 1
    BY <1>1, <1>3 DEF AfterAnswer, IsThread
  <2>5. r.at \in 1 .. Len(Pool(t))
    BY <2>1, <2>4
  <2>6. \A w \in Pooled(t) : <<t, w>> \in seen'
    BY <1>2, <2>1, AnsweredStaysKnown DEF Knows
  <2> QED BY <1>2, <1>4, <2>1, <2>3, <2>5, <2>6 DEF Knows
<1>6. RolloutsAreUnbroken'
  BY <1>2 DEF UnbrokenInv, RolloutsAreUnbroken
<1> QED BY <1>2, <1>4, <1>5, <1>6, ThreadStep

(* What the exception of a failed call leaves behind is the thread's own.  *)
LEMMA CallFailsUnbroken ==
  ASSUME IInv, UnbrokenInv, NEW t \in Threads, CallFails(t)
  PROVE  UnbrokenInv'
<1>1. /\ thread[t].pc \in {"reset", "step"} /\ late' = late \union {<<t, Called(t)>>}
      /\ UNCHANGED <<cfg, calls, lpc, strays, stop, queue, seen>>
  BY DEF CallFails, learner
<1>2. /\ thread'[t].pc = "ended" /\ \A u \in Threads : u # t => thread'[u] = thread[u]
  BY DEF CallFails, Becomes, Ended, At, IInv, ThreadsOK
<1>3. \A u \in Threads : thread'[u].pc = "put" /\ strays # "overtaken" => thread'[u].torn = {}
  BY <1>2 DEF UnbrokenInv
<1>4. \A u : Pool(u)' = Pool(u) /\ Pooled(u)' = Pooled(u)
  BY <1>1, PoolsStay
<1>5. ASSUME Lone PROVE FirstCall'
  <2>1. FirstCall /\ t \in 1 .. cfg.actors /\ ~(calls = 0 /\ ~IsPipeline)
    BY <1>1, <1>5 DEF UnbrokenInv, FirstCall
  <2>2. Called(t) \in Pooled(t)
    BY <1>1, <1>5, CallsItsOwn
  <2>3. \A u \in Threads : /\ thread'[u].pc # "none" => u \in 1 .. cfg.actors
                           /\ Knows(thread[u], u, seen)'
    BY <1>1, <1>2, <1>4, <2>1 DEF FirstCall, Knows
  <2>4. \A c \in late' : /\ c[1] \in Threads /\ thread'[c[1]].pc = "ended"
                         /\ c[2] \in Pooled(c[1])'
    <3>1. ASSUME NEW c \in late
          PROVE  c[1] \in Threads /\ thread'[c[1]].pc = "ended" /\ c[2] \in Pooled(c[1])'
      BY <1>2, <1>4, <2>1 DEF FirstCall
    <3>2. PICK w : w = Called(t)
      OBVIOUS
    <3>3. PICK c : c = <<t, w>>
      OBVIOUS
    <3>4. c[1] = t /\ c[2] = w
      BY <3>3
    <3>5. c[1] \in Threads /\ thread'[c[1]].pc = "ended" /\ c[2] \in Pooled(c[1])'
      BY <1>2, <1>4, <2>2, <3>2, <3>4
    <3>6. late' = late \union {c}
      BY <1>1, <3>2, <3>3
    <3> QED BY <3>1, <3>5, <3>6
  <2> QED BY <1>1, <2>1, <2>3, <2>4 DEF FirstCall, IsPipeline, Threads
<1> QED BY <1>1, <1>3, <1>5 DEF UnbrokenInv, Lone, RolloutsAreUnbroken, ConfigOK, IsPipeline

LEMMA LateUnbroken ==
  ASSUME IInv, UnbrokenInv, NEW t \in Threads, WorkerExecutesLate(t)
  PROVE  UnbrokenInv'
<1>1. PICK c \in late : late' = late \ {c} /\ seen' = Unseen(c[2])
      /\ UNCHANGED <<cfg, calls, lpc, strays, stop, queue, thread>>
  BY DEF WorkerExecutesLate, learner
<1>2. \A u : Pool(u)' = Pool(u) /\ Pooled(u)' = Pooled(u)
  BY <1>1, PoolsStay
<1>3. ASSUME Lone PROVE FirstCall'
  <2>1. FirstCall /\ ConfigOK(cfg)
    BY <1>3 DEF UnbrokenInv
  <2>2. /\ c[1] \in Threads /\ thread[c[1]].pc = "ended" /\ c[2] \in Pooled(c[1])
        /\ c[1] \in 1 .. cfg.actors
    BY <2>1 DEF FirstCall
  <2>3. ASSUME NEW u \in Threads PROVE Knows(thread[u], u, seen')
    <3>1. CASE thread[u].pc \in {"none", "ended"}
      BY <3>1 DEF Knows
    <3>2. CASE thread[u].pc \notin {"none", "ended"}
      <4>1. u \in 1 .. cfg.actors /\ u # c[1] /\ Knows(thread[u], u, seen)
        BY <2>1, <2>2, <3>2 DEF FirstCall
      <4>2. c[2] \notin Pooled(u)
        BY <2>1, <2>2, <4>1, PoolsApart
      <4>3. \A x \in Pooled(u) : <<u, x>> \in seen => <<u, x>> \in seen'
        BY <1>1, <4>2 DEF Unseen
      <4>4. thread[u].at \in 1 .. Len(Pool(u)) /\ Len(Pool(u)) \in Nat
        BY <2>1, <3>2, <4>1, PoolOfActor DEF Knows
      <4>5. \A k \in 1 .. thread[u].at - 1 : Pool(u)[k] \in Pooled(u)
        BY <4>4 DEF Pooled
      <4> QED BY <4>1, <4>3, <4>5 DEF Knows
    <3> QED BY <3>1, <3>2
  <2>4. \A u \in Threads : Knows(thread[u], u, seen)'
    BY <1>1, <1>2, <2>3 DEF Knows
  <2> QED BY <1>1, <1>2, <2>1, <2>4 DEF FirstCall, IsPipeline, Threads
<1> QED BY <1>1, <1>3 DEF UnbrokenInv, Lone, RolloutsAreUnbroken, ConfigOK, IsPipeline

(* The steps in which no worker is called.                                 *)
LEMMA ActorRestUnbroken ==
  ASSUME IInv, UnbrokenInv, NEW t \in Threads,
         ActorRest(t) \/ Connect(t) \/ ConnectFails(t) \/ StepRejected(t)
  PROVE  UnbrokenInv'
<1>1. IsThread(thread[t])
  BY DEF IInv, ThreadsOK
<1>2. /\ thread[t].pc \notin {"none", "ended"}
      /\ UNCHANGED <<cfg, calls, lpc, strays, stop, late, seen>>
  BY DEF ActorRest, CheckStop, TakeLock, CopyTensor, OfferRollout, Put, Connect, ConnectFails,
         StepRejected, learner
<1>3. ASSUME Lone
      PROVE  /\ thread[t].at \in 1 .. Len(Pool(t)) /\ Len(Pool(t)) \in Nat \ {0}
             /\ thread[t].torn = {} /\ Knows(thread[t], t, seen)
  BY <1>2, <1>3, CallsItsOwn DEF Knows
<1>4. \A pc : /\ At(pc).pc = pc /\ At(pc).at = 1 /\ At(pc).torn = {}
  BY DEF At
<1>5. ASSUME NEW r, Becomes(t, r), r.pc # "none", r.pc = "put" /\ strays # "overtaken" => r.torn = {},
             RolloutsAreUnbroken', Lone => Knows(r, t, seen)
      PROVE  UnbrokenInv'
  BY <1>2, <1>5, ThreadStep
<1>6. UNCHANGED queue => RolloutsAreUnbroken'
  BY <1>2 DEF UnbrokenInv, RolloutsAreUnbroken
<1>7. ASSUME NEW r, r.pc = "ended" \/ (/\ r.at = thread[t].at /\ r.torn = thread[t].torn
                                       /\ thread[t].pc \notin {"connect", "reset"}
                                       /\ r.pc \notin {"connect", "reset"})
                                   \/ (/\ r.at = 1 /\ r.torn = {}
                                       /\ thread[t].pc \notin {"connect", "reset"}
                                       /\ r.pc \notin {"connect", "reset"}),
             Lone
      PROVE  Knows(r, t, seen)
  BY <1>2, <1>3, <1>7 DEF Knows
<1>8. ASSUME NEW pc
      PROVE  LET r == [thread[t] EXCEPT !.pc = pc]
             IN  r.pc = pc /\ r.at = thread[t].at /\ r.torn = thread[t].torn
  BY <1>1 DEF IsThread
<1>9. CASE Connect(t)
  <2>1. PICK r : r = [thread[t] EXCEPT !.pc = "reset"]
    OBVIOUS
  <2>2. /\ r.pc = "reset" /\ r.at = thread[t].at /\ r.torn = thread[t].torn
        /\ Becomes(t, r) /\ UNCHANGED queue /\ thread[t].pc = "connect"
    BY <1>8, <1>9, <2>1 DEF Connect, Goes
  <2>3. Lone => Knows(r, t, seen)
    BY <1>3, <2>2 DEF Knows
  <2> QED BY <1>5, <1>6, <2>2, <2>3
<1>10. CASE ConnectFails(t) \/ StepRejected(t) \/ (CheckStop(t) /\ stop)
  <2>1. Becomes(t, At("ended")) /\ UNCHANGED queue
    BY <1>10 DEF ConnectFails, StepRejected, CheckStop, Ended
  <2> QED BY <1>4, <1>5, <1>6, <1>7, <2>1
<1>11. CASE CheckStop(t) /\ ~stop
  <2>1. PICK r : r = NewRollout
    OBVIOUS
  <2>2. r.pc \in {"step", "sync"} /\ r.at = 1 /\ r.torn = {}
    BY <2>1 DEF NewRollout, At
  <2>3. Becomes(t, r) /\ UNCHANGED queue /\ thread[t].pc = "loop"
    BY <1>11, <2>1 DEF CheckStop
  <2> QED BY <1>5, <1>6, <1>7, <2>2, <2>3
<1>12. CASE TakeLock(t)
  <2>1. PICK r : r = [thread[t] EXCEPT !.pc = "copy"]
    OBVIOUS
  <2>2. Becomes(t, r) /\ UNCHANGED queue /\ thread[t].pc = "sync"
    BY <1>12, <2>1 DEF TakeLock, Goes
  <2>3. r.pc = "copy" /\ r.at = thread[t].at /\ r.torn = thread[t].torn
    BY <1>8, <2>1
  <2> QED BY <1>5, <1>6, <1>7, <2>2, <2>3
<1>13. CASE CopyTensor(t)
  <2>1. PICK snap : snap = Append(thread[t].snap, policy[Len(thread[t].snap) + 1])
    OBVIOUS
  <2>2. PICK pc : pc = IF Len(snap) = Len(policy) THEN "step" ELSE thread[t].pc
    OBVIOUS
  <2>3. PICK r : r = [thread[t] EXCEPT !.snap = snap, !.pc = pc]
    OBVIOUS
  <2>4. Becomes(t, r) /\ UNCHANGED queue /\ thread[t].pc = "copy"
    BY <1>13, <2>1, <2>2, <2>3 DEF CopyTensor
  <2>5. r.pc = pc /\ r.at = thread[t].at /\ r.torn = thread[t].torn /\ pc \in {"step", "copy"}
    BY <1>1, <2>2, <2>3, <2>4 DEF IsThread
  <2> QED BY <1>5, <1>6, <1>7, <2>4, <2>5
<1>14. CASE OfferRollout(t)
  <2>1. CASE stop
    <3>1. Becomes(t, At("loop")) /\ UNCHANGED queue
      BY <1>14, <2>1 DEF OfferRollout
    <3> QED BY <1>4, <1>5, <1>6, <2>1, <3>1 DEF Lone
  <2>2. CASE ~stop
    <3>1. PICK r : r = [thread[t] EXCEPT !.pc = "put"]
      OBVIOUS
    <3>2. Becomes(t, r) /\ UNCHANGED queue /\ thread[t].pc = "offer"
      BY <1>14, <2>2, <3>1 DEF OfferRollout, Goes
    <3>3. r.pc = "put" /\ r.at = thread[t].at /\ r.torn = thread[t].torn
      BY <1>8, <3>1
    <3>4. strays # "overtaken" => Lone /\ r.torn = {}
      BY <1>3, <2>2, <3>3 DEF Lone
    <3>5. Lone => Knows(r, t, seen)
      BY <1>7, <3>2, <3>3
    <3> QED BY <1>5, <1>6, <3>2, <3>3, <3>4, <3>5
  <2> QED BY <2>1, <2>2
<1>15. CASE Put(t) /\ Len(queue) < QueueSize
  <2>1. /\ thread[t].pc = "put" /\ Becomes(t, At("loop"))
        /\ strays # "overtaken" => thread[t].torn = {}
    BY <1>15 DEF Put, UnbrokenInv
  <2>2. PICK x : /\ x = [snap |-> thread[t].snap, torn |-> thread[t].torn]
                 /\ queue' = Append(queue, x)
    BY <1>15 DEF Put
  <2>3. strays # "overtaken" => x.torn = {}
    BY <2>1, <2>2
  <2>4. RolloutsAreUnbroken'
    BY <1>2, <2>2, <2>3, AppendIsSequence DEF IInv, QueueOK, UnbrokenInv, RolloutsAreUnbroken
  <2> QED BY <1>4, <1>5, <1>7, <2>1, <2>4
<1>16. CASE Put(t) /\ ~(Len(queue) < QueueSize)
  <2>1. PICK r : r = [thread[t] EXCEPT !.pc = "offer"]
    OBVIOUS
  <2>2. Becomes(t, r) /\ UNCHANGED queue /\ thread[t].pc = "put"
    BY <1>16, <2>1 DEF Put, Goes
  <2>3. r.pc = "offer" /\ r.at = thread[t].at /\ r.torn = thread[t].torn
    BY <1>8, <2>1
  <2> QED BY <1>5, <1>6, <1>7, <2>2, <2>3
<1> QED BY <1>9, <1>10, <1>11, <1>12, <1>13, <1>14, <1>15, <1>16 DEF ActorRest

LEMMA LearnerUnbroken ==
  ASSUME IInv, UnbrokenInv, LearnerSteps \/ LearnerRaises \/ StartRaises \/ Save \/ PipelineCalls
  PROVE  UnbrokenInv'
<1>1. UNCHANGED <<cfg, calls, thread, seen, late>>
  BY DEF LearnerSteps, LearnerRaises, StartRaises, Save, PipelineCalls, TrainingStarts, GetRollout, GetTimesOut, ComputeLoss,
         WriteTensor, RunCallbacks, SetStop, JoinActors, BatchReturned, NextBatch, TryNextBatch,
         Close, Uses, Advances
<1>2. stop' = stop \/ stop' = TRUE
  BY DEF LearnerSteps, LearnerRaises, StartRaises, Save, PipelineCalls, TrainingStarts, GetRollout, GetTimesOut, ComputeLoss,
         WriteTensor, RunCallbacks, SetStop, JoinActors, BatchReturned, NextBatch, TryNextBatch,
         Close, Uses
<1>3. UNCHANGED queue \/ (queue # <<>> /\ queue' = Tail(queue))
  BY DEF LearnerSteps, LearnerRaises, StartRaises, Save, PipelineCalls, TrainingStarts, GetRollout, GetTimesOut, ComputeLoss,
         WriteTensor, RunCallbacks, SetStop, JoinActors, BatchReturned, NextBatch, TryNextBatch,
         Close, Uses
<1>4. /\ lpc' = "join" => stop'
      /\ lpc' = "next" => IsPipeline
      /\ lpc' = "idle" /\ ~stop' /\ strays' = "none" => calls' = 0
      /\ strays' \in {"none", "running", "overtaken"}
      /\ strays' = "overtaken" <=> strays = "overtaken"
  <2>1. CASE LearnerSteps
    BY <1>1, <1>2, <2>1
    DEF UnbrokenInv, LearnerSteps, TrainingStarts, GetRollout, GetTimesOut, ComputeLoss, WriteTensor,
        RunCallbacks, SetStop, JoinActors, BatchReturned, Advances
  <2>2. CASE LearnerRaises \/ StartRaises
    BY <1>1, <1>2, <2>2 DEF UnbrokenInv, LearnerRaises, StartRaises, Advances
  <2>3. CASE Save \/ PipelineCalls
    BY <1>1, <1>2, <2>3
    DEF UnbrokenInv, Save, PipelineCalls, NextBatch, TryNextBatch, Close, Uses, Advances
  <2> QED BY <2>1, <2>2, <2>3
<1>5. RolloutsAreUnbroken'
  BY <1>3, <1>4, TailIsSequence DEF IInv, QueueOK, UnbrokenInv, RolloutsAreUnbroken
<1>6. FirstCall => FirstCall'
  <2>1. \A u : Pool(u)' = Pool(u) /\ Pooled(u)' = Pooled(u)
    BY <1>1, PoolsStay
  <2>2. \A u \in Threads : Knows(thread[u], u, seen)' <=> Knows(thread[u], u, seen)
    BY <1>1, <2>1 DEF Knows
  <2> QED BY <1>1, <2>1, <2>2 DEF FirstCall, IsPipeline, Threads
<1> QED BY <1>1, <1>2, <1>4, <1>5, <1>6 DEF UnbrokenInv, Lone, ConfigOK, IsPipeline

(* A second call finds the stop event set, or overtakes.                   *)
LEMMA TrainUnbroken ==
  ASSUME IInv, UnbrokenInv, NEW n, Train(n)
  PROVE  UnbrokenInv'
<1>1. /\ ~IsPipeline /\ lpc = "idle" /\ lpc' = "begin" /\ calls' = calls + 1
      /\ strays' = IF strays = "running" THEN "overtaken" ELSE strays
      /\ UNCHANGED <<cfg, queue, seen, late, stop>>
      /\ thread' = [t \in Threads |->
                      IF t \in NewThreads THEN At("connect") ELSE thread[t]]
  BY DEF Train, Enters
<1>2. \A pc : At(pc).pc = pc /\ At(pc).at = 1 /\ At(pc).torn = {}
  BY DEF At
<1>3. \A t \in Threads :
        thread'[t].pc = "put" /\ strays' # "overtaken" => thread'[t].torn = {}
  BY <1>1, <1>2 DEF UnbrokenInv
<1>4. ASSUME ~stop, strays' # "overtaken" PROVE FirstCall'
  <2>1. /\ calls = 0 /\ FirstCall /\ ConfigOK(cfg)
        /\ \A t \in Threads : thread[t].pc = "none"
    <3>1. strays = "none" /\ Lone
      BY <1>1, <1>4 DEF UnbrokenInv, Lone
    <3> QED BY <1>1, <1>4, <3>1 DEF UnbrokenInv, FirstCall
  <2>2. NewThreads = 1 .. cfg.actors
    BY <2>1 DEF NewThreads, ConfigOK
  <2>3. late' = {}
    BY <1>1, <2>1 DEF FirstCall
  <2>4. \A u : Pool(u)' = Pool(u) /\ Pooled(u)' = Pooled(u)
    BY <1>1, PoolsStay
  <2>5. ASSUME NEW t \in Threads
        PROVE  /\ thread'[t].pc # "none" => t \in 1 .. cfg.actors
               /\ Knows(thread[t], t, seen)'
    <3>1. CASE t \in NewThreads
      <4>1. thread'[t].pc = "connect" /\ thread'[t].at = 1 /\ thread'[t].torn = {}
        BY <1>1, <1>2, <3>1
      <4>2. t \in 1 .. cfg.actors /\ Len(Pool(t)) \in Nat \ {0}
        BY <2>1, <2>2, <3>1, PoolOfActor
      <4> QED BY <2>4, <4>1, <4>2 DEF Knows
    <3>2. CASE t \notin NewThreads
      BY <1>1, <2>1, <3>2 DEF Knows
    <3> QED BY <3>1, <3>2
  <2>6. calls' # 0
    BY <1>1, <2>1
  <2> QED BY <1>1, <2>3, <2>5, <2>6 DEF FirstCall, Threads
<1> QED BY <1>1, <1>3, <1>4 DEF UnbrokenInv, Lone, RolloutsAreUnbroken, ConfigOK, IsPipeline

LEMMA RestartUnbroken ==
  ASSUME IInv, UnbrokenInv, FromCheckpoint
  PROVE  UnbrokenInv'
<1>1. PICK c : c = cfg'
  OBVIOUS
<1>2. c.class = "IMPALA" /\ c.actors = 2 /\ c.workers = <<>>
      /\ {"class", "actors", "workers"} \subseteq DOMAIN c
  <2>1. PICK u, s, k : u = Min({file[1] + 1, cfg.updates}) /\ s = DefaultSteps
                       /\ k = Defaults.calls
    OBVIOUS
  <2>2. c = [cfg EXCEPT !.actors = 2, !.workers = <<>>, !.steps = s, !.calls = k,
                        !.updates = u]
    BY <1>1, <2>1 DEF FromCheckpoint, Defaults
  <2>3. cfg.class = "IMPALA" /\ {"class", "actors", "workers"} \subseteq DOMAIN cfg
    BY DEF FromCheckpoint, UnbrokenInv, ConfigOK
  <2> QED BY <2>2, <2>3
<1>3. ConfigOK(cfg')
  BY <1>1, <1>2 DEF ConfigOK
<1>4. /\ lpc' = "idle" /\ strays' = "none" /\ calls' = 0 /\ queue' = <<>> /\ seen' = {} /\ late' = {}
      /\ \A t \in Threads : thread'[t] = NoThread
  BY DEF FromCheckpoint
<1>5. RolloutsAreUnbroken'
  <2>1. DOMAIN queue' = {}
    BY <1>4
  <2> QED BY <2>1 DEF RolloutsAreUnbroken
<1>6. NoThread.pc = "none"
  BY DEF NoThread, At
<1>7. FirstCall'
  BY <1>4, <1>6 DEF FirstCall, Knows, Threads
<1> QED BY <1>3, <1>4, <1>5, <1>6, <1>7 DEF UnbrokenInv, Threads

LEMMA InitUnbroken ==
  ASSUME Init PROVE UnbrokenInv
<1>1. cfg \in Configs /\ Constructible(cfg) /\ IsConfig(cfg)
  BY ActorLearnerAssumption DEF Init
<1>2. ConfigOK(cfg)
  BY <1>1 DEF IsConfig, Constructible, ConfigOK
<1>3. /\ At("connect").pc = "connect" /\ At("connect").at = 1 /\ At("connect").torn = {}
      /\ NoThread.pc = "none"
  BY DEF At, NoThread
<1>4. ASSUME NEW t \in Threads
      PROVE  /\ thread[t].pc # "none" => t \in 1 .. cfg.actors
             /\ Knows(thread[t], t, seen)
             /\ thread[t].pc # "put"
  <2>1. CASE IsPipeline /\ t = 1
    <3>1. t \in 1 .. cfg.actors
      BY <1>2, <2>1 DEF ConfigOK
    <3>2. Len(Pool(t)) \in Nat \ {0}
      BY <1>2, <3>1, PoolOfActor
    <3>3. thread[t] = At("connect")
      BY <2>1 DEF Init
    <3> QED BY <1>3, <3>1, <3>2, <3>3 DEF Knows
  <2>2. CASE ~(IsPipeline /\ t = 1)
    <3>1. thread[t] = NoThread
      BY <2>2 DEF Init
    <3> QED BY <1>3, <3>1 DEF Knows
  <2> QED BY <2>1, <2>2
<1>5. FirstCall
  BY <1>3, <1>4 DEF Init, FirstCall
<1>6. RolloutsAreUnbroken
  <2>1. DOMAIN queue = {}
    BY DEF Init
  <2> QED BY <2>1 DEF RolloutsAreUnbroken
<1> QED BY <1>2, <1>4, <1>5, <1>6 DEF Init, UnbrokenInv

LEMMA NextUnbroken ==
  ASSUME IInv, UnbrokenInv, [Next]_vars PROVE UnbrokenInv'
<1>1. CASE \E t \in Threads : ActorOwn(t)
  BY <1>1, ResetAllUnbroken, StepAllUnbroken, CallFailsUnbroken, LateUnbroken,
     ActorRestUnbroken DEF ActorOwn, ActorCalls
<1>2. CASE LearnerOwn
  BY <1>2, LearnerUnbroken, TrainUnbroken DEF LearnerOwn
<1>3. CASE FromCheckpoint
  BY <1>3, RestartUnbroken
<1>4. CASE UNCHANGED vars
  <2>1. UNCHANGED <<cfg, calls, lpc, strays, stop, thread, queue, seen, late>>
    BY <1>4 DEF vars, learner
  <2>2. \A u : Pool(u)' = Pool(u) /\ Pooled(u)' = Pooled(u)
    BY <2>1, PoolsStay
  <2>3. \A u \in Threads : Knows(thread[u], u, seen)' <=> Knows(thread[u], u, seen)
    BY <2>1, <2>2 DEF Knows
  <2>4. FirstCall => FirstCall'
    BY <2>1, <2>2, <2>3 DEF FirstCall, IsPipeline, Threads
  <2> QED BY <2>1, <2>4 DEF UnbrokenInv, Lone, RolloutsAreUnbroken, ConfigOK, IsPipeline, Threads
<1> QED BY <1>1, <1>2, <1>3, <1>4 DEF Next, ActorOwn, LearnerOwn

(* No rollout handed to the learner holds a step taken on a state its      *)
(* environment was no longer in, for any number of actors, workers, train  *)
(* calls, failed and late calls, threads left behind and restarts, until a *)
(* train() follows one that on_training_start ended.                       *)
THEOREM RolloutsAreUnbrokenHold == Spec => []RolloutsAreUnbroken
<1>1. Init => IInv /\ UnbrokenInv
  BY InitIInv, InitUnbroken
<1>2. IInv /\ UnbrokenInv /\ [Next]_vars => IInv' /\ UnbrokenInv'
  BY NextIInv, NextUnbroken
<1>3. UnbrokenInv => RolloutsAreUnbroken
  BY DEF UnbrokenInv
<1> QED BY <1>1, <1>2, <1>3, PTL DEF Spec

=============================================================================
