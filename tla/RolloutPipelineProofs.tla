----------------------- MODULE RolloutPipelineProofs ------------------------
(***************************************************************************)
(* Proofs about RolloutPipeline for rollouts and channels of every size    *)
(* and any number of weight updates, and about HybridTrainer over it.  The *)
(* inductive invariant adds to the type what the collector's place in its  *)
(* loop says of the rows collected; then how many stale batches are still  *)
(* to come, the refinement of BoundedChannel, and which versions the       *)
(* batches of an update can know.                                          *)
(***************************************************************************)
EXTENDS HybridTrainer, FiniteSetTheorems, SequenceTheorems, TLAPS

RowsFollowPc ==
  /\ pc \in {"check", "value", "act", "step"} => row < NSteps
  /\ pc \in {"bootstrap", "send", "sending"} => row = NSteps

IInv == TypeOK /\ RowsFollowPc /\ WholeRollouts /\ StoppedMeansEnded

CollectorMoves ==
  \/ ResetEnvs \/ BeginRollout \/ CheckStop
  \/ StepValues \/ StepActions \/ StepEnvs \/ EnvFails
  \/ CallbackPanics \/ Bootstrap \/ CheckStopBeforeSend
  \/ SendTimesOut \/ SendDisconnected

LEMMA InitIInv == Init => IInv
<1> SUFFICES ASSUME Init PROVE IInv
  OBVIOUS
<1>1. TypeOK
  <2>1. queue \in Seq(Batches) /\ Len(queue) = 0
    BY EmptySeq DEF Init
  <2>2. Len(queue) <= Capacity /\ 0 \in 0 .. NSteps
    BY <2>1, PipelineAssumption
  <2>3. policy \in Versions /\ built \in 0 .. IdLimit - 1
    BY PipelineAssumption DEF Init, Versions, IdLimit
  <2> QED BY <2>1, <2>2, <2>3 DEF Init, TypeOK
<1>2. RowsFollowPc /\ WholeRollouts /\ StoppedMeansEnded
  BY DEF Init, RowsFollowPc, WholeRollouts, StoppedMeansEnded
<1> QED BY <1>1, <1>2 DEF IInv

(* The thread's own steps leave the channel and the learner alone.         *)
LEMMA MoveIInv ==
  ASSUME IInv, CollectorMoves
  PROVE  IInv'
<1> USE DEF IInv, Goes, ReadWeights
<1>1. pc # "ended" /\ UNCHANGED <<built, stop, open, queue, policy, lpc, handle, staleTaken>>
  BY DEF CollectorMoves, ResetEnvs, BeginRollout, CheckStop, StepValues,
         StepActions, StepEnvs, EnvFails, CallbackPanics, Bootstrap, CheckStopBeforeSend,
         SendTimesOut, SendDisconnected, learner
<1>2. pc' \in {"loop", "check", "value", "act", "step", "bootstrap", "send",
               "sending", "ended"}
  BY DEF CollectorMoves, ResetEnvs, BeginRollout, CheckStop, StepValues,
         StepActions, StepEnvs, EnvFails, CallbackPanics, Bootstrap, CheckStopBeforeSend,
         SendTimesOut, SendDisconnected
<1>3. row' \in 0 .. NSteps /\ RowsFollowPc'
  <2>a. NSteps \in Nat /\ 0 < NSteps
    BY PipelineAssumption
  <2>1. row \in 0 .. NSteps /\ NSteps \in Nat /\ 0 < NSteps
    BY <2>a DEF TypeOK
  <2>2. CASE BeginRollout
    BY <2>1, <2>2 DEF BeginRollout, RowsFollowPc
  <2>3. CASE StepEnvs
    BY <2>1, <2>3 DEF StepEnvs, RowsFollowPc
  <2>4. CASE ~BeginRollout /\ ~StepEnvs
    BY <2>1, <2>4
       DEF CollectorMoves, ResetEnvs, CheckStop, StepValues, StepActions,
           EnvFails, CallbackPanics, Bootstrap, CheckStopBeforeSend, SendTimesOut,
           SendDisconnected, RowsFollowPc
  <2> QED BY <2>2, <2>3, <2>4
<1>4. used' \subseteq Versions
  BY DEF CollectorMoves, ResetEnvs, BeginRollout, CheckStop, StepValues,
         StepActions, StepEnvs, EnvFails, CallbackPanics, Bootstrap, CheckStopBeforeSend,
         SendTimesOut, SendDisconnected, TypeOK
<1>5. TypeOK'
  BY <1>1, <1>2, <1>3, <1>4 DEF TypeOK
<1>6. WholeRollouts' /\ StoppedMeansEnded'
  BY <1>1 DEF WholeRollouts, StoppedMeansEnded
<1> QED BY <1>3, <1>5, <1>6

LEMMA PutIInv ==
  ASSUME IInv, Put
  PROVE  IInv'
<1> USE DEF IInv
<1>1. Pending \in Batches /\ row = NSteps
  BY PipelineAssumption DEF Pending, Batches, TypeOK, Put, RowsFollowPc
<1>a. queue \in Seq(Batches) /\ queue' = Append(queue, Pending)
  BY DEF Put, TypeOK
<1>b. Len(queue) \in Nat
  BY <1>a, LenProperties
<1>2. /\ queue' \in Seq(Batches)
      /\ Len(queue') = Len(queue) + 1
      /\ \A i \in 1 .. Len(queue) : queue'[i] = queue[i]
      /\ queue'[Len(queue) + 1] = Pending
  BY <1>1, <1>a, AppendProperties
<1>3. \A i \in 1 .. Len(queue') :
        queue'[i] = IF i <= Len(queue) THEN queue[i] ELSE Pending
  <2>1. \A i \in 1 .. Len(queue') : i \in 1 .. Len(queue) \/ i = Len(queue) + 1
    BY <1>2, <1>b
  <2>2. ~(Len(queue) + 1 <= Len(queue)) /\ \A i \in 1 .. Len(queue) : i <= Len(queue)
    BY <1>b
  <2> QED BY <1>2, <2>1, <2>2
<1>4. WholeRollouts'
  <2> SUFFICES ASSUME NEW i \in 1 .. Len(queue') PROVE queue'[i].rows = NSteps
    BY DEF WholeRollouts
  <2>1. \A j \in 1 .. Len(queue') : j <= Len(queue) => j \in 1 .. Len(queue)
    BY <1>2, <1>b
  <2>2. CASE i <= Len(queue)
    BY <1>3, <2>1, <2>2 DEF WholeRollouts
  <2>3. CASE ~(i <= Len(queue))
    BY <1>1, <1>3, <2>3 DEF Pending
  <2> QED BY <2>2, <2>3
<1>5. TypeOK'
  <2>1. built' \in 0 .. IdLimit - 1
    <3>1. built \in 0 .. IdLimit - 1 /\ Capacity \in Nat
      BY PipelineAssumption DEF TypeOK
    <3>2. NextId \in 0 .. IdLimit - 1
      BY <3>1 DEF NextId, IdLimit
    <3> QED BY <3>2 DEF Put
  <2>2. Len(queue') <= Capacity
    BY <1>2, <1>b, PipelineAssumption DEF Put
  <2>3. row' \in 0 .. NSteps /\ used' \subseteq Versions
    BY PipelineAssumption DEF Put
  <2> QED BY <1>2, <2>1, <2>2, <2>3 DEF Put, TypeOK, learner
<1>6. RowsFollowPc' /\ StoppedMeansEnded'
  BY DEF Put, RowsFollowPc, StoppedMeansEnded, learner
<1> QED BY <1>4, <1>5, <1>6

(* Receiving takes the oldest batch and leaves the others as they are.     *)
LEMMA TakeIInv ==
  ASSUME IInv, TakeBatch,
         UNCHANGED <<collector, stop, open, policy, handle>>,
         lpc' = "idle", lpc \in {"idle", "recv"}
  PROVE  IInv'
<1> USE DEF IInv
<1>a. queue \in Seq(Batches) /\ queue # <<>> /\ queue' = Tail(queue)
  BY DEF TakeBatch, TypeOK
<1>1. /\ queue' \in Seq(Batches)
      /\ Len(queue') = Len(queue) - 1
      /\ \A i \in 1 .. Len(queue') : queue'[i] = queue[i + 1]
  BY <1>a, HeadTailProperties
<1>2. Len(queue) \in Nat /\ Len(queue) >= 1
  <2>1. Len(queue) \in Nat \ {0}
    BY <1>a, EmptySeq
  <2> QED BY <2>1
<1>3. staleTaken' \in Nat
  <2>1. staleTaken \in Nat
    BY DEF TypeOK
  <2> QED BY <2>1 DEF TakeBatch
<1>4. TypeOK'
  <2>1. Len(queue') <= Capacity
    <3>1. Len(queue) <= Capacity /\ Capacity \in Nat
      BY PipelineAssumption DEF TypeOK
    <3> QED BY <1>1, <1>2, <3>1
  <2> QED BY <1>1, <1>3, <2>1 DEF TypeOK, collector
<1>5. WholeRollouts'
  <2>1. \A i \in 1 .. Len(queue') : i + 1 \in 1 .. Len(queue)
    BY <1>1, <1>2
  <2> QED BY <1>1, <2>1 DEF WholeRollouts
<1>6. RowsFollowPc' /\ StoppedMeansEnded'
  BY DEF RowsFollowPc, StoppedMeansEnded, collector
<1> QED BY <1>4, <1>5, <1>6

(* The calls of the learner that neither receive nor empty the channel.    *)
LearnerCalls ==
  \/ CallRecv \/ SyncWeights \/ CallStop \/ StopReturns
  \/ DropCollector \/ DropReturns

LEMMA CallIInv ==
  ASSUME IInv, LearnerCalls
  PROVE  IInv'
<1> USE DEF IInv
<1>1. UNCHANGED <<pc, row, used, built, open, queue>>
  BY DEF LearnerCalls, CallRecv, SyncWeights, CallStop, StopReturns,
         DropCollector, DropReturns, collector
<1>2. /\ stop' \in BOOLEAN
      /\ handle' \in BOOLEAN
      /\ lpc' \in {"idle", "recv", "joining", "joining last", "gone"}
  BY DEF LearnerCalls, CallRecv, SyncWeights, CallStop, StopReturns,
         DropCollector, DropReturns, TypeOK, learner
<1>a. policy \in Versions /\ staleTaken \in Nat /\ MaxSyncs \in Nat
  BY PipelineAssumption DEF TypeOK
<1>3. policy' \in Versions /\ staleTaken' \in Nat
  <2>1. CASE SyncWeights
    BY <1>a, <2>1 DEF SyncWeights, Versions
  <2>2. CASE ~SyncWeights
    BY <1>a, <2>2
       DEF LearnerCalls, CallRecv, CallStop, StopReturns, DropCollector,
           DropReturns
  <2> QED BY <2>1, <2>2
<1>4. TypeOK'
  BY <1>1, <1>2, <1>3 DEF TypeOK
<1>5. RowsFollowPc' /\ WholeRollouts'
  BY <1>1 DEF RowsFollowPc, WholeRollouts
<1>6. StoppedMeansEnded'
  BY <1>1 DEF LearnerCalls, CallRecv, SyncWeights, CallStop, StopReturns,
              DropCollector, DropReturns, StoppedMeansEnded, learner
<1> QED BY <1>4, <1>5, <1>6

LEMMA DropIInv ==
  ASSUME IInv, DropPipeline
  PROVE  IInv'
<1> USE DEF IInv
<1>1. UNCHANGED <<pc, row, used, built, stop, policy, handle, staleTaken>>
  BY DEF DropPipeline, collector
<1>2. queue' \in Seq(Batches) /\ Len(queue') = 0
  BY EmptySeq DEF DropPipeline
<1>a. Len(queue') <= Capacity
  BY <1>2, PipelineAssumption
<1>3. TypeOK'
  BY <1>1, <1>2, <1>a DEF DropPipeline, TypeOK
<1>4. RowsFollowPc' /\ WholeRollouts' /\ StoppedMeansEnded'
  BY <1>1, <1>2 DEF DropPipeline, RowsFollowPc, WholeRollouts, StoppedMeansEnded
<1> QED BY <1>3, <1>4

LEMMA StepIInv ==
  ASSUME IInv, [Next]_vars
  PROVE  IInv'
<1>1. CASE CollectorMoves
  BY <1>1, MoveIInv
<1>2. CASE Put
  BY <1>2, PutIInv
<1>3. CASE RecvReturns \/ TryRecv
  BY <1>3, TakeIInv DEF RecvReturns, TryRecv, learner
<1>4. CASE LearnerCalls
  BY <1>4, CallIInv
<1>5. CASE DropPipeline
  BY <1>5, DropIInv
<1>6. CASE UNCHANGED vars
  <2>1. UNCHANGED <<pc, row, used, built, stop, open, queue, policy, lpc, handle, staleTaken>>
    BY <1>6 DEF vars, collector, learner
  <2>2. TypeOK'
    BY <2>1 DEF IInv, TypeOK
  <2>3. RowsFollowPc'
    BY <2>1 DEF IInv, RowsFollowPc
  <2>4. WholeRollouts'
    BY <2>1 DEF IInv, WholeRollouts
  <2>5. StoppedMeansEnded'
    BY <2>1 DEF IInv, StoppedMeansEnded
  <2> QED BY <2>2, <2>3, <2>4, <2>5 DEF IInv
<1> QED
  BY <1>1, <1>2, <1>3, <1>4, <1>5, <1>6
     DEF Next, CollectorNext, CollectorRuns, CollectorFails, LearnerNext, CollectorMoves, LearnerCalls

THEOREM IInvHolds == Spec => []IInv
<1>1. Init => IInv
  BY InitIInv
<1>2. IInv /\ [Next]_vars => IInv'
  BY StepIInv
<1> QED BY <1>1, <1>2, PTL DEF Spec

(* The variables have their types, and the channel never holds more than   *)
(* its capacity.                                                           *)
THEOREM TypeHolds == Spec => []TypeOK
BY IInvHolds, PTL DEF IInv

(* Every batch in the channel is a whole rollout, whenever the environment *)
(* fails and whenever the learner stops the collector.                     *)
THEOREM WholeRolloutsHold == Spec => []WholeRollouts
BY IInvHolds, PTL DEF IInv

(* After stop or drop has returned the collector thread has ended.         *)
THEOREM StoppedMeansEndedHolds == Spec => []StoppedMeansEnded
BY IInvHolds, PTL DEF IInv

-----------------------------------------------------------------------------
(* How many old batches are still to come.                                 *)

Where(s, T) == {i \in 1 .. Len(s) : s[i] \in T}
CountIn(s, T) == Cardinality(Where(s, T))

LEMMA CountFacts ==
  ASSUME NEW S, NEW s \in Seq(S), NEW T
  PROVE  /\ IsFiniteSet(Where(s, T))
         /\ CountIn(s, T) \in Nat /\ CountIn(s, T) <= Len(s)
<1>1. PICK n \in Nat : n = Len(s)
  OBVIOUS
<1>2. IsFiniteSet(1 .. n) /\ Cardinality(1 .. n) = n
  BY FS_Interval
<1>3. Where(s, T) \subseteq 1 .. n
  BY <1>1 DEF Where
<1>4. IsFiniteSet(Where(s, T)) /\ Cardinality(Where(s, T)) <= Cardinality(1 .. n)
  BY <1>2, <1>3, FS_Subset
<1> QED BY <1>1, <1>2, <1>4, FS_CardinalityType DEF CountIn

LEMMA CountOfAppend ==
  ASSUME NEW S, NEW s \in Seq(S), NEW e \in S, NEW T
  PROVE  CountIn(Append(s, e), T) = CountIn(s, T) + IF e \in T THEN 1 ELSE 0
<1>1. PICK n \in Nat : n = Len(s)
  OBVIOUS
<1>2. PICK u : u = Append(s, e)
  OBVIOUS
<1>3. Len(u) = n + 1 /\ u[n + 1] = e /\ \A i \in 1 .. n : u[i] = s[i]
  BY <1>1, <1>2, AppendProperties
<1>4. Where(u, T) = Where(s, T) \union IF e \in T THEN {n + 1} ELSE {}
  <2>1. \A i : i \in 1 .. n + 1 <=> i \in 1 .. n \/ i = n + 1
    OBVIOUS
  <2>2. \A i : i \in Where(u, T) <=> i \in Where(s, T) \/ (i = n + 1 /\ e \in T)
    BY <1>1, <1>3, <2>1 DEF Where
  <2> QED BY <2>2
<1>5. n + 1 \notin Where(s, T)
  BY <1>1 DEF Where
<1>6. IsFiniteSet(Where(s, T)) /\ Cardinality(Where(s, T)) \in Nat
  BY CountFacts DEF CountIn
<1>7. Cardinality(Where(s, T) \union {n + 1}) = Cardinality(Where(s, T)) + 1
  BY <1>5, <1>6, FS_AddElement
<1>8. CASE e \in T
  BY <1>2, <1>4, <1>7, <1>8 DEF CountIn
<1>9. CASE e \notin T
  BY <1>2, <1>4, <1>6, <1>9 DEF CountIn
<1> QED BY <1>8, <1>9

LEMMA CountOfTail ==
  ASSUME NEW S, NEW s \in Seq(S), s # <<>>, NEW T
  PROVE  CountIn(s, T) = CountIn(Tail(s), T) + IF Head(s) \in T THEN 1 ELSE 0
<1>1. PICK n \in Nat : Len(s) = n + 1
  <2>1. Len(s) \in Nat \ {0}
    BY EmptySeq
  <2>2. Len(s) - 1 \in Nat /\ Len(s) = (Len(s) - 1) + 1
    BY <2>1
  <2> QED BY <2>2
<1>2. PICK u : u = Tail(s)
  OBVIOUS
<1>3. /\ u \in Seq(S) /\ Len(u) = n /\ Head(s) = s[1]
      /\ \A i \in 1 .. n : u[i] = s[i + 1]
  BY <1>1, <1>2, HeadTailProperties
<1> DEFINE B == Where(u, T)
           C == {k \in 2 .. n + 1 : s[k] \in T}
           f == [i \in B |-> i + 1]
<1>4. IsFiniteSet(B) /\ Cardinality(B) \in Nat
  BY <1>3, CountFacts DEF CountIn
<1>5. \A i \in B : i \in 1 .. n /\ i + 1 \in C
  <2> SUFFICES ASSUME NEW i \in B PROVE i \in 1 .. n /\ i + 1 \in C
    OBVIOUS
  <2>1. PICK k : k = i + 1
    OBVIOUS
  <2>2. i \in 1 .. n /\ k \in 2 .. n + 1 /\ s[k] \in T
    BY <1>3, <2>1 DEF Where
  <2> QED BY <2>1, <2>2
<1>6. \A k \in C : k - 1 \in B /\ k = (k - 1) + 1
  <2> SUFFICES ASSUME NEW k \in C PROVE k - 1 \in B /\ k = (k - 1) + 1
    OBVIOUS
  <2>1. PICK i : i = k - 1
    OBVIOUS
  <2>2. i \in 1 .. n /\ k = i + 1 /\ s[k] \in T
    BY <2>1
  <2> QED BY <1>3, <2>1, <2>2 DEF Where
<1>7. f \in Bijection(B, C)
  <2>1. f \in [B -> C]
    BY <1>5
  <2>2. \A i, j \in B : f[i] = f[j] => i = j
    BY <1>5
  <2>3. \A k \in C : \E i \in B : f[i] = k
    BY <1>6
  <2> HIDE DEF f, B, C
  <2> QED BY <2>1, <2>2, <2>3 DEF Bijection, Injection, Surjection, IsInjective
<1>8. Where(s, T) = (C \union IF Head(s) \in T THEN {1} ELSE {}) /\ 1 \notin C
  <2>1. \A i : i \in 1 .. n + 1 <=> i \in 2 .. n + 1 \/ i = 1
    OBVIOUS
  <2>2. \A i : i \in Where(s, T) <=> i \in C \/ (i = 1 /\ Head(s) \in T)
    BY <1>1, <1>3, <2>1 DEF Where
  <2>3. 1 \notin C
    OBVIOUS
  <2> HIDE DEF C
  <2> QED BY <2>2, <2>3
<1> HIDE DEF B, C, f
<1>9. IsFiniteSet(C) /\ Cardinality(C) = Cardinality(B)
  BY <1>4, <1>7, FS_Bijection DEF ExistsBijection
<1>10. Cardinality(C \union {1}) = Cardinality(C) + 1
  BY <1>8, <1>9, FS_AddElement
<1>11. CountIn(Tail(s), T) = Cardinality(B)
  BY <1>2 DEF CountIn, B
<1>12. CASE Head(s) \in T
  BY <1>4, <1>8, <1>9, <1>10, <1>11, <1>12 DEF CountIn
<1>13. CASE Head(s) \notin T
  BY <1>4, <1>8, <1>9, <1>11, <1>13 DEF CountIn
<1> QED BY <1>12, <1>13

(* The batches that read weights older than the policy's.                  *)
Old == {b \in Batches : Stale(b)}

StaleInv == staleTaken + CountIn(queue, Old) + StaleInHand <= Capacity + 1

LEMMA StalenessIsCounted ==
  ASSUME TypeOK
  PROVE  StalenessBounded <=> StaleInv
<1>1. queue \in Seq(Batches)
  BY DEF TypeOK
<1>2. {i \in 1 .. Len(queue) : Stale(queue[i])} = Where(queue, Old)
  BY <1>1 DEF Where, Old
<1> QED BY <1>2 DEF StalenessBounded, StaleInv, CountIn

(* A batch in hand does not grow stale by being collected further: what is *)
(* read is the policy's own version.                                       *)
LEMMA MoveStale ==
  ASSUME IInv, StaleInv, CollectorMoves
  PROVE  StaleInv'
<1>1. pc # "ended" /\ UNCHANGED <<queue, policy, staleTaken>>
  BY DEF CollectorMoves, ResetEnvs, BeginRollout, CheckStop, StepValues,
         StepActions, StepEnvs, EnvFails, CallbackPanics, Bootstrap, CheckStopBeforeSend,
         SendTimesOut, SendDisconnected, Goes
<1>2. used' = {} \/ used' = used \/ used' = used \union {policy}
  BY DEF CollectorMoves, ResetEnvs, BeginRollout, CheckStop, StepValues,
         StepActions, StepEnvs, EnvFails, CallbackPanics, Bootstrap, CheckStopBeforeSend,
         SendTimesOut, SendDisconnected, Goes, ReadWeights
<1>3. policy \in Int /\ Capacity \in Nat /\ staleTaken \in Nat
  <2>1. policy \in Versions /\ staleTaken \in Nat
    BY DEF IInv, TypeOK
  <2> QED BY <2>1, PipelineAssumption DEF Versions
<1>4. StaleInHand' <= StaleInHand /\ StaleInHand \in Nat /\ StaleInHand' \in Nat
  <2>1. Stale(Pending) <=> \E v \in used : v < policy
    BY DEF Stale, Pending
  <2>2. Stale(Pending)' <=> \E v \in used' : v < policy
    BY <1>1 DEF Stale, Pending
  <2>3. Stale(Pending)' => Stale(Pending)
    BY <1>2, <1>3, <2>1, <2>2
  <2> QED BY <1>1, <2>3 DEF StaleInHand
<1>5. CountIn(queue, Old)' = CountIn(queue, Old) /\ CountIn(queue, Old) \in Nat
  <2>1. queue \in Seq(Batches)
    BY DEF IInv, TypeOK
  <2>2. CountIn(queue, Old) \in Nat
    BY <2>1, CountFacts
  <2> QED BY <1>1, <2>2 DEF CountIn, Where, Old, Stale
<1> QED BY <1>1, <1>3, <1>4, <1>5 DEF StaleInv

(* A stale batch goes from the collector's hand to the channel,            *)
LEMMA PutStale ==
  ASSUME IInv, StaleInv, Put
  PROVE  StaleInv'
<1>1. /\ queue' = Append(queue, Pending) /\ used' = {} /\ pc # "ended"
      /\ UNCHANGED <<policy, staleTaken>>
  BY DEF Put
<1>2. queue \in Seq(Batches) /\ Pending \in Batches /\ staleTaken \in Nat /\ Capacity \in Nat
  BY PipelineAssumption DEF IInv, TypeOK, RowsFollowPc, Pending, Batches, Put
<1>3. Old' = Old
  BY <1>1 DEF Old, Stale
<1>4. CountIn(queue, Old)' = CountIn(queue, Old) + IF Pending \in Old THEN 1 ELSE 0
  <2>1. CountIn(Append(queue, Pending), Old)
          = CountIn(queue, Old) + IF Pending \in Old THEN 1 ELSE 0
    BY <1>2, CountOfAppend
  <2> QED BY <1>1, <1>3, <2>1 DEF CountIn, Where
<1>5. StaleInHand = IF Pending \in Old THEN 1 ELSE 0
  BY <1>1, <1>2 DEF StaleInHand, Old
<1>6. StaleInHand' = 0
  BY <1>1 DEF StaleInHand, Stale, Pending
<1>7. CountIn(queue, Old) \in Nat
  BY <1>2, CountFacts
<1> QED BY <1>1, <1>2, <1>4, <1>5, <1>6, <1>7 DEF StaleInv

(* and from the channel to the learner.                                    *)
LEMMA TakeStale ==
  ASSUME IInv, StaleInv, TakeBatch, UNCHANGED <<collector, policy>>
  PROVE  StaleInv'
<1>1. /\ queue # <<>> /\ queue' = Tail(queue)
      /\ staleTaken' = IF Stale(Head(queue)) THEN staleTaken + 1 ELSE staleTaken
  BY DEF TakeBatch
<1>2. queue \in Seq(Batches) /\ staleTaken \in Nat /\ Capacity \in Nat
  BY PipelineAssumption DEF IInv, TypeOK
<1>3. Old' = Old /\ StaleInHand' = StaleInHand /\ StaleInHand \in Nat
  BY DEF Old, Stale, StaleInHand, Pending, collector
<1>4. CountIn(queue, Old)
        = CountIn(queue, Old)' + IF Head(queue) \in Old THEN 1 ELSE 0
  <2>1. CountIn(queue, Old)
          = CountIn(Tail(queue), Old) + IF Head(queue) \in Old THEN 1 ELSE 0
    BY <1>1, <1>2, CountOfTail
  <2> QED BY <1>1, <1>3, <2>1 DEF CountIn, Where
<1>5. Head(queue) \in Old <=> Stale(Head(queue))
  <2>1. Head(queue) \in Batches
    BY <1>1, <1>2, HeadTailProperties
  <2> QED BY <2>1 DEF Old
<1>6. CountIn(queue, Old)' \in Nat
  <2>1. Tail(queue) \in Seq(Batches)
    BY <1>1, <1>2, HeadTailProperties
  <2>2. CountIn(Tail(queue), Old) \in Nat
    BY <2>1, CountFacts
  <2> QED BY <1>1, <1>3, <2>2 DEF CountIn, Where
<1> QED BY <1>1, <1>2, <1>3, <1>4, <1>5, <1>6 DEF StaleInv

(* New weights make at most what is buffered and what is in hand stale.    *)
LEMMA SyncStale ==
  ASSUME IInv, SyncWeights
  PROVE  StaleInv'
<1>1. staleTaken' = 0 /\ UNCHANGED queue
  BY DEF SyncWeights
<1>2. queue \in Seq(Batches) /\ Len(queue) <= Capacity /\ Capacity \in Nat
  BY PipelineAssumption DEF IInv, TypeOK
<1>3. PICK T : T = Old'
  OBVIOUS
<1>4. CountIn(queue, T) \in Nat /\ CountIn(queue, T) <= Len(queue)
  BY <1>2, CountFacts
<1>5. CountIn(queue, Old)' = CountIn(queue, T)
  BY <1>1, <1>3 DEF CountIn, Where
<1>6. StaleInHand' \in {0, 1}
  BY DEF StaleInHand
<1>7. Len(queue) \in Nat
  BY <1>2
<1> QED BY <1>1, <1>2, <1>4, <1>5, <1>6, <1>7 DEF StaleInv

LEMMA StepStale ==
  ASSUME IInv, StaleInv, [Next]_vars
  PROVE  StaleInv'
<1>1. CASE CollectorMoves
  BY <1>1, MoveStale
<1>2. CASE Put
  BY <1>2, PutStale
<1>3. CASE RecvReturns \/ TryRecv
  BY <1>3, TakeStale DEF RecvReturns, TryRecv
<1>4. CASE SyncWeights
  BY <1>4, SyncStale
<1>5. CASE \/ CallRecv \/ CallStop \/ StopReturns \/ DropCollector \/ DropReturns
           \/ UNCHANGED vars
  <2>1. UNCHANGED <<collector, queue, policy, staleTaken>>
    BY <1>5 DEF CallRecv, CallStop, StopReturns, DropCollector, DropReturns, vars
  <2> QED BY <2>1
          DEF StaleInv, CountIn, Where, Old, Stale, StaleInHand, Pending, collector
<1>6. CASE DropPipeline
  <2>1. queue' = <<>> /\ UNCHANGED <<collector, policy, staleTaken>>
    BY <1>6 DEF DropPipeline
  <2>2. CountIn(queue, Old)' = 0
    <3>1. Where(queue, Old)' = {}
      BY <2>1 DEF Where
    <3> QED BY <3>1, FS_EmptySet DEF CountIn
  <2>3. CountIn(queue, Old) \in Nat /\ staleTaken \in Nat /\ Capacity \in Nat
    BY CountFacts, PipelineAssumption DEF IInv, TypeOK
  <2>4. StaleInHand' = StaleInHand /\ StaleInHand \in Nat
    BY <2>1 DEF StaleInHand, Stale, Pending, collector
  <2> QED BY <2>1, <2>2, <2>3, <2>4 DEF StaleInv
<1> QED
  BY <1>1, <1>2, <1>3, <1>4, <1>5, <1>6
     DEF Next, CollectorNext, CollectorRuns, CollectorFails, LearnerNext, CollectorMoves

(* However often the weights change, whatever the learner calls and        *)
(* wherever the collector is, no more than Capacity + 1 batches collected, *)
(* even in part, with older weights are received after a sync_weights.     *)
THEOREM StalenessBoundedHolds == Spec => []StalenessBounded
<1>1. Init => StaleInv
  <2> SUFFICES ASSUME Init PROVE StaleInv
    OBVIOUS
  <2>1. CountIn(queue, Old) = 0
    <3>1. Where(queue, Old) = {}
      BY DEF Init, Where
    <3> QED BY <3>1, FS_EmptySet DEF CountIn
  <2>2. StaleInHand = 0 /\ staleTaken = 0
    BY DEF Init, StaleInHand, Stale, Pending
  <2> QED BY <2>1, <2>2, PipelineAssumption DEF StaleInv
<1>2. IInv /\ StaleInv => StalenessBounded
  BY StalenessIsCounted DEF IInv
<1> QED BY <1>1, <1>2, InitIInv, StepIInv, StepStale, PTL DEF Spec

-----------------------------------------------------------------------------
(* The refinement of BoundedChannel.                                       *)

Contents == [i \in 1 .. Len(queue) |-> queue[i].num]

(* A call of the learner in which the receiver is used finds it.           *)
ReceiverExists ==
  /\ lpc \in {"idle", "recv", "joining"} => open
  /\ ~open => queue = <<>>

LEMMA InitReceiver == Init => ReceiverExists
BY DEF Init, ReceiverExists

LEMMA StepReceiver ==
  ASSUME ReceiverExists, [Next]_vars
  PROVE  ReceiverExists'
<1> USE DEF ReceiverExists
<1>1. CASE CollectorMoves
  BY <1>1 DEF CollectorMoves, ResetEnvs, BeginRollout, CheckStop, StepValues,
         StepActions, StepEnvs, EnvFails, CallbackPanics, Bootstrap, CheckStopBeforeSend,
         SendTimesOut, SendDisconnected, Goes, learner
<1>2. CASE Put
  BY <1>2 DEF Put, learner
<1>3. CASE RecvReturns \/ TryRecv
  BY <1>3 DEF RecvReturns, TryRecv, TakeBatch, learner
<1>4. CASE DropPipeline
  BY <1>4 DEF DropPipeline
<1>5. CASE LearnerCalls \/ UNCHANGED vars
  BY <1>5 DEF LearnerCalls, CallRecv, SyncWeights, CallStop, StopReturns,
              DropCollector, DropReturns, vars, learner
<1> QED
  BY <1>1, <1>2, <1>3, <1>4, <1>5
     DEF Next, CollectorNext, CollectorRuns, CollectorFails, LearnerNext,
         CollectorMoves, LearnerCalls

LEMMA MoveRefines ==
  ASSUME CollectorMoves
  PROVE  Channel!Shut \/ UNCHANGED Channel!vars
<1>1. UNCHANGED <<queue, built, open>> /\ pc # "ended"
  BY DEF CollectorMoves, ResetEnvs, BeginRollout, CheckStop, StepValues,
         StepActions, StepEnvs, EnvFails, CallbackPanics, Bootstrap, CheckStopBeforeSend,
         SendTimesOut, SendDisconnected, Goes
<1>2. CASE pc' = "ended"
  BY <1>1, <1>2 DEF Channel!Shut
<1>3. CASE pc' # "ended"
  BY <1>1, <1>3 DEF Channel!vars
<1> QED BY <1>2, <1>3

LEMMA PutRefines ==
  ASSUME IInv, Put
  PROVE  Channel!Put
<1>1. /\ queue' = Append(queue, Pending) /\ built' = NextId /\ pc = "sending"
      /\ pc' = "loop" /\ Len(queue) < Capacity /\ open /\ UNCHANGED open
  BY DEF Put
<1>2. queue \in Seq(Batches) /\ Pending \in Batches /\ Pending.num = built
  BY PipelineAssumption DEF IInv, TypeOK, RowsFollowPc, Pending, Batches, Put
<1>3. PICK n \in Nat : n = Len(queue)
  BY <1>2
<1>4. /\ Len(queue') = n + 1 /\ queue'[n + 1] = Pending
      /\ \A i \in 1 .. n : queue'[i] = queue[i]
  BY <1>1, <1>2, <1>3, AppendProperties
<1>5. Contents \in Seq(Int) /\ Len(Contents) = n /\ \A i \in 1 .. n : Contents[i] = queue[i].num
  <2>1. \A i \in 1 .. n : queue[i].num \in Int
    <3> SUFFICES ASSUME NEW i \in 1 .. n PROVE queue[i].num \in Int
      OBVIOUS
    <3>1. queue[i] \in Batches
      BY <1>2, <1>3, ElementOfSeq
    <3> QED BY <3>1 DEF Batches
  <2>2. Contents = [i \in 1 .. n |-> queue[i].num]
    BY <1>3 DEF Contents
  <2> QED BY <2>1, <2>2
<1>6. Append(Contents, built)
        = [i \in 1 .. n + 1 |-> IF i = n + 1 THEN built ELSE queue[i].num]
  <2>1. PICK a : a = Append(Contents, built)
    OBVIOUS
  <2>2. /\ a \in Seq(Int) /\ Len(a) = n + 1 /\ a[n + 1] = built
        /\ \A i \in 1 .. n : a[i] = queue[i].num
    <3>1. built \in 0 .. IdLimit - 1
      BY DEF IInv, TypeOK
    <3>2. built \in Int
      BY <3>1, PipelineAssumption DEF IdLimit
    <3> QED BY <1>5, <2>1, <3>2, AppendProperties
  <2>3. \A i \in 1 .. n + 1 : i = n + 1 \/ (i # n + 1 /\ i \in 1 .. n)
    OBVIOUS
  <2>4. a = [i \in 1 .. n + 1 |-> a[i]]
    BY <2>2
  <2> QED BY <2>1, <2>2, <2>3, <2>4
<1>7. Contents' = [i \in 1 .. n + 1 |-> IF i = n + 1 THEN built ELSE queue[i].num]
  <2>1. Contents' = [i \in 1 .. n + 1 |-> queue'[i].num]
    BY <1>4 DEF Contents
  <2>2. \A i \in 1 .. n + 1 : queue'[i].num = IF i = n + 1 THEN built ELSE queue[i].num
    <3>1. \A i \in 1 .. n + 1 : i = n + 1 \/ (i # n + 1 /\ i \in 1 .. n)
      OBVIOUS
    <3> QED BY <1>2, <1>4, <3>1
  <2> QED BY <2>1, <2>2
<1>8. Contents' = Append(Contents, built) /\ Len(Contents) < Capacity
  BY <1>1, <1>3, <1>5, <1>6, <1>7
<1> QED BY <1>1, <1>8 DEF Channel!Put, Contents, NextId

LEMMA TakeRefines ==
  ASSUME IInv, ReceiverExists, TakeBatch, UNCHANGED <<collector, open>>
  PROVE  Channel!Take
<1>1. queue # <<>> /\ queue' = Tail(queue) /\ queue \in Seq(Batches)
  BY DEF TakeBatch, IInv, TypeOK
<1>2. PICK n \in Nat : Len(queue) = n + 1
  <2>1. Len(queue) \in Nat \ {0}
    BY <1>1, EmptySeq
  <2>2. Len(queue) - 1 \in Nat /\ Len(queue) = (Len(queue) - 1) + 1
    BY <2>1
  <2> QED BY <2>2
<1>3. Len(queue') = n /\ \A i \in 1 .. n : queue'[i] = queue[i + 1]
  BY <1>1, <1>2, HeadTailProperties
<1>4. /\ Contents \in Seq(Int) /\ Len(Contents) = n + 1
      /\ \A i \in 1 .. n + 1 : Contents[i] = queue[i].num
  <2>1. \A i \in 1 .. n + 1 : queue[i].num \in Int
    <3> SUFFICES ASSUME NEW i \in 1 .. n + 1 PROVE queue[i].num \in Int
      OBVIOUS
    <3>1. queue[i] \in Batches
      BY <1>1, <1>2, ElementOfSeq
    <3> QED BY <3>1 DEF Batches
  <2>2. Contents = [i \in 1 .. n + 1 |-> queue[i].num]
    BY <1>2 DEF Contents
  <2> QED BY <2>1, <2>2
<1>5. Contents # <<>>
  BY <1>4
<1>6. Tail(Contents) = [i \in 1 .. n |-> queue[i + 1].num]
  <2>1. PICK a : a = Tail(Contents)
    OBVIOUS
  <2>2. /\ a \in Seq(Int) /\ Len(a) = n
        /\ \A i \in 1 .. n : a[i] = Contents[i + 1]
    BY <1>4, <1>5, <2>1, HeadTailProperties
  <2>3. \A i \in 1 .. n : i + 1 \in 1 .. n + 1
    OBVIOUS
  <2>4. \A i \in 1 .. n : a[i] = queue[i + 1].num
    BY <1>4, <2>2, <2>3
  <2>5. a = [i \in 1 .. n |-> a[i]]
    BY <2>2
  <2> QED BY <2>1, <2>4, <2>5
<1>7. Contents' = [i \in 1 .. n |-> queue[i + 1].num]
  BY <1>3 DEF Contents
<1>8. open
  BY <1>1 DEF ReceiverExists
<1> QED BY <1>5, <1>6, <1>7, <1>8 DEF Channel!Take, Contents, collector

LEMMA StepRefines ==
  ASSUME IInv, ReceiverExists, [Next]_vars
  PROVE  [Channel!Next]_(Channel!vars)
<1>1. CASE CollectorMoves
  BY <1>1, MoveRefines DEF Channel!Next
<1>2. CASE Put
  BY <1>2, PutRefines DEF Channel!Next
<1>3. CASE RecvReturns \/ TryRecv
  BY <1>3, TakeRefines DEF RecvReturns, TryRecv, Channel!Next
<1>4. CASE DropPipeline
  <2>1. queue' = <<>> /\ UNCHANGED <<pc, built>> /\ open /\ ~open'
    BY <1>4 DEF DropPipeline, collector, ReceiverExists
  <2>2. Contents' = <<>>
    BY <2>1 DEF Contents
  <2> QED BY <2>1, <2>2 DEF Channel!Discard, Channel!Next, Contents
<1>5. CASE LearnerCalls \/ UNCHANGED vars
  <2>1. UNCHANGED <<pc, built, queue, open>>
    BY <1>5 DEF LearnerCalls, CallRecv, SyncWeights, CallStop, StopReturns,
                DropCollector, DropReturns, collector, vars
  <2> QED BY <2>1 DEF Channel!vars
<1> QED
  BY <1>1, <1>2, <1>3, <1>4, <1>5
     DEF Next, CollectorNext, CollectorRuns, CollectorFails, LearnerNext,
         CollectorMoves, LearnerCalls

(* The pipeline implements a bounded first-in first-out channel: a batch   *)
(* sent is a Put, a batch received a Take, the end of the collector a Shut *)
(* and the drop of the pipeline, at most once, a Discard; nothing else     *)
(* touches the channel, so a batch is lost to the drop alone.              *)
THEOREM PipelineRefinesChannel == Spec => RefinesChannel
<1>1. Init => Channel!Init
  <2> SUFFICES ASSUME Init PROVE Channel!Init
    OBVIOUS
  <2>1. Contents = <<>>
    BY DEF Init, Contents
  <2> QED BY <2>1 DEF Init, Channel!Init, Contents
<1> QED BY <1>1, IInvHolds, InitReceiver, StepReceiver, StepRefines, PTL
        DEF Spec, RefinesChannel, Channel!Spec

-----------------------------------------------------------------------------
(* HybridTrainer: whose weights the batches read.                          *)

(* The policy, the rollout in hand and the buffered batches know only      *)
(* these versions.                                                         *)
Knows(versions) ==
  /\ policy \in versions
  /\ used \subseteq versions
  /\ \A i \in 1 .. Len(queue) : queue[i].used \subseteq versions

TrainerPlaces ==
  {"collect", "receiving", "stop", "stopping", "train", "restart", "sync",
   "callbacks", "finish", "finishing", "returned"}

TrainerInv ==
  /\ IInv
  /\ tpc \in TrainerPlaces /\ trained \in 0 .. MaxUpdates
  /\ tpc # "restart" => Knows(IF tpc = "sync" THEN {0} ELSE {0, trained})
  /\ tpc \in {"stop", "stopping", "train"} => read \subseteq {0, trained}

LEMMA CollectorKnows ==
  ASSUME IInv, CollectorNext, NEW versions, Knows(versions)
  PROVE  Knows(versions)'
<1>1. CASE CollectorMoves
  <2>1. UNCHANGED <<queue, policy>>
    BY <1>1 DEF CollectorMoves, ResetEnvs, BeginRollout, CheckStop, StepValues,
         StepActions, StepEnvs, EnvFails, CallbackPanics, Bootstrap, CheckStopBeforeSend,
         SendTimesOut, SendDisconnected, Goes
  <2>2. used' = {} \/ used' = used \/ used' = used \union {policy}
    BY <1>1 DEF CollectorMoves, ResetEnvs, BeginRollout, CheckStop, StepValues,
         StepActions, StepEnvs, EnvFails, CallbackPanics, Bootstrap, CheckStopBeforeSend,
         SendTimesOut, SendDisconnected, Goes, ReadWeights
  <2> QED BY <2>1, <2>2 DEF Knows
<1>2. CASE Put
  <2>1. /\ queue' = Append(queue, Pending) /\ used' = {} /\ UNCHANGED policy
        /\ queue \in Seq(Batches) /\ Pending \in Batches /\ Pending.used = used
    BY <1>2, PipelineAssumption
       DEF Put, IInv, TypeOK, RowsFollowPc, Pending, Batches
  <2>2. PICK n \in Nat : n = Len(queue)
    BY <2>1
  <2>3. /\ Len(queue') = n + 1 /\ queue'[n + 1] = Pending
        /\ \A i \in 1 .. n : queue'[i] = queue[i]
    BY <2>1, <2>2, AppendProperties
  <2>4. \A i \in 1 .. n + 1 : i \in 1 .. n \/ i = n + 1
    OBVIOUS
  <2> QED BY <2>1, <2>2, <2>3, <2>4 DEF Knows
<1> QED BY <1>1, <1>2
        DEF CollectorNext, CollectorRuns, CollectorFails, CollectorMoves

LEMMA TakeKnows ==
  ASSUME IInv, TakeBatch, UNCHANGED <<collector, policy>>, NEW versions, Knows(versions)
  PROVE  Knows(versions)' /\ Head(queue).used \subseteq versions
<1>1. queue \in Seq(Batches) /\ queue # <<>> /\ queue' = Tail(queue)
  BY DEF TakeBatch, IInv, TypeOK
<1>2. /\ Len(queue) \in Nat /\ Len(queue) >= 1 /\ Len(queue') = Len(queue) - 1
      /\ Head(queue) = queue[1] /\ \A i \in 1 .. Len(queue') : queue'[i] = queue[i + 1]
  <2>1. Len(queue) \in Nat \ {0}
    BY <1>1, EmptySeq
  <2> QED BY <1>1, <2>1, HeadTailProperties
<1>3. 1 \in 1 .. Len(queue) /\ \A i \in 1 .. Len(queue') : i + 1 \in 1 .. Len(queue)
  BY <1>2
<1> QED BY <1>2, <1>3 DEF Knows, collector

(* A collector of its own, with nothing buffered and nothing in hand.      *)
LEMMA RestartIInv ==
  ASSUME IInv, NewCollector
  PROVE  IInv' /\ Knows({0})'
<1>1. /\ pc' = "start" /\ row' = 0 /\ used' = {} /\ built' = 0 /\ stop' = FALSE
      /\ policy' = 0 /\ handle' = TRUE /\ queue' = <<>> /\ UNCHANGED <<open, lpc, staleTaken>>
  BY DEF NewCollector, FreshCollector
<1>2. queue' \in Seq(Batches) /\ Len(queue') = 0
  BY <1>1, EmptySeq
<1>3. Len(queue') <= Capacity /\ 0 \in 0 .. NSteps /\ 0 \in Versions /\ 0 \in 0 .. IdLimit - 1
  BY <1>2, PipelineAssumption DEF Versions, IdLimit
<1>4. TypeOK'
  BY <1>1, <1>2, <1>3 DEF IInv, TypeOK
<1>5. RowsFollowPc' /\ WholeRollouts' /\ StoppedMeansEnded' /\ Knows({0})'
  BY <1>1, <1>2 DEF RowsFollowPc, WholeRollouts, StoppedMeansEnded, Knows
<1> QED BY <1>4, <1>5 DEF IInv

LEMMA TrainerStep ==
  ASSUME TrainerInv, [TrainerNext]_allVars
  PROVE  TrainerInv'
<1>0. IInv /\ tpc \in TrainerPlaces /\ trained \in 0 .. MaxUpdates /\ MaxUpdates \in 1 .. MaxSyncs
      /\ MaxSyncs \in Nat
  BY UpdatesAssumption, PipelineAssumption DEF TrainerInv
<1> DEFINE versions == IF tpc = "sync" THEN {0} ELSE {0, trained}
<1>1. CASE CollectorStep
  <2>1. CollectorNext /\ UNCHANGED <<tpc, trained, read>>
    BY <1>1 DEF CollectorStep, trainer
  <2>2. IInv'
    BY <1>0, <2>1, StepIInv DEF Next
  <2>3. PICK s : s = versions
    OBVIOUS
  <2>4. tpc # "restart" => Knows(s)'
    BY <1>0, <2>1, <2>3, CollectorKnows DEF TrainerInv
  <2> QED BY <1>0, <2>1, <2>2, <2>3, <2>4 DEF TrainerInv
<1>2. CASE GetBatch
  <2>1. /\ tpc = "receiving" /\ tpc' = "stop" /\ trained' = trained
        /\ RecvReturns /\ read' = Head(queue).used
    BY <1>2 DEF GetBatch
  <2>2. TakeBatch /\ UNCHANGED <<collector, policy>>
    BY <2>1 DEF RecvReturns
  <2>3. IInv'
    BY <1>0, <2>1, StepIInv DEF Next, LearnerNext
  <2>4. PICK s : s = {0, trained}
    OBVIOUS
  <2>5. Knows(s)' /\ Head(queue).used \subseteq s
    BY <1>0, <2>1, <2>2, <2>4, TakeKnows DEF TrainerInv
  <2> QED BY <1>0, <2>1, <2>3, <2>4, <2>5 DEF TrainerInv, TrainerPlaces
<1>3. CASE AwaitBatch \/ StopCollector \/ CollectorStopped \/ BeginTraining \/ EndUpdate
           \/ TrainReturns \/ TrainAgain \/ UNCHANGED allVars
  <2>1. /\ UNCHANGED <<used, queue, policy, trained, read>> /\ tpc' \in TrainerPlaces
        /\ (tpc = "restart" <=> tpc' = "restart") /\ (tpc = "sync" <=> tpc' = "sync")
        /\ tpc' \in {"stop", "stopping", "train"} => tpc \in {"stop", "stopping", "train"}
    <3>1. CASE AwaitBatch
      BY <3>1 DEF AwaitBatch, CallRecv, collector, TrainerPlaces
    <3>2. CASE StopCollector
      BY <3>2 DEF StopCollector, CallStop, collector, vars, TrainerPlaces
    <3>3. CASE CollectorStopped
      BY <1>0, <3>3 DEF CollectorStopped, StopReturns, collector, trainer
    <3>4. CASE BeginTraining \/ EndUpdate \/ TrainReturns \/ TrainAgain
      BY <3>4 DEF BeginTraining, EndUpdate, TrainReturns, TrainAgain, collector, vars,
                  TrainerPlaces
    <3>5. CASE UNCHANGED allVars
      BY <1>0, <3>5 DEF allVars, vars, collector, trainer
    <3> QED BY <1>3, <3>1, <3>2, <3>3, <3>4, <3>5
  <2>2. [Next]_vars
    BY <1>3 DEF AwaitBatch, StopCollector, CollectorStopped, BeginTraining, EndUpdate,
                TrainReturns, TrainAgain, allVars, Next, LearnerNext
  <2>3. IInv'
    BY <1>0, <2>2, StepIInv
  <2> QED BY <1>0, <2>1, <2>3 DEF TrainerInv, Knows
<1>4. CASE Train
  <2>1. /\ UNCHANGED vars /\ trained' = trained + 1 /\ trained < MaxUpdates
        /\ tpc' = "restart"
    BY <1>4 DEF Train
  <2>2. IInv'
    BY <1>0, <2>1, StepIInv
  <2> QED BY <1>0, <2>1, <2>2 DEF TrainerInv, TrainerPlaces
<1>5. CASE NewCollector
  <2>1. tpc' = "sync" /\ trained' = trained
    BY <1>5 DEF NewCollector
  <2>2. IInv' /\ Knows({0})'
    BY <1>0, <1>5, RestartIInv
  <2> QED BY <1>0, <2>1, <2>2 DEF TrainerInv, TrainerPlaces
<1>6. CASE SyncNewCollector
  <2>1. /\ tpc = "sync" /\ tpc' = "callbacks" /\ policy' = trained /\ trained' = trained
        /\ UNCHANGED <<pc, row, used, built, stop, open, queue, lpc, handle, staleTaken>>
    BY <1>6 DEF SyncNewCollector, collector, learner
  <2>2. policy' \in Versions
    BY <1>0, <2>1 DEF Versions
  <2>3. IInv'
    <3>1. IInv
      BY <1>0
    <3>2. TypeOK'
      BY <2>1, <2>2, <3>1 DEF IInv, TypeOK
    <3>3. RowsFollowPc'
      BY <2>1, <3>1 DEF IInv, RowsFollowPc
    <3>4. WholeRollouts'
      BY <2>1, <3>1 DEF IInv, WholeRollouts
    <3>5. StoppedMeansEnded'
      BY <2>1, <3>1 DEF IInv, StoppedMeansEnded
    <3> QED BY <3>2, <3>3, <3>4, <3>5 DEF IInv
  <2>4. Knows({0, trained})'
    BY <2>1 DEF TrainerInv, Knows
  <2> QED BY <1>0, <2>1, <2>3, <2>4 DEF TrainerInv, TrainerPlaces
<1> QED BY <1>1, <1>2, <1>3, <1>4, <1>5, <1>6 DEF TrainerNext, TrainStep

(* The batch train is about to learn from was collected with the weights   *)
(* of this update or with those a new collector starts with, whatever the  *)
(* old collector left in its channel and whenever the new one was synced.  *)
THEOREM NoBatchFromEarlierUpdatesHolds == TrainerSpec => []NoBatchFromEarlierUpdates
<1>1. TrainerInit => TrainerInv
  <2> SUFFICES ASSUME TrainerInit PROVE TrainerInv
    OBVIOUS
  <2>1. IInv
    BY InitIInv DEF TrainerInit
  <2> QED BY <2>1, UpdatesAssumption, PipelineAssumption
          DEF TrainerInit, Init, TrainerInv, TrainerPlaces, Knows
<1>2. TrainerInv /\ [TrainerNext]_allVars => TrainerInv'
  BY TrainerStep
<1>3. TrainerInv => NoBatchFromEarlierUpdates
  BY DEF TrainerInv, NoBatchFromEarlierUpdates
<1> QED BY <1>1, <1>2, <1>3, PTL DEF TrainerSpec

=============================================================================
