---------------------------- MODULE SandboxProofs ----------------------------
(***************************************************************************)
(* Proofs about SandboxServer for every set of requests, every number of   *)
(* permits, tasks and completions: no permit is lost or duplicated, the    *)
(* trajectories of a group stand in the order of its completions, and the  *)
(* telemetry of a reply adds up.                                           *)
(* At the end of the module, about SandboxWorker, the box that a task of   *)
(* the server runs: the program runs confined or not at all, a return      *)
(* leaves nothing behind, and the result tells what ran.                   *)
(***************************************************************************)
EXTENDS SandboxServer, SandboxWorker, TLAPS, FiniteSetTheorems, SequenceTheorems

RolloutPlaces == {"model", "acquire", "permit", "join", "replied", "failed", "gone"}
VerifyPlaces == {"acquire", "permit", "verifying", "replied", "gone"}
Boxes == Statuses \union {"none", "running", "panic", "orphan"}
Trajectory == [adversarial : BOOLEAN, status : Boxes]
Telemetry ==
  [injected : Nat, contained : Nat, contagion : Nat, setup : Nat, latencies : Nat]

TypeInv ==
  /\ DOMAIN pc = Clients
  /\ \A r \in Rollouts : pc[r] \in RolloutPlaces
  /\ \A v \in Verifies : pc[v] \in VerifyPlaces
  /\ task \in [Clients -> 1 .. NTasks]
  /\ spawned \in [Clients -> 0 .. GroupSize]
  /\ box \in [Clients -> [Completions -> Boxes]]
  /\ joined \in [Clients -> SUBSET Completions]
  /\ results \in [Clients -> Seq(Nat \X Boxes)]
  /\ permits \in Nat
  /\ leaked \in Nat

-----------------------------------------------------------------------------
(* The semaphore.                                                          *)

(* A waiter waits once, and neither it nor a handler given a permit is     *)
(* anywhere else.                                                          *)
QueueInv ==
  /\ waiters \in Seq(Clients)
  /\ granted \subseteq Clients /\ IsFiniteSet(granted)
  /\ \A i, j \in 1 .. Len(waiters) : i # j => waiters[i] # waiters[j]
  /\ \A i \in 1 .. Len(waiters) :
        waiters[i] \notin granted /\ pc[waiters[i]] = "permit"
  /\ \A c \in granted : pc[c] = "permit"

(* How far a group is follows from where its handler is.                   *)
GroupInv ==
  /\ \A r \in Rollouts :
       /\ joined[r] \subseteq 1 .. spawned[r]
       /\ pc[r] = "model" => joined[r] = 1 .. spawned[r]
       /\ pc[r] \in {"acquire", "permit"} => spawned[r] < GroupSize /\ joined[r] = {}
       /\ pc[r] = "join" => spawned[r] = GroupSize
  /\ \A v \in Verifies : spawned[v] = 0

CountInv ==
  /\ IsFiniteSet(Lent)
  /\ IsFiniteSet(Verifying)
  /\ SlotsAccounted

SlotInv == TypeInv /\ QueueInv /\ GroupInv /\ CountInv

-----------------------------------------------------------------------------
(* Results and telemetry, one request at a time: no step of one request    *)
(* touches what another has (OthersStay).                                  *)

Live(r) == pc[r] \notin {"failed", "gone"}

(* A completion is in its sandbox until it has ended; whose timeout is     *)
(* bad, panics, and no other does.                                         *)
RolloutBoxes(r) == Live(r) =>
  /\ \A i \in joined[r] : box[r][i] \notin {"none", "running"}
  /\ \A i \in 1 .. spawned[r] : box[r][i] # "none"
  /\ \A i \in Completions :
       box[r][i] \in IF r \in BadTimeouts THEN {"none", "running", "panic"}
                     ELSE Statuses \union {"none", "running"}
  /\ pc[r] \in {"model", "replied"} =>
       \A i \in Completions : box[r][i] # "running"

VerifyBox(v) == pc[v] # "gone" =>
  /\ box[v][1] \in Statuses \union {"none", "running"}
  /\ pc[v] = "verifying" => box[v][1] # "none"

BoxInv == (\A r \in Rollouts : RolloutBoxes(r)) /\ \A v \in Verifies : VerifyBox(v)

(* The results name each joined completion once, with how it ended; those  *)
(* of a group that panicked are numbered as they come.                     *)
RolloutResults(r) == Live(r) =>
  /\ Len(results[r]) = Cardinality(joined[r])
  /\ \A k, l \in 1 .. Len(results[r]) :
       results[r][k][1] = results[r][l][1] => k = l
  /\ \A k \in 1 .. Len(results[r]) :
       IF r \in BadTimeouts THEN results[r][k] = <<k, "SetupError">>
       ELSE /\ results[r][k][1] \in joined[r]
            /\ results[r][k][2] = box[r][results[r][k][1]]

ResultsInv == \A r \in Rollouts : RolloutResults(r)

(* ResultsInOrder, of one rollout.                                         *)
InOrder(r) ==
  (pc[r] \in {"model", "replied"} /\ sent[r] # <<>>) =>
    LET before == Len(sent[r]) - GroupSize
    IN \A i \in Completions :
         sent[r][before + i].status =
           IF box[r][i] = "panic" THEN "SetupError" ELSE box[r][i]

Answers == DOMAIN sent = Clients /\ DOMAIN stats = Clients

Done(r) == IF pc[r] = "replied" THEN NTasks ELSE task[r] - 1

Unset(out) == HowMany(out, LAMBDA t : t.adversarial /\ NotSetUp(t))

(* The counters of a request against its trajectories.                     *)
Tallied(s, out, adversarial) ==
  /\ out \in Seq(Trajectory) /\ s \in Telemetry
  /\ s.contained + s.contagion + Unset(out) = adversarial
  /\ Unset(out) <= s.setup
  /\ s.latencies = s.contained

(* The adversarial ones among the first n tasks.                           *)
AdversarialUpTo(n) == Cardinality(AdversarialTasks \intersect 1 .. n)

(* Telemetry over the tasks that are done.                                 *)
RolloutStats(r) == Live(r) =>
  /\ Len(sent[r]) = Done(r) * GroupSize
  /\ stats[r].injected = Injected(r)
  /\ Tallied(stats[r], sent[r], AdversarialUpTo(Done(r)) * GroupSize)

VerifyStats(v) == pc[v] # "gone" =>
  /\ Len(sent[v]) = IF pc[v] = "replied" THEN 1 ELSE 0
  /\ stats[v].injected = Injected(v)
  /\ Tallied(stats[v], sent[v], IF pc[v] = "replied" THEN Injected(v) ELSE 0)

StatsInv == (\A r \in Rollouts : RolloutStats(r)) /\ \A v \in Verifies : VerifyStats(v)

(* The inductive invariant.                                                *)
ReplyInv ==
  /\ SlotInv /\ Answers /\ BoxInv /\ ResultsInv /\ StatsInv
  /\ \A r \in Rollouts : InOrder(r)

-----------------------------------------------------------------------------
(* Sequences and sets.                                                     *)

LEMMA RemoveAtFacts ==
  ASSUME NEW S, NEW s \in Seq(S), NEW i \in 1 .. Len(s)
  PROVE  /\ RemoveAt(s, i) \in Seq(S)
         /\ Len(RemoveAt(s, i)) = Len(s) - 1
         /\ \A j \in 1 .. Len(s) - 1 :
              RemoveAt(s, i)[j] = IF j < i THEN s[j] ELSE s[j + 1]
<1> DEFINE front == SubSeq(s, 1, i - 1)
           back == SubSeq(s, i + 1, Len(s))
<1>1. Len(s) \in Nat /\ i \in Int /\ i >= 1 /\ i <= Len(s)
  OBVIOUS
<1>2. /\ front \in Seq(S) /\ Len(front) = i - 1
      /\ \A j \in 1 .. i - 1 : front[j] = s[j]
  BY <1>1, SubSeqProperties
<1>3. /\ back \in Seq(S) /\ Len(back) = Len(s) - i
      /\ \A j \in 1 .. Len(s) - i : back[j] = s[j + i]
  BY <1>1, SubSeqProperties
<1> HIDE DEF front, back
<1>4. /\ front \o back \in Seq(S)
      /\ Len(front \o back) = Len(s) - 1
      /\ \A j \in 1 .. Len(s) - 1 :
           (front \o back)[j] = IF j <= i - 1 THEN front[j] ELSE back[j - (i - 1)]
  <2>1. Len(front) + Len(back) = Len(s) - 1
    BY <1>1, <1>2, <1>3
  <2>2. /\ front \o back \in Seq(S)
        /\ Len(front \o back) = Len(front) + Len(back)
        /\ \A j \in 1 .. Len(front) + Len(back) :
             (front \o back)[j] = IF j <= Len(front) THEN front[j] ELSE back[j - Len(front)]
    BY <1>2, <1>3, ConcatProperties
  <2> QED BY <1>2, <2>1, <2>2
<1>5. ASSUME NEW j \in 1 .. Len(s) - 1
      PROVE  (front \o back)[j] = IF j < i THEN s[j] ELSE s[j + 1]
  <2>1. CASE j < i
    <3>1. j \in 1 .. i - 1 /\ j <= i - 1
      BY <1>1, <2>1
    <3>2. front[j] = s[j]
      BY <1>2, <3>1
    <3>3. (front \o back)[j] = front[j]
      BY <1>4, <3>1
    <3> QED BY <2>1, <3>2, <3>3
  <2>2. CASE ~(j < i)
    <3>1. PICK m \in 1 .. Len(s) - i : m = j - (i - 1)
      BY <1>1, <2>2
    <3>2. (front \o back)[j] = back[m]
      BY <1>1, <1>4, <2>2, <3>1
    <3>3. back[m] = s[j + 1]
      <4>1. back[m] = s[m + i] /\ m + i = j + 1
        BY <1>1, <1>3, <3>1
      <4> QED BY <4>1
    <3>4. ~(j < i)
      BY <1>1, <2>2
    <3> QED BY <3>2, <3>3, <3>4
  <2> QED BY <2>1, <2>2
<1> QED BY <1>4, <1>5 DEF front, back, RemoveAt

LEMMA CardinalityOfLine ==
  ASSUME NEW c, NEW S, IsFiniteSet(S)
  PROVE  IsFiniteSet({c} \X S) /\ Cardinality({c} \X S) = Cardinality(S)
<1>1. IsFiniteSet({c}) /\ Cardinality({c}) = 1
  BY FS_Singleton
<1>2. Cardinality({c} \X S) = 1 * Cardinality(S) /\ IsFiniteSet({c} \X S)
  BY <1>1, FS_Product
<1>3. Cardinality(S) \in Nat
  BY FS_CardinalityType
<1> QED BY <1>2, <1>3

LEMMA DisjointUnion ==
  ASSUME NEW S, NEW T, IsFiniteSet(S), IsFiniteSet(T), S \intersect T = {}
  PROVE  IsFiniteSet(S \union T)
         /\ Cardinality(S \union T) = Cardinality(S) + Cardinality(T)
<1>1. Cardinality({}) = 0
  BY FS_EmptySet
<1>2. Cardinality(S) \in Nat /\ Cardinality(T) \in Nat
  BY FS_CardinalityType
<1>3. Cardinality(S \intersect T) = 0
  BY <1>1
<1>4. /\ IsFiniteSet(S \union T)
      /\ Cardinality(S \union T)
           = Cardinality(S) + Cardinality(T) - Cardinality(S \intersect T)
  BY FS_Union
<1> QED BY <1>2, <1>3, <1>4

LEMMA UpTo ==
  ASSUME NEW n \in Nat
  PROVE  IsFiniteSet(1 .. n) /\ Cardinality(1 .. n) = n
BY FS_Interval

(* An injective numbering of 1 .. n within 1 .. n leaves no number out,    *)
(* and below the number of an item there are as many as it says.           *)
Below(f, n, i) == {j \in 1 .. n : f[j] < f[i]}

LEMMA Numbering ==
  ASSUME NEW n \in Nat, NEW f \in Injection(1 .. n, 1 .. n)
  PROVE  /\ f \in Surjection(1 .. n, 1 .. n)
         /\ \A i \in 1 .. n : Cardinality(Below(f, n, i)) = f[i] - 1
<1>1. IsFiniteSet(1 .. n)
  BY FS_Interval
<1>2. f \in [1 .. n -> 1 .. n] /\ \A i, j \in 1 .. n : f[i] = f[j] => i = j
  BY DEF Injection, IsInjective
<1>3. f \in Surjection(1 .. n, 1 .. n)
  BY <1>1, FS_Injection
<1>4. \A k \in 1 .. n : \E i \in 1 .. n : f[i] = k
  BY <1>3 DEF Surjection
<1>5. ASSUME NEW i \in 1 .. n
      PROVE  Cardinality(Below(f, n, i)) = f[i] - 1
  <2> DEFINE S == {j \in 1 .. n : f[j] < f[i]}
             T == 1 .. f[i] - 1
             g == [j \in S |-> f[j]]
  <2>1. f[i] \in 1 .. n
    BY <1>2
  <2>2. IsFiniteSet(T) /\ Cardinality(T) = f[i] - 1
    <3>1. PICK m \in Nat : m = f[i] - 1
      BY <2>1
    <3>2. IsFiniteSet(1 .. m) /\ Cardinality(1 .. m) = m
      BY UpTo
    <3> QED BY <3>1, <3>2
  <2>3. IsFiniteSet(S)
    BY <1>1, FS_Subset
  <2>4. g \in [S -> T] /\ \A j, l \in S : g[j] = g[l] => j = l
    <3>1. ASSUME NEW j \in S PROVE f[j] \in T
      <4>1. f[j] \in 1 .. n /\ f[j] < f[i]
        BY <1>2
      <4> HIDE DEF S
      <4> QED BY <2>1, <4>1
    <3>2. g \in [S -> T]
      <4> HIDE DEF S, T
      <4> QED BY <3>1
    <3>3. ASSUME NEW j \in S, NEW l \in S, g[j] = g[l] PROVE j = l
      <4>1. j \in 1 .. n /\ l \in 1 .. n
        OBVIOUS
      <4>2. f[j] = f[l]
        <5> HIDE DEF S
        <5> QED BY <3>3
      <4> HIDE DEF S, g
      <4> QED BY <1>2, <4>1, <4>2
    <3> QED BY <3>2, <3>3
  <2>5. \A k \in T : \E j \in S : g[j] = k
    <3>1. ASSUME NEW k \in T PROVE \E j \in S : g[j] = k
      <4>1. k \in 1 .. n /\ k < f[i]
        BY <1>2, <2>1
      <4>2. PICK j \in 1 .. n : f[j] = k
        BY <1>4, <4>1
      <4>3. j \in S
        BY <4>1, <4>2
      <4>4. g[j] = k
        <5> HIDE DEF S
        <5> QED BY <4>2, <4>3
      <4> QED BY <4>3, <4>4
    <3> QED BY <3>1
  <2> HIDE DEF S, T, g
  <2>6. g \in Bijection(S, T)
    BY <2>4, <2>5 DEF Bijection, Injection, Surjection, IsInjective
  <2>7. Cardinality(T) = Cardinality(S)
    BY <2>3, <2>6, FS_Bijection DEF ExistsBijection
  <2> QED BY <2>2, <2>7 DEF S, Below
<1> QED BY <1>3, <1>5

-----------------------------------------------------------------------------
(* The semaphore.                                                          *)

LEMMA ReleaseFacts ==
  ASSUME permits \in Nat, waiters \in Seq(Clients),
         \A i, j \in 1 .. Len(waiters) : i # j => waiters[i] # waiters[j],
         NEW holders, holders \subseteq Clients, IsFiniteSet(holders),
         \A i \in 1 .. Len(waiters) : waiters[i] \notin holders,
         Release(holders)
  PROVE  /\ permits' \in Nat
         /\ waiters' \in Seq(Clients)
         /\ granted' \subseteq Clients /\ IsFiniteSet(granted')
         /\ permits' + Cardinality(granted') = permits + Cardinality(holders) + 1
         /\ \A i, j \in 1 .. Len(waiters') : i # j => waiters'[i] # waiters'[j]
         /\ \A i \in 1 .. Len(waiters') :
              /\ waiters'[i] \notin granted'
              /\ \E j \in 1 .. Len(waiters) : waiters'[i] = waiters[j]
         /\ \A c \in granted' :
              c \in holders \/ \E j \in 1 .. Len(waiters) : c = waiters[j]
<1>0. Cardinality(holders) \in Nat
  BY FS_CardinalityType
<1>1. CASE waiters = <<>>
  BY <1>0, <1>1 DEF Release
<1>2. CASE waiters # <<>>
  <2>1. /\ granted' = holders \union {Head(waiters)}
        /\ waiters' = Tail(waiters) /\ permits' = permits
    BY <1>2 DEF Release
  <2>2. /\ Len(waiters) \in Nat \ {0} /\ Head(waiters) = waiters[1]
        /\ Tail(waiters) \in Seq(Clients) /\ Len(Tail(waiters)) = Len(waiters) - 1
        /\ \A i \in 1 .. Len(waiters) - 1 : Tail(waiters)[i] = waiters[i + 1]
    BY <1>2, HeadTailProperties
  <2>3. waiters[1] \notin holders /\ waiters[1] \in Clients
    BY <2>2
  <2>4. /\ IsFiniteSet(granted') /\ granted' \subseteq Clients
        /\ Cardinality(granted') = Cardinality(holders) + 1
    <3>1. PICK h : h = waiters[1]
      OBVIOUS
    <3>2. h \notin holders /\ h \in Clients /\ granted' = holders \union {h}
      BY <2>1, <2>2, <2>3, <3>1
    <3>3. IsFiniteSet(holders \union {h})
      BY FS_AddElement
    <3>4. Cardinality(holders \union {h}) = Cardinality(holders) + 1
      BY <3>2, FS_AddElement
    <3> QED BY <3>2, <3>3, <3>4
  <2>5. ASSUME NEW i \in 1 .. Len(waiters')
        PROVE  /\ i + 1 \in 1 .. Len(waiters) /\ i + 1 # 1
               /\ waiters'[i] = waiters[i + 1]
    BY <2>1, <2>2
  <2>6. \A i \in 1 .. Len(waiters') :
          /\ waiters'[i] \notin granted'
          /\ \E j \in 1 .. Len(waiters) : waiters'[i] = waiters[j]
    BY <2>1, <2>2, <2>5
  <2>7. \A i, j \in 1 .. Len(waiters') : i # j => waiters'[i] # waiters'[j]
    BY <2>5
  <2>8. 1 \in 1 .. Len(waiters)
    BY <2>2
  <2>9. \A c \in granted' :
          c \in holders \/ \E j \in 1 .. Len(waiters) : c = waiters[j]
    BY <2>1, <2>2, <2>8
  <2> QED BY <1>0, <2>1, <2>2, <2>4, <2>6, <2>7, <2>9
<1> QED BY <1>1, <1>2

(* A step that gives permits to none and takes none from a waiter, and     *)
(* after which whoever had one or waited is where it was.                  *)
LEMMA QueueKept ==
  ASSUME TypeInv, QueueInv, UNCHANGED <<waiters, granted>>,
         \A c \in Clients : pc[c] = "permit" => pc'[c] = "permit"
  PROVE  QueueInv'
  BY DEF QueueInv

LEMMA QueueReleased ==
  ASSUME TypeInv, QueueInv, NEW holders \in SUBSET granted, Release(holders),
         \A c \in Clients :
           pc[c] = "permit" /\ (c \in granted => c \in holders) => pc'[c] = "permit"
  PROVE  /\ QueueInv' /\ permits' \in Nat
         /\ permits' + Cardinality(granted') = permits + Cardinality(holders) + 1
<1>1. IsFiniteSet(holders) /\ holders \subseteq Clients
  BY FS_Subset DEF QueueInv
<1>2. /\ permits \in Nat /\ waiters \in Seq(Clients)
      /\ \A i, j \in 1 .. Len(waiters) : i # j => waiters[i] # waiters[j]
      /\ \A i \in 1 .. Len(waiters) : waiters[i] \notin granted /\ pc[waiters[i]] = "permit"
                                        /\ waiters[i] \in Clients
      /\ \A c \in granted : pc[c] = "permit" /\ c \in Clients
  BY DEF QueueInv, TypeInv
<1>3. /\ permits' \in Nat
      /\ waiters' \in Seq(Clients)
      /\ granted' \subseteq Clients /\ IsFiniteSet(granted')
      /\ permits' + Cardinality(granted') = permits + Cardinality(holders) + 1
      /\ \A i, j \in 1 .. Len(waiters') : i # j => waiters'[i] # waiters'[j]
      /\ \A i \in 1 .. Len(waiters') :
           /\ waiters'[i] \notin granted'
           /\ \E j \in 1 .. Len(waiters) : waiters'[i] = waiters[j]
      /\ \A c \in granted' :
           c \in holders \/ \E j \in 1 .. Len(waiters) : c = waiters[j]
  BY <1>1, <1>2, ReleaseFacts
<1>4. \A c \in holders : pc'[c] = "permit"
  BY <1>1, <1>2
<1>5. \A j \in 1 .. Len(waiters) : pc'[waiters[j]] = "permit"
  BY <1>2
<1>6. QueueInv'
  <2>1. ASSUME NEW c \in granted' PROVE pc'[c] = "permit"
    <3>1. c \in holders \/ \E j \in 1 .. Len(waiters) : c = waiters[j]
      BY <1>3, Zenon
    <3> QED BY <1>4, <1>5, <3>1
  <2>2. ASSUME NEW i \in 1 .. Len(waiters') PROVE pc'[waiters'[i]] = "permit"
    <3>1. PICK j \in 1 .. Len(waiters) : waiters'[i] = waiters[j]
      BY <1>3, Zenon
    <3> QED BY <1>5, <3>1
  <2> QED BY <1>3, <2>1, <2>2, Zenon DEF QueueInv
<1> QED BY <1>3, <1>6, Zenon

-----------------------------------------------------------------------------
(* Permits on loan.                                                        *)

OnLoan(r, i) == pc[r] \notin Ended /\ i <= spawned[r] /\ i \notin joined[r]

LEMMA LentMember ==
  \A l : l \in Lent <=>
           \E r \in Rollouts, i \in Completions : l = <<r, i>> /\ OnLoan(r, i)
  BY DEF Lent, OnLoan

(* A step after which the same completions are on loan.                    *)
LEMMA LentKept ==
  ASSUME \A r \in Rollouts, i \in Completions : OnLoan(r, i)' <=> OnLoan(r, i)
  PROVE  Lent' = Lent
<1>1. \A l : l \in Lent' <=>
        \E r \in Rollouts, i \in Completions : l = <<r, i>> /\ OnLoan(r, i)'
  BY DEF Lent, OnLoan
<1> QED BY <1>1, LentMember

LEMMA CountKept ==
  ASSUME CountInv, Lent' = Lent, Verifying' = Verifying, UNCHANGED leaked,
         permits' + Cardinality(granted') = permits + Cardinality(granted),
         TypeInv, QueueInv, permits' \in Nat, Cardinality(granted') \in Nat
  PROVE  CountInv'
<1>1. /\ Cardinality(Lent) \in Nat /\ Cardinality(Verifying) \in Nat
      /\ Cardinality(granted) \in Nat
  BY FS_CardinalityType DEF CountInv, QueueInv
<1> QED BY <1>1 DEF CountInv, SlotsAccounted, TypeInv

LEMMA AcquireSlots ==
  ASSUME SlotInv, NEW c \in Clients, Acquire(c)
  PROVE  SlotInv'
<1>0. TypeInv /\ QueueInv /\ GroupInv /\ CountInv
  BY DEF SlotInv
<1>1. /\ pc[c] = "acquire" /\ pc' = [pc EXCEPT ![c] = "permit"]
      /\ UNCHANGED <<task, spawned, box, joined, results, leaked, sent, stats>>
  BY DEF Acquire
<1>2. pc'[c] = "permit" /\ \A d \in Clients : d # c => pc'[d] = pc[d]
  BY <1>0, <1>1 DEF TypeInv
<1>3. permits' \in Nat
  BY <1>0 DEF Acquire, TypeInv
<1>4. TypeInv'
  BY <1>0, <1>1, <1>3 DEF TypeInv, RolloutPlaces, VerifyPlaces, Clients
<1>5. c \notin granted /\ \A i \in 1 .. Len(waiters) : waiters[i] # c
  BY <1>0, <1>1 DEF QueueInv
<1>6. /\ QueueInv'
      /\ permits' + Cardinality(granted') = permits + Cardinality(granted)
  <2>1. CASE permits > 0 /\ permits' = permits - 1 /\ granted' = granted \union {c}
             /\ UNCHANGED waiters
    <3>1. /\ IsFiniteSet(granted') /\ Cardinality(granted') = Cardinality(granted) + 1
          /\ Cardinality(granted) \in Nat
      BY <1>0, <1>5, <2>1, FS_AddElement, FS_CardinalityType DEF QueueInv
    <3>2. QueueInv'
      BY <1>0, <1>2, <1>5, <2>1, <3>1 DEF QueueInv
    <3>3. permits \in Nat
      BY <1>0 DEF TypeInv
    <3>4. permits' + Cardinality(granted') = permits + Cardinality(granted)
      BY <2>1, <3>1, <3>3
    <3> QED BY <3>2, <3>4, Zenon
  <2>2. CASE waiters' = Append(waiters, c) /\ UNCHANGED <<permits, granted>>
    <3>1. waiters \in Seq(Clients) /\ Len(waiters) \in Nat
      BY <1>0 DEF QueueInv
    <3>2. /\ waiters' \in Seq(Clients) /\ Len(waiters') = Len(waiters) + 1
          /\ \A i \in 1 .. Len(waiters) : waiters'[i] = waiters[i]
          /\ waiters'[Len(waiters) + 1] = c
      BY <2>2, <3>1, AppendProperties
    <3>3. \A i \in 1 .. Len(waiters') :
            i \in 1 .. Len(waiters) \/ i = Len(waiters) + 1
      BY <3>1, <3>2
    <3>4. \A i, j \in 1 .. Len(waiters') : i # j => waiters'[i] # waiters'[j]
      BY <1>0, <1>5, <3>2, <3>3 DEF QueueInv
    <3>5. \A i \in 1 .. Len(waiters') :
            waiters'[i] \notin granted' /\ pc'[waiters'[i]] = "permit"
      <4> TAKE i \in 1 .. Len(waiters')
      <4>1. CASE i \in 1 .. Len(waiters)
        BY <1>0, <1>2, <2>2, <3>2, <4>1 DEF QueueInv
      <4>2. CASE i = Len(waiters) + 1
        BY <1>2, <1>5, <2>2, <3>2, <4>2
      <4> QED BY <3>3, <4>1, <4>2
    <3> QED BY <1>0, <1>2, <2>2, <3>2, <3>4, <3>5 DEF QueueInv
  <2> QED BY <2>1, <2>2 DEF Acquire
<1>7. GroupInv'
  BY <1>0, <1>1, <1>2 DEF GroupInv, Clients
<1>8. CountInv'
  <2>1. \A r \in Rollouts, i \in Completions : OnLoan(r, i)' <=> OnLoan(r, i)
    BY <1>1, <1>2 DEF OnLoan, Ended, Clients
  <2>2. Verifying' = Verifying
    BY <1>1, <1>2 DEF Verifying, Clients
  <2>3. Cardinality(granted') \in Nat
    BY <1>6, FS_CardinalityType DEF QueueInv
  <2> QED BY <1>0, <1>1, <1>3, <1>6, <2>1, <2>2, <2>3, LentKept, CountKept
<1> QED BY <1>4, <1>6, <1>7, <1>8 DEF SlotInv

(* The steps of a handler that leave the semaphore and the loans alone.    *)
LEMMA AsideSlots ==
  ASSUME SlotInv, NEW c \in Clients, TypeInv', GroupInv',
         UNCHANGED <<semaphore, leaked>>,
         \A d \in Clients : d # c => pc'[d] = pc[d],
         pc[c] = "permit" => pc'[c] = "permit",
         pc[c] = "verifying" <=> pc'[c] = "verifying",
         \A r \in Rollouts, i \in Completions : OnLoan(r, i)' <=> OnLoan(r, i)
  PROVE  SlotInv'
<1>0. TypeInv /\ QueueInv /\ GroupInv /\ CountInv
  BY DEF SlotInv
<1>1. UNCHANGED <<permits, waiters, granted, leaked>>
  BY DEF semaphore
<1>2. QueueInv'
  BY <1>0, <1>1, QueueKept
<1>3. Verifying' = Verifying
  BY DEF Verifying, Clients
<1>4. Cardinality(granted') \in Nat /\ permits' \in Nat
  BY <1>0, <1>1, FS_CardinalityType DEF QueueInv, TypeInv
<1>5. CountInv'
  BY <1>0, <1>1, <1>3, <1>4, LentKept, CountKept
<1> QED BY <1>2, <1>5 DEF SlotInv

LEMMA CallModelSlots ==
  ASSUME SlotInv, NEW r \in Rollouts, CallModel(r)
  PROVE  SlotInv'
<1>0. TypeInv /\ GroupInv
  BY DEF SlotInv
<1>1. r \in Clients /\ GroupSize \in Nat \ {0}
  BY ServerAssumption DEF Clients
<1>2. /\ pc[r] = "model" /\ pc' = [pc EXCEPT ![r] = "acquire"]
      /\ spawned' = [spawned EXCEPT ![r] = 0]
      /\ box' = [box EXCEPT ![r] = NoBoxes]
      /\ joined' = [joined EXCEPT ![r] = {}]
      /\ results' = [results EXCEPT ![r] = <<>>]
      /\ UNCHANGED <<task, semaphore, leaked>>
  BY DEF CallModel
<1>3. pc'[r] = "acquire" /\ \A d \in Clients : d # r => pc'[d] = pc[d]
  BY <1>0, <1>1, <1>2 DEF TypeInv
<1>4. /\ spawned'[r] = 0 /\ joined'[r] = {}
      /\ \A d \in Clients : d # r => spawned'[d] = spawned[d] /\ joined'[d] = joined[d]
  BY <1>0, <1>1, <1>2 DEF TypeInv
<1>5. TypeInv'
  <2>1. box' \in [Clients -> [Completions -> Boxes]]
    <3>1. NoBoxes \in [Completions -> Boxes]
      BY DEF NoBoxes, Boxes
    <3> QED BY <1>0, <1>2, <3>1 DEF TypeInv
  <2>2. results' \in [Clients -> Seq(Nat \X Boxes)]
    <3>1. <<>> \in Seq(Nat \X Boxes)
      BY EmptySeq
    <3> QED BY <1>0, <1>2, <3>1 DEF TypeInv
  <2>3. /\ spawned' \in [Clients -> 0 .. GroupSize]
        /\ joined' \in [Clients -> SUBSET Completions]
    BY <1>0, <1>1, <1>2 DEF TypeInv
  <2>4. /\ DOMAIN pc' = Clients
        /\ \A q \in Rollouts : pc'[q] \in RolloutPlaces
        /\ \A v \in Verifies : pc'[v] \in VerifyPlaces
    BY <1>0, <1>1, <1>2, <1>3, ServerAssumption
       DEF TypeInv, RolloutPlaces, VerifyPlaces, Clients
  <2> QED BY <1>0, <1>2, <2>1, <2>2, <2>3, <2>4 DEF TypeInv, semaphore
<1>6. GroupInv'
  BY <1>0, <1>1, <1>3, <1>4, ServerAssumption DEF GroupInv, Clients
<1>7. \A q \in Rollouts, i \in Completions : OnLoan(q, i)' <=> OnLoan(q, i)
  <2> TAKE q \in Rollouts, i \in Completions
  <2>1. CASE q = r
    <3>1. joined[r] = 1 .. spawned[r] /\ spawned[r] \in Nat /\ i \in Nat /\ i >= 1
      BY <1>0, <1>1, <1>2 DEF GroupInv, TypeInv, Completions
    <3> QED BY <1>4, <2>1, <3>1 DEF OnLoan
  <2>2. CASE q # r
    BY <1>3, <1>4, <2>2 DEF OnLoan, Clients
  <2> QED BY <2>1, <2>2
<1> QED BY <1>1, <1>2, <1>3, <1>5, <1>6, <1>7, AsideSlots

LEMMA ModelFailsSlots ==
  ASSUME SlotInv, NEW r \in Rollouts, ModelFails(r)
  PROVE  SlotInv'
<1>0. TypeInv /\ GroupInv
  BY DEF SlotInv
<1>1. r \in Clients
  BY DEF Clients
<1>2. /\ pc[r] = "model" /\ pc' = [pc EXCEPT ![r] = "failed"]
      /\ UNCHANGED <<task, spawned, box, joined, results, semaphore, leaked>>
  BY DEF ModelFails
<1>3. pc'[r] = "failed" /\ \A d \in Clients : d # r => pc'[d] = pc[d]
  BY <1>0, <1>1, <1>2 DEF TypeInv
<1>4. TypeInv'
  BY <1>0, <1>1, <1>2, <1>3, ServerAssumption
     DEF TypeInv, RolloutPlaces, VerifyPlaces, Clients, semaphore
<1>5. GroupInv'
  BY <1>0, <1>1, <1>2, <1>3 DEF GroupInv, Clients
<1>6. \A q \in Rollouts, i \in Completions : OnLoan(q, i)' <=> OnLoan(q, i)
  <2> TAKE q \in Rollouts, i \in Completions
  <2>1. CASE q = r
    <3>1. joined[r] = 1 .. spawned[r] /\ spawned[r] \in Nat /\ i \in Nat /\ i >= 1
      BY <1>0, <1>1, <1>2 DEF GroupInv, TypeInv, Completions
    <3> QED BY <1>2, <1>3, <2>1, <3>1 DEF OnLoan, Ended
  <2>2. CASE q # r
    BY <1>2, <1>3, <2>2 DEF OnLoan, Clients
  <2> QED BY <2>1, <2>2
<1> QED BY <1>1, <1>2, <1>3, <1>4, <1>5, <1>6, AsideSlots

LEMMA ExitSlots ==
  ASSUME SlotInv, NEW c \in Clients, NEW i \in Completions, Exit(c, i)
  PROVE  SlotInv'
<1>0. TypeInv /\ GroupInv
  BY DEF SlotInv
<1>1. UNCHANGED <<pc, task, spawned, joined, results, semaphore, leaked>>
  BY DEF Exit
<1>2. PICK status \in Boxes : box' = [box EXCEPT ![c][i] = status]
  BY ServerAssumption DEF Exit, Boxes
<1>3. box' \in [Clients -> [Completions -> Boxes]]
  BY <1>0, <1>2 DEF TypeInv
<1>4. TypeInv'
  BY <1>0, <1>1, <1>3 DEF TypeInv, semaphore
<1>5. GroupInv'
  BY <1>0, <1>1 DEF GroupInv
<1>6. \A r \in Rollouts, j \in Completions : OnLoan(r, j)' <=> OnLoan(r, j)
  BY <1>1 DEF OnLoan
<1> QED BY <1>1, <1>4, <1>5, <1>6, AsideSlots

LEMMA FinishGroupSlots ==
  ASSUME SlotInv, NEW r \in Rollouts, FinishGroup(r)
  PROVE  SlotInv'
<1>0. TypeInv /\ GroupInv
  BY DEF SlotInv
<1>1. r \in Clients /\ NTasks \in Nat \ {0} /\ GroupSize \in Nat \ {0}
  BY ServerAssumption DEF Clients
<1>2. /\ pc[r] = "join" /\ joined[r] = Completions
      /\ pc' = [pc EXCEPT ![r] = IF task[r] = NTasks THEN "replied" ELSE "model"]
      /\ task' = [task EXCEPT ![r] = IF task[r] = NTasks THEN @ ELSE @ + 1]
      /\ UNCHANGED <<spawned, box, joined, results, semaphore, leaked>>
  BY DEF FinishGroup
<1>3. /\ pc'[r] = IF task[r] = NTasks THEN "replied" ELSE "model"
      /\ \A d \in Clients : d # r => pc'[d] = pc[d]
  BY <1>0, <1>1, <1>2 DEF TypeInv
<1>4. task' \in [Clients -> 1 .. NTasks]
  <2>1. task[r] \in 1 .. NTasks
    BY <1>0, <1>1 DEF TypeInv
  <2>2. (IF task[r] = NTasks THEN task[r] ELSE task[r] + 1) \in 1 .. NTasks
    BY <1>1, <2>1
  <2> QED BY <1>0, <1>2, <2>2 DEF TypeInv
<1>5. TypeInv'
  <2>1. /\ DOMAIN pc' = Clients
        /\ \A q \in Rollouts : pc'[q] \in RolloutPlaces
        /\ \A v \in Verifies : pc'[v] \in VerifyPlaces
    BY <1>0, <1>1, <1>2, <1>3, ServerAssumption
       DEF TypeInv, RolloutPlaces, VerifyPlaces, Clients
  <2> QED BY <1>0, <1>2, <1>4, <2>1 DEF TypeInv, semaphore
<1>6. spawned[r] = GroupSize
  BY <1>0, <1>2 DEF GroupInv
<1>7. GroupInv'
  BY <1>0, <1>1, <1>2, <1>3, <1>6 DEF GroupInv, Clients, Completions
<1>8. \A q \in Rollouts, i \in Completions : OnLoan(q, i)' <=> OnLoan(q, i)
  BY <1>2, <1>3 DEF OnLoan, Clients
<1> QED BY <1>1, <1>2, <1>3, <1>5, <1>7, <1>8, AsideSlots

(* Taking and giving back permits.                                         *)
LEMMA SpawnSlots ==
  ASSUME SlotInv, NEW r \in Rollouts, Spawn(r)
  PROVE  SlotInv'
<1>0. TypeInv /\ QueueInv /\ GroupInv /\ CountInv
  BY DEF SlotInv
<1>1. r \in Clients /\ GroupSize \in Nat \ {0}
  BY ServerAssumption DEF Clients
<1>2. /\ pc[r] = "permit" /\ r \in granted
      /\ spawned' = [spawned EXCEPT ![r] = @ + 1]
      /\ box' = [box EXCEPT ![r][spawned[r] + 1] = "running"]
      /\ pc' = [pc EXCEPT ![r] = IF spawned[r] + 1 = GroupSize THEN "join" ELSE "acquire"]
      /\ granted' = granted \ {r}
      /\ UNCHANGED <<task, joined, results, permits, waiters, leaked>>
  BY DEF Spawn, HandOver
<1>3. /\ pc'[r] = IF spawned[r] + 1 = GroupSize THEN "join" ELSE "acquire"
      /\ \A d \in Clients : d # r => pc'[d] = pc[d]
  BY <1>0, <1>1, <1>2 DEF TypeInv
<1>4. spawned[r] \in Nat /\ spawned[r] < GroupSize /\ joined[r] = {}
  BY <1>0, <1>1, <1>2 DEF TypeInv, GroupInv
<1>5. /\ spawned'[r] = spawned[r] + 1
      /\ \A d \in Clients : d # r => spawned'[d] = spawned[d]
      /\ spawned' \in [Clients -> 0 .. GroupSize]
  BY <1>0, <1>1, <1>2, <1>4 DEF TypeInv
<1>6. TypeInv'
  <2>1. box' \in [Clients -> [Completions -> Boxes]]
    BY <1>0, <1>2 DEF TypeInv, Boxes
  <2>2. /\ DOMAIN pc' = Clients
        /\ \A q \in Rollouts : pc'[q] \in RolloutPlaces
        /\ \A v \in Verifies : pc'[v] \in VerifyPlaces
    BY <1>0, <1>1, <1>2, <1>3, ServerAssumption
       DEF TypeInv, RolloutPlaces, VerifyPlaces, Clients
  <2> QED BY <1>0, <1>2, <1>5, <2>1, <2>2 DEF TypeInv
<1>7. /\ IsFiniteSet(granted') /\ Cardinality(granted') = Cardinality(granted) - 1
      /\ Cardinality(granted) \in Nat
  BY <1>0, <1>2, FS_RemoveElement, FS_CardinalityType DEF QueueInv
<1>8. QueueInv'
  BY <1>0, <1>2, <1>3, <1>7 DEF QueueInv
<1>9. GroupInv'
  <2>1. spawned[r] + 1 = GroupSize \/ spawned[r] + 1 < GroupSize
    BY <1>1, <1>4
  <2>2. ASSUME NEW q \in Rollouts, q # r
        PROVE  /\ spawned'[q] = spawned[q] /\ joined'[q] = joined[q] /\ pc'[q] = pc[q]
    BY <1>2, <1>3, <1>5, <2>2 DEF Clients
  <2>3. \A v \in Verifies : spawned'[v] = spawned[v]
    BY <1>5, ServerAssumption DEF Clients
  <2>4. /\ joined'[r] = {} /\ pc'[r] \in {"join", "acquire"}
        /\ pc'[r] = "join" <=> spawned[r] + 1 = GroupSize
    BY <1>2, <1>3, <1>4
  <2> QED BY <1>0, <1>5, <2>1, <2>2, <2>3, <2>4 DEF GroupInv
<1>10. Lent' = Lent \union {<<r, spawned[r] + 1>>} /\ <<r, spawned[r] + 1>> \notin Lent
  <2>1. spawned[r] + 1 \in Completions
    BY <1>1, <1>4 DEF Completions
  <2>2. \A q \in Rollouts, i \in Completions :
          OnLoan(q, i)' <=> (OnLoan(q, i) \/ (q = r /\ i = spawned[r] + 1))
    <3> TAKE q \in Rollouts, i \in Completions
    <3>1. CASE q = r
      <4>1. pc[r] \notin Ended /\ pc'[r] \notin Ended /\ i \in Nat /\ joined'[r] = {}
        BY <1>2, <1>3, <1>4 DEF Ended, Completions
      <4> QED BY <1>4, <1>5, <3>1, <4>1 DEF OnLoan
    <3>2. CASE q # r
      BY <1>2, <1>3, <1>5, <3>2 DEF OnLoan, Clients
    <3> QED BY <3>1, <3>2
  <2>3. \A l : l \in Lent' <=>
          \E q \in Rollouts, i \in Completions : l = <<q, i>> /\ OnLoan(q, i)'
    BY DEF Lent, OnLoan
  <2>4. <<r, spawned[r] + 1>> \notin Lent
    BY <1>4 DEF Lent
  <2> QED BY <2>1, <2>2, <2>3, <2>4, LentMember
<1>11. CountInv'
  <2>1. /\ IsFiniteSet(Lent') /\ Cardinality(Lent') = Cardinality(Lent) + 1
        /\ Cardinality(Lent) \in Nat
    BY <1>0, <1>10, FS_AddElement, FS_CardinalityType DEF CountInv
  <2>2. Verifying' = Verifying
    BY <1>2, <1>3, ServerAssumption DEF Verifying, Clients
  <2>3. Cardinality(Verifying) \in Nat /\ permits \in Nat /\ leaked \in Nat
    BY <1>0, FS_CardinalityType DEF CountInv, TypeInv
  <2> QED BY <1>0, <1>2, <1>7, <2>1, <2>2, <2>3 DEF CountInv, SlotsAccounted
<1> QED BY <1>6, <1>8, <1>9, <1>11 DEF SlotInv

LEMMA JoinSlots ==
  ASSUME SlotInv, NEW r \in Rollouts, NEW i \in Completions, Join(r, i)
  PROVE  SlotInv'
<1>0. TypeInv /\ QueueInv /\ GroupInv /\ CountInv
  BY DEF SlotInv
<1>1. r \in Clients /\ GroupSize \in Nat \ {0}
  BY ServerAssumption DEF Clients
<1>2. /\ pc[r] = "join" /\ i \in 1 .. spawned[r] /\ i \notin joined[r]
      /\ joined' = [joined EXCEPT ![r] = @ \union {i}]
      /\ UNCHANGED <<pc, task, spawned, box, leaked>>
      /\ Release(granted)
  BY DEF Join, TakeResult, ToJoin
<1>3. /\ joined'[r] = joined[r] \union {i}
      /\ \A d \in Clients : d # r => joined'[d] = joined[d]
      /\ joined' \in [Clients -> SUBSET Completions]
  BY <1>0, <1>1, <1>2 DEF TypeInv
<1>4. QueueInv' /\ permits' \in Nat
      /\ permits' + Cardinality(granted') = permits + Cardinality(granted) + 1
  BY <1>0, <1>2, QueueReleased
<1>5. results' \in [Clients -> Seq(Nat \X Boxes)]
  <2>1. results[r] \in Seq(Nat \X Boxes) /\ Len(results[r]) + 1 \in Nat
    BY <1>0, <1>1 DEF TypeInv
  <2>2. PICK e : e = IF box[r][i] = "panic" THEN <<Len(results[r]) + 1, "SetupError">>
                                            ELSE <<i, box[r][i]>>
    OBVIOUS
  <2>3. results' = [results EXCEPT ![r] = Append(@, e)]
    BY <2>2 DEF Join, TakeResult
  <2>4. e \in Nat \X Boxes
    <3>1. box[r][i] \in Boxes /\ "SetupError" \in Boxes /\ i \in Nat
      BY <1>0, <1>1 DEF TypeInv, Completions, Boxes, Statuses
    <3> QED BY <2>1, <2>2, <3>1
  <2>5. Append(results[r], e) \in Seq(Nat \X Boxes)
    BY <2>1, <2>4
  <2> QED BY <1>0, <2>3, <2>5 DEF TypeInv
<1>6. TypeInv'
  BY <1>0, <1>2, <1>3, <1>4, <1>5 DEF TypeInv
<1>7. GroupInv'
  BY <1>0, <1>1, <1>2, <1>3, ServerAssumption DEF GroupInv, Clients
<1>8. Lent' = Lent \ {<<r, i>>} /\ <<r, i>> \in Lent
  <2>1. \A q \in Rollouts, j \in Completions :
          OnLoan(q, j)' <=> (OnLoan(q, j) /\ ~(q = r /\ j = i))
    BY <1>2, <1>3 DEF OnLoan, Clients
  <2>2. \A l : l \in Lent' <=>
          \E q \in Rollouts, j \in Completions : l = <<q, j>> /\ OnLoan(q, j)'
    BY DEF Lent, OnLoan
  <2>3. OnLoan(r, i)
    BY <1>0, <1>1, <1>2 DEF OnLoan, Ended, TypeInv
  <2> QED BY <2>1, <2>2, <2>3, LentMember
<1>9. CountInv'
  <2>1. /\ IsFiniteSet(Lent') /\ Cardinality(Lent') = Cardinality(Lent) - 1
        /\ Cardinality(Lent) \in Nat
    BY <1>0, <1>8, FS_RemoveElement, FS_CardinalityType DEF CountInv
  <2>2. Verifying' = Verifying
    BY <1>2 DEF Verifying
  <2>3. /\ Cardinality(Verifying) \in Nat /\ permits \in Nat /\ leaked \in Nat
        /\ Cardinality(granted) \in Nat /\ Cardinality(granted') \in Nat
    BY <1>0, <1>4, FS_CardinalityType DEF CountInv, TypeInv, QueueInv
  <2> QED BY <1>0, <1>2, <1>4, <2>1, <2>2, <2>3 DEF CountInv, SlotsAccounted
<1> QED BY <1>4, <1>6, <1>7, <1>9 DEF SlotInv

LEMMA BeginVerifySlots ==
  ASSUME SlotInv, NEW v \in Verifies, BeginVerify(v)
  PROVE  SlotInv'
<1>0. TypeInv /\ QueueInv /\ GroupInv /\ CountInv
  BY DEF SlotInv
<1>1. v \in Clients /\ v \notin Rollouts
  BY ServerAssumption DEF Clients
<1>2. /\ pc[v] = "permit" /\ v \in granted
      /\ granted' = granted \ {v}
      /\ box' = [box EXCEPT ![v][1] = "running"]
      /\ pc' = [pc EXCEPT ![v] = "verifying"]
      /\ UNCHANGED <<task, spawned, joined, results, permits, waiters, leaked>>
  BY DEF BeginVerify
<1>3. pc'[v] = "verifying" /\ \A d \in Clients : d # v => pc'[d] = pc[d]
  BY <1>0, <1>1, <1>2 DEF TypeInv
<1>4. TypeInv'
  <2>1. box' \in [Clients -> [Completions -> Boxes]]
    BY <1>0, <1>2 DEF TypeInv, Boxes
  <2>2. /\ DOMAIN pc' = Clients
        /\ \A q \in Rollouts : pc'[q] \in RolloutPlaces
        /\ \A w \in Verifies : pc'[w] \in VerifyPlaces
    BY <1>0, <1>1, <1>2, <1>3 DEF TypeInv, RolloutPlaces, VerifyPlaces, Clients
  <2> QED BY <1>0, <1>2, <2>1, <2>2 DEF TypeInv
<1>5. /\ IsFiniteSet(granted') /\ Cardinality(granted') = Cardinality(granted) - 1
      /\ Cardinality(granted) \in Nat
  BY <1>0, <1>2, FS_RemoveElement, FS_CardinalityType DEF QueueInv
<1>6. QueueInv'
  BY <1>0, <1>2, <1>3, <1>5 DEF QueueInv
<1>7. GroupInv'
  BY <1>0, <1>1, <1>2, <1>3 DEF GroupInv, Clients
<1>8. Lent' = Lent
  <2>1. \A q \in Rollouts, j \in Completions : OnLoan(q, j)' <=> OnLoan(q, j)
    BY <1>1, <1>2, <1>3 DEF OnLoan, Clients
  <2> QED BY <2>1, LentKept
<1>9. /\ IsFiniteSet(Verifying') /\ Cardinality(Verifying') = Cardinality(Verifying) + 1
      /\ Cardinality(Verifying) \in Nat
  <2>1. Verifying' = Verifying \union {v} /\ v \notin Verifying
    BY <1>1, <1>2, <1>3 DEF Verifying, Clients
  <2> QED BY <1>0, <2>1, FS_AddElement, FS_CardinalityType DEF CountInv
<1>10. CountInv'
  <2>1. Cardinality(Lent) \in Nat /\ permits \in Nat /\ leaked \in Nat
    BY <1>0, FS_CardinalityType DEF CountInv, TypeInv
  <2> QED BY <1>0, <1>2, <1>5, <1>8, <1>9, <2>1 DEF CountInv, SlotsAccounted
<1> QED BY <1>4, <1>6, <1>7, <1>10 DEF SlotInv

LEMMA FinishVerifySlots ==
  ASSUME SlotInv, NEW v \in Verifies, FinishVerify(v)
  PROVE  SlotInv'
<1>0. TypeInv /\ QueueInv /\ GroupInv /\ CountInv
  BY DEF SlotInv
<1>1. v \in Clients /\ v \notin Rollouts
  BY ServerAssumption DEF Clients
<1>2. /\ pc[v] = "verifying" /\ Release(granted)
      /\ pc' = [pc EXCEPT ![v] = "replied"]
      /\ UNCHANGED <<task, spawned, box, joined, results, leaked>>
  BY DEF FinishVerify
<1>3. pc'[v] = "replied" /\ \A d \in Clients : d # v => pc'[d] = pc[d]
  BY <1>0, <1>1, <1>2 DEF TypeInv
<1>4. QueueInv' /\ permits' \in Nat
      /\ permits' + Cardinality(granted') = permits + Cardinality(granted) + 1
  BY <1>0, <1>2, <1>3, QueueReleased
<1>5. TypeInv'
  <2>2. /\ DOMAIN pc' = Clients
        /\ \A q \in Rollouts : pc'[q] \in RolloutPlaces
        /\ \A w \in Verifies : pc'[w] \in VerifyPlaces
    BY <1>0, <1>1, <1>2, <1>3 DEF TypeInv, RolloutPlaces, VerifyPlaces, Clients
  <2> QED BY <1>0, <1>2, <1>4, <2>2 DEF TypeInv
<1>6. GroupInv'
  BY <1>0, <1>1, <1>2, <1>3 DEF GroupInv, Clients
<1>7. Lent' = Lent
  <2>1. \A q \in Rollouts, j \in Completions : OnLoan(q, j)' <=> OnLoan(q, j)
    BY <1>1, <1>2, <1>3 DEF OnLoan, Clients
  <2> QED BY <2>1, LentKept
<1>8. /\ IsFiniteSet(Verifying') /\ Cardinality(Verifying') = Cardinality(Verifying) - 1
      /\ Cardinality(Verifying) \in Nat
  <2>1. Verifying' = Verifying \ {v} /\ v \in Verifying
    BY <1>1, <1>2, <1>3 DEF Verifying, Clients
  <2> QED BY <1>0, <2>1, FS_RemoveElement, FS_CardinalityType DEF CountInv
<1>9. CountInv'
  <2>1. /\ Cardinality(Lent) \in Nat /\ permits \in Nat /\ leaked \in Nat
        /\ Cardinality(granted) \in Nat /\ Cardinality(granted') \in Nat
    BY <1>0, <1>4, FS_CardinalityType DEF CountInv, TypeInv, QueueInv
  <2> QED BY <1>0, <1>2, <1>4, <1>7, <1>8, <2>1 DEF CountInv, SlotsAccounted
<1> QED BY <1>4, <1>5, <1>6, <1>9 DEF SlotInv

(* A waiter that goes away leaves the others in their order.               *)
LEMMA QueueLeft ==
  ASSUME TypeInv, QueueInv, NEW c \in Clients, c \notin granted,
         \/ \E i \in DOMAIN waiters : waiters[i] = c /\ waiters' = RemoveAt(waiters, i)
         \/ c \notin ToSet(waiters) /\ UNCHANGED waiters,
         UNCHANGED granted,
         \A d \in Clients : d # c => pc'[d] = pc[d]
  PROVE  QueueInv'
<1>1. /\ waiters \in Seq(Clients) /\ Len(waiters) \in Nat /\ DOMAIN waiters = 1 .. Len(waiters)
      /\ \A i, j \in 1 .. Len(waiters) : i # j => waiters[i] # waiters[j]
      /\ \A i \in 1 .. Len(waiters) :
            waiters[i] \in Clients /\ waiters[i] \notin granted /\ pc[waiters[i]] = "permit"
      /\ \A d \in granted : d \in Clients /\ pc[d] = "permit"
  BY DEF QueueInv
<1>2. \A d \in granted' : pc'[d] = "permit"
  BY <1>1
<1>3. CASE \E i \in DOMAIN waiters : waiters[i] = c /\ waiters' = RemoveAt(waiters, i)
  <2>1. PICK i \in 1 .. Len(waiters) : waiters[i] = c /\ waiters' = RemoveAt(waiters, i)
    BY <1>1, <1>3
  <2>2. /\ waiters' \in Seq(Clients) /\ Len(waiters') = Len(waiters) - 1
        /\ \A j \in 1 .. Len(waiters) - 1 :
              waiters'[j] = IF j < i THEN waiters[j] ELSE waiters[j + 1]
    BY <1>1, <2>1, RemoveAtFacts
  <2>3. ASSUME NEW j \in 1 .. Len(waiters')
        PROVE  \E k \in 1 .. Len(waiters) :
                 /\ k # i /\ waiters'[j] = waiters[k]
                 /\ k = IF j < i THEN j ELSE j + 1
    <3>1. j \in 1 .. Len(waiters) /\ j + 1 \in 1 .. Len(waiters)
      BY <1>1, <2>2
    <3>2. (j < i => j # i) /\ (~(j < i) => j + 1 # i)
      BY <1>1, <2>2
    <3> QED BY <2>2, <3>1, <3>2
  <2>4. \A j \in 1 .. Len(waiters') :
          waiters'[j] \notin granted' /\ pc'[waiters'[j]] = "permit"
    BY <1>1, <2>1, <2>3
  <2>5. ASSUME NEW j \in 1 .. Len(waiters'), NEW l \in 1 .. Len(waiters'), j # l
        PROVE  waiters'[j] # waiters'[l]
    <3>1. PICK k \in 1 .. Len(waiters) :
            waiters'[j] = waiters[k] /\ k = IF j < i THEN j ELSE j + 1
      BY <2>3
    <3>2. PICK m \in 1 .. Len(waiters) :
            waiters'[l] = waiters[m] /\ m = IF l < i THEN l ELSE l + 1
      BY <2>3
    <3>3. k # m
      BY <1>1, <2>2, <2>5, <3>1, <3>2
    <3> QED BY <1>1, <3>1, <3>2, <3>3
  <2> QED BY <1>2, <2>2, <2>4, <2>5 DEF QueueInv
<1>4. CASE c \notin ToSet(waiters) /\ UNCHANGED waiters
  <2>1. \A i \in 1 .. Len(waiters) : waiters[i] # c
    BY <1>1, <1>4 DEF ToSet
  <2> QED BY <1>1, <1>2, <1>4, <2>1 DEF QueueInv
<1> QED BY <1>3, <1>4

LEMMA DisconnectSlots ==
  ASSUME SlotInv, NEW c \in Clients, Disconnect(c)
  PROVE  SlotInv'
<1>0. TypeInv /\ QueueInv /\ GroupInv /\ CountInv
  BY DEF SlotInv
<1>1. /\ pc[c] \notin Ended /\ pc' = [pc EXCEPT ![c] = "gone"]
      /\ leaked' = leaked + Cardinality((1 .. spawned[c]) \ joined[c])
      /\ UNCHANGED <<task, spawned, joined, results>>
  BY DEF Disconnect
<1>2. pc'[c] = "gone" /\ \A d \in Clients : d # c => pc'[d] = pc[d]
  BY <1>0, <1>1 DEF TypeInv
<1>3. /\ QueueInv' /\ permits' \in Nat
      /\ permits' + Cardinality(granted')
           = permits + Cardinality(granted) + (IF pc[c] = "verifying" THEN 1 ELSE 0)
  <2>0. Cardinality(granted) \in Nat /\ permits \in Nat
    BY <1>0, FS_CardinalityType DEF QueueInv, TypeInv
  <2>1. CASE c \in granted \/ pc[c] = "verifying"
    <3>1. Release(granted \ {c})
      BY <2>1 DEF Disconnect
    <3>2. /\ IsFiniteSet(granted \ {c})
          /\ Cardinality(granted \ {c})
               = IF c \in granted THEN Cardinality(granted) - 1 ELSE Cardinality(granted)
      BY <1>0, FS_RemoveElement DEF QueueInv
    <3>3. \A d \in Clients : pc[d] = "permit" /\ (d \in granted => d \in granted \ {c})
                               => d # c
      BY <2>1
    <3>4. /\ QueueInv' /\ permits' \in Nat
          /\ permits' + Cardinality(granted') = permits + Cardinality(granted \ {c}) + 1
      <4>1. granted \ {c} \in SUBSET granted
        OBVIOUS
      <4> QED BY <1>0, <1>2, <3>1, <3>3, <4>1, QueueReleased
    <3>5. c \in granted <=> pc[c] # "verifying"
      BY <1>0, <2>1 DEF QueueInv
    <3> QED BY <2>0, <3>2, <3>4, <3>5
  <2>2. CASE ~(c \in granted \/ pc[c] = "verifying")
    <3>1. /\ \/ \E i \in DOMAIN waiters : waiters[i] = c /\ waiters' = RemoveAt(waiters, i)
             \/ c \notin ToSet(waiters) /\ UNCHANGED waiters
          /\ UNCHANGED <<permits, granted>>
      BY <2>2 DEF Disconnect
    <3>2. QueueInv'
      BY <1>0, <1>2, <2>2, <3>1, QueueLeft
    <3> QED BY <2>0, <2>2, <3>1, <3>2
  <2> QED BY <2>1, <2>2
<1>4. /\ (1 .. spawned[c]) \ joined[c] \subseteq Completions
      /\ IsFiniteSet((1 .. spawned[c]) \ joined[c])
      /\ Cardinality((1 .. spawned[c]) \ joined[c]) \in Nat
  <2>1. spawned[c] \in 0 .. GroupSize
    BY <1>0 DEF TypeInv
  <2>2. IsFiniteSet(1 .. spawned[c])
    <3>1. spawned[c] \in Nat
      BY <2>1
    <3> QED BY <3>1, UpTo, Zenon
  <2>3. IsFiniteSet((1 .. spawned[c]) \ joined[c])
    BY <2>2, FS_Difference
  <2> QED BY <2>1, <2>3, FS_CardinalityType, ServerAssumption DEF Completions
<1>5. TypeInv'
  <2>1. box' \in [Clients -> [Completions -> Boxes]]
    <3>1. box[c] \in [Completions -> Boxes]
      BY <1>0 DEF TypeInv
    <3>2. [i \in Completions |-> IF box[c][i] = "running" THEN "orphan" ELSE box[c][i]]
            \in [Completions -> Boxes]
      BY <3>1 DEF Boxes
    <3>3. box' = [box EXCEPT ![c] =
            [i \in Completions |-> IF box[c][i] = "running" THEN "orphan" ELSE box[c][i]]]
      BY DEF Disconnect
    <3> QED BY <1>0, <3>2, <3>3 DEF TypeInv
  <2>2. /\ DOMAIN pc' = Clients
        /\ \A q \in Rollouts : pc'[q] \in RolloutPlaces
        /\ \A v \in Verifies : pc'[v] \in VerifyPlaces
    BY <1>0, <1>1, <1>2 DEF TypeInv, RolloutPlaces, VerifyPlaces, Clients
  <2>3. leaked' \in Nat
    BY <1>0, <1>1, <1>4 DEF TypeInv
  <2> QED BY <1>0, <1>1, <1>3, <2>1, <2>2, <2>3 DEF TypeInv
<1>6. GroupInv'
  BY <1>0, <1>1, <1>2 DEF GroupInv, Clients
<1>7. /\ IsFiniteSet(Lent')
      /\ Cardinality(Lent) = Cardinality(Lent') + Cardinality((1 .. spawned[c]) \ joined[c])
  <2>1. CASE c \in Rollouts
    <3> DEFINE lost == {c} \X ((1 .. spawned[c]) \ joined[c])
    <3>1. Lent = Lent' \union lost /\ Lent' \intersect lost = {}
      <4>1. \A q \in Rollouts, j \in Completions :
              OnLoan(q, j)' <=> (OnLoan(q, j) /\ q # c)
        BY <1>1, <1>2 DEF OnLoan, Ended, Clients
      <4>2. \A l : l \in Lent' <=>
              \E q \in Rollouts, j \in Completions : l = <<q, j>> /\ OnLoan(q, j)'
        BY DEF Lent, OnLoan
      <4>3. \A l : l \in lost <=> \E j \in Completions : l = <<c, j>> /\ OnLoan(c, j)
        <5>1. \A j : j \in (1 .. spawned[c]) \ joined[c]
                       <=> j \in Completions /\ OnLoan(c, j)
          BY <1>0, <1>1, <1>4 DEF OnLoan, TypeInv, Completions
        <5>2. \A l : l \in lost
                       <=> \E j \in (1 .. spawned[c]) \ joined[c] : l = <<c, j>>
          OBVIOUS
        <5> HIDE DEF lost
        <5> QED BY <5>1, <5>2
      <4> HIDE DEF lost
      <4>4. ASSUME NEW l PROVE l \in Lent <=> l \in Lent' \union lost
        BY <2>1, <4>1, <4>2, <4>3, LentMember
      <4>5. ASSUME NEW l \in lost, l \in Lent' PROVE FALSE
        <5>1. PICK j : l = <<c, j>>
          BY <4>3
        <5>2. PICK q, k : l = <<q, k>> /\ q # c
          BY <4>1, <4>2, <4>5
        <5> QED BY <5>1, <5>2
      <4> QED BY <4>4, <4>5
    <3>2. /\ IsFiniteSet(lost)
          /\ Cardinality(lost) = Cardinality((1 .. spawned[c]) \ joined[c])
      BY <1>4, CardinalityOfLine
    <3> HIDE DEF lost
    <3>3. IsFiniteSet(Lent')
      BY <1>0, <3>1, FS_Subset DEF CountInv
    <3>4. Cardinality(Lent' \union lost) = Cardinality(Lent') + Cardinality(lost)
      BY <3>1, <3>2, <3>3, DisjointUnion
    <3> QED BY <3>1, <3>2, <3>3, <3>4
  <2>2. CASE c \notin Rollouts
    <3>1. c \in Verifies
      BY <2>2 DEF Clients
    <3>2. (1 .. spawned[c]) \ joined[c] = {}
      BY <1>0, <3>1 DEF GroupInv
    <3>3. \A q \in Rollouts, j \in Completions : OnLoan(q, j)' <=> OnLoan(q, j)
      BY <1>1, <1>2, <2>2 DEF OnLoan, Clients
    <3>4. Lent' = Lent
      BY <3>3, LentKept
    <3>5. Cardinality((1 .. spawned[c]) \ joined[c]) = 0
      BY <3>2, FS_EmptySet
    <3>6. Cardinality(Lent) \in Nat /\ IsFiniteSet(Lent)
      BY <1>0, FS_CardinalityType DEF CountInv
    <3> QED BY <3>4, <3>5, <3>6
  <2> QED BY <2>1, <2>2
<1>8. /\ IsFiniteSet(Verifying')
      /\ Cardinality(Verifying)
           = Cardinality(Verifying') + (IF pc[c] = "verifying" THEN 1 ELSE 0)
  <2>1. Verifying' = Verifying \ {c}
    BY <1>2 DEF Verifying, Clients
  <2>2. c \in Verifying <=> pc[c] = "verifying"
    BY <1>0 DEF Verifying, TypeInv, Clients, RolloutPlaces
  <2>3. /\ IsFiniteSet(Verifying \ {c}) /\ Cardinality(Verifying) \in Nat
        /\ Cardinality(Verifying \ {c})
             = IF c \in Verifying THEN Cardinality(Verifying) - 1 ELSE Cardinality(Verifying)
    BY <1>0, FS_RemoveElement, FS_CardinalityType DEF CountInv
  <2> QED BY <2>1, <2>2, <2>3
<1>9. CountInv'
  <2>1. /\ Cardinality(Lent') \in Nat /\ Cardinality(Verifying') \in Nat
        /\ Cardinality(granted) \in Nat /\ Cardinality(granted') \in Nat
        /\ permits \in Nat /\ leaked \in Nat
    BY <1>0, <1>3, <1>7, <1>8, FS_CardinalityType DEF QueueInv, TypeInv
  <2> QED BY <1>0, <1>1, <1>3, <1>4, <1>7, <1>8, <2>1 DEF CountInv, SlotsAccounted
<1> QED BY <1>3, <1>5, <1>6, <1>9 DEF SlotInv

-----------------------------------------------------------------------------
(* The slots are accounted for.                                            *)

LEMMA InitSlots == Init => SlotInv
<1> SUFFICES ASSUME Init PROVE SlotInv
  OBVIOUS
<1>1. GroupSize \in Nat \ {0} /\ NTasks \in Nat \ {0} /\ Permits \in Nat
  BY ServerAssumption
<1>2. <<>> \in Seq(Clients) /\ <<>> \in Seq(Nat \X Boxes) /\ Len(<<>>) = 0
  BY EmptySeq
<1>3. TypeInv
  <2>1. NoBoxes \in [Completions -> Boxes]
    BY DEF NoBoxes, Boxes
  <2>2. box \in [Clients -> [Completions -> Boxes]]
    BY <2>1 DEF Init
  <2> QED BY <1>1, <1>2, <2>2, ServerAssumption
          DEF Init, TypeInv, Clients, RolloutPlaces, VerifyPlaces
<1>4. QueueInv
  BY <1>2, FS_EmptySet DEF Init, QueueInv
<1>5. GroupInv
  BY ServerAssumption DEF Init, GroupInv, Clients
<1>6. Lent = {}
  BY DEF Init, Lent, Clients, Completions
<1>7. Verifying = {}
  BY DEF Init, Verifying, Clients
<1>8. CountInv
  BY <1>1, <1>6, <1>7, FS_EmptySet DEF Init, CountInv, SlotsAccounted
<1> QED BY <1>3, <1>4, <1>5, <1>8 DEF SlotInv

LEMMA NextSlots == SlotInv /\ [Next]_vars => SlotInv'
<1> SUFFICES ASSUME SlotInv, [Next]_vars PROVE SlotInv'
  OBVIOUS
<1> USE DEF Clients
<1>1. CASE UNCHANGED vars
  BY <1>1 DEF vars, semaphore, SlotInv, TypeInv, QueueInv, GroupInv, CountInv, Lent,
              Verifying, SlotsAccounted
<1>2. ASSUME NEW r \in Rollouts, RolloutStep(r) PROVE SlotInv'
  BY <1>2, CallModelSlots, ModelFailsSlots, AcquireSlots, SpawnSlots, JoinSlots,
     FinishGroupSlots DEF RolloutStep, ModelAnswers, HandlerStep
<1>3. ASSUME NEW v \in Verifies, VerifyStep(v) PROVE SlotInv'
  BY <1>3, AcquireSlots, BeginVerifySlots, FinishVerifySlots DEF VerifyStep
<1>4. ASSUME NEW c \in Clients, Exiting(c) PROVE SlotInv'
  BY <1>4, ExitSlots DEF Exiting
<1>5. ASSUME NEW c \in Clients, Disconnect(c) PROVE SlotInv'
  BY <1>5, DisconnectSlots
<1> QED BY <1>1, <1>2, <1>3, <1>4, <1>5 DEF Next, ConnectedNext

(* Whatever the number of requests, permits, tasks and completions: each   *)
(* permit is free, given to a handler, lent to a completion not joined yet,*)
(* held by a verify, or was lost with a client that went away.             *)
THEOREM SlotsAccountedHold == Spec => []SlotsAccounted
<1>1. SlotInv => SlotsAccounted
  BY DEF SlotInv, CountInv
<1> QED BY <1>1, InitSlots, NextSlots, PTL DEF Spec

-----------------------------------------------------------------------------
(* Boxes and results, one request at a time.                               *)

Own(c) == <<pc[c], task[c], spawned[c], box[c], joined[c], results[c], sent[c], stats[c]>>

LEMMA OthersStay ==
  ASSUME TypeInv, Answers, NEW c \in Clients,
         \/ c \in Rollouts /\ RolloutStep(c)
         \/ c \in Verifies /\ VerifyStep(c)
         \/ Exiting(c) \/ Disconnect(c)
  PROVE  Answers' /\ \A d \in Clients : d # c => Own(d)' = Own(d)
<1>0. /\ DOMAIN pc = Clients /\ DOMAIN task = Clients /\ DOMAIN spawned = Clients
      /\ DOMAIN box = Clients /\ DOMAIN joined = Clients /\ DOMAIN results = Clients
      /\ DOMAIN sent = Clients /\ DOMAIN stats = Clients
  BY DEF TypeInv, Answers
<1>1. CASE CallModel(c) \/ ModelFails(c) \/ Acquire(c) \/ Spawn(c)
  BY <1>0, <1>1 DEF CallModel, ModelFails, Acquire, Spawn, HandOver, Own, Answers
<1>2. ASSUME NEW i \in Completions, Join(c, i)
      PROVE  Answers' /\ \A d \in Clients : d # c => Own(d)' = Own(d)
  BY <1>0, <1>2 DEF Join, TakeResult, Own, Answers
<1>3. CASE FinishGroup(c)
  BY <1>0, <1>3 DEF FinishGroup, Own, Answers
<1>4. CASE BeginVerify(c)
  BY <1>0, <1>4 DEF BeginVerify, Own, Answers
<1>5. CASE FinishVerify(c)
  BY <1>0, <1>5 DEF FinishVerify, Own, Answers
<1>6. ASSUME NEW i \in Completions, Exit(c, i)
      PROVE  Answers' /\ \A d \in Clients : d # c => Own(d)' = Own(d)
  BY <1>0, <1>6 DEF Exit, Own, Answers
<1>7. CASE Disconnect(c)
  BY <1>0, <1>7 DEF Disconnect, Own, Answers
<1> QED BY <1>1, <1>2, <1>3, <1>4, <1>5, <1>6, <1>7 DEF RolloutStep, ModelAnswers, HandlerStep, VerifyStep, Exiting

LEMMA RolloutBoxesStep ==
  ASSUME SlotInv, NEW r \in Rollouts, RolloutBoxes(r),
         RolloutStep(r) \/ Exiting(r) \/ Disconnect(r)
  PROVE  RolloutBoxes(r)'
<1> USE DEF Clients
<1>0. /\ DOMAIN pc = Clients /\ DOMAIN box = Clients /\ DOMAIN joined = Clients
      /\ spawned \in [Clients -> 0 .. GroupSize] /\ joined[r] \subseteq Completions
      /\ box[r] \in [Completions -> Boxes] /\ DOMAIN spawned = Clients
  BY DEF TypeInv, SlotInv
<1>1. /\ joined[r] \subseteq 1 .. spawned[r]
      /\ pc[r] = "permit" => spawned[r] < GroupSize /\ joined[r] = {}
  BY DEF SlotInv, GroupInv
<1>2. CASE CallModel(r)
  <2>1. box'[r] = NoBoxes /\ joined'[r] = {} /\ spawned'[r] = 0 /\ pc'[r] = "acquire"
    BY <1>0, <1>2 DEF CallModel
  <2> QED BY <2>1 DEF RolloutBoxes, NoBoxes
<1>3. CASE ModelFails(r) \/ Disconnect(r)
  BY <1>0, <1>3 DEF ModelFails, Disconnect, RolloutBoxes, Live
<1>4. CASE Acquire(r)
  BY <1>0, <1>4 DEF Acquire, RolloutBoxes, Live
<1>5. CASE Spawn(r)
  <2>1. /\ pc[r] = "permit" /\ pc'[r] \in {"acquire", "join"}
        /\ joined'[r] = {} /\ spawned'[r] = spawned[r] + 1
        /\ box'[r] = [box[r] EXCEPT ![spawned[r] + 1] = "running"]
    BY <1>0, <1>1, <1>5 DEF Spawn, HandOver
  <2>2. Live(r) /\ spawned[r] \in Nat
    BY <1>0, <2>1 DEF Live
  <2>3. \A j \in Completions :
          box'[r][j] = IF j = spawned[r] + 1 THEN "running" ELSE box[r][j]
    BY <1>0, <2>1
  <2>4. \A j \in 1 .. spawned'[r] :
          j \in Completions /\ (j = spawned[r] + 1 \/ j \in 1 .. spawned[r])
    BY <1>0, <1>1, <2>1, <2>2, ServerAssumption DEF Completions
  <2>5. pc'[r] \notin {"model", "replied"}
    BY <2>1
  <2> QED BY <2>1, <2>2, <2>3, <2>4, <2>5 DEF RolloutBoxes
<1>6. ASSUME NEW i \in Completions, Exit(r, i) PROVE RolloutBoxes(r)'
  <2>1. PICK status \in IF r \in BadTimeouts THEN {"panic"} ELSE Exits :
          box' = [box EXCEPT ![r][i] = status]
    BY <1>6 DEF Exit
  <2>2. /\ box'[r] = [box[r] EXCEPT ![i] = status] /\ box[r][i] = "running"
        /\ UNCHANGED <<pc, spawned, joined>>
    BY <1>0, <1>6, <2>1 DEF Exit
  <2>3. status \in IF r \in BadTimeouts THEN {"panic"} ELSE Statuses
    BY <2>1, ServerAssumption
  <2>4. status \notin {"none", "running"}
    BY <2>3 DEF Statuses
  <2> QED BY <1>0, <2>2, <2>3, <2>4 DEF RolloutBoxes, Live
<1>7. ASSUME NEW i \in Completions, Join(r, i) PROVE RolloutBoxes(r)'
  <2>1. /\ joined'[r] = joined[r] \union {i} /\ i \in 1 .. spawned[r]
        /\ box[r][i] # "running" /\ pc[r] = "join" /\ UNCHANGED <<pc, spawned, box>>
    BY <1>0, <1>7 DEF Join, TakeResult, ToJoin
  <2> QED BY <2>1 DEF RolloutBoxes, Live
<1>8. CASE FinishGroup(r)
  <2>1. /\ joined[r] = Completions /\ UNCHANGED <<spawned, box, joined>>
        /\ pc[r] = "join"
    BY <1>8 DEF FinishGroup
  <2> QED BY <2>1 DEF RolloutBoxes, Live
<1> QED BY <1>2, <1>3, <1>4, <1>5, <1>6, <1>7, <1>8 DEF RolloutStep, ModelAnswers, HandlerStep, Exiting

LEMMA VerifyBoxStep ==
  ASSUME SlotInv, NEW v \in Verifies, VerifyBox(v),
         VerifyStep(v) \/ Exiting(v) \/ Disconnect(v)
  PROVE  VerifyBox(v)'
<1> USE DEF Clients
<1>0. /\ DOMAIN pc = Clients /\ DOMAIN box = Clients /\ box[v] \in [Completions -> Boxes]
      /\ 1 \in Completions /\ v \notin BadTimeouts
  BY ServerAssumption DEF TypeInv, SlotInv, Completions
<1>1. CASE Acquire(v)
  BY <1>0, <1>1 DEF Acquire, VerifyBox
<1>2. CASE BeginVerify(v)
  BY <1>0, <1>2 DEF BeginVerify, VerifyBox
<1>3. CASE FinishVerify(v)
  BY <1>0, <1>3 DEF FinishVerify, VerifyBox
<1>4. CASE Disconnect(v)
  BY <1>0, <1>4 DEF Disconnect, VerifyBox
<1>5. ASSUME NEW i \in Completions, Exit(v, i) PROVE VerifyBox(v)'
  <2>1. PICK status \in Statuses : box' = [box EXCEPT ![v][i] = status]
    BY <1>0, <1>5, ServerAssumption DEF Exit
  <2>2. box'[v] = [box[v] EXCEPT ![i] = status] /\ UNCHANGED pc
    BY <1>0, <1>5, <2>1 DEF Exit
  <2>3. status # "none"
    BY DEF Statuses
  <2> QED BY <1>0, <2>2, <2>3 DEF VerifyBox
<1> QED BY <1>1, <1>2, <1>3, <1>4, <1>5 DEF VerifyStep, Exiting

LEMMA RolloutResultsStep ==
  ASSUME SlotInv, NEW r \in Rollouts, RolloutBoxes(r), RolloutResults(r),
         RolloutStep(r) \/ Exiting(r) \/ Disconnect(r)
  PROVE  RolloutResults(r)'
<1> USE DEF Clients
<1>0. /\ DOMAIN pc = Clients /\ DOMAIN box = Clients /\ DOMAIN joined = Clients
      /\ DOMAIN results = Clients /\ results[r] \in Seq(Nat \X Boxes)
      /\ spawned[r] \in 0 .. GroupSize /\ joined[r] \subseteq Completions
      /\ box[r] \in [Completions -> Boxes]
  BY DEF TypeInv, SlotInv
<1>1. IsFiniteSet(joined[r]) /\ Cardinality(joined[r]) \in Nat
  <2>1. IsFiniteSet(Completions)
    BY ServerAssumption, UpTo DEF Completions
  <2>2. IsFiniteSet(joined[r])
    BY <1>0, <2>1, FS_Subset
  <2> QED BY <2>2, FS_CardinalityType
<1>2. CASE CallModel(r)
  <2>1. results'[r] = <<>> /\ joined'[r] = {}
    BY <1>0, <1>2 DEF CallModel
  <2> QED BY <2>1, FS_EmptySet DEF RolloutResults
<1>3. CASE ModelFails(r) \/ Disconnect(r)
  BY <1>0, <1>3 DEF ModelFails, Disconnect, RolloutResults, Live
<1>4. CASE Acquire(r)
  BY <1>0, <1>4 DEF Acquire, RolloutResults, Live
<1>5. CASE Spawn(r)
  <2>1. /\ pc[r] = "permit" /\ joined[r] = {} /\ UNCHANGED <<joined, results>>
    BY <1>5 DEF Spawn, HandOver, SlotInv, GroupInv
  <2>2. Live(r)
    BY <2>1 DEF Live
  <2>3. Len(results[r]) = 0 /\ Len(results[r]) = Cardinality(joined[r])
    BY <2>1, <2>2, FS_EmptySet DEF RolloutResults
  <2>4. \A k : k \notin 1 .. Len(results'[r])
    BY <2>1, <2>3
  <2> QED BY <2>1, <2>3, <2>4 DEF RolloutResults
<1>6. ASSUME NEW i \in Completions, Exit(r, i) PROVE RolloutResults(r)'
  <2>1. PICK status : box' = [box EXCEPT ![r][i] = status]
    BY <1>6 DEF Exit
  <2>2. /\ box'[r] = [box[r] EXCEPT ![i] = status] /\ box[r][i] = "running"
        /\ UNCHANGED <<pc, joined, results>>
    BY <1>0, <1>6, <2>1 DEF Exit
  <2>3. Live(r) => i \notin joined[r]
    BY <2>2 DEF RolloutBoxes
  <2>4. Live(r) => \A j \in joined[r] : box'[r][j] = box[r][j]
    BY <1>0, <2>2, <2>3
  <2> QED BY <2>2, <2>4 DEF RolloutResults, Live
<1>7. ASSUME NEW i \in Completions, Join(r, i) PROVE RolloutResults(r)'
  <2> DEFINE n == Len(results[r])
             new == IF box[r][i] = "panic" THEN <<n + 1, "SetupError">>
                                           ELSE <<i, box[r][i]>>
  <2>1. /\ joined'[r] = joined[r] \union {i} /\ i \notin joined[r]
        /\ box[r][i] # "running" /\ i \in 1 .. spawned[r]
        /\ pc[r] = "join" /\ UNCHANGED <<pc, box>>
        /\ results'[r] = Append(results[r], new)
    BY <1>0, <1>7 DEF Join, TakeResult, ToJoin
  <2>2. Live(r)
    BY <2>1 DEF Live
  <2>3. Cardinality(joined'[r]) = Cardinality(joined[r]) + 1
    BY <1>1, <2>1, FS_AddElement
  <2>4. box[r][i] \in IF r \in BadTimeouts THEN {"panic"} ELSE Statuses
    BY <2>1, <2>2 DEF RolloutBoxes
  <2>5. new = IF r \in BadTimeouts THEN <<n + 1, "SetupError">> ELSE <<i, box[r][i]>>
    BY <2>4 DEF Statuses
  <2>6. /\ n = Cardinality(joined[r])
        /\ \A k, l \in 1 .. n : results[r][k][1] = results[r][l][1] => k = l
        /\ \A k \in 1 .. n :
             IF r \in BadTimeouts THEN results[r][k] = <<k, "SetupError">>
             ELSE /\ results[r][k][1] \in joined[r]
                  /\ results[r][k][2] = box[r][results[r][k][1]]
    BY <2>2 DEF RolloutResults
  <2> HIDE DEF new
  <2>7. /\ n \in Nat /\ Len(results'[r]) = n + 1 /\ results'[r][n + 1] = new
        /\ \A k \in 1 .. n : results'[r][k] = results[r][k]
    BY <1>0, <2>1
  <2>8. \A k \in 1 .. n : results[r][k][1] # new[1]
    <3>1. CASE r \in BadTimeouts
      BY <2>5, <2>6, <2>7, <3>1
    <3>2. CASE r \notin BadTimeouts
      BY <2>1, <2>5, <2>6, <3>2
    <3> QED BY <3>1, <3>2
  <2>9. \A k, l \in 1 .. n + 1 : results'[r][k][1] = results'[r][l][1] => k = l
    <3> SUFFICES ASSUME NEW k \in 1 .. n + 1, NEW l \in 1 .. n + 1,
                        results'[r][k][1] = results'[r][l][1]
                 PROVE  k = l
      OBVIOUS
    <3>1. CASE k \in 1 .. n /\ l \in 1 .. n
      BY <2>6, <2>7, <3>1
    <3>2. CASE k = n + 1 /\ l \in 1 .. n
      BY <2>7, <2>8, <3>2
    <3>3. CASE k \in 1 .. n /\ l = n + 1
      BY <2>7, <2>8, <3>3
    <3>4. (k \in 1 .. n \/ k = n + 1) /\ (l \in 1 .. n \/ l = n + 1)
      BY <2>7
    <3> QED BY <3>1, <3>2, <3>3, <3>4
  <2>10. \A k \in 1 .. n + 1 :
           IF r \in BadTimeouts THEN results'[r][k] = <<k, "SetupError">>
           ELSE /\ results'[r][k][1] \in joined'[r]
                /\ results'[r][k][2] = box'[r][results'[r][k][1]]
    <3> SUFFICES ASSUME NEW k \in 1 .. n + 1
                 PROVE  IF r \in BadTimeouts THEN results'[r][k] = <<k, "SetupError">>
                        ELSE /\ results'[r][k][1] \in joined'[r]
                             /\ results'[r][k][2] = box'[r][results'[r][k][1]]
      OBVIOUS
    <3>1. CASE k \in 1 .. n
      BY <2>1, <2>6, <2>7, <3>1
    <3>2. CASE k = n + 1
      BY <2>1, <2>5, <2>7, <3>2
    <3> QED BY <2>7, <3>1, <3>2
  <2> QED BY <2>3, <2>6, <2>7, <2>9, <2>10 DEF RolloutResults
<1>8. CASE FinishGroup(r)
  BY <1>0, <1>8 DEF FinishGroup, RolloutResults, Live
<1> QED BY <1>2, <1>3, <1>4, <1>5, <1>6, <1>7, <1>8 DEF RolloutStep, ModelAnswers, HandlerStep, Exiting

-----------------------------------------------------------------------------
(* The order of the results.                                               *)

(* Results that name 1 .. n once each are sorted to the place they name.   *)
NamesOnce(taken, n) ==
  /\ Len(taken) = n
  /\ \A k \in 1 .. n : taken[k][1] \in 1 .. n
  /\ \A k, l \in 1 .. n : taken[k][1] = taken[l][1] => k = l

EachInPlace(sorted, taken, n) ==
  \A k \in 1 .. n : \E i \in 1 .. n : sorted[k] = taken[i] /\ taken[i][1] = k

LEMMA SortedByName ==
  ASSUME NEW n \in Nat, NEW S, NEW taken \in Seq(Nat \X S), NamesOnce(taken, n)
  PROVE  /\ Sorted(taken) \in Seq(Nat \X S) /\ Len(Sorted(taken)) = n
         /\ EachInPlace(Sorted(taken), taken, n)
<1> USE DEF NamesOnce
<1>1. DOMAIN taken = 1 .. n
  OBVIOUS
<1>2. PICK f \in [1 .. n -> 1 .. n] : f = [i \in 1 .. n |-> taken[i][1]]
  OBVIOUS
<1>3. \A i \in 1 .. n : f[i] = taken[i][1]
  BY <1>2
<1>4. /\ \A k \in 1 .. n : \E i \in 1 .. n : f[i] = k
      /\ \A i \in 1 .. n : Cardinality(Below(f, n, i)) = f[i] - 1
  <2>1. f \in Injection(1 .. n, 1 .. n)
    BY <1>2, <1>3 DEF Injection, IsInjective
  <2>2. \A k \in 1 .. n : \E i \in 1 .. n : f[i] = k
    <3>1. f \in Surjection(1 .. n, 1 .. n)
      BY <2>1, Numbering
    <3> QED BY <3>1 DEF Surjection
  <2>3. \A i \in 1 .. n : Cardinality(Below(f, n, i)) = f[i] - 1
    BY <2>1, Numbering
  <2> QED BY <2>2, <2>3
<1>5. ASSUME NEW i \in 1 .. n PROVE Place(taken, i) = taken[i][1]
  <2>1. \A j \in 1 .. n : Before(taken, j, i) <=> f[j] < f[i]
    <3> SUFFICES ASSUME NEW j \in 1 .. n PROVE Before(taken, j, i) <=> f[j] < f[i]
      OBVIOUS
    <3>1. f[j] = f[i] => ~(j < i)
      BY <1>2
    <3> QED BY <1>3, <3>1 DEF Before
  <2>2. {j \in DOMAIN taken : Before(taken, j, i)} = Below(f, n, i)
    BY <1>1, <2>1 DEF Below
  <2>3. f[i] \in 1 .. n /\ Cardinality(Below(f, n, i)) = f[i] - 1
    BY <1>4
  <2>4. Place(taken, i) = Cardinality(Below(f, n, i)) + 1
    BY <2>2 DEF Place
  <2> QED BY <1>3, <2>3, <2>4
<1>6. ASSUME NEW k \in 1 .. n
      PROVE  \E i \in 1 .. n : Sorted(taken)[k] = taken[i] /\ taken[i][1] = k
  <2>1. \E i \in DOMAIN taken : Place(taken, i) = k
    <3>1. PICK j \in 1 .. n : f[j] = k
      BY <1>4
    <3>2. Place(taken, j) = k
      BY <1>3, <1>5, <3>1
    <3> QED BY <1>1, <3>2
  <2>2. PICK i \in DOMAIN taken :
          i = (CHOOSE j \in DOMAIN taken : Place(taken, j) = k) /\ Place(taken, i) = k
    BY <2>1
  <2>3. Sorted(taken)[k] = taken[i]
    BY <1>1, <2>2 DEF Sorted
  <2>4. i \in 1 .. n /\ taken[i][1] = k
    BY <1>1, <1>5, <2>2
  <2> QED BY <2>3, <2>4
<1>7. Sorted(taken) \in [1 .. n -> Nat \X S]
  <2>1. ASSUME NEW k \in 1 .. n PROVE Sorted(taken)[k] \in Nat \X S
    <3>1. PICK i \in 1 .. n : Sorted(taken)[k] = taken[i]
      BY <1>6, Zenon
    <3>2. taken[i] \in Nat \X S
      BY <1>1, <3>1, ElementOfSeq
    <3> QED BY <3>1, <3>2
  <2>2. Sorted(taken) = [k \in 1 .. n |-> Sorted(taken)[k]]
    BY <1>1 DEF Sorted
  <2> QED BY <2>1, <2>2
<1>8. Sorted(taken) \in Seq(Nat \X S) /\ Len(Sorted(taken)) = n
  BY <1>7
<1> QED BY <1>6, <1>8 DEF EachInPlace

(* The trajectories of a group: one for each completion, in order.         *)
LEMMA GroupOutput ==
  ASSUME SlotInv, NEW r \in Rollouts, RolloutBoxes(r), RolloutResults(r),
         FinishGroup(r), NEW adversarial \in BOOLEAN, NEW out,
         out = Trajectories(adversarial, Sorted(results[r]))
  PROVE  /\ out \in Seq(Trajectory) /\ Len(out) = GroupSize
         /\ \A k \in 1 .. GroupSize :
              /\ out[k].adversarial = adversarial /\ out[k].status \in Statuses
              /\ out[k].status = IF box[r][k] = "panic" THEN "SetupError" ELSE box[r][k]
<1>1. /\ results[r] \in Seq(Nat \X Boxes) /\ GroupSize \in Nat /\ joined[r] = Completions
      /\ pc[r] = "join"
  BY ServerAssumption DEF SlotInv, TypeInv, FinishGroup, Clients
<1>2. Live(r) /\ Completions = 1 .. GroupSize
  BY <1>1 DEF Live, Completions
<1>3. Len(results[r]) = GroupSize
  <2>1. Cardinality(1 .. GroupSize) = GroupSize
    BY <1>1, UpTo, Zenon
  <2>2. Cardinality(joined[r]) = GroupSize
    BY <1>1, <1>2, <2>1, Zenon
  <2> QED BY <1>2, <2>2 DEF RolloutResults
<1>4. \A k \in 1 .. GroupSize :
        IF r \in BadTimeouts THEN results[r][k] = <<k, "SetupError">>
        ELSE /\ results[r][k][1] \in 1 .. GroupSize
             /\ results[r][k][2] = box[r][results[r][k][1]]
  BY <1>1, <1>2, <1>3 DEF RolloutResults
<1>5. \A k \in 1 .. GroupSize : results[r][k][1] \in 1 .. GroupSize
  BY <1>4
<1>6. \A k, l \in 1 .. GroupSize : results[r][k][1] = results[r][l][1] => k = l
  BY <1>2, <1>3 DEF RolloutResults
<1>7. PICK sorted : sorted = Sorted(results[r])
  OBVIOUS
<1>8. /\ sorted \in Seq(Nat \X Boxes) /\ Len(sorted) = GroupSize
      /\ \A k \in 1 .. GroupSize : \E i \in 1 .. GroupSize :
           sorted[k] = results[r][i] /\ results[r][i][1] = k
  <2>1. NamesOnce(results[r], GroupSize)
    BY <1>3, <1>5, <1>6 DEF NamesOnce
  <2>2. Sorted(results[r]) \in Seq(Nat \X Boxes) /\ Len(Sorted(results[r])) = GroupSize
    BY <1>1, <2>1, SortedByName
  <2>3. EachInPlace(Sorted(results[r]), results[r], GroupSize)
    BY <1>1, <2>1, SortedByName
  <2> QED BY <1>7, <2>2, <2>3 DEF EachInPlace
<1>9. ASSUME NEW k \in 1 .. GroupSize
      PROVE  /\ sorted[k][2] = IF box[r][k] = "panic" THEN "SetupError" ELSE box[r][k]
             /\ sorted[k][2] \in Statuses
  <2>1. PICK i \in 1 .. GroupSize : sorted[k] = results[r][i] /\ results[r][i][1] = k
    BY <1>8
  <2>2. box[r][k] \in IF r \in BadTimeouts THEN {"panic"} ELSE Statuses
    BY <1>1, <1>2 DEF RolloutBoxes
  <2>3. sorted[k][2] = IF r \in BadTimeouts THEN "SetupError" ELSE box[r][k]
    BY <1>4, <2>1
  <2> QED BY <2>2, <2>3 DEF Statuses
<1>10. out = [k \in 1 .. GroupSize |->
                [adversarial |-> adversarial, status |-> sorted[k][2]]]
  BY <1>7, <1>8 DEF Trajectories
<1>11. out \in [1 .. GroupSize -> Trajectory]
  BY <1>9, <1>10 DEF Trajectory, Boxes
<1> QED BY <1>1, <1>9, <1>10, <1>11

LEMMA InOrderStep ==
  ASSUME SlotInv, Answers, NEW r \in Rollouts, RolloutBoxes(r), RolloutResults(r),
         Live(r) => sent[r] \in Seq(Trajectory), InOrder(r),
         RolloutStep(r) \/ Exiting(r) \/ Disconnect(r)
  PROVE  InOrder(r)'
<1> USE DEF Clients
<1>0. /\ DOMAIN pc = Clients /\ DOMAIN sent = Clients
      /\ box[r] \in [Completions -> Boxes] /\ DOMAIN box = Clients
  BY DEF Answers, SlotInv, TypeInv
<1>1. CASE pc'[r] \notin {"model", "replied"}
  BY <1>1 DEF InOrder
<1>2. CASE FinishGroup(r)
  <2>1. PICK adversarial \in BOOLEAN : adversarial = (task[r] \in AdversarialTasks)
    <3>1. (task[r] \in AdversarialTasks) \in BOOLEAN
      OBVIOUS
    <3> QED BY <3>1, Zenon
  <2>2. PICK out : out = Trajectories(adversarial, Sorted(results[r]))
    OBVIOUS
  <2>3. /\ out \in Seq(Trajectory) /\ Len(out) = GroupSize
        /\ \A k \in 1 .. GroupSize :
             out[k].status = IF box[r][k] = "panic" THEN "SetupError" ELSE box[r][k]
    BY <1>2, <2>2, GroupOutput
  <2>4. /\ sent' = [sent EXCEPT ![r] = sent[r] \o out] /\ UNCHANGED box
        /\ pc[r] = "join"
    BY <1>2, <2>1, <2>2 DEF FinishGroup
  <2>5. sent[r] \in Seq(Trajectory)
    BY <2>4 DEF Live
  <2>6. /\ sent'[r] = sent[r] \o out /\ Len(sent'[r]) = Len(sent[r]) + GroupSize
        /\ \A k \in 1 .. GroupSize : sent'[r][Len(sent[r]) + k] = out[k]
    <3>1. sent'[r] = sent[r] \o out
      BY <1>0, <2>4
    <3>2. /\ Len(sent[r] \o out) = Len(sent[r]) + GroupSize
          /\ \A k \in 1 .. Len(sent[r]) + GroupSize :
               (sent[r] \o out)[k] = IF k <= Len(sent[r]) THEN sent[r][k]
                                     ELSE out[k - Len(sent[r])]
      <4>1. PICK a : a = sent[r]
        OBVIOUS
      <4>2. a \in Seq(Trajectory)
        BY <2>5, <4>1
      <4>3. /\ Len(a \o out) = Len(a) + Len(out)
            /\ \A k \in 1 .. Len(a) + Len(out) :
                 (a \o out)[k] = IF k <= Len(a) THEN a[k] ELSE out[k - Len(a)]
        BY <2>3, <4>2, ConcatProperties
      <4> QED BY <2>3, <4>1, <4>3
    <3>3. ASSUME NEW k \in 1 .. GroupSize PROVE sent'[r][Len(sent[r]) + k] = out[k]
      <4>1. PICK m : m = Len(sent[r]) + k
        OBVIOUS
      <4>2. /\ m \in 1 .. Len(sent[r]) + GroupSize /\ ~(m <= Len(sent[r]))
            /\ m - Len(sent[r]) = k
        BY <2>5, <4>1, ServerAssumption
      <4> QED BY <3>1, <3>2, <4>1, <4>2
    <3> QED BY <3>1, <3>2, <3>3
  <2>7. Len(sent'[r]) - GroupSize = Len(sent[r])
    BY <2>5, <2>6, ServerAssumption
  <2> QED BY <2>3, <2>4, <2>6, <2>7 DEF InOrder, Completions
<1>3. ASSUME NEW i \in Completions, Exit(r, i), pc'[r] \in {"model", "replied"}
      PROVE  FALSE
  <2>1. pc[r] \in {"model", "replied"} /\ box[r][i] = "running"
    BY <1>3 DEF Exit
  <2> QED BY <2>1 DEF RolloutBoxes, Live
<1>4. CASE /\ pc'[r] \in {"model", "replied"}
           /\ \/ CallModel(r) \/ ModelFails(r) \/ Acquire(r) \/ Spawn(r)
              \/ (\E i \in Completions : Join(r, i)) \/ Disconnect(r)
  BY <1>0, <1>4 DEF CallModel, ModelFails, Acquire, Spawn, HandOver, Join, TakeResult,
                    Disconnect
<1> QED BY <1>1, <1>2, <1>3, <1>4 DEF RolloutStep, ModelAnswers, HandlerStep, Exiting

-----------------------------------------------------------------------------
(* The telemetry.                                                          *)

Where(s, T) == {i \in 1 .. Len(s) : s[i] \in T}
CountIn(s, T) == Cardinality(Where(s, T))

LEMMA CountType ==
  ASSUME NEW S, NEW s \in Seq(S), NEW T
  PROVE  IsFiniteSet(Where(s, T)) /\ CountIn(s, T) \in Nat
<1>1. PICK n \in Nat : n = Len(s)
  OBVIOUS
<1>2. IsFiniteSet(1 .. n)
  BY UpTo
<1>3. Where(s, T) \subseteq 1 .. n
  BY <1>1 DEF Where
<1>4. IsFiniteSet(Where(s, T))
  BY <1>2, <1>3, FS_Subset
<1> QED BY <1>4, FS_CardinalityType DEF CountIn

LEMMA CountOfUnion ==
  ASSUME NEW S, NEW s \in Seq(S), NEW T, NEW U, T \intersect U = {}
  PROVE  CountIn(s, T \union U) = CountIn(s, T) + CountIn(s, U)
<1>1. IsFiniteSet(Where(s, T)) /\ IsFiniteSet(Where(s, U))
  BY CountType
<1>2. /\ Where(s, T) \intersect Where(s, U) = {}
      /\ Where(s, T \union U) = Where(s, T) \union Where(s, U)
  BY DEF Where
<1> QED BY <1>1, <1>2, DisjointUnion DEF CountIn

LEMMA CountOfPart ==
  ASSUME NEW S, NEW s \in Seq(S), NEW T, NEW U, T \subseteq U
  PROVE  CountIn(s, T) <= CountIn(s, U)
<1>1. IsFiniteSet(Where(s, U))
  BY CountType
<1>2. Where(s, T) \subseteq Where(s, U)
  BY DEF Where
<1> QED BY <1>1, <1>2, FS_Subset DEF CountIn

LEMMA CountOfAll ==
  ASSUME NEW S, NEW s \in Seq(S), NEW T, \A i \in 1 .. Len(s) : s[i] \in T
  PROVE  CountIn(s, T) = Len(s)
<1>1. PICK n \in Nat : n = Len(s)
  OBVIOUS
<1>2. Where(s, T) = 1 .. n
  BY <1>1 DEF Where
<1>3. Cardinality(1 .. n) = n
  BY UpTo
<1> QED BY <1>1, <1>2, <1>3 DEF CountIn

LEMMA CountOfNone ==
  ASSUME NEW s, NEW T, \A i \in 1 .. Len(s) : s[i] \notin T
  PROVE  CountIn(s, T) = 0
<1>1. Where(s, T) = {}
  BY DEF Where
<1> QED BY <1>1, FS_EmptySet DEF CountIn

LEMMA CountOfConcat ==
  ASSUME NEW S, NEW s \in Seq(S), NEW t \in Seq(S), NEW T
  PROVE  CountIn(s \o t, T) = CountIn(s, T) + CountIn(t, T)
<1>1. PICK m \in Nat, n \in Nat : m = Len(s) /\ n = Len(t)
  OBVIOUS
<1>2. PICK u : u = s \o t
  OBVIOUS
<1>3. /\ Len(u) = m + n
      /\ \A i \in 1 .. m : u[i] = s[i]
      /\ \A i \in 1 .. n : u[m + i] = t[i]
  <2>1. /\ Len(u) = m + n
        /\ \A i \in 1 .. m + n : u[i] = IF i <= m THEN s[i] ELSE t[i - m]
    BY <1>1, <1>2, ConcatProperties
  <2>2. \A i \in 1 .. m : u[i] = s[i]
    BY <1>1, <2>1
  <2>3. ASSUME NEW i \in 1 .. n PROVE u[m + i] = t[i]
    <3>1. PICK k : k = m + i
      OBVIOUS
    <3>2. k \in 1 .. m + n /\ ~(k <= m) /\ k - m = i
      BY <1>1, <3>1
    <3> QED BY <2>1, <3>1, <3>2
  <2> QED BY <2>1, <2>2, <2>3
<1> DEFINE A == Where(s, T)
           B == Where(t, T)
           C == {i \in m + 1 .. m + n : u[i] \in T}
           f == [i \in B |-> m + i]
<1>4. IsFiniteSet(A) /\ IsFiniteSet(B)
  BY CountType
<1>5. \A i \in B : i \in 1 .. n /\ t[i] \in T
  BY <1>1 DEF Where
<1>6. \A k \in C : k - m \in B /\ k = m + (k - m)
  <2> SUFFICES ASSUME NEW k \in C PROVE k - m \in B /\ k = m + (k - m)
    OBVIOUS
  <2>1. PICK i : i = k - m
    OBVIOUS
  <2>2. i \in 1 .. n /\ k = m + i /\ u[k] \in T
    BY <1>1, <2>1
  <2> QED BY <1>1, <1>3, <2>1, <2>2 DEF Where
<1>7. \A i \in B : m + i \in C
  <2> SUFFICES ASSUME NEW i \in B PROVE m + i \in C
    OBVIOUS
  <2>1. PICK k : k = m + i
    OBVIOUS
  <2>2. k \in m + 1 .. m + n /\ u[k] \in T
    BY <1>1, <1>3, <1>5, <2>1
  <2> QED BY <2>1, <2>2
<1>8. f \in Bijection(B, C)
  <2>1. f \in [B -> C]
    BY <1>7
  <2>2. \A i, j \in B : f[i] = f[j] => i = j
    BY <1>1, <1>5
  <2>3. \A k \in C : \E i \in B : f[i] = k
    BY <1>6
  <2> HIDE DEF f, B, C
  <2> QED BY <2>1, <2>2, <2>3 DEF Bijection, Injection, Surjection, IsInjective
<1>9. Where(u, T) = A \union C /\ A \intersect C = {}
  <2>1. \A i : i \in Where(u, T) <=> i \in A \/ i \in C
    <3> SUFFICES ASSUME NEW i PROVE i \in Where(u, T) <=> i \in A \/ i \in C
      OBVIOUS
    <3>1. i \in 1 .. m + n <=> i \in 1 .. m \/ i \in m + 1 .. m + n
      BY <1>1
    <3> QED BY <1>1, <1>3, <3>1 DEF Where
  <2>2. \A i \in A : i \notin C
    BY <1>1 DEF Where
  <2> QED BY <2>1, <2>2
<1> HIDE DEF A, B, C, f
<1>10. IsFiniteSet(C) /\ Cardinality(C) = Cardinality(B)
  BY <1>4, <1>8, FS_Bijection DEF ExistsBijection
<1>11. Cardinality(Where(u, T)) = Cardinality(A) + Cardinality(C)
  BY <1>4, <1>9, <1>10, DisjointUnion
<1> QED BY <1>2, <1>10, <1>11 DEF CountIn, A, B

Held == {t \in Trajectory : Contained(t)}
Escaped == {t \in Trajectory : Contagious(t)}
Failed == {t \in Trajectory : NotSetUp(t)}
Missed == {t \in Trajectory : t.adversarial /\ NotSetUp(t)}

LEMMA Counts ==
  ASSUME NEW out \in Seq(Trajectory)
  PROVE  /\ HowMany(out, Contained) = CountIn(out, Held)
         /\ HowMany(out, Contagious) = CountIn(out, Escaped)
         /\ HowMany(out, NotSetUp) = CountIn(out, Failed)
         /\ Unset(out) = CountIn(out, Missed)
<1>1. \A i \in 1 .. Len(out) : out[i] \in Trajectory
  OBVIOUS
<1>2. {i \in 1 .. Len(out) : Contained(out[i])} = Where(out, Held)
  BY <1>1 DEF Where, Held
<1>3. {i \in 1 .. Len(out) : Contagious(out[i])} = Where(out, Escaped)
  BY <1>1 DEF Where, Escaped
<1>4. {i \in 1 .. Len(out) : NotSetUp(out[i])} = Where(out, Failed)
  BY <1>1 DEF Where, Failed
<1>5. {i \in 1 .. Len(out) : out[i].adversarial /\ NotSetUp(out[i])} = Where(out, Missed)
  BY <1>1 DEF Where, Missed
<1> QED BY <1>2, <1>3, <1>4, <1>5 DEF HowMany, Unset, CountIn

(* What a group of trajectories adds to the counters.                      *)
LEMMA GroupTally ==
  ASSUME NEW out \in Seq(Trajectory), NEW adversarial \in BOOLEAN,
         \A k \in 1 .. Len(out) :
           out[k].adversarial = adversarial /\ out[k].status \in Statuses
  PROVE  /\ CountIn(out, Held) + CountIn(out, Escaped) + CountIn(out, Missed)
              = IF adversarial THEN Len(out) ELSE 0
         /\ CountIn(out, Missed) <= CountIn(out, Failed)
<1>1. /\ CountIn(out, Held) \in Nat /\ CountIn(out, Escaped) \in Nat
      /\ CountIn(out, Missed) \in Nat
  BY CountType
<1>2. /\ Held \intersect Escaped = {} /\ (Held \union Escaped) \intersect Missed = {}
  BY DEF Held, Escaped, Missed, Contained, Contagious, NotSetUp
<1>3. CountIn(out, (Held \union Escaped) \union Missed)
        = CountIn(out, Held) + CountIn(out, Escaped) + CountIn(out, Missed)
  <2>1. CountIn(out, Held \union Escaped) = CountIn(out, Held) + CountIn(out, Escaped)
    BY <1>2, CountOfUnion
  <2>2. CountIn(out, (Held \union Escaped) \union Missed)
          = CountIn(out, Held \union Escaped) + CountIn(out, Missed)
    BY <1>2, CountOfUnion
  <2> QED BY <2>1, <2>2
<1>4. CountIn(out, (Held \union Escaped) \union Missed) = IF adversarial THEN Len(out) ELSE 0
  <2>1. CASE adversarial
    <3>1. ASSUME NEW k \in 1 .. Len(out)
          PROVE  out[k] \in (Held \union Escaped) \union Missed
      <4>1. PICK t \in Trajectory : t = out[k]
        OBVIOUS
      <4>2. t.adversarial = TRUE /\ t.status \in Statuses
        BY <2>1, <4>1
      <4> QED BY <4>1, <4>2
              DEF Held, Escaped, Missed, Contained, Contagious, NotSetUp, Statuses
    <3> QED BY <2>1, <3>1, CountOfAll
  <2>2. CASE ~adversarial
    <3>1. \A k \in 1 .. Len(out) : out[k] \notin (Held \union Escaped) \union Missed
      BY <2>2 DEF Held, Escaped, Missed, Contained, Contagious, NotSetUp
    <3> QED BY <2>2, <3>1, CountOfNone
  <2> QED BY <2>1, <2>2
<1>5. CountIn(out, Missed) <= CountIn(out, Failed)
  <2>1. Missed \subseteq Failed
    BY DEF Missed, Failed
  <2> QED BY <2>1, CountOfPart
<1> QED BY <1>3, <1>4, <1>5

LEMMA NatSum ==
  ASSUME NEW a \in Nat, NEW b \in Nat
  PROVE  a + b \in Nat
OBVIOUS

LEMMA TallyGrows ==
  ASSUME NEW s, NEW before, NEW n \in Nat, Tallied(s, before, n),
         NEW out \in Seq(Trajectory), NEW adversarial \in BOOLEAN,
         \A k \in 1 .. Len(out) :
           out[k].adversarial = adversarial /\ out[k].status \in Statuses,
         NEW m, m = n + IF adversarial THEN Len(out) ELSE 0
  PROVE  /\ Tallied(Counted(s, out), before \o out, m)
         /\ Counted(s, out).injected = s.injected
<1>1. before \in Seq(Trajectory) /\ before \o out \in Seq(Trajectory)
  BY DEF Tallied
<1>2. PICK held \in Nat, escaped \in Nat, failed \in Nat, missed \in Nat :
        /\ held = CountIn(out, Held) /\ escaped = CountIn(out, Escaped)
        /\ failed = CountIn(out, Failed) /\ missed = CountIn(out, Missed)
  BY CountType
<1>3. PICK more \in Nat : more = IF adversarial THEN Len(out) ELSE 0
  OBVIOUS
<1>4. held + escaped + missed = more /\ missed <= failed
  BY <1>2, <1>3, GroupTally
<1>5. /\ HowMany(out, Contained) = held /\ HowMany(out, Contagious) = escaped
      /\ HowMany(out, NotSetUp) = failed
  BY <1>2, Counts
<1>6. Unset(before \o out) = Unset(before) + missed /\ Unset(before) \in Nat
  <2>1. /\ Unset(before \o out) = CountIn(before \o out, Missed)
        /\ Unset(before) = CountIn(before, Missed)
    BY <1>1, Counts
  <2>2. CountIn(before \o out, Missed) = CountIn(before, Missed) + CountIn(out, Missed)
    BY <1>1, CountOfConcat
  <2>3. CountIn(before, Missed) \in Nat
    BY <1>1, CountType
  <2> QED BY <1>2, <2>1, <2>2, <2>3
<1>7. /\ s \in Telemetry
      /\ s.contained + s.contagion + Unset(before) = n
      /\ Unset(before) <= s.setup /\ s.latencies = s.contained
  BY DEF Tallied
<1>8. PICK c, g, u, l :
        /\ c = s.contained + held /\ g = s.contagion + escaped
        /\ u = s.setup + failed /\ l = s.latencies + held
  OBVIOUS
<1>9. PICK new : new = Counted(s, out)
  OBVIOUS
<1>10. new = [s EXCEPT !.contained = c, !.contagion = g, !.setup = u, !.latencies = l]
  BY <1>5, <1>8, <1>9 DEF Counted
<1>11. /\ c \in Nat /\ g \in Nat /\ u \in Nat /\ l \in Nat
       /\ s.contained \in Nat /\ s.contagion \in Nat /\ s.setup \in Nat
       /\ s.latencies \in Nat
  <2>1. /\ s.contained \in Nat /\ s.contagion \in Nat /\ s.setup \in Nat
        /\ s.latencies \in Nat
    BY <1>7 DEF Telemetry
  <2>2. c \in Nat /\ g \in Nat
    BY <1>8, <2>1, NatSum, Zenon
  <2>3. u \in Nat /\ l \in Nat
    BY <1>8, <2>1, NatSum, Zenon
  <2> QED BY <2>1, <2>2, <2>3
<1>12. /\ new \in Telemetry /\ new.injected = s.injected /\ new.contained = c
       /\ new.contagion = g /\ new.setup = u /\ new.latencies = l
  BY <1>7, <1>10, <1>11 DEF Telemetry
<1>13. /\ c + g + Unset(before \o out) = n + more
       /\ Unset(before \o out) <= u /\ l = c
  <2>1. PICK a, b : a = Unset(before \o out) /\ b = Unset(before)
    OBVIOUS
  <2>2. PICK sc, sg, su, sl :
          sc = s.contained /\ sg = s.contagion /\ su = s.setup /\ sl = s.latencies
    OBVIOUS
  <2>3. a \in Int /\ b \in Nat /\ a = b + missed
    BY <1>6, <2>1
  <2>4. /\ sc \in Nat /\ sg \in Nat /\ su \in Nat /\ sl \in Nat
        /\ sc + sg + b = n /\ b <= su /\ sl = sc
    BY <1>7, <1>11, <2>1, <2>2
  <2>5. c = sc + held /\ g = sg + escaped /\ u = su + failed /\ l = sl + held
    BY <1>8, <2>2
  <2>6. c + g + a = n + more /\ a <= u /\ l = c
    BY <1>4, <2>3, <2>4, <2>5
  <2> QED BY <2>1, <2>6
<1> QED BY <1>1, <1>3, <1>9, <1>12, <1>13 DEF Tallied

LEMMA TasksDone ==
  ASSUME NEW t \in 1 .. NTasks
  PROVE  /\ AdversarialUpTo(t - 1) \in Nat
         /\ AdversarialUpTo(t)
              = AdversarialUpTo(t - 1) + IF t \in AdversarialTasks THEN 1 ELSE 0
<1> DEFINE old == AdversarialTasks \intersect 1 .. t - 1
           new == AdversarialTasks \intersect 1 .. t
<1>1. t \in Nat /\ t >= 1
  BY ServerAssumption
<1>2. IsFiniteSet(old)
  <2>1. PICK m \in Nat : m = t - 1
    BY <1>1
  <2>2. IsFiniteSet(1 .. m)
    BY UpTo
  <2> QED BY <2>1, <2>2, FS_Subset
<1>3. new = (IF t \in AdversarialTasks THEN old \union {t} ELSE old) /\ t \notin old
  BY <1>1
<1> HIDE DEF old, new
<1>4. Cardinality(old) \in Nat
  BY <1>2, FS_CardinalityType
<1>5. Cardinality(new) = Cardinality(old) + IF t \in AdversarialTasks THEN 1 ELSE 0
  <2>1. Cardinality(old \union {t}) = Cardinality(old) + 1
    BY <1>2, <1>3, FS_AddElement
  <2> QED BY <1>3, <1>4, <2>1
<1> QED BY <1>4, <1>5 DEF old, new, AdversarialUpTo

LEMMA RolloutStatsStep ==
  ASSUME SlotInv, Answers, NEW r \in Rollouts, RolloutBoxes(r), RolloutResults(r),
         RolloutStats(r), RolloutStep(r) \/ Exiting(r) \/ Disconnect(r)
  PROVE  RolloutStats(r)'
<1> USE DEF Clients
<1>0. /\ DOMAIN pc = Clients /\ DOMAIN task = Clients /\ DOMAIN sent = Clients
      /\ DOMAIN stats = Clients /\ task[r] \in 1 .. NTasks
  BY DEF Answers, SlotInv, TypeInv
<1>1. CASE ~Live(r)'
  BY <1>1 DEF RolloutStats
<1>2. CASE FinishGroup(r)
  <2>1. PICK adversarial \in BOOLEAN : adversarial = (task[r] \in AdversarialTasks)
    <3>1. (task[r] \in AdversarialTasks) \in BOOLEAN
      OBVIOUS
    <3> QED BY <3>1, Zenon
  <2>2. PICK out : out = Trajectories(adversarial, Sorted(results[r]))
    OBVIOUS
  <2>3. /\ out \in Seq(Trajectory) /\ Len(out) = GroupSize
        /\ \A k \in 1 .. Len(out) :
             out[k].adversarial = adversarial /\ out[k].status \in Statuses
    BY <1>2, <2>2, GroupOutput
  <2>4. /\ sent'[r] = sent[r] \o out /\ stats'[r] = Counted(stats[r], out)
        /\ pc[r] = "join"
        /\ pc' = [pc EXCEPT ![r] = IF task[r] = NTasks THEN "replied" ELSE "model"]
        /\ task' = [task EXCEPT ![r] = IF task[r] = NTasks THEN @ ELSE @ + 1]
    BY <1>0, <1>2, <2>1, <2>2 DEF FinishGroup
  <2>5. Done(r) = task[r] - 1 /\ Done(r)' = task[r] /\ Live(r)
    BY <1>0, <2>4, ServerAssumption DEF Done, Live
  <2>6. PICK m \in Nat, n \in Nat :
          /\ m = AdversarialUpTo(task[r] - 1) /\ n = AdversarialUpTo(task[r])
          /\ n = m + IF adversarial THEN 1 ELSE 0
    <3>1. /\ AdversarialUpTo(task[r] - 1) \in Nat
          /\ AdversarialUpTo(task[r])
               = AdversarialUpTo(task[r] - 1) + IF adversarial THEN 1 ELSE 0
      BY <1>0, <2>1, TasksDone
    <3>2. AdversarialUpTo(task[r]) \in Nat
      BY <3>1
    <3> QED BY <3>1, <3>2
  <2>7. PICK t, g : t = task[r] /\ g = GroupSize
    OBVIOUS
  <2>8. t \in Nat \ {0} /\ g \in Nat \ {0}
    BY <1>0, <2>7, ServerAssumption
  <2>9. m * g \in Nat /\ n * g = m * g + (IF adversarial THEN g ELSE 0)
        /\ (t - 1) * g + g = t * g
    BY <2>6, <2>8
  <2>10. /\ Len(sent[r]) = (t - 1) * g /\ stats[r].injected = Injected(r)
         /\ Tallied(stats[r], sent[r], m * g)
    BY <2>5, <2>6, <2>7 DEF RolloutStats
  <2>11. Tallied(stats'[r], sent'[r], n * g) /\ stats'[r].injected = stats[r].injected
    <3>1. PICK a \in Nat, b \in Nat : a = m * g /\ b = n * g
      BY <2>8, <2>9
    <3>2. b = a + IF adversarial THEN Len(out) ELSE 0
      BY <2>3, <2>7, <2>9, <3>1
    <3>3. Tallied(stats[r], sent[r], a)
      BY <2>10, <3>1
    <3>4. /\ Tallied(Counted(stats[r], out), sent[r] \o out, b)
          /\ Counted(stats[r], out).injected = stats[r].injected
      BY <2>3, <3>2, <3>3, TallyGrows
    <3> QED BY <2>4, <3>1, <3>4
  <2>12. Len(sent'[r]) = t * g
    <3>1. sent[r] \in Seq(Trajectory)
      BY <2>10 DEF Tallied
    <3>2. Len(sent'[r]) = Len(sent[r]) + Len(out)
      BY <2>3, <2>4, <3>1, ConcatProperties
    <3> QED BY <2>3, <2>7, <2>9, <2>10, <3>2
  <2>13. Injected(r)' = Injected(r)
    BY DEF Injected
  <2>14. /\ Len(sent'[r]) = Done(r)' * GroupSize
         /\ stats'[r].injected = Injected(r)'
         /\ Tallied(stats'[r], sent'[r], AdversarialUpTo(Done(r)') * GroupSize)
    BY <2>5, <2>6, <2>7, <2>10, <2>11, <2>12, <2>13
  <2> QED BY <2>14 DEF RolloutStats, Tallied, Unset, HowMany, NotSetUp, AdversarialUpTo
<1>3. CASE /\ Live(r)'
           /\ \/ CallModel(r) \/ ModelFails(r) \/ Acquire(r) \/ Spawn(r)
              \/ (\E i \in Completions : Join(r, i) \/ Exit(r, i)) \/ Disconnect(r)
  <2>1. /\ Live(r) /\ UNCHANGED <<task, stats>> /\ sent'[r] = sent[r]
        /\ pc'[r] = "replied" <=> pc[r] = "replied"
    BY <1>0, <1>3 DEF CallModel, ModelFails, Acquire, Spawn, HandOver, Join, TakeResult,
                      Exit, Disconnect, Live
  <2>2. Done(r)' = Done(r) /\ Injected(r)' = Injected(r)
    BY <2>1 DEF Done, Injected
  <2> QED BY <2>1, <2>2
          DEF RolloutStats, Tallied, Unset, HowMany, NotSetUp, AdversarialUpTo
<1> QED BY <1>1, <1>2, <1>3 DEF RolloutStep, ModelAnswers, HandlerStep, Exiting

LEMMA VerifyStatsStep ==
  ASSUME SlotInv, Answers, NEW v \in Verifies, VerifyBox(v), VerifyStats(v),
         VerifyStep(v) \/ Exiting(v) \/ Disconnect(v)
  PROVE  VerifyStats(v)'
<1> USE DEF Clients
<1>0. /\ DOMAIN pc = Clients /\ DOMAIN sent = Clients /\ DOMAIN stats = Clients
  BY DEF Answers, SlotInv, TypeInv
<1>1. CASE pc'[v] = "gone"
  BY <1>1 DEF VerifyStats
<1>2. CASE FinishVerify(v)
  <2>1. PICK adversarial \in BOOLEAN : adversarial = (v \in AdversarialVerifies)
    <3>1. (v \in AdversarialVerifies) \in BOOLEAN
      OBVIOUS
    <3> QED BY <3>1, Zenon
  <2>2. PICK out : out = Trajectories(adversarial, << <<1, box[v][1]>> >>)
    OBVIOUS
  <2>3. /\ sent'[v] = out /\ stats'[v] = Counted(stats[v], out)
        /\ pc[v] = "verifying" /\ pc'[v] = "replied" /\ box[v][1] # "running"
    BY <1>0, <1>2, <2>1, <2>2 DEF FinishVerify
  <2>4. box[v][1] \in Statuses
    BY <2>3 DEF VerifyBox
  <2>5. /\ out \in Seq(Trajectory) /\ Len(out) = 1
        /\ \A k \in 1 .. Len(out) :
             out[k].adversarial = adversarial /\ out[k].status \in Statuses
    <3>1. out = [k \in 1 .. 1 |-> [adversarial |-> adversarial, status |-> box[v][1]]]
      BY <2>2 DEF Trajectories
    <3>2. out \in [1 .. 1 -> Trajectory]
      BY <2>4, <3>1 DEF Trajectory, Boxes
    <3> QED BY <2>4, <3>1, <3>2
  <2>6. /\ Len(sent[v]) = 0 /\ stats[v].injected = Injected(v)
        /\ Tallied(stats[v], sent[v], 0)
    BY <2>3 DEF VerifyStats
  <2>7. sent[v] = <<>> /\ sent[v] \o out = out
    <3>1. sent[v] \in Seq(Trajectory)
      BY <2>6 DEF Tallied
    <3>2. sent[v] = <<>>
      BY <2>6, <3>1
    <3> QED BY <2>5, <3>2, ConcatEmptySeq
  <2>8. PICK m : m = Injected(v)
    OBVIOUS
  <2>9. m = 0 + (IF adversarial THEN Len(out) ELSE 0) /\ Injected(v)' = m
    <3>1. v \notin Rollouts
      BY ServerAssumption
    <3>2. Injected(v) = IF v \in AdversarialVerifies THEN 1 ELSE 0
      BY <3>1 DEF Injected
    <3>3. Injected(v)' = IF v \in AdversarialVerifies THEN 1 ELSE 0
      BY <3>1 DEF Injected
    <3>4. adversarial <=> v \in AdversarialVerifies
      BY <2>1, Zenon
    <3> QED BY <2>5, <2>8, <3>2, <3>3, <3>4
  <2>10. Tallied(stats'[v], sent'[v], m) /\ stats'[v].injected = stats[v].injected
    <3>1. PICK n \in Nat : n = 0
      OBVIOUS
    <3>2. Tallied(stats[v], sent[v], n) /\ m = n + IF adversarial THEN Len(out) ELSE 0
      BY <2>6, <2>9, <3>1
    <3>3. /\ Tallied(Counted(stats[v], out), sent[v] \o out, m)
          /\ Counted(stats[v], out).injected = stats[v].injected
      BY <2>5, <3>2, TallyGrows
    <3> QED BY <2>3, <2>7, <3>3
  <2> QED BY <2>3, <2>5, <2>6, <2>8, <2>9, <2>10
          DEF VerifyStats, Tallied, Unset, HowMany, NotSetUp
<1>3. CASE /\ pc'[v] # "gone"
           /\ \/ Acquire(v) \/ BeginVerify(v) \/ Disconnect(v)
              \/ (\E i \in Completions : Exit(v, i))
  <2>1. /\ pc[v] # "gone" /\ UNCHANGED <<stats, sent>>
        /\ pc'[v] = "replied" <=> pc[v] = "replied"
    BY <1>0, <1>3 DEF Acquire, BeginVerify, Exit, Disconnect
  <2>2. Injected(v)' = Injected(v)
    BY DEF Injected
  <2> QED BY <2>1, <2>2 DEF VerifyStats, Tallied, Unset, HowMany, NotSetUp
<1> QED BY <1>1, <1>2, <1>3 DEF VerifyStep, Exiting

-----------------------------------------------------------------------------
(* What a reply says.                                                      *)

LEMMA InitReply == Init => ReplyInv
<1> SUFFICES ASSUME Init PROVE ReplyInv
  OBVIOUS
<1> USE DEF Clients
<1>1. SlotInv
  BY InitSlots
<1>2. Answers
  BY DEF Init, Answers
<1>3. BoxInv
  BY ServerAssumption
     DEF Init, BoxInv, RolloutBoxes, VerifyBox, NoBoxes, Completions
<1>4. ResultsInv
  BY FS_EmptySet DEF Init, ResultsInv, RolloutResults
<1>5. PICK none : none = [injected |-> 0, contained |-> 0, contagion |-> 0,
                          setup |-> 0, latencies |-> 0]
  OBVIOUS
<1>6. <<>> \in Seq(Trajectory) /\ Len(<<>>) = 0
  BY EmptySeq
<1>7. Unset(<<>>) = 0
  <2>1. CountIn(<<>>, Missed) = 0
    BY <1>6, CountOfNone
  <2> QED BY <1>6, <2>1, Counts
<1>8. ASSUME NEW c \in Clients
      PROVE  /\ sent[c] = <<>> /\ stats[c].injected = Injected(c)
             /\ Tallied(stats[c], sent[c], 0)
  <2>1. sent[c] = <<>>
    BY DEF Init
  <2>2. stats[c] = [injected |-> Injected(c), contained |-> 0, contagion |-> 0,
                    setup |-> 0, latencies |-> 0]
    BY DEF Init
  <2>3. Injected(c) \in Nat
    <3>1. Cardinality(AdversarialTasks) \in Nat
      <4>1. IsFiniteSet(1 .. NTasks)
        BY ServerAssumption, UpTo
      <4> QED BY <4>1, FS_Subset, FS_CardinalityType, ServerAssumption
    <3>2. Cardinality(AdversarialTasks) * GroupSize \in Nat
      BY <3>1, ServerAssumption
    <3> QED BY <3>2 DEF Injected
  <2>4. stats[c] \in Telemetry
    BY <2>2, <2>3 DEF Telemetry
  <2> QED BY <1>6, <1>7, <2>1, <2>2, <2>4 DEF Tallied
<1>9. ASSUME NEW r \in Rollouts PROVE RolloutStats(r) /\ InOrder(r)
  <2>1. Done(r) = 0
    BY DEF Init, Done
  <2>2. AdversarialUpTo(0) = 0
    <3>1. AdversarialTasks \intersect 1 .. 0 = {}
      OBVIOUS
    <3> QED BY <3>1, FS_EmptySet DEF AdversarialUpTo
  <2>3. AdversarialUpTo(Done(r)) * GroupSize = 0 /\ Done(r) * GroupSize = 0
    BY <2>1, <2>2, ServerAssumption
  <2> QED BY <1>6, <1>8, <2>3 DEF RolloutStats, InOrder
<1>10. ASSUME NEW v \in Verifies PROVE VerifyStats(v)
  <2>1. pc[v] = "acquire"
    BY ServerAssumption DEF Init
  <2> QED BY <1>6, <1>8, <2>1 DEF VerifyStats
<1> QED BY <1>1, <1>2, <1>3, <1>4, <1>9, <1>10 DEF ReplyInv, StatsInv

(* What is said of one request, and stays said while another one moves.    *)
RolloutInv(r) == RolloutBoxes(r) /\ RolloutResults(r) /\ RolloutStats(r) /\ InOrder(r)
VerifyInv(v) == VerifyBox(v) /\ VerifyStats(v)

LEMMA Unmoved ==
  ASSUME NEW c \in Clients, Own(c)' = Own(c)
  PROVE  /\ RolloutInv(c) => RolloutInv(c)'
         /\ VerifyInv(c) => VerifyInv(c)'
<1>1. /\ pc'[c] = pc[c] /\ task'[c] = task[c] /\ spawned'[c] = spawned[c]
      /\ box'[c] = box[c] /\ joined'[c] = joined[c] /\ results'[c] = results[c]
      /\ sent'[c] = sent[c] /\ stats'[c] = stats[c]
  BY DEF Own
<1>2. Live(c)' = Live(c) /\ Done(c)' = Done(c) /\ Injected(c)' = Injected(c)
  BY <1>1 DEF Live, Done, Injected
<1>3. RolloutBoxes(c) => RolloutBoxes(c)'
  BY <1>1, <1>2 DEF RolloutBoxes
<1>4. RolloutResults(c) => RolloutResults(c)'
  BY <1>1, <1>2 DEF RolloutResults
<1>5. RolloutStats(c) => RolloutStats(c)'
  BY <1>1, <1>2
     DEF RolloutStats, Tallied, Unset, HowMany, NotSetUp, AdversarialUpTo
<1>6. InOrder(c) => InOrder(c)'
  BY <1>1 DEF InOrder
<1>7. VerifyBox(c) => VerifyBox(c)'
  BY <1>1 DEF VerifyBox
<1>8. VerifyStats(c) => VerifyStats(c)'
  BY <1>1, <1>2 DEF VerifyStats, Tallied, Unset, HowMany, NotSetUp
<1> QED BY <1>3, <1>4, <1>5, <1>6, <1>7, <1>8 DEF RolloutInv, VerifyInv

LEMMA NextReply == ReplyInv /\ [Next]_vars => ReplyInv'
<1> SUFFICES ASSUME ReplyInv, [Next]_vars PROVE ReplyInv'
  OBVIOUS
<1>1. SlotInv /\ TypeInv /\ Answers /\ SlotInv'
  BY NextSlots DEF ReplyInv, SlotInv
<1>2. /\ \A r \in Rollouts : RolloutInv(r)
      /\ \A v \in Verifies : VerifyInv(v)
  BY DEF ReplyInv, BoxInv, ResultsInv, StatsInv, RolloutInv, VerifyInv
<1>3. ASSUME NEW r \in Rollouts, RolloutStep(r) \/ Exiting(r) \/ Disconnect(r)
      PROVE  RolloutInv(r)'
  <2>1. RolloutInv(r)
    BY <1>2
  <2>2. Live(r) => sent[r] \in Seq(Trajectory)
    BY <2>1 DEF RolloutInv, RolloutStats, Tallied
  <2> QED BY <1>1, <1>3, <2>1, <2>2, RolloutBoxesStep, RolloutResultsStep,
             RolloutStatsStep, InOrderStep DEF RolloutInv
<1>4. ASSUME NEW v \in Verifies, VerifyStep(v) \/ Exiting(v) \/ Disconnect(v)
      PROVE  VerifyInv(v)'
  BY <1>1, <1>2, <1>4, VerifyBoxStep, VerifyStatsStep DEF VerifyInv
<1>5. /\ Answers'
      /\ \A r \in Rollouts : RolloutInv(r)'
      /\ \A v \in Verifies : VerifyInv(v)'
  <2>1. CASE UNCHANGED vars
    <3>1. Answers' /\ \A c \in Clients : Own(c)' = Own(c)
      BY <1>1, <2>1 DEF vars, Own, Answers
    <3> QED BY <1>2, <3>1, Unmoved DEF Clients
  <2>2. ASSUME NEW c \in Clients,
               \/ c \in Rollouts /\ RolloutStep(c)
               \/ c \in Verifies /\ VerifyStep(c)
               \/ Exiting(c) \/ Disconnect(c)
        PROVE  /\ Answers'
               /\ \A r \in Rollouts : RolloutInv(r)'
               /\ \A v \in Verifies : VerifyInv(v)'
    <3>1. Answers' /\ \A d \in Clients : d # c => Own(d)' = Own(d)
      BY <1>1, <2>2, OthersStay
    <3>2. ASSUME NEW r \in Rollouts PROVE RolloutInv(r)'
      <4>1. CASE r = c
        <5>1. RolloutStep(r) \/ Exiting(r) \/ Disconnect(r)
          BY <2>2, <4>1, ServerAssumption
        <5> QED BY <1>3, <5>1
      <4>2. CASE r # c
        BY <1>2, <3>1, <4>2, Unmoved DEF Clients
      <4> QED BY <4>1, <4>2
    <3>3. ASSUME NEW v \in Verifies PROVE VerifyInv(v)'
      <4>1. CASE v = c
        <5>1. VerifyStep(v) \/ Exiting(v) \/ Disconnect(v)
          BY <2>2, <4>1, ServerAssumption
        <5> QED BY <1>4, <5>1
      <4>2. CASE v # c
        BY <1>2, <3>1, <4>2, Unmoved DEF Clients
      <4> QED BY <4>1, <4>2
    <3> QED BY <3>1, <3>2, <3>3
  <2> QED BY <2>1, <2>2 DEF Next, ConnectedNext, Clients
<1> QED BY <1>1, <1>5
        DEF ReplyInv, BoxInv, ResultsInv, StatsInv, RolloutInv, VerifyInv

(* Whatever order the sandboxes of a group end in, and whichever of them   *)
(* panic, the trajectories of the task sent last stand in the order of its *)
(* completions.                                                            *)
THEOREM ResultsInOrderHold == Spec => []ResultsInOrder
<1>1. ReplyInv => ResultsInOrder
  BY DEF ReplyInv, InOrder, ResultsInOrder
<1> QED BY <1>1, InitReply, NextReply, PTL DEF Spec

(* In every reply, of a rollout of any number of tasks or of a verify, the *)
(* adversarial completions injected are those contained, those that        *)
(* escaped and those never set up, each contained one has its latency, and *)
(* no task of the request is missing.                                      *)
THEOREM TelemetryAddsUpHolds == Spec => []TelemetryAddsUp
<1>1. ReplyInv => TelemetryAddsUp
  <2> SUFFICES ASSUME ReplyInv, NEW c \in Clients, pc[c] = "replied"
               PROVE  /\ stats[c].injected
                           = stats[c].contained + stats[c].contagion + Unset(sent[c])
                      /\ Unset(sent[c]) <= stats[c].setup
                      /\ stats[c].latencies = stats[c].contained
                      /\ Len(sent[c]) = IF c \in Rollouts THEN NTasks * GroupSize ELSE 1
    BY DEF TelemetryAddsUp, Unset
  <2>1. CASE c \in Rollouts
    <3>1. Live(c) /\ Done(c) = NTasks
      BY DEF Live, Done
    <3>2. AdversarialTasks \intersect 1 .. NTasks = AdversarialTasks
      BY ServerAssumption
    <3>3. AdversarialUpTo(NTasks) * GroupSize = Injected(c)
      BY <2>1, <3>2 DEF AdversarialUpTo, Injected
    <3>4. /\ Len(sent[c]) = NTasks * GroupSize /\ stats[c].injected = Injected(c)
          /\ Tallied(stats[c], sent[c], Injected(c))
      BY <2>1, <3>1, <3>3 DEF ReplyInv, StatsInv, RolloutStats
    <3> QED BY <2>1, <3>4 DEF Tallied
  <2>2. CASE c \notin Rollouts
    <3>1. /\ Len(sent[c]) = 1 /\ stats[c].injected = Injected(c)
          /\ Tallied(stats[c], sent[c], Injected(c))
      BY <2>2 DEF ReplyInv, StatsInv, VerifyStats, Clients
    <3> QED BY <2>2, <3>1 DEF Tallied
  <2> QED BY <2>1, <2>2
<1> QED BY <1>1, InitReply, NextReply, PTL DEF Spec

-----------------------------------------------------------------------------
(* One call of run_sandboxed.  SandboxWorker has no constants; what is     *)
(* shown here is why no order of the parent's, the child's and the         *)
(* kernel's steps breaks it: the status byte "ok" orders them.  The parent *)
(* polls, collects and returns what the program did only after it, the     *)
(* child runs the program only after it, and it is written only in the     *)
(* leaf and under the filter.                                              *)
Preparing == {"start", "leaf", "limited", "scripts", "pipes"}
Shaking == {"cloned", "mapping", "mapFailed", "setup", "setupFailed"}
Past == {"polling", "contain", "reap", "collect", "settle", "abandoned"}
Young == {"started", "waiting", "entering", "filtering"}

WorkerPlaces ==
  /\ place \in Preparing \cup Shaking \cup Past \cup {"returned"}
  /\ child \in Young \cup {"none", "ready", "running", "dead", "reaped"}

BeforeTheClone ==
  /\ place \in Preparing => child = "none"
  /\ child = "none" => place \in Preparing \cup {"returned"} /\ said = {} /\ ~ran
  /\ place \in {"start", "leaf", "limited"} => ~scripts /\ fds = {}
  /\ place = "scripts" => fds = {}

(* How far the child has confined itself, and what it has said by then.    *)
Confinement ==
  /\ child \in {"none", "started", "waiting", "entering"} => confined = {}
  /\ child = "filtering" => confined = {"leaf"}
  /\ child \in {"ready", "running"} => confined = {"leaf", "filter"} /\ "ok" \in said
  /\ child \in Young => "ok" \notin said /\ "failed" \notin said
  /\ "failed" \in said => "ok" \notin said
  /\ ran => "ok" \in said

(* Until it has the answer, the child holds both ends of the answer's pipe *)
(* open; until it has reported, it holds the report's.                     *)
HeldEnds ==
  /\ child \in Young => "code" \in childEnds
  /\ child \in {"started", "waiting"} => "ack" \in childEnds

(* What the parent knows of the child from where it is itself.             *)
Handshaken ==
  /\ place \in {"cloned", "mapping", "mapFailed"} =>
       child \in {"started", "waiting", "dead"} /\ "ok" \notin said /\ "ack" \notin said
  /\ place = "setupFailed" => child = "dead" /\ "ok" \notin said
  /\ place \in Past => "ok" \in said
  /\ place \in (Preparing \ {"start", "leaf"}) \cup Shaking \cup Past => leaf = "limited"

OpenEnds ==
  /\ place = "cloned" =>
       fds \subseteq {<<"ack", "w">>, <<"code", "r">>, <<"ready", "r">>, <<"out", "r">>}
  /\ place = "mapping" => fds \subseteq {<<"ack", "w">>, <<"code", "r">>, <<"out", "r">>}
  /\ place \in {"setup", "mapFailed"} => fds \subseteq {<<"code", "r">>, <<"out", "r">>}
  /\ place \in {"setupFailed", "polling", "contain", "reap", "collect"} =>
       fds \subseteq {<<"out", "r">>}
  /\ place = "settle" => fds = {} /\ ~scripts

Deadlines ==
  /\ place \in {"contain", "reap"} => timedOut
  /\ gaveUp => timedOut /\ place \in {"collect", "settle", "abandoned", "returned"}
  /\ place \in {"collect", "settle"} => child = "reaped" \/ gaveUp
  /\ child = "reaped" => place \in {"collect", "settle", "abandoned", "returned"}

(* A call that has returned: nothing but a child it gave up on can still   *)
(* take a step.                                                            *)
Returned ==
  place = "returned" =>
    /\ ~scripts
    /\ fds # {} => child = "none" /\ outcome = "Err"
    /\ leaf = "none" \/ (gaveUp /\ leaf = "limited")
    /\ child \in {"none", "reaped"} \/ (gaveUp /\ "ok" \in said)
    /\ child \in {"ready", "running"} => leaf = "limited"
    /\ outcome \in {"Err", "SetupError"} <=> "ok" \notin said
    /\ outcome = "Clean" => child = "reaped" /\ ~timedOut
    /\ outcome = "OomKilled" => oom

WorkerInv ==
  /\ WorkerPlaces /\ BeforeTheClone /\ Confinement /\ HeldEnds
  /\ Handshaken /\ OpenEnds /\ Deadlines /\ Returned

LEMMA WorkerStarts == WorkerInit => WorkerInv
<1> SUFFICES ASSUME WorkerInit PROVE WorkerInv
  OBVIOUS
<1>1. WorkerPlaces /\ BeforeTheClone /\ Confinement /\ HeldEnds
  BY DEF WorkerInit, WorkerPlaces, BeforeTheClone, Confinement, HeldEnds, Preparing, Young
<1>2. Handshaken
  BY DEF WorkerInit, Handshaken, Preparing, Shaking, Past
<1>3. OpenEnds /\ Deadlines /\ Returned
  BY DEF WorkerInit, OpenEnds, Deadlines, Returned
<1> QED BY <1>1, <1>2, <1>3 DEF WorkerInv

LEMMA WorkerParts ==
  ASSUME WorkerInv
  PROVE  /\ WorkerPlaces /\ BeforeTheClone /\ Confinement /\ HeldEnds
         /\ Handshaken /\ OpenEnds /\ Deadlines /\ Returned
BY DEF WorkerInv

(* A step of the parent: the child stays where it is, or is reaped.        *)
LEMMA TheChildStands ==
  ASSUME WorkerInv, UNCHANGED <<childEnds, confined, ran>>,
         child' = child \/ child' = "reaped",
         said' = said \/ said' = said \cup {"ack"}
  PROVE  Confinement' /\ HeldEnds'
BY WorkerParts DEF Confinement, HeldEnds, Young

(* A step of a live child or of the kernel: the parent stays where it is.  *)
LEMMA TheParentStands ==
  ASSUME WorkerInv, UNCHANGED <<place, leaf, scripts, fds, timedOut, gaveUp, outcome>>,
         child \in Young \cup {"ready", "running"}, child' \notin {"none", "reaped"},
         said \subseteq said', oom => oom'
  PROVE  BeforeTheClone' /\ OpenEnds' /\ Deadlines' /\ Returned'
<1>0. BeforeTheClone /\ Confinement /\ OpenEnds /\ Deadlines /\ Returned
  BY WorkerParts
<1>1. BeforeTheClone' /\ OpenEnds'
  BY <1>0 DEF BeforeTheClone, OpenEnds, Young
<1>2. Deadlines'
  BY <1>0 DEF Deadlines, Young
<1>3. Returned'
  <2> SUFFICES ASSUME place = "returned" PROVE Returned'
    BY DEF Returned
  <2>1. ~scripts /\ fds = {} /\ gaveUp /\ "ok" \in said
    BY <1>0 DEF Returned, Young
  <2>2. child \in {"ready", "running"} /\ leaf = "limited"
    BY <1>0, <2>1 DEF Confinement, Returned
  <2>3. /\ "ok" \in said' /\ outcome \notin {"Err", "SetupError", "Clean"}
        /\ outcome = "OomKilled" => oom'
    BY <1>0, <2>1, <2>2 DEF Returned
  <2> QED BY <2>1, <2>2, <2>3 DEF Returned
<1> QED BY <1>1, <1>2, <1>3

(* Preparation: no child yet.                                              *)
LEMMA WorkerPrepares ==
  ASSUME WorkerInv, Prepare
  PROVE  WorkerInv'
<1>0. WorkerPlaces /\ BeforeTheClone /\ Confinement /\ HeldEnds /\ Handshaken
     /\ OpenEnds /\ Deadlines /\ Returned
  BY WorkerParts
<1>1. CASE MakeLeaf
  <2>1. /\ place = "start" /\ place' = "leaf"
        /\ UNCHANGED <<scripts, fds>>
        /\ UNCHANGED <<child, childEnds, confined, ran>>
        /\ UNCHANGED <<said, oom, timedOut, gaveUp>>
    BY <1>1 DEF MakeLeaf, Proceed, PreparationOnly,
           process
  <2>2. Confinement' /\ HeldEnds'
    BY <2>1, TheChildStands
  <2>3. WorkerPlaces' /\ BeforeTheClone'
    BY <1>0, <2>1 DEF WorkerPlaces, BeforeTheClone, Preparing, Shaking, Past
  <2>4. Handshaken' /\ Deadlines'
    BY <1>0, <2>1 DEF Handshaken, Deadlines, Preparing, Shaking, Past
  <2>5. OpenEnds' /\ Returned'
    BY <1>0, <2>1 DEF OpenEnds, Returned, BeforeTheClone, Preparing
  <2> QED BY <2>2, <2>3, <2>4, <2>5 DEF WorkerInv
<1>2. CASE LimitLeaf
  <2>1. /\ place = "leaf" /\ place' = "limited"
        /\ leaf' = "limited" /\ UNCHANGED <<scripts, fds>>
        /\ UNCHANGED <<child, childEnds, confined, ran>>
        /\ UNCHANGED <<said, oom, timedOut, gaveUp>>
    BY <1>2 DEF LimitLeaf, Proceed, PreparationOnly,
           process
  <2>2. Confinement' /\ HeldEnds'
    BY <2>1, TheChildStands
  <2>3. WorkerPlaces' /\ BeforeTheClone'
    BY <1>0, <2>1 DEF WorkerPlaces, BeforeTheClone, Preparing, Shaking, Past
  <2>4. Handshaken' /\ Deadlines'
    BY <1>0, <2>1 DEF Handshaken, Deadlines, Preparing, Shaking, Past
  <2>5. OpenEnds' /\ Returned'
    BY <1>0, <2>1 DEF OpenEnds, Returned, BeforeTheClone, Preparing
  <2> QED BY <2>2, <2>3, <2>4, <2>5 DEF WorkerInv
<1>3. CASE MakeScripts
  <2>1. /\ place = "limited" /\ place' = "scripts"
        /\ UNCHANGED <<leaf, fds>>
        /\ UNCHANGED <<child, childEnds, confined, ran>>
        /\ UNCHANGED <<said, oom, timedOut, gaveUp>>
    BY <1>3 DEF MakeScripts, Proceed, PreparationOnly,
           process
  <2>2. Confinement' /\ HeldEnds'
    BY <2>1, TheChildStands
  <2>3. WorkerPlaces' /\ BeforeTheClone'
    BY <1>0, <2>1 DEF WorkerPlaces, BeforeTheClone, Preparing, Shaking, Past
  <2>4. Handshaken' /\ Deadlines'
    BY <1>0, <2>1 DEF Handshaken, Deadlines, Preparing, Shaking, Past
  <2>5. OpenEnds' /\ Returned'
    BY <1>0, <2>1 DEF OpenEnds, Returned, BeforeTheClone, Preparing
  <2> QED BY <2>2, <2>3, <2>4, <2>5 DEF WorkerInv
<1>4. CASE MakePipes
  <2>1. /\ place = "scripts" /\ place' = "pipes"
        /\ UNCHANGED leaf
        /\ UNCHANGED <<child, childEnds, confined, ran>>
        /\ UNCHANGED <<said, oom, timedOut, gaveUp>>
    BY <1>4 DEF MakePipes, Proceed, PreparationOnly,
           process
  <2>2. Confinement' /\ HeldEnds'
    BY <2>1, TheChildStands
  <2>3. WorkerPlaces' /\ BeforeTheClone'
    BY <1>0, <2>1 DEF WorkerPlaces, BeforeTheClone, Preparing, Shaking, Past
  <2>4. Handshaken' /\ Deadlines'
    BY <1>0, <2>1 DEF Handshaken, Deadlines, Preparing, Shaking, Past
  <2>5. OpenEnds' /\ Returned'
    BY <1>0, <2>1 DEF OpenEnds, Returned, BeforeTheClone, Preparing
  <2> QED BY <2>2, <2>3, <2>4, <2>5 DEF WorkerInv
<1>5. CASE Clone
  <2>1. /\ place = "pipes" /\ place' = "cloned"
        /\ child' = "started" /\ childEnds' = {"code", "ready", "ack", "out"}
        /\ fds' = {<<"ack", "w">>, <<"code", "r">>, <<"ready", "r">>, <<"out", "r">>}
        /\ UNCHANGED <<leaf, scripts, said, confined, oom, timedOut, gaveUp, ran>>
    BY <1>5 DEF Clone, Proceed, Pipes, WriteEnd,
           ReadEnd
  <2>2. Confinement' /\ HeldEnds'
    BY <1>0, <2>1 DEF BeforeTheClone, Confinement, HeldEnds, Preparing, Young
  <2>3. WorkerPlaces' /\ BeforeTheClone'
    BY <1>0, <2>1 DEF WorkerPlaces, BeforeTheClone, Preparing, Shaking, Past,
           Young
  <2>4. Handshaken' /\ Deadlines'
    <3>1. said = {} /\ leaf = "limited" /\ ~gaveUp
      BY <1>0, <2>1 DEF BeforeTheClone, Handshaken, Deadlines, Preparing
    <3>2. Handshaken'
      BY <2>1, <3>1 DEF Handshaken, Preparing, Past
    <3>3. Deadlines'
      BY <2>1, <3>1 DEF Deadlines
    <3> QED BY <3>2, <3>3
  <2>5. OpenEnds' /\ Returned'
    BY <1>0, <2>1 DEF OpenEnds, Returned, BeforeTheClone, Preparing
  <2> QED BY <2>2, <2>3, <2>4, <2>5 DEF WorkerInv
<1>6. CASE PrepareFails
  <2>1. /\ place \in {"start", "leaf", "limited"} /\ place' = "returned"
        /\ child = "none" => leaf' = "none"
        /\ outcome' = "Err"
        /\ UNCHANGED <<scripts, fds>>
        /\ UNCHANGED <<child, childEnds, confined, ran>>
        /\ UNCHANGED <<said, oom, timedOut, gaveUp>>
    BY <1>6 DEF PrepareFails, Return, LeafRemoved,
           Alive, PreparationOnly, process
  <2>2. Confinement' /\ HeldEnds'
    BY <2>1, TheChildStands
  <2>3. WorkerPlaces' /\ BeforeTheClone'
    BY <1>0, <2>1 DEF WorkerPlaces, BeforeTheClone, Preparing, Shaking, Past
  <2>4. Handshaken' /\ Deadlines'
    BY <1>0, <2>1 DEF Handshaken, Deadlines, Preparing, Shaking, Past
  <2>5. OpenEnds' /\ Returned'
    BY <1>0, <2>1 DEF OpenEnds, Returned, BeforeTheClone, Preparing
  <2> QED BY <2>2, <2>3, <2>4, <2>5 DEF WorkerInv
<1>7. CASE PipesFail
  <2>1. /\ place = "scripts" /\ place' = "returned"
        /\ child = "none" => leaf' = "none"
        /\ outcome' = "Err" /\ scripts' = FALSE
        /\ UNCHANGED <<child, childEnds, confined, ran>>
        /\ UNCHANGED <<said, oom, timedOut, gaveUp>>
    BY <1>7 DEF PipesFail, Return, LeafRemoved,
           Alive, PreparationOnly, process
  <2>2. Confinement' /\ HeldEnds'
    BY <2>1, TheChildStands
  <2>3. WorkerPlaces' /\ BeforeTheClone'
    BY <1>0, <2>1 DEF WorkerPlaces, BeforeTheClone, Preparing, Shaking, Past
  <2>4. Handshaken' /\ Deadlines'
    BY <1>0, <2>1 DEF Handshaken, Deadlines, Preparing, Shaking, Past
  <2>5. OpenEnds' /\ Returned'
    BY <1>0, <2>1 DEF OpenEnds, Returned, BeforeTheClone, Preparing
  <2> QED BY <2>2, <2>3, <2>4, <2>5 DEF WorkerInv
<1>8. CASE CloneFails
  <2>1. /\ place = "pipes" /\ place' = "returned"
        /\ child = "none" => leaf' = "none"
        /\ outcome' = "Err" /\ scripts' = FALSE
        /\ UNCHANGED <<child, childEnds, confined, ran>>
        /\ UNCHANGED <<said, oom, timedOut, gaveUp>>
    BY <1>8 DEF CloneFails, Return, LeafRemoved,
           Alive, PreparationOnly, process
  <2>2. Confinement' /\ HeldEnds'
    BY <2>1, TheChildStands
  <2>3. WorkerPlaces' /\ BeforeTheClone'
    BY <1>0, <2>1 DEF WorkerPlaces, BeforeTheClone, Preparing, Shaking, Past
  <2>4. Handshaken' /\ Deadlines'
    BY <1>0, <2>1 DEF Handshaken, Deadlines, Preparing, Shaking, Past
  <2>5. OpenEnds' /\ Returned'
    BY <1>0, <2>1 DEF OpenEnds, Returned, BeforeTheClone, Preparing
  <2> QED BY <2>2, <2>3, <2>4, <2>5 DEF WorkerInv
<1> QED BY <1>1, <1>2, <1>3, <1>4, <1>5, <1>6, <1>7, <1>8 DEF Prepare

(* The handshake, and the clean-up after a failed one.                     *)
LEMMA WorkerShakesHands ==
  ASSUME WorkerInv, Handshake
  PROVE  WorkerInv'
<1>0. WorkerPlaces /\ BeforeTheClone /\ Confinement /\ HeldEnds /\ Handshaken
     /\ OpenEnds /\ Deadlines /\ Returned
  BY WorkerParts
<1>1. CASE AwaitReady
  <2>1. /\ place = "cloned" /\ place' = "mapping"
        /\ fds' = fds \ {<<"ready", "r">>}
        /\ UNCHANGED <<child, childEnds, confined, ran>>
        /\ UNCHANGED <<leaf, scripts, said, oom, timedOut, gaveUp>>
    BY <1>1 DEF AwaitReady, Proceed, ParentOnly,
           process, ReadEnd
  <2>2. Confinement' /\ HeldEnds'
    BY <2>1, TheChildStands
  <2>3. WorkerPlaces' /\ BeforeTheClone'
    BY <1>0, <2>1 DEF WorkerPlaces, BeforeTheClone, Preparing, Shaking, Past
  <2>4. Handshaken' /\ Deadlines'
    BY <1>0, <2>1 DEF Handshaken, Deadlines, Preparing, Shaking, Past
  <2>5. OpenEnds' /\ Returned'
    BY <1>0, <2>1 DEF OpenEnds, Returned
  <2> QED BY <2>2, <2>3, <2>4, <2>5 DEF WorkerInv
<1>2. CASE WriteMaps
  <2>1. /\ place = "mapping" /\ place' = "setup"
        /\ fds' = fds \ {<<"ack", "w">>} /\ said' = said \cup {"ack"}
        /\ UNCHANGED <<child, childEnds, confined, ran>>
        /\ UNCHANGED <<leaf, scripts, oom, timedOut, gaveUp>>
    BY <1>2 DEF WriteMaps, Proceed, ParentOnly,
           process, WriteEnd
  <2>2. Confinement' /\ HeldEnds'
    BY <2>1, TheChildStands
  <2>3. WorkerPlaces' /\ BeforeTheClone'
    BY <1>0, <2>1 DEF WorkerPlaces, BeforeTheClone, Preparing, Shaking, Past
  <2>4. Handshaken' /\ Deadlines'
    BY <1>0, <2>1 DEF Handshaken, Deadlines, Preparing, Shaking, Past
  <2>5. OpenEnds' /\ Returned'
    BY <1>0, <2>1 DEF OpenEnds, Returned
  <2> QED BY <2>2, <2>3, <2>4, <2>5 DEF WorkerInv
<1>3. CASE MapsFail
  <2>1. /\ place = "mapping" /\ place' = "mapFailed"
        /\ fds' = fds \ {<<"ack", "w">>}
        /\ UNCHANGED <<child, childEnds, confined, ran>>
        /\ UNCHANGED <<leaf, scripts, said, oom, timedOut, gaveUp>>
    BY <1>3 DEF MapsFail, Proceed, ParentOnly,
           process, WriteEnd
  <2>2. Confinement' /\ HeldEnds'
    BY <2>1, TheChildStands
  <2>3. WorkerPlaces' /\ BeforeTheClone'
    BY <1>0, <2>1 DEF WorkerPlaces, BeforeTheClone, Preparing, Shaking, Past
  <2>4. Handshaken' /\ Deadlines'
    BY <1>0, <2>1 DEF Handshaken, Deadlines, Preparing, Shaking, Past
  <2>5. OpenEnds' /\ Returned'
    BY <1>0, <2>1 DEF OpenEnds, Returned
  <2> QED BY <2>2, <2>3, <2>4, <2>5 DEF WorkerInv
<1>4. CASE ReadSetup
  <2>1. /\ place = "setup"
        /\ "ok" \in said \/ "failed" \in said \/ "code" \notin childEnds
        /\ place' = IF "ok" \in said THEN "polling" ELSE "setupFailed"
        /\ fds' = fds \ {<<"code", "r">>}
        /\ UNCHANGED <<child, childEnds, confined, ran>>
        /\ UNCHANGED <<leaf, scripts, said, oom, timedOut, gaveUp>>
    BY <1>4 DEF ReadSetup, SetupRead, Readable,
           ParentOnly, process, ReadEnd
  <2>2. Confinement' /\ HeldEnds'
    BY <2>1, TheChildStands
  <2>3. WorkerPlaces' /\ BeforeTheClone'
    BY <1>0, <2>1 DEF WorkerPlaces, BeforeTheClone, Preparing, Shaking, Past
  <2>4. Handshaken' /\ Deadlines'
    <3>1. leaf = "limited" /\ ~gaveUp
      BY <1>0, <2>1 DEF Handshaken, Deadlines, Shaking
    <3>2. child \notin {"none", "reaped"}
      BY <1>0, <2>1 DEF BeforeTheClone, Deadlines, Preparing
    <3>3. "ok" \notin said => child = "dead"
      BY <1>0, <2>1, <3>2 DEF WorkerPlaces, Confinement, HeldEnds, Young
    <3>4. Handshaken'
      BY <2>1, <3>1, <3>3 DEF Handshaken, Preparing, Past
    <3>5. Deadlines'
      BY <2>1, <3>1, <3>2 DEF Deadlines
    <3> QED BY <3>4, <3>5
  <2>5. OpenEnds' /\ Returned'
    BY <1>0, <2>1 DEF OpenEnds, Returned
  <2> QED BY <2>2, <2>3, <2>4, <2>5 DEF WorkerInv
<1>5. CASE ReapFailedChild
  <2>1. /\ place \in {"mapFailed", "setupFailed"} /\ place' = "returned"
        /\ child = "dead" /\ child' = "reaped"
        /\ scripts' = FALSE /\ fds' = {} /\ leaf' = "none"
        /\ outcome' \in {"Err", "SetupError"}
        /\ UNCHANGED <<childEnds, confined, ran, said, oom, timedOut, gaveUp>>
    BY <1>5 DEF ReapFailedChild, FdsAfterReap,
           LeafRemoved, Alive
  <2>2. Confinement' /\ HeldEnds'
    BY <2>1, TheChildStands
  <2>3. WorkerPlaces' /\ BeforeTheClone'
    BY <1>0, <2>1 DEF WorkerPlaces, BeforeTheClone, Preparing, Shaking, Past
  <2>4. Handshaken' /\ Deadlines'
    BY <1>0, <2>1 DEF Handshaken, Deadlines, Preparing, Shaking, Past
  <2>5. OpenEnds' /\ Returned'
    BY <1>0, <2>1 DEF OpenEnds, Returned, Handshaken
  <2> QED BY <2>2, <2>3, <2>4, <2>5 DEF WorkerInv
<1> QED BY <1>1, <1>2, <1>3, <1>4, <1>5 DEF Handshake

(* Polling, containment and clean-up.                                      *)
LEMMA WorkerWatches ==
  ASSUME WorkerInv, Watch \/ Abandon
  PROVE  WorkerInv'
<1>0. WorkerPlaces /\ BeforeTheClone /\ Confinement /\ HeldEnds /\ Handshaken
     /\ OpenEnds /\ Deadlines /\ Returned
  BY WorkerParts
<1>1. CASE PollReaps
  <2>1. /\ place = "polling" /\ place' = "collect"
        /\ child = "dead" /\ child' = "reaped"
        /\ UNCHANGED <<childEnds, confined, ran, timedOut>>
        /\ UNCHANGED <<leaf, scripts, fds, said, oom, gaveUp>>
    BY <1>1 DEF PollReaps, Proceed
  <2>2. Confinement' /\ HeldEnds'
    BY <2>1, TheChildStands
  <2>3. WorkerPlaces' /\ BeforeTheClone'
    BY <1>0, <2>1 DEF WorkerPlaces, BeforeTheClone, Preparing, Shaking, Past
  <2>4. Handshaken' /\ Deadlines'
    BY <1>0, <2>1 DEF Handshaken, Deadlines, Preparing, Shaking, Past
  <2>5. OpenEnds' /\ Returned'
    BY <1>0, <2>1 DEF OpenEnds, Returned
  <2> QED BY <2>2, <2>3, <2>4, <2>5 DEF WorkerInv
<1>2. CASE PollTimesOut
  <2>1. /\ place = "polling" /\ place' = "contain"
        /\ timedOut' = TRUE
        /\ UNCHANGED <<child, childEnds, confined, ran>>
        /\ UNCHANGED <<leaf, scripts, fds, said, oom, gaveUp>>
    BY <1>2 DEF PollTimesOut, Proceed, process
  <2>2. Confinement' /\ HeldEnds'
    BY <2>1, TheChildStands
  <2>3. WorkerPlaces' /\ BeforeTheClone'
    BY <1>0, <2>1 DEF WorkerPlaces, BeforeTheClone, Preparing, Shaking, Past
  <2>4. Handshaken' /\ Deadlines'
    BY <1>0, <2>1 DEF Handshaken, Deadlines, Preparing, Shaking, Past
  <2>5. OpenEnds' /\ Returned'
    BY <1>0, <2>1 DEF OpenEnds, Returned
  <2> QED BY <2>2, <2>3, <2>4, <2>5 DEF WorkerInv
<1>3. CASE Contain
  <2>1. /\ place = "contain" /\ place' = "reap"
        /\ UNCHANGED timedOut
        /\ UNCHANGED <<child, childEnds, confined, ran>>
        /\ UNCHANGED <<leaf, scripts, fds, said, oom, gaveUp>>
    BY <1>3 DEF Contain, Proceed, process
  <2>2. Confinement' /\ HeldEnds'
    BY <2>1, TheChildStands
  <2>3. WorkerPlaces' /\ BeforeTheClone'
    BY <1>0, <2>1 DEF WorkerPlaces, BeforeTheClone, Preparing, Shaking, Past
  <2>4. Handshaken' /\ Deadlines'
    BY <1>0, <2>1 DEF Handshaken, Deadlines, Preparing, Shaking, Past
  <2>5. OpenEnds' /\ Returned'
    BY <1>0, <2>1 DEF OpenEnds, Returned
  <2> QED BY <2>2, <2>3, <2>4, <2>5 DEF WorkerInv
<1>4. CASE ReapKilled
  <2>1. /\ place = "reap" /\ place' = "collect"
        /\ child = "dead" /\ child' = "reaped"
        /\ UNCHANGED <<childEnds, confined, ran, timedOut>>
        /\ UNCHANGED <<leaf, scripts, fds, said, oom, gaveUp>>
    BY <1>4 DEF ReapKilled, Proceed
  <2>2. Confinement' /\ HeldEnds'
    BY <2>1, TheChildStands
  <2>3. WorkerPlaces' /\ BeforeTheClone'
    BY <1>0, <2>1 DEF WorkerPlaces, BeforeTheClone, Preparing, Shaking, Past
  <2>4. Handshaken' /\ Deadlines'
    BY <1>0, <2>1 DEF Handshaken, Deadlines, Preparing, Shaking, Past
  <2>5. OpenEnds' /\ Returned'
    BY <1>0, <2>1 DEF OpenEnds, Returned
  <2> QED BY <2>2, <2>3, <2>4, <2>5 DEF WorkerInv
<1>5. CASE GiveUp
  <2>1. /\ place = "reap" /\ place' = "collect"
        /\ gaveUp' = TRUE
        /\ UNCHANGED <<child, childEnds, confined, ran>>
        /\ UNCHANGED <<leaf, scripts, fds, said, oom, timedOut>>
    BY <1>5 DEF GiveUp, Proceed, process
  <2>2. Confinement' /\ HeldEnds'
    BY <2>1, TheChildStands
  <2>3. WorkerPlaces' /\ BeforeTheClone'
    BY <1>0, <2>1 DEF WorkerPlaces, BeforeTheClone, Preparing, Shaking, Past
  <2>4. Handshaken' /\ Deadlines'
    BY <1>0, <2>1 DEF Handshaken, Deadlines, Preparing, Shaking, Past
  <2>5. OpenEnds' /\ Returned'
    BY <1>0, <2>1 DEF OpenEnds, Returned
  <2> QED BY <2>2, <2>3, <2>4, <2>5 DEF WorkerInv
<1>6. CASE Collect
  <2>1. /\ place = "collect" /\ place' = "settle"
        /\ fds' = fds \ {<<"out", "r">>} /\ scripts' = FALSE
        /\ UNCHANGED <<child, childEnds, confined, ran>>
        /\ UNCHANGED <<leaf, said, oom, timedOut, gaveUp>>
    BY <1>6 DEF Collect, Proceed, ParentOnly,
           process, ReadEnd
  <2>2. Confinement' /\ HeldEnds'
    BY <2>1, TheChildStands
  <2>3. WorkerPlaces' /\ BeforeTheClone'
    BY <1>0, <2>1 DEF WorkerPlaces, BeforeTheClone, Preparing, Shaking, Past
  <2>4. Handshaken' /\ Deadlines'
    BY <1>0, <2>1 DEF Handshaken, Deadlines, Preparing, Shaking, Past
  <2>5. OpenEnds' /\ Returned'
    BY <1>0, <2>1 DEF OpenEnds, Returned
  <2> QED BY <2>2, <2>3, <2>4, <2>5 DEF WorkerInv
<1>7. CASE Finish
  <2>1. /\ place = "settle" /\ place' = "returned"
        /\ outcome' \in {"OomKilled", "Timeout", "Clean"}
        /\ outcome' = "Clean" => ~timedOut
        /\ outcome' = "OomKilled" => oom
        /\ leaf' = leaf \/ leaf' = "none"
        /\ child = "reaped" => leaf' = "none"
        /\ child \in {"ready", "running"} /\ "leaf" \in confined => leaf' = leaf
        /\ UNCHANGED <<scripts, fds>>
        /\ UNCHANGED <<child, childEnds, confined, ran>>
        /\ UNCHANGED <<said, oom, timedOut, gaveUp>>
    <3>1. /\ place = "settle" /\ UNCHANGED <<scripts, fds, said>>
          /\ UNCHANGED <<child, childEnds, confined, ran, oom, timedOut, gaveUp>>
      BY <1>7 DEF Finish, ParentOnly, process
    <3>2. PICK oomRead \in {oom, FALSE} : Return(Verdict(oomRead))
      BY <1>7 DEF Finish
    <3>3. place' = "returned" /\ outcome' = Verdict(oomRead) /\ leaf' = LeafRemoved
      BY <3>2 DEF Return
    <3>4. /\ outcome' \in {"OomKilled", "Timeout", "Clean"}
          /\ outcome' = "Clean" => ~timedOut
          /\ outcome' = "OomKilled" => oom
      <4>1. oomRead => oom
        BY <3>2, Zenon
      <4>2. CASE oomRead
        BY <3>3, <4>1, <4>2 DEF Verdict
      <4>3. CASE ~oomRead
        BY <3>3, <4>3 DEF Verdict
      <4> QED BY <4>2, <4>3
    <3>5. /\ leaf' = leaf \/ leaf' = "none"
          /\ child = "reaped" => leaf' = "none"
          /\ child \in {"ready", "running"} /\ "leaf" \in confined => leaf' = leaf
      BY <3>3 DEF LeafRemoved, Alive
    <3> QED BY <3>1, <3>3, <3>4, <3>5
  <2>2. Confinement' /\ HeldEnds'
    BY <2>1, TheChildStands
  <2>3. WorkerPlaces' /\ BeforeTheClone'
    BY <1>0, <2>1 DEF WorkerPlaces, BeforeTheClone, Preparing, Shaking, Past
  <2>4. Handshaken' /\ Deadlines'
    BY <1>0, <2>1 DEF Handshaken, Deadlines, Preparing, Shaking, Past
  <2>5. OpenEnds' /\ Returned'
    BY <1>0, <2>1 DEF OpenEnds, Returned, Deadlines, Handshaken, Confinement,
           Past, WorkerPlaces
  <2> QED BY <2>2, <2>3, <2>4, <2>5 DEF WorkerInv
<1>8. CASE Abandon
  <2>1. /\ place \in {"polling", "settle"} /\ place' = "abandoned"
        /\ UNCHANGED <<child, childEnds, confined, ran>>
        /\ UNCHANGED <<leaf, scripts, said, oom, timedOut, gaveUp>>
    BY <1>8 DEF Abandon, ParentOnly, process
  <2>2. Confinement' /\ HeldEnds'
    BY <2>1, TheChildStands
  <2>3. WorkerPlaces' /\ BeforeTheClone'
    BY <1>0, <2>1 DEF WorkerPlaces, BeforeTheClone, Preparing, Shaking, Past
  <2>4. Handshaken' /\ Deadlines'
    BY <1>0, <2>1 DEF Handshaken, Deadlines, Preparing, Shaking, Past
  <2>5. OpenEnds' /\ Returned'
    BY <1>0, <2>1 DEF OpenEnds, Returned
  <2> QED BY <2>2, <2>3, <2>4, <2>5 DEF WorkerInv
<1> QED BY <1>1, <1>2, <1>3, <1>4, <1>5, <1>6, <1>7, <1>8 DEF Watch

(* The child's own steps.                                                  *)
LEMMA ChildSteps ==
  ASSUME WorkerInv, Child
  PROVE  WorkerInv'
<1>0. WorkerPlaces /\ BeforeTheClone /\ Confinement /\ HeldEnds /\ Handshaken
     /\ OpenEnds /\ Deadlines /\ Returned
  BY WorkerParts
<1>1. CASE ChildReady
  <2>1. /\ child = "started" /\ child' = "waiting"
        /\ said' = said \cup {"ready"} /\ childEnds' = childEnds \ {"ready"}
        /\ UNCHANGED <<confined, ran, oom>>
        /\ UNCHANGED <<place, leaf, scripts, fds, timedOut, gaveUp, outcome>>
    BY <1>1 DEF ChildReady, ChildOnly, parent
  <2>2. BeforeTheClone' /\ OpenEnds' /\ Deadlines' /\ Returned'
    BY <2>1, TheParentStands DEF Young
  <2>3. WorkerPlaces' /\ Confinement' /\ HeldEnds'
    BY <1>0, <2>1 DEF WorkerPlaces, Confinement, HeldEnds, Young
  <2>4. Handshaken'
    BY <1>0, <2>1 DEF Handshaken, Confinement, Young
  <2> QED BY <2>2, <2>3, <2>4 DEF WorkerInv
<1>2. CASE ChildAcked
  <2>1. /\ child = "waiting" /\ child' = "entering"
        /\ "ack" \in said \/ "ack" \notin childEnds
        /\ UNCHANGED <<said, childEnds, confined, ran, oom>>
        /\ UNCHANGED <<place, leaf, scripts, fds, timedOut, gaveUp, outcome>>
    BY <1>2 DEF ChildAcked, ChildOnly, parent,
           Readable
  <2>2. BeforeTheClone' /\ OpenEnds' /\ Deadlines' /\ Returned'
    BY <2>1, TheParentStands DEF Young
  <2>3. WorkerPlaces' /\ Confinement' /\ HeldEnds'
    BY <1>0, <2>1 DEF WorkerPlaces, Confinement, HeldEnds, Young
  <2>4. Handshaken'
    BY <1>0, <2>1 DEF Handshaken, Confinement, Young, HeldEnds
  <2> QED BY <2>2, <2>3, <2>4 DEF WorkerInv
<1>3. CASE EnterLeaf
  <2>1. /\ child = "entering" /\ child' = "filtering"
        /\ confined' = confined \cup {"leaf"}
        /\ UNCHANGED <<said, childEnds, ran, oom>>
        /\ UNCHANGED <<place, leaf, scripts, fds, timedOut, gaveUp, outcome>>
    BY <1>3 DEF EnterLeaf, ChildOnly, parent
  <2>2. BeforeTheClone' /\ OpenEnds' /\ Deadlines' /\ Returned'
    BY <2>1, TheParentStands DEF Young
  <2>3. WorkerPlaces' /\ Confinement' /\ HeldEnds'
    BY <1>0, <2>1 DEF WorkerPlaces, Confinement, HeldEnds, Young
  <2>4. Handshaken'
    BY <1>0, <2>1 DEF Handshaken, Confinement, Young
  <2> QED BY <2>2, <2>3, <2>4 DEF WorkerInv
<1>4. CASE EntryFails
  <2>1. /\ child = "entering" /\ child' = "dead"
        /\ said' = said \cup {"failed"}
        /\ UNCHANGED <<confined, ran, oom>>
        /\ UNCHANGED <<place, leaf, scripts, fds, timedOut, gaveUp, outcome>>
    BY <1>4 DEF EntryFails, ChildOnly, parent
  <2>2. BeforeTheClone' /\ OpenEnds' /\ Deadlines' /\ Returned'
    BY <2>1, TheParentStands DEF Young
  <2>3. WorkerPlaces' /\ Confinement' /\ HeldEnds'
    BY <1>0, <2>1 DEF WorkerPlaces, Confinement, HeldEnds, Young
  <2>4. Handshaken'
    BY <1>0, <2>1 DEF Handshaken, Confinement, Young
  <2> QED BY <2>2, <2>3, <2>4 DEF WorkerInv
<1>5. CASE InstallFilter
  <2>1. /\ child = "filtering" /\ child' = "ready"
        /\ confined' = confined \cup {"filter"} /\ said' = said \cup {"ok"}
        /\ UNCHANGED <<ran, oom>>
        /\ UNCHANGED <<place, leaf, scripts, fds, timedOut, gaveUp, outcome>>
    BY <1>5 DEF InstallFilter, ChildOnly, parent
  <2>2. BeforeTheClone' /\ OpenEnds' /\ Deadlines' /\ Returned'
    BY <2>1, TheParentStands DEF Young
  <2>3. WorkerPlaces' /\ Confinement' /\ HeldEnds'
    BY <1>0, <2>1 DEF WorkerPlaces, Confinement, HeldEnds, Young
  <2>4. Handshaken'
    BY <1>0, <2>1 DEF Handshaken, Confinement, Young
  <2> QED BY <2>2, <2>3, <2>4 DEF WorkerInv
<1>6. CASE FilterFails
  <2>1. /\ child = "filtering" /\ child' = "dead"
        /\ said' = said \cup {"failed"}
        /\ UNCHANGED <<confined, ran, oom>>
        /\ UNCHANGED <<place, leaf, scripts, fds, timedOut, gaveUp, outcome>>
    BY <1>6 DEF FilterFails, ChildOnly, parent
  <2>2. BeforeTheClone' /\ OpenEnds' /\ Deadlines' /\ Returned'
    BY <2>1, TheParentStands DEF Young
  <2>3. WorkerPlaces' /\ Confinement' /\ HeldEnds'
    BY <1>0, <2>1 DEF WorkerPlaces, Confinement, HeldEnds, Young
  <2>4. Handshaken'
    BY <1>0, <2>1 DEF Handshaken, Confinement, Young
  <2> QED BY <2>2, <2>3, <2>4 DEF WorkerInv
<1>7. CASE RunProgram
  <2>1. /\ child = "ready" /\ child' = "running"
        /\ UNCHANGED <<said, confined, oom>>
        /\ UNCHANGED <<place, leaf, scripts, fds, timedOut, gaveUp, outcome>>
    BY <1>7 DEF RunProgram, ChildOnly, parent
  <2>2. BeforeTheClone' /\ OpenEnds' /\ Deadlines' /\ Returned'
    BY <2>1, TheParentStands DEF Young
  <2>3. WorkerPlaces' /\ Confinement' /\ HeldEnds'
    BY <1>0, <2>1 DEF WorkerPlaces, Confinement, HeldEnds, Young
  <2>4. Handshaken'
    BY <1>0, <2>1 DEF Handshaken, Confinement, Young
  <2> QED BY <2>2, <2>3, <2>4 DEF WorkerInv
<1> QED BY <1>1, <1>2, <1>3, <1>4, <1>5, <1>6, <1>7 DEF Child

(* What ends the child from outside.                                       *)
LEMMA KernelSteps ==
  ASSUME WorkerInv, ChildDies \/ OomKill \/ KillArrives
  PROVE  WorkerInv'
<1>0. WorkerPlaces /\ BeforeTheClone /\ Confinement /\ HeldEnds /\ Handshaken
     /\ OpenEnds /\ Deadlines /\ Returned
  BY WorkerParts
<1>1. CASE ChildDies
  <2>1. /\ child \in Young \cup {"ready", "running"} /\ child' = "dead"
        /\ UNCHANGED <<said, confined, ran, oom>>
        /\ UNCHANGED <<place, leaf, scripts, fds, timedOut, gaveUp, outcome>>
    BY <1>1 DEF ChildDies, ChildOnly, parent,
           Alive, Young
  <2>2. BeforeTheClone' /\ OpenEnds' /\ Deadlines' /\ Returned'
    BY <2>1, TheParentStands DEF Young
  <2>3. WorkerPlaces' /\ Confinement' /\ HeldEnds'
    BY <1>0, <2>1 DEF WorkerPlaces, Confinement, HeldEnds, Young
  <2>4. Handshaken'
    BY <1>0, <2>1 DEF Handshaken, Confinement, Young
  <2> QED BY <2>2, <2>3, <2>4 DEF WorkerInv
<1>2. CASE OomKill
  <2>1. /\ child \in Young \cup {"ready", "running"}
        /\ oom' = TRUE
        /\ child' = "dead" \/ UNCHANGED <<child, childEnds>>
        /\ UNCHANGED <<said, confined, ran>>
        /\ UNCHANGED <<place, leaf, scripts, fds, timedOut, gaveUp, outcome>>
    BY <1>2 DEF OomKill, parent, Alive, Young
  <2>2. BeforeTheClone' /\ OpenEnds' /\ Deadlines' /\ Returned'
    BY <2>1, TheParentStands DEF Young
  <2>3. WorkerPlaces' /\ Confinement' /\ HeldEnds'
    BY <1>0, <2>1 DEF WorkerPlaces, Confinement, HeldEnds, Young
  <2>4. Handshaken'
    BY <1>0, <2>1 DEF Handshaken, Confinement, Young
  <2> QED BY <2>2, <2>3, <2>4 DEF WorkerInv
<1>3. CASE KillArrives
  <2>1. /\ child \in Young \cup {"ready", "running"} /\ child' = "dead"
        /\ UNCHANGED <<said, confined, ran, oom>>
        /\ UNCHANGED <<place, leaf, scripts, fds, timedOut, gaveUp, outcome>>
    BY <1>3 DEF KillArrives, ChildOnly, parent,
           Alive, Young
  <2>2. BeforeTheClone' /\ OpenEnds' /\ Deadlines' /\ Returned'
    BY <2>1, TheParentStands DEF Young
  <2>3. WorkerPlaces' /\ Confinement' /\ HeldEnds'
    BY <1>0, <2>1 DEF WorkerPlaces, Confinement, HeldEnds, Young
  <2>4. Handshaken'
    BY <1>0, <2>1 DEF Handshaken, Confinement, Young
  <2> QED BY <2>2, <2>3, <2>4 DEF WorkerInv
<1> QED BY <1>1, <1>2, <1>3

LEMMA WorkerKeeps == WorkerInv /\ [WorkerNext]_workerVars => WorkerInv'
<1> SUFFICES ASSUME WorkerInv, [WorkerNext]_workerVars PROVE WorkerInv'
  OBVIOUS
<1>1. CASE WorkerNext
  BY <1>1, WorkerPrepares, WorkerShakesHands, WorkerWatches, ChildSteps, KernelSteps
     DEF WorkerNext
<1>2. CASE UNCHANGED workerVars
  <2>1. UNCHANGED <<place, leaf, scripts, fds, child, childEnds, said, confined, oom,
                    timedOut, gaveUp, outcome, ran>>
    BY <1>2 DEF workerVars
  <2>2. WorkerPlaces' /\ BeforeTheClone' /\ Confinement' /\ HeldEnds'
    BY <2>1, WorkerParts DEF WorkerPlaces, BeforeTheClone, Confinement, HeldEnds
  <2>3. Handshaken' /\ OpenEnds' /\ Deadlines' /\ Returned'
    BY <2>1, WorkerParts DEF Handshaken, OpenEnds, Deadlines, Returned
  <2> QED BY <2>2, <2>3 DEF WorkerInv
<1> QED BY <1>1, <1>2

LEMMA WorkerInvHolds == WorkerSpec => []WorkerInv
BY WorkerStarts, WorkerKeeps, PTL DEF WorkerSpec

(* The submitted program runs in its leaf, under its filter and with the   *)
(* limits set, whichever step fails, whoever dies and whenever the call is *)
(* abandoned: sandbox_child_fn reports "ok" after both and before execve,  *)
(* and the parent removes a leaf only from under a child that is gone.     *)
THEOREM ProgramConfinedHolds == WorkerSpec => []ProgramConfined
<1>1. WorkerInv => ProgramConfined
  <2> SUFFICES ASSUME WorkerInv, child = "running"
               PROVE  confined = {"leaf", "filter"} /\ leaf = "limited"
    BY DEF ProgramConfined
  <2>1. confined = {"leaf", "filter"} /\ "ok" \in said
    BY WorkerParts DEF Confinement
  <2>2. place \notin Preparing \cup {"setupFailed", "cloned", "mapping", "mapFailed"}
    BY <2>1, WorkerParts DEF BeforeTheClone, Handshaken
  <2>3. leaf = "limited"
    BY <2>2, WorkerParts DEF WorkerPlaces, Handshaken, Returned, Shaking
  <2> QED BY <2>1, <2>3
<1> QED BY <1>1, WorkerInvHolds, PTL

(* Whatever path run_sandboxed returns on, the scripts, the pipes, the     *)
(* child and the leaf are gone, but for a child that outlived the bounded  *)
(* reap and for pipes made before a pipe2 that failed.                     *)
THEOREM NothingLeftBehindHolds == WorkerSpec => []NothingLeftBehind
<1>1. WorkerInv => NothingLeftBehind
  BY WorkerParts DEF Returned, NothingLeftBehind
<1> QED BY <1>1, WorkerInvHolds, PTL

(* A result of run_sandboxed tells whether the program ran, that its exit  *)
(* was collected in time, and that an OOM kill was one.                    *)
THEOREM ResultTellsWhatRanHolds == WorkerSpec => []ResultTellsWhatRan
<1>1. WorkerInv => ResultTellsWhatRan
  BY WorkerParts DEF Confinement, Returned, ResultTellsWhatRan
<1> QED BY <1>1, WorkerInvHolds, PTL

=============================================================================
