------------------------ MODULE OffPolicyTrainingProofs ------------------------
(***************************************************************************)
(* Proofs about OffPolicyTraining for every configuration its assumptions  *)
(* allow and calls of every length: an update is never taken in an         *)
(* iteration that acted at random, the actor keeps its pace with the       *)
(* critic through delays, early stops, saves and restores, no gradient     *)
(* step uses targets further behind than a copy period allows, and what a  *)
(* stored transition bootstraps from is of its own episode.                *)
(***************************************************************************)
EXTENDS OffPolicyTraining, FiniteSetTheorems, TLAPS

Parts == {"critic", "target", "actor", "actorTarget"}
NetsType == [Parts -> Nat]

ConfigOK(c) ==
    /\ {"algo", "starts", "grad", "delay"} \subseteq DOMAIN c
    /\ c.algo \in Algorithms
    /\ c.starts \in Nat /\ c.grad \in Nat /\ c.delay \in Nat \ {0}

\* The pace of networks n with update counter k under settings c.
Pace(n, k, c) ==
    /\ c.algo \in {"SAC", "TQC"} => n.actor = n.critic
    /\ c.algo = "CrossQ" => k = n.critic /\ n.actor = n.critic \div c.delay
    /\ c.algo = "TD3" => /\ n.actor * c.delay <= n.critic - (k % c.delay)
                         /\ n.actorTarget = n.actor
    /\ c.algo = "MPO" => n.critic <= n.actor

\* A checkpoint restores to a trainer that keeps its pace.
FileOK(d) ==
    /\ d.step \in Nat
    /\ ConfigOK(d.cfg) /\ d.cfg.algo = cfg.algo
    /\ d.nets \in NetsType
    /\ d.cfg.algo = "CrossQ" => d.count \in Nat
    /\ Pace(d.nets, IF d.cfg.algo = "CrossQ" THEN d.count ELSE 0, d.cfg)

CallOK ==
    /\ call.step \in Nat
    /\ globalStep \in Nat
    /\ call.step <= globalStep

IInv ==
    /\ ConfigOK(cfg)
    /\ nets \in NetsType
    /\ count \in Nat
    /\ CallOK
    /\ Pace(nets, count, cfg)
    /\ disk # NoCheckpoint => FileOK(disk)
    /\ UpdatesFollowPolicySteps

-----------------------------------------------------------------------------
(* Arithmetic of the delay.                                                *)

LEMMA DivMod ==
    ASSUME NEW x \in Nat, NEW d \in Nat \ {0}
    PROVE  /\ x \div d \in Nat /\ x % d \in Nat
           /\ x = d * (x \div d) + (x % d) /\ x % d < d
    OBVIOUS

LEMMA ZeroMod ==
    ASSUME NEW d \in Nat \ {0}
    PROVE  0 % d = 0
<1> DEFINE q == 0 \div d
           r == 0 % d
<1>1. q \in Nat /\ r \in Nat /\ 0 = d * q + r
  BY DivMod
<1> HIDE DEF q, r
<1>2. d * q \in Nat
  BY <1>1
<1>3. r = 0
  BY <1>1, <1>2
<1> QED BY <1>3 DEF r

LEMMA DelayedSteps ==
    ASSUME NEW x \in Nat, NEW k \in Nat, NEW d \in Nat \ {0}
    PROVE  /\ (x + k) \div d - x \div d \in Nat
           /\ ((x + k) \div d - x \div d) * d = k + (x % d) - ((x + k) % d)
<1> DEFINE q == x \div d
           p == (x + k) \div d
           r == x % d
           s == (x + k) % d
<1>1. q \in Nat /\ r \in Nat /\ x = d * q + r /\ r < d
  BY DivMod
<1>2. p \in Nat /\ s \in Nat /\ x + k = d * p + s /\ s < d
  <2>1. x + k \in Nat
    OBVIOUS
  <2> QED BY <2>1, DivMod
<1> HIDE DEF p, q, r, s
<1>3. (p - q) * d = d * p - d * q
  BY <1>1, <1>2
<1>4. p >= q
  <2> SUFFICES ASSUME p + 1 <= q PROVE FALSE
    BY <1>1, <1>2
  <2>1. PICK j \in Nat : q = p + 1 + j
    <3>1. q - p - 1 \in Nat /\ q = p + 1 + (q - p - 1)
      BY <1>1, <1>2
    <3> QED BY <3>1
  <2>2. d * q = d * p + d + d * j /\ d * j >= 0
    BY <1>1, <1>2, <2>1
  <2> QED BY <1>1, <1>2, <2>2
<1>5. (p - q) * d = k + r - s
  BY <1>1, <1>2, <1>3
<1>6. p - q \in Nat
  BY <1>1, <1>2, <1>4
<1> QED BY <1>5, <1>6 DEF p, q, r, s

-----------------------------------------------------------------------------
(* Checkpoints.                                                            *)

LEMMA NetworksAreParts == Networks = Parts
    BY DEF Networks, Fresh, Parts

LEMMA CheckpointKeeps ==
    ASSUME ConfigOK(cfg), NEW n \in NetsType, NEW s \in Nat, NEW k,
           NEW names, NEW settings, Basics \subseteq settings
    PROVE  LET d == Checkpoint(n, s, k, names, settings) IN
           /\ d.step = s /\ d.count = k
           /\ d.nets \in NetsType
           /\ \A x \in Parts : d.nets[x] = IF x \in names THEN n[x] ELSE 0
           /\ ConfigOK(d.cfg) /\ d.cfg.algo = cfg.algo
           /\ "delay" \in settings => d.cfg.delay = cfg.delay
<1> DEFINE d == Checkpoint(n, s, k, names, settings)
           saved == [f \in DOMAIN cfg |->
                       IF f \in settings \cup {"algo"} THEN cfg[f] ELSE Defaults[f]]
           kept == [x \in Parts |-> IF x \in names THEN n[x] ELSE 0]
<1>1. d.step = s /\ d.count = k /\ d.nets = kept /\ d.cfg = saved
  BY NetworksAreParts DEF Checkpoint
<1>2. kept \in NetsType /\ \A x \in Parts : kept[x] = IF x \in names THEN n[x] ELSE 0
  BY DEF NetsType
<1>3. /\ saved["algo"] = cfg["algo"]
      /\ saved["starts"] = cfg["starts"]
      /\ saved["grad"] \in {cfg["grad"], 1}
      /\ saved["delay"] \in {cfg["delay"], 1}
      /\ "delay" \in settings => saved["delay"] = cfg["delay"]
      /\ DOMAIN saved = DOMAIN cfg
  BY DEF ConfigOK, Basics, Defaults
<1> HIDE DEF saved, kept, d
<1>4. ConfigOK(saved) /\ saved.algo = cfg.algo
  BY <1>3 DEF ConfigOK
<1>5. "delay" \in settings => saved.delay = cfg.delay
  BY <1>3
<1> QED BY <1>1, <1>2, <1>4, <1>5 DEF d

LEMMA SavedIsOK ==
    ASSUME ConfigOK(cfg), NEW n \in NetsType, NEW s \in Nat, count \in Nat,
           Pace(n, count, cfg)
    PROVE  FileOK(Saved(n, s))
<1> USE DEF Algorithms, Parts
<1>0. /\ n.critic \in Nat /\ n.actor \in Nat
      /\ count % cfg.delay \in Nat /\ 0 % cfg.delay = 0
  <2>1. count % cfg.delay \in Nat
    BY DivMod DEF ConfigOK
  <2>2. 0 % cfg.delay = 0
    BY ZeroMod DEF ConfigOK
  <2> QED BY <2>1, <2>2 DEF NetsType
<1>1. CASE cfg.algo = "SAC"
  <2>1. Saved(n, s) = SACSave(n, s)
    BY <1>1 DEF Saved
  <2> QED
    BY <1>0, <1>1, <2>1, CheckpointKeeps DEF SACSave, SACNetworks, FileOK, Pace, Basics
<1>2. CASE cfg.algo = "TD3"
  <2>1. Saved(n, s) = TD3Save(n, s)
    BY <1>2 DEF Saved
  <2> DEFINE d == TD3Save(n, s)
  <2>2. /\ d.step = s /\ d.nets \in NetsType /\ ConfigOK(d.cfg)
        /\ d.cfg.algo = cfg.algo /\ d.cfg.delay = cfg.delay
        /\ d.nets.critic = n.critic /\ d.nets.actor = n.actor
        /\ d.nets.actorTarget = n.actorTarget
    BY CheckpointKeeps DEF TD3Save, TD3Networks, Basics
  <2> HIDE DEF d
  <2>3. n.actor * cfg.delay <= n.critic
    BY <1>0, <1>2 DEF Pace, ConfigOK
  <2>4. 0 % d.cfg.delay = 0
    BY <1>0, <2>2
  <2>5. d.nets.actor * d.cfg.delay <= d.nets.critic - (0 % d.cfg.delay)
    BY <1>0, <2>2, <2>3, <2>4
  <2>6. Pace(d.nets, 0, d.cfg)
    BY <1>2, <2>2, <2>5 DEF Pace
  <2>7. FileOK(d)
    BY <1>2, <2>2, <2>6 DEF FileOK
  <2> QED BY <2>1, <2>7 DEF d
<1>3. CASE cfg.algo = "DQN"
  <2>1. Saved(n, s) = DQNSave(n, s)
    BY <1>3 DEF Saved
  <2> DEFINE d == DQNSave(n, s)
  <2>2. d.step = s /\ d.nets \in NetsType /\ ConfigOK(d.cfg) /\ d.cfg.algo = cfg.algo
    BY CheckpointKeeps DEF DQNSave, DQNNetworks, Basics
  <2> HIDE DEF d
  <2> QED BY <1>3, <2>1, <2>2 DEF d, FileOK, Pace
<1>4. CASE cfg.algo = "CrossQ"
  <2>1. Saved(n, s) = CrossQSave(n, s)
    BY <1>4 DEF Saved
  <2> DEFINE d == CrossQSave(n, s)
  <2>2. /\ d.step = s /\ d.count = count /\ d.nets \in NetsType /\ ConfigOK(d.cfg)
        /\ d.cfg.algo = cfg.algo /\ d.cfg.delay = cfg.delay
        /\ d.nets.critic = n.critic /\ d.nets.actor = n.actor
    BY CheckpointKeeps DEF CrossQSave, CrossQNetworks, Basics
  <2> HIDE DEF d
  <2> QED BY <1>4, <2>1, <2>2 DEF d, FileOK, Pace
<1>5. CASE cfg.algo = "TQC"
  <2>1. Saved(n, s) = TQCSave(n, s)
    BY <1>5 DEF Saved
  <2> QED
    BY <1>5, <2>1, CheckpointKeeps DEF TQCSave, TQCNetworks, FileOK, Pace, Basics
<1>6. CASE cfg.algo = "MPO"
  <2>1. Saved(n, s) = MPOSave(n, s)
    BY <1>6 DEF Saved
  <2> QED
    BY <1>0, <1>6, <2>1, CheckpointKeeps DEF MPOSave, MPONetworks, FileOK, Pace, Basics
<1>7. CASE cfg.algo = "QMIX"
  <2>1. Saved(n, s) = QMIXSave(n, s)
    BY <1>7 DEF Saved
  <2> QED
    BY <1>7, <2>1, CheckpointKeeps DEF QMIXSave, QMIXNetworks, FileOK, Pace, Basics
<1> QED BY <1>1, <1>2, <1>3, <1>4, <1>5, <1>6, <1>7 DEF ConfigOK

LEMMA ReloadIInv ==
    ASSUME IInv, NEW names, NEW updates, Reload(names, updates),
           cfg.algo \in {"SAC", "TQC", "CrossQ"} => {"critic", "actor"} \subseteq names,
           cfg.algo = "TD3" => {"critic", "actor", "actorTarget"} \subseteq names,
           cfg.algo = "MPO" => names = {"actor"},
           updates = IF cfg.algo = "CrossQ" THEN disk.count ELSE 0
    PROVE  IInv'
<1>1. FileOK(disk) /\ cfg' = disk.cfg /\ UNCHANGED disk
  BY DEF IInv, Reload
<1>2. ConfigOK(cfg') /\ cfg'.algo = cfg.algo
  BY <1>1 DEF FileOK
<1>3. /\ nets' \in NetsType
      /\ \A x \in Parts : nets'[x] = IF x \in names THEN disk.nets[x] ELSE 0
  BY <1>1, NetworksAreParts DEF Reload, FileOK, NetsType
<1>4. count' = updates /\ updates \in Nat
  BY <1>1, <1>2 DEF Reload, FileOK
<1>5. CallOK'
  BY <1>1 DEF Reload, CallOK, FileOK, Idle
<1>6. Pace(nets', updates, cfg')
  <2>1. Pace(disk.nets, updates, disk.cfg) /\ disk.cfg.algo = cfg.algo
        /\ disk.nets \in NetsType
    BY <1>1 DEF FileOK
  <2>2. "critic" \in names => nets'.critic = disk.nets.critic
    BY <1>3 DEF Parts
  <2>3. "actor" \in names => nets'.actor = disk.nets.actor
    BY <1>3 DEF Parts
  <2>4. "actorTarget" \in names => nets'.actorTarget = disk.nets.actorTarget
    BY <1>3 DEF Parts
  <2>5. cfg.algo = "MPO" => nets'.critic = 0 /\ nets'.actor \in Nat
    BY <1>3 DEF Parts, NetsType
  <2>6. cfg.algo \in {"SAC", "TQC", "CrossQ", "TD3"} => "critic" \in names /\ "actor" \in names
    OBVIOUS
  <2>7. cfg.algo = "TD3" => "actorTarget" \in names
    OBVIOUS
  <2> QED BY <1>1, <2>1, <2>2, <2>3, <2>4, <2>5, <2>6, <2>7 DEF Pace
<1>7. (disk # NoCheckpoint => FileOK(disk))'
  BY <1>1, <1>2 DEF FileOK
<1>8. UpdatesFollowPolicySteps'
  BY DEF Reload, Nothing, UpdatesFollowPolicySteps
<1> QED BY <1>2, <1>3, <1>4, <1>5, <1>6, <1>7, <1>8 DEF IInv

LEMMA RestoreIInv ==
    ASSUME IInv,
           \/ SACFromCheckpoint \/ TD3FromCheckpoint \/ DQNFromCheckpoint
           \/ CrossQFromCheckpoint \/ TQCFromCheckpoint \/ MPOFromCheckpoint
           \/ QMIXFromCheckpoint
    PROVE  IInv'
<1> USE ReloadIInv DEF SACNetworks, TD3Networks, CrossQNetworks, TQCNetworks
<1>1. CASE SACFromCheckpoint
  BY <1>1 DEF SACFromCheckpoint
<1>2. CASE TD3FromCheckpoint
  BY <1>2 DEF TD3FromCheckpoint
<1>3. CASE DQNFromCheckpoint
  BY <1>3 DEF DQNFromCheckpoint
<1>4. CASE CrossQFromCheckpoint
  BY <1>4 DEF CrossQFromCheckpoint
<1>5. CASE TQCFromCheckpoint
  BY <1>5 DEF TQCFromCheckpoint
<1>6. CASE MPOFromCheckpoint
  BY <1>6 DEF MPOFromCheckpoint
<1>7. CASE QMIXFromCheckpoint
  BY <1>7 DEF QMIXFromCheckpoint
<1> QED BY <1>1, <1>2, <1>3, <1>4, <1>5, <1>6, <1>7

-----------------------------------------------------------------------------
(* Gradient steps.                                                         *)

LEMMA DueFacts ==
    ASSUME IInv, NEW n
    PROVE  /\ Due(n) \in Nat
           /\ Due(n) > 0 => ByStep = "policy" /\ ByGlobalStep = "policy"
    BY DEF IInv, ConfigOK, CallOK, Due, ByStep, ByGlobalStep

LEMMA NetsAreNats ==
    ASSUME NEW n \in NetsType
    PROVE  n.critic \in Nat /\ n.target \in Nat /\ n.actor \in Nat
           /\ n.actorTarget \in Nat
    BY DEF NetsType, Parts

\* SAC, TQC and MPO make the same three writes.
LEMMA JointUpdate ==
    ASSUME IInv, NEW k \in Nat
    PROVE  /\ SACUpdate(k) \in NetsType
           /\ SACUpdate(k).critic = nets.critic + k /\ SACUpdate(k).actor = nets.actor + k
           /\ TQCUpdate(k) = SACUpdate(k) /\ MPOUpdate(k) = SACUpdate(k)
<1>1. /\ nets \in NetsType /\ nets.critic + k \in Nat /\ nets.actor + k \in Nat
      /\ (IF k > 0 THEN nets.critic + k ELSE nets.target) \in Nat
  BY NetsAreNats DEF IInv
<1>2. PICK a \in Nat, b \in Nat, c \in Nat :
        /\ a = nets.critic + k /\ c = nets.actor + k
        /\ b = IF k > 0 THEN nets.critic + k ELSE nets.target
  BY <1>1
<1>3. SACUpdate(k) = [nets EXCEPT !.critic = a, !.target = b, !.actor = c]
  BY <1>2 DEF SACUpdate
<1>4. PICK m : m = [nets EXCEPT !.critic = a, !.target = b, !.actor = c]
  OBVIOUS
<1>5. m \in NetsType /\ m.critic = a /\ m.actor = c
  <2>1. nets \in NetsType
    BY <1>1
  <2> QED BY <2>1, <1>4 DEF NetsType, Parts
<1>6. TQCUpdate(k) = SACUpdate(k) /\ MPOUpdate(k) = SACUpdate(k)
  BY DEF SACUpdate, TQCUpdate, MPOUpdate
<1> QED BY <1>2, <1>3, <1>4, <1>5, <1>6

LEMMA SACKeepsPace ==
    ASSUME IInv, NEW k \in Nat, cfg.algo \in {"SAC", "TQC"}
    PROVE  /\ SACUpdate(k) \in NetsType /\ Pace(SACUpdate(k), count + k, cfg)
           /\ TQCUpdate(k) \in NetsType /\ Pace(TQCUpdate(k), count + k, cfg)
    BY JointUpdate DEF IInv, Pace

LEMMA MPOKeepsPace ==
    ASSUME IInv, NEW k \in Nat, cfg.algo = "MPO", NEW counted
    PROVE  MPOUpdate(k) \in NetsType /\ Pace(MPOUpdate(k), counted, cfg)
<1>1. nets.critic \in Nat /\ nets.actor \in Nat /\ nets.critic <= nets.actor
  BY DEF IInv, NetsType, Parts, Pace
<1> QED BY <1>1, JointUpdate DEF Pace

LEMMA CrossQKeepsPace ==
    ASSUME IInv, NEW k \in Nat, cfg.algo = "CrossQ"
    PROVE  CrossQUpdate(k) \in NetsType /\ Pace(CrossQUpdate(k), count + k, cfg)
<1>1. Delayed(k) \in Nat /\ count \in Nat /\ count \div cfg.delay \in Nat
  BY DelayedSteps, DivMod DEF IInv, ConfigOK, Delayed
<1>2. /\ CrossQUpdate(k) \in NetsType
      /\ CrossQUpdate(k).critic = nets.critic + k
      /\ CrossQUpdate(k).actor = nets.actor + Delayed(k)
  <2>1. /\ nets \in NetsType /\ nets.critic + k \in Nat
        /\ nets.actor + Delayed(k) \in Nat
    BY <1>1, NetsAreNats DEF IInv
  <2>2. PICK a \in Nat, b \in Nat :
          /\ a = nets.critic + k /\ b = nets.actor + Delayed(k)
    BY <2>1
  <2>3. CrossQUpdate(k) = [nets EXCEPT !.critic = a, !.actor = b]
    BY <2>2 DEF CrossQUpdate
  <2>4. PICK m : m = [nets EXCEPT !.critic = a, !.actor = b]
    OBVIOUS
  <2>5. m \in NetsType /\ m.critic = a /\ m.actor = b
    <3>1. nets \in NetsType
      BY <2>1
    <3> QED BY <3>1, <2>4 DEF NetsType, Parts
  <2> QED BY <2>2, <2>3, <2>4, <2>5
<1>3. count = nets.critic /\ nets.actor = count \div cfg.delay
  BY DEF IInv, Pace
<1>4. (count + k) \div cfg.delay \in Nat
  <2>1. count + k \in Nat
    BY <1>1
  <2> QED BY <2>1, DivMod DEF IInv, ConfigOK
<1>5. nets.actor + Delayed(k) = (count + k) \div cfg.delay
  BY <1>1, <1>3, <1>4 DEF Delayed
<1> QED BY <1>2, <1>3, <1>5 DEF Pace

LEMMA TD3KeepsPace ==
    ASSUME IInv, NEW k \in Nat, cfg.algo = "TD3"
    PROVE  TD3Update(k) \in NetsType /\ Pace(TD3Update(k), count + k, cfg)
<1>1. /\ cfg.delay \in Nat \ {0} /\ count \in Nat
      /\ nets.critic \in Nat /\ nets.actor \in Nat /\ nets.actorTarget = nets.actor
  BY DEF IInv, ConfigOK, NetsType, Parts, Pace
<1>2. /\ Delayed(k) \in Nat
      /\ Delayed(k) * cfg.delay = k + (count % cfg.delay) - ((count + k) % cfg.delay)
  BY <1>1, DelayedSteps DEF Delayed
<1>3. /\ TD3Update(k) \in NetsType
      /\ TD3Update(k).critic = nets.critic + k
      /\ TD3Update(k).actor = nets.actor + Delayed(k)
      /\ TD3Update(k).actorTarget = TD3Update(k).actor
  <2>1. /\ nets \in NetsType /\ nets.critic + k \in Nat
        /\ nets.actor + Delayed(k) \in Nat
        /\ (IF k > 0 THEN nets.critic + k ELSE nets.target) \in Nat
        /\ (IF Delayed(k) > 0 THEN nets.actor + Delayed(k) ELSE nets.actorTarget)
             = nets.actor + Delayed(k)
    BY <1>1, <1>2, NetsAreNats DEF IInv
  <2>2. PICK a \in Nat, b \in Nat, c \in Nat :
          /\ a = nets.critic + k /\ c = nets.actor + Delayed(k)
          /\ b = IF k > 0 THEN nets.critic + k ELSE nets.target
    BY <2>1
  <2>3. TD3Update(k)
          = [nets EXCEPT !.critic = a, !.target = b, !.actor = c, !.actorTarget = c]
    BY <2>1, <2>2 DEF TD3Update
  <2>4. PICK m : m = [nets EXCEPT !.critic = a, !.target = b, !.actor = c, !.actorTarget = c]
    OBVIOUS
  <2>5. m \in NetsType /\ m.critic = a /\ m.actor = c /\ m.actorTarget = c
    <3>1. nets \in NetsType
      BY <2>1
    <3> QED BY <3>1, <2>4 DEF NetsType, Parts
  <2> QED BY <2>2, <2>3, <2>4, <2>5
<1>4. /\ count % cfg.delay \in Nat /\ (count + k) % cfg.delay \in Nat
  <2>1. count + k \in Nat
    BY <1>1
  <2> QED BY <1>1, <2>1, DivMod
<1>5. nets.actor * cfg.delay <= nets.critic - (count % cfg.delay)
  BY DEF IInv, Pace
<1>6. (nets.actor + Delayed(k)) * cfg.delay = nets.actor * cfg.delay + Delayed(k) * cfg.delay
  BY <1>1, <1>2
<1>7. (nets.actor + Delayed(k)) * cfg.delay <= nets.critic + k - ((count + k) % cfg.delay)
  BY <1>1, <1>2, <1>4, <1>5, <1>6
<1>8. TD3Update(k).actor * cfg.delay <= TD3Update(k).critic - ((count + k) % cfg.delay)
  BY <1>1, <1>2, <1>3, <1>4, <1>7
<1> QED BY <1>3, <1>8 DEF Pace

LEMMA DQNKeepsTypes ==
    ASSUME IInv, NEW k \in Nat
    PROVE  DQNSync(DQNUpdate(k)) \in NetsType /\ DQNSync(QMIXUpdate(k)) \in NetsType
<1>1. DQNUpdate(k) \in NetsType /\ QMIXUpdate(k) \in NetsType
  BY DEF IInv, NetsType, Parts, DQNUpdate, QMIXUpdate
<1>2. \A n \in NetsType : DQNSync(n) \in NetsType
  BY DEF NetsType, Parts, DQNSync
<1> QED BY <1>1, <1>2

-----------------------------------------------------------------------------
(* Iterations.                                                             *)

LEMMA IterationIInv ==
    ASSUME IInv, UNCHANGED cfg, globalStep' = globalStep + 1, NEW goOn, Advance(goOn),
           nets' \in NetsType, count' \in Nat, Pace(nets', count', cfg),
           \/ disk' = disk
           \/ \E n \in NetsType : disk' = Saved(n, globalStep + 1) /\ Pace(n, count, cfg),
           last'.updates > 0 => last'.acted = "policy"
    PROVE  IInv'
<1>1. CallOK'
  BY DEF IInv, CallOK, Advance, Idle
<1>2. (disk # NoCheckpoint => FileOK(disk))'
  <2>1. CASE disk' = disk
    BY <2>1 DEF IInv, FileOK
  <2>2. CASE \E n \in NetsType : disk' = Saved(n, globalStep + 1) /\ Pace(n, count, cfg)
    <3>1. PICK n \in NetsType : disk' = Saved(n, globalStep + 1) /\ Pace(n, count, cfg)
      BY <2>2
    <3>2. globalStep + 1 \in Nat
      BY DEF IInv, CallOK
    <3>3. FileOK(disk')
      BY <3>1, <3>2, SavedIsOK DEF IInv
    <3> QED BY <3>3 DEF FileOK
  <2> QED BY <2>1, <2>2
<1> QED BY <1>1, <1>2 DEF IInv, UpdatesFollowPolicySteps

LEMMA StepThenLearnIInv ==
    ASSUME IInv, NEW ends, NEW stored, NEW acted, NEW learned \in NetsType, NEW k \in Nat,
           StepThenLearn(ends, stored, acted, learned, k),
           Pace(learned, count + k, cfg),
           k > 0 => acted = "policy"
    PROVE  IInv'
<1>1. PICK save \in BOOLEAN, goOn \in BOOLEAN :
        /\ disk' = IF save THEN Saved(nets, globalStep + 1) ELSE disk
        /\ nets' = IF goOn THEN learned ELSE nets
        /\ count' = IF goOn THEN count + k ELSE count
        /\ last' = Did(acted, IF goOn THEN k ELSE 0, stored)
        /\ Advance(goOn)
  BY DEF StepThenLearn
<1>2. UNCHANGED cfg /\ globalStep' = globalStep + 1
  BY DEF StepThenLearn
<1>3. nets' \in NetsType /\ count' \in Nat /\ Pace(nets', count', cfg)
  BY <1>1 DEF IInv
<1>4. last'.updates > 0 => last'.acted = "policy"
  BY <1>1 DEF Did
<1>5. \/ disk' = disk
      \/ \E n \in NetsType : disk' = Saved(n, globalStep + 1) /\ Pace(n, count, cfg)
  BY <1>1 DEF IInv
<1> QED BY <1>1, <1>2, <1>3, <1>4, <1>5, IterationIInv

LEMMA SACTrainIInv ==
    ASSUME IInv, SACTrain PROVE IInv'
<1>1. PICK end \in Ends :
        LET k == Due(Grown(OneStep(end))) IN
        StepThenLearn(<<end>>, OneStep(end), ByStep, SACUpdate(k), k)
  BY DEF SACTrain
<1>2. PICK k : k = Due(Grown(OneStep(end)))
  OBVIOUS
<1>3. k \in Nat /\ (k > 0 => ByStep = "policy")
  BY <1>2, DueFacts
<1>4. SACUpdate(k) \in NetsType /\ Pace(SACUpdate(k), count + k, cfg)
  BY <1>3, SACKeepsPace DEF SACTrain, Single
<1>5. StepThenLearn(<<end>>, OneStep(end), ByStep, SACUpdate(k), k)
  BY <1>1, <1>2
<1> QED BY <1>3, <1>4, <1>5, StepThenLearnIInv

LEMMA TQCTrainIInv ==
    ASSUME IInv, TQCTrain PROVE IInv'
<1>1. PICK end \in Ends :
        LET k == Due(Grown(OneStep(end))) IN
        StepThenLearn(<<end>>, OneStep(end), ByStep, TQCUpdate(k), k)
  BY DEF TQCTrain
<1>2. PICK k : k = Due(Grown(OneStep(end)))
  OBVIOUS
<1>3. k \in Nat /\ (k > 0 => ByStep = "policy")
  BY <1>2, DueFacts
<1>4. TQCUpdate(k) \in NetsType /\ Pace(TQCUpdate(k), count + k, cfg)
  BY <1>3, SACKeepsPace DEF TQCTrain, Single
<1>5. StepThenLearn(<<end>>, OneStep(end), ByStep, TQCUpdate(k), k)
  BY <1>1, <1>2
<1> QED BY <1>3, <1>4, <1>5, StepThenLearnIInv

LEMMA TD3TrainIInv ==
    ASSUME IInv, TD3Train PROVE IInv'
<1>1. PICK end \in Ends :
        LET k == Due(Grown(OneStep(end))) IN
        StepThenLearn(<<end>>, OneStep(end), ByStep, TD3Update(k), k)
  BY DEF TD3Train
<1>2. PICK k : k = Due(Grown(OneStep(end)))
  OBVIOUS
<1>3. k \in Nat /\ (k > 0 => ByStep = "policy")
  BY <1>2, DueFacts
<1>4. TD3Update(k) \in NetsType /\ Pace(TD3Update(k), count + k, cfg)
  BY <1>3, TD3KeepsPace DEF TD3Train, Single
<1>5. StepThenLearn(<<end>>, OneStep(end), ByStep, TD3Update(k), k)
  BY <1>1, <1>2
<1> QED BY <1>3, <1>4, <1>5, StepThenLearnIInv

LEMMA CrossQTrainIInv ==
    ASSUME IInv, CrossQTrain PROVE IInv'
<1>1. PICK end \in Ends :
        LET k == Due(Grown(OneStep(end))) IN
        StepThenLearn(<<end>>, OneStep(end), ByStep, CrossQUpdate(k), k)
  BY DEF CrossQTrain
<1>2. PICK k : k = Due(Grown(OneStep(end)))
  OBVIOUS
<1>3. k \in Nat /\ (k > 0 => ByStep = "policy")
  BY <1>2, DueFacts
<1>4. CrossQUpdate(k) \in NetsType /\ Pace(CrossQUpdate(k), count + k, cfg)
  BY <1>3, CrossQKeepsPace DEF CrossQTrain, Single
<1>5. StepThenLearn(<<end>>, OneStep(end), ByStep, CrossQUpdate(k), k)
  BY <1>1, <1>2
<1> QED BY <1>3, <1>4, <1>5, StepThenLearnIInv

LEMMA SACTrainWithCollectorIInv ==
    ASSUME IInv, SACTrainWithCollector PROVE IInv'
<1>1. PICK ends \in [Envs -> Ends] :
        LET k == Due(Grown(CollectStep(ends))) IN
        StepThenLearn(ends, CollectStep(ends), ByGlobalStep, SACUpdate(k), k)
  BY DEF SACTrainWithCollector
<1>2. PICK k : k = Due(Grown(CollectStep(ends)))
  OBVIOUS
<1>3. k \in Nat /\ (k > 0 => ByGlobalStep = "policy")
  BY <1>2, DueFacts
<1>4. SACUpdate(k) \in NetsType /\ Pace(SACUpdate(k), count + k, cfg)
  BY <1>3, SACKeepsPace DEF SACTrainWithCollector, Collector
<1>5. StepThenLearn(ends, CollectStep(ends), ByGlobalStep, SACUpdate(k), k)
  BY <1>1, <1>2
<1> QED BY <1>3, <1>4, <1>5, StepThenLearnIInv

LEMMA TD3TrainWithCollectorIInv ==
    ASSUME IInv, TD3TrainWithCollector PROVE IInv'
<1>1. PICK ends \in [Envs -> Ends] :
        LET k == Due(Grown(CollectStep(ends))) IN
        StepThenLearn(ends, CollectStep(ends), ByGlobalStep, TD3Update(k), k)
  BY DEF TD3TrainWithCollector
<1>2. PICK k : k = Due(Grown(CollectStep(ends)))
  OBVIOUS
<1>3. k \in Nat /\ (k > 0 => ByGlobalStep = "policy")
  BY <1>2, DueFacts
<1>4. TD3Update(k) \in NetsType /\ Pace(TD3Update(k), count + k, cfg)
  BY <1>3, TD3KeepsPace DEF TD3TrainWithCollector, Collector
<1>5. StepThenLearn(ends, CollectStep(ends), ByGlobalStep, TD3Update(k), k)
  BY <1>1, <1>2
<1> QED BY <1>3, <1>4, <1>5, StepThenLearnIInv

LEMMA DQNTrainWithCollectorIInv ==
    ASSUME IInv, DQNTrainWithCollector PROVE IInv'
<1>1. PICK ends \in [Envs -> Ends] :
        LET k == Due(Grown(CollectStep(ends))) IN
        StepThenLearn(ends, CollectStep(ends), ByGlobalStep, DQNSync(DQNUpdate(k)), k)
  BY DEF DQNTrainWithCollector
<1>2. PICK k : k = Due(Grown(CollectStep(ends)))
  OBVIOUS
<1>3. k \in Nat /\ (k > 0 => ByGlobalStep = "policy")
  BY <1>2, DueFacts
<1>4. DQNSync(DQNUpdate(k)) \in NetsType /\ Pace(DQNSync(DQNUpdate(k)), count + k, cfg)
  BY <1>3, DQNKeepsTypes DEF DQNTrainWithCollector, Collector, Pace
<1>5. StepThenLearn(ends, CollectStep(ends), ByGlobalStep, DQNSync(DQNUpdate(k)), k)
  BY <1>1, <1>2
<1> QED BY <1>3, <1>4, <1>5, StepThenLearnIInv

LEMMA DQNTrainIInv ==
    ASSUME IInv, DQNTrain PROVE IInv'
<1>1. PICK end \in Ends :
        LET k == Due(Grown(DQNStored(end))) IN
        StepThenLearn(<<end>>, DQNStored(end), ByStep, DQNSync(DQNUpdate(k)), k)
  BY DEF DQNTrain
<1>2. PICK k : k = Due(Grown(DQNStored(end)))
  OBVIOUS
<1>3. k \in Nat /\ (k > 0 => ByStep = "policy")
  BY <1>2, DueFacts
<1>4. /\ DQNSync(DQNUpdate(k)) \in NetsType
      /\ Pace(DQNSync(DQNUpdate(k)), count + k, cfg)
  BY <1>3, DQNKeepsTypes DEF DQNTrain, Single, Pace
<1>5. StepThenLearn(<<end>>, DQNStored(end), ByStep, DQNSync(DQNUpdate(k)), k)
  BY <1>1, <1>2
<1> QED BY <1>3, <1>4, <1>5, StepThenLearnIInv

LEMMA MPOTrainIInv ==
    ASSUME IInv, MPOTrain PROVE IInv'
<1>1. PICK end \in Ends, save \in BOOLEAN, goOn \in BOOLEAN :
        LET stored == OneStep(end)
            k == IF call.step >= cfg.starts /\ Grown(stored) >= cfg.batch THEN 1 ELSE 0
        IN  /\ nets' = MPOUpdate(k)
            /\ count' = count + k
            /\ globalStep' = globalStep + 1
            /\ last' = Did(ByStep, k, stored)
            /\ disk' = IF save THEN Saved(MPOUpdate(k), globalStep + 1) ELSE disk
            /\ Advance(goOn)
  BY DEF MPOTrain
<1>2. PICK k : k = IF call.step >= cfg.starts /\ Grown(OneStep(end)) >= cfg.batch
                   THEN 1 ELSE 0
  OBVIOUS
<1>3. k \in Nat /\ (k > 0 => ByStep = "policy")
  BY <1>2 DEF IInv, ConfigOK, CallOK, ByStep
<1>4. /\ nets' = MPOUpdate(k) /\ count' = count + k /\ globalStep' = globalStep + 1
      /\ last' = Did(ByStep, k, OneStep(end))
      /\ disk' = IF save THEN Saved(MPOUpdate(k), globalStep + 1) ELSE disk
      /\ Advance(goOn)
  BY <1>1, <1>2
<1>5. cfg.algo = "MPO" /\ UNCHANGED cfg
  BY DEF MPOTrain, Single
<1>6. /\ MPOUpdate(k) \in NetsType
      /\ Pace(MPOUpdate(k), count, cfg) /\ Pace(MPOUpdate(k), count + k, cfg)
  BY <1>3, <1>5, MPOKeepsPace
<1>7. count' \in Nat
  BY <1>3, <1>4 DEF IInv
<1>8. last'.updates > 0 => last'.acted = "policy"
  BY <1>3, <1>4 DEF Did
<1>9. \/ disk' = disk
      \/ \E n \in NetsType : disk' = Saved(n, globalStep + 1) /\ Pace(n, count, cfg)
  BY <1>4, <1>6
<1> QED BY <1>4, <1>5, <1>6, <1>7, <1>8, <1>9, IterationIInv

LEMMA QMIXTrainIInv ==
    ASSUME IInv, QMIXTrain PROVE IInv'
<1>1. PICK end \in Ends :
        LET stored == OneStep(end)
            k == IF Grown(stored) >= cfg.batch THEN 1 ELSE 0
        IN  /\ nets' = DQNSync(QMIXUpdate(k))
            /\ count' = count + k
            /\ globalStep' = globalStep + 1
            /\ last' = Did("policy", k, stored)
            /\ Advance(TRUE)
  BY DEF QMIXTrain
<1>2. PICK k \in Nat : k = IF Grown(OneStep(end)) >= cfg.batch THEN 1 ELSE 0
  OBVIOUS
<1>3. /\ nets' = DQNSync(QMIXUpdate(k)) /\ count' = count + k
      /\ globalStep' = globalStep + 1
      /\ last' = Did("policy", k, OneStep(end)) /\ Advance(TRUE)
  BY <1>1, <1>2
<1>4. cfg.algo = "QMIX" /\ UNCHANGED <<cfg, disk>>
  BY DEF QMIXTrain, Single
<1>5. nets' \in NetsType /\ count' \in Nat /\ Pace(nets', count', cfg)
  BY <1>2, <1>3, <1>4, DQNKeepsTypes DEF IInv, Pace
<1>6. last'.updates > 0 => last'.acted = "policy"
  BY <1>3 DEF Did
<1> QED BY <1>3, <1>4, <1>5, <1>6, IterationIInv

-----------------------------------------------------------------------------
(* Between calls.                                                          *)

LEMMA TrainIInv ==
    ASSUME IInv, Train PROVE IInv'
<1>1. PICK total \in 1..MaxSteps :
        call' = [on |-> TRUE, n |-> call.n + 1, step |-> 0, total |-> total]
  BY DEF Train
<1>2. /\ count' = (IF cfg.algo = "CrossQ" THEN count ELSE 0)
      /\ last' = Nothing /\ UNCHANGED <<cfg, nets, globalStep, disk>>
  BY DEF Train
<1>3. CallOK'
  BY <1>1, <1>2 DEF IInv, CallOK
<1>4. Pace(nets', count', cfg')
  <2>1. CASE cfg.algo = "CrossQ"
    BY <1>2, <2>1 DEF IInv
  <2>2. CASE cfg.algo # "CrossQ"
    <3>1. count' = 0 /\ 0 % cfg.delay = 0 /\ count % cfg.delay \in Nat
      BY <1>2, <2>2, ZeroMod, DivMod DEF IInv, ConfigOK
    <3>2. nets.critic \in Nat /\ nets.actor \in Nat /\ cfg.delay \in Nat
      BY NetsAreNats DEF IInv, ConfigOK
    <3>3. cfg.algo = "TD3" => nets.actor * cfg.delay <= nets.critic - (0 % cfg.delay)
      BY <3>1, <3>2 DEF IInv, Pace
    <3> QED BY <1>2, <2>2, <3>1, <3>3 DEF IInv, Pace
  <2> QED BY <2>1, <2>2
<1>5. count' \in Nat
  BY <1>2 DEF IInv
<1>6. UpdatesFollowPolicySteps'
  BY <1>2 DEF Nothing, UpdatesFollowPolicySteps
<1> QED BY <1>2, <1>3, <1>4, <1>5, <1>6 DEF IInv, FileOK

LEMMA SaveIInv ==
    ASSUME IInv, Save PROVE IInv'
<1>1. disk' = Saved(nets, globalStep)
      /\ UNCHANGED <<cfg, nets, count, call, globalStep, last>>
  BY DEF Save
<1>2. FileOK(disk')
  BY <1>1, SavedIsOK DEF IInv, CallOK
<1>3. (disk # NoCheckpoint => FileOK(disk))'
  BY <1>1, <1>2 DEF FileOK
<1> QED BY <1>1, <1>3 DEF IInv, CallOK, UpdatesFollowPolicySteps

LEMMA InitIInv ==
    ASSUME Init PROVE IInv
<1>1. cfg \in Config
  BY ConfigsAssumption DEF Init
<1>2. ConfigOK(cfg)
  BY <1>1 DEF Config, SACConfig, TD3Config, DQNConfig, CrossQConfig, TQCConfig, MPOConfig,
              QMIXConfig, EveryStep, Settings, ConfigOK, Algorithms, Positive
<1>3. nets \in NetsType /\ nets.critic = 0 /\ nets.actor = 0 /\ nets.actorTarget = 0
  BY DEF Init, Fresh, NetsType, Parts
<1>4. 0 % cfg.delay = 0 /\ 0 \div cfg.delay = 0 /\ cfg.delay \in Nat /\ 0 * cfg.delay = 0
  <2>1. cfg.delay \in Nat \ {0}
    BY <1>2 DEF ConfigOK
  <2>2. 0 % cfg.delay = 0
    BY <2>1, ZeroMod
  <2>3. 0 \div cfg.delay \in Nat /\ 0 = cfg.delay * (0 \div cfg.delay) + (0 % cfg.delay)
    BY <2>1, DivMod
  <2>4. PICK d \in Nat \ {0}, q \in Nat : d = cfg.delay /\ q = 0 \div cfg.delay
    BY <2>1, <2>3
  <2>5. q = 0
    <3>1. d * q = 0
      BY <2>2, <2>3, <2>4
    <3> QED BY <3>1
  <2> QED BY <2>1, <2>2, <2>4, <2>5
<1>5. count = 0 /\ CallOK
  BY DEF Init, CallOK, Idle
<1>6. Pace(nets, count, cfg)
  BY <1>3, <1>4, <1>5 DEF Pace
<1>7. UpdatesFollowPolicySteps
  BY DEF Init, Nothing, UpdatesFollowPolicySteps
<1> QED BY <1>2, <1>3, <1>5, <1>6, <1>7 DEF Init, IInv

LEMMA NextIInv ==
    ASSUME IInv, [Next]_vars PROVE IInv'
<1>1. CASE UNCHANGED vars
  BY <1>1 DEF vars, IInv, CallOK, FileOK, UpdatesFollowPolicySteps
<1>2. CASE Next
  BY <1>2, TrainIInv, SaveIInv, RestoreIInv, SACTrainIInv, TQCTrainIInv, TD3TrainIInv,
     CrossQTrainIInv, DQNTrainIInv, MPOTrainIInv, QMIXTrainIInv,
     SACTrainWithCollectorIInv, TD3TrainWithCollectorIInv, DQNTrainWithCollectorIInv
     DEF Next
<1> QED BY <1>1, <1>2

\* The invariant holds for every set of configurations and calls of any length.
THEOREM PaceHolds == Spec => []IInv
<1>1. Init => IInv
  BY InitIInv
<1>2. IInv /\ [Next]_vars => IInv'
  BY NextIInv
<1> QED BY <1>1, <1>2, PTL DEF Spec

\* No iteration that acted at random takes a gradient step: the warm-up of the
\* actions, which the collector counts from _global_step, and that of the
\* updates, counted from the step of the call, end together.
THEOREM UpdatesFollowPolicyStepsHold == Spec => []UpdatesFollowPolicySteps
<1>1. IInv => UpdatesFollowPolicySteps
  BY DEF IInv
<1> QED BY <1>1, PaceHolds, PTL

\* The actor never trains ahead of its critic, over policy delays, calls cut
\* short, saves and restores; MPO, whose file has no critic, apart.
THEOREM ActorFollowsCriticHolds == Spec => []ActorFollowsCritic
<1>1. IInv => ActorFollowsCritic
  <2> SUFFICES ASSUME IInv PROVE ActorFollowsCritic
    OBVIOUS
  <2>1. nets.critic \in Nat /\ nets.actor \in Nat
    BY NetsAreNats DEF IInv
  <2>2. cfg.delay \in Nat /\ count % cfg.delay \in Nat
    BY DivMod DEF IInv, ConfigOK
  <2>3. cfg.algo = "TD3" => nets.actor * cfg.delay <= nets.critic
    BY <2>1, <2>2 DEF IInv, Pace
  <2> QED BY <2>3 DEF IInv, Pace, ActorFollowsCritic
<1> QED BY <1>1, PaceHolds, PTL

-----------------------------------------------------------------------------
(* How far the target networks are behind.                                 *)

CadenceOK(c) ==
    /\ {"algo", "freq", "grad", "targetFreq", "batch", "capacity"} \subseteq DOMAIN c
    /\ c.freq \in Nat \ {0} /\ c.targetFreq \in Nat \ {0}
    /\ c.grad \in Nat /\ c.batch \in Nat /\ c.capacity \in Nat
    /\ c.algo = "QMIX" => c.freq = 1 /\ c.grad = 1 /\ c.batch # 0

Polyak == {"SAC", "TD3", "TQC", "MPO"}
Copied == {"DQN", "QMIX"}

Behind(n) == n.critic - n.target

\* Gradient steps that fit between two copies of the target network.
Between(c) == ((c.targetFreq + c.freq - 2) \div c.freq) * c.grad

\* Rounds of updates among the steps after the last copy and before step s.
Rounds(c, s) ==
    ((s - 1) \div c.freq) - ((s - 1 - ((s - 1) % c.targetFreq)) \div c.freq)

\* How far behind the target may be before step s of a call; the first step
\* comes after all that the last call has left.
Room(c, s) == IF s = 0 THEN Between(c) ELSE Rounds(c, s) * c.grad

\* A restored QMIX has fresh targets until the first step of its first call.
FreshTargets ==
    /\ cfg.algo = "QMIX"
    /\ call.n = 0 \/ (call.n = 1 /\ call.on /\ call.step = 0)

FileBehind(d) ==
    /\ CadenceOK(d.cfg)
    /\ d.cfg.algo \in {"SAC", "TD3", "TQC"} => d.nets.target = d.nets.critic
    /\ d.cfg.algo = "DQN" => Behind(d.nets) \in 0 .. Between(d.cfg)

LagInv ==
    /\ CadenceOK(cfg)
    /\ call \in [on : BOOLEAN, n : Nat, step : Nat, total : Nat]
    /\ IF call.on THEN call.n # 0 ELSE call.step = 0
    /\ cfg.algo \in Polyak => nets.target = nets.critic
    /\ cfg.algo \in Copied /\ ~FreshTargets => Behind(nets) \in 0 .. Room(cfg, call.step)
    /\ FreshTargets => size = 0
    /\ disk # NoCheckpoint => FileBehind(disk)
    /\ TargetLagBounded

LEMMA QuotientBelow ==
    ASSUME NEW x \in Nat, NEW d \in Nat \ {0}, NEW q \in Nat, x < d * q + d
    PROVE  x \div d <= q
<1> DEFINE p == x \div d
           r == x % d
<1>1. p \in Nat /\ r \in Nat /\ x = d * p + r
  BY DivMod
<1> HIDE DEF p, r
<1>2. p <= q
  <2> SUFFICES ASSUME q + 1 <= p PROVE FALSE
    BY <1>1
  <2>1. PICK j \in Nat : p = q + 1 + j
    <3>1. p - q - 1 \in Nat /\ p = q + 1 + (p - q - 1)
      BY <1>1
    <3> QED BY <3>1
  <2>2. d * p = d * q + d + d * j /\ d * j \in Nat /\ d * q \in Nat
    BY <1>1, <2>1
  <2> QED BY <1>1, <2>2
<1> QED BY <1>2 DEF p

LEMMA QuotientMonotone ==
    ASSUME NEW x \in Nat, NEW y \in Nat, x <= y, NEW d \in Nat \ {0}
    PROVE  x \div d <= y \div d
<1> DEFINE q == y \div d
           r == y % d
<1>1. q \in Nat /\ r \in Nat /\ y = d * q + r /\ r < d
  BY DivMod
<1> HIDE DEF q, r
<1>2. d * q \in Nat
  BY <1>1
<1>3. x < d * q + d
  BY <1>1, <1>2
<1>4. x \div d <= q
  BY <1>1, <1>3, QuotientBelow
<1> QED BY <1>4 DEF q

\* A beat at s makes one more multiple of d up to s than up to s - 1.
LEMMA Beat ==
    ASSUME NEW s \in Nat \ {0}, NEW d \in Nat \ {0}
    PROVE  /\ (s - 1) \div d <= s \div d
           /\ s % d = 0 => (s - 1) \div d + 1 <= s \div d
<1>1. s - 1 \in Nat /\ s - 1 <= s
  OBVIOUS
<1>2. (s - 1) \div d <= s \div d
  BY <1>1, QuotientMonotone
<1>3. ASSUME s % d = 0 PROVE (s - 1) \div d + 1 <= s \div d
  <2> DEFINE q == s \div d
             r == s % d
  <2>1. q \in Nat /\ s = d * q + r /\ r = 0
    BY <1>3, DivMod
  <2> HIDE DEF q, r
  <2>2. q # 0
    <3>1. q = 0 => d * q = 0
      OBVIOUS
    <3> QED BY <2>1, <3>1
  <2>3. PICK p \in Nat : q = p + 1
    <3>1. q - 1 \in Nat /\ q = (q - 1) + 1
      BY <2>1, <2>2
    <3> QED BY <3>1
  <2>4. d * q = d * p + d
    BY <2>3
  <2>5. s - 1 < d * p + d
    <3>1. d * p \in Nat
      BY <2>3
    <3> QED BY <2>1, <2>4, <3>1
  <2>6. (s - 1) \div d <= p
    BY <1>1, <2>3, <2>5, QuotientBelow
  <2>7. (s - 1) \div d \in Nat
    BY <1>1, DivMod
  <2> QED BY <2>3, <2>6, <2>7 DEF q
<1> QED BY <1>2, <1>3

\* Among w consecutive numbers at most (w + d - 1) div d are multiples of d.
LEMMA MultiplesIn ==
    ASSUME NEW a \in Nat, NEW w \in Nat, NEW d \in Nat \ {0}
    PROVE  (a + w) \div d <= a \div d + ((w + d - 1) \div d)
<1> DEFINE q == a \div d
           r == a % d
           c == (w + d - 1) \div d
           t == (w + d - 1) % d
<1>1. q \in Nat /\ r \in Nat /\ a = d * q + r /\ r < d
  BY DivMod
<1>2. c \in Nat /\ t \in Nat /\ w + d - 1 = d * c + t /\ t < d
  <2>1. w + d - 1 \in Nat
    OBVIOUS
  <2> QED BY <2>1, DivMod
<1> HIDE DEF q, r, c, t
<1>3. d * (q + c) = d * q + d * c /\ d * q \in Nat /\ d * c \in Nat
  BY <1>1, <1>2
<1>4. a + w < d * (q + c) + d
  BY <1>1, <1>2, <1>3
<1>5. a + w \in Nat /\ q + c \in Nat
  BY <1>1, <1>2
<1>6. (a + w) \div d <= q + c
  BY <1>4, <1>5, QuotientBelow
<1> QED BY <1>6 DEF q, c

LEMMA BeforeInPeriod ==
    ASSUME NEW s \in Nat \ {0}, NEW d \in Nat \ {0}, s % d # 0
    PROVE  (s - 1) % d = (s % d) - 1
<1> DEFINE q == s \div d
           r == s % d
           p == (s - 1) \div d
           t == (s - 1) % d
<1>1. q \in Nat /\ r \in Nat /\ s = d * q + r /\ r < d /\ r # 0
  BY DivMod
<1>2. p \in Nat /\ t \in Nat /\ s - 1 = d * p + t /\ t < d
  <2>1. s - 1 \in Nat
    OBVIOUS
  <2> QED BY <2>1, DivMod
<1>3. q = p
  <2>1. s - 1 < d * q + d /\ s < d * p + d + d
    <3>1. d * q \in Nat /\ d * p \in Nat
      BY <1>1, <1>2
    <3> HIDE DEF q, r, p, t
    <3> QED BY <1>1, <1>2, <3>1
  <2>2. p <= q
    BY <1>1, <2>1, QuotientBelow
  <2>3. q <= p
    <3> HIDE DEF q, r, p, t
    <3> SUFFICES ASSUME p + 1 <= q PROVE FALSE
      BY <1>1, <1>2
    <3>1. PICK j \in Nat : q = p + 1 + j
      <4>1. q - p - 1 \in Nat /\ q = p + 1 + (q - p - 1)
        BY <1>1, <1>2
      <4> QED BY <4>1
    <3>2. d * q = d * p + d + d * j /\ d * j \in Nat /\ d * p \in Nat
      BY <1>1, <1>2, <3>1
    <3> QED BY <1>1, <1>2, <3>2
  <2> HIDE DEF q, r, p, t
  <2> QED BY <1>1, <1>2, <2>2, <2>3
<1> HIDE DEF q, r, p, t
<1>4. d * q \in Nat
  BY <1>1
<1>5. t = r - 1
  BY <1>1, <1>2, <1>3, <1>4
<1> QED BY <1>5 DEF r, t

LEMMA TimesMonotone ==
    ASSUME NEW a \in Nat, NEW b \in Nat, a <= b, NEW g \in Nat
    PROVE  a * g \in Nat /\ b * g \in Nat /\ a * g <= b * g
<1>1. PICK j \in Nat : b = a + j
  <2>1. b - a \in Nat /\ b = a + (b - a)
    OBVIOUS
  <2> QED BY <2>1
<1>2. b * g = a * g + j * g /\ a * g \in Nat /\ j * g \in Nat
  BY <1>1
<1> QED BY <1>2

\* The latest step of a period of target copies at or before s.
LEMMA PeriodStart ==
    ASSUME NEW s \in Nat, NEW d \in Nat \ {0}
    PROVE  s - (s % d) \in Nat /\ s % d \in 0 .. d - 1 /\ s - (s % d) <= s
<1> DEFINE q == s \div d
           r == s % d
<1>1. q \in Nat /\ r \in Nat /\ s = d * q + r /\ r < d
  BY DivMod
<1> HIDE DEF q, r
<1>2. d * q \in Nat
  BY <1>1
<1>3. s - r \in Nat /\ r \in 0 .. d - 1 /\ s - r <= s
  BY <1>1, <1>2
<1> QED BY <1>3 DEF r

\* Between two copies no more gradient steps are taken than fit there.
LEMMA RoomIsBetween ==
    ASSUME NEW c, CadenceOK(c), NEW s \in Nat
    PROVE  Between(c) \in Nat /\ Room(c, s) \in Nat /\ Room(c, s) <= Between(c)
<1>1. PICK f \in Nat \ {0}, period \in Nat \ {0}, g \in Nat :
        f = c.freq /\ period = c.targetFreq /\ g = c.grad
  BY DEF CadenceOK
<1>2. period + f - 2 \in Nat
  BY <1>1
<1> DEFINE most == (period + f - 2) \div f
<1>3. most \in Nat
  BY <1>1, <1>2, DivMod
<1>4. Between(c) = most * g
  BY <1>1 DEF Between
<1>5. CASE s = 0
  <2> HIDE DEF most
  <2>1. most * g \in Nat
    BY <1>1, <1>3
  <2> QED BY <1>4, <1>5, <2>1 DEF Room
<1>6. CASE s # 0
  <2>1. PICK u \in Nat : u = s - 1
    BY <1>6
  <2> DEFINE w == u % period
             m == u - w
  <2>2. m \in Nat /\ w \in 0 .. period - 1 /\ m <= u
    BY <1>1, <2>1, PeriodStart
  <2>3. Room(c, s) = ((u \div f) - (m \div f)) * g
    BY <1>1, <1>6, <2>1 DEF Room, Rounds
  <2>4. u = m + w /\ w \in Nat
    BY <1>1, <2>1, <2>2
  <2> HIDE DEF m, w
  <2>5. u \div f \in Nat /\ m \div f \in Nat
    BY <1>1, <2>1, <2>2, DivMod
  <2>6. m \div f <= u \div f
    BY <1>1, <2>1, <2>2, QuotientMonotone
  <2>7. u \div f <= m \div f + ((w + f - 1) \div f)
    <3>1. (m + w) \div f <= m \div f + ((w + f - 1) \div f)
      BY <1>1, <2>2, <2>4, MultiplesIn
    <3> QED BY <2>4, <3>1
  <2>8. (w + f - 1) \div f <= most
    <3>1. w + f - 1 \in Nat /\ w + f - 1 <= period + f - 2
      BY <1>1, <2>2, <2>4
    <3> QED BY <1>1, <1>2, <3>1, QuotientMonotone
  <2>9. (w + f - 1) \div f \in Nat
    <3>1. w + f - 1 \in Nat
      BY <1>1, <2>2, <2>4
    <3> QED BY <1>1, <3>1, DivMod
  <2>10. (u \div f) - (m \div f) \in Nat /\ (u \div f) - (m \div f) <= most
    <3> HIDE DEF most
    <3>1. PICK a \in Nat, b \in Nat, e \in Nat :
            a = u \div f /\ b = m \div f /\ e = (w + f - 1) \div f
      BY <2>5, <2>9
    <3>2. b <= a /\ a <= b + e /\ e <= most
      BY <2>6, <2>7, <2>8, <3>1
    <3>3. a - b \in Nat /\ a - b <= most
      BY <1>3, <3>2
    <3> QED BY <3>1, <3>3
  <2> HIDE DEF most
  <2>11. PICK n \in Nat : n = (u \div f) - (m \div f)
    BY <2>10
  <2>12. n <= most
    BY <2>10, <2>11
  <2>13. n * g \in Nat /\ most * g \in Nat /\ n * g <= most * g
    BY <1>1, <1>3, <2>12, TimesMonotone
  <2> QED BY <1>4, <2>3, <2>11, <2>13
<1> QED BY <1>5, <1>6

\* A step that is not the first of a period leaves room for what it adds.
LEMMA RoomGrows ==
    ASSUME NEW c, CadenceOK(c), NEW s \in Nat, s % c.targetFreq # 0,
           NEW k \in Nat, k = 0 \/ (k = c.grad /\ s % c.freq = 0),
           NEW x \in 0 .. Room(c, s)
    PROVE  x + k <= Room(c, s + 1)
<1>1. PICK f \in Nat \ {0}, period \in Nat \ {0}, g \in Nat :
        f = c.freq /\ period = c.targetFreq /\ g = c.grad
  BY DEF CadenceOK
<1>2. s # 0
  BY <1>1, ZeroMod
<1>3. PICK u \in Nat : u = s - 1
  BY <1>2
<1>4. (s - 1) % period = (s % period) - 1
  <2>1. s \in Nat \ {0} /\ s % period # 0
    BY <1>1, <1>2
  <2> QED BY <1>1, <2>1, BeforeInPeriod
<1> DEFINE m == s - (s % period)
<1>5. m \in Nat /\ m <= s /\ s % period \in 0 .. period - 1
  BY <1>1, PeriodStart
<1>6. u - (u % period) = m
  BY <1>1, <1>3, <1>4, <1>5
<1>7. m <= u
  BY <1>1, <1>2, <1>3, <1>5
<1>8. Room(c, s) = ((u \div f) - (m \div f)) * g
  <2>1. Room(c, s) = (((s - 1) \div f) - ((s - 1 - ((s - 1) % period)) \div f)) * g
    BY <1>1, <1>2 DEF Room, Rounds
  <2> QED BY <1>3, <1>6, <2>1
<1>9. Room(c, s + 1) = ((s \div f) - (m \div f)) * g
  <2>1. s + 1 # 0 /\ (s + 1) - 1 = s
    OBVIOUS
  <2>2. Room(c, s + 1) = Rounds(c, s + 1) * g
    BY <1>1, <2>1 DEF Room
  <2>3. Rounds(c, s + 1) = (s \div f) - ((s - (s % period)) \div f)
    BY <1>1, <2>1 DEF Rounds
  <2> QED BY <2>2, <2>3
<1> HIDE DEF m
<1>10. PICK a \in Nat, b \in Nat, e \in Nat :
         a = u \div f /\ b = s \div f /\ e = m \div f
  <2>1. u \div f \in Nat /\ s \div f \in Nat /\ m \div f \in Nat
    BY <1>1, <1>3, <1>5, DivMod
  <2> QED BY <2>1
<1>11. e <= a
  BY <1>1, <1>3, <1>5, <1>7, <1>10, QuotientMonotone
<1>12. a <= b /\ (s % f = 0 => a + 1 <= b)
  BY <1>1, <1>2, <1>3, <1>10, Beat
<1>13. x <= (a - e) * g /\ Room(c, s + 1) = (b - e) * g
  BY <1>8, <1>9, <1>10
<1>14. a - e \in Nat /\ b - e \in Nat /\ a - e <= b - e
  BY <1>11, <1>12
<1>15. CASE k = 0
  <2>1. PICK i \in Nat, j \in Nat : i = a - e /\ j = b - e
    BY <1>14
  <2>2. i * g \in Nat /\ j * g \in Nat /\ i * g <= j * g
    BY <1>1, <1>14, <2>1, TimesMonotone
  <2> QED BY <1>13, <1>15, <2>1, <2>2
<1>16. CASE k = g /\ s % f = 0
  <2>1. PICK i \in Nat, j \in Nat : i = a - e + 1 /\ j = b - e
    BY <1>14
  <2>2. i <= j
    BY <1>12, <1>16, <2>1
  <2>3. i * g \in Nat /\ j * g \in Nat /\ i * g <= j * g
    BY <1>1, <2>2, TimesMonotone
  <2>4. i * g = (a - e) * g + g
    <3>1. PICK h \in Nat : h = a - e
      BY <1>14
    <3>2. i = h + 1
      BY <2>1, <3>1
    <3>3. (h + 1) * g = h * g + g
      OBVIOUS
    <3> QED BY <3>1, <3>2, <3>3
  <2>5. (a - e) * g \in Nat
    <3>1. PICK h \in Nat : h = a - e
      BY <1>14
    <3>2. h * g \in Nat
      BY <1>1
    <3> QED BY <3>1, <3>2
  <2> QED BY <1>13, <1>16, <2>1, <2>3, <2>4, <2>5
<1> QED BY <1>1, <1>15, <1>16

LEMMA CheckpointCadence ==
    ASSUME ConfigOK(cfg), CadenceOK(cfg), NEW n \in NetsType, NEW s, NEW k,
           NEW names, NEW settings, Basics \subseteq settings
    PROVE  LET d == Checkpoint(n, s, k, names, settings) IN
           /\ CadenceOK(d.cfg) /\ d.cfg.algo = cfg.algo
           /\ \A x \in Parts : d.nets[x] = IF x \in names THEN n[x] ELSE 0
           /\ {"freq", "grad", "targetFreq"} \subseteq settings =>
                Between(d.cfg) = Between(cfg)
<1> DEFINE d == Checkpoint(n, s, k, names, settings)
           saved == [f \in DOMAIN cfg |->
                       IF f \in settings \cup {"algo"} THEN cfg[f] ELSE Defaults[f]]
           kept == [x \in Parts |-> IF x \in names THEN n[x] ELSE 0]
<1>1. d.nets = kept /\ d.cfg = saved
  BY NetworksAreParts DEF Checkpoint
<1>2. \A x \in Parts : kept[x] = IF x \in names THEN n[x] ELSE 0
  OBVIOUS
<1>3. /\ saved["algo"] = cfg["algo"]
      /\ saved["freq"] \in {cfg["freq"], 1}
      /\ saved["grad"] \in {cfg["grad"], 1}
      /\ saved["targetFreq"] \in {cfg["targetFreq"], 1}
      /\ saved["batch"] = cfg["batch"] /\ saved["capacity"] = cfg["capacity"]
      /\ "freq" \in settings => saved["freq"] = cfg["freq"]
      /\ "grad" \in settings => saved["grad"] = cfg["grad"]
      /\ "targetFreq" \in settings => saved["targetFreq"] = cfg["targetFreq"]
      /\ DOMAIN saved = DOMAIN cfg
  BY DEF CadenceOK, Basics, Defaults
<1> HIDE DEF saved, kept, d
<1>4. CadenceOK(saved) /\ saved.algo = cfg.algo
  BY <1>3 DEF CadenceOK
<1>5. {"freq", "grad", "targetFreq"} \subseteq settings => Between(saved) = Between(cfg)
  BY <1>3 DEF Between
<1> QED BY <1>1, <1>2, <1>4, <1>5 DEF d

\* A checkpoint keeps what the target networks owe, or the networks are made
\* anew together.
LEMMA SavedBehind ==
    ASSUME ConfigOK(cfg), CadenceOK(cfg), NEW n \in NetsType, NEW s,
           cfg.algo \in {"SAC", "TD3", "TQC"} => n.target = n.critic,
           cfg.algo = "DQN" => Behind(n) \in 0 .. Between(cfg)
    PROVE  FileBehind(Saved(n, s)) /\ Saved(n, s).cfg.algo = cfg.algo
<1> USE DEF Parts
<1>1. CASE cfg.algo = "SAC"
  <2>1. Saved(n, s) = SACSave(n, s)
    BY <1>1 DEF Saved
  <2> QED BY <1>1, <2>1, CheckpointCadence DEF SACSave, SACNetworks, FileBehind, Basics
<1>2. CASE cfg.algo = "TD3"
  <2>1. Saved(n, s) = TD3Save(n, s)
    BY <1>2 DEF Saved
  <2> QED BY <1>2, <2>1, CheckpointCadence DEF TD3Save, TD3Networks, FileBehind, Basics
<1>3. CASE cfg.algo = "DQN"
  <2>1. Saved(n, s) = DQNSave(n, s)
    BY <1>3 DEF Saved
  <2> DEFINE d == DQNSave(n, s)
  <2>2. /\ CadenceOK(d.cfg) /\ d.cfg.algo = cfg.algo
        /\ d.nets.critic = n.critic /\ d.nets.target = n.target
        /\ Between(d.cfg) = Between(cfg)
    BY CheckpointCadence DEF DQNSave, DQNNetworks, Basics
  <2> HIDE DEF d
  <2>3. Behind(d.nets) \in 0 .. Between(d.cfg)
    BY <1>3, <2>2 DEF Behind
  <2> QED BY <1>3, <2>1, <2>2, <2>3 DEF FileBehind, d
<1>4. CASE cfg.algo = "CrossQ"
  <2>1. Saved(n, s) = CrossQSave(n, s)
    BY <1>4 DEF Saved
  <2> QED BY <1>4, <2>1, CheckpointCadence DEF CrossQSave, FileBehind, Basics
<1>5. CASE cfg.algo = "TQC"
  <2>1. Saved(n, s) = TQCSave(n, s)
    BY <1>5 DEF Saved
  <2> QED BY <1>5, <2>1, CheckpointCadence DEF TQCSave, TQCNetworks, FileBehind, Basics
<1>6. CASE cfg.algo = "MPO"
  <2>1. Saved(n, s) = MPOSave(n, s)
    BY <1>6 DEF Saved
  <2> QED BY <1>6, <2>1, CheckpointCadence DEF MPOSave, FileBehind, Basics
<1>7. CASE cfg.algo = "QMIX"
  <2>1. Saved(n, s) = QMIXSave(n, s)
    BY <1>7 DEF Saved
  <2> QED BY <1>7, <2>1, CheckpointCadence DEF QMIXSave, FileBehind, Basics
<1> QED BY <1>1, <1>2, <1>3, <1>4, <1>5, <1>6, <1>7 DEF ConfigOK, Algorithms

\* What one iteration leaves behind follows from what it does to the networks.
LEMMA IterationLag ==
    ASSUME IInv, LagInv, call.on, UNCHANGED cfg, NEW goOn \in BOOLEAN, Advance(goOn),
           NEW acted, NEW updates \in Nat, NEW stored, last' = Did(acted, updates, stored),
           updates > 0 /\ FreshTargets => cfg.batch = 1,
           cfg.algo \in Polyak => nets'.target = nets'.critic,
           cfg.algo \in Copied => Behind(nets') \in 0 .. Between(cfg),
           cfg.algo \in Copied /\ goOn => Behind(nets') \in 0 .. Room(cfg, call.step + 1),
           disk' = disk \/ FileBehind(disk')
    PROVE  LagInv'
<1>1. /\ CadenceOK(cfg) /\ cfg' = cfg
      /\ call \in [on : BOOLEAN, n : Nat, step : Nat, total : Nat] /\ call.n # 0
  BY DEF LagInv
<1>2. /\ call' \in [on : BOOLEAN, n : Nat, step : Nat, total : Nat]
      /\ call'.n = call.n
      /\ \/ call'.on /\ goOn /\ call'.step = call.step + 1
         \/ ~call'.on /\ call'.step = 0
  <2>1. CASE goOn /\ call.step + 1 < call.total
    <3>1. call' = [call EXCEPT !.step = @ + 1]
      BY <2>1 DEF Advance
    <3>2. call' = [call EXCEPT !.step = call.step + 1]
      BY <3>1
    <3> QED BY <1>1, <2>1, <3>2
  <2>2. CASE ~(goOn /\ call.step + 1 < call.total)
    BY <1>1, <2>2 DEF Advance, Idle
  <2> QED BY <2>1, <2>2
<1>3. ~FreshTargets'
  BY <1>1, <1>2 DEF FreshTargets
<1>4. cfg.algo \in Copied => Behind(nets') \in 0 .. Room(cfg, call'.step)
  BY <1>2 DEF Room
<1>5. IF call'.on THEN call'.n # 0 ELSE call'.step = 0
  BY <1>1, <1>2
<1>6. TargetLagBounded'
  <2>1. last'.lag = IF updates > 0 THEN Behind(nets) ELSE 0
    BY DEF Did, Behind
  <2>2. Between(cfg) \in Nat /\ Room(cfg, call.step) \in Nat
        /\ Room(cfg, call.step) <= Between(cfg)
    BY <1>1, RoomIsBetween
  <2>3. CASE cfg.algo \in Copied /\ (updates = 0 \/ ~FreshTargets)
    <3>1. Behind(nets) \in 0 .. Room(cfg, call.step) \/ updates = 0
      BY <2>3 DEF LagInv
    <3>2. last'.lag \in 0 .. Between(cfg)
      BY <2>1, <2>2, <3>1
    <3> QED BY <1>1, <2>3, <3>2 DEF TargetLagBounded, Between, Copied
  <2>4. CASE cfg.algo \in Copied /\ updates > 0 /\ FreshTargets
    <3>1. cfg.algo = "QMIX" /\ cfg.batch = 1 /\ call'.n = 1
      BY <1>1, <1>2, <2>4 DEF FreshTargets
    <3> QED BY <1>1, <3>1 DEF TargetLagBounded
  <2>5. CASE cfg.algo \in Polyak
    <3>1. nets.target = nets.critic /\ nets.critic \in Nat
      BY <2>5, NetsAreNats DEF LagInv, IInv
    <3>2. last'.lag = 0
      BY <2>1, <3>1 DEF Behind
    <3> QED BY <1>1, <2>5, <3>2 DEF TargetLagBounded, Polyak
  <2>6. CASE cfg.algo = "CrossQ"
    BY <1>1, <2>6 DEF TargetLagBounded
  <2> QED BY <2>3, <2>4, <2>5, <2>6 DEF IInv, ConfigOK, Algorithms, Polyak, Copied
<1>7. (disk # NoCheckpoint => FileBehind(disk))'
  BY DEF LagInv, FileBehind
<1> QED BY <1>1, <1>2, <1>3, <1>4, <1>5, <1>6, <1>7 DEF LagInv

\* DQN and QMIX: the gradient steps, then the copy when a period begins.
LEMMA CopyLag ==
    ASSUME IInv, LagInv, call.on, cfg.algo \in Copied, NEW k \in Nat,
           k = 0 \/ (k = cfg.grad /\ call.step % cfg.freq = 0)
    PROVE  /\ Behind(DQNSync(DQNUpdate(k))) \in 0 .. Room(cfg, call.step + 1)
           /\ Behind(DQNSync(DQNUpdate(k))) \in 0 .. Between(cfg)
<1> DEFINE after == DQNSync(DQNUpdate(k))
<1>1. /\ CadenceOK(cfg) /\ nets \in NetsType
      /\ nets.critic \in Nat /\ nets.target \in Nat
      /\ call.step \in Nat /\ call.n # 0
  BY NetsAreNats DEF IInv, LagInv
<1>2. /\ Room(cfg, call.step + 1) \in Nat /\ Between(cfg) \in Nat
      /\ Room(cfg, call.step + 1) <= Between(cfg)
  <2>1. call.step + 1 \in Nat
    BY <1>1
  <2> QED BY <1>1, <2>1, RoomIsBetween
<1>3. PICK a \in Nat : a = nets.critic + k
  BY <1>1
<1>4. DQNUpdate(k) = [nets EXCEPT !.critic = a]
  BY <1>3 DEF DQNUpdate
<1>5. PICK m : m = DQNUpdate(k)
  OBVIOUS
<1>6. m.critic = a /\ m.target = nets.target /\ {"critic", "target"} \subseteq DOMAIN m
  BY <1>1, <1>4, <1>5 DEF NetsType, Parts
<1>7. CASE call.step % cfg.targetFreq = 0
  <2>1. after = [m EXCEPT !.target = m.critic]
    BY <1>5, <1>7 DEF DQNSync
  <2>2. after.target = a /\ after.critic = a
    BY <1>6, <2>1
  <2> HIDE DEF after
  <2>3. Behind(after) = 0
    BY <2>2 DEF Behind
  <2> QED BY <1>2, <2>3 DEF after
<1>8. CASE call.step % cfg.targetFreq # 0
  <2>1. after.critic = a /\ after.target = nets.target
    BY <1>5, <1>6, <1>8 DEF DQNSync
  <2>2. ~FreshTargets
    <3>1. 0 % cfg.targetFreq = 0
      BY <1>1, ZeroMod DEF CadenceOK
    <3> QED BY <1>1, <1>8, <3>1 DEF FreshTargets
  <2>3. Behind(nets) \in 0 .. Room(cfg, call.step)
    BY <2>2 DEF LagInv
  <2>4. Behind(nets) + k <= Room(cfg, call.step + 1)
    BY <1>1, <1>8, <2>3, RoomGrows
  <2> HIDE DEF after
  <2>5. Behind(after) = Behind(nets) + k
    BY <1>1, <1>3, <2>1 DEF Behind
  <2>6. Behind(nets) \in Nat
    BY <1>1, <2>3 DEF Behind
  <2> QED BY <1>2, <2>4, <2>5, <2>6 DEF after
<1> QED BY <1>7, <1>8

\* The other side of DueFacts: updates come in full rounds on the beat.
LEMMA DueOnBeat ==
    ASSUME NEW n
    PROVE  Due(n) = 0 \/ (Due(n) = cfg.grad /\ call.step % cfg.freq = 0)
BY DEF Due

LEMMA StepThenLearnLag ==
    ASSUME IInv, LagInv, call.on, cfg.algo # "QMIX",
           NEW ends, NEW stored, NEW acted, NEW learned, NEW k \in Nat,
           StepThenLearn(ends, stored, acted, learned, k),
           cfg.algo \in Polyak => learned.target = learned.critic,
           cfg.algo = "DQN" =>
             /\ Behind(learned) \in 0 .. Room(cfg, call.step + 1)
             /\ Behind(learned) \in 0 .. Between(cfg)
    PROVE  LagInv'
<1>1. PICK save \in BOOLEAN, goOn \in BOOLEAN :
        /\ disk' = IF save THEN Saved(nets, globalStep + 1) ELSE disk
        /\ nets' = IF goOn THEN learned ELSE nets
        /\ last' = Did(acted, IF goOn THEN k ELSE 0, stored)
        /\ Advance(goOn)
  BY DEF StepThenLearn
<1>2. UNCHANGED cfg
  BY DEF StepThenLearn
<1>3. /\ CadenceOK(cfg) /\ ConfigOK(cfg) /\ nets \in NetsType /\ call.step \in Nat
      /\ cfg.algo \in Polyak => nets.target = nets.critic
      /\ ~FreshTargets
  BY DEF IInv, LagInv, FreshTargets
<1>4. cfg.algo = "DQN" => Behind(nets) \in 0 .. Between(cfg)
  <2>1. cfg.algo = "DQN" => Behind(nets) \in 0 .. Room(cfg, call.step)
    BY <1>3 DEF LagInv, Copied
  <2>2. /\ Room(cfg, call.step) \in Nat /\ Between(cfg) \in Nat
        /\ Room(cfg, call.step) <= Between(cfg)
    BY <1>3, RoomIsBetween
  <2> QED BY <2>1, <2>2
<1>5. FileBehind(Saved(nets, globalStep + 1))
  BY <1>3, <1>4, SavedBehind DEF Polyak
<1>6. PICK updates \in Nat : updates = IF goOn THEN k ELSE 0
  OBVIOUS
<1>7. last' = Did(acted, updates, stored)
  BY <1>1, <1>6
<1>8. cfg.algo \in Polyak => nets'.target = nets'.critic
  BY <1>1, <1>3
<1>9. /\ cfg.algo \in Copied => Behind(nets') \in 0 .. Between(cfg)
      /\ cfg.algo \in Copied /\ goOn => Behind(nets') \in 0 .. Room(cfg, call.step + 1)
  BY <1>1, <1>4 DEF Copied
<1>10. disk' = disk \/ FileBehind(disk')
  BY <1>1, <1>5
<1> QED BY <1>1, <1>2, <1>3, <1>7, <1>8, <1>9, <1>10, IterationLag

\* A soft update leaves the target having seen the latest step.
LEMMA PolyakTargets ==
    ASSUME IInv, LagInv, NEW k \in Nat, cfg.algo \in Polyak
    PROVE  /\ SACUpdate(k).target = SACUpdate(k).critic
           /\ TQCUpdate(k).target = TQCUpdate(k).critic
           /\ MPOUpdate(k).target = MPOUpdate(k).critic
           /\ TD3Update(k).target = TD3Update(k).critic
<1>1. nets \in NetsType /\ nets.target = nets.critic /\ nets.critic \in Nat
  BY NetsAreNats DEF IInv, LagInv
<1>2. (IF k > 0 THEN nets.critic + k ELSE nets.target) = nets.critic + k
  BY <1>1
<1>3. PICK a, c, e, f :
        /\ a = nets.critic + k /\ c = nets.actor + k
        /\ e = nets.actor + Delayed(k)
        /\ f = IF Delayed(k) > 0 THEN nets.actor + Delayed(k) ELSE nets.actorTarget
  OBVIOUS
<1>4. SACUpdate(k) = [nets EXCEPT !.critic = a, !.target = a, !.actor = c]
  BY <1>2, <1>3 DEF SACUpdate
<1>5. TD3Update(k)
        = [nets EXCEPT !.critic = a, !.target = a, !.actor = e, !.actorTarget = f]
  BY <1>2, <1>3 DEF TD3Update
<1>6. SACUpdate(k).target = SACUpdate(k).critic
  <2>1. PICK m : m = [nets EXCEPT !.critic = a, !.target = a, !.actor = c]
    OBVIOUS
  <2>2. m.target = m.critic
    BY <1>1, <2>1 DEF NetsType, Parts
  <2> QED BY <1>4, <2>1, <2>2
<1>7. TD3Update(k).target = TD3Update(k).critic
  <2>1. PICK m :
          m = [nets EXCEPT !.critic = a, !.target = a, !.actor = e, !.actorTarget = f]
    OBVIOUS
  <2>2. m.target = m.critic
    BY <1>1, <2>1 DEF NetsType, Parts
  <2> QED BY <1>5, <2>1, <2>2
<1>8. TQCUpdate(k) = SACUpdate(k) /\ MPOUpdate(k) = SACUpdate(k)
  BY JointUpdate
<1> QED BY <1>6, <1>7, <1>8

LEMMA SACTrainLag ==
    ASSUME IInv, LagInv, SACTrain PROVE LagInv'
<1>1. PICK end \in Ends :
        LET k == Due(Grown(OneStep(end))) IN
        StepThenLearn(<<end>>, OneStep(end), ByStep, SACUpdate(k), k)
  BY DEF SACTrain
<1>2. PICK k : k = Due(Grown(OneStep(end)))
  OBVIOUS
<1>3. k \in Nat /\ (k = 0 \/ (k = cfg.grad /\ call.step % cfg.freq = 0))
      /\ call.on /\ cfg.algo = "SAC"
  BY <1>2, DueFacts, DueOnBeat DEF SACTrain, Single
<1>4. SACUpdate(k).target = SACUpdate(k).critic
  BY <1>3, PolyakTargets DEF SACTrain, Single, Polyak
<1>5. StepThenLearn(<<end>>, OneStep(end), ByStep, SACUpdate(k), k)
  BY <1>1, <1>2
<1> QED BY <1>3, <1>4, <1>5, StepThenLearnLag DEF Polyak

LEMMA TQCTrainLag ==
    ASSUME IInv, LagInv, TQCTrain PROVE LagInv'
<1>1. PICK end \in Ends :
        LET k == Due(Grown(OneStep(end))) IN
        StepThenLearn(<<end>>, OneStep(end), ByStep, TQCUpdate(k), k)
  BY DEF TQCTrain
<1>2. PICK k : k = Due(Grown(OneStep(end)))
  OBVIOUS
<1>3. k \in Nat /\ (k = 0 \/ (k = cfg.grad /\ call.step % cfg.freq = 0))
      /\ call.on /\ cfg.algo = "TQC"
  BY <1>2, DueFacts, DueOnBeat DEF TQCTrain, Single
<1>4. TQCUpdate(k).target = TQCUpdate(k).critic
  BY <1>3, PolyakTargets DEF TQCTrain, Single, Polyak
<1>5. StepThenLearn(<<end>>, OneStep(end), ByStep, TQCUpdate(k), k)
  BY <1>1, <1>2
<1> QED BY <1>3, <1>4, <1>5, StepThenLearnLag DEF Polyak

LEMMA TD3TrainLag ==
    ASSUME IInv, LagInv, TD3Train PROVE LagInv'
<1>1. PICK end \in Ends :
        LET k == Due(Grown(OneStep(end))) IN
        StepThenLearn(<<end>>, OneStep(end), ByStep, TD3Update(k), k)
  BY DEF TD3Train
<1>2. PICK k : k = Due(Grown(OneStep(end)))
  OBVIOUS
<1>3. k \in Nat /\ (k = 0 \/ (k = cfg.grad /\ call.step % cfg.freq = 0))
      /\ call.on /\ cfg.algo = "TD3"
  BY <1>2, DueFacts, DueOnBeat DEF TD3Train, Single
<1>4. TD3Update(k).target = TD3Update(k).critic
  BY <1>3, PolyakTargets DEF TD3Train, Single, Polyak
<1>5. StepThenLearn(<<end>>, OneStep(end), ByStep, TD3Update(k), k)
  BY <1>1, <1>2
<1> QED BY <1>3, <1>4, <1>5, StepThenLearnLag DEF Polyak

LEMMA CrossQTrainLag ==
    ASSUME IInv, LagInv, CrossQTrain PROVE LagInv'
<1>1. PICK end \in Ends :
        LET k == Due(Grown(OneStep(end))) IN
        StepThenLearn(<<end>>, OneStep(end), ByStep, CrossQUpdate(k), k)
  BY DEF CrossQTrain
<1>2. PICK k : k = Due(Grown(OneStep(end)))
  OBVIOUS
<1>3. k \in Nat /\ (k = 0 \/ (k = cfg.grad /\ call.step % cfg.freq = 0))
      /\ call.on /\ cfg.algo = "CrossQ"
  BY <1>2, DueFacts, DueOnBeat DEF CrossQTrain, Single
<1>4. cfg.algo \notin Polyak /\ cfg.algo # "DQN"
  BY DEF CrossQTrain, Single, Polyak
<1>5. StepThenLearn(<<end>>, OneStep(end), ByStep, CrossQUpdate(k), k)
  BY <1>1, <1>2
<1> QED BY <1>3, <1>4, <1>5, StepThenLearnLag DEF Polyak

LEMMA DQNTrainLag ==
    ASSUME IInv, LagInv, DQNTrain PROVE LagInv'
<1>1. PICK end \in Ends :
        LET k == Due(Grown(DQNStored(end))) IN
        StepThenLearn(<<end>>, DQNStored(end), ByStep, DQNSync(DQNUpdate(k)), k)
  BY DEF DQNTrain
<1>2. PICK k : k = Due(Grown(DQNStored(end)))
  OBVIOUS
<1>3. k \in Nat /\ (k = 0 \/ (k = cfg.grad /\ call.step % cfg.freq = 0))
      /\ call.on /\ cfg.algo = "DQN"
  BY <1>2, DueFacts, DueOnBeat DEF DQNTrain, Single
<1>4. /\ Behind(DQNSync(DQNUpdate(k))) \in 0 .. Room(cfg, call.step + 1)
      /\ Behind(DQNSync(DQNUpdate(k))) \in 0 .. Between(cfg)
  BY <1>3, CopyLag DEF DQNTrain, Single, Copied
<1>5. StepThenLearn(<<end>>, DQNStored(end), ByStep, DQNSync(DQNUpdate(k)), k)
  BY <1>1, <1>2
<1> QED BY <1>3, <1>4, <1>5, StepThenLearnLag DEF Polyak

LEMMA SACTrainWithCollectorLag ==
    ASSUME IInv, LagInv, SACTrainWithCollector PROVE LagInv'
<1>1. PICK ends \in [Envs -> Ends] :
        LET k == Due(Grown(CollectStep(ends))) IN
        StepThenLearn(ends, CollectStep(ends), ByGlobalStep, SACUpdate(k), k)
  BY DEF SACTrainWithCollector
<1>2. PICK k : k = Due(Grown(CollectStep(ends)))
  OBVIOUS
<1>3. k \in Nat /\ (k = 0 \/ (k = cfg.grad /\ call.step % cfg.freq = 0))
      /\ call.on /\ cfg.algo = "SAC"
  BY <1>2, DueFacts, DueOnBeat DEF SACTrainWithCollector, Collector
<1>4. SACUpdate(k).target = SACUpdate(k).critic
  BY <1>3, PolyakTargets DEF SACTrainWithCollector, Collector, Polyak
<1>5. StepThenLearn(ends, CollectStep(ends), ByGlobalStep, SACUpdate(k), k)
  BY <1>1, <1>2
<1> QED BY <1>3, <1>4, <1>5, StepThenLearnLag DEF Polyak

LEMMA TD3TrainWithCollectorLag ==
    ASSUME IInv, LagInv, TD3TrainWithCollector PROVE LagInv'
<1>1. PICK ends \in [Envs -> Ends] :
        LET k == Due(Grown(CollectStep(ends))) IN
        StepThenLearn(ends, CollectStep(ends), ByGlobalStep, TD3Update(k), k)
  BY DEF TD3TrainWithCollector
<1>2. PICK k : k = Due(Grown(CollectStep(ends)))
  OBVIOUS
<1>3. k \in Nat /\ (k = 0 \/ (k = cfg.grad /\ call.step % cfg.freq = 0))
      /\ call.on /\ cfg.algo = "TD3"
  BY <1>2, DueFacts, DueOnBeat DEF TD3TrainWithCollector, Collector
<1>4. TD3Update(k).target = TD3Update(k).critic
  BY <1>3, PolyakTargets DEF TD3TrainWithCollector, Collector, Polyak
<1>5. StepThenLearn(ends, CollectStep(ends), ByGlobalStep, TD3Update(k), k)
  BY <1>1, <1>2
<1> QED BY <1>3, <1>4, <1>5, StepThenLearnLag DEF Polyak

LEMMA DQNTrainWithCollectorLag ==
    ASSUME IInv, LagInv, DQNTrainWithCollector PROVE LagInv'
<1>1. PICK ends \in [Envs -> Ends] :
        LET k == Due(Grown(CollectStep(ends))) IN
        StepThenLearn(ends, CollectStep(ends), ByGlobalStep, DQNSync(DQNUpdate(k)), k)
  BY DEF DQNTrainWithCollector
<1>2. PICK k : k = Due(Grown(CollectStep(ends)))
  OBVIOUS
<1>3. k \in Nat /\ (k = 0 \/ (k = cfg.grad /\ call.step % cfg.freq = 0))
      /\ call.on /\ cfg.algo = "DQN"
  BY <1>2, DueFacts, DueOnBeat DEF DQNTrainWithCollector, Collector
<1>4. /\ Behind(DQNSync(DQNUpdate(k))) \in 0 .. Room(cfg, call.step + 1)
      /\ Behind(DQNSync(DQNUpdate(k))) \in 0 .. Between(cfg)
  BY <1>3, CopyLag DEF DQNTrainWithCollector, Collector, Copied
<1>5. StepThenLearn(ends, CollectStep(ends), ByGlobalStep, DQNSync(DQNUpdate(k)), k)
  BY <1>1, <1>2
<1> QED BY <1>3, <1>4, <1>5, StepThenLearnLag DEF Polyak

LEMMA MPOTrainLag ==
    ASSUME IInv, LagInv, MPOTrain PROVE LagInv'
<1>1. PICK end \in Ends, save \in BOOLEAN, goOn \in BOOLEAN :
        LET stored == OneStep(end)
            k == IF call.step >= cfg.starts /\ Grown(stored) >= cfg.batch THEN 1 ELSE 0
        IN  /\ nets' = MPOUpdate(k)
            /\ last' = Did(ByStep, k, stored)
            /\ disk' = IF save THEN Saved(MPOUpdate(k), globalStep + 1) ELSE disk
            /\ Advance(goOn)
  BY DEF MPOTrain
<1>2. PICK k \in Nat :
        k = IF call.step >= cfg.starts /\ Grown(OneStep(end)) >= cfg.batch THEN 1 ELSE 0
  OBVIOUS
<1>3. /\ nets' = MPOUpdate(k) /\ Advance(goOn)
      /\ last' = Did(ByStep, k, OneStep(end))
      /\ disk' = IF save THEN Saved(MPOUpdate(k), globalStep + 1) ELSE disk
  BY <1>1, <1>2
<1>4. cfg.algo = "MPO" /\ call.on /\ UNCHANGED cfg
  BY DEF MPOTrain, Single
<1>5. MPOUpdate(k) \in NetsType /\ MPOUpdate(k).target = MPOUpdate(k).critic
  BY <1>4, MPOKeepsPace, PolyakTargets DEF Polyak
<1>6. FileBehind(Saved(MPOUpdate(k), globalStep + 1))
  BY <1>4, <1>5, SavedBehind DEF IInv, LagInv
<1>7. cfg.algo \notin Copied /\ ~FreshTargets
  BY <1>4 DEF Copied, FreshTargets
<1> QED BY <1>3, <1>4, <1>5, <1>6, <1>7, IterationLag

LEMMA QMIXTrainLag ==
    ASSUME IInv, LagInv, QMIXTrain PROVE LagInv'
<1>1. PICK end \in Ends :
        LET stored == OneStep(end)
            k == IF Grown(stored) >= cfg.batch THEN 1 ELSE 0
        IN  /\ nets' = DQNSync(QMIXUpdate(k))
            /\ last' = Did("policy", k, stored)
            /\ Advance(TRUE)
  BY DEF QMIXTrain
<1>2. PICK k \in Nat : k = IF Grown(OneStep(end)) >= cfg.batch THEN 1 ELSE 0
  OBVIOUS
<1>3. /\ nets' = DQNSync(DQNUpdate(k)) /\ Advance(TRUE)
      /\ last' = Did("policy", k, OneStep(end))
  BY <1>1, <1>2 DEF QMIXUpdate, DQNUpdate
<1>4. cfg.algo = "QMIX" /\ call.on /\ UNCHANGED <<cfg, disk>>
  BY DEF QMIXTrain, Single
<1>5. CadenceOK(cfg) /\ call.step \in Nat /\ cfg.freq = 1 /\ cfg.grad = 1
      /\ cfg.batch \in Nat \ {0} /\ cfg.capacity \in Nat
  BY <1>4 DEF LagInv, CadenceOK
<1>6. k = 0 \/ (k = cfg.grad /\ call.step % cfg.freq = 0)
  <2>1. call.step % 1 = 0
    BY <1>5, DivMod
  <2> QED BY <1>2, <1>5, <2>1
<1>7. /\ Behind(nets') \in 0 .. Room(cfg, call.step + 1)
      /\ Behind(nets') \in 0 .. Between(cfg)
  BY <1>3, <1>4, <1>6, CopyLag DEF Copied
<1>8. ASSUME k > 0, FreshTargets PROVE cfg.batch = 1
  <2>1. size = 0
    BY <1>8 DEF LagInv
  <2>2. Cardinality(OneStep(end)) = 1
    BY FS_Singleton DEF OneStep
  <2>3. Grown(OneStep(end)) <= 1
    BY <1>5, <2>1, <2>2 DEF Grown, Least
  <2>4. Grown(OneStep(end)) >= cfg.batch
    BY <1>2, <1>8
  <2>5. Grown(OneStep(end)) \in Nat
    BY <1>5, <2>1, <2>2 DEF Grown, Least
  <2> QED BY <1>5, <2>3, <2>4, <2>5
<1>9. cfg.algo \notin Polyak
  BY <1>4 DEF Polyak
<1> QED BY <1>3, <1>4, <1>7, <1>8, <1>9, IterationLag

LEMMA TrainLag ==
    ASSUME IInv, LagInv, Train PROVE LagInv'
<1>1. PICK total \in 1..MaxSteps :
        call' = [on |-> TRUE, n |-> call.n + 1, step |-> 0, total |-> total]
  BY DEF Train
<1>2. /\ ~call.on /\ last' = Nothing
      /\ UNCHANGED <<cfg, nets, size, disk>>
  BY DEF Train
<1>3. /\ call \in [on : BOOLEAN, n : Nat, step : Nat, total : Nat] /\ call.step = 0
      /\ CadenceOK(cfg)
  BY <1>2 DEF LagInv
<1>4. /\ call' \in [on : BOOLEAN, n : Nat, step : Nat, total : Nat]
      /\ call'.on /\ call'.n = call.n + 1 /\ call'.n # 0 /\ call'.step = 0
  BY <1>1, <1>3, BoundsAssumption
<1>5. FreshTargets' <=> FreshTargets
  BY <1>2, <1>3, <1>4 DEF FreshTargets
<1>6. cfg.algo \in Copied /\ ~FreshTargets' => Behind(nets') \in 0 .. Room(cfg, call'.step)
  BY <1>2, <1>3, <1>4, <1>5 DEF LagInv
<1>7. TargetLagBounded'
  <2>1. Between(cfg) \in Nat
    BY <1>3, RoomIsBetween
  <2> QED BY <1>2, <2>1 DEF TargetLagBounded, Between, Nothing
<1> QED BY <1>2, <1>3, <1>4, <1>5, <1>6, <1>7 DEF LagInv, FileBehind

LEMMA SaveLag ==
    ASSUME IInv, LagInv, Save PROVE LagInv'
<1>1. disk' = Saved(nets, globalStep)
      /\ UNCHANGED <<cfg, nets, size, call, last>>
  BY DEF Save
<1>2. /\ CadenceOK(cfg) /\ ConfigOK(cfg) /\ nets \in NetsType /\ call.step \in Nat
  BY DEF IInv, LagInv
<1>3. cfg.algo = "DQN" => Behind(nets) \in 0 .. Between(cfg)
  <2>1. cfg.algo = "DQN" => Behind(nets) \in 0 .. Room(cfg, call.step)
    BY DEF LagInv, Copied, FreshTargets
  <2>2. /\ Room(cfg, call.step) \in Nat /\ Between(cfg) \in Nat
        /\ Room(cfg, call.step) <= Between(cfg)
    BY <1>2, RoomIsBetween
  <2> QED BY <2>1, <2>2
<1>4. FileBehind(Saved(nets, globalStep))
  BY <1>2, <1>3, SavedBehind DEF LagInv, Polyak
<1> QED BY <1>1, <1>4 DEF LagInv, FileBehind, FreshTargets, TargetLagBounded

LEMMA ReloadLag ==
    ASSUME IInv, LagInv, NEW names, NEW updates, Reload(names, updates),
           cfg.algo \in {"SAC", "TD3", "TQC", "DQN"} => {"critic", "target"} \subseteq names,
           cfg.algo = "MPO" => names = {"actor"}
    PROVE  LagInv'
<1>1. /\ FileOK(disk) /\ FileBehind(disk) /\ cfg' = disk.cfg /\ UNCHANGED disk
      /\ call' = Idle(0) /\ size' = 0 /\ last' = Nothing
  BY DEF IInv, LagInv, Reload
<1>2. CadenceOK(cfg') /\ cfg'.algo = cfg.algo
  BY <1>1 DEF FileOK, FileBehind
<1>3. \A x \in Parts : nets'[x] = IF x \in names THEN disk.nets[x] ELSE 0
  BY NetworksAreParts DEF Reload
<1>4. /\ "critic" \in names => nets'.critic = disk.nets.critic
      /\ "critic" \notin names => nets'.critic = 0
      /\ "target" \in names => nets'.target = disk.nets.target
      /\ "target" \notin names => nets'.target = 0
  BY <1>3 DEF Parts
<1>5. /\ call' \in [on : BOOLEAN, n : Nat, step : Nat, total : Nat]
      /\ ~call'.on /\ call'.step = 0 /\ call'.n = 0
  BY <1>1 DEF Idle
<1>6. cfg'.algo \in Polyak => nets'.target = nets'.critic
  BY <1>1, <1>2, <1>4 DEF FileBehind, Polyak
<1>7. cfg'.algo \in Copied /\ ~FreshTargets' => Behind(nets') \in 0 .. Room(cfg', call'.step)
  <2> SUFFICES ASSUME cfg'.algo \in Copied, ~FreshTargets'
               PROVE  Behind(nets') \in 0 .. Room(cfg', call'.step)
    OBVIOUS
  <2>1. cfg.algo = "DQN"
    BY <1>2, <1>5 DEF FreshTargets, Copied
  <2>2. Behind(nets') = Behind(disk.nets)
    BY <1>4, <2>1 DEF Behind
  <2>3. Behind(disk.nets) \in 0 .. Between(disk.cfg)
    BY <1>1, <2>1 DEF FileBehind, FileOK
  <2> QED BY <1>1, <1>5, <2>2, <2>3 DEF Room
<1>8. TargetLagBounded'
  <2>1. Between(cfg') \in Nat
    BY <1>2, RoomIsBetween
  <2> QED BY <1>1, <2>1 DEF TargetLagBounded, Between, Nothing
<1>9. (disk # NoCheckpoint => FileBehind(disk))'
  BY <1>1 DEF FileBehind
<1> QED BY <1>1, <1>2, <1>5, <1>6, <1>7, <1>8, <1>9 DEF LagInv

LEMMA RestoreLag ==
    ASSUME IInv, LagInv,
           \/ SACFromCheckpoint \/ TD3FromCheckpoint \/ DQNFromCheckpoint
           \/ CrossQFromCheckpoint \/ TQCFromCheckpoint \/ MPOFromCheckpoint
           \/ QMIXFromCheckpoint
    PROVE  LagInv'
<1> USE ReloadLag DEF SACNetworks, TD3Networks, TQCNetworks, DQNNetworks
<1>1. CASE SACFromCheckpoint
  BY <1>1 DEF SACFromCheckpoint
<1>2. CASE TD3FromCheckpoint
  BY <1>2 DEF TD3FromCheckpoint
<1>3. CASE DQNFromCheckpoint
  BY <1>3 DEF DQNFromCheckpoint
<1>4. CASE CrossQFromCheckpoint
  BY <1>4 DEF CrossQFromCheckpoint
<1>5. CASE TQCFromCheckpoint
  BY <1>5 DEF TQCFromCheckpoint
<1>6. CASE MPOFromCheckpoint
  BY <1>6 DEF MPOFromCheckpoint
<1>7. CASE QMIXFromCheckpoint
  BY <1>7 DEF QMIXFromCheckpoint
<1> QED BY <1>1, <1>2, <1>3, <1>4, <1>5, <1>6, <1>7

LEMMA InitLag ==
    ASSUME Init PROVE LagInv
<1>1. cfg \in Config
  BY ConfigsAssumption DEF Init
<1>2. CadenceOK(cfg)
  BY <1>1 DEF Config, SACConfig, TD3Config, DQNConfig, CrossQConfig, TQCConfig, MPOConfig,
              QMIXConfig, EveryStep, Settings, CadenceOK, Algorithms, Positive
<1>3. nets.critic = 0 /\ nets.target = 0 /\ size = 0 /\ last = Nothing
  BY DEF Init, Fresh
<1>4. /\ call \in [on : BOOLEAN, n : Nat, step : Nat, total : Nat]
      /\ ~call.on /\ call.step = 0
  BY DEF Init, Idle
<1>5. Between(cfg) \in Nat /\ Room(cfg, 0) \in Nat
  BY <1>2, RoomIsBetween
<1>6. Behind(nets) \in 0 .. Room(cfg, call.step)
  BY <1>3, <1>4, <1>5 DEF Behind
<1>7. TargetLagBounded
  BY <1>3, <1>5 DEF TargetLagBounded, Between, Nothing
<1> QED BY <1>2, <1>3, <1>4, <1>6, <1>7 DEF Init, LagInv

LEMMA NextLag ==
    ASSUME IInv, LagInv, [Next]_vars PROVE LagInv'
<1>1. CASE UNCHANGED vars
  BY <1>1 DEF vars, LagInv, FileBehind, FreshTargets, TargetLagBounded
<1>2. CASE Next
  BY <1>2, TrainLag, SaveLag, RestoreLag, SACTrainLag, TQCTrainLag, TD3TrainLag,
     CrossQTrainLag, DQNTrainLag, MPOTrainLag, QMIXTrainLag,
     SACTrainWithCollectorLag, TD3TrainWithCollectorLag, DQNTrainWithCollectorLag
     DEF Next
<1> QED BY <1>1, <1>2

\* No gradient step is computed with a target network further behind than the
\* gradient steps between two copies, for every copy period and cadence, over
\* calls cut short, saves and restores; a polyak target is never behind.  A
\* restored QMIX with batch size 1 is apart for its first call.
THEOREM TargetLagBoundedHolds == Spec => []TargetLagBounded
<1>1. Init => IInv /\ LagInv
  BY InitIInv, InitLag
<1>2. IInv /\ LagInv /\ [Next]_vars => IInv' /\ LagInv'
  BY NextIInv, NextLag
<1>3. LagInv => TargetLagBounded
  BY DEF LagInv
<1> QED BY <1>1, <1>2, <1>3, PTL DEF Spec

-----------------------------------------------------------------------------
(* What the stored transitions bootstrap from.                             *)

EnvsOK(c) ==
    /\ {"algo", "envs", "nStep"} \subseteq DOMAIN c
    /\ c.envs \in Nat \ {0} /\ c.nStep \in Nat \ {0}

Places == [ep : Nat, t : Nat]
Observations == Nat \X Nat \X Nat
Transitions == [from : Observations, to : Observations, end : Ends, span : Nat]

\* The steps of w follow each other in one episode, up to place e.
Chain(w, e) ==
    \A j \in 1 .. Len(w) :
        /\ w[j].from = <<1, e.ep, e.t - (Len(w) - j) - 1>>
        /\ w[j].to = <<1, e.ep, e.t - (Len(w) - j)>>

\* What may be stored in call n under settings c.
Sound(tr, c, n) ==
    \/ tr.end = "term"
    \/ SameEpisode(tr) /\ tr.to[3] = tr.from[3] + tr.span
    \/ c.envs > 1 /\ tr.end = "trunc"
    \/ c.nStep > 1 /\ n > 1

BootInv ==
    /\ EnvsOK(cfg)
    /\ disk # NoCheckpoint => EnvsOK(disk.cfg)
    /\ env \in [Envs -> Places]
    /\ window \in Seq(Transitions)
    /\ call.n = 0 \/ cfg.algo # "DQN" \/ Vectorised \/ cfg.nStep = 1 => window = <<>>
    /\ call.on /\ call.n = 1 => Chain(window, env[1])
    /\ \A tr \in last.stored : Sound(tr, cfg, call.n)

LEMMA SavedEnvs ==
    ASSUME ConfigOK(cfg), EnvsOK(cfg), NEW n, NEW s
    PROVE  EnvsOK(Saved(n, s).cfg)
<1>1. ASSUME NEW k, NEW names, NEW settings
      PROVE  EnvsOK(Checkpoint(n, s, k, names, settings).cfg)
  <2> DEFINE saved == [f \in DOMAIN cfg |->
                         IF f \in settings \cup {"algo"} THEN cfg[f] ELSE Defaults[f]]
  <2>1. Checkpoint(n, s, k, names, settings).cfg = saved
    BY DEF Checkpoint
  <2>2. /\ saved["envs"] \in {cfg["envs"], 1} /\ saved["nStep"] \in {cfg["nStep"], 1}
        /\ DOMAIN saved = DOMAIN cfg
    BY DEF EnvsOK, Defaults
  <2> HIDE DEF saved
  <2>3. EnvsOK(saved)
    BY <2>2 DEF EnvsOK
  <2> QED BY <2>1, <2>3
<1>2. Saved(n, s) \in {SACSave(n, s), TD3Save(n, s), DQNSave(n, s), CrossQSave(n, s),
                       TQCSave(n, s), MPOSave(n, s), QMIXSave(n, s)}
  BY DEF ConfigOK, Algorithms, Saved
<1> QED BY <1>1, <1>2
        DEF SACSave, TD3Save, DQNSave, CrossQSave, TQCSave, MPOSave, QMIXSave

LEMMA EnvMoves ==
    ASSUME BootInv, NEW ends \in [Envs -> Ends]
    PROVE  /\ EnvAfter(ends) \in [Envs -> Places]
           /\ 1 \in Envs
           /\ ends[1] = "run" =>
                EnvAfter(ends)[1].ep = env[1].ep /\ EnvAfter(ends)[1].t = env[1].t + 1
<1>1. env \in [Envs -> Places] /\ 1 \in Envs
  BY DEF BootInv, EnvsOK, Envs
<1>2. ASSUME NEW i \in Envs
      PROVE  (IF ends[i] = "run" THEN [env[i] EXCEPT !.t = @ + 1] ELSE Started(env[i]))
               \in Places
  <2>1. PICK e \in Places : e = env[i]
    BY <1>1
  <2>2. [e EXCEPT !.t = @ + 1] \in Places
    BY DEF Places
  <2>3. Started(e) \in Places
    <3>1. e.ep + 1 \in Nat /\ 0 \in Nat
      BY DEF Places
    <3>2. PICK a \in Nat : a = e.ep + 1
      BY <3>1
    <3>3. Started(e) = [e EXCEPT !.ep = a, !.t = 0]
      BY <3>2 DEF Started
    <3>4. PICK m : m = [e EXCEPT !.ep = a, !.t = 0]
      OBVIOUS
    <3>5. m \in Places
      BY <3>1, <3>2, <3>4, e \in Places DEF Places
    <3> QED BY <3>3, <3>4, <3>5
  <2> QED BY <2>1, <2>2, <2>3
<1>3. EnvAfter(ends) \in [Envs -> Places]
  BY <1>2 DEF EnvAfter
<1>4. ASSUME ends[1] = "run"
      PROVE  EnvAfter(ends)[1].ep = env[1].ep /\ EnvAfter(ends)[1].t = env[1].t + 1
  <2>1. PICK e \in Places : e = env[1]
    BY <1>1
  <2>2. EnvAfter(ends)[1] = [e EXCEPT !.t = @ + 1]
    BY <1>1, <1>4, <2>1 DEF EnvAfter
  <2> QED BY <2>1, <2>2 DEF Places
<1> QED BY <1>1, <1>3, <1>4

\* In the loop over a single environment, what follows an observation is the
\* next one of its episode.
LEMMA OneStepSound ==
    ASSUME BootInv, NEW end \in Ends, ~Vectorised
    PROVE  /\ <<end>> \in [Envs -> Ends]
           /\ \A tr \in OneStep(end) : Sound(tr, cfg, call.n)
           /\ Transition(Here(1), Successor(1), end, 1) \in Transitions
           /\ Here(1) = <<1, env[1].ep, env[1].t>>
           /\ Successor(1) = <<1, env[1].ep, env[1].t + 1>>
<1>1. cfg.envs = 1 /\ Envs = 1 .. 1 /\ env[1] \in Places
  BY DEF BootInv, EnvsOK, Vectorised, Envs
<1>2. <<end>> \in [Envs -> Ends]
  <2>1. <<end>> \in [1 .. 1 -> Ends]
    OBVIOUS
  <2> QED BY <1>1, <2>1
<1>3. PICK ep \in Nat, t \in Nat : ep = env[1].ep /\ t = env[1].t
  BY <1>1 DEF Places
<1>4. Here(1) = <<1, ep, t>> /\ Successor(1) = <<1, ep, t + 1>>
  BY <1>3 DEF Here, Successor
<1>5. PICK tr : tr = Transition(<<1, ep, t>>, <<1, ep, t + 1>>, end, 1)
  OBVIOUS
<1>6. tr.from = <<1, ep, t>> /\ tr.to = <<1, ep, t + 1>> /\ tr.span = 1
  BY <1>5 DEF Transition
<1>7. Sound(tr, cfg, call.n)
  BY <1>6 DEF Sound, SameEpisode
<1>8. tr \in Transitions
  BY <1>5 DEF Transition, Transitions, Observations
<1> QED BY <1>2, <1>3, <1>4, <1>5, <1>7, <1>8 DEF OneStep

\* The collector errs only at a truncation.
LEMMA CollectSound ==
    ASSUME BootInv, Vectorised, NEW ends \in [Envs -> Ends],
           NEW tr \in CollectStep(ends)
    PROVE  Sound(tr, cfg, call.n)
<1>1. PICK i \in Envs : tr = Transition(Here(i), StepAllObs(i, ends[i]), ends[i], 1)
  BY DEF CollectStep
<1>2. env[i] \in Places /\ ends[i] \in Ends
  BY DEF BootInv
<1>3. tr.from = Here(i) /\ tr.to = StepAllObs(i, ends[i]) /\ tr.end = ends[i] /\ tr.span = 1
  BY <1>1 DEF Transition
<1>4. CASE ends[i] = "run"
  <2>1. PICK ep \in Nat, t \in Nat : ep = env[i].ep /\ t = env[i].t
    BY <1>2 DEF Places
  <2>2. tr.from = <<i, ep, t>> /\ tr.to = <<i, ep, t + 1>>
    BY <1>3, <1>4, <2>1 DEF Here, StepAllObs, Successor
  <2> QED BY <1>3, <2>2 DEF Sound, SameEpisode
<1>5. CASE ends[i] \in {"term", "trunc"}
  BY <1>3, <1>5 DEF Sound, Vectorised
<1> QED BY <1>2, <1>4, <1>5 DEF Ends

LEMMA IterationBoot ==
    ASSUME LagInv, BootInv, call.on, UNCHANGED cfg, NEW goOn \in BOOLEAN, Advance(goOn),
           env' \in [Envs -> Places], window' \in Seq(Transitions),
           cfg.algo # "DQN" \/ Vectorised \/ cfg.nStep = 1 => window' = <<>>,
           call.n = 1 => Chain(window', env'[1]),
           NEW acted, NEW updates, NEW stored, last' = Did(acted, updates, stored),
           \A tr \in stored : Sound(tr, cfg, call.n),
           disk' = disk \/ EnvsOK(disk'.cfg)
    PROVE  BootInv'
<1>1. /\ call \in [on : BOOLEAN, n : Nat, step : Nat, total : Nat] /\ call.n # 0
      /\ cfg' = cfg /\ EnvsOK(cfg)
  BY DEF LagInv, BootInv
<1>2. call'.n = call.n
  <2>1. CASE goOn /\ call.step + 1 < call.total
    <3>1. call' = [call EXCEPT !.step = call.step + 1]
      BY <2>1 DEF Advance
    <3> QED BY <1>1, <3>1
  <2>2. CASE ~(goOn /\ call.step + 1 < call.total)
    BY <1>1, <2>2 DEF Advance, Idle
  <2> QED BY <2>1, <2>2
<1>3. last'.stored = stored
  BY DEF Did
<1>4. (disk # NoCheckpoint => EnvsOK(disk.cfg))'
  BY DEF BootInv, EnvsOK
<1>5. env' \in [Envs' -> Places]
  BY <1>1 DEF Envs
<1>6. Vectorised' <=> Vectorised
  BY <1>1 DEF Vectorised
<1> QED BY <1>1, <1>2, <1>3, <1>4, <1>5, <1>6 DEF BootInv

LEMMA StepThenLearnBoot ==
    ASSUME IInv, LagInv, BootInv, call.on,
           NEW ends \in [Envs -> Ends], NEW stored, NEW acted, NEW learned, NEW k,
           StepThenLearn(ends, stored, acted, learned, k),
           \A tr \in stored : Sound(tr, cfg, call.n),
           window' \in Seq(Transitions),
           cfg.algo # "DQN" \/ Vectorised \/ cfg.nStep = 1 => window' = <<>>,
           call.n = 1 => Chain(window', EnvAfter(ends)[1])
    PROVE  BootInv'
<1>1. PICK save \in BOOLEAN, goOn \in BOOLEAN :
        /\ disk' = IF save THEN Saved(nets, globalStep + 1) ELSE disk
        /\ last' = Did(acted, IF goOn THEN k ELSE 0, stored)
        /\ Advance(goOn)
  BY DEF StepThenLearn
<1>2. UNCHANGED cfg /\ env' = EnvAfter(ends)
  BY DEF StepThenLearn
<1>3. env' \in [Envs -> Places] /\ (call.n = 1 => Chain(window', env'[1]))
  BY <1>2, EnvMoves
<1>4. disk' = disk \/ EnvsOK(disk'.cfg)
  BY <1>1, SavedEnvs DEF IInv, BootInv
<1>5. PICK updates : updates = IF goOn THEN k ELSE 0
  OBVIOUS
<1>6. last' = Did(acted, updates, stored)
  BY <1>1, <1>5
<1> QED BY <1>1, <1>2, <1>3, <1>4, <1>6, IterationBoot

\* Only DQN's own loop has a window.
LEMMA NoWindow ==
    ASSUME BootInv, UNCHANGED window, cfg.algo # "DQN" \/ Vectorised, NEW e
    PROVE  window' = <<>> /\ window' \in Seq(Transitions) /\ Chain(window', e)
<1>1. window' = <<>> /\ window' \in Seq(Transitions)
  BY DEF BootInv
<1>2. Len(window') = 0
  BY <1>1
<1> QED BY <1>1, <1>2 DEF Chain

\* DQN's window keeps to the running episode of the first call, and so do the
\* transitions made from it.
LEMMA WindowSound ==
    ASSUME LagInv, BootInv, call.on, ~Vectorised, NEW end \in Ends,
           window' = DQNKept(end)
    PROVE  /\ \A tr \in DQNStored(end) : Sound(tr, cfg, call.n)
           /\ window' \in Seq(Transitions)
           /\ cfg.nStep = 1 => window' = <<>>
           /\ call.n = 1 => Chain(window', EnvAfter(<<end>>)[1])
<1>1. /\ window \in Seq(Transitions) /\ Len(window) \in Nat
      /\ cfg.nStep \in Nat \ {0} /\ call.n \in Nat \ {0} /\ env[1] \in Places
      /\ call.n = 1 \/ cfg.nStep = 1 => Chain(window, env[1])
  <2>1. cfg.nStep = 1 => Chain(window, env[1])
    <3>1. cfg.nStep = 1 => window = <<>>
      BY DEF BootInv
    <3>2. window = <<>> => Len(window) = 0
      OBVIOUS
    <3> QED BY <3>1, <3>2 DEF Chain
  <2> QED BY <2>1, EnvMoves, OneStepSound DEF BootInv, EnvsOK, LagInv
<1>2. PICK step \in Transitions : step = Transition(Here(1), Successor(1), end, 1)
  BY OneStepSound
<1>3. PICK ep \in Nat, t \in Nat : ep = env[1].ep /\ t = env[1].t
  BY <1>1 DEF Places
<1>4. step.from = <<1, ep, t>> /\ step.to = <<1, ep, t + 1>> /\ step.end = end
  BY <1>2, <1>3, OneStepSound DEF Transition
<1>5. PICK w : w = Append(window, step)
  OBVIOUS
<1>6. /\ w \in Seq(Transitions) /\ Len(w) = Len(window) + 1 /\ w[Len(w)] = step
      /\ \A j \in 1 .. Len(window) : w[j] = window[j]
      /\ Tail(w) \in Seq(Transitions)
  BY <1>1, <1>5
<1>7. DQNWindow(end) = w
  BY <1>2, <1>5 DEF DQNWindow
<1>8. ASSUME call.n = 1 \/ cfg.nStep = 1, NEW j \in 1 .. Len(w)
      PROVE  /\ w[j].from = <<1, ep, t - (Len(w) - j)>>
             /\ w[j].to = <<1, ep, t + 1 - (Len(w) - j)>>
  <2>1. CASE j = Len(w)
    BY <1>4, <1>6, <2>1
  <2>2. CASE j # Len(w)
    <3>1. j \in 1 .. Len(window) /\ w[j] = window[j]
      BY <1>1, <1>6, <2>2
    <3>2. /\ window[j].from = <<1, ep, t - (Len(window) - j) - 1>>
          /\ window[j].to = <<1, ep, t - (Len(window) - j)>>
      BY <1>1, <1>3, <1>8, <3>1 DEF Chain
    <3>3. /\ t - (Len(window) - j) - 1 = t - (Len(w) - j)
          /\ t - (Len(window) - j) = t + 1 - (Len(w) - j)
      BY <1>1, <1>6, <3>1
    <3> QED BY <3>1, <3>2, <3>3, Zenon
  <2> QED BY <2>1, <2>2
<1>9. ASSUME NEW k \in 1 .. Len(w) PROVE Sound(NStep(w, k), cfg, call.n)
  <2>1. CASE call.n = 1 \/ cfg.nStep = 1
    <3>1. /\ w[k].from = <<1, ep, t - (Len(w) - k)>>
          /\ w[Len(w)].to = <<1, ep, t + 1>>
      BY <1>4, <1>6, <1>8, <2>1
    <3>2. PICK a \in Int : a = t - (Len(w) - k)
      <4>1. Len(w) \in Int /\ k \in Int /\ t \in Int
        BY <1>1, <1>6
      <4>2. t - (Len(w) - k) \in Int
        BY <4>1
      <4> QED BY <4>2
    <3>3. t + 1 = a + (Len(w) - k + 1)
      BY <1>1, <1>6, <3>2
    <3>4. PICK tr : tr = NStep(w, k)
      OBVIOUS
    <3>5. /\ tr.from = <<1, ep, a>> /\ tr.to = <<1, ep, t + 1>>
          /\ tr.span = Len(w) - k + 1
      BY <3>1, <3>2, <3>4 DEF NStep, Transition
    <3>6. Sound(tr, cfg, call.n)
      BY <3>3, <3>5 DEF Sound, SameEpisode
    <3> QED BY <3>4, <3>6
  <2>2. CASE ~(call.n = 1 \/ cfg.nStep = 1)
    BY <1>1, <2>2 DEF Sound
  <2> QED BY <2>1, <2>2
<1>10. \A tr \in DQNStored(end) : Sound(tr, cfg, call.n)
  <2>1. 1 \in 1 .. Len(w)
    BY <1>1, <1>6
  <2>2. \A tr \in DQNStored(end) : \E k \in 1 .. Len(w) : tr = NStep(w, k)
    BY <1>7, <2>1 DEF DQNStored
  <2> QED BY <1>9, <2>2
<1>11. window' = IF end # "run" THEN <<>> ELSE IF Len(w) < cfg.nStep THEN w ELSE Tail(w)
  BY <1>7 DEF DQNKept
<1>12. window' \in Seq(Transitions)
  BY <1>6, <1>11
<1>13. cfg.nStep = 1 => window' = <<>>
  <2> SUFFICES ASSUME cfg.nStep = 1, end = "run" PROVE window' = <<>>
    BY <1>11
  <2>1. window = <<>>
    BY DEF BootInv
  <2>2. w = <<step>>
    BY <1>5, <2>1
  <2>3. Len(w) = 1 /\ Tail(w) = <<>>
    BY <2>2
  <2>4. ~(Len(w) < cfg.nStep)
    BY <2>3
  <2> QED BY <1>11, <2>3, <2>4
<1>14. ASSUME call.n = 1 PROVE Chain(window', EnvAfter(<<end>>)[1])
  <2>1. CASE end # "run"
    <3>1. Len(window') = 0
      BY <1>11, <2>1
    <3> QED BY <3>1 DEF Chain
  <2>2. CASE end = "run"
    <3>1. PICK e : e = EnvAfter(<<end>>)[1]
      OBVIOUS
    <3>2. e.ep = ep /\ e.t = t + 1
      <4>1. <<end>> \in [Envs -> Ends] /\ <<end>>[1] = "run"
        BY <2>2, OneStepSound
      <4> QED BY <1>3, <3>1, <4>1, EnvMoves
    <3>3. Chain(w, e)
      <4> SUFFICES ASSUME NEW j \in 1 .. Len(w)
                   PROVE  /\ w[j].from = <<1, e.ep, e.t - (Len(w) - j) - 1>>
                          /\ w[j].to = <<1, e.ep, e.t - (Len(w) - j)>>
        BY DEF Chain
      <4>1. /\ w[j].from = <<1, ep, t - (Len(w) - j)>>
            /\ w[j].to = <<1, ep, t + 1 - (Len(w) - j)>>
        BY <1>8, <1>14
      <4>2. t - (Len(w) - j) = t + 1 - (Len(w) - j) - 1
        BY <1>1, <1>6
      <4> QED BY <3>2, <4>1, <4>2
    <3>4. Chain(Tail(w), e)
      <4>1. Len(Tail(w)) = Len(w) - 1 /\ \A j \in 1 .. Len(Tail(w)) : Tail(w)[j] = w[j + 1]
        BY <1>1, <1>6
      <4>2. PICK v : v = Tail(w)
        OBVIOUS
      <4>3. Len(v) = Len(w) - 1 /\ \A j \in 1 .. Len(v) : v[j] = w[j + 1]
        BY <4>1, <4>2
      <4> SUFFICES ASSUME NEW j \in 1 .. Len(v)
                   PROVE  /\ v[j].from = <<1, e.ep, e.t - (Len(v) - j) - 1>>
                          /\ v[j].to = <<1, e.ep, e.t - (Len(v) - j)>>
        BY <4>2 DEF Chain
      <4>4. j + 1 \in 1 .. Len(w) /\ v[j] = w[j + 1] /\ Len(v) - j = Len(w) - (j + 1)
        BY <1>1, <1>6, <4>3
      <4>5. /\ w[j + 1].from = <<1, e.ep, e.t - (Len(w) - (j + 1)) - 1>>
            /\ w[j + 1].to = <<1, e.ep, e.t - (Len(w) - (j + 1))>>
        BY <3>3, <4>4 DEF Chain
      <4> QED BY <4>4, <4>5
    <3> QED BY <1>11, <2>2, <3>1, <3>3, <3>4
  <2> QED BY <2>1, <2>2
<1> QED BY <1>10, <1>12, <1>13, <1>14

LEMMA OneStepBoot ==
    ASSUME IInv, LagInv, BootInv, call.on, ~Vectorised, cfg.algo # "DQN",
           UNCHANGED window, NEW end \in Ends, NEW acted, NEW learned, NEW k,
           StepThenLearn(<<end>>, OneStep(end), acted, learned, k)
    PROVE  BootInv'
<1>1. <<end>> \in [Envs -> Ends] /\ \A tr \in OneStep(end) : Sound(tr, cfg, call.n)
  BY OneStepSound
<1>2. /\ window' = <<>> /\ window' \in Seq(Transitions)
      /\ Chain(window', EnvAfter(<<end>>)[1])
  BY NoWindow
<1> QED BY <1>1, <1>2, StepThenLearnBoot

LEMMA CollectorBoot ==
    ASSUME IInv, LagInv, BootInv, call.on, Vectorised,
           UNCHANGED window, NEW ends \in [Envs -> Ends], NEW acted, NEW learned, NEW k,
           StepThenLearn(ends, CollectStep(ends), acted, learned, k)
    PROVE  BootInv'
<1>1. \A tr \in CollectStep(ends) : Sound(tr, cfg, call.n)
  BY CollectSound
<1>2. window' = <<>> /\ window' \in Seq(Transitions) /\ Chain(window', EnvAfter(ends)[1])
  BY NoWindow
<1> QED BY <1>1, <1>2, StepThenLearnBoot

LEMMA SingleTrainBoot ==
    ASSUME IInv, LagInv, BootInv, SACTrain \/ TD3Train \/ CrossQTrain \/ TQCTrain
    PROVE  BootInv'
<1>1. CASE SACTrain
  <2>1. PICK end \in Ends :
          StepThenLearn(<<end>>, OneStep(end), ByStep, SACUpdate(Due(Grown(OneStep(end)))),
                        Due(Grown(OneStep(end))))
    BY <1>1 DEF SACTrain
  <2> QED BY <1>1, <2>1, OneStepBoot DEF SACTrain, Single
<1>2. CASE TD3Train
  <2>1. PICK end \in Ends :
          StepThenLearn(<<end>>, OneStep(end), ByStep, TD3Update(Due(Grown(OneStep(end)))),
                        Due(Grown(OneStep(end))))
    BY <1>2 DEF TD3Train
  <2> QED BY <1>2, <2>1, OneStepBoot DEF TD3Train, Single
<1>3. CASE CrossQTrain
  <2>1. PICK end \in Ends :
          StepThenLearn(<<end>>, OneStep(end), ByStep, CrossQUpdate(Due(Grown(OneStep(end)))),
                        Due(Grown(OneStep(end))))
    BY <1>3 DEF CrossQTrain
  <2> QED BY <1>3, <2>1, OneStepBoot DEF CrossQTrain, Single
<1>4. CASE TQCTrain
  <2>1. PICK end \in Ends :
          StepThenLearn(<<end>>, OneStep(end), ByStep, TQCUpdate(Due(Grown(OneStep(end)))),
                        Due(Grown(OneStep(end))))
    BY <1>4 DEF TQCTrain
  <2> QED BY <1>4, <2>1, OneStepBoot DEF TQCTrain, Single
<1> QED BY <1>1, <1>2, <1>3, <1>4

LEMMA CollectorTrainBoot ==
    ASSUME IInv, LagInv, BootInv,
           SACTrainWithCollector \/ TD3TrainWithCollector \/ DQNTrainWithCollector
    PROVE  BootInv'
<1>1. CASE SACTrainWithCollector
  <2>1. PICK ends \in [Envs -> Ends] :
          StepThenLearn(ends, CollectStep(ends), ByGlobalStep,
                        SACUpdate(Due(Grown(CollectStep(ends)))),
                        Due(Grown(CollectStep(ends))))
    BY <1>1 DEF SACTrainWithCollector
  <2> QED BY <1>1, <2>1, CollectorBoot DEF SACTrainWithCollector, Collector
<1>2. CASE TD3TrainWithCollector
  <2>1. PICK ends \in [Envs -> Ends] :
          StepThenLearn(ends, CollectStep(ends), ByGlobalStep,
                        TD3Update(Due(Grown(CollectStep(ends)))),
                        Due(Grown(CollectStep(ends))))
    BY <1>2 DEF TD3TrainWithCollector
  <2> QED BY <1>2, <2>1, CollectorBoot DEF TD3TrainWithCollector, Collector
<1>3. CASE DQNTrainWithCollector
  <2>1. PICK ends \in [Envs -> Ends] :
          StepThenLearn(ends, CollectStep(ends), ByGlobalStep,
                        DQNSync(DQNUpdate(Due(Grown(CollectStep(ends))))),
                        Due(Grown(CollectStep(ends))))
    BY <1>3 DEF DQNTrainWithCollector
  <2> QED BY <1>3, <2>1, CollectorBoot DEF DQNTrainWithCollector, Collector
<1> QED BY <1>1, <1>2, <1>3

LEMMA DQNTrainBoot ==
    ASSUME IInv, LagInv, BootInv, DQNTrain PROVE BootInv'
<1>1. PICK end \in Ends :
        /\ StepThenLearn(<<end>>, DQNStored(end), ByStep,
                         DQNSync(DQNUpdate(Due(Grown(DQNStored(end))))),
                         Due(Grown(DQNStored(end))))
        /\ window' = DQNKept(end)
  BY DEF DQNTrain
<1>2. call.on /\ ~Vectorised /\ cfg.algo = "DQN"
  BY DEF DQNTrain, Single
<1>3. <<end>> \in [Envs -> Ends]
  BY <1>2, OneStepSound
<1>4. /\ \A tr \in DQNStored(end) : Sound(tr, cfg, call.n)
      /\ window' \in Seq(Transitions)
      /\ cfg.nStep = 1 => window' = <<>>
      /\ call.n = 1 => Chain(window', EnvAfter(<<end>>)[1])
  BY <1>1, <1>2, WindowSound
<1> QED BY <1>1, <1>2, <1>3, <1>4, StepThenLearnBoot

LEMMA MPOTrainBoot ==
    ASSUME IInv, LagInv, BootInv, MPOTrain PROVE BootInv'
<1> DEFINE Step(end, save, goOn, k) ==
      /\ env' = EnvAfter(<<end>>)
      /\ last' = Did(ByStep, k, OneStep(end))
      /\ disk' = IF save THEN Saved(MPOUpdate(k), globalStep + 1) ELSE disk
      /\ Advance(goOn)
<1>0. PICK end \in Ends, save \in BOOLEAN, goOn \in BOOLEAN :
        \E k : Step(end, save, goOn, k)
  BY DEF MPOTrain
<1>1. PICK k : Step(end, save, goOn, k)
  BY <1>0
<1>2. call.on /\ ~Vectorised /\ cfg.algo = "MPO" /\ UNCHANGED <<cfg, window>>
  BY DEF MPOTrain, Single
<1>3. <<end>> \in [Envs -> Ends] /\ \A tr \in OneStep(end) : Sound(tr, cfg, call.n)
  BY <1>2, OneStepSound
<1>4. env' \in [Envs -> Places]
  BY <1>1, <1>3, EnvMoves
<1>5. window' = <<>> /\ window' \in Seq(Transitions) /\ Chain(window', env'[1])
  BY <1>2, NoWindow
<1>6. disk' = disk \/ EnvsOK(disk'.cfg)
  BY <1>1, SavedEnvs DEF IInv, BootInv
<1> QED BY <1>1, <1>2, <1>3, <1>4, <1>5, <1>6, IterationBoot

LEMMA QMIXTrainBoot ==
    ASSUME IInv, LagInv, BootInv, QMIXTrain PROVE BootInv'
<1> DEFINE Step(end, k) ==
      /\ env' = EnvAfter(<<end>>)
      /\ last' = Did("policy", k, OneStep(end))
      /\ Advance(TRUE)
<1>0. PICK end \in Ends : \E k : Step(end, k)
  BY DEF QMIXTrain
<1>1. PICK k : Step(end, k)
  BY <1>0
<1>2. call.on /\ ~Vectorised /\ cfg.algo = "QMIX" /\ UNCHANGED <<cfg, window, disk>>
  BY DEF QMIXTrain, Single
<1>3. <<end>> \in [Envs -> Ends] /\ \A tr \in OneStep(end) : Sound(tr, cfg, call.n)
  BY <1>2, OneStepSound
<1>4. env' \in [Envs -> Places]
  BY <1>1, <1>3, EnvMoves
<1>5. window' = <<>> /\ window' \in Seq(Transitions) /\ Chain(window', env'[1])
  BY <1>2, NoWindow
<1> QED BY <1>1, <1>2, <1>3, <1>4, <1>5, IterationBoot

\* train() leaves the window as it is, so the first call starts without one.
LEMMA TrainBoot ==
    ASSUME LagInv, BootInv, Train PROVE BootInv'
<1>1. /\ call'.n = call.n + 1 /\ last' = Nothing
      /\ UNCHANGED <<cfg, window, disk>>
  BY DEF Train
<1>2. call.n \in Nat /\ EnvsOK(cfg) /\ window \in Seq(Transitions)
  BY DEF LagInv, BootInv
<1>3. env' \in [Envs -> Places]
  <2>1. ASSUME NEW i \in Envs PROVE Started(env[i]) \in Places
    <3>1. PICK e \in Places : e = env[i]
      BY DEF BootInv
    <3>2. PICK a \in Nat : a = e.ep + 1
      BY DEF Places
    <3>3. Started(e) = [e EXCEPT !.ep = a, !.t = 0]
      BY <3>2 DEF Started
    <3>4. PICK m : m = [e EXCEPT !.ep = a, !.t = 0]
      OBVIOUS
    <3>5. m \in Places
      BY <3>2, <3>4, e \in Places DEF Places
    <3> QED BY <3>1, <3>3, <3>4, <3>5
  <2> QED BY <2>1 DEF Train
<1>4. env' \in [Envs' -> Places] /\ (Vectorised' <=> Vectorised)
  BY <1>1, <1>3 DEF Envs, Vectorised
<1>5. call'.n # 0 /\ (call'.n = 1 => call.n = 0)
  BY <1>1, <1>2
<1>6. call'.n = 1 => Chain(window', env'[1])
  <2> SUFFICES ASSUME call'.n = 1 PROVE Chain(window', env'[1])
    OBVIOUS
  <2>1. window' = <<>>
    BY <1>1, <1>5 DEF BootInv
  <2>2. Len(window') = 0
    BY <2>1
  <2> QED BY <2>2 DEF Chain
<1>7. \A tr \in last'.stored : Sound(tr, cfg', call'.n)
  BY <1>1 DEF Nothing
<1>8. /\ (disk # NoCheckpoint => EnvsOK(disk.cfg))' /\ EnvsOK(cfg')
      /\ window' \in Seq(Transitions)
      /\ call'.n = 0 \/ cfg'.algo # "DQN" \/ Vectorised' \/ cfg'.nStep = 1 => window' = <<>>
  BY <1>1, <1>2, <1>4, <1>5 DEF BootInv
<1> QED BY <1>4, <1>6, <1>7, <1>8 DEF BootInv

LEMMA SaveBoot ==
    ASSUME IInv, BootInv, Save PROVE BootInv'
<1>1. disk' = Saved(nets, globalStep) /\ UNCHANGED <<cfg, env, window, call, last>>
  BY DEF Save
<1>2. EnvsOK(disk'.cfg)
  BY <1>1, SavedEnvs DEF IInv, BootInv
<1> QED BY <1>1, <1>2 DEF BootInv, Envs, Vectorised

LEMMA ReloadBoot ==
    ASSUME BootInv, NEW names, NEW updates, Reload(names, updates) PROVE BootInv'
<1>1. /\ disk # NoCheckpoint /\ cfg' = disk.cfg /\ EnvsOK(disk.cfg) /\ UNCHANGED disk
      /\ env' = [i \in 1..disk.cfg.envs |-> [ep |-> 0, t |-> 0]]
      /\ window' = <<>> /\ call' = Idle(0) /\ last' = Nothing
  BY DEF Reload, BootInv
<1>2. env' \in [Envs' -> Places]
  <2>1. [ep |-> 0, t |-> 0] \in Places
    BY DEF Places
  <2> QED BY <1>1, <2>1 DEF Envs
<1>3. ~call'.on /\ \A tr \in last'.stored : Sound(tr, cfg', call'.n)
  BY <1>1 DEF Idle, Nothing
<1>4. window' \in Seq(Transitions)
  BY <1>1
<1> QED BY <1>1, <1>2, <1>3, <1>4 DEF BootInv

LEMMA RestoreBoot ==
    ASSUME BootInv,
           \/ SACFromCheckpoint \/ TD3FromCheckpoint \/ DQNFromCheckpoint
           \/ CrossQFromCheckpoint \/ TQCFromCheckpoint \/ MPOFromCheckpoint
           \/ QMIXFromCheckpoint
    PROVE  BootInv'
<1>1. \E names, updates : Reload(names, updates)
  BY DEF SACFromCheckpoint, TD3FromCheckpoint, DQNFromCheckpoint, CrossQFromCheckpoint,
         TQCFromCheckpoint, MPOFromCheckpoint, QMIXFromCheckpoint
<1> QED BY <1>1, ReloadBoot

LEMMA InitBoot ==
    ASSUME Init PROVE BootInv
<1>1. cfg \in Config
  BY ConfigsAssumption DEF Init
<1>2. EnvsOK(cfg)
  BY <1>1 DEF Config, SACConfig, TD3Config, DQNConfig, CrossQConfig, TQCConfig, MPOConfig,
              QMIXConfig, EveryStep, Settings, EnvsOK, Positive
<1>3. env \in [Envs -> Places]
  <2>1. [ep |-> 0, t |-> 0] \in Places
    BY DEF Places
  <2> QED BY <2>1 DEF Init
<1>4. window = <<>> /\ window \in Seq(Transitions) /\ ~call.on /\ last.stored = {}
  BY DEF Init, Idle, Nothing
<1> QED BY <1>2, <1>3, <1>4 DEF Init, BootInv

LEMMA NextBoot ==
    ASSUME IInv, LagInv, BootInv, [Next]_vars PROVE BootInv'
<1>1. CASE UNCHANGED vars
  BY <1>1 DEF vars, BootInv, Envs, Vectorised
<1>2. CASE Next
  BY <1>2, TrainBoot, SaveBoot, RestoreBoot, SingleTrainBoot, CollectorTrainBoot,
     DQNTrainBoot, MPOTrainBoot, QMIXTrainBoot DEF Next
<1> QED BY <1>1, <1>2

\* What a stored transition bootstraps from is an observation of its own
\* episode, as many steps later as it spans, for every number of environments,
\* every n and any order of episodes, calls, saves and restores; only the
\* collector's truncations and a window left from an earlier call are apart.
THEOREM BootstrapsStayInEpisodeHolds == Spec => []BootstrapsStayInEpisode
<1>1. Init => IInv /\ LagInv /\ BootInv
  BY InitIInv, InitLag, InitBoot
<1>2. IInv /\ LagInv /\ BootInv /\ [Next]_vars => IInv' /\ LagInv' /\ BootInv'
  BY NextIInv, NextLag, NextBoot
<1>3. BootInv => BootstrapsStayInEpisode
  BY DEF BootInv, Sound, BootstrapsStayInEpisode, Vectorised
<1> QED BY <1>1, <1>2, <1>3, PTL DEF Spec

=============================================================================
