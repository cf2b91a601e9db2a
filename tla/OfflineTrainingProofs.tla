------------------------- MODULE OfflineTrainingProofs -------------------------
(***************************************************************************)
(* Proofs about OfflineTraining for every configuration its assumptions    *)
(* allow, datasets and episodes of every length, stops, saves and restores.*)
(***************************************************************************)
EXTENDS OfflineTraining, FiniteSetTheorems, SequenceTheorems, WellFoundedInduction, TLAPS

-----------------------------------------------------------------------------
(* Configurations and networks.                                            *)

(* What the proofs need of a configuration.                                *)
Algorithms == {"BC", "TD3BC", "CQL", "IQL", "CalQL", "AWR", "DT", "Diffusion", "DTP"}
ConfigOK(c) ==
  /\ c.algo \in Algorithms
  /\ c.delay \in Positive /\ c.rounds \in Positive /\ c.obsH \in Positive /\ c.actH \in Positive
  /\ c.batch \in Positive /\ c.warmup \in Nat /\ c.auto \in BOOLEAN
  /\ c.entropy \in BOOLEAN /\ c.discrete \in BOOLEAN
  /\ c.dataset \in Recorded

LEMMA SettingsOK ==
  ASSUME NEW algo \in Algorithms, NEW delay, NEW rounds, NEW obsH, NEW actH, NEW dataset,
         delay \subseteq Positive, rounds \subseteq Positive, obsH \subseteq Positive,
         actH \subseteq Positive, dataset \subseteq Recorded,
         NEW c \in Settings(algo, delay, rounds, obsH, actH, dataset)
  PROVE  ConfigOK(c)
<1>1. /\ c.algo = algo /\ c.delay \in delay /\ c.rounds \in rounds /\ c.obsH \in obsH
      /\ c.actH \in actH /\ c.batch \in Positive /\ c.warmup \in Nat /\ c.auto \in BOOLEAN
      /\ c.entropy \in BOOLEAN /\ c.discrete \in BOOLEAN /\ c.dataset \in dataset
  BY DEF Settings
<1> QED BY <1>1 DEF ConfigOK

LEMMA NoEpisodes == {<<>>} \subseteq Recorded
<1> DEFINE E == [len : Positive, end : Ends]
<1>1. <<>> \in Seq(E) /\ Len(<<>>) = 0
  BY EmptySeq
<1> HIDE DEF E
<1>2. <<>> \in {eps \in Seq(E) : \A k \in 1..Len(eps) - 1 : eps[k].end # "run"}
  BY <1>1
<1> QED BY <1>2 DEF Recorded, E

LEMMA ConfigsOK ==
  ASSUME NEW c \in Config
  PROVE  ConfigOK(c)
<1>1. {1} \subseteq Positive /\ Positive \subseteq Positive /\ Recorded \subseteq Recorded
  BY DEF Positive
<1>2. {"BC", "TD3BC", "CQL", "IQL", "CalQL", "AWR", "DT", "Diffusion", "DTP"} = Algorithms
  BY DEF Algorithms
<1>3. CASE c \in BCConfig \cup TD3BCConfig
  BY <1>1, <1>2, <1>3, SettingsOK DEF BCConfig, TD3BCConfig
<1>4. CASE c \in CQLConfig \cup IQLConfig
  BY <1>1, <1>2, <1>4, SettingsOK DEF CQLConfig, IQLConfig
<1>5. CASE c \in CalQLConfig \cup AWRConfig
  BY <1>1, <1>2, <1>5, SettingsOK, NoEpisodes DEF CalQLConfig, AWRConfig
<1>6. CASE c \in DecisionTransformerConfig \cup DiffusionPolicyConfig
  BY <1>1, <1>2, <1>6, SettingsOK, NoEpisodes DEF DecisionTransformerConfig, DiffusionPolicyConfig
<1>7. CASE c \in DTPConfig
  BY <1>1, <1>2, <1>7, SettingsOK DEF DTPConfig
<1> QED BY <1>3, <1>4, <1>5, <1>6, <1>7 DEF Config

NetsType == [critic : Nat, target : Nat, value : Nat, actor : Nat, actorTarget : Nat,
             alpha : Nat, penalty : Nat]

(* The entropy temperature is tuned: always by CalQL, by CQL if asked to.   *)
Tuned == cfg.algo = "CalQL" \/ cfg.entropy

(* The ratios NetworksInPace demands, of networks n made or restored as b, *)
(* after s steps of the counter.                                           *)
Pace(n, b, s) ==
  /\ cfg.algo \in {"BC", "CQL", "IQL", "DT", "Diffusion"} => n.actor = s
  /\ cfg.algo = "TD3BC" => /\ n.critic = s /\ n.target = s
                           /\ n.actor = s \div cfg.delay /\ n.actorTarget = n.actor
  /\ cfg.algo \in {"CQL", "IQL", "CalQL"} => n.critic = n.actor /\ n.target = n.critic
  /\ cfg.algo = "IQL" => n.value = n.critic
  /\ cfg.algo \in {"CQL", "CalQL"} => /\ n.alpha = IF Tuned THEN n.actor - b.actor ELSE 0
                                      /\ n.penalty = IF cfg.auto THEN n.actor - b.actor ELSE 0
  /\ cfg.algo = "AWR" => n.critic = cfg.rounds * n.actor
  /\ cfg.algo \in {"CalQL", "AWR"} => n.actor <= s

LEMMA PaceIs == Pace(nets, born, globalStep) <=> NetworksInPace
BY DEF Pace, NetworksInPace, Is, Online, Tuned

LEMMA NetsAre ==
  ASSUME NEW n \in NetsType
  PROVE  \E c, t, v, a, x, l, p \in Nat :
           n = [critic |-> c, target |-> t, value |-> v, actor |-> a, actorTarget |-> x,
                alpha |-> l, penalty |-> p]
BY DEF NetsType

(* Quotient and remainder are the only ones there are.                     *)
LEMMA Quotient ==
  ASSUME NEW d \in Nat \ {0}, NEW k \in Nat, NEW s \in Nat, s < d
  PROVE  (d * k + s) \div d = k /\ (d * k + s) % d = s
<1>1. PICK m : m = d * k + s
  OBVIOUS
<1>2. PICK x, y : x = m \div d /\ y = m % d
  OBVIOUS
<1>3. m \in Nat
  BY <1>1
<1>4. x \in Int /\ y \in 0..d - 1 /\ m = d * x + y
  BY <1>2, <1>3
<1>5. ~(k > x)
  <2>1. SUFFICES ASSUME k > x PROVE FALSE
    OBVIOUS
  <2>2. PICK z \in Nat : k = x + 1 + z
    <3>1. k - x - 1 \in Nat /\ k = x + 1 + (k - x - 1)
      BY <1>4, <2>1
    <3> QED BY <3>1
  <2>3. d * k = d * x + d + d * z /\ d * z \in Nat /\ d * x \in Int
    BY <1>4, <2>2
  <2> QED BY <1>1, <1>4, <2>3
<1>6. ~(x > k)
  <2>1. SUFFICES ASSUME x > k PROVE FALSE
    OBVIOUS
  <2>2. PICK z \in Nat : x = k + 1 + z
    <3>1. x - k - 1 \in Nat /\ x = k + 1 + (x - k - 1)
      BY <1>4, <2>1
    <3> QED BY <3>1
  <2>3. d * x = d * k + d + d * z /\ d * z \in Nat /\ d * k \in Nat
    BY <2>2
  <2> QED BY <1>1, <1>4, <2>3
<1>7. x = k
  BY <1>4, <1>5, <1>6
<1>8. y = s
  <2>1. d * k \in Nat /\ m = d * k + y
    BY <1>4, <1>7
  <2> QED BY <1>1, <1>4, <2>1
<1> QED BY <1>1, <1>2, <1>7, <1>8

(* A counter by the delay grows when the delay comes round.                *)
LEMMA DelayDivides ==
  ASSUME NEW c \in Nat, NEW d \in Nat \ {0}
  PROVE  (c + 1) \div d = (c \div d) + (IF (c + 1) % d = 0 THEN 1 ELSE 0)
<1>1. PICK q, r : /\ q \in Nat /\ r \in Nat /\ r < d /\ c = d * q + r
                  /\ q = c \div d /\ r = c % d
  <2>1. c \div d \in Nat /\ c % d \in Nat /\ c % d < d /\ c = d * (c \div d) + (c % d)
    OBVIOUS
  <2> QED BY <2>1
<1>2. CASE r + 1 < d
  <2>1. c + 1 = d * q + (r + 1)
    BY <1>1
  <2>2. (c + 1) \div d = q /\ (c + 1) % d = r + 1
    <3>1. (d * q + (r + 1)) \div d = q /\ (d * q + (r + 1)) % d = r + 1
      <4>1. PICK s : s = r + 1
        OBVIOUS
      <4>2. q \in Nat /\ s \in Nat /\ s < d
        BY <1>1, <1>2, <4>1
      <4> QED BY <4>1, <4>2, Quotient
    <3> QED BY <2>1, <3>1, Zenon
  <2> QED BY <1>1, <2>2
<1>3. CASE r + 1 = d
  <2>1. c + 1 = d * (q + 1) + 0
    BY <1>1, <1>3
  <2>2. (c + 1) \div d = q + 1 /\ (c + 1) % d = 0
    <3>1. PICK k : k = q + 1
      OBVIOUS
    <3>2. k \in Nat
      <4>1. q \in Nat
        BY <1>1
      <4> QED BY <3>1, <4>1
    <3>3. c + 1 = d * k + 0
      BY <2>1, <3>1, Zenon
    <3>4. (d * k + 0) \div d = k /\ (d * k + 0) % d = 0
      BY <3>2, Quotient
    <3> QED BY <3>1, <3>3, <3>4, Zenon
  <2> QED BY <1>1, <2>2
<1> QED BY <1>1, <1>2, <1>3

(* Each learner keeps the pace.                                            *)
LEMMA ActorKeepsPace ==
  ASSUME nets \in NetsType, NEW s \in Nat, Pace(nets, born, s),
         cfg.algo \in {"BC", "DT", "Diffusion"}, NEW n, n = [nets EXCEPT !.actor = @ + 1]
  PROVE  n \in NetsType /\ Pace(n, born, s + 1)
<1>1. n \in NetsType /\ n.actor = nets.actor + 1
  BY DEF NetsType
<1> QED BY <1>1 DEF Pace, NetsType

LEMMA TD3BCKeepsPace ==
  ASSUME ConfigOK(cfg), nets \in NetsType, NEW s \in Nat, Pace(nets, born, s),
         cfg.algo = "TD3BC", count = s
  PROVE  TD3BCUpdate \in NetsType /\ Pace(TD3BCUpdate, born, s + 1)
<1>1. PICK c, t, v, a, x, l, p \in Nat :
        nets = [critic |-> c, target |-> t, value |-> v, actor |-> a, actorTarget |-> x,
                alpha |-> l, penalty |-> p]
  BY nets \in NetsType, NetsAre, Zenon
<1>2. /\ c = s /\ t = s /\ a = s \div cfg.delay /\ x = a
  BY <1>1 DEF Pace
<1>3. PICK k \in {0, 1} : /\ k = IF (s + 1) % cfg.delay = 0 THEN 1 ELSE 0
                          /\ (s + 1) \div cfg.delay = a + k
  <2>1. cfg.delay \in Nat \ {0}
    BY DEF ConfigOK, Positive
  <2> QED BY <1>2, <2>1, DelayDivides
<1>4. TD3BCUpdate = [critic |-> c + 1, target |-> c + 1, value |-> v, actor |-> a + k,
                     actorTarget |-> IF k = 1 THEN a + 1 ELSE x, alpha |-> l, penalty |-> p]
  <2>1. PICK c1, a1, x1 : /\ c1 = nets.critic + 1 /\ a1 = nets.actor + k
                          /\ x1 = IF k = 1 THEN nets.actor + 1 ELSE nets.actorTarget
    OBVIOUS
  <2>2. TD3BCUpdate = [nets EXCEPT !.critic = c1, !.target = c1, !.actor = a1, !.actorTarget = x1]
    <3>1. CASE (count + 1) % cfg.delay = 0
      <4>1. k = 1 /\ a1 = nets.actor + 1 /\ x1 = nets.actor + 1
        BY count = s, <1>3, <2>1, <3>1
      <4> QED BY <2>1, <3>1, <4>1 DEF TD3BCUpdate
    <3>2. CASE ~((count + 1) % cfg.delay = 0)
      <4>1. k = 0 /\ a1 = nets.actor + 0 /\ x1 = nets.actorTarget
        BY count = s, <1>3, <2>1, <3>2
      <4> QED BY <2>1, <3>2, <4>1 DEF TD3BCUpdate
    <3> QED BY <3>1, <3>2
  <2> QED BY <1>1, <2>1, <2>2
<1>5. (IF k = 1 THEN a + 1 ELSE x) = a + k
  BY <1>2, <1>3
<1> QED BY <1>2, <1>3, <1>4, <1>5 DEF Pace, NetsType

(* The update of CQL and of CalQL.                                         *)
PenaltyUpdate ==
  [nets EXCEPT !.penalty = @ + (IF cfg.auto THEN 1 ELSE 0), !.critic = @ + 1,
               !.target = nets.critic + 1, !.actor = @ + 1,
               !.alpha = @ + (IF Tuned THEN 1 ELSE 0)]

LEMMA PenaltyUpdateIs ==
  ASSUME nets \in NetsType
  PROVE  /\ cfg.algo = "CQL" => CQLUpdate = PenaltyUpdate
         /\ cfg.algo = "CalQL" => CalQLUpdate = PenaltyUpdate
<1>1. CASE cfg.algo = "CQL"
  BY <1>1 DEF CQLUpdate, PenaltyUpdate, Tuned
<1>2. CASE cfg.algo = "CalQL"
  <2>1. (IF Tuned THEN 1 ELSE 0) = 1
    BY <1>2 DEF Tuned
  <2> QED BY <1>2, <2>1 DEF CalQLUpdate, PenaltyUpdate
<1> QED BY <1>1, <1>2

LEMMA CQLKeepsPace ==
  ASSUME ConfigOK(cfg), nets \in NetsType, born \in NetsType, NEW s \in Nat, Pace(nets, born, s),
         cfg.algo \in {"CQL", "CalQL"}
  PROVE  PenaltyUpdate \in NetsType /\ Pace(PenaltyUpdate, born, s + 1)
<1>1. PICK c, t, v, a, x, l, p \in Nat :
        nets = [critic |-> c, target |-> t, value |-> v, actor |-> a, actorTarget |-> x,
                alpha |-> l, penalty |-> p]
  BY nets \in NetsType, NetsAre, Zenon
<1>2. PICK b \in Nat : b = born.actor
  BY DEF NetsType
<1>3. /\ c = a /\ t = a
      /\ l = IF Tuned THEN a - b ELSE 0
      /\ p = IF cfg.auto THEN a - b ELSE 0
      /\ cfg.algo = "CQL" => a = s
      /\ cfg.algo = "CalQL" => a <= s
  BY <1>1, <1>2 DEF Pace
<1>4. PICK q \in Nat, m \in Nat : /\ q = IF cfg.auto THEN p + 1 ELSE p
                                 /\ m = IF Tuned THEN l + 1 ELSE l
  BY <1>1
<1>5. PenaltyUpdate = [critic |-> c + 1, target |-> c + 1, value |-> v, actor |-> a + 1,
                       actorTarget |-> x, alpha |-> m, penalty |-> q]
  <2>1. PICK c1, a1 : c1 = nets.critic + 1 /\ a1 = nets.actor + 1
    OBVIOUS
  <2>2. /\ nets.penalty + (IF cfg.auto THEN 1 ELSE 0) = q
        /\ nets.alpha + (IF Tuned THEN 1 ELSE 0) = m
    BY <1>1, <1>4
  <2>3. PenaltyUpdate = [nets EXCEPT !.penalty = q, !.critic = c1, !.target = c1, !.actor = a1,
                                     !.alpha = m]
    BY <2>1, <2>2 DEF PenaltyUpdate
  <2> QED BY <1>1, <2>1, <2>3
<1>6. /\ m = IF Tuned THEN (a + 1) - b ELSE 0
      /\ q = IF cfg.auto THEN (a + 1) - b ELSE 0
  BY <1>1, <1>2, <1>3, <1>4
<1>7. /\ PenaltyUpdate \in NetsType
      /\ PenaltyUpdate.critic = a + 1 /\ PenaltyUpdate.target = a + 1
      /\ PenaltyUpdate.actor = a + 1 /\ PenaltyUpdate.alpha = m /\ PenaltyUpdate.penalty = q
  BY <1>1, <1>3, <1>4, <1>5 DEF NetsType
<1> QED BY <1>2, <1>3, <1>6, <1>7 DEF Pace

LEMMA IQLKeepsPace ==
  ASSUME nets \in NetsType, NEW s \in Nat, Pace(nets, born, s), cfg.algo = "IQL"
  PROVE  IQLUpdate \in NetsType /\ Pace(IQLUpdate, born, s + 1)
<1>1. PICK c, t, v, a, x, l, p \in Nat :
        nets = [critic |-> c, target |-> t, value |-> v, actor |-> a, actorTarget |-> x,
                alpha |-> l, penalty |-> p]
  BY nets \in NetsType, NetsAre, Zenon
<1>2. c = a /\ t = c /\ v = c /\ a = s
  BY <1>1 DEF Pace
<1>3. IQLUpdate = [critic |-> c + 1, target |-> c + 1, value |-> v + 1, actor |-> a + 1,
                   actorTarget |-> x, alpha |-> l, penalty |-> p]
  <2>1. PICK c1, v1, a1 : c1 = nets.critic + 1 /\ v1 = nets.value + 1 /\ a1 = nets.actor + 1
    OBVIOUS
  <2>2. IQLUpdate = [nets EXCEPT !.value = v1, !.critic = c1, !.target = c1, !.actor = a1]
    BY <2>1 DEF IQLUpdate
  <2> QED BY <1>1, <2>1, <2>2
<1> QED BY <1>2, <1>3 DEF Pace, NetsType

LEMMA AWRKeepsPace ==
  ASSUME ConfigOK(cfg), nets \in NetsType, NEW s \in Nat, Pace(nets, born, s), cfg.algo = "AWR"
  PROVE  AWRUpdate \in NetsType /\ Pace(AWRUpdate, born, s + 1)
<1>1. PICK c, t, v, a, x, l, p \in Nat :
        nets = [critic |-> c, target |-> t, value |-> v, actor |-> a, actorTarget |-> x,
                alpha |-> l, penalty |-> p]
  BY nets \in NetsType, NetsAre, Zenon
<1>2. c = cfg.rounds * a /\ a <= s
  BY <1>1 DEF Pace
<1>3. PICK r \in Nat : r = cfg.rounds
  BY DEF ConfigOK, Positive
<1>4. AWRUpdate = [critic |-> c + r, target |-> t, value |-> v, actor |-> a + 1,
                   actorTarget |-> x, alpha |-> l, penalty |-> p]
  <2>1. PICK c1, a1 : c1 = nets.critic + r /\ a1 = nets.actor + 1
    OBVIOUS
  <2>2. AWRUpdate = [nets EXCEPT !.critic = c1, !.actor = a1]
    BY <1>3, <2>1 DEF AWRUpdate
  <2> QED BY <1>1, <2>1, <2>2
<1>5. c + r = r * (a + 1) /\ a + 1 <= s + 1
  BY <1>2, <1>3
<1> QED BY <1>3, <1>4, <1>5 DEF Pace, NetsType

(* A step of CalQL or AWR that does not learn.                             *)
LEMMA IdlePace ==
  ASSUME nets \in NetsType, NEW s \in Nat, Pace(nets, born, s), cfg.algo \in {"CalQL", "AWR"}
  PROVE  Pace(nets, born, s + 1)
<1>1. nets.actor \in Nat
  BY DEF NetsType
<1> QED BY <1>1 DEF Pace

(* A checkpoint holds networks in pace, and temperatures that start over.  *)
FileOK(d) ==
  /\ d.step \in Nat /\ d.nets \in NetsType
  /\ cfg.algo \in {"DT", "Diffusion", "CalQL", "AWR"} => Pace(d.nets, d.nets, d.step)

PaceInv ==
  /\ ConfigOK(cfg)
  /\ nets \in NetsType /\ born \in NetsType /\ globalStep \in Nat
  /\ Pace(nets, born, globalStep)
  /\ cfg.algo = "TD3BC" => count = globalStep
  /\ disk = NoCheckpoint \/ FileOK(disk)

LEMMA PaceKept ==
  ASSUME PaceInv, cfg' = cfg, nets' \in NetsType, born' \in NetsType, globalStep' \in Nat,
         Pace(nets', born', globalStep'), cfg.algo = "TD3BC" => count' = globalStep',
         disk' = NoCheckpoint \/ FileOK(disk')
  PROVE  PaceInv'
BY DEF PaceInv, FileOK, Pace, Tuned

LEMMA OfflineStepPace ==
  ASSUME PaceInv, OfflineStep
  PROVE  PaceInv'
<1>1. /\ ConfigOK(cfg) /\ nets \in NetsType /\ born \in NetsType /\ globalStep \in Nat
      /\ Pace(nets, born, globalStep) /\ (cfg.algo = "TD3BC" => count = globalStep)
      /\ disk = NoCheckpoint \/ FileOK(disk)
  BY DEF PaceInv
<1>2. /\ cfg' = cfg /\ born' = born /\ disk' = disk /\ count' = count + 1
      /\ globalStep' = globalStep + 1 /\ cfg.algo \in {"BC", "TD3BC", "CQL", "IQL"}
  BY DEF OfflineStep, Is, OverDataset
<1>3. nets' = CASE Is({"BC"}) -> BCUpdate [] Is({"TD3BC"}) -> TD3BCUpdate
                [] Is({"CQL"}) -> CQLUpdate [] Is({"IQL"}) -> IQLUpdate
  BY DEF OfflineStep
<1>4. nets' \in NetsType /\ Pace(nets', born, globalStep + 1)
  <2>1. CASE cfg.algo = "BC"
    <3>1. nets' = [nets EXCEPT !.actor = @ + 1]
      BY <1>3, <2>1 DEF Is, BCUpdate
    <3> QED BY <1>1, <2>1, <3>1, ActorKeepsPace
  <2>2. CASE cfg.algo = "TD3BC"
    <3>1. nets' = TD3BCUpdate
      BY <1>3, <2>2 DEF Is
    <3> QED BY <1>1, <2>2, <3>1, TD3BCKeepsPace
  <2>3. CASE cfg.algo = "CQL"
    <3>1. nets' = CQLUpdate
      BY <1>3, <2>3 DEF Is
    <3> QED BY <1>1, <2>3, <3>1, CQLKeepsPace, PenaltyUpdateIs
  <2>4. CASE cfg.algo = "IQL"
    <3>1. nets' = IQLUpdate
      BY <1>3, <2>4 DEF Is
    <3> QED BY <1>1, <2>4, <3>1, IQLKeepsPace
  <2> QED BY <1>2, <2>1, <2>2, <2>3, <2>4
<1>5. cfg.algo = "TD3BC" => count' = globalStep'
  BY <1>1, <1>2
<1>6. /\ nets' \in NetsType /\ born' \in NetsType /\ globalStep' \in Nat
      /\ Pace(nets', born', globalStep') /\ (disk' = NoCheckpoint \/ FileOK(disk'))
  BY <1>1, <1>2, <1>4
<1> QED BY <1>2, <1>5, <1>6, PaceKept

LEMMA WindowStepPace ==
  ASSUME PaceInv, DTStep \/ DiffusionStep
  PROVE  PaceInv'
<1>1. /\ nets \in NetsType /\ born \in NetsType /\ globalStep \in Nat
      /\ Pace(nets, born, globalStep) /\ (disk = NoCheckpoint \/ FileOK(disk))
  BY DEF PaceInv
<1>2. /\ cfg' = cfg /\ born' = born /\ disk' = disk /\ globalStep' = globalStep + 1
      /\ cfg.algo \in {"DT", "Diffusion"} /\ nets' = [nets EXCEPT !.actor = @ + 1]
  BY DEF DTStep, DiffusionStep, WindowStep, Is, DTUpdate, DiffusionUpdate
<1>3. nets' \in NetsType /\ Pace(nets', born, globalStep + 1)
  BY <1>1, <1>2, ActorKeepsPace
<1> QED BY <1>1, <1>2, <1>3, PaceKept

LEMMA OnlineStepPace ==
  ASSUME PaceInv, NEW end, CalQLStep(end) \/ AWRStep(end)
  PROVE  PaceInv'
<1>1. /\ ConfigOK(cfg) /\ nets \in NetsType /\ born \in NetsType /\ globalStep \in Nat
      /\ Pace(nets, born, globalStep) /\ (disk = NoCheckpoint \/ FileOK(disk))
  BY DEF PaceInv
<1>2. /\ cfg' = cfg /\ born' = born /\ disk' = disk /\ globalStep' = globalStep + 1
      /\ \/ cfg.algo = "CalQL" /\ nets' \in {PenaltyUpdate, nets}
         \/ cfg.algo = "AWR" /\ nets' \in {AWRUpdate, nets}
  <2>1. cfg.algo = "CalQL" => CalQLUpdate = PenaltyUpdate
    BY <1>1, PenaltyUpdateIs
  <2>2. CASE CalQLStep(end)
    <3>1. Is({"CalQL"}) /\ OnlineStep(CalQLUpdate)
      BY <2>2 DEF CalQLStep
    <3> QED BY <2>1, <3>1 DEF OnlineStep, Is
  <2>3. CASE AWRStep(end)
    <3>1. Is({"AWR"}) /\ OnlineStep(AWRUpdate)
      BY <2>3 DEF AWRStep
    <3> QED BY <3>1 DEF OnlineStep, Is
  <2> QED BY <2>2, <2>3
<1>3. nets' \in NetsType /\ Pace(nets', born, globalStep + 1)
  BY <1>1, <1>2, CQLKeepsPace, AWRKeepsPace, IdlePace
<1> QED BY <1>1, <1>2, <1>3, PaceKept

(* Starting a call takes no step; the trees are fitted anew.               *)
LEMMA StartPace ==
  ASSUME PaceInv, OfflineTrain \/ DTPTrain \/ CollectAndTrain \/ OnlineTrain \/ DTRaises
  PROVE  PaceInv'
<1>1. /\ nets \in NetsType /\ born \in NetsType /\ globalStep \in Nat
      /\ Pace(nets, born, globalStep) /\ (cfg.algo = "TD3BC" => count = globalStep)
      /\ disk = NoCheckpoint \/ FileOK(disk)
  BY DEF PaceInv
<1>2. /\ cfg' = cfg /\ born' = born /\ disk' = disk /\ globalStep' = globalStep /\ count' = count
  BY DEF OfflineTrain, DTPTrain, CollectAndTrain, OnlineTrain, DTRaises
<1>3. CASE nets' = nets
  BY <1>1, <1>2, <1>3, PaceKept
<1>4. CASE DTPTrain
  <2>1. nets' = [nets EXCEPT !.actor = 1] /\ cfg.algo = "DTP"
    BY <1>4 DEF DTPTrain, Is
  <2>2. nets' \in NetsType
    BY <1>1, <2>1 DEF NetsType
  <2>3. Pace(nets', born, globalStep)
    BY <2>1 DEF Pace
  <2> QED BY <1>1, <1>2, <2>2, <2>3, PaceKept
<1> QED BY <1>3, <1>4 DEF OfflineTrain, CollectAndTrain, OnlineTrain, DTRaises

LEMMA KeepIs ==
  ASSUME nets \in NetsType, NEW names
  PROVE  /\ Keep(names) \in NetsType
         /\ Keep(names).actor = IF "actor" \in names THEN nets.actor ELSE 0
         /\ Keep(names).critic = IF "critic" \in names THEN nets.critic ELSE 0
         /\ Keep(names).target = IF "target" \in names THEN nets.target ELSE 0
         /\ Keep(names).alpha = IF "alpha" \in names THEN nets.alpha ELSE 0
         /\ Keep(names).penalty = IF "penalty" \in names THEN nets.penalty ELSE 0
BY DEF Keep, NetsType, Fresh

LEMMA SavePace ==
  ASSUME PaceInv, Save
  PROVE  PaceInv'
<1>1. /\ nets \in NetsType /\ born \in NetsType /\ globalStep \in Nat
      /\ Pace(nets, born, globalStep) /\ (cfg.algo = "TD3BC" => count = globalStep)
  BY DEF PaceInv
<1>2. /\ cfg' = cfg /\ born' = born /\ globalStep' = globalStep /\ count' = count /\ nets' = nets
      /\ cfg.algo \in {"CalQL", "AWR", "DT", "Diffusion", "DTP"}
  BY DEF Save, Is, Online, CollectsEpisodes
<1>3. \E names : \E r : \E c :
        /\ disk' = IF cfg.algo = "DTP" THEN DTPSave ELSE File(names, r, c)
        /\ cfg.algo \in {"DT", "Diffusion"} => names = {"actor"}
        /\ cfg.algo = "AWR" => names = {"actor", "critic"}
        /\ cfg.algo = "CalQL" => names = {"actor", "critic", "target"}
  <2>1. disk' = CASE Is({"CalQL"}) -> CalQLSave [] Is({"AWR"}) -> AWRSave [] Is({"DT"}) -> DTSave
                  [] Is({"Diffusion"}) -> DiffusionSave [] Is({"DTP"}) -> DTPSave
    BY DEF Save
  <2>2. CASE cfg.algo = "CalQL"
    <3>1. disk' = File({"actor", "critic", "target"}, returns, calibrated)
      <4>1. CalQLNetworks \ {"alpha", "penalty"} = {"actor", "critic", "target"}
        BY DEF CalQLNetworks
      <4> QED BY <2>1, <2>2, <4>1 DEF Is, CalQLSave
    <3> QED BY <2>2, <3>1
  <2>3. CASE cfg.algo = "AWR"
    BY <2>1, <2>3 DEF Is, AWRSave, AWRNetworks
  <2>4. CASE cfg.algo \in {"DT", "Diffusion"}
    BY <2>1, <2>4 DEF Is, DTSave, DTNetworks, DiffusionSave, DiffusionNetworks
  <2>5. CASE cfg.algo = "DTP"
    BY <2>1, <2>5 DEF Is
  <2> QED BY <1>2, <2>2, <2>3, <2>4, <2>5
<1>4. PICK names, r, c :
        /\ disk' = IF cfg.algo = "DTP" THEN DTPSave ELSE File(names, r, c)
        /\ cfg.algo \in {"DT", "Diffusion"} => names = {"actor"}
        /\ cfg.algo = "AWR" => names = {"actor", "critic"}
        /\ cfg.algo = "CalQL" => names = {"actor", "critic", "target"}
  BY <1>3
<1>5. FileOK(disk')
  <2>1. CASE cfg.algo = "DTP"
    <3>1. disk'.step = 0 /\ disk'.nets = Keep(DTPNetworks)
      BY <1>4, <2>1 DEF DTPSave, File
    <3> QED BY <1>1, <2>1, <3>1, KeepIs DEF FileOK
  <2>2. CASE cfg.algo # "DTP"
    <3>1. disk'.step = globalStep /\ disk'.nets = Keep(names)
      BY <1>4, <2>2 DEF File
    <3>2. PICK k \in NetsType :
            /\ k = Keep(names)
            /\ k.actor = nets.actor
            /\ cfg.algo \in {"AWR", "CalQL"} => k.critic = nets.critic
            /\ cfg.algo = "CalQL" => k.target = nets.target /\ k.alpha = 0 /\ k.penalty = 0
      BY <1>1, <1>2, <1>4, <2>2, KeepIs
    <3>3. nets.actor \in Nat
      BY <1>1 DEF NetsType
    <3>4. Pace(k, k, globalStep)
      BY <1>1, <1>2, <2>2, <3>2, <3>3 DEF Pace
    <3> QED BY <1>1, <3>1, <3>2, <3>4 DEF FileOK
  <2> QED BY <2>1, <2>2
<1> QED BY <1>1, <1>2, <1>5, PaceKept

LEMMA RestorePace ==
  ASSUME PaceInv, Restored, cfg.algo \in {"CalQL", "AWR", "DT", "Diffusion", "DTP"}
  PROVE  PaceInv'
<1>1. FileOK(disk) /\ cfg' = cfg /\ disk' = disk /\ nets' = disk.nets /\ born' = disk.nets
      /\ globalStep' = disk.step
  BY DEF PaceInv, Restored
<1>2. Pace(disk.nets, disk.nets, disk.step)
  <2>1. CASE cfg.algo = "DTP"
    BY <2>1 DEF Pace
  <2>2. CASE cfg.algo # "DTP"
    BY <1>1, <2>2 DEF FileOK
  <2> QED BY <2>1, <2>2
<1>3. nets' \in NetsType /\ born' \in NetsType /\ globalStep' \in Nat
  BY <1>1 DEF FileOK
<1> QED BY <1>1, <1>2, <1>3, PaceKept

LEMMA InitPace ==
  ASSUME Init
  PROVE  PaceInv
<1>1. ConfigOK(cfg)
  BY ConfigsAssumption, ConfigsOK DEF Init
<1>2. Fresh \in NetsType /\ nets = Fresh /\ born = Fresh /\ globalStep = 0 /\ count = 0
      /\ disk = NoCheckpoint
  BY DEF Init, Fresh, NetsType
<1>3. 0 \div cfg.delay = 0 /\ cfg.rounds * 0 = 0
  BY <1>1 DEF ConfigOK, Positive
<1>4. Pace(Fresh, Fresh, 0)
  BY <1>3 DEF Pace, Fresh
<1> QED BY <1>1, <1>2, <1>4 DEF PaceInv

LEMMA NextPace ==
  ASSUME PaceInv, [Next]_vars
  PROVE  PaceInv'
<1>1. CASE UNCHANGED vars
  <2>1. /\ cfg' = cfg /\ nets' = nets /\ born' = born /\ globalStep' = globalStep
        /\ count' = count /\ disk' = disk
    BY <1>1 DEF vars
  <2> QED BY <2>1 DEF PaceInv, FileOK, Pace, Tuned
<1>2. CASE Next
  BY <1>2, OfflineStepPace, WindowStepPace, OnlineStepPace, StartPace, SavePace, RestorePace
     DEF Next, CalQLFromCheckpoint, AWRFromCheckpoint, DTFromCheckpoint, DiffusionFromCheckpoint,
         DTPFromCheckpoint, Is
<1> QED BY <1>1, <1>2

LEMMA PaceInvHolds == Spec => []PaceInv
<1> QED BY InitPace, NextPace, PTL DEF Spec

(* Over any sequence of calls, stops and restores the networks keep the    *)
(* ratios of gradient steps the algorithm prescribes.                      *)
THEOREM NetworksInPaceHolds == Spec => []NetworksInPace
<1>1. PaceInv => NetworksInPace
  BY PaceIs DEF PaceInv
<1> QED BY <1>1, PaceInvHolds, PTL

-----------------------------------------------------------------------------
(* The order of the recorded steps: an episode occupies consecutive places. *)

(* The least element of a set of numbers: induction over the numbers       *)
(* without an operator for a parameter.                                    *)
LEMMA LeastElement ==
  ASSUME NEW T, T \subseteq Nat, T # {}
  PROVE  \E x \in T : \A y \in T : x <= y
<1>1. PICK x \in T : \A y \in T : ~(<<y, x>> \in OpToRel(<, Nat))
  BY NatLessThanWellFounded, WFMin, Zenon
<1>2. \A y \in T : ~(y < x)
  BY <1>1 DEF OpToRel
<1> QED BY <1>2

LEMMA SetInduction ==
  ASSUME NEW S, 0 \in S, \A n \in Nat : n \in S => n + 1 \in S
  PROVE  Nat \subseteq S
<1> SUFFICES ASSUME Nat \ S # {} PROVE FALSE
  OBVIOUS
<1>1. PICK x \in Nat \ S : \A y \in Nat \ S : x <= y
  BY LeastElement
<1>2. x # 0 /\ x - 1 \in Nat /\ x - 1 \in S
  BY <1>1
<1> QED BY <1>1, <1>2

LEMMA GreatestElement ==
  ASSUME NEW T, NEW n \in Nat, T \subseteq 0..n, T # {}
  PROVE  \E x \in T : \A y \in T : y <= x
<1> DEFINE B == {n - x : x \in T}
<1>1. B \subseteq Nat /\ B # {}
  <2>1. PICK x : x \in T
    OBVIOUS
  <2>2. n - x \in B
    BY <2>1
  <2>3. ASSUME NEW y \in T PROVE n - y \in Nat
    OBVIOUS
  <2> QED BY <2>2, <2>3
<1>2. PICK b \in B : \A y \in B : b <= y
  BY <1>1, LeastElement
<1>3. PICK x \in T : b = n - x
  BY <1>2
<1>4. ASSUME NEW y \in T PROVE y <= x
  <2>1. n - y \in B
    OBVIOUS
  <2> QED BY <1>2, <1>3, <2>1
<1> QED BY <1>4

Steps == [ep : Positive, t : Nat, end : Ends]
Follows(x, y) ==
  IF x.end = "run" THEN y.ep = x.ep /\ y.t = x.t + 1 ELSE y.ep = x.ep + 1 /\ y.t = 0
RecordOK(d) ==
  /\ d \in Seq(Steps)
  /\ Len(d) # 0 => d[1].ep = 1 /\ d[1].t = 0
  /\ \A i \in 1..Len(d) - 1 : Follows(d[i], d[i + 1])

LEMMA StepTyped ==
  ASSUME NEW d, RecordOK(d), NEW i \in DOMAIN d
  PROVE  /\ i \in 1..Len(d) /\ Len(d) \in Nat /\ DOMAIN d = 1..Len(d)
         /\ d[i] \in Steps /\ d[i].ep \in Positive /\ d[i].ep \in Nat /\ d[i].t \in Nat
         /\ d[i].end \in Ends
<1>1. d \in Seq(Steps)
  BY DEF RecordOK
<1>2. DOMAIN d = 1..Len(d) /\ Len(d) \in Nat /\ d[i] \in Steps
  BY <1>1, ElementOfSeq, LenProperties
<1> QED BY <1>2 DEF Steps, Positive

(* The steps an episode had before are right before it in the record.      *)
LEMMA Earlier ==
  ASSUME NEW d, RecordOK(d), NEW i \in DOMAIN d
  PROVE  \A s \in 0..d[i].t :
           i - s \in DOMAIN d /\ d[i - s].ep = d[i].ep /\ d[i - s].t = d[i].t - s
<1> DEFINE At(s) == i - s \in DOMAIN d /\ d[i - s].ep = d[i].ep /\ d[i - s].t = d[i].t - s
           S == {s \in Nat : s <= d[i].t => At(s)}
<1>1. i \in 1..Len(d) /\ Len(d) \in Nat /\ DOMAIN d = 1..Len(d) /\ d[i].t \in Nat
  BY StepTyped
<1>2. 0 \in S
  <2>1. At(0)
    BY <1>1
  <2> QED BY <2>1
<1>3. ASSUME NEW s \in Nat, s \in S PROVE s + 1 \in S
  <2> SUFFICES ASSUME s + 1 <= d[i].t PROVE At(s + 1)
    OBVIOUS
  <2>1. s <= d[i].t /\ At(s)
    BY <1>1, <1>3
  <2>2. i - s # 1
    <3>1. CASE i - s = 1
      <4>1. d[i - s].t = 0
        BY <1>1, <3>1 DEF RecordOK
      <4> QED BY <1>1, <2>1, <4>1
    <3> QED BY <3>1
  <2>3. PICK j : j = i - (s + 1)
    OBVIOUS
  <2>4. j \in 1..Len(d) - 1 /\ j + 1 = i - s /\ j \in DOMAIN d
    BY <1>1, <2>1, <2>2, <2>3
  <2>5. Follows(d[j], d[j + 1])
    BY <2>4 DEF RecordOK
  <2>6. d[j].ep \in Nat /\ d[j].t \in Nat
    BY <2>4, StepTyped
  <2>7. d[j + 1].t = d[i].t - s /\ d[j + 1].t # 0 /\ d[j + 1].ep = d[i].ep
    BY <1>1, <2>1, <2>4
  <2>8. d[j].ep = d[i].ep /\ d[j].t + 1 = d[i].t - s
    BY <2>5, <2>7 DEF Follows
  <2>9. d[j].t = d[i].t - (s + 1)
    <3>1. PICK a, b : a = d[j].t /\ b = d[i].t
      OBVIOUS
    <3>2. a \in Nat /\ b \in Nat /\ a + 1 = b - s
      BY <1>1, <2>6, <2>8, <3>1
    <3>3. a = b - (s + 1)
      BY <3>2
    <3> QED BY <3>1, <3>3
  <2> QED BY <2>3, <2>4, <2>8, <2>9
<1> HIDE DEF S
<1>4. Nat \subseteq S
  BY <1>2, <1>3, SetInduction
<1>5. ASSUME NEW s \in 0..d[i].t PROVE At(s)
  <2>1. s \in Nat /\ s <= d[i].t
    BY <1>1
  <2> QED BY <1>4, <2>1 DEF S
<1> QED BY <1>5

(* Episodes come one after the other, and time runs in step with the place. *)
LEMMA Later ==
  ASSUME NEW d, RecordOK(d), NEW j \in DOMAIN d, NEW i \in DOMAIN d, j <= i
  PROVE  d[j].ep <= d[i].ep /\ (d[j].ep = d[i].ep => d[i].t = d[j].t + (i - j))
<1> DEFINE After(n) == /\ d[j].ep <= d[j + n].ep
                       /\ d[j].ep = d[j + n].ep => d[j + n].t = d[j].t + n
           S == {n \in Nat : j + n \in DOMAIN d => After(n)}
<1>1. /\ i \in 1..Len(d) /\ j \in 1..Len(d) /\ Len(d) \in Nat /\ DOMAIN d = 1..Len(d)
      /\ d[j].ep \in Nat /\ d[j].t \in Nat
  BY StepTyped
<1>2. 0 \in S
  <2>1. After(0)
    BY <1>1
  <2> QED BY <2>1
<1>3. ASSUME NEW n \in Nat, n \in S PROVE n + 1 \in S
  <2> SUFFICES ASSUME j + (n + 1) \in DOMAIN d PROVE After(n + 1)
    OBVIOUS
  <2>1. PICK k : k = j + n
    OBVIOUS
  <2>2. k \in 1..Len(d) - 1 /\ k \in DOMAIN d /\ k + 1 \in DOMAIN d /\ k + 1 = j + (n + 1)
    BY <1>1, <2>1
  <2>3. After(n)
    BY <1>3, <2>1, <2>2
  <2>4. Follows(d[k], d[k + 1])
    BY <2>2 DEF RecordOK
  <2>5. PICK e1, e2, t1, t2 : e1 = d[k].ep /\ e2 = d[k + 1].ep /\ t1 = d[k].t /\ t2 = d[k + 1].t
    OBVIOUS
  <2>6. e1 \in Nat /\ e2 \in Nat /\ t1 \in Nat /\ t2 \in Nat
    BY <2>2, <2>5, StepTyped
  <2>7. d[j].ep <= e1 /\ (d[j].ep = e1 => t1 = d[j].t + n)
    BY <2>1, <2>3, <2>5
  <2>8. (e2 = e1 /\ t2 = t1 + 1) \/ e2 = e1 + 1
    BY <2>4, <2>5 DEF Follows
  <2>9. PICK e0, t0 : e0 = d[j].ep /\ t0 = d[j].t
    OBVIOUS
  <2>10. /\ e0 \in Nat /\ t0 \in Nat
         /\ e0 <= e1 /\ (e0 = e1 => t1 = t0 + n)
    BY <1>1, <2>7, <2>9
  <2>11. e0 <= e2 /\ (e0 = e2 => t2 = t0 + (n + 1))
    <3>1. CASE e2 = e1 /\ t2 = t1 + 1
      BY <2>6, <2>10, <3>1
    <3>2. CASE e2 = e1 + 1
      BY <2>6, <2>10, <3>2
    <3> QED BY <2>8, <3>1, <3>2
  <2> QED BY <2>2, <2>5, <2>9, <2>11
<1> HIDE DEF S
<1>4. i - j \in S /\ j + (i - j) = i
  <2>1. i - j \in Nat /\ j + (i - j) = i
    BY <1>1
  <2>2. Nat \subseteq S
    BY <1>2, <1>3, SetInduction
  <2> QED BY <2>1, <2>2
<1> QED BY <1>4 DEF S

(* EpLen is one more than the time of the episode's last step, which is the *)
(* last step of the record or one that ended the episode.                  *)
LEMMA EpisodeLength ==
  ASSUME RecordOK(data), NEW i \in DOMAIN data
  PROVE  \E e \in DOMAIN data :
           /\ i <= e /\ data[e].ep = data[i].ep /\ EpLen(data[i].ep) = data[e].t + 1
           /\ e = Len(data) \/ data[e].end # "run"
           /\ e = i <=> i = Len(data) \/ data[i].end # "run"
<1> DEFINE k == data[i].ep
           T == {j \in DOMAIN data : data[j].ep = k}
<1>1. DOMAIN data = 1..Len(data) /\ Len(data) \in Nat /\ i \in 1..Len(data)
  BY StepTyped
<1>2. T \subseteq 0..Len(data) /\ i \in T
  BY <1>1
<1>3. PICK e \in T : \A j \in T : j <= e
  <2> HIDE DEF T
  <2> QED BY <1>1, <1>2, GreatestElement
<1>4. e \in DOMAIN data /\ e \in 1..Len(data) /\ data[e].ep = k /\ data[e].t \in Nat /\ i <= e
  BY <1>1, <1>2, <1>3, StepTyped
<1>5. ASSUME NEW j \in T PROVE j \in e - data[e].t .. e
  <2>1. j \in DOMAIN data /\ data[j].ep = k /\ j <= e /\ data[j].t \in Nat /\ j \in 1..Len(data)
    BY <1>1, <1>3, StepTyped
  <2>2. data[e].t = data[j].t + (e - j)
    BY <1>4, <2>1, Later
  <2>3. PICK a, b : a = data[e].t /\ b = data[j].t
    OBVIOUS
  <2>4. a \in Nat /\ b \in Nat /\ a = b + (e - j) /\ e \in Nat /\ j \in Nat /\ j <= e
    <3>1. e \in Nat /\ j \in Nat
      BY <1>1, <1>4, <2>1
    <3> QED BY <1>4, <2>1, <2>2, <2>3, <3>1
  <2>5. j \in e - a .. e
    BY <2>4
  <2> QED BY <2>3, <2>5
<1>6. ASSUME NEW j \in e - data[e].t .. e PROVE j \in T
  <2>1. PICK s : s = e - j
    OBVIOUS
  <2>2. s \in 0..data[e].t /\ e - s = j
    BY <1>4, <2>1
  <2>3. e - s \in DOMAIN data /\ data[e - s].ep = data[e].ep
    BY <1>4, <2>2, Earlier
  <2> QED BY <1>4, <2>2, <2>3
<1>7. T = e - data[e].t .. e
  BY <1>5, <1>6
<1>8. EpLen(k) = data[e].t + 1
  <2>1. Cardinality(e - data[e].t .. e) = data[e].t + 1
    <3>1. PICK a : a = e - data[e].t
      OBVIOUS
    <3>2. a \in Int /\ e \in Int /\ a <= e
      BY <1>4, <3>1
    <3>3. Cardinality(a..e) = e - a + 1
      BY <3>2, FS_Interval
    <3> QED BY <1>4, <3>1, <3>3
  <2>2. EpLen(k) = Cardinality(T)
    BY DEF EpLen
  <2> HIDE DEF T, k
  <2> QED BY <1>7, <2>1, <2>2
<1>9. e = Len(data) \/ data[e].end # "run"
  <2> SUFFICES ASSUME e # Len(data), data[e].end = "run" PROVE FALSE
    OBVIOUS
  <2>1. e \in 1..Len(data) - 1 /\ e + 1 \in DOMAIN data
    BY <1>1, <1>4
  <2>2. Follows(data[e], data[e + 1])
    BY <2>1 DEF RecordOK
  <2>3. e + 1 \in T
    BY <1>4, <2>1, <2>2 DEF Follows
  <2> QED BY <1>3, <1>4, <2>3
<1>10. CASE i = Len(data) \/ data[i].end # "run"
  <2>1. e = i
    <3>1. CASE e # i
      <4>1. i \in 1..Len(data) - 1 /\ i + 1 \in DOMAIN data /\ i + 1 <= e /\ data[i].end # "run"
        BY <1>1, <1>4, <1>10, <3>1
      <4>2. data[i + 1].ep = data[i].ep + 1
        BY <4>1 DEF RecordOK, Follows
      <4>3. data[i + 1].ep <= data[e].ep
        BY <1>4, <4>1, Later
      <4>4. data[i].ep \in Nat
        BY StepTyped
      <4> QED BY <1>4, <4>2, <4>3, <4>4
    <3> QED BY <3>1
  <2> QED BY <1>4, <1>8, <1>9, <1>10, <2>1
<1>11. CASE ~(i = Len(data) \/ data[i].end # "run")
  <2>1. e # i
    BY <1>9, <1>11
  <2> QED BY <1>4, <1>8, <1>9, <1>11, <2>1
<1> QED BY <1>10, <1>11

(* The steps of an episode in the record are those of the times below its  *)
(* length.                                                                 *)
LEMMA EpisodeIsSpan ==
  ASSUME RecordOK(data), NEW k \in Episodes
  PROVE  /\ EpLen(k) \in Nat \ {0}
         /\ \A t \in 0..EpLen(k) - 1 : \E j \in DOMAIN data : data[j].ep = k /\ data[j].t = t
         /\ \A j \in DOMAIN data : data[j].ep = k => data[j].t \in 0..EpLen(k) - 1
<1>1. PICK i \in DOMAIN data : data[i].ep = k
  BY DEF Episodes
<1>2. PICK e \in DOMAIN data : data[e].ep = k /\ EpLen(k) = data[e].t + 1
  BY <1>1, EpisodeLength
<1>3. data[e].t \in Nat
  BY StepTyped
<1>4. ASSUME NEW t \in 0..EpLen(k) - 1
      PROVE  \E j \in DOMAIN data : data[j].ep = k /\ data[j].t = t
  <2>1. data[e].t - t \in 0..data[e].t
    BY <1>2, <1>3
  <2>2. PICK s : s = data[e].t - t
    OBVIOUS
  <2>3. e - s \in DOMAIN data /\ data[e - s].ep = k /\ data[e - s].t = data[e].t - s
    BY <1>2, <2>1, <2>2, Earlier
  <2> QED BY <1>3, <2>2, <2>3
<1>5. ASSUME NEW j \in DOMAIN data, data[j].ep = k PROVE data[j].t \in 0..EpLen(k) - 1
  <2>1. PICK f \in DOMAIN data : j <= f /\ data[f].ep = k /\ EpLen(k) = data[f].t + 1
    BY <1>5, EpisodeLength
  <2>2. data[f].t = data[j].t + (f - j) /\ data[j].t \in Nat /\ f \in Nat /\ j \in Nat
    BY <1>5, <2>1, Later, StepTyped
  <2> QED BY <2>1, <2>2
<1> QED BY <1>2, <1>3, <1>4, <1>5

-----------------------------------------------------------------------------
(* Runs of steps of one episode.                                           *)

(* n steps of episode k from time `from` on.                               *)
RunOf(s, k, from, n) ==
  /\ s \in Seq({k} \X Nat) /\ Len(s) = n /\ DOMAIN s = 1..n
  /\ \A j \in 1..n : s[j] \in {k} \X Nat /\ s[j][1] = k /\ s[j][2] = from + (j - 1)

LEMMA SameRun ==
  ASSUME NEW s, NEW u, NEW k, NEW from, NEW n, RunOf(s, k, from, n), RunOf(u, k, from, n)
  PROVE  s = u
<1>1. s \in Seq({k} \X Nat) /\ u \in Seq({k} \X Nat) /\ Len(s) = n /\ Len(u) = n
  BY DEF RunOf
<1>2. ASSUME NEW j \in 1..Len(s) PROVE s[j] = u[j]
  <2>1. s[j] \in {k} \X Nat /\ u[j] \in {k} \X Nat /\ s[j][1] = u[j][1] /\ s[j][2] = u[j][2]
    BY <1>1 DEF RunOf
  <2> QED BY <2>1
<1> QED BY <1>1, <1>2, SeqEqual

LEMMA SpanIsRun ==
  ASSUME NEW k, NEW from \in Nat, NEW to \in Nat, from <= to
  PROVE  RunOf(Span(k, from, to), k, from, to - from)
<1> DEFINE n == to - from
           s == [j \in 1..n |-> <<k, from + j - 1>>]
<1>1. n \in Nat
  OBVIOUS
<1>2. \A j \in 1..n : <<k, from + j - 1>> \in {k} \X Nat
  BY <1>1
<1>3. s \in Seq({k} \X Nat) /\ Len(s) = n
  <2> HIDE DEF n
  <2> QED BY <1>1, <1>2, IsASeq
<1>4. DOMAIN s = 1..n
  OBVIOUS
<1>5. ASSUME NEW j \in 1..n
      PROVE  s[j] \in {k} \X Nat /\ s[j][1] = k /\ s[j][2] = from + (j - 1)
  <2>1. s[j] = <<k, from + j - 1>>
    OBVIOUS
  <2>2. s[j][1] = k /\ s[j][2] = from + j - 1
    BY <2>1
  <2>3. from + j - 1 = from + (j - 1)
    BY <1>1
  <2> HIDE DEF s, n
  <2> QED BY <1>2, <2>1, <2>2, <2>3
<1>6. Span(k, from, to) = s
  BY DEF Span
<1> HIDE DEF s, n
<1>7. RunOf(s, k, from, n)
  BY <1>3, <1>4, <1>5 DEF RunOf
<1> QED BY <1>6, <1>7 DEF n

LEMMA RunIsSpan ==
  ASSUME NEW s, NEW k, NEW from \in Nat, NEW n \in Nat, RunOf(s, k, from, n)
  PROVE  s = Span(k, from, from + n)
<1>1. PICK to : to = from + n
  OBVIOUS
<1>2. to \in Nat /\ from <= to /\ to - from = n
  BY <1>1
<1>3. RunOf(Span(k, from, to), k, from, n)
  BY <1>2, SpanIsRun
<1> QED BY <1>1, <1>3, SameRun

LEMMA SpanEmpty ==
  ASSUME NEW k, NEW t \in Nat
  PROVE  Span(k, t, t) = <<>>
<1>1. RunOf(Span(k, t, t), k, t, t - t) /\ t - t = 0
  BY SpanIsRun
<1>2. Span(k, t, t) \in Seq({k} \X Nat) /\ Len(Span(k, t, t)) = 0
  BY <1>1 DEF RunOf
<1> QED BY <1>2, EmptySeq

LEMMA SpanAppend ==
  ASSUME NEW k, NEW t \in Nat
  PROVE  Append(Span(k, 0, t), <<k, t>>) = Span(k, 0, t + 1)
<1>1. PICK s, a : s = Span(k, 0, t) /\ a = Append(s, <<k, t>>)
  OBVIOUS
<1>2. RunOf(s, k, 0, t)
  BY <1>1, SpanIsRun
<1>3. s \in Seq({k} \X Nat) /\ Len(s) = t /\ <<k, t>> \in {k} \X Nat
  BY <1>2 DEF RunOf
<1>4. /\ a \in Seq({k} \X Nat) /\ Len(a) = t + 1 /\ a[t + 1] = <<k, t>>
      /\ \A j \in 1..t : a[j] = s[j]
  BY <1>1, <1>3, AppendProperties
<1>5. DOMAIN a = 1..t + 1
  BY <1>4, LenProperties
<1>6. ASSUME NEW j \in 1..t + 1
      PROVE  a[j] \in {k} \X Nat /\ a[j][1] = k /\ a[j][2] = 0 + (j - 1)
  <2>1. CASE j = t + 1
    BY <1>4, <2>1
  <2>2. CASE j # t + 1
    <3>1. j \in 1..t
      BY <2>2
    <3> QED BY <1>2, <1>4, <3>1 DEF RunOf
  <2> QED BY <2>1, <2>2
<1>7. RunOf(a, k, 0, t + 1)
  BY <1>4, <1>5, <1>6 DEF RunOf
<1>8. a = Span(k, 0, 0 + (t + 1))
  BY <1>7, RunIsSpan
<1> QED BY <1>1, <1>8

LEMMA SpanPrepend ==
  ASSUME NEW k, NEW t \in Nat, NEW n \in Nat, t < n
  PROVE  <<<<k, t>>>> \o Span(k, t + 1, n) = Span(k, t, n)
<1>1. PICK f, m, s : f = t + 1 /\ m = n - f /\ s = Span(k, f, n)
  OBVIOUS
<1>2. f \in Nat /\ m \in Nat /\ f <= n /\ RunOf(s, k, f, m)
  BY <1>1, SpanIsRun
<1>3. PICK h, a : h = <<<<k, t>>>> /\ a = h \o s
  OBVIOUS
<1>4. h \in Seq({k} \X Nat) /\ Len(h) = 1 /\ h[1] = <<k, t>>
  BY <1>3
<1>5. s \in Seq({k} \X Nat) /\ Len(s) = m
  BY <1>2 DEF RunOf
<1>6. /\ a \in Seq({k} \X Nat) /\ Len(a) = 1 + m
      /\ \A j \in 1..1 + m : a[j] = IF j <= 1 THEN h[j] ELSE s[j - 1]
  BY <1>3, <1>4, <1>5, ConcatProperties
<1>7. DOMAIN a = 1..1 + m
  BY <1>6, LenProperties
<1>8. ASSUME NEW j \in 1..1 + m
      PROVE  a[j] \in {k} \X Nat /\ a[j][1] = k /\ a[j][2] = t + (j - 1)
  <2>1. CASE j = 1
    BY <1>2, <1>4, <1>6, <2>1
  <2>2. CASE j # 1
    <3>1. PICK i : i = j - 1
      OBVIOUS
    <3>2. i \in 1..m /\ a[j] = s[i]
      <4>1. i \in 1..m /\ ~(j <= 1)
        BY <1>2, <2>2, <3>1
      <4>2. a[j] = s[j - 1]
        BY <1>6, <4>1
      <4> QED BY <3>1, <4>1, <4>2
    <3>3. a[j] \in {k} \X Nat /\ a[j][1] = k /\ a[j][2] = f + (i - 1)
      BY <1>2, <3>2 DEF RunOf
    <3>4. f + (i - 1) = t + (j - 1)
      BY <1>1, <1>2, <3>1, <3>2
    <3> QED BY <3>3, <3>4
  <2> QED BY <2>1, <2>2
<1>9. RunOf(a, k, t, 1 + m)
  BY <1>6, <1>7, <1>8 DEF RunOf
<1>10. a = Span(k, t, t + (1 + m)) /\ t + (1 + m) = n
  BY <1>1, <1>2, <1>9, RunIsSpan
<1> QED BY <1>1, <1>3, <1>10

LEMMA RunConsecutive ==
  ASSUME NEW s, NEW k, NEW from \in Nat, NEW n \in Nat, RunOf(s, k, from, n)
  PROVE  Consecutive(s)
<1>1. ASSUME NEW j \in 1..Len(s) - 1 PROVE s[j + 1] = <<s[j][1], s[j][2] + 1>>
  <2>1. PICK i : i = j + 1
    OBVIOUS
  <2>2. j \in 1..n /\ i \in 1..n /\ Len(s) = n
    BY <2>1 DEF RunOf
  <2>3. /\ s[j][1] = k /\ s[j][2] = from + (j - 1)
        /\ s[i] \in {k} \X Nat /\ s[i][1] = k /\ s[i][2] = from + (i - 1)
    BY <2>2 DEF RunOf
  <2>4. from + (i - 1) = s[j][2] + 1
    BY <2>1, <2>2, <2>3
  <2>5. s[i] = <<s[i][1], s[i][2]>>
    BY <2>3
  <2> QED BY <2>1, <2>3, <2>4, <2>5
<1> QED BY <1>1 DEF Consecutive

-----------------------------------------------------------------------------
(* Returns.  A recursive function is equal to its own equation once some   *)
(* function is; the returns to the end of the episode are one.             *)

(* _compute_rtg adds up the rewards from each step to the end.             *)
LEMMA RtgIs ==
  ASSUME NEW k, EpLen(k) \in Nat, NEW t \in 0..EpLen(k)
  PROVE  ComputeRtg(k)[t] = Span(k, t, EpLen(k))
<1> DEFINE L == EpLen(k)
           Body(r, u) == IF u = L THEN <<>> ELSE <<<<k, u>>>> \o r[u + 1]
           Q(r) == r = [u \in 0..L |-> Body(r, u)]
           w == [u \in 0..L |-> Span(k, u, L)]
<1>1. ASSUME NEW u \in 0..L PROVE Span(k, u, L) = Body(w, u)
  <2>1. CASE u = L
    BY <2>1, SpanEmpty
  <2>2. CASE u # L
    <3>1. u + 1 \in 0..L /\ u \in Nat /\ u < L
      BY <2>2
    <3>2. w[u + 1] = Span(k, u + 1, L)
      BY <3>1
    <3>3. <<<<k, u>>>> \o Span(k, u + 1, L) = Span(k, u, L)
      BY <3>1, SpanPrepend
    <3> HIDE DEF w
    <3> QED BY <2>2, <3>2, <3>3
  <2> QED BY <2>1, <2>2
<1>2. Q(w)
  <2>1. w = [u \in 0..L |-> Body(w, u)]
    <3> HIDE DEF Body
    <3> QED BY <1>1
  <2> HIDE DEF w
  <2> QED BY <2>1
<1>3. Q(CHOOSE r : Q(r))
  <2>1. \E r : Q(r)
    <3> HIDE DEF Q, w
    <3> QED BY <1>2
  <2> QED BY <2>1, Zenon
<1>4. ComputeRtg(k) = CHOOSE r : Q(r)
  BY DEF ComputeRtg
<1>5. PICK r : r = ComputeRtg(k)
  OBVIOUS
<1>6. r = [u \in 0..L |-> Body(r, u)]
  BY <1>3, <1>4, <1>5, Zenon
<1> DEFINE S == {n \in Nat : n <= L => r[L - n] = Span(k, L - n, L)}
<1>7. 0 \in S
  <2>1. r[L] = <<>> /\ L - 0 = L
    BY <1>6
  <2> QED BY <2>1, SpanEmpty
<1>8. ASSUME NEW n \in Nat, n \in S PROVE n + 1 \in S
  <2> SUFFICES ASSUME n + 1 <= L PROVE r[L - (n + 1)] = Span(k, L - (n + 1), L)
    OBVIOUS
  <2>1. PICK u : u = L - (n + 1)
    OBVIOUS
  <2>2. u \in Nat /\ u \in 0..L /\ u < L /\ u + 1 = L - n /\ u # L
    BY <2>1
  <2>3. r[u] = <<<<k, u>>>> \o r[u + 1]
    BY <1>6, <2>2
  <2>4. r[u + 1] = Span(k, u + 1, L)
    BY <1>8, <2>2
  <2>5. <<<<k, u>>>> \o Span(k, u + 1, L) = Span(k, u, L)
    BY <2>2, SpanPrepend
  <2> QED BY <2>1, <2>3, <2>4, <2>5
<1>9. L - t \in S /\ L - t <= L /\ L - (L - t) = t
  <2> HIDE DEF S
  <2> QED BY <1>7, <1>8, SetInduction
<1>10. r[t] = Span(k, t, L)
  BY <1>9
<1> QED BY <1>5, <1>10

(* In a record whose episodes terminate, the return of a step is the step  *)
(* before the return of the next, unless it terminated.                    *)
Rest(i) == IF i = Len(data) + 1 THEN <<>> ELSE ToTheEnd(data[i].ep, data[i].t)
NoneTruncated == \A i \in 1..Len(data) - 1 : data[i].end # "trunc"

LEMMA RestUnfolds ==
  ASSUME RecordOK(data), NoneTruncated, NEW i \in 1..Len(data)
  PROVE  Rest(i) = <<StepAt(i)>> \o (IF Terminated(i) THEN <<>> ELSE Rest(i + 1))
<1> DEFINE k == data[i].ep
           t == data[i].t
           L == EpLen(k)
<1>1. /\ i \in DOMAIN data /\ Len(data) \in Nat /\ t \in Nat /\ data[i].end \in Ends
      /\ DOMAIN data = 1..Len(data)
  <2>1. data \in Seq(Steps) /\ i \in DOMAIN data
    BY LenProperties DEF RecordOK
  <2> QED BY <2>1, StepTyped
<1>2. PICK e \in DOMAIN data :
        /\ i <= e /\ data[e].ep = k /\ L = data[e].t + 1
        /\ e = i <=> i = Len(data) \/ data[i].end # "run"
  BY <1>1, EpisodeLength
<1>3. data[e].t = t + (e - i) /\ e \in Nat
  BY <1>1, <1>2, Later, StepTyped
<1>4. L \in Nat /\ t < L
  <2>1. L = t + (e - i) + 1
    BY <1>2, <1>3, Zenon
  <2>2. t \in Nat /\ e - i \in Nat
    BY <1>1, <1>2, <1>3
  <2> HIDE DEF L, t
  <2> QED BY <2>1, <2>2
<1>5. Rest(i) = <<<<k, t>>>> \o Span(k, t + 1, L)
  <2>1. Rest(i) = Span(k, t, L)
    BY <1>1 DEF Rest, ToTheEnd
  <2> HIDE DEF k, t, L
  <2> QED BY <1>1, <1>4, <2>1, SpanPrepend
<1>6. CASE Terminated(i) \/ i = Len(data)
  <2>1. data[i].end # "run" \/ i = Len(data)
    BY <1>6 DEF Terminated
  <2>2. L = t + 1
    BY <1>1, <1>2, <1>3, <2>1
  <2>3. Span(k, t + 1, L) = <<>>
    <3>1. t + 1 \in Nat
      BY <1>1
    <3> HIDE DEF k, t, L
    <3> QED BY <2>2, <3>1, SpanEmpty
  <2>4. Rest(Len(data) + 1) = <<>>
    BY DEF Rest
  <2>5. (IF Terminated(i) THEN <<>> ELSE Rest(i + 1)) = <<>>
    BY <1>6, <2>4
  <2> QED BY <1>5, <2>3, <2>5 DEF StepAt
<1>7. CASE ~Terminated(i) /\ i # Len(data)
  <2>1. i \in 1..Len(data) - 1
    BY <1>1, <1>7
  <2>2. data[i].end = "run"
    BY <1>1, <1>7, <2>1 DEF NoneTruncated, Terminated, Ends
  <2>3. data[i + 1].ep = k /\ data[i + 1].t = t + 1
    BY <2>1, <2>2 DEF RecordOK, Follows
  <2>4. Rest(i + 1) = Span(k, t + 1, L)
    BY <1>1, <2>1, <2>3 DEF Rest, ToTheEnd
  <2> QED BY <1>5, <1>7, <2>4 DEF StepAt
<1> QED BY <1>6, <1>7

LEMMA WholeSampleIs ==
  ASSUME RecordOK(data), NEW draw \in WholeSample
  PROVE  Len(draw) = Len(data) /\ Len(data) \in Nat /\ DOMAIN data = 1..Len(data)
<1>1. data \in Seq(Steps)
  BY DEF RecordOK
<1>2. DOMAIN data = 1..Len(data) /\ Len(data) \in Nat
  BY <1>1, LenProperties
<1>3. draw \in [1..Len(data) -> 1..Len(data)]
  BY <1>2 DEF WholeSample
<1>4. draw = [i \in 1..Len(data) |-> draw[i]] /\ \A i \in 1..Len(data) : draw[i] \in 1..Len(data)
  BY <1>3
<1>5. Len(draw) = Len(data)
  BY <1>2, <1>4, IsASeq
<1> QED BY <1>2, <1>5

(* _compute_episode_returns over the record in order.                      *)
LEMMA ReturnsInOrder ==
  ASSUME RecordOK(data), NEW draw \in WholeSample, InOrder(draw), NEW i \in DOMAIN data
  PROVE  ComputeEpisodeReturns(draw)[i] = ToTheEnd(data[i].ep, data[i].t)
<1> DEFINE n == Len(draw)
           Body(r, j) == IF j = n + 1 THEN <<>>
                         ELSE <<StepAt(draw[j])>> \o (IF Terminated(draw[j]) THEN <<>> ELSE r[j + 1])
           Q(r) == r = [j \in 1..n + 1 |-> Body(r, j)]
           w == [j \in 1..n + 1 |-> Rest(j)]
<1>1. n = Len(data) /\ n \in Nat /\ DOMAIN data = 1..n /\ i \in 1..n
  BY WholeSampleIs
<1>2. NoneTruncated /\ \A j \in 1..n : draw[j] = j
  BY <1>1 DEF InOrder, NoneTruncated
<1>3. ASSUME NEW j \in 1..n
      PROVE  Rest(j) = <<StepAt(j)>> \o (IF Terminated(j) THEN <<>> ELSE Rest(j + 1))
  BY <1>1, <1>2, RestUnfolds
<1>4. Rest(n + 1) = <<>>
  BY <1>1 DEF Rest
<1>5. ASSUME NEW j \in 1..n + 1 PROVE Rest(j) = Body(w, j)
  <2>1. CASE j = n + 1
    BY <1>4, <2>1
  <2>2. CASE j # n + 1
    <3>1. j \in 1..n /\ j + 1 \in 1..n + 1
      BY <1>1, <2>2
    <3>2. w[j + 1] = Rest(j + 1)
      BY <3>1
    <3>3. draw[j] = j
      BY <1>2, <3>1
    <3>4. Rest(j) = <<StepAt(j)>> \o (IF Terminated(j) THEN <<>> ELSE Rest(j + 1))
      BY <1>3, <3>1
    <3> HIDE DEF w, n
    <3> QED BY <2>2, <3>2, <3>3, <3>4
  <2> QED BY <2>1, <2>2
<1>6. Q(w)
  <2>1. w = [j \in 1..n + 1 |-> Body(w, j)]
    <3> HIDE DEF Body, n
    <3> QED BY <1>5
  <2> HIDE DEF w
  <2> QED BY <2>1
<1>7. Q(CHOOSE r : Q(r))
  <2>1. \E r : Q(r)
    <3> HIDE DEF Q, w
    <3> QED BY <1>6
  <2> QED BY <2>1, Zenon
<1>8. PICK r : r = CHOOSE s : Q(s)
  OBVIOUS
<1>9. r = [j \in 1..n + 1 |-> Body(r, j)]
  BY <1>7, <1>8, Zenon
<1>10. ComputeEpisodeReturns(draw) = [j \in 1..n |-> r[j]]
  BY <1>8 DEF ComputeEpisodeReturns
<1> DEFINE S == {m \in Nat : m <= n => r[(n + 1) - m] = Rest((n + 1) - m)}
<1>11. 0 \in S
  <2>1. r[n + 1] = <<>> /\ (n + 1) - 0 = n + 1
    BY <1>1, <1>9
  <2> QED BY <1>4, <2>1
<1>12. ASSUME NEW m \in Nat, m \in S PROVE m + 1 \in S
  <2> SUFFICES ASSUME m + 1 <= n PROVE r[(n + 1) - (m + 1)] = Rest((n + 1) - (m + 1))
    OBVIOUS
  <2>1. PICK j : j = (n + 1) - (m + 1)
    OBVIOUS
  <2>2. j \in 1..n /\ j # n + 1 /\ j + 1 = (n + 1) - m /\ j \in 1..n + 1
    BY <1>1, <2>1
  <2>3. r[j] = <<StepAt(j)>> \o (IF Terminated(j) THEN <<>> ELSE r[j + 1])
    BY <1>2, <1>9, <2>2
  <2>4. r[j + 1] = Rest(j + 1)
    BY <1>1, <1>12, <2>2
  <2>5. Rest(j) = <<StepAt(j)>> \o (IF Terminated(j) THEN <<>> ELSE Rest(j + 1))
    BY <1>3, <2>2
  <2> QED BY <2>1, <2>3, <2>4, <2>5
<1>13. PICK m : m = (n + 1) - i
  OBVIOUS
<1>14. m \in S /\ m <= n /\ (n + 1) - m = i
  <2>1. m \in Nat /\ m <= n /\ (n + 1) - m = i
    BY <1>1, <1>13
  <2> HIDE DEF S
  <2> QED BY <1>11, <1>12, <2>1, SetInduction
<1>15. r[i] = Rest(i)
  BY <1>14
<1>16. Rest(i) = ToTheEnd(data[i].ep, data[i].t)
  BY <1>1 DEF Rest
<1> QED BY <1>1, <1>10, <1>15, <1>16

(* _compute_timesteps over the record in order.                            *)
LEMMA TimesInOrder ==
  ASSUME RecordOK(data), NEW draw \in WholeSample, InOrder(draw), NEW i \in DOMAIN data
  PROVE  ComputeTimesteps(draw)[i] = data[i].t
<1> DEFINE n == Len(draw)
           Body(r, j) == IF j = 1 \/ Terminated(draw[j - 1]) THEN 0 ELSE r[j - 1] + 1
           Q(r) == r = [j \in 1..n |-> Body(r, j)]
           w == [j \in 1..n |-> data[j].t]
<1>1. n = Len(data) /\ n \in Nat /\ DOMAIN data = 1..n /\ i \in 1..n
  BY WholeSampleIs
<1>2. NoneTruncated /\ \A j \in 1..n : draw[j] = j
  BY <1>1 DEF InOrder, NoneTruncated
<1>3. data[1].t = 0
  BY <1>1 DEF RecordOK
<1>4. ASSUME NEW j \in 1..n, j # 1
      PROVE  data[j].t = IF Terminated(j - 1) THEN 0 ELSE data[j - 1].t + 1
  <2>1. PICK h : h = j - 1
    OBVIOUS
  <2>2. h \in 1..Len(data) - 1 /\ h + 1 = j /\ h \in DOMAIN data
    BY <1>1, <1>4, <2>1
  <2>3. Follows(data[h], data[j]) /\ data[h].end \in Ends /\ data[h].end # "trunc"
    BY <1>2, <2>2, StepTyped DEF RecordOK, NoneTruncated
  <2>4. data[j].t = IF Terminated(h) THEN 0 ELSE data[h].t + 1
    BY <2>3 DEF Follows, Terminated, Ends
  <2> QED BY <2>1, <2>4
<1>5. ASSUME NEW j \in 1..n PROVE data[j].t = Body(w, j)
  <2>1. CASE j = 1
    BY <1>3, <2>1
  <2>2. CASE j # 1
    <3>1. j - 1 \in 1..n
      BY <1>1, <2>2
    <3>2. w[j - 1] = data[j - 1].t /\ draw[j - 1] = j - 1
      BY <1>2, <3>1
    <3> HIDE DEF w, n
    <3> QED BY <1>4, <2>2, <3>2
  <2> QED BY <2>1, <2>2
<1>6. Q(w)
  <2>1. w = [j \in 1..n |-> Body(w, j)]
    <3> HIDE DEF Body, n
    <3> QED BY <1>5
  <2> HIDE DEF w
  <2> QED BY <2>1
<1>7. Q(CHOOSE r : Q(r))
  <2>1. \E r : Q(r)
    <3> HIDE DEF Q, w
    <3> QED BY <1>6
  <2> QED BY <2>1, Zenon
<1>8. PICK r : r = CHOOSE s : Q(s)
  OBVIOUS
<1>9. r = [j \in 1..n |-> Body(r, j)]
  <2>1. Q(r)
    <3> HIDE DEF Q
    <3> QED BY <1>7, <1>8, Zenon
  <2> QED BY <2>1
<1>10. ComputeTimesteps(draw) = r
  BY <1>8 DEF ComputeTimesteps
<1> DEFINE S == {m \in Nat : m + 1 <= n => r[m + 1] = data[m + 1].t}
<1>11. 0 \in S
  <2>1. 0 + 1 <= n => r[0 + 1] = 0
    BY <1>1, <1>9
  <2> QED BY <1>3, <2>1
<1>12. ASSUME NEW m \in Nat, m \in S PROVE m + 1 \in S
  <2> SUFFICES ASSUME (m + 1) + 1 <= n PROVE r[(m + 1) + 1] = data[(m + 1) + 1].t
    OBVIOUS
  <2>1. PICK j : j = (m + 1) + 1
    OBVIOUS
  <2>2. j \in 1..n /\ j # 1 /\ j - 1 = m + 1 /\ j - 1 \in 1..n
    BY <1>1, <2>1
  <2>3. r[j] = IF Terminated(j - 1) THEN 0 ELSE r[j - 1] + 1
    BY <1>2, <1>9, <2>2
  <2>4. r[j - 1] = data[j - 1].t
    BY <1>1, <1>12, <2>2
  <2>5. data[j].t = IF Terminated(j - 1) THEN 0 ELSE data[j - 1].t + 1
    BY <1>4, <2>2
  <2> QED BY <2>1, <2>3, <2>4, <2>5
<1>13. PICK m : m = i - 1
  OBVIOUS
<1>14. m \in S /\ m + 1 <= n /\ m + 1 = i
  <2>1. m \in Nat /\ m + 1 <= n /\ m + 1 = i
    BY <1>1, <1>13
  <2> HIDE DEF S
  <2> QED BY <1>11, <1>12, <2>1, SetInduction
<1>15. r[i] = data[i].t
  BY <1>14
<1> QED BY <1>10, <1>15

-----------------------------------------------------------------------------
(* The windows of the Decision Transformer.                                *)

(* Where a window lies in its episode, and how many zero rows follow it.   *)
DTPlace(k, start, n) ==
  /\ start \in Nat /\ n \in Positive /\ start + n <= EpLen(k) /\ n <= cfg.obsH
  /\ n < cfg.obsH => start = 0 /\ n = EpLen(k)

LEMMA DTStartIs ==
  ASSUME RecordOK(data), ConfigOK(cfg), NEW k \in Episodes, NEW start \in DTStarts(k)
  PROVE  DTPlace(k, start, Least(start + cfg.obsH, EpLen(k)) - start)
<1>1. PICK L, H : L = EpLen(k) /\ H = cfg.obsH
  OBVIOUS
<1>2. L \in Nat /\ L >= 1 /\ H \in Nat /\ H >= 1
  BY <1>1, EpisodeIsSpan DEF ConfigOK, Positive
<1>3. start \in 0..(Most(1, L - H + 1) - 1)
  BY <1>1 DEF DTStarts
<1>4. start \in Nat /\ (L >= H => start <= L - H) /\ (L < H => start = 0)
  BY <1>2, <1>3 DEF Most
<1>5. PICK n : n = Least(start + H, L) - start
  OBVIOUS
<1>6. CASE L >= H
  <2>1. n = H
    BY <1>2, <1>4, <1>5, <1>6 DEF Least
  <2> QED BY <1>1, <1>2, <1>4, <1>5, <1>6, <2>1 DEF DTPlace, Positive
<1>7. CASE L < H
  <2>1. n = L /\ start = 0
    BY <1>2, <1>4, <1>5, <1>7 DEF Least
  <2> QED BY <1>1, <1>2, <1>4, <1>5, <1>7, <2>1 DEF DTPlace, Positive
<1> QED BY <1>2, <1>6, <1>7

LEMMA DTWindowIs ==
  ASSUME RecordOK(data), ConfigOK(cfg), NEW k \in Episodes, NEW start \in DTStarts(k)
  PROVE  \E n : /\ DTPlace(k, start, n) /\ RunOf(DTWindow(k, start).obs, k, start, n)
                /\ DTWindow(k, start).acts = DTWindow(k, start).obs
                /\ DTWindow(k, start).pad = cfg.obsH - n
                /\ \A j \in 1..n : DTWindow(k, start).rtg[j] = ToTheEnd(k, start + (j - 1))
<1>1. PICK to, n : to = Least(start + cfg.obsH, EpLen(k)) /\ n = to - start
  OBVIOUS
<1>2. DTPlace(k, start, n)
  BY <1>1, DTStartIs
<1>3. /\ start \in Nat /\ n \in Nat /\ n # 0 /\ EpLen(k) \in Nat /\ cfg.obsH \in Nat
      /\ start + n <= EpLen(k)
  BY <1>2, EpisodeIsSpan DEF DTPlace, Positive, ConfigOK
<1>4. to \in Nat /\ start <= to
  BY <1>1, <1>3 DEF Least
<1>5. PICK s : s = Span(k, start, to)
  OBVIOUS
<1>6. RunOf(s, k, start, n)
  BY <1>1, <1>3, <1>4, <1>5, SpanIsRun
<1>7. Len(s) = n /\ DOMAIN s = 1..n
  BY <1>6 DEF RunOf
<1>8. PICK w : w = DTWindow(k, start)
  OBVIOUS
<1>9. /\ w.obs = s /\ w.acts = s /\ w.pad = cfg.obsH - n
      /\ w.rtg = [j \in 1..n |-> ComputeRtg(k)[start + j - 1]]
  BY <1>1, <1>5, <1>7, <1>8 DEF DTWindow
<1>10. ASSUME NEW j \in 1..n PROVE w.rtg[j] = ToTheEnd(k, start + (j - 1))
  <2>1. PICK t : t = start + j - 1
    OBVIOUS
  <2>2. t \in 0..EpLen(k) /\ start + (j - 1) = t
    BY <1>3, <2>1
  <2>3. w.rtg[j] = ComputeRtg(k)[t]
    BY <1>9, <2>1
  <2> QED BY <1>3, <2>2, <2>3, RtgIs DEF ToTheEnd
<1> QED BY <1>2, <1>6, <1>8, <1>9, <1>10

LEMMA DTBatchIs ==
  ASSUME NEW w \in DTSampleBatch
  PROVE  \E k \in Episodes : \E start \in DTStarts(k) : w = DTWindow(k, start)
BY DEF DTSampleBatch

(* A window is a run of steps of one episode, padded only if that is short, *)
(* and each of its returns goes to the end of the episode.                 *)
LEMMA DTWindowOK ==
  ASSUME RecordOK(data), ConfigOK(cfg), NEW w \in DTSampleBatch
  PROVE  /\ Len(w.obs) + w.pad = cfg.obsH /\ Consecutive(w.obs) /\ w.acts = w.obs
         /\ (w.pad > 0) => Len(w.obs) = EpLen(w.obs[1][1])
         /\ \A j \in DOMAIN w.obs : w.rtg[j] = ToTheEnd(w.obs[j][1], w.obs[j][2])
<1>1. PICK k \in Episodes : \E start \in DTStarts(k) : w = DTWindow(k, start)
  BY DTBatchIs
<1>2. PICK start \in DTStarts(k) : w = DTWindow(k, start)
  BY <1>1
<1>3. PICK n : /\ DTPlace(k, start, n) /\ RunOf(w.obs, k, start, n)
               /\ w.acts = w.obs /\ w.pad = cfg.obsH - n
               /\ \A j \in 1..n : w.rtg[j] = ToTheEnd(k, start + (j - 1))
  BY <1>2, DTWindowIs
<1>4. /\ start \in Nat /\ n \in Nat /\ n # 0 /\ cfg.obsH \in Nat
      /\ n < cfg.obsH => n = EpLen(k)
  BY <1>3 DEF DTPlace, Positive, ConfigOK
<1>5. /\ Len(w.obs) = n /\ DOMAIN w.obs = 1..n
      /\ \A j \in 1..n : w.obs[j][1] = k /\ w.obs[j][2] = start + (j - 1)
  BY <1>3 DEF RunOf
<1>6. Len(w.obs) + w.pad = cfg.obsH
  BY <1>3, <1>4, <1>5
<1>7. Consecutive(w.obs)
  BY <1>3, <1>4, RunConsecutive
<1>8. (w.pad > 0) => Len(w.obs) = EpLen(w.obs[1][1])
  <2>1. w.obs[1][1] = k
    BY <1>4, <1>5
  <2>2. w.pad > 0 => n < cfg.obsH
    BY <1>3, <1>4
  <2> QED BY <1>4, <1>5, <2>1, <2>2
<1>9. \A j \in DOMAIN w.obs : w.rtg[j] = ToTheEnd(w.obs[j][1], w.obs[j][2])
  BY <1>3, <1>5
<1> QED BY <1>3, <1>6, <1>7, <1>8, <1>9

(* Every step of the record is in some window that can be trained on, with *)
(* continuous actions every step of an episode as long as the context.     *)
Teachable(i) == cfg.discrete \/ EpLen(data[i].ep) >= cfg.obsH

LEMMA DTTeachesAll ==
  ASSUME RecordOK(data), ConfigOK(cfg)
  PROVE  TaughtActions(DTTrainable) = {StepAt(i) : i \in {x \in DOMAIN data : Teachable(x)}}
<1>1. ASSUME NEW w \in DTTrainable, NEW j \in DOMAIN w.acts
      PROVE  \E i \in {x \in DOMAIN data : Teachable(x)} : w.acts[j] = StepAt(i)
  <2>0. w \in DTSampleBatch /\ ~Rejected(w)
    BY DEF DTTrainable
  <2>1. PICK k \in Episodes : \E start \in DTStarts(k) : w = DTWindow(k, start)
    BY <2>0, DTBatchIs
  <2>2. PICK start \in DTStarts(k) : w = DTWindow(k, start)
    BY <2>1
  <2>3. PICK n : DTPlace(k, start, n) /\ RunOf(w.acts, k, start, n) /\ w.pad = cfg.obsH - n
    BY <2>2, DTWindowIs
  <2>4. /\ j \in 1..n /\ w.acts[j] \in {k} \X Nat /\ w.acts[j][2] = start + (j - 1)
    BY <2>3 DEF RunOf
  <2>5. start \in Nat /\ n \in Nat /\ start + n <= EpLen(k) /\ EpLen(k) \in Nat
    BY <2>3, EpisodeIsSpan DEF DTPlace, Positive
  <2>6. PICK t : t = start + (j - 1)
    OBVIOUS
  <2>7. t \in 0..EpLen(k) - 1
    BY <2>4, <2>5, <2>6
  <2>8. PICK i \in DOMAIN data : data[i].ep = k /\ data[i].t = t
    BY <2>7, EpisodeIsSpan
  <2>9. w.acts[j] = <<k, t>>
    BY <2>4, <2>6
  <2>10. cfg.discrete \/ EpLen(k) >= cfg.obsH
    <3>1. cfg.obsH \in Nat
      BY DEF ConfigOK, Positive
    <3>2. cfg.discrete \/ ~(w.pad > 0)
      BY <2>0 DEF Rejected
    <3> QED BY <2>3, <2>5, <3>1, <3>2
  <2> QED BY <2>8, <2>9, <2>10 DEF StepAt, Teachable
<1>2. ASSUME NEW i \in DOMAIN data, Teachable(i)
      PROVE  \E w \in DTTrainable : \E j \in DOMAIN w.acts : w.acts[j] = StepAt(i)
  <2>1. PICK k, t : k = data[i].ep /\ t = data[i].t
    OBVIOUS
  <2>2. k \in Episodes
    BY <2>1 DEF Episodes
  <2>3. PICK L, H : L = EpLen(k) /\ H = cfg.obsH
    OBVIOUS
  <2>4. L \in Nat /\ L >= 1 /\ H \in Nat /\ H >= 1 /\ t \in 0..L - 1
    BY <2>1, <2>2, <2>3, EpisodeIsSpan DEF ConfigOK, Positive
  <2>5. PICK start : start = IF L < H THEN 0 ELSE IF t < L - H THEN t ELSE L - H
    OBVIOUS
  <2>6. start \in Nat /\ start <= t /\ start \in 0..(Most(1, L - H + 1) - 1)
    BY <2>4, <2>5 DEF Most
  <2>7. start \in DTStarts(k)
    BY <2>3, <2>6 DEF DTStarts
  <2>8. PICK w : w = DTWindow(k, start)
    OBVIOUS
  <2>9. PICK n : DTPlace(k, start, n) /\ RunOf(w.acts, k, start, n) /\ w.pad = cfg.obsH - n
    BY <2>2, <2>7, <2>8, DTWindowIs
  <2>10. n \in Nat /\ n <= H /\ (n < H => n = L)
    BY <2>3, <2>9 DEF DTPlace, Positive
  <2>11. t - start < n
    BY <2>4, <2>5, <2>10
  <2>12. PICK j : j = t - start + 1
    OBVIOUS
  <2>13. j \in 1..n /\ start + (j - 1) = t
    BY <2>4, <2>6, <2>10, <2>11, <2>12
  <2>14. j \in DOMAIN w.acts /\ w.acts[j] \in {k} \X Nat /\ w.acts[j][2] = t
    BY <2>9, <2>13 DEF RunOf
  <2>15. w.acts[j] = StepAt(i)
    BY <2>1, <2>14 DEF StepAt
  <2>16. w \in DTSampleBatch
    BY <2>2, <2>7, <2>8 DEF DTSampleBatch
  <2>17. ~Rejected(w)
    <3>1. cfg.discrete \/ L >= H
      BY <1>2, <2>1, <2>3 DEF Teachable
    <3>2. L >= H => n = H
      BY <2>4, <2>10
    <3> QED BY <2>3, <2>4, <2>9, <3>1, <3>2 DEF Rejected
  <2>18. w \in DTTrainable
    BY <2>16, <2>17 DEF DTTrainable
  <2> QED BY <2>14, <2>15, <2>18
<1>3. \A a : a \in TaughtActions(DTTrainable)
               <=> \E w \in DTTrainable : \E j \in DOMAIN w.acts : a = w.acts[j]
  BY DEF TaughtActions
<1> QED BY <1>1, <1>2, <1>3

-----------------------------------------------------------------------------
(* The windows of the Diffusion policy.                                    *)

(* n steps from time `from` on, the last step of the episode repeated.     *)
PaddedRunOf(s, k, from, n) ==
  /\ s \in Seq({k} \X Nat) /\ Len(s) = n /\ DOMAIN s = 1..n
  /\ \A j \in 1..n : /\ s[j] \in {k} \X Nat /\ s[j][1] = k
                     /\ s[j][2] = Least(from + j, EpLen(k)) - 1

LEMMA PaddedSpanIsRun ==
  ASSUME NEW k, EpLen(k) \in Nat \ {0}, NEW from \in Nat, NEW n \in Nat
  PROVE  PaddedRunOf(PaddedSpan(k, from, from + n), k, from, n)
<1> DEFINE Step(j) == <<k, Least(from + j, EpLen(k)) - 1>>
           s == [j \in 1..n |-> Step(j)]
<1>1. \A j \in 1..n : Step(j) \in {k} \X Nat
  BY DEF Least
<1>2. s \in Seq({k} \X Nat) /\ Len(s) = n
  <2> HIDE DEF Step
  <2> QED BY <1>1, IsASeq
<1>3. DOMAIN s = 1..n
  OBVIOUS
<1>4. ASSUME NEW j \in 1..n
      PROVE  /\ s[j] \in {k} \X Nat /\ s[j][1] = k
             /\ s[j][2] = Least(from + j, EpLen(k)) - 1
  <2>1. s[j] = <<k, Least(from + j, EpLen(k)) - 1>>
    OBVIOUS
  <2> HIDE DEF s
  <2> QED BY <1>1, <2>1
<1>5. PaddedSpan(k, from, from + n) = s
  <2>1. (from + n) - from = n
    OBVIOUS
  <2> QED BY <2>1 DEF PaddedSpan
<1> HIDE DEF s
<1> QED BY <1>2, <1>3, <1>4, <1>5 DEF PaddedRunOf

(* The start leaves room for the observations and actions of a window.     *)
DiffusionPlace(k, start) ==
  /\ start \in Nat /\ start + cfg.obsH + cfg.actH - 1 <= PaddedLen(k)

LEMMA PaddedLenIs ==
  ASSUME RecordOK(data), ConfigOK(cfg), NEW k \in Episodes
  PROVE  /\ EpLen(k) \in Nat \ {0} /\ PaddedLen(k) \in Nat /\ EpLen(k) <= PaddedLen(k)
         /\ cfg.obsH \in Nat /\ cfg.obsH >= 1 /\ cfg.actH \in Nat /\ cfg.actH >= 1
         /\ cfg.obsH + cfg.actH - 1 <= PaddedLen(k)
         /\ EpLen(k) >= cfg.obsH + cfg.actH - 1 => PaddedLen(k) = EpLen(k)
         /\ DiffusionStarts(k) = 0..PaddedLen(k) - cfg.obsH - cfg.actH + 1
<1>1. /\ EpLen(k) \in Nat \ {0} /\ cfg.obsH \in Nat /\ cfg.obsH >= 1
      /\ cfg.actH \in Nat /\ cfg.actH >= 1
  BY EpisodeIsSpan DEF ConfigOK, Positive
<1>2. /\ PaddedLen(k) \in Nat /\ EpLen(k) <= PaddedLen(k)
      /\ cfg.obsH + cfg.actH - 1 <= PaddedLen(k)
      /\ EpLen(k) >= cfg.obsH + cfg.actH - 1 => PaddedLen(k) = EpLen(k)
  BY <1>1 DEF PaddedLen, Most
<1>3. Most(1, PaddedLen(k) - cfg.obsH - cfg.actH + 2) - 1
        = PaddedLen(k) - cfg.obsH - cfg.actH + 1
  BY <1>1, <1>2 DEF Most
<1> QED BY <1>1, <1>2, <1>3 DEF DiffusionStarts

LEMMA DiffusionWindowIs ==
  ASSUME RecordOK(data), ConfigOK(cfg), NEW k \in Episodes, NEW start \in DiffusionStarts(k)
  PROVE  /\ DiffusionPlace(k, start)
         /\ PaddedRunOf(DiffusionWindow(k, start).obs, k, start, cfg.obsH)
         /\ PaddedRunOf(DiffusionWindow(k, start).acts, k, start + cfg.obsH - 1, cfg.actH)
         /\ DiffusionWindow(k, start).pad = 0
<1>1. PICK PL, oH, aH : PL = PaddedLen(k) /\ oH = cfg.obsH /\ aH = cfg.actH
  OBVIOUS
<1>2. /\ EpLen(k) \in Nat \ {0} /\ PL \in Nat /\ oH \in Nat /\ oH >= 1 /\ aH \in Nat /\ aH >= 1
      /\ start \in 0..PL - oH - aH + 1 /\ oH + aH - 1 <= PL
  BY <1>1, PaddedLenIs
<1>3. start \in Nat /\ start + oH + aH - 1 <= PL
  BY <1>2
<1>4. PICK a : a = start + oH - 1
  OBVIOUS
<1>5. a \in Nat /\ Least(a + aH, PL) = a + aH
  BY <1>2, <1>3, <1>4 DEF Least
<1>6. PICK w : w = DiffusionWindow(k, start)
  OBVIOUS
<1>7. /\ w.obs = PaddedSpan(k, start, start + oH) /\ w.acts = PaddedSpan(k, a, a + aH)
      /\ w.pad = 0
  BY <1>1, <1>4, <1>5, <1>6 DEF DiffusionWindow, ActionsFrom
<1>8. PaddedRunOf(w.obs, k, start, oH) /\ PaddedRunOf(w.acts, k, a, aH)
  BY <1>2, <1>3, <1>5, <1>7, PaddedSpanIsRun
<1> QED BY <1>1, <1>3, <1>4, <1>6, <1>7, <1>8 DEF DiffusionPlace

LEMMA DiffusionBatchIs ==
  ASSUME NEW w \in DiffusionSampleBatch
  PROVE  \E k \in Episodes : \E start \in DiffusionStarts(k) : w = DiffusionWindow(k, start)
BY DEF DiffusionSampleBatch

(* The first action is the one taken at the last observation, and in an    *)
(* episode long enough the steps of a window follow one another.           *)
LEMMA DiffusionWindowOK ==
  ASSUME RecordOK(data), ConfigOK(cfg), NEW w \in DiffusionSampleBatch
  PROVE  /\ Len(w.obs) + w.pad = cfg.obsH
         /\ w.acts[1] = w.obs[cfg.obsH] /\ Len(w.acts) = cfg.actH
         /\ (EpLen(w.obs[1][1]) >= cfg.obsH + cfg.actH - 1) => Consecutive(w.obs \o Tail(w.acts))
<1>1. PICK k \in Episodes : \E start \in DiffusionStarts(k) : w = DiffusionWindow(k, start)
  BY DiffusionBatchIs
<1>2. PICK start \in DiffusionStarts(k) : w = DiffusionWindow(k, start)
  BY <1>1
<1>3. PICK oH, aH, L, a : oH = cfg.obsH /\ aH = cfg.actH /\ L = EpLen(k) /\ a = start + oH - 1
  OBVIOUS
<1>4. PICK o, c : o = w.obs /\ c = w.acts
  OBVIOUS
<1>5. /\ DiffusionPlace(k, start) /\ PaddedRunOf(o, k, start, oH) /\ PaddedRunOf(c, k, a, aH)
      /\ w.pad = 0
  BY <1>2, <1>3, <1>4, DiffusionWindowIs
<1>6. /\ L \in Nat /\ L # 0 /\ oH \in Nat /\ oH >= 1 /\ aH \in Nat /\ aH >= 1 /\ start \in Nat
      /\ L >= oH + aH - 1 => start + oH + aH - 1 <= L
  BY <1>3, <1>5, PaddedLenIs DEF DiffusionPlace
<1>7. /\ o \in Seq({k} \X Nat) /\ Len(o) = oH
      /\ \A j \in 1..oH : o[j] \in {k} \X Nat /\ o[j][1] = k /\ o[j][2] = Least(start + j, L) - 1
  BY <1>3, <1>5 DEF PaddedRunOf
<1>8. /\ c \in Seq({k} \X Nat) /\ Len(c) = aH
      /\ \A j \in 1..aH : c[j] \in {k} \X Nat /\ c[j][1] = k /\ c[j][2] = Least(a + j, L) - 1
  BY <1>3, <1>5 DEF PaddedRunOf
<1>9. c[1] = o[oH]
  <2>1. a + 1 = start + oH /\ 1 \in 1..aH /\ oH \in 1..oH
    BY <1>3, <1>6
  <2>2. o[oH][2] = Least(start + oH, L) - 1 /\ c[1][2] = Least(a + 1, L) - 1
    BY <1>7, <1>8, <2>1
  <2>3. o[oH][2] = c[1][2] /\ o[oH][1] = c[1][1] /\ o[oH] \in {k} \X Nat /\ c[1] \in {k} \X Nat
    BY <1>7, <1>8, <2>1, <2>2
  <2> QED BY <2>3
<1>10. ASSUME L >= oH + aH - 1 PROVE Consecutive(o \o Tail(c))
  <2>1. PICK m, r, s : m = aH - 1 /\ r = Tail(c) /\ s = o \o r
    OBVIOUS
  <2>2. /\ r \in Seq({k} \X Nat) /\ Len(r) = m /\ m \in Nat
        /\ \A j \in 1..m : r[j] = c[j + 1]
    <3>1. c # <<>>
      BY <1>6, <1>8, EmptySeq
    <3>2. /\ Tail(c) \in Seq({k} \X Nat) /\ Len(Tail(c)) = Len(c) - 1
          /\ \A j \in 1..Len(Tail(c)) : Tail(c)[j] = c[j + 1]
      BY <1>8, <3>1, HeadTailProperties
    <3> QED BY <1>6, <1>8, <2>1, <3>2
  <2>3. /\ s \in Seq({k} \X Nat) /\ Len(s) = oH + m
        /\ \A j \in 1..oH + m : s[j] = IF j <= oH THEN o[j] ELSE r[j - oH]
    <3>1. /\ o \o r \in Seq({k} \X Nat) /\ Len(o \o r) = Len(o) + Len(r)
          /\ \A j \in 1..Len(o) + Len(r) :
               (o \o r)[j] = IF j <= Len(o) THEN o[j] ELSE r[j - Len(o)]
      BY <1>7, <2>2, ConcatProperties
    <3> QED BY <1>7, <2>1, <2>2, <3>1
  <2>4. DOMAIN s = 1..oH + m /\ oH + m \in Nat
    BY <1>6, <2>2, <2>3, LenProperties
  <2>5. start + oH + m <= L
    BY <1>6, <1>10, <2>1
  <2>6. ASSUME NEW j \in 1..oH + m
        PROVE  s[j] \in {k} \X Nat /\ s[j][1] = k /\ s[j][2] = start + (j - 1)
    <3>1. CASE j <= oH
      <4>1. j \in 1..oH /\ Least(start + j, L) = start + j
        BY <1>6, <2>2, <2>5, <3>1 DEF Least
      <4>2. s[j] \in {k} \X Nat /\ s[j][1] = k /\ s[j][2] = (start + j) - 1
        BY <1>7, <2>3, <3>1, <4>1
      <4>3. (start + j) - 1 = start + (j - 1)
        BY <1>6
      <4> QED BY <4>2, <4>3
    <3>2. CASE ~(j <= oH)
      <4>1. PICK i : i = (j - oH) + 1
        OBVIOUS
      <4>2. i \in 1..aH /\ j - oH \in 1..m /\ a + i = start + j /\ Least(a + i, L) = start + j
        <5>1. j \in Nat /\ j > oH /\ j <= oH + m /\ m = aH - 1
          BY <1>6, <2>1, <2>2, <3>2
        <5>2. i \in 1..aH /\ j - oH \in 1..m
          BY <1>6, <4>1, <5>1
        <5>3. a + i = start + j /\ start + j <= L
          BY <1>3, <1>6, <2>5, <4>1, <5>1
        <5> QED BY <1>6, <5>1, <5>2, <5>3 DEF Least
      <4>3. s[j] = c[i]
        BY <2>2, <2>3, <3>2, <4>1, <4>2
      <4>4. s[j] \in {k} \X Nat /\ s[j][1] = k /\ s[j][2] = (start + j) - 1
        BY <1>8, <4>2, <4>3
      <4>5. (start + j) - 1 = start + (j - 1)
        BY <1>6
      <4> QED BY <4>4, <4>5
    <3> QED BY <3>1, <3>2
  <2>7. RunOf(s, k, start, oH + m)
    BY <2>3, <2>4, <2>6 DEF RunOf
  <2> QED BY <1>6, <2>1, <2>4, <2>7, RunConsecutive
<1>11. o[1][1] = k
  BY <1>6, <1>7
<1>12. Len(o) + w.pad = cfg.obsH
  BY <1>3, <1>5, <1>6, <1>7
<1> QED BY <1>3, <1>4, <1>8, <1>9, <1>10, <1>11, <1>12

(* Every action with a full window of observations before it can be drawn. *)
LEMMA DiffusionTeachesAll ==
  ASSUME RecordOK(data), ConfigOK(cfg)
  PROVE  {StepAt(i) : i \in {j \in DOMAIN data : data[j].t >= cfg.obsH - 1}}
           \subseteq TaughtActions(DiffusionSampleBatch)
<1>1. ASSUME NEW i \in DOMAIN data, data[i].t >= cfg.obsH - 1
      PROVE  \E w \in DiffusionSampleBatch : \E j \in DOMAIN w.acts : w.acts[j] = StepAt(i)
  <2>1. PICK k, t : k = data[i].ep /\ t = data[i].t
    OBVIOUS
  <2>2. k \in Episodes
    BY <2>1 DEF Episodes
  <2>3. PICK L, PL, oH, aH : L = EpLen(k) /\ PL = PaddedLen(k) /\ oH = cfg.obsH /\ aH = cfg.actH
    OBVIOUS
  <2>4. /\ L \in Nat /\ PL \in Nat /\ L <= PL /\ oH \in Nat /\ oH >= 1 /\ aH \in Nat /\ aH >= 1
        /\ oH + aH - 1 <= PL /\ DiffusionStarts(k) = 0..PL - oH - aH + 1
    BY <2>2, <2>3, PaddedLenIs
  <2>5. t \in 0..L - 1 /\ t >= oH - 1
    BY <1>1, <2>1, <2>2, <2>3, EpisodeIsSpan
  <2>6. PICK start : start = IF t < PL - aH THEN t - oH + 1 ELSE PL - oH - aH + 1
    OBVIOUS
  <2>7. start \in Nat /\ start + oH - 1 <= t /\ start \in 0..PL - oH - aH + 1
        /\ t <= (start + oH - 1) + aH - 1
    BY <2>4, <2>5, <2>6
  <2>8. start \in DiffusionStarts(k)
    BY <2>4, <2>7
  <2>9. PICK w, a : w = DiffusionWindow(k, start) /\ a = start + oH - 1
    OBVIOUS
  <2>10. PaddedRunOf(w.acts, k, a, aH)
    BY <2>2, <2>3, <2>8, <2>9, DiffusionWindowIs
  <2>11. PICK j : j = t - a + 1
    OBVIOUS
  <2>12. j \in 1..aH /\ a + j = t + 1 /\ Least(a + j, L) - 1 = t
    BY <2>4, <2>5, <2>7, <2>9, <2>11 DEF Least
  <2>13. j \in DOMAIN w.acts /\ w.acts[j] \in {k} \X Nat /\ w.acts[j][2] = t
    BY <2>3, <2>10, <2>12 DEF PaddedRunOf
  <2>14. w.acts[j] = StepAt(i)
    BY <2>1, <2>13 DEF StepAt
  <2>15. w \in DiffusionSampleBatch
    BY <2>2, <2>8, <2>9 DEF DiffusionSampleBatch
  <2> QED BY <2>13, <2>14, <2>15
<1>2. \A a : a \in TaughtActions(DiffusionSampleBatch)
               <=> \E w \in DiffusionSampleBatch : \E j \in DOMAIN w.acts : a = w.acts[j]
  BY DEF TaughtActions
<1> QED BY <1>1, <1>2

-----------------------------------------------------------------------------
(* What the records are made from is in order.                             *)

LEMMA EmptyRecord == RecordOK(<<>>)
<1>1. <<>> \in Seq(Steps) /\ Len(<<>>) = 0
  BY EmptySeq
<1> QED BY <1>1 DEF RecordOK

(* _collect_episodes: the place of the latest cut gives episode and time.  *)
LEMMA CollectedInOrder ==
  ASSUME NEW n \in Nat, NEW cuts \in SUBSET (1..n)
  PROVE  RecordOK(CollectEpisodes(n, cuts))
<1> DEFINE before(i) == {c \in cuts \cup {0} : c < i}
           start(i) == CHOOSE c \in before(i) : \A d \in before(i) : d <= c
           step(i) == [ep |-> Cardinality(before(i)), t |-> i - 1 - start(i),
                       end |-> IF i \in cuts THEN "term" ELSE "run"]
           d == [i \in 1..n |-> step(i)]
<1>1. cuts \cup {0} \subseteq 0..n /\ \A c \in cuts : c # 0
  OBVIOUS
<1>2. ASSUME NEW i \in Nat
      PROVE  /\ before(i) \subseteq 0..n
             /\ \A c \in 0..n : c \in before(i) <=> (c < i /\ c \in cuts \cup {0})
  BY <1>1
<1>3. ASSUME NEW i \in Nat, i # 0
      PROVE  /\ before(i) \subseteq 0..n /\ 0 \in before(i) /\ i \notin before(i)
             /\ IsFiniteSet(before(i)) /\ Cardinality(before(i)) \in Positive
             /\ start(i) \in before(i) /\ \A c \in before(i) : c <= start(i)
  <2>1. before(i) \subseteq 0..n /\ 0 \in before(i) /\ i \notin before(i)
    <3> HIDE DEF before
    <3> QED BY <1>2, <1>1, <1>3
  <2>2. IsFiniteSet(before(i))
    <3>1. IsFiniteSet(0..n)
      BY FS_Interval
    <3> HIDE DEF before
    <3> QED BY <2>1, <3>1, FS_Subset
  <2>3. Cardinality(before(i)) \in Positive
    <3> HIDE DEF before
    <3> QED BY <2>1, <2>2, FS_CardinalityType, FS_EmptySet DEF Positive
  <2>4. \E c \in before(i) : \A b \in before(i) : b <= c
    <3> HIDE DEF before
    <3> QED BY <2>1, GreatestElement
  <2>5. start(i) \in before(i) /\ \A c \in before(i) : c <= start(i)
    <3> HIDE DEF before
    <3> QED BY <2>4, Zenon
  <2> HIDE DEF before, start
  <2> QED BY <2>1, <2>2, <2>3, <2>5
<1>4. ASSUME NEW i \in 1..n PROVE step(i) \in Steps
  <2>1. start(i) \in before(i) /\ Cardinality(before(i)) \in Positive /\ before(i) \subseteq 0..n
    BY <1>3
  <2>2. start(i) \in Nat /\ start(i) < i
    <3> HIDE DEF start
    <3> QED BY <2>1
  <2>3. i - 1 - start(i) \in Nat
    BY <2>2
  <2>4. (IF i \in cuts THEN "term" ELSE "run") \in Ends
    BY DEF Ends
  <2> HIDE DEF before, start
  <2> QED BY <2>1, <2>3, <2>4 DEF Steps
<1>5. d \in Seq(Steps) /\ Len(d) = n
  <2> HIDE DEF step
  <2> QED BY <1>4, IsASeq
<1>6. ASSUME NEW i \in 1..n
      PROVE  /\ d[i].ep = Cardinality(before(i)) /\ d[i].t = i - 1 - start(i)
             /\ d[i].end = IF i \in cuts THEN "term" ELSE "run"
  <2>1. d[i] = step(i)
    <3> HIDE DEF step
    <3> QED OBVIOUS
  <2> HIDE DEF d, before, start
  <2> QED BY <2>1
<1>7. ASSUME n # 0 PROVE d[1].ep = 1 /\ d[1].t = 0
  <2>1. before(1) = {0}
    <3> HIDE DEF before
    <3>1. before(1) \subseteq 0..n /\ 0 \in 0..n
      BY <1>2
    <3>2. \A c \in 0..n : c \in before(1) <=> c = 0
      BY <1>2, <1>1
    <3> QED BY <3>1, <3>2
  <2>2. start(1) = 0
    <3> HIDE DEF before, start
    <3>1. start(1) \in before(1)
      BY <1>3
    <3> QED BY <2>1, <3>1
  <2>3. Cardinality(before(1)) = 1
    <3> HIDE DEF before
    <3> QED BY <2>1, FS_Singleton
  <2>4. 1 \in 1..n
    BY <1>7
  <2>5. d[1].ep = Cardinality(before(1)) /\ d[1].t = 1 - 1 - start(1)
    BY <1>6, <2>4
  <2> HIDE DEF d, before, start
  <2> QED BY <2>2, <2>3, <2>5
<1>8. ASSUME NEW i \in 1..n - 1 PROVE Follows(d[i], d[i + 1])
  <2>1. i \in 1..n /\ i + 1 \in 1..n /\ i \in Nat /\ i # 0 /\ i + 1 \in Nat /\ i + 1 # 0
    OBVIOUS
  <2>2. /\ d[i].ep = Cardinality(before(i)) /\ d[i].t = i - 1 - start(i)
        /\ d[i].end = IF i \in cuts THEN "term" ELSE "run"
        /\ d[i + 1].ep = Cardinality(before(i + 1)) /\ d[i + 1].t = (i + 1) - 1 - start(i + 1)
    <3> HIDE DEF d, before, start
    <3> QED BY <1>6, <2>1
  <2>3. CASE i \in cuts
    <3>1. before(i + 1) = before(i) \cup {i}
      <4> HIDE DEF before
      <4>1. before(i + 1) \subseteq 0..n /\ before(i) \subseteq 0..n /\ i \in 0..n
        BY <1>2, <2>1
      <4>2. \A c \in 0..n : c \in before(i + 1) <=> c \in before(i) \/ c = i
        BY <1>2, <1>1, <2>1, <2>3
      <4> QED BY <4>1, <4>2
    <3>2. start(i + 1) = i
      <4>1. start(i + 1) \in before(i + 1) /\ \A c \in before(i + 1) : c <= start(i + 1)
        BY <1>3, <2>1
      <4>2. i \in before(i + 1) /\ \A c \in before(i + 1) : c \in Nat /\ c <= i
        BY <2>1, <2>3
      <4>3. i <= start(i + 1) /\ start(i + 1) <= i /\ start(i + 1) \in Nat
        <5> HIDE DEF before, start
        <5> QED BY <4>1, <4>2
      <4> HIDE DEF start
      <4> QED BY <4>3
    <3>3. Cardinality(before(i + 1)) = Cardinality(before(i)) + 1
      <4>1. IsFiniteSet(before(i)) /\ i \notin before(i)
        BY <1>3, <2>1
      <4> HIDE DEF before
      <4> QED BY <3>1, <4>1, FS_AddElement
    <3> HIDE DEF d, before, start
    <3> QED BY <2>1, <2>2, <2>3, <3>2, <3>3 DEF Follows
  <2>4. CASE i \notin cuts
    <3>1. before(i + 1) = before(i)
      <4> HIDE DEF before
      <4>1. before(i + 1) \subseteq 0..n /\ before(i) \subseteq 0..n
        BY <1>2, <2>1
      <4>2. \A c \in 0..n : c \in before(i + 1) <=> c \in before(i)
        BY <1>2, <1>1, <2>1, <2>4
      <4> QED BY <4>1, <4>2
    <3>2. start(i + 1) = start(i)
      <4> HIDE DEF before
      <4> QED BY <3>1
    <3>3. start(i) \in Nat
      <4>1. start(i) \in before(i) /\ before(i) \subseteq 0..n
        BY <1>3, <2>1
      <4> HIDE DEF start
      <4> QED BY <4>1
    <3> HIDE DEF d, before, start
    <3> QED BY <2>1, <2>2, <2>4, <3>1, <3>2, <3>3 DEF Follows
  <2> QED BY <2>3, <2>4
<1>9. CollectEpisodes(n, cuts) = d
  BY DEF CollectEpisodes
<1> HIDE DEF d
<1>10. RecordOK(d)
  BY <1>5, <1>7, <1>8 DEF RecordOK
<1> QED BY <1>9, <1>10

(* FlattenSeq joins the arrays one after the other.                        *)
LEMMA FlattenFollows ==
  ASSUME NEW q, Len(q) \in Nat, Len(q) # 0
  PROVE  \E r : /\ FlattenSeq(q) = r[Len(q)] /\ r[1] = q[1]
                /\ \A i \in 1..Len(q) - 1 : r[i + 1] = r[i] \o q[i + 1]
<1> DEFINE m == Len(q)
           Body(r, i) == IF i = 1 THEN q[i] ELSE r[i - 1] \o q[i]
           Q(r) == r = [i \in 1..m |-> Body(r, i)]
           P(r, n) == r = [i \in 1..n |-> Body(r, i)]
           S == {n \in Nat : \E r : P(r, n)}
<1>1. 0 \in S
  <2>1. P([i \in 1..0 |-> q[i]], 0)
    OBVIOUS
  <2> HIDE DEF P
  <2> QED BY <2>1
<1>2. ASSUME NEW n \in Nat, n \in S PROVE n + 1 \in S
  <2>1. PICK r : P(r, n)
    BY <1>2
  <2> DEFINE more == [i \in 1..n + 1 |-> Body(r, i)]
  <2>2. ASSUME NEW i \in 1..n + 1 PROVE Body(r, i) = Body(more, i)
    <3>1. CASE i = 1
      BY <3>1
    <3>2. CASE i # 1
      <4>1. i - 1 \in 1..n /\ i - 1 \in 1..n + 1
        BY <3>2
      <4>2. r[i - 1] = Body(r, i - 1)
        BY <2>1, <4>1
      <4>3. more[i - 1] = Body(r, i - 1)
        <5> HIDE DEF Body
        <5> QED BY <4>1
      <4> HIDE DEF more
      <4> QED BY <3>2, <4>2, <4>3
    <3> QED BY <3>1, <3>2
  <2>3. P(more, n + 1)
    <3> HIDE DEF Body
    <3>1. more = [i \in 1..n + 1 |-> Body(more, i)]
      BY <2>2
    <3> HIDE DEF more
    <3> QED BY <3>1
  <2> HIDE DEF more, P
  <2> QED BY <2>3
<1>3. \E r : Q(r)
  <2>1. m \in S
    <3> HIDE DEF S
    <3> QED BY <1>1, <1>2, SetInduction
  <2> QED BY <2>1
<1>4. Q(CHOOSE r : Q(r))
  BY <1>3, Zenon
<1>5. PICK r : r = CHOOSE s : Q(s)
  OBVIOUS
<1>6. r = [i \in 1..m |-> Body(r, i)]
  <2>1. Q(r)
    <3> HIDE DEF Q
    <3> QED BY <1>4, <1>5, Zenon
  <2> QED BY <2>1
<1>7. FlattenSeq(q) = r[m]
  BY <1>5 DEF FlattenSeq
<1>8. r[1] = q[1]
  BY <1>6
<1>9. ASSUME NEW i \in 1..m - 1 PROVE r[i + 1] = r[i] \o q[i + 1]
  <2>1. i + 1 \in 1..m /\ i + 1 # 1 /\ (i + 1) - 1 = i
    OBVIOUS
  <2> QED BY <1>6, <2>1
<1> QED BY <1>7, <1>8, <1>9

(* A record whose last step ended its episode goes on with the next one.   *)
Ended(d, k, end) == RecordOK(d) /\ Len(d) # 0 /\ d[Len(d)].ep = k /\ d[Len(d)].end = end
OneEpisode(d, k, end) ==
  /\ d \in Seq(Steps) /\ Len(d) # 0
  /\ \A i \in 1..Len(d) :
       d[i].ep = k /\ d[i].t = i - 1 /\ d[i].end = IF i = Len(d) THEN end ELSE "run"

LEMMA FirstEpisode ==
  ASSUME NEW d, NEW end, OneEpisode(d, 1, end)
  PROVE  Ended(d, 1, end)
<1>1. d \in Seq(Steps) /\ Len(d) \in Nat /\ Len(d) # 0
  BY LenProperties DEF OneEpisode
<1>2. d[1].ep = 1 /\ d[1].t = 0
  <2>1. d[1].ep = 1 /\ d[1].t = 1 - 1
    BY <1>1 DEF OneEpisode
  <2> QED BY <2>1
<1>3. ASSUME NEW i \in 1..Len(d) - 1 PROVE Follows(d[i], d[i + 1])
  <2>1. i \in 1..Len(d) /\ i + 1 \in 1..Len(d) /\ i # Len(d)
    BY <1>1
  <2>2. d[i].ep = 1 /\ d[i].t = i - 1 /\ d[i].end = "run"
    BY <2>1 DEF OneEpisode
  <2>3. d[i + 1].ep = 1 /\ d[i + 1].t = (i + 1) - 1
    BY <2>1 DEF OneEpisode
  <2> QED BY <1>1, <2>1, <2>2, <2>3 DEF Follows
<1>4. d[Len(d)].ep = 1 /\ d[Len(d)].end = end
  BY <1>1 DEF OneEpisode
<1> QED BY <1>1, <1>2, <1>3, <1>4 DEF Ended, RecordOK

LEMMA NextEpisode ==
  ASSUME NEW k \in Nat, NEW a, NEW b, NEW last1, NEW last2, last1 # "run",
         Ended(a, k, last1), OneEpisode(b, k + 1, last2)
  PROVE  Ended(a \o b, k + 1, last2)
<1>1. PICK d, n, m : d = a \o b /\ n = Len(a) /\ m = Len(b)
  OBVIOUS
<1>2. /\ a \in Seq(Steps) /\ b \in Seq(Steps) /\ n \in Nat /\ m \in Nat /\ n # 0 /\ m # 0
      /\ d \in Seq(Steps) /\ Len(d) = n + m
      /\ \A i \in 1..n + m : d[i] = IF i <= n THEN a[i] ELSE b[i - n]
  <2>1. a \in Seq(Steps) /\ b \in Seq(Steps) /\ Len(a) # 0 /\ Len(b) # 0
    BY DEF Ended, OneEpisode, RecordOK
  <2>2. Len(a) \in Nat /\ Len(b) \in Nat
    BY <2>1, LenProperties
  <2>3. /\ a \o b \in Seq(Steps) /\ Len(a \o b) = Len(a) + Len(b)
        /\ \A i \in 1..Len(a) + Len(b) :
             (a \o b)[i] = IF i <= Len(a) THEN a[i] ELSE b[i - Len(a)]
    BY <2>1, ConcatProperties
  <2> QED BY <1>1, <2>1, <2>2, <2>3
<1>3. ASSUME NEW i \in 1..n PROVE d[i] = a[i]
  BY <1>2
<1>4. ASSUME NEW i \in 1..m
      PROVE  /\ d[n + i].ep = k + 1 /\ d[n + i].t = i - 1
             /\ d[n + i].end = IF i = m THEN last2 ELSE "run"
  <2>1. PICK j : j = n + i
    OBVIOUS
  <2>2. j \in 1..n + m /\ ~(j <= n) /\ j - n = i
    BY <1>2, <2>1
  <2>3. d[j] = b[i]
    BY <1>2, <2>2
  <2>4. b[i].ep = k + 1 /\ b[i].t = i - 1 /\ b[i].end = IF i = m THEN last2 ELSE "run"
    BY <1>1 DEF OneEpisode
  <2> QED BY <2>1, <2>3, <2>4
<1>5. d[1].ep = 1 /\ d[1].t = 0
  <2>1. a[1].ep = 1 /\ a[1].t = 0
    BY <1>1, <1>2 DEF Ended, RecordOK
  <2> QED BY <1>2, <1>3, <2>1
<1>6. ASSUME NEW i \in 1..Len(d) - 1 PROVE Follows(d[i], d[i + 1])
  <2>1. CASE i < n
    <3>1. i \in 1..n - 1 /\ i \in 1..n /\ i + 1 \in 1..n
      BY <1>2, <2>1
    <3>2. Follows(a[i], a[i + 1])
      BY <1>1, <3>1 DEF Ended, RecordOK
    <3> QED BY <1>3, <3>1, <3>2
  <2>2. CASE i = n
    <3>1. d[i].ep = k /\ d[i].end = last1
      BY <1>1, <1>2, <1>3, <2>2 DEF Ended
    <3>2. d[i + 1].ep = k + 1 /\ d[i + 1].t = 1 - 1
      BY <1>2, <1>4, <2>2
    <3> QED BY <3>1, <3>2 DEF Follows
  <2>3. CASE i > n
    <3>1. PICK j : j = i - n
      OBVIOUS
    <3>2. j \in 1..m /\ j + 1 \in 1..m /\ j # m /\ n + j = i /\ n + (j + 1) = i + 1
      BY <1>2, <2>3, <3>1
    <3>3. d[i].ep = k + 1 /\ d[i].t = j - 1 /\ d[i].end = "run"
      BY <1>4, <3>2
    <3>4. d[i + 1].ep = k + 1 /\ d[i + 1].t = (j + 1) - 1
      BY <1>4, <3>2
    <3>5. d[i + 1].t = d[i].t + 1
      BY <3>2, <3>3, <3>4
    <3> QED BY <3>3, <3>4, <3>5 DEF Follows
  <2> QED BY <1>2, <2>1, <2>2, <2>3
<1>7. d[Len(d)].ep = k + 1 /\ d[Len(d)].end = last2
  <2>1. m \in 1..m
    BY <1>2
  <2>2. d[n + m].ep = k + 1 /\ d[n + m].end = last2
    BY <1>4, <2>1
  <2> QED BY <1>2, <2>2
<1>8. RecordOK(d) /\ Len(d) # 0
  BY <1>2, <1>5, <1>6 DEF RecordOK
<1> QED BY <1>1, <1>7, <1>8 DEF Ended

LEMMA RecordedInOrder ==
  ASSUME NEW eps \in Recorded
  PROVE  RecordOK(FromArrays(eps))
<1> DEFINE m == Len(eps)
           step(k, i) == [ep |-> k, t |-> i - 1,
                          end |-> IF i = eps[k].len THEN eps[k].end ELSE "run"]
           arr(k) == [i \in 1..eps[k].len |-> step(k, i)]
           q == [k \in DOMAIN eps |-> arr(k)]
<1>1. /\ DOMAIN eps = 1..m /\ m \in Nat
      /\ \A k \in 1..m : eps[k].len \in Positive /\ eps[k].end \in Ends
      /\ \A k \in 1..m - 1 : eps[k].end # "run"
  <2>1. /\ eps \in Seq([len : Positive, end : Ends])
        /\ \A k \in 1..m - 1 : eps[k].end # "run"
    BY DEF Recorded
  <2>2. DOMAIN eps = 1..m /\ m \in Nat
    BY <2>1, LenProperties
  <2>3. \A k \in 1..m : eps[k] \in [len : Positive, end : Ends]
    BY <2>1, ElementOfSeq
  <2> HIDE DEF m
  <2> QED BY <2>1, <2>2, <2>3
<1>2. ASSUME NEW k \in 1..m PROVE OneEpisode(arr(k), k, eps[k].end)
  <2>1. PICK n, end : n = eps[k].len /\ end = eps[k].end
    OBVIOUS
  <2>2. n \in Nat /\ n # 0 /\ end \in Ends /\ k \in Positive
    BY <1>1, <2>1 DEF Positive
  <2>3. ASSUME NEW i \in 1..n PROVE step(k, i) \in Steps
    <3>1. i - 1 \in Nat /\ (IF i = n THEN end ELSE "run") \in Ends
      BY <2>2 DEF Ends
    <3>2. step(k, i) = [ep |-> k, t |-> i - 1, end |-> IF i = n THEN end ELSE "run"]
      BY <2>1
    <3> HIDE DEF step
    <3> QED BY <2>2, <3>1, <3>2 DEF Steps
  <2>4. arr(k) \in Seq(Steps) /\ Len(arr(k)) = n
    <3>1. arr(k) = [i \in 1..n |-> step(k, i)]
      BY <2>1
    <3> HIDE DEF arr, step
    <3> QED BY <2>2, <2>3, <3>1, IsASeq
  <2>5. ASSUME NEW i \in 1..n
        PROVE  /\ arr(k)[i].ep = k /\ arr(k)[i].t = i - 1
               /\ arr(k)[i].end = IF i = n THEN end ELSE "run"
    <3>1. arr(k)[i] = step(k, i)
      <4> HIDE DEF step
      <4> QED BY <2>1
    <3>2. step(k, i) = [ep |-> k, t |-> i - 1, end |-> IF i = n THEN end ELSE "run"]
      BY <2>1
    <3> HIDE DEF arr, step
    <3> QED BY <3>1, <3>2
  <2> HIDE DEF arr
  <2> QED BY <2>1, <2>2, <2>4, <2>5 DEF OneEpisode
<1>3. Len(q) = m /\ DOMAIN q = 1..m /\ \A k \in 1..m : q[k] = arr(k)
  <2>1. q = [k \in 1..m |-> arr(k)]
    BY <1>1
  <2>2. \A k \in 1..m : arr(k) \in {arr(j) : j \in 1..m}
    OBVIOUS
  <2>3. Len(q) = m
    <3> HIDE DEF arr, q, m
    <3> QED BY <1>1, <2>1, <2>2, IsASeq
  <2> HIDE DEF arr, m
  <2> QED BY <2>1, <2>3
<1>4. FromArrays(eps) = FlattenSeq(q)
  BY DEF FromArrays
<1>5. CASE m = 0
  <2>1. FlattenSeq(q) = q
    BY <1>3, <1>5 DEF FlattenSeq
  <2>2. q = <<>>
    <3> HIDE DEF arr
    <3> QED BY <1>1, <1>5
  <2> QED BY <1>4, <2>1, <2>2, EmptyRecord
<1>6. CASE m # 0
  <2> HIDE DEF q, arr
  <2>1. PICK r : /\ FlattenSeq(q) = r[m] /\ r[1] = q[1]
                 /\ \A i \in 1..m - 1 : r[i + 1] = r[i] \o q[i + 1]
    <3>1. Len(q) = m /\ m \in Nat
      BY <1>1, <1>3
    <3> HIDE DEF m
    <3>2. Len(q) \in Nat /\ Len(q) # 0
      BY <1>6, <3>1
    <3> QED BY <3>1, <3>2, FlattenFollows
  <2> DEFINE S == {i \in Nat : i + 1 <= m => Ended(r[i + 1], i + 1, eps[i + 1].end)}
  <2>2. 0 \in S
    <3>1. 1 \in 1..m /\ r[1] = arr(1)
      BY <1>1, <1>3, <1>6, <2>1
    <3>2. Ended(r[1], 1, eps[1].end)
      BY <1>2, <3>1, FirstEpisode
    <3> QED BY <3>2
  <2>3. ASSUME NEW i \in Nat, i \in S PROVE i + 1 \in S
    <3> SUFFICES ASSUME (i + 1) + 1 <= m
                 PROVE  Ended(r[(i + 1) + 1], (i + 1) + 1, eps[(i + 1) + 1].end)
      OBVIOUS
    <3>1. PICK k : k = i + 1
      OBVIOUS
    <3>2. k \in Nat /\ k \in 1..m - 1 /\ k + 1 \in 1..m
      BY <1>1, <3>1
    <3>3. Ended(r[k], k, eps[k].end) /\ eps[k].end # "run"
      BY <1>1, <2>3, <3>1, <3>2
    <3>4. OneEpisode(arr(k + 1), k + 1, eps[k + 1].end) /\ r[k + 1] = r[k] \o arr(k + 1)
      BY <1>2, <1>3, <2>1, <3>2
    <3>5. Ended(r[k + 1], k + 1, eps[k + 1].end)
      BY <3>2, <3>3, <3>4, NextEpisode
    <3> QED BY <3>1, <3>5
  <2>4. PICK i : i = m - 1
    OBVIOUS
  <2>5. i \in S /\ i + 1 = m
    <3>1. i \in Nat /\ i + 1 = m
      BY <1>1, <1>6, <2>4
    <3> HIDE DEF S
    <3> QED BY <2>2, <2>3, <3>1, SetInduction
  <2>6. Ended(r[m], m, eps[m].end)
    BY <1>1, <2>5
  <2> QED BY <1>4, <2>1, <2>6 DEF Ended
<1> QED BY <1>5, <1>6

-----------------------------------------------------------------------------
(* The invariant of the records and of what was learned from them.         *)

EpLenOf(d, k) == Cardinality({i \in DOMAIN d : d[i].ep = k})

LEMMA EpLenIs == \A k : EpLen(k) = EpLenOf(data, k)
BY DEF EpLen, EpLenOf

(* What the latest gradient step was taken on, settings c and record d.    *)
DTWindowGood(w, c, d) ==
  /\ Len(w.obs) + w.pad = c.obsH /\ Consecutive(w.obs) /\ w.acts = w.obs
  /\ (w.pad > 0) => Len(w.obs) = EpLenOf(d, w.obs[1][1])
  /\ \A j \in DOMAIN w.obs :
       w.rtg[j] = Span(w.obs[j][1], w.obs[j][2], EpLenOf(d, w.obs[j][1]))
DiffusionWindowGood(w, c, d) ==
  /\ Len(w.obs) + w.pad = c.obsH
  /\ w.acts[1] = w.obs[c.obsH] /\ Len(w.acts) = c.actH
  /\ (EpLenOf(d, w.obs[1][1]) >= c.obsH + c.actH - 1) => Consecutive(w.obs \o Tail(w.acts))
TreesGood(l, d) ==
  ((\A i \in DOMAIN d : l.draw[i] = i) /\ \A i \in 1..Len(d) - 1 : d[i].end # "trunc")
    => \A i \in DOMAIN d : /\ l.ret[i] = Span(d[i].ep, d[i].t, EpLenOf(d, d[i].ep))
                           /\ l.time[i] = d[i].t
LastOK(l, c, d) ==
  /\ l.kind \in {"none", "window", "trees"}
  /\ l.kind = "window" => \/ c.algo = "DT" /\ DTWindowGood(l, c, d)
                          \/ c.algo = "Diffusion" /\ DiffusionWindowGood(l, c, d)
  /\ l.kind = "trees" => TreesGood(l, d)

(* CalQL: ep_reward adds up the running episode, _return_buffer holds whole *)
(* episodes, and the calibration is computed from all of them.             *)
WholeReturns(r) == r \in Seq(Seq(Nat \X Nat)) /\ \A i \in DOMAIN r : WholeEpisode(r[i])
ReturnsOK(v, s, r, c) ==
  /\ v \in [ep : Nat, t : Nat] /\ s = Span(v.ep, 0, v.t)
  /\ WholeReturns(r) /\ c = r
KeptReturns(d) == WholeReturns(d.returns) /\ d.calibrated = d.returns

RecordInv ==
  /\ ConfigOK(cfg) /\ RecordOK(data)
  /\ LastOK(last, cfg, data)
  /\ ReturnsOK(env, sofar, returns, calibrated)
  /\ (cfg.algo = "CalQL" /\ disk # NoCheckpoint) => KeptReturns(disk)

LEMMA NothingOK ==
  ASSUME NEW c, NEW d
  PROVE  LastOK(Nothing, c, d)
BY DEF LastOK, Nothing

LEMMA DTLastOK ==
  ASSUME RecordOK(data), ConfigOK(cfg), cfg.algo = "DT", NEW w \in DTSampleBatch
  PROVE  LastOK(w, cfg, data)
<1>1. w.kind = "window"
  BY DTBatchIs DEF DTWindow
<1>2. DTWindowGood(w, cfg, data)
  BY DTWindowOK, EpLenIs DEF DTWindowGood, ToTheEnd
<1>3. w.kind # "trees"
  BY <1>1
<1> QED BY <1>1, <1>2, <1>3 DEF LastOK

LEMMA DiffusionLastOK ==
  ASSUME RecordOK(data), ConfigOK(cfg), cfg.algo = "Diffusion", NEW w \in DiffusionSampleBatch
  PROVE  LastOK(w, cfg, data)
<1>1. w.kind = "window"
  BY DiffusionBatchIs DEF DiffusionWindow, ActionsFrom
<1>2. DiffusionWindowGood(w, cfg, data)
  BY DiffusionWindowOK, EpLenIs DEF DiffusionWindowGood
<1>3. w.kind # "trees"
  BY <1>1
<1> QED BY <1>1, <1>2, <1>3 DEF LastOK

LEMMA TreesLastOK ==
  ASSUME RecordOK(data), NEW draw \in WholeSample,
         NEW l, l = [kind |-> "trees", draw |-> draw, ret |-> ComputeEpisodeReturns(draw),
                     time |-> ComputeTimesteps(draw)]
  PROVE  LastOK(l, cfg, data)
<1>1. /\ l.kind = "trees" /\ l.draw = draw /\ l.ret = ComputeEpisodeReturns(draw)
      /\ l.time = ComputeTimesteps(draw)
  OBVIOUS
<1>2. ASSUME InOrder(draw), NEW i \in DOMAIN data
      PROVE  /\ l.ret[i] = Span(data[i].ep, data[i].t, EpLenOf(data, data[i].ep))
             /\ l.time[i] = data[i].t
  <2>1. l.ret[i] = ToTheEnd(data[i].ep, data[i].t) /\ l.time[i] = data[i].t
    BY <1>1, <1>2, ReturnsInOrder, TimesInOrder
  <2> QED BY <2>1, EpLenIs DEF ToTheEnd
<1>3. TreesGood(l, data)
  BY <1>1, <1>2 DEF TreesGood, InOrder
<1> QED BY <1>1, <1>3 DEF LastOK

LEMMA NoReturns == WholeReturns(<<>>)
<1>1. <<>> \in Seq(Seq(Nat \X Nat)) /\ DOMAIN <<>> = {}
  BY EmptySeq
<1> QED BY <1>1 DEF WholeReturns

LEMMA NewEpisodeReturns ==
  ASSUME NEW k \in Nat, NEW r, WholeReturns(r), NEW c, c = r
  PROVE  ReturnsOK([ep |-> k, t |-> 0], <<>>, r, c)
<1>1. PICK v : v = [ep |-> k, t |-> 0]
  OBVIOUS
<1>2. v \in [ep : Nat, t : Nat] /\ v.ep = k /\ v.t = 0
  BY <1>1
<1>3. Span(k, 0, 0) = <<>>
  BY SpanEmpty
<1> QED BY <1>1, <1>2, <1>3 DEF ReturnsOK

(* An episode that ends is added whole.                                    *)
LEMMA FinishedReturn ==
  ASSUME NEW v, NEW s, NEW r, NEW c, ReturnsOK(v, s, r, c)
  PROVE  WholeReturns(Append(r, Append(s, <<v.ep, v.t>>)))
<1>1. PICK k, t : k = v.ep /\ t = v.t
  OBVIOUS
<1>2. k \in Nat /\ t \in Nat /\ s = Span(k, 0, t) /\ WholeReturns(r)
  BY <1>1 DEF ReturnsOK
<1>3. PICK e, n : e = Append(s, <<k, t>>) /\ n = t + 1
  OBVIOUS
<1>4. e = Span(k, 0, n) /\ n \in Nat /\ n # 0 /\ n - 0 = n
  <2>1. e = Span(k, 0, t + 1)
    BY <1>2, <1>3, SpanAppend
  <2>2. n \in Nat /\ n # 0 /\ n - 0 = n
    BY <1>2, <1>3
  <2> QED BY <1>3, <2>1, <2>2
<1>5. RunOf(e, k, 0, n)
  <2>1. RunOf(Span(k, 0, n), k, 0, n - 0)
    BY <1>4, SpanIsRun
  <2> QED BY <1>4, <2>1
<1>6. e \in Seq(Nat \X Nat)
  <2>1. e \in Seq({k} \X Nat)
    BY <1>5 DEF RunOf
  <2>2. {k} \X Nat \subseteq Nat \X Nat
    BY <1>2
  <2> QED BY <2>1, <2>2, SeqMonotonic
<1>7. WholeEpisode(e)
  <2>1. Len(e) = n /\ 1 \in 1..n
    BY <1>4, <1>5 DEF RunOf
  <2>2. e[1][2] = 0 + (1 - 1)
    BY <1>5, <2>1 DEF RunOf
  <2>3. e # <<>>
    BY <1>4, <2>1, EmptySeq
  <2>4. Consecutive(e)
    BY <1>2, <1>4, <1>5, RunConsecutive
  <2> QED BY <2>2, <2>3, <2>4 DEF WholeEpisode
<1>8. PICK q : q = Append(r, e)
  OBVIOUS
<1>9. r \in Seq(Seq(Nat \X Nat))
  BY <1>2 DEF WholeReturns
<1>10. /\ q \in Seq(Seq(Nat \X Nat)) /\ Len(q) = Len(r) + 1 /\ q[Len(r) + 1] = e
       /\ \A i \in 1..Len(r) : q[i] = r[i]
  BY <1>6, <1>8, <1>9, AppendProperties
<1>11. DOMAIN q = 1..Len(r) + 1 /\ DOMAIN r = 1..Len(r) /\ Len(r) \in Nat
  BY <1>9, <1>10, LenProperties
<1>12. ASSUME NEW i \in DOMAIN q PROVE WholeEpisode(q[i])
  <2>1. CASE i = Len(r) + 1
    BY <1>7, <1>10, <2>1
  <2>2. CASE i # Len(r) + 1
    <3>1. i \in DOMAIN r
      BY <1>11, <2>2
    <3> QED BY <1>2, <1>10, <1>11, <3>1 DEF WholeReturns
  <2> QED BY <2>1, <2>2
<1>13. WholeReturns(q)
  BY <1>10, <1>12 DEF WholeReturns
<1> QED BY <1>1, <1>3, <1>8, <1>13

-----------------------------------------------------------------------------
(* The steps of the trainers, one by one.                                  *)

LEMMA RecordKept ==
  ASSUME RecordInv, cfg' = cfg, RecordOK(data'), LastOK(last', cfg, data'),
         ReturnsOK(env', sofar', returns', calibrated'),
         (cfg.algo = "CalQL" /\ disk' # NoCheckpoint) => KeptReturns(disk')
  PROVE  RecordInv'
BY DEF RecordInv

(* A step that leaves record, returns and checkpoint alone.                *)
LEMMA RecordUntouched ==
  ASSUME RecordInv, cfg' = cfg, data' = data, LastOK(last', cfg, data),
         env' = env, sofar' = sofar, returns' = returns, calibrated' = calibrated, disk' = disk
  PROVE  RecordInv'
<1>1. RecordOK(data') /\ LastOK(last', cfg, data')
  BY DEF RecordInv
<1>2. ReturnsOK(env', sofar', returns', calibrated')
  BY DEF RecordInv
<1>3. (cfg.algo = "CalQL" /\ disk' # NoCheckpoint) => KeptReturns(disk')
  BY DEF RecordInv
<1> QED BY <1>1, <1>2, <1>3, RecordKept

LEMMA OfflineTrainRecord ==
  ASSUME RecordInv, OfflineTrain \/ OfflineStep
  PROVE  RecordInv'
<1>1. LastOK(last', cfg, data)
  <2>1. last' = Nothing \/ last' = last
    BY DEF OfflineTrain, OfflineStep
  <2> QED BY <2>1, NothingOK DEF RecordInv
<1>2. /\ cfg' = cfg /\ data' = data /\ env' = env /\ sofar' = sofar /\ returns' = returns
      /\ calibrated' = calibrated /\ disk' = disk
  BY DEF OfflineTrain, OfflineStep
<1> QED BY <1>1, <1>2, RecordUntouched

LEMMA DTPTrainRecord ==
  ASSUME RecordInv, DTPTrain
  PROVE  RecordInv'
<1>1. PICK draw \in WholeSample :
        last' = [kind |-> "trees", draw |-> draw, ret |-> ComputeEpisodeReturns(draw),
                 time |-> ComputeTimesteps(draw)]
  BY DEF DTPTrain
<1>2. PICK l : l = last'
  OBVIOUS
<1>3. LastOK(l, cfg, data)
  <2>1. RecordOK(data)
    BY DEF RecordInv
  <2>2. l = [kind |-> "trees", draw |-> draw, ret |-> ComputeEpisodeReturns(draw),
             time |-> ComputeTimesteps(draw)]
    BY <1>1, <1>2
  <2> QED BY <2>1, <2>2, TreesLastOK
<1>4. /\ cfg' = cfg /\ data' = data /\ env' = env /\ sofar' = sofar /\ returns' = returns
      /\ calibrated' = calibrated /\ disk' = disk
  BY DEF DTPTrain
<1> QED BY <1>2, <1>3, <1>4, RecordUntouched

LEMMA CollectAndTrainRecord ==
  ASSUME RecordInv, CollectAndTrain
  PROVE  RecordInv'
<1>1. ConfigOK(cfg)
  BY DEF RecordInv
<1>2. RecordOK(data')
  <2>1. PICK total \in 1..MaxSteps :
          \E cuts \in SUBSET (1..Most(cfg.warmup, total)) :
             data' = CollectEpisodes(Most(cfg.warmup, total), cuts)
    BY DEF CollectAndTrain
  <2>2. PICK n : n = Most(cfg.warmup, total)
    OBVIOUS
  <2>3. n \in Nat
    BY <1>1, <2>1, <2>2, BoundsAssumption DEF Most, ConfigOK
  <2>4. PICK cuts \in SUBSET (1..n) : data' = CollectEpisodes(n, cuts)
    BY <2>1, <2>2
  <2>5. RecordOK(CollectEpisodes(n, cuts))
    BY <2>3, CollectedInOrder
  <2> QED BY <2>4, <2>5
<1>3. last' = Nothing /\ cfg' = cfg
  BY DEF CollectAndTrain
<1>4. /\ env' = env /\ sofar' = sofar /\ returns' = returns
      /\ calibrated' = calibrated /\ disk' = disk
  BY DEF CollectAndTrain
<1>5. LastOK(last', cfg, data')
  BY <1>3, NothingOK
<1>6. ReturnsOK(env', sofar', returns', calibrated')
  BY <1>4 DEF RecordInv
<1>7. (cfg.algo = "CalQL" /\ disk' # NoCheckpoint) => KeptReturns(disk')
  BY <1>4 DEF RecordInv
<1> QED BY <1>2, <1>3, <1>5, <1>6, <1>7, RecordKept

LEMMA WindowStepRecord ==
  ASSUME RecordInv, DTStep \/ DiffusionStep
  PROVE  RecordInv'
<1>1. RecordOK(data) /\ ConfigOK(cfg)
  BY DEF RecordInv
<1>2. LastOK(last', cfg, data)
  <2>1. CASE DTStep
    <3>1. cfg.algo = "DT" /\ last' \in DTSampleBatch
      BY <2>1 DEF DTStep, WindowStep, Is, DTTrainable
    <3> QED BY <1>1, <3>1, DTLastOK
  <2>2. CASE DiffusionStep
    <3>1. cfg.algo = "Diffusion" /\ last' \in DiffusionSampleBatch
      BY <2>2 DEF DiffusionStep, WindowStep, Is
    <3> QED BY <1>1, <3>1, DiffusionLastOK
  <2> QED BY <2>1, <2>2
<1>3. /\ cfg' = cfg /\ data' = data /\ env' = env /\ sofar' = sofar /\ returns' = returns
      /\ calibrated' = calibrated /\ disk' = disk
  BY DEF DTStep, DiffusionStep, WindowStep
<1> QED BY <1>2, <1>3, RecordUntouched

LEMMA DTRaisesRecord ==
  ASSUME RecordInv, DTRaises
  PROVE  RecordInv'
<1>1. /\ cfg' = cfg /\ data' = data /\ env' = env /\ sofar' = sofar /\ returns' = returns
      /\ calibrated' = calibrated /\ disk' = disk /\ last' = Nothing
  BY DEF DTRaises
<1>2. LastOK(last', cfg, data)
  BY <1>1, NothingOK
<1> QED BY <1>1, <1>2, RecordUntouched

LEMMA OnlineTrainRecord ==
  ASSUME RecordInv, OnlineTrain
  PROVE  RecordInv'
<1>1. /\ cfg' = cfg /\ data' = data /\ returns' = returns /\ calibrated' = calibrated
      /\ disk' = disk /\ env' = [ep |-> env.ep + 1, t |-> 0] /\ sofar' = <<>> /\ last' = Nothing
  BY DEF OnlineTrain
<1>2. env.ep + 1 \in Nat /\ WholeReturns(returns) /\ calibrated = returns
  BY DEF RecordInv, ReturnsOK
<1>3. ReturnsOK(env', sofar', returns', calibrated')
  BY <1>1, <1>2, NewEpisodeReturns
<1>4. RecordOK(data') /\ LastOK(last', cfg, data')
  BY <1>1, NothingOK DEF RecordInv
<1>5. (cfg.algo = "CalQL" /\ disk' # NoCheckpoint) => KeptReturns(disk')
  BY <1>1 DEF RecordInv
<1> QED BY <1>1, <1>3, <1>4, <1>5, RecordKept

(* One step of the environment; r are the returns after it.                *)
LEMMA CollectReturns ==
  ASSUME RecordInv, NEW end \in Ends, Collect(end), NEW r, WholeReturns(r), NEW c, c = r
  PROVE  ReturnsOK(env', sofar', r, c)
<1>1. PICK k, t : k = env.ep /\ t = env.t
  OBVIOUS
<1>2. k \in Nat /\ t \in Nat /\ sofar = Span(k, 0, t) /\ env = [ep |-> k, t |-> t]
  BY <1>1 DEF RecordInv, ReturnsOK
<1>3. CASE end = "run"
  <2>1. PICK v : v = [ep |-> k, t |-> t + 1]
    OBVIOUS
  <2>2. env' = v /\ sofar' = Append(sofar, <<k, t>>)
    BY <1>1, <1>2, <1>3, <2>1 DEF Collect
  <2>3. sofar' = Span(k, 0, t + 1)
    BY <1>2, <2>2, SpanAppend
  <2>4. v \in [ep : Nat, t : Nat] /\ v.ep = k /\ v.t = t + 1
    BY <1>2, <2>1
  <2> QED BY <2>2, <2>3, <2>4 DEF ReturnsOK
<1>4. CASE end # "run"
  <2>1. env' = [ep |-> k + 1, t |-> 0] /\ sofar' = <<>> /\ k + 1 \in Nat
    BY <1>1, <1>2, <1>4 DEF Collect
  <2> QED BY <2>1, NewEpisodeReturns
<1> QED BY <1>3, <1>4

LEMMA OnlineStepRecord ==
  ASSUME RecordInv, NEW end \in Ends, CalQLStep(end) \/ AWRStep(end)
  PROVE  RecordInv'
<1>1. cfg' = cfg /\ data' = data /\ last' = last /\ disk' = disk /\ Collect(end)
  BY DEF CalQLStep, AWRStep, OnlineStep
<1>2. WholeReturns(returns) /\ calibrated = returns
  BY DEF RecordInv, ReturnsOK
<1>3. WholeReturns(returns') /\ calibrated' = returns'
  <2>1. CASE UNCHANGED <<returns, calibrated>>
    BY <1>2, <2>1
  <2>2. CASE /\ returns' = Append(returns, Append(sofar, <<env.ep, env.t>>))
             /\ calibrated' = returns'
    <3>1. WholeReturns(Append(returns, Append(sofar, <<env.ep, env.t>>)))
      BY FinishedReturn DEF RecordInv
    <3> QED BY <2>2, <3>1
  <2>3. \/ UNCHANGED <<returns, calibrated>>
        \/ /\ returns' = Append(returns, Append(sofar, <<env.ep, env.t>>))
           /\ calibrated' = returns'
    BY DEF CalQLStep, AWRStep, Calibrate
  <2> QED BY <2>1, <2>2, <2>3
<1>4. ReturnsOK(env', sofar', returns', calibrated')
  BY <1>1, <1>3, CollectReturns
<1>5. RecordOK(data') /\ LastOK(last', cfg, data')
  BY <1>1 DEF RecordInv
<1>6. (cfg.algo = "CalQL" /\ disk' # NoCheckpoint) => KeptReturns(disk')
  BY <1>1 DEF RecordInv
<1> QED BY <1>1, <1>4, <1>5, <1>6, RecordKept

LEMMA SaveRecord ==
  ASSUME RecordInv, Save
  PROVE  RecordInv'
<1>1. /\ cfg' = cfg /\ data' = data /\ last' = Nothing
      /\ env' = env /\ sofar' = sofar /\ returns' = returns /\ calibrated' = calibrated
  BY DEF Save
<1>2. ASSUME cfg.algo = "CalQL" PROVE KeptReturns(disk')
  <2>1. disk' = CalQLSave
    BY <1>2 DEF Save, Is
  <2>2. CalQLSave.returns = returns /\ CalQLSave.calibrated = calibrated
    BY DEF CalQLSave, File
  <2> QED BY <2>1, <2>2 DEF KeptReturns, RecordInv, ReturnsOK
<1>3. RecordOK(data') /\ LastOK(last', cfg, data')
  BY <1>1, NothingOK DEF RecordInv
<1>4. ReturnsOK(env', sofar', returns', calibrated')
  BY <1>1 DEF RecordInv
<1> QED BY <1>1, <1>2, <1>3, <1>4, RecordKept

LEMMA RestoreRecord ==
  ASSUME RecordInv, Restored,
         \/ cfg.algo = "CalQL" /\ returns' = disk.returns /\ calibrated' = disk.calibrated
         \/ UNCHANGED <<returns, calibrated>>
  PROVE  RecordInv'
<1>1. /\ disk # NoCheckpoint /\ cfg' = cfg /\ disk' = disk /\ data' = <<>> /\ last' = Nothing
      /\ sofar' = <<>> /\ env' = [ep |-> 0, t |-> 0]
  BY DEF Restored
<1>2. WholeReturns(returns') /\ calibrated' = returns'
  <2>1. CASE cfg.algo = "CalQL" /\ returns' = disk.returns /\ calibrated' = disk.calibrated
    BY <1>1, <2>1 DEF RecordInv, KeptReturns
  <2>2. CASE UNCHANGED <<returns, calibrated>>
    BY <2>2 DEF RecordInv, ReturnsOK
  <2> QED BY <2>1, <2>2
<1>3. ReturnsOK(env', sofar', returns', calibrated')
  BY <1>1, <1>2, NewEpisodeReturns
<1>4. RecordOK(data') /\ LastOK(last', cfg, data')
  BY <1>1, EmptyRecord, NothingOK
<1>5. (cfg.algo = "CalQL" /\ disk' # NoCheckpoint) => KeptReturns(disk')
  BY <1>1 DEF RecordInv
<1> QED BY <1>1, <1>3, <1>4, <1>5, RecordKept

LEMMA InitRecord == Init => RecordInv
<1> SUFFICES ASSUME Init PROVE RecordInv
  OBVIOUS
<1>1. ConfigOK(cfg)
  BY ConfigsAssumption, ConfigsOK DEF Init
<1>2. RecordOK(data)
  <2>1. cfg.dataset \in Recorded
    BY <1>1 DEF ConfigOK
  <2> QED BY <2>1, RecordedInOrder DEF Init
<1>3. LastOK(last, cfg, data)
  BY NothingOK DEF Init
<1>4. ReturnsOK(env, sofar, returns, calibrated)
  BY NoReturns, NewEpisodeReturns DEF Init
<1>5. disk = NoCheckpoint
  BY DEF Init
<1> QED BY <1>1, <1>2, <1>3, <1>4, <1>5 DEF RecordInv

LEMMA NextRecord ==
  ASSUME RecordInv, [Next]_vars
  PROVE  RecordInv'
<1>1. CASE UNCHANGED vars
  <2>1. /\ cfg' = cfg /\ data' = data /\ last' = last /\ env' = env /\ sofar' = sofar
        /\ returns' = returns /\ calibrated' = calibrated /\ disk' = disk
    BY <1>1 DEF vars
  <2>2. LastOK(last', cfg, data)
    BY <2>1 DEF RecordInv
  <2> QED BY <2>1, <2>2, RecordUntouched
<1>2. CASE OfflineTrain \/ OfflineStep
  BY <1>2, OfflineTrainRecord
<1>3. CASE DTPTrain
  BY <1>3, DTPTrainRecord
<1>4. CASE CollectAndTrain
  BY <1>4, CollectAndTrainRecord
<1>5. CASE DTStep \/ DiffusionStep
  BY <1>5, WindowStepRecord
<1>6. CASE OnlineTrain
  BY <1>6, OnlineTrainRecord
<1>7. CASE \E end \in Ends : CalQLStep(end) \/ AWRStep(end)
  BY <1>7, OnlineStepRecord
<1>8. CASE Save
  BY <1>8, SaveRecord
<1>9. CASE \/ CalQLFromCheckpoint \/ AWRFromCheckpoint \/ DTFromCheckpoint
           \/ DiffusionFromCheckpoint \/ DTPFromCheckpoint
  BY <1>9, RestoreRecord
     DEF CalQLFromCheckpoint, AWRFromCheckpoint, DTFromCheckpoint, DiffusionFromCheckpoint,
         DTPFromCheckpoint, Is
<1>10. CASE DTRaises
  BY <1>10, DTRaisesRecord
<1> QED BY <1>1, <1>2, <1>3, <1>4, <1>5, <1>6, <1>7, <1>8, <1>9, <1>10 DEF Next

LEMMA RecordInvHolds == Spec => []RecordInv
<1> QED BY InitRecord, NextRecord, PTL DEF Spec

LEMMA WindowsFollow ==
  ASSUME RecordInv
  PROVE  WindowsAreTheEpisodes
<1>1. RecordOK(data) /\ ConfigOK(cfg) /\ LastOK(last, cfg, data)
  BY DEF RecordInv
<1>2. ASSUME last.kind = "window"
      PROVE  \/ cfg.algo = "DT" /\ DTWindowGood(last, cfg, data)
             \/ cfg.algo = "Diffusion" /\ DiffusionWindowGood(last, cfg, data)
  BY <1>1, <1>2 DEF LastOK
<1>3. last.kind = "window" => Len(last.obs) + last.pad = cfg.obsH
  BY <1>2 DEF DTWindowGood, DiffusionWindowGood
<1>4. (last.kind = "window" /\ Is({"DT"})) =>
        /\ Consecutive(last.obs) /\ last.acts = last.obs
        /\ (last.pad > 0) => Len(last.obs) = EpLen(last.obs[1][1])
  BY <1>2, EpLenIs DEF DTWindowGood, Is
<1>5. (last.kind = "window" /\ Is({"Diffusion"})) =>
        /\ last.acts[1] = last.obs[cfg.obsH] /\ Len(last.acts) = cfg.actH
        /\ (EpLen(last.obs[1][1]) >= cfg.obsH + cfg.actH - 1) =>
              Consecutive(last.obs \o Tail(last.acts))
  BY <1>2, EpLenIs DEF DiffusionWindowGood, Is
<1>6. TaughtActions(DTTrainable)
        = {StepAt(i) : i \in {j \in DOMAIN data : cfg.discrete \/ EpLen(data[j].ep) >= cfg.obsH}}
  BY <1>1, DTTeachesAll DEF Teachable
<1>7. {StepAt(i) : i \in {j \in DOMAIN data : data[j].t >= cfg.obsH - 1}}
         \subseteq TaughtActions(DiffusionSampleBatch)
  BY <1>1, DiffusionTeachesAll
<1> QED BY <1>3, <1>4, <1>5, <1>6, <1>7 DEF WindowsAreTheEpisodes

LEMMA ReturnsFollow ==
  ASSUME RecordInv
  PROVE  ReturnsAreTheEpisodes
<1>1. LastOK(last, cfg, data) /\ ReturnsOK(env, sofar, returns, calibrated)
  BY DEF RecordInv
<1>2. ASSUME last.kind = "window", Is({"DT"}), NEW j \in DOMAIN last.obs
      PROVE  last.rtg[j] = ToTheEnd(last.obs[j][1], last.obs[j][2])
  <2>1. DTWindowGood(last, cfg, data)
    BY <1>1, <1>2 DEF LastOK, Is
  <2> QED BY <2>1, EpLenIs DEF DTWindowGood, ToTheEnd
<1>3. ASSUME last.kind = "trees", InOrder(last.draw), NEW i \in DOMAIN data
      PROVE  last.ret[i] = ToTheEnd(data[i].ep, data[i].t) /\ last.time[i] = data[i].t
  <2>1. TreesGood(last, data)
    BY <1>1, <1>3 DEF LastOK
  <2> QED BY <1>3, <2>1, EpLenIs DEF TreesGood, InOrder, ToTheEnd
<1>4. (\A i \in DOMAIN returns : WholeEpisode(returns[i])) /\ calibrated = returns
  BY <1>1 DEF ReturnsOK, WholeReturns
<1> QED BY <1>2, <1>3, <1>4 DEF ReturnsAreTheEpisodes

(* Over episodes of every length and windows of every size: a training     *)
(* window is a run of steps of one episode, padded or repeated only where   *)
(* the episode is too short, and every step that can be drawn is; the       *)
(* Decision Transformer with continuous actions trains on no padded window. *)
THEOREM WindowsAreTheEpisodesHolds == Spec => []WindowsAreTheEpisodes
<1> QED BY RecordInvHolds, WindowsFollow, PTL

(* Over records and calls of every length, saves and restores: what a       *)
(* policy is conditioned on or weighted by is the return of the step's own *)
(* episode to its end, and CalQL calibrates on whole episodes, all of them. *)
THEOREM ReturnsAreTheEpisodesHolds == Spec => []ReturnsAreTheEpisodes
<1> QED BY RecordInvHolds, ReturnsFollow, PTL

=============================================================================
