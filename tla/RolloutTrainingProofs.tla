------------------------- MODULE RolloutTrainingProofs -------------------------
(***************************************************************************)
(* Proofs about RolloutTraining for every configuration its assumptions    *)
(* allow, rollouts of every length and any order of episode ends, stops,   *)
(* failing evaluations, saves and restores.                                *)
(***************************************************************************)
EXTENDS RolloutTraining, FiniteSetTheorems, SequenceTheorems, WellFoundedInduction, TLAPS

(* Division and remainder by a positive number.                            *)
LEMMA DivMod ==
  ASSUME NEW x \in Nat, NEW d \in Nat \ {0}
  PROVE  /\ x \div d \in Nat /\ x % d \in Nat
         /\ x = d * (x \div d) + (x % d) /\ x % d < d
OBVIOUS

LEMMA ZeroMod ==
  ASSUME NEW d \in Nat \ {0}
  PROVE  0 % d = 0
OBVIOUS

LEMMA Divisible ==
  ASSUME NEW x \in Nat, NEW d \in Nat \ {0}, x % d = 0
  PROVE  \E y \in Nat : x = d * y
<1>1. x \div d \in Nat /\ x = d * (x \div d) + 0
  BY DivMod
<1>2. PICK y : y = x \div d
  OBVIOUS
<1>3. y \in Nat /\ x = d * y
  BY <1>1, <1>2
<1> QED BY <1>3

(* A remainder is what is left of some multiple.                           *)
LEMMA RemainderIs ==
  ASSUME NEW d \in Nat \ {0}, NEW q \in Nat, NEW r \in Nat, r < d
  PROVE  (d * q + r) % d = r
<1> DEFINE x == d * q + r
           q2 == x \div d
           r2 == x % d
<1>1. x \in Nat
  OBVIOUS
<1>2. q2 \in Nat /\ r2 \in Nat /\ x = d * q2 + r2 /\ r2 < d
  <2> HIDE DEF x
  <2> QED BY <1>1, DivMod
<1>3. d * q + r = d * q2 + r2
  BY <1>2
<1> HIDE DEF x, q2, r2
<1>4. CASE q = q2
  BY <1>2, <1>3, <1>4
<1>5. CASE q < q2
  <2>1. PICK k \in Nat : q2 = q + 1 + k
    BY <1>2, <1>5
  <2>2. d * q2 = d * q + d + d * k /\ d * k \in Nat
    BY <2>1
  <2> QED BY <1>2, <1>3, <2>2
<1>6. CASE q2 < q
  <2>1. PICK k \in Nat : q = q2 + 1 + k
    BY <1>2, <1>6
  <2>2. d * q = d * q2 + d + d * k /\ d * k \in Nat
    BY <1>2, <2>1
  <2> QED BY <1>2, <1>3, <2>2
<1> QED BY <1>2, <1>4, <1>5, <1>6

(* The least element of a set of numbers: induction over the numbers       *)
(* without an operator for a parameter.                                    *)
LEMMA LeastElement ==
  ASSUME NEW T, T \subseteq Nat, T # {}
  PROVE  \E x \in T : \A y \in T : x <= y
<1>1. PICK x \in T : \A y \in T : ~(<<y, x>> \in OpToRel(<, Nat))
  BY NatLessThanWellFounded, WFMin, Zenon
<1>2. \A y \in T : ~(y < x)
  BY <1>1 DEF OpToRel
<1> QED BY <1>2

LEMMA SetInduction ==
  ASSUME NEW S, 0 \in S, \A n \in Nat : n \in S => n + 1 \in S
  PROVE  Nat \subseteq S
<1> SUFFICES ASSUME Nat \ S # {} PROVE FALSE
  OBVIOUS
<1>1. PICK x \in Nat \ S : \A y \in Nat \ S : x <= y
  BY LeastElement
<1>2. x # 0 /\ x - 1 \in Nat /\ x - 1 \in S
  BY <1>1
<1> QED BY <1>1, <1>2

-----------------------------------------------------------------------------
(* Settings, networks and checkpoints.                                     *)

(* What the proofs need of a configuration, live or in a checkpoint.       *)
Fields == {"algo", "envs", "steps", "epochs", "batch", "parts", "vf", "norm", "seqLen",
           "capacity", "freq", "envFn"}
ConfigOK(c) ==
  /\ Fields \subseteq DOMAIN c
  /\ c.algo \in Algorithms
  /\ c.envs \in Positive /\ c.steps \in Positive /\ c.epochs \in Positive
  /\ c.batch \in Positive /\ c.parts \in Positive /\ c.vf \in Positive
  /\ c.seqLen \in Positive /\ c.capacity \in Positive /\ c.freq \in Positive
  /\ c.norm \in BOOLEAN
  /\ c.algo # "PPO" => c.norm = FALSE

(* The network whose values the advantages are measured against has had a  *)
(* gradient step for every rollout, with the exceptions of BaselineIsTrained. *)
BaselineOf(a) == IF a = "MultiMAPPO" THEN "critic" ELSE IF a = "PQN" THEN "policy" ELSE "head"
IsNets(n, c) == n \in [Networks(c.algo) \cup {"rollouts"} -> Nat]
Fitted(n, c) ==
  IF c.algo = "MAPPO" THEN n["head"] = 0
  ELSE \/ n[BaselineOf(c.algo)] >= n["rollouts"]
       \/ c.algo = "PPO" /\ (c.envs * c.steps) \div c.batch = 0
       \/ c.algo = "Dreamer"

FileOK(d) ==
  /\ ConfigOK(d.cfg) /\ d.step \in Nat
  /\ IsNets(d.nets, d.cfg) /\ Fitted(d.nets, d.cfg)

LEMMA SettingsOK ==
  ASSUME NEW algo \in Algorithms, NEW epochs, NEW batch, NEW parts, NEW vf, NEW norm,
         NEW seqLen, NEW capacity, NEW envFn,
         epochs \subseteq Positive, batch \subseteq Positive, parts \subseteq Positive,
         vf \subseteq Positive, seqLen \subseteq Positive, capacity \subseteq Positive,
         norm = No \/ (norm = BOOLEAN /\ algo = "PPO"),
         NEW c \in Settings(algo, epochs, batch, parts, vf, norm, seqLen, capacity, envFn)
  PROVE  ConfigOK(c)
<1>1. /\ DOMAIN c = Fields
      /\ c.algo = algo /\ c.envs \in Positive /\ c.steps \in Positive
      /\ c.epochs \in epochs /\ c.batch \in batch /\ c.parts \in parts /\ c.vf \in vf
      /\ c.norm \in norm /\ c.seqLen \in seqLen /\ c.capacity \in capacity
      /\ c.freq \in Positive
  BY DEF Settings, Fields
<1> QED BY <1>1 DEF ConfigOK, No

LEMMA ConfigsOK ==
  ASSUME NEW c \in Config
  PROVE  ConfigOK(c)
<1>1. One \subseteq Positive /\ Positive \subseteq Positive
  BY DEF One, Positive
<1>2. {"PPO", "A2C", "VPG", "TRPO", "PQN", "RecurrentPPO", "MAPPO", "MultiMAPPO", "Dreamer"}
        = Algorithms
  BY DEF Algorithms
<1>3. CASE c \in PPOConfig
  BY <1>1, <1>2, <1>3, SettingsOK DEF PPOConfig
<1>4. CASE c \in A2CConfig \cup VPGConfig
  BY <1>1, <1>2, <1>4, SettingsOK DEF A2CConfig, VPGConfig
<1>5. CASE c \in TRPOConfig \cup PQNConfig
  BY <1>1, <1>2, <1>5, SettingsOK DEF TRPOConfig, PQNConfig
<1>6. CASE c \in RecurrentPPOConfig \cup DreamerConfig
  BY <1>1, <1>2, <1>6, SettingsOK DEF RecurrentPPOConfig, DreamerConfig
<1>7. CASE c \in MAPPOConfig
  BY <1>1, <1>2, <1>7, SettingsOK DEF MAPPOConfig
<1> QED BY <1>3, <1>4, <1>5, <1>6, <1>7 DEF Config

LEMMA CheckpointConfig ==
  ASSUME ConfigOK(cfg), NEW n, NEW s, NEW settings
  PROVE  /\ ConfigOK(Checkpoint(n, s, settings).cfg)
         /\ Checkpoint(n, s, settings).cfg.algo = cfg.algo
         /\ Checkpoint(n, s, settings).step = s
         /\ Checkpoint(n, s, settings).nets = n
         /\ settings = Everything =>
              \A f \in Fields : Checkpoint(n, s, settings).cfg[f] = cfg[f]
<1> DEFINE saved == [f \in DOMAIN cfg |->
                       IF f \in settings \cup {"algo", "freq"} THEN cfg[f] ELSE Defaults[f]]
<1>1. /\ Checkpoint(n, s, settings).cfg = saved
      /\ Checkpoint(n, s, settings).step = s
      /\ Checkpoint(n, s, settings).nets = n
  BY DEF Checkpoint
<1>2. /\ DOMAIN saved = DOMAIN cfg /\ Fields \subseteq DOMAIN saved
      /\ \A f \in {"algo", "freq"} : saved[f] = cfg[f]
      /\ \A f \in Fields \ {"algo", "freq"} : saved[f] \in {cfg[f], Defaults[f]}
  BY ConfigOK(cfg) DEF ConfigOK, Fields
<1>3. settings = Everything => \A f \in Fields : saved[f] = cfg[f]
  BY DEF ConfigOK, Fields, Everything, Defaults
<1> HIDE DEF saved
<1>4. /\ saved["algo"] = cfg["algo"] /\ saved["freq"] = cfg["freq"]
      /\ saved["envs"] \in {cfg["envs"], 1} /\ saved["steps"] \in {cfg["steps"], 2}
      /\ saved["epochs"] \in {cfg["epochs"], 1} /\ saved["batch"] \in {cfg["batch"], 1}
      /\ saved["parts"] \in {cfg["parts"], 1} /\ saved["vf"] \in {cfg["vf"], 1}
      /\ saved["seqLen"] \in {cfg["seqLen"], 1} /\ saved["capacity"] \in {cfg["capacity"], 1}
      /\ saved["norm"] \in {cfg["norm"], FALSE}
  BY <1>2 DEF Fields, Defaults
<1>5. ConfigOK(saved) /\ saved.algo = cfg.algo
  <2>1. /\ saved["envs"] \in Positive /\ saved["steps"] \in Positive
        /\ saved["epochs"] \in Positive /\ saved["batch"] \in Positive
        /\ saved["parts"] \in Positive /\ saved["vf"] \in Positive
        /\ saved["seqLen"] \in Positive /\ saved["capacity"] \in Positive
        /\ saved["freq"] \in Positive
    BY ConfigOK(cfg), <1>4 DEF ConfigOK, Positive
  <2>2. saved["norm"] \in BOOLEAN /\ (saved["algo"] # "PPO" => saved["norm"] = FALSE)
    BY ConfigOK(cfg), <1>4, Zenon DEF ConfigOK
  <2>3. saved["algo"] \in Algorithms
    BY ConfigOK(cfg), <1>4 DEF ConfigOK
  <2> QED BY <1>2, <1>4, <2>1, <2>2, <2>3 DEF ConfigOK
<1> QED BY <1>1, <1>3, <1>5

LEMMA SavedOK ==
  ASSUME ConfigOK(cfg), cfg.algo \in Saving, NEW n, IsNets(n, cfg), Fitted(n, cfg), NEW s \in Nat
  PROVE  /\ FileOK(Saved(n, s))
         /\ Saved(n, s) # NoCheckpoint
         /\ cfg.algo # "Dreamer" => Saved(n, s).step = s
<1>1. CASE cfg.algo = "PPO"
  <2>1. Saved(n, s) = Checkpoint(n, s, Everything)
    BY <1>1 DEF Saved, PPOSave
  <2>2. /\ Saved(n, s).cfg.algo = cfg.algo /\ Saved(n, s).cfg.envs = cfg.envs
        /\ Saved(n, s).cfg.steps = cfg.steps /\ Saved(n, s).cfg.batch = cfg.batch
        /\ ConfigOK(Saved(n, s).cfg) /\ Saved(n, s).step = s /\ Saved(n, s).nets = n
    BY <2>1, CheckpointConfig DEF Fields
  <2>3. IsNets(n, Saved(n, s).cfg) /\ Fitted(n, Saved(n, s).cfg)
    BY <2>2 DEF IsNets, Fitted
  <2> QED BY <2>2, <2>3 DEF FileOK, NoCheckpoint
<1>2. CASE cfg.algo # "PPO"
  <2>1. \E settings \in {Everything, {}} : \E t \in {s, 0} :
          /\ Saved(n, s) = Checkpoint(n, t, settings)
          /\ cfg.algo # "Dreamer" => t = s
    BY <1>2 DEF Saved, Saving, Algorithms, A2CSave, VPGSave, TRPOSave, PQNSave, MAPPOSave, DreamerSave
  <2>2. PICK settings, t : /\ t \in {s, 0} /\ Saved(n, s) = Checkpoint(n, t, settings)
                           /\ cfg.algo # "Dreamer" => t = s
    BY <2>1
  <2>3. /\ Saved(n, s).cfg.algo = cfg.algo /\ ConfigOK(Saved(n, s).cfg)
        /\ Saved(n, s).step = t /\ Saved(n, s).nets = n
    BY <2>2, CheckpointConfig
  <2>4. IsNets(n, Saved(n, s).cfg) /\ Fitted(n, Saved(n, s).cfg)
    BY <1>2, <2>3 DEF IsNets, Fitted
  <2> QED BY <2>2, <2>3, <2>4 DEF FileOK, NoCheckpoint
<1> QED BY <1>1, <1>2

-----------------------------------------------------------------------------
(* Counters and the multiples they hit.                                    *)

LEMMA MulOrder ==
  ASSUME NEW s \in Nat \ {0}, NEW a \in Int, NEW b \in Int
  PROVE  /\ s * a <= s * b => a <= b
         /\ s * a < s * b => a < b
         /\ a <= b => s * a <= s * b
         /\ a < b => s * a < s * b
<1>1. CASE a < b
  <2>1. PICK k \in Nat : b = a + 1 + k
    <3>1. b - a - 1 \in Nat /\ b = a + 1 + (b - a - 1)
      BY <1>1
    <3> QED BY <3>1
  <2>2. s * b = s * a + s + s * k /\ s * k \in Nat /\ s * a \in Int
    BY <2>1
  <2> QED BY <1>1, <2>2
<1>2. CASE b < a
  <2>1. PICK k \in Nat : a = b + 1 + k
    <3>1. a - b - 1 \in Nat /\ a = b + 1 + (a - b - 1)
      BY <1>2
    <3> QED BY <3>1
  <2>2. s * a = s * b + s + s * k /\ s * k \in Nat /\ s * b \in Int
    BY <2>1
  <2> QED BY <1>2, <2>2
<1>3. CASE a = b
  <2>1. s * a \in Int
    OBVIOUS
  <2> QED BY <1>3, <2>1
<1> QED BY <1>1, <1>2, <1>3

LEMMA Distributes ==
  ASSUME NEW s \in Int, NEW a \in Int, NEW b \in Int
  PROVE  /\ s * (a + b) = s * a + s * b /\ s * (a - b) = s * a - s * b
         /\ (s * a) * b = s * (a * b) /\ s * a = a * s
         /\ s * a \in Int /\ a * b \in Int /\ s * 0 = 0 /\ s * 1 = s
<1>1. s * (a + b) = s * a + s * b /\ s * (a - b) = s * a - s * b
  OBVIOUS
<1>2. (s * a) * b = s * (a * b)
  OBVIOUS
<1> QED BY <1>1, <1>2

LEMMA SameRemainder ==
  ASSUME NEW s \in Nat \ {0}, NEW g \in Nat, NEW k \in Nat
  PROVE  /\ k * s \in Nat /\ g + k * s \in Nat
         /\ (g + k * s) % s = g % s
<1>1. PICK q, r : /\ q \in Nat /\ r \in Nat /\ g = s * q + r /\ r < s /\ r = g % s
  BY DivMod
<1>2. k * s \in Nat /\ g + k * s = s * (q + k) + r /\ q + k \in Nat
  BY <1>1
<1>3. (s * (q + k) + r) % s = r
  BY <1>1, <1>2, RemainderIs
<1> QED BY <1>1, <1>2, <1>3

(* A counter that moves by s passes the multiples of d = s * m by standing *)
(* on each of them.                                                        *)
Hits(s, d, g, k) ==
  \/ /\ (g + k * s) % d = (g % d) + k * s
     /\ \A j \in 1..k : (g + j * s) % d # 0
  \/ \E j \in 1..k :
       /\ (g + j * s) % d = 0
       /\ (g + k * s) - (g + j * s) = (g + k * s) % d
       /\ \A i \in 1..k : (g + i * s) % d = 0 => i <= j

LEMMA HitsTheMultiple ==
  ASSUME NEW s \in Nat \ {0}, NEW d \in Nat \ {0}, NEW g \in Nat, NEW k \in Nat,
         d % s = 0, g % s = 0
  PROVE  Hits(s, d, g, k)
<1> s \in Int /\ d \in Int /\ k \in Int
  OBVIOUS
<1>0. s * 0 = 0 /\ d * 0 = 0
  BY Distributes
<1>1. PICK m \in Nat : d = s * m
  BY Divisible
<1>2. PICK a \in Nat : g = s * a
  BY Divisible
<1>3. PICK q, r : q \in Nat /\ r \in Nat /\ g = d * q + r /\ r < d /\ r = g % d
  BY DivMod
<1>4. PICK b : b = a - m * q
  OBVIOUS
<1>5. b \in Int /\ r = s * b
  <2>1. PICK n \in Int : n = m * q /\ d * q = s * n
    <3>1. d * q = s * (m * q) /\ m * q \in Int
      BY <1>1, <1>3, Distributes
    <3> QED BY <3>1
  <2>2. b = a - n /\ b \in Int
    BY <1>4, <2>1
  <2>3. s * (a - n) = s * a - s * n /\ s * n \in Int /\ s * a \in Int
    BY <2>1, Distributes
  <2>4. PICK x \in Int, y \in Int : x = s * a /\ y = s * n
    BY <2>3
  <2>5. g = y + r /\ g = x
    BY <1>2, <1>3, <2>1, <2>4, Zenon
  <2>6. r \in Nat
    BY <1>3
  <2>7. r = x - y
    BY <2>5, <2>6
  <2> QED BY <2>2, <2>3, <2>4, <2>7, Zenon
<1>6. b < m /\ 0 <= b
  <2>1. s * b < s * m
    <3>1. r < d
      BY <1>3
    <3> QED BY <1>1, <1>5, <3>1, Zenon
  <2>2. s * 0 <= s * b
    <3>1. 0 <= r
      BY <1>3
    <3> QED BY <1>0, <1>5, <3>1, Zenon
  <2> QED BY <1>1, <1>5, <2>1, <2>2, MulOrder
<1>7. ASSUME NEW j \in 1..k
      PROVE  /\ j * s = s * j /\ j * s \in Int /\ 0 < j * s
             /\ r + j * s = s * (b + j)
  <2>1. s * 0 < s * j
    BY MulOrder
  <2>2. s * j = j * s /\ s * j \in Int /\ s * (b + j) = s * b + s * j
    BY <1>5, Distributes
  <2> QED BY <1>0, <1>3, <1>5, <2>1, <2>2
<1>8. CASE b + k < m
  <2>1. ASSUME NEW j \in 1..k PROVE (g + j * s) % d = r + j * s
    <3>1. s * (b + j) < s * m
      BY <1>1, <1>5, <1>8, MulOrder
    <3>2. PICK z : z = r + j * s
      OBVIOUS
    <3>3. z \in Nat /\ z < d
      BY <1>1, <1>3, <1>7, <3>1, <3>2
    <3>4. d * q \in Int
      BY <1>3
    <3>5. g + j * s = d * q + z
      BY <1>3, <1>7, <3>2, <3>4
    <3>6. (d * q + z) % d = z
      BY <1>3, <3>3, RemainderIs
    <3> QED BY <3>2, <3>5, <3>6
  <2>2. ASSUME NEW j \in 1..k PROVE (g + j * s) % d # 0
    <3>1. 0 < r + j * s
      BY <1>3, <1>7
    <3> QED BY <2>1, <3>1
  <2>3. (g + k * s) % d = r + k * s
    <3>1. CASE k = 0
      <4>1. k * s = 0
        BY <3>1
      <4> QED BY <1>3, <4>1
    <3>2. CASE k # 0
      BY <2>1, <3>2
    <3> QED BY <3>1, <3>2
  <2> QED BY <1>3, <2>2, <2>3, Zenon DEF Hits
<1>9. CASE m <= b + k
  <2>0. k \in 1..k
    BY <1>1, <1>5, <1>6, <1>9
  <2>1. PICK x : x = g + k * s
    OBVIOUS
  <2>2. x \in Nat
    BY <1>7, <2>0, <2>1
  <2>3. PICK p, t : p \in Nat /\ t \in Nat /\ x = d * p + t /\ t < d /\ t = x % d
    BY <2>2, DivMod
  <2>4. PICK u, v : u = d * q /\ v = d * p
    OBVIOUS
  <2>5. u \in Int /\ v \in Int /\ d * (q + 1) = u + d /\ d * (p + 1) = v + d
    BY <1>3, <2>3, <2>4, Distributes
  <2>6. q + 1 <= p
    <3>1. s * m <= s * (b + k)
      BY <1>1, <1>5, <1>9, MulOrder
    <3>2. d <= r + k * s
      BY <1>1, <1>7, <2>0, <3>1
    <3>3. u + d < v + d
      <4>1. PICK w : w = k * s
        OBVIOUS
      <4>2. w \in Int /\ x = u + r + w /\ d <= r + w
        BY <1>3, <1>7, <2>0, <2>1, <2>4, <2>5, <3>2, <4>1
      <4>3. x < v + d
        BY <2>3, <2>4, <2>5
      <4> QED BY <1>3, <2>2, <2>5, <4>2, <4>3
    <3>4. d * (q + 1) < d * (p + 1) /\ q + 1 \in Int /\ p + 1 \in Int
      BY <1>3, <2>3, <2>5, <3>3
    <3>5. q + 1 < p + 1
      BY <3>4, MulOrder
    <3> QED BY <1>3, <2>3, <3>5
  <2>7. PICK j : j = m * p - a
    OBVIOUS
  <2>8. j \in Int /\ j * s = s * j /\ g + j * s = v /\ j * s \in Int
    <3>1. v = s * (m * p) /\ m * p \in Int
      BY <1>1, <2>3, <2>4, Distributes
    <3>2. j \in Int /\ s * j = s * (m * p) - s * a
      BY <1>2, <2>7, <3>1, Distributes
    <3>3. s * j = j * s /\ s * j \in Int
      BY <3>2, Distributes
    <3> QED BY <1>2, <2>5, <3>1, <3>2, <3>3
  <2>9. j \in 1..k
    <3>1. s * j <= s * k
      BY <1>7, <2>0, <2>1, <2>3, <2>4, <2>5, <2>8
    <3>2. u + d <= v
      <4>1. d * (q + 1) <= d * p
        BY <1>3, <2>3, <2>6, MulOrder
      <4> QED BY <2>4, <2>5, <4>1
    <3>3. s * 0 < s * j
      BY <1>0, <1>3, <2>4, <2>5, <2>8, <3>2
    <3> QED BY <2>8, <3>1, <3>3, MulOrder
  <2>10. (g + j * s) % d = 0
    <3>1. (d * p + 0) % d = 0
      BY <2>3, RemainderIs
    <3> QED BY <2>4, <2>5, <2>8, <3>1
  <2>11. (g + k * s) - (g + j * s) = (g + k * s) % d
    <3>1. x - v = t
      BY <2>3, <2>4, <2>5
    <3> QED BY <2>1, <2>3, <2>8, <3>1, Zenon
  <2>12. ASSUME NEW i \in 1..k, (g + i * s) % d = 0 PROVE i <= j
    <3>1. s * i <= s * k /\ g + i * s \in Nat
      BY <1>7, MulOrder
    <3>2. PICK y \in Nat : g + i * s = d * y
      BY <2>12, <3>1, Divisible
    <3>3. d * y < d * (p + 1)
      BY <1>7, <2>0, <2>1, <2>3, <2>4, <2>5, <3>1, <3>2
    <3>4. y < p + 1
      BY <2>3, <3>3, MulOrder
    <3>5. d * y <= d * p
      BY <2>3, <3>4, MulOrder
    <3>6. s * i <= s * j
      BY <1>7, <2>4, <2>5, <2>8, <3>2, <3>5
    <3> QED BY <2>8, <3>6, MulOrder
  <2> QED BY <2>9, <2>10, <2>11, <2>12, Zenon DEF Hits
<1> QED BY <1>1, <1>5, <1>8, <1>9

-----------------------------------------------------------------------------
(* The invariant.                                                          *)

StatsInv ==
  /\ stats \in [count : Nat, training : BOOLEAN]
  /\ fed \in Nat /\ raised \in BOOLEAN
  /\ NormalizerFollowsTraining

(* The checkpoint is no older than the last multiple of its period.        *)
SavedStep == IF disk = NoCheckpoint THEN 0 ELSE disk.step
SavedOnTime ==
  \/ cfg.algo \in {"RecurrentPPO", "Dreamer"}
  \/ raised
  \/ Stride = 0
  \/ cfg.freq % Stride # 0 \/ globalStep % Stride # 0
  \/ globalStep - SavedStep <= globalStep % cfg.freq

CoreInv ==
  /\ ConfigOK(cfg)
  /\ IsNets(nets, cfg) /\ Fitted(nets, cfg)
  /\ globalStep \in Nat
  /\ disk = NoCheckpoint \/ FileOK(disk)
  /\ StatsInv
  /\ SavedOnTime

LEMMA StepCounts ==
  ASSUME ConfigOK(cfg)
  PROVE  /\ Batch \in Positive /\ Minibatches \in Nat /\ PPOSteps \in Nat /\ Stride \in Nat
         /\ Minibatches # 0 => PPOSteps >= 1
         /\ PQNSteps \in Nat /\ PQNSteps >= 1
<1>1. Batch \in Positive
  <2>1. cfg.envs \in Nat \ {0} /\ cfg.steps \in Nat \ {0}
    BY DEF ConfigOK, Positive
  <2>2. cfg.envs * 0 < cfg.envs * cfg.steps /\ cfg.envs * 0 = 0
    BY <2>1, MulOrder, Distributes
  <2>3. cfg.envs * cfg.steps \in Nat \ {0}
    BY <2>1, <2>2
  <2> QED BY <2>3 DEF Batch, Positive
<1>2. Minibatches \in Nat
  BY <1>1, DivMod DEF ConfigOK, Positive, Minibatches
<1>3. PPOSteps \in Nat /\ (Minibatches # 0 => PPOSteps >= 1)
  <2>1. cfg.epochs \in Nat \ {0}
    BY DEF ConfigOK, Positive
  <2>2. cfg.epochs * 0 <= cfg.epochs * Minibatches /\ cfg.epochs * 0 = 0
    BY <1>2, <2>1, MulOrder, Distributes
  <2>3. Minibatches # 0 => cfg.epochs * 0 < cfg.epochs * Minibatches
    BY <1>2, <2>1, MulOrder
  <2>4. cfg.epochs * Minibatches \in Int
    BY <1>2, <2>1
  <2> QED BY <2>2, <2>3, <2>4 DEF PPOSteps
<1>4. Stride \in Nat
  BY <1>1, <1>3 DEF Stride, ConfigOK, Positive
<1>5. PQNSteps \in Nat /\ PQNSteps >= 1
  <2> DEFINE size == IF Batch < cfg.parts THEN 1 ELSE Batch \div cfg.parts
  <2>1. cfg.epochs \in Nat \ {0} /\ cfg.parts \in Nat \ {0} /\ Batch \in Nat \ {0}
    BY <1>1 DEF ConfigOK, Positive
  <2>2. size \in Nat \ {0}
    <3>1. CASE Batch < cfg.parts
      BY <3>1
    <3>2. CASE ~(Batch < cfg.parts)
      <4>1. PICK y : y = Batch \div cfg.parts
        OBVIOUS
      <4>2. y \in Nat /\ Batch < cfg.parts * y + cfg.parts
        <5>1. /\ y \in Nat /\ Batch % cfg.parts \in Nat
              /\ Batch = cfg.parts * y + (Batch % cfg.parts)
              /\ Batch % cfg.parts < cfg.parts
          BY <2>1, <4>1, DivMod
        <5>2. cfg.parts * y \in Int
          BY <2>1, <5>1
        <5> QED BY <2>1, <5>1, <5>2
      <4>3. cfg.parts * 0 = 0
        BY <2>1
      <4>4. y # 0
        BY <2>1, <3>2, <4>2, <4>3
      <4> QED BY <3>2, <4>1, <4>2, <4>4
    <3> QED BY <3>1, <3>2
  <2> HIDE DEF size
  <2>3. PICK y : y = (Batch + size - 1) \div size
    OBVIOUS
  <2>4. y \in Nat /\ Batch + size - 1 < size * y + size
    BY <2>1, <2>2, <2>3, DivMod
  <2>5. size * 0 = 0
    BY <2>2
  <2>6. y >= 1
    BY <2>1, <2>2, <2>4, <2>5
  <2>7. cfg.epochs * 0 < cfg.epochs * y /\ cfg.epochs * 0 = 0 /\ cfg.epochs * y \in Int
    BY <2>1, <2>4, <2>6, MulOrder, Distributes
  <2>8. PQNSteps = cfg.epochs * y
    BY <2>3 DEF PQNSteps, size
  <2> QED BY <2>7, <2>8
<1> QED BY <1>1, <1>2, <1>3, <1>4, <1>5

-----------------------------------------------------------------------------
(* What the learners do to the networks.                                   *)

(* Three networks are given a new number of steps.                         *)
LEMMA ThreeSet ==
  ASSUME NEW S, NEW f \in [S -> Nat], NEW x \in S, NEW y \in S, NEW z \in S,
         x # y, y # z, x # z, NEW a \in Nat, NEW b \in Nat, NEW c \in Nat, NEW g,
         g = [f EXCEPT ![x] = a, ![y] = b, ![z] = c]
  PROVE  g \in [S -> Nat] /\ g[x] = a /\ g[y] = b /\ g[z] = c
         /\ \A w \in S \ {x, y, z} : g[w] = f[w]
OBVIOUS

LEMMA JointFits ==
  ASSUME ConfigOK(cfg), IsNets(nets, cfg), Fitted(nets, cfg), NEW g \in Nat,
         cfg.algo \in {"PPO", "A2C", "RecurrentPPO"},
         g >= 1 \/ (cfg.algo = "PPO" /\ Minibatches = 0)
  PROVE  IsNets(Joint(g), cfg) /\ Fitted(Joint(g), cfg)
<1>1. {"policy", "head", "rollouts"} = Networks(cfg.algo) \cup {"rollouts"}
  BY DEF Networks, PPONetworks, A2CNetworks, RecurrentPPONetworks
<1>2. nets \in [{"policy", "head", "rollouts"} -> Nat]
  BY <1>1 DEF IsNets
<1>3. /\ Joint(g) \in [{"policy", "head", "rollouts"} -> Nat]
      /\ Joint(g)["head"] = nets["head"] + g /\ Joint(g)["rollouts"] = nets["rollouts"] + 1
  <2>1. PICK a, b, c : /\ a = nets["policy"] + g /\ b = nets["head"] + g
                       /\ c = nets["rollouts"] + 1
    OBVIOUS
  <2>2. a \in Nat /\ b \in Nat /\ c \in Nat
    BY <1>2, <2>1
  <2>3. Joint(g) = [nets EXCEPT !["policy"] = a, !["head"] = b, !["rollouts"] = c]
    BY <1>2, <2>1 DEF Joint
  <2> QED BY <1>2, <2>1, <2>2, <2>3, ThreeSet
<1>4. BaselineOf(cfg.algo) = "head"
  BY DEF BaselineOf
<1> QED BY <1>1, <1>2, <1>3, <1>4 DEF IsNets, Fitted, Minibatches, Batch

LEMMA MAPPOFits ==
  ASSUME ConfigOK(cfg), IsNets(nets, cfg), Fitted(nets, cfg), NEW g \in Nat,
         \/ cfg.algo = "MAPPO"
         \/ cfg.algo = "MultiMAPPO" /\ g >= 1
  PROVE  IsNets(MAPPOLearn(g), cfg) /\ Fitted(MAPPOLearn(g), cfg)
<1>1. {"policy", "head", "critic", "rollouts"} = Networks(cfg.algo) \cup {"rollouts"}
  BY DEF Networks, MAPPONetworks
<1>2. nets \in [{"policy", "head", "critic", "rollouts"} -> Nat]
  BY <1>1 DEF IsNets
<1>3. /\ MAPPOLearn(g) \in [{"policy", "head", "critic", "rollouts"} -> Nat]
      /\ MAPPOLearn(g)["critic"] = nets["critic"] + g
      /\ MAPPOLearn(g)["head"] = nets["head"]
      /\ MAPPOLearn(g)["rollouts"] = nets["rollouts"] + 1
  <2>1. PICK a, b, c : /\ a = nets["policy"] + g /\ b = nets["critic"] + g
                       /\ c = nets["rollouts"] + 1
    OBVIOUS
  <2>2. a \in Nat /\ b \in Nat /\ c \in Nat
    BY <1>2, <2>1
  <2>3. MAPPOLearn(g) = [nets EXCEPT !["policy"] = a, !["critic"] = b, !["rollouts"] = c]
    BY <1>2, <2>1 DEF MAPPOLearn
  <2> QED BY <1>2, <2>1, <2>2, <2>3, ThreeSet
<1>4. cfg.algo = "MultiMAPPO" => BaselineOf(cfg.algo) = "critic"
  BY DEF BaselineOf
<1> QED BY <1>1, <1>2, <1>3, <1>4 DEF IsNets, Fitted

LEMMA ValueLoopFits ==
  ASSUME ConfigOK(cfg), IsNets(nets, cfg), Fitted(nets, cfg), cfg.algo \in {"VPG", "TRPO"},
         NEW accepted \in BOOLEAN
  PROVE  /\ IsNets(VPGLearn, cfg) /\ Fitted(VPGLearn, cfg)
         /\ IsNets(TRPOLearn(accepted), cfg) /\ Fitted(TRPOLearn(accepted), cfg)
<1>1. {"policy", "head", "rollouts"} = Networks(cfg.algo) \cup {"rollouts"}
  BY DEF Networks, VPGNetworks, TRPONetworks
<1>2. nets \in [{"policy", "head", "rollouts"} -> Nat] /\ cfg.vf \in Nat /\ cfg.vf >= 1
  BY <1>1 DEF IsNets, ConfigOK, Positive
<1>3. /\ VPGLearn \in [{"policy", "head", "rollouts"} -> Nat]
      /\ VPGLearn["head"] = nets["head"] + cfg.vf /\ VPGLearn["rollouts"] = nets["rollouts"] + 1
  <2>1. PICK a, b, c : /\ a = nets["policy"] + 1 /\ b = nets["head"] + cfg.vf
                       /\ c = nets["rollouts"] + 1
    OBVIOUS
  <2>2. a \in Nat /\ b \in Nat /\ c \in Nat
    BY <1>2, <2>1
  <2>3. VPGLearn = [nets EXCEPT !["policy"] = a, !["head"] = b, !["rollouts"] = c]
    BY <1>2, <2>1 DEF VPGLearn
  <2> QED BY <1>2, <2>1, <2>2, <2>3, ThreeSet
<1>4. PICK one \in Nat : one = IF accepted THEN 1 ELSE 0
  OBVIOUS
<1>6. /\ TRPOLearn(accepted) \in [{"policy", "head", "rollouts"} -> Nat]
      /\ TRPOLearn(accepted)["head"] = nets["head"] + cfg.vf
      /\ TRPOLearn(accepted)["rollouts"] = nets["rollouts"] + 1
  <2>1. PICK a, b, c : /\ a = nets["policy"] + one /\ b = nets["head"] + cfg.vf
                       /\ c = nets["rollouts"] + 1
    OBVIOUS
  <2>2. a \in Nat /\ b \in Nat /\ c \in Nat
    BY <1>2, <1>4, <2>1
  <2>3. TRPOLearn(accepted) = [nets EXCEPT !["policy"] = a, !["head"] = b, !["rollouts"] = c]
    BY <1>2, <1>4, <2>1 DEF TRPOLearn
  <2> QED BY <1>2, <2>1, <2>2, <2>3, ThreeSet
<1>7. BaselineOf(cfg.algo) = "head"
  BY DEF BaselineOf
<1> QED BY <1>1, <1>2, <1>3, <1>6, <1>7 DEF IsNets, Fitted

LEMMA PQNFits ==
  ASSUME ConfigOK(cfg), IsNets(nets, cfg), Fitted(nets, cfg), cfg.algo = "PQN",
         NEW g \in Nat, g >= 1
  PROVE  IsNets(PQNLearn(g), cfg) /\ Fitted(PQNLearn(g), cfg)
<1>1. {"policy", "rollouts"} = Networks(cfg.algo) \cup {"rollouts"}
  BY DEF Networks, PQNNetworks
<1>2. nets \in [{"policy", "rollouts"} -> Nat]
  BY <1>1 DEF IsNets
<1>3. /\ PQNLearn(g) \in [{"policy", "rollouts"} -> Nat]
      /\ PQNLearn(g)["policy"] = nets["policy"] + g
      /\ PQNLearn(g)["rollouts"] = nets["rollouts"] + 1
  <2>1. PICK a, c : a = nets["policy"] + g /\ c = nets["rollouts"] + 1
    OBVIOUS
  <2>2. a \in Nat /\ c \in Nat
    BY <1>2, <2>1
  <2>3. PQNLearn(g) = [nets EXCEPT !["policy"] = a, !["rollouts"] = c]
    BY <1>2, <2>1 DEF PQNLearn
  <2> QED BY <1>2, <2>1, <2>2, <2>3
<1>4. BaselineOf(cfg.algo) = "policy"
  BY DEF BaselineOf
<1> QED BY <1>1, <1>2, <1>3, <1>4 DEF IsNets, Fitted

LEMMA DreamerFits ==
  ASSUME ConfigOK(cfg), IsNets(nets, cfg), cfg.algo = "Dreamer", NEW n
  PROVE  IsNets(DreamerLearn(n), cfg) /\ Fitted(DreamerLearn(n), cfg)
<1>1. {"world", "policy", "head", "rollouts"} = Networks(cfg.algo) \cup {"rollouts"}
  BY DEF Networks, DreamerNetworks
<1>2. nets \in [{"world", "policy", "head", "rollouts"} -> Nat]
  BY <1>1 DEF IsNets
<1>3. PICK g \in Nat : g = IF n >= cfg.batch THEN 1 ELSE 0
  OBVIOUS
<1>5. DreamerLearn(n) \in [{"world", "policy", "head", "rollouts"} -> Nat]
  <2>1. PICK a, b, c, d : /\ a = nets["policy"] + g /\ b = nets["head"] + g
                          /\ c = nets["world"] + 1 /\ d = nets["rollouts"] + 1
    OBVIOUS
  <2>2. a \in Nat /\ b \in Nat /\ c \in Nat /\ d \in Nat
    BY <1>2, <1>3, <2>1
  <2>3. DreamerLearn(n) = [nets EXCEPT !["policy"] = a, !["head"] = b, !["world"] = c,
                                       !["rollouts"] = d]
    BY <1>2, <1>3, <2>1 DEF DreamerLearn
  <2> QED BY <1>2, <2>2, <2>3
<1> QED BY <1>1, <1>5 DEF IsNets, Fitted

-----------------------------------------------------------------------------
(* One iteration.                                                          *)

(* The callbacks of an iteration: unless one of them raised, a checkpoint  *)
(* that is due is written and an evaluation leaves the statistics counting. *)
LEMMA OnStepDoes ==
  ASSUME NEW step, NEW n, NEW s, OnStep(step, n, s), raised \in BOOLEAN
  PROVE  /\ raised' \in BOOLEAN
         /\ ~raised' => /\ ~raised /\ stats' \in {Evaluated(s), s}
                        /\ disk' = IF Due(step) /\ cfg.algo \in Saving THEN Saved(n, step) ELSE disk
         /\ raised => raised'
         /\ stats' \in {EvaluationRaised(s), Evaluated(s), s}
         /\ disk' = disk \/ (cfg.algo \in Saving /\ disk' = Saved(n, step))
<1>1. PICK outcome :
        /\ stats' = IF outcome = "raise" THEN EvaluationRaised(s)
                    ELSE IF Due(step) THEN Evaluated(s) ELSE s
        /\ raised' = (raised \/ outcome = "raise")
        /\ disk' = IF Due(step) /\ outcome # "raise" /\ cfg.algo \in Saving
                   THEN Saved(n, step) ELSE disk
  BY Zenon DEF OnStep
<1>2. CASE outcome = "raise"
  BY <1>1, <1>2
<1>3. CASE outcome # "raise"
  BY <1>1, <1>3
<1> QED BY <1>2, <1>3

(* The statistics stay with the training.                                  *)
LEMMA StatsKept ==
  ASSUME ConfigOK(cfg), cfg' = cfg, StatsInv, NEW n \in Nat, fed' = fed + n, NEW s,
         s = Counted(n) \/ (s = stats /\ cfg.algo # "PPO"),
         raised' \in BOOLEAN, raised => raised',
         ~raised' => stats' \in {Evaluated(s), s},
         stats' \in {EvaluationRaised(s), Evaluated(s), s}
  PROVE  StatsInv'
<1>1. PICK c, b : c \in Nat /\ b \in BOOLEAN /\ stats = [count |-> c, training |-> b]
  BY DEF StatsInv
<1>2. fed \in Nat /\ fed' \in Nat /\ raised \in BOOLEAN
  BY DEF StatsInv
<1>3. cfg.norm \in BOOLEAN /\ (cfg.algo # "PPO" => cfg.norm = FALSE)
  BY DEF ConfigOK
<1>4. PICK d \in Nat : /\ s = [count |-> d, training |-> b]
                       /\ d \in {c, c + n}
                       /\ cfg.norm = TRUE /\ b = TRUE => d = c + n
  <2>1. CASE cfg.norm = TRUE /\ b = TRUE
    <3>1. cfg.norm /\ stats.training
      BY <1>1, <2>1
    <3>2. s = [stats EXCEPT !.count = @ + n]
      BY <1>3, <2>1, <3>1 DEF Counted
    <3>3. s = [count |-> c + n, training |-> b] /\ c + n \in Nat
      BY <1>1, <3>2
    <3> QED BY <3>3
  <2>2. CASE ~(cfg.norm = TRUE /\ b = TRUE)
    <3>1. ~(cfg.norm /\ stats.training)
      <4>1. stats.training = b
        BY <1>1
      <4> QED BY <1>1, <1>3, <2>2, <4>1, Zenon
    <3>2. s = stats
      BY <3>1 DEF Counted
    <3> QED BY <1>1, <2>2, <3>2
  <2> QED BY <2>1, <2>2
<1>5. /\ EvaluationRaised(s) = [count |-> d, training |-> FALSE]
      /\ Evaluated(s) = [count |-> d, training |-> TRUE]
  <2>1. s = [count |-> d, training |-> b]
    BY <1>4
  <2>2. \A x : [s EXCEPT !.training = x] = [count |-> d, training |-> x]
    BY <2>1
  <2> QED BY <2>2, Zenon DEF Evaluated, EvaluationRaised
<1>6. PICK e \in BOOLEAN : /\ stats' = [count |-> d, training |-> e]
                           /\ ~raised' => e = TRUE \/ e = b
  BY <1>1, <1>4, <1>5
<1>7. cfg.norm => \/ c = fed /\ b = TRUE
                  \/ raised /\ c <= fed
  BY <1>1 DEF StatsInv, NormalizerFollowsTraining
<1>8. cfg.norm => \/ d = fed' /\ e = TRUE
                  \/ raised' /\ d <= fed'
  <2>1. CASE raised'
    BY <1>1, <1>2, <1>4, <1>7, <2>1
  <2>2. CASE ~raised'
    BY <1>1, <1>2, <1>4, <1>6, <1>7, <2>2
  <2> QED BY <2>1, <2>2
<1>9. NormalizerFollowsTraining'
  BY <1>6, <1>8 DEF NormalizerFollowsTraining
<1> QED BY <1>2, <1>4, <1>6, <1>9 DEF StatsInv

(* The checkpoints keep up with a counter that moved by one stride.        *)
LEMMA SaveKept ==
  ASSUME CoreInv, cfg' = cfg, cfg.algo # "PQN",
         cfg.algo # "RecurrentPPO" => globalStep' = globalStep + Stride,
         NEW n, IsNets(n, cfg), Fitted(n, cfg),
         ~raised' => /\ ~raised
                     /\ disk' = IF Due(globalStep') /\ cfg.algo \in Saving
                                THEN Saved(n, globalStep') ELSE disk
  PROVE  SavedOnTime'
<1> SUFFICES ASSUME cfg.algo \notin {"RecurrentPPO", "Dreamer"}, ~raised', Stride # 0,
                    cfg.freq % Stride = 0, globalStep' % Stride = 0
             PROVE  globalStep' - SavedStep' <= globalStep' % cfg.freq
  <2>1. Stride' = Stride
    BY DEF Stride, Batch, PPOSteps, Minibatches
  <2> QED BY <2>1 DEF SavedOnTime
<1>1. /\ Stride \in Nat \ {0} /\ cfg.freq \in Nat \ {0} /\ globalStep \in Nat
      /\ ConfigOK(cfg) /\ cfg.algo \in Saving
  BY StepCounts DEF CoreInv, ConfigOK, Positive, Saving
<1>2. PICK t : t = Stride
  OBVIOUS
<1>3. /\ t \in Nat \ {0} /\ globalStep' = globalStep + 1 * t /\ globalStep' \in Nat
      /\ cfg.freq % t = 0
  BY <1>1, <1>2
<1>4. globalStep % t = 0
  <2>1. (globalStep + 1 * t) % t = globalStep % t
    BY <1>1, <1>3, SameRemainder
  <2>2. (globalStep + 1 * t) % t = 0
    BY <1>2, <1>3
  <2> QED BY <2>1, <2>2
<1>5. CASE Due(globalStep')
  <2>1. disk' = Saved(n, globalStep')
    BY <1>1, <1>5
  <2>2. disk'.step = globalStep' /\ disk' # NoCheckpoint
    BY <1>1, <1>3, <2>1, SavedOK
  <2>3. globalStep' % cfg.freq \in Nat
    BY <1>1, <1>3, DivMod
  <2>4. SavedStep' = globalStep'
    BY <2>2 DEF SavedStep
  <2> QED BY <1>3, <2>3, <2>4
<1>6. CASE ~Due(globalStep')
  <2>1. SavedStep' = SavedStep
    BY <1>6 DEF SavedStep
  <2>2. globalStep - SavedStep <= globalStep % cfg.freq
    BY <1>2, <1>4 DEF CoreInv, SavedOnTime
  <2>3. globalStep' % cfg.freq = (globalStep % cfg.freq) + 1 * t
    <3>1. PICK g, f, k : g = globalStep /\ f = cfg.freq /\ k = 1
      OBVIOUS
    <3>2. \A j \in 1..k : (g + j * t) % f # 0
      BY <1>3, <1>6, <3>1 DEF Due
    <3>3. g \in Nat /\ f \in Nat \ {0} /\ f % t = 0 /\ g % t = 0 /\ k \in Nat
      BY <1>1, <1>3, <1>4, <3>1
    <3>4. t \in Nat \ {0}
      BY <1>3
    <3>5. (g + k * t) % f = (g % f) + k * t
      <4>1. Hits(t, f, g, k)
        BY ONLY <3>3, <3>4, HitsTheMultiple
      <4> QED BY <3>2, <4>1, Zenon DEF Hits
    <3> QED BY <1>3, <3>1, <3>5
  <2>4. SavedStep \in Int /\ globalStep % cfg.freq \in Int
    BY <1>1, DivMod DEF CoreInv, SavedStep, FileOK
  <2> QED BY <1>1, <1>3, <2>1, <2>2, <2>3, <2>4
<1> QED BY <1>5, <1>6

LEMMA Iterated ==
  ASSUME CoreInv, cfg' = cfg, cfg.algo # "PQN",
         IsNets(nets', cfg), Fitted(nets', cfg), globalStep' \in Nat,
         cfg.algo # "RecurrentPPO" => globalStep' = globalStep + Stride,
         NEW n \in Nat, fed' = fed + n,
         NEW s, s = Counted(n) \/ (s = stats /\ cfg.algo # "PPO"),
         OnStep(globalStep', nets', s)
  PROVE  CoreInv'
<1>1. ConfigOK(cfg) /\ StatsInv /\ raised \in BOOLEAN
  BY DEF CoreInv, StatsInv
<1>2. /\ raised' \in BOOLEAN
      /\ ~raised' => /\ ~raised /\ stats' \in {Evaluated(s), s}
                     /\ disk' = IF Due(globalStep') /\ cfg.algo \in Saving
                                THEN Saved(nets', globalStep') ELSE disk
      /\ raised => raised'
      /\ stats' \in {EvaluationRaised(s), Evaluated(s), s}
      /\ disk' = disk \/ (cfg.algo \in Saving /\ disk' = Saved(nets', globalStep'))
  BY <1>1, OnStepDoes
<1>3. StatsInv'
  BY <1>1, <1>2, StatsKept
<1>4. SavedOnTime'
  BY <1>2, SaveKept
<1>5. disk' = NoCheckpoint \/ FileOK(disk')
  BY <1>1, <1>2, SavedOK DEF CoreInv
<1> QED BY <1>1, <1>3, <1>4, <1>5 DEF CoreInv

(* PQN saves inside the rollout, at the last multiple it stands on.        *)
LEMMA SavedWithinKept ==
  ASSUME CoreInv, cfg' = cfg, cfg.algo = "PQN", NEW k \in Nat, disk' = SavedWithin(k)
  PROVE  /\ disk' = NoCheckpoint \/ FileOK(disk')
         /\ globalStep' = globalStep + k * cfg.envs /\ (~raised' => ~raised) => SavedOnTime'
<1> DEFINE due == {j \in 1..k : Due(globalStep + j * cfg.envs)}
<1>1. /\ cfg.envs \in Nat \ {0} /\ cfg.freq \in Nat \ {0} /\ globalStep \in Nat
      /\ ConfigOK(cfg) /\ cfg.algo \in Saving
  BY DEF CoreInv, ConfigOK, Positive, Saving, Algorithms
<1>2. PICK t, g, f : t = cfg.envs /\ g = globalStep /\ f = cfg.freq
  OBVIOUS
<1>3. t \in Nat \ {0} /\ g \in Nat /\ f \in Nat \ {0} /\ g + k * t \in Nat
  BY <1>1, <1>2, SameRemainder
<1>4. PICK last_ : last_ = CHOOSE j \in due : \A i \in due : i <= j
  OBVIOUS
<1>5. disk' = IF due = {} THEN disk ELSE Saved(nets, g + t * last_)
  BY <1>2, <1>4 DEF SavedWithin
<1>6. ASSUME due # {} PROVE /\ last_ \in due /\ \A i \in due : i <= last_
                            /\ g + t * last_ \in Nat /\ t * last_ = last_ * t
  <2>1. PICK x \in {k - j : j \in due} : \A y \in {k - j : j \in due} : x <= y
    <3>1. {k - j : j \in due} \subseteq Nat /\ {k - j : j \in due} # {}
      BY <1>6
    <3> QED BY <3>1, LeastElement
  <2>2. PICK j \in due : x = k - j
    OBVIOUS
  <2>3. ASSUME NEW i \in due PROVE i <= j
    <3>1. k - j <= k - i
      BY <2>1, <2>2
    <3> QED BY <3>1
  <2>4. last_ \in due /\ \A i \in due : i <= last_
    BY <1>4, <2>3
  <2>5. last_ \in Nat
    BY <2>4
  <2>6. last_ * t \in Nat /\ t * last_ = last_ * t
    BY <1>3, <2>5, SameRemainder, Distributes
  <2> QED BY <1>3, <2>4, <2>6
<1>7. disk' = NoCheckpoint \/ FileOK(disk')
  <2>1. CASE due = {}
    BY <1>5, <2>1 DEF CoreInv
  <2>2. CASE due # {}
    BY <1>1, <1>5, <1>6, <2>2, SavedOK DEF CoreInv
  <2> QED BY <2>1, <2>2
<1>8. ASSUME globalStep' = globalStep + k * cfg.envs, ~raised' => ~raised
      PROVE  SavedOnTime'
  <2>0. Stride = t /\ Stride' = t /\ globalStep' = g + k * t /\ globalStep' \in Nat
    BY <1>2, <1>3, <1>8 DEF Stride
  <2> SUFFICES ASSUME ~raised', f % t = 0, (g + k * t) % t = 0
               PROVE  globalStep' - SavedStep' <= globalStep' % cfg.freq
    BY <1>2, <2>0 DEF SavedOnTime
  <2>1. g % t = 0
    BY <1>3, SameRemainder
  <2>2. Hits(t, f, g, k)
    BY <1>3, <2>1, HitsTheMultiple
  <2>3. \A j \in 1..k : j \in due <=> (g + j * t) % f = 0
    BY <1>2 DEF Due
  <2>4. CASE due = {}
    <3>1. (g + k * t) % f = (g % f) + k * t
      BY <2>2, <2>3, <2>4, Zenon DEF Hits
    <3>2. SavedStep' = SavedStep
      BY <1>5, <2>4 DEF SavedStep
    <3>3. g - SavedStep <= g % f
      BY <1>2, <1>3, <1>8, <2>0, <2>1 DEF CoreInv, SavedOnTime
    <3>4. SavedStep \in Int /\ g % f \in Int /\ k * t \in Int
      BY <1>3, DivMod DEF CoreInv, SavedStep, FileOK
    <3>5. PICK w : w = k * t
      OBVIOUS
    <3>6. (g + w) - SavedStep <= (g % f) + w
      BY <1>3, <3>3, <3>4, <3>5
    <3> QED BY <1>2, <2>0, <3>1, <3>2, <3>5, <3>6
  <2>5. CASE due # {}
    <3>1. disk' = Saved(nets, g + t * last_) /\ g + t * last_ \in Nat
      BY <1>5, <1>6, <2>5
    <3>2. SavedStep' = g + last_ * t
      <4>1. disk'.step = g + t * last_ /\ disk' # NoCheckpoint
        BY <1>1, <3>1, SavedOK DEF CoreInv
      <4> QED BY <1>6, <2>5, <4>1 DEF SavedStep
    <3>3. PICK j \in 1..k : /\ (g + j * t) % f = 0
                            /\ (g + k * t) - (g + j * t) = (g + k * t) % f
      BY <2>2, <2>3, <2>5, Zenon DEF Hits
    <3>4. j <= last_ /\ last_ \in Int
      BY <1>6, <2>3, <2>5, <3>3
    <3>5. j * t <= last_ * t /\ j * t \in Int /\ last_ * t \in Int /\ k * t \in Int
      <4>1. t * j <= t * last_
        BY <1>3, <3>4, MulOrder
      <4>2. t * j = j * t /\ t * last_ = last_ * t
        BY <1>3, <3>4, Distributes
      <4> QED BY <1>3, <3>4, <4>1, <4>2
    <3>6. (g + k * t) - (g + last_ * t) <= (g + k * t) - (g + j * t)
      BY <1>3, <3>5
    <3> QED BY <1>2, <2>0, <3>2, <3>3, <3>6
  <2> QED BY <2>4, <2>5
<1> QED BY <1>7, <1>8

-----------------------------------------------------------------------------
(* RecurrentPPO always has a segment to learn from.                        *)

LEMMA SegmentsThere ==
  ASSUME ConfigOK(cfg), NEW ends
  PROVE  RecurrentSteps(ends) \in Nat /\ RecurrentSteps(ends) >= 1
<1>1. /\ cfg.envs \in Nat \ {0} /\ cfg.steps \in Nat \ {0}
      /\ cfg.epochs \in Nat \ {0} /\ cfg.parts \in Nat \ {0}
  BY DEF ConfigOK, Positive
<1>2. IsFiniteSet(AllSegments(ends))
  <2>1. IsFiniteSet(Envs) /\ IsFiniteSet(Times)
    <3>1. 1 \in Int /\ cfg.envs \in Int /\ cfg.steps \in Int
      BY <1>1
    <3>2. IsFiniteSet(1..cfg.envs) /\ IsFiniteSet(1..cfg.steps)
      BY <3>1, FS_Interval
    <3> QED BY <3>2 DEF Envs, Times
  <2>2. IsFiniteSet(Envs \X (Times \X Times))
    <3>1. IsFiniteSet(Times \X Times)
      BY <2>1, FS_Product
    <3> QED BY <2>1, <3>1, FS_Product
  <2>3. AllSegments(ends) \subseteq Envs \X (Times \X Times)
    BY DEF AllSegments, Segments
  <2> QED BY <2>2, <2>3, FS_Subset
<1>3. AllSegments(ends) # {}
  <2> DEFINE E == {e \in Times : e = cfg.steps \/ Begins(1, e + 1, ends)}
  <2>1. E \subseteq Nat /\ cfg.steps \in E
    BY <1>1 DEF Times
  <2>2. PICK e \in E : \A y \in E : e <= y
    BY <2>1, LeastElement
  <2>3. ASSUME NEW k \in 2..e PROVE ~Begins(1, k, ends)
    <3>1. k - 1 \in Times /\ k - 1 < e /\ (k - 1) + 1 = k
      BY <1>1, <2>2 DEF Times
    <3>2. k - 1 \notin E
      BY <1>1, <2>1, <2>2, <3>1
    <3> QED BY <3>1, <3>2
  <2>4. <<1, e>> \in Segments(1, ends)
    <3>1. 1 \in Times /\ e \in Times /\ 1 <= e /\ 1 + 1 = 2
      BY <1>1, <2>2 DEF Times
    <3> QED BY <2>2, <2>3, <3>1 DEF Segments
  <2>5. 1 \in Envs
    BY <1>1 DEF Envs
  <2>6. <<1, <<1, e>>>> \in {<<1, s>> : s \in Segments(1, ends)}
    BY <2>4
  <2>7. {<<1, s>> : s \in Segments(1, ends)}
          \in {{<<i, s>> : s \in Segments(i, ends)} : i \in Envs}
    BY <2>5
  <2>8. <<1, <<1, e>>>> \in AllSegments(ends)
    BY <2>6, <2>7, Zenon DEF AllSegments
  <2> QED BY <2>8
<1>4. PICK c : c = Cardinality(AllSegments(ends))
  OBVIOUS
<1>5. c \in Nat /\ c # 0
  BY <1>2, <1>3, <1>4, FS_CardinalityType, FS_EmptySet
<1>6. PICK x : x = Least(cfg.parts, c)
  OBVIOUS
<1>7. x \in Nat /\ x >= 1
  BY <1>1, <1>5, <1>6 DEF Least
<1>8. RecurrentSteps(ends) = cfg.epochs * x
  BY <1>4, <1>6 DEF RecurrentSteps
<1>9. cfg.epochs * 0 < cfg.epochs * x /\ cfg.epochs * 0 = 0 /\ cfg.epochs * x \in Int
  BY <1>1, <1>7, MulOrder, Distributes
<1> QED BY <1>8, <1>9

-----------------------------------------------------------------------------
(* The steps.                                                              *)

IInv == CoreInv /\ BaselineIsTrained

LEMMA CollectedFits ==
  ASSUME CoreInv, cfg' = cfg, NEW path, NEW ends, NEW replay, Collected(path, ends, replay)
  PROVE  BaselineIsTrained'
<1>1. last'.values = Baseline /\ last'.rollouts = nets["rollouts"]
  BY DEF Collected
<1>2. Minibatches' = Minibatches /\ Minibatches = (cfg.envs * cfg.steps) \div cfg.batch
  BY DEF Minibatches, Batch
<1>3. CASE cfg.algo = "MAPPO"
  <2>1. Baseline = nets["head"]
    BY <1>3 DEF Baseline
  <2>2. nets["head"] = 0
    BY <1>3 DEF CoreInv, Fitted
  <2> QED BY <1>1, <1>3, <2>1, <2>2 DEF BaselineIsTrained
<1>4. CASE cfg.algo # "MAPPO"
  <2>1. Baseline = nets[BaselineOf(cfg.algo)]
    BY DEF Baseline, BaselineOf
  <2>2. \/ nets[BaselineOf(cfg.algo)] >= nets["rollouts"]
        \/ cfg.algo = "PPO" /\ Minibatches = 0
        \/ cfg.algo = "Dreamer"
    BY <1>2, <1>4 DEF CoreInv, Fitted
  <2> QED BY <1>1, <1>2, <2>1, <2>2 DEF BaselineIsTrained
<1> QED BY <1>3, <1>4

LEMMA NothingFits ==
  ASSUME last' = Nothing
  PROVE  BaselineIsTrained'
BY DEF BaselineIsTrained, Nothing

LEMMA FreshIsNat ==
  ASSUME ConfigOK(cfg)
  PROVE  Fresh + Batch \in Nat
<1>1. Fresh \in Nat
  BY DEF Fresh, ConfigOK, Positive
<1>2. Batch \in Nat
  BY StepCounts DEF Positive
<1> QED BY <1>1, <1>2

(* An iteration of the trainers that share RolloutCollector.               *)
LEMMA CollectThenLearnKeeps ==
  ASSUME IInv, NEW learned, NEW step \in Nat, CollectThenLearn(learned, step),
         cfg.algo \notin {"PQN", "RecurrentPPO"},
         IsNets(learned, cfg), Fitted(learned, cfg), step = globalStep + Stride
  PROVE  IInv'
<1>1. PICK ends : /\ Collected(Path(Continued, ends), ends, {})
                  /\ nets' = learned /\ globalStep' = step
                  /\ fed' = fed + Fresh + Batch
                  /\ OnStep(step, learned, Counted(Fresh + Batch))
                  /\ cfg' = cfg
  BY Zenon DEF CollectThenLearn
<1>2. CoreInv /\ ConfigOK(cfg)
  BY DEF IInv, CoreInv
<1>3. PICK n \in Nat : n = Fresh + Batch
  BY <1>2, FreshIsNat
<1>4. fed' = fed + n
  <2>1. Fresh \in Nat /\ Batch \in Nat /\ fed \in Nat
    BY <1>2, StepCounts DEF Fresh, ConfigOK, Positive, CoreInv, StatsInv
  <2> QED BY <1>1, <1>3, <2>1
<1>5. OnStep(globalStep', nets', Counted(n))
  BY <1>1, <1>3
<1>6. CoreInv'
  BY <1>1, <1>2, <1>4, <1>5, Iterated
<1>7. BaselineIsTrained'
  BY <1>1, <1>2, CollectedFits
<1> QED BY <1>6, <1>7 DEF IInv

LEMMA TrainersKeep ==
  ASSUME IInv, PPOTrain \/ A2CTrain \/ VPGTrain \/ TRPOTrain \/ MAPPOTrain
  PROVE  IInv'
<1>0. /\ ConfigOK(cfg) /\ IsNets(nets, cfg) /\ Fitted(nets, cfg) /\ globalStep \in Nat
  BY DEF IInv, CoreInv
<1>1. /\ Batch \in Positive /\ Batch \in Nat /\ Minibatches \in Nat /\ PPOSteps \in Nat
      /\ Minibatches # 0 => PPOSteps >= 1
  BY <1>0, StepCounts DEF Positive
<1>2. CASE PPOTrain
  <2>1. cfg.algo = "PPO" /\ CollectThenLearn(Joint(PPOSteps), globalStep + PPOSteps)
    BY <1>2 DEF PPOTrain, Running
  <2>2. Stride = PPOSteps /\ globalStep + PPOSteps \in Nat
    BY <1>0, <1>1, <2>1 DEF Stride
  <2>3. IsNets(Joint(PPOSteps), cfg) /\ Fitted(Joint(PPOSteps), cfg)
    BY <1>0, <1>1, <2>1, JointFits
  <2> QED BY <2>1, <2>2, <2>3, CollectThenLearnKeeps
<1>3. CASE A2CTrain
  <2>1. cfg.algo = "A2C" /\ CollectThenLearn(Joint(1), globalStep + Batch)
    BY <1>3 DEF A2CTrain, Running
  <2>2. Stride = Batch /\ globalStep + Batch \in Nat
    BY <1>0, <1>1, <2>1 DEF Stride
  <2>3. IsNets(Joint(1), cfg) /\ Fitted(Joint(1), cfg)
    BY <1>0, <2>1, JointFits
  <2> QED BY <2>1, <2>2, <2>3, CollectThenLearnKeeps
<1>4. CASE VPGTrain
  <2>1. cfg.algo = "VPG" /\ CollectThenLearn(VPGLearn, globalStep + Batch)
    BY <1>4 DEF VPGTrain, Running
  <2>2. Stride = Batch /\ globalStep + Batch \in Nat
    BY <1>0, <1>1, <2>1 DEF Stride
  <2>3. IsNets(VPGLearn, cfg) /\ Fitted(VPGLearn, cfg)
    BY <1>0, <2>1, ValueLoopFits
  <2> QED BY <2>1, <2>2, <2>3, CollectThenLearnKeeps
<1>5. CASE TRPOTrain
  <2>1. PICK accepted \in BOOLEAN : /\ cfg.algo = "TRPO"
                                    /\ CollectThenLearn(TRPOLearn(accepted), globalStep + Batch)
    BY <1>5 DEF TRPOTrain, Running
  <2>2. Stride = Batch /\ globalStep + Batch \in Nat
    BY <1>0, <1>1, <2>1 DEF Stride
  <2>3. IsNets(TRPOLearn(accepted), cfg) /\ Fitted(TRPOLearn(accepted), cfg)
    BY <1>0, <2>1, ValueLoopFits
  <2> QED BY <2>1, <2>2, <2>3, CollectThenLearnKeeps
<1>6. CASE MAPPOTrain
  <2>1. cfg.algo = "MAPPO" /\ CollectThenLearn(MAPPOLearn(PPOSteps), globalStep + PPOSteps)
    BY <1>6 DEF MAPPOTrain, Running
  <2>2. Stride = PPOSteps /\ globalStep + PPOSteps \in Nat
    BY <1>0, <1>1, <2>1 DEF Stride
  <2>3. IsNets(MAPPOLearn(PPOSteps), cfg) /\ Fitted(MAPPOLearn(PPOSteps), cfg)
    BY <1>0, <1>1, <2>1, MAPPOFits
  <2> QED BY <2>1, <2>2, <2>3, CollectThenLearnKeeps
<1> QED BY <1>2, <1>3, <1>4, <1>5, <1>6

(* Statistics that did not move, in a trainer that has no VecNormalize.    *)
LEMMA StatsUntouched ==
  ASSUME StatsInv, ConfigOK(cfg), cfg' = cfg, cfg.algo # "PPO", stats' = stats,
         raised' \in BOOLEAN, fed' \in Nat
  PROVE  StatsInv'
<1>1. cfg'.norm = FALSE
  BY DEF ConfigOK
<1>2. NormalizerFollowsTraining'
  BY <1>1 DEF NormalizerFollowsTraining
<1> QED BY <1>2 DEF StatsInv

LEMMA PQNKeeps ==
  ASSUME IInv, PQNTrain \/ PQNRaises
  PROVE  IInv'
<1>0. /\ CoreInv /\ ConfigOK(cfg) /\ IsNets(nets, cfg) /\ Fitted(nets, cfg)
      /\ globalStep \in Nat /\ StatsInv /\ fed \in Nat /\ raised \in BOOLEAN
  BY DEF IInv, CoreInv, StatsInv
<1>1. cfg.envs \in Nat \ {0} /\ cfg.steps \in Nat \ {0}
  BY <1>0 DEF ConfigOK, Positive
<1>2. CASE PQNTrain
  <2>1. PICK ends : Collected(Path(Continued, ends), ends, {})
    BY <1>2 DEF PQNTrain
  <2>2. /\ cfg.algo = "PQN" /\ cfg' = cfg /\ stats' = stats /\ raised' = raised
        /\ disk' = SavedWithin(cfg.steps) /\ nets' = PQNLearn(PQNSteps)
        /\ globalStep' = globalStep + Batch /\ fed' = fed + Batch
    BY <1>2 DEF PQNTrain, Running
  <2>3. globalStep' = globalStep + cfg.steps * cfg.envs /\ globalStep' \in Nat /\ fed' \in Nat
    <3>1. Batch = cfg.steps * cfg.envs /\ Batch \in Nat
      BY <1>0, <1>1, StepCounts, Distributes DEF Batch, Positive
    <3> QED BY <1>0, <2>2, <3>1
  <2>4. IsNets(nets', cfg) /\ Fitted(nets', cfg)
    BY <1>0, <2>2, PQNFits, StepCounts
  <2>5. (disk' = NoCheckpoint \/ FileOK(disk')) /\ SavedOnTime'
    BY <1>0, <1>1, <2>2, <2>3, SavedWithinKept
  <2>6. StatsInv'
    BY <1>0, <2>2, <2>3, StatsUntouched
  <2>7. BaselineIsTrained'
    BY <1>0, <2>1, <2>2, CollectedFits
  <2>8. CoreInv'
    BY <1>0, <2>2, <2>3, <2>4, <2>5, <2>6 DEF CoreInv
  <2> QED BY <2>7, <2>8 DEF IInv
<1>3. CASE PQNRaises
  <2>1. PICK k \in Times : /\ globalStep' = globalStep + k * cfg.envs
                           /\ fed' = fed + k * cfg.envs
                           /\ disk' = SavedWithin(k - 1)
    BY <1>3, Zenon DEF PQNRaises
  <2>2. /\ cfg.algo = "PQN" /\ cfg' = cfg /\ stats' = stats /\ raised' = TRUE
        /\ nets' = nets /\ last' = Nothing
    BY <1>3 DEF PQNRaises, Running
  <2>3. k \in Nat /\ k - 1 \in Nat /\ globalStep' \in Nat /\ fed' \in Nat
    <3>1. k \in Nat /\ k - 1 \in Nat
      BY <1>1 DEF Times
    <3> QED BY <1>0, <1>1, <2>1, <3>1, SameRemainder
  <2>4. disk' = NoCheckpoint \/ FileOK(disk')
    BY <1>0, <2>1, <2>2, <2>3, SavedWithinKept
  <2>5. StatsInv'
    BY <1>0, <2>2, <2>3, StatsUntouched
  <2>6. SavedOnTime'
    BY <2>2 DEF SavedOnTime
  <2>7. CoreInv'
    BY <1>0, <2>2, <2>3, <2>4, <2>5, <2>6 DEF CoreInv
  <2> QED BY <2>2, <2>7, NothingFits DEF IInv
<1> QED BY <1>2, <1>3

LEMMA RecurrentPPOKeeps ==
  ASSUME IInv, RecurrentPPOTrain
  PROVE  IInv'
<1>0. /\ CoreInv /\ ConfigOK(cfg) /\ IsNets(nets, cfg) /\ Fitted(nets, cfg)
      /\ globalStep \in Nat /\ fed \in Nat
  BY DEF IInv, CoreInv, StatsInv
<1>1. PICK ends : LET path == Path(Continued, ends)
                      g == RecurrentSteps(ends)
                  IN  /\ Collected(path, ends, RecurrentReplay(path, ends))
                      /\ nets' = Joint(g)
                      /\ globalStep' = globalStep + g
                      /\ OnStep(globalStep + g, Joint(g), stats)
  BY Zenon DEF RecurrentPPOTrain
<1>2. PICK g : g = RecurrentSteps(ends)
  OBVIOUS
<1>3. cfg.algo = "RecurrentPPO" /\ cfg' = cfg /\ fed' = fed + Fresh + Batch
  BY DEF RecurrentPPOTrain, Running
<1>4. g \in Nat /\ g >= 1
  BY <1>0, <1>2, SegmentsThere
<1>5. IsNets(nets', cfg) /\ Fitted(nets', cfg)
  BY <1>0, <1>1, <1>2, <1>3, <1>4, JointFits
<1>6. globalStep' \in Nat /\ OnStep(globalStep', nets', stats)
  BY <1>0, <1>1, <1>2, <1>4
<1>7. PICK n \in Nat : n = Fresh + Batch
  BY <1>0, FreshIsNat
<1>8. fed' = fed + n
  <2>1. Fresh \in Nat /\ Batch \in Nat
    BY <1>0, StepCounts DEF Fresh, ConfigOK, Positive
  <2> QED BY <1>0, <1>3, <1>7, <2>1
<1>9. CoreInv'
  BY <1>0, <1>3, <1>5, <1>6, <1>8, Iterated
<1>10. BaselineIsTrained'
  BY <1>0, <1>1, <1>3, CollectedFits
<1> QED BY <1>9, <1>10 DEF IInv

LEMMA MultiMAPPOKeeps ==
  ASSUME IInv, MultiMAPPOTrain
  PROVE  IInv'
<1>0. /\ CoreInv /\ ConfigOK(cfg) /\ IsNets(nets, cfg) /\ Fitted(nets, cfg)
      /\ globalStep \in Nat /\ fed \in Nat
      /\ cfg.epochs \in Nat /\ cfg.epochs >= 1 /\ cfg.envs \in Nat
  BY DEF IInv, CoreInv, StatsInv, ConfigOK, Positive
<1>1. PICK ends : Collected(Path(AllReset, ends), ends, {})
  BY DEF MultiMAPPOTrain
<1>2. /\ cfg.algo = "MultiMAPPO" /\ cfg' = cfg /\ nets' = MAPPOLearn(cfg.epochs)
      /\ globalStep' = globalStep + cfg.epochs /\ fed' = fed + Batch + cfg.envs
      /\ OnStep(globalStep + cfg.epochs, MAPPOLearn(cfg.epochs), stats)
  BY DEF MultiMAPPOTrain, Running
<1>3. IsNets(nets', cfg) /\ Fitted(nets', cfg)
  BY <1>0, <1>2, MAPPOFits
<1>4. globalStep' \in Nat /\ globalStep' = globalStep + Stride
      /\ OnStep(globalStep', nets', stats)
  BY <1>0, <1>2 DEF Stride
<1>5. PICK n \in Nat : fed' = fed + n
  <2>1. Batch \in Nat
    BY <1>0, StepCounts DEF Positive
  <2>2. PICK n : n = Batch + cfg.envs
    OBVIOUS
  <2>3. n \in Nat /\ fed' = fed + n
    BY <1>0, <1>2, <2>1, <2>2
  <2> QED BY <2>3
<1>6. CoreInv'
  BY <1>0, <1>2, <1>3, <1>4, <1>5, Iterated
<1>7. BaselineIsTrained'
  BY <1>0, <1>1, <1>2, CollectedFits
<1> QED BY <1>6, <1>7 DEF IInv

LEMMA DreamerKeeps ==
  ASSUME IInv, DreamerTrain
  PROVE  IInv'
<1>0. /\ CoreInv /\ ConfigOK(cfg) /\ IsNets(nets, cfg) /\ StatsInv
      /\ fed \in Nat /\ raised \in BOOLEAN /\ cfg.envs \in Nat
  BY DEF IInv, CoreInv, StatsInv, ConfigOK, Positive
<1>1. PICK path, ends, replay : Collected(path, ends, replay)
  BY Zenon DEF DreamerTrain
<1>2. /\ cfg.algo = "Dreamer" /\ cfg' = cfg /\ stats' = stats /\ raised' = raised
      /\ nets' = DreamerLearn(Least(buffered + Batch, cfg.capacity))
      /\ fed' = fed + Batch + cfg.envs /\ globalStep' = globalStep /\ disk' = disk
  BY DEF DreamerTrain, Running
<1>3. IsNets(nets', cfg) /\ Fitted(nets', cfg)
  BY <1>0, <1>2, DreamerFits
<1>4. fed' \in Nat
  <2>1. Batch \in Nat
    BY <1>0, StepCounts DEF Positive
  <2> QED BY <1>0, <1>2, <2>1
<1>5. StatsInv'
  BY <1>0, <1>2, <1>4, StatsUntouched
<1>6. SavedOnTime'
  BY <1>2 DEF SavedOnTime
<1>7. CoreInv'
  BY <1>0, <1>2, <1>3, <1>5, <1>6 DEF CoreInv
<1>8. BaselineIsTrained'
  BY <1>0, <1>1, <1>2, CollectedFits
<1> QED BY <1>7, <1>8 DEF IInv

(* Between two calls: evaluations, saves and new calls.                    *)
LEMMA IdleKeeps ==
  ASSUME IInv, Train \/ Evaluate \/ Save
  PROVE  IInv'
<1>0. /\ CoreInv /\ ConfigOK(cfg) /\ IsNets(nets, cfg) /\ Fitted(nets, cfg)
      /\ globalStep \in Nat /\ StatsInv /\ fed \in Nat /\ raised \in BOOLEAN
      /\ cfg.freq \in Nat \ {0}
  BY DEF IInv, CoreInv, StatsInv, ConfigOK, Positive
<1>1. /\ cfg' = cfg /\ nets' = nets /\ globalStep' = globalStep /\ fed' = fed
      /\ last' = Nothing
  BY DEF Train, Evaluate, Save
<1>2. Stride' = Stride
  BY <1>1 DEF Stride, Batch, PPOSteps, Minibatches
<1>3. CASE Train
  <2>1. stats' = stats /\ raised' = raised /\ disk' = disk
    BY <1>3 DEF Train
  <2>2. StatsInv' /\ SavedOnTime'
    BY <1>0, <1>1, <1>2, <2>1
       DEF StatsInv, NormalizerFollowsTraining, CoreInv, SavedOnTime, SavedStep
  <2> QED BY <1>0, <1>1, <2>1, <2>2, NothingFits DEF IInv, CoreInv
<1>4. CASE Save
  <2>1. stats' = stats /\ raised' = raised /\ disk' = Saved(nets, globalStep)
        /\ cfg.algo \in Saving
    BY <1>4 DEF Save
  <2>2. /\ FileOK(disk') /\ disk' # NoCheckpoint
        /\ cfg.algo # "Dreamer" => disk'.step = globalStep
    BY <1>0, <2>1, SavedOK
  <2>3. cfg.algo # "Dreamer" => globalStep' - SavedStep' <= globalStep' % cfg.freq
    <3>1. globalStep % cfg.freq \in Nat
      BY <1>0, DivMod
    <3> QED BY <1>0, <1>1, <2>2, <3>1 DEF SavedStep
  <2>4. SavedOnTime'
    BY <1>1, <2>3 DEF SavedOnTime
  <2>5. StatsInv'
    BY <1>0, <1>1, <2>1 DEF StatsInv, NormalizerFollowsTraining
  <2> QED BY <1>0, <1>1, <2>2, <2>4, <2>5, NothingFits DEF IInv, CoreInv
<1>5. CASE Evaluate
  <2>1. /\ disk' = disk /\ raised' \in BOOLEAN /\ (raised => raised')
        /\ ~raised' => stats' \in {Evaluated(stats), stats}
        /\ stats' \in {EvaluationRaised(stats), Evaluated(stats), stats}
    <3>1. \/ stats' = Evaluated(stats) /\ raised' = raised
          \/ stats' = EvaluationRaised(stats) /\ raised' = TRUE
      BY <1>5 DEF Evaluate
    <3>2. disk' = disk
      BY <1>5 DEF Evaluate
    <3>3. CASE stats' = Evaluated(stats) /\ raised' = raised
      BY <1>0, <3>2, <3>3
    <3>4. CASE stats' = EvaluationRaised(stats) /\ raised' = TRUE
      BY <1>0, <3>2, <3>4
    <3> QED BY <3>1, <3>3, <3>4
  <2>2. PICK n \in Nat : n = 0
    OBVIOUS
  <2>3. fed' = fed + n
    BY <1>0, <1>1, <2>2
  <2>4. StatsInv'
    <3>1. CASE cfg.algo # "PPO"
      BY <1>0, <1>1, <2>1, <2>3, <3>1, StatsKept
    <3>2. CASE cfg.algo = "PPO"
      <4>1. stats = Counted(n)
        <5>1. PICK c, b : c \in Nat /\ b \in BOOLEAN /\ stats = [count |-> c, training |-> b]
          BY <1>0 DEF StatsInv
        <5>2. [stats EXCEPT !.count = @ + n] = stats
          <6>1. c + n = c
            BY <2>2, <5>1
          <6>2. [stats EXCEPT !.count = @ + n] = [count |-> c + n, training |-> b]
            BY <5>1
          <6> QED BY <5>1, <6>1, <6>2
        <5> QED BY <5>2 DEF Counted
      <4> QED BY <1>0, <1>1, <2>1, <2>3, <4>1, StatsKept
    <3> QED BY <3>1, <3>2
  <2>5. SavedOnTime'
    <3>1. SavedStep' = SavedStep
      BY <2>1 DEF SavedStep
    <3> QED BY <1>0, <1>1, <1>2, <2>1, <3>1 DEF CoreInv, SavedOnTime
  <2> QED BY <1>0, <1>1, <2>1, <2>4, <2>5, NothingFits DEF IInv, CoreInv
<1> QED BY <1>3, <1>4, <1>5

LEMMA RestartKeeps ==
  ASSUME IInv, NEW algo, FromCheckpoint(algo)
  PROVE  IInv'
<1>1. /\ FileOK(disk) /\ disk' = disk /\ disk # NoCheckpoint
      /\ cfg' = disk.cfg /\ nets' = disk.nets /\ globalStep' = disk.step
      /\ stats' = [count |-> 0, training |-> TRUE] /\ fed' = 0 /\ raised' = FALSE
      /\ last' = Nothing
  BY DEF IInv, CoreInv, FromCheckpoint, Constructed
<1>2. /\ ConfigOK(cfg') /\ IsNets(nets', cfg') /\ Fitted(nets', cfg') /\ globalStep' \in Nat
      /\ FileOK(disk')
  BY <1>1 DEF FileOK
<1>3. StatsInv'
  <2>1. stats'.count = fed' /\ stats'.training
    BY <1>1
  <2>2. stats' \in [count : Nat, training : BOOLEAN] /\ fed' \in Nat /\ raised' \in BOOLEAN
    BY <1>1
  <2> QED BY <2>1, <2>2 DEF StatsInv, NormalizerFollowsTraining
<1>4. SavedOnTime'
  <2>1. SavedStep' = globalStep'
    BY <1>1 DEF SavedStep
  <2>2. cfg'.freq \in Nat \ {0}
    BY <1>2 DEF ConfigOK, Positive
  <2>3. globalStep' % cfg'.freq \in Nat
    BY <1>2, <2>2, DivMod
  <2> QED BY <1>2, <2>1, <2>3 DEF SavedOnTime
<1> QED BY <1>1, <1>2, <1>3, <1>4, NothingFits DEF IInv, CoreInv

LEMMA NextKeeps ==
  ASSUME IInv, [Next]_vars
  PROVE  IInv'
<1>1. CASE UNCHANGED vars
  <2>1. /\ cfg' = cfg /\ nets' = nets /\ globalStep' = globalStep /\ disk' = disk
        /\ stats' = stats /\ fed' = fed /\ raised' = raised /\ last' = last
    BY <1>1 DEF vars
  <2>2. Stride' = Stride /\ SavedStep' = SavedStep /\ Minibatches' = Minibatches
    BY <2>1 DEF Stride, Batch, PPOSteps, Minibatches, SavedStep
  <2>3. SavedOnTime' /\ StatsInv' /\ BaselineIsTrained'
    BY <2>1, <2>2 DEF IInv, CoreInv, SavedOnTime, StatsInv, NormalizerFollowsTraining,
                      BaselineIsTrained
  <2> QED BY <2>1, <2>3 DEF IInv, CoreInv
<1>2. CASE Next
  BY <1>2, TrainersKeep, PQNKeeps, RecurrentPPOKeeps, MultiMAPPOKeeps, DreamerKeeps, IdleKeeps,
     RestartKeeps
     DEF Next, PPOFromCheckpoint, A2CFromCheckpoint, VPGFromCheckpoint, TRPOFromCheckpoint,
         PQNFromCheckpoint, MAPPOFromCheckpoint, DreamerFromCheckpoint
<1> QED BY <1>1, <1>2

LEMMA InitKeeps ==
  ASSUME Init
  PROVE  IInv
<1>1. ConfigOK(cfg)
  BY ConfigsAssumption, ConfigsOK DEF Init
<1>2. IsNets(nets, cfg) /\ Fitted(nets, cfg)
  <2>1. nets = [x \in Networks(cfg.algo) \cup {"rollouts"} |-> 0]
    BY DEF Init, Untrained
  <2>2. BaselineOf(cfg.algo) \in Networks(cfg.algo)
        /\ (cfg.algo = "MAPPO" => "head" \in Networks(cfg.algo))
    BY <1>1 DEF ConfigOK, Algorithms, BaselineOf, Networks, PPONetworks, A2CNetworks,
                VPGNetworks, TRPONetworks, PQNNetworks, RecurrentPPONetworks, MAPPONetworks,
                DreamerNetworks
  <2> QED BY <2>1, <2>2 DEF IsNets, Fitted
<1>3. StatsInv
  <2>1. stats = [count |-> 0, training |-> TRUE] /\ fed = 0 /\ raised = FALSE
    BY DEF Init
  <2>2. stats.count = fed /\ stats.training
    BY <2>1
  <2>3. stats \in [count : Nat, training : BOOLEAN] /\ fed \in Nat /\ raised \in BOOLEAN
    BY <2>1
  <2> QED BY <2>2, <2>3 DEF StatsInv, NormalizerFollowsTraining
<1>4. globalStep = 0 /\ disk = NoCheckpoint /\ last = Nothing
  BY DEF Init
<1>5. SavedOnTime
  <2>1. cfg.freq \in Nat \ {0}
    BY <1>1 DEF ConfigOK, Positive
  <2>2. 0 % cfg.freq = 0
    BY <2>1, ZeroMod
  <2> QED BY <1>4, <2>2 DEF SavedOnTime, SavedStep
<1>6. BaselineIsTrained
  BY <1>4 DEF BaselineIsTrained, Nothing
<1> QED BY <1>1, <1>2, <1>3, <1>4, <1>5, <1>6 DEF IInv, CoreInv

-----------------------------------------------------------------------------
(* Statistics, baselines and checkpoints: the theorems.                    *)

LEMMA IInvHolds == Spec => []IInv
BY InitKeeps, NextKeeps, PTL DEF Spec

(* VecNormalize has counted the observations of the rollouts and none of   *)
(* an evaluation (ppo.py, vec_normalize.py), however long the training is, *)
(* however often it is stopped, and whatever the callbacks do.             *)
THEOREM NormalizerHolds == Spec => []NormalizerFollowsTraining
<1>1. IInv => NormalizerFollowsTraining
  BY DEF IInv, CoreInv, StatsInv
<1> QED BY <1>1, IInvHolds, PTL

(* The network the advantages are measured against was fitted to each      *)
(* rollout the policy has learned from, over calls, stops and restarts.    *)
THEOREM BaselineHolds == Spec => []BaselineIsTrained
<1>1. IInv => BaselineIsTrained
  BY DEF IInv
<1> QED BY <1>1, IInvHolds, PTL

(* CheckpointCallback is never save_freq steps late when the counter can   *)
(* hit the multiples, for every shape of rollout and every frequency.      *)
THEOREM CheckpointsHold == Spec => []CheckpointsNeverOverdue
<1>1. ASSUME IInv PROVE CheckpointsNeverOverdue
  <2>1. /\ cfg.freq \in Nat \ {0} /\ globalStep \in Nat /\ SavedOnTime
        /\ SavedStep \in Int
    BY <1>1 DEF IInv, CoreInv, ConfigOK, Positive, FileOK, SavedStep
  <2>2. globalStep % cfg.freq \in Nat /\ globalStep % cfg.freq < cfg.freq
    BY <2>1, DivMod
  <2>3. globalStep - SavedStep <= globalStep % cfg.freq => globalStep - SavedStep < cfg.freq
    BY <2>1, <2>2
  <2> QED BY <2>1, <2>3 DEF SavedOnTime, CheckpointsNeverOverdue, SavedStep
<1> QED BY <1>1, IInvHolds, PTL

-----------------------------------------------------------------------------
(* Paths and returns: recursive functions satisfy their equations.         *)

ObsType == [env : Positive, ep : Nat, t : Nat]

LEMMA ObsMoves ==
  ASSUME NEW o \in ObsType
  PROVE  /\ Successor(o) \in ObsType /\ Successor(o).t = o.t + 1
         /\ Successor(o).env = o.env /\ Successor(o).ep = o.ep
         /\ Restarted(o) \in ObsType /\ Restarted(o).t = 0 /\ Restarted(o).ep = o.ep + 1
         /\ \A end : After(o, end) \in ObsType
<1>1. PICK e, p, s : /\ e \in Positive /\ p \in Nat /\ s \in Nat
                     /\ o = [env |-> e, ep |-> p, t |-> s]
  BY DEF ObsType
<1>2. Successor(o) = [env |-> e, ep |-> p, t |-> s + 1]
  <2>1. Successor(o) = [o EXCEPT !.t = s + 1]
    BY <1>1 DEF Successor
  <2> QED BY <1>1, <2>1
<1>3. Restarted(o) = [env |-> e, ep |-> p + 1, t |-> 0]
  <2>1. Restarted(o) = [o EXCEPT !.ep = p + 1, !.t = 0]
    BY <1>1 DEF Restarted
  <2> QED BY <1>1, <2>1
<1> QED BY <1>1, <1>2, <1>3 DEF ObsType, After

(* A path follows the ends of its steps.                                   *)
LEMMA PathFollows ==
  ASSUME ConfigOK(cfg), NEW first, NEW ends, NEW i \in Envs
  PROVE  /\ Path(first, ends)[i][1] = first[i]
         /\ \A k \in Times :
              Path(first, ends)[i][k + 1] = After(Path(first, ends)[i][k], ends[i][k])
<1> DEFINE Body(r, k) == IF k = 1 THEN first[i] ELSE After(r[k - 1], ends[i][k - 1])
           Q(r) == r = [k \in 1..cfg.steps + 1 |-> Body(r, k)]
           P(r, n) == r = [k \in 1..n + 1 |-> Body(r, k)]
           S == {n \in Nat : \E r : P(r, n)}
<1>1. cfg.steps \in Nat
  BY DEF ConfigOK, Positive
<1>2. 0 \in S
  <2>1. P([k \in 1..1 |-> first[i]], 0)
    OBVIOUS
  <2> QED BY <2>1
<1>3. ASSUME NEW n \in Nat, n \in S PROVE n + 1 \in S
  <2>1. PICK r : P(r, n)
    BY <1>3
  <2> DEFINE more == [k \in 1..n + 2 |-> Body(r, k)]
  <2>2. ASSUME NEW k \in 1..n + 2 PROVE Body(r, k) = Body(more, k)
    <3>1. CASE k = 1
      BY <3>1
    <3>2. CASE k # 1
      <4>1. k - 1 \in 1..n + 1
        BY <3>2
      <4>2. r[k - 1] = Body(r, k - 1)
        BY <2>1, <4>1
      <4>3. more[k - 1] = Body(r, k - 1)
        <5> HIDE DEF Body
        <5> QED BY <4>1
      <4> QED BY <3>2, <4>2, <4>3
    <3> QED BY <3>1, <3>2
  <2>3. P(more, n + 1)
    <3> HIDE DEF Body
    <3>1. more = [k \in 1..n + 2 |-> Body(more, k)]
      BY <2>2
    <3> HIDE DEF more
    <3> QED BY <3>1
  <2> HIDE DEF more, Body
  <2> QED BY <2>3
<1>4. \E r : Q(r)
  <2>1. cfg.steps \in S
    BY <1>1, <1>2, <1>3, SetInduction
  <2> QED BY <2>1
<1>5. Q(CHOOSE r : Q(r))
  BY <1>4, Zenon
<1>6. Path(first, ends)[i] = CHOOSE r : Q(r)
  BY DEF Path
<1>7. PICK at : at = Path(first, ends)[i]
  OBVIOUS
<1>8. at = [k \in 1..cfg.steps + 1 |-> Body(at, k)]
  BY <1>5, <1>6, <1>7, Zenon
<1>9. at[1] = first[i]
  BY <1>1, <1>8
<1>10. ASSUME NEW k \in Times PROVE at[k + 1] = After(at[k], ends[i][k])
  <2>1. k + 1 \in 1..cfg.steps + 1 /\ k + 1 # 1 /\ (k + 1) - 1 = k
    BY <1>1 DEF Times
  <2> QED BY <1>8, <2>1
<1> QED BY <1>7, <1>9, <1>10

LEMMA PathTyped ==
  ASSUME ConfigOK(cfg), NEW first, NEW ends, NEW i \in Envs, first[i] \in ObsType
  PROVE  \A k \in 1..cfg.steps + 1 : Path(first, ends)[i][k] \in ObsType
<1> DEFINE at == Path(first, ends)[i]
           S == {n \in Nat : n + 1 \in 1..cfg.steps + 1 => at[n + 1] \in ObsType}
<1>1. cfg.steps \in Nat
  BY DEF ConfigOK, Positive
<1>2. 0 \in S
  BY PathFollows
<1>3. ASSUME NEW n \in Nat, n \in S PROVE n + 1 \in S
  <2>1. CASE n + 1 \in Times
    <3>1. at[n + 1] \in ObsType
      BY <1>1, <1>3, <2>1 DEF Times
    <3>2. at[(n + 1) + 1] = After(at[n + 1], ends[i][n + 1])
      BY <2>1, PathFollows
    <3>3. at[(n + 1) + 1] \in ObsType
      <4>1. PICK o, end, x : o = at[n + 1] /\ end = ends[i][n + 1] /\ x = at[(n + 1) + 1]
        OBVIOUS
      <4> HIDE DEF at
      <4>2. o \in ObsType /\ x = After(o, end)
        BY <3>1, <3>2, <4>1
      <4>3. x \in ObsType
        BY <4>2, ObsMoves
      <4> QED BY <4>1, <4>3
    <3> HIDE DEF at
    <3> QED BY <3>3
  <2>2. CASE n + 1 \notin Times
    BY <1>1, <2>2 DEF Times
  <2> QED BY <2>1, <2>2
<1> HIDE DEF S
<1>4. Nat \subseteq S
  BY <1>2, <1>3, SetInduction
<1>5. ASSUME NEW k \in 1..cfg.steps + 1 PROVE at[k] \in ObsType
  <2>1. k - 1 \in S /\ (k - 1) + 1 = k
    BY <1>1, <1>4
  <2> QED BY <2>1 DEF S
<1> QED BY <1>5

(* What flows into the return of step k, given the later returns.          *)
GAEStep(path, done, bonus, r, k) ==
  {Reward(path[k])} \cup bonus[k]
    \cup (IF done[k] THEN {} ELSE {Value(path[k + 1])})
    \cup (IF done[k] \/ k = cfg.steps THEN {} ELSE r[k + 1])

LEMMA GAEEquation ==
  ASSUME ConfigOK(cfg), NEW path, NEW done, NEW bonus
  PROVE  \A k \in Times :
           ComputeGAE(path, done, bonus)[k]
             = GAEStep(path, done, bonus, ComputeGAE(path, done, bonus), k)
<1> DEFINE Q(r) == r = [k \in Times |-> GAEStep(path, done, bonus, r, k)]
           P(r, n) == r = [k \in cfg.steps - n .. cfg.steps |-> GAEStep(path, done, bonus, r, k)]
           S == {n \in Nat : \E r : P(r, n)}
<1>1. cfg.steps \in Nat /\ cfg.steps # 0
  BY DEF ConfigOK, Positive
<1>2. 0 \in S
  <2> DEFINE r == [k \in cfg.steps .. cfg.steps |-> GAEStep(path, done, bonus, <<>>, k)]
  <2>1. ASSUME NEW k \in cfg.steps .. cfg.steps
        PROVE  GAEStep(path, done, bonus, <<>>, k) = GAEStep(path, done, bonus, r, k)
    BY <1>1 DEF GAEStep
  <2>2. P(r, 0)
    <3>1. r = [k \in cfg.steps .. cfg.steps |-> GAEStep(path, done, bonus, r, k)]
      BY <2>1
    <3>2. cfg.steps - 0 = cfg.steps
      BY <1>1
    <3> HIDE DEF r
    <3> QED BY <3>1, <3>2
  <2> HIDE DEF r
  <2> QED BY <2>2
<1>3. ASSUME NEW n \in Nat, n \in S PROVE n + 1 \in S
  <2>1. PICK r : P(r, n)
    BY <1>3
  <2> DEFINE more == [k \in cfg.steps - (n + 1) .. cfg.steps |-> GAEStep(path, done, bonus, r, k)]
  <2>2. ASSUME NEW k \in cfg.steps - (n + 1) .. cfg.steps
        PROVE  GAEStep(path, done, bonus, r, k) = GAEStep(path, done, bonus, more, k)
    <3>1. CASE k = cfg.steps
      BY <3>1 DEF GAEStep
    <3>2. CASE k # cfg.steps
      <4>1. k + 1 \in cfg.steps - n .. cfg.steps /\ k + 1 \in cfg.steps - (n + 1) .. cfg.steps
        BY <1>1, <3>2
      <4>2. r[k + 1] = GAEStep(path, done, bonus, r, k + 1)
        BY <2>1, <4>1
      <4>3. more[k + 1] = GAEStep(path, done, bonus, r, k + 1)
        BY <4>1
      <4>4. r[k + 1] = more[k + 1]
        BY <4>2, <4>3
      <4> HIDE DEF more
      <4> QED BY <4>4 DEF GAEStep
    <3> QED BY <3>1, <3>2
  <2>3. P(more, n + 1)
    <3>1. more = [k \in cfg.steps - (n + 1) .. cfg.steps |-> GAEStep(path, done, bonus, more, k)]
      BY <2>2
    <3> HIDE DEF more
    <3> QED BY <3>1
  <2> HIDE DEF more
  <2> QED BY <2>3
<1>4. \E r : Q(r)
  <2>1. cfg.steps - 1 \in S
    <3>1. cfg.steps - 1 \in Nat
      BY <1>1
    <3> HIDE DEF S
    <3> QED BY <1>2, <1>3, <3>1, SetInduction
  <2>2. PICK r : P(r, cfg.steps - 1)
    BY <2>1
  <2>3. cfg.steps - (cfg.steps - 1) = 1
    BY <1>1
  <2> QED BY <2>2, <2>3 DEF Times
<1>5. Q(CHOOSE r : Q(r))
  BY <1>4, Zenon
<1>6. ComputeGAE(path, done, bonus) = CHOOSE r : Q(r)
  BY DEF ComputeGAE, GAEStep
<1>7. PICK ret : ret = ComputeGAE(path, done, bonus)
  OBVIOUS
<1>8. ret = [k \in Times |-> GAEStep(path, done, bonus, ret, k)]
  BY <1>5, <1>6, <1>7, Zenon
<1>9. \A k \in Times : ret[k] = GAEStep(path, done, bonus, ret, k)
  BY <1>8
<1> QED BY <1>7, <1>9

(* What ComputeGAE is given: a path, how each of its steps ended, the done  *)
(* flags and what is added to a step's reward.                             *)
Given(path, end, done, bonus) ==
  /\ \A k \in Times : path[k + 1] = After(path[k], end[k])
  /\ \A k \in Times : end[k] = "run" => ~done[k] /\ bonus[k] = {}
  /\ \A k \in Times : end[k] = "term" => done[k] /\ bonus[k] = {}
  /\ \A k \in Times : \A x \in bonus[k] : x.at = Successor(path[k])

(* From k on, the episode or the rollout ends at e.                        *)
EndsAt(end, k, e) ==
  /\ e \in k..cfg.steps
  /\ e = cfg.steps \/ end[e] # "run"
  /\ \A j \in k..e - 1 : end[j] = "run"

Credited(path, end, bonus, k, e, ret) ==
  /\ \A j \in k..e : Reward(path[j]) \in ret
  /\ \A x \in ret : BeforeTermination(path, end, k, x.at)
  /\ end[e] = "run" => Value(Successor(path[e])) \in ret
  /\ bonus[e] \subseteq ret

(* The return of step k of one environment, up to the end e of its episode *)
(* or of the rollout.                                                      *)
LEMMA OneReturn ==
  ASSUME ConfigOK(cfg), NEW path, NEW end, NEW done, NEW bonus,
         Given(path, end, done, bonus),
         NEW k \in Times, NEW e, EndsAt(end, k, e)
  PROVE  Credited(path, end, bonus, k, e, ComputeGAE(path, done, bonus)[k])
<1> USE DEF Given, EndsAt
<1>1. cfg.steps \in Nat /\ k \in Nat /\ e \in Nat /\ e \in Times /\ k <= e
  BY DEF ConfigOK, Positive, Times
<1>2. PICK ret : ret = ComputeGAE(path, done, bonus)
  OBVIOUS
<1>3. \A j \in Times : ret[j] = GAEStep(path, done, bonus, ret, j)
  BY <1>2, GAEEquation
<1>4. ASSUME NEW j \in k..e - 1
      PROVE  /\ j \in Times /\ j + 1 \in Times /\ end[j] = "run"
             /\ ret[j] = {Reward(path[j]), Value(path[j + 1])} \cup ret[j + 1]
  <2>1. j \in Times /\ j + 1 \in Times /\ j # cfg.steps /\ end[j] = "run"
    BY <1>1 DEF Times
  <2>2. ~done[j] /\ bonus[j] = {}
    BY <2>1
  <2> QED BY <1>3, <2>1, <2>2 DEF GAEStep
<1>5. \A j \in k..e : ret[j] \subseteq ret[k]
  <2> DEFINE S == {n \in Nat : k + n \in k..e => ret[k + n] \subseteq ret[k]}
  <2>1. 0 \in S
    <3>1. k + 0 = k
      BY <1>1
    <3> QED BY <3>1
  <2>2. ASSUME NEW n \in Nat, n \in S PROVE n + 1 \in S
    <3>1. SUFFICES ASSUME k + (n + 1) \in k..e PROVE ret[k + (n + 1)] \subseteq ret[k]
      OBVIOUS
    <3>2. k + n \in k..e - 1 /\ k + n \in k..e /\ (k + n) + 1 = k + (n + 1)
      BY <1>1, <3>1
    <3>3. ret[(k + n) + 1] \subseteq ret[k + n]
      BY <1>4, <3>2
    <3> QED BY <2>2, <3>2, <3>3
  <2> HIDE DEF S
  <2>3. Nat \subseteq S
    BY <2>1, <2>2, SetInduction
  <2>4. ASSUME NEW j \in k..e PROVE ret[j] \subseteq ret[k]
    <3>1. j - k \in S /\ k + (j - k) = j
      BY <1>1, <2>3
    <3> QED BY <3>1 DEF S
  <2> QED BY <2>4
<1>6. ASSUME NEW j \in k..e PROVE Reward(path[j]) \in ret[k]
  <2>1. j \in Times
    BY <1>1 DEF Times
  <2>2. Reward(path[j]) \in ret[j]
    BY <1>3, <2>1 DEF GAEStep
  <2> QED BY <1>5, <2>2
<1>7. \A x \in ret[k] : BeforeTermination(path, end, k, x.at)
  <2> DEFINE S == {n \in Nat : cfg.steps - n \in Times =>
                     \A x \in ret[cfg.steps - n] :
                       BeforeTermination(path, end, cfg.steps - n, x.at)}
  <2>1. ASSUME NEW j \in Times, NEW x \in ret[j],
               x \in {Reward(path[j])} \cup bonus[j] \cup (IF done[j] THEN {} ELSE {Value(path[j + 1])})
        PROVE  BeforeTermination(path, end, j, x.at)
    <3>1. j \in j..cfg.steps /\ \A m \in j..j - 1 : end[m] # "term"
      BY <1>1 DEF Times
    <3>2. x \in bonus[j] => x.at = Successor(path[j]) /\ end[j] # "term"
      OBVIOUS
    <3>3. \/ x.at = path[j]
          \/ end[j] # "term" /\ x.at \in {path[j + 1], Successor(path[j])}
      <4>1. CASE x \in bonus[j]
        BY <3>2, <4>1
      <4>2. CASE x = Reward(path[j])
        BY <4>2 DEF Reward
      <4>3. CASE ~done[j] /\ x = Value(path[j + 1])
        BY <4>3 DEF Value
      <4> QED BY <2>1, <4>1, <4>2, <4>3
    <3> QED BY <3>1, <3>3 DEF BeforeTermination
  <2>2. 0 \in S
    <3>1. SUFFICES ASSUME cfg.steps \in Times, NEW x \in ret[cfg.steps]
                   PROVE  BeforeTermination(path, end, cfg.steps, x.at)
      BY <1>1
    <3>2. ret[cfg.steps] = {Reward(path[cfg.steps])} \cup bonus[cfg.steps]
                             \cup (IF done[cfg.steps] THEN {} ELSE {Value(path[cfg.steps + 1])})
      BY <1>3, <3>1 DEF GAEStep
    <3> QED BY <2>1, <3>1, <3>2
  <2>3. ASSUME NEW n \in Nat, n \in S PROVE n + 1 \in S
    <3>1. SUFFICES ASSUME cfg.steps - (n + 1) \in Times, NEW x \in ret[cfg.steps - (n + 1)]
                   PROVE  BeforeTermination(path, end, cfg.steps - (n + 1), x.at)
      OBVIOUS
    <3>2. PICK j : j = cfg.steps - (n + 1)
      OBVIOUS
    <3>3. j \in Times /\ j + 1 \in Times /\ j + 1 = cfg.steps - n /\ j # cfg.steps
      BY <1>1, <3>1, <3>2 DEF Times
    <3>4. ret[j] = {Reward(path[j])} \cup bonus[j] \cup (IF done[j] THEN {} ELSE {Value(path[j + 1])})
                     \cup (IF done[j] THEN {} ELSE ret[j + 1])
      BY <1>3, <3>3 DEF GAEStep
    <3>5. CASE x \in {Reward(path[j])} \cup bonus[j] \cup (IF done[j] THEN {} ELSE {Value(path[j + 1])})
      BY <2>1, <3>1, <3>2, <3>3, <3>5
    <3>6. CASE ~done[j] /\ x \in ret[j + 1]
      <4>1. BeforeTermination(path, end, j + 1, x.at) /\ end[j] # "term"
        BY <2>3, <3>3, <3>6
      <4>2. PICK p \in j + 1..cfg.steps :
              /\ \A m \in j + 1..p - 1 : end[m] # "term"
              /\ \/ x.at = path[p]
                 \/ end[p] # "term" /\ x.at \in {path[p + 1], Successor(path[p])}
        BY <4>1 DEF BeforeTermination
      <4>3. p \in j..cfg.steps /\ \A m \in j..p - 1 : m = j \/ m \in j + 1..p - 1
        BY <1>1, <3>3 DEF Times
      <4>4. \A m \in j..p - 1 : end[m] # "term"
        BY <4>1, <4>2, <4>3
      <4> QED BY <3>2, <4>2, <4>3, <4>4 DEF BeforeTermination
    <3> QED BY <3>1, <3>2, <3>4, <3>5, <3>6
  <2> HIDE DEF S
  <2>4. Nat \subseteq S
    BY <2>2, <2>3, SetInduction
  <2>5. cfg.steps - k \in S /\ cfg.steps - (cfg.steps - k) = k /\ k \in Times
    BY <1>1, <2>4 DEF Times
  <2> QED BY <2>5 DEF S
<1>8. ASSUME end[e] = "run" PROVE Value(Successor(path[e])) \in ret[k]
  <2>1. path[e + 1] = Successor(path[e]) /\ ~done[e]
    BY <1>1, <1>8 DEF After
  <2>2. Value(path[e + 1]) \in ret[e]
    BY <1>1, <1>3, <2>1 DEF GAEStep
  <2> QED BY <1>1, <1>5, <2>1, <2>2
<1>9. bonus[e] \subseteq ret[k]
  <2>1. bonus[e] \subseteq ret[e]
    BY <1>1, <1>3 DEF GAEStep
  <2> QED BY <1>1, <1>5, <2>1
<1> QED BY <1>2, <1>6, <1>7, <1>8, <1>9 DEF Credited

-----------------------------------------------------------------------------
(* What the latest iteration collected.                                    *)

Follows(path, ends) ==
  /\ ends \in [Envs -> [Times -> Ends]]
  /\ \A i \in Envs, k \in Times : path[i][k + 1] = After(path[i][k], ends[i][k])

LastInv == last.on => Follows(last.path, last.ends)

LEMMA HorizonIs ==
  ASSUME ConfigOK(cfg), LastInv, last.on, NEW i \in Envs, NEW k \in Times
  PROVE  /\ Horizon(i, k) \in k..cfg.steps
         /\ Horizon(i, k) = cfg.steps \/ last.ends[i][Horizon(i, k)] # "run"
         /\ \A j \in k..Horizon(i, k) - 1 : last.ends[i][j] = "run"
<1>1. cfg.steps \in Nat /\ k \in Nat /\ k <= cfg.steps
  BY DEF ConfigOK, Positive, Times
<1> DEFINE T == {e \in k..cfg.steps : e = cfg.steps \/ last.ends[i][e] # "run"}
           Q(e) == /\ e = cfg.steps \/ last.ends[i][e] # "run"
                   /\ \A j \in k..e - 1 : last.ends[i][j] = "run"
<1>2. PICK e \in T : \A y \in T : e <= y
  <2>1. T \subseteq Nat /\ cfg.steps \in T
    BY <1>1
  <2> HIDE DEF T
  <2> QED BY <2>1, LeastElement
<1>3. ASSUME NEW j \in k..e - 1 PROVE last.ends[i][j] = "run"
  <2>1. j \in k..cfg.steps /\ ~(e <= j)
    BY <1>1, <1>2
  <2> QED BY <1>2, <2>1
<1>4. e \in k..cfg.steps /\ Q(e)
  BY <1>2, <1>3
<1>5. Horizon(i, k) = CHOOSE x \in k..cfg.steps : Q(x)
  BY DEF Horizon
<1> HIDE DEF Q
<1>6. Horizon(i, k) \in k..cfg.steps /\ Q(Horizon(i, k))
  BY <1>4, <1>5, Zenon
<1> QED BY <1>6 DEF Q

LEMMA ReturnsReach ==
  ASSUME ConfigOK(cfg), LastInv
  PROVE  ReturnsReachTheirHorizon
<1> SUFFICES ASSUME last.on, cfg.algo # "Dreamer", NEW i \in Envs, NEW k \in Times
             PROVE  LET e == Horizon(i, k)
                        end == last.ends[i][e]
                        path == last.path[i]
                        ret == Returns(last.path, last.ends)[i][k]
                    IN  /\ \A j \in k..e : Reward(path[j]) \in ret
                        /\ \A x \in ret : BeforeTermination(path, last.ends[i], k, x.at)
                        /\ \/ end = "term"
                           \/ Value(Successor(path[e])) \in ret
                           \/ end = "trunc" /\ cfg.algo \in {"RecurrentPPO", "MultiMAPPO"}
  BY DEF ReturnsReachTheirHorizon
<1>1. PICK e : e = Horizon(i, k)
  OBVIOUS
<1>2. /\ e \in k..cfg.steps /\ e \in Times
      /\ e = cfg.steps \/ last.ends[i][e] # "run"
      /\ \A j \in k..e - 1 : last.ends[i][j] = "run"
  <2>1. cfg.steps \in Nat /\ k \in Nat
    BY DEF ConfigOK, Positive, Times
  <2>2. e \in k..cfg.steps => e \in Times
    BY <2>1 DEF Times
  <2> QED BY <1>1, <2>2, HorizonIs
<1>3. PICK path, end : path = last.path[i] /\ end = last.ends[i]
  OBVIOUS
<1>4. /\ \A j \in Times : path[j + 1] = After(path[j], end[j])
      /\ \A j \in Times : end[j] \in Ends
  BY <1>3 DEF LastInv, Follows
<1> DEFINE terminated == [j \in Times |-> end[j] = "term"]
           over == [j \in Times |-> end[j] # "run"]
           bonus == [j \in Times |-> Bonus(path, end, j)]
           none == [j \in Times |-> {}]
<1>5. CASE cfg.algo \notin {"RecurrentPPO", "MultiMAPPO"}
  <2>1. Returns(last.path, last.ends)[i] = ComputeGAE(path, terminated, bonus)
    BY <1>3, <1>5 DEF Returns, PQNTargets, CollectorReturns
  <2>2. /\ \A j \in Times : end[j] = "run" => ~terminated[j] /\ bonus[j] = {}
        /\ \A j \in Times : end[j] = "term" => terminated[j] /\ bonus[j] = {}
        /\ \A j \in Times : \A x \in bonus[j] : x.at = Successor(path[j])
        /\ end[e] = "trunc" => Value(Successor(path[e])) \in bonus[e]
    <3>1. \A j \in Times : bonus[j] = IF end[j] = "trunc" THEN {Value(Successor(path[j]))} ELSE {}
      BY DEF Bonus
    <3>2. \A o : Value(o).at = o
      BY DEF Value
    <3> HIDE DEF bonus
    <3> QED BY <1>2, <3>1, <3>2
  <2> HIDE DEF terminated, bonus
  <2> DEFINE ret == ComputeGAE(path, terminated, bonus)[k]
  <2>3. /\ \A j \in k..e : Reward(path[j]) \in ret
        /\ \A x \in ret : BeforeTermination(path, end, k, x.at)
        /\ end[e] = "run" => Value(Successor(path[e])) \in ret
        /\ bonus[e] \subseteq ret
    <3>1. Given(path, end, terminated, bonus)
      BY <1>4, <2>2, Zenon DEF Given
    <3>2. EndsAt(end, k, e)
      BY <1>2, <1>3, Zenon DEF EndsAt
    <3>3. Credited(path, end, bonus, k, e, ret)
      BY <3>1, <3>2, OneReturn
    <3> QED BY <3>3, Zenon DEF Credited
  <2>4. end[e] \in {"term", "run", "trunc"}
    BY <1>2, <1>4 DEF Ends
  <2> QED BY <1>1, <1>3, <2>1, <2>2, <2>3, <2>4
<1>6. CASE cfg.algo = "RecurrentPPO"
  <2>1. Returns(last.path, last.ends)[i] = ComputeGAE(path, terminated, none)
    BY <1>3, <1>6 DEF Returns, RecurrentReturns
  <2>2. /\ \A j \in Times : end[j] = "run" => ~terminated[j] /\ none[j] = {}
        /\ \A j \in Times : end[j] = "term" => terminated[j] /\ none[j] = {}
        /\ \A j \in Times : \A x \in none[j] : x.at = Successor(path[j])
    OBVIOUS
  <2> HIDE DEF terminated, none
  <2> DEFINE ret == ComputeGAE(path, terminated, none)[k]
  <2>3. /\ \A j \in k..e : Reward(path[j]) \in ret
        /\ \A x \in ret : BeforeTermination(path, end, k, x.at)
        /\ end[e] = "run" => Value(Successor(path[e])) \in ret
    <3>1. Given(path, end, terminated, none)
      BY <1>4, <2>2, Zenon DEF Given
    <3>2. EndsAt(end, k, e)
      BY <1>2, <1>3, Zenon DEF EndsAt
    <3>3. Credited(path, end, none, k, e, ret)
      BY <3>1, <3>2, OneReturn
    <3> QED BY <3>3, Zenon DEF Credited
  <2>4. end[e] \in {"term", "run", "trunc"}
    BY <1>2, <1>4 DEF Ends
  <2> QED BY <1>1, <1>3, <1>6, <2>1, <2>3, <2>4
<1>7. CASE cfg.algo = "MultiMAPPO"
  <2>1. Returns(last.path, last.ends)[i] = ComputeGAE(path, over, none)
    BY <1>3, <1>7 DEF Returns, MultiAgentReturns
  <2>2. /\ \A j \in Times : end[j] = "run" => ~over[j] /\ none[j] = {}
        /\ \A j \in Times : end[j] = "term" => over[j] /\ none[j] = {}
        /\ \A j \in Times : \A x \in none[j] : x.at = Successor(path[j])
    OBVIOUS
  <2> HIDE DEF over, none
  <2> DEFINE ret == ComputeGAE(path, over, none)[k]
  <2>3. /\ \A j \in k..e : Reward(path[j]) \in ret
        /\ \A x \in ret : BeforeTermination(path, end, k, x.at)
        /\ end[e] = "run" => Value(Successor(path[e])) \in ret
    <3>1. Given(path, end, over, none)
      BY <1>4, <2>2, Zenon DEF Given
    <3>2. EndsAt(end, k, e)
      BY <1>2, <1>3, Zenon DEF EndsAt
    <3>3. Credited(path, end, none, k, e, ret)
      BY <3>1, <3>2, OneReturn
    <3> QED BY <3>3, Zenon DEF Credited
  <2>4. end[e] \in {"term", "run", "trunc"}
    BY <1>2, <1>4 DEF Ends
  <2> QED BY <1>1, <1>3, <1>7, <2>1, <2>3, <2>4
<1> QED BY <1>5, <1>6, <1>7

-----------------------------------------------------------------------------
(* Recurrent state.                                                        *)

(* The observations of o's episode from time n up to o.                    *)
RunTo(o, n) == {[o EXCEPT !.t = s] : s \in n..o.t}

LEMMA RunFacts ==
  ASSUME NEW o \in ObsType
  PROVE  /\ RunTo(o, o.t) = {o}
         /\ \A n \in 0..o.t : RunTo(Successor(o), n) = RunTo(o, n) \cup {Successor(o)}
         /\ \A n \in 0..o.t :
              /\ \A x \in RunTo(o, n) : SameEpisode(x, o) /\ x.t <= o.t
              /\ \A x \in RunTo(o, n) : \A t \in x.t..o.t : [x EXCEPT !.t = t] \in RunTo(o, n)
              /\ [o EXCEPT !.t = n] \in RunTo(o, n)
         /\ RunTo(o, 0) = {[o EXCEPT !.t = s] : s \in 0..o.t - 1} \cup {o}
         /\ RunTo(o, 0) = {[Successor(o) EXCEPT !.t = s] : s \in 0..Successor(o).t - 1}
<1>1. PICK e, p, t : /\ e \in Positive /\ p \in Nat /\ t \in Nat
                     /\ o = [env |-> e, ep |-> p, t |-> t]
  BY DEF ObsType
<1> DEFINE At(s) == [env |-> e, ep |-> p, t |-> s]
<1>2. \A s : [o EXCEPT !.t = s] = At(s)
  BY <1>1
<1>3. Successor(o) = At(t + 1)
  BY <1>1, <1>2 DEF Successor
<1>4. \A s, u : [At(u) EXCEPT !.t = s] = At(s)
  OBVIOUS
<1>5. \A s : At(s).t = s /\ At(s).env = e /\ At(s).ep = p
  OBVIOUS
<1>6. o = At(t)
  BY <1>1
<1> HIDE DEF At
<1>7. \A u \in Nat : \A n : RunTo(At(u), n) = {At(s) : s \in n..u}
  BY <1>4, <1>5 DEF RunTo
<1>8. RunTo(o, o.t) = {o}
  <2>1. RunTo(o, o.t) = {At(s) : s \in t..t}
    BY <1>1, <1>5, <1>6, <1>7
  <2> QED BY <1>1, <1>6, <2>1
<1>9. \A n \in 0..o.t : RunTo(Successor(o), n) = RunTo(o, n) \cup {Successor(o)}
  <2>1. ASSUME NEW n \in 0..t PROVE n..t + 1 = (n..t) \cup {t + 1}
    BY <1>1
  <2>2. ASSUME NEW n \in 0..t
        PROVE  {At(s) : s \in n..t + 1} = {At(s) : s \in n..t} \cup {At(t + 1)}
    BY <2>1
  <2>3. t + 1 \in Nat
    BY <1>1
  <2> QED BY <1>1, <1>3, <1>5, <1>6, <1>7, <2>2, <2>3
<1>10. ASSUME NEW n \in 0..o.t
       PROVE  /\ \A x \in RunTo(o, n) : SameEpisode(x, o) /\ x.t <= o.t
              /\ \A x \in RunTo(o, n) : \A u \in x.t..o.t : [x EXCEPT !.t = u] \in RunTo(o, n)
              /\ [o EXCEPT !.t = n] \in RunTo(o, n)
  <2>1. o.t = t /\ RunTo(o, n) = {At(s) : s \in n..t}
    BY <1>1, <1>5, <1>6, <1>7
  <2>2. ASSUME NEW s \in n..t
        PROVE  /\ SameEpisode(At(s), o) /\ At(s).t <= t
               /\ \A u \in At(s).t..t : [At(s) EXCEPT !.t = u] \in RunTo(o, n)
    <3>1. SameEpisode(At(s), o) /\ At(s).t <= t
      BY <1>1, <1>5, <1>6, <2>1 DEF SameEpisode
    <3>2. ASSUME NEW u \in s..t PROVE At(u) \in RunTo(o, n)
      BY <1>1, <2>1
    <3> QED BY <1>4, <1>5, <3>1, <3>2
  <2>3. At(n) \in RunTo(o, n)
    BY <1>1, <2>1
  <2> QED BY <1>2, <2>1, <2>2, <2>3
<1>11. /\ RunTo(o, 0) = {[o EXCEPT !.t = s] : s \in 0..o.t - 1} \cup {o}
       /\ RunTo(o, 0) = {[Successor(o) EXCEPT !.t = s] : s \in 0..Successor(o).t - 1}
  <2>1. RunTo(o, 0) = {At(s) : s \in 0..t}
    BY <1>1, <1>6, <1>7
  <2>2. {[o EXCEPT !.t = s] : s \in 0..o.t - 1} = {At(s) : s \in 0..t - 1}
    BY <1>2, <1>5, <1>6
  <2>3. 0..t = (0..t - 1) \cup {t}
    BY <1>1
  <2>4. {At(s) : s \in 0..t} = {At(s) : s \in 0..t - 1} \cup {At(t)}
    BY <2>3
  <2>5. Successor(o).t - 1 = t
    BY <1>1, <1>3, <1>5
  <2>6. {[Successor(o) EXCEPT !.t = s] : s \in 0..Successor(o).t - 1} = {At(s) : s \in 0..t}
    BY <1>3, <1>4, <2>5
  <2> QED BY <1>6, <2>1, <2>2, <2>4, <2>6
<1> QED BY <1>8, <1>9, <1>10, <1>11

LEMMA ActedWithEquation ==
  ASSUME ConfigOK(cfg), NEW path, NEW ends, NEW i \in Envs
  PROVE  \A k \in Times :
           ActedWith(path, ends)[i][k]
             = {path[i][k]} \cup (IF Begins(i, k, ends) THEN {}
                                  ELSE IF k = 1 THEN memory[i]
                                  ELSE ActedWith(path, ends)[i][k - 1])
<1> DEFINE Body(r, k) == {path[i][k]} \cup (IF Begins(i, k, ends) THEN {}
                                            ELSE IF k = 1 THEN memory[i] ELSE r[k - 1])
           Q(r) == r = [k \in Times |-> Body(r, k)]
           P(r, n) == r = [k \in 1..n + 1 |-> Body(r, k)]
           S == {n \in Nat : \E r : P(r, n)}
<1>1. cfg.steps \in Nat /\ cfg.steps # 0
  BY DEF ConfigOK, Positive
<1>2. 0 \in S
  <2> DEFINE r == [k \in 1..1 |-> Body(<<>>, k)]
  <2>1. ASSUME NEW k \in 1..1 PROVE Body(<<>>, k) = Body(r, k)
    <3>1. k = 1
      OBVIOUS
    <3> HIDE DEF r
    <3> QED BY <3>1
  <2>2. r = [k \in 1..1 |-> Body(r, k)]
    <3> HIDE DEF Body
    <3> QED BY <2>1
  <2>3. P(r, 0)
    <3>1. 0 + 1 = 1
      OBVIOUS
    <3> HIDE DEF r, Body
    <3> QED BY <2>2, <3>1
  <2> HIDE DEF r, Body
  <2> QED BY <2>3
<1>3. ASSUME NEW n \in Nat, n \in S PROVE n + 1 \in S
  <2>1. PICK r : P(r, n)
    BY <1>3
  <2> DEFINE more == [k \in 1..n + 2 |-> Body(r, k)]
  <2>2. ASSUME NEW k \in 1..n + 2 PROVE Body(r, k) = Body(more, k)
    <3>1. CASE k = 1
      <4> HIDE DEF more
      <4> QED BY <3>1
    <3>2. CASE k # 1
      <4>1. k - 1 \in 1..n + 1 /\ k - 1 \in 1..n + 2
        BY <3>2
      <4>2. r[k - 1] = Body(r, k - 1)
        BY <2>1, <4>1
      <4>3. more[k - 1] = Body(r, k - 1)
        <5> HIDE DEF Body
        <5> QED BY <4>1
      <4>4. r[k - 1] = more[k - 1]
        BY <4>2, <4>3
      <4> HIDE DEF more
      <4> QED BY <3>2, <4>4
    <3> QED BY <3>1, <3>2
  <2>3. P(more, n + 1)
    <3>1. more = [k \in 1..n + 2 |-> Body(more, k)]
      <4> HIDE DEF Body
      <4> QED BY <2>2
    <3> HIDE DEF more, Body
    <3> QED BY <3>1
  <2> HIDE DEF more, Body
  <2> QED BY <2>3
<1>4. \E r : Q(r)
  <2>1. cfg.steps - 1 \in S
    <3>1. cfg.steps - 1 \in Nat
      BY <1>1
    <3> HIDE DEF S
    <3> QED BY <1>2, <1>3, <3>1, SetInduction
  <2>2. PICK r : P(r, cfg.steps - 1)
    BY <2>1
  <2>3. (cfg.steps - 1) + 1 = cfg.steps
    BY <1>1
  <2> HIDE DEF Body
  <2> QED BY <2>2, <2>3 DEF Times
<1>5. Q(CHOOSE r : Q(r))
  BY <1>4, Zenon
<1>6. ActedWith(path, ends)[i] = CHOOSE r : Q(r)
  BY DEF ActedWith
<1>7. PICK seen : seen = ActedWith(path, ends)[i]
  OBVIOUS
<1>8. seen = [k \in Times |-> Body(seen, k)]
  BY <1>5, <1>6, <1>7, Zenon
<1>9. \A k \in Times : seen[k] = Body(seen, k)
  <2> HIDE DEF Body
  <2> QED BY <1>8
<1> QED BY <1>7, <1>9

(* What RecurrentPPO carries from one rollout into the next.               *)
Carried(i) ==
  IF starts[i] THEN obs[i].t = 0
  ELSE obs[i].ep # 0 /\ memory[i] = {[obs[i] EXCEPT !.t = s] : s \in 0..obs[i].t - 1}

MemInv ==
  /\ obs \in [Envs -> ObsType]
  /\ starts \in [Envs -> BOOLEAN]
  /\ cfg.algo = "RecurrentPPO" => \A i \in Envs : Carried(i)

(* The first observation of a rollout fits the state carried into it.      *)
FitsMemory(i, o) ==
  IF starts[i] THEN o.t = 0 ELSE memory[i] = {[o EXCEPT !.t = s] : s \in 0..o.t - 1}

LEMMA ContinuedFits ==
  ASSUME MemInv, cfg.algo = "RecurrentPPO", NEW i \in Envs
  PROVE  /\ Continued[i] \in ObsType /\ Continued[i].ep # 0
         /\ FitsMemory(i, Continued[i])
<1>1. obs[i] \in ObsType /\ Carried(i)
  BY DEF MemInv
<1>2. PICK o : o = obs[i]
  OBVIOUS
<1>3. Continued[i] = IF o.ep = 0 THEN Restarted(o) ELSE o
  BY <1>2 DEF Continued
<1>4. /\ Restarted(o) \in ObsType /\ Restarted(o).t = 0 /\ Restarted(o).ep = o.ep + 1
      /\ o.ep \in Nat
  BY <1>1, <1>2, ObsMoves DEF ObsType
<1>5. CASE o.ep = 0
  <2>1. starts[i]
    BY <1>1, <1>2, <1>5 DEF Carried
  <2> QED BY <1>3, <1>4, <1>5, <2>1 DEF FitsMemory
<1>6. CASE o.ep # 0
  BY <1>1, <1>2, <1>3, <1>6 DEF Carried, FitsMemory
<1> QED BY <1>5, <1>6

(* Every step is taken with the whole episode so far.                      *)
LEMMA ActedWithIs ==
  ASSUME ConfigOK(cfg), NEW path, NEW ends, NEW i \in Envs,
         \A k \in 1..cfg.steps + 1 : path[i][k] \in ObsType,
         \A k \in Times : path[i][k + 1] = After(path[i][k], ends[i][k]),
         FitsMemory(i, path[i][1])
  PROVE  \A k \in Times : /\ ActedWith(path, ends)[i][k] = RunTo(path[i][k], 0)
                          /\ Begins(i, k, ends) => path[i][k].t = 0
<1> DEFINE seen == ActedWith(path, ends)[i]
           Good(k) == seen[k] = RunTo(path[i][k], 0) /\ (Begins(i, k, ends) => path[i][k].t = 0)
           S == {n \in Nat : n + 1 \in Times => Good(n + 1)}
<1>1. cfg.steps \in Nat /\ cfg.steps # 0
  BY DEF ConfigOK, Positive
<1>2. \A k \in Times : seen[k] = {path[i][k]} \cup (IF Begins(i, k, ends) THEN {}
                                                   ELSE IF k = 1 THEN memory[i] ELSE seen[k - 1])
  BY ActedWithEquation
<1>3. \A k \in Times : path[i][k] \in ObsType
  BY <1>1 DEF Times
<1> HIDE DEF seen
<1>4. 0 \in S
  <2>1. 1 \in Times /\ 0 + 1 = 1
    BY <1>1 DEF Times
  <2>2. PICK o : o = path[i][1]
    OBVIOUS
  <2>3. o \in ObsType /\ FitsMemory(i, o)
    BY <1>3, <2>1, <2>2
  <2>4. seen[1] = {o} \cup (IF Begins(i, 1, ends) THEN {} ELSE memory[i])
    BY <1>2, <2>1, <2>2
  <2>5. Begins(i, 1, ends) = starts[i]
    BY DEF Begins
  <2>6. CASE starts[i]
    <3>1. o.t = 0 /\ seen[1] = {o}
      BY <2>3, <2>4, <2>5, <2>6 DEF FitsMemory
    <3>2. RunTo(o, 0) = {o}
      BY <2>3, <3>1, RunFacts
    <3> QED BY <2>1, <2>2, <3>1, <3>2
  <2>7. CASE ~starts[i]
    <3>1. seen[1] = {[o EXCEPT !.t = s] : s \in 0..o.t - 1} \cup {o} /\ ~Begins(i, 1, ends)
      BY <2>3, <2>4, <2>5, <2>7 DEF FitsMemory
    <3>2. seen[1] = RunTo(o, 0)
      BY <2>3, <3>1, RunFacts
    <3> QED BY <2>1, <2>2, <3>1, <3>2
  <2> QED BY <2>6, <2>7
<1>5. ASSUME NEW n \in Nat, n \in S PROVE n + 1 \in S
  <2> SUFFICES ASSUME (n + 1) + 1 \in Times PROVE Good((n + 1) + 1)
    OBVIOUS
  <2>1. PICK k : k = n + 1
    OBVIOUS
  <2>2. k \in Times /\ k + 1 \in Times /\ k \in Nat /\ k + 1 # 1 /\ (k + 1) - 1 = k /\ Good(k)
    BY <1>1, <1>5, <2>1 DEF Times
  <2>3. PICK o, p : o = path[i][k] /\ p = path[i][k + 1]
    OBVIOUS
  <2>4. o \in ObsType /\ p = After(o, ends[i][k]) /\ seen[k] = RunTo(o, 0)
    BY <1>3, <2>2, <2>3
  <2>5. Begins(i, k + 1, ends) = (ends[i][k] # "run")
    BY <2>2 DEF Begins
  <2>6. seen[k + 1] = {p} \cup (IF ends[i][k] # "run" THEN {} ELSE seen[k])
    BY <1>2, <2>2, <2>3, <2>5
  <2>7. CASE ends[i][k] # "run"
    <3>1. p = Restarted(o) /\ p \in ObsType /\ p.t = 0 /\ seen[k + 1] = {p}
      BY <2>4, <2>6, <2>7, ObsMoves DEF After
    <3>2. RunTo(p, 0) = {p}
      BY <3>1, RunFacts
    <3> QED BY <2>1, <2>3, <3>1, <3>2
  <2>8. CASE ends[i][k] = "run"
    <3>1. p = Successor(o) /\ seen[k + 1] = RunTo(o, 0) \cup {p}
      BY <2>4, <2>6, <2>8 DEF After
    <3>2. 0 \in 0..o.t
      BY <2>4 DEF ObsType
    <3>3. RunTo(p, 0) = RunTo(o, 0) \cup {p}
      BY <2>4, <3>1, <3>2, RunFacts
    <3> QED BY <2>1, <2>3, <2>5, <2>8, <3>1, <3>3
  <2> QED BY <2>7, <2>8
<1> HIDE DEF S
<1>6. Nat \subseteq S
  BY <1>4, <1>5, SetInduction
<1>7. ASSUME NEW k \in Times PROVE Good(k)
  <2>1. k - 1 \in S /\ (k - 1) + 1 = k
    BY <1>1, <1>6 DEF Times
  <2> QED BY <2>1 DEF S
<1> QED BY <1>7 DEF seen

Continues(path, ends, i) ==
  /\ \A k \in 1..cfg.steps + 1 : path[i][k] \in ObsType
  /\ \A k \in Times : path[i][k + 1] = After(path[i][k], ends[i][k])
  /\ FitsMemory(i, path[i][1])

(* ... and that is what the next rollout continues from.                   *)
LeftWith(o, end, acted) ==
  IF end # "run" THEN o.t = 0
  ELSE o.ep # 0 /\ acted = {[o EXCEPT !.t = s] : s \in 0..o.t - 1}

LEMMA CarriedOn ==
  ASSUME ConfigOK(cfg), NEW path, NEW ends, NEW i \in Envs, Continues(path, ends, i),
         path[i][1].ep # 0
  PROVE  LeftWith(path[i][cfg.steps + 1], ends[i][cfg.steps],
                  ActedWith(path, ends)[i][cfg.steps])
<1>0. /\ \A j \in 1..cfg.steps + 1 : path[i][j] \in ObsType
      /\ \A j \in Times : path[i][j + 1] = After(path[i][j], ends[i][j])
      /\ FitsMemory(i, path[i][1])
  BY DEF Continues
<1> USE <1>0
<1>1. cfg.steps \in Nat /\ cfg.steps # 0 /\ cfg.steps \in Times
  BY DEF ConfigOK, Positive, Times
<1>2. \A k \in 1..cfg.steps + 1 : path[i][k].ep # 0
  <2> DEFINE S == {n \in Nat : n + 1 \in 1..cfg.steps + 1 => path[i][n + 1].ep # 0}
  <2>1. 0 \in S
    OBVIOUS
  <2>2. ASSUME NEW n \in Nat, n \in S PROVE n + 1 \in S
    <3> SUFFICES ASSUME (n + 1) + 1 \in 1..cfg.steps + 1
                 PROVE  path[i][(n + 1) + 1].ep # 0
      OBVIOUS
    <3>1. n + 1 \in Times /\ n + 1 \in 1..cfg.steps + 1
      BY <1>1 DEF Times
    <3>2. PICK o : o = path[i][n + 1]
      OBVIOUS
    <3>3. o \in ObsType /\ o.ep # 0 /\ path[i][(n + 1) + 1] = After(o, ends[i][n + 1])
      BY <2>2, <3>1, <3>2
    <3>4. Successor(o).ep # 0 /\ Restarted(o).ep # 0
      BY <3>3, ObsMoves DEF ObsType
    <3> QED BY <3>3, <3>4 DEF After
  <2> HIDE DEF S
  <2>3. Nat \subseteq S
    BY <2>1, <2>2, SetInduction
  <2>4. ASSUME NEW k \in 1..cfg.steps + 1 PROVE path[i][k].ep # 0
    <3>1. k - 1 \in S /\ (k - 1) + 1 = k
      BY <1>1, <2>3
    <3> QED BY <3>1 DEF S
  <2> QED BY <2>4
<1>3. PICK o, p : o = path[i][cfg.steps] /\ p = path[i][cfg.steps + 1]
  OBVIOUS
<1>4. o \in ObsType /\ p = After(o, ends[i][cfg.steps]) /\ p.ep # 0
  BY <1>1, <1>2, <1>3
<1>5. ActedWith(path, ends)[i][cfg.steps] = RunTo(o, 0)
  BY <1>1, <1>3, ActedWithIs
<1>6. CASE ends[i][cfg.steps] # "run"
  <2>1. p.t = 0
    BY <1>4, <1>6, ObsMoves DEF After
  <2> QED BY <1>3, <1>6, <2>1 DEF LeftWith
<1>7. CASE ends[i][cfg.steps] = "run"
  <2>1. p = Successor(o)
    BY <1>4, <1>7 DEF After
  <2>2. RunTo(o, 0) = {[p EXCEPT !.t = s] : s \in 0..p.t - 1}
    BY <1>4, <2>1, RunFacts
  <2> QED BY <1>3, <1>4, <1>5, <1>7, <2>2 DEF LeftWith
<1> QED BY <1>6, <1>7

(* The loss evaluates a step of a segment with the same state.             *)
SeenIn(path, ends, i, s, k) ==
  InitialState(i, s[1], ends) \cup {path[i][j] : j \in s[1]..k}

LEMMA SegmentSeen ==
  ASSUME ConfigOK(cfg), NEW path, NEW ends, NEW i \in Envs, Continues(path, ends, i),
         NEW s \in Segments(i, ends), NEW k \in s[1]..s[2]
  PROVE  k \in Times /\ SeenIn(path, ends, i, s, k) = RunTo(path[i][k], 0)
<1>0. /\ \A j \in 1..cfg.steps + 1 : path[i][j] \in ObsType
      /\ \A j \in Times : path[i][j + 1] = After(path[i][j], ends[i][j])
      /\ FitsMemory(i, path[i][1])
  BY DEF Continues
<1> USE <1>0
<1>1. cfg.steps \in Nat /\ cfg.steps # 0
  BY DEF ConfigOK, Positive
<1>2. PICK a, b : a = s[1] /\ b = s[2]
  OBVIOUS
<1>3. /\ a \in Times /\ b \in Times /\ a <= b
      /\ a = 1 \/ Begins(i, a, ends)
      /\ \A j \in a + 1..b : ~Begins(i, j, ends)
  BY <1>2 DEF Segments
<1>4. a \in Nat /\ b \in Nat /\ b <= cfg.steps /\ 1 <= a
  BY <1>1, <1>3 DEF Times
<1>5. PICK init : init = InitialState(i, a, ends)
  OBVIOUS
<1>6. \A j \in Times : path[i][j] \in ObsType
  BY <1>1 DEF Times
<1> DEFINE Upto(j) == {path[i][l] : l \in a..j}
           S == {n \in Nat : a + n \in a..b => init \cup Upto(a + n) = RunTo(path[i][a + n], 0)}
<1>7. 0 \in S
  <2>1. a + 0 = a /\ Upto(a) = {path[i][a]}
    <3>1. a..a = {a}
      BY <1>4
    <3> QED BY <1>4, <3>1
  <2>2. PICK o : o = path[i][a]
    OBVIOUS
  <2>3. o \in ObsType
    BY <1>3, <1>6, <2>2
  <2>4. init \cup {o} = RunTo(o, 0)
    <3>1. CASE Begins(i, a, ends)
      <4>1. o.t = 0 /\ init = {}
        BY <1>3, <1>5, <2>2, <3>1, ActedWithIs DEF InitialState
      <4>2. RunTo(o, 0) = {o}
        BY <2>3, <4>1, RunFacts
      <4> QED BY <4>1, <4>2
    <3>2. CASE ~Begins(i, a, ends)
      <4>1. a = 1 /\ init = memory[i] /\ ~starts[i]
        BY <1>3, <1>5, <3>2 DEF InitialState, Begins
      <4>2. memory[i] = {[o EXCEPT !.t = x] : x \in 0..o.t - 1}
        BY <2>2, <4>1 DEF FitsMemory
      <4> QED BY <2>3, <4>1, <4>2, RunFacts
    <3> QED BY <3>1, <3>2
  <2> HIDE DEF Upto
  <2> QED BY <2>1, <2>2, <2>4
<1>8. ASSUME NEW n \in Nat, n \in S PROVE n + 1 \in S
  <2> SUFFICES ASSUME a + (n + 1) \in a..b
               PROVE  init \cup Upto(a + (n + 1)) = RunTo(path[i][a + (n + 1)], 0)
    OBVIOUS
  <2>1. PICK j : j = a + n
    OBVIOUS
  <2>2. /\ j \in Times /\ j + 1 \in Times /\ j + 1 = a + (n + 1) /\ j \in a..b
        /\ j + 1 \in a + 1..b /\ j + 1 # 1 /\ (j + 1) - 1 = j
    BY <1>1, <1>4, <2>1 DEF Times
  <2>3. init \cup Upto(j) = RunTo(path[i][j], 0)
    BY <1>8, <2>1, <2>2
  <2>4. Upto(j + 1) = Upto(j) \cup {path[i][j + 1]}
    <3>1. a..j + 1 = (a..j) \cup {j + 1}
      BY <1>4, <2>2
    <3> QED BY <3>1
  <2>5. ends[i][j] = "run"
    <3>1. ~Begins(i, j + 1, ends)
      BY <1>3, <2>2
    <3> QED BY <2>2, <3>1 DEF Begins
  <2>6. PICK o, p : o = path[i][j] /\ p = path[i][j + 1]
    OBVIOUS
  <2>7. o \in ObsType /\ p = Successor(o)
    BY <1>6, <2>2, <2>5, <2>6 DEF After
  <2>8. RunTo(p, 0) = RunTo(o, 0) \cup {p}
    <3>1. 0 \in 0..o.t
      BY <2>7 DEF ObsType
    <3> QED BY <2>7, <3>1, RunFacts
  <2> HIDE DEF Upto
  <2> QED BY <2>2, <2>3, <2>4, <2>6, <2>8
<1> HIDE DEF S
<1>9. Nat \subseteq S
  BY <1>7, <1>8, SetInduction
<1>10. k \in a..b /\ k - a \in S /\ a + (k - a) = k
  BY <1>2, <1>4, <1>9
<1>11. init \cup Upto(k) = RunTo(path[i][k], 0)
  BY <1>10 DEF S
<1>12. k \in Times
  BY <1>1, <1>4, <1>10 DEF Times
<1> QED BY <1>2, <1>5, <1>11, <1>12 DEF SeenIn

(* What a sample must satisfy, and does when its states are runs.          *)
Whole(r) ==
  /\ \A o \in r.seen : SameEpisode(o, r.at) /\ o.t <= r.at.t
  /\ \A o \in r.seen : \A t \in o.t..r.at.t : [o EXCEPT !.t = t] \in r.seen
  /\ cfg.algo = "RecurrentPPO" => r.seen = r.acted /\ [r.at EXCEPT !.t = 0] \in r.seen

LEMMA RecurrentReplayWhole ==
  ASSUME ConfigOK(cfg), NEW path, NEW ends,
         \A i \in Envs : Continues(path, ends, i)
  PROVE  \A r \in RecurrentReplay(path, ends) : Whole(r)
<1> SUFFICES ASSUME NEW r \in RecurrentReplay(path, ends) PROVE Whole(r)
  OBVIOUS
<1> DEFINE Sample(i, s, k) ==
      [at |-> path[i][k], acted |-> ActedWith(path, ends)[i][k],
       seen |-> SeenIn(path, ends, i, s, k)]
<1>0. PICK i \in Envs : \E s \in Segments(i, ends) : \E k \in s[1]..s[2] : r = Sample(i, s, k)
  <2> DEFINE Of(i, s) == {Sample(i, s, k) : k \in s[1]..s[2]}
             In(i) == {Of(i, s) : s \in Segments(i, ends)}
             All == {UNION In(i) : i \in Envs}
  <2>1. r \in UNION All
    BY DEF RecurrentReplay, SeenIn
  <2>2. ASSUME NEW i, NEW s, r \in Of(i, s) PROVE \E k \in s[1]..s[2] : r = Sample(i, s, k)
    BY <2>2
  <2> HIDE DEF Of, Sample
  <2>3. PICK x : x \in All /\ r \in x
    BY <2>1
  <2>4. PICK i \in Envs : r \in UNION In(i)
    BY <2>3
  <2>5. PICK y : y \in In(i) /\ r \in y
    BY <2>4
  <2>6. PICK s \in Segments(i, ends) : r \in Of(i, s)
    BY <2>5
  <2> QED BY <2>2, <2>6
<1>9. PICK s \in Segments(i, ends) : \E k \in s[1]..s[2] : r = Sample(i, s, k)
  BY <1>0
<1>1. PICK k \in s[1]..s[2] : r = Sample(i, s, k)
  BY <1>9
<1>2. /\ \A j \in 1..cfg.steps + 1 : path[i][j] \in ObsType
      /\ \A j \in Times : path[i][j + 1] = After(path[i][j], ends[i][j])
      /\ FitsMemory(i, path[i][1])
  BY DEF Continues
<1>3. k \in Times /\ SeenIn(path, ends, i, s, k) = RunTo(path[i][k], 0)
  BY SegmentSeen
<1>4. ActedWith(path, ends)[i][k] = RunTo(path[i][k], 0)
  BY <1>2, <1>3, ActedWithIs
<1>5. PICK o : o = path[i][k]
  OBVIOUS
<1>6. o \in ObsType
  BY <1>2, <1>3, <1>5 DEF ConfigOK, Positive, Times
<1>7. r.at = o /\ r.acted = RunTo(o, 0) /\ r.seen = RunTo(o, 0)
  BY <1>1, <1>3, <1>4, <1>5
<1>8. 0 \in 0..o.t
  BY <1>6 DEF ObsType
<1> QED BY <1>6, <1>7, <1>8, RunFacts DEF Whole

-----------------------------------------------------------------------------
(* Dreamer's stored sequences and their windows.                           *)

Moments == [at : ObsType, done : BOOLEAN]
Linked(q) == \A j \in 1..Len(q) - 1 : q[j].done = FALSE => q[j + 1].at = Successor(q[j].at)
EpisodeSequences == {q \in Seq(Moments) : Linked(q)}
SeqInv == seqs \in Seq(EpisodeSequences)

LEMMA AppendedKeeps ==
  ASSUME SeqInv, cfg.capacity \in Nat, NEW more \in Seq(EpisodeSequences)
  PROVE  Appended(more) \in Seq(EpisodeSequences)
<1>1. PICK all : all = seqs \o more
  OBVIOUS
<1>2. all \in Seq(EpisodeSequences) /\ Len(all) \in Nat
  BY <1>1, ConcatProperties, LenProperties DEF SeqInv
<1>3. CASE Len(all) > cfg.capacity
  <2>1. PICK m, n : m = Len(all) - cfg.capacity + 1 /\ n = Len(all)
    OBVIOUS
  <2>2. m \in Int /\ n \in Int
    BY <1>2, <2>1
  <2>3. \A j \in m..n : all[j] \in EpisodeSequences
    <3>1. ASSUME NEW j \in m..n PROVE j \in 1..Len(all)
      BY <1>2, <1>3, <2>1
    <3> QED BY <1>2, <3>1, ElementOfSeq
  <2>4. SubSeq(all, m, n) \in Seq(EpisodeSequences)
    BY <2>2, <2>3, SubSeqProperties
  <2> QED BY <1>1, <1>3, <2>1, <2>4 DEF Appended
<1>4. CASE ~(Len(all) > cfg.capacity)
  BY <1>1, <1>2, <1>4 DEF Appended
<1> QED BY <1>3, <1>4

(* The recurrent state the world model's loss gives each step of a window. *)
SeenOf(window) ==
  LET seen[k \in 1..cfg.seqLen] ==
          {window[k].at} \cup (IF k = 1 \/ window[k - 1].done THEN {} ELSE seen[k - 1])
  IN  seen

LEMMA SeenEquation ==
  ASSUME ConfigOK(cfg), NEW window
  PROVE  \A k \in 1..cfg.seqLen :
           SeenOf(window)[k]
             = {window[k].at} \cup (IF k = 1 \/ window[k - 1].done THEN {}
                                    ELSE SeenOf(window)[k - 1])
<1> DEFINE Body(r, k) == {window[k].at} \cup (IF k = 1 \/ window[k - 1].done THEN {}
                                              ELSE r[k - 1])
           Q(r) == r = [k \in 1..cfg.seqLen |-> Body(r, k)]
           P(r, n) == r = [k \in 1..n + 1 |-> Body(r, k)]
           S == {n \in Nat : \E r : P(r, n)}
<1>1. cfg.seqLen \in Nat /\ cfg.seqLen # 0
  BY DEF ConfigOK, Positive
<1>2. 0 \in S
  <2> DEFINE r == [k \in 1..1 |-> Body(<<>>, k)]
  <2>1. ASSUME NEW k \in 1..1 PROVE Body(<<>>, k) = Body(r, k)
    <3>1. k = 1
      OBVIOUS
    <3> HIDE DEF r
    <3> QED BY <3>1
  <2>2. r = [k \in 1..1 |-> Body(r, k)]
    <3> HIDE DEF Body
    <3> QED BY <2>1
  <2>3. P(r, 0)
    <3>1. 0 + 1 = 1
      OBVIOUS
    <3> HIDE DEF r, Body
    <3> QED BY <2>2, <3>1
  <2> HIDE DEF r, Body
  <2> QED BY <2>3
<1>3. ASSUME NEW n \in Nat, n \in S PROVE n + 1 \in S
  <2>1. PICK r : P(r, n)
    BY <1>3
  <2> DEFINE more == [k \in 1..n + 2 |-> Body(r, k)]
  <2>2. ASSUME NEW k \in 1..n + 2 PROVE Body(r, k) = Body(more, k)
    <3>1. CASE k = 1
      <4> HIDE DEF more
      <4> QED BY <3>1
    <3>2. CASE k # 1
      <4>1. k - 1 \in 1..n + 1 /\ k - 1 \in 1..n + 2
        BY <3>2
      <4>2. r[k - 1] = Body(r, k - 1)
        BY <2>1, <4>1
      <4>3. more[k - 1] = Body(r, k - 1)
        <5> HIDE DEF Body
        <5> QED BY <4>1
      <4>4. r[k - 1] = more[k - 1]
        BY <4>2, <4>3
      <4> HIDE DEF more
      <4> QED BY <3>2, <4>4
    <3> QED BY <3>1, <3>2
  <2>3. P(more, n + 1)
    <3>1. more = [k \in 1..n + 2 |-> Body(more, k)]
      <4> HIDE DEF Body
      <4> QED BY <2>2
    <3> HIDE DEF more, Body
    <3> QED BY <3>1
  <2> HIDE DEF more, Body
  <2> QED BY <2>3
<1>4. \E r : Q(r)
  <2>1. cfg.seqLen - 1 \in S
    <3>1. cfg.seqLen - 1 \in Nat
      BY <1>1
    <3> HIDE DEF S
    <3> QED BY <1>2, <1>3, <3>1, SetInduction
  <2>2. PICK r : P(r, cfg.seqLen - 1)
    BY <2>1
  <2>3. (cfg.seqLen - 1) + 1 = cfg.seqLen
    BY <1>1
  <2> HIDE DEF Body
  <2> QED BY <2>2, <2>3
<1>5. Q(CHOOSE r : Q(r))
  BY <1>4, Zenon
<1>6. SeenOf(window) = CHOOSE r : Q(r)
  BY DEF SeenOf
<1>7. PICK seen : seen = SeenOf(window)
  OBVIOUS
<1>8. seen = [k \in 1..cfg.seqLen |-> Body(seen, k)]
  BY <1>5, <1>6, <1>7, Zenon
<1>9. \A k \in 1..cfg.seqLen : seen[k] = Body(seen, k)
  <2> HIDE DEF Body
  <2> QED BY <1>8
<1> QED BY <1>7, <1>9

(* What a window holds: steps of the sequence, then padding.               *)
LEMMA WindowIs ==
  ASSUME ConfigOK(cfg), NEW q \in EpisodeSequences, NEW first \in Positive,
         NEW k \in 1..cfg.seqLen, Window(q, first)[k].at # Padding
  PROVE  /\ Window(q, first)[k].at \in ObsType
         /\ Window(q, first)[k] \in Moments
         /\ k # 1 /\ Window(q, first)[k - 1].done = FALSE
              => /\ Window(q, first)[k - 1].at \in ObsType
                 /\ Window(q, first)[k].at = Successor(Window(q, first)[k - 1].at)
<1>1. cfg.seqLen \in Nat /\ first \in Nat /\ first # 0
  BY DEF ConfigOK, Positive
<1>2. q \in Seq(Moments) /\ Linked(q) /\ Len(q) \in Nat
  BY LenProperties DEF EpisodeSequences
<1>3. PICK n : n = first + k - 1
  OBVIOUS
<1>4. n \in Nat /\ n # 0 /\ k \in Nat
  BY <1>1, <1>3
<1>5. n <= Len(q) /\ Window(q, first)[k] = q[n]
  BY <1>3, <1>4 DEF Window
<1>6. q[n] \in Moments
  BY <1>2, <1>4, <1>5, ElementOfSeq
<1>7. q[n].at \in ObsType
  BY <1>6 DEF Moments
<1>8. ASSUME k # 1, Window(q, first)[k - 1].done = FALSE
      PROVE  /\ Window(q, first)[k - 1].at \in ObsType
             /\ q[n].at = Successor(Window(q, first)[k - 1].at)
  <2>1. k - 1 \in 1..cfg.seqLen /\ first + (k - 1) - 1 = n - 1 /\ n - 1 \in 1..Len(q) - 1
        /\ n - 1 \in 1..Len(q) /\ (n - 1) + 1 = n
    BY <1>1, <1>2, <1>3, <1>4, <1>5, <1>8
  <2>2. Window(q, first)[k - 1] = q[n - 1]
    <3>1. n - 1 <= Len(q)
      BY <1>2, <2>1
    <3> QED BY <2>1, <3>1 DEF Window
  <2>3. q[n - 1] \in Moments
    BY <1>2, <2>1, ElementOfSeq
  <2>4. q[n].at = Successor(q[n - 1].at)
    BY <1>2, <1>8, <2>1, <2>2 DEF Linked
  <2> QED BY <2>2, <2>3, <2>4 DEF Moments
<1> QED BY <1>5, <1>6, <1>7, <1>8

LEMMA WindowMoments ==
  ASSUME ConfigOK(cfg), NEW q \in EpisodeSequences, NEW first \in Positive, NEW k \in 1..cfg.seqLen
  PROVE  Window(q, first)[k].done \in BOOLEAN
<1>1. PICK n : n = first + k - 1
  OBVIOUS
<1>2. q \in Seq(Moments) /\ Len(q) \in Nat /\ n \in Nat /\ n # 0
  BY <1>1, LenProperties DEF EpisodeSequences, ConfigOK, Positive
<1>3. CASE n <= Len(q)
  <2>1. Window(q, first)[k] = q[n]
    BY <1>1, <1>3 DEF Window
  <2>2. q[n] \in Moments
    BY <1>2, <1>3, ElementOfSeq
  <2> QED BY <2>1, <2>2 DEF Moments
<1>4. CASE ~(n <= Len(q))
  BY <1>1, <1>4 DEF Window
<1> QED BY <1>3, <1>4

(* The state is a gapless run of the step's episode.                       *)
LEMMA WindowSeen ==
  ASSUME ConfigOK(cfg), NEW q \in EpisodeSequences, NEW first \in Positive
  PROVE  \A k \in 1..cfg.seqLen :
           LET o == Window(q, first)[k].at
           IN  o # Padding => \E n \in 0..o.t : SeenOf(Window(q, first))[k] = RunTo(o, n)
<1>1. PICK w : w = Window(q, first)
  OBVIOUS
<1>2. PICK seen : seen = SeenOf(w)
  OBVIOUS
<1>3. cfg.seqLen \in Nat /\ cfg.seqLen # 0
  BY DEF ConfigOK, Positive
<1>4. \A k \in 1..cfg.seqLen :
        seen[k] = {w[k].at} \cup (IF k = 1 \/ w[k - 1].done THEN {} ELSE seen[k - 1])
  BY <1>2, SeenEquation
<1>5. \A k \in 1..cfg.seqLen : w[k].at # Padding =>
        /\ w[k].at \in ObsType
        /\ k # 1 /\ w[k - 1].done = FALSE
             => w[k - 1].at \in ObsType /\ w[k].at = Successor(w[k - 1].at)
  BY <1>1, WindowIs
<1>6. Padding \notin ObsType
  BY DEF Padding, ObsType, Positive
<1> DEFINE Run(k) == w[k].at # Padding => \E n \in 0..w[k].at.t : seen[k] = RunTo(w[k].at, n)
           S == {n \in Nat : n + 1 \in 1..cfg.seqLen => Run(n + 1)}
<1>7. ASSUME NEW k \in 1..cfg.seqLen, NEW o, o = w[k].at, o # Padding, seen[k] = {o} PROVE Run(k)
  <2>1. o \in ObsType
    BY <1>5, <1>7
  <2>2. o.t \in 0..o.t /\ RunTo(o, o.t) = {o}
    BY <2>1, RunFacts DEF ObsType
  <2> QED BY <1>7, <2>2
<1>8. 0 \in S
  <2> SUFFICES ASSUME w[1].at # Padding PROVE Run(1)
    OBVIOUS
  <2>1. 1 \in 1..cfg.seqLen
    BY <1>3
  <2>2. seen[1] = {w[1].at}
    BY <1>4, <2>1
  <2> HIDE DEF Run
  <2> QED BY <1>7, <2>1, <2>2
<1>9. ASSUME NEW n \in Nat, n \in S PROVE n + 1 \in S
  <2>1. PICK k : k = n + 1
    OBVIOUS
  <2> SUFFICES ASSUME k + 1 \in 1..cfg.seqLen, w[k + 1].at # Padding PROVE Run(k + 1)
    BY <2>1
  <2>2. /\ k \in 1..cfg.seqLen /\ k + 1 # 1 /\ (k + 1) - 1 = k /\ Run(k)
        /\ k + 1 \in 1..cfg.seqLen
    BY <1>3, <1>9, <2>1
  <2>3. PICK o, p : o = w[k].at /\ p = w[k + 1].at
    OBVIOUS
  <2>4. seen[k + 1] = {p} \cup (IF w[k].done THEN {} ELSE seen[k])
    BY <1>4, <2>2, <2>3
  <2>5. CASE w[k].done
    <3>1. seen[k + 1] = {p} /\ p # Padding
      BY <2>3, <2>4, <2>5
    <3> HIDE DEF Run
    <3> QED BY <1>7, <2>2, <2>3, <3>1
  <2>6. CASE w[k].done = FALSE
    <3>1. o \in ObsType /\ p = Successor(o) /\ o # Padding
      BY <1>5, <1>6, <2>2, <2>3, <2>6
    <3>2. PICK m \in 0..o.t : seen[k] = RunTo(o, m)
      BY <2>2, <2>3, <3>1
    <3>3. seen[k + 1] = RunTo(o, m) \cup {p}
      BY <2>4, <2>6, <3>2
    <3>4. seen[k + 1] = RunTo(p, m)
      BY <3>1, <3>3, RunFacts
    <3>5. m \in 0..p.t
      <4>1. p.t = o.t + 1 /\ o.t \in Nat
        BY <3>1, ObsMoves DEF ObsType
      <4> QED BY <4>1
    <3> QED BY <2>3, <3>4, <3>5
  <2>7. w[k].done \/ w[k].done = FALSE
    <3>1. w[k + 1].at # Padding
      OBVIOUS
    <3> QED BY <1>1, <1>3, <2>2, <3>1, WindowMoments
  <2> QED BY <2>5, <2>6, <2>7
<1> HIDE DEF S
<1>10. Nat \subseteq S
  BY <1>8, <1>9, SetInduction
<1>11. ASSUME NEW k \in 1..cfg.seqLen PROVE Run(k)
  <2>1. k - 1 \in S /\ (k - 1) + 1 = k
    BY <1>3, <1>10
  <2> HIDE DEF Run
  <2> QED BY <2>1 DEF S
<1> QED BY <1>1, <1>2, <1>11

LEMMA DreamerReplayWhole ==
  ASSUME ConfigOK(cfg), cfg.algo = "Dreamer", NEW q \in EpisodeSequences, NEW first \in Positive
  PROVE  \A r \in DreamerReplay(Window(q, first)) : Whole(r)
<1> SUFFICES ASSUME NEW r \in DreamerReplay(Window(q, first)) PROVE Whole(r)
  OBVIOUS
<1>1. PICK w : w = Window(q, first)
  OBVIOUS
<1>2. r \in {[at |-> w[k].at, acted |-> {}, seen |-> SeenOf(w)[k]] :
               k \in {k \in 1..cfg.seqLen : w[k].at # Padding}}
  <2>1. DreamerReplay(w) = {[at |-> w[k].at, acted |-> {}, seen |-> SeenOf(w)[k]] :
                              k \in {k \in 1..cfg.seqLen : w[k].at # Padding}}
    BY Zenon DEF DreamerReplay, SeenOf
  <2> QED BY <1>1, <2>1
<1>3. PICK k \in 1..cfg.seqLen : /\ w[k].at # Padding
                                /\ r = [at |-> w[k].at, acted |-> {}, seen |-> SeenOf(w)[k]]
  BY <1>2
<1>4. PICK o : o = w[k].at
  OBVIOUS
<1>5. o \in ObsType
  BY <1>1, <1>3, <1>4, WindowIs
<1>6. PICK n \in 0..o.t : SeenOf(w)[k] = RunTo(o, n)
  BY <1>1, <1>3, <1>4, WindowSeen
<1>7. r.at = o /\ r.seen = RunTo(o, n)
  BY <1>3, <1>4, <1>6
<1>8. /\ \A x \in RunTo(o, n) : SameEpisode(x, o) /\ x.t <= o.t
      /\ \A x \in RunTo(o, n) : \A t \in x.t..o.t : [x EXCEPT !.t = t] \in RunTo(o, n)
  BY <1>5, RunFacts
<1> QED BY <1>7, <1>8 DEF Whole

-----------------------------------------------------------------------------
(* Every step keeps what the returns and the replayed memory rest on.      *)

RInv == MemInv /\ SeqInv /\ LastInv /\ ReplayedMemoryIsTheEpisode

LEMMA PathGood ==
  ASSUME ConfigOK(cfg), NEW first, NEW ends \in [Envs -> [Times -> Ends]],
         \A i \in Envs : first[i] \in ObsType
  PROVE  /\ Follows(Path(first, ends), ends)
         /\ Reached(Path(first, ends)) \in [Envs -> ObsType]
         /\ \A i \in Envs : \A k \in 1..cfg.steps + 1 : Path(first, ends)[i][k] \in ObsType
<1>1. \A i \in Envs : \A k \in 1..cfg.steps + 1 : Path(first, ends)[i][k] \in ObsType
  BY PathTyped
<1>2. Follows(Path(first, ends), ends)
  BY PathFollows DEF Follows
<1>3. cfg.steps + 1 \in 1..cfg.steps + 1
  BY DEF ConfigOK, Positive
<1>4. Reached(Path(first, ends)) \in [Envs -> ObsType]
  BY <1>1, <1>3 DEF Reached
<1> QED BY <1>1, <1>2, <1>4

LEMMA FirstTyped ==
  ASSUME MemInv
  PROVE  \A i \in Envs : Continued[i] \in ObsType /\ AllReset[i] \in ObsType
<1> SUFFICES ASSUME NEW i \in Envs PROVE Continued[i] \in ObsType /\ AllReset[i] \in ObsType
  OBVIOUS
<1>1. PICK o : o = obs[i]
  OBVIOUS
<1>2. o \in ObsType /\ Restarted(o) \in ObsType
  BY <1>1, ObsMoves DEF MemInv
<1> QED BY <1>1, <1>2 DEF Continued, AllReset

LEMMA CollectedKeeps ==
  ASSUME cfg' = cfg, NEW path, NEW ends, NEW replay, Collected(path, ends, replay),
         Follows(path, ends), Reached(path) \in [Envs -> ObsType], \A r \in replay : Whole(r)
  PROVE  LastInv' /\ ReplayedMemoryIsTheEpisode' /\ obs' \in [Envs -> ObsType]
<1>1. last'.path = path /\ last'.ends = ends /\ last'.replay = replay
  BY DEF Collected
<1>2. Follows(last'.path, last'.ends)
  BY <1>1
<1>3. LastInv'
  BY <1>2 DEF LastInv, Follows, Envs, Times
<1>4. ReplayedMemoryIsTheEpisode'
  BY <1>1, Zenon DEF ReplayedMemoryIsTheEpisode, Whole
<1> QED BY <1>3, <1>4 DEF Collected

LEMMA NothingKeeps ==
  ASSUME last' = Nothing
  PROVE  LastInv' /\ ReplayedMemoryIsTheEpisode'
<1>1. last'.on = FALSE
  BY DEF Nothing
<1> QED BY <1>1 DEF LastInv, ReplayedMemoryIsTheEpisode

(* The memory of a trainer that has none.                                  *)
LEMMA NoMemory ==
  ASSUME MemInv, cfg' = cfg, starts' = starts, obs' \in [Envs -> ObsType],
         cfg.algo # "RecurrentPPO"
  PROVE  MemInv'
BY DEF MemInv, Envs

LEMMA CollectThenLearnRemembers ==
  ASSUME ConfigOK(cfg), RInv, NEW learned, NEW step, CollectThenLearn(learned, step),
         cfg.algo # "RecurrentPPO"
  PROVE  RInv'
<1>1. PICK ends \in [Envs -> [Times -> Ends]] :
        /\ Collected(Path(Continued, ends), ends, {})
        /\ cfg' = cfg /\ starts' = starts /\ seqs' = seqs
  BY Zenon DEF CollectThenLearn
<1>2. MemInv
  BY DEF RInv
<1>3. LastInv' /\ ReplayedMemoryIsTheEpisode' /\ obs' \in [Envs -> ObsType]
  BY <1>1, <1>2, FirstTyped, PathGood, CollectedKeeps
<1>4. MemInv'
  BY <1>1, <1>2, <1>3, NoMemory
<1>5. SeqInv'
  BY <1>1 DEF RInv, SeqInv
<1> QED BY <1>3, <1>4, <1>5 DEF RInv

LEMMA PQNRemembers ==
  ASSUME ConfigOK(cfg), RInv, PQNTrain \/ PQNRaises
  PROVE  RInv'
<1>1. MemInv /\ SeqInv
  BY DEF RInv
<1>2. /\ cfg.algo = "PQN" /\ cfg' = cfg /\ starts' = starts /\ seqs' = seqs
  BY DEF PQNTrain, PQNRaises, Running
<1>3. SeqInv'
  BY <1>1, <1>2 DEF SeqInv
<1>4. CASE PQNTrain
  <2>1. PICK ends \in [Envs -> [Times -> Ends]] : Collected(Path(Continued, ends), ends, {})
    BY <1>4, Zenon DEF PQNTrain
  <2>2. LastInv' /\ ReplayedMemoryIsTheEpisode' /\ obs' \in [Envs -> ObsType]
    BY <1>1, <1>2, <2>1, FirstTyped, PathGood, CollectedKeeps
  <2> QED BY <1>1, <1>2, <1>3, <2>2, NoMemory DEF RInv
<1>5. CASE PQNRaises
  <2>1. last' = Nothing
    BY <1>5 DEF PQNRaises
  <2>2. PICK ends \in [Envs -> [Times -> Ends]] : \E k \in Times :
          obs' = [i \in Envs |-> Path(Continued, ends)[i][k + 1]]
    BY <1>5, Zenon DEF PQNRaises
  <2>3. PICK k \in Times : obs' = [i \in Envs |-> Path(Continued, ends)[i][k + 1]]
    BY <2>2
  <2>4. k + 1 \in 1..cfg.steps + 1
    BY DEF Times, ConfigOK, Positive
  <2>5. obs' \in [Envs -> ObsType]
    BY <1>1, <2>3, <2>4, FirstTyped, PathGood
  <2> QED BY <1>1, <1>2, <1>3, <2>1, <2>5, NothingKeeps, NoMemory DEF RInv
<1> QED BY <1>4, <1>5

LEMMA MultiMAPPORemembers ==
  ASSUME ConfigOK(cfg), RInv, MultiMAPPOTrain
  PROVE  RInv'
<1>1. MemInv /\ SeqInv
  BY DEF RInv
<1>2. cfg.algo = "MultiMAPPO" /\ cfg' = cfg /\ starts' = starts /\ seqs' = seqs
  BY DEF MultiMAPPOTrain, Running
<1>3. PICK ends \in [Envs -> [Times -> Ends]] : Collected(Path(AllReset, ends), ends, {})
  BY Zenon DEF MultiMAPPOTrain
<1>4. LastInv' /\ ReplayedMemoryIsTheEpisode' /\ obs' \in [Envs -> ObsType]
  BY <1>1, <1>2, <1>3, FirstTyped, PathGood, CollectedKeeps
<1>5. SeqInv'
  BY <1>1, <1>2 DEF SeqInv
<1> QED BY <1>1, <1>2, <1>4, <1>5, NoMemory DEF RInv

LEMMA RecurrentPPORemembers ==
  ASSUME ConfigOK(cfg), RInv, RecurrentPPOTrain
  PROVE  RInv'
<1>1. MemInv /\ SeqInv /\ cfg.steps + 1 \in 1..cfg.steps + 1 /\ cfg.steps \in Times
  BY DEF RInv, ConfigOK, Positive, Times
<1>2. cfg.algo = "RecurrentPPO" /\ cfg' = cfg /\ seqs' = seqs
  BY DEF RecurrentPPOTrain, Running
<1>3. PICK ends \in [Envs -> [Times -> Ends]] :
        LET path == Path(Continued, ends)
        IN  /\ Collected(path, ends, RecurrentReplay(path, ends))
            /\ memory' = [i \in Envs |-> ActedWith(path, ends)[i][cfg.steps]]
            /\ starts' = [i \in Envs |-> ends[i][cfg.steps] # "run"]
  BY Zenon DEF RecurrentPPOTrain
<1>4. PICK path : path = Path(Continued, ends)
  OBVIOUS
<1>5. /\ Collected(path, ends, RecurrentReplay(path, ends))
      /\ memory' = [i \in Envs |-> ActedWith(path, ends)[i][cfg.steps]]
      /\ starts' = [i \in Envs |-> ends[i][cfg.steps] # "run"]
  BY <1>3, <1>4
<1>6. /\ Follows(path, ends) /\ Reached(path) \in [Envs -> ObsType]
      /\ \A i \in Envs : \A k \in 1..cfg.steps + 1 : path[i][k] \in ObsType
  BY <1>1, <1>4, FirstTyped, PathGood
<1>7. \A i \in Envs : path[i][1] = Continued[i]
  BY <1>4, PathFollows
<1>8. \A i \in Envs : path[i][1].ep # 0 /\ FitsMemory(i, path[i][1])
  BY <1>1, <1>2, <1>7, ContinuedFits
<1>9. \A i \in Envs : Continues(path, ends, i)
  BY <1>6, <1>8 DEF Continues, Follows
<1>10. \A r \in RecurrentReplay(path, ends) : Whole(r)
  BY <1>9, RecurrentReplayWhole
<1>11. LastInv' /\ ReplayedMemoryIsTheEpisode' /\ obs' \in [Envs -> ObsType]
  BY <1>2, <1>5, <1>6, <1>10, CollectedKeeps
<1>12. ASSUME NEW i \in Envs PROVE Carried(i)'
  <2>1. PICK o : o = path[i][cfg.steps + 1]
    OBVIOUS
  <2>2. LeftWith(o, ends[i][cfg.steps], ActedWith(path, ends)[i][cfg.steps])
    BY <1>8, <1>9, <2>1, CarriedOn
  <2>3. /\ obs'[i] = o /\ memory'[i] = ActedWith(path, ends)[i][cfg.steps]
        /\ starts'[i] = (ends[i][cfg.steps] # "run")
    BY <1>5, <2>1 DEF Collected, Reached
  <2> QED BY <2>2, <2>3 DEF Carried, LeftWith
<1>13. starts' \in [Envs -> BOOLEAN]
  BY <1>5
<1>14. MemInv'
  BY <1>2, <1>11, <1>12, <1>13 DEF MemInv, Envs
<1>15. SeqInv'
  BY <1>1, <1>2 DEF SeqInv
<1> QED BY <1>11, <1>14, <1>15 DEF RInv

(* What Dreamer stores of a rollout.                                       *)
LEMMA MomentIs ==
  ASSUME NEW m, NEW o, NEW end, m = [at |-> o, done |-> end # "run"]
  PROVE  m.at = o /\ (m.done = FALSE => end = "run")
<1>1. CASE end = "run"
  <2>1. m = [at |-> o, done |-> FALSE]
    BY <1>1, Zenon
  <2> QED BY <1>1, <2>1
<1>2. CASE end # "run"
  <2>1. m = [at |-> o, done |-> TRUE]
    BY <1>2, Zenon
  <2> QED BY <2>1
<1> QED BY <1>1, <1>2

LEMMA SequencesStored ==
  ASSUME ConfigOK(cfg), NEW path, NEW ends, Follows(path, ends),
         \A i \in Envs : \A k \in 1..cfg.steps + 1 : path[i][k] \in ObsType
  PROVE  [i \in Envs |-> [k \in Times |-> [at |-> path[i][k], done |-> ends[i][k] # "run"]]]
           \in Seq(EpisodeSequences)
<1> DEFINE sequence(i) == [k \in Times |-> [at |-> path[i][k], done |-> ends[i][k] # "run"]]
<1>1. cfg.steps \in Nat /\ cfg.envs \in Nat
  BY DEF ConfigOK, Positive
<1>2. ASSUME NEW i \in Envs PROVE sequence(i) \in EpisodeSequences
  <2>1. PICK q : q = sequence(i)
    OBVIOUS
  <2>2. \A k \in Times : /\ path[i][k] \in ObsType
                         /\ q[k] = [at |-> path[i][k], done |-> ends[i][k] # "run"]
    BY <1>1, <2>1 DEF Times
  <2>3. q \in [1..cfg.steps -> Moments]
    <3>1. \A k \in Times : [at |-> path[i][k], done |-> ends[i][k] # "run"] \in Moments
      BY <2>2 DEF Moments
    <3> QED BY <2>1, <3>1 DEF Times
  <2>4. q \in Seq(Moments) /\ Len(q) = cfg.steps
    BY <1>1, <2>3
  <2>5. ASSUME NEW k \in Times
        PROVE  q[k].at = path[i][k] /\ (q[k].done = FALSE => ends[i][k] = "run")
    <3>1. PICK m, o, end : m = q[k] /\ o = path[i][k] /\ end = ends[i][k]
      OBVIOUS
    <3>2. m = [at |-> o, done |-> end # "run"]
      BY <2>2, <3>1, Zenon
    <3>3. m.at = o /\ (m.done = FALSE => end = "run")
      BY <3>2, MomentIs, Zenon
    <3> QED BY <3>1, <3>3
  <2>6. ASSUME NEW j \in 1..Len(q) - 1, q[j].done = FALSE
        PROVE  q[j + 1].at = Successor(q[j].at)
    <3>1. j \in Times /\ j + 1 \in Times
      BY <1>1, <2>4 DEF Times
    <3>2. ends[i][j] = "run" /\ q[j].at = path[i][j] /\ q[j + 1].at = path[i][j + 1]
      BY <2>6, <2>5, <3>1
    <3>3. path[i][j + 1] = After(path[i][j], ends[i][j])
      BY <3>1 DEF Follows
    <3> QED BY <3>2, <3>3 DEF After
  <2> QED BY <2>1, <2>4, <2>6 DEF EpisodeSequences, Linked
<1> HIDE DEF sequence
<1>3. [i \in Envs |-> sequence(i)] \in [1..cfg.envs -> EpisodeSequences]
  BY <1>2 DEF Envs
<1>4. [i \in Envs |-> sequence(i)] \in Seq(EpisodeSequences)
  BY <1>1, <1>3
<1> QED BY <1>4 DEF sequence

LEMMA DreamerRemembers ==
  ASSUME ConfigOK(cfg), RInv, DreamerTrain
  PROVE  RInv'
<1>1. MemInv /\ SeqInv /\ cfg.capacity \in Nat
  BY DEF RInv, ConfigOK, Positive
<1>2. cfg.algo = "Dreamer" /\ cfg' = cfg /\ starts' = starts
  BY DEF DreamerTrain, Running
<1>3. PICK ends \in [Envs -> [Times -> Ends]] :
        LET path == Path(AllReset, ends)
            sequence(i) == [k \in Times |-> [at |-> path[i][k], done |-> ends[i][k] # "run"]]
            more == Appended([i \in Envs |-> sequence(i)])
        IN  /\ seqs' = more
            /\ \E n \in 1..Len(more) : \E first \in WindowStarts(more[n]) :
                 Collected(path, ends, DreamerReplay(Window(more[n], first)))
  BY Zenon DEF DreamerTrain
<1>4. PICK path : path = Path(AllReset, ends)
  OBVIOUS
<1>5. PICK new : new = [i \in Envs |-> [k \in Times |-> [at |-> path[i][k],
                                                         done |-> ends[i][k] # "run"]]]
  OBVIOUS
<1>6. PICK more : more = Appended(new)
  OBVIOUS
<1>7. /\ seqs' = more
      /\ \E n \in 1..Len(more) : \E first \in WindowStarts(more[n]) :
           Collected(path, ends, DreamerReplay(Window(more[n], first)))
  BY <1>3, <1>4, <1>5, <1>6, Zenon
<1>8. /\ Follows(path, ends) /\ Reached(path) \in [Envs -> ObsType]
      /\ \A i \in Envs : \A k \in 1..cfg.steps + 1 : path[i][k] \in ObsType
  BY <1>1, <1>4, FirstTyped, PathGood
<1>9. more \in Seq(EpisodeSequences)
  <2>1. PICK all : all = [i \in Envs |-> [k \in Times |-> [at |-> path[i][k],
                                                          done |-> ends[i][k] # "run"]]]
    OBVIOUS
  <2>2. all \in Seq(EpisodeSequences)
    BY <1>8, <2>1, SequencesStored
  <2>3. new = all
    BY <1>5, <2>1
  <2>4. new \in Seq(EpisodeSequences)
    BY <2>2, <2>3
  <2> QED BY <1>1, <1>6, <2>4, AppendedKeeps
<1>10. PICK n \in 1..Len(more) : \E first \in WindowStarts(more[n]) :
         Collected(path, ends, DreamerReplay(Window(more[n], first)))
  BY <1>7
<1>11. PICK q : q = more[n]
  OBVIOUS
<1>12. PICK first \in WindowStarts(q) : Collected(path, ends, DreamerReplay(Window(q, first)))
  BY <1>10, <1>11
<1>13. q \in EpisodeSequences
  BY <1>9, <1>11, ElementOfSeq
<1>14. first \in Positive
  <2>1. Len(q) \in Nat /\ cfg.seqLen \in Nat
    BY <1>13, LenProperties DEF EpisodeSequences, ConfigOK, Positive
  <2> QED BY <1>12, <2>1 DEF WindowStarts, Positive
<1>15. \A r \in DreamerReplay(Window(q, first)) : Whole(r)
  BY <1>2, <1>13, <1>14, DreamerReplayWhole
<1>16. LastInv' /\ ReplayedMemoryIsTheEpisode' /\ obs' \in [Envs -> ObsType]
  BY <1>2, <1>8, <1>12, <1>15, CollectedKeeps
<1>17. SeqInv'
  BY <1>7, <1>9 DEF SeqInv
<1>18. MemInv'
  BY <1>1, <1>2, <1>16, NoMemory
<1> QED BY <1>16, <1>17, <1>18 DEF RInv

LEMMA IdleRemembers ==
  ASSUME RInv, Train \/ Evaluate \/ Save
  PROVE  RInv'
<1>1. /\ MemInv /\ SeqInv
      /\ cfg' = cfg /\ starts' = starts /\ memory' = memory /\ seqs' = seqs /\ last' = Nothing
  BY DEF RInv, Train, Evaluate, Save
<1>2. SeqInv'
  BY <1>1 DEF SeqInv
<1>3. obs' = obs \/ (cfg.algo # "RecurrentPPO" /\ obs' = AllReset)
  <2>1. CASE Train
    <3>1. obs' = IF cfg.algo = "PQN" THEN AllReset ELSE obs
      BY <2>1 DEF Train
    <3> QED BY <3>1
  <2>2. CASE Evaluate \/ Save
    BY <2>2 DEF Evaluate, Save
  <2> QED BY <2>1, <2>2
<1>4. MemInv'
  <2>1. CASE obs' = obs
    BY <1>1, <2>1 DEF MemInv, Envs, Carried
  <2>2. CASE cfg.algo # "RecurrentPPO" /\ obs' = AllReset
    <3>1. obs' \in [Envs -> ObsType]
      <4>1. \A i \in Envs : AllReset[i] \in ObsType
        BY <1>1, FirstTyped
      <4> QED BY <2>2, <4>1 DEF AllReset
    <3> QED BY <1>1, <2>2, <3>1, NoMemory
  <2> QED BY <1>3, <2>1, <2>2
<1> QED BY <1>1, <1>2, <1>4, NothingKeeps DEF RInv

(* A new trainer stands before the first episode of its environments.      *)
LEMMA StandingIs ==
  ASSUME NEW n \in Nat
  PROVE  /\ Standing(n) \in [1..n -> ObsType]
         /\ \A i \in 1..n : Standing(n)[i].t = 0
BY DEF Standing, ObsType, Positive

LEMMA NoSequences == <<>> \in Seq(EpisodeSequences)
BY EmptySeq

LEMMA RestartRemembers ==
  ASSUME FileOK(disk), NEW algo, FromCheckpoint(algo)
  PROVE  RInv'
<1>1. PICK c : c = disk.cfg
  OBVIOUS
<1>2. ConfigOK(c) /\ cfg' = c
  BY <1>1 DEF FileOK, FromCheckpoint
<1>3. PICK n \in Nat : n = c.envs
  BY <1>2 DEF ConfigOK, Positive
<1>4. /\ obs' = Standing(n) /\ starts' = [i \in 1..n |-> TRUE] /\ seqs' = <<>> /\ last' = Nothing
  BY <1>1, <1>3 DEF FromCheckpoint, Constructed
<1>5. Envs' = 1..n
  BY <1>2, <1>3 DEF Envs
<1>6. MemInv'
  <2>1. \A i \in 1..n : starts'[i] = TRUE /\ obs'[i].t = 0
    BY <1>4, StandingIs
  <2>2. obs' \in [1..n -> ObsType] /\ starts' \in [1..n -> BOOLEAN]
    BY <1>4, StandingIs
  <2> QED BY <1>5, <2>1, <2>2 DEF MemInv, Carried
<1>7. SeqInv'
  BY <1>4, NoSequences DEF SeqInv
<1> QED BY <1>4, <1>6, <1>7, NothingKeeps DEF RInv

LEMMA NextRemembers ==
  ASSUME IInv, RInv, [Next]_vars
  PROVE  RInv'
<1>1. ConfigOK(cfg) /\ (disk # NoCheckpoint => FileOK(disk))
  BY DEF IInv, CoreInv
<1>2. CASE UNCHANGED vars
  <2>1. /\ cfg' = cfg /\ obs' = obs /\ memory' = memory /\ starts' = starts /\ seqs' = seqs
        /\ last' = last
    BY <1>2 DEF vars
  <2>2. MemInv' /\ SeqInv' /\ LastInv'
    BY <2>1 DEF RInv, MemInv, Carried, Envs, Times, SeqInv, LastInv, Follows
  <2>3. ReplayedMemoryIsTheEpisode'
    BY <2>1, Zenon DEF RInv, ReplayedMemoryIsTheEpisode
  <2> QED BY <2>2, <2>3 DEF RInv
<1>3. ASSUME PPOTrain \/ A2CTrain \/ VPGTrain \/ TRPOTrain \/ MAPPOTrain PROVE RInv'
  <2>1. cfg.algo # "RecurrentPPO" /\ \E learned : \E step : CollectThenLearn(learned, step)
    BY <1>3, Zenon DEF PPOTrain, A2CTrain, VPGTrain, TRPOTrain, MAPPOTrain, Running
  <2> QED BY <1>1, <2>1, CollectThenLearnRemembers
<1>4. ASSUME NEW algo, FromCheckpoint(algo) PROVE RInv'
  <2>1. disk # NoCheckpoint
    BY <1>4 DEF FromCheckpoint
  <2> QED BY <1>1, <1>4, <2>1, RestartRemembers
<1>5. CASE Next
  BY <1>1, <1>3, <1>4, <1>5, PQNRemembers, RecurrentPPORemembers, MultiMAPPORemembers,
     DreamerRemembers, IdleRemembers
     DEF Next, PPOFromCheckpoint, A2CFromCheckpoint, VPGFromCheckpoint, TRPOFromCheckpoint,
         PQNFromCheckpoint, MAPPOFromCheckpoint, DreamerFromCheckpoint
<1> QED BY <1>2, <1>5

LEMMA InitRemembers ==
  ASSUME Init
  PROVE  RInv
<1>1. ConfigOK(cfg)
  BY InitKeeps DEF IInv, CoreInv
<1>2. PICK n \in Nat : n = cfg.envs
  BY <1>1 DEF ConfigOK, Positive
<1>3. /\ obs = Standing(n) /\ starts = [i \in 1..n |-> TRUE] /\ seqs = <<>> /\ last = Nothing
      /\ Envs = 1..n
  BY <1>2 DEF Init, Envs
<1>4. MemInv
  <2>1. \A i \in 1..n : starts[i] = TRUE /\ obs[i].t = 0
    BY <1>3, StandingIs
  <2>2. obs \in [1..n -> ObsType] /\ starts \in [1..n -> BOOLEAN]
    BY <1>3, StandingIs
  <2> QED BY <1>3, <2>1, <2>2 DEF MemInv, Carried
<1>5. SeqInv
  BY <1>3, NoSequences DEF SeqInv
<1>6. last.on = FALSE
  BY <1>3 DEF Nothing
<1> QED BY <1>4, <1>5, <1>6 DEF RInv, LastInv, ReplayedMemoryIsTheEpisode

-----------------------------------------------------------------------------
(* Returns and replayed memory: the theorems.                              *)

LEMMA RInvHolds == Spec => [](IInv /\ RInv)
<1>1. Init => IInv /\ RInv
  BY InitKeeps, InitRemembers
<1>2. IInv /\ RInv /\ [Next]_vars => (IInv /\ RInv)'
  BY NextKeeps, NextRemembers
<1> QED BY <1>1, <1>2, PTL DEF Spec

(* A return collects every reward to the end of the episode or of the      *)
(* rollout, nothing past a termination, and past any other end the value   *)
(* of the observation reached, save for the two trainers that leave it out *)
(* (ComputeGAE as the collectors call it).                                 *)
THEOREM ReturnsReachTheirHorizonHolds == Spec => []ReturnsReachTheirHorizon
<1>1. IInv /\ RInv => ReturnsReachTheirHorizon
  BY ReturnsReach DEF IInv, CoreInv, RInv
<1> QED BY <1>1, RInvHolds, PTL

(* A step is learned from with the recurrent state of its own episode:     *)
(* RecurrentPPO with the state it was taken with, the whole episode so     *)
(* far, whichever rollout that began in; Dreamer with a gapless run of it. *)
THEOREM ReplayedMemoryHolds == Spec => []ReplayedMemoryIsTheEpisode
<1>1. IInv /\ RInv => ReplayedMemoryIsTheEpisode
  BY DEF RInv
<1> QED BY <1>1, RInvHolds, PTL

=============================================================================
