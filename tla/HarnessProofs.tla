--------------------------- MODULE HarnessProofs ----------------------------
(***************************************************************************)
(* Proofs about the plaintexts of the workers (Payload), the pool figures  *)
(* of the report (PoolFigures) and the sizes of the command line (Sizes),  *)
(* for any number of workers, any size, seed and number of fills, any      *)
(* number of tiers, and texts of any length.                               *)
(***************************************************************************)
EXTENDS Payload, PoolFigures, Sizes, TLAPS, SequenceTheorems, WellFoundedInduction

(* The fixed and rotating modes draw from the CSPRNG or, under a seed,     *)
(* from the generator, which stands at Start(w, k) before fill k.          *)
DrawingMode == mode \in {"fixed", "rotating"}
Start(w, k) == (seed + w + 1 + (k - 1) * (Words(size) * Gamma)) % WordRange

TypeInv ==
    /\ mode \in Modes /\ seed \in Seeds /\ size \in PayloadSizes
    /\ DOMAIN plain = Workers /\ \A w \in Workers : DOMAIN plain[w] = 1..size
    /\ off \in [Workers -> Nat] /\ fills \in [Workers -> Nat] /\ DOMAIN rng = Workers
    /\ phase \in [Workers -> {"none", "filling", "ready", "failed"}]

(* A buffer that is being filled holds what was drawn so far; one that is  *)
(* ready was drawn whole by its last fill.                                 *)
DrawnInv ==
    DrawingMode /\ seed = 0 =>
        /\ \A w \in Workers :
             /\ phase[w] = "filling" =>
                  off[w] < size /\ \A i \in 1..off[w] : plain[w][i] = Drawn(fills[w] + 1)
             /\ phase[w] = "ready" => \A i \in 1..size : plain[w][i] = Drawn(fills[w])
        /\ DrawnWhole

(* Under a seed a buffer holds what the generator gives from where its     *)
(* last fill began, and so does every plaintext that was used.             *)
SeededInv ==
    DrawingMode /\ seed # 0 =>
        /\ \A w \in Workers :
             /\ rng[w] = Start(w, fills[w] + 1)
             /\ phase[w] \in {"none", "ready"}
             /\ phase[w] = "none" => fills[w] = 0
             /\ phase[w] = "ready" => fills[w] \in 1..MaxFills
                                      /\ plain[w] = SeededBytes(Start(w, fills[w]), size)
        /\ \A e \in used :
             /\ e.worker \in Workers /\ e.fill \in 1..MaxFills
             /\ e.bytes = SeededBytes(Start(e.worker, e.fill), size)

PayloadInv == TypeInv /\ DrawnInv /\ SeededInv

-----------------------------------------------------------------------------
(* Words of the generator. *)

(* The finaliser is a permutation: it takes no two words to the same one.  *)
LEMMA FinaliseInjective ==
    ASSUME NEW y \in 0..63, NEW z \in 0..63, Finalise(y)[1] = Finalise(z)[1], Finalise(y)[2] = Finalise(z)[2]
    PROVE  y = z
<1> DEFINE a == y \div 8
           b == z \div 8
<1>1. /\ a \in 0..7 /\ b \in 0..7 /\ y % 8 = y - 8 * a /\ z % 8 = z - 8 * b
      /\ y % 8 \in 0..7 /\ z % 8 \in 0..7
  <2>1. ASSUME NEW x \in 0..63 PROVE x \div 8 \in 0..7
    OBVIOUS
  <2>2. ASSUME NEW x \in 0..63 PROVE x % 8 = x - 8 * (x \div 8)
    OBVIOUS
  <2>3. ASSUME NEW x \in 0..63 PROVE x % 8 \in 0..7
    OBVIOUS
  <2> QED
    BY <2>1, <2>2, <2>3
<1>2. /\ (y + a * a) % 8 = (z + b * b) % 8
      /\ (a + 3 * ((y + a * a) % 8)) % 8 = (b + 3 * ((z + b * b) % 8)) % 8
    BY DEF Finalise, ByteRange
<1> HIDE DEF a, b
<1>3. a = b
  <2>1. a * a \in Int /\ b * b \in Int
    BY <1>1
  <2>2. (y + a * a) % 8 \in 0..7 /\ (z + b * b) % 8 \in 0..7
    BY <2>1
  <2>3. ASSUME NEW c \in 0..7, NEW p \in 0..7, NEW q \in 0..7, (p + 3 * c) % 8 = (q + 3 * c) % 8 PROVE p = q
    BY <2>3
  <2> QED
    BY <1>1, <1>2, <2>2, <2>3
<1>4. ASSUME NEW h \in Int, NEW p \in Int, NEW q \in Int, (p + h) % 8 = (q + h) % 8 PROVE p % 8 = q % 8
    BY <1>4
<1>5. a * a \in Int
    BY <1>1
<1>6. y % 8 = z % 8
    BY <1>2, <1>3, <1>4, <1>5
<1> QED
    BY <1>1, <1>3, <1>6

(* The first word of a fill of at least a word tells where it began.       *)
LEMMA FirstWordTells ==
    ASSUME NEW n \in Nat, n >= 2, NEW y \in 0..63, NEW z \in 0..63, SeededBytes(y, n) = SeededBytes(z, n)
    PROVE  y = z
<1>1. ASSUME NEW s \in 0..63
      PROVE  /\ SeededBytes(s, n)[1] = Finalise((s + Gamma) % 64)[1]
             /\ SeededBytes(s, n)[2] = Finalise((s + Gamma) % 64)[2]
  <2>1. 1 \in 1..n /\ 2 \in 1..n
    OBVIOUS
  <2>2. States(s, n)[1] = (s + Gamma) % 64
    BY <2>1, PayloadAssumption DEF States, WordRange, ByteRange
  <2>3. /\ ((1 - 1) \div WordBytes) + 1 = 1 /\ ((1 - 1) % WordBytes) + 1 = 1
        /\ ((2 - 1) \div WordBytes) + 1 = 1 /\ ((2 - 1) % WordBytes) + 1 = 2
    BY DEF WordBytes
  <2> QED
    BY <2>1, <2>2, <2>3 DEF SeededBytes
<1>2. (y + Gamma) % 64 = (z + Gamma) % 64
  <2>1. (y + Gamma) % 64 \in 0..63 /\ (z + Gamma) % 64 \in 0..63
    BY PayloadAssumption DEF WordRange, ByteRange
  <2>2. /\ Finalise((y + Gamma) % 64)[1] = Finalise((z + Gamma) % 64)[1]
        /\ Finalise((y + Gamma) % 64)[2] = Finalise((z + Gamma) % 64)[2]
    <3>1. /\ SeededBytes(y, n)[1] = Finalise((y + Gamma) % 64)[1]
          /\ SeededBytes(y, n)[2] = Finalise((y + Gamma) % 64)[2]
      BY <1>1, Zenon
    <3>2. /\ SeededBytes(z, n)[1] = Finalise((z + Gamma) % 64)[1]
          /\ SeededBytes(z, n)[2] = Finalise((z + Gamma) % 64)[2]
      BY <1>1, Zenon
    <3> QED
      BY <3>1, <3>2, Zenon
  <2> QED
    BY <2>1, <2>2, FinaliseInjective
<1>3. ASSUME NEW g \in Int, (y + g) % 64 = (z + g) % 64 PROVE y = z
    BY <1>3
<1>4. Gamma \in Int
    BY PayloadAssumption DEF WordRange, ByteRange
<1> QED
    BY <1>2, <1>3, <1>4

(* The figures of a configuration and of a worker are integers.            *)
LEMMA FiguresType ==
    ASSUME TypeInv, NEW w \in Workers
    PROVE  /\ WordRange = 64 /\ size \in Nat /\ seed \in Int /\ Gamma \in Int /\ w \in Int
           /\ Words(size) * Gamma \in Int
<1>1. WordRange = 64
    BY DEF WordRange, ByteRange
<1>2. size \in Nat /\ Gamma \in 1..(WordRange - 1) /\ seed \in 0..(WordRange - 1)
    BY PayloadAssumption DEF TypeInv
<1>3. w \in Int
  <2> DEFINE N == Cardinality(Workers)
  <2>1. Workers = 0..(N - 1) /\ N \in 1..(WordRange - 1)
    BY PayloadAssumption
  <2> HIDE DEF N
  <2> QED
    BY <1>1, <2>1
<1>4. Words(size) \in Int
    BY <1>2 DEF Words, WordBytes
<1> QED
    BY <1>1, <1>2, <1>3, <1>4

(* Different fills, of one worker or of two, begin at different words.     *)
LEMMA StartsDiffer ==
    ASSUME TypeInv, NEW v \in Workers, NEW w \in Workers, NEW j \in 1..MaxFills, NEW k \in 1..MaxFills,
           Start(v, j) = Start(w, k)
    PROVE  v = w /\ j = k
<1> DEFINE step == Words(size) * Gamma
           N == Cardinality(Workers)
<1>1. /\ N \in 1..63 /\ v \in 0..(N - 1) /\ w \in 0..(N - 1) /\ seed \in Int /\ step \in Int /\ MaxFills \in Nat
      /\ WordRange = 64
  <2>1. size \in Nat /\ Gamma \in Int
    BY PayloadAssumption DEF TypeInv, WordRange, ByteRange
  <2>2. Words(size) \in Int
    BY <2>1 DEF Words, WordBytes
  <2>3. step \in Int
    BY <2>1, <2>2
  <2> HIDE DEF step
  <2>4. WordRange = 64
    BY DEF WordRange, ByteRange
  <2>5. seed \in 0..(WordRange - 1)
    BY PayloadAssumption DEF TypeInv
  <2>6. N \in 1..(WordRange - 1) /\ Workers = 0..(N - 1) /\ MaxFills \in Nat
    BY PayloadAssumption
  <2> HIDE DEF N
  <2> QED
    BY <2>3, <2>4, <2>5, <2>6
<1>2. (seed + v + 1 + (j - 1) * step) % 64 = (seed + w + 1 + (k - 1) * step) % 64
    BY <1>1 DEF Start
<1>3. ASSUME NEW d \in 1..(MaxFills - 1) PROVE (d * step) % 64 \in N..(64 - N)
  <2>1. (d * Words(size) * Gamma) % WordRange \in N..(WordRange - N)
    BY SpreadAssumption DEF TypeInv
  <2>2. d * Words(size) * Gamma = d * step
    <3>1. Words(size) \in Int /\ Gamma \in Int /\ d \in Int
      BY PayloadAssumption, <1>1 DEF TypeInv, WordRange, ByteRange, Words, WordBytes
    <3> QED
      BY <3>1
  <2> QED
    BY <1>1, <2>1, <2>2
<1> HIDE DEF step, N
<1>4. (j - 1) * step = (k - 1) * step + (j - k) * step /\ (k - 1) * step = (j - 1) * step + (k - j) * step
    BY <1>1
<1>5. ASSUME NEW a \in Int, NEW b \in Int, NEW m \in Int, NEW x \in 0..(N - 1), NEW y \in 0..(N - 1),
             m % 64 \in N..(64 - N), (a + x + 1 + b + m) % 64 = (a + y + 1 + b) % 64
      PROVE  FALSE
    BY <1>1, <1>5
<1>6. (j - 1) * step \in Int /\ (k - 1) * step \in Int /\ (j - k) * step \in Int /\ (k - j) * step \in Int
    BY <1>1
<1>7. CASE j = k
  <2>1. ASSUME NEW c \in Int, (c + v) % 64 = (c + w) % 64 PROVE v = w
    BY <1>1, <2>1
  <2>2. seed + 1 + (j - 1) * step \in Int
    BY <1>1, <1>6
  <2> QED
    BY <1>1, <1>2, <1>6, <1>7, <2>1, <2>2
<1>8. CASE j > k
  <2>1. j - k \in 1..(MaxFills - 1)
    BY <1>1, <1>8
  <2>2. ((j - k) * step) % 64 \in N..(64 - N)
    BY <1>3, <2>1
  <2>3. (seed + v + 1 + (k - 1) * step + (j - k) * step) % 64 = (seed + w + 1 + (k - 1) * step) % 64
    BY <1>1, <1>2, <1>4, <1>6
  <2> QED
    BY <1>1, <1>5, <1>6, <2>2, <2>3
<1>9. CASE j < k
  <2>1. k - j \in 1..(MaxFills - 1)
    BY <1>1, <1>9
  <2>2. ((k - j) * step) % 64 \in N..(64 - N)
    BY <1>3, <2>1
  <2>3. (seed + w + 1 + (j - 1) * step + (k - j) * step) % 64 = (seed + v + 1 + (j - 1) * step) % 64
    BY <1>1, <1>2, <1>4, <1>6
  <2> QED
    BY <1>1, <1>5, <1>6, <2>2, <2>3
<1> QED
    BY <1>1, <1>7, <1>8, <1>9

-----------------------------------------------------------------------------
(* The generator after a fill stands where the next one begins.            *)
LEMMA NextStart ==
    ASSUME TypeInv, NEW w \in Workers, NEW k \in Nat
    PROVE  Advanced(Start(w, k), size) = Start(w, k + 1)
<1> DEFINE step == Words(size) * Gamma
<1>1. WordRange = 64 /\ seed \in Int /\ w \in Int /\ step \in Int
    BY FiguresType
<1>2. Start(w, k) = (seed + w + 1 + (k - 1) * step) % 64 /\ Start(w, k + 1) = (seed + w + 1 + k * step) % 64
    BY <1>1 DEF Start
<1>3. Advanced(Start(w, k), size) = (Start(w, k) + step) % 64
    BY <1>1 DEF Advanced
<1> HIDE DEF step
<1>4. (k - 1) * step \in Int /\ k * step \in Int /\ k * step = (k - 1) * step + step
    BY <1>1
<1>5. ASSUME NEW a \in Int, NEW b \in Int PROVE ((a % 64) + b) % 64 = (a + b) % 64
    OBVIOUS
<1>6. (((seed + w + 1 + (k - 1) * step) % 64) + step) % 64 = ((seed + w + 1 + (k - 1) * step) + step) % 64
    BY <1>1, <1>4, <1>5
<1>7. (seed + w + 1 + (k - 1) * step) + step = seed + w + 1 + k * step
    BY <1>1, <1>4
<1> QED
    BY <1>2, <1>3, <1>6, <1>7

LEMMA StartType ==
    ASSUME TypeInv, NEW w \in Workers, NEW k \in Nat PROVE Start(w, k) \in 0..63
<1>1. seed \in Int /\ WordRange = 64 /\ w \in Int
    BY FiguresType
<1>2. Words(size) * Gamma \in Int
    BY FiguresType
<1>3. (k - 1) * (Words(size) * Gamma) \in Int
    BY <1>2
<1> QED
    BY <1>1, <1>3 DEF Start

-----------------------------------------------------------------------------
(* Nothing is filled at first, and every generator stands at its seed.     *)
LEMMA PayloadStart == PayloadInit => PayloadInv
<1> SUFFICES ASSUME PayloadInit PROVE PayloadInv
    OBVIOUS
<1>1. TypeInv
    BY DEF PayloadInit, TypeInv
<1>2. DrawnInv
    BY DEF PayloadInit, DrawnInv, DrawnWhole
<1>3. SeededInv
  <2>1. ASSUME NEW w \in Workers PROVE SeedWorker(seed, w) = Start(w, 0 + 1)
    <3>1. seed \in Int /\ w \in Int
      BY <1>1, FiguresType
    <3>2. Words(size) * Gamma \in Int
      BY <1>1, FiguresType
    <3>3. ((0 + 1) - 1) * (Words(size) * Gamma) = 0
      BY <3>2
    <3>4. seed + w + 1 + 0 = seed + w + 1
      BY <3>1
    <3> QED
      BY <3>3, <3>4, Zenon DEF SeedWorker, Start
  <2> QED
    BY <2>1 DEF PayloadInit, SeededInv
<1> QED
    BY <1>1, <1>2, <1>3 DEF PayloadInv

(* A fill of the fixed and rotating modes starts to draw or gives a whole  *)
(* buffer of the generator.                                                *)
LEMMA FillStep ==
    ASSUME PayloadInv, NEW w \in Workers, Fill(w), UNCHANGED <<mode, seed, size, used>>,
           phase[w] \in {"none", "ready"}, phase[w] = "ready" => fills[w] < MaxFills
    PROVE  PayloadInv'
<1> USE DEF PayloadInv
<1>0. /\ size \in Nat \ {0} /\ MaxFills \in Nat \ {0} /\ DOMAIN plain = Workers /\ DOMAIN rng = Workers
      /\ off \in [Workers -> Nat] /\ fills \in [Workers -> Nat]
      /\ phase \in [Workers -> {"none", "filling", "ready", "failed"}]
      /\ \A v \in Workers : DOMAIN plain[v] = 1..size
    BY PayloadAssumption DEF TypeInv
<1>1. CASE /\ mode \in {"fixed", "rotating"} /\ seed # 0
           /\ plain' = [plain EXCEPT ![w] = SeededBytes(rng[w], size)]
           /\ rng' = [rng EXCEPT ![w] = Advanced(@, size)]
           /\ phase' = [phase EXCEPT ![w] = "ready"] /\ fills' = [fills EXCEPT ![w] = @ + 1]
           /\ UNCHANGED off
  <2>1. TypeInv'
    <3>1. DOMAIN SeededBytes(rng[w], size) = 1..size
      BY DEF SeededBytes
    <3> QED
      BY <1>0, <1>1, <3>1 DEF TypeInv
  <2>2. DrawnInv'
    BY <1>1 DEF DrawnInv
  <2>3. SeededInv'
    <3>1. /\ rng[w] = Start(w, fills[w] + 1) /\ fills[w] \in Nat /\ fills[w] + 1 \in 1..MaxFills
      BY <1>0, <1>1 DEF SeededInv, DrawingMode
    <3>2. Advanced(Start(w, fills[w] + 1), size) = Start(w, (fills[w] + 1) + 1)
      BY <3>1, NextStart
    <3>3. \A v \in Workers, k \in Nat : Start(v, k)' = Start(v, k)
      BY DEF Start
    <3>4. ASSUME NEW v \in Workers
          PROVE  /\ rng'[v] = Start(v, fills'[v] + 1)
                 /\ phase'[v] \in {"none", "ready"}
                 /\ phase'[v] = "none" => fills'[v] = 0
                 /\ phase'[v] = "ready" => fills'[v] \in 1..MaxFills
                                          /\ plain'[v] = SeededBytes(Start(v, fills'[v]), size)
      <4>1. CASE v = w
        BY <4>1, <1>0, <1>1, <3>1, <3>2
      <4>2. CASE v # w
        BY <4>2, <1>0, <1>1 DEF SeededInv, DrawingMode
      <4> QED
        BY <4>1, <4>2
    <3>5. \A e \in used : /\ e.worker \in Workers /\ e.fill \in 1..MaxFills
                          /\ e.bytes = SeededBytes(Start(e.worker, e.fill), size)
      BY <1>1 DEF SeededInv, DrawingMode
    <3> QED
      BY <3>4, <3>5 DEF SeededInv, Start, SeededBytes, States
  <2> QED
    BY <2>1, <2>2, <2>3
<1>2. CASE /\ mode \in {"fixed", "rotating"} /\ seed = 0
           /\ off' = [off EXCEPT ![w] = 0] /\ phase' = [phase EXCEPT ![w] = "filling"]
           /\ UNCHANGED <<plain, rng, fills>>
  <2>1. TypeInv'
    BY <1>0, <1>2 DEF TypeInv
  <2>2. DrawnInv'
    BY <1>0, <1>2 DEF DrawnInv, DrawnWhole, DrawingMode
  <2>3. SeededInv'
    BY <1>2 DEF SeededInv
  <2> QED
    BY <2>1, <2>2, <2>3
<1>3. CASE /\ mode \notin {"fixed", "rotating"}
           /\ plain' = [plain EXCEPT ![w] = Pattern(mode, size)]
           /\ phase' = [phase EXCEPT ![w] = "ready"] /\ fills' = [fills EXCEPT ![w] = @ + 1]
           /\ UNCHANGED <<rng, off>>
  <2>1. TypeInv'
    <3>1. DOMAIN Pattern(mode, size) = 1..size
      BY Zenon DEF Pattern
    <3> QED
      BY <1>0, <1>3, <3>1 DEF TypeInv
  <2>2. DrawnInv' /\ SeededInv'
    BY <1>3 DEF DrawnInv, SeededInv, DrawingMode
  <2> QED
    BY <2>1, <2>2
<1> QED
    BY <1>1, <1>2, <1>3, Zenon DEF Fill

(* A read of the CSPRNG extends what was drawn; the fill is over when it   *)
(* reaches the end of the buffer, and not before.                          *)
LEMMA RandomStep ==
    ASSUME PayloadInv, NEW w \in Workers, RandomRead(w) PROVE PayloadInv'
<1> USE DEF PayloadInv
<1>0. /\ size \in Nat \ {0} /\ DOMAIN plain = Workers
      /\ off \in [Workers -> Nat] /\ fills \in [Workers -> Nat]
      /\ phase \in [Workers -> {"none", "filling", "ready", "failed"}]
      /\ \A v \in Workers : DOMAIN plain[v] = 1..size
    BY PayloadAssumption DEF TypeInv
<1>1. phase[w] = "filling" /\ UNCHANGED <<mode, seed, size, rng, used>>
    BY DEF RandomRead
<1>2. ASSUME NEW r \in 1..(size - off[w]),
             plain' = [plain EXCEPT ![w] =
                       [i \in 1..size |-> IF i \in off[w] + 1..off[w] + r THEN Drawn(fills[w] + 1)
                                          ELSE plain[w][i]]],
             off' = [off EXCEPT ![w] = @ + r],
             IF RandomEnds(w, r)
             THEN phase' = [phase EXCEPT ![w] = "ready"] /\ fills' = [fills EXCEPT ![w] = @ + 1]
             ELSE UNCHANGED <<phase, fills>>
      PROVE  PayloadInv'
  <2> DEFINE new == [i \in 1..size |-> IF i \in off[w] + 1..off[w] + r THEN Drawn(fills[w] + 1)
                                       ELSE plain[w][i]]
  <2>0. off[w] \in Nat /\ r \in Nat \ {0} /\ off[w] + r <= size /\ fills[w] \in Nat
    BY <1>0
  <2>1. plain' = [plain EXCEPT ![w] = new] /\ DOMAIN new = 1..size
    BY <1>2
  <2>2. \A i \in 1..size : new[i] = IF off[w] < i /\ i <= off[w] + r THEN Drawn(fills[w] + 1) ELSE plain[w][i]
    BY <2>0
  <2> HIDE DEF new
  <2>3. TypeInv'
    <3>1. CASE RandomEnds(w, r)
      <4>1. phase' = [phase EXCEPT ![w] = "ready"] /\ fills' = [fills EXCEPT ![w] = @ + 1]
        BY <1>2, <3>1
      <4>2. phase' \in [Workers -> {"none", "filling", "ready", "failed"}] /\ fills' \in [Workers -> Nat]
        BY <4>1, <1>0
      <4>3. off' \in [Workers -> Nat]
        BY <1>0, <1>2, <2>0
      <4> QED
        BY <4>2, <4>3, <1>0, <1>1, <2>1 DEF TypeInv
    <3>2. CASE ~RandomEnds(w, r)
      BY <3>2, <1>0, <1>1, <1>2, <2>0, <2>1 DEF TypeInv
    <3> QED
      BY <3>1, <3>2
  <2>4. DrawnInv'
    <3> SUFFICES ASSUME DrawingMode, seed = 0 PROVE DrawnInv'
      BY <1>1 DEF DrawnInv, DrawingMode
    <3>1. \A i \in 1..(off[w] + r) : new[i] = Drawn(fills[w] + 1)
      <4>1. \A i \in 1..off[w] : plain[w][i] = Drawn(fills[w] + 1)
        BY <1>1 DEF DrawnInv
      <4> SUFFICES ASSUME NEW i \in 1..(off[w] + r) PROVE new[i] = Drawn(fills[w] + 1)
        OBVIOUS
      <4>2. i \in 1..size /\ i <= off[w] + r /\ (off[w] < i \/ i \in 1..off[w])
        BY <1>0, <2>0
      <4> QED
        BY <4>1, <4>2, <2>2
    <3>2. \A v \in Workers \ {w} : plain'[v] = plain[v] /\ off'[v] = off[v] /\ fills'[v] = fills[v] /\ phase'[v] = phase[v]
      BY <1>0, <1>2, <2>1
    <3>3. plain'[w] = new /\ off'[w] = off[w] + r
      BY <1>0, <1>2, <2>1
    <3>4. CASE RandomEnds(w, r)
      <4>1. phase'[w] = "ready" /\ fills'[w] = fills[w] + 1 /\ off[w] + r = size
        BY <3>4, <1>0, <1>2 DEF RandomEnds
      <4> QED
        BY <4>1, <3>1, <3>2, <3>3, <1>1 DEF DrawnInv, DrawnWhole, DrawingMode
    <3>5. CASE ~RandomEnds(w, r)
      <4>1. phase' = phase /\ fills' = fills /\ off[w] + r < size
        BY <3>5, <1>2, <2>0, <1>0 DEF RandomEnds
      <4> QED
        BY <4>1, <3>1, <3>2, <3>3, <1>1 DEF DrawnInv, DrawnWhole, DrawingMode
    <3> QED
      BY <3>4, <3>5
  <2>5. SeededInv'
    BY <1>1 DEF SeededInv, DrawingMode
  <2> QED
    BY <2>3, <2>4, <2>5
<1>3. ASSUME phase' = [phase EXCEPT ![w] = "failed"], UNCHANGED <<plain, off, fills>> PROVE PayloadInv'
  <2>1. TypeInv'
    BY <1>0, <1>1, <1>3 DEF TypeInv
  <2>2. DrawnInv'
    BY <1>0, <1>1, <1>3 DEF DrawnInv, DrawnWhole, DrawingMode
  <2>3. SeededInv'
    BY <1>1 DEF SeededInv, DrawingMode
  <2> QED
    BY <2>1, <2>2, <2>3
<1> QED
    BY <1>2, <1>3, Zenon DEF RandomRead

(* What is encrypted is the buffer of a worker that is ready.              *)
LEMMA EncryptStep ==
    ASSUME PayloadInv, NEW w \in Workers, Encrypt(w) PROVE PayloadInv'
<1> USE DEF PayloadInv
<1> DEFINE new == [worker |-> w, fill |-> fills[w], bytes |-> plain[w]]
<1>1. /\ phase[w] = "ready" /\ used' = used \cup {new}
      /\ UNCHANGED <<mode, seed, size, rng, plain, off, fills, phase>>
    BY DEF Encrypt
<1>2. TypeInv'
    BY <1>1 DEF TypeInv
<1>3. new.worker = w /\ new.fill = fills[w] /\ new.bytes = plain[w]
    OBVIOUS
<1> HIDE DEF new
<1>4. DrawnInv'
  <2>1. DOMAIN plain[w] = 1..size
    BY DEF TypeInv
  <2> QED
    <3> SUFFICES ASSUME DrawingMode, seed = 0 PROVE DrawnInv'
      BY <1>1 DEF DrawnInv, DrawingMode
    <3>1. \A e \in used' : \A i \in DOMAIN e.bytes : e.bytes[i] = Drawn(e.fill)
      <4>1. \A i \in DOMAIN new.bytes : new.bytes[i] = Drawn(new.fill)
        BY <2>1, <1>1, <1>3 DEF DrawnInv
      <4>2. \A e \in used : \A i \in DOMAIN e.bytes : e.bytes[i] = Drawn(e.fill)
        BY DEF DrawnInv, DrawnWhole, DrawingMode
      <4> QED
        BY <4>1, <4>2, <1>1, Zenon
    <3> QED
      BY <3>1, <1>1 DEF DrawnInv, DrawnWhole, DrawingMode
<1>5. SeededInv'
  <2> SUFFICES ASSUME DrawingMode, seed # 0 PROVE SeededInv'
    BY <1>1 DEF SeededInv, DrawingMode
  <2>1. \A e \in used' : /\ e.worker \in Workers /\ e.fill \in 1..MaxFills
                         /\ e.bytes = SeededBytes(Start(e.worker, e.fill), size)
    BY <1>1, <1>3 DEF SeededInv
  <2> QED
    BY <1>1, <2>1 DEF SeededInv, Start, SeededBytes, States
<1> QED
    BY <1>2, <1>4, <1>5

LEMMA PayloadStep == PayloadInv /\ [PayloadNext]_payloadVars => PayloadInv'
<1> SUFFICES ASSUME PayloadInv, [PayloadNext]_payloadVars PROVE PayloadInv'
    OBVIOUS
<1>1. ASSUME NEW w \in Workers, Setup(w) PROVE PayloadInv'
    BY <1>1, FillStep, Zenon DEF Setup
<1>2. ASSUME NEW w \in Workers, Refill(w) PROVE PayloadInv'
    BY <1>2, FillStep, Zenon DEF Refill
<1>3. ASSUME NEW w \in Workers, RandomRead(w) PROVE PayloadInv'
    BY <1>3, RandomStep
<1>4. ASSUME NEW w \in Workers, Encrypt(w) PROVE PayloadInv'
    BY <1>4, EncryptStep
<1>5. CASE UNCHANGED payloadVars
    BY <1>5 DEF payloadVars, PayloadInv, TypeInv, DrawnInv, SeededInv, DrawingMode, DrawnWhole, Start
<1> QED
    BY <1>1, <1>2, <1>3, <1>4, <1>5 DEF PayloadNext

LEMMA PayloadInductive == PayloadSpec => []PayloadInv
BY PayloadStart, PayloadStep, PTL DEF PayloadSpec

(* Whatever the CSPRNG delivers, in reads of any length: no plaintext      *)
(* holds a byte that its last fill did not draw.                           *)
THEOREM PlaintextsAreDrawn == PayloadSpec => []DrawnWhole
<1>1. PayloadInv => DrawnWhole
    BY DEF PayloadInv, DrawnInv, DrawnWhole, DrawingMode
<1> QED
    BY <1>1, PayloadInductive, PTL

(* For every seed, every size of at least a word and any number of workers *)
(* and fills over which the increment keeps its distance: no plaintext is  *)
(* ever encrypted by two workers, or again after a refill.                 *)
THEOREM PlaintextsDiffer == PayloadSpec => []PlaintextsDistinct
<1>1. PayloadInv => PlaintextsDistinct
  <2> SUFFICES ASSUME PayloadInv, DrawingMode, seed # 0, size >= WordBytes,
                      NEW e \in used, NEW f \in used, e.bytes = f.bytes
               PROVE  e.worker = f.worker /\ e.fill = f.fill
    BY DEF PlaintextsDistinct, DrawingMode
  <2>1. /\ e.worker \in Workers /\ e.fill \in 1..MaxFills /\ e.bytes = SeededBytes(Start(e.worker, e.fill), size)
        /\ f.worker \in Workers /\ f.fill \in 1..MaxFills /\ f.bytes = SeededBytes(Start(f.worker, f.fill), size)
    BY DEF PayloadInv, SeededInv
  <2>2. TypeInv /\ size \in Nat /\ size >= 2 /\ MaxFills \in Nat
    BY PayloadAssumption DEF PayloadInv, TypeInv, WordBytes
  <2>3. Start(e.worker, e.fill) \in 0..63 /\ Start(f.worker, f.fill) \in 0..63
    BY <2>1, <2>2, StartType
  <2>4. Start(e.worker, e.fill) = Start(f.worker, f.fill)
    BY <2>1, <2>2, <2>3, FirstWordTells
  <2> QED
    BY <2>1, <2>2, <2>4, StartsDiffer
<1> QED
    BY <1>1, PayloadInductive, PTL

-----------------------------------------------------------------------------
(* A snapshot of the library with counters t: LibSlots with t for totals.  *)
SnapSlot(t, s) ==
    LET tail == 1 + 5 * Len(starters)
        tier == (s - 1) \div 5
    IN IF s = 0 THEN Len(starters)
       ELSE IF s >= tail + 4 THEN t[Tier(ChunkPool, Fields[s - tail - 3])]
       ELSE IF s >= tail THEN t[Tier(BufPool, Fields[s - tail + 1])]
       ELSE IF (s - 1) % 5 = 0 THEN starters[tier + 1]
       ELSE t[Tier(tier, Fields[(s - 1) % 5])]

Snap(t) == [k \in 1..LibLen(Len(starters)) |-> SnapSlot(t, k - 1)]

(* The counters there are, and what they were when the main loop began.    *)
Counters == Pools(Len(starters)) \X FieldNames
Before == [c \in Counters |-> totals[c] - done[c]]

(* The first snapshot shows the counters without what the main loop has    *)
(* added since, the second one those of its end; one that failed shows the *)
(* zeros of calloc.                                                        *)
Blank == Zeros(LibLen(Len(starters)))
WarmupShows == warmup = IF "warmup" \in taken THEN Snap(Before) ELSE Blank
SteadyShows == steady = IF "steady" \in taken THEN Snap(totals) ELSE Blank

PoolInv ==
    /\ starters \in Seq(Nat)
    /\ totals \in [Counters -> Nat] /\ done \in [Counters -> Nat]
    /\ stage \in {"alloc", "warming"} => taken = {} /\ \A c \in Counters : done[c] = 0
    /\ stage \in {"warming", "running", "ended"} => poolLen = LibLen(Len(starters))
    /\ stage = "warming" => warmup = Blank
    /\ stage \in {"warming", "running"} => steady = Blank
    /\ stage \in {"running", "ended"} => WarmupShows
    /\ stage = "running" => "steady" \notin taken
    /\ stage = "ended" => SteadyShows
    /\ FiguresAreWork

-----------------------------------------------------------------------------
LEMMA SnapIsLib == LibSlots = Snap(totals)
BY Zenon DEF LibSlots, LibSlot, Snap, SnapSlot

(* The slots of a snapshot, by what pool_diff looks for.                   *)
LEMMA SlotsOfSnap ==
    ASSUME starters \in Seq(Nat), NEW t
    PROVE  /\ Slot(Snap(t), 0) = Len(starters)
           /\ \A i \in 1..Len(starters) : Slot(Snap(t), 1 + 5 * (i - 1)) = starters[i]
           /\ \A i \in 1..Len(starters), k \in 1..4 :
                  Slot(Snap(t), 1 + 5 * (i - 1) + k) = t[Tier(i - 1, Fields[k])]
           /\ \A k \in 1..4 :
                  /\ Slot(Snap(t), 5 * Len(starters) + k) = t[Tier(BufPool, Fields[k])]
                  /\ Slot(Snap(t), 5 * Len(starters) + 4 + k) = t[Tier(ChunkPool, Fields[k])]
<1> DEFINE n == Len(starters)
<1>1. n \in Nat /\ LibLen(n) = 9 + 5 * n
    BY DEF LibLen
<1>2. ASSUME NEW s \in 0..(8 + 5 * n) PROVE Slot(Snap(t), s) = SnapSlot(t, s)
  <2>1. s + 1 \in 1..LibLen(n) /\ (s + 1) - 1 = s
    BY <1>1
  <2> QED
    BY <2>1 DEF Slot, Snap
<1>3. SnapSlot(t, 0) = n
    BY <1>1 DEF SnapSlot
<1>4. ASSUME NEW i \in 1..n PROVE SnapSlot(t, 1 + 5 * (i - 1)) = starters[i]
  <2> DEFINE s == 1 + 5 * (i - 1)
  <2>1. s # 0 /\ ~(s >= 1 + 5 * n) /\ ~(s >= 1 + 5 * n + 4) /\ (s - 1) % 5 = 0 /\ ((s - 1) \div 5) + 1 = i
    BY <1>1
  <2> HIDE DEF s
  <2> QED
    BY <2>1 DEF SnapSlot, s
<1>5. ASSUME NEW i \in 1..n, NEW k \in 1..4
      PROVE  SnapSlot(t, 1 + 5 * (i - 1) + k) = t[Tier(i - 1, Fields[k])]
  <2> DEFINE s == 1 + 5 * (i - 1) + k
  <2>1. s # 0 /\ ~(s >= 1 + 5 * n) /\ ~(s >= 1 + 5 * n + 4) /\ (s - 1) % 5 = k /\ k # 0 /\ (s - 1) \div 5 = i - 1
    BY <1>1
  <2> HIDE DEF s
  <2>2. SnapSlot(t, s) = t[Tier(i - 1, Fields[k])]
    BY <2>1 DEF SnapSlot
  <2> QED
    BY <2>2 DEF s
<1>6. ASSUME NEW k \in 1..4
      PROVE  /\ SnapSlot(t, 5 * n + k) = t[Tier(BufPool, Fields[k])]
             /\ SnapSlot(t, 5 * n + 4 + k) = t[Tier(ChunkPool, Fields[k])]
  <2>1. /\ 5 * n + k # 0 /\ ~(5 * n + k >= 1 + 5 * n + 4) /\ 5 * n + k >= 1 + 5 * n
        /\ (5 * n + k) - (1 + 5 * n) + 1 = k
    BY <1>1
  <2>2. /\ 5 * n + 4 + k # 0 /\ 5 * n + 4 + k >= 1 + 5 * n + 4
        /\ (5 * n + 4 + k) - (1 + 5 * n) - 3 = k
    BY <1>1
  <2>3. SnapSlot(t, 5 * n + k) = t[Tier(BufPool, Fields[k])]
    BY <2>1, Zenon DEF SnapSlot
  <2>4. SnapSlot(t, 5 * n + 4 + k) = t[Tier(ChunkPool, Fields[k])]
    BY <2>2, Zenon DEF SnapSlot
  <2> QED
    BY <2>3, <2>4
<1>7. ASSUME NEW i \in 1..n PROVE 1 + 5 * (i - 1) \in 0..(8 + 5 * n)
    BY <1>1
<1>8. ASSUME NEW i \in 1..n, NEW k \in 1..4 PROVE 1 + 5 * (i - 1) + k \in 0..(8 + 5 * n)
    BY <1>1
<1>9. ASSUME NEW k \in 1..4 PROVE 5 * n + k \in 0..(8 + 5 * n) /\ 5 * n + 4 + k \in 0..(8 + 5 * n) /\ 0 \in 0..(8 + 5 * n)
    BY <1>1
<1>10. 0 \in 0..(8 + 5 * n)
    BY <1>1
<1> HIDE DEF n
<1>11. Slot(Snap(t), 0) = n
    BY <1>2, <1>3, <1>10, Zenon
<1>12. \A i \in 1..n : Slot(Snap(t), 1 + 5 * (i - 1)) = starters[i]
    BY <1>2, <1>4, <1>7, Zenon
<1>13. \A i \in 1..n, k \in 1..4 : Slot(Snap(t), 1 + 5 * (i - 1) + k) = t[Tier(i - 1, Fields[k])]
    BY <1>2, <1>5, <1>8, Zenon
<1>14. \A k \in 1..4 : /\ Slot(Snap(t), 5 * n + k) = t[Tier(BufPool, Fields[k])]
                       /\ Slot(Snap(t), 5 * n + 4 + k) = t[Tier(ChunkPool, Fields[k])]
    BY <1>2, <1>6, <1>9, Zenon
<1> QED
    BY <1>11, <1>12, <1>13, <1>14, Zenon DEF n

(* The counters of a pool.                                                 *)
LEMMA CountersOf ==
    ASSUME NEW p \in Pools(Len(starters)), NEW k \in 1..4 PROVE Tier(p, Fields[k]) \in Counters
<1>1. Fields[k] \in FieldNames
    BY DEF FieldNames, ToSet, Fields
<1> QED
    BY <1>1 DEF Counters, Tier

-----------------------------------------------------------------------------
(* pool_diff finds, under the name of every figure, what the snapshots     *)
(* leave of it.                                                            *)
LEMMA ReportIsWork ==
    ASSUME PoolInv, Report PROVE FiguresAreWork'
<1> DEFINE n == Len(starters)
<1>1. /\ stage = "ended" /\ stage' = "reported" /\ UNCHANGED <<starters, totals, warmup, steady, poolLen, taken, done>>
      /\ report' = [tiers |-> {[tier |-> i - 1, figures |-> PoolDiff.tiers[i].figures] :
                                 i \in {j \in DOMAIN PoolDiff.tiers : PoolDiff.tiers[j].starter # 0}},
                    buf |-> PoolDiff.buf, chunk |-> PoolDiff.chunk]
    BY Zenon DEF Report
<1>2. /\ starters \in Seq(Nat) /\ n \in Nat /\ totals \in [Counters -> Nat] /\ done \in [Counters -> Nat]
      /\ MaxTiers \in Nat
    BY PoolAssumption DEF PoolInv
<1> DEFINE Figures(tiers) ==
             [tiers |-> [i \in 1..tiers |->
                            [starter |-> Slot(steady, 1 + 5 * (i - 1)),
                             figures |-> Differences(1 + 5 * (i - 1) + 1)]],
              buf |-> Differences(TailSlot(tiers)),
              chunk |-> Differences(TailSlot(tiers) + 4)]
<1>3. \/ PoolDiff = NoFigures
      \/ Fits(Slot(steady, 0)) /\ PoolDiff = Figures(Slot(steady, 0))
    BY Zenon DEF PoolDiff
<1>4. DOMAIN NoFigures.tiers = {} /\ NoFigures.buf = Zeros(4) /\ NoFigures.chunk = Zeros(4)
    BY DEF NoFigures
<1>5. \A t \in report'.tiers : t.tier \in 0..(MaxTiers - 1)
  <2>1. ASSUME NEW i \in DOMAIN PoolDiff.tiers PROVE i - 1 \in 0..(MaxTiers - 1)
    <3>1. CASE PoolDiff = NoFigures
      BY <3>1, <1>4
    <3>2. CASE Fits(Slot(steady, 0)) /\ PoolDiff = Figures(Slot(steady, 0))
      <4>1. i \in 1..Slot(steady, 0) /\ Slot(steady, 0) \in 0..MaxTiers
        BY <3>2 DEF Fits
      <4> QED
        BY <4>1, <1>2
    <3> QED
      BY <3>1, <3>2, <1>3
  <2> QED
    BY <1>1, <2>1
<1>6. poolLen = LibLen(n) /\ WarmupShows /\ SteadyShows
    BY <1>1 DEF PoolInv
<1>7. CASE "steady" \notin taken
  <2>1. Slot(steady, 0) = 0
    <3>1. steady = Zeros(LibLen(n)) /\ LibLen(n) \in Nat /\ LibLen(n) >= 1
      BY <1>2, <1>6, <1>7 DEF SteadyShows, Blank, LibLen
    <3> QED
      BY <3>1 DEF Slot, Zeros
  <2>2. DOMAIN PoolDiff.tiers = {}
    <3>1. CASE PoolDiff = NoFigures
      BY <3>1, <1>4
    <3>2. CASE PoolDiff = Figures(Slot(steady, 0))
      BY <3>2, <2>1
    <3> QED
      BY <3>1, <3>2, <1>3
  <2>3. report'.tiers = {}
    BY <1>1, <2>2
  <2> QED
    BY <1>1, <1>5, <1>7, <2>3 DEF FiguresAreWork
<1>8. CASE "steady" \in taken
  (* What the baseline shows, and what is left without it.                 *)
  <2> DEFINE WarmedUp == [c \in Counters |-> IF "warmup" \in taken THEN Before[c] ELSE 0]
             Rest == [c \in Counters |-> IF "warmup" \in taken THEN done[c] ELSE totals[c]]
  <2>1. steady = Snap(totals) /\ poolLen = LibLen(n)
    BY <1>6, <1>8 DEF SteadyShows
  <2>2. Slot(steady, 0) = n /\ \A i \in 1..n : Slot(steady, 1 + 5 * (i - 1)) = starters[i]
    BY <1>2, <2>1, SlotsOfSnap, Zenon
  <2>3. \A p \in Pools(n), k \in 1..4 : Tier(p, Fields[k]) \in Counters
    BY CountersOf
  <2>4. ASSUME NEW c \in Counters PROVE totals[c] - WarmedUp[c] = Rest[c]
    BY <1>2 DEF Before
  <2>10. /\ \A i \in 1..n, k \in 1..4 :
                Slot(warmup, 1 + 5 * (i - 1) + k) = WarmedUp[Tier(i - 1, Fields[k])]
         /\ \A k \in 1..4 :
                /\ Slot(warmup, 5 * n + k) = WarmedUp[Tier(BufPool, Fields[k])]
                /\ Slot(warmup, 5 * n + 4 + k) = WarmedUp[Tier(ChunkPool, Fields[k])]
    <3>1. /\ \A i \in 1..n, k \in 1..4 : Tier(i - 1, Fields[k]) \in Counters
          /\ \A k \in 1..4 : /\ Tier(BufPool, Fields[k]) \in Counters
                             /\ Tier(ChunkPool, Fields[k]) \in Counters
      <4>1. BufPool \in Pools(n) /\ ChunkPool \in Pools(n) /\ \A i \in 1..n : i - 1 \in Pools(n)
        BY <1>2 DEF Pools
      <4> QED
        BY <4>1, <2>3, Zenon
    <3>2. CASE "warmup" \in taken
      <4>1. warmup = Snap(Before) /\ \A c \in Counters : WarmedUp[c] = Before[c]
        BY <3>2, <1>6 DEF WarmupShows
      <4> HIDE DEF WarmedUp
      <4> QED
        BY <4>1, <3>1, <1>2, SlotsOfSnap, Zenon
    <3>3. CASE "warmup" \notin taken
      <4>1. warmup = Zeros(LibLen(n)) /\ \A c \in Counters : WarmedUp[c] = 0
        BY <3>3, <1>6 DEF WarmupShows, Blank
      <4>2. ASSUME NEW k \in 0..(8 + 5 * n) PROVE Slot(warmup, k) = 0
        BY <4>1, <1>2 DEF Slot, Zeros, LibLen
      <4>3. /\ \A i \in 1..n, k \in 1..4 : 1 + 5 * (i - 1) + k \in 0..(8 + 5 * n)
            /\ \A k \in 1..4 : 5 * n + k \in 0..(8 + 5 * n) /\ 5 * n + 4 + k \in 0..(8 + 5 * n)
        BY <1>2
      <4> HIDE DEF WarmedUp
      <4> QED
        BY <4>1, <4>2, <4>3, <3>1, Zenon
    <3> QED
      BY <3>2, <3>3
  <2>11. \A p \in Pools(n) : Expected(p) = [k \in 1..4 |-> Rest[Tier(p, Fields[k])]]
    BY <2>3 DEF Expected, Done, Counted
  <2> HIDE DEF WarmedUp, Rest
  <2>5. ASSUME NEW i \in 1..n PROVE Differences(1 + 5 * (i - 1) + 1) = Expected(i - 1)
    <3>1. i - 1 \in Pools(n)
      BY <1>2 DEF Pools
    <3>2. ASSUME NEW k \in 1..4
          PROVE Slot(steady, (1 + 5 * (i - 1) + 1) + k - 1) - Slot(warmup, (1 + 5 * (i - 1) + 1) + k - 1)
                = Rest[Tier(i - 1, Fields[k])]
      <4>1. (1 + 5 * (i - 1) + 1) + k - 1 = 1 + 5 * (i - 1) + k
        BY <1>2
      <4>2. /\ Slot(steady, 1 + 5 * (i - 1) + k) = totals[Tier(i - 1, Fields[k])]
            /\ Slot(warmup, 1 + 5 * (i - 1) + k) = WarmedUp[Tier(i - 1, Fields[k])]
        <5>1. Slot(steady, 1 + 5 * (i - 1) + k) = totals[Tier(i - 1, Fields[k])]
          BY <1>2, <2>1, SlotsOfSnap, Zenon
        <5> QED
          BY <5>1, <2>10, Zenon
      <4>3. Tier(i - 1, Fields[k]) \in Counters
        BY <3>1, <2>3, Zenon
      <4> QED
        BY <4>1, <4>2, <4>3, <2>4
    <3> QED
      BY <3>1, <3>2, <2>11 DEF Differences
  <2>6. Differences(TailSlot(n)) = Expected(BufPool) /\ Differences(TailSlot(n) + 4) = Expected(ChunkPool)
    <3>1. BufPool \in Pools(n) /\ ChunkPool \in Pools(n)
      BY DEF Pools
    <3>2. ASSUME NEW k \in 1..4
          PROVE /\ Slot(steady, TailSlot(n) + k - 1) - Slot(warmup, TailSlot(n) + k - 1)
                   = Rest[Tier(BufPool, Fields[k])]
                /\ Slot(steady, (TailSlot(n) + 4) + k - 1) - Slot(warmup, (TailSlot(n) + 4) + k - 1)
                   = Rest[Tier(ChunkPool, Fields[k])]
      <4>1. TailSlot(n) + k - 1 = 5 * n + k /\ (TailSlot(n) + 4) + k - 1 = 5 * n + 4 + k
        BY <1>2 DEF TailSlot
      <4>2. /\ Slot(steady, 5 * n + k) = totals[Tier(BufPool, Fields[k])]
            /\ Slot(warmup, 5 * n + k) = WarmedUp[Tier(BufPool, Fields[k])]
            /\ Slot(steady, 5 * n + 4 + k) = totals[Tier(ChunkPool, Fields[k])]
            /\ Slot(warmup, 5 * n + 4 + k) = WarmedUp[Tier(ChunkPool, Fields[k])]
        <5>1. /\ Slot(steady, 5 * n + k) = totals[Tier(BufPool, Fields[k])]
              /\ Slot(steady, 5 * n + 4 + k) = totals[Tier(ChunkPool, Fields[k])]
          BY <1>2, <2>1, SlotsOfSnap, Zenon
        <5> QED
          BY <5>1, <2>10, Zenon
      <4>3. Tier(BufPool, Fields[k]) \in Counters /\ Tier(ChunkPool, Fields[k]) \in Counters
        BY <3>1, <2>3, Zenon
      <4> QED
        BY <4>1, <4>2, <4>3, <2>4
    <3> QED
      BY <3>1, <3>2, <2>11 DEF Differences
  <2>7. /\ warmup # NoStats /\ steady # NoStats /\ ~(poolLen < 9)
    <3>1. LibLen(n) \in Nat /\ LibLen(n) >= 9
      BY <1>2 DEF LibLen
    <3>2. Len(Snap(Before)) = LibLen(n) /\ Len(Snap(totals)) = LibLen(n) /\ Len(Blank) = LibLen(n)
      BY <3>1 DEF Snap, Blank, Zeros
    <3>3. Len(warmup) = LibLen(n)
      BY <3>2, <1>6 DEF WarmupShows
    <3> QED
      BY <2>1, <3>1, <3>2, <3>3 DEF NoStats
  <2>8. CASE n > MaxTiers
    <3>1. PoolDiff = NoFigures
      BY <2>2, <2>8, <1>2, <1>3 DEF Fits
    <3>2. report' = [tiers |-> {}, buf |-> Zeros(4), chunk |-> Zeros(4)]
      BY <3>1, <1>1, <1>4
    <3> QED
      BY <3>2, <2>8, <1>1, <1>2, <1>5, <1>8 DEF FiguresAreWork, Zeros
  <2>9. CASE ~(n > MaxTiers)
    <3>1. Fits(n)
      BY <2>1, <2>9, <1>2 DEF Fits, LibLen
    <3>2. PoolDiff = Figures(n)
      BY <3>1, <2>2, <2>7, Zenon DEF PoolDiff
    <3>3. /\ DOMAIN PoolDiff.tiers = 1..n
          /\ \A i \in 1..n : PoolDiff.tiers[i].starter = starters[i] /\ PoolDiff.tiers[i].figures = Expected(i - 1)
          /\ PoolDiff.buf = Expected(BufPool) /\ PoolDiff.chunk = Expected(ChunkPool)
      BY <3>2, <2>2, <2>5, <2>6
    <3>4. {[tier |-> i - 1, figures |-> PoolDiff.tiers[i].figures] :
              i \in {j \in DOMAIN PoolDiff.tiers : PoolDiff.tiers[j].starter # 0}}
          = {[tier |-> i - 1, figures |-> Expected(i - 1)] : i \in {j \in DOMAIN starters : starters[j] # 0}}
      <4>1. DOMAIN starters = 1..n
        BY <1>2, LenProperties
      <4> QED
        BY <3>3, <4>1
    <3>5. /\ report'.tiers = {[tier |-> i - 1, figures |-> Expected(i - 1)] :
                                 i \in {j \in DOMAIN starters : starters[j] # 0}}
          /\ report'.buf = Expected(BufPool) /\ report'.chunk = Expected(ChunkPool)
      BY <1>1, <3>3, <3>4
    <3>6. \A p : Expected(p)' = Expected(p)
      BY <1>1 DEF Expected, Done, Counted
    <3> QED
      BY <3>5, <3>6, <2>9, <1>1, <1>2, <1>5, <1>8 DEF FiguresAreWork
  <2> QED
    BY <2>8, <2>9
<1> QED
    BY <1>7, <1>8

(* The snapshots do not depend on anything but the tiers and the counters. *)
LEMMA SnapKept ==
    ASSUME UNCHANGED starters, NEW t PROVE Snap(t)' = Snap(t)
BY DEF Snap, SnapSlot

LEMMA PoolInitially == PoolInit => PoolInv
<1> SUFFICES ASSUME PoolInit PROVE PoolInv
    OBVIOUS
<1>1. starters \in Seq(Nat)
  <2>1. PICK n \in LibTiers : starters \in [1..n -> Widths]
    BY Zenon DEF PoolInit
  <2>2. n \in Nat /\ starters \in [1..n -> Nat]
    BY <2>1, PoolAssumption
  <2> QED
    BY <2>2
<1>2. totals = [c \in Counters |-> 0] /\ done = totals
    BY Zenon DEF PoolInit, Counters
<1>3. totals \in [Counters -> Nat] /\ done \in [Counters -> Nat] /\ \A c \in Counters : done[c] = 0
    BY <1>2
<1>4. stage = "alloc" /\ taken = {}
    BY DEF PoolInit
<1> QED
    BY <1>1, <1>3, <1>4 DEF PoolInv, FiguresAreWork

(* Work counts on one counter, and the loop's counts it once more.         *)
LEMMA WorkCounts ==
    ASSUME totals \in [Counters -> Nat], UNCHANGED starters, NEW c \in Working, Work(c)
    PROVE  /\ c \in Counters /\ Counters' = Counters
           /\ totals' \in [Counters -> Nat]
           /\ \A d \in Counters : totals'[d] = IF d = c THEN totals[d] + 1 ELSE totals[d]
<1>1. c \in Counters
    BY DEF Working
<1>2. Counters' = Counters
    BY DEF Counters
<1>3. totals' = [totals EXCEPT ![c] = totals[c] + 1]
    BY Zenon DEF Work
<1> QED
    BY <1>1, <1>2, <1>3

LEMMA PoolStep ==
    ASSUME PoolInv, [PoolNext]_poolVars PROVE PoolInv'
<1>1. /\ starters \in Seq(Nat)
      /\ totals \in [Counters -> Nat] /\ done \in [Counters -> Nat]
      /\ stage \in {"alloc", "warming"} => taken = {} /\ \A c \in Counters : done[c] = 0
      /\ stage \in {"warming", "running", "ended"} => poolLen = LibLen(Len(starters))
      /\ stage = "warming" => warmup = Blank
      /\ stage \in {"warming", "running"} => steady = Blank
      /\ stage \in {"running", "ended"} => WarmupShows
      /\ stage = "running" => "steady" \notin taken
      /\ stage = "ended" => SteadyShows
      /\ FiguresAreWork
    BY Zenon DEF PoolInv
<1>2. ASSUME UNCHANGED starters PROVE Counters' = Counters /\ Blank' = Blank /\ \A t : Snap(t)' = Snap(t)
    BY <1>2, SnapKept DEF Counters, Blank
<1>3. ASSUME UNCHANGED <<starters, totals, done>> PROVE Before' = Before
    BY <1>3, <1>2 DEF Before
<1>4. CASE Allocate
  <2>1. /\ stage = "alloc" /\ stage' \in {"warming", "failed"} /\ poolLen' = LibLen(Len(starters))
        /\ stage' = "warming" => warmup' = Zeros(poolLen') /\ steady' = Zeros(poolLen')
        /\ UNCHANGED <<starters, totals, taken, done, report>>
    BY <1>4 DEF Allocate
  <2>2. stage' = "warming" => warmup' = Blank' /\ steady' = Blank'
    BY <2>1 DEF Blank
  <2> QED
    BY <1>1, <1>2, <2>1, <2>2 DEF PoolInv, FiguresAreWork
<1>5. CASE Warm
  <2>1. /\ stage = "warming"
        /\ UNCHANGED <<starters, stage, warmup, steady, poolLen, taken, done, report>>
    BY <1>5 DEF Warm
  <2>2. totals' \in [Counters -> Nat] /\ Counters' = Counters
    <3>1. PICK c \in Working : Work(c)
      BY <1>5, Zenon DEF Warm
    <3> QED
      BY <1>1, <2>1, <3>1, WorkCounts
  <2> QED
    BY <1>1, <1>2, <2>1, <2>2 DEF PoolInv, FiguresAreWork
<1>6. CASE TakeWarmup
  <2>1. /\ stage = "warming" /\ stage' = "running" /\ UNCHANGED <<starters, totals, steady, poolLen, done, report>>
        /\ \/ taken' = {"warmup"} /\ warmup' = LibSlots
           \/ taken' = {} /\ warmup' = Blank
    BY <1>1, <1>6 DEF TakeWarmup, Snapshot
  <2>2. Before = totals
    BY <1>1, <2>1 DEF Before
  <2>3. warmup' = IF "warmup" \in taken' THEN Snap(Before) ELSE Blank
    BY <2>1, <2>2, SnapIsLib
  <2>4. Before' = Before /\ Counters' = Counters /\ Snap(Before)' = Snap(Before) /\ Blank' = Blank
    BY <1>2, <1>3, <2>1
  <2>5. /\ starters' \in Seq(Nat) /\ totals' \in [Counters' -> Nat] /\ done' \in [Counters' -> Nat]
        /\ poolLen' = LibLen(Len(starters')) /\ "steady" \notin taken' /\ steady' = Blank'
    BY <1>1, <2>1, <2>4
  <2>6. WarmupShows'
    BY <2>3, <2>4, SnapKept, <2>1 DEF WarmupShows
  <2> QED
    BY <2>1, <2>5, <2>6 DEF PoolInv, FiguresAreWork
<1>7. CASE Run
  <2>1. /\ stage = "running"
        /\ UNCHANGED <<starters, stage, warmup, steady, poolLen, taken, report>>
    BY <1>7 DEF Run
  <2>2. PICK c \in Working : Work(c) /\ done' = [done EXCEPT ![c] = done[c] + 1]
    BY <1>7, Zenon DEF Run
  <2>3. /\ c \in Counters /\ Counters' = Counters /\ totals' \in [Counters -> Nat]
        /\ \A d \in Counters : totals'[d] = IF d = c THEN totals[d] + 1 ELSE totals[d]
    BY <1>1, <2>1, <2>2, WorkCounts
  <2>4. done' \in [Counters -> Nat] /\ \A d \in Counters : done'[d] = IF d = c THEN done[d] + 1 ELSE done[d]
    BY <1>1, <2>2, <2>3
  <2>5. \A d \in Counters : totals'[d] - done'[d] = totals[d] - done[d]
    <3> TAKE d \in Counters
    <3>1. totals[d] \in Nat /\ done[d] \in Nat
      BY <1>1
    <3>2. CASE d = c
      BY <3>1, <3>2, <2>3, <2>4
    <3>3. CASE d # c
      BY <3>1, <3>3, <2>3, <2>4
    <3> QED
      BY <3>2, <3>3
  <2>6. Before' = Before
    BY <2>3, <2>5 DEF Before
  <2>7. WarmupShows' /\ steady' = Blank'
    BY <1>1, <1>2, <2>1, <2>6, SnapKept DEF WarmupShows
  <2> QED
    BY <1>1, <2>1, <2>3, <2>4, <2>7 DEF PoolInv, FiguresAreWork
<1>8. CASE TakeSteady
  <2>1. /\ stage = "running" /\ stage' = "ended"
        /\ UNCHANGED <<starters, totals, warmup, poolLen, done, report>>
        /\ \/ taken' = taken /\ steady' = Blank
           \/ taken' = taken \cup {"steady"} /\ steady' = LibSlots
    BY <1>1, <1>8 DEF TakeSteady, Snapshot
  <2>2. steady' = IF "steady" \in taken' THEN Snap(totals) ELSE Blank
    BY <1>1, <2>1, SnapIsLib
  <2>3. Before' = Before /\ Counters' = Counters /\ Blank' = Blank
    BY <1>2, <1>3, <2>1
  <2>4. "warmup" \in taken' <=> "warmup" \in taken
    BY <2>1
  <2>5. WarmupShows' /\ SteadyShows'
    BY <1>1, <2>1, <2>2, <2>3, <2>4, SnapKept DEF WarmupShows, SteadyShows
  <2> QED
    BY <1>1, <2>1, <2>3, <2>5 DEF PoolInv, FiguresAreWork
<1>9. CASE Report
  <2>1. stage' = "reported" /\ UNCHANGED <<starters, totals, warmup, steady, poolLen, taken, done>>
    BY <1>9 DEF Report
  <2>2. FiguresAreWork'
    BY <1>9, ReportIsWork
  <2> QED
    BY <1>1, <1>2, <2>1, <2>2 DEF PoolInv
<1>10. CASE UNCHANGED poolVars
  <2>1. UNCHANGED <<starters, totals, stage, warmup, steady, poolLen, taken, done, report>>
    BY <1>10 DEF poolVars
  <2>2. /\ Counters' = Counters /\ Before' = Before /\ Blank' = Blank
        /\ Snap(Before)' = Snap(Before) /\ Snap(totals)' = Snap(totals)
    BY <1>2, <1>3, <2>1
  <2>3. FiguresAreWork'
    <3>1. \A p : Expected(p)' = Expected(p)
      BY <2>1 DEF Expected, Done, Counted
    <3>2. FiguresAreWork
      BY <1>1
    <3> QED
      BY <2>1, <3>1, <3>2 DEF FiguresAreWork
  <2>4. (WarmupShows' <=> WarmupShows) /\ (SteadyShows' <=> SteadyShows)
    BY <2>1, <2>2 DEF WarmupShows, SteadyShows
  <2> QED
    BY <1>1, <2>1, <2>2, <2>3, <2>4 DEF PoolInv
<1> QED
    BY <1>4, <1>5, <1>6, <1>7, <1>8, <1>9, <1>10, Zenon DEF PoolNext, Stopped

(* The figures of the report are, pool by pool and field by field, what    *)
(* the main loop did between the two snapshots, and what has been counted  *)
(* in all when the first one failed: pool_diff and final_summary, for      *)
(* every number of tiers and any work.                                     *)
THEOREM FiguresAreTheWork == PoolSpec => []FiguresAreWork
<1>1. PoolInit => PoolInv
    BY PoolInitially
<1>2. PoolInv /\ [PoolNext]_poolVars => PoolInv'
    BY PoolStep
<1>3. PoolInv => FiguresAreWork
    BY DEF PoolInv
<1> QED
    BY <1>1, <1>2, <1>3, PTL DEF PoolSpec

-----------------------------------------------------------------------------
(* Sizes: parse_size and the grammar agree on every text. *)

(* The least and the greatest of a nonempty set of bounded naturals.       *)
LEMMA MinIsLeast ==
    ASSUME NEW S, S \subseteq Nat, S # {}
    PROVE  Min(S) \in S /\ \A y \in S : Min(S) <= y
<1>1. PICK x \in S : \A y \in S : ~(<<y, x>> \in OpToRel(<, Nat))
    BY WFMin, NatLessThanWellFounded
<1>2. ASSUME NEW y \in S PROVE x <= y
  <2>1. y < x => <<y, x>> \in OpToRel(<, Nat)
    BY Zenon DEF OpToRel
  <2>2. ~(y < x)
    BY <1>1, <2>1, Zenon
  <2>3. x \in Nat /\ y \in Nat
    OBVIOUS
  <2> QED
    BY <2>2, <2>3
<1> QED
    BY <1>2 DEF Min

LEMMA MaxIsGreatest ==
    ASSUME NEW S, NEW n \in Nat, S \subseteq 0..n, S # {}
    PROVE  Max(S) \in S /\ \A y \in S : y <= Max(S)
<1> DEFINE T == {n - y : y \in S}
           x == n - Min(T)
<1>1. \A y \in S : y \in 0..n /\ n - y \in Nat /\ n - y \in T
    OBVIOUS
<1>2. T \subseteq Nat /\ T # {} /\ \A z \in T : \E y \in S : z = n - y
    BY <1>1, Zenon
<1> HIDE DEF T
<1>3. Min(T) \in T /\ \A z \in T : Min(T) <= z
    BY <1>2, MinIsLeast
<1>4. x \in S
  <2>1. PICK y \in S : Min(T) = n - y
    BY <1>2, <1>3
  <2> QED
    BY <1>1, <2>1
<1>5. \A y \in S : x >= y
  <2> TAKE y \in S
  <2>1. Min(T) <= n - y /\ Min(T) \in Nat /\ y \in 0..n
    BY <1>1, <1>2, <1>3
  <2> QED
    BY <2>1
<1> QED
  <2>1. \E y \in S : \A z \in S : y >= z
    BY <1>4, <1>5
  <2>2. Max(S) \in S /\ \A z \in S : Max(S) >= z
    BY <2>1, Zenon DEF Max
  <2> QED
    BY <1>1, <2>2

(* The characters of a size: a digit, a letter of a suffix and a space are *)
(* three things, and no letter becomes a space as it is capitalised.       *)
SuffixLetters == {"K", "M", "G", "I", "B"}

(* The digits are ten strings, apart from the letters of the suffixes and  *)
(* from the spaces; capitals leave spaces as they are.                     *)
LEMMA DigitsAre == Digits = {"0", "1", "2", "3", "4", "5", "6", "7", "8", "9"}
<1>1. DOMAIN Decimal = 0 + 1 .. 10
    BY DEF Decimal
<1> QED
    BY <1>1 DEF Digits, ToSet, Decimal

LEMMA CharsApart ==
    /\ \A c \in SuffixLetters : c \notin Digits /\ c \notin Spaces
    /\ \A c \in Digits : c \notin Spaces
<1> DEFINE sp == " "
<1>1. sp \notin SuffixLetters
    BY Zenon DEF SuffixLetters
<1>2. sp \notin Digits
    BY DigitsAre, Zenon
<1>3. \A c \in SuffixLetters : c \notin Digits
    BY DigitsAre DEF SuffixLetters
<1>4. Spaces = {sp}
    BY DEF Spaces
<1> HIDE DEF sp
<1> QED
    BY <1>1, <1>2, <1>3, <1>4

LEMMA SpaceStays == \A c : Upper(c) \in Spaces <=> c \in Spaces
<1> DEFINE sp == " "
<1>1. sp \notin {"k", "m", "i", "b", "K", "M", "I", "B"}
    BY Zenon
<1>2. Spaces = {sp}
    BY DEF Spaces
<1> HIDE DEF sp
<1> QED
    BY <1>1, <1>2, Zenon DEF Upper

(* A digit has a value, and so has a text of digits: the recursion that    *)
(* counts it is defined at every length (by the least length without).     *)
LEMMA DigitIsNumber == \A c \in Digits : DigitValue[c] \in Nat
<1>1. \A c \in Digits : \E v \in 0..9 : Decimal[v + 1] = c
  <2> TAKE c \in Digits
  <2>1. PICK i \in DOMAIN Decimal : Decimal[i] = c
    BY DEF Digits, ToSet
  <2>2. i - 1 \in 0..9 /\ (i - 1) + 1 = i
    BY DEF Decimal
  <2> QED
    BY <2>1, <2>2
<1>2. \A c \in Digits : DigitValue[c] \in 0..9
    BY <1>1, Zenon DEF DigitValue
<1> QED
    BY <1>2

(* f[k] is what the first k digits of d come to.                           *)
Counts(d, m, f) ==
    f = [k \in 0..m |-> IF k = 0 THEN 0 ELSE 10 * f[k - 1] + DigitValue[d[k]]]

LEMMA CountsByStep ==
    ASSUME NEW m \in Nat, NEW d, NEW f
    PROVE  /\ Counts(d, m, f) =>
                \A k \in 0..m : f[k] = IF k = 0 THEN 0 ELSE 10 * f[k - 1] + DigitValue[d[k]]
           /\ /\ f = [k \in 0..m |-> f[k]]
              /\ \A k \in 0..m : f[k] = IF k = 0 THEN 0 ELSE 10 * f[k - 1] + DigitValue[d[k]]
              => Counts(d, m, f)
BY DEF Counts

LEMMA CountsDefined ==
    ASSUME NEW n \in Nat, NEW d
    PROVE  \E f : Counts(d, n, f)
<1> DEFINE Missing == {m \in Nat : ~\E f : Counts(d, m, f)}
<1>1. SUFFICES ASSUME Missing # {} PROVE FALSE
    OBVIOUS
<1>2. PICK m \in Missing : \A k \in Missing : ~(<<k, m>> \in OpToRel(<, Nat))
    BY <1>1, WFMin, NatLessThanWellFounded
<1>3. m \in Nat /\ ~\E f : Counts(d, m, f)
    OBVIOUS
<1>4. m # 0
  <2>1. Counts(d, 0, [k \in 0..0 |-> 0])
    BY DEF Counts
  <2> QED
    BY <2>1, <1>3
<1>5. m - 1 \in Nat /\ m - 1 < m
    BY <1>3, <1>4
<1>6. <<m - 1, m>> \in OpToRel(<, Nat)
    BY <1>3, <1>5, Zenon DEF OpToRel
<1>7. m - 1 \notin Missing
    BY <1>2, <1>6, Zenon
<1>8. PICK f : Counts(d, m - 1, f)
    BY <1>5, <1>7
<1> DEFINE g == [k \in 0..m |-> IF k = m THEN 10 * f[m - 1] + DigitValue[d[m]] ELSE f[k]]
<1>9. ASSUME NEW k \in 0..m
      PROVE  g[k] = IF k = 0 THEN 0 ELSE 10 * g[k - 1] + DigitValue[d[k]]
  <2>1. CASE k = m
    <3>1. k - 1 \in 0..m /\ g[k - 1] = f[m - 1] /\ k # 0
      BY <1>3, <1>4, <2>1
    <3> QED
      BY <2>1, <3>1
  <2>2. CASE k # m
    <3>1. k \in 0..(m - 1) /\ g[k] = f[k]
      BY <1>3, <2>2
    <3>2. f[k] = IF k = 0 THEN 0 ELSE 10 * f[k - 1] + DigitValue[d[k]]
      BY <1>5, <1>8, <3>1, CountsByStep
    <3>3. k # 0 => g[k - 1] = f[k - 1]
      BY <1>3, <3>1
    <3> QED
      BY <3>1, <3>2, <3>3
  <2> QED
    BY <2>1, <2>2
<1>10. g = [k \in 0..m |-> g[k]]
    OBVIOUS
<1> HIDE DEF g
<1>11. Counts(d, m, g)
    BY <1>3, <1>9, <1>10, CountsByStep
<1> QED
    BY <1>3, <1>11

(* What strtoll reads of digits is a number.                               *)
LEMMA NumberIsNat ==
    ASSUME NEW d, Len(d) \in Nat, \A i \in 1..Len(d) : d[i] \in Digits
    PROVE  NumberOf(d) \in Nat
<1> DEFINE n == Len(d)
<1>1. NumberOf(d) = (CHOOSE f : Counts(d, n, f))[n]
    BY Zenon DEF NumberOf, Counts
<1> HIDE DEF n
<1>2. PICK f : f = (CHOOSE g : Counts(d, n, g)) /\ Counts(d, n, f)
  <2>1. \E f : Counts(d, n, f)
    BY CountsDefined DEF n
  <2> QED
    BY <2>1, Zenon
<1>3. n \in Nat /\ \A k \in 0..n : f[k] = IF k = 0 THEN 0 ELSE 10 * f[k - 1] + DigitValue[d[k]]
    BY <1>2, CountsByStep DEF n
<1> DEFINE Wrong == {k \in Nat : k \in 0..n /\ f[k] \notin Nat}
<1>4. Wrong = {}
  <2>1. SUFFICES ASSUME Wrong # {} PROVE FALSE
    OBVIOUS
  <2>2. PICK k \in Wrong : \A j \in Wrong : ~(<<j, k>> \in OpToRel(<, Nat))
    BY <2>1, WFMin, NatLessThanWellFounded
  <2>3. k \in Nat /\ k \in 0..n /\ f[k] \notin Nat
    OBVIOUS
  <2>4. k # 0
    BY <1>3, <2>3
  <2>5. k - 1 \in Nat /\ k - 1 \in 0..n /\ k - 1 < k /\ k \in 1..n
    BY <1>3, <2>3, <2>4
  <2>6. <<k - 1, k>> \in OpToRel(<, Nat)
    BY <2>3, <2>5, Zenon DEF OpToRel
  <2>7. k - 1 \notin Wrong
    BY <2>2, <2>6, Zenon
  <2>8. f[k - 1] \in Nat
    BY <2>5, <2>7
  <2>9. DigitValue[d[k]] \in Nat
    BY <2>5, DigitIsNumber DEF n
  <2>10. f[k] = 10 * f[k - 1] + DigitValue[d[k]]
    BY <1>3, <2>3, <2>4
  <2> QED
    BY <2>3, <2>8, <2>9, <2>10
<1> QED
  <2>1. n \in 0..n
    BY <1>3
  <2>2. f[n] \in Nat
    BY <1>3, <1>4, <2>1
  <2> QED
    BY <1>1, <1>2, <2>2

UnitLetters == {"K", "M", "G"}

(* The rows of the table are the suffixes of the grammar, each with its    *)
(* multiple, and all but the last one start with the letter of a unit.     *)
Shape(k) ==
    LET text == SuffixTable[k].text
    IN IF k = 10 THEN text = <<"B">>
       ELSE \E u \in UnitLetters : text \in {<<u>>, <<u, "B">>, <<u, "I", "B">>}

(* The table holds exactly the suffixes of the grammar.                    *)
LEMMA TableRows ==
    /\ DOMAIN SuffixTable = 1..10
    /\ \A k \in 1..10 : /\ Shape(k)
                        /\ SuffixTable[k].text \in DOMAIN SizeSuffix \ {<< >>}
                        /\ SuffixTable[k].mult = SizeSuffix[SuffixTable[k].text]
    /\ \A x \in DOMAIN SizeSuffix \ {<< >>} : \E k \in 1..10 : SuffixTable[k].text = x
<1>1. DOMAIN SuffixTable = 1..10
    BY DEF SuffixTable
<1>2. \A k \in 1..10 : Shape(k)
    BY DEF Shape, UnitLetters, SuffixTable, Row
<1>3. \A k \in 1..10 : SuffixTable[k].text \in DOMAIN SizeSuffix \ {<< >>}
    BY DEF SuffixTable, Row, SizeSuffix
<1>4. \A k \in 1..10 : SuffixTable[k].mult = SizeSuffix[SuffixTable[k].text]
    BY DEF SuffixTable, Row, SizeSuffix
<1>5. \A x \in DOMAIN SizeSuffix \ {<< >>} : \E k \in 1..10 : SuffixTable[k].text = x
    BY DEF SuffixTable, Row, SizeSuffix
<1> QED
    BY <1>1, <1>2, <1>3, <1>4, <1>5

(* A multiple is a positive number.                                        *)
LEMMA MultIsPositive == \A x \in DOMAIN SizeSuffix : SizeSuffix[x] \in Nat \ {0}
<1>1. /\ Base \in Nat \ {0} /\ Base * Base \in Nat \ {0} /\ Base * Base * Base \in Nat \ {0}
    BY SizesAssumption
<1> QED
    BY <1>1 DEF SizeSuffix

(* A suffix is a text of one to three letters, or of none.                 *)
LEMMA SuffixText ==
    ASSUME NEW x \in DOMAIN SizeSuffix
    PROVE  /\ x \in Seq(SuffixLetters) /\ Len(x) \in 0..3 /\ (x # << >> => Len(x) \in 1..3)
           /\ \A i \in 1..Len(x) : x[i] \in SuffixLetters
<1>1. CASE x = << >>
    BY <1>1
<1>2. CASE x # << >>
  <2>1. PICK k \in 1..10 : x = SuffixTable[k].text /\ Shape(k)
    BY <1>2, TableRows
  <2>2. PICK u \in SuffixLetters : x \in {<<u>>, <<u, "B">>, <<u, "I", "B">>}
    BY <2>1 DEF Shape, UnitLetters, SuffixLetters
  <2>3. "B" \in SuffixLetters /\ "I" \in SuffixLetters
    BY DEF SuffixLetters
  <2>4. CASE x = <<u>>
    BY <2>4
  <2>5. CASE x = <<u, "B">>
    BY <2>3, <2>5
  <2>6. CASE x = <<u, "I", "B">>
    BY <2>3, <2>6
  <2> QED
    BY <2>2, <2>4, <2>5, <2>6
<1> QED
    BY <1>1, <1>2

(* y is what t ends in, letter by letter.                                  *)
EndsInText(t, y) ==
    Len(y) <= Len(t) /\ \A i \in 1..Len(y) : y[i] = t[Len(t) - Len(y) + i]

(* A matching suffix matches letter by letter.                             *)
LEMMA EndMatches ==
    ASSUME NEW S, NEW t \in Seq(S), NEW y, Len(y) \in Nat, EndsWith(t, y)
    PROVE  EndsInText(t, y)
<1> DEFINE m == Len(t)
           lo == m - Len(y) + 1
           tail == SubSeq(t, lo, m)
<1>1. m \in Nat /\ Len(y) <= m /\ tail = y /\ lo \in 1..m + 1
    BY LenProperties DEF EndsWith
<1>2. \A i \in lo..m : t[i] \in S
    BY <1>1, ElementOfSeq
<1>3. \A i \in 1..m - lo + 1 : tail[i] = t[lo + i - 1]
    BY <1>1, <1>2, SubSeqProperties
<1>4. \A i \in 1..Len(y) : i \in 1..m - lo + 1 /\ lo + i - 1 = m - Len(y) + i
    BY <1>1
<1> HIDE DEF tail
<1> QED
    BY <1>1, <1>3, <1>4 DEF EndsInText

(* t is d digits, spaces, and the suffix x.                                *)
Parts(t, d, x) ==
    /\ x \in DOMAIN SizeSuffix
    /\ d \in 1..Len(t) - Len(x)
    /\ \A i \in 1..d : t[i] \in Digits
    /\ \A i \in d + 1..Len(t) - Len(x) : t[i] \in Spaces
    /\ EndsWith(t, x)

(* The letters of the suffixes of a unit, by their number.                 *)
LEMMA UnitShape ==
    ASSUME NEW u, NEW y, y \in {<<u>>, <<u, "B">>, <<u, "I", "B">>}
    PROVE  /\ y[1] = u
           /\ \/ Len(y) = 1
              \/ Len(y) = 2 /\ y[2] = "B"
              \/ Len(y) = 3 /\ y[2] = "I" /\ y[3] = "B"
<1>1. CASE y = <<u>>
    BY <1>1
<1>2. CASE y = <<u, "B">>
    BY <1>2
<1>3. CASE y = <<u, "I", "B">>
    BY <1>3
<1> QED
    BY <1>1, <1>2, <1>3

(* However a text is taken apart, the suffix of that is the one the table  *)
(* finds: no shorter one comes before it, and a longer one does not match. *)
LEMMA SuffixIsFound ==
    ASSUME NEW S, NEW t \in Seq(S), NEW d, NEW x, Parts(t, d, x)
    PROVE  Suffix(t).text = x /\ Suffix(t).mult = SizeSuffix[x]
<1> DEFINE m == Len(t)
           e == m - Len(x)
           matching == {k \in DOMAIN SuffixTable : EndsWith(t, SuffixTable[k].text)}
<1>1. m \in Nat /\ Len(x) \in 0..3 /\ d \in 1..e /\ e \in 1..m /\ x \in DOMAIN SizeSuffix /\ EndsWith(t, x)
    BY LenProperties, SuffixText DEF Parts
<1>2. t[e] \notin SuffixLetters
  <2>1. e = d \/ e \in d + 1..e
    BY <1>1
  <2> QED
    BY <1>1, <2>1, CharsApart DEF Parts
<1>3. ASSUME NEW k \in 1..10, EndsWith(t, SuffixTable[k].text)
      PROVE  Len(SuffixTable[k].text) <= Len(x)
  <2> DEFINE y == SuffixTable[k].text
             i == Len(y) - Len(x)
  <2>1. y \in DOMAIN SizeSuffix
    BY TableRows
  <2>2. Len(y) \in 0..3 /\ \A j \in 1..Len(y) : y[j] \in SuffixLetters
    BY <2>1, SuffixText
  <2>3. Len(y) <= m /\ \A j \in 1..Len(y) : y[j] = t[m - Len(y) + j]
    <3>1. EndsInText(t, y)
      BY <1>3, <2>2, EndMatches
    <3> QED
      BY <3>1 DEF EndsInText
  <2> HIDE DEF y, m
  <2>4. SUFFICES ASSUME Len(y) > Len(x) PROVE FALSE
    BY <1>1, <2>2 DEF y
  <2>5. i \in 1..Len(y) /\ m - Len(y) + i = e
    BY <1>1, <2>2, <2>4
  <2> QED
    BY <1>2, <2>2, <2>3, <2>5
<1>4. \A k \in 1..10 : SuffixTable[k].text # << >> /\ Len(SuffixTable[k].text) \in 1..3
    BY TableRows, SuffixText
<1>5. CASE x = << >>
  <2>1. matching = {}
    BY <1>3, <1>4, <1>5, TableRows
  <2>2. Suffix(t) = Row(<< >>, 1)
    BY <2>1, Zenon DEF Suffix
  <2>3. SizeSuffix[<< >>] = 1
    BY DEF SizeSuffix
  <2> QED
    BY <1>5, <2>2, <2>3 DEF Row
<1>6. CASE x # << >>
  <2> DEFINE j == Min(matching)
             y == SuffixTable[j].text
  <2>1. PICK k \in 1..10 : SuffixTable[k].text = x
    BY <1>1, <1>6, TableRows
  <2>2. k \in matching /\ matching \subseteq Nat
    BY <1>1, <2>1, TableRows
  <2>3. j \in matching /\ j <= k
    BY <2>2, MinIsLeast
  <2>4. Suffix(t) = SuffixTable[j]
    BY <2>2, Zenon DEF Suffix
  <2>5. j \in 1..10 /\ EndsWith(t, y)
    BY <2>3, TableRows
  <2> HIDE DEF j, matching
  <2>6. Len(y) \in 1..3 /\ Len(y) <= Len(x) /\ Shape(j) /\ Shape(k) /\ Len(x) \in 1..3
    BY <1>3, <1>4, <2>1, <2>5, TableRows
  <2>7. /\ \A i \in 1..Len(y) : y[i] = t[m - Len(y) + i]
        /\ \A i \in 1..Len(x) : x[i] = t[m - Len(x) + i]
    <3>1. EndsInText(t, y) /\ EndsInText(t, x)
      BY <1>1, <2>5, <2>6, EndMatches
    <3> QED
      BY <3>1 DEF EndsInText
  <2>8. CASE Len(y) = Len(x)
    <3>1. y = x
      BY <1>1, <2>5, <2>8 DEF EndsWith
    <3>2. SuffixTable[j].mult = SizeSuffix[SuffixTable[j].text]
      BY <2>5, TableRows
    <3> QED
      BY <2>4, <3>1, <3>2
  <2>9. CASE Len(y) < Len(x)
    <3>1. y[Len(y)] = x[Len(x)] /\ (Len(y) = 2 /\ Len(x) = 3 => y[1] = x[2])
      <4> DEFINE p == Len(y)
                 q == Len(x)
      <4>1. p \in 1..3 /\ q \in 1..3 /\ m \in Nat
        BY <1>1, <2>6
      <4>2. /\ \A i \in 1..p : y[i] = t[m - p + i]
            /\ \A i \in 1..q : x[i] = t[m - q + i]
        BY <2>7
      <4> HIDE DEF p, q, y, m
      <4>3. y[p] = t[m] /\ x[q] = t[m]
        <5>1. p \in 1..p /\ q \in 1..q /\ m - p + p = m /\ m - q + q = m
          BY <4>1
        <5> QED
          BY <4>2, <5>1
      <4>4. ASSUME p = 2, q = 3 PROVE y[1] = x[2]
        <5>1. 1 \in 1..p /\ 2 \in 1..q /\ m - p + 1 = m - q + 2
          BY <4>1, <4>4
        <5> QED
          BY <4>2, <5>1
      <4> QED
        BY <4>3, <4>4 DEF p, q, y
    <3>2. k # 10
      BY <2>1, <2>6, <2>9 DEF Shape
    <3>3. j # 10
      BY <2>3, <2>5, <3>2
    <3>4. PICK u \in UnitLetters : y \in {<<u>>, <<u, "B">>, <<u, "I", "B">>}
      BY <2>6, <3>3 DEF Shape
    <3>5. PICK v \in UnitLetters : x \in {<<v>>, <<v, "B">>, <<v, "I", "B">>}
      BY <2>1, <2>6, <3>2 DEF Shape
    <3>6. u # "B" /\ u # "I"
      BY DEF UnitLetters
    <3>7. /\ y[1] = u
          /\ Len(y) = 1 \/ (Len(y) = 2 /\ y[2] = "B") \/ (Len(y) = 3 /\ y[2] = "I" /\ y[3] = "B")
      BY <3>4, UnitShape
    <3>8. Len(x) = 1 \/ (Len(x) = 2 /\ x[2] = "B") \/ (Len(x) = 3 /\ x[2] = "I" /\ x[3] = "B")
      BY <3>5, UnitShape
    <3> DEFINE p == Len(y)
               q == Len(x)
    <3>9. p \in 1..3 /\ q \in 1..3 /\ p < q
      BY <2>6, <2>9
    <3>10. /\ q = 2 => x[q] = "B"
           /\ q = 3 => x[q] = "B" /\ x[2] = "I"
      BY <3>8
    <3>11. /\ y[p] = x[q] /\ (p = 2 /\ q = 3 => y[1] = x[2])
           /\ y[1] # "B" /\ y[1] # "I"
      BY <3>1, <3>6, <3>7, Zenon
    <3> HIDE DEF p, q, y
    <3>12. CASE p = 1
      <4>1. q = 2 \/ q = 3
        BY <3>9, <3>12
      <4>2. x[q] = "B" /\ y[1] = x[q]
        BY <3>10, <3>11, <3>12, <4>1
      <4> QED
        BY <3>11, <4>2, Zenon
    <3>13. CASE p # 1
      <4>1. p = 2 /\ q = 3
        BY <3>9, <3>13
      <4> QED
        BY <3>10, <3>11, <4>1, Zenon
    <3> QED
      BY <3>12, <3>13
  <2> QED
    BY <2>6, <2>8, <2>9
<1> QED
    BY <1>5, <1>6

(* The suffix the code finds is one of the grammar, stands at the end of   *)
(* the text, and carries its multiple.                                     *)
LEMMA SuffixMatches ==
    ASSUME NEW S, NEW t \in Seq(S)
    PROVE  /\ Suffix(t).text \in DOMAIN SizeSuffix /\ EndsWith(t, Suffix(t).text)
           /\ Suffix(t).mult = SizeSuffix[Suffix(t).text]
<1> DEFINE matching == {k \in DOMAIN SuffixTable : EndsWith(t, SuffixTable[k].text)}
<1>1. CASE matching = {}
  <2>1. Suffix(t) = Row(<< >>, 1)
    BY <1>1, Zenon DEF Suffix
  <2>2. Len(t) \in Nat /\ Len(<< >>) = 0 /\ SubSeq(t, Len(t) - 0 + 1, Len(t)) = << >>
    BY LenProperties, SubSeqEmpty
  <2>3. EndsWith(t, << >>)
    BY <2>2 DEF EndsWith
  <2>4. << >> \in DOMAIN SizeSuffix /\ SizeSuffix[<< >>] = 1
    BY DEF SizeSuffix
  <2> QED
    BY <2>1, <2>3, <2>4 DEF Row
<1>2. CASE matching # {}
  <2> DEFINE j == Min(matching)
  <2>1. j \in matching
    <3>1. matching \subseteq Nat
      BY TableRows
    <3> HIDE DEF matching
    <3> QED
      BY <1>2, <3>1, MinIsLeast
  <2>2. Suffix(t) = SuffixTable[j]
    BY <1>2, Zenon DEF Suffix
  <2>3. j \in 1..10 /\ EndsWith(t, SuffixTable[j].text)
    BY <2>1, TableRows
  <2> HIDE DEF j, matching
  <2> QED
    BY <2>2, <2>3, TableRows
<1> QED
    BY <1>1, <1>2

(* What is left before the suffix: up to its last character that is no     *)
(* space.                                                                  *)
Stem(t, c) ==
    LET e == Len(t) - Len(Suffix(t).text)
    IN /\ e \in 0..Len(t) /\ c \in 0..e
       /\ BeforeSuffix(t) = SubSeq(t, 1, c) /\ Len(BeforeSuffix(t)) = c
       /\ \A i \in 1..c : BeforeSuffix(t)[i] = t[i]
       /\ c # 0 => t[c] \notin Spaces
       /\ \A i \in c + 1..e : t[i] \in Spaces

(* What is left has such an end.                                           *)
LEMMA StemIsThere ==
    ASSUME NEW S, NEW t \in Seq(S)
    PROVE  \E c : Stem(t, c)
<1> DEFINE m == Len(t)
           x == Suffix(t).text
           e == m - Len(x)
           rest == SubSeq(t, 1, e)
           inked == {0} \cup {i \in DOMAIN rest : rest[i] \notin Spaces}
           c == Max(inked)
<1>1. m \in Nat /\ Len(x) \in 0..3 /\ Len(x) <= m
    BY SuffixMatches, SuffixText, LenProperties DEF EndsWith
<1>2. e \in 0..m /\ \A i \in 1..m : t[i] \in S
    BY <1>1, ElementOfSeq
<1>3. rest \in Seq(S) /\ Len(rest) = e /\ DOMAIN rest = 1..e /\ \A i \in 1..e : rest[i] = t[i]
  <2>1. \A i \in 1..e : t[i] \in S
    BY <1>2
  <2>2. /\ rest \in Seq(S) /\ Len(rest) = IF 1 <= e THEN e - 1 + 1 ELSE 0
        /\ \A i \in 1..e - 1 + 1 : rest[i] = t[1 + i - 1]
    BY <1>2, <2>1, SubSeqProperties
  <2> HIDE DEF e, rest
  <2> QED
    BY <1>2, <2>2, LenProperties
<1>4. BeforeSuffix(t) = SubSeq(rest, 1, c)
    BY Zenon DEF BeforeSuffix
<1> HIDE DEF e, rest
<1>5. inked \subseteq 0..e /\ 0 \in inked
    BY <1>2, <1>3
<1>6. c \in inked /\ \A i \in inked : i <= c
  <2>1. e \in Nat /\ inked # {}
    BY <1>2, <1>5
  <2> HIDE DEF inked
  <2> QED
    BY <1>5, <2>1, MaxIsGreatest
<1>7. c \in 0..e /\ (c # 0 => t[c] \notin Spaces) /\ \A i \in c + 1..e : t[i] \in Spaces
  <2>1. c \in 0..e /\ (c # 0 => c \in 1..e /\ rest[c] \notin Spaces)
    BY <1>2, <1>3, <1>5, <1>6
  <2>2. ASSUME NEW i \in c + 1..e PROVE rest[i] \in Spaces
    <3>1. i \in 1..e /\ ~(i <= c)
      BY <1>2, <2>1
    <3> QED
      BY <1>3, <1>6, <3>1
  <2> HIDE DEF c
  <2>3. \A i \in c + 1..e : i \in 1..e
    BY <1>2, <2>1
  <2> QED
    BY <1>3, <2>1, <2>2, <2>3
<1> HIDE DEF c
<1>8. /\ SubSeq(rest, 1, c) = SubSeq(t, 1, c) /\ Len(SubSeq(rest, 1, c)) = c
      /\ \A i \in 1..c : SubSeq(rest, 1, c)[i] = t[i]
  <2> DEFINE u == SubSeq(rest, 1, c)
             v == SubSeq(t, 1, c)
  <2>1. c \in Int /\ \A i \in 1..c : rest[i] = t[i] /\ rest[i] \in S /\ t[i] \in S
    BY <1>2, <1>3, <1>7
  <2>2. /\ u \in Seq(S) /\ Len(u) = IF 1 <= c THEN c - 1 + 1 ELSE 0
        /\ \A i \in 1..c - 1 + 1 : u[i] = rest[1 + i - 1]
    BY <2>1, SubSeqProperties
  <2>3. /\ v \in Seq(S) /\ Len(v) = IF 1 <= c THEN c - 1 + 1 ELSE 0
        /\ \A i \in 1..c - 1 + 1 : v[i] = t[1 + i - 1]
    BY <2>1, SubSeqProperties
  <2> HIDE DEF u, v
  <2>4. Len(u) = c /\ Len(v) = c /\ \A i \in 1..c : u[i] = t[i] /\ v[i] = t[i]
    BY <1>2, <1>7, <2>1, <2>2, <2>3
  <2>5. u = v
    BY <2>2, <2>3, <2>4, SeqEqual
  <2> QED
    BY <2>4, <2>5 DEF u, v
<1>9. Stem(t, c)
    BY <1>2, <1>4, <1>7, <1>8 DEF Stem, e
<1> QED
    BY <1>9

(* The digits of a text taken apart are what the code takes for a number;  *)
(* and when that is digits, it is the number of a text taken apart.        *)
LEMMA DigitsAreFound ==
    ASSUME NEW S, NEW t \in Seq(S), NEW d, NEW x, Parts(t, d, x)
    PROVE  BeforeSuffix(t) = SubSeq(t, 1, d) /\ Len(BeforeSuffix(t)) = d
<1>1. Suffix(t).text = x
    BY SuffixIsFound
<1>2. PICK c : Stem(t, c)
    BY StemIsThere
<1>3. c = d
  <2> DEFINE e == Len(t) - Len(x)
  <2>1. /\ e \in 0..Len(t) /\ c \in 0..e /\ (c # 0 => t[c] \notin Spaces)
        /\ \A i \in c + 1..e : t[i] \in Spaces
    BY <1>1, <1>2 DEF Stem
  <2>2. d \in 1..e /\ (\A i \in 1..d : t[i] \in Digits) /\ \A i \in d + 1..e : t[i] \in Spaces
    BY DEF Parts
  <2> HIDE DEF e
  <2>3. e \in Nat /\ c \in Nat /\ d \in Nat
    BY <2>1, <2>2, LenProperties
  <2>4. ~(d < c)
    <3>1. d < c => c # 0 /\ c \in d + 1..e
      BY <2>1, <2>2, <2>3
    <3> QED
      BY <2>1, <2>2, <3>1
  <2>5. ~(c < d)
    <3>1. c < d => d \in c + 1..e /\ d \in 1..d
      BY <2>1, <2>2, <2>3
    <3> QED
      BY <2>1, <2>2, <3>1, CharsApart
  <2> QED
    BY <2>3, <2>4, <2>5
<1> QED
    BY <1>2, <1>3 DEF Stem

LEMMA PartsAreThere ==
    ASSUME NEW S, NEW t \in Seq(S), BeforeSuffix(t) # << >>,
           \A i \in DOMAIN BeforeSuffix(t) : BeforeSuffix(t)[i] \in Digits
    PROVE  Parts(t, Len(BeforeSuffix(t)), Suffix(t).text)
<1>1. PICK c : Stem(t, c)
    BY StemIsThere
<1> DEFINE b == BeforeSuffix(t)
           e == Len(t) - Len(Suffix(t).text)
<1>2. /\ e \in 0..Len(t) /\ c \in 0..e /\ Len(b) = c /\ b = SubSeq(t, 1, c)
      /\ (\A i \in 1..c : b[i] = t[i]) /\ \A i \in c + 1..e : t[i] \in Spaces
    BY <1>1 DEF Stem
<1>3. Len(t) \in Nat /\ \A i \in 1..Len(t) : t[i] \in S
    BY LenProperties, ElementOfSeq
<1>4. b \in Seq(S)
  <2>1. c \in Int /\ \A i \in 1..c : t[i] \in S
    BY <1>2, <1>3
  <2> QED
    BY <1>2, <2>1, SubSeqProperties
<1> HIDE DEF b, e
<1>5. c # 0 /\ DOMAIN b = 1..c
    BY <1>2, <1>4, EmptySeq, LenProperties DEF b
<1>6. c \in 1..e /\ \A i \in 1..c : t[i] \in Digits
  <2>1. \A i \in 1..c : b[i] \in Digits
    BY <1>5 DEF b
  <2> QED
    BY <1>2, <1>3, <1>5, <2>1
<1> QED
    BY <1>2, <1>6, SuffixMatches DEF Parts, e, b

(* A text in capitals, and where it starts and ends once it is trimmed.    *)
Capitals(s) == [i \in DOMAIN s |-> Upper(s[i])]

Inked(s, lo, hi) ==
    /\ lo \in 1..Len(s) /\ hi \in lo..Len(s)
    /\ s[lo] \notin Spaces /\ s[hi] \notin Spaces
    /\ \A i \in 1..lo - 1 : s[i] \in Spaces
    /\ \A i \in hi + 1..Len(s) : s[i] \in Spaces

(* Capitals change no length, and each character by itself.                *)
LEMMA CapitalsType ==
    ASSUME NEW S, NEW s \in Seq(S)
    PROVE  /\ Capitals(s) \in Seq({Upper(c) : c \in S}) /\ Len(Capitals(s)) = Len(s)
           /\ \A i \in 1..Len(s) : Capitals(s)[i] = Upper(s[i])
<1> DEFINE V == {Upper(c) : c \in S}
<1>1. DOMAIN s = 1..Len(s) /\ Len(s) \in Nat /\ \A i \in 1..Len(s) : Upper(s[i]) \in V
    BY LenProperties, ElementOfSeq
<1> HIDE DEF V
<1>2. Capitals(s) = [i \in 1..Len(s) |-> Upper(s[i])]
    BY <1>1, Zenon DEF Capitals
<1>3. Capitals(s) \in [1..Len(s) -> V]
    BY <1>1, <1>2
<1> QED
    BY <1>1, <1>2, <1>3 DEF V

(* A text is all spaces, or is trimmed to what lies between its inks.      *)
LEMMA TrimmedIs ==
    ASSUME NEW S, NEW s \in Seq(S)
    PROVE  \/ Trimmed(s) = << >> /\ \A i \in 1..Len(s) : s[i] \in Spaces
           \/ \E lo, hi : Inked(s, lo, hi) /\ Trimmed(s) = SubSeq(s, lo, hi)
<1> DEFINE ink == {i \in DOMAIN s : s[i] \notin Spaces}
           lo == Min(ink)
           hi == Max(ink)
<1>1. DOMAIN s = 1..Len(s) /\ Len(s) \in Nat
    BY LenProperties
<1>2. Trimmed(s) = IF ink = {} THEN << >> ELSE SubSeq(s, lo, hi)
    BY Zenon DEF Trimmed
<1>3. CASE ink = {}
    BY <1>1, <1>2, <1>3
<1>4. CASE ink # {}
  <2>1. ink \subseteq Nat /\ ink \subseteq 0..Len(s)
    BY <1>1
  <2>2. \A i \in 1..Len(s) : i \in ink <=> s[i] \notin Spaces
    BY <1>1
  <2>3. ink \subseteq 1..Len(s)
    BY <1>1
  <2> HIDE DEF ink
  <2>4. lo \in ink /\ \A i \in ink : lo <= i
    BY <1>4, <2>1, MinIsLeast
  <2>5. hi \in ink /\ \A i \in ink : i <= hi
    BY <1>1, <1>4, <2>1, MaxIsGreatest
  <2> HIDE DEF lo, hi
  <2>6. lo \in 1..Len(s) /\ hi \in lo..Len(s) /\ s[lo] \notin Spaces /\ s[hi] \notin Spaces
    BY <1>1, <2>2, <2>3, <2>4, <2>5
  <2>7. ASSUME NEW i \in 1..lo - 1 PROVE s[i] \in Spaces
    <3>1. i \in 1..Len(s) /\ ~(lo <= i)
      BY <1>1, <2>6
    <3> QED
      BY <2>2, <2>4, <3>1
  <2>8. ASSUME NEW i \in hi + 1..Len(s) PROVE s[i] \in Spaces
    <3>1. i \in 1..Len(s) /\ ~(i <= hi)
      BY <1>1, <2>6
    <3> QED
      BY <2>2, <2>5, <3>1
  <2>9. Inked(s, lo, hi)
    BY <2>6, <2>7, <2>8 DEF Inked
  <2> QED
    BY <1>2, <1>4, <2>9
<1> QED
    BY <1>3, <1>4

(* t is what is left of s, in capitals, between lo and hi.                 *)
Within(s, t, lo, hi) ==
    /\ Inked(s, lo, hi) /\ Len(t) = hi - lo + 1
    /\ \A i \in 1..Len(t) : t[i] = Capitals(s)[lo + i - 1]

(* The text the code looks at lies within the capitals of the argument.    *)
LEMMA CapitalsWithin ==
    ASSUME NEW S, NEW s \in Seq(S), NEW lo, NEW hi,
           Inked(s, lo, hi), Trimmed(s) = SubSeq(s, lo, hi)
    PROVE  /\ Within(s, Capitals(Trimmed(s)), lo, hi)
           /\ Capitals(Trimmed(s)) \in Seq({Upper(c) : c \in S})
<1> DEFINE n == Len(s)
           u == SubSeq(s, lo, hi)
           m == hi - lo + 1
<1>1. n \in Nat /\ lo \in 1..n /\ hi \in lo..n /\ \A i \in 1..n : s[i] \in S
    BY LenProperties, ElementOfSeq DEF Inked
<1>2. lo \in Int /\ hi \in Int /\ lo <= hi /\ (\A i \in lo..hi : s[i] \in S) /\ m \in Nat
    BY <1>1
<1>3. u \in Seq(S) /\ Len(u) = m /\ \A i \in 1..m : u[i] = s[lo + i - 1]
    BY <1>2, SubSeqProperties
<1> HIDE DEF u
<1>4. /\ Capitals(u) \in Seq({Upper(c) : c \in S}) /\ Len(Capitals(u)) = m
      /\ \A i \in 1..m : Capitals(u)[i] = Upper(u[i])
    BY <1>3, CapitalsType
<1>5. \A i \in 1..n : Capitals(s)[i] = Upper(s[i])
    BY CapitalsType
<1>6. \A i \in 1..m : lo + i - 1 \in 1..n
    BY <1>1
<1>7. Within(s, Capitals(u), lo, hi)
    BY <1>3, <1>4, <1>5, <1>6 DEF Within
<1> QED
    BY <1>4, <1>7 DEF u

(* t is what u holds from lo on.                                           *)
Inside(u, t, lo) ==
    /\ lo \in 1..Len(u) /\ lo + Len(t) - 1 <= Len(u)
    /\ \A i \in 1..Len(t) : t[i] = u[lo + i - 1]

SameStretch(u, t, lo, i, j) == SubSeq(t, i, j) = SubSeq(u, lo + i - 1, lo + j - 1)

(* A stretch of a text inside another is a stretch of that other.          *)
LEMMA StretchWithin ==
    ASSUME NEW V, NEW u \in Seq(V), NEW t \in Seq(V), NEW lo, Inside(u, t, lo),
           NEW i \in 1..Len(t) + 1, NEW j \in i - 1..Len(t)
    PROVE  SameStretch(u, t, lo, i, j)
<1> DEFINE p == SubSeq(t, i, j)
           q == SubSeq(u, lo + i - 1, lo + j - 1)
           n == j - i + 1
<1>0. /\ lo \in 1..Len(u) /\ lo + Len(t) - 1 <= Len(u)
      /\ \A k \in 1..Len(t) : t[k] = u[lo + k - 1]
    BY DEF Inside
<1>1. Len(u) \in Nat /\ Len(t) \in Nat /\ n \in Nat /\ i \in Int /\ j \in Int /\ lo \in Nat
    BY <1>0, LenProperties
<1>2. (\A k \in 1..Len(u) : u[k] \in V) /\ \A k \in 1..Len(t) : t[k] \in V
    BY ElementOfSeq
<1>3. (\A k \in i..j : t[k] \in V) /\ \A k \in lo + i - 1..lo + j - 1 : u[k] \in V
    BY <1>0, <1>1, <1>2
<1>4. p \in Seq(V) /\ Len(p) = n /\ \A k \in 1..n : p[k] = t[i + k - 1]
  <2>1. Len(p) = IF i <= j THEN j - i + 1 ELSE 0
    BY <1>1, <1>3, SubSeqProperties
  <2>2. p \in Seq(V) /\ \A k \in 1..n : p[k] = t[i + k - 1]
    BY <1>1, <1>3, SubSeqProperties
  <2> QED
    BY <1>1, <2>1, <2>2
<1>5. q \in Seq(V) /\ Len(q) = n /\ \A k \in 1..n : q[k] = u[lo + i - 1 + k - 1]
  <2> DEFINE a == lo + i - 1
             b == lo + j - 1
  <2>1. a \in Int /\ b \in Int /\ b - a + 1 = n /\ (\A k \in a..b : u[k] \in V) /\ (a <= b <=> i <= j)
    BY <1>1, <1>3
  <2> HIDE DEF a, b, n
  <2>2. /\ SubSeq(u, a, b) \in Seq(V) /\ Len(SubSeq(u, a, b)) = IF a <= b THEN b - a + 1 ELSE 0
        /\ \A k \in 1..b - a + 1 : SubSeq(u, a, b)[k] = u[a + k - 1]
    BY <2>1, SubSeqProperties
  <2>3. n = IF a <= b THEN b - a + 1 ELSE 0
    BY <1>1, <2>1 DEF n
  <2> QED
    BY <2>1, <2>2, <2>3 DEF a, b
<1> HIDE DEF p, q
<1>6. \A k \in 1..n : i + k - 1 \in 1..Len(t) /\ lo + (i + k - 1) - 1 = lo + i - 1 + k - 1
    BY <1>1
<1>7. \A k \in 1..n : p[k] = q[k]
    BY <1>0, <1>4, <1>5, <1>6
<1>8. p = q
    BY <1>4, <1>5, <1>7, SeqEqual
<1> QED
    BY <1>8 DEF p, q, SameStretch

(* The grammar's reading of s: digits from a to b, the suffix from c to d. *)
Reading(s, a, b, c, d) ==
    /\ a \in 1..Len(s) /\ b \in 1..Len(s) /\ c \in 1..Len(s) + 1 /\ d \in 0..Len(s)
    /\ a <= b /\ b < c /\ d >= c - 1
    /\ \A k \in 1..a - 1 : Capitals(s)[k] \in Spaces
    /\ \A k \in b + 1..c - 1 : Capitals(s)[k] \in Spaces
    /\ \A k \in d + 1..Len(s) : Capitals(s)[k] \in Spaces
    /\ \A k \in a..b : Capitals(s)[k] \in Digits
    /\ SubSeq(Capitals(s), c, d) \in DOMAIN SizeSuffix

ValueAt(s, a, b, c, d) ==
    NumberOf(SubSeq(Capitals(s), a, b)) * SizeSuffix[SubSeq(Capitals(s), c, d)]

(* The meanings of a text are the values of its readings.                  *)
LEMMA MeaningsAre ==
    ASSUME NEW s, NEW n
    PROVE  n \in SizeMeanings(s) <=>
               \E a, b, c, d : Reading(s, a, b, c, d) /\ n = ValueAt(s, a, b, c, d)
<1> DEFINE Box == (1..Len(s)) \X (1..Len(s)) \X (1..Len(s) + 1) \X (0..Len(s))
           Read4(q) == Reading(s, q[1], q[2], q[3], q[4])
           Value4(q) == ValueAt(s, q[1], q[2], q[3], q[4])
<1>1. SizeMeanings(s) = {Value4(p) : p \in {q \in Box : Read4(q)}}
  <2>1. ASSUME NEW q \in Box
        PROVE  Read4(q) <=>
                   /\ q[1] <= q[2] /\ q[2] < q[3] /\ q[4] >= q[3] - 1
                   /\ \A k \in 1..q[1] - 1 : Capitals(s)[k] \in Spaces
                   /\ \A k \in q[2] + 1..q[3] - 1 : Capitals(s)[k] \in Spaces
                   /\ \A k \in q[4] + 1..Len(s) : Capitals(s)[k] \in Spaces
                   /\ \A k \in q[1]..q[2] : Capitals(s)[k] \in Digits
                   /\ SubSeq(Capitals(s), q[3], q[4]) \in DOMAIN SizeSuffix
    <3>1. q[1] \in 1..Len(s) /\ q[2] \in 1..Len(s) /\ q[3] \in 1..Len(s) + 1 /\ q[4] \in 0..Len(s)
      OBVIOUS
    <3> HIDE DEF Box
    <3> QED
      BY <3>1, Zenon DEF Reading
  <2> QED
    BY <2>1, Zenon DEF SizeMeanings, Capitals, ValueAt
<1>2. ASSUME NEW a, NEW b, NEW c, NEW d, Reading(s, a, b, c, d)
      PROVE  /\ <<a, b, c, d>> \in Box
             /\ Read4(<<a, b, c, d>>) /\ Value4(<<a, b, c, d>>) = ValueAt(s, a, b, c, d)
  <2>1. a \in 1..Len(s) /\ b \in 1..Len(s) /\ c \in 1..Len(s) + 1 /\ d \in 0..Len(s)
    BY <1>2 DEF Reading
  <2> QED
    BY <1>2, <2>1
<1> HIDE DEF Box, Read4, Value4
<1> QED
  <2>1. ASSUME NEW p \in Box, Read4(p), n = Value4(p)
        PROVE  \E a, b, c, d : Reading(s, a, b, c, d) /\ n = ValueAt(s, a, b, c, d)
    BY <2>1, Zenon DEF Read4, Value4
  <2>2. ASSUME NEW a, NEW b, NEW c, NEW d, Reading(s, a, b, c, d), n = ValueAt(s, a, b, c, d)
        PROVE  \E p \in Box : Read4(p) /\ n = Value4(p)
    BY <1>2, <2>2, Zenon
  <2> QED
    BY <1>1, <2>1, <2>2, Zenon

(* t is s as the code looks at it, trimmed and in capitals.                *)
Seen(s, t) ==
    \E S, V, lo, hi : /\ s \in Seq(S) /\ t \in Seq(V) /\ Capitals(s) \in Seq(V)
                      /\ Within(s, t, lo, hi)

(* The digits and the suffix of a reading are the first e of t and x.      *)
SameTexts(s, t, e, x, a, b, c, d) ==
    SubSeq(Capitals(s), a, b) = SubSeq(t, 1, e) /\ SubSeq(Capitals(s), c, d) = x

(* A reading of the grammar is the text the code sees taken apart, and     *)
(* the other way round.                                                    *)
LEMMA ReadingIsParts ==
    ASSUME NEW s, NEW t, Seen(s, t), NEW a, NEW b, NEW c, NEW d, Reading(s, a, b, c, d)
    PROVE  \E e, x : Parts(t, e, x) /\ SameTexts(s, t, e, x, a, b, c, d)
<1>0. PICK S, V, lo, hi :
          s \in Seq(S) /\ t \in Seq(V) /\ Capitals(s) \in Seq(V) /\ Within(s, t, lo, hi)
    BY DEF Seen
<1> DEFINE n == Len(s)
           u == Capitals(s)
           x == SubSeq(u, c, d)
           e == b - a + 1
           l == Len(t) - Len(x)
<1>1. /\ n \in Nat /\ u \in Seq(V) /\ Len(u) = n
      /\ \A i \in 1..n : (u[i] \in Spaces <=> s[i] \in Spaces) /\ u[i] \in V
  <2>1. \A i \in 1..n : u[i] = Upper(s[i])
    BY <1>0, CapitalsType
  <2>2. u \in Seq(V) /\ Len(u) = n /\ n \in Nat
    BY <1>0, CapitalsType, LenProperties
  <2>3. \A i \in 1..n : u[i] \in V
    BY <2>2, ElementOfSeq
  <2> HIDE DEF u
  <2> QED
    BY <2>1, <2>2, <2>3, SpaceStays
<1>2. /\ lo \in 1..n /\ hi \in lo..n /\ s[lo] \notin Spaces /\ s[hi] \notin Spaces
      /\ (\A i \in 1..lo - 1 : s[i] \in Spaces) /\ \A i \in hi + 1..n : s[i] \in Spaces
      /\ Len(t) = hi - lo + 1 /\ \A i \in 1..Len(t) : t[i] = u[lo + i - 1]
      /\ Len(t) \in Nat /\ Inside(u, t, lo)
  <2>1. Inked(s, lo, hi) /\ Len(t) = hi - lo + 1 /\ \A i \in 1..Len(t) : t[i] = u[lo + i - 1]
    BY <1>0 DEF Within
  <2>2. lo \in 1..Len(u) /\ lo + Len(t) - 1 <= Len(u)
    BY <1>0, <1>1, <2>1, LenProperties DEF Inked
  <2>3. Inside(u, t, lo)
    BY <2>1, <2>2 DEF Inside
  <2> HIDE DEF u
  <2> QED
    BY <1>0, <2>1, <2>3, LenProperties DEF Inked
<1>3. /\ a \in 1..n /\ b \in a..n /\ c \in b + 1..n + 1 /\ d \in c - 1..n
      /\ \A k \in 1..a - 1 : u[k] \in Spaces
      /\ \A k \in b + 1..c - 1 : u[k] \in Spaces
      /\ \A k \in d + 1..n : u[k] \in Spaces
      /\ \A k \in a..b : u[k] \in Digits
      /\ x \in DOMAIN SizeSuffix
  <2>1. a \in 1..n /\ b \in a..n /\ c \in b + 1..n + 1 /\ d \in c - 1..n
    BY <1>1 DEF Reading
  <2> QED
    BY <2>1, Zenon DEF Reading
<1>4. Len(x) = d - c + 1 /\ \A i \in 1..d - c + 1 : x[i] = u[c + i - 1]
  <2>1. c \in Int /\ d \in Int /\ \A i \in c..d : u[i] \in V
    BY <1>1, <1>3
  <2>2. Len(x) = (IF c <= d THEN d - c + 1 ELSE 0) /\ \A i \in 1..d - c + 1 : x[i] = u[c + i - 1]
    BY <2>1, SubSeqProperties
  <2> HIDE DEF x
  <2> QED
    BY <1>1, <1>3, <2>2
<1>5. Len(x) \in 0..3 /\ \A i \in 1..Len(x) : x[i] \notin Spaces
    BY <1>3, SuffixText, CharsApart
<1> HIDE DEF n, u, x
<1>6. a = lo
  <2>1. ~(a < lo)
    <3>1. a < lo => a \in 1..lo - 1 /\ a \in a..b
      BY <1>1, <1>2, <1>3
    <3> QED
      BY <1>1, <1>2, <1>3, <3>1, CharsApart
  <2>2. ~(lo < a)
    <3>1. lo < a => lo \in 1..a - 1
      BY <1>1, <1>2, <1>3
    <3> QED
      BY <1>1, <1>2, <1>3, <3>1
  <2> QED
    BY <1>2, <1>3, <2>1, <2>2
<1>7. ASSUME d = c - 1 PROVE b = hi
  <2>1. ~(b < hi)
    <3>1. b < hi => hi \in b + 1..c - 1 \/ hi \in d + 1..n
      BY <1>1, <1>2, <1>3, <1>7
    <3> QED
      BY <1>1, <1>2, <1>3, <3>1
  <2>2. ~(hi < b)
    <3>1. hi < b => b \in hi + 1..n /\ b \in a..b
      BY <1>1, <1>2, <1>3
    <3> QED
      BY <1>1, <1>2, <1>3, <3>1, CharsApart
  <2> QED
    BY <1>2, <1>3, <2>1, <2>2
<1>8. ASSUME d # c - 1 PROVE d = hi
  <2>1. d - c + 1 \in 1..Len(x) /\ u[d] = x[d - c + 1] /\ d \in 1..n
    BY <1>1, <1>3, <1>4, <1>8
  <2>2. u[d] \notin Spaces
    BY <1>5, <2>1
  <2>3. ~(d < hi)
    <3>1. d < hi => hi \in d + 1..n
      BY <1>1, <1>2, <1>3
    <3> QED
      BY <1>1, <1>2, <1>3, <3>1
  <2>4. ~(hi < d)
    <3>1. hi < d => d \in hi + 1..n
      BY <1>1, <1>2, <1>3
    <3> QED
      BY <1>1, <1>2, <2>1, <2>2, <3>1
  <2> QED
    BY <1>2, <1>3, <2>3, <2>4
<1>9. /\ e \in 1..l /\ l \in 0..Len(t) /\ Len(t) \in Nat
      /\ \A i \in 1..e : i \in 1..Len(t) /\ lo + i - 1 \in a..b
      /\ \A i \in e + 1..l : i \in 1..Len(t) /\ lo + i - 1 \in b + 1..c - 1
      /\ d # c - 1 => lo + (l + 1) - 1 = c /\ lo + Len(t) - 1 = d
      /\ d = c - 1 => l = Len(t)
  <2>1. CASE d = c - 1
    <3>1. Len(x) = 0 /\ a = lo /\ b = hi
      BY <1>3, <1>4, <1>6, <1>7, <2>1
    <3>2. Len(t) = b - a + 1 /\ e = Len(t) /\ l = Len(t)
      BY <1>2, <1>3, <3>1
    <3> QED
      BY <1>2, <1>3, <2>1, <3>1, <3>2
  <2>2. CASE d # c - 1
    BY <1>1, <1>2, <1>3, <1>4, <1>6, <1>8, <2>2
  <2> QED
    BY <2>1, <2>2
<1>10. EndsWith(t, x)
  <2>1. SubSeq(t, l + 1, Len(t)) = x
    <3>1. CASE d = c - 1
      <4>1. x \in Seq(SuffixLetters) /\ Len(x) = 0
        BY <1>3, <1>4, <3>1, SuffixText
      <4>2. x = << >>
        BY <4>1, EmptySeq
      <4>3. SubSeq(t, l + 1, Len(t)) = << >>
        BY <1>9, <3>1, SubSeqEmpty

      <4> QED
        BY <4>2, <4>3
    <3>2. CASE d # c - 1
      <4>1. l + 1 \in 1..Len(t) + 1 /\ Len(t) \in (l + 1) - 1..Len(t)
        BY <1>9
      <4>2. SameStretch(u, t, lo, l + 1, Len(t))
        BY <1>0, <1>1, <1>2, <4>1, StretchWithin
      <4> QED
        BY <1>9, <3>2, <4>2 DEF x, SameStretch
    <3> QED
      BY <3>1, <3>2
  <2>2. Len(x) <= Len(t) /\ l + 1 = Len(t) - Len(x) + 1
    BY <1>5, <1>9
  <2> HIDE DEF l
  <2> QED
    BY <2>1, <2>2, Zenon DEF EndsWith
<1>11. SubSeq(u, a, b) = SubSeq(t, 1, e)
  <2>1. /\ 1 \in 1..Len(t) + 1 /\ e \in 1 - 1..Len(t)
        /\ lo + 1 - 1 = a /\ lo + e - 1 = b
    <3>1. a \in Nat /\ b \in Nat /\ lo + 1 - 1 = a /\ lo + e - 1 = b
      BY <1>1, <1>3, <1>6
    <3>2. e \in 0..Len(t) /\ 1 \in 1..Len(t) + 1
      BY <1>9
    <3> QED
      BY <3>1, <3>2
  <2> HIDE DEF e
  <2>2. SameStretch(u, t, lo, 1, e)
    BY <1>0, <1>1, <1>2, <2>1, StretchWithin
  <2> QED
    BY <2>1, <2>2 DEF SameStretch
<1>12. Parts(t, e, x)
  <2>1. /\ \A i \in 1..e : t[i] \in Digits
        /\ \A i \in e + 1..l : t[i] \in Spaces
    BY <1>2, <1>3, <1>9
  <2> QED
    BY <1>3, <1>9, <1>10, <2>1 DEF Parts
<1> QED
    BY <1>11, <1>12, Zenon DEF u, x, SameTexts

LEMMA PartsIsReading ==
    ASSUME NEW s, NEW t, Seen(s, t), NEW e, NEW x, Parts(t, e, x)
    PROVE  \E a, b, c, d : Reading(s, a, b, c, d) /\ SameTexts(s, t, e, x, a, b, c, d)
<1>0. PICK S, V, lo, hi :
          s \in Seq(S) /\ t \in Seq(V) /\ Capitals(s) \in Seq(V) /\ Within(s, t, lo, hi)
    BY DEF Seen
<1> DEFINE n == Len(s)
           u == Capitals(s)
           l == Len(t) - Len(x)
           b == lo + e - 1
           c == lo + l
<1>1. /\ n \in Nat /\ u \in Seq(V) /\ Len(u) = n
      /\ \A i \in 1..n : u[i] \in Spaces <=> s[i] \in Spaces
  <2>1. \A i \in 1..n : u[i] = Upper(s[i])
    BY <1>0, CapitalsType
  <2>2. u \in Seq(V) /\ Len(u) = n /\ n \in Nat
    BY <1>0, CapitalsType, LenProperties
  <2> HIDE DEF u
  <2> QED
    BY <2>1, <2>2, SpaceStays
<1>2. /\ lo \in 1..n /\ hi \in lo..n
      /\ (\A i \in 1..lo - 1 : s[i] \in Spaces) /\ \A i \in hi + 1..n : s[i] \in Spaces
      /\ Len(t) = hi - lo + 1 /\ \A i \in 1..Len(t) : t[i] = u[lo + i - 1]
      /\ Len(t) \in Nat /\ Inside(u, t, lo)
  <2>1. Inked(s, lo, hi) /\ Len(t) = hi - lo + 1 /\ \A i \in 1..Len(t) : t[i] = u[lo + i - 1]
    BY <1>0 DEF Within
  <2>2. lo \in 1..Len(u) /\ lo + Len(t) - 1 <= Len(u)
    BY <1>0, <1>1, <2>1, LenProperties DEF Inked
  <2>3. Inside(u, t, lo)
    BY <2>1, <2>2 DEF Inside
  <2> HIDE DEF u
  <2> QED
    BY <1>0, <2>1, <2>3, LenProperties DEF Inked
<1>3. /\ x \in DOMAIN SizeSuffix /\ e \in 1..l /\ EndsWith(t, x)
      /\ (\A i \in 1..e : t[i] \in Digits) /\ \A i \in e + 1..l : t[i] \in Spaces
    BY DEF Parts
<1>4. Len(t) \in Nat /\ Len(x) \in 0..3 /\ Len(x) <= Len(t) /\ SubSeq(t, l + 1, Len(t)) = x
  <2>1. Len(x) \in 0..3
    BY <1>3, SuffixText
  <2>2. SubSeq(t, Len(t) - Len(x) + 1, Len(t)) = x
    BY <1>3, Zenon DEF EndsWith
  <2> QED
    BY <1>0, <1>3, <2>1, <2>2, LenProperties DEF EndsWith
<1> HIDE DEF n, u
<1>5. /\ l \in 1..Len(t) /\ e \in 1..l /\ lo \in Nat /\ hi \in Nat /\ e \in Nat /\ l \in Nat
      /\ lo + Len(t) - 1 = hi
    BY <1>1, <1>2, <1>3, <1>4
<1> HIDE DEF l
<1>6. /\ b \in lo..n /\ c \in b + 1..n + 1 /\ hi \in c - 1..n
      /\ \A k \in lo..b : k - lo + 1 \in 1..e /\ lo + (k - lo + 1) - 1 = k /\ k - lo + 1 \in 1..Len(t)
      /\ \A k \in b + 1..c - 1 : /\ k - lo + 1 \in e + 1..l /\ lo + (k - lo + 1) - 1 = k
                                 /\ k - lo + 1 \in 1..Len(t)
    BY <1>1, <1>2, <1>4, <1>5
<1>7. (\A k \in lo..b : u[k] \in Digits) /\ \A k \in b + 1..c - 1 : u[k] \in Spaces
  <2>1. ASSUME NEW k \in lo..b PROVE u[k] \in Digits
    BY <1>2, <1>3, <1>6
  <2>2. ASSUME NEW k \in b + 1..c - 1 PROVE u[k] \in Spaces
    <3>1. PICK i \in e + 1..l : i \in 1..Len(t) /\ lo + i - 1 = k
      BY <1>6
    <3>2. t[i] \in Spaces /\ t[i] = u[lo + i - 1]
      BY <1>2, <1>3, <3>1
    <3> QED
      BY <3>1, <3>2
  <2> QED
    BY <2>1, <2>2
<1>8. (\A k \in 1..lo - 1 : u[k] \in Spaces) /\ \A k \in hi + 1..n : u[k] \in Spaces
  <2>1. ASSUME NEW k \in 1..lo - 1 PROVE u[k] \in Spaces
    BY <1>1, <1>2
  <2>2. ASSUME NEW k \in hi + 1..n PROVE u[k] \in Spaces
    BY <1>1, <1>2
  <2> QED
    BY <2>1, <2>2
<1>9. SubSeq(u, lo, b) = SubSeq(t, 1, e)
  <2>1. 1 \in 1..Len(t) + 1 /\ e \in 1 - 1..Len(t) /\ lo + 1 - 1 = lo
    BY <1>4, <1>5
  <2>2. SameStretch(u, t, lo, 1, e)
    BY <1>0, <1>1, <1>2, <2>1, StretchWithin
  <2> QED
    BY <2>1, <2>2 DEF SameStretch
<1>10. SubSeq(u, c, hi) = x
  <2>1. /\ l + 1 \in 1..Len(t) + 1 /\ Len(t) \in (l + 1) - 1..Len(t)
        /\ lo + (l + 1) - 1 = c /\ lo + Len(t) - 1 = hi
    BY <1>4, <1>5
  <2>2. SameStretch(u, t, lo, l + 1, Len(t))
    BY <1>0, <1>1, <1>2, <2>1, StretchWithin
  <2> QED
    BY <1>4, <2>1, <2>2 DEF SameStretch
<1> HIDE DEF b, c
<1>11. Reading(s, lo, b, c, hi)
  <2>1. /\ lo \in 1..Len(s) /\ b \in 1..Len(s) /\ c \in 1..Len(s) + 1 /\ hi \in 0..Len(s)
        /\ lo <= b /\ b < c /\ hi >= c - 1
    BY <1>1, <1>2, <1>6 DEF n
  <2> QED
    BY <1>3, <1>7, <1>8, <1>10, <2>1, Zenon DEF Reading, u, n
<1> QED
    BY <1>9, <1>10, <1>11, Zenon DEF u, SameTexts

(* The number and the multiple of a text are what its readings come to,    *)
(* all of them; a text the code takes no number from has no reading.       *)
LEMMA MeaningsFound ==
    ASSUME NEW s, NEW t, Seen(s, t)
    PROVE  /\ \A n \in SizeMeanings(s) :
                  /\ n = NumberOf(BeforeSuffix(t)) * Suffix(t).mult
                  /\ Len(BeforeSuffix(t)) \in Nat \ {0}
                  /\ \A i \in 1..Len(BeforeSuffix(t)) : BeforeSuffix(t)[i] \in Digits
           /\ (/\ BeforeSuffix(t) # << >>
               /\ \A i \in DOMAIN BeforeSuffix(t) : BeforeSuffix(t)[i] \in Digits)
              => NumberOf(BeforeSuffix(t)) * Suffix(t).mult \in SizeMeanings(s)
<1>0. PICK V : t \in Seq(V)
    BY Zenon DEF Seen
<1>1. ASSUME NEW n \in SizeMeanings(s)
      PROVE  /\ n = NumberOf(BeforeSuffix(t)) * Suffix(t).mult
             /\ Len(BeforeSuffix(t)) \in Nat \ {0}
             /\ \A i \in 1..Len(BeforeSuffix(t)) : BeforeSuffix(t)[i] \in Digits
  <2>1. PICK a, b, c, d : Reading(s, a, b, c, d) /\ n = ValueAt(s, a, b, c, d)
    BY <1>1, MeaningsAre
  <2>2. PICK e, x : Parts(t, e, x) /\ SameTexts(s, t, e, x, a, b, c, d)
    BY <2>1, ReadingIsParts
  <2>3. Suffix(t).mult = SizeSuffix[x] /\ BeforeSuffix(t) = SubSeq(t, 1, e) /\ Len(BeforeSuffix(t)) = e
    BY <1>0, <2>2, SuffixIsFound, DigitsAreFound
  <2>4. n = NumberOf(BeforeSuffix(t)) * Suffix(t).mult
    BY <2>1, <2>2, <2>3, Zenon DEF ValueAt, SameTexts
  <2>5. /\ e \in 1..Len(t) - Len(x) /\ Len(t) \in Nat /\ Len(x) \in 0..3
        /\ \A i \in 1..e : t[i] \in Digits
    BY <1>0, <2>2, SuffixText, LenProperties DEF Parts
  <2>6. PICK k : Stem(t, k)
    BY <1>0, StemIsThere
  <2>7. \A i \in 1..e : BeforeSuffix(t)[i] = t[i]
    BY <2>3, <2>6 DEF Stem
  <2> QED
    BY <2>3, <2>4, <2>5, <2>7
<1>2. ASSUME BeforeSuffix(t) # << >>,
             \A i \in DOMAIN BeforeSuffix(t) : BeforeSuffix(t)[i] \in Digits
      PROVE  NumberOf(BeforeSuffix(t)) * Suffix(t).mult \in SizeMeanings(s)
  <2> DEFINE e == Len(BeforeSuffix(t))
             x == Suffix(t).text
  <2>1. Parts(t, e, x)
    BY <1>0, <1>2, PartsAreThere
  <2> HIDE DEF e, x
  <2>2. PICK a, b, c, d : Reading(s, a, b, c, d) /\ SameTexts(s, t, e, x, a, b, c, d)
    BY <2>1, PartsIsReading
  <2>3. Suffix(t).mult = SizeSuffix[x] /\ BeforeSuffix(t) = SubSeq(t, 1, e)
    BY <1>0, <2>1, SuffixIsFound, DigitsAreFound
  <2>4. NumberOf(BeforeSuffix(t)) * Suffix(t).mult = ValueAt(s, a, b, c, d)
    BY <2>2, <2>3, Zenon DEF ValueAt, SameTexts
  <2> QED
    BY <2>2, <2>4, MeaningsAre
<1> QED
    BY <1>1, <1>2

(* The guard on the product is exact.                                      *)
LEMMA TooLargeIsExact ==
    ASSUME NEW n \in Nat, NEW mult \in Nat \ {0}
    PROVE  /\ TooLarge(n, mult) <=> ~(n * mult <= IntMax)
           /\ n * mult \in Nat /\ (n * mult <= IntMax => (n * mult) % (IntMax + 1) = n * mult)
<1>1. IntMax \in Nat
    BY SizesAssumption
<1>2. n * mult \in Nat /\ (n * mult <= IntMax => (n * mult) % (IntMax + 1) = n * mult)
  <2> DEFINE v == n * mult
  <2>1. v \in Nat
    OBVIOUS
  <2> HIDE DEF v
  <2>2. v <= IntMax => v % (IntMax + 1) = v
    BY <1>1, <2>1
  <2> QED
    BY <2>1, <2>2 DEF v
<1>3. n > IntMax \div mult <=> n * mult > IntMax
  <2> DEFINE q == IntMax \div mult
             r == IntMax % mult
  <2>1. q \in Nat /\ r \in 0..mult - 1 /\ IntMax = q * mult + r
    BY <1>1
  <2> HIDE DEF q, r
  <2>2. ASSUME n > q PROVE n * mult > IntMax
    <3>1. (n - q - 1) * mult >= 0
      BY <2>1, <2>2
    <3>2. (n - q - 1) * mult = n * mult - q * mult - mult
      BY <2>1
    <3> QED
      BY <2>1, <3>1, <3>2
  <2>3. ASSUME ~(n > q) PROVE ~(n * mult > IntMax)
    <3>1. (q - n) * mult >= 0
      BY <2>1, <2>3
    <3>2. (q - n) * mult = q * mult - n * mult
      BY <2>1
    <3> QED
      BY <2>1, <3>1, <3>2
  <2> QED
    BY <2>2, <2>3 DEF q
<1>4. n * mult >= n
  <2>1. n * (mult - 1) >= 0 /\ n * (mult - 1) = n * mult - n
    OBVIOUS
  <2> QED
    BY <2>1
<1>5. TooLarge(n, mult) <=> n * mult > IntMax
  <2>1. mult = 1 => n * mult = n
    OBVIOUS
  <2>2. n * mult \in Int
    BY <1>2
  <2> DEFINE v == n * mult
             w == IntMax \div mult
  <2>3. v \in Nat /\ v >= n /\ (mult = 1 => v = n) /\ (n > w <=> v > IntMax)
    BY <1>2, <1>3, <1>4, <2>1
  <2>4. TooLarge(n, mult) <=> (n > IntMax \/ (mult > 1 /\ n > w))
    BY Zenon DEF TooLarge
  <2> HIDE DEF v, w
  <2> QED
    BY <1>1, <2>3, <2>4 DEF v
<1> QED
    BY <1>1, <1>2, <1>5

(* The inductive invariant of the conversions of sizes: the text is one of *)
(* the enumerated characters, and the result what parse_size makes of it.  *)
SizeInv ==
    call.op = "size" => /\ call.text \in Seq(SizeChars)
                        /\ converted = ParseSize(call.text)

LEMMA SizeStart == SizesInit => SizeInv
BY DEF SizesInit, SizeInv

LEMMA SizeStep == SizeInv /\ [SizesNext]_sizesVars => SizeInv'
<1> SUFFICES ASSUME SizeInv, [SizesNext]_sizesVars PROVE SizeInv'
    OBVIOUS
<1>1. CASE CallParseSize
  <2>1. PICK s \in BoundedSeq(SizeChars, MaxLen) :
            call' = [op |-> "size", text |-> s, value |-> 0] /\ converted' = ParseSize(s)
    BY <1>1 DEF CallParseSize
  <2>2. s \in Seq(SizeChars)
    BY SizesAssumption DEF BoundedSeq, SeqOf
  <2>3. call'.text = s
    BY <2>1
  <2> QED
    BY <2>1, <2>2, <2>3, Zenon DEF SizeInv
<1>2. CASE CallParseDuration
    BY <1>2 DEF CallParseDuration, SizeInv
<1>3. CASE CallHumanDuration
    BY <1>3 DEF CallHumanDuration, SizeInv
<1>4. CASE UNCHANGED sizesVars
    BY <1>4, Zenon DEF sizesVars, SizeInv
<1> QED
    BY <1>1, <1>2, <1>3, <1>4 DEF SizesNext

(* What a text means, and what the code reads of it.                       *)
Meant(s) == {n \in SizeMeanings(s) : n <= IntMax /\ Len(Trimmed(s)) < TextCap}

NumberRead(t) == NumberOf(BeforeSuffix(t))
IsNumber(t) ==
    BeforeSuffix(t) # << >> /\ \A i \in DOMAIN BeforeSuffix(t) : BeforeSuffix(t)[i] \in Digits
Accepted(t) ==
    /\ t # << >> /\ ~(Len(t) >= TextCap) /\ IsNumber(t)
    /\ ~TooLarge(NumberRead(t), Suffix(t).mult)

(* parse_size by the parts the lemmas above speak of.                      *)
LEMMA ParseSizeIs ==
    ASSUME NEW s, NEW t, t = Capitals(Trimmed(s))
    PROVE  ParseSize(s) = IF Accepted(t)
                          THEN Value((NumberRead(t) * Suffix(t).mult) % (IntMax + 1))
                          ELSE Malformed
BY Zenon DEF ParseSize, Accepted, IsNumber, NumberRead, Capitals

(* A text of spaces, or an empty one, has no reading.                      *)
LEMMA BlankMeansNothing ==
    ASSUME NEW S, NEW s \in Seq(S), \A i \in 1..Len(s) : s[i] \in Spaces
    PROVE  SizeMeanings(s) = {}
<1>1. ASSUME NEW n \in SizeMeanings(s) PROVE FALSE
  <2>1. PICK a, b, c, d : Reading(s, a, b, c, d)
    BY <1>1, MeaningsAre
  <2>2. a \in 1..Len(s) /\ Capitals(s)[a] \in Digits
    BY <2>1 DEF Reading
  <2>3. Upper(s[a]) \in Digits /\ s[a] \in Spaces
    BY <2>2, CapitalsType
  <2> QED
    BY <2>3, SpaceStays, CharsApart, Zenon
<1> QED
    BY <1>1

(* A text with ink is seen by the code trimmed and in capitals.            *)
LEMMA InkIsSeen ==
    ASSUME NEW S, NEW s \in Seq(S), NEW t, t = Capitals(Trimmed(s)),
           ~\A i \in 1..Len(s) : s[i] \in Spaces
    PROVE  Seen(s, t) /\ t # << >> /\ Len(t) = Len(Trimmed(s)) /\ Len(t) \in Nat
<1> DEFINE V == {Upper(c) : c \in S}
<1>1. PICK lo, hi : Inked(s, lo, hi) /\ Trimmed(s) = SubSeq(s, lo, hi)
    BY TrimmedIs
<1>2. Within(s, t, lo, hi) /\ t \in Seq(V)
    BY <1>1, CapitalsWithin
<1>3. Capitals(s) \in Seq(V)
    BY CapitalsType
<1> HIDE DEF V
<1>4. Seen(s, t)
    BY <1>2, <1>3 DEF Seen
<1>5. lo \in 1..Len(s) /\ hi \in lo..Len(s) /\ Len(t) = hi - lo + 1 /\ Len(s) \in Nat
    BY <1>1, <1>2, LenProperties DEF Within, Inked
<1>6. Len(Trimmed(s)) = hi - lo + 1
    BY <1>1, <1>5, SubSeqProperties
<1> QED
    BY <1>2, <1>4, <1>5, <1>6

(* What is taken for the number is a sequence of its own length.           *)
LEMMA StemIsSeq ==
    ASSUME NEW S, NEW t \in Seq(S)
    PROVE  /\ Len(BeforeSuffix(t)) \in Nat
           /\ DOMAIN BeforeSuffix(t) = 1..Len(BeforeSuffix(t))
           /\ BeforeSuffix(t) = << >> => Len(BeforeSuffix(t)) = 0
<1>1. PICK c : Stem(t, c)
    BY StemIsThere
<1>2. c \in 0..Len(t) /\ Len(t) \in Nat /\ BeforeSuffix(t) = SubSeq(t, 1, c)
    BY <1>1, SuffixMatches, SuffixText, LenProperties DEF Stem
<1>3. \A i \in 1..c : t[i] \in S
    BY <1>2, ElementOfSeq
<1>4. BeforeSuffix(t) \in Seq(S)
    BY <1>2, <1>3, SubSeqProperties
<1> QED
    BY <1>4, LenProperties

(* A size is parsed to what it means.                                      *)
LEMMA ParsedIsMeant ==
    ASSUME NEW s \in Seq(SizeChars)
    PROVE  IF ParseSize(s).ok THEN Meant(s) = {ParseSize(s).value} ELSE Meant(s) = {}
<1> DEFINE t == Capitals(Trimmed(s))
           n == NumberRead(t)
           mult == Suffix(t).mult
<1>1. ParseSize(s) = IF Accepted(t) THEN Value((n * mult) % (IntMax + 1)) ELSE Malformed
    BY ParseSizeIs
<1>2. (\A v : Value(v).ok /\ Value(v).value = v) /\ ~Malformed.ok
    BY DEF Value, Malformed
<1>3. CASE \A i \in 1..Len(s) : s[i] \in Spaces
  <2>1. SizeMeanings(s) = {} /\ Trimmed(s) = << >>
    <3>1. \A lo, hi : ~Inked(s, lo, hi)
      BY <1>3 DEF Inked
    <3> QED
      BY <1>3, <3>1, BlankMeansNothing, TrimmedIs
  <2>2. t = << >>
    BY <2>1 DEF Capitals
  <2>3. ~Accepted(t)
    BY <2>2, Zenon DEF Accepted
  <2> HIDE DEF t, n, mult
  <2> QED
    BY <1>1, <1>2, <2>1, <2>3 DEF Meant
<1>4. CASE ~\A i \in 1..Len(s) : s[i] \in Spaces
  <2>1. Seen(s, t) /\ t # << >> /\ Len(t) = Len(Trimmed(s)) /\ Len(t) \in Nat
    BY <1>4, InkIsSeen
  <2> HIDE DEF t
  <2>2. mult \in Nat \ {0}
    <3>1. PICK V : t \in Seq(V)
      BY <2>1, Zenon DEF Seen
    <3> QED
      BY <3>1, SuffixMatches, MultIsPositive
  <2>3. /\ Len(BeforeSuffix(t)) \in Nat
        /\ DOMAIN BeforeSuffix(t) = 1..Len(BeforeSuffix(t))
        /\ BeforeSuffix(t) = << >> => Len(BeforeSuffix(t)) = 0
    <3>1. PICK V : t \in Seq(V)
      BY <2>1, Zenon DEF Seen
    <3> QED
      BY <3>1, StemIsSeq
  <2>4. IsNumber(t) => n \in Nat
    <3> SUFFICES ASSUME IsNumber(t) PROVE n \in Nat
      OBVIOUS
    <3>1. Len(BeforeSuffix(t)) \in Nat /\ DOMAIN BeforeSuffix(t) = 1..Len(BeforeSuffix(t))
      BY <2>3
    <3> QED
      BY <3>1, NumberIsNat DEF IsNumber, NumberRead
  <2>5. /\ \A v \in SizeMeanings(s) : v = n * mult /\ IsNumber(t)
        /\ IsNumber(t) => n * mult \in SizeMeanings(s)
    <3>1. \A v \in SizeMeanings(s) : v = n * mult /\ IsNumber(t)
      BY <2>1, <2>3, MeaningsFound DEF IsNumber, NumberRead
    <3>2. IsNumber(t) => n * mult \in SizeMeanings(s)
      BY <2>1, MeaningsFound DEF IsNumber, NumberRead
    <3> QED
      BY <3>1, <3>2
  <2> HIDE DEF n, mult
  <2>6. TextCap \in Nat
    BY SizesAssumption
  <2>7. CASE Accepted(t)
    <3>1. IsNumber(t) /\ n \in Nat /\ ~TooLarge(n, mult) /\ Len(t) < TextCap
      BY <2>1, <2>4, <2>6, <2>7 DEF Accepted, n, mult
    <3>2. n * mult <= IntMax /\ (n * mult) % (IntMax + 1) = n * mult
      BY <2>2, <3>1, TooLargeIsExact
    <3> DEFINE p == n * mult
    <3>3. p <= IntMax /\ p % (IntMax + 1) = p /\ p \in SizeMeanings(s)
          /\ \A v \in SizeMeanings(s) : v = p
      BY <2>5, <3>1, <3>2
    <3>4. ParseSize(s) = Value(p % (IntMax + 1))
      BY <1>1, <2>7
    <3> HIDE DEF p
    <3>5. Meant(s) = {p}
      BY <2>1, <3>1, <3>3 DEF Meant
    <3> QED
      BY <1>2, <3>3, <3>4, <3>5
  <2>8. CASE ~Accepted(t)
    <3>1. ASSUME NEW v \in Meant(s) PROVE FALSE
      <4>1. v \in SizeMeanings(s) /\ v <= IntMax /\ Len(t) < TextCap
        BY <2>1, <3>1 DEF Meant
      <4>2. v = n * mult /\ IsNumber(t)
        BY <2>5, <4>1
      <4>3. TooLarge(n, mult)
        BY <2>1, <2>6, <2>8, <4>1, <4>2 DEF Accepted, n, mult
      <4>4. ~(n * mult <= IntMax)
        BY <2>2, <2>4, <4>2, <4>3, TooLargeIsExact
      <4> QED
        BY <4>1, <4>2, <4>4
    <3> QED
      BY <1>1, <1>2, <2>8, <3>1
  <2> QED
    BY <2>7, <2>8
<1> QED
    BY <1>3, <1>4

(* The invariant says what the property says.                              *)
LEMMA SizeInvMeansText == SizeInv => SizeMeansText
<1> SUFFICES ASSUME SizeInv, call.op = "size"
             PROVE  IF converted.ok THEN Meant(call.text) = {converted.value} ELSE Meant(call.text) = {}
    BY Zenon DEF SizeMeansText, Meant
<1>1. call.text \in Seq(SizeChars) /\ converted = ParseSize(call.text)
    BY DEF SizeInv
<1> QED
    BY <1>1, ParsedIsMeant

(* A size is accepted exactly when the grammar gives it a meaning that     *)
(* fits the integer and the buffer, and is then that meaning: the spaces   *)
(* before, between and after its parts, either case, and the suffixes that *)
(* end in each other (parse_size, size.c:25-81).                           *)
THEOREM SizeMeansItsText == SizesSpec => []SizeMeansText
<1>1. SizesSpec => []SizeInv
  BY SizeStart, SizeStep, PTL DEF SizesSpec
<1> QED
  BY <1>1, SizeInvMeansText, PTL
=============================================================================
