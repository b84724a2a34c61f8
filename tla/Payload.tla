------------------------------- MODULE Payload -------------------------------
(***************************************************************************)
(* The plaintexts of the stress harness (loop/payload.c): what run fills   *)
(* for every worker, what an iteration refills under the rotating mode,    *)
(* and the buffers a mismatch of another worker's data must show up in.    *)
(*                                                                         *)
(* Widths are scaled down: a word of the generator has two bytes, a byte   *)
(* ByteRange values.  The CSPRNG is external: a byte it draws is marked    *)
(* with the fill that asked for it.                                        *)
(***************************************************************************)
EXTENDS Integers, FiniteSets, Sequences, SequencesExt

CONSTANTS
    Workers,    \* ids 0..n-1
    Seeds,      \* --seed; 0 draws from the CSPRNG
    PayloadSizes,      \* --payload-size
    Gamma,      \* the increment of splitmix64, odd
    MaxFills,   \* bound of the model: fills of a worker
    CsprngFails \* TRUE: getrandom may fail or be interrupted

ByteRange == 8
WordRange == ByteRange * ByteRange
WordBytes == 2

ASSUME PayloadAssumption ==
    /\ Workers = 0..(Cardinality(Workers) - 1) /\ Cardinality(Workers) \in 1..(WordRange - 1)
    /\ Seeds \subseteq 0..(WordRange - 1) /\ PayloadSizes \subseteq Nat \ {0}
    /\ Gamma \in 1..(WordRange - 1) /\ Gamma % 2 = 1 /\ CsprngFails \in BOOLEAN
    /\ MaxFills \in Nat \ {0}

(* The words of a buffer of n bytes; the last one may be cut.              *)
Words(n) == (n + WordBytes - 1) \div WordBytes

(* What makes 0x9E3779B97F4A7C15 a good increment: its multiples keep their*)
(* distance from 0, so that in the fills of a run no generator comes to    *)
(* where another worker's began.  Of its first 10^18 multiples none comes  *)
(* closer to 0 modulo 2^64 than 18, and there are at most 10 workers.      *)
ASSUME SpreadAssumption ==
    \A n \in PayloadSizes, d \in 1..(MaxFills - 1) :
        (d * Words(n) * Gamma) % WordRange \in Cardinality(Workers)..(WordRange - Cardinality(Workers))

Modes == {"fixed", "rotating", "pattern-zero", "pattern-ff", "pattern-ascii"}
Drawn(k) == <<"drawn", k>>
Stale == Drawn(0)

VARIABLES
    mode, seed, size, \* the configuration
    rng,    \* the generator of each worker
    plain,    \* its plaintext
    off,    \* bytes of the current fill the CSPRNG has delivered
    fills,  \* fills each worker has completed
    phase,     \* each worker: "none", "filling", "ready", "failed"
    used    \* ghost: the plaintexts given to encrypt, [worker, iter, bytes]

payloadVars == <<mode, seed, size, rng, plain, off, fills, phase, used>>

-----------------------------------------------------------------------------
(* Mutant: the worker's id is left out. *)
SeedWorker_Shared(s, w) == (s + 1) % WordRange

SeedWorker(s, w) == (s + w + 1) % WordRange

(* The finaliser of splitmix64 is a permutation of the words, here two     *)
(* rounds that each add a function of the other half.                      *)
Finalise(z) ==
    LET hi == z \div ByteRange
        lo == (z + hi * hi) % ByteRange
    IN <<lo, (hi + 3 * lo) % ByteRange>>

(* The states of the generator after z: each moves it by Gamma. *)
States(z, n) == [k \in 1..n |-> (z + k * Gamma) % WordRange]

(* The loop over the words of the buffer, the last one cut to what is left.*)
SeededBytes(z, n) ==
    [i \in 1..n |-> Finalise(States(z, n)[((i - 1) \div WordBytes) + 1])[((i - 1) % WordBytes) + 1]]

(* The generator after a buffer of n bytes. *)
Advanced(z, n) == (z + Words(n) * Gamma) % WordRange

Pattern(m, n) ==
    [i \in 1..n |-> CASE m = "pattern-zero" -> 0
                      [] m = "pattern-ff" -> ByteRange - 1
                      [] OTHER -> (i - 1) % 26]

PayloadInit ==
    /\ mode \in Modes /\ seed \in Seeds /\ size \in PayloadSizes
    /\ rng = [w \in Workers |-> SeedWorker(seed, w)]
    /\ plain = [w \in Workers |-> [i \in 1..size |-> Stale]]
    /\ off = [w \in Workers |-> 0] /\ fills = [w \in Workers |-> 0]
    /\ phase = [w \in Workers |-> "none"] /\ used = {}

-----------------------------------------------------------------------------
(* fill_payload for worker w. *)
Fill(w) ==
    \/ /\ mode \in {"fixed", "rotating"} /\ seed # 0
       /\ plain' = [plain EXCEPT ![w] = SeededBytes(rng[w], size)]
       /\ rng' = [rng EXCEPT ![w] = Advanced(@, size)]
       /\ phase' = [phase EXCEPT ![w] = "ready"] /\ fills' = [fills EXCEPT ![w] = @ + 1]
       /\ UNCHANGED off
    \/ /\ mode \in {"fixed", "rotating"} /\ seed = 0
       /\ off' = [off EXCEPT ![w] = 0] /\ phase' = [phase EXCEPT ![w] = "filling"]
       /\ UNCHANGED <<plain, rng, fills>>
    \/ /\ mode \notin {"fixed", "rotating"}
       /\ plain' = [plain EXCEPT ![w] = Pattern(mode, size)]
       /\ phase' = [phase EXCEPT ![w] = "ready"] /\ fills' = [fills EXCEPT ![w] = @ + 1]
       /\ UNCHANGED <<rng, off>>

(* run fills the buffers in the order of the workers. *)
Setup(w) ==
    /\ phase[w] = "none" /\ \A v \in Workers : v < w => phase[v] = "ready"
    /\ Fill(w)
    /\ UNCHANGED <<mode, seed, size, used>>

Running == \A v \in Workers : fills[v] > 0

(* iterate under the rotating mode: a fresh buffer before every encrypt. *)
Refill(w) ==
    /\ Running /\ mode = "rotating" /\ phase[w] = "ready" /\ fills[w] < MaxFills
    /\ Fill(w)
    /\ UNCHANGED <<mode, seed, size, used>>

(* Mutant: a short read counts as the whole buffer. *)
RandomEnds_Short(w, r) == r > 0

RandomEnds(w, r) == off[w] + r = size

(* A getrandom of fill_random: r bytes at the offset, or a failure. *)
RandomRead(w) ==
    /\ phase[w] = "filling"
    /\ \/ \E r \in 1..(size - off[w]) :
            /\ plain' = [plain EXCEPT ![w] =
                         [i \in 1..size |-> IF i \in off[w] + 1..off[w] + r THEN Drawn(fills[w] + 1)
                                            ELSE plain[w][i]]]
            /\ off' = [off EXCEPT ![w] = @ + r]
            /\ IF RandomEnds(w, r)
               THEN phase' = [phase EXCEPT ![w] = "ready"] /\ fills' = [fills EXCEPT ![w] = @ + 1]
               ELSE UNCHANGED <<phase, fills>>
       \/ /\ CsprngFails /\ phase' = [phase EXCEPT ![w] = "failed"]
          /\ UNCHANGED <<plain, off, fills>>
    /\ UNCHANGED <<mode, seed, size, rng, used>>

(* The encrypt of an iteration. *)
Encrypt(w) ==
    /\ Running /\ phase[w] = "ready" /\ (mode = "rotating" => fills[w] > 1)
    /\ used' = used \cup {[worker |-> w, fill |-> fills[w], bytes |-> plain[w]]}
    /\ UNCHANGED <<mode, seed, size, rng, plain, off, fills, phase>>

PayloadNext == \E w \in Workers : Setup(w) \/ Refill(w) \/ RandomRead(w) \/ Encrypt(w)

PayloadSpec == PayloadInit /\ [][PayloadNext]_payloadVars

-----------------------------------------------------------------------------
(* Properties. *)

(* "Each worker's stream is domain-separated by its id so seeded workers   *)
(* still hold pairwise-distinct buffers under the fixed and rotating modes"*)
(* (payload.c:48-50) and under rotating "no two encrypt calls see the same *)
(* plaintext" (19-20): of a word or more, no plaintext is ever encrypted   *)
(* by another worker too or again after a refill, whatever iterations the  *)
(* workers are at, so that data that crosses over or is stale is seen.     *)
PlaintextsDistinct ==
    mode \in {"fixed", "rotating"} /\ seed # 0 /\ size >= WordBytes =>
        \A e, f \in used :
            <<e.worker, e.fill>> # <<f.worker, f.fill>> => e.bytes # f.bytes

(* A buffer in use was drawn whole by its last fill: a short read leaves   *)
(* no byte of an earlier plaintext, and none that was never written.       *)
DrawnWhole ==
    seed = 0 /\ mode \in {"fixed", "rotating"} =>
        \A e \in used : \A i \in DOMAIN e.bytes : e.bytes[i] = Drawn(e.fill)
===============================================================================
