----------------------------- MODULE PoolFigures -----------------------------
(***************************************************************************)
(* The pool counters of a run (loop/summary.c): two snapshots of the       *)
(* library's totals bracket the main loop, and their difference is what    *)
(* the report says the run did.                                            *)
(*                                                                         *)
(* The library (external) writes a snapshot by the layout <itb3.h> gives:  *)
(* slot 0 the tier count T, five slots a tier, four for the byte pool and  *)
(* four for the chunk pool.  The harness reads it back by pool_diff.       *)
(* Slots are numbered from 0, as in the source.                            *)
(***************************************************************************)
EXTENDS Integers, FiniteSets, Sequences, SequencesExt, FiniteSetsExt

CONSTANTS
    MaxTiers,   \* tiers a pool_delta has room for, 64
    LibTiers,   \* tier counts a library may have
    Widths,     \* starter widths of a tier; 0 is a tier that is not used
    MaxWork,    \* bound of the model: work before, and in, the main loop
    Faults      \* TRUE: a snapshot or an allocation may fail

ASSUME PoolAssumption ==
    /\ MaxTiers \in Nat /\ LibTiers \subseteq Nat /\ Widths \subseteq Nat
    /\ MaxWork \in Nat /\ Faults \in BOOLEAN

Fields == <<"get", "new", "regrow", "bytes">>
FieldNames == ToSet(Fields)

VARIABLES
    starters, \* the library's tiers: a sequence of starter widths
    totals,   \* the library's counters, by name
    stage,       \* how far the harness has come
    warmup,   \* r->pool_warmup: the slots, or NoStats
    steady,   \* r->pool_steady
    poolLen,  \* r->pool_len
    taken,    \* the snapshots the library did fill
    done,     \* ghost: what the main loop has added to each counter
    report    \* what the report says: [tiers, buf, chunk], or NoStats

poolVars == <<starters, totals, stage, warmup, steady, poolLen, taken, done, report>>

NoStats == << >>

(* The counters: one for a field of a tier or of a pool. *)
Tier(i, f) == <<i, f>>
BufPool == -1
ChunkPool == -2
Pools(n) == {BufPool, ChunkPool} \cup 0..(n - 1)

-----------------------------------------------------------------------------
(* The library: ITB_PoolStatsLen and ITB_PoolStats. *)

LibLen(n) == 1 + 5 * n + 8

(* Slot s of a snapshot.                                                   *)
LibSlot(s) ==
    LET tail == 1 + 5 * Len(starters)
        tier == (s - 1) \div 5
    IN IF s = 0 THEN Len(starters)
       ELSE IF s >= tail + 4 THEN totals[Tier(ChunkPool, Fields[s - tail - 3])]
       ELSE IF s >= tail THEN totals[Tier(BufPool, Fields[s - tail + 1])]
       ELSE IF (s - 1) % 5 = 0 THEN starters[tier + 1]
       ELSE totals[Tier(tier, Fields[(s - 1) % 5])]

LibSlots == [k \in 1..LibLen(Len(starters)) |-> LibSlot(k - 1)]

(* Work checks a buffer out of a pool the library has, and may count a     *)
(* miss, a regrow and its bytes.                                           *)
Working ==
    {c \in DOMAIN totals : c[1] >= 0 => starters[c[1] + 1] # 0}
Work(c) == totals' = [totals EXCEPT ![c] = @ + 1]

Total == MapThenSumSet(LAMBDA c : totals[c], DOMAIN totals)

-----------------------------------------------------------------------------
Zeros(n) == [k \in 1..n |-> 0]

PoolInit ==
    /\ \E n \in LibTiers : starters \in [1..n -> Widths]
    /\ totals = [c \in Pools(Len(starters)) \X FieldNames |-> 0]
    /\ stage = "alloc" /\ warmup = NoStats /\ steady = NoStats /\ poolLen = 0 /\ taken = {}
    /\ done = totals /\ report = NoStats

(* pool_snapshot_alloc for both snapshots; the harness ends when one fails.*)
Allocate ==
    /\ stage = "alloc"
    /\ poolLen' = LibLen(Len(starters))
    /\ \/ /\ stage' = "warming"
          /\ warmup' = Zeros(poolLen') /\ steady' = Zeros(poolLen')
       \/ /\ Faults /\ stage' = "failed"
          /\ warmup' \in {NoStats, Zeros(poolLen')} /\ steady' = NoStats
    /\ UNCHANGED <<starters, totals, taken, done, report>>

(* The workers warm up; the gate is closed when the last of them is done.  *)
Warm ==
    /\ stage = "warming" /\ Total < MaxWork
    /\ \E c \in Working : Work(c)
    /\ UNCHANGED <<starters, stage, warmup, steady, poolLen, taken, done, report>>

(* itb_pool_stats on a snapshot.  Its result is ignored by the caller: the *)
(* slots keep the zeros of calloc when the library fails.                  *)
Snapshot(slots, new, which) ==
    \/ new = LibSlots /\ taken' = taken \cup {which}
    \/ Faults /\ new = slots /\ UNCHANGED taken

TakeWarmup ==
    /\ stage = "warming" /\ stage' = "running"
    /\ Snapshot(warmup, warmup', "warmup")
    /\ UNCHANGED <<starters, totals, steady, poolLen, done, report>>

Run ==
    /\ stage = "running" /\ Total < 2 * MaxWork
    /\ \E c \in Working : Work(c) /\ done' = [done EXCEPT ![c] = @ + 1]
    /\ UNCHANGED <<starters, stage, warmup, steady, poolLen, taken, report>>

TakeSteady ==
    /\ stage = "running" /\ stage' = "ended"
    /\ Snapshot(steady, steady', "steady")
    /\ UNCHANGED <<starters, totals, warmup, poolLen, done, report>>

-----------------------------------------------------------------------------
(* pool_diff. *)

NoFigures == [tiers |-> << >>, buf |-> Zeros(4), chunk |-> Zeros(4)]

(* A slot, numbered from 0. *)
Slot(s, k) == s[k + 1]

Differences(base) == [k \in 1..4 |-> Slot(steady, base + k - 1) - Slot(warmup, base + k - 1)]

(* The tier count the library gave is one the delta and the slots can hold.*)
Fits(tiers) == tiers \in 0..MaxTiers /\ LibLen(tiers) <= poolLen

(* Mutant: the byte pools are looked for after the tiers without slot 0.   *)
TailSlot_NoCount(tiers) == 5 * tiers

TailSlot(tiers) == 1 + 5 * tiers

PoolDiff ==
    IF warmup = NoStats \/ steady = NoStats \/ poolLen < 9 THEN NoFigures
    ELSE LET tiers == Slot(steady, 0)
         IN IF ~Fits(tiers) THEN NoFigures
            ELSE [tiers |-> [i \in 1..tiers |->
                               [starter |-> Slot(steady, 1 + 5 * (i - 1)),
                                figures |-> Differences(1 + 5 * (i - 1) + 1)]],
                  buf |-> Differences(TailSlot(tiers)),
                  chunk |-> Differences(TailSlot(tiers) + 4)]

(* final_summary: the figures, without the tiers whose starter is 0. *)
Report ==
    /\ stage = "ended" /\ stage' = "reported"
    /\ report' = [tiers |-> {[tier |-> i - 1, figures |-> PoolDiff.tiers[i].figures] :
                                i \in {j \in DOMAIN PoolDiff.tiers : PoolDiff.tiers[j].starter # 0}},
                  buf |-> PoolDiff.buf, chunk |-> PoolDiff.chunk]
    /\ UNCHANGED <<starters, totals, warmup, steady, poolLen, taken, done>>

Stopped == stage \in {"failed", "reported"} /\ UNCHANGED poolVars

PoolNext == Allocate \/ Warm \/ TakeWarmup \/ Run \/ TakeSteady \/ Report \/ Stopped

PoolSpec == PoolInit /\ [][PoolNext]_poolVars

-----------------------------------------------------------------------------
(* Properties. *)

(* What the main loop did to a pool, field by field. *)
Done(p) == [k \in 1..4 |-> done[Tier(p, Fields[k])]]

(* What the library has counted for a pool since it was loaded. *)
Counted(p) == [k \in 1..4 |-> totals[Tier(p, Fields[k])]]

(* The figures to expect: without its baseline a report counts the warmup  *)
(* and whatever came before it as well.                                    *)
Expected(p) == IF "warmup" \in taken THEN Done(p) ELSE Counted(p)

(* A report gives, for every tier in use and for both byte pools, what the *)
(* main loop did and nothing of the warmup, each figure under its own      *)
(* name; a library with more tiers than the delta has room for is reported *)
(* as nothing at all.  That needs both snapshots, and the harness ignores  *)
(* the result of either: a lost baseline makes the report count everything *)
(* since the library was loaded, a lost second snapshot leaves no tier in  *)
(* it, and nothing is said of the byte pools then (pool_diff takes them    *)
(* from the wrong slots of the baseline).                                  *)
FiguresAreWork ==
    stage = "reported" =>
        /\ \A t \in report.tiers : t.tier \in 0..(MaxTiers - 1)
        /\ "steady" \notin taken => report.tiers = {}
        /\ "steady" \in taken =>
               IF Len(starters) > MaxTiers
               THEN report = [tiers |-> {}, buf |-> Zeros(4), chunk |-> Zeros(4)]
               ELSE /\ report.buf = Expected(BufPool) /\ report.chunk = Expected(ChunkPool)
                    /\ report.tiers = {[tier |-> i - 1, figures |-> Expected(i - 1)] :
                                         i \in {j \in DOMAIN starters : starters[j] # 0}}
===============================================================================
