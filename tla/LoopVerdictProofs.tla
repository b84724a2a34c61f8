------------------------- MODULE LoopVerdictProofs --------------------------
(***************************************************************************)
(* What LoopRun measures and what its verdict means, for any number of     *)
(* workers, any number of iterations and any two intervals of maintenance: *)
(* the baselines are taken when every worker has been through the cipher   *)
(* path once and none is in it, the elapsed time ends with the stamp of the*)
(* last worker to return, and a PASS means all the work was done: the      *)
(* counters of rotations and reopens are the numbers of pairs of a worker  *)
(* and an iteration they fell due in.                                      *)
(***************************************************************************)
EXTENDS LoopRunProofs, FunctionTheorems

(* The stages in which main has not arrived at the release barrier.        *)
WarmupStage == {"build", "create", "warmup_wait", "baseline", "start"}

(* A warmup iteration before its round trip has been decided, and after.   *)
WarmingPc == {"unborn", "refill", "refill_failed", "rdlock"} \cup (ReadPc \ {"rdunlock"})
WarmedPc  == {"rdunlock", "warmup_done", "warmup_wait", "release_wait"}

(* A worker of the warmup: it has counted its round trip once it is        *)
(* through, or failed, and has arrived only when it is through.            *)
WarmWorker(w) ==
    /\ iter[w] = 0
    /\ pc[w] \in WarmingPc \cup WarmedPc
    /\ w \in arrived["warmup_done"] => pc[w] \in {"warmup_wait", "release_wait"}
    /\ pc[w] \in WarmingPc => iters[w] = 0
    /\ pc[w] \in WarmedPc => iters[w] = 1 \/ (failed[w] /\ iters[w] = 0)

WarmInv ==
    /\ mpc \in WarmupStage =>
           /\ Main \notin arrived["release"]
           /\ \A w \in Workers : WarmWorker(w)
    /\ mpc \in {"baseline", "start"} => arrived["warmup_done"] = Threads

(* The counter under done_mu counts the workers that have not returned,    *)
(* and whoever brings it to zero has left the stamp.                       *)
Unreturned == {w \in Workers : pc[w] # "returned"}

CountInv ==
    /\ active = Cardinality(Unreturned)
    /\ active = 0 => finish = "last"

-----------------------------------------------------------------------------
(* A worker's step leaves main where it is.                                *)
LEMMA WorkerLeavesMain == ASSUME NEW w \in Workers, WorkerStep(w) PROVE mpc' = mpc
BY DEF WorkerStep, IterateStep, ThreadStep, MaintenanceStep, Refill, RefillFailed, RdLock,
   BeginEncrypt, EncryptReturns, BeginDecrypt, DecryptOk, DecryptError, DataMismatch,
   RdUnlock, WarmupArrive, ReleaseArrive, Released, LoopHead, WorkerDone, Maintain,
   CycleDue, DrawMasters, WrLock, BeginRekey, RekeyOk, RekeyError, RekeyDone, Load,
   LoadError, FreeOld, Swap, CycleDone, WrUnlock, mainVars

(* A worker's step during the warmup keeps the worker in the warmup.       *)
LEMMA WarmWorkerStep ==
    ASSUME TypeOK, WarmInv, mpc \in WarmupStage, NEW w \in Workers, WorkerStep(w)
    PROVE  WarmInv'
<1> USE DEF TypeOK, WarmWorker, WarmingPc, WarmedPc, ReadPc, Goto, localVars, failVars
<1>0. WarmWorker(w) /\ Main \notin arrived["release"] /\ mpc' = mpc
    BY WorkerLeavesMain DEF WarmInv
<1>1. ASSUME WarmWorker(w)',
             \A v \in Workers \ {w} :
                 /\ UNCHANGED <<pc[v], iter[v], iters[v], failed[v]>>
                 /\ v \in arrived'["warmup_done"] => v \in arrived["warmup_done"],
             Main \notin arrived'["release"],
             mpc \in {"baseline", "start"} => arrived'["warmup_done"] = Threads
      PROVE  WarmInv'
    BY <1>0, <1>1 DEF WarmInv
<1>2. CASE Refill(w) \/ RefillFailed(w) \/ RdLock(w) \/ BeginEncrypt(w)
           \/ BeginDecrypt(w) \/ DecryptError(w) \/ DataMismatch(w) \/ RdUnlock(w)
    <2>1. UNCHANGED <<iter, iters, arrived>>
        BY <1>2 DEF Refill, RefillFailed, RdLock, BeginEncrypt, BeginDecrypt,
           DecryptError, DataMismatch, RdUnlock
    <2>2. \A v \in Workers \ {w} : UNCHANGED <<pc[v], failed[v]>>
        BY <1>2 DEF Refill, RefillFailed, RdLock, BeginEncrypt, BeginDecrypt,
           DecryptError, DataMismatch, RdUnlock, WorkerFail
    <2>3. WarmWorker(w)'
        BY <1>0, <1>2 DEF Refill, RefillFailed, RdLock, BeginEncrypt, BeginDecrypt,
           DecryptError, DataMismatch, RdUnlock, WorkerFail
    <2> QED
        BY <1>0, <1>1, <2>1, <2>2, <2>3 DEF WarmInv
<1>3. CASE EncryptReturns(w) \/ DecryptOk(w)
    <2>1. UNCHANGED <<iter, arrived>>
        BY <1>3 DEF EncryptReturns, DecryptOk
    <2>2. \A v \in Workers \ {w} : UNCHANGED <<pc[v], iters[v], failed[v]>>
        BY <1>3 DEF EncryptReturns, DecryptOk, WorkerFail
    <2>3. WarmWorker(w)'
        BY <1>0, <1>3 DEF EncryptReturns, DecryptOk, WorkerFail
    <2> QED
        BY <1>0, <1>1, <2>1, <2>2, <2>3 DEF WarmInv
<1>4. CASE WarmupArrive(w)
    <2>1. /\ pc' = [pc EXCEPT ![w] = "warmup_wait"] /\ pc[w] = "warmup_done"
          /\ UNCHANGED <<iter, iters, failed>>
          /\ arrived'["warmup_done"] = arrived["warmup_done"] \cup {w}
          /\ arrived'["release"] = arrived["release"]
        BY <1>4 DEF WarmupArrive, Arrive
    <2>2. mpc \notin {"baseline", "start"}
        BY <1>0, <2>1 DEF WarmInv, Threads
    <2>3. WarmWorker(w)'
        BY <1>0, <2>1
    <2> QED
        BY <1>0, <1>1, <2>1, <2>2, <2>3
<1>5. CASE ReleaseArrive(w)
    <2>1. /\ pc' = [pc EXCEPT ![w] = "release_wait"] /\ pc[w] = "warmup_wait"
          /\ UNCHANGED <<iter, iters, failed>>
          /\ arrived'["release"] = arrived["release"] \cup {w}
          /\ arrived'["warmup_done"] = arrived["warmup_done"]
        BY <1>5 DEF ReleaseArrive, Arrive
    <2>2. Main # w
        BY ConfigAssumption
    <2>3. WarmWorker(w)'
        BY <1>0, <2>1
    <2> QED
        BY <1>0, <1>1, <2>1, <2>2, <2>3 DEF WarmInv
<1>6. CASE Released(w)
    BY <1>0, <1>6 DEF Released, Open, Threads
<1>7. CASE LoopHead(w) \/ WorkerDone(w)
    BY <1>0, <1>7 DEF LoopHead, WorkerDone
<1>8. CASE MaintenanceStep(w)
    BY <1>0, <1>8 DEF MaintenanceStep, Maintain, CycleDue, DrawMasters, WrLock, BeginRekey, RekeyOk,
       RekeyError, RekeyDone, Load, LoadError, FreeOld, Swap, CycleDone, WrUnlock
<1> QED
    BY <1>2, <1>3, <1>4, <1>5, <1>6, <1>7, <1>8 DEF WorkerStep, IterateStep, ThreadStep

(* Every step keeps the warmup in order.                                   *)
LEMMA WarmNext == TypeOK /\ WarmInv /\ [Next]_vars => WarmInv'
<1> SUFFICES ASSUME TypeOK, WarmInv, [Next]_vars PROVE WarmInv'
    OBVIOUS
<1>1. CASE UNCHANGED <<mpc, arrived, iter, iters, pc, failed>>
    BY <1>1 DEF WarmInv, WarmWorker
<1>2. ASSUME NEW w \in Workers, WorkerStep(w) PROVE WarmInv'
    <2>1. CASE mpc \in WarmupStage
        BY <1>2, <2>1, WarmWorkerStep
    <2>2. CASE mpc \notin WarmupStage
        BY <1>2, <2>2, WorkerLeavesMain DEF WarmInv, WarmupStage
    <2> QED
        BY <2>1, <2>2
<1>3. ASSUME NEW w \in Workers, CreateWorker(w) \/ SignalInRefill(w) PROVE WarmInv'
    <2>1. UNCHANGED <<mpc, arrived, iter, iters, failed>>
        BY <1>3 DEF CreateWorker, SignalInRefill, localVars, failVars, mainVars
    <2>2. \A v \in Workers : pc'[v] = pc[v] \/ {pc[v], pc'[v]} \subseteq {"unborn", "refill", "refill_failed"}
        BY <1>3 DEF CreateWorker, SignalInRefill, Goto, TypeOK
    <2> QED
        BY <2>1, <2>2 DEF WarmInv, WarmWorker, WarmingPc, WarmedPc, ReadPc
<1>4. CASE MainStep
    <2> USE DEF MainGoto, localVars, failVars, mainVars
    <2>1. CASE BuildPipeline \/ FreeHandles
        BY <1>1, <2>1 DEF BuildPipeline, FreeHandles
    <2>2. CASE BuildDone \/ StartClock
        BY <2>2 DEF BuildDone, StartClock, WarmInv, WarmWorker, WarmupStage
    <2>3. CASE MainWarmupArrive
        <3>1. /\ mpc = "create" /\ mpc' = "warmup_wait" /\ UNCHANGED <<iter, iters, pc, failed>>
              /\ arrived'["warmup_done"] = arrived["warmup_done"] \cup {Main}
              /\ arrived'["release"] = arrived["release"]
            BY <2>3 DEF MainWarmupArrive, Arrive, TypeOK
        <3>2. \A w \in Workers : Main # w
            BY ConfigAssumption
        <3> QED
            BY <3>1, <3>2 DEF WarmInv, WarmWorker, WarmupStage
    <2>4. CASE MainWarmedUp
        BY <2>4 DEF MainWarmedUp, Open, WarmInv, WarmWorker, WarmupStage
    <2>5. CASE BuildError \/ CreateError \/ MainReleaseArrive \/ MainReleased
               \/ Join \/ Summary \/ Return
        BY <2>5 DEF BuildError, CreateError, MainReleaseArrive, MainReleased, Join, Summary,
           Return, WarmInv, WarmupStage
    <2>6. CASE Poll
        BY <2>6 DEF Poll, WarmInv, WarmupStage
    <2> QED
        BY <1>3, <1>4, <2>1, <2>2, <2>3, <2>4, <2>5, <2>6 DEF MainStep
<1>5. CASE EnvStep
    BY <1>1, <1>3, <1>5 DEF EnvStep, Signal, Deadline, localVars, failVars
<1>6. CASE UNCHANGED vars
    BY <1>1, <1>6 DEF vars, localVars, failVars, mainVars
<1> QED
    BY <1>2, <1>4, <1>5, <1>6 DEF Next, Exited

-----------------------------------------------------------------------------
(* The counter follows the workers that return.                            *)
LEMMA CountNext == TypeOK /\ WarmInv /\ CountInv /\ [Next]_vars => CountInv'
<1> SUFFICES ASSUME TypeOK, WarmInv, CountInv, [Next]_vars PROVE CountInv'
    OBVIOUS
<1>0. IsFiniteSet(Unreturned)
    BY ConfigAssumption, FS_Subset DEF Unreturned
<1>1. ASSUME \A v \in Workers : pc'[v] = "returned" <=> pc[v] = "returned",
             active' = active, finish' = finish \/ active # 0
      PROVE  CountInv'
    <2>1. Unreturned' = Unreturned
        BY <1>1 DEF Unreturned
    <2> QED
        BY <1>1, <2>1 DEF CountInv
<1>2. ASSUME NEW w \in Workers, WorkerDone(w) PROVE CountInv'
    <2>1. /\ pc[w] = "done" /\ pc' = [pc EXCEPT ![w] = "returned"]
          /\ active' = active - 1 /\ finish' = IF active = 1 THEN "last" ELSE finish
        BY <1>2 DEF WorkerDone, Goto
    <2>2. Unreturned' = Unreturned \ {w} /\ w \in Unreturned
        BY <2>1 DEF Unreturned, TypeOK
    <2>3. Cardinality(Unreturned') = Cardinality(Unreturned) - 1
        BY <1>0, <2>2, FS_RemoveElement
    <2>4. active \in Int
        BY DEF TypeOK
    <2> QED
        BY <2>1, <2>3, <2>4 DEF CountInv
<1>3. ASSUME NEW w \in Workers, WorkerStep(w), ~WorkerDone(w) PROVE CountInv'
    <2>1. UNCHANGED <<active, finish>>
        BY <1>3 DEF WorkerStep, IterateStep, ThreadStep, MaintenanceStep, Refill, RefillFailed,
           RdLock, BeginEncrypt, EncryptReturns, BeginDecrypt, DecryptOk, DecryptError,
           DataMismatch, RdUnlock, WarmupArrive, ReleaseArrive, Released, LoopHead, Maintain,
           CycleDue, DrawMasters, WrLock, BeginRekey, RekeyOk, RekeyError, RekeyDone, Load,
           LoadError, FreeOld, Swap, CycleDone, WrUnlock, doneVars
    <2>2. pc' = pc \/ \E label \in (PlainPc \cup ReadPc \cup WritePc) \ {"returned"} :
                          pc[w] # "returned" /\ pc' = [pc EXCEPT ![w] = label]
        BY <1>3 DEF WorkerStep, IterateStep, ThreadStep, MaintenanceStep, Refill, RefillFailed,
           RdLock, BeginEncrypt, EncryptReturns, BeginDecrypt, DecryptOk, DecryptError,
           DataMismatch, RdUnlock, WarmupArrive, ReleaseArrive, Released, LoopHead, Maintain,
           CycleDue, DrawMasters, WrLock, BeginRekey, RekeyOk, RekeyError, RekeyDone, Load,
           LoadError, FreeOld, Swap, CycleDone, WrUnlock, Goto, PlainPc, ReadPc, WritePc, RekeyPc,
           CyclePc
    <2>3. \A v \in Workers : pc'[v] = "returned" <=> pc[v] = "returned"
        BY <2>2 DEF TypeOK
    <2> QED
        BY <1>1, <2>1, <2>3
<1>4. CASE StartClock
    <2>1. mpc = "baseline" /\ UNCHANGED <<pc, active>>
        BY <1>4 DEF StartClock
    <2>2. \A w \in Workers : pc[w] # "returned"
        BY <2>1 DEF WarmInv, WarmupStage, WarmWorker, WarmingPc, WarmedPc, ReadPc
    <2>3. Unreturned = Workers
        BY <2>2 DEF Unreturned
    <2>4. active # 0
        BY <2>3, ConfigAssumption, FS_EmptySet DEF CountInv
    <2> QED
        BY <1>1, <2>1, <2>4
<1>5. ASSUME NEW w \in Workers, CreateWorker(w) \/ SignalInRefill(w) PROVE CountInv'
    <2>1. UNCHANGED <<active, finish>>
        BY <1>5 DEF CreateWorker, SignalInRefill, doneVars
    <2>2. \A v \in Workers : pc'[v] = "returned" <=> pc[v] = "returned"
        BY <1>5 DEF CreateWorker, SignalInRefill, Goto, TypeOK
    <2> QED
        BY <1>1, <2>1, <2>2
<1>6. MainStep \/ EnvStep \/ UNCHANGED vars =>
          UNCHANGED <<pc, active, finish>> \/ StartClock
          \/ \E w \in Workers : CreateWorker(w) \/ SignalInRefill(w)
    BY DEF MainStep, EnvStep, BuildPipeline, BuildError, BuildDone, CreateError, MainWarmupArrive,
       MainWarmedUp, MainReleaseArrive, MainReleased, Poll, Join, Summary, FreeHandles,
       Return, Signal, Deadline, doneVars, vars
<1> QED
    BY <1>1, <1>2, <1>3, <1>4, <1>5, <1>6 DEF Next, Exited

(* Nobody has arrived or counted anything, and some worker is there.       *)
LEMMA MeasureInit == Init => WarmInv /\ CountInv
<1> SUFFICES ASSUME Init PROVE WarmInv /\ CountInv
    OBVIOUS
<1>1. WarmInv
    BY DEF Init, WarmInv, WarmWorker, WarmupStage, WarmingPc, WarmedPc, ReadPc
<1>2. Unreturned = Workers /\ active = Cardinality(Workers)
    BY DEF Init, Unreturned
<1>3. Cardinality(Workers) # 0
    BY ConfigAssumption, FS_EmptySet
<1> QED
    BY <1>1, <1>2, <1>3 DEF CountInv

(* The baselines are read while every worker stands at the barriers after  *)
(* one round trip or a failed one, and the elapsed time reported ends with *)
(* the stamp of the last worker to return.                                 *)
THEOREM MeasuresMainLoopHolds == Spec => []MeasuresMainLoop
<1>1. TypeOK /\ IndInv /\ WarmInv /\ CountInv => MeasuresMainLoop
    <2> SUFFICES ASSUME TypeOK, LockInv, CallInv, StageInv, WarmInv, CountInv
                 PROVE  MeasuresMainLoop
        BY DEF IndInv
    <2>1. ASSUME mpc \in {"baseline", "start"}
          PROVE  /\ readers = {} /\ writer = None /\ calls = {}
                 /\ \A w \in Workers : iters[w] = 1 \/ (failed[w] /\ iters[w] = 0)
        <3>1. \A w \in Workers : WarmWorker(w) /\ pc[w] \in {"warmup_wait", "release_wait"}
            BY <2>1 DEF WarmInv, WarmupStage, WarmWorker, Threads
        <3>2. readers = {} /\ writer = None
            BY <3>1, ConfigAssumption DEF LockInv, TypeOK, ReadPc, WritePc, RekeyPc, CyclePc
        <3>3. calls = {}
            BY <3>1 DEF CallInv, TypeOK
        <3> QED
            BY <3>1, <3>2, <3>3 DEF WarmWorker, WarmedPc
    <2>2. ASSUME mpc \in {"summary", "free"} PROVE finish = "last" /\ active = 0
        <3>1. Unreturned = {}
            BY <2>2 DEF StageInv, Unreturned
        <3> QED
            BY <3>1, FS_EmptySet DEF CountInv
    <2> QED
        BY <2>1, <2>2 DEF MeasuresMainLoop
<1> QED
    BY <1>1, MeasureInit, WarmNext, CountNext, Inductive, TypeCorrect, PTL DEF Spec

-----------------------------------------------------------------------------
Clean == \A w \in Workers : ~failed[w]

(* Where an iteration has completed its round trip, rotation and reopen.   *)
TrippedPc == {"rdunlock", "warmup_done", "warmup_wait", "release_wait", "maintain", "draw",
              "rekey_wrlock", "cycle_due", "cycle_wrlock"} \cup WritePc
RotatedPc == {"rekey_unlock", "cycle_due", "cycle_wrlock"} \cup CyclePc
ReopenedPc == {"cycle_unlock"}
UpkeepPc  == {"maintain", "draw", "rekey_wrlock", "cycle_due", "cycle_wrlock"} \cup WritePc

(* What the counters of a worker that has not failed say about its place.  *)
PlaceInv(w) ==
    /\ iters[w] = (IF pc[w] \in TrippedPc THEN iter[w] + 1 ELSE iter[w])
    /\ pc[w] \in {"warmup_done", "warmup_wait", "release_wait"} => iter[w] = 0
    /\ Iterations > 0 =>
           /\ iter[w] <= Iterations
           /\ pc[w] \in {"check", "done", "returned"} \/ iter[w] < Iterations
    /\ pc[w] \in UpkeepPc => iter[w] > 0
    /\ pc[w] \in {"draw", "rekey_wrlock"} \cup RekeyPc => Due(RekeyEvery, iter[w])
    /\ pc[w] \in {"cycle_wrlock"} \cup CyclePc => Due(BlobCycleEvery, iter[w])

(* In a run of fixed length only a failure or a signal stops a worker      *)
(* early.                                                                  *)
StopInv ==
    (Iterations > 0 /\ ~signal_seen /\ Clean) =>
        /\ ~stop
        /\ \A w \in Workers : pc[w] \in {"done", "returned"} => iter[w] = Iterations

(* The pairs of a worker and an iteration whose rotation, or reopen, is    *)
(* over.                                                                   *)
Past(every, c, places) ==
    /\ Due(every, c[2])
    /\ c[2] < iter[c[1]] \/ (c[2] = iter[c[1]] /\ pc[c[1]] \in places)
Slots == Workers \X (1..Iterations)
Rotated  == {c \in Slots : Past(RekeyEvery, c, RotatedPc)}
Reopened == {c \in Slots : Past(BlobCycleEvery, c, ReopenedPc)}

TallyInv ==
    (Iterations > 0 /\ Clean) => rekeys = Cardinality(Rotated) /\ cycles = Cardinality(Reopened)

PassInv == exit = "pass" => \A w \in Workers : pc[w] = "returned" /\ ~failed[w]

WorkInv ==
    /\ \A w \in Workers : failed[w] \/ PlaceInv(w)
    /\ StopInv /\ TallyInv /\ PassInv

-----------------------------------------------------------------------------
(* How many of the numbers up to n an interval of k hits.                  *)
LEMMA Multiples ==
    ASSUME NEW n \in Nat, NEW k \in Nat \ {0}
    PROVE  LET hits == {i \in 1..n : i % k = 0}
           IN  IsFiniteSet(hits) /\ Cardinality(hits) = n \div k
<1> DEFINE hits == {i \in 1..n : i % k = 0}
           q == n \div k
           f == [j \in 1..q |-> j * k]
<1>1. q \in Nat
    OBVIOUS
<1>2. \A j \in 1..q : j * k \in hits
    <2> SUFFICES ASSUME NEW j \in 1..q PROVE j * k \in hits
        OBVIOUS
    <2>1. j \in Nat /\ j <= n \div k
        BY <1>1
    <2>2. j * k <= n
        BY <2>1
    <2>3. (j * k) % k = 0
        BY <2>1
    <2>4. j * k \in Nat /\ j * k >= 1
        BY <2>1
    <2> QED
        BY <2>2, <2>3, <2>4
<1>3. \A i \in hits : \E j \in 1..q : i = j * k
    <2> SUFFICES ASSUME NEW i \in hits PROVE \E j \in 1..q : i = j * k
        OBVIOUS
    <2>1. i \in Nat /\ i # 0 /\ i <= n /\ i % k = 0
        OBVIOUS
    <2>2. i = (i \div k) * k
        BY <2>1
    <2>3. i \div k \in Nat /\ i \div k <= n \div k
        BY <2>1
    <2>4. i \div k # 0
        BY <2>1
    <2>5. i \div k \in 1..q
        BY <1>1, <2>3, <2>4
    <2> QED
        BY <2>2, <2>5
<1>4. \A i, j \in 1..q : i * k = j * k => i = j
    <2> SUFFICES ASSUME NEW i \in 1..q, NEW j \in 1..q, i * k = j * k PROVE i = j
        OBVIOUS
    <2>1. i \in Nat /\ j \in Nat
        BY <1>1
    <2> QED
        BY <2>1
<1>5. f \in Bijection(1..q, hits)
    <2> HIDE DEF hits, q
    <2>1. f \in [1..q -> hits]
        BY <1>2
    <2>2. \A a, b \in 1..q : f[a] = f[b] => a = b
        BY <1>4
    <2>3. \A i \in hits : \E j \in 1..q : f[j] = i
        BY <1>3
    <2> QED
        BY <2>1, <2>2, <2>3 DEF Bijection, Injection, Surjection, IsInjective
<1>6. ExistsBijection(1..q, hits)
    BY <1>5 DEF ExistsBijection
<1>7. Cardinality(hits) = q
    <2> HIDE DEF hits, q
    <2> QED
        BY <1>1, <1>6, FS_CountingElements
<1>8. IsFiniteSet(hits)
    <2>1. IsFiniteSet(1..n)
        BY FS_Interval
    <2>2. hits \in SUBSET (1..n)
        OBVIOUS
    <2> HIDE DEF hits
    <2> QED
        BY <2>1, <2>2, FS_Subset
<1> QED
    BY <1>7, <1>8

(* The pairs of a worker and an iteration are finitely many.               *)
LEMMA SlotsFinite ==
    ASSUME NEW S \in SUBSET Slots
    PROVE  IsFiniteSet(S)
<1>1. IsFiniteSet(1..Iterations)
    BY ConfigAssumption, FS_Interval
<1>2. IsFiniteSet(Slots)
    BY <1>1, ConfigAssumption, FS_Product DEF Slots
<1> QED
    BY <1>2, FS_Subset

-----------------------------------------------------------------------------
(* A worker's step keeps its counters in line with its place.              *)
LEMMA PlaceStep ==
    ASSUME TypeOK, NEW w \in Workers, failed[w] \/ PlaceInv(w), WorkerStep(w)
    PROVE  (failed[w] \/ PlaceInv(w))'
<1> USE ConfigAssumption DEF TypeOK, PlaceInv, TrippedPc, UpkeepPc, WritePc, RekeyPc, CyclePc,
        Goto, localVars, failVars
<1>1. CASE IterateStep(w)
    <2> USE DEF WorkerFail
    <2>1. CASE Refill(w) \/ RefillFailed(w) \/ RdLock(w) \/ BeginEncrypt(w) \/ EncryptReturns(w)
        BY <2>1 DEF Refill, RefillFailed, RdLock, BeginEncrypt, EncryptReturns
    <2>2. CASE BeginDecrypt(w) \/ DecryptOk(w) \/ DecryptError(w) \/ DataMismatch(w)
        BY <2>2 DEF BeginDecrypt, DecryptOk, DecryptError, DataMismatch
    <2>3. CASE RdUnlock(w)
        BY <2>3 DEF RdUnlock
    <2> QED
        BY <1>1, <2>1, <2>2, <2>3 DEF IterateStep
<1>2. CASE ThreadStep(w)
    <2>1. CASE WarmupArrive(w) \/ ReleaseArrive(w) \/ Released(w)
        BY <2>1 DEF WarmupArrive, ReleaseArrive, Released
    <2>2. CASE LoopHead(w) \/ WorkerDone(w)
        BY <2>2 DEF LoopHead, BudgetSpent, WorkerDone
    <2> QED
        BY <1>2, <2>1, <2>2 DEF ThreadStep
<1>3. CASE MaintenanceStep(w)
    <2>1. CASE Maintain(w)
        BY <2>1 DEF Maintain
    <2>2. CASE CycleDue(w)
        BY <2>2 DEF CycleDue
    <2>3. CASE DrawMasters(w)
        BY <2>3 DEF DrawMasters, WorkerFail
    <2>4. CASE WrLock(w)
        BY <2>4 DEF WrLock
    <2>5. CASE BeginRekey(w) \/ RekeyOk(w) \/ RekeyError(w) \/ RekeyDone(w)
        BY <2>5 DEF BeginRekey, RekeyOk, RekeyError, RekeyDone, WorkerFail
    <2>6. CASE Load(w) \/ LoadError(w) \/ FreeOld(w) \/ Swap(w) \/ CycleDone(w)
        BY <2>6 DEF Load, LoadError, FreeOld, Swap, CycleDone, WorkerFail
    <2>7. CASE WrUnlock(w)
        BY <2>7 DEF WrUnlock
    <2> QED
        BY <1>3, <2>1, <2>2, <2>3, <2>4, <2>5, <2>6, <2>7 DEF MaintenanceStep
<1> QED
    BY <1>1, <1>2, <1>3 DEF WorkerStep

(* It touches nobody else's counters, and takes no failure back.           *)
LEMMA OthersKept ==
    ASSUME TypeOK, NEW w \in Workers, WorkerStep(w)
    PROVE  /\ \A v \in Workers \ {w} : UNCHANGED <<pc[v], iter[v], iters[v], failed[v]>>
           /\ \A v \in Workers : failed[v] => failed'[v]
           /\ signal_seen' = signal_seen
           /\ Clean' => Clean
<1> USE DEF TypeOK, Goto, localVars, failVars, mainVars, WorkerFail
<1>1. CASE IterateStep(w) \/ ThreadStep(w)
    BY <1>1 DEF IterateStep, ThreadStep, Refill, RefillFailed, RdLock, BeginEncrypt, EncryptReturns,
       BeginDecrypt, DecryptOk, DecryptError, DataMismatch, RdUnlock, WarmupArrive, ReleaseArrive,
       Released, LoopHead, WorkerDone, Clean
<1>2. CASE MaintenanceStep(w)
    BY <1>2 DEF MaintenanceStep, Maintain, CycleDue, DrawMasters, WrLock, BeginRekey, RekeyOk,
       RekeyError, RekeyDone, Load, LoadError, FreeOld, Swap, CycleDone, WrUnlock, Clean
<1> QED
    BY <1>1, <1>2 DEF WorkerStep

(* A worker reaches the end of its thread at its budget, or after a stop   *)
(* or a failure.                                                           *)
LEMMA StopStep ==
    ASSUME TypeOK, StopInv, NEW w \in Workers, failed[w] \/ PlaceInv(w), WorkerStep(w)
    PROVE  StopInv'
<1> SUFFICES ASSUME Iterations > 0, ~signal_seen', Clean' PROVE StopInv'
    BY DEF StopInv
<1>1. /\ ~stop /\ Clean /\ ~failed[w] /\ ~failed'[w] /\ PlaceInv(w)
      /\ \A v \in Workers : pc[v] \in {"done", "returned"} => iter[v] = Iterations
    BY OthersKept DEF StopInv, Clean
<1>2. stop' = stop
    BY <1>1 DEF WorkerStep, IterateStep, ThreadStep, MaintenanceStep, Refill, RefillFailed,
       RdLock, BeginEncrypt, EncryptReturns, BeginDecrypt, DecryptOk, DecryptError,
       DataMismatch, RdUnlock, WarmupArrive, ReleaseArrive, Released, LoopHead, WorkerDone, Maintain,
       CycleDue, DrawMasters, WrLock, BeginRekey, RekeyOk, RekeyError, RekeyDone, Load,
       LoadError, FreeOld, Swap, CycleDone, WrUnlock, WorkerFail, failVars, TypeOK
<1>3. pc'[w] \in {"done", "returned"} => iter'[w] = Iterations
    <2> USE DEF TypeOK, Goto, localVars, failVars, WorkerFail
    <2>1. CASE LoopHead(w)
        BY <1>1, <2>1, ConfigAssumption DEF LoopHead, BudgetSpent, PlaceInv
    <2>2. CASE WorkerDone(w) \/ RdUnlock(w) \/ RefillFailed(w) \/ Released(w) \/ DrawMasters(w)
               \/ WrUnlock(w) \/ DataMismatch(w)
        BY <1>1, <2>2 DEF WorkerDone, RdUnlock, RefillFailed, Released, DrawMasters, WrUnlock,
           DataMismatch
    <2>3. CASE Refill(w) \/ RdLock(w) \/ BeginEncrypt(w) \/ EncryptReturns(w) \/ BeginDecrypt(w)
               \/ DecryptOk(w) \/ DecryptError(w) \/ WarmupArrive(w) \/ ReleaseArrive(w)
        BY <2>3 DEF Refill, RdLock, BeginEncrypt, EncryptReturns, BeginDecrypt, DecryptOk,
           DecryptError, WarmupArrive, ReleaseArrive
    <2>4. CASE Maintain(w) \/ CycleDue(w) \/ WrLock(w) \/ BeginRekey(w) \/ RekeyOk(w)
               \/ RekeyError(w) \/ RekeyDone(w) \/ Load(w) \/ LoadError(w) \/ FreeOld(w)
               \/ Swap(w) \/ CycleDone(w)
        BY <2>4 DEF Maintain, CycleDue, WrLock, BeginRekey, RekeyOk, RekeyError, RekeyDone, Load,
           LoadError, FreeOld, Swap, CycleDone
    <2> QED
        BY <2>1, <2>2, <2>3, <2>4 DEF WorkerStep, IterateStep, ThreadStep, MaintenanceStep
<1> QED
    BY <1>1, <1>2, <1>3, OthersKept DEF StopInv

-----------------------------------------------------------------------------
(* A step of one worker leaves a set of pairs alone when it leaves that    *)
(* worker's own pairs alone,                                               *)
LEMMA PastKept ==
    ASSUME NEW w \in Workers, NEW every, NEW places,
           \A v \in Workers \ {w} : UNCHANGED <<pc[v], iter[v]>>,
           \A i \in 1..Iterations : Past(every, <<w, i>>, places)' <=> Past(every, <<w, i>>, places)
    PROVE  {c \in Slots : Past(every, c, places)}' = {c \in Slots : Past(every, c, places)}
<1>1. ASSUME NEW c \in Slots
      PROVE  Past(every, c, places)' <=> Past(every, c, places)
    <2>1. c[1] \in Workers /\ c[2] \in 1..Iterations /\ c = <<c[1], c[2]>>
        BY DEF Slots
    <2>2. CASE c[1] = w
        BY <2>1, <2>2
    <2>3. CASE c[1] # w
        BY <2>1, <2>3 DEF Past
    <2> QED
        BY <2>2, <2>3
<1>2. Slots' = Slots
    BY DEF Slots
<1> QED
    BY <1>1, <1>2

(* and adds the pair the worker completes.                                 *)
LEMMA PastGrows ==
    ASSUME NEW w \in Workers, NEW every, NEW places, NEW i \in 1..Iterations,
           \A v \in Workers \ {w} : UNCHANGED <<pc[v], iter[v]>>,
           \A j \in 1..Iterations :
               Past(every, <<w, j>>, places)' <=> (Past(every, <<w, j>>, places) \/ j = i),
           ~Past(every, <<w, i>>, places)
    PROVE  Cardinality({c \in Slots : Past(every, c, places)}')
               = Cardinality({c \in Slots : Past(every, c, places)}) + 1
<1> DEFINE before == {c \in Slots : Past(every, c, places)}
           after  == {c \in Slots : Past(every, c, places)}'
<1>1. Slots' = Slots /\ <<w, i>> \in Slots
    BY DEF Slots
<1>2. ASSUME NEW c \in Slots
      PROVE  Past(every, c, places)' <=> (Past(every, c, places) \/ c = <<w, i>>)
    <2>1. c[1] \in Workers /\ c[2] \in 1..Iterations /\ c = <<c[1], c[2]>>
        BY DEF Slots
    <2>2. CASE c[1] = w
        BY <2>1, <2>2
    <2>3. CASE c[1] # w
        BY <2>1, <2>3 DEF Past
    <2> QED
        BY <2>2, <2>3
<1>3. after = before \cup {<<w, i>>} /\ <<w, i>> \notin before
    BY <1>1, <1>2
<1>4. IsFiniteSet(before)
    BY SlotsFinite
<1> HIDE DEF before, after
<1>5. Cardinality(after) = Cardinality(before) + 1
    BY <1>3, <1>4, FS_AddElement
<1> QED
    BY <1>5 DEF before, after

(* Each rotation and each reopen of a run without failures is counted      *)
(* once.                                                                   *)
LEMMA TallyStep ==
    ASSUME TypeOK, TallyInv, NEW w \in Workers, failed[w] \/ PlaceInv(w), WorkerStep(w)
    PROVE  TallyInv'
<1> SUFFICES ASSUME Iterations > 0, Clean' PROVE TallyInv'
    BY DEF TallyInv
<1>1. /\ Clean /\ ~failed[w] /\ ~failed'[w] /\ PlaceInv(w)
      /\ rekeys = Cardinality(Rotated) /\ cycles = Cardinality(Reopened)
      /\ \A v \in Workers \ {w} : UNCHANGED <<pc[v], iter[v]>>
    BY OthersKept DEF TallyInv, Clean
<1>2. iter[w] \in Nat /\ Iterations \in Nat
    BY ConfigAssumption DEF TypeOK
<1> DEFINE Same(every, places) ==
        \A i \in 1..Iterations : Past(every, <<w, i>>, places)' <=> Past(every, <<w, i>>, places)
<1>3. ASSUME UNCHANGED <<rekeys, cycles>>, Same(RekeyEvery, RotatedPc),
             Same(BlobCycleEvery, ReopenedPc)
      PROVE  TallyInv'
    <2>1. Rotated' = Rotated /\ Reopened' = Reopened
        BY <1>1, <1>3, PastKept DEF Rotated, Reopened
    <2> QED
        BY <1>1, <1>3, <2>1 DEF TallyInv
<1> USE DEF RotatedPc, ReopenedPc, CyclePc, Goto, localVars, countVars, TypeOK
<1>4. CASE RekeyDone(w)
    <2>1. /\ pc[w] = "rekey" /\ pc'[w] = "rekey_unlock" /\ iter' = iter
          /\ rekeys' = rekeys + 1 /\ cycles' = cycles
        BY <1>4 DEF RekeyDone
    <2>2. iter[w] \in 1..Iterations /\ Due(RekeyEvery, iter[w])
        BY <1>1, <1>2, <2>1 DEF PlaceInv, UpkeepPc, WritePc, RekeyPc
    <2>3. Same(BlobCycleEvery, ReopenedPc)
        BY <2>1 DEF Past
    <2>4. Reopened' = Reopened
        BY <1>1, <2>3, PastKept DEF Reopened
    <2>5. \A j \in 1..Iterations :
              Past(RekeyEvery, <<w, j>>, RotatedPc)'
                  <=> (Past(RekeyEvery, <<w, j>>, RotatedPc) \/ j = iter[w])
        BY <1>2, <2>1, <2>2 DEF Past
    <2>6. ~Past(RekeyEvery, <<w, iter[w]>>, RotatedPc)
        BY <1>2, <2>1 DEF Past
    <2>7. Cardinality(Rotated') = Cardinality(Rotated) + 1
        <3> HIDE DEF RotatedPc, ReopenedPc, CyclePc, Goto, localVars, countVars, TypeOK, Same
        <3>1. \A v \in Workers \ {w} : UNCHANGED <<pc[v], iter[v]>>
            BY <1>1
        <3>2. iter[w] \in 1..Iterations
            BY <2>2
        <3>3. Cardinality({c \in Slots : Past(RekeyEvery, c, RotatedPc)}')
                  = Cardinality({c \in Slots : Past(RekeyEvery, c, RotatedPc)}) + 1
            BY <2>5, <2>6, <3>1, <3>2, PastGrows
        <3> QED
            BY <3>3 DEF Rotated
    <2> QED
        BY <1>1, <2>1, <2>4, <2>7 DEF TallyInv
<1>5. CASE CycleDone(w)
    <2>1. /\ pc[w] = "load" /\ pc'[w] = "cycle_unlock" /\ iter' = iter
          /\ cycles' = cycles + 1 /\ rekeys' = rekeys
        BY <1>5 DEF CycleDone
    <2>2. iter[w] \in 1..Iterations /\ Due(BlobCycleEvery, iter[w])
        BY <1>1, <1>2, <2>1 DEF PlaceInv, UpkeepPc, WritePc, RekeyPc
    <2>3. Same(RekeyEvery, RotatedPc)
        BY <2>1 DEF Past
    <2>4. Rotated' = Rotated
        BY <1>1, <2>3, PastKept DEF Rotated
    <2>5. \A j \in 1..Iterations :
              Past(BlobCycleEvery, <<w, j>>, ReopenedPc)'
                  <=> (Past(BlobCycleEvery, <<w, j>>, ReopenedPc) \/ j = iter[w])
        BY <1>2, <2>1, <2>2 DEF Past
    <2>6. ~Past(BlobCycleEvery, <<w, iter[w]>>, ReopenedPc)
        BY <1>2, <2>1 DEF Past
    <2>7. Cardinality(Reopened') = Cardinality(Reopened) + 1
        <3> HIDE DEF RotatedPc, ReopenedPc, CyclePc, Goto, localVars, countVars, TypeOK, Same
        <3>1. \A v \in Workers \ {w} : UNCHANGED <<pc[v], iter[v]>>
            BY <1>1
        <3>2. iter[w] \in 1..Iterations
            BY <2>2
        <3>3. Cardinality({c \in Slots : Past(BlobCycleEvery, c, ReopenedPc)}')
                  = Cardinality({c \in Slots : Past(BlobCycleEvery, c, ReopenedPc)}) + 1
            BY <2>5, <2>6, <3>1, <3>2, PastGrows
        <3> QED
            BY <3>3 DEF Reopened
    <2> QED
        BY <1>1, <2>1, <2>4, <2>7 DEF TallyInv
<1>6. CASE IterateStep(w)
    <2>1. UNCHANGED <<iter, rekeys, cycles>>
        BY <1>6 DEF IterateStep, Refill, RefillFailed, RdLock, BeginEncrypt, EncryptReturns,
           BeginDecrypt, DecryptOk, DecryptError, DataMismatch, RdUnlock
    <2>2. {pc[w], pc'[w]} \cap (RotatedPc \cup ReopenedPc) = {}
        BY <1>6 DEF IterateStep, Refill, RefillFailed, RdLock, BeginEncrypt, EncryptReturns,
           BeginDecrypt, DecryptOk, DecryptError, DataMismatch, RdUnlock
    <2> QED
        BY <1>3, <2>1, <2>2 DEF Past
<1>7. CASE ThreadStep(w)
    <2>1. /\ UNCHANGED <<rekeys, cycles>>
          /\ {pc[w], pc'[w]} \cap (RotatedPc \cup ReopenedPc) = {}
        BY <1>7 DEF ThreadStep, WarmupArrive, ReleaseArrive, Released, LoopHead, WorkerDone
    <2>2. iter'[w] = iter[w] \/ (iter[w] = 0 /\ iter'[w] = 1)
        BY <1>1, <1>7 DEF ThreadStep, WarmupArrive, ReleaseArrive, Released, LoopHead, WorkerDone,
           PlaceInv
    <2>3. \A i \in 1..Iterations : i < iter'[w] <=> i < iter[w]
        BY <1>2, <2>2
    <2>4. /\ pc[w] \notin RotatedPc /\ pc'[w] \notin RotatedPc
          /\ pc[w] \notin ReopenedPc /\ pc'[w] \notin ReopenedPc
        BY <2>1
    <2>5. Same(RekeyEvery, RotatedPc)
        BY <2>3, <2>4 DEF Past
    <2>6. Same(BlobCycleEvery, ReopenedPc)
        BY <2>3, <2>4 DEF Past
    <2> QED
        BY <1>3, <2>1, <2>5, <2>6
<1>8. CASE Maintain(w) \/ DrawMasters(w) \/ WrLock(w) \/ BeginRekey(w) \/ RekeyOk(w)
    <2>1. UNCHANGED <<iter, rekeys, cycles>>
        BY <1>8 DEF Maintain, DrawMasters, WrLock, BeginRekey, RekeyOk
    <2>2. pc[w] # "cycle_unlock" /\ pc'[w] # "cycle_unlock"
        BY <1>8 DEF Maintain, DrawMasters, WrLock, BeginRekey, RekeyOk
    <2>3. Same(BlobCycleEvery, ReopenedPc)
        BY <2>1, <2>2 DEF Past
    <2>4. \/ {pc[w], pc'[w]} \subseteq RotatedPc
          \/ {pc[w], pc'[w]} \cap RotatedPc = {}
          \/ ~Due(RekeyEvery, iter[w])
        BY <1>1, <1>8 DEF Maintain, DrawMasters, WrLock, BeginRekey, RekeyOk
    <2>5. Same(RekeyEvery, RotatedPc)
        <3> SUFFICES ASSUME NEW i \in 1..Iterations
                     PROVE  Past(RekeyEvery, <<w, i>>, RotatedPc)'
                                <=> Past(RekeyEvery, <<w, i>>, RotatedPc)
            OBVIOUS
        <3> QED
            BY <2>1, <2>4 DEF Past
    <2> QED
        BY <1>3, <2>1, <2>3, <2>5
<1>9. CASE RekeyError(w) \/ LoadError(w)
    BY <1>1, <1>9 DEF RekeyError, LoadError, WorkerFail
<1>10. CASE Load(w) \/ FreeOld(w) \/ Swap(w)
    <2>1. UNCHANGED <<iter, rekeys, cycles>> /\ {pc[w], pc'[w]} \subseteq {"load", "free", "swap"}
        BY <1>10 DEF Load, FreeOld, Swap
    <2> QED
        BY <1>3, <2>1 DEF Past
<1>11. CASE CycleDue(w)
    <2>1. /\ UNCHANGED <<rekeys, cycles>> /\ pc[w] = "cycle_due"
          /\ \/ Due(BlobCycleEvery, iter[w]) /\ pc'[w] = "cycle_wrlock" /\ iter'[w] = iter[w]
             \/ ~Due(BlobCycleEvery, iter[w]) /\ pc'[w] = "check" /\ iter'[w] = iter[w] + 1
        BY <1>11 DEF CycleDue
    <2>2. Same(RekeyEvery, RotatedPc)
        BY <1>2, <2>1 DEF Past
    <2>3. Same(BlobCycleEvery, ReopenedPc)
        BY <1>2, <2>1 DEF Past
    <2> QED
        BY <1>3, <2>1, <2>2, <2>3
<1>12. CASE WrUnlock(w)
    <2>1. /\ UNCHANGED <<rekeys, cycles>>
          /\ \/ pc[w] = "rekey_unlock" /\ pc'[w] = "cycle_due" /\ iter'[w] = iter[w]
             \/ pc[w] = "cycle_unlock" /\ pc'[w] = "check" /\ iter'[w] = iter[w] + 1
        BY <1>1, <1>12 DEF WrUnlock
    <2>2. Same(RekeyEvery, RotatedPc)
        BY <1>2, <2>1 DEF Past
    <2>3. Same(BlobCycleEvery, ReopenedPc)
        BY <1>2, <2>1 DEF Past
    <2> QED
        BY <1>3, <2>1, <2>2, <2>3
<1> QED
    BY <1>4, <1>5, <1>6, <1>7, <1>8, <1>9, <1>10, <1>11, <1>12 DEF WorkerStep, MaintenanceStep

-----------------------------------------------------------------------------
(* A worker's step keeps the account of the run's work.                    *)
LEMMA WorkWorker ==
    ASSUME TypeOK, WorkInv, exit = "running", NEW w \in Workers, WorkerStep(w)
    PROVE  WorkInv'
<1>1. ASSUME NEW v \in Workers PROVE (failed[v] \/ PlaceInv(v))'
    <2>1. CASE v = w
        BY <2>1, PlaceStep DEF WorkInv
    <2>2. CASE v # w
        BY <2>2, OthersKept DEF WorkInv, PlaceInv
    <2> QED
        BY <2>1, <2>2
<1>2. StopInv' /\ TallyInv'
    BY StopStep, TallyStep DEF WorkInv
<1>3. exit' # "pass"
    BY DEF WorkerStep, IterateStep, ThreadStep, MaintenanceStep, Refill, RefillFailed, RdLock,
       BeginEncrypt, EncryptReturns, BeginDecrypt, DecryptOk, DecryptError, DataMismatch,
       RdUnlock, WarmupArrive, ReleaseArrive, Released, LoopHead, WorkerDone, Maintain,
       CycleDue, DrawMasters, WrLock, BeginRekey, RekeyOk, RekeyError, RekeyDone, Load,
       LoadError, FreeOld, Swap, CycleDone, WrUnlock, mainVars
<1> QED
    BY <1>1, <1>2, <1>3 DEF WorkInv, PassInv

(* The stop main requests comes from a signal or a deadline, and a PASS    *)
(* from workers that have all returned without an error.                   *)
LEMMA WorkNext == TypeOK /\ IndInv /\ WorkInv /\ [Next]_vars => WorkInv'
<1> SUFFICES ASSUME TypeOK, StageInv, WorkInv, [Next]_vars PROVE WorkInv'
    BY DEF IndInv
<1>1. ASSUME UNCHANGED <<iter, iters, failed, countVars>>,
             UNCHANGED pc \/ \E w \in Workers : CreateWorker(w) \/ SignalInRefill(w),
             signal_seen => signal_seen',
             stop' = stop \/ (stop' = (stop \/ signal_seen \/ (Iterations = 0 /\ expired))
                              /\ signal_seen' = signal_seen),
             PassInv'
      PROVE  WorkInv'
    <2>1. \A v \in Workers : \/ pc'[v] = pc[v]
                             \/ /\ {pc[v], pc'[v]} \subseteq {"unborn", "refill", "refill_failed"}
                                /\ pc[v] \in {"unborn", "refill"}
        BY <1>1 DEF CreateWorker, SignalInRefill, Goto, TypeOK
    <2>2. \A v \in Workers : (failed[v] \/ PlaceInv(v))'
        BY <1>1, <2>1 DEF WorkInv, PlaceInv, TrippedPc, UpkeepPc, WritePc, RekeyPc, CyclePc
    <2>3. StopInv'
        <3> SUFFICES ASSUME Iterations > 0, ~signal_seen', Clean' PROVE StopInv'
            BY DEF StopInv
        <3>1. ~signal_seen /\ Clean /\ ~stop
              /\ \A v \in Workers : pc[v] \in {"done", "returned"} => iter[v] = Iterations
            BY <1>1 DEF WorkInv, StopInv, Clean
        <3>2. Iterations # 0
            BY ConfigAssumption
        <3>3. ~stop'
            BY <1>1, <3>1, <3>2, Zenon
        <3> QED
            BY <1>1, <2>1, <3>1, <3>3 DEF StopInv
    <2>4. TallyInv'
        <3>1. \A c \in Slots : /\ Past(RekeyEvery, c, RotatedPc)' <=> Past(RekeyEvery, c, RotatedPc)
                               /\ Past(BlobCycleEvery, c, ReopenedPc)' <=> Past(BlobCycleEvery, c, ReopenedPc)
            <4> SUFFICES ASSUME NEW c \in Slots
                         PROVE  /\ Past(RekeyEvery, c, RotatedPc)' <=> Past(RekeyEvery, c, RotatedPc)
                                /\ Past(BlobCycleEvery, c, ReopenedPc)' <=> Past(BlobCycleEvery, c, ReopenedPc)
                OBVIOUS
            <4>1. c[1] \in Workers
                BY DEF Slots
            <4>2. \/ pc'[c[1]] = pc[c[1]]
                  \/ {pc[c[1]], pc'[c[1]]} \cap (RotatedPc \cup ReopenedPc) = {}
                BY <2>1, <4>1 DEF RotatedPc, ReopenedPc, CyclePc
            <4> QED
                BY <1>1, <4>2 DEF Past
        <3>2. Slots' = Slots
            BY DEF Slots
        <3>3. Rotated' = Rotated /\ Reopened' = Reopened
            BY <3>1, <3>2 DEF Rotated, Reopened
        <3> QED
            BY <1>1, <3>3 DEF WorkInv, TallyInv, Clean, countVars
    <2> QED
        BY <1>1, <2>2, <2>3, <2>4 DEF WorkInv
<1>2. ASSUME exit = "running", NEW w \in Workers, CreateWorker(w) \/ SignalInRefill(w)
      PROVE  WorkInv'
    BY <1>1, <1>2 DEF CreateWorker, SignalInRefill, localVars, failVars, mainVars, PassInv
<1>3. CASE exit = "running" /\ MainStep
    <2> USE DEF localVars, failVars, mainVars
    <2>1. CASE Return
        <3>1. \A w \in Workers : pc'[w] = "returned"
            BY <2>1 DEF Return, StageInv
        <3>2. PassInv'
            BY <2>1, <3>1 DEF Return, Verdict, PassInv
        <3> QED
            BY <1>1, <2>1, <3>2 DEF Return
    <2>2. CASE BuildPipeline \/ BuildDone \/ MainWarmupArrive \/ MainWarmedUp \/ StartClock
               \/ MainReleaseArrive \/ MainReleased \/ Join \/ Summary \/ FreeHandles
        <3>1. UNCHANGED <<pc, iter, iters, failed, stop, countVars, exit, signal_seen>>
            BY <2>2 DEF BuildPipeline, BuildDone, MainWarmupArrive, MainWarmedUp, StartClock,
               MainReleaseArrive, MainReleased, Join, Summary, FreeHandles
        <3> QED
            BY <1>1, <1>3, <3>1 DEF PassInv
    <2>3. CASE BuildError \/ CreateError
        <3>1. UNCHANGED <<pc, iter, iters, failed, stop, countVars, signal_seen>> /\ exit' = "fail"
            BY <2>3 DEF BuildError, CreateError
        <3> QED
            BY <1>1, <3>1 DEF PassInv
    <2>4. CASE Poll
        <3>1. /\ UNCHANGED <<pc, iter, iters, failed, countVars, exit, signal_seen>>
              /\ stop' = stop \/ stop' = (stop \/ signal_seen \/ (Iterations = 0 /\ expired))
            BY <2>4 DEF Poll
        <3> QED
            BY <1>1, <1>3, <3>1 DEF PassInv
    <2> QED
        BY <1>2, <1>3, <2>1, <2>2, <2>3, <2>4 DEF MainStep
<1>4. CASE exit = "running" /\ EnvStep
    <2>1. CASE Signal \/ Deadline
        <3>1. UNCHANGED <<pc, iter, iters, failed, stop, countVars, exit>>
              /\ (signal_seen => signal_seen')
            BY <2>1 DEF Signal, Deadline, localVars, failVars
        <3> QED
            BY <1>1, <1>4, <3>1 DEF PassInv
    <2> QED
        BY <1>2, <1>4, <2>1 DEF EnvStep
<1>5. CASE UNCHANGED vars
    <2>1. UNCHANGED <<pc, iter, iters, failed, stop, countVars, exit, signal_seen>>
        BY <1>5 DEF vars, localVars, failVars, mainVars
    <2> QED
        BY <1>1, <2>1 DEF WorkInv, PassInv
<1> QED
    BY <1>3, <1>4, <1>5, WorkWorker DEF Next, Exited

(* Before the first iteration there is nothing to account for.             *)
LEMMA WorkInit == Init => WorkInv
<1> SUFFICES ASSUME Init PROVE WorkInv
    OBVIOUS
<1>1. \A w \in Workers : PlaceInv(w)
    BY ConfigAssumption DEF Init, PlaceInv, TrippedPc, UpkeepPc, WritePc, RekeyPc, CyclePc
<1>2. StopInv /\ PassInv
    BY DEF Init, StopInv, PassInv
<1>3. ASSUME NEW c \in Slots
      PROVE  ~Past(RekeyEvery, c, RotatedPc) /\ ~Past(BlobCycleEvery, c, ReopenedPc)
    <2>1. c[1] \in Workers /\ c[2] \in 1..Iterations
        BY DEF Slots
    <2> QED
        BY <2>1, ConfigAssumption DEF Init, Past, RotatedPc, ReopenedPc, CyclePc
<1>4. Rotated = {} /\ Reopened = {}
    BY <1>3 DEF Rotated, Reopened
<1>5. TallyInv
    BY <1>4, FS_EmptySet DEF Init, TallyInv
<1> QED
    BY <1>1, <1>2, <1>5 DEF WorkInv

(* When every worker is at its budget, the pairs are those an interval     *)
(* makes due.                                                              *)
LEMMA TallyTotal ==
    ASSUME NEW every \in Nat, NEW places, Iterations > 0,
           \A w \in Workers : iter[w] = Iterations /\ pc[w] \notin places
    PROVE  Cardinality({c \in Slots : Past(every, c, places)}) = Occasions(every)
<1> DEFINE hits == {i \in 1..(Iterations - 1) : Due(every, i)}
           pairs == {c \in Slots : Past(every, c, places)}
<1>1. Iterations \in Nat /\ Iterations - 1 \in Nat
    BY ConfigAssumption
<1>2. pairs = Workers \X hits
    <2>1. ASSUME NEW c \in Slots PROVE Past(every, c, places) <=> c[2] \in hits
        <3>1. c[1] \in Workers /\ c[2] \in 1..Iterations
            BY DEF Slots
        <3>2. Past(every, c, places) <=> (Due(every, c[2]) /\ c[2] < Iterations)
            BY <3>1 DEF Past
        <3>3. c[2] < Iterations <=> c[2] \in 1..(Iterations - 1)
            BY <1>1, <3>1
        <3> QED
            BY <3>2, <3>3
    <2>2. Workers \X hits \subseteq Slots
        BY <1>1 DEF Slots
    <2>3. \A c \in Slots : c \in Workers \X hits <=> c[2] \in hits
        BY DEF Slots
    <2> HIDE DEF hits
    <2> QED
        BY <2>1, <2>2, <2>3
<1>3. CASE every = 0
    <2>1. hits = {}
        BY <1>3 DEF Due
    <2>2. pairs = {}
        BY <1>2, <2>1
    <2> QED
        BY <1>3, <2>2, FS_EmptySet DEF Occasions
<1>4. CASE every # 0
    <2>1. hits = {i \in 1..(Iterations - 1) : i % every = 0}
        BY <1>4 DEF Due
    <2>2. IsFiniteSet(hits) /\ Cardinality(hits) = (Iterations - 1) \div every
        <3> HIDE DEF hits
        <3> QED
            BY <1>1, <1>4, <2>1, Multiples
    <2>3. Cardinality(pairs) = Cardinality(Workers) * Cardinality(hits)
        <3> HIDE DEF hits, pairs
        <3> QED
            BY <1>2, <2>2, ConfigAssumption, FS_Product
    <2> QED
        BY <1>4, <2>2, <2>3 DEF Occasions
<1> QED
    BY <1>3, <1>4

(* A PASS of a run of fixed length that no signal cut short means that     *)
(* every worker completed its iterations and every rotation and reopen     *)
(* that was due took place.                                                *)
THEOREM PassIsComplete == Spec => []PassMeansComplete
<1>1. WorkInv => PassMeansComplete
    <2> SUFFICES ASSUME WorkInv, exit = "pass", Iterations > 0, ~signal_seen
                 PROVE  /\ \A w \in Workers : iters[w] = Iterations
                        /\ rekeys = Occasions(RekeyEvery)
                        /\ cycles = Occasions(BlobCycleEvery)
        BY DEF PassMeansComplete
    <2>1. Clean /\ \A w \in Workers : pc[w] = "returned"
        BY DEF WorkInv, PassInv, Clean
    <2>2. \A w \in Workers : iter[w] = Iterations
        BY <2>1 DEF WorkInv, StopInv
    <2>3. \A w \in Workers : iters[w] = Iterations
        BY <2>1, <2>2 DEF WorkInv, PlaceInv, Clean, TrippedPc, WritePc, RekeyPc, CyclePc
    <2>4. \A w \in Workers : pc[w] \notin RotatedPc /\ pc[w] \notin ReopenedPc
        BY <2>1 DEF RotatedPc, ReopenedPc, CyclePc
    <2>5. Cardinality(Rotated) = Occasions(RekeyEvery)
        BY <2>2, <2>4, TallyTotal, ConfigAssumption DEF Rotated
    <2>6. Cardinality(Reopened) = Occasions(BlobCycleEvery)
        BY <2>2, <2>4, TallyTotal, ConfigAssumption DEF Reopened
    <2> QED
        BY <2>1, <2>3, <2>5, <2>6 DEF WorkInv, TallyInv
<1> QED
    BY <1>1, WorkInit, WorkNext, Inductive, TypeCorrect, PTL DEF Spec
=============================================================================
