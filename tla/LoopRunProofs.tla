--------------------------- MODULE LoopRunProofs ---------------------------
(***************************************************************************)
(* Proofs about LoopRun: the types, the read-write lock, the safety of the *)
(* shared handles and the keying of a round trip, for any number of        *)
(* workers and every configuration; then its handles.  Every use the       *)
(* workers make of a Pipeline handle is one the library allows             *)
(* (SharedHandle), outside a reopen the open handles are exactly those the *)
(* pipe variables point to, also after failures, and the retained blobs    *)
(* open to the keying in force.                                            *)
(***************************************************************************)
EXTENDS LoopRun, TLAPS, FiniteSetTheorems

(* The pipe of an iteration and the next pipe of a maintenance pass are    *)
(* pipes of the run's shape.                                               *)
LEMMA PipeOfType == ASSUME NEW i \in Nat PROVE PipeOf(i) \in Pipes
BY ConfigAssumption DEF PipeOf, Pipes, Shapes

(* Picking a pipe out of a set of pipes gives a pipe of the set (the       *)
(* maintenance pass works through its list).                               *)
LEMMA FirstOfType == ASSUME NEW S, S \subseteq Pipes, S # {} PROVE FirstOf(S) \in S
BY ConfigAssumption DEF FirstOf, Pipes, Shapes

(* The initial state is well typed: the number of workers is a number.     *)
LEMMA TypeInit == Init => TypeOK
<1>1. Cardinality(Workers) \in Nat
    BY ConfigAssumption, FS_CardinalityType
<1>2. InitKey \in Key
    BY DEF InitKey, Key, Threads
<1> SUFFICES ASSUME Init PROVE TypeOK
    OBVIOUS
<1>3. failed \in [Workers -> BOOLEAN] /\ pc \in [Workers -> PlainPc \cup ReadPc \cup WritePc]
    BY DEF Init, PlainPc
<1>4. arrived \in [{"warmup_done", "release"} -> SUBSET Threads]
    BY DEF Init
<1>5. keying \in [Pipes -> Key] /\ blob \in [Pipes -> Key] /\ wire \in [Workers -> Key]
    BY <1>2 DEF Init
<1>6. gen \in [Pipes -> Nat] /\ iter \in [Workers -> Nat] /\ iters \in [Workers -> Nat]
    BY DEF Init
<1>7. todo \in [Workers -> SUBSET Pipes] /\ active \in Int
    BY <1>1 DEF Init
<1> QED
    BY <1>3, <1>4, <1>5, <1>6, <1>7 DEF Init, TypeOK, MainPc, Exits

(* An iteration keeps the types. *)
LEMMA TypeIterate ==
    ASSUME TypeOK, NEW w \in Workers, IterateStep(w)
    PROVE  TypeOK'
<1> USE ConfigAssumption DEF TypeOK, PlainPc, ReadPc, WritePc, RekeyPc, CyclePc, MainPc, Exits,
        Goto, handleVars, lockVars, localVars, failVars, doneVars, countVars, mainVars
<1>1. CASE Refill(w)
    BY <1>1 DEF Refill
<1>2. CASE RefillFailed(w)
    BY <1>2 DEF RefillFailed, WorkerFail
<1>3. CASE RdLock(w)
    BY <1>3 DEF RdLock
<1>4. CASE BeginEncrypt(w)
    BY <1>4, PipeOfType DEF BeginEncrypt, Handle, Current
<1>5. CASE EncryptReturns(w)
    <2>1. CASE UNCHANGED failVars
        BY <1>5, <2>1 DEF EncryptReturns, EndCall
    <2>2. CASE WorkerFail(w) /\ Goto(w, "rdunlock")
        BY <1>5, <2>2 DEF EncryptReturns, EndCall, WorkerFail
    <2> QED
        BY <1>5, <2>1, <2>2 DEF EncryptReturns
<1>6. CASE BeginDecrypt(w)
    BY <1>6, PipeOfType DEF BeginDecrypt, Handle, Current
<1>7. CASE DecryptOk(w)
    BY <1>7 DEF DecryptOk, EndCall
<1>8. CASE DecryptError(w)
    BY <1>8 DEF DecryptError, WorkerFail, EndCall
<1>9. CASE DataMismatch(w)
    BY <1>9 DEF DataMismatch, EndCall
<1>10. CASE RdUnlock(w)
    BY <1>10 DEF RdUnlock
<1> QED
    BY <1>1, <1>2, <1>3, <1>4, <1>5, <1>6, <1>7, <1>8, <1>9, <1>10 DEF IterateStep

(* So does the rest of a worker's thread body, *)
LEMMA TypeThread ==
    ASSUME TypeOK, NEW w \in Workers, ThreadStep(w)
    PROVE  TypeOK'
<1> USE ConfigAssumption DEF TypeOK, PlainPc, ReadPc, WritePc, RekeyPc, CyclePc, MainPc, Exits,
        Goto, handleVars, lockVars, localVars, failVars, doneVars, countVars, mainVars
<1>1. CASE WarmupArrive(w)
    BY <1>1 DEF WarmupArrive, Arrive, Threads
<1>2. CASE ReleaseArrive(w)
    BY <1>2 DEF ReleaseArrive, Arrive, Threads
<1>3. CASE Released(w)
    BY <1>3 DEF Released
<1>4. CASE LoopHead(w)
    BY <1>4 DEF LoopHead
<1>5. CASE WorkerDone(w)
    BY <1>5 DEF WorkerDone
<1> QED
    BY <1>1, <1>2, <1>3, <1>4, <1>5 DEF ThreadStep

(* its maintenance, *)
LEMMA TypeMaintenance ==
    ASSUME TypeOK, NEW w \in Workers, MaintenanceStep(w)
    PROVE  TypeOK'
<1> USE ConfigAssumption DEF TypeOK, PlainPc, ReadPc, WritePc, RekeyPc, CyclePc, MainPc, Exits,
        Goto, handleVars, lockVars, localVars, failVars, doneVars, countVars, mainVars
<1>1. CASE Maintain(w)
    BY <1>1 DEF Maintain
<1>2. CASE CycleDue(w)
    BY <1>2 DEF CycleDue
<1>3. CASE DrawMasters(w)
    <2>1. CASE UNCHANGED failVars
        BY <1>3, <2>1 DEF DrawMasters
    <2>2. CASE WorkerFail(w) /\ Goto(w, "done")
        BY <1>3, <2>2 DEF DrawMasters, WorkerFail
    <2> QED
        BY <1>3, <2>1, <2>2 DEF DrawMasters
<1>4. CASE WrLock(w)
    BY <1>4 DEF WrLock
<1>5. CASE BeginRekey(w)
    BY <1>5 DEF BeginRekey
<1>6. CASE RekeyOk(w)
    <2>1. todo' \in [Workers -> SUBSET Pipes]
        BY <1>6 DEF RekeyOk
    <2>2. keying' \in [Pipes -> Key] /\ blob' \in [Pipes -> Key]
        BY <1>6 DEF RekeyOk, Key, Threads
    <2> QED
        BY <1>6, <2>1, <2>2 DEF RekeyOk
<1>7. CASE RekeyError(w)
    <2>1. <<w, iter[w]>> \in Key
        BY DEF Key, Threads
    <2>2. keying' \in [Pipes -> Key]
        <3>1. PICK k \in {keying[FirstOf(todo[w])], <<w, iter[w]>>} :
                  keying' = [keying EXCEPT ![FirstOf(todo[w])] = k]
            BY <1>7 DEF RekeyError
        <3> QED
            BY <2>1, <3>1
    <2> QED
        BY <1>7, <2>2 DEF RekeyError, WorkerFail
<1>8. CASE RekeyDone(w)
    BY <1>8 DEF RekeyDone
<1>9. CASE Load(w)
    BY <1>9, FirstOfType DEF Load, Handle, Fresh
<1>10. CASE LoadError(w)
    BY <1>10 DEF LoadError, WorkerFail
<1>11. CASE FreeOld(w)
    BY <1>11 DEF FreeOld
<1>12. CASE Swap(w)
    <2>1. todo' \in [Workers -> SUBSET Pipes]
        BY <1>12 DEF Swap
    <2>2. keying' \in [Pipes -> Key]
        BY <1>12 DEF Swap
    <2>3. gen' \in [Pipes -> Nat]
        <3> DEFINE p == FirstOf(todo[w])
        <3>1. gen' = [gen EXCEPT ![p] = gen[p] + 1]
            BY <1>12 DEF Swap
        <3> HIDE DEF p
        <3>2. CASE p \in Pipes
            BY <3>1, <3>2
        <3>3. CASE p \notin Pipes
            BY <3>1, <3>3
        <3> QED
            BY <3>2, <3>3
    <2> QED
        BY <1>12, <2>1, <2>2, <2>3 DEF Swap
<1>13. CASE CycleDone(w)
    BY <1>13 DEF CycleDone
<1>14. CASE WrUnlock(w)
    BY <1>14 DEF WrUnlock
<1> QED
    BY <1>1, <1>2, <1>3, <1>4, <1>5, <1>6, <1>7, <1>8, <1>9, <1>10, <1>11, <1>12, <1>13, <1>14 DEF MaintenanceStep

(* the main thread *)
LEMMA TypeMain == TypeOK /\ MainStep => TypeOK'
<1> SUFFICES ASSUME TypeOK, MainStep PROVE TypeOK'
    OBVIOUS
<1> USE ConfigAssumption DEF TypeOK, PlainPc, ReadPc, WritePc, RekeyPc, CyclePc, MainPc, Exits,
        Goto, MainGoto, handleVars, lockVars, localVars, failVars, doneVars, countVars, mainVars
<1>1. CASE BuildPipeline
    <2> DEFINE unbuilt == {p \in Pipes : Current(p) \notin live}
    <2>1. unbuilt \subseteq Pipes /\ unbuilt # {}
        BY <1>1 DEF BuildPipeline
    <2>2. FirstOf(unbuilt) \in Pipes
        <3> HIDE DEF unbuilt
        <3> QED
            BY <2>1, FirstOfType
    <2>3. Current(FirstOf(unbuilt)) \in Handle
        BY <2>2 DEF Current, Handle
    <2> QED
        BY <1>1, <2>3 DEF BuildPipeline
<1>2. CASE BuildError
    BY <1>2 DEF BuildError
<1>3. CASE BuildDone
    BY <1>3 DEF BuildDone
<1>4. ASSUME NEW w \in Workers, CreateWorker(w) PROVE TypeOK'
    BY <1>4 DEF CreateWorker
<1>5. CASE CreateError
    BY <1>5 DEF CreateError
<1>6. CASE MainWarmupArrive
    BY <1>6 DEF MainWarmupArrive, Arrive, Threads
<1>7. CASE MainWarmedUp
    BY <1>7 DEF MainWarmedUp
<1>8. CASE StartClock
    BY <1>8 DEF StartClock
<1>9. CASE MainReleaseArrive
    BY <1>9 DEF MainReleaseArrive, Arrive, Threads
<1>10. CASE MainReleased
    BY <1>10 DEF MainReleased
<1>11. CASE Poll
    BY <1>11 DEF Poll
<1>12. CASE Join
    BY <1>12 DEF Join
<1>13. CASE Summary
    BY <1>13 DEF Summary
<1>14. CASE FreeHandles
    BY <1>14 DEF FreeHandles
<1>15. CASE Return
    BY <1>15 DEF Return, Verdict
<1> QED
    BY <1>1, <1>2, <1>3, <1>4, <1>5, <1>6, <1>7, <1>8, <1>9, <1>10, <1>11, <1>12, <1>13, <1>14, <1>15 DEF MainStep

(* and the environment. *)
LEMMA TypeEnv == TypeOK /\ EnvStep => TypeOK'
<1> SUFFICES ASSUME TypeOK, EnvStep PROVE TypeOK'
    OBVIOUS
<1> USE DEF TypeOK, PlainPc, Goto, handleVars, lockVars, localVars, failVars, doneVars, countVars
<1>1. CASE Signal
    BY <1>1 DEF Signal
<1>2. ASSUME NEW w \in Workers, SignalInRefill(w) PROVE TypeOK'
    BY <1>2 DEF SignalInRefill
<1>3. CASE Deadline
    BY <1>3 DEF Deadline
<1> QED
    BY <1>1, <1>2, <1>3 DEF EnvStep

(* Every step of the harness keeps the types.                              *)
LEMMA TypeNext == TypeOK /\ [Next]_vars => TypeOK'
<1> SUFFICES ASSUME TypeOK, [Next]_vars PROVE TypeOK'
    OBVIOUS
<1>1. ASSUME NEW w \in Workers, WorkerStep(w) PROVE TypeOK'
    BY <1>1, TypeIterate, TypeThread, TypeMaintenance DEF WorkerStep
<1>2. CASE UNCHANGED vars
    BY <1>2 DEF TypeOK, vars, handleVars, lockVars, localVars, failVars, doneVars, countVars, mainVars
<1> QED
    BY <1>1, <1>2, TypeMain, TypeEnv DEF Next, Exited

(* Every variable keeps its type.                                          *)
THEOREM TypeCorrect == Spec => []TypeOK
BY TypeInit, TypeNext, PTL DEF Spec

-----------------------------------------------------------------------------
(* The lock.  A worker's program counter enters a locked section only by   *)
(* taking the lock and leaves it only by giving it back.                   *)
LEMMA LockIterate ==
    ASSUME TypeOK, LockInv, NEW w \in Workers, IterateStep(w)
    PROVE  LockInv'
<1> USE ConfigAssumption DEF TypeOK, LockInv, ReadPc, WritePc, RekeyPc, CyclePc, Goto,
        handleVars, lockVars, localVars, failVars, mainVars
<1>1. CASE Refill(w)
    BY <1>1 DEF Refill
<1>2. CASE RefillFailed(w)
    BY <1>2 DEF RefillFailed
<1>3. CASE RdLock(w)
    BY <1>3 DEF RdLock
<1>4. CASE BeginEncrypt(w)
    BY <1>4 DEF BeginEncrypt
<1>5. CASE EncryptReturns(w)
    BY <1>5 DEF EncryptReturns
<1>6. CASE BeginDecrypt(w)
    BY <1>6 DEF BeginDecrypt
<1>7. CASE DecryptOk(w)
    BY <1>7 DEF DecryptOk
<1>8. CASE DecryptError(w)
    BY <1>8 DEF DecryptError
<1>9. CASE DataMismatch(w)
    BY <1>9 DEF DataMismatch
<1>10. CASE RdUnlock(w)
    BY <1>10 DEF RdUnlock
<1> QED
    BY <1>1, <1>2, <1>3, <1>4, <1>5, <1>6, <1>7, <1>8, <1>9, <1>10 DEF IterateStep

(* The remaining steps of the thread body keep the lock discipline.        *)
LEMMA LockThread ==
    ASSUME TypeOK, LockInv, NEW w \in Workers, ThreadStep(w)
    PROVE  LockInv'
<1> USE ConfigAssumption DEF TypeOK, LockInv, ReadPc, WritePc, RekeyPc, CyclePc, Goto, lockVars
<1>1. CASE WarmupArrive(w)
    BY <1>1 DEF WarmupArrive
<1>2. CASE ReleaseArrive(w)
    BY <1>2 DEF ReleaseArrive
<1>3. CASE Released(w)
    BY <1>3 DEF Released
<1>4. CASE LoopHead(w)
    BY <1>4 DEF LoopHead
<1>5. CASE WorkerDone(w)
    BY <1>5 DEF WorkerDone
<1> QED
    BY <1>1, <1>2, <1>3, <1>4, <1>5 DEF ThreadStep

LEMMA LockMaintenance ==
    ASSUME TypeOK, LockInv, NEW w \in Workers, MaintenanceStep(w)
    PROVE  LockInv'
<1> USE ConfigAssumption DEF TypeOK, LockInv, ReadPc, WritePc, RekeyPc, CyclePc, Goto, lockVars
<1>1. CASE Maintain(w)
    BY <1>1 DEF Maintain
<1>2. CASE CycleDue(w)
    BY <1>2 DEF CycleDue
<1>3. CASE DrawMasters(w)
    BY <1>3 DEF DrawMasters
<1>4. CASE WrLock(w)
    BY <1>4 DEF WrLock
<1>5. CASE BeginRekey(w) \/ RekeyOk(w) \/ RekeyError(w) \/ RekeyDone(w)
    BY <1>5 DEF BeginRekey, RekeyOk, RekeyError, RekeyDone
<1>6. CASE Load(w) \/ LoadError(w) \/ FreeOld(w) \/ Swap(w) \/ CycleDone(w)
    BY <1>6 DEF Load, LoadError, FreeOld, Swap, CycleDone
<1>7. CASE WrUnlock(w)
    BY <1>7 DEF WrUnlock
<1> QED
    BY <1>1, <1>2, <1>3, <1>4, <1>5, <1>6, <1>7 DEF MaintenanceStep

(* Main and the environment touch no program counter inside a section.     *)
LEMMA LockMain == TypeOK /\ LockInv /\ (MainStep \/ EnvStep) => LockInv'
<1> SUFFICES ASSUME TypeOK, LockInv, MainStep \/ EnvStep PROVE LockInv'
    OBVIOUS
<1>1. CASE UNCHANGED <<pc, readers, writer>>
    BY <1>1 DEF LockInv
<1>2. ASSUME NEW w \in Workers, CreateWorker(w) \/ SignalInRefill(w) PROVE LockInv'
    BY <1>2 DEF CreateWorker, SignalInRefill, Goto, TypeOK, LockInv, lockVars,
       ReadPc, WritePc, RekeyPc, CyclePc
<1>3. UNCHANGED <<pc, readers, writer>>
      \/ \E w \in Workers : CreateWorker(w) \/ SignalInRefill(w)
    BY DEF MainStep, EnvStep, BuildPipeline, BuildError, BuildDone, CreateError, MainWarmupArrive,
       MainWarmedUp, StartClock, MainReleaseArrive, MainReleased, Poll, Join, Summary, FreeHandles,
       Return, Signal, Deadline, lockVars
<1> QED
    BY <1>1, <1>2, <1>3

(* Every step of the harness keeps the lock discipline.                    *)
LEMMA LockNext == TypeOK /\ LockInv /\ [Next]_vars => LockInv'
<1> SUFFICES ASSUME TypeOK, LockInv, [Next]_vars PROVE LockInv'
    OBVIOUS
<1>1. ASSUME NEW w \in Workers, WorkerStep(w) PROVE LockInv'
    BY <1>1, LockIterate, LockThread, LockMaintenance DEF WorkerStep
<1>2. CASE UNCHANGED vars
    BY <1>2 DEF LockInv, vars, lockVars
<1> QED
    BY <1>1, <1>2, LockMain DEF Next, Exited

(* At the start the lock is free and no worker is in a section.            *)
LEMMA LockInit == Init => LockInv
BY ConfigAssumption DEF Init, LockInv, ReadPc, WritePc, RekeyPc, CyclePc

(* A writer excludes every reader and every other writer.                  *)
THEOREM LockCorrect == Spec => []LockInv
BY LockInit, LockNext, TypeCorrect, PTL DEF Spec

-----------------------------------------------------------------------------
(* The handles. *)

HandleInv == CallInv /\ MaintenanceInv /\ StageInv /\ LiveInv /\ RoundTripKeying

(* What holding one side of the lock tells about everybody else.           *)
LEMMA WriterAlone ==
    ASSUME TypeOK, LockInv, CallInv, NEW w \in Workers, pc[w] \in WritePc
    PROVE  /\ calls = {}
           /\ \A v \in Workers : pc[v] \notin ReadPc
           /\ \A v \in Workers \ {w} : pc[v] \notin WritePc
<1>1. writer = w /\ readers = {}
    BY ConfigAssumption DEF LockInv
<1>2. \A v \in Workers : pc[v] \notin ReadPc
    BY <1>1 DEF LockInv
<1>3. ASSUME NEW c \in calls PROVE FALSE
    BY <1>2 DEF TypeOK, CallInv, ReadPc
<1> QED
    BY <1>1, <1>2, <1>3 DEF LockInv

(* While a worker holds the read side, no worker is in maintenance.        *)
LEMMA ReaderSeesNoWriter ==
    ASSUME LockInv, NEW w \in Workers, pc[w] \in ReadPc
    PROVE  \A v \in Workers : pc[v] \notin WritePc
BY ConfigAssumption DEF LockInv

(* While a worker runs, main is between the building and the freeing.      *)
LEMMA MainWaits ==
    ASSUME StageInv, exit = "running", NEW w \in Workers, pc[w] \notin {"unborn", "returned"}
    PROVE  mpc \notin {"build", "summary", "free", "exited"}
BY DEF StageInv

(* So the handle a reader picks up is open.                                *)
LEMMA ReaderFindsHandle ==
    ASSUME TypeOK, LockInv, HandleInv, exit = "running", NEW w \in Workers, pc[w] \in ReadPc
    PROVE  Current(PipeOf(iter[w])) \in live
<1>1. \A v \in Workers : pc[v] # "swap"
    BY ReaderSeesNoWriter DEF WritePc, CyclePc
<1>2. mpc \notin {"build", "free", "exited"}
    BY MainWaits DEF HandleInv, ReadPc
<1>3. PipeOf(iter[w]) \in Pipes
    BY PipeOfType DEF TypeOK
<1> QED
    BY <1>1, <1>2, <1>3 DEF HandleInv, LiveInv

(* A step of one worker that starts and ends outside the calls and outside *)
(* the middle of a reopen.                                                 *)
LEMMA QuietStep ==
    ASSUME TypeOK, HandleInv, exit = "running", NEW w \in Workers, NEW label,
           pc[w] \notin {"unborn", "returned", "encrypting", "decrypting", "swap"},
           pc' = [pc EXCEPT ![w] = label],
           label \notin {"unborn", "encrypting", "decrypt", "decrypting", "rekeying", "free", "swap"},
           \A v \in Workers \ {w} : iter'[v] = iter[v] /\ wire'[v] = wire[v] /\ todo'[v] = todo[v],
           UNCHANGED <<gen, live, keying, calls, mpc, exit>>
    PROVE  HandleInv'
<1> USE DEF TypeOK
<1>1. mpc \notin {"build", "summary", "free", "exited"}
    BY MainWaits DEF HandleInv
<1>2. \A v \in Workers : pc'[v] = IF v = w THEN label ELSE pc[v]
    OBVIOUS
<1>3. CallInv'
    <2> SUFFICES ASSUME NEW c \in calls PROVE
            /\ pc'[c[1]] \in {"encrypting", "decrypting"}
            /\ c[2] = Current(PipeOf(iter[c[1]]))'
            /\ c[2] \in live
        BY DEF CallInv
    <2>1. c[1] \in Workers /\ c[1] # w
        BY DEF HandleInv, CallInv
    <2> QED
        BY <1>2, <2>1 DEF HandleInv, CallInv, Current, PipeOf
<1>4. MaintenanceInv'
    BY <1>2 DEF HandleInv, MaintenanceInv, Fresh, FirstOf
<1>5. StageInv'
    BY <1>1 DEF StageInv
<1>6. LiveInv'
    BY <1>2 DEF HandleInv, LiveInv, Current, FirstOf
<1>7. RoundTripKeying'
    <2> SUFFICES ASSUME NEW v \in Workers, pc'[v] \in {"encrypting", "decrypt", "decrypting"}
                 PROVE  wire'[v] = keying[PipeOf(iter[v])]'
        BY DEF RoundTripKeying
    <2>1. v # w
        BY <1>2
    <2> QED
        BY <1>2, <2>1 DEF HandleInv, RoundTripKeying, PipeOf
<1> QED
    BY <1>3, <1>4, <1>5, <1>6, <1>7 DEF HandleInv

(* A step of the thread body outside the iteration keeps the handle        *)
(* discipline.                                                             *)
LEMMA HandleThread ==
    ASSUME TypeOK, HandleInv, exit = "running", NEW w \in Workers, ThreadStep(w)
    PROVE  HandleInv'
<1> USE QuietStep DEF Goto, handleVars, localVars, mainVars, TypeOK
<1>1. CASE WarmupArrive(w)
    BY <1>1 DEF WarmupArrive
<1>2. CASE ReleaseArrive(w)
    BY <1>2 DEF ReleaseArrive
<1>3. CASE Released(w)
    BY <1>3 DEF Released
<1>4. CASE LoopHead(w)
    BY <1>4 DEF LoopHead
<1>5. CASE WorkerDone(w)
    BY <1>5 DEF WorkerDone
<1> QED
    BY <1>1, <1>2, <1>3, <1>4, <1>5 DEF ThreadStep

(* A step inside a call or between the calls of a round trip: the worker   *)
(* holds the read side, and only its own call comes or goes.               *)
LEMMA ReaderStep ==
    ASSUME TypeOK, LockInv, HandleInv, exit = "running", NEW w \in Workers, pc[w] \in ReadPc,
           NEW label \in ReadPc, pc' = [pc EXCEPT ![w] = label],
           UNCHANGED <<gen, live, keying, iter, todo, mpc, exit>>,
           \A v \in Workers \ {w} : wire'[v] = wire[v],
           label \in {"encrypting", "decrypt", "decrypting"} =>
               wire'[w] = keying[PipeOf(iter[w])],
           \A c \in calls' :
               \/ c \in calls /\ c[1] # w
               \/ c = <<w, Current(PipeOf(iter[w]))>> /\ label \in {"encrypting", "decrypting"}
    PROVE  HandleInv'
<1> USE DEF TypeOK
<1>1. mpc \notin {"build", "summary", "free", "exited"}
    BY MainWaits DEF HandleInv, ReadPc
<1>2. \A v \in Workers : pc'[v] = IF v = w THEN label ELSE pc[v]
    OBVIOUS
<1>3. label \notin {"rekeying", "free", "swap"} /\ pc[w] # "swap"
    BY DEF ReadPc
<1>4. CallInv'
    <2> SUFFICES ASSUME NEW c \in calls' PROVE
            /\ pc'[c[1]] \in {"encrypting", "decrypting"}
            /\ c[2] = Current(PipeOf(iter[c[1]]))'
            /\ c[2] \in live
        BY DEF CallInv
    <2>1. CASE c \in calls /\ c[1] # w
        BY <1>2, <2>1 DEF HandleInv, CallInv, Current, PipeOf
    <2>2. CASE c = <<w, Current(PipeOf(iter[w]))>> /\ label \in {"encrypting", "decrypting"}
        BY <1>2, <2>2, ReaderFindsHandle DEF Current, PipeOf
    <2> QED
        BY <2>1, <2>2
<1>5. MaintenanceInv'
    BY <1>2, <1>3 DEF HandleInv, MaintenanceInv, Fresh, FirstOf
<1>6. StageInv'
    BY <1>1 DEF StageInv
<1>7. LiveInv'
    BY <1>2, <1>3 DEF HandleInv, LiveInv, Current, FirstOf
<1>8. RoundTripKeying'
    <2> SUFFICES ASSUME NEW v \in Workers, pc'[v] \in {"encrypting", "decrypt", "decrypting"}
                 PROVE  wire'[v] = keying[PipeOf(iter[v])]'
        BY DEF RoundTripKeying
    <2>1. CASE v = w
        BY <1>2, <2>1 DEF PipeOf
    <2>2. CASE v # w
        BY <1>2, <2>2 DEF HandleInv, RoundTripKeying, PipeOf
    <2> QED
        BY <2>1, <2>2
<1> QED
    BY <1>4, <1>5, <1>6, <1>7, <1>8 DEF HandleInv

(* A step of a loop iteration keeps the handle discipline: every cipher    *)
(* call it starts is made under the read side.                             *)
LEMMA HandleIterate ==
    ASSUME TypeOK, LockInv, HandleInv, exit = "running", NEW w \in Workers, IterateStep(w)
    PROVE  HandleInv'
<1> USE DEF Goto, handleVars, localVars, mainVars, TypeOK
<1>1. CASE Refill(w)
    BY <1>1, QuietStep DEF Refill
<1>2. CASE RefillFailed(w)
    BY <1>2, QuietStep DEF RefillFailed
<1>3. CASE RdLock(w)
    BY <1>3, QuietStep DEF RdLock
<1>4. CASE BeginEncrypt(w)
    <2>1. pc[w] \in ReadPc /\ "encrypting" \in ReadPc
        BY <1>4 DEF BeginEncrypt, ReadPc
    <2>2. /\ pc' = [pc EXCEPT ![w] = "encrypting"]
          /\ UNCHANGED <<gen, live, keying, iter, todo, mpc, exit>>
        BY <1>4 DEF BeginEncrypt
    <2>3. /\ wire'[w] = keying[PipeOf(iter[w])]
          /\ \A v \in Workers \ {w} : wire'[v] = wire[v]
        BY <1>4 DEF BeginEncrypt
    <2>4. ASSUME NEW c \in calls', ~(c \in calls /\ c[1] # w)
          PROVE  c = <<w, Current(PipeOf(iter[w]))>>
        BY <1>4, <2>4 DEF BeginEncrypt, HandleInv, CallInv
    <2> QED
        BY <2>1, <2>2, <2>3, <2>4, ReaderStep
<1>5. CASE EncryptReturns(w)
    BY <1>5, ReaderStep DEF EncryptReturns, EndCall, ReadPc, HandleInv, RoundTripKeying
<1>6. CASE BeginDecrypt(w)
    <2>1. pc[w] \in ReadPc /\ "decrypting" \in ReadPc
        BY <1>6 DEF BeginDecrypt, ReadPc
    <2>2. /\ pc' = [pc EXCEPT ![w] = "decrypting"]
          /\ UNCHANGED <<gen, live, keying, iter, todo, wire, mpc, exit>>
        BY <1>6 DEF BeginDecrypt
    <2>3. wire'[w] = keying[PipeOf(iter[w])]
        BY <1>6 DEF BeginDecrypt, HandleInv, RoundTripKeying
    <2>4. ASSUME NEW c \in calls', ~(c \in calls /\ c[1] # w)
          PROVE  c = <<w, Current(PipeOf(iter[w]))>>
        BY <1>6, <2>4 DEF BeginDecrypt, HandleInv, CallInv
    <2> QED
        BY <2>1, <2>2, <2>3, <2>4, ReaderStep
<1>7. CASE DecryptOk(w)
    BY <1>7, ReaderStep DEF DecryptOk, EndCall, ReadPc
<1>8. CASE DecryptError(w)
    BY <1>8, ReaderStep DEF DecryptError, EndCall, ReadPc
<1>9. CASE DataMismatch(w)
    BY <1>9 DEF DataMismatch, EndCall, HandleInv, CallInv, MaintenanceInv, StageInv, LiveInv,
       RoundTripKeying, Current, Fresh, FirstOf, PipeOf
<1>10. CASE RdUnlock(w)
    BY <1>10, QuietStep DEF RdUnlock
<1> QED
    BY <1>1, <1>2, <1>3, <1>4, <1>5, <1>6, <1>7, <1>8, <1>9, <1>10 DEF IterateStep

(* A step under the write side: nobody is in a call or a round trip, so    *)
(* only the writer's own place matters.                                    *)
WriterHolds(w) ==
    /\ pc[w] \in {"rekeying", "free", "swap"} => todo[w] # {}
    /\ pc[w] \in {"free", "swap"} => Fresh(FirstOf(todo[w])) \in live
    /\ \A p \in Pipes : Current(p) \in live \/ (pc[w] = "swap" /\ p = FirstOf(todo[w]))

(* A maintenance step of the writer: no other worker is near a handle, so  *)
(* only the shape of the handles after it matters.                         *)
LEMMA WriterStep ==
    ASSUME TypeOK, LockInv, HandleInv, exit = "running", NEW w \in Workers, pc[w] \in WritePc,
           pc'[w] \in WritePc, \A v \in Workers \ {w} : pc'[v] = pc[v] /\ todo'[v] = todo[v],
           UNCHANGED <<calls, mpc, exit>>, WriterHolds(w)'
    PROVE  HandleInv'
<1>1. mpc \notin {"build", "summary", "free", "exited"}
    BY MainWaits DEF HandleInv, WritePc, RekeyPc, CyclePc
<1>2. calls' = {} /\ \A v \in Workers : pc'[v] \notin ReadPc /\ (v # w => pc'[v] \notin WritePc)
    BY WriterAlone DEF HandleInv, ReadPc, WritePc, RekeyPc, CyclePc
<1>3. CallInv'
    BY <1>2 DEF CallInv
<1>4. MaintenanceInv'
    BY <1>2 DEF MaintenanceInv, WriterHolds, WritePc, RekeyPc, CyclePc
<1>5. StageInv'
    BY <1>1 DEF StageInv
<1>6. LiveInv'
    BY DEF LiveInv, WriterHolds
<1>7. RoundTripKeying'
    BY <1>2 DEF RoundTripKeying, ReadPc
<1> QED
    BY <1>3, <1>4, <1>5, <1>6, <1>7 DEF HandleInv

(* Before the free of a reopen every pipe variable holds an open handle.   *)
LEMMA WriterFindsHandles ==
    ASSUME TypeOK, LockInv, HandleInv, exit = "running",
           NEW w \in Workers, pc[w] \in WritePc, pc[w] # "swap"
    PROVE  \A p \in Pipes : Current(p) \in live
<1>1. \A v \in Workers : pc[v] # "swap"
    BY WriterAlone DEF HandleInv, WritePc, CyclePc
<1>2. mpc \notin {"build", "free", "exited"}
    BY MainWaits DEF HandleInv, WritePc, RekeyPc, CyclePc
<1> QED
    BY <1>1, <1>2 DEF HandleInv, LiveInv

(* Rekey, rotation and reopen keep the handle discipline.                  *)
LEMMA HandleMaintenance ==
    ASSUME TypeOK, LockInv, HandleInv, exit = "running", NEW w \in Workers, MaintenanceStep(w)
    PROVE  HandleInv'
<1> USE DEF Goto, handleVars, localVars, mainVars, TypeOK
<1>1. CASE Maintain(w)
    BY <1>1, QuietStep DEF Maintain
<1>2. CASE CycleDue(w)
    BY <1>2, QuietStep DEF CycleDue
<1>3. CASE DrawMasters(w)
    BY <1>3, QuietStep DEF DrawMasters
<1>4. CASE WrLock(w)
    BY <1>4, QuietStep DEF WrLock
<1>5. CASE BeginRekey(w)
    <2>1. /\ pc[w] \in WritePc /\ pc[w] # "swap"
          /\ pc' = [pc EXCEPT ![w] = "rekeying"] /\ "rekeying" \in WritePc
          /\ UNCHANGED <<gen, live, calls, mpc, exit>>
          /\ \A v \in Workers \ {w} : todo'[v] = todo[v]
        BY <1>5 DEF BeginRekey, WritePc, RekeyPc
    <2>2. WriterHolds(w)'
        BY <1>5, <2>1, WriterFindsHandles DEF BeginRekey, WriterHolds, Current
    <2> QED
        BY <2>1, <2>2, WriterStep
<1>6. CASE RekeyOk(w)
    <2>1. /\ pc[w] \in WritePc /\ pc[w] # "swap"
          /\ pc' = [pc EXCEPT ![w] = "rekey"] /\ "rekey" \in WritePc
          /\ UNCHANGED <<gen, live, calls, mpc, exit>>
          /\ \A v \in Workers \ {w} : todo'[v] = todo[v]
        BY <1>6 DEF RekeyOk, WritePc, RekeyPc
    <2>2. WriterHolds(w)'
        BY <1>6, <2>1, WriterFindsHandles DEF RekeyOk, WriterHolds, Current
    <2> QED
        BY <2>1, <2>2, WriterStep
<1>7. CASE RekeyError(w)
    <2>1. /\ pc[w] \in WritePc /\ pc[w] # "swap"
          /\ pc' = [pc EXCEPT ![w] = "rekey_unlock"] /\ "rekey_unlock" \in WritePc
          /\ UNCHANGED <<gen, live, calls, mpc, exit>>
          /\ \A v \in Workers \ {w} : todo'[v] = todo[v]
        BY <1>7 DEF RekeyError, WritePc, RekeyPc
    <2>2. WriterHolds(w)'
        BY <1>7, <2>1, WriterFindsHandles DEF RekeyError, WriterHolds, Current
    <2> QED
        BY <2>1, <2>2, WriterStep
<1>8. CASE RekeyDone(w)
    BY <1>8, QuietStep DEF RekeyDone
<1>9. CASE Load(w)
    <2>1. /\ pc[w] \in WritePc /\ pc[w] # "swap"
          /\ pc' = [pc EXCEPT ![w] = "free"] /\ "free" \in WritePc
          /\ UNCHANGED <<gen, todo, calls, mpc, exit>>
          /\ live' = live \cup {Fresh(FirstOf(todo[w]))}
          /\ todo[w] # {}
        BY <1>9 DEF Load, WritePc, CyclePc
    <2>2. WriterHolds(w)'
        BY <2>1, WriterFindsHandles DEF WriterHolds, Current, Fresh
    <2> QED
        BY <2>1, <2>2, WriterStep
<1>10. CASE LoadError(w)
    BY <1>10, QuietStep DEF LoadError
<1>11. CASE FreeOld(w)
    <2> DEFINE p == FirstOf(todo[w])
    <2>1. Fresh(p) \in live /\ todo[w] # {}
        BY <1>11 DEF FreeOld, HandleInv, MaintenanceInv
    <2>2. \A q \in Pipes : Current(q) \in live
        BY <1>11, WriterFindsHandles DEF FreeOld, WritePc, CyclePc
    <2>3. p \in Pipes
        BY <2>1, FirstOfType
    <2>4. Fresh(p) # Current(p)
        BY <2>3 DEF Fresh, Current
    <2>5. \A q \in Pipes : q # p => Current(q) # Current(p)
        BY DEF Current
    <2>6. /\ pc[w] \in WritePc
          /\ pc' = [pc EXCEPT ![w] = "swap"] /\ "swap" \in WritePc
          /\ UNCHANGED <<gen, todo, calls, mpc, exit>>
          /\ live' = live \ {Current(p)}
        BY <1>11 DEF FreeOld, WritePc, CyclePc
    <2>7. WriterHolds(w)'
        BY <2>1, <2>2, <2>4, <2>5, <2>6 DEF WriterHolds, Current, Fresh
    <2> QED
        BY <2>6, <2>7, WriterStep
<1>12. CASE Swap(w)
    <2> DEFINE p == FirstOf(todo[w])
    <2>1. Fresh(p) \in live /\ todo[w] # {}
        BY <1>12 DEF Swap, HandleInv, MaintenanceInv
    <2>2. p \in Pipes
        BY <2>1, FirstOfType
    <2>3. mpc \notin {"build", "free", "exited"}
        BY <1>12, MainWaits DEF Swap, HandleInv
    <2>4. \A q \in Pipes : q # p => Current(q) \in live
        <3>1. \A v \in Workers : v # w => pc[v] # "swap"
            BY <1>12, WriterAlone DEF Swap, HandleInv, WritePc, CyclePc
        <3> QED
            BY <2>3, <3>1 DEF HandleInv, LiveInv
    <2>5. \A q \in Pipes : Current(q)' \in live'
        BY <1>12, <2>1, <2>2, <2>4 DEF Swap, Current, Fresh
    <2>6. /\ pc[w] \in WritePc
          /\ pc' = [pc EXCEPT ![w] = "load"] /\ "load" \in WritePc
          /\ UNCHANGED <<calls, mpc, exit>>
          /\ \A v \in Workers \ {w} : todo'[v] = todo[v]
        BY <1>12 DEF Swap, WritePc, CyclePc
    <2>7. WriterHolds(w)'
        BY <2>5, <2>6 DEF WriterHolds
    <2> QED
        BY <2>6, <2>7, WriterStep
<1>13. CASE CycleDone(w)
    BY <1>13, QuietStep DEF CycleDone
<1>14. CASE WrUnlock(w)
    BY <1>14, QuietStep DEF WrUnlock
<1> QED
    BY <1>1, <1>2, <1>3, <1>4, <1>5, <1>6, <1>7, <1>8, <1>9, <1>10, <1>11, <1>12, <1>13, <1>14
    DEF MaintenanceStep

(* Main: handles come and go only while no worker can hold one.            *)
LEMMA HandleMain ==
    ASSUME TypeOK, HandleInv, exit = "running", MainStep
    PROVE  HandleInv'
<1> USE DEF TypeOK, HandleInv, handleVars, localVars, MainGoto
<1>1. CASE BuildPipeline
    <2>1. calls = {} /\ mpc = "build" /\ \A w \in Workers : pc[w] = "unborn"
        BY <1>1 DEF BuildPipeline, CallInv, StageInv
    <2> QED
        BY <1>1, <2>1 DEF BuildPipeline, CallInv, MaintenanceInv, StageInv, LiveInv,
           RoundTripKeying, mainVars
<1>2. CASE FreeHandles
    <2>1. calls = {} /\ mpc = "free" /\ \A w \in Workers : pc[w] = "returned"
        BY <1>2 DEF FreeHandles, CallInv, StageInv
    <2> QED
        BY <1>2, <2>1 DEF FreeHandles, CallInv, MaintenanceInv, StageInv, LiveInv,
           RoundTripKeying, mainVars
<1>3. ASSUME NEW w \in Workers, CreateWorker(w) PROVE HandleInv'
    <2>1. \A v \in Workers : pc'[v] = IF v = w THEN "refill" ELSE pc[v]
        BY <1>3 DEF CreateWorker, Goto
    <2>2. UNCHANGED <<gen, live, keying, calls, iter, wire, todo, mpc, exit>>
          /\ mpc = "create" /\ pc[w] = "unborn"
        BY <1>3 DEF CreateWorker, mainVars
    <2>3. CallInv'
        BY <2>1, <2>2 DEF CallInv, Current, PipeOf
    <2>4. MaintenanceInv' /\ StageInv' /\ RoundTripKeying'
        BY <2>1, <2>2 DEF MaintenanceInv, StageInv, RoundTripKeying, Fresh, FirstOf, PipeOf
    <2>5. LiveInv'
        BY <2>1, <2>2 DEF LiveInv, Current, FirstOf
    <2> QED
        BY <2>3, <2>4, <2>5
<1>4. ASSUME UNCHANGED <<handleVars, localVars, pc>>, StageInv',
             mpc' \in {"build", "free", "exited"} \/ mpc \notin {"build", "free", "exited"}
                 \/ \A p \in Pipes : Current(p) \in live
      PROVE  HandleInv'
    <2>1. CallInv' /\ MaintenanceInv' /\ RoundTripKeying'
        BY <1>4 DEF CallInv, MaintenanceInv, RoundTripKeying, Current, Fresh, FirstOf, PipeOf
    <2>2. LiveInv'
        BY <1>4 DEF LiveInv, Current, FirstOf
    <2> QED
        BY <1>4, <2>1, <2>2
<1>5. CASE BuildError \/ CreateError \/ Return
    BY <1>4, <1>5 DEF BuildError, CreateError, Return, StageInv, Verdict
<1>6. CASE BuildDone
    BY <1>4, <1>6 DEF BuildDone, StageInv
<1>7. CASE MainWarmupArrive \/ MainWarmedUp \/ StartClock \/ MainReleaseArrive \/ MainReleased
    BY <1>4, <1>7 DEF MainWarmupArrive, MainWarmedUp, StartClock, MainReleaseArrive, MainReleased,
       StageInv
<1>8. CASE Poll \/ Join \/ Summary
    BY <1>4, <1>8 DEF Poll, Join, Summary, StageInv
<1> QED
    BY <1>1, <1>2, <1>3, <1>5, <1>6, <1>7, <1>8 DEF MainStep

(* Time and signals touch no handle.                                       *)
LEMMA HandleEnv ==
    ASSUME TypeOK, HandleInv, exit = "running", EnvStep
    PROVE  HandleInv'
<1>1. CASE Signal \/ Deadline
    BY <1>1 DEF Signal, Deadline, HandleInv, CallInv, MaintenanceInv, StageInv, LiveInv,
       RoundTripKeying, Current, Fresh, FirstOf, PipeOf, handleVars, localVars
<1>2. ASSUME NEW w \in Workers, SignalInRefill(w) PROVE HandleInv'
    BY <1>2, QuietStep DEF SignalInRefill, Goto, TypeOK, handleVars, localVars
<1> QED
    BY <1>1, <1>2 DEF EnvStep

(* The handle invariant is inductive over the types and the lock           *)
(* discipline.                                                             *)
LEMMA IndNext == TypeOK /\ IndInv /\ [Next]_vars => IndInv'
<1> SUFFICES ASSUME TypeOK, LockInv, HandleInv, [Next]_vars PROVE HandleInv'
    BY LockNext DEF IndInv, HandleInv
<1>1. ASSUME NEW w \in Workers, WorkerStep(w), exit = "running" PROVE HandleInv'
    BY <1>1, HandleIterate, HandleThread, HandleMaintenance DEF WorkerStep
<1>2. CASE UNCHANGED vars
    BY <1>2 DEF vars, handleVars, localVars, mainVars, HandleInv, CallInv, MaintenanceInv, StageInv,
       LiveInv, RoundTripKeying, Current, Fresh, FirstOf, PipeOf
<1> QED
    BY <1>1, <1>2, HandleMain, HandleEnv DEF Next, Exited

(* No handle exists before main builds the first.                          *)
LEMMA IndInit == Init => IndInv
<1> SUFFICES ASSUME Init PROVE HandleInv
    BY LockInit DEF IndInv, HandleInv
<1> QED
    BY DEF Init, HandleInv, CallInv, MaintenanceInv, StageInv, LiveInv, RoundTripKeying

(* The inductive invariant of the harness: lock discipline, calls,         *)
(* maintenance, stages and open handles, in every reachable state.         *)
THEOREM Inductive == Spec => []IndInv
BY IndInit, IndNext, TypeCorrect, PTL DEF Spec

(* A cipher call in flight is on an open handle that no rekey is           *)
(* rewriting.                                                              *)
THEOREM HandleSafe == Spec => []HandleSafety
<1>1. TypeOK /\ IndInv => HandleSafety
    <2> SUFFICES ASSUME TypeOK, IndInv, NEW c \in calls
                 PROVE  c[2] \in live /\ c[2] \notin Rotating
        BY DEF HandleSafety
    <2>1. c[1] \in Workers /\ pc[c[1]] \in ReadPc /\ c[2] \in live
        BY DEF TypeOK, IndInv, CallInv, ReadPc
    <2>2. \A v \in Workers : pc[v] # "rekeying"
        BY <2>1, ReaderSeesNoWriter DEF IndInv, WritePc, RekeyPc
    <2> QED
        BY <2>1, <2>2 DEF Rotating
<1> QED
    BY <1>1, Inductive, TypeCorrect, PTL

(* No keying change lands between an encrypt and its decrypt.              *)
THEOREM RoundTripSafe == Spec => []RoundTripKeying
<1>1. IndInv => RoundTripKeying
    BY DEF IndInv
<1> QED
    BY <1>1, Inductive, PTL

-----------------------------------------------------------------------------
(* The handles being rewritten depend on the workers inside a rekey only.  *)
LEMMA RotatingSame ==
    ASSUME gen' = gen,
           \A v \in Workers : /\ pc'[v] = "rekeying" <=> pc[v] = "rekeying"
                              /\ pc[v] = "rekeying" => todo'[v] = todo[v]
    PROVE  Rotating' = Rotating
BY DEF Rotating, Current, FirstOf

(* With no worker in maintenance no handle is being rewritten.             *)
LEMMA NoRotation ==
    ASSUME \A v \in Workers : pc[v] # "rekeying" PROVE Rotating = {}
BY DEF Rotating

ContractStep == [Contract!Next]_(Contract!vars)

(* A step that touches no handle stutters.                                 *)
LEMMA QuietContract ==
    ASSUME TypeOK, NEW w \in Workers, NEW label,
           pc[w] # "rekeying", label # "rekeying", pc' = [pc EXCEPT ![w] = label],
           \A v \in Workers \ {w} : todo'[v] = todo[v],
           UNCHANGED <<gen, live, calls>>
    PROVE  ContractStep
<1>1. \A v \in Workers : pc'[v] = IF v = w THEN label ELSE pc[v]
    BY DEF TypeOK
<1>2. Rotating' = Rotating
    BY <1>1, RotatingSame
<1> QED
    BY <1>2 DEF ContractStep, Contract!vars

(* The start of a call: the lock keeps the handle open and still.          *)
LEMMA BeginCallContract ==
    ASSUME TypeOK, IndInv, exit = "running", NEW w \in Workers, BeginEncrypt(w) \/ BeginDecrypt(w)
    PROVE  ContractStep
<1> DEFINE h == Current(PipeOf(iter[w]))
<1>1. /\ pc[w] \in ReadPc
      /\ calls' = calls \cup {<<w, h>>}
      /\ UNCHANGED <<gen, live, todo>>
    BY DEF BeginEncrypt, BeginDecrypt, ReadPc, localVars
<1>2. h \in live
    BY <1>1, ReaderFindsHandle DEF IndInv, HandleInv
<1>3. \A v \in Workers : pc[v] # "rekeying" /\ pc'[v] # "rekeying"
    BY <1>1, ReaderSeesNoWriter DEF IndInv, WritePc, RekeyPc, BeginEncrypt, BeginDecrypt, Goto, TypeOK
<1>4. Rotating = {} /\ Rotating' = Rotating
    BY <1>1, <1>3, NoRotation, RotatingSame
<1>5. Contract!BeginCall(w, h)
    BY <1>1, <1>2, <1>4 DEF Contract!BeginCall
<1> QED
    BY <1>2, <1>5 DEF ContractStep, Contract!Next

(* The return of a call ends the one call the worker has.                  *)
LEMMA EndCallContract ==
    ASSUME TypeOK, IndInv, NEW w \in Workers, pc[w] \in ReadPc, NEW label \in ReadPc,
           pc' = [pc EXCEPT ![w] = label], EndCall(w), UNCHANGED <<gen, live, todo>>
    PROVE  ContractStep
<1> USE DEF TypeOK
<1>1. Rotating' = Rotating
    BY RotatingSame DEF ReadPc
<1>2. CASE \A c \in calls : c[1] # w
    <2>1. calls' = calls
        BY <1>2 DEF EndCall
    <2> QED
        BY <1>1, <2>1 DEF ContractStep, Contract!vars
<1>3. ASSUME NEW c \in calls, c[1] = w PROVE ContractStep
    <2>1. \A d \in calls : d[1] = w => d = c
        BY <1>3 DEF IndInv, CallInv
    <2>2. calls' = calls \ {<<c[1], c[2]>>} /\ <<c[1], c[2]>> \in calls
        BY <1>3, <2>1 DEF EndCall
    <2>3. Contract!EndCall(c[1], c[2])
        BY <1>1, <2>2 DEF Contract!EndCall
    <2> QED
        BY <2>3 DEF ContractStep, Contract!Next
<1> QED
    BY <1>2, <1>3

(* A loop iteration uses the handles as the contract allows.               *)
LEMMA IterateContract ==
    ASSUME TypeOK, IndInv, exit = "running", NEW w \in Workers, IterateStep(w)
    PROVE  ContractStep
<1> USE DEF Goto, handleVars, localVars
<1>1. CASE Refill(w)
    BY <1>1, QuietContract DEF Refill
<1>2. CASE RefillFailed(w)
    BY <1>2, QuietContract DEF RefillFailed
<1>3. CASE RdLock(w)
    BY <1>3, QuietContract DEF RdLock
<1>4. CASE BeginEncrypt(w) \/ BeginDecrypt(w)
    BY <1>4, BeginCallContract
<1>5. CASE EncryptReturns(w)
    BY <1>5, EndCallContract DEF EncryptReturns, ReadPc
<1>6. CASE DecryptOk(w)
    BY <1>6, EndCallContract DEF DecryptOk, ReadPc
<1>7. CASE DecryptError(w)
    BY <1>7, EndCallContract DEF DecryptError, ReadPc
<1>8. CASE DataMismatch(w)
    <2>1. pc' = [pc EXCEPT ![w] = pc[w]] /\ pc[w] \in ReadPc
        BY <1>8 DEF DataMismatch, ReadPc, TypeOK
    <2> QED
        BY <1>8, <2>1, EndCallContract DEF DataMismatch
<1>9. CASE RdUnlock(w)
    BY <1>9, QuietContract DEF RdUnlock
<1> QED
    BY <1>1, <1>2, <1>3, <1>4, <1>5, <1>6, <1>7, <1>8, <1>9 DEF IterateStep

(* So does the rest of the thread body.                                    *)
LEMMA ThreadContract ==
    ASSUME TypeOK, NEW w \in Workers, ThreadStep(w)
    PROVE  ContractStep
<1> USE QuietContract DEF Goto, handleVars, localVars
<1>1. CASE WarmupArrive(w)
    BY <1>1 DEF WarmupArrive
<1>2. CASE ReleaseArrive(w)
    BY <1>2 DEF ReleaseArrive
<1>3. CASE Released(w)
    BY <1>3 DEF Released
<1>4. CASE LoopHead(w)
    BY <1>4 DEF LoopHead
<1>5. CASE WorkerDone(w)
    BY <1>5 DEF WorkerDone
<1> QED
    BY <1>1, <1>2, <1>3, <1>4, <1>5 DEF ThreadStep

(* The writer is alone: it may rewrite, release and replace handles.       *)
LEMMA MaintenanceContract ==
    ASSUME TypeOK, IndInv, exit = "running", NEW w \in Workers, MaintenanceStep(w)
    PROVE  ContractStep
<1> USE DEF Goto, handleVars, localVars
<1> DEFINE p == FirstOf(todo[w])
<1>1. CASE Maintain(w)
    BY <1>1, QuietContract DEF Maintain
<1>2. CASE CycleDue(w)
    BY <1>2, QuietContract DEF CycleDue
<1>3. CASE DrawMasters(w)
    BY <1>3, QuietContract DEF DrawMasters
<1>4. CASE WrLock(w)
    BY <1>4, QuietContract DEF WrLock, TypeOK
<1>5. CASE BeginRekey(w)
    <2>1. /\ pc[w] \in WritePc /\ pc[w] \notin {"swap", "rekeying"} /\ todo[w] # {}
          /\ pc' = [pc EXCEPT ![w] = "rekeying"]
          /\ UNCHANGED <<gen, live, calls, todo>>
        BY <1>5 DEF BeginRekey, WritePc, RekeyPc
    <2>2. calls = {} /\ \A v \in Workers : pc[v] # "rekeying"
        BY <2>1, WriterAlone DEF IndInv, WritePc, RekeyPc
    <2>3. p \in Pipes /\ Current(p) \in live
        BY <2>1, WriterFindsHandles, FirstOfType DEF TypeOK, IndInv, HandleInv
    <2>4. Rotating = {}
        BY <2>2, NoRotation
    <2>5. Rotating' = {Current(p)}
        BY <2>1, <2>2 DEF Rotating, Current, FirstOf, TypeOK
    <2>6. Contract!BeginRekey(Current(p))
        BY <2>1, <2>2, <2>3, <2>4, <2>5 DEF Contract!BeginRekey, Contract!Busy
    <2> QED
        BY <2>3, <2>6 DEF ContractStep, Contract!Next
<1>6. CASE RekeyOk(w) \/ RekeyError(w)
    <2>1. /\ pc[w] = "rekeying" /\ pc[w] \in WritePc
          /\ pc'[w] # "rekeying"
          /\ \A v \in Workers \ {w} : pc'[v] = pc[v]
          /\ UNCHANGED <<gen, live, calls>>
        BY <1>6 DEF RekeyOk, RekeyError, WritePc, RekeyPc, TypeOK
    <2>2. \A v \in Workers \ {w} : pc[v] # "rekeying"
        BY <2>1, WriterAlone DEF IndInv, WritePc, RekeyPc
    <2>3. Rotating = {Current(p)}
        BY <2>1, <2>2 DEF Rotating
    <2>4. Rotating' = {}
        BY <2>1, <2>2 DEF Rotating
    <2>5. Contract!EndRekey(Current(p))
        BY <2>1, <2>3, <2>4 DEF Contract!EndRekey
    <2> QED
        BY <2>3, <2>5 DEF ContractStep, Contract!Next
<1>7. CASE RekeyDone(w)
    BY <1>7, QuietContract DEF RekeyDone
<1>8. CASE Load(w)
    <2>1. /\ pc[w] \in WritePc /\ pc[w] # "swap" /\ todo[w] # {}
          /\ live' = live \cup {Fresh(p)}
          /\ pc' = [pc EXCEPT ![w] = "free"] /\ pc[w] = "load"
          /\ UNCHANGED <<gen, calls, todo>>
        BY <1>8 DEF Load, WritePc, CyclePc
    <2>2. Rotating' = Rotating
        BY <2>1, RotatingSame DEF TypeOK
    <2>3. p \in Pipes
        BY <2>1, FirstOfType DEF TypeOK
    <2>4. Fresh(p) \in Handle
        BY <2>3 DEF Fresh, Handle, TypeOK
    <2>5. CASE Fresh(p) \in live
        BY <2>1, <2>2, <2>5 DEF ContractStep, Contract!vars
    <2>6. CASE Fresh(p) \notin live
        <3>1. Contract!Open(Fresh(p))
            BY <2>1, <2>2, <2>6 DEF Contract!Open
        <3> QED
            BY <2>1, <2>4, <3>1 DEF ContractStep, Contract!Next
    <2> QED
        BY <2>5, <2>6
<1>9. CASE LoadError(w)
    BY <1>9, QuietContract DEF LoadError
<1>10. CASE FreeOld(w)
    <2>1. /\ pc[w] \in WritePc /\ pc[w] = "free"
          /\ pc' = [pc EXCEPT ![w] = "swap"]
          /\ live' = live \ {Current(p)}
          /\ UNCHANGED <<gen, calls, todo>>
        BY <1>10 DEF FreeOld, WritePc, CyclePc
    <2>2. calls = {} /\ \A v \in Workers : pc[v] # "rekeying"
        BY <2>1, WriterAlone DEF IndInv, WritePc, RekeyPc
    <2>3. todo[w] # {}
        BY <2>1 DEF IndInv, MaintenanceInv
    <2>4. p \in Pipes /\ Current(p) \in live
        BY <2>1, <2>3, WriterFindsHandles, FirstOfType DEF TypeOK, IndInv, HandleInv
    <2>5. Rotating = {} /\ Rotating' = Rotating
        BY <2>1, <2>2, NoRotation, RotatingSame DEF TypeOK
    <2>6. Contract!Free(Current(p))
        BY <2>1, <2>2, <2>4, <2>5 DEF Contract!Free, Contract!Busy
    <2> QED
        BY <2>4, <2>6 DEF ContractStep, Contract!Next
<1>11. CASE Swap(w)
    <2>1. /\ pc[w] \in WritePc /\ pc[w] = "swap"
          /\ pc' = [pc EXCEPT ![w] = "load"]
          /\ UNCHANGED <<live, calls>>
        BY <1>11 DEF Swap, WritePc, CyclePc
    <2>2. \A v \in Workers : pc[v] # "rekeying" /\ pc'[v] # "rekeying"
        BY <2>1, WriterAlone DEF IndInv, WritePc, RekeyPc, TypeOK
    <2>3. Rotating = {} /\ Rotating' = {}
        BY <2>2 DEF Rotating
    <2> QED
        BY <2>1, <2>3 DEF ContractStep, Contract!vars
<1>12. CASE CycleDone(w)
    BY <1>12, QuietContract DEF CycleDone
<1>13. CASE WrUnlock(w)
    BY <1>13, QuietContract DEF WrUnlock
<1> QED
    BY <1>1, <1>2, <1>3, <1>4, <1>5, <1>6, <1>7, <1>8, <1>9, <1>10, <1>11, <1>12, <1>13
    DEF MaintenanceStep

(* Main creates handles before the workers start and frees them after      *)
(* they are joined, as the contract allows.                                *)
LEMMA MainContract ==
    ASSUME TypeOK, IndInv, MainStep
    PROVE  ContractStep
<1> USE DEF handleVars, localVars
<1>1. CASE BuildPipeline
    <2> DEFINE p == FirstOf({q \in Pipes : Current(q) \notin live})
    <2>1. {q \in Pipes : Current(q) \notin live} # {} /\ live' = live \cup {Current(p)}
          /\ UNCHANGED <<gen, calls, pc, todo>>
        BY <1>1 DEF BuildPipeline
    <2>2. p \in {q \in Pipes : Current(q) \notin live}
        <3> DEFINE S == {q \in Pipes : Current(q) \notin live}
        <3>1. S \subseteq Pipes /\ S # {}
            BY <2>1
        <3> HIDE DEF S
        <3>2. FirstOf(S) \in S
            BY <3>1, FirstOfType
        <3> QED
            BY <3>2 DEF S
    <2>3. Current(p) \in Handle
        BY <2>2 DEF Current, Handle, TypeOK
    <2>4. Rotating' = Rotating
        BY <2>1, RotatingSame
    <2>5. Contract!Open(Current(p))
        BY <2>1, <2>2, <2>4 DEF Contract!Open
    <2> QED
        BY <2>1, <2>3, <2>5 DEF ContractStep, Contract!Next
<1>2. CASE FreeHandles
    <2> DEFINE p == FirstOf({q \in Pipes : Current(q) \in live})
    <2>1. {q \in Pipes : Current(q) \in live} # {} /\ live' = live \ {Current(p)}
          /\ UNCHANGED <<gen, calls, pc, todo>> /\ mpc = "free"
        BY <1>2 DEF FreeHandles
    <2>2. p \in {q \in Pipes : Current(q) \in live}
        <3> DEFINE S == {q \in Pipes : Current(q) \in live}
        <3>1. S \subseteq Pipes /\ S # {}
            BY <2>1
        <3> HIDE DEF S
        <3>2. FirstOf(S) \in S
            BY <3>1, FirstOfType
        <3> QED
            BY <3>2 DEF S
    <2>3. calls = {} /\ \A v \in Workers : pc[v] = "returned"
        BY <2>1 DEF IndInv, StageInv, CallInv, TypeOK
    <2>4. Rotating = {} /\ Rotating' = Rotating
        BY <2>1, <2>3, NoRotation, RotatingSame
    <2>5. Contract!Free(Current(p))
        BY <2>1, <2>2, <2>3, <2>4 DEF Contract!Free, Contract!Busy
    <2> QED
        BY <2>2, <2>5 DEF ContractStep, Contract!Next
<1>3. ASSUME NEW w \in Workers, CreateWorker(w) PROVE ContractStep
    BY <1>3, QuietContract DEF CreateWorker, Goto
<1>4. ASSUME UNCHANGED <<live, calls, gen, pc, todo>> PROVE ContractStep
    BY <1>4, RotatingSame DEF ContractStep, Contract!vars
<1>5. CASE BuildError \/ BuildDone \/ CreateError \/ MainWarmupArrive \/ MainWarmedUp \/ StartClock
    BY <1>4, <1>5 DEF BuildError, BuildDone, CreateError, MainWarmupArrive, MainWarmedUp, StartClock
<1>6. CASE MainReleaseArrive \/ MainReleased \/ Poll \/ Join \/ Summary \/ Return
    BY <1>4, <1>6 DEF MainReleaseArrive, MainReleased, Poll, Join, Summary, Return
<1> QED
    BY <1>1, <1>2, <1>3, <1>5, <1>6 DEF MainStep

(* Time and signals stutter in the contract.                               *)
LEMMA EnvContract ==
    ASSUME TypeOK, EnvStep
    PROVE  ContractStep
<1>1. CASE Signal \/ Deadline
    BY <1>1, RotatingSame DEF Signal, Deadline, handleVars, localVars, ContractStep, Contract!vars
<1>2. ASSUME NEW w \in Workers, SignalInRefill(w) PROVE ContractStep
    BY <1>2, QuietContract DEF SignalInRefill, Goto, handleVars, localVars
<1> QED
    BY <1>1, <1>2 DEF EnvStep

(* Every use the workers and main make of a handle is one SharedHandle     *)
(* allows: the read-write lock of the harness implements its rules.        *)
THEOREM RefinesContract == Spec => KeepsContract
<1>1. Init => Contract!Init
    BY DEF Init, Contract!Init, Rotating
<1>2. TypeOK /\ IndInv /\ [Next]_vars => ContractStep
    <2> SUFFICES ASSUME TypeOK, IndInv, [Next]_vars PROVE ContractStep
        OBVIOUS
    <2>1. ASSUME NEW w \in Workers, WorkerStep(w), exit = "running" PROVE ContractStep
        BY <2>1, IterateContract, ThreadContract, MaintenanceContract DEF WorkerStep
    <2>2. CASE UNCHANGED vars
        BY <2>2, RotatingSame DEF vars, handleVars, localVars, ContractStep, Contract!vars
    <2> QED
        BY <2>1, <2>2, MainContract, EnvContract DEF Next, Exited
<1> QED
    BY <1>1, <1>2, Inductive, TypeCorrect, PTL DEF Spec, KeepsContract, Contract!Spec, ContractStep

-----------------------------------------------------------------------------
Pointed == {Current(p) : p \in Pipes}
Moving(w) == pc[w] \in {"free", "swap"}

EarlyPc == {"unborn", "refill", "refill_failed", "rdlock", "warmup_done", "warmup_wait"} \cup ReadPc

(* Until main reaches the warmup barrier no worker is past it, so the      *)
(* finish instant is untouched when a build or a creation fails.           *)
EarlyInv ==
    mpc \in {"build", "create"} =>
        /\ Main \notin arrived["warmup_done"]
        /\ finish = "unset"
        /\ \A w \in Workers : iter[w] = 0 /\ pc[w] \in EarlyPc

(* The open handles, exactly, in every stage of the run and of a reopen.   *)
ExactInv ==
    /\ (mpc \notin {"build", "free", "exited"} /\ \A w \in Workers : ~Moving(w)) => live = Pointed
    /\ \A w \in Workers :
           /\ pc[w] = "free" => live = Pointed \cup {Fresh(FirstOf(todo[w]))}
           /\ pc[w] = "swap" =>
                  live = (Pointed \ {Current(FirstOf(todo[w]))}) \cup {Fresh(FirstOf(todo[w]))}
    /\ mpc \in {"build", "free"} => live \subseteq Pointed
    /\ (mpc = "exited" /\ finish # "unset") => live = {}

-----------------------------------------------------------------------------
(* A worker's step before the barrier stays before it.                     *)
LEMMA EarlyWorker ==
    ASSUME TypeOK, EarlyInv, NEW w \in Workers, WorkerStep(w)
    PROVE  EarlyInv'
<1> SUFFICES ASSUME mpc' \in {"build", "create"}, mpc \in {"build", "create"} PROVE EarlyInv'
    <2>1. mpc' = mpc
        BY DEF WorkerStep, IterateStep, ThreadStep, MaintenanceStep, Refill, RefillFailed, RdLock,
           BeginEncrypt, EncryptReturns, BeginDecrypt, DecryptOk, DecryptError, DataMismatch,
           RdUnlock, WarmupArrive, ReleaseArrive, Released, LoopHead, WorkerDone, Maintain,
           CycleDue, DrawMasters, WrLock, BeginRekey, RekeyOk, RekeyError, RekeyDone, Load,
           LoadError, FreeOld, Swap, CycleDone, WrUnlock, mainVars
    <2> QED
        BY <2>1 DEF EarlyInv
<1> USE DEF TypeOK, EarlyInv, EarlyPc, ReadPc, Goto, localVars, doneVars
<1>1. CASE IterateStep(w)
    <2>1. UNCHANGED <<iter, finish, arrived>>
        BY <1>1 DEF IterateStep, Refill, RefillFailed, RdLock, BeginEncrypt, EncryptReturns,
           BeginDecrypt, DecryptOk, DecryptError, DataMismatch, RdUnlock
    <2>2. \A v \in Workers : pc'[v] \in EarlyPc
        BY <1>1 DEF IterateStep, Refill, RefillFailed, RdLock, BeginEncrypt, EncryptReturns,
           BeginDecrypt, DecryptOk, DecryptError, DataMismatch, RdUnlock
    <2> QED
        BY <2>1, <2>2
<1>2. CASE WarmupArrive(w)
    <2>1. Main # w
        BY ConfigAssumption
    <2> QED
        BY <1>2, <2>1 DEF WarmupArrive, Arrive
<1>3. CASE ReleaseArrive(w)
    BY <1>3 DEF ReleaseArrive, Open, Threads
<1>4. CASE Released(w) \/ LoopHead(w) \/ WorkerDone(w)
    BY <1>4 DEF Released, LoopHead, WorkerDone
<1>5. CASE MaintenanceStep(w)
    BY <1>5 DEF MaintenanceStep, Maintain, CycleDue, DrawMasters, WrLock, BeginRekey, RekeyOk,
       RekeyError, RekeyDone, Load, LoadError, FreeOld, Swap, CycleDone, WrUnlock
<1> QED
    BY <1>1, <1>2, <1>3, <1>4, <1>5 DEF WorkerStep, ThreadStep

(* Nor does anything else get past the barrier before main does.           *)
LEMMA EarlyNext == TypeOK /\ EarlyInv /\ [Next]_vars => EarlyInv'
<1> SUFFICES ASSUME TypeOK, EarlyInv, [Next]_vars PROVE EarlyInv'
    OBVIOUS
<1>1. CASE UNCHANGED vars
    BY <1>1 DEF vars, localVars, doneVars, mainVars, EarlyInv
<1>2. ASSUME NEW w \in Workers, WorkerStep(w) PROVE EarlyInv'
    BY <1>2, EarlyWorker
<1>3. CASE MainStep
    <2>1. ASSUME NEW w \in Workers, CreateWorker(w) PROVE EarlyInv'
        BY <2>1 DEF CreateWorker, Goto, TypeOK, EarlyInv, EarlyPc, localVars, doneVars, mainVars
    <2>2. CASE BuildPipeline \/ BuildDone
        BY <2>2 DEF BuildPipeline, BuildDone, MainGoto, EarlyInv, localVars, doneVars, mainVars
    <2>3. CASE BuildError \/ CreateError \/ MainWarmupArrive \/ MainWarmedUp \/ StartClock
               \/ MainReleaseArrive \/ MainReleased \/ Poll \/ Join \/ Summary \/ FreeHandles \/ Return
        BY <2>3 DEF BuildError, CreateError, MainWarmupArrive, MainWarmedUp, StartClock,
           MainReleaseArrive, MainReleased, Poll, Join, Summary, FreeHandles, Return, MainGoto,
           EarlyInv, mainVars
    <2> QED
        BY <1>3, <2>1, <2>2, <2>3 DEF MainStep
<1>4. CASE EnvStep
    BY <1>4 DEF EnvStep, Signal, SignalInRefill, Deadline, Goto, TypeOK, EarlyInv, EarlyPc,
       localVars, doneVars
<1> QED
    BY <1>1, <1>2, <1>3, <1>4 DEF Next, Exited

-----------------------------------------------------------------------------
(* A step of a worker that neither begins nor ends a reopen's exchange of  *)
(* handles.                                                                *)
LEMMA ExactQuiet ==
    ASSUME TypeOK, StageInv, ExactInv, exit = "running", NEW w \in Workers, NEW label,
           pc[w] \notin {"free", "swap"}, label \notin {"free", "swap"},
           pc' = [pc EXCEPT ![w] = label],
           \A v \in Workers \ {w} : todo'[v] = todo[v],
           UNCHANGED <<gen, live, mpc>>
    PROVE  ExactInv'
<1>1. \A v \in Workers : pc'[v] = IF v = w THEN label ELSE pc[v]
    BY DEF TypeOK
<1>2. Pointed' = Pointed
    BY DEF Pointed, Current
<1>3. mpc # "exited"
    BY DEF StageInv
<1> QED
    BY <1>1, <1>2, <1>3 DEF ExactInv, Moving, Current, Fresh, FirstOf

(* No step but those of a reopen opens or closes a handle.                 *)
LEMMA ExactWorker ==
    ASSUME TypeOK, IndInv, ExactInv, exit = "running", NEW w \in Workers, WorkerStep(w)
    PROVE  ExactInv'
<1> USE DEF Goto, handleVars, localVars, mainVars
<1>0. StageInv /\ LockInv /\ HandleInv
    BY DEF IndInv, HandleInv
<1>1. CASE IterateStep(w) /\ ~DataMismatch(w)
    <2>1. PICK label \in PlainPc \cup ReadPc : pc' = [pc EXCEPT ![w] = label]
        BY <1>1 DEF IterateStep, Refill, RefillFailed, RdLock, BeginEncrypt, EncryptReturns,
           BeginDecrypt, DecryptOk, DecryptError, RdUnlock, PlainPc, ReadPc
    <2>2. UNCHANGED <<gen, live, mpc, todo>> /\ pc[w] \notin {"free", "swap"}
        BY <1>1 DEF IterateStep, Refill, RefillFailed, RdLock, BeginEncrypt, EncryptReturns,
           BeginDecrypt, DecryptOk, DecryptError, RdUnlock
    <2>3. label \notin {"free", "swap"}
        BY DEF PlainPc, ReadPc
    <2> QED
        BY <1>0, <2>1, <2>2, <2>3, ExactQuiet
<1>2. CASE DataMismatch(w)
    <2>1. mpc # "exited" /\ mpc' = mpc
        BY <1>0, <1>2 DEF StageInv, DataMismatch
    <2>2. UNCHANGED <<gen, live, pc, todo>>
        BY <1>2 DEF DataMismatch
    <2> QED
        BY <2>1, <2>2 DEF ExactInv, Moving, Pointed, Current, Fresh, FirstOf
<1>3. CASE ThreadStep(w)
    <2>1. PICK label \in PlainPc : pc' = [pc EXCEPT ![w] = label]
        BY <1>3 DEF ThreadStep, WarmupArrive, ReleaseArrive, Released, LoopHead, WorkerDone, PlainPc
    <2>2. UNCHANGED <<gen, live, mpc, todo>> /\ pc[w] \notin {"free", "swap"}
        BY <1>3 DEF ThreadStep, WarmupArrive, ReleaseArrive, Released, LoopHead, WorkerDone
    <2>3. label \notin {"free", "swap"}
        BY DEF PlainPc
    <2> QED
        BY <1>0, <2>1, <2>2, <2>3, ExactQuiet
<1>4. CASE Load(w)
    <2>1. /\ pc[w] \in WritePc /\ pc[w] = "load"
          /\ \A v \in Workers : v # w => pc'[v] = pc[v]
          /\ pc'[w] = "free" /\ UNCHANGED <<gen, todo, mpc>>
          /\ live' = live \cup {Fresh(FirstOf(todo[w]))}
        BY <1>4 DEF Load, WritePc, CyclePc, TypeOK
    <2>2. \A v \in Workers : v # w => pc[v] \notin {"free", "swap"}
        BY <1>0, <2>1, WriterAlone DEF HandleInv, WritePc, CyclePc
    <2>3. mpc \notin {"build", "free", "exited"}
        BY <1>0, <2>1, MainWaits
    <2>4. live = Pointed
        BY <2>1, <2>2, <2>3 DEF ExactInv, Moving
    <2>5. Pointed' = Pointed /\ Fresh(FirstOf(todo[w]))' = Fresh(FirstOf(todo[w]))
        BY <2>1 DEF Pointed, Current, Fresh, FirstOf
    <2> QED
        BY <2>1, <2>2, <2>3, <2>4, <2>5 DEF ExactInv, Moving
<1>5. CASE FreeOld(w)
    <2> DEFINE p == FirstOf(todo[w])
    <2>1. /\ pc[w] \in WritePc /\ pc[w] = "free"
          /\ \A v \in Workers : v # w => pc'[v] = pc[v]
          /\ pc'[w] = "swap" /\ UNCHANGED <<gen, todo, mpc>>
          /\ live' = live \ {Current(p)}
        BY <1>5 DEF FreeOld, WritePc, CyclePc, TypeOK
    <2>2. \A v \in Workers : v # w => pc[v] \notin {"free", "swap"}
        BY <1>0, <2>1, WriterAlone DEF HandleInv, WritePc, CyclePc
    <2>3. mpc \notin {"build", "free", "exited"}
        BY <1>0, <2>1, MainWaits
    <2>4. live = Pointed \cup {Fresh(p)}
        BY <2>1 DEF ExactInv
    <2>5. p \in Pipes
        BY <1>0, <2>1, FirstOfType DEF HandleInv, MaintenanceInv, TypeOK
    <2>6. Fresh(p) # Current(p)
        BY <2>5 DEF Fresh, Current, TypeOK
    <2>7. live' = (Pointed \ {Current(p)}) \cup {Fresh(p)}
        BY <2>1, <2>4, <2>6
    <2>8. Pointed' = Pointed /\ Fresh(p)' = Fresh(p) /\ Current(p)' = Current(p)
        BY <2>1 DEF Pointed, Current, Fresh, FirstOf
    <2> QED
        BY <2>1, <2>2, <2>3, <2>7, <2>8 DEF ExactInv, Moving
<1>6. CASE Swap(w)
    <2> DEFINE p == FirstOf(todo[w])
    <2>1. /\ pc[w] \in WritePc /\ pc[w] = "swap"
          /\ \A v \in Workers : v # w => pc'[v] = pc[v]
          /\ pc'[w] = "load" /\ UNCHANGED <<live, mpc>>
        BY <1>6 DEF Swap, WritePc, CyclePc, TypeOK
    <2>2. \A v \in Workers : v # w => pc[v] \notin {"free", "swap"}
        BY <1>0, <2>1, WriterAlone DEF HandleInv, WritePc, CyclePc
    <2>3. mpc \notin {"build", "free", "exited"}
        BY <1>0, <2>1, MainWaits
    <2>4. live = (Pointed \ {Current(p)}) \cup {Fresh(p)}
        BY <2>1 DEF ExactInv
    <2>5. p \in Pipes
        BY <1>0, <2>1, FirstOfType DEF HandleInv, MaintenanceInv, TypeOK
    <2>6. gen' = [gen EXCEPT ![p] = @ + 1]
        BY <1>6 DEF Swap
    <2>7. \A q \in Pipes : <<q, gen'[q]>> = IF q = p THEN Fresh(q) ELSE Current(q)
        BY <2>5, <2>6 DEF Current, Fresh, TypeOK
    <2>8. Pointed' = {<<q, gen'[q]>> : q \in Pipes}
        BY DEF Pointed, Current
    <2>9. Pointed' = (Pointed \ {Current(p)}) \cup {Fresh(p)}
        <3> HIDE DEF p
        <3>1. \A q \in Pipes : q # p => Current(q) # Current(p)
            BY DEF Current
        <3>2. ASSUME NEW h \in Pointed' PROVE h \in (Pointed \ {Current(p)}) \cup {Fresh(p)}
            BY <2>7, <2>8, <3>1, <3>2 DEF Pointed
        <3>3. ASSUME NEW h \in (Pointed \ {Current(p)}) \cup {Fresh(p)} PROVE h \in Pointed'
            BY <2>5, <2>7, <2>8, <3>3 DEF Pointed
        <3> QED
            BY <3>2, <3>3
    <2> QED
        BY <2>1, <2>2, <2>3, <2>4, <2>9 DEF ExactInv, Moving
<1>7. CASE MaintenanceStep(w) /\ ~(Load(w) \/ FreeOld(w) \/ Swap(w))
    <2>1. PICK label \in PlainPc \cup RekeyPc \cup {"load", "cycle_unlock"} :
              pc' = [pc EXCEPT ![w] = label]
        BY <1>7 DEF MaintenanceStep, Maintain, CycleDue, DrawMasters, WrLock, BeginRekey, RekeyOk,
           RekeyError, RekeyDone, LoadError, CycleDone, WrUnlock, PlainPc, RekeyPc
    <2>2. /\ UNCHANGED <<gen, live, mpc>> /\ pc[w] \notin {"free", "swap"}
          /\ \A v \in Workers \ {w} : todo'[v] = todo[v]
        BY <1>7 DEF MaintenanceStep, Maintain, CycleDue, DrawMasters, WrLock, BeginRekey, RekeyOk,
           RekeyError, RekeyDone, LoadError, CycleDone, WrUnlock, TypeOK
    <2>3. label \notin {"free", "swap"}
        BY DEF PlainPc, RekeyPc
    <2> QED
        BY <1>0, <2>1, <2>2, <2>3, ExactQuiet
<1> QED
    BY <1>1, <1>2, <1>3, <1>4, <1>5, <1>6, <1>7 DEF WorkerStep

(* Main opens handles while it builds and closes them when the workers     *)
(* have returned; a run that gives up before the barrier has not started   *)
(* the clock.                                                              *)
LEMMA ExactMain ==
    ASSUME TypeOK, IndInv, EarlyInv, ExactInv, exit = "running", MainStep
    PROVE  ExactInv'
<1> USE DEF handleVars, localVars, mainVars, MainGoto
<1>1. StageInv /\ LockInv
    BY DEF IndInv
<1>2. CASE BuildPipeline
    <2> DEFINE unbuilt == {p \in Pipes : Current(p) \notin live}
    <2>1. unbuilt \subseteq Pipes /\ unbuilt # {}
        BY <1>2 DEF BuildPipeline
    <2>2. FirstOf(unbuilt) \in Pipes
        <3> HIDE DEF unbuilt
        <3> QED
            BY <2>1, FirstOfType
    <2>3. live' = live \cup {Current(FirstOf(unbuilt))} /\ UNCHANGED <<gen, pc, todo, mpc>>
          /\ mpc = "build"
        BY <1>2 DEF BuildPipeline
    <2>4. live' \subseteq Pointed /\ Pointed' = Pointed
        BY <2>2, <2>3 DEF ExactInv, Pointed, Current
    <2>5. \A v \in Workers : pc[v] = "unborn"
        BY <1>1, <2>3 DEF StageInv
    <2> QED
        BY <2>3, <2>4, <2>5 DEF ExactInv
<1>3. CASE BuildDone
    <2>1. mpc = "build" /\ mpc' = "create" /\ UNCHANGED <<gen, live, pc, todo>>
        BY <1>3 DEF BuildDone
    <2>2. live = Pointed /\ Pointed' = Pointed
        BY <1>3, <2>1 DEF BuildDone, ExactInv, Pointed, Current
    <2>3. \A v \in Workers : pc[v] = "unborn"
        BY <1>1, <2>1 DEF StageInv
    <2> QED
        BY <2>1, <2>2, <2>3 DEF ExactInv
<1>4. CASE FreeHandles
    <2>1. live' \subseteq live /\ UNCHANGED <<gen, pc, todo, mpc>> /\ mpc = "free"
        BY <1>4 DEF FreeHandles
    <2>2. live' \subseteq Pointed /\ Pointed' = Pointed
        BY <2>1 DEF ExactInv, Pointed, Current
    <2>3. \A v \in Workers : pc[v] = "returned"
        BY <1>1, <2>1 DEF StageInv
    <2> QED
        BY <2>1, <2>2, <2>3 DEF ExactInv
<1>5. CASE Return
    <2>1. UNCHANGED <<gen, live, pc, todo>> /\ mpc = "free" /\ mpc' = "exited"
        BY <1>5 DEF Return
    <2>2. live = {}
        BY <1>5, <2>1 DEF Return, ExactInv, Pointed
    <2>3. \A v \in Workers : pc[v] = "returned"
        BY <1>1, <2>1 DEF StageInv
    <2> QED
        BY <2>1, <2>2, <2>3 DEF ExactInv
<1>6. CASE BuildError \/ CreateError
    <2>1. /\ UNCHANGED <<gen, live, pc, todo, finish>> /\ mpc' = "exited"
          /\ mpc \in {"build", "create"}
        BY <1>6 DEF BuildError, CreateError, doneVars
    <2>2. finish' = "unset" /\ \A v \in Workers : pc[v] \notin {"free", "swap"}
        BY <2>1 DEF EarlyInv, EarlyPc, ReadPc
    <2> QED
        BY <2>1, <2>2 DEF ExactInv
<1>7. CASE Summary
    <2>1. UNCHANGED <<gen, live, pc, todo>> /\ mpc = "summary" /\ mpc' = "free"
        BY <1>7 DEF Summary
    <2>2. \A v \in Workers : pc[v] = "returned"
        BY <1>1, <2>1 DEF StageInv
    <2>3. live = Pointed /\ Pointed' = Pointed
        BY <2>1, <2>2 DEF ExactInv, Moving, Pointed, Current
    <2> QED
        BY <2>1, <2>2, <2>3 DEF ExactInv
<1>8. CASE MainWarmupArrive \/ MainWarmedUp \/ StartClock \/ MainReleaseArrive \/ MainReleased
           \/ Poll \/ Join
    <2>1. /\ UNCHANGED <<gen, live, pc, todo>>
          /\ mpc \notin {"build", "free", "exited"} /\ mpc' \notin {"build", "free", "exited"}
        BY <1>8 DEF MainWarmupArrive, MainWarmedUp, StartClock, MainReleaseArrive, MainReleased,
           Poll, Join
    <2> QED
        BY <2>1 DEF ExactInv, Moving, Pointed, Current, Fresh, FirstOf
<1>9. ASSUME NEW w \in Workers, CreateWorker(w) PROVE ExactInv'
    BY <1>1, <1>9, ExactQuiet DEF CreateWorker, Goto
<1> QED
    BY <1>2, <1>3, <1>4, <1>5, <1>6, <1>7, <1>8, <1>9 DEF MainStep

(* Signals and the deadline change no handle.                              *)
LEMMA ExactEnv ==
    ASSUME TypeOK, IndInv, ExactInv, exit = "running", EnvStep
    PROVE  ExactInv'
<1>1. mpc # "exited" /\ StageInv
    BY DEF IndInv, StageInv
<1>2. CASE Signal \/ Deadline
    BY <1>1, <1>2 DEF Signal, Deadline, ExactInv, Moving, Pointed, Current, Fresh, FirstOf,
       handleVars, localVars
<1>3. ASSUME NEW w \in Workers, SignalInRefill(w) PROVE ExactInv'
    BY <1>1, <1>3, ExactQuiet DEF SignalInRefill, Goto, handleVars, localVars
<1> QED
    BY <1>2, <1>3 DEF EnvStep

(* The open handles are exactly the expected ones after every step.        *)
LEMMA ExactNext == TypeOK /\ IndInv /\ EarlyInv /\ ExactInv /\ [Next]_vars => ExactInv'
<1> SUFFICES ASSUME TypeOK, IndInv, EarlyInv, ExactInv, [Next]_vars PROVE ExactInv'
    OBVIOUS
<1>1. CASE UNCHANGED vars
    BY <1>1 DEF vars, handleVars, localVars, doneVars, mainVars, ExactInv, Moving, Pointed,
       Current, Fresh, FirstOf
<1> QED
    BY <1>1, ExactWorker, ExactMain, ExactEnv DEF Next, Exited

(* Before main builds there is no handle and no thread.                    *)
LEMMA ExactInit == Init => EarlyInv /\ ExactInv
BY DEF Init, EarlyInv, EarlyPc, ExactInv, Moving

(* Every open handle has a pipe variable and every pipe variable an open   *)
(* handle whenever nobody is in maintenance, after a failed load too; and  *)
(* a run that returns from main leaves no handle open.                     *)
THEOREM OneHandlePerPipeHolds == Spec => []OneHandlePerPipe
<1>1. IndInv /\ ExactInv => OneHandlePerPipe
    <2> SUFFICES ASSUME IndInv, ExactInv PROVE OneHandlePerPipe
        OBVIOUS
    <2>1. writer = None => \A w \in Workers : ~Moving(w)
        BY ConfigAssumption DEF IndInv, LockInv, Moving, WritePc, CyclePc
    <2> QED
        BY <2>1 DEF ExactInv, OneHandlePerPipe, Pointed
<1> QED
    BY <1>1, ExactInit, ExactNext, EarlyNext, Inductive, TypeCorrect, PTL DEF Spec

-----------------------------------------------------------------------------
(* The keys.  While nothing has failed the retained blobs follow the       *)
(* handles at every instant, and the two handles differ only inside one    *)
(* rotation, between the pipes it has visited and those it has not.        *)
Turning(w) == pc[w] \in {"rekey", "rekeying"}

KeyInv ==
    (\A w \in Workers : ~failed[w]) =>
        /\ blob = keying
        /\ (\A w \in Workers : ~Turning(w)) => \A p, q \in Pipes : keying[p] = keying[q]
        /\ \A w \in Workers : Turning(w) =>
               /\ \A p \in Pipes \ todo[w] : keying[p] = <<w, iter[w]>>
               /\ \A p, q \in todo[w] : keying[p] = keying[q]

(* A step that draws, uses or replaces no keys.                            *)
LEMMA KeyQuiet ==
    ASSUME TypeOK, KeyInv, NEW w \in Workers, NEW label,
           pc[w] \notin {"rekey", "rekeying"}, label \notin {"rekey", "rekeying"},
           pc' = [pc EXCEPT ![w] = label],
           \A v \in Workers \ {w} : todo'[v] = todo[v] /\ iter'[v] = iter[v],
           \A v \in Workers : failed[v] => failed'[v],
           UNCHANGED <<keying, blob>>
    PROVE  KeyInv'
<1>1. \A v \in Workers : pc'[v] = IF v = w THEN label ELSE pc[v]
    BY DEF TypeOK
<1> QED
    BY <1>1 DEF KeyInv, Turning

(* A worker's step keeps the blobs with the handles, or records a failure. *)
LEMMA KeyWorker ==
    ASSUME TypeOK, LockInv, HandleInv, KeyInv, NEW w \in Workers, WorkerStep(w)
    PROVE  KeyInv'
<1> USE DEF Goto, handleVars, localVars, failVars
<1>1. CASE (IterateStep(w) /\ ~DataMismatch(w)) \/ ThreadStep(w)
    <2>1. PICK label \in PlainPc \cup ReadPc : pc' = [pc EXCEPT ![w] = label]
        BY <1>1 DEF IterateStep, ThreadStep, Refill, RefillFailed, RdLock, BeginEncrypt,
           EncryptReturns, BeginDecrypt, DecryptOk, DecryptError, RdUnlock, WarmupArrive,
           ReleaseArrive, Released, LoopHead, WorkerDone, PlainPc, ReadPc
    <2>2. /\ UNCHANGED <<keying, blob, todo>> /\ pc[w] \notin {"rekey", "rekeying"}
          /\ \A v \in Workers \ {w} : iter'[v] = iter[v]
          /\ \A v \in Workers : failed[v] => failed'[v]
        BY <1>1 DEF IterateStep, ThreadStep, Refill, RefillFailed, RdLock, BeginEncrypt,
           EncryptReturns, BeginDecrypt, DecryptOk, DecryptError, RdUnlock, WarmupArrive,
           ReleaseArrive, Released, LoopHead, WorkerDone, WorkerFail, TypeOK
    <2>3. label \notin {"rekey", "rekeying"}
        BY DEF PlainPc, ReadPc
    <2> QED
        BY <2>1, <2>2, <2>3, KeyQuiet
<1>2. CASE DataMismatch(w)
    BY <1>2 DEF DataMismatch, KeyInv, Turning
<1>3. CASE Maintain(w) \/ CycleDue(w) \/ DrawMasters(w) \/ (WrLock(w) /\ pc[w] = "cycle_wrlock")
           \/ Load(w) \/ LoadError(w) \/ FreeOld(w) \/ CycleDone(w) \/ WrUnlock(w)
    <2>1. PICK label \in (PlainPc \cup WritePc) \ {"rekey", "rekeying"} :
              pc' = [pc EXCEPT ![w] = label]
        BY <1>3 DEF Maintain, CycleDue, DrawMasters, WrLock, Load, LoadError, FreeOld, CycleDone,
           WrUnlock, PlainPc, WritePc, CyclePc, RekeyPc
    <2>2. /\ UNCHANGED <<keying, blob>> /\ pc[w] \notin {"rekey", "rekeying"}
          /\ \A v \in Workers \ {w} : todo'[v] = todo[v] /\ iter'[v] = iter[v]
          /\ \A v \in Workers : failed[v] => failed'[v]
        BY <1>3 DEF Maintain, CycleDue, DrawMasters, WrLock, Load, LoadError, FreeOld, CycleDone,
           WrUnlock, WorkerFail, TypeOK
    <2> QED
        BY <2>1, <2>2, KeyQuiet
<1>4. CASE WrLock(w) /\ pc[w] = "rekey_wrlock"
    <2>1. /\ todo' = [todo EXCEPT ![w] = Pipes] /\ pc' = [pc EXCEPT ![w] = "rekey"]
          /\ UNCHANGED <<keying, blob, failed, iter>>
        BY <1>4 DEF WrLock
    <2>2. \A v \in Workers : ~Turning(v)
        BY <1>4, ConfigAssumption DEF WrLock, LockInv, Turning, WritePc, RekeyPc
    <2> QED
        BY <2>1, <2>2 DEF KeyInv, Turning, TypeOK
<1>5. CASE BeginRekey(w)
    BY <1>5 DEF BeginRekey, KeyInv, Turning, TypeOK
<1>6. CASE RekeyOk(w)
    <2> DEFINE p == FirstOf(todo[w])
    <2>1. pc[w] = "rekeying" /\ pc[w] \in WritePc
        BY <1>6 DEF RekeyOk, WritePc, RekeyPc
    <2>2. \A v \in Workers : v # w => pc[v] \notin {"rekey", "rekeying"}
        BY <2>1, WriterAlone DEF HandleInv, WritePc, RekeyPc
    <2>3. p \in Pipes /\ p \in todo[w]
        BY <2>1, FirstOfType DEF HandleInv, MaintenanceInv, TypeOK
    <2>4. /\ keying' = [keying EXCEPT ![p] = <<w, iter[w]>>]
          /\ blob' = [blob EXCEPT ![p] = <<w, iter[w]>>]
          /\ todo' = [todo EXCEPT ![w] = todo[w] \ {p}]
          /\ pc' = [pc EXCEPT ![w] = "rekey"]
          /\ UNCHANGED <<failed, iter>>
        BY <1>6 DEF RekeyOk
    <2> HIDE DEF p
    <2>5. todo'[w] = todo[w] \ {p} /\ pc'[w] = "rekey" /\ iter'[w] = iter[w]
          /\ todo[w] \subseteq Pipes
        BY <2>4 DEF TypeOK
    <2>6. \A v \in Workers : v # w => ~Turning(v)'
        BY <2>2, <2>4 DEF Turning, TypeOK
    <2>7. \A q \in Pipes : keying'[q] = IF q = p THEN <<w, iter[w]>> ELSE keying[q]
        BY <2>4 DEF TypeOK
    <2>8. ASSUME \A v \in Workers : ~failed[v]
          PROVE  /\ blob' = keying'
                 /\ \A q \in Pipes \ todo'[w] : keying'[q] = <<w, iter'[w]>>
                 /\ \A q, r \in todo'[w] : keying'[q] = keying'[r]
        <3>1. /\ blob = keying
              /\ \A q \in Pipes \ todo[w] : keying[q] = <<w, iter[w]>>
              /\ \A q, r \in todo[w] : keying[q] = keying[r]
            BY <2>1, <2>8 DEF KeyInv, Turning
        <3> QED
            BY <2>3, <2>4, <2>5, <2>7, <3>1
    <2> QED
        BY <2>4, <2>5, <2>6, <2>8 DEF KeyInv, Turning
<1>7. CASE RekeyError(w)
    BY <1>7 DEF RekeyError, WorkerFail, KeyInv, TypeOK
<1>8. CASE RekeyDone(w)
    <2>1. /\ pc[w] = "rekey" /\ todo[w] = {} /\ pc' = [pc EXCEPT ![w] = "rekey_unlock"]
          /\ UNCHANGED <<keying, blob, failed, iter, todo>>
        BY <1>8 DEF RekeyDone
    <2>2. \A v \in Workers : v # w => pc[v] \notin {"rekey", "rekeying"}
        BY <2>1, WriterAlone DEF HandleInv, WritePc, RekeyPc
    <2>3. \A v \in Workers : ~Turning(v)'
        BY <2>1, <2>2 DEF Turning, TypeOK
    <2>4. (\A v \in Workers : ~failed[v]) =>
              blob = keying /\ \A p \in Pipes : keying[p] = <<w, iter[w]>>
        BY <2>1 DEF KeyInv, Turning
    <2> QED
        BY <2>1, <2>3, <2>4 DEF KeyInv
<1>9. CASE Swap(w)
    <2> DEFINE p == FirstOf(todo[w])
    <2>1. /\ pc[w] = "swap" /\ pc' = [pc EXCEPT ![w] = "load"]
          /\ keying' = [keying EXCEPT ![p] = blob[p]]
          /\ UNCHANGED <<blob, failed, iter>>
          /\ \A v \in Workers \ {w} : todo'[v] = todo[v]
        BY <1>9 DEF Swap, TypeOK
    <2> HIDE DEF p
    <2>2. blob = keying => keying' = keying
        BY <2>1 DEF TypeOK
    <2>3. /\ \A v \in Workers : v # w => pc'[v] = pc[v] /\ todo'[v] = todo[v]
          /\ pc'[w] = "load"
        BY <2>1 DEF TypeOK
    <2>4. UNCHANGED <<failed, iter, blob>> /\ pc[w] = "swap"
        BY <2>1
    <2> QED
        BY <2>2, <2>3, <2>4 DEF KeyInv, Turning
<1> QED
    BY <1>1, <1>2, <1>3, <1>4, <1>5, <1>6, <1>7, <1>8, <1>9
    DEF WorkerStep, MaintenanceStep, WrLock

(* Main and the environment leave the keys alone.                          *)
LEMMA KeyNext == TypeOK /\ IndInv /\ KeyInv /\ [Next]_vars => KeyInv'
<1> SUFFICES ASSUME TypeOK, LockInv, HandleInv, KeyInv, [Next]_vars PROVE KeyInv'
    BY DEF IndInv, HandleInv
<1>1. CASE UNCHANGED <<keying, blob, pc, todo, iter, failed>>
    BY <1>1 DEF KeyInv, Turning
<1>2. ASSUME NEW w \in Workers, WorkerStep(w) PROVE KeyInv'
    BY <1>2, KeyWorker
<1>3. ASSUME NEW w \in Workers, CreateWorker(w) \/ SignalInRefill(w) PROVE KeyInv'
    BY <1>3, KeyQuiet DEF CreateWorker, SignalInRefill, Goto, handleVars, localVars, failVars
<1>4. MainStep \/ EnvStep =>
          UNCHANGED <<keying, blob, pc, todo, iter, failed>>
          \/ \E w \in Workers : CreateWorker(w) \/ SignalInRefill(w)
    BY DEF MainStep, EnvStep, BuildPipeline, BuildError, BuildDone, CreateError, MainWarmupArrive,
       MainWarmedUp, StartClock, MainReleaseArrive, MainReleased, Poll, Join, Summary, FreeHandles,
       Return, Signal, Deadline, handleVars, localVars, failVars
<1>5. CASE UNCHANGED vars
    BY <1>1, <1>5 DEF vars, handleVars, localVars, failVars
<1> QED
    BY <1>1, <1>2, <1>3, <1>4, <1>5 DEF Next, Exited

(* The blobs and the keyings start equal: build_pipeline saves the blob of *)
(* what it built.                                                          *)
LEMMA KeyInit == Init => KeyInv
BY DEF Init, KeyInv, Turning

(* Reopening from the retained blob gives the keying in force whenever no  *)
(* maintenance is under way and nothing has failed, and both handles carry *)
(* the masters of the same rotation.                                       *)
THEOREM BlobMatchesLiveHolds == Spec => []BlobMatchesLive
<1>1. IndInv /\ KeyInv => BlobMatchesLive
    BY ConfigAssumption DEF IndInv, LockInv, KeyInv, Turning, BlobMatchesLive, WritePc, RekeyPc
<1> QED
    BY <1>1, KeyInit, KeyNext, Inductive, TypeCorrect, PTL DEF Spec
=============================================================================
