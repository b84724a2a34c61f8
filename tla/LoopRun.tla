------------------------------ MODULE LoopRun ------------------------------
(***************************************************************************)
(* One run of the stress harness src/loop: the main thread (main.c, run)   *)
(* and the worker threads (worker.c, worker_main) around the Pipeline      *)
(* handles and retained blobs they share, with the maintenance that        *)
(* rotates the masters of a live handle or replaces the handle (ops.c).    *)
(*                                                                         *)
(* A step of the model is one thread's code between two points where       *)
(* another thread can notice it: a lock or barrier operation, the start    *)
(* and the return of a library call, one access to a shared variable.      *)
(* libitb3, the kernel and the C library are environment: what they may    *)
(* answer is a disjunct, restricted by Faults and Signals.                 *)
(***************************************************************************)
EXTENDS Integers, FiniteSets

CONSTANTS
    Workers,         \* the worker threads (--goroutines / --workers)
    Main,            \* the main thread
    Shape,           \* --shape
    Iterations,      \* --iterations; 0 is duration mode
    MaxIter,         \* bound of the model: iterations of a worker in duration mode
    RekeyEvery,      \* --rekey-every; 0 is never
    BlobCycleEvery,  \* --blob-cycle-every; 0 is never
    Layers,          \* the outer layers that are on: each rekey draws their masters
    RandomRefill,    \* --payload-mode=rotating without --seed: getrandom every iteration
    Faults,          \* the failures the environment may inject
    Signals          \* whether SIGINT / SIGTERM may arrive

Shapes == {"stream", "message", "stream_one_shot", "both"}
FaultKinds == {"build", "create", "csprng", "encrypt", "decrypt", "corrupt", "rekey", "load"}

None == "none"  \* nobody holds the write side

ASSUME ConfigAssumption ==
    /\ IsFiniteSet(Workers) /\ Workers # {}
    /\ Main \notin Workers /\ None \notin Workers
    /\ Shape \in Shapes
    /\ Iterations \in Nat /\ MaxIter \in Nat
    /\ RekeyEvery \in Nat /\ BlobCycleEvery \in Nat
    /\ Layers \subseteq {"parallax", "wrapper"}
    /\ RandomRefill \in BOOLEAN /\ Signals \in BOOLEAN
    /\ Faults \subseteq FaultKinds

(* stream and stream_one_shot share the streaming handle. *)
Pipes == {p \in {"stream", "msg"} :
             IF p = "stream" THEN Shape # "message" ELSE Shape \in {"message", "both"}}

(* The handle iteration i goes through; "both" rotates the three surfaces. *)
PipeOf(i) ==
    IF Shape = "message" \/ (Shape = "both" /\ i % 3 = 1) THEN "msg" ELSE "stream"

(* Maintenance visits the streaming handle before the message handle. *)
FirstOf(todo) == IF "stream" \in todo THEN "stream" ELSE "msg"

Threads == Workers \cup {Main}

(* The keying of a handle is named by who drew its masters and when. *)
Key == Threads \X Nat
InitKey == <<Main, 0>>

VARIABLES
    (* r->stream_pipe, r->msg_pipe and what lives behind them *)
    gen,        \* generation of the handle each pipe variable points to
    live,       \* handles the library holds open
    keying,     \* keying of the handle each pipe variable points to
    blob,       \* keying inside each retained blob
    calls,      \* cipher calls in flight, <<worker, handle>>
    (* pipe_lock *)
    readers, writer,
    (* a worker *)
    pc, iter, wire, todo, failed, iters,
    (* run_state and main *)
    stop, active, finish, arrived, rekeys, cycles,
    mpc, signal_seen, expired, exit

handleVars == <<gen, live, keying, blob, calls>>
lockVars   == <<readers, writer>>
localVars  == <<iter, wire, todo, iters>>
failVars   == <<failed, stop>>
doneVars   == <<active, finish>>
countVars  == <<rekeys, cycles>>
mainVars   == <<mpc, signal_seen, expired, exit>>
vars == <<handleVars, lockVars, pc, localVars, failVars, doneVars, arrived, countVars, mainVars>>

Handle == Pipes \X Nat
Current(p) == <<p, gen[p]>>
Rotating == {Current(FirstOf(todo[w])) : w \in {v \in Workers : pc[v] = "rekeying"}}

PlainPc   == {"unborn", "refill", "refill_failed", "rdlock", "warmup_done", "warmup_wait",
              "release_wait", "check", "maintain", "draw", "rekey_wrlock", "cycle_due",
              "cycle_wrlock", "done", "returned"}
ReadPc    == {"encrypt", "encrypting", "decrypt", "decrypting", "rdunlock"}
RekeyPc   == {"rekey", "rekeying", "rekey_unlock"}
CyclePc   == {"load", "free", "swap", "cycle_unlock"}
WritePc   == RekeyPc \cup CyclePc
MainPc    == {"build", "create", "warmup_done", "warmup_wait", "baseline", "start",
              "release_wait", "poll", "join", "summary", "free", "exited"}
Exits     == {"running", "pass", "fail", "mismatch"}

(* The types of the harness state: counters, flags, handles and the        *)
(* program counters of main and the workers.                               *)
TypeOK ==
    /\ gen \in [Pipes -> Nat]
    /\ live \subseteq Handle
    /\ keying \in [Pipes -> Key]
    /\ blob \in [Pipes -> Key]
    /\ calls \subseteq Workers \X Handle
    /\ readers \subseteq Workers
    /\ writer \in Workers \cup {None}
    /\ pc \in [Workers -> PlainPc \cup ReadPc \cup WritePc]
    /\ iter \in [Workers -> Nat]
    /\ wire \in [Workers -> Key]
    /\ todo \in [Workers -> SUBSET Pipes]
    /\ failed \in [Workers -> BOOLEAN]
    /\ iters \in [Workers -> Nat]
    /\ stop \in BOOLEAN
    /\ active \in Int
    /\ finish \in {"unset", "start", "last"}
    /\ arrived \in [{"warmup_done", "release"} -> SUBSET Threads]
    /\ rekeys \in Nat /\ cycles \in Nat
    /\ mpc \in MainPc
    /\ signal_seen \in BOOLEAN /\ expired \in BOOLEAN
    /\ exit \in Exits

Init ==
    /\ gen = [p \in Pipes |-> 0]
    /\ live = {}
    /\ keying = [p \in Pipes |-> InitKey]
    /\ blob = [p \in Pipes |-> InitKey]
    /\ calls = {}
    /\ readers = {} /\ writer = None
    /\ pc = [w \in Workers |-> "unborn"]
    /\ iter = [w \in Workers |-> 0]
    /\ wire = [w \in Workers |-> InitKey]
    /\ todo = [w \in Workers |-> {}]
    /\ failed = [w \in Workers |-> FALSE]
    /\ iters = [w \in Workers |-> 0]
    /\ stop = FALSE
    /\ active = Cardinality(Workers)
    /\ finish = "unset"
    /\ arrived = [b \in {"warmup_done", "release"} |-> {}]
    /\ rekeys = 0 /\ cycles = 0
    /\ mpc = "build"
    /\ signal_seen = FALSE /\ expired = FALSE
    /\ exit = "running"

-----------------------------------------------------------------------------
(* Steps shared by the threads. *)

Goto(w, label) == pc' = [pc EXCEPT ![w] = label]

(* worker_fail: the first error of the worker is kept, the run is stopped. *)
WorkerFail(w) ==
    /\ failed' = [failed EXCEPT ![w] = TRUE]
    /\ stop' = TRUE

(* pthread_barrier_wait: arrive, and pass once every thread has arrived. *)
Arrive(t, b) == arrived' = [arrived EXCEPT ![b] = @ \cup {t}]
Open(b) == arrived[b] = Threads

-----------------------------------------------------------------------------
(* worker.c, iterate. *)

(* The payload is refilled outside the lock. *)
Refill(w) ==
    /\ pc[w] = "refill"
    /\ \/ Goto(w, "rdlock")
       \/ RandomRefill /\ "csprng" \in Faults /\ Goto(w, "refill_failed")
    /\ UNCHANGED <<handleVars, lockVars, localVars, failVars, doneVars, arrived, countVars, mainVars>>

(* Mutant: a failed warmup gives up without passing the barriers. *)
RefillFailed_SkipsBarriers(w) ==
    /\ pc[w] = "refill_failed"
    /\ WorkerFail(w)
    /\ Goto(w, "done")
    /\ UNCHANGED <<handleVars, lockVars, localVars, doneVars, arrived, countVars, mainVars>>

RefillFailed(w) ==
    /\ pc[w] = "refill_failed"
    /\ WorkerFail(w)
    /\ Goto(w, IF iter[w] = 0 THEN "warmup_done" ELSE "done")
    /\ UNCHANGED <<handleVars, lockVars, localVars, doneVars, arrived, countVars, mainVars>>

(* Mutant: the round trip does not wait for the maintenance to finish. *)
RdLock_IgnoresWriter(w) ==
    /\ pc[w] = "rdlock"
    /\ readers' = readers \cup {w}
    /\ Goto(w, "encrypt")
    /\ UNCHANGED <<handleVars, writer, localVars, failVars, doneVars, arrived, countVars, mainVars>>

(* A reader is let in whenever no writer holds the lock: the default kind  *)
(* of rwlock prefers readers to waiting writers.                           *)
RdLock(w) ==
    /\ pc[w] = "rdlock"
    /\ writer = None
    /\ readers' = readers \cup {w}
    /\ Goto(w, "encrypt")
    /\ UNCHANGED <<handleVars, writer, localVars, failVars, doneVars, arrived, countVars, mainVars>>

(* The handle is read from run_state at each call, so the encrypt and the  *)
(* decrypt of an iteration each pick up what the variable holds then.      *)
BeginEncrypt(w) ==
    LET p == PipeOf(iter[w]) IN
    /\ pc[w] = "encrypt"
    /\ calls' = calls \cup {<<w, Current(p)>>}
    /\ wire' = [wire EXCEPT ![w] = keying[p]]
    /\ Goto(w, "encrypting")
    /\ UNCHANGED <<gen, live, keying, blob, lockVars, iter, todo, iters, failVars, doneVars,
                   arrived, countVars, mainVars>>

BeginDecrypt(w) ==
    /\ pc[w] = "decrypt"
    /\ calls' = calls \cup {<<w, Current(PipeOf(iter[w]))>>}
    /\ Goto(w, "decrypting")
    /\ UNCHANGED <<gen, live, keying, blob, lockVars, localVars, failVars, doneVars,
                   arrived, countVars, mainVars>>

EndCall(w) == calls' = {c \in calls : c[1] # w}

(* Mutant: the lock covers the encrypt only. *)
EncryptReturns_Unlocks(w) ==
    /\ pc[w] = "encrypting"
    /\ EndCall(w)
    /\ readers' = readers \ {w}
    /\ Goto(w, "decrypt")
    /\ UNCHANGED <<gen, live, keying, blob, writer, localVars, failVars, doneVars, arrived,
                   countVars, mainVars>>

EncryptReturns(w) ==
    /\ pc[w] = "encrypting"
    /\ EndCall(w)
    /\ \/ Goto(w, "decrypt") /\ UNCHANGED failVars
       \/ "encrypt" \in Faults /\ WorkerFail(w) /\ Goto(w, "rdunlock")
    /\ UNCHANGED <<gen, live, keying, blob, lockVars, localVars, doneVars, arrived, countVars, mainVars>>

(* The wire opens only under the keying it was made with. *)
DecryptOk(w) ==
    /\ pc[w] = "decrypting"
    /\ wire[w] = keying[PipeOf(iter[w])]
    /\ EndCall(w)
    /\ iters' = [iters EXCEPT ![w] = @ + 1]
    /\ Goto(w, "rdunlock")
    /\ UNCHANGED <<gen, live, keying, blob, lockVars, iter, wire, todo, failVars, doneVars,
                   arrived, countVars, mainVars>>

DecryptError(w) ==
    /\ pc[w] = "decrypting"
    /\ "decrypt" \in Faults \/ wire[w] # keying[PipeOf(iter[w])]
    /\ EndCall(w)
    /\ WorkerFail(w)
    /\ Goto(w, "rdunlock")
    /\ UNCHANGED <<gen, live, keying, blob, lockVars, localVars, doneVars, arrived, countVars, mainVars>>

(* An OK status with different bytes ends the process on the spot, with    *)
(* the lock held and the calls of other workers in flight.                 *)
DataMismatch(w) ==
    /\ pc[w] = "decrypting"
    /\ "corrupt" \in Faults
    /\ EndCall(w)
    /\ exit' = "mismatch"
    /\ UNCHANGED <<gen, live, keying, blob, lockVars, pc, localVars, failVars, doneVars,
                   arrived, countVars, mpc, signal_seen, expired>>

(* Unlock and return to worker_main: the warmup goes to the barriers, a    *)
(* failed iteration leaves the loop, the others go on to maintenance.      *)
RdUnlock(w) ==
    /\ pc[w] = "rdunlock"
    /\ readers' = readers \ {w}
    /\ Goto(w, IF iter[w] = 0 THEN "warmup_done"
               ELSE IF failed[w] THEN "done" ELSE "maintain")
    /\ UNCHANGED <<handleVars, writer, localVars, failVars, doneVars, arrived, countVars, mainVars>>

-----------------------------------------------------------------------------
(* worker.c, worker_main. *)

WarmupArrive(w) ==
    /\ pc[w] = "warmup_done"
    /\ Arrive(w, "warmup_done")
    /\ Goto(w, "warmup_wait")
    /\ UNCHANGED <<handleVars, lockVars, localVars, failVars, doneVars, countVars, mainVars>>

ReleaseArrive(w) ==
    /\ pc[w] = "warmup_wait"
    /\ Open("warmup_done")
    /\ Arrive(w, "release")
    /\ Goto(w, "release_wait")
    /\ UNCHANGED <<handleVars, lockVars, localVars, failVars, doneVars, countVars, mainVars>>

(* A worker whose warmup failed passes both barriers before it gives up. *)
Released(w) ==
    /\ pc[w] = "release_wait"
    /\ Open("release")
    /\ IF failed[w]
       THEN Goto(w, "done") /\ UNCHANGED iter
       ELSE Goto(w, "check") /\ iter' = [iter EXCEPT ![w] = 1]
    /\ UNCHANGED <<handleVars, lockVars, wire, todo, iters, failVars, doneVars, arrived, countVars, mainVars>>

(* Mutant: the warmup is forgotten in the count of iterations. *)
BudgetSpent_OffByOne(w) == Iterations > 0 /\ iter[w] > Iterations

BudgetSpent(w) == Iterations > 0 /\ iter[w] >= Iterations

(* The head of the loop: the budget, then the stop request.  A worker that *)
(* has spent MaxIter in duration mode waits for the stop.                  *)
LoopHead(w) ==
    /\ pc[w] = "check"
    /\ \/ (BudgetSpent(w) \/ stop) /\ Goto(w, "done")
       \/ /\ ~BudgetSpent(w) /\ ~stop
          /\ Iterations = 0 => iter[w] < MaxIter
          /\ Goto(w, "refill")
    /\ UNCHANGED <<handleVars, lockVars, localVars, failVars, doneVars, arrived, countVars, mainVars>>

(* worker_done: the last worker to return stamps the finish instant.       *)
(* done_mu makes this one step, and one step of main's Poll.               *)
WorkerDone(w) ==
    /\ pc[w] = "done"
    /\ active' = active - 1
    /\ finish' = IF active = 1 THEN "last" ELSE finish
    /\ Goto(w, "returned")
    /\ UNCHANGED <<handleVars, lockVars, localVars, failVars, arrived, countVars, mainVars>>

-----------------------------------------------------------------------------
(* ops.c. *)

Due(every, i) == every > 0 /\ i % every = 0

(* worker_maintenance: the rotation first, then the reopen. *)
Maintain(w) ==
    /\ pc[w] = "maintain"
    /\ Goto(w, IF Due(RekeyEvery, iter[w]) THEN "draw" ELSE "cycle_due")
    /\ UNCHANGED <<handleVars, lockVars, localVars, failVars, doneVars, arrived, countVars, mainVars>>

CycleDue(w) ==
    /\ pc[w] = "cycle_due"
    /\ IF Due(BlobCycleEvery, iter[w])
       THEN Goto(w, "cycle_wrlock") /\ UNCHANGED iter
       ELSE Goto(w, "check") /\ iter' = [iter EXCEPT ![w] = @ + 1]
    /\ UNCHANGED <<handleVars, lockVars, wire, todo, iters, failVars, doneVars, arrived, countVars, mainVars>>

(* The fresh masters are drawn before the lock is taken. *)
DrawMasters(w) ==
    /\ pc[w] = "draw"
    /\ \/ Goto(w, "rekey_wrlock") /\ UNCHANGED failVars
       \/ Layers # {} /\ "csprng" \in Faults /\ WorkerFail(w) /\ Goto(w, "done")
    /\ UNCHANGED <<handleVars, lockVars, localVars, doneVars, arrived, countVars, mainVars>>

(* Mutant: the maintenance does not wait for the round trips under way. *)
WrLock_IgnoresReaders(w) ==
    /\ pc[w] \in {"rekey_wrlock", "cycle_wrlock"}
    /\ writer = None
    /\ writer' = w
    /\ todo' = [todo EXCEPT ![w] = Pipes]
    /\ Goto(w, IF pc[w] = "rekey_wrlock" THEN "rekey" ELSE "load")
    /\ UNCHANGED <<handleVars, readers, iter, wire, iters, failVars, doneVars, arrived, countVars, mainVars>>

WrLock(w) ==
    /\ pc[w] \in {"rekey_wrlock", "cycle_wrlock"}
    /\ readers = {} /\ writer = None
    /\ writer' = w
    /\ todo' = [todo EXCEPT ![w] = Pipes]
    /\ Goto(w, IF pc[w] = "rekey_wrlock" THEN "rekey" ELSE "load")
    /\ UNCHANGED <<handleVars, readers, iter, wire, iters, failVars, doneVars, arrived, countVars, mainVars>>

BeginRekey(w) ==
    /\ pc[w] = "rekey"
    /\ todo[w] # {}
    /\ Goto(w, "rekeying")
    /\ UNCHANGED <<handleVars, lockVars, localVars, failVars, doneVars, arrived, countVars, mainVars>>

(* Mutant: the retained blob is not replaced. *)
RekeyOk_KeepsBlob(w) ==
    LET p == FirstOf(todo[w]) IN
    /\ pc[w] = "rekeying"
    /\ keying' = [keying EXCEPT ![p] = <<w, iter[w]>>]
    /\ todo' = [todo EXCEPT ![w] = @ \ {p}]
    /\ Goto(w, "rekey")
    /\ UNCHANGED <<gen, live, blob, calls, lockVars, iter, wire, iters, failVars, doneVars,
                   arrived, countVars, mainVars>>

(* A successful rekey hands out the blob of the new keying, which replaces *)
(* the retained one; the next handle gets the same masters.  With both     *)
(* layers off the masters are empty and nothing changes inside the handle; *)
(* the model names the keying anew all the same.                           *)
RekeyOk(w) ==
    LET p == FirstOf(todo[w]) IN
    /\ pc[w] = "rekeying"
    /\ keying' = [keying EXCEPT ![p] = <<w, iter[w]>>]
    /\ blob' = [blob EXCEPT ![p] = <<w, iter[w]>>]
    /\ todo' = [todo EXCEPT ![w] = @ \ {p}]
    /\ Goto(w, "rekey")
    /\ UNCHANGED <<gen, live, calls, lockVars, iter, wire, iters, failVars, doneVars,
                   arrived, countVars, mainVars>>

(* A rekey that reports failure may have rotated the handle before it      *)
(* failed to hand the blob out (itb_pipeline.c, buf_call).  The pipes not  *)
(* yet visited keep their keying.                                          *)
RekeyError(w) ==
    LET p == FirstOf(todo[w]) IN
    /\ pc[w] = "rekeying"
    /\ "rekey" \in Faults
    /\ \E k \in {keying[p], <<w, iter[w]>>} : keying' = [keying EXCEPT ![p] = k]
    /\ WorkerFail(w)
    /\ Goto(w, "rekey_unlock")
    /\ UNCHANGED <<gen, live, blob, calls, lockVars, localVars, doneVars, arrived, countVars, mainVars>>

RekeyDone(w) ==
    /\ pc[w] = "rekey"
    /\ todo[w] = {}
    /\ rekeys' = rekeys + 1
    /\ Goto(w, "rekey_unlock")
    /\ UNCHANGED <<handleVars, lockVars, localVars, failVars, doneVars, arrived, cycles, mainVars>>

Fresh(p) == <<p, gen[p] + 1>>

(* Mutant: the running handle is given up before the reopen is known to work. *)
Load_FreesFirst(w) ==
    LET p == FirstOf(todo[w]) IN
    /\ pc[w] = "load"
    /\ todo[w] # {}
    /\ live' = (live \ {Current(p)}) \cup {Fresh(p)}
    /\ Goto(w, "free")
    /\ UNCHANGED <<gen, keying, blob, calls, lockVars, localVars, failVars, doneVars,
                   arrived, countVars, mainVars>>

(* The reopen reads the retained blob, never the live handle. *)
Load(w) ==
    /\ pc[w] = "load"
    /\ todo[w] # {}
    /\ live' = live \cup {Fresh(FirstOf(todo[w]))}
    /\ Goto(w, "free")
    /\ UNCHANGED <<gen, keying, blob, calls, lockVars, localVars, failVars, doneVars,
                   arrived, countVars, mainVars>>

(* The running handle stays. *)
LoadError(w) ==
    /\ pc[w] = "load"
    /\ todo[w] # {}
    /\ "load" \in Faults
    /\ WorkerFail(w)
    /\ Goto(w, "cycle_unlock")
    /\ UNCHANGED <<handleVars, lockVars, localVars, doneVars, arrived, countVars, mainVars>>

(* Mutant: the reopen forgets the handle it replaces. *)
FreeOld_Leaks(w) ==
    /\ pc[w] = "free"
    /\ Goto(w, "swap")
    /\ UNCHANGED <<handleVars, lockVars, localVars, failVars, doneVars, arrived, countVars, mainVars>>

FreeOld(w) ==
    /\ pc[w] = "free"
    /\ live' = live \ {Current(FirstOf(todo[w]))}
    /\ Goto(w, "swap")
    /\ UNCHANGED <<gen, keying, blob, calls, lockVars, localVars, failVars, doneVars,
                   arrived, countVars, mainVars>>

Swap(w) ==
    LET p == FirstOf(todo[w]) IN
    /\ pc[w] = "swap"
    /\ gen' = [gen EXCEPT ![p] = @ + 1]
    /\ keying' = [keying EXCEPT ![p] = blob[p]]
    /\ todo' = [todo EXCEPT ![w] = @ \ {p}]
    /\ Goto(w, "load")
    /\ UNCHANGED <<live, blob, calls, lockVars, iter, wire, iters, failVars, doneVars,
                   arrived, countVars, mainVars>>

CycleDone(w) ==
    /\ pc[w] = "load"
    /\ todo[w] = {}
    /\ cycles' = cycles + 1
    /\ Goto(w, "cycle_unlock")
    /\ UNCHANGED <<handleVars, lockVars, localVars, failVars, doneVars, arrived, rekeys, mainVars>>

(* Unlock; an error leaves the loop, a rotation goes on to the reopen, and *)
(* after a reopen the next iteration begins.                               *)
WrUnlock(w) ==
    /\ pc[w] \in {"rekey_unlock", "cycle_unlock"}
    /\ writer' = None
    /\ Goto(w, IF failed[w] THEN "done"
               ELSE IF pc[w] = "rekey_unlock" THEN "cycle_due" ELSE "check")
    /\ iter' = IF pc[w] = "cycle_unlock" /\ ~failed[w]
               THEN [iter EXCEPT ![w] = @ + 1] ELSE iter
    /\ UNCHANGED <<handleVars, readers, wire, todo, iters, failVars, doneVars, arrived, countVars, mainVars>>

-----------------------------------------------------------------------------
(* main.c, run. *)

MainGoto(label) == mpc' = label

(* build_pipeline for each handle the shape uses; the retained blob is the *)
(* one save hands out.                                                     *)
BuildPipeline ==
    LET unbuilt == {p \in Pipes : Current(p) \notin live}
        p == FirstOf(unbuilt) IN
    /\ mpc = "build"
    /\ unbuilt # {}
    /\ live' = live \cup {Current(p)}
    /\ UNCHANGED <<gen, keying, blob, calls, lockVars, pc, localVars, failVars, doneVars,
                   arrived, countVars, mainVars>>

(* Init, save or the payload allocation fails: run returns 1. *)
BuildError ==
    /\ mpc = "build"
    /\ "build" \in Faults
    /\ exit' = "fail"
    /\ MainGoto("exited")
    /\ UNCHANGED <<handleVars, lockVars, pc, localVars, failVars, doneVars, arrived, countVars,
                   signal_seen, expired>>

(* Payloads filled, signal handlers installed, lock and barriers ready. *)
BuildDone ==
    /\ mpc = "build"
    /\ \A p \in Pipes : Current(p) \in live
    /\ MainGoto("create")
    /\ UNCHANGED <<handleVars, lockVars, pc, localVars, failVars, doneVars, arrived, countVars,
                   signal_seen, expired, exit>>

CreateWorker(w) ==
    /\ mpc = "create"
    /\ pc[w] = "unborn"
    /\ Goto(w, "refill")
    /\ UNCHANGED <<handleVars, lockVars, localVars, failVars, doneVars, arrived, countVars, mainVars>>

(* pthread_create fails: run returns 1 and takes the workers with it. *)
CreateError ==
    /\ mpc = "create"
    /\ "create" \in Faults
    /\ \E w \in Workers : pc[w] = "unborn"
    /\ exit' = "fail"
    /\ MainGoto("exited")
    /\ UNCHANGED <<handleVars, lockVars, pc, localVars, failVars, doneVars, arrived, countVars,
                   signal_seen, expired>>

MainWarmupArrive ==
    /\ mpc = "create"
    /\ \A w \in Workers : pc[w] # "unborn"
    /\ Arrive(Main, "warmup_done")
    /\ MainGoto("warmup_wait")
    /\ UNCHANGED <<handleVars, lockVars, pc, localVars, failVars, doneVars, countVars,
                   signal_seen, expired, exit>>

MainWarmedUp ==
    /\ mpc = "warmup_wait"
    /\ Open("warmup_done")
    /\ MainGoto("baseline")
    /\ UNCHANGED <<handleVars, lockVars, pc, localVars, failVars, doneVars, arrived, countVars,
                   signal_seen, expired, exit>>

(* The RSS and pool baselines are read here, then the clock is started and *)
(* finish_ns is given its initial value.                                   *)
StartClock ==
    /\ mpc = "baseline"
    /\ finish' = "start"
    /\ MainGoto("start")
    /\ UNCHANGED <<handleVars, lockVars, pc, localVars, failVars, active, arrived, countVars,
                   signal_seen, expired, exit>>

MainReleaseArrive ==
    /\ mpc = "start"
    /\ Arrive(Main, "release")
    /\ MainGoto("release_wait")
    /\ UNCHANGED <<handleVars, lockVars, pc, localVars, failVars, doneVars, countVars,
                   signal_seen, expired, exit>>

(* Mutant: the clock is started once the workers have been released. *)
MainReleased_StartsClock ==
    /\ mpc = "release_wait"
    /\ Open("release")
    /\ finish' = "start"
    /\ MainGoto("poll")
    /\ UNCHANGED <<handleVars, lockVars, pc, localVars, failVars, active, arrived, countVars,
                   signal_seen, expired, exit>>

MainReleased ==
    /\ mpc = "release_wait"
    /\ Open("release")
    /\ MainGoto("poll")
    /\ UNCHANGED <<handleVars, lockVars, pc, localVars, failVars, doneVars, arrived, countVars,
                   signal_seen, expired, exit>>

(* One turn of the wait loop, under done_mu; it wakes every 100 ms. *)
Poll ==
    /\ mpc = "poll"
    /\ IF active > 0
       THEN /\ stop' = (stop \/ signal_seen \/ (Iterations = 0 /\ expired))
            /\ UNCHANGED mpc
       ELSE MainGoto("join") /\ UNCHANGED stop
    /\ UNCHANGED <<handleVars, lockVars, pc, localVars, failed, doneVars, arrived, countVars,
                   signal_seen, expired, exit>>

Join ==
    /\ mpc = "join"
    /\ \A w \in Workers : pc[w] = "returned"
    /\ MainGoto("summary")
    /\ UNCHANGED <<handleVars, lockVars, pc, localVars, failVars, doneVars, arrived, countVars,
                   signal_seen, expired, exit>>

(* final_summary prints the verdict; the handles are then released. *)
Summary ==
    /\ mpc = "summary"
    /\ MainGoto("free")
    /\ UNCHANGED <<handleVars, lockVars, pc, localVars, failVars, doneVars, arrived, countVars,
                   signal_seen, expired, exit>>

Verdict == IF \E w \in Workers : failed[w] THEN "fail" ELSE "pass"

FreeHandles ==
    LET p == FirstOf({q \in Pipes : Current(q) \in live}) IN
    /\ mpc = "free"
    /\ \E q \in Pipes : Current(q) \in live
    /\ live' = live \ {Current(p)}
    /\ UNCHANGED <<gen, keying, blob, calls, lockVars, pc, localVars, failVars, doneVars,
                   arrived, countVars, mainVars>>

Return ==
    /\ mpc = "free"
    /\ \A p \in Pipes : Current(p) \notin live
    /\ exit' = Verdict
    /\ MainGoto("exited")
    /\ UNCHANGED <<handleVars, lockVars, pc, localVars, failVars, doneVars, arrived, countVars,
                   signal_seen, expired>>

-----------------------------------------------------------------------------
(* The environment. *)

(* The handler runs on some thread and sets the flag main polls. *)
Signal ==
    /\ Signals
    /\ ~signal_seen
    /\ mpc \notin {"build", "exited"}
    /\ signal_seen' = TRUE
    /\ UNCHANGED <<handleVars, lockVars, pc, localVars, failVars, doneVars, arrived, countVars,
                   mpc, expired, exit>>

(* The same, on a worker inside getrandom: handlers are installed without  *)
(* SA_RESTART, and a call that has not yet copied a byte returns EINTR,    *)
(* which fill_random reports as a failure.                                 *)
SignalInRefill(w) ==
    /\ Signals
    /\ ~signal_seen
    /\ RandomRefill
    /\ pc[w] = "refill"
    /\ signal_seen' = TRUE
    /\ Goto(w, "refill_failed")
    /\ UNCHANGED <<handleVars, lockVars, localVars, failVars, doneVars, arrived, countVars,
                   mpc, expired, exit>>

(* --duration has elapsed since start_ns. *)
Deadline ==
    /\ Iterations = 0
    /\ ~expired
    /\ mpc \in {"start", "release_wait", "poll"}
    /\ expired' = TRUE
    /\ UNCHANGED <<handleVars, lockVars, pc, localVars, failVars, doneVars, arrived, countVars,
                   mpc, signal_seen, exit>>

-----------------------------------------------------------------------------
IterateStep(w) ==
    \/ Refill(w) \/ RefillFailed(w) \/ RdLock(w)
    \/ BeginEncrypt(w) \/ EncryptReturns(w)
    \/ BeginDecrypt(w) \/ DecryptOk(w) \/ DecryptError(w) \/ DataMismatch(w)
    \/ RdUnlock(w)

ThreadStep(w) ==
    WarmupArrive(w) \/ ReleaseArrive(w) \/ Released(w) \/ LoopHead(w) \/ WorkerDone(w)

MaintenanceStep(w) ==
    \/ Maintain(w) \/ CycleDue(w) \/ DrawMasters(w) \/ WrLock(w)
    \/ BeginRekey(w) \/ RekeyOk(w) \/ RekeyError(w) \/ RekeyDone(w)
    \/ Load(w) \/ LoadError(w) \/ FreeOld(w) \/ Swap(w) \/ CycleDone(w)
    \/ WrUnlock(w)

WorkerStep(w) == IterateStep(w) \/ ThreadStep(w) \/ MaintenanceStep(w)

MainStep ==
    \/ BuildPipeline \/ BuildError \/ BuildDone
    \/ (\E w \in Workers : CreateWorker(w)) \/ CreateError
    \/ MainWarmupArrive \/ MainWarmedUp \/ StartClock \/ MainReleaseArrive \/ MainReleased
    \/ Poll \/ Join \/ Summary \/ FreeHandles \/ Return

EnvStep == Signal \/ (\E w \in Workers : SignalInRefill(w)) \/ Deadline

Exited == exit # "running" /\ UNCHANGED vars

Next ==
    \/ exit = "running" /\ (MainStep \/ EnvStep \/ \E w \in Workers : WorkerStep(w))
    \/ Exited

(* Threads run, library calls and getrandom return, and time passes; no    *)
(* failure and no signal is owed to anybody.                               *)
Fairness ==
    /\ \A w \in Workers : WF_vars(exit = "running" /\ WorkerStep(w))
    /\ WF_vars(exit = "running" /\ MainStep)
    /\ WF_vars(exit = "running" /\ Deadline)

Spec == Init /\ [][Next]_vars
FairSpec == Spec /\ Fairness

-----------------------------------------------------------------------------
(* Properties. *)

(* The rule the rwlock is there for (loop.h, pipe_lock): a cipher call in  *)
(* flight is on a handle that is open and that no rekey is rewriting.      *)
HandleSafety ==
    \A call \in calls : call[2] \in live /\ call[2] \notin Rotating

(* No encrypt is separated from its decrypt (ops.c, worker_maintenance):   *)
(* from the start of the encrypt to the end of the decrypt the pipe the    *)
(* iteration goes through keeps the keying the wire was made with.         *)
RoundTripKeying ==
    \A w \in Workers :
        pc[w] \in {"encrypting", "decrypt", "decrypting"} => wire[w] = keying[PipeOf(iter[w])]

(* While no maintenance is under way and nothing has failed, reopening a   *)
(* pipe from its retained blob gives the keying in force, and every pipe   *)
(* carries the masters of the same rotation: the lock is not given back    *)
(* between the two halves of a rotation.                                   *)
BlobMatchesLive ==
    (writer = None /\ \A w \in Workers : ~failed[w]) =>
        /\ blob = keying
        /\ \A p, q \in Pipes : keying[p] = keying[q]

(* Outside a reopen the open handles are exactly the ones the pipe         *)
(* variables point to, also after a failed load (the running handle        *)
(* stays), and a run that returns from main leaves none open.              *)
OneHandlePerPipe ==
    /\ (writer = None /\ mpc \notin {"build", "free", "exited"}) =>
           live = {Current(p) : p \in Pipes}
    /\ (mpc = "exited" /\ finish # "unset") => live = {}

(* What the summary measures is the main loop.  The baselines are taken    *)
(* when every worker has run the cipher path once, or failed to (main.c,   *)
(* warmup barrier), and none is in a call; the elapsed time ends with the  *)
(* stamp of the last worker to return, never with the initial value given  *)
(* to finish_ns.                                                           *)
MeasuresMainLoop ==
    /\ mpc \in {"baseline", "start"} =>
           /\ readers = {} /\ writer = None /\ calls = {}
           /\ \A w \in Workers : iters[w] = 1 \/ (failed[w] /\ iters[w] = 0)
    /\ mpc \in {"summary", "free"} => finish = "last" /\ active = 0

(* How often a maintenance that is due every so many iterations falls due. *)
Occasions(every) ==
    IF every = 0 THEN 0 ELSE Cardinality(Workers) * ((Iterations - 1) \div every)

(* A PASS of a run of fixed length that no signal cut short means that     *)
(* every worker completed every iteration and every rotation and reopen    *)
(* that was due took place.                                                *)
PassMeansComplete ==
    (exit = "pass" /\ Iterations > 0 /\ ~signal_seen) =>
        /\ \A w \in Workers : iters[w] = Iterations
        /\ rekeys = Occasions(RekeyEvery)
        /\ cycles = Occasions(BlobCycleEvery)

(* The run ends: no worker and no barrier waits forever, a failed warmup   *)
(* and a writer behind a stream of readers included.                       *)
Terminates == <>(exit # "running")

(* main.c on signals: the in-flight iteration completes and the run ends   *)
(* with the verdict its completed iterations earned.  So a run in which    *)
(* the environment injects no failure never ends in FAIL.                  *)
SignalIsGraceful == exit # "fail"

-----------------------------------------------------------------------------
(* The inductive invariant behind HandleSafety and RoundTripKeying.        *)

(* Program counters inside a locked section are the lock's holders.        *)
LockInv ==
    /\ writer # None => readers = {}
    /\ \A w \in Workers : pc[w] \in ReadPc <=> w \in readers
    /\ \A w \in Workers : pc[w] \in WritePc <=> writer = w

(* A call in flight is on the handle its pipe variable points to now.      *)
CallInv ==
    \A c \in calls :
        /\ pc[c[1]] \in {"encrypting", "decrypting"}
        /\ c[2] = Current(PipeOf(iter[c[1]]))
        /\ c[2] \in live

(* A reopen has its fresh handle before it gives up the old one.           *)
MaintenanceInv ==
    \A w \in Workers :
        /\ pc[w] \in {"rekeying", "free", "swap"} => todo[w] # {}
        /\ pc[w] \in {"free", "swap"} => Fresh(FirstOf(todo[w])) \in live

(* Workers only run between the building and the freeing of the handles.   *)
StageInv ==
    /\ mpc = "build" => \A w \in Workers : pc[w] = "unborn"
    /\ mpc \in {"summary", "free"} => \A w \in Workers : pc[w] = "returned"
    /\ mpc = "exited" => exit # "running"

(* A pipe variable dangles only between the free and the swap of a reopen. *)
LiveInv ==
    mpc \notin {"build", "free", "exited"} =>
        \A p \in Pipes :
            Current(p) \in live \/ \E w \in Workers : pc[w] = "swap" /\ p = FirstOf(todo[w])

(* The lock, the calls, the handles and the keys of round trips together.  *)
IndInv == LockInv /\ CallInv /\ MaintenanceInv /\ StageInv /\ LiveInv /\ RoundTripKeying

(* The contract, with the workers as its callers.                          *)
Contract == INSTANCE SharedHandle WITH Caller <- Workers, rotating <- Rotating

(* The harness keeps the contract of a shared handle: it uses no handle    *)
(* that is closed or being rewritten, and frees none that is in use.       *)
KeepsContract == Contract!Spec
=============================================================================
