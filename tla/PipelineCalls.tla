--------------------------- MODULE PipelineCalls ---------------------------
(***************************************************************************)
(* The entries of src/itb_pipeline.c that return a buffer of a size the    *)
(* caller cannot know: the binding allocates, asks libitb3, and asks once  *)
(* more with the size it was told (buf_call, cipher_call).  Several        *)
(* threads call at once, so what is asked for may change between the two   *)
(* attempts; every allocation may fail.  Sizes are counted in units, and   *)
(* Cap units stand for ITB_BLOB_CAP or itb_internal_out_cap.               *)
(***************************************************************************)
EXTENDS Integers, FiniteSets

CONSTANTS
    Callers,    \* the threads of the application
    Handles,    \* the session handles libitb3 may hand out, numbers from 1
    Cap,        \* the capacity of the first attempt
    MaxSize,    \* bound of the model: the largest record
    MaxRekey,   \* bound of the model: rotations under one handle
    Operations, \* the entries the application calls
    OutOfMemory \* whether an allocation may fail

ASSUME CallAssumption ==
    /\ Handles \subseteq Nat \ {0}
    /\ Cap \in Nat \ {0} /\ MaxSize \in Nat /\ MaxRekey \in Nat
    /\ Operations \subseteq {"init", "load", "save", "rekey", "cipher", "json", "register", "free"}
    /\ OutOfMemory \in BOOLEAN

VARIABLES
    registry, \* size of the profile records, which stands for their version
    sessions, \* the sessions open in libitb3
    masters,  \* the rotations made under each handle: the version of its blob
    size,     \* size of the blob of each session
    pipes,    \* the sessions the application holds a live itb_pipeline for
    call      \* what each thread is doing

vars == <<registry, sessions, masters, size, pipes, call>>
libVars == <<registry, sessions, masters, size>>

NoBuf == -1
Sizes == 0..MaxSize

(* n is the length the binding keeps, wrote the length of what libitb3 put *)
(* into the buffer and from the version of the session's blob it was; out  *)
(* is what the call has made of its out-parameters; held counts the heap   *)
(* blocks it has obtained and not released.                                *)
Quiet == [pc |-> "idle", op |-> "none", h |-> 0, outs |-> "both", buf |-> NoBuf, n |-> 0,
          rc |-> "ok", wrote |-> 0, from |-> 0, entry |-> 0, held |-> 0, out |-> "untouched"]

Init ==
    /\ registry \in 0..Cap
    /\ sessions = {} /\ pipes = {}
    /\ masters = [h \in Handles |-> 0]
    /\ size = [h \in Handles |-> 0]
    /\ call = [c \in Callers |-> Quiet]

(* JSON strings carry one byte more for the terminator.                    *)
Extra(op) == IF op = "json" THEN 1 ELSE 0
OnHandle == {"save", "rekey", "cipher", "free"}
Using(h) ==
    {c \in Callers : /\ call[c].pc \notin {"idle", "returned"}
                     /\ call[c].op \in OnHandle /\ call[c].h = h}

Set(c, fields) ==
    call' = [call EXCEPT ![c] = [f \in DOMAIN Quiet |-> IF f \in DOMAIN fields THEN fields[f] ELSE @[f]]]

-----------------------------------------------------------------------------
(* The application.  It keeps the rules of itb3.h for a handle: no cipher  *)
(* call beside a rotation, a release once and alone; saves and rotations   *)
(* may run beside one another.  outs says which of the two out-parameters  *)
(* it passes.                                                              *)
Apart(op, other) ==
    \/ "free" \in {op, other}
    \/ {op, other} = {"rekey", "cipher"}

Enter(c) ==
    \E op \in Operations, h \in pipes \cup {0}, outs \in {"both", "one", "none"} :
        /\ call[c].pc = "idle"
        /\ (op \in OnHandle) <=> h # 0
        /\ \A d \in Using(h) : ~Apart(op, call[d].op)
        /\ op \in {"init", "load", "json"} => outs # "one"
        /\ op \in {"register", "free"} => outs = "both"
        /\ call' = [call EXCEPT ![c] =
                       [Quiet EXCEPT !.pc = "enter", !.op = op, !.h = h, !.outs = outs,
                        !.entry = CASE op = "json" -> registry
                                    [] op \in {"save", "rekey"} -> masters[h]
                                    [] OTHER -> 0]]
        /\ UNCHANGED <<libVars, pipes>>

(* itb_bytes_free, itb_string_free: the application is done with the       *)
(* result and the thread may call again.                                   *)
Release(c) ==
    /\ call[c].pc = "returned"
    /\ call' = [call EXCEPT ![c] = Quiet]
    /\ UNCHANGED <<libVars, pipes>>

-----------------------------------------------------------------------------
(* The argument checks at the top of every entry.                          *)
NeedsOuts(op) == op \in {"init", "load", "save", "cipher", "json"}

Refuse(c) ==
    /\ call[c].pc = "enter"
    /\ NeedsOuts(call[c].op) /\ call[c].outs # "both"
    /\ Set(c, [pc |-> "returned", rc |-> "bad_input"])
    /\ UNCHANGED <<libVars, pipes>>

(* The pipeline, the profile or the blob is NULL: found out only after the *)
(* out-parameters have been cleared.                                       *)
RefuseInput(c) ==
    /\ call[c].pc = "enter"
    /\ call[c].op \in {"init", "load", "save", "rekey", "cipher", "json"}
    /\ NeedsOuts(call[c].op) => call[c].outs = "both"
    /\ Set(c, [pc |-> "returned", rc |-> "bad_input", out |-> "null"])
    /\ UNCHANGED <<libVars, pipes>>

(* The out-parameters are cleared; init allocates its itb_pipeline first.  *)
Accept(c) ==
    /\ call[c].pc = "enter"
    /\ NeedsOuts(call[c].op) => call[c].outs = "both"
    /\ \/ /\ call[c].op \in {"init", "save", "rekey", "cipher", "json"}
          /\ Set(c, [pc |-> "alloc", out |-> "null",
                     held |-> IF call[c].op = "init" THEN 1 ELSE 0])
       \/ /\ OutOfMemory /\ call[c].op = "init"
          /\ Set(c, [pc |-> "returned", out |-> "null", rc |-> "internal"])
       \/ /\ call[c].op \in {"load", "register", "free"}
          /\ Set(c, [pc |-> call[c].op, out |-> "null"])
    /\ UNCHANGED <<libVars, pipes>>

(* An allocation of n bytes that the call keeps, or the failure of it.     *)
Alloc(c) ==
    /\ call[c].pc = "alloc"
    /\ \/ Set(c, [pc |-> "first", buf |-> Cap + Extra(call[c].op), held |-> call[c].held + 1])
       \/ OutOfMemory /\ Set(c, [pc |-> "tail", rc |-> "internal"])
    /\ UNCHANGED <<libVars, pipes>>

-----------------------------------------------------------------------------
(* One attempt: libitb3 writes what fits into the capacity it is given and *)
(* reports the size it needs otherwise.                                    *)
Needs(c) == CASE call[c].op = "json" -> {registry}
              [] call[c].op = "save" -> {size[call[c].h]}
              [] OTHER -> Sizes

Fits(c, s) == s + Extra(call[c].op) <= call[c].buf

(* Init opens a session only when it succeeds; an undersized attempt is    *)
(* closed by libitb3 and its handle is given up by init_fn.                *)
AttemptInit(c, s, next) ==
    \/ \E h \in Handles \ (sessions \cup pipes) :
           /\ Fits(c, s)
           /\ sessions' = sessions \cup {h}
           /\ size' = [size EXCEPT ![h] = s]
           /\ Set(c, [pc |-> next, h |-> h, rc |-> "ok", n |-> s, wrote |-> s])
           /\ UNCHANGED masters
    \/ /\ ~Fits(c, s)
       /\ Set(c, [pc |-> next, h |-> 0, rc |-> "too_small", n |-> s])
       /\ UNCHANGED <<sessions, masters, size>>

(* A rotation writes a fresh blob, of whatever size.                       *)
Rotate(h, s) ==
    /\ masters[h] < MaxRekey
    /\ masters' = [masters EXCEPT ![h] = @ + 1]
    /\ size' = [size EXCEPT ![h] = s]

(* An undersized rekey has rotated the session or has not; the second      *)
(* attempt rotates it again.                                               *)
AttemptRekey(c, s, next) ==
    LET h == call[c].h IN
    /\ \/ /\ Fits(c, s)
          /\ Rotate(h, s)
          /\ Set(c, [pc |-> next, rc |-> "ok", n |-> s, wrote |-> s, from |-> masters[h] + 1])
       \/ /\ ~Fits(c, s)
          /\ Rotate(h, s) \/ UNCHANGED <<masters, size>>
          /\ Set(c, [pc |-> next, rc |-> "too_small", n |-> s])
    /\ UNCHANGED sessions

(* Mutant: the retry hands out the length it has asked for.                *)
AttemptRead_AskedLength(c, s, next) ==
    /\ IF Fits(c, s)
       THEN Set(c, [pc |-> next, rc |-> "ok", wrote |-> s,
                    n |-> IF next = "finish" THEN call[c].n ELSE s,
                    from |-> IF call[c].op = "save" THEN masters[call[c].h] ELSE 0])
       ELSE Set(c, [pc |-> next, rc |-> "too_small", n |-> s])
    /\ UNCHANGED <<sessions, masters, size>>

AttemptRead(c, s, next) ==
    /\ IF Fits(c, s)
       THEN Set(c, [pc |-> next, rc |-> "ok", n |-> s, wrote |-> s,
                    from |-> IF call[c].op = "save" THEN masters[call[c].h] ELSE 0])
       ELSE Set(c, [pc |-> next, rc |-> "too_small", n |-> s])
    /\ UNCHANGED <<sessions, masters, size>>

(* Any other status libitb3 answers with.                                  *)
AttemptError(c, next) ==
    /\ Set(c, [pc |-> next, h |-> IF call[c].op = "init" THEN 0 ELSE call[c].h, rc |-> "error"])
    /\ UNCHANGED <<sessions, masters, size>>

Attempt(c, next) ==
    /\ \/ \E s \in Needs(c) :
              CASE call[c].op = "init"  -> AttemptInit(c, s, next)
                [] call[c].op = "rekey" -> AttemptRekey(c, s, next)
                [] OTHER                -> AttemptRead(c, s, next)
       \/ AttemptError(c, next)
    /\ UNCHANGED <<registry, pipes>>

First(c) == call[c].pc = "first" /\ Attempt(c, "retry")
Second(c) == call[c].pc = "second" /\ Attempt(c, "finish")

(* Mutant: a size one above the capacity is taken for one that fits. *)
TooSmall_OffByOne(c) ==
    call[c].rc = "too_small" /\ call[c].n + Extra(call[c].op) > call[c].buf + 1

(* The retry happens once, and only for a size above the capacity.         *)
TooSmall(c) == call[c].rc = "too_small" /\ call[c].n + Extra(call[c].op) > call[c].buf

(* Mutant: buf = realloc(buf, n) loses the old block when there is no      *)
(* memory for the new one.                                                 *)
Grow_LosesBlock(c) ==
    /\ call[c].pc = "retry"
    /\ TooSmall(c)
    /\ \/ Set(c, [pc |-> "second", buf |-> call[c].n + Extra(call[c].op)])
       \/ OutOfMemory /\ Set(c, [pc |-> "tail", rc |-> "internal", buf |-> NoBuf])
    /\ UNCHANGED <<libVars, pipes>>

Grow(c) ==
    /\ call[c].pc = "retry"
    /\ TooSmall(c)
    /\ \/ Set(c, [pc |-> "second", buf |-> call[c].n + Extra(call[c].op)])
       \/ /\ OutOfMemory
          /\ Set(c, [pc |-> "tail", rc |-> "internal", buf |-> NoBuf, held |-> call[c].held - 1])
    /\ UNCHANGED <<libVars, pipes>>

NoRetry(c) ==
    /\ call[c].pc = "retry"
    /\ ~TooSmall(c)
    /\ Set(c, [pc |-> "finish"])
    /\ UNCHANGED <<libVars, pipes>>

(* Mutant: the trimmed block has no room for the terminator. *)
Finish_NoTerminator(c) ==
    /\ call[c].pc = "finish"
    /\ IF call[c].rc = "ok"
       THEN Set(c, [pc |-> "tail", buf |-> call[c].n])
       ELSE Set(c, [pc |-> "tail", buf |-> NoBuf, held |-> call[c].held - 1])
    /\ UNCHANGED <<libVars, pipes>>

(* A failed call releases its buffer; a successful one trims it to what    *)
(* was written, or keeps it as it is when there is no memory to trim into. *)
Finish(c) ==
    LET exact == call[c].n + Extra(call[c].op) IN
    /\ call[c].pc = "finish"
    /\ \/ /\ call[c].rc # "ok"
          /\ Set(c, [pc |-> "tail", buf |-> NoBuf, held |-> call[c].held - 1])
       \/ /\ call[c].rc = "ok"
          /\ Set(c, [pc |-> "tail", buf |-> IF exact > 0 THEN exact ELSE 1])
       \/ /\ call[c].rc = "ok" /\ (OutOfMemory \/ exact = call[c].buf)
          /\ Set(c, [pc |-> "tail"])
    /\ UNCHANGED <<libVars, pipes>>

(* What each entry does with the result of buf_call or cipher_call: init   *)
(* drops the blob and hands out the handle, or drops the itb_pipeline it   *)
(* had allocated; rekey drops the blob unless both out-parameters are      *)
(* there; the others hand the buffer out.                                  *)
Tail(c) ==
    LET ok == call[c].rc = "ok"
        dropped == call[c].op = "init" \/ (call[c].op = "rekey" /\ call[c].outs # "both")
    IN
    /\ call[c].pc = "tail"
    /\ Set(c, [pc |-> "returned",
               held |-> call[c].held - (IF ok /\ dropped THEN 1 ELSE 0)
                                     - (IF ~ok /\ call[c].op = "init" THEN 1 ELSE 0),
               buf |-> IF dropped THEN NoBuf ELSE call[c].buf,
               out |-> IF ~ok THEN "null"
                       ELSE IF call[c].op = "init" THEN "pipe"
                       ELSE IF dropped THEN "null" ELSE "buffer"])
    /\ pipes' = IF ok /\ call[c].op = "init" THEN pipes \cup {call[c].h} ELSE pipes
    /\ UNCHANGED libVars

-----------------------------------------------------------------------------
(* itb_pipeline_load, itb_pipeline_load_f: libitb3 opens the session, then *)
(* wrap_handle finds room for the itb_pipeline or closes the session.      *)
Load(c) ==
    /\ call[c].pc = "load"
    /\ \/ \E h \in Handles \ (sessions \cup pipes), s \in Sizes :
              /\ sessions' = sessions \cup {h}
              /\ size' = [size EXCEPT ![h] = s]
              /\ Set(c, [pc |-> "wrap", h |-> h])
              /\ UNCHANGED masters
       \/ /\ Set(c, [pc |-> "returned", rc |-> "error"])
          /\ UNCHANGED <<sessions, masters, size>>
    /\ UNCHANGED <<registry, pipes>>

(* Mutant: the session stays open when there is no room for its handle. *)
Wrap_Orphans(c) ==
    /\ call[c].pc = "wrap"
    /\ \/ /\ Set(c, [pc |-> "returned", held |-> call[c].held + 1, out |-> "pipe"])
          /\ pipes' = pipes \cup {call[c].h}
       \/ OutOfMemory /\ Set(c, [pc |-> "returned", rc |-> "internal"]) /\ UNCHANGED pipes
    /\ UNCHANGED libVars

Wrap(c) ==
    /\ call[c].pc = "wrap"
    /\ \/ /\ Set(c, [pc |-> "returned", held |-> call[c].held + 1, out |-> "pipe"])
          /\ pipes' = pipes \cup {call[c].h}
          /\ UNCHANGED sessions
       \/ /\ OutOfMemory
          /\ sessions' = sessions \ {call[c].h}
          /\ Set(c, [pc |-> "returned", rc |-> "internal"])
          /\ UNCHANGED pipes
    /\ UNCHANGED <<registry, masters, size>>

(* itb_pipeline_free.  The itb_pipeline is the application's block, which  *)
(* held no longer counts once init or load has returned.                   *)
FreePipe(c) ==
    /\ call[c].pc = "free"
    /\ sessions' = sessions \ {call[c].h}
    /\ pipes' = pipes \ {call[c].h}
    /\ Set(c, [pc |-> "returned"])
    /\ UNCHANGED <<registry, masters, size>>

(* itb_register adds a record.                                             *)
Register(c) ==
    /\ call[c].pc = "register"
    /\ \/ registry < MaxSize /\ registry' = registry + 1 /\ Set(c, [pc |-> "returned"])
       \/ registry' = registry /\ Set(c, [pc |-> "returned", rc |-> "error"])
    /\ UNCHANGED <<sessions, masters, size, pipes>>

-----------------------------------------------------------------------------
Step(c) ==
    \/ Enter(c) \/ Release(c) \/ Refuse(c) \/ RefuseInput(c) \/ Accept(c) \/ Alloc(c)
    \/ First(c) \/ Grow(c) \/ NoRetry(c) \/ Second(c) \/ Finish(c) \/ Tail(c)
    \/ Load(c) \/ Wrap(c) \/ FreePipe(c) \/ Register(c)

Next == \E c \in Callers : Step(c)
Spec == Init /\ [][Next]_vars

-----------------------------------------------------------------------------
(* Properties. *)

Returned(c) == call[c].pc = "returned"

(* Whatever failed on the way, a call that has returned keeps no block but *)
(* the one it handed out, and hands out exactly what it keeps.             *)
NoLeak ==
    \A c \in Callers :
        Returned(c) => call[c].held = (IF call[c].out \in {"buffer", "pipe"} THEN 1 ELSE 0)

(* Every session open in libitb3 belongs to an itb_pipeline the            *)
(* application holds or to a call still under way: no attempt, retry or    *)
(* failed allocation leaves one behind, and no itb_pipeline outlives its   *)
(* session.                                                                *)
NoOrphanSession ==
    sessions = pipes \cup
        {call[c].h : c \in {d \in Callers : /\ call[d].op \in {"init", "load"}
                                            /\ call[d].pc \notin {"idle", "returned"}
                                            /\ call[d].h # 0}}

(* A buffer handed out holds the bytes its length promises, terminator     *)
(* included, and the records in it are those of some time during the call. *)
ResultCurrent ==
    \A c \in Callers :
        (Returned(c) /\ call[c].out = "buffer") =>
            /\ call[c].n + Extra(call[c].op) <= call[c].buf
            /\ call[c].op = "json" => call[c].wrote \in call[c].entry..registry
            /\ call[c].op = "json" => call[c].wrote = call[c].n

(* The buffer save or rekey hands out holds one blob of the session,       *)
(* whole: the length is that of the bytes in it and not one asked for      *)
(* earlier, and the blob is no older than the call, for a rekey one that a *)
(* rotation of this call wrote, whatever other threads saved or rotated    *)
(* between the two attempts.                                               *)
BlobOfTheCall ==
    \A c \in Callers :
        (Returned(c) /\ call[c].out = "buffer" /\ call[c].op \in {"save", "rekey"}) =>
            /\ call[c].n = call[c].wrote
            /\ call[c].from \in call[c].entry..masters[call[c].h]
            /\ call[c].op = "rekey" => call[c].from > call[c].entry

(* The retry absorbs BUFFER_TOO_SMALL: a reader sees it only when what it  *)
(* reads was replaced during the call, the record by a registration or the *)
(* blob by another thread's rotation.  An init, a rotation and a cipher    *)
(* call make something new in each attempt, and nothing is said of them.   *)
TooSmallOnlyIfGrown ==
    \A c \in Callers :
        (Returned(c) /\ call[c].rc = "too_small") =>
            /\ call[c].op = "json" => registry > call[c].entry
            /\ call[c].op = "save" => masters[call[c].h] > call[c].entry

(* itb3.h, Errors: on a non-OK return the out-parameters are NULL / 0.     *)
OutParametersSafe ==
    \A c \in Callers :
        (Returned(c) /\ call[c].rc # "ok" /\ call[c].outs # "none") => call[c].out = "null"
=============================================================================
