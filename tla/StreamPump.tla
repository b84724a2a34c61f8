------------------------------ MODULE StreamPump ------------------------------
(***************************************************************************)
(* The whole-buffer pump over an incremental session: pump of              *)
(* src/itb_stream.c, whose caller gets a buffer of its own, and pump of    *)
(* loop/worker.c, which fills an accumulator the worker reuses from one    *)
(* iteration to the next (reuse).  The cipher chain behind the session     *)
(* runs on its own threads in libitb3: it consumes what was written,       *)
(* produces output whenever it likes, and may break at any time, from      *)
(* which point on every call on the session reports the failure.           *)
(*                                                                         *)
(* Bytes are counted in units; PumpBuf of them stand for ITB_PUMP_BUF.     *)
(* The input is the sequence of units 1..input.                            *)
(***************************************************************************)
EXTENDS Integers, Sequences, FiniteSetsExt

CONSTANTS
    PumpBuf,     \* ITB_PUMP_BUF, LOOP_PUMP_SLICE
    SizeMax,     \* SIZE_MAX
    MaxInput,    \* bound of the model: units of the longest input
    MaxCalls,    \* bound of the model: calls of pump
    Reuses,      \* the kinds of caller: TRUE, the accumulator outlives a call (loop/worker.c)
    OutOfMemory, \* whether an allocation may fail
    Breaks       \* whether the chain may break

ASSUME PumpAssumption ==
    /\ PumpBuf \in Nat \ {0} /\ SizeMax \in Nat /\ PumpBuf <= SizeMax
    /\ MaxInput \in Nat /\ MaxCalls \in Nat
    /\ Reuses \subseteq BOOLEAN /\ OutOfMemory \in BOOLEAN /\ Breaks \in BOOLEAN

VARIABLES
    (* the caller *)
    reuse, calls, dir, input, result,
    (* pump *)
    pc, st, offset, scratch, chunk, fin, acc, cap,
    (* the session in libitb3 *)
    session, \* "closed", "open"
    fed,     \* the units written
    ended, spooled, taken, broken

callVars    == <<reuse, calls, dir, input, result>>
accVars     == <<acc, cap>>
readVars    == <<chunk, fin>>
sessionVars == <<session, fed, ended, spooled, taken, broken>>
vars == <<callVars, pc, st, offset, scratch, readVars, accVars, sessionVars>>

Whole == INSTANCE WholeBuffer WITH
    request <- IF pc = "idle" THEN [dir |-> "none", input |-> 0] ELSE [dir |-> dir, input |-> input],
    answer  <- IF pc = "returned" THEN result ELSE [st |-> "pending", out |-> << >>]

Init ==
    /\ reuse \in Reuses
    /\ calls = 0 /\ dir = "encrypt" /\ input = 0 /\ result = Whole!Pending
    /\ pc = "idle" /\ st = "ok" /\ offset = 0
    /\ scratch = FALSE /\ chunk = << >> /\ fin = FALSE
    /\ acc = << >> /\ cap = 0
    /\ session = "closed" /\ fed = << >> /\ ended = FALSE
    /\ spooled = 0 /\ taken = 0 /\ broken = FALSE

-----------------------------------------------------------------------------
(* The session. *)

(* What the chain makes of the units written so far, and how much of it a  *)
(* read may return now.                                                    *)
ChainOutput == fed \o (IF ended THEN Whole!Trailer(dir) ELSE << >>)
Available == spooled - taken

ChainProduces ==
    /\ session = "open" /\ ~broken
    /\ spooled < Len(ChainOutput)
    /\ spooled' = spooled + 1
    /\ UNCHANGED <<callVars, pc, st, offset, scratch, readVars, accVars,
                   session, fed, ended, taken, broken>>

ChainBreaks ==
    /\ Breaks
    /\ session = "open" /\ ~broken
    /\ broken' = TRUE
    /\ UNCHANGED <<callVars, pc, st, offset, scratch, readVars, accVars,
                   session, fed, ended, spooled, taken>>

(* itb_stream_write: refused once the chain has broken or the input ended. *)
Write(units) ==
    /\ ~broken /\ ~ended
    /\ fed' = fed \o units
    /\ UNCHANGED <<session, ended, spooled, taken, broken>>

EndInput ==
    /\ ~broken
    /\ ended' = TRUE
    /\ UNCHANGED <<session, fed, spooled, taken, broken>>

(* itb_stream_read: some of what is available, at most the capacity of the *)
(* scratch buffer; nothing when the spool is empty, except that after the  *)
(* end such a read blocks until there is something or all has been taken.  *)
(* finished is only reported once the input has ended and all is taken.    *)
Read ==
    /\ ~broken
    /\ \E n \in 0..PumpBuf :
           /\ n <= Available
           /\ n = 0 => Available = 0
           /\ (n = 0 /\ ended) => taken = Len(ChainOutput)
           /\ chunk' = SubSeq(ChainOutput, taken + 1, taken + n)
           /\ taken' = taken + n
           /\ fin' \in {f \in BOOLEAN : /\ f => ended /\ taken' = Len(ChainOutput)
                                        /\ (n = 0 /\ ended) => f}
    /\ UNCHANGED <<session, fed, ended, spooled, broken>>

-----------------------------------------------------------------------------
(* pump. *)

Fail == pc' = "close" /\ st' = "error"

Call ==
    /\ pc = "idle"
    /\ calls < MaxCalls
    /\ calls' = calls + 1
    /\ dir' \in Whole!Directions
    /\ input' \in 0..MaxInput
    /\ result' = Whole!Failure
    /\ pc' = "begin" /\ st' = "ok"
    /\ UNCHANGED <<reuse, offset, scratch, readVars, accVars, sessionVars>>

(* stream_begin: no memory for the itb_stream, or libitb3 opens none.      *)
Begin ==
    /\ pc = "begin"
    /\ \/ /\ session' = "open" /\ fed' = << >> /\ ended' = FALSE
          /\ spooled' = 0 /\ taken' = 0 /\ broken' = FALSE
          /\ pc' = "scratch"
       \/ /\ OutOfMemory \/ Breaks
          /\ pc' = "returned"
          /\ UNCHANGED sessionVars
    /\ UNCHANGED <<callVars, st, offset, scratch, readVars, accVars>>

(* Mutant: the reused accumulator is not emptied. *)
Scratch_KeepsContent ==
    /\ pc = "scratch"
    /\ scratch' = TRUE /\ offset' = 0 /\ pc' = "write"
    /\ UNCHANGED <<callVars, st, readVars, accVars, sessionVars>>

(* A buffer of its own starts unallocated; a reused one keeps its block    *)
(* and is emptied, which the failure of this allocation comes before.      *)
Scratch ==
    /\ pc = "scratch"
    /\ \/ /\ scratch' = TRUE
          /\ acc' = << >>
          /\ offset' = 0
          /\ pc' = "write"
          /\ UNCHANGED st
       \/ /\ OutOfMemory
          /\ Fail
          /\ acc' = IF reuse THEN acc ELSE << >>
          /\ UNCHANGED <<scratch, offset>>
    /\ cap' = IF reuse THEN cap ELSE 0
    /\ UNCHANGED <<callVars, readVars, sessionVars>>

WriteSlice ==
    LET left  == input - offset
        slice == IF left > PumpBuf THEN PumpBuf ELSE left IN
    /\ pc = "write"
    /\ offset < input
    /\ \/ /\ Write([k \in 1..slice |-> offset + k])
          /\ offset' = offset + slice
          /\ pc' = "drain"
          /\ UNCHANGED st
       \/ broken /\ Fail /\ UNCHANGED <<offset, sessionVars>>
    /\ UNCHANGED <<callVars, scratch, readVars, accVars>>

(* The drain after a slice stops at the first read that returns nothing.   *)
DrainRead ==
    /\ pc = "drain"
    /\ \/ Read /\ pc' = (IF chunk' = << >> THEN "write" ELSE "append") /\ UNCHANGED st
       \/ broken /\ Fail /\ UNCHANGED <<readVars, sessionVars>>
    /\ UNCHANGED <<callVars, offset, scratch, accVars>>

(* Mutant: the end of the input is not signalled. *)
End_NotSignalled ==
    /\ pc = "write"
    /\ offset >= input
    /\ pc' = "final"
    /\ UNCHANGED <<callVars, st, offset, scratch, readVars, accVars, sessionVars>>

End ==
    /\ pc = "write"
    /\ offset >= input
    /\ \/ EndInput /\ pc' = "final" /\ UNCHANGED st
       \/ broken /\ Fail /\ UNCHANGED sessionVars
    /\ UNCHANGED <<callVars, offset, scratch, readVars, accVars>>

(* The last drain stops at the read that reports finished, which may have  *)
(* returned something as well.                                             *)
FinalRead ==
    /\ pc = "final"
    /\ \/ Read /\ pc' = "append" /\ UNCHANGED st
       \/ broken /\ Fail /\ UNCHANGED <<readVars, sessionVars>>
    /\ UNCHANGED <<callVars, offset, scratch, accVars>>

(* acc_append, buf_append: double the capacity from PumpBuf up until the   *)
(* chunk fits.  A doubling that would leave size_t is refused.             *)
Doublings ==
    {c \in 1..SizeMax : \E k \in 0..SizeMax : c = (IF cap > 0 THEN cap ELSE PumpBuf) * 2 ^ k}

(* Mutant: only the first append allocates. *)
Enough_Once(need) == {IF cap = 0 THEN PumpBuf ELSE cap}

(* The capacities that would do; the block that is there is kept if it may.*)
Enough(need) == IF need <= cap THEN {cap} ELSE {c \in Doublings : need <= c}

AfterAppend == IF ~ended THEN "drain" ELSE IF fin THEN "close" ELSE "final"

AccAppend ==
    LET need == Len(acc) + Len(chunk) IN
    /\ pc = "append"
    /\ \/ /\ Enough(need) # {}
          /\ acc' = acc \o chunk
          /\ cap' = Min(Enough(need))
          /\ pc' = AfterAppend
          /\ UNCHANGED st
       \/ /\ Enough(need) = {} \/ (OutOfMemory /\ need > cap)
          /\ Fail
          /\ UNCHANGED accVars
    /\ UNCHANGED <<callVars, offset, scratch, readVars, sessionVars>>

(* The way out of every call that opened a session.  Only a call that has  *)
(* gone through hands its buffer out, a block even for an empty output.    *)
Succeed ==
    /\ result' = [st |-> "ok", out |-> acc]
    /\ cap' = IF cap = 0 /\ ~reuse THEN 1 ELSE cap
    /\ UNCHANGED acc

(* Mutant: a failed call keeps what it has accumulated. *)
GiveUp_Leaks == result' = Whole!Failure /\ UNCHANGED accVars

GiveUp ==
    /\ result' = Whole!Failure
    /\ IF reuse THEN UNCHANGED accVars ELSE acc' = << >> /\ cap' = 0

Close ==
    /\ pc = "close"
    /\ session' = "closed"
    /\ scratch' = FALSE
    /\ \/ st = "ok" /\ Succeed
       \/ st # "ok" /\ GiveUp
       \/ st = "ok" /\ cap = 0 /\ ~reuse /\ OutOfMemory /\ GiveUp
    /\ pc' = "returned"
    /\ UNCHANGED <<reuse, calls, dir, input, st, offset, readVars, fed, ended, spooled, taken, broken>>

(* The caller is done with the output: itb_bytes_free, or the comparison   *)
(* of the round trip in the worker.                                        *)
Done ==
    /\ pc = "returned"
    /\ pc' = "idle"
    /\ IF reuse THEN UNCHANGED accVars ELSE acc' = << >> /\ cap' = 0
    /\ UNCHANGED <<callVars, st, offset, scratch, readVars, sessionVars>>

PumpStep ==
    \/ Begin \/ Scratch \/ WriteSlice \/ DrainRead \/ End \/ FinalRead \/ AccAppend \/ Close

Chain == ChainProduces \/ ChainBreaks

AllCallsMade == pc = "idle" /\ calls = MaxCalls /\ UNCHANGED vars

Next == Call \/ PumpStep \/ Chain \/ Done \/ AllCallsMade

(* The thread runs, and the chain in libitb3 works on what it was given.   *)
Fairness == WF_vars(PumpStep) /\ WF_vars(ChainProduces)

Spec == Init /\ [][Next]_vars
FairSpec == Spec /\ Fairness

-----------------------------------------------------------------------------
(* Properties. *)

(* The pump keeps the promise of a whole-buffer call: the complete output, *)
(* no unit lost, repeated or left over from an earlier call, or nothing,   *)
(* also when the chain breaks after much of the output was taken.          *)
KeepsPromise == Whole!Spec

(* A call that has returned holds neither scratch buffer nor session; its  *)
(* accumulator is a block exactly when it hands one out, or belongs to     *)
(* the worker that reuses it.                                              *)
NoLeak ==
    pc \in {"returned", "idle"} =>
        /\ ~scratch /\ session = "closed"
        /\ reuse \/ (cap > 0 <=> (pc = "returned" /\ result.st = "ok"))

(* What was appended lies inside the block it was copied into, and a chunk *)
(* never exceeds the scratch buffer it was read into.                      *)
WithinBlocks == Len(acc) <= cap /\ Len(chunk) <= PumpBuf

(* Every call returns: the drain before the end of the input finds the     *)
(* spool empty in the end, and the blocking reads after it see the final   *)
(* unit or the failure.                                                    *)
Returns == [](pc = "begin" => <>(pc = "returned"))
===============================================================================
