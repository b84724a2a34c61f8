------------------------------ MODULE LastError ------------------------------
(***************************************************************************)
(* itb_last_error (src/itb_status.c): each thread copies the diagnostic    *)
(* that libitb3 keeps for the whole process, last write wins, into storage *)
(* of its own.  A message wider than the inline buffer is asked for again  *)
(* into a block kept in a pthread key, which the next fetch or the exit of *)
(* the thread releases.                                                    *)
(*                                                                         *)
(* A message is the number of the failure that recorded it; 0 is the empty *)
(* string.                                                                 *)
(***************************************************************************)
EXTENDS Integers

CONSTANTS
    Threads,     \* the threads of the application
    Inline,      \* ITB_ERRBUF_CAP
    Sizes,       \* sizes a diagnostic may have, terminator included
    MaxFailures, \* bound of the model: failing calls
    OutOfMemory  \* whether malloc and pthread_setspecific may fail

ASSUME FetchAssumption ==
    /\ Inline \in Nat \ {0} /\ Sizes \subseteq Nat \ {0}
    /\ MaxFailures \in Nat /\ OutOfMemory \in BOOLEAN

Empty == 0

VARIABLES
    last,     \* libitb3: the message recorded last, with its size
    failures, \* how many were recorded
    own,      \* the last failure of each thread itself
    pc, need,
    inline, slot, \* g_last_error and the value of g_wide_key
    result,   \* what the pointer the thread was handed points to
    held,     \* wide blocks the thread has allocated and not released
    entry     \* own at the start of the fetch

vars == <<last, failures, own, pc, need, inline, slot, result, held, entry>>

NoBlock == [wide |-> FALSE, text |-> Empty]

Init ==
    /\ last = [text |-> Empty, size |-> 1] /\ failures = 0
    /\ own = [t \in Threads |-> Empty]
    /\ pc = [t \in Threads |-> "idle"]
    /\ need = [t \in Threads |-> 0]
    /\ inline = [t \in Threads |-> Empty]
    /\ slot = [t \in Threads |-> NoBlock]
    /\ result = [t \in Threads |-> "none"]
    /\ held = [t \in Threads |-> 0]
    /\ entry = [t \in Threads |-> Empty]

Goto(t, label) == pc' = [pc EXCEPT ![t] = label]

-----------------------------------------------------------------------------
(* Any entry of the binding fails on thread t and libitb3 records why.     *)
LibraryFails(t) ==
    /\ pc[t] = "idle"
    /\ failures < MaxFailures
    /\ failures' = failures + 1
    /\ \E s \in Sizes : last' = [text |-> failures', size |-> s]
    /\ own' = [own EXCEPT ![t] = failures']
    /\ UNCHANGED <<pc, need, inline, slot, result, held, entry>>

(* Mutant: a message still in the slot is not fetched again. *)
Enter_Cached(t) ==
    /\ pc[t] = "idle"
    /\ IF slot[t].wide THEN UNCHANGED pc ELSE Goto(t, "first")
    /\ entry' = [entry EXCEPT ![t] = own[t]]
    /\ UNCHANGED <<last, failures, own, need, inline, slot, result, held>>

(* The block of the previous fetch is released, and the pointer to it      *)
(* handed out then is no longer good.                                      *)
Enter(t) ==
    /\ pc[t] = "idle"
    /\ Goto(t, "first")
    /\ held' = [held EXCEPT ![t] = IF slot[t].wide THEN @ - 1 ELSE @]
    /\ slot' = [slot EXCEPT ![t] = NoBlock]
    /\ inline' = [inline EXCEPT ![t] = Empty]
    /\ result' = [result EXCEPT ![t] = "none"]
    /\ entry' = [entry EXCEPT ![t] = own[t]]
    /\ UNCHANGED <<last, failures, own, need>>

HandOut(t, storage) == result' = [result EXCEPT ![t] = storage] /\ Goto(t, "idle")

(* The empty string, after a message that could not be had.                *)
GiveUp(t) ==
    /\ inline' = [inline EXCEPT ![t] = Empty]
    /\ HandOut(t, "inline")

(* The first ITB_LastError: the message, or the size it needs.             *)
First(t) ==
    /\ pc[t] = "first"
    /\ \/ /\ last.size <= Inline
          /\ inline' = [inline EXCEPT ![t] = last.text]
          /\ HandOut(t, "inline")
          /\ UNCHANGED need
       \/ /\ last.size > Inline
          /\ need' = [need EXCEPT ![t] = last.size]
          /\ Goto(t, "alloc")
          /\ UNCHANGED <<inline, result>>
    /\ UNCHANGED <<last, failures, own, slot, held, entry>>

Alloc(t) ==
    /\ pc[t] = "alloc"
    /\ \/ /\ held' = [held EXCEPT ![t] = @ + 1]
          /\ Goto(t, "second")
          /\ UNCHANGED <<inline, result>>
       \/ OutOfMemory /\ GiveUp(t) /\ UNCHANGED held
    /\ UNCHANGED <<last, failures, own, need, slot, entry>>

(* The second ITB_LastError, at the size the first one reported: by now    *)
(* another thread may have recorded a message that needs more.             *)
Second(t) ==
    /\ pc[t] = "second"
    /\ \/ /\ last.size <= need[t]
          /\ slot' = [slot EXCEPT ![t] = [wide |-> TRUE, text |-> last.text]]
          /\ HandOut(t, "wide")
          /\ UNCHANGED <<inline, held>>
       \/ /\ last.size > need[t] \/ OutOfMemory
          /\ held' = [held EXCEPT ![t] = @ - 1]
          /\ GiveUp(t)
          /\ UNCHANGED slot
    /\ UNCHANGED <<last, failures, own, need, entry>>

(* Mutant: the slot has no destructor. *)
Exit_Leaks(t) ==
    /\ pc[t] = "idle"
    /\ Goto(t, "exited")
    /\ slot' = [slot EXCEPT ![t] = NoBlock]
    /\ result' = [result EXCEPT ![t] = "none"]
    /\ UNCHANGED <<last, failures, own, need, inline, held, entry>>

(* The thread ends and the destructor of the key takes its block.          *)
Exit(t) ==
    /\ pc[t] = "idle"
    /\ Goto(t, "exited")
    /\ held' = [held EXCEPT ![t] = IF slot[t].wide THEN @ - 1 ELSE @]
    /\ slot' = [slot EXCEPT ![t] = NoBlock]
    /\ result' = [result EXCEPT ![t] = "none"]
    /\ UNCHANGED <<last, failures, own, need, inline, entry>>

Step(t) == LibraryFails(t) \/ Enter(t) \/ First(t) \/ Alloc(t) \/ Second(t) \/ Exit(t)

AllExited == (\A t \in Threads : pc[t] = "exited") /\ UNCHANGED vars

Next == (\E t \in Threads : Step(t)) \/ AllExited
Spec == Init /\ [][Next]_vars

-----------------------------------------------------------------------------
(* Properties. *)

(* The types of the threads, their error slots and their calls.            *)
TypeOK ==
    /\ last \in [text : 0..MaxFailures, size : Sizes \cup {1}]
    /\ failures \in 0..MaxFailures
    /\ own \in [Threads -> 0..MaxFailures]
    /\ pc \in [Threads -> {"idle", "first", "alloc", "second", "exited"}]
    /\ need \in [Threads -> Sizes \cup {0}]
    /\ inline \in [Threads -> 0..MaxFailures]
    /\ slot \in [Threads -> [wide : BOOLEAN, text : 0..MaxFailures]]
    /\ result \in [Threads -> {"none", "inline", "wide"}]
    /\ held \in [Threads -> Nat]
    /\ entry \in [Threads -> 0..MaxFailures]

(* Between fetches a thread holds one wide block at most, the one its slot *)
(* and the pointer it was handed refer to, and none once it has exited,    *)
(* whichever way each fetch ended (itb_status.c, wide storage).            *)
OneWideBlock ==
    \A t \in Threads :
        pc[t] \in {"idle", "exited"} =>
            /\ held[t] = (IF slot[t].wide THEN 1 ELSE 0)
            /\ result[t] = "wide" => slot[t].wide
            /\ pc[t] = "exited" => held[t] = 0

Text(t) == IF result[t] = "wide" THEN slot[t].text ELSE inline[t]

(* A fetch after a failing call returns that failure's message, a newer    *)
(* one of another thread, or the empty string; never an older one left in  *)
(* the buffers by an earlier fetch.                                        *)
NeverStale ==
    \A t \in Threads :
        (pc[t] = "idle" /\ result[t] # "none" /\ Text(t) # Empty) => Text(t) >= entry[t]

(* itb3.h on itb_last_error: empty string when no diagnostic.  So with     *)
(* memory at hand a fetch after a failure of the thread itself is not      *)
(* empty.                                                                  *)
EmptyOnlyIfNone ==
    \A t \in Threads :
        (pc[t] = "idle" /\ result[t] # "none" /\ entry[t] # Empty) => Text(t) # Empty
===============================================================================
