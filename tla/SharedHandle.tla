---------------------------- MODULE SharedHandle ----------------------------
(***************************************************************************)
(* What every user of Pipeline handles owes libitb3 (the Limitations of    *)
(* README.md and the ownership paragraph of include/itb3.h): a handle is   *)
(* used only between its opening and its one release, and its keying is    *)
(* rotated only while no cipher call is in flight on it.  Cipher calls of  *)
(* several threads on one handle may overlap freely.                       *)
(***************************************************************************)
CONSTANTS Caller, \* the threads
          Handle  \* every handle the library may ever hand out

VARIABLES live,     \* the handles opened and not yet released
          calls,    \* the cipher calls in flight: <<caller, handle>> pairs
          rotating  \* the handles a rekey is rewriting now

vars == <<live, calls, rotating>>

Busy(h) == \E c \in Caller : <<c, h>> \in calls

-----------------------------------------------------------------------------
Init == live = {} /\ calls = {} /\ rotating = {}

(* init / load hand out a handle nobody holds. *)
Open(h) ==
    /\ h \notin live
    /\ live' = live \cup {h}
    /\ UNCHANGED <<calls, rotating>>

(* An encrypt or decrypt, or a stream session from begin to free. *)
BeginCall(c, h) ==
    /\ h \in live \ rotating
    /\ calls' = calls \cup {<<c, h>>}
    /\ UNCHANGED <<live, rotating>>

EndCall(c, h) ==
    /\ <<c, h>> \in calls
    /\ calls' = calls \ {<<c, h>>}
    /\ UNCHANGED <<live, rotating>>

BeginRekey(h) ==
    /\ h \in live \ rotating
    /\ ~Busy(h)
    /\ rotating' = rotating \cup {h}
    /\ UNCHANGED <<live, calls>>

EndRekey(h) ==
    /\ h \in rotating
    /\ rotating' = rotating \ {h}
    /\ UNCHANGED <<live, calls>>

Free(h) ==
    /\ h \in live \ rotating
    /\ ~Busy(h)
    /\ live' = live \ {h}
    /\ UNCHANGED <<calls, rotating>>

(* \E over live' and not Handle: the new handle is one that is live after  *)
(* the step, so that TLC can evaluate the disjunct for an infinite Handle. *)
Next ==
    \/ \E h \in live' : h \in Handle /\ Open(h)
    \/ \E c \in Caller, h \in live : BeginCall(c, h)
    \/ \E call \in calls : EndCall(call[1], call[2])
    \/ \E h \in live : BeginRekey(h) \/ Free(h)
    \/ \E h \in rotating : EndRekey(h)

Spec == Init /\ [][Next]_vars
=============================================================================
