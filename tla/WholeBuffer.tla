----------------------------- MODULE WholeBuffer -----------------------------
(***************************************************************************)
(* What a whole-buffer stream call promises, however it is carried out     *)
(* (include/itb3.h, the one-shot and pump entries): one request is         *)
(* answered by the complete output of the chain for that input, or by a    *)
(* failure that hands out nothing.                                         *)
(*                                                                         *)
(* The input is the sequence of units 1..n.  The chain turns each unit     *)
(* into one unit of output, in order; encryption ends its output with a    *)
(* final unit, which decryption verifies and removes.                      *)
(***************************************************************************)
EXTENDS Integers, Sequences

CONSTANTS MaxInput \* bound of the model: units of the longest input

VARIABLES request, answer

vars == <<request, answer>>

Directions == {"encrypt", "decrypt"}
NoRequest == [dir |-> "none", input |-> 0]
Pending == [st |-> "pending", out |-> << >>]
Failure == [st |-> "error", out |-> << >>]

Final == 0
Trailer(dir) == IF dir = "encrypt" THEN <<Final>> ELSE << >>
Output(r) == [k \in 1..r.input |-> k] \o Trailer(r.dir)
Success(r) == [st |-> "ok", out |-> Output(r)]

Init == request = NoRequest /\ answer = Pending

Ask ==
    /\ request = NoRequest
    /\ request' \in [dir : Directions, input : 0..MaxInput]
    /\ UNCHANGED answer

Answer ==
    /\ request # NoRequest /\ answer = Pending
    /\ answer' \in {Success(request), Failure}
    /\ UNCHANGED request

Forget ==
    /\ answer # Pending
    /\ request' = NoRequest /\ answer' = Pending

Next == Ask \/ Answer \/ Forget
Spec == Init /\ [][Next]_vars
==============================================================================
