------------------------------- MODULE MCParts -------------------------------
(***************************************************************************)
(* The parts of the binding and of the stress harness that share no state  *)
(* with one another, for TLC: the diagnostic of a thread (LastError), the  *)
(* builder of the opts (OptsBuilder), the capacity of a message call       *)
(* (OutCap), the conversions of sizes and durations (Sizes), the           *)
(* plaintexts of the workers (Payload) and the pool figures (PoolFigures). *)
(*                                                                         *)
(* A behaviour exercises one of them and leaves the others in an initial   *)
(* state: as they have no variable in common, nothing is lost by not       *)
(* interleaving them, and the state space is a sum and no product.         *)
(***************************************************************************)
EXTENDS LastError, OptsBuilder, OutCap, Sizes, Payload, PoolFigures

VARIABLE part \* the part this behaviour exercises

(* Strings: an empty one, a plain one, one of separators, one that looks   *)
(* like an escape already, and one whose encoding, twice, does not fit.    *)
MCStrings ==
    {<< >>, <<"a">>, <<"&", "=">>, <<"%", "2", "6">>, [i \in 1..(SizeMax - 3) \div 3 |-> " "]}

PayloadRest == PayloadInit /\ mode = "pattern-zero" /\ seed = 0 /\ size = 1
PoolRest == PoolInit /\ starters = << >>

MCInit ==
    /\ part \in {"diagnostic", "opts", "capacity", "conversions", "payloads", "figures"}
    /\ Init /\ OptsInit /\ CapInit /\ SizesInit
    /\ IF part = "payloads" THEN PayloadInit ELSE PayloadRest
    /\ IF part = "figures" THEN PoolInit ELSE PoolRest

bindingVars == <<vars, optsVars, capVars>>
harnessVars == <<sizesVars, payloadVars, poolVars>>

MCNext ==
    /\ UNCHANGED part
    /\ \/ /\ UNCHANGED harnessVars
          /\ \/ part = "diagnostic" /\ Next /\ UNCHANGED <<optsVars, capVars>>
             \/ part = "opts" /\ OptsNext /\ UNCHANGED <<vars, capVars>>
             \/ part = "capacity" /\ CapNext /\ UNCHANGED <<vars, optsVars>>
       \/ /\ UNCHANGED bindingVars
          /\ \/ part = "conversions" /\ SizesNext /\ UNCHANGED <<payloadVars, poolVars>>
             \/ part = "payloads" /\ PayloadNext /\ UNCHANGED <<sizesVars, poolVars>>
             \/ part = "figures" /\ PoolNext /\ UNCHANGED <<sizesVars, payloadVars>>

MCSpec == MCInit /\ [][MCNext]_<<part, bindingVars, harnessVars>>
===============================================================================
