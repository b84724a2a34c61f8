------------------------------- MODULE OutCap -------------------------------
(***************************************************************************)
(* itb_internal_out_cap (itb_pipeline.c): the capacity of the first        *)
(* attempt of a message call, max(floor, payload * 5/4 + floor), computed  *)
(* in a size_t that wraps around.                                          *)
(***************************************************************************)
EXTENDS Integers

CONSTANTS
    SizeTMax, \* SIZE_MAX
    FloorCap  \* 131072

ASSUME OutCapAssumption ==
    /\ SizeTMax \in Nat
    /\ FloorCap \in 1..SizeTMax

VARIABLES
    payload, \* the length the call was made with
    outCap   \* the capacity computed for it, -1 before the first call

capVars == <<payload, outCap>>

SizeT == 0..SizeTMax

(* A sum of two sizes in a size_t. *)
Sum(m, n) == IF m + n > SizeTMax THEN m + n - (SizeTMax + 1) ELSE m + n

Quarter(n) == n \div 4

(* Mutant: only the second of the two sums is checked. *)
Wraps_SecondOnly(n) == LET grown == Sum(n, Quarter(n)) IN Sum(grown, FloorCap) < grown

(* A sum that is smaller than one of its terms has wrapped around. *)
Wraps(n) ==
    LET grown == Sum(n, Quarter(n)) IN grown < n \/ Sum(grown, FloorCap) < grown

Cap(n) ==
    IF Wraps(n) THEN n
    ELSE LET grown == Sum(Sum(n, Quarter(n)), FloorCap)
         IN IF grown > FloorCap THEN grown ELSE FloorCap

-----------------------------------------------------------------------------
CapInit == payload = 0 /\ outCap = -1

OutCap(n) == payload' = n /\ outCap' = Cap(n)

CapNext == \E n \in SizeT : OutCap(n)

CapSpec == CapInit /\ [][CapNext]_capVars

-----------------------------------------------------------------------------
(* Properties. *)

(* The first attempt has room for the payload and is a size: the guards    *)
(* are exact, no sum that wrapped is used, and the expansion of five       *)
(* quarters and the floor is granted whenever a size_t can hold it.        *)
CapSound ==
    outCap # -1 =>
        /\ outCap \in payload..SizeTMax
        /\ IF payload + Quarter(payload) + FloorCap <= SizeTMax
           THEN outCap = payload + Quarter(payload) + FloorCap
           ELSE outCap = payload
===============================================================================
