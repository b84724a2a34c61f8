--------------------------- MODULE StreamPumpProofs ---------------------------
(***************************************************************************)
(* Proofs about the pumps, for inputs of any length, any size of slice and *)
(* of size_t, any number of calls and every failure: a pump implements the *)
(* whole-buffer call (WholeBuffer), leaves nothing behind, and never       *)
(* writes outside its blocks.                                              *)
(***************************************************************************)
EXTENDS StreamPump, TLAPS, SequenceTheorems, WellFoundedInduction

-----------------------------------------------------------------------------
(* Least elements, and stretches of the stream. *)

(* A nonempty set of naturals has a least element, the one Min chooses.    *)
LEMMA MinOfNaturals ==
    ASSUME NEW S, S \subseteq Nat, S # {}
    PROVE  Min(S) \in S
<1>1. PICK x \in S : \A y \in S : ~(<<y, x>> \in OpToRel(<, Nat))
  BY WFMin, NatLessThanWellFounded
<1>2. ASSUME NEW y \in S PROVE x <= y
  <2>1. y < x => <<y, x>> \in OpToRel(<, Nat)
    BY Zenon DEF OpToRel
  <2>2. ~(y < x)
    BY <1>1, <2>1, Zenon
  <2>3. x \in Nat /\ y \in Nat
    OBVIOUS
  <2> QED
    BY <2>2, <2>3
<1> QED
  BY <1>2 DEF Min

(* Unit k of the output for an input of i units, the first n of them, and  *)
(* the m that follow those.                                                *)
Unit(i, k) == IF k <= i THEN k ELSE Whole!Final
Units(i, n) == [k \in 1..n |-> Unit(i, k)]
Stretch(i, n, m) == [k \in 1..m |-> Unit(i, n + k)]
OutputLen(i, d) == IF d = "encrypt" THEN i + 1 ELSE i

LEMMA StretchType ==
    ASSUME NEW i \in Nat, NEW n \in Nat, NEW m \in Nat
    PROVE  Stretch(i, n, m) \in Seq(Nat) /\ Len(Stretch(i, n, m)) = m
<1>1. \A k \in Nat : Unit(i, k) \in Nat
  BY DEF Unit, Whole!Final
<1>2. Stretch(i, n, m) \in [1..m -> Nat]
  BY <1>1 DEF Stretch
<1> QED
  BY <1>2 DEF Seq

LEMMA UnitsType ==
    ASSUME NEW i \in Nat, NEW n \in Nat
    PROVE  Units(i, n) \in Seq(Nat) /\ Len(Units(i, n)) = n
<1>1. \A k \in Nat : Unit(i, k) \in Nat
  BY DEF Unit, Whole!Final
<1>2. Units(i, n) \in [1..n -> Nat]
  BY <1>1 DEF Units
<1> QED
  BY <1>2 DEF Seq

(* What was produced and the stretch that follows make what is produced.   *)
LEMMA UnitsConcat ==
    ASSUME NEW i \in Nat, NEW n \in Nat, NEW m \in Nat
    PROVE  Units(i, n) \o Stretch(i, n, m) = Units(i, n + m)
<1>1. /\ Units(i, n) \in Seq(Nat) /\ Len(Units(i, n)) = n
      /\ Stretch(i, n, m) \in Seq(Nat) /\ Len(Stretch(i, n, m)) = m
      /\ Units(i, n + m) \in Seq(Nat) /\ Len(Units(i, n + m)) = n + m
  <2>1. n + m \in Nat
    OBVIOUS
  <2> QED
    BY <2>1, StretchType, UnitsType
<1>2. /\ Units(i, n) \o Stretch(i, n, m) \in Seq(Nat)
      /\ Len(Units(i, n) \o Stretch(i, n, m)) = n + m
  BY <1>1, ConcatProperties
<1>3. ASSUME NEW k \in 1..(n + m)
      PROVE  (Units(i, n) \o Stretch(i, n, m))[k] = Units(i, n + m)[k]
  <2>1. (Units(i, n) \o Stretch(i, n, m))[k]
            = IF k <= n THEN Units(i, n)[k] ELSE Stretch(i, n, m)[k - n]
    <3>1. k \in 1..(Len(Units(i, n)) + Len(Stretch(i, n, m)))
      BY <1>1
    <3>2. \A j \in 1..(Len(Units(i, n)) + Len(Stretch(i, n, m))) :
              (Units(i, n) \o Stretch(i, n, m))[j]
                  = IF j <= Len(Units(i, n)) THEN Units(i, n)[j]
                    ELSE Stretch(i, n, m)[j - Len(Units(i, n))]
      BY <1>1, ConcatProperties, Zenon
    <3> QED
      BY <1>1, <3>1, <3>2
  <2> QED
    BY <2>1 DEF Units, Stretch
<1> QED
  BY <1>1, <1>2, <1>3, SeqEqual

(* A read takes the stretch that follows what was taken.                   *)
LEMMA UnitsSub ==
    ASSUME NEW i \in Nat, NEW l \in Nat, NEW t \in Nat, NEW n \in Nat, t + n <= l
    PROVE  SubSeq(Units(i, l), t + 1, t + n) = Stretch(i, t, n)
BY DEF Units, Stretch

(* A slice of the input is a stretch of the output.                        *)
LEMMA SliceIsStretch ==
    ASSUME NEW i \in Nat, NEW n \in Nat, NEW m \in Nat, n + m <= i
    PROVE  [k \in 1..m |-> n + k] = Stretch(i, n, m)
<1>1. ASSUME NEW k \in 1..m PROVE n + k = Unit(i, n + k)
  BY DEF Unit, Whole!Final
<1> QED
  BY <1>1 DEF Stretch

(* What the chain makes of the first n units, of all of them once the      *)
(* input has ended.                                                        *)
LEMMA TrailerIsStretch ==
    ASSUME NEW i \in Nat, NEW d \in Whole!Directions
    PROVE  Units(i, i) \o Whole!Trailer(d) = Units(i, OutputLen(i, d))
<1>1. CASE d = "encrypt"
  <2>1. Whole!Trailer(d) = Stretch(i, i, 1)
    BY <1>1 DEF Whole!Trailer, Whole!Final, Stretch, Unit
  <2> QED
    BY <1>1, <2>1, UnitsConcat DEF OutputLen
<1>2. CASE d # "encrypt"
  <2>1. Whole!Trailer(d) = << >> /\ Units(i, i) \in Seq(Nat)
    BY <1>2, UnitsType DEF Whole!Trailer
  <2> QED
    BY <1>2, <2>1, ConcatEmptySeq DEF OutputLen
<1> QED
  BY <1>1, <1>2

LEMMA OutputIsUnits ==
    ASSUME NEW i \in Nat, NEW d \in Whole!Directions
    PROVE  Whole!Output([dir |-> d, input |-> i]) = Units(i, OutputLen(i, d))
<1>1. [k \in 1..i |-> k] = Units(i, i)
  BY DEF Units, Unit
<1> QED
  BY <1>1, TrailerIsStretch DEF Whole!Output

-----------------------------------------------------------------------------
(* The inductive invariant. *)

WorkPc == {"write", "drain", "append", "final"}
OpenPc == {"scratch", "close"} \cup WorkPc
Pcs == {"idle", "begin", "returned"} \cup OpenPc

PumpTypeOK ==
    /\ reuse \in BOOLEAN /\ dir \in Whole!Directions /\ input \in 0..MaxInput
    /\ pc \in Pcs /\ st \in {"ok", "error"} /\ offset \in Nat /\ scratch \in BOOLEAN
    /\ chunk \in Seq(Nat) /\ fin \in BOOLEAN /\ acc \in Seq(Nat) /\ cap \in 0..SizeMax
    /\ session \in {"closed", "open"} /\ ended \in BOOLEAN /\ broken \in BOOLEAN
    /\ spooled \in Nat /\ taken \in Nat

(* What the chain can have produced. *)
Producible == IF ended THEN OutputLen(input, dir) ELSE offset

(* A pump that works has fed a first part of the input, ends it when it is *)
(* all fed, and has taken no more than was spooled.                        *)
FlowInv ==
    /\ pc = "scratch" => fed = << >> /\ ~ended /\ spooled = 0 /\ taken = 0
    /\ pc \in WorkPc =>
           /\ offset <= input /\ fed = Units(input, offset)
           /\ ended => offset = input
           /\ taken <= spooled /\ spooled <= Producible
    /\ pc \in {"write", "drain"} => ~ended
    /\ pc = "final" => ended

(* What was taken is in the accumulator and, before an append, the chunk;  *)
(* a pump that is through has taken everything.                            *)
TakenInv ==
    /\ pc \in {"write", "drain", "final"} => acc = Units(input, taken)
    /\ pc = "append" =>
           /\ acc = Units(input, taken - Len(chunk)) /\ Len(chunk) <= taken
           /\ chunk = Stretch(input, taken - Len(chunk), Len(chunk))
           /\ fin => ended /\ taken = Producible
    /\ pc = "close" /\ st = "ok" => acc = Units(input, OutputLen(input, dir))

(* What the call holds, and what it has answered. *)
Success == [st |-> "ok", out |-> Units(input, OutputLen(input, dir))]

HeldInv ==
    /\ session = "open" <=> pc \in OpenPc
    /\ scratch => pc \in WorkPc \cup {"close"}
    /\ Len(acc) <= cap /\ Len(chunk) <= PumpBuf
    /\ ~reuse /\ pc \in {"idle", "begin", "scratch"} => cap = 0
    /\ pc \in {"begin"} \cup OpenPc => result = Whole!Failure
    /\ pc = "returned" =>
           /\ result \in {Whole!Failure, Success}
           /\ reuse \/ (cap > 0 <=> result = Success)

PumpInv == PumpTypeOK /\ FlowInv /\ TakenInv /\ HeldInv

LEMMA PumpInit == Init => PumpInv
<1> SUFFICES ASSUME Init PROVE PumpInv
  OBVIOUS
<1>1. PumpTypeOK
  <2>1. reuse \in BOOLEAN
    BY PumpAssumption, Zenon DEF Init
  <2>2. acc \in Seq(Nat) /\ chunk \in Seq(Nat)
    BY DEF Init
  <2>3. input \in 0..MaxInput /\ cap \in 0..SizeMax
    BY PumpAssumption DEF Init
  <2> QED
    BY <2>1, <2>2, <2>3 DEF Init, PumpTypeOK, Pcs, Whole!Directions
<1>2. FlowInv /\ TakenInv
  BY DEF Init, FlowInv, TakenInv, WorkPc
<1>3. HeldInv
  BY PumpAssumption DEF Init, HeldInv, OpenPc, WorkPc
<1> QED
  BY <1>1, <1>2, <1>3 DEF PumpInv

(* The chain moves what it was given, or breaks. *)
LEMMA ChainOutputLen ==
    ASSUME PumpInv, pc \in {"scratch"} \cup WorkPc
    PROVE  /\ pc = "scratch" => Len(ChainOutput) = 0
           /\ pc \in WorkPc => /\ ChainOutput = Units(input, Producible)
                               /\ Len(ChainOutput) = Producible /\ Producible \in Nat
<1>1. CASE pc = "scratch"
  <2>1. ChainOutput = << >> \o << >>
    BY <1>1 DEF PumpInv, FlowInv, ChainOutput
  <2> QED
    BY <1>1, <2>1 DEF WorkPc
<1>2. CASE pc \in WorkPc /\ ended
  <2>1. input \in Nat /\ OutputLen(input, dir) \in Nat
    BY <1>2, PumpAssumption DEF PumpInv, PumpTypeOK, OutputLen
  <2>2. ChainOutput = Units(input, input) \o Whole!Trailer(dir)
    BY <1>2 DEF PumpInv, FlowInv, ChainOutput
  <2>3. ChainOutput = Units(input, OutputLen(input, dir))
    BY <2>1, <2>2, TrailerIsStretch DEF PumpInv, PumpTypeOK
  <2> QED
    BY <1>2, <2>1, <2>3, UnitsType DEF Producible, WorkPc
<1>3. CASE pc \in WorkPc /\ ~ended
  <2>1. input \in Nat /\ offset \in Nat
    BY <1>3, PumpAssumption DEF PumpInv, PumpTypeOK
  <2>2. Units(input, offset) \in Seq(Nat) /\ Len(Units(input, offset)) = offset
    BY <2>1, UnitsType
  <2>3. ChainOutput = Units(input, offset)
    BY <1>3, <2>2, ConcatEmptySeq DEF PumpInv, FlowInv, ChainOutput
  <2> QED
    BY <1>3, <2>1, <2>2, <2>3 DEF Producible, WorkPc
<1> QED
  BY <1>1, <1>2, <1>3

LEMMA ChainStep == ASSUME PumpInv, Chain PROVE PumpInv'
<1>1. CASE ChainProduces
  <2>1. PumpTypeOK' /\ TakenInv' /\ HeldInv'
    BY <1>1 DEF ChainProduces, PumpInv, PumpTypeOK, TakenInv, HeldInv, Success, Producible,
        callVars, accVars, readVars
  <2>2. pc \in OpenPc
    BY <1>1 DEF ChainProduces, PumpInv, HeldInv
  <2>3. FlowInv'
    <3>1. CASE pc = "scratch"
      BY <1>1, <3>1, ChainOutputLen DEF ChainProduces, PumpInv, PumpTypeOK, FlowInv
    <3>2. CASE pc \in WorkPc
      <4>1. spooled + 1 <= Producible
        BY <1>1, <3>2, ChainOutputLen DEF ChainProduces, PumpInv, PumpTypeOK
      <4> QED
        BY <1>1, <3>2, <4>1 DEF ChainProduces, PumpInv, PumpTypeOK, FlowInv, Producible, WorkPc,
            callVars, accVars, readVars
    <3>3. CASE pc = "close"
      BY <1>1, <3>3 DEF ChainProduces, FlowInv, WorkPc
    <3> QED
      BY <2>2, <3>1, <3>2, <3>3 DEF OpenPc
  <2> QED
    BY <2>1, <2>3 DEF PumpInv
<1>2. CASE ChainBreaks
  BY <1>2 DEF ChainBreaks, PumpInv, PumpTypeOK, FlowInv, TakenInv, HeldInv, Success, Producible,
      callVars, accVars, readVars
<1> QED
  BY <1>1, <1>2 DEF Chain

LEMMA CallStep == ASSUME PumpInv, Call PROVE PumpInv'
BY DEF Call, PumpInv, PumpTypeOK, FlowInv, TakenInv, HeldInv, Pcs, OpenPc, WorkPc,
    accVars, readVars, sessionVars

LEMMA BeginStep == ASSUME PumpInv, Begin PROVE PumpInv'
<1> USE DEF PumpInv, PumpTypeOK, FlowInv, TakenInv, HeldInv, Pcs, OpenPc, WorkPc,
    callVars, accVars, readVars, sessionVars
<1>1. CASE pc' = "scratch"
  <2>1. /\ session' = "open" /\ fed' = << >> /\ ended' = FALSE
        /\ spooled' = 0 /\ taken' = 0 /\ broken' = FALSE
    BY <1>1 DEF Begin
  <2>2. PumpTypeOK' /\ HeldInv'
    BY <1>1, <2>1 DEF Begin
  <2>3. FlowInv' /\ TakenInv'
    BY <1>1, <2>1
  <2> QED
    BY <2>2, <2>3
<1>2. CASE pc' = "returned"
  BY <1>2 DEF Begin, Success, Whole!Failure
<1> QED
  BY <1>1, <1>2 DEF Begin

LEMMA ScratchStep == ASSUME PumpInv, Scratch PROVE PumpInv'
<1> USE PumpAssumption DEF PumpInv, PumpTypeOK, Pcs, OpenPc, WorkPc, callVars, readVars, sessionVars
<1>1. Units(input', 0) = << >>
  BY DEF Units
<1>2. CASE pc' = "write"
  <2>1. acc' = << >> /\ input' = input /\ offset' = 0 /\ fed' = << >> /\ ~ended'
    BY <1>2 DEF Scratch, Fail, FlowInv
  <2>2. PumpTypeOK' /\ HeldInv'
    BY <1>2, <2>1 DEF Scratch, Fail, HeldInv
  <2>3. FlowInv'
    BY <1>1, <1>2, <2>1 DEF Scratch, Fail, FlowInv, Producible
  <2>4. TakenInv'
    BY <1>1, <1>2, <2>1 DEF Scratch, Fail, FlowInv, TakenInv
  <2> QED
    BY <2>2, <2>3, <2>4
<1>3. CASE pc' = "close"
  BY <1>3 DEF Scratch, Fail, FlowInv, TakenInv, HeldInv
<1> QED
  BY <1>2, <1>3 DEF Scratch, Fail

(* A slice goes in, the next stretch of the input. *)
LEMMA WriteStep == ASSUME PumpInv, WriteSlice PROVE PumpInv'
<1> DEFINE left == input - offset
           slice == IF left > PumpBuf THEN PumpBuf ELSE left
<1>0. /\ input \in Nat /\ offset \in Nat /\ offset < input /\ pc = "write"
      /\ fed = Units(input, offset) /\ ~ended /\ taken <= spooled /\ spooled <= offset
      /\ acc = Units(input, taken)
  BY PumpAssumption DEF PumpInv, PumpTypeOK, FlowInv, TakenInv, Producible, WriteSlice, WorkPc
<1>1. slice \in Nat /\ offset + slice <= input
  BY <1>0, PumpAssumption
<1>2. CASE pc' = "drain"
  <2>1. /\ fed' = fed \o [k \in 1..slice |-> offset + k] /\ offset' = offset + slice
        /\ UNCHANGED <<session, ended, spooled, taken, broken>> /\ UNCHANGED st
        /\ UNCHANGED <<callVars, scratch, readVars, accVars>>
    BY <1>2 DEF WriteSlice, Write, Fail
  <2> HIDE DEF slice
  <2>2. fed' = Units(input, offset + slice)
    <3>1. [k \in 1..slice |-> offset + k] = Stretch(input, offset, slice)
      BY <1>0, <1>1, SliceIsStretch
    <3>2. Units(input, offset) \o Stretch(input, offset, slice) = Units(input, offset + slice)
      BY <1>0, <1>1, UnitsConcat
    <3> QED
      BY <1>0, <2>1, <3>1, <3>2
  <2>3. PumpTypeOK' /\ HeldInv'
    BY <1>0, <1>1, <1>2, <2>1
    DEF PumpInv, PumpTypeOK, HeldInv, Success, Pcs, OpenPc, WorkPc, callVars, accVars, readVars
  <2>4. FlowInv'
    <3>1. Producible' = offset + slice /\ spooled' <= Producible'
      BY <1>0, <1>1, <2>1 DEF PumpInv, PumpTypeOK, Producible
    <3>2. input' = input /\ fed' = Units(input', offset')
      BY <2>1, <2>2 DEF callVars
    <3> QED
      BY <1>0, <1>1, <1>2, <2>1, <3>1, <3>2 DEF FlowInv, WorkPc
  <2>5. TakenInv'
    BY <1>0, <1>2, <2>1 DEF TakenInv, callVars, accVars
  <2> QED
    BY <2>3, <2>4, <2>5 DEF PumpInv
<1>3. CASE pc' = "close"
  BY <1>3 DEF WriteSlice, Fail, PumpInv, PumpTypeOK, FlowInv, TakenInv, HeldInv, Pcs, OpenPc, WorkPc,
      callVars, accVars, readVars, sessionVars
<1> QED
  BY <1>2, <1>3 DEF WriteSlice, Fail

LEMMA EndStep == ASSUME PumpInv, End PROVE PumpInv'
<1> USE DEF PumpInv, PumpTypeOK, Pcs, OpenPc, WorkPc, callVars, accVars, readVars, sessionVars
<1>0. input \in Nat /\ pc = "write" /\ offset \in Nat /\ offset >= input /\ offset <= input
  BY PumpAssumption DEF End, FlowInv
<1>1. CASE pc' = "final"
  <2>1. /\ ended' = TRUE /\ UNCHANGED <<session, fed, spooled, taken, broken, st>>
        /\ UNCHANGED <<callVars, offset, scratch, readVars, accVars>>
    BY <1>1 DEF End, EndInput, Fail
  <2>2. PumpTypeOK' /\ HeldInv' /\ TakenInv'
    BY <1>0, <1>1, <2>1 DEF HeldInv, TakenInv, Success
  <2>3. FlowInv'
    BY <1>0, <1>1, <2>1 DEF FlowInv, Producible, OutputLen
  <2> QED
    BY <2>2, <2>3
<1>2. CASE pc' = "close"
  BY <1>2 DEF End, Fail, FlowInv, TakenInv, HeldInv
<1> QED
  BY <1>1, <1>2 DEF End, Fail

(* What a read returns is the stretch that follows what was taken.         *)
LEMMA ReadReturns ==
    ASSUME PumpInv, Read, pc \in {"drain", "final"}
    PROVE  /\ chunk' \in Seq(Nat) /\ Len(chunk') <= PumpBuf
           /\ taken' = taken + Len(chunk') /\ taken' <= spooled
           /\ chunk' = Stretch(input, taken, Len(chunk'))
           /\ fin' \in BOOLEAN /\ (fin' => ended /\ taken' = Producible)
<1>1. /\ ChainOutput = Units(input, Producible) /\ Len(ChainOutput) = Producible
      /\ Producible \in Nat
  BY ChainOutputLen DEF WorkPc
<1>2. PICK n \in 0..PumpBuf :
          /\ n <= Available
          /\ chunk' = SubSeq(ChainOutput, taken + 1, taken + n)
          /\ taken' = taken + n
          /\ fin' \in {f \in BOOLEAN : /\ f => ended /\ taken' = Len(ChainOutput)
                                       /\ (n = 0 /\ ended) => f}
  BY DEF Read
<1>3. /\ n \in Nat /\ taken \in Nat /\ input \in Nat /\ spooled \in Nat /\ PumpBuf \in Nat
      /\ taken + n <= spooled /\ spooled <= Producible
  BY <1>2, PumpAssumption DEF PumpInv, PumpTypeOK, FlowInv, Available, WorkPc
<1>4. chunk' = Stretch(input, taken, n)
  BY <1>1, <1>2, <1>3, UnitsSub
<1>5. chunk' \in Seq(Nat) /\ Len(chunk') = n
  BY <1>3, <1>4, StretchType
<1>6. fin' \in BOOLEAN /\ (fin' => ended /\ taken' = Producible)
  <2>1. fin' \in {f \in BOOLEAN : /\ f => ended /\ taken' = Len(ChainOutput)
                                  /\ (n = 0 /\ ended) => f}
    BY <1>2, Zenon
  <2>2. fin' \in BOOLEAN /\ (fin' => ended /\ taken' = Len(ChainOutput))
    BY <2>1
  <2> QED
    BY <1>1, <2>2
<1>7. taken' = taken + Len(chunk') /\ taken' <= spooled /\ Len(chunk') <= PumpBuf
  BY <1>2, <1>3, <1>5
<1> QED
  BY <1>4, <1>5, <1>6, <1>7

LEMMA DrainStep == ASSUME PumpInv, DrainRead PROVE PumpInv'
<1> USE DEF PumpInv, PumpTypeOK, Pcs, OpenPc, WorkPc, callVars, accVars, readVars, sessionVars
<1>1. CASE Read /\ pc' = (IF chunk' = << >> THEN "write" ELSE "append") /\ UNCHANGED st
  <2>1. /\ chunk' \in Seq(Nat) /\ Len(chunk') <= PumpBuf
        /\ taken' = taken + Len(chunk') /\ taken' <= spooled
        /\ chunk' = Stretch(input, taken, Len(chunk'))
        /\ fin' \in BOOLEAN /\ ~fin'
    BY <1>1, ReadReturns DEF DrainRead, FlowInv
  <2>2. /\ pc = "drain" /\ UNCHANGED <<callVars, offset, scratch, accVars>>
        /\ UNCHANGED <<session, fed, ended, spooled, broken>>
    BY <1>1 DEF DrainRead, Read
  <2>3. Len(chunk') \in Nat /\ taken' \in Nat /\ taken' - Len(chunk') = taken
    BY <2>1
  <2>4. PumpTypeOK' /\ HeldInv'
    BY <1>1, <2>1, <2>2, <2>3 DEF HeldInv, Success
  <2>5. FlowInv'
    BY <1>1, <2>1, <2>2 DEF FlowInv, Producible
  <2>6. TakenInv'
    <3>1. chunk' = << >> => taken' = taken
      BY <2>1
    <3> QED
      BY <1>1, <2>1, <2>2, <2>3, <3>1 DEF TakenInv
  <2> QED
    BY <2>4, <2>5, <2>6
<1>2. CASE broken /\ Fail /\ UNCHANGED <<readVars, sessionVars>>
  BY <1>2 DEF DrainRead, Fail, FlowInv, TakenInv, HeldInv
<1> QED
  BY <1>1, <1>2 DEF DrainRead

LEMMA FinalStep == ASSUME PumpInv, FinalRead PROVE PumpInv'
<1> USE DEF PumpInv, PumpTypeOK, Pcs, OpenPc, WorkPc, callVars, accVars, readVars, sessionVars
<1>1. CASE Read /\ pc' = "append" /\ UNCHANGED st
  <2>1. /\ chunk' \in Seq(Nat) /\ Len(chunk') <= PumpBuf
        /\ taken' = taken + Len(chunk') /\ taken' <= spooled
        /\ chunk' = Stretch(input, taken, Len(chunk'))
        /\ fin' \in BOOLEAN /\ (fin' => ended /\ taken' = Producible)
    BY <1>1, ReadReturns DEF FinalRead
  <2>2. /\ pc = "final" /\ UNCHANGED <<callVars, offset, scratch, accVars>>
        /\ UNCHANGED <<session, fed, ended, spooled, broken>>
    BY <1>1 DEF FinalRead, Read
  <2>3. Len(chunk') \in Nat /\ taken' \in Nat /\ taken' - Len(chunk') = taken
    BY <2>1
  <2>4. PumpTypeOK' /\ HeldInv'
    BY <1>1, <2>1, <2>2, <2>3 DEF HeldInv, Success
  <2>5. FlowInv'
    BY <1>1, <2>1, <2>2 DEF FlowInv, Producible
  <2>6. TakenInv'
    BY <1>1, <2>1, <2>2, <2>3 DEF TakenInv, Producible
  <2> QED
    BY <2>4, <2>5, <2>6
<1>2. CASE broken /\ Fail /\ UNCHANGED <<readVars, sessionVars>>
  BY <1>2 DEF FinalRead, Fail, FlowInv, TakenInv, HeldInv
<1> QED
  BY <1>1, <1>2 DEF FinalRead

(* The capacity an append chooses is large enough, and a size_t.           *)
LEMMA EnoughIsEnough ==
    ASSUME cap \in 0..SizeMax, NEW need \in Nat, Enough(need) # {}
    PROVE  Min(Enough(need)) \in 0..SizeMax /\ need <= Min(Enough(need)) /\ cap <= Min(Enough(need))
<1>1. Enough(need) \subseteq 0..SizeMax /\ \A c \in Enough(need) : need <= c /\ cap <= c
  <2>1. CASE need <= cap
    BY <2>1, PumpAssumption DEF Enough
  <2>2. CASE ~(need <= cap)
    BY <2>2, PumpAssumption DEF Enough, Doublings
  <2> QED
    BY <2>1, <2>2
<1>2. Min(Enough(need)) \in Enough(need)
  BY <1>1, MinOfNaturals, PumpAssumption
<1> QED
  BY <1>1, <1>2

(* The accumulator takes the stretch that was read; the pump is through    *)
(* after the stretch that finishes the output.                             *)
LEMMA AppendStep == ASSUME PumpInv, AccAppend PROVE PumpInv'
<1> USE DEF PumpInv, PumpTypeOK, Pcs, OpenPc, WorkPc, callVars, readVars, sessionVars
<1> DEFINE need == Len(acc) + Len(chunk)
<1>0. /\ pc = "append" /\ UNCHANGED <<callVars, offset, scratch, readVars, sessionVars>>
      /\ input \in Nat /\ Len(chunk) \in Nat /\ Len(acc) \in Nat /\ need \in Nat
      /\ taken \in Nat /\ cap \in 0..SizeMax
  BY PumpAssumption DEF AccAppend
<1>1. CASE /\ Enough(need) # {} /\ acc' = acc \o chunk /\ cap' = Min(Enough(need))
           /\ pc' = AfterAppend /\ UNCHANGED st
  <2>1. cap' \in 0..SizeMax /\ need <= cap' /\ cap <= cap'
    <3> HIDE DEF need
    <3> QED
      BY <1>0, <1>1, EnoughIsEnough
  <2>2. acc' \in Seq(Nat) /\ Len(acc') = need
    BY <1>1, ConcatProperties
  <2>3. acc' = Units(input, taken)
    <3>1. taken - Len(chunk) \in Nat /\ taken - Len(chunk) + Len(chunk) = taken
      BY <1>0 DEF TakenInv
    <3>2. \A n, m \in Nat : Units(input, n) \o Stretch(input, n, m) = Units(input, n + m)
      BY <1>0, UnitsConcat
    <3> QED
      BY <1>0, <1>1, <3>1, <3>2 DEF TakenInv
  <2>4. /\ pc' \in {"drain", "final", "close"}
        /\ pc' = "drain" => ~ended
        /\ pc' # "drain" => ended
        /\ pc' = "close" => fin
    BY <1>1 DEF AfterAppend
  <2>5. PumpTypeOK'
    BY <1>0, <1>1, <2>1, <2>2, <2>4
  <2>6. HeldInv'
    BY <1>0, <1>1, <2>1, <2>2, <2>4 DEF HeldInv, Success
  <2>7. FlowInv'
    BY <1>0, <1>1, <2>4 DEF FlowInv, Producible
  <2>8. TakenInv'
    <3>1. pc' = "close" => taken = OutputLen(input, dir)
      BY <1>0, <2>4 DEF TakenInv, Producible
    <3> QED
      BY <1>0, <2>3, <2>4, <3>1 DEF TakenInv
  <2> QED
    BY <2>5, <2>6, <2>7, <2>8
<1>2. CASE Fail /\ UNCHANGED accVars
  BY <1>0, <1>2 DEF Fail, accVars, FlowInv, TakenInv, HeldInv
<1> QED
  BY <1>1, <1>2 DEF AccAppend

LEMMA CloseStep == ASSUME PumpInv, Close PROVE PumpInv'
<1> USE DEF PumpInv, PumpTypeOK, Pcs, OpenPc, WorkPc, readVars, accVars
<1>0. /\ pc = "close" /\ pc' = "returned" /\ session' = "closed" /\ scratch' = FALSE
      /\ UNCHANGED <<reuse, calls, dir, input, st, offset, readVars, fed, ended, spooled, taken, broken>>
  BY DEF Close
<1>1. FlowInv' /\ TakenInv'
  BY <1>0 DEF FlowInv, TakenInv
<1>2. Whole!Failure # Success
  BY DEF Whole!Failure, Success
<1>3. CASE st = "ok" /\ Succeed
  <2>1. result' = Success
    BY <1>0, <1>3 DEF Succeed, TakenInv, Success
  <2>2. Success' = Success
    BY <1>0 DEF Success
  <2>3. acc' = acc /\ Len(acc) <= cap' /\ cap' \in 0..SizeMax /\ (reuse \/ cap' > 0)
    BY <1>3, PumpAssumption DEF Succeed, HeldInv
  <2> HIDE DEF Succeed
  <2>4. PumpTypeOK'
    BY <1>0, <2>3
  <2>5. HeldInv'
    BY <1>0, <2>1, <2>2, <2>3 DEF HeldInv
  <2> QED
    BY <1>1, <2>4, <2>5
<1>4. CASE GiveUp
  <2>1. /\ result' = Whole!Failure /\ acc' \in Seq(Nat) /\ Len(acc') <= cap'
        /\ cap' \in 0..SizeMax /\ (reuse \/ cap' = 0)
    <3>1. CASE reuse
      BY <1>4, <3>1 DEF GiveUp, HeldInv
    <3>2. CASE ~reuse
      BY <1>4, <3>2, PumpAssumption DEF GiveUp
    <3> QED
      BY <3>1, <3>2
  <2>2. Success' = Success
    BY <1>0 DEF Success
  <2>3. PumpTypeOK'
    BY <1>0, <2>1
  <2>4. HeldInv'
    BY <1>0, <1>2, <2>1, <2>2 DEF HeldInv
  <2> QED
    BY <1>1, <2>3, <2>4
<1> QED
  BY <1>3, <1>4 DEF Close

LEMMA DoneStep == ASSUME PumpInv, Done PROVE PumpInv'
<1> USE DEF PumpInv, PumpTypeOK, Pcs, OpenPc, WorkPc, callVars, accVars, readVars, sessionVars
<1>1. acc' \in Seq(Nat) /\ Len(acc') <= cap' /\ cap' \in 0..SizeMax /\ (reuse \/ cap' = 0)
  <2>1. CASE reuse
    BY <2>1 DEF Done, HeldInv
  <2>2. CASE ~reuse
    BY <2>2, PumpAssumption DEF Done
  <2> QED
    BY <2>1, <2>2
<1> QED
  BY <1>1 DEF Done, FlowInv, TakenInv, HeldInv

LEMMA PumpIdle == ASSUME PumpInv, UNCHANGED vars PROVE PumpInv'
BY DEF vars, callVars, accVars, readVars, sessionVars, PumpInv, PumpTypeOK, FlowInv, TakenInv,
    HeldInv, Success, Producible

LEMMA PumpInvStep == PumpInv /\ [Next]_vars => PumpInv'
BY CallStep, BeginStep, ScratchStep, WriteStep, DrainStep, EndStep, FinalStep, AppendStep,
    CloseStep, DoneStep, ChainStep, PumpIdle
DEF Next, PumpStep, AllCallsMade

LEMMA PumpInductive == Spec => []PumpInv
<1> QED
  BY PumpInit, PumpInvStep, PTL DEF Spec

-----------------------------------------------------------------------------
(* Theorems. *)

(* A call that has returned, however it ended, holds no session and no     *)
(* scratch buffer, and an accumulator only if it hands one out or its      *)
(* caller reuses it: no failure in the middle leaves anything behind.      *)
THEOREM PumpLeaksNothing == Spec => []NoLeak
<1>1. PumpInv => NoLeak
  <2>1. Whole!Failure.st # "ok" /\ Success.st = "ok"
    BY DEF Whole!Failure, Success
  <2> QED
    BY <2>1 DEF NoLeak, PumpInv, PumpTypeOK, HeldInv, OpenPc, WorkPc
<1> QED
  BY <1>1, PumpInductive, PTL

(* Every copy of the pump lies inside the block it goes to, for every      *)
(* input, slice and width of size_t: the doubling never settles for less   *)
(* than is needed, nor for a capacity that wrapped.                        *)
THEOREM PumpStaysInBlocks == Spec => []WithinBlocks
<1>1. PumpInv => WithinBlocks
  BY DEF WithinBlocks, PumpInv, HeldInv
<1> QED
  BY <1>1, PumpInductive, PTL

-----------------------------------------------------------------------------
(* The refinement of WholeBuffer, step by step. *)

WholeStep == [Whole!Next]_(Whole!vars)

(* What a pump answers is what the whole-buffer call may answer.           *)
LEMMA SuccessIsWhole ==
    ASSUME PumpInv PROVE Success = Whole!Success([dir |-> dir, input |-> input])
<1>1. input \in Nat /\ dir \in Whole!Directions
  BY PumpAssumption DEF PumpInv, PumpTypeOK
<1> QED
  BY <1>1, OutputIsUnits DEF Success, Whole!Success

(* Every step but Call, the return and Done is invisible.                  *)
LEMMA Invisible ==
    ASSUME pc \notin {"idle", "returned"}, pc' \notin {"idle", "returned"},
           dir' = dir, input' = input
    PROVE  WholeStep
BY DEF WholeStep, Whole!vars

LEMMA CallAsks == ASSUME PumpInv, Call PROVE WholeStep
<1>1. /\ pc = "idle" /\ pc' = "begin" /\ dir' \in Whole!Directions /\ input' \in 0..MaxInput
  BY DEF Call
<1>2. Whole!Ask
  BY <1>1 DEF Whole!Ask, Whole!NoRequest
<1> QED
  BY <1>2 DEF WholeStep, Whole!Next

LEMMA ReturnAnswers ==
    ASSUME PumpInv, pc \in {"begin"} \cup OpenPc, pc' = "returned", PumpInv',
           dir' = dir, input' = input
    PROVE  WholeStep
<1>1. result' \in {Whole!Failure, Success}
  <2>1. Success' = Success
    BY DEF Success
  <2> QED
    BY <2>1 DEF PumpInv, HeldInv
<1>2. [dir |-> dir, input |-> input] # [dir |-> "none", input |-> 0]
  <2>1. dir # "none"
    BY DEF PumpInv, PumpTypeOK, Whole!Directions
  <2> QED
    BY <2>1
<1>3. Whole!Answer
  BY <1>1, <1>2, SuccessIsWhole
  DEF Whole!Answer, Whole!NoRequest, Whole!Pending, OpenPc, WorkPc
<1> QED
  BY <1>3 DEF WholeStep, Whole!Next

LEMMA DoneForgets == ASSUME PumpInv, Done PROVE WholeStep
<1>1. pc = "returned" /\ pc' = "idle"
  BY DEF Done
<1>2. result # [st |-> "pending", out |-> << >>]
  BY <1>1 DEF PumpInv, HeldInv, Success, Whole!Failure
<1>3. Whole!Forget
  BY <1>1, <1>2 DEF Whole!Forget, Whole!NoRequest, Whole!Pending
<1> QED
  BY <1>3 DEF WholeStep, Whole!Next

LEMMA PumpRefines == PumpInv /\ [Next]_vars => WholeStep
<1> SUFFICES ASSUME PumpInv, [Next]_vars PROVE WholeStep
  OBVIOUS
<1>1. CASE Call
  BY <1>1, CallAsks
<1>2. CASE Done
  BY <1>2, DoneForgets
<1>3. CASE PumpStep
  <2>1. /\ pc \in {"begin"} \cup OpenPc /\ dir' = dir /\ input' = input
        /\ pc' \in {"returned"} \cup OpenPc
    <3>1. CASE Begin \/ Scratch
      BY <3>1 DEF Begin, Scratch, Fail, callVars, OpenPc, WorkPc
    <3>2. CASE WriteSlice \/ DrainRead \/ End \/ FinalRead
      BY <3>2 DEF WriteSlice, DrainRead, End, FinalRead, Fail, callVars, OpenPc, WorkPc
    <3>3. CASE AccAppend \/ Close
      BY <3>3 DEF AccAppend, AfterAppend, Close, Fail, callVars, OpenPc, WorkPc
    <3> QED
      BY <1>3, <3>1, <3>2, <3>3 DEF PumpStep
  <2>2. CASE pc' = "returned"
    BY <2>1, <2>2, PumpInvStep, ReturnAnswers
  <2>3. CASE pc' # "returned"
    BY <2>1, <2>3, Invisible DEF OpenPc, WorkPc
  <2> QED
    BY <2>2, <2>3
<1>4. CASE Chain
  <2>1. pc \in OpenPc
    BY <1>4 DEF Chain, ChainProduces, ChainBreaks, PumpInv, HeldInv
  <2>2. pc' = pc /\ dir' = dir /\ input' = input
    BY <1>4 DEF Chain, ChainProduces, ChainBreaks, callVars
  <2> QED
    BY <2>1, <2>2, Invisible DEF OpenPc, WorkPc
<1>5. CASE UNCHANGED vars
  BY <1>5 DEF WholeStep, Whole!vars, vars, callVars
<1> QED
  BY <1>1, <1>2, <1>3, <1>4, <1>5 DEF Next, AllCallsMade

(* Both pumps implement the whole-buffer call: whatever the chain does and *)
(* wherever a call fails, the caller gets the complete output, in order    *)
(* and without a unit of an earlier call, or nothing.                      *)
THEOREM PumpKeepsPromise == Spec => KeepsPromise
<1>1. Init => Whole!Init
  BY DEF Init, Whole!Init, Whole!NoRequest, Whole!Pending
<1> QED
  BY <1>1, PumpInductive, PumpRefines, PTL DEF Spec, KeepsPromise, Whole!Spec, WholeStep
===============================================================================
