---------------------------- MODULE BindingProofs ----------------------------
(***************************************************************************)
(* Proofs about the parts of the binding that stand on their own: the      *)
(* diagnostic of a thread (LastError), for any number of threads, any      *)
(* sizes of texts and any failures of the allocator; the capacity of a     *)
(* message call (OutCap), for every width of size_t and every floor; and   *)
(* the builder of the opts (OptsBuilder), for any keys and values, down to *)
(* what the query it builds reads back as.                                 *)
(***************************************************************************)
EXTENDS LastError, OptsBuilder, OutCap,
        TLAPS, FiniteSetTheorems, SequenceTheorems, WellFoundedInduction

-----------------------------------------------------------------------------
(* The diagnostic. *)

(* What a thread owns follows from where it is: during a fetch the slot is *)
(* empty and the only block is the one the second attempt writes into;     *)
(* between fetches the slot owns the block.                                *)
BlockInv ==
    \A t \in Threads :
        /\ pc[t] \in {"first", "alloc", "second"} =>
               /\ slot[t] = NoBlock /\ result[t] = "none"
               /\ held[t] = (IF pc[t] = "second" THEN 1 ELSE 0)
        /\ pc[t] \in {"idle", "exited"} =>
               /\ held[t] = (IF slot[t].wide THEN 1 ELSE 0)
               /\ result[t] = "wide" => slot[t].wide
        /\ pc[t] = "exited" => slot[t] = NoBlock

(* The library's message is the newest failure, so it is never older than  *)
(* the failure a thread entered its fetch with.                            *)
AgeInv ==
    /\ last.text = failures
    /\ \A t \in Threads : entry[t] <= own[t] /\ own[t] <= failures

FetchInv == BlockInv /\ AgeInv /\ NeverStale

-----------------------------------------------------------------------------
(* The initial state is well typed and every thread is between fetches.    *)
LEMMA FetchInit == Init => TypeOK /\ FetchInv
BY FetchAssumption DEF Init, TypeOK, FetchInv, BlockInv, AgeInv, NeverStale, NoBlock, Empty, Text

(* A failing call of the library keeps the types and the invariant: the    *)
(* fetches that are over keep their text, and the message gets younger.    *)
LEMMA FailsStep ==
    ASSUME TypeOK, FetchInv, NEW t \in Threads, LibraryFails(t)
    PROVE  TypeOK' /\ FetchInv'
<1> USE FetchAssumption DEF TypeOK, FetchInv
<1>1. PICK s \in Sizes : last' = [text |-> failures + 1, size |-> s]
    BY DEF LibraryFails
<1>2. failures' = failures + 1 /\ failures' \in 0..MaxFailures
    BY DEF LibraryFails
<1>3. own' \in [Threads -> 0..MaxFailures]
      /\ \A v \in Threads : own'[v] = IF v = t THEN failures + 1 ELSE own[v]
    BY <1>2 DEF LibraryFails
<1>4. UNCHANGED <<pc, need, inline, slot, result, held, entry>>
    BY DEF LibraryFails
<1>5. TypeOK'
    BY <1>1, <1>2, <1>3, <1>4
<1>6. AgeInv'
    BY <1>1, <1>2, <1>3, <1>4 DEF AgeInv
<1> QED
    BY <1>4, <1>5, <1>6 DEF BlockInv, NeverStale, Text

(* The start of a fetch releases the block of the previous one.            *)
LEMMA EnterStep ==
    ASSUME TypeOK, FetchInv, NEW t \in Threads, Enter(t)
    PROVE  TypeOK' /\ FetchInv'
<1> USE DEF TypeOK, FetchInv, Enter, Goto, NoBlock, Empty
<1>1. held'[t] = 0
    BY DEF BlockInv
<1>2. TypeOK'
    BY <1>1, FetchAssumption
<1>3. BlockInv'
    BY <1>1 DEF BlockInv
<1>4. AgeInv'
    BY DEF AgeInv
<1>5. NeverStale'
    BY DEF NeverStale, Text
<1> QED
    BY <1>2, <1>3, <1>4, <1>5

(* The first attempt hands out the message, or asks for its size.          *)
LEMMA FirstStep ==
    ASSUME TypeOK, FetchInv, NEW t \in Threads, First(t)
    PROVE  TypeOK' /\ FetchInv'
<1> USE DEF TypeOK, FetchInv, First, Goto, HandOut, NoBlock, Empty
<1>1. TypeOK'
    <2>1. last.size > Inline => last.size \in Sizes
        BY FetchAssumption
    <2> QED
        BY <2>1
<1>2. BlockInv'
    BY DEF BlockInv
<1>3. AgeInv'
    BY DEF AgeInv
<1>4. NeverStale'
    BY DEF NeverStale, Text, AgeInv
<1> QED
    BY <1>1, <1>2, <1>3, <1>4

(* The block for the second attempt, or the empty string without memory.   *)
LEMMA AllocStep ==
    ASSUME TypeOK, FetchInv, NEW t \in Threads, Alloc(t)
    PROVE  TypeOK' /\ FetchInv'
<1> USE DEF TypeOK, FetchInv, Alloc, Goto, HandOut, GiveUp, NoBlock, Empty
<1>1. TypeOK'
    <2>1. 0 \in 0..MaxFailures
        BY FetchAssumption
    <2>2. held' \in [Threads -> Nat]
        OBVIOUS
    <2>3. inline' \in [Threads -> 0..MaxFailures] /\ result' \in [Threads -> {"none", "inline", "wide"}]
        <3>1. \/ UNCHANGED <<inline, result>>
              \/ /\ inline' = [inline EXCEPT ![t] = 0]
                 /\ result' = [result EXCEPT ![t] = "inline"]
            OBVIOUS
        <3>2. inline \in [Threads -> 0..MaxFailures] /\ result \in [Threads -> {"none", "inline", "wide"}]
            OBVIOUS
        <3> HIDE DEF TypeOK, FetchInv, Alloc
        <3> QED
            BY <2>1, <3>1, <3>2
    <2>4. pc' \in [Threads -> {"idle", "first", "alloc", "second", "exited"}]
        OBVIOUS
    <2>5. UNCHANGED <<last, failures, own, need, slot, entry>>
        OBVIOUS
    <2> HIDE DEF Alloc
    <2> QED
        BY <2>2, <2>3, <2>4, <2>5
<1>2. BlockInv'
    BY DEF BlockInv
<1>3. AgeInv'
    BY DEF AgeInv
<1>4. NeverStale'
    BY DEF NeverStale, Text
<1> QED
    BY <1>1, <1>2, <1>3, <1>4

(* The second attempt files its block in the slot or releases it.          *)
LEMMA SecondStep ==
    ASSUME TypeOK, FetchInv, NEW t \in Threads, Second(t)
    PROVE  TypeOK' /\ FetchInv'
<1> USE DEF TypeOK, FetchInv, Goto, HandOut, NoBlock, Empty
<1>1. pc[t] = "second" /\ held[t] = 1 /\ slot[t] = NoBlock /\ result[t] = "none"
    BY DEF BlockInv, Second
<1>2. CASE /\ slot' = [slot EXCEPT ![t] = [wide |-> TRUE, text |-> last.text]]
           /\ HandOut(t, "wide")
           /\ UNCHANGED <<inline, held>>
    <2>1. UNCHANGED <<last, failures, own, need, entry>>
        BY DEF Second
    <2>2. [wide |-> TRUE, text |-> last.text] \in [wide : BOOLEAN, text : 0..MaxFailures]
        OBVIOUS
    <2>3. TypeOK'
        BY <1>2, <2>1, <2>2
    <2>4. BlockInv'
        BY <1>1, <1>2 DEF BlockInv
    <2>5. AgeInv'
        BY <2>1 DEF AgeInv
    <2>6. NeverStale'
        BY <1>2, <2>1 DEF NeverStale, Text, AgeInv
    <2> QED
        BY <2>3, <2>4, <2>5, <2>6
<1>3. CASE /\ held' = [held EXCEPT ![t] = @ - 1]
           /\ GiveUp(t)
           /\ UNCHANGED slot
    <2>1. UNCHANGED <<last, failures, own, need, entry>>
        BY DEF Second
    <2>2. 0 \in 0..MaxFailures /\ held[t] - 1 = 0
        BY <1>1, FetchAssumption
    <2>3. TypeOK'
        BY <1>3, <2>1, <2>2 DEF GiveUp
    <2>4. BlockInv'
        BY <1>1, <1>3, <2>2 DEF BlockInv, GiveUp
    <2>5. AgeInv'
        BY <2>1 DEF AgeInv
    <2>6. NeverStale'
        BY <1>3, <2>1 DEF NeverStale, Text, GiveUp
    <2> QED
        BY <2>3, <2>4, <2>5, <2>6
<1> QED
    BY <1>2, <1>3 DEF Second

(* The destructor of the key takes the block with the thread.              *)
LEMMA ExitStep ==
    ASSUME TypeOK, FetchInv, NEW t \in Threads, Exit(t)
    PROVE  TypeOK' /\ FetchInv'
<1> USE DEF TypeOK, FetchInv, Exit, Goto, NoBlock, Empty
<1>1. held'[t] = 0
    BY DEF BlockInv
<1>2. TypeOK'
    BY <1>1, FetchAssumption
<1>3. BlockInv'
    BY <1>1 DEF BlockInv
<1>4. AgeInv'
    BY DEF AgeInv
<1>5. NeverStale'
    BY DEF NeverStale, Text
<1> QED
    BY <1>2, <1>3, <1>4, <1>5

(* So the invariant is inductive.                                          *)
LEMMA FetchNext == TypeOK /\ FetchInv /\ [Next]_vars => TypeOK' /\ FetchInv'
<1> SUFFICES ASSUME TypeOK, FetchInv, [Next]_vars PROVE TypeOK' /\ FetchInv'
    OBVIOUS
<1>1. CASE UNCHANGED vars
    BY <1>1 DEF vars, TypeOK, FetchInv, BlockInv, AgeInv, NeverStale, Text
<1>2. ASSUME NEW t \in Threads, Step(t) PROVE TypeOK' /\ FetchInv'
    BY <1>2, FailsStep, EnterStep, FirstStep, AllocStep, SecondStep, ExitStep DEF Step
<1> QED
    BY <1>1, <1>2 DEF Next, AllExited

(* Every state of a fetch is well typed and satisfies the invariant.       *)
THEOREM FetchInductive == Spec => [](TypeOK /\ FetchInv)
BY FetchInit, FetchNext, PTL DEF Spec

(* One wide block per thread between fetches, the one its slot refers to,  *)
(* and none after it exited, whichever way each fetch ended.               *)
THEOREM OneWideBlockHolds == Spec => []OneWideBlock
<1>1. TypeOK /\ FetchInv => OneWideBlock
    BY DEF FetchInv, BlockInv, OneWideBlock, NoBlock
<1> QED
    BY <1>1, FetchInductive, PTL

(* No fetch returns the text of a failure older than the one it was        *)
(* entered with.                                                           *)
THEOREM NeverStaleHolds == Spec => []NeverStale
<1>1. FetchInv => NeverStale
    BY DEF FetchInv
<1> QED
    BY <1>1, FetchInductive, PTL

-----------------------------------------------------------------------------
(* The capacity. *)

(* The test for a wrapped sum is exact, whatever the width and the floor.  *)
LEMMA WrapsExact ==
    ASSUME NEW n \in SizeT
    PROVE  Wraps(n) <=> n + Quarter(n) + FloorCap > SizeTMax
<1>1. Quarter(n) \in 0..n
  BY SMT, OutCapAssumption DEF Quarter, SizeT
<1>2. CASE n + Quarter(n) > SizeTMax
  <2>1. Sum(n, Quarter(n)) < n
    BY <1>1, <1>2, OutCapAssumption DEF Sum, SizeT
  <2> QED
    BY <1>1, <1>2, <2>1, OutCapAssumption DEF Wraps, SizeT
<1>3. CASE n + Quarter(n) <= SizeTMax
  <2>1. Sum(n, Quarter(n)) = n + Quarter(n)
    BY <1>1, <1>3, OutCapAssumption DEF Sum, SizeT
  <2>2. Sum(n + Quarter(n), FloorCap) < n + Quarter(n) <=> n + Quarter(n) + FloorCap > SizeTMax
    BY <1>1, <1>3, OutCapAssumption DEF Sum, SizeT
  <2> QED
    BY <1>1, <1>3, <2>1, <2>2, OutCapAssumption DEF Wraps, SizeT
<1> QED
  BY <1>1, <1>2, <1>3, OutCapAssumption DEF SizeT

(* What the function returns, in both of its cases. *)
LEMMA CapValue ==
    ASSUME NEW n \in SizeT
    PROVE  Cap(n) = IF n + Quarter(n) + FloorCap <= SizeTMax THEN n + Quarter(n) + FloorCap ELSE n
<1>1. Quarter(n) \in 0..n
  BY SMT, OutCapAssumption DEF Quarter, SizeT
<1>2. CASE n + Quarter(n) + FloorCap > SizeTMax
  BY <1>1, <1>2, WrapsExact, OutCapAssumption DEF Cap, SizeT
<1>3. CASE n + Quarter(n) + FloorCap <= SizeTMax
  <2>1. ~Wraps(n)
    BY <1>1, <1>3, WrapsExact, OutCapAssumption DEF SizeT
  <2>2. Sum(Sum(n, Quarter(n)), FloorCap) = n + Quarter(n) + FloorCap
    BY <1>1, <1>3, OutCapAssumption DEF Sum, SizeT
  <2> QED
    BY <1>1, <1>3, <2>1, <2>2, OutCapAssumption DEF Cap, SizeT
<1> QED
  BY <1>1, <1>2, <1>3, OutCapAssumption DEF SizeT

(* The payload of the state is a size; the invariant the theorem rests on. *)
CapInv == payload \in SizeT /\ CapSound

(* For every width of size_t and every floor: the capacity that is asked   *)
(* for covers the payload, is a size, and is the whole expansion whenever  *)
(* that is a size.                                                         *)
THEOREM CapIsSound == CapSpec => []CapSound
<1>1. CapInit => CapInv
  BY OutCapAssumption DEF CapInit, CapInv, CapSound, SizeT
<1>2. CapInv /\ [CapNext]_capVars => CapInv'
  <2> SUFFICES ASSUME CapInv, [CapNext]_capVars PROVE CapInv'
    OBVIOUS
  <2>1. CASE CapNext
    <3>1. PICK n \in SizeT : OutCap(n)
      BY <2>1 DEF CapNext
    <3>2. Quarter(n) \in 0..n
      BY SMT, <3>1, OutCapAssumption DEF Quarter, SizeT
    <3>3. Cap(n) = IF n + Quarter(n) + FloorCap <= SizeTMax THEN n + Quarter(n) + FloorCap ELSE n
      BY <3>1, CapValue
    <3> QED
      BY <3>1, <3>2, <3>3, OutCapAssumption DEF OutCap, CapInv, CapSound, SizeT
  <2>2. CASE UNCHANGED capVars
    BY <2>2 DEF CapInv, CapSound, capVars
  <2> QED
    BY <2>1, <2>2
<1>3. CapInv => CapSound
  BY DEF CapInv
<1> QED
  BY <1>1, <1>2, <1>3, PTL DEF CapSpec

-----------------------------------------------------------------------------
(* The builder of the opts. *)

(* f holds the concatenations of the first parts of x, up to m of them.    *)
Joins(x, m, f) == f = [i \in 1..m |-> IF i = 1 THEN x[i] ELSE f[i - 1] \o x[i]]

(* The same, part by part.                                                 *)
LEMMA JoinsByStep ==
    ASSUME NEW m \in Nat, NEW x, NEW f
    PROVE  /\ Joins(x, m, f) =>
                \A i \in 1..m : f[i] = IF i = 1 THEN x[i] ELSE f[i - 1] \o x[i]
           /\ /\ f = [i \in 1..m |-> f[i]]
              /\ \A i \in 1..m : f[i] = IF i = 1 THEN x[i] ELSE f[i - 1] \o x[i]
              => Joins(x, m, f)
BY DEF Joins

(* The function FlattenSeq is defined by is there for every number of      *)
(* parts.                                                                  *)
LEMMA FlattenDefined ==
    ASSUME NEW n \in Nat, NEW x
    PROVE  \A m \in 1..n : \E f : Joins(x, m, f)
<1> DEFINE Missing == {m \in Nat : m \in 1..n /\ ~\E f : Joins(x, m, f)}
<1>1. SUFFICES ASSUME Missing # {} PROVE FALSE
    OBVIOUS
<1>2. PICK m \in Missing : \A k \in Missing : ~(<<k, m>> \in OpToRel(<, Nat))
    BY <1>1, WFMin, NatLessThanWellFounded
<1>3. m \in Nat /\ m \in 1..n /\ ~\E f : Joins(x, m, f)
    OBVIOUS
<1>4. m # 1
  <2>1. Joins(x, 1, [i \in 1..1 |-> x[1]])
    BY DEF Joins
  <2> QED
    BY <2>1, <1>3
<1>5. m - 1 \in Nat /\ m - 1 \in 1..n /\ m - 1 < m
    BY <1>3, <1>4
<1>6. <<m - 1, m>> \in OpToRel(<, Nat)
    BY <1>5, <1>3, Zenon DEF OpToRel
<1>7. m - 1 \notin Missing
    BY <1>2, <1>6, Zenon
<1>8. PICK f : Joins(x, m - 1, f)
    BY <1>7, <1>5
<1>9. Joins(x, m, [i \in 1..m |-> IF i = m THEN f[m - 1] \o x[m] ELSE f[i]])
  <2> DEFINE g == [i \in 1..m |-> IF i = m THEN f[m - 1] \o x[m] ELSE f[i]]
  <2>1. ASSUME NEW i \in 1..m PROVE g[i] = IF i = 1 THEN x[i] ELSE g[i - 1] \o x[i]
    <3>1. CASE i = m
      <4>1. i - 1 \in 1..m /\ g[i - 1] = f[m - 1] /\ i # 1
        BY <3>1, <1>3, <1>4
      <4> QED
        BY <4>1, <3>1
    <3>2. CASE i # m
      <4>1. i \in 1..(m - 1) /\ g[i] = f[i]
        BY <3>2, <1>3
      <4>2. f[i] = IF i = 1 THEN x[i] ELSE f[i - 1] \o x[i]
        BY <4>1, <1>8, <1>5, JoinsByStep
      <4>3. i # 1 => g[i - 1] = f[i - 1]
        BY <4>1, <1>3
      <4> QED
        BY <4>1, <4>2, <4>3
    <3> QED
      BY <3>1, <3>2
  <2>2. g = [i \in 1..m |-> g[i]]
    OBVIOUS
  <2> HIDE DEF g
  <2>3. Joins(x, m, g)
    BY <2>1, <2>2, <1>3, JoinsByStep
  <2> QED
    BY <2>3 DEF g
<1> QED
    BY <1>9, <1>3

(* A concatenation of parts of at most three elements each.                *)
LEMMA FlattenBounds ==
    ASSUME NEW S, NEW x \in Seq(Seq(S)), \A i \in 1..Len(x) : Len(x[i]) <= 3
    PROVE  FlattenSeq(x) \in Seq(S) /\ Len(FlattenSeq(x)) <= 3 * Len(x)
<1> DEFINE n == Len(x)
<1>0. n \in Nat /\ \A i \in 1..n : x[i] \in Seq(S) /\ Len(x[i]) \in Nat
    OBVIOUS
<1>1. CASE n = 0
  <2>1. FlattenSeq(x) = << >>
    BY <1>1, EmptySeq DEF FlattenSeq
  <2> QED
    BY <2>1, <1>1
<1>2. CASE n # 0
  <2>1. FlattenSeq(x) = (CHOOSE f : Joins(x, n, f))[n]
    BY <1>2, Zenon DEF FlattenSeq, Joins
  <2>2. PICK f : f = (CHOOSE g : Joins(x, n, g)) /\ Joins(x, n, f)
    <3>1. n \in 1..n
      BY <1>0, <1>2
    <3>2. \E f : Joins(x, n, f)
      BY <1>0, <3>1, FlattenDefined
    <3> QED
      BY <3>2, Zenon
  <2> DEFINE Wrong == {m \in Nat : m \in 1..n /\ ~(f[m] \in Seq(S) /\ Len(f[m]) <= 3 * m)}
  <2>3. Wrong = {}
    <3>1. SUFFICES ASSUME Wrong # {} PROVE FALSE
        OBVIOUS
    <3>2. PICK m \in Wrong : \A k \in Wrong : ~(<<k, m>> \in OpToRel(<, Nat))
        BY <3>1, WFMin, NatLessThanWellFounded
    <3>3. m \in Nat /\ m \in 1..n
        OBVIOUS
    <3>4. f[m] = IF m = 1 THEN x[m] ELSE f[m - 1] \o x[m]
        BY <2>2, <3>3, <1>0, JoinsByStep
    <3>5. m # 1
        BY <3>4, <1>0, <3>3
    <3>6. m - 1 \in Nat /\ m - 1 \in 1..n /\ m - 1 < m
        BY <3>3, <3>5
    <3>7. <<m - 1, m>> \in OpToRel(<, Nat)
        BY <3>6, <3>3, Zenon DEF OpToRel
    <3>8. m - 1 \notin Wrong
        BY <3>2, <3>7, Zenon
    <3>9. f[m - 1] \in Seq(S) /\ Len(f[m - 1]) <= 3 * (m - 1)
        BY <3>8, <3>6
    <3>10. f[m] \in Seq(S) /\ Len(f[m]) = Len(f[m - 1]) + Len(x[m])
        BY <3>9, <3>4, <3>5, <3>3, <1>0, ConcatProperties
    <3>11. Len(f[m]) <= 3 * m
        <4>1. Len(f[m - 1]) \in Nat /\ Len(x[m]) \in Nat /\ Len(x[m]) <= 3
            BY <3>9, <3>3, <1>0
        <4>2. Len(f[m - 1]) <= 3 * (m - 1) /\ Len(f[m]) = Len(f[m - 1]) + Len(x[m])
            BY <3>9, <3>10
        <4>3. m \in Nat
            BY <3>3
        <4> HIDE DEF Wrong
        <4>4. ASSUME NEW a \in Nat, NEW b \in Nat, a <= 3 * (m - 1), b <= 3
              PROVE  a + b <= 3 * m
            BY <4>3, <4>4
        <4>5. Len(f[m - 1]) + Len(x[m]) <= 3 * m
            BY <4>1, <4>2, <4>4
        <4> QED
            BY <4>2, <4>5
    <3> QED
        BY <3>10, <3>11
  <2>4. n \in Nat /\ n \in 1..n
    BY <1>0, <1>2
  <2> QED
    BY <2>1, <2>2, <2>3, <2>4
<1> QED
    BY <1>1, <1>2

(* A nonempty set of naturals has a least element, the one Min chooses.    *)
LEMMA LeastOfNaturals ==
    ASSUME NEW S, S \subseteq Nat, S # {}
    PROVE  Min(S) \in S /\ \A y \in S : Min(S) <= y
<1>1. PICK x \in S : \A y \in S : ~(<<y, x>> \in OpToRel(<, Nat))
    BY WFMin, NatLessThanWellFounded
<1>2. ASSUME NEW y \in S PROVE x <= y
  <2>1. y < x => <<y, x>> \in OpToRel(<, Nat)
    BY Zenon DEF OpToRel
  <2>2. ~(y < x)
    BY <1>1, <2>1, Zenon
  <2>3. x \in Nat /\ y \in Nat
    OBVIOUS
  <2> QED
    BY <2>2, <2>3
<1> QED
    BY <1>2 DEF Min

(* What an encoded string is made of.                                      *)
Written == (STRING \ {Nul}) \cup {"%", "2", "5", "6", "3", "D", "0", "&", "="}
Byte == STRING \cup Written \cup {Nul, Junk}

LEMMA EscapeType ==
    ASSUME NEW c \in DOMAIN Hex
    PROVE  Hex[c] \in Seq(Written) /\ Len(Hex[c]) = 2
<1>1. c \in {"&", "=", "%", " "}
    BY DEF Hex
<1>2. CASE c = "&"
    BY <1>2 DEF Hex, Written
<1>3. CASE c = "="
    BY <1>3 DEF Hex, Written
<1>4. CASE c = "%"
    BY <1>4 DEF Hex, Written
<1>5. CASE c = " "
  <2>1. Hex[c] = <<"2", "0">>
    BY <1>5, Zenon DEF Hex
  <2> QED
    BY <2>1 DEF Written
<1> QED
    BY <1>1, <1>2, <1>3, <1>4, <1>5

(* An encoded string holds no terminator, and its length is the one        *)
(* enc_len reports: it does not wrap around.                               *)
LEMMA EncodedString ==
    ASSUME NEW s \in Strings
    PROVE  /\ Encode(s) \in Seq(Written)
           /\ Len(Encode(s)) <= SizeMax - 3
           /\ EncLen(s) = Len(Encode(s))
<1> DEFINE parts == [i \in 1..Len(s) |-> IF UrlSafe(s[i]) THEN <<s[i]>> ELSE <<"%">> \o Hex[s[i]]]
<1>1. s \in Seq(STRING \ {Nul}) /\ 3 * Len(s) + 3 <= SizeMax /\ SizeMax \in Nat
    BY OptsAssumption
<1>2. Len(s) \in Nat
    BY <1>1
<1>3. ASSUME NEW i \in 1..Len(s)
      PROVE  parts[i] \in Seq(Written) /\ Len(parts[i]) <= 3
  <2>1. s[i] \in Written
    BY <1>1, ElementOfSeq DEF Written
  <2>2. CASE UrlSafe(s[i])
    BY <2>1, <2>2
  <2>3. CASE ~UrlSafe(s[i])
    <3>1. Hex[s[i]] \in Seq(Written) /\ Len(Hex[s[i]]) = 2
      BY <2>3, EscapeType DEF UrlSafe
    <3>2. <<"%">> \in Seq(Written) /\ Len(<<"%">>) = 1
      BY DEF Written
    <3>3. parts[i] = <<"%">> \o Hex[s[i]]
      BY <2>3
    <3> HIDE DEF parts
    <3> QED
      BY <3>1, <3>2, <3>3, ConcatProperties
  <2> QED
    BY <2>2, <2>3
<1>4. Len(parts) = Len(s) /\ parts \in Seq(Seq(Written))
    BY <1>2, <1>3
<1>5. Encode(s) = FlattenSeq(parts)
    BY Zenon DEF Encode
<1> HIDE DEF parts
<1>6. Encode(s) \in Seq(Written) /\ Len(Encode(s)) <= 3 * Len(s)
    BY <1>3, <1>4, <1>5, FlattenBounds
<1>7. Len(Encode(s)) \in Nat
    BY <1>6, LenProperties
<1>8. Len(Encode(s)) <= SizeMax - 3
    BY <1>1, <1>2, <1>6, <1>7
<1>9. EncLen(s) = Len(Encode(s))
    BY <1>1, <1>7, <1>8 DEF EncLen, Wrap
<1> QED
    BY <1>6, <1>8, <1>9

(* A sum of size_t that does not reach the next multiple of its range.     *)
LEMMA WrapValue ==
    ASSUME NEW n \in 0..(2 * SizeMax + 1)
    PROVE  Wrap(n) = IF n <= SizeMax THEN n ELSE n - (SizeMax + 1)
<1>1. SizeMax \in Nat
    BY OptsAssumption
<1> HIDE DEF SizeMax
<1> QED
    BY <1>1 DEF Wrap

(* A set that passes the guard has added its lengths up exactly.           *)
LEMMA GuardIsExact ==
    ASSUME NEW key \in Strings, NEW value \in Strings,
           len \in 0..SizeMax, ~Overflows(key, value)
    PROVE  /\ Tail_(key, value) \in Seq(Written)
           /\ Len(Tail_(key, value)) \in Nat \ {0}
           /\ Need(key, value) = len + Len(Tail_(key, value)) + 1
           /\ Need(key, value) \in 1..SizeMax
<1> DEFINE k == Len(Encode(key))
           v == Len(Encode(value))
           s == IF len > 0 THEN 1 ELSE 0
<1>1. SizeMax \in Nat
    BY OptsAssumption
<1>2. k \in Nat /\ v \in Nat /\ k <= SizeMax - 3 /\ v <= SizeMax - 3
      /\ EncLen(key) = k /\ EncLen(value) = v
    BY EncodedString, LenProperties
<1>3. Extra(key, value) = Wrap(s + k + 1 + v + 1)
    BY <1>2 DEF Extra
<1>4. /\ Tail_(key, value) \in Seq(Written) /\ Len(Tail_(key, value)) = s + k + 1 + v
  <2>1. Encode(key) \in Seq(Written) /\ Encode(value) \in Seq(Written)
    BY EncodedString
  <2>2. <<"=">> \in Seq(Written) /\ Len(<<"=">>) = 1 /\ <<"&">> \in Seq(Written) /\ Len(<<"&">>) = 1
        /\ << >> \in Seq(Written) /\ Len(<< >>) = 0
    BY DEF Written
  <2> DEFINE sep == IF len > 0 THEN <<"&">> ELSE << >>
  <2>3. sep \in Seq(Written) /\ Len(sep) = s
    BY <2>2
  <2>4. Tail_(key, value) = ((sep \o Encode(key)) \o <<"=">>) \o Encode(value)
    BY Zenon DEF Tail_
  <2> HIDE DEF sep
  <2>5. sep \o Encode(key) \in Seq(Written) /\ Len(sep \o Encode(key)) = s + k
    BY <2>1, <2>3, ConcatProperties
  <2>6. /\ (sep \o Encode(key)) \o <<"=">> \in Seq(Written)
        /\ Len((sep \o Encode(key)) \o <<"=">>) = s + k + 1
    BY <2>5, <2>2, ConcatProperties
  <2> DEFINE front == (sep \o Encode(key)) \o <<"=">>
  <2> HIDE DEF front
  <2>7. front \in Seq(Written) /\ Len(front) = s + k + 1
    BY <2>6 DEF front
  <2>8. Tail_(key, value) = front \o Encode(value)
    BY <2>4 DEF front
  <2> QED
    BY <2>1, <2>7, <2>8, ConcatProperties
<1> HIDE DEF k, v
<1>5. s \in 0..1
    OBVIOUS
<1> HIDE DEF s, SizeMax
<1>6. s + k + 1 + v + 1 \in 0..(2 * SizeMax + 1)
    BY <1>1, <1>2, <1>5
<1>7. Extra(key, value) = s + k + 1 + v + 1 /\ s + k + 1 + v + 1 <= SizeMax
  <2>1. ~(Extra(key, value) < k)
    BY <1>2 DEF Overflows
  <2> QED
    BY <1>1, <1>2, <1>3, <1>5, <1>6, <2>1, WrapValue
<1>8. len + Extra(key, value) \in 0..(2 * SizeMax + 1)
    BY <1>1, <1>2, <1>5, <1>7
<1>9. Need(key, value) = len + Extra(key, value) /\ Need(key, value) <= SizeMax
  <2>1. ~(Wrap(len + Extra(key, value)) < len)
    BY DEF Overflows
  <2> QED
    BY <1>1, <1>2, <1>5, <1>7, <1>8, <2>1, WrapValue DEF Need
<1> QED
    BY <1>1, <1>2, <1>4, <1>5, <1>7, <1>9

(* The blocks of the builder: the string without a terminator in it, its   *)
(* terminator, and behind it nothing that was ever part of a key or value. *)
Block == [bytes : Seq(Byte), live : BOOLEAN]
Blank(bytes) == \A i \in DOMAIN bytes : bytes[i] \in {Nul, Junk}
Holds(bytes, n) ==
    /\ n \in Nat /\ n < Len(bytes)
    /\ \A i \in 1..n : bytes[i] # Nul
    /\ bytes[n + 1] = Nul
    /\ \A i \in (n + 1)..Len(bytes) : bytes[i] \in {Nul, Junk}

OptsInv ==
    /\ alive \in BOOLEAN
    /\ blocks \in Seq(Block)
    /\ \A b \in DOMAIN blocks :
           /\ blocks[b].live <=> (alive /\ b = buf)
           /\ ~blocks[b].live => Blank(blocks[b].bytes)
    /\ alive => /\ buf = Len(blocks) /\ buf \in DOMAIN blocks
                /\ cap \in 1..SizeMax /\ Len(blocks[buf].bytes) = cap
                /\ Holds(blocks[buf].bytes, len)

LEMMA BlockParts ==
    ASSUME NEW block \in Block
    PROVE  /\ block.bytes \in Seq(Byte) /\ Len(block.bytes) \in Nat
           /\ DOMAIN block.bytes = 1..Len(block.bytes)
           /\ \A i \in 1..Len(block.bytes) : block.bytes[i] \in Byte
           /\ block.live \in BOOLEAN
BY LenProperties, ElementOfSeq DEF Block

(* A block as the code fills it: of n bytes, each of them given by f.      *)
LEMMA FilledBlock ==
    ASSUME NEW n \in Nat, NEW f \in [1..n -> Byte], NEW live \in BOOLEAN
    PROVE  /\ [bytes |-> f, live |-> live] \in Block
           /\ Len([bytes |-> f, live |-> live].bytes) = n
           /\ DOMAIN f = 1..n
BY DEF Block

LEMMA MallocIsBlank ==
    ASSUME NEW n \in Nat
    PROVE  /\ Malloc(n) \in Block /\ Len(Malloc(n).bytes) = n /\ Malloc(n).live = TRUE
           /\ \A i \in 1..n : Malloc(n).bytes[i] \in {Nul, Junk}
<1> DEFINE f == [i \in 1..n |-> Junk]
<1>1. f \in [1..n -> Byte] /\ \A i \in 1..n : f[i] \in {Nul, Junk}
    BY DEF Byte
<1>2. Malloc(n) = [bytes |-> f, live |-> TRUE]
    BY DEF Malloc
<1> HIDE DEF f
<1>3. [bytes |-> f, live |-> TRUE] \in Block /\ Len([bytes |-> f, live |-> TRUE].bytes) = n
    BY <1>1, FilledBlock
<1> QED
    BY <1>1, <1>2, <1>3

(* What a block is after its string was wiped and it was released.         *)
LEMMA WipedIsBlank ==
    ASSUME NEW block \in Block, Holds(block.bytes, len)
    PROVE  Wiped(block, len) \in Block /\ ~Wiped(block, len).live /\ Blank(Wiped(block, len).bytes)
<1> DEFINE n == Len(block.bytes)
           f == [i \in 1..n |-> IF i <= len THEN Nul ELSE block.bytes[i]]
<1>1. /\ n \in Nat /\ DOMAIN block.bytes = 1..n
      /\ \A i \in 1..n : block.bytes[i] \in Byte
    BY BlockParts
<1>2. Wiped(block, len) = [bytes |-> f, live |-> FALSE]
    BY <1>1, Zenon DEF Wiped
<1>3. f \in [1..n -> Byte]
    BY <1>1 DEF Byte
<1>4. ASSUME NEW i \in 1..n PROVE f[i] \in {Nul, Junk}
  <2>1. CASE i <= len
    BY <2>1
  <2>2. CASE ~(i <= len)
    BY <2>2, <1>1 DEF Holds
  <2> QED
    BY <2>1, <2>2
<1> HIDE DEF n, f
<1>5. Wiped(block, len) \in Block
    BY <1>1, <1>2, <1>3, FilledBlock
<1>6. DOMAIN f = 1..n /\ Wiped(block, len).bytes = f /\ ~Wiped(block, len).live
    BY <1>2, <1>3
<1> QED
    BY <1>4, <1>5, <1>6 DEF Blank

(* What a block holds after text and its terminator were stored behind the *)
(* first n bytes.                                                          *)
LEMMA StoredIsHeld ==
    ASSUME NEW block \in Block, NEW n \in Nat, NEW text \in Seq(Byte), \A i \in 1..Len(text) : text[i] # Nul,
           n + Len(text) < Len(block.bytes),
           \A i \in 1..n : block.bytes[i] # Nul,
           \A i \in (n + 1)..Len(block.bytes) : block.bytes[i] \in {Nul, Junk}
    PROVE  /\ Store(block, n, Append(text, Nul)) \in Block
           /\ Store(block, n, Append(text, Nul)).live = block.live
           /\ Len(Store(block, n, Append(text, Nul)).bytes) = Len(block.bytes)
           /\ Holds(Store(block, n, Append(text, Nul)).bytes, n + Len(text))
           /\ \A i \in 1..n : Store(block, n, Append(text, Nul)).bytes[i] = block.bytes[i]
           /\ \A i \in 1..Len(text) : Store(block, n, Append(text, Nul)).bytes[n + i] = text[i]
<1> DEFINE c == Len(block.bytes)
           m == Len(text)
           s == Append(text, Nul)
           f == [i \in 1..c |-> IF i - n \in DOMAIN s THEN s[i - n] ELSE block.bytes[i]]
<1>1. /\ c \in Nat /\ DOMAIN block.bytes = 1..c /\ block.live \in BOOLEAN
      /\ \A i \in 1..c : block.bytes[i] \in Byte
    BY BlockParts
<1>2. /\ m \in Nat /\ DOMAIN s = 1..(m + 1) /\ s[m + 1] = Nul
      /\ \A i \in 1..m : s[i] = text[i] /\ s[i] \in Byte /\ s[i] # Nul
    BY LenProperties, ElementOfSeq
<1>3. Store(block, n, s) = [bytes |-> f, live |-> block.live]
  <2>1. block = [bytes |-> block.bytes, live |-> block.live]
    BY DEF Block
  <2>2. [block EXCEPT !.bytes = [i \in DOMAIN @ |-> IF i - n \in DOMAIN s THEN s[i - n] ELSE @[i]]]
        = [block EXCEPT !.bytes = f]
    BY <1>1, Zenon
  <2>3. Store(block, n, s) = [block EXCEPT !.bytes = f]
    BY <2>2, Zenon DEF Store
  <2> HIDE DEF f, s
  <2> QED
    BY <2>1, <2>3
<1>4. n + m < c /\ \A i \in 1..n : block.bytes[i] # Nul
    OBVIOUS
<1>5. \A i \in (n + 1)..c : block.bytes[i] \in {Nul, Junk}
    OBVIOUS
<1> HIDE DEF m, s
<1>6. ASSUME NEW i \in 1..c
      PROVE  f[i] = IF i <= n \/ n + m + 1 < i THEN block.bytes[i] ELSE s[i - n]
    BY <1>1, <1>2
<1> HIDE DEF f
<1>7. DOMAIN f = 1..c
    BY DEF f
<1>8. f \in [1..c -> Byte]
  <2>1. ASSUME NEW i \in 1..c PROVE f[i] \in Byte
    <3>1. CASE i <= n \/ n + m + 1 < i
      BY <3>1, <1>1, <1>6
    <3>2. CASE i = n + m + 1
      BY <3>2, <1>1, <1>2, <1>6 DEF Byte
    <3>3. CASE n < i /\ i < n + m + 1
      <4>1. i - n \in 1..m /\ f[i] = s[i - n]
        BY <3>3, <1>1, <1>2, <1>6
      <4> QED
        BY <4>1, <1>2
    <3> QED
      BY <3>1, <3>2, <3>3, <1>1, <1>2
  <2> QED
    BY <2>1, <1>7, Zenon DEF f
<1>9. Len(f) = c
    BY <1>1, <1>8
<1>10. Holds(f, n + m)
  <2>1. ASSUME NEW i \in 1..(n + m) PROVE f[i] # Nul
    <3>1. CASE i <= n
      BY <3>1, <1>1, <1>2, <1>4, <1>6
    <3>2. CASE n < i
      <4>1. i - n \in 1..m /\ f[i] = s[i - n]
        BY <3>2, <1>1, <1>2, <1>4, <1>6
      <4> QED
        BY <4>1, <1>2
    <3> QED
      BY <3>1, <3>2, <1>2
  <2>2. f[n + m + 1] = Nul
    <3>1. /\ n + m + 1 \in 1..c /\ (n + m + 1) - n = m + 1
          /\ ~(n + m + 1 <= n) /\ ~(n + m + 1 < n + m + 1)
      BY <1>1, <1>2, <1>4
    <3>2. f[n + m + 1] = s[(n + m + 1) - n]
      BY <3>1, <1>6
    <3> QED
      BY <3>1, <3>2, <1>2
  <2>3. ASSUME NEW i \in (n + m + 1)..c PROVE f[i] \in {Nul, Junk}
    <3>1. CASE i = n + m + 1
      BY <3>1, <2>2
    <3>2. CASE n + m + 1 < i
      BY <3>2, <1>1, <1>2, <1>5, <1>6
    <3> QED
      BY <3>1, <3>2, <1>1, <1>2
  <2> QED
    BY <1>1, <1>2, <1>4, <1>9, <2>1, <2>2, <2>3 DEF Holds
<1>11. [bytes |-> f, live |-> block.live] \in Block
    BY <1>1, <1>8, FilledBlock
<1>12. \A i \in 1..n : f[i] = block.bytes[i]
    BY <1>1, <1>2, <1>4, <1>6
<1>13. ASSUME NEW i \in 1..m PROVE f[n + i] = text[i]
  <2>1. n + i \in 1..c /\ ~(n + i <= n) /\ ~(n + m + 1 < n + i) /\ n + i - n = i
    BY <1>1, <1>2, <1>4
  <2>2. f[n + i] = s[n + i - n]
    BY <1>6, <2>1
  <2> QED
    BY <1>2, <2>1, <2>2
<1> QED
    BY <1>3, <1>9, <1>10, <1>11, <1>12, <1>13 DEF s, m

(* The block the string moves to is large enough for what is needed.       *)
LEMMA EnoughRoom ==
    ASSUME cap \in 1..SizeMax, NEW wanted \in 1..SizeMax, Enough(wanted) # {}
    PROVE  Grown(wanted) \in 1..SizeMax /\ wanted <= Grown(wanted) /\ (wanted <= cap => Grown(wanted) = cap)
<1>1. SizeMax \in Nat
    BY OptsAssumption
<1> HIDE DEF SizeMax
<1>2. Enough(wanted) \subseteq 1..SizeMax /\ \A c \in Enough(wanted) : wanted <= c
    BY <1>1 DEF Enough, Doublings
<1>3. Grown(wanted) \in Enough(wanted)
    BY <1>1, <1>2, LeastOfNaturals DEF Grown
<1> QED
    BY <1>2, <1>3 DEF Enough

(* The string, wherever it has moved to: every block but its last one is   *)
(* released and blank, and the last one has room for what is needed.       *)
LEMMA MovedHolds ==
    ASSUME OptsInv, alive, NEW wanted \in 1..SizeMax, len < wanted, Enough(wanted) # {},
           NEW moved, moved = Moved(wanted)
    PROVE  /\ moved \in Seq(Block) /\ Len(moved) \in Nat \ {0}
           /\ \A b \in 1..Len(moved) : moved[b].live <=> b = Len(moved)
           /\ \A b \in 1..Len(moved) : ~moved[b].live => Blank(moved[b].bytes)
           /\ Len(moved[Len(moved)].bytes) = Grown(wanted)
           /\ Holds(moved[Len(moved)].bytes, len)
           /\ \A i \in 1..len : moved[Len(moved)].bytes[i] = blocks[buf].bytes[i]
<1>1. /\ SizeMax \in Nat /\ blocks \in Seq(Block) /\ Len(blocks) \in Nat /\ DOMAIN blocks = 1..Len(blocks)
      /\ buf = Len(blocks) /\ buf \in DOMAIN blocks
      /\ cap \in 1..SizeMax /\ Len(blocks[buf].bytes) = cap /\ Holds(blocks[buf].bytes, len)
    BY OptsAssumption, LenProperties DEF OptsInv
<1>2. \A b \in 1..Len(blocks) : (blocks[b].live <=> b = buf)
                                /\ (~blocks[b].live => Blank(blocks[b].bytes))
    BY <1>1 DEF OptsInv
<1>3. Grown(wanted) \in 1..SizeMax /\ wanted <= Grown(wanted) /\ (wanted <= cap => Grown(wanted) = cap)
    BY <1>1, EnoughRoom
<1> HIDE DEF SizeMax
<1>4. CASE wanted <= cap
  <2>1. moved = blocks
    BY <1>4 DEF Moved
  <2>2. Len(blocks) \in Nat \ {0} /\ Len(blocks[Len(blocks)].bytes) = Grown(wanted)
    BY <1>1, <1>3, <1>4
  <2>3. Holds(blocks[Len(blocks)].bytes, len)
    BY <1>1
  <2>4. ASSUME NEW b \in 1..Len(blocks)
        PROVE  (blocks[b].live <=> b = Len(blocks)) /\ (~blocks[b].live => Blank(blocks[b].bytes))
    BY <1>1, <1>2
  <2> QED
    BY <2>1, <2>2, <2>3, <2>4, <1>1
<1>5. CASE ~(wanted <= cap)
  <2> DEFINE old == blocks[buf]
             g == Grown(wanted)
             new == Store(Malloc(g), 0, SubSeq(old.bytes, 1, len + 1))
             front == [blocks EXCEPT ![buf] = Wiped(@, len)]
  <2>1. moved = Append(front, new)
    BY <1>5, Zenon DEF Moved
  <2>2. old \in Block /\ Holds(old.bytes, len) /\ len \in Nat /\ len < Len(old.bytes)
    BY <1>1, ElementOfSeq DEF Holds
  <2>3. /\ front \in Seq(Block) /\ Len(front) = buf
        /\ \A b \in 1..buf : front[b] = IF b = buf THEN Wiped(old, len) ELSE blocks[b]
    <3>1. Wiped(old, len) \in Block
      BY <2>2, WipedIsBlank
    <3>2. front = [blocks EXCEPT ![buf] = Wiped(old, len)]
      OBVIOUS
    <3> HIDE DEF old, front
    <3> QED
      BY <3>1, <3>2, <1>1, ExceptSeq
  <2>4. \A b \in 1..buf : ~front[b].live /\ Blank(front[b].bytes)
    <3>1. ~Wiped(old, len).live /\ Blank(Wiped(old, len).bytes)
      BY <2>2, WipedIsBlank
    <3> HIDE DEF old, front
    <3> QED
      BY <3>1, <2>3, <1>1, <1>2
  <2>5. /\ Malloc(g) \in Block /\ Len(Malloc(g).bytes) = g /\ Malloc(g).live = TRUE
        /\ \A i \in 1..g : Malloc(g).bytes[i] \in {Nul, Junk}
    <3>1. g \in Nat
      BY <1>3
    <3> HIDE DEF g
    <3> QED
      BY <3>1, MallocIsBlank
  <2>6. /\ new \in Block /\ new.live /\ Len(new.bytes) = g /\ Holds(new.bytes, len)
        /\ \A i \in 1..len : new.bytes[i] = old.bytes[i]
    <3> DEFINE text == SubSeq(old.bytes, 1, len)
    <3>1. /\ old.bytes \in Seq(Byte) /\ Len(old.bytes) \in Nat
          /\ \A i \in 1..Len(old.bytes) : old.bytes[i] \in Byte
      BY <2>2, BlockParts
    <3>2. /\ \A i \in 1..len : old.bytes[i] # Nul
          /\ old.bytes[len + 1] = Nul
      BY <2>2 DEF Holds
    <3> HIDE DEF old
    <3>3. text \in Seq(Byte) /\ Len(text) = len /\ \A i \in 1..len : text[i] = old.bytes[i]
      BY <2>2, <3>1, SubSeqProperties
    <3>4. SubSeq(old.bytes, 1, len + 1) = Append(text, Nul)
      BY <2>2, <3>1, <3>2
    <3>5. 0 + Len(text) < Len(Malloc(g).bytes)
      BY <2>2, <2>5, <3>3, <1>1, <1>3
    <3> HIDE DEF text, g
    <3>6. \A i \in 1..Len(text) : text[i] # Nul
      BY <3>2, <3>3
    <3>7. \A i \in (0 + 1)..Len(Malloc(g).bytes) : Malloc(g).bytes[i] \in {Nul, Junk}
      BY <2>5
    <3>8. \A i \in 1..0 : Malloc(g).bytes[i] # Nul
      OBVIOUS
    <3>9. /\ Store(Malloc(g), 0, Append(text, Nul)) \in Block
          /\ Store(Malloc(g), 0, Append(text, Nul)).live = Malloc(g).live
          /\ Len(Store(Malloc(g), 0, Append(text, Nul)).bytes) = Len(Malloc(g).bytes)
          /\ Holds(Store(Malloc(g), 0, Append(text, Nul)).bytes, 0 + Len(text))
          /\ \A i \in 1..Len(text) : Store(Malloc(g), 0, Append(text, Nul)).bytes[0 + i] = text[i]
      BY <2>5, <3>3, <3>5, <3>6, <3>7, <3>8, StoredIsHeld
    <3>10. 0 + Len(text) = len /\ Len(text) = len /\ \A i \in 1..len : 0 + i = i
      BY <3>3, <2>2
    <3>11. new \in Block /\ new.live /\ Len(new.bytes) = g /\ Holds(new.bytes, len)
      BY <3>4, <3>9, <3>10, <2>5
    <3>12. \A i \in 1..len : new.bytes[i] = text[i]
      BY <3>4, <3>9, <3>10
    <3> QED
      BY <3>3, <3>11, <3>12
  <2> HIDE DEF new, front, g
  <2>7. /\ moved \in Seq(Block) /\ Len(moved) = buf + 1 /\ moved[buf + 1] = new
        /\ \A b \in 1..buf : moved[b] = front[b]
    BY <2>1, <2>3, <2>6, <1>1
  <2>8. ASSUME NEW b \in 1..Len(moved)
        PROVE  (moved[b].live <=> b = Len(moved)) /\ (~moved[b].live => Blank(moved[b].bytes))
    <3>1. CASE b = buf + 1
      BY <3>1, <2>6, <2>7
    <3>2. CASE b \in 1..buf
      BY <3>2, <2>4, <2>7, <1>1
    <3> QED
      BY <3>1, <3>2, <2>7, <1>1
  <2>9. \A i \in 1..len : moved[Len(moved)].bytes[i] = blocks[buf].bytes[i]
    BY <2>6, <2>7
  <2> QED
    BY <2>6, <2>7, <2>8, <2>9, <1>1 DEF g
<1> QED
    BY <1>4, <1>5

(* Nothing has been built yet.                                             *)
LEMMA OptsStart == OptsInit => OptsInv
<1> SUFFICES ASSUME OptsInit PROVE OptsInv
    OBVIOUS
<1>1. blocks \in Seq(Block) /\ DOMAIN blocks = {} /\ alive = FALSE
  <2>1. blocks = << >>
    BY DEF OptsInit
  <2> QED
    BY <2>1, EmptySeq, LenProperties DEF OptsInit
<1> QED
    BY <1>1 DEF OptsInv

(* A new builder holds an empty string.                                    *)
LEMMA NewStep ==
    ASSUME OptsInv, New PROVE OptsInv'
<1>0. SizeMax \in Nat /\ FirstCap \in 1..SizeMax /\ FirstCap \in Nat
    BY OptsAssumption
<1>1. CASE UNCHANGED <<alive, blocks, buf, len, cap>>
    BY <1>1 DEF OptsInv, Holds, Blank
<1>2. CASE blocks' = <<Store(Malloc(FirstCap), 0, <<Nul>>)>>
           /\ alive' = TRUE /\ buf' = 1 /\ len' = 0 /\ cap' = FirstCap
  <2> DEFINE new == Store(Malloc(FirstCap), 0, <<Nul>>)
  <2>1. /\ Malloc(FirstCap) \in Block /\ Len(Malloc(FirstCap).bytes) = FirstCap
        /\ Malloc(FirstCap).live = TRUE
        /\ \A i \in 1..FirstCap : Malloc(FirstCap).bytes[i] \in {Nul, Junk}
    BY <1>0, MallocIsBlank, Zenon
  <2>2. new \in Block /\ new.live = TRUE /\ Len(new.bytes) = FirstCap /\ Holds(new.bytes, 0)
    <3>1. << >> \in Seq(Byte) /\ Len(<< >>) = 0 /\ Append(<< >>, Nul) = <<Nul>>
      OBVIOUS
    <3>2. \A i \in (0 + 1)..Len(Malloc(FirstCap).bytes) : Malloc(FirstCap).bytes[i] \in {Nul, Junk}
      BY <2>1
    <3>3. /\ \A i \in 1..Len(<< >>) : << >>[i] # Nul
          /\ \A i \in 1..0 : Malloc(FirstCap).bytes[i] # Nul
          /\ 0 \in Nat /\ 0 + Len(<< >>) < Len(Malloc(FirstCap).bytes)
      BY <1>0, <2>1, <3>1
    <3>4. /\ Store(Malloc(FirstCap), 0, Append(<< >>, Nul)) \in Block
          /\ Store(Malloc(FirstCap), 0, Append(<< >>, Nul)).live = Malloc(FirstCap).live
          /\ Len(Store(Malloc(FirstCap), 0, Append(<< >>, Nul)).bytes) = Len(Malloc(FirstCap).bytes)
          /\ Holds(Store(Malloc(FirstCap), 0, Append(<< >>, Nul)).bytes, 0 + Len(<< >>))
          /\ \A i \in 1..0 : Store(Malloc(FirstCap), 0, Append(<< >>, Nul)).bytes[i] = Malloc(FirstCap).bytes[i]
          /\ \A i \in 1..Len(<< >>) : Store(Malloc(FirstCap), 0, Append(<< >>, Nul)).bytes[0 + i] = << >>[i]
      BY <2>1, <3>1, <3>2, <3>3, StoredIsHeld
    <3> QED
      BY <2>1, <3>1, <3>4
  <2> HIDE DEF new
  <2>3. blocks' = <<new>>
    BY <1>2 DEF new
  <2>4. blocks' \in Seq(Block) /\ Len(blocks') = 1 /\ DOMAIN blocks' = 1..1 /\ blocks'[1] = new
    BY <2>2, <2>3
  <2>5. \A b \in DOMAIN blocks' : (blocks'[b].live <=> (alive' /\ b = buf'))
                                  /\ (~blocks'[b].live => Blank(blocks'[b].bytes))
    BY <1>2, <2>2, <2>4
  <2>6. /\ buf' = Len(blocks') /\ buf' \in DOMAIN blocks' /\ cap' \in 1..SizeMax
        /\ Len(blocks'[buf'].bytes) = cap' /\ Holds(blocks'[buf'].bytes, len')
    BY <1>0, <1>2, <2>2, <2>4
  <2> QED
    BY <1>2, <2>4, <2>5, <2>6 DEF OptsInv, Holds, Blank
<1> QED
    BY <1>1, <1>2 DEF New

(* The bytes of the string, which are what a reader of the block finds.    *)
Query == SubSeq(blocks[buf].bytes, 1, len)

LEMMA StringIsQuery ==
    ASSUME OptsInv, alive
    PROVE  /\ CString = Query
           /\ Query \in Seq(Byte) /\ Len(Query) = len /\ len \in Nat
           /\ \A i \in 1..len : Query[i] = blocks[buf].bytes[i]
<1> DEFINE bytes == blocks[buf].bytes
           nuls == {i \in DOMAIN bytes : bytes[i] = Nul}
<1>1. Len(bytes) = cap /\ Holds(bytes, len) /\ blocks[buf] \in Block
    BY ElementOfSeq, LenProperties DEF OptsInv
<1>2. /\ bytes \in Seq(Byte) /\ Len(bytes) \in Nat /\ DOMAIN bytes = 1..Len(bytes)
      /\ \A i \in 1..Len(bytes) : bytes[i] \in Byte
    BY <1>1, BlockParts
<1>3. len \in Nat /\ len < cap
    BY <1>1 DEF Holds
<1>4. len + 1 \in nuls /\ nuls \subseteq Nat /\ \A i \in nuls : len + 1 <= i
    BY <1>1, <1>2, <1>3 DEF Holds
<1>5. CString = SubSeq(bytes, 1, Min(nuls) - 1)
    BY <1>4, Zenon DEF CString
<1> HIDE DEF nuls, bytes
<1>6. Min(nuls) = len + 1
  <2>1. Min(nuls) \in nuls /\ \A i \in nuls : Min(nuls) <= i
    BY <1>4, LeastOfNaturals
  <2>2. Min(nuls) <= len + 1 /\ len + 1 <= Min(nuls) /\ Min(nuls) \in Nat
    BY <1>4, <2>1
  <2> QED
    BY <1>3, <2>2
<1>7. CString = SubSeq(bytes, 1, len)
    BY <1>3, <1>5, <1>6
<1>8. /\ SubSeq(bytes, 1, len) \in Seq(Byte) /\ Len(SubSeq(bytes, 1, len)) = len
      /\ \A i \in 1..len : SubSeq(bytes, 1, len)[i] = bytes[i]
    BY <1>1, <1>2, <1>3, SubSeqProperties
<1> QED
    BY <1>3, <1>7, <1>8 DEF Query, bytes

(* A pair is stored behind the string, wherever that has moved to.         *)
LEMMA SetStoredStep ==
    ASSUME OptsInv, NEW key \in Strings, NEW value \in Strings, SetStored(key, value)
    PROVE  /\ OptsInv'
           /\ Query \in Seq(Byte) /\ Query' = Query \o Tail_(key, value)
<1> DEFINE text == Tail_(key, value)
           wanted == Need(key, value)
           moved == Moved(wanted)
           n == Len(moved)
           stored == Store(moved[n], len, Append(text, Nul))
<1>1. /\ alive /\ alive' = alive /\ buf' = n /\ cap' = Grown(wanted) /\ len' = len + Len(text)
      /\ ~Overflows(key, value) /\ Enough(wanted) # {}
    BY Zenon DEF SetStored
<1>2. blocks' = [moved EXCEPT ![n] = stored]
    BY Zenon DEF SetStored
<1>3. SizeMax \in Nat /\ cap \in 1..SizeMax /\ len \in Nat /\ len < cap
    BY <1>1, OptsAssumption DEF OptsInv, Holds
<1>4. /\ text \in Seq(Written) /\ Len(text) \in Nat \ {0}
      /\ wanted = len + Len(text) + 1 /\ wanted \in 1..SizeMax
  <2>1. len \in 0..SizeMax
    BY <1>3
  <2> QED
    BY <1>1, <2>1, GuardIsExact
<1> HIDE DEF text, wanted, moved
<1>5. len < wanted
    BY <1>3, <1>4
<1>6. /\ moved \in Seq(Block) /\ n \in Nat \ {0}
      /\ \A b \in 1..n : moved[b].live <=> b = n
      /\ \A b \in 1..n : ~moved[b].live => Blank(moved[b].bytes)
      /\ Len(moved[n].bytes) = Grown(wanted)
      /\ Holds(moved[n].bytes, len)
      /\ \A i \in 1..len : moved[n].bytes[i] = blocks[buf].bytes[i]
  <2>1. moved = Moved(wanted)
    BY DEF moved
  <2> QED
    BY <1>1, <1>4, <1>5, <2>1, MovedHolds
<1>7. Grown(wanted) \in 1..SizeMax /\ wanted <= Grown(wanted)
    BY <1>1, <1>3, <1>4, EnoughRoom
<1>8. text \in Seq(Byte) /\ \A i \in 1..Len(text) : text[i] # Nul
  <2>1. Written \subseteq Byte /\ Nul \notin Written
    BY DEF Byte, Written, Nul
  <2> QED
    BY <1>4, <2>1, SeqMonotonic, ElementOfSeq
<1>9. /\ stored \in Block /\ stored.live = moved[n].live
      /\ Len(stored.bytes) = Grown(wanted) /\ Holds(stored.bytes, len + Len(text))
      /\ \A i \in 1..len : stored.bytes[i] = moved[n].bytes[i]
      /\ \A i \in 1..Len(text) : stored.bytes[len + i] = text[i]
  <2>1. PICK block \in Block : block = moved[n]
    BY <1>6, ElementOfSeq
  <2>2. len + Len(text) < Len(block.bytes)
    BY <1>3, <1>4, <1>6, <1>7, <2>1
  <2>3. /\ \A i \in 1..len : block.bytes[i] # Nul
        /\ \A i \in (len + 1)..Len(block.bytes) : block.bytes[i] \in {Nul, Junk}
    BY <1>6, <2>1 DEF Holds
  <2> DEFINE after == Store(block, len, Append(text, Nul))
  <2>4. /\ after \in Block /\ after.live = block.live
        /\ Len(after.bytes) = Len(block.bytes) /\ Holds(after.bytes, len + Len(text))
        /\ \A i \in 1..len : after.bytes[i] = block.bytes[i]
        /\ \A i \in 1..Len(text) : after.bytes[len + i] = text[i]
    BY <1>3, <1>8, <2>2, <2>3, StoredIsHeld
  <2>5. stored = after
    BY <2>1
  <2> HIDE DEF after, stored
  <2> QED
    BY <1>6, <2>1, <2>4, <2>5
<1> HIDE DEF stored, n
<1>10. /\ blocks' \in Seq(Block) /\ Len(blocks') = n /\ DOMAIN blocks' = 1..n
       /\ \A b \in 1..n : blocks'[b] = IF b = n THEN stored ELSE moved[b]
  <2>1. n = Len(moved) /\ n \in 1..Len(moved)
    BY <1>6 DEF n
  <2>2. /\ [moved EXCEPT ![n] = stored] \in Seq(Block)
        /\ Len([moved EXCEPT ![n] = stored]) = Len(moved)
        /\ \A b \in 1..Len(moved) : [moved EXCEPT ![n] = stored][b] = IF b = n THEN stored ELSE moved[b]
    BY <1>6, <1>9, <2>1, ExceptSeq
  <2> QED
    BY <1>2, <2>1, <2>2, LenProperties
<1>11. ASSUME NEW b \in 1..n
       PROVE  (blocks'[b].live <=> b = n) /\ (~blocks'[b].live => Blank(blocks'[b].bytes))
  <2>1. CASE b = n
    <3>1. moved[n].live
      BY <1>6
    <3> QED
      BY <2>1, <3>1, <1>9, <1>10
  <2>2. CASE b # n
    BY <2>2, <1>6, <1>10
  <2> QED
    BY <2>1, <2>2
<1>12. Query \in Seq(Byte) /\ Query' = Query \o Tail_(key, value)
  <2>1. /\ Query \in Seq(Byte) /\ Len(Query) = len
        /\ \A i \in 1..len : Query[i] = blocks[buf].bytes[i]
    BY <1>1, StringIsQuery
  <2> DEFINE whole == Query \o text
             bytes == stored.bytes
  <2>2. /\ whole \in Seq(Byte) /\ Len(whole) = len + Len(text)
        /\ \A i \in 1..len + Len(text) : whole[i] = IF i <= len THEN Query[i] ELSE text[i - len]
    BY <1>8, <2>1, ConcatProperties
  <2> HIDE DEF whole
  <2>3. ASSUME NEW i \in 1..len + Len(text) PROVE bytes[i] = whole[i]
    <3>1. CASE i <= len
      <4>1. i \in 1..len
        BY <3>1, <1>3, <1>4
      <4>2. bytes[i] = moved[n].bytes[i] /\ moved[n].bytes[i] = blocks[buf].bytes[i]
        BY <4>1, <1>6, <1>9
      <4> QED
        BY <3>1, <4>1, <4>2, <2>1, <2>2
    <3>2. CASE ~(i <= len)
      <4>1. i - len \in 1..Len(text) /\ len + (i - len) = i
        BY <3>2, <1>3, <1>4
      <4> QED
        BY <3>2, <4>1, <1>9, <2>2
    <3> QED
      BY <3>1, <3>2
  <2>4. Query' = SubSeq(bytes, 1, len + Len(text))
    <3>1. blocks'[buf'].bytes = bytes /\ len' = len + Len(text)
      BY <1>1, <1>6, <1>10
    <3> QED
      BY <3>1 DEF Query
  <2> HIDE DEF bytes
  <2>5. len + Len(text) \in Nat /\ \A i \in 1..len + Len(text) : bytes[i] \in Byte
    <3>1. \A i \in 1..len + Len(text) : whole[i] \in Byte
      BY <2>2, ElementOfSeq
    <3> QED
      BY <1>3, <1>4, <2>3, <3>1
  <2>6. /\ SubSeq(bytes, 1, len + Len(text)) \in Seq(Byte)
        /\ Len(SubSeq(bytes, 1, len + Len(text))) = len + Len(text)
        /\ \A i \in 1..len + Len(text) : SubSeq(bytes, 1, len + Len(text))[i] = bytes[i]
    BY <2>5, SubSeqProperties
  <2>7. SubSeq(bytes, 1, len + Len(text)) = whole
    BY <2>2, <2>3, <2>6, SeqEqual
  <2> QED
    BY <2>1, <2>4, <2>7 DEF whole, text
<1> QED
  <2>1. alive' /\ alive' \in BOOLEAN
    BY <1>1 DEF OptsInv
  <2>2. /\ buf' = Len(blocks') /\ buf' \in DOMAIN blocks' /\ cap' \in 1..SizeMax
        /\ Len(blocks'[buf'].bytes) = cap' /\ Holds(blocks'[buf'].bytes, len')
    BY <1>1, <1>6, <1>7, <1>9, <1>10
  <2>3. \A b \in DOMAIN blocks' : (blocks'[b].live <=> (alive' /\ b = buf'))
                                  /\ (~blocks'[b].live => Blank(blocks'[b].bytes))
    BY <1>1, <1>10, <1>11, <2>1
  <2> QED
    BY <1>10, <1>12, <2>1, <2>2, <2>3 DEF OptsInv, Holds, Blank

(* The builder is released: its last block is blank too.                   *)
LEMMA FreeStep ==
    ASSUME OptsInv, Free PROVE OptsInv'
<1>1. /\ alive /\ ~alive' /\ alive' = FALSE
      /\ blocks' = [blocks EXCEPT ![buf] = Wiped(@, len)]
    BY DEF Free
<1>2. /\ blocks \in Seq(Block) /\ buf \in DOMAIN blocks /\ DOMAIN blocks = 1..Len(blocks)
      /\ Holds(blocks[buf].bytes, len)
      /\ \A b \in DOMAIN blocks : b # buf => ~blocks[b].live /\ Blank(blocks[b].bytes)
    BY <1>1, LenProperties DEF OptsInv
<1>3. blocks[buf] \in Block
    BY <1>2, ElementOfSeq
<1> DEFINE w == Wiped(blocks[buf], len)
<1>4. w \in Block /\ ~w.live /\ Blank(w.bytes)
    BY <1>2, <1>3, WipedIsBlank
<1>5. blocks' = [blocks EXCEPT ![buf] = w]
    BY <1>1
<1> HIDE DEF w
<1>6. /\ blocks' \in Seq(Block) /\ Len(blocks') = Len(blocks)
      /\ \A b \in 1..Len(blocks) : blocks'[b] = IF b = buf THEN w ELSE blocks[b]
    BY <1>2, <1>4, <1>5, ExceptSeq
<1>7. \A b \in DOMAIN blocks' : ~blocks'[b].live /\ Blank(blocks'[b].bytes)
    BY <1>2, <1>4, <1>6, LenProperties
<1> QED
    BY <1>1, <1>6, <1>7 DEF OptsInv, Holds, Blank

(* Every step keeps the invariant; a set that is refused or finds no       *)
(* memory leaves the builder as it is.                                     *)
LEMMA OptsStep == OptsInv /\ [OptsNext]_optsVars => OptsInv'
<1> SUFFICES ASSUME OptsInv, [OptsNext]_optsVars PROVE OptsInv'
    OBVIOUS
<1>1. CASE UNCHANGED <<alive, blocks, buf, len, cap>>
    BY <1>1 DEF OptsInv, Holds, Blank
<1>2. CASE New
    BY <1>2, NewStep
<1>3. ASSUME NEW key \in Strings, NEW value \in Strings, Set(key, value) PROVE OptsInv'
    BY <1>1, <1>3, SetStoredStep DEF Set, SetRefused, SetNoMemory
<1>4. ASSUME NEW key \in Strings, SetRefused(key, Null) \/ SetRefused(Null, key) PROVE OptsInv'
    BY <1>1, <1>4 DEF SetRefused
<1>5. CASE Free
    BY <1>5, FreeStep
<1>6. CASE UNCHANGED optsVars
    BY <1>1, <1>6 DEF optsVars
<1> QED
    BY <1>2, <1>3, <1>4, <1>5, <1>6 DEF OptsNext

LEMMA OptsInductive == OptsSpec => []OptsInv
BY OptsStart, OptsStep, PTL DEF OptsSpec

(* For any keys and values, any first capacity and any width of size_t:    *)
(* the string and its terminator lie inside the block, whose size is the   *)
(* recorded capacity, and len is the length of the string.                 *)
THEOREM OptsStayInBlock == OptsSpec => []WithinBlock
<1>1. OptsInv => WithinBlock
    BY StringIsQuery DEF WithinBlock, OptsInv, Holds
<1> QED
    BY <1>1, OptsInductive, PTL

(* Every block the builder has given up, by growing or by free, was        *)
(* released once and holds no byte of a key or value, whatever was set and *)
(* whichever allocation failed.                                            *)
THEOREM OptsWipeWhatTheyGiveUp == OptsSpec => []GivenUpWiped
<1>1. OptsInv => GivenUpWiped
    BY DEF OptsInv, GivenUpWiped, Blank
<1> QED
    BY <1>1, OptsInductive, PTL

-----------------------------------------------------------------------------
(* What the query says. *)

(* In a finite set of numbers the number of smaller ones tells an element  *)
(* from every other, and takes every value below the size of the set.      *)
Before(B, c) == {b \in B : b < c}

LEMMA RanksOfSet ==
    ASSUME NEW B \in SUBSET Nat, IsFiniteSet(B)
    PROVE  /\ Cardinality(B) \in Nat
           /\ \A c \in B : Cardinality(Before(B, c)) \in 0..Cardinality(B) - 1
           /\ \A c, d \in B : Cardinality(Before(B, c)) = Cardinality(Before(B, d)) => c = d
           /\ \A j \in 0..Cardinality(B) - 1 : \E c \in B : Cardinality(Before(B, c)) = j
<1> DEFINE K == Cardinality(B)
           f == [c \in B |-> Cardinality(Before(B, c))]
<1>1. K \in Nat
    BY FS_CardinalityType
<1>2. ASSUME NEW c \in B
      PROVE  /\ IsFiniteSet(Before(B, c)) /\ Cardinality(Before(B, c)) \in 0..K - 1
             /\ Cardinality(Before(B, c)) \in Nat
             /\ Cardinality(Before(B, c) \cup {c}) = Cardinality(Before(B, c)) + 1
  <2>1. Before(B, c) \in SUBSET B /\ c \notin Before(B, c) /\ Before(B, c) \cup {c} \in SUBSET B
    BY DEF Before
  <2>2. IsFiniteSet(Before(B, c)) /\ IsFiniteSet(Before(B, c) \cup {c})
    BY <2>1, FS_Subset
  <2>3. Cardinality(Before(B, c)) \in Nat /\ Cardinality(Before(B, c) \cup {c}) <= K
    BY <2>1, <2>2, FS_Subset, FS_CardinalityType
  <2>4. Cardinality(Before(B, c) \cup {c}) = Cardinality(Before(B, c)) + 1
    BY <2>1, <2>2, FS_AddElement
  <2> HIDE DEF K
  <2> QED
    BY <1>1, <2>2, <2>3, <2>4
<1>3. ASSUME NEW c \in B, NEW d \in B, c < d
      PROVE  Cardinality(Before(B, c)) < Cardinality(Before(B, d))
  <2>1. Before(B, c) \cup {c} \in SUBSET Before(B, d)
    <3>1. c \in Nat /\ d \in Nat /\ \A b \in B : b \in Nat
      OBVIOUS
    <3>2. \A b \in B : b < c => b < d
      BY <1>3, <3>1
    <3> QED
      BY <1>3, <3>2, Zenon DEF Before
  <2>2. Cardinality(Before(B, c) \cup {c}) <= Cardinality(Before(B, d))
    BY <2>1, <1>2, FS_Subset
  <2>3. /\ Cardinality(Before(B, c) \cup {c}) = Cardinality(Before(B, c)) + 1
        /\ Cardinality(Before(B, c)) \in Nat /\ Cardinality(Before(B, d)) \in Nat
    BY <1>2, Zenon
  <2> QED
    BY <2>2, <2>3
<1>4. ASSUME NEW c \in B, NEW d \in B, Cardinality(Before(B, c)) = Cardinality(Before(B, d))
      PROVE  c = d
  <2>1. c \in Nat /\ d \in Nat
    OBVIOUS
  <2>2. Cardinality(Before(B, c)) \in Nat
    BY <1>2, Zenon
  <2>3. ~(Cardinality(Before(B, c)) < Cardinality(Before(B, d)))
        /\ ~(Cardinality(Before(B, d)) < Cardinality(Before(B, c)))
    BY <1>4, <2>2
  <2>4. ~(c < d) /\ ~(d < c)
    BY <1>3, <2>3
  <2> QED
    BY <2>1, <2>4
<1>5. IsFiniteSet(0..K - 1) /\ Cardinality(0..K - 1) = K
  <2> HIDE DEF K
  <2>1. 0 \in Int /\ K - 1 \in Int /\ (0 > K - 1 <=> K = 0)
    BY <1>1
  <2> QED
    BY <1>1, <2>1, FS_Interval
<1>6. f \in Injection(B, 0..K - 1)
    BY <1>2, <1>4 DEF Injection, IsInjective
<1>7. f \in Surjection(B, 0..K - 1)
    BY <1>5, <1>6, FS_Injection
<1>8. \A j \in 0..K - 1 : \E c \in B : Cardinality(Before(B, c)) = j
    BY <1>7 DEF Surjection
<1> QED
    BY <1>1, <1>2, <1>4, <1>8

(* The bounds of a string, by their ranks.                                 *)
LEMMA BoundsByRank ==
    ASSUME NEW S, NEW s \in Seq(S), NEW sep
    PROVE  /\ IsFiniteSet(Bounds(s, sep)) /\ Bounds(s, sep) \subseteq 0..Len(s) + 1
           /\ Cardinality(Bounds(s, sep)) \in Nat
           /\ \A j \in 0..Cardinality(Bounds(s, sep)) - 1 : Bound(s, sep, j) \in Bounds(s, sep)
           /\ \A c \in Bounds(s, sep) : Bound(s, sep, Cardinality(Before(Bounds(s, sep), c))) = c
           /\ \A c \in Bounds(s, sep) :
                  Cardinality(Before(Bounds(s, sep), c)) \in 0..Cardinality(Bounds(s, sep)) - 1
           /\ \A j \in 0..Cardinality(Bounds(s, sep)) - 1 :
                  Cardinality(Before(Bounds(s, sep), Bound(s, sep, j))) = j
<1> DEFINE B == Bounds(s, sep)
<1>1. Len(s) \in Nat /\ DOMAIN s = 1..Len(s)
    BY LenProperties
<1>2. B \subseteq 0..Len(s) + 1
    BY <1>1 DEF Bounds
<1>3. IsFiniteSet(B)
  <2>1. IsFiniteSet(0..Len(s) + 1)
    BY <1>1, FS_Interval
  <2> HIDE DEF B
  <2> QED
    BY <1>2, <2>1, FS_Subset
<1>4. \A j : Bound(s, sep, j) = CHOOSE c \in B : Cardinality(Before(B, c)) = j
    BY Zenon DEF Bound, Before
<1> HIDE DEF B
<1>5. B \in SUBSET Nat
    BY <1>1, <1>2
<1>6. /\ Cardinality(B) \in Nat
      /\ \A c \in B : Cardinality(Before(B, c)) \in 0..Cardinality(B) - 1
      /\ \A c, d \in B : Cardinality(Before(B, c)) = Cardinality(Before(B, d)) => c = d
      /\ \A j \in 0..Cardinality(B) - 1 : \E c \in B : Cardinality(Before(B, c)) = j
    BY <1>3, <1>5, RanksOfSet
<1>7. \A j \in 0..Cardinality(B) - 1 :
          Bound(s, sep, j) \in B /\ Cardinality(Before(B, Bound(s, sep, j))) = j
    BY <1>4, <1>6, Zenon
<1>8. \A c \in B : Bound(s, sep, Cardinality(Before(B, c))) = c
    BY <1>6, <1>7, Zenon
<1> QED
    BY <1>2, <1>3, <1>6, <1>7, <1>8 DEF B

(* A string without separators is its only part.                           *)
LEMMA SplitWhole ==
    ASSUME NEW S, NEW s \in Seq(S), NEW sep, \A i \in 1..Len(s) : s[i] # sep
    PROVE  Split(s, sep) = <<s>>
<1> DEFINE B == Bounds(s, sep)
<1>1. Len(s) \in Nat /\ DOMAIN s = 1..Len(s) /\ SubSeq(s, 1, Len(s)) = s
    BY LenProperties, SubSeqFull
<1>2. B = {0} \cup {Len(s) + 1} /\ 0 # Len(s) + 1
    BY <1>1 DEF Bounds
<1>3. Before(B, 0) = {} /\ Before(B, Len(s) + 1) = {0} /\ 0 \in B /\ Len(s) + 1 \in B
    BY <1>1, <1>2 DEF Before
<1>4. Cardinality({}) = 0 /\ Cardinality({0}) = 1 /\ IsFiniteSet({0})
    BY FS_EmptySet, FS_Singleton
<1>5. Cardinality({0} \cup {Len(s) + 1}) = 2
  <2>1. Len(s) + 1 \notin {0}
    BY <1>1
  <2>2. Cardinality({0} \cup {Len(s) + 1}) = Cardinality({0}) + 1
    BY <1>4, <2>1, FS_AddElement
  <2> QED
    BY <1>4, <2>2
<1>6. Bound(s, sep, 0) = 0 /\ Bound(s, sep, 1) = Len(s) + 1
  <2>1. \A c \in B : Bound(s, sep, Cardinality(Before(B, c))) = c
    BY BoundsByRank
  <2> HIDE DEF B
  <2> QED
    BY <1>3, <1>4, <2>1
<1>7. Split(s, sep) = [j \in 1..1 |-> SubSeq(s, Bound(s, sep, j - 1) + 1, Bound(s, sep, j) - 1)]
  <2>1. Cardinality(Bounds(s, sep)) = 2
    BY <1>2, <1>5, Zenon
  <2>2. Cardinality(Bounds(s, sep)) - 1 = 1
    BY <2>1
  <2> QED
    BY <2>2, Zenon DEF Split
<1>8. [j \in 1..1 |-> SubSeq(s, Bound(s, sep, j - 1) + 1, Bound(s, sep, j) - 1)] = [j \in 1..1 |-> s]
  <2>1. SubSeq(s, Bound(s, sep, 1 - 1) + 1, Bound(s, sep, 1) - 1) = s
    BY <1>1, <1>6
  <2> QED
    BY <2>1
<1>9. <<s>> = [j \in 1..1 |-> s]
    OBVIOUS
<1> QED
    BY <1>7, <1>8, <1>9, Zenon

(* The front of a concatenation.                                           *)
LEMMA FrontOfConcat ==
    ASSUME NEW S, NEW s \in Seq(S), NEW t \in Seq(S),
           NEW a \in Nat \ {0}, NEW b \in Int, b <= Len(s)
    PROVE  SubSeq(s \o t, a, b) = SubSeq(s, a, b)
<1>1. CASE a <= b
    BY <1>1, LenProperties, SubSeqOfConcat1
<1>2. CASE b < a
    BY <1>2, SubSeqEmpty
<1> QED
    BY <1>1, <1>2

(* The back of a concatenation.                                            *)
LEMMA BackOfConcat ==
    ASSUME NEW S, NEW s \in Seq(S), NEW t \in Seq(S)
    PROVE  SubSeq(s \o t, Len(s) + 1, Len(s) + Len(t)) = t
<1> DEFINE x == Len(s) + 1
           y == Len(s) + Len(t)
<1>1. Len(s) \in Nat /\ Len(t) \in Nat /\ x \in Nat /\ y \in Nat
    BY LenProperties
<1>2. CASE Len(t) = 0
  <2>1. t = << >> /\ y < x
    BY <1>1, <1>2, EmptySeq
  <2> HIDE DEF x, y
  <2>2. SubSeq(s \o t, x, y) = << >>
    BY <1>1, <2>1, SubSeqEmpty
  <2> QED
    BY <2>1, <2>2 DEF x, y
<1>3. CASE Len(t) # 0
  <2>1. x \in Len(s) + 1..Len(s) + Len(t) /\ y \in Len(s) + 1..Len(s) + Len(t)
        /\ x - Len(s) = 1 /\ y - Len(s) = Len(t)
    BY <1>1, <1>3
  <2> HIDE DEF x, y
  <2>2. SubSeq(s \o t, x, y) = SubSeq(t, x - Len(s), y - Len(s))
    BY <2>1, SubSeqOfConcat2
  <2>3. SubSeq(t, 1, Len(t)) = t
    BY SubSeqFull
  <2> QED
    BY <2>1, <2>2, <2>3 DEF x, y
<1> QED
    BY <1>2, <1>3

(* A separator and a string without one add that string to the parts.      *)
LEMMA SplitAppend ==
    ASSUME NEW S, NEW s \in Seq(S), NEW sep \in S, NEW w \in Seq(S), \A i \in 1..Len(w) : w[i] # sep
    PROVE  /\ Split((s \o <<sep>>) \o w, sep) = Append(Split(s, sep), w)
           /\ Split(s, sep) \in Seq(Seq(S))
<1> DEFINE front == s \o <<sep>>
           t == front \o w
           A == Bounds(s, sep)
           B == Bounds(t, sep)
           n == Len(s)
           m == Len(w)
           T == n + m + 2
           K == Cardinality(A)
<1>1. /\ n \in Nat /\ m \in Nat /\ DOMAIN s = 1..n
      /\ <<sep>> \in Seq(S) /\ Len(<<sep>>) = 1 /\ <<sep>>[1] = sep
    BY LenProperties
<1>2. /\ front \in Seq(S) /\ Len(front) = n + 1
      /\ \A i \in 1..n : front[i] = s[i]
      /\ front[n + 1] = sep
  <2>1. /\ front \in Seq(S) /\ Len(front) = n + 1
        /\ \A i \in 1..n + 1 : front[i] = IF i <= n THEN s[i] ELSE <<sep>>[i - n]
    BY <1>1, ConcatProperties
  <2> QED
    BY <1>1, <2>1
<1> HIDE DEF front
<1>3. /\ t \in Seq(S) /\ Len(t) = n + m + 1 /\ DOMAIN t = 1..n + m + 1
      /\ \A i \in 1..n : t[i] = s[i]
      /\ t[n + 1] = sep
      /\ \A i \in n + 2..n + m + 1 : t[i] # sep
  <2>1. /\ t \in Seq(S) /\ Len(t) = n + 1 + m
        /\ \A i \in 1..n + 1 + m : t[i] = IF i <= n + 1 THEN front[i] ELSE w[i - (n + 1)]
    <3>1. /\ t \in Seq(S) /\ Len(t) = Len(front) + Len(w)
          /\ \A i \in 1..Len(front) + Len(w) : t[i] = IF i <= Len(front) THEN front[i] ELSE w[i - Len(front)]
      BY <1>2, ConcatProperties
    <3> HIDE DEF t
    <3>2. Len(front) + Len(w) = n + 1 + m
      BY <1>1, <1>2
    <3> QED
      BY <1>2, <3>1, <3>2
  <2>2. DOMAIN t = 1..n + m + 1
    BY <1>1, <2>1, LenProperties
  <2>3. ASSUME NEW i \in n + 2..n + m + 1 PROVE t[i] # sep
    <3>1. i - (n + 1) \in 1..m /\ i \in 1..n + 1 + m /\ ~(i <= n + 1)
      BY <1>1
    <3> QED
      BY <2>1, <3>1
  <2> HIDE DEF t
  <2> QED
    BY <1>1, <1>2, <2>1, <2>2, <2>3
<1> HIDE DEF t
<1>4. B = A \cup {T}
  <2>1. A = {0, n + 1} \cup {i \in 1..n : s[i] = sep}
    BY <1>1 DEF Bounds
  <2>2. B = {0, T} \cup {i \in 1..n + m + 1 : t[i] = sep}
    BY <1>1, <1>3 DEF Bounds
  <2>3. ASSUME NEW i
        PROVE  i \in 1..n + m + 1 /\ t[i] = sep <=> (i \in 1..n /\ s[i] = sep) \/ i = n + 1
    BY <1>1, <1>3
  <2> HIDE DEF T, A, B
  <2> QED
    BY <2>1, <2>2, <2>3
<1>5. /\ IsFiniteSet(A) /\ A \subseteq 0..n + 1 /\ K \in Nat
      /\ \A j \in 0..K - 1 : Bound(s, sep, j) \in A
      /\ \A c \in A : Bound(s, sep, Cardinality(Before(A, c))) = c
      /\ \A c \in A : Cardinality(Before(A, c)) \in 0..K - 1
      /\ \A j \in 0..K - 1 : Cardinality(Before(A, Bound(s, sep, j))) = j
    BY BoundsByRank
<1>6. \A c \in B : Bound(t, sep, Cardinality(Before(B, c))) = c
    BY <1>3, BoundsByRank
<1>7. 0 \in A /\ n + 1 \in A
    BY DEF Bounds
<1>8. Split(s, sep) = [j \in 1..K - 1 |-> SubSeq(s, Bound(s, sep, j - 1) + 1, Bound(s, sep, j) - 1)]
    BY DEF Split
<1>9. Split(t, sep) =
          [j \in 1..Cardinality(B) - 1 |-> SubSeq(t, Bound(t, sep, j - 1) + 1, Bound(t, sep, j) - 1)]
    BY DEF Split
<1> HIDE DEF A, B, n, m
<1>10. T \notin A /\ T \in Nat /\ \A c \in A : c < T
    BY <1>1, <1>5
<1> HIDE DEF T
<1>11. Cardinality(B) = K + 1
    BY <1>4, <1>5, <1>10, FS_AddElement
<1>12. ASSUME NEW c \in A PROVE Before(B, c) = Before(A, c)
  <2>1. ~(T < c)
    BY <1>1, <1>5, <1>10
  <2> QED
    BY <1>4, <2>1 DEF Before
<1>13. Before(B, T) = A
  <2>1. ~(T < T)
    BY <1>10
  <2> QED
    BY <1>4, <1>10, <2>1 DEF Before
<1>14. ASSUME NEW j \in 0..K - 1 PROVE Bound(t, sep, j) = Bound(s, sep, j)
  <2>1. Bound(s, sep, j) \in A /\ Bound(s, sep, j) \in B
    BY <1>4, <1>5
  <2>2. Cardinality(Before(B, Bound(s, sep, j))) = j
    BY <1>5, <1>12, <2>1
  <2> QED
    BY <1>6, <2>1, <2>2
<1>15. Bound(t, sep, K) = T
  <2>1. T \in B
    BY <1>4
  <2> QED
    BY <1>6, <1>13, <2>1 DEF K
<1>16. K \in Nat \ {0} /\ Bound(s, sep, K - 1) = n + 1
  <2>1. Before(A, n + 1) = A \ {n + 1}
    <3>1. \A b \in A : b < n + 1 <=> b # n + 1
      BY <1>1, <1>5
    <3> QED
      BY <3>1 DEF Before
  <2>2. Cardinality(A \ {n + 1}) = K - 1
    BY <1>5, <1>7, FS_RemoveElement
  <2>3. Cardinality(Before(A, n + 1)) = K - 1
    BY <2>1, <2>2
  <2>4. K - 1 \in 0..K - 1 /\ Bound(s, sep, Cardinality(Before(A, n + 1))) = n + 1
    <3>1. Cardinality(Before(A, n + 1)) \in 0..K - 1
      BY <1>5, <1>7
    <3> QED
      BY <1>5, <1>7, <2>3, <3>1
  <2> HIDE DEF K
  <2> QED
    BY <1>5, <2>3, <2>4
<1> HIDE DEF K
<1>17. ASSUME NEW j \in 1..K - 1
       PROVE  SubSeq(t, Bound(t, sep, j - 1) + 1, Bound(t, sep, j) - 1)
              = SubSeq(s, Bound(s, sep, j - 1) + 1, Bound(s, sep, j) - 1)
  <2>1. j \in 0..K - 1 /\ j - 1 \in 0..K - 1
    BY <1>5
  <2>2. Bound(t, sep, j - 1) = Bound(s, sep, j - 1) /\ Bound(t, sep, j) = Bound(s, sep, j)
    BY <1>14, <2>1
  <2>3. Bound(s, sep, j - 1) \in 0..n + 1 /\ Bound(s, sep, j) \in 0..n + 1
    BY <1>5, <2>1
  <2> DEFINE a == Bound(s, sep, j - 1) + 1
             b == Bound(s, sep, j) - 1
  <2>4. a \in Nat \ {0} /\ b \in Int /\ b <= n
    BY <1>1, <2>3
  <2> HIDE DEF a, b
  <2>5. <<sep>> \o w \in Seq(S)
    BY <1>1, ConcatProperties
  <2>6. t = s \o (<<sep>> \o w)
    BY <1>1, ConcatAssociative DEF t, front
  <2>7. SubSeq(t, a, b) = SubSeq(s, a, b)
    BY <2>4, <2>5, <2>6, FrontOfConcat DEF n
  <2> QED
    BY <2>2, <2>7 DEF a, b
<1>18. SubSeq(t, Bound(t, sep, K - 1) + 1, Bound(t, sep, K) - 1) = w
  <2>1. Bound(t, sep, K - 1) + 1 = n + 2 /\ Bound(t, sep, K) - 1 = n + m + 1
    BY <1>1, <1>14, <1>15, <1>16 DEF T
  <2>2. n + 2 = Len(front) + 1 /\ n + m + 1 = Len(front) + Len(w)
    BY <1>1, <1>2 DEF m
  <2>3. SubSeq(t, Len(front) + 1, Len(front) + Len(w)) = w
    BY <1>2, BackOfConcat DEF t
  <2> QED
    BY <2>1, <2>2, <2>3
<1>19. Split(t, sep) = [j \in 1..K |-> IF j = K THEN w ELSE Split(s, sep)[j]]
  <2>1. Cardinality(B) - 1 = K
    BY <1>11, <1>16
  <2>2. ASSUME NEW j \in 1..K
        PROVE  SubSeq(t, Bound(t, sep, j - 1) + 1, Bound(t, sep, j) - 1)
               = IF j = K THEN w ELSE Split(s, sep)[j]
    <3>1. CASE j = K
      BY <3>1, <1>18
    <3>2. CASE j # K
      <4>1. j \in 1..K - 1
        BY <3>2, <1>16
      <4> QED
        BY <3>2, <4>1, <1>8, <1>17
    <3> QED
      BY <3>1, <3>2
  <2> QED
    BY <1>9, <2>1, <2>2
<1>20. Split(s, sep) \in Seq(Seq(S))
  <2>1. ASSUME NEW j \in 1..K - 1
        PROVE  SubSeq(s, Bound(s, sep, j - 1) + 1, Bound(s, sep, j) - 1) \in Seq(S)
    <3>1. j \in 0..K - 1 /\ j - 1 \in 0..K - 1
      BY <1>5
    <3> DEFINE a == Bound(s, sep, j - 1) + 1
               b == Bound(s, sep, j) - 1
    <3>2. a \in Nat \ {0} /\ b \in Int /\ b <= n
      <4>1. Bound(s, sep, j - 1) \in 0..n + 1 /\ Bound(s, sep, j) \in 0..n + 1
        BY <1>5, <3>1
      <4> QED
        BY <1>1, <4>1
    <3> HIDE DEF a, b
    <3>3. \A i \in a..b : s[i] \in S
      BY <1>1, <3>2, ElementOfSeq DEF n
    <3>4. SubSeq(s, a, b) \in Seq(S)
      BY <3>2, <3>3, SubSeqProperties
    <3> QED
      BY <3>4 DEF a, b
  <2> QED
    BY <1>8, <1>16, <2>1
<1>21. Append(Split(s, sep), w) = [j \in 1..K |-> IF j = K THEN w ELSE Split(s, sep)[j]]
  <2>1. Len(Split(s, sep)) = K - 1
    BY <1>8, <1>16
  <2>2. Append(Split(s, sep), w) = [j \in 1..K |-> Append(Split(s, sep), w)[j]]
    <3>1. Append(Split(s, sep), w) \in Seq(Seq(S)) /\ Len(Append(Split(s, sep), w)) = K
      BY <1>16, <1>20, <2>1, AppendProperties
    <3>2. Append(Split(s, sep), w) \in [1..K -> Seq(S)]
      BY <3>1, LenProperties
    <3> QED
      BY <3>2
  <2>3. ASSUME NEW j \in 1..K
        PROVE  Append(Split(s, sep), w)[j] = IF j = K THEN w ELSE Split(s, sep)[j]
    <3>1. /\ Append(Split(s, sep), w)[Len(Split(s, sep)) + 1] = w
          /\ \A i \in 1..Len(Split(s, sep)) : Append(Split(s, sep), w)[i] = Split(s, sep)[i]
      BY <1>20, AppendProperties
    <3>2. Len(Split(s, sep)) + 1 = K /\ (j # K => j \in 1..Len(Split(s, sep)))
      BY <1>16, <2>1
    <3> QED
      BY <3>1, <3>2
  <2> QED
    BY <2>2, <2>3
<1> QED
    BY <1>19, <1>20, <1>21 DEF t, front

(* f[i] is the first i parts of x, sequences over S, joined.                *)
Steps(S, x, m, f) ==
    \A i \in 1..m : /\ x[i] \in Seq(S) /\ f[i] \in Seq(S)
                    /\ f[i] = IF i = 1 THEN x[i] ELSE f[i - 1] \o x[i]

(* The concatenations of the first parts of x, the last of them all of it. *)
LEMMA FlattenSteps ==
    ASSUME NEW S, NEW x \in Seq(Seq(S)), Len(x) # 0
    PROVE  \E f : f[Len(x)] = FlattenSeq(x) /\ Steps(S, x, Len(x), f)
<1> DEFINE n == Len(x)
<1>1. n \in Nat /\ n \in 1..n /\ \A i \in 1..n : x[i] \in Seq(S)
    BY LenProperties, ElementOfSeq
<1>2. FlattenSeq(x) = (CHOOSE f : Joins(x, n, f))[n]
    BY Zenon DEF FlattenSeq, Joins
<1>3. PICK f : f = (CHOOSE g : Joins(x, n, g)) /\ Joins(x, n, f)
  <2>1. \E f : Joins(x, n, f)
    BY <1>1, FlattenDefined
  <2> QED
    BY <2>1, Zenon
<1> HIDE DEF n
<1>4. \A i \in 1..n : f[i] = IF i = 1 THEN x[i] ELSE f[i - 1] \o x[i]
    BY <1>1, <1>3, JoinsByStep
<1> DEFINE Wrong == {m \in Nat : m \in 1..n /\ f[m] \notin Seq(S)}
<1>5. Wrong = {}
  <2>1. SUFFICES ASSUME Wrong # {} PROVE FALSE
    OBVIOUS
  <2>2. PICK m \in Wrong : \A k \in Wrong : ~(<<k, m>> \in OpToRel(<, Nat))
    BY <2>1, WFMin, NatLessThanWellFounded
  <2>3. m \in Nat /\ m \in 1..n
    OBVIOUS
  <2>4. m # 1
    BY <2>3, <1>1, <1>4
  <2>5. m - 1 \in Nat /\ m - 1 \in 1..n /\ m - 1 < m
    BY <2>3, <2>4, <1>1
  <2>6. <<m - 1, m>> \in OpToRel(<, Nat)
    BY <2>3, <2>5, Zenon DEF OpToRel
  <2>7. f[m - 1] \in Seq(S)
    <3>1. m - 1 \notin Wrong
      BY <2>2, <2>6, Zenon
    <3> QED
      BY <3>1, <2>5
  <2>8. x[m] \in Seq(S) /\ f[m] = f[m - 1] \o x[m]
    BY <2>3, <2>4, <1>1, <1>4
  <2>9. f[m] \in Seq(S)
    BY <2>7, <2>8, ConcatProperties
  <2> QED
    BY <2>9
<1> QED
  <2>1. f[n] = FlattenSeq(x)
    BY <1>2, <1>3
  <2>2. \A i \in 1..n : f[i] \in Seq(S)
    BY <1>1, <1>5
  <2> QED
    BY <2>1, <2>2, <1>1, <1>4 DEF n, Steps

(* Concatenating the parts of two sequences is concatenating what each of  *)
(* them comes to.                                                          *)
LEMMA FlattenConcat ==
    ASSUME NEW S, NEW x \in Seq(Seq(S)), NEW y \in Seq(Seq(S))
    PROVE  /\ FlattenSeq(x) \in Seq(S)
           /\ FlattenSeq(x \o y) = FlattenSeq(x) \o FlattenSeq(y)
<1> DEFINE n == Len(x)
           m == Len(y)
           z == x \o y
<1>1. /\ n \in Nat /\ m \in Nat
      /\ \A i \in 1..n : x[i] \in Seq(S)
      /\ \A i \in 1..m : y[i] \in Seq(S)
    BY LenProperties, ElementOfSeq
<1>2. /\ z \in Seq(Seq(S)) /\ Len(z) = n + m
      /\ \A i \in 1..n + m : z[i] = IF i <= n THEN x[i] ELSE y[i - n]
    BY ConcatProperties
<1>3. \A v \in Seq(Seq(S)) : Len(v) = 0 => v = << >> /\ FlattenSeq(v) = << >>
    BY EmptySeq DEF FlattenSeq
<1>4. \A v \in Seq(Seq(S)) :
          Len(v) # 0 => \E f : f[Len(v)] = FlattenSeq(v) /\ Steps(S, v, Len(v), f)
    BY FlattenSteps
<1>5. \A v \in Seq(Seq(S)) : FlattenSeq(v) \in Seq(S)
  <2> SUFFICES ASSUME NEW v \in Seq(Seq(S)) PROVE FlattenSeq(v) \in Seq(S)
    OBVIOUS
  <2>1. CASE Len(v) = 0
    BY <2>1, <1>3, EmptySeq
  <2>2. CASE Len(v) # 0
    <3>1. PICK f : f[Len(v)] = FlattenSeq(v) /\ Steps(S, v, Len(v), f)
      BY <2>2, <1>4
    <3>2. Len(v) \in 1..Len(v)
      BY <2>2, LenProperties
    <3> QED
      BY <3>1, <3>2 DEF Steps
  <2> QED
    BY <2>1, <2>2
<1>6. CASE n = 0
  <2>1. x = << >> /\ FlattenSeq(x) = << >> /\ z = y
    BY <1>3, <1>6, ConcatEmptySeq
  <2>2. << >> \o FlattenSeq(y) = FlattenSeq(y)
    BY <1>5, ConcatEmptySeq
  <2> HIDE DEF z
  <2> QED
    BY <2>1, <2>2, <1>5 DEF z
<1>7. CASE m = 0
  <2>1. y = << >> /\ FlattenSeq(y) = << >> /\ z = x
    BY <1>3, <1>7, ConcatEmptySeq
  <2>2. FlattenSeq(x) \o << >> = FlattenSeq(x)
    BY <1>5, ConcatEmptySeq
  <2> HIDE DEF z
  <2> QED
    BY <2>1, <2>2, <1>5 DEF z
<1>8. CASE n # 0 /\ m # 0
  <2>1. n + m # 0
    BY <1>1, <1>8
  <2> HIDE DEF z
  <2>2. PICK f : f[n] = FlattenSeq(x) /\ Steps(S, x, n, f)
    BY <1>8, <1>4
  <2>3. PICK h : h[m] = FlattenSeq(y) /\ Steps(S, y, m, h)
    BY <1>8, <1>4
  <2>4. PICK g : g[Len(z)] = FlattenSeq(z) /\ Steps(S, z, Len(z), g)
    BY <2>1, <1>2, <1>4
  <2> DEFINE l == Len(z)
  <2>5. n \in Nat \ {0} /\ m \in Nat \ {0} /\ l = n + m
    BY <1>1, <1>2, <1>8
  <2> HIDE DEF n, m, l
  <2>6. /\ n \in Nat \ {0} /\ m \in Nat \ {0} /\ l = n + m
        /\ \A i \in 1..l : z[i] = IF i <= n THEN x[i] ELSE y[i - n]
        /\ Steps(S, x, n, f) /\ Steps(S, y, m, h) /\ Steps(S, z, l, g)
    BY <2>2, <2>3, <2>4, <2>5, <1>2 DEF l
  <2>7. g[l] = f[n] \o h[m]
    <3> DEFINE Wrong == {i \in Nat : i \in 1..l /\ g[i] # IF i <= n THEN f[i] ELSE f[n] \o h[i - n]}
    <3>1. Wrong = {}
      <4>1. SUFFICES ASSUME Wrong # {} PROVE FALSE
        BY <2>6
      <4>2. PICK i \in Wrong : \A k \in Wrong : ~(<<k, i>> \in OpToRel(<, Nat))
        BY <2>6, <4>1, WFMin, NatLessThanWellFounded
      <4>3. i \in Nat /\ i \in 1..l /\ g[i] # IF i <= n THEN f[i] ELSE f[n] \o h[i - n]
        BY <2>6
      <4>4. i # 1
        <5>1. 1 \in 1..n /\ 1 \in 1..l /\ 1 <= n
          BY <2>6
        <5> HIDE DEF Wrong
        <5>2. g[1] = z[1] /\ z[1] = x[1] /\ f[1] = x[1]
          BY <2>6, <5>1 DEF Steps
        <5> QED
          BY <2>6, <5>1, <5>2, <4>3
      <4>5. i - 1 \in Nat /\ i - 1 \in 1..l /\ i - 1 < i
        BY <2>6, <4>3, <4>4
      <4>6. <<i - 1, i>> \in OpToRel(<, Nat)
        BY <2>6, <4>3, <4>5, Zenon DEF OpToRel
      <4>7. g[i - 1] = IF i - 1 <= n THEN f[i - 1] ELSE f[n] \o h[i - 1 - n]
        <5>1. i - 1 \notin Wrong
          BY <2>6, <4>2, <4>6, Zenon
        <5> QED
          BY <2>6, <5>1, <4>5
      <4> HIDE DEF Wrong
      <4>8. g[i] = g[i - 1] \o z[i] /\ z[i] = IF i <= n THEN x[i] ELSE y[i - n]
        BY <2>6, <4>3, <4>4 DEF Steps
      <4>9. CASE i <= n
        <5>1. i \in 1..n /\ i - 1 <= n
          BY <2>6, <4>3, <4>9
        <5>2. f[i] = f[i - 1] \o x[i]
          BY <2>6, <5>1, <4>4 DEF Steps
        <5> QED
          BY <2>6, <5>1, <5>2, <4>3, <4>7, <4>8, <4>9
      <4>10. CASE i = n + 1
        <5>1. i - 1 = n /\ i - 1 <= n /\ ~(i <= n) /\ i - n = 1 /\ 1 \in 1..m
          BY <2>6, <4>10
        <5>2. h[1] = y[1]
          BY <2>6, <5>1 DEF Steps
        <5> QED
          BY <2>6, <5>1, <5>2, <4>3, <4>7, <4>8, <4>10
      <4>11. CASE n + 1 < i
        <5>1. i - n \in 1..m /\ i - n # 1 /\ i - 1 - n = i - n - 1 /\ i - n - 1 \in 1..m
              /\ ~(i <= n) /\ ~(i - 1 <= n)
          BY <2>6, <4>3, <4>11
        <5> DEFINE k == i - n
        <5>2. k \in 1..m /\ k # 1 /\ k - 1 \in 1..m /\ n \in 1..n
          BY <2>6, <5>1
        <5>3. g[i - 1] = f[n] \o h[k - 1] /\ g[i] = g[i - 1] \o y[k] /\ g[i] # f[n] \o h[k]
          BY <2>6, <5>1, <4>3, <4>7, <4>8
        <5> HIDE DEF k
        <5>4. h[k] = h[k - 1] \o y[k] /\ h[k - 1] \in Seq(S) /\ y[k] \in Seq(S) /\ f[n] \in Seq(S)
          BY <2>6, <5>2, Zenon DEF Steps
        <5>5. (f[n] \o h[k - 1]) \o y[k] = f[n] \o (h[k - 1] \o y[k])
          <6>1. \A p, q, r \in Seq(S) : (p \o q) \o r = p \o (q \o r)
            <7> TAKE p, q, r \in Seq(S)
            <7> QED
              BY ConcatAssociative
          <6> QED
            BY <5>4, <6>1
        <5> QED
          BY <2>6, <5>3, <5>4, <5>5
      <4> QED
        BY <2>6, <4>3, <4>9, <4>10, <4>11
    <3>2. ASSUME NEW i \in 1..l
          PROVE  g[i] = IF i <= n THEN f[i] ELSE f[n] \o h[i - n]
      <4>1. i \in Nat
        BY <2>6
      <4>2. i \notin Wrong
        BY <2>6, <3>1
      <4> QED
        BY <2>6, <4>1, <4>2, Zenon
    <3> HIDE DEF Wrong
    <3>3. l \in 1..l /\ ~(l <= n) /\ l - n = m
        BY <2>6
    <3> QED
        BY <2>6, <3>2, <3>3
  <2>8. g[l] = FlattenSeq(x) \o FlattenSeq(y)
    BY <2>2, <2>3, <2>7
  <2> QED
    BY <2>4, <2>8, <1>5 DEF z, l
<1> QED
    BY <1>6, <1>7, <1>8, <1>5

(* What the reader makes of the character at one position, and that no     *)
(* escape is cut off at the end.                                           *)
InEscape(s, i) == \E j \in {i - 1, i - 2} : j \in DOMAIN s /\ s[j] = "%"
Meant(s, i) == {c \in DOMAIN Hex : i + 2 <= Len(s) /\ Hex[c] = <<s[i + 1], s[i + 2]>>}
Read(s, i) ==
    IF InEscape(s, i) THEN << >>
    ELSE IF s[i] = "%" THEN SetToSeq(Meant(s, i))
    ELSE <<s[i]>>
Reads(s) == [i \in 1..Len(s) |-> Read(s, i)]
Char == STRING \ {Nul}
Legible(s) ==
    /\ \A i \in 1..Len(s) : s[i] = "%" => i + 2 <= Len(s)
    /\ Reads(s) \in Seq(Seq(Char))

LEMMA UnescapeReads ==
    ASSUME NEW s
    PROVE  Unescape(s) = FlattenSeq(Reads(s))
BY Zenon DEF Unescape, Reads, Read, InEscape, Meant

(* No escape reaches from one legible string into the next.                *)
LEMMA ReadsConcat ==
    ASSUME NEW S, NEW u \in Seq(S), NEW v \in Seq(S), Legible(u), Legible(v)
    PROVE  /\ Legible(u \o v)
           /\ Reads(u \o v) = Reads(u) \o Reads(v)
<1> DEFINE n == Len(u)
           m == Len(v)
           w == u \o v
<1>1. /\ n \in Nat /\ m \in Nat /\ DOMAIN u = 1..n /\ DOMAIN v = 1..m
      /\ w \in Seq(S) /\ Len(w) = n + m /\ DOMAIN w = 1..n + m
      /\ \A i \in 1..n + m : w[i] = IF i <= n THEN u[i] ELSE v[i - n]
    BY ConcatProperties, LenProperties
<1>2. /\ \A i \in 1..n : u[i] = "%" => i + 2 <= n
      /\ \A i \in 1..m : v[i] = "%" => i + 2 <= m
    BY DEF Legible
<1>3. Reads(u) \in Seq(Seq(Char)) /\ Len(Reads(u)) = n /\ Reads(v) \in Seq(Seq(Char)) /\ Len(Reads(v)) = m
    BY <1>1 DEF Legible, Reads
<1> HIDE DEF n, m, w
<1>4. ASSUME NEW i \in 1..n PROVE Read(w, i) = Read(u, i)
  <2>1. \A j \in {i - 1, i - 2} : j \in DOMAIN w <=> j \in DOMAIN u
    BY <1>1
  <2>2. \A j \in DOMAIN u : w[j] = u[j]
    BY <1>1
  <2>3. InEscape(w, i) <=> InEscape(u, i)
    BY <2>1, <2>2 DEF InEscape
  <2>4. w[i] = u[i]
    BY <1>1
  <2>5. ASSUME u[i] = "%" PROVE Meant(w, i) = Meant(u, i)
    <3>1. i + 2 <= n /\ i + 2 <= n + m /\ i + 1 \in 1..n /\ i + 2 \in 1..n
      BY <1>1, <1>2, <2>5
    <3>2. w[i + 1] = u[i + 1] /\ w[i + 2] = u[i + 2]
      BY <1>1, <2>2, <3>1
    <3> QED
      BY <1>1, <3>1, <3>2 DEF Meant, n
  <2> QED
    BY <2>3, <2>4, <2>5 DEF Read
<1>5. ASSUME NEW i \in 1..m PROVE Read(w, n + i) = Read(v, i)
  <2>1. ASSUME NEW j \in 1..m PROVE n + j \in 1..n + m /\ w[n + j] = v[j]
    <3>1. n + j \in 1..n + m /\ ~(n + j <= n) /\ n + j - n = j
      BY <1>1
    <3> QED
      BY <1>1, <3>1
  <2>2. InEscape(w, n + i) <=> InEscape(v, i)
    <3>1. ASSUME NEW d \in {1, 2}, i - d \in 1..m
          PROVE  n + i - d \in 1..n + m /\ w[n + i - d] = v[i - d]
      <4>1. n + (i - d) = n + i - d
        BY <1>1
      <4> QED
        BY <2>1, <3>1, <4>1
    <3>2. ASSUME NEW d \in {1, 2}, i - d \notin 1..m, n + i - d \in 1..n + m
          PROVE  w[n + i - d] # "%"
      <4>1. n + i - d \in 1..n /\ n < n + i - d + 2
        BY <1>1, <3>2
      <4>2. w[n + i - d] = u[n + i - d]
        BY <1>1, <4>1
      <4>3. u[n + i - d] # "%"
        BY <1>1, <1>2, <4>1
      <4> QED
        BY <4>2, <4>3
    <3>3. InEscape(v, i) <=> \E d \in {1, 2} : i - d \in 1..m /\ v[i - d] = "%"
      BY <1>1 DEF InEscape
    <3>4. InEscape(w, n + i) <=> \E d \in {1, 2} : n + i - d \in 1..n + m /\ w[n + i - d] = "%"
      BY <1>1 DEF InEscape
    <3> QED
      BY <3>1, <3>2, <3>3, <3>4
  <2>3. w[n + i] = v[i]
    BY <2>1
  <2>4. ASSUME v[i] = "%" PROVE Meant(w, n + i) = Meant(v, i)
    <3>1. i + 2 <= m /\ n + i + 2 <= n + m /\ i + 1 \in 1..m /\ i + 2 \in 1..m
          /\ n + (i + 1) = n + i + 1 /\ n + (i + 2) = n + i + 2
      BY <1>1, <1>2, <2>4
    <3>2. w[n + i + 1] = v[i + 1] /\ w[n + i + 2] = v[i + 2]
      BY <2>1, <3>1
    <3> QED
      BY <1>1, <3>1, <3>2 DEF Meant, m
  <2> QED
    BY <2>2, <2>3, <2>4 DEF Read
<1>6. /\ Reads(u) \o Reads(v) \in Seq(Seq(Char)) /\ Len(Reads(u) \o Reads(v)) = n + m
      /\ \A i \in 1..n + m : (Reads(u) \o Reads(v))[i] = IF i <= n THEN Reads(u)[i] ELSE Reads(v)[i - n]
    BY <1>3, ConcatProperties
<1>7. /\ \A i \in 1..n : Reads(u)[i] = Read(u, i)
      /\ \A i \in 1..m : Reads(v)[i] = Read(v, i)
    BY DEF Reads, n, m
<1>8. Reads(w) = Reads(u) \o Reads(v)
  <2>1. Reads(w) = [i \in 1..n + m |-> Read(w, i)]
    BY <1>1 DEF Reads
  <2>2. ASSUME NEW i \in 1..n + m PROVE Read(w, i) = (Reads(u) \o Reads(v))[i]
    <3>1. CASE i <= n
      BY <3>1, <1>1, <1>4, <1>6, <1>7
    <3>2. CASE ~(i <= n)
      <4>1. i - n \in 1..m /\ n + (i - n) = i
        BY <3>2, <1>1
      <4> QED
        BY <3>2, <4>1, <1>5, <1>6, <1>7
    <3> QED
      BY <3>1, <3>2
  <2>3. Reads(u) \o Reads(v) = [i \in 1..n + m |-> (Reads(u) \o Reads(v))[i]]
    BY <1>6, LenProperties
  <2> QED
    BY <2>1, <2>2, <2>3
<1>9. Legible(w)
  <2>1. ASSUME NEW i \in 1..n + m, w[i] = "%" PROVE i + 2 <= n + m
    <3>1. CASE i <= n
      BY <2>1, <3>1, <1>1, <1>2
    <3>2. CASE ~(i <= n)
      <4>1. i - n \in 1..m
        BY <3>2, <1>1
      <4>2. v[i - n] = "%"
        BY <2>1, <3>2, <1>1
      <4>3. i - n + 2 <= m
        BY <4>1, <4>2, <1>2
      <4> QED
        BY <4>1, <4>3, <1>1
    <3> QED
      BY <3>1, <3>2
  <2> QED
    BY <2>1, <1>1, <1>6, <1>8 DEF Legible
<1> QED
    BY <1>8, <1>9 DEF w

LEMMA UnescapeConcat ==
    ASSUME NEW S, NEW u \in Seq(S), NEW v \in Seq(S), Legible(u), Legible(v)
    PROVE  /\ Legible(u \o v)
           /\ Unescape(u \o v) = Unescape(u) \o Unescape(v)
           /\ Unescape(u) \in Seq(Char)
<1>1. Legible(u \o v) /\ Reads(u \o v) = Reads(u) \o Reads(v)
    BY ReadsConcat
<1>2. Reads(u) \in Seq(Seq(Char)) /\ Reads(v) \in Seq(Seq(Char))
    BY DEF Legible
<1>3. /\ FlattenSeq(Reads(u)) \in Seq(Char)
      /\ FlattenSeq(Reads(u) \o Reads(v)) = FlattenSeq(Reads(u)) \o FlattenSeq(Reads(v))
    BY <1>2, FlattenConcat
<1> QED
    BY <1>1, <1>3, UnescapeReads

(* A set of one element as a sequence.                                     *)
LEMMA OneAsSeq ==
    ASSUME NEW c
    PROVE  SetToSeq({c}) = <<c>>
<1>1. Cardinality({c}) = 1
    BY FS_Singleton
<1>2. SetToSeq({c}) = CHOOSE f \in [1..1 -> {c}] : IsInjective(f)
    BY <1>1 DEF SetToSeq
<1>3. <<c>> \in [1..1 -> {c}] /\ IsInjective(<<c>>)
    BY DEF IsInjective
<1>4. \A f \in [1..1 -> {c}] : f = <<c>>
    OBVIOUS
<1> QED
    BY <1>2, <1>3, <1>4

(* What one part, and what three, come to.                                 *)
LEMMA FlattenOne ==
    ASSUME NEW S, NEW w \in Seq(S)
    PROVE  FlattenSeq(<<w>>) = w
<1>1. <<w>> \in Seq(Seq(S)) /\ Len(<<w>>) = 1 /\ Len(<<w>>) # 0 /\ <<w>>[1] = w
    OBVIOUS
<1>2. PICK f : f[Len(<<w>>)] = FlattenSeq(<<w>>) /\ Steps(S, <<w>>, Len(<<w>>), f)
    BY <1>1, FlattenSteps
<1>3. f[1] = w
    BY <1>1, <1>2 DEF Steps
<1> QED
    BY <1>1, <1>2, <1>3

(* No two characters are escaped alike.                                    *)
LEMMA HexInjective ==
    ASSUME NEW c \in DOMAIN Hex, NEW d \in DOMAIN Hex, Hex[c] = Hex[d]
    PROVE  c = d
<1> DEFINE space == " "
           amp == <<"2", "6">>
           eq == <<"3", "D">>
           per == <<"2", "5">>
           spc == <<"2", "0">>
<1>1. DOMAIN Hex = {"&", "=", "%", space}
    BY Zenon DEF Hex
<1>2. Hex["&"] = amp /\ Hex["="] = eq /\ Hex["%"] = per /\ Hex[space] = spc
    BY Zenon DEF Hex
<1>3. amp # eq /\ amp # per /\ amp # spc /\ eq # per /\ eq # spc /\ per # spc
    OBVIOUS
<1> HIDE DEF space, amp, eq, per, spc
<1> QED
    BY <1>1, <1>2, <1>3

(* The characters an encoded string is made of: neither separator is one.  *)
Clean == (STRING \ {Nul, "&", "="}) \cup {"%", "2", "5", "6", "3", "D", "0"}

(* The two digits of an escape.                                            *)
LEMMA EscapeDigits ==
    ASSUME NEW c \in DOMAIN Hex
    PROVE  \E a, b \in Clean \ {"%"} : Hex[c] = <<a, b>>
<1>1. /\ "2" \in Clean \ {"%"} /\ "5" \in Clean \ {"%"} /\ "6" \in Clean \ {"%"}
      /\ "3" \in Clean \ {"%"} /\ "D" \in Clean \ {"%"} /\ "0" \in Clean \ {"%"}
    BY DEF Clean
<1> DEFINE sp == " "
<1>2. DOMAIN Hex = {"&", "=", "%", sp}
    BY Zenon DEF Hex
<1>3. Hex["&"] = <<"2", "6">> /\ Hex["="] = <<"3", "D">> /\ Hex["%"] = <<"2", "5">> /\ Hex[sp] = <<"2", "0">>
    BY Zenon DEF Hex
<1> HIDE DEF sp
<1> QED
    BY <1>1, <1>2, <1>3, Zenon

LEMMA OneAndTwo ==
    ASSUME NEW S, NEW x \in S, NEW a \in S, NEW b \in S
    PROVE  <<x>> \o <<a, b>> = <<x, a, b>>
<1> DEFINE u == <<x>>
           v == <<a, b>>
           w == u \o v
<1>1. /\ u \in Seq(S) /\ v \in Seq(S) /\ Len(u) = 1 /\ Len(v) = 2
      /\ u[1] = x /\ v[1] = a /\ v[2] = b
    OBVIOUS
<1> HIDE DEF u, v
<1>2. w \in Seq(S) /\ Len(w) = 3 /\ w[1] = x /\ w[2] = a /\ w[3] = b
  <2>1. /\ w \in Seq(S) /\ Len(w) = Len(u) + Len(v)
        /\ \A i \in 1..Len(u) + Len(v) : w[i] = IF i <= Len(u) THEN u[i] ELSE v[i - Len(u)]
    BY <1>1, ConcatProperties
  <2> HIDE DEF w
  <2> QED
    BY <1>1, <2>1
<1> HIDE DEF w
<1>3. w = <<x, a, b>>
    BY <1>2
<1> QED
    BY <1>3 DEF w, u, v

(* One character as enc_write writes it, and as it reads back.             *)
Piece(c) == IF UrlSafe(c) THEN <<c>> ELSE <<"%">> \o Hex[c]

LEMMA PieceReads ==
    ASSUME NEW c \in Char
    PROVE  /\ Piece(c) \in Seq(Clean) /\ Len(Piece(c)) <= 3
           /\ Legible(Piece(c))
           /\ Unescape(Piece(c)) = <<c>>
<1>0. <<c>> \in Seq(Char) /\ << >> \in Seq(Char)
    OBVIOUS
<1>1. CASE UrlSafe(c)
  <2>1. c # "%" /\ c \in Clean
    <3>1. "&" \in DOMAIN Hex /\ "=" \in DOMAIN Hex /\ "%" \in DOMAIN Hex
      BY Zenon DEF Hex
    <3>2. c # "&" /\ c # "=" /\ c # "%"
      BY <1>1, <3>1 DEF UrlSafe
    <3> QED
      BY <3>2 DEF Clean, Char
  <2>2. Piece(c) = <<c>>
    BY <1>1 DEF Piece
  <2> DEFINE p == <<c>>
  <2>3. p \in Seq(Clean) /\ Len(p) = 1 /\ DOMAIN p = 1..1 /\ p[1] = c
    BY <2>1
  <2> HIDE DEF p
  <2>4. ~InEscape(p, 1)
    BY <2>3 DEF InEscape
  <2>5. Read(p, 1) = <<c>>
    BY <2>1, <2>3, <2>4 DEF Read
  <2>6. Reads(p) = << <<c>> >>
    BY <2>3, <2>5 DEF Reads
  <2>7. Legible(p)
    BY <1>0, <2>1, <2>3, <2>6 DEF Legible
  <2>8. Unescape(p) = <<c>>
    BY <1>0, <2>6, FlattenOne, UnescapeReads
  <2> QED
    BY <2>2, <2>3, <2>7, <2>8 DEF p
<1>2. CASE ~UrlSafe(c)
  <2>1. c \in DOMAIN Hex
    BY <1>2 DEF UrlSafe
  <2>2. PICK a \in Clean \ {"%"}, b \in Clean \ {"%"} : Hex[c] = <<a, b>>
    BY <2>1, EscapeDigits
  <2> DEFINE p == <<"%", a, b>>
  <2>3. Piece(c) = p
    <3>1. Piece(c) = <<"%">> \o Hex[c]
      BY <1>2 DEF Piece
    <3>2. <<"%">> \o <<a, b>> = <<"%", a, b>>
      <4>1. "%" \in Clean
        BY DEF Clean
      <4> QED
        BY <4>1, <2>2, OneAndTwo
    <3> QED
      BY <2>2, <3>1, <3>2, Zenon
  <2>4. /\ p \in Seq(Clean) /\ Len(p) = 3 /\ DOMAIN p = 1..3
        /\ p[1] = "%" /\ p[2] = a /\ p[3] = b /\ a # "%" /\ b # "%"
    BY <2>2 DEF Clean
  <2> HIDE DEF p
  <2>5. ~InEscape(p, 1) /\ InEscape(p, 2) /\ InEscape(p, 3)
    BY <2>4 DEF InEscape
  <2>6. Meant(p, 1) = {c}
    <3>1. \A d \in DOMAIN Hex : Hex[d] = <<p[1 + 1], p[1 + 2]>> <=> d = c
      BY <2>1, <2>2, <2>4, HexInjective
    <3>2. Meant(p, 1) = {d \in DOMAIN Hex : Hex[d] = <<p[1 + 1], p[1 + 2]>>}
      BY <2>4 DEF Meant
    <3> QED
      BY <2>1, <3>1, <3>2
  <2>7. Read(p, 1) = <<c>> /\ Read(p, 2) = << >> /\ Read(p, 3) = << >>
    BY <2>4, <2>5, <2>6, OneAsSeq DEF Read
  <2>8. Reads(p) = << <<c>>, << >>, << >> >>
    BY <2>4, <2>7 DEF Reads
  <2>9. Legible(p)
    BY <1>0, <2>4, <2>8 DEF Legible
  <2>10. Unescape(p) = <<c>>
    <3>1. << <<c>>, << >>, << >> >> = << <<c>> >> \o (<< << >> >> \o << << >> >>)
      OBVIOUS
    <3>2. << <<c>> >> \in Seq(Seq(Char)) /\ << << >> >> \in Seq(Seq(Char))
          /\ << << >> >> \o << << >> >> \in Seq(Seq(Char))
      BY <1>0
    <3>3. FlattenSeq(<< <<c>> >>) = <<c>> /\ FlattenSeq(<< << >> >>) = << >>
      BY <1>0, FlattenOne
    <3>4. FlattenSeq(<< << >> >> \o << << >> >>) = << >> \o << >>
      BY <3>2, <3>3, FlattenConcat
    <3>5. FlattenSeq(<< <<c>> >> \o (<< << >> >> \o << << >> >>))
          = FlattenSeq(<< <<c>> >>) \o FlattenSeq(<< << >> >> \o << << >> >>)
      BY <3>2, FlattenConcat
    <3>6. FlattenSeq(Reads(p)) = <<c>> \o (<< >> \o << >>)
      BY <2>8, <3>1, <3>3, <3>4, <3>5, Zenon
    <3>7. <<c>> \o (<< >> \o << >>) = <<c>>
      OBVIOUS
    <3> QED
      BY <3>6, <3>7, UnescapeReads
  <2> QED
    BY <2>3, <2>4, <2>9, <2>10
<1> QED
    BY <1>1, <1>2

(* An encoded string holds no separator and reads back as the string.      *)
LEMMA EncodeReads ==
    ASSUME NEW k \in Seq(Char)
    PROVE  /\ Encode(k) \in Seq(Clean)
           /\ Unescape(Encode(k)) = k
<1> DEFINE n == Len(k)
           x == [i \in 1..n |-> Piece(k[i])]
<1>1. n \in Nat /\ \A i \in 1..n : k[i] \in Char
    BY LenProperties, ElementOfSeq
<1>2. \A i \in 1..n : /\ Piece(k[i]) \in Seq(Clean)
                      /\ Legible(Piece(k[i])) /\ Unescape(Piece(k[i])) = <<k[i]>>
    BY <1>1, PieceReads
<1>3. x \in Seq(Seq(Clean)) /\ Len(x) = n
    BY <1>1, <1>2
<1>4. Encode(k) = FlattenSeq(x)
    BY Zenon DEF Encode, Piece
<1> HIDE DEF n
<1>5. CASE n = 0
  <2>1. x = << >> /\ k = << >>
    BY <1>3, <1>5, EmptySeq DEF n
  <2>2. Encode(k) = << >>
    BY <2>1, <1>4 DEF FlattenSeq
  <2>3. Reads(<< >>) = << >>
    BY DEF Reads
  <2>4. Unescape(<< >>) = << >>
    BY <2>3, UnescapeReads DEF FlattenSeq
  <2>5. << >> \in Seq(Clean)
    OBVIOUS
  <2> HIDE DEF x
  <2> QED
    BY <2>1, <2>2, <2>4, <2>5
<1>6. CASE n # 0
  <2>1. PICK f : f[Len(x)] = FlattenSeq(x) /\ Steps(Clean, x, Len(x), f)
    BY <1>3, <1>6, FlattenSteps
  <2>2. \A i \in 1..n : x[i] = Piece(k[i])
    OBVIOUS
  <2> HIDE DEF x
  <2>3. \A i \in 1..n : f[i] \in Seq(Clean) /\ f[i] = IF i = 1 THEN x[i] ELSE f[i - 1] \o x[i]
    BY <2>1, <1>3 DEF Steps
  <2> DEFINE Good(i) == Legible(f[i]) /\ Unescape(f[i]) = SubSeq(k, 1, i)
             Wrong == {i \in Nat : i \in 1..n /\ ~Good(i)}
  <2>4. Wrong = {}
    <3>1. SUFFICES ASSUME Wrong # {} PROVE FALSE
      OBVIOUS
    <3>2. PICK i \in Wrong : \A j \in Wrong : ~(<<j, i>> \in OpToRel(<, Nat))
      BY <3>1, WFMin, NatLessThanWellFounded
    <3>3. i \in Nat /\ i \in 1..n /\ ~(Legible(f[i]) /\ Unescape(f[i]) = SubSeq(k, 1, i))
      OBVIOUS
    <3>4. i - 1 \in Nat /\ i - 1 < i
      BY <3>3, <1>1
    <3>5. <<i - 1, i>> \in OpToRel(<, Nat)
      BY <3>3, <3>4, Zenon DEF OpToRel
    <3>6. i # 1 => Legible(f[i - 1]) /\ Unescape(f[i - 1]) = SubSeq(k, 1, i - 1)
      <4>1. i - 1 \notin Wrong
        BY <3>2, <3>5, Zenon
      <4>2. i # 1 => i - 1 \in 1..n
        BY <3>3, <1>1
      <4> QED
        BY <3>4, <4>1, <4>2
    <3> HIDE DEF Wrong, Good
    <3>7. /\ Piece(k[i]) \in Seq(Clean) /\ Legible(Piece(k[i])) /\ Unescape(Piece(k[i])) = <<k[i]>>
          /\ f[i] = IF i = 1 THEN Piece(k[i]) ELSE f[i - 1] \o Piece(k[i])
      BY <3>3, <1>2, <2>2, <2>3
    <3>8. CASE i = 1
      <4>1. SubSeq(k, 1, 1) = <<k[1]>>
        <5>1. 1 \in Int /\ \A j \in 1..1 : k[j] \in Char
          BY <1>1, <3>3, <3>8
        <5>2. /\ SubSeq(k, 1, 1) \in Seq(Char) /\ Len(SubSeq(k, 1, 1)) = 1
              /\ SubSeq(k, 1, 1)[1] = k[1]
          BY <5>1, SubSeqProperties
        <5>3. k[1] \in Char
          BY <1>1, <3>3, <3>8
        <5>4. PICK u \in Seq(Char), c \in Char : u = SubSeq(k, 1, 1) /\ c = k[1]
          BY <5>2, <5>3, Zenon
        <5>5. Len(u) = 1 /\ u[1] = c
          BY <5>2, <5>4
        <5>6. u = <<c>>
          BY <5>5
        <5> QED
          BY <5>4, <5>6
      <4> QED
        BY <4>1, <3>3, <3>7, <3>8
    <3>9. CASE i # 1
      <4>1. i - 1 \in 1..n /\ f[i - 1] \in Seq(Clean)
        BY <3>3, <3>9, <1>1, <2>3
      <4>2. PICK u \in Seq(Clean), v \in Seq(Clean) : u = f[i - 1] /\ v = Piece(k[i])
        BY <4>1, <3>7
      <4>3. /\ Legible(u) /\ Unescape(u) = SubSeq(k, 1, i - 1)
            /\ Legible(v) /\ Unescape(v) = <<k[i]>>
            /\ f[i] = u \o v
        BY <4>2, <3>6, <3>7, <3>9
      <4>4. Legible(u \o v) /\ Unescape(u \o v) = Unescape(u) \o Unescape(v)
        BY <4>3, UnescapeConcat
      <4>5. SubSeq(k, 1, i) = SubSeq(k, 1, i - 1) \o <<k[i]>>
        <5>1. 1 \in 1..Len(k) /\ i \in 1..Len(k)
          BY <3>3, <1>1 DEF n
        <5> QED
          BY <5>1, SubSeqRecursiveSecond
      <4> QED
        BY <4>3, <4>4, <4>5, <3>3
    <3> QED
      BY <3>8, <3>9
  <2>5. ASSUME NEW i \in 1..n PROVE Unescape(f[i]) = SubSeq(k, 1, i)
    <3>1. i \in Nat
      OBVIOUS
    <3>2. i \notin Wrong
      BY <2>4
    <3> QED
      BY <3>1, <3>2, Zenon
  <2> HIDE DEF Wrong, Good
  <2>6. n \in 1..n /\ f[n] = Encode(k)
    BY <1>1, <1>3, <1>4, <1>6, <2>1
  <2>7. SubSeq(k, 1, n) = k
    BY SubSeqFull DEF n
  <2> QED
    BY <2>3, <2>5, <2>6, <2>7
<1> QED
    BY <1>5, <1>6

(* A pair as it is written, and as the reader takes a part of the query.   *)
PairText(k, v) == (Encode(k) \o <<"=">>) \o Encode(v)
ReadPart(part) == [j \in DOMAIN Split(part, "=") |-> Unescape(Split(part, "=")[j])]

LEMMA DecodeParts ==
    ASSUME NEW s
    PROVE  Decode(s) = IF s = << >> THEN << >>
                       ELSE [j \in DOMAIN Split(s, "&") |-> ReadPart(Split(s, "&")[j])]
BY Zenon DEF Decode, ReadPart

(* A pair, as the function from its two places.                            *)
LEMMA PairAsFunction ==
    ASSUME NEW x, NEW y
    PROVE  [j \in 1..2 |-> IF j = 1 THEN x ELSE y] = <<x, y>>
<1>1. DOMAIN <<x, y>> = 1..2 /\ <<x, y>>[1] = x /\ <<x, y>>[2] = y
    OBVIOUS
<1>2. <<x, y>> = [j \in 1..2 |-> <<x, y>>[j]]
    BY <1>1
<1> QED
    BY <1>1, <1>2

(* A second entry, and joining in another order.                           *)
LEMMA AppendToOne ==
    ASSUME NEW S, NEW x \in S, NEW y \in S
    PROVE  Append(<<x>>, y) = <<x, y>>
<1> DEFINE p == Append(<<x>>, y)
<1>1. <<x>> \in Seq(S) /\ Len(<<x>>) = 1 /\ <<x>>[1] = x
    OBVIOUS
<1>2. p \in Seq(S) /\ Len(p) = 2 /\ p[1] = x /\ p[2] = y
    BY <1>1, AppendProperties
<1> HIDE DEF p
<1>3. p = <<x, y>>
    BY <1>2
<1> QED
    BY <1>3 DEF p

JoinsLater(t, a, b, q, z) ==
    t \o (((a \o b) \o q) \o z) = (t \o a) \o ((b \o q) \o z)

LEMMA JoinedLater == \A t, a, b, q, z \in Seq(Byte) : JoinsLater(t, a, b, q, z)
<1> DEFINE J(u, v) == u \o v
           X == Seq(Byte)
<1>1. \A u, v \in X : J(u, v) \in X
    BY ConcatProperties
<1>2. \A u, v, w \in X : J(J(u, v), w) = J(u, J(v, w))
  <2> TAKE u, v, w \in X
  <2> QED
    BY ConcatAssociative
<1> HIDE DEF J, X
<1>3. ASSUME NEW t \in X, NEW a \in X, NEW b \in X, NEW q \in X, NEW z \in X
      PROVE  J(t, J(J(J(a, b), q), z)) = J(J(t, a), J(J(b, q), z))
  <2>1. J(b, q) \in X /\ J(J(b, q), z) \in X
    BY <1>1
  <2>2. J(J(a, b), q) = J(a, J(b, q)) /\ J(J(a, J(b, q)), z) = J(a, J(J(b, q), z))
    BY <1>2, <2>1
  <2>3. J(J(t, a), J(J(b, q), z)) = J(t, J(a, J(J(b, q), z)))
    BY <1>2, <2>1
  <2> QED
    BY <2>2, <2>3
<1> QED
    BY <1>3 DEF J, X, JoinsLater

(* A pair holds no separator of pairs and reads back as itself.            *)
LEMMA PairReads ==
    ASSUME NEW k \in Seq(Char), NEW v \in Seq(Char)
    PROVE  /\ PairText(k, v) \in Seq(Byte) /\ PairText(k, v) # << >>
           /\ \A i \in 1..Len(PairText(k, v)) : PairText(k, v)[i] # "&"
           /\ ReadPart(PairText(k, v)) = <<k, v>>
<1>1. PICK a \in Seq(Clean), b \in Seq(Clean) :
          /\ a = Encode(k) /\ b = Encode(v)
          /\ Unescape(a) = k /\ Unescape(b) = v
    BY EncodeReads
<1> DEFINE W == Clean \cup {"="}
           mid == a \o <<"=">>
           whole == mid \o b
<1>2. Clean \subseteq W /\ "=" \in W /\ "=" \notin Clean /\ "&" \notin W /\ W \subseteq Byte
    BY DEF Clean, Byte, Written
<1> HIDE DEF W
<1>3. a \in Seq(W) /\ b \in Seq(W) /\ <<"=">> \in Seq(W) /\ Len(<<"=">>) = 1
    BY <1>2, SeqMonotonic
<1>4. whole \in Seq(W) /\ Len(whole) = Len(a) + 1 + Len(b)
  <2>1. mid \in Seq(W) /\ Len(mid) = Len(a) + 1
    BY <1>3, ConcatProperties
  <2> HIDE DEF mid
  <2>2. whole \in Seq(W) /\ Len(whole) = Len(mid) + Len(b)
    BY <1>3, <2>1, ConcatProperties
  <2> HIDE DEF whole
  <2> QED
    BY <2>1, <2>2
<1>5. PairText(k, v) = whole
    BY <1>1 DEF PairText
<1>6. (\A i \in 1..Len(a) : a[i] # "=") /\ (\A i \in 1..Len(b) : b[i] # "=")
    BY <1>1, <1>2, ElementOfSeq
<1>7. Split(whole, "=") = Append(<<a>>, b)
  <2>1. Split(a, "=") = <<a>>
    BY <1>3, <1>6, SplitWhole
  <2>2. Split(whole, "=") = Append(Split(a, "="), b)
    BY <1>2, <1>3, <1>6, SplitAppend
  <2> QED
    BY <2>1, <2>2
<1> HIDE DEF whole
<1>8. Append(<<a>>, b) = <<a, b>> /\ DOMAIN <<a, b>> = 1..2
    BY <1>3, AppendToOne
<1>9. ReadPart(whole) = <<k, v>>
  <2>1. ReadPart(whole) = [j \in 1..2 |-> Unescape(<<a, b>>[j])]
    BY <1>7, <1>8, Zenon DEF ReadPart
  <2>2. \A j \in 1..2 : Unescape(<<a, b>>[j]) = IF j = 1 THEN k ELSE v
    BY <1>1
  <2>3. [j \in 1..2 |-> IF j = 1 THEN k ELSE v] = <<k, v>>
    BY PairAsFunction
  <2> QED
    BY <2>1, <2>2, <2>3
<1>10. whole # << >>
  <2>1. Len(a) \in Nat /\ Len(b) \in Nat
    BY LenProperties
  <2> QED
    BY <1>4, <2>1
<1>11. whole \in Seq(Byte) /\ \A i \in 1..Len(whole) : whole[i] # "&"
    BY <1>2, <1>4, SeqMonotonic, ElementOfSeq
<1> QED
    BY <1>5, <1>9, <1>10, <1>11

(* The first pair, and one more.                                           *)
LEMMA DecodeMore ==
    ASSUME NEW k \in Seq(Char), NEW v \in Seq(Char), NEW s \in Seq(Byte)
    PROVE  /\ Decode(PairText(k, v)) = << <<k, v>> >>
           /\ s # << >> => Decode((s \o <<"&">>) \o PairText(k, v)) = Append(Decode(s), <<k, v>>)
<1>1. PICK w \in Seq(Byte) : w = PairText(k, v)
    BY PairReads
<1>2. w # << >> /\ (\A i \in 1..Len(w) : w[i] # "&") /\ ReadPart(w) = <<k, v>>
    BY <1>1, PairReads
<1>3. Decode(w) = << <<k, v>> >>
  <2>1. Split(w, "&") = <<w>>
    BY <1>2, SplitWhole
  <2>2. Decode(w) = [j \in DOMAIN <<w>> |-> ReadPart(<<w>>[j])]
    BY <1>2, <2>1, DecodeParts
  <2>3. DOMAIN <<w>> = 1..1 /\ \A j \in 1..1 : ReadPart(<<w>>[j]) = <<k, v>>
    BY <1>2
  <2>4. [j \in 1..1 |-> <<k, v>>] = << <<k, v>> >>
    OBVIOUS
  <2> QED
    BY <2>2, <2>3, <2>4
<1>4. ASSUME s # << >> PROVE Decode((s \o <<"&">>) \o w) = Append(Decode(s), <<k, v>>)
  <2> DEFINE t == (s \o <<"&">>) \o w
             parts == Split(s, "&")
             n == Len(parts)
             more == Append(parts, w)
  <2>1. "&" \in Byte
    BY DEF Byte, Written
  <2>2. Split(t, "&") = more /\ parts \in Seq(Seq(Byte))
    BY <1>2, <2>1, SplitAppend
  <2>3. t # << >>
    <3>1. <<"&">> \in Seq(Byte)
      BY <2>1
    <3>2. s \o <<"&">> \in Seq(Byte) /\ s \o <<"&">> # << >>
      BY <1>4, <3>1, ConcatProperties, ConcatEqualIffEmpty
    <3> QED
      BY <3>2, ConcatEqualIffEmpty
  <2> HIDE DEF t, parts
  <2>4. /\ n \in Nat /\ DOMAIN parts = 1..n
        /\ DOMAIN more = 1..n + 1 /\ more[n + 1] = w /\ \A j \in 1..n : more[j] = parts[j]
    BY <2>2, AppendProperties, LenProperties
  <2> HIDE DEF n, more
  <2>5. Decode(t) = [j \in 1..n + 1 |-> ReadPart(more[j])]
    BY <2>2, <2>3, <2>4, DecodeParts, Zenon
  <2>6. Decode(s) = [j \in 1..n |-> ReadPart(parts[j])]
    BY <1>4, <2>4, DecodeParts, Zenon DEF parts
  <2> DEFINE d == Decode(s)
             e == <<k, v>>
  <2> HIDE DEF d, e
  <2>7. Len(d) = n /\ \A j \in 1..n : d[j] = ReadPart(parts[j])
    BY <2>4, <2>6 DEF d
  <2>8. Append(d, e) = [j \in 1..n + 1 |-> ReadPart(more[j])]
    <3>1. Append(d, e) = [j \in 1..n + 1 |-> IF j = n + 1 THEN e ELSE d[j]]
      <4> DEFINE V == {ReadPart(parts[j]) : j \in 1..n} \cup {e}
                 longer == Append(d, e)
      <4>1. d \in Seq(V) /\ e \in V
        <5>1. e \in V /\ \A j \in 1..n : ReadPart(parts[j]) \in V
          OBVIOUS
        <5> HIDE DEF V
        <5>2. d \in [1..n -> V]
          BY <2>6, <5>1 DEF d
        <5> QED
          BY <2>4, <5>1, <5>2
      <4> HIDE DEF V
      <4>2. /\ longer \in Seq(V) /\ Len(longer) = n + 1 /\ longer[n + 1] = e
            /\ \A j \in 1..n : longer[j] = d[j]
        BY <4>1, <2>7, AppendProperties
      <4> HIDE DEF longer
      <4>3. longer = [j \in 1..n + 1 |-> longer[j]]
        BY <4>2, LenProperties
      <4>4. \A j \in 1..n + 1 : longer[j] = IF j = n + 1 THEN e ELSE d[j]
        <5>1. \A j \in 1..n + 1 : j = n + 1 \/ j \in 1..n
          BY <2>4
        <5> QED
          BY <4>2, <5>1, Zenon
      <4> QED
        BY <4>3, <4>4 DEF longer
    <3>2. ReadPart(w) = e
      BY <1>2 DEF e
    <3>3. \A j \in 1..n + 1 : ReadPart(more[j]) = IF j = n + 1 THEN e ELSE d[j]
      BY <2>4, <2>7, <3>2
    <3> QED
      BY <3>1, <3>3
  <2> QED
    BY <2>5, <2>8 DEF t, d, e
<1> QED
    BY <1>1, <1>3, <1>4

(* The query so far, and that nothing was stored before there is a block.  *)
QueryInv ==
    /\ OptsInv
    /\ blocks = << >> => pairs = << >>
    /\ alive => Decode(Query) = pairs

LEMMA QueryStart == OptsInit => QueryInv
BY OptsStart DEF OptsInit, QueryInv

LEMMA QuerySetStored ==
    ASSUME QueryInv, NEW key \in Strings, NEW value \in Strings, SetStored(key, value)
    PROVE  QueryInv'
<1> DEFINE w == PairText(key, value)
<1>1. /\ OptsInv' /\ alive /\ alive' /\ pairs' = Append(pairs, <<key, value>>)
      /\ OptsInv /\ Decode(Query) = pairs
      /\ Query \in Seq(Byte) /\ Query' = Query \o Tail_(key, value)
    BY SetStoredStep DEF QueryInv, SetStored
<1>2. Len(Query) = len /\ len \in Nat
    BY <1>1, StringIsQuery
<1>3. key \in Seq(Char) /\ value \in Seq(Char)
    BY OptsAssumption DEF Char
<1>4. w \in Seq(Byte)
    BY <1>3, PairReads
<1>5. Encode(key) \in Seq(Byte) /\ Encode(value) \in Seq(Byte) /\ <<"=">> \in Seq(Byte) /\ <<"&">> \in Seq(Byte)
  <2>1. Clean \subseteq Byte /\ "=" \in Byte /\ "&" \in Byte
    BY DEF Clean, Byte, Written
  <2> QED
    BY <1>3, <2>1, EncodeReads, SeqMonotonic
<1>6. blocks' # << >>
  <2>1. buf' = Len(blocks') /\ buf' \in DOMAIN blocks' /\ blocks' \in Seq(Block)'
    BY <1>1 DEF OptsInv
  <2> QED
    BY <2>1
<1>7. CASE len = 0
  <2>1. Query = << >>
    BY <1>1, <1>2, <1>7, EmptySeq
  <2>2. Tail_(key, value) = (<< >> \o Encode(key)) \o <<"=">> \o Encode(value)
    BY <1>7 DEF Tail_
  <2>3. << >> \o Encode(key) = Encode(key)
    BY <1>5, ConcatEmptySeq
  <2>4. Query' = << >> \o w
    BY <1>1, <2>1, <2>2, <2>3 DEF PairText
  <2>5. Query' = w
    BY <1>4, <2>4, ConcatEmptySeq
  <2>6. pairs = << >>
    BY <1>1, <2>1, DecodeParts
  <2>7. Decode(w) = << <<key, value>> >>
    BY <1>3, <1>1, DecodeMore
  <2>8. Append(<< >>, <<key, value>>) = << <<key, value>> >>
    OBVIOUS
  <2> HIDE DEF w
  <2> QED
    BY <1>1, <1>6, <2>5, <2>6, <2>7, <2>8 DEF QueryInv
<1>8. CASE len # 0
  <2>1. Query # << >>
    BY <1>2, <1>8
  <2>2. Tail_(key, value) = ((<<"&">> \o Encode(key)) \o <<"=">>) \o Encode(value)
    <3>1. len > 0
      BY <1>2, <1>8
    <3> QED
      BY <3>1 DEF Tail_
  <2>3. Query' = (Query \o <<"&">>) \o w
    <3>1. JoinsLater(Query, <<"&">>, Encode(key), <<"=">>, Encode(value))
      BY <1>1, <1>5, JoinedLater
    <3>2. Query \o (((<<"&">> \o Encode(key)) \o <<"=">>) \o Encode(value))
             = (Query \o <<"&">>) \o ((Encode(key) \o <<"=">>) \o Encode(value))
      BY <3>1, Zenon DEF JoinsLater
    <3> QED
      BY <1>1, <2>2, <3>2, Zenon DEF PairText
  <2>4. Decode((Query \o <<"&">>) \o w) = Append(Decode(Query), <<key, value>>)
    BY <1>1, <1>3, <2>1, DecodeMore
  <2> HIDE DEF w
  <2> QED
    BY <1>1, <1>6, <2>3, <2>4 DEF QueryInv
<1> QED
    BY <1>7, <1>8

LEMMA QueryStep == QueryInv /\ [OptsNext]_optsVars => QueryInv'
<1> SUFFICES ASSUME QueryInv, [OptsNext]_optsVars PROVE QueryInv'
    OBVIOUS
<1>0. OptsInv /\ OptsInv'
    BY OptsStep DEF QueryInv
<1>1. CASE UNCHANGED <<alive, blocks, buf, len, cap, pairs>>
    BY <1>0, <1>1 DEF QueryInv, Query
<1>2. CASE New
  <2>1. pairs' = << >>
    BY <1>2 DEF New, QueryInv
  <2>2. CASE UNCHANGED <<alive, blocks, buf, len, cap>>
    BY <1>1, <1>2, <2>2 DEF New
  <2>3. CASE alive' = TRUE /\ len' = 0
    <3>1. SubSeq(blocks'[buf'].bytes, 1, 0) = << >>
      BY SubSeqEmpty
    <3>2. Query' = << >>
      BY <2>3, <3>1 DEF Query
    <3>3. Decode(Query') = << >>
      BY <3>2, DecodeParts
    <3> QED
      BY <1>0, <2>1, <3>3 DEF QueryInv
  <2> QED
    BY <1>2, <2>2, <2>3 DEF New
<1>3. ASSUME NEW key \in Strings, NEW value \in Strings, Set(key, value) PROVE QueryInv'
    BY <1>1, <1>3, QuerySetStored DEF Set, SetRefused, SetNoMemory
<1>4. ASSUME NEW key \in Strings, SetRefused(key, Null) \/ SetRefused(Null, key) PROVE QueryInv'
    BY <1>1, <1>4 DEF SetRefused
<1>5. CASE Free
  <2>1. alive /\ ~alive' /\ pairs' = pairs /\ DOMAIN blocks' = DOMAIN blocks
    BY <1>5 DEF Free
  <2>2. buf \in DOMAIN blocks
    BY <1>0, <2>1 DEF OptsInv
  <2>3. blocks' # << >>
    BY <2>1, <2>2
  <2> QED
    BY <1>0, <2>1, <2>3 DEF QueryInv
<1>6. CASE UNCHANGED optsVars
    BY <1>1, <1>6 DEF optsVars
<1> QED
    BY <1>2, <1>3, <1>4, <1>5, <1>6 DEF OptsNext

(* For any keys and values: the query reads back as exactly the pairs that *)
(* were accepted, in the order of the calls.                               *)
THEOREM QueryMeansThePairs == OptsSpec => []QueryMeansPairs
<1>1. QueryInv => QueryMeansPairs
    BY StringIsQuery DEF QueryInv, QueryMeansPairs
<1> QED
    BY <1>1, QueryStart, QueryStep, PTL DEF OptsSpec
===============================================================================
