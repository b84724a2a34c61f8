---------------------------- MODULE StartupProofs ----------------------------
(***************************************************************************)
(* Proofs about the start of the stress harness, for any command lines and *)
(* environments and for any catalogue of profiles that keeps the           *)
(* conventions of CatalogueAssumption: the surfaces the workers call are   *)
(* served, the environment stands, no pipeline sees the runtime change,    *)
(* and no line that passes is refused over a layer it asks for.            *)
(***************************************************************************)
EXTENDS Startup, TLAPS, SequenceTheorems

Shaping == {"argv", "memlimit", "gogc", "procs"}
Constructing == {"options", "init"}
Pcs == Shaping \cup Constructing \cup {"summary", "exit"}
Pipes == {"stream", "msg"}

-----------------------------------------------------------------------------
(* The inductive invariant. *)

(* The flags keep well-formed values; nothing is reported before the end.  *)
TypeOK ==
    /\ pc \in Pcs /\ exit \in {0, 1, 2} /\ faulty \in BOOLEAN
    /\ DOMAIN raw = FlagNames
    /\ \A f \in IntFlags : raw[f] \in DOMAIN IntOf
    /\ memlimit \in Int /\ shape \in Shapes
    /\ runtime \in [limit : Int, gogc : Int, procs : Int]
    /\ env \in [limit : Int, gogc : Int, procs : Int]
    /\ todo \in {<< >>, <<"stream">>, <<"msg">>, <<"stream", "msg">>}
    /\ report # NoReport => pc = "exit"
    /\ pc # "exit" => exit = 0

(* What the checks of parse_flags leave true of the line.                  *)
LineInv ==
    pc \notin {"argv", "exit"} \/ report # NoReport =>
        /\ ValidLine
        /\ shape = IF raw["profile"] = Unset THEN raw["shape"]
                   ELSE NarrowShape(raw["shape"], Profiles[raw["profile"]].mode)

(* The runtime, one setting after the other.                               *)
Limit == IF raw["memlimit"] # "auto" THEN SizeOf[raw["memlimit"]]
         ELSE IF env.limit # Unlimited THEN env.limit
         ELSE IF Number("goroutines") <= 3 THEN 1024 ELSE 256
GogcSet == IF Number("gogc") = 0 THEN env.gogc ELSE Number("gogc")
ProcsSet == IF Number("gomaxprocs") = 0 THEN env.procs ELSE Number("gomaxprocs")
Shaped == runtime.limit = Limit /\ runtime.gogc = GogcSet /\ runtime.procs = ProcsSet
RuntimeInv ==
    /\ pc \in {"argv", "memlimit"} => runtime = env
    /\ pc = "memlimit" =>
           memlimit = IF raw["memlimit"] # "auto" THEN SizeOf[raw["memlimit"]]
                      ELSE IF Number("goroutines") <= 3 THEN 1024 ELSE 256
    /\ pc \in {"gogc", "procs"} =>
           runtime.limit = Limit /\ memlimit = Limit /\ runtime.procs = env.procs
    /\ pc = "gogc" => runtime.gogc = env.gogc
    /\ pc = "procs" => runtime.gogc = GogcSet
    /\ pc \in Constructing \cup {"summary"} => Shaped /\ memlimit = Limit
    /\ report # NoReport => Shaped /\ report = runtime

(* A pipe of the shape is still to be built or was built once, against the *)
(* profile of the line or the default of its surface; no other is built.   *)
InPipes(p, s) == \E i \in DOMAIN s : s[i] = p
OfPipe(p) == {b \in built : b.pipe = p}
BuiltInv ==
    /\ pc \in Shaping => built = {}
    /\ pc = "init" => todo # << >>
    /\ pc = "summary" \/ report # NoReport => todo = << >>
    /\ \A b \in built : b.pipe \in Pipes /\ b.profile = ProfileOf(b.pipe)
    /\ pc \in Constructing \cup {"summary"} \/ report # NoReport =>
           /\ todo \in {<< >>, <<"msg">>, PipesOf(shape)}
           /\ \A p \in Pipes :
                  /\ InPipes(p, todo) \/ ~InPipes(p, PipesOf(shape)) => OfPipe(p) = {}
                  /\ InPipes(p, PipesOf(shape)) /\ ~InPipes(p, todo) =>
                         \E b \in OfPipe(p) : OfPipe(p) = {b}
           /\ \A p \in Pipes : InPipes(p, todo) => InPipes(p, PipesOf(shape))

(* Every pair reaches the builder when memory does not run out.            *)
QueryInv ==
    pc = "init" /\ ~OutOfMemory =>
        /\ DOMAIN options = 1..Len(Wanted)
        /\ \A i \in 1..Len(Wanted) : options[i] = Wanted[i]

IInv == TypeOK /\ LineInv /\ RuntimeInv /\ BuiltInv /\ QueryInv

-----------------------------------------------------------------------------
(* One step keeps each part of the invariant. *)

LEMMA Values ==
    /\ \A v \in DOMAIN IntOf : IntOf[v] \in Int
    /\ \A v \in DOMAIN SizeOf : SizeOf[v] \in Nat
  BY DEF IntOf, SizeOf

(* What the checked numbers and the memory limit of a line are.            *)
LEMMA Numbers ==
    ASSUME TypeOK
    PROVE  /\ \A f \in IntFlags : Number(f) \in Int
           /\ ValidLine => /\ Number("gogc") >= 0 /\ Number("gomaxprocs") >= 0
                           /\ raw["memlimit"] # "auto" => SizeOf[raw["memlimit"]] \in Nat
<1>1. ASSUME NEW f \in IntFlags PROVE Number(f) \in Int
  <2>1. raw[f] \in DOMAIN IntOf
    BY DEF TypeOK
  <2> QED
    BY <2>1, Values DEF Number
<1>2. ASSUME ValidLine, raw["memlimit"] # "auto" PROVE SizeOf[raw["memlimit"]] \in Nat
  <2>1. raw["memlimit"] \in DOMAIN SizeOf
    BY <1>2 DEF ValidLine, RuntimeRules
  <2> QED
    BY <2>1, Values
<1>3. ASSUME ValidLine PROVE Number("gogc") >= 0 /\ Number("gomaxprocs") >= 0
  BY <1>3 DEF ValidLine, RuntimeRules
<1> QED
  BY <1>1, <1>2, <1>3

LEMMA LineStands ==
    ASSUME UNCHANGED raw
    PROVE  (ValidLine' <=> ValidLine)
  BY DEF ValidLine, RunRules, RuntimeRules, PipelineRules, Number, HashRegistered, OccursIn

(* Every variable keeps its type, and nothing is reported before the end.  *)
LEMMA TypeStep ==
    ASSUME IInv, [Next]_vars PROVE TypeOK'
<1> USE DEF IInv, TypeOK, Pcs, Shaping, Constructing
<1>1. CASE ParseArg
  <2>1. raw' = raw \/ \E flag \in FlagNames : \E value : WellFormed(flag, value) /\ raw' = [raw EXCEPT ![flag] = value]
    BY <1>1 DEF ParseArg
  <2>2. DOMAIN raw' = FlagNames /\ \A f \in IntFlags : raw'[f] \in DOMAIN IntOf
    <3>1. CASE raw' = raw
      BY <3>1
    <3>2. ASSUME NEW flag \in FlagNames, NEW value, WellFormed(flag, value),
                 raw' = [raw EXCEPT ![flag] = value]
          PROVE  DOMAIN raw' = FlagNames /\ \A f \in IntFlags : raw'[f] \in DOMAIN IntOf
      <4>1. flag \in IntFlags => value \in DOMAIN IntOf
        BY <3>2 DEF WellFormed
      <4>2. ASSUME NEW f \in IntFlags PROVE raw'[f] \in DOMAIN IntOf
        <5>1. f \in FlagNames
          BY DEF FlagNames
        <5>2. raw'[f] = IF f = flag THEN value ELSE raw[f]
          BY <5>1, <3>2
        <5> QED
          BY <4>1, <5>2
      <4> QED
        BY <3>2, <4>2
    <3> QED
      BY <2>1, <3>1, <3>2
  <2> QED
    BY <1>1, <2>2 DEF ParseArg, Exit, Goto, Building
<1>2. CASE ParseFlags
  <2>1. shape' \in Shapes
    <3>1. ValidLine => raw["shape"] \in Shapes
      BY DEF ValidLine, RunRules
    <3> QED
      BY <1>2, <3>1 DEF ParseFlags, NarrowShape, Shapes
  <2>2. memlimit' \in Int
    <3>1. ValidLine /\ raw["memlimit"] # "auto" => SizeOf[raw["memlimit"]] \in Nat
      BY Numbers
    <3>2. \/ memlimit' = memlimit
          \/ ValidLine /\ raw["memlimit"] # "auto" /\ memlimit' = SizeOf[raw["memlimit"]]
          \/ memlimit' = 1024 \/ memlimit' = 256
      BY <1>2, Zenon DEF ParseFlags
    <3> QED
      BY <3>1, <3>2
  <2> QED
    BY <1>2, <2>1, <2>2 DEF ParseFlags, Exit, Goto, Fault, Building
<1>3. CASE MemLimit
  <2>1. \A n \in Int : /\ SetMemoryLimit(n) \in [limit : Int, gogc : Int, procs : Int]
                     /\ SetGcPercent(n) \in [limit : Int, gogc : Int, procs : Int]
                     /\ SetGomaxprocs(n) \in [limit : Int, gogc : Int, procs : Int]
    BY DEF SetMemoryLimit, SetGcPercent, SetGomaxprocs
  <2>2. Number("gogc") \in Int /\ Number("gomaxprocs") \in Int
    BY Numbers DEF IntFlags, TypeOK
  <2>3. runtime' \in [limit : Int, gogc : Int, procs : Int]
    BY <1>3, <2>1, <2>2 DEF MemLimit
  <2> QED
    BY <1>3, <2>3 DEF MemLimit, Exit, Goto, Building, PipesOf
<1>4. CASE Gogc
  <2>1. \A n \in Int : /\ SetMemoryLimit(n) \in [limit : Int, gogc : Int, procs : Int]
                     /\ SetGcPercent(n) \in [limit : Int, gogc : Int, procs : Int]
                     /\ SetGomaxprocs(n) \in [limit : Int, gogc : Int, procs : Int]
    BY DEF SetMemoryLimit, SetGcPercent, SetGomaxprocs
  <2>2. Number("gogc") \in Int /\ Number("gomaxprocs") \in Int
    BY Numbers DEF IntFlags, TypeOK
  <2>3. runtime' \in [limit : Int, gogc : Int, procs : Int]
    BY <1>4, <2>1, <2>2 DEF Gogc
  <2> QED
    BY <1>4, <2>3 DEF Gogc, Exit, Goto, Building, PipesOf
<1>5. CASE Procs
  <2>1. \A n \in Int : /\ SetMemoryLimit(n) \in [limit : Int, gogc : Int, procs : Int]
                     /\ SetGcPercent(n) \in [limit : Int, gogc : Int, procs : Int]
                     /\ SetGomaxprocs(n) \in [limit : Int, gogc : Int, procs : Int]
    BY DEF SetMemoryLimit, SetGcPercent, SetGomaxprocs
  <2>2. Number("gogc") \in Int /\ Number("gomaxprocs") \in Int
    BY Numbers DEF IntFlags, TypeOK
  <2>3. runtime' \in [limit : Int, gogc : Int, procs : Int]
    BY <1>5, <2>1, <2>2 DEF Procs
  <2> QED
    BY <1>5, <2>3 DEF Procs, Exit, Goto, Building, PipesOf
<1>6. CASE Options
  BY <1>6 DEF Options, Exit, Goto, Fault, Building, vars
<1>7. CASE InitAndSave
  <2>1. todo' \in {<< >>, <<"stream">>, <<"msg">>, <<"stream", "msg">>}
    <3>1. /\ Tail(<<"stream">>) = << >> /\ Tail(<<"msg">>) = << >>
          /\ Tail(<<"stream", "msg">>) = <<"msg">>
      OBVIOUS
    <3> QED
      BY <1>7, <3>1 DEF InitAndSave, BuiltInv
  <2> QED
    BY <1>7, <2>1 DEF InitAndSave, Exit, Goto, Fault
<1>8. CASE Run
  BY <1>8 DEF Run, Exit, Goto, Fault, Building, vars
<1>9. CASE Summary
  <2>1. \A n \in Int : /\ SetMemoryLimit(n) \in [limit : Int, gogc : Int, procs : Int]
                     /\ SetGcPercent(n) \in [limit : Int, gogc : Int, procs : Int]
                     /\ SetGomaxprocs(n) \in [limit : Int, gogc : Int, procs : Int]
    BY DEF SetMemoryLimit, SetGcPercent, SetGomaxprocs
  <2>2. Number("gogc") \in Int /\ Number("gomaxprocs") \in Int
    BY Numbers DEF IntFlags, TypeOK
  <2>3. runtime' \in [limit : Int, gogc : Int, procs : Int]
    BY <1>9, <2>1, <2>2 DEF Summary
  <2> QED
    BY <1>9, <2>3 DEF Summary, Exit, Goto, Building, PipesOf
<1>10. CASE UNCHANGED vars
  BY <1>10 DEF vars, Building, vars
<1> QED
  BY <1>1, <1>2, <1>3, <1>4, <1>5, <1>6, <1>7, <1>8, <1>9,
     <1>10 DEF Next

(* The line and the shape stay what parse_flags made of them.              *)
LEMMA LineStep ==
    ASSUME IInv, [Next]_vars PROVE LineInv'
<1> USE DEF IInv, TypeOK, LineInv
<1>1. CASE ParseArg
  BY <1>1, LineStands DEF ParseArg, Exit, Goto, Fault, Building
<1>2. CASE ParseFlags
  BY <1>2, LineStands DEF ParseFlags, Exit, Goto, Fault, Building
<1>3. CASE MemLimit
  BY <1>3, LineStands DEF MemLimit, Exit, Goto, Fault, Building
<1>4. CASE Gogc
  BY <1>4, LineStands DEF Gogc, Exit, Goto, Fault, Building
<1>5. CASE Procs
  BY <1>5, LineStands DEF Procs, Exit, Goto, Fault, Building
<1>6. CASE Options
  BY <1>6, LineStands DEF Options, Exit, Goto, Fault, Building
<1>7. CASE InitAndSave
  BY <1>7, LineStands DEF InitAndSave, Exit, Goto, Fault, Building
<1>8. CASE Run
  BY <1>8, LineStands DEF Run, Exit, Goto, Fault, Building
<1>9. CASE Summary
  BY <1>9, LineStands DEF Summary, Exit, Goto, Fault, Building
<1>10. CASE UNCHANGED vars
  BY <1>10, LineStands DEF vars
<1> QED
  BY <1>1, <1>2, <1>3, <1>4, <1>5, <1>6, <1>7, <1>8, <1>9,
     <1>10 DEF Next

(* The settings of the runtime are those of the flags or the environment.  *)
LEMMA RuntimeStep ==
    ASSUME IInv, [Next]_vars PROVE RuntimeInv'
<1> USE DEF IInv, TypeOK, RuntimeInv, Pcs, Shaping, Constructing
<1>f. ASSUME UNCHANGED <<raw, env>>
      PROVE  /\ Limit' = Limit /\ GogcSet' = GogcSet /\ ProcsSet' = ProcsSet
             /\ \A f : Number(f)' = Number(f)
  BY <1>f DEF Limit, GogcSet, ProcsSet, Number
<1>n. /\ Number("gogc") \in Int /\ Number("gomaxprocs") \in Int
      /\ ValidLine => /\ Number("gogc") >= 0 /\ Number("gomaxprocs") >= 0
                      /\ raw["memlimit"] # "auto" => SizeOf[raw["memlimit"]] \in Nat
  BY Numbers DEF IntFlags, TypeOK
<1>1. CASE ParseArg
  BY <1>1, <1>f DEF ParseArg, Exit, Goto, Fault, Building, Shaped
<1>2. CASE ParseFlags
  <2>1. /\ runtime' = env /\ UNCHANGED <<raw, env, report>> /\ report = NoReport
        /\ pc' \in {"memlimit", "exit"}
    BY <1>2 DEF ParseFlags, Exit, Goto
  <2>2. pc' = "memlimit" =>
            memlimit' = IF raw["memlimit"] # "auto" THEN SizeOf[raw["memlimit"]]
                        ELSE IF Number("goroutines") <= 3 THEN 1024 ELSE 256
    BY <1>2 DEF ParseFlags, Exit, Goto
  <2> QED
    BY <2>1, <2>2, <1>f
<1>3. CASE MemLimit
  <2>1. ValidLine
    BY <1>3 DEF MemLimit, LineInv
  <2>2. memlimit \in Int /\ memlimit >= 0
    BY <1>3, <1>n, <2>1 DEF MemLimit
  <2>3. SetMemoryLimit(memlimit) = [env EXCEPT !.limit = memlimit]
        /\ SetMemoryLimit(-1) = env
    BY <1>3, <2>2 DEF MemLimit, SetMemoryLimit
  <2>4. runtime'.limit = Limit /\ runtime'.gogc = env.gogc /\ runtime'.procs = env.procs
    BY <1>3, <2>3 DEF MemLimit, Limit
  <2> QED
    BY <1>3, <2>4, <1>f DEF MemLimit, Goto
<1>4. CASE Gogc
  <2>1. Number("gogc") >= 0
    BY <1>4, <1>n DEF Gogc, LineInv
  <2>2. /\ runtime'.limit = Limit /\ runtime'.gogc = GogcSet /\ runtime'.procs = env.procs
    BY <1>4, <1>n, <2>1 DEF Gogc, SetGcPercent, GogcSet
  <2> QED
    BY <1>4, <2>2, <1>f DEF Gogc, Goto
<1>5. CASE Procs
  <2>1. Number("gomaxprocs") >= 0
    BY <1>5, <1>n DEF Procs, LineInv
  <2>2. /\ runtime'.limit = Limit /\ runtime'.gogc = GogcSet /\ runtime'.procs = ProcsSet
    BY <1>5, <1>n, <2>1 DEF Procs, SetGomaxprocs, ProcsSet
  <2> QED
    BY <1>5, <2>2, <1>f DEF Procs, Goto, Shaped
<1>6. CASE Options
  BY <1>6, <1>f DEF Options, Exit, Goto, Fault, Building, Shaped
<1>7. CASE InitAndSave
  BY <1>7, <1>f DEF InitAndSave, Exit, Goto, Fault, Building, Shaped
<1>8. CASE Run
  BY <1>8, <1>f DEF Run, Exit, Goto, Fault, Building, Shaped
<1>9. CASE Summary
  <2>1. Shaped /\ memlimit = Limit /\ ValidLine
    BY <1>9 DEF Summary, LineInv
  <2>2. runtime' = runtime /\ SetGcPercent(-1) = runtime /\ SetGomaxprocs(0) = runtime
    BY <1>9 DEF Summary, SetGcPercent, SetGomaxprocs
  <2>3. report' = [limit |-> memlimit, gogc |-> GogcSet, procs |-> runtime.procs]
    BY <1>9, <1>n, <2>1, <2>2 DEF Summary, Shaped, GogcSet
  <2>4. report' = runtime
    BY <2>1, <2>3 DEF Shaped
  <2> QED
    BY <1>9, <2>1, <2>2, <2>4, <1>f DEF Summary, Exit, Shaped
<1>10. CASE UNCHANGED vars
  BY <1>10, <1>f DEF vars, Shaped
<1> QED
  BY <1>1, <1>2, <1>3, <1>4, <1>5, <1>6, <1>7, <1>8, <1>9,
     <1>10 DEF Next

(* Each pipe of the shape is built once, and no other.                     *)
LEMMA BuiltStep ==
    ASSUME IInv, [Next]_vars PROVE BuiltInv'
<1> USE DEF IInv, TypeOK, BuiltInv, Pcs, Shaping, Constructing
<1>f. /\ UNCHANGED raw => \A p : ProfileOf(p)' = ProfileOf(p)
      /\ UNCHANGED built => \A p : OfPipe(p)' = OfPipe(p)
  BY DEF ProfileOf, OfPipe
<1>1. CASE ParseArg
  BY <1>1, <1>f DEF ParseArg, Exit, Goto, Fault, Building
<1>2. CASE ParseFlags
  BY <1>2, <1>f DEF ParseFlags, Exit, Goto, Fault, Building
<1>3. CASE MemLimit
  BY <1>3, <1>f DEF MemLimit, Exit, Goto, Fault, Building
<1>4. CASE Gogc
  BY <1>4, <1>f DEF Gogc, Exit, Goto, Fault, Building
<1>5. CASE Procs
  <2>1. built = {} /\ built' = {} /\ todo' = PipesOf(shape) /\ shape' = shape /\ pc' = "options"
        /\ report' = NoReport
    BY <1>5 DEF Procs, Goto
  <2>2. \A p \in Pipes : OfPipe(p)' = {}
    BY <2>1 DEF OfPipe
  <2> QED
    BY <2>1, <2>2
<1>6. CASE Options
  BY <1>6, <1>f DEF Options, Exit, Goto, Fault, Building
<1>7. CASE InitAndSave
  <2>1. CASE UNCHANGED <<built, todo>> /\ pc' = "exit"
    BY <1>7, <2>1, <1>f DEF InitAndSave
  <2>2. CASE /\ built' = built \cup {[pipe |-> Head(todo), profile |-> ProfileOf(Head(todo)),
                                     options |-> options]}
             /\ todo' = Tail(todo) /\ pc' = "options"
    <3> DEFINE q == Head(todo)
               new == [pipe |-> q, profile |-> ProfileOf(q), options |-> options]
    <3>1. /\ UNCHANGED <<raw, shape, report>> /\ report = NoReport /\ todo # << >> /\ pc = "init"
      BY <1>7 DEF InitAndSave
    <3>2. /\ q \in Pipes /\ todo' \in {<< >>, <<"msg">>}
          /\ \A p \in Pipes : InPipes(p, todo) <=> p = q \/ InPipes(p, todo')
          /\ ~InPipes(q, todo')
      <4>1. \A p \in Pipes : /\ InPipes(p, <<"stream">>) <=> p = "stream"
                             /\ InPipes(p, <<"msg">>) <=> p = "msg"
                             /\ InPipes(p, <<"stream", "msg">>)
                             /\ ~InPipes(p, << >>)
        BY DEF InPipes, Pipes
      <4>2. todo \in {<<"stream">>, <<"msg">>, <<"stream", "msg">>}
        BY <3>1
      <4>3. CASE todo = <<"stream">>
        BY <4>1, <4>3, <2>2 DEF Pipes
      <4>4. CASE todo = <<"msg">>
        BY <4>1, <4>4, <2>2 DEF Pipes
      <4>5. CASE todo = <<"stream", "msg">>
        BY <4>1, <4>5, <2>2 DEF Pipes
      <4> QED
        BY <4>2, <4>3, <4>4, <4>5
    <3>3. OfPipe(q) = {} /\ InPipes(q, PipesOf(shape))
      BY <3>1, <3>2
    <3> HIDE DEF q, new
    <3>4. new.pipe = q /\ new.profile = ProfileOf(q)
      BY DEF new
    <3>5. built' = built \cup {new}
      BY <2>2 DEF new, q
    <3>6. \A p : OfPipe(p)' = IF p = q THEN OfPipe(p) \cup {new} ELSE OfPipe(p)
      BY <3>4, <3>5 DEF OfPipe
    <3>7. \A b \in built' : b.pipe \in Pipes /\ b.profile = ProfileOf(b.pipe)'
      BY <3>1, <3>2, <3>4, <3>5, <1>f
    <3>8. ASSUME NEW p \in Pipes
          PROVE  /\ InPipes(p, todo') \/ ~InPipes(p, PipesOf(shape)) => OfPipe(p)' = {}
                 /\ InPipes(p, PipesOf(shape)) /\ ~InPipes(p, todo') =>
                        \E b \in OfPipe(p)' : OfPipe(p)' = {b}
                 /\ InPipes(p, todo') => InPipes(p, PipesOf(shape))
      <4>1. CASE p = q
        <5>1. OfPipe(p)' = {new}
          BY <4>1, <3>3, <3>6
        <5> QED
          BY <4>1, <5>1, <3>2, <3>3
      <4>2. CASE p # q
        <5>1. OfPipe(p)' = OfPipe(p) /\ (InPipes(p, todo) <=> InPipes(p, todo'))
          BY <4>2, <3>2, <3>6
        <5> QED
          BY <5>1, <3>1
      <4> QED
        BY <4>1, <4>2
    <3> QED
      BY <2>2, <3>1, <3>2, <3>7, <3>8
  <2> QED
    BY <1>7, <2>1, <2>2 DEF InitAndSave, Exit, Goto
<1>8. CASE Run
  BY <1>8, <1>f DEF Run, Exit, Goto, Fault, Building
<1>9. CASE Summary
  BY <1>9, <1>f DEF Summary, Exit, Goto, Fault, Building
<1>10. CASE UNCHANGED vars
  BY <1>10, <1>f DEF vars
<1> QED
  BY <1>1, <1>2, <1>3, <1>4, <1>5, <1>6, <1>7, <1>8, <1>9,
     <1>10 DEF Next

-----------------------------------------------------------------------------
(* What the pairs of a query amount to. *)

Palette == <<"parallaxPalette", FillPalette>>
Segment == <<"parallaxSegmentSize", "4093">>
Outer == <<"outerCipher", FillCipher>>
FillPairs == {Palette, Segment, Outer}
FlagPairs ==
    {<<"mode", raw["blob-mode"]>>, <<"innerHash", raw["hash"]>>, <<"macName", raw["mac"]>>,
     <<"withParallax", TrueFalse("parallax")>>, <<"withWrapper", TrueFalse("wrapper")>>,
     <<"keyBits", raw["key-bits"]>>, <<"nonceBits", raw["nonce-bits"]>>,
     <<"barrierFill", raw["barrier-fill"]>>, <<"drbg", raw["drbg"]>>,
     <<"interlock", raw["interlock"]>>, <<"chunkSize", raw["chunk-size"]>>}
AnyPair == FlagPairs \cup FillPairs

(* The flags give their pairs, and a profile those of the layers it leaves *)
(* unnamed and the line asks for.                                          *)
LEMMA FlagOptionsArePairs == FlagOptions \in Seq(AnyPair) /\ Len(FlagOptions) = 11
<1> DEFINE F == FlagOptions
<1>1. DOMAIN F = 1..11
  BY DEF FlagOptions
<1>2. ASSUME NEW i \in 1..11 PROVE F[i] \in FlagPairs
  <2>1. i \in {1, 2, 3, 4, 5, 6, 7, 8, 9, 10, 11}
    OBVIOUS
  <2> QED
    BY <2>1 DEF FlagOptions, FlagPairs
<1>3. F = [i \in 1..11 |-> F[i]]
  BY DEF FlagOptions
<1> HIDE DEF F
<1>4. F \in [1..11 -> AnyPair]
  BY <1>1, <1>2, <1>3 DEF AnyPair
<1>5. F \in Seq(AnyPair)
  BY <1>4, SeqDef
<1>6. Len(F) = 11
  BY <1>1, <1>5
<1> QED
  BY <1>5, <1>6 DEF F

LEMMA FillPairsOf ==
    ASSUME NEW p \in DOMAIN Profiles
    PROVE  /\ Fill(p) \in Seq(AnyPair)
           /\ \A i \in DOMAIN Fill(p) : Fill(p)[i] \in FillPairs
           /\ raw["parallax"] = "on" /\ ~Profiles[p].palette =>
                  /\ \E i \in DOMAIN Fill(p) : Fill(p)[i] = Palette
                  /\ Profiles[p].segment \/ \E i \in DOMAIN Fill(p) : Fill(p)[i] = Segment
           /\ raw["wrapper"] = "on" /\ ~Profiles[p].outer =>
                  \E i \in DOMAIN Fill(p) : Fill(p)[i] = Outer
<1> DEFINE r == Profiles[p]
           a == IF raw["parallax"] = "on" /\ ~r.palette
                THEN <<Palette>> \o (IF r.segment THEN << >> ELSE <<Segment>>) ELSE << >>
           b == IF raw["wrapper"] = "on" /\ ~r.outer THEN <<Outer>> ELSE << >>
<1>1. Fill(p) = a \o b
  BY DEF Fill, Palette, Segment, Outer
<1>t. ASSUME NEW x, NEW y PROVE <<x>> \o << >> = <<x>> /\ <<x>> \o <<y>> = <<x, y>>
  <2>1. <<x>> \in Seq({x, y}) /\ <<y>> \in Seq({x, y}) /\ <<x, y>> \in Seq({x, y})
    OBVIOUS
  <2>2. /\ <<x>> \o <<y>> \in Seq({x, y}) /\ Len(<<x>> \o <<y>>) = 2
        /\ (<<x>> \o <<y>>)[1] = x /\ (<<x>> \o <<y>>)[2] = y
    BY <2>1, ConcatProperties
  <2>3. /\ Len(<<x, y>>) = 2 /\ <<x, y>>[1] = x /\ <<x, y>>[2] = y
    OBVIOUS
  <2>4. \A i \in 1..2 : (<<x>> \o <<y>>)[i] = <<x, y>>[i]
    <3>1. \A i \in 1..2 : i = 1 \/ i = 2
      OBVIOUS
    <3> QED
      BY <2>2, <2>3, <3>1
  <2>5. <<x>> \o <<y>> = <<x, y>>
    BY <2>1, <2>2, <2>3, <2>4, SeqEqual
  <2>6. <<x>> \o << >> = <<x>>
    BY <2>1, ConcatEmptySeq
  <2> QED
    BY <2>5, <2>6
<1>s. /\ a = IF raw["parallax"] = "on" /\ ~r.palette
             THEN (IF r.segment THEN <<Palette>> ELSE <<Palette, Segment>>) ELSE << >>
      /\ b = IF raw["wrapper"] = "on" /\ ~r.outer THEN <<Outer>> ELSE << >>
  BY <1>t
<1> HIDE DEF a, b
<1>2. a \in {<< >>, <<Palette>>, <<Palette, Segment>>} /\ b \in {<< >>, <<Outer>>}
  BY <1>s
<1>3. /\ raw["parallax"] = "on" /\ ~r.palette => a # << >> /\ (r.segment \/ a = <<Palette, Segment>>)
      /\ raw["wrapper"] = "on" /\ ~r.outer => b = <<Outer>>
  BY <1>s
<1> HIDE DEF r
<1>4. a \in Seq(FillPairs) /\ b \in Seq(FillPairs)
  <2>1. \A x, y \in FillPairs : <<x>> \in Seq(FillPairs) /\ <<x, y>> \in Seq(FillPairs)
    OBVIOUS
  <2>2. Palette \in FillPairs /\ Segment \in FillPairs /\ Outer \in FillPairs
    BY DEF FillPairs
  <2>3. << >> \in Seq(FillPairs)
    OBVIOUS
  <2> QED
    BY <1>2, <2>1, <2>2, <2>3
<1>5. /\ a \o b \in Seq(FillPairs) /\ Len(a \o b) = Len(a) + Len(b)
      /\ \A i \in 1..Len(a) + Len(b) : (a \o b)[i] = IF i <= Len(a) THEN a[i] ELSE b[i - Len(a)]
  BY <1>4, ConcatProperties
<1>6. a # << >> => (a \o b)[1] = Palette /\ 1 \in DOMAIN (a \o b)
  BY <1>2, <1>5
<1>7. a = <<Palette, Segment>> => (a \o b)[2] = Segment /\ 2 \in DOMAIN (a \o b)
  BY <1>2, <1>5
<1>8. b = <<Outer>> => (a \o b)[Len(a) + 1] = Outer /\ Len(a) + 1 \in DOMAIN (a \o b)
  BY <1>2, <1>4, <1>5
<1>9. a \o b \in Seq(AnyPair) /\ \A i \in DOMAIN (a \o b) : (a \o b)[i] \in FillPairs
  BY <1>5 DEF AnyPair
<1> QED
  BY <1>1, <1>3, <1>6, <1>7, <1>8, <1>9 DEF r

LEMMA WantedPairs ==
    ASSUME raw["profile"] # Unset => raw["profile"] \in DOMAIN Profiles
    PROVE  /\ Wanted \in Seq(AnyPair)
           /\ \A i \in 1..Len(Wanted) : Wanted[i] \in AnyPair
           /\ raw["profile"] # Unset =>
                  \A i \in DOMAIN Fill(raw["profile"]) :
                      \E j \in 1..Len(Wanted) : Wanted[j] = Fill(raw["profile"])[i]
<1> DEFINE g == IF raw["profile"] # Unset THEN Fill(raw["profile"]) ELSE << >>
<1>1. g \in Seq(AnyPair)
  <2>1. CASE raw["profile"] # Unset
    BY <2>1, FillPairsOf
  <2>2. CASE raw["profile"] = Unset
    <3>1. g = << >>
      BY <2>2
    <3>2. << >> \in Seq(AnyPair)
      BY EmptySeq
    <3> HIDE DEF g
    <3> QED
      BY <3>1, <3>2
  <2> QED
    BY <2>1, <2>2
<1>2. Wanted = FlagOptions \o g
  BY DEF Wanted
<1> HIDE DEF g
<1>3. /\ Wanted \in Seq(AnyPair) /\ Len(Wanted) = 11 + Len(g)
      /\ \A i \in 1..11 + Len(g) : Wanted[i] = IF i <= 11 THEN FlagOptions[i] ELSE g[i - 11]
  <2> HIDE DEF AnyPair
  <2>1. FlagOptions \in Seq(AnyPair) /\ Len(FlagOptions) = 11 /\ Len(g) \in Nat
    BY <1>1, FlagOptionsArePairs, LenProperties
  <2>2. /\ FlagOptions \o g \in Seq(AnyPair)
        /\ Len(FlagOptions \o g) = Len(FlagOptions) + Len(g)
        /\ \A i \in 1..Len(FlagOptions) + Len(g) :
               (FlagOptions \o g)[i] = IF i <= Len(FlagOptions) THEN FlagOptions[i]
                                       ELSE g[i - Len(FlagOptions)]
    BY <1>1, <2>1, ConcatProperties
  <2> QED
    BY <1>2, <2>1, <2>2
<1>4. ASSUME NEW i \in DOMAIN g PROVE 11 + i \in 1..Len(Wanted) /\ Wanted[11 + i] = g[i]
  <2>1. DOMAIN g = 1..Len(g) /\ Len(g) \in Nat
    BY <1>1, LenProperties
  <2>2. 11 + i \in 1..11 + Len(g) /\ ~(11 + i <= 11) /\ (11 + i) - 11 = i
    <3>1. i \in 1..Len(g)
      BY <2>1
    <3>2. i \in Nat /\ 1 <= i /\ i <= Len(g)
      BY <2>1, <3>1
    <3> QED
      BY <2>1, <3>2
  <2>3. Wanted[11 + i] = g[(11 + i) - 11]
    BY <2>2, <1>3
  <2> QED
    BY <2>2, <2>3, <1>3
<1>5. \A i \in 1..Len(Wanted) : Wanted[i] \in AnyPair
  BY <1>3, ElementOfSeq
<1> QED
  BY <1>3, <1>4, <1>5 DEF g

(* With every pair in the query, each layer it asks for is supplied.       *)
LEMMA FullQueryLayered ==
    ASSUME TypeOK, ValidLine, BuiltInv, pc = "init",
           DOMAIN options = 1..Len(Wanted), \A i \in 1..Len(Wanted) : options[i] = Wanted[i]
    PROVE  Layered(Profiles[ProfileOf(Head(todo))])
<1> DEFINE name == ProfileOf(Head(todo))
           record == Profiles[name]
<1>1. /\ raw["profile"] # Unset => raw["profile"] \in DOMAIN Profiles
      /\ raw["parallax"] \in OnOff /\ raw["wrapper"] \in OnOff
  BY DEF ValidLine, PipelineRules
<1>2. Head(todo) \in Pipes
  BY DEF TypeOK, BuiltInv, Pipes
<1>3. /\ name \in DOMAIN Profiles
      /\ raw["profile"] # Unset => name = raw["profile"]
      /\ raw["profile"] = Unset => record.palette /\ record.outer
      /\ record.palette => record.segment
  BY <1>1, <1>2, CatalogueAssumption DEF CatalogueAssumption, ProfileOf, DefaultProfile, Pipes
<1> HIDE DEF name, record
<1>4. ASSUME NEW i \in DOMAIN options PROVE options[i] \in AnyPair
  BY <1>1, WantedPairs
<1>5. ASSUME NEW i \in DOMAIN options
      PROVE  /\ options[i] = <<"withParallax", "true">> => raw["parallax"] = "on"
             /\ options[i] = <<"withWrapper", "true">> => raw["wrapper"] = "on"
  <2>1. options[i] \in FlagPairs \/ options[i] \in FillPairs
    BY <1>4 DEF AnyPair
  <2>2. CASE options[i] \in FillPairs
    BY <2>2 DEF FillPairs, Palette, Segment, Outer
  <2>3. CASE options[i] \in FlagPairs
    BY <2>3 DEF FlagPairs, TrueFalse
  <2> QED
    BY <2>1, <2>2, <2>3
<1>6. ASSUME raw["profile"] # Unset, NEW i \in DOMAIN Fill(name)
      PROVE  HasKey(Fill(name)[i][1])
  <2>1. PICK j \in 1..Len(Wanted) : Wanted[j] = Fill(name)[i]
    BY <1>1, <1>3, <1>6, WantedPairs
  <2> QED
    BY <2>1 DEF HasKey
<1>7. ASSUME raw["parallax"] = "on"
      PROVE  /\ record.palette \/ HasKey("parallaxPalette")
             /\ record.segment \/ HasKey("parallaxSegmentSize")
  <2>1. CASE record.palette
    BY <2>1, <1>3
  <2>2. CASE ~record.palette
    <3>1. raw["profile"] # Unset
      BY <2>2, <1>3
    <3>2. PICK i \in DOMAIN Fill(name) : Fill(name)[i] = Palette
      BY <1>3, <1>7, <2>2, FillPairsOf DEF record
    <3>3. record.segment \/ \E j \in DOMAIN Fill(name) : Fill(name)[j] = Segment
      BY <1>3, <1>7, <2>2, FillPairsOf DEF record
    <3> QED
      BY <1>6, <3>1, <3>2, <3>3 DEF Palette, Segment
  <2> QED
    BY <2>1, <2>2
<1>8. ASSUME raw["wrapper"] = "on" PROVE record.outer \/ HasKey("outerCipher")
  <2> SUFFICES ASSUME ~record.outer PROVE HasKey("outerCipher")
    OBVIOUS
  <2>1. raw["profile"] # Unset
    BY <1>3
  <2>2. PICK i \in DOMAIN Fill(name) : Fill(name)[i] = Outer
    BY <1>3, <1>8, FillPairsOf DEF record
  <2> QED
    BY <1>6, <2>1, <2>2 DEF Outer
<1> QED
  BY <1>5, <1>7, <1>8 DEF Layered, Has, record, name

(* The query holds every pair until libitb3 has it.                        *)
LEMMA QueryStep ==
    ASSUME IInv, [Next]_vars PROVE QueryInv'
<1> USE DEF IInv, TypeOK, QueryInv, Pcs, Shaping, Constructing
<1>f. UNCHANGED raw => Wanted' = Wanted
  BY DEF Wanted, FlagOptions, TrueFalse, Fill
<1>1. CASE ParseArg
  BY <1>1, <1>f DEF ParseArg, Exit, Goto, Fault, Building
<1>2. CASE ParseFlags
  BY <1>2, <1>f DEF ParseFlags, Exit, Goto, Fault, Building
<1>3. CASE MemLimit
  BY <1>3, <1>f DEF MemLimit, Exit, Goto, Fault, Building
<1>4. CASE Gogc
  BY <1>4, <1>f DEF Gogc, Exit, Goto, Fault, Building
<1>5. CASE Procs
  BY <1>5, <1>f DEF Procs, Exit, Goto, Fault, Building
<1>6. CASE Options
  <2>1. CASE pc' = "exit" /\ Fault
    BY <1>6, <2>1 DEF Options, Exit, Goto, Fault
  <2>2. CASE /\ pc' = "init" /\ UNCHANGED <<exit, faulty>>
             /\ \E kept \in IF OutOfMemory THEN SUBSET DOMAIN Wanted ELSE {DOMAIN Wanted} :
                    options' = [i \in 1..Len(Wanted) |-> IF i \in kept THEN Wanted[i] ELSE NoPair]
    <3>1. ValidLine /\ UNCHANGED raw
      BY <1>6 DEF Options, LineInv
    <3>2. ASSUME ~OutOfMemory
          PROVE  DOMAIN options' = 1..Len(Wanted) /\ \A i \in 1..Len(Wanted) : options'[i] = Wanted[i]
      <4>1. options' = [i \in 1..Len(Wanted) |-> IF i \in DOMAIN Wanted THEN Wanted[i] ELSE NoPair]
        BY <2>2, <3>2
      <4>2. DOMAIN Wanted = 1..Len(Wanted)
        BY <3>1, WantedPairs, LenProperties DEF ValidLine, PipelineRules
      <4> QED
        BY <4>1, <4>2
    <3> QED
      BY <1>6, <2>2, <3>1, <3>2, <1>f DEF Options
  <2> QED
    BY <1>6, <2>1, <2>2 DEF Options, Exit, Goto
<1>7. CASE InitAndSave
  BY <1>7 DEF InitAndSave, Exit, Goto
<1>8. CASE Run
  BY <1>8, <1>f DEF Run, Exit, Goto, Fault, Building
<1>9. CASE Summary
  BY <1>9, <1>f DEF Summary, Exit, Goto, Fault, Building
<1>10. CASE UNCHANGED vars
  BY <1>10, <1>f DEF vars
<1> QED
  BY <1>1, <1>2, <1>3, <1>4, <1>5, <1>6, <1>7, <1>8, <1>9,
     <1>10 DEF Next

-----------------------------------------------------------------------------
LEMMA DefaultsWellFormed ==
    ASSUME NEW f \in IntFlags PROVE Default[f] \in DOMAIN IntOf
<1>1. Default[f] = DefaultNumber(f)
  BY DEF Default, FlagNames
<1>2. DefaultNumber(f) \in {"0", "1", "3"}
  BY DEF DefaultNumber
<1>3. {"0", "1", "3"} \subseteq DOMAIN IntOf
  BY DEF IntOf
<1> QED
  BY <1>1, <1>2, <1>3

LEMMA InitEstablishes == ASSUME Init PROVE IInv
<1>1. /\ raw = Default /\ pc = "argv" /\ shape = "stream" /\ memlimit = 0
      /\ env \in Environment /\ runtime = env
      /\ todo = << >> /\ built = {} /\ report = NoReport /\ exit = 0 /\ faulty = FALSE
  BY DEF Init
<1>2. DOMAIN raw = FlagNames /\ \A f \in IntFlags : raw[f] \in DOMAIN IntOf
  <2>1. DOMAIN Default = FlagNames
    BY DEF Default
  <2> QED
    BY <1>1, <2>1, DefaultsWellFormed
<1>3. env \in [limit : Int, gogc : Int, procs : Int]
  BY <1>1, StartupAssumption DEF StartupAssumption
<1>4. TypeOK
  <2>1. pc \in Pcs /\ shape \in Shapes /\ memlimit \in Int
    BY <1>1 DEF Pcs, Shaping, Shapes
  <2>2. todo \in {<< >>, <<"stream">>, <<"msg">>, <<"stream", "msg">>}
    BY <1>1
  <2>3. exit \in {0, 1, 2} /\ faulty \in BOOLEAN /\ (report # NoReport => pc = "exit")
    <3>1. faulty \in BOOLEAN
      BY <1>1, Zenon
    <3> QED
      BY <1>1, <3>1
  <2> QED
    BY <1>1, <1>2, <1>3, <2>1, <2>2, <2>3 DEF TypeOK
<1>5. LineInv /\ RuntimeInv
  BY <1>1 DEF LineInv, RuntimeInv, Constructing
<1>6. BuiltInv /\ QueryInv
  BY <1>1 DEF BuiltInv, QueryInv, Constructing, Shaping
<1> QED
  BY <1>4, <1>5, <1>6 DEF IInv

LEMMA StartupInvariant == Spec => []IInv
<1>1. Init => IInv
  BY InitEstablishes
<1>2. IInv /\ [Next]_vars => IInv'
  <2> SUFFICES ASSUME IInv, [Next]_vars PROVE IInv'
    OBVIOUS
  <2> QED
    BY TypeStep, LineStep, RuntimeStep, BuiltStep, QueryStep DEF IInv
<1> QED
  BY <1>1, <1>2, PTL DEF Spec

(* The mode of the profile a pipe of the shape is built against is the one *)
(* the pipe serves, narrowed or not.                                       *)
LEMMA ModeOfPipe ==
    ASSUME LineInv, Started, shape \in Shapes,
           NEW p \in Pipes, InPipes(p, PipesOf(shape))
    PROVE  Profiles[ProfileOf(p)].mode = IF p = "stream" THEN "streaming" ELSE "singlemsg"
<1>1. /\ ValidLine
      /\ shape = IF raw["profile"] = Unset THEN raw["shape"]
                 ELSE NarrowShape(raw["shape"], Profiles[raw["profile"]].mode)
  BY DEF LineInv, Started
<1>2. /\ p = "stream" => shape # "message"
      /\ p = "msg" => shape \in {"message", "both"}
  BY DEF InPipes, PipesOf, Shapes, Pipes
<1>3. CASE raw["profile"] = Unset
  BY <1>3, CatalogueAssumption DEF CatalogueAssumption, ProfileOf, DefaultProfile, Pipes
<1>4. CASE raw["profile"] # Unset
  <2>1. Profiles[raw["profile"]].mode \in {"streaming", "singlemsg"}
    BY <1>1, <1>4, CatalogueAssumption DEF CatalogueAssumption, ValidLine, PipelineRules
  <2> QED
    BY <1>1, <1>2, <1>4, <2>1 DEF ProfileOf, NarrowShape, Pipes
<1> QED
  BY <1>3, <1>4

(* However flags, profile and narrow_shape combine, every surface the      *)
(* workers call is served by one handle of a profile that exposes it.      *)
THEOREM StartupServesSurfaces == Spec => []SurfaceServed
<1>1. ASSUME IInv PROVE SurfaceServed
  <2> SUFFICES ASSUME Started PROVE SurfaceServed
    BY DEF SurfaceServed
  <2>1. /\ TypeOK /\ LineInv /\ BuiltInv /\ shape \in Shapes /\ todo = << >>
    BY <1>1 DEF IInv, TypeOK, BuiltInv, Started
  <2>2. \A p \in Pipes : ~InPipes(p, todo)
    BY <2>1 DEF InPipes
  <2>3. \A p \in Pipes : /\ ~InPipes(p, PipesOf(shape)) => OfPipe(p) = {}
                         /\ InPipes(p, PipesOf(shape)) => \E b \in OfPipe(p) : OfPipe(p) = {b}
    BY <2>1, <2>2 DEF BuiltInv, Started
  <2>4. \A b \in built : b.pipe \in Pipes /\ b.profile = ProfileOf(b.pipe)
    BY <2>1 DEF BuiltInv
  <2>5. \A p \in Pipes : InPipes(p, PipesOf(shape)) =>
            Profiles[ProfileOf(p)].mode = IF p = "stream" THEN "streaming" ELSE "singlemsg"
    BY <2>1, ModeOfPipe
  <2>6. /\ InPipes("stream", PipesOf(shape)) <=> "streaming" \in SurfacesOf(shape)
        /\ InPipes("msg", PipesOf(shape)) <=> "singlemsg" \in SurfacesOf(shape)
    BY <2>1 DEF InPipes, PipesOf, SurfacesOf, Shapes
  <2>7. ASSUME NEW b \in built
        PROVE  /\ InPipes(b.pipe, PipesOf(shape))
               /\ Profiles[b.profile].mode = IF b.pipe = "stream" THEN "streaming" ELSE "singlemsg"
               /\ Profiles[b.profile].mode \in SurfacesOf(shape)
    <3>1. b.pipe \in Pipes /\ b \in OfPipe(b.pipe)
      BY <2>4 DEF OfPipe
    <3>2. InPipes(b.pipe, PipesOf(shape))
      BY <2>3, <3>1
    <3> QED
      BY <2>4, <2>5, <2>6, <3>1, <3>2 DEF Pipes
  <2>8. ASSUME NEW mode \in {"streaming", "singlemsg"}, mode \in SurfacesOf(shape)
        PROVE  LET handles == {b \in built : Profiles[b.profile].mode = mode
                                   /\ b.pipe = IF mode = "streaming" THEN "stream" ELSE "msg"}
               IN \E b \in handles : handles = {b}
    <3> DEFINE p == IF mode = "streaming" THEN "stream" ELSE "msg"
               handles == {b \in built : Profiles[b.profile].mode = mode /\ b.pipe = p}
    <3>1. p \in Pipes /\ InPipes(p, PipesOf(shape))
      BY <2>6, <2>8 DEF Pipes
    <3>2. handles = OfPipe(p)
      BY <2>7 DEF OfPipe
    <3> QED
      BY <2>3, <3>1, <3>2
  <2> QED
    BY <2>7, <2>8 DEF SurfaceServed
<1> QED
  BY <1>1, StartupInvariant, PTL

(* The runtime the workers run under, and the one the summary reports, is  *)
(* the environment's where no flag says otherwise.                         *)
THEOREM StartupKeepsEnvironment == Spec => []EnvironmentStands
<1>1. IInv => EnvironmentStands
  BY DEF IInv, RuntimeInv, EnvironmentStands, Started, Shaped, Limit, GogcSet, ProcsSet,
         Constructing
<1> QED
  BY <1>1, StartupInvariant, PTL

(* No setter and no query of run or final_summary changes the runtime      *)
(* while a pipeline exists.                                                *)
THEOREM StartupShapesFirst == Spec => ShapedBeforeBuilt
<1>1. IInv /\ [Next]_vars => [built # {} => UNCHANGED runtime]_vars
  <2> SUFFICES ASSUME IInv, Next, built # {} PROVE UNCHANGED runtime
    BY DEF vars
  <2>1. pc \notin Shaping
    BY DEF IInv, BuiltInv
  <2> QED
    BY <2>1 DEF Next, ParseArg, ParseFlags, MemLimit, Gogc, Procs, Options, InitAndSave, Run,
                Summary, SetGcPercent, Shaping
<1> QED
  BY <1>1, StartupInvariant, PTL DEF Spec, ShapedBeforeBuilt

(* Unless memory runs out, every query that goes to libitb3 supplies what  *)
(* the layers it asks for are made of: fill_keystream_layers is enough for *)
(* every profile, however flags and profile combine.                       *)
THEOREM StartupSuppliesLayers ==
    ASSUME OutOfMemory = FALSE
    PROVE  Spec => []LayersSupplied
<1>1. ASSUME IInv PROVE LayersSupplied
  <2> SUFFICES ASSUME pc = "init" PROVE Layered(Profiles[ProfileOf(Head(todo))])
    BY DEF LayersSupplied
  <2>1. ValidLine /\ TypeOK /\ BuiltInv
    BY <1>1 DEF IInv, LineInv
  <2>2. DOMAIN options = 1..Len(Wanted) /\ \A i \in 1..Len(Wanted) : options[i] = Wanted[i]
    BY <1>1 DEF IInv, QueryInv
  <2> QED
    BY <2>1, <2>2, FullQueryLayered
<1> QED
  BY <1>1, StartupInvariant, PTL
===============================================================================
