------------------------------- MODULE Startup -------------------------------
(***************************************************************************)
(* What the stress harness does before its workers start, and what it      *)
(* reports of it afterwards (loop/main.c, loop/summary.c): the command     *)
(* line, the shaping of the Go runtime, and the pipelines it builds for    *)
(* the surfaces the workers will call.  LoopRun starts from the shape and  *)
(* the handles this module ends with.                                      *)
(*                                                                         *)
(* A value on the command line is a token; IntOf, SizeOf and DurationOf    *)
(* say what the well-formed ones mean.  A profile record is the mode and   *)
(* the optional keys present in its JSON text.  Sizes are counted in MiB.  *)
(***************************************************************************)
EXTENDS Integers, Sequences, SequencesExt

CONSTANTS
    Given,       \* the arguments of a command line, <<flag, value>>
    MaxArgs,     \* bound of the model: arguments on a line
    Profiles,    \* the registered profiles, a function to records
    HashNames,   \* the registered hash primitives, in order
    WideHashes,  \* those of 512 bits
    Macs, Drbgs, \* the MAC names and the fill primitives libitb3 knows
    Environment, \* runtimes the process may start in, [limit, gogc, procs]
    Faults,      \* whether libitb3 may fail
    OutOfMemory  \* whether itb_opts_set may fail

NoValue == "(no value)"
Unset == "" \* the value of a string flag that names nothing
NoPair == <<"", "">>
IntFlags == {"barrier-fill", "blob-mode", "gogc", "gomaxprocs", "goroutines", "key-bits",
             "nonce-bits", "blob-cycle-every", "iterations", "rekey-every"}
BoolFlags == {"json-output"}
StringFlags == {"chunk-size", "drbg", "duration", "hash", "interlock", "mac", "memlimit",
                "parallax", "payload-mode", "payload-size", "profile", "shape", "wrapper"}
FlagNames == IntFlags \cup BoolFlags \cup StringFlags

IntOf == [t \in {"-1", "0", "1", "2", "3", "10", "11", "512"} |->
             CASE t = "-1" -> -1 [] t = "0" -> 0 [] t = "1" -> 1 [] t = "2" -> 2
               [] t = "3" -> 3 [] t = "10" -> 10 [] t = "11" -> 11 [] t = "512" -> 512]
SizeOf == [t \in {"0", "16MB", "1GiB"} |-> CASE t = "0" -> 0 [] t = "16MB" -> 16 [] t = "1GiB" -> 1024]
DurationOf == [t \in {"0s", "5m"} |-> IF t = "5m" THEN 300 ELSE 0]
Shapes == {"stream", "message", "stream_one_shot", "both"}
DefaultProfile == [stream |-> "streaming-aead-triple-mac-v1", msg |-> "singlemsg-triple-mac-v1"]

Unlimited == 1000000 \* INT64_MAX, what a runtime without a limit reports

ASSUME StartupAssumption ==
    /\ MaxArgs \in Nat /\ Faults \in BOOLEAN /\ OutOfMemory \in BOOLEAN
    /\ Environment \subseteq [limit : Nat, gogc : Int, procs : Nat \ {0}]

(* What the code takes for granted of the catalogue of libitb3: the modes; *)
(* default profiles with every layer named, one for each kind of surface;  *)
(* and a segment size wherever there is a palette.                         *)
ASSUME CatalogueAssumption ==
    /\ \A p \in DOMAIN Profiles :
           /\ Profiles[p].mode \in {"streaming", "singlemsg", "blob-only"}
           /\ {Profiles[p].palette, Profiles[p].segment, Profiles[p].outer} \subseteq BOOLEAN
           /\ Profiles[p].palette => Profiles[p].segment
    /\ {DefaultProfile.stream, DefaultProfile.msg} \subseteq DOMAIN Profiles
    /\ Profiles[DefaultProfile.stream].mode = "streaming"
    /\ Profiles[DefaultProfile.msg].mode = "singlemsg"
    /\ \A p \in {DefaultProfile.stream, DefaultProfile.msg} :
           Profiles[p].palette /\ Profiles[p].outer

VARIABLES
    raw,       \* struct raw_flags: the token of every flag
    args,      \* how many arguments were parsed
    pc,
    shape,     \* cfg.shape
    memlimit,  \* cfg.memlimit
    runtime, env, \* the Go runtime now, and as the process found it
    todo,      \* pipelines still to be built
    options,   \* the pairs in the opts builder
    built,     \* the handles and the pairs they were initialised with
    report,    \* the runtime figures of the summary
    exit, faulty

vars == <<raw, args, pc, shape, memlimit, runtime, env, todo, options, built, report, exit, faulty>>
Building == <<todo, options, built>>

DefaultNumber(flag) ==
    IF flag = "goroutines" THEN "3" ELSE IF flag = "blob-mode" THEN "1" ELSE "0"
DefaultText(flag) ==
    CASE flag \in {"drbg", "interlock", "profile"} -> Unset [] flag = "chunk-size" -> "0"
      [] flag = "duration" -> "5m" [] flag = "hash" -> "areion512" [] flag = "mac" -> "hmac-blake3"
      [] flag = "memlimit" -> "auto" [] flag \in {"parallax", "wrapper"} -> "on"
      [] flag = "payload-mode" -> "fixed" [] flag = "payload-size" -> "16MB"
      [] flag = "shape" -> "stream" [] flag = "json-output" -> "false"
Default ==
    [f \in FlagNames |-> IF f \in IntFlags THEN DefaultNumber(f) ELSE DefaultText(f)]

NoReport == [limit |-> 0, gogc |-> 0, procs |-> 0]

Init ==
    /\ raw = Default /\ args = 0 /\ pc = "argv"
    /\ shape = "stream" /\ memlimit = 0
    /\ env \in Environment /\ runtime = env
    /\ todo = << >> /\ options = << >> /\ built = {} /\ report = NoReport
    /\ exit = 0 /\ faulty = FALSE

Exit(code) == pc' = "exit" /\ exit' = code
Goto(label) == pc' = label /\ UNCHANGED exit
Fault == Faults /\ faulty' = TRUE

-----------------------------------------------------------------------------
(* The command line. *)

WellFormed(flag, value) ==
    /\ flag \in IntFlags => value \in DOMAIN IntOf
    /\ flag \in BoolFlags => value \in {"true", "false"}

(* parse_argv, one argument; a later one overrides an earlier one.  A name *)
(* that is no flag stands for every other argument that is refused.        *)
ParseArg ==
    /\ pc = "argv" /\ args < MaxArgs
    /\ args' = args + 1
    /\ \E arg \in Given :
           LET flag == arg[1]
               value == IF arg[2] = NoValue /\ flag \in BoolFlags THEN "true" ELSE arg[2]
           IN \/ flag = "help" /\ Exit(0) /\ UNCHANGED raw
              \/ /\ flag \in FlagNames /\ value # NoValue /\ WellFormed(flag, value)
                 /\ raw' = [raw EXCEPT ![flag] = value]
                 /\ Goto("argv")
              \/ /\ flag # "help" /\ (flag \in FlagNames => value = NoValue \/ ~WellFormed(flag, value))
                 /\ Exit(2) /\ UNCHANGED raw
    /\ UNCHANGED <<shape, memlimit, runtime, env, Building, report, faulty>>

(* Substring tests on JSON text, as strstr does them; a name is one token. *)
OccursIn(part, text) ==
    \E i \in 0..Len(text) - Len(part) : SubSeq(text, i + 1, i + Len(part)) = part

HashJson ==
    LET Item(i) == (IF i > 1 THEN <<",">> ELSE << >>) \o <<"\"", HashNames[i], "\"">>
    IN <<"[">> \o FlattenSeq([i \in DOMAIN HashNames |-> Item(i)]) \o <<"]">>

HashRegistered(name) == OccursIn(<<"\"", name, "\"">>, HashJson)

OnOff == {"on", "off"}

Number(flag) == IntOf[raw[flag]]

(* The rules of parse_flags: of the run, of the runtime, of the pipelines. *)
RunRules ==
    /\ raw["duration"] \in DOMAIN DurationOf /\ DurationOf[raw["duration"]] > 0
    /\ Number("iterations") >= 0
    /\ Number("goroutines") \in 1..10 \* LOOP_MAX_WORKERS
    /\ raw["shape"] \in Shapes
    /\ raw["payload-size"] \in DOMAIN SizeOf /\ SizeOf[raw["payload-size"]] >= 1
    /\ Number("rekey-every") >= 0 /\ Number("blob-cycle-every") >= 0
    /\ raw["payload-mode"] \in {"fixed", "rotating", "pattern-zero", "pattern-ff", "pattern-ascii"}

RuntimeRules ==
    /\ raw["memlimit"] = "auto" \/ raw["memlimit"] \in DOMAIN SizeOf
    /\ Number("gogc") >= 0 /\ Number("gomaxprocs") >= 0

PipelineRules ==
    /\ HashRegistered(raw["hash"])
    /\ raw["parallax"] \in OnOff /\ raw["wrapper"] \in OnOff
    /\ raw["profile"] # Unset =>
           raw["profile"] \in DOMAIN Profiles /\ Profiles[raw["profile"]].mode # "blob-only"
    /\ Number("key-bits") \in {0, 512, 1024, 2048} /\ Number("nonce-bits") \in {0, 128, 256, 512}
    /\ Number("blob-mode") \in {1, 2} /\ Number("barrier-fill") \in {0, 1, 2, 4, 8, 16, 32}
    /\ raw["interlock"] \in {Unset, "48", "168"}
    /\ raw["chunk-size"] \in DOMAIN SizeOf

ValidLine == RunRules /\ RuntimeRules /\ PipelineRules

(* Mutant: a streaming profile leaves "both" as it was requested. *)
NarrowShape_KeepsBoth(requested, mode) ==
    IF mode = "singlemsg" THEN "message"
    ELSE IF requested = "message" THEN "stream" ELSE requested

(* narrow_shape, applied when a profile was named.                         *)
NarrowShape(requested, mode) ==
    IF mode = "singlemsg" THEN "message"
    ELSE IF requested = "stream_one_shot" THEN "stream_one_shot" ELSE "stream"

ParseFlags ==
    /\ pc = "argv"
    /\ \/ /\ ValidLine
          /\ shape' = IF raw["profile"] = Unset THEN raw["shape"]
                      ELSE NarrowShape(raw["shape"], Profiles[raw["profile"]].mode)
          /\ memlimit' = IF raw["memlimit"] # "auto" THEN SizeOf[raw["memlimit"]]
                         ELSE IF Number("goroutines") <= 3 THEN 1024 ELSE 256
          /\ Goto("memlimit") /\ UNCHANGED faulty
       \/ ~ValidLine /\ Exit(2) /\ UNCHANGED <<shape, memlimit, faulty>>
       \/ Fault /\ Exit(2) /\ UNCHANGED <<shape, memlimit>> \* hash_names or lookup fails
    /\ UNCHANGED <<raw, args, runtime, env, Building, report>>

-----------------------------------------------------------------------------
(* Shaping of the runtime.  A setter given a negative value, or zero for   *)
(* GOMAXPROCS, only queries.                                               *)

SetMemoryLimit(n) == IF n < 0 THEN runtime ELSE [runtime EXCEPT !.limit = n]
SetGcPercent(n) == IF n < 0 THEN runtime ELSE [runtime EXCEPT !.gogc = n]
SetGomaxprocs(n) == IF n <= 0 THEN runtime ELSE [runtime EXCEPT !.procs = n]

(* Mutant: auto installs its limit over the one of the environment. *)
MemLimit_AutoWins ==
    /\ pc = "memlimit"
    /\ runtime' = SetMemoryLimit(memlimit)
    /\ memlimit' = runtime'.limit
    /\ Goto("gogc")
    /\ UNCHANGED <<raw, args, shape, env, Building, report, faulty>>

MemLimit ==
    /\ pc = "memlimit"
    /\ runtime' = IF raw["memlimit"] = "auto" /\ SetMemoryLimit(-1).limit # Unlimited THEN runtime
                  ELSE SetMemoryLimit(memlimit)
    /\ memlimit' = runtime'.limit
    /\ Goto("gogc")
    /\ UNCHANGED <<raw, args, shape, env, Building, report, faulty>>

Gogc ==
    /\ pc = "gogc"
    /\ runtime' = IF Number("gogc") > 0 THEN SetGcPercent(Number("gogc")) ELSE runtime
    /\ Goto("procs")
    /\ UNCHANGED <<raw, args, shape, memlimit, env, Building, report, faulty>>

(* The pipelines of a shape, in the order they are built.                  *)
PipesOf(s) ==
    CASE s = "message" -> <<"msg">> [] s = "both" -> <<"stream", "msg">> [] OTHER -> <<"stream">>

Procs ==
    /\ pc = "procs"
    /\ runtime' = IF Number("gomaxprocs") > 0 THEN SetGomaxprocs(Number("gomaxprocs")) ELSE runtime
    /\ todo' = PipesOf(shape)
    /\ Goto("options")
    /\ UNCHANGED <<raw, args, shape, memlimit, env, options, built, report, faulty>>

-----------------------------------------------------------------------------
(* build_pipeline. *)

ProfileOf(pipe) == IF raw["profile"] # Unset THEN raw["profile"] ELSE DefaultProfile[pipe]

TrueFalse(flag) == IF raw[flag] = "on" THEN "true" ELSE "false"

FlagOptions ==
    <<<<"mode", raw["blob-mode"]>>, <<"innerHash", raw["hash"]>>, <<"macName", raw["mac"]>>,
      <<"withParallax", TrueFalse("parallax")>>, <<"withWrapper", TrueFalse("wrapper")>>,
      <<"keyBits", raw["key-bits"]>>, <<"nonceBits", raw["nonce-bits"]>>,
      <<"barrierFill", raw["barrier-fill"]>>, <<"drbg", raw["drbg"]>>,
      <<"interlock", raw["interlock"]>>, <<"chunkSize", raw["chunk-size"]>>>>

FillCipher == "aescmac" \* KEYSTREAM_FILL_CIPHER
FillPalette == "aescmac,aescmac,aescmac"

(* Mutant: a segment size is never supplied. *)
Fill_NoSegment(profile) ==
    LET record == Profiles[profile]
    IN (IF raw["parallax"] = "on" /\ ~record.palette
        THEN <<<<"parallaxPalette", FillPalette>>>> ELSE << >>)
       \o (IF raw["wrapper"] = "on" /\ ~record.outer THEN <<<<"outerCipher", FillCipher>>>> ELSE << >>)

(* fill_keystream_layers.                                                  *)
Fill(profile) ==
    LET record == Profiles[profile]
    IN (IF raw["parallax"] = "on" /\ ~record.palette
        THEN <<<<"parallaxPalette", FillPalette>>>>
             \o (IF record.segment THEN << >> ELSE <<<<"parallaxSegmentSize", "4093">>>>)
        ELSE << >>)
       \o (IF raw["wrapper"] = "on" /\ ~record.outer THEN <<<<"outerCipher", FillCipher>>>> ELSE << >>)

Wanted == FlagOptions \o (IF raw["profile"] # Unset THEN Fill(raw["profile"]) ELSE << >>)

(* Every set whose memory runs out leaves its pair out: the results are    *)
(* not looked at.                                                          *)
Options ==
    /\ pc = "options" /\ todo # << >>
    /\ \/ /\ \E kept \in IF OutOfMemory THEN SUBSET DOMAIN Wanted ELSE {DOMAIN Wanted} :
                 options' = [i \in 1..Len(Wanted) |-> IF i \in kept THEN Wanted[i] ELSE NoPair]
          /\ Goto("init") /\ UNCHANGED faulty
       \/ Fault /\ Exit(1) /\ UNCHANGED options \* itb_opts_new or the lookup fails
    /\ UNCHANGED <<raw, args, shape, memlimit, runtime, env, todo, built, report>>

(* What libitb3 makes of a profile and the pairs of the query, as far as   *)
(* the repository tells.  The hash, the MAC and the DRBG are names it      *)
(* knows, an empty DRBG being its own choice, and the wide interlock needs *)
(* a hash of 512 bits; the profiles' own hashes have them.  A layer that   *)
(* is asked for has what it is made of, from the profile or the query.     *)
Has(pair) == \E i \in DOMAIN options : options[i] = pair
HasKey(key) == \E i \in DOMAIN options : options[i][1] = key
Allows(key, value) ==
    /\ key = "innerHash" => value \in ToSet(HashNames)
    /\ key = "innerHash" /\ Has(<<"interlock", "168">>) => value \in WideHashes
    /\ key = "macName" => value \in Macs
    /\ key = "drbg" => value \in Drbgs \cup {Unset}
Layered(record) ==
    /\ Has(<<"withParallax", "true">>) =>
           /\ record.palette \/ HasKey("parallaxPalette")
           /\ record.segment \/ HasKey("parallaxSegmentSize")
    /\ Has(<<"withWrapper", "true">>) => record.outer \/ HasKey("outerCipher")
Accepts(record) ==
    (\A i \in DOMAIN options : Allows(options[i][1], options[i][2])) /\ Layered(record)

(* The blob is taken at once; when that fails the handle is given back.    *)
InitAndSave ==
    /\ pc = "init"
    /\ \/ /\ Accepts(Profiles[ProfileOf(Head(todo))])
          /\ built' = built \cup {[pipe |-> Head(todo), profile |-> ProfileOf(Head(todo)),
                                   options |-> options]}
          /\ todo' = Tail(todo)
          /\ Goto("options") /\ UNCHANGED faulty
       \/ /\ ~Accepts(Profiles[ProfileOf(Head(todo))])
          /\ Exit(1) /\ UNCHANGED <<built, todo, faulty>>
       \/ Fault /\ Exit(1) /\ UNCHANGED <<built, todo>> \* Init or Save fails
    /\ UNCHANGED <<raw, args, shape, memlimit, runtime, env, options, report>>

(* The run itself is LoopRun. *)
Run ==
    /\ pc = "options" /\ todo = << >>
    /\ Goto("summary")
    /\ UNCHANGED <<raw, args, shape, memlimit, runtime, env, Building, report, faulty>>

(* Mutant: GOGC is queried with zero, which sets it. *)
Summary_QueriesWithZero ==
    /\ pc = "summary"
    /\ report' = [limit |-> memlimit, gogc |-> runtime.gogc, procs |-> runtime.procs]
    /\ runtime' = IF Number("gogc") > 0 THEN runtime ELSE SetGcPercent(0)
    /\ Exit(0)
    /\ UNCHANGED <<raw, args, shape, memlimit, env, Building, faulty>>

(* The figures of final_summary.                                           *)
Summary ==
    /\ pc = "summary"
    /\ report' = [limit |-> memlimit,
                  gogc |-> IF Number("gogc") > 0 THEN Number("gogc") ELSE SetGcPercent(-1).gogc,
                  procs |-> SetGomaxprocs(0).procs]
    /\ runtime' = IF Number("gogc") > 0 THEN runtime ELSE SetGcPercent(-1)
    /\ Exit(0)
    /\ UNCHANGED <<raw, args, shape, memlimit, env, Building, faulty>>

Next ==
    \/ ParseArg \/ ParseFlags
    \/ MemLimit \/ Gogc \/ Procs
    \/ Options \/ InitAndSave \/ Run \/ Summary

Spec == Init /\ [][Next]_vars

-----------------------------------------------------------------------------
(* Properties. *)

Started == pc = "summary" \/ report # NoReport

(* The surfaces the workers call are served: for each there is exactly one *)
(* handle, built against a profile whose mode exposes it, however flags,   *)
(* profile and narrowing combine.                                          *)
SurfacesOf(s) ==
    (IF s # "message" THEN {"streaming"} ELSE {}) \cup (IF s \in {"message", "both"} THEN {"singlemsg"} ELSE {})

SurfaceServed ==
    Started =>
        \A mode \in {"streaming", "singlemsg"} :
            LET handles == {b \in built : Profiles[b.profile].mode = mode
                                              /\ b.pipe = IF mode = "streaming" THEN "stream" ELSE "msg"}
            IN /\ mode \in SurfacesOf(shape) => \E b \in handles : handles = {b}
               /\ \A b \in built : Profiles[b.profile].mode \in SurfacesOf(shape)

(* Whatever layers are asked of a profile that leaves them unnamed, the    *)
(* query that goes to libitb3 supplies what they are made of (the comment  *)
(* at fill_keystream_layers): no command line that passes the checks is    *)
(* refused over a layer.  With a query the memory ran out for it may be.   *)
LayersSupplied ==
    pc = "init" => Layered(Profiles[ProfileOf(Head(todo))])

(* The environment stands unless a flag says otherwise: a limit that was   *)
(* installed survives auto, and a zero flag leaves GOGC and GOMAXPROCS; a  *)
(* limit is in force whenever the workers run, and the summary reports the *)
(* runtime they ran under.                                                 *)
EnvironmentStands ==
    /\ Started =>
        /\ runtime.limit = IF raw["memlimit"] # "auto" THEN SizeOf[raw["memlimit"]]
                           ELSE IF env.limit # Unlimited THEN env.limit
                           ELSE IF Number("goroutines") <= 3 THEN 1024 ELSE 256
        /\ runtime.gogc = IF Number("gogc") = 0 THEN env.gogc ELSE Number("gogc")
        /\ runtime.procs = IF Number("gomaxprocs") = 0 THEN env.procs ELSE Number("gomaxprocs")
    /\ report # NoReport => report = runtime

(* The runtime is never touched while a pipeline exists, also not by the   *)
(* queries of the summary.                                                 *)
ShapedBeforeBuilt == [][built # {} => UNCHANGED runtime]_vars

(* "every flag-carried override in the opts string" (main.c:740-741): a    *)
(* handle is built from all of them.                                       *)
OverridesCarried ==
    \A b \in built : ToSet(FlagOptions) \subseteq ToSet(b.options)
===============================================================================
