------------------------------ MODULE MCStartup ------------------------------
(***************************************************************************)
(* Command lines for TLC: every flag the configuration depends on, with    *)
(* values that pass, that fail and at the limits, and profiles of every    *)
(* mode, with and without the layers a run may ask for.                    *)
(***************************************************************************)
EXTENDS Startup

Record(mode, palette, segment, outer) ==
    [mode |-> mode, palette |-> palette, segment |-> segment, outer |-> outer]

MCProfiles ==
    [p \in {DefaultProfile.stream, DefaultProfile.msg, "bare", "bare-stream", "half", "blob"} |->
        CASE p = DefaultProfile.stream -> Record("streaming", TRUE, TRUE, TRUE)
          [] p = DefaultProfile.msg -> Record("singlemsg", TRUE, TRUE, TRUE)
          [] p = "bare" -> Record("singlemsg", FALSE, FALSE, FALSE)
          [] p = "bare-stream" -> Record("streaming", FALSE, FALSE, FALSE)
          [] p = "half" -> Record("streaming", FALSE, TRUE, TRUE)
          [] p = "blob" -> Record("blob-only", TRUE, TRUE, TRUE)]

MCHashNames == <<"areion512", "blake3">>
MCWideHashes == {"areion512"}
MCMacs == {"hmac-blake3"}
MCDrbgs == {"chacha20"}
MCEnvironment ==
    {[limit |-> l, gogc |-> g, procs |-> 4] : l \in {512, Unlimited}, g \in {50, 100}}

ShapeArgs == {"shape"} \X (Shapes \cup {"none"})
ProfileArgs == {"profile"} \X (DOMAIN MCProfiles \cup {"unknown"})
LayerArgs == {"parallax", "wrapper"} \X {"off", "maybe"}
KnobArgs ==
    ({"memlimit"} \X {"0", "1GiB", "x"}) \cup ({"gogc", "gomaxprocs"} \X {"-1", "0", "1"})
        \cup ({"goroutines"} \X {"0", "1", "10", "11"})
LimitArgs ==
    ({"iterations", "rekey-every", "blob-cycle-every"} \X {"-1", "2"})
        \cup ({"key-bits", "nonce-bits"} \X {"3", "512"}) \cup ({"blob-mode"} \X {"0", "2"})
        \cup ({"barrier-fill"} \X {"2", "3"}) \cup {<<"duration", "0s">>, <<"payload-size", "0">>}
OtherArgs ==
    {<<"hash", "blake3">>, <<"hash", "sha0">>, <<"mac", "none">>, <<"drbg", "chacha20">>,
     <<"drbg", "nope">>, <<"interlock", "168">>, <<"interlock", "47">>,
     <<"chunk-size", "16MB">>, <<"chunk-size", "x">>,
     <<"payload-mode", "rotating">>, <<"payload-mode", "x">>, <<"json-output", NoValue>>,
     <<"json-output", "maybe">>, <<"gogc", "x">>, <<"mac", NoValue>>, <<"help", NoValue>>,
     <<"positional", NoValue>>}

MCGiven == ShapeArgs \cup ProfileArgs \cup LayerArgs \cup KnobArgs \cup LimitArgs \cup OtherArgs

(* Enough for an override that is lost. *)
MCSmall == {<<"shape", "message">>, <<"mac", "none">>}
===============================================================================
