-------------------------------- MODULE Eitb --------------------------------
(***************************************************************************)
(* The command line tool (eitb/eitb.c): runs of `encrypt` and `decrypt`,   *)
(* one after the other, over the same files.  Each run is a sequence of    *)
(* steps that may fail; what it leaves behind is the files, the blob it    *)
(* printed and its exit code.                                              *)
(*                                                                         *)
(* A byte of a plain file is <<0, i>>.  Encrypting a text in session k     *)
(* gives a wire of units <<k, i>>, one longer than the text; only the      *)
(* whole wire, under the keys of k and the same pair of calls, decrypts.   *)
(***************************************************************************)
EXTENDS Integers, Sequences, FiniteSets, Functions, FiniteSetsExt, SequencesExt

CONSTANTS
    Profiles,    \* the names of profiles the runs are given
    Streaming,   \* those that begin with "streaming-"
    Served,      \* those of a profile with the cipher calls its name tells
    Blobs,       \* the saved blob of every session, a sequence of bytes
    Paths,       \* the files the runs are given
    TextLen,     \* length of the first plain file
    Plain,       \* the path it is found at
    FirstCap,    \* first capacity of read_file, 65536 in the code
    SizeMax,     \* SIZE_MAX
    MaxRuns,     \* bound of the model: runs of the tool
    Faults       \* whether the system and libitb3 may fail

ASSUME EitbAssumption ==
    /\ Plain \in Paths /\ TextLen \in Nat
    /\ MaxRuns \in Nat
    /\ Streaming \subseteq Profiles /\ Served \subseteq Profiles /\ Profiles # {}
    /\ Blobs \in [1..MaxRuns -> Seq(0..255) \ {<< >>}] /\ IsInjective(Blobs)
    /\ FirstCap \in 1..SizeMax /\ SizeMax \in Nat
    /\ Faults \in BOOLEAN

Surfaces == {"stream", "message"}
Resources == {"input", "output", "blob", "pipe", "file"}
Absent == <<<<-1, 0>>>> \* the content of a path that names no file
Text(n) == [i \in 1..n |-> <<0, i>>]

VARIABLES
    files,     \* content of every path
    sessions,  \* what libitb3 ever opened: text, and the calls that encrypted it
    printed,   \* the hex texts that arrived at stderr
    run,       \* the command line of the current or last run
    pc,
    heap,      \* how many of each resource the process holds
    buf, cap, offset, ferror,  \* read_file
    session,   \* the session of the pipeline
    result,    \* what the cipher call returned
    exit,      \* exit code of the last run
    before,    \* the files as the run found them
    faulty     \* whether anything failed that need not have

vars == <<files, sessions, printed, run, pc, heap, buf, cap, offset, ferror, session,
          result, exit, before, faulty>>

NoRun == [cmd |-> "none", profile |-> CHOOSE p \in Profiles : TRUE, hex |-> << >>,
          in |-> Plain, out |-> Plain, number |-> 0]
NothingHeld == [r \in Resources |-> 0]

Init ==
    /\ files = [p \in Paths |-> IF p = Plain THEN Text(TextLen) ELSE Absent]
    /\ sessions = << >> /\ printed = {}
    /\ run = NoRun /\ pc = "idle" /\ heap = NothingHeld
    /\ buf = << >> /\ cap = 0 /\ offset = 0 /\ ferror = FALSE
    /\ session = 0 /\ result = Absent /\ exit = 0
    /\ before = files /\ faulty = FALSE

Acquire(r) == heap' = [heap EXCEPT ![r] = @ + 1]
Release(S) == heap' = [r \in Resources |-> heap[r] - IF r \in S THEN 1 ELSE 0]

Fault == Faults /\ faulty' = TRUE

(* The process returns from main: the resources named in S were released   *)
(* on the way.                                                             *)
Return(code, S) == pc' = "idle" /\ exit' = code /\ Release(S)

Reading == <<buf, cap, offset, ferror>>
World == <<files, sessions, printed, run, before>>

-----------------------------------------------------------------------------
(* The blob on the command line: pairs of hex digits. *)

LowerHex == <<"0", "1", "2", "3", "4", "5", "6", "7", "8", "9", "a", "b", "c", "d", "e", "f">>
UpperHex == <<"0", "1", "2", "3", "4", "5", "6", "7", "8", "9", "A", "B", "C", "D", "E", "F">>

Digits == [c \in Range(LowerHex) \cup Range(UpperHex) |->
              CHOOSE n \in 0..15 : c \in {LowerHex[n + 1], UpperHex[n + 1]}]
HexDigit(n) == LowerHex[n + 1]

PrintHex(blob) ==
    [i \in 1..2 * Len(blob) |-> LET byte == blob[(i + 1) \div 2]
                               IN HexDigit(IF i % 2 = 1 THEN byte \div 16 ELSE byte % 16)]

HexValid(s) ==
    /\ Len(s) > 0 /\ Len(s) % 2 = 0
    /\ \A i \in DOMAIN s : s[i] \in DOMAIN Digits

(* Mutant: the nibbles are put together the wrong way round. *)
HexParse_Swapped(s) == [i \in 1..Len(s) \div 2 |-> Digits[s[2 * i]] * 16 + Digits[s[2 * i - 1]]]

HexParse(s) == [i \in 1..Len(s) \div 2 |-> Digits[s[2 * i - 1]] * 16 + Digits[s[2 * i]]]

-----------------------------------------------------------------------------
(* A run starts.  decrypt is given what stderr has shown, perhaps in       *)
(* capitals, or something else.                                            *)
Upper(s) == [i \in DOMAIN s |-> UpperHex[Digits[s[i]] + 1]]
Arguments ==
    printed \cup {Upper(s) : s \in printed} \cup {<< >>, <<"a">>, <<"a", "g">>, <<"0", "0">>}

Start ==
    /\ pc = "idle" /\ run.number < MaxRuns
    /\ \E cmd \in {"encrypt", "decrypt"}, profile \in Profiles, in, out \in Paths :
           \E hex \in IF cmd = "decrypt" THEN Arguments ELSE {<< >>} :
               run' = [cmd |-> cmd, profile |-> profile, hex |-> hex, in |-> in, out |-> out,
                       number |-> run.number + 1]
    /\ pc' = IF run'.cmd = "decrypt" THEN "parse" ELSE "open"
    /\ before' = files /\ faulty' = FALSE /\ exit' = 0
    /\ buf' = << >> /\ cap' = 0 /\ offset' = 0 /\ ferror' = FALSE
    /\ session' = 0 /\ result' = Absent
    /\ UNCHANGED <<files, sessions, printed, heap>>

Parse ==
    /\ pc = "parse"
    /\ \/ HexValid(run.hex) /\ Acquire("blob") /\ pc' = "open" /\ UNCHANGED <<exit, faulty>>
       \/ ~HexValid(run.hex) /\ Return(1, {}) /\ UNCHANGED faulty
       \/ Fault /\ Return(1, {})
    /\ UNCHANGED <<World, Reading, session, result>>

-----------------------------------------------------------------------------
(* read_file. *)

(* What the caller of a failed read_file still has to release.             *)
OfCaller == IF run.cmd = "decrypt" THEN {"blob"} ELSE {}

Open ==
    /\ pc = "open"
    /\ \/ files[run.in] # Absent /\ pc' = "alloc" /\ Acquire("file") /\ UNCHANGED <<exit, faulty>>
       \/ files[run.in] = Absent /\ Return(1, OfCaller) /\ UNCHANGED faulty
       \/ Fault /\ Return(1, OfCaller)
    /\ UNCHANGED <<World, Reading, session, result>>

AllocBuffer ==
    /\ pc = "alloc"
    /\ \/ /\ cap' = FirstCap /\ pc' = "read" /\ Acquire("input")
          /\ UNCHANGED <<exit, faulty>>
       \/ /\ Fault /\ Return(1, {"file"} \cup OfCaller)
          /\ UNCHANGED cap
    /\ UNCHANGED <<World, buf, offset, ferror, session, result>>

(* Mutant: the buffer is grown one read too late. *)
Full_Late == Len(buf) > cap

Full == Len(buf) = cap

TooLarge == 2 * cap > SizeMax

Grow ==
    /\ pc = "read" /\ Full
    /\ \/ /\ ~TooLarge /\ cap' = 2 * cap /\ pc' = "fread" /\ UNCHANGED <<heap, exit, faulty>>
       \/ /\ TooLarge /\ Return(1, {"input", "file"} \cup OfCaller) /\ UNCHANGED <<cap, faulty>>
       \/ /\ ~TooLarge /\ Fault /\ Return(1, {"input", "file"} \cup OfCaller) /\ UNCHANGED cap
    /\ UNCHANGED <<World, buf, offset, ferror, session, result>>

Fits ==
    /\ pc = "read" /\ ~Full
    /\ pc' = "fread"
    /\ UNCHANGED <<World, Reading, heap, exit, faulty, session, result>>

(* Mutant: only an error ends the reading. *)
Fread_RetriesEmpty ==
    /\ pc = "fread"
    /\ LET content == files[run.in]
           full == Min({cap - Len(buf), Len(content) - offset})
       IN \E n \in 0..full :
              /\ \/ n = full /\ UNCHANGED <<ferror, faulty>>
                 \/ Fault /\ ferror' = TRUE
              /\ buf' = buf \o SubSeq(content, offset + 1, offset + n)
              /\ offset' = offset + n
              /\ pc' = IF n = 0 /\ ferror' THEN "readend" ELSE "read"
    /\ UNCHANGED <<World, cap, heap, exit, session, result>>

(* fread fills the buffer unless the file ends or a read fails.            *)
Fread ==
    /\ pc = "fread"
    /\ LET content == files[run.in]
           full == Min({cap - Len(buf), Len(content) - offset})
       IN \E n \in 0..full :
              /\ \/ n = full /\ UNCHANGED <<ferror, faulty>>
                 \/ Fault /\ ferror' = TRUE
              /\ buf' = buf \o SubSeq(content, offset + 1, offset + n)
              /\ offset' = offset + n
              /\ pc' = IF n = 0 THEN "readend" ELSE "read"
    /\ UNCHANGED <<World, cap, heap, exit, session, result>>

ReadEnd ==
    /\ pc = "readend"
    /\ \/ ferror /\ Return(1, {"input", "file"} \cup OfCaller)
       \/ /\ ~ferror
          /\ pc' = IF run.cmd = "encrypt" THEN "init" ELSE "load"
          /\ Release({"file"}) /\ UNCHANGED exit
    /\ UNCHANGED <<World, Reading, faulty, session, result>>

-----------------------------------------------------------------------------
(* The calls into libitb3.  fail_status fetches the diagnostic: at once,   *)
(* or late, when the pipeline was released before.                         *)

NewSession == [text |-> << >>, surface |-> "none"]

(* Mutant: the output file is created before the cipher runs. *)
InitPipeline_CreatesOutput ==
    /\ pc = "init"
    /\ files' = [files EXCEPT ![run.out] = << >>]
    /\ sessions' = Append(sessions, NewSession)
    /\ session' = Len(sessions')
    /\ pc' = "cipher" /\ Acquire("pipe")
    /\ UNCHANGED <<printed, run, before, Reading, result, exit, faulty>>

InitPipeline ==
    /\ pc = "init"
    /\ \/ /\ sessions' = Append(sessions, NewSession)
          /\ session' = Len(sessions')
          /\ pc' = "cipher" /\ Acquire("pipe") /\ UNCHANGED <<exit, faulty>>
       \/ /\ run.profile \notin Served /\ Return(1, {"input"})
          /\ UNCHANGED <<sessions, session, faulty>>
       \/ /\ Fault /\ Return(1, {"input"})
          /\ UNCHANGED <<sessions, session>>
    /\ UNCHANGED <<files, printed, run, before, Reading, result>>

(* Mutant: the blob is kept when load fails. *)
Load_KeepsBlob ==
    /\ pc = "load"
    /\ \/ \E k \in DOMAIN sessions :
              /\ HexParse(run.hex) = Blobs[k]
              /\ session' = k /\ pc' = "cipher"
              /\ heap' = [heap EXCEPT !["blob"] = @ - 1, !["pipe"] = @ + 1]
              /\ UNCHANGED <<exit, faulty>>
       \/ /\ \A k \in DOMAIN sessions : HexParse(run.hex) # Blobs[k]
          /\ Return(1, {"input"}) /\ UNCHANGED <<session, faulty>>
       \/ Fault /\ Return(1, {"input"}) /\ UNCHANGED session
    /\ UNCHANGED <<World, Reading, result>>

Load ==
    /\ pc = "load"
    /\ \/ \E k \in DOMAIN sessions :
              /\ HexParse(run.hex) = Blobs[k]
              /\ session' = k /\ pc' = "cipher"
              /\ heap' = [heap EXCEPT !["blob"] = @ - 1, !["pipe"] = @ + 1]
              /\ UNCHANGED <<exit, faulty>>
       \/ /\ \A k \in DOMAIN sessions : HexParse(run.hex) # Blobs[k]
          /\ Return(1, {"blob", "input"}) /\ UNCHANGED <<session, faulty>>
       \/ Fault /\ Return(1, {"blob", "input"}) /\ UNCHANGED session
    /\ UNCHANGED <<World, Reading, result>>

(* The pair of calls is chosen by the name the command line gives.         *)
Surface(profile) == IF profile \in Streaming THEN "stream" ELSE "message"

Wire(k) == [i \in 1..Len(sessions[k].text) + 1 |-> <<k, i>>]
Opens == buf = Wire(session) /\ sessions[session].surface = Surface(run.profile)

CipherFails ==
    /\ Return(1, {"input", "pipe"})
    /\ UNCHANGED <<sessions, result>>

Encrypt ==
    /\ pc = "cipher" /\ run.cmd = "encrypt"
    /\ \/ /\ run.profile \in Served
          /\ sessions' = [sessions EXCEPT ![session] =
                             [text |-> buf, surface |-> Surface(run.profile)]]
          /\ result' = [i \in 1..Len(buf) + 1 |-> <<session, i>>]
          /\ Acquire("output") /\ pc' = "mkdir" /\ UNCHANGED <<exit, faulty>>
       \/ run.profile \notin Served /\ CipherFails /\ UNCHANGED faulty
       \/ Fault /\ CipherFails
    /\ UNCHANGED <<files, printed, run, before, Reading, session>>

Decrypt ==
    /\ pc = "cipher" /\ run.cmd = "decrypt"
    /\ \/ /\ Opens
          /\ result' = sessions[session].text
          /\ Acquire("output") /\ pc' = "mkdir" /\ UNCHANGED <<exit, faulty, sessions>>
       \/ ~Opens /\ CipherFails /\ UNCHANGED faulty
       \/ Fault /\ CipherFails
    /\ UNCHANGED <<files, printed, run, before, Reading, session>>

-----------------------------------------------------------------------------
(* write_file. *)

WriteFails == Fault /\ Return(1, {"input", "output", "pipe"})

MakeParents ==
    /\ pc = "mkdir"
    /\ \/ pc' = "create" /\ UNCHANGED <<heap, exit, faulty>>
       \/ WriteFails
    /\ UNCHANGED <<World, Reading, session, result>>

Create ==
    /\ pc = "create"
    /\ \/ /\ files' = [files EXCEPT ![run.out] = << >>]
          /\ pc' = "write" /\ Acquire("file") /\ UNCHANGED <<exit, faulty>>
       \/ WriteFails /\ UNCHANGED files
    /\ UNCHANGED <<sessions, printed, run, before, Reading, session, result>>

(* fwrite and fclose; some prefix reaches the disk when either fails.      *)
WriteDone == pc' = IF run.cmd = "encrypt" THEN "save" ELSE "done"

(* Mutant: the result of fclose is not looked at. *)
Write_IgnoresClose ==
    /\ pc = "write"
    /\ \/ /\ files' = [files EXCEPT ![run.out] = result]
          /\ WriteDone /\ Release({"file"}) /\ UNCHANGED <<exit, faulty>>
       \/ /\ \E n \in 0..Len(result) : files' = [files EXCEPT ![run.out] = SubSeq(result, 1, n)]
          /\ Fault /\ WriteDone /\ Release({"file"}) /\ UNCHANGED exit
    /\ UNCHANGED <<sessions, printed, run, before, Reading, session, result>>

Write ==
    /\ pc = "write"
    /\ \/ /\ files' = [files EXCEPT ![run.out] = result]
          /\ WriteDone /\ Release({"file"}) /\ UNCHANGED <<exit, faulty>>
       \/ /\ \E n \in 0..Len(result) : files' = [files EXCEPT ![run.out] = SubSeq(result, 1, n)]
          /\ Fault /\ Return(1, {"file", "input", "output", "pipe"})
    /\ UNCHANGED <<sessions, printed, run, before, Reading, session, result>>

-----------------------------------------------------------------------------

(* The bytes of the blob go to stderr one by one.  The results of fprintf  *)
(* are not looked at: any of the bytes may be missing from what arrives.   *)
Kept(blob, S) == [i \in 1..Cardinality(S) |-> blob[SetToSortSeq(S, <)[i]]]

PrintBlob ==
    LET blob == Blobs[session]
    IN \/ printed' = printed \cup {PrintHex(blob)} /\ UNCHANGED faulty
       \/ /\ Fault
          /\ \E S \in SUBSET DOMAIN blob \ {DOMAIN blob} :
                 printed' = printed \cup {PrintHex(Kept(blob, S))}

(* The blob is saved, printed and released in one step: nothing else of    *)
(* the process happens in between.                                         *)
Save ==
    /\ pc = "save"
    /\ \/ PrintBlob /\ pc' = "done" /\ UNCHANGED <<heap, exit>>
       \/ /\ Fault /\ Return(1, {"input", "output", "pipe"})
          /\ UNCHANGED printed
    /\ UNCHANGED <<files, sessions, run, before, Reading, session, result>>

Finish ==
    /\ pc = "done"
    /\ Return(0, {"input", "output", "pipe"})
    /\ UNCHANGED <<World, Reading, faulty, session, result>>

Step ==
    \/ Parse
    \/ Open \/ AllocBuffer \/ Grow \/ Fits \/ Fread \/ ReadEnd
    \/ InitPipeline \/ Load \/ Encrypt \/ Decrypt
    \/ MakeParents \/ Create \/ Write \/ Save \/ Finish

Next == Start \/ Step

Spec == Init /\ [][Next]_vars
FairSpec == Spec /\ WF_vars(Step) \* the process is scheduled and its calls return

-----------------------------------------------------------------------------
(* Properties. *)

Over == pc = "idle" /\ run.number > 0
Succeeded(cmd) == Over /\ run.cmd = cmd /\ exit = 0

(* Whatever fails, a run returns with its two buffers, the blob, the       *)
(* pipeline and the file all released, none of them twice.                 *)
NothingKept ==
    /\ heap \in [Resources -> {0, 1}]
    /\ pc = "idle" => heap = NothingHeld

(* An encrypt that exits 0 has put the wire of the whole input file, as it *)
(* was when the run started, into the output file, under a session whose   *)
(* blob it has printed whole unless the printing failed: a short read, a   *)
(* late close error or a failed save cannot pass for a success.            *)
EncryptedMeansRecoverable ==
    Succeeded("encrypt") =>
        \E k \in DOMAIN sessions :
            /\ files[run.out] = Wire(k)
            /\ sessions[k] = [text |-> before[run.in], surface |-> Surface(run.profile)]
            /\ ~faulty => PrintHex(Blobs[k]) \in printed

(* The head of eitb.c says that "`encrypt` prints the session blob to      *)
(* stderr as hex" and that it is to be fed back to `decrypt`: an encrypt   *)
(* that exits 0 has printed it.  Violated: cmd_encrypt does not look at    *)
(* what its fprintf calls return.                                          *)
BlobPrinted == Succeeded("encrypt") => PrintHex(Blobs[session]) \in printed

(* A decrypt that exits 0 has restored the whole text that was encrypted   *)
(* under the session of the blob on its command line, through the pair of  *)
(* calls its profile names.                                                *)
DecryptedMeansRestored ==
    Succeeded("decrypt") =>
        \E k \in DOMAIN sessions :
            /\ HexParse(run.hex) = Blobs[k]
            /\ before[run.in] = Wire(k)
            /\ sessions[k] = [text |-> files[run.out], surface |-> Surface(run.profile)]

(* A decrypt with the hex of a session's blob, its wire and a name of the  *)
(* kind it was encrypted under, exits 1 only when something failed or the  *)
(* file is too large: the order of bytes and nibbles in what is printed    *)
(* and in what is parsed, and the calls the two commands choose, agree.    *)
Recovers ==
    Over /\ run.cmd = "decrypt" /\ exit = 1 /\ ~faulty =>
        \A k \in DOMAIN sessions :
            ~ /\ run.hex \in {PrintHex(Blobs[k]), Upper(PrintHex(Blobs[k]))}
              /\ before[run.in] = Wire(k)
              /\ sessions[k].surface = IF run.profile \in Streaming THEN "stream" ELSE "message"
              /\ 2 * Len(Wire(k)) <= SizeMax

(* Up to the moment the cipher call has succeeded no file has changed, and *)
(* no file but the output ever does.                                       *)
FilesUntouched ==
    \A p \in Paths :
        files[p] # before[p] => p = run.out /\ result # Absent

(* Every run of the tool ends: read_file leaves its loop and every error  *)
(* path returns.                                                           *)
Finishes == (pc # "idle") ~> (pc = "idle")
===============================================================================
