------------------------- MODULE PipelineCallsProofs -------------------------
(***************************************************************************)
(* Proofs about the retry-once calls of the binding, for any number of     *)
(* threads and sessions, any first capacity and any failures of the        *)
(* allocator: what is handed out is whole and current, nothing leaks, and  *)
(* no session is left without an owner.                                    *)
(***************************************************************************)
EXTENDS PipelineCalls, TLAPS

Buffered == {"init", "save", "rekey", "cipher", "json"}
BufferPc == {"alloc", "first", "retry", "second", "finish", "tail"}
Entries  == {"none", "init", "load", "save", "rekey", "cipher", "json", "register", "free"}

CallType ==
    [pc : {"idle", "enter", "load", "wrap", "free", "register", "returned"} \cup BufferPc,
     op : Entries, h : Handles \cup {0}, outs : {"both", "one", "none"}, buf : Int, n : Nat,
     rc : {"ok", "bad_input", "internal", "too_small", "error"}, wrote : Nat, from : Nat,
     entry : Nat, held : Int, out : {"untouched", "null", "pipe", "buffer"}]

CallsTypeOK ==
    /\ registry \in Nat
    /\ sessions \subseteq Handles /\ pipes \subseteq Handles
    /\ masters \in [Handles -> Nat] /\ size \in [Handles -> Nat]
    /\ call \in [Callers -> CallType]

(* Which entry can be where, and whether it holds a session.               *)
Shape(x) ==
    /\ x.pc = "idle" => x = Quiet
    /\ x.pc = "enter" => x.out = "untouched"
    /\ x.pc \in BufferPc \cup {"load", "wrap", "free", "register"} => x.out = "null"
    /\ x.pc \in BufferPc => x.op \in Buffered
    /\ x.pc \in {"load", "wrap"} => x.op = "load"
    /\ x.pc \in {"free", "register"} => x.op = x.pc
    /\ x.op \in OnHandle => x.h # 0
    /\ (x.op = "init" /\ x.pc \in {"enter", "alloc", "first", "second"}) => x.h = 0
    /\ (x.op = "init" /\ x.pc \in {"retry", "finish", "tail"}) => (x.h # 0 <=> x.rc = "ok")
    /\ (x.op = "load" /\ x.pc \in {"enter", "load"}) => x.h = 0
    /\ x.pc = "wrap" => x.h # 0

(* The blocks a call holds at each of its places: the itb_pipeline of an   *)
(* init, and the buffer from its allocation to the end.                    *)
Base(x) == IF x.op = "init" THEN 1 ELSE 0
Blocks(x) ==
    /\ x.pc \in {"idle", "enter", "load", "wrap", "free", "register"} => x.held = 0
    /\ x.pc = "alloc" => x.held = Base(x)
    /\ x.pc \in {"first", "retry", "second", "finish"} => x.held = Base(x) + 1
    /\ x.pc = "tail" => x.held = Base(x) + (IF x.rc = "ok" THEN 1 ELSE 0)
    /\ x.pc = "returned" => x.held = (IF x.out \in {"buffer", "pipe"} THEN 1 ELSE 0)

(* What the answer of an attempt says about the buffer and the records.    *)
Answer(x, reg) ==
    /\ (x.op = "json" /\ x.pc # "idle") => x.entry <= reg
    /\ x.rc = "ok" /\ (x.pc \in {"retry", "finish", "tail"} \/ (x.pc = "returned" /\ x.out = "buffer"))
           => /\ x.n + Extra(x.op) <= x.buf /\ x.wrote = x.n
              /\ x.op = "json" => x.entry <= x.n /\ x.n <= reg
    /\ (x.pc = "retry" /\ x.rc = "too_small") => x.n + Extra(x.op) > x.buf
    /\ x.pc = "second" => x.buf = x.n + Extra(x.op)
    /\ (x.op = "json" /\ (x.pc = "second" \/ (x.pc = "retry" /\ x.rc = "too_small"))) =>
           x.entry <= x.n /\ x.n <= reg
    /\ (x.pc \in {"finish", "tail", "returned"} /\ x.rc = "too_small") =>
           (x.op = "json" => reg > x.entry)
    /\ (x.pc = "returned" /\ x.out = "buffer") => x.rc = "ok"

(* What the answer says about the blob of the session: no older than the   *)
(* call, and a size too small for it comes from a blob replaced since.     *)
Keyed(x) ==
    x.op \in {"save", "rekey"} =>
        /\ x.entry <= masters[x.h]
        /\ (x.pc \in {"retry", "finish", "tail", "returned"} /\ x.rc = "ok") =>
               /\ x.entry <= x.from /\ x.from <= masters[x.h]
               /\ x.op = "rekey" => x.entry < x.from
        /\ (x.op = "save" /\ (x.pc = "second" \/ (x.pc = "retry" /\ x.rc = "too_small"))) =>
               x.n = size[x.h] \/ x.entry < masters[x.h]
        /\ (x.op = "save" /\ x.pc \in {"finish", "tail", "returned"} /\ x.rc = "too_small") =>
               x.entry < masters[x.h]

(* A call on a handle is on one the application holds, and a release is    *)
(* alone on it.                                                            *)
Engaged(c) == call[c].pc \notin {"idle", "returned"} /\ call[c].op \in OnHandle
UseInv ==
    /\ \A c \in Callers : Engaged(c) => call[c].h \in pipes
    /\ \A c, d \in Callers :
           (c # d /\ Engaged(c) /\ Engaged(d) /\ call[c].h = call[d].h) => call[c].op # "free"

(* The sessions open in libitb3 are those of the application's handles and *)
(* of the inits and loads under way, each with one owner.                  *)
InFlight(c) ==
    call[c].op \in {"init", "load"} /\ call[c].pc \notin {"idle", "returned"} /\ call[c].h # 0
FlightInv ==
    /\ \A h \in Handles : h \in sessions <=> (h \in pipes \/ \E c \in Callers : InFlight(c) /\ call[c].h = h)
    /\ \A c \in Callers : InFlight(c) => call[c].h \notin pipes
    /\ \A c, d \in Callers : (c # d /\ InFlight(c) /\ InFlight(d)) => call[c].h # call[d].h

Local(c) == Shape(call[c]) /\ Blocks(call[c]) /\ Answer(call[c], registry) /\ Keyed(call[c])
CallsInv == CallsTypeOK /\ (\A c \in Callers : Local(c)) /\ UseInv /\ FlightInv

-----------------------------------------------------------------------------
(* A call's record with some of its fields replaced.                       *)
With(x, fields) ==
    [pc |-> IF "pc" \in DOMAIN fields THEN fields["pc"] ELSE x.pc,
     op |-> IF "op" \in DOMAIN fields THEN fields["op"] ELSE x.op,
     h |-> IF "h" \in DOMAIN fields THEN fields["h"] ELSE x.h,
     outs |-> IF "outs" \in DOMAIN fields THEN fields["outs"] ELSE x.outs,
     buf |-> IF "buf" \in DOMAIN fields THEN fields["buf"] ELSE x.buf,
     n |-> IF "n" \in DOMAIN fields THEN fields["n"] ELSE x.n,
     rc |-> IF "rc" \in DOMAIN fields THEN fields["rc"] ELSE x.rc,
     wrote |-> IF "wrote" \in DOMAIN fields THEN fields["wrote"] ELSE x.wrote,
     from |-> IF "from" \in DOMAIN fields THEN fields["from"] ELSE x.from,
     entry |-> IF "entry" \in DOMAIN fields THEN fields["entry"] ELSE x.entry,
     held |-> IF "held" \in DOMAIN fields THEN fields["held"] ELSE x.held,
     out |-> IF "out" \in DOMAIN fields THEN fields["out"] ELSE x.out]

(* Set replaces those fields of one call's record and leaves the others.   *)
LEMMA SetRecord ==
    ASSUME CallsTypeOK, NEW c \in Callers, NEW fields, Set(c, fields)
    PROVE  call' = [call EXCEPT ![c] = With(call[c], fields)]
<1>1. call[c] \in CallType
    BY DEF CallsTypeOK
<1>2. DOMAIN Quiet = {"pc", "op", "h", "outs", "buf", "n", "rc", "wrote", "from", "entry", "held", "out"}
    BY DEF Quiet
<1>3. [f \in DOMAIN Quiet |-> IF f \in DOMAIN fields THEN fields[f] ELSE call[c][f]]
          = With(call[c], fields)
    BY <1>1, <1>2 DEF With, CallType
<1>4. call' = [call EXCEPT ![c] =
                  [f \in DOMAIN Quiet |-> IF f \in DOMAIN fields THEN fields[f] ELSE call[c][f]]]
    BY DEF Set
<1> QED
    BY <1>3, <1>4

(* A step that leaves libitb3 alone and keeps its call on the same entry   *)
(* and session.                                                            *)
LEMMA LocalStep ==
    ASSUME CallsInv, NEW c \in Callers, NEW x \in CallType, call' = [call EXCEPT ![c] = x],
           x.op = call[c].op, x.h = call[c].h, call[c].pc # "idle", x.pc # "idle",
           Shape(x), Blocks(x), Answer(x, registry), Keyed(x),
           x.pc = "returned" => ~InFlight(c) /\ (call[c].op # "free"),
           call[c].pc # "returned",
           UNCHANGED <<libVars, pipes>>
    PROVE  CallsInv'
<1> USE DEF CallsInv, CallsTypeOK, libVars
<1>1. CallsTypeOK'
    OBVIOUS
<1>2. call'[c] = x /\ \A d \in Callers \ {c} : call'[d] = call[d]
    OBVIOUS
<1>3. \A d \in Callers : Local(d)'
    BY <1>2 DEF Local, Keyed
<1>4. UseInv'
    BY <1>2 DEF UseInv, Engaged
<1>5. FlightInv'
    <2>1. \A d \in Callers : call'[d].h = call[d].h /\ (InFlight(d)' <=> InFlight(d))
        BY <1>2 DEF InFlight
    <2> QED
        BY <2>1 DEF FlightInv
<1> QED
    BY <1>1, <1>3, <1>4, <1>5

(* The argument checks.                                                    *)
LEMMA RefuseStep ==
    ASSUME CallsInv, NEW c \in Callers, Refuse(c) \/ RefuseInput(c)
    PROVE  CallsInv'
<1>1. call[c] \in CallType /\ Local(c) /\ CallsTypeOK /\ call[c].pc = "enter"
    BY DEF CallsInv, CallsTypeOK, Refuse, RefuseInput
<1>2. PICK x : x \in {With(call[c], [pc |-> "returned", rc |-> "bad_input"]),
                      With(call[c], [pc |-> "returned", rc |-> "bad_input", out |-> "null"])}
               /\ call' = [call EXCEPT ![c] = x]
    BY <1>1, SetRecord DEF Refuse, RefuseInput
<1>3. x \in CallType /\ x.pc = "returned" /\ x.rc = "bad_input" /\ x.held = call[c].held
      /\ x.op = call[c].op /\ x.h = call[c].h /\ x.entry = call[c].entry
      /\ x.out \in {call[c].out, "null"}
    BY <1>1, <1>2 DEF With, CallType
<1>4. Blocks(x) /\ Shape(x) /\ Answer(x, registry) /\ Keyed(x)
    BY <1>1, <1>3 DEF Local, Blocks, Shape, Answer, Keyed, BufferPc
<1> QED
    BY <1>1, <1>2, <1>3, <1>4, LocalStep DEF Refuse, RefuseInput, Local, Shape, InFlight,
       NeedsOuts

(* The out-parameters are cleared, and an init has its itb_pipeline or     *)
(* gives up.                                                               *)
LEMMA AcceptStep ==
    ASSUME CallsInv, NEW c \in Callers, Accept(c)
    PROVE  CallsInv'
<1>1. call[c] \in CallType /\ Local(c) /\ CallsTypeOK /\ call[c].pc = "enter"
      /\ UNCHANGED <<libVars, pipes>>
    BY DEF CallsInv, CallsTypeOK, Accept
<1>2. CASE /\ call[c].op \in Buffered
           /\ Set(c, [pc |-> "alloc", out |-> "null",
                      held |-> IF call[c].op = "init" THEN 1 ELSE 0])
    <2> DEFINE x == With(call[c], [pc |-> "alloc", out |-> "null",
                                   held |-> IF call[c].op = "init" THEN 1 ELSE 0])
    <2>1. call' = [call EXCEPT ![c] = x]
        BY <1>1, <1>2, SetRecord
    <2>2. x \in CallType /\ x.pc = "alloc" /\ x.out = "null" /\ x.held = Base(x)
          /\ x.op = call[c].op /\ x.h = call[c].h /\ x.entry = call[c].entry /\ x.rc = call[c].rc
        BY <1>1 DEF With, CallType, BufferPc, Base
    <2> HIDE DEF x
    <2>3. Blocks(x) /\ Shape(x) /\ Answer(x, registry) /\ Keyed(x)
        BY <1>1, <1>2, <2>2 DEF Local, Blocks, Shape, Answer, Keyed, BufferPc
    <2> QED
        BY <1>1, <2>1, <2>2, <2>3, LocalStep
<1>3. CASE call[c].op = "init" /\ Set(c, [pc |-> "returned", out |-> "null", rc |-> "internal"])
    <2> DEFINE x == With(call[c], [pc |-> "returned", out |-> "null", rc |-> "internal"])
    <2>1. call' = [call EXCEPT ![c] = x]
        BY <1>1, <1>3, SetRecord
    <2>2. x \in CallType /\ x.pc = "returned" /\ x.out = "null" /\ x.held = call[c].held
          /\ x.op = call[c].op /\ x.h = call[c].h /\ x.entry = call[c].entry /\ x.rc = "internal"
        BY <1>1 DEF With, CallType
    <2> HIDE DEF x
    <2>3. Blocks(x) /\ Shape(x) /\ Answer(x, registry) /\ Keyed(x)
        BY <1>1, <1>3, <2>2 DEF Local, Blocks, Shape, Answer, Keyed, BufferPc
    <2> QED
        BY <1>1, <1>3, <2>1, <2>2, <2>3, LocalStep DEF Local, Shape, InFlight
<1>4. CASE /\ call[c].op \in {"load", "register", "free"}
           /\ Set(c, [pc |-> call[c].op, out |-> "null"])
    <2> DEFINE x == With(call[c], [pc |-> call[c].op, out |-> "null"])
    <2>1. call' = [call EXCEPT ![c] = x]
        BY <1>1, <1>4, SetRecord
    <2>2. x \in CallType /\ x.pc = call[c].op /\ x.out = "null" /\ x.held = call[c].held
          /\ x.op = call[c].op /\ x.h = call[c].h /\ x.entry = call[c].entry /\ x.rc = call[c].rc
        BY <1>1, <1>4 DEF With, CallType
    <2> HIDE DEF x
    <2>3. Blocks(x) /\ Shape(x) /\ Answer(x, registry) /\ Keyed(x)
        BY <1>1, <1>4, <2>2 DEF Local, Blocks, Shape, Answer, Keyed, BufferPc
    <2> QED
        BY <1>1, <1>4, <2>1, <2>2, <2>3, LocalStep
<1> QED
    BY <1>2, <1>3, <1>4 DEF Accept, Buffered

(* The first block of a call.                                              *)
LEMMA AllocStep ==
    ASSUME CallsInv, NEW c \in Callers, Alloc(c)
    PROVE  CallsInv'
<1>1. call[c] \in CallType /\ Local(c) /\ CallsTypeOK /\ call[c].pc = "alloc"
      /\ UNCHANGED <<libVars, pipes>>
    BY DEF CallsInv, CallsTypeOK, Alloc
<1>2. CASE Set(c, [pc |-> "first", buf |-> Cap + Extra(call[c].op), held |-> call[c].held + 1])
    <2> DEFINE x == With(call[c], [pc |-> "first", buf |-> Cap + Extra(call[c].op),
                                   held |-> call[c].held + 1])
    <2>1. call' = [call EXCEPT ![c] = x]
        BY <1>1, <1>2, SetRecord
    <2>2. x \in CallType /\ x.pc = "first" /\ x.held = call[c].held + 1 /\ x.out = call[c].out
          /\ x.op = call[c].op /\ x.h = call[c].h /\ x.entry = call[c].entry /\ x.rc = call[c].rc
        <3>1. Cap + Extra(call[c].op) \in Int /\ call[c].held + 1 \in Int
            BY <1>1, CallAssumption DEF CallType, Extra
        <3> QED
            BY <1>1, <3>1 DEF With, CallType, BufferPc
    <2> HIDE DEF x
    <2>3. Blocks(x) /\ Shape(x) /\ Answer(x, registry) /\ Keyed(x)
        BY <1>1, <2>2 DEF Local, Blocks, Shape, Answer, Keyed, BufferPc, Base, CallType
    <2> QED
        BY <1>1, <2>1, <2>2, <2>3, LocalStep
<1>3. CASE Set(c, [pc |-> "tail", rc |-> "internal"])
    <2> DEFINE x == With(call[c], [pc |-> "tail", rc |-> "internal"])
    <2>1. call' = [call EXCEPT ![c] = x]
        BY <1>1, <1>3, SetRecord
    <2>2. x \in CallType /\ x.pc = "tail" /\ x.held = call[c].held /\ x.out = call[c].out
          /\ x.op = call[c].op /\ x.h = call[c].h /\ x.entry = call[c].entry /\ x.rc = "internal"
        BY <1>1 DEF With, CallType, BufferPc
    <2> HIDE DEF x
    <2>3. Blocks(x) /\ Shape(x) /\ Answer(x, registry) /\ Keyed(x)
        BY <1>1, <2>2 DEF Local, Blocks, Shape, Answer, Keyed, BufferPc, Base, CallType
    <2> QED
        BY <1>1, <2>1, <2>2, <2>3, LocalStep
<1> QED
    BY <1>2, <1>3 DEF Alloc

(* After the first attempt: a block of the size asked for, or the end.     *)
LEMMA RetryStep ==
    ASSUME CallsInv, NEW c \in Callers, Grow(c) \/ NoRetry(c)
    PROVE  CallsInv'
<1>1. call[c] \in CallType /\ Local(c) /\ CallsTypeOK /\ call[c].pc = "retry"
      /\ UNCHANGED <<libVars, pipes>>
    BY DEF CallsInv, CallsTypeOK, Grow, NoRetry
<1>2. CASE TooSmall(c) /\ Set(c, [pc |-> "second", buf |-> call[c].n + Extra(call[c].op)])
    <2> DEFINE x == With(call[c], [pc |-> "second", buf |-> call[c].n + Extra(call[c].op)])
    <2>1. call' = [call EXCEPT ![c] = x]
        BY <1>1, <1>2, SetRecord
    <2>2. x \in CallType /\ x.pc = "second" /\ x.held = call[c].held /\ x.out = call[c].out
          /\ x.op = call[c].op /\ x.h = call[c].h /\ x.entry = call[c].entry /\ x.rc = call[c].rc
          /\ x.n = call[c].n /\ x.buf = call[c].n + Extra(call[c].op)
        <3>1. call[c].n + Extra(call[c].op) \in Int
            BY <1>1 DEF CallType, Extra
        <3> QED
            BY <1>1, <3>1 DEF With, CallType, BufferPc
    <2> HIDE DEF x
    <2>3. Blocks(x) /\ Shape(x) /\ Answer(x, registry) /\ Keyed(x)
        BY <1>1, <1>2, <2>2 DEF TooSmall, Local, Blocks, Shape, Answer, Keyed, BufferPc, Base, CallType
    <2> QED
        BY <1>1, <2>1, <2>2, <2>3, LocalStep
<1>3. CASE TooSmall(c) /\ Set(c, [pc |-> "tail", rc |-> "internal", buf |-> NoBuf,
                                  held |-> call[c].held - 1])
    <2> DEFINE x == With(call[c], [pc |-> "tail", rc |-> "internal", buf |-> NoBuf,
                                   held |-> call[c].held - 1])
    <2>1. call' = [call EXCEPT ![c] = x]
        BY <1>1, <1>3, SetRecord
    <2>2. x \in CallType /\ x.pc = "tail" /\ x.held = call[c].held - 1 /\ x.out = call[c].out
          /\ x.op = call[c].op /\ x.h = call[c].h /\ x.entry = call[c].entry /\ x.rc = "internal"
        BY <1>1 DEF With, CallType, BufferPc, NoBuf
    <2> HIDE DEF x
    <2>3. Blocks(x) /\ Shape(x) /\ Answer(x, registry) /\ Keyed(x)
        BY <1>1, <1>3, <2>2 DEF TooSmall, Local, Blocks, Shape, Answer, Keyed, BufferPc, Base, CallType
    <2> QED
        BY <1>1, <2>1, <2>2, <2>3, LocalStep
<1>4. CASE ~TooSmall(c) /\ Set(c, [pc |-> "finish"])
    <2> DEFINE x == With(call[c], [pc |-> "finish"])
    <2>1. call' = [call EXCEPT ![c] = x]
        BY <1>1, <1>4, SetRecord
    <2>2. x \in CallType /\ x.pc = "finish" /\ x.held = call[c].held /\ x.out = call[c].out
          /\ x.op = call[c].op /\ x.h = call[c].h /\ x.entry = call[c].entry /\ x.rc = call[c].rc
          /\ x.n = call[c].n /\ x.buf = call[c].buf /\ x.wrote = call[c].wrote /\ x.from = call[c].from
        BY <1>1 DEF With, CallType, BufferPc
    <2> HIDE DEF x
    <2>3. x.rc # "too_small"
        BY <1>1, <1>4, <2>2 DEF TooSmall, Local, Answer
    <2>4. Blocks(x) /\ Shape(x) /\ Answer(x, registry) /\ Keyed(x)
        BY <1>1, <2>2, <2>3 DEF Local, Blocks, Shape, Answer, Keyed, BufferPc, Base, CallType
    <2> QED
        BY <1>1, <2>1, <2>2, <2>4, LocalStep
<1> QED
    BY <1>2, <1>3, <1>4 DEF Grow, NoRetry

(* The buffer is released or trimmed.                                      *)
LEMMA FinishStep ==
    ASSUME CallsInv, NEW c \in Callers, Finish(c)
    PROVE  CallsInv'
<1> DEFINE exact == call[c].n + Extra(call[c].op)
<1>1. call[c] \in CallType /\ Local(c) /\ CallsTypeOK /\ call[c].pc = "finish"
      /\ UNCHANGED <<libVars, pipes>> /\ exact \in Nat
    BY DEF CallsInv, CallsTypeOK, Finish, CallType, Extra
<1>2. CASE call[c].rc # "ok"
    <2> DEFINE x == With(call[c], [pc |-> "tail", buf |-> NoBuf, held |-> call[c].held - 1])
    <2>1. call' = [call EXCEPT ![c] = x]
        BY <1>1, <1>2, SetRecord DEF Finish
    <2>2. x \in CallType /\ x.pc = "tail" /\ x.held = call[c].held - 1 /\ x.out = call[c].out
          /\ x.op = call[c].op /\ x.h = call[c].h /\ x.entry = call[c].entry /\ x.rc = call[c].rc
        BY <1>1 DEF With, CallType, BufferPc, NoBuf
    <2> HIDE DEF x
    <2>3. Blocks(x) /\ Shape(x) /\ Answer(x, registry) /\ Keyed(x)
        BY <1>1, <1>2, <2>2 DEF Local, Blocks, Shape, Answer, Keyed, BufferPc, Base, CallType
    <2> QED
        BY <1>1, <2>1, <2>2, <2>3, LocalStep
<1>3. CASE call[c].rc = "ok"
    <2>1. PICK x : /\ x \in {With(call[c], [pc |-> "tail", buf |-> IF exact > 0 THEN exact ELSE 1]),
                              With(call[c], [pc |-> "tail"])}
                   /\ call' = [call EXCEPT ![c] = x]
        BY <1>1, <1>3, SetRecord DEF Finish
    <2>2. x \in CallType /\ x.pc = "tail" /\ x.held = call[c].held /\ x.out = call[c].out
          /\ x.op = call[c].op /\ x.h = call[c].h /\ x.entry = call[c].entry /\ x.rc = call[c].rc
          /\ x.n = call[c].n /\ x.wrote = call[c].wrote /\ x.from = call[c].from
          /\ x.buf \in {IF exact > 0 THEN exact ELSE 1, call[c].buf}
        BY <1>1, <2>1 DEF With, CallType, BufferPc
    <2>3. exact <= x.buf
        BY <1>1, <1>3, <2>2 DEF Local, Answer
    <2>4. Blocks(x) /\ Shape(x) /\ Answer(x, registry) /\ Keyed(x)
        BY <1>1, <1>3, <2>2, <2>3 DEF Local, Blocks, Shape, Answer, Keyed, BufferPc, Base, CallType
    <2> QED
        BY <1>1, <2>1, <2>2, <2>4, LocalStep
<1> QED
    BY <1>2, <1>3

-----------------------------------------------------------------------------
(* The versions of the blobs and their sizes after a step: a handle whose  *)
(* blob has another size has been rotated.                                 *)
Moved(h) == (masters'[h] = masters[h] /\ size'[h] = size[h]) \/ masters'[h] > masters[h]

(* What one call writes leaves the facts about the others: the registry    *)
(* only grows, and a session in use keeps its blob or gets a later one.    *)
LEMMA OthersKept ==
    ASSUME CallsInv, NEW c \in Callers, NEW d \in Callers, call'[d] = call[d],
           registry' \in Nat, registry' >= registry, masters' \in [Handles -> Nat],
           \A h \in Handles : masters'[h] >= masters[h],
           Engaged(d) => Moved(call[d].h)
    PROVE  Local(d)'
<1>1. call[d] \in CallType /\ Local(d) /\ registry \in Nat /\ masters \in [Handles -> Nat]
    BY DEF CallsInv, CallsTypeOK
<1>2. Answer(call[d], registry')
    <2> DEFINE y == call[d]
    <2>1. y.n \in Nat /\ y.entry \in Nat /\ Answer(y, registry)
        BY <1>1 DEF CallType, Local
    <2> HIDE DEF y
    <2>2. Answer(y, registry')
        BY <1>1, <2>1 DEF Answer
    <2> QED
        BY <2>2 DEF y
<1>3. Keyed(call[d])'
    <2> SUFFICES ASSUME call[d].op \in {"save", "rekey"} PROVE Keyed(call[d])'
        BY DEF Keyed
    <2> DEFINE y == call[d]
               m == masters[y.h]
               mm == masters'[y.h]
    <2>1. y.h \in Handles /\ y.n \in Nat /\ y.entry \in Nat /\ y.from \in Nat /\ Keyed(y)
        BY <1>1 DEF CallType, Local, Shape, OnHandle
    <2>2. m \in Nat /\ mm \in Nat /\ mm >= m
        BY <1>1, <2>1
    <2>3. y.pc \in {"second", "retry"} => Moved(y.h)
        BY DEF Engaged, OnHandle
    <2>4. y.entry <= mm /\ (y.entry < m => y.entry < mm) /\ (y.from <= m => y.from <= mm)
          /\ (mm > m => y.entry < mm)
        <3>1. y.entry <= m
            BY <2>1 DEF Keyed
        <3> HIDE DEF y, m, mm
        <3> QED
            BY <2>1, <2>2, <3>1
    <2>5. y.pc \in {"second", "retry"} => (mm = m /\ size'[y.h] = size[y.h]) \/ y.entry < mm
        BY <2>3, <2>4 DEF Moved
    <2> QED
        BY <1>1, <2>1, <2>4, <2>5 DEF Keyed
<1> QED
    BY <1>1, <1>2, <1>3 DEF Local, Shape, Blocks

(* An attempt that opens no session: its call stays on the entry and the   *)
(* session, and blobs are at most replaced by rotations.                   *)
LEMMA StayStep ==
    ASSUME CallsInv, NEW c \in Callers, NEW x \in CallType, call' = [call EXCEPT ![c] = x],
           x.op = call[c].op, x.h = call[c].h,
           call[c].pc \notin {"idle", "returned"}, x.pc \notin {"idle", "returned"},
           Shape(x), Blocks(x), Answer(x, registry), Keyed(x)',
           UNCHANGED <<registry, sessions, pipes>>,
           masters' \in [Handles -> Nat], size' \in [Handles -> Nat],
           \A h \in Handles : Moved(h)
    PROVE  CallsInv'
<1>1. CallsTypeOK'
    BY DEF CallsInv, CallsTypeOK
<1>2. call'[c] = x /\ \A d \in Callers \ {c} : call'[d] = call[d]
    BY DEF CallsInv, CallsTypeOK
<1>3. ASSUME NEW d \in Callers PROVE Local(d)'
    <2>1. CASE d = c
        BY <1>2, <2>1 DEF Local, Shape, Blocks, Answer
    <2>2. CASE d # c
        <3>1. call[d] \in CallType /\ registry \in Nat /\ Local(d) /\ masters \in [Handles -> Nat]
            BY DEF CallsInv, CallsTypeOK
        <3>2. Engaged(d) => call[d].h \in Handles
            BY <3>1 DEF Engaged, Local, Shape, CallType
        <3>3. \A h \in Handles : masters'[h] >= masters[h]
            BY <3>1 DEF Moved
        <3> QED
            BY <1>2, <2>2, <3>1, <3>2, <3>3, OthersKept
    <2> QED
        BY <2>1, <2>2
<1>4. UseInv'
    BY <1>2 DEF CallsInv, UseInv, Engaged
<1>5. FlightInv'
    <2>1. \A d \in Callers : call'[d].h = call[d].h /\ (InFlight(d)' <=> InFlight(d))
        BY <1>2 DEF InFlight
    <2> QED
        BY <2>1 DEF CallsInv, FlightInv
<1> QED
    BY <1>1, <1>3, <1>4, <1>5 DEF CallsInv

(* An init or a load opens a session nobody has.                           *)
LEMMA OpenStep ==
    ASSUME CallsInv, NEW c \in Callers, NEW x \in CallType, call' = [call EXCEPT ![c] = x],
           NEW h \in Handles \ (sessions \cup pipes), NEW s \in Nat,
           x.op = call[c].op, x.op \in {"init", "load"}, x.h = h, call[c].h = 0,
           call[c].pc \notin {"idle", "returned"}, x.pc \notin {"idle", "returned"},
           Shape(x), Blocks(x), Answer(x, registry),
           sessions' = sessions \cup {h},
           size' = [size EXCEPT ![h] = s], UNCHANGED <<registry, masters, pipes>>
    PROVE  CallsInv'
<1>1. CallsTypeOK'
    BY DEF CallsInv, CallsTypeOK
<1>2. call'[c] = x /\ \A d \in Callers \ {c} : call'[d] = call[d]
    BY DEF CallsInv, CallsTypeOK
<1>3. 0 \notin Handles
    BY CallAssumption
<1>4. ASSUME NEW d \in Callers PROVE Local(d)'
    <2>1. CASE d = c
        BY <1>2, <2>1 DEF Local, Shape, Blocks, Answer, Keyed
    <2>2. CASE d # c
        <3>1. call[d] \in CallType /\ registry \in Nat /\ masters \in [Handles -> Nat]
              /\ size \in [Handles -> Nat]
            BY DEF CallsInv, CallsTypeOK
        <3>2. Engaged(d) => call[d].h \in pipes
            BY DEF CallsInv, UseInv
        <3>3. Engaged(d) => call[d].h \in Handles /\ call[d].h # h
            BY <3>2 DEF CallsInv, CallsTypeOK
        <3>4. Engaged(d) => Moved(call[d].h)
            BY <3>1, <3>3 DEF Moved
        <3> QED
            BY <1>2, <2>2, <3>1, <3>4, OthersKept
    <2> QED
        BY <2>1, <2>2
<1>5. UseInv'
    BY <1>2 DEF CallsInv, UseInv, Engaged, OnHandle
<1>6. FlightInv'
    <2>1. \A d \in Callers \ {c} : call'[d].h = call[d].h /\ (InFlight(d)' <=> InFlight(d))
        BY <1>2 DEF InFlight
    <2>2. InFlight(c)' /\ call'[c].h = h /\ ~InFlight(c)
        BY <1>2, <1>3 DEF InFlight
    <2>3. \A d \in Callers : InFlight(d) => call[d].h # h
        <3>1. \A d \in Callers : InFlight(d) => call[d].h \in Handles
            BY DEF CallsInv, CallsTypeOK, InFlight, CallType
        <3> QED
            BY <3>1 DEF CallsInv, FlightInv
    <2>4. \A k \in Handles : k \in sessions' <=>
              (k \in pipes' \/ \E d \in Callers : InFlight(d)' /\ call'[d].h = k)
        BY <2>1, <2>2, <2>3 DEF CallsInv, FlightInv
    <2> QED
        BY <2>1, <2>2, <2>3, <2>4 DEF CallsInv, FlightInv
<1> QED
    BY <1>1, <1>4, <1>5, <1>6 DEF CallsInv

-----------------------------------------------------------------------------
(* The two attempts.  Where says which attempt it is and what follows it.  *)
Where(c, next) ==
    (call[c].pc = "first" /\ next = "retry") \/ (call[c].pc = "second" /\ next = "finish")

(* What every attempt starts from.                                         *)
LEMMA AttemptFacts ==
    ASSUME CallsInv, NEW c \in Callers, NEW next, Where(c, next)
    PROVE  /\ CallsTypeOK /\ call[c] \in CallType /\ Local(c)
           /\ call[c].op \in Buffered /\ call[c].out = "null" /\ call[c].held = Base(call[c]) + 1
           /\ call[c].pc \notin {"idle", "returned"} /\ next \in {"retry", "finish"}
           /\ call[c].op = "init" => call[c].h = 0
           /\ call[c].op \in {"save", "rekey"} => call[c].h \in Handles
<1>1. CallsTypeOK /\ call[c] \in CallType /\ Local(c) /\ call[c].pc \in {"first", "second"}
      /\ next \in {"retry", "finish"}
    BY DEF CallsInv, CallsTypeOK, Where
<1> QED
    BY <1>1 DEF Local, Shape, Blocks, BufferPc, OnHandle, CallType

(* libitb3 answers with some other status.                                 *)
LEMMA ErrorStep ==
    ASSUME CallsInv, NEW c \in Callers, NEW next, Where(c, next), AttemptError(c, next),
           UNCHANGED <<registry, pipes>>
    PROVE  CallsInv'
<1>1. PICK x : x = With(call[c], [pc |-> next, rc |-> "error",
                                  h |-> IF call[c].op = "init" THEN 0 ELSE call[c].h])
    OBVIOUS
<1>2. call' = [call EXCEPT ![c] = x]
    BY <1>1, AttemptFacts, SetRecord DEF AttemptError
<1>3. x \in CallType /\ x.pc = next /\ x.held = call[c].held /\ x.out = call[c].out
      /\ x.op = call[c].op /\ x.h = call[c].h /\ x.entry = call[c].entry /\ x.rc = "error"
    BY <1>1, AttemptFacts DEF With, CallType, BufferPc
<1>4. Blocks(x) /\ Shape(x) /\ Answer(x, registry) /\ Keyed(x)'
    BY AttemptFacts, <1>3 DEF Local, Blocks, Shape, Answer, Keyed, BufferPc, Base, CallType, AttemptError
<1>5. /\ masters' \in [Handles -> Nat] /\ size' \in [Handles -> Nat]
      /\ UNCHANGED <<registry, sessions, masters, size, pipes>>
      /\ \A h \in Handles : Moved(h)
    BY AttemptFacts DEF CallsTypeOK, AttemptError, Moved
<1> QED
    BY AttemptFacts, <1>2, <1>3, <1>4, <1>5, StayStep

(* A blob, a message or a record is read.                                  *)
LEMMA ReadStep ==
    ASSUME CallsInv, NEW c \in Callers, NEW next, Where(c, next), NEW s \in Needs(c),
           call[c].op \in {"save", "cipher", "json"}, AttemptRead(c, s, next),
           UNCHANGED <<registry, pipes>>
    PROVE  CallsInv'
<1>1. /\ masters' \in [Handles -> Nat] /\ size' \in [Handles -> Nat]
      /\ UNCHANGED <<registry, sessions, masters, size, pipes>>
      /\ \A h \in Handles : Moved(h)
    BY AttemptFacts DEF CallsTypeOK, AttemptRead, Moved
<1>2. s \in Nat /\ (call[c].op = "json" => s = registry) /\ (call[c].op = "save" => s = size[call[c].h])
      /\ registry \in Nat
    BY AttemptFacts, CallAssumption DEF Needs, CallsTypeOK, Sizes
<1>3. CASE Fits(c, s)
    <2> DEFINE v == IF call[c].op = "save" THEN masters[call[c].h] ELSE 0
    <2>1. PICK x : x = With(call[c], [pc |-> next, rc |-> "ok", n |-> s, wrote |-> s, from |-> v])
        OBVIOUS
    <2>2. call' = [call EXCEPT ![c] = x]
        BY <1>3, <2>1, AttemptFacts, SetRecord DEF AttemptRead
    <2>3. v \in Nat
        BY <1>2, AttemptFacts DEF CallsTypeOK
    <2>4. x \in CallType /\ x.pc = next /\ x.held = call[c].held /\ x.out = call[c].out
          /\ x.op = call[c].op /\ x.h = call[c].h /\ x.entry = call[c].entry /\ x.rc = "ok"
          /\ x.n = s /\ x.buf = call[c].buf /\ x.wrote = s /\ x.from = v
        BY <1>2, <2>1, <2>3, AttemptFacts DEF With, CallType, BufferPc
    <2>5. Blocks(x) /\ Shape(x) /\ Keyed(x)'
        BY AttemptFacts, <1>1, <2>3, <2>4 DEF Local, Blocks, Shape, Keyed, BufferPc, Base, CallType
    <2>6. Answer(x, registry)
        BY AttemptFacts, <1>2, <1>3, <2>4 DEF Fits, Local, Answer, CallType
    <2> QED
        BY AttemptFacts, <1>1, <2>2, <2>4, <2>5, <2>6, StayStep
<1>4. CASE ~Fits(c, s)
    <2>1. PICK x : x = With(call[c], [pc |-> next, rc |-> "too_small", n |-> s])
        OBVIOUS
    <2>2. call' = [call EXCEPT ![c] = x]
        BY <1>4, <2>1, AttemptFacts, SetRecord DEF AttemptRead
    <2>3. x \in CallType /\ x.pc = next /\ x.held = call[c].held /\ x.out = call[c].out
          /\ x.op = call[c].op /\ x.h = call[c].h /\ x.entry = call[c].entry /\ x.rc = "too_small"
          /\ x.n = s /\ x.buf = call[c].buf
        BY <1>2, <2>1, AttemptFacts DEF With, CallType, BufferPc
    <2>4. s + Extra(call[c].op) > call[c].buf
        BY AttemptFacts, <1>2, <1>4 DEF Fits, CallType, Extra
    <2>5. call[c].op = "save" /\ next = "finish" => call[c].entry < masters[call[c].h]
        <3>1. next = "finish" => call[c].buf = call[c].n + Extra(call[c].op) /\ call[c].pc = "second"
            BY AttemptFacts DEF Where, Local, Answer
        <3>2. call[c].op = "save" /\ next = "finish" => s # call[c].n
            BY AttemptFacts, <1>2, <2>4, <3>1 DEF CallType, Extra
        <3> QED
            BY AttemptFacts, <1>2, <3>1, <3>2 DEF Local, Keyed
    <2>6. Blocks(x) /\ Shape(x) /\ Keyed(x)'
        BY AttemptFacts, <1>1, <1>2, <2>3, <2>5 DEF Local, Blocks, Shape, Keyed, BufferPc, Base, CallType
    <2>7. Answer(x, registry)
        <3>1. next = "finish" /\ call[c].op = "json" => registry > call[c].entry
            BY AttemptFacts, <1>2, <2>4 DEF Where, Local, Answer, Extra, CallType
        <3> QED
            BY AttemptFacts, <1>2, <2>3, <2>4, <3>1 DEF Local, Answer, CallType
    <2> QED
        BY AttemptFacts, <1>1, <2>2, <2>3, <2>6, <2>7, StayStep
<1> QED
    BY <1>3, <1>4

(* A rotation, or an attempt at one that had no room for its blob.         *)
LEMMA RekeyStep ==
    ASSUME CallsInv, NEW c \in Callers, NEW next, Where(c, next), NEW s \in Needs(c),
           call[c].op = "rekey", AttemptRekey(c, s, next), UNCHANGED <<registry, pipes>>
    PROVE  CallsInv'
<1> DEFINE h == call[c].h
<1>1. /\ Rotate(h, s) \/ UNCHANGED <<masters, size>>
      /\ UNCHANGED <<registry, sessions, pipes>>
    BY DEF AttemptRekey
<1>2. h \in Handles /\ masters \in [Handles -> Nat] /\ size \in [Handles -> Nat]
      /\ call[c].entry \in Nat /\ s \in Nat /\ call[c].entry <= masters[h]
    BY AttemptFacts, CallAssumption DEF CallsTypeOK, CallType, Needs, Sizes, Local, Keyed
<1>3. /\ masters' \in [Handles -> Nat] /\ size' \in [Handles -> Nat]
      /\ \A k \in Handles : Moved(k) /\ masters'[k] >= masters[k]
    <2>1. CASE Rotate(h, s)
        BY <1>2, <2>1 DEF Rotate, Moved
    <2>2. CASE UNCHANGED <<masters, size>>
        BY <1>2, <2>2 DEF Moved
    <2> QED
        BY <1>1, <2>1, <2>2
<1>4. CASE Fits(c, s)
    <2>1. PICK x : x = With(call[c], [pc |-> next, rc |-> "ok", n |-> s, wrote |-> s,
                                      from |-> masters[h] + 1])
        OBVIOUS
    <2>2. call' = [call EXCEPT ![c] = x] /\ masters' = [masters EXCEPT ![h] = @ + 1]
        BY <1>4, <2>1, AttemptFacts, SetRecord DEF AttemptRekey, Rotate
    <2>3. x \in CallType /\ x.pc = next /\ x.held = call[c].held /\ x.out = call[c].out
          /\ x.op = call[c].op /\ x.h = call[c].h /\ x.entry = call[c].entry /\ x.rc = "ok"
          /\ x.n = s /\ x.buf = call[c].buf /\ x.wrote = s /\ x.from = masters[h] + 1
        <3>1. masters[h] + 1 \in Nat
            BY <1>2
        <3> QED
            BY <1>2, <2>1, <3>1, AttemptFacts DEF With, CallType, BufferPc
    <2>4. masters'[x.h] = x.from /\ x.entry < x.from /\ x.from \in Nat /\ x.entry \in Nat
        BY <1>2, <2>2, <2>3
    <2>5. Blocks(x) /\ Shape(x) /\ Keyed(x)'
        BY AttemptFacts, <2>3, <2>4 DEF Local, Blocks, Shape, Keyed, BufferPc, Base, CallType
    <2>6. Answer(x, registry)
        BY AttemptFacts, <1>2, <1>4, <2>3 DEF Fits, Local, Answer, CallType
    <2> QED
        BY AttemptFacts, <1>1, <1>3, <2>2, <2>3, <2>5, <2>6, StayStep
<1>5. CASE ~Fits(c, s)
    <2>1. PICK x : x = With(call[c], [pc |-> next, rc |-> "too_small", n |-> s])
        OBVIOUS
    <2>2. call' = [call EXCEPT ![c] = x]
        BY <1>5, <2>1, AttemptFacts, SetRecord DEF AttemptRekey
    <2>3. x \in CallType /\ x.pc = next /\ x.held = call[c].held /\ x.out = call[c].out
          /\ x.op = call[c].op /\ x.h = call[c].h /\ x.entry = call[c].entry /\ x.rc = "too_small"
          /\ x.n = s /\ x.buf = call[c].buf
        BY <1>2, <2>1, AttemptFacts DEF With, CallType, BufferPc
    <2>4. s + Extra(call[c].op) > call[c].buf
        BY AttemptFacts, <1>2, <1>5 DEF Fits, CallType, Extra
    <2>5. call[c].entry <= masters'[h]
        <3>1. masters[h] \in Nat /\ masters'[h] \in Nat /\ masters'[h] >= masters[h]
            BY <1>2, <1>3
        <3> QED
            BY <1>2, <3>1
    <2>6. Blocks(x) /\ Shape(x) /\ Keyed(x)'
        BY AttemptFacts, <2>3, <2>5 DEF Local, Blocks, Shape, Keyed, BufferPc, Base, CallType
    <2>7. Answer(x, registry)
        BY AttemptFacts, <1>2, <2>3, <2>4 DEF Local, Answer, CallType
    <2> QED
        BY AttemptFacts, <1>1, <1>3, <2>2, <2>3, <2>6, <2>7, StayStep
<1> QED
    BY <1>4, <1>5

(* An init opens its session when the blob fits, and none otherwise.       *)
LEMMA InitStep ==
    ASSUME CallsInv, NEW c \in Callers, NEW next, Where(c, next), NEW s \in Needs(c),
           call[c].op = "init", AttemptInit(c, s, next), UNCHANGED <<registry, pipes>>
    PROVE  CallsInv'
<1>1. s \in Nat /\ 0 \notin Handles
    BY CallAssumption DEF Needs, Sizes
<1>2. CASE \E h \in Handles \ (sessions \cup pipes) :
               /\ Fits(c, s)
               /\ sessions' = sessions \cup {h}
               /\ size' = [size EXCEPT ![h] = s]
               /\ Set(c, [pc |-> next, h |-> h, rc |-> "ok", n |-> s, wrote |-> s])
               /\ UNCHANGED masters
    <2>1. PICK h \in Handles \ (sessions \cup pipes) :
               /\ Fits(c, s)
               /\ sessions' = sessions \cup {h}
               /\ size' = [size EXCEPT ![h] = s]
               /\ Set(c, [pc |-> next, h |-> h, rc |-> "ok", n |-> s, wrote |-> s])
               /\ UNCHANGED masters
        BY <1>2
    <2>2. PICK x : x = With(call[c], [pc |-> next, h |-> h, rc |-> "ok", n |-> s, wrote |-> s])
        OBVIOUS
    <2>3. call' = [call EXCEPT ![c] = x]
        BY <2>1, <2>2, AttemptFacts, SetRecord
    <2>4. x \in CallType /\ x.pc = next /\ x.held = call[c].held /\ x.out = call[c].out
          /\ x.op = call[c].op /\ x.h = h /\ x.entry = call[c].entry /\ x.rc = "ok"
          /\ x.n = s /\ x.buf = call[c].buf /\ x.wrote = s
        BY <1>1, <2>2, AttemptFacts DEF With, CallType, BufferPc
    <2>5. Blocks(x) /\ Shape(x)
        <3>1. next \in {"retry", "finish"} /\ h # 0 /\ x.held = Base(x) + 1 /\ x.out = "null"
              /\ x.op = "init"
            BY AttemptFacts, <1>1, <2>4 DEF Base
        <3>2. Blocks(x)
            BY <2>4, <3>1 DEF Blocks
        <3>3. Shape(x)
            BY <2>4, <3>1 DEF Shape, BufferPc, Buffered, OnHandle
        <3> QED
            BY <3>2, <3>3
    <2>6. Answer(x, registry)
        <3>1. x.op = "init" /\ x.n + Extra(x.op) <= x.buf /\ x.pc \in {"retry", "finish"}
            BY AttemptFacts, <2>1, <2>4 DEF Fits
        <3> QED
            BY <2>4, <3>1 DEF Answer
    <2>7. call[c].h = 0 /\ call[c].pc \notin {"idle", "returned"} /\ x.pc \notin {"idle", "returned"}
          /\ x.op \in {"init", "load"} /\ UNCHANGED <<registry, pipes>>
        BY AttemptFacts, <2>4
    <2> QED
        BY <1>1, <2>1, <2>3, <2>4, <2>5, <2>6, <2>7, OpenStep
<1>3. CASE /\ ~Fits(c, s)
           /\ Set(c, [pc |-> next, h |-> 0, rc |-> "too_small", n |-> s])
           /\ UNCHANGED <<sessions, masters, size>>
    <2>1. PICK x : x = With(call[c], [pc |-> next, h |-> 0, rc |-> "too_small", n |-> s])
        OBVIOUS
    <2>2. call' = [call EXCEPT ![c] = x]
        BY <1>3, <2>1, AttemptFacts, SetRecord
    <2>3. x \in CallType /\ x.pc = next /\ x.held = call[c].held /\ x.out = call[c].out
          /\ x.op = call[c].op /\ x.h = call[c].h /\ x.h = 0 /\ x.entry = call[c].entry
          /\ x.rc = "too_small" /\ x.n = s /\ x.buf = call[c].buf
        BY <1>1, <2>1, AttemptFacts DEF With, CallType, BufferPc
    <2>4. Blocks(x) /\ Shape(x) /\ Keyed(x)'
        BY AttemptFacts, <1>1, <2>3 DEF Local, Blocks, Shape, Keyed, BufferPc, Base, CallType, Buffered
    <2>5. Answer(x, registry)
        BY AttemptFacts, <1>1, <1>3, <2>3 DEF Fits, Answer, CallType, Extra
    <2>6. /\ masters' \in [Handles -> Nat] /\ size' \in [Handles -> Nat]
          /\ \A h \in Handles : Moved(h)
        BY AttemptFacts, <1>3 DEF CallsTypeOK, Moved
    <2> QED
        BY AttemptFacts, <1>1, <1>3, <2>2, <2>3, <2>4, <2>5, <2>6, StayStep
<1> QED
    BY <1>2, <1>3 DEF AttemptInit

LEMMA AttemptStep ==
    ASSUME CallsInv, NEW c \in Callers, First(c) \/ Second(c)
    PROVE  CallsInv'
<1>1. PICK next : Where(c, next) /\ Attempt(c, next)
    BY DEF First, Second, Where
<1>2. CASE AttemptError(c, next)
    BY <1>1, <1>2, ErrorStep DEF Attempt
<1>3. CASE \E s \in Needs(c) : CASE call[c].op = "init"  -> AttemptInit(c, s, next)
                                 [] call[c].op = "rekey" -> AttemptRekey(c, s, next)
                                 [] OTHER                -> AttemptRead(c, s, next)
    <2>1. PICK s \in Needs(c) : CASE call[c].op = "init"  -> AttemptInit(c, s, next)
                                  [] call[c].op = "rekey" -> AttemptRekey(c, s, next)
                                  [] OTHER                -> AttemptRead(c, s, next)
        BY <1>3
    <2>2. call[c].op \in Buffered /\ UNCHANGED <<registry, pipes>>
        BY <1>1, AttemptFacts DEF Attempt
    <2>3. CASE call[c].op = "init"
        BY <1>1, <2>1, <2>2, <2>3, InitStep
    <2>4. CASE call[c].op = "rekey"
        BY <1>1, <2>1, <2>2, <2>4, RekeyStep
    <2>5. CASE call[c].op \in {"save", "cipher", "json"}
        BY <1>1, <2>1, <2>2, <2>5, ReadStep
    <2> QED
        BY <2>2, <2>3, <2>4, <2>5 DEF Buffered
<1> QED
    BY <1>1, <1>2, <1>3 DEF Attempt

-----------------------------------------------------------------------------
(* The ends of the calls.  A session in flight becomes the application's.  *)
LEMMA HandOutStep ==
    ASSUME CallsInv, NEW c \in Callers, NEW x \in CallType, call' = [call EXCEPT ![c] = x],
           InFlight(c), x.pc = "returned", x.op = call[c].op, x.h = call[c].h,
           Shape(x), Blocks(x), Answer(x, registry),
           pipes' = pipes \cup {call[c].h}, UNCHANGED libVars
    PROVE  CallsInv'
<1>1. UNCHANGED <<registry, sessions, masters, size>>
    BY DEF libVars
<1>2. call'[c] = x /\ \A d \in Callers \ {c} : call'[d] = call[d]
    BY DEF CallsInv, CallsTypeOK
<1>3. call[c].h \in Handles
    BY DEF CallsInv, CallsTypeOK, CallType, InFlight
<1>4. CallsTypeOK'
    BY <1>1, <1>3 DEF CallsInv, CallsTypeOK
<1>5. \A d \in Callers : Local(d)'
    BY <1>1, <1>2 DEF CallsInv, Local, Keyed, InFlight
<1>6. UseInv'
    BY <1>2 DEF CallsInv, UseInv, Engaged, InFlight, OnHandle
<1>7. FlightInv'
    <2>1. \A d \in Callers \ {c} : call'[d].h = call[d].h /\ (InFlight(d)' <=> InFlight(d))
        BY <1>2 DEF InFlight
    <2>2. ~InFlight(c)'
        BY <1>2 DEF InFlight
    <2> QED
        BY <1>1, <2>1, <2>2 DEF CallsInv, FlightInv
<1> QED
    BY <1>4, <1>5, <1>6, <1>7 DEF CallsInv

(* What the entry does with the result of its attempts.                    *)
LEMMA TailStep ==
    ASSUME CallsInv, NEW c \in Callers, Tail(c)
    PROVE  CallsInv'
<1> DEFINE ok == call[c].rc = "ok"
           dropped == call[c].op = "init" \/ (call[c].op = "rekey" /\ call[c].outs # "both")
<1>1. call[c] \in CallType /\ Local(c) /\ CallsTypeOK /\ call[c].pc = "tail"
      /\ UNCHANGED libVars
    BY DEF CallsInv, CallsTypeOK, Tail
<1>2. PICK x : x = With(call[c],
              [pc |-> "returned",
               held |-> call[c].held - (IF ok /\ dropped THEN 1 ELSE 0)
                                     - (IF ~ok /\ call[c].op = "init" THEN 1 ELSE 0),
               buf |-> IF dropped THEN NoBuf ELSE call[c].buf,
               out |-> IF ~ok THEN "null"
                       ELSE IF call[c].op = "init" THEN "pipe"
                       ELSE IF dropped THEN "null" ELSE "buffer"])
    OBVIOUS
<1>3. call' = [call EXCEPT ![c] = x]
    BY <1>1, <1>2, SetRecord DEF Tail
<1>4. x.pc = "returned" /\ x.op = call[c].op /\ x.h = call[c].h /\ x.rc = call[c].rc
      /\ x.n = call[c].n /\ x.wrote = call[c].wrote /\ x.from = call[c].from
      /\ x.entry = call[c].entry /\ x.outs = call[c].outs
    BY <1>2 DEF With
<1>5. /\ x.held = call[c].held - (IF ok /\ dropped THEN 1 ELSE 0)
                               - (IF ~ok /\ call[c].op = "init" THEN 1 ELSE 0)
      /\ x.buf = IF dropped THEN NoBuf ELSE call[c].buf
      /\ x.out = IF ~ok THEN "null" ELSE IF call[c].op = "init" THEN "pipe"
                 ELSE IF dropped THEN "null" ELSE "buffer"
    BY <1>2 DEF With
<1>6. x \in CallType
    <2>1. x.held \in Int /\ x.buf \in Int /\ x.out \in {"null", "pipe", "buffer"}
        BY <1>1, <1>5 DEF CallType, NoBuf
    <2> QED
        BY <1>1, <1>2, <1>4, <2>1 DEF With, CallType
<1>7. Blocks(x) /\ Shape(x) /\ Keyed(x)
    BY <1>1, <1>4, <1>5 DEF Local, Blocks, Shape, Keyed, BufferPc, Base, CallType
<1>8. Answer(x, registry)
    BY <1>1, <1>4, <1>5 DEF Local, Answer
<1>9. CASE ok /\ call[c].op = "init"
    <2>1. InFlight(c) /\ pipes' = pipes \cup {call[c].h}
        BY <1>1, <1>9 DEF InFlight, Local, Shape, Tail
    <2> QED
        BY <1>1, <1>3, <1>4, <1>6, <1>7, <1>8, <2>1, HandOutStep
<1>10. CASE ~(ok /\ call[c].op = "init")
    <2>1. ~InFlight(c) /\ call[c].op # "free" /\ pipes' = pipes
        BY <1>1, <1>10 DEF InFlight, Local, Shape, Tail, BufferPc, Buffered
    <2> QED
        BY <1>1, <1>3, <1>4, <1>6, <1>7, <1>8, <2>1, LocalStep
<1> QED
    BY <1>9, <1>10

(* A stored session is opened.                                             *)
LEMMA LoadStep ==
    ASSUME CallsInv, NEW c \in Callers, Load(c)
    PROVE  CallsInv'
<1>1. call[c] \in CallType /\ Local(c) /\ CallsTypeOK /\ call[c].pc = "load"
      /\ UNCHANGED <<registry, pipes>>
    BY DEF CallsInv, CallsTypeOK, Load
<1>2. 0 \notin Handles /\ call[c].op = "load" /\ call[c].h = 0 /\ call[c].out = "null"
      /\ call[c].held = 0
    BY <1>1, CallAssumption DEF Local, Shape, Blocks
<1>3. CASE /\ Set(c, [pc |-> "returned", rc |-> "error"])
           /\ UNCHANGED <<sessions, masters, size>>
    <2>1. PICK x : x = With(call[c], [pc |-> "returned", rc |-> "error"])
        OBVIOUS
    <2>2. call' = [call EXCEPT ![c] = x]
        BY <1>1, <1>3, <2>1, SetRecord
    <2>3. x \in CallType /\ x.pc = "returned" /\ x.held = 0 /\ x.out = "null"
          /\ x.op = "load" /\ x.h = 0 /\ x.rc = "error"
        BY <1>1, <1>2, <2>1 DEF With, CallType
    <2>4. Blocks(x) /\ Shape(x) /\ Answer(x, registry) /\ Keyed(x)
        BY <2>3 DEF Blocks, Shape, Answer, Keyed, BufferPc, OnHandle
    <2> QED
        BY <1>1, <1>2, <1>3, <2>2, <2>3, <2>4, LocalStep DEF libVars, InFlight
<1>4. CASE \E h \in Handles \ (sessions \cup pipes), s \in Sizes :
              /\ sessions' = sessions \cup {h}
              /\ size' = [size EXCEPT ![h] = s]
              /\ Set(c, [pc |-> "wrap", h |-> h])
              /\ UNCHANGED masters
    <2>1. PICK h \in Handles \ (sessions \cup pipes), s \in Sizes :
              /\ sessions' = sessions \cup {h}
              /\ size' = [size EXCEPT ![h] = s]
              /\ Set(c, [pc |-> "wrap", h |-> h])
              /\ UNCHANGED masters
        BY <1>4
    <2>2. PICK x : x = With(call[c], [pc |-> "wrap", h |-> h])
        OBVIOUS
    <2>3. call' = [call EXCEPT ![c] = x] /\ s \in Nat
        BY <1>1, <2>1, <2>2, SetRecord, CallAssumption DEF Sizes
    <2>4. x \in CallType /\ x.pc = "wrap" /\ x.held = 0 /\ x.out = "null"
          /\ x.op = "load" /\ x.h = h /\ x.h # 0
        BY <1>1, <1>2, <2>2 DEF With, CallType
    <2>5. Blocks(x) /\ Shape(x) /\ Answer(x, registry)
        BY <2>4 DEF Blocks, Shape, Answer, BufferPc, OnHandle
    <2> QED
        BY <1>1, <1>2, <2>1, <2>3, <2>4, <2>5, OpenStep
<1> QED
    BY <1>3, <1>4 DEF Load

(* There is room for the itb_pipeline of a load, or the session is closed. *)
LEMMA WrapStep ==
    ASSUME CallsInv, NEW c \in Callers, Wrap(c)
    PROVE  CallsInv'
<1>1. call[c] \in CallType /\ Local(c) /\ CallsTypeOK /\ call[c].pc = "wrap"
      /\ UNCHANGED <<registry, masters, size>>
    BY DEF CallsInv, CallsTypeOK, Wrap
<1>2. call[c].op = "load" /\ call[c].h # 0 /\ call[c].out = "null" /\ call[c].held = 0
      /\ InFlight(c)
    BY <1>1 DEF Local, Shape, Blocks, InFlight
<1>3. CASE /\ Set(c, [pc |-> "returned", held |-> call[c].held + 1, out |-> "pipe"])
           /\ pipes' = pipes \cup {call[c].h}
           /\ UNCHANGED sessions
    <2>1. PICK x : x = With(call[c], [pc |-> "returned", held |-> call[c].held + 1, out |-> "pipe"])
        OBVIOUS
    <2>2. call' = [call EXCEPT ![c] = x]
        BY <1>1, <1>3, <2>1, SetRecord
    <2>3. x \in CallType /\ x.pc = "returned" /\ x.held = 1 /\ x.out = "pipe"
          /\ x.op = "load" /\ x.h = call[c].h /\ x.rc = call[c].rc
        BY <1>1, <1>2, <2>1 DEF With, CallType
    <2>4. Blocks(x) /\ Shape(x) /\ Answer(x, registry)
        BY <2>3 DEF Blocks, Shape, Answer, BufferPc, OnHandle
    <2> QED
        BY <1>1, <1>2, <1>3, <2>2, <2>3, <2>4, HandOutStep DEF libVars
<1>4. CASE /\ sessions' = sessions \ {call[c].h}
           /\ Set(c, [pc |-> "returned", rc |-> "internal"])
           /\ UNCHANGED pipes
    <2>1. PICK x : x = With(call[c], [pc |-> "returned", rc |-> "internal"])
        OBVIOUS
    <2>2. call' = [call EXCEPT ![c] = x]
        BY <1>1, <1>4, <2>1, SetRecord
    <2>3. x \in CallType /\ x.pc = "returned" /\ x.held = 0 /\ x.out = "null"
          /\ x.op = "load" /\ x.h = call[c].h /\ x.rc = "internal"
        BY <1>1, <1>2, <2>1 DEF With, CallType
    <2>4. Blocks(x) /\ Shape(x) /\ Answer(x, registry)
        BY <2>3 DEF Blocks, Shape, Answer, BufferPc, OnHandle
    <2>5. call'[c] = x /\ \A d \in Callers \ {c} : call'[d] = call[d]
        BY <1>1, <2>2 DEF CallsTypeOK
    <2>6. CallsTypeOK'
        BY <1>1, <1>4, <2>2, <2>3 DEF CallsTypeOK
    <2>7. \A d \in Callers : Local(d)'
        BY <1>1, <2>3, <2>4, <2>5 DEF CallsInv, Local, Keyed
    <2>8. UseInv'
        BY <1>2, <1>4, <2>3, <2>5 DEF CallsInv, UseInv, Engaged, OnHandle
    <2>9. FlightInv'
        <3>1. \A d \in Callers \ {c} : call'[d].h = call[d].h /\ (InFlight(d)' <=> InFlight(d))
            BY <2>5 DEF InFlight
        <3>2. ~InFlight(c)'
            BY <2>3, <2>5 DEF InFlight
        <3> QED
            BY <1>2, <1>4, <3>1, <3>2 DEF CallsInv, FlightInv
    <2> QED
        BY <2>6, <2>7, <2>8, <2>9 DEF CallsInv
<1> QED
    BY <1>3, <1>4 DEF Wrap

(* The application releases a pipeline, alone on it.                       *)
LEMMA FreeStep ==
    ASSUME CallsInv, NEW c \in Callers, FreePipe(c)
    PROVE  CallsInv'
<1> DEFINE h == call[c].h
<1>1. call[c] \in CallType /\ Local(c) /\ CallsTypeOK /\ call[c].pc = "free"
      /\ UNCHANGED <<registry, masters, size>>
      /\ sessions' = sessions \ {h} /\ pipes' = pipes \ {h}
    BY DEF CallsInv, CallsTypeOK, FreePipe
<1>2. call[c].op = "free" /\ call[c].out = "null" /\ call[c].held = 0 /\ Engaged(c)
    BY <1>1 DEF Local, Shape, Blocks, Engaged, OnHandle
<1>3. h \in pipes
    BY <1>1, <1>2 DEF CallsInv, UseInv
<1>4. PICK x : x = With(call[c], [pc |-> "returned"])
    OBVIOUS
<1>5. call' = [call EXCEPT ![c] = x]
    BY <1>1, <1>4, SetRecord DEF FreePipe
<1>6. x \in CallType /\ x.pc = "returned" /\ x.held = 0 /\ x.out = "null"
      /\ x.op = "free" /\ x.h = h /\ x.rc = call[c].rc
    BY <1>1, <1>2, <1>4 DEF With, CallType
<1>7. Blocks(x) /\ Shape(x) /\ Answer(x, registry)
    BY <1>1, <1>2, <1>6 DEF Local, Blocks, Shape, Answer, BufferPc, OnHandle
<1>8. call'[c] = x /\ \A d \in Callers \ {c} : call'[d] = call[d]
    BY <1>1, <1>5 DEF CallsTypeOK
<1>9. CallsTypeOK'
    BY <1>1, <1>5, <1>6 DEF CallsTypeOK
<1>10. \A d \in Callers : Local(d)'
    BY <1>1, <1>6, <1>7, <1>8 DEF CallsInv, Local, Keyed
<1>11. UseInv'
    <2>1. \A d \in Callers \ {c} : Engaged(d) => call[d].h # h
        BY <1>2 DEF CallsInv, UseInv
    <2> QED
        BY <1>1, <1>2, <1>6, <1>8, <2>1 DEF CallsInv, UseInv, Engaged
<1>12. FlightInv'
    <2>1. \A d \in Callers \ {c} : call'[d].h = call[d].h /\ (InFlight(d)' <=> InFlight(d))
        BY <1>8 DEF InFlight
    <2>2. ~InFlight(c)' /\ ~InFlight(c)
        BY <1>2, <1>6, <1>8 DEF InFlight
    <2>3. \A d \in Callers : InFlight(d) => call[d].h # h
        BY <1>3 DEF CallsInv, FlightInv
    <2> QED
        BY <1>1, <2>1, <2>2, <2>3 DEF CallsInv, FlightInv
<1> QED
    BY <1>9, <1>10, <1>11, <1>12 DEF CallsInv

(* A record is added, while other threads may be reading it.               *)
LEMMA RegisterStep ==
    ASSUME CallsInv, NEW c \in Callers, Register(c)
    PROVE  CallsInv'
<1>1. call[c] \in CallType /\ Local(c) /\ CallsTypeOK /\ call[c].pc = "register"
      /\ UNCHANGED <<sessions, masters, size, pipes>>
    BY DEF CallsInv, CallsTypeOK, Register
<1>2. registry' \in Nat /\ registry' >= registry
    BY <1>1, CallAssumption DEF Register, CallsTypeOK
<1>3. call[c].op = "register" /\ call[c].out = "null" /\ call[c].held = 0
    BY <1>1 DEF Local, Shape, Blocks
<1>4. PICK x : /\ x \in {With(call[c], [pc |-> "returned"]),
                         With(call[c], [pc |-> "returned", rc |-> "error"])}
               /\ call' = [call EXCEPT ![c] = x]
    BY <1>1, SetRecord DEF Register
<1>5. x \in CallType /\ x.pc = "returned" /\ x.held = 0 /\ x.out = "null"
      /\ x.op = "register" /\ x.h = call[c].h
    BY <1>1, <1>3, <1>4 DEF With, CallType
<1>6. Blocks(x) /\ Shape(x) /\ Answer(x, registry')
    BY <1>5 DEF Blocks, Shape, Answer, BufferPc, OnHandle
<1>7. call'[c] = x /\ \A d \in Callers \ {c} : call'[d] = call[d]
    BY <1>1, <1>4 DEF CallsTypeOK
<1>8. CallsTypeOK'
    BY <1>1, <1>2, <1>4, <1>5 DEF CallsTypeOK
<1>9. ASSUME NEW d \in Callers PROVE Local(d)'
    <2>1. CASE d = c
        BY <1>5, <1>6, <1>7, <2>1 DEF Local, Keyed, Shape, Blocks, Answer
    <2>2. CASE d # c
        <3>1. masters' \in [Handles -> Nat] /\ \A h \in Handles : masters'[h] >= masters[h]
            BY <1>1 DEF CallsTypeOK
        <3>2. Moved(call[d].h)
            BY <1>1 DEF Moved
        <3> QED
            BY <1>1, <1>2, <1>7, <2>2, <3>1, <3>2, OthersKept
    <2> QED
        BY <2>1, <2>2
<1>10. UseInv'
    BY <1>1, <1>5, <1>7 DEF CallsInv, UseInv, Engaged, OnHandle
<1>11. FlightInv'
    <2>1. \A d \in Callers : call'[d].h = call[d].h /\ (InFlight(d)' <=> InFlight(d))
        BY <1>3, <1>5, <1>7 DEF InFlight
    <2> QED
        BY <1>1, <2>1 DEF CallsInv, FlightInv
<1> QED
    BY <1>8, <1>9, <1>10, <1>11 DEF CallsInv

(* The application calls, keeping the contract of the handle.              *)
LEMMA EnterStep ==
    ASSUME CallsInv, NEW c \in Callers, Enter(c)
    PROVE  CallsInv'
<1> DEFINE From(op, h) == CASE op = "json" -> registry
                            [] op \in {"save", "rekey"} -> masters[h]
                            [] OTHER -> 0
           Rec(op, h, outs, e) == [Quiet EXCEPT !.pc = "enter", !.op = op, !.h = h, !.outs = outs,
                                                !.entry = e]
<1>1. call[c] \in CallType /\ Local(c) /\ CallsTypeOK /\ call[c].pc = "idle"
      /\ UNCHANGED <<registry, sessions, masters, size, pipes>>
    BY DEF CallsInv, CallsTypeOK, Enter, libVars
<1>2. PICK op \in Operations, h \in pipes \cup {0}, outs \in {"both", "one", "none"} :
        /\ call[c].pc = "idle"
        /\ (op \in OnHandle) <=> h # 0
        /\ \A d \in Using(h) : ~Apart(op, call[d].op)
        /\ op \in {"init", "load", "json"} => outs # "one"
        /\ op \in {"register", "free"} => outs = "both"
        /\ call' = [call EXCEPT ![c] = Rec(op, h, outs, From(op, h))]
        /\ UNCHANGED <<libVars, pipes>>
    BY Zenon DEF Enter
<1>3. op \in Entries /\ h \in Handles \cup {0} /\ 0 \notin Handles
    BY <1>1, <1>2, CallAssumption DEF Entries, CallsTypeOK
<1>4. From(op, h) \in Nat
    BY <1>1, <1>2, <1>3 DEF CallsTypeOK, OnHandle
<1>5. PICK e, x : e = From(op, h) /\ x = Rec(op, h, outs, e)
    OBVIOUS
<1>6. x \in CallType /\ x.pc = "enter" /\ x.op = op /\ x.h = h /\ x.rc = "ok" /\ x.held = 0
      /\ x.out = "untouched" /\ (op = "json" => x.entry = registry)
      /\ (op \in {"save", "rekey"} => x.entry = masters[h])
    <2>1. e \in Nat /\ (op = "json" => e = registry) /\ (op \in {"save", "rekey"} => e = masters[h])
        BY <1>4, <1>5
    <2>2. Quiet \in CallType /\ Quiet.rc = "ok" /\ Quiet.held = 0 /\ Quiet.out = "untouched"
        BY DEF Quiet, CallType, Entries, NoBuf
    <2> HIDE DEF From
    <2> QED
        BY <1>3, <1>5, <2>1, <2>2 DEF CallType
<1>7. Blocks(x) /\ Shape(x) /\ Answer(x, registry)
    BY <1>1, <1>2, <1>6 DEF Blocks, Shape, Answer, BufferPc, OnHandle, CallsTypeOK
<1>8. call' = [call EXCEPT ![c] = x]
    BY <1>2, <1>5
<1> HIDE DEF Rec, From
<1>9. call'[c] = x /\ \A d \in Callers \ {c} : call'[d] = call[d]
    BY <1>1, <1>8 DEF CallsTypeOK
<1>10. CallsTypeOK'
    BY <1>1, <1>6, <1>8 DEF CallsTypeOK
<1>11. \A d \in Callers : Local(d)'
    <2>1. Keyed(x)'
        BY <1>1, <1>2, <1>3, <1>6 DEF Keyed, CallsTypeOK, OnHandle
    <2> QED
        BY <1>1, <1>7, <1>9, <2>1 DEF CallsInv, Local, Keyed
<1>12. UseInv'
    <2>1. x.op \in OnHandle => h \in pipes
        BY <1>2, <1>6
    <2>2. \A d \in Callers \ {c} : Engaged(d) /\ call[d].h = h => op # "free" /\ call[d].op # "free"
        BY <1>2 DEF Using, Engaged, Apart
    <2> QED
        BY <1>1, <1>6, <1>9, <2>1, <2>2 DEF CallsInv, UseInv, Engaged
<1>13. FlightInv'
    <2>1. \A d \in Callers \ {c} : call'[d].h = call[d].h /\ (InFlight(d)' <=> InFlight(d))
        BY <1>9 DEF InFlight
    <2>2. ~InFlight(c)' /\ ~InFlight(c)
        BY <1>1, <1>2, <1>6, <1>9 DEF InFlight, OnHandle
    <2> QED
        BY <1>1, <2>1, <2>2 DEF CallsInv, FlightInv
<1> QED
    BY <1>10, <1>11, <1>12, <1>13 DEF CallsInv

(* The application is done with the result.                                *)
LEMMA ReleaseStep ==
    ASSUME CallsInv, NEW c \in Callers, Release(c)
    PROVE  CallsInv'
<1>1. call[c] \in CallType /\ CallsTypeOK /\ call[c].pc = "returned"
      /\ UNCHANGED <<registry, sessions, masters, size, pipes>>
      /\ call' = [call EXCEPT ![c] = Quiet]
    BY DEF CallsInv, CallsTypeOK, Release, libVars
<1>2. Quiet \in CallType
    BY DEF Quiet, CallType, Entries, NoBuf
<1>3. Blocks(Quiet) /\ Shape(Quiet) /\ Answer(Quiet, registry) /\ Quiet.pc = "idle"
      /\ Quiet.op = "none"
    BY DEF Quiet, Blocks, Shape, Answer, BufferPc, OnHandle, Base
<1>4. call'[c] = Quiet /\ \A d \in Callers \ {c} : call'[d] = call[d]
    BY <1>1 DEF CallsTypeOK
<1>5. CallsTypeOK'
    BY <1>1, <1>2 DEF CallsTypeOK
<1>6. \A d \in Callers : Local(d)'
    BY <1>1, <1>3, <1>4 DEF CallsInv, Local, Keyed
<1>7. UseInv'
    BY <1>1, <1>3, <1>4 DEF CallsInv, UseInv, Engaged
<1>8. FlightInv'
    <2>1. \A d \in Callers \ {c} : call'[d].h = call[d].h /\ (InFlight(d)' <=> InFlight(d))
        BY <1>4 DEF InFlight
    <2>2. ~InFlight(c)' /\ ~InFlight(c)
        BY <1>1, <1>3, <1>4 DEF InFlight
    <2> QED
        BY <1>1, <2>1, <2>2 DEF CallsInv, FlightInv
<1> QED
    BY <1>5, <1>6, <1>7, <1>8 DEF CallsInv

-----------------------------------------------------------------------------
LEMMA CallsInit ==
    Init => CallsInv
<1> SUFFICES ASSUME Init PROVE CallsInv
    OBVIOUS
<1>1. Quiet \in CallType /\ Quiet.pc = "idle" /\ Quiet.op = "none"
    BY DEF Quiet, CallType, Entries, NoBuf
<1>2. \A c \in Callers : call[c] = Quiet
    BY DEF Init
<1>3. CallsTypeOK
    BY <1>1, CallAssumption DEF Init, CallsTypeOK
<1>4. Blocks(Quiet) /\ Shape(Quiet) /\ Answer(Quiet, registry) /\ Keyed(Quiet)
    BY DEF Quiet, Blocks, Shape, Answer, Keyed, BufferPc, OnHandle, Base
<1>5. \A c \in Callers : Local(c)
    BY <1>2, <1>4 DEF Local
<1>6. UseInv /\ FlightInv
    BY <1>1, <1>2 DEF Init, UseInv, FlightInv, Engaged, InFlight
<1> QED
    BY <1>3, <1>5, <1>6 DEF CallsInv

LEMMA CallsNext ==
    CallsInv /\ [Next]_vars => CallsInv'
<1> SUFFICES ASSUME CallsInv, [Next]_vars PROVE CallsInv'
    OBVIOUS
<1>1. CASE Next
    <2>1. PICK c \in Callers : Step(c)
        BY <1>1 DEF Next
    <2> QED
        BY <2>1, EnterStep, ReleaseStep, RefuseStep, AcceptStep, AllocStep, AttemptStep,
           RetryStep, FinishStep, TailStep, LoadStep, WrapStep, FreeStep, RegisterStep DEF Step
<1>2. CASE UNCHANGED vars
    BY <1>2 DEF vars, CallsInv, CallsTypeOK, Local, Keyed, UseInv, FlightInv, Engaged, InFlight
<1> QED
    BY <1>1, <1>2

(* The facts about every call, its use of handles and the sessions in      *)
(* flight hold throughout, for any threads, sessions and failures.         *)
THEOREM CallsInductive == Spec => []CallsInv
    BY CallsInit, CallsNext, PTL DEF Spec

(* A buffer the binding hands out holds what its length promises, and the  *)
(* records in it are those of some time during the call, however the       *)
(* registry grew between the two attempts.                                 *)
THEOREM ResultIsCurrent == Spec => []ResultCurrent
<1>1. CallsInv => ResultCurrent
    <2> SUFFICES ASSUME CallsInv, NEW c \in Callers, Returned(c), call[c].out = "buffer"
                 PROVE  /\ call[c].n + Extra(call[c].op) <= call[c].buf
                        /\ call[c].op = "json" => call[c].wrote \in call[c].entry..registry
                        /\ call[c].op = "json" => call[c].wrote = call[c].n
        BY DEF ResultCurrent
    <2>1. call[c] \in CallType /\ Local(c) /\ registry \in Nat
        BY DEF CallsInv, CallsTypeOK
    <2>2. /\ call[c].n + Extra(call[c].op) <= call[c].buf
          /\ call[c].op = "json" =>
                 call[c].wrote = call[c].n /\ call[c].entry <= call[c].n /\ call[c].n <= registry
        BY <2>1 DEF Local, Answer, Returned
    <2> QED
        BY <2>1, <2>2 DEF CallType
<1> QED
    BY <1>1, CallsInductive, PTL

(* The buffer of a save or a rekey holds one whole blob of the session,    *)
(* under its own length, no older than the call and for a rekey written by *)
(* it, whatever other threads saved or rotated between the two attempts.   *)
THEOREM BlobIsOfTheCall == Spec => []BlobOfTheCall
<1>1. CallsInv => BlobOfTheCall
    <2> SUFFICES ASSUME CallsInv, NEW c \in Callers, Returned(c), call[c].out = "buffer",
                        call[c].op \in {"save", "rekey"}
                 PROVE  /\ call[c].n = call[c].wrote
                        /\ call[c].from \in call[c].entry..masters[call[c].h]
                        /\ call[c].op = "rekey" => call[c].from > call[c].entry
        BY DEF BlobOfTheCall
    <2>1. call[c] \in CallType /\ Local(c) /\ masters \in [Handles -> Nat]
        BY DEF CallsInv, CallsTypeOK
    <2>2. call[c].rc = "ok" /\ call[c].n = call[c].wrote /\ call[c].h \in Handles
        BY <2>1 DEF Local, Answer, Returned, Shape, OnHandle, CallType
    <2>3. /\ call[c].entry <= call[c].from /\ call[c].from <= masters[call[c].h]
          /\ call[c].op = "rekey" => call[c].entry < call[c].from
        BY <2>1, <2>2 DEF Local, Keyed, Returned
    <2> QED
        BY <2>1, <2>2, <2>3 DEF CallType
<1> QED
    BY <1>1, CallsInductive, PTL

(* BUFFER_TOO_SMALL reaches a reader only when what it reads was replaced  *)
(* during the call, by a registration or by another thread's rotation.     *)
THEOREM TooSmallIsGrowth == Spec => []TooSmallOnlyIfGrown
<1>1. CallsInv => TooSmallOnlyIfGrown
    <2> SUFFICES ASSUME CallsInv, NEW c \in Callers, Returned(c), call[c].rc = "too_small"
                 PROVE  /\ call[c].op = "json" => registry > call[c].entry
                        /\ call[c].op = "save" => masters[call[c].h] > call[c].entry
        BY DEF TooSmallOnlyIfGrown
    <2>1. call[c] \in CallType /\ Local(c) /\ masters \in [Handles -> Nat] /\ registry \in Nat
        BY DEF CallsInv, CallsTypeOK
    <2>2. /\ call[c].op = "json" => registry > call[c].entry
          /\ call[c].op = "save" => call[c].entry < masters[call[c].h] /\ call[c].h \in Handles
        BY <2>1 DEF Local, Answer, Keyed, Returned, Shape, OnHandle, CallType
    <2> QED
        BY <2>1, <2>2 DEF CallType
<1> QED
    BY <1>1, CallsInductive, PTL

(* Whatever allocation failed, a call that has returned keeps the block it *)
(* handed out and no other.                                                *)
THEOREM NothingLeaks == Spec => []NoLeak
<1>1. CallsInv => NoLeak
    BY DEF CallsInv, Local, Blocks, NoLeak, Returned
<1> QED
    BY <1>1, CallsInductive, PTL

(* Every open session is the application's or is in a call under way.      *)
THEOREM NoSessionOrphaned == Spec => []NoOrphanSession
<1>1. CallsInv => NoOrphanSession
    <2> SUFFICES ASSUME CallsInv PROVE NoOrphanSession
        OBVIOUS
    <2>1. sessions \subseteq Handles /\ pipes \subseteq Handles /\ 0 \notin Handles
        BY CallAssumption DEF CallsInv, CallsTypeOK
    <2>2. \A c \in Callers : InFlight(c) => call[c].h \in Handles
        BY DEF CallsInv, CallsTypeOK, InFlight, CallType
    <2> QED
        BY <2>1, <2>2 DEF CallsInv, FlightInv, InFlight, NoOrphanSession
<1> QED
    BY <1>1, CallsInductive, PTL
=============================================================================
