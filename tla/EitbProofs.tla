------------------------------ MODULE EitbProofs ------------------------------
(***************************************************************************)
(* Proofs about the command line tool, for any files, any capacity of the  *)
(* read buffer, blobs of any bytes, any number of runs and any failure: an *)
(* exit code 0 means a whole wire or a restored file, a good file is       *)
(* recovered, no other file is touched and nothing is kept.                *)
(***************************************************************************)
EXTENDS Eitb, TLAPS, SequenceTheorems

Units == Int \X Int
Contents == Seq(Units)
Session == [text : Contents, surface : Surfaces \cup {"none"}]
Sessions == Seq(Session)

(* The steps of a run, in the order of the code. *)
Opening == {"open", "alloc"}
InFile == {"read", "fread", "readend"}
Opened == {"alloc"} \cup InFile
WithText == {"init", "load", "cipher"}
Writing == {"mkdir", "create", "write", "save", "done"}
BeforeWrite == {"parse"} \cup Opening \cup InFile \cup WithText
Pcs == {"idle"} \cup BeforeWrite \cup Writing

TypeOK ==
    /\ files \in [Paths -> Contents] /\ before \in [Paths -> Contents]
    /\ sessions \in Sessions
    /\ run.cmd \in {"none", "encrypt", "decrypt"} /\ run.profile \in Profiles
    /\ run.in \in Paths /\ run.out \in Paths /\ run.number \in 0..MaxRuns
    /\ pc \in Pcs
    /\ buf \in Contents /\ cap \in Nat /\ offset \in Nat /\ ferror \in BOOLEAN
    /\ session \in Nat /\ result \in Contents
    /\ exit \in {0, 1} /\ faulty \in BOOLEAN

-----------------------------------------------------------------------------
(* The inductive invariant. *)

(* What the process holds at each step. *)
Holds(r) ==
    \/ r = "blob" /\ run.cmd = "decrypt" /\ pc \in Opening \cup InFile \cup {"load"}
    \/ r = "file" /\ pc \in Opened \cup {"write"}
    \/ r = "input" /\ pc \in InFile \cup WithText \cup Writing
    \/ r = "pipe" /\ pc \in {"cipher"} \cup Writing
    \/ r = "output" /\ pc \in Writing
HeapInv == heap = [r \in Resources |-> IF Holds(r) THEN 1 ELSE 0]

(* The steps of one command only; a session takes a run of its own. *)
CmdInv ==
    /\ pc # "idle" => run.cmd \in {"encrypt", "decrypt"} /\ run.number > 0 /\ exit = 0
    /\ pc \in {"parse", "load"} => run.cmd = "decrypt"
    /\ pc \in {"init", "save"} => run.cmd = "encrypt"
    /\ Len(sessions) <= run.number
    /\ run.cmd = "encrypt" /\ pc \in Opening \cup InFile \cup {"init"} =>
           Len(sessions) < run.number

(* The files are those the run found until it creates the output. *)
FilesInv ==
    /\ pc \in BeforeWrite \cup {"mkdir", "create"} => files = before
    /\ pc \in Writing => result # Absent
    /\ FilesUntouched

(* The buffer holds the stretch of the input that was read, in a block     *)
(* that has room for it; without an error it ends up with the whole file.  *)
ReadInv ==
    /\ pc \in BeforeWrite =>
           /\ offset <= Len(before[run.in])
           /\ buf = SubSeq(before[run.in], 1, offset)
    /\ pc \in {"parse"} \cup Opening => offset = 0
    /\ pc \in InFile => Len(buf) <= cap /\ cap > 0
    /\ pc = "fread" => Len(buf) < cap
    /\ pc = "readend" /\ ~ferror => offset = Len(before[run.in])
    /\ pc \in WithText => offset = Len(before[run.in])
    /\ pc \in Opened \cup WithText => before[run.in] # Absent
    /\ pc # "idle" /\ ferror => faulty

(* A session that encrypted anything encrypted a file. *)
SessionInv ==
    \A k \in DOMAIN sessions : sessions[k].surface \in Surfaces => sessions[k].text # Absent

(* What the cipher call was given and what it answered; the output file.   *)
Encrypted ==
    /\ session \in DOMAIN sessions
    /\ sessions[session] = [text |-> before[run.in], surface |-> Surface(run.profile)]
    /\ result = Wire(session)
Decrypted ==
    /\ before[run.in] = Wire(session)
    /\ sessions[session] = [text |-> result, surface |-> Surface(run.profile)]
Successful == pc = "idle" /\ run.number > 0 /\ exit = 0
OutcomeInv ==
    /\ pc = "cipher" => session \in DOMAIN sessions
    /\ run.cmd = "decrypt" /\ (pc \in {"cipher"} \cup Writing \/ Successful) =>
           session \in DOMAIN sessions /\ HexParse(run.hex) = Blobs[session]
    /\ pc \in Writing \/ Successful =>
           IF run.cmd = "encrypt" THEN Encrypted ELSE run.cmd = "decrypt" => Decrypted
    /\ run.cmd = "encrypt" /\ (pc = "done" \/ Successful) /\ ~faulty =>
           PrintHex(Blobs[session]) \in printed
    /\ pc \in {"save", "done"} \/ Successful => files[run.out] = result

(* A decrypt that has what it takes fails only by a fault.                 *)
Recoverable ==
    \E k \in DOMAIN sessions :
        /\ run.hex \in {PrintHex(Blobs[k]), Upper(PrintHex(Blobs[k]))}
        /\ before[run.in] = Wire(k) /\ sessions[k].surface = Surface(run.profile)
        /\ 2 * Len(Wire(k)) <= SizeMax
RecoverInv == run.cmd = "decrypt" /\ Recoverable /\ ~faulty => exit = 0

IInv == /\ TypeOK /\ HeapInv /\ CmdInv /\ FilesInv
        /\ ReadInv /\ SessionInv /\ OutcomeInv /\ RecoverInv
-----------------------------------------------------------------------------
(* Printing and parsing of the blob. *)

(* The digit of a nibble, small or capital, has the value of the nibble.   *)
LEMMA DigitMeansNibble ==
    ASSUME NEW n \in 0..15
    PROVE  /\ LowerHex[n + 1] \in DOMAIN Digits /\ Digits[LowerHex[n + 1]] = n
           /\ UpperHex[n + 1] \in DOMAIN Digits /\ Digits[UpperHex[n + 1]] = n
<1> DEFINE L == LowerHex
           U == UpperHex
<1>1. L[n + 1] \in Range(L) /\ U[n + 1] \in Range(U)
  BY DEF Range, LowerHex, UpperHex
<1>2. ASSUME NEW m \in 0..15, m # n
      PROVE  /\ L[n + 1] # L[m + 1] /\ L[n + 1] # U[m + 1]
             /\ U[n + 1] # L[m + 1] /\ U[n + 1] # U[m + 1]
  BY <1>2 DEF LowerHex, UpperHex
<1> HIDE DEF L, U
<1> QED
  BY <1>1, <1>2 DEF Digits, L, U

LEMMA NibblesOfByte ==
    ASSUME NEW x \in 0..255
    PROVE  (x \div 16) * 16 + (x % 16) = x
OBVIOUS

(* A blob of any bytes is printed as two digits a byte, and either way of  *)
(* writing them is valid and parses to the blob: the loops of cmd_encrypt  *)
(* and cmd_decrypt are inverse.                                            *)
LEMMA PrintedParses ==
    ASSUME NEW b \in Seq(0..255), b # << >>, NEW s \in {PrintHex(b), Upper(PrintHex(b))}
    PROVE  HexValid(s) /\ HexParse(s) = b
<1> DEFINE n == Len(b)
           Nibble(i) == IF i % 2 = 1 THEN b[(i + 1) \div 2] \div 16 ELSE b[(i + 1) \div 2] % 16
           P == PrintHex(b)
<1>1. n \in Nat /\ n > 0 /\ DOMAIN b = 1..n /\ \A j \in 1..n : b[j] \in 0..255
  <2>1. n \in Nat /\ DOMAIN b = 1..n /\ b \in [1..n -> 0..255]
    BY LenProperties
  <2>2. n # 0
    BY EmptySeq, <2>1
  <2> HIDE DEF n
  <2>3. n > 0
    BY <2>1, <2>2
  <2> QED
    BY <2>1, <2>3
<1>2. ASSUME NEW i \in 1..2 * n PROVE Nibble(i) \in 0..15
  <2>1. (i + 1) \div 2 \in 1..n
    BY <1>1
  <2>2. b[(i + 1) \div 2] \in 0..255
    BY <1>1, <2>1
  <2>3. b[(i + 1) \div 2] \div 16 \in 0..15 /\ b[(i + 1) \div 2] % 16 \in 0..15
    <3>1. \A x \in 0..255 : x \div 16 \in 0..15 /\ x % 16 \in 0..15
      OBVIOUS
    <3> QED
      BY <2>2, <3>1
  <2> QED
    BY <2>3
<1>3. P = [i \in 1..2 * n |-> LowerHex[Nibble(i) + 1]]
  BY DEF PrintHex, HexDigit
<1> HIDE DEF n, Nibble, P
<1>4. /\ \A d \in 0..15 : LowerHex[d + 1] \in DOMAIN Digits /\ Digits[LowerHex[d + 1]] = d
      /\ \A d \in 0..15 : UpperHex[d + 1] \in DOMAIN Digits /\ Digits[UpperHex[d + 1]] = d
  BY DigitMeansNibble
<1>5. DOMAIN s = 1..2 * n /\ \A i \in 1..2 * n : s[i] \in DOMAIN Digits /\ Digits[s[i]] = Nibble(i)
  <2>1. CASE s = P
    BY <2>1, <1>2, <1>3, <1>4
  <2>2. CASE s = Upper(P)
    <3>1. DOMAIN P = 1..2 * n /\ \A i \in 1..2 * n : Digits[P[i]] = Nibble(i)
      BY <1>2, <1>3, <1>4
    <3>2. s = [i \in 1..2 * n |-> UpperHex[Nibble(i) + 1]]
      BY <2>2, <3>1 DEF Upper
    <3> QED
      BY <3>2, <1>2, <1>4
  <2> QED
    BY <2>1, <2>2 DEF P
<1>6. s \in Seq(DOMAIN Digits) /\ Len(s) = 2 * n
  <2>1. \E f : s = [i \in 1..2 * n |-> f[i]]
    <3>1. CASE s = P
      BY <3>1, <1>3
    <3>2. CASE s = Upper(P)
      BY <3>2, <1>5 DEF Upper
    <3> QED
      BY <3>1, <3>2 DEF P
  <2>2. s \in [1..2 * n -> DOMAIN Digits] /\ 2 * n \in Nat
    BY <2>1, <1>1, <1>5
  <2> QED
    BY <2>2
<1>7. HexValid(s)
  BY <1>1, <1>5, <1>6 DEF HexValid
<1>8. HexParse(s) = b
  <2>1. Len(s) \div 2 = n
    BY <1>1, <1>6
  <2>2. HexParse(s) = [j \in 1..n |-> Digits[s[2 * j - 1]] * 16 + Digits[s[2 * j]]]
    BY <2>1 DEF HexParse
  <2>3. ASSUME NEW j \in 1..n PROVE Digits[s[2 * j - 1]] * 16 + Digits[s[2 * j]] = b[j]
    <3>1. 2 * j - 1 \in 1..2 * n /\ 2 * j \in 1..2 * n
      BY <1>1
    <3>2. Digits[s[2 * j - 1]] = Nibble(2 * j - 1) /\ Digits[s[2 * j]] = Nibble(2 * j)
      BY <3>1, <1>5
    <3>3. /\ (2 * j - 1) % 2 = 1 /\ ((2 * j - 1) + 1) \div 2 = j
          /\ (2 * j) % 2 = 0 /\ (2 * j + 1) \div 2 = j
      BY <1>1
    <3>4. Nibble(2 * j - 1) = b[j] \div 16 /\ Nibble(2 * j) = b[j] % 16
      BY <3>3 DEF Nibble
    <3>5. b[j] \in 0..255
      BY <1>1
    <3>6. (b[j] \div 16) * 16 + (b[j] % 16) = b[j]
      BY <3>5, NibblesOfByte
    <3>7. Digits[s[2 * j - 1]] = b[j] \div 16 /\ Digits[s[2 * j]] = b[j] % 16
      BY <3>2, <3>4
    <3> QED
      BY <3>6, <3>7, Zenon
  <2> QED
    BY <1>1, <2>2, <2>3
<1> QED
  BY <1>7, <1>8

(* The blob of a session.                                                  *)
LEMMA BlobType ==
    ASSUME NEW k \in 1..MaxRuns
    PROVE  Blobs[k] \in Seq(0..255) /\ Blobs[k] # << >>
BY EitbAssumption DEF EitbAssumption

LEMMA BlobTells ==
    ASSUME NEW j \in 1..MaxRuns, NEW k \in 1..MaxRuns, Blobs[j] = Blobs[k]
    PROVE  j = k
BY EitbAssumption DEF EitbAssumption, IsInjective

-----------------------------------------------------------------------------
(* Stretches of a file, and the wire. *)

LEMMA Stretch ==
    ASSUME NEW s \in Contents, NEW m \in Nat, NEW n \in Nat, m + n <= Len(s)
    PROVE  /\ SubSeq(s, m + 1, m + n) \in Contents /\ Len(SubSeq(s, m + 1, m + n)) = n
           /\ SubSeq(s, 1, m) \o SubSeq(s, m + 1, m + n) = SubSeq(s, 1, m + n)
<1>1. /\ SubSeq(s, m + 1, m + n) \in Contents
      /\ Len(SubSeq(s, m + 1, m + n)) = n
  BY DEF Contents
<1>2. SubSeq(s, 1, m) \o SubSeq(s, m + 1, m + n) = SubSeq(s, 1, m + n)
  BY ConcatAdjacentSubSeq DEF Contents
<1> QED
  BY <1>1, <1>2

LEMMA WholeStretch ==
    ASSUME NEW s \in Contents
    PROVE  SubSeq(s, 1, Len(s)) = s /\ SubSeq(s, 1, 0) = << >>
  BY SeqEqual DEF Contents

LEMMA WireUnits ==
    ASSUME NEW k \in Nat, NEW n \in Nat
    PROVE  LET w == [i \in 1..n + 1 |-> <<k, i>>]
           IN w \in Contents /\ Len(w) = n + 1 /\ w # Absent
<1> DEFINE w == [i \in 1..n + 1 |-> <<k, i>>]
<1>1. w \in Contents /\ Len(w) = n + 1 /\ w[1] = <<k, 1>>
  BY DEF Contents, Units
<1>2. Absent[1] = <<-1, 0>>
  BY DEF Absent
<1>3. <<k, 1>> # <<-1, 0>>
  OBVIOUS
<1> QED
  BY <1>1, <1>2, <1>3

LEMMA LesserOfTwo ==
    ASSUME NEW a \in Nat, NEW b \in Nat
    PROVE  Min({a, b}) = IF a <= b THEN a ELSE b
<1> DEFINE m == IF a <= b THEN a ELSE b
<1>1. m \in {a, b} /\ \A y \in {a, b} : m <= y
  OBVIOUS
<1>2. ASSUME NEW x \in {a, b}, \A y \in {a, b} : x <= y PROVE x = m
  BY <1>2
<1> QED
  BY <1>1, <1>2 DEF Min

-----------------------------------------------------------------------------
(* One step keeps each part of the invariant. *)

(* Every variable keeps its type.                                         *)
LEMMA TypeStep ==
    ASSUME IInv, [Next]_vars PROVE TypeOK'
<1> USE DEF IInv, TypeOK, Pcs, BeforeWrite, Opening, InFile, WithText, Writing
<1>1. CASE Start
  <2>1. MaxRuns \in Nat /\ << >> \in Contents /\ Absent \in Contents
    BY EitbAssumption DEF EitbAssumption, Contents, Units, Absent
  <2>2. PICK cmd \in {"encrypt", "decrypt"}, profile \in Profiles, in \in Paths, out \in Paths :
            \E hex : run' = [cmd |-> cmd, profile |-> profile, hex |-> hex, in |-> in, out |-> out,
                            number |-> run.number + 1]
    BY <1>1 DEF Start
  <2>3. /\ run'.cmd \in {"encrypt", "decrypt"} /\ run'.profile \in Profiles
        /\ run'.in \in Paths /\ run'.out \in Paths /\ run'.number = run.number + 1
    BY <2>2
  <2>4. run.number + 1 \in 0..MaxRuns
    BY <1>1, <2>1 DEF Start
  <2> QED
    BY <1>1, <2>1, <2>3, <2>4 DEF Start
<1>2. CASE Parse
  BY <1>2 DEF Parse, World, Reading, Return, Fault
<1>3. CASE Open
  BY <1>3 DEF Open, World, Reading, Return, Fault
<1>4. CASE AllocBuffer
  <2>1. FirstCap \in Nat
    BY EitbAssumption DEF EitbAssumption
  <2> QED
    BY <1>4, <2>1 DEF AllocBuffer, World, Return, Fault
<1>5. CASE Grow
  <2>1. cap' \in Nat
    BY <1>5 DEF Grow
  <2> QED
    BY <1>5, <2>1 DEF Grow, World, Return, Fault
<1>6. CASE Fits
  BY <1>6 DEF Fits, World, Reading, Return, Fault
<1>7. CASE Fread
  <2> DEFINE content == files[run.in]
             full == Min({cap - Len(buf), Len(content) - offset})
  <2> HIDE DEF content, full
  <2>1. content \in Contents /\ cap - Len(buf) \in Nat /\ Len(content) - offset \in Nat
    BY <1>7 DEF Fread, ReadInv, FilesInv, Contents, content
  <2>2. PICK n \in 0..full : buf' = buf \o SubSeq(content, offset + 1, offset + n) /\ offset' = offset + n
    BY <1>7 DEF Fread, full, content
  <2>3. full \in Nat /\ offset + full <= Len(content)
    <3>1. full = IF cap - Len(buf) <= Len(content) - offset THEN cap - Len(buf)
                 ELSE Len(content) - offset
      BY <2>1, LesserOfTwo, Zenon DEF full
    <3>2. Len(content) \in Nat
      BY <2>1 DEF Contents
    <3> QED
      BY <2>1, <3>1, <3>2
  <2>4. buf' \in Contents /\ offset' \in Nat
    <3>1. n \in Nat /\ offset + n <= Len(content)
      BY <2>1, <2>3 DEF Contents
    <3>2. SubSeq(content, offset + 1, offset + n) \in Contents
      BY <2>1, <3>1, Stretch
    <3> QED
      BY <3>1, <3>2, <2>2 DEF Contents
  <2> QED
    BY <1>7, <2>4 DEF Fread, World, Fault
<1>8. CASE ReadEnd
  BY <1>8 DEF ReadEnd, World, Reading, Return, Fault
<1>9. CASE InitPipeline
  <2>1. CASE UNCHANGED <<sessions, session>>
    BY <1>9, <2>1 DEF InitPipeline, Reading, Return, Fault
  <2>2. CASE /\ sessions' = Append(sessions, NewSession)
             /\ session' = Len(sessions') /\ pc' = "cipher" /\ UNCHANGED <<exit, faulty>>
    <3>1. NewSession \in Session
      BY DEF Contents, Session, NewSession
    <3>2. sessions' \in Sessions /\ Len(sessions') = Len(sessions) + 1 /\ Len(sessions) \in Nat
      BY <2>2, <3>1 DEF Sessions
    <3> QED
      BY <1>9, <2>2, <3>2 DEF InitPipeline, Reading
  <2> QED
    BY <1>9, <2>1, <2>2 DEF InitPipeline
<1>10. CASE Load
  <2>1. CASE UNCHANGED session
    BY <1>10, <2>1 DEF Load, World, Reading, Return, Fault
  <2>2. CASE \E k \in DOMAIN sessions : session' = k /\ pc' = "cipher" /\ UNCHANGED <<exit, faulty>>
    <3>1. session' \in Nat
      BY <2>2 DEF Sessions
    <3> QED
      BY <1>10, <2>2, <3>1 DEF Load, World, Reading
  <2> QED
    BY <1>10, <2>1, <2>2 DEF Load
<1>11. CASE Encrypt
  <2>1. CASE UNCHANGED <<sessions, result>>
    BY <1>11, <2>1 DEF Encrypt, CipherFails, Reading, Return, Fault
  <2>2. CASE /\ sessions' = [sessions EXCEPT ![session] = [text |-> buf, surface |-> Surface(run.profile)]]
             /\ result' = [i \in 1..Len(buf) + 1 |-> <<session, i>>]
             /\ pc' = "mkdir" /\ UNCHANGED <<exit, faulty>>
    <3>1. sessions' \in Sessions /\ Len(sessions') = Len(sessions)
      <4>1. [text |-> buf, surface |-> Surface(run.profile)] \in Session
        BY DEF Session, Surface, Surfaces
      <4>2. session \in 1..Len(sessions)
        BY <1>11 DEF Encrypt, OutcomeInv, Sessions
      <4> QED
        BY <4>1, <4>2, <2>2, ExceptSeq DEF Sessions
    <3>2. result' \in Contents
      <4>1. Len(buf) \in Nat
        BY DEF Contents
      <4> QED
        BY <4>1, <2>2, WireUnits
    <3> QED
      BY <1>11, <2>2, <3>1, <3>2 DEF Encrypt, Reading
  <2> QED
    BY <1>11, <2>1, <2>2 DEF Encrypt, CipherFails
<1>12. CASE Decrypt
  <2>1. CASE UNCHANGED <<sessions, result>>
    BY <1>12, <2>1 DEF Decrypt, CipherFails, Reading, Return, Fault
  <2>2. CASE /\ result' = sessions[session].text
             /\ pc' = "mkdir" /\ UNCHANGED <<exit, faulty, sessions>>
    <3>1. session \in DOMAIN sessions
      BY <1>12 DEF Decrypt, OutcomeInv
    <3>2. result' \in Contents
      <4>1. sessions[session] \in Session
        BY <3>1 DEF Sessions
      <4> QED
        BY <4>1, <2>2 DEF Session
    <3> QED
      BY <1>12, <2>2, <3>2 DEF Decrypt, Reading
  <2> QED
    BY <1>12, <2>1, <2>2 DEF Decrypt, CipherFails
<1>13. CASE MakeParents
  BY <1>13 DEF MakeParents, WriteFails, World, Reading, Return, Fault
<1>14. CASE Create
  <2>1. << >> \in Contents
    BY DEF Contents
  <2> QED
    BY <1>14, <2>1 DEF Create, WriteFails, Reading, Return, Fault
<1>15. CASE Write
  <2>1. PICK n \in 0..Len(result) : files' = [files EXCEPT ![run.out] = SubSeq(result, 1, n)]
    <3>1. Len(result) \in 0..Len(result) /\ SubSeq(result, 1, Len(result)) = result
      BY WholeStretch DEF Contents
    <3> QED
      BY <1>15, <3>1 DEF Write
  <2>2. SubSeq(result, 1, n) \in Contents
    BY <2>1 DEF Contents
  <2>3. files' \in [Paths -> Contents]
    BY <2>1, <2>2
  <2> QED
    BY <1>15, <2>3 DEF Write, WriteDone, Reading, Return, Fault
<1>16. CASE Save
  <2>1. session \in 1..Len(sessions)
    BY <1>16 DEF Save, OutcomeInv, Encrypted, CmdInv, Sessions
  <2> QED
    BY <1>16, <2>1 DEF Save, PrintBlob, Reading, Return, Fault
<1>17. CASE Finish
  BY <1>17 DEF Finish, World, Reading, Return, Fault
<1>18. CASE UNCHANGED vars
  BY <1>18 DEF vars
<1> QED
  BY <1>1, <1>2, <1>3, <1>4, <1>5, <1>6, <1>7, <1>8, <1>9,
     <1>10, <1>11, <1>12, <1>13, <1>14, <1>15, <1>16, <1>17, <1>18 DEF Next, Step

(* What is acquired and released goes with the step of the run.           *)
LEMMA HeapStep ==
    ASSUME IInv, [Next]_vars PROVE HeapInv'
<1> USE DEF IInv, TypeOK, CmdInv, HeapInv, Holds, Resources, Opening, InFile, Opened, WithText, Writing
<1>1. CASE Start
  BY <1>1 DEF Start, Acquire, Release, Return, OfCaller, World
<1>2. CASE Parse
  BY <1>2 DEF Parse, Acquire, Release, Return, OfCaller, World
<1>3. CASE Open
  BY <1>3 DEF Open, Acquire, Release, Return, OfCaller, World
<1>4. CASE AllocBuffer
  BY <1>4 DEF AllocBuffer, Acquire, Release, Return, OfCaller, World
<1>5. CASE Grow
  BY <1>5 DEF Grow, Acquire, Release, Return, OfCaller, World
<1>6. CASE Fits
  BY <1>6 DEF Fits, Acquire, Release, Return, OfCaller, World
<1>7. CASE Fread
  BY <1>7 DEF Fread, Acquire, Release, Return, OfCaller, World
<1>8. CASE ReadEnd
  BY <1>8 DEF ReadEnd, Acquire, Release, Return, OfCaller, World
<1>9. CASE InitPipeline
  BY <1>9 DEF InitPipeline, Acquire, Release, Return, OfCaller, World
<1>10. CASE Load
  BY <1>10 DEF Load, Acquire, Release, Return, OfCaller, World
<1>11. CASE Encrypt
  BY <1>11 DEF Encrypt, Acquire, Release, Return, OfCaller, World, CipherFails
<1>12. CASE Decrypt
  BY <1>12 DEF Decrypt, Acquire, Release, Return, OfCaller, World, CipherFails
<1>13. CASE MakeParents
  BY <1>13 DEF MakeParents, Acquire, Release, Return, OfCaller, World, WriteFails
<1>14. CASE Create
  BY <1>14 DEF Create, Acquire, Release, Return, OfCaller, World, WriteFails
<1>15. CASE Write
  BY <1>15 DEF Write, Acquire, Release, Return, OfCaller, World, WriteDone
<1>16. CASE Save
  BY <1>16 DEF Save, Acquire, Release, Return, OfCaller, World
<1>17. CASE Finish
  BY <1>17 DEF Finish, Acquire, Release, Return, OfCaller, World
<1>18. CASE UNCHANGED vars
  BY <1>18 DEF vars
<1> QED
  BY <1>1, <1>2, <1>3, <1>4, <1>5, <1>6, <1>7, <1>8, <1>9,
     <1>10, <1>11, <1>12, <1>13, <1>14, <1>15, <1>16, <1>17, <1>18 DEF Next, Step

(* A step belongs to its command, and a session to one run.               *)
LEMMA CmdStep ==
    ASSUME IInv, [Next]_vars PROVE CmdInv'
<1> USE DEF IInv, TypeOK, CmdInv, Opening, InFile, Opened, WithText, Writing, BeforeWrite, Pcs
<1>1. CASE Start
  <2>1. /\ run'.cmd \in {"encrypt", "decrypt"} /\ run'.number = run.number + 1
        /\ Len(sessions) \in Nat
    BY <1>1 DEF Start, Sessions
  <2> QED
    BY <1>1, <2>1 DEF Start
<1>2. CASE Parse
  BY <1>2 DEF Parse, Return, World
<1>3. CASE Open
  BY <1>3 DEF Open, Return, World
<1>4. CASE AllocBuffer
  BY <1>4 DEF AllocBuffer, Return, World
<1>5. CASE Grow
  BY <1>5 DEF Grow, Return, World
<1>6. CASE Fits
  BY <1>6 DEF Fits, Return, World
<1>7. CASE Fread
  BY <1>7 DEF Fread, Return, World
<1>8. CASE ReadEnd
  BY <1>8 DEF ReadEnd, Return, World
<1>9. CASE InitPipeline
  <2>1. Len(sessions') <= Len(sessions) + 1 /\ Len(sessions) \in Nat
    BY <1>9 DEF InitPipeline, Sessions
  <2> QED
    BY <1>9, <2>1 DEF InitPipeline, Return
<1>10. CASE Load
  BY <1>10 DEF Load, Return, World
<1>11. CASE Encrypt
  <2>1. Len(sessions') = Len(sessions)
    <3>1. sessions' = sessions \/ \E s : sessions' = [sessions EXCEPT ![session] = s]
      BY <1>11 DEF Encrypt, CipherFails
    <3> QED
      BY <3>1 DEF Sessions
  <2> QED
    BY <1>11, <2>1 DEF Encrypt, Return, CipherFails
<1>12. CASE Decrypt
  BY <1>12 DEF Decrypt, Return, World, CipherFails
<1>13. CASE MakeParents
  BY <1>13 DEF MakeParents, Return, World, WriteFails
<1>14. CASE Create
  BY <1>14 DEF Create, Return, World, WriteFails
<1>15. CASE Write
  BY <1>15 DEF Write, Return, World, WriteDone
<1>16. CASE Save
  BY <1>16 DEF Save, Return, World, PrintBlob
<1>17. CASE Finish
  BY <1>17 DEF Finish, Return, World
<1>18. CASE UNCHANGED vars
  BY <1>18 DEF vars
<1> QED
  BY <1>1, <1>2, <1>3, <1>4, <1>5, <1>6, <1>7, <1>8, <1>9,
     <1>10, <1>11, <1>12, <1>13, <1>14, <1>15, <1>16, <1>17, <1>18 DEF Next, Step

(* No file changes before the output is created, and no other ever does.   *)
LEMMA FilesStep ==
    ASSUME IInv, [Next]_vars PROVE FilesInv'
<1> USE DEF IInv, TypeOK, FilesInv, FilesUntouched, Opening, InFile, Opened, WithText, Writing, BeforeWrite, Pcs
<1>1. CASE Start
  BY <1>1 DEF Start, Return, World
<1>2. CASE Parse
  BY <1>2 DEF Parse, Return, World
<1>3. CASE Open
  BY <1>3 DEF Open, Return, World
<1>4. CASE AllocBuffer
  BY <1>4 DEF AllocBuffer, Return, World
<1>5. CASE Grow
  BY <1>5 DEF Grow, Return, World
<1>6. CASE Fits
  BY <1>6 DEF Fits, Return, World
<1>7. CASE Fread
  BY <1>7 DEF Fread, Return, World
<1>8. CASE ReadEnd
  BY <1>8 DEF ReadEnd, Return, World
<1>9. CASE InitPipeline
  BY <1>9 DEF InitPipeline, Return, World
<1>10. CASE Load
  BY <1>10 DEF Load, Return, World
<1>11. CASE Encrypt
  <2>1. [i \in 1..Len(buf) + 1 |-> <<session, i>>] # Absent
    <3>1. Len(buf) \in Nat
      BY DEF Contents
    <3> QED
      BY <3>1, WireUnits
  <2> QED
    BY <1>11, <2>1 DEF Encrypt, Return, CipherFails
<1>12. CASE Decrypt
  <2>1. Opens => sessions[session].text # Absent
    <3>1. Surface(run.profile) \in Surfaces
      BY DEF Surface, Surfaces
    <3> QED
      BY <1>12, <3>1 DEF Decrypt, Opens, SessionInv, OutcomeInv
  <2> QED
    BY <1>12, <2>1 DEF Decrypt, Return, CipherFails
<1>13. CASE MakeParents
  BY <1>13 DEF MakeParents, Return, World, WriteFails
<1>14. CASE Create
  BY <1>14 DEF Create, Return, World, WriteFails
<1>15. CASE Write
  BY <1>15 DEF Write, Return, World, WriteDone
<1>16. CASE Save
  BY <1>16 DEF Save, Return, World, PrintBlob
<1>17. CASE Finish
  BY <1>17 DEF Finish, Return, World
<1>18. CASE UNCHANGED vars
  BY <1>18 DEF vars
<1> QED
  BY <1>1, <1>2, <1>3, <1>4, <1>5, <1>6, <1>7, <1>8, <1>9,
     <1>10, <1>11, <1>12, <1>13, <1>14, <1>15, <1>16, <1>17, <1>18 DEF Next, Step

(* The buffer keeps holding the stretch read so far, within its block.     *)
LEMMA ReadStep ==
    ASSUME IInv, [Next]_vars PROVE ReadInv'
<1> USE DEF IInv, TypeOK, CmdInv, ReadInv, Opening, InFile, Opened, WithText, Writing, BeforeWrite, Pcs
<1>1. CASE Start
  <2>1. /\ run'.in \in Paths /\ before'[run'.in] \in Contents
        /\ pc' \in {"parse", "open"} /\ buf' = << >> /\ offset' = 0 /\ ~ferror'
    BY <1>1 DEF Start
  <2>2. Len(before'[run'.in]) \in Nat /\ SubSeq(before'[run'.in], 1, 0) = << >>
    BY <2>1, WholeStretch DEF Contents
  <2> QED
    BY <2>1, <2>2
<1>2. CASE Parse
  BY <1>2 DEF Parse, Return, World, Reading
<1>3. CASE Open
  BY <1>3 DEF Open, Return, World, Reading, FilesInv
<1>4. CASE AllocBuffer
  <2>1. FirstCap \in Nat /\ FirstCap > 0
    BY EitbAssumption DEF EitbAssumption
  <2>2. before[run.in] \in Contents /\ Len(before[run.in]) \in Nat
    BY DEF Contents
  <2>3. Len(buf) = 0
    BY <1>4, <2>2, WholeStretch DEF AllocBuffer
  <2> QED
    BY <1>4, <2>1, <2>2, <2>3 DEF AllocBuffer, World, Return
<1>5. CASE Grow
  BY <1>5 DEF Grow, Return, World, Reading
<1>6. CASE Fits
  <2>1. Len(buf) \in Nat
    BY DEF Contents
  <2> QED
    BY <1>6, <2>1 DEF Fits, Full, World, Reading
<1>7. CASE Fread
  <2> DEFINE content == files[run.in]
             full == Min({cap - Len(buf), Len(content) - offset})
  <2> HIDE DEF content, full
  <2>0. pc = "fread" /\ before[run.in] = content /\ content \in Contents
    BY <1>7 DEF Fread, FilesInv, content
  <2>1. /\ Len(content) \in Nat /\ Len(buf) \in Nat
        /\ cap - Len(buf) \in Nat /\ cap - Len(buf) > 0 /\ Len(content) - offset \in Nat
    BY <2>0 DEF Contents
  <2>2. PICK n \in 0..full :
            /\ \/ n = full /\ UNCHANGED <<ferror, faulty>>
               \/ Fault /\ ferror' = TRUE
            /\ buf' = buf \o SubSeq(content, offset + 1, offset + n)
            /\ offset' = offset + n
            /\ pc' = IF n = 0 THEN "readend" ELSE "read"
    BY <1>7 DEF Fread, full, content
  <2>3. full = IF cap - Len(buf) <= Len(content) - offset THEN cap - Len(buf)
               ELSE Len(content) - offset
    BY <2>1, LesserOfTwo, Zenon DEF full
  <2>4. n \in Nat /\ offset + n <= Len(content) /\ Len(buf) + n <= cap
    BY <2>1, <2>3
  <2>5. /\ SubSeq(content, offset + 1, offset + n) \in Contents
        /\ Len(SubSeq(content, offset + 1, offset + n)) = n
        /\ SubSeq(content, 1, offset) \o SubSeq(content, offset + 1, offset + n)
               = SubSeq(content, 1, offset + n)
    <3>1. \A m2, n2 \in Nat : m2 + n2 <= Len(content) =>
              /\ SubSeq(content, m2 + 1, m2 + n2) \in Contents
              /\ Len(SubSeq(content, m2 + 1, m2 + n2)) = n2
              /\ SubSeq(content, 1, m2) \o SubSeq(content, m2 + 1, m2 + n2)
                     = SubSeq(content, 1, m2 + n2)
      BY <2>0, Stretch
    <3> QED
      BY <2>4, <3>1
  <2>6. buf = SubSeq(content, 1, offset)
    BY <2>0
  <2>7. buf' = SubSeq(content, 1, offset') /\ Len(buf') = Len(buf) + n
    <3>1. \A a, b \in Contents : Len(a \o b) = Len(a) + Len(b)
      BY DEF Contents
    <3>2. Len(buf \o SubSeq(content, offset + 1, offset + n)) = Len(buf) + n
      BY <3>1, <2>5
    <3> QED
      BY <3>2, <2>2, <2>5, <2>6
  <2>8. /\ before'[run'.in] = content /\ content # Absent /\ cap' = cap
        /\ pc' \in {"read", "readend"} /\ cap > 0
    BY <1>7, <2>0, <2>2 DEF Fread, World
  <2>9. pc' = "readend" /\ ~ferror' => offset' = Len(content)
    BY <2>1, <2>2, <2>3, <2>4
  <2>10. ferror' => faulty'
    <3>1. CASE UNCHANGED <<ferror, faulty>>
      BY <1>7, <3>1 DEF Fread
    <3>2. CASE Fault
      BY <3>2 DEF Fault
    <3> QED
      BY <2>2, <3>1, <3>2
  <2> QED
    BY <2>1, <2>2, <2>4, <2>7, <2>8, <2>9, <2>10
<1>8. CASE ReadEnd
  BY <1>8 DEF ReadEnd, Return, World, Reading
<1>9. CASE InitPipeline
  BY <1>9 DEF InitPipeline, Return, World, Reading
<1>10. CASE Load
  BY <1>10 DEF Load, Return, World, Reading
<1>11. CASE Encrypt
  BY <1>11 DEF Encrypt, Return, World, CipherFails, Reading
<1>12. CASE Decrypt
  BY <1>12 DEF Decrypt, Return, World, CipherFails, Reading
<1>13. CASE MakeParents
  BY <1>13 DEF MakeParents, Return, World, WriteFails, Reading
<1>14. CASE Create
  BY <1>14 DEF Create, Return, World, WriteFails, Reading
<1>15. CASE Write
  BY <1>15 DEF Write, Return, World, WriteDone, Reading
<1>16. CASE Save
  <2>1. faulty' \in {TRUE, faulty}
    BY <1>16, Zenon DEF Save, PrintBlob, Fault
  <2> QED
    BY <1>16, <2>1 DEF Save, Return, Reading
<1>17. CASE Finish
  BY <1>17 DEF Finish, Return, World, Reading
<1>18. CASE UNCHANGED vars
  BY <1>18 DEF vars, Reading
<1> QED
  BY <1>1, <1>2, <1>3, <1>4, <1>5, <1>6, <1>7, <1>8, <1>9,
     <1>10, <1>11, <1>12, <1>13, <1>14, <1>15, <1>16, <1>17, <1>18 DEF Next, Step

(* What is encrypted is a file.                                            *)
LEMMA SessionStep ==
    ASSUME IInv, [Next]_vars PROVE SessionInv'
<1> USE DEF IInv, TypeOK, SessionInv
<1>1. CASE Start
  BY <1>1 DEF Start, Return, World
<1>2. CASE Parse
  BY <1>2 DEF Parse, Return, World
<1>3. CASE Open
  BY <1>3 DEF Open, Return, World
<1>4. CASE AllocBuffer
  BY <1>4 DEF AllocBuffer, Return, World
<1>5. CASE Grow
  BY <1>5 DEF Grow, Return, World
<1>6. CASE Fits
  BY <1>6 DEF Fits, Return, World
<1>7. CASE Fread
  BY <1>7 DEF Fread, Return, World
<1>8. CASE ReadEnd
  BY <1>8 DEF ReadEnd, Return, World
<1>9. CASE InitPipeline
  <2>1. CASE UNCHANGED sessions
    BY <2>1
  <2>2. CASE sessions' = Append(sessions, NewSession)
    <3>1. NewSession \in Session
      BY DEF Session, Contents, NewSession
    <3> HIDE DEF Sessions
    <3>2. /\ Len(sessions') = Len(sessions) + 1 /\ DOMAIN sessions' = 1..Len(sessions')
          /\ Len(sessions) \in Nat /\ DOMAIN sessions = 1..Len(sessions)
          /\ \A k \in 1..Len(sessions) : sessions'[k] = sessions[k]
          /\ sessions'[Len(sessions) + 1].surface = "none"
      BY <2>2, <3>1 DEF Sessions, NewSession
    <3>3. "none" \notin Surfaces
      BY DEF Surfaces
    <3>4. ASSUME NEW k \in DOMAIN sessions', sessions'[k].surface \in Surfaces
          PROVE  sessions'[k].text # Absent
      <4>1. k \in 1..Len(sessions)
        BY <3>2, <3>3, <3>4
      <4> QED
        BY <3>2, <3>4, <4>1
    <3> QED
      BY <3>4
  <2> QED
    BY <1>9, <2>1, <2>2 DEF InitPipeline
<1>10. CASE Load
  BY <1>10 DEF Load, Return, World
<1>11. CASE Encrypt
  <2>1. buf = before[run.in] /\ before[run.in] # Absent
    BY <1>11, WholeStretch DEF Encrypt, ReadInv, WithText, BeforeWrite, CmdInv
  <2> QED
    BY <1>11, <2>1 DEF Encrypt, CipherFails, Sessions
<1>12. CASE Decrypt
  BY <1>12 DEF Decrypt, Return, World, CipherFails
<1>13. CASE MakeParents
  BY <1>13 DEF MakeParents, Return, World, WriteFails
<1>14. CASE Create
  BY <1>14 DEF Create, Return, World, WriteFails
<1>15. CASE Write
  BY <1>15 DEF Write, Return, World, WriteDone
<1>16. CASE Save
  BY <1>16 DEF Save, Return, World, PrintBlob
<1>17. CASE Finish
  BY <1>17 DEF Finish, Return, World
<1>18. CASE UNCHANGED vars
  BY <1>18 DEF vars
<1> QED
  BY <1>1, <1>2, <1>3, <1>4, <1>5, <1>6, <1>7, <1>8, <1>9,
     <1>10, <1>11, <1>12, <1>13, <1>14, <1>15, <1>16, <1>17, <1>18 DEF Next, Step

(* There are no more sessions than runs, and every one has a blob.         *)
LEMMA SessionNumbers ==
    ASSUME IInv PROVE DOMAIN sessions \subseteq 1..MaxRuns
<1>1. Len(sessions) \in Nat /\ DOMAIN sessions = 1..Len(sessions)
  BY DEF IInv, TypeOK, Sessions
<1>2. run.number <= MaxRuns /\ run.number \in Int /\ MaxRuns \in Int
  BY EitbAssumption DEF EitbAssumption, IInv, TypeOK
<1>3. Len(sessions) <= MaxRuns
  BY <1>1, <1>2 DEF IInv, CmdInv
<1> QED
  BY <1>1, <1>2, <1>3

(* What the cipher call gave is what the output file ends up with.         *)
LEMMA OutcomeStep ==
    ASSUME IInv, [Next]_vars PROVE OutcomeInv'
<1> USE DEF IInv, TypeOK, CmdInv, OutcomeInv, Opening, InFile, Opened, WithText, Writing, BeforeWrite, Pcs
<1>1. CASE Start
  BY <1>1 DEF Start, Return, World, Successful
<1>2. CASE Parse
  BY <1>2 DEF Parse, Return, World, Successful
<1>3. CASE Open
  BY <1>3 DEF Open, Return, World, Successful
<1>4. CASE AllocBuffer
  BY <1>4 DEF AllocBuffer, Return, World, Successful
<1>5. CASE Grow
  BY <1>5 DEF Grow, Return, World, Successful
<1>6. CASE Fits
  BY <1>6 DEF Fits, Return, World, Successful
<1>7. CASE Fread
  BY <1>7 DEF Fread, Return, World, Successful
<1>8. CASE ReadEnd
  BY <1>8 DEF ReadEnd, Return, World, Successful
<1>9. CASE InitPipeline
  <2>1. pc' = "cipher" => session' \in DOMAIN sessions'
    <3>1. CASE UNCHANGED sessions
      BY <1>9, <3>1 DEF InitPipeline, Return
    <3>2. CASE sessions' = Append(sessions, NewSession)
               /\ session' = Len(sessions')
      <4>1. NewSession \in Session
        BY DEF Session, Contents, NewSession
      <4> QED
        BY <3>2, <4>1 DEF Sessions
    <3> QED
      BY <1>9, <3>1, <3>2 DEF InitPipeline
  <2> QED
    BY <1>9, <2>1 DEF InitPipeline, Return, Successful
<1>10. CASE Load
  <2>1. CASE pc' = "idle" /\ exit' = 1
    BY <1>10, <2>1 DEF Load, Successful
  <2>2. CASE \E k \in DOMAIN sessions :
                 /\ HexParse(run.hex) = Blobs[k]
                 /\ session' = k /\ pc' = "cipher" /\ UNCHANGED <<exit, faulty>>
    <3>1. PICK k \in DOMAIN sessions :
              HexParse(run.hex) = Blobs[k] /\ session' = k /\ pc' = "cipher"
      BY <2>2
    <3> QED
      BY <1>10, <3>1 DEF Load, World, Successful
  <2> QED
    BY <1>10, <2>1, <2>2 DEF Load, Return
<1>11. CASE Encrypt
  <2>1. CASE pc' = "idle" /\ exit' = 1
    BY <1>11, <2>1 DEF Encrypt, Successful
  <2>2. CASE /\ sessions' = [sessions EXCEPT ![session] = [text |-> buf, surface |-> Surface(run.profile)]]
             /\ result' = [i \in 1..Len(buf) + 1 |-> <<session, i>>]
             /\ pc' = "mkdir" /\ UNCHANGED <<exit, faulty>>
    <3>1. buf = before[run.in]
      BY <1>11, WholeStretch DEF Encrypt, ReadInv, WithText, BeforeWrite
    <3>2. session \in DOMAIN sessions
      BY <1>11 DEF Encrypt
    <3>3. DOMAIN sessions' = DOMAIN sessions
          /\ sessions'[session] = [text |-> buf, surface |-> Surface(run.profile)]
      BY <2>2, <3>2 DEF Sessions
    <3>4. Encrypted'
      BY <1>11, <2>2, <3>1, <3>2, <3>3 DEF Encrypt, Encrypted, Wire
    <3> QED
      BY <1>11, <2>2, <3>4 DEF Encrypt, Successful
  <2> QED
    BY <1>11, <2>1, <2>2 DEF Encrypt, CipherFails, Return
<1>12. CASE Decrypt
  <2>1. CASE pc' = "idle" /\ exit' = 1
    BY <1>12, <2>1 DEF Decrypt, Successful
  <2>2. CASE /\ Opens /\ result' = sessions[session].text
             /\ pc' = "mkdir" /\ UNCHANGED <<exit, faulty, sessions>>
    <3>1. buf = before[run.in]
      BY <1>12, WholeStretch DEF Decrypt, ReadInv, WithText, BeforeWrite
    <3>2. session \in DOMAIN sessions
      BY <1>12 DEF Decrypt
    <3>3. sessions[session] = [text |-> sessions[session].text, surface |-> Surface(run.profile)]
      <4>1. sessions[session] \in Session
        BY <3>2 DEF Sessions
      <4> QED
        BY <4>1, <2>2 DEF Opens, Session
    <3>4. Decrypted'
      BY <1>12, <2>2, <3>1, <3>3 DEF Decrypt, Opens, Decrypted, Wire
    <3> QED
      BY <1>12, <2>2, <3>4 DEF Decrypt, Successful
  <2> QED
    BY <1>12, <2>1, <2>2 DEF Decrypt, CipherFails, Return
<1>13. CASE MakeParents
  BY <1>13 DEF MakeParents, Return, World, WriteFails, Successful, Encrypted, Decrypted, Wire
<1>14. CASE Create
  BY <1>14 DEF Create, Return, World, WriteFails, Successful, Encrypted, Decrypted, Wire
<1>15. CASE Write
  BY <1>15 DEF Write, Return, World, WriteDone, Successful, Encrypted, Decrypted, Wire
<1>16. CASE Save
  <2>1. /\ pc = "save" /\ run.cmd = "encrypt"
        /\ UNCHANGED <<files, sessions, run, before, session, result>>
        /\ pc' = "done" \/ (pc' = "idle" /\ exit' = 1)
    BY <1>16 DEF Save, Return
  <2>2. pc' = "done" /\ ~faulty' => PrintHex(Blobs[session]) \in printed'
    <3>1. ASSUME pc' = "done" PROVE PrintBlob
      BY <1>16, <3>1 DEF Save, Return
    <3>2. PrintBlob => faulty' \/ PrintHex(Blobs[session]) \in printed'
      BY Zenon DEF PrintBlob, Fault
    <3> QED
      BY <3>1, <3>2
  <2>3. Encrypted /\ files[run.out] = result
    BY <2>1
  <2>4. Encrypted'
    BY <2>1, <2>3 DEF Encrypted, Wire
  <2>5. ~Successful' \/ pc' = "done"
    BY <2>1 DEF Successful
  <2> QED
    BY <2>1, <2>2, <2>3, <2>4, <2>5 DEF Successful
<1>17. CASE Finish
  BY <1>17 DEF Finish, Return, World, Successful, Encrypted, Decrypted, Wire
<1>18. CASE UNCHANGED vars
  BY <1>18 DEF vars, Successful, Encrypted, Decrypted, Wire
<1> QED
  BY <1>1, <1>2, <1>3, <1>4, <1>5, <1>6, <1>7, <1>8, <1>9,
     <1>10, <1>11, <1>12, <1>13, <1>14, <1>15, <1>16, <1>17, <1>18 DEF Next, Step

(* A decrypt that has what it takes fails only by a fault.                 *)
LEMMA RecoverStep ==
    ASSUME IInv, [Next]_vars PROVE RecoverInv'
<1> USE DEF IInv, TypeOK, CmdInv, RecoverInv, Opening, InFile, Opened, WithText, Writing, BeforeWrite, Pcs
<1>s. ASSUME UNCHANGED <<run, before, printed, sessions>> PROVE Recoverable' <=> Recoverable
  BY <1>s DEF Recoverable, Wire
<1>r. ASSUME Recoverable
      PROVE  \E k \in DOMAIN sessions :
                 /\ HexValid(run.hex) /\ HexParse(run.hex) = Blobs[k]
                 /\ before[run.in] = Wire(k) /\ before[run.in] # Absent
                 /\ sessions[k].surface = Surface(run.profile)
                 /\ 2 * Len(before[run.in]) <= SizeMax
  <2>1. PICK k \in DOMAIN sessions :
            /\ run.hex \in {PrintHex(Blobs[k]), Upper(PrintHex(Blobs[k]))}
            /\ before[run.in] = Wire(k) /\ sessions[k].surface = Surface(run.profile)
            /\ 2 * Len(Wire(k)) <= SizeMax
    BY <1>r DEF Recoverable
  <2>3. k \in 1..MaxRuns
    BY SessionNumbers
  <2>4. HexValid(run.hex) /\ HexParse(run.hex) = Blobs[k]
    BY <2>1, <2>3, BlobType, PrintedParses
  <2>5. Wire(k) # Absent
    <3>1. sessions[k] \in Session
      BY <2>1 DEF Sessions
    <3>2. k \in Nat /\ Len(sessions[k].text) \in Nat
      BY <2>3, <3>1 DEF Session, Contents
    <3> QED
      BY <3>2, WireUnits DEF Wire
  <2> QED
    BY <2>1, <2>4, <2>5
<1>1. CASE Start
  BY <1>1 DEF Start, Return, World, Recoverable
<1>2. CASE Parse
  BY <1>2, <1>s, <1>r DEF Parse, Return, World, Fault
<1>3. CASE Open
  BY <1>3, <1>s, <1>r DEF Open, Return, World, Fault, FilesInv
<1>4. CASE AllocBuffer
  BY <1>4, <1>s, <1>r DEF AllocBuffer, Return, World, Fault
<1>5. CASE Grow
  <2>1. CASE TooLarge
    <3>1. ~(2 * Len(before[run.in]) <= SizeMax)
      <4>1. /\ offset <= Len(before[run.in]) /\ buf = SubSeq(before[run.in], 1, offset)
            /\ before[run.in] \in Contents
        BY <1>5 DEF Grow, ReadInv
      <4>2. Len(buf) = offset /\ Len(before[run.in]) \in Nat
        BY <4>1 DEF Contents
      <4>3. cap = Len(buf) /\ 2 * cap > SizeMax /\ SizeMax \in Nat
        BY <1>5, <2>1, EitbAssumption DEF Grow, Full, TooLarge, EitbAssumption
      <4> QED
        BY <4>1, <4>2, <4>3
    <3> QED
      BY <1>5, <2>1, <3>1, <1>s, <1>r DEF Grow, World
  <2>2. CASE ~TooLarge
    BY <1>5, <2>2, <1>s DEF Grow, Return, World, Fault
  <2> QED
    BY <2>1, <2>2
<1>6. CASE Fits
  BY <1>6, <1>s, <1>r DEF Fits, Return, World, Fault
<1>7. CASE Fread
  BY <1>7, <1>s, <1>r DEF Fread, Return, World, Fault
<1>8. CASE ReadEnd
  BY <1>8, <1>s, <1>r DEF ReadEnd, Return, World, Fault, ReadInv
<1>9. CASE InitPipeline
  BY <1>9 DEF InitPipeline, Return, World, Recoverable
<1>10. CASE Load
  BY <1>10, <1>s, <1>r DEF Load, Return, World, Fault
<1>11. CASE Encrypt
  BY <1>11 DEF Encrypt, Return, World, CipherFails, Recoverable
<1>12. CASE Decrypt
  <2>1. CASE ~Opens
    <3>1. buf = before[run.in]
      BY <1>12, WholeStretch DEF Decrypt, ReadInv
    <3>2. session \in DOMAIN sessions /\ HexParse(run.hex) = Blobs[session]
      BY <1>12 DEF Decrypt, OutcomeInv
    <3>4. ~Recoverable
      <4> SUFFICES ASSUME Recoverable PROVE FALSE
        OBVIOUS
      <4>1. PICK k \in DOMAIN sessions : /\ HexParse(run.hex) = Blobs[k]
                                         /\ before[run.in] = Wire(k)
                                         /\ sessions[k].surface = Surface(run.profile)
        BY <1>r
      <4>2. k \in 1..MaxRuns /\ session \in 1..MaxRuns /\ Blobs[k] = Blobs[session]
        BY <3>2, <4>1, SessionNumbers
      <4>3. k = session
        BY <4>2, BlobTells
      <4> QED
        BY <2>1, <3>1, <4>1, <4>3 DEF Opens
    <3> QED
      BY <1>12, <3>4, <1>s DEF Decrypt, CipherFails
  <2>2. CASE Opens
    BY <1>12, <2>2, <1>s DEF Decrypt, CipherFails, Return, Fault
  <2> QED
    BY <2>1, <2>2
<1>13. CASE MakeParents
  BY <1>13, <1>s, <1>r DEF MakeParents, Return, World, Fault, WriteFails
<1>14. CASE Create
  BY <1>14, <1>s, <1>r DEF Create, Return, World, Fault, WriteFails
<1>15. CASE Write
  BY <1>15, <1>s, <1>r DEF Write, Return, World, Fault, WriteDone
<1>16. CASE Save
  BY <1>16 DEF Save, Return, World, PrintBlob, Recoverable
<1>17. CASE Finish
  BY <1>17, <1>s, <1>r DEF Finish, Return, World, Fault
<1>18. CASE UNCHANGED vars
  BY <1>18, <1>s DEF vars
<1> QED
  BY <1>1, <1>2, <1>3, <1>4, <1>5, <1>6, <1>7, <1>8, <1>9,
     <1>10, <1>11, <1>12, <1>13, <1>14, <1>15, <1>16, <1>17, <1>18 DEF Next, Step

-----------------------------------------------------------------------------
LEMMA InitEstablishes == ASSUME Init PROVE IInv
<1> USE DEF Init, NoRun
<1>1. Text(TextLen) \in Contents /\ Absent \in Contents /\ << >> \in Contents
  BY EitbAssumption DEF EitbAssumption, Text, Absent, Contents, Units
<1>2. files \in [Paths -> Contents] /\ before = files
  BY <1>1
<1>3. TypeOK
  <2>1. /\ run.cmd = "none" /\ run.profile \in Profiles /\ run.in \in Paths /\ run.out \in Paths
        /\ run.number = 0 /\ 0 \in 0..MaxRuns
    BY EitbAssumption DEF EitbAssumption, Surfaces
  <2>2. sessions \in Sessions
    BY DEF Sessions
  <2> QED
    BY <1>1, <1>2, <2>1, <2>2 DEF TypeOK, Pcs
<1>4. HeapInv
  BY DEF HeapInv, Holds, NothingHeld, Opening, InFile, Opened, WithText, Writing
<1>5. CmdInv
  BY DEF CmdInv
<1>6. FilesInv /\ ReadInv /\ SessionInv
  BY DEF FilesInv, FilesUntouched, ReadInv, SessionInv, BeforeWrite, Opening, InFile,
         Opened, WithText, Writing
<1>7. OutcomeInv /\ RecoverInv
  BY DEF OutcomeInv, RecoverInv, Successful, Writing
<1> QED
  BY <1>3, <1>4, <1>5, <1>6, <1>7 DEF IInv

LEMMA EitbInvariant == Spec => []IInv
<1>1. Init => IInv
  BY InitEstablishes
<1>2. IInv /\ [Next]_vars => IInv'
  <2> SUFFICES ASSUME IInv, [Next]_vars PROVE IInv'
    OBVIOUS
  <2>1. TypeOK' /\ HeapInv' /\ CmdInv' /\ FilesInv'
    BY TypeStep, HeapStep, CmdStep, FilesStep
  <2>2. ReadInv' /\ SessionInv' /\ OutcomeInv' /\ RecoverInv'
    BY ReadStep, SessionStep, OutcomeStep, RecoverStep
  <2> QED
    BY <2>1, <2>2 DEF IInv
<1> QED
  BY <1>1, <1>2, PTL DEF Spec

(* Whatever fails in main, a run returns with its buffers, the blob, the   *)
(* pipeline and the file released, none of them twice.                     *)
THEOREM EitbKeepsNothing == Spec => []NothingKept
<1>1. IInv => NothingKept
  BY DEF IInv, HeapInv, Holds, NothingKept, NothingHeld, Opening, InFile, Opened, WithText,
         Writing
<1> QED
  BY <1>1, EitbInvariant, PTL

(* Until the cipher call has succeeded no file changes, and no file but    *)
(* the output ever does: read_file, the calls and write_file in this order.*)
THEOREM EitbTouchesOutputOnly == Spec => []FilesUntouched
<1>1. IInv => FilesUntouched
  BY DEF IInv, FilesInv
<1> QED
  BY <1>1, EitbInvariant, PTL

(* An encrypt that exits 0 has written the wire of the whole input file,   *)
(* and the hex of the blob that opens it went to stderr, in cmd_encrypt;   *)
(* it arrived unless a print failed, which cmd_encrypt does not look at.   *)
THEOREM EitbEncryptsRecoverably == Spec => []EncryptedMeansRecoverable
<1>1. IInv => EncryptedMeansRecoverable
  BY DEF IInv, OutcomeInv, EncryptedMeansRecoverable, Succeeded, Over, Successful, Encrypted
<1> QED
  BY <1>1, EitbInvariant, PTL

(* A decrypt that exits 0 has restored a whole text that was encrypted     *)
(* under its blob and on its surface, in cmd_decrypt.                      *)
THEOREM EitbDecryptsWhole == Spec => []DecryptedMeansRestored
<1>1. IInv => DecryptedMeansRestored
  BY DEF IInv, OutcomeInv, DecryptedMeansRestored, Succeeded, Over, Successful, Decrypted
<1> QED
  BY <1>1, EitbInvariant, PTL

(* The hex of a blob of any bytes and the wire that goes with it, decrypt  *)
(* takes, in small or in capital digits and under any name of the kind it  *)
(* was encrypted under: only a fault or a file beyond half of SIZE_MAX     *)
(* makes it fail.                                                          *)
THEOREM EitbRecovers == Spec => []Recovers
<1>1. IInv => Recovers
  BY DEF IInv, RecoverInv, Recoverable, Recovers, Over, Surface
<1> QED
  BY <1>1, EitbInvariant, PTL
===============================================================================
