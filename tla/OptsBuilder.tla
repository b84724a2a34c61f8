----------------------------- MODULE OptsBuilder -----------------------------
(***************************************************************************)
(* The builder of the opts query string (src/itb_opts.c): key=value pairs, *)
(* percent-encoded and joined by '&', in a block that grows by doubling.   *)
(*                                                                         *)
(* Memory is a list of blocks of bytes; a byte is a one-character string,  *)
(* Nul, or Junk (what malloc hands out).  size_t is Width bits wide and    *)
(* its sums wrap around.  The four unsafe characters stand for every       *)
(* character url_safe rejects: they are the ones a reader of the query     *)
(* would take for structure, and one it would not.                         *)
(***************************************************************************)
EXTENDS Integers, Sequences, SequencesExt, FiniteSetsExt

CONSTANTS
    Width,       \* bits of size_t
    FirstCap,    \* the initial capacity, 64 in the code
    Strings,     \* the keys and values, sequences of characters
    MaxSets,     \* bound of the model: pairs stored
    MallocFails  \* whether malloc may fail

SizeMax == 2 ^ Width - 1
Hex == [c \in {"&", "=", "%", " "} |->
            CASE c = "&" -> <<"2", "6">> [] c = "=" -> <<"3", "D">>
              [] c = "%" -> <<"2", "5">> [] c = " " -> <<"2", "0">>]

Null == <<"null">> \* no element of Strings
Nul == "nul"
Junk == "junk"

(* The guard of itb_opts_set sees every sum that wraps as long as no       *)
(* string encodes to within three bytes of the whole address space.        *)
ASSUME OptsAssumption ==
    /\ Width \in Nat /\ SizeMax \in Nat /\ FirstCap \in 1..SizeMax
    /\ MaxSets \in Nat /\ MallocFails \in BOOLEAN
    /\ Null \notin Strings
    /\ \A s \in Strings : s \in Seq(STRING \ {Nul}) /\ 3 * Len(s) + 3 <= SizeMax

VARIABLES
    alive,    \* whether the application holds a builder
    blocks,   \* every block the builder ever had, [bytes, live]
    buf, len, cap,
    pairs,    \* the pairs whose itb_opts_set returned OK
    status    \* what the last call returned

optsVars == <<alive, blocks, buf, len, cap, pairs, status>>

OptsInit ==
    /\ alive = FALSE /\ blocks = << >> /\ buf = 0 /\ len = 0 /\ cap = 0
    /\ pairs = << >> /\ status = "none"

Wrap(n) == n % (SizeMax + 1)

-----------------------------------------------------------------------------
(* Percent-encoding. *)

(* Mutant: '%' crosses unescaped. *)
UrlSafe_Percent(c) == c \notin DOMAIN Hex \ {"%"}

UrlSafe(c) == c \notin DOMAIN Hex

(* enc_write; the Nul snprintf leaves after an escape is overwritten by    *)
(* the byte that follows, the terminator at the latest.                    *)
Encode(s) ==
    FlattenSeq([i \in 1..Len(s) |-> IF UrlSafe(s[i]) THEN <<s[i]>> ELSE <<"%">> \o Hex[s[i]]])

EncLen(s) == Wrap(Len(Encode(s)))

-----------------------------------------------------------------------------
(* The builder. *)

Malloc(n) == [bytes |-> [i \in 1..n |-> Junk], live |-> TRUE]

(* A block with the bytes of s stored from offset n (counted from 0) on:   *)
(* past the end of the block there is nothing to store them in.            *)
Store(block, n, s) ==
    [block EXCEPT !.bytes = [i \in DOMAIN @ |-> IF i - n \in DOMAIN s THEN s[i - n] ELSE @[i]]]

New ==
    /\ ~alive
    /\ blocks = << >> \* bound of the model: one builder
    /\ \/ /\ blocks' = <<Store(Malloc(FirstCap), 0, <<Nul>>)>>
          /\ alive' = TRUE /\ buf' = 1 /\ len' = 0 /\ cap' = FirstCap /\ status' = "ok"
       \/ /\ MallocFails /\ status' = "internal"
          /\ UNCHANGED <<alive, blocks, buf, len, cap>>
    /\ UNCHANGED pairs

(* The byte sequence a set appends, its size as the code adds it up, and   *)
(* what the string then needs, all in size_t.                              *)
Tail_(key, value) ==
    (IF len > 0 THEN <<"&">> ELSE << >>) \o Encode(key) \o <<"=">> \o Encode(value)

(* Mutant: no room is counted for the terminator. *)
Extra_NoNul(key, value) == Wrap((IF len > 0 THEN 1 ELSE 0) + EncLen(key) + 1 + EncLen(value))

Extra(key, value) == Wrap((IF len > 0 THEN 1 ELSE 0) + EncLen(key) + 1 + EncLen(value) + 1)

Overflows(key, value) ==
    \/ Extra(key, value) < EncLen(key)
    \/ Wrap(len + Extra(key, value)) < len

Need(key, value) == Wrap(len + Extra(key, value))

(* The capacities that would do: the block that is there, or those a       *)
(* doubling comes to before it gives up past the middle of size_t.         *)
Doublings == {c \in 1..SizeMax : \E k \in 0..Width : c = cap * 2 ^ k}
Enough(need) == IF need <= cap THEN {cap} ELSE {c \in Doublings : need <= c}
Grown(need) == Min(Enough(need))

SetRefused(key, value) ==
    /\ alive
    /\ key = Null \/ value = Null \/ Overflows(key, value)
    /\ status' = "bad_input"
    /\ UNCHANGED <<alive, blocks, buf, len, cap, pairs>>

SetNoMemory(key, value) ==
    /\ alive /\ Null \notin {key, value} /\ ~Overflows(key, value)
    /\ Need(key, value) > cap
    /\ Enough(Need(key, value)) = {} \/ MallocFails
    /\ status' = "internal"
    /\ UNCHANGED <<alive, blocks, buf, len, cap, pairs>>

(* itb_internal_wipe and free. *)
Wiped(block, n) ==
    [bytes |-> [i \in DOMAIN block.bytes |-> IF i <= n THEN Nul ELSE block.bytes[i]],
     live |-> FALSE]

(* Mutant: the old block is released as it is. *)
Moved_NotWiped(need) ==
    IF need <= cap THEN blocks
    ELSE Append([blocks EXCEPT ![buf].live = FALSE],
                Store(Malloc(Grown(need)), 0, SubSeq(blocks[buf].bytes, 1, len + 1)))

(* The blocks after the string has moved to one that is large enough.      *)
Moved(need) ==
    IF need <= cap THEN blocks
    ELSE Append([blocks EXCEPT ![buf] = Wiped(@, len)],
                Store(Malloc(Grown(need)), 0, SubSeq(blocks[buf].bytes, 1, len + 1)))

SetStored(key, value) ==
    LET text == Tail_(key, value)
        moved == Moved(Need(key, value))
    IN
    /\ alive /\ Null \notin {key, value} /\ ~Overflows(key, value)
    /\ Len(pairs) < MaxSets
    /\ Enough(Need(key, value)) # {}
    /\ buf' = Len(moved)
    /\ cap' = Grown(Need(key, value))
    /\ blocks' = [moved EXCEPT ![Len(moved)] = Store(@, len, Append(text, Nul))]
    /\ len' = len + Len(text)
    /\ pairs' = Append(pairs, <<key, value>>)
    /\ status' = "ok"
    /\ UNCHANGED alive

Free ==
    /\ alive
    /\ alive' = FALSE
    /\ blocks' = [blocks EXCEPT ![buf] = Wiped(@, len)]
    /\ UNCHANGED <<buf, len, cap, pairs, status>>

Set(key, value) == SetRefused(key, value) \/ SetNoMemory(key, value) \/ SetStored(key, value)

OptsNext ==
    \/ New
    \/ \E key, value \in Strings : Set(key, value)
    \/ \E key \in Strings : SetRefused(key, Null) \/ SetRefused(Null, key)
    \/ Free

OptsSpec == OptsInit /\ [][OptsNext]_optsVars

-----------------------------------------------------------------------------
(* What the reader of a query string makes of it. *)

(* The bytes of the current block up to the first Nul. *)
CString ==
    LET bytes == blocks[buf].bytes
        nuls == {i \in DOMAIN bytes : bytes[i] = Nul}
    IN IF nuls = {} THEN bytes ELSE SubSeq(bytes, 1, Min(nuls) - 1)

(* The parts of a string between its bounds, which are the separators and  *)
(* both ends: the j-th part ends at the bound with j others before it.     *)
Bounds(s, separator) == {0, Len(s) + 1} \cup {i \in DOMAIN s : s[i] = separator}

Bound(s, separator, j) ==
    CHOOSE c \in Bounds(s, separator) : Cardinality({b \in Bounds(s, separator) : b < c}) = j

Split(s, separator) ==
    [j \in 1..Cardinality(Bounds(s, separator)) - 1 |->
        SubSeq(s, Bound(s, separator, j - 1) + 1, Bound(s, separator, j) - 1)]

Unescape(s) ==
    LET InEscape(i) == \E j \in {i - 1, i - 2} : j \in DOMAIN s /\ s[j] = "%"
        Meant(i) == {c \in DOMAIN Hex : i + 2 <= Len(s) /\ Hex[c] = <<s[i + 1], s[i + 2]>>}
        At(i) == IF InEscape(i) THEN << >>
                 ELSE IF s[i] = "%" THEN SetToSeq(Meant(i))
                 ELSE <<s[i]>>
    IN FlattenSeq([i \in 1..Len(s) |-> At(i)])

Decode(s) ==
    IF s = << >> THEN << >>
    ELSE LET parts == Split(s, "&")
         IN [j \in DOMAIN parts |->
                LET sides == Split(parts[j], "=") IN [k \in DOMAIN sides |-> Unescape(sides[k])]]

-----------------------------------------------------------------------------
(* Properties. *)

(* The query reads back as exactly the pairs that were accepted, in the    *)
(* order of the calls, also after calls that were refused or ran out of    *)
(* memory: no character of a key or value is taken for structure.          *)
QueryMeansPairs == alive => Decode(CString) = pairs

(* The string and its terminator lie inside the block, whose size is the   *)
(* recorded capacity, and len is the length of the string: no sum of       *)
(* lengths that wrapped around has let a longer string in.                 *)
WithinBlock ==
    alive => /\ Len(blocks[buf].bytes) = cap
             /\ len < cap
             /\ Len(CString) = len

(* Every block the builder has given up was released once and holds no     *)
(* byte of a key or value any more (opts carry no secret by themselves,    *)
(* but the code wipes them all the same).                                  *)
GivenUpWiped ==
    \A b \in DOMAIN blocks :
        /\ blocks[b].live <=> (alive /\ b = buf)
        /\ ~blocks[b].live => \A i \in DOMAIN blocks[b].bytes : blocks[b].bytes[i] \in {Nul, Junk}
===============================================================================
