-------------------------------- MODULE Sizes --------------------------------
(***************************************************************************)
(* The conversions of the stress harness (loop/size.c): sizes and          *)
(* durations read from the command line, and durations printed back.       *)
(*                                                                         *)
(* A text is a sequence of characters.  The widths are scaled down: an     *)
(* int64_t holds 0..IntMax, K, M and G are Base, Base^2 and Base^3, and a  *)
(* thousand is Ten, so that a second has Ten^3 nanoseconds and its         *)
(* fraction three digits.  A double has Precision bits and is rounded to   *)
(* nearest, ties to even, wherever the code's doubles are; the exponents   *)
(* are unbounded.                                                          *)
(***************************************************************************)
EXTENDS Integers, FiniteSets, Sequences, SequencesExt, FiniteSetsExt

CONSTANTS
    SizeChars, DurationChars, \* characters of the texts
    MaxLen,       \* bound of the model: length of a text
    IntMax, Base, \* INT64_MAX, and 1024
    TextCap,      \* size of the buffer parse_size copies a text to, 64
    MinuteSecs, HourMinutes, \* 60 and 60
    Precision,    \* bits of a double's significand, 53
    DurationMax,  \* 9.2e18, the largest duration accepted
    MaxPrinted    \* bound of the model: largest duration printed

Ten == 10
Spaces == {" "}
Decimal == <<"0", "1", "2", "3", "4", "5", "6", "7", "8", "9">>
Digits == ToSet(Decimal)
DigitValue == [c \in Digits |-> CHOOSE v \in 0..9 : Decimal[v + 1] = c]
Number == {"."} \cup Digits

ASSUME SizesAssumption ==
    /\ MaxLen \in Nat /\ IntMax \in Nat /\ Base \in Nat \ {0}
    /\ TextCap \in Nat
    /\ Precision \in Nat \ {0} /\ DurationMax \in Nat /\ 2 ^ Precision <= DurationMax
    /\ MinuteSecs \in Nat \ {0} /\ HourMinutes \in Nat \ {0}

VARIABLES
    call,      \* what is converted: [op, text, value]
    converted  \* what the conversion returned: [ok, value, text]

sizesVars == <<call, converted>>

None == [ok |-> FALSE, value |-> 0, text |-> << >>]
Value(n) == [ok |-> TRUE, value |-> n, text |-> << >>]
Malformed == [ok |-> FALSE, value |-> -1, text |-> << >>]

NumberOf(digits) ==
    LET first[k \in 0..Len(digits)] ==
            IF k = 0 THEN 0 ELSE 10 * first[k - 1] + DigitValue[digits[k]]
    IN first[Len(digits)]
Upper(c) == CASE c = "k" -> "K" [] c = "m" -> "M" [] c = "i" -> "I" [] c = "b" -> "B" [] OTHER -> c

-----------------------------------------------------------------------------
(* parse_size. *)

Trimmed(s) ==
    LET ink == {i \in DOMAIN s : s[i] \notin Spaces}
    IN IF ink = {} THEN << >> ELSE SubSeq(s, Min(ink), Max(ink))

Row(text, mult) == [text |-> text, mult |-> mult]

(* Mutant: "B" is looked for before the suffixes that end in it. *)
SuffixTable_ShortFirst ==
    <<Row(<<"B">>, 1),
      Row(<<"K", "I", "B">>, Base), Row(<<"K", "B">>, Base), Row(<<"K">>, Base),
      Row(<<"M", "I", "B">>, Base * Base), Row(<<"M", "B">>, Base * Base), Row(<<"M">>, Base * Base)>>

(* The table of suffixes in the order they are tried. *)
SuffixTable ==
    <<Row(<<"K", "I", "B">>, Base), Row(<<"K", "B">>, Base), Row(<<"K">>, Base),
      Row(<<"M", "I", "B">>, Base * Base), Row(<<"M", "B">>, Base * Base), Row(<<"M">>, Base * Base),
      Row(<<"G", "I", "B">>, Base * Base * Base), Row(<<"G", "B">>, Base * Base * Base),
      Row(<<"G">>, Base * Base * Base), Row(<<"B">>, 1)>>

EndsWith(text, tail) ==
    Len(tail) <= Len(text) /\ SubSeq(text, Len(text) - Len(tail) + 1, Len(text)) = tail

(* The first row that matches the end of the text. *)
Suffix(text) ==
    LET matching == {k \in DOMAIN SuffixTable : EndsWith(text, SuffixTable[k].text)}
    IN IF matching = {} THEN Row(<< >>, 1) ELSE SuffixTable[Min(matching)]

(* What stands before the suffix, without the spaces between. *)
BeforeSuffix(text) ==
    LET rest == SubSeq(text, 1, Len(text) - Len(Suffix(text).text))
    IN SubSeq(rest, 1, Max({0} \cup {i \in DOMAIN rest : rest[i] \notin Spaces}))

(* strtoll's range error, and the guard on the product. *)
TooLarge(n, mult) == n > IntMax \/ (mult > 1 /\ n > IntMax \div mult)

ParseSize(s) ==
    LET text == [i \in DOMAIN Trimmed(s) |-> Upper(Trimmed(s)[i])]
        digits == BeforeSuffix(text)
        n == NumberOf(digits)
        mult == Suffix(text).mult
    IN IF \/ text = << >> \/ Len(text) >= TextCap
          \/ digits = << >> \/ \E i \in DOMAIN digits : digits[i] \notin Digits
          \/ TooLarge(n, mult)
       THEN Malformed
       ELSE Value((n * mult) % (IntMax + 1))

-----------------------------------------------------------------------------
(* parse_duration. *)

Unit(c, t) == [text |-> c, ns |-> t]
Units == <<Unit(<<"n", "s">>, 1), Unit(<<"u", "s">>, Ten), Unit(<<"m", "s">>, Ten ^ 2),
           Unit(<<"s">>, Ten ^ 3), Unit(<<"m">>, MinuteSecs * Ten ^ 3),
           Unit(<<"h">>, HourMinutes * MinuteSecs * Ten ^ 3)>>
Letters == {"n", "u", "m", "s", "h", "e", "x"}

(* A double is m * 2^e with m < 2^Precision or zero.                       *)
Zero == [m |-> 0, e |-> 0]

(* The double nearest to num / den, of two the one with an even m.         *)
Rounded(num, den) ==
    LET Nearest(a, b) ==
            LET m == a \div b
                rest == 2 * (a % b)
            IN IF rest > b \/ (rest = b /\ m % 2 = 1) THEN m + 1 ELSE m
        fit[a \in Nat, b \in Nat] ==
            IF a < 2 ^ (Precision - 1) * b THEN [fit[2 * a, b] EXCEPT !.e = @ - 1]
            ELSE IF a >= 2 ^ Precision * b THEN [fit[a, 2 * b] EXCEPT !.e = @ + 1]
            ELSE [m |-> Nearest(a, b), e |-> 0]
    IN IF num = 0 THEN Zero ELSE fit[num, den]

Shifted(x, by) == [x EXCEPT !.e = @ + by]
Times(x, k) == Shifted(Rounded(x.m * k, 1), x.e)
Plus(x, y) ==
    LET low == Min({x.e, y.e})
    IN IF x = Zero THEN y
       ELSE Shifted(Rounded(x.m * 2 ^ (x.e - low) + y.m * 2 ^ (y.e - low), 1), low)

(* The end of the run of digits that starts at i. *)
DigitsEnd(s, i) == Min({j \in i..Len(s) + 1 : j = Len(s) + 1 \/ s[j] \notin Digits})

(* strtod from position i on: the double it reads and where it stops,      *)
(* next = i when there is no number.  Exponents have no sign here, and     *)
(* hexadecimal numbers none; 10^5 is beyond DurationMax.                   *)
DecimalNumber(s, i) ==
    LET whole == DigitsEnd(s, i)
        point == whole <= Len(s) /\ s[whole] = "."
        frac == IF point THEN DigitsEnd(s, whole + 1) ELSE whole
        digits == SelectSeq(SubSeq(s, i, frac - 1), LAMBDA c : c # ".")
        places == IF point THEN frac - whole - 1 ELSE 0
        exponent == IF frac <= Len(s) /\ s[frac] = "e" THEN DigitsEnd(s, frac + 1) ELSE frac
        hasExponent == exponent > frac + 1
        power == IF hasExponent THEN Min({5, NumberOf(SubSeq(s, frac + 1, exponent - 1))}) ELSE 0
    IN IF digits = << >> THEN [next |-> i, value |-> Zero]
       ELSE [next |-> IF hasExponent THEN exponent ELSE frac,
             value |-> Rounded(NumberOf(digits) * 10 ^ power, 10 ^ places)]

HexDigit(c) == IF c = "e" THEN 14 ELSE DigitValue[c]
IsHex(c) == c \in Digits \cup {"e"}

(* The hexadecimal number whose digits begin at i: digits, a point, digits. *)
HexNumber(s, i) ==
    LET End(j) == Min({k \in j..Len(s) + 1 : k = Len(s) + 1 \/ ~IsHex(s[k])})
        whole == End(i)
        point == whole <= Len(s) /\ s[whole] = "."
        frac == IF point THEN End(whole + 1) ELSE whole
        digits == SelectSeq(SubSeq(s, i, frac - 1), IsHex)
        places == IF point THEN frac - whole - 1 ELSE 0
    IN IF digits = << >> THEN [next |-> i, value |-> Zero]
       ELSE [next |-> frac,
             value |-> Rounded(FoldLeft(LAMBDA n, c : 16 * n + HexDigit(c), 0, digits), 16 ^ places)]

StrToD(s, i) ==
    LET prefixed == i + 1 <= Len(s) /\ s[i] = "0" /\ s[i + 1] = "x"
        hex == HexNumber(s, i + 2)
    IN IF prefixed /\ hex.next > i + 2 THEN hex ELSE DecimalNumber(s, i)

(* The units that match at position i and are not followed by a letter.    *)
UnitsAt(s, i) ==
    {k \in DOMAIN Units :
        /\ IsPrefix(Units[k].text, SubSeq(s, i, Len(s)))
        /\ LET after == i + Len(Units[k].text) IN after <= Len(s) => s[after] \notin Letters}

(* Whether the total, itself rounded, is at most DurationMax.              *)
InRange(x) == x.e < 0 \/ x.m <= DurationMax \div 2 ^ x.e

(* The conversion to an integer drops what is below a nanosecond.          *)
Cut(x) == IF x.e < 0 THEN x.m \div 2 ^ (-x.e) ELSE x.m * 2 ^ x.e

(* Mutant: the total is the last number alone. *)
OneNumber_LastOnly(s, loop) ==
    LET v == StrToD(s, loop.at)
        units == UnitsAt(s, v.next)
        unit == Units[Min(units)]
    IN IF ~loop.ok \/ loop.at > Len(s) THEN loop
       ELSE IF s[loop.at] \notin Number \/ v.next = loop.at \/ units = {}
            THEN [loop EXCEPT !.ok = FALSE]
       ELSE [ok |-> TRUE, at |-> v.next + Len(unit.text), total |-> Times(v.value, unit.ns)]

(* One pass of the loop: a number and its unit, added to the total.        *)
OneNumber(s, loop) ==
    LET v == StrToD(s, loop.at)
        units == UnitsAt(s, v.next)
        unit == Units[Min(units)]
    IN IF ~loop.ok \/ loop.at > Len(s) THEN loop
       ELSE IF s[loop.at] \notin Number \/ v.next = loop.at \/ units = {}
            THEN [loop EXCEPT !.ok = FALSE]
       ELSE [ok |-> TRUE, at |-> v.next + Len(unit.text),
             total |-> Plus(loop.total, Times(v.value, unit.ns))]

(* Every pass takes a character or stops.                                  *)
ParseDuration(s) ==
    LET after[k \in Nat] ==
            IF k = 0 THEN [ok |-> s # << >>, at |-> 1, total |-> Zero]
            ELSE OneNumber(s, after[k - 1])
        end == after[Len(s)]
    IN IF end.ok /\ InRange(end.total) THEN Value(Cut(end.total)) ELSE Malformed

-----------------------------------------------------------------------------
(* human_duration. *)

Print10(n) ==
    LET print[k \in Nat] ==
            IF k < 10 THEN <<Decimal[k + 1]>>
            ELSE Append(print[k \div 10], Decimal[(k % 10) + 1])
    IN print[n]

(* append_fraction: three digits, without the zeros at the end.            *)
Fraction(frac) ==
    IF frac = 0 THEN << >>
    ELSE LET digits == [k \in 1..3 |-> Decimal[((frac \div 10 ^ (3 - k)) % 10) + 1]]
         IN <<".">> \o SubSeq(digits, 1, Max({i \in 1..3 : digits[i] # "0"}))

(* Mutant: the fraction of a millisecond is not scaled to all its digits. *)
BelowSecond_Unscaled(ns) == Print10(ns \div Ten ^ 2) \o Fraction(ns % Ten ^ 2) \o <<"m", "s">>

BelowSecond(ns) == Print10(ns \div Ten ^ 2) \o Fraction((ns % Ten ^ 2) * Ten) \o <<"m", "s">>

HumanDuration(ns) ==
    LET second == Ten ^ 3
        hours == ns \div (HourMinutes * MinuteSecs * second)
        minutes == (ns \div (MinuteSecs * second)) % HourMinutes
    IN IF ns = 0 THEN <<"0", "s">>
       ELSE IF ns < second THEN BelowSecond(ns)
       ELSE (IF hours > 0 THEN Append(Print10(hours), "h") ELSE << >>)
            \o (IF hours > 0 \/ minutes > 0 THEN Append(Print10(minutes), "m") ELSE << >>)
            \o Print10((ns \div second) % MinuteSecs) \o Fraction(ns % second) \o <<"s">>

-----------------------------------------------------------------------------
SizesInit == call = [op |-> "none", text |-> << >>, value |-> 0] /\ converted = None

CallParseSize ==
    \E s \in BoundedSeq(SizeChars, MaxLen) :
        call' = [op |-> "size", text |-> s, value |-> 0] /\ converted' = ParseSize(s)

CallParseDuration ==
    \E s \in BoundedSeq(DurationChars, MaxLen) :
        call' = [op |-> "duration", text |-> s, value |-> 0] /\ converted' = ParseDuration(s)

CallHumanDuration ==
    \E ns \in 0..MaxPrinted :
        /\ call' = [op |-> "human", text |-> << >>, value |-> ns]
        /\ converted' = [ok |-> TRUE, value |-> ns, text |-> HumanDuration(ns)]

SizesNext == call.op = "none" /\ (CallParseSize \/ CallParseDuration \/ CallHumanDuration)

SizesSpec == SizesInit /\ [][SizesNext]_sizesVars

-----------------------------------------------------------------------------
(* Reference definitions: what the texts mean, as a grammar. *)

SizeSuffix ==
    [x \in {<< >>, <<"B">>, <<"K">>, <<"K", "B">>, <<"K", "I", "B">>, <<"M">>, <<"M", "B">>,
            <<"M", "I", "B">>, <<"G">>, <<"G", "B">>, <<"G", "I", "B">>} |->
        IF x \in {<< >>, <<"B">>} THEN 1
        ELSE CASE x[1] = "K" -> Base [] x[1] = "M" -> Base * Base [] x[1] = "G" -> Base * Base * Base]

(* A text is [space] digits [space] suffix [space].                        *)
SizeMeanings(s) ==
    LET text == [i \in DOMAIN s |-> Upper(s[i])]
        Blank(i, j) == \A k \in i..j : text[k] \in Spaces
    IN {NumberOf(SubSeq(text, p[1], p[2])) * SizeSuffix[SubSeq(text, p[3], p[4])] :
          p \in {q \in (1..Len(s)) \X (1..Len(s)) \X (1..Len(s) + 1) \X (0..Len(s)) :
                   /\ q[1] <= q[2] /\ q[2] < q[3] /\ q[4] >= q[3] - 1
                   /\ Blank(1, q[1] - 1) /\ Blank(q[2] + 1, q[3] - 1) /\ Blank(q[4] + 1, Len(s))
                   /\ \A k \in q[1]..q[2] : text[k] \in Digits
                   /\ SubSeq(text, q[3], q[4]) \in DOMAIN SizeSuffix}}

(* A duration is a sequence of numbers with at most one point and at least *)
(* one digit, each followed by its unit; the text is cut where a number    *)
(* follows a letter.                                                       *)
Starts(s) == {i \in DOMAIN s : s[i] \in Number /\ (i = 1 \/ s[i - 1] \notin Number)}
Piece(s, i) == SubSeq(s, i, Min({j \in i..Len(s) : j = Len(s) \/ j + 1 \in Starts(s)}))

PieceNumber(p) == SelectSeq(p, LAMBDA c : c \in Number)
PieceUnit(p) == SelectSeq(p, LAMBDA c : c \notin Number)
IsPiece(p) ==
    /\ p = PieceNumber(p) \o PieceUnit(p)
    /\ Cardinality({i \in DOMAIN p : p[i] = "."}) <= 1
    /\ \E c \in ToSet(p) : c \in Digits
    /\ \E k \in DOMAIN Units : Units[k].text = PieceUnit(p)
IsDuration(s) ==
    s # << >> /\ s[1] \in Number /\ \A i \in Starts(s) : IsPiece(Piece(s, i))

Places(p) ==
    Cardinality({i \in DOMAIN p : p[i] \in Digits /\ \E j \in 1..i : p[j] = "."})

(* The value of a duration: numerator over a power of ten. *)
Meaning(s) ==
    LET most == Max({Places(Piece(s, i)) : i \in Starts(s)})
        Scaled(i) ==
            LET p == Piece(s, i)
                unit == CHOOSE k \in DOMAIN Units : Units[k].text = PieceUnit(p)
            IN NumberOf(SelectSeq(p, LAMBDA c : c \in Digits)) * Units[unit].ns * 10 ^ (most - Places(p))
    IN [num |-> MapThenSumSet(Scaled, Starts(s)), den |-> 10 ^ most]

-----------------------------------------------------------------------------
(* Properties. *)

(* A size is accepted exactly when it has a meaning that fits the integer  *)
(* and the buffer, and then has that value: no product wraps, and the      *)
(* suffixes that end in each other are told apart.                         *)
SizeMeansText ==
    call.op = "size" =>
        LET meanings == {n \in SizeMeanings(call.text) : n <= IntMax /\ Len(Trimmed(call.text)) < TextCap}
        IN IF converted.ok THEN meanings = {converted.value} ELSE meanings = {}

(* How far, in nanoseconds, the total may be from what the text means: one *)
(* rounding of the literal, one of the product and one of every sum.       *)
Slack(whole, pieces) == ((pieces + 2) * (whole + 1)) \div 2 ^ Precision + 1

(* A text of decimal numbers and units ("a sequence of decimal numbers     *)
(* each followed by a unit", size.c:83-86) is accepted unless it is too    *)
(* long, and any other text without the marks of strtod's further forms is *)
(* not.  What is accepted is at most DurationMax, so that the conversion   *)
(* to an integer is defined, and is what the text means within the         *)
(* rounding of the doubles: no piece is read with another piece's unit or  *)
(* left out of the sum.  Whole numbers that sum to at most 2^Precision     *)
(* nanoseconds (104 days) are read exactly.                                *)
DurationMeansText ==
    call.op = "duration" =>
        /\ converted.ok => converted.value \in 0..DurationMax
        /\ ToSet(call.text) \cap {"e", "x"} = {} =>
               IF ~IsDuration(call.text) THEN ~converted.ok
               ELSE LET exact == Meaning(call.text)
                        whole == exact.num \div exact.den
                        slack == Slack(whole, Cardinality(Starts(call.text)))
                    IN /\ ~converted.ok => whole + slack >= DurationMax
                       /\ converted.ok => converted.value \in (whole - slack)..(whole + slack)
                       /\ (exact.den = 1 /\ whole <= 2 ^ Precision) => converted = Value(whole)

(* A printed duration is a duration, and means what was printed: no digit  *)
(* of the fraction, and no zero between the fields, is lost.               *)
PrintedMeansValue ==
    call.op = "human" =>
        \/ converted.text = <<"0", "s">> /\ call.value = 0
        \/ /\ IsDuration(converted.text)
           /\ Meaning(converted.text).num = call.value * Meaning(converted.text).den
===============================================================================
