------------------------------ MODULE JsonText -----------------------------
(***************************************************************************)
(* The text level of src/json.cpp: the string and number scanners of       *)
(* json::Reader, append_string, and the layout of format_double.           *)
(*                                                                         *)
(* A text is a sequence of bytes, numbers below 256.  A scanner's result   *)
(* is [err, pos, out]: err is "none" or the code of the failure, pos the   *)
(* next byte to read (the code's pos_ + 1) and out what was read.          *)
(***************************************************************************)
EXTENDS Integers, Sequences, FiniteSets

Quote == 34
Backslash == 92

Scanning(pos, out) == [err |-> "none", pos |-> pos, out |-> out]
Malformed(s) == [s EXCEPT !.err = "MalformedJson"]

IsDigit(b) == b \in 48..57

\* The bytes of text from i on, n of them, when there are that many.
Has(text, i, n) == i + n - 1 <= Len(text)
Slice(text, i, n) == SubSeq(text, i, i + n - 1)

-----------------------------------------------------------------------------
(* UTF-8.                                                                  *)

\* append_utf8.
Utf8(c) ==
    LET tail(x) == 128 + (x % 64)
    IN  IF c < 128 THEN <<c>>
        ELSE IF c < 2048 THEN <<192 + c \div 64, tail(c)>>
        ELSE IF c < 65536 THEN <<224 + c \div 4096, tail(c \div 64), tail(c)>>
        ELSE <<240 + c \div 262144, tail(c \div 4096), tail(c \div 64), tail(c)>>

\* The length of a sequence by its first byte, 0 for a byte that starts none.
SequenceLength(lead) ==
    CASE lead \in 194..223 -> 2
      [] lead \in 224..239 -> 3
      [] lead \in 240..244 -> 4
      [] OTHER -> 0

\* Mutant: no lower bound on the byte after 0xE0.
SecondBytesOverlong(lead) ==
    CASE lead = 237 -> 128..159
      [] lead = 240 -> 144..191
      [] lead = 244 -> 128..143
      [] OTHER -> 128..191

\* The byte after 0xE0, 0xED, 0xF0 and 0xF4 has bounds of its own.
SecondBytes(lead) ==
    CASE lead = 224 -> 160..191
      [] lead = 237 -> 128..159
      [] lead = 240 -> 144..191
      [] lead = 244 -> 128..143
      [] OTHER -> 128..191

\* validate_utf8_run: the length of the sequence at i, 0 when it is refused.
Utf8Length(text, i) ==
    LET length == SequenceLength(text[i])
    IN  IF /\ length # 0 /\ Has(text, i, length)
           /\ text[i + 1] \in SecondBytes(text[i])
           /\ \A k \in 2..(length - 1) : text[i + k] \in 128..191
        THEN length ELSE 0

-----------------------------------------------------------------------------
(* Strings.                                                                *)

HexValue(b) ==
    CASE IsDigit(b) -> b - 48
      [] b \in 97..102 -> b - 87
      [] b \in 65..70 -> b - 55
      [] OTHER -> -1

\* read_hex4: the value of the four digits at i, -1 when they are not there.
ReadHex4(text, i) ==
    LET d(k) == HexValue(text[i + k])
    IN  IF Has(text, i, 4) /\ \A k \in 0..3 : d(k) # -1
        THEN 4096 * d(0) + 256 * d(1) + 16 * d(2) + d(3)
        ELSE -1

\* The halves of a surrogate pair.
IsHigh(unit) == 55296 <= unit /\ unit <= 56319
IsLow(unit) == 56320 <= unit /\ unit <= 57343

\* append_code_point, from after the "u": one escape, or two for a pair.
AppendCodePoint(s, text) ==
    LET unit == ReadHex4(text, s.pos)
        next == s.pos + 4
        low == IF Has(text, next, 2) /\ Slice(text, next, 2) = <<Backslash, 117>>
               THEN ReadHex4(text, next + 2) ELSE -1
    IN  IF unit = -1 \/ IsLow(unit) THEN Malformed(s)
        ELSE IF ~IsHigh(unit) THEN Scanning(next, s.out \o Utf8(unit))
        ELSE IF ~IsLow(low) THEN Malformed(s)
        ELSE Scanning(next + 6,
               s.out \o Utf8(65536 + (unit - 55296) * 1024 + (low - 56320)))

\* The letter of each escape that names one byte: \b \f \n \r \t and " \ /.
EscapeOf(b) ==
    CASE b = 98 -> 8 [] b = 102 -> 12 [] b = 110 -> 10 [] b = 114 -> 13
      [] b = 116 -> 9 [] b \in {Quote, Backslash, 47} -> b
      [] OTHER -> -1

\* append_escape, from after the backslash.
AppendEscape(s, text) ==
    IF ~Has(text, s.pos, 1) THEN Malformed(s)
    ELSE LET b == text[s.pos]
         IN  CASE b = 117 -> AppendCodePoint([s EXCEPT !.pos = @ + 1], text)
               [] EscapeOf(b) # -1 -> Scanning(s.pos + 1, Append(s.out, EscapeOf(b)))
               [] OTHER -> Malformed(s)

\* One turn of scan_string's loop; done once the closing quote is behind pos.
ScanStep(s, text) ==
    IF ~Has(text, s.pos, 1) THEN Malformed(s)
    ELSE LET b == text[s.pos]
             n == Utf8Length(text, s.pos)
         IN  CASE b = Backslash -> AppendEscape([s EXCEPT !.pos = @ + 1], text)
               [] b < 32 -> Malformed(s)
               [] b \in 32..127 /\ b # Backslash -> Scanning(s.pos + 1, Append(s.out, b))
               [] b > 127 -> IF n = 0 THEN Malformed(s)
                             ELSE Scanning(s.pos + n, s.out \o Slice(text, s.pos, n))

\* The turns of the loop, from after the opening quote.
ScanTurns(text) ==
    LET turn[k \in 0..Len(text)] ==
            IF k = 0 THEN Scanning(2, << >>)
            ELSE LET s == turn[k - 1]
                 IN  IF s.err # "none" THEN s
                     ELSE IF Has(text, s.pos, 1) /\ text[s.pos] = Quote THEN s
                     ELSE ScanStep(s, text)
    IN  turn

\* scan_string: each turn reads at least a byte, so Len(text) of them are enough.
ScanString(text) ==
    LET last == ScanTurns(text)[Len(text)]
    IN  IF text = << >> \/ text[1] # Quote
        THEN [Scanning(1, << >>) EXCEPT !.err = "WrongType"]
        ELSE IF last.err # "none" THEN last ELSE [last EXCEPT !.pos = @ + 1]

\* The short escape append_string has for a byte, 0 when it has none.
ShortEscape(b) ==
    CASE b = 8 -> 98 [] b = 12 -> 102 [] b = 10 -> 110 [] b = 13 -> 114
      [] b = 9 -> 116 [] b \in {Quote, Backslash} -> b
      [] OTHER -> 0

HexDigit(v) == IF v < 10 THEN 48 + v ELSE 87 + v

AppendByte(b) ==
    IF ShortEscape(b) # 0 THEN <<Backslash, ShortEscape(b)>>
    ELSE IF b < 32 THEN <<Backslash, 117, 48, 48, HexDigit(b \div 16), HexDigit(b % 16)>>
    ELSE <<b>>

\* What has been written after each of the bytes.
Written(bytes) ==
    LET out[k \in 0..Len(bytes)] ==
            IF k = 0 THEN <<Quote>> ELSE out[k - 1] \o AppendByte(bytes[k])
    IN  out

AppendString(bytes) == Append(Written(bytes)[Len(bytes)], Quote)

-----------------------------------------------------------------------------
(* Numbers.                                                                *)

Minus == 45
Plus == 43
Dot == 46
Zero == 48

IsAt(text, i, S) == Has(text, i, 1) /\ text[i] \in S
Digits == 48..57

\* The position after the run of digits at i.
AfterDigits(text, i) ==
    CHOOSE j \in i..(Len(text) + 1) :
        (\A k \in i..(j - 1) : text[k] \in Digits) /\ ~IsAt(text, j, Digits)

\* The integer part, from i, where there is a digit: 0 stands alone.
\* The result is the position after it, 0 for a leading zero.
AfterInteger(text, i) ==
    IF text[i] # Zero THEN AfterDigits(text, i)
    ELSE IF IsAt(text, i + 1, Digits) THEN 0 ELSE i + 1

AfterFraction(text, i) ==
    IF ~IsAt(text, i, {Dot}) THEN i
    ELSE IF ~IsAt(text, i + 1, Digits) THEN 0 ELSE AfterDigits(text, i + 1)

AfterExponent(text, i) ==
    LET j == IF IsAt(text, i + 1, {Plus, Minus}) THEN i + 2 ELSE i + 1
    IN  IF ~IsAt(text, i, {69, 101}) THEN i
        ELSE IF ~IsAt(text, j, Digits) THEN 0 ELSE AfterDigits(text, j)

\* scan_number: out says whether the token is integral.
ScanNumber(text) ==
    LET start == IF IsAt(text, 1, {Minus}) THEN 2 ELSE 1
        whole == AfterInteger(text, start)
        fraction == AfterFraction(text, whole)
        exponent == AfterExponent(text, fraction)
        failed == [err |-> "MalformedJson", pos |-> 1, out |-> FALSE]
    IN  IF ~IsAt(text, 1, Digits \cup {Minus}) THEN [failed EXCEPT !.err = "WrongType"]
        ELSE IF ~IsAt(text, start, Digits) THEN failed
        ELSE IF whole = 0 THEN failed
        ELSE IF fraction = 0 THEN failed
        ELSE IF exponent = 0 THEN failed
        ELSE Scanning(exponent, exponent = whole)

-----------------------------------------------------------------------------
(* format_double of a finite double, by the shortest digits d and decimal  *)
(* exponent e that std::to_chars finds: the value is d[1].d[2]d[3]...      *)
(* times 10^e.  The `null` that it writes for the others is left out: the  *)
(* reader accepts no token that denotes one.                               *)

Zeros(n) == [k \in 1..n |-> Zero]

\* The decimal digits of a magnitude below 1000, with no leading zero.
Decimal(n) ==
    IF n < 10 THEN <<48 + n>>
    ELSE IF n < 100 THEN <<48 + n \div 10, 48 + (n % 10)>>
    ELSE <<48 + n \div 100, 48 + ((n \div 10) % 10), 48 + (n % 10)>>

\* Mutant: a whole number without its point.
FixedLargeBare(d, e) ==
    IF Len(d) > e + 1 THEN SubSeq(d, 1, e + 1) \o <<Dot>> \o SubSeq(d, e + 2, Len(d))
    ELSE d \o Zeros(e + 1 - Len(d))

\* Digits before the point, padded with zeros, and at least one after it.
FixedLarge(d, e) ==
    IF Len(d) > e + 1 THEN SubSeq(d, 1, e + 1) \o <<Dot>> \o SubSeq(d, e + 2, Len(d))
    ELSE d \o Zeros(e + 1 - Len(d)) \o <<Dot, Zero>>

FixedSmall(d, e) == <<Zero, Dot>> \o Zeros(-e - 1) \o d

Scientific(d, e) ==
    <<d[1]>> \o (IF Len(d) > 1 THEN <<Dot>> \o Tail(d) ELSE << >>)
      \o <<101, IF e >= 0 THEN Plus ELSE Minus>>
      \o Decimal(IF e >= 0 THEN e ELSE -e)

FormatDouble(negative, d, e) ==
    (IF negative THEN <<Minus>> ELSE << >>)
      \o (IF e \in -5..15 THEN (IF e >= 0 THEN FixedLarge(d, e) ELSE FixedSmall(d, e))
          ELSE Scientific(d, e))

=============================================================================
