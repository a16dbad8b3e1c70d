----------------------------- MODULE MCJsonText -----------------------------
(***************************************************************************)
(* JsonText for TLC.  Strings: every body of up to four bytes at the edges *)
(* of the UTF-8 tables, and every body of up to MaxPieces escapes and      *)
(* fragments of escapes.  Numbers: every text of up to MaxLength bytes     *)
(* over the characters of a number.  Doubles of every digit count at the   *)
(* edges of the exponent, written and then scanned.                        *)
(***************************************************************************)
EXTENDS JsonText, Calls, SequencesExt

CONSTANTS
    MaxPieces,   \* bound: pieces of an escaped body
    MaxLength    \* bound: bytes of a scanned number

ASSUME PiecesAssumption == MaxPieces \in Nat

\* Bound: bytes on both sides of each edge validate_utf8_run tests.
Leads ==
    {31, 32, 127, 128, 191, 192, 193, 194, 223, 224, 225, 236, 237, 238, 239,
     240, 241, 243, 244, 245, 255}
Tails == {Quote, 127, 128, 143, 144, 159, 160, 191, 192}

RawBodies ==
    {<<b[1]>> \o b[2] : b \in Leads \X UNION {[1..n -> Tails] : n \in 0..3}}

\* The escape of a UTF-16 code unit.
Hex(unit) ==
    <<Backslash, 117, HexDigit(unit \div 4096), HexDigit((unit \div 256) % 16),
      HexDigit((unit \div 16) % 16), HexDigit(unit % 16)>>

\* Bound: units at the edges of the surrogates, of the control characters and of
\* the UTF-8 lengths; each named escape; and what an escape is cut off to.
Pieces ==
    {Hex(u) : u \in {0, 31, 34, 127, 128, 2047, 2048, 55295, 55296, 56319, 56320,
                     57343, 57344, 65535}}
      \cup {<<Backslash, b>> : b \in {Quote, Backslash, 47, 98, 102, 110, 114, 116, 120}}
      \cup {<<Backslash>>, <<Backslash, 117>>, <<Backslash, 117, 48, 48, 70>>,
            <<Backslash, 117, 48, 48, 52, 65>>, <<65>>}

EscapedBodies ==
    {FlattenSeq(p) : p \in UNION {[1..n -> Pieces] : n \in 0..MaxPieces}}

NumberTexts == UNION {[1..n -> {Minus, Plus, Dot, 48, 49, 101}] : n \in 1..MaxLength}

\* Bound: all 17 digit counts, exponents of one, two and three digits and on both
\* sides of each limit of the fixed notation; and zero.
Doubles ==
    [negative : BOOLEAN,
     d : {[i \in 1..n |-> IF i = n THEN 49 ELSE 48 + (i % 10)] : n \in 1..17},
     e : {-308, -100, -99, -10, -9} \cup -7..18 \cup {99, 100, 308}]
      \cup [negative : BOOLEAN, d : {<<48>>}, e : {0}]

JsonInit ==
    \/ Given("scan_string",
             {<<Quote>> \o b \o <<Quote>> : b \in RawBodies \cup EscapedBodies})
    \/ Given("scan_number", NumberTexts)
    \/ Given("format_double", Doubles)

JsonNext ==
    \/ Call("scan_string", ScanString)
    \/ Call("scan_number", ScanNumber)
    \/ Call("format_double", LAMBDA x : FormatDouble(x.negative, x.d, x.e))

-----------------------------------------------------------------------------
(* What a body means: the code points it can be read as, by the bits of    *)
(* UTF-8 and UTF-16 and without the scanner's tables.                      *)

IsScalar(c) == 0 <= c /\ c <= 1114111 /\ ~IsHigh(c) /\ ~IsLow(c)

RawPoint(u) ==
    CASE Len(u) = 1 -> u[1]
      [] Len(u) = 2 -> (u[1] - 192) * 64 + (u[2] - 128)
      [] Len(u) = 3 -> (u[1] - 224) * 4096 + (u[2] - 128) * 64 + (u[3] - 128)
      [] Len(u) = 4 -> (u[1] - 240) * 262144 + (u[2] - 128) * 4096
                         + (u[3] - 128) * 64 + (u[4] - 128)

RawPoints(u) ==
    {c \in {RawPoint(u)} : IsScalar(c) /\ Utf8(c) = u
                             /\ c >= 32 /\ c \notin {Quote, Backslash}}

EscapedPoints(u) ==
    CASE Len(u) = 2 -> {c \in {EscapeOf(u[2])} : u[1] = Backslash /\ c # -1}
      [] Len(u) = 6 -> {c \in {ReadHex4(u, 3)} :
                            SubSeq(u, 1, 2) = <<Backslash, 117>> /\ IsScalar(c)}
      [] Len(u) = 12 ->
           LET high == ReadHex4(u, 3)
               low == ReadHex4(u, 9)
           IN  {c \in {65536 + (high - 55296) * 1024 + (low - 56320)} :
                  /\ \A i \in {1, 7} : Slice(u, i, 2) = <<Backslash, 117>>
                  /\ c > 65535 /\ IsScalar(c)
                  /\ high = 55296 + (c - 65536) \div 1024
                  /\ low = 56320 + ((c - 65536) % 1024)}
      [] OTHER -> {}

\* The code points that the n bytes at i can be read as.
PointsAt(body, i, n) ==
    LET u == Slice(body, i, n)
    IN  (IF n <= 4 THEN RawPoints(u) ELSE {}) \cup EscapedPoints(u)

\* A reading is a position and the UTF-8 of what was read before it; read on, it
\* is the readings with one code point more, or itself at the end of the body.
ReadOn(body, p) ==
    IF p[1] = Len(body) + 1 THEN {p}
    ELSE UNION {{<<p[1] + n, p[2] \o Utf8(c)>> : c \in PointsAt(body, p[1], n)} :
                n \in {m \in {1, 2, 3, 4, 6, 12} : Has(body, p[1], m)}}

ReadingsAfter(body) ==
    LET after[k \in 0..Len(body)] ==
            IF k = 0 THEN {<<1, << >>>>} ELSE UNION {ReadOn(body, p) : p \in after[k - 1]}
    IN  after

Readings(body) ==
    {p[2] : p \in {q \in ReadingsAfter(body)[Len(body)] : q[1] = Len(body) + 1}}

-----------------------------------------------------------------------------
(* The grammar of a JSON number.                                           *)

AllDigits(s) == s # << >> /\ \A i \in DOMAIN s : s[i] \in Digits
IsInteger(s) == AllDigits(s) /\ (s[1] = Zero => Len(s) = 1)
IsFraction(s) == s = << >> \/ (s[1] = Dot /\ AllDigits(Tail(s)))
IsExponent(s) ==
    s = << >> \/ /\ s[1] \in {69, 101}
                 /\ \/ AllDigits(Tail(s))
                    \/ Len(s) > 2 /\ s[2] \in {Plus, Minus} /\ AllDigits(Tail(Tail(s)))

\* Where the integer and the fraction of an unsigned number end.
Parts(s) ==
    {p \in (0..Len(s)) \X (0..Len(s)) :
        /\ p[1] <= p[2]
        /\ IsInteger(SubSeq(s, 1, p[1]))
        /\ IsFraction(SubSeq(s, p[1] + 1, p[2]))
        /\ IsExponent(SubSeq(s, p[2] + 1, Len(s)))}

Unsigned(s) == IF s # << >> /\ s[1] = Minus THEN Tail(s) ELSE s

-----------------------------------------------------------------------------
(* The value of a decimal text: its digits with no zeros around them, and  *)
(* the power of ten of the first of them.                                  *)

Number(s) ==
    LET n[k \in 0..Len(s)] == IF k = 0 THEN 0 ELSE 10 * n[k - 1] + s[k] - 48
    IN  n[Len(s)]

PowerOf(s) ==
    IF s = << >> THEN 0
    ELSE IF s[2] = Minus THEN -Number(SubSeq(s, 3, Len(s)))
    ELSE Number(SubSeq(s, 3, Len(s)))

Value(s) ==
    LET p == CHOOSE q \in Parts(s) : TRUE
        all == SubSeq(s, 1, p[1]) \o SubSeq(s, p[1] + 2, p[2])
        nonzero == {i \in DOMAIN all : all[i] # Zero}
        first == CHOOSE i \in nonzero : \A j \in nonzero : i <= j
        last == CHOOSE i \in nonzero : \A j \in nonzero : j <= i
    IN  IF nonzero = {} THEN [d |-> <<48>>, e |-> 0]
        ELSE [d |-> SubSeq(all, first, last),
              e |-> PowerOf(SubSeq(s, p[2] + 1, Len(s))) + p[1] - first]

-----------------------------------------------------------------------------
(* Properties.                                                             *)

\* Exactly JSON is read.  scan_string takes a body to its closing quote exactly
\* when it can be read as Unicode scalar values, with no overlong form, no
\* surrogate on its own, no raw control character and nothing past U+10FFFF, and
\* returns their UTF-8.  scan_number takes a whole text exactly when it is a number
\* (no leading zero, no bare point or exponent, no plus sign), and read_int may use
\* it exactly when it has neither a fraction nor an exponent.
ScalarsReadExactly ==
    /\ \A s \in Returned("scan_string") :
          LET readings == Readings(SubSeq(input, 2, Len(input) - 1))
              whole == s.err = "none" /\ s.pos = Len(input) + 1
          IN  /\ whole <=> readings # {}
              /\ whole => readings = {s.out}
    /\ \A s \in Returned("scan_number") :
          LET number == Unsigned(input)
              whole == s.err = "none" /\ s.pos = Len(input) + 1
          IN  /\ whole <=> Parts(number) # {}
              /\ whole => (s.out <=> <<Len(number), Len(number)>> \in Parts(number))

\* What is written is read back, and is not too long.  A string that was read off a
\* frame goes out again in an ack: append_string writes it so that a peer reads the
\* same bytes, in no more bytes than it was read from, so that a rejection exceeds
\* the frame it quotes by its own words only.  What format_double writes is one
\* number, never an integer token, that denotes the digits, the exponent and the
\* sign of a finite double, and is no longer than the 24 bytes from which the size of
\* the buffer, into which its writes go unchecked, was chosen.
ScalarsReadBack ==
    /\ \A s \in Returned("scan_string") :
          s.err = "none" =>
              LET text == AppendString(s.out)
              IN  /\ ScanString(text) = Scanning(Len(text) + 1, s.out)
                  /\ Len(text) <= s.pos - 1
    /\ \A text \in Returned("format_double") :
          /\ ScanNumber(text) = Scanning(Len(text) + 1, FALSE)
          /\ input.negative <=> text[1] = Minus
          /\ Value(Unsigned(text)) = [d |-> input.d, e |-> input.e]
          /\ Len(text) <= 24

=============================================================================
