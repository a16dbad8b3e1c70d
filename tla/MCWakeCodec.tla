---------------------------- MODULE MCWakeCodec ----------------------------
(***************************************************************************)
(* WakeCodec for TLC: the bodies that up to MaxEdits edits make of the     *)
(* frames of a version 1 and a version 4 peer, each decoded and compared   *)
(* with a declarative definition of what the frame means; and the length   *)
(* prefixes of frames of many lengths.                                     *)
(***************************************************************************)
EXTENDS WakeCodec, Calls

CONSTANTS
    MaxEdits   \* bound: edits of one body

\* Bound: bodies of about the longest length, and of those that have these bytes.
Lengths ==
    {n \in (MaxFrameBytes - 1)..(MaxFrameBytes + 1) : n >= 0}
       \cup {256^3 * b[1] + 256^2 * b[2] + 256 * b[3] + b[4] :
                b \in {p \in [1..4 -> {0, 1, 127, 255}] : p[1] < 128}}

Array(pieces) == Bracketed("begin_array", pieces, "end_array")
Whole(n) == [t |-> "int", n |-> n]

\* A value of each kind; arrays that are grids, short, long, or of other things.
Values ==
    { <<Whole(1)>>, <<[t |-> "bigint", n |-> 900]>>, <<Real(50)>>,
      <<Mark("hugereal")>>, <<Text("no")>>, <<Text("x")>>,
      <<[t |-> "bool", b |-> TRUE]>>, <<Mark("null")>>, Array(<< >>),
      Array(<< <<Real(1)>> >>),
      Array(<< Array(<< <<Real(0)>>, <<Real(50)>>, <<Real(2)>> >>),
               Array(<< <<Real(50)>>, <<Whole(1)>>, <<Real(5)>> >>) >>),
      Array(<< Array(<< <<Real(0)>>, <<Real(50)>> >>) >>),
      Array(<< Array(<< <<Real(0)>>, <<Real(50)>>, <<Real(2)>>, <<Real(3)>> >>) >>),
      Array(<< Array(<< <<Real(0)>>, <<Text("x")>> >>) >>) }

\* What one stray token may be.
Strays ==
    {Mark(c) : c \in {"begin_object", "end_object", "begin_array", "end_array",
                      "comma", "colon", "ws", "junk", "null"}}
       \cup {Text("reason"), Whole(1)}

\* One field for each reader, a required one and an optional one where there are
\* both, and a key of no field.
EditedKeys ==
    {"schema_version", "correlation_id", "direction", "kalshi_price", "dry_run",
     "wire_price_yes_dollars", "exchange_index", "price_ranges", "status", "reason",
     "not_a_field"}

Wake ==
    [Default(WakeFields) EXCEPT
        !["correlation_id"] = "c", !["market_ticker"] = "m", !["kalshi_price"] = 40,
        !["wire_price_yes_dollars"] = 41, !["dry_run"] = TRUE]

Ack == [Default(AckFields) EXCEPT !["correlation_id"] = "c", !["reason"] = <<"x">>]

\* A body is its members, each a sequence of tokens, and at most one edit of a
\* token of the text they make: delete it, replace it, or put another before it.
Members(message, fields) ==
    [members |-> [i \in DOMAIN fields |-> EncodeMember(message, fields[i])],
     stray |-> << >>, edits |-> 0]

BodyText(body) ==
    LET text == Bracketed("begin_object", body.members, "end_object")
        edited(e) == SubSeq(text, 1, e.at - 1) \o e.tokens
                       \o SubSeq(text, e.at + e.removed, Len(text))
    IN  IF body.stray = << >> THEN text ELSE edited(body.stray[1])

Fields == IF subject = "wake" THEN WakeFields ELSE AckFields
Required == IF subject = "wake" THEN WakeRequired ELSE AckRequired

CodecInit ==
    \/ Given("wake", {Members(Wake, SubSeq(WakeFields, 1, n)) : n \in {12, 20}})
    \/ Given("ack", {Members(Ack, SubSeq(AckFields, 1, n)) : n \in {4, 5}})
    \/ Given("length", Lengths)

Drop ==
    \E i \in DOMAIN input.members :
        /\ input.members[i][1].s \in EditedKeys
        /\ input' = [input EXCEPT !.members = RemoveAt(@, i), !.edits = @ + 1]

Retype ==
    \E i \in DOMAIN input.members, x \in Values :
        /\ input.members[i][1].s \in EditedKeys
        /\ input' = [input EXCEPT !.members[i] = SubSeq(@, 1, 2) \o x, !.edits = @ + 1]

Repeat ==
    \E key \in EditedKeys, x \in Values :
        input' = [input EXCEPT !.members = Append(@, <<Text(key), Mark("colon")>> \o x),
                               !.edits = @ + 1]

\* Bound: an edited wake has too many tokens to try each of them.
EditToken ==
    /\ subject = "wake" => input.edits = 0
    /\ \E at \in 1..(Len(BodyText(input)) + 1), removed \in {0, 1},
           tokens \in {<< >>} \cup {<<x>> : x \in Strays} :
          input' = [input EXCEPT !.edits = MaxEdits,
                       !.stray = <<[at |-> at, removed |-> removed, tokens |-> tokens]>>]

Edit ==
    /\ subject \in {"wake", "ack"} /\ output = << >> /\ input.edits < MaxEdits
    /\ Drop \/ Retype \/ Repeat \/ EditToken
    /\ UNCHANGED <<subject, output>>

CodecNext ==
    \/ Edit
    \/ Call("wake", LAMBDA x : DecodeWakeMessage(BodyText(x)))
    \/ Call("ack", LAMBDA x : DecodeWakeAck(BodyText(x)))
    \/ Call("length", LAMBDA n : DecodeFrameLength(WriteLengthPrefix(n)))

-----------------------------------------------------------------------------
(* What a body means, without a reader: a text without its white space is  *)
(* cut at the commas that are inside no bracket.                           *)

Cut(text) ==
    LET weight(x) == CASE x.t \in {"begin_object", "begin_array"} -> 1
                       [] x.t \in {"end_object", "end_array"} -> -1
                       [] OTHER -> 0
        upto[i \in 0..Len(text)] ==
            IF i = 0 THEN [depth |-> 0, commas |-> <<0>>]
            ELSE LET s == upto[i - 1]
                 IN  [depth |-> s.depth + weight(text[i]),
                      commas |-> IF text[i].t = "comma" /\ s.depth = 0 THEN Append(s.commas, i)
                                 ELSE s.commas]
        ends == Append(upto[Len(text)].commas, Len(text) + 1)
    IN  IF text = << >> THEN << >>
        ELSE [k \in 1..(Len(ends) - 1) |-> SubSeq(text, ends[k] + 1, ends[k + 1] - 1)]

Wrapped(text, open, close) ==
    Len(text) >= 2 /\ text[1] = Mark(open) /\ Last(text) = Mark(close)

Items(text) == Cut(SubSeq(text, 2, Len(text) - 1))

Is(text, types) == Len(text) = 1 /\ text[1].t \in types
Numerals == {"int", "bigint", "real"}
IsRange(text) ==
    Wrapped(text, "begin_array", "end_array") /\ Len(Items(text)) = 3
      /\ \A i \in 1..3 : Is(Items(text)[i], Numerals)

Fits(reader, text) ==
    CASE reader = "int" -> Is(text, {"int"})
      [] reader = "double" -> Is(text, Numerals)
      [] reader = "string" -> Is(text, {"string"})
      [] reader = "bool" -> Is(text, {"bool"})
      [] reader = "direction" -> Is(text, {"string"}) /\ text[1].s \in {"yes", "no"}
      [] reader = "status" ->
           Is(text, {"string"}) /\ text[1].s \in {"accepted", "rejected"}
      [] reader = "reason" -> Is(text, {"null", "string"})
      [] reader = "ranges" -> Wrapped(text, "begin_array", "end_array")
                                /\ \A i \in DOMAIN Items(text) : IsRange(Items(text)[i])

Hundredths(x) == IF x.t = "int" THEN 100 * x.n ELSE x.n

Meaning(reader, text) ==
    CASE reader = "double" -> Hundredths(text[1])
      [] reader = "int" -> text[1].n
      [] reader = "bool" -> text[1].b
      [] reader \in {"string", "direction", "status"} -> text[1].s
      [] reader = "reason" -> IF text[1].t = "null" THEN << >> ELSE <<text[1].s>>
      [] reader = "ranges" ->
           [i \in DOMAIN Items(text) |->
               [j \in 1..3 |-> Hundredths(Items(Items(text)[i])[j][1])]]

IsMember(text) == Len(text) > 2 /\ text[1].t = "string" /\ text[2] = Mark("colon")
ValueOf(member) == SubSeq(member, 3, Len(member))

\* decode_wake_message and decode_wake_ack accept a body exactly when it is an
\* object of members, each of which names a field and fits it (one that a later
\* member overrides included), every required field occurs and nothing is out of
\* place around or between them; and then each field has the value of its last
\* member, or its default when an older peer did not send it.  No more than three
\* levels are ever open.
DecodesWhatWasSent ==
    \A decoded \in Returned("wake") \cup Returned("ack") :
        LET text == SelectSeq(BodyText(input), LAMBDA x : x.t # "ws")
            members == Items(text)
            names(key) == {i \in DOMAIN members : members[i][1].s = key}
            sound == /\ Wrapped(text, "begin_object", "end_object")
                     /\ \A i \in DOMAIN members :
                          /\ IsMember(members[i])
                          /\ members[i][1].s \in Keys(Fields)
                          /\ Fits(Field(Fields, members[i][1].s).reader,
                                  ValueOf(members[i]))
                     /\ \A key \in Required : names(key) # {}
        IN  /\ decoded.err = "none" <=> sound
            /\ sound => \A key \in Keys(Fields) :
                  decoded.v[key] =
                     IF names(key) = {} THEN Default(Fields)[key]
                     ELSE LET last == CHOOSE i \in names(key) :
                                          \A j \in names(key) : j <= i
                          IN  Meaning(Field(Fields, key).reader, ValueOf(members[last]))

\* What is decoded can be sent again and is decoded to the same message, whatever
\* order, defaults and repetitions the first frame had; and the length a peer reads
\* off a prefix is the length of the body that was framed, refused exactly when it
\* is above kMaxFrameBytes, so that both ends agree on where the next frame begins.
FramesRoundTrip ==
    /\ \A decoded \in Returned("wake") \cup Returned("ack") :
          decoded.err = "none" =>
              Decode(EncodeBody(decoded.v, Fields), Fields, Required) = decoded
    /\ \A read \in Returned("length") :
          /\ read.err = "none" <=> input <= MaxFrameBytes
          /\ read.err = "none" => read.v = input

=============================================================================
