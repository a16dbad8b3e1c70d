----------------------------- MODULE WakeCodec -----------------------------
(***************************************************************************)
(* The wire codec (src/protocol.cpp): decode_wake_message, decode_wake_ack,*)
(* the encoders and the frame length, over the reader and the tokens of    *)
(* JsonReader.                                                             *)
(***************************************************************************)
EXTENDS JsonReader, FiniteSets

CONSTANTS
    MaxFrameBytes   \* kMaxFrameBytes

\* The cap fits into the four bytes of a prefix, and a reader may enter the deepest
\* message, which has a grid of ranges.
ASSUME CodecAssumption ==
    /\ MaxFrameBytes \in Nat /\ (MaxFrameBytes + 1) \div 256^3 < 256
    /\ MaxDepth >= 3

Ok(v) == [err |-> "none", v |-> v]
Failure(code) == [err |-> code]

Count(text, c) == Cardinality({i \in DOMAIN text : text[i].t = c})

-----------------------------------------------------------------------------
(* The readers of a field's value.                                         *)

\* read_direction and read_status: a string that is one of the names.
ReadEnum(r, names) ==
    Then(ReadString(r), LAMBDA s :
        IF s.out \in names THEN s ELSE Fail(s, "UnknownEnumValue"))

ReadReason(r) ==
    IF AtNull(r) THEN ReadNull(r)
    ELSE Then(ReadString(r), LAMBDA s : [s EXCEPT !.out = <<@>>])

\* One entry of price_ranges: three bounds are read in turn, then the bracket.
ReadRange(r) ==
    LET bound(s) == Then(NextElement(s), LAMBDA e :
                        IF e.present THEN ReadDouble(e) ELSE Fail(e, "MalformedPriceRange"))
        start == Then(BeginArray(r), bound)
        end == Then(start, bound)
        step == Then(end, bound)
    IN  Then(Then(step, NextElement), LAMBDA s :
            IF s.present THEN Fail(s, "MalformedPriceRange")
            ELSE [s EXCEPT !.out = <<start.out, end.out, step.out>>])

\* The array replaces what the field held; its first bad entry ends the decode.
\* Each turn of the loop but the last takes an entry's bracket, so there are no more
\* turns than brackets, the array's own included.
ReadPriceRanges(r) ==
    LET turns == Count(r.text, "begin_array")
        turn[n \in 0..turns] ==
            IF n = 0 THEN [BeginArray(r) EXCEPT !.present = TRUE, !.out = << >>]
            ELSE LET s == turn[n - 1]
                 IN  IF ~s.present THEN s
                     ELSE Then(Then(s, NextElement), LAMBDA e :
                        IF ~e.present THEN e
                        ELSE Then(ReadRange(e), LAMBDA x :
                            [x EXCEPT !.present = TRUE, !.out = Append(s.out, @)]))
    IN  turn[turns]

ReadAs(reader, r) ==
    CASE reader = "int" -> ReadInt(r)
      [] reader = "double" -> ReadDouble(r)
      [] reader = "string" -> ReadString(r)
      [] reader = "bool" -> ReadBool(r)
      [] reader = "direction" -> ReadEnum(r, {"yes", "no"})
      [] reader = "status" -> ReadEnum(r, {"accepted", "rejected"})
      [] reader = "reason" -> ReadReason(r)
      [] reader = "ranges" -> ReadPriceRanges(r)

-----------------------------------------------------------------------------
(* The two messages: their fields in declaration order, which is the order *)
(* on the wire, each with its reader and default.                          *)

WakeFields ==
    << [key |-> "schema_version", reader |-> "int", default |-> 4],
       [key |-> "correlation_id", reader |-> "string", default |-> ""],
       [key |-> "market_ticker", reader |-> "string", default |-> ""],
       [key |-> "asset", reader |-> "string", default |-> ""],
       [key |-> "direction", reader |-> "direction", default |-> "yes"],
       [key |-> "kalshi_price", reader |-> "double", default |-> 0],
       [key |-> "model_probability", reader |-> "double", default |-> 0],
       [key |-> "fee", reader |-> "double", default |-> 0],
       [key |-> "edge", reader |-> "double", default |-> 0],
       [key |-> "decision_ts_ms", reader |-> "int", default |-> 0],
       [key |-> "sent_at_ms", reader |-> "int", default |-> 0],
       [key |-> "sent_at_ns", reader |-> "int", default |-> 0],
       [key |-> "recv_ns", reader |-> "int", default |-> 0],
       [key |-> "clock_domain", reader |-> "string", default |-> ""],
       [key |-> "dry_run", reader |-> "bool", default |-> FALSE],
       [key |-> "wire_price_yes_dollars", reader |-> "double", default |-> 0],
       [key |-> "exchange_index", reader |-> "int", default |-> -1],
       [key |-> "available_size_contracts", reader |-> "double", default |-> 0],
       [key |-> "price_ranges", reader |-> "ranges", default |-> << <<0, 100, 1>> >>],
       [key |-> "correlation_group", reader |-> "string", default |-> ""] >>

AckFields ==
    << [key |-> "schema_version", reader |-> "int", default |-> 4],
       [key |-> "correlation_id", reader |-> "string", default |-> ""],
       [key |-> "received_at_ms", reader |-> "int", default |-> 0],
       [key |-> "status", reader |-> "status", default |-> "accepted"],
       [key |-> "reason", reader |-> "reason", default |-> << >>] >>

Keys(fields) == {fields[i].key : i \in DOMAIN fields}
Field(fields, key) == fields[CHOOSE i \in DOMAIN fields : fields[i].key = key]
Default(fields) == [key \in Keys(fields) |-> Field(fields, key).default]

\* kWakeMessageRequired and kWakeAckRequired: the fields of version 1.
WakeRequired == {WakeFields[i].key : i \in 1..12}
AckRequired == {AckFields[i].key : i \in 1..4}

-----------------------------------------------------------------------------
(* decode_wake_message and decode_wake_ack.                                *)

\* read_wake_field and read_ack_field, behind the key: an unknown key fails before
\* its value is looked at, and a key that comes again overwrites the field.
ReadField(d, r, fields) ==
    LET key == r.out
        read == ReadAs(Field(fields, key).reader, r)
    IN  IF key \notin Keys(fields) THEN [d EXCEPT !.r = Fail(r, "UnknownField")]
        ELSE IF read.err # "none" THEN [d EXCEPT !.r = read]
        ELSE [d EXCEPT !.r = [read EXCEPT !.present = TRUE],
                       !.v[key] = read.out, !.seen = @ \cup {key}]

\* d is the reader, the message so far and the fields seen.  Each turn of the loop
\* but the last takes a member's colon.
Decode(text, fields, required) ==
    LET turns == Count(text, "colon") + 1
        turn[n \in 0..turns] ==
            IF n = 0
            THEN [r |-> [BeginObject(Reader(text)) EXCEPT !.present = TRUE],
                  v |-> Default(fields), seen |-> {}]
            ELSE LET d == turn[n - 1]
                     m == NextMember(d.r)
                 IN  IF d.r.err # "none" \/ ~d.r.present THEN d
                     ELSE IF m.err # "none" \/ ~m.present THEN [d EXCEPT !.r = m]
                     ELSE ReadField(d, m, fields)
        decoded == turn[turns]
        end == Then(decoded.r, AtDocumentEnd)
    IN  IF end.err # "none" THEN Failure(end.err)
        ELSE IF ~(required \subseteq decoded.seen) THEN Failure("MissingField")
        ELSE Ok(decoded.v)

DecodeWakeMessage(text) == Decode(text, WakeFields, WakeRequired)
DecodeWakeAck(text) == Decode(text, AckFields, AckRequired)

-----------------------------------------------------------------------------
(* The encoders.  append_double always writes a real.                      *)

Mark(c) == [t |-> c]
Real(v) == [t |-> "real", n |-> v]
Text(v) == [t |-> "string", s |-> v]

\* The pieces, with a comma between each two, in brackets.
Bracketed(open, pieces, close) ==
    LET joined[i \in 0..Len(pieces)] ==
            IF i = 0 THEN << >>
            ELSE IF i = 1 THEN pieces[1]
            ELSE joined[i - 1] \o <<Mark("comma")>> \o pieces[i]
    IN  <<Mark(open)>> \o joined[Len(pieces)] \o <<Mark(close)>>

EncodeValue(reader, v) ==
    CASE reader = "int" -> <<[t |-> "int", n |-> v]>>
      [] reader = "double" -> <<Real(v)>>
      [] reader \in {"string", "direction", "status"} -> <<Text(v)>>
      [] reader = "bool" -> <<[t |-> "bool", b |-> v]>>
      [] reader = "reason" -> IF v = << >> THEN <<Mark("null")>> ELSE <<Text(v[1])>>
      [] reader = "ranges" ->
           Bracketed("begin_array",
               [i \in DOMAIN v |->
                   Bracketed("begin_array", [j \in 1..3 |-> <<Real(v[i][j])>>],
                             "end_array")],
               "end_array")

EncodeMember(message, field) ==
    <<Text(field.key), Mark("colon")>> \o EncodeValue(field.reader, message[field.key])

EncodeBody(message, fields) ==
    Bracketed("begin_object", [i \in DOMAIN fields |-> EncodeMember(message, fields[i])],
              "end_object")

-----------------------------------------------------------------------------
(* The length prefix: four bytes, big-endian.                              *)

\* Mutant: the bytes in the other order.
WriteLengthPrefixLittle(length) ==
    [i \in 1..4 |-> (length \div 256^(i - 1)) % 256]

WriteLengthPrefix(length) == [i \in 1..4 |-> (length \div 256^(4 - i)) % 256]

DecodeFrameLength(prefix) ==
    LET length[i \in 0..4] == IF i = 0 THEN 0 ELSE length[i - 1] * 256 + prefix[i]
    IN  IF length[4] > MaxFrameBytes THEN Failure("FrameTooLarge") ELSE Ok(length[4])

=============================================================================
