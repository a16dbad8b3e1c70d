----------------------------- MODULE JsonReader -----------------------------
(***************************************************************************)
(* json::Reader (src/json.cpp) above its two scanners, which the module    *)
(* JsonText describes byte by byte: the pull parser as operators from a    *)
(* reader to the reader after the call.                                    *)
(*                                                                         *)
(* A text is a sequence of tokens: "begin_object", "end_object",           *)
(* "begin_array", "end_array", "comma", "colon", white space "ws",         *)
(* something that begins no value "junk", and the scalars                  *)
(*    string: s; int, bigint (beyond int64), real: n; hugereal (beyond     *)
(*    double): none; bool: b; null: none.                                  *)
(* Two scalars that would run into one are written with a space between    *)
(* them.  Doubles are counted in hundredths.                               *)
(*                                                                         *)
(* A reader is [text, pos, first, err, present, out]: the code's pos_ + 1, *)
(* first_ up to depth_, the code of the first failure or "none", and what  *)
(* the call returned through its arguments.                                *)
(***************************************************************************)
EXTENDS Integers, SequencesExt

CONSTANTS
    MaxDepth   \* kMaxDepth

ASSUME ReaderAssumption == MaxDepth \in Nat

Reader(text) ==
    [text |-> text, pos |-> 1, first |-> << >>, err |-> "none", present |-> FALSE,
     out |-> << >>]

\* fail(): the first failure is the one kept.
Fail(r, code) == IF r.err = "none" THEN [r EXCEPT !.err = code] ELSE r

\* The next call is made on a reader that has not failed.
Then(r, Call(_)) == IF r.err # "none" THEN r ELSE Call(r)

SkipWhitespace(r) ==
    LET solid[i \in 1..(Len(r.text) + 1)] ==
            IF i > Len(r.text) THEN i
            ELSE IF r.text[i].t = "ws" THEN solid[i + 1] ELSE i
    IN  [r EXCEPT !.pos = solid[@]]

\* peek(): the type of the token at the reader, "end" when there is none.
Peek(r) == IF r.pos > Len(r.text) THEN "end" ELSE r.text[r.pos].t

Advance(r) == [r EXCEPT !.pos = @ + 1]

Expect(r, c) ==
    LET s == SkipWhitespace(r)
    IN  IF Peek(s) = c THEN Advance(s) ELSE Fail(s, "MalformedJson")

PushLevel(r) ==
    IF Len(r.first) = MaxDepth THEN Fail(r, "MalformedJson")
    ELSE [r EXCEPT !.first = Append(@, TRUE)]

BeginObject(r) == Then(Expect(r, "begin_object"), PushLevel)
BeginArray(r) == Then(Expect(r, "begin_array"), PushLevel)

\* Mutant: a comma is taken where there is one, and not asked for.
AdvanceToLoose(r, close) ==
    LET s == SkipWhitespace(r)
    IN  CASE Peek(s) = "end" -> Fail(s, "MalformedJson")
          [] Peek(s) = close -> [Advance(s) EXCEPT !.first = Front(@), !.present = FALSE]
          [] Peek(s) = "comma" -> [Advance(s) EXCEPT !.present = TRUE]
          [] OTHER -> [s EXCEPT !.present = TRUE]

\* What next_member and next_element share: to the closing bracket, which leaves
\* the level, or to the next item, behind a comma unless it is the first.
AdvanceTo(r, close) ==
    LET s == SkipWhitespace(r)
    IN  CASE Peek(s) = "end" -> Fail(s, "MalformedJson")
          [] Peek(s) = close -> [Advance(s) EXCEPT !.first = Front(@), !.present = FALSE]
          [] Peek(s) \notin {"end", close} ->
               IF Last(s.first)
               THEN [s EXCEPT !.first = Append(Front(@), FALSE), !.present = TRUE]
               ELSE [Expect(s, "comma") EXCEPT !.present = TRUE]

NextElement(r) == AdvanceTo(r, "end_array")

-----------------------------------------------------------------------------
(* The scalars.  A token of another type fails with WrongType.             *)

ReadScalar(r, types, Value(_)) ==
    LET s == SkipWhitespace(r)
    IN  IF Peek(s) \in types THEN [Advance(s) EXCEPT !.out = Value(s.text[s.pos])]
        ELSE Fail(s, "WrongType")

ReadString(r) == ReadScalar(r, {"string"}, LAMBDA x : x.s)
ReadBool(r) == ReadScalar(r, {"bool"}, LAMBDA x : x.b)

AtNull(r) == Peek(SkipWhitespace(r)) = "null"
ReadNull(r) == ReadScalar(r, {"null"}, LAMBDA x : << >>)

ReadInt(r) ==
    IF Peek(SkipWhitespace(r)) = "bigint" THEN Fail(r, "OutOfRange")
    ELSE ReadScalar(r, {"int"}, LAMBDA x : x.n)

ReadDouble(r) ==
    IF Peek(SkipWhitespace(r)) = "hugereal" THEN Fail(r, "OutOfRange")
    ELSE ReadScalar(r, {"int", "bigint", "real"},
                    LAMBDA x : IF x.t = "int" THEN 100 * x.n ELSE x.n)

\* The key, of a member that is present, is in out.
NextMember(r) ==
    Then(AdvanceTo(r, "end_object"), LAMBDA s :
        IF ~s.present THEN s
        ELSE Then(ReadString(s), LAMBDA k : Expect(k, "colon")))

AtDocumentEnd(r) ==
    LET s == SkipWhitespace(r)
    IN  IF Peek(s) = "end" THEN s ELSE Fail(s, "MalformedJson")

=============================================================================
