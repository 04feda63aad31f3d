------------------------------- MODULE EchoWire -------------------------------
(***************************************************************************)
(* echo.pb.cc: the value of an EchoRequest or an EchoResponse, and the      *)
(* bytes it is written to and read from.  A stream of bytes is the sequence *)
(* of fields its reader finds; contents, lengths and unknown fields are     *)
(* members of small sets.                                                   *)
(***************************************************************************)
EXTENDS Integers, Sequences

CONSTANTS Text,     \* contents of a string
          Empty,    \* the empty one
          Foreign   \* fields, or wire types, echo.proto does not name

ASSUME WireAssumption == Empty \in Text

\* has_message(), message(), unknown_fields().
Value == [has : BOOLEAN, text : Text, unknown : Seq(Foreign)]

Message(t) == [tag |-> "message", body |-> t]
Other(f) == [tag |-> "foreign", body |-> f]

\* ReadTag gives zero, or the end of a group nobody began.
Ends == {[tag |-> "zero", body |-> Empty], [tag |-> "end_group", body |-> Empty]}

\* A field the stream ends inside of, or that is malformed: a text in its contents
\* or already in its length, another field of which something is kept (a string or
\* a group is added before it is read) or nothing; body is what is kept of it.
Cuts == {[tag |-> "cut_message", body |-> t] : t \in Text}
          \cup {[tag |-> "cut_foreign", body |-> f] : f \in Foreign}
          \cup {[tag |-> "cut_length", body |-> Empty], [tag |-> "cut_unkept", body |-> Empty]}

Field == {Message(t) : t \in Text} \cup {Other(f) : f \in Foreign} \cup Ends \cup Cuts

-----------------------------------------------------------------------------

\* A new message.
Blank == [has |-> FALSE, text |-> Empty, unknown |-> << >>]

\* set_message
Assigned(v, t) == [v EXCEPT !.has = TRUE, !.text = t]

\* Clear: a string without its bit is taken to be empty already.
Cleared(v) == [Blank EXCEPT !.text = IF v.has THEN Empty ELSE v.text]

\* Mutant of Merged: the text is taken whether or not it is there.
MergedAnyway(v, w) ==
  [Assigned(v, w.text) EXCEPT !.unknown = @ \o w.unknown]

\* MergeFrom, of another message than itself.
Merged(v, w) ==
  [(IF w.has THEN Assigned(v, w.text) ELSE v) EXCEPT !.unknown = @ \o w.unknown]

\* CopyFrom
Copied(v, w) == Merged(Cleared(v), w)

\* The one required field.
IsInitialized(v) == v.has

\* SerializeUnknownFields
Others(unknown) == [i \in DOMAIN unknown |-> Other(unknown[i])]

\* SerializeWithCachedSizes
Serialized(v) ==
  (IF v.has THEN <<Message(v.text)>> ELSE << >>) \o Others(v.unknown)

\* One turn of MergePartialFromCodedStream's loop: what becomes of the message,
\* whether the loop is left, and with what result.  mutable_message() sets the bit
\* before the length is read, and SkipField writes to the message's own fields.
ParsedField(v, f) ==
  LET Goes(w) == [value |-> w, left |-> FALSE, result |-> TRUE]
      Leaves(w, result) == [value |-> w, left |-> TRUE, result |-> result]
  IN CASE f.tag = "message"     -> Goes(Assigned(v, f.body))
       [] f.tag = "foreign"     -> Goes([v EXCEPT !.unknown = Append(@, f.body)])
       [] f.tag = "cut_message" -> Leaves(Assigned(v, f.body), FALSE)
       [] f.tag = "cut_length"  -> Leaves(Assigned(v, v.text), FALSE)
       [] f.tag = "cut_foreign" -> Leaves([v EXCEPT !.unknown = Append(@, f.body)], FALSE)
       [] f.tag = "cut_unkept"  -> Leaves(v, FALSE)
       [] OTHER                 -> Leaves(v, TRUE)

\* MergePartialFromCodedStream of a stream into a message of value v.
Parsed(v, input) ==
  LET after[k \in 0 .. Len(input)] ==
        IF k = 0 THEN [value |-> v, left |-> FALSE, result |-> TRUE]
        ELSE IF after[k - 1].left THEN after[k - 1]
        ELSE ParsedField(after[k - 1].value, input[k])
  IN after[Len(input)]
=============================================================================
