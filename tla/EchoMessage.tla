------------------------------ MODULE EchoMessage ------------------------------
(***************************************************************************)
(* EchoRequest objects of echo.pb.h and echo.pb.cc in memory; the code of   *)
(* EchoResponse is the same but for the name.  message_ points to the       *)
(* string all messages without a text share, kEmptyString, or to one of the *)
(* heap that the message owns and will delete; strings also pass between a  *)
(* message and its user.  _cached_size_ is left out: it is read only by     *)
(* messages that contain others.                                            *)
(***************************************************************************)
EXTENDS EchoWire, FiniteSets

CONSTANTS Msg, NoObject,      \* places of messages; no message there
          Addr, kEmptyString, \* places of strings
          Free,               \* no string there
          NULL,
          MaxUnknown,         \* bound: unknown fields in a message
          MaxFields           \* bound: fields in a stream that is parsed

ASSUME MessageAssumption ==
  /\ kEmptyString \notin Addr /\ NoObject \notin Addr \cup {kEmptyString}
  /\ NULL \notin Addr /\ Free \notin Text
  /\ NoObject \notin Msg \cup Value
  /\ MaxUnknown \in Nat /\ MaxFields \in Nat

VARIABLES message_,  \* message_[m]: its string, or NoObject
          has,       \* bit 0 of _has_bits_
          unknown,   \* _unknown_fields_
          heap,      \* contents of the strings
          held,      \* strings of the heap the user of the messages owns
          parsing    \* the MergePartialFromCodedStream under way

vars == <<message_, has, unknown, heap, held, parsing>>

Exists(m) == message_[m] # NoObject

\* message(), and all a user sees.
message(m) == heap[message_[m]]
ValueOf(m) == [has |-> has[m], text |-> message(m), unknown |-> unknown[m]]

Idle == [into |-> NoObject, from |-> Blank, input |-> << >>, at |-> 1, left |-> FALSE,
         result |-> TRUE]

\* A stream cut short ends there.
Stream == {s \in UNION {[1 .. n -> Field] : n \in 0 .. MaxFields} :
             \A i \in DOMAIN s : s[i] \in Cuts => i = Len(s)}

\* Types; and what is being parsed has a message to go to.
TypeOK ==
  /\ message_ \in [Msg -> Addr \cup {kEmptyString, NoObject}]
  /\ has \in [Msg -> BOOLEAN]
  /\ unknown \in [Msg -> Seq(Foreign)]
  /\ heap \in [Addr \cup {kEmptyString} -> Text \cup {Free}]
  /\ held \subseteq Addr
  /\ parsing \in [into : Msg \cup {NoObject}, from : Value, input : Seq(Field),
                  at : Nat \ {0}, left : BOOLEAN, result : BOOLEAN]
  /\ parsing # Idle => parsing.into \in Msg /\ Exists(parsing.into)

Init ==
  /\ message_ = [m \in Msg |-> NoObject]
  /\ has = [m \in Msg |-> FALSE]
  /\ unknown = [m \in Msg |-> << >>]
  /\ heap = [a \in Addr \cup {kEmptyString} |-> IF a = kEmptyString THEN Empty ELSE Free]
  /\ held = {} /\ parsing = Idle

-----------------------------------------------------------------------------
(* Steps the operations share.                                              *)

Bit(m, b) == has' = [has EXCEPT ![m] = b]
Points(m, a) == message_' = [message_ EXCEPT ![m] = a]
Keeps(m) == message_[m] # kEmptyString

\* Mutant of Writable: the shared string is written to.
WritableShared(m, a) == a = message_[m]

\* The string the message may write to: its own, or else a new one.
Writable(m, a) ==
  \/ Keeps(m) /\ a = message_[m]
  \/ ~Keeps(m) /\ a \in Addr /\ heap[a] = Free

\* set_has_message, message_ = new string, assign.
Write(m, t) ==
  /\ Bit(m, TRUE)
  /\ \E a \in Addr \cup {kEmptyString} :
       Writable(m, a) /\ Points(m, a) /\ heap' = [heap EXCEPT ![a] = t]

\* delete message_
Released(m) == IF Keeps(m) THEN [heap EXCEPT ![message_[m]] = Free] ELSE heap

Emptied(m) == IF Keeps(m) THEN [heap EXCEPT ![message_[m]] = Empty] ELSE heap

More(m, fields) ==
  /\ Len(unknown[m] \o fields) <= MaxUnknown
  /\ unknown' = [unknown EXCEPT ![m] = @ \o fields]

Ready(m) == Exists(m) /\ parsing = Idle

-----------------------------------------------------------------------------
(* Accessors.                                                               *)

set_message(m, t) ==
  /\ Ready(m) /\ Write(m, t)
  /\ UNCHANGED <<unknown, held, parsing>>

\* What is written through the pointer is as good as set_message's.
mutable_message(m) ==
  /\ Ready(m) /\ Write(m, message(m))
  /\ UNCHANGED <<unknown, held, parsing>>

\* Mutant of clear_message: the string keeps its text.
clear_bit(m) ==
  /\ Ready(m) /\ Bit(m, FALSE)
  /\ UNCHANGED <<message_, heap, unknown, held, parsing>>

clear_message(m) ==
  /\ Ready(m) /\ heap' = Emptied(m) /\ Bit(m, FALSE)
  /\ UNCHANGED <<message_, unknown, held, parsing>>

\* Mutant of release_message: the message goes on using the string.
release_and_keep(m) ==
  /\ Ready(m) /\ Bit(m, FALSE)
  /\ held' = IF Keeps(m) THEN held \cup {message_[m]} ELSE held
  /\ UNCHANGED <<message_, heap, unknown, parsing>>

release_message(m) ==
  /\ Ready(m) /\ Bit(m, FALSE)
  /\ held' = IF Keeps(m) THEN held \cup {message_[m]} ELSE held
  /\ Points(m, kEmptyString)
  /\ UNCHANGED <<heap, unknown, parsing>>

\* Mutant of set_allocated_message: NULL is stored like any pointer.
set_allocated_null(m, s) ==
  /\ Ready(m) /\ s \in held \cup {NULL}
  /\ heap' = Released(m)
  /\ Bit(m, s # NULL) /\ held' = held \ {s}
  /\ Points(m, s)
  /\ UNCHANGED <<unknown, parsing>>

\* The user gives away a string it owns, or none.
set_allocated_message(m, s) ==
  /\ Ready(m) /\ s \in held \cup {NULL}
  /\ heap' = Released(m)
  /\ Bit(m, s # NULL) /\ held' = held \ {s}
  /\ Points(m, IF s = NULL THEN kEmptyString ELSE s)
  /\ UNCHANGED <<unknown, parsing>>

-----------------------------------------------------------------------------
(* Whole messages.                                                          *)

\* The default constructor: SharedCtor.
Construct(m) ==
  /\ ~Exists(m) /\ parsing = Idle
  /\ Points(m, kEmptyString)
  /\ Bit(m, FALSE) /\ unknown' = [unknown EXCEPT ![m] = << >>]
  /\ UNCHANGED <<heap, held, parsing>>

\* The copy constructor: SharedCtor, then MergeFrom.
ConstructFrom(m, n) ==
  /\ ~Exists(m) /\ Ready(n)
  /\ unknown' = [unknown EXCEPT ![m] = unknown[n]]
  /\ IF has[n]
     THEN \E a \in Addr : /\ heap[a] = Free /\ Points(m, a) /\ Bit(m, TRUE)
                          /\ heap' = [heap EXCEPT ![a] = message(n)]
     ELSE Points(m, kEmptyString) /\ Bit(m, FALSE) /\ UNCHANGED heap
  /\ UNCHANGED <<held, parsing>>

\* The destructor: SharedDtor.
Destroy(m) ==
  /\ Ready(m)
  /\ heap' = Released(m) /\ Points(m, NoObject)
  /\ Bit(m, FALSE) /\ unknown' = [unknown EXCEPT ![m] = << >>]
  /\ UNCHANGED <<held, parsing>>

\* What Clear does to the string: nothing without the bit.
Wiped(m) == IF has[m] THEN Emptied(m) ELSE heap

Clear(m) ==
  /\ Ready(m)
  /\ heap' = Wiped(m)
  /\ Bit(m, FALSE) /\ unknown' = [unknown EXCEPT ![m] = << >>]
  /\ UNCHANGED <<message_, held, parsing>>

\* Of itself MergeFrom is a failed check.
MergeFrom(m, n) ==
  /\ Ready(m) /\ Ready(n) /\ m # n
  /\ IF has[n] THEN Write(m, message(n)) ELSE UNCHANGED <<message_, has, heap>>
  /\ More(m, unknown[n])
  /\ UNCHANGED <<held, parsing>>

\* Clear, then MergeFrom; of itself nothing.
CopyFrom(m, n) ==
  /\ Ready(m) /\ Ready(n) /\ m # n
  /\ Bit(m, has[n])
  /\ IF has[n]
     THEN \E a \in Addr : /\ Writable(m, a) /\ Points(m, a)
                          /\ heap' = [Wiped(m) EXCEPT ![a] = message(n)]
     ELSE heap' = Wiped(m) /\ UNCHANGED message_
  /\ unknown' = [unknown EXCEPT ![m] = unknown[n]]
  /\ UNCHANGED <<held, parsing>>

\* Mutant of Swap: unknown fields stay where they are.
SwapKnown(m, n) ==
  /\ Ready(m) /\ Ready(n)
  /\ message_' = [message_ EXCEPT ![m] = message_[n], ![n] = message_[m]]
  /\ has' = [has EXCEPT ![m] = has[n], ![n] = has[m]]
  /\ UNCHANGED <<unknown, heap, held, parsing>>

Swap(m, n) ==
  /\ Ready(m) /\ Ready(n)
  /\ message_' = [message_ EXCEPT ![m] = message_[n], ![n] = message_[m]]
  /\ has' = [has EXCEPT ![m] = has[n], ![n] = has[m]]
  /\ unknown' = [unknown EXCEPT ![m] = unknown[n], ![n] = unknown[m]]
  /\ UNCHANGED <<heap, held, parsing>>

\* Mutant of Written: an empty string is not written.
WrittenNonEmpty(m) ==
  (IF has[m] /\ message(m) # Empty THEN <<Message(message(m))>> ELSE << >>)
    \o Others(unknown[m])

\* SerializeWithCachedSizes, and the same to an array.
Written(m) ==
  (IF has[m] THEN <<Message(message(m))>> ELSE << >>) \o Others(unknown[m])

-----------------------------------------------------------------------------
(* MergePartialFromCodedStream, a turn of its loop at a time.               *)

MergePartial(m, input) ==
  /\ Ready(m)
  /\ parsing' = [Idle EXCEPT !.into = m, !.from = ValueOf(m), !.input = input]
  /\ UNCHANGED <<message_, has, unknown, heap, held>>

Goes == parsing' = [parsing EXCEPT !.at = @ + 1]
Leaves(result) == parsing' = [parsing EXCEPT !.left = TRUE, !.result = result]

\* Mutant of ReadMessage: only the first text is taken.
ReadFirst(m, f) ==
  /\ f.tag = "message"
  /\ IF has[m] THEN UNCHANGED <<message_, has, heap>> ELSE Write(m, f.body)
  /\ Goes /\ UNCHANGED unknown

\* case 1, length-delimited: ReadString into mutable_message(), which has made the
\* message its own string and set the bit when the length cannot be read.
ReadMessage(m, f) ==
  /\ \/ f.tag = "message" /\ Write(m, f.body) /\ Goes
     \/ f.tag = "cut_message" /\ Write(m, f.body) /\ Leaves(FALSE)
     \/ f.tag = "cut_length" /\ Write(m, message(m)) /\ Leaves(FALSE)
  /\ UNCHANGED unknown

\* handle_uninterpreted: SkipField keeps what it skips, of a string or a group that
\* is cut the part it has read; an end of group ends the parse.
Uninterpreted(m, f) ==
  /\ \/ f.tag = "foreign" /\ More(m, <<f.body>>) /\ Goes
     \/ f.tag = "cut_foreign" /\ More(m, <<f.body>>) /\ Leaves(FALSE)
     \/ f.tag = "cut_unkept" /\ Leaves(FALSE) /\ UNCHANGED unknown
     \/ f.tag = "end_group" /\ Leaves(TRUE) /\ UNCHANGED unknown
  /\ UNCHANGED <<message_, has, heap>>

\* ReadTag gives zero at the end, and ExpectAtEnd after a text.
NoTag ==
  /\ \/ parsing.at > Len(parsing.input)
     \/ parsing.at <= Len(parsing.input) /\ parsing.input[parsing.at].tag = "zero"
  /\ Leaves(TRUE)
  /\ UNCHANGED <<message_, has, unknown, heap>>

ParseField ==
  /\ parsing # Idle /\ ~parsing.left
  /\ \/ NoTag
     \/ /\ parsing.at <= Len(parsing.input)
        /\ LET f == parsing.input[parsing.at]
           IN ReadMessage(parsing.into, f) \/ Uninterpreted(parsing.into, f)
  /\ UNCHANGED held

ParseReturns ==
  /\ parsing.left /\ parsing' = Idle
  /\ UNCHANGED <<message_, has, unknown, heap, held>>

-----------------------------------------------------------------------------
(* The user's own strings.                                                  *)

NewString(t) ==
  /\ parsing = Idle
  /\ \E a \in Addr : /\ heap[a] = Free /\ heap' = [heap EXCEPT ![a] = t]
                     /\ held' = held \cup {a}
  /\ UNCHANGED <<message_, has, unknown, parsing>>

DeleteString(a) ==
  /\ parsing = Idle /\ a \in held
  /\ heap' = [heap EXCEPT ![a] = Free] /\ held' = held \ {a}
  /\ UNCHANGED <<message_, has, unknown, parsing>>

Accessor(m) ==
  \/ \E t \in Text : set_message(m, t)
  \/ mutable_message(m) \/ clear_message(m) \/ release_message(m)
  \/ \E s \in held \cup {NULL} : set_allocated_message(m, s)

Whole(m, n) ==
  \/ Construct(m) \/ Destroy(m) \/ Clear(m)
  \/ ConstructFrom(m, n) \/ MergeFrom(m, n) \/ CopyFrom(m, n) \/ Swap(m, n)

User == (\E t \in Text : NewString(t)) \/ (\E a \in held : DeleteString(a))

Parse == (\E m \in Msg, s \in Stream : MergePartial(m, s)) \/ ParseField \/ ParseReturns

Next == \/ \E m \in Msg : Accessor(m)
        \/ \E m, n \in Msg : Whole(m, n)
        \/ User \/ Parse

Spec == Init /\ [][Next]_vars

-----------------------------------------------------------------------------

\* Every string of the heap has exactly one owner, a message or the user, and
\* every owner's string exists: nothing is deleted twice, used after it was
\* deleted, leaked, or shared by two messages, whatever sequence of calls.
EveryStringOwnedOnce ==
  /\ \A m \in Msg : Exists(m) /\ Keeps(m) => heap[message_[m]] # Free /\ message_[m] \notin held
  /\ \A m, n \in Msg : m # n /\ Exists(m) /\ Keeps(m) => message_[m] # message_[n]
  /\ \A a \in held : heap[a] # Free
  /\ \A a \in Addr : heap[a] # Free => a \in held \/ \E m \in Msg : message_[m] = a

\* A message without its bit reads as the empty string, and so does the string
\* such messages share, for ever.  Clear and parsing rely on it: neither touches
\* the string of such a message.
AbsentReadsEmpty ==
  /\ heap[kEmptyString] = Empty
  /\ \A m \in Msg : Exists(m) /\ ~has[m] => message(m) = Empty

\* What is written out and read back, by a message of either kind, is the same
\* value, unknown fields and empty texts included.
RoundTrip ==
  \A m \in Msg : Exists(m) =>
    LET read == Parsed(Blank, Written(m))
    IN read.value = ValueOf(m) /\ read.result /\ Written(m) = Serialized(ValueOf(m))

\* To parse the bytes of a message into another is to merge the one into the
\* other; to clear that before is to copy.
ParsingMerges ==
  \A m, n \in Msg : Exists(m) /\ Exists(n) =>
    LET v == ValueOf(m)  w == ValueOf(n)
    IN /\ Parsed(v, Written(n)).value = Merged(v, w)
       /\ Parsed(Cleared(v), Written(n)).value = w /\ Copied(v, w) = w

\* The places of a stream up to the first mark that ends it.
BeforeEnd(s) ==
  LET end == CHOOSE k \in 1 .. Len(s) + 1 :
               /\ k <= Len(s) => s[k] \in Ends
               /\ \A i \in 1 .. k - 1 : s[i] \notin Ends
  IN 1 .. end - 1

\* What is in the fields of s at the places in P, in their order.
InOrder(bodies, s, P) ==
  \E at \in [DOMAIN bodies -> P] :
    /\ \A i, j \in DOMAIN bodies : i < j => at[i] < at[j]
    /\ \A p \in P : \E i \in DOMAIN bodies : at[i] = p
    /\ \A i \in DOMAIN bodies : bodies[i] = s[at[i]].body

\* The places whose contents, or part of them, reach the message.
Texts(s, P) == {p \in P : s[p].tag \in {"message", "cut_message"}}
Foreigns(s, P) == {p \in P : s[p].tag \in {"foreign", "cut_foreign"}}

\* The places where a text is at least begun.
Begun(s, P) == Texts(s, P) \cup {p \in P : s[p].tag = "cut_length"}

\* v is what becomes of the value from by the fields of s at the places in P.
ReadInto(v, from, s, P) ==
  LET added == SubSeq(v.unknown, Len(from.unknown) + 1, Len(v.unknown))
  IN /\ v.has = (from.has \/ Begun(s, P) # {})
     /\ Texts(s, P) = {} => v.text = from.text
     /\ \A last \in Texts(s, P) :
          (\A p \in Texts(s, P) : p <= last) => v.text = s[last].body
     /\ v.unknown = from.unknown \o added /\ InOrder(added, s, Foreigns(s, P))

\* What a parse that has ended has made of the message: the last text of the stream
\* up to the first end mark, or the text it had, and the bit with them, were it for a
\* text whose length was cut; after the unknown fields it had those of the stream in
\* their order, the last in part if the stream was cut in it; and false exactly when
\* the stream was cut short before.  A message of the other kind is read alike.
ParseMeaning ==
  parsing.left =>
    LET read == BeforeEnd(parsing.input)
        other == Parsed(parsing.from, parsing.input)
    IN /\ ReadInto(ValueOf(parsing.into), parsing.from, parsing.input, read)
       /\ parsing.result = (\A p \in read : parsing.input[p] \notin Cuts)
       /\ other.value = ValueOf(parsing.into) /\ other.result = parsing.result

Values == INSTANCE EchoValues
  WITH val <- [m \in Msg |-> IF Exists(m) THEN ValueOf(m) ELSE NoObject]

\* To their users messages are values: no operation on one shows in another.
ImplementsValues == Values!Spec
=============================================================================
