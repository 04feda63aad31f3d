-------------------------- MODULE EchoMessageProofs --------------------------
(***************************************************************************)
(* The messages of echo.pb, for any number of messages, strings, texts and   *)
(* unknown fields and streams of any length.  First the ownership of         *)
(* strings, no part of which is inductive alone: that a string has one owner *)
(* is kept only because a message never writes to, deletes or gives away the *)
(* string that messages without a text share.  On it rests that messages     *)
(* implement EchoValues.  Then what is read back, and what a parse means.    *)
(***************************************************************************)
EXTENDS EchoMessage, SequenceTheorems, WellFoundedInduction, TLAPS

StringTypes ==
  /\ message_ \in [Msg -> Addr \cup {kEmptyString, NoObject}]
  /\ has \in [Msg -> BOOLEAN]
  /\ heap \in [Addr \cup {kEmptyString} -> Text \cup {Free}]
  /\ held \subseteq Addr

StringsInv == StringTypes /\ EveryStringOwnedOnce /\ AbsentReadsEmpty

MessageInv == TypeOK /\ StringsInv

-----------------------------------------------------------------------------
(* The steps operations share.                                              *)

\* A message that exists reads as a text: its string is there.
LEMMA MessageIsText ==
  ASSUME StringsInv, NEW m \in Msg, Exists(m)
  PROVE  message(m) \in Text
  BY MessageAssumption, WireAssumption
  DEF StringsInv, StringTypes, EveryStringOwnedOnce, AbsentReadsEmpty, Exists, Keeps, message

\* To write a text keeps the ownership of strings: set_message, mutable_message,
\* MergeFrom and ReadString.
LEMMA WriteKeeps ==
  ASSUME StringsInv, NEW m \in Msg, Exists(m), NEW t \in Text, Write(m, t), UNCHANGED held
  PROVE  StringsInv'
<1>1. PICK a \in Addr \cup {kEmptyString} :
        Writable(m, a) /\ Points(m, a) /\ heap' = [heap EXCEPT ![a] = t]
  BY DEF Write
<1>2. a \in Addr
  BY <1>1 DEF Writable, Keeps, StringsInv, StringTypes, Exists
<1>3. StringTypes'
  BY <1>1 DEF StringsInv, StringTypes, Write, Bit, Points
<1>4. \A n \in Msg : n # m => message_[n] # a
  BY <1>1, <1>2, MessageAssumption
  DEF Writable, Keeps, StringsInv, StringTypes, EveryStringOwnedOnce, Exists
<1>5. a \notin held
  BY <1>1, <1>2, MessageAssumption
  DEF Writable, Keeps, StringsInv, StringTypes, EveryStringOwnedOnce, Exists
<1>6. EveryStringOwnedOnce'
  BY <1>1, <1>2, <1>4, <1>5, MessageAssumption
  DEF Writable, Points, Keeps, StringsInv, StringTypes, EveryStringOwnedOnce, Exists
<1>7. AbsentReadsEmpty'
  BY <1>1, <1>2, <1>4, MessageAssumption
  DEF Write, Bit, Points, StringsInv, StringTypes, AbsentReadsEmpty, Exists, message
<1>8. QED
  BY <1>3, <1>6, <1>7 DEF StringsInv

\* To empty a message's own string with its bit keeps it too: clear_message and
\* Clear.
LEMMA EmptiedKeeps ==
  ASSUME StringsInv, NEW m \in Msg, Exists(m), heap' = Emptied(m), Bit(m, FALSE),
         UNCHANGED <<message_, held>>
  PROVE  StringsInv'
<1>1. StringTypes'
  BY WireAssumption DEF StringsInv, StringTypes, Emptied, Bit, Exists, Keeps
<1>2. EveryStringOwnedOnce'
  BY MessageAssumption, WireAssumption
  DEF StringsInv, StringTypes, EveryStringOwnedOnce, Emptied, Exists, Keeps
<1>3. AbsentReadsEmpty'
  BY MessageAssumption, WireAssumption
  DEF StringsInv, StringTypes, AbsentReadsEmpty, Emptied, Bit, Exists, Keeps, message
<1>4. QED
  BY <1>1, <1>2, <1>3 DEF StringsInv

-----------------------------------------------------------------------------
(* One lemma per operation.                                                 *)

\* set_message
LEMMA SetMessageKeeps ==
  ASSUME StringsInv, NEW m \in Msg, NEW t \in Text, set_message(m, t)
  PROVE  StringsInv'
  BY WriteKeeps DEF set_message, Ready

\* mutable_message
LEMMA MutableMessageKeeps ==
  ASSUME StringsInv, NEW m \in Msg, mutable_message(m)
  PROVE  StringsInv'
  BY WriteKeeps, MessageIsText DEF mutable_message, Ready

\* clear_message
LEMMA ClearMessageKeeps ==
  ASSUME StringsInv, NEW m \in Msg, clear_message(m)
  PROVE  StringsInv'
  BY EmptiedKeeps DEF clear_message, Ready

\* release_message: the string passes to the user.
LEMMA ReleaseMessageKeeps ==
  ASSUME StringsInv, NEW m \in Msg, release_message(m)
  PROVE  StringsInv'
<1>1. StringTypes'
  BY DEF StringsInv, StringTypes, release_message, Ready, Exists, Keeps, Bit, Points
<1>2. EveryStringOwnedOnce'
  BY MessageAssumption
  DEF StringsInv, StringTypes, EveryStringOwnedOnce, release_message, Ready, Exists,
      Keeps, Points
<1>3. AbsentReadsEmpty'
  BY MessageAssumption
  DEF StringsInv, StringTypes, AbsentReadsEmpty, release_message, Ready, Exists,
      Keeps, Bit, Points, message
<1>4. QED
  BY <1>1, <1>2, <1>3 DEF StringsInv

\* set_allocated_message: a string of the user passes to the message.
LEMMA SetAllocatedMessageKeeps ==
  ASSUME StringsInv, NEW m \in Msg, NEW s \in held \cup {NULL},
         set_allocated_message(m, s)
  PROVE  StringsInv'
<1>1. StringTypes'
  BY MessageAssumption
  DEF StringsInv, StringTypes, set_allocated_message, Ready, Exists, Keeps, Bit, Points,
      Released
<1>2. EveryStringOwnedOnce'
  BY MessageAssumption, WireAssumption
  DEF StringsInv, StringTypes, EveryStringOwnedOnce, set_allocated_message, Ready,
      Exists, Keeps, Points, Released
<1>3. AbsentReadsEmpty'
  BY ZenonT(20), MessageAssumption
  DEF StringsInv, StringTypes, EveryStringOwnedOnce, AbsentReadsEmpty,
      set_allocated_message, Ready, Exists, Keeps, Bit, Points, Released, message
<1>4. QED
  BY <1>1, <1>2, <1>3 DEF StringsInv

\* A new message has no string of its own.
LEMMA ConstructKeeps ==
  ASSUME StringsInv, NEW m \in Msg, Construct(m)
  PROVE  StringsInv'
<1>1. StringTypes'
  BY DEF StringsInv, StringTypes, Construct, Bit, Points
<1>2. EveryStringOwnedOnce'
  BY MessageAssumption
  DEF StringsInv, StringTypes, EveryStringOwnedOnce, Construct, Exists, Keeps, Points
<1>3. AbsentReadsEmpty'
  BY DEF StringsInv, StringTypes, AbsentReadsEmpty, Construct, Exists, Bit, Points, message
<1>4. QED
  BY <1>1, <1>2, <1>3 DEF StringsInv

\* A copy has a string of its own, which nobody had.
LEMMA ConstructFromKeeps ==
  ASSUME StringsInv, NEW m \in Msg, NEW n \in Msg, ConstructFrom(m, n)
  PROVE  StringsInv'
<1>1. CASE has[n]
  <2>1. PICK a \in Addr : /\ heap[a] = Free /\ Points(m, a) /\ Bit(m, TRUE)
                          /\ heap' = [heap EXCEPT ![a] = message(n)]
    BY <1>1 DEF ConstructFrom
  <2>2. message(n) \in Text
    BY MessageIsText DEF ConstructFrom, Ready
  <2>3. StringTypes'
    BY <2>1, <2>2 DEF StringsInv, StringTypes, ConstructFrom, Bit, Points
  <2>4. EveryStringOwnedOnce'
    BY <2>1, <2>2, MessageAssumption
    DEF StringsInv, StringTypes, EveryStringOwnedOnce, ConstructFrom, Exists, Keeps, Points
  <2>5. AbsentReadsEmpty'
    BY <2>1, MessageAssumption, WireAssumption
    DEF StringsInv, StringTypes, EveryStringOwnedOnce, AbsentReadsEmpty, ConstructFrom,
        Exists, Keeps, Bit, Points, message
  <2>6. QED
    BY <2>3, <2>4, <2>5 DEF StringsInv
<1>2. CASE ~has[n]
  <2>1. StringTypes'
    BY <1>2 DEF StringsInv, StringTypes, ConstructFrom, Bit, Points
  <2>2. EveryStringOwnedOnce'
    BY <1>2, MessageAssumption
    DEF StringsInv, StringTypes, EveryStringOwnedOnce, ConstructFrom, Exists, Keeps, Points
  <2>3. AbsentReadsEmpty'
    BY <1>2
    DEF StringsInv, StringTypes, AbsentReadsEmpty, ConstructFrom, Exists, Bit, Points, message
  <2>4. QED
    BY <2>1, <2>2, <2>3 DEF StringsInv
<1>3. QED
  BY <1>1, <1>2 DEF StringsInv, StringTypes

\* The destructor deletes the string that is the message's alone.
LEMMA DestroyKeeps ==
  ASSUME StringsInv, NEW m \in Msg, Destroy(m)
  PROVE  StringsInv'
<1>1. StringTypes'
  BY DEF StringsInv, StringTypes, Destroy, Ready, Exists, Keeps, Bit, Points, Released
<1>2. EveryStringOwnedOnce'
  BY MessageAssumption
  DEF StringsInv, StringTypes, EveryStringOwnedOnce, Destroy, Ready, Exists, Keeps,
      Points, Released
<1>3. AbsentReadsEmpty'
  BY MessageAssumption
  DEF StringsInv, StringTypes, EveryStringOwnedOnce, AbsentReadsEmpty, Destroy, Ready,
      Exists, Keeps, Bit, Points, Released, message
<1>4. QED
  BY <1>1, <1>2, <1>3 DEF StringsInv

\* Clear leaves the string of a message without its bit alone, and may.
LEMMA ClearKeeps ==
  ASSUME StringsInv, NEW m \in Msg, Clear(m)
  PROVE  StringsInv'
<1>1. CASE has[m]
  BY <1>1, EmptiedKeeps DEF Clear, Ready, Wiped
<1>2. CASE ~has[m]
  <2>1. heap' = heap /\ has' = has
    BY <1>2 DEF Clear, Wiped, Bit, StringsInv, StringTypes
  <2>2. QED
    BY <2>1
    DEF Clear, StringsInv, StringTypes, EveryStringOwnedOnce, AbsentReadsEmpty, Exists,
        Keeps, message
<1>3. QED
  BY <1>1, <1>2

\* MergeFrom writes only to the message it is called on.
LEMMA MergeFromKeeps ==
  ASSUME StringsInv, NEW m \in Msg, NEW n \in Msg, MergeFrom(m, n)
  PROVE  StringsInv'
<1>1. CASE has[n]
  BY <1>1, WriteKeeps, MessageIsText DEF MergeFrom, Ready
<1>2. CASE ~has[n]
  BY <1>2
  DEF MergeFrom, StringsInv, StringTypes, EveryStringOwnedOnce, AbsentReadsEmpty, Exists,
      Keeps, message
<1>3. QED
  BY <1>1, <1>2

\* To clear a message before it is written to makes no difference to its string.
LEMMA CopyFromKeeps ==
  ASSUME StringsInv, NEW m \in Msg, NEW n \in Msg, CopyFrom(m, n)
  PROVE  StringsInv'
<1>1. Exists(m) /\ Exists(n) /\ m # n /\ UNCHANGED held
  BY DEF CopyFrom, Ready
<1>2. CASE has[n]
  <2>1. PICK a \in Addr : /\ Writable(m, a) /\ Points(m, a)
                          /\ heap' = [Wiped(m) EXCEPT ![a] = message(n)]
    BY <1>2 DEF CopyFrom
  <2>2. [Wiped(m) EXCEPT ![a] = message(n)] = [heap EXCEPT ![a] = message(n)]
    BY <2>1 DEF Wiped, Emptied, Writable, Keeps, StringsInv, StringTypes
  <2>3. Bit(m, TRUE)
    BY <1>2 DEF CopyFrom, StringsInv, StringTypes
  <2>4. Write(m, message(n))
    BY <2>1, <2>2, <2>3 DEF Write
  <2>5. QED
    BY <1>1, <2>4, WriteKeeps, MessageIsText
<1>3. CASE ~has[n]
  <2>1. /\ Bit(m, FALSE) /\ heap' = Wiped(m) /\ UNCHANGED message_
    BY <1>3 DEF CopyFrom, StringsInv, StringTypes
  <2>2. CASE has[m]
    BY <1>1, <2>1, <2>2, EmptiedKeeps DEF Wiped
  <2>3. CASE ~has[m]
    <3>1. heap' = heap /\ has' = has
      BY <2>1, <2>3 DEF Wiped, Bit, StringsInv, StringTypes
    <3>2. QED
      BY <1>1, <2>1, <3>1
      DEF StringsInv, StringTypes, EveryStringOwnedOnce, AbsentReadsEmpty, Exists, Keeps,
          message
  <2>4. QED
    BY <2>2, <2>3
<1>4. QED
  BY <1>2, <1>3

\* Swap exchanges owners.
LEMMA SwapKeeps ==
  ASSUME StringsInv, NEW m \in Msg, NEW n \in Msg, Swap(m, n)
  PROVE  StringsInv'
<1>1. StringTypes'
  BY DEF StringsInv, StringTypes, Swap
<1>2. EveryStringOwnedOnce'
  BY DEF StringsInv, StringTypes, EveryStringOwnedOnce, Swap, Ready, Exists, Keeps
<1>3. AbsentReadsEmpty'
  BY DEF StringsInv, StringTypes, AbsentReadsEmpty, Swap, Ready, Exists, message
<1>4. QED
  BY <1>1, <1>2, <1>3 DEF StringsInv

\* What is read of a message_ is a text,
LEMMA FieldText ==
  ASSUME NEW f \in Field, f.tag \in {"message", "cut_message"}
  PROVE  f.body \in Text
  BY DEF Field, Message, Other, Ends, Cuts

\* and an unknown field, or what is left of one, is one that is foreign.
LEMMA FieldForeign ==
  ASSUME NEW f \in Field, f.tag \in {"foreign", "cut_foreign"}
  PROVE  f.body \in Foreign
  BY DEF Field, Message, Other, Ends, Cuts

\* What reading a field does to the strings: nothing, or a text is written.
LEMMA ParseFieldWrites ==
  ASSUME TypeOK, StringsInv, ParseField
  PROVE  /\ parsing.into \in Msg /\ Exists(parsing.into) /\ UNCHANGED held
         /\ \/ UNCHANGED <<message_, has, heap>>
            \/ \E t \in Text : Write(parsing.into, t)
<1>1. parsing.into \in Msg /\ Exists(parsing.into) /\ UNCHANGED held
  BY DEF ParseField, TypeOK
<1>2. CASE NoTag
  BY <1>1, <1>2 DEF NoTag
<1>3. CASE ~NoTag
  <2> DEFINE f == parsing.input[parsing.at]
  <2>1. /\ parsing.at <= Len(parsing.input)
        /\ ReadMessage(parsing.into, f) \/ Uninterpreted(parsing.into, f)
    BY <1>3 DEF ParseField
  <2>2. f \in Field
    BY <2>1 DEF TypeOK
  <2>3. CASE ReadMessage(parsing.into, f)
    BY <1>1, <2>2, <2>3, FieldText, MessageIsText DEF ReadMessage
  <2>4. CASE Uninterpreted(parsing.into, f)
    BY <1>1, <2>4 DEF Uninterpreted
  <2>5. QED
    BY <2>1, <2>3, <2>4
<1>4. QED
  BY <1>2, <1>3

\* A turn of the parsing loop.
LEMMA ParseFieldKeeps ==
  ASSUME TypeOK, StringsInv, ParseField
  PROVE  StringsInv'
<1>1. CASE UNCHANGED <<message_, has, heap>>
  BY <1>1, ParseFieldWrites
  DEF StringsInv, StringTypes, EveryStringOwnedOnce, AbsentReadsEmpty, Exists, Keeps, message
<1>2. CASE \E t \in Text : Write(parsing.into, t)
  BY <1>2, ParseFieldWrites, WriteKeeps
<1>3. QED
  BY <1>1, <1>2, ParseFieldWrites

\* The user makes a string,
LEMMA NewStringKeeps ==
  ASSUME StringsInv, NEW t \in Text, NewString(t)
  PROVE  StringsInv'
  BY MessageAssumption
  DEF StringsInv, StringTypes, EveryStringOwnedOnce, AbsentReadsEmpty, NewString, Exists,
      Keeps, message

\* and deletes one of its own.
LEMMA DeleteStringKeeps ==
  ASSUME StringsInv, NEW a \in held, DeleteString(a)
  PROVE  StringsInv'
  BY MessageAssumption
  DEF StringsInv, StringTypes, EveryStringOwnedOnce, AbsentReadsEmpty, DeleteString, Exists,
      Keeps, message

-----------------------------------------------------------------------------
(* Types of the rest.                                                       *)

ParsingTypes ==
  /\ unknown \in [Msg -> Seq(Foreign)]
  /\ parsing \in [into : Msg \cup {NoObject}, from : Value, input : Seq(Field),
                  at : Nat \ {0}, left : BOOLEAN, result : BOOLEAN]
  /\ parsing # Idle => parsing.into \in Msg /\ Exists(parsing.into)

\* Types of the parse: where it begins,
LEMMA IdleTyped ==
  Idle \in [into : Msg \cup {NoObject}, from : Value, input : Seq(Field),
            at : Nat \ {0}, left : BOOLEAN, result : BOOLEAN]
  BY WireAssumption DEF Idle, Blank, Value

\* of the unknown fields it appends,
LEMMA MoreTyped ==
  ASSUME unknown \in [Msg -> Seq(Foreign)], NEW m \in Msg, NEW fields \in Seq(Foreign),
         More(m, fields)
  PROVE  unknown' \in [Msg -> Seq(Foreign)]
<1>1. unknown[m] \o fields \in Seq(Foreign)
  OBVIOUS
<1>2. QED
  BY <1>1 DEF More

\* and through every step.
LEMMA ParsingTypesKept ==
  ASSUME MessageInv, Next
  PROVE  ParsingTypes'
<1> USE DEF MessageInv
<1>1. ASSUME NEW m \in Msg, Accessor(m) PROVE ParsingTypes'
  BY <1>1
  DEF Accessor, set_message, mutable_message, clear_message, release_message,
      set_allocated_message, Ready, TypeOK, ParsingTypes, Idle
<1>2. ASSUME NEW m \in Msg, NEW n \in Msg, Whole(m, n) PROVE ParsingTypes'
  <2>1. unknown[m] \in Seq(Foreign) /\ unknown[n] \in Seq(Foreign) /\ << >> \in Seq(Foreign)
    BY DEF TypeOK
  <2>2. unknown' \in [Msg -> Seq(Foreign)]
    <3>1. CASE MergeFrom(m, n)
      BY <2>1, <3>1, MoreTyped DEF MergeFrom, TypeOK
    <3>2. CASE ~MergeFrom(m, n)
      BY <1>2, <2>1, <3>2
      DEF Whole, Construct, Destroy, Clear, ConstructFrom, CopyFrom, Swap, TypeOK
    <3>3. QED
      BY <3>1, <3>2
  <2>3. parsing' = parsing /\ parsing = Idle
    BY <1>2
    DEF Whole, Construct, Destroy, Clear, ConstructFrom, CopyFrom, Swap, MergeFrom, Ready
  <2>4. QED
    BY <2>2, <2>3 DEF ParsingTypes, TypeOK, Idle
<1>3. ASSUME User PROVE ParsingTypes'
  BY <1>3 DEF User, NewString, DeleteString, TypeOK, ParsingTypes, Idle
<1>4. ASSUME NEW m \in Msg, NEW s \in Stream, MergePartial(m, s) PROVE ParsingTypes'
  <2>1. ValueOf(m) \in Value
    BY <1>4, MessageIsText DEF MergePartial, Ready, TypeOK, ValueOf, Value
  <2>2. s \in Seq(Field)
    BY <1>4 DEF Stream
  <2>3. QED
    BY <1>4, <2>1, <2>2, IdleTyped DEF MergePartial, Ready, Exists, TypeOK, ParsingTypes, Idle
<1>5. ASSUME ParseField PROVE ParsingTypes'
  <2>1. parsing.into \in Msg /\ Exists(parsing.into)
    BY <1>5, ParseFieldWrites
  <2>2. Exists(parsing.into)'
    <3>1. \/ message_' = message_
          \/ \E a \in Addr \cup {kEmptyString} : Points(parsing.into, a)
      BY <1>5, ParseFieldWrites DEF Write
    <3>2. parsing'.into = parsing.into
      BY <1>5 DEF ParseField, NoTag, ReadMessage, Uninterpreted, Goes, Leaves, TypeOK
    <3>3. QED
      BY <2>1, <3>1, <3>2, MessageAssumption DEF Points, Exists, TypeOK
  <2>3. unknown' \in [Msg -> Seq(Foreign)]
    <3> DEFINE f == parsing.input[parsing.at]
    <3>1. CASE UNCHANGED unknown
      BY <3>1 DEF TypeOK
    <3>2. CASE ~UNCHANGED unknown
      <4>1. /\ parsing.at <= Len(parsing.input)
            /\ f.tag \in {"foreign", "cut_foreign"} /\ More(parsing.into, <<f.body>>)
        BY <1>5, <3>2 DEF ParseField, NoTag, ReadMessage, Uninterpreted
      <4>2. f \in Field
        BY <4>1 DEF TypeOK
      <4>3. <<f.body>> \in Seq(Foreign)
        BY <4>1, <4>2, FieldForeign
      <4>4. QED
        BY <2>1, <4>1, <4>3, MoreTyped DEF TypeOK
    <3>3. QED
      BY <3>1, <3>2
  <2>4. parsing' \in [into : Msg \cup {NoObject}, from : Value, input : Seq(Field),
                      at : Nat \ {0}, left : BOOLEAN, result : BOOLEAN]
    <3>1. Goes \/ Leaves(TRUE) \/ Leaves(FALSE)
      BY <1>5 DEF ParseField, NoTag, ReadMessage, Uninterpreted
    <3>2. CASE Goes
      <4>1. parsing.at \in Nat \ {0} /\ parsing.at + 1 \in Nat \ {0}
        BY DEF TypeOK
      <4>2. QED
        BY <3>2, <4>1 DEF Goes, TypeOK
    <3>3. CASE Leaves(TRUE) \/ Leaves(FALSE)
      BY <3>3 DEF Leaves, TypeOK
    <3>4. QED
      BY <3>1, <3>2, <3>3
  <2>5. parsing'.into = parsing.into
    BY <1>5 DEF ParseField, NoTag, ReadMessage, Uninterpreted, Goes, Leaves, TypeOK
  <2>6. QED
    BY <2>1, <2>2, <2>3, <2>4, <2>5 DEF ParsingTypes
<1>6. ASSUME ParseReturns PROVE ParsingTypes'
  BY <1>6, IdleTyped DEF ParseReturns, TypeOK, ParsingTypes
<1>7. QED
  BY <1>1, <1>2, <1>3, <1>4, <1>5, <1>6 DEF Next, Parse

-----------------------------------------------------------------------------
(* The invariant.                                                           *)

\* At the start there is neither message nor string.
LEMMA MessageInit == Init => MessageInv
  BY MessageAssumption, WireAssumption, IdleTyped
  DEF Init, MessageInv, TypeOK, StringsInv, StringTypes, EveryStringOwnedOnce,
      AbsentReadsEmpty, Exists, Keeps

\* Every operation keeps the ownership of strings,
LEMMA StringsKept ==
  ASSUME MessageInv, Next
  PROVE  StringsInv'
<1> USE DEF MessageInv
<1>1. ASSUME NEW m \in Msg, Accessor(m) PROVE StringsInv'
  BY <1>1, SetMessageKeeps, MutableMessageKeeps, ClearMessageKeeps, ReleaseMessageKeeps,
     SetAllocatedMessageKeeps DEF Accessor
<1>2. ASSUME NEW m \in Msg, NEW n \in Msg, Whole(m, n) PROVE StringsInv'
  BY <1>2, ConstructKeeps, DestroyKeeps, ClearKeeps, ConstructFromKeeps, MergeFromKeeps,
     CopyFromKeeps, SwapKeeps DEF Whole
<1>3. ASSUME User PROVE StringsInv'
  BY <1>3, NewStringKeeps, DeleteStringKeeps DEF User
<1>4. ASSUME UNCHANGED <<message_, has, heap, held>> PROVE StringsInv'
  BY <1>4
  DEF StringsInv, StringTypes, EveryStringOwnedOnce, AbsentReadsEmpty, Exists, Keeps, message
<1>5. CASE Parse
  BY <1>4, <1>5, ParseFieldKeeps DEF Parse, MergePartial, ParseReturns
<1>6. QED
  BY <1>1, <1>2, <1>3, <1>5 DEF Next

\* and every step the whole invariant,
LEMMA MessageStep == MessageInv /\ [Next]_vars => MessageInv'
<1>1. ASSUME MessageInv, Next PROVE MessageInv'
  BY <1>1, StringsKept, ParsingTypesKept
  DEF MessageInv, TypeOK, StringsInv, StringTypes, ParsingTypes
<1>2. ASSUME MessageInv, UNCHANGED vars PROVE MessageInv'
  BY <1>2
  DEF vars, MessageInv, TypeOK, StringsInv, StringTypes, EveryStringOwnedOnce,
      AbsentReadsEmpty, Exists, Keeps, message
<1>3. QED
  BY <1>1, <1>2

\* which therefore holds in every state that is reached.
LEMMA MessageInvariant == Spec => []MessageInv
  BY MessageInit, MessageStep, PTL DEF Spec

\* Every variable of the messages keeps its type, and a parse under way its
\* message.
THEOREM MessagesTyped == Spec => []TypeOK
  BY MessageInvariant, PTL DEF MessageInv

\* No sequence of calls of echo.pb.h makes a string leak, be deleted twice, be
\* used after it was deleted, or belong to two messages.
THEOREM StringsOwnedOnce == Spec => []EveryStringOwnedOnce
  BY MessageInvariant, PTL DEF MessageInv, StringsInv

\* A message whose bit is off reads as the empty string, and nothing is ever
\* written to the string such messages share.
THEOREM AbsentIsEmpty == Spec => []AbsentReadsEmpty
  BY MessageInvariant, PTL DEF MessageInv, StringsInv

-----------------------------------------------------------------------------
(* Messages in memory implement messages that are values: EchoMessage       *)
(* refines EchoValues.  It rests on the ownership of strings: what is       *)
(* written through one message is read through no other.                    *)

\* What EchoValues is shown.
Shown(n) == IF Exists(n) THEN ValueOf(n) ELSE NoObject
View == [m \in Msg |-> IF Exists(m) THEN ValueOf(m) ELSE NoObject]

Rec(b, t, u) == [has |-> b, text |-> t, unknown |-> u]

\* What a step makes of a message's unknown fields, and of what it shows.
Unknown(m, u) == unknown' = [unknown EXCEPT ![m] = u]
Shows(m, v) == View' = [View EXCEPT ![m] = v]

\* No string changes but the message's own and those that are made.
OnlyIts(m) ==
  \A a \in Addr \cup {kEmptyString} :
    heap'[a] = heap[a] \/ (Keeps(m) /\ a = message_[m]) \/ heap[a] = Free

\* EchoValues is shown a change of one message.
LEMMA ViewOfOne ==
  ASSUME NEW m \in Msg, NEW v, Shown(m)' = v,
         \A n \in Msg : n # m => Shown(n)' = Shown(n)
  PROVE  Shows(m, v)
  BY DEF View, Shown, Shows

\* What it is shown of a message there is.
LEMMA ViewTyped ==
  ASSUME MessageInv, NEW m \in Msg, Exists(m)
  PROVE  /\ View[m] = Rec(has[m], message(m), unknown[m]) /\ View[m] \in Value
         /\ View[m] # NoObject
         /\ View[m].has = has[m] /\ View[m].text = message(m) /\ View[m].unknown = unknown[m]
<1>1. View[m] = Rec(has[m], message(m), unknown[m])
  BY DEF View, ValueOf, Rec
<1>2. Rec(has[m], message(m), unknown[m]) \in Value
  BY MessageIsText DEF MessageInv, TypeOK, Rec, Value
<1>3. /\ View[m] = ValueOf(m) /\ ValueOf(m).has = has[m] /\ ValueOf(m).text = message(m)
      /\ ValueOf(m).unknown = unknown[m]
  BY DEF View, ValueOf
<1>4. QED
  BY <1>1, <1>2, <1>3, MessageAssumption

\* A string no other message has may change without any other showing it.
LEMMA OwnStringShows ==
  ASSUME MessageInv, NEW m \in Msg, NEW p \in Addr \cup {kEmptyString, NoObject},
         NEW b, NEW u,
         Points(m, p), Bit(m, b), Unknown(m, u), OnlyIts(m)
  PROVE  Shows(m, IF p = NoObject THEN NoObject ELSE Rec(b, heap'[p], u))
<1>1. Shown(m)' = IF p = NoObject THEN NoObject ELSE Rec(b, heap'[p], u)
  BY DEF Shown, Rec, Exists, ValueOf, message, Bit, Points, MessageInv, TypeOK, Unknown
<1>2. ASSUME NEW n \in Msg, n # m PROVE Shown(n)' = Shown(n)
  <2>1. message_'[n] = message_[n] /\ has'[n] = has[n] /\ unknown'[n] = unknown[n]
    BY <1>2 DEF Bit, Points, MessageInv, TypeOK, Unknown
  <2>2. Exists(n) => heap'[message_[n]] = heap[message_[n]]
    <3>1. SUFFICES ASSUME Exists(n) PROVE heap'[message_[n]] = heap[message_[n]]
      OBVIOUS
    <3>2. message_[n] \in Addr \cup {kEmptyString}
      BY <3>1 DEF Exists, MessageInv, TypeOK
    <3>3. heap[message_[n]] # Free
      BY <3>1, MessageIsText, MessageAssumption DEF message, MessageInv
    <3>4. ~(Keeps(m) /\ message_[n] = message_[m])
      BY <1>2, <3>1 DEF MessageInv, StringsInv, EveryStringOwnedOnce, Exists, Keeps
    <3>5. QED
      BY <3>2, <3>3, <3>4 DEF OnlyIts
  <2>3. QED
    BY <2>1, <2>2 DEF Shown, Exists, ValueOf, message
<1>3. QED
  BY <1>1, <1>2, ViewOfOne

\* The only message a written text shows in is the one written to.
LEMMA WriteShows ==
  ASSUME MessageInv, NEW m \in Msg, Exists(m), NEW t \in Text, Write(m, t),
         NEW u, Unknown(m, u)
  PROVE  Shows(m, Rec(TRUE, t, u))
<1>1. PICK a \in Addr \cup {kEmptyString} :
        Writable(m, a) /\ Points(m, a) /\ heap' = [heap EXCEPT ![a] = t]
  BY DEF Write
<1>2. a # NoObject /\ Bit(m, TRUE) /\ heap'[a] = t
  BY <1>1, MessageAssumption DEF Write, MessageInv, TypeOK
<1>3. OnlyIts(m)
  BY <1>1 DEF Writable, OnlyIts, MessageInv, TypeOK
<1>4. QED
  BY <1>1, <1>2, <1>3, OwnStringShows

-----------------------------------------------------------------------------
(* Every operation is one of EchoValues, or shows nothing.                  *)

\* Values with the same fields are the same.
LEMMA SameValue ==
  ASSUME NEW v \in Value, NEW b \in BOOLEAN, NEW t \in Text, NEW u \in Seq(Foreign),
         v.has = b, v.text = t, v.unknown = u
  PROVE  v = Rec(b, t, u)
<1>1. /\ Rec(b, t, u) \in Value
      /\ Rec(b, t, u).has = b /\ Rec(b, t, u).text = t /\ Rec(b, t, u).unknown = u
  BY DEF Rec, Value
<1>2. \A w \in Value : v.has = w.has /\ v.text = w.text /\ v.unknown = w.unknown => v = w
  BY DEF Value
<1>3. QED
  BY <1>1, <1>2

\* The values the operations of EchoValues make of a value.
LEMMA ValueOps ==
  ASSUME NEW v \in Value, NEW t \in Text
  PROVE  /\ Values!Assigned(v, t) = Rec(TRUE, t, v.unknown)
         /\ [v EXCEPT !.has = FALSE, !.text = Empty] = Rec(FALSE, Empty, v.unknown)
<1>1. ASSUME NEW b \in BOOLEAN, NEW s \in Text
      PROVE  [v EXCEPT !.has = b, !.text = s] = Rec(b, s, v.unknown)
  <2> DEFINE w == [v EXCEPT !.has = b, !.text = s]
  <2>1. w \in Value /\ w.has = b /\ w.text = s /\ w.unknown = v.unknown
    BY DEF Value
  <2>2. v.unknown \in Seq(Foreign)
    BY DEF Value
  <2> HIDE DEF w
  <2>3. w = Rec(b, s, v.unknown)
    BY <2>1, <2>2, SameValue
  <2>4. QED
    BY <2>3 DEF w
<1>2. [v EXCEPT !.has = TRUE, !.text = t] = Rec(TRUE, t, v.unknown)
  BY <1>1
<1>3. [v EXCEPT !.has = FALSE, !.text = Empty] = Rec(FALSE, Empty, v.unknown)
  BY <1>1, WireAssumption
<1>4. QED
  BY <1>2, <1>3 DEF Values!Assigned

\* The value with other unknown fields.
LEMMA UnknownOps ==
  ASSUME NEW v \in Value, NEW u \in Seq(Foreign)
  PROVE  [v EXCEPT !.unknown = u] = Rec(v.has, v.text, u)
<1> DEFINE w == [v EXCEPT !.unknown = u]
<1>1. w \in Value /\ w.has = v.has /\ w.text = v.text /\ w.unknown = u
  BY DEF Value
<1>2. v.has \in BOOLEAN /\ v.text \in Text
  BY DEF Value
<1> HIDE DEF w
<1>3. w = Rec(v.has, v.text, u)
  BY <1>1, <1>2, SameValue
<1>4. QED
  BY <1>3 DEF w

\* To show a new text is a step of EchoValues,
LEMMA ShowsText ==
  ASSUME MessageInv, NEW m \in Msg, Exists(m), NEW t \in Text,
         Shows(m, Rec(TRUE, t, unknown[m]))
  PROVE  Values!Change(m)
<1>1. View[m] # NoObject /\ View[m] \in Value /\ View[m].unknown = unknown[m]
  BY ViewTyped
<1>2. Shows(m, Values!Assigned(View[m], t))
  BY <1>1, ValueOps, WireAssumption
<1>3. QED
  BY <1>1, <1>2 DEF Values!Change, Values!Exists, Values!Becomes, View, Shows

\* and so it is to show none.
LEMMA ShowsNoText ==
  ASSUME MessageInv, NEW m \in Msg, Exists(m), Shows(m, Rec(FALSE, Empty, unknown[m]))
  PROVE  Values!Change(m)
<1>1. View[m] # NoObject /\ View[m] \in Value /\ View[m].unknown = unknown[m]
  BY ViewTyped
<1>2. Shows(m, [View[m] EXCEPT !.has = FALSE, !.text = Empty])
  BY <1>1, ValueOps, WireAssumption
<1>3. QED
  BY <1>1, <1>2 DEF Values!Change, Values!Exists, Values!Becomes, View, Shows

\* What an accessor does is seen as a change of its message alone.
LEMMA AccessorShows ==
  ASSUME MessageInv, NEW m \in Msg, Accessor(m)
  PROVE  Values!Change(m)
<1>1. Exists(m) /\ UNCHANGED unknown
  BY DEF Accessor, set_message, mutable_message, clear_message, release_message,
         set_allocated_message, Ready
<1>2. Unknown(m, unknown[m])
  BY <1>1 DEF MessageInv, TypeOK, Unknown
<1>4. ASSUME NEW t \in Text, Write(m, t) PROVE Values!Change(m)
  <2>1. Shows(m, Rec(TRUE, t, unknown[m]))
    BY <1>1, <1>2, <1>4, WriteShows
  <2>2. QED
    BY <1>1, <2>1, ShowsText
<1>6. CASE \E t \in Text : set_message(m, t)
  BY <1>4, <1>6 DEF set_message
<1>7. CASE mutable_message(m)
  BY <1>1, <1>4, <1>7, MessageIsText DEF mutable_message, MessageInv
<1>8. CASE clear_message(m)
  <2>1. /\ Points(m, message_[m]) /\ Bit(m, FALSE)
        /\ message_[m] \in Addr \cup {kEmptyString} /\ message_[m] # NoObject
    BY <1>1, <1>8 DEF clear_message, Points, Exists, MessageInv, TypeOK
  <2>2. OnlyIts(m)
    BY <1>8 DEF clear_message, Emptied, MessageInv, TypeOK, OnlyIts
  <2>3. heap'[message_[m]] = Empty
    BY <1>8, <2>1
    DEF clear_message, Emptied, Keeps, MessageInv, TypeOK, StringsInv, AbsentReadsEmpty
  <2>4. Shows(m, Rec(FALSE, Empty, unknown[m]))
    BY <1>1, <1>2, <2>1, <2>2, <2>3, OwnStringShows
  <2>5. QED
    BY <1>1, <2>4, ShowsNoText
<1>9. CASE release_message(m)
  <2>1. /\ Points(m, kEmptyString) /\ Bit(m, FALSE)
        /\ OnlyIts(m)
        /\ heap'[kEmptyString] = Empty /\ kEmptyString # NoObject
    BY <1>9, MessageAssumption
    DEF release_message, OnlyIts, MessageInv, StringsInv, AbsentReadsEmpty
  <2>2. Shows(m, Rec(FALSE, Empty, unknown[m]))
    BY <1>1, <1>2, <2>1, OwnStringShows
  <2>3. QED
    BY <1>1, <2>2, ShowsNoText
<1>10. ASSUME NEW s \in held \cup {NULL}, set_allocated_message(m, s)
       PROVE  Values!Change(m)
  <2>1. OnlyIts(m)
    BY <1>10 DEF set_allocated_message, Released, MessageInv, TypeOK, OnlyIts
  <2>2. CASE s = NULL
    <3>1. Points(m, kEmptyString) /\ Bit(m, FALSE) /\ kEmptyString # NoObject
      BY <1>10, <2>2, MessageAssumption DEF set_allocated_message, Bit
    <3>2. heap'[kEmptyString] = Empty
      BY <2>1, MessageAssumption, WireAssumption
      DEF OnlyIts, Keeps, MessageInv, StringsInv, AbsentReadsEmpty
    <3>3. Shows(m, Rec(FALSE, Empty, unknown[m]))
      BY <1>1, <1>2, <2>1, <3>1, <3>2, OwnStringShows
    <3>4. QED
      BY <1>1, <3>3, ShowsNoText
  <2>3. CASE s # NULL
    <3>1. /\ s \in held /\ s \in Addr /\ s # NoObject
          /\ Points(m, s) /\ Bit(m, TRUE)
      BY <1>10, <2>3, MessageAssumption
      DEF set_allocated_message, Bit, MessageInv, StringsInv, StringTypes
    <3>2. heap'[s] = heap[s] /\ heap[s] \in Text
      BY <1>1, <2>1, <3>1
      DEF MessageInv, StringsInv, StringTypes, EveryStringOwnedOnce, OnlyIts
    <3>3. Shows(m, Rec(TRUE, heap[s], unknown[m]))
      BY <1>1, <1>2, <2>1, <3>1, <3>2, OwnStringShows
    <3>4. QED
      BY <1>1, <3>2, <3>3, ShowsText
  <2>4. QED
    BY <2>2, <2>3
<1>11. QED
  BY <1>6, <1>7, <1>8, <1>9, <1>10 DEF Accessor

-----------------------------------------------------------------------------
(* Operations on whole messages.                                            *)

\* What MergeFrom makes of two values.
LEMMA MergedOps ==
  ASSUME NEW v \in Value, NEW w \in Value
  PROVE  Values!Merged(v, w) =
           IF w.has THEN Rec(TRUE, w.text, v.unknown \o w.unknown)
                    ELSE Rec(v.has, v.text, v.unknown \o w.unknown)
<1>1. v.unknown \o w.unknown \in Seq(Foreign) /\ v.unknown \in Seq(Foreign) /\ w.text \in Text
  BY DEF Value
<1>2. CASE w.has
  <2> DEFINE a == Rec(TRUE, w.text, v.unknown)
  <2>1. a \in Value /\ a.has = TRUE /\ a.text = w.text /\ a.unknown = v.unknown
    BY <1>1 DEF Rec, Value
  <2>2. Values!Assigned(v, w.text) = a
    BY <1>1, ValueOps
  <2> HIDE DEF a
  <2>3. [a EXCEPT !.unknown = v.unknown \o w.unknown]
        = Rec(TRUE, w.text, v.unknown \o w.unknown)
    BY <1>1, <2>1, UnknownOps
  <2>4. QED
    BY <1>2, <2>1, <2>2, <2>3 DEF Values!Merged
<1>3. CASE ~w.has
  <2>1. [v EXCEPT !.unknown = v.unknown \o w.unknown]
        = Rec(v.has, v.text, v.unknown \o w.unknown)
    BY <1>1, UnknownOps
  <2>2. QED
    BY <1>3, <2>1 DEF Values!Merged
<1>4. QED
  BY <1>2, <1>3

\* What is seen of an operation on whole messages.
LEMMA WholeShows ==
  ASSUME MessageInv, NEW m \in Msg, NEW n \in Msg, Whole(m, n)
  PROVE  Values!Change(m) \/ Values!Take(m, n) \/ Values!Swap(m, n)
<1>1. CASE Construct(m)
  <2>1. /\ Points(m, kEmptyString) /\ Bit(m, FALSE) /\ Unknown(m, << >>) /\ OnlyIts(m)
        /\ heap'[kEmptyString] = Empty /\ kEmptyString # NoObject /\ View[m] = NoObject
    BY <1>1, MessageAssumption
    DEF Construct, Unknown, OnlyIts, MessageInv, StringsInv, AbsentReadsEmpty, View
  <2>2. Shows(m, Rec(FALSE, Empty, << >>))
    BY <2>1, OwnStringShows
  <2>3. Shows(m, Values!Blank)
    BY <2>2 DEF Values!Blank, Rec
  <2>4. QED
    BY <2>1, <2>3 DEF Values!Change, Values!Exists, Values!Becomes, View, Shows
<1>2. CASE Destroy(m)
  <2>1. /\ Points(m, NoObject) /\ Bit(m, FALSE) /\ Unknown(m, << >>) /\ OnlyIts(m)
        /\ Exists(m)
    BY <1>2 DEF Destroy, Ready, Unknown, OnlyIts, Released, MessageInv, TypeOK
  <2>2. Shows(m, NoObject)
    BY <2>1, OwnStringShows
  <2>3. View[m] # NoObject
    BY <2>1, ViewTyped
  <2>4. QED
    BY <2>2, <2>3 DEF Values!Change, Values!Exists, Values!Becomes, View, Shows
<1>3. CASE Clear(m)
  <2>1. Exists(m) /\ message_[m] \in Addr \cup {kEmptyString} /\ message_[m] # NoObject
    BY <1>3 DEF Clear, Ready, Exists, MessageInv, TypeOK
  <2>2. /\ Points(m, message_[m]) /\ Bit(m, FALSE) /\ Unknown(m, << >>) /\ OnlyIts(m)
    BY <1>3
    DEF Clear, Unknown, OnlyIts, Wiped, Emptied, Points, MessageInv, TypeOK
  <2>3. heap'[message_[m]] = Empty
    BY <1>3, <2>1
    DEF Clear, Wiped, Emptied, Keeps, MessageInv, TypeOK, StringsInv, AbsentReadsEmpty,
        message
  <2>4. Shows(m, Rec(FALSE, Empty, << >>))
    BY <2>1, <2>2, <2>3, OwnStringShows
  <2>5. Shows(m, Values!Blank) /\ View[m] # NoObject
    BY <2>1, <2>4, ViewTyped DEF Values!Blank, Rec
  <2>6. QED
    BY <2>5 DEF Values!Change, Values!Exists, Values!Becomes, View, Shows
<1>4. CASE ConstructFrom(m, n)
  <2>1. Exists(n) /\ m # n /\ Unknown(m, unknown[n])
    BY <1>4 DEF ConstructFrom, Ready, Unknown
  <2>2. Shows(m, Rec(has[n], message(n), unknown[n]))
    <3>1. CASE has[n]
      <4>1. PICK a \in Addr : /\ heap[a] = Free /\ Points(m, a) /\ Bit(m, TRUE)
                              /\ heap' = [heap EXCEPT ![a] = message(n)]
        BY <1>4, <3>1 DEF ConstructFrom
      <4>2. OnlyIts(m) /\ a # NoObject /\ heap'[a] = message(n) /\ has[n] = TRUE
        BY <3>1, <4>1, MessageAssumption DEF OnlyIts, MessageInv, TypeOK
      <4>3. Shows(m, Rec(TRUE, message(n), unknown[n]))
        BY <2>1, <4>1, <4>2, OwnStringShows
      <4>4. QED
        BY <4>2, <4>3
    <3>2. CASE ~has[n]
      <4>1. /\ Points(m, kEmptyString) /\ Bit(m, FALSE) /\ OnlyIts(m)
            /\ kEmptyString # NoObject /\ has[n] = FALSE
            /\ heap'[kEmptyString] = message(n)
        BY <1>4, <2>1, <3>2, MessageAssumption
        DEF ConstructFrom, OnlyIts, MessageInv, TypeOK, StringsInv, AbsentReadsEmpty
      <4>2. Shows(m, Rec(FALSE, message(n), unknown[n]))
        BY <2>1, <4>1, OwnStringShows
      <4>3. QED
        BY <4>1, <4>2
    <3>3. QED
      BY <3>1, <3>2
  <2>3. Shows(m, View[n]) /\ View[n] # NoObject
    BY <2>1, <2>2, ViewTyped
  <2>4. QED
    BY <2>1, <2>3 DEF Values!Take, Values!Exists, Values!Becomes, View, Shows
<1>5. CASE MergeFrom(m, n)
  <2>1. /\ Exists(m) /\ Exists(n) /\ m # n
        /\ Unknown(m, unknown[m] \o unknown[n])
    BY <1>5 DEF MergeFrom, Ready, More, Unknown
  <2>2. /\ View[m] \in Value /\ View[n] \in Value /\ View[m] # NoObject
        /\ View[n] # NoObject
        /\ View[m].has = has[m] /\ View[m].text = message(m) /\ View[m].unknown = unknown[m]
        /\ View[n].has = has[n] /\ View[n].text = message(n) /\ View[n].unknown = unknown[n]
    BY <2>1, ViewTyped
  <2>3. Shows(m, Values!Merged(View[m], View[n]))
    <3>1. CASE has[n]
      <4>1. Shows(m, Rec(TRUE, message(n), unknown[m] \o unknown[n]))
        BY <1>5, <2>1, <3>1, WriteShows, MessageIsText DEF MergeFrom, MessageInv
      <4>2. QED
        BY <2>2, <3>1, <4>1, MergedOps
    <3>2. CASE ~has[n]
      <4>1. /\ Points(m, message_[m]) /\ Bit(m, has[m]) /\ OnlyIts(m)
            /\ message_[m] \in Addr \cup {kEmptyString} /\ message_[m] # NoObject
            /\ heap'[message_[m]] = message(m)
        BY <1>5, <2>1, <3>2
        DEF MergeFrom, Points, Bit, OnlyIts, Exists, message, MessageInv, TypeOK
      <4>2. Shows(m, Rec(has[m], message(m), unknown[m] \o unknown[n]))
        BY <2>1, <4>1, OwnStringShows
      <4>3. QED
        BY <2>2, <3>2, <4>2, MergedOps
    <3>3. QED
      BY <3>1, <3>2
  <2>4. QED
    BY <2>1, <2>2, <2>3 DEF Values!Take, Values!Exists, Values!Becomes, View, Shows
<1>6. CASE CopyFrom(m, n)
  <2>1. Exists(m) /\ Exists(n) /\ m # n /\ Unknown(m, unknown[n]) /\ Bit(m, has[n])
    BY <1>6 DEF CopyFrom, Ready, Unknown
  <2>2. OnlyIts(m) /\ \E p \in Addr \cup {kEmptyString} :
          Points(m, p) /\ p # NoObject /\ heap'[p] = message(n)
    <3>1. CASE has[n]
      <4>1. PICK a \in Addr : /\ Writable(m, a) /\ Points(m, a)
                              /\ heap' = [Wiped(m) EXCEPT ![a] = message(n)]
        BY <1>6, <3>1 DEF CopyFrom
      <4>2. OnlyIts(m)
        BY <4>1 DEF Writable, OnlyIts, Wiped, Emptied, MessageInv, TypeOK
      <4>3. heap'[a] = message(n) /\ a # NoObject
        BY <4>1, MessageAssumption DEF Wiped, Emptied, MessageInv, TypeOK
      <4>4. QED
        BY <4>1, <4>2, <4>3
    <3>2. CASE ~has[n]
      <4>1. message_[m] \in Addr \cup {kEmptyString} /\ message_[m] # NoObject
        BY <2>1 DEF Exists, MessageInv, TypeOK
      <4>2. Points(m, message_[m]) /\ heap' = Wiped(m) /\ OnlyIts(m)
        BY <1>6, <3>2 DEF CopyFrom, Points, OnlyIts, Wiped, Emptied, MessageInv, TypeOK
      <4>3. heap'[message_[m]] = Empty
        BY <2>1, <4>1, <4>2
        DEF Wiped, Emptied, Keeps, message, MessageInv, TypeOK, StringsInv,
            AbsentReadsEmpty
      <4>4. message(n) = Empty
        BY <2>1, <3>2 DEF MessageInv, StringsInv, AbsentReadsEmpty
      <4>5. QED
        BY <4>1, <4>2, <4>3, <4>4
    <3>3. QED
      BY <3>1, <3>2
  <2>3. Shows(m, Rec(has[n], message(n), unknown[n]))
    BY <2>1, <2>2, OwnStringShows
  <2>4. Shows(m, View[n]) /\ View[n] # NoObject
    BY <2>1, <2>3, ViewTyped
  <2>5. QED
    BY <2>1, <2>4 DEF Values!Take, Values!Exists, Values!Becomes, View, Shows
<1>7. CASE Swap(m, n)
  <2>1. Exists(m) /\ Exists(n)
    BY <1>7 DEF Swap, Ready
  <2>2. \A o \in Msg : Shown(o)' = IF o = n THEN Shown(m) ELSE IF o = m THEN Shown(n)
                                   ELSE Shown(o)
    BY <1>7 DEF Swap, Shown, Exists, ValueOf, message, MessageInv, TypeOK
  <2>3. View' = [View EXCEPT ![m] = View[n], ![n] = View[m]]
    BY <2>2 DEF View, Shown
  <2>4. View[m] # NoObject /\ View[n] # NoObject
    BY <2>1, ViewTyped
  <2>5. QED
    BY <2>3, <2>4 DEF Values!Swap, Values!Exists, View
<1>8. QED
  BY <1>1, <1>2, <1>3, <1>4, <1>5, <1>6, <1>7 DEF Whole

-----------------------------------------------------------------------------
(* Parsing.                                                                 *)

\* A step that leaves the fields and the strings of all messages alone shows nothing.
LEMMA NothingShows ==
  ASSUME MessageInv, UNCHANGED <<message_, has, unknown>>,
         \A a \in Addr \cup {kEmptyString} :
           heap'[a] = heap[a] \/ heap[a] = Free \/ a \in held
  PROVE  View' = View
<1>1. ASSUME NEW m \in Msg, Exists(m) PROVE heap'[message_[m]] = heap[message_[m]]
  <2>1. heap[message_[m]] # Free
    BY <1>1, MessageIsText, MessageAssumption DEF message, MessageInv
  <2>2. message_[m] \in Addr \cup {kEmptyString} /\ message_[m] \notin held
    BY <1>1, MessageAssumption
    DEF Exists, Keeps, MessageInv, StringsInv, StringTypes, EveryStringOwnedOnce
  <2>3. QED
    BY <2>1, <2>2
<1>2. QED
  BY <1>1 DEF View, Exists, ValueOf, message

\* A field echo.proto does not name, or a part of it, is kept at the end of the others.
LEMMA ForeignShows ==
  ASSUME MessageInv, NEW m \in Msg, Exists(m), NEW f \in Field,
         f.tag \in {"foreign", "cut_foreign"},
         Shows(m, Rec(has[m], message(m), Append(unknown[m], f.body)))
  PROVE  Values!Change(m)
<1>1. f.body \in Foreign /\ f \in Values!Field
  BY FieldForeign
  DEF Field, Values!Field, Message, Values!Message, Other, Values!Other, Ends, Values!Ends,
      Cuts, Values!Cuts
<1>2. /\ View[m] \in Value /\ View[m] # NoObject
      /\ View[m].has = has[m] /\ View[m].text = message(m) /\ View[m].unknown = unknown[m]
  BY ViewTyped
<1>3. Append(unknown[m], f.body) \in Seq(Foreign)
  BY <1>1 DEF MessageInv, TypeOK
<1>4. [View[m] EXCEPT !.unknown = Append(View[m].unknown, f.body)]
      = Rec(has[m], message(m), Append(unknown[m], f.body))
  BY <1>2, <1>3, UnknownOps
<1>5. Values!ParsedField(View[m], f).value
      = [View[m] EXCEPT !.unknown = Append(View[m].unknown, f.body)]
  BY DEF Values!ParsedField
<1>6. Shows(m, Values!ParsedField(View[m], f).value)
  BY <1>4, <1>5
<1>7. QED
  BY <1>1, <1>2, <1>6 DEF Values!Change, Values!Exists, Values!Becomes, View, Shows

\* A turn of the parsing loop is seen as ParsedField of its message.
LEMMA ParseFieldShows ==
  ASSUME MessageInv, ParseField
  PROVE  View' = View \/ \E m \in Msg : Values!Change(m)
<1> DEFINE m == parsing.into
<1>1. m \in Msg /\ Exists(m) /\ UNCHANGED held
  BY ParseFieldWrites DEF MessageInv
<1>2. CASE UNCHANGED <<message_, has, unknown, heap>>
  BY <1>2, NothingShows
<1>3. ASSUME NEW t \in Text, Write(m, t), UNCHANGED unknown PROVE Values!Change(m)
  <2>1. Unknown(m, unknown[m])
    BY <1>1, <1>3 DEF Unknown, MessageInv, TypeOK
  <2> HIDE DEF m
  <2>2. Shows(m, Rec(TRUE, t, unknown[m]))
    BY <1>1, <1>3, <2>1, WriteShows
  <2>3. QED
    BY <1>1, <2>2, ShowsText
<1>4. CASE NoTag
  BY <1>2, <1>4 DEF NoTag
<1>5. CASE ~NoTag
  <2> DEFINE f == parsing.input[parsing.at]
  <2>1. /\ parsing.at <= Len(parsing.input)
        /\ ReadMessage(m, f) \/ Uninterpreted(m, f)
    BY <1>5 DEF ParseField
  <2>2. f \in Field
    BY <2>1 DEF MessageInv, TypeOK
  <2>3. CASE ReadMessage(m, f)
    <3>0. message(m) \in Text
      BY <1>1, MessageIsText DEF MessageInv
    <3>1. PICK t \in Text : Write(m, t) /\ UNCHANGED unknown
      BY <2>2, <2>3, <3>0, FieldText DEF ReadMessage
    <3>2. QED
      BY <1>1, <1>3, <3>1
  <2>4. CASE Uninterpreted(m, f)
    <3>1. CASE f.tag \in {"foreign", "cut_foreign"}
      <4>1. More(m, <<f.body>>) /\ UNCHANGED <<message_, has, heap>>
        BY <2>4, <3>1 DEF Uninterpreted
      <4>2. unknown[m] \o <<f.body>> = Append(unknown[m], f.body)
        BY <1>1, <2>2, <3>1, FieldForeign DEF MessageInv, TypeOK
      <4> HIDE DEF m, f
      <4>3. /\ Points(m, message_[m]) /\ Bit(m, has[m]) /\ OnlyIts(m)
            /\ message_[m] \in Addr \cup {kEmptyString} /\ message_[m] # NoObject
            /\ heap'[message_[m]] = message(m)
        BY <1>1, <4>1 DEF Points, Bit, OnlyIts, Exists, message, MessageInv, TypeOK
      <4>4. Unknown(m, Append(unknown[m], f.body))
        BY <4>1, <4>2 DEF More, Unknown
      <4>5. Shows(m, Rec(has[m], message(m), Append(unknown[m], f.body)))
        BY <1>1, <4>3, <4>4, OwnStringShows
      <4>6. QED
        BY <1>1, <2>2, <3>1, <4>5, ForeignShows
    <3>2. CASE f.tag \notin {"foreign", "cut_foreign"}
      BY <1>2, <2>4, <3>2 DEF Uninterpreted
    <3>3. QED
      BY <3>1, <3>2
  <2>5. QED
    BY <2>1, <2>3, <2>4
<1>6. QED
  BY <1>4, <1>5

-----------------------------------------------------------------------------

\* EchoValues begins without messages,
LEMMA InitShows == Init => Values!Init
  BY DEF Init, Values!Init, Exists

\* and every step is one of it, or nothing that is seen.
LEMMA NextShows ==
  ASSUME MessageInv, [Next]_vars
  PROVE  Values!Next \/ View' = View
<1>1. CASE \E m \in Msg : Accessor(m)
  BY <1>1, AccessorShows DEF Values!Next
<1>2. CASE \E m, n \in Msg : Whole(m, n)
  BY <1>2, WholeShows DEF Values!Next
<1>3. CASE User
  <2>1. \A a \in Addr \cup {kEmptyString} :
          heap'[a] = heap[a] \/ heap[a] = Free \/ a \in held
    BY <1>3 DEF User, NewString, DeleteString, MessageInv, TypeOK
  <2>2. QED
    BY <1>3, <2>1, NothingShows DEF User, NewString, DeleteString
<1>4. CASE Parse
  <2>1. CASE ParseField
    BY <2>1, ParseFieldShows DEF Values!Next
  <2>2. CASE ~ParseField
    BY <1>4, <2>2, NothingShows DEF Parse, MergePartial, ParseReturns
  <2>3. QED
    BY <2>1, <2>2
<1>5. CASE UNCHANGED vars
  BY <1>5, NothingShows DEF vars
<1>6. QED
  BY <1>1, <1>2, <1>3, <1>4, <1>5 DEF Next

\* Messages in memory implement messages that are values, for any number of them:
\* no operation on an EchoRequest ever shows in another.
THEOREM MessagesAreValues == Spec => ImplementsValues
<1>1. MessageInv /\ [Next]_vars => [Values!Next]_View
  BY NextShows
<1>2. Spec => []MessageInv
  BY MessageInvariant
<1>3. QED
  BY <1>1, <1>2, InitShows, PTL DEF Spec, ImplementsValues, Values!Spec, View

-----------------------------------------------------------------------------
(* What is read is what was written.                                        *)

\* A set of numbers has a least one: what induction rests on here.
LEMMA LeastNat ==
  ASSUME NEW T, T \subseteq Nat, T # {}
  PROVE  \E x \in T : \A y \in T : x <= y
<1> DEFINE R == {ss \in Nat \X Nat : ss[1] < ss[2]}
<1>1. R = OpToRel(<, Nat)
  BY Zenon DEF OpToRel
<1>2. IsWellFoundedOn(R, Nat)
  BY <1>1, NatLessThanWellFounded, Zenon
<1> HIDE DEF R
<1>3. PICK x \in T : \A y \in T : <<y, x>> \notin R
  BY <1>2, WFMin
<1>4. \A y \in T : ~(y < x)
  BY <1>3 DEF R
<1> QED
  BY <1>4

\* An account of the turns of a parse: it begins with the message as it was, and takes
\* every field in its turn.
Accounts(turns, v, input, n) ==
  \A k \in 0 .. n :
    turns[k] = IF k = 0 THEN [value |-> v, left |-> FALSE, result |-> TRUE]
               ELSE IF turns[k - 1].left THEN turns[k - 1]
               ELSE ParsedField(turns[k - 1].value, input[k])

\* Parsing goes as any account of its turns does, for streams of any length.
LEMMA ParsedBy ==
  ASSUME NEW v, NEW input, NEW n \in Nat, Len(input) = n, NEW turns,
         Accounts(turns, v, input, n)
  PROVE  Parsed(v, input) = turns[n]
<1> DEFINE Turn(a, k) ==
             IF k = 0 THEN [value |-> v, left |-> FALSE, result |-> TRUE]
             ELSE IF a[k - 1].left THEN a[k - 1]
             ELSE ParsedField(a[k - 1].value, input[k])
           body(a) == [k \in 0 .. n |-> Turn(a, k)]
           after == CHOOSE a : a = body(a)
           T == {k \in 0 .. n : after[k] # turns[k]}
           account == [k \in 0 .. n |-> turns[k]]
<1>1. account = body(account)
  <2>1. ASSUME NEW k \in 0 .. n PROVE turns[k] = Turn(account, k)
    <3>1. k # 0 => k - 1 \in 0 .. n
      OBVIOUS
    <3> QED
      BY <3>1 DEF Accounts
  <2> HIDE DEF Turn
  <2> QED
    BY <2>1
<1>2. after = body(after)
  <2> HIDE DEF body, account
  <2> QED
    BY <1>1
<1>3. Parsed(v, input) = after[n]
  BY DEF Parsed
<1> HIDE DEF after
<1>4. ASSUME T # {} PROVE FALSE
  <2>1. PICK k \in T : \A j \in T : k <= j
    <3>1. T \subseteq Nat
      OBVIOUS
    <3> QED
      BY <1>4, <3>1, LeastNat
  <2>2. k \in 0 .. n /\ after[k] # turns[k]
    OBVIOUS
  <2>3. after[k] = Turn(after, k) /\ turns[k] = Turn(turns, k)
    <3>1. turns[k] = Turn(turns, k)
      BY <2>2 DEF Accounts
    <3> HIDE DEF Turn
    <3> QED
      BY <1>2, <2>2, <3>1
  <2>4. CASE k = 0
    BY <2>2, <2>3, <2>4
  <2>5. CASE k # 0
    <3>1. k - 1 \in 0 .. n /\ ~(k <= k - 1)
      BY <2>2, <2>5
    <3>2. after[k - 1] = turns[k - 1]
      BY <2>1, <3>1
    <3> QED
      BY <2>2, <2>3, <2>5, <3>2
  <2> QED
    BY <2>4, <2>5
<1>5. after[n] = turns[n]
  <2>1. n \in 0 .. n
    OBVIOUS
  <2> QED
    BY <1>4, <2>1
<1> QED
  BY <1>3, <1>5

\* Unknown fields are written one by one.
LEMMA OthersWritten ==
  ASSUME NEW u \in Seq(Foreign)
  PROVE  /\ Others(u) \in Seq(Field) /\ Len(Others(u)) = Len(u) /\ Len(u) \in Nat
         /\ \A j \in 1 .. Len(u) : u[j] \in Foreign /\ Others(u)[j] = Other(u[j])
<1>1. Len(u) \in Nat /\ DOMAIN u = 1 .. Len(u) /\ \A j \in 1 .. Len(u) : u[j] \in Foreign
  OBVIOUS
<1>2. \A f \in Foreign : Other(f) \in Field
  BY DEF Field
<1>3. Others(u) = [j \in 1 .. Len(u) |-> Other(u[j])]
  BY <1>1 DEF Others
<1> HIDE DEF Others
<1>4. Others(u) \in Seq(Field) /\ Len(Others(u)) = Len(u)
  <2>1. \A j \in 1 .. Len(u) : Other(u[j]) \in Field
    BY <1>1, <1>2
  <2> QED
    BY <1>1, <1>3, <2>1
<1> QED
  BY <1>1, <1>3, <1>4

\* To parse what was written of a value w into a message of value v merges w into v,
\* however many unknown fields there are.
LEMMA ParsedSerialized ==
  ASSUME NEW v \in Value, NEW w \in Value
  PROVE  Parsed(v, Serialized(w)) = [value |-> Merged(v, w), left |-> FALSE, result |-> TRUE]
<1> DEFINE u == w.unknown
           first == IF w.has THEN <<Message(w.text)>> ELSE << >>
           h == IF w.has THEN 1 ELSE 0
           base == IF w.has THEN Assigned(v, w.text) ELSE v
           Read(j) == [base EXCEPT !.unknown = v.unknown \o SubSeq(u, 1, j)]
           n == Len(Serialized(w))
           Onward(x) == [value |-> x, left |-> FALSE, result |-> TRUE]
           turns == [k \in 0 .. n |-> IF k < h THEN Onward(v) ELSE Onward(Read(k - h))]
<1>1. /\ w.has \in BOOLEAN /\ w.text \in Text /\ u \in Seq(Foreign) /\ Len(u) \in Nat
      /\ v.unknown \in Seq(Foreign)
  BY DEF Value
<1>2. base \in Value /\ base.unknown = v.unknown
  BY <1>1 DEF Assigned, Value
<1>3. h \in 0 .. 1 /\ (h = 1 <=> w.has) /\ first \in Seq(Field) /\ Len(first) = h
  <2>1. Message(w.text) \in Field
    BY <1>1 DEF Field
  <2> QED
    BY <1>1, <2>1
<1>4. /\ n = h + Len(u) /\ n \in Nat
      /\ h = 1 => Serialized(w)[1] = Message(w.text)
      /\ \A k \in h + 1 .. n : Serialized(w)[k] = Other(u[k - h])
  <2>1. Serialized(w) = first \o Others(u)
    BY DEF Serialized
  <2> HIDE DEF first, h, u
  <2>2. /\ Len(Serialized(w)) = h + Len(u)
        /\ \A k \in 1 .. h + Len(u) :
             Serialized(w)[k] = IF k <= h THEN first[k] ELSE Others(u)[k - h]
    BY <1>1, <1>3, <2>1, OthersWritten, ConcatProperties
  <2>3. h = 1 => first[1] = Message(w.text)
    BY <1>3 DEF first
  <2>4. h \in Nat /\ n = h + Len(u) /\ n \in Nat
    BY <1>1, <1>3, <2>2
  <2>5. ASSUME NEW k \in h + 1 .. n PROVE Serialized(w)[k] = Other(u[k - h])
    <3>1. k \in 1 .. h + Len(u) /\ ~(k <= h) /\ k - h \in 1 .. Len(u)
      BY <1>1, <2>4
    <3> QED
      BY <1>1, <2>2, <3>1, OthersWritten
  <2>6. h = 1 => Serialized(w)[1] = Message(w.text)
    BY <1>1, <2>2, <2>3
  <2> QED
    BY <2>4, <2>5, <2>6
<1> HIDE DEF n
<1>5. Read(0) = base
  <2>1. SubSeq(u, 1, 0) = << >>
    BY SubSeqEmpty
  <2>2. v.unknown \o << >> = v.unknown
    BY <1>1, ConcatEmptySeq
  <2>3. [base EXCEPT !.unknown = base.unknown] = base
    BY <1>2 DEF Value
  <2> QED
    BY <1>2, <2>1, <2>2, <2>3
<1>6. Read(Len(u)) = Merged(v, w)
  <2>1. SubSeq(u, 1, Len(u)) = u
    BY <1>1, SubSeqFull
  <2>2. Merged(v, w) = [base EXCEPT !.unknown = base.unknown \o u]
    BY DEF Merged
  <2> QED
    BY <1>2, <2>1, <2>2
<1>7. ASSUME NEW j \in 1 .. Len(u)
      PROVE  Read(j) = [Read(j - 1) EXCEPT !.unknown = Append(@, u[j])]
  <2> DEFINE before == v.unknown \o SubSeq(u, 1, j - 1)
  <2>1. SubSeq(u, 1, j) = SubSeq(u, 1, j - 1) \o <<u[j]>>
    BY <1>1, SubSeqRecursiveSecond
  <2>2. SubSeq(u, 1, j - 1) \in Seq(Foreign) /\ u[j] \in Foreign /\ <<u[j]>> \in Seq(Foreign)
    <3>1. \A i \in 1 .. j - 1 : u[i] \in Foreign
      BY <1>1
    <3>2. SubSeq(u, 1, j - 1) \in Seq(Foreign)
      BY <1>1, <3>1, SubSeqProperties
    <3> QED
      BY <1>1, <3>2
  <2>3. v.unknown \o SubSeq(u, 1, j) = before \o <<u[j]>>
    <3>1. \A a, b, c \in Seq(Foreign) : (a \o b) \o c = a \o (b \o c)
      BY SMTT(20), ConcatAssociative
    <3>2. (v.unknown \o SubSeq(u, 1, j - 1)) \o <<u[j]>>
            = v.unknown \o (SubSeq(u, 1, j - 1) \o <<u[j]>>)
      BY <1>1, <2>2, <3>1, Zenon
    <3> QED
      BY <2>1, <3>2
  <2>4. before \in Seq(Foreign) /\ before \o <<u[j]>> = Append(before, u[j])
    <3>1. before \in Seq(Foreign)
      BY <1>1, <2>2, ConcatProperties
    <3> HIDE DEF before
    <3> QED
      BY <2>2, <3>1, AppendIsConcat
  <2>5. \A s : [base EXCEPT !.unknown = s].unknown = s
    BY <1>2 DEF Value
  <2>6. \A s, r :
          [[base EXCEPT !.unknown = s] EXCEPT !.unknown = r] = [base EXCEPT !.unknown = r]
    BY <1>2 DEF Value
  <2> HIDE DEF base
  <2> QED
    BY <2>3, <2>4, <2>5, <2>6
<1>8. \A k \in 0 .. n : turns[k] = IF k < h THEN Onward(v) ELSE Onward(Read(k - h))
  OBVIOUS
<1>9. ASSUME NEW k \in 0 .. n
      PROVE  turns[k] = IF k = 0 THEN Onward(v)
                        ELSE IF turns[k - 1].left THEN turns[k - 1]
                        ELSE ParsedField(turns[k - 1].value, Serialized(w)[k])
  <2> HIDE DEF h, Read, base, u, turns
  <2>1. CASE k = 0
    <3>1. turns[0] = IF 0 < h THEN Onward(v) ELSE Onward(Read(0 - h))
      BY <1>8, <2>1
    <3>2. CASE h = 0
      <4>1. base = v
        BY <1>3, <3>2 DEF base
      <4>2. 0 - h = 0 /\ ~(0 < h)
        BY <3>2
      <4> QED
        BY <1>5, <2>1, <3>1, <4>1, <4>2
    <3>3. CASE h = 1
      BY <2>1, <3>1, <3>3
    <3> QED
      BY <1>3, <3>2, <3>3
  <2>2. CASE k # 0
    <3>1. k - 1 \in 0 .. n /\ k \in 1 .. n
      BY <1>4, <2>2
    <3>2. CASE k - 1 < h
      <4>1. h = 1 /\ k = 1
        BY <1>3, <3>1, <3>2
      <4>2. turns[0] = Onward(v) /\ turns[1] = Onward(base)
        <5>1. 0 \in 0 .. n /\ 1 \in 0 .. n /\ 0 < h /\ ~(1 < h) /\ 1 - h = 0
          BY <1>4, <3>1, <4>1
        <5> QED
          BY <1>5, <1>8, <5>1
      <4>3. ParsedField(v, Message(w.text)) = Onward(base)
        BY <1>3, <4>1 DEF ParsedField, Message, base
      <4> QED
        BY <1>4, <4>1, <4>2, <4>3
    <3>3. CASE ~(k - 1 < h)
      <4> DEFINE j == k - h
      <4>1. j \in 1 .. Len(u) /\ k - 1 - h = j - 1 /\ ~(k < h) /\ k \in h + 1 .. n
        BY <1>1, <1>3, <1>4, <3>1, <3>3
      <4>2. turns[k - 1] = Onward(Read(j - 1)) /\ turns[k] = Onward(Read(j))
        BY <1>8, <3>1, <3>3, <4>1
      <4>3. Serialized(w)[k] = Other(u[j])
        BY <1>4, <4>1
      <4>4. ParsedField(Read(j - 1), Other(u[j])) = Onward(Read(j))
        BY <1>7, <4>1 DEF ParsedField, Other
      <4> HIDE DEF j
      <4> QED
        BY <2>2, <4>2, <4>3, <4>4
    <3> QED
      BY <3>2, <3>3
  <2> QED
    BY <2>1, <2>2
<1>10. Parsed(v, Serialized(w)) = turns[n]
  <2> HIDE DEF turns
  <2>1. Len(Serialized(w)) = n
    BY DEF n
  <2>2. Accounts(turns, v, Serialized(w), n)
    BY <1>9 DEF Accounts
  <2>3. ASSUME NEW a, Accounts(a, v, Serialized(w), n)
        PROVE  Parsed(v, Serialized(w)) = a[n]
    <3> HIDE DEF n, u, first, h, base, Read, Onward
    <3>1. n \in Nat
      BY <1>4
    <3> DEFINE input == Serialized(w)
    <3>2. Len(input) = n /\ Accounts(a, v, input, n)
      BY <2>1, <2>3
    <3> HIDE DEF input
    <3>3. Parsed(v, input) = a[n]
      BY <3>1, <3>2, ParsedBy
    <3> QED
      BY <3>3 DEF input
  <2> QED
    BY <2>2, <2>3
<1>11. turns[n] = Onward(Read(Len(u)))
  <2> HIDE DEF turns, Read, h, u
  <2>1. n \in 0 .. n /\ ~(n < h) /\ n - h = Len(u)
    BY <1>1, <1>3, <1>4
  <2> QED
    BY <1>8, <2>1
<1> QED
  BY <1>6, <1>10, <1>11

\* What merging makes of two values.
LEMMA MergedIs ==
  ASSUME NEW v \in Value, NEW w \in Value
  PROVE  Merged(v, w) =
           IF w.has THEN Rec(TRUE, w.text, v.unknown \o w.unknown)
                    ELSE Rec(v.has, v.text, v.unknown \o w.unknown)
<1>1. Merged(v, w) = Values!Merged(v, w)
  BY DEF Merged, Assigned, Values!Merged, Values!Assigned
<1> QED
  BY <1>1, MergedOps

\* A value whose text is empty when its bit is off.
Canonical(w) == w \in Value /\ (~w.has => w.text = Empty)

\* Merged into a new message, or into one that was cleared, such a value is itself.
LEMMA MergedIntoBlank ==
  ASSUME NEW v, NEW w, Canonical(v), Canonical(w)
  PROVE  Blank \in Value /\ Merged(Blank, w) = w /\ Cleared(v) = Blank
<1>1. /\ w \in Value /\ w.has \in BOOLEAN /\ w.text \in Text /\ w.unknown \in Seq(Foreign)
      /\ ~w.has => w.text = Empty
  BY DEF Canonical, Value
<1>2. /\ Blank \in Value /\ Blank.has = FALSE /\ Blank.text = Empty
      /\ Blank.unknown = << >>
  BY WireAssumption DEF Blank, Value
<1>3. << >> \o w.unknown = w.unknown
  BY <1>1, ConcatEmptySeq
<1>4. Merged(Blank, w) = Rec(w.has, w.text, w.unknown)
  <2>1. CASE w.has
    <3>1. w.has = TRUE
      BY <1>1, <2>1
    <3> QED
      BY <1>1, <1>2, <1>3, <3>1, MergedIs
  <2>2. CASE ~w.has
    <3>1. w.has = FALSE
      BY <1>1, <2>2
    <3> QED
      BY <1>1, <1>2, <1>3, <3>1, MergedIs
  <2> QED
    BY <2>1, <2>2
<1>5. w = Rec(w.has, w.text, w.unknown)
  BY <1>1, SameValue
<1>6. Cleared(v) = Blank
  <2>1. (IF v.has THEN Empty ELSE v.text) = Empty
    BY DEF Canonical
  <2>2. [Blank EXCEPT !.text = Empty] = Blank
    BY <1>2 DEF Value
  <2> QED
    BY <2>1, <2>2 DEF Cleared
<1> QED
  BY <1>2, <1>4, <1>5, <1>6

\* The value of a message there is, and what is written of it.
LEMMA CanonicalValue ==
  ASSUME MessageInv, NEW m \in Msg, Exists(m)
  PROVE  Canonical(ValueOf(m)) /\ Written(m) = Serialized(ValueOf(m))
<1>1. /\ ValueOf(m) \in Value
      /\ ValueOf(m).has = has[m] /\ ValueOf(m).text = message(m)
      /\ ValueOf(m).unknown = unknown[m]
  <2>1. View[m] = ValueOf(m)
    BY DEF View
  <2> QED
    BY <2>1, ViewTyped
<1>2. ~has[m] => message(m) = Empty
  BY DEF MessageInv, StringsInv, AbsentReadsEmpty
<1> QED
  BY <1>1, <1>2 DEF Canonical, Written, Serialized

\* Every invariant-state's message reads back from its own bytes: RoundTrip.
LEMMA ReadsBack == MessageInv => RoundTrip
<1> SUFFICES ASSUME MessageInv, NEW m \in Msg, Exists(m)
             PROVE  /\ Parsed(Blank, Written(m)).value = ValueOf(m)
                    /\ Parsed(Blank, Written(m)).result
                    /\ Written(m) = Serialized(ValueOf(m))
  BY DEF RoundTrip
<1> DEFINE w == ValueOf(m)
<1>1. Canonical(w) /\ Written(m) = Serialized(w)
  BY CanonicalValue
<1> HIDE DEF w
<1>2. Blank \in Value /\ w \in Value /\ Merged(Blank, w) = w
  BY <1>1, MergedIntoBlank DEF Canonical
<1>3. Parsed(Blank, Serialized(w)) = [value |-> w, left |-> FALSE, result |-> TRUE]
  BY <1>2, ParsedSerialized
<1>4. Parsed(Blank, Written(m)).value = w /\ Parsed(Blank, Written(m)).result
  BY <1>1, <1>3
<1> QED
  BY <1>1, <1>4 DEF w

\* Its bytes parsed into another message are that value merged into the other's.
LEMMA ParsesAsMerges == MessageInv => ParsingMerges
<1> SUFFICES ASSUME MessageInv, NEW m \in Msg, NEW n \in Msg, Exists(m), Exists(n)
             PROVE  /\ Parsed(ValueOf(m), Written(n)).value = Merged(ValueOf(m), ValueOf(n))
                    /\ Parsed(Cleared(ValueOf(m)), Written(n)).value = ValueOf(n)
                    /\ Copied(ValueOf(m), ValueOf(n)) = ValueOf(n)
  BY DEF ParsingMerges
<1> DEFINE v == ValueOf(m)
           w == ValueOf(n)
<1>1. Canonical(v) /\ Canonical(w) /\ Written(n) = Serialized(w)
  BY CanonicalValue
<1> HIDE DEF v, w
<1>2. /\ v \in Value /\ w \in Value /\ Blank \in Value
      /\ Merged(Blank, w) = w /\ Cleared(v) = Blank
  BY <1>1, MergedIntoBlank DEF Canonical
<1>3. \A x \in Value : Parsed(x, Serialized(w)).value = Merged(x, w)
  BY <1>2, ParsedSerialized
<1>4. /\ Parsed(v, Written(n)).value = Merged(v, w)
      /\ Parsed(Cleared(v), Written(n)).value = w
      /\ Copied(v, w) = w
  BY <1>1, <1>2, <1>3 DEF Copied
<1> QED
  BY <1>4 DEF v, w

\* Whatever calls made a message, what is written of it reads back as the same value,
\* with any number of unknown fields.
THEOREM ReadBackAsWritten == Spec => []RoundTrip
  BY MessageInvariant, ReadsBack, PTL

\* To parse the bytes of a message into another is MergeFrom, and after Clear it is
\* CopyFrom, for messages of any contents.
THEOREM ParsingIsMerging == Spec => []ParsingMerges
  BY MessageInvariant, ParsesAsMerges, PTL
-----------------------------------------------------------------------------
(* What a parse makes of a message.                                         *)

\* The places before the end are those before the first end mark.
LEMMA EndFound ==
  ASSUME NEW s, Len(s) \in Nat, NEW K \in 0 .. Len(s),
         \A i \in 1 .. K : s[i] \notin Ends,
         K < Len(s) => s[K + 1] \in Ends
  PROVE  BeforeEnd(s) = 1 .. K
<1> DEFINE First(k) == /\ k <= Len(s) => s[k] \in Ends
                       /\ \A i \in 1 .. k - 1 : s[i] \notin Ends
           end == CHOOSE k \in 1 .. Len(s) + 1 : First(k)
<1>1. K + 1 \in 1 .. Len(s) + 1 /\ First(K + 1)
  OBVIOUS
<1>2. end \in 1 .. Len(s) + 1 /\ First(end)
  <2> HIDE DEF First
  <2> QED
    BY <1>1
<1>3. BeforeEnd(s) = 1 .. end - 1
  BY DEF BeforeEnd
<1> HIDE DEF end
<1>4. ~(end < K + 1)
  BY <1>2
<1>5. ~(K + 1 < end)
  <2>1. ASSUME K + 1 < end PROVE FALSE
    <3>1. K + 1 \in 1 .. end - 1 /\ K < Len(s)
      BY <1>2, <2>1
    <3>2. s[K + 1] \notin Ends /\ s[K + 1] \in Ends
      BY <1>2, <3>1
    <3> QED
      BY <3>2
  <2> QED
    BY <2>1
<1>6. end - 1 = K
  BY <1>2, <1>4, <1>5
<1> QED
  BY <1>3, <1>6

\* Fields in order, and one more that is further on.
LEMMA OneMoreInOrder ==
  ASSUME NEW s, NEW P \in SUBSET Nat, NEW u \in Seq(Foreign), NEW p \in Nat, NEW x \in Foreign,
         InOrder(u, s, P), \A q \in P : q < p, s[p].body = x
  PROVE  InOrder(Append(u, x), s, P \cup {p})
<1> DEFINE n == Len(u)
           w == Append(u, x)
<1>1. n \in Nat /\ DOMAIN u = 1 .. n
  OBVIOUS
<1>2. /\ DOMAIN w = 1 .. n + 1
      /\ \A i \in 1 .. n : w[i] = u[i]
      /\ w[n + 1] = x
  OBVIOUS
<1>3. PICK at \in [1 .. n -> P] :
        /\ \A i, j \in 1 .. n : i < j => at[i] < at[j]
        /\ \A q \in P : \E i \in 1 .. n : at[i] = q
        /\ \A i \in 1 .. n : u[i] = s[at[i]].body
  BY ZenonT(20), <1>1 DEF InOrder
<1> HIDE DEF n, w
<1> DEFINE further == [i \in 1 .. n + 1 |-> IF i = n + 1 THEN p ELSE at[i]]
<1>4. /\ further \in [1 .. n + 1 -> P \cup {p}]
      /\ further[n + 1] = p
      /\ \A i \in 1 .. n : i \in 1 .. n + 1 /\ further[i] = at[i] /\ at[i] \in P
  BY <1>1, <1>3
<1>5. n + 1 \in 1 .. n + 1 /\ \A i \in 1 .. n + 1 : i \in 1 .. n \/ i = n + 1
  BY <1>1
<1> HIDE DEF further
<1>6. ASSUME NEW i \in 1 .. n + 1, NEW j \in 1 .. n + 1, i < j
      PROVE  further[i] < further[j]
  <2>1. i \in 1 .. n
    BY <1>1, <1>6
  <2>2. CASE j \in 1 .. n
    BY <1>3, <1>4, <1>6, <2>1, <2>2
  <2>3. CASE j = n + 1
    BY <1>4, <2>1, <2>3
  <2> QED
    BY <1>5, <2>2, <2>3
<1>7. ASSUME NEW q \in P \cup {p} PROVE \E i \in 1 .. n + 1 : further[i] = q
  <2>1. CASE q = p
    BY <1>4, <1>5, <2>1
  <2>2. CASE q \in P
    <3>1. PICK i \in 1 .. n : at[i] = q
      BY <1>3, <2>2
    <3> QED
      BY <1>4, <3>1
  <2> QED
    BY <2>1, <2>2
<1>8. ASSUME NEW i \in 1 .. n + 1 PROVE w[i] = s[further[i]].body
  <2>1. CASE i \in 1 .. n
    BY <1>2, <1>3, <1>4, <2>1
  <2>2. CASE i = n + 1
    BY <1>2, <1>4, <2>2
  <2> QED
    BY <1>5, <2>1, <2>2
<1>9. InOrder(w, s, P \cup {p})
  <2>1. further \in [DOMAIN w -> P \cup {p}]
    BY <1>2, <1>4
  <2>2. \A i, j \in DOMAIN w : i < j => further[i] < further[j]
    BY <1>2, <1>6
  <2>3. \A q \in P \cup {p} : \E i \in DOMAIN w : further[i] = q
    BY <1>2, <1>7
  <2>4. \A i \in DOMAIN w : w[i] = s[further[i]].body
    BY <1>2, <1>8
  <2> QED
    BY <2>1, <2>2, <2>3, <2>4, Zenon DEF InOrder
<1> QED
  BY <1>9 DEF w
\* As ReadInto, of the first K fields, with the unknown fields they added.
ReadSoFar(v, from, s, K) ==
  \E u \in Seq(Foreign) :
    /\ v.unknown = from.unknown \o u /\ InOrder(u, s, Foreigns(s, 1 .. K))
    /\ v.has = (from.has \/ Begun(s, 1 .. K) # {})
    /\ Texts(s, 1 .. K) = {} => v.text = from.text
    /\ \A last \in Texts(s, 1 .. K) :
         (\A p \in Texts(s, 1 .. K) : p <= last) => v.text = s[last].body

\* What was added is what follows what was there.
LEMMA ReadIntoSoFar ==
  ASSUME NEW v \in Value, NEW from \in Value, NEW s, NEW K \in Nat, ReadSoFar(v, from, s, K)
  PROVE  ReadInto(v, from, s, 1 .. K)
<1>1. PICK u \in Seq(Foreign) :
        /\ v.unknown = from.unknown \o u /\ InOrder(u, s, Foreigns(s, 1 .. K))
        /\ v.has = (from.has \/ Begun(s, 1 .. K) # {})
        /\ Texts(s, 1 .. K) = {} => v.text = from.text
        /\ \A last \in Texts(s, 1 .. K) :
             (\A p \in Texts(s, 1 .. K) : p <= last) => v.text = s[last].body
  BY DEF ReadSoFar
<1> DEFINE a == Len(from.unknown)
           added == SubSeq(v.unknown, a + 1, Len(v.unknown))
<1>2. from.unknown \in Seq(Foreign) /\ v.unknown \in Seq(Foreign)
  BY DEF Value
<1>3. /\ a \in Nat /\ Len(u) \in Nat /\ Len(v.unknown) = a + Len(u)
      /\ \A i \in 1 .. Len(u) : v.unknown[a + i] = u[i]
  <2> DEFINE cat == from.unknown \o u
  <2>1. /\ Len(cat) = a + Len(u)
        /\ \A i \in 1 .. a + Len(u) :
             cat[i] = IF i <= a THEN from.unknown[i] ELSE u[i - a]
    BY <1>2, ConcatProperties
  <2>2. a \in Nat /\ Len(u) \in Nat /\ v.unknown = cat
    BY <1>1, <1>2
  <2> HIDE DEF a, cat
  <2>3. ASSUME NEW i \in 1 .. Len(u) PROVE v.unknown[a + i] = u[i]
    <3> DEFINE j == a + i
    <3>1. j \in 1 .. a + Len(u) /\ ~(j <= a) /\ j - a = i
      BY <2>2
    <3> HIDE DEF j
    <3>2. cat[j] = u[j - a]
      BY <2>1, <3>1
    <3> QED
      BY <2>2, <3>1, <3>2 DEF j
  <2> QED
    BY <1>1, <2>1, <2>2, <2>3
<1>4. added = u
  <2> HIDE DEF a
  <2>1. \A i \in a + 1 .. Len(v.unknown) : v.unknown[i] \in Foreign
    BY <1>2, <1>3
  <2>2. /\ Len(added) = Len(u)
        /\ \A i \in 1 .. Len(u) : added[i] = v.unknown[a + i]
    BY <1>3, <2>1
  <2>3. added \in Seq(Foreign)
    BY <1>2, <1>3, <2>1
  <2> HIDE DEF added
  <2>4. Len(added) = Len(u) /\ \A i \in 1 .. Len(u) : added[i] = u[i]
    BY <1>3, <2>2
  <2> QED
    BY <2>3, <2>4, SeqEqual
<1>5. added = SubSeq(v.unknown, Len(from.unknown) + 1, Len(v.unknown))
  OBVIOUS
<1> HIDE DEF added
<1> QED
  BY <1>1, <1>4, <1>5 DEF ReadInto
\* One more unknown field.
WithOther(v, x) == [v EXCEPT !.unknown = Append(@, x)]

\* What becomes of a value by each kind of field that does not end the parse.
LEMMA FieldParsed ==
  ASSUME NEW v \in Value, NEW f \in Field, f \notin Ends
  PROVE  \/ /\ f.tag = "message" /\ f.body \in Text /\ f \notin Cuts
            /\ ParsedField(v, f) =
                 [value |-> Assigned(v, f.body), left |-> FALSE, result |-> TRUE]
         \/ /\ f.tag = "cut_message" /\ f.body \in Text /\ f \in Cuts
            /\ ParsedField(v, f) =
                 [value |-> Assigned(v, f.body), left |-> TRUE, result |-> FALSE]
         \/ /\ f.tag = "foreign" /\ f.body \in Foreign /\ f \notin Cuts
            /\ ParsedField(v, f) =
                 [value |-> WithOther(v, f.body), left |-> FALSE, result |-> TRUE]
         \/ /\ f.tag = "cut_length" /\ f \in Cuts
            /\ ParsedField(v, f) =
                 [value |-> Assigned(v, v.text), left |-> TRUE, result |-> FALSE]
         \/ /\ f.tag = "cut_foreign" /\ f.body \in Foreign /\ f \in Cuts
            /\ ParsedField(v, f) =
                 [value |-> WithOther(v, f.body), left |-> TRUE, result |-> FALSE]
         \/ /\ f.tag = "cut_unkept" /\ f \in Cuts
            /\ ParsedField(v, f) = [value |-> v, left |-> TRUE, result |-> FALSE]
<1>0. \A c \in Cuts : c.tag \in {"cut_message", "cut_length", "cut_foreign", "cut_unkept"}
  BY DEF Cuts
<1>1. CASE \E t \in Text : f = Message(t)
  <2>0. f.tag = "message" /\ f.body \in Text
    BY <1>1 DEF Message
  <2>1. f.tag = "message" /\ f.body \in Text /\ f \notin Cuts
    BY <1>0, <2>0
  <2>2. ParsedField(v, f) = [value |-> Assigned(v, f.body), left |-> FALSE, result |-> TRUE]
    BY <2>1, Zenon DEF ParsedField
  <2> QED
    BY <2>1, <2>2
<1>2. CASE \E x \in Foreign : f = Other(x)
  <2>0. f.tag = "foreign" /\ f.body \in Foreign
    BY <1>2 DEF Other
  <2>1. f.tag = "foreign" /\ f.body \in Foreign /\ f \notin Cuts
    BY <1>0, <2>0
  <2>2. ParsedField(v, f) = [value |-> WithOther(v, f.body), left |-> FALSE, result |-> TRUE]
    BY <2>1 DEF ParsedField, WithOther
  <2> QED
    BY <2>1, <2>2
<1>3. CASE \E t \in Text : f = [tag |-> "cut_message", body |-> t]
  <2>1. f.tag = "cut_message" /\ f.body \in Text /\ f \in Cuts
    BY <1>3 DEF Cuts
  <2>2. ParsedField(v, f) = [value |-> Assigned(v, f.body), left |-> TRUE, result |-> FALSE]
    BY <2>1 DEF ParsedField
  <2> QED
    BY <2>1, <2>2
<1>4. CASE \E x \in Foreign : f = [tag |-> "cut_foreign", body |-> x]
  <2>1. f.tag = "cut_foreign" /\ f.body \in Foreign /\ f \in Cuts
    BY <1>4 DEF Cuts
  <2>2. ParsedField(v, f) = [value |-> WithOther(v, f.body), left |-> TRUE, result |-> FALSE]
    BY <2>1 DEF ParsedField, WithOther
  <2> QED
    BY <2>1, <2>2
<1>5. CASE f = [tag |-> "cut_length", body |-> Empty]
  <2>1. f.tag = "cut_length" /\ f \in Cuts
    BY <1>5 DEF Cuts
  <2>2. ParsedField(v, f) = [value |-> Assigned(v, v.text), left |-> TRUE, result |-> FALSE]
    BY <2>1 DEF ParsedField
  <2> QED
    BY <2>1, <2>2
<1>6. CASE f = [tag |-> "cut_unkept", body |-> Empty]
  <2>1. f.tag = "cut_unkept" /\ f \in Cuts
    BY <1>6 DEF Cuts
  <2>2. ParsedField(v, f) = [value |-> v, left |-> TRUE, result |-> FALSE]
    BY <2>1 DEF ParsedField
  <2> QED
    BY <2>1, <2>2
<1> QED
  BY <1>1, <1>2, <1>3, <1>4, <1>5, <1>6 DEF Field, Cuts

\* Concatenation of unknown fields is associative.
LEMMA ForeignAssociative ==
  \A p, q, r \in Seq(Foreign) : (p \o q) \o r = p \o (q \o r)
  BY ConcatAssociative

\* To append behind is to append to the last part.
LEMMA AppendBehind ==
  ASSUME NEW a \in Seq(Foreign), NEW b \in Seq(Foreign), NEW x \in Foreign
  PROVE  Append(b, x) \in Seq(Foreign) /\ Append(a \o b, x) = a \o Append(b, x)
<1>1. <<x>> \in Seq(Foreign) /\ Append(b, x) \in Seq(Foreign)
  OBVIOUS
<1>2. a \o b \in Seq(Foreign)
  BY ConcatProperties
<1>3. Append(b, x) = b \o <<x>>
  BY AppendIsConcat
<1>4. Append(a \o b, x) = (a \o b) \o <<x>>
  BY <1>2, AppendIsConcat
<1>6. (a \o b) \o <<x>> = a \o (b \o <<x>>)
  BY <1>1, ForeignAssociative, Zenon
<1> QED
  BY <1>1, <1>3, <1>4, <1>6

\* One more field that does not end the parse.
LEMMA ReadOneMore ==
  ASSUME NEW v \in Value, NEW from \in Value, NEW s \in Seq(Field), NEW K \in Nat,
         K + 1 \in 1 .. Len(s), s[K + 1] \notin Ends, ReadSoFar(v, from, s, K)
  PROVE  /\ ReadSoFar(ParsedField(v, s[K + 1]).value, from, s, K + 1)
         /\ ParsedField(v, s[K + 1]).value \in Value
<1> DEFINE f == s[K + 1]
<1>1. f \in Field /\ f \notin Ends
  OBVIOUS
<1>2. PICK u \in Seq(Foreign) :
        /\ v.unknown = from.unknown \o u /\ InOrder(u, s, Foreigns(s, 1 .. K))
        /\ v.has = (from.has \/ Begun(s, 1 .. K) # {})
        /\ Texts(s, 1 .. K) = {} => v.text = from.text
        /\ \A last \in Texts(s, 1 .. K) :
             (\A p \in Texts(s, 1 .. K) : p <= last) => v.text = s[last].body
  BY DEF ReadSoFar
<1>3. 1 .. K + 1 = (1 .. K) \cup {K + 1} /\ \A p \in 1 .. K : p < K + 1
  OBVIOUS
<1>4. ASSUME f.tag \in {"message", "cut_message"}, f.body \in Text,
             ParsedField(v, f).value = Assigned(v, f.body)
      PROVE  ReadSoFar(ParsedField(v, f).value, from, s, K + 1)
             /\ ParsedField(v, f).value \in Value
  <2>1. Texts(s, 1 .. K + 1) = Texts(s, 1 .. K) \cup {K + 1}
    BY <1>3, <1>4 DEF Texts
  <2>2. Foreigns(s, 1 .. K + 1) = Foreigns(s, 1 .. K)
    BY <1>3, <1>4 DEF Foreigns
  <2> DEFINE w == Assigned(v, f.body)
  <2>3. /\ w \in Value /\ w.has = TRUE /\ w.text = s[K + 1].body /\ w.unknown = v.unknown
    BY <1>4 DEF Assigned, Value
  <2> HIDE DEF w
  <2>4. \A last \in Texts(s, 1 .. K + 1) :
          (\A p \in Texts(s, 1 .. K + 1) : p <= last) => w.text = s[last].body
    <3>1. ASSUME NEW last \in Texts(s, 1 .. K + 1), \A p \in Texts(s, 1 .. K + 1) : p <= last
          PROVE  last = K + 1
      <4>1. K + 1 <= last
        BY <2>1, <3>1
      <4>2. last \in 1 .. K \/ last = K + 1
        BY <2>1 DEF Texts
      <4> QED
        BY <4>1, <4>2
    <3> QED
      BY <2>3, <3>1
  <2>5. Texts(s, 1 .. K + 1) # {} /\ Begun(s, 1 .. K + 1) # {}
    BY <2>1 DEF Begun
  <2>6. w.has = (from.has \/ Begun(s, 1 .. K + 1) # {})
    BY <2>3, <2>5
  <2>7. w.unknown = from.unknown \o u
    BY <1>2, <2>3
  <2>8. ReadSoFar(w, from, s, K + 1)
    BY <1>2, <2>2, <2>4, <2>5, <2>6, <2>7, Zenon DEF ReadSoFar
  <2> QED
    BY <1>4, <2>3, <2>8 DEF w
<1>5. ASSUME f.tag \in {"foreign", "cut_foreign"}, f.body \in Foreign,
             ParsedField(v, f).value = WithOther(v, f.body)
      PROVE  ReadSoFar(ParsedField(v, f).value, from, s, K + 1)
             /\ ParsedField(v, f).value \in Value
  <2>1. Texts(s, 1 .. K + 1) = Texts(s, 1 .. K) /\ Begun(s, 1 .. K + 1) = Begun(s, 1 .. K)
    BY <1>3, <1>5 DEF Texts, Begun
  <2>2. Foreigns(s, 1 .. K + 1) = Foreigns(s, 1 .. K) \cup {K + 1}
    BY <1>3, <1>5 DEF Foreigns
  <2> DEFINE x == f.body
             w == WithOther(v, x)
  <2>3. /\ w \in Value /\ w.has = v.has /\ w.text = v.text
        /\ w.unknown = Append(v.unknown, x)
    <3>1. x \in Foreign /\ v.unknown \in Seq(Foreign)
      BY <1>5 DEF Value
    <3> HIDE DEF x
    <3>2. Append(v.unknown, x) \in Seq(Foreign)
      BY <3>1
    <3> QED
      BY <3>2 DEF Value, WithOther
  <2>4. x \in Foreign /\ s[K + 1].body = x
    BY <1>5
  <2>5. ParsedField(v, f).value = w
    BY <1>5
  <2> HIDE DEF w, x
  <2>6. Append(u, x) \in Seq(Foreign) /\ w.unknown = from.unknown \o Append(u, x)
    <3>1. from.unknown \in Seq(Foreign)
      BY DEF Value
    <3> QED
      BY ZenonT(20), <1>2, <2>3, <2>4, <3>1, AppendBehind
  <2>7. InOrder(Append(u, x), s, Foreigns(s, 1 .. K + 1))
    <3>1. Foreigns(s, 1 .. K) \in SUBSET Nat /\ K + 1 \in Nat
      BY DEF Foreigns
    <3>2. \A q \in Foreigns(s, 1 .. K) : q < K + 1
      BY <1>3 DEF Foreigns
    <3>3. InOrder(Append(u, x), s, Foreigns(s, 1 .. K) \cup {K + 1})
      BY <1>2, <2>4, <3>1, <3>2, OneMoreInOrder
    <3> QED
      BY <2>2, <3>3
  <2>8. ReadSoFar(w, from, s, K + 1)
    BY <1>2, <2>1, <2>3, <2>6, <2>7, Zenon DEF ReadSoFar
  <2> QED
    BY <2>3, <2>5, <2>8
<1>6. ASSUME f.tag = "cut_unkept", ParsedField(v, f).value = v
      PROVE  ReadSoFar(ParsedField(v, f).value, from, s, K + 1)
             /\ ParsedField(v, f).value \in Value
  <2>1. Texts(s, 1 .. K + 1) = Texts(s, 1 .. K) /\ Begun(s, 1 .. K + 1) = Begun(s, 1 .. K)
    BY <1>3, <1>6 DEF Texts, Begun
  <2>2. Foreigns(s, 1 .. K + 1) = Foreigns(s, 1 .. K)
    BY <1>3, <1>6 DEF Foreigns
  <2>3. ReadSoFar(v, from, s, K + 1)
    BY <1>2, <2>1, <2>2, Zenon DEF ReadSoFar
  <2> QED
    BY <1>6, <2>3
<1>8. ASSUME f.tag = "cut_length", ParsedField(v, f).value = Assigned(v, v.text)
      PROVE  ReadSoFar(ParsedField(v, f).value, from, s, K + 1)
             /\ ParsedField(v, f).value \in Value
  <2>1. Texts(s, 1 .. K + 1) = Texts(s, 1 .. K) /\ Begun(s, 1 .. K + 1) # {}
    BY <1>3, <1>8 DEF Texts, Begun
  <2>2. Foreigns(s, 1 .. K + 1) = Foreigns(s, 1 .. K)
    BY <1>3, <1>8 DEF Foreigns
  <2> DEFINE w == Assigned(v, v.text)
  <2>3. w \in Value /\ w.has = TRUE /\ w.text = v.text /\ w.unknown = v.unknown
    BY DEF Assigned, Value
  <2> HIDE DEF w
  <2>4. w.has = (from.has \/ Begun(s, 1 .. K + 1) # {})
    BY <2>1, <2>3
  <2>5. ReadSoFar(w, from, s, K + 1)
    BY <1>2, <2>1, <2>2, <2>3, <2>4, Zenon DEF ReadSoFar
  <2> QED
    BY <1>8, <2>3, <2>5 DEF w
<1> HIDE DEF f
<1>7. ReadSoFar(ParsedField(v, f).value, from, s, K + 1) /\ ParsedField(v, f).value \in Value
  <2>1. CASE f.tag = "message"
    BY <1>1, <1>4, <2>1, FieldParsed
  <2>2. CASE f.tag = "cut_message"
    BY <1>1, <1>4, <2>2, FieldParsed
  <2>3. CASE f.tag = "foreign"
    BY <1>1, <1>5, <2>3, FieldParsed
  <2>4. CASE f.tag = "cut_foreign"
    BY <1>1, <1>5, <2>4, FieldParsed
  <2>5. CASE f.tag = "cut_length"
    BY <1>1, <1>8, <2>5, FieldParsed
  <2>6. CASE f.tag = "cut_unkept"
    BY <1>1, <1>6, <2>6, FieldParsed
  <2>7. f.tag \in {"message", "cut_message", "foreign", "cut_foreign", "cut_length",
                   "cut_unkept"}
    BY <1>1, FieldParsed
  <2> QED
    BY <2>1, <2>2, <2>3, <2>4, <2>5, <2>6, <2>7
<1> QED
  BY <1>7 DEF f

\* An end mark ends the parse, with the message as it is.
LEMMA ReadEnd ==
  ASSUME NEW v, NEW f \in Ends
  PROVE  ParsedField(v, f) = [value |-> v, left |-> TRUE, result |-> TRUE]
  BY DEF ParsedField, Ends
\* An account goes on for one more turn,
LEMMA AccountGoes ==
  ASSUME NEW turns, NEW v, NEW s, NEW K \in Nat, Accounts(turns, v, s, K), ~turns[K].left
  PROVE  \E longer : /\ Accounts(longer, v, s, K + 1)
                     /\ longer[K + 1] = ParsedField(turns[K].value, s[K + 1])
<1> DEFINE next == ParsedField(turns[K].value, s[K + 1])
           longer == [k \in 0 .. K + 1 |-> IF k = K + 1 THEN next ELSE turns[k]]
<1>1. /\ longer[K + 1] = next
      /\ \A k \in 0 .. K : longer[k] = turns[k]
  OBVIOUS
<1> HIDE DEF longer
<1>2. Accounts(longer, v, s, K + 1)
  <2> SUFFICES ASSUME NEW k \in 0 .. K + 1
               PROVE  longer[k] = IF k = 0 THEN [value |-> v, left |-> FALSE, result |-> TRUE]
                                  ELSE IF longer[k - 1].left THEN longer[k - 1]
                                  ELSE ParsedField(longer[k - 1].value, s[k])
    BY DEF Accounts
  <2>1. CASE k \in 0 .. K
    <3>1. k # 0 => k - 1 \in 0 .. K
      BY <2>1
    <3>2. longer[k] = turns[k] /\ (k # 0 => longer[k - 1] = turns[k - 1])
      BY <1>1, <2>1, <3>1
    <3> QED
      BY <2>1, <3>2 DEF Accounts
  <2>2. CASE k = K + 1
    <3>1. k # 0 /\ k - 1 = K /\ K \in 0 .. K
      BY <2>2
    <3>2. longer[k - 1] = turns[K]
      BY <1>1, <3>1
    <3> QED
      BY <1>1, <2>2, <3>1, <3>2
  <2> QED
    BY <2>1, <2>2
<1> QED
  BY <1>1, <1>2

\* and once the parse is left stays as it is.
LEMMA AccountStays ==
  ASSUME NEW turns, NEW v, NEW s, NEW K \in Nat, Accounts(turns, v, s, K), turns[K].left,
         NEW n \in Nat, K <= n
  PROVE  \E longer : Accounts(longer, v, s, n) /\ longer[n] = turns[K]
<1> DEFINE longer == [k \in 0 .. n |-> IF k <= K THEN turns[k] ELSE turns[K]]
<1>1. /\ \A k \in 0 .. K : longer[k] = turns[k]
      /\ \A k \in K .. n : longer[k] = turns[K]
  OBVIOUS
<1> HIDE DEF longer
<1>2. Accounts(longer, v, s, n)
  <2> SUFFICES ASSUME NEW k \in 0 .. n
               PROVE  longer[k] = IF k = 0 THEN [value |-> v, left |-> FALSE, result |-> TRUE]
                                  ELSE IF longer[k - 1].left THEN longer[k - 1]
                                  ELSE ParsedField(longer[k - 1].value, s[k])
    BY DEF Accounts
  <2>1. CASE k <= K
    <3>1. k \in 0 .. K /\ (k # 0 => k - 1 \in 0 .. K)
      BY <2>1
    <3>2. longer[k] = turns[k] /\ (k # 0 => longer[k - 1] = turns[k - 1])
      BY <1>1, <3>1
    <3> QED
      BY <3>1, <3>2 DEF Accounts
  <2>2. CASE ~(k <= K)
    <3>1. k # 0 /\ k \in K .. n /\ k - 1 \in K .. n
      BY <2>2
    <3>2. longer[k] = turns[K] /\ longer[k - 1] = turns[K]
      BY <1>1, <3>1
    <3> QED
      BY <3>1, <3>2
  <2> QED
    BY <2>1, <2>2
<1>3. n \in K .. n
  OBVIOUS
<1> QED
  BY <1>1, <1>2, <1>3

\* What a turn of the loop does by the kind of its field.
LEMMA TurnByKind ==
  ASSUME TypeOK, ParseField, NEW m \in Msg, m = parsing.into,
         NEW f, f = parsing.input[parsing.at], parsing.at <= Len(parsing.input)
  PROVE  /\ f \in Field /\ Exists(m) /\ ~parsing.left
         /\ f \in Ends => UNCHANGED <<message_, has, unknown, heap>> /\ Leaves(TRUE)
         /\ f.tag = "message" => Write(m, f.body) /\ UNCHANGED unknown /\ Goes
         /\ f.tag = "cut_message" => Write(m, f.body) /\ UNCHANGED unknown /\ Leaves(FALSE)
         /\ f.tag = "foreign" => /\ More(m, <<f.body>>) /\ Goes
                                 /\ UNCHANGED <<message_, has, heap>>
         /\ f.tag = "cut_length" => Write(m, message(m)) /\ UNCHANGED unknown /\ Leaves(FALSE)
         /\ f.tag = "cut_foreign" => /\ More(m, <<f.body>>) /\ Leaves(FALSE)
                                     /\ UNCHANGED <<message_, has, heap>>
         /\ f.tag = "cut_unkept" => /\ UNCHANGED <<message_, has, unknown, heap>>
                                    /\ Leaves(FALSE)
<1>1. f \in Field
  <2>1. parsing.at \in 1 .. Len(parsing.input) /\ parsing.input \in Seq(Field)
    BY DEF TypeOK
  <2> QED
    BY <2>1
<1>2. Exists(m) /\ ~parsing.left
  BY DEF ParseField, TypeOK
<1>3. \/ /\ f.tag = "zero" /\ Leaves(TRUE)
         /\ UNCHANGED <<message_, has, unknown, heap>>
      \/ ReadMessage(m, f) \/ Uninterpreted(m, f)
  <2>1. ~(parsing.at > Len(parsing.input))
    BY DEF TypeOK
  <2> QED
    BY <2>1 DEF ParseField, NoTag
<1>4. f \in Ends => f.tag \in {"zero", "end_group"}
  BY DEF Ends
<1>5. f \in Ends => UNCHANGED <<message_, has, unknown, heap>> /\ Leaves(TRUE)
  BY <1>3, <1>4 DEF ReadMessage, Uninterpreted
<1>6. /\ f.tag = "message" => Write(m, f.body) /\ UNCHANGED unknown /\ Goes
      /\ f.tag = "cut_message" => Write(m, f.body) /\ UNCHANGED unknown /\ Leaves(FALSE)
  BY <1>3 DEF ReadMessage, Uninterpreted
<1>7. /\ f.tag = "foreign" => /\ More(m, <<f.body>>) /\ Goes
                              /\ UNCHANGED <<message_, has, heap>>
      /\ f.tag = "cut_length" => Write(m, message(m)) /\ UNCHANGED unknown /\ Leaves(FALSE)
      /\ f.tag = "cut_foreign" => /\ More(m, <<f.body>>) /\ Leaves(FALSE)
                                  /\ UNCHANGED <<message_, has, heap>>
      /\ f.tag = "cut_unkept" => /\ UNCHANGED <<message_, has, unknown, heap>>
                                 /\ Leaves(FALSE)
  BY <1>3 DEF ReadMessage, Uninterpreted
<1> QED
  BY <1>1, <1>2, <1>5, <1>6, <1>7

\* A turn of the loop in memory is a turn of the loop on values.
LEMMA TurnTaken ==
  ASSUME MessageInv, MessageInv', ParseField, NEW m \in Msg, m = parsing.into,
         NEW f, f = parsing.input[parsing.at], parsing.at <= Len(parsing.input)
  PROVE  /\ f \in Field /\ ValueOf(m) \in Value
         /\ ValueOf(m)' = ParsedField(ValueOf(m), f).value
         /\ \/ ParsedField(ValueOf(m), f).left = FALSE /\ Goes
            \/ ParsedField(ValueOf(m), f).left = TRUE
               /\ Leaves(ParsedField(ValueOf(m), f).result)
<1> DEFINE v == ValueOf(m)
           w == ValueOf(m)'
           t == ParsedField(v, f)
<1>1. /\ f \in Field /\ Exists(m) /\ ~parsing.left /\ m # NoObject
      /\ f \in Ends => UNCHANGED <<message_, has, unknown, heap>> /\ Leaves(TRUE)
      /\ f.tag = "message" => Write(m, f.body) /\ UNCHANGED unknown /\ Goes
      /\ f.tag = "cut_message" => Write(m, f.body) /\ UNCHANGED unknown /\ Leaves(FALSE)
      /\ f.tag = "foreign" => /\ More(m, <<f.body>>) /\ Goes
                              /\ UNCHANGED <<message_, has, heap>>
      /\ f.tag = "cut_length" => Write(m, message(m)) /\ UNCHANGED unknown /\ Leaves(FALSE)
      /\ f.tag = "cut_foreign" => /\ More(m, <<f.body>>) /\ Leaves(FALSE)
                                  /\ UNCHANGED <<message_, has, heap>>
      /\ f.tag = "cut_unkept" => /\ UNCHANGED <<message_, has, unknown, heap>>
                                 /\ Leaves(FALSE)
  BY TurnByKind, MessageAssumption DEF MessageInv
<1>2. /\ v \in Value /\ v.has = has[m] /\ v.text = message(m) /\ v.unknown = unknown[m]
      /\ v = View[m]
  BY <1>1, ViewTyped DEF View, ValueOf
<1>3. ASSUME NEW x, Shows(m, x), x \in Value PROVE w = x
  <2>1. View'[m] = x
    BY <1>3 DEF Shows, View
  <2>2. x # NoObject
    BY <1>3, MessageAssumption
  <2>3. View'[m] = IF Exists(m)' THEN w ELSE NoObject
    BY DEF View
  <2> QED
    BY <2>1, <2>2, <2>3
<1>4. UNCHANGED <<message_, has, unknown, heap>> => w = v
  BY DEF ValueOf, message
<1>5. ASSUME NEW x \in Text, Write(m, x), UNCHANGED unknown
      PROVE  w = Assigned(v, x)
  <2>1. Unknown(m, unknown[m])
    BY <1>1, <1>5 DEF Unknown, MessageInv, TypeOK
  <2>2. Shows(m, Rec(TRUE, x, unknown[m]))
    BY <1>1, <1>5, <2>1, WriteShows
  <2>3. Values!Assigned(v, x) = Rec(TRUE, x, v.unknown)
    BY <1>2, <1>5, ValueOps
  <2>4. Values!Assigned(v, x) = Assigned(v, x)
    BY DEF Values!Assigned, Assigned
  <2>5. Assigned(v, x) \in Value
    BY <1>2, <1>5 DEF Assigned, Value
  <2> HIDE DEF v, w
  <2> QED
    BY <1>2, <1>3, <2>2, <2>3, <2>4, <2>5
<1>6. ASSUME f.body \in Foreign, More(m, <<f.body>>), UNCHANGED <<message_, has, heap>>
      PROVE  w = WithOther(v, f.body)
  <2>1. unknown[m] \in Seq(Foreign) /\ unknown[m] \o <<f.body>> = Append(unknown[m], f.body)
    BY <1>6, AppendIsConcat DEF MessageInv, TypeOK
  <2>2. unknown'[m] = Append(unknown[m], f.body)
    BY <1>6, <2>1 DEF More, MessageInv, TypeOK
  <2>3. w = Rec(v.has, v.text, Append(v.unknown, f.body))
    BY <1>2, <1>6, <2>2 DEF ValueOf, message, Rec
  <2>4. Append(v.unknown, f.body) \in Seq(Foreign)
    BY <1>2, <1>6, <2>1
  <2> HIDE DEF v, w
  <2>5. [v EXCEPT !.unknown = Append(v.unknown, f.body)]
        = Rec(v.has, v.text, Append(v.unknown, f.body))
    BY <1>2, <2>4, UnknownOps
  <2> QED
    BY <2>3, <2>5 DEF WithOther
<1> HIDE DEF v, w, t
<1>7. CASE f \in Ends
  <2>1. t = [value |-> v, left |-> TRUE, result |-> TRUE]
    BY <1>7, ReadEnd DEF t
  <2>2. w = t.value /\ t.left = TRUE /\ t.result = TRUE
    BY <1>1, <1>4, <1>7, <2>1
  <2> QED
    BY <1>1, <1>2, <1>7, <2>2 DEF v, w, t
<1>8. CASE f \notin Ends
  <2>1. CASE f.tag = "message"
    <3>1. f.body \in Text /\ t = [value |-> Assigned(v, f.body), left |-> FALSE, result |-> TRUE]
      BY <1>1, <1>2, <1>8, <2>1, FieldParsed DEF t
    <3>2. w = t.value /\ t.left = FALSE
      BY <1>1, <1>5, <2>1, <3>1
    <3> QED
      BY <1>1, <1>2, <2>1, <3>2 DEF v, w, t
  <2>2. CASE f.tag = "cut_message"
    <3>1. f.body \in Text /\ t = [value |-> Assigned(v, f.body), left |-> TRUE, result |-> FALSE]
      BY <1>1, <1>2, <1>8, <2>2, FieldParsed DEF t
    <3>2. w = t.value /\ t.left = TRUE /\ t.result = FALSE
      BY <1>1, <1>5, <2>2, <3>1
    <3> QED
      BY <1>1, <1>2, <2>2, <3>2 DEF v, w, t
  <2>3. CASE f.tag = "foreign"
    <3>1. f.body \in Foreign
          /\ t = [value |-> WithOther(v, f.body), left |-> FALSE, result |-> TRUE]
      BY <1>1, <1>2, <1>8, <2>3, FieldParsed DEF t
    <3>2. w = t.value /\ t.left = FALSE
      BY <1>1, <1>6, <2>3, <3>1
    <3> QED
      BY <1>1, <1>2, <2>3, <3>2 DEF v, w, t
  <2>4. CASE f.tag = "cut_foreign"
    <3>1. f.body \in Foreign
          /\ t = [value |-> WithOther(v, f.body), left |-> TRUE, result |-> FALSE]
      BY <1>1, <1>2, <1>8, <2>4, FieldParsed DEF t
    <3>2. w = t.value /\ t.left = TRUE /\ t.result = FALSE
      BY <1>1, <1>6, <2>4, <3>1
    <3> QED
      BY <1>1, <1>2, <2>4, <3>2 DEF v, w, t
  <2>5. CASE f.tag = "cut_length"
    <3>1. t = [value |-> Assigned(v, v.text), left |-> TRUE, result |-> FALSE]
      BY <1>1, <1>2, <1>8, <2>5, FieldParsed DEF t
    <3>2. v.text \in Text /\ v.text = message(m)
      BY <1>2 DEF Value
    <3>3. w = t.value /\ t.left = TRUE /\ t.result = FALSE
      BY <1>1, <1>5, <2>5, <3>1, <3>2
    <3> QED
      BY <1>1, <1>2, <2>5, <3>3 DEF v, w, t
  <2>6. CASE f.tag = "cut_unkept"
    <3>1. t = [value |-> v, left |-> TRUE, result |-> FALSE]
      BY <1>1, <1>2, <1>8, <2>6, FieldParsed DEF t
    <3>2. w = t.value /\ t.left = TRUE /\ t.result = FALSE
      BY <1>1, <1>4, <2>6, <3>1
    <3> QED
      BY <1>1, <1>2, <2>6, <3>2 DEF v, w, t
  <2>7. f.tag \in {"message", "cut_message", "foreign", "cut_foreign", "cut_length",
                   "cut_unkept"}
    BY <1>1, <1>2, <1>8, FieldParsed
  <2> QED
    BY <2>1, <2>2, <2>3, <2>4, <2>5, <2>6, <2>7
<1> QED
  BY <1>7, <1>8

\* A parse p that goes on has read the K fields before its place, into v.
Going(p, v, K) ==
  /\ p.at = K + 1 /\ \A i \in 1 .. K : p.input[i] \notin Cuts
  /\ \E turns : /\ Accounts(turns, p.from, p.input, K)
                /\ turns[K] = [value |-> v, left |-> FALSE, result |-> TRUE]

\* One that was left has read all before the end.
Ended(p, v, K) ==
  /\ K < Len(p.input) => p.input[K + 1] \in Ends
  /\ p.result = (\A i \in 1 .. K : p.input[i] \notin Cuts)
  /\ \E turns : /\ Accounts(turns, p.from, p.input, Len(p.input))
                /\ turns[Len(p.input)].value = v
                /\ turns[Len(p.input)].result = p.result

\* How far a parse p is when its message has the value v.
ParseAt(p, v) ==
  /\ \A i \in 1 .. Len(p.input) : p.input[i] \in Cuts => i = Len(p.input)
  /\ \E K \in 0 .. Len(p.input) :
       /\ ReadSoFar(v, p.from, p.input, K)
       /\ \A i \in 1 .. K : p.input[i] \notin Ends
       /\ IF p.left THEN Ended(p, v, K) ELSE Going(p, v, K)

ParsesRight == parsing # Idle => ParseAt(parsing, ValueOf(parsing.into))

\* A parse begins with nothing read.
LEMMA ParseBegins ==
  ASSUME MessageInv, NEW m \in Msg, NEW s \in Stream, MergePartial(m, s)
  PROVE  ParsesRight'
<1> DEFINE v == ValueOf(m)
           p == [Idle EXCEPT !.into = m, !.from = v, !.input = s]
<1>1. /\ v \in Value /\ v.unknown \in Seq(Foreign) /\ v.has \in BOOLEAN
      /\ parsing' = p /\ ValueOf(m)' = v
  <2>1. View[m] = v /\ View[m] \in Value
    BY ViewTyped DEF MergePartial, Ready, View
  <2>2. parsing' = p /\ ValueOf(m)' = v
    BY DEF MergePartial, ValueOf, message
  <2> QED
    BY <2>1, <2>2 DEF Value
<1>2. /\ p.into = m /\ p.from = v /\ p.input = s /\ p.at = 1 /\ p.left = FALSE
      /\ p.result = TRUE
  BY DEF Idle
<1>3. s \in Seq(Field) /\ Len(s) \in Nat /\ \A i \in 1 .. Len(s) : s[i] \in Cuts => i = Len(s)
  <2>1. PICK n \in 0 .. MaxFields : s \in [1 .. n -> Field]
    BY DEF Stream
  <2>2. s \in Seq(Field) /\ DOMAIN s = 1 .. Len(s) /\ Len(s) \in Nat
    BY <2>1, MessageAssumption
  <2> QED
    BY <2>2 DEF Stream
<1> HIDE DEF v, p
<1>4. ReadSoFar(v, v, s, 0)
  <2>1. << >> \in Seq(Foreign) /\ v.unknown = v.unknown \o << >>
    BY <1>1, ConcatEmptySeq
  <2>2. Texts(s, 1 .. 0) = {} /\ Foreigns(s, 1 .. 0) = {} /\ Begun(s, 1 .. 0) = {}
    BY DEF Texts, Foreigns, Begun
  <2>3. InOrder(<< >>, s, {})
    <3> DEFINE none == << >>
    <3>1. none \in [DOMAIN none -> {}] /\ DOMAIN none = {}
      OBVIOUS
    <3> HIDE DEF none
    <3>2. InOrder(none, s, {})
      BY <3>1 DEF InOrder
    <3> QED
      BY <3>2 DEF none
  <2>4. v.has = (v.has \/ Begun(s, 1 .. 0) # {})
    BY <1>1, <2>2
  <2> QED
    BY <2>1, <2>2, <2>3, <2>4, Zenon DEF ReadSoFar
<1>5. Going(p, v, 0)
  <2> DEFINE turns == [k \in 0 .. 0 |-> [value |-> v, left |-> FALSE, result |-> TRUE]]
  <2>1. Accounts(turns, v, s, 0) /\ turns[0] = [value |-> v, left |-> FALSE, result |-> TRUE]
    BY DEF Accounts
  <2> HIDE DEF turns
  <2> QED
    BY <1>2, <2>1 DEF Going
<1>6. ParseAt(p, v)
  <2>1. 0 \in 0 .. Len(s)
    BY <1>3
  <2>2. \A i \in 1 .. 0 : s[i] \notin Ends
    OBVIOUS
  <2> QED
    BY <1>2, <1>3, <1>4, <1>5, <2>1, <2>2 DEF ParseAt
<1>7. ValueOf(parsing.into)' = v
  BY <1>1, <1>2 DEF ValueOf, message
<1> QED
  BY <1>1, <1>6, <1>7 DEF ParsesRight

\* A parse that goes on takes one more field, or ends.
LEMMA ParseGoes ==
  ASSUME MessageInv, MessageInv', ParsesRight, ParseField
  PROVE  ParsesRight'
<1>0. PICK m \in Msg : m = parsing.into
  BY DEF ParseField, MessageInv, TypeOK
<1> DEFINE v == ValueOf(m)
           w == ValueOf(m)'
           s == parsing.input
           from == parsing.from
           p == parsing'
           n == Len(s)
           f == s[parsing.at]
<1>1. /\ parsing # Idle /\ ~parsing.left /\ Exists(m)
      /\ s \in Seq(Field) /\ n \in Nat /\ from \in Value
      /\ parsing \in [into : Msg \cup {NoObject}, from : Value, input : Seq(Field),
                      at : Nat \ {0}, left : BOOLEAN, result : BOOLEAN]
  BY <1>0 DEF ParseField, MessageInv, TypeOK
<1>2. PICK K \in 0 .. n :
        /\ ReadSoFar(v, from, s, K)
        /\ \A i \in 1 .. K : s[i] \notin Ends
        /\ Going(parsing, v, K)
  BY <1>0, <1>1 DEF ParsesRight, ParseAt
<1>3. PICK turns : /\ Accounts(turns, from, s, K)
                   /\ turns[K] = [value |-> v, left |-> FALSE, result |-> TRUE]
  BY <1>2 DEF Going
<1>4. parsing.at = K + 1 /\ \A i \in 1 .. K : s[i] \notin Cuts
  BY <1>2 DEF Going
<1>5. \A i \in 1 .. n : s[i] \in Cuts => i = n
  BY <1>1 DEF ParsesRight, ParseAt
<1>6. ASSUME Goes
      PROVE  /\ p.into = m /\ p.from = from /\ p.input = s /\ p.left = FALSE
             /\ p.at = K + 2
  BY <1>0, <1>1, <1>4, <1>6 DEF Goes
<1>7. ASSUME NEW r, Leaves(r)
      PROVE  p.into = m /\ p.from = from /\ p.input = s /\ p.left = TRUE /\ p.result = r
  BY <1>0, <1>1, <1>7 DEF Leaves
<1>8. p.into = m => ValueOf(parsing.into)' = w
  BY DEF ValueOf, message
<1>9. ASSUME ParseAt(p, w), p.into = m PROVE ParsesRight'
  BY <1>8, <1>9 DEF ParsesRight
<1>10. K \in Nat /\ K <= n
  BY <1>1
<1>11. CASE K = n
  <2>1. NoTag /\ Leaves(TRUE) /\ UNCHANGED <<message_, has, unknown, heap>>
    <3>1. ~(parsing.at <= Len(parsing.input))
      BY <1>1, <1>4, <1>11
    <3>2. NoTag
      BY <3>1 DEF ParseField
    <3> QED
      BY <3>2 DEF NoTag
  <2>2. w = v
    BY <2>1 DEF ValueOf, message
  <2> HIDE DEF v, w, s, p, n, from
  <2>3. /\ p.into = m /\ p.from = from /\ p.input = s /\ p.left = TRUE /\ p.result = TRUE
    BY <1>7, <2>1
  <2>4. Ended(p, w, K)
    <3>1. ~(K < Len(s)) /\ Len(s) = K
      BY <1>10, <1>11 DEF n
    <3>2. p.result = (\A i \in 1 .. K : s[i] \notin Cuts)
      BY <1>4, <2>3
    <3>3. turns[K].value = w /\ turns[K].result = p.result
      <4>1. turns[K].value = v /\ turns[K].result = TRUE
        BY <1>3
      <4> QED
        BY <2>2, <2>3, <4>1
    <3> QED
      BY <1>3, <2>3, <3>1, <3>2, <3>3, Zenon DEF Ended
  <2>5. ParseAt(p, w)
    BY <1>2, <1>5, <2>2, <2>3, <2>4 DEF ParseAt, n
  <2> QED
    BY <1>9, <2>3, <2>5
<1>12. CASE K # n
  <2>1. /\ K + 1 \in 1 .. n /\ f = s[K + 1] /\ parsing.at <= n
    BY <1>1, <1>4, <1>12
  <2>2. /\ f \in Field /\ v \in Value /\ w = ParsedField(v, f).value
        /\ \/ ParsedField(v, f).left = FALSE /\ Goes
           \/ ParsedField(v, f).left = TRUE /\ Leaves(ParsedField(v, f).result)
    BY <1>0, <2>1, TurnTaken
  <2> DEFINE t == ParsedField(v, f)
  <2>3. PICK longer : /\ Accounts(longer, from, s, K + 1)
                      /\ longer[K + 1] = t
    <3>1. turns[K].left = FALSE /\ turns[K].value = v
      BY <1>3
    <3> HIDE DEF v, s, from
    <3>2. \E longer : /\ Accounts(longer, from, s, K + 1)
                      /\ longer[K + 1] = ParsedField(turns[K].value, s[K + 1])
      BY <1>3, <1>10, <3>1, AccountGoes
    <3> QED
      BY <2>1, <3>1, <3>2
  <2>4. f \in Ends => t = [value |-> v, left |-> TRUE, result |-> TRUE]
    BY ReadEnd
  <2>5. f \notin Ends => ReadSoFar(t.value, from, s, K + 1)
    <3> HIDE DEF v, s, from
    <3> QED
      BY <1>1, <1>2, <1>10, <2>1, <2>2, ReadOneMore DEF n
  <2>6. f \notin Ends => \/ t.left = TRUE /\ t.result = FALSE /\ f \in Cuts
                         \/ t.left = FALSE /\ t.result = TRUE /\ f \notin Cuts
    <3> HIDE DEF v, f
    <3> QED
      BY <2>2, FieldParsed
  <2>7. \A i \in 1 .. K + 1 : i \in 1 .. K \/ i = K + 1
    BY <1>10
  <2> HIDE DEF v, w, s, p, n, f, t, from
  <2>8. ASSUME t.left = TRUE
        PROVE  \E to : /\ Accounts(to, from, s, n)
                       /\ to[n].value = w /\ to[n].result = t.result
    <3>1. K + 1 \in Nat /\ n \in Nat /\ K + 1 <= n
      BY <1>1, <2>1
    <3>2. PICK to : Accounts(to, from, s, n) /\ to[n] = longer[K + 1]
      BY <2>3, <2>8, <3>1, AccountStays
    <3> QED
      BY <2>2, <2>3, <3>2 DEF t
  <2>9. CASE f \in Ends
    <3>1. t.left = TRUE /\ t.result = TRUE /\ w = v /\ Leaves(TRUE)
      <4>1. t.value = v /\ t.left = TRUE /\ t.result = TRUE
        BY <2>4, <2>9
      <4>2. w = t.value /\ (t.left = TRUE => Leaves(t.result))
        BY <2>2 DEF t
      <4> QED
        BY <4>1, <4>2
    <3>2. p.into = m /\ p.from = from /\ p.input = s /\ p.left = TRUE /\ p.result = TRUE
      BY <1>7, <3>1
    <3>3. Ended(p, w, K)
      <4>1. p.result = (\A i \in 1 .. K : s[i] \notin Cuts)
        BY <1>4, <3>2
      <4>2. K < Len(s) => s[K + 1] \in Ends
        BY <2>1, <2>9
      <4> QED
        BY <2>8, <3>1, <3>2, <4>1, <4>2 DEF Ended, n
    <3>4. ParseAt(p, w)
      BY <1>2, <1>5, <3>1, <3>2, <3>3 DEF ParseAt, n
    <3> QED
      BY <1>9, <3>2, <3>4
  <2>10. CASE f \notin Ends /\ t.left = TRUE
    <3>1. t.result = FALSE /\ f \in Cuts /\ w = t.value /\ Leaves(FALSE)
      BY <2>2, <2>6, <2>10 DEF t
    <3>2. p.into = m /\ p.from = from /\ p.input = s /\ p.left = TRUE /\ p.result = FALSE
      BY <1>7, <3>1
    <3>3. K + 1 = n /\ K + 1 \in 0 .. n /\ K + 1 \in 1 .. K + 1
      BY <1>5, <1>10, <2>1, <3>1
    <3>4. Ended(p, w, K + 1)
      <4>1. p.result = (\A i \in 1 .. K + 1 : s[i] \notin Cuts)
        BY <2>1, <3>1, <3>2, <3>3
      <4>2. ~(K + 1 < Len(s))
        BY <1>10, <3>3 DEF n
      <4> QED
        BY <2>8, <2>10, <3>1, <3>2, <4>1, <4>2 DEF Ended, n
    <3>5. \A i \in 1 .. K + 1 : s[i] \notin Ends
      BY <1>2, <2>1, <2>7, <2>10
    <3>6. ParseAt(p, w)
      BY <1>5, <2>5, <2>10, <3>1, <3>2, <3>3, <3>4, <3>5 DEF ParseAt, n
    <3> QED
      BY <1>9, <3>2, <3>6
  <2>11. CASE f \notin Ends /\ t.left = FALSE
    <3>1. t.result = TRUE /\ f \notin Cuts /\ w = t.value /\ Goes
      BY <2>2, <2>6, <2>11 DEF t
    <3>2. p.into = m /\ p.from = from /\ p.input = s /\ p.left = FALSE /\ p.at = K + 2
      BY <1>6, <3>1
    <3>3. K + 1 \in 0 .. n /\ K + 2 = (K + 1) + 1
      BY <1>10, <2>1
    <3>4. t = [value |-> w, left |-> FALSE, result |-> TRUE]
      BY <2>2, <2>11, <3>1, FieldParsed DEF t
    <3>5. Going(p, w, K + 1)
      <4>1. \A i \in 1 .. K + 1 : s[i] \notin Cuts
        BY <1>4, <2>1, <2>7, <3>1
      <4> QED
        BY <2>3, <3>2, <3>3, <3>4, <4>1 DEF Going
    <3>6. \A i \in 1 .. K + 1 : s[i] \notin Ends
      BY <1>2, <2>1, <2>7, <2>11
    <3>7. ParseAt(p, w)
      BY <1>5, <2>5, <2>11, <3>1, <3>2, <3>3, <3>5, <3>6 DEF ParseAt, n
    <3> QED
      BY <1>9, <3>2, <3>7
  <2> QED
    BY <2>2, <2>9, <2>10, <2>11 DEF t
<1> QED
  BY <1>11, <1>12

\* Every step keeps the account of the parse.
LEMMA ParsesStep == MessageInv /\ MessageInv' /\ ParsesRight /\ [Next]_vars => ParsesRight'
<1> SUFFICES ASSUME MessageInv, MessageInv', ParsesRight, [Next]_vars
             PROVE  ParsesRight'
  OBVIOUS
<1>1. ASSUME parsing' = Idle PROVE ParsesRight'
  BY <1>1 DEF ParsesRight
<1>2. CASE \E m \in Msg : Accessor(m)
  <2>1. parsing' = Idle
    BY <1>2
    DEF Accessor, set_message, mutable_message, clear_message, release_message,
        set_allocated_message, Ready
  <2> QED
    BY <1>1, <2>1
<1>3. CASE \E m, n \in Msg : Whole(m, n)
  <2>1. parsing' = Idle
    BY <1>3
    DEF Whole, Construct, Destroy, Clear, ConstructFrom, MergeFrom, CopyFrom, Swap, Ready
  <2> QED
    BY <1>1, <2>1
<1>4. CASE User
  BY <1>1, <1>4 DEF User, NewString, DeleteString
<1>5. CASE Parse
  BY <1>1, <1>5, ParseBegins, ParseGoes DEF Parse, ParseReturns
<1>6. CASE UNCHANGED vars
  <2>1. parsing' = parsing /\ ValueOf(parsing.into)' = ValueOf(parsing.into)
    BY <1>6 DEF vars, ValueOf, message
  <2> QED
    BY <2>1 DEF ParsesRight
<1> QED
  BY <1>2, <1>3, <1>4, <1>5, <1>6 DEF Next

\* When it was left, the account is what ParseMeaning says.
LEMMA MeaningFound == MessageInv /\ ParsesRight => ParseMeaning
<1> SUFFICES ASSUME MessageInv, ParsesRight, parsing.left PROVE ParseMeaning
  BY DEF ParseMeaning
<1> DEFINE m == parsing.into
           s == parsing.input
           from == parsing.from
           v == ValueOf(m)
<1>1. /\ parsing # Idle /\ m \in Msg /\ Exists(m)
      /\ s \in Seq(Field) /\ Len(s) \in Nat /\ from \in Value
  BY DEF Idle, MessageInv, TypeOK
<1>2. v \in Value
  BY <1>1, CanonicalValue DEF Canonical
<1>3. PICK K \in 0 .. Len(s) :
        /\ ReadSoFar(v, from, s, K)
        /\ \A i \in 1 .. K : s[i] \notin Ends
        /\ Ended(parsing, v, K)
  BY <1>1 DEF ParsesRight, ParseAt
<1>4. /\ K < Len(s) => s[K + 1] \in Ends
      /\ parsing.result = (\A i \in 1 .. K : s[i] \notin Cuts)
  BY <1>3 DEF Ended
<1>5. PICK turns : /\ Accounts(turns, from, s, Len(s))
                   /\ turns[Len(s)].value = v /\ turns[Len(s)].result = parsing.result
  BY <1>3 DEF Ended
<1> HIDE DEF v, s, from, m
<1>6. BeforeEnd(s) = 1 .. K
  BY <1>1, <1>3, <1>4, EndFound
<1>7. ReadInto(v, from, s, 1 .. K)
  BY <1>1, <1>2, <1>3, ReadIntoSoFar
<1>8. Parsed(from, s) = turns[Len(s)]
  BY <1>1, <1>5, ParsedBy
<1>9. /\ ReadInto(v, from, s, BeforeEnd(s))
      /\ parsing.result = (\A i \in BeforeEnd(s) : s[i] \notin Cuts)
      /\ Parsed(from, s).value = v /\ Parsed(from, s).result = parsing.result
  BY <1>4, <1>5, <1>6, <1>7, <1>8
<1> QED
  BY <1>9 DEF ParseMeaning, v, s, from, m

\* A parse that has ended has made of the message what the stream up to its end says,
\* for streams of any length, cut anywhere.
THEOREM ParsingMeans == Spec => []ParseMeaning
<1>1. Init => ParsesRight
  BY DEF Init, ParsesRight
<1>2. Spec => []ParsesRight
  BY <1>1, MessageInvariant, ParsesStep, PTL DEF Spec
<1> QED
  BY <1>2, MessageInvariant, MeaningFound, PTL
=============================================================================
