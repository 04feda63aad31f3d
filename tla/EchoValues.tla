------------------------------ MODULE EchoValues ------------------------------
(***************************************************************************)
(* What the users of echo.pb.h see of a set of messages: each is a value of *)
(* its own, and an operation on one changes no other.                       *)
(***************************************************************************)
EXTENDS EchoWire

CONSTANTS Msg, NoObject

VARIABLE val   \* val[m]: the value of message m, or NoObject

Exists(m) == val[m] # NoObject

Becomes(m, v) == val' = [val EXCEPT ![m] = v]

Init == val = [m \in Msg |-> NoObject]

\* One message gets a new value.
Change(m) ==
  \/ ~Exists(m) /\ Becomes(m, Blank)
  \/ Exists(m) /\ Becomes(m, NoObject)
  \/ /\ Exists(m)
     /\ \/ \E t \in Text : Becomes(m, Assigned(val[m], t))
        \/ Becomes(m, [val[m] EXCEPT !.has = FALSE, !.text = Empty])
        \/ Becomes(m, Blank)
        \/ \E f \in Field : Becomes(m, ParsedField(val[m], f).value)

\* One message takes over another's value, or adds it to its own.
Take(m, n) ==
  /\ Exists(n) /\ m # n
  /\ \/ Becomes(m, val[n])
     \/ Exists(m) /\ Becomes(m, Merged(val[m], val[n]))

Swap(m, n) ==
  /\ Exists(m) /\ Exists(n)
  /\ val' = [val EXCEPT ![m] = val[n], ![n] = val[m]]

Next == \E m, n \in Msg : Change(m) \/ Take(m, n) \/ Swap(m, n)

Spec == Init /\ [][Next]_val
=============================================================================
