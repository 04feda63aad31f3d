--------------------------- MODULE EchoDescriptors ---------------------------
(***************************************************************************)
(* echo.pb.cc: how descriptors, reflections and default instances of        *)
(* echo.proto come to be.  AddDesc runs while static objects are made, by   *)
(* this file's initializer or because another's asked first; AssignDesc     *)
(* when a thread first asks for a descriptor, under a once flag.            *)
(***************************************************************************)
EXTENDS Naturals, Sequences

CONSTANTS Thread, Main,      \* threads; the one there is before main()
          NULL, NoThread

ASSUME DescriptorAssumption ==
  Main \in Thread /\ NoThread \notin Thread

Message == {"EchoRequest", "EchoResponse"}
Named == Message \cup {"EchoService"}

VARIABLES phase,              \* static initialization, main, after shutdown
          already_here,
          default_instance_, descriptor_, reflection_,
          alive,              \* objects made and not deleted
          made,               \* how many times objects have been made
          once,               \* protobuf_AssignDescriptors_once_
          prototype, lock,    \* the factory's table of types, and its mutex
          call                \* call[t]: what thread t asks for, and how far it is

vars == <<phase, already_here, default_instance_, descriptor_, reflection_, alive, made,
          once, prototype, lock, call>>
objects == <<already_here, default_instance_, descriptor_, reflection_, alive, made>>

Instance == [kind : {"instance"}, of : Message, n : Nat]
Reflection == [kind : {"reflection"}, of : Message, n : Nat,
               descriptor : Named \cup {NULL}, instance : Instance \cup {NULL}]

\* A null pointer is no descriptor and no object.
ASSUME NullAssumption == NULL \notin Named \cup Instance \cup Reflection

Asks == ({"descriptor"} \X Named)
          \cup ({"default_instance", "GetMetadata", "GetPrototype"} \X Message)

Quiet == [op |-> "none", of |-> NULL, pc |-> "quiet", at |-> 0, answer |-> NULL]

\* Types; and the factory's lock is held by who registers.
TypeOK ==
  /\ phase \in {"static", "main", "shut"} /\ already_here \in BOOLEAN
  /\ default_instance_ \in [Message -> Instance \cup {NULL}]
  /\ descriptor_ \in [Named -> Named \cup {NULL}]
  /\ reflection_ \in [Message -> Reflection \cup {NULL}]
  /\ alive \subseteq Instance \cup Reflection /\ made \in Nat
  /\ once \in {"new", "running", "done"}
  /\ prototype \in [Message -> Instance \cup {NULL}]
  /\ lock \in Thread \cup {NoThread}
  /\ \A t \in Thread :
       /\ call[t] = Quiet \/ <<call[t].op, call[t].of>> \in Asks
       /\ lock = t <=> /\ call[t].op = "GetPrototype"
                       /\ call[t].pc \in {"once", "assign", "read"}

Init ==
  /\ phase = "static" /\ already_here = FALSE
  /\ default_instance_ = [m \in Message |-> NULL]
  /\ descriptor_ = [d \in Named |-> NULL]
  /\ reflection_ = [m \in Message |-> NULL]
  /\ alive = {} /\ made = 0 /\ once = "new"
  /\ prototype = [m \in Message |-> NULL] /\ lock = NoThread
  /\ call = [t \in Thread |-> Quiet]

-----------------------------------------------------------------------------

At(t, pc) == call[t].pc = pc
Goes(t, pc, at) == call' = [call EXCEPT ![t].pc = pc, ![t].at = at]
Answers(t, a) == call' = [call EXCEPT ![t].pc = "got", ![t].answer = a]

NewInstance(m) == [kind |-> "instance", of |-> m, n |-> made]

\* What AddDesc makes.
AddObjects ==
  /\ already_here' = TRUE /\ made' = made + 1
  /\ default_instance_' = [m \in Message |-> NewInstance(m)]
  /\ alive' = alive \cup {NewInstance(m) : m \in Message}
  /\ UNCHANGED <<descriptor_, reflection_>>

\* Mutant of AddDesc: it does not look whether it has been here.
AddDescAgain == AddObjects

\* protobuf_AddDesc_echo_2eproto.  One step: when it is not there already, no
\* other thread is there.
AddDesc == IF already_here THEN UNCHANGED objects ELSE AddObjects

\* The static initializer of the file.
StaticDescriptorInitializer ==
  /\ phase = "static" /\ call[Main] = Quiet
  /\ AddDesc /\ phase' = "main"
  /\ UNCHANGED <<once, prototype, lock, call>>

\* A thread asks; before main() only an initializer of another file can.  Who asks
\* for a prototype has found the type in the pool.
Ask(t) ==
  /\ call[t] = Quiet /\ phase # "shut"
  /\ phase = "static" => t = Main
  /\ \E a \in Asks :
       /\ a[1] = "GetPrototype" => already_here
       /\ call' = [call EXCEPT ![t] =
            [Quiet EXCEPT !.op = a[1], !.of = a[2],
                          !.pc = CASE a[1] = "default_instance" -> "instance"
                                   [] a[1] = "GetPrototype" -> "lookup"
                                   [] OTHER -> "once"]]
  /\ UNCHANGED <<phase, objects, once, prototype, lock>>

Return(t) ==
  /\ At(t, "got") /\ call' = [call EXCEPT ![t] = Quiet]
  /\ UNCHANGED <<phase, objects, once, prototype, lock>>

\* if (default_instance_ == NULL) protobuf_AddDesc_echo_2eproto();
DefaultInstance(m) ==
  IF default_instance_[m] = NULL THEN AddDesc ELSE UNCHANGED objects

default_instance(t) ==
  /\ At(t, "instance")
  /\ DefaultInstance(call[t].of)
  /\ Answers(t, default_instance_'[call[t].of])
  /\ UNCHANGED <<phase, once, prototype, lock>>

\* Mutant of AssignDescriptorsOnce: who finds a descriptor does not ask the flag.
AssignIfNull(t) ==
  /\ At(t, "once")
  /\ \/ descriptor_["EchoRequest"] = NULL /\ once = "new"
        /\ once' = "running" /\ Goes(t, "assign", 0)
     \/ descriptor_["EchoRequest"] # NULL /\ Goes(t, "read", 1) /\ UNCHANGED once
  /\ UNCHANGED <<phase, objects, prototype, lock>>

\* GoogleOnceInit: the first runs AssignDesc, those who come meanwhile wait.
AssignDescriptorsOnce(t) ==
  /\ At(t, "once")
  /\ \/ once = "new" /\ once' = "running" /\ Goes(t, "assign", 0)
     \/ once = "done" /\ Goes(t, "read", 1) /\ UNCHANGED once
  /\ UNCHANGED <<phase, objects, prototype, lock>>

\* AssignDesc's assignments, in order.
Assignments == << <<"descriptor", "EchoRequest">>, <<"reflection", "EchoRequest">>,
                  <<"descriptor", "EchoResponse">>, <<"reflection", "EchoResponse">>,
                  <<"descriptor", "EchoService">> >>

NewReflection(m) ==
  [kind |-> "reflection", of |-> m, n |-> made, descriptor |-> descriptor_[m],
   instance |-> default_instance_[m]]

Assign(what, m) ==
  IF what = "descriptor"
  THEN /\ descriptor_' = [descriptor_ EXCEPT ![m] = m]
       /\ UNCHANGED <<reflection_, alive, made>>
  ELSE /\ reflection_' = [reflection_ EXCEPT ![m] = NewReflection(m)]
       /\ alive' = alive \cup {NewReflection(m)} /\ made' = made + 1
       /\ UNCHANGED descriptor_

\* Mutant of AssignDesc: prototypes come from the factory, under its lock.
AssignFromFactory(t) ==
  /\ At(t, "assign") /\ lock \in {NoThread, t}
  /\ LET at == call[t].at
     IN IF at = 0 THEN AddDesc
        ELSE /\ Assign(Assignments[at][1], Assignments[at][2])
             /\ UNCHANGED <<already_here, default_instance_>>
  /\ IF call[t].at = Len(Assignments)
     THEN once' = "done" /\ Goes(t, "read", 1)
     ELSE Goes(t, "assign", call[t].at + 1) /\ UNCHANGED once
  /\ UNCHANGED <<phase, prototype, lock>>

\* protobuf_AssignDesc_echo_2eproto; with its end the once flag is done.
AssignDesc(t) ==
  /\ At(t, "assign")
  /\ LET at == call[t].at
     IN IF at = 0 THEN AddDesc
        ELSE /\ Assign(Assignments[at][1], Assignments[at][2])
             /\ UNCHANGED <<already_here, default_instance_>>
  /\ IF call[t].at = Len(Assignments)
     THEN once' = "done" /\ Goes(t, "read", 1)
     ELSE Goes(t, "assign", call[t].at + 1) /\ UNCHANGED once
  /\ UNCHANGED <<phase, prototype, lock>>

\* descriptor(), GetDescriptor() and GetMetadata() read what AssignDesc wrote.
descriptor(t) ==
  /\ At(t, "read") /\ call[t].op = "descriptor"
  /\ Answers(t, descriptor_[call[t].of])
  /\ UNCHANGED <<phase, objects, once, prototype, lock>>

GetMetadata(t) ==
  /\ At(t, "read") /\ call[t].op = "GetMetadata"
  /\ Answers(t, <<descriptor_[call[t].of], reflection_[call[t].of]>>)
  /\ UNCHANGED <<phase, objects, once, prototype, lock>>

\* Mutant of GetPrototype: it does not wait for the lock.
GetPrototypeUnlocked(t) ==
  /\ \/ At(t, "lookup") /\ Goes(t, "lock", 0) /\ UNCHANGED lock
     \/ At(t, "lock") /\ Goes(t, "once", 0) /\ lock' = t
  /\ UNCHANGED <<phase, objects, once, prototype>>

\* The factory looks a type up; not found, it has the file's types registered,
\* under its lock, unless another thread has come first.
GetPrototype(t) ==
  /\ \/ /\ At(t, "lookup") /\ lock = NoThread /\ UNCHANGED lock
        /\ IF prototype[call[t].of] # NULL
           THEN Answers(t, prototype[call[t].of]) ELSE Goes(t, "lock", 0)
     \/ /\ At(t, "lock") /\ lock = NoThread
        /\ IF prototype[call[t].of] # NULL
           THEN Answers(t, prototype[call[t].of]) /\ UNCHANGED lock
           ELSE Goes(t, "once", 0) /\ lock' = t
  /\ UNCHANGED <<phase, objects, once, prototype>>

\* protobuf_RegisterTypes, after AssignDescriptorsOnce: the two messages.
RegisterTypes(t) ==
  /\ At(t, "read") /\ call[t].op = "GetPrototype"
  /\ LET m == IF call[t].at = 1 THEN "EchoRequest" ELSE "EchoResponse"
     IN /\ DefaultInstance(m)
        /\ prototype' = IF descriptor_[m] = NULL THEN prototype
                        ELSE [prototype EXCEPT ![m] = default_instance_'[m]]
  /\ IF call[t].at = 1
     THEN Goes(t, "read", 2) /\ UNCHANGED lock
     ELSE lock' = NoThread /\ Answers(t, prototype'[call[t].of])
  /\ UNCHANGED <<phase, once>>

\* Mutant of ShutdownFile: the reflections stay.
ShutdownInstances ==
  /\ phase = "main" /\ already_here /\ \A t \in Thread : call[t] = Quiet
  /\ phase' = "shut"
  /\ alive' = alive \ {default_instance_[m] : m \in Message}
  /\ UNCHANGED <<already_here, default_instance_, descriptor_, reflection_, made, once,
                 prototype, lock, call>>

\* protobuf_ShutdownFile_echo_2eproto, which AddDesc has had registered: protobuf
\* calls it when no thread uses messages any more.
ShutdownFile ==
  /\ phase = "main" /\ already_here /\ \A t \in Thread : call[t] = Quiet
  /\ phase' = "shut"
  /\ alive' = alive \ ({default_instance_[m] : m \in Message}
                         \cup {reflection_[m] : m \in Message})
  /\ UNCHANGED <<already_here, default_instance_, descriptor_, reflection_, made, once,
                 prototype, lock, call>>

Proceed(t) ==
  \/ default_instance(t) \/ AssignDescriptorsOnce(t) \/ AssignDesc(t) \/ descriptor(t)
  \/ GetMetadata(t) \/ GetPrototype(t) \/ RegisterTypes(t)

Next == \/ StaticDescriptorInitializer \/ ShutdownFile
        \/ \E t \in Thread : Ask(t) \/ Proceed(t) \/ Return(t)

Spec == Init /\ [][Next]_vars

\* Threads that can run do run.
FairSpec == Spec /\ \A t \in Thread : WF_vars(Proceed(t))

-----------------------------------------------------------------------------

\* Whatever thread asks first and whoever comes meanwhile, no answer is a pointer
\* that is not set yet or leads to one: a descriptor is there, a reflection knows its
\* descriptor and the one default instance, a prototype is that instance.
AnswersWhole ==
  \A t \in Thread : At(t, "got") =>
    LET a == call[t].answer  of == call[t].of  op == call[t].op
        instance == default_instance_[of]
    IN /\ op = "descriptor" => a = of
       /\ op \in {"default_instance", "GetPrototype"} => a = instance /\ a \in alive
       /\ op = "GetMetadata" =>
            a[1] = of /\ a[2] # NULL /\ a[2] \in alive
              /\ a[2].descriptor = of /\ a[2].instance = instance /\ instance \in alive

\* Every instance and reflection ever made is the one its pointer names, so that
\* shutdown leaves none behind.
NothingLost ==
  /\ alive \subseteq {default_instance_[m] : m \in Message} \cup {reflection_[m] : m \in Message}
  /\ phase = "shut" => alive = {}

\* Every thread that asks is answered: neither the once flag nor the factory's lock,
\* nor the one inside the other, keeps it waiting for ever.
EveryoneAnswered == \A t \in Thread : call[t] # Quiet ~> At(t, "got")
=============================================================================
