------------------------- MODULE EchoDescriptorsProofs -------------------------
(***************************************************************************)
(* That what echo.pb.cc makes on demand is whole when it is handed out and  *)
(* gone after shutdown, for any number of threads.  The invariant says how  *)
(* far AssignDesc is by what it has assigned, and that only one thread is   *)
(* in it.                                                                   *)
(***************************************************************************)
EXTENDS EchoDescriptors, TLAPS

Ops == {"none", "descriptor", "default_instance", "GetMetadata", "GetPrototype"}
Places == {"quiet", "instance", "lookup", "lock", "once", "assign", "read", "got"}
AnswerSet == Named \cup {NULL} \cup Instance
               \cup ((Named \cup {NULL}) \X (Reflection \cup {NULL}))
CallSet == [op : Ops, of : Named \cup {NULL}, pc : Places, at : Nat, answer : AnswerSet]

WholeReflection(m) ==
  /\ reflection_[m] \in Reflection
  /\ reflection_[m].descriptor = m /\ reflection_[m].instance = default_instance_[m]

\* Before its k-th assignment AssignDesc has made those before, and no other.
Progress(k) ==
  /\ k > 0 => already_here
  /\ descriptor_["EchoRequest"] = IF k > 1 THEN "EchoRequest" ELSE NULL
  /\ IF k > 2 THEN WholeReflection("EchoRequest") ELSE reflection_["EchoRequest"] = NULL
  /\ descriptor_["EchoResponse"] = IF k > 3 THEN "EchoResponse" ELSE NULL
  /\ IF k > 4 THEN WholeReflection("EchoResponse") ELSE reflection_["EchoResponse"] = NULL
  /\ descriptor_["EchoService"] = IF k > 5 THEN "EchoService" ELSE NULL

Pointed ==
  ({default_instance_[m] : m \in Message} \cup {reflection_[m] : m \in Message}) \ {NULL}

\* The objects.
ObjectsInv ==
  /\ phase \in {"static", "main", "shut"} /\ already_here \in BOOLEAN /\ made \in Nat
  /\ default_instance_ \in [Message -> Instance \cup {NULL}]
  /\ descriptor_ \in [Named -> Named \cup {NULL}]
  /\ reflection_ \in [Message -> Reflection \cup {NULL}]
  /\ alive \subseteq Instance \cup Reflection
  /\ already_here => \A m \in Message : default_instance_[m] \in Instance
  /\ ~already_here => phase = "static" /\ \A m \in Message : default_instance_[m] = NULL
  /\ alive = IF phase = "shut" THEN {} ELSE Pointed

\* The flag and the factory.
OnceInv ==
  /\ once \in {"new", "running", "done"}
  /\ once = "new" => Progress(0)
  /\ once = "done" => Progress(6)
  /\ prototype \in [Message -> Instance \cup {NULL}] /\ lock \in Thread \cup {NoThread}
  /\ \A m \in Message : prototype[m] \in {NULL, default_instance_[m]}

Asked(op, of) ==
  (op = "descriptor" /\ of \in Named) \/ (op \in Ops \ {"none"} /\ of \in Message)

Registers(t) == call[t].op = "GetPrototype" /\ call[t].pc \in {"once", "assign", "read"}

\* One thread.
ThreadInv(t) ==
  /\ At(t, "quiet") => call[t] = Quiet
  /\ ~At(t, "quiet") => phase # "shut" /\ Asked(call[t].op, call[t].of)
  /\ At(t, "instance") => call[t].op = "default_instance"
  /\ At(t, "lookup") \/ At(t, "lock") => call[t].op = "GetPrototype"
  /\ At(t, "once") \/ At(t, "assign") \/ At(t, "read") => call[t].op # "default_instance"
  /\ call[t].op = "GetPrototype" => already_here
  /\ At(t, "assign") => once = "running" /\ call[t].at \in 0 .. 5 /\ Progress(call[t].at)
  /\ At(t, "read") => once = "done" /\ call[t].at \in {1, 2}
  /\ At(t, "read") /\ call[t].at = 2 => prototype["EchoRequest"] # NULL
  /\ lock = t <=> Registers(t)

\* What thread t was given is whole.
Whole(t) ==
  At(t, "got") =>
    LET a == call[t].answer  of == call[t].of  op == call[t].op
        instance == default_instance_[of]
    IN /\ op = "descriptor" => a = of
       /\ op \in {"default_instance", "GetPrototype"} => a = instance /\ a \in alive
       /\ op = "GetMetadata" =>
            a[1] = of /\ a[2] # NULL /\ a[2] \in alive
              /\ a[2].descriptor = of /\ a[2].instance = instance /\ instance \in alive

CallsInv ==
  /\ call \in [Thread -> CallSet]
  /\ \A t \in Thread : ThreadInv(t) /\ Whole(t)
  /\ \A t, u \in Thread : At(t, "assign") /\ At(u, "assign") => t = u

DescriptorsInv == ObjectsInv /\ OnceInv /\ CallsInv

-----------------------------------------------------------------------------
(* Lemmas about the pieces.                                                 *)

\* No name, instance or reflection is NULL.
LEMMA Names ==
  /\ NULL # "EchoRequest" /\ NULL # "EchoResponse" /\ NULL # "EchoService"
  /\ NULL \notin Instance /\ NULL \notin Reflection
  BY NullAssumption DEF Named, Message

\* What a step of a call changes of it.
LEMMA CallGoes ==
  ASSUME call \in [Thread -> CallSet], NEW t \in Thread, NEW pc \in Places, NEW at \in Nat,
         Goes(t, pc, at)
  PROVE  /\ call' \in [Thread -> CallSet]
         /\ call'[t].op = call[t].op /\ call'[t].of = call[t].of
         /\ call'[t].pc = pc /\ call'[t].at = at
         /\ \A u \in Thread : u # t => call'[u] = call[u]
  BY DEF Goes, CallSet

\* A call that is answered is a call still.
LEMMA CallAnswers ==
  ASSUME call \in [Thread -> CallSet], NEW t \in Thread, NEW a \in AnswerSet, Answers(t, a)
  PROVE  /\ call' \in [Thread -> CallSet]
         /\ call'[t].op = call[t].op /\ call'[t].of = call[t].of
         /\ call'[t].pc = "got" /\ call'[t].answer = a
         /\ \A u \in Thread : u # t => call'[u] = call[u]
  BY DEF Answers, CallSet, Places

\* AddDesc makes the default instances once, and changes nothing else that is there.
LEMMA AddDescKeeps ==
  ASSUME ObjectsInv, OnceInv, AddDesc, phase # "shut", phase' \in {"static", "main"},
         prototype' = prototype
  PROVE  /\ ObjectsInv' /\ already_here'
         /\ alive \subseteq alive' /\ \A m \in Message : default_instance_'[m] \in alive'
         /\ already_here => default_instance_' = default_instance_
         /\ UNCHANGED <<descriptor_, reflection_>>
         /\ \A m \in Message : prototype'[m] \in {NULL, default_instance_'[m]}
<1>1. CASE already_here
  BY <1>1, Names DEF AddDesc, objects, ObjectsInv, OnceInv, Pointed
<1>2. CASE ~already_here
  <2>1. AddObjects
    BY <1>2 DEF AddDesc
  <2>2. \A m \in Message : NewInstance(m) \in Instance
    BY DEF NewInstance, Instance, ObjectsInv
  <2>3. \A m \in Message : default_instance_'[m] = NewInstance(m)
    BY <2>1 DEF AddObjects
  <2>4. /\ default_instance_' \in [Message -> Instance \cup {NULL}] /\ already_here'
        /\ made' \in Nat /\ UNCHANGED <<descriptor_, reflection_>>
    BY <2>1, <2>2 DEF AddObjects, ObjectsInv
  <2>5. \A m \in Message : default_instance_'[m] \in Instance /\ default_instance_'[m] # NULL
    BY <2>2, <2>3, Names
  <2>6. alive' = alive \cup {default_instance_'[m] : m \in Message}
    BY <2>1, <2>3 DEF AddObjects
  <2>7. alive = {reflection_[m] : m \in Message} \ {NULL}
    BY <1>2 DEF ObjectsInv, Pointed
  <2>8. alive' = Pointed'
    BY <2>4, <2>5, <2>6, <2>7 DEF Pointed
  <2>9. ObjectsInv'
    BY <2>4, <2>5, <2>6, <2>8 DEF ObjectsInv
  <2>10. \A m \in Message : prototype'[m] = NULL
    BY <1>2 DEF ObjectsInv, OnceInv
  <2> QED
    BY <1>2, <2>4, <2>6, <2>9, <2>10
<1> QED
  BY <1>1, <1>2

\* What AssignDesc has assigned is not undone by AddDesc.
LEMMA ProgressKept ==
  ASSUME UNCHANGED <<descriptor_, reflection_>>, NEW k \in 0 .. 6, Progress(k),
         already_here => already_here' /\ default_instance_' = default_instance_
  PROVE  Progress(k)'
<1>1. k = 0 \/ (k > 0 /\ already_here)
  BY DEF Progress
<1>2. CASE k = 0
  BY <1>2 DEF Progress
<1>3. CASE k > 0 /\ already_here
  BY <1>3 DEF Progress, WholeReflection
<1> QED
  BY <1>1, <1>2, <1>3

\* A step after which everything that was there still is.
Stable ==
  /\ phase' # "shut" /\ alive \subseteq alive'
  /\ already_here => already_here' /\ default_instance_' = default_instance_
  /\ prototype["EchoRequest"] # NULL => prototype'["EchoRequest"] # NULL

\* AssignDesc is k assignments far after the step.
StillAt(n) == \E k \in 0 .. 5 : k = n /\ Progress(k)'

\* A thread that a stable step leaves where it was.
LEMMA Bystander ==
  ASSUME DescriptorsInv, Stable, NEW u \in Thread, call'[u] = call[u],
         At(u, "assign") => once' = "running" /\ StillAt(call[u].at),
         At(u, "read") => once' = "done",
         lock' = u <=> lock = u
  PROVE  (ThreadInv(u) /\ Whole(u))'
<1>1. ThreadInv(u) /\ Whole(u) /\ call[u] \in CallSet
  BY DEF DescriptorsInv, CallsInv
<1>2. ThreadInv(u)'
  BY <1>1 DEF ThreadInv, Stable, At, Registers, StillAt
<1>3. Whole(u)'
  <2> SUFFICES ASSUME At(u, "got") PROVE Whole(u)'
    BY DEF Whole, At
  <2>1. alive \subseteq Instance \cup Reflection /\ NULL \notin alive
    BY Names DEF DescriptorsInv, ObjectsInv
  <2>2. call[u].op = "descriptor" \/ (call[u].of \in Message /\ call[u].op \in Ops \ {"none"})
    BY <1>1 DEF ThreadInv, Asked, At
  <2>3. CASE call[u].op = "descriptor"
    BY <1>1, <2>3 DEF Whole, At
  <2>4. CASE call[u].op # "descriptor" /\ call[u].of \in Message
    <3>1. default_instance_[call[u].of] \in alive
      BY <1>1, <2>2, <2>4 DEF Whole, Ops
    <3>2. already_here
      BY <2>1, <2>4, <3>1 DEF DescriptorsInv, ObjectsInv
    <3> QED
      BY <1>1, <2>4, <3>2 DEF Whole, At, Stable
  <2> QED
    BY <2>2, <2>3, <2>4
<1> QED
  BY <1>2, <1>3

\* A stable step of one thread.
LEMMA OneMoves ==
  ASSUME DescriptorsInv, Stable, NEW t \in Thread,
         call' \in [Thread -> CallSet], \A u \in Thread : u # t => call'[u] = call[u],
         \A u \in Thread : u # t =>
           /\ At(u, "assign") => once' = "running" /\ StillAt(call[u].at)
           /\ At(u, "read") => once' = "done"
           /\ lock' = u <=> lock = u,
         (ThreadInv(t) /\ Whole(t))',
         call'[t].pc = "assign" => \A u \in Thread : At(u, "assign") => u = t
  PROVE  CallsInv'
<1>1. ASSUME NEW u \in Thread PROVE (ThreadInv(u) /\ Whole(u))'
  <2>1. CASE u = t
    BY <2>1
  <2>2. CASE u # t
    BY <2>2, Bystander
  <2> QED
    BY <2>1, <2>2
<1>2. ASSUME NEW u \in Thread, NEW v \in Thread, call'[u].pc = "assign", call'[v].pc = "assign"
      PROVE  u = v
  BY <1>2 DEF DescriptorsInv, CallsInv, At
<1> QED
  BY <1>1, <1>2 DEF CallsInv, At

\* Where one thread moves and no object does.
LEMMA OneMovesAlone ==
  ASSUME DescriptorsInv, phase # "shut", UNCHANGED <<phase, objects, prototype>>,
         once' \in {"new", "running", "done"}, once' = once \/ (once = "new" /\ once' = "running")
  PROVE  /\ ObjectsInv' /\ Stable
         /\ lock' \in Thread \cup {NoThread} => OnceInv'
         /\ \A k \in 0 .. 6 : Progress(k) => Progress(k)'
         /\ \A u \in Thread : /\ At(u, "assign") => once' = "running" /\ StillAt(call[u].at)
                              /\ At(u, "read") => once' = "done"
<1>1. \A k \in 0 .. 6 : Progress(k) => Progress(k)'
  BY DEF Progress, WholeReflection, objects
<1>2. ObjectsInv' /\ Stable
  BY DEF DescriptorsInv, ObjectsInv, Pointed, Stable, objects
<1>3. lock' \in Thread \cup {NoThread} => OnceInv'
  BY <1>1 DEF DescriptorsInv, OnceInv, objects
<1>4. \A u \in Thread : /\ At(u, "assign") => once' = "running" /\ StillAt(call[u].at)
                        /\ At(u, "read") => once' = "done"
  <2> SUFFICES ASSUME NEW u \in Thread
               PROVE  /\ At(u, "assign") => once' = "running" /\ StillAt(call[u].at)
                      /\ At(u, "read") => once' = "done"
    OBVIOUS
  <2>1. /\ At(u, "assign") => once = "running" /\ call[u].at \in 0 .. 5 /\ Progress(call[u].at)
        /\ At(u, "read") => once = "done"
    BY DEF DescriptorsInv, CallsInv, ThreadInv
  <2> QED
    BY <1>1, <2>1 DEF StillAt
<1> QED
  BY <1>1, <1>2, <1>3, <1>4

-----------------------------------------------------------------------------
(* The steps.                                                               *)

\* Before static initialization nothing is built.
LEMMA StartsWhole == Init => DescriptorsInv
<1> SUFFICES ASSUME Init PROVE DescriptorsInv
  OBVIOUS
<1>1. ObjectsInv
  BY DEF Init, ObjectsInv, Pointed
<1>2. OnceInv
  BY DEF Init, OnceInv, Progress, Named, Message
<1>3. call \in [Thread -> CallSet] /\ \A t \in Thread : call[t] = Quiet
  BY DEF Init, CallSet, Quiet, Ops, Places, AnswerSet
<1>4. \A t \in Thread : ThreadInv(t) /\ Whole(t) /\ ~At(t, "assign")
  BY <1>3, DescriptorAssumption DEF ThreadInv, Whole, At, Quiet, Registers, Init
<1> QED
  BY <1>1, <1>2, <1>3, <1>4 DEF DescriptorsInv, CallsInv

\* StaticDescriptorInitializer builds the default instances.
LEMMA InitializerKeeps == DescriptorsInv /\ StaticDescriptorInitializer => DescriptorsInv'
<1> SUFFICES ASSUME DescriptorsInv, StaticDescriptorInitializer PROVE DescriptorsInv'
  OBVIOUS
<1>1. /\ AddDesc /\ phase # "shut" /\ phase' = "main"
      /\ UNCHANGED <<once, prototype, lock, call>>
  BY DEF StaticDescriptorInitializer
<1>2. /\ ObjectsInv' /\ already_here' /\ alive \subseteq alive'
      /\ already_here => default_instance_' = default_instance_
      /\ UNCHANGED <<descriptor_, reflection_>>
      /\ \A m \in Message : prototype'[m] \in {NULL, default_instance_'[m]}
  BY <1>1, AddDescKeeps DEF DescriptorsInv
<1>3. \A k \in 0 .. 6 : Progress(k) => Progress(k)'
  BY <1>2, ProgressKept
<1>4. OnceInv'
  BY <1>1, <1>2, <1>3 DEF DescriptorsInv, OnceInv, ObjectsInv
<1>5. Stable
  BY <1>1, <1>2 DEF Stable
<1>6. \A u \in Thread : (ThreadInv(u) /\ Whole(u))'
  <2> SUFFICES ASSUME NEW u \in Thread PROVE (ThreadInv(u) /\ Whole(u))'
    OBVIOUS
  <2>1. /\ At(u, "assign") => once' = "running" /\ StillAt(call[u].at)
        /\ At(u, "read") => once' = "done"
    BY <1>1, <1>3 DEF DescriptorsInv, CallsInv, ThreadInv, StillAt
  <2> QED
    BY <1>1, <1>5, <2>1, Bystander
<1>7. CallsInv'
  BY <1>1, <1>6 DEF DescriptorsInv, CallsInv, At
<1> QED
  BY <1>2, <1>4, <1>7 DEF DescriptorsInv

\* protobuf_ShutdownFile deletes what was built.
LEMMA ShutdownKeeps == DescriptorsInv /\ ShutdownFile => DescriptorsInv'
<1> SUFFICES ASSUME DescriptorsInv, ShutdownFile PROVE DescriptorsInv'
  OBVIOUS
<1>1. alive' = {}
  BY DEF ShutdownFile, DescriptorsInv, ObjectsInv, Pointed
<1>2. ObjectsInv'
  BY <1>1 DEF ShutdownFile, DescriptorsInv, ObjectsInv
<1>3. OnceInv'
  BY DEF ShutdownFile, DescriptorsInv, OnceInv, Progress, WholeReflection
<1>4. \A t \in Thread : call'[t] = Quiet /\ ~Registers(t)'
  BY DEF ShutdownFile, Registers, Quiet
<1>5. \A t \in Thread : (ThreadInv(t) /\ Whole(t))' /\ ~At(t, "assign")'
  BY <1>4 DEF ShutdownFile, DescriptorsInv, CallsInv, ThreadInv, Whole, At, Quiet, Registers
<1> QED
  BY <1>2, <1>3, <1>5 DEF ShutdownFile, DescriptorsInv, CallsInv

\* A call begins.
LEMMA AskKeeps ==
  ASSUME DescriptorsInv, NEW t \in Thread, Ask(t)
  PROVE  DescriptorsInv'
<1>1. call[t] = Quiet /\ phase # "shut" /\ UNCHANGED <<phase, objects, once, prototype, lock>>
  BY DEF Ask
<1>2. PICK a \in Asks :
        /\ a[1] = "GetPrototype" => already_here
        /\ call' = [call EXCEPT ![t] =
             [Quiet EXCEPT !.op = a[1], !.of = a[2],
                           !.pc = CASE a[1] = "default_instance" -> "instance"
                                    [] a[1] = "GetPrototype" -> "lookup"
                                    [] OTHER -> "once"]]
  BY DEF Ask
<1>3. Asked(a[1], a[2]) /\ a[1] \in Ops \ {"none"} /\ a[2] \in Named
  BY DEF Asks, Asked, Ops, Named
<1> DEFINE pc == CASE a[1] = "default_instance" -> "instance"
                   [] a[1] = "GetPrototype" -> "lookup"
                   [] OTHER -> "once"
           c == [Quiet EXCEPT !.op = a[1], !.of = a[2], !.pc = pc]
<1>4. c.op = a[1] /\ c.of = a[2] /\ c.pc = pc /\ c \in CallSet
  <2>1. pc \in Places
    BY DEF Places
  <2> HIDE DEF pc
  <2> QED
    BY <1>3, <2>1 DEF Quiet, CallSet, AnswerSet
<1>5. /\ call'[t] = c /\ call' \in [Thread -> CallSet]
      /\ \A u \in Thread : u # t => call'[u] = call[u]
  BY <1>2, <1>4 DEF DescriptorsInv, CallsInv
<1> HIDE DEF c
<1>6. (ThreadInv(t) /\ Whole(t))'
  <2>1. lock # t
    BY <1>1 DEF DescriptorsInv, CallsInv, ThreadInv, Registers, Quiet
  <2>2. \/ pc = "instance" /\ a[1] = "default_instance"
        \/ pc = "lookup" /\ a[1] = "GetPrototype"
        \/ pc = "once" /\ a[1] \notin {"default_instance", "GetPrototype"}
    OBVIOUS
  <2> HIDE DEF pc
  <2> QED
    BY <1>1, <1>2, <1>3, <1>4, <1>5, <2>1, <2>2
    DEF ThreadInv, Whole, At, Registers, objects
<1>7. call'[t].pc # "assign"
  BY <1>4, <1>5
<1>8. CallsInv'
  BY <1>1, <1>5, <1>6, <1>7, OneMovesAlone, OneMoves DEF DescriptorsInv, OnceInv
<1> QED
  BY <1>1, <1>8, OneMovesAlone DEF DescriptorsInv, OnceInv

\* A call ends.
LEMMA ReturnKeeps ==
  ASSUME DescriptorsInv, NEW t \in Thread, Return(t)
  PROVE  DescriptorsInv'
<1>1. /\ At(t, "got") /\ phase # "shut" /\ UNCHANGED <<phase, objects, once, prototype, lock>>
  BY DEF Return, DescriptorsInv, CallsInv, ThreadInv, At
<1>2. call'[t] = Quiet /\ \A u \in Thread : u # t => call'[u] = call[u]
  BY DEF Return, DescriptorsInv, CallsInv
<1>3. call' \in [Thread -> CallSet]
  <2>1. Quiet \in CallSet
    BY DEF CallSet, Quiet, Ops, Places, AnswerSet
  <2> QED
    BY <2>1 DEF Return, DescriptorsInv, CallsInv
<1>4. (ThreadInv(t) /\ Whole(t))'
  <2>1. lock # t
    BY <1>1 DEF DescriptorsInv, CallsInv, ThreadInv, Registers, At
  <2> QED
    BY <1>1, <1>2, <2>1 DEF ThreadInv, Whole, At, Registers, Quiet
<1>5. call'[t].pc # "assign"
  BY <1>2 DEF Quiet
<1>6. CallsInv'
  BY <1>1, <1>2, <1>3, <1>4, <1>5, OneMovesAlone, OneMoves DEF DescriptorsInv, OnceInv
<1> QED
  BY <1>1, <1>6, OneMovesAlone DEF DescriptorsInv, OnceInv

\* default_instance()
LEMMA InstanceKeeps ==
  ASSUME DescriptorsInv, NEW t \in Thread, default_instance(t)
  PROVE  DescriptorsInv'
<1>1. /\ At(t, "instance") /\ phase # "shut" /\ UNCHANGED <<phase, once, prototype, lock>>
      /\ call[t].op = "default_instance" /\ call[t].of \in Message
      /\ call \in [Thread -> CallSet]
  BY DEF default_instance, DescriptorsInv, CallsInv, ThreadInv, At, Asked
<1> DEFINE m == call[t].of
<1>2. DefaultInstance(m) /\ Answers(t, default_instance_'[m])
  BY DEF default_instance
<1>3. /\ ObjectsInv' /\ already_here'
      /\ alive \subseteq alive' /\ \A i \in Message : default_instance_'[i] \in alive'
      /\ already_here => default_instance_' = default_instance_
      /\ UNCHANGED <<descriptor_, reflection_>>
      /\ \A i \in Message : prototype'[i] \in {NULL, default_instance_'[i]}
  <2>1. CASE default_instance_[m] = NULL
    <3>1. AddDesc
      BY <1>2, <2>1 DEF DefaultInstance
    <3>2. phase' \in {"static", "main"}
      BY <1>1 DEF DescriptorsInv, ObjectsInv
    <3> QED
      BY <1>1, <3>1, <3>2, AddDescKeeps DEF DescriptorsInv
  <2>2. CASE default_instance_[m] # NULL
    <3>1. UNCHANGED objects /\ already_here
      BY <1>1, <1>2, <2>2 DEF DefaultInstance, DescriptorsInv, ObjectsInv
    <3>2. AddDesc /\ phase' \in {"static", "main"}
      BY <1>1, <3>1 DEF AddDesc, DescriptorsInv, ObjectsInv
    <3> QED
      BY <1>1, <3>2, AddDescKeeps DEF DescriptorsInv
  <2> QED
    BY <2>1, <2>2
<1>4. \A k \in 0 .. 6 : Progress(k) => Progress(k)'
  BY <1>3, ProgressKept
<1>5. OnceInv'
  BY <1>1, <1>3, <1>4 DEF DescriptorsInv, OnceInv, ObjectsInv
<1>6. Stable
  BY <1>1, <1>3 DEF Stable
<1>7. PICK a \in Instance : a = default_instance_'[m]
  BY <1>1, <1>3 DEF ObjectsInv
<1>8. /\ call' \in [Thread -> CallSet]
      /\ call'[t].op = call[t].op /\ call'[t].of = call[t].of
      /\ call'[t].pc = "got" /\ call'[t].answer = a
      /\ \A u \in Thread : u # t => call'[u] = call[u]
  BY <1>1, <1>2, <1>7, CallAnswers DEF AnswerSet
<1>9. (ThreadInv(t) /\ Whole(t))'
  <2>1. lock # t
    BY <1>1 DEF DescriptorsInv, CallsInv, ThreadInv, Registers
  <2> QED
    BY <1>1, <1>3, <1>7, <1>8, <2>1 DEF ThreadInv, Whole, At, Registers, Asked, Ops
<1>10. \A u \in Thread : /\ At(u, "assign") => once' = "running" /\ StillAt(call[u].at)
                         /\ At(u, "read") => once' = "done"
  BY <1>1, <1>4 DEF DescriptorsInv, CallsInv, ThreadInv, StillAt
<1>11. CallsInv'
  BY <1>1, <1>6, <1>8, <1>9, <1>10, OneMoves
<1> QED
  BY <1>3, <1>5, <1>11 DEF DescriptorsInv

\* GoogleOnceInit: one thread runs the assignment, the others wait.
LEMMA OnceKeeps ==
  ASSUME DescriptorsInv, NEW t \in Thread, AssignDescriptorsOnce(t)
  PROVE  DescriptorsInv'
<1>1. /\ At(t, "once") /\ phase # "shut" /\ UNCHANGED <<phase, objects, prototype, lock>>
      /\ call \in [Thread -> CallSet] /\ lock \in Thread \cup {NoThread}
      /\ ThreadInv(t)
  BY DEF AssignDescriptorsOnce, DescriptorsInv, OnceInv, CallsInv, ThreadInv, At
<1>2. \/ once = "new" /\ once' = "running" /\ Goes(t, "assign", 0)
      \/ once = "done" /\ once' = once /\ Goes(t, "read", 1)
  BY DEF AssignDescriptorsOnce
<1>3. /\ ObjectsInv' /\ Stable /\ OnceInv'
      /\ \A k \in 0 .. 6 : Progress(k) => Progress(k)'
      /\ \A u \in Thread : /\ At(u, "assign") => once' = "running" /\ StillAt(call[u].at)
                           /\ At(u, "read") => once' = "done"
  BY <1>1, <1>2, OneMovesAlone
<1>4. CASE once = "new" /\ once' = "running" /\ Goes(t, "assign", 0)
  <2>1. /\ call' \in [Thread -> CallSet]
        /\ call'[t].op = call[t].op /\ call'[t].of = call[t].of
        /\ call'[t].pc = "assign" /\ call'[t].at = 0
        /\ \A u \in Thread : u # t => call'[u] = call[u]
    BY <1>1, <1>4, CallGoes DEF Places
  <2>2. Progress(0)'
    BY <1>3, <1>4 DEF DescriptorsInv, OnceInv
  <2>3. (ThreadInv(t) /\ Whole(t))'
    <3>1. PICK k \in 0 .. 5 : k = 0 /\ k = call'[t].at
      BY <2>1
    <3>2. Progress(k)'
      BY <2>2, <3>1
    <3>3. (Progress(call[t].at))'
      BY <3>1, <3>2 DEF Progress
    <3> QED
      BY <1>1, <1>4, <2>1, <3>3 DEF ThreadInv, Whole, At, Registers, Asked, objects
  <2>4. \A u \in Thread : ~At(u, "assign")
    BY <1>4 DEF DescriptorsInv, CallsInv, ThreadInv
  <2>5. CallsInv'
    BY <1>1, <1>3, <2>1, <2>3, <2>4, OneMoves
  <2> QED
    BY <1>3, <2>5 DEF DescriptorsInv
<1>5. CASE once = "done" /\ once' = once /\ Goes(t, "read", 1)
  <2>1. /\ call' \in [Thread -> CallSet]
        /\ call'[t].op = call[t].op /\ call'[t].of = call[t].of
        /\ call'[t].pc = "read" /\ call'[t].at = 1
        /\ \A u \in Thread : u # t => call'[u] = call[u]
    BY <1>1, <1>5, CallGoes DEF Places
  <2>2. (ThreadInv(t) /\ Whole(t))'
    BY <1>1, <1>5, <2>1 DEF ThreadInv, Whole, At, Registers, Asked, objects
  <2>3. CallsInv'
    BY <1>1, <1>3, <2>1, <2>2, OneMoves
  <2> QED
    BY <1>3, <2>3 DEF DescriptorsInv
<1> QED
  BY <1>2, <1>4, <1>5

\* A reflection made where there was none.
LEMMA ReflectionMade ==
  ASSUME ObjectsInv, NEW m \in Message, phase # "shut", already_here,
         reflection_[m] = NULL, descriptor_[m] = m, Assign("reflection", m),
         UNCHANGED <<phase, already_here, default_instance_>>
  PROVE  /\ ObjectsInv' /\ alive \subseteq alive' /\ UNCHANGED descriptor_
         /\ \A i \in Message : i # m => reflection_'[i] = reflection_[i]
         /\ WholeReflection(m)'
<1>1. /\ reflection_' = [reflection_ EXCEPT ![m] = NewReflection(m)]
      /\ alive' = alive \cup {NewReflection(m)} /\ made' = made + 1
      /\ UNCHANGED descriptor_
  BY DEF Assign
<1>2. /\ NewReflection(m) \in Reflection /\ NewReflection(m) # NULL
      /\ NewReflection(m).descriptor = m /\ NewReflection(m).instance = default_instance_[m]
  <2>1. NewReflection(m) \in Reflection
    BY DEF NewReflection, Reflection, ObjectsInv, Named
  <2> QED
    BY <2>1, Names DEF NewReflection
<1>3. /\ reflection_' \in [Message -> Reflection \cup {NULL}]
      /\ reflection_'[m] = NewReflection(m)
      /\ \A i \in Message : i # m => reflection_'[i] = reflection_[i]
  BY <1>1, <1>2 DEF ObjectsInv
<1>4. alive' = Pointed'
  <2>1. Pointed' = Pointed \cup {NewReflection(m)}
    BY <1>2, <1>3 DEF Pointed
  <2> QED
    BY <1>1, <2>1 DEF ObjectsInv
<1>5. ObjectsInv'
  BY <1>1, <1>2, <1>3, <1>4 DEF ObjectsInv
<1> QED
  BY <1>1, <1>2, <1>3, <1>5 DEF WholeReflection

\* A descriptor assigned.
LEMMA DescriptorMade ==
  ASSUME ObjectsInv, NEW m \in Named, Assign("descriptor", m),
         UNCHANGED <<phase, already_here, default_instance_>>
  PROVE  /\ ObjectsInv' /\ alive \subseteq alive' /\ UNCHANGED reflection_
         /\ descriptor_'[m] = m /\ \A d \in Named : d # m => descriptor_'[d] = descriptor_[d]
  BY DEF Assign, ObjectsInv, Pointed

\* One more assignment of AssignDesc.
LEMMA AssignAdvances ==
  ASSUME ObjectsInv, NEW k \in 1 .. 5, Progress(k), phase # "shut",
         Assign(Assignments[k][1], Assignments[k][2]),
         UNCHANGED <<phase, already_here, default_instance_>>
  PROVE  ObjectsInv' /\ alive \subseteq alive' /\ Progress(k + 1)'
<1>1. "EchoRequest" \in Message /\ "EchoResponse" \in Message /\ Message \subseteq Named
      /\ "EchoService" \in Named
  BY DEF Message, Named
<1>2. CASE k = 1
  <2>1. Assign("descriptor", "EchoRequest")
    BY <1>2 DEF Assignments
  <2> QED
    BY <1>1, <1>2, <2>1, DescriptorMade DEF Progress
<1>3. CASE k = 2
  <2>1. Assign("reflection", "EchoRequest")
    BY <1>3 DEF Assignments
  <2> QED
    BY <1>1, <1>3, <2>1, ReflectionMade DEF Progress
<1>4. CASE k = 3
  <2>1. Assign("descriptor", "EchoResponse")
    BY <1>4 DEF Assignments
  <2> QED
    BY <1>1, <1>4, <2>1, DescriptorMade DEF Progress, WholeReflection
<1>5. CASE k = 4
  <2>1. Assign("reflection", "EchoResponse")
    BY <1>5 DEF Assignments
  <2> QED
    BY <1>1, <1>5, <2>1, ReflectionMade DEF Progress, WholeReflection
<1>6. CASE k = 5
  <2>1. Assign("descriptor", "EchoService")
    BY <1>6 DEF Assignments
  <2> QED
    BY <1>1, <1>6, <2>1, DescriptorMade DEF Progress, WholeReflection
<1> QED
  BY <1>2, <1>3, <1>4, <1>5, <1>6

\* A step of protobuf_AssignDesc by the thread that runs it.
LEMMA AssignKeeps ==
  ASSUME DescriptorsInv, NEW t \in Thread, AssignDesc(t)
  PROVE  DescriptorsInv'
<1>1. /\ At(t, "assign") /\ phase # "shut" /\ UNCHANGED <<phase, prototype, lock>>
      /\ call \in [Thread -> CallSet] /\ lock \in Thread \cup {NoThread}
      /\ ThreadInv(t) /\ once = "running" /\ Asked(call[t].op, call[t].of)
      /\ call[t].op # "default_instance"
  BY DEF AssignDesc, DescriptorsInv, OnceInv, CallsInv, ThreadInv, At
<1>2. PICK k \in 0 .. 5 : k = call[t].at /\ Progress(k)
  BY <1>1 DEF ThreadInv
<1>3. /\ ObjectsInv' /\ alive \subseteq alive' /\ Progress(k + 1)'
      /\ already_here => already_here' /\ default_instance_' = default_instance_
      /\ \A m \in Message : prototype'[m] \in {NULL, default_instance_'[m]}
  <2>1. CASE k = 0
    <3>1. AddDesc /\ phase' \in {"static", "main"}
      BY <1>1, <1>2, <2>1 DEF AssignDesc, DescriptorsInv, ObjectsInv
    <3>2. /\ ObjectsInv' /\ already_here' /\ alive \subseteq alive'
          /\ already_here => default_instance_' = default_instance_
          /\ UNCHANGED <<descriptor_, reflection_>>
          /\ \A m \in Message : prototype'[m] \in {NULL, default_instance_'[m]}
      BY <1>1, <3>1, AddDescKeeps DEF DescriptorsInv
    <3>3. Progress(k + 1)'
      BY <1>2, <2>1, <3>2 DEF Progress
    <3> QED
      BY <3>2, <3>3
  <2>2. CASE k # 0
    <3>1. k \in 1 .. 5 /\ already_here
      BY <1>2, <2>2 DEF Progress
    <3>2. /\ Assign(Assignments[k][1], Assignments[k][2])
          /\ UNCHANGED <<already_here, default_instance_>>
      BY <1>2, <2>2 DEF AssignDesc
    <3> QED
      BY <1>1, <1>2, <3>1, <3>2, AssignAdvances DEF DescriptorsInv, OnceInv
  <2> QED
    BY <2>1, <2>2
<1>4. Stable
  BY <1>1, <1>3 DEF Stable
<1>5. \A u \in Thread : u # t => ~At(u, "assign") /\ ~At(u, "read")
  BY <1>1 DEF DescriptorsInv, CallsInv, ThreadInv
<1>6. CASE k = 5
  <2>1. once' = "done" /\ Goes(t, "read", 1)
    BY <1>2, <1>6 DEF AssignDesc, Assignments
  <2>2. /\ call' \in [Thread -> CallSet]
        /\ call'[t].op = call[t].op /\ call'[t].of = call[t].of
        /\ call'[t].pc = "read" /\ call'[t].at = 1
        /\ \A u \in Thread : u # t => call'[u] = call[u]
    BY <1>1, <2>1, CallGoes DEF Places
  <2>3. Progress(6)'
    BY <1>3, <1>6 DEF Progress
  <2>4. OnceInv'
    BY <1>1, <1>3, <2>1, <2>3 DEF DescriptorsInv, OnceInv
  <2>5. (ThreadInv(t) /\ Whole(t))'
    BY <1>1, <1>3, <2>1, <2>2 DEF ThreadInv, Whole, At, Registers, Asked
  <2>6. CallsInv'
    BY <1>1, <1>4, <1>5, <2>2, <2>5, OneMoves
  <2> QED
    BY <1>3, <2>4, <2>6 DEF DescriptorsInv
<1>7. CASE k # 5
  <2>1. UNCHANGED once /\ Goes(t, "assign", k + 1) /\ k + 1 \in 1 .. 5
    BY <1>2, <1>7 DEF AssignDesc, Assignments
  <2>2. /\ call' \in [Thread -> CallSet]
        /\ call'[t].op = call[t].op /\ call'[t].of = call[t].of
        /\ call'[t].pc = "assign" /\ call'[t].at = k + 1
        /\ \A u \in Thread : u # t => call'[u] = call[u]
    BY <1>1, <2>1, CallGoes DEF Places
  <2>3. OnceInv'
    BY <1>1, <1>3, <2>1 DEF DescriptorsInv, OnceInv
  <2>4. (Progress(call[t].at))'
    BY <1>3, <2>2 DEF Progress
  <2>5. (ThreadInv(t) /\ Whole(t))'
    BY <1>1, <1>3, <2>1, <2>2, <2>4 DEF ThreadInv, Whole, At, Registers, Asked
  <2>6. CallsInv'
    BY <1>1, <1>4, <1>5, <2>2, <2>5, OneMoves
  <2> QED
    BY <1>3, <2>3, <2>6 DEF DescriptorsInv
<1> QED
  BY <1>6, <1>7

\* A thread that reads finds everything assigned.
LEMMA ReadsWhole ==
  ASSUME DescriptorsInv, NEW t \in Thread, At(t, "read")
  PROVE  /\ phase # "shut" /\ once = "done" /\ already_here
         /\ call \in [Thread -> CallSet] /\ lock \in Thread \cup {NoThread}
         /\ ThreadInv(t) /\ Asked(call[t].op, call[t].of)
         /\ \A d \in Named : descriptor_[d] = d
         /\ \A m \in Message : WholeReflection(m) /\ reflection_[m] \in alive
                              /\ default_instance_[m] \in alive \cap Instance
<1>1. /\ phase # "shut" /\ once = "done" /\ Progress(6)
      /\ call \in [Thread -> CallSet] /\ lock \in Thread \cup {NoThread}
      /\ ThreadInv(t) /\ Asked(call[t].op, call[t].of)
  BY DEF DescriptorsInv, OnceInv, CallsInv, ThreadInv, At
<1>2. /\ already_here /\ \A d \in Named : descriptor_[d] = d
      /\ \A m \in Message : WholeReflection(m)
  BY <1>1 DEF Progress, Named, Message
<1>3. \A m \in Message : reflection_[m] \in alive /\ default_instance_[m] \in alive \cap Instance
  BY <1>1, <1>2, Names DEF DescriptorsInv, ObjectsInv, Pointed, WholeReflection
<1> QED
  BY <1>1, <1>2, <1>3

\* descriptor()
LEMMA DescriptorKeeps ==
  ASSUME DescriptorsInv, NEW t \in Thread, descriptor(t)
  PROVE  DescriptorsInv'
<1>1. /\ At(t, "read") /\ call[t].op = "descriptor" /\ Answers(t, descriptor_[call[t].of])
      /\ UNCHANGED <<phase, objects, once, prototype, lock>>
  BY DEF descriptor
<1>2. /\ phase # "shut" /\ call \in [Thread -> CallSet] /\ lock \in Thread \cup {NoThread}
      /\ ThreadInv(t) /\ call[t].of \in Named /\ descriptor_[call[t].of] = call[t].of
  BY <1>1, ReadsWhole DEF Asked, Named
<1>3. /\ call' \in [Thread -> CallSet]
      /\ call'[t].op = call[t].op /\ call'[t].of = call[t].of
      /\ call'[t].pc = "got" /\ call'[t].answer = call[t].of
      /\ \A u \in Thread : u # t => call'[u] = call[u]
  BY <1>1, <1>2, CallAnswers DEF AnswerSet
<1>4. (ThreadInv(t) /\ Whole(t))'
  BY <1>1, <1>2, <1>3 DEF ThreadInv, Whole, At, Registers, Asked
<1>5. DescriptorsInv /\ once \in {"new", "running", "done"}
  BY DEF DescriptorsInv, OnceInv
<1>6. CallsInv'
  BY <1>1, <1>2, <1>3, <1>4, <1>5, OneMovesAlone, OneMoves
<1> QED
  BY <1>1, <1>2, <1>5, <1>6, OneMovesAlone DEF DescriptorsInv

\* GetMetadata
LEMMA MetadataKeeps ==
  ASSUME DescriptorsInv, NEW t \in Thread, GetMetadata(t)
  PROVE  DescriptorsInv'
<1>1. /\ At(t, "read") /\ call[t].op = "GetMetadata"
      /\ Answers(t, <<descriptor_[call[t].of], reflection_[call[t].of]>>)
      /\ UNCHANGED <<phase, objects, once, prototype, lock>>
  BY DEF GetMetadata
<1>2. /\ phase # "shut" /\ call \in [Thread -> CallSet] /\ lock \in Thread \cup {NoThread}
      /\ ThreadInv(t) /\ call[t].of \in Message /\ descriptor_[call[t].of] = call[t].of
      /\ WholeReflection(call[t].of) /\ reflection_[call[t].of] \in alive
      /\ default_instance_[call[t].of] \in alive
  BY <1>1, ReadsWhole DEF Asked, Named
<1>3. PICK a \in (Named \cup {NULL}) \X (Reflection \cup {NULL}) :
        a = <<descriptor_[call[t].of], reflection_[call[t].of]>>
  BY <1>2 DEF WholeReflection, Named
<1>4. /\ call' \in [Thread -> CallSet]
      /\ call'[t].op = call[t].op /\ call'[t].of = call[t].of
      /\ call'[t].pc = "got" /\ call'[t].answer = a
      /\ \A u \in Thread : u # t => call'[u] = call[u]
  BY <1>1, <1>2, <1>3, CallAnswers DEF AnswerSet
<1>5. a[1] = call[t].of /\ a[2] = reflection_[call[t].of] /\ a[2] # NULL
  BY <1>2, <1>3, Names DEF WholeReflection
<1>6. (ThreadInv(t) /\ Whole(t))'
  BY <1>1, <1>2, <1>4, <1>5 DEF ThreadInv, Whole, At, Registers, Asked, WholeReflection, objects
<1>7. DescriptorsInv /\ once \in {"new", "running", "done"}
  BY DEF DescriptorsInv, OnceInv
<1>8. CallsInv'
  BY <1>1, <1>2, <1>4, <1>6, <1>7, OneMovesAlone, OneMoves
<1> QED
  BY <1>1, <1>2, <1>7, <1>8, OneMovesAlone DEF DescriptorsInv

\* The look-up of GetPrototype.
LEMMA PrototypeKeeps ==
  ASSUME DescriptorsInv, NEW t \in Thread, GetPrototype(t)
  PROVE  DescriptorsInv'
<1>1. /\ At(t, "lookup") \/ At(t, "lock")
      /\ lock = NoThread /\ lock' \in {NoThread, t}
      /\ UNCHANGED <<phase, objects, once, prototype>>
  BY DEF GetPrototype
<1>2. /\ phase # "shut" /\ call \in [Thread -> CallSet] /\ ThreadInv(t)
      /\ call[t].op = "GetPrototype" /\ call[t].of \in Message /\ already_here
      /\ prototype[call[t].of] \in {NULL, default_instance_[call[t].of]}
      /\ once \in {"new", "running", "done"}
  BY <1>1 DEF DescriptorsInv, OnceInv, CallsInv, ThreadInv, At, Asked
<1>3. default_instance_[call[t].of] \in alive \cap Instance
  BY <1>2, Names DEF DescriptorsInv, ObjectsInv, Pointed
<1>4. /\ ObjectsInv' /\ Stable /\ OnceInv'
      /\ \A u \in Thread : /\ At(u, "assign") => once' = "running" /\ StillAt(call[u].at)
                           /\ At(u, "read") => once' = "done"
  BY <1>1, <1>2, OneMovesAlone
<1>5. CallsInv'
  <2>1. CASE Answers(t, prototype[call[t].of]) /\ prototype[call[t].of] # NULL /\ lock' = lock
    <3>1. PICK a \in Instance : a = prototype[call[t].of] /\ a = default_instance_[call[t].of]
      BY <1>2, <1>3, <2>1
    <3>2. /\ call' \in [Thread -> CallSet]
          /\ call'[t].op = call[t].op /\ call'[t].of = call[t].of
          /\ call'[t].pc = "got" /\ call'[t].answer = a
          /\ \A u \in Thread : u # t => call'[u] = call[u]
      BY <1>2, <2>1, <3>1, CallAnswers DEF AnswerSet
    <3>3. (ThreadInv(t) /\ Whole(t))'
      BY <1>1, <1>2, <1>3, <2>1, <3>1, <3>2, DescriptorAssumption
      DEF ThreadInv, Whole, At, Registers, Asked, Ops, objects
    <3> QED
      BY <1>4, <2>1, <3>2, <3>3, OneMoves
  <2>2. CASE Goes(t, "lock", 0) /\ lock' = lock
    <3>1. /\ call' \in [Thread -> CallSet]
          /\ call'[t].op = call[t].op /\ call'[t].of = call[t].of
          /\ call'[t].pc = "lock"
          /\ \A u \in Thread : u # t => call'[u] = call[u]
      BY <1>2, <2>2, CallGoes DEF Places
    <3>2. (ThreadInv(t) /\ Whole(t))'
      BY <1>1, <1>2, <2>2, <3>1, DescriptorAssumption
      DEF ThreadInv, Whole, At, Registers, Asked, Ops, objects
    <3> QED
      BY <1>4, <2>2, <3>1, <3>2, OneMoves
  <2>3. CASE Goes(t, "once", 0) /\ lock' = t
    <3>1. /\ call' \in [Thread -> CallSet]
          /\ call'[t].op = call[t].op /\ call'[t].of = call[t].of
          /\ call'[t].pc = "once"
          /\ \A u \in Thread : u # t => call'[u] = call[u]
      BY <1>2, <2>3, CallGoes DEF Places
    <3>2. (ThreadInv(t) /\ Whole(t))'
      BY <1>1, <1>2, <2>3, <3>1 DEF ThreadInv, Whole, At, Registers, Asked, Ops, objects
    <3>3. \A u \in Thread : u # t => (lock' = u <=> lock = u)
      BY <1>1, <2>3, DescriptorAssumption
    <3> QED
      BY <1>4, <3>1, <3>2, <3>3, OneMoves
  <2> QED
    BY <2>1, <2>2, <2>3 DEF GetPrototype
<1> QED
  BY <1>4, <1>5 DEF DescriptorsInv

\* GetPrototype registers the types of the file, each once.
LEMMA RegisterKeeps ==
  ASSUME DescriptorsInv, NEW t \in Thread, RegisterTypes(t)
  PROVE  DescriptorsInv'
<1> DEFINE m == IF call[t].at = 1 THEN "EchoRequest" ELSE "EchoResponse"
<1>1. At(t, "read") /\ call[t].op = "GetPrototype" /\ m \in Message /\ Message \subseteq Named
  BY DEF RegisterTypes, Message, Named
<1>2. /\ phase # "shut" /\ once = "done" /\ already_here
      /\ call \in [Thread -> CallSet] /\ ThreadInv(t) /\ call[t].of \in Message
      /\ \A d \in Named : descriptor_[d] = d
      /\ \A i \in Message : default_instance_[i] \in alive \cap Instance
  BY <1>1, ReadsWhole DEF Asked
<1>3. lock = t /\ lock' \in {t, NoThread} /\ UNCHANGED <<phase, once>>
  BY <1>1, <1>2 DEF RegisterTypes, ThreadInv, Registers, At
<1>4. UNCHANGED objects
  BY <1>1, <1>2, Names DEF RegisterTypes, DefaultInstance
<1>5. prototype' = [prototype EXCEPT ![m] = default_instance_[m]]
  BY <1>1, <1>2, <1>4, Names DEF RegisterTypes, objects
<1>6. /\ prototype' \in [Message -> Instance \cup {NULL}]
      /\ prototype'[m] = default_instance_[m] /\ prototype'[m] # NULL
      /\ \A i \in Message : i # m => prototype'[i] = prototype[i]
      /\ \A i \in Message : prototype'[i] \in {NULL, default_instance_[i]}
  BY <1>1, <1>2, <1>5, Names DEF DescriptorsInv, OnceInv
<1>7. \A k \in 0 .. 6 : Progress(k) => Progress(k)'
  BY <1>4, ProgressKept DEF objects
<1>8. ObjectsInv'
  BY <1>3, <1>4 DEF DescriptorsInv, ObjectsInv, Pointed, objects
<1>9. OnceInv'
  BY <1>2, <1>3, <1>4, <1>6, <1>7 DEF DescriptorsInv, OnceInv, objects
<1>10. Stable
  <2>1. "EchoRequest" \in Message
    BY DEF Message
  <2> QED
    BY <1>2, <1>3, <1>4, <1>6, <2>1 DEF Stable, objects
<1>11. \A u \in Thread : u # t =>
         /\ At(u, "assign") => once' = "running" /\ StillAt(call[u].at)
         /\ At(u, "read") => once' = "done"
         /\ lock' = u <=> lock = u
  <2>1. \A u \in Thread : ~At(u, "assign")
    BY <1>2 DEF DescriptorsInv, CallsInv, ThreadInv
  <2> QED
    BY <1>2, <1>3, <2>1, DescriptorAssumption
<1>12. CallsInv'
  <2>1. CASE call[t].at = 1
    <3>1. Goes(t, "read", 2) /\ lock' = lock /\ m = "EchoRequest"
      BY <2>1 DEF RegisterTypes
    <3>2. /\ call' \in [Thread -> CallSet]
          /\ call'[t].op = call[t].op /\ call'[t].of = call[t].of
          /\ call'[t].pc = "read" /\ call'[t].at = 2
          /\ \A u \in Thread : u # t => call'[u] = call[u]
      BY <1>2, <3>1, CallGoes DEF Places
    <3>3. (ThreadInv(t) /\ Whole(t))'
      BY <1>1, <1>2, <1>3, <1>4, <1>6, <3>1, <3>2
      DEF ThreadInv, Whole, At, Registers, Asked, Ops, objects
    <3> QED
      BY <1>10, <1>11, <3>2, <3>3, OneMoves
  <2>2. CASE call[t].at # 1
    <3>1. lock' = NoThread /\ Answers(t, prototype'[call[t].of]) /\ m = "EchoResponse"
      BY <2>2 DEF RegisterTypes
    <3>2. prototype["EchoRequest"] # NULL
      BY <1>1, <1>2, <2>2 DEF ThreadInv
    <3>3. PICK a \in Instance : a = prototype'[call[t].of] /\ a = default_instance_[call[t].of]
      BY <1>2, <1>6, <3>1, <3>2 DEF Message
    <3>4. /\ call' \in [Thread -> CallSet]
          /\ call'[t].op = call[t].op /\ call'[t].of = call[t].of
          /\ call'[t].pc = "got" /\ call'[t].answer = a
          /\ \A u \in Thread : u # t => call'[u] = call[u]
      BY <1>2, <3>1, <3>3, CallAnswers DEF AnswerSet
    <3>5. (ThreadInv(t) /\ Whole(t))'
      BY <1>1, <1>2, <1>3, <1>4, <3>1, <3>3, <3>4, DescriptorAssumption
      DEF ThreadInv, Whole, At, Registers, Asked, Ops, objects
    <3> QED
      BY <1>10, <1>11, <3>4, <3>5, OneMoves
  <2> QED
    BY <2>1, <2>2
<1> QED
  BY <1>8, <1>9, <1>12 DEF DescriptorsInv

\* Every step of every thread.
LEMMA StepKeeps == DescriptorsInv /\ [Next]_vars => DescriptorsInv'
<1> SUFFICES ASSUME DescriptorsInv, [Next]_vars PROVE DescriptorsInv'
  OBVIOUS
<1>1. CASE UNCHANGED vars
  <2>1. ObjectsInv' /\ OnceInv'
    BY <1>1
    DEF vars, DescriptorsInv, ObjectsInv, OnceInv, Pointed, Progress, WholeReflection
  <2>2. \A k \in 0 .. 5 : Progress(k) => Progress(k)'
    BY <1>1 DEF vars, Progress, WholeReflection
  <2>3. ASSUME NEW t \in Thread PROVE (ThreadInv(t) /\ Whole(t))'
    BY <1>1, <2>2 DEF vars, DescriptorsInv, CallsInv, ThreadInv, Whole, At, Registers
  <2>4. CallsInv'
    BY <1>1, <2>3 DEF vars, DescriptorsInv, CallsInv, At
  <2> QED
    BY <2>1, <2>4 DEF DescriptorsInv
<1>2. CASE Next
  BY <1>2, InitializerKeeps, ShutdownKeeps, AskKeeps, ReturnKeeps, InstanceKeeps, OnceKeeps,
     AssignKeeps, DescriptorKeeps, MetadataKeeps, PrototypeKeeps, RegisterKeeps
  DEF Next, Proceed
<1> QED
  BY <1>1, <1>2

-----------------------------------------------------------------------------

\* DescriptorsInv holds always.
LEMMA AlwaysWhole == Spec => []DescriptorsInv
<1>1. Init => DescriptorsInv
  BY StartsWhole
<1>2. DescriptorsInv /\ [Next]_vars => DescriptorsInv'
  BY StepKeeps
<1> QED
  BY <1>1, <1>2, PTL DEF Spec

\* Every state has the types echo.pb.cc gives it, and the factory's lock is held by the
\* one thread that registers the file's types.
THEOREM DescriptorsTyped == Spec => []TypeOK
<1>1. DescriptorsInv => TypeOK
  <2> SUFFICES ASSUME DescriptorsInv PROVE TypeOK
    OBVIOUS
  <2>1. ASSUME NEW t \in Thread PROVE call[t] = Quiet \/ <<call[t].op, call[t].of>> \in Asks
    <3>1. call[t] = Quiet \/ Asked(call[t].op, call[t].of)
      BY DEF DescriptorsInv, CallsInv, ThreadInv
    <3>2. ASSUME NEW op, NEW of, Asked(op, of) PROVE <<op, of>> \in Asks
      <4>1. CASE op = "descriptor"
        <5>1. of \in Named
          BY <3>2 DEF Asked, Named
        <5> QED
          BY <4>1, <5>1 DEF Asks
      <4>2. CASE op # "descriptor"
        <5>1. op \in {"default_instance", "GetMetadata", "GetPrototype"} /\ of \in Message
          BY <3>2, <4>2 DEF Asked, Ops
        <5> QED
          BY <5>1 DEF Asks
      <4> QED
        BY <4>1, <4>2
    <3> QED
      BY <3>1, <3>2
  <2>2. ASSUME NEW t \in Thread
        PROVE  lock = t <=> /\ call[t].op = "GetPrototype"
                            /\ call[t].pc \in {"once", "assign", "read"}
    BY DEF DescriptorsInv, CallsInv, ThreadInv, Registers
  <2> QED
    BY <2>1, <2>2 DEF TypeOK, DescriptorsInv, ObjectsInv, OnceInv
<1> QED
  BY <1>1, AlwaysWhole, PTL

\* However threads race to the first use of a descriptor or of the factory, none is
\* given a pointer that is not set yet or that leads to one.
THEOREM NothingHalfMade == Spec => []AnswersWhole
<1>1. DescriptorsInv => AnswersWhole
  BY DEF DescriptorsInv, CallsInv, Whole, AnswersWhole
<1> QED
  BY <1>1, AlwaysWhole, PTL

\* AddDesc and AssignDesc make every object once, and protobuf_ShutdownFile deletes
\* them all.
THEOREM ShutdownFrees == Spec => []NothingLost
<1>1. DescriptorsInv => NothingLost
  BY DEF DescriptorsInv, ObjectsInv, Pointed, NothingLost
<1> QED
  BY <1>1, AlwaysWhole, PTL
=============================================================================
