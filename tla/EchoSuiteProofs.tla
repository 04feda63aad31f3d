--------------------------- MODULE EchoSuiteProofs ---------------------------
(***************************************************************************)
(* The echo test suite, for any number of sender threads and of requests   *)
(* per thread: its count loses no increment, and no case fails for what an *)
(* earlier one left in the globals.  Answered calls are counted twice: by  *)
(* the threads that have yet to increment threads_number, and, as long as  *)
(* nothing went wrong, by the turns of the loop that have got theirs.      *)
(***************************************************************************)
EXTENDS EchoSuite, FiniteSetTheorems, TLAPS

Location == {"new", "missing", "call", "lock", "load", "store", "unlock", "nap", "ended"}

\* A sender in the middle of a turn of its loop, after an answered call.
Busy == {"lock", "load", "store", "unlock", "nap"}

Types ==
  /\ test \in 1 .. 5 /\ step \in {"set", "create", "join", "died"}
  /\ server \in {"here", "elsewhere"}
  /\ g_request \in Message /\ g_attachment \in Message
  /\ threads_number \in Nat /\ errors \in Nat /\ answered \in Nat
  /\ holder \subseteq Thread /\ joined \subseteq Thread /\ failed \subseteq 1 .. 4
  /\ pc \in [Thread -> Location]
  /\ i \in [Thread -> 0 .. loop_number] /\ read \in [Thread -> Nat]
  /\ troubles \in 0 .. MaxTroubles

\* Threads exist only in the third case, and run to their end before it ends.
Phases ==
  /\ test < 3 => step = "set"
  /\ step = "set" => \A t \in Thread : pc[t] = "new"
  /\ test > 3 => step = "join" /\ joined = Thread
  /\ \A t \in joined : pc[t] \in {"ended", "missing"}

\* The address is the echo server's whenever a call is meant to reach it.
Addressed == test = 1 \/ step # "set" => server = "here"

\* A turn is begun only while there is one left.
Turns ==
  \A t \in Thread : /\ pc[t] \in Busy => i[t] < loop_number
                    /\ pc[t] = "new" => i[t] = 0
                    /\ pc[t] = "ended" => i[t] = loop_number

\* One thread at a time between m.lock() and m.unlock().
Exclusive ==
  /\ \A t \in Thread : pc[t] \in {"load", "store", "unlock"} <=> t \in holder
  /\ \A t, u \in holder : t = u

\* The answered calls that threads_number does not count yet.
Uncounted == {t \in Thread : pc[t] \in {"lock", "load", "store"}}

Counted ==
  /\ threads_number + Cardinality(Uncounted) = answered
  /\ \A t \in Thread : pc[t] = "store" => read[t] = threads_number

\* The turns whose call was answered, if none has failed.
Done == {x \in Thread \X (0 .. loop_number) :
           x[2] < i[x[1]] \/ (x[2] = i[x[1]] /\ pc[x[1]] \in Busy)}

\* As long as nothing went wrong outside, every call is answered, every thread
\* is there, and no case has failed.
Untroubled ==
  troubles = 0 => /\ answered = Cardinality(Done)
                  /\ \A t \in Thread : pc[t] # "missing"
                  /\ echo_attachment => failed = {}

SuiteInv == Types /\ Phases /\ Addressed /\ Turns /\ Exclusive /\ Counted /\ Untroubled

-----------------------------------------------------------------------------
(* The two counts.                                                          *)

\* The sets that are counted are finite.
LEMMA CountsFinite ==
  ASSUME Types
  PROVE  /\ IsFiniteSet(Uncounted) /\ Cardinality(Uncounted) \in Nat
         /\ IsFiniteSet(Done) /\ Cardinality(Done) \in Nat
<1>1. Uncounted \in SUBSET Thread
  BY DEF Uncounted
<1>2. IsFiniteSet(Thread \X (0 .. loop_number))
  <2>1. 0 \in Int /\ loop_number \in Int
    BY SuiteAssumption
  <2>2. IsFiniteSet(0 .. loop_number)
    BY <2>1, FS_Interval
  <2> QED
    BY <2>2, SuiteAssumption, FS_Product
<1>3. Done \in SUBSET (Thread \X (0 .. loop_number))
  BY DEF Done
<1>4. IsFiniteSet(Uncounted)
  BY <1>1, SuiteAssumption, FS_Subset
<1>5. IsFiniteSet(Done)
  BY <1>2, <1>3, FS_Subset
<1> QED
  BY <1>4, <1>5, FS_CardinalityType

\* Steps that answer no call and finish no increment leave the counts alone.
LEMMA CountsKept ==
  ASSUME NEW t \in Thread, Types,
         \A u \in Thread : u # t => pc'[u] = pc[u],
         i' = i,
         pc[t] \in {"lock", "load", "store"} <=> pc'[t] \in {"lock", "load", "store"},
         pc[t] \in Busy <=> pc'[t] \in Busy
  PROVE  Uncounted' = Uncounted /\ Done' = Done
<1>1. Uncounted' = Uncounted
  BY DEF Uncounted
<1>2. \A u \in Thread : pc[u] \in Busy <=> pc'[u] \in Busy
  OBVIOUS
<1>3. Done' = Done
  BY <1>2 DEF Done
<1> QED
  BY <1>1, <1>3

\* Once all threads have ended, every turn of every loop was answered.
LEMMA AllDone ==
  ASSUME Types, Turns, \A t \in Thread : pc[t] = "ended"
  PROVE  Cardinality(Done) = Cardinality(Thread) * loop_number
<1>1. loop_number \in Nat
  BY SuiteAssumption
<1>2. Done = Thread \X (0 .. loop_number - 1)
  <2>1. ASSUME NEW x \in Thread \X (0 .. loop_number)
        PROVE  x \in Done <=> x[2] < loop_number
    BY <1>1, <2>1 DEF Done, Turns, Busy
  <2>2. \A x \in Done : x \in Thread \X (0 .. loop_number - 1)
    BY <1>1, <2>1 DEF Done
  <2>3. \A x \in Thread \X (0 .. loop_number - 1) : x \in Done
    BY <1>1, <2>1
  <2> QED
    BY <2>2, <2>3
<1>3. IsFiniteSet(0 .. loop_number - 1) /\ Cardinality(0 .. loop_number - 1) = loop_number
  BY <1>1, FS_Interval
<1> QED
  BY <1>2, <1>3, SuiteAssumption, FS_Product

-----------------------------------------------------------------------------
(* main.                                                                    *)

\* The suite starts with nothing counted and nothing failed.
LEMMA SuiteInit == Init => SuiteInv
<1> SUFFICES ASSUME Init PROVE SuiteInv
  OBVIOUS
<1>1. Types
  BY SuiteAssumption DEF Init, Types, Message, Location
<1>4. Phases /\ Addressed
  BY DEF Init, Phases, Addressed
<1>5. Turns /\ Exclusive
  BY DEF Init, Turns, Busy, Exclusive
<1>2. Uncounted = {}
  BY DEF Init, Uncounted
<1>3. Done = {}
  BY DEF Init, Done, Busy
<1> QED
  <2>1. Counted
    BY <1>2, FS_EmptySet DEF Init, Counted
  <2>2. Untroubled
    BY <1>3, FS_EmptySet DEF Init, Untroubled
  <2> QED
    BY <1>1, <1>4, <1>5, <2>1, <2>2 DEF SuiteInv

\* Steps of main that touch no thread keep what is said of threads.
LEMMA ThreadsKept ==
  ASSUME SuiteInv, UNCHANGED <<threads_number, holder, answered, pc, i, read>>
  PROVE  /\ Turns' /\ Exclusive' /\ Counted'
         /\ Uncounted' = Uncounted /\ Done' = Done
<1>1. Uncounted' = Uncounted /\ Done' = Done
  BY DEF Uncounted, Done
<1> QED
  BY <1>1 DEF SuiteInv, Turns, Exclusive, Counted

\* A call that meets no trouble is answered by the server that is there.
LEMMA Answered ==
  ASSUME Types, NEW message, NEW attachment, NEW reply, NEW at,
         Calls(at, message, attachment, reply)
  PROVE  /\ troubles' \in 0 .. MaxTroubles
         /\ troubles' = 0 => troubles = 0
         /\ troubles' = 0 /\ at = "here" => reply = Echo(message, attachment)
         /\ at = "elsewhere" => reply = Unanswered
<1>1. troubles \in 0 .. MaxTroubles /\ MaxTroubles \in Nat
  BY SuiteAssumption DEF Types
<1>2. CASE at = "here" /\ reply = Echo(message, attachment) /\ NoTrouble
  BY <1>1, <1>2 DEF NoTrouble
<1>3. CASE at = "here" /\ reply = Unanswered /\ Trouble
  BY <1>1, <1>3 DEF Trouble
<1>4. CASE at = "elsewhere" /\ reply = Unanswered /\ NoTrouble
  BY <1>1, <1>4 DEF NoTrouble
<1> QED
  BY <1>2, <1>3, <1>4 DEF Calls

\* What the cases that make one call have to show: theirs is a step of main that
\* touches no thread, and fails only when something went wrong.
LEMMA CaseKeeps ==
  ASSUME SuiteInv, test' \in 1 .. 5, server' \in {"here", "elsewhere"},
         g_request' \in Message, g_attachment' \in Message,
         UNCHANGED <<step, joined, threads_number, errors, holder, answered, pc, i, read>>,
         troubles' \in 0 .. MaxTroubles, troubles' = 0 => troubles = 0,
         failed' \subseteq 1 .. 4,
         troubles' = 0 /\ echo_attachment => failed' = failed,
         test < 3 \/ test' > 3, test < 3 => step = "set",
         test' > 3 => test > 3,
         test' = 1 \/ step # "set" => server' = "here"
  PROVE  SuiteInv'
<1>1. /\ Turns' /\ Exclusive' /\ Counted'
      /\ Uncounted' = Uncounted /\ Done' = Done
  BY ThreadsKept
<1>2. Types'
  BY DEF SuiteInv, Types
<1>3. Phases'
  BY DEF SuiteInv, Types, Phases
<1>4. Addressed'
  BY DEF Addressed
<1>5. Untroubled'
  BY <1>1 DEF SuiteInv, Untroubled
<1> QED
  BY <1>1, <1>2, <1>3, <1>4, <1>5 DEF SuiteInv

\* The first, second and fourth case keep the invariant.
LEMMA CasesKeep ==
  SuiteInv /\ (MessageAndAttachment \/ DifferentServer \/ UseSsl) => SuiteInv'
<1> SUFFICES ASSUME SuiteInv, MessageAndAttachment \/ DifferentServer \/ UseSsl
             PROVE  SuiteInv'
  OBVIOUS
<1>1. UNCHANGED <<step, joined, threads_number, errors, holder, answered, pc, i, read>>
  BY DEF MessageAndAttachment, DifferentServer, UseSsl, countVars, senderVars
<1>2. Types /\ Phases /\ Addressed
  BY DEF SuiteInv
<1>3. CASE MessageAndAttachment
  <2>1. /\ test = 1 /\ test' = 2 /\ server = "here" /\ server' = server
        /\ g_request' = "Hello_world!" /\ g_attachment' = "This_is_attachment."
        /\ step = "set"
    BY <1>2, <1>3 DEF MessageAndAttachment, Addressed, Phases
  <2>2. PICK reply \in Reply :
          /\ Calls("here", "Hello_world!", "This_is_attachment.", reply)
          /\ Verdict(reply.message = "Hello_world!"
                     /\ reply.attachment = "This_is_attachment.")
    BY <1>3, <2>1 DEF MessageAndAttachment
  <2>3. /\ troubles' \in 0 .. MaxTroubles /\ (troubles' = 0 => troubles = 0)
        /\ troubles' = 0 => reply = Echo("Hello_world!", "This_is_attachment.")
    BY <1>2, <2>2, Answered
  <2>4. /\ failed' \subseteq 1 .. 4
        /\ (reply.message = "Hello_world!" /\ reply.attachment = "This_is_attachment.")
             => failed' = failed
    BY <1>2, <2>1, <2>2 DEF Types, Verdict
  <2>5. troubles' = 0 /\ echo_attachment => failed' = failed
    BY <2>3, <2>4 DEF Echo
  <2>6. g_request' \in Message /\ g_attachment' \in Message
    BY <2>1 DEF Message
  <2> QED
    BY <1>1, <2>1, <2>3, <2>4, <2>5, <2>6, CaseKeeps
<1>4. CASE DifferentServer
  <2>1. /\ test = 2 /\ test' = 3 /\ server' = "elsewhere" /\ step = "set"
        /\ g_request' = "Hello_world!" /\ g_attachment' = g_attachment
    BY <1>2, <1>4 DEF DifferentServer, Phases
  <2>2. PICK reply \in Reply :
          /\ Calls("elsewhere", "Hello_world!", Nothing, reply)
          /\ Verdict(reply.message # "Hello_world!")
    BY <1>4, <2>1 DEF DifferentServer
  <2>3. /\ troubles' \in 0 .. MaxTroubles /\ (troubles' = 0 => troubles = 0)
        /\ reply = Unanswered
    BY <1>2, <2>2, Answered
  <2>4. /\ failed' \subseteq 1 .. 4
        /\ reply.message # "Hello_world!" => failed' = failed
    BY <1>2, <2>1, <2>2 DEF Types, Verdict
  <2>5. failed' = failed
    BY <2>3, <2>4, SuiteAssumption DEF Unanswered
  <2>6. g_request' \in Message /\ g_attachment' \in Message
    BY <1>2, <2>1 DEF Message, Types
  <2> QED
    BY <1>1, <2>1, <2>3, <2>4, <2>5, <2>6, CaseKeeps
<1>5. CASE UseSsl
  <2>1. /\ test = 4 /\ test' = 5 /\ server = "here" /\ server' = server
        /\ g_request' = "Use_SSL!" /\ g_attachment' = g_attachment
        /\ step = "join"
    BY <1>2, <1>5 DEF UseSsl, Phases, Addressed
  <2>2. PICK reply \in Reply :
          /\ Calls("here", "Use_SSL!", Nothing, reply)
          /\ Verdict(reply.message = "Use_SSL!")
    BY <1>5, <2>1 DEF UseSsl
  <2>3. /\ troubles' \in 0 .. MaxTroubles /\ (troubles' = 0 => troubles = 0)
        /\ troubles' = 0 => reply = Echo("Use_SSL!", Nothing)
    BY <1>2, <2>2, Answered
  <2>4. /\ failed' \subseteq 1 .. 4
        /\ reply.message = "Use_SSL!" => failed' = failed
    BY <1>2, <2>1, <2>2 DEF Types, Verdict
  <2>5. troubles' = 0 => failed' = failed
    BY <2>3, <2>4 DEF Echo
  <2>6. g_request' \in Message /\ g_attachment' \in Message
    BY <1>2, <2>1 DEF Message, Types
  <2>7. server' \in {"here", "elsewhere"}
    BY <2>1
  <2> QED
    BY <1>1, <2>1, <2>3, <2>4, <2>5, <2>6, <2>7, CaseKeeps
<1> QED
  BY <1>3, <1>4, <1>5

\* Main's other steps: where main is, and which threads it makes or waits for.
LEMMA MainKeeps ==
  SuiteInv /\ (SetServer \/ Create \/ Join) => SuiteInv'
<1> SUFFICES ASSUME SuiteInv, SetServer \/ Create \/ Join
             PROVE  SuiteInv'
  OBVIOUS
<1>1. Types /\ Phases /\ Addressed /\ Turns /\ Exclusive /\ Counted /\ Untroubled
  BY DEF SuiteInv
<1>2. ASSUME UNCHANGED <<threads_number, holder, answered, pc, i, read, failed, troubles>>
      PROVE  Turns' /\ Exclusive' /\ Counted' /\ Untroubled'
  <2>1. Done' = Done
    BY <1>2, ThreadsKept
  <2>2. Untroubled'
    BY <1>1, <1>2, <2>1 DEF Untroubled
  <2> QED
    BY <1>2, <2>2, ThreadsKept
<1>3. CASE SetServer
  <2>1. Turns' /\ Exclusive' /\ Counted' /\ Untroubled'
    BY <1>2, <1>3 DEF SetServer, countVars, senderVars
  <2>2. Types'
    BY <1>1, <1>3 DEF SetServer, countVars, senderVars, Types
  <2>3. Phases' /\ Addressed'
    BY <1>1, <1>3 DEF SetServer, countVars, senderVars, Phases, Addressed
  <2> QED
    BY <2>1, <2>2, <2>3 DEF SuiteInv
<1>4. CASE Join
  <2>1. Turns' /\ Exclusive' /\ Counted' /\ Untroubled'
    BY <1>2, <1>4 DEF Join, countVars, senderVars
  <2>2. Types'
    BY <1>1, <1>4 DEF Join, sharedVars, countVars, senderVars, Types
  <2>3. Phases'
    BY <1>1, <1>4 DEF Join, countVars, senderVars, Phases, Types
  <2>4. Addressed'
    BY <1>1, <1>4 DEF Join, sharedVars, Addressed
  <2> QED
    BY <2>1, <2>2, <2>3, <2>4 DEF SuiteInv
<1>5. CASE Create
  <2>1. /\ test = 3 /\ test' = 3 /\ step = "create" /\ step' \in {"create", "join"}
        /\ UNCHANGED <<sharedVars, countVars, i, read, joined, failed>>
    BY <1>5 DEF Create
  <2>2. Addressed'
    BY <1>1, <2>1 DEF Addressed, sharedVars
  <2>3. CASE UNCHANGED <<pc, troubles>>
    <3>1. Turns' /\ Exclusive' /\ Counted' /\ Untroubled'
      BY <1>2, <2>1, <2>3 DEF countVars
    <3>2. Types' /\ Phases'
      BY <1>1, <2>1, <2>3 DEF sharedVars, countVars, Types, Phases
    <3> QED
      BY <2>2, <3>1, <3>2 DEF SuiteInv
  <2>4. CASE \E t \in Thread : /\ pc[t] = "new"
                              /\ \/ Goto(t, "call") /\ NoTrouble
                                 \/ Goto(t, "missing") /\ Trouble
                              /\ UNCHANGED step
    <3>1. PICK t \in Thread : /\ pc[t] = "new"
                             /\ \/ Goto(t, "call") /\ NoTrouble
                                \/ Goto(t, "missing") /\ Trouble
                             /\ UNCHANGED step
      BY <2>4
    <3>2. PICK where \in {"call", "missing"} :
            /\ pc' = [pc EXCEPT ![t] = where]
            /\ where = "call" => troubles' = troubles
            /\ where = "missing" => troubles < MaxTroubles /\ troubles' = troubles + 1
      BY <3>1 DEF Goto, NoTrouble, Trouble
    <3>3. /\ pc' \in [Thread -> Location] /\ pc'[t] = where
          /\ \A u \in Thread : u # t => pc'[u] = pc[u]
      BY <1>1, <3>2 DEF Types, Location
    <3>4. /\ troubles' \in 0 .. MaxTroubles /\ (troubles' = 0 => troubles = 0)
          /\ troubles' = 0 => where = "call"
      BY <1>1, <3>2, SuiteAssumption DEF Types
    <3>5. Uncounted' = Uncounted /\ Done' = Done
      <4>1. pc[t] \notin Busy /\ pc'[t] \notin Busy
        BY <3>1, <3>3 DEF Busy
      <4>2. /\ pc[t] \notin {"lock", "load", "store"}
            /\ pc'[t] \notin {"lock", "load", "store"}
        BY <3>1, <3>3
      <4>3. i' = i
        BY <2>1
      <4> QED
        BY <1>1, <3>3, <4>1, <4>2, <4>3, CountsKept
    <3>6. Types'
      BY <1>1, <2>1, <3>3, <3>4 DEF sharedVars, countVars, Types
    <3>7. Phases'
      <4>1. t \notin joined
        BY <1>1, <3>1 DEF Phases
      <4> QED
        BY <1>1, <2>1, <3>3, <4>1 DEF Types, Phases
    <3>8. Turns'
      BY <1>1, <2>1, <3>1, <3>3 DEF Turns, Busy
    <3>9. Exclusive' /\ Counted'
      <4>1. Exclusive'
        BY <1>1, <2>1, <3>1, <3>3 DEF Exclusive, countVars
      <4>2. Counted'
        BY <1>1, <2>1, <3>1, <3>3, <3>5 DEF Counted, countVars
      <4> QED
        BY <4>1, <4>2
    <3>10. Untroubled'
      BY <1>1, <2>1, <3>3, <3>4, <3>5 DEF Untroubled, countVars
    <3> QED
      BY <2>2, <3>6, <3>7, <3>8, <3>9, <3>10 DEF SuiteInv
  <2> QED
    BY <1>5, <2>3, <2>4 DEF Create
<1> QED
  BY <1>3, <1>4, <1>5

\* The count is judged when every thread has run to its end: nothing is left
\* uncounted, and unless something went wrong every turn was answered.
LEMMA ExpectCountKeeps == SuiteInv /\ ExpectCount => SuiteInv'
<1> SUFFICES ASSUME SuiteInv, ExpectCount PROVE SuiteInv'
  OBVIOUS
<1>1. Types /\ Phases /\ Addressed /\ Turns /\ Exclusive /\ Counted /\ Untroubled
  BY DEF SuiteInv
<1>2. /\ test = 3 /\ test' = 4 /\ step = "join" /\ joined = Thread
      /\ UNCHANGED <<step, server, g_request, g_attachment, threads_number, errors,
                     holder, answered, pc, i, read, joined, troubles>>
      /\ Verdict(threads_number = Cardinality(Thread) * loop_number)
  BY DEF ExpectCount, sharedVars, countVars, senderVars
<1>3. /\ Turns' /\ Exclusive' /\ Counted' /\ Done' = Done
  BY <1>2, ThreadsKept
<1>4. \A t \in Thread : pc[t] \in {"ended", "missing"}
  BY <1>1, <1>2 DEF Phases
<1>5. threads_number = answered
  <2>1. Uncounted = {}
    BY <1>4 DEF Uncounted
  <2> QED
    BY <1>1, <2>1, FS_EmptySet DEF Counted, Types
<1>6. troubles = 0 => threads_number = Cardinality(Thread) * loop_number
  <2>1. ASSUME troubles = 0 PROVE \A t \in Thread : pc[t] = "ended"
    BY <1>1, <1>4, <2>1 DEF Untroubled
  <2> QED
    BY <1>1, <1>5, <2>1, AllDone DEF Untroubled
<1>7. failed' \subseteq 1 .. 4 /\ (troubles = 0 => failed' = failed)
  BY <1>1, <1>2, <1>6 DEF Types, Verdict
<1>8. Types'
  BY <1>1, <1>2, <1>7 DEF Types
<1>9. Phases' /\ Addressed'
  BY <1>1, <1>2 DEF Phases, Addressed
<1>10. Untroubled'
  BY <1>1, <1>2, <1>3, <1>7 DEF Untroubled
<1> QED
  BY <1>3, <1>8, <1>9, <1>10 DEF SuiteInv

-----------------------------------------------------------------------------
(* sender.                                                                  *)

\* A sender that runs is one that is not joined yet, in the third case, and the
\* address is the echo server's.
LEMMA Running ==
  ASSUME SuiteInv, NEW t \in Thread, pc[t] \notin {"new", "missing", "ended"}
  PROVE  test = 3 /\ step # "set" /\ t \notin joined /\ server = "here"
BY DEF SuiteInv, Types, Phases, Addressed

\* What a sender's step has to show: only its own place changes, so the parts
\* about main hold by themselves.
LEMMA SenderKeeps ==
  ASSUME SuiteInv, NEW t \in Thread, NEW where \in Location \ {"new", "missing"},
         pc[t] \notin {"new", "missing", "ended"}, Goto(t, where),
         UNCHANGED <<test, sharedVars, joined, failed>>, step' \in {step, "died"},
         threads_number' \in Nat, errors' \in Nat, answered' \in Nat,
         holder' \subseteq Thread, i' \in [Thread -> 0 .. loop_number],
         read' \in [Thread -> Nat], troubles' \in 0 .. MaxTroubles,
         Turns', Exclusive', Counted',
         troubles' = 0 => troubles = 0 /\ answered' = Cardinality(Done')
  PROVE  SuiteInv'
<1>1. Types /\ Phases /\ Addressed /\ Untroubled
  BY DEF SuiteInv
<1>2. test = 3 /\ step # "set" /\ t \notin joined
  BY Running
<1>3. /\ pc' \in [Thread -> Location] /\ pc'[t] = where
      /\ \A u \in Thread : u # t => pc'[u] = pc[u]
  BY <1>1 DEF Types, Goto
<1>4. Types'
  BY <1>1, <1>3 DEF Types, sharedVars
<1>5. Phases'
  BY <1>1, <1>2, <1>3 DEF Types, Phases
<1>6. Addressed'
  BY <1>1, <1>2 DEF Addressed, sharedVars
<1>7. Untroubled'
  BY <1>1, <1>3 DEF Untroubled
<1> QED
  BY <1>4, <1>5, <1>6, <1>7 DEF SuiteInv

\* Where a sender goes, and that no other one moves.
LEMMA Moved ==
  ASSUME Types, NEW t \in Thread, NEW where \in Location, Goto(t, where)
  PROVE  /\ pc'[t] = where
         /\ \A u \in Thread : u # t => pc'[u] = pc[u]
BY DEF Types, Goto

\* A call that is answered is one more turn done and one more to be counted.
LEMMA CallKeeps == ASSUME SuiteInv, NEW t \in Thread, CallEcho(t) PROVE SuiteInv'
<1>1. Types /\ Turns /\ Exclusive /\ Counted /\ Untroubled
  BY DEF SuiteInv
<1>2. /\ pc[t] = "call" /\ i[t] < loop_number /\ server = "here"
      /\ UNCHANGED <<test, sharedVars, threads_number, holder, i, read, joined, failed>>
  BY Running DEF CallEcho
<1>3. PICK reply \in Reply :
        /\ Calls("here", g_request, g_attachment, reply)
        /\ IF ~reply.failed
           THEN /\ Goto(t, "lock") /\ answered' = answered + 1
                /\ UNCHANGED <<step, errors>>
           ELSE Checked(t) /\ errors' = errors + 1 /\ UNCHANGED answered
  BY <1>2 DEF CallEcho
<1>4. /\ troubles' \in 0 .. MaxTroubles /\ (troubles' = 0 => troubles = 0)
      /\ troubles' = 0 => reply = Echo(g_request, g_attachment)
  BY <1>1, <1>3, Answered
<1>5. i[t] \in Nat /\ loop_number \in Nat
  BY <1>1, SuiteAssumption DEF Types
<1>6. CASE ~reply.failed
  <2>1. Goto(t, "lock") /\ answered' = answered + 1 /\ UNCHANGED <<step, errors>>
    BY <1>3, <1>6
  <2>2. /\ pc'[t] = "lock" /\ "lock" \in Location \ {"new", "missing"}
        /\ \A u \in Thread : u # t => pc'[u] = pc[u]
    BY <1>1, <2>1, Moved DEF Location
  <2>3. Turns' /\ Exclusive'
    BY <1>1, <1>2, <2>2 DEF Turns, Exclusive, Busy
  <2>4. Uncounted' = Uncounted \cup {t} /\ t \notin Uncounted
    BY <1>2, <2>2 DEF Uncounted
  <2>5. Cardinality(Uncounted') = Cardinality(Uncounted) + 1
    BY <1>1, <2>4, CountsFinite, FS_AddElement
  <2>6. Counted'
    BY <1>1, <1>2, <2>1, <2>2, <2>5, CountsFinite DEF Counted, Types
  <2>7. Done' = Done \cup {<<t, i[t]>>} /\ <<t, i[t]>> \notin Done
    <3>1. pc[t] \notin Busy /\ pc'[t] \in Busy
      BY <1>2, <2>2 DEF Busy
    <3>2. <<t, i[t]>> \in Thread \X (0 .. loop_number)
      BY <1>1 DEF Types
    <3>3. ASSUME NEW u \in Thread, NEW n \in 0 .. loop_number
          PROVE  <<u, n>> \in Done' <=> <<u, n>> \in Done \/ (u = t /\ n = i[t])
      BY <1>2, <2>2, <3>1 DEF Done
    <3>4. /\ Done \subseteq Thread \X (0 .. loop_number)
          /\ Done' \subseteq Thread \X (0 .. loop_number)
      BY DEF Done
    <3>5. <<t, i[t]>> \notin Done
      BY <1>5, <3>1 DEF Done
    <3> QED
      BY <3>2, <3>3, <3>4, <3>5
  <2>8. Cardinality(Done') = Cardinality(Done) + 1
    BY <1>1, <2>7, CountsFinite, FS_AddElement
  <2>9. troubles' = 0 => troubles = 0 /\ answered' = Cardinality(Done')
    BY <1>1, <1>4, <2>1, <2>8 DEF Untroubled
  <2>10. /\ threads_number' \in Nat /\ errors' \in Nat /\ answered' \in Nat
         /\ holder' \subseteq Thread /\ i' \in [Thread -> 0 .. loop_number]
         /\ read' \in [Thread -> Nat]
    BY <1>1, <1>2, <2>1 DEF Types
  <2> QED
    BY <1>2, <1>4, <2>1, <2>2, <2>3, <2>6, <2>9, <2>10, SenderKeeps
<1>7. CASE reply.failed
  <2>1. Checked(t) /\ errors' = errors + 1 /\ UNCHANGED answered
    BY <1>3, <1>7
  <2> DEFINE where == pc'[t]
  <2>2. /\ where \in {"nap", "call"} /\ step' \in {step, "died"} /\ Goto(t, where)
        /\ \A u \in Thread : u # t => pc'[u] = pc[u]
    BY <1>1, <1>2, <2>1 DEF Checked, Goto, Types
  <2>0. where \in Location \ {"new", "missing"}
    BY <2>2 DEF Location
  <2>3. Turns' /\ Exclusive'
    BY <1>1, <1>2, <2>2 DEF Turns, Exclusive, Busy
  <2>4. Uncounted' = Uncounted
    BY <1>2, <2>2 DEF Uncounted
  <2>5. Counted'
    BY <1>1, <1>2, <2>1, <2>2, <2>4 DEF Counted
  <2>6. troubles' # 0
    BY <1>4, <1>7 DEF Echo
  <2>7. /\ threads_number' \in Nat /\ errors' \in Nat /\ answered' \in Nat
        /\ holder' \subseteq Thread /\ i' \in [Thread -> 0 .. loop_number]
        /\ read' \in [Thread -> Nat]
    BY <1>1, <1>2, <2>1 DEF Types
  <2> QED
    BY <1>2, <1>4, <2>0, <2>1, <2>2, <2>3, <2>5, <2>6, <2>7, SenderKeeps
<1> QED
  BY <1>6, <1>7

\* Taking the mutex, and loading threads_number under it, count nothing.
LEMMA LockAndLoadKeep ==
  ASSUME SuiteInv, NEW t \in Thread, Lock(t) \/ Load(t) PROVE SuiteInv'
<1>1. Types /\ Turns /\ Exclusive /\ Counted /\ Untroubled
  BY DEF SuiteInv
<1>2. PICK where \in {"load", "store"} :
        /\ Goto(t, where)
        /\ where = "load" => pc[t] = "lock" /\ holder = {} /\ holder' = {t} /\ read' = read
        /\ where = "store" => /\ pc[t] = "load" /\ holder' = holder
                              /\ read' = [read EXCEPT ![t] = threads_number]
  BY DEF Lock, Load, countVars
<1>3. /\ UNCHANGED <<test, step, sharedVars, threads_number, errors, answered, i,
                     joined, failed, troubles>>
      /\ pc[t] \in {"lock", "load"}
  BY DEF Lock, Load, countVars
<1>4. where \in Location \ {"new", "missing"}
  BY <1>2 DEF Location
<1>5. pc'[t] = where /\ \A u \in Thread : u # t => pc'[u] = pc[u]
  BY <1>1, <1>2, <1>4, Moved
<1>6. Uncounted' = Uncounted /\ Done' = Done
  <2>1. pc[t] \in Busy /\ pc'[t] \in Busy
    BY <1>2, <1>3, <1>5 DEF Busy
  <2>2. i' = i /\ pc[t] \in {"lock", "load", "store"} /\ pc'[t] \in {"lock", "load", "store"}
    BY <1>2, <1>3, <1>5
  <2> QED
    BY <1>1, <1>5, <2>1, <2>2, CountsKept
<1>7. Turns'
  BY <1>1, <1>2, <1>3, <1>5 DEF Turns, Busy
<1>8. Exclusive'
  BY <1>1, <1>2, <1>5 DEF Exclusive
<1>9. /\ read' \in [Thread -> Nat] /\ holder' \subseteq Thread
      /\ where = "store" => read'[t] = threads_number
      /\ \A u \in Thread : u # t => read'[u] = read[u]
  BY <1>1, <1>2 DEF Types
<1>10. Counted'
  BY <1>1, <1>2, <1>3, <1>5, <1>6, <1>9 DEF Counted
<1>11. troubles' = 0 => troubles = 0 /\ answered' = Cardinality(Done')
  BY <1>1, <1>3, <1>6 DEF Untroubled
<1>12. /\ threads_number' \in Nat /\ errors' \in Nat /\ answered' \in Nat
       /\ i' \in [Thread -> 0 .. loop_number] /\ troubles' \in 0 .. MaxTroubles
  BY <1>1, <1>3 DEF Types
<1>13. pc[t] \notin {"new", "missing", "ended"}
  BY <1>3
<1> QED
  BY <1>2, <1>3, <1>4, <1>7, <1>8, <1>9, <1>10, <1>11, <1>12, <1>13, SenderKeeps

\* The store adds one to the number as it still is: no other thread has been
\* between the load and it.
LEMMA StoreKeeps == ASSUME SuiteInv, NEW t \in Thread, Store(t) PROVE SuiteInv'
<1>1. Types /\ Turns /\ Exclusive /\ Counted /\ Untroubled
  BY DEF SuiteInv
<1>2. /\ pc[t] = "store" /\ threads_number' = read[t] + 1 /\ Goto(t, "unlock")
      /\ UNCHANGED <<test, step, sharedVars, errors, holder, answered, i, read,
                     joined, failed, troubles>>
  BY DEF Store
<1>3. /\ pc'[t] = "unlock" /\ "unlock" \in Location \ {"new", "missing"}
      /\ \A u \in Thread : u # t => pc'[u] = pc[u]
  BY <1>1, <1>2, Moved DEF Location
<1>4. threads_number' = threads_number + 1
  BY <1>1, <1>2 DEF Counted
<1>5. Uncounted' = Uncounted \ {t} /\ t \in Uncounted
  BY <1>2, <1>3 DEF Uncounted
<1>6. Cardinality(Uncounted') = Cardinality(Uncounted) - 1
  BY <1>1, <1>5, CountsFinite, FS_RemoveElement
<1>7. Turns' /\ Exclusive'
  BY <1>1, <1>2, <1>3 DEF Turns, Exclusive, Busy
<1>8. \A u \in Thread : pc'[u] # "store"
  BY <1>1, <1>2, <1>3 DEF Exclusive
<1>9. Counted'
  BY <1>1, <1>2, <1>4, <1>6, <1>8, CountsFinite DEF Counted, Types
<1>10. Done' = Done
  <2>1. \A u \in Thread : pc[u] \in Busy <=> pc'[u] \in Busy
    BY <1>2, <1>3 DEF Busy
  <2> QED
    BY <1>2, <2>1 DEF Done
<1>11. troubles' = 0 => troubles = 0 /\ answered' = Cardinality(Done')
  BY <1>1, <1>2, <1>10 DEF Untroubled
<1>12. /\ threads_number' \in Nat /\ errors' \in Nat /\ answered' \in Nat
       /\ i' \in [Thread -> 0 .. loop_number] /\ troubles' \in 0 .. MaxTroubles
       /\ holder' \subseteq Thread /\ read' \in [Thread -> Nat]
  BY <1>1, <1>2, <1>4 DEF Types
<1> QED
  BY <1>2, <1>3, <1>7, <1>9, <1>11, <1>12, SenderKeeps

\* Giving the mutex up, and the end of the loop, count nothing.
LEMMA UnlockAndEndKeep ==
  ASSUME SuiteInv, NEW t \in Thread, Unlock(t) \/ End(t) PROVE SuiteInv'
<1>1. Types /\ Turns /\ Exclusive /\ Counted /\ Untroubled
  BY DEF SuiteInv
<1>2. PICK where \in {"nap", "ended"} :
        /\ Goto(t, where)
        /\ where = "nap" => pc[t] = "unlock" /\ holder' = holder \ {t}
        /\ where = "ended" => /\ pc[t] = "call" /\ i[t] = loop_number
                              /\ holder' = holder
  BY DEF Unlock, End, countVars
<1>3. /\ UNCHANGED <<test, step, sharedVars, threads_number, errors, answered, i, read,
                     joined, failed, troubles>>
      /\ pc[t] \in {"unlock", "call"}
  BY DEF Unlock, End, countVars
<1>4. where \in Location \ {"new", "missing"}
  BY <1>2 DEF Location
<1>5. pc'[t] = where /\ \A u \in Thread : u # t => pc'[u] = pc[u]
  BY <1>1, <1>2, <1>4, Moved
<1>6. Uncounted' = Uncounted /\ Done' = Done
  <2>1. pc[t] \in Busy <=> pc'[t] \in Busy
    BY <1>2, <1>5 DEF Busy
  <2>2. /\ i' = i /\ pc[t] \notin {"lock", "load", "store"}
        /\ pc'[t] \notin {"lock", "load", "store"}
    BY <1>2, <1>3, <1>5
  <2> QED
    BY <1>1, <1>5, <2>1, <2>2, CountsKept
<1>7. Turns'
  BY <1>1, <1>2, <1>3, <1>5 DEF Turns, Busy
<1>8. Exclusive'
  BY <1>1, <1>2, <1>5 DEF Exclusive
<1>9. Counted'
  BY <1>1, <1>2, <1>3, <1>5, <1>6 DEF Counted
<1>10. troubles' = 0 => troubles = 0 /\ answered' = Cardinality(Done')
  BY <1>1, <1>3, <1>6 DEF Untroubled
<1>11. /\ threads_number' \in Nat /\ errors' \in Nat /\ answered' \in Nat
       /\ i' \in [Thread -> 0 .. loop_number] /\ troubles' \in 0 .. MaxTroubles
       /\ holder' \subseteq Thread /\ read' \in [Thread -> Nat]
  BY <1>1, <1>2, <1>3 DEF Types
<1>12. pc[t] \notin {"new", "missing", "ended"}
  BY <1>3
<1> QED
  BY <1>2, <1>3, <1>4, <1>7, <1>8, <1>9, <1>10, <1>11, <1>12, SenderKeeps

\* A turn that is over stays among those that are done.
LEMMA NapKeeps == ASSUME SuiteInv, NEW t \in Thread, Nap(t) PROVE SuiteInv'
<1>1. Types /\ Turns /\ Exclusive /\ Counted /\ Untroubled
  BY DEF SuiteInv
<1>2. /\ pc[t] = "nap" /\ i' = [i EXCEPT ![t] = @ + 1] /\ Goto(t, "call")
      /\ UNCHANGED <<test, step, sharedVars, threads_number, errors, holder, answered,
                     read, joined, failed, troubles>>
  BY DEF Nap, countVars
<1>3. /\ pc'[t] = "call" /\ "call" \in Location \ {"new", "missing"}
      /\ \A u \in Thread : u # t => pc'[u] = pc[u]
  BY <1>1, <1>2, Moved DEF Location
<1>4. /\ i[t] \in Nat /\ loop_number \in Nat /\ i[t] < loop_number
      /\ i'[t] = i[t] + 1 /\ i' \in [Thread -> 0 .. loop_number]
      /\ \A u \in Thread : u # t => i'[u] = i[u]
  BY <1>1, <1>2, SuiteAssumption DEF Types, Turns, Busy
<1>5. Turns' /\ Exclusive'
  BY <1>1, <1>2, <1>3, <1>4 DEF Turns, Exclusive, Busy
<1>6. Uncounted' = Uncounted
  BY <1>2, <1>3 DEF Uncounted
<1>7. Counted'
  BY <1>1, <1>2, <1>3, <1>6 DEF Counted
<1>8. Done' = Done
  <2>1. pc[t] \in Busy /\ pc'[t] \notin Busy
    BY <1>2, <1>3 DEF Busy
  <2>2. ASSUME NEW u \in Thread, NEW n \in 0 .. loop_number
        PROVE  <<u, n>> \in Done' <=> <<u, n>> \in Done
    BY <1>3, <1>4, <2>1 DEF Done
  <2>3. /\ Done \subseteq Thread \X (0 .. loop_number)
        /\ Done' \subseteq Thread \X (0 .. loop_number)
    BY DEF Done
  <2> QED
    BY <2>2, <2>3
<1>9. troubles' = 0 => troubles = 0 /\ answered' = Cardinality(Done')
  BY <1>1, <1>2, <1>8 DEF Untroubled
<1>10. /\ threads_number' \in Nat /\ errors' \in Nat /\ answered' \in Nat
       /\ troubles' \in 0 .. MaxTroubles
       /\ holder' \subseteq Thread /\ read' \in [Thread -> Nat]
  BY <1>1, <1>2 DEF Types
<1> QED
  BY <1>2, <1>3, <1>4, <1>5, <1>7, <1>9, <1>10, SenderKeeps

-----------------------------------------------------------------------------
(* The theorems.                                                            *)

\* The invariant holds in every state of the suite.
THEOREM SuiteInvariant == Spec => []SuiteInv
<1>1. ASSUME SuiteInv, [Next]_vars PROVE SuiteInv'
  <2>1. CASE UNCHANGED vars
    BY <1>1, <2>1
    DEF vars, sharedVars, countVars, senderVars, SuiteInv, Types, Phases, Addressed,
        Turns, Exclusive, Counted, Uncounted, Untroubled, Done
  <2>2. CASE Main
    BY <1>1, <2>2, CasesKeep, MainKeeps, ExpectCountKeeps DEF Main
  <2>3. CASE \E t \in Thread : Sender(t)
    <3>1. PICK t \in Thread : Sender(t)
      BY <2>3
    <3> QED
      BY <1>1, <3>1, CallKeeps, LockAndLoadKeep, StoreKeeps, UnlockAndEndKeep, NapKeeps
      DEF Sender
  <2> QED
    BY <1>1, <2>1, <2>2, <2>3 DEF Next
<1> QED
  BY <1>1, SuiteInit, PTL DEF Spec

\* Types, and mutual exclusion: the threads between m.lock() and m.unlock() are
\* those that hold m, one at a time (client_test.cpp, sender).
THEOREM SuiteTyped == Spec => []TypeOK
<1>1. ASSUME SuiteInv PROVE TypeOK
  <2>1. Types /\ Exclusive
    BY <1>1 DEF SuiteInv
  <2>2. Cardinality(holder) <= 1
    <3>1. CASE holder = {}
      BY <3>1, FS_EmptySet
    <3>2. CASE holder # {}
      <4>1. PICK t \in holder : TRUE
        BY <3>2
      <4>2. holder = {t}
        BY <2>1, <4>1 DEF Exclusive
      <4> QED
        BY <4>2, FS_Singleton
    <3> QED
      BY <3>1, <3>2
  <2> QED
    BY <2>1, <2>2 DEF TypeOK, Types, Exclusive, Location
<1> QED
  BY <1>1, SuiteInvariant, PTL

\* threads_number loses no increment, for any number of threads and of turns:
\* once the threads are joined it is the number of calls that were answered.
THEOREM CountIsExact == Spec => []CountExact
<1>1. ASSUME SuiteInv PROVE CountExact
  <2>1. SUFFICES ASSUME test > 3 PROVE threads_number = answered
    BY DEF CountExact
  <2>2. Uncounted = {}
    BY <1>1, <2>1 DEF SuiteInv, Phases, Uncounted
  <2> QED
    BY <1>1, <2>2, FS_EmptySet DEF SuiteInv, Counted, Types
<1> QED
  BY <1>1, SuiteInvariant, PTL

\* Where the server sends attachments back, as the suite expects, a case fails
\* only when an RPC or a thread did: no case fails for what an earlier one left
\* in FLAGS_server, g_request or g_attachment.
THEOREM FailuresAreExplained ==
  ASSUME echo_attachment
  PROVE  Spec => []FailuresExplained
<1>1. ASSUME SuiteInv PROVE FailuresExplained
  <2>1. Untroubled /\ Types
    BY <1>1 DEF SuiteInv
  <2>2. troubles = 0 => failed = {}
    BY <2>1, Zenon DEF Untroubled
  <2>3. troubles # 0 => troubles > 0
    BY <2>1, SuiteAssumption DEF Types
  <2> QED
    BY <2>2, <2>3 DEF FailuresExplained
<1> QED
  BY <1>1, SuiteInvariant, PTL
=============================================================================
