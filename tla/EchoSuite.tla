------------------------------ MODULE EchoSuite ------------------------------
(***************************************************************************)
(* BRPC/multi_threaded_echo_c++/client_test.cpp against the echo server of  *)
(* server.cpp: four gtest cases, run in the order of the file, that share   *)
(* the flags and globals of the process; the third starts threads that send *)
(* requests and count the answers under a mutex.  log_id is left out: it is *)
(* only ever logged.                                                        *)
(***************************************************************************)
EXTENDS Integers, FiniteSets

CONSTANTS Thread,          \* FLAGS_thread_num, as set by multi_thread
          loop_number,
          echo_attachment, \* the server's flag
          dont_fail,       \* FLAGS_dont_fail, with -crash_on_fatal_log
          Nothing,         \* the empty string
          MaxTroubles      \* bound: RPCs that fail, threads that do not start

ASSUME SuiteAssumption ==
  /\ loop_number \in Nat /\ MaxTroubles \in Nat
  /\ IsFiniteSet(Thread) /\ echo_attachment \in BOOLEAN /\ dont_fail \in BOOLEAN
  /\ Nothing \notin {"Hello_world!", "Use_SSL!", "This_is_attachment."}

VARIABLES test,           \* the case that runs, 1 .. 4; 5 when all have
          step,           \* where multi_thread is
          server,         \* FLAGS_server: the echo server's address, or not
          g_request, g_attachment,
          threads_number,
          errors,         \* g_error_count
          holder,         \* the threads inside mutex m
          pc, i, read,    \* of each sender; read: threads_number as loaded
          joined, answered, \* answered: calls that did not fail
          failed,         \* the cases with a failed EXPECT
          troubles

sharedVars == <<server, g_request, g_attachment>>
countVars == <<threads_number, errors, holder, answered>>
senderVars == <<pc, i, read>>
vars == <<test, step, sharedVars, countVars, senderVars, joined, failed, troubles>>

Message == {"Hello_world!", "Use_SSL!", "This_is_attachment.", Nothing}

\* Types; and the threads between m.lock() and m.unlock() are those that hold m,
\* one at a time.
TypeOK ==
  /\ test \in 1 .. 5
  /\ step \in {"set", "create", "join", "died"}
  /\ server \in {"here", "elsewhere"}
  /\ g_request \in Message /\ g_attachment \in Message
  /\ threads_number \in Nat /\ errors \in Nat /\ answered \in Nat
  /\ holder \subseteq Thread /\ Cardinality(holder) <= 1
  /\ \A t \in Thread : pc[t] \in {"load", "store", "unlock"} <=> t \in holder
  /\ joined \subseteq Thread
  /\ pc \in [Thread -> {"new", "missing", "call", "lock", "load", "store",
                        "unlock", "nap", "ended"}]
  /\ i \in [Thread -> 0 .. loop_number] /\ read \in [Thread -> Nat]
  /\ failed \subseteq 1 .. 4
  /\ troubles \in 0 .. MaxTroubles

Init ==
  /\ test = 1 /\ step = "set"
  /\ server = "here" /\ g_request = Nothing /\ g_attachment = Nothing
  /\ threads_number = 0 /\ errors = 0 /\ answered = 0 /\ holder = {}
  /\ pc = [t \in Thread |-> "new"]
  /\ i = [t \in Thread |-> 0] /\ read = [t \in Thread |-> 0]
  /\ joined = {} /\ failed = {} /\ troubles = 0

-----------------------------------------------------------------------------
(* A call.                                                                  *)

\* EchoServiceImpl::Echo.
Echo(message, attachment) ==
  [failed |-> FALSE, message |-> message,
   attachment |-> IF echo_attachment THEN attachment ELSE Nothing]

\* What the caller finds in response and cntl when the RPC failed.
Unanswered == [failed |-> TRUE, message |-> Nothing, attachment |-> Nothing]

Trouble == troubles < MaxTroubles /\ troubles' = troubles + 1
NoTrouble == UNCHANGED troubles

\* stub.Echo to address at: it fails when no server is there, and may anyway.
Calls(at, message, attachment, reply) ==
  \/ at = "here" /\ reply = Echo(message, attachment) /\ NoTrouble
  \/ at = "here" /\ reply = Unanswered /\ Trouble
  \/ at = "elsewhere" /\ reply = Unanswered /\ NoTrouble

Reply == {Unanswered} \cup {Echo(m, a) : m, a \in Message}

\* The end of a case: EXPECT_EQ and EXPECT_NE note a failure and go on.
Verdict(passed) == failed' = IF passed THEN failed ELSE failed \cup {test}

-----------------------------------------------------------------------------
(* The cases that make one call.                                            *)

MessageAndAttachment ==
  /\ test = 1
  /\ g_request' = "Hello_world!" /\ g_attachment' = "This_is_attachment."
  /\ \E reply \in Reply :
       /\ Calls(server, g_request', g_attachment', reply)
       /\ Verdict(reply.message = g_request' /\ reply.attachment = g_attachment')
  /\ test' = 2
  /\ UNCHANGED <<step, server, countVars, senderVars, joined>>

DifferentServer ==
  /\ test = 2
  /\ server' = "elsewhere" /\ g_request' = "Hello_world!"
  /\ \E reply \in Reply :
       /\ Calls(server', g_request', Nothing, reply)
       /\ Verdict(reply.message # g_request')
  /\ test' = 3
  /\ UNCHANGED <<step, g_attachment, countVars, senderVars, joined>>

UseSsl ==
  /\ test = 4
  /\ g_request' = "Use_SSL!"
  /\ \E reply \in Reply :
       /\ Calls(server, g_request', Nothing, reply)
       /\ Verdict(reply.message = g_request')
  /\ test' = 5
  /\ UNCHANGED <<step, server, g_attachment, countVars, senderVars, joined>>

-----------------------------------------------------------------------------
(* multi_thread.                                                            *)

\* Mutant of SetServer: the address the case before has left is kept.
KeepServer ==
  /\ test = 3 /\ step = "set"
  /\ step' = "create"
  /\ UNCHANGED <<test, sharedVars, countVars, senderVars, joined, failed, troubles>>

SetServer ==
  /\ test = 3 /\ step = "set"
  /\ server' = "here" /\ step' = "create"
  /\ UNCHANGED <<test, g_request, g_attachment, countVars, senderVars,
                 joined, failed, troubles>>

Goto(t, where) == pc' = [pc EXCEPT ![t] = where]

\* pthread_create, whose result nobody looks at.
Create ==
  /\ test = 3 /\ step = "create"
  /\ \/ \E t \in Thread : /\ pc[t] = "new"
                          /\ \/ Goto(t, "call") /\ NoTrouble
                             \/ Goto(t, "missing") /\ Trouble
                          /\ UNCHANGED step
     \/ /\ \A t \in Thread : pc[t] # "new"
        /\ step' = "join" /\ UNCHANGED <<pc, troubles>>
  /\ UNCHANGED <<test, sharedVars, countVars, i, read, joined, failed>>

\* pthread_join; of a thread that was never created it does what it likes.
Join ==
  /\ test = 3 /\ step = "join"
  /\ \E t \in Thread \ joined :
       \/ pc[t] \in {"ended", "missing"} /\ joined' = joined \cup {t} /\ UNCHANGED step
       \/ pc[t] = "missing" /\ step' = "died" /\ UNCHANGED joined
  /\ UNCHANGED <<test, sharedVars, countVars, senderVars, failed, troubles>>

ExpectCount ==
  /\ test = 3 /\ step = "join" /\ joined = Thread
  /\ Verdict(threads_number = Cardinality(Thread) * loop_number)
  /\ test' = 4
  /\ UNCHANGED <<step, sharedVars, countVars, senderVars, joined, troubles>>

-----------------------------------------------------------------------------
(* sender.                                                                  *)

\* With the flag, a failure that no CTRL-C excuses aborts the process.
Checked(t) ==
  \/ Goto(t, "nap") /\ UNCHANGED step
  \/ dont_fail /\ step' = "died" /\ UNCHANGED pc

\* Mutant of CallEcho: a call that failed is counted as well.
CountEveryCall(t) ==
  /\ pc[t] = "call" /\ i[t] < loop_number
  /\ \E reply \in Reply :
       /\ Calls(server, g_request, g_attachment, reply)
       /\ IF ~reply.failed
          THEN answered' = answered + 1 /\ UNCHANGED errors
          ELSE errors' = errors + 1 /\ UNCHANGED answered
       /\ Goto(t, "lock") /\ UNCHANGED step
  /\ UNCHANGED <<test, sharedVars, threads_number, holder, i, read, joined, failed>>

CallEcho(t) ==
  /\ pc[t] = "call" /\ i[t] < loop_number
  /\ \E reply \in Reply :
       /\ Calls(server, g_request, g_attachment, reply)
       /\ IF ~reply.failed
          THEN /\ Goto(t, "lock") /\ answered' = answered + 1
               /\ UNCHANGED <<step, errors>>
          ELSE Checked(t) /\ errors' = errors + 1 /\ UNCHANGED answered
  /\ UNCHANGED <<test, sharedVars, threads_number, holder, i, read, joined, failed>>

\* Mutant of Lock: the mutex is not taken.
NoLock(t) ==
  /\ pc[t] = "lock"
  /\ Goto(t, "load")
  /\ UNCHANGED <<test, step, sharedVars, countVars, i, read, joined, failed, troubles>>

Lock(t) ==
  /\ pc[t] = "lock" /\ holder = {}
  /\ holder' = {t} /\ Goto(t, "load")
  /\ UNCHANGED <<test, step, sharedVars, threads_number, errors, answered, i, read,
                 joined, failed, troubles>>

\* threads_number++ is a load and a store.
Load(t) ==
  /\ pc[t] = "load"
  /\ read' = [read EXCEPT ![t] = threads_number] /\ Goto(t, "store")
  /\ UNCHANGED <<test, step, sharedVars, countVars, i, joined, failed, troubles>>

Store(t) ==
  /\ pc[t] = "store"
  /\ threads_number' = read[t] + 1 /\ Goto(t, "unlock")
  /\ UNCHANGED <<test, step, sharedVars, errors, holder, answered, i, read,
                 joined, failed, troubles>>

\* Mutant of Unlock: the mutex is kept.
NoUnlock(t) ==
  /\ pc[t] = "unlock"
  /\ Goto(t, "nap")
  /\ UNCHANGED <<test, step, sharedVars, countVars, i, read, joined, failed, troubles>>

Unlock(t) ==
  /\ pc[t] = "unlock"
  /\ holder' = holder \ {t} /\ Goto(t, "nap")
  /\ UNCHANGED <<test, step, sharedVars, threads_number, errors, answered, i, read,
                 joined, failed, troubles>>

\* usleep, and the next turn of the loop.
Nap(t) ==
  /\ pc[t] = "nap"
  /\ i' = [i EXCEPT ![t] = @ + 1] /\ Goto(t, "call")
  /\ UNCHANGED <<test, step, sharedVars, countVars, read, joined, failed, troubles>>

End(t) ==
  /\ pc[t] = "call" /\ i[t] = loop_number
  /\ Goto(t, "ended")
  /\ UNCHANGED <<test, step, sharedVars, countVars, i, read, joined, failed, troubles>>

Sender(t) == \/ CallEcho(t) \/ Lock(t) \/ Load(t) \/ Store(t) \/ Unlock(t)
             \/ Nap(t) \/ End(t)

Main == \/ MessageAndAttachment \/ DifferentServer \/ UseSsl
        \/ SetServer \/ Create \/ Join \/ ExpectCount

Next == \/ Main
        \/ step # "died" /\ \E t \in Thread : Sender(t)

\* main and the threads run, mutexes are handed on, and RPCs end.
Fairness == WF_vars(Main) /\ \A t \in Thread : WF_vars(step # "died" /\ Sender(t))

Spec == Init /\ [][Next]_vars
FairSpec == Spec /\ Fairness

-----------------------------------------------------------------------------

\* threads_number loses no increment: once the threads are joined it is the
\* number of calls that were answered, whatever their interleaving.
CountExact == test > 3 => threads_number = answered

\* A case fails only when something outside the program did: what one case
\* leaves in the globals does not fail the next.
FailuresExplained == failed # {} => troubles > 0

\* The suite comes to its end: no sender is left waiting for the mutex.
SuiteEnds == <>(test = 5 \/ step = "died")
=============================================================================
