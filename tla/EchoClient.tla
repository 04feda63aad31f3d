----------------------------- MODULE EchoClient ------------------------------
(***************************************************************************)
(* BRPC/multi_threaded_echo_c++/client.cpp: threads that share one Channel, *)
(* which lives on main's stack, send echo requests until CTRL-C; main waits *)
(* for the signal and joins them.  Threads are created one after the other, *)
(* and when one cannot be main returns, the channel with it, while the      *)
(* others go on until the process is gone.  How a call ends is EchoCall's.  *)
(***************************************************************************)
EXTENDS Integers, FiniteSets

CONSTANTS Thread,
          dont_fail,      \* FLAGS_dont_fail, with -crash_on_fatal_log
          MaxCalls        \* bound: calls a thread makes before CTRL-C

ASSUME EchoClientAssumption ==
  MaxCalls \in Nat /\ dont_fail \in BOOLEAN /\ IsFiniteSet(Thread)

VARIABLES main, pc, calls, joined,
          channel,   \* the Channel on main's stack
          recorded,  \* calls in g_latency_recorder
          errors,    \* g_error_count
          asked      \* brpc::IsAskedToQuit()

clientVars == <<main, pc, calls, joined, channel, recorded, errors, asked>>

\* Types; and once main has joined a thread, it makes no call.
ClientTypes ==
  /\ main \in {"setup", "create", "wait", "join", "returned", "failed", "abandoned", "crashed",
              "gone"}
  /\ pc \in [Thread -> {"new", "loop", "calling", "sleep", "ended"}]
  /\ calls \in [Thread -> 0 .. MaxCalls]
  /\ joined \subseteq {t \in Thread : pc[t] = "ended"}
  /\ channel \in {"there", "destroyed"}
  /\ recorded \in Nat /\ errors \in Nat /\ asked \in BOOLEAN

ClientInit ==
  /\ main = "setup"
  /\ pc = [t \in Thread |-> "new"] /\ calls = [t \in Thread |-> 0]
  /\ joined = {} /\ channel = "there" /\ recorded = 0 /\ errors = 0 /\ asked = FALSE

Goto(t, where) == pc' = [pc EXCEPT ![t] = where]
Alive == main \notin {"crashed", "gone"}

-----------------------------------------------------------------------------
(* main.                                                                    *)

\* channel.Init and the flags.
Setup ==
  /\ main = "setup"
  /\ \/ main' = "create" /\ UNCHANGED channel
     \/ main' = "failed" /\ channel' = "destroyed"
  /\ UNCHANGED <<pc, calls, joined, recorded, errors, asked>>

Create ==
  /\ main = "create"
  /\ \/ \E t \in Thread : pc[t] = "new" /\ Goto(t, "loop") /\ UNCHANGED <<main, channel>>
     \/ /\ \E t \in Thread : pc[t] = "new"
        /\ main' = "abandoned" /\ channel' = "destroyed" /\ UNCHANGED pc
     \/ /\ \A t \in Thread : pc[t] # "new"
        /\ main' = "wait" /\ UNCHANGED <<pc, channel>>
  /\ UNCHANGED <<calls, joined, recorded, errors, asked>>

StopWaiting ==
  /\ main = "wait" /\ asked
  /\ main' = "join"
  /\ UNCHANGED <<pc, calls, joined, channel, recorded, errors, asked>>

Returns == joined = Thread /\ main' = "returned" /\ channel' = "destroyed"

\* Mutant of Join: threads are not waited for.
Detach ==
  /\ main = "join"
  /\ \/ \E t \in Thread \ joined : joined' = joined \cup {t} /\ UNCHANGED <<main, channel>>
     \/ Returns /\ UNCHANGED joined
  /\ UNCHANGED <<pc, calls, recorded, errors, asked>>

Join ==
  /\ main = "join"
  /\ \/ \E t \in Thread \ joined :
          pc[t] = "ended" /\ joined' = joined \cup {t} /\ UNCHANGED <<main, channel>>
     \/ Returns /\ UNCHANGED joined
  /\ UNCHANGED <<pc, calls, recorded, errors, asked>>

\* What follows main's return takes its time, and threads go on meanwhile.
Exit ==
  /\ main \in {"returned", "failed", "abandoned"}
  /\ main' = "gone"
  /\ UNCHANGED <<pc, calls, joined, channel, recorded, errors, asked>>

Main == Setup \/ Create \/ StopWaiting \/ Join \/ Exit

\* CTRL-C
Ask ==
  /\ Alive /\ ~asked /\ asked' = TRUE
  /\ UNCHANGED <<main, pc, calls, joined, channel, recorded, errors>>

-----------------------------------------------------------------------------
(* sender.                                                                  *)

\* Mutant of owns_channel_: STUB_OWNS_CHANNEL.
stub_owns_channel == TRUE

\* The stub does not own the channel it is made with.
owns_channel_ == FALSE

\* ~EchoService_Stub
StubDestroyed == channel' = IF owns_channel_ THEN "destroyed" ELSE channel

\* IsAskedToQuit is looked at between calls only.
Loop(t) ==
  /\ Alive /\ pc[t] = "loop"
  /\ \/ asked /\ Goto(t, "ended") /\ StubDestroyed /\ UNCHANGED calls
     \/ /\ ~asked /\ calls[t] < MaxCalls
        /\ Goto(t, "calling") /\ calls' = [calls EXCEPT ![t] = @ + 1]
        /\ UNCHANGED channel
  /\ UNCHANGED <<main, joined, recorded, errors, asked>>

Succeed(t) ==
  /\ Alive /\ pc[t] = "calling"
  /\ recorded' = recorded + 1 /\ Goto(t, "loop")
  /\ UNCHANGED <<main, calls, joined, channel, errors, asked>>

\* Mutant of Fail: the check does not look at the signal.
FailRegardless(t) ==
  /\ Alive /\ pc[t] = "calling"
  /\ errors' = errors + 1
  /\ IF ~dont_fail
     THEN Goto(t, "sleep") /\ UNCHANGED main
     ELSE main' = "crashed" /\ UNCHANGED pc
  /\ UNCHANGED <<calls, joined, channel, recorded, asked>>

\* Mutant of Fail: the failure is not counted.
FailUncounted(t) ==
  /\ Alive /\ pc[t] = "calling"
  /\ IF asked \/ ~dont_fail
     THEN Goto(t, "sleep") /\ UNCHANGED main
     ELSE main' = "crashed" /\ UNCHANGED pc
  /\ UNCHANGED <<calls, joined, channel, recorded, errors, asked>>

\* Mutant of Fail: the latency of a call that failed is recorded.
FailRecorded(t) ==
  /\ Alive /\ pc[t] = "calling"
  /\ recorded' = recorded + 1
  /\ IF asked \/ ~dont_fail
     THEN Goto(t, "sleep") /\ UNCHANGED main
     ELSE main' = "crashed" /\ UNCHANGED pc
  /\ UNCHANGED <<calls, joined, channel, errors, asked>>

\* The CHECK aborts the process, except on its way out.
Fail(t) ==
  /\ Alive /\ pc[t] = "calling"
  /\ errors' = errors + 1
  /\ IF asked \/ ~dont_fail
     THEN Goto(t, "sleep") /\ UNCHANGED main
     ELSE main' = "crashed" /\ UNCHANGED pc
  /\ UNCHANGED <<calls, joined, channel, recorded, asked>>

\* bthread_usleep(50000)
Wake(t) ==
  /\ Alive /\ pc[t] = "sleep"
  /\ Goto(t, "loop")
  /\ UNCHANGED <<main, calls, joined, channel, recorded, errors, asked>>

-----------------------------------------------------------------------------

\* No thread calls on a channel that is gone, except when main has given up creating
\* the others: the stubs share the channel, and only main ends it.
ChannelThere ==
  \A t \in Thread : pc[t] = "calling" /\ Alive => channel = "there" \/ main = "abandoned"

\* The calls that were made, each by its thread and its number.
CallsMade == {x \in Thread \X (1 .. MaxCalls) : x[2] <= calls[x[1]]}

\* Every call has been counted once, as a latency or as an error, by the time main
\* returns.
Tally == main = "returned" => recorded + errors = Cardinality(CallsMade)
=============================================================================
