------------------------------ MODULE EchoCall -------------------------------
(***************************************************************************)
(* An echo call from end to end: the threads of client.cpp, the generated   *)
(* stub and service of echo.pb.cc, brpc between them, and a server that     *)
(* runs each request in a bthread of its own, with main of server.cpp and   *)
(* the handler of testServer/server.hpp, which is server.cpp's but for      *)
(* NUMBER.  brpc is external: it sends a request again when a connection    *)
(* breaks, gives a call up at its timeout, loses and delays messages, and   *)
(* drops what comes too late.                                               *)
(***************************************************************************)
EXTENDS EchoClient, EchoWire

CONSTANTS g_request, g_attachment,
          echo_attachment,  \* the server's flag
          max_retry,        \* FLAGS_max_retry
          MaxSends          \* bound: requests sent in all

ASSUME CallAssumption ==
  /\ g_request \in Text /\ g_attachment \in Text
  /\ echo_attachment \in BOOLEAN /\ max_retry \in Nat /\ MaxSends \in Nat

VARIABLES sends,    \* sends[t]: how often thread t's call under way has been sent
          sent,     \* requests sent in all
          answer,   \* answer[t]: what thread t's last successful call brought
          wire,     \* messages on their way; a lost one is never taken from it
          server,   \* where main of server.cpp is
          running,  \* handlers that run in the server
          ran,      \* calls the server has begun to run a handler for
          NUMBER, logged  \* the handler's counter; the numbers it has logged

callVars == <<sends, sent, answer>>
serverVars == <<server, running, ran, NUMBER, logged>>
vars == <<clientVars, callVars, wire, serverVars>>

\* A call, and one sending of it.
Call == [thread : Thread, log_id : 0 .. MaxCalls - 1]
Sending == [call : Call, try : 1 .. max_retry + 1]
Contents == [bytes : Seq(Field), attachment : Text]
NoAnswer == [value |-> Blank, attachment |-> Empty]

\* Types; a message on the wire or a handler belongs to a call that was sent.
TypeOK ==
  /\ ClientTypes
  /\ sends \in [Thread -> 0 .. max_retry + 1] /\ sent \in 0 .. MaxSends
  /\ answer \in [Thread -> [value : Value, attachment : Text]]
  /\ \A w \in wire : /\ w.of \in Sending /\ w.kind \in {"request", "response"}
                     /\ w.contents \in Contents
                     /\ w.of.call.log_id < calls[w.of.call.thread]
  /\ server \in {"setup", "serving", "stopping", "returned", "failed"}
  /\ \A h \in running : /\ h.of \in Sending /\ h.of.call \in ran
                        /\ h.pc \in {"echo", "store", "done"}
  /\ ran \subseteq Call /\ NUMBER \in Nat /\ logged \subseteq Nat

Init ==
  /\ ClientInit
  /\ sends = [t \in Thread |-> 0] /\ sent = 0 /\ answer = [t \in Thread |-> NoAnswer]
  /\ wire = {} /\ server = "setup"
  /\ running = {} /\ ran = {} /\ NUMBER = 0 /\ logged = {}

-----------------------------------------------------------------------------
(* The client.                                                              *)

ThisCall(t) == [thread |-> t, log_id |-> calls[t] - 1]

\* request.set_message and request_attachment; the controller's log_id.
Request == [bytes |-> Serialized(Assigned(Blank, g_request)), attachment |-> g_attachment]

\* Channel::CallMethod of method 0, sent for the n-th time.
CallMethod(t, n) ==
  /\ sent < MaxSends /\ sent' = sent + 1
  /\ sends' = [sends EXCEPT ![t] = n]
  /\ wire' = wire \cup {[kind |-> "request",
                         of |-> [call |-> ThisCall(t)', try |-> n], contents |-> Request]}

\* A turn of sender's loop: a new call, with a response of its own, or its end.
Turn(t) ==
  /\ Loop(t)
  /\ IF pc'[t] = "calling" THEN CallMethod(t, 1) ELSE UNCHANGED <<sends, sent, wire>>
  /\ answer' = [answer EXCEPT ![t] = NoAnswer]
  /\ UNCHANGED serverVars

Retry(t) ==
  /\ Alive /\ pc[t] = "calling" /\ sends[t] <= max_retry
  /\ UNCHANGED <<clientVars, answer, serverVars>>
  /\ CallMethod(t, sends[t] + 1)

Ended(t) == sends' = [sends EXCEPT ![t] = 0]

\* The response comes in time and is whole.
Receive(t) ==
  \E w \in wire :
    /\ w.kind = "response" /\ w.of.call = ThisCall(t)
    /\ LET read == Parsed(Blank, w.contents.bytes)
       IN /\ read.result /\ IsInitialized(read.value)
          /\ answer' = [answer EXCEPT ![t] = [value |-> read.value,
                                              attachment |-> w.contents.attachment]]
    /\ Succeed(t) /\ wire' = wire \ {w}
    /\ Ended(t) /\ UNCHANGED <<sent, serverVars>>

\* The timeout, or no connection: the caller is not told whether a handler has run.
GiveUp(t) == Fail(t) /\ Ended(t) /\ UNCHANGED <<sent, answer, wire, serverVars>>

\* A call on a channel that main has destroyed may do anything, even kill what is left
\* of the process.
UseDestroyed(t) ==
  /\ Alive /\ pc[t] = "calling" /\ channel = "destroyed"
  /\ main' = "gone"
  /\ UNCHANGED <<pc, calls, joined, channel, recorded, errors, asked, callVars, wire,
                 serverVars>>

\* main's steps and a thread's own, with the rest of the system as it is.
ClientMain == Main /\ UNCHANGED <<callVars, wire, serverVars>>
ClientThread(t) ==
  \/ Turn(t) \/ Receive(t) \/ GiveUp(t)
  \/ Wake(t) /\ UNCHANGED <<callVars, wire, serverVars>>

Client ==
  \/ ClientMain
  \/ Ask /\ UNCHANGED <<callVars, wire, serverVars>>
  \/ \E t \in Thread : ClientThread(t) \/ Retry(t) \/ UseDestroyed(t)

-----------------------------------------------------------------------------
(* The server.                                                              *)

ServerMain(from, to) ==
  /\ server = from /\ server' = to
  /\ UNCHANGED <<clientVars, callVars, wire, running, ran, NUMBER, logged>>

\* AddService and Start, either of which may fail.
ServerStart == ServerMain("setup", "serving") \/ ServerMain("setup", "failed")

\* CTRL-C: RunUntilAskedToQuit stops the server, then joins it.
ServerStop == ServerMain("serving", "stopping")

\* brpc promises that Join returns only when no handler runs.
ServerJoin == running = {} /\ ServerMain("stopping", "returned")

\* What the handler is given: GetRequestPrototype().New(), parsed; a request that is
\* not whole is refused, which its caller cannot tell from a loss.
Accept ==
  \E w \in wire :
    LET read == Parsed(Blank, w.contents.bytes)
    IN /\ server = "serving" /\ w.kind = "request"
       /\ read.result /\ IsInitialized(read.value)
       /\ running' = running \cup {[of |-> w.of, pc |-> "echo", request |-> read.value,
                                    attachment |-> w.contents.attachment,
                                    response |-> NoAnswer, loaded |-> 0]}
       /\ wire' = wire \ {w} /\ ran' = ran \cup {w.of.call}
       /\ UNCHANGED <<clientVars, callVars, server, NUMBER, logged>>

Becomes(h, g) == running' = (running \ {h}) \cup {g}
HandlerOnly == UNCHANGED <<clientVars, callVars, wire, server, ran>>

Filled(h, attachment) ==
  [h EXCEPT !.response = [value |-> Assigned(Blank, h.request.text), attachment |-> attachment]]

\* Mutant of Echo: the attachment is not echoed.
EchoText(h) ==
  /\ h.pc = "echo"
  /\ Becomes(h, [Filled(h, Empty) EXCEPT !.loaded = NUMBER, !.pc = "store"])
  /\ HandlerOnly /\ UNCHANGED <<NUMBER, logged>>

\* set_message; with the flag the attachment, and NUMBER is loaded, which NUMBER++
\* stores in a step of its own, with no lock around the two.
Echo(h) ==
  /\ h.pc = "echo"
  /\ IF echo_attachment
     THEN Becomes(h, [Filled(h, h.attachment) EXCEPT !.loaded = NUMBER, !.pc = "store"])
     ELSE Becomes(h, [Filled(h, Empty) EXCEPT !.pc = "done"])
  /\ HandlerOnly /\ UNCHANGED <<NUMBER, logged>>

\* Mutant of Store: ++NUMBER.
StorePreincrement(h) ==
  /\ h.pc = "store"
  /\ NUMBER' = h.loaded + 1 /\ logged' = logged \cup {h.loaded + 1}
  /\ Becomes(h, [h EXCEPT !.pc = "done"])
  /\ HandlerOnly

Store(h) ==
  /\ h.pc = "store"
  /\ NUMBER' = h.loaded + 1 /\ logged' = logged \cup {h.loaded}
  /\ Becomes(h, [h EXCEPT !.pc = "done"])
  /\ HandlerOnly

\* Mutant of Done: the guard is released, and nobody runs done.
DoneReleased(h) == h.pc = "done" /\ UNCHANGED vars

\* ~ClosureGuard runs done, which sends the response.
Done(h) ==
  /\ h.pc = "done"
  /\ running' = running \ {h}
  /\ wire' = wire \cup {[kind |-> "response", of |-> h.of,
                         contents |-> [bytes |-> Serialized(h.response.value),
                                       attachment |-> h.response.attachment]]}
  /\ UNCHANGED <<clientVars, callVars, server, ran, NUMBER, logged>>

Handle(h) == Echo(h) \/ Store(h) \/ Done(h)

Next ==
  \/ Client
  \/ ServerStart \/ ServerStop \/ ServerJoin \/ Accept \/ \E h \in running : Handle(h)

Spec == Init /\ [][Next]_vars

\* main and the threads of the client run, a call ends, at its timeout if not before,
\* and the server's main and handlers run.
FairSpec ==
  /\ Spec
  /\ WF_vars(ClientMain) /\ \A t \in Thread : WF_vars(ClientThread(t))
  /\ WF_vars(ServerJoin) /\ WF_vars(\E h \in running : Handle(h))

-----------------------------------------------------------------------------

\* A call that does not fail brings back what was sent: the text, and the attachment
\* exactly when the server echoes it, however often the request was sent and whatever
\* answers to earlier calls are still on their way.
EchoedBack ==
  \A t \in Thread : answer[t] # NoAnswer =>
    /\ answer[t].value = Assigned(Blank, g_request)
    /\ answer[t].attachment = IF echo_attachment THEN g_attachment ELSE Empty

\* The client never counts more successes than there are calls the server ran a
\* handler for, a call whose request it ran twice being one.
AnsweredWasRun == recorded <= Cardinality(ran)

\* The numbers logged have no gap and start at zero, though handlers race on NUMBER;
\* the counter never runs ahead of what was logged.
NumbersWithoutGap ==
  /\ \A n \in logged : \A k \in 0 .. n : k \in logged
  /\ NUMBER = 0 \/ NUMBER - 1 \in logged

\* After CTRL-C the client leaves through main, even when the server is gone and
\* failures are fatal.
QuitReturns == asked ~> main \in {"returned", "failed", "abandoned", "gone"}

\* After CTRL-C the server leaves too, whatever clients do.
ServerQuits == server = "stopping" ~> server = "returned"
=============================================================================
