---------------------------- MODULE EchoCallProofs ----------------------------
(***************************************************************************)
(* The safety of the echo call, for any number of threads, calls, retries   *)
(* and sendings.  Every message on the wire and every handler is the one    *)
(* request and its one answer in some stage, which is read back as written; *)
(* the rest is what the counters of client and handler say of the calls.    *)
(***************************************************************************)
EXTENDS EchoCall, FiniteSetTheorems, TLAPS

\* What every call asks, and what it is answered.
Asked == Assigned(Blank, g_request)
Echoed ==
  [value |-> Asked, attachment |-> IF echo_attachment THEN g_attachment ELSE Empty]
Response == [bytes |-> Serialized(Asked), attachment |-> Echoed.attachment]

-----------------------------------------------------------------------------
(* A stream of one field.                                                   *)

\* Reading a stream of one field takes one turn of the loop.
LEMMA ParsedOne ==
  ASSUME NEW v, NEW f
  PROVE  Parsed(v, <<f>>) = ParsedField(v, f)
<1> DEFINE start == [value |-> v, left |-> FALSE, result |-> TRUE]
           body(a) == [k \in 0 .. Len(<<f>>) |->
                         IF k = 0 THEN [value |-> v, left |-> FALSE, result |-> TRUE]
                         ELSE IF a[k - 1].left THEN a[k - 1]
                         ELSE ParsedField(a[k - 1].value, <<f>>[k])]
           after == CHOOSE a : a = body(a)
           turns == [k \in 0 .. 1 |-> IF k = 0 THEN start ELSE ParsedField(v, f)]
<1>0. /\ Len(<<f>>) = 1 /\ <<f>>[1] = f /\ 0 .. 1 = {0, 1}
      /\ start.value = v /\ start.left = FALSE
  OBVIOUS
<1>1. turns = body(turns)
  <2> HIDE DEF start
  <2>1. turns[0] = start /\ 0 \in 0 .. 1 /\ 1 \in 0 .. 1
    OBVIOUS
  <2>2. \A k \in 0 .. 1 : k # 0 => k = 1 /\ k - 1 = 0
    OBVIOUS
  <2>3. body(turns) = [k \in 0 .. 1 |-> IF k = 0 THEN start ELSE ParsedField(v, f)]
    BY <1>0, <2>1, <2>2 DEF start
  <2> QED
    BY <2>3
<1>2. after = body(after)
  <2> HIDE DEF body, turns
  <2> QED
    BY <1>1
<1>3. after[1] = ParsedField(v, f)
  <2> HIDE DEF after
  <2>1. after[0] = start
    BY <1>2, <1>0
  <2>2. 1 \in 0 .. Len(<<f>>) /\ 1 # 0 /\ 1 - 1 = 0
    BY <1>0
  <2>3. after[1] = body(after)[1]
    BY <1>2
  <2>4. after[1] = (IF after[0].left THEN after[0]
                    ELSE ParsedField(after[0].value, <<f>>[1]))
    BY <2>2, <2>3
  <2> QED
    BY <2>1, <2>4, <1>0
<1>4. Parsed(v, <<f>>) = after[Len(<<f>>)]
  BY DEF Parsed
<1> QED
  BY <1>3, <1>4, <1>0

\* A message with a text and no unknown fields is one field.
LEMMA AskedBytes == Serialized(Asked) = <<Message(g_request)>>
<1>1. Others(<< >>) = << >>
  BY DEF Others
<1>2. Asked.has = TRUE /\ Asked.text = g_request /\ Asked.unknown = << >>
  BY DEF Asked, Assigned, Blank
<1>3. Serialized(Asked) = <<Message(g_request)>> \o << >>
  BY <1>1, <1>2 DEF Serialized
<1>4. <<Message(g_request)>> \o << >> = <<Message(g_request)>>
  OBVIOUS
<1> QED
  BY <1>3, <1>4

\* What is asked is read as it was written, and whole.
LEMMA AskedReadsBack ==
  LET read == Parsed(Blank, Serialized(Asked))
  IN read.value = Asked /\ read.result = TRUE /\ IsInitialized(read.value)
<1>1. Parsed(Blank, Serialized(Asked)) = ParsedField(Blank, Message(g_request))
  BY AskedBytes, ParsedOne
<1>2. ParsedField(Blank, Message(g_request))
        = [value |-> Asked, left |-> FALSE, result |-> TRUE]
  BY DEF ParsedField, Message, Asked
<1>3. IsInitialized(Asked)
  BY DEF IsInitialized, Asked, Assigned, Blank
<1> QED
  BY <1>1, <1>2, <1>3

\* Types of the constants' values.
LEMMA AskedTypes ==
  /\ Asked \in Value /\ Blank \in Value /\ Asked.text = g_request /\ Blank # Asked
  /\ Serialized(Asked) \in Seq(Field) /\ Request \in Contents /\ Response \in Contents
  /\ Echoed \in [value : Value, attachment : Text] /\ Echoed # NoAnswer
  /\ NoAnswer \in [value : Value, attachment : Text]
<1>1. g_request \in Text /\ g_attachment \in Text /\ Empty \in Text
  BY CallAssumption, WireAssumption
<1>2. << >> \in Seq(Foreign)
  OBVIOUS
<1>3. Blank \in Value
  BY <1>1, <1>2 DEF Value, Blank
<1>4. Asked \in Value /\ Blank \in Value /\ Asked.text = g_request /\ Blank # Asked
  <2>1. \A v \in Value, t \in Text : Assigned(v, t) \in Value
    BY DEF Value, Assigned
  <2>2. Asked.text = g_request /\ Asked.has = TRUE /\ Blank.has = FALSE
    BY DEF Asked, Assigned, Blank
  <2> QED
    BY <1>1, <1>3, <2>1, <2>2 DEF Asked
<1>5. Serialized(Asked) \in Seq(Field)
  <2>1. Message(g_request) \in Field
    BY <1>1 DEF Field
  <2> QED
    BY <2>1, AskedBytes
<1>6. Request \in Contents /\ Response \in Contents
  BY <1>1, <1>5 DEF Request, Response, Contents, Asked, Echoed
<1> QED
  BY <1>1, <1>4, <1>5, <1>6 DEF Echoed, NoAnswer

-----------------------------------------------------------------------------
(* The client by itself.                                                    *)

\* The channel goes only when main leaves, which it does when it has joined every
\* thread, has created none, or has given up.
ClientInv ==
  /\ ClientTypes
  /\ channel = "there" \/ main \in {"returned", "failed", "abandoned", "crashed", "gone"}
  /\ main \in {"setup", "failed"} => \A t \in Thread : pc[t] = "new"
  /\ main = "returned" => joined = Thread
  /\ \A t \in Thread : pc[t] = "calling" => calls[t] > 0

\* main begins before it has started a thread.
LEMMA ClientStarts == ClientInit => ClientInv
<1> SUFFICES ASSUME ClientInit PROVE ClientInv
  OBVIOUS
<1>1. 0 \in 0 .. MaxCalls
  BY EchoClientAssumption
<1>2. calls \in [Thread -> 0 .. MaxCalls] /\ pc \in [Thread -> {"new"}]
  BY <1>1 DEF ClientInit
<1>3. /\ main = "setup" /\ joined = {} /\ channel = "there"
      /\ recorded = 0 /\ errors = 0 /\ asked = FALSE
  BY DEF ClientInit
<1>4. ClientTypes
  BY <1>2, <1>3 DEF ClientTypes
<1> QED
  BY <1>2, <1>3, <1>4 DEF ClientInv

\* Starting, waiting for and joining the threads.
LEMMA MainKeepsClient == ClientInv /\ (Main \/ Ask) => ClientInv'
<1> SUFFICES ASSUME ClientInv, Main \/ Ask PROVE ClientInv'
  OBVIOUS
<1> USE DEF ClientInv, ClientTypes
<1>1. CASE Setup
  BY <1>1 DEF Setup
<1>2. CASE Create
  BY <1>2 DEF Create, Goto
<1>3. CASE StopWaiting
  BY <1>3 DEF StopWaiting
<1>4. CASE Join
  BY <1>4 DEF Join, Returns
<1>5. CASE Exit
  BY <1>5 DEF Exit
<1>6. CASE Ask
  BY <1>6 DEF Ask
<1> QED
  BY <1>1, <1>2, <1>3, <1>4, <1>5, <1>6 DEF Main

\* A turn of a sender.
LEMMA ThreadKeepsClient ==
  ASSUME ClientInv, NEW t \in Thread, Loop(t) \/ Succeed(t) \/ Fail(t) \/ Wake(t)
  PROVE  ClientInv'
<1> USE DEF ClientInv, ClientTypes, Goto, Alive
<1>1. CASE Loop(t)
  <2>1. channel' = channel
    BY <1>1 DEF Loop, StubDestroyed, owns_channel_
  <2> QED
    BY <1>1, <2>1, EchoClientAssumption DEF Loop
<1>2. CASE Succeed(t)
  BY <1>2 DEF Succeed
<1>3. CASE Fail(t)
  BY <1>3 DEF Fail
<1>4. CASE Wake(t)
  BY <1>4 DEF Wake
<1> QED
  BY <1>1, <1>2, <1>3, <1>4

\* The steps that leave the client alone.
ServerStep ==
  ServerStart \/ ServerStop \/ ServerJoin \/ Accept \/ \E h \in running : Handle(h)

\* What the server does leaves the client and its calls alone.
LEMMA ServerStepsApart == ServerStep => UNCHANGED <<clientVars, callVars>>
  BY DEF ServerStep, ServerStart, ServerStop, ServerJoin, ServerMain, Accept, Handle, Echo,
         Store, Done, HandlerOnly

\* Every step of the client and the server.
LEMMA StepKeepsClient == ClientInv /\ [Next]_vars => ClientInv'
<1> SUFFICES ASSUME ClientInv, [Next]_vars PROVE ClientInv'
  OBVIOUS
<1>1. CASE UNCHANGED clientVars
  BY <1>1 DEF clientVars, ClientInv, ClientTypes
<1>2. CASE Main \/ Ask
  BY <1>2, MainKeepsClient
<1>3. ASSUME NEW t \in Thread, ClientThread(t) PROVE ClientInv'
  BY <1>3, ThreadKeepsClient DEF ClientThread, Turn, Receive, GiveUp
<1>4. ASSUME NEW t \in Thread, UseDestroyed(t) PROVE ClientInv'
  BY <1>4 DEF UseDestroyed, ClientInv, ClientTypes
<1>5. ASSUME NEW t \in Thread, Retry(t) PROVE ClientInv'
  BY <1>5, <1>1 DEF Retry
<1>6. CASE ServerStep
  BY <1>6, <1>1, ServerStepsApart
<1> QED
  BY <1>1, <1>2, <1>3, <1>4, <1>5, <1>6 DEF Next, Client, ClientMain, ServerStep, vars

\* In a client of any number of threads no thread calls on a channel that is gone,
\* except when main has given up creating the others.
THEOREM ChannelOutlivesCalls == Spec => []ChannelThere
<1>1. Init => ClientInv
  BY ClientStarts DEF Init
<1>2. ClientInv => ChannelThere
  BY DEF ClientInv, ClientTypes, ChannelThere, Alive
<1> QED
  BY <1>1, <1>2, StepKeepsClient, PTL DEF Spec

-----------------------------------------------------------------------------
(* The whole call.                                                          *)

\* What can be on the wire, and what a handler can be.
Requests == [kind : {"request"}, of : Sending, contents : {Request}]
Responses == [kind : {"response"}, of : Sending, contents : {Response}]
Handler == [of : Sending, pc : {"echo", "store", "done"}, request : {Asked},
            attachment : {g_attachment}, response : {NoAnswer, Echoed}, loaded : Nat]

Made(c) == c.log_id < calls[c.thread]

WireInv ==
  /\ wire \subseteq Requests \cup Responses
  /\ \A w \in wire : Made(w.of.call) /\ (w.kind = "response" => w.of.call \in ran)

HandlersInv ==
  /\ running \subseteq Handler /\ ran \subseteq Call
  /\ \A h \in running : h.of.call \in ran /\ (h.pc = "echo" \/ h.response = Echoed)
  /\ \A c \in ran : Made(c)
  /\ server \in {"setup", "serving", "stopping", "returned", "failed"}

CallersInv ==
  /\ sends \in [Thread -> 0 .. max_retry + 1] /\ sent \in 0 .. MaxSends
  /\ answer \in [Thread -> {NoAnswer, Echoed}]

\* A number that is about to be stored, or is stored, follows one that was logged.
NumbersInv ==
  /\ NUMBER \in Nat /\ logged \subseteq Nat /\ NumbersWithoutGap
  /\ \A h \in running : h.pc = "store" => h.loaded = 0 \/ h.loaded - 1 \in logged

CallInv == ClientInv /\ WireInv /\ HandlersInv /\ CallersInv /\ NumbersInv

\* The calls the client has made only grow.
LEMMA CallsGrow ==
  ASSUME ClientInv, [Next]_vars, NEW c \in Call, Made(c)
  PROVE  Made(c)'
<1> USE DEF Made
<1>0. c.thread \in Thread /\ c.log_id \in Int /\ calls \in [Thread -> Nat]
  BY EchoClientAssumption DEF Call, ClientInv, ClientTypes
<1>1. CASE calls' = calls
  BY <1>1
<1>2. ASSUME NEW t \in Thread, Loop(t) PROVE Made(c)'
  BY <1>0, <1>2 DEF Loop
<1> QED
  BY <1>1, <1>2
  DEF Next, Client, ClientMain, ClientThread, Main, Setup, Create, StopWaiting, Join, Exit,
      Ask, Turn, Receive, Succeed, GiveUp, Fail, Wake, Retry, UseDestroyed, vars, clientVars,
      ServerStart, ServerStop, ServerJoin, ServerMain, Accept, Handle, Echo, Store, Done,
      HandlerOnly

\* No call is under way when the program starts.
LEMMA Starts == Init => CallInv
<1> SUFFICES ASSUME Init PROVE CallInv
  OBVIOUS
<1>1. ClientInv
  BY ClientStarts DEF Init
<1>2. WireInv /\ HandlersInv
  BY DEF Init, WireInv, HandlersInv
<1>3. CallersInv
  <2>1. 0 \in 0 .. max_retry + 1 /\ 0 \in 0 .. MaxSends
    BY CallAssumption
  <2> QED
    BY <2>1 DEF Init, CallersInv
<1>4. NumbersInv
  BY DEF Init, NumbersInv, NumbersWithoutGap
<1> QED
  BY <1>1, <1>2, <1>3, <1>4 DEF CallInv

\* A message of a call that has been made may be put on the wire.
LEMMA WireGrows ==
  ASSUME CallInv, ClientInv', [Next]_vars, ran \subseteq ran',
         NEW w \in Requests \cup Responses, Made(w.of.call)',
         w.kind = "response" => w.of.call \in ran',
         wire' \subseteq wire \cup {w}
  PROVE  WireInv'
<1>1. wire' \subseteq Requests \cup Responses
  BY DEF CallInv, WireInv
<1>2. ASSUME NEW v \in wire'
      PROVE  Made(v.of.call)' /\ (v.kind = "response" => v.of.call \in ran')
  <2>1. CASE v = w
    BY <2>1
  <2>2. CASE v \in wire
    <3>1. v.of.call \in Call
      BY <1>1 DEF Requests, Responses, Sending
    <3>2. Made(v.of.call) /\ (v.kind = "response" => v.of.call \in ran)
      BY <2>2 DEF CallInv, WireInv
    <3>3. Made(v.of.call)'
      BY <3>1, <3>2, CallsGrow DEF CallInv
    <3> QED
      BY <3>2, <3>3
  <2> QED
    BY <2>1, <2>2
<1> QED
  BY <1>1, <1>2 DEF WireInv, Made

\* A request of a call under way is one that may be put on the wire.
LEMMA SendingKeepsWire ==
  ASSUME CallInv, ClientInv', [Next]_vars, NEW t \in Thread, NEW n \in 1 .. max_retry + 1,
         CallMethod(t, n), pc'[t] = "calling", ran' = ran
  PROVE  WireInv'
<1>1. PICK k \in 1 .. MaxCalls : k = calls'[t]
  <2>1. calls'[t] \in 0 .. MaxCalls /\ calls'[t] > 0 /\ MaxCalls \in Nat
    BY EchoClientAssumption DEF ClientInv, ClientTypes
  <2> QED
    BY <2>1
<1> DEFINE c == [thread |-> t, log_id |-> k - 1]
           s == [call |-> c, try |-> n]
           w == [kind |-> "request", of |-> s, contents |-> Request]
<1>2. c \in Call /\ Made(c)'
  <2>1. MaxCalls \in Nat /\ k - 1 \in 0 .. MaxCalls - 1 /\ k - 1 < k
    BY EchoClientAssumption
  <2> QED
    BY <1>1, <2>1 DEF Call, Made
<1>3. w \in Requests
  BY <1>2 DEF Requests, Sending
<1>4. wire' = wire \cup {w}
  BY <1>1 DEF CallMethod, ThisCall
<1>5. w.of.call = c /\ w.kind = "request"
  OBVIOUS
<1> HIDE DEF w, c
<1> QED
  BY <1>2, <1>3, <1>4, <1>5, WireGrows

-----------------------------------------------------------------------------
(* Every step keeps the parts of CallInv beside the client's own.           *)

Beside == WireInv /\ HandlersInv /\ CallersInv /\ NumbersInv

\* What the wire, the handlers and the numbers are to a step that leaves them alone.
LEMMA Unmoved ==
  ASSUME CallInv, ClientInv', [Next]_vars
  PROVE  /\ UNCHANGED ran /\ wire' \subseteq wire => WireInv'
         /\ UNCHANGED serverVars => HandlersInv' /\ NumbersInv'
         /\ UNCHANGED <<running, ran, server>> => HandlersInv'
         /\ UNCHANGED <<running, NUMBER, logged>> => NumbersInv'
         /\ UNCHANGED callVars => CallersInv'
<1>1. \A c \in Call : Made(c) => Made(c)'
  BY CallsGrow DEF CallInv
<1>2. UNCHANGED ran /\ wire' \subseteq wire => WireInv'
  <2> SUFFICES ASSUME UNCHANGED ran, wire' \subseteq wire PROVE WireInv'
    OBVIOUS
  <2>1. \A w \in wire : w.of.call \in Call
    BY DEF CallInv, WireInv, Requests, Responses, Sending
  <2>2. \A w \in wire' : Made(w.of.call)'
    BY <1>1, <2>1 DEF CallInv, WireInv
  <2> QED
    BY <2>2 DEF CallInv, WireInv, Made
<1>3. UNCHANGED <<running, ran, server>> => HandlersInv'
  <2> SUFFICES ASSUME UNCHANGED <<running, ran, server>> PROVE HandlersInv'
    OBVIOUS
  <2>1. \A c \in ran' : Made(c)'
    BY <1>1 DEF CallInv, HandlersInv
  <2> QED
    BY <2>1 DEF CallInv, HandlersInv, Made
<1>4. UNCHANGED <<running, NUMBER, logged>> => NumbersInv'
  BY DEF CallInv, NumbersInv, NumbersWithoutGap
<1>5. UNCHANGED callVars => CallersInv'
  BY DEF CallInv, CallersInv, callVars
<1> QED
  BY <1>2, <1>3, <1>4, <1>5 DEF serverVars

\* A turn of a thread's loop.
LEMMA TurnKeeps ==
  ASSUME CallInv, ClientInv', [Next]_vars, NEW t \in Thread, Turn(t)
  PROVE  Beside'
<1>1. UNCHANGED serverVars
  BY DEF Turn
<1>2. HandlersInv' /\ NumbersInv'
  BY <1>1, Unmoved
<1>3. answer' \in [Thread -> {NoAnswer, Echoed}]
  BY DEF Turn, CallInv, CallersInv
<1>4. CASE pc'[t] = "calling"
  <2>1. CallMethod(t, 1) /\ 1 \in 1 .. max_retry + 1
    BY <1>4, CallAssumption DEF Turn
  <2>2. WireInv'
    BY <1>1, <1>4, <2>1, SendingKeepsWire DEF serverVars
  <2>3. sends' \in [Thread -> 0 .. max_retry + 1] /\ sent' \in 0 .. MaxSends
    BY <2>1, CallAssumption DEF CallMethod, CallInv, CallersInv
  <2> QED
    BY <1>2, <1>3, <2>2, <2>3 DEF CallersInv, Beside
<1>5. CASE pc'[t] # "calling"
  <2>1. UNCHANGED <<sends, sent, wire>>
    BY <1>5 DEF Turn
  <2>2. WireInv'
    BY <1>1, <2>1, Unmoved DEF serverVars
  <2> QED
    BY <1>2, <1>3, <2>1, <2>2 DEF CallInv, CallersInv, Beside
<1> QED
  BY <1>4, <1>5

\* An attempt that is lost is sent again as it was.
LEMMA RetryKeeps ==
  ASSUME CallInv, ClientInv', [Next]_vars, NEW t \in Thread, Retry(t)
  PROVE  Beside'
<1>1. UNCHANGED serverVars /\ UNCHANGED answer /\ pc'[t] = "calling"
  BY DEF Retry, clientVars
<1>2. sends[t] + 1 \in 1 .. max_retry + 1 /\ CallMethod(t, sends[t] + 1)
  BY CallAssumption DEF Retry, CallInv, CallersInv
<1>3. WireInv'
  BY <1>1, <1>2, SendingKeepsWire DEF serverVars
<1>4. sends' \in [Thread -> 0 .. max_retry + 1] /\ sent' \in 0 .. MaxSends
  BY <1>2, CallAssumption DEF CallMethod, CallInv, CallersInv
<1> QED
  BY <1>1, <1>3, <1>4, Unmoved DEF CallInv, CallersInv, Beside

\* The response that is received is the answer to what was asked.
LEMMA ReceiveKeeps ==
  ASSUME CallInv, ClientInv', [Next]_vars, NEW t \in Thread, Receive(t)
  PROVE  Beside'
<1>1. PICK w \in wire :
        /\ w.kind = "response"
        /\ answer' = [answer EXCEPT ![t] = [value |-> Parsed(Blank, w.contents.bytes).value,
                                            attachment |-> w.contents.attachment]]
        /\ wire' = wire \ {w} /\ Ended(t) /\ UNCHANGED <<sent, serverVars>>
  BY DEF Receive
<1>2. w.contents = Response
  BY <1>1 DEF CallInv, WireInv, Requests, Responses
<1>3. [value |-> Parsed(Blank, w.contents.bytes).value, attachment |-> w.contents.attachment]
        = Echoed
  BY <1>2, AskedReadsBack DEF Response, Echoed
<1>4. answer' \in [Thread -> {NoAnswer, Echoed}]
  BY <1>1, <1>3 DEF CallInv, CallersInv
<1>5. sends' \in [Thread -> 0 .. max_retry + 1] /\ sent' \in 0 .. MaxSends
  BY <1>1, CallAssumption DEF Ended, CallInv, CallersInv
<1>6. WireInv' /\ HandlersInv' /\ NumbersInv'
  BY <1>1, Unmoved DEF serverVars
<1> QED
  BY <1>4, <1>5, <1>6 DEF CallersInv, Beside

\* A call that has failed for good.
LEMMA GiveUpKeeps ==
  ASSUME CallInv, ClientInv', [Next]_vars, NEW t \in Thread, GiveUp(t)
  PROVE  Beside'
<1>1. UNCHANGED <<sent, answer, wire, serverVars>> /\ Ended(t)
  BY DEF GiveUp
<1>2. sends' \in [Thread -> 0 .. max_retry + 1]
  BY <1>1, CallAssumption DEF Ended, CallInv, CallersInv
<1> QED
  BY <1>1, <1>2, Unmoved DEF CallInv, CallersInv, Beside, serverVars

\* Main's steps and the signals do not touch the call.
LEMMA MainsKeep ==
  ASSUME CallInv, ClientInv', [Next]_vars,
         \/ UNCHANGED <<callVars, wire, serverVars>>
         \/ ServerStart \/ ServerStop \/ ServerJoin
  PROVE  Beside'
<1>1. CASE UNCHANGED <<callVars, wire, serverVars>>
  BY <1>1, Unmoved DEF serverVars, Beside
<1>2. CASE ServerStart \/ ServerStop \/ ServerJoin
  <2>1. UNCHANGED <<callVars, wire, running, ran, NUMBER, logged>>
    BY <1>2 DEF ServerStart, ServerStop, ServerJoin, ServerMain
  <2>2. WireInv' /\ CallersInv' /\ NumbersInv'
    BY <2>1, Unmoved
  <2>3. \A c \in ran' : Made(c)'
    BY <2>1, CallsGrow DEF CallInv, HandlersInv
  <2>4. server' \in {"setup", "serving", "stopping", "returned", "failed"}
    BY <1>2 DEF ServerStart, ServerStop, ServerJoin, ServerMain, CallInv, HandlersInv
  <2> QED
    BY <2>1, <2>2, <2>3, <2>4 DEF CallInv, HandlersInv, Beside, Made
<1> QED
  BY <1>1, <1>2

\* A handler that is begun has been asked what every call asks.
LEMMA AcceptKeeps ==
  ASSUME CallInv, ClientInv', [Next]_vars, Accept
  PROVE  Beside'
<1>1. PICK w \in wire :
        /\ server = "serving" /\ w.kind = "request"
        /\ running' = running \cup {[of |-> w.of, pc |-> "echo",
                                     request |-> Parsed(Blank, w.contents.bytes).value,
                                     attachment |-> w.contents.attachment,
                                     response |-> NoAnswer, loaded |-> 0]}
        /\ wire' = wire \ {w} /\ ran' = ran \cup {w.of.call}
        /\ UNCHANGED <<clientVars, callVars, server, NUMBER, logged>>
  BY DEF Accept
<1>2. w.of \in Sending /\ w.contents = Request /\ w.of.call \in Call
  BY <1>1 DEF CallInv, WireInv, Requests, Responses, Sending
<1>3. Parsed(Blank, w.contents.bytes).value = Asked /\ w.contents.attachment = g_attachment
  BY <1>2, AskedReadsBack DEF Request, Asked
<1> DEFINE h == [of |-> w.of, pc |-> "echo", request |-> Asked, attachment |-> g_attachment,
                 response |-> NoAnswer, loaded |-> 0]
<1>4. running' = running \cup {h} /\ h \in Handler
  BY <1>1, <1>2, <1>3 DEF Handler
<1>5. h.of.call \in ran' /\ h.pc = "echo"
  BY <1>1
<1>6. WireInv'
  <2>1. \A v \in wire : v.of.call \in Call
    BY DEF CallInv, WireInv, Requests, Responses, Sending
  <2> QED
    BY <1>1, <2>1, CallsGrow DEF CallInv, WireInv, Made
<1>7. HandlersInv'
  <2>1. \A c \in ran' : Made(c)'
    BY <1>1, <1>2, CallsGrow DEF CallInv, HandlersInv, WireInv
  <2> HIDE DEF h
  <2> QED
    BY <1>1, <1>2, <1>4, <1>5, <2>1 DEF CallInv, HandlersInv, Made
<1>8. NumbersInv'
  <2> HIDE DEF h
  <2> QED
    BY <1>1, <1>4, <1>5 DEF CallInv, NumbersInv, NumbersWithoutGap
<1>9. CallersInv'
  BY <1>1, Unmoved
<1> QED
  BY <1>6, <1>7, <1>8, <1>9 DEF Beside

\* What a handler's step makes of it.
LEMMA HandlerMoves ==
  ASSUME CallInv, ClientInv', [Next]_vars, NEW h \in running, NEW g \in Handler,
         Becomes(h, g), HandlerOnly, g.of = h.of, g.pc = "echo" \/ g.response = Echoed
  PROVE  WireInv' /\ HandlersInv' /\ CallersInv'
<1>1. UNCHANGED <<callVars, wire, server, ran>> /\ running' = (running \ {h}) \cup {g}
  BY DEF HandlerOnly, Becomes
<1>2. WireInv' /\ CallersInv'
  BY <1>1, Unmoved
<1>3. \A c \in ran' : Made(c)'
  BY <1>1, CallsGrow DEF CallInv, HandlersInv
<1>4. HandlersInv'
  BY <1>1, <1>3 DEF CallInv, HandlersInv, Made
<1> QED
  BY <1>2, <1>4

\* The handler: what it answers is what the call asked.
LEMMA EchoKeeps ==
  ASSUME CallInv, ClientInv', [Next]_vars, NEW h \in running, Echo(h)
  PROVE  Beside'
<1>1. /\ h \in Handler /\ h.request.text = g_request /\ h.attachment = g_attachment
      /\ NUMBER \in Nat
  BY AskedTypes DEF CallInv, HandlersInv, NumbersInv, Handler
<1>2. CASE echo_attachment
  <2> DEFINE g == [Filled(h, h.attachment) EXCEPT !.loaded = NUMBER, !.pc = "store"]
  <2>1. [value |-> Assigned(Blank, h.request.text), attachment |-> h.attachment] = Echoed
    BY <1>1, <1>2 DEF Echoed, Asked
  <2>2. g \in Handler /\ g.of = h.of /\ g.response = Echoed /\ g.loaded = NUMBER
    BY <1>1, <2>1 DEF Filled, Handler
  <2>3. Becomes(h, g) /\ HandlerOnly /\ UNCHANGED <<NUMBER, logged>>
    BY <1>2 DEF Echo
  <2> HIDE DEF g
  <2>4. WireInv' /\ HandlersInv' /\ CallersInv'
    BY <2>2, <2>3, HandlerMoves
  <2>5. NumbersInv'
    BY <2>2, <2>3 DEF CallInv, NumbersInv, NumbersWithoutGap, Becomes
  <2> QED
    BY <2>4, <2>5 DEF Beside
<1>3. CASE ~echo_attachment
  <2> DEFINE g == [Filled(h, Empty) EXCEPT !.pc = "done"]
  <2>1. [value |-> Assigned(Blank, h.request.text), attachment |-> Empty] = Echoed
    BY <1>1, <1>3 DEF Echoed, Asked
  <2>2. g \in Handler /\ g.of = h.of /\ g.response = Echoed /\ g.pc = "done"
    BY <1>1, <2>1 DEF Filled, Handler
  <2>3. Becomes(h, g) /\ HandlerOnly /\ UNCHANGED <<NUMBER, logged>>
    BY <1>3 DEF Echo
  <2> HIDE DEF g
  <2>4. WireInv' /\ HandlersInv' /\ CallersInv'
    BY <2>2, <2>3, HandlerMoves
  <2>5. NumbersInv'
    BY <2>2, <2>3 DEF CallInv, NumbersInv, NumbersWithoutGap, Becomes
  <2> QED
    BY <2>4, <2>5 DEF Beside
<1> QED
  BY <1>2, <1>3

\* The number that is stored follows one that was logged, and now is the one after
\* the number it logs.
LEMMA StoreKeeps ==
  ASSUME CallInv, ClientInv', [Next]_vars, NEW h \in running, Store(h)
  PROVE  Beside'
<1> DEFINE g == [h EXCEPT !.pc = "done"]
<1>1. h \in Handler /\ h.loaded \in Nat /\ h.pc = "store" /\ h.response = Echoed
  BY DEF CallInv, HandlersInv, Handler, Store
<1>2. g \in Handler /\ g.of = h.of /\ g.response = Echoed /\ g.pc = "done"
  BY <1>1 DEF Handler
<1>3. /\ Becomes(h, g) /\ HandlerOnly
      /\ NUMBER' = h.loaded + 1 /\ logged' = logged \cup {h.loaded}
  BY DEF Store
<1> HIDE DEF g
<1>4. WireInv' /\ HandlersInv' /\ CallersInv'
  BY <1>2, <1>3, HandlerMoves
<1>5. h.loaded = 0 \/ h.loaded - 1 \in logged
  BY <1>1 DEF CallInv, NumbersInv
<1>6. NumbersWithoutGap'
  <2>1. ASSUME NEW n \in logged', NEW k \in 0 .. n PROVE k \in logged'
    <3>1. CASE n \in logged
      BY <1>3, <3>1, <2>1 DEF CallInv, NumbersInv, NumbersWithoutGap
    <3>2. CASE n = h.loaded /\ k # n
      <4>1. h.loaded # 0 /\ k \in 0 .. h.loaded - 1
        BY <1>1, <3>2, <2>1
      <4> QED
        BY <1>3, <1>5, <4>1 DEF CallInv, NumbersInv, NumbersWithoutGap
    <3> QED
      BY <1>3, <3>1, <3>2
  <2>2. NUMBER' - 1 \in logged'
    BY <1>1, <1>3
  <2> QED
    BY <2>1, <2>2 DEF NumbersWithoutGap
<1>7. NumbersInv'
  <2>1. NUMBER' \in Nat
    BY <1>1, <1>3
  <2>2. logged' \subseteq Nat
    BY <1>1, <1>3 DEF CallInv, NumbersInv
  <2>3. \A i \in running' : i.pc = "store" => i.loaded = 0 \/ i.loaded - 1 \in logged'
    BY <1>2, <1>3 DEF CallInv, NumbersInv, Becomes
  <2> QED
    BY <1>6, <2>1, <2>2, <2>3 DEF NumbersInv
<1> QED
  BY <1>4, <1>7 DEF Beside

\* What a handler sends is the answer to what it was asked.
LEMMA DoneKeeps ==
  ASSUME CallInv, ClientInv', [Next]_vars, NEW h \in running, Done(h)
  PROVE  Beside'
<1>1. h.of \in Sending /\ h.response = Echoed /\ h.of.call \in ran /\ h.of.call \in Call
  BY DEF CallInv, HandlersInv, Handler, Sending, Done
<1> DEFINE w == [kind |-> "response", of |-> h.of, contents |-> Response]
<1>2. wire' = wire \cup {w}
  BY <1>1 DEF Done, Response, Echoed
<1>3. UNCHANGED <<callVars, server, ran, NUMBER, logged>> /\ running' = running \ {h}
  BY DEF Done
<1>4. Made(h.of.call)'
  BY <1>1, CallsGrow DEF CallInv, HandlersInv
<1>5. w \in Responses /\ w.of.call = h.of.call
  BY <1>1 DEF Responses
<1> HIDE DEF w
<1>6. WireInv'
  BY <1>1, <1>2, <1>3, <1>4, <1>5, WireGrows DEF Made
<1>7. \A c \in ran' : Made(c)'
  BY <1>3, CallsGrow DEF CallInv, HandlersInv
<1>8. HandlersInv'
  BY <1>3, <1>7 DEF CallInv, HandlersInv, Made
<1>9. NumbersInv' /\ CallersInv'
  BY <1>3, Unmoved DEF CallInv, NumbersInv, NumbersWithoutGap
<1> QED
  BY <1>6, <1>8, <1>9 DEF Beside

\* Every step of the whole program.
LEMMA StepKeeps == CallInv /\ [Next]_vars => CallInv'
<1> SUFFICES ASSUME CallInv, [Next]_vars PROVE CallInv'
  OBVIOUS
<1>1. ClientInv'
  BY StepKeepsClient DEF CallInv
<1>2. SUFFICES Beside'
  BY <1>1 DEF Beside, CallInv
<1>3. CASE UNCHANGED <<callVars, wire, serverVars>>
  BY <1>1, <1>3, MainsKeep
<1>4. ASSUME NEW t \in Thread, Turn(t) \/ Receive(t) \/ GiveUp(t) \/ Retry(t) PROVE Beside'
  BY <1>1, <1>4, TurnKeeps, ReceiveKeeps, GiveUpKeeps, RetryKeeps
<1>5. CASE ServerStart \/ ServerStop \/ ServerJoin
  BY <1>1, <1>5, MainsKeep
<1>6. CASE Accept
  BY <1>1, <1>6, AcceptKeeps
<1>7. ASSUME NEW h \in running, Handle(h) PROVE Beside'
  BY <1>1, <1>7, EchoKeeps, StoreKeeps, DoneKeeps DEF Handle
<1> QED
  BY <1>3, <1>4, <1>5, <1>6, <1>7
  DEF Next, Client, ClientMain, ClientThread, UseDestroyed, vars

-----------------------------------------------------------------------------
(* What follows.                                                            *)

\* The invariant holds in every state that is reached.
LEMMA CallAlways == Spec => []CallInv
  BY Starts, StepKeeps, PTL DEF Spec

\* Types of the whole system.
THEOREM CallTyped == Spec => []TypeOK
<1>1. CallInv => TypeOK
  <2> SUFFICES ASSUME CallInv PROVE TypeOK
    OBVIOUS
  <2>1. ClientTypes
    BY DEF CallInv, ClientInv
  <2>2. answer \in [Thread -> [value : Value, attachment : Text]]
    BY AskedTypes DEF CallInv, CallersInv
  <2>3. \A w \in wire : /\ w.of \in Sending /\ w.kind \in {"request", "response"}
                        /\ w.contents \in Contents
                        /\ w.of.call.log_id < calls[w.of.call.thread]
    BY AskedTypes DEF CallInv, WireInv, Requests, Responses, Made
  <2>4. \A h \in running : /\ h.of \in Sending /\ h.of.call \in ran
                           /\ h.pc \in {"echo", "store", "done"}
    BY DEF CallInv, HandlersInv, Handler
  <2> QED
    BY <2>1, <2>2, <2>3, <2>4 DEF TypeOK, CallInv, CallersInv, HandlersInv, NumbersInv
<1> QED
  BY <1>1, CallAlways, PTL

\* A call that does not fail brings back what was sent, through any number of
\* sendings, losses and late answers.
THEOREM EchoComesBack == Spec => []EchoedBack
<1>1. CallInv => EchoedBack
  BY DEF CallInv, CallersInv, EchoedBack, Echoed, Asked
<1> QED
  BY <1>1, CallAlways, PTL

\* The numbers the handlers log have no gap, whatever they lose of NUMBER.
THEOREM NumbersFollow == Spec => []NumbersWithoutGap
<1>1. CallInv => NumbersWithoutGap
  BY DEF CallInv, NumbersInv
<1> QED
  BY <1>1, CallAlways, PTL

-----------------------------------------------------------------------------
(* A success for every run.                                                 *)

\* The calls that have succeeded are some of those that were run, and a call under way
\* is none of them.
AnsweredInv ==
  /\ IsFiniteSet(ran)
  /\ \E A \in SUBSET ran :
       /\ Cardinality(A) = recorded
       /\ \A c \in A : pc[c.thread] = "calling" => c.log_id < calls[c.thread] - 1

\* Nothing has succeeded before anything has run.
LEMMA AnsweredStarts == Init => AnsweredInv
<1> SUFFICES ASSUME Init PROVE AnsweredInv
  OBVIOUS
<1>1. ran = {} /\ recorded = 0
  BY DEF Init, ClientInit
<1> QED
  BY <1>1, FS_EmptySet DEF AnsweredInv

\* A success is a call of its own.
LEMMA ReceiveAnswered ==
  ASSUME CallInv, AnsweredInv, NEW t \in Thread, Receive(t)
  PROVE  AnsweredInv'
<1> DEFINE x == ThisCall(t)
<1>1. PICK A \in SUBSET ran :
        /\ Cardinality(A) = recorded
        /\ \A c \in A : pc[c.thread] = "calling" => c.log_id < calls[c.thread] - 1
  BY DEF AnsweredInv
<1>2. /\ pc[t] = "calling" /\ pc' = [pc EXCEPT ![t] = "loop"] /\ recorded' = recorded + 1
      /\ calls' = calls /\ ran' = ran
  BY DEF Receive, Succeed, Goto, serverVars
<1>3. x \in ran
  BY DEF Receive, CallInv, WireInv
<1>4. calls[t] \in Nat /\ pc \in [Thread -> {"new", "loop", "calling", "sleep", "ended"}]
  BY EchoClientAssumption DEF CallInv, ClientInv, ClientTypes
<1>5. x.thread = t /\ x.log_id = calls[t] - 1
  BY DEF ThisCall
<1>6. x \notin A
  BY <1>1, <1>2, <1>4, <1>5
<1> HIDE DEF x
<1>7. IsFiniteSet(A) /\ IsFiniteSet(ran)
  BY FS_Subset DEF AnsweredInv
<1>8. Cardinality(A \cup {x}) = recorded'
  BY <1>1, <1>2, <1>6, <1>7, FS_AddElement
<1>9. \A c \in A \cup {x} : pc'[c.thread] = "calling" => c.log_id < calls'[c.thread] - 1
  <2> SUFFICES ASSUME NEW c \in A \cup {x}, pc'[c.thread] = "calling"
               PROVE  c.log_id < calls[c.thread] - 1
    BY <1>2
  <2>1. c.thread \in Thread
    BY <1>3 DEF CallInv, HandlersInv, Call
  <2>2. c.thread # t /\ pc[c.thread] = "calling"
    BY <1>2, <1>4, <2>1
  <2> QED
    BY <1>1, <1>5, <2>2
<1> QED
  BY <1>2, <1>3, <1>7, <1>8, <1>9 DEF AnsweredInv

\* A sender begins a call, which nothing has answered yet.
LEMMA TurnAnswered ==
  ASSUME CallInv, AnsweredInv, NEW t \in Thread, Turn(t)
  PROVE  AnsweredInv'
<1>1. PICK A \in SUBSET ran :
        /\ Cardinality(A) = recorded
        /\ \A c \in A : pc[c.thread] = "calling" => c.log_id < calls[c.thread] - 1
  BY DEF AnsweredInv
<1>2. recorded' = recorded /\ ran' = ran
  BY DEF Turn, Loop, serverVars
<1>3. /\ calls \in [Thread -> Nat]
      /\ pc \in [Thread -> {"new", "loop", "calling", "sleep", "ended"}]
  BY EchoClientAssumption DEF CallInv, ClientInv, ClientTypes
<1>4. ASSUME NEW c \in A, pc'[c.thread] = "calling"
      PROVE  c.log_id < calls'[c.thread] - 1
  <2>1. c \in Call /\ c.log_id < calls[c.thread] /\ c.thread \in Thread /\ c.log_id \in Int
    BY DEF CallInv, HandlersInv, Made, Call
  <2>2. CASE c.thread = t
    <3>1. calls'[t] = calls[t] + 1
      BY <1>3, <1>4, <2>2 DEF Turn, Loop, Goto
    <3> QED
      BY <1>3, <2>1, <2>2, <3>1
  <2>3. CASE c.thread # t
    <3>1. calls'[c.thread] = calls[c.thread] /\ pc'[c.thread] = pc[c.thread]
      BY <1>3, <2>1, <2>3 DEF Turn, Loop, Goto
    <3> QED
      BY <1>1, <1>4, <3>1
  <2> QED
    BY <2>2, <2>3
<1> QED
  BY <1>1, <1>2, <1>4 DEF AnsweredInv

\* A step that takes no call up, and none to its success.
LEMMA RestAnswered ==
  ASSUME CallInv, AnsweredInv, UNCHANGED <<calls, recorded, ran>>,
         \A t \in Thread : pc'[t] = "calling" => pc[t] = "calling"
  PROVE  AnsweredInv'
<1>1. \A c \in ran : c.thread \in Thread
  BY DEF CallInv, HandlersInv, Call
<1> QED
  BY <1>1 DEF AnsweredInv

\* The server takes a request off the wire.
LEMMA AcceptAnswered ==
  ASSUME CallInv, AnsweredInv, Accept
  PROVE  AnsweredInv'
<1>1. UNCHANGED <<pc, calls, recorded>> /\ \E c : ran' = ran \cup {c}
  BY DEF Accept, clientVars
<1>2. IsFiniteSet(ran') /\ ran \subseteq ran'
  BY <1>1, FS_AddElement DEF AnsweredInv
<1> QED
  BY <1>1, <1>2 DEF AnsweredInv

\* Every step keeps what was answered tied to a call that was made.
LEMMA StepAnswered == CallInv /\ AnsweredInv /\ [Next]_vars => AnsweredInv'
<1> SUFFICES ASSUME CallInv, AnsweredInv, [Next]_vars PROVE AnsweredInv'
  OBVIOUS
<1>0. pc \in [Thread -> {"new", "loop", "calling", "sleep", "ended"}]
  BY DEF CallInv, ClientInv, ClientTypes
<1>1. CASE UNCHANGED <<pc, calls, recorded, ran>>
  BY <1>1, RestAnswered
<1>2. CASE ClientMain
  BY <1>0, <1>2, RestAnswered
  DEF ClientMain, Main, Setup, Create, StopWaiting, Join, Exit, Goto, serverVars
<1>3. ASSUME NEW t \in Thread, GiveUp(t) \/ (Wake(t) /\ UNCHANGED serverVars)
      PROVE  AnsweredInv'
  BY <1>0, <1>3, RestAnswered DEF GiveUp, Fail, Wake, Goto, serverVars
<1>4. ASSUME NEW t \in Thread, Turn(t) \/ Receive(t) PROVE AnsweredInv'
  BY <1>4, TurnAnswered, ReceiveAnswered
<1>5. ASSUME NEW t \in Thread, Retry(t) \/ UseDestroyed(t) PROVE AnsweredInv'
  BY <1>1, <1>5 DEF Retry, UseDestroyed, clientVars, serverVars
<1>6. CASE Accept
  BY <1>6, AcceptAnswered
<1>7. CASE ServerStart \/ ServerStop \/ ServerJoin \/ \E h \in running : Handle(h)
  BY <1>1, <1>7
  DEF ServerStart, ServerStop, ServerJoin, ServerMain, Handle, Echo, Store, Done, HandlerOnly,
      clientVars
<1>8. CASE Ask /\ UNCHANGED serverVars
  BY <1>1, <1>8 DEF Ask, serverVars
<1> QED
  BY <1>1, <1>2, <1>3, <1>4, <1>5, <1>6, <1>7, <1>8
  DEF Next, Client, ClientThread, vars, clientVars, serverVars

\* No call is counted as a success that the server has not run.
THEOREM SuccessesWereRun == Spec => []AnsweredWasRun
<1>1. CallInv /\ AnsweredInv => AnsweredWasRun
  <2> SUFFICES ASSUME CallInv, AnsweredInv PROVE AnsweredWasRun
    OBVIOUS
  <2>1. recorded \in Nat
    BY DEF CallInv, ClientInv, ClientTypes
  <2> QED
    BY <2>1, FS_Subset, FS_CardinalityType DEF AnsweredInv, AnsweredWasRun
<1> QED
  BY <1>1, CallAlways, AnsweredStarts, StepAnswered, PTL DEF Spec

-----------------------------------------------------------------------------
(* The client's two counts.                                                 *)

\* The calls under way.
Calling == {t \in Thread : pc[t] = "calling"}

\* Each call made is under way or was counted once, unless the check in sender has
\* ended the process in the middle of a turn.
TallyInv ==
  main # "crashed" => recorded + errors + Cardinality(Calling) = Cardinality(CallsMade)

\* The sets that are counted are finite.
LEMMA TallyFinite ==
  ASSUME ClientTypes
  PROVE  /\ IsFiniteSet(Calling) /\ Cardinality(Calling) \in Nat
         /\ IsFiniteSet(CallsMade) /\ Cardinality(CallsMade) \in Nat
<1>1. Calling \in SUBSET Thread /\ CallsMade \in SUBSET (Thread \X (1 .. MaxCalls))
  BY DEF Calling, CallsMade
<1>2. 1 \in Int /\ MaxCalls \in Int
  BY EchoClientAssumption
<1>3. IsFiniteSet(1 .. MaxCalls)
  BY <1>2, FS_Interval
<1>4. IsFiniteSet(Thread \X (1 .. MaxCalls))
  BY <1>3, EchoClientAssumption, FS_Product
<1>5. IsFiniteSet(Calling) /\ IsFiniteSet(CallsMade)
  BY <1>1, <1>4, EchoClientAssumption, FS_Subset
<1> QED
  BY <1>5, FS_CardinalityType

\* At first nothing was called and nothing counted.
LEMMA TallyStarts == ClientInit => TallyInv
<1> SUFFICES ASSUME ClientInit PROVE TallyInv
  OBVIOUS
<1>1. Calling = {}
  BY DEF ClientInit, Calling
<1>2. CallsMade = {}
  <2>1. ASSUME NEW x \in Thread \X (1 .. MaxCalls) PROVE ~(x[2] <= calls[x[1]])
    BY <2>1, EchoClientAssumption DEF ClientInit
  <2> QED
    BY <2>1 DEF CallsMade
<1> QED
  BY <1>1, <1>2, FS_EmptySet DEF ClientInit, TallyInv

\* Steps that begin no call and end none count nothing.
LEMMA TallyKept ==
  ASSUME TallyInv, UNCHANGED <<calls, recorded, errors>>,
         \A t \in Thread : pc'[t] = "calling" <=> pc[t] = "calling",
         main = "crashed" => main' = "crashed"
  PROVE  TallyInv'
<1>1. Calling' = Calling /\ CallsMade' = CallsMade
  BY DEF Calling, CallsMade
<1> QED
  BY <1>1 DEF TallyInv

\* A call that begins is one more made and one more under way.
LEMMA LoopTallies ==
  ASSUME ClientInv, TallyInv, NEW t \in Thread, Loop(t)
  PROVE  TallyInv'
<1>1. ClientTypes
  BY DEF ClientInv
<1>2. UNCHANGED <<main, recorded, errors>> /\ pc[t] = "loop"
  BY DEF Loop
<1>3. CASE Goto(t, "ended") /\ UNCHANGED calls
  BY <1>1, <1>2, <1>3, TallyKept DEF Goto, ClientTypes
<1>4. CASE /\ calls[t] < MaxCalls
           /\ Goto(t, "calling") /\ calls' = [calls EXCEPT ![t] = @ + 1]
  <2>1. /\ calls[t] \in Nat /\ MaxCalls \in Nat /\ calls'[t] = calls[t] + 1
        /\ pc'[t] = "calling"
        /\ \A u \in Thread : u # t => calls'[u] = calls[u] /\ pc'[u] = pc[u]
        /\ \A u \in Thread : calls[u] \in Nat
    BY <1>1, <1>4, EchoClientAssumption DEF ClientTypes, Goto
  <2>2. Calling' = Calling \cup {t} /\ t \notin Calling
    BY <1>2, <2>1 DEF Calling
  <2>3. CallsMade' = CallsMade \cup {<<t, calls'[t]>>} /\ <<t, calls'[t]>> \notin CallsMade
    <3>1. <<t, calls'[t]>> \in Thread \X (1 .. MaxCalls)
      BY <1>4, <2>1
    <3>2. ASSUME NEW u \in Thread, NEW n \in 1 .. MaxCalls
          PROVE  <<u, n>> \in CallsMade'
                   <=> <<u, n>> \in CallsMade \/ (u = t /\ n = calls'[t])
      BY <2>1 DEF CallsMade
    <3>3. /\ CallsMade \subseteq Thread \X (1 .. MaxCalls)
          /\ CallsMade' \subseteq Thread \X (1 .. MaxCalls)
      BY DEF CallsMade
    <3>4. <<t, calls'[t]>> \notin CallsMade
      BY <2>1 DEF CallsMade
    <3> QED
      BY <3>1, <3>2, <3>3, <3>4
  <2>4. /\ Cardinality(Calling') = Cardinality(Calling) + 1
        /\ Cardinality(CallsMade') = Cardinality(CallsMade) + 1
    BY <1>1, <2>2, <2>3, TallyFinite, FS_AddElement
  <2>5. recorded \in Nat /\ errors \in Nat
    BY <1>1 DEF ClientTypes
  <2> QED
    BY <1>1, <1>2, <2>4, <2>5, TallyFinite DEF TallyInv
<1> QED
  BY <1>3, <1>4 DEF Loop

\* A call that ends is counted, as a latency or as an error.
LEMMA EndTallies ==
  ASSUME ClientInv, TallyInv, NEW t \in Thread, Succeed(t) \/ Fail(t)
  PROVE  TallyInv'
<1>1. ClientTypes
  BY DEF ClientInv
<1>2. CASE main' = "crashed"
  BY <1>2 DEF TallyInv
<1>3. CASE main' # "crashed"
  <2>1. PICK where \in {"loop", "sleep"} :
          /\ pc[t] = "calling" /\ pc' = [pc EXCEPT ![t] = where]
          /\ main' = main /\ calls' = calls
    BY <1>3 DEF Succeed, Fail, Goto
  <2>2. recorded' + errors' = recorded + errors + 1
    BY <1>1 DEF Succeed, Fail, ClientTypes
  <2>3. Calling' = Calling \ {t} /\ t \in Calling
    <3>1. pc'[t] = where /\ \A u \in Thread : u # t => pc'[u] = pc[u]
      BY <1>1, <2>1 DEF ClientTypes
    <3> QED
      BY <2>1, <3>1 DEF Calling
  <2>4. Cardinality(Calling') = Cardinality(Calling) - 1
    BY <1>1, <2>3, TallyFinite, FS_RemoveElement
  <2>5. CallsMade' = CallsMade
    BY <2>1 DEF CallsMade
  <2>6. recorded \in Nat /\ errors \in Nat
    BY <1>1 DEF ClientTypes
  <2> QED
    BY <1>1, <1>3, <2>1, <2>2, <2>4, <2>5, <2>6, TallyFinite DEF TallyInv
<1> QED
  BY <1>2, <1>3

\* Every step counts at most one more call, and at the place where it ends.
LEMMA StepTallies == ClientInv /\ TallyInv /\ [Next]_vars => TallyInv'
<1> SUFFICES ASSUME ClientInv, TallyInv, [Next]_vars PROVE TallyInv'
  OBVIOUS
<1>0. pc \in [Thread -> {"new", "loop", "calling", "sleep", "ended"}]
  BY DEF ClientInv, ClientTypes
<1>1. CASE UNCHANGED <<main, pc, calls, recorded, errors>>
  BY <1>1, TallyKept
<1>2. CASE Main \/ Ask
  <2>1. UNCHANGED <<calls, recorded, errors>>
    BY <1>2 DEF Main, Setup, Create, StopWaiting, Join, Exit, Ask
  <2>2. \A t \in Thread : pc'[t] = "calling" <=> pc[t] = "calling"
    BY <1>0, <1>2 DEF Main, Setup, Create, StopWaiting, Join, Exit, Ask, Goto
  <2>3. main # "crashed"
    BY <1>2 DEF Main, Setup, Create, StopWaiting, Join, Exit, Ask, Alive
  <2> QED
    BY <2>1, <2>2, <2>3, TallyKept
<1>3. ASSUME NEW t \in Thread, Loop(t) \/ Succeed(t) \/ Fail(t)
      PROVE  TallyInv'
  BY <1>3, LoopTallies, EndTallies
<1>4. ASSUME NEW t \in Thread, Wake(t) PROVE TallyInv'
  BY <1>0, <1>4, TallyKept DEF Wake, Goto
<1>5. ASSUME NEW t \in Thread, UseDestroyed(t) PROVE TallyInv'
  BY <1>5, TallyKept DEF UseDestroyed, Alive
<1>6. ASSUME NEW t \in Thread, Retry(t) PROVE TallyInv'
  BY <1>1, <1>6 DEF Retry, clientVars
<1>7. CASE ServerStep
  BY <1>1, <1>7, ServerStepsApart DEF clientVars
<1>8. ASSUME NEW t \in Thread, ClientThread(t) PROVE TallyInv'
  BY <1>3, <1>4, <1>8 DEF ClientThread, Turn, Receive, GiveUp
<1> QED
  BY <1>1, <1>2, <1>5, <1>6, <1>7, <1>8
  DEF Next, Client, ClientMain, ServerStep, vars, clientVars

\* When main returns, every call of every thread has been counted exactly once, as
\* a latency or as an error.
THEOREM EveryCallTallied == Spec => []Tally
<1>1. Init => ClientInv /\ TallyInv
  BY ClientStarts, TallyStarts DEF Init
<1>2. ASSUME ClientInv, TallyInv PROVE Tally
  <2>1. SUFFICES ASSUME main = "returned"
                 PROVE  recorded + errors = Cardinality(CallsMade)
    BY DEF Tally
  <2>2. Calling = {}
    BY <1>2, <2>1 DEF ClientInv, ClientTypes, Calling
  <2>3. recorded \in Nat /\ errors \in Nat
    BY <1>2 DEF ClientInv, ClientTypes
  <2> QED
    BY <1>2, <2>1, <2>2, <2>3, FS_EmptySet DEF TallyInv
<1> QED
  BY <1>1, <1>2, StepKeepsClient, StepTallies, PTL DEF Spec
=============================================================================
