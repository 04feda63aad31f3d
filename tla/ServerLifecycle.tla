--------------------------- MODULE ServerLifecycle ---------------------------
(***************************************************************************)
(* One process of BRAFT/example_counter/server.cpp, from main's first line  *)
(* to its last: the RPC server, the state machine (counter) and the raft    *)
(* node it owns come up in one order and go down in another, while RPC      *)
(* handlers, raft callbacks and closures run on threads of their own.  What *)
(* the state machine computes is CounterServer's; here a request is only    *)
(* somewhere between its arrival and its answer.                            *)
(***************************************************************************)
EXTENDS Integers, FiniteSets

CONSTANTS Call,           \* the RPCs of a behaviour
          MaxLeaderships  \* bound: times this node becomes leader

ASSUME LifecycleAssumption == MaxLeaderships \in Nat

VARIABLES main,        \* where main is
          server,      \* brpc::Server: "idle", "running", "stopping", "joined"
          node,        \* the raft node: "none", "up", "stopping", "down"
          published,   \* whether Counter::_node points to it
          leads,       \* _leader_term > 0
          leaderships,
          call,        \* where each RPC is
          asked        \* brpc::IsAskedToQuit()

vars == <<main, server, node, published, leads, leaderships, call, asked>>

MainLocation == {"add", "listen", "start", "publish", "run", "stop", "join",
                 "close", "returned", "unwind", "died"}

\* "entered": in the handler.  "passed": fetch_add has read a term.  "queued":
\* its closure is with the node.  "closing": a bthread is about to Run it.
CallLocation == {"none", "entered", "passed", "queued", "closing", "answered"}

TypeOK ==
  /\ main \in MainLocation
  /\ server \in {"idle", "running", "stopping", "joined"}
  /\ node \in {"none", "up", "stopping", "down"}
  /\ published \in BOOLEAN /\ leads \in BOOLEAN /\ asked \in BOOLEAN
  /\ leaderships \in 0 .. MaxLeaderships
  /\ call \in [Call -> CallLocation]

Init ==
  /\ main = "add" /\ server = "idle" /\ node = "none"
  /\ published = FALSE /\ leads = FALSE /\ leaderships = 0
  /\ call = [c \in Call |-> "none"]
  /\ asked = FALSE

Running == main \notin {"died", "returned"}
Move(c, where) == call' = [call EXCEPT ![c] = where]

-----------------------------------------------------------------------------
(* main.                                                                    *)

Quiet == <<published, leads, leaderships, call, asked>>

\* AddService and braft::add_service; no thread runs yet when they fail.
AddServices ==
  /\ main = "add"
  /\ main' \in {"listen", "returned"}
  /\ UNCHANGED <<server, node, Quiet>>

\* server.Start: RPCs are served from here on.
Listen ==
  /\ main = "listen"
  /\ \/ main' = "start" /\ server' = "running"
     \/ main' = "returned" /\ UNCHANGED server
  /\ UNCHANGED <<node, Quiet>>

\* Mutant of StartCounter: _node is set before init, which may fail.
StartPublished ==
  /\ main = "start"
  /\ \/ main' = "publish" /\ node' = "up"
     \/ main' = "unwind" /\ UNCHANGED node
  /\ published' = TRUE
  /\ UNCHANGED <<server, leads, leaderships, call, asked>>

\* Counter::start up to node->init, which starts the node's threads.  When it
\* fails main returns: service and counter are destroyed, the server last.
StartCounter ==
  /\ main = "start"
  /\ \/ main' = "publish" /\ node' = "up"
     \/ main' = "unwind" /\ UNCHANGED node
  /\ UNCHANGED <<server, Quiet>>

\* _node = node
Publish ==
  /\ main = "publish"
  /\ published' = TRUE /\ main' = "run"
  /\ UNCHANGED <<server, node, leads, leaderships, call, asked>>

\* Mutant of ShutDown: the server is stopped, the counter is not.
StopServerOnly ==
  /\ main = "run" /\ asked
  /\ main' = "stop"
  /\ UNCHANGED <<server, node, Quiet>>

\* counter.shutdown, a request to the node that does not wait.
ShutDown ==
  /\ main = "run" /\ asked
  /\ main' = "stop"
  /\ node' = IF published THEN "stopping" ELSE node
  /\ UNCHANGED <<server, Quiet>>

\* server.Stop(0), in main or in ~Server: what arrives from here on is refused.
StopServer ==
  /\ \/ main = "stop" /\ main' = "join"
     \/ main = "unwind" /\ server = "running" /\ UNCHANGED main
  /\ server' = "stopping"
  /\ UNCHANGED <<node, Quiet>>

\* counter.join: blocks until the node is down.
JoinCounter ==
  /\ main = "join" /\ node \in {"none", "down"}
  /\ main' = "close"
  /\ UNCHANGED <<server, node, Quiet>>

InFlight == {c \in Call : call[c] \notin {"none", "answered"}}

\* Mutant of JoinServer: main does not wait for the RPCs being processed.
LeaveServer ==
  /\ main \in {"close", "unwind"} /\ server = "stopping"
  /\ main' = "returned" /\ server' = "joined"
  /\ UNCHANGED <<node, Quiet>>

\* server.Join: blocks until every RPC being processed is answered.  On the way
\* out of a failed start, ~Server joins, after ~Counter: the memory of counter
\* is not reused until main is left.
JoinServer ==
  /\ main \in {"close", "unwind"} /\ server = "stopping" /\ InFlight = {}
  /\ main' = "returned" /\ server' = "joined"
  /\ UNCHANGED <<node, Quiet>>

Main == \/ AddServices \/ Listen \/ StartCounter \/ Publish
        \/ ShutDown \/ StopServer \/ JoinCounter \/ JoinServer

\* CTRL-C
Ask ==
  /\ Running /\ ~asked /\ asked' = TRUE
  /\ UNCHANGED <<main, server, node, published, leads, leaderships, call>>

-----------------------------------------------------------------------------
(* The handlers of the service.                                             *)

Arrive(c) ==
  /\ Running /\ server = "running" /\ call[c] = "none"
  /\ Move(c, "entered")
  /\ UNCHANGED <<main, server, node, published, leads, leaderships, asked>>

\* fetch_add loads the term; without one it redirects, and redirect asks the
\* node only when there is one.  get is that branch, or its answer.
LoadTerm(c) ==
  /\ Running /\ call[c] = "entered"
  /\ \/ leads /\ Move(c, "passed")
     \/ Move(c, "answered")
  /\ UNCHANGED <<main, server, node, published, leads, leaderships, asked>>

\* _node->apply, through a pointer that is NULL until Publish.  A node that is
\* going down runs the closure with an error.
Apply(c) ==
  /\ Running /\ call[c] = "passed"
  /\ IF published
     THEN /\ Move(c, IF node = "up" THEN "queued" ELSE "closing")
          /\ UNCHANGED main
     ELSE /\ main' = "died" /\ UNCHANGED call
  /\ UNCHANGED <<server, node, published, leads, leaderships, asked>>

\* FetchAddClosure::Run, in a bthread of its own: redirect when the status is
\* an error, then the RPC is answered.
Run(c) ==
  /\ Running /\ call[c] = "closing"
  /\ Move(c, "answered")
  /\ UNCHANGED <<main, server, node, published, leads, leaderships, asked>>

-----------------------------------------------------------------------------
(* The node's callbacks.                                                    *)

\* on_leader_start; a group of one elects itself inside node->init.
LeaderStart ==
  /\ Running /\ node = "up" /\ ~leads /\ leaderships < MaxLeaderships
  /\ leads' = TRUE /\ leaderships' = leaderships + 1
  /\ UNCHANGED <<main, server, node, published, call, asked>>

LeaderStop ==
  /\ Running /\ leads /\ node \in {"up", "stopping"}
  /\ leads' = FALSE
  /\ UNCHANGED <<main, server, node, published, leaderships, call, asked>>

\* on_apply with a closure, which is handed to a bthread.
Committed(c) ==
  /\ Running /\ node = "up" /\ call[c] = "queued"
  /\ Move(c, "closing")
  /\ UNCHANGED <<main, server, node, published, leads, leaderships, asked>>

\* The closure of a task that will not be applied: the node has lost its
\* leadership, or is going down.
Failed(c) ==
  /\ Running /\ call[c] = "queued"
  /\ node = "stopping" \/ ~leads
  /\ Move(c, "closing")
  /\ UNCHANGED <<main, server, node, published, leads, leaderships, asked>>

\* Nothing is left in the node's queues; it makes no callback after this.
NodeDown ==
  /\ Running /\ node = "stopping" /\ ~leads
  /\ \A c \in Call : call[c] # "queued"
  /\ node' = "down"
  /\ UNCHANGED <<main, server, published, leads, leaderships, call, asked>>

Next ==
  \/ Main \/ Ask
  \/ \E c \in Call : \/ Arrive(c) \/ LoadTerm(c) \/ Apply(c) \/ Run(c)
                     \/ Committed(c) \/ Failed(c)
  \/ LeaderStart \/ LeaderStop \/ NodeDown

\* main, handlers and bthreads run; a node told to go down fails what it has
\* and goes down.  Nothing makes an entry commit.
Fairness ==
  /\ WF_vars(Main)
  /\ \A c \in Call : WF_vars(LoadTerm(c)) /\ WF_vars(Apply(c)) /\ WF_vars(Run(c))
  /\ \A c \in Call : WF_vars(node = "stopping" /\ Failed(c))
  /\ WF_vars(node = "stopping" /\ LeaderStop) /\ WF_vars(NodeDown)

Spec == Init /\ [][Next]_vars
FairSpec == Spec /\ Fairness

-----------------------------------------------------------------------------

\* What the handlers and callbacks rest on at every step of main: _node points to
\* an initialised node or to nothing, only that node holds closures, and what
\* main has stopped and joined stays so.
PhasesInv ==
  /\ TypeOK
  /\ published => node # "none"
  /\ node = "none" => ~leads /\ \A c \in Call : call[c] \notin {"passed", "queued", "closing"}
  /\ node = "down" => ~leads /\ \A c \in Call : call[c] # "queued"
  /\ main \in {"add", "listen"} => server = "idle" /\ InFlight = {}
  /\ main \in {"add", "listen", "start", "unwind"} => node = "none"
  /\ main = "close" => server = "stopping" /\ node \in {"none", "down"}
  /\ main = "publish" => node # "none"
  /\ main \in {"run", "stop", "join"} => published
  /\ main = "join" => server = "stopping"

\* "Wait until all the processing tasks are over": when main returns, and with
\* it counter and service cease to exist, no handler, no closure and no
\* callback can still use them.
QuietAtReturn ==
  main = "returned" => InFlight = {} /\ server # "running"
                       /\ node \in {"none", "down"} /\ ~leads

\* A node is joined before the server only because a shut-down node fails the
\* closures it holds: main comes back after CTRL-C even when no entry ever
\* commits again.
QuitReturns == asked ~> main \in {"returned", "died"}

\* "It's ok to start Counter" with the server already running: no handler goes
\* through _node before it is set.
NodeThereWhenApplied == main # "died"
=============================================================================
