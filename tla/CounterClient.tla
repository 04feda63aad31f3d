---------------------------- MODULE CounterClient ----------------------------
(***************************************************************************)
(* The load generator of BRAFT/example_counter/client.cpp: threads that    *)
(* each send one request after the other to whichever peer the process's   *)
(* route table names as leader.  The table is shared: every thread reads   *)
(* it before a request and overwrites it after a failed one.  The group is *)
(* reduced to who serves and to what a peer answers when it does not, the  *)
(* redirect of server.cpp.                                                 *)
(***************************************************************************)
EXTENDS Integers, FiniteSets

CONSTANTS Peer, Thread,
          Nobody,        \* no leader: an empty PeerId
          MaxElections,  \* bound: elections in a behaviour
          MaxLosses      \* bound: RPCs that fail although their target is up

ASSUME ClientAssumption ==
  /\ Nobody \notin Peer
  /\ MaxElections \in Nat /\ MaxLosses \in Nat

VARIABLES elected,    \* the raft leader, or Nobody
          serving,    \* whether its state machine has been told (on_leader_start)
          hint,       \* hint[p]: _node->leader_id() of peer p
          elections, losses,
          route,      \* the leader in the route table of FLAGS_group
          pc,         \* where each sender is
          target,     \* "leader" in sender: the peer the request goes to
          got,        \* response.redirect() of a request that was refused
          asked,      \* brpc::IsAskedToQuit()
          main,       \* where main is
          joined      \* the threads main has joined

groupVars == <<elected, serving, hint, elections>>
threadVars == <<pc, target, got>>
mainVars == <<asked, main, joined>>
vars == <<groupVars, losses, route, threadVars, mainVars>>

Anyone == Peer \cup {Nobody}
Location == {"new", "loop", "refresh", "connect", "calling", "refused",
             "failed", "served", "nap", "ended"}

\* Types; and a request is only ever sent to a peer, never to nobody.
TypeOK ==
  /\ elected \in Anyone /\ serving \in BOOLEAN /\ hint \in [Peer -> Anyone]
  /\ elections \in 0 .. MaxElections /\ losses \in 0 .. MaxLosses
  /\ route \in Anyone
  /\ pc \in [Thread -> Location]
  /\ target \in [Thread -> Anyone] /\ got \in [Thread -> Anyone]
  /\ \A t \in Thread : pc[t] \in {"connect", "calling"} => target[t] \in Peer
  /\ asked \in BOOLEAN /\ joined \subseteq Thread
  /\ main \in {"create", "wait", "join", "returned", "failed"}

Init ==
  /\ elected = Nobody /\ serving = FALSE
  /\ hint = [p \in Peer |-> Nobody]
  /\ elections = 0 /\ losses = 0
  /\ route = Nobody
  /\ pc = [t \in Thread |-> "new"]
  /\ target = [t \in Thread |-> Nobody] /\ got = [t \in Thread |-> Nobody]
  /\ asked = FALSE /\ main = "create" /\ joined = {}

-----------------------------------------------------------------------------
(* The group.                                                               *)

\* A new raft leader knows itself at once; until its first entry is applied it
\* does not serve, and redirects to itself.
Elect(p) ==
  /\ elections < MaxElections /\ elected = Nobody
  /\ elections' = elections + 1
  /\ elected' = p /\ serving' = FALSE
  /\ hint' = [hint EXCEPT ![p] = p]
  /\ UNCHANGED <<losses, route, threadVars, mainVars>>

Serve ==
  /\ elected # Nobody /\ ~serving
  /\ serving' = TRUE
  /\ UNCHANGED <<elected, hint, elections, losses, route, threadVars, mainVars>>

Depose ==
  /\ elections < MaxElections /\ elected # Nobody
  /\ hint' = [hint EXCEPT ![elected] = Nobody]
  /\ elected' = Nobody /\ serving' = FALSE
  /\ UNCHANGED <<elections, losses, route, threadVars, mainVars>>

Hear(p) ==
  /\ elected # Nobody /\ hint[p] # elected
  /\ hint' = [hint EXCEPT ![p] = elected]
  /\ UNCHANGED <<elected, serving, elections, losses, route, threadVars, mainVars>>

Serves(p) == p = elected /\ serving

\* One more RPC is lost, times out, or cannot be sent.
Lose == losses < MaxLosses /\ losses' = losses + 1

-----------------------------------------------------------------------------
(* sender.                                                                  *)

Goto(t, where) == pc' = [pc EXCEPT ![t] = where]

\* Mutant of Loop: a sender that knows no leader does not look at the signal.
LoopUntilRouted(t) ==
  /\ pc[t] \in {"loop", "served"}
  /\ \/ asked /\ route # Nobody /\ Goto(t, "ended") /\ UNCHANGED target
     \/ route = Nobody /\ Goto(t, "refresh") /\ UNCHANGED target
     \/ /\ ~asked /\ route # Nobody
        /\ Goto(t, "connect")
        /\ target' = [target EXCEPT ![t] = route]
  /\ UNCHANGED <<groupVars, losses, route, got, mainVars>>

\* Mutant of Loop: the result of select_leader is not looked at.
LoopUnrouted(t) ==
  /\ pc[t] \in {"loop", "served"}
  /\ IF asked THEN Goto(t, "ended") /\ UNCHANGED target
     ELSE Goto(t, "connect") /\ target' = [target EXCEPT ![t] = route]
  /\ UNCHANGED <<groupVars, losses, route, got, mainVars>>

\* The top of the loop: IsAskedToQuit, then select_leader.
Loop(t) ==
  /\ pc[t] \in {"loop", "served"}
  /\ \/ asked /\ Goto(t, "ended") /\ UNCHANGED target
     \/ ~asked /\ route = Nobody /\ Goto(t, "refresh") /\ UNCHANGED target
     \/ /\ ~asked /\ route # Nobody
        /\ Goto(t, "connect")
        /\ target' = [target EXCEPT ![t] = route]
  /\ UNCHANGED <<groupVars, losses, route, got, mainVars>>

\* refresh_leader asks the peers until one names a leader, rightly or not.
Refresh(t) ==
  /\ pc[t] = "refresh"
  /\ \/ \E p \in Peer : /\ hint[p] # Nobody
                        /\ route' = hint[p]
                        /\ Goto(t, "loop")
                        /\ UNCHANGED losses
     \/ /\ \A p \in Peer : hint[p] = Nobody
        /\ Goto(t, "nap") /\ UNCHANGED <<route, losses>>
     \/ Lose /\ Goto(t, "nap") /\ UNCHANGED route
  /\ UNCHANGED <<groupVars, target, got, mainVars>>

\* channel.Init; on failure the route table is left as it is.
Connect(t) ==
  /\ pc[t] = "connect"
  /\ \/ Goto(t, "calling") /\ UNCHANGED losses
     \/ Lose /\ Goto(t, "nap")
  /\ UNCHANGED <<groupVars, route, target, got, mainVars>>

\* stub.fetch_add or stub.get: the peer's answer as of when it is given.
Call(t) ==
  /\ pc[t] = "calling"
  /\ \/ Serves(target[t]) /\ Goto(t, "served") /\ UNCHANGED <<losses, got>>
     \/ /\ ~Serves(target[t])
        /\ Goto(t, "refused")
        /\ got' = [got EXCEPT ![t] = hint[target[t]]]
        /\ UNCHANGED losses
     \/ Lose /\ Goto(t, "failed") /\ UNCHANGED got
  /\ UNCHANGED <<groupVars, route, target, mainVars>>

\* cntl.Failed(): the leader is cleared, whoever it is by now.
ClearLeader(t) ==
  /\ pc[t] = "failed"
  /\ route' = Nobody
  /\ Goto(t, "nap")
  /\ UNCHANGED <<groupVars, losses, target, got, mainVars>>

\* Mutant of NewRoute: the redirect in the response is not used.
KeptRoute(redirect) == route

\* update_leader(FLAGS_group, response.redirect()): an empty string names no
\* peer, and leaves the table as it is.
NewRoute(redirect) == IF redirect = Nobody THEN route ELSE redirect

\* !response.success(): no pause before the next request.
FollowRedirect(t) ==
  /\ pc[t] = "refused"
  /\ route' = NewRoute(got[t])
  /\ Goto(t, "loop")
  /\ UNCHANGED <<groupVars, losses, target, got, mainVars>>

\* bthread_usleep(FLAGS_timeout_ms * 1000L)
Wake(t) ==
  /\ pc[t] = "nap"
  /\ Goto(t, "loop")
  /\ UNCHANGED <<groupVars, losses, route, target, got, mainVars>>

Sender(t) == \/ Loop(t) \/ Refresh(t) \/ Connect(t) \/ Call(t)
             \/ ClearLeader(t) \/ FollowRedirect(t) \/ Wake(t)

-----------------------------------------------------------------------------
(* main.                                                                    *)

\* pthread_create or bthread_start_background, one thread after the other; when
\* one cannot be created main returns, which ends those it has created.
Create ==
  /\ main = "create"
  /\ \/ /\ \E t \in Thread : pc[t] = "new" /\ Goto(t, "loop")
        /\ UNCHANGED main
     \/ /\ \A t \in Thread : pc[t] # "new"
        /\ main' = "wait" /\ UNCHANGED pc
     \/ /\ \E t \in Thread : pc[t] = "new"
        /\ main' = "failed"
        /\ pc' = [t \in Thread |-> "ended"]
  /\ UNCHANGED <<groupVars, losses, route, target, got, asked, joined>>

\* CTRL-C
Ask ==
  /\ ~asked /\ asked' = TRUE
  /\ UNCHANGED <<groupVars, losses, route, threadVars, main, joined>>

StopWaiting ==
  /\ main = "wait" /\ asked
  /\ main' = "join"
  /\ UNCHANGED <<groupVars, losses, route, threadVars, asked, joined>>

\* pthread_join, bthread_join.
Join ==
  /\ main = "join"
  /\ \/ /\ \E t \in Thread \ joined : pc[t] = "ended" /\ joined' = joined \cup {t}
        /\ UNCHANGED main
     \/ joined = Thread /\ main' = "returned" /\ UNCHANGED joined
  /\ UNCHANGED <<groupVars, losses, route, threadVars, asked>>

Next ==
  \/ \E p \in Peer : Elect(p) \/ Hear(p)
  \/ Serve \/ Depose
  \/ \E t \in Thread : Sender(t)
  \/ Create \/ Ask \/ StopWaiting \/ Join

\* The threads run; RPCs and sleeps end.
ThreadFairness ==
  /\ \A t \in Thread : WF_vars(Sender(t))
  /\ WF_vars(Create) /\ WF_vars(StopWaiting) /\ WF_vars(Join)

Spec == Init /\ [][Next]_vars
ThreadSpec == Spec /\ ThreadFairness

-----------------------------------------------------------------------------

\* A leader serves, and every peer knows it.
Settled == serving /\ \A p \in Peer : hint[p] = elected

\* Once the group has settled for good, every sender gets requests served again
\* and again: a stale route, a redirect that comes late, or another thread
\* clearing the table never leaves a thread turning in circles.
EveryThreadServed ==
  (<>[]Settled /\ []~asked /\ <>(main = "wait"))
    => \A t \in Thread : []<>(pc[t] = "served")

\* After CTRL-C main comes back, even from senders that look for a leader in a
\* group that never elects one again.
QuitReturns == asked ~> main \in {"returned", "failed"}
=============================================================================
