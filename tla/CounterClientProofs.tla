------------------------- MODULE CounterClientProofs -------------------------
(***************************************************************************)
(* The load generator of client.cpp, for any number of threads and peers.  *)
(***************************************************************************)
EXTENDS CounterClient, TLAPS

\* What a step of the group keeps.
LEMMA GroupTyped ==
  ASSUME TypeOK, (\E p \in Peer : Elect(p) \/ Hear(p)) \/ Serve \/ Depose
  PROVE  TypeOK'
<1>1. UNCHANGED <<losses, route, pc, target, got, asked, main, joined>>
  BY DEF Elect, Hear, Serve, Depose, threadVars, mainVars
<1>2. /\ elected' \in Anyone /\ serving' \in BOOLEAN /\ hint' \in [Peer -> Anyone]
      /\ elections' \in 0 .. MaxElections
  <2>1. ASSUME NEW p \in Peer, Elect(p) \/ Hear(p)
        PROVE  /\ elected' \in Anyone /\ hint' \in [Peer -> Anyone]
               /\ serving' \in BOOLEAN /\ elections' \in 0 .. MaxElections
    <3>1. elected' \in Anyone /\ hint' \in [Peer -> Anyone]
      BY <2>1 DEF TypeOK, Anyone, Elect, Hear
    <3>2. serving' \in BOOLEAN
      BY <2>1 DEF TypeOK, Elect, Hear
    <3>3. elections' \in 0 .. MaxElections
      BY <2>1, ClientAssumption DEF TypeOK, Elect, Hear
    <3> QED
      BY <3>1, <3>2, <3>3
  <2>2. ASSUME Serve \/ Depose
        PROVE  /\ elected' \in Anyone /\ hint' \in [Peer -> Anyone]
               /\ serving' \in BOOLEAN /\ elections' \in 0 .. MaxElections
    <3>1. elected' \in Anyone /\ hint' \in [Peer -> Anyone]
      BY <2>2 DEF TypeOK, Anyone, Serve, Depose
    <3>2. serving' \in BOOLEAN /\ elections' = elections
      BY <2>2 DEF TypeOK, Serve, Depose
    <3> QED
      BY <3>1, <3>2 DEF TypeOK
  <2> QED
    BY <2>1, <2>2
<1> QED
  BY <1>1, <1>2 DEF TypeOK

\* What a sender at t keeps: where it goes, whom it calls, what it was told.
LEMMA SenderTyped ==
  ASSUME TypeOK, NEW t \in Thread, Sender(t)
  PROVE  TypeOK'
<1>1. UNCHANGED <<elected, serving, hint, elections, asked, main, joined>>
  BY DEF Sender, Loop, Refresh, Connect, Call, ClearLeader, FollowRedirect, Wake, groupVars,
         mainVars
<1>2. /\ losses' \in 0 .. MaxLosses /\ route' \in Anyone
      /\ target' \in [Thread -> Anyone] /\ got' \in [Thread -> Anyone]
  BY ClientAssumption
  DEF TypeOK, Anyone, Lose, NewRoute, Sender, Loop, Refresh, Connect, Call, ClearLeader,
      FollowRedirect, Wake
<1>3. /\ pc' \in [Thread -> Location]
      /\ \A u \in Thread : u # t => pc'[u] = pc[u] /\ target'[u] = target[u]
  BY DEF TypeOK, Location, Goto, Sender, Loop, Refresh, Connect, Call, ClearLeader,
         FollowRedirect, Wake
<1>4. pc'[t] \in {"connect", "calling"} => target'[t] \in Peer
  BY DEF TypeOK, Anyone, Goto, Sender, Loop, Refresh, Connect, Call, ClearLeader,
         FollowRedirect, Wake
<1> QED
  BY <1>1, <1>2, <1>3, <1>4 DEF TypeOK

\* What main keeps: it moves threads only to where they send to nobody.
LEMMA MainTyped ==
  ASSUME TypeOK, Create \/ Ask \/ StopWaiting \/ Join
  PROVE  TypeOK'
<1>1. UNCHANGED <<elected, serving, hint, elections, losses, route, target, got>>
  BY DEF Create, Ask, StopWaiting, Join, groupVars, threadVars
<1>2. /\ asked' \in BOOLEAN /\ joined' \subseteq Thread
      /\ main' \in {"create", "wait", "join", "returned", "failed"}
  BY DEF TypeOK, Create, Ask, StopWaiting, Join
<1>3. /\ pc' \in [Thread -> Location]
      /\ \A u \in Thread : pc'[u] \in {"connect", "calling"} => pc'[u] = pc[u]
  BY DEF TypeOK, Location, Goto, Create, Ask, StopWaiting, Join, threadVars
<1> QED
  BY <1>1, <1>2, <1>3 DEF TypeOK

\* Every variable of the client keeps its type, and a request only ever goes to a
\* peer, never to nobody: select_leader's result is looked at, whatever other threads
\* make of the table meanwhile.
THEOREM ClientTyped == Spec => []TypeOK
<1>1. Init => TypeOK
  <2> SUFFICES ASSUME Init PROVE TypeOK
    OBVIOUS
  <2>1. elections \in 0 .. MaxElections /\ losses \in 0 .. MaxLosses
    BY ClientAssumption DEF Init
  <2>2. elected \in Anyone /\ hint \in [Peer -> Anyone] /\ route \in Anyone
    BY DEF Init, Anyone
  <2>3. pc \in [Thread -> Location] /\ \A t \in Thread : pc[t] = "new"
    BY DEF Init, Location
  <2>4. target \in [Thread -> Anyone] /\ got \in [Thread -> Anyone]
    BY DEF Init, Anyone
  <2>5. /\ serving \in BOOLEAN /\ asked \in BOOLEAN /\ joined \subseteq Thread
        /\ main \in {"create", "wait", "join", "returned", "failed"}
    BY DEF Init
  <2> QED
    BY <2>1, <2>2, <2>3, <2>4, <2>5 DEF TypeOK
<1>2. TypeOK /\ [Next]_vars => TypeOK'
  <2> SUFFICES ASSUME TypeOK, [Next]_vars PROVE TypeOK'
    OBVIOUS
  <2>1. CASE UNCHANGED vars
    BY <2>1 DEF vars, groupVars, threadVars, mainVars, TypeOK
  <2> QED
    BY <2>1, GroupTyped, SenderTyped, MainTyped DEF Next
<1> QED
  BY <1>1, <1>2, PTL DEF Spec
=============================================================================
