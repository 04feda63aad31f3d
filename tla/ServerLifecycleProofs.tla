------------------------ MODULE ServerLifecycleProofs ------------------------
(***************************************************************************)
(* That server.cpp's main comes up and goes down in a safe order, for any   *)
(* number of RPCs and leaderships: PhasesInv is inductive, and QuietAtReturn *)
(* is once it is known.                                                     *)
(***************************************************************************)
EXTENDS ServerLifecycle, TLAPS

\* The process starts with nothing up.
LEMMA InitPhases == Init => PhasesInv
<1> SUFFICES ASSUME Init PROVE PhasesInv
  OBVIOUS
<1> USE DEF Init
<1>1. TypeOK
  <2>1. leaderships \in 0 .. MaxLeaderships
    BY LifecycleAssumption
  <2> QED
    BY <2>1 DEF TypeOK, MainLocation, CallLocation
<1>2. InFlight = {}
  BY DEF InFlight
<1> QED
  BY <1>1, <1>2 DEF PhasesInv

\* Every step of main keeps the phases.
LEMMA MainPhases == PhasesInv /\ Main => PhasesInv'
<1> SUFFICES ASSUME PhasesInv, Main PROVE PhasesInv'
  OBVIOUS
<1> USE DEF PhasesInv, TypeOK, MainLocation, CallLocation, InFlight, Quiet
<1>1. CASE AddServices
  BY <1>1 DEF AddServices
<1>2. CASE Listen
  BY <1>2 DEF Listen
<1>3. CASE StartCounter
  BY <1>3 DEF StartCounter
<1>4. CASE Publish
  BY <1>4 DEF Publish
<1>5. CASE ShutDown
  BY <1>5 DEF ShutDown
<1>6. CASE StopServer
  BY <1>6 DEF StopServer
<1>7. CASE JoinCounter
  BY <1>7 DEF JoinCounter
<1>8. CASE JoinServer
  BY <1>8 DEF JoinServer
<1> QED
  BY <1>1, <1>2, <1>3, <1>4, <1>5, <1>6, <1>7, <1>8 DEF Main

\* Every step of an RPC, handler or closure, keeps the phases.
LEMMA CallPhases ==
  ASSUME PhasesInv, NEW c \in Call,
         Arrive(c) \/ LoadTerm(c) \/ Apply(c) \/ Run(c) \/ Committed(c) \/ Failed(c)
  PROVE  PhasesInv'
<1> USE DEF PhasesInv, TypeOK, MainLocation, CallLocation, InFlight, Move
<1>1. CASE Arrive(c)
  BY <1>1 DEF Arrive
<1>2. CASE LoadTerm(c)
  BY <1>2 DEF LoadTerm
<1>3. CASE Apply(c)
  BY <1>3 DEF Apply
<1>4. CASE Run(c)
  BY <1>4 DEF Run
<1>5. CASE Committed(c)
  BY <1>5 DEF Committed
<1>6. CASE Failed(c)
  BY <1>6 DEF Failed
<1> QED
  BY <1>1, <1>2, <1>3, <1>4, <1>5, <1>6

\* Every callback of the node, and the signal, keep the phases.
LEMMA NodePhases ==
  ASSUME PhasesInv, LeaderStart \/ LeaderStop \/ NodeDown \/ Ask
  PROVE  PhasesInv'
<1> USE DEF PhasesInv, TypeOK, MainLocation, CallLocation, InFlight
<1>1. CASE LeaderStart
  BY <1>1, LifecycleAssumption DEF LeaderStart
<1>2. CASE LeaderStop
  BY <1>2 DEF LeaderStop
<1>3. CASE NodeDown
  BY <1>3 DEF NodeDown
<1>4. CASE Ask
  BY <1>4 DEF Ask
<1> QED
  BY <1>1, <1>2, <1>3, <1>4

\* What handlers and callbacks rest on at every step of server.cpp's main.
THEOREM PhasesHold == Spec => []PhasesInv
<1>1. PhasesInv /\ [Next]_vars => PhasesInv'
  <2> SUFFICES ASSUME PhasesInv, [Next]_vars PROVE PhasesInv'
    OBVIOUS
  <2>1. CASE Main
    BY <2>1, MainPhases
  <2>2. CASE \E c \in Call : \/ Arrive(c) \/ LoadTerm(c) \/ Apply(c) \/ Run(c)
                             \/ Committed(c) \/ Failed(c)
    BY <2>2, CallPhases
  <2>3. CASE LeaderStart \/ LeaderStop \/ NodeDown \/ Ask
    BY <2>3, NodePhases
  <2>4. CASE UNCHANGED vars
    BY <2>4 DEF vars, PhasesInv, TypeOK, InFlight
  <2> QED
    BY <2>1, <2>2, <2>3, <2>4 DEF Next
<1> QED
  BY InitPhases, <1>1, PTL DEF Spec

\* When main has returned no step of any thread is left, so what held when
\* server.Join came back holds from then on.
THEOREM ReturnsQuiet == Spec => []QuietAtReturn
<1>1. Init => QuietAtReturn
  BY DEF Init, QuietAtReturn
<1>2. PhasesInv /\ QuietAtReturn /\ [Next]_vars => QuietAtReturn'
  <2> SUFFICES ASSUME PhasesInv, QuietAtReturn, [Next]_vars, main' = "returned"
               PROVE  /\ InFlight' = {} /\ server' # "running"
                      /\ node' \in {"none", "down"} /\ ~leads'
    BY DEF QuietAtReturn
  <2> USE DEF InFlight
  <2>1. CASE AddServices \/ Listen
    BY <2>1 DEF AddServices, Listen, Quiet, PhasesInv
  <2>2. CASE JoinServer
    BY <2>2 DEF JoinServer, Quiet, PhasesInv
  <2>3. CASE StartCounter \/ Publish \/ ShutDown \/ StopServer \/ JoinCounter
    BY <2>3 DEF StartCounter, Publish, ShutDown, StopServer, JoinCounter
  <2>4. CASE \E c \in Call : \/ Arrive(c) \/ LoadTerm(c) \/ Apply(c) \/ Run(c)
                             \/ Committed(c) \/ Failed(c)
    BY <2>4 DEF Arrive, LoadTerm, Apply, Run, Committed, Failed, Running
  <2>5. CASE LeaderStart \/ LeaderStop \/ NodeDown \/ Ask
    BY <2>5 DEF LeaderStart, LeaderStop, NodeDown, Ask, Running
  <2>6. CASE UNCHANGED vars
    BY <2>6 DEF vars, QuietAtReturn
  <2> QED
    BY <2>1, <2>2, <2>3, <2>4, <2>5, <2>6 DEF Next, Main
<1> QED
  BY PhasesHold, <1>1, <1>2, PTL DEF Spec
=============================================================================
