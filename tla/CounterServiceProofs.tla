------------------------- MODULE CounterServiceProofs -------------------------
(***************************************************************************)
(* What the group promises its callers, for any number of peers, requests, *)
(* terms and any width of _value: a leader never loads a snapshot, a read  *)
(* reflects what was acknowledged before it in its term, and the peers     *)
(* together implement FetchAddService.  On top of the invariant of         *)
(* CounterServerProofs come three layers: what one peer's queue holds      *)
(* (PeersRight), who owns a term (TermsRight), and which calls still have  *)
(* their closure (ClosuresHeld).                                           *)
(***************************************************************************)
EXTENDS CounterServerProofs, CounterRefinement

-----------------------------------------------------------------------------
(* The fourth layer: one peer at a time.                                    *)

\* What s has applied, queued, saved or installed is within what it knows to
\* be committed, and the closures of its batch have left its closure queue.
OwnBounds(s) ==
  /\ batchEnd[s] <= commitIndex[s]
  /\ snapshot[s].index <= commitIndex[s]
  /\ saving[s].index <= commitIndex[s]
  /\ \A m \in 1 .. Len(queue[s]) : queue[s][m].index <= commitIndex[s]
  /\ leads[s] # 0 => batchEnd[s] < firstPending[s]

\* Only a peer that is up leads; one that is down has not started to apply.
Halted(s) ==
  /\ leads[s] # 0 => up[s] = "up"
  /\ up[s] = "down" => /\ leaderTerm[s] = NotLeader /\ applied[s] = 0
                       /\ batchEnd[s] = 0 /\ queue[s] = << >>

\* The state machine of s says that it leads, or its batch may make it say so.
Reporting(s) == \/ IsLeader(s)
                \/ applied[s] < batchEnd[s] /\ firstClosure[s] <= batchEnd[s]

\* After raft has stepped down, on_leader_stop is still to come.
StopFollows(s) == leads[s] = 0 /\ Reporting(s) => Queued(s, "stop")

\* on_snapshot_load waits behind that on_leader_stop.
LoadWaits(s) ==
  \A m \in 1 .. Len(queue[s]) : queue[s][m].type = "load" =>
    /\ leads[s] = 0
    /\ Reporting(s) => \E i \in 1 .. m - 1 : queue[s][i].type = "stop"

\* The snapshot it loads is not behind anything applied before it.
LoadAhead(s) ==
  \A m \in 1 .. Len(queue[s]) : queue[s][m].type = "load" =>
    /\ saving[s] = NoSnapshot
    /\ ~Queued(s, "save")
    /\ batchEnd[s] <= snapshot[s].index
    /\ \A i \in 1 .. m - 1 : queue[s][i].type = "commit" =>
         queue[s][i].index <= snapshot[s].index

PeerRight(s) == /\ OwnBounds(s) /\ Halted(s) /\ StopFollows(s)
                /\ LoadWaits(s) /\ LoadAhead(s)
PeersRight == \A s \in Server : PeerRight(s)

\* What the fourth layer reads of peer s does not change.
PeerKept(s) ==
  /\ leads'[s] = leads[s] /\ commitIndex'[s] = commitIndex[s]
  /\ firstPending'[s] = firstPending[s]
  /\ up'[s] = up[s] /\ leaderTerm'[s] = leaderTerm[s]
  /\ applied'[s] = applied[s] /\ batchEnd'[s] = batchEnd[s]
  /\ firstClosure'[s] = firstClosure[s] /\ queue'[s] = queue[s]
  /\ snapshot'[s] = snapshot[s] /\ saving'[s] = saving[s]

\* The variables that PeerKept is about.
peerVars == <<leads, commitIndex, firstPending, fsmVars, diskVars>>

\* The steps peer s takes, on the FSM thread or in braft.
PeerStep(s) ==
  \/ BecomeLeader(s) \/ StepDown(s) \/ Commit(s) \/ Learn(s)
  \/ FsmBegin(s) \/ FsmApply(s) \/ FsmStop(s)
  \/ TimerSave(s) \/ FsmSave(s) \/ SaveFinish(s)
  \/ \E from \in Server : Install(s, from)
  \/ FsmLoad(s) \/ FsmLoadFails(s)
  \/ Crash(s) \/ Restart(s)

\* A handler's step changes no peer.
LEMMA HandlerKeeps ==
  ASSUME \/ \E r \in Request : NodeApply(r) \/ Run(r)
                               \/ \E s \in Server : FetchAdd(r, s)
         \/ \E q \in Query : GetEnd(q) \/ \E s \in Server : GetBegin(q, s)
  PROVE  UNCHANGED peerVars
BY DEF NodeApply, LeaderAppend, Run, FetchAdd, GetEnd, GetBegin, peerVars,
       raftVars, fsmVars, diskVars

\* What does not change, PeerRight does not see.
LEMMA PeerRightKept ==
  ASSUME NEW s \in Server, PeerRight(s), PeerKept(s)
  PROVE  PeerRight(s)'
BY DEF PeerRight, PeerKept, OwnBounds, Halted, StopFollows, LoadWaits, LoadAhead,
       Reporting, IsLeader, Queued

\* A step of one peer changes no other.
LEMMA OthersKept ==
  ASSUME NEW s \in Server, NEW v \in Server, v # s, Bounded, PeerStep(s)
  PROVE  PeerKept(v)
<1> USE DEF Bounded, TypeOK, RaftTypeOK, PeerKept
<1>1. CASE BecomeLeader(s) \/ StepDown(s)
  BY <1>1 DEF BecomeLeader, StepDown, Elect, RaftStepDown, Enqueue, fsmVars, diskVars
<1>2. CASE Commit(s) \/ Learn(s)
  BY <1>2 DEF Commit, Learn, LeaderCommit, FollowerCommit, Enqueue, diskVars
<1>3. CASE FsmBegin(s) \/ FsmApply(s) \/ FsmStop(s)
  BY SMTT(20), <1>3 DEF FsmBegin, FsmApply, ApplyAdd, ApplyNoOp, OnLeaderStart, FsmStop,
              Dequeue, raftVars, diskVars
<1>4. CASE TimerSave(s) \/ FsmSave(s) \/ SaveFinish(s)
  BY <1>4 DEF TimerSave, FsmSave, SaveFinish, Enqueue, Dequeue, raftVars, fsmVars,
              diskVars
<1>5. ASSUME NEW from \in Server, Install(s, from)
      PROVE  PeerKept(v)
  BY <1>5 DEF Install, Enqueue
<1>6. CASE FsmLoad(s)
  BY <1>6 DEF FsmLoad, Dequeue, raftVars, diskVars
<1>7. CASE FsmLoadFails(s)
  BY <1>7 DEF FsmLoadFails, raftVars, diskVars
<1>8. CASE Crash(s) \/ Restart(s)
  BY <1>8 DEF Crash, RaftCrash, Restart, raftVars, diskVars
<1> QED
  BY <1>1, <1>2, <1>3, <1>4, <1>5, <1>6, <1>7, <1>8 DEF PeerStep

\* A step either is one of peer v or leaves it as it is.
LEMMA OnePeer ==
  ASSUME NEW v \in Server, Bounded, [Next]_vars
  PROVE  PeerKept(v) \/ PeerStep(v)
<1>1. CASE UNCHANGED peerVars
  BY <1>1 DEF PeerKept, peerVars, fsmVars, diskVars
<1>2. CASE UNCHANGED vars
  BY <1>1, <1>2 DEF vars, raftVars, peerVars
<1> QED
  BY <1>1, <1>2, HandlerKeeps, OthersKept DEF Next, PeerStep

\* Queueing a task leaves the others where they are.
LEMMA Enqueued ==
  ASSUME NEW s \in Server, NEW type \in {"commit", "stop", "save", "load"},
         NEW index \in Nat, TypeOK, Enqueue(s, type, index)
  PROVE  /\ Len(queue[s]) \in Nat /\ Len(queue'[s]) = Len(queue[s]) + 1
         /\ \A i \in 1 .. Len(queue[s]) : queue'[s][i] = queue[s][i]
         /\ queue'[s][Len(queue[s]) + 1].type = type
         /\ queue'[s][Len(queue[s]) + 1].index = index
<1>1. queue \in [Server -> Seq(Task)]
  BY DEF TypeOK
<1>2. queue'[s] = Append(queue[s], [type |-> type, index |-> index])
  BY <1>1 DEF Enqueue
<1> QED
  BY <1>1, <1>2

\* Taking the first task moves the others up.
LEMMA Dequeued ==
  ASSUME NEW s \in Server, TypeOK, queue[s] # << >>, Dequeue(s)
  PROVE  /\ Len(queue[s]) \in Nat \ {0} /\ Len(queue'[s]) = Len(queue[s]) - 1
         /\ \A i \in 1 .. Len(queue[s]) - 1 : queue'[s][i] = queue[s][i + 1]
         /\ Head(queue[s]) = queue[s][1]
<1>1. queue \in [Server -> Seq(Task)]
  BY DEF TypeOK
<1>2. queue'[s] = Tail(queue[s])
  BY <1>1 DEF Dequeue
<1> QED
  BY <1>1, <1>2

\* The next task is the first of the queue.
LEMMA HeadOfQueue ==
  ASSUME NEW s \in Server, TypeOK, queue[s] # << >>
  PROVE  1 \in 1 .. Len(queue[s]) /\ Head(queue[s]) = queue[s][1]
BY DEF TypeOK

\* The numbers of one peer, for the arithmetic of the lemmas below.
LEMMA PeerNumbers ==
  ASSUME NEW s \in Server, TypeOK
  PROVE  /\ applied[s] \in Nat /\ batchEnd[s] \in Nat /\ firstClosure[s] \in Nat
         /\ commitIndex[s] \in Nat /\ firstPending[s] \in Nat
         /\ leads[s] \in Nat /\ leaderTerm[s] \in Int
         /\ snapshot[s].index \in Nat /\ saving[s].index \in Nat
         /\ \A m \in 1 .. Len(queue[s]) : queue[s][m].index \in Nat
<1>1. queue[s] \in Seq(Task)
  BY DEF TypeOK
<1>2. \A m \in 1 .. Len(queue[s]) : queue[s][m] \in Task
  BY <1>1
<1>3. snapshot[s] \in Snapshots /\ saving[s] \in Snapshots
  BY DEF TypeOK
<1>4. leads[s] \in 0 .. MaxTerm /\ leaderTerm[s] \in {NotLeader} \cup 1 .. MaxTerm
  BY DEF TypeOK, RaftTypeOK
<1> QED
  BY SMTT(20), <1>2, <1>3, <1>4, RaftAssumption
  DEF TypeOK, RaftTypeOK, Task, Snapshots, NotLeader

\* braft queues a commit, on_leader_stop or a save.
LEMMA EnqueueRight ==
  ASSUME NEW s \in Server, NEW type \in {"commit", "stop", "save"},
         NEW index \in Nat, TypeOK, PeerRight(s), up[s] = "up",
         Enqueue(s, type, index), index <= commitIndex'[s],
         commitIndex'[s] \in Nat, commitIndex[s] <= commitIndex'[s],
         leads'[s] = leads[s] \/ (leads'[s] = 0 /\ type = "stop"),
         type = "save" => ~Queued(s, "load"),
         UNCHANGED <<up, leaderTerm, applied, batchEnd, firstClosure,
                     firstPending, snapshot, saving>>
  PROVE  PeerRight(s)'
<1> DEFINE n == Len(queue[s])
<1>1. /\ n \in Nat /\ Len(queue'[s]) = n + 1
      /\ \A i \in 1 .. n : queue'[s][i] = queue[s][i]
      /\ queue'[s][n + 1].type = type /\ queue'[s][n + 1].index = index
  BY Enqueued
<1>2. Reporting(s)' = Reporting(s)
  BY DEF Reporting, IsLeader
<1> HIDE DEF n
<1>3. \A m \in 1 .. Len(queue'[s]) : m # n + 1 => m \in 1 .. n
  BY <1>1
<1>4. OwnBounds(s)'
  <2>1. ASSUME NEW m \in 1 .. Len(queue'[s])
        PROVE  queue'[s][m].index <= commitIndex'[s]
    <3>1. CASE m = n + 1
      BY <3>1, <1>1
    <3>2. CASE m # n + 1
      <4>1. m \in 1 .. Len(queue[s]) /\ queue'[s][m] = queue[s][m]
        BY <3>2, <1>1, <1>3 DEF n
      <4>2. queue[s][m].index <= commitIndex[s] /\ queue[s][m].index \in Nat
        BY <4>1, PeerNumbers DEF PeerRight, OwnBounds
      <4> QED
        BY <4>1, <4>2, PeerNumbers
    <3> QED
      BY <3>1, <3>2
  <2> QED
    BY <2>1, PeerNumbers DEF PeerRight, OwnBounds
<1>5. Halted(s)' /\ StopFollows(s)'
  <2>1. Queued(s, "stop") => Queued(s, "stop")'
    BY SMTT(20), <1>1 DEF Queued, n
  <2>2. type = "stop" => Queued(s, "stop")'
    BY <1>1 DEF Queued
  <2> QED
    BY <1>2, <2>1, <2>2 DEF PeerRight, Halted, StopFollows
<1>6. ASSUME NEW m \in 1 .. Len(queue'[s]), queue'[s][m].type = "load"
      PROVE  /\ m \in 1 .. n /\ queue[s][m].type = "load"
             /\ \A i \in 1 .. m - 1 : queue'[s][i] = queue[s][i]
  BY <1>1, <1>3, <1>6
<1>7. LoadWaits(s)'
  <2> SUFFICES ASSUME NEW m \in 1 .. Len(queue'[s]), queue'[s][m].type = "load"
               PROVE  /\ leads'[s] = 0
                      /\ Reporting(s)' => \E i \in 1 .. m - 1 : queue'[s][i].type = "stop"
    BY DEF LoadWaits
  <2>1. /\ m \in 1 .. Len(queue[s]) /\ queue[s][m].type = "load"
        /\ \A i \in 1 .. m - 1 : queue'[s][i] = queue[s][i]
    BY <1>6 DEF n
  <2>2. /\ leads[s] = 0
        /\ Reporting(s) => \E i \in 1 .. m - 1 : queue[s][i].type = "stop"
    BY <2>1 DEF PeerRight, LoadWaits
  <2> QED
    BY <1>2, <2>1, <2>2
<1>8. LoadAhead(s)'
  <2>1. Queued(s, "save")' => Queued(s, "save") \/ type = "save"
    BY <1>1, <1>3 DEF Queued, n
  <2>2. type = "save" => \A m \in 1 .. n : queue[s][m].type # "load"
    BY DEF Queued, n
  <2> QED
    BY <1>6, <2>1, <2>2 DEF PeerRight, LoadAhead, n
<1> QED
  BY <1>4, <1>5, <1>7, <1>8 DEF PeerRight

\* Stepping down, committing, learning of a commit and the snapshot timer.
LEMMA QueueingRight ==
  ASSUME NEW s \in Server, Bounded, PeerRight(s),
         StepDown(s) \/ Commit(s) \/ Learn(s) \/ TimerSave(s)
  PROVE  PeerRight(s)'
<1> USE DEF Bounded
<1>1. /\ commitIndex \in [Server -> Nat] /\ leads \in [Server -> 0 .. MaxTerm]
      /\ committed \in Seq(Entry)
  BY DEF TypeOK, RaftTypeOK
<1>2. leads[s] # 0 => up[s] = "up"
  BY DEF PeerRight, Halted
<1>3. CASE StepDown(s)
  <2>1. /\ Enqueue(s, "stop", 0) /\ up[s] = "up" /\ leads'[s] = 0
        /\ UNCHANGED <<up, leaderTerm, applied, batchEnd, firstClosure,
                       firstPending, snapshot, saving, commitIndex>>
    BY <1>1, <1>2, <1>3 DEF StepDown, RaftStepDown, diskVars
  <2> QED
    BY <1>1, <2>1, EnqueueRight
<1>4. CASE Commit(s)
  <2>1. PICK k \in 1 .. Len(LogOf(leads[s])) :
          /\ LeaderCommit(s, k)
          /\ Enqueue(s, "commit", k)
          /\ UNCHANGED <<up, value, leaderTerm, applied, batchEnd, firstClosure,
                         diskVars, rpcVars>>
    BY <1>4 DEF Commit
  <2>2. /\ leads[s] # 0 /\ k >= commitIndex[s] + 1 /\ commitIndex'[s] = k
        /\ UNCHANGED <<leads, firstPending>>
    BY <1>1, <2>1 DEF LeaderCommit
  <2> QED
    BY <1>1, <1>2, <2>1, <2>2, EnqueueRight DEF diskVars
<1>5. CASE Learn(s)
  <2>1. PICK k \in 1 .. Len(committed) :
          /\ up[s] = "up" /\ FollowerCommit(s, k)
          /\ Enqueue(s, "commit", k)
          /\ UNCHANGED <<up, value, leaderTerm, applied, batchEnd, firstClosure,
                         diskVars, rpcVars>>
    BY <1>5 DEF Learn
  <2>2. /\ k >= commitIndex[s] + 1 /\ commitIndex'[s] = k
        /\ UNCHANGED <<leads, firstPending>>
    BY <1>1, <2>1 DEF FollowerCommit
  <2> QED
    BY <1>1, <2>1, <2>2, EnqueueRight DEF diskVars
<1>6. CASE TimerSave(s)
  <2>1. /\ up[s] = "up" /\ ~Queued(s, "load") /\ Enqueue(s, "save", 0)
        /\ UNCHANGED <<up, leaderTerm, applied, batchEnd, firstClosure, leads,
                       firstPending, snapshot, saving, commitIndex>>
    BY <1>6 DEF TimerSave, SnapshotBusy, raftVars, diskVars
  <2> QED
    BY <1>1, <2>1, EnqueueRight
<1> QED
  BY <1>3, <1>4, <1>5, <1>6

\* Winning an election: no load is queued, and the closure queue starts after
\* everything committed.
LEMMA BecomeLeaderRight ==
  ASSUME NEW s \in Server, Bounded, PeerRight(s), BecomeLeader(s)
  PROVE  PeerRight(s)'
<1> USE DEF Bounded
<1>1. /\ up[s] = "up" /\ ~Queued(s, "load") /\ Elect(s)
      /\ UNCHANGED <<commitIndex, fsmVars, diskVars>>
  BY DEF BecomeLeader, Elect
<1>2. /\ leads \in [Server -> 0 .. MaxTerm] /\ firstPending \in [Server -> Nat]
      /\ Len(committed) \in Nat /\ Len(termLog) \in Nat /\ commitIndex[s] <= Len(committed)
  BY DEF TypeOK, RaftTypeOK, RaftInv, LogMatching
<1>3. PICK t \in 0 .. LastTerm : \E k \in 0 .. Len(LogOf(t)) :
        Len(committed) <= k /\ firstPending' = [firstPending EXCEPT ![s] = k + 1]
  BY <1>1 DEF Elect
<1>4. PICK k \in 0 .. Len(LogOf(t)) :
        Len(committed) <= k /\ firstPending' = [firstPending EXCEPT ![s] = k + 1]
  BY <1>3
<1>5. leads'[s] # 0 /\ firstPending'[s] = k + 1 /\ commitIndex[s] < k + 1
  <2>1. leads' = [leads EXCEPT ![s] = LastTerm + 1] /\ LastTerm \in Nat
    BY <1>1, <1>2 DEF Elect, LastTerm
  <2>2. k \in Nat /\ commitIndex[s] \in Nat
    BY PeerNumbers
  <2> HIDE DEF Bounded
  <2> QED
    BY <1>2, <1>4, <2>1, <2>2
<1>6. OwnBounds(s)'
  BY <1>1, <1>2, <1>5, PeerNumbers
  DEF PeerRight, OwnBounds, fsmVars, diskVars
<1>7. Halted(s)' /\ StopFollows(s)'
  BY <1>1, <1>5 DEF PeerRight, Halted, StopFollows, fsmVars
<1>8. LoadWaits(s)' /\ LoadAhead(s)'
  BY <1>1 DEF LoadWaits, LoadAhead, Queued, fsmVars
<1> QED
  BY <1>6, <1>7, <1>8 DEF PeerRight

\* The FSM thread takes a task.
LEMMA DequeueRight ==
  ASSUME NEW s \in Server, TypeOK, PeerRight(s), up[s] = "up",
         queue[s] # << >>, Dequeue(s),
         UNCHANGED <<leads, commitIndex, up, snapshot>>,
         leads[s] = 0 /\ Reporting(s)' =>
           Reporting(s) /\ Head(queue[s]).type # "stop",
         \/ batchEnd'[s] = batchEnd[s]
         \/ batchEnd'[s] = snapshot[s].index
         \/ Head(queue[s]).type = "commit" /\ batchEnd'[s] = Head(queue[s]).index,
         \/ saving'[s] = saving[s]
         \/ Head(queue[s]).type = "save" /\ saving'[s].index <= commitIndex[s],
         leads[s] # 0 => batchEnd'[s] < firstPending'[s]
  PROVE  PeerRight(s)'
<1> DEFINE n == Len(queue[s])
<1>1. /\ n \in Nat \ {0} /\ Len(queue'[s]) = n - 1
      /\ \A i \in 1 .. n - 1 : queue'[s][i] = queue[s][i + 1]
      /\ Head(queue[s]) = queue[s][1] /\ 1 \in 1 .. n
  BY Dequeued
<1> HIDE DEF n
<1>2. \A m \in 1 .. Len(queue'[s]) :
        m + 1 \in 1 .. n /\ queue'[s][m] = queue[s][m + 1] /\ m \in Nat
  BY <1>1
<1>3. OwnBounds(s)'
  BY <1>1, <1>2, PeerNumbers DEF PeerRight, OwnBounds, n
<1>4. StopFollows(s)'
  <2> SUFFICES ASSUME leads[s] = 0, Reporting(s)'
               PROVE  Queued(s, "stop")'
    BY DEF StopFollows
  <2>1. PICK i \in 1 .. n : queue[s][i].type = "stop"
    BY DEF PeerRight, StopFollows, Queued, n
  <2>2. i # 1 /\ i \in Nat
    BY <1>1, <2>1
  <2>3. i - 1 \in 1 .. Len(queue'[s]) /\ (i - 1) + 1 = i
    BY <1>1, <2>1, <2>2
  <2>4. queue'[s][i - 1] = queue[s][i]
    BY <1>2, <2>3
  <2> QED
    BY <2>1, <2>3, <2>4 DEF Queued
<1>5. ASSUME NEW m \in 1 .. Len(queue'[s]), queue'[s][m].type = "load"
      PROVE  /\ m + 1 \in 1 .. Len(queue[s]) /\ queue[s][m + 1].type = "load"
             /\ (m + 1) - 1 = m /\ 1 \in 1 .. m
             /\ \A i \in 1 .. m : i # 1 =>
                  i - 1 \in 1 .. m - 1 /\ queue'[s][i - 1] = queue[s][i]
             /\ \A i \in 1 .. m - 1 :
                  i + 1 \in 1 .. m /\ queue'[s][i] = queue[s][i + 1]
  <2>1. /\ m + 1 \in 1 .. n /\ queue'[s][m] = queue[s][m + 1] /\ m \in Nat
        /\ m <= n - 1
    BY <1>1, <1>2
  <2>2. ASSUME NEW i \in 1 .. m, i # 1
        PROVE  i - 1 \in 1 .. m - 1 /\ queue'[s][i - 1] = queue[s][i]
    <3>1. i - 1 \in 1 .. Len(queue'[s]) /\ (i - 1) + 1 = i /\ i - 1 \in 1 .. m - 1
      BY <1>1, <2>1, <2>2
    <3> QED
      BY <1>2, <3>1
  <2>3. ASSUME NEW i \in 1 .. m - 1
        PROVE  i + 1 \in 1 .. m /\ queue'[s][i] = queue[s][i + 1]
    <3>1. i \in 1 .. Len(queue'[s]) /\ i + 1 \in 1 .. m
      BY <1>1, <2>1
    <3> QED
      BY <1>2, <3>1
  <2> QED
    BY <1>5, <2>1, <2>2, <2>3 DEF n
<1>6. LoadWaits(s)'
  <2> SUFFICES ASSUME NEW m \in 1 .. Len(queue'[s]), queue'[s][m].type = "load"
               PROVE  /\ leads[s] = 0
                      /\ Reporting(s)' =>
                           \E i \in 1 .. m - 1 : queue'[s][i].type = "stop"
    BY DEF LoadWaits
  <2>1. /\ leads[s] = 0
        /\ Reporting(s) => \E i \in 1 .. m : queue[s][i].type = "stop"
    BY <1>5 DEF PeerRight, LoadWaits
  <2>2. ASSUME Reporting(s)'
        PROVE  \E i \in 1 .. m - 1 : queue'[s][i].type = "stop"
    <3>1. PICK i \in 1 .. m : queue[s][i].type = "stop"
      BY <2>1, <2>2
    <3>2. i # 1
      BY <1>1, <2>1, <2>2, <3>1
    <3> QED
      BY <1>5, <3>1, <3>2
  <2> QED
    BY <2>1, <2>2
<1>7. LoadAhead(s)'
  <2> SUFFICES ASSUME NEW m \in 1 .. Len(queue'[s]), queue'[s][m].type = "load"
               PROVE  /\ saving'[s] = NoSnapshot
                      /\ ~Queued(s, "save")'
                      /\ batchEnd'[s] <= snapshot[s].index
                      /\ \A i \in 1 .. m - 1 : queue'[s][i].type = "commit" =>
                           queue'[s][i].index <= snapshot[s].index
    BY DEF LoadAhead
  <2>1. /\ saving[s] = NoSnapshot
        /\ ~Queued(s, "save")
        /\ batchEnd[s] <= snapshot[s].index
        /\ \A i \in 1 .. m : queue[s][i].type = "commit" =>
             queue[s][i].index <= snapshot[s].index
    BY <1>5 DEF PeerRight, LoadAhead
  <2>2. ~Queued(s, "save")' /\ queue[s][1].type # "save"
    BY <1>1, <1>2, <2>1 DEF Queued, n
  <2>3. saving'[s] = NoSnapshot
    BY <1>1, <2>1, <2>2
  <2>4. batchEnd'[s] <= snapshot[s].index
    BY SMTT(20), <1>1, <1>5, <2>1, PeerNumbers
  <2>5. \A i \in 1 .. m - 1 : queue'[s][i].type = "commit" =>
          queue'[s][i].index <= snapshot[s].index
    BY <1>5, <2>1
  <2> QED
    BY <2>2, <2>3, <2>4, <2>5
<1>8. Halted(s)'
  BY DEF PeerRight, Halted
<1> QED
  BY <1>3, <1>4, <1>6, <1>7, <1>8 DEF PeerRight

\* A committed index becomes a batch.
LEMMA FsmBeginRight ==
  ASSUME NEW s \in Server, Bounded, PeerRight(s), FsmBegin(s)
  PROVE  PeerRight(s)'
<1> USE DEF Bounded
<1> DEFINE k == Head(queue[s]).index
           owned == leads[s] # 0 /\ firstPending[s] <= k
<1>1. /\ up[s] = "up" /\ queue[s] # << >> /\ Head(queue[s]).type = "commit"
      /\ applied[s] = batchEnd[s] /\ Dequeue(s)
      /\ UNCHANGED <<leads, commitIndex, up, leaderTerm, applied, snapshot, saving>>
  BY DEF FsmBegin, NextTask, diskVars
<1>2. \/ /\ k <= applied[s]
         /\ UNCHANGED <<batchEnd, firstClosure, firstPending>>
      \/ /\ k > applied[s]
         /\ batchEnd' = [batchEnd EXCEPT ![s] = k]
         /\ firstClosure' = [firstClosure EXCEPT ![s] =
                               IF owned THEN firstPending[s] ELSE k + 1]
         /\ firstPending' = IF owned THEN [firstPending EXCEPT ![s] = k + 1]
                                     ELSE firstPending
  <2>1. k \in Nat
    BY <1>1, DequeueWithin
  <2> QED
    BY <2>1, PeerNumbers DEF FsmBegin
<1>3. /\ batchEnd \in [Server -> Nat] /\ firstClosure \in [Server -> Nat]
      /\ firstPending \in [Server -> Nat] /\ k \in Nat
  BY <1>1, DequeueWithin DEF TypeOK, RaftTypeOK
<1> HIDE DEF k
<1>4. batchEnd'[s] = batchEnd[s] \/ batchEnd'[s] = k
  BY <1>2, <1>3
<1>5. leads[s] # 0 => batchEnd'[s] < firstPending'[s]
  BY <1>1, <1>2, <1>3 DEF PeerRight, OwnBounds
<1>6. leads[s] = 0 /\ Reporting(s)' => Reporting(s)
  BY <1>1, <1>2, <1>3, PeerNumbers DEF Reporting, IsLeader
<1> QED
  BY <1>1, <1>4, <1>5, <1>6, DequeueRight DEF k

\* One turn of on_apply reports only what the batch would.
LEMMA FsmApplyRight ==
  ASSUME NEW s \in Server, Bounded, PeerRight(s), FsmApply(s)
  PROVE  PeerRight(s)'
<1> USE DEF Bounded
<1> DEFINE i == applied[s] + 1
<1>1. /\ up[s] = "up" /\ applied[s] < batchEnd[s]
      /\ applied' = [applied EXCEPT ![s] = i]
      /\ UNCHANGED <<leads, commitIndex, firstPending, up, batchEnd,
                     firstClosure, queue, snapshot, saving>>
  BY DEF FsmApply, raftVars, diskVars
<1>2. leaderTerm'[s] = leaderTerm[s] \/ i >= firstClosure[s]
  BY DEF FsmApply, ApplyAdd, ApplyNoOp, HasClosure
<1>3. Reporting(s)' => Reporting(s)
  <2>1. applied'[s] = i /\ applied \in [Server -> Nat]
    BY <1>1 DEF TypeOK
  <2> QED
    BY <1>1, <1>2, <2>1, PeerNumbers DEF Reporting, IsLeader
<1>4. OwnBounds(s)' /\ Halted(s)' /\ StopFollows(s)'
  BY <1>1, <1>3 DEF PeerRight, OwnBounds, Halted, StopFollows, Queued
<1>5. LoadWaits(s)' /\ LoadAhead(s)'
  BY <1>1, <1>3 DEF PeerRight, LoadWaits, LoadAhead, Queued
<1> QED
  BY <1>4, <1>5 DEF PeerRight

\* on_leader_stop, a save and a load leave the queue.
LEMMA FsmTaskRight ==
  ASSUME NEW s \in Server, Bounded, PeerRight(s),
         FsmStop(s) \/ FsmSave(s) \/ FsmLoad(s)
  PROVE  PeerRight(s)'
<1> USE DEF Bounded
<1>1. /\ up[s] = "up" /\ queue[s] # << >> /\ applied[s] = batchEnd[s]
      /\ Dequeue(s)
      /\ UNCHANGED <<leads, commitIndex, firstPending, up, firstClosure, snapshot>>
  BY DEF FsmStop, FsmSave, FsmLoad, NextTask, raftVars, diskVars
<1>2. leads[s] # 0 => batchEnd[s] < firstPending'[s]
  BY <1>1 DEF PeerRight, OwnBounds
<1>3. CASE FsmStop(s)
  <2>1. leaderTerm'[s] = NotLeader /\ UNCHANGED <<applied, batchEnd, saving>>
    BY <1>3 DEF FsmStop, StoppedTerm, diskVars, TypeOK
  <2>2. ~Reporting(s)'
    BY <1>1, <2>1, PeerNumbers DEF Reporting, IsLeader, NotLeader
  <2> QED
    BY <1>1, <1>2, <2>1, <2>2, DequeueRight
<1>4. CASE FsmSave(s)
  <2>1. /\ Head(queue[s]).type = "save"
        /\ saving'[s].index = applied[s]
        /\ UNCHANGED <<applied, batchEnd, leaderTerm>>
    BY <1>4 DEF FsmSave, NextTask, TypeOK
  <2>2. Reporting(s)' => Reporting(s)
    BY <1>1, <2>1 DEF Reporting, IsLeader
  <2>3. saving'[s].index <= commitIndex[s]
    BY <1>1, <2>1 DEF PeerRight, OwnBounds
  <2> QED
    BY <1>1, <1>2, <2>1, <2>2, <2>3, DequeueRight
<1>5. CASE FsmLoad(s)
  <2>1. /\ Head(queue[s]).type = "load"
        /\ applied'[s] = snapshot[s].index /\ batchEnd'[s] = snapshot[s].index
        /\ UNCHANGED <<saving, leaderTerm>>
    BY <1>5 DEF FsmLoad, NextTask, diskVars, TypeOK
  <2>2. leads[s] = 0
    BY <1>1, <2>1, Dequeued DEF PeerRight, LoadWaits
  <2>3. Reporting(s)' => Reporting(s)
    BY <1>1, <2>1, PeerNumbers DEF Reporting, IsLeader
  <2> QED
    BY <1>1, <2>1, <2>2, <2>3, DequeueRight
<1> QED
  BY <1>3, <1>4, <1>5

\* save_snapshot ends.
LEMMA SaveFinishRight ==
  ASSUME NEW s \in Server, Bounded, PeerRight(s), SaveFinish(s)
  PROVE  PeerRight(s)'
<1> USE DEF Bounded
<1>1. /\ saving[s] # NoSnapshot /\ saving'[s] = NoSnapshot
      /\ snapshot'[s] = snapshot[s] \/ snapshot'[s].index = saving[s].index
      /\ UNCHANGED <<leads, commitIndex, firstPending, up, leaderTerm, applied,
                     batchEnd, firstClosure, queue>>
  BY DEF SaveFinish, TypeOK, raftVars, fsmVars
<1>2. \A m \in 1 .. Len(queue[s]) : queue[s][m].type # "load"
  BY <1>1 DEF PeerRight, LoadAhead
<1>3. OwnBounds(s)'
  BY <1>1, PeerNumbers DEF PeerRight, OwnBounds, NoSnapshot
<1>4. Halted(s)' /\ StopFollows(s)'
  BY <1>1 DEF PeerRight, Halted, StopFollows, Reporting, IsLeader, Queued
<1>5. LoadWaits(s)' /\ LoadAhead(s)'
  BY <1>1, <1>2 DEF LoadWaits, LoadAhead
<1> QED
  BY <1>3, <1>4, <1>5 DEF PeerRight

\* A snapshot is installed on a follower that is not installing or saving one.
LEMMA InstallRight ==
  ASSUME NEW s \in Server, NEW from \in Server, Bounded, PeerRight(s),
         Install(s, from)
  PROVE  PeerRight(s)'
<1> USE DEF Bounded
<1> DEFINE n == Len(queue[s])
           x == snapshot[from].index
<1>1. /\ up[s] = "up" /\ leads[s] = 0
      /\ saving[s] = NoSnapshot /\ ~Queued(s, "save") /\ ~Queued(s, "load")
      /\ x > commitIndex[s] /\ x \in Nat
      /\ snapshot'[s].index = x /\ commitIndex'[s] = x
      /\ Enqueue(s, "load", x)
      /\ UNCHANGED <<leads, firstPending, up, leaderTerm, applied, batchEnd,
                     firstClosure, saving>>
  <2>1. snapshot[from] \in Snapshots
    BY DEF TypeOK
  <2> QED
    BY <2>1 DEF Install, SnapshotBusy, TypeOK, RaftTypeOK, Snapshots
<1>2. /\ n \in Nat /\ Len(queue'[s]) = n + 1
      /\ \A i \in 1 .. n : queue'[s][i] = queue[s][i]
      /\ queue'[s][n + 1].type = "load" /\ queue'[s][n + 1].index = x
  BY <1>1, Enqueued
<1> HIDE DEF x
<1>3. /\ batchEnd[s] <= x /\ saving[s].index <= x
      /\ \A m \in 1 .. n : queue[s][m].index <= x
  <2>1. commitIndex[s] \in Nat /\ commitIndex[s] < x
    BY <1>1, PeerNumbers
  <2>2. /\ batchEnd[s] <= commitIndex[s] /\ saving[s].index <= commitIndex[s]
        /\ \A m \in 1 .. n : queue[s][m].index <= commitIndex[s]
    BY DEF PeerRight, OwnBounds
  <2>3. /\ batchEnd[s] \in Nat /\ saving[s].index \in Nat
        /\ \A m \in 1 .. n : queue[s][m].index \in Nat
    BY PeerNumbers
  <2> HIDE DEF n
  <2> QED
    BY <1>1, <2>1, <2>2, <2>3
<1> HIDE DEF n
<1>4. OwnBounds(s)'
  <2>1. \A m \in 1 .. n + 1 : queue'[s][m].index <= x
    BY <1>1, <1>2, <1>3
  <2> QED
    BY <1>1, <1>2, <1>3, <2>1 DEF OwnBounds
<1>5. Reporting(s)' = Reporting(s)
  BY <1>1 DEF Reporting, IsLeader
<1>6. Queued(s, "stop") <=> \E i \in 1 .. n : queue'[s][i].type = "stop"
  BY <1>2 DEF Queued, n
<1>7. Halted(s)' /\ StopFollows(s)'
  BY <1>1, <1>2, <1>5, <1>6 DEF PeerRight, Halted, StopFollows, Queued
<1>8. ASSUME NEW m \in 1 .. Len(queue'[s]), queue'[s][m].type = "load"
      PROVE  m = n + 1 /\ m - 1 = n
  <2>1. m # n + 1 => m \in 1 .. n /\ queue[s][m].type = "load"
    BY <1>2, <1>8
  <2> QED
    BY <1>1, <1>2, <2>1 DEF Queued, n
<1>9. LoadWaits(s)'
  BY <1>1, <1>5, <1>6, <1>8 DEF PeerRight, StopFollows, LoadWaits
<1>10. LoadAhead(s)'
  <2>1. ~Queued(s, "save")'
    <3>1. \A i \in 1 .. Len(queue'[s]) : i = n + 1 \/ i \in 1 .. n
      BY <1>2
    <3> QED
      BY <1>1, <1>2, <3>1 DEF Queued, n
  <2> QED
    BY SMTT(20), <1>1, <1>2, <1>3, <1>8, <2>1 DEF LoadAhead
<1> QED
  BY <1>4, <1>7, <1>9, <1>10 DEF PeerRight

\* A peer whose queue is dropped, by braft's error state or by a kill, and one
\* that starts again.
LEMMA EmptyQueueRight ==
  ASSUME NEW s \in Server, Bounded, PeerRight(s),
         FsmLoadFails(s) \/ Crash(s) \/ Restart(s)
  PROVE  PeerRight(s)'
<1> USE DEF Bounded
<1>1. LoadWaits(s)' /\ LoadAhead(s)' /\ queue'[s] = << >>
  <2>1. queue'[s] = << >>
    BY DEF FsmLoadFails, Crash, Restart, TypeOK, PeerRight, Halted
  <2> QED
    BY <2>1 DEF LoadWaits, LoadAhead
<1>2. CASE FsmLoadFails(s)
  <2>1. /\ queue[s] # << >> /\ Head(queue[s]).type = "load"
        /\ up'[s] = "error"
        /\ UNCHANGED <<leads, commitIndex, firstPending, leaderTerm, applied,
                       batchEnd, firstClosure, snapshot, saving>>
    BY <1>2 DEF FsmLoadFails, NextTask, TypeOK, raftVars, diskVars
  <2>2. 1 \in 1 .. Len(queue[s]) /\ queue[s][1].type = "load"
    BY <2>1, HeadOfQueue
  <2>3. leads[s] = 0 /\ ~Reporting(s)
    BY <2>2 DEF PeerRight, LoadWaits
  <2> QED
    BY <1>1, <2>1, <2>3
    DEF PeerRight, OwnBounds, Halted, StopFollows, Reporting, IsLeader
<1>3. CASE Crash(s)
  <2>1. /\ leads'[s] = 0 /\ commitIndex'[s] = snapshot[s].index
        /\ up'[s] = "down" /\ leaderTerm'[s] = NotLeader
        /\ applied'[s] = 0 /\ batchEnd'[s] = 0
        /\ saving'[s] = NoSnapshot /\ snapshot' = snapshot
    BY <1>3 DEF Crash, RaftCrash, TypeOK, RaftTypeOK
  <2> QED
    BY <1>1, <2>1, PeerNumbers
    DEF PeerRight, OwnBounds, Halted, StopFollows, Reporting, IsLeader,
        NotLeader, NoSnapshot
<1>4. CASE Restart(s)
  <2>1. /\ up[s] = "down" /\ up'[s] = "up"
        /\ applied'[s] = snapshot[s].index /\ batchEnd'[s] = snapshot[s].index
        /\ UNCHANGED <<leads, commitIndex, firstPending, leaderTerm,
                       firstClosure, snapshot, saving>>
    BY <1>4 DEF Restart, TypeOK, raftVars, diskVars
  <2> QED
    BY <1>1, <2>1, PeerNumbers
    DEF PeerRight, OwnBounds, Halted, StopFollows, Reporting, IsLeader,
        NotLeader
<1> QED
  BY <1>2, <1>3, <1>4

\* Every step keeps the fourth layer.
LEMMA PeersStep == BoundedInv /\ PeersRight /\ [Next]_vars => PeersRight'
<1> SUFFICES ASSUME Bounded, PeersRight, [Next]_vars
             PROVE  PeersRight'
  BY DEF BoundedInv
<1>1. ASSUME UNCHANGED peerVars
      PROVE  PeersRight'
  BY <1>1, PeerRightKept
  DEF PeersRight, PeerKept, peerVars, fsmVars, diskVars
<1>2. ASSUME NEW s \in Server, PeerStep(s)
      PROVE  PeersRight'
  <2>1. PeerRight(s)'
    BY <1>2, QueueingRight, BecomeLeaderRight, FsmBeginRight, FsmApplyRight,
       FsmTaskRight, SaveFinishRight, InstallRight, EmptyQueueRight
    DEF PeersRight, PeerStep
  <2>2. \A v \in Server : v # s => PeerRight(v)'
    BY <1>2, OthersKept, PeerRightKept DEF PeersRight
  <2> QED
    BY <2>1, <2>2 DEF PeersRight
<1>3. CASE UNCHANGED vars
  BY <1>1, <1>3 DEF vars, raftVars, peerVars
<1> QED
  BY <1>1, <1>2, <1>3, HandlerKeeps DEF Next, PeerStep

\* The fourth layer holds at the start.
LEMMA PeersInit == Init => PeersRight
<1> SUFFICES ASSUME Init, NEW s \in Server
             PROVE  PeerRight(s)
  BY DEF PeersRight
<1>1. /\ leads[s] = 0 /\ commitIndex[s] = 0 /\ firstPending[s] = 1
      /\ up[s] = "up" /\ leaderTerm[s] = NotLeader
      /\ applied[s] = 0 /\ batchEnd[s] = 0 /\ firstClosure[s] = 1
      /\ queue[s] = << >> /\ snapshot[s].index = 0 /\ saving[s].index = 0
  BY DEF Init, RaftInit, NoSnapshot
<1> QED
  BY <1>1 DEF PeerRight, OwnBounds, Halted, StopFollows, LoadWaits, LoadAhead,
              Reporting, IsLeader, NotLeader

\* The fourth layer is an invariant of the specification.
LEMMA PeersAlways == Spec => [](BoundedInv /\ PeersRight)
  BY BoundedInit, BoundedStep, PeersInit, PeersStep, PTL DEF Spec

\* CHECK(!is_leader()) of on_snapshot_load never fails: whatever elections and
\* installs overlap, on_leader_stop has run before the snapshot is loaded.
THEOREM LeaderNeverLoads == Spec => []LoadNeverOnLeader
<1>1. BoundedInv /\ PeersRight => LoadNeverOnLeader
  <2> SUFFICES ASSUME Bounded, PeersRight, NEW s \in Server, NextTask(s, "load")
               PROVE  ~IsLeader(s)
    BY DEF BoundedInv, LoadNeverOnLeader
  <2>1. 1 \in 1 .. Len(queue[s]) /\ queue[s][1].type = "load"
    BY HeadOfQueue DEF NextTask, Bounded
  <2>2. ~Reporting(s)
    BY <2>1 DEF PeersRight, PeerRight, LoadWaits
  <2> QED
    BY <2>2 DEF Reporting
<1> QED
  BY <1>1, PeersAlways, PTL

-----------------------------------------------------------------------------
(* The fifth layer: who acts for a term.                                    *)

\* Terms never decrease along a log, nor exceed the term of its leader.
TermsOrdered ==
  \A t \in 1 .. LastTerm : \A j \in 1 .. Len(termLog[t]) :
    /\ termLog[t][j].term <= t
    /\ \A i \in 1 .. j : termLog[t][i].term <= termLog[t][j].term

\* The closures of a leader are those of entries of its own term.
OwnPending ==
  \A s \in Server : leads[s] # 0 =>
    \A i \in firstPending[s] .. Len(termLog[leads[s]]) :
      termLog[leads[s]][i].term = leads[s]

\* The entries of the batch of s whose closure is still to run.
Closing(s) == {i \in applied[s] + 1 .. batchEnd[s] : HasClosure(s, i)}

\* s acts for term t: it leads it, says so, or has closures of it to run.
Claims(s, t) == \/ leads[s] = t
                \/ leaderTerm[s] = t
                \/ \E i \in Closing(s) : committed[i].term = t

\* No two peers ever act for the same term, nor anyone for a later one.
OneOwner ==
  \A t \in 1 .. MaxTerm : \A s \in Server : Claims(s, t) =>
    /\ t <= LastTerm
    /\ \A v \in Server : Claims(v, t) => v = s

\* A peer that says it leads has applied the first entry of its term.
CaughtUp ==
  \A s \in Server : IsLeader(s) =>
    \E p \in 1 .. applied[s] : committed[p].term = leaderTerm[s]

TermsRight == TermsOrdered /\ OwnPending /\ OneOwner /\ CaughtUp

\* The committed log of a group with a leader is the beginning of its newest.
LEMMA CommittedInNewest ==
  ASSUME Bounded, NEW i \in 1 .. Len(committed)
  PROVE  /\ LastTerm \in 1 .. LastTerm /\ LastTerm \in Nat
         /\ i \in 1 .. Len(termLog[LastTerm]) /\ termLog[LastTerm][i] = committed[i]
         /\ committed[i] \in Entry
<1>1. /\ LastTerm \in Nat /\ committed \in Seq(Entry)
      /\ \A t \in 1 .. LastTerm : Len(termLog[t]) \in Nat
  BY DEF Bounded, TypeOK, RaftTypeOK, LastTerm
<1>2. LastTerm # 0
  BY <1>1 DEF Bounded, RaftInv, LogMatching
<1>3. Agree(termLog[LastTerm], committed, Len(committed)) /\ LastTerm \in 1 .. LastTerm
  BY <1>1, <1>2 DEF Bounded, RaftInv, LogMatching
<1>4. i <= Len(termLog[LastTerm]) /\ termLog[LastTerm][i] = committed[i]
  BY <1>1, <1>3 DEF Agree
<1>5. committed[i] \in Entry
  BY <1>1
<1> QED
  BY <1>1, <1>3, <1>4, <1>5

\* Terms do not decrease along the committed log.
LEMMA CommittedOrdered ==
  ASSUME Bounded, TermsOrdered, NEW j \in 1 .. Len(committed), NEW i \in 1 .. j
  PROVE  committed[i].term <= committed[j].term /\ committed[j].term <= LastTerm
<1>1. i \in 1 .. Len(committed)
  BY DEF Bounded, TypeOK, RaftTypeOK
<1> QED
  BY <1>1, CommittedInNewest DEF TermsOrdered

\* What a leader knows to be committed is in its own log.
LEMMA LeaderAgrees ==
  ASSUME Bounded, NEW s \in Server, leads[s] # 0, NEW i \in Nat \ {0},
         i <= commitIndex[s]
  PROVE  /\ leads[s] \in 1 .. LastTerm /\ LastTerm \in Nat
         /\ i \in 1 .. Len(committed) /\ i \in 1 .. Len(termLog[leads[s]])
         /\ termLog[leads[s]][i] = committed[i]
<1>1. /\ leads[s] \in Nat /\ leads[s] <= LastTerm /\ commitIndex[s] \in Nat
      /\ LastTerm \in Nat /\ Len(committed) \in Nat
      /\ commitIndex[s] <= Len(committed)
      /\ Agree(termLog[leads[s]], committed, commitIndex[s])
  BY SMTT(20), RaftAssumption
  DEF Bounded, TypeOK, RaftTypeOK, RaftInv, LogMatching, LastTerm
<1>2. leads[s] \in 1 .. LastTerm
  BY <1>1
<1>3. Len(termLog[leads[s]]) \in Nat
  BY <1>2 DEF Bounded, TypeOK, RaftTypeOK, LastTerm
<1> QED
  BY <1>1, <1>2, <1>3 DEF Agree

\* Closures still to run are of entries in the committed log.
LEMMA ClosingCommitted ==
  ASSUME Bounded, NEW s \in Server, NEW i \in Closing(s)
  PROVE  /\ i \in 1 .. Len(committed) /\ i \in Nat /\ applied[s] < i
         /\ i <= batchEnd[s] /\ firstClosure[s] <= i
BY PeerNumbers DEF Bounded, WithinLog, TypeOK, RaftTypeOK, Closing, HasClosure

\* Only a leader's commit changes the committed log.
LEMMA OnlyCommit ==
  ASSUME [Next]_vars
  PROVE  committed' = committed \/ \E s \in Server : Commit(s)
BY ZenonT(20) DEF Next, BecomeLeader, Elect, StepDown, RaftStepDown, Learn, FollowerCommit,
       FsmBegin, FsmApply, FsmStop, TimerSave, FsmSave, SaveFinish, Install,
       FsmLoad, FsmLoadFails, Crash, RaftCrash, Restart, FetchAdd, GetBegin,
       NodeApply, LeaderAppend, Run, GetEnd, vars, raftVars

\* A step only ever adds to the committed log.
LEMMA CommittedGrows ==
  ASSUME Bounded, [Next]_vars
  PROVE  /\ Len(committed) \in Nat /\ Len(committed) <= Len(committed')
         /\ \A i \in 1 .. Len(committed) : committed'[i] = committed[i]
<1>1. Len(committed) \in Nat
  BY DEF Bounded, TypeOK, RaftTypeOK
<1> QED
  BY <1>1, OnlyCommit, CommitBounded

\* What does not change, claims nothing new.
LEMMA ClaimsKept ==
  ASSUME Bounded, [Next]_vars, NEW s \in Server, PeerKept(s), NEW t
  PROVE  Closing(s)' = Closing(s) /\ Claims(s, t)' = Claims(s, t)
<1>1. Closing(s)' = Closing(s)
  BY DEF PeerKept, Closing, HasClosure
<1>2. \A i \in Closing(s) : committed'[i] = committed[i]
  BY ClosingCommitted, CommittedGrows
<1> QED
  BY <1>1, <1>2 DEF PeerKept, Claims

\* A new batch holds closures only of the term that s leads.
LEMMA BatchOwned ==
  ASSUME Bounded, NEW s \in Server, PeerRight(s), FsmBegin(s)
  PROVE  \/ Closing(s)' = Closing(s)
         \/ Closing(s)' = {}
         \/ /\ leads[s] # 0
            /\ \A i \in Closing(s)' :
                 /\ i \in firstPending[s] .. Len(termLog[leads[s]])
                 /\ i \in 1 .. Len(committed)
                 /\ committed[i] = termLog[leads[s]][i]
<1> USE DEF Bounded
<1> DEFINE k == Head(queue[s]).index
<1>1. /\ queue[s] # << >> /\ applied' = applied /\ applied[s] = batchEnd[s]
  BY DEF FsmBegin, NextTask
<1>2. k \in Nat /\ k <= commitIndex[s]
  BY <1>1, HeadOfQueue, PeerNumbers DEF PeerRight, OwnBounds
<1>3. /\ batchEnd \in [Server -> Nat] /\ firstClosure \in [Server -> Nat]
      /\ applied[s] \in Nat
  BY DEF TypeOK
<1>4. CASE k <= applied[s]
  BY <1>1, <1>4 DEF FsmBegin, Closing, HasClosure
<1>5. CASE ~(k <= applied[s])
  <2>1. /\ batchEnd'[s] = k
        /\ firstClosure'[s] = IF leads[s] # 0 /\ firstPending[s] <= k
                              THEN firstPending[s] ELSE k + 1
    BY <1>3, <1>5 DEF FsmBegin
  <2>2. CASE leads[s] # 0 /\ firstPending[s] <= k
    <3>1. ASSUME NEW i \in Closing(s)'
          PROVE  /\ i \in firstPending[s] .. Len(termLog[leads[s]])
                 /\ i \in 1 .. Len(committed)
                 /\ committed[i] = termLog[leads[s]][i]
      <4>1. i \in applied[s] + 1 .. k /\ firstPending[s] <= i
        BY <1>1, <2>1, <2>2, <3>1 DEF Closing, HasClosure
      <4>2. i \in Nat \ {0} /\ i <= commitIndex[s]
        BY <1>2, <1>3, <4>1, PeerNumbers
      <4> HIDE DEF k, Bounded
      <4> QED
        BY <2>2, <4>1, <4>2, LeaderAgrees, PeerNumbers DEF Bounded
    <3> QED
      BY <2>2, <3>1
  <2>3. CASE ~(leads[s] # 0 /\ firstPending[s] <= k)
    <3>1. firstClosure'[s] = k + 1
      BY <2>1, <2>3
    <3>2. Closing(s)' = {i \in applied[s] + 1 .. k : k + 1 <= i}
      BY <1>1, <2>1, <3>1 DEF Closing, HasClosure
    <3> QED
      BY <1>2, <1>3, <3>2
  <2> QED
    BY <2>2, <2>3
<1> QED
  BY <1>4, <1>5

\* A peer comes to act for a term only by winning its election.
LEMMA ClaimsStep ==
  ASSUME NEW s \in Server, Bounded, PeerRight(s), OwnPending, [Next]_vars,
         PeerStep(s), NEW t \in 1 .. MaxTerm, Claims(s, t)'
  PROVE  Claims(s, t) \/ (BecomeLeader(s) /\ t = LastTerm + 1)
<1> USE DEF Bounded
<1>1. t \in Nat \ {0} /\ t # NotLeader
  BY RaftAssumption DEF NotLeader
<1>2. \A i \in Closing(s) : committed'[i] = committed[i]
  BY ClosingCommitted, CommittedGrows
<1>3. ASSUME Closing(s)' = Closing(s) \/ Closing(s)' = {},
             leads'[s] = leads[s] \/ leads'[s] = 0,
             leaderTerm'[s] = leaderTerm[s] \/ leaderTerm'[s] = NotLeader
      PROVE  Claims(s, t)
  BY <1>1, <1>2, <1>3 DEF Claims
<1>4. CASE BecomeLeader(s)
  <2>1. leads'[s] = LastTerm + 1 /\ UNCHANGED fsmVars
    BY <1>4, ElectShape DEF BecomeLeader, TypeOK, RaftTypeOK
  <2>2. Closing(s)' = Closing(s) /\ leaderTerm' = leaderTerm
    BY <2>1 DEF Closing, HasClosure, fsmVars
  <2> QED
    BY <1>2, <1>4, <2>1, <2>2 DEF Claims
<1>5. CASE StepDown(s) \/ Commit(s) \/ Learn(s) \/ TimerSave(s) \/ FsmSave(s)
           \/ SaveFinish(s) \/ FsmLoadFails(s) \/ \E from \in Server : Install(s, from)
  <2>1. /\ UNCHANGED <<leaderTerm, applied, batchEnd, firstClosure>>
        /\ leads'[s] = leads[s] \/ leads'[s] = 0
    BY <1>5 DEF StepDown, RaftStepDown, Commit, LeaderCommit, Learn, FollowerCommit,
                TimerSave, FsmSave, SaveFinish, FsmLoadFails, Install, TypeOK,
                RaftTypeOK, raftVars, fsmVars
  <2>2. Closing(s)' = Closing(s)
    BY <2>1 DEF Closing, HasClosure
  <2> QED
    BY <1>3, <2>1, <2>2
<1>6. CASE FsmBegin(s)
  <2>1. UNCHANGED <<leads, leaderTerm, committed>>
    BY <1>6 DEF FsmBegin
  <2>2. ASSUME leads[s] # 0,
               \A i \in Closing(s)' :
                 /\ i \in firstPending[s] .. Len(termLog[leads[s]])
                 /\ i \in 1 .. Len(committed)
                 /\ committed[i] = termLog[leads[s]][i]
        PROVE  Claims(s, t)
    <3>1. \A i \in Closing(s)' : committed[i].term = leads[s]
      BY <2>2 DEF OwnPending
    <3> QED
      BY <2>1, <3>1 DEF Claims
  <2> QED
    BY <1>3, <1>6, <2>1, <2>2, BatchOwned
<1>7. CASE FsmApply(s)
  <2> DEFINE i == applied[s] + 1
  <2>1. /\ applied'[s] = i /\ applied[s] < batchEnd[s]
        /\ UNCHANGED <<leads, committed, batchEnd, firstClosure>>
    BY <1>7 DEF FsmApply, TypeOK, raftVars
  <2>2. \/ leaderTerm'[s] = leaderTerm[s]
        \/ HasClosure(s, i) /\ leaderTerm'[s] = committed[i].term
    BY <1>7 DEF FsmApply, ApplyAdd, ApplyNoOp, OnLeaderStart, TypeOK
  <2>3. i \in applied[s] + 1 .. batchEnd[s] /\ \A j \in Closing(s)' : j \in Closing(s)
    BY <2>1, PeerNumbers DEF Closing, HasClosure
  <2>4. HasClosure(s, i) => i \in Closing(s)
    BY <2>3 DEF Closing
  <2> HIDE DEF i
  <2> QED
    BY <2>1, <2>2, <2>3, <2>4 DEF Claims
<1>8. CASE FsmStop(s)
  <2>1. /\ UNCHANGED <<leads, applied, batchEnd, firstClosure>>
        /\ leaderTerm'[s] = NotLeader
    BY <1>8 DEF FsmStop, StoppedTerm, TypeOK, raftVars
  <2> QED
    BY <1>3, <2>1 DEF Closing, HasClosure
<1>9. CASE FsmLoad(s) \/ Restart(s)
  <2>1. /\ UNCHANGED <<leads, leaderTerm>>
        /\ applied'[s] = snapshot[s].index /\ batchEnd'[s] = snapshot[s].index
    BY <1>9 DEF FsmLoad, Restart, TypeOK, raftVars
  <2>2. Closing(s)' = {}
    BY <2>1, PeerNumbers DEF Closing
  <2> QED
    BY <1>3, <2>1, <2>2
<1>10. CASE Crash(s)
  <2>1. /\ leads'[s] = 0 /\ leaderTerm'[s] = NotLeader
        /\ applied'[s] = 0 /\ batchEnd'[s] = 0
    BY <1>10 DEF Crash, RaftCrash, TypeOK, RaftTypeOK
  <2>2. Closing(s)' = {}
    BY <2>1 DEF Closing
  <2> QED
    BY <1>3, <2>1, <2>2
<1> QED
  BY <1>4, <1>5, <1>6, <1>7, <1>8, <1>9, <1>10 DEF PeerStep

\* Which step extends which log.
LEMMA LogsStep ==
  ASSUME BoundedInv, [Next]_vars
  PROVE  \/ \E s \in Server : BecomeLeader(s)
         \/ /\ termLog' = termLog
         \/ \E r \in Request :
              /\ NodeApply(r) /\ call[r].at \in Server /\ leads[call[r].at] # 0
              /\ LeaderAppend(call[r].at, r)
<1>1. ASSUME NEW r \in Request, NodeApply(r)
      PROVE  \/ termLog' = termLog
             \/ /\ call[r].at \in Server /\ leads[call[r].at] # 0
                /\ LeaderAppend(call[r].at, r)
  BY <1>1 DEF NodeApply, BoundedInv, Placed, raftVars
<1>2. ASSUME NEW s \in Server, PeerStep(s), ~BecomeLeader(s)
      PROVE  termLog' = termLog
  BY <1>2 DEF PeerStep, StepDown, RaftStepDown, Commit, LeaderCommit, Learn,
       FollowerCommit, FsmBegin, FsmApply, FsmStop, TimerSave, FsmSave, SaveFinish,
       Install, FsmLoad, FsmLoadFails, Crash, RaftCrash, Restart, raftVars
<1>3. ASSUME \/ \E r \in Request : Run(r) \/ \E s \in Server : FetchAdd(r, s)
             \/ \E q \in Query : GetEnd(q) \/ \E s \in Server : GetBegin(q, s)
      PROVE  termLog' = termLog
  BY <1>3 DEF Run, FetchAdd, GetEnd, GetBegin, raftVars
<1> QED
  BY <1>1, <1>2, <1>3 DEF Next, PeerStep, vars, raftVars

\* Logs stay ordered.
LEMMA OrderedStep ==
  ASSUME BoundedInv, TermsOrdered, [Next]_vars
  PROVE  TermsOrdered'
<1> USE DEF BoundedInv, Bounded
<1> DEFINE Ordered(log, t) ==
             \A j \in 1 .. Len(log) : /\ log[j].term <= t
                                      /\ \A i \in 1 .. j : log[i].term <= log[j].term
<1>1. \A t \in 1 .. LastTerm : Ordered(termLog[t], t)
  BY DEF TermsOrdered
<1>2. \A t \in 1 .. LastTerm : \A j \in 1 .. Len(termLog[t]) : termLog[t][j].term \in Nat
  <2>1. \A t \in 1 .. LastTerm : termLog[t] \in Seq(Entry)
    BY DEF TypeOK, RaftTypeOK, LastTerm
  <2>2. \A t \in 1 .. LastTerm : \A j \in 1 .. Len(termLog[t]) : termLog[t][j] \in Entry
    BY <2>1
  <2> QED
    BY <2>2, RaftAssumption DEF Entry
<1>3. ASSUME NEW s \in Server, BecomeLeader(s)
      PROVE  TermsOrdered'
  <2> DEFINE new == termLog'[LastTerm + 1]
             T == LastTerm + 1
  <2>1. /\ LastTerm \in Nat /\ LastTerm' = T
        /\ \A u \in 1 .. LastTerm : termLog'[u] = termLog[u]
        /\ \E t \in 0 .. LastTerm : \E k \in 0 .. Len(LogOf(t)) :
             /\ Len(LogOf(t)) \in Nat /\ Len(new) = k + 1
             /\ \A i \in 1 .. k : new[i] = LogOf(t)[i]
             /\ new[k + 1].term = T
    BY <1>3, ElectShape DEF TypeOK, BecomeLeader
  <2> HIDE DEF new
  <2>2. PICK t \in 0 .. LastTerm : \E k \in 0 .. Len(LogOf(t)) :
             /\ Len(LogOf(t)) \in Nat /\ Len(new) = k + 1
             /\ \A i \in 1 .. k : new[i] = LogOf(t)[i]
             /\ new[k + 1].term = T
    BY <2>1
  <2>3. PICK k \in 0 .. Len(LogOf(t)) :
             /\ Len(LogOf(t)) \in Nat /\ Len(new) = k + 1
             /\ \A i \in 1 .. k : new[i] = LogOf(t)[i]
             /\ new[k + 1].term = T
    BY <2>2
  <2>4. ASSUME NEW j \in 1 .. k
        PROVE  /\ new[j].term <= t /\ new[j].term \in Nat
               /\ \A i \in 1 .. j : new[i].term <= new[j].term
    <3>1. t \in 1 .. LastTerm /\ j \in 1 .. Len(termLog[t]) /\ LogOf(t) = termLog[t]
      BY <2>1, <2>3 DEF LogOf
    <3>2. \A i \in 1 .. j : new[i] = termLog[t][i]
      BY <2>3, <3>1
    <3>3. new[j] = termLog[t][j]
      BY <2>3, <3>1
    <3> QED
      BY <1>1, <1>2, <3>1, <3>2, <3>3
  <2>5. Ordered(new, T)
    <3> SUFFICES ASSUME NEW j \in 1 .. k + 1
                 PROVE  new[j].term <= T /\ \A i \in 1 .. j : new[i].term <= new[j].term
      BY <2>3
    <3>1. CASE j \in 1 .. k
      BY <2>1, <2>4, <3>1
    <3>2. CASE j = k + 1
      <4>1. \A i \in 1 .. k + 1 : i = k + 1 \/ i \in 1 .. k
        BY <2>3
      <4> QED
        BY <2>1, <2>3, <2>4, <3>2, <4>1
    <3> QED
      BY <2>3, <3>1, <3>2
  <2>6. \A u \in 1 .. T : u = T \/ u \in 1 .. LastTerm
    BY <2>1
  <2> HIDE DEF Ordered
  <2>7. \A u \in 1 .. LastTerm' : Ordered(termLog'[u], u)
    BY <1>1, <2>1, <2>5, <2>6 DEF new
  <2> QED
    BY <2>7 DEF TermsOrdered, Ordered
<1>4. ASSUME NEW s \in Server, NEW r \in Request, leads[s] # 0, LeaderAppend(s, r)
      PROVE  TermsOrdered'
  <2> DEFINE t == leads[s]
             log == termLog[t]
             new == termLog'[t]
             n == Len(log)
  <2>1. /\ t \in 1 .. LastTerm /\ LastTerm' = LastTerm
        /\ \A u \in 1 .. LastTerm : u # t => termLog'[u] = termLog[u]
        /\ n \in Nat /\ Len(new) = n + 1
        /\ \A i \in 1 .. n : new[i] = log[i]
        /\ new[n + 1].term = t
    <3>1. RaftTypeOK /\ RaftInv
      BY DEF TypeOK
    <3>2. /\ leads[s] \in 1 .. LastTerm /\ LastTerm' = LastTerm
          /\ \A u \in 1 .. LastTerm : u # leads[s] => termLog'[u] = termLog[u]
          /\ termLog[leads[s]] \in Seq(Entry)
          /\ Len(termLog'[leads[s]]) = Len(termLog[leads[s]]) + 1
          /\ \A i \in 1 .. Len(termLog[leads[s]]) :
               termLog'[leads[s]][i] = termLog[leads[s]][i]
          /\ termLog'[leads[s]][Len(termLog[leads[s]]) + 1].term = leads[s]
      BY <1>4, <3>1, AppendLogs
    <3> HIDE DEF BoundedInv, Bounded
    <3>3. Len(log) \in Nat
      BY <3>2
    <3> QED
      BY <3>2, <3>3
  <2>2. \A j \in 1 .. n : log[j].term \in Nat
    BY <1>2, <2>1
  <2> HIDE DEF new, t
  <2>3. Ordered(log, t) /\ t \in Int
    BY <1>1, <2>1 DEF t
  <2> HIDE DEF n, log
  <2>4. Ordered(new, t)
    <3> SUFFICES ASSUME NEW j \in 1 .. n + 1
                 PROVE  new[j].term <= t /\ \A i \in 1 .. j : new[i].term <= new[j].term
      BY <2>1
    <3>1. CASE j \in 1 .. n
      <4>1. \A i \in 1 .. j : i \in 1 .. n
        BY <2>1, <3>1
      <4> QED
        BY <2>1, <2>3, <3>1, <4>1 DEF n
    <3>2. CASE j = n + 1
      <4>1. \A i \in 1 .. n + 1 : i = n + 1 \/ i \in 1 .. n
        BY <2>1
      <4> QED
        BY <2>1, <2>2, <2>3, <3>2, <4>1 DEF n
    <3> QED
      BY <2>1, <3>1, <3>2
  <2> HIDE DEF Ordered
  <2>5. \A u \in 1 .. LastTerm' : Ordered(termLog'[u], u)
    BY <1>1, <2>1, <2>4 DEF new
  <2> QED
    BY <2>5 DEF TermsOrdered, Ordered
<1>5. CASE termLog' = termLog
  BY <1>5 DEF TermsOrdered, LastTerm
<1> QED
  BY <1>3, <1>4, <1>5, LogsStep

\* Only an election fills a closure queue; other steps leave or shorten it.
LEMMA PendingShrinks ==
  ASSUME NEW v \in Server, Bounded, PeerStep(v), ~BecomeLeader(v)
  PROVE  /\ leads'[v] = leads[v] \/ leads'[v] = 0
         /\ firstPending'[v] \in Nat
         /\ firstPending'[v] >= firstPending[v]
<1> USE DEF Bounded
<1>1. leads \in [Server -> 0 .. MaxTerm] /\ firstPending \in [Server -> Nat]
  BY DEF TypeOK, RaftTypeOK
<1>2. CASE FsmBegin(v)
  <2>1. \/ firstPending'[v] = firstPending[v]
        \/ /\ firstPending'[v] = Head(queue[v]).index + 1
           /\ firstPending[v] <= Head(queue[v]).index
    BY <1>1, <1>2 DEF FsmBegin
  <2>2. Head(queue[v]).index \in Nat
    BY <1>2, DequeueWithin DEF FsmBegin, NextTask
  <2>3. leads' = leads
    BY <1>2 DEF FsmBegin
  <2> QED
    BY <1>1, <2>1, <2>2, <2>3
<1>3. CASE ~FsmBegin(v)
  BY <1>1, <1>3 DEF PeerStep, StepDown, RaftStepDown, Commit, LeaderCommit, Learn,
     FollowerCommit, FsmApply, FsmStop, TimerSave, FsmSave, SaveFinish,
     Install, FsmLoad, FsmLoadFails, Crash, RaftCrash, Restart, raftVars
<1> QED
  BY <1>2, <1>3

\* Closures a leader has are of its own term, also as its log grows.
LEMMA OwnPendingStep ==
  ASSUME BoundedInv, PeersRight, OwnPending, [Next]_vars
  PROVE  OwnPending'
<1> USE DEF BoundedInv, Bounded
<1> SUFFICES ASSUME NEW v \in Server, leads'[v] # 0,
                    NEW i \in firstPending'[v] .. Len(termLog'[leads'[v]])
             PROVE  termLog'[leads'[v]][i].term = leads'[v]
  BY DEF OwnPending
<1>1. /\ LastTerm \in Nat /\ leads \in [Server -> 0 .. MaxTerm]
      /\ firstPending \in [Server -> Nat]
      /\ leads[v] # 0 => leads[v] \in 1 .. LastTerm
  <2>1. leads[v] <= LastTerm /\ leads[v] \in 0 .. MaxTerm
    BY DEF RaftInv, LogMatching, TypeOK, RaftTypeOK
  <2> QED
    BY <2>1, RaftAssumption DEF TypeOK, RaftTypeOK, LastTerm
<1>2. ASSUME NEW s \in Server, BecomeLeader(s)
      PROVE  termLog'[leads'[v]][i].term = leads'[v]
  <2> DEFINE T == LastTerm + 1
             new == termLog'[T]
  <2>1. /\ leads' = [leads EXCEPT ![s] = T]
        /\ \A u \in 1 .. LastTerm : termLog'[u] = termLog[u]
        /\ \E t \in 0 .. LastTerm : \E k \in 0 .. Len(LogOf(t)) :
             /\ firstPending' = [firstPending EXCEPT ![s] = k + 1]
             /\ Len(LogOf(t)) \in Nat /\ Len(new) = k + 1 /\ new[k + 1].term = T
    <3>1. RaftTypeOK /\ RaftInv
      BY DEF TypeOK
    <3>2. Elect(s)
      BY <1>2 DEF BecomeLeader
    <3> QED
      BY <3>1, <3>2, ElectShape
  <2> HIDE DEF new
  <2>2. PICK t \in 0 .. LastTerm : \E k \in 0 .. Len(LogOf(t)) :
             /\ firstPending' = [firstPending EXCEPT ![s] = k + 1]
             /\ Len(LogOf(t)) \in Nat /\ Len(new) = k + 1 /\ new[k + 1].term = T
    BY <2>1
  <2>3. PICK k \in 0 .. Len(LogOf(t)) :
             /\ firstPending' = [firstPending EXCEPT ![s] = k + 1]
             /\ Len(LogOf(t)) \in Nat /\ Len(new) = k + 1 /\ new[k + 1].term = T
    BY <2>2
  <2>4. CASE v = s
    <3>1. leads'[v] = T /\ firstPending'[v] = k + 1
      BY <1>1, <2>1, <2>3, <2>4
    <3>2. i = k + 1
      BY <2>3, <3>1 DEF new
    <3> QED
      BY <2>3, <3>1, <3>2 DEF new
  <2>5. CASE v # s
    <3>1. leads'[v] = leads[v] /\ firstPending'[v] = firstPending[v]
      BY <1>1, <2>1, <2>3, <2>5
    <3>2. termLog'[leads[v]] = termLog[leads[v]]
      BY <1>1, <2>1, <3>1
    <3> QED
      BY <3>1, <3>2 DEF OwnPending
  <2> QED
    BY <2>4, <2>5
<1>3. ASSUME NEW s \in Server, NEW r \in Request, leads[s] # 0, LeaderAppend(s, r)
      PROVE  termLog'[leads'[v]][i].term = leads'[v]
  <2>1. leads' = leads /\ firstPending' = firstPending
    BY <1>3 DEF LeaderAppend
  <2>2. CASE leads[v] # leads[s]
    <3>1. termLog'[leads[v]] = termLog[leads[v]]
      BY <1>1, <1>3, <2>1, <2>2, AppendLogs DEF TypeOK
    <3> QED
      BY <2>1, <3>1 DEF OwnPending
  <2>3. CASE leads[v] = leads[s]
    <3> DEFINE t == leads[s]
    <3>1. /\ Len(termLog[t]) \in Nat /\ Len(termLog'[t]) = Len(termLog[t]) + 1
          /\ \A j \in 1 .. Len(termLog[t]) : termLog'[t][j] = termLog[t][j]
          /\ termLog'[t][Len(termLog[t]) + 1].term = t
      <4>1. termLog[t] \in Seq(Entry)
        BY <1>3, AppendLogs DEF TypeOK
      <4> QED
        BY SMTT(20), <1>3, <4>1, AppendLogs DEF TypeOK
    <3> HIDE DEF t
    <3>2. i \in firstPending[v] .. Len(termLog[t]) + 1 /\ firstPending[v] \in Nat
      BY <1>1, <2>1, <2>3, <3>1 DEF t
    <3>3. CASE i = Len(termLog[t]) + 1
      BY <2>1, <2>3, <3>1, <3>3 DEF t
    <3>4. CASE i # Len(termLog[t]) + 1
      <4>1. i \in firstPending[v] .. Len(termLog[t])
        BY <3>1, <3>2, <3>4
      <4>2. 1 <= firstPending[v]
        BY SMTT(20), <1>3, <2>3, PeerNumbers DEF PeersRight, PeerRight, OwnBounds
      <4>3. termLog'[t][i] = termLog[t][i]
        BY <3>1, <3>2, <4>1, <4>2
      <4> QED
        BY <1>3, <2>1, <2>3, <4>1, <4>3 DEF OwnPending, t
    <3> QED
      BY <3>3, <3>4
  <2> QED
    BY <2>2, <2>3
<1>4. CASE termLog' = termLog /\ ~\E s \in Server : BecomeLeader(s)
  <2>1. PeerKept(v) \/ PeerStep(v)
    BY OnePeer
  <2>2. PeerStep(v) => /\ leads'[v] = leads[v] \/ leads'[v] = 0
                       /\ firstPending'[v] \in Nat
                       /\ firstPending'[v] >= firstPending[v]
    BY <1>4, PendingShrinks
  <2>3. /\ leads'[v] = leads[v] /\ firstPending'[v] \in Nat
        /\ firstPending'[v] >= firstPending[v]
    BY <1>1, <2>1, <2>2 DEF PeerKept
  <2> QED
    BY <1>1, <1>4, <2>3 DEF OwnPending
<1> QED
  BY <1>2, <1>3, <1>4, LogsStep

\* A term keeps its one owner.
LEMMA OneOwnerStep ==
  ASSUME BoundedInv, PeersRight, OwnPending, OneOwner, [Next]_vars
  PROVE  OneOwner'
<1> USE DEF BoundedInv
<1>1. LastTerm \in Nat /\ LastTerm' \in Nat /\ LastTerm <= LastTerm'
  <2>1. LastTerm \in Nat
    BY DEF Bounded, TypeOK, RaftTypeOK, LastTerm
  <2>2. ASSUME NEW s \in Server, BecomeLeader(s)
        PROVE  LastTerm' = LastTerm + 1
    BY <2>2, ElectShape DEF Bounded, TypeOK, BecomeLeader
  <2>3. ASSUME NEW s \in Server, NEW r \in Request, leads[s] # 0, LeaderAppend(s, r)
        PROVE  LastTerm' = LastTerm
    BY <2>3, AppendLogs DEF Bounded, TypeOK
  <2>4. termLog' = termLog => LastTerm' = LastTerm
    BY DEF LastTerm
  <2> QED
    BY <2>1, <2>2, <2>3, <2>4, LogsStep
<1>2. ASSUME NEW v \in Server, NEW t \in 1 .. MaxTerm, Claims(v, t)'
      PROVE  Claims(v, t) \/ (BecomeLeader(v) /\ t = LastTerm + 1)
  <2>1. CASE PeerKept(v)
    BY <1>2, <2>1, ClaimsKept
  <2>2. CASE PeerStep(v)
    BY <1>2, <2>2, ClaimsStep DEF PeersRight
  <2> QED
    BY <2>1, <2>2, OnePeer
<1>3. ASSUME NEW v \in Server, BecomeLeader(v)
      PROVE  LastTerm' = LastTerm + 1
  BY <1>3, ElectShape DEF Bounded, TypeOK, BecomeLeader
<1>4. ASSUME NEW v \in Server, NEW w \in Server, BecomeLeader(v), BecomeLeader(w)
      PROVE  v = w
  <2>1. /\ leads' = [leads EXCEPT ![v] = LastTerm + 1]
        /\ leads' = [leads EXCEPT ![w] = LastTerm + 1]
        /\ leads \in [Server -> 0 .. MaxTerm] /\ leads[w] = 0
    BY <1>4, ElectShape DEF Bounded, TypeOK, RaftTypeOK, BecomeLeader, Elect
  <2>2. CASE v # w
    <3>1. leads'[w] = LastTerm + 1 /\ leads'[w] = leads[w]
      BY <2>1, <2>2
    <3> QED
      BY <1>1, <2>1, <3>1
  <2> QED
    BY <2>2
<1> SUFFICES ASSUME NEW t \in 1 .. MaxTerm, NEW s \in Server, Claims(s, t)'
             PROVE  /\ t <= LastTerm'
                    /\ \A v \in Server : Claims(v, t)' => v = s
  BY DEF OneOwner
<1>5. t \in Nat
  BY RaftAssumption
<1>6. t <= LastTerm'
  BY <1>1, <1>2, <1>3, <1>5 DEF OneOwner
<1>7. ASSUME NEW v \in Server, Claims(v, t)'
      PROVE  v = s
  <2>1. \A w \in Server : Claims(w, t) => t <= LastTerm
    BY DEF OneOwner
  <2>2. t = LastTerm + 1 => ~(t <= LastTerm)
    BY <1>1
  <2>3. CASE Claims(s, t)
    BY <1>2, <1>7, <2>1, <2>2, <2>3 DEF OneOwner
  <2>4. CASE BecomeLeader(s) /\ t = LastTerm + 1
    BY <1>2, <1>4, <1>7, <2>1, <2>2, <2>4
  <2> QED
    BY <1>2, <2>3, <2>4
<1> QED
  BY <1>6, <1>7

\* What a peer has applied only grows, except that a kill starts it over.
LEMMA AppliedGrows ==
  ASSUME NEW s \in Server, Bounded, PeersRight, [Next]_vars
  PROVE  /\ applied[s] \in Nat
         /\ Crash(s) \/ (applied'[s] \in Nat /\ applied[s] <= applied'[s])
<1> USE DEF Bounded
<1>1. applied \in [Server -> Nat] /\ batchEnd[s] \in Nat /\ snapshot[s].index \in Nat
  BY PeerNumbers DEF TypeOK
<1>2. CASE PeerKept(s)
  BY <1>1, <1>2 DEF PeerKept
<1>3. CASE FsmApply(s)
  BY <1>1, <1>3 DEF FsmApply
<1>4. CASE FsmLoad(s)
  <2>1. /\ applied[s] = batchEnd[s] /\ applied'[s] = snapshot[s].index
        /\ queue[s] # << >> /\ Head(queue[s]).type = "load"
    BY <1>1, <1>4 DEF FsmLoad, NextTask
  <2>2. batchEnd[s] <= snapshot[s].index
    BY <2>1, HeadOfQueue DEF PeersRight, PeerRight, LoadAhead
  <2> QED
    BY <1>1, <2>1, <2>2
<1>5. CASE Restart(s)
  <2>1. up[s] = "down" /\ applied'[s] = snapshot[s].index
    BY <1>1, <1>5 DEF Restart
  <2>2. applied[s] = 0
    BY <2>1 DEF PeersRight, PeerRight, Halted
  <2> QED
    BY <1>1, <2>1, <2>2
<1>6. CASE PeerStep(s) /\ ~FsmApply(s) /\ ~FsmLoad(s) /\ ~Restart(s) /\ ~Crash(s)
  <2>1. applied' = applied
    BY <1>6 DEF PeerStep, BecomeLeader, StepDown, Commit, Learn, FsmBegin, FsmStop,
                TimerSave, FsmSave, SaveFinish, Install, FsmLoadFails, fsmVars
  <2> QED
    BY <1>1, <2>1
<1> QED
  BY <1>1, <1>2, <1>3, <1>4, <1>5, <1>6, OnePeer

\* A peer that starts to lead has just applied the first entry of its term.
LEMMA CaughtUpStep ==
  ASSUME BoundedInv, PeersRight, CaughtUp, [Next]_vars
  PROVE  CaughtUp'
<1> USE DEF BoundedInv
<1> SUFFICES ASSUME NEW s \in Server, IsLeader(s)'
             PROVE  \E p \in 1 .. applied'[s] : committed'[p].term = leaderTerm'[s]
  BY DEF CaughtUp
<1>1. /\ leaderTerm'[s] > 0
      /\ leaderTerm \in [Server -> {NotLeader} \cup 1 .. MaxTerm]
  BY DEF IsLeader, Bounded, TypeOK
<1>2. ~Crash(s)
  <2>1. Crash(s) => leaderTerm'[s] = NotLeader
    BY <1>1 DEF Crash
  <2> QED
    BY <1>1, <2>1 DEF NotLeader
<1>3. applied[s] \in Nat /\ applied'[s] \in Nat /\ applied[s] <= applied'[s]
  BY <1>2, AppliedGrows
<1>4. applied[s] <= Len(committed) /\ Len(committed) \in Nat
  BY PeerNumbers DEF Bounded, WithinLog, TypeOK, RaftTypeOK
<1>5. CASE leaderTerm'[s] = leaderTerm[s]
  <2>1. PICK p \in 1 .. applied[s] : committed[p].term = leaderTerm[s]
    BY <1>1, <1>5 DEF CaughtUp, IsLeader
  <2>2. p \in 1 .. applied'[s] /\ p \in 1 .. Len(committed)
    BY <1>3, <1>4
  <2>3. committed'[p] = committed[p]
    BY <2>2, CommittedGrows
  <2> QED
    BY <1>5, <2>1, <2>2, <2>3
<1>6. CASE FsmApply(s) /\ leaderTerm'[s] # leaderTerm[s]
  <2> DEFINE i == applied[s] + 1
  <2>1. /\ applied'[s] = i /\ committed' = committed
        /\ leaderTerm'[s] = committed[i].term
    BY <1>1, <1>6 DEF FsmApply, ApplyAdd, ApplyNoOp, OnLeaderStart, raftVars,
                      Bounded, TypeOK
  <2>2. i \in 1 .. i
    BY <1>3
  <2> QED
    BY <2>1, <2>2
<1>7. CASE FsmStop(s)
  BY <1>1, <1>7 DEF FsmStop, StoppedTerm, NotLeader
<1>8. CASE PeerStep(s) /\ ~FsmApply(s) /\ ~FsmStop(s)
  <2>1. leaderTerm' = leaderTerm
    BY <1>2, <1>8
    DEF PeerStep, BecomeLeader, StepDown, Commit, Learn, FsmBegin, TimerSave,
        FsmSave, SaveFinish, Install, FsmLoad, FsmLoadFails, Restart, fsmVars
  <2> QED
    BY <1>5, <2>1
<1> QED
  BY <1>5, <1>6, <1>7, <1>8, OnePeer DEF PeerKept

\* The fifth layer is an invariant of the specification.
LEMMA TermsInit == Init => TermsRight
<1> SUFFICES ASSUME Init PROVE TermsRight
  OBVIOUS
<1>1. LastTerm = 0 /\ \A s \in Server : leads[s] = 0 /\ leaderTerm[s] = NotLeader
                                       /\ applied[s] = 0 /\ batchEnd[s] = 0
  BY DEF Init, RaftInit, LastTerm
<1>2. \A s \in Server : \A i \in Closing(s) : FALSE
  BY <1>1 DEF Closing
<1>3. \A s \in Server, t \in 1 .. MaxTerm : ~Claims(s, t)
  BY <1>1, <1>2, RaftAssumption DEF Claims, NotLeader
<1> QED
  BY <1>1, <1>3 DEF TermsRight, TermsOrdered, OwnPending, OneOwner, CaughtUp,
                    IsLeader, NotLeader

\* Every step keeps the fifth layer.
LEMMA TermsStep ==
  BoundedInv /\ PeersRight /\ TermsRight /\ [Next]_vars => TermsRight'
  BY OrderedStep, OwnPendingStep, OneOwnerStep, CaughtUpStep DEF TermsRight

\* The layers up to the fifth are invariants of the specification.
LEMMA TermsAlways ==
  Spec => [](BoundedInv /\ Valued /\ AnswersRight /\ PeersRight /\ TermsRight)
  BY BoundedInit, BoundedStep, ValuedInit, ValuedStep, AnswersInit, AnswersStep,
     PeersInit, PeersStep, TermsInit, TermsStep, PTL DEF Spec

-----------------------------------------------------------------------------
(* Reads.  A get finds a term t in _leader_term.  Additions acknowledged in *)
(* an earlier term are below the first entry of t, which the peer has       *)
(* applied; those acknowledged in t were applied by the same peer.  Both    *)
(* need FLAGS_check_term: without it the term of a call is not the term of  *)
(* its entry.                                                               *)

\* The owner of a term has applied every addition applied in that term.
AppliedByOwner ==
  \A s \in Server, r \in Request, t \in 1 .. MaxTerm :
    call[r].pc \in {"applied", "ok"} /\ call[r].term = t /\ Claims(s, t) =>
      \E i \in 1 .. applied[s] : committed[i].req = r

\* What a get has to reflect is below n.
Covered(q, n) ==
  \A r \in query[q].seen : call[r].term <= query[q].term =>
    \E i \in 1 .. n : committed[i].req = r

\* A get between its two loads is covered by what its peer has applied, and an
\* answered one by what its answer was computed from.
ReadSound(q) ==
  /\ \A r \in query[q].seen : call[r].pc \notin EarlyStates
  /\ query[q].pc = "checked" => Covered(q, applied[query[q].at])
  /\ query[q].pc = "ok" => /\ query[q].index <= Len(committed)
                           /\ query[q].value = ValueAt(query[q].index)
                           /\ Covered(q, query[q].index)

ReadsRight == AppliedByOwner /\ \A q \in Query : ReadSound(q)

\* All layers but the last.
Layers == BoundedInv /\ Valued /\ AnswersRight /\ PeersRight /\ TermsRight

\* The entry of an applied addition is committed under the call's term.
LEMMA AppliedEntry ==
  ASSUME CheckTerm, Layers, NEW r \in Request, call[r].pc \in {"applied", "ok"}
  PROVE  \E i \in 1 .. Len(committed) :
           committed[i].req = r /\ committed[i].term = call[r].term
<1>1. PICK i \in 1 .. Len(committed) : committed[i].req = r
  BY DEF Layers, AnswersRight, AnswersSound
<1>2. r # NoOp /\ Bounded
  BY RaftAssumption DEF Layers, BoundedInv
<1>3. committed[i].term = call[r].term
  BY <1>1, <1>2, CommittedInNewest DEF Layers, AnswersRight, LoggedOnce
<1> QED
  BY <1>1, <1>3

\* A peer that reports term t has applied what was acknowledged up to t.
LEMMA LeaderCovers ==
  ASSUME CheckTerm, Layers, AppliedByOwner, NEW s \in Server, IsLeader(s),
         NEW r \in Request, call[r].pc \in {"applied", "ok"},
         call[r].term <= leaderTerm[s]
  PROVE  \E i \in 1 .. applied[s] : committed[i].req = r
<1>4. BoundedInv /\ Bounded /\ TypeOK /\ RaftTypeOK /\ WithinLog /\ TermsRight
  BY DEF Layers, BoundedInv, Bounded, TypeOK
<1>1. /\ call[r].term \in Int /\ leaderTerm[s] \in 1 .. MaxTerm /\ leaderTerm[s] \in Nat
      /\ applied[s] \in Nat /\ Len(committed) \in Nat
      /\ applied[s] <= Len(committed)
  <2>1. call[r] \in Call /\ leaderTerm[s] \in {NotLeader} \cup 1 .. MaxTerm
    BY <1>4 DEF TypeOK
  <2>2. call[r].term \in {NotLeader} \cup 1 .. MaxTerm
    BY <2>1 DEF Call
  <2>3. call[r].term \in Int /\ leaderTerm[s] \in 1 .. MaxTerm /\ leaderTerm[s] \in Nat
    BY <2>1, <2>2, RaftAssumption DEF IsLeader, NotLeader
  <2>4. applied[s] \in Nat /\ batchEnd[s] \in Nat /\ Len(committed) \in Nat
    BY <1>4 DEF TypeOK, RaftTypeOK
  <2>5. applied[s] <= Len(committed)
    BY <1>4, <2>4 DEF WithinLog
  <2> QED
    BY <2>3, <2>4, <2>5
<1>2. CASE call[r].term = leaderTerm[s]
  BY <1>1, <1>2 DEF AppliedByOwner, Claims
<1>3. CASE call[r].term < leaderTerm[s]
  <2>1. PICK p \in 1 .. applied[s] : committed[p].term = leaderTerm[s]
    BY <1>4 DEF TermsRight, CaughtUp
  <2>2. PICK i \in 1 .. Len(committed) :
          committed[i].req = r /\ committed[i].term = call[r].term
    BY AppliedEntry
  <2>3. p \in 1 .. Len(committed)
    BY <1>1
  <2>4. ~(p <= i)
    <3>1. p <= i => p \in 1 .. i
      OBVIOUS
    <3> QED
      BY <1>1, <1>3, <1>4, <2>1, <2>2, <3>1, CommittedOrdered DEF TermsRight
  <2>5. i \in 1 .. applied[s]
    BY <1>1, <2>4
  <2> QED
    BY <2>2, <2>5
<1> QED
  BY <1>1, <1>2, <1>3

\* Answered and applied calls keep their term.
LEMMA CallsStep ==
  ASSUME BoundedInv, [Next]_vars
  PROVE  /\ CallsAdvance
         /\ NothingApplied \/ \E s \in Server : FsmApply(s)
<1>1. call \in [Request -> Call]
  BY DEF BoundedInv, Bounded, TypeOK
<1>2. CASE call' = call
  BY <1>2, CallsKept
<1>3. ASSUME NEW s \in Server, StepDown(s)
      PROVE  CallsAdvance /\ NothingApplied
  BY <1>1, <1>3 DEF StepDown, FailPending, CallsAdvance, NothingApplied,
                    EarlyStates, Call
<1>4. ASSUME NEW s \in Server, Crash(s)
      PROVE  CallsAdvance /\ NothingApplied
  BY <1>1, <1>4 DEF Crash, LoseCalls, CallsAdvance, NothingApplied,
                    EarlyStates, Call
<1>5. ASSUME NEW s \in Server, FsmApply(s)
      PROVE  CallsAdvance
  <2> DEFINE c == committed[applied[s] + 1].req
  <2>1. \/ call' = call
        \/ call' = [call EXCEPT ![c].pc = "applied",
                                ![c].value = FetchResult(value[s], Delta[c])]
    BY <1>5 DEF FsmApply, ApplyAdd, ApplyNoOp
  <2>2. \A r \in Request :
          \/ call'[r] = call[r]
          \/ call'[r].pc = "applied" /\ call'[r].term = call[r].term
    BY <1>1, <2>1 DEF Call
  <2> QED
    BY <2>2 DEF CallsAdvance, EarlyStates
<1>6. ASSUME NEW r \in Request, NodeApply(r) \/ Run(r)
      PROVE  CallsAdvance /\ NothingApplied
  <2>1. \E pc \in {"logged", "failed", "ok", "redirected"} :
          /\ call' = [call EXCEPT ![r].pc = pc]
          /\ pc = "ok" => call[r].pc = "applied"
    BY <1>6 DEF NodeApply, Run
  <2> QED
    BY <1>1, <2>1 DEF CallsAdvance, NothingApplied, EarlyStates, Call
<1>7. ASSUME NEW r \in Request, NEW s \in Server, FetchAdd(r, s)
      PROVE  CallsAdvance /\ NothingApplied
  <2>1. call[r].pc = "idle"
    BY <1>7 DEF FetchAdd
  <2>2. /\ call'[r].pc \in {"handling", "refused"}
        /\ \A x \in Request : x # r => call'[x] = call[x]
    BY ZenonT(20), <1>1, <1>7 DEF FetchAdd, Call
  <2> QED
    BY <2>1, <2>2 DEF CallsAdvance, NothingApplied, EarlyStates
<1>8. CASE UNCHANGED vars
  BY <1>2, <1>8 DEF vars, rpcVars
<1>9. ASSUME NEW s \in Server, PeerStep(s), ~StepDown(s), ~Crash(s), ~FsmApply(s)
      PROVE  call' = call
  BY <1>9 DEF PeerStep, BecomeLeader, Commit, Learn, FsmBegin, FsmStop, TimerSave,
       FsmSave, SaveFinish, Install, FsmLoad, FsmLoadFails, Restart, rpcVars
<1>10. ASSUME NEW q \in Query, GetEnd(q) \/ \E s \in Server : GetBegin(q, s)
       PROVE  call' = call
  BY <1>10 DEF GetEnd, GetBegin
<1> QED
  BY <1>2, <1>3, <1>4, <1>5, <1>6, <1>7, <1>8, <1>9, <1>10 DEF Next, PeerStep

\* What the owner of a term has applied, it keeps, and nobody else applies any
\* more of that term.
LEMMA AppliedByOwnerStep ==
  ASSUME CheckTerm, Layers, AppliedByOwner, [Next]_vars
  PROVE  AppliedByOwner'
<1> USE DEF Layers, BoundedInv
<1> SUFFICES ASSUME NEW v \in Server, NEW r \in Request, NEW t \in 1 .. MaxTerm,
                    call'[r].pc \in {"applied", "ok"}, call'[r].term = t,
                    Claims(v, t)'
             PROVE  \E i \in 1 .. applied'[v] : committed'[i].req = r
  BY DEF AppliedByOwner
<1>1. call \in [Request -> Call] /\ t \in Nat \ {0} /\ t # NotLeader
  BY RaftAssumption DEF Bounded, TypeOK, NotLeader
<1>2. CASE call[r].pc \in {"applied", "ok"}
  <2>1. call[r].term = t
    BY <1>2, CallsStep DEF CallsAdvance, EarlyStates
  <2>2. Claims(v, t)
    <3>1. PICK i \in 1 .. Len(committed) : committed[i].term = t
      BY <1>2, <2>1, AppliedEntry
    <3>2. t <= LastTerm
      <4>1. i \in 1 .. i
        OBVIOUS
      <4> QED
        BY <3>1, <4>1, CommittedOrdered DEF TermsRight
    <3>3. LastTerm \in Nat
      BY DEF Bounded, TypeOK, RaftTypeOK, LastTerm
    <3> QED
      BY <1>1, <3>2, <3>3, OnePeer, ClaimsKept, ClaimsStep
      DEF PeersRight, TermsRight
  <2>3. PICK i \in 1 .. applied[v] : committed[i].req = r
    BY <1>2, <2>1, <2>2 DEF AppliedByOwner
  <2>4. ~Crash(v)
    <3>1. ASSUME Crash(v)
          PROVE  FALSE
      <4>1. /\ leads'[v] = 0 /\ leaderTerm'[v] = NotLeader
            /\ applied'[v] = 0 /\ batchEnd'[v] = 0
        BY <3>1 DEF Crash, RaftCrash, Bounded, TypeOK, RaftTypeOK
      <4>2. \A j \in Closing(v)' : FALSE
        BY <4>1 DEF Closing
      <4> QED
        BY <1>1, <4>1, <4>2 DEF Claims
    <3> QED
      BY <3>1
  <2>5. applied[v] \in Nat /\ applied'[v] \in Nat /\ applied[v] <= applied'[v]
        /\ applied[v] <= Len(committed) /\ Len(committed) \in Nat
    <3>1. applied[v] \in Nat /\ applied'[v] \in Nat /\ applied[v] <= applied'[v]
      BY <2>4, AppliedGrows
    <3> QED
      BY <3>1, PeerNumbers DEF Bounded, WithinLog, TypeOK, RaftTypeOK
  <2>6. i \in 1 .. applied'[v] /\ i \in 1 .. Len(committed)
    BY <2>5
  <2> QED
    BY <2>3, <2>6, CommittedGrows
<1>3. CASE ~(call[r].pc \in {"applied", "ok"})
  <2>1. PICK s \in Server : FsmApply(s)
    BY <1>3, CallsStep DEF NothingApplied
  <2> DEFINE i == applied[s] + 1
  <2>2. /\ call'[r].term = call[r].term /\ r = committed[i].req
        /\ HasClosure(s, i)
    BY <1>1, <1>3, <2>1 DEF FsmApply, ApplyAdd, ApplyNoOp, Call
  <2>3. /\ applied'[s] = i /\ committed' = committed
        /\ i \in 1 .. i /\ i \in Closing(s)
    <3>1. applied'[s] = i /\ committed' = committed /\ applied[s] < batchEnd[s]
      BY <2>1 DEF FsmApply, raftVars, Bounded, TypeOK
    <3> QED
      BY <2>2, <3>1, PeerNumbers DEF Closing, Bounded
  <2>4. committed[i].term = t
    <3>1. i \in 1 .. Len(committed) /\ r # NoOp
      BY <2>3, ClosingCommitted, RaftAssumption
    <3> QED
      BY SMTT(20), <2>2, <3>1, CommittedInNewest DEF AnswersRight, LoggedOnce
  <2>5. Claims(s, t)
    BY <2>3, <2>4 DEF Claims
  <2>6. Claims(v, t)
    <3>1. ~BecomeLeader(v)
      BY <2>1 DEF FsmApply, BecomeLeader, fsmVars, raftVars, Elect, Bounded, TypeOK
    <3> QED
      BY <3>1, OnePeer, ClaimsKept, ClaimsStep DEF PeersRight, TermsRight
  <2>7. v = s
    BY <2>5, <2>6 DEF TermsRight, OneOwner
  <2> QED
    BY <2>2, <2>3, <2>7
<1> QED
  BY <1>2, <1>3

\* What a step can do to a get.
LEMMA QueryStep ==
  ASSUME BoundedInv, [Next]_vars, NEW q \in Query
  PROVE  \/ /\ query'[q] = query[q]
            /\ query[q].pc = "checked" => ~Crash(query[q].at)
         \/ query'[q].pc = "lost" /\ query'[q].seen = query[q].seen
         \/ \E s \in Server : GetBegin(q, s)
         \/ GetEnd(q)
<1>1. query \in [Query -> Get]
  BY DEF BoundedInv, Bounded, TypeOK
<1>2. ASSUME NEW s \in Server, Crash(s)
      PROVE  \/ /\ query'[q] = query[q]
                /\ query[q].pc = "checked" => ~Crash(query[q].at)
             \/ query'[q].pc = "lost" /\ query'[q].seen = query[q].seen
  <2>1. CASE query[q].at = s /\ query[q].pc = "checked"
    <3>1. query'[q] = [query[q] EXCEPT !.pc = "lost"]
      BY <1>1, <1>2, <2>1 DEF Crash, LoseCalls
    <3> QED
      BY <1>1, <3>1 DEF Get
  <2>2. CASE ~(query[q].at = s /\ query[q].pc = "checked")
    <3>1. query'[q] = query[q]
      BY <1>1, <1>2, <2>2 DEF Crash, LoseCalls
    <3>2. ASSUME query[q].pc = "checked", Crash(query[q].at)
          PROVE  FALSE
      <4>1. query[q].at \in Server /\ query[q].at # s
        BY <2>2, <3>2 DEF BoundedInv, Placed
      <4>2. up'[s] = "down" /\ up'[s] = up[s] /\ up[s] # "down"
        BY <1>2, <3>2, <4>1 DEF Crash, BoundedInv, Bounded, TypeOK
      <4> QED
        BY <4>2
    <3> QED
      BY <3>1, <3>2
  <2> QED
    BY <2>1, <2>2
<1>3. ASSUME query' = query, \A s \in Server : ~Crash(s)
      PROVE  /\ query'[q] = query[q]
             /\ query[q].pc = "checked" => ~Crash(query[q].at)
  BY <1>3 DEF BoundedInv, Placed
<1>4. ASSUME NEW p \in Query, NEW s \in Server, GetBegin(p, s), p # q
      PROVE  query'[q] = query[q] /\ \A v \in Server : ~Crash(v)
  BY <1>1, <1>4 DEF GetBegin, Crash, fsmVars, BoundedInv, Bounded, TypeOK
<1>5. ASSUME NEW p \in Query, GetEnd(p), p # q
      PROVE  query'[q] = query[q] /\ \A v \in Server : ~Crash(v)
  BY <1>1, <1>5 DEF GetEnd, Crash, fsmVars, BoundedInv, Bounded, TypeOK
<1>6. ASSUME NEW s \in Server, PeerStep(s), ~Crash(s)
      PROVE  query' = query
  BY <1>6 DEF PeerStep, BecomeLeader, StepDown, Commit, Learn, FsmBegin, FsmApply,
       FsmStop, TimerSave, FsmSave, SaveFinish, Install, FsmLoad, FsmLoadFails,
       Restart, rpcVars
<1>7. ASSUME NEW r \in Request, NodeApply(r) \/ Run(r)
                                \/ \E s \in Server : FetchAdd(r, s)
      PROVE  query' = query
  BY <1>7 DEF NodeApply, Run, FetchAdd
<1>8. CASE \E s \in Server : Crash(s)
  BY <1>2, <1>8
<1>9. CASE \A s \in Server : ~Crash(s)
  <2>1. CASE UNCHANGED vars
    BY <1>3, <1>9, <2>1 DEF vars, rpcVars
  <2> QED
    BY <1>3, <1>4, <1>5, <1>6, <1>7, <1>9, <2>1 DEF Next, PeerStep, BoundedInv, Placed
<1> QED
  BY <1>8, <1>9

\* A get that found its peer leading is covered by what that peer has applied.
LEMMA GetBeginSound ==
  ASSUME CheckTerm, Layers, AppliedByOwner, NEW q \in Query, NEW s \in Server,
         GetBegin(q, s)
  PROVE  ReadSound(q)'
<1> USE DEF Layers, BoundedInv
<1>1. query[q] \in Get
  BY DEF Bounded, TypeOK
<1>2. /\ query'[q].pc = (IF IsLeader(s) THEN "checked" ELSE "refused")
      /\ query'[q].at = s /\ query'[q].term = leaderTerm[s]
      /\ query'[q].seen = Acknowledged
      /\ UNCHANGED <<call, applied, committed>>
  BY <1>1 DEF GetBegin, raftVars, fsmVars, Get, Bounded, TypeOK
<1>3. \A r \in Acknowledged : r \in Request /\ call[r].pc = "ok"
  BY DEF Acknowledged
<1>4. ASSUME IsLeader(s)
      PROVE  Covered(q, applied[query[q].at])'
  <2> SUFFICES ASSUME NEW r \in query'[q].seen, call'[r].term <= query'[q].term
               PROVE  \E i \in 1 .. applied'[query'[q].at] : committed'[i].req = r
    BY DEF Covered
  <2>1. /\ r \in Request /\ call[r].pc \in {"applied", "ok"}
        /\ call[r].term <= leaderTerm[s]
    BY <1>2, <1>3
  <2>2. \E i \in 1 .. applied[s] : committed[i].req = r
    BY <1>4, <2>1, LeaderCovers
  <2> QED
    BY <1>2, <2>2
<1> QED
  BY <1>2, <1>3, <1>4 DEF ReadSound, EarlyStates

\* What a get has to reflect stays what it was, and stays in the log.
LEMMA CoveredKept ==
  ASSUME Layers, [Next]_vars, NEW q \in Query,
         query'[q].seen = query[q].seen, query'[q].term = query[q].term,
         \A r \in query[q].seen : call[r].pc \notin EarlyStates,
         NEW m \in Nat, NEW n \in Nat, m <= n, m <= Len(committed), Covered(q, m)
  PROVE  \A r \in query'[q].seen : call'[r].term <= query'[q].term =>
           \E i \in 1 .. n : committed'[i].req = r
<1> USE DEF Layers, BoundedInv
<1> SUFFICES ASSUME NEW r \in query[q].seen, call'[r].term <= query[q].term
             PROVE  \E i \in 1 .. n : committed'[i].req = r
  OBVIOUS
<1>1. r \in Request
  BY DEF Bounded, TypeOK, Get
<1>2. call'[r].term = call[r].term
  BY <1>1, CallsStep DEF CallsAdvance
<1>3. PICK i \in 1 .. m : committed[i].req = r
  BY <1>2 DEF Covered
<1>4. i \in 1 .. n /\ i \in 1 .. Len(committed)
  <2>1. Len(committed) \in Nat
    BY CommittedGrows
  <2> QED
    BY <2>1
<1> QED
  BY <1>3, <1>4, CommittedGrows

\* The second load of a get is of the peer of the first.
LEMMA GetEndSound ==
  ASSUME Layers, NEW q \in Query, ReadSound(q), GetEnd(q)
  PROVE  ReadSound(q)'
<1> USE DEF Layers, BoundedInv
<1> DEFINE s == query[q].at
<1>1. query[q] \in Get /\ query[q].pc = "checked" /\ s \in Server
  BY DEF Bounded, TypeOK, GetEnd, Placed
<1>2. /\ query'[q].pc = "ok" /\ query'[q].at = s
      /\ query'[q].value = value[s] /\ query'[q].index = applied[s]
      /\ query'[q].seen = query[q].seen /\ query'[q].term = query[q].term
      /\ UNCHANGED <<call, committed>>
  BY <1>1 DEF GetEnd, raftVars, Get, Bounded, TypeOK
<1>3. value[s] = ValueAt(applied[s]) /\ applied[s] <= Len(committed)
  <2>1. applied[s] <= batchEnd[s] /\ batchEnd[s] <= Len(committed)
        /\ Len(committed) \in Nat
    BY <1>1 DEF Bounded, WithinLog, TypeOK, RaftTypeOK
  <2> QED
    BY <1>1, <2>1, PeerNumbers DEF Valued, StateMatchesLog, Bounded
<1>4. (ValueAt(query[q].index))' = ValueAt(applied[s])
  BY <1>2 DEF ValueAt, TotalAt
<1>5. Covered(q, applied[s])
  BY <1>1 DEF ReadSound
<1>6. Covered(q, query[q].index)'
  BY <1>2, <1>5 DEF Covered
<1> QED
  BY <1>1, <1>2, <1>3, <1>4, <1>6 DEF ReadSound

\* Every step keeps a read sound.
LEMMA ReadSoundStep ==
  ASSUME CheckTerm, Layers, ReadsRight, [Next]_vars, NEW q \in Query
  PROVE  ReadSound(q)'
<1> USE DEF Layers, BoundedInv
<1>1. query[q] \in Get /\ ReadSound(q)
  BY DEF Bounded, TypeOK, ReadsRight
<1>2. Len(committed) \in Nat /\ Len(committed) <= Len(committed') /\ Len(committed') \in Nat
  <2>1. TypeOK'
    BY BoundedStep DEF Bounded
  <2> QED
    BY <2>1, CommittedGrows DEF TypeOK, RaftTypeOK
<1>3. ASSUME query'[q].seen = query[q].seen
      PROVE  \A r \in query'[q].seen : call'[r].pc \notin EarlyStates
  BY <1>1, <1>3, CallsStep DEF ReadSound, CallsAdvance, Get
<1>4. CASE /\ query'[q] = query[q]
           /\ query[q].pc = "checked" => ~Crash(query[q].at)
  <2>1. ASSUME query[q].pc = "checked"
        PROVE  Covered(q, applied[query[q].at])'
    <3> DEFINE s == query[q].at
    <3>1. s \in Server /\ ~Crash(s) /\ query'[q].at = s
      BY <1>4, <2>1 DEF Placed
    <3>2. applied[s] \in Nat /\ applied'[s] \in Nat /\ applied[s] <= applied'[s]
      BY <3>1, AppliedGrows
    <3>3. applied[s] <= Len(committed)
      BY <1>2, <3>1, <3>2, PeerNumbers DEF Bounded, WithinLog
    <3>4. Covered(q, applied[s])
      BY <1>1, <2>1 DEF ReadSound
    <3>5. \A r \in query'[q].seen : call'[r].term <= query'[q].term =>
            \E i \in 1 .. applied'[s] : committed'[i].req = r
      <4>1. /\ query'[q].seen = query[q].seen /\ query'[q].term = query[q].term
            /\ \A r \in query[q].seen : call[r].pc \notin EarlyStates
        BY <1>1, <1>4 DEF ReadSound
      <4> HIDE DEF s, Layers, BoundedInv
      <4> QED
        BY ZenonT(20), <3>2, <3>3, <3>4, <4>1, CoveredKept
    <3> QED
      BY <3>1, <3>5 DEF Covered
  <2>2. ASSUME query[q].pc = "ok"
        PROVE  /\ query'[q].index <= Len(committed')
               /\ query'[q].value = (ValueAt(query[q].index))'
               /\ Covered(q, query[q].index)'
    <3>1. /\ query[q].index \in Nat /\ query[q].index <= Len(committed)
          /\ query[q].value = ValueAt(query[q].index) /\ Covered(q, query[q].index)
      BY <1>1, <2>2 DEF ReadSound, Get
    <3> DEFINE n == query[q].index
    <3>2. \A k \in Nat : k <= Len(committed) => ValueAt(k)' = ValueAt(k)
      BY CommittedGrows, ValueAtStable
    <3>3. (ValueAt(query[q].index))' = ValueAt(n)
      <4>1. \A k \in Nat : query'[q].index = k => (ValueAt(query[q].index))' = ValueAt(k)'
        BY DEF ValueAt, TotalAt
      <4> QED
        BY <1>4, <3>1, <3>2, <4>1
    <3>4. \A r \in query'[q].seen : call'[r].term <= query'[q].term =>
            \E i \in 1 .. n : committed'[i].req = r
      <4>1. /\ query'[q].seen = query[q].seen /\ query'[q].term = query[q].term
            /\ \A r \in query[q].seen : call[r].pc \notin EarlyStates
            /\ n \in Nat /\ n <= n /\ n <= Len(committed) /\ Covered(q, n)
        BY <1>1, <1>4, <3>1 DEF ReadSound
      <4> HIDE DEF n, Layers, BoundedInv
      <4> QED
        BY <4>1, CoveredKept
    <3> QED
      BY <1>2, <1>4, <3>1, <3>3, <3>4 DEF Covered
  <2> QED
    BY <1>3, <1>4, <2>1, <2>2 DEF ReadSound
<1>5. CASE query'[q].pc = "lost" /\ query'[q].seen = query[q].seen
  BY <1>3, <1>5 DEF ReadSound
<1> QED
  BY <1>1, <1>4, <1>5, QueryStep, GetBeginSound, GetEndSound DEF ReadsRight

\* Reads are sound at the start: nothing was asked.
LEMMA ReadsInit == Init => ReadsRight
  BY DEF Init, ReadsRight, AppliedByOwner, ReadSound

\* The layers and the reads are invariants when FLAGS_check_term is set.
LEMMA ReadsStep ==
  ASSUME CheckTerm
  PROVE  Layers /\ ReadsRight /\ [Next]_vars => ReadsRight'
  BY AppliedByOwnerStep, ReadSoundStep DEF ReadsRight

\* All layers are invariants of the specification.
LEMMA LayersAlways == Spec => []Layers
  BY TermsAlways, PTL DEF Layers

\* A get that succeeds reflects every addition acknowledged before it in the
\* term it found or an earlier one, for any elections, kills and installs
\* between its two loads, provided that FLAGS_check_term is set.
THEOREM ReadsComplete ==
  ASSUME CheckTerm
  PROVE  Spec => []TermReadsComplete
<1>1. ReadsRight => TermReadsComplete
  BY DEF ReadsRight, ReadSound, Covered, TermReadsComplete
<1>2. Init => ReadsRight
  BY ReadsInit
<1>3. Layers /\ ReadsRight /\ [Next]_vars => ReadsRight'
  BY ReadsStep
<1> QED
  BY <1>1, <1>2, <1>3, LayersAlways, PTL DEF Spec

-----------------------------------------------------------------------------
(* The last layer: a closure that has not run belongs to a call that waits  *)
(* for it, at the peer that holds the closure.                              *)

\* The closure of r is with peer s, and r waits for it.
HoldsCall(s, r) == call[r].pc = "logged" /\ call[r].at = s

\* Closures in the closure queue of s.
PendingHeld(s) ==
  leads[s] # 0 =>
    \A i \in firstPending[s] .. Len(termLog[leads[s]]) :
      termLog[leads[s]][i].req # NoOp => HoldsCall(s, termLog[leads[s]][i].req)

\* Closures in the batch of s.
BatchHeld(s) ==
  \A i \in Closing(s) :
    committed[i].req # NoOp => HoldsCall(s, committed[i].req)

ClosuresHeld == \A s \in Server : PendingHeld(s) /\ BatchHeld(s)

\* What on_apply is about to run, or has run, is not in the closure queue too.
LEMMA BatchNotPending ==
  ASSUME Bounded, LoggedOnce, NEW s \in Server, PeerRight(s), leads[s] # 0,
         NEW i \in Nat \ {0}, i <= batchEnd[s], committed[i].req # NoOp,
         NEW j \in firstPending[s] .. Len(termLog[leads[s]]),
         termLog[leads[s]][j].req = committed[i].req
  PROVE  FALSE
<1>1. /\ batchEnd[s] <= commitIndex[s] /\ batchEnd[s] < firstPending[s]
      /\ batchEnd[s] \in Nat /\ commitIndex[s] \in Nat /\ firstPending[s] \in Nat
  BY PeerNumbers DEF PeerRight, OwnBounds, Bounded
<1>2. i <= commitIndex[s] /\ i < j
  BY <1>1
<1>3. /\ leads[s] \in 1 .. LastTerm /\ i \in 1 .. Len(termLog[leads[s]])
      /\ termLog[leads[s]][i] = committed[i]
  BY <1>2, LeaderAgrees
<1>4. j \in 1 .. Len(termLog[leads[s]])
  BY <1>1
<1>5. j = i
  BY <1>3, <1>4 DEF LoggedOnce
<1> QED
  BY <1>2, <1>5

\* A call whose closure is with v waits on, unless v runs or drops the closure.
LEMMA HoldsKept ==
  ASSUME BoundedInv, ClosuresHeld, [Next]_vars,
         NEW v \in Server, NEW r \in Request, HoldsCall(v, r)
  PROVE  \/ HoldsCall(v, r)'
         \/ StepDown(v) /\ r \in PendingRequests(v)
         \/ Crash(v)
         \/ /\ FsmApply(v) /\ applied[v] + 1 \in Closing(v)
            /\ r = committed[applied[v] + 1].req
<1>1. call \in [Request -> Call] /\ r # NoOp
  BY RaftAssumption DEF BoundedInv, Bounded, TypeOK
<1>2. CASE call'[r] = call[r]
  BY <1>2 DEF HoldsCall
<1>3. ASSUME NEW s \in Server, StepDown(s), call'[r] # call[r]
      PROVE  s = v /\ r \in PendingRequests(s)
  <2>1. r \in PendingRequests(s) /\ leads[s] # 0
    BY <1>1, <1>3 DEF StepDown, FailPending
  <2>2. HoldsCall(s, r)
    BY <1>1, <2>1 DEF ClosuresHeld, PendingHeld, PendingRequests
  <2> QED
    BY <2>1, <2>2 DEF HoldsCall
<1>4. ASSUME NEW s \in Server, Crash(s), call'[r] # call[r]
      PROVE  s = v
  BY <1>1, <1>4 DEF Crash, LoseCalls, HoldsCall
<1>5. ASSUME NEW s \in Server, FsmApply(s), call'[r] # call[r]
      PROVE  /\ s = v /\ applied[v] + 1 \in Closing(v)
             /\ r = committed[applied[v] + 1].req
  <2> DEFINE i == applied[s] + 1
  <2>1. r = committed[i].req /\ HasClosure(s, i)
    BY <1>1, <1>5 DEF FsmApply, ApplyAdd, ApplyNoOp
  <2>2. i \in Closing(s)
    <3>1. applied[s] < batchEnd[s]
      BY <1>5 DEF FsmApply
    <3> QED
      BY <2>1, <3>1, PeerNumbers DEF Closing, BoundedInv, Bounded
  <2>3. HoldsCall(s, r)
    BY <1>1, <2>1, <2>2 DEF ClosuresHeld, BatchHeld
  <2> QED
    BY <2>1, <2>2, <2>3 DEF HoldsCall
<1>6. ASSUME NEW s \in Server, PeerStep(s), ~StepDown(s), ~Crash(s), ~FsmApply(s)
      PROVE  call' = call
  BY <1>6 DEF PeerStep, BecomeLeader, Commit, Learn, FsmBegin, FsmStop, TimerSave,
       FsmSave, SaveFinish, Install, FsmLoad, FsmLoadFails, Restart, rpcVars
<1>7. ASSUME NEW x \in Request, NodeApply(x) \/ Run(x)
                                \/ \E s \in Server : FetchAdd(x, s)
      PROVE  call'[r] = call[r]
  <2>1. x # r /\ \A y \in Request : y # x => call'[y] = call[y]
    BY <1>1, <1>7 DEF NodeApply, Run, FetchAdd, HoldsCall
  <2> QED
    BY <2>1
<1>8. CASE \/ UNCHANGED vars
           \/ \E q \in Query : GetEnd(q) \/ \E s \in Server : GetBegin(q, s)
  BY <1>2, <1>8 DEF vars, rpcVars, GetEnd, GetBegin
<1> QED
  BY <1>2, <1>3, <1>4, <1>5, <1>6, <1>7, <1>8 DEF Next, PeerStep

\* Only a new batch adds closures for on_apply to run.
LEMMA ClosingStep ==
  ASSUME Bounded, [Next]_vars, NEW v \in Server, ~FsmBegin(v)
  PROVE  \A i \in Closing(v)' : i \in Closing(v)
<1> USE DEF Bounded
<1>1. CASE PeerKept(v)
  BY <1>1, ClaimsKept
<1>2. CASE BecomeLeader(v) \/ StepDown(v) \/ Commit(v) \/ Learn(v) \/ FsmStop(v)
           \/ TimerSave(v) \/ FsmSave(v) \/ SaveFinish(v) \/ FsmLoadFails(v)
           \/ \E from \in Server : Install(v, from)
  <2>1. UNCHANGED <<applied, batchEnd, firstClosure>>
    BY <1>2 DEF BecomeLeader, StepDown, Commit, Learn, FsmStop, TimerSave, FsmSave,
                SaveFinish, FsmLoadFails, Install, fsmVars
  <2> QED
    BY <2>1 DEF Closing, HasClosure
<1>3. CASE FsmApply(v)
  <2>1. /\ applied'[v] = applied[v] + 1
        /\ UNCHANGED <<batchEnd, firstClosure>>
    BY <1>3 DEF FsmApply, TypeOK
  <2> QED
    BY <2>1, PeerNumbers DEF Closing, HasClosure
<1>4. CASE FsmLoad(v) \/ Restart(v) \/ Crash(v)
  <2>1. applied'[v] = batchEnd'[v] /\ applied'[v] \in Nat
    BY <1>4, PeerNumbers DEF FsmLoad, Restart, Crash, TypeOK, Snapshots
  <2>2. \A i \in applied'[v] + 1 .. batchEnd'[v] : FALSE
    BY <2>1
  <2> QED
    BY <2>2 DEF Closing
<1> QED
  BY <1>1, <1>2, <1>3, <1>4, OnePeer DEF PeerStep

\* The closures of a batch stay with calls that wait.
LEMMA BatchHeldStep ==
  ASSUME Layers, ClosuresHeld, [Next]_vars, NEW v \in Server
  PROVE  BatchHeld(v)'
<1> USE DEF Layers
<1> SUFFICES ASSUME NEW i \in Closing(v)', NEW c, c = committed'[i].req, c # NoOp
             PROVE  HoldsCall(v, c)'
  BY DEF BatchHeld, HoldsCall
<1>1. Bounded /\ PeerRight(v) /\ LoggedOnce
  BY DEF BoundedInv, PeersRight, AnswersRight
<1>2. CASE i \in Closing(v)
  <2>1. /\ i \in 1 .. Len(committed) /\ i \in Nat \ {0} /\ i <= batchEnd[v]
        /\ committed'[i] = committed[i]
    BY <1>1, <1>2, ClosingCommitted, CommittedGrows
  <2>2. c \in Request /\ c = committed[i].req /\ HoldsCall(v, c)
    <3>1. committed[i] \in Entry
      BY <1>1, <2>1, CommittedInNewest
    <3> QED
      BY <1>2, <2>1, <3>1 DEF Entry, ClosuresHeld, BatchHeld
  <2>3. ~(StepDown(v) /\ c \in PendingRequests(v))
    <3>1. ASSUME StepDown(v), c \in PendingRequests(v)
          PROVE  FALSE
      <4>1. leads[v] # 0
        BY <3>1 DEF StepDown
      <4>2. PICK j \in firstPending[v] .. Len(termLog[leads[v]]) :
              termLog[leads[v]][j].req = c
        BY <3>1 DEF PendingRequests
      <4> QED
        BY <1>1, <2>1, <2>2, <4>1, <4>2, BatchNotPending
    <3> QED
      BY <3>1
  <2>4. ~Crash(v)
    <3>1. ASSUME Crash(v)
          PROVE  FALSE
      <4>1. applied'[v] = 0 /\ batchEnd'[v] = 0
        BY <1>1, <3>1 DEF Crash, Bounded, TypeOK
      <4> QED
        BY <4>1 DEF Closing
    <3> QED
      BY <3>1
  <2>5. ~(/\ FsmApply(v) /\ applied[v] + 1 \in Closing(v)
          /\ c = committed[applied[v] + 1].req)
    <3>1. ASSUME FsmApply(v), applied[v] + 1 \in Closing(v),
                 c = committed[applied[v] + 1].req
          PROVE  FALSE
      <4>1. applied[v] + 1 \in 1 .. Len(committed)
        BY <1>1, <3>1, ClosingCommitted
      <4>2. i = applied[v] + 1
        BY <1>1, <2>1, <2>2, <3>1, <4>1, CommittedOnce
      <4>3. applied'[v] = applied[v] + 1 /\ applied[v] \in Nat
        BY <1>1, <3>1, PeerNumbers DEF FsmApply, Bounded, TypeOK
      <4> QED
        BY <4>2, <4>3 DEF Closing
    <3> QED
      BY <3>1
  <2> QED
    BY <2>2, <2>3, <2>4, <2>5, HoldsKept
<1>3. CASE ~(i \in Closing(v))
  <2>1. FsmBegin(v) /\ Closing(v)' # Closing(v) /\ Closing(v)' # {}
    BY <1>1, <1>3, ClosingStep
  <2>2. /\ leads[v] # 0 /\ i \in firstPending[v] .. Len(termLog[leads[v]])
        /\ committed[i] = termLog[leads[v]][i]
    BY <1>1, <2>1, BatchOwned
  <2>3. UNCHANGED <<committed, call>>
    BY <2>1 DEF FsmBegin, rpcVars
  <2> QED
    BY <2>2, <2>3 DEF ClosuresHeld, PendingHeld, HoldsCall
<1> QED
  BY <1>2, <1>3

\* A closure that stays in the queue of a leader stays with a call that waits.
LEMMA StillPending ==
  ASSUME Layers, ClosuresHeld, [Next]_vars, NEW v \in Server,
         leads[v] # 0, leads'[v] # 0,
         NEW i \in firstPending[v] .. Len(termLog[leads[v]]),
         NEW c, c = termLog[leads[v]][i].req, c # NoOp
  PROVE  HoldsCall(v, c)'
<1> USE DEF Layers
<1>1. Bounded /\ PeerRight(v) /\ LoggedOnce
  BY DEF BoundedInv, PeersRight, AnswersRight
<1>2. /\ batchEnd[v] < firstPending[v] /\ batchEnd[v] \in Nat
      /\ firstPending[v] \in Nat /\ leads[v] \in 1 .. LastTerm
  <2>1. leads[v] <= LastTerm /\ leads[v] \in Nat
    BY <1>1, PeerNumbers DEF Bounded, RaftInv, LogMatching
  <2>2. LastTerm \in Nat
    BY <1>1 DEF Bounded, TypeOK, RaftTypeOK, LastTerm
  <2> QED
    BY <1>1, <2>1, <2>2, PeerNumbers DEF PeerRight, OwnBounds, Bounded
<1>3. c \in Request /\ HoldsCall(v, c)
  <2>1. i \in 1 .. Len(termLog[leads[v]])
    BY <1>2
  <2> QED
    BY <1>1, <1>2, <2>1, LogRequest DEF ClosuresHeld, PendingHeld
<1>4. ~StepDown(v) /\ ~Crash(v)
  BY <1>1 DEF StepDown, RaftStepDown, Crash, RaftCrash, Bounded, TypeOK, RaftTypeOK
<1>5. ~(applied[v] + 1 \in Closing(v) /\ c = committed[applied[v] + 1].req)
  <2>1. ASSUME applied[v] + 1 \in Closing(v), c = committed[applied[v] + 1].req
        PROVE  FALSE
    <3> DEFINE n == applied[v] + 1
    <3>1. n \in Nat \ {0} /\ n <= batchEnd[v]
      BY <1>1, <2>1, ClosingCommitted, PeerNumbers DEF Bounded
    <3> HIDE DEF n
    <3> QED
      BY <1>1, <2>1, <3>1, BatchNotPending DEF n
  <2> QED
    BY <2>1
<1> QED
  BY <1>3, <1>4, <1>5, HoldsKept

\* A leader's closure queue holds closures of calls that wait.
LEMMA PendingHeldStep ==
  ASSUME Layers, ClosuresHeld, [Next]_vars, NEW v \in Server
  PROVE  PendingHeld(v)'
<1> USE DEF Layers
<1> SUFFICES ASSUME leads'[v] # 0,
                    NEW i \in firstPending'[v] .. Len(termLog'[leads'[v]]),
                    NEW c, c = termLog'[leads'[v]][i].req, c # NoOp
             PROVE  HoldsCall(v, c)'
  BY DEF PendingHeld, HoldsCall
<1>1. Bounded /\ PeerRight(v) /\ LoggedOnce /\ RaftTypeOK /\ RaftInv
  BY DEF BoundedInv, PeersRight, AnswersRight, Bounded, TypeOK
<1>2. /\ LastTerm \in Nat /\ leads \in [Server -> 0 .. MaxTerm]
      /\ firstPending \in [Server -> Nat] /\ firstPending[v] \in Nat
      /\ leads[v] # 0 => /\ leads[v] \in 1 .. LastTerm
                         /\ 1 <= firstPending[v]
  <2>1. leads[v] <= LastTerm /\ leads[v] \in Nat /\ batchEnd[v] \in Nat
    BY <1>1, PeerNumbers DEF Bounded, RaftInv, LogMatching
  <2>2. LastTerm \in Nat /\ firstPending[v] \in Nat
    BY <1>1 DEF Bounded, TypeOK, RaftTypeOK, LastTerm
  <2> QED
    BY <1>1, <2>1, <2>2 DEF Bounded, TypeOK, RaftTypeOK, PeerRight, OwnBounds
<1>3. ASSUME NEW s \in Server, BecomeLeader(s)
      PROVE  HoldsCall(v, c)'
  <2> DEFINE T == LastTerm + 1
             new == termLog'[T]
  <2>1. /\ leads' = [leads EXCEPT ![s] = T]
        /\ \A u \in 1 .. LastTerm : termLog'[u] = termLog[u]
        /\ \E t \in 0 .. LastTerm : \E k \in 0 .. Len(LogOf(t)) :
             /\ firstPending' = [firstPending EXCEPT ![s] = k + 1]
             /\ Len(LogOf(t)) \in Nat /\ Len(new) = k + 1 /\ new[k + 1].req = NoOp
    BY <1>1, <1>3, ElectShape DEF BecomeLeader
  <2> HIDE DEF new
  <2>2. PICK t \in 0 .. LastTerm : \E k \in 0 .. Len(LogOf(t)) :
             /\ firstPending' = [firstPending EXCEPT ![s] = k + 1]
             /\ Len(LogOf(t)) \in Nat /\ Len(new) = k + 1 /\ new[k + 1].req = NoOp
    BY <2>1
  <2>3. PICK k \in 0 .. Len(LogOf(t)) :
             /\ firstPending' = [firstPending EXCEPT ![s] = k + 1]
             /\ Len(LogOf(t)) \in Nat /\ Len(new) = k + 1 /\ new[k + 1].req = NoOp
    BY <2>2
  <2>4. v # s
    <3>1. ASSUME v = s
          PROVE  FALSE
      <4>1. leads'[v] = T /\ firstPending'[v] = k + 1
        BY <1>2, <2>1, <2>3, <3>1
      <4>2. i = k + 1
        BY <2>3, <4>1 DEF new
      <4> QED
        BY <2>3, <4>1, <4>2 DEF new
    <3> QED
      BY <3>1
  <2>5. leads'[v] = leads[v] /\ firstPending'[v] = firstPending[v]
    BY <1>2, <2>1, <2>3, <2>4
  <2>6. termLog'[leads[v]] = termLog[leads[v]]
    BY <1>2, <2>1, <2>5
  <2> QED
    BY <2>5, <2>6, StillPending
<1>4. ASSUME NEW r \in Request, NodeApply(r), NEW s \in Server, s = call[r].at,
             leads[s] # 0, LeaderAppend(s, r)
      PROVE  HoldsCall(v, c)'
  <2> DEFINE t == leads[s]
  <2>1. leads' = leads /\ firstPending' = firstPending
    BY <1>4 DEF LeaderAppend
  <2>2. /\ t \in 1 .. LastTerm /\ Len(termLog[t]) \in Nat
        /\ Len(termLog'[t]) = Len(termLog[t]) + 1
        /\ \A u \in 1 .. LastTerm : u # t => termLog'[u] = termLog[u]
        /\ \A j \in 1 .. Len(termLog[t]) : termLog'[t][j] = termLog[t][j]
        /\ termLog'[t][Len(termLog[t]) + 1].req = r
    <3>1. termLog[t] \in Seq(Entry)
      BY <1>1, <1>4, AppendLogs
    <3>2. Len(termLog[t]) \in Nat
      BY <3>1
    <3> QED
      BY ZenonT(20), <1>1, <1>4, <3>2, AppendLogs
  <2>3. CASE v # s
    <3>1. leads[v] # t
      <4>1. t \in 1 .. MaxTerm /\ Claims(s, t)
        BY <1>2, <1>4 DEF Claims
      <4> HIDE DEF t
      <4>2. leads[v] = t => Claims(v, t)
        BY DEF Claims
      <4> QED
        BY <1>4, <2>3, <4>1, <4>2 DEF TermsRight, OneOwner
    <3>2. termLog'[leads[v]] = termLog[leads[v]]
      BY <1>2, <2>1, <2>2, <3>1
    <3> QED
      BY <2>1, <3>2, StillPending
  <2>4. CASE v = s
    <3>1. leads[v] = t /\ v = call[r].at
      BY <1>4, <2>4
    <3> HIDE DEF t
    <3>2. CASE i = Len(termLog[t]) + 1
      <4>1. c = r
        BY <2>1, <2>2, <3>1, <3>2
      <4>2. call \in [Request -> Call]
        BY <1>1 DEF Bounded, TypeOK
      <4>3. \/ call' = [call EXCEPT ![r].pc = "logged"]
            \/ call' = [call EXCEPT ![r].pc = "failed"] /\ UNCHANGED termLog
        BY <1>4 DEF NodeApply, raftVars
      <4>4. termLog' # termLog
        BY <2>2
      <4> QED
        BY SMTT(20), <3>1, <4>1, <4>2, <4>3, <4>4 DEF HoldsCall, Call
    <3>3. CASE i # Len(termLog[t]) + 1
      <4>1. i \in firstPending[v] .. Len(termLog[t]) + 1
        BY <2>1, <2>2, <3>1
      <4>2. i \in firstPending[v] .. Len(termLog[t]) /\ i \in 1 .. Len(termLog[t])
        BY <1>2, <2>1, <2>2, <3>1, <3>3, <4>1
      <4>3. c = termLog[leads[v]][i].req
        BY <2>1, <2>2, <3>1, <4>2
      <4> QED
        BY <2>1, <3>1, <4>2, <4>3, StillPending
    <3> QED
      BY <3>2, <3>3
  <2> QED
    BY <2>3, <2>4
<1>5. CASE termLog' = termLog /\ ~\E s \in Server : BecomeLeader(s)
  <2>1. PeerStep(v) => /\ leads'[v] = leads[v] \/ leads'[v] = 0
                       /\ firstPending'[v] \in Nat
                       /\ firstPending'[v] >= firstPending[v]
    BY <1>1, <1>5, PendingShrinks
  <2>2. /\ leads'[v] = leads[v] /\ firstPending'[v] \in Nat
        /\ firstPending'[v] >= firstPending[v]
    BY <1>1, <1>2, <2>1, OnePeer DEF PeerKept
  <2>3. i \in firstPending[v] .. Len(termLog[leads[v]])
    BY <1>2, <1>5, <2>2
  <2> QED
    BY <1>5, <2>2, <2>3, StillPending
<1> QED
  BY <1>3, <1>4, <1>5, LogsStep

\* Every step keeps the last layer.
LEMMA ClosuresStep == Layers /\ ClosuresHeld /\ [Next]_vars => ClosuresHeld'
<1> SUFFICES ASSUME Layers, ClosuresHeld, [Next]_vars
             PROVE  ClosuresHeld'
  OBVIOUS
<1> QED
  BY PendingHeldStep, BatchHeldStep DEF ClosuresHeld

\* No closure exists at the start.
LEMMA ClosuresInit == Init => ClosuresHeld
<1> SUFFICES ASSUME Init PROVE ClosuresHeld
  OBVIOUS
<1>1. \A s \in Server : leads[s] = 0 /\ applied[s] = 0 /\ batchEnd[s] = 0
  BY DEF Init, RaftInit
<1>2. \A s \in Server : \A i \in Closing(s) : FALSE
  BY <1>1 DEF Closing
<1> QED
  BY <1>1, <1>2 DEF ClosuresHeld, PendingHeld, BatchHeld

\* All layers, the last included, are invariants of the specification.
LEMMA ClosuresAlways == Spec => [](Layers /\ ClosuresHeld)
  BY LayersAlways, ClosuresInit, ClosuresStep, PTL DEF Spec

-----------------------------------------------------------------------------
(* The refinement: with closures where they belong, every step of the peers *)
(* is a step of FetchAddService or changes nothing it can see.              *)

\* The ledger is the committed log, moment by entry.
LEMMA LedgerOf ==
  ASSUME committed \in Seq(Entry)
  PROVE  /\ Ledger \in Seq(Service!Moment) /\ Len(Ledger) = Len(committed)
         /\ DOMAIN Ledger = 1 .. Len(committed) /\ Len(committed) \in Nat
         /\ \A i \in 1 .. Len(committed) : /\ Ledger[i].req = committed[i].req
                                           /\ Ledger[i].total = committed[i].total
<1>1. Len(committed) \in Nat
  OBVIOUS
<1>2. \A i \in 1 .. Len(committed) :
        [req |-> committed[i].req, total |-> committed[i].total] \in Service!Moment
  <2>1. \A i \in 1 .. Len(committed) : committed[i] \in Entry
    OBVIOUS
  <2> QED
    BY <2>1 DEF Entry, Service!Moment, Service!Value, Value
<1> QED
  BY <1>1, <1>2 DEF Ledger

\* The states of a call that its caller cannot tell apart.
Waiting == {"handling", "logged", "applied", "failed"}

\* Before any addition the ledger is empty and no caller knows anything.
LEMMA ServiceInit == Init => Service!Init
<1> SUFFICES ASSUME Init PROVE Service!Init
  OBVIOUS
<1>1. Ledger = << >>
  BY DEF Init, RaftInit, Ledger
<1>2. Knowledge = [r \in Request |-> [pc |-> "idle", value |-> 0]]
  BY DEF Init, Knowledge, Known
<1> QED
  BY <1>1, <1>2 DEF Service!Init

\* An entry's total follows from the moment before it.
LEMMA TotalFromBefore ==
  ASSUME Bounded, NEW i \in 1 .. Len(committed)
  PROVE  Service!Before(Ledger, i) = TotalAt(committed, i - 1)
<1>1. committed \in Seq(Entry)
  BY DEF Bounded, TypeOK, RaftTypeOK
<1>2. i # 1 => i - 1 \in 1 .. Len(committed)
  BY <1>1
<1> QED
  BY <1>1, <1>2, LedgerOf DEF Service!Before, TotalAt

\* What the layers say of the ledger: moments add up, no addition has two, those
\* that have one were taken on, and success tells what the addition found.
LedgerRight ==
  /\ Ledger \in Seq(Service!Moment)
  /\ Len(Ledger) \in Nat /\ DOMAIN Ledger = 1 .. Len(Ledger)
  /\ \A i \in DOMAIN Ledger :
       /\ Ledger[i].req = NoOp => Ledger[i].total = Service!Before(Ledger, i)
       /\ Ledger[i].req # NoOp =>
            /\ Ledger[i].total =
                 Service!Wrap(Service!Before(Ledger, i) + Delta[Ledger[i].req])
            /\ Ledger[i].req \in Request
            /\ call[Ledger[i].req].pc \notin EarlyStates
            /\ \A j \in DOMAIN Ledger : Ledger[j].req = Ledger[i].req => j = i
  /\ \A r \in Request : call[r].pc \in {"applied", "ok"} =>
       \E i \in DOMAIN Ledger :
         Ledger[i].req = r /\ call[r].value = Service!Before(Ledger, i)

\* The layers make the ledger right.
LEMMA LedgerIsRight == Layers => LedgerRight
<1> SUFFICES ASSUME Layers PROVE LedgerRight
  OBVIOUS
<1>1. Bounded /\ LoggedOnce /\ AnswersSound /\ committed \in Seq(Entry)
  BY DEF Layers, BoundedInv, Bounded, TypeOK, RaftTypeOK, AnswersRight
<1>2. /\ Ledger \in Seq(Service!Moment) /\ Len(Ledger) = Len(committed)
      /\ DOMAIN Ledger = 1 .. Len(committed) /\ Len(committed) \in Nat
      /\ \A i \in 1 .. Len(committed) : /\ Ledger[i].req = committed[i].req
                                        /\ Ledger[i].total = committed[i].total
      /\ \A i \in 1 .. Len(committed) :
           Service!Before(Ledger, i) = TotalAt(committed, i - 1)
  BY <1>1, LedgerOf, TotalFromBefore
<1>3. TotalsSound(committed)
  BY <1>1, CommittedSound
<1>4. ASSUME NEW i \in 1 .. Len(committed), committed[i].req # NoOp
      PROVE  /\ committed[i].req \in Request
             /\ call[committed[i].req].pc \notin EarlyStates
             /\ \A j \in 1 .. Len(committed) : committed[j].req = committed[i].req => j = i
  <2>1. committed[i].req \in Request
    <3>1. committed[i] \in Entry
      BY <1>1, CommittedInNewest
    <3> QED
      BY <1>4, <3>1 DEF Entry
  <2>2. call[committed[i].req].pc \notin EarlyStates
    BY <1>1, <1>4, CommittedInNewest DEF LoggedOnce
  <2> QED
    BY <1>1, <1>4, <2>1, <2>2, CommittedOnce
<1>5. ASSUME NEW r \in Request, call[r].pc \in {"applied", "ok"}
      PROVE  \E i \in 1 .. Len(committed) :
               committed[i].req = r /\ call[r].value = TotalAt(committed, i - 1)
  BY <1>1, <1>5 DEF AnswersSound, ValueAt
<1>6. ASSUME NEW i \in DOMAIN Ledger
      PROVE  /\ Ledger[i].req = NoOp => Ledger[i].total = Service!Before(Ledger, i)
             /\ Ledger[i].req # NoOp =>
                  Ledger[i].total =
                    Service!Wrap(Service!Before(Ledger, i) + Delta[Ledger[i].req])
  BY <1>2, <1>3 DEF TotalsSound, Wrap, Service!Wrap
<1>7. ASSUME NEW i \in DOMAIN Ledger, Ledger[i].req # NoOp
      PROVE  /\ Ledger[i].req \in Request
             /\ call[Ledger[i].req].pc \notin EarlyStates
             /\ \A j \in DOMAIN Ledger : Ledger[j].req = Ledger[i].req => j = i
  BY <1>2, <1>4, <1>7
<1>8. ASSUME NEW r \in Request, call[r].pc \in {"applied", "ok"}
      PROVE  \E i \in DOMAIN Ledger :
               Ledger[i].req = r /\ call[r].value = Service!Before(Ledger, i)
  BY <1>2, <1>5, <1>8
<1> QED
  BY <1>2, <1>6, <1>7, <1>8 DEF LedgerRight

\* A commit makes additions take effect, or tells nothing new.
LEMMA CommitEffect ==
  ASSUME Layers, LedgerRight, LedgerRight', [Next]_vars, NEW s \in Server, Commit(s)
  PROVE  [Service!Next]_(Service!vars)
<1>1. call' = call
  BY DEF Commit, rpcVars
<1>2. Knowledge' = Knowledge
  BY <1>1 DEF Knowledge, Known
<1>3. CASE committed' = committed
  BY <1>2, <1>3 DEF Ledger, Service!vars
<1>4. CASE committed' # committed
  <2>1. /\ committed \in Seq(Entry) /\ committed' \in Seq(Entry)
        /\ Len(committed) \in Nat /\ Len(committed') \in Nat
        /\ Len(committed) <= Len(committed')
        /\ \A i \in 1 .. Len(committed) : committed'[i] = committed[i]
    <3>1. Bounded /\ Bounded'
      BY CommitBounded DEF Layers, BoundedInv
    <3>2. committed \in Seq(Entry) /\ committed' \in Seq(Entry)
      BY <3>1 DEF Bounded, TypeOK, RaftTypeOK
    <3> QED
      BY <3>1, <3>2, CommittedGrows
  <2>2. Len(committed) < Len(committed')
    BY <1>4, <2>1
  <2>3. /\ DOMAIN Ledger = 1 .. Len(committed) /\ Len(Ledger) = Len(committed)
        /\ DOMAIN Ledger' = 1 .. Len(committed') /\ Len(Ledger') = Len(committed')
        /\ \A i \in 1 .. Len(committed) : Ledger'[i] = Ledger[i]
    BY <2>1, <2>2 DEF Ledger
  <2>4. ASSUME NEW i \in Len(Ledger) + 1 .. Len(Ledger'), Ledger'[i].req # NoOp
        PROVE  Ledger'[i].req \in Service!Open
    <3> DEFINE r == Ledger'[i].req
    <3>1. /\ i \in DOMAIN Ledger' /\ ~(i \in DOMAIN Ledger)
          /\ DOMAIN Ledger \subseteq DOMAIN Ledger'
      BY <2>1, <2>2, <2>3
    <3>2. /\ r \in Request /\ call[r].pc \notin EarlyStates
          /\ \A j \in DOMAIN Ledger' : Ledger'[j].req = r => j = i
      BY <1>1, <2>4, <3>1 DEF LedgerRight
    <3>3. \A j \in DOMAIN Ledger : Ledger[j].req # r
      BY <2>3, <3>1, <3>2
    <3>4. call[r].pc # "ok"
      BY <3>2, <3>3 DEF LedgerRight
    <3>5. call[r].pc \in CallState
      BY <3>2 DEF Layers, BoundedInv, Bounded, TypeOK, Call
    <3>6. Knowledge[r].pc \in {"pending", "unknown"}
      BY <3>2, <3>4, <3>5 DEF Knowledge, Known, EarlyStates, CallState
    <3> QED
      BY <3>2, <3>3, <3>6 DEF Service!Open
  <2>5. ASSUME NEW i \in Len(Ledger) + 1 .. Len(Ledger')
        PROVE  Service!Counted(Ledger', i)
    <3>1. i \in DOMAIN Ledger'
      BY <2>1, <2>3
    <3> QED
      BY <2>4, <2>5, <3>1 DEF LedgerRight, Service!Counted, Service!Before
  <2>6. Service!TakeEffect
    BY <1>2, <2>2, <2>3, <2>5 DEF Service!TakeEffect, LedgerRight
  <2> QED
    BY <2>6 DEF Service!Next
<1> QED
  BY <1>3, <1>4

\* Calls that wait on, or lose their answer, leave the outcome open.
LEMMA OpenOrSame ==
  ASSUME committed' = committed,
         \A r \in Request :
           \/ call'[r] = call[r]
           \/ /\ call[r].pc \in Waiting
              /\ call'[r].pc \in Waiting \cup {"redirected", "lost"}
  PROVE  [Service!Next]_(Service!vars)
<1> DEFINE R == {r \in Request : /\ call[r].pc \in Waiting
                                 /\ call'[r].pc \in {"redirected", "lost"}}
<1>1. Ledger' = Ledger
  BY DEF Ledger
<1>2. ASSUME NEW r \in R
      PROVE  /\ Known(r) = [pc |-> "pending", value |-> 0]
             /\ Known(r)' = [pc |-> "unknown", value |-> 0]
  BY DEF Known, Waiting
<1>3. ASSUME NEW r \in Request, r \notin R
      PROVE  Known(r)' = Known(r)
  <2>1. CASE call'[r] = call[r]
    BY <2>1 DEF Known
  <2>2. CASE call[r].pc \in Waiting /\ call'[r].pc \in Waiting
    BY <2>2 DEF Known, Waiting
  <2> QED
    BY <1>3, <2>1, <2>2
<1> HIDE DEF R
<1>4. /\ R \subseteq Request
      /\ \A r \in R : Knowledge[r] = [pc |-> "pending", value |-> 0]
      /\ Knowledge' = [r \in Request |-> IF r \in R
                                         THEN [Knowledge[r] EXCEPT !.pc = "unknown"]
                                         ELSE Knowledge[r]]
  <2>1. R \subseteq Request
    BY DEF R
  <2>2. ASSUME NEW r \in R
        PROVE  /\ Knowledge[r] = [pc |-> "pending", value |-> 0]
               /\ Knowledge'[r] = [Knowledge[r] EXCEPT !.pc = "unknown"]
    BY <1>2, <2>1 DEF Knowledge
  <2>3. ASSUME NEW r \in Request, r \notin R
        PROVE  Knowledge'[r] = Knowledge[r]
    BY <1>3, <2>3 DEF Knowledge
  <2> QED
    BY <2>1, <2>2, <2>3 DEF Knowledge
<1>5. CASE R = {}
  <2>1. Knowledge' = Knowledge
    BY <1>3, <1>5 DEF Knowledge
  <2> QED
    BY <1>1, <2>1 DEF Service!vars
<1>6. CASE R # {}
  <2>1. R \in SUBSET {r \in Request : Knowledge[r].pc = "pending"}
    BY <1>4
  <2>2. Service!LeaveOpen
    BY <1>1, <1>4, <1>6, <2>1 DEF Service!LeaveOpen
  <2> QED
    BY <2>2 DEF Service!Next
<1> QED
  BY <1>5, <1>6

\* A handler that takes the addition on invokes it; one that does not, refuses.
LEMMA FetchAddEffect ==
  ASSUME Layers, NEW r \in Request, NEW s \in Server, FetchAdd(r, s)
  PROVE  Service!Invoke(r) \/ Service!Refuse(r)
<1>1. /\ call \in [Request -> Call] /\ call[r].pc = "idle"
      /\ UNCHANGED committed
  BY DEF Layers, BoundedInv, Bounded, TypeOK, FetchAdd, raftVars
<1>2. Ledger' = Ledger
  BY <1>1 DEF Ledger
<1>3. /\ call'[r].pc \in {"handling", "refused"}
      /\ \A x \in Request : x # r => call'[x] = call[x]
  BY ZenonT(20), <1>1 DEF FetchAdd, Call
<1>4. \A x \in Request : x # r => Known(x)' = Known(x)
  BY <1>3 DEF Known
<1>5. Known(r) = [pc |-> "idle", value |-> 0]
  BY <1>1 DEF Known
<1>6. Knowledge[r] = [pc |-> "idle", value |-> 0]
  BY <1>5 DEF Knowledge
<1>7. ASSUME NEW pc, Known(r)' = [pc |-> pc, value |-> 0]
      PROVE  Knowledge' = [Knowledge EXCEPT ![r].pc = pc]
  <2>1. [Knowledge[r] EXCEPT !.pc = pc] = [pc |-> pc, value |-> 0]
    BY <1>6
  <2>2. Knowledge' = [Knowledge EXCEPT ![r] = [pc |-> pc, value |-> 0]]
    BY <1>4, <1>7 DEF Knowledge
  <2> QED
    BY <2>1, <2>2
<1>8. CASE call'[r].pc = "handling"
  <2>1. Known(r)' = [pc |-> "pending", value |-> 0]
    BY <1>8 DEF Known
  <2> QED
    BY <1>2, <1>6, <1>7, <2>1 DEF Service!Invoke
<1>9. CASE call'[r].pc = "refused"
  <2>1. Known(r)' = [pc |-> "refused", value |-> 0]
    BY <1>9 DEF Known
  <2> QED
    BY <1>2, <1>6, <1>7, <2>1 DEF Service!Refuse
<1> QED
  BY <1>3, <1>8, <1>9

\* A success is the answer of an addition that took effect.
LEMMA RunEffect ==
  ASSUME Layers, LedgerRight, NEW r \in Request, Run(r), call[r].pc = "applied"
  PROVE  Service!Succeed(r)
<1>1. /\ call \in [Request -> Call] /\ UNCHANGED committed
      /\ call' = [call EXCEPT ![r].pc = "ok"]
  BY DEF Layers, BoundedInv, Bounded, TypeOK, Run, raftVars
<1>2. Ledger' = Ledger
  BY <1>1 DEF Ledger
<1>3. PICK i \in DOMAIN Ledger :
        Ledger[i].req = r /\ call[r].value = Service!Before(Ledger, i)
  BY DEF LedgerRight
<1>4. /\ call'[r].pc = "ok" /\ call'[r].value = call[r].value
      /\ \A x \in Request : x # r => call'[x] = call[x]
  BY <1>1 DEF Call
<1>5. \A x \in Request : x # r => Known(x)' = Known(x)
  BY <1>4 DEF Known
<1>6. /\ Known(r).pc = "pending"
      /\ Known(r)' = [pc |-> "ok", value |-> Service!Before(Ledger, i)]
  BY <1>3, <1>4 DEF Known
<1>7. /\ Knowledge[r].pc = "pending"
      /\ Knowledge' = [Knowledge EXCEPT ![r] =
                         [pc |-> "ok", value |-> Service!Before(Ledger, i)]]
  BY <1>5, <1>6 DEF Knowledge
<1> QED
  BY <1>2, <1>3, <1>7 DEF Service!Succeed

\* Every other step leaves calls waiting or loses their answer.
LEMMA OtherEffect ==
  ASSUME Layers, ClosuresHeld, [Next]_vars, NEW r \in Request,
         \A s \in Server : ~FetchAdd(r, s),
         ~(Run(r) /\ call[r].pc = "applied")
  PROVE  \/ call'[r] = call[r]
         \/ /\ call[r].pc \in Waiting
            /\ call'[r].pc \in Waiting \cup {"redirected", "lost"}
<1> USE DEF Waiting
<1>1. call \in [Request -> Call] /\ r # NoOp
  BY RaftAssumption DEF Layers, BoundedInv, Bounded, TypeOK
<1>2. ASSUME NEW s \in Server, StepDown(s), r \in PendingRequests(s)
      PROVE  call[r].pc \in Waiting /\ call'[r].pc \in Waiting
  <2>1. leads[s] # 0 /\ call'[r] = [call[r] EXCEPT !.pc = "failed"]
    BY <1>2 DEF StepDown, FailPending
  <2>2. HoldsCall(s, r)
    BY <1>1, <1>2, <2>1 DEF ClosuresHeld, PendingHeld, PendingRequests
  <2> QED
    BY <1>1, <2>1, <2>2 DEF HoldsCall, Call
<1>3. ASSUME NEW s \in Server, StepDown(s), ~(r \in PendingRequests(s))
      PROVE  call'[r] = call[r]
  BY <1>3 DEF StepDown, FailPending
<1>4. ASSUME NEW s \in Server, Crash(s), call'[r] # call[r]
      PROVE  call[r].pc \in Waiting /\ call'[r].pc = "lost"
  BY <1>1, <1>4 DEF Crash, LoseCalls, Call
<1>5. ASSUME NEW s \in Server, FsmApply(s), call'[r] # call[r]
      PROVE  call[r].pc \in Waiting /\ call'[r].pc \in Waiting
  <2> DEFINE i == applied[s] + 1
  <2>1. r = committed[i].req /\ HasClosure(s, i) /\ call'[r].pc = "applied"
    BY <1>1, <1>5 DEF FsmApply, ApplyAdd, ApplyNoOp, Call
  <2>2. i \in Closing(s)
    <3>1. applied[s] < batchEnd[s]
      BY <1>5 DEF FsmApply
    <3> QED
      BY <2>1, <3>1, PeerNumbers DEF Closing, Layers, BoundedInv, Bounded
  <2>3. HoldsCall(s, r)
    BY <1>1, <2>1, <2>2 DEF ClosuresHeld, BatchHeld
  <2> QED
    BY <2>1, <2>3 DEF HoldsCall
<1>6. ASSUME NEW s \in Server, PeerStep(s), ~StepDown(s), ~Crash(s), ~FsmApply(s)
      PROVE  call' = call
  BY <1>6 DEF PeerStep, BecomeLeader, Commit, Learn, FsmBegin, FsmStop, TimerSave,
       FsmSave, SaveFinish, Install, FsmLoad, FsmLoadFails, Restart, rpcVars
<1>7. ASSUME NEW x \in Request, x # r,
             NodeApply(x) \/ Run(x) \/ \E s \in Server : FetchAdd(x, s)
      PROVE  call'[r] = call[r]
  BY <1>1, <1>7 DEF NodeApply, Run, FetchAdd
<1>8. CASE NodeApply(r)
  BY <1>1, <1>8 DEF NodeApply, Call
<1>9. CASE Run(r)
  BY <1>1, <1>9 DEF Run, Call
<1>10. CASE \/ UNCHANGED vars
            \/ \E q \in Query : GetEnd(q) \/ \E s \in Server : GetBegin(q, s)
  BY <1>10 DEF vars, rpcVars, GetEnd, GetBegin
<1> QED
  BY <1>2, <1>3, <1>4, <1>5, <1>6, <1>7, <1>8, <1>9, <1>10 DEF Next, PeerStep

\* Every step of the group is one of the service, or invisible to callers.
LEMMA ServiceStep ==
  ASSUME Layers, ClosuresHeld, LedgerRight, LedgerRight', [Next]_vars
  PROVE  [Service!Next]_(Service!vars)
<1>1. CASE \E s \in Server : Commit(s)
  BY <1>1, CommitEffect
<1>2. CASE \E r \in Request, s \in Server : FetchAdd(r, s)
  BY <1>2, FetchAddEffect DEF Service!Next
<1>3. CASE \E r \in Request : Run(r) /\ call[r].pc = "applied"
  BY <1>3, RunEffect DEF Service!Next
<1>4. CASE /\ \A s \in Server : ~Commit(s)
           /\ \A r \in Request, s \in Server : ~FetchAdd(r, s)
           /\ \A r \in Request : ~(Run(r) /\ call[r].pc = "applied")
  BY <1>4, OnlyCommit, OtherEffect, OpenOrSame
<1> QED
  BY <1>1, <1>2, <1>3, <1>4

\* The peers implement FetchAddService: through elections, kills, restarts and
\* installs, an addition takes effect at most once, at its commit, and every
\* success carries the value it found there, with or without FLAGS_check_term.
THEOREM GroupImplementsService == Spec => ImplementsService
<1>1. Layers => LedgerRight
  BY LedgerIsRight
<1>2. Init => Service!Init
  BY ServiceInit
<1>3. Layers /\ ClosuresHeld /\ LedgerRight /\ LedgerRight' /\ [Next]_vars
        => [Service!Next]_(Service!vars)
  BY ServiceStep
<1> QED
  BY <1>1, <1>2, <1>3, ClosuresAlways, PTL DEF Spec, ImplementsService, Service!Spec
=============================================================================
