---------------------------- MODULE CounterServer ----------------------------
(***************************************************************************)
(* The replicated counter of BRAFT/example_counter/server.cpp: the state   *)
(* machine Counter on every peer, its fetch_add and get handlers, its      *)
(* closures and its snapshots.  Each handler runs on a bthread of its own; *)
(* the on_... callbacks of one peer run one after the other on its FSM     *)
(* queue, behind whatever braft queued before them.                        *)
(***************************************************************************)
EXTENDS RaftGroup

CONSTANTS Query,        \* the get RPCs of a run
          NoServer,     \* where a call is before it reaches a peer
          CheckTerm,    \* FLAGS_check_term
          SnapshotsOn,  \* FLAGS_snapshot_interval > 0
          Crashable     \* bound: the peers that may be killed

ASSUME CounterAssumption ==
  /\ NoServer \notin Server
  /\ CheckTerm \in BOOLEAN
  /\ SnapshotsOn \in BOOLEAN
  /\ Crashable \subseteq Server

VARIABLES up,           \* up[s]: "up", "down", or "error" (braft gave up on s)
          value,        \* Counter::_value
          leaderTerm,   \* Counter::_leader_term
          applied,      \* index of the last entry on_apply went through
          batchEnd,     \* last index of the batch given to on_apply
          firstClosure, \* first index of the batch that carries its closure
          queue,        \* tasks waiting for the FSM thread
          snapshot,     \* the durable snapshot: file "data" and its index
          saving,       \* the SnapshotArg of a running save_snapshot
          call,         \* the fetch_add RPCs
          query         \* the get RPCs

fsmVars == <<up, value, leaderTerm, applied, batchEnd, firstClosure, queue>>
diskVars == <<snapshot, saving>>
rpcVars == <<call, query>>
vars == <<raftVars, fsmVars, diskVars, rpcVars>>

NotLeader == -1
Snapshots == [index : Nat, value : Value]
NoSnapshot == [index |-> 0, value |-> 0]
Task == [type : {"commit", "stop", "save", "load"}, index : Nat]
CallState == {"idle", "handling", "logged", "applied", "failed",
              "ok", "redirected", "refused", "lost"}
Call == [pc : CallState, at : Server \cup {NoServer},
         term : {NotLeader} \cup 1 .. MaxTerm, value : Value]
QueryState == {"idle", "checked", "ok", "refused", "lost"}
Get == [pc : QueryState, at : Server \cup {NoServer},
        term : {NotLeader} \cup 1 .. MaxTerm, value : Value,
        index : Nat, seen : SUBSET Request]

TypeOK ==
  /\ RaftTypeOK
  /\ up \in [Server -> {"up", "down", "error"}]
  /\ value \in [Server -> Value]
  /\ leaderTerm \in [Server -> {NotLeader} \cup 1 .. MaxTerm]
  /\ applied \in [Server -> Nat]
  /\ batchEnd \in [Server -> Nat]
  /\ firstClosure \in [Server -> Nat]
  /\ queue \in [Server -> Seq(Task)]
  /\ snapshot \in [Server -> Snapshots]
  /\ saving \in [Server -> Snapshots]
  /\ call \in [Request -> Call]
  /\ query \in [Query -> Get]

\* Counter::is_leader
IsLeader(s) == leaderTerm[s] > 0

\* The constructor of Counter, on every peer of a new group.
Init ==
  /\ RaftInit
  /\ up = [s \in Server |-> "up"]
  /\ value = [s \in Server |-> 0]
  /\ leaderTerm = [s \in Server |-> NotLeader]
  /\ applied = [s \in Server |-> 0]
  /\ batchEnd = [s \in Server |-> 0]
  /\ firstClosure = [s \in Server |-> 1]
  /\ queue = [s \in Server |-> << >>]
  /\ snapshot = [s \in Server |-> NoSnapshot]
  /\ saving = [s \in Server |-> NoSnapshot]
  /\ call = [r \in Request |->
               [pc |-> "idle", at |-> NoServer, term |-> NotLeader, value |-> 0]]
  /\ query = [q \in Query |->
                [pc |-> "idle", at |-> NoServer, term |-> NotLeader,
                 value |-> 0, index |-> 0, seen |-> {}]]

-----------------------------------------------------------------------------
(* braft acting on peer s: elections, commits, and what they queue.         *)

Enqueue(s, type, index) ==
  queue' = [queue EXCEPT ![s] = Append(@, [type |-> type, index |-> index])]

Queued(s, type) == \E i \in 1 .. Len(queue[s]) : queue[s][i].type = type

\* No election while a snapshot is being installed.
BecomeLeader(s) ==
  /\ up[s] = "up"
  /\ ~Queued(s, "load")
  /\ Elect(s)
  /\ UNCHANGED <<fsmVars, diskVars, rpcVars>>

\* The requests of s whose closure is still in its queue.
PendingRequests(s) ==
  {termLog[leads[s]][i].req : i \in firstPending[s] .. Len(termLog[leads[s]])}

\* Closures whose entry's fate braft will not follow run with an error status.
FailPending(s) ==
  call' = [r \in Request |->
             IF r \in PendingRequests(s) THEN [call[r] EXCEPT !.pc = "failed"]
                                         ELSE call[r]]

StepDown(s) ==
  /\ leads[s] # 0
  /\ RaftStepDown(s)
  /\ FailPending(s)
  /\ Enqueue(s, "stop", 0)
  /\ UNCHANGED <<up, value, leaderTerm, applied, batchEnd, firstClosure,
                 diskVars, query>>

Commit(s) ==
  \E k \in 1 .. Len(LogOf(leads[s])) :
    /\ LeaderCommit(s, k)
    /\ Enqueue(s, "commit", k)
    /\ UNCHANGED <<up, value, leaderTerm, applied, batchEnd, firstClosure,
                   diskVars, rpcVars>>

Learn(s) ==
  \E k \in 1 .. Len(committed) :
    /\ up[s] = "up"
    /\ FollowerCommit(s, k)
    /\ Enqueue(s, "commit", k)
    /\ UNCHANGED <<up, value, leaderTerm, applied, batchEnd, firstClosure,
                   diskVars, rpcVars>>

-----------------------------------------------------------------------------
(* The FSM thread of peer s.                                                *)

\* The thread is between two tasks and the next one has this type.
NextTask(s, type) ==
  /\ up[s] = "up"
  /\ applied[s] = batchEnd[s]
  /\ queue[s] # << >>
  /\ Head(queue[s]).type = type

Dequeue(s) == queue' = [queue EXCEPT ![s] = Tail(@)]

\* A committed index becomes a batch.  The closures up to it leave the queue
\* now, so that stepping down no longer fails them.
FsmBegin(s) ==
  /\ NextTask(s, "commit")
  /\ Dequeue(s)
  /\ LET k == Head(queue[s]).index
         owned == leads[s] # 0 /\ firstPending[s] <= k
     IN  IF k <= applied[s]
         THEN UNCHANGED <<batchEnd, firstClosure, firstPending>>
         ELSE /\ batchEnd' = [batchEnd EXCEPT ![s] = k]
              /\ firstClosure' = [firstClosure EXCEPT ![s] =
                                    IF owned THEN firstPending[s] ELSE k + 1]
              /\ firstPending' = IF owned
                                 THEN [firstPending EXCEPT ![s] = k + 1]
                                 ELSE firstPending
  /\ UNCHANGED <<termLog, committed, leads, commitIndex, up, value, leaderTerm,
                 applied, diskVars, rpcVars>>

\* iter.done() of on_apply: this peer proposed the entry in its present term.
HasClosure(s, i) == i >= firstClosure[s]

\* Mutant of FetchResult: the new value instead of the previous one.
NewValue(before, delta) == Wrap(before + delta)

\* What response->set_value() is given: the value before the addition.
FetchResult(before, delta) == before

\* Counter::on_leader_start
OnLeaderStart(s, t) == leaderTerm' = [leaderTerm EXCEPT ![s] = t]

\* One iteration of the loop of on_apply.  The closure runs asynchronously.
ApplyAdd(s, i) ==
  LET r == committed[i].req IN
  /\ r # NoOp
  /\ value' = [value EXCEPT ![s] = Wrap(@ + Delta[r])]
  /\ call' = IF HasClosure(s, i)
             THEN [call EXCEPT ![r].pc = "applied",
                               ![r].value = FetchResult(value[s], Delta[r])]
             ELSE call
  /\ UNCHANGED leaderTerm

\* The entry of a new term is not handed to on_apply: its closure, if it is
\* still there, tells the state machine that it leads.
ApplyNoOp(s, i) ==
  /\ committed[i].req = NoOp
  /\ IF HasClosure(s, i) THEN OnLeaderStart(s, committed[i].term)
                         ELSE UNCHANGED leaderTerm
  /\ UNCHANGED <<value, call>>

FsmApply(s) ==
  /\ up[s] = "up"
  /\ applied[s] < batchEnd[s]
  /\ applied' = [applied EXCEPT ![s] = @ + 1]
  /\ \/ ApplyAdd(s, applied[s] + 1)
     \/ ApplyNoOp(s, applied[s] + 1)
  /\ UNCHANGED <<raftVars, up, batchEnd, firstClosure, queue, diskVars, query>>

\* Mutant of StoppedTerm: on_leader_stop only logs.
KeptTerm(term) == term

\* What Counter::on_leader_stop stores.
StoppedTerm(term) == NotLeader

FsmStop(s) ==
  /\ NextTask(s, "stop")
  /\ Dequeue(s)
  /\ leaderTerm' = [leaderTerm EXCEPT ![s] = StoppedTerm(@)]
  /\ UNCHANGED <<raftVars, up, value, applied, batchEnd, firstClosure,
                 diskVars, rpcVars>>

-----------------------------------------------------------------------------
(* Snapshots.                                                               *)

SnapshotBusy(s) == \/ saving[s] # NoSnapshot
                   \/ Queued(s, "save")
                   \/ Queued(s, "load")

\* braft's snapshot timer, every FLAGS_snapshot_interval seconds.
TimerSave(s) ==
  /\ SnapshotsOn
  /\ up[s] = "up"
  /\ ~SnapshotBusy(s)
  /\ applied[s] > snapshot[s].index
  /\ Enqueue(s, "save", 0)
  /\ UNCHANGED <<raftVars, up, value, leaderTerm, applied, batchEnd,
                 firstClosure, diskVars, rpcVars>>

\* on_snapshot_save copies _value before it starts the bthread that writes it.
FsmSave(s) ==
  /\ NextTask(s, "save")
  /\ Dequeue(s)
  /\ saving' = [saving EXCEPT ![s] = [index |-> applied[s], value |-> value[s]]]
  /\ UNCHANGED <<raftVars, up, value, leaderTerm, applied, batchEnd,
                 firstClosure, snapshot, rpcVars>>

\* Mutant of SavedValue: the bthread loads _value when it gets to run.
LateValue(s) == value[s]

\* What save_snapshot writes: the value in its SnapshotArg.
SavedValue(s) == saving[s].value

\* save_snapshot ends while the FSM thread goes on applying: with the file
\* complete, or with EIO, which leaves the previous snapshot in place.
SaveFinish(s) ==
  /\ saving[s] # NoSnapshot
  /\ saving' = [saving EXCEPT ![s] = NoSnapshot]
  /\ \/ snapshot' = [snapshot EXCEPT ![s] =
                       [index |-> saving[s].index, value |-> SavedValue(s)]]
     \/ UNCHANGED snapshot
  /\ UNCHANGED <<raftVars, fsmVars, rpcVars>>

\* Leader "from" has compacted the entries that follower s needs next: its
\* snapshot is copied to the disk of s, then queued for on_snapshot_load.
Install(s, from) ==
  /\ up[s] = "up"
  /\ leads[s] = 0 /\ leads[from] # 0
  /\ ~SnapshotBusy(s)
  /\ snapshot[from].index > commitIndex[s]
  /\ snapshot' = [snapshot EXCEPT ![s] = snapshot[from]]
  /\ commitIndex' = [commitIndex EXCEPT ![s] = snapshot[from].index]
  /\ Enqueue(s, "load", snapshot[from].index)
  /\ UNCHANGED <<termLog, committed, leads, firstPending, up, value, leaderTerm,
                 applied, batchEnd, firstClosure, saving, rpcVars>>

\* on_snapshot_load replaces _value by the snapshot's.
FsmLoad(s) ==
  /\ NextTask(s, "load")
  /\ Dequeue(s)
  /\ value' = [value EXCEPT ![s] = snapshot[s].value]
  /\ applied' = [applied EXCEPT ![s] = snapshot[s].index]
  /\ batchEnd' = [batchEnd EXCEPT ![s] = snapshot[s].index]
  /\ UNCHANGED <<raftVars, up, leaderTerm, firstClosure, diskVars, rpcVars>>

\* "data" is missing or unreadable: on_snapshot_load returns -1, and braft puts
\* the node in its error state, in which the FSM thread runs nothing more.
FsmLoadFails(s) ==
  /\ NextTask(s, "load")
  /\ queue' = [queue EXCEPT ![s] = << >>]
  /\ up' = [up EXCEPT ![s] = "error"]
  /\ UNCHANGED <<raftVars, value, leaderTerm, applied, batchEnd, firstClosure,
                 diskVars, rpcVars>>

-----------------------------------------------------------------------------
(* The RPC handlers.  The service is reachable while the process lives.     *)

\* Counter::fetch_add up to Node::apply: the term is read once.  A peer that
\* does not lead answers itself, as does one that cannot serialize the request.
FetchAdd(r, s) ==
  /\ up[s] # "down"
  /\ call[r].pc = "idle"
  /\ \/ /\ leaderTerm[s] >= 0
        /\ call' = [call EXCEPT ![r] = [@ EXCEPT !.pc = "handling", !.at = s,
                                                 !.term = leaderTerm[s]]]
     \/ call' = [call EXCEPT ![r] = [@ EXCEPT !.pc = "refused", !.at = s]]
  /\ UNCHANGED <<raftVars, fsmVars, diskVars, query>>

\* Mutant of TermMatches: task.expected_term is never set.
AnyTerm(term, current) == TRUE

\* task.expected_term against the term of the node; -1 expects nothing.
TermMatches(term, current) == CheckTerm => term = current

\* _node->apply(task), which braft executes later, on a queue of its own.
NodeApply(r) ==
  LET s == call[r].at
      accepted == leads[s] # 0 /\ TermMatches(call[r].term, leads[s])
  IN
  /\ call[r].pc = "handling"
  /\ IF accepted THEN LeaderAppend(s, r) ELSE UNCHANGED raftVars
  /\ call' = [call EXCEPT ![r].pc = IF accepted THEN "logged" ELSE "failed"]
  /\ UNCHANGED <<fsmVars, diskVars, query>>

\* Mutant of Run: the status of the closure is not looked at.
RunIgnoringStatus(r) ==
  /\ call[r].pc \in {"applied", "failed"}
  /\ call' = [call EXCEPT ![r].pc = "ok"]
  /\ UNCHANGED <<raftVars, fsmVars, diskVars, query>>

\* Mutant of Run: a task that failed has its closure deleted, not answered.
RunWithoutGuard(r) ==
  /\ call[r].pc = "applied"
  /\ call' = [call EXCEPT ![r].pc = "ok"]
  /\ UNCHANGED <<raftVars, fsmVars, diskVars, query>>

\* Mutant of Run: success is answered as soon as the leader has the entry.
RunBeforeApply(r) ==
  /\ call[r].pc \in {"logged", "applied"}
  /\ call' = [call EXCEPT ![r].pc = "ok"]
  /\ UNCHANGED <<raftVars, fsmVars, diskVars, query>>

\* FetchAddClosure::Run: the response on_apply filled in, or a redirect.
Run(r) ==
  /\ \/ /\ call[r].pc = "applied"
        /\ call' = [call EXCEPT ![r].pc = "ok"]
     \/ /\ call[r].pc = "failed"
        /\ call' = [call EXCEPT ![r].pc = "redirected"]
  /\ UNCHANGED <<raftVars, fsmVars, diskVars, query>>

Acknowledged == {r \in Request : call[r].pc = "ok"}

\* Counter::get, first load: is_leader().  "term" and "seen" are history: the
\* term it found, and the additions acknowledged before this get began.
GetBegin(q, s) ==
  /\ up[s] # "down"
  /\ query[q].pc = "idle"
  /\ query' = [query EXCEPT ![q] =
                 [@ EXCEPT !.pc = IF IsLeader(s) THEN "checked" ELSE "refused",
                           !.at = s, !.term = leaderTerm[s],
                           !.seen = Acknowledged]]
  /\ UNCHANGED <<raftVars, fsmVars, diskVars, call>>

\* Counter::get, second load: _value.  "index" is history.
GetEnd(q) ==
  /\ query[q].pc = "checked"
  /\ query' = [query EXCEPT ![q] =
                 [@ EXCEPT !.pc = "ok", !.value = value[query[q].at],
                           !.index = applied[query[q].at]]]
  /\ UNCHANGED <<raftVars, fsmVars, diskVars, call>>

-----------------------------------------------------------------------------
(* kill -9 (stop.sh) and a start on the same data path (run_server.sh).     *)

LoseCalls(s) ==
  /\ call' = [r \in Request |->
       IF call[r].at = s /\ call[r].pc \in {"handling", "logged", "applied", "failed"}
       THEN [call[r] EXCEPT !.pc = "lost"] ELSE call[r]]
  /\ query' = [q \in Query |->
       IF query[q].at = s /\ query[q].pc = "checked"
       THEN [query[q] EXCEPT !.pc = "lost"] ELSE query[q]]

Crash(s) ==
  /\ s \in Crashable
  /\ up[s] # "down"
  /\ RaftCrash(s, snapshot[s].index)
  /\ up' = [up EXCEPT ![s] = "down"]
  /\ value' = [value EXCEPT ![s] = 0]
  /\ leaderTerm' = [leaderTerm EXCEPT ![s] = NotLeader]
  /\ applied' = [applied EXCEPT ![s] = 0]
  /\ batchEnd' = [batchEnd EXCEPT ![s] = 0]
  /\ firstClosure' = [firstClosure EXCEPT ![s] = 1]
  /\ queue' = [queue EXCEPT ![s] = << >>]
  /\ saving' = [saving EXCEPT ![s] = NoSnapshot]
  /\ LoseCalls(s)
  /\ UNCHANGED snapshot

\* Mutant of RecoveredValue: the state machine restarts from its constructor.
ForgottenValue(s) == 0

\* Counter::start on what the disk holds: Node::init runs on_snapshot_load.
RecoveredValue(s) == snapshot[s].value

Restart(s) ==
  /\ up[s] = "down"
  /\ up' = [up EXCEPT ![s] = "up"]
  /\ value' = [value EXCEPT ![s] = RecoveredValue(s)]
  /\ applied' = [applied EXCEPT ![s] = snapshot[s].index]
  /\ batchEnd' = [batchEnd EXCEPT ![s] = snapshot[s].index]
  /\ UNCHANGED <<raftVars, leaderTerm, firstClosure, queue, diskVars, rpcVars>>

-----------------------------------------------------------------------------

Fsm(s) == FsmBegin(s) \/ FsmApply(s) \/ FsmStop(s) \/ FsmSave(s) \/ FsmLoad(s)
          \/ FsmLoadFails(s)

Next ==
  \/ \E s \in Server :
       \/ BecomeLeader(s) \/ StepDown(s) \/ Commit(s) \/ Learn(s)
       \/ FsmBegin(s) \/ FsmApply(s) \/ FsmStop(s)
       \/ TimerSave(s) \/ FsmSave(s) \/ SaveFinish(s)
       \/ \E from \in Server : Install(s, from)
       \/ FsmLoad(s) \/ FsmLoadFails(s)
       \/ Crash(s) \/ Restart(s)
       \/ \E r \in Request : FetchAdd(r, s)
       \/ \E q \in Query : GetBegin(q, s)
  \/ \E r \in Request : NodeApply(r) \/ Run(r)
  \/ \E q \in Query : GetEnd(q)

Spec == Init /\ [][Next]_vars

\* A leader either gets its log committed or, cut off from its quorum for an
\* election timeout, steps down.
Settle(s) == commitIndex[s] < Len(LogOf(leads[s])) /\ (Commit(s) \/ StepDown(s))

\* The FSM thread and the bthreads of the handlers keep running; no fairness of
\* elections, snapshots or restarts.
Fairness ==
  /\ \A s \in Server : WF_vars(Fsm(s)) /\ WF_vars(Settle(s))
  /\ \A r \in Request : WF_vars(NodeApply(r)) /\ WF_vars(Run(r))

FairSpec == Spec /\ Fairness

-----------------------------------------------------------------------------
(* Properties.                                                              *)

\* The value a log holds up to index i, whichever peer computes it.
ValueAt(i) == TotalAt(committed, i)

\* Every peer's _value is what the committed log holds up to the entry it has
\* applied: in the middle of a batch, after a snapshot was installed, after a
\* kill and a restart, and across an overflow (on_apply, on_snapshot_load).
StateMatchesLog == \A s \in Server : value[s] = ValueAt(applied[s])

\* A snapshot on disk, and the one being written while on_apply moves on, hold
\* the value of exactly the index braft files them under (on_snapshot_save).
SnapshotMatchesLog ==
  \A s \in Server : \A x \in {snapshot[s], saving[s]} :
    x.index <= Len(committed) /\ x.value = ValueAt(x.index)

\* A fetch_add answered with success is in the committed log, exactly once, and
\* the answer is the value just before it (on_apply's prev), whatever crashes
\* and changes of leader follow.
AcknowledgedDurable ==
  \A r \in Acknowledged :
    \E i \in 1 .. Len(committed) :
      /\ committed[i].req = r
      /\ call[r].value = ValueAt(i - 1)
      /\ \A j \in 1 .. Len(committed) : committed[j].req = r => j = i

\* No addition enters the log of another term than the one its handler saw:
\* between the load of _leader_term and Node::apply the peer may lose and win
\* the leadership (the ABA problem task.expected_term is set for).
ExpectedTermRespected ==
  \A t \in 1 .. LastTerm : \A i \in 1 .. Len(termLog[t]) :
    termLog[t][i].req # NoOp =>
      termLog[t][i].term = call[termLog[t][i].req].term

\* CHECK(!is_leader()) of on_snapshot_load never fails.
LoadNeverOnLeader == \A s \in Server : NextTask(s, "load") => ~IsLeader(s)

\* A get answered with success reflects every addition that was acknowledged
\* before it began in the term it found or an earlier one: becoming leader is
\* only reported once everything committed before has been applied.
TermReadsComplete ==
  \A q \in Query : query[q].pc = "ok" =>
    /\ query[q].value = ValueAt(query[q].index)
    /\ \A r \in query[q].seen : call[r].term <= query[q].term =>
         \E i \in 1 .. query[q].index : committed[i].req = r

\* Every fetch_add a peer has accepted is answered, unless the peer is killed:
\* no closure is forgotten when leadership changes hands.
AlwaysAnswered ==
  \A r \in Request :
    call[r].pc \in {"handling", "logged", "applied", "failed"} ~>
      call[r].pc \in {"ok", "redirected", "lost"}

\* "This is the leader and is up-to-date.  It's safe to respond client": a get
\* answered with success reflects every addition acknowledged before it began.
UpToDateRead ==
  \A q \in Query : query[q].pc = "ok" =>
    \A r \in query[q].seen : \E i \in 1 .. query[q].index : committed[i].req = r

\* "Try redirect if this request failed": a fetch_add answered with a redirect
\* is not in the committed log.
RedirectedNotApplied ==
  \A r \in Request : call[r].pc = "redirected" =>
    \A i \in 1 .. Len(committed) : committed[i].req # r
=============================================================================
