------------------------------ MODULE RaftGroup ------------------------------
(***************************************************************************)
(* The replicated log the counter is built on: what the calls that         *)
(* server.cpp makes to braft::Node, and the callbacks it receives, may     *)
(* rely on.  braft itself is not part of the repository, so every          *)
(* definition here is external: votes, quorums and AppendEntries messages  *)
(* are abstracted to the guarantee they give, that a committed prefix is   *)
(* held by every later leader.                                             *)
(*                                                                         *)
(* Terms in which a leader was elected are numbered 1, 2, ...; termLog[t]  *)
(* is the log of the leader of term t, which only that leader extends.     *)
(***************************************************************************)
EXTENDS Integers, Sequences

CONSTANTS Server,      \* the peers of the group (FLAGS_conf)
          Request,     \* the fetch_add RPCs of a run, one element per RPC
          NoOp,        \* the configuration entry a new leader appends
          Delta,       \* Delta[r] is request->value()
          Half,        \* an int64_t ranges over -Half .. Half - 1
          MaxTerm      \* bound: elections won in a behaviour

ASSUME RaftAssumption ==
  /\ NoOp \notin Request
  /\ Half \in Nat \ {0}
  /\ Delta \in [Request -> -Half .. Half - 1]
  /\ MaxTerm \in Nat

VARIABLES termLog,      \* termLog[t]: the log of the leader of term t
          committed,    \* the entries known to be held by a quorum
          leads,        \* leads[s]: the term s is raft leader of, or 0
          commitIndex,  \* commitIndex[s]: what s knows to be committed
          firstPending  \* firstPending[s]: first index of s's closure queue

raftVars == <<termLog, committed, leads, commitIndex, firstPending>>

\* Mutant of Wrap: the addition never overflows.
WrapNever(x) == x

\* Addition on an int64_t atomic wraps around.
Wrap(x) == ((x + Half) % (2 * Half)) - Half

Value == -Half .. Half - 1

\* A log entry.  "total" is a history field: the value of a counter that has
\* applied the log up to and including this entry.
Entry == [term : 1 .. MaxTerm, req : Request \cup {NoOp}, total : Value]

TotalAt(log, i) == IF i = 0 THEN 0 ELSE log[i].total

NewEntry(log, t, r) ==
  [term  |-> t,
   req   |-> r,
   total |-> IF r = NoOp THEN TotalAt(log, Len(log))
                         ELSE Wrap(TotalAt(log, Len(log)) + Delta[r])]

\* The two logs hold the same entries up to k.
Agree(a, b, k) == /\ k <= Len(a)
                  /\ k <= Len(b)
                  /\ \A i \in 1 .. k : a[i] = b[i]

LogOf(t) == IF t = 0 THEN << >> ELSE termLog[t]

LastTerm == Len(termLog)

RaftInit ==
  /\ termLog = << >>
  /\ committed = << >>
  /\ leads = [s \in Server |-> 0]
  /\ commitIndex = [s \in Server |-> 0]
  /\ firstPending = [s \in Server |-> 1]

\* s wins an election with a log that holds everything committed: a prefix of
\* the log of an earlier leader.  It appends its configuration entry, whose
\* closure is the first of its queue.
Elect(s) ==
  /\ leads[s] = 0
  /\ LastTerm < MaxTerm
  /\ \E t \in 0 .. LastTerm : \E k \in 0 .. Len(LogOf(t)) :
       /\ Len(committed) <= k
       /\ Agree(LogOf(t), committed, Len(committed))
       /\ LET inherited == SubSeq(LogOf(t), 1, k)
          IN  termLog' = Append(termLog,
                Append(inherited, NewEntry(inherited, LastTerm + 1, NoOp)))
       /\ firstPending' = [firstPending EXCEPT ![s] = k + 1]
  /\ leads' = [leads EXCEPT ![s] = LastTerm + 1]
  /\ UNCHANGED <<committed, commitIndex>>

\* Node::apply at the leader s: the entry joins its log, its closure the queue.
LeaderAppend(s, r) ==
  /\ termLog' = [termLog EXCEPT ![leads[s]] =
                   Append(@, NewEntry(@, leads[s], r))]
  /\ UNCHANGED <<committed, leads, commitIndex, firstPending>>

\* Leader s learns that a quorum holds its log up to k.  Entries of earlier
\* terms commit only under one of its own, and whoever was elected since holds
\* them too.
LeaderCommit(s, k) ==
  /\ leads[s] # 0
  /\ k \in commitIndex[s] + 1 .. Len(termLog[leads[s]])
  /\ termLog[leads[s]][k].term = leads[s]
  /\ \A t \in leads[s] + 1 .. LastTerm : Agree(termLog[leads[s]], termLog[t], k)
  /\ commitIndex' = [commitIndex EXCEPT ![s] = k]
  /\ committed' = IF k <= Len(committed) THEN committed
                  ELSE SubSeq(termLog[LastTerm], 1, k)
  /\ UNCHANGED <<termLog, leads, firstPending>>

\* A follower is told how far the group has committed.
FollowerCommit(s, k) ==
  /\ leads[s] = 0
  /\ k \in commitIndex[s] + 1 .. Len(committed)
  /\ commitIndex' = [commitIndex EXCEPT ![s] = k]
  /\ UNCHANGED <<termLog, committed, leads, firstPending>>

\* The leader gives up its term; its closure queue is emptied.
RaftStepDown(s) ==
  /\ leads' = [leads EXCEPT ![s] = 0]
  /\ UNCHANGED <<termLog, committed, commitIndex, firstPending>>

\* The process of s is killed: the log survives, what s knew of the group's
\* progress does not, beyond the index its snapshot covers.
RaftCrash(s, snapshotIndex) ==
  /\ leads' = [leads EXCEPT ![s] = 0]
  /\ commitIndex' = [commitIndex EXCEPT ![s] = snapshotIndex]
  /\ UNCHANGED <<termLog, committed, firstPending>>

-----------------------------------------------------------------------------
RaftTypeOK ==
  /\ termLog \in Seq(Seq(Entry))
  /\ committed \in Seq(Entry)
  /\ leads \in [Server -> 0 .. MaxTerm]
  /\ commitIndex \in [Server -> Nat]
  /\ firstPending \in [Server -> Nat]

\* Every entry carries the value of a counter that applied the log up to it.
TotalsSound(log) ==
  \A i \in 1 .. Len(log) :
    log[i].total = IF log[i].req = NoOp
                   THEN TotalAt(log, i - 1)
                   ELSE Wrap(TotalAt(log, i - 1) + Delta[log[i].req])

\* The newest leader's log holds everything committed, and no leader believes
\* an entry committed that differs from the group's.
LogMatching ==
  /\ LastTerm = 0 => committed = << >>
  /\ LastTerm > 0 => Agree(termLog[LastTerm], committed, Len(committed))
  /\ \A s \in Server :
       /\ leads[s] <= LastTerm
       /\ commitIndex[s] <= Len(committed)
       /\ leads[s] # 0 => Agree(termLog[leads[s]], committed, commitIndex[s])

\* The inductive invariant of the replicated log.
RaftInv ==
  /\ LastTerm <= MaxTerm
  /\ \A t \in 1 .. LastTerm : TotalsSound(termLog[t])
  /\ LogMatching
=============================================================================
