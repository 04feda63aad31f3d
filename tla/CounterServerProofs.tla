------------------------- MODULE CounterServerProofs -------------------------
(***************************************************************************)
(* Safety of CounterServer for any number of peers, requests, terms and    *)
(* any width of _value.  First what the raft group keeps; then the         *)
(* invariant, in three layers, each on top of the one before: types and    *)
(* bounds (Bounded), the values peers hold (Valued), and the answers       *)
(* callers get (AnswersRight).                                             *)
(***************************************************************************)
EXTENDS CounterServer, TLAPS

-----------------------------------------------------------------------------
(* What every action of RaftGroup keeps: RaftInv, the facts about the       *)
(* replicated log the layers rest on.                                       *)

\* An addition that wraps around stays in the range of an int64_t.
LEMMA WrapInRange ==
  ASSUME NEW x \in Int
  PROVE  Wrap(x) \in Value
<1>1. 2 * Half \in Nat \ {0}
  BY RaftAssumption
<1>2. (x + Half) % (2 * Half) \in 0 .. 2 * Half - 1
  BY <1>1, RaftAssumption
<1> QED
  BY <1>2, RaftAssumption DEF Wrap, Value

\* The value recorded at any index of a log is one a counter can have.
LEMMA TotalInRange ==
  ASSUME NEW log \in Seq(Entry), NEW i \in 0 .. Len(log)
  PROVE  TotalAt(log, i) \in Value
<1>1. CASE i = 0
  BY <1>1, RaftAssumption DEF TotalAt, Value
<1>2. CASE i # 0
  <2>1. log[i] \in Entry
    BY <1>2
  <2> QED
    BY <1>2, <2>1 DEF TotalAt, Entry
<1> QED
  BY <1>1, <1>2

\* The entry a leader makes of a request is an entry.
LEMMA NewEntryType ==
  ASSUME NEW log \in Seq(Entry), NEW t \in 1 .. MaxTerm,
         NEW r \in Request \cup {NoOp}
  PROVE  NewEntry(log, t, r) \in Entry
<1>1. TotalAt(log, Len(log)) \in Value
  BY TotalInRange
<1>2. ASSUME r # NoOp
      PROVE  Wrap(TotalAt(log, Len(log)) + Delta[r]) \in Value
  <2>1. TotalAt(log, Len(log)) + Delta[r] \in Int
    BY <1>1, <1>2, RaftAssumption DEF Value
  <2> QED
    BY <2>1, WrapInRange
<1> QED
  BY <1>1, <1>2 DEF NewEntry, Entry

\* Appending a new entry to a sound log keeps it sound.
LEMMA AppendSound ==
  ASSUME NEW log \in Seq(Entry), NEW t \in 1 .. MaxTerm,
         NEW r \in Request \cup {NoOp}, TotalsSound(log)
  PROVE  TotalsSound(Append(log, NewEntry(log, t, r)))
<1> DEFINE e == NewEntry(log, t, r)
           longer == Append(log, e)
<1>1. e \in Entry
  BY NewEntryType
<1>2. /\ Len(longer) = Len(log) + 1
      /\ \A i \in 1 .. Len(log) : longer[i] = log[i]
      /\ longer[Len(log) + 1] = e
  BY <1>1
<1>3. \A i \in 0 .. Len(log) : TotalAt(longer, i) = TotalAt(log, i)
  BY <1>2 DEF TotalAt
<1>4. e.req = r /\ e.total = IF r = NoOp THEN TotalAt(log, Len(log))
                             ELSE Wrap(TotalAt(log, Len(log)) + Delta[r])
  BY DEF NewEntry
<1> SUFFICES ASSUME NEW i \in 1 .. Len(longer)
             PROVE  longer[i].total = IF longer[i].req = NoOp
                      THEN TotalAt(longer, i - 1)
                      ELSE Wrap(TotalAt(longer, i - 1) + Delta[longer[i].req])
  BY DEF TotalsSound
<1>5. CASE i = Len(log) + 1
  <2>1. longer[i] = e /\ TotalAt(longer, i - 1) = TotalAt(log, Len(log))
    BY <1>2, <1>3, <1>5
  <2> QED
    BY <2>1, <1>4
<1>6. CASE i # Len(log) + 1
  <2>1. i \in 1 .. Len(log) /\ i - 1 \in 0 .. Len(log)
    BY <1>2, <1>6
  <2>2. longer[i] = log[i] /\ TotalAt(longer, i - 1) = TotalAt(log, i - 1)
    BY <2>1, <1>2, <1>3
  <2> QED
    BY <2>1, <2>2 DEF TotalsSound
<1> QED
  BY <1>5, <1>6

\* A prefix of a sound log is sound.
LEMMA PrefixSound ==
  ASSUME NEW log \in Seq(Entry), NEW k \in 0 .. Len(log), TotalsSound(log)
  PROVE  /\ SubSeq(log, 1, k) \in Seq(Entry)
         /\ Len(SubSeq(log, 1, k)) = k
         /\ \A i \in 1 .. k : SubSeq(log, 1, k)[i] = log[i]
         /\ TotalsSound(SubSeq(log, 1, k))
<1> DEFINE pre == SubSeq(log, 1, k)
<1>1. pre \in Seq(Entry) /\ Len(pre) = k /\ \A i \in 1 .. k : pre[i] = log[i]
  OBVIOUS
<1>2. \A i \in 0 .. k : TotalAt(pre, i) = TotalAt(log, i)
  BY <1>1 DEF TotalAt
<1> HIDE DEF pre
<1>3. TotalsSound(pre)
  <2> SUFFICES ASSUME NEW i \in 1 .. Len(pre)
               PROVE  pre[i].total = IF pre[i].req = NoOp
                        THEN TotalAt(pre, i - 1)
                        ELSE Wrap(TotalAt(pre, i - 1) + Delta[pre[i].req])
    BY DEF TotalsSound
  <2>1. i \in 1 .. Len(log) /\ i - 1 \in 0 .. k
    BY <1>1
  <2>2. pre[i] = log[i] /\ TotalAt(pre, i - 1) = TotalAt(log, i - 1)
    BY <2>1, <1>1, <1>2
  <2> QED
    BY <2>1, <2>2 DEF TotalsSound
<1> QED
  BY <1>1, <1>3 DEF pre

-----------------------------------------------------------------------------

\* An empty log satisfies what braft promises.
LEMMA RaftInitSound == RaftInit => RaftTypeOK /\ RaftInv
  BY RaftAssumption DEF RaftInit, RaftTypeOK, RaftInv, LogMatching, LastTerm,
                        TotalsSound

\* A new leader starts from a prefix that covers everything committed.
LEMMA ElectStep ==
  ASSUME NEW s \in Server, RaftTypeOK, RaftInv, Elect(s)
  PROVE  RaftTypeOK' /\ RaftInv'
<1> USE DEF LastTerm
<1>1. PICK t \in 0 .. LastTerm : \E k \in 0 .. Len(LogOf(t)) :
        /\ Len(committed) <= k
        /\ Agree(LogOf(t), committed, Len(committed))
        /\ termLog' = Append(termLog, Append(SubSeq(LogOf(t), 1, k),
             NewEntry(SubSeq(LogOf(t), 1, k), LastTerm + 1, NoOp)))
        /\ firstPending' = [firstPending EXCEPT ![s] = k + 1]
  BY DEF Elect
<1>2. PICK k \in 0 .. Len(LogOf(t)) :
        /\ Len(committed) <= k
        /\ Agree(LogOf(t), committed, Len(committed))
        /\ termLog' = Append(termLog, Append(SubSeq(LogOf(t), 1, k),
             NewEntry(SubSeq(LogOf(t), 1, k), LastTerm + 1, NoOp)))
        /\ firstPending' = [firstPending EXCEPT ![s] = k + 1]
  BY <1>1
<1>3. /\ leads[s] = 0 /\ LastTerm < MaxTerm
      /\ leads' = [leads EXCEPT ![s] = LastTerm + 1]
      /\ committed' = committed /\ commitIndex' = commitIndex
  BY DEF Elect
<1>4. LogOf(t) \in Seq(Entry) /\ TotalsSound(LogOf(t))
  BY SMTT(20) DEF LogOf, RaftTypeOK, RaftInv, TotalsSound
<1> DEFINE pre == SubSeq(LogOf(t), 1, k)
           new == Append(pre, NewEntry(pre, LastTerm + 1, NoOp))
<1>5. /\ pre \in Seq(Entry) /\ Len(pre) = k /\ TotalsSound(pre)
      /\ \A i \in 1 .. k : pre[i] = LogOf(t)[i]
  BY <1>4, PrefixSound
<1>6. LastTerm + 1 \in 1 .. MaxTerm
  BY <1>3, RaftAssumption DEF RaftTypeOK
<1> HIDE DEF pre
<1>7. /\ new \in Seq(Entry) /\ TotalsSound(new) /\ Len(new) = k + 1
      /\ \A i \in 1 .. k : new[i] = LogOf(t)[i]
  <2>1. NewEntry(pre, LastTerm + 1, NoOp) \in Entry
    BY <1>5, <1>6, NewEntryType
  <2>2. TotalsSound(new)
    BY <1>5, <1>6, AppendSound
  <2> QED
    BY <1>5, <2>1, <2>2
<1>8. termLog' = Append(termLog, new)
  BY <1>2 DEF pre
<1> HIDE DEF new
<1>9. RaftTypeOK'
  <2>1. termLog' \in Seq(Seq(Entry))
    BY <1>7, <1>8 DEF RaftTypeOK
  <2>2. leads' \in [Server -> 0 .. MaxTerm]
    <3>1. LastTerm + 1 \in 0 .. MaxTerm
      BY <1>6, RaftAssumption
    <3> QED
      BY <1>3, <3>1 DEF RaftTypeOK
  <2>3. firstPending' \in [Server -> Nat]
    <3>1. Len(LogOf(t)) \in Nat
      BY <1>4
    <3>2. k + 1 \in Nat
      BY <3>1
    <3> QED
      BY <1>2, <3>2 DEF RaftTypeOK
  <2> QED
    BY <2>1, <2>2, <2>3, <1>3 DEF RaftTypeOK
<1>10. /\ Len(termLog') = LastTerm + 1
       /\ termLog'[LastTerm + 1] = new
       /\ \A u \in 1 .. LastTerm : termLog'[u] = termLog[u]
  BY <1>7, <1>8 DEF RaftTypeOK
<1>11. \A u \in 1 .. Len(termLog') : TotalsSound(termLog'[u])
  <2> SUFFICES ASSUME NEW u \in 1 .. LastTerm + 1
               PROVE  TotalsSound(termLog'[u])
    BY <1>10
  <2>1. LastTerm \in Nat
    BY DEF RaftTypeOK
  <2>2. CASE u = LastTerm + 1
    BY <2>2, <1>7, <1>10
  <2>3. CASE u # LastTerm + 1
    <3>1. u \in 1 .. LastTerm
      BY <2>1, <2>3
    <3>2. TotalsSound(termLog[u])
      BY <3>1 DEF RaftInv
    <3> QED
      BY <3>1, <3>2, <1>10
  <2> QED
    BY <2>2, <2>3
<1>12. Len(committed) \in Nat /\ \A v \in Server : commitIndex[v] \in Nat
  BY DEF RaftTypeOK
<1>13. Agree(new, committed, Len(committed))
  BY <1>2, <1>7, <1>12 DEF Agree
<1>14. LogMatching'
  <2>1. Len(termLog') # 0
    BY <1>10 DEF RaftTypeOK
  <2>2. Agree(termLog[Len(termLog)], committed, Len(committed))'
    BY <1>3, <1>10, <1>13 DEF Agree
  <2>3. ASSUME NEW v \in Server
        PROVE  /\ leads'[v] <= Len(termLog')
               /\ commitIndex'[v] <= Len(committed')
               /\ leads'[v] # 0 =>
                    Agree(termLog'[leads'[v]], committed', commitIndex'[v])
    <3>1. commitIndex[v] <= Len(committed) /\ leads[v] <= LastTerm
      BY DEF RaftInv, LogMatching
    <3>2. CASE v = s
      <4>1. leads'[v] = LastTerm + 1
        BY <3>2, <1>3 DEF RaftTypeOK
      <4>2. Agree(new, committed, commitIndex[v])
        BY <3>1, <1>12, <1>13 DEF Agree
      <4> QED
        BY <4>1, <4>2, <3>1, <1>3, <1>10 DEF RaftTypeOK
    <3>3. CASE v # s
      <4>1. leads'[v] = leads[v]
        BY <3>3, <1>3 DEF RaftTypeOK
      <4>2. leads[v] # 0 => leads[v] \in 1 .. LastTerm
        BY <3>1 DEF RaftTypeOK
      <4>3. leads[v] # 0 => Agree(termLog[leads[v]], committed, commitIndex[v])
        BY DEF RaftInv, LogMatching
      <4>4. LastTerm \in Nat /\ leads[v] \in Nat
        BY DEF RaftTypeOK
      <4> QED
        BY <4>1, <4>2, <4>3, <4>4, <3>1, <1>3, <1>10
    <3> QED
      BY <3>2, <3>3
  <2> QED
    BY <2>1, <2>2, <2>3 DEF LogMatching, Agree
<1> QED
  BY <1>3, <1>9, <1>10, <1>11, <1>14, RaftAssumption DEF RaftInv, RaftTypeOK

\* The leader's own log grows by one entry.
LEMMA LeaderAppendStep ==
  ASSUME NEW s \in Server, NEW r \in Request,
         RaftTypeOK, RaftInv, leads[s] # 0, LeaderAppend(s, r)
  PROVE  RaftTypeOK' /\ RaftInv'
<1> USE DEF LastTerm
<1> DEFINE t == leads[s]
           new == Append(termLog[t], NewEntry(termLog[t], t, r))
<1>1. t \in 1 .. LastTerm /\ t \in 1 .. MaxTerm
  BY DEF RaftTypeOK, RaftInv, LogMatching
<1>2. termLog[t] \in Seq(Entry) /\ TotalsSound(termLog[t])
  BY <1>1 DEF RaftTypeOK, RaftInv
<1>3. /\ new \in Seq(Entry) /\ TotalsSound(new)
      /\ Len(new) = Len(termLog[t]) + 1
      /\ \A i \in 1 .. Len(termLog[t]) : new[i] = termLog[t][i]
  <2>1. NewEntry(termLog[t], t, r) \in Entry
    BY <1>1, <1>2, NewEntryType
  <2>2. TotalsSound(new)
    BY <1>1, <1>2, AppendSound
  <2> QED
    BY <1>2, <2>1, <2>2
<1>4. /\ termLog' = [termLog EXCEPT ![t] = new]
      /\ UNCHANGED <<committed, leads, commitIndex, firstPending>>
  BY DEF LeaderAppend
<1> HIDE DEF new
<1>5. RaftTypeOK'
  BY <1>1, <1>3, <1>4 DEF RaftTypeOK
<1>6. /\ Len(termLog') = Len(termLog) /\ termLog'[t] = new
      /\ \A u \in 1 .. LastTerm : u # t => termLog'[u] = termLog[u]
  BY <1>1, <1>3, <1>4 DEF RaftTypeOK
<1>7. \A u \in 1 .. LastTerm : \A k \in Nat :
        Agree(termLog[u], committed, k) => Agree(termLog'[u], committed, k)
  <2> SUFFICES ASSUME NEW k \in Nat, Agree(termLog[t], committed, k)
               PROVE  Agree(new, committed, k)
    BY <1>6
  <2> DEFINE old == termLog[t]
  <2>1. /\ Len(old) \in Nat /\ Len(new) = Len(old) + 1
        /\ \A i \in 1 .. Len(old) : new[i] = old[i]
    BY <1>2, <1>3
  <2>2. Agree(old, committed, k)
    OBVIOUS
  <2> HIDE DEF old
  <2> QED
    BY <2>1, <2>2 DEF Agree
<1>8. Len(committed) \in Nat /\ \A v \in Server : commitIndex[v] \in Nat
  BY DEF RaftTypeOK
<1>9. \A u \in 1 .. LastTerm : TotalsSound(termLog'[u])
  BY <1>3, <1>6 DEF RaftInv, RaftTypeOK
<1>10. LogMatching'
  BY <1>4, <1>6, <1>7, <1>8 DEF RaftInv, LogMatching, RaftTypeOK
<1> QED
  BY <1>5, <1>6, <1>9, <1>10 DEF RaftInv

\* The committed log only grows, along the log of the newest leader.
LEMMA LeaderCommitStep ==
  ASSUME NEW s \in Server, NEW k, RaftTypeOK, RaftInv, LeaderCommit(s, k)
  PROVE  /\ RaftTypeOK' /\ RaftInv'
         /\ k \in 1 .. Len(committed')
         /\ Len(committed) <= Len(committed')
         /\ \A i \in 1 .. Len(committed) : committed'[i] = committed[i]
<1> USE DEF LastTerm
<1> DEFINE t == leads[s]
           newest == termLog[LastTerm]
<1>1. t \in 1 .. LastTerm /\ LastTerm \in Nat
  BY DEF LeaderCommit, RaftTypeOK, RaftInv, LogMatching
<1>2. newest \in Seq(Entry) /\ termLog[t] \in Seq(Entry)
  BY <1>1 DEF RaftTypeOK
<1>3. k \in Nat /\ 1 <= k /\ k <= Len(termLog[t])
  BY <1>2 DEF LeaderCommit, RaftTypeOK
<1>4. Agree(termLog[t], newest, k)
  <2>1. CASE t = LastTerm
    BY <2>1, <1>3 DEF Agree
  <2>2. CASE t # LastTerm
    BY <2>2, <1>1 DEF LeaderCommit
  <2> QED
    BY <2>1, <2>2
<1>5. Agree(newest, committed, Len(committed))
  BY <1>1 DEF RaftInv, LogMatching
<1>6. committed \in Seq(Entry) /\ Len(committed) \in Nat
  BY DEF RaftTypeOK
<1>7. /\ committed' \in Seq(Entry)
      /\ Len(committed') = IF k <= Len(committed) THEN Len(committed) ELSE k
      /\ \A i \in 1 .. Len(committed') : committed'[i] = newest[i]
  <2>1. CASE k <= Len(committed)
    BY <2>1, <1>5, <1>6 DEF LeaderCommit, Agree
  <2>2. CASE ~(k <= Len(committed))
    <3>1. committed' = SubSeq(newest, 1, k)
      BY <2>2 DEF LeaderCommit
    <3>2. k <= Len(newest)
      BY <1>4 DEF Agree
    <3> QED
      BY <3>1, <3>2, <2>2, <1>2, <1>3
  <2> QED
    BY <2>1, <2>2
<1>8. /\ Len(committed) <= Len(committed') /\ k \in 1 .. Len(committed')
      /\ \A i \in 1 .. Len(committed) : committed'[i] = committed[i]
  BY <1>3, <1>5, <1>6, <1>7 DEF Agree
<1>9. /\ commitIndex' = [commitIndex EXCEPT ![s] = k]
      /\ UNCHANGED <<termLog, leads, firstPending>>
  BY DEF LeaderCommit
<1>10. RaftTypeOK'
  BY <1>3, <1>7, <1>9 DEF RaftTypeOK
<1>11. Agree(newest, committed', Len(committed'))
  <2>1. Len(committed') <= Len(newest)
    BY <1>4, <1>5, <1>6, <1>7 DEF Agree
  <2> QED
    BY <2>1, <1>7 DEF Agree
<1>12. ASSUME NEW v \in Server
       PROVE  /\ leads'[v] <= LastTerm
              /\ commitIndex'[v] <= Len(committed')
              /\ leads'[v] # 0 =>
                   Agree(termLog'[leads'[v]], committed', commitIndex'[v])
  <2>1. /\ leads[v] <= LastTerm /\ commitIndex[v] <= Len(committed)
        /\ commitIndex[v] \in Nat
        /\ leads[v] # 0 => Agree(termLog[leads[v]], committed, commitIndex[v])
    BY DEF RaftInv, LogMatching, RaftTypeOK
  <2>2. CASE v = s
    <3>1. commitIndex'[v] = k
      BY <2>2, <1>9 DEF RaftTypeOK
    <3>2. Agree(termLog[t], committed', k)
      BY <1>3, <1>4, <1>7, <1>8 DEF Agree
    <3> QED
      BY <3>1, <3>2, <2>1, <2>2, <1>8, <1>9
  <2>3. CASE v # s
    <3>1. commitIndex'[v] = commitIndex[v]
      BY <2>3, <1>9 DEF RaftTypeOK
    <3>2. leads[v] # 0 => Agree(termLog[leads[v]], committed', commitIndex[v])
      BY <2>1, <1>6, <1>7, <1>8 DEF Agree
    <3> QED
      BY <3>1, <3>2, <2>1, <1>6, <1>7, <1>8, <1>9
  <2> QED
    BY <2>2, <2>3
<1>13. LogMatching'
  BY <1>1, <1>9, <1>11, <1>12 DEF LogMatching
<1> QED
  BY <1>8, <1>9, <1>10, <1>13 DEF RaftInv

\* A peer that learns of a commit learns of a prefix of what is committed.
LEMMA FollowerCommitStep ==
  ASSUME NEW s \in Server, NEW k, RaftTypeOK, RaftInv, FollowerCommit(s, k)
  PROVE  RaftTypeOK' /\ RaftInv' /\ k \in 1 .. Len(committed)
<1>1. k \in Nat /\ k \in 1 .. Len(committed)
  BY DEF FollowerCommit, RaftTypeOK
<1> QED
  BY <1>1 DEF FollowerCommit, RaftTypeOK, RaftInv, LogMatching, LastTerm

\* Losing the leadership changes no log.
LEMMA StepDownStep ==
  ASSUME NEW s \in Server, RaftTypeOK, RaftInv, RaftStepDown(s)
  PROVE  RaftTypeOK' /\ RaftInv'
<1>1. LastTerm \in Nat /\ 0 \in 0 .. MaxTerm
  BY RaftAssumption DEF RaftTypeOK, LastTerm
<1> QED
  BY <1>1 DEF RaftStepDown, RaftTypeOK, RaftInv, LogMatching, LastTerm

\* A crash loses nothing the log has on disk.
LEMMA CrashStep ==
  ASSUME NEW s \in Server, NEW n \in 0 .. Len(committed),
         RaftTypeOK, RaftInv, RaftCrash(s, n)
  PROVE  RaftTypeOK' /\ RaftInv'
<1>1. LastTerm \in Nat /\ 0 \in 0 .. MaxTerm /\ n \in Nat
  BY RaftAssumption DEF RaftTypeOK, LastTerm
<1> QED
  BY <1>1 DEF RaftCrash, RaftTypeOK, RaftInv, LogMatching, LastTerm

-----------------------------------------------------------------------------
(* What the logs look like after the two actions that change them.          *)

\* A new leader takes a prefix of an earlier log that holds everything
\* committed, adds its configuration entry, and changes no other log.
LEMMA ElectShape ==
  ASSUME NEW s \in Server, RaftTypeOK, RaftInv, Elect(s)
  PROVE  /\ LastTerm \in Nat /\ LastTerm' = LastTerm + 1
         /\ leads' = [leads EXCEPT ![s] = LastTerm + 1]
         /\ \A u \in 1 .. LastTerm : termLog'[u] = termLog[u]
         /\ \E t \in 0 .. LastTerm : \E k \in 0 .. Len(LogOf(t)) :
              /\ firstPending' = [firstPending EXCEPT ![s] = k + 1]
              /\ Len(LogOf(t)) \in Nat /\ Len(termLog'[LastTerm + 1]) = k + 1
              /\ \A i \in 1 .. k : termLog'[LastTerm + 1][i] = LogOf(t)[i]
              /\ termLog'[LastTerm + 1][k + 1].req = NoOp
              /\ termLog'[LastTerm + 1][k + 1].term = LastTerm + 1
<1> USE DEF LastTerm
<1>1. PICK t \in 0 .. LastTerm : \E k \in 0 .. Len(LogOf(t)) :
        /\ termLog' = Append(termLog, Append(SubSeq(LogOf(t), 1, k),
             NewEntry(SubSeq(LogOf(t), 1, k), LastTerm + 1, NoOp)))
        /\ firstPending' = [firstPending EXCEPT ![s] = k + 1]
  BY DEF Elect
<1>2. PICK k \in 0 .. Len(LogOf(t)) :
        /\ termLog' = Append(termLog, Append(SubSeq(LogOf(t), 1, k),
             NewEntry(SubSeq(LogOf(t), 1, k), LastTerm + 1, NoOp)))
        /\ firstPending' = [firstPending EXCEPT ![s] = k + 1]
  BY <1>1
<1>3. LogOf(t) \in Seq(Entry) /\ TotalsSound(LogOf(t))
  BY SMTT(20) DEF LogOf, RaftTypeOK, RaftInv, TotalsSound
<1> DEFINE pre == SubSeq(LogOf(t), 1, k)
           e == NewEntry(pre, LastTerm + 1, NoOp)
           new == Append(pre, e)
<1>4. /\ pre \in Seq(Entry) /\ Len(pre) = k
      /\ \A i \in 1 .. k : pre[i] = LogOf(t)[i]
  BY <1>3, PrefixSound
<1>5. termLog' = Append(termLog, new)
  BY <1>2
<1>6. LastTerm + 1 \in 1 .. MaxTerm /\ LastTerm \in Nat
  BY RaftAssumption DEF Elect, RaftTypeOK
<1> HIDE DEF pre
<1>7. e \in Entry /\ e.req = NoOp /\ e.term = LastTerm + 1
  <2>1. e \in Entry
    BY <1>4, <1>6, NewEntryType
  <2> QED
    BY <2>1 DEF NewEntry
<1> HIDE DEF e
<1>8. /\ new \in Seq(Entry) /\ Len(new) = k + 1 /\ new[k + 1] = e
      /\ \A i \in 1 .. k : new[i] = LogOf(t)[i]
  BY <1>4, <1>7
<1> HIDE DEF new
<1>9. /\ Len(termLog') = LastTerm + 1 /\ termLog'[LastTerm + 1] = new
      /\ \A u \in 1 .. LastTerm : termLog'[u] = termLog[u]
  BY <1>5, <1>8 DEF RaftTypeOK
<1>10. leads' = [leads EXCEPT ![s] = LastTerm + 1] /\ Len(LogOf(t)) \in Nat
  BY <1>3 DEF Elect
<1> QED
  BY <1>2, <1>6, <1>7, <1>8, <1>9, <1>10

\* A new leader changes no earlier log, and its own holds nothing new but NoOp.
LEMMA ElectLogs ==
  ASSUME NEW s \in Server, RaftTypeOK, RaftInv, Elect(s)
  PROVE  /\ LastTerm' = LastTerm + 1
         /\ \A t \in 1 .. LastTerm : termLog'[t] = termLog[t]
         /\ \A i \in 1 .. Len(termLog'[LastTerm + 1]) :
              \/ termLog'[LastTerm + 1][i].req = NoOp
              \/ \E t \in 1 .. LastTerm :
                   /\ i \in 1 .. Len(termLog[t])
                   /\ \A j \in 1 .. Len(termLog'[LastTerm + 1]) :
                        \/ termLog'[LastTerm + 1][j].req = NoOp
                        \/ /\ j \in 1 .. Len(termLog[t])
                           /\ termLog'[LastTerm + 1][j] = termLog[t][j]
<1> DEFINE new == termLog'[LastTerm + 1]
<1>1. PICK t \in 0 .. LastTerm : \E k \in 0 .. Len(LogOf(t)) :
        /\ Len(LogOf(t)) \in Nat /\ Len(new) = k + 1 /\ new[k + 1].req = NoOp
        /\ \A i \in 1 .. k : new[i] = LogOf(t)[i]
  BY ElectShape
<1>2. PICK k \in 0 .. Len(LogOf(t)) :
        /\ Len(LogOf(t)) \in Nat /\ Len(new) = k + 1 /\ new[k + 1].req = NoOp
        /\ \A i \in 1 .. k : new[i] = LogOf(t)[i]
  BY <1>1
<1>3. LastTerm \in Nat
  BY ElectShape
<1> HIDE DEF new
<1>4. ASSUME NEW j \in 1 .. Len(new), new[j].req # NoOp
      PROVE  /\ t \in 1 .. LastTerm
             /\ j \in 1 .. Len(termLog[t]) /\ new[j] = termLog[t][j]
  <2>1. j \in 1 .. k
    BY <1>2, <1>4
  <2>2. t # 0
    BY <2>1 DEF LogOf
  <2> QED
    BY <2>1, <2>2, <1>2, <1>3 DEF LogOf
<1> QED
  BY <1>4, ElectShape DEF new

\* An append adds the request to the end of the leader's own log and nowhere else.
LEMMA AppendLogs ==
  ASSUME NEW s \in Server, NEW r \in Request,
         RaftTypeOK, RaftInv, leads[s] # 0, LeaderAppend(s, r)
  PROVE  /\ leads[s] \in 1 .. LastTerm /\ LastTerm' = LastTerm
         /\ \A u \in 1 .. LastTerm : u # leads[s] => termLog'[u] = termLog[u]
         /\ termLog[leads[s]] \in Seq(Entry)
         /\ Len(termLog'[leads[s]]) = Len(termLog[leads[s]]) + 1
         /\ \A i \in 1 .. Len(termLog[leads[s]]) : termLog'[leads[s]][i] = termLog[leads[s]][i]
         /\ termLog'[leads[s]][Len(termLog[leads[s]]) + 1].req = r
         /\ termLog'[leads[s]][Len(termLog[leads[s]]) + 1].term = leads[s]
<1> USE DEF LastTerm
<1> DEFINE t == leads[s]
           e == NewEntry(termLog[t], t, r)
           new == Append(termLog[t], e)
<1>1. t \in 1 .. LastTerm /\ t \in 1 .. MaxTerm
  BY DEF RaftTypeOK, RaftInv, LogMatching
<1>2. termLog[t] \in Seq(Entry)
  BY <1>1 DEF RaftTypeOK
<1>3. e \in Entry /\ e.req = r /\ e.term = t
  <2>1. e \in Entry
    BY <1>1, <1>2, NewEntryType
  <2> QED
    BY <2>1 DEF NewEntry
<1>4. termLog' = [termLog EXCEPT ![t] = new]
  BY DEF LeaderAppend
<1> HIDE DEF e
<1>5. /\ new \in Seq(Entry) /\ Len(new) = Len(termLog[t]) + 1
      /\ \A i \in 1 .. Len(termLog[t]) : new[i] = termLog[t][i]
      /\ new[Len(termLog[t]) + 1] = e
  BY <1>2, <1>3
<1> HIDE DEF new
<1>6. /\ Len(termLog') = Len(termLog) /\ termLog'[t] = new
      /\ \A u \in 1 .. LastTerm : u # t => termLog'[u] = termLog[u]
  BY <1>1, <1>4, <1>5 DEF RaftTypeOK
<1> QED
  BY <1>1, <1>2, <1>3, <1>5, <1>6

-----------------------------------------------------------------------------
(* The invariant's first layer.                                             *)

\* No peer is ahead of the committed log.
WithinLog ==
  \A s \in Server :
    /\ applied[s] <= batchEnd[s]
    /\ batchEnd[s] <= Len(committed)
    /\ snapshot[s].index <= Len(committed)
    /\ saving[s].index <= Len(committed)
    /\ \A i \in 1 .. Len(queue[s]) : queue[s][i].index <= Len(committed)

Bounded == TypeOK /\ RaftInv /\ WithinLog

-----------------------------------------------------------------------------
(* Helpers: what each kind of update preserves.                             *)

\* What queueing a task does to the queues of FSMCaller.
LEMMA EnqueueFact ==
  ASSUME NEW s \in Server, NEW type \in {"commit", "stop", "save", "load"},
         NEW index \in Nat, TypeOK, Enqueue(s, type, index)
  PROVE  /\ queue' \in [Server -> Seq(Task)]
         /\ \A v \in Server : v # s => queue'[v] = queue[v]
         /\ \A i \in 1 .. Len(queue'[s]) :
              \/ queue'[s][i].index = index
              \/ i \in 1 .. Len(queue[s]) /\ queue'[s][i] = queue[s][i]
<1> DEFINE task == [type |-> type, index |-> index]
<1>1. task \in Task
  BY DEF Task
<1>2. queue' = [queue EXCEPT ![s] = Append(@, task)]
  BY DEF Enqueue
<1>3. queue \in [Server -> Seq(Task)]
  BY DEF TypeOK
<1>4. queue'[s] = Append(queue[s], task)
  BY <1>2, <1>3
<1> QED
  BY <1>1, <1>2, <1>3, <1>4

\* What taking the first task does to them.
LEMMA DequeueFact ==
  ASSUME NEW s \in Server, TypeOK, queue[s] # << >>, Dequeue(s)
  PROVE  /\ queue' \in [Server -> Seq(Task)]
         /\ \A v \in Server : v # s => queue'[v] = queue[v]
         /\ Head(queue[s]) \in Task
         /\ Head(queue[s]) = queue[s][1] /\ 1 \in 1 .. Len(queue[s])
         /\ \A i \in 1 .. Len(queue'[s]) :
              i + 1 \in 1 .. Len(queue[s]) /\ queue'[s][i] = queue[s][i + 1]
<1>1. queue \in [Server -> Seq(Task)]
  BY DEF TypeOK
<1>2. queue'[s] = Tail(queue[s]) /\ queue[s] \in Seq(Task)
  BY <1>1 DEF Dequeue
<1> QED
  BY <1>1, <1>2 DEF Dequeue

\* WithinLog after a task is queued, by an action that changes nothing else
\* that WithinLog is about, and may extend the committed log.
LEMMA EnqueueWithin ==
  ASSUME NEW s \in Server, NEW type \in {"commit", "stop", "save", "load"},
         NEW index \in Nat, TypeOK, WithinLog, Enqueue(s, type, index),
         index <= Len(committed'), Len(committed) <= Len(committed'),
         committed' \in Seq(Entry),
         UNCHANGED <<applied, batchEnd, snapshot, saving>>
  PROVE  WithinLog'
<1>1. Len(committed) \in Nat /\ Len(committed') \in Nat
  BY DEF TypeOK, RaftTypeOK
<1> SUFFICES ASSUME NEW v \in Server
             PROVE  /\ applied[v] <= batchEnd[v]
                    /\ batchEnd[v] <= Len(committed')
                    /\ snapshot[v].index <= Len(committed')
                    /\ saving[v].index <= Len(committed')
                    /\ \A i \in 1 .. Len(queue'[v]) :
                         queue'[v][i].index <= Len(committed')
  BY DEF WithinLog
<1>2. /\ batchEnd[v] \in Nat
      /\ snapshot[v].index \in Nat /\ saving[v].index \in Nat
      /\ \A i \in 1 .. Len(queue[v]) : queue[v][i].index \in Nat
  <2>1. queue[v] \in Seq(Task)
    BY DEF TypeOK
  <2>2. \A i \in 1 .. Len(queue[v]) : queue[v][i] \in Task
    BY <2>1
  <2>3. snapshot[v] \in Snapshots /\ saving[v] \in Snapshots /\ batchEnd[v] \in Nat
    BY DEF TypeOK
  <2> QED
    BY <2>2, <2>3 DEF Snapshots, Task
<1>3. \A i \in 1 .. Len(queue'[v]) : queue'[v][i].index <= Len(committed')
  <2>1. CASE v = s
    BY SMTT(20), <2>1, <1>1, <1>2, EnqueueFact DEF WithinLog
  <2>2. CASE v # s
    BY <2>2, <1>1, <1>2, EnqueueFact DEF WithinLog
  <2> QED
    BY <2>1, <2>2
<1> QED
  BY <1>1, <1>2, <1>3 DEF WithinLog

\* A new group is within bounds.
LEMMA InitBounded == Init => Bounded
<1> SUFFICES ASSUME Init PROVE Bounded
  OBVIOUS
<1>1. RaftTypeOK /\ RaftInv
  BY RaftInitSound DEF Init
<1>2. 0 \in Value
  BY RaftAssumption DEF Value
<1>3. TypeOK
  BY <1>1, <1>2 DEF Init, TypeOK, Snapshots, NoSnapshot, Call, CallState, Get,
                    QueryState, NotLeader, Task
<1>4. WithinLog
  <2> SUFFICES ASSUME NEW s \in Server
               PROVE  /\ applied[s] <= batchEnd[s]
                      /\ batchEnd[s] <= Len(committed)
                      /\ snapshot[s].index <= Len(committed)
                      /\ saving[s].index <= Len(committed)
                      /\ \A i \in 1 .. Len(queue[s]) :
                           queue[s][i].index <= Len(committed)
    BY DEF WithinLog
  <2>1. committed = << >> /\ queue[s] = << >>
    BY DEF Init, RaftInit
  <2>2. /\ applied[s] = 0 /\ batchEnd[s] = 0
        /\ snapshot[s].index = 0 /\ saving[s].index = 0
    BY DEF Init, NoSnapshot
  <2> QED
    BY <2>1, <2>2
<1> QED
  BY <1>1, <1>3, <1>4 DEF Bounded

-----------------------------------------------------------------------------
(* The first layer, one lemma per action.                                   *)

\* Winning an election keeps the bounds.
LEMMA BecomeLeaderBounded ==
  ASSUME NEW s \in Server, Bounded, BecomeLeader(s)
  PROVE  Bounded'
<1>1. RaftTypeOK' /\ RaftInv'
  BY ElectStep DEF Bounded, TypeOK, BecomeLeader
<1>2. UNCHANGED <<fsmVars, diskVars, rpcVars, committed>>
  BY DEF BecomeLeader, Elect
<1> QED
  BY <1>1, <1>2 DEF Bounded, TypeOK, WithinLog, fsmVars, diskVars, rpcVars

\* Stepping down, which fails the pending closures, keeps the bounds.
LEMMA StepDownBounded ==
  ASSUME NEW s \in Server, Bounded, StepDown(s)
  PROVE  Bounded'
<1> USE DEF Bounded
<1>1. RaftTypeOK' /\ RaftInv' /\ committed' = committed
  BY StepDownStep DEF TypeOK, StepDown, RaftStepDown
<1>2. call' \in [Request -> Call]
  BY ZenonT(20) DEF StepDown, FailPending, TypeOK, Call, CallState
<1>3. Enqueue(s, "stop", 0)
  BY DEF StepDown
<1>4. UNCHANGED <<up, value, leaderTerm, applied, batchEnd, firstClosure,
                  snapshot, saving, query>>
  BY DEF StepDown, diskVars
<1>5. TypeOK'
  BY <1>1, <1>2, <1>3, <1>4, EnqueueFact DEF TypeOK
<1>6. WithinLog'
  <2>1. Len(committed) \in Nat /\ committed \in Seq(Entry)
    BY DEF TypeOK, RaftTypeOK
  <2>2. 0 <= Len(committed') /\ Len(committed) <= Len(committed')
    BY <2>1, <1>1
  <2> QED
    BY <2>1, <2>2, <1>1, <1>3, <1>4, EnqueueWithin
<1> QED
  BY <1>1, <1>5, <1>6

\* A commit keeps the bounds, and only ever adds to the committed log.
LEMMA CommitBounded ==
  ASSUME NEW s \in Server, Bounded, Commit(s)
  PROVE  /\ Bounded'
         /\ Len(committed) <= Len(committed')
         /\ \A i \in 1 .. Len(committed) : committed'[i] = committed[i]
<1> USE DEF Bounded
<1>1. PICK k \in 1 .. Len(LogOf(leads[s])) :
        /\ LeaderCommit(s, k)
        /\ Enqueue(s, "commit", k)
        /\ UNCHANGED <<up, value, leaderTerm, applied, batchEnd, firstClosure,
                       diskVars, rpcVars>>
  BY DEF Commit
<1>2. /\ RaftTypeOK' /\ RaftInv' /\ k \in 1 .. Len(committed')
      /\ Len(committed) <= Len(committed')
      /\ \A i \in 1 .. Len(committed) : committed'[i] = committed[i]
  BY <1>1, LeaderCommitStep DEF TypeOK
<1>3. committed' \in Seq(Entry) /\ k \in Nat /\ k <= Len(committed')
  BY <1>2 DEF RaftTypeOK
<1>4. TypeOK'
  BY <1>1, <1>2, <1>3, EnqueueFact DEF TypeOK, diskVars, rpcVars
<1>5. WithinLog'
  BY <1>1, <1>2, <1>3, EnqueueWithin DEF diskVars
<1> QED
  BY <1>2, <1>4, <1>5

\* A follower's commit notification keeps the bounds.
LEMMA LearnBounded ==
  ASSUME NEW s \in Server, Bounded, Learn(s)
  PROVE  Bounded'
<1> USE DEF Bounded
<1>1. PICK k \in 1 .. Len(committed) :
        /\ FollowerCommit(s, k)
        /\ Enqueue(s, "commit", k)
        /\ UNCHANGED <<up, value, leaderTerm, applied, batchEnd, firstClosure,
                       diskVars, rpcVars>>
  BY DEF Learn
<1>2. RaftTypeOK' /\ RaftInv' /\ committed' = committed
  BY <1>1, FollowerCommitStep DEF TypeOK, FollowerCommit
<1>3. committed' \in Seq(Entry) /\ k \in Nat /\ k <= Len(committed')
      /\ Len(committed) <= Len(committed')
  BY <1>2 DEF RaftTypeOK
<1>4. TypeOK'
  BY <1>1, <1>2, <1>3, EnqueueFact DEF TypeOK, diskVars, rpcVars
<1>5. WithinLog'
  BY <1>1, <1>2, <1>3, EnqueueWithin DEF diskVars
<1> QED
  BY <1>2, <1>4, <1>5

\* WithinLog after an FSM step of s that leaves the committed log alone.
LEMMA FsmWithin ==
  ASSUME NEW s \in Server, Bounded, committed' = committed,
         applied'[s] <= batchEnd'[s], batchEnd'[s] <= Len(committed),
         snapshot'[s].index <= Len(committed),
         saving'[s].index <= Len(committed),
         \A i \in 1 .. Len(queue'[s]) : queue'[s][i].index <= Len(committed),
         \A v \in Server : v # s =>
           /\ applied'[v] = applied[v] /\ batchEnd'[v] = batchEnd[v]
           /\ snapshot'[v] = snapshot[v] /\ saving'[v] = saving[v]
           /\ queue'[v] = queue[v]
  PROVE  WithinLog'
<1> SUFFICES ASSUME NEW v \in Server
             PROVE  /\ applied'[v] <= batchEnd'[v]
                    /\ batchEnd'[v] <= Len(committed)
                    /\ snapshot'[v].index <= Len(committed)
                    /\ saving'[v].index <= Len(committed)
                    /\ \A i \in 1 .. Len(queue'[v]) :
                         queue'[v][i].index <= Len(committed)
  BY DEF WithinLog
<1>1. CASE v = s
  BY <1>1
<1>2. CASE v # s
  BY <1>2 DEF Bounded, WithinLog
<1> QED
  BY <1>1, <1>2

\* RaftInv does not depend on the closure queue, nor on anything but raftVars.
LEMMA RaftKept ==
  ASSUME Bounded, UNCHANGED <<termLog, committed, leads, commitIndex>>,
         firstPending' \in [Server -> Nat]
  PROVE  RaftTypeOK' /\ RaftInv'
BY DEF Bounded, TypeOK, RaftTypeOK, RaftInv, LogMatching, LastTerm

\* What remains queued after a dequeue was within the log before.
LEMMA DequeueWithin ==
  ASSUME NEW s \in Server, Bounded, queue[s] # << >>, Dequeue(s)
  PROVE  /\ Head(queue[s]).index \in Nat
         /\ Head(queue[s]).index <= Len(committed)
         /\ \A i \in 1 .. Len(queue'[s]) : queue'[s][i].index <= Len(committed)
<1>1. TypeOK
  BY DEF Bounded
<1>2. \A i \in 1 .. Len(queue[s]) : queue[s][i].index <= Len(committed)
  BY DEF Bounded, WithinLog
<1>3. Head(queue[s]).index \in Nat
  BY <1>1, DequeueFact DEF Task
<1> QED
  BY <1>1, <1>2, <1>3, DequeueFact

\* Taking a committed task keeps the bounds.
LEMMA FsmBeginBounded ==
  ASSUME NEW s \in Server, Bounded, FsmBegin(s)
  PROVE  Bounded'
<1> USE DEF Bounded
<1> DEFINE k == Head(queue[s]).index
<1>1. queue[s] # << >> /\ applied[s] = batchEnd[s] /\ Dequeue(s)
  BY DEF FsmBegin, NextTask
<1>2. k \in Nat /\ k <= Len(committed)
  BY <1>1, DequeueWithin
<1>3. UNCHANGED <<termLog, committed, leads, commitIndex, up, value, leaderTerm,
                  applied, snapshot, saving, call, query>>
  BY DEF FsmBegin, diskVars, rpcVars
<1>4. /\ firstPending' \in [Server -> Nat]
      /\ firstClosure' \in [Server -> Nat]
      /\ batchEnd' \in [Server -> Nat]
      /\ batchEnd' = IF k <= applied[s] THEN batchEnd
                     ELSE [batchEnd EXCEPT ![s] = k]
  <2>1. k + 1 \in Nat
    BY <1>2
  <2>2. /\ firstPending \in [Server -> Nat] /\ firstClosure \in [Server -> Nat]
        /\ batchEnd \in [Server -> Nat]
    BY DEF TypeOK, RaftTypeOK
  <2> HIDE DEF Bounded
  <2> QED
    BY <1>2, <2>1, <2>2 DEF FsmBegin
<1>5. RaftTypeOK' /\ RaftInv'
  BY <1>3, <1>4, RaftKept
<1>6. TypeOK'
  BY <1>1, <1>3, <1>4, <1>5, DequeueFact DEF TypeOK
<1>7. WithinLog'
  <2>1. applied'[s] <= batchEnd'[s] /\ batchEnd'[s] <= Len(committed)
    BY <1>1, <1>2, <1>3, <1>4 DEF TypeOK, WithinLog
  <2>2. \A v \in Server : v # s => batchEnd'[v] = batchEnd[v]
    BY <1>4 DEF TypeOK
  <2>3. \A v \in Server : snapshot[v].index <= Len(committed)
                          /\ saving[v].index <= Len(committed)
    BY DEF WithinLog
  <2>4. \A v \in Server : v # s => queue'[v] = queue[v]
    BY <1>1, DequeueFact
  <2>5. \A i \in 1 .. Len(queue'[s]) : queue'[s][i].index <= Len(committed)
    BY <1>1, DequeueWithin
  <2> QED
    BY <2>1, <2>2, <2>3, <2>4, <2>5, <1>3, FsmWithin
<1> QED
  BY <1>5, <1>6, <1>7

\* What on_apply reads is in the log and well formed.
LEMMA NextEntry ==
  ASSUME NEW s \in Server, Bounded, FsmApply(s)
  PROVE  /\ applied[s] \in Nat
         /\ applied[s] + 1 \in 1 .. Len(committed)
         /\ applied[s] + 1 <= batchEnd[s]
         /\ committed[applied[s] + 1] \in Entry
<1>1. applied[s] \in Nat /\ batchEnd[s] \in Nat /\ committed \in Seq(Entry)
  BY DEF Bounded, TypeOK, RaftTypeOK
<1>2. applied[s] < batchEnd[s] /\ batchEnd[s] <= Len(committed)
  BY DEF FsmApply, Bounded, WithinLog
<1> QED
  BY <1>1, <1>2

\* One turn of on_apply keeps the bounds.
LEMMA FsmApplyBounded ==
  ASSUME NEW s \in Server, Bounded, FsmApply(s)
  PROVE  Bounded'
<1> USE DEF Bounded
<1> DEFINE i == applied[s] + 1
           e == committed[i]
<1>1. i \in Nat /\ i <= batchEnd[s] /\ e \in Entry /\ i <= Len(committed)
  BY NextEntry
<1>2. /\ applied' = [applied EXCEPT ![s] = i]
      /\ UNCHANGED <<termLog, committed, leads, commitIndex, firstPending, up,
                     batchEnd, firstClosure, queue, snapshot, saving, query>>
  BY DEF FsmApply, raftVars, diskVars
<1>3. RaftTypeOK' /\ RaftInv'
  BY <1>2, RaftKept DEF TypeOK, RaftTypeOK
<1>4. /\ value' \in [Server -> Value]
      /\ leaderTerm' \in [Server -> {NotLeader} \cup 1 .. MaxTerm]
      /\ call' \in [Request -> Call]
  <2>1. CASE ApplyAdd(s, i)
    <3>1. e.req \in Request /\ value[s] \in Int
      BY <1>1, <2>1 DEF ApplyAdd, Entry, TypeOK, Value
    <3>2. Delta[e.req] \in Int
      BY <3>1, RaftAssumption
    <3>3. Wrap(value[s] + Delta[e.req]) \in Value
      BY <3>1, <3>2, WrapInRange
    <3>4. FetchResult(value[s], Delta[e.req]) \in Value
      BY DEF FetchResult, TypeOK
    <3>5. call' \in [Request -> Call]
      <4>1. CASE HasClosure(s, i)
        <5>1. call[e.req] \in Call /\ call \in [Request -> Call]
          BY <3>1 DEF TypeOK
        <5> DEFINE v == FetchResult(value[s], Delta[e.req])
        <5>2. [call[e.req] EXCEPT !.pc = "applied", !.value = v] \in Call
          BY <5>1, <3>4 DEF Call, CallState
        <5>3. call' = [call EXCEPT ![e.req] =
                         [call[e.req] EXCEPT !.pc = "applied", !.value = v]]
          BY <2>1, <4>1, <5>1 DEF ApplyAdd
        <5> QED
          BY <5>1, <5>2, <5>3
      <4>2. CASE ~HasClosure(s, i)
        BY <2>1, <4>2 DEF ApplyAdd, TypeOK
      <4> QED
        BY <4>1, <4>2
    <3> QED
      BY <2>1, <3>3, <3>5 DEF ApplyAdd, TypeOK
  <2>2. CASE ApplyNoOp(s, i)
    <3>1. e.term \in 1 .. MaxTerm
      BY <1>1 DEF Entry
    <3> QED
      BY <2>2, <3>1 DEF ApplyNoOp, OnLeaderStart, TypeOK
  <2> QED
    BY <2>1, <2>2 DEF FsmApply
<1>5. TypeOK'
  BY <1>1, <1>2, <1>3, <1>4 DEF TypeOK
<1>6. WithinLog'
  BY <1>1, <1>2 DEF WithinLog, TypeOK
<1> QED
  BY <1>3, <1>5, <1>6

\* on_leader_stop keeps the bounds.
LEMMA FsmStopBounded ==
  ASSUME NEW s \in Server, Bounded, FsmStop(s)
  PROVE  Bounded'
<1> USE DEF Bounded
<1>1. queue[s] # << >> /\ Dequeue(s)
  BY DEF FsmStop, NextTask
<1>2. /\ leaderTerm' = [leaderTerm EXCEPT ![s] = NotLeader]
      /\ UNCHANGED <<termLog, committed, leads, commitIndex, firstPending, up,
                     value, applied, batchEnd, firstClosure, snapshot, saving,
                     call, query>>
  BY DEF FsmStop, StoppedTerm, raftVars, diskVars, rpcVars
<1>3. RaftTypeOK' /\ RaftInv'
  BY <1>2, RaftKept DEF TypeOK, RaftTypeOK
<1>4. TypeOK'
  BY <1>1, <1>2, <1>3, DequeueFact DEF TypeOK
<1>5. WithinLog'
  BY <1>1, <1>2, DequeueFact, DequeueWithin DEF WithinLog
<1> QED
  BY <1>3, <1>4, <1>5

\* Saving a snapshot keeps the bounds, from the timer to the file.
LEMMA SnapshotStepsBounded ==
  ASSUME NEW s \in Server, Bounded,
         TimerSave(s) \/ FsmSave(s) \/ SaveFinish(s)
  PROVE  Bounded'
<1> USE DEF Bounded
<1>1. UNCHANGED <<termLog, committed, leads, commitIndex, firstPending, up,
                  value, leaderTerm, applied, batchEnd, firstClosure, call, query>>
  BY DEF TimerSave, FsmSave, SaveFinish, raftVars, fsmVars, rpcVars, diskVars
<1>2. RaftTypeOK' /\ RaftInv' /\ committed \in Seq(Entry)
  BY <1>1, RaftKept DEF TypeOK, RaftTypeOK
<1>3. /\ NoSnapshot \in Snapshots /\ NoSnapshot.index = 0
      /\ [index |-> applied[s], value |-> value[s]] \in Snapshots
  BY RaftAssumption DEF NoSnapshot, Snapshots, Value, TypeOK
<1>4. \A v \in Server : /\ snapshot[v].index <= Len(committed)
                        /\ saving[v].index <= Len(committed)
                        /\ applied[v] <= batchEnd[v]
                        /\ batchEnd[v] <= Len(committed)
                        /\ applied[v] \in Nat /\ batchEnd[v] \in Nat
  BY DEF WithinLog, TypeOK
<1>5. CASE TimerSave(s)
  <2>1. Enqueue(s, "save", 0) /\ UNCHANGED <<snapshot, saving>>
    BY <1>5 DEF TimerSave, diskVars
  <2>2. TypeOK'
    BY <1>1, <1>2, <2>1, EnqueueFact DEF TypeOK
  <2>3. 0 <= Len(committed') /\ Len(committed) <= Len(committed')
        /\ committed' \in Seq(Entry)
    BY <1>1, <1>2
  <2>4. WithinLog'
    BY <1>1, <2>1, <2>3, EnqueueWithin
  <2> QED
    BY <1>2, <2>2, <2>4
<1>6. CASE FsmSave(s)
  <2>1. queue[s] # << >> /\ Dequeue(s)
    BY <1>6 DEF FsmSave, NextTask
  <2>2. /\ snapshot' = snapshot
        /\ saving' = [saving EXCEPT ![s] =
                        [index |-> applied[s], value |-> value[s]]]
    BY <1>6 DEF FsmSave
  <2>3. TypeOK'
    BY <1>1, <1>2, <1>3, <2>1, <2>2, DequeueFact DEF TypeOK
  <2>4. saving'[s].index = applied[s]
        /\ \A v \in Server : v # s => saving'[v] = saving[v]
    BY <2>2 DEF TypeOK
  <2>5. saving'[s].index <= Len(committed)
    BY <1>2, <1>4, <2>4
  <2>6. \A v \in Server : v # s => queue'[v] = queue[v]
    BY <2>1, DequeueFact
  <2>7. \A i \in 1 .. Len(queue'[s]) : queue'[s][i].index <= Len(committed)
    BY <2>1, DequeueWithin
  <2>8. WithinLog'
    BY <1>1, <1>4, <2>2, <2>4, <2>5, <2>6, <2>7, FsmWithin
  <2> QED
    BY <1>2, <2>3, <2>8
<1>7. CASE SaveFinish(s)
  <2> DEFINE done == [index |-> saving[s].index, value |-> SavedValue(s)]
  <2>1. /\ saving' = [saving EXCEPT ![s] = NoSnapshot]
        /\ snapshot' = [snapshot EXCEPT ![s] = done] \/ snapshot' = snapshot
        /\ queue' = queue
    BY <1>7 DEF SaveFinish, fsmVars
  <2>2. done \in Snapshots /\ done.index = saving[s].index
    BY DEF SavedValue, TypeOK, Snapshots
  <2> HIDE DEF done
  <2>3. TypeOK'
    BY <1>1, <1>2, <1>3, <2>1, <2>2 DEF TypeOK
  <2>4. WithinLog'
    <3>1. saving'[s].index = 0 /\ snapshot'[s].index <= Len(committed)
      BY <1>3, <1>4, <2>1, <2>2 DEF TypeOK
    <3>2. \A v \in Server : v # s => saving'[v] = saving[v]
                                     /\ snapshot'[v] = snapshot[v]
      BY <2>1 DEF TypeOK
    <3>3. saving'[s].index <= Len(committed)
      BY <3>1, <1>2
    <3>4. \A i \in 1 .. Len(queue'[s]) : queue'[s][i].index <= Len(committed)
      BY <2>1 DEF WithinLog
    <3> QED
      BY <1>1, <1>4, <2>1, <3>1, <3>2, <3>3, <3>4, FsmWithin
  <2> QED
    BY <1>2, <2>3, <2>4
<1> QED
  BY <1>5, <1>6, <1>7

\* Taking a leader's snapshot keeps the bounds.
LEMMA InstallBounded ==
  ASSUME NEW s \in Server, NEW from \in Server, Bounded, Install(s, from)
  PROVE  Bounded'
<1> USE DEF Bounded
<1> DEFINE n == snapshot[from].index
<1>1. /\ leads[s] = 0
      /\ snapshot' = [snapshot EXCEPT ![s] = snapshot[from]]
      /\ commitIndex' = [commitIndex EXCEPT ![s] = n]
      /\ Enqueue(s, "load", n)
      /\ UNCHANGED <<termLog, committed, leads, firstPending, up, value,
                     leaderTerm, applied, batchEnd, firstClosure, saving,
                     call, query>>
  BY DEF Install, rpcVars
<1>2. n \in Nat /\ n <= Len(committed) /\ snapshot[from] \in Snapshots
  BY DEF TypeOK, Snapshots, WithinLog
<1>3. RaftTypeOK'
  BY <1>1, <1>2 DEF TypeOK, RaftTypeOK
<1>4. RaftInv'
  <2>1. LastTerm' = LastTerm
    BY <1>1 DEF LastTerm
  <2>2. \A v \in Server :
          /\ commitIndex'[v] <= Len(committed)
          /\ leads[v] # 0 => commitIndex'[v] = commitIndex[v]
    BY <1>1, <1>2 DEF TypeOK, RaftTypeOK, RaftInv, LogMatching
  <2> QED
    BY <1>1, <2>1, <2>2 DEF RaftInv, LogMatching
<1>5. TypeOK'
  BY <1>1, <1>2, <1>3, EnqueueFact DEF TypeOK
<1>6. WithinLog'
  <2>1. \A v \in Server : v # s => queue'[v] = queue[v]
    BY <1>1, <1>2, EnqueueFact
  <2>2. \A i \in 1 .. Len(queue'[s]) : queue'[s][i].index <= Len(committed)
    BY <1>1, <1>2, EnqueueFact DEF WithinLog
  <2>3. snapshot'[s].index <= Len(committed)
    BY <1>1, <1>2 DEF TypeOK
  <2>4. \A v \in Server : v # s => snapshot'[v] = snapshot[v]
    BY <1>1 DEF TypeOK
  <2> QED
    BY <1>1, <2>1, <2>2, <2>3, <2>4, FsmWithin DEF WithinLog
<1> QED
  BY <1>4, <1>5, <1>6

\* on_snapshot_load keeps the bounds, whether it succeeds or not.
LEMMA FsmLoadBounded ==
  ASSUME NEW s \in Server, Bounded, FsmLoad(s) \/ FsmLoadFails(s)
  PROVE  Bounded'
<1> USE DEF Bounded
<1>1. queue[s] # << >>
      /\ UNCHANGED <<termLog, committed, leads, commitIndex, firstPending,
                     leaderTerm, firstClosure, snapshot, saving, call, query>>
  BY DEF FsmLoad, FsmLoadFails, NextTask, raftVars, diskVars, rpcVars
<1>2. RaftTypeOK' /\ RaftInv' /\ Len(committed) \in Nat
  BY SMTT(20), <1>1, RaftKept DEF TypeOK, RaftTypeOK
<1>3. snapshot[s] \in Snapshots /\ snapshot[s].index <= Len(committed)
      /\ snapshot[s].index \in Nat /\ snapshot[s].value \in Value
  BY DEF TypeOK, Snapshots, WithinLog
<1>4. CASE FsmLoad(s)
  <2>1. /\ Dequeue(s) /\ up' = up
        /\ value' = [value EXCEPT ![s] = snapshot[s].value]
        /\ applied' = [applied EXCEPT ![s] = snapshot[s].index]
        /\ batchEnd' = [batchEnd EXCEPT ![s] = snapshot[s].index]
    BY <1>4 DEF FsmLoad
  <2>2. TypeOK'
    BY <1>1, <1>2, <1>3, <2>1, DequeueFact DEF TypeOK
  <2>3. /\ applied'[s] = snapshot[s].index /\ batchEnd'[s] = snapshot[s].index
        /\ \A v \in Server : v # s => applied'[v] = applied[v]
                                      /\ batchEnd'[v] = batchEnd[v]
    BY <2>1 DEF TypeOK
  <2>4. \A v \in Server : v # s => queue'[v] = queue[v]
    BY <1>1, <2>1, DequeueFact
  <2>5. \A i \in 1 .. Len(queue'[s]) : queue'[s][i].index <= Len(committed)
    BY <1>1, <2>1, DequeueWithin
  <2>6. WithinLog'
    BY <1>1, <1>3, <2>3, <2>4, <2>5, FsmWithin DEF WithinLog
  <2> QED
    BY <1>2, <2>2, <2>6
<1>5. CASE FsmLoadFails(s)
  <2>1. /\ queue' = [queue EXCEPT ![s] = << >>]
        /\ up' = [up EXCEPT ![s] = "error"]
        /\ UNCHANGED <<value, applied, batchEnd>>
    BY <1>5 DEF FsmLoadFails
  <2>2. TypeOK'
    BY <1>1, <1>2, <2>1 DEF TypeOK
  <2>3. WithinLog'
    <3>1. \A v \in Server : queue'[v] = << >> \/ queue'[v] = queue[v]
      BY <2>1 DEF TypeOK
    <3> QED
      BY <1>1, <2>1, <3>1 DEF WithinLog
  <2> QED
    BY <1>2, <2>2, <2>3
<1> QED
  BY <1>4, <1>5

\* Steps of the RPC handlers leave the peers alone.
LEMMA WithinKept ==
  ASSUME Bounded, UNCHANGED <<committed, fsmVars, diskVars>>
  PROVE  WithinLog'
BY DEF Bounded, WithinLog, fsmVars, diskVars

\* fetch_add keeps the bounds.
LEMMA FetchAddBounded ==
  ASSUME NEW s \in Server, NEW r \in Request, Bounded, FetchAdd(r, s)
  PROVE  Bounded'
<1> USE DEF Bounded
<1>1. UNCHANGED <<termLog, committed, leads, commitIndex, firstPending,
                  fsmVars, diskVars, query>>
  BY DEF FetchAdd, raftVars
<1>2. RaftTypeOK' /\ RaftInv'
  BY <1>1, RaftKept DEF TypeOK, RaftTypeOK
<1>3. call' \in [Request -> Call]
  <2>1. call \in [Request -> Call] /\ call[r] \in Call
    BY DEF TypeOK
  <2>2. [call[r] EXCEPT !.pc = "handling", !.at = s, !.term = leaderTerm[s]]
          \in Call
    BY <2>1 DEF TypeOK, Call, CallState
  <2>3. [call[r] EXCEPT !.pc = "refused", !.at = s] \in Call
    BY <2>1 DEF Call, CallState
  <2> QED
    BY <2>1, <2>2, <2>3 DEF FetchAdd
<1>4. TypeOK'
  BY <1>1, <1>2, <1>3 DEF TypeOK, fsmVars, diskVars
<1> QED
  BY <1>1, <1>2, <1>4, WithinKept

\* One call gets another program counter.
LEMMA CallMoves ==
  ASSUME NEW r \in Request, NEW pc \in CallState, TypeOK,
         call' = [call EXCEPT ![r].pc = pc]
  PROVE  call' \in [Request -> Call]
<1>1. call \in [Request -> Call] /\ call[r] \in Call
  BY DEF TypeOK
<1>2. [call[r] EXCEPT !.pc = pc] \in Call
  BY <1>1 DEF Call
<1> QED
  BY <1>1, <1>2

\* _node->apply keeps the bounds.
LEMMA NodeApplyBounded ==
  ASSUME NEW r \in Request, Bounded, call[r].at \in Server, NodeApply(r)
  PROVE  Bounded'
<1> USE DEF Bounded
<1> DEFINE s == call[r].at
           accepted == leads[s] # 0 /\ TermMatches(call[r].term, leads[s])
<1>1. UNCHANGED <<fsmVars, diskVars, query>>
  BY DEF NodeApply
<1>2. RaftTypeOK' /\ RaftInv' /\ committed' = committed
  <2>1. CASE accepted
    <3>1. leads[s] # 0 /\ LeaderAppend(s, r)
      BY <2>1 DEF NodeApply
    <3> QED
      BY <3>1, LeaderAppendStep DEF TypeOK, LeaderAppend
  <2>2. CASE ~accepted
    <3>1. UNCHANGED <<termLog, committed, leads, commitIndex, firstPending>>
      BY <2>2 DEF NodeApply, raftVars
    <3> QED
      BY <3>1, RaftKept DEF TypeOK, RaftTypeOK
  <2> QED
    BY <2>1, <2>2
<1>3. call' \in [Request -> Call]
  <2>1. "logged" \in CallState /\ "failed" \in CallState
    BY DEF CallState
  <2>2. CASE accepted
    <3>1. call' = [call EXCEPT ![r].pc = "logged"]
      BY <2>2 DEF NodeApply
    <3> QED
      BY <2>1, <3>1, CallMoves
  <2>3. CASE ~accepted
    <3>1. call' = [call EXCEPT ![r].pc = "failed"]
      BY <2>3 DEF NodeApply
    <3> QED
      BY <2>1, <3>1, CallMoves
  <2> QED
    BY <2>2, <2>3
<1>4. TypeOK'
  BY <1>1, <1>2, <1>3 DEF TypeOK, fsmVars, diskVars
<1> QED
  BY <1>1, <1>2, <1>4, WithinKept

\* FetchAddClosure::Run keeps the bounds.
LEMMA RunBounded ==
  ASSUME NEW r \in Request, Bounded, Run(r)
  PROVE  Bounded'
<1> USE DEF Bounded
<1>1. UNCHANGED <<termLog, committed, leads, commitIndex, firstPending,
                  fsmVars, diskVars, query>>
  BY DEF Run, raftVars
<1>2. RaftTypeOK' /\ RaftInv'
  BY <1>1, RaftKept DEF TypeOK, RaftTypeOK
<1>3. call' \in [Request -> Call]
  BY CallMoves DEF Run, CallState
<1>4. TypeOK'
  BY <1>1, <1>2, <1>3 DEF TypeOK, fsmVars, diskVars
<1> QED
  BY <1>1, <1>2, <1>4, WithinKept

\* get keeps the bounds.
LEMMA GetBounded ==
  ASSUME NEW q \in Query, Bounded,
         query[q].pc = "checked" => query[q].at \in Server,
         GetEnd(q) \/ \E s \in Server : GetBegin(q, s)
  PROVE  Bounded'
<1> USE DEF Bounded
<1>1. UNCHANGED <<termLog, committed, leads, commitIndex, firstPending,
                  fsmVars, diskVars, call>>
  BY DEF GetEnd, GetBegin, raftVars
<1>2. RaftTypeOK' /\ RaftInv'
  BY <1>1, RaftKept DEF TypeOK, RaftTypeOK
<1>3. query \in [Query -> Get] /\ query[q] \in Get
  BY DEF TypeOK
<1>4. query' \in [Query -> Get]
  <2>1. CASE GetEnd(q)
    <3> DEFINE at == query[q].at
               g == [query[q] EXCEPT !.pc = "ok", !.value = value[at],
                                     !.index = applied[at]]
    <3>1. at \in Server
      BY <2>1 DEF GetEnd
    <3>2. value[at] \in Value /\ applied[at] \in Nat
      BY <3>1 DEF TypeOK
    <3>3. g \in Get
      BY <1>3, <3>2 DEF Get, QueryState
    <3>4. query' = [query EXCEPT ![q] = g]
      BY <2>1, <1>3 DEF GetEnd
    <3> QED
      BY <1>3, <3>3, <3>4
  <2>2. ASSUME NEW s \in Server, GetBegin(q, s)
        PROVE  query' \in [Query -> Get]
    <3> DEFINE pc == IF IsLeader(s) THEN "checked" ELSE "refused"
               g == [query[q] EXCEPT !.pc = pc, !.at = s,
                                     !.term = leaderTerm[s],
                                     !.seen = Acknowledged]
    <3>1. pc \in QueryState /\ Acknowledged \in SUBSET Request
      BY DEF QueryState, Acknowledged
    <3>2. leaderTerm[s] \in {NotLeader} \cup 1 .. MaxTerm
      BY DEF TypeOK
    <3> HIDE DEF pc
    <3>3. g \in Get
      BY <1>3, <3>1, <3>2 DEF Get
    <3>4. query' = [query EXCEPT ![q] = g]
      BY <2>2, <1>3 DEF GetBegin, pc
    <3> QED
      BY <1>3, <3>3, <3>4
  <2> QED
    BY <2>1, <2>2
<1>5. TypeOK'
  BY <1>1, <1>2, <1>4 DEF TypeOK, fsmVars, diskVars
<1> QED
  BY <1>1, <1>2, <1>5, WithinKept

\* A kill -9 keeps the bounds.
LEMMA CrashBounded ==
  ASSUME NEW s \in Server, Bounded, Crash(s)
  PROVE  Bounded'
<1> USE DEF Bounded
<1>1. 0 \in Value /\ NoSnapshot \in Snapshots /\ NoSnapshot.index = 0
  BY RaftAssumption DEF Value, NoSnapshot, Snapshots
<1>2. snapshot[s].index \in 0 .. Len(committed) /\ committed \in Seq(Entry)
      /\ Len(committed) \in Nat
  BY DEF TypeOK, RaftTypeOK, Snapshots, WithinLog
<1>3. RaftTypeOK' /\ RaftInv' /\ committed' = committed
  BY <1>2, CrashStep DEF Crash, TypeOK, RaftCrash
<1>4. call' \in [Request -> Call]
  <2>1. \A r \in Request : [call[r] EXCEPT !.pc = "lost"] \in Call
                            /\ call[r] \in Call
    BY DEF TypeOK, Call, CallState
  <2> QED
    BY <2>1 DEF Crash, LoseCalls
<1>5. query' \in [Query -> Get]
  <2>1. \A q \in Query : [query[q] EXCEPT !.pc = "lost"] \in Get
                          /\ query[q] \in Get
    BY DEF TypeOK, Get, QueryState
  <2> QED
    BY <2>1 DEF Crash, LoseCalls
<1>6. /\ up' = [up EXCEPT ![s] = "down"]
      /\ value' = [value EXCEPT ![s] = 0]
      /\ leaderTerm' = [leaderTerm EXCEPT ![s] = NotLeader]
      /\ applied' = [applied EXCEPT ![s] = 0]
      /\ batchEnd' = [batchEnd EXCEPT ![s] = 0]
      /\ firstClosure' = [firstClosure EXCEPT ![s] = 1]
      /\ queue' = [queue EXCEPT ![s] = << >>]
      /\ saving' = [saving EXCEPT ![s] = NoSnapshot]
      /\ snapshot' = snapshot
  BY DEF Crash
<1>7. TypeOK'
  BY <1>1, <1>3, <1>4, <1>5, <1>6 DEF TypeOK
<1>8. WithinLog'
  <2>1. /\ applied'[s] = 0 /\ batchEnd'[s] = 0 /\ queue'[s] = << >>
        /\ saving'[s] = NoSnapshot
        /\ \A v \in Server : v # s =>
             /\ applied'[v] = applied[v] /\ batchEnd'[v] = batchEnd[v]
             /\ saving'[v] = saving[v] /\ queue'[v] = queue[v]
    BY <1>6 DEF TypeOK
  <2> QED
    BY <1>1, <1>2, <1>3, <1>6, <2>1, FsmWithin DEF WithinLog
<1> QED
  BY <1>3, <1>7, <1>8

\* Counter::start on the data of an earlier run keeps the bounds.
LEMMA RestartBounded ==
  ASSUME NEW s \in Server, Bounded, Restart(s)
  PROVE  Bounded'
<1> USE DEF Bounded
<1>1. /\ up' = [up EXCEPT ![s] = "up"]
      /\ value' = [value EXCEPT ![s] = snapshot[s].value]
      /\ applied' = [applied EXCEPT ![s] = snapshot[s].index]
      /\ batchEnd' = [batchEnd EXCEPT ![s] = snapshot[s].index]
      /\ UNCHANGED <<termLog, committed, leads, commitIndex, firstPending,
                     leaderTerm, firstClosure, queue, snapshot, saving, call,
                     query>>
  BY DEF Restart, RecoveredValue, raftVars, diskVars, rpcVars
<1>2. RaftTypeOK' /\ RaftInv'
  BY <1>1, RaftKept DEF TypeOK, RaftTypeOK
<1>3. snapshot[s].index \in Nat /\ snapshot[s].value \in Value
  BY DEF TypeOK, Snapshots
<1>4. TypeOK'
  BY <1>1, <1>2, <1>3 DEF TypeOK
<1>5. WithinLog'
  <2>1. /\ applied'[s] = snapshot[s].index /\ batchEnd'[s] = snapshot[s].index
        /\ \A v \in Server : v # s => applied'[v] = applied[v]
                                      /\ batchEnd'[v] = batchEnd[v]
    BY <1>1 DEF TypeOK
  <2>2. applied'[s] <= batchEnd'[s] /\ snapshot[s].index <= Len(committed)
    BY <1>3, <2>1 DEF WithinLog
  <2> QED
    BY <1>1, <2>1, <2>2, FsmWithin DEF WithinLog
<1> QED
  BY <1>2, <1>4, <1>5

\* A handler that has more to do runs on one of the peers.
Placed ==
  /\ \A r \in Request : call[r].pc = "handling" => call[r].at \in Server
  /\ \A q \in Query : query[q].pc = "checked" => query[q].at \in Server

\* A request or query that was given to a peer stays with it.
LEMMA PlacedStep ==
  ASSUME Bounded, Placed, Next
  PROVE  Placed'
<1> USE DEF Bounded
<1>1. call \in [Request -> Call] /\ query \in [Query -> Get]
  BY DEF TypeOK
<1>2. CASE UNCHANGED rpcVars
  BY <1>2 DEF Placed, rpcVars
<1>3. ASSUME NEW s \in Server, StepDown(s)
      PROVE  Placed'
  BY <1>1, <1>3 DEF Placed, StepDown, FailPending, Call
<1>4. ASSUME NEW s \in Server, FsmApply(s)
      PROVE  Placed'
  <2> DEFINE c == committed[applied[s] + 1].req
  <2>1. query' = query
    BY <1>4 DEF FsmApply
  <2>2. \/ call' = call
        \/ call' = [call EXCEPT ![c].pc = "applied",
                                ![c].value = FetchResult(value[s], Delta[c])]
    BY <1>4 DEF FsmApply, ApplyAdd, ApplyNoOp
  <2>3. \A r \in Request : \/ call'[r] = call[r]
                            \/ call'[r].pc = "applied"
    BY <1>1, <2>2 DEF Call
  <2> QED
    BY <2>1, <2>3 DEF Placed
<1>5. ASSUME NEW s \in Server, NEW r \in Request, FetchAdd(r, s)
      PROVE  Placed'
  BY <1>1, <1>5 DEF Placed, FetchAdd, Call
<1>6. ASSUME NEW r \in Request, NodeApply(r) \/ Run(r)
      PROVE  Placed'
  <2>1. query' = query
    BY <1>6 DEF NodeApply, Run
  <2>2. PICK pc \in {"logged", "failed", "ok", "redirected"} :
          call' = [call EXCEPT ![r].pc = pc]
    BY <1>6 DEF NodeApply, Run
  <2>3. \A x \in Request : call'[x] = call[x] \/ call'[x].pc = pc
    BY <1>1, <2>2 DEF Call
  <2> QED
    BY <2>1, <2>2, <2>3 DEF Placed
<1>7. ASSUME NEW q \in Query, NEW s \in Server, GetBegin(q, s)
      PROVE  Placed'
  BY <1>1, <1>7 DEF Placed, GetBegin, Get
<1>8. ASSUME NEW q \in Query, GetEnd(q)
      PROVE  Placed'
  BY <1>1, <1>8 DEF Placed, GetEnd, Get
<1>9. ASSUME NEW s \in Server, Crash(s)
      PROVE  Placed'
  BY <1>1, <1>9 DEF Placed, Crash, LoseCalls, Call, Get
<1> QED
  BY <1>2, <1>3, <1>4, <1>5, <1>6, <1>7, <1>8, <1>9
  DEF Next, BecomeLeader, Commit, Learn, FsmBegin, FsmStop, TimerSave, FsmSave,
      SaveFinish, Install, FsmLoad, FsmLoadFails, Restart, rpcVars

BoundedInv == Bounded /\ Placed

\* The first layer holds at the start.
LEMMA BoundedInit == Init => BoundedInv
  BY InitBounded DEF BoundedInv, Placed, Init

\* Every step keeps the first layer.
LEMMA BoundedStep == BoundedInv /\ [Next]_vars => BoundedInv'
<1> SUFFICES ASSUME BoundedInv, [Next]_vars
             PROVE  BoundedInv'
  OBVIOUS
<1>1. Bounded /\ Placed
  BY DEF BoundedInv
<1>2. CASE UNCHANGED vars
  <2>1. UNCHANGED <<raftVars, fsmVars, diskVars, rpcVars>>
    BY <1>2 DEF vars
  <2>2. RaftTypeOK' /\ RaftInv'
    BY <1>1, <2>1, RaftKept DEF raftVars, Bounded, TypeOK, RaftTypeOK
  <2>3. TypeOK'
    BY <1>1, <2>1, <2>2 DEF Bounded, TypeOK, fsmVars, diskVars, rpcVars
  <2>4. WithinLog'
    BY <1>1, <2>1, WithinKept DEF raftVars
  <2> QED
    BY <1>1, <2>1, <2>2, <2>3, <2>4 DEF BoundedInv, Bounded, Placed, rpcVars
<1>3. CASE Next
  <2>1. Placed'
    BY <1>1, <1>3, PlacedStep
  <2>2. Bounded'
    <3>1. ASSUME NEW r \in Request, NodeApply(r)
          PROVE  Bounded'
      <4>1. call[r].at \in Server
        BY <1>1, <3>1 DEF Placed, NodeApply
      <4> QED
        BY <1>1, <3>1, <4>1, NodeApplyBounded
    <3>2. ASSUME NEW q \in Query, GetEnd(q) \/ \E s \in Server : GetBegin(q, s)
          PROVE  Bounded'
      BY <1>1, <3>2, GetBounded DEF Placed
    <3> QED
      BY <1>1, <1>3, <3>1, <3>2, BecomeLeaderBounded, StepDownBounded,
         CommitBounded, LearnBounded, FsmBeginBounded, FsmApplyBounded,
         FsmStopBounded, SnapshotStepsBounded, InstallBounded, FsmLoadBounded,
         CrashBounded, RestartBounded, FetchAddBounded, RunBounded
      DEF Next
  <2> QED
    BY <2>1, <2>2 DEF BoundedInv
<1> QED
  BY <1>2, <1>3

\* Every variable keeps its type, in particular _value its width, whatever the
\* peers, requests and elections (all of server.cpp's handlers and callbacks).
THEOREM TypeCorrect == Spec => []TypeOK
<1>1. Spec => []BoundedInv
  BY BoundedInit, BoundedStep, PTL DEF Spec
<1>2. BoundedInv => TypeOK
  BY DEF BoundedInv, Bounded
<1> QED
  BY <1>1, <1>2, PTL

-----------------------------------------------------------------------------
(* The second layer: the values peers hold and save.                        *)

Valued == StateMatchesLog /\ SnapshotMatchesLog

\* The committed log is a prefix of a sound log, hence sound.
LEMMA CommittedSound ==
  ASSUME Bounded
  PROVE  TotalsSound(committed)
<1> USE DEF Bounded, LastTerm
<1>1. committed \in Seq(Entry) /\ LastTerm \in Nat
  BY DEF TypeOK, RaftTypeOK
<1>2. CASE LastTerm = 0
  BY <1>2 DEF RaftInv, LogMatching, TotalsSound
<1>3. CASE LastTerm # 0
  <2> DEFINE newest == termLog[LastTerm]
  <2>1. TotalsSound(newest) /\ Agree(newest, committed, Len(committed))
    BY <1>1, <1>3 DEF RaftInv, LogMatching
  <2>2. newest \in Seq(Entry)
    BY <1>1, <1>3 DEF TypeOK, RaftTypeOK
  <2> HIDE DEF newest
  <2> SUFFICES ASSUME NEW i \in 1 .. Len(committed)
               PROVE  committed[i].total =
                        IF committed[i].req = NoOp
                        THEN TotalAt(committed, i - 1)
                        ELSE Wrap(TotalAt(committed, i - 1)
                                  + Delta[committed[i].req])
    BY DEF TotalsSound
  <2>3. i \in 1 .. Len(newest) /\ newest[i] = committed[i]
    BY <2>1, <2>2, <1>1 DEF Agree
  <2>4. TotalAt(newest, i - 1) = TotalAt(committed, i - 1)
    <3>1. CASE i = 1
      BY <3>1 DEF TotalAt
    <3>2. CASE i # 1
      <4>1. i - 1 \in 1 .. Len(committed)
        BY <3>2, <1>1
      <4>2. newest[i - 1] = committed[i - 1]
        BY <4>1, <2>1 DEF Agree
      <4> QED
        BY <3>2, <4>2 DEF TotalAt
    <3> QED
      BY <3>1, <3>2
  <2> QED
    BY <2>1, <2>3, <2>4 DEF TotalsSound
<1> QED
  BY <1>2, <1>3

\* Values of the log do not change when it grows.
LEMMA ValueAtStable ==
  ASSUME Bounded, Len(committed) <= Len(committed'),
         \A i \in 1 .. Len(committed) : committed'[i] = committed[i],
         NEW n \in Nat, n <= Len(committed)
  PROVE  ValueAt(n)' = ValueAt(n)
BY DEF ValueAt, TotalAt, Bounded, TypeOK, RaftTypeOK

\* Steps that move no state machine and write no snapshot.
LEMMA ValuedKept ==
  ASSUME Valued, UNCHANGED <<committed, value, applied, snapshot, saving>>
  PROVE  Valued'
BY DEF Valued, StateMatchesLog, SnapshotMatchesLog, ValueAt

\* A commit changes no value that was ever computed.
LEMMA ValuedCommit ==
  ASSUME NEW s \in Server, Bounded, Valued, Commit(s)
  PROVE  Valued'
<1>1. UNCHANGED <<value, applied, snapshot, saving>>
  BY DEF Commit, diskVars
<1>2. Len(committed) <= Len(committed')
      /\ \A i \in 1 .. Len(committed) : committed'[i] = committed[i]
  BY CommitBounded
<1>3. /\ committed \in Seq(Entry) /\ Len(committed) \in Nat
      /\ Len(committed') \in Nat
  BY CommitBounded DEF Bounded, TypeOK, RaftTypeOK
<1>4. \A v \in Server :
        /\ applied[v] \in Nat /\ applied[v] <= Len(committed)
        /\ snapshot[v].index \in Nat /\ snapshot[v].index <= Len(committed)
        /\ saving[v].index \in Nat /\ saving[v].index <= Len(committed)
  BY <1>3 DEF Bounded, TypeOK, WithinLog, Snapshots
<1>5. StateMatchesLog'
  BY <1>1, <1>2, <1>4, ValueAtStable DEF Valued, StateMatchesLog
<1>6. ASSUME NEW v \in Server, NEW x \in {snapshot[v], saving[v]}
      PROVE  x.index <= Len(committed') /\ x.value = ValueAt(x.index)'
  <2>1. x.index \in Nat /\ x.index <= Len(committed)
    BY <1>4
  <2>2. x.value = ValueAt(x.index)
    BY DEF Valued, SnapshotMatchesLog
  <2>3. ValueAt(x.index)' = ValueAt(x.index)
    BY <1>2, <2>1, ValueAtStable
  <2> QED
    BY <1>2, <1>3, <2>1, <2>2, <2>3
<1> QED
  BY <1>1, <1>5, <1>6 DEF Valued, SnapshotMatchesLog

\* on_apply adds what the next committed entry adds.
LEMMA ValuedApply ==
  ASSUME NEW s \in Server, Bounded, Valued, FsmApply(s)
  PROVE  Valued'
<1> DEFINE i == applied[s] + 1
           e == committed[i]
<1>1. /\ applied[s] \in Nat /\ i \in 1 .. Len(committed) /\ e \in Entry
  BY NextEntry
<1>2. /\ applied' = [applied EXCEPT ![s] = i]
      /\ UNCHANGED <<committed, snapshot, saving>>
  BY DEF FsmApply, raftVars, diskVars
<1>3. /\ e.total = IF e.req = NoOp THEN ValueAt(i - 1)
                   ELSE Wrap(ValueAt(i - 1) + Delta[e.req])
      /\ ValueAt(i) = e.total
  <2>1. e.total = IF e.req = NoOp THEN TotalAt(committed, i - 1)
                  ELSE Wrap(TotalAt(committed, i - 1) + Delta[e.req])
    BY <1>1, CommittedSound DEF TotalsSound
  <2>2. i # 0
    BY <1>1
  <2> QED
    BY <2>1, <2>2 DEF ValueAt, TotalAt
<1>4. value[s] = ValueAt(i - 1)
  BY <1>1 DEF Valued, StateMatchesLog
<1>5. value' = [value EXCEPT ![s] = ValueAt(i)]
  <2>1. value \in [Server -> Value]
    BY DEF Bounded, TypeOK
  <2> QED
    BY <1>3, <1>4, <2>1 DEF FsmApply, ApplyAdd, ApplyNoOp
<1>6. StateMatchesLog'
  BY <1>2, <1>5 DEF Valued, StateMatchesLog, ValueAt, Bounded, TypeOK
<1> QED
  BY <1>2, <1>6 DEF Valued, SnapshotMatchesLog, ValueAt

\* A snapshot has the value of its index when it is captured and when it is written.
LEMMA ValuedSave ==
  ASSUME NEW s \in Server, Bounded, Valued, FsmSave(s) \/ SaveFinish(s)
  PROVE  Valued'
<1>1. UNCHANGED <<committed, value, applied>>
  BY DEF FsmSave, SaveFinish, raftVars, fsmVars
<1>2. /\ applied[s] <= Len(committed) /\ applied[s] \in Nat
      /\ Len(committed) \in Nat
  BY DEF Bounded, TypeOK, RaftTypeOK, WithinLog
<1>3. /\ snapshot \in [Server -> Snapshots] /\ saving \in [Server -> Snapshots]
  BY DEF Bounded, TypeOK
<1> DEFINE Good(x) == x.index <= Len(committed) /\ x.value = ValueAt(x.index)
<1>4. \A v \in Server : Good(snapshot[v]) /\ Good(saving[v])
  BY DEF Valued, SnapshotMatchesLog
<1>5. Good(NoSnapshot) /\ Good([index |-> applied[s], value |-> value[s]])
  BY <1>2 DEF NoSnapshot, ValueAt, TotalAt, Valued, StateMatchesLog
<1>6. Good([index |-> saving[s].index, value |-> SavedValue(s)])
  BY <1>4 DEF SavedValue
<1> HIDE DEF Good
<1>7. \A v \in Server : Good(snapshot'[v]) /\ Good(saving'[v])
  BY <1>3, <1>4, <1>5, <1>6 DEF FsmSave, SaveFinish
<1>8. StateMatchesLog'
  BY <1>1 DEF Valued, StateMatchesLog, ValueAt
<1> QED
  BY <1>1, <1>7, <1>8 DEF Good, Valued, SnapshotMatchesLog, ValueAt

\* An installed snapshot is as good as the one it comes from.
LEMMA ValuedInstall ==
  ASSUME NEW s \in Server, NEW from \in Server, Bounded, Valued, Install(s, from)
  PROVE  Valued'
<1>1. /\ UNCHANGED <<committed, value, applied, saving>>
      /\ snapshot' = [snapshot EXCEPT ![s] = snapshot[from]]
  BY DEF Install
<1>2. \A v \in Server : snapshot'[v] = snapshot[v] \/ snapshot'[v] = snapshot[from]
  BY <1>1 DEF Bounded, TypeOK
<1> QED
  BY <1>1, <1>2 DEF Valued, StateMatchesLog, SnapshotMatchesLog, ValueAt

\* A state machine takes the snapshot's value, or that of its constructor.
LEMMA ValuedReload ==
  ASSUME NEW s \in Server, Bounded, Valued,
         FsmLoad(s) \/ Crash(s) \/ Restart(s)
  PROVE  Valued'
<1>1. committed' = committed /\ snapshot' = snapshot
  BY DEF FsmLoad, Crash, RaftCrash, Restart, raftVars, diskVars
<1>2. \/ /\ value' = [value EXCEPT ![s] = snapshot[s].value]
         /\ applied' = [applied EXCEPT ![s] = snapshot[s].index]
         /\ saving' = saving
      \/ /\ value' = [value EXCEPT ![s] = 0]
         /\ applied' = [applied EXCEPT ![s] = 0]
         /\ saving' = [saving EXCEPT ![s] = NoSnapshot]
  BY DEF FsmLoad, Crash, Restart, RecoveredValue, diskVars
<1>3. /\ value \in [Server -> Value] /\ applied \in [Server -> Nat]
      /\ saving \in [Server -> Snapshots] /\ Len(committed) \in Nat
  BY DEF Bounded, TypeOK, RaftTypeOK
<1>4. ValueAt(0) = 0 /\ snapshot[s].value = ValueAt(snapshot[s].index)
  BY DEF Valued, SnapshotMatchesLog, ValueAt, TotalAt
<1>5. \A v \in Server : value'[v] = ValueAt(applied'[v])
  BY <1>2, <1>3, <1>4 DEF Valued, StateMatchesLog
<1>6. \A v \in Server : saving'[v] = saving[v] \/ saving'[v] = NoSnapshot
  BY <1>2, <1>3
<1>7. NoSnapshot.index <= Len(committed)
      /\ NoSnapshot.value = ValueAt(NoSnapshot.index)
  BY <1>3, <1>4 DEF NoSnapshot
<1>8. \A v \in Server : \A x \in {snapshot[v], saving'[v]} :
        x.index <= Len(committed) /\ x.value = ValueAt(x.index)
  BY <1>6, <1>7 DEF Valued, SnapshotMatchesLog
<1> QED
  BY <1>1, <1>5, <1>8 DEF Valued, StateMatchesLog, SnapshotMatchesLog, ValueAt

\* Every step keeps the second layer.
LEMMA ValuedStep == BoundedInv /\ Valued /\ [Next]_vars => Valued'
<1> SUFFICES ASSUME Bounded, Valued, [Next]_vars
             PROVE  Valued'
  BY DEF BoundedInv
<1>1. CASE UNCHANGED vars
  BY <1>1, ValuedKept DEF vars, raftVars, fsmVars, diskVars
<1>2. ASSUME NEW s \in Server,
             BecomeLeader(s) \/ StepDown(s) \/ Learn(s) \/ FsmBegin(s)
             \/ FsmStop(s) \/ TimerSave(s) \/ FsmLoadFails(s)
      PROVE  Valued'
  BY <1>2, ValuedKept
  DEF BecomeLeader, Elect, StepDown, RaftStepDown, Learn, FollowerCommit,
      FsmBegin, FsmStop, TimerSave, FsmLoadFails, raftVars, fsmVars, diskVars
<1>3. ASSUME NEW r \in Request,
             NodeApply(r) \/ Run(r) \/ \E s \in Server : FetchAdd(r, s)
      PROVE  Valued'
  BY <1>3, ValuedKept
  DEF NodeApply, LeaderAppend, Run, FetchAdd, raftVars, fsmVars, diskVars
<1>4. ASSUME NEW q \in Query, GetEnd(q) \/ \E s \in Server : GetBegin(q, s)
      PROVE  Valued'
  BY <1>4, ValuedKept DEF GetEnd, GetBegin, raftVars, fsmVars, diskVars
<1> QED
  BY <1>1, <1>2, <1>3, <1>4, ValuedCommit, ValuedApply, ValuedSave,
     ValuedInstall, ValuedReload
  DEF Next

\* The second layer holds at the start.
LEMMA ValuedInit == Init => Valued
<1> SUFFICES ASSUME Init PROVE Valued
  OBVIOUS
<1>1. Len(committed) = 0
  BY DEF Init, RaftInit
<1> QED
  BY <1>1 DEF Init, Valued, StateMatchesLog, SnapshotMatchesLog, NoSnapshot,
              ValueAt, TotalAt

\* The first two layers are invariants of the specification.
LEMMA ValuedAlways == Spec => [](BoundedInv /\ Valued)
  BY BoundedInit, BoundedStep, ValuedInit, ValuedStep, PTL DEF Spec

\* Every peer's _value is that of the committed log at the entry it has
\* applied: replicas that applied as much agree, whatever batches, snapshots,
\* kills and overflows lie behind them.
THEOREM ReplicasAgree == Spec => []StateMatchesLog
  BY ValuedAlways, PTL DEF Valued

\* A snapshot never pairs the value of one index with the number of another,
\* although save_snapshot writes it while on_apply goes on.
THEOREM SnapshotsSound == Spec => []SnapshotMatchesLog
  BY ValuedAlways, PTL DEF Valued

-----------------------------------------------------------------------------
(* The third layer: what callers are told.                                  *)

\* A request that has not reached Node::apply.
EarlyStates == {"idle", "handling", "refused"}

\* A request is in a log at most once, once its handler is done with it, and
\* under the term its handler saw.
LoggedOnce ==
  \A t \in 1 .. LastTerm : \A i \in 1 .. Len(termLog[t]) :
    termLog[t][i].req # NoOp =>
      /\ call[termLog[t][i].req].pc \notin EarlyStates
      /\ CheckTerm => termLog[t][i].term = call[termLog[t][i].req].term
      /\ \A j \in 1 .. Len(termLog[t]) :
           termLog[t][j].req = termLog[t][i].req => j = i

\* An applied request found the value that its caller is told.
AnswersSound ==
  \A r \in Request : call[r].pc \in {"applied", "ok"} =>
    \E i \in 1 .. Len(committed) :
      committed[i].req = r /\ call[r].value = ValueAt(i - 1)

AnswersRight == LoggedOnce /\ AnswersSound

\* No call goes back to an early state, and its term is set only there.
CallsAdvance ==
  \A r \in Request : call[r].pc \notin EarlyStates =>
    call'[r].pc \notin EarlyStates /\ call'[r].term = call[r].term

\* No call becomes applied, and the answer of an applied one stays.
NothingApplied ==
  \A r \in Request : call'[r].pc \in {"applied", "ok"} =>
    call[r].pc \in {"applied", "ok"} /\ call'[r].value = call[r].value

\* What is not NoOp in a log is a request.
LEMMA LogRequest ==
  ASSUME Bounded, NEW t \in 1 .. LastTerm, NEW i \in 1 .. Len(termLog[t]),
         termLog[t][i].req # NoOp
  PROVE  termLog[t][i].req \in Request
<1>1. termLog[t] \in Seq(Entry)
  BY DEF Bounded, TypeOK, RaftTypeOK, LastTerm
<1>2. termLog[t][i] \in Entry
  BY <1>1
<1> QED
  BY <1>2 DEF Entry

\* Logs that do not change keep their requests unique while calls only advance.
LEMMA LoggedOnceKept ==
  ASSUME Bounded, LoggedOnce, termLog' = termLog, CallsAdvance
  PROVE  LoggedOnce'
<1> SUFFICES ASSUME NEW t \in 1 .. LastTerm, NEW i \in 1 .. Len(termLog[t]),
                    termLog[t][i].req # NoOp
             PROVE  /\ call'[termLog[t][i].req].pc \notin EarlyStates
                    /\ CheckTerm =>
                         termLog[t][i].term = call'[termLog[t][i].req].term
                    /\ \A j \in 1 .. Len(termLog[t]) :
                         termLog[t][j].req = termLog[t][i].req => j = i
  BY DEF LoggedOnce, LastTerm
<1>1. termLog[t][i].req \in Request
  BY LogRequest
<1> QED
  BY <1>1 DEF LoggedOnce, CallsAdvance

\* Answers stay right while nothing is applied and the committed log only grows.
LEMMA AnswersSoundKept ==
  ASSUME Bounded, AnswersSound, NothingApplied,
         Len(committed) <= Len(committed'), Len(committed') \in Nat,
         \A i \in 1 .. Len(committed) : committed'[i] = committed[i]
  PROVE  AnswersSound'
<1> SUFFICES ASSUME NEW r \in Request, call'[r].pc \in {"applied", "ok"}
             PROVE  \E i \in 1 .. Len(committed') :
                      committed'[i].req = r /\ call'[r].value = ValueAt(i - 1)'
  BY DEF AnswersSound
<1>1. call[r].pc \in {"applied", "ok"} /\ call'[r].value = call[r].value
  BY DEF NothingApplied
<1>2. PICK i \in 1 .. Len(committed) :
        committed[i].req = r /\ call[r].value = ValueAt(i - 1)
  BY <1>1 DEF AnswersSound
<1>3. Len(committed) \in Nat
  BY DEF Bounded, TypeOK, RaftTypeOK
<1>4. i - 1 \in Nat /\ i - 1 <= Len(committed)
      /\ i \in 1 .. Len(committed')
  BY <1>3
<1>5. ValueAt(i - 1)' = ValueAt(i - 1)
  BY <1>4, ValueAtStable
<1> QED
  BY <1>1, <1>2, <1>4, <1>5

\* The steps that touch neither the logs nor a call's answer.
LEMMA AnswersKept ==
  ASSUME Bounded, AnswersRight, CallsAdvance, NothingApplied,
         UNCHANGED <<termLog, committed>>
  PROVE  AnswersRight'
<1>1. Len(committed) <= Len(committed') /\ Len(committed') \in Nat
  BY DEF Bounded, TypeOK, RaftTypeOK
<1> QED
  BY <1>1, LoggedOnceKept, AnswersSoundKept DEF AnswersRight

\* A step that leaves the calls alone advances and applies none.
LEMMA CallsKept ==
  ASSUME call' = call
  PROVE  CallsAdvance /\ NothingApplied
BY DEF CallsAdvance, NothingApplied

\* An election keeps the third layer.
LEMMA ElectAnswers ==
  ASSUME NEW s \in Server, Bounded, AnswersRight, BecomeLeader(s)
  PROVE  AnswersRight'
<1> USE DEF AnswersRight
<1>1. Elect(s) /\ call' = call /\ committed' = committed
  BY DEF BecomeLeader, Elect, rpcVars
<1>2. AnswersSound'
  BY <1>1 DEF AnswersSound, ValueAt
<1> DEFINE new == termLog'[LastTerm + 1]
<1>3. /\ LastTerm' = LastTerm + 1
      /\ \A t \in 1 .. LastTerm : termLog'[t] = termLog[t]
      /\ \A i \in 1 .. Len(new) :
           \/ new[i].req = NoOp
           \/ \E t \in 1 .. LastTerm :
                /\ i \in 1 .. Len(termLog[t])
                /\ \A j \in 1 .. Len(new) :
                     \/ new[j].req = NoOp
                     \/ j \in 1 .. Len(termLog[t]) /\ new[j] = termLog[t][j]
  BY <1>1, ElectLogs DEF Bounded, TypeOK
<1>4. LastTerm \in Nat
  BY DEF Bounded, TypeOK, RaftTypeOK, LastTerm
<1> HIDE DEF new
<1>5. ASSUME NEW i \in 1 .. Len(new), new[i].req # NoOp
      PROVE  /\ call[new[i].req].pc \notin EarlyStates
             /\ CheckTerm => new[i].term = call[new[i].req].term
             /\ \A j \in 1 .. Len(new) : new[j].req = new[i].req => j = i
  <2>1. PICK t \in 1 .. LastTerm :
          \A j \in 1 .. Len(new) :
            \/ new[j].req = NoOp
            \/ j \in 1 .. Len(termLog[t]) /\ new[j] = termLog[t][j]
    BY <1>3, <1>5
  <2>2. i \in 1 .. Len(termLog[t]) /\ new[i] = termLog[t][i]
    BY <1>5, <2>1
  <2>3. \A j \in 1 .. Len(new) : new[j].req = new[i].req =>
          j \in 1 .. Len(termLog[t]) /\ new[j] = termLog[t][j]
    BY <1>5, <2>1
  <2> QED
    BY SMTT(20), <1>5, <2>2, <2>3 DEF LoggedOnce
<1>6. ASSUME NEW t \in 1 .. LastTerm', NEW i \in 1 .. Len(termLog'[t]),
             termLog'[t][i].req # NoOp
      PROVE  /\ call'[termLog'[t][i].req].pc \notin EarlyStates
             /\ CheckTerm => termLog'[t][i].term = call'[termLog'[t][i].req].term
             /\ \A j \in 1 .. Len(termLog'[t]) :
                  termLog'[t][j].req = termLog'[t][i].req => j = i
  <2>1. CASE t = LastTerm + 1
    BY <1>1, <1>5, <1>6, <2>1 DEF new
  <2>2. CASE t # LastTerm + 1
    <3>1. t \in 1 .. LastTerm
      BY <1>3, <1>4, <2>2
    <3>2. termLog'[t] = termLog[t]
      BY <1>3, <3>1
    <3> QED
      BY <1>1, <1>6, <3>1, <3>2 DEF LoggedOnce
  <2> QED
    BY <2>1, <2>2
<1> QED
  BY <1>2, <1>6 DEF LoggedOnce

\* A commit keeps the third layer.
LEMMA CommitAnswers ==
  ASSUME NEW s \in Server, Bounded, AnswersRight, Commit(s)
  PROVE  AnswersRight'
<1>1. call' = call /\ termLog' = termLog
  BY DEF Commit, LeaderCommit, rpcVars
<1>2. /\ Len(committed) <= Len(committed') /\ Len(committed') \in Nat
      /\ \A i \in 1 .. Len(committed) : committed'[i] = committed[i]
  <2>1. committed' \in Seq(Entry)
    BY CommitBounded DEF Bounded, TypeOK, RaftTypeOK
  <2> QED
    BY <2>1, CommitBounded
<1> QED
  BY <1>1, <1>2, CallsKept, LoggedOnceKept, AnswersSoundKept DEF AnswersRight

\* on_apply tells a caller the value its addition found.
LEMMA ApplyAnswers ==
  ASSUME NEW s \in Server, Bounded, Valued, AnswersRight, FsmApply(s)
  PROVE  AnswersRight'
<1> DEFINE i == applied[s] + 1
           c == committed[i].req
<1>1. i \in 1 .. Len(committed) /\ applied[s] \in Nat /\ i - 1 = applied[s]
  BY NextEntry
<1>2. UNCHANGED <<termLog, committed>>
  BY DEF FsmApply, raftVars
<1>3. call \in [Request -> Call]
  BY DEF Bounded, TypeOK
<1>4. \/ call' = call
      \/ call' = [call EXCEPT ![c].pc = "applied", ![c].value = value[s]]
  BY DEF FsmApply, ApplyAdd, ApplyNoOp, FetchResult
<1>5. \A r \in Request :
        \/ call'[r] = call[r]
        \/ /\ r = c /\ call'[r].pc = "applied" /\ call'[r].term = call[r].term
           /\ call'[r].value = value[s]
  BY <1>3, <1>4 DEF Call
<1>6. LoggedOnce'
  BY <1>2, <1>5, LoggedOnceKept
  DEF AnswersRight, CallsAdvance, EarlyStates
<1>7. value[s] = ValueAt(i - 1)
  BY <1>1 DEF Valued, StateMatchesLog
<1>8. AnswersSound'
  <2> SUFFICES ASSUME NEW r \in Request, call'[r].pc \in {"applied", "ok"}
               PROVE  \E j \in 1 .. Len(committed) :
                        committed[j].req = r /\ call'[r].value = ValueAt(j - 1)
    BY <1>2 DEF AnswersSound, ValueAt
  <2>1. CASE call'[r] = call[r]
    BY <2>1 DEF AnswersRight, AnswersSound
  <2>2. CASE call'[r] # call[r]
    BY <2>2, <1>1, <1>5, <1>7
  <2> QED
    BY <2>1, <2>2
<1> QED
  BY <1>6, <1>8 DEF AnswersRight

\* The leader's log takes a request that was in no log, under the term its
\* handler saw.
LEMMA NodeApplyAnswers ==
  ASSUME NEW r \in Request, Bounded, call[r].at \in Server, AnswersRight,
         NodeApply(r)
  PROVE  AnswersRight'
<1> DEFINE s == call[r].at
           t == leads[s]
           accepted == leads[s] # 0 /\ TermMatches(call[r].term, leads[s])
<1>1. call \in [Request -> Call] /\ call[r].pc = "handling"
  BY DEF Bounded, TypeOK, NodeApply
<1>2. /\ call'[r].pc \in {"logged", "failed"} /\ call'[r].term = call[r].term
      /\ \A x \in Request : x # r => call'[x] = call[x]
  BY <1>1 DEF NodeApply, Call
<1>3. CallsAdvance /\ NothingApplied
  BY <1>1, <1>2 DEF CallsAdvance, NothingApplied, EarlyStates
<1>4. CASE ~accepted
  <2>1. UNCHANGED <<termLog, committed>>
    BY <1>4 DEF NodeApply, raftVars
  <2> QED
    BY <1>3, <2>1, AnswersKept
<1>5. CASE accepted
  <2>1. LeaderAppend(s, r) /\ t # 0 /\ committed' = committed
    BY <1>5 DEF NodeApply, LeaderAppend
  <2>2. CheckTerm => call[r].term = t
    BY <1>5 DEF TermMatches
  <2> DEFINE log == termLog[t]
             new == termLog'[t]
             n == Len(log) + 1
  <2>3. /\ t \in 1 .. LastTerm /\ LastTerm' = LastTerm
        /\ \A u \in 1 .. LastTerm : u # t => termLog'[u] = termLog[u]
        /\ log \in Seq(Entry) /\ Len(new) = n
        /\ \A i \in 1 .. Len(log) : new[i] = log[i]
        /\ new[n].req = r /\ new[n].term = t
    BY SMTT(40), <2>1, AppendLogs DEF Bounded, TypeOK
  <2>4. \A u \in 1 .. LastTerm : \A i \in 1 .. Len(termLog[u]) :
          termLog[u][i].req # NoOp =>
            /\ termLog[u][i].req \in Request /\ termLog[u][i].req # r
            /\ call'[termLog[u][i].req].pc \notin EarlyStates
            /\ CheckTerm => termLog[u][i].term = call'[termLog[u][i].req].term
            /\ \A j \in 1 .. Len(termLog[u]) :
                 termLog[u][j].req = termLog[u][i].req => j = i
    BY <1>1, <1>2, LogRequest DEF AnswersRight, LoggedOnce, EarlyStates
  <2>5. r # NoOp
    BY RaftAssumption
  <2> HIDE DEF log, new
  <2>6. ASSUME NEW i \in 1 .. n, new[i].req # NoOp
        PROVE  /\ call'[new[i].req].pc \notin EarlyStates
               /\ CheckTerm => new[i].term = call'[new[i].req].term
               /\ \A j \in 1 .. n : new[j].req = new[i].req => j = i
    <3>1. Len(log) \in Nat
      BY <2>3
    <3>2. \A j \in 1 .. n : j # n => j \in 1 .. Len(log) /\ new[j] = log[j]
      BY <2>3, <3>1
    <3>3. \A j \in 1 .. Len(log) : log[j].req # r
      BY <2>3, <2>4, <2>5 DEF log
    <3>4. CASE i = n
      BY <3>2, <3>3, <3>4, <2>2, <2>3, <1>2 DEF EarlyStates
    <3>5. CASE i # n
      <4>1. i \in 1 .. Len(log) /\ new[i] = log[i] /\ log[i].req # r
        BY <3>2, <3>3, <3>5
      <4>2. /\ call'[log[i].req].pc \notin EarlyStates
            /\ CheckTerm => log[i].term = call'[log[i].req].term
            /\ \A j \in 1 .. Len(log) : log[j].req = log[i].req => j = i
        BY <4>1, <2>3, <2>4, <2>6 DEF log
      <4>3. ASSUME NEW j \in 1 .. n, new[j].req = log[i].req
            PROVE  j = i
        <5>1. j # n
          BY <4>1, <4>3, <2>3
        <5> QED
          BY <5>1, <4>2, <4>3, <3>2
      <4> QED
        BY <4>1, <4>2, <4>3
    <3> QED
      BY <3>4, <3>5
  <2>7. LoggedOnce'
    <3> SUFFICES ASSUME NEW u \in 1 .. LastTerm, NEW i \in 1 .. Len(termLog'[u]),
                        termLog'[u][i].req # NoOp
                 PROVE  /\ call'[termLog'[u][i].req].pc \notin EarlyStates
                        /\ CheckTerm =>
                             termLog'[u][i].term = call'[termLog'[u][i].req].term
                        /\ \A j \in 1 .. Len(termLog'[u]) :
                             termLog'[u][j].req = termLog'[u][i].req => j = i
      BY <2>3 DEF LoggedOnce
    <3>1. CASE u = t
      BY <3>1, <2>3, <2>6 DEF new
    <3>2. CASE u # t
      BY SMTT(20), <3>2, <2>3, <2>4
    <3> QED
      BY <3>1, <3>2
  <2>8. AnswersSound'
    <3>1. Len(committed) <= Len(committed') /\ Len(committed') \in Nat
      BY <2>1 DEF Bounded, TypeOK, RaftTypeOK
    <3> QED
      BY <1>3, <2>1, <3>1, AnswersSoundKept DEF AnswersRight
  <2> QED
    BY <2>7, <2>8 DEF AnswersRight
<1> QED
  BY <1>4, <1>5

\* The steps in which calls only move on.
LEMMA CallStepAnswers ==
  ASSUME Bounded, AnswersRight,
         \/ \E s \in Server : StepDown(s) \/ Crash(s)
         \/ \E r \in Request : Run(r) \/ \E s \in Server : FetchAdd(r, s)
  PROVE  AnswersRight'
<1>1. call \in [Request -> Call]
  BY DEF Bounded, TypeOK
<1>2. UNCHANGED <<termLog, committed>>
  BY DEF StepDown, RaftStepDown, Crash, RaftCrash, Run, FetchAdd, raftVars
<1>3. ASSUME NEW s \in Server, StepDown(s)
      PROVE  CallsAdvance /\ NothingApplied
  BY <1>1, <1>3 DEF StepDown, FailPending, CallsAdvance, NothingApplied,
                    EarlyStates, Call
<1>4. ASSUME NEW s \in Server, Crash(s)
      PROVE  CallsAdvance /\ NothingApplied
  BY <1>1, <1>4 DEF Crash, LoseCalls, CallsAdvance, NothingApplied,
                    EarlyStates, Call
<1>5. ASSUME NEW r \in Request, Run(r)
      PROVE  CallsAdvance /\ NothingApplied
  BY <1>1, <1>5 DEF Run, CallsAdvance, NothingApplied, EarlyStates, Call
<1>6. ASSUME NEW r \in Request, NEW s \in Server, FetchAdd(r, s)
      PROVE  CallsAdvance /\ NothingApplied
  <2>1. call[r].pc = "idle"
    BY <1>6 DEF FetchAdd
  <2>2. /\ call'[r].pc \in {"handling", "refused"}
        /\ \A x \in Request : x # r => call'[x] = call[x]
    BY ZenonT(20), <1>1, <1>6 DEF FetchAdd, Call
  <2> QED
    BY <2>1, <2>2 DEF CallsAdvance, NothingApplied, EarlyStates
<1> QED
  BY <1>2, <1>3, <1>4, <1>5, <1>6, AnswersKept

\* Every step keeps the third layer.
LEMMA AnswersStep ==
  BoundedInv /\ Valued /\ AnswersRight /\ [Next]_vars => AnswersRight'
<1> SUFFICES ASSUME Bounded, Placed, Valued, AnswersRight, [Next]_vars
             PROVE  AnswersRight'
  BY DEF BoundedInv
<1>1. CASE UNCHANGED <<termLog, committed, call>>
  BY <1>1, CallsKept, AnswersKept
<1>2. ASSUME NEW r \in Request, NodeApply(r)
      PROVE  AnswersRight'
  <2>1. call[r].at \in Server
    BY <1>2 DEF Placed, NodeApply
  <2> QED
    BY <1>2, <2>1, NodeApplyAnswers
<1>3. CASE UNCHANGED vars
  BY <1>1, <1>3 DEF vars, raftVars, rpcVars
<1>4. ASSUME NEW s \in Server,
             Learn(s) \/ FsmBegin(s) \/ FsmStop(s) \/ TimerSave(s)
             \/ FsmSave(s) \/ SaveFinish(s) \/ FsmLoad(s) \/ FsmLoadFails(s)
             \/ Restart(s) \/ \E from \in Server : Install(s, from)
      PROVE  AnswersRight'
  BY <1>1, <1>4
  DEF Learn, FollowerCommit, FsmBegin, FsmStop, TimerSave, FsmSave, SaveFinish,
      FsmLoad, FsmLoadFails, Restart, Install, raftVars, rpcVars
<1>5. ASSUME NEW q \in Query, GetEnd(q) \/ \E s \in Server : GetBegin(q, s)
      PROVE  AnswersRight'
  BY <1>1, <1>5 DEF GetEnd, GetBegin, raftVars
<1> QED
  BY <1>2, <1>3, <1>4, <1>5, ElectAnswers, CommitAnswers, ApplyAnswers,
     CallStepAnswers
  DEF Next

\* The third layer holds at the start.
LEMMA AnswersInit == Init => AnswersRight
<1> SUFFICES ASSUME Init PROVE AnswersRight
  OBVIOUS
<1>1. LastTerm = 0
  BY DEF Init, RaftInit, LastTerm
<1> QED
  BY <1>1 DEF Init, AnswersRight, LoggedOnce, AnswersSound

\* The three layers are invariants of the specification.
LEMMA AnswersAlways == Spec => [](BoundedInv /\ Valued /\ AnswersRight)
  BY BoundedInit, BoundedStep, ValuedInit, ValuedStep, AnswersInit, AnswersStep,
     PTL DEF Spec

\* A request is in the committed log at most once.
LEMMA CommittedOnce ==
  ASSUME Bounded, LoggedOnce,
         NEW i \in 1 .. Len(committed), NEW j \in 1 .. Len(committed),
         committed[i].req # NoOp, committed[j].req = committed[i].req
  PROVE  j = i
<1>1. LastTerm \in Nat /\ committed \in Seq(Entry)
  BY DEF Bounded, TypeOK, RaftTypeOK, LastTerm
<1>2. LastTerm > 0
  BY <1>1 DEF Bounded, RaftInv, LogMatching
<1>3. Agree(termLog[LastTerm], committed, Len(committed))
  BY <1>2 DEF Bounded, RaftInv, LogMatching
<1>4. termLog[LastTerm] \in Seq(Entry) /\ LastTerm \in 1 .. LastTerm
  BY <1>1, <1>2 DEF Bounded, TypeOK, RaftTypeOK, LastTerm
<1>5. /\ i \in 1 .. Len(termLog[LastTerm]) /\ termLog[LastTerm][i] = committed[i]
      /\ j \in 1 .. Len(termLog[LastTerm]) /\ termLog[LastTerm][j] = committed[j]
  BY <1>1, <1>3, <1>4 DEF Agree
<1> QED
  BY <1>4, <1>5 DEF LoggedOnce

\* A success answer to fetch_add is durable, counts once, and tells the value
\* just before the addition, through any crashes and changes of leader.
THEOREM AcknowledgedAdditionsKept == Spec => []AcknowledgedDurable
<1>1. BoundedInv /\ Valued /\ AnswersRight => AcknowledgedDurable
  <2> SUFFICES ASSUME Bounded, AnswersRight, NEW r \in Acknowledged
               PROVE  \E i \in 1 .. Len(committed) :
                        /\ committed[i].req = r
                        /\ call[r].value = ValueAt(i - 1)
                        /\ \A j \in 1 .. Len(committed) :
                             committed[j].req = r => j = i
    BY DEF AcknowledgedDurable, BoundedInv
  <2>1. r \in Request /\ call[r].pc = "ok" /\ r # NoOp
    BY RaftAssumption DEF Acknowledged
  <2>2. PICK i \in 1 .. Len(committed) :
          committed[i].req = r /\ call[r].value = ValueAt(i - 1)
    BY <2>1 DEF AnswersRight, AnswersSound
  <2>3. ASSUME NEW j \in 1 .. Len(committed), committed[j].req = r
        PROVE  j = i
    BY <2>1, <2>2, <2>3, CommittedOnce DEF AnswersRight
  <2> QED
    BY <2>2, <2>3
<1> QED
  BY <1>1, AnswersAlways, PTL

\* With FLAGS_check_term an addition only ever enters the log of the very term
\* its handler read from _leader_term.
THEOREM NoAddOutsideItsTerm ==
  ASSUME CheckTerm
  PROVE  Spec => []ExpectedTermRespected
<1>1. BoundedInv /\ Valued /\ AnswersRight => ExpectedTermRespected
  BY DEF AnswersRight, LoggedOnce, ExpectedTermRespected
<1> QED
  BY <1>1, AnswersAlways, PTL
=============================================================================
