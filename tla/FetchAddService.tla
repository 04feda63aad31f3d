--------------------------- MODULE FetchAddService ---------------------------
(***************************************************************************)
(* What the group promises the callers of CounterService.fetch_add, seen   *)
(* as one counter: an addition takes effect at most once, at a moment in   *)
(* one order all answers agree with.  A success carries the value before   *)
(* that moment.  Any other answer to an addition the service took on, and  *)
(* no answer, leave the outcome open: it may still take effect.            *)
(***************************************************************************)
EXTENDS Integers, Sequences

CONSTANTS Request, Delta, Half,
          Nobody    \* the addition of a moment at which none takes effect

VARIABLES ledger,   \* the moments that have passed
          call      \* call[r]: what the caller of r knows

vars == <<ledger, call>>

Value == -Half .. Half - 1
Wrap(x) == ((x + Half) % (2 * Half)) - Half

\* The addition that takes effect, and the counter from then on.
Moment == [req : Request \cup {Nobody}, total : Value]

TypeOK ==
  /\ ledger \in Seq(Moment)
  /\ call \in [Request -> [pc : {"idle", "pending", "ok", "unknown", "refused"},
                           value : Value]]

Init ==
  /\ ledger = << >>
  /\ call = [r \in Request |-> [pc |-> "idle", value |-> 0]]

\* The counter before moment i.
Before(log, i) == IF i = 1 THEN 0 ELSE log[i - 1].total

\* The service takes the addition on.
Invoke(r) ==
  /\ call[r].pc = "idle"
  /\ call' = [call EXCEPT ![r].pc = "pending"]
  /\ UNCHANGED ledger

\* The service turns the addition away: it will never take effect.
Refuse(r) ==
  /\ call[r].pc = "idle"
  /\ call' = [call EXCEPT ![r].pc = "refused"]
  /\ UNCHANGED ledger

\* Additions that may still take effect.
Open == {r \in Request : /\ call[r].pc \in {"pending", "unknown"}
                         /\ \A i \in DOMAIN ledger : ledger[i].req # r}

\* At moment i of the log nothing happens, or an open addition takes effect,
\* for the only time.
Counted(log, i) ==
  \/ /\ log[i].req = Nobody
     /\ log[i].total = Before(log, i)
  \/ /\ log[i].req \in Open
     /\ log[i].total = Wrap(Before(log, i) + Delta[log[i].req])
     /\ \A j \in DOMAIN log : log[j].req = log[i].req => j = i

\* Moments pass.
TakeEffect ==
  /\ ledger' \in Seq(Moment)
  /\ Len(ledger) < Len(ledger')
  /\ \A i \in DOMAIN ledger : ledger'[i] = ledger[i]
  /\ \A i \in Len(ledger) + 1 .. Len(ledger') : Counted(ledger', i)
  /\ UNCHANGED call

\* A success tells the value the addition found.
Succeed(r) ==
  /\ call[r].pc = "pending"
  /\ \E i \in DOMAIN ledger :
       /\ ledger[i].req = r
       /\ call' = [call EXCEPT ![r] = [pc |-> "ok", value |-> Before(ledger, i)]]
  /\ UNCHANGED ledger

\* Callers are left without an answer, or with one that decides nothing.
LeaveOpen ==
  /\ \E R \in SUBSET {r \in Request : call[r].pc = "pending"} :
       /\ R # {}
       /\ call' = [r \in Request |-> IF r \in R
                                     THEN [call[r] EXCEPT !.pc = "unknown"]
                                     ELSE call[r]]
  /\ UNCHANGED ledger

Next ==
  \/ \E r \in Request : Invoke(r) \/ Refuse(r) \/ Succeed(r)
  \/ TakeEffect
  \/ LeaveOpen

Spec == Init /\ [][Next]_vars
=============================================================================
