-------------------------- MODULE CounterRefinement --------------------------
(***************************************************************************)
(* The peers of CounterServer together implement FetchAddService.          *)
(***************************************************************************)
EXTENDS CounterServer

\* The committed log, without its terms: an addition takes effect when its
\* entry is committed, and a leader's configuration entry adds nothing.
Ledger == [i \in 1 .. Len(committed) |->
             [req |-> committed[i].req, total |-> committed[i].total]]

\* What the caller of r knows of its fetch_add.
Known(r) ==
  LET pc == call[r].pc IN
  IF pc = "ok" THEN [pc |-> "ok", value |-> call[r].value]
  ELSE [pc    |-> CASE pc = "idle" -> "idle"
                    [] pc = "refused" -> "refused"
                    [] pc \in {"redirected", "lost"} -> "unknown"
                    [] OTHER -> "pending",
        value |-> 0]

Knowledge == [r \in Request |-> Known(r)]

Service == INSTANCE FetchAddService
             WITH ledger <- Ledger, call <- Knowledge, Nobody <- NoOp

\* Additions are linearizable and take effect at most once, through elections,
\* kills and restarts; a redirect from fetch_add itself is final.
ImplementsService == Service!Spec
=============================================================================
