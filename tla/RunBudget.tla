------------------------------ MODULE RunBudget -----------------------------
(***************************************************************************)
(* The durable budget of one research run (postgres_budgets.py).  Every    *)
(* reserve_operation and settle_operation is one transaction that locks    *)
(* the run's row, reloads and validates the ledger, applies the pure       *)
(* transition and commits, so each is one step here.  The instant a caller *)
(* passes is the one its own clock showed before it waited for the lock:   *)
(* any instant may arrive at any step.  A call that is rejected and a      *)
(* replay that returns what is already recorded change nothing and are     *)
(* stuttering steps.                                                       *)
(***************************************************************************)
EXTENDS BudgetLedger

VARIABLE ledger

InitBudget == ledger = <<>>

\* reserve_operation
ReserveOperation(op, at) ==
  /\ CanReserve(ledger, op, at)
  /\ ledger' = Reserved(ledger, op, at)

\* settle_operation
SettleOperation(i, cost, result, at) ==
  /\ CanSettle(ledger, i, cost, result, at)
  /\ ledger' = Settled(ledger, i, cost, result, at)

NextBudget ==
  \E at \in Times :
    \/ \E op \in Operations : ReserveOperation(op, at)
    \/ \E i \in DOMAIN ledger, cost \in Costs \cup {Unknown}, result \in Results :
         SettleOperation(i, cost, result, at)

BudgetSpec == InitBudget /\ [][NextBudget]_ledger

-----------------------------------------------------------------------------
(* Properties *)

\* The saved ledger is always a sequence of well-formed rows, within the bounds of its
\* schema (budgets.py, BudgetLedger).
LedgerTypeOK == ledger \in Seq(Row)

\* Work that was dispatched can always be recorded: whatever it cost and however late it
\* ended, settle() accepts the observation of a pending reservation as long as its clock
\* is not behind an event already in the ledger ("Late completion remains recordable after
\* the deadline and actual overruns are not discarded").
CompletionRecordable ==
  \A i \in DOMAIN ledger \ ObservedRows(ledger),
     cost \in Costs \cup {Unknown}, result \in Results, at \in Times :
       NotBeforeWatermark(ledger, at) => CanSettle(ledger, i, cost, result, at)

\* The conditions reserve() tests by hand agree with the replay of the whole history: an
\* operation that passes them is refused afterwards only for the inventory limits, and
\* never because _validate_history disagrees about time, breach or funding.
AdmissionAgreesWithReplay ==
  \A op \in Operations, at \in Times :
    Admits(ledger, op, at) /\ ~Holds(ledger, op.id) =>
      LET next == Reserved(ledger, op, at)
      IN  WithinInventory(next) =>
            OrderedHistory(next) /\ AuthorizedDispatches(next)

\* What row i may have cost at worst, an overrun counted only up to what was reserved.
PlannedCharge(row) ==
  IF row.observation = Pending \/ row.observation.cost = Unknown
  THEN row.operation.max
  ELSE Min({row.observation.cost, row.operation.max})

\* Only an overrun of a single operation can take a run above its cost limit: counting
\* every unresolved or unmeasured charge at its full reservation and every overrun at what
\* was reserved, the charges of a run never exceed max_cost_microusd.
PlannedSpendWithinBudget ==
  SumFunction([i \in DOMAIN ledger |-> PlannedCharge(ledger[i])]) <= MaxCost

\* A budget is open while its ledger holds no measured charge above its own reservation and
\* no event at or after the deadline.
Open ==
  \A i \in DOMAIN ledger :
    /\ ledger[i].reservedAt < Deadline
    /\ i \in ObservedRows(ledger) =>
         LET seen == ledger[i].observation
         IN  /\ seen.at < Deadline
             /\ seen.cost # Unknown => seen.cost <= ledger[i].operation.max

Granted == {ledger[i].operation.id : i \in DOMAIN ledger}

RecordedResults ==
  {<<ledger[i].operation.id, ledger[i].observation.result>> : i \in ObservedRows(ledger)}

Promise == INSTANCE BudgetPromise WITH
  granted <- Granted, recorded <- RecordedResults, open <- Open

\* The ledger implements BudgetPromise: one grant and one recorded result per identity, and
\* once the run is breached or its recorded clock reaches the deadline no later clock
\* reading, earlier or not, authorizes another dispatch.
KeepsPromise == Promise!Spec

=============================================================================
