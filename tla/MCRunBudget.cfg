\* Reservations and settlements of one run with arbitrary caller clocks.
SPECIFICATION BudgetSpec
CONSTANTS
  Operations <- MCOperations
  Results = {r1}
  Costs = {0, 1, 3}
  Times = {0, 1, 2}
  Unknown = Unknown
  Pending = Pending
  Deadline = 2
  MaxCost = 3
  MaxExperiments = 1
  MaxOperations = 3
  MaxSequence = 5
INVARIANTS CompletionRecordable AdmissionAgreesWithReplay PlannedSpendWithinBudget
PROPERTIES KeepsPromise
\* A run whose operations are all settled and whose budget is spent has nothing left to do.
CHECK_DEADLOCK FALSE
