\* An entry, a rebalance and the liquidation, every set of actions, both quantity policies.
SPECIFICATION Spec
CONSTANTS
  A = A
  B = B
  Securities = {A, B}
  Unit = 1
  Scale = 8
  Sessions = 2
  Formations = {0, 2}
  Specs <- MCSpecs
  Prices = {8, 16}
  Missing = Missing
  Allocations <- MCAllocations
  InitialCash = 40
CHECK_DEADLOCK FALSE
INVARIANTS BooksAgree HistoryIsStable CommittedBatchesAreFunded ResultIsRecordable
