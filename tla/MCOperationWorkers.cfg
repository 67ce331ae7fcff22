\* Two processes, three commands, arbitrary clocks, crashes at every step.
SPECIFICATION Spec
CONSTANTS
  Operations <- MCOperations
  Results = {r1, r2}
  Costs = {0}
  Times = {0, 1}
  Unknown = Unknown
  Pending = Pending
  Deadline = 1
  MaxCost = 2
  MaxExperiments = 1
  MaxOperations = 3
  MaxSequence = 5
  Workers = {w1, w2}
  NoOperation = NoOperation
  NoResult = NoResult
INVARIANTS ExecutedOnce WorstCaseBillWithinBudget AnswersAreRecorded
PROPERTIES ImplementsRunBudget
