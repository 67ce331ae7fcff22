\* One process executes the plain plan while another command of the run uses its budget.
SPECIFICATION Spec
CONSTANTS
  Operations <- MCOperations
  Results <- MCResults
  Others <- MCOthers
  Costs = {0}
  Times = {0, 1}
  Unknown = Unknown
  Pending = Pending
  Deadline = 2
  MaxCost = 2
  MaxExperiments = 2
  MaxOperations = 5
  MaxSequence = 9
  Workers = {w1}
  Candidates = 2
  Compiled = {1, 2}
  Plan = "plain"
  LLMCost = 1
  NoOperation = NoOperation
  NoResult = NoResult
INVARIANTS StoppedLeavesNothingPending
