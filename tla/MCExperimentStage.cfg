\* The iterative plan executed by two processes.
SPECIFICATION Spec
CONSTANTS
  Operations <- MCOperations
  Results <- MCResults
  Others <- MCOthers
  Costs = {0}
  Times = {0, 1}
  Unknown = Unknown
  Pending = Pending
  Deadline = 2
  MaxCost = 2
  MaxExperiments = 2
  MaxOperations = 5
  MaxSequence = 9
  Workers = {w1, w2}
  Candidates = 2
  Compiled = {1, 2}
  Plan = "iterative"
  LLMCost = 1
  NoOperation = NoOperation
  NoResult = NoResult
INVARIANTS BacktestsFollowReviews ReportsAreSettled
