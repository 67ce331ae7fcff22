\* One job and one command of an operator; nothing fails, and their clocks agree.
SPECIFICATION OneClockSpec
CONSTANTS
  Requests = {r1}
  Workers = {w1, w2}
  Messages = {m1}
  Reservation <- MCReservation
  RequestOf <- MCRequestOf
  MaxCost = 3
  MaxCommands = 1
  MaxIncidents = 0
  Unused = Unused
CHECK_DEADLOCK FALSE
INVARIANT FinishedWorkflowsReplay
