\* One job delivered to two workers any number of times, one command, one incident.
SPECIFICATION Spec
CONSTANTS
  Requests = {r1}
  Workers = {w1, w2}
  Messages = {m1}
  Reservation <- MCReservation
  RequestOf <- MCRequestOf
  MaxCost = 3
  MaxCommands = 1
  MaxIncidents = 1
  Unused = Unused
CHECK_DEADLOCK FALSE
INVARIANTS ConflictsAreExplained AnswersAgree AcknowledgedIsRemembered
PROPERTIES ReceiptKeepsCharges JobsAreAcknowledged
