\* A process stops while it writes the report.
SPECIFICATION Spec
CONSTANTS
  Requests = {r1}
  Workers = {w1, w2}
  Messages = {m1}
  Reservation <- MCReservation
  RequestOf <- MCRequestOf
  MaxCost = 3
  MaxCommands = 0
  MaxIncidents = 1
  Unused = Unused
CHECK_DEADLOCK FALSE
INVARIANT OnlyEditedReportsRefused
