------------------------- MODULE MCResearchDelivery -------------------------
(***************************************************************************)
(* A plan of two operations whose reservations exceed the budget together, *)
(* so that the second is admitted only when the first was refunded; one    *)
(* submission of a request, delivered any number of times, and a command   *)
(* of an operator.                                                         *)
(***************************************************************************)
EXTENDS ResearchDelivery

MCReservation == <<2, 2>>

MCRequestOf == [m \in Messages |-> CHOOSE r \in Requests : TRUE]

-----------------------------------------------------------------------------
(* Clocks that agree, so that what goes wrong cannot be blamed on a bad clock *)

\* An operation was stopped, or its process is on the way to that with a clock past the deadline.
StoppedByNow ==
  \/ \E w \in Workers : At(w, "expired") \/ BudgetStopped \in Range(worker[w].outcomes)
  \/ \E r \in Requests : row[r] # Unused /\ BudgetStopped \in Range(row[r].result)

\* Nobody reads a time before the deadline after that.
OneClock ==
  \A w \in Workers : At(w, "operations") /\ worker'[w].pc = "reserving" => ~StoppedByNow

OneClockSpec == Init /\ [][Next /\ OneClock]_vars

=============================================================================
