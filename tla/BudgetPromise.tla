---------------------------- MODULE BudgetPromise ---------------------------
(***************************************************************************)
(* What a research budget promises to the code that spends through it: an  *)
(* operation identity is granted at most once, its result is recorded at   *)
(* most once and only if it was granted, and a budget that closed (by an   *)
(* overrun or by the clock) grants nothing ever again, while the results   *)
(* of what it already granted may still be recorded.                       *)
(***************************************************************************)
CONSTANTS OperationIds, Results

VARIABLES
  granted,   \* identities that were given permission to run
  recorded,  \* the pairs <<identity, result>> retained
  open       \* whether the budget may still grant

Init ==
  /\ granted = {}
  /\ recorded = {}
  /\ open = TRUE

Grant(id) ==
  /\ open
  /\ id \notin granted
  /\ granted' = granted \cup {id}
  /\ UNCHANGED <<recorded, open>>

Record(id, result) ==
  /\ id \in granted
  /\ \A other \in Results : <<id, other>> \notin recorded
  /\ recorded' = recorded \cup {<<id, result>>}
  /\ open' \in {open, FALSE}
  /\ UNCHANGED granted

Next ==
  \E id \in OperationIds :
    \/ Grant(id)
    \/ \E result \in Results : Record(id, result)

Spec == Init /\ [][Next]_<<granted, recorded, open>>

=============================================================================
