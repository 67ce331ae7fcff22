-------------------------- MODULE MCMonthlyAccount --------------------------
(***************************************************************************)
(* Two securities over two sessions: an entry, a second rebalance and the  *)
(* liquidation, with corporate actions around each of them.                *)
(***************************************************************************)
EXTENDS MonthlyAccount

CONSTANTS A, B

MCAllocations == {[s \in Securities |-> IF s = A THEN w ELSE -w] : w \in {1, -1}}

Dividend(id, s, effective, pay) ==
  [id |-> id, security |-> s, kind |-> "cash_dividend", effective |-> effective, pay |-> pay,
   cash |-> 4, ratio |-> 1]
Split(id, s, effective) ==
  [id |-> id, security |-> s, kind |-> "split", effective |-> effective, pay |-> Missing,
   cash |-> Missing, ratio |-> 2]
Exit(id, s, effective, pay) ==
  [id |-> id, security |-> s, kind |-> "terminal_exit", effective |-> effective, pay |-> pay,
   cash |-> IF pay = Missing THEN Missing ELSE 8, ratio |-> 1]

ActionSets ==
  {{}, {Dividend(1, A, 2, 3)}, {Dividend(1, A, 3, 3)}, {Dividend(1, A, 2, 5)},
   {Split(1, A, 2)}, {Split(1, B, 3), Dividend(2, A, 1, 2)},
   {Exit(1, A, 2, 3)}, {Exit(1, A, 3, Missing)}, {Exit(1, A, 4, 5), Exit(2, B, 4, 4)},
   {Exit(1, A, 2, 2), Dividend(2, A, 3, 3)},
   {Dividend(1, A, 2, 2), Split(2, A, 2)}, {Split(1, A, -1)}}

Grant(s, max, through) == [security |-> s, max |-> max, from |-> 0, through |-> through]

GrantSets == {{Grant(A, 9, 4), Grant(B, 9, 4)}, {Grant(A, 2, 4), Grant(A, 9, 4), Grant(B, 9, 3)}}

MCSpecs ==
  [quantity : {"whole", "exact"}, rate : {0, 1}, policy : {"explicit_entitlement_payment_v1"},
   actions : ActionSets, grants : GrantSets]
  \cup
  [quantity : {"exact"}, rate : {0}, policy : {"reject_any_events"},
   actions : {{}, {Split(1, A, 2)}}, grants : GrantSets]
  \cup
  [quantity : {"whole", "exact"}, rate : {3, 4}, policy : {"explicit_entitlement_payment_v1"},
   actions : {{}}, grants : GrantSets]
=============================================================================
