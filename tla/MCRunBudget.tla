----------------------------- MODULE MCRunBudget ----------------------------
(***************************************************************************)
(* A budget of 3 units with room for three operations, one an experiment.  *)
(* Two LLM commands share an identity and differ in cost (the conflict     *)
(* reserve() refuses); measured costs include an overrun; clock readings   *)
(* reach the deadline.                                                     *)
(***************************************************************************)
EXTENDS RunBudget

MCOperations ==
  {[id |-> "a", kind |-> "llm", max |-> 1], [id |-> "a", kind |-> "llm", max |-> 2],
   [id |-> "b", kind |-> "llm", max |-> 2],
   [id |-> "x", kind |-> "experiment", max |-> 0],
   [id |-> "y", kind |-> "experiment", max |-> 0]}

=============================================================================
