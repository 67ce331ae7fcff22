-------------------------- MODULE MCOperationWorkers ------------------------
(***************************************************************************)
(* Two processes and three commands: two LLM calls that only together      *)
(* exceed the budget, and a backtest.  Clock readings reach the deadline.  *)
(***************************************************************************)
EXTENDS OperationWorkers

MCOperations ==
  {[id |-> "review", kind |-> "llm", max |-> 1],
   [id |-> "extract", kind |-> "llm", max |-> 2],
   [id |-> "backtest", kind |-> "experiment", max |-> 0]}

=============================================================================
