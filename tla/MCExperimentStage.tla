-------------------------- MODULE MCExperimentStage -------------------------
(***************************************************************************)
(* Two candidates with reviews and revisions; the budget has room for two  *)
(* of their LLM calls and another command of the run may take one.         *)
(***************************************************************************)
EXTENDS ExperimentStage

MCOthers == {[id |-> <<0, "other">>, kind |-> "llm", max |-> 1]}

MCOperations ==
  {Op(c, part) : c \in 1 .. Candidates, part \in {"review", "revision", "backtest", "amended"}}
  \cup MCOthers

MCResults ==
  {"agrees", "disagrees", "unclear", "amended", "kept", "completed", "failed", "other"}

=============================================================================
