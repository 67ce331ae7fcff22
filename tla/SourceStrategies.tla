-------------------------- MODULE SourceStrategies --------------------------
(***************************************************************************)
(* From what a model says of selected sources to an executable hybrid: the *)
(* extraction and its reviewed binding give a strategy, an independent     *)
(* review has to agree with its direction, a synthesis chooses and weighs  *)
(* reviewed strategies, and the compiler merges them.  Pure functions; a   *)
(* model's answer is a record of what the checks can tell apart, Nothing   *)
(* when the provider delivered none.                                       *)
(***************************************************************************)
EXTENDS Integers, FiniteSets, FiniteSetsExt

CONSTANTS
  Nothing,
  WholeWeight,     \* the weights of a proposal are fractions of this
  MaxFormula       \* what the formula of a strategy may grow to

\* extract_source(): refused, unreadable or cited beyond the packet, nothing is observed.
Extract(answer) ==
  IF answer = Nothing THEN [status |-> "provider_failed", observation |-> Nothing]
  ELSE IF ~answer.cited THEN [status |-> "invalid", observation |-> Nothing]
  ELSE [status |-> answer.status, observation |-> answer]

\* approved_formation_rule(): an alias found in the pages counts as the reviewed rule.
ApprovedRule(binding, observed) ==
  IF observed \in binding.aliases THEN observed ELSE binding.rule

\* The checks of compile_source_strategy(); "stated" stands for the choices that have to be made
\* in the source as the environment supports them.
CompileReasons(binding, observation) ==
  {r \in {"source_refused", "choices_unsupported", "missing_direction",
          "formation_rule_requires_review"} :
     CASE r = "source_refused" -> observation.status # "extracted"
       [] r = "choices_unsupported" -> ~observation.stated
       [] r = "missing_direction" -> observation.direction = Nothing
       [] r = "formation_rule_requires_review" ->
            observation.rule # ApprovedRule(binding, observation.rule)}

\* The strategy of a source, inside the environment that was reviewed for this packet.
Strategy(source, binding, observation) ==
  [paper |-> source, environment |-> binding.environment,
   direction |-> observation.direction, size |-> observation.size]

\* research_strategies(): the candidate that a selected source gives.
Candidate(source, binding, extraction) ==
  IF binding = Nothing THEN [status |-> "unbound", strategy |-> Nothing]
  ELSE IF extraction.observation = Nothing
  THEN [status |-> "source_unavailable", strategy |-> Nothing]
  ELSE IF CompileReasons(binding, extraction.observation) # {}
          \/ extraction.observation.size > MaxFormula
  THEN [status |-> "needs_review", strategy |-> Nothing]
  ELSE [status |-> "compiled",
        strategy |-> Strategy(source, binding, extraction.observation)]

\* _judge_direction(): a direction counts with a quote from the page it names.
Judge(answer) ==
  IF answer = Nothing THEN [status |-> "provider_failed", direction |-> Nothing]
  ELSE IF answer.direction = Nothing THEN [status |-> "uncertain", direction |-> Nothing]
  ELSE IF ~answer.quoted THEN [status |-> "invalid", direction |-> Nothing]
  ELSE [status |-> "supported", direction |-> answer.direction]

\* SynthesisCandidate.reviewed_direction.
Agrees(strategy, review) ==
  review.status = "supported" /\ review.direction = strategy.direction

Papers(allocations) == {a.paper : a \in allocations}

\* SynthesisObservation.coherent_proposal and the citations of synthesize().
Proposes(answer, strategies) ==
  /\ \A a \in answer.allocations : a.quoted /\ a.paper \in Papers(strategies)
  /\ answer.status = "proposed" =>
       /\ Cardinality(answer.allocations) >= 2
       /\ Cardinality(Papers(answer.allocations)) = Cardinality(answer.allocations)
       /\ MapThenSumSet(LAMBDA a : a.weight, answer.allocations) = WholeWeight
  /\ answer.status = "abstained" => answer.allocations = {}

\* synthesize(): the proposal is made of the candidates it names, as they were reviewed.
Synthesize(strategies, answer) ==
  IF answer = Nothing THEN [status |-> "provider_failed", proposal |-> {}]
  ELSE IF ~Proposes(answer, strategies) THEN [status |-> "invalid", proposal |-> {}]
  ELSE [status |-> answer.status,
        proposal |-> {[strategy |-> CHOOSE s \in strategies : s.paper = a.paper,
                       weight |-> a.weight] : a \in answer.allocations}]

\* compile_hybrid(): one environment, every direction turned to long high, a bounded formula.
HybridReasons(proposal) ==
  LET environments == {c.strategy.environment : c \in proposal}
      size == MapThenSumSet(LAMBDA c : c.strategy.size + 1, proposal)
  IN IF Cardinality(environments) > 1 THEN {"incompatible_execution_environment"}
     ELSE IF size > MaxFormula THEN {"invalid_composed_contract"} ELSE {}

Hybrid(proposal) ==
  {<<c.strategy.paper, c.weight, IF c.strategy.direction = "high_low" THEN 1 ELSE -1>> :
     c \in proposal}
=============================================================================
