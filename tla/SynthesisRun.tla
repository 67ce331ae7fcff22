---------------------------- MODULE SynthesisRun ----------------------------
(***************************************************************************)
(* From a catalog of sources to one hybrid experiment, as the command of   *)
(* orchestration/synthesis_command.py runs it: extraction of each selected *)
(* source, review of each compiled strategy, one synthesis, one            *)
(* experiment.  Processes may run one command at the same time and may     *)
(* stop anywhere; what they share is the ledger of the run, in which every *)
(* operation is reserved before it is called and settled afterwards.       *)
(***************************************************************************)
EXTENDS SourceStrategies, Sequences

CONSTANTS
  Sources,        \* how many sources the selection retains, in rank order
  Bindings,       \* the reviewed binding of each source, or Nothing
  Runs,
  Processes,
  Answers,        \* what a call of each kind of operation may deliver
  CostLimits,     \* what a brief may allow, in calls of a model
  MaxCommands     \* bound: commands begun

ASSUME SynthesisAssumption ==
  Sources \in 1 .. 3 /\ MaxCommands \in Nat /\ CostLimits \subseteq Nat

VARIABLES
  budget,      \* per run: its limit and whether its deadline has passed
  ledger,      \* per run: the operations reserved, with their results
  work,        \* per process: the command it runs
  readings,    \* processes that have read a clock they have not used yet, earliest first
  behind,      \* those whose reading is earlier than an event of their run by now
  research,    \* per run: the results published
  calls,       \* per run: the calls made
  commands

synthesisVars == <<budget, ledger, work, readings, behind, research, calls, commands>>

\* The row of an operation in the ledger: reserved and not settled, or settled with its result.
Pending == [settled |-> FALSE, result |-> Nothing]

Done(outcome) == [settled |-> TRUE, result |-> outcome]

NoLedger == [op \in {} |-> Nothing]

NoWork == [pc |-> "idle", run |-> Nothing, seen |-> NoLedger, op |-> Nothing,
           outcome |-> Nothing, late |-> FALSE]

InitSynthesis ==
  /\ budget \in [Runs -> [limit : CostLimits, expired : {FALSE}]]
  /\ ledger = [r \in Runs |-> NoLedger]
  /\ work = [p \in Processes |-> NoWork]
  /\ readings = <<>> /\ behind = {}
  /\ research = [r \in Runs |-> {}]
  /\ calls = [r \in Runs |-> <<>>]
  /\ commands = 0

WorkAt(p, pc) == work[p].pc = pc

WorkGo(p, pc) == work' = [work EXCEPT ![p].pc = pc]

-----------------------------------------------------------------------------
(* The course of a research, from the results seen so far *)

Extraction(s) == <<"extraction", s>>

Extracted(seen) == {s \in 1 .. Sources : Extraction(s) \in DOMAIN seen}

CandidateOf(seen, s) == Candidate(s, Bindings[s], seen[Extraction(s)])

Compiled(seen) ==
  {s \in Extracted(seen) : CandidateOf(seen, s).status = "compiled"}

Review(s) == <<"review", s>>

Reviewed(seen) == {s \in 1 .. Sources : Review(s) \in DOMAIN seen}

\* The candidates that enter the synthesis.
Agreed(seen) ==
  {CandidateOf(seen, s).strategy : s \in
     {t \in Reviewed(seen) : Agrees(CandidateOf(seen, t).strategy, seen[Review(t)])}}

\* An operation is identified by its whole command, the candidates with it.
Synthesis(seen) == <<"synthesis", Agreed(seen)>>

Proposal(seen) ==
  IF Synthesis(seen) \in DOMAIN seen THEN seen[Synthesis(seen)].proposal ELSE {}

Experiment(seen) == <<"experiment", Hybrid(Proposal(seen))>>

First(S) == CHOOSE s \in S : \A t \in S : s <= t

\* The operations are called one after the other, in rank order.
NextOperation(seen) ==
  IF Extracted(seen) # 1 .. Sources THEN Extraction(First(1 .. Sources \ Extracted(seen)))
  ELSE IF ~Compiled(seen) \subseteq Reviewed(seen)
  THEN Review(First(Compiled(seen) \ Reviewed(seen)))
  ELSE IF Cardinality(Agreed(seen)) >= 2 /\ Synthesis(seen) \notin DOMAIN seen
  THEN Synthesis(seen)
  ELSE IF Proposal(seen) # {} /\ HybridReasons(Proposal(seen)) = {}
          /\ Experiment(seen) \notin DOMAIN seen
  THEN Experiment(seen)
  ELSE Nothing

\* What a research came to; one without an experiment is held.
StatusOf(seen) == IF Experiment(seen) \in DOMAIN seen THEN seen[Experiment(seen)] ELSE "held"

-----------------------------------------------------------------------------
(* Commands *)

\* The command reads its request, owns the run and presents the brief of the run.
StartCommand(p, run) ==
  /\ WorkAt(p, "idle") /\ commands < MaxCommands
  /\ work' = [work EXCEPT ![p] = [NoWork EXCEPT !.pc = "deciding", !.run = run]]
  /\ commands' = commands + 1
  /\ UNCHANGED <<budget, ledger, readings, behind, research, calls>>

\* The clock of a reservation is read before its transaction waits for the run.
ReadClock(p) ==
  LET op == NextOperation(work[p].seen) IN
  /\ WorkAt(p, "deciding") /\ op # Nothing
  /\ work' = [work EXCEPT ![p].pc = "reserving", ![p].op = op,
                          ![p].late = budget[work[p].run].expired]
  /\ readings' = Append(readings, p)
  /\ UNCHANGED <<budget, ledger, behind, research, calls, commands>>

\* p uses its reading for an event of its run: whoever read earlier is behind now.
ReadingUsed(p, committed) ==
  LET i == CHOOSE k \in DOMAIN readings : readings[k] = p
      earlier == {readings[k] : k \in 1 .. i - 1}
      same == {q \in earlier : work[q].run = work[p].run}
  IN /\ readings' = SelectSeq(readings, LAMBDA q : q # p)
     /\ behind' = (behind \ {p}) \cup (IF committed THEN same ELSE {})

ReadingDropped(p) ==
  /\ readings' = SelectSeq(readings, LAMBDA q : q # p)
  /\ behind' = behind \ {p}

Charged(run) ==
  Cardinality({op \in DOMAIN ledger[run] : op[1] # "experiment"})

\* reserve() for an operation that the ledger does not hold.  Nothing says what a model call cost,
\* so that its whole reservation stays charged.  The deadline is compared with the reading
\* of ReadClock, not with the time of this step.
Admitted(p, op) ==
  LET run == work[p].run IN
  /\ p \notin behind
  /\ ~work[p].late
  /\ op[1] # "experiment" => Charged(run) < budget[run].limit

\* The slip of taking a reservation that is still pending for one's own.
ReservedIsMine(p, op) ==
  LET run == work[p].run IN
  IF op \in DOMAIN ledger[run] /\ ledger[run][op].settled
  THEN <<"recovered", ledger[run][op].result>>
  ELSE IF op \in DOMAIN ledger[run] \/ Admitted(p, op) THEN <<"granted">>
  ELSE <<"refused">>

\* What the reservation tells its caller.
Reservation(p, op) ==
  LET run == work[p].run IN
  IF op \in DOMAIN ledger[run]
  THEN IF ledger[run][op].settled THEN <<"recovered", ledger[run][op].result>>
       ELSE <<"unresolved">>
  ELSE IF Admitted(p, op) THEN <<"granted">> ELSE <<"refused">>

\* f with one more value.
With(f, x, v) == [y \in DOMAIN f \cup {x} |-> IF y = x THEN v ELSE f[y]]

\* execute_..._operation() up to its call: a settled result is recovered, a pending one stops the
\* command for a reconciliation, a refusal stops the research.
Reserve(p) ==
  LET run == work[p].run
      op == work[p].op
      answer == Reservation(p, op)
  IN /\ WorkAt(p, "reserving")
     /\ ReadingUsed(p, answer[1] = "granted")
     /\ CASE answer[1] = "granted" ->
               /\ ledger' = [ledger EXCEPT ![run] = With(@, op, Pending)]
               /\ WorkGo(p, "calling")
          [] answer[1] = "recovered" ->
               /\ work' = [work EXCEPT ![p].pc = "deciding", ![p].seen = With(@, op, answer[2])]
               /\ UNCHANGED ledger
          [] answer[1] = "refused" -> WorkGo(p, "stopped") /\ UNCHANGED ledger
          [] answer[1] = "unresolved" ->
               work' = [work EXCEPT ![p] = NoWork] /\ UNCHANGED ledger
     /\ UNCHANGED <<budget, research, calls, commands>>

\* What an operation makes of a delivery; only an experiment runs without a model.
Outcomes(seen, op) ==
  CASE op[1] = "extraction" -> {Extract(a) : a \in Answers["extraction"]}
    [] op[1] = "review" -> {Judge(a) : a \in Answers["review"]}
    [] op[1] = "synthesis" -> {Synthesize(Agreed(seen), a) : a \in Answers["synthesis"]}
    [] op[1] = "experiment" -> {"completed", "failed"}

\* The call, the saved result, and the clock of its settlement.
CallOperation(p) ==
  LET op == work[p].op IN
  /\ WorkAt(p, "calling")
  /\ \E outcome \in Outcomes(work[p].seen, op) :
       work' = [work EXCEPT ![p].pc = "settling", ![p].outcome = outcome]
  /\ calls' = [calls EXCEPT ![work[p].run] = Append(@, op)]
  /\ readings' = Append(readings, p)
  /\ UNCHANGED <<budget, ledger, behind, research, commands>>

\* settle() refuses a clock that is behind; the refusal has the code of a spent budget.
SettleOperation(p) ==
  LET run == work[p].run
      op == work[p].op
  IN /\ WorkAt(p, "settling")
     /\ ReadingUsed(p, p \notin behind)
     /\ IF p \in behind THEN WorkGo(p, "stopped") /\ UNCHANGED ledger
        ELSE /\ ledger' = [ledger EXCEPT ![run][op] = Done(work[p].outcome)]
             /\ work' = [work EXCEPT ![p].pc = "deciding",
                                     ![p].seen = With(@, op, work[p].outcome)]
     /\ UNCHANGED <<budget, research, calls, commands>>

\* The result with the budget as it is now; the caller gets it.
Result(p, stopped) ==
  [run |-> work[p].run, seen |-> work[p].seen, budget |-> ledger[work[p].run],
   status |-> IF stopped THEN "budget_stopped" ELSE StatusOf(work[p].seen)]

PublishResearch(p) ==
  LET stopped == WorkAt(p, "stopped") IN
  /\ stopped \/ (WorkAt(p, "deciding") /\ NextOperation(work[p].seen) = Nothing)
  /\ research' = [research EXCEPT ![work[p].run] = @ \cup {Result(p, stopped)}]
  /\ work' = [work EXCEPT ![p] = NoWork]
  /\ UNCHANGED <<budget, ledger, readings, behind, calls, commands>>

\* An error other than a refusal, or the process stops.
StopCommand(p) ==
  /\ ~WorkAt(p, "idle")
  /\ work' = [work EXCEPT ![p] = NoWork]
  /\ ReadingDropped(p)
  /\ UNCHANGED <<budget, ledger, research, calls, commands>>

\* The deadline of the budget of a run.
ExpireBudget(run) ==
  /\ ~budget[run].expired
  /\ budget' = [budget EXCEPT ![run].expired = TRUE]
  /\ UNCHANGED <<ledger, work, readings, behind, research, calls, commands>>

Work(p) ==
  \/ ReadClock(p) \/ Reserve(p) \/ CallOperation(p) \/ SettleOperation(p) \/ PublishResearch(p)

NextSynthesis ==
  \/ \E p \in Processes :
       Work(p) \/ StopCommand(p) \/ \E run \in Runs : StartCommand(p, run)
  \/ \E run \in Runs : ExpireBudget(run)

SynthesisSpec == InitSynthesis /\ [][NextSynthesis]_synthesisVars

-----------------------------------------------------------------------------
(* lineage/trajectories.py *)

\* export_trajectories() counts every operation of the budget that a result names.
Trajectory(result) ==
  LET model == {op \in DOMAIN result.budget : op[1] # "experiment"}
      settled == {op \in model : result.budget[op].settled}
  IN [operations |-> Cardinality(DOMAIN result.budget),
      attempts |-> Cardinality(settled),
      pending |-> Cardinality({op \in DOMAIN result.budget : ~result.budget[op].settled})]

-----------------------------------------------------------------------------

\* Whatever commands of a run did in whatever order, each operation was called once at most; what a
\* result reports of an operation is what the budget saved with it records, so that an export of a
\* research that was not stopped shows nothing pending; and two results that no budget stopped are
\* the same (orchestration/synthesis_command.py:96-199, lineage/trajectories.py:139-218).
ResultsAgree ==
  \A run \in Runs :
    /\ \A i, j \in DOMAIN calls[run] : calls[run][i] = calls[run][j] => i = j
    /\ \A r \in research[run] :
         /\ \A op \in DOMAIN r.seen : op \in DOMAIN r.budget /\ r.budget[op] = Done(r.seen[op])
         /\ r.status # "budget_stopped" => Trajectory(r).pending = 0
    /\ \A r, s \in research[run] :
         /\ \A op \in DOMAIN r.seen \cap DOMAIN s.seen : r.seen[op] = s.seen[op]
         /\ "budget_stopped" \notin {r.status, s.status} => r = s
=============================================================================
