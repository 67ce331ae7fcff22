--------------------------- MODULE ExperimentStage --------------------------
(***************************************************************************)
(* The experiment stage of one run (research_experiments.py) and the graph *)
(* of each experiment (monthly_graph.py): candidates in source order, each *)
(* reviewed, revised and backtested as its plan says, every operation      *)
(* through the run's durable budget.  Several processes may execute the    *)
(* stage and other commands of the run may use its budget.  All of them    *)
(* share one clock that never moves backward, and all of them read it      *)
(* before they wait for the row lock of the budget.                        *)
(***************************************************************************)
EXTENDS RunBudget

CONSTANTS
  Workers,     \* processes that execute the stage
  Candidates,  \* number of candidates of the run
  Compiled,    \* the candidates that have a compiled strategy
  Plan,        \* "plain", "reviewed" or "iterative"
  Others,      \* operations that other commands of the run reserve
  LLMCost,     \* max_cost_per_review_microusd, max_cost_per_revision_microusd
  NoOperation, NoResult

\* Candidate c's operation for one part of its work; the identity of a command is derived
\* from the run and the request, so an amended strategy is another experiment.
Op(c, part) ==
  IF part \in {"backtest", "amended"}
  THEN [id |-> <<c, part>>, kind |-> "experiment", max |-> 0]
  ELSE [id |-> <<c, part>>, kind |-> "llm", max |-> LLMCost]

Parts == {"review", "revision", "backtest", "amended"}

Experiments == {op \in Operations : op.kind = "experiment"}

ASSUME StageAssumption ==
  /\ Candidates \in Nat
  /\ Compiled \subseteq 1 .. Candidates
  /\ Plan \in {"plain", "reviewed", "iterative"}
  /\ Operations = {Op(c, part) : c \in 1 .. Candidates, part \in Parts} \cup Others
  /\ Results = {"agrees", "disagrees", "unclear", "amended", "kept", "completed", "failed",
                "other"}
  /\ \A op \in Others : op.id \notin (1 .. Candidates) \X Parts
  /\ NoOperation \notin Operations
  /\ 0 \in Times \cap Costs

VARIABLES
  now,         \* the clock
  checkpoints, \* the checkpoint of each experiment's graph
  worker,      \* each process: program counter, candidate, operation, clock reading, result
  reports      \* the outcome tuples that were published

vars == <<now, ledger, checkpoints, worker, reports>>

Idle ==
  [pc |-> "idle", candidate |-> 1, op |-> NoOperation, at |-> 0, result |-> NoResult,
   outcomes |-> <<>>]

Init ==
  /\ InitBudget
  /\ now = 0
  /\ checkpoints = [op \in Experiments |-> "none"]
  /\ worker = [w \in Workers |-> Idle]
  /\ reports = {}

-----------------------------------------------------------------------------
(* Control of one process *)

Go(w, pc) == worker' = [worker EXCEPT ![w].pc = pc]

\* An operation starts by reading the clock; an experiment first takes its graph's lock.
Enter(w, part) ==
  LET op == Op(worker[w].candidate, part) IN
  worker' = [worker EXCEPT ![w].op = op, ![w].at = now, ![w].result = NoResult,
                           ![w].pc = IF op \in Experiments THEN "locking" ELSE "reserving"]

\* The candidate's outcome is appended and the loop goes on.
Conclude(w, status, result) ==
  worker' = [worker EXCEPT
    ![w].pc = "candidate", ![w].candidate = @ + 1, ![w].op = NoOperation,
    ![w].result = NoResult,
    ![w].outcomes = Append(@, [status |-> status, result |-> result,
                               part |-> IF worker[w].op = NoOperation THEN "none"
                                        ELSE worker[w].op.id[2]])]

\* A typed failure other than a budget rejection ends this execution of the stage.
Abort(w) == worker' = [worker EXCEPT ![w] = Idle]

\* The slip of falling back to the original strategy when its revision amends nothing.
ContinueUnamended(w, result) ==
  CASE result \in {"agrees", "kept"} -> Enter(w, "backtest")
    [] result = "disagrees" /\ Plan = "iterative" -> Enter(w, "revision")
    [] result = "amended" -> Enter(w, "amended")
    [] result \in {"completed", "failed"} -> Go(w, "saving")
    [] OTHER -> Conclude(w, "skipped", NoResult)

\* What the loop does with the result of the operation it executed or recovered.
Continue(w, result) ==
  CASE result = "agrees" -> Enter(w, "backtest")
    [] result = "disagrees" /\ Plan = "iterative" -> Enter(w, "revision")
    [] result = "amended" -> Enter(w, "amended")
    [] result \in {"completed", "failed"} -> Go(w, "saving")
    [] OTHER -> Conclude(w, "skipped", NoResult)

ResultsOf(op) ==
  CASE op \in Experiments -> {"completed", "failed"}
    [] op.id[2] = "review" -> {"agrees", "disagrees", "unclear"}
    [] OTHER -> {"amended", "kept"}

RowOf(op) == {i \in DOMAIN ledger : ledger[i].operation = op}

Recorded(op) == {ledger[i].observation.result : i \in RowOf(op) \cap ObservedRows(ledger)}

Start(w) ==
  /\ worker[w].pc = "idle"
  /\ Go(w, "candidate")
  /\ UNCHANGED <<now, ledger, checkpoints, reports>>

Consider(w) ==
  LET c == worker[w].candidate IN
  /\ worker[w].pc = "candidate"
  /\ c <= Candidates
  /\ IF c \in Compiled
     THEN Enter(w, IF Plan = "plain" THEN "backtest" ELSE "review")
     ELSE Conclude(w, "skipped", NoResult)
  /\ UNCHANGED <<now, ledger, checkpoints, reports>>

Publish(w) ==
  /\ worker[w].pc = "candidate"
  /\ worker[w].candidate > Candidates
  /\ reports' = reports \cup {worker[w].outcomes}
  /\ Abort(w)
  /\ UNCHANGED <<now, ledger, checkpoints>>

-----------------------------------------------------------------------------
(* MonthlyExperimentGraph.finish() *)

\* The advisory lock is held from the try to the end of the transaction around the graph.
GraphLocked(op) ==
  \E w \in Workers : worker[w].op = op /\ worker[w].pc \notin {"candidate", "locking"}

\* The slip of accepting a saved graph whose publication never ran.
LockGraphUnfinished(w) ==
  LET op == worker[w].op IN
  /\ worker[w].pc = "locking"
  /\ IF GraphLocked(op) \/ checkpoints[op] = "input"
     THEN Abort(w) /\ UNCHANGED checkpoints
     ELSE /\ checkpoints' = [checkpoints EXCEPT ![op] = IF @ = "none" THEN "input" ELSE @]
          /\ worker' = [worker EXCEPT
               ![w].at = now,
               ![w].pc = CASE checkpoints[op] = "none" -> "entering"
                           [] checkpoints[op] = "started" -> "reserving"
                           [] OTHER -> "finishing"]
  /\ UNCHANGED <<now, ledger, reports>>

\* A second writer is refused (RESEARCH_BUSY), a saved graph resumes where it stopped; one that
\* stopped at its first checkpoint has no identity yet and is refused (_validate).
LockGraph(w) ==
  LET op == worker[w].op IN
  /\ worker[w].pc = "locking"
  /\ IF GraphLocked(op) \/ checkpoints[op] = "input"
     THEN Abort(w) /\ UNCHANGED checkpoints
     ELSE /\ checkpoints' = [checkpoints EXCEPT ![op] = IF @ = "none" THEN "input" ELSE @]
          /\ worker' = [worker EXCEPT
               ![w].at = now,
               ![w].pc = CASE checkpoints[op] = "none" -> "entering"
                           [] checkpoints[op] = "started" -> "reserving"
                           [] checkpoints[op] = "executed" -> "manifest"
                           [] OTHER -> "finishing"]
  /\ UNCHANGED <<now, ledger, reports>>

\* External: LangGraph saves the values of the input before the first node runs.
EnterGraph(w) ==
  /\ worker[w].pc = "entering"
  /\ checkpoints' = [checkpoints EXCEPT ![worker[w].op] = "started"]
  /\ worker' = [worker EXCEPT ![w].pc = "reserving", ![w].at = now]
  /\ UNCHANGED <<now, ledger, reports>>

\* The result of _execute becomes durable in the graph after the ledger settled it.
SaveExecuted(w) ==
  /\ worker[w].pc = "saving"
  /\ checkpoints' = [checkpoints EXCEPT ![worker[w].op] = "executed"]
  /\ Go(w, "manifest")
  /\ UNCHANGED <<now, ledger, reports>>

\* _publish: the saved result must be the one the ledger records.
PublishManifest(w) ==
  LET op == worker[w].op IN
  /\ worker[w].pc = "manifest"
  /\ IF Recorded(op) = {}
     THEN Abort(w) /\ UNCHANGED checkpoints
     ELSE Go(w, "finishing") /\ checkpoints' = [checkpoints EXCEPT ![op] = "published"]
  /\ UNCHANGED <<now, ledger, reports>>

\* finish() returns the manifest, and the loop reports what recover_monthly_operation reads.
FinishGraph(w) ==
  /\ worker[w].pc = "finishing"
  /\ \E result \in Recorded(worker[w].op) : Conclude(w, result, result)
  /\ UNCHANGED <<now, ledger, checkpoints, reports>>

-----------------------------------------------------------------------------
(* One budgeted operation of the stage *)

\* A new reservation is permission to execute.
Dispatch(w) ==
  LET op == worker[w].op IN
  /\ worker[w].pc = "reserving"
  /\ ReserveOperation(op, worker[w].at)
  /\ Go(w, "executing")
  /\ UNCHANGED <<now, checkpoints, reports>>

\* The operation is known: its result is recovered, or it is unresolved and the stage fails.
Replay(w) ==
  LET op == worker[w].op IN
  /\ worker[w].pc = "reserving"
  /\ RowOf(op) # {}
  /\ IF Recorded(op) = {} THEN Abort(w) ELSE \E result \in Recorded(op) : Continue(w, result)
  /\ UNCHANGED <<now, ledger, checkpoints, reports>>

\* The budget refuses the reservation: the candidate is stopped, the loop goes on.
Reject(w) ==
  LET op == worker[w].op IN
  /\ worker[w].pc = "reserving"
  /\ RowOf(op) = {}
  /\ ~CanReserve(ledger, op, worker[w].at)
  /\ Conclude(w, "budget_stopped", NoResult)
  /\ UNCHANGED <<now, ledger, checkpoints, reports>>

\* The call or backtest ends, its result is retained, and the clock is read.
Execute(w) ==
  /\ worker[w].pc = "executing"
  /\ \E result \in ResultsOf(worker[w].op) :
       worker' = [worker EXCEPT ![w].pc = "settling", ![w].at = now, ![w].result = result]
  /\ UNCHANGED <<now, ledger, checkpoints, reports>>

Charge(op) == IF op \in Experiments THEN 0 ELSE Unknown

Settle(w) ==
  LET op == worker[w].op
      result == worker[w].result
  IN
  /\ worker[w].pc = "settling"
  /\ \E i \in RowOf(op) : SettleOperation(i, Charge(op), result, worker[w].at)
  /\ Continue(w, result)
  /\ UNCHANGED <<now, checkpoints, reports>>

\* A refused settlement raises the same RESEARCH_BUDGET_REJECTED as a refused reservation,
\* and the loop handles it the same way.
SettleRejected(w) ==
  LET op == worker[w].op IN
  /\ worker[w].pc = "settling"
  /\ \A i \in RowOf(op) : ~CanSettle(ledger, i, Charge(op), worker[w].result, worker[w].at)
  /\ Conclude(w, "budget_stopped", NoResult)
  /\ UNCHANGED <<now, ledger, checkpoints, reports>>

Crash(w) ==
  /\ worker[w].pc # "idle"
  /\ Abort(w)
  /\ UNCHANGED <<now, ledger, checkpoints, reports>>

-----------------------------------------------------------------------------
(* The clock and the other commands of the run *)

Tick ==
  /\ now + 1 \in Times
  /\ now' = now + 1
  /\ UNCHANGED <<ledger, checkpoints, worker, reports>>

OtherCommand ==
  /\ \E op \in Others :
       \/ ReserveOperation(op, now)
       \/ \E i \in RowOf(op) : SettleOperation(i, Unknown, "other", now)
  /\ UNCHANGED <<now, checkpoints, worker, reports>>

Next ==
  \/ \E w \in Workers :
       \/ Start(w) \/ Consider(w) \/ Publish(w) \/ LockGraph(w) \/ EnterGraph(w)
       \/ SaveExecuted(w) \/ PublishManifest(w) \/ FinishGraph(w)
       \/ Dispatch(w) \/ Replay(w) \/ Reject(w) \/ Execute(w) \/ Settle(w)
       \/ SettleRejected(w) \/ Crash(w)
  \/ Tick
  \/ OtherCommand

Spec == Init /\ [][Next]_vars

-----------------------------------------------------------------------------
(* Properties *)

Outcome ==
  [status : Results \cup {"skipped", "budget_stopped"}, result : Results \cup {NoResult},
   part : Parts \cup {"none"}]

WorkerState ==
  [pc : {"idle", "candidate", "locking", "entering", "reserving", "executing", "settling",
         "saving", "manifest", "finishing"},
   candidate : 1 .. Candidates + 1, op : Operations \cup {NoOperation}, at : Times,
   result : Results \cup {NoResult}, outcomes : Seq(Outcome)]

\* Clock, ledger, checkpoints, processes and reports keep their types; a process holds an
\* operation of its candidate exactly while it works on one, and a result of that operation
\* while it settles it.
TypeOK ==
  /\ LedgerTypeOK
  /\ now \in Times
  /\ checkpoints \in [Experiments -> {"none", "input", "started", "executed", "published"}]
  /\ worker \in [Workers -> WorkerState]
  /\ reports \subseteq Seq(Outcome)
  /\ \A w \in Workers :
       /\ worker[w].pc \in {"idle", "candidate"} => worker[w].op = NoOperation
       /\ worker[w].pc \notin {"idle", "candidate"} =>
            /\ worker[w].candidate <= Candidates
            /\ worker[w].op \in {Op(worker[w].candidate, part) : part \in Parts}
       /\ worker[w].pc = "settling" => worker[w].result \in ResultsOf(worker[w].op)
       /\ Len(worker[w].outcomes) = worker[w].candidate - 1

\* A backtest was dispatched only for a candidate whose recorded review agrees with its
\* direction, an amended one only after a recorded disagreement and an amendment of it: a
\* crash, a replay or a second process never turns a refused candidate into an experiment
\* ("No generated code, model decision or checkpoint grants execution rights").
BacktestsFollowReviews ==
  \A c \in 1 .. Candidates :
    /\ Holds(ledger, <<c, "backtest">>) =>
         c \in Compiled /\ (Plan # "plain" => Recorded(Op(c, "review")) = {"agrees"})
    /\ Holds(ledger, <<c, "amended">>) =>
         /\ Recorded(Op(c, "review")) = {"disagrees"}
         /\ Recorded(Op(c, "revision")) = {"amended"}

\* What a published report says was executed is what the budget recorded for that very
\* command, with its graph finished; so two reports of one run never contradict each other.
ReportsAreSettled ==
  \A report \in reports : \A c \in DOMAIN report :
    report[c].result # NoResult =>
      LET op == Op(c, report[c].part) IN
      /\ Recorded(op) = {report[c].result}
      /\ checkpoints[op] = "published"

\* A candidate reported as stopped by the budget left no operation behind whose execution
\* is unresolved ("Pending operations require reconciliation; only explicit budget rejection
\* becomes a scheduling outcome", research_experiments).
StoppedLeavesNothingPending ==
  \A report \in reports : \A c \in DOMAIN report :
    report[c].status = "budget_stopped" =>
      \A i \in DOMAIN ledger \ ObservedRows(ledger) :
        ledger[i].operation # Op(c, report[c].part)

=============================================================================
