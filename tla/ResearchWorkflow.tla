-------------------------- MODULE ResearchWorkflow --------------------------
(***************************************************************************)
(* The durable research workflow (research_workflow.py) and the operator   *)
(* command around it (command.py).  Every request has a run of its own.    *)
(* Three stages (research, report, remember) are selected by a LangGraph   *)
(* checkpoint, bound to one row of research_workflows and to the run's     *)
(* budget, and end in a report file next to the artifacts.  An artifact    *)
(* reference is the content it identifies.                                 *)
(*                                                                         *)
(* The operations of a run are executed in the order of the plan.  What an *)
(* experiment stage does with their results is the subject of              *)
(* ExperimentStage; here an operation is its rows of the run's budget.     *)
(* The plain command executes the plan without the lock of the workflow,   *)
(* and every command reads its clock before it waits for the run's row:    *)
(* what it reserves may come after a receipt that calls it stopped.        *)
(***************************************************************************)
EXTENDS Integers, Sequences, Functions

CONSTANTS
  Requests,     \* operator requests, each with the run its digest names
  Workers,      \* processes of the command and of the queue worker
  Reservation,  \* the cost each operation of a plan reserves, in plan order
  MaxCost,      \* max_cost of the brief
  Unused        \* no row, no worker, no value

Operations == DOMAIN Reservation

\* An operation of the budget, or what a plan reports of one.
Charge == [settled : BOOLEAN, cost : Nat]

Budgets == [Operations -> Charge \cup {Unused}]

Completions == [result : Seq(Charge), budget : Budgets]

\* A row of research_workflows.
Row == [result : Seq(Charge), budget : Budgets, completion : Completions \cup {Unused},
        remembered : BOOLEAN]

ASSUME WorkflowAssumption ==
  /\ Reservation \in Seq(Nat)
  /\ MaxCost \in Nat
  /\ Unused \notin Workers \cup Charge \cup Row

VARIABLES
  ledger,     \* the run's budget: for each operation Unused, a reservation or a charge
  row,        \* the row of research_workflows
  checkpoint, \* the latest checkpoint of the workflow's thread
  lock,       \* the holder of the thread's advisory lock
  report,     \* the report file: "absent", "partial", "whole" or "edited"
  worker      \* each process

workflowVars == <<ledger, row, checkpoint, lock, report, worker>>

Idle == [pc |-> "idle", request |-> Unused, mode |-> Unused, outcomes |-> <<>>,
         budget |-> Unused, stage |-> Unused, answer |-> Unused]

Reserved == [settled |-> FALSE, cost |-> 0]
Settled(cost) == [settled |-> TRUE, cost |-> cost]

\* The outcome of an operation the budget refuses; any other outcome is its settlement.
BudgetStopped == [settled |-> FALSE, cost |-> 0]

\* A LangGraph thread: its first checkpoint is written before the input reaches the state's
\* channels, every later one holds the values and names the next node.
NoCheckpoint == [next |-> "none", result |-> Unused, completion |-> Unused]
InputCheckpoint == [NoCheckpoint EXCEPT !.next = "input"]
FirstCheckpoint == [NoCheckpoint EXCEPT !.next = "research"]

InitWorkflow ==
  /\ ledger = [r \in Requests |-> [i \in Operations |-> Unused]]
  /\ row = [r \in Requests |-> Unused]
  /\ checkpoint = [r \in Requests |-> NoCheckpoint]
  /\ lock = [r \in Requests |-> Unused]
  /\ report = [r \in Requests |-> "absent"]
  /\ worker = [w \in Workers |-> Idle]

-----------------------------------------------------------------------------
(* Control of one process *)

Req(w) == worker[w].request

At(w, pc) == worker[w].pc = pc

Go(w, pc) == worker' = [worker EXCEPT ![w].pc = pc]

Unlocked(w) == [r \in Requests |-> IF lock[r] = w THEN Unused ELSE lock[r]]

\* An error leaves finish(): its transaction, and the advisory lock with it, ends.
Raise(w, error) == Go(w, error) /\ lock' = Unlocked(w)

Errors == {"busy", "uncertain", "conflict", "export_invalid"}

\* The process reports its error and ends.
Exit(w) ==
  /\ worker[w].pc \in Errors
  /\ worker' = [worker EXCEPT ![w] = Idle]
  /\ UNCHANGED <<ledger, row, checkpoint, lock, report>>

\* The process stops where it is.
Stop(w) ==
  /\ ~At(w, "idle")
  /\ worker' = [worker EXCEPT ![w] = Idle]
  /\ lock' = Unlocked(w)
  /\ UNCHANGED <<ledger, row, checkpoint, report>>

\* A command is started: "job" and "workflow" finish the workflow, "plain" executes the plan
\* without its lock or row and exports the report.
Begin(w, r, mode) ==
  /\ At(w, "idle")
  /\ worker' = [worker EXCEPT ![w] =
       [Idle EXCEPT !.pc = IF mode = "plain" THEN "operations" ELSE "locking",
                    !.request = r, !.mode = mode]]
  /\ UNCHANGED <<ledger, row, checkpoint, lock, report>>

-----------------------------------------------------------------------------
(* The operations of a plan and the run's budget *)

Committed(r) ==
  SumFunction([i \in Operations |-> IF ledger[r][i] = Unused THEN 0
                                    ELSE IF ledger[r][i].settled THEN ledger[r][i].cost
                                    ELSE Reservation[i]])

\* The reservation still fits into the budget.
Fits(r, i) == Committed(r) + Reservation[i] <= MaxCost

\* Some event is in the ledger: its time may be after the reading of a process that waited.
MayBeBehind(r) == \E i \in Operations : ledger[r][i] # Unused

Operation(w) == Len(worker[w].outcomes) + 1

Outcome(w, outcome, pc) ==
  worker' = [worker EXCEPT ![w].outcomes = Append(@, outcome), ![w].pc = pc]

\* The process reads its clock, and only then waits for the row of the run: whatever others did
\* or read meanwhile, the reading it goes on with is before the deadline or not.
ReadClock(w) ==
  /\ At(w, "operations")
  /\ Operation(w) \in Operations
  /\ \E pc \in {"reserving", "expired"} : Go(w, pc)
  /\ UNCHANGED <<ledger, row, checkpoint, lock, report>>

\* The transaction with that reading: the operation is reserved, refused by the budget, or
\* recovered from its settlement.
Operate(w) ==
  LET r == Req(w)
      i == Operation(w)
  IN /\ worker[w].pc \in {"reserving", "expired"}
     /\ \/ /\ ledger[r][i] = Unused
           /\ At(w, "reserving") /\ Fits(r, i)
           /\ ledger' = [ledger EXCEPT ![r][i] = Reserved]
           /\ Go(w, "dispatched")
        \/ /\ ledger[r][i] = Unused
           /\ At(w, "expired") \/ ~Fits(r, i) \/ MayBeBehind(r)
           /\ Outcome(w, BudgetStopped, "operations")
           /\ UNCHANGED ledger
        \/ /\ ledger[r][i] # Unused
           /\ ledger[r][i].settled
           /\ Outcome(w, ledger[r][i], "operations")
           /\ UNCHANGED ledger
     /\ UNCHANGED <<row, checkpoint, lock, report>>

\* ... or found reserved, by an execution nobody can tell the end of.
OperateUncertain(w) ==
  /\ worker[w].pc \in {"reserving", "expired"}
  /\ ledger[Req(w)][Operation(w)] = Reserved
  /\ Raise(w, "uncertain")
  /\ UNCHANGED <<ledger, row, checkpoint, report>>

Settle(w) ==
  LET r == Req(w)
      i == Operation(w)
  IN /\ At(w, "dispatched")
     /\ \E cost \in {0, Reservation[i]} :
          /\ ledger' = [ledger EXCEPT ![r][i] = Settled(cost)]
          /\ Outcome(w, Settled(cost), "operations")
     /\ UNCHANGED <<row, checkpoint, lock, report>>

\* The slip of reporting a result whose settlement was refused.
SettleRefusedUnnoticed(w) ==
  /\ At(w, "dispatched")
  /\ Outcome(w, Settled(0), "operations")
  /\ UNCHANGED <<ledger, row, checkpoint, lock, report>>

\* The clock of the settlement, read before the wait for the row, is behind the ledger's last
\* event: the refusal becomes the outcome and the operation stays reserved.
SettleRefused(w) ==
  /\ At(w, "dispatched")
  /\ Outcome(w, BudgetStopped, "operations")
  /\ UNCHANGED <<ledger, row, checkpoint, lock, report>>

\* The slip of taking the budget before the plan is executed.
ReadBudgetFirst(w) ==
  /\ At(w, "operations")
  /\ Operation(w) \notin Operations
  /\ worker[w].mode # "plain"
  /\ worker' = [worker EXCEPT ![w].budget = [i \in Operations |-> Unused],
                              ![w].pc = "inserting"]
  /\ UNCHANGED <<ledger, row, checkpoint, lock, report>>

\* The result is published and the budget read once every operation has its outcome.
ReadBudget(w) ==
  /\ At(w, "operations")
  /\ Operation(w) \notin Operations
  /\ worker[w].mode # "plain"
  /\ worker' = [worker EXCEPT ![w].budget = ledger[Req(w)], ![w].pc = "inserting"]
  /\ UNCHANGED <<ledger, row, checkpoint, lock, report>>

\* The plain command goes on to the report of its result.
PlainResult(w) ==
  /\ At(w, "operations")
  /\ Operation(w) \notin Operations
  /\ worker[w].mode = "plain"
  /\ worker' = [worker EXCEPT ![w].pc = "exporting", ![w].stage = "print"]
  /\ UNCHANGED <<ledger, row, checkpoint, lock, report>>

-----------------------------------------------------------------------------
(* ResearchWorkflow.finish(): the lock and the stage its checkpoint names *)

Resume(w, next) ==
  CASE next = "research" -> Go(w, "research")
    [] next = "report" -> worker' = [worker EXCEPT ![w].pc = "verifying", ![w].stage = next]
    [] next = "remember" -> worker' = [worker EXCEPT ![w].pc = "verifying", ![w].stage = next]
    [] next = "end" -> worker' = [worker EXCEPT ![w].pc = "verifying", ![w].stage = next]

\* The slip of refusing every thread that was started before, as if it had no values yet.
LockFresh(w) ==
  LET r == Req(w) IN
  /\ At(w, "locking")
  /\ lock[r] = Unused
  /\ IF checkpoint[r].next = "none"
     THEN /\ checkpoint' = [checkpoint EXCEPT ![r] = InputCheckpoint]
          /\ lock' = [lock EXCEPT ![r] = w]
          /\ Go(w, "starting")
     ELSE Raise(w, "conflict") /\ UNCHANGED checkpoint
  /\ UNCHANGED <<ledger, row, report>>

Lock(w) ==
  LET r == Req(w) IN
  /\ At(w, "locking")
  /\ lock[r] = Unused
  /\ CASE checkpoint[r].next = "none" ->
            /\ checkpoint' = [checkpoint EXCEPT ![r] = InputCheckpoint]
            /\ lock' = [lock EXCEPT ![r] = w]
            /\ Go(w, "starting")
       [] checkpoint[r].next = "input" -> Raise(w, "conflict") /\ UNCHANGED checkpoint
       [] OTHER -> /\ lock' = [lock EXCEPT ![r] = w]
                   /\ Resume(w, checkpoint[r].next)
                   /\ UNCHANGED checkpoint
  /\ UNCHANGED <<ledger, row, report>>

\* pg_try_advisory_xact_lock() fails: another process has the thread.
LockBusy(w) ==
  /\ At(w, "locking")
  /\ lock[Req(w)] # Unused
  /\ Raise(w, "busy")
  /\ UNCHANGED <<ledger, row, checkpoint, report>>

\* The values of the input reach the thread's channels with its second checkpoint.
SaveInput(w) ==
  LET r == Req(w) IN
  /\ At(w, "starting")
  /\ checkpoint' = [checkpoint EXCEPT ![r] = FirstCheckpoint]
  /\ Go(w, "research")
  /\ UNCHANGED <<ledger, row, lock, report>>

SaveResult(w, result) ==
  /\ checkpoint' = [checkpoint EXCEPT ![Req(w)] = [@ EXCEPT !.next = "report",
                                                           !.result = result]]
  /\ worker' = [worker EXCEPT ![w].pc = "verifying", ![w].stage = "report"]

\* The slip of executing the plan of a recorded stage again.
ResearchAgain(w) ==
  /\ At(w, "research")
  /\ worker' = [worker EXCEPT ![w].pc = "operations", ![w].outcomes = <<>>]
  /\ UNCHANGED <<ledger, row, checkpoint, lock, report>>

\* A recorded stage is recovered without entering the scheduler; otherwise the plan runs.
Research(w) ==
  LET r == Req(w) IN
  /\ At(w, "research")
  /\ IF row[r] # Unused
     THEN SaveResult(w, row[r].result)
     ELSE /\ worker' = [worker EXCEPT ![w].pc = "operations", ![w].outcomes = <<>>]
          /\ UNCHANGED checkpoint
  /\ UNCHANGED <<ledger, row, lock, report>>

\* INSERT ... ON CONFLICT DO NOTHING
Insert(w) ==
  LET r == Req(w) IN
  /\ At(w, "inserting")
  /\ row' = IF row[r] # Unused THEN row
            ELSE [row EXCEPT ![r] = [result |-> worker[w].outcomes, budget |-> worker[w].budget,
                                     completion |-> Unused, remembered |-> FALSE]]
  /\ Go(w, "inserted")
  /\ UNCHANGED <<ledger, checkpoint, lock, report>>

\* The row is read again: only the row this execution would have written is accepted.
Reread(w) ==
  LET r == Req(w) IN
  /\ At(w, "inserted")
  /\ IF row[r].result = worker[w].outcomes /\ row[r].budget = worker[w].budget
     THEN SaveResult(w, row[r].result) /\ UNCHANGED lock
     ELSE Raise(w, "conflict") /\ UNCHANGED checkpoint
  /\ UNCHANGED <<ledger, row, report>>

-----------------------------------------------------------------------------
(* _completion() and export_report(), used by every later stage *)

\* What a stage checks against the row and the checkpoint, and the budget against the ledger.
Consistent(w) ==
  LET r == Req(w)
      c == checkpoint[r]
  IN /\ row[r] # Unused
     /\ c.result = row[r].result
     /\ row[r].budget = ledger[r]
     /\ worker[w].stage \in {"remember", "end"} => row[r].completion = c.completion
     /\ worker[w].stage = "end" => row[r].remembered

Verify(w) ==
  /\ At(w, "verifying")
  /\ IF Consistent(w)
     THEN Go(w, "exporting") /\ UNCHANGED lock
     ELSE Raise(w, "conflict")
  /\ UNCHANGED <<ledger, row, checkpoint, report>>

\* open("xb"): a new file is empty until it is written; an existing one must be the report.
Export(w) ==
  LET r == Req(w) IN
  /\ At(w, "exporting")
  /\ CASE report[r] = "absent" ->
            /\ report' = [report EXCEPT ![r] = "partial"]
            /\ Go(w, "writing")
            /\ UNCHANGED lock
       [] report[r] = "whole" -> Go(w, "completing") /\ UNCHANGED <<report, lock>>
       [] OTHER -> Raise(w, "export_invalid") /\ UNCHANGED report
  /\ UNCHANGED <<ledger, row, checkpoint>>

Write(w) ==
  LET r == Req(w) IN
  /\ At(w, "writing")
  /\ report' = [report EXCEPT ![r] = IF @ = "partial" THEN "whole" ELSE @]
  /\ Go(w, "completing")
  /\ UNCHANGED <<ledger, row, checkpoint, lock>>

\* The completion of the saved row, and the one a command prints with the present budget.
Completion(result, budget) == [result |-> result, budget |-> budget]

SavedCompletion(r) == Completion(row[r].result, row[r].budget)

-----------------------------------------------------------------------------
(* The stages after research *)

\* UPDATE ... WHERE completion_ref IS NULL, read again and compared.
Report(w) ==
  LET r == Req(w)
      completion == SavedCompletion(r)
  IN /\ At(w, "completing")
     /\ worker[w].stage = "report"
     /\ row' = [row EXCEPT ![r].completion = IF @ = Unused THEN completion ELSE @]
     /\ IF row'[r].completion = completion
        THEN /\ checkpoint' = [checkpoint EXCEPT ![r] = [@ EXCEPT !.next = "remember",
                                                                  !.completion = completion]]
             /\ worker' = [worker EXCEPT ![w].pc = "verifying", ![w].stage = "remember"]
             /\ UNCHANGED lock
        ELSE Raise(w, "conflict") /\ UNCHANGED checkpoint
     /\ UNCHANGED <<ledger, report>>

Remember(w) ==
  /\ At(w, "completing")
  /\ worker[w].stage = "remember"
  /\ row' = [row EXCEPT ![Req(w)].remembered = TRUE]
  /\ Go(w, "remembered")
  /\ UNCHANGED <<ledger, checkpoint, lock, report>>

SaveEnd(w) ==
  /\ At(w, "remembered")
  /\ checkpoint' = [checkpoint EXCEPT ![Req(w)].next = "end"]
  /\ worker' = [worker EXCEPT ![w].pc = "verifying", ![w].stage = "end"]
  /\ UNCHANGED <<ledger, row, lock, report>>

\* finish() returns: the lock is released; the command goes on to print its own completion.
Finish(w) ==
  LET r == Req(w) IN
  /\ At(w, "completing")
  /\ worker[w].stage = "end"
  /\ worker' = [worker EXCEPT ![w].pc = IF worker[w].mode = "job" THEN "finished"
                                        ELSE "exporting",
                              ![w].stage = "print",
                              ![w].outcomes = row[r].result,
                              ![w].answer = SavedCompletion(r)]
  /\ lock' = Unlocked(w)
  /\ UNCHANGED <<ledger, row, checkpoint, report>>

\* The command prints the completion it builds with the budget as it is by then.
PrintCompletion(w) ==
  /\ At(w, "completing")
  /\ worker[w].stage = "print"
  /\ worker' = [worker EXCEPT ![w].pc = "finished",
                              ![w].answer = Completion(worker[w].outcomes, ledger[Req(w)])]
  /\ UNCHANGED <<ledger, row, checkpoint, lock, report>>

\* The user edits the exported report.
Edit(r) ==
  /\ report[r] = "whole"
  /\ report' = [report EXCEPT ![r] = "edited"]
  /\ UNCHANGED <<ledger, row, checkpoint, lock, worker>>

Step(w) ==
  \/ Exit(w)
  \/ ReadClock(w)
  \/ Operate(w)
  \/ OperateUncertain(w)
  \/ Settle(w)
  \/ SettleRefused(w)
  \/ ReadBudget(w)
  \/ PlainResult(w)
  \/ Lock(w)
  \/ LockBusy(w)
  \/ SaveInput(w)
  \/ Research(w)
  \/ Insert(w)
  \/ Reread(w)
  \/ Verify(w)
  \/ Export(w)
  \/ Write(w)
  \/ Report(w)
  \/ Remember(w)
  \/ SaveEnd(w)
  \/ Finish(w)
  \/ PrintCompletion(w)

-----------------------------------------------------------------------------
(* Properties of the workflow *)

\* The receipt of a run differs from its budget, and only in operations the receipt calls stopped:
\* a plain command, which takes no lock, reserved or settled them after its clock was read.
Overtaken(r) ==
  /\ row[r] # Unused
  /\ ledger[r] # row[r].budget
  /\ \A i \in Operations :
       ledger[r][i] # row[r].budget[i] => row[r].result[i] = BudgetStopped

\* A saved workflow is inconsistent for two reasons only, whichever stages processes died in and
\* whoever executed its plan meanwhile: its thread stopped between its first two checkpoints, or a
\* command overtook its receipt.  The conflict of research_workflow.py:74 has no other cause.
ConflictsAreExplained ==
  \A w \in Workers : At(w, "conflict") =>
    checkpoint[Req(w)] = InputCheckpoint \/ Overtaken(Req(w))

\* Once a run has its receipt, replays of the workflow dispatch nothing (finish(),
\* research_workflow.py:258), and no charge the receipt reports ever changes: what still moves in
\* the budget is an operation the receipt calls stopped, and a plain command moves it.
ReceiptKeepsCharges ==
  [][\A r \in Requests, i \in Operations :
       row[r] # Unused /\ ledger'[r][i] # ledger[r][i] =>
         /\ row[r].result[i] = BudgetStopped
         /\ \E w \in Workers : Req(w) = r /\ worker[w].mode = "plain" /\ Operation(w) = i
    ]_workflowVars

\* Whoever is answered for a request, by the queue, the workflow command or the plain command, is
\* told of every operation what the ledger records of it or that the budget stopped it, with that
\* charge in the budget that goes with the answer; a workflow answers with its receipt, and a job
\* with the completion memory returns later.
AnswersAgree ==
  \A w \in Workers : At(w, "finished") =>
    LET r == Req(w)
        answer == worker[w].answer
    IN /\ \A i \in Operations :
            \/ answer.result[i] = BudgetStopped
            \/ answer.result[i] = ledger[r][i] /\ answer.budget[i] = ledger[r][i]
       /\ worker[w].mode # "plain" => row[r] # Unused /\ answer.result = row[r].result
       /\ worker[w].mode = "job" => answer = SavedCompletion(r)

\* "terminal replay verifies evidence without model dispatch" (finish(), research_workflow.py:258):
\* a workflow whose thread is at its end can be repeated and never conflicts.
FinishedWorkflowsReplay ==
  \A w \in Workers : At(w, "conflict") => checkpoint[Req(w)].next # "end"

\* "Report retries regenerate identical artifacts and preserve conflicting user exports": a
\* report is refused only when a user has edited it (research_workflow.py:218).
OnlyEditedReportsRefused ==
  \A w \in Workers : At(w, "export_invalid") => report[Req(w)] = "edited"
=============================================================================
