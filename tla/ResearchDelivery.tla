-------------------------- MODULE ResearchDelivery --------------------------
(***************************************************************************)
(* Delivery of research jobs by an SQS FIFO queue (sqs_jobs.py) to the     *)
(* durable workflow, beside operators who run the commands themselves.     *)
(* The queue keeps a message until it is deleted, hides it for the         *)
(* visibility time while a worker has it, and delivers one message of a    *)
(* group (a request) at a time.                                            *)
(***************************************************************************)
EXTENDS ResearchWorkflow

CONSTANTS
  Messages,     \* accepted submissions, further apart than the deduplication window
  RequestOf,    \* the request of each message
  MaxCommands,  \* bound: commands started by operators
  MaxIncidents  \* bound: processes that stop in the middle of their work, reports a user edits

ASSUME DeliveryAssumption ==
  /\ RequestOf \in [Messages -> Requests]
  /\ MaxCommands \in Nat
  /\ MaxIncidents \in Nat

VARIABLES
  queue,     \* each message: "unsent", "visible", "inflight" or "deleted"
  holder,    \* the message each worker received, and whether its handle is still current
  commands,  \* commands started by operators
  incidents  \* processes that stopped and reports that were edited

deliveryVars == <<queue, holder, commands, incidents>>

vars == <<workflowVars, deliveryVars>>

Nothing == [message |-> Unused, current |-> FALSE]

Init ==
  /\ InitWorkflow
  /\ queue = [m \in Messages |-> "unsent"]
  /\ holder = [w \in Workers |-> Nothing]
  /\ commands = 0
  /\ incidents = 0

-----------------------------------------------------------------------------

Submit(m) ==
  /\ queue[m] = "unsent"
  /\ queue' = [queue EXCEPT ![m] = "visible"]
  /\ UNCHANGED <<workflowVars, holder, commands, incidents>>

\* receive_message(): the group of the message has no other message in flight.
Receive(w, m) ==
  /\ queue[m] = "visible"
  /\ \A n \in Messages : RequestOf[n] = RequestOf[m] => queue[n] # "inflight"
  /\ Begin(w, RequestOf[m], "job")
  /\ queue' = [queue EXCEPT ![m] = "inflight"]
  /\ holder' = [holder EXCEPT ![w] = [message |-> m, current |-> TRUE]]
  /\ UNCHANGED <<commands, incidents>>

Holds(w, m) == holder[w] = [message |-> m, current |-> TRUE]

\* The replay of a remembered workflow dispatches nothing: it ends within the visibility time.
Prompt(w) == row[Req(w)] # Unused /\ row[Req(w)].remembered

\* The visibility time ends: the message may be delivered again and the handle is stale.
Expire(m) ==
  /\ queue[m] = "inflight"
  /\ \A w \in Workers : Holds(w, m) => ~Prompt(w)
  /\ queue' = [queue EXCEPT ![m] = "visible"]
  /\ holder' = [w \in Workers |-> IF Holds(w, m) THEN [holder[w] EXCEPT !.current = FALSE]
                                  ELSE holder[w]]
  /\ UNCHANGED <<workflowVars, commands, incidents>>

\* work_once() after execute(): the completion is verified and the message deleted.  SQS may
\* ignore, refuse or still honour a handle that is no longer current.
Acknowledge(w) ==
  LET m == holder[w].message IN
  /\ At(w, "finished")
  /\ worker[w].mode = "job"
  /\ \/ queue' = [queue EXCEPT ![m] = "deleted"]
     \/ ~holder[w].current /\ UNCHANGED queue
  /\ holder' = [holder EXCEPT ![w] = Nothing]
  /\ worker' = [worker EXCEPT ![w] = Idle]
  /\ UNCHANGED <<ledger, row, checkpoint, lock, report, commands, incidents>>

\* The slip of deleting the message when the process leaves work_once() with an error.
GiveUp(w) ==
  LET m == holder[w].message IN
  /\ Exit(w)
  /\ holder' = [holder EXCEPT ![w] = Nothing]
  /\ queue' = IF m = Unused THEN queue ELSE [queue EXCEPT ![m] = "deleted"]
  /\ UNCHANGED <<commands, incidents>>

\* Errors retain the message for reconciliation.
Retain(w) ==
  /\ Exit(w)
  /\ holder' = [holder EXCEPT ![w] = Nothing]
  /\ UNCHANGED <<queue, commands, incidents>>

Command(w, r, mode) ==
  /\ commands < MaxCommands
  /\ commands' = commands + 1
  /\ Begin(w, r, mode)
  /\ UNCHANGED <<queue, holder, incidents>>

CommandEnds(w) ==
  /\ At(w, "finished")
  /\ worker[w].mode # "job"
  /\ worker' = [worker EXCEPT ![w] = Idle]
  /\ UNCHANGED <<ledger, row, checkpoint, lock, report, deliveryVars>>

ProcessStops(w) ==
  /\ incidents < MaxIncidents
  /\ incidents' = incidents + 1
  /\ Stop(w)
  /\ holder' = [holder EXCEPT ![w] = Nothing]
  /\ UNCHANGED <<queue, commands>>

UserEdits(r) ==
  /\ incidents < MaxIncidents
  /\ incidents' = incidents + 1
  /\ Edit(r)
  /\ UNCHANGED <<queue, holder, commands>>

WorkerStep(w) ==
  \/ worker[w].pc \notin Errors /\ Step(w) /\ UNCHANGED deliveryVars
  \/ Retain(w)
  \/ Acknowledge(w)
  \/ CommandEnds(w)

Next ==
  \/ \E m \in Messages : Submit(m) \/ Expire(m)
  \/ \E w \in Workers, m \in Messages : Receive(w, m)
  \/ \E w \in Workers, r \in Requests, mode \in {"workflow", "plain"} : Command(w, r, mode)
  \/ \E w \in Workers : WorkerStep(w) \/ ProcessStops(w)
  \/ \E r \in Requests : UserEdits(r)

\* A process that runs goes on; somebody polls the queue; a visibility time ends.
Fairness ==
  /\ \A w \in Workers : WF_vars(WorkerStep(w))
  /\ \A m \in Messages : /\ SF_vars(\E w \in Workers : Receive(w, m))
                         /\ WF_vars(Expire(m))

Spec == Init /\ [][Next]_vars /\ Fairness

-----------------------------------------------------------------------------

\* A message leaves the queue only when its work is durable: the outcome of the request is
\* remembered with the completion of its receipt, and every charge it reports is what the ledger
\* records, whatever the delivery that was acknowledged (sqs_jobs.py:97-103).
AcknowledgedIsRemembered ==
  \A m \in Messages : queue[m] = "deleted" =>
    LET r == RequestOf[m] IN
    /\ row[r] # Unused
    /\ row[r].remembered
    /\ row[r].completion = SavedCompletion(r)
    /\ \A i \in Operations :
         \/ row[r].result[i] = BudgetStopped
         \/ row[r].result[i] = ledger[r][i] /\ row[r].budget[i] = ledger[r][i]

\* What needs a person: an operation whose execution was interrupted, a thread that stopped
\* between its first checkpoints, a receipt a plain command overtook, a report file that is not
\* the report.
NeedsReconciliation(r) ==
  \/ \E i \in Operations : ledger[r][i] = Reserved
  \/ Overtaken(r)
  \/ checkpoint[r] = InputCheckpoint
  \/ report[r] \in {"partial", "edited"}

\* Every submitted job is acknowledged in the end, however often it was delivered, refused as
\* busy or interrupted, unless its run stays in need of reconciliation (sqs_jobs.py:76-103).
JobsAreAcknowledged ==
  \A m \in Messages :
    []<>~NeedsReconciliation(RequestOf[m]) => (queue[m] = "visible" ~> queue[m] = "deleted")
=============================================================================
