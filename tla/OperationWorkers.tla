--------------------------- MODULE OperationWorkers -------------------------
(***************************************************************************)
(* The workers that run budgeted operations (extraction_worker,            *)
(* direction_review_worker, direction_revision_worker, synthesis_worker    *)
(* and monthly_worker share one protocol): read the clock, reserve in the  *)
(* durable ledger, call the provider or run the backtest only if the       *)
(* reservation is new, retain the result, read the clock again, settle.    *)
(* An identity that is already settled is answered from the retained       *)
(* result, one that is reserved and not settled is refused as unresolved.  *)
(* A ledger call is what _mutate makes of it: lock the run's row and read  *)
(* the ledger, then compute the next ledger from what was read, write it   *)
(* and commit.  Nothing but the lock keeps two processes from computing it *)
(* from the same ledger.                                                   *)
(* Several processes may hold deliveries of the same command, a process    *)
(* may stop between any two steps, and a wall clock may show any instant   *)
(* when it is read.                                                        *)
(***************************************************************************)
EXTENDS RunBudget

CONSTANTS Workers, NoOperation, NoResult

\* A worker that measures nothing else can report a charge of zero.
ASSUME WorkersAssumption == 0 \in Costs

VARIABLES
  artifacts,  \* results retained in the artifact store
  worker,     \* each process: program counter, operation, clock reading, result
  locked,     \* the processes whose transaction holds the run's row FOR UPDATE
  seen,       \* the ledger each of these transactions read
  calls,      \* how often each identity was really executed (provider call or backtest)
  answers     \* the results ever returned to a caller for each identity

vars == <<ledger, artifacts, worker, locked, seen, calls, answers>>

Idle == [pc |-> "idle", op |-> NoOperation, at |-> 0, result |-> NoResult]

Init ==
  /\ InitBudget
  /\ artifacts = {}
  /\ worker = [w \in Workers |-> Idle]
  /\ locked = {}
  /\ seen = [w \in Workers |-> <<>>]
  /\ calls = [id \in OperationIds |-> 0]
  /\ answers = [id \in OperationIds |-> {}]

\* The slip of billing nothing for a provider call that reported no usage.
SettledCostOfNothing(op) == 0

\* The exact charge each worker reports: a backtest costs no LLM money, a provider call
\* has no bill.
SettledCost(op) == IF op.kind = "experiment" THEN 0 ELSE Unknown

-----------------------------------------------------------------------------
(* Transactions on the ledger *)

\* The slip of reading the row without FOR UPDATE: nobody waits for anybody.
ReadUnlocked(w) ==
  /\ worker[w].pc \in {"reserving", "settling"}
  /\ locked' = locked \cup {w}
  /\ seen' = [seen EXCEPT ![w] = ledger]
  /\ worker' = [worker EXCEPT ![w].pc = IF @ = "reserving" THEN "admitting" ELSE "recording"]
  /\ UNCHANGED <<ledger, artifacts, calls, answers>>

\* _mutate waits for the row lock and reads the ledger.
LockAndRead(w) ==
  /\ worker[w].pc \in {"reserving", "settling"}
  /\ locked = {}
  /\ locked' = {w}
  /\ seen' = [seen EXCEPT ![w] = ledger]
  /\ worker' = [worker EXCEPT ![w].pc = IF @ = "reserving" THEN "admitting" ELSE "recording"]
  /\ UNCHANGED <<ledger, artifacts, calls, answers>>

\* The transaction ends, by its commit or by an error, and so does its lock.
Unlock(w) ==
  /\ locked' = locked \ {w}
  /\ seen' = [seen EXCEPT ![w] = <<>>]

-----------------------------------------------------------------------------
(* One worker's steps *)

\* execute_*_operation reads the clock before it asks for the run's row lock.
Deliver(w, op, at) ==
  /\ worker[w].pc = "idle"
  /\ worker' = [worker EXCEPT ![w] = [Idle EXCEPT !.pc = "reserving", !.op = op, !.at = at]]
  /\ UNCHANGED <<ledger, artifacts, locked, seen, calls, answers>>

Release(w) == worker' = [worker EXCEPT ![w] = Idle] /\ Unlock(w)

\* A ledger's row for the very operation a worker holds.
RowOf(l, op) == {i \in DOMAIN l : l[i].operation = op}

\* reserve_operation granted the dispatch and committed the reservation.
Dispatch(w) ==
  LET op == worker[w].op IN
  /\ worker[w].pc = "admitting"
  /\ CanReserve(seen[w], op, worker[w].at)
  /\ ledger' = Reserved(seen[w], op, worker[w].at)
  /\ worker' = [worker EXCEPT ![w].pc = "dispatched"]
  /\ Unlock(w)
  /\ UNCHANGED <<artifacts, calls, answers>>

\* The slip of treating an unsettled reservation as this worker's own permission to run.
RefuseResumingPending(w) ==
  LET op == worker[w].op IN
  /\ worker[w].pc = "admitting"
  /\ ~CanReserve(seen[w], op, worker[w].at)
  /\ RowOf(seen[w], op) \cap ObservedRows(seen[w]) = {}
  /\ IF RowOf(seen[w], op) # {}
     THEN worker' = [worker EXCEPT ![w].pc = "dispatched"] /\ Unlock(w)
     ELSE Release(w)
  /\ UNCHANGED <<ledger, artifacts, calls, answers>>

\* The operation is unresolved, conflicts with its identity or is refused by the budget.
Refuse(w) ==
  LET op == worker[w].op IN
  /\ worker[w].pc = "admitting"
  /\ ~CanReserve(seen[w], op, worker[w].at)
  /\ RowOf(seen[w], op) \cap ObservedRows(seen[w]) = {}
  /\ Release(w)
  /\ UNCHANGED <<ledger, artifacts, calls, answers>>

\* The operation is settled: _recover reloads the retained bytes and answers from them.
Recover(w) ==
  LET op == worker[w].op IN
  /\ worker[w].pc = "admitting"
  /\ \E i \in RowOf(seen[w], op) \cap ObservedRows(seen[w]) :
       /\ seen[w][i].observation.result \in artifacts
       /\ answers' = [answers EXCEPT ![op.id] = @ \cup {seen[w][i].observation.result}]
  /\ Release(w)
  /\ UNCHANGED <<ledger, artifacts, calls>>

\* extract_source, review_direction, ... or run_monthly: the one external effect.
Call(w) ==
  /\ worker[w].pc = "dispatched"
  /\ calls' = [calls EXCEPT ![worker[w].op.id] = @ + 1]
  /\ \E result \in Results :
       worker' = [worker EXCEPT ![w].pc = "called", ![w].result = result]
  /\ UNCHANGED <<ledger, artifacts, locked, seen, answers>>

\* artifacts.put, then the clock is read for the settlement.
StoreResult(w, at) ==
  /\ worker[w].pc = "called"
  /\ artifacts' = artifacts \cup {worker[w].result}
  /\ worker' = [worker EXCEPT ![w].pc = "settling", ![w].at = at]
  /\ UNCHANGED <<ledger, locked, seen, calls, answers>>

\* The slip of answering although the ledger refused the observation.
SettleAnsweringAnyway(w) ==
  LET op == worker[w].op
      result == worker[w].result
  IN
  /\ worker[w].pc = "recording"
  /\ \E i \in RowOf(seen[w], op) :
       ledger' = IF CanSettle(seen[w], i, SettledCost(op), result, worker[w].at)
                 THEN Settled(seen[w], i, SettledCost(op), result, worker[w].at)
                 ELSE seen[w]
  /\ answers' = [answers EXCEPT ![op.id] = @ \cup {result}]
  /\ Release(w)
  /\ UNCHANGED <<artifacts, calls>>

\* settle_operation verifies the retained bytes inside the transaction, commits the
\* observation, then answers.
Settle(w) ==
  LET op == worker[w].op
      result == worker[w].result
  IN
  /\ worker[w].pc = "recording"
  /\ result \in artifacts
  /\ \E i \in RowOf(seen[w], op) :
       /\ CanSettle(seen[w], i, SettledCost(op), result, worker[w].at)
       /\ ledger' = Settled(seen[w], i, SettledCost(op), result, worker[w].at)
  /\ answers' = [answers EXCEPT ![op.id] = @ \cup {result}]
  /\ Release(w)
  /\ UNCHANGED <<artifacts, calls>>

\* settle_operation refused the observation: the reservation stays unresolved.
LoseSettlement(w) ==
  LET op == worker[w].op IN
  /\ worker[w].pc = "recording"
  /\ \A i \in RowOf(seen[w], op) :
       ~CanSettle(seen[w], i, SettledCost(op), worker[w].result, worker[w].at)
  /\ Release(w)
  /\ UNCHANGED <<ledger, artifacts, calls, answers>>

\* The process stops, or a step raises, before the next durable effect; an open transaction is
\* rolled back.
Crash(w) ==
  /\ worker[w].pc # "idle"
  /\ Release(w)
  /\ UNCHANGED <<ledger, artifacts, calls, answers>>

Next ==
  \E w \in Workers :
    \/ \E op \in Operations, at \in Times : Deliver(w, op, at)
    \/ LockAndRead(w)
    \/ Dispatch(w)
    \/ Refuse(w)
    \/ Recover(w)
    \/ Call(w)
    \/ \E at \in Times : StoreResult(w, at)
    \/ Settle(w)
    \/ LoseSettlement(w)
    \/ Crash(w)

Spec == Init /\ [][Next]_vars

-----------------------------------------------------------------------------
(* Properties *)

WorkerState ==
  [pc : {"idle", "reserving", "admitting", "dispatched", "called", "settling", "recording"},
   op : Operations \cup {NoOperation}, at : Times \cup {0}, result : Results \cup {NoResult}]

\* Every process, the ledger and the retained results keep their types; only an idle process
\* holds no operation, and only one whose call returned holds a result.
TypeOK ==
  /\ LedgerTypeOK
  /\ artifacts \subseteq Results
  /\ worker \in [Workers -> WorkerState]
  /\ locked \subseteq Workers
  /\ seen \in [Workers -> Seq(Row)]
  /\ calls \in [OperationIds -> Nat]
  /\ answers \in [OperationIds -> SUBSET Results]
  /\ \A w \in Workers :
       /\ worker[w].pc # "idle" => worker[w].op \in Operations /\ worker[w].at \in Times
       /\ worker[w].pc \in {"called", "settling", "recording"} => worker[w].result \in Results

\* No matter how deliveries, crashes, restarts and clocks interleave, an identity is executed
\* at most once, and never before its reservation is durable ("replay never dispatches
\* again", postgres_budgets.reserve_operation).
ExecutedOnce ==
  \A id \in OperationIds : calls[id] <= 1 /\ (calls[id] = 1 => Holds(ledger, id))

\* The operations that were really executed, each at its full worst-case charge, never exceed
\* the run's limit: a charge nobody measured keeps its reservation (every LLM worker settles
\* with an unknown cost), so money the provider may bill cannot be spent twice.
WorstCaseBillWithinBudget ==
  SumFunction([i \in DOMAIN ledger |-> calls[ledger[i].operation.id] * ledger[i].operation.max])
    <= MaxCost

\* At most one process ever works on an identity, and the reservation it works on is
\* pending until that process settles it: permission to execute is neither shared between
\* processes nor handed on after a crash.
Working(w) == worker[w].pc \in {"dispatched", "called", "settling", "recording"}

ExclusivePermission ==
  \A w \in Workers : Working(w) =>
    /\ \E i \in RowOf(ledger, worker[w].op) : ledger[i].observation = Pending
    /\ \A v \in Workers \ {w} : Working(v) => worker[v].op.id # worker[w].op.id
    /\ worker[w].pc = "dispatched" => calls[worker[w].op.id] = 0

\* Every caller that ever gets a result for an identity gets the one the ledger records, and
\* its bytes are retained: a retry returns the original answer, never a second sample.
AnswersAreRecorded ==
  \A id \in OperationIds : \A result \in answers[id] :
    /\ result \in artifacts
    /\ \E i \in ObservedRows(ledger) :
         ledger[i].operation.id = id /\ ledger[i].observation.result = result

\* The concurrent workers implement the serial ledger of RunBudget, though each computes the
\* next ledger from one it read some steps before: no reservation or observation is lost to a
\* write that did not see it (_mutate, postgres_budgets.py:95-131).
ImplementsRunBudget == BudgetSpec

=============================================================================
