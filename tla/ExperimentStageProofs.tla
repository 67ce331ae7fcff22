------------------------ MODULE ExperimentStageProofs -----------------------
(***************************************************************************)
(* Theorems about the experiment stage for every number of processes and   *)
(* candidates, every plan and every budget: it spends only through the     *)
(* durable budget, its backtests follow their reviews, and its reports say *)
(* what was settled.                                                       *)
(***************************************************************************)
EXTENDS ExperimentStage, RunBudgetProofs

-----------------------------------------------------------------------------
(* The operations of the stage *)

\* A part of a candidate names its operation, and what the operation may return follows from
\* the part.
LEMMA StageOperations ==
  ASSUME NEW c \in 1 .. Candidates, NEW part \in Parts
  PROVE  /\ Op(c, part) \in Operations \ Others
         /\ Op(c, part).id = <<c, part>> /\ Op(c, part).id[2] = part
         /\ Op(c, part) \in Experiments <=> part \in {"backtest", "amended"}
         /\ part \in {"backtest", "amended"} => ResultsOf(Op(c, part)) = {"completed", "failed"}
         /\ part = "review" => ResultsOf(Op(c, part)) = {"agrees", "disagrees", "unclear"}
         /\ part = "revision" => ResultsOf(Op(c, part)) = {"amended", "kept"}
         /\ \A d \in 1 .. Candidates, p \in Parts : Op(c, part) = Op(d, p) => c = d /\ part = p
<1>1. Op(c, part) \in Operations
  BY StageAssumption DEF StageAssumption
<1>2. Op(c, part).id = <<c, part>> /\ Op(c, part).id[2] = part
  BY DEF Op
<1>3. Op(c, part) \notin Others
  <2>1. <<c, part>> \in (1 .. Candidates) \X Parts
    OBVIOUS
  <2>2. \A op \in Others : op.id \notin (1 .. Candidates) \X Parts
    BY StageAssumption DEF StageAssumption
  <2>3. QED
    BY <1>2, <2>1, <2>2
<1>4. Op(c, part) \in Experiments <=> part \in {"backtest", "amended"}
  <2>1. Op(c, part).kind = IF part \in {"backtest", "amended"} THEN "experiment" ELSE "llm"
    BY DEF Op
  <2>2. QED
    BY <1>1, <2>1 DEF Experiments
<1>5. part \in {"backtest", "amended"} => ResultsOf(Op(c, part)) = {"completed", "failed"}
  <2>1. SUFFICES ASSUME part \in {"backtest", "amended"}
                 PROVE  ResultsOf(Op(c, part)) = {"completed", "failed"}
    OBVIOUS
  <2>2. Op(c, part) \in Experiments /\ Op(c, part).id[2] # "review"
    BY <1>2, <1>4, <2>1
  <2>3. QED
    BY <2>2 DEF ResultsOf
<1>6. part = "review" => ResultsOf(Op(c, part)) = {"agrees", "disagrees", "unclear"}
  BY <1>2, <1>4 DEF ResultsOf
<1>7. part = "revision" => ResultsOf(Op(c, part)) = {"amended", "kept"}
  <2>1. SUFFICES ASSUME part = "revision" PROVE ResultsOf(Op(c, part)) = {"amended", "kept"}
    OBVIOUS
  <2>2. Op(c, part) \notin Experiments /\ Op(c, part).id[2] # "review"
    BY <1>2, <1>4, <2>1
  <2>3. QED
    BY <2>2 DEF ResultsOf
<1>8. ASSUME NEW d \in 1 .. Candidates, NEW p \in Parts, Op(c, part) = Op(d, p)
      PROVE  c = d /\ part = p
  <2>1. <<c, part>> = <<d, p>>
    BY <1>8 DEF Op
  <2>2. QED
    BY <2>1
<1>9. QED
  BY <1>1, <1>2, <1>3, <1>4, <1>5, <1>6, <1>7, <1>8

\* What an operation of the stage returns is the name of a result, never an operation's.
LEMMA ResultTypes ==
  ASSUME NEW op \in Operations
  PROVE  /\ ResultsOf(op) \subseteq Results
         /\ "other" \in Results /\ Charge(op) \in Costs \cup {Unknown}
         /\ op \in Experiments => Charge(op) = 0
  BY StageAssumption DEF StageAssumption, ResultsOf, Charge

-----------------------------------------------------------------------------
(* Types *)

\* Only process w moves.
OnlyMoves(w) == worker' = [worker EXCEPT ![w] = worker'[w]]

\* A step that moves only the program counter.
LEMMA GoFields ==
  ASSUME TypeOK, NEW w \in Workers, NEW pc, Go(w, pc)
  PROVE  /\ OnlyMoves(w)
         /\ worker'[w] = [worker[w] EXCEPT !.pc = pc]
         /\ worker'[w] = [pc |-> pc, candidate |-> worker[w].candidate, op |-> worker[w].op,
                          at |-> worker[w].at, result |-> worker[w].result,
                          outcomes |-> worker[w].outcomes]
<1>1. worker \in [Workers -> WorkerState]
  BY DEF TypeOK
<1>2. OnlyMoves(w) /\ worker'[w] = [worker[w] EXCEPT !.pc = pc]
  BY <1>1 DEF Go, OnlyMoves
<1>3. worker[w] \in WorkerState
  BY <1>1
<1>4. QED
  BY <1>2, <1>3 DEF WorkerState

\* A process begins the next part of its candidate.
LEMMA EnterFields ==
  ASSUME TypeOK, NEW w \in Workers, NEW part, Enter(w, part)
  PROVE  /\ OnlyMoves(w)
         /\ worker'[w] =
              [pc |-> IF Op(worker[w].candidate, part) \in Experiments
                      THEN "locking" ELSE "reserving",
               candidate |-> worker[w].candidate, op |-> Op(worker[w].candidate, part),
               at |-> now, result |-> NoResult, outcomes |-> worker[w].outcomes]
<1>1. worker \in [Workers -> WorkerState]
  BY DEF TypeOK
<1>2. worker[w] \in WorkerState
  BY <1>1
<1>3. OnlyMoves(w)
  BY <1>1 DEF Enter, OnlyMoves
<1>4. worker'[w] =
        [worker[w] EXCEPT !.op = Op(worker[w].candidate, part), !.at = now, !.result = NoResult,
                          !.pc = IF Op(worker[w].candidate, part) \in Experiments
                                 THEN "locking" ELSE "reserving"]
  BY <1>1 DEF Enter
<1>5. QED
  BY <1>2, <1>3, <1>4 DEF WorkerState

\* A process ends its candidate.
LEMMA ConcludeFields ==
  ASSUME TypeOK, NEW w \in Workers, NEW status, NEW result, Conclude(w, status, result)
  PROVE  /\ OnlyMoves(w)
         /\ worker'[w] =
              [pc |-> "candidate", candidate |-> worker[w].candidate + 1, op |-> NoOperation,
               at |-> worker[w].at, result |-> NoResult,
               outcomes |-> Append(worker[w].outcomes,
                              [status |-> status, result |-> result,
                               part |-> IF worker[w].op = NoOperation THEN "none"
                                        ELSE worker[w].op.id[2]])]
<1>1. worker \in [Workers -> WorkerState]
  BY DEF TypeOK
<1>2. worker[w] \in WorkerState
  BY <1>1
<1>3. OnlyMoves(w)
  BY <1>1 DEF Conclude, OnlyMoves
<1>4. worker'[w] =
        [worker[w] EXCEPT !.pc = "candidate", !.candidate = @ + 1, !.op = NoOperation,
                          !.result = NoResult,
                          !.outcomes = Append(@, [status |-> status, result |-> result,
                                                  part |-> IF worker[w].op = NoOperation
                                                           THEN "none"
                                                           ELSE worker[w].op.id[2]])]
  BY <1>1 DEF Conclude
<1>5. QED
  BY <1>2, <1>3, <1>4 DEF WorkerState

\* A process gives up.
LEMMA AbortFields ==
  ASSUME TypeOK, NEW w \in Workers, Abort(w)
  PROVE  /\ OnlyMoves(w)
         /\ worker'[w] = Idle
  BY DEF TypeOK, Abort, OnlyMoves

\* Where each of these steps leaves the process.
LEMMA AfterGo ==
  ASSUME TypeOK, NEW w \in Workers, NEW pc, Go(w, pc)
  PROVE  /\ worker'[w].pc = pc /\ worker'[w].candidate = worker[w].candidate
         /\ worker'[w].op = worker[w].op /\ worker'[w].outcomes = worker[w].outcomes
<1>1. PICK r : r = worker'[w]
  OBVIOUS
<1>2. r = [pc |-> pc, candidate |-> worker[w].candidate, op |-> worker[w].op,
           at |-> worker[w].at, result |-> worker[w].result, outcomes |-> worker[w].outcomes]
  BY <1>1, GoFields
<1>3. QED
  BY <1>1, <1>2

\* Where a process is after it entered a part of its candidate.
LEMMA AfterEnter ==
  ASSUME TypeOK, NEW w \in Workers, NEW part, Enter(w, part)
  PROVE  /\ worker'[w].pc = IF Op(worker[w].candidate, part) \in Experiments
                            THEN "locking" ELSE "reserving"
         /\ worker'[w].candidate = worker[w].candidate
         /\ worker'[w].op = Op(worker[w].candidate, part)
         /\ worker'[w].outcomes = worker[w].outcomes
<1>1. PICK r, pc : /\ r = worker'[w]
                   /\ pc = IF Op(worker[w].candidate, part) \in Experiments
                           THEN "locking" ELSE "reserving"
  OBVIOUS
<1>2. r = [pc |-> pc, candidate |-> worker[w].candidate, op |-> Op(worker[w].candidate, part),
           at |-> now, result |-> NoResult, outcomes |-> worker[w].outcomes]
  BY <1>1, EnterFields
<1>3. QED
  BY <1>1, <1>2

\* Where a process is after it concluded a candidate.
LEMMA AfterConclude ==
  ASSUME TypeOK, NEW w \in Workers, NEW status, NEW result, Conclude(w, status, result)
  PROVE  /\ worker'[w].pc = "candidate" /\ worker'[w].op = NoOperation
         /\ worker'[w].outcomes =
              Append(worker[w].outcomes,
                     [status |-> status, result |-> result,
                      part |-> IF worker[w].op = NoOperation THEN "none"
                               ELSE worker[w].op.id[2]])
<1>1. PICK r, done :
        /\ r = worker'[w]
        /\ done = Append(worker[w].outcomes,
                         [status |-> status, result |-> result,
                          part |-> IF worker[w].op = NoOperation THEN "none"
                                   ELSE worker[w].op.id[2]])
  OBVIOUS
<1>2. r = [pc |-> "candidate", candidate |-> worker[w].candidate + 1, op |-> NoOperation,
           at |-> worker[w].at, result |-> NoResult, outcomes |-> done]
  BY <1>1, ConcludeFields
<1>3. QED
  BY <1>1, <1>2

\* Where a process is after it gave up.
LEMMA AfterAbort ==
  ASSUME TypeOK, NEW w \in Workers, Abort(w)
  PROVE  worker'[w].pc = "idle" /\ worker'[w].op = NoOperation /\ worker'[w].outcomes = << >>
<1>1. PICK r : r = worker'[w]
  OBVIOUS
<1>2. r = Idle
  BY <1>1, AbortFields
<1>3. QED
  BY <1>1, <1>2 DEF Idle

\* The types of one process.
WorkerOK(w) ==
  /\ worker[w] \in WorkerState
  /\ worker[w].pc \in {"idle", "candidate"} => worker[w].op = NoOperation
  /\ worker[w].pc \notin {"idle", "candidate"} =>
       /\ worker[w].candidate <= Candidates
       /\ worker[w].op \in {Op(worker[w].candidate, part) : part \in Parts}
  /\ worker[w].pc = "settling" => worker[w].result \in ResultsOf(worker[w].op)
  /\ Len(worker[w].outcomes) = worker[w].candidate - 1

\* The other processes stay where they are, and all keep their types if the one that moves does.
LEMMA OnlyMovesOthers ==
  ASSUME TypeOK, NEW w \in Workers, OnlyMoves(w)
  PROVE  /\ \A v \in Workers \ {w} : worker'[v] = worker[v]
         /\ WorkerOK(w)' => /\ worker' \in [Workers -> WorkerState]
                            /\ \A v \in Workers : WorkerOK(v)'
<1>1. worker \in [Workers -> WorkerState]
  BY DEF TypeOK
<1>2. \A v \in Workers \ {w} : worker'[v] = worker[v]
  BY <1>1 DEF OnlyMoves
<1>3. \A v \in Workers : WorkerOK(v)
  BY DEF TypeOK, WorkerOK
<1>4. ASSUME WorkerOK(w)' PROVE \A v \in Workers : WorkerOK(v)'
  BY <1>2, <1>3, <1>4 DEF WorkerOK
<1>5. ASSUME WorkerOK(w)' PROVE worker' \in [Workers -> WorkerState]
  BY <1>1, <1>5 DEF OnlyMoves, WorkerOK
<1>6. QED
  BY <1>2, <1>4, <1>5

\* The types of a process after each way to go on.
LEMMA GoTypes ==
  ASSUME TypeOK, NEW w \in Workers, NEW pc, Go(w, pc),
         pc \in {"entering", "reserving", "executing", "saving", "manifest", "finishing"},
         worker[w].pc \notin {"idle", "candidate"}
  PROVE  WorkerOK(w)'
<1>1. worker[w] \in WorkerState /\ WorkerOK(w)
  BY DEF TypeOK, WorkerOK
<1>2. worker'[w] = [pc |-> pc, candidate |-> worker[w].candidate, op |-> worker[w].op,
                    at |-> worker[w].at, result |-> worker[w].result,
                    outcomes |-> worker[w].outcomes]
  BY GoFields
<1>3. QED
  BY <1>1, <1>2 DEF WorkerOK, WorkerState

\* Entering a part keeps the types.
LEMMA EnterTypes ==
  ASSUME TypeOK, NEW w \in Workers, NEW part \in Parts, Enter(w, part),
         worker[w].candidate <= Candidates
  PROVE  WorkerOK(w)'
<1> DEFINE c == worker[w].candidate
           pc == IF Op(c, part) \in Experiments THEN "locking" ELSE "reserving"
<1>1. worker[w] \in WorkerState /\ WorkerOK(w) /\ now \in Times
  BY DEF TypeOK, WorkerOK
<1>2. worker'[w] = [pc |-> pc, candidate |-> c, op |-> Op(c, part), at |-> now,
                    result |-> NoResult, outcomes |-> worker[w].outcomes]
  BY EnterFields
<1>3. c \in 1 .. Candidates
  BY <1>1, StageAssumption DEF WorkerState, StageAssumption
<1>4. Op(c, part) \in Operations
  BY <1>3, StageOperations
<1>5. pc \in {"locking", "reserving"}
  OBVIOUS
<1> HIDE DEF pc
<1>6. QED
  BY <1>1, <1>2, <1>3, <1>4, <1>5 DEF WorkerOK, WorkerState

\* Concluding a candidate keeps the types.
LEMMA ConcludeTypes ==
  ASSUME TypeOK, NEW w \in Workers, NEW status \in Results \cup {"skipped", "budget_stopped"},
         NEW result \in Results \cup {NoResult}, Conclude(w, status, result),
         worker[w].candidate <= Candidates
  PROVE  WorkerOK(w)'
<1> DEFINE c == worker[w].candidate
           part == IF worker[w].op = NoOperation THEN "none" ELSE worker[w].op.id[2]
           outcome == [status |-> status, result |-> result, part |-> part]
           done == Append(worker[w].outcomes, outcome)
<1>1. worker[w] \in WorkerState /\ WorkerOK(w)
  BY DEF TypeOK, WorkerOK
<1>2. worker'[w] = [pc |-> "candidate", candidate |-> c + 1, op |-> NoOperation,
                    at |-> worker[w].at, result |-> NoResult, outcomes |-> done]
  BY ConcludeFields
<1>3. c \in 1 .. Candidates /\ Candidates \in Nat
  BY <1>1, StageAssumption DEF WorkerState, StageAssumption
<1>4. part \in Parts \cup {"none"}
  BY <1>1, <1>3, StageOperations DEF WorkerOK
<1> HIDE DEF part
<1>5. outcome \in Outcome
  BY <1>4 DEF Outcome
<1> HIDE DEF outcome
<1>6. worker[w].outcomes \in Seq(Outcome) /\ Len(worker[w].outcomes) = c - 1
  BY <1>1 DEF WorkerState, WorkerOK
<1>7. done \in Seq(Outcome) /\ Len(done) = c
  BY <1>3, <1>5, <1>6
<1> HIDE DEF done
<1>8. QED
  BY <1>1, <1>2, <1>3, <1>7 DEF WorkerOK, WorkerState

\* Giving up keeps the types.
LEMMA AbortTypes ==
  ASSUME TypeOK, NEW w \in Workers, Abort(w)
  PROVE  WorkerOK(w)'
<1>1. worker'[w] = Idle
  BY AbortFields
<1>2. 0 \in Times /\ Candidates \in Nat
  BY StageAssumption DEF StageAssumption
<1>3. << >> \in Seq(Outcome) /\ Len(<< >>) = 0
  OBVIOUS
<1>4. QED
  BY <1>1, <1>2, <1>3 DEF WorkerOK, WorkerState, Idle

\* What the loop does with a result.
LEMMA ContinueCases ==
  ASSUME NEW w, NEW result, Continue(w, result)
  PROVE  \/ result = "agrees" /\ Enter(w, "backtest")
         \/ result = "disagrees" /\ Plan = "iterative" /\ Enter(w, "revision")
         \/ result = "amended" /\ Enter(w, "amended")
         \/ result \in {"completed", "failed"} /\ Go(w, "saving")
         \/ result \notin {"agrees", "amended", "completed", "failed"}
              /\ Conclude(w, "skipped", NoResult)
  BY DEF Continue

\* Continuing with a result keeps the types.
LEMMA ContinueTypes ==
  ASSUME TypeOK, NEW w \in Workers, NEW result, Continue(w, result),
         worker[w].pc \notin {"idle", "candidate"}
  PROVE  WorkerOK(w)' /\ OnlyMoves(w)
<1>1. worker[w].candidate <= Candidates
  BY DEF TypeOK
<1>2. CASE result = "agrees" /\ Enter(w, "backtest")
  BY <1>1, <1>2, EnterTypes, EnterFields DEF Parts
<1>3. CASE result = "disagrees" /\ Plan = "iterative" /\ Enter(w, "revision")
  BY <1>1, <1>3, EnterTypes, EnterFields DEF Parts
<1>4. CASE result = "amended" /\ Enter(w, "amended")
  BY <1>1, <1>4, EnterTypes, EnterFields DEF Parts
<1>5. CASE Go(w, "saving")
  BY <1>1, <1>5, GoTypes, GoFields
<1>6. CASE Conclude(w, "skipped", NoResult)
  BY <1>1, <1>6, ConcludeTypes, ConcludeFields
<1>7. QED
  BY <1>2, <1>3, <1>4, <1>5, <1>6, ContinueCases

-----------------------------------------------------------------------------
(* Every step is a step of the durable budget, and keeps the types *)

\* A working process holds an operation of the stage, and reports a charge the ledger knows.
LEMMA WorkerOperation ==
  ASSUME TypeOK, NEW w \in Workers, worker[w].pc \notin {"idle", "candidate"}
  PROVE  /\ worker[w].candidate \in 1 .. Candidates
         /\ worker[w].op \in Operations \ Others
         /\ worker[w].at \in Times
         /\ Charge(worker[w].op) \in Costs \cup {Unknown}
         /\ ResultsOf(worker[w].op) \subseteq Results
         /\ \E part \in Parts : worker[w].op = Op(worker[w].candidate, part)
<1>1. worker[w] \in WorkerState /\ WorkerOK(w)
  BY DEF TypeOK, WorkerOK
<1>2. worker[w].candidate \in 1 .. Candidates
  BY <1>1, StageAssumption DEF WorkerState, WorkerOK, StageAssumption
<1>3. PICK part \in Parts : worker[w].op = Op(worker[w].candidate, part)
  BY <1>1 DEF WorkerOK
<1>4. worker[w].op \in Operations \ Others
  BY <1>2, <1>3, StageOperations
<1>5. Charge(worker[w].op) \in Costs \cup {Unknown} /\ ResultsOf(worker[w].op) \subseteq Results
  BY <1>4, ResultTypes
<1>6. QED
  BY <1>1, <1>2, <1>3, <1>4, <1>5 DEF WorkerState

\* What a process does to the ledger is a reservation or a settlement of the durable budget.
LEMMA StageSpends ==
  ASSUME TypeOK, NEW w \in Workers, Dispatch(w) \/ Settle(w)
  PROVE  NextBudget
<1>1. worker[w].pc \notin {"idle", "candidate"}
  BY DEF Dispatch, Settle
<1>2. /\ worker[w].op \in Operations /\ worker[w].at \in Times
      /\ Charge(worker[w].op) \in Costs \cup {Unknown}
      /\ ResultsOf(worker[w].op) \subseteq Results
  BY <1>1, WorkerOperation
<1>3. CASE Dispatch(w)
  <2>1. ReserveOperation(worker[w].op, worker[w].at)
    BY <1>3 DEF Dispatch
  <2>2. QED
    BY <1>2, <2>1 DEF NextBudget
<1>4. CASE Settle(w)
  <2>1. worker[w].result \in Results
    BY <1>2, <1>4 DEF Settle, TypeOK
  <2>2. PICK i \in RowOf(worker[w].op) :
          SettleOperation(i, Charge(worker[w].op), worker[w].result, worker[w].at)
    BY <1>4 DEF Settle
  <2>3. i \in DOMAIN ledger
    BY <2>2 DEF RowOf
  <2>4. QED
    BY <1>2, <2>1, <2>2, <2>3 DEF NextBudget
<1>5. QED
  BY <1>3, <1>4

\* So is what another command of the run does.
LEMMA OthersSpend ==
  ASSUME TypeOK, OtherCommand
  PROVE  NextBudget
<1>1. PICK op \in Others :
        \/ ReserveOperation(op, now)
        \/ \E i \in RowOf(op) : SettleOperation(i, Unknown, "other", now)
  BY DEF OtherCommand
<1>2. now \in Times /\ op \in Operations /\ "other" \in Results
  BY StageAssumption DEF TypeOK, StageAssumption
<1>3. CASE ReserveOperation(op, now)
  BY <1>2, <1>3 DEF NextBudget
<1>4. CASE \E i \in RowOf(op) : SettleOperation(i, Unknown, "other", now)
  BY <1>2, <1>4 DEF NextBudget, RowOf
<1>5. QED
  BY <1>1, <1>3, <1>4

\* The steps of a process that leave the ledger alone.
Local(w) ==
  \/ Start(w) \/ Consider(w) \/ Publish(w) \/ LockGraph(w) \/ EnterGraph(w)
  \/ SaveExecuted(w) \/ PublishManifest(w) \/ FinishGraph(w)
  \/ Replay(w) \/ Reject(w) \/ Execute(w) \/ SettleRejected(w) \/ Crash(w)

\* A step of a process alone spends nothing.
LEMMA LocalKeepsLedger ==
  ASSUME NEW w, Local(w)
  PROVE  UNCHANGED <<now, ledger>>
  BY DEF Local, Start, Consider, Publish, LockGraph, EnterGraph, SaveExecuted, PublishManifest,
     FinishGraph, Replay, Reject, Execute, SettleRejected, Crash

\* The stage and the other commands spend only through the durable budget.
LEMMA StepsAreBudgetSteps ==
  ASSUME TypeOK, [Next]_vars
  PROVE  [NextBudget]_ledger
<1>1. CASE \E w \in Workers : Dispatch(w) \/ Settle(w)
  BY <1>1, StageSpends
<1>2. CASE OtherCommand
  BY <1>2, OthersSpend
<1>3. CASE \E w \in Workers : Local(w)
  BY <1>3, LocalKeepsLedger
<1>4. CASE Tick \/ UNCHANGED vars
  BY <1>4 DEF Tick, vars
<1>5. QED
  BY <1>1, <1>2, <1>3, <1>4 DEF Next, Local

\* Where a process goes on once it holds the lock of its graph.
ResumedAt(status) ==
  CASE status = "none" -> "entering"
    [] status = "started" -> "reserving"
    [] status = "executed" -> "manifest"
    [] OTHER -> "finishing"

\* What locking a graph may change.
LEMMA LockFields ==
  ASSUME TypeOK, NEW w \in Workers, LockGraph(w)
  PROVE  \/ Abort(w) /\ UNCHANGED checkpoints
         \/ /\ ~GraphLocked(worker[w].op) /\ checkpoints[worker[w].op] # "input"
            /\ checkpoints' = [checkpoints EXCEPT
                 ![worker[w].op] = IF @ = "none" THEN "input" ELSE @]
            /\ OnlyMoves(w)
            /\ worker'[w] = [pc |-> ResumedAt(checkpoints[worker[w].op]),
                             candidate |-> worker[w].candidate, op |-> worker[w].op,
                             at |-> now, result |-> worker[w].result,
                             outcomes |-> worker[w].outcomes]
<1>1. worker \in [Workers -> WorkerState] /\ worker[w] \in WorkerState
  BY DEF TypeOK
<1>2. ASSUME ~(GraphLocked(worker[w].op) \/ checkpoints[worker[w].op] = "input")
      PROVE  /\ checkpoints' = [checkpoints EXCEPT
                  ![worker[w].op] = IF @ = "none" THEN "input" ELSE @]
             /\ OnlyMoves(w)
             /\ worker'[w] = [worker[w] EXCEPT !.at = now,
                                !.pc = ResumedAt(checkpoints[worker[w].op])]
  BY <1>1, <1>2 DEF LockGraph, OnlyMoves, ResumedAt
<1>3. ASSUME GraphLocked(worker[w].op) \/ checkpoints[worker[w].op] = "input"
      PROVE  Abort(w) /\ UNCHANGED checkpoints
  BY <1>3 DEF LockGraph
<1>4. QED
  BY <1>1, <1>2, <1>3 DEF WorkerState

\* The first node of a graph begins.
LEMMA EnterGraphFields ==
  ASSUME TypeOK, NEW w \in Workers, EnterGraph(w)
  PROVE  /\ OnlyMoves(w)
         /\ worker'[w] = [pc |-> "reserving", candidate |-> worker[w].candidate,
                          op |-> worker[w].op, at |-> now, result |-> worker[w].result,
                          outcomes |-> worker[w].outcomes]
<1>1. worker \in [Workers -> WorkerState] /\ worker[w] \in WorkerState
  BY DEF TypeOK
<1>2. OnlyMoves(w) /\ worker'[w] = [worker[w] EXCEPT !.pc = "reserving", !.at = now]
  BY <1>1 DEF EnterGraph, OnlyMoves
<1>3. QED
  BY <1>1, <1>2 DEF WorkerState

\* An operation ends.
LEMMA ExecuteFields ==
  ASSUME TypeOK, NEW w \in Workers, Execute(w)
  PROVE  /\ OnlyMoves(w)
         /\ \E result \in ResultsOf(worker[w].op) :
              worker'[w] = [pc |-> "settling", candidate |-> worker[w].candidate,
                            op |-> worker[w].op, at |-> now, result |-> result,
                            outcomes |-> worker[w].outcomes]
<1>1. worker \in [Workers -> WorkerState] /\ worker[w] \in WorkerState
  BY DEF TypeOK
<1>2. PICK result \in ResultsOf(worker[w].op) :
        worker' = [worker EXCEPT ![w].pc = "settling", ![w].at = now, ![w].result = result]
  BY DEF Execute
<1>3. OnlyMoves(w)
  BY <1>1, <1>2 DEF OnlyMoves
<1>4. worker'[w] = [worker[w] EXCEPT !.pc = "settling", !.at = now, !.result = result]
  BY <1>1, <1>2
<1>5. QED
  BY <1>1, <1>3, <1>4 DEF WorkerState

\* Where a process is after it locked a graph.
LEMMA AfterLock ==
  ASSUME TypeOK, NEW w \in Workers, LockGraph(w)
  PROVE  \/ Abort(w) /\ UNCHANGED checkpoints
         \/ /\ ~GraphLocked(worker[w].op) /\ checkpoints[worker[w].op] # "input"
            /\ checkpoints' = [checkpoints EXCEPT
                 ![worker[w].op] = IF @ = "none" THEN "input" ELSE @]
            /\ worker'[w].pc = ResumedAt(checkpoints[worker[w].op])
            /\ worker'[w].candidate = worker[w].candidate /\ worker'[w].op = worker[w].op
            /\ worker'[w].outcomes = worker[w].outcomes
<1>1. PICK r, pc : r = worker'[w] /\ pc = ResumedAt(checkpoints[worker[w].op])
  OBVIOUS
<1>2. CASE r = [pc |-> pc, candidate |-> worker[w].candidate, op |-> worker[w].op,
                at |-> now, result |-> worker[w].result, outcomes |-> worker[w].outcomes]
  <2>1. /\ r.pc = pc /\ r.candidate = worker[w].candidate /\ r.op = worker[w].op
        /\ r.outcomes = worker[w].outcomes
    BY <1>2
  <2>2. QED
    BY <1>1, <2>1, LockFields
<1>3. CASE ~(r = [pc |-> pc, candidate |-> worker[w].candidate, op |-> worker[w].op,
                  at |-> now, result |-> worker[w].result, outcomes |-> worker[w].outcomes])
  BY <1>1, <1>3, LockFields
<1>4. QED
  BY <1>2, <1>3

\* Where a process is after it entered a graph.
LEMMA AfterEnterGraph ==
  ASSUME TypeOK, NEW w \in Workers, EnterGraph(w)
  PROVE  /\ worker'[w].pc = "reserving" /\ worker'[w].candidate = worker[w].candidate
         /\ worker'[w].op = worker[w].op /\ worker'[w].outcomes = worker[w].outcomes
<1>1. PICK r : r = worker'[w]
  OBVIOUS
<1>2. r = [pc |-> "reserving", candidate |-> worker[w].candidate, op |-> worker[w].op,
           at |-> now, result |-> worker[w].result, outcomes |-> worker[w].outcomes]
  BY <1>1, EnterGraphFields
<1>3. QED
  BY <1>1, <1>2

\* Where a process is after it executed its operation.
LEMMA AfterExecute ==
  ASSUME TypeOK, NEW w \in Workers, Execute(w)
  PROVE  /\ worker'[w].pc = "settling" /\ worker'[w].candidate = worker[w].candidate
         /\ worker'[w].op = worker[w].op /\ worker'[w].outcomes = worker[w].outcomes
<1>1. PICK r, result :
        /\ r = worker'[w]
        /\ r = [pc |-> "settling", candidate |-> worker[w].candidate, op |-> worker[w].op,
                at |-> now, result |-> result, outcomes |-> worker[w].outcomes]
  BY ExecuteFields
<1>2. QED
  BY <1>1

\* What the ledger records is a result.
LEMMA RecordedTypes ==
  ASSUME TypeOK, NEW op
  PROVE  Recorded(op) \subseteq Results
<1>1. SUFFICES ASSUME NEW i \in RowOf(op) \cap ObservedRows(ledger)
               PROVE  ledger[i].observation.result \in Results
  BY DEF Recorded
<1>2. ledger[i] \in Row /\ ledger[i].observation # Pending
  BY DEF ObservedRows, TypeOK, LedgerTypeOK
<1>3. ledger[i].observation \in Observation
  BY <1>2 DEF Row
<1>4. QED
  BY <1>3 DEF Observation

Started == {"none", "input", "started", "executed", "published"}

\* A process changes the checkpoint of no graph but its own.
LEMMA CheckpointTypes ==
  ASSUME TypeOK, NEW op, NEW status \in Started,
         checkpoints' = [checkpoints EXCEPT ![op] = status]
  PROVE  checkpoints' \in [Experiments -> Started]
  BY DEF TypeOK, Started

\* Each step of a process keeps its types and those of checkpoints and reports.
LEMMA ProcessTypes ==
  ASSUME TypeOK, NEW w \in Workers, Local(w) \/ Dispatch(w) \/ Settle(w)
  PROVE  /\ OnlyMoves(w) /\ WorkerOK(w)'
         /\ checkpoints' \in [Experiments -> Started]
         /\ reports' \subseteq Seq(Outcome)
         /\ now' \in Times
<1>1. /\ worker[w] \in WorkerState /\ WorkerOK(w) /\ now \in Times
      /\ checkpoints \in [Experiments -> Started] /\ reports \subseteq Seq(Outcome)
  BY DEF TypeOK, WorkerOK, Started
<1>2. /\ worker[w].pc \notin {"idle", "candidate"} =>
           /\ worker[w].candidate <= Candidates
           /\ ResultsOf(worker[w].op) \subseteq Results
  BY WorkerOperation DEF TypeOK
<1> USE <1>1, <1>2
<1>3. CASE Start(w)
  <2>1. worker'[w] = [pc |-> "candidate", candidate |-> worker[w].candidate,
                      op |-> worker[w].op, at |-> worker[w].at, result |-> worker[w].result,
                      outcomes |-> worker[w].outcomes] /\ OnlyMoves(w)
    BY <1>3, GoFields DEF Start
  <2>2. worker[w].pc = "idle"
    BY <1>3 DEF Start
  <2>3. WorkerOK(w)'
    BY <2>1, <2>2 DEF WorkerOK, WorkerState
  <2>4. QED
    BY <1>3, <2>1, <2>3 DEF Start
<1>4. CASE Consider(w)
  <2>1. worker[w].candidate <= Candidates
    BY <1>4 DEF Consider
  <2>2. (\E part \in Parts : Enter(w, part)) \/ Conclude(w, "skipped", NoResult)
    BY <1>4 DEF Consider, Parts
  <2>3. WorkerOK(w)' /\ OnlyMoves(w)
    BY <2>1, <2>2, EnterTypes, EnterFields, ConcludeTypes, ConcludeFields
  <2>4. QED
    BY <1>4, <2>3 DEF Consider
<1>5. CASE Publish(w)
  <2>1. WorkerOK(w)' /\ OnlyMoves(w)
    BY <1>5, AbortTypes, AbortFields DEF Publish
  <2>2. worker[w].outcomes \in Seq(Outcome)
    BY DEF WorkerState
  <2>3. QED
    BY <1>5, <2>1, <2>2 DEF Publish
<1>6. CASE LockGraph(w)
  <2>1. UNCHANGED <<now, reports>> /\ worker[w].pc = "locking"
    BY <1>6 DEF LockGraph
  <2>2. CASE Abort(w) /\ UNCHANGED checkpoints
    BY <2>1, <2>2, AbortTypes, AbortFields
  <2>3. CASE /\ checkpoints' = [checkpoints EXCEPT
                  ![worker[w].op] = IF @ = "none" THEN "input" ELSE @]
             /\ OnlyMoves(w)
             /\ worker'[w] = [pc |-> ResumedAt(checkpoints[worker[w].op]),
                              candidate |-> worker[w].candidate, op |-> worker[w].op,
                              at |-> now, result |-> worker[w].result,
                              outcomes |-> worker[w].outcomes]
    <3>1. ResumedAt(checkpoints[worker[w].op])
            \in {"entering", "reserving", "manifest", "finishing"}
      BY DEF ResumedAt
    <3>2. WorkerOK(w)'
      BY <2>1, <2>3, <3>1 DEF WorkerOK, WorkerState
    <3>3. checkpoints' \in [Experiments -> Started]
      BY <2>3 DEF Started
    <3>4. QED
      BY <2>1, <2>3, <3>2, <3>3
  <2>4. QED
    BY <1>6, <2>2, <2>3, LockFields
<1>7. CASE EnterGraph(w)
  <2>1. worker[w].pc = "entering" /\ UNCHANGED <<now, reports>>
    BY <1>7 DEF EnterGraph
  <2>2. checkpoints' \in [Experiments -> Started]
    BY <1>7, CheckpointTypes DEF EnterGraph, Started
  <2>3. OnlyMoves(w)
    BY <1>7, EnterGraphFields
  <2>4. worker'[w] = [pc |-> "reserving", candidate |-> worker[w].candidate,
                      op |-> worker[w].op, at |-> now, result |-> worker[w].result,
                      outcomes |-> worker[w].outcomes]
    BY <1>7, EnterGraphFields
  <2>5. WorkerOK(w)'
    BY <2>1, <2>4 DEF WorkerOK, WorkerState
  <2>6. QED
    BY <2>1, <2>2, <2>3, <2>5
<1>8. CASE SaveExecuted(w)
  <2>1. worker[w].pc = "saving" /\ UNCHANGED <<now, reports>> /\ Go(w, "manifest")
    BY <1>8 DEF SaveExecuted
  <2>2. checkpoints' \in [Experiments -> Started]
    BY <1>8, CheckpointTypes DEF SaveExecuted, Started
  <2>3. QED
    BY <2>1, <2>2, GoTypes, GoFields
<1>9. CASE PublishManifest(w)
  <2>1. worker[w].pc = "manifest" /\ UNCHANGED <<now, reports>>
    BY <1>9 DEF PublishManifest
  <2>2. checkpoints' \in [Experiments -> Started]
    BY <1>9, CheckpointTypes DEF PublishManifest, Started
  <2>3. Abort(w) \/ Go(w, "finishing")
    BY <1>9 DEF PublishManifest
  <2>4. WorkerOK(w)' /\ OnlyMoves(w)
    BY <2>1, <2>3, GoTypes, GoFields, AbortTypes, AbortFields
  <2>5. QED
    BY <2>1, <2>2, <2>4
<1>10. CASE FinishGraph(w)
  <2>1. worker[w].pc = "finishing" /\ UNCHANGED <<now, checkpoints, reports>>
    BY <1>10 DEF FinishGraph
  <2>2. PICK result \in Recorded(worker[w].op) : Conclude(w, result, result)
    BY <1>10 DEF FinishGraph
  <2>3. result \in Results
    BY RecordedTypes
  <2>4. QED
    BY <2>1, <2>2, <2>3, ConcludeTypes, ConcludeFields
<1>11. CASE Replay(w)
  <2>1. worker[w].pc = "reserving" /\ UNCHANGED <<now, checkpoints, reports>>
    BY <1>11 DEF Replay
  <2>2. Abort(w) \/ \E result \in Recorded(worker[w].op) : Continue(w, result)
    BY <1>11 DEF Replay
  <2>3. QED
    BY <2>1, <2>2, ContinueTypes, AbortTypes, AbortFields
<1>12. CASE Reject(w)
  BY <1>12, ConcludeTypes, ConcludeFields DEF Reject
<1>13. CASE Execute(w)
  <2>1. worker[w].pc = "executing" /\ UNCHANGED <<now, checkpoints, reports>>
    BY <1>13 DEF Execute
  <2>2. PICK result \in ResultsOf(worker[w].op) :
          worker'[w] = [pc |-> "settling", candidate |-> worker[w].candidate,
                        op |-> worker[w].op, at |-> now, result |-> result,
                        outcomes |-> worker[w].outcomes]
    BY <1>13, ExecuteFields
  <2>3. result \in Results /\ OnlyMoves(w)
    BY <1>13, <2>1, ExecuteFields
  <2>4. WorkerOK(w)'
    BY <2>1, <2>2, <2>3 DEF WorkerOK, WorkerState
  <2>5. QED
    BY <2>1, <2>3, <2>4
<1>14. CASE SettleRejected(w)
  BY <1>14, ConcludeTypes, ConcludeFields DEF SettleRejected
<1>15. CASE Crash(w)
  BY <1>15, AbortTypes, AbortFields DEF Crash
<1>16. CASE Dispatch(w)
  BY <1>16, GoTypes, GoFields DEF Dispatch
<1>17. CASE Settle(w)
  BY <1>17, ContinueTypes DEF Settle
<1>18. QED
  BY <1>3, <1>4, <1>5, <1>6, <1>7, <1>8, <1>9, <1>10, <1>11, <1>12, <1>13, <1>14, <1>15, <1>16,
     <1>17 DEF Local

\* Clock, processes, checkpoints, ledger and reports keep their types in every step.
LEMMA NextKeepsType ==
  ASSUME TypeOK, [Next]_vars
  PROVE  TypeOK'
<1>1. LedgerTypeOK'
  BY StepsAreBudgetSteps, BudgetKeepsType DEF TypeOK
<1>2. CASE \E w \in Workers : Local(w) \/ Dispatch(w) \/ Settle(w)
  <2>1. PICK w \in Workers : Local(w) \/ Dispatch(w) \/ Settle(w)
    BY <1>2
  <2>2. /\ OnlyMoves(w) /\ WorkerOK(w)' /\ checkpoints' \in [Experiments -> Started]
        /\ reports' \subseteq Seq(Outcome) /\ now' \in Times
    BY <2>1, ProcessTypes
  <2>3. worker' \in [Workers -> WorkerState] /\ \A v \in Workers : WorkerOK(v)'
    BY <2>2, OnlyMovesOthers
  <2>4. QED
    BY <1>1, <2>2, <2>3 DEF TypeOK, WorkerOK, Started
<1>3. CASE Tick \/ OtherCommand \/ UNCHANGED vars
  <2>1. UNCHANGED <<checkpoints, worker, reports>> /\ now' \in Times
    BY <1>3 DEF Tick, OtherCommand, vars, TypeOK
  <2>2. QED
    BY <1>1, <2>1 DEF TypeOK
<1>4. QED
  BY <1>2, <1>3 DEF Next, Local

\* Every process, ledger, checkpoint and report keeps its type, for any number of processes
\* and candidates.
THEOREM TypeCorrect == Spec => []TypeOK
<1>1. Init => TypeOK
  <2>1. SUFFICES ASSUME Init PROVE TypeOK
    OBVIOUS
  <2>2. 0 \in Times /\ Candidates \in Nat /\ NoOperation \notin Operations
    BY StageAssumption DEF StageAssumption
  <2>3. << >> \in Seq(Outcome) /\ Len(<< >>) = 0
    OBVIOUS
  <2>4. Idle \in WorkerState
    BY <2>2, <2>3 DEF Idle, WorkerState
  <2>5. worker \in [Workers -> WorkerState] /\ \A w \in Workers : worker[w] = Idle
    BY <2>1, <2>4 DEF Init
  <2>6. LedgerTypeOK
    BY <2>1 DEF Init, InitBudget, LedgerTypeOK
  <2>7. QED
    BY <2>1, <2>2, <2>3, <2>5, <2>6 DEF Init, TypeOK, Idle
<1>2. TypeOK /\ [Next]_vars => TypeOK'
  BY NextKeepsType
<1>3. QED
  BY <1>1, <1>2, PTL DEF Spec

\* The stage of any number of processes, with the other commands of its run, implements the
\* durable budget (research_experiments executes every operation through its worker).
LEMMA StageImplementsRunBudget == Spec => BudgetSpec
<1>1. Init => InitBudget
  BY DEF Init
<1>2. TypeOK /\ [Next]_vars => [NextBudget]_ledger
  BY StepsAreBudgetSteps
<1>3. QED
  BY <1>1, <1>2, TypeCorrect, PTL DEF Spec, BudgetSpec

-----------------------------------------------------------------------------
(* What a step of the durable budget does to the rows and to what they record *)

\* A reservation adds one pending row.
LEMMA ReserveRow ==
  ASSUME LedgerTypeOK, NEW op, NEW at, ReserveOperation(op, at)
  PROVE  /\ DOMAIN ledger' = DOMAIN ledger \cup {Len(ledger) + 1}
         /\ Len(ledger) + 1 \notin DOMAIN ledger
         /\ \A i \in DOMAIN ledger : ledger'[i] = ledger[i]
         /\ ledger'[Len(ledger) + 1].operation = op
         /\ ObservedRows(ledger') = ObservedRows(ledger)
<1> DEFINE after == Reserved(ledger, op, at)
<1>1. ledger \in Seq(Row) /\ ledger' = after
  BY DEF LedgerTypeOK, ReserveOperation
<1>2. /\ DOMAIN after = DOMAIN ledger \cup {Len(ledger) + 1}
      /\ Len(ledger) + 1 \notin DOMAIN ledger
      /\ \A i \in DOMAIN ledger : after[i] = ledger[i]
  BY <1>1 DEF Reserved
<1>3. after[Len(ledger) + 1] =
        [operation |-> op, reservedAt |-> at, sequence |-> NextSequence(ledger),
         observation |-> Pending]
  BY <1>1 DEF Reserved
<1>4. ObservedRows(after) = ObservedRows(ledger)
  BY <1>1, ReservedObserves
<1> HIDE DEF after
<1>5. after[Len(ledger) + 1].operation = op
  BY <1>3
<1>6. QED
  BY <1>1, <1>2, <1>4, <1>5

\* A settlement observes one pending row.
LEMMA SettleRow ==
  ASSUME LedgerTypeOK, NEW i \in DOMAIN ledger, NEW cost \in Costs \cup {Unknown},
         NEW result \in Results, NEW at \in Times, SettleOperation(i, cost, result, at)
  PROVE  /\ DOMAIN ledger' = DOMAIN ledger
         /\ \A j \in DOMAIN ledger : j # i => ledger'[j] = ledger[j]
         /\ ledger'[i].operation = ledger[i].operation
         /\ ledger'[i].observation.result = result
         /\ i \notin ObservedRows(ledger)
         /\ ObservedRows(ledger') = ObservedRows(ledger) \cup {i}
<1> DEFINE after == Settled(ledger, i, cost, result, at)
<1>1. /\ ledger \in Seq(Row) /\ ledger' = after
      /\ CanSettle(ledger, i, cost, result, at) /\ ledger[i].observation = Pending
      /\ ledger[i] \in Row
  BY DEF LedgerTypeOK, SettleOperation, CanSettle
<1>2. /\ DOMAIN after = DOMAIN ledger
      /\ \A j \in DOMAIN ledger : j # i => after[j] = ledger[j]
  BY <1>1 DEF Settled
<1>3. after[i] =
        [operation |-> ledger[i].operation, reservedAt |-> ledger[i].reservedAt,
         sequence |-> ledger[i].sequence,
         observation |-> [cost |-> cost, result |-> result, at |-> at,
                          sequence |-> NextSequence(ledger)]]
  BY <1>1 DEF Settled, Row
<1>4. ledger \in Seq(Row) /\ CanSettle(ledger, i, cost, result, at)
  BY <1>1
<1>5. ObservedRows(after) = ObservedRows(ledger) \cup {i}
  BY <1>4, SettleObserves
<1> HIDE DEF after
<1>6. after[i].operation = ledger[i].operation /\ after[i].observation.result = result
  BY <1>3
<1>7. QED
  BY <1>1, <1>2, <1>5, <1>6 DEF ObservedRows

\* An operation has one row, and so at most one recorded result.
LEMMA RecordedOnce ==
  ASSUME CoherentInv
  PROVE  /\ \A op : \A i, j \in RowOf(op) : i = j
         /\ \A op, x : x \in Recorded(op) => Recorded(op) = {x}
<1>1. \A i, j \in DOMAIN ledger : i # j => ledger[i].operation.id # ledger[j].operation.id
  BY DEF CoherentInv, Coherent, WithinInventory
<1>2. \A op : \A i, j \in RowOf(op) : i = j
  BY <1>1 DEF RowOf
<1>3. QED
  BY <1>2 DEF Recorded

\* What is recorded stays recorded, and nothing is recorded beside it.
LEMMA RecordedStays ==
  ASSUME CoherentInv, [NextBudget]_ledger
  PROVE  \A op, x : Recorded(op) = {x} => Recorded(op)' = {x}
<1>1. LedgerTypeOK
  BY DEF CoherentInv
<1>2. ASSUME NEW at \in Times, NEW new \in Operations, ReserveOperation(new, at), NEW op
      PROVE  Recorded(op)' = Recorded(op)
  <2>1. /\ DOMAIN ledger' = DOMAIN ledger \cup {Len(ledger) + 1}
        /\ Len(ledger) + 1 \notin DOMAIN ledger
        /\ \A i \in DOMAIN ledger : ledger'[i] = ledger[i]
        /\ ObservedRows(ledger') = ObservedRows(ledger)
    BY <1>1, <1>2, ReserveRow
  <2>2. ObservedRows(ledger) \subseteq DOMAIN ledger
    BY DEF ObservedRows
  <2>3. RowOf(op)' \cap ObservedRows(ledger') = RowOf(op) \cap ObservedRows(ledger)
    BY <2>1, <2>2 DEF RowOf
  <2>4. QED
    BY <2>1, <2>2, <2>3 DEF Recorded
<1>3. ASSUME NEW at \in Times, NEW i \in DOMAIN ledger, NEW cost \in Costs \cup {Unknown},
             NEW result \in Results, SettleOperation(i, cost, result, at),
             NEW op, NEW x, Recorded(op) = {x}
      PROVE  Recorded(op)' = {x}
  <2>1. /\ DOMAIN ledger' = DOMAIN ledger
        /\ \A j \in DOMAIN ledger : j # i => ledger'[j] = ledger[j]
        /\ ledger'[i].operation = ledger[i].operation
        /\ i \notin ObservedRows(ledger)
        /\ ObservedRows(ledger') = ObservedRows(ledger) \cup {i}
    BY <1>1, <1>3, SettleRow
  <2>2. PICK k \in RowOf(op) \cap ObservedRows(ledger) : ledger[k].observation.result = x
    BY <1>3 DEF Recorded
  <2>3. i \notin RowOf(op)
    BY <2>1, <2>2, RecordedOnce
  <2>4. RowOf(op)' = RowOf(op)
    BY <2>1 DEF RowOf
  <2>5. RowOf(op)' \cap ObservedRows(ledger') = RowOf(op) \cap ObservedRows(ledger)
    BY <2>1, <2>3, <2>4
  <2>6. \A j \in RowOf(op) : ledger'[j] = ledger[j]
    BY <2>1, <2>3 DEF RowOf
  <2>7. Recorded(op)' = Recorded(op)
    BY <2>5, <2>6 DEF Recorded
  <2>8. QED
    BY <1>3, <2>7
<1>4. CASE UNCHANGED ledger
  BY <1>4 DEF Recorded, RowOf
<1>5. QED
  BY <1>2, <1>3, <1>4 DEF NextBudget

\* A settlement records its result.
LEMMA SettledRecords ==
  ASSUME CoherentInv, NEW op, NEW i \in RowOf(op), NEW cost \in Costs \cup {Unknown},
         NEW result \in Results, NEW at \in Times, SettleOperation(i, cost, result, at)
  PROVE  Recorded(op)' = {result}
<1>1. LedgerTypeOK /\ i \in DOMAIN ledger
  BY DEF CoherentInv, RowOf
<1>2. /\ DOMAIN ledger' = DOMAIN ledger
      /\ \A j \in DOMAIN ledger : j # i => ledger'[j] = ledger[j]
      /\ ledger'[i].operation = ledger[i].operation
      /\ ledger'[i].observation.result = result
      /\ ObservedRows(ledger') = ObservedRows(ledger) \cup {i}
  BY <1>1, SettleRow
<1>3. RowOf(op)' = RowOf(op)
  BY <1>1, <1>2 DEF RowOf
<1>4. RowOf(op) = {i}
  BY RecordedOnce
<1>5. RowOf(op)' \cap ObservedRows(ledger') = {i}
  BY <1>2, <1>3, <1>4
<1>6. QED
  BY <1>2, <1>5 DEF Recorded

-----------------------------------------------------------------------------
(* Backtests follow reviews *)

\* A process that works on an operation, and one that has passed its graph's lock.
Busy(w) == worker[w].pc \notin {"idle", "candidate"}

InGraph(w) == Busy(w) /\ worker[w].pc # "locking"

\* What must be recorded before a part of candidate c may run.
Cleared(c, part) ==
  /\ c \in Compiled
  /\ part \in Parts
  /\ part = "review" => Plan # "plain"
  /\ part = "revision" => Recorded(Op(c, "review")) = {"disagrees"}
  /\ part = "backtest" /\ Plan # "plain" => Recorded(Op(c, "review")) = {"agrees"}
  /\ part = "amended" =>
       Recorded(Op(c, "review")) = {"disagrees"} /\ Recorded(Op(c, "revision")) = {"amended"}

ClearedAt(w) ==
  Busy(w) =>
    \E part \in Parts :
      worker[w].op = Op(worker[w].candidate, part) /\ Cleared(worker[w].candidate, part)

ClearedWork == \A w \in Workers : ClearedAt(w)

ClearedRows ==
  \A i \in DOMAIN ledger : \A c \in 1 .. Candidates, part \in Parts :
    ledger[i].operation = Op(c, part) => Cleared(c, part)

\* The ledger records for an operation of the stage only what that operation may return.
FittingResults ==
  \A i \in ObservedRows(ledger) :
    ledger[i].operation \notin Others =>
      ledger[i].observation.result \in ResultsOf(ledger[i].operation)

ReviewInv == ClearedWork /\ ClearedRows /\ FittingResults

\* What cleared a part stays recorded.
LEMMA ClearedStays ==
  ASSUME CoherentInv, [NextBudget]_ledger, NEW c, NEW part, Cleared(c, part)
  PROVE  Cleared(c, part)'
<1>1. \A op, x : Recorded(op) = {x} => Recorded(op)' = {x}
  BY RecordedStays
<1>2. ASSUME NEW p, NEW x, Recorded(Op(c, p)) = {x}
      PROVE  Recorded(Op(c, p))' = {x}
  <2>1. PICK op : op = Op(c, p)
    OBVIOUS
  <2>2. Recorded(op)' = {x}
    BY <1>1, <1>2, <2>1
  <2>3. QED
    BY <2>1, <2>2 DEF Recorded, RowOf
<1>3. QED
  BY <1>2 DEF Cleared

\* The loop goes on with a part that its last result clears.
LEMMA ContinueClears ==
  ASSUME TypeOK, CoherentInv, [NextBudget]_ledger, NEW w \in Workers, NEW c, NEW part \in Parts,
         c = worker[w].candidate, worker[w].op = Op(c, part), Cleared(c, part),
         NEW result \in ResultsOf(Op(c, part)), Recorded(Op(c, part))' = {result},
         worker[w].pc \notin {"idle", "candidate"}, Continue(w, result), Busy(w)'
  PROVE  /\ worker'[w].candidate = c
         /\ \E p \in Parts : worker'[w].op = Op(c, p) /\ Cleared(c, p)'
<1>1. /\ c \in 1 .. Candidates /\ c \in Compiled
      /\ part = "review" => Plan # "plain"
  BY WorkerOperation DEF Cleared
<1>2. /\ part \in {"backtest", "amended"} => result \in {"completed", "failed"}
      /\ part = "review" => result \in {"agrees", "disagrees", "unclear"}
      /\ part = "revision" => result \in {"amended", "kept"}
  BY <1>1, StageOperations
<1>3. Cleared(c, part)'
  BY ClearedStays
<1>4. CASE result = "agrees" /\ Enter(w, "backtest")
  <2>1. part = "review"
    BY <1>2, <1>4 DEF Parts
  <2>2. Cleared(c, "backtest")'
    BY <1>1, <2>1, <1>4 DEF Cleared, Parts
  <2>3. worker'[w].candidate = c /\ worker'[w].op = Op(c, "backtest")
    BY <1>4, AfterEnter
  <2>4. QED
    BY <2>2, <2>3 DEF Parts
<1>5. CASE result = "disagrees" /\ Plan = "iterative" /\ Enter(w, "revision")
  <2>1. part = "review"
    BY <1>2, <1>5 DEF Parts
  <2>2. Cleared(c, "revision")'
    BY <1>1, <2>1, <1>5 DEF Cleared, Parts
  <2>3. worker'[w].candidate = c /\ worker'[w].op = Op(c, "revision")
    BY <1>5, AfterEnter
  <2>4. QED
    BY <2>2, <2>3 DEF Parts
<1>6. CASE result = "amended" /\ Enter(w, "amended")
  <2>1. part = "revision"
    BY <1>2, <1>6 DEF Parts
  <2>2. Recorded(Op(c, "review"))' = {"disagrees"}
    BY <1>3, <2>1 DEF Cleared
  <2>3. Cleared(c, "amended")'
    BY <1>1, <2>1, <2>2, <1>6 DEF Cleared, Parts
  <2>4. worker'[w].candidate = c /\ worker'[w].op = Op(c, "amended")
    BY <1>6, AfterEnter
  <2>5. QED
    BY <2>3, <2>4 DEF Parts
<1>7. CASE Go(w, "saving")
  BY <1>3, <1>7, AfterGo
<1>8. CASE Conclude(w, "skipped", NoResult)
  BY <1>8, AfterConclude DEF Busy
<1>9. QED
  BY <1>4, <1>5, <1>6, <1>7, <1>8, ContinueCases

\* A part that stays cleared may be worked on.
LEMMA StillCleared ==
  ASSUME NEW w, NEW c, NEW part \in Parts, worker'[w].candidate = c,
         worker'[w].op = Op(c, part), Cleared(c, part)'
  PROVE  ClearedAt(w)'
<1>1. Cleared(worker[w].candidate, part)'
  BY DEF Cleared, Recorded, RowOf
<1>2. QED
  BY <1>1 DEF ClearedAt

\* Whatever a process does, what it works on next is cleared.
LEMMA ProcessStaysCleared ==
  ASSUME TypeOK, CoherentInv, [NextBudget]_ledger, ReviewInv, NEW w \in Workers,
         Local(w) \/ Dispatch(w) \/ Settle(w)
  PROVE  ClearedAt(w)'
<1> SUFFICES ASSUME Busy(w)' PROVE ClearedAt(w)'
  BY DEF ClearedAt
<1>1. PICK c : c = worker[w].candidate
  OBVIOUS
<1>2. ASSUME worker[w].pc \notin {"idle", "candidate"}
      PROVE  \E part \in Parts : worker[w].op = Op(c, part) /\ Cleared(c, part)
  BY <1>1, <1>2 DEF ReviewInv, ClearedWork, ClearedAt, Busy
<1>3. ASSUME worker[w].pc \notin {"idle", "candidate"}, worker'[w].op = worker[w].op,
             worker'[w].candidate = c
      PROVE  ClearedAt(w)'
  BY <1>2, <1>3, ClearedStays, StillCleared
<1>4. CASE Start(w)
  BY <1>4, AfterGo DEF Start, Busy
<1>5. CASE Consider(w)
  <2>1. CASE c \in Compiled /\ Enter(w, IF Plan = "plain" THEN "backtest" ELSE "review")
    <3>1. PICK p : p = IF Plan = "plain" THEN "backtest" ELSE "review"
      OBVIOUS
    <3>2. worker'[w].candidate = c /\ worker'[w].op = Op(c, p)
      BY <1>1, <2>1, <3>1, AfterEnter
    <3>3. p \in Parts /\ Cleared(c, p)'
      BY <2>1, <3>1 DEF Cleared, Parts
    <3>4. QED
      BY <3>2, <3>3, StillCleared
  <2>2. CASE Conclude(w, "skipped", NoResult)
    BY <2>2, AfterConclude DEF Busy
  <2>3. QED
    BY <1>1, <1>5, <2>1, <2>2 DEF Consider
<1>6. CASE Publish(w) \/ Crash(w)
  BY <1>6, AfterAbort DEF Publish, Crash, Busy, Idle
<1>7. CASE LockGraph(w)
  <2>1. worker[w].pc = "locking"
    BY <1>7 DEF LockGraph
  <2>2. CASE Abort(w)
    BY <2>2, AfterAbort DEF Busy, Idle
  <2>3. CASE worker'[w].op = worker[w].op /\ worker'[w].candidate = c
    BY <1>3, <2>1, <2>3
  <2>4. QED
    BY <1>1, <1>7, <2>2, <2>3, AfterLock
<1>8. CASE EnterGraph(w)
  BY <1>1, <1>3, <1>8, AfterEnterGraph DEF EnterGraph
<1>9. CASE SaveExecuted(w)
  BY <1>1, <1>3, <1>9, AfterGo DEF SaveExecuted
<1>10. CASE PublishManifest(w)
  <2>1. CASE Abort(w)
    BY <2>1, AfterAbort DEF Busy, Idle
  <2>2. CASE Go(w, "finishing")
    BY <1>1, <1>3, <1>10, <2>2, AfterGo DEF PublishManifest
  <2>3. QED
    BY <1>10, <2>1, <2>2 DEF PublishManifest
<1>11. CASE FinishGraph(w)
  BY <1>11, AfterConclude DEF FinishGraph, Busy
<1>12. CASE Replay(w)
  <2>1. worker[w].pc = "reserving" /\ UNCHANGED ledger
    BY <1>12 DEF Replay
  <2>2. CASE Abort(w)
    BY <2>2, AfterAbort DEF Busy, Idle
  <2>3. CASE \E result \in Recorded(worker[w].op) : Continue(w, result)
    <3>1. PICK result \in Recorded(worker[w].op) : Continue(w, result)
      BY <2>3
    <3>2. PICK part \in Parts : worker[w].op = Op(c, part) /\ Cleared(c, part)
      BY <1>2, <2>1
    <3>3. PICK op : op = Op(c, part)
      OBVIOUS
    <3>4. Recorded(op) = {result}
      BY <3>1, <3>2, <3>3, RecordedOnce
    <3>5. Recorded(op)' = {result}
      BY <3>4, RecordedStays
    <3>6. result \in ResultsOf(op)
      <4>1. op \notin Others
        BY <2>1, <3>2, <3>3, WorkerOperation
      <4>2. PICK i \in RowOf(op) \cap ObservedRows(ledger) :
              ledger[i].observation.result = result
        BY <3>4 DEF Recorded
      <4>3. QED
        BY <4>1, <4>2 DEF ReviewInv, FittingResults, RowOf
    <3>7. Recorded(Op(c, part))' = {result}
      BY <3>3, <3>5 DEF Recorded, RowOf
    <3>8. result \in ResultsOf(Op(c, part)) /\ worker[w].pc \notin {"idle", "candidate"}
      BY <2>1, <3>3, <3>6
    <3>9. /\ worker'[w].candidate = c
          /\ \E p \in Parts : worker'[w].op = Op(c, p) /\ Cleared(c, p)'
      BY <1>1, <3>1, <3>2, <3>7, <3>8, ContinueClears
    <3>10. QED
      BY <3>9, StillCleared
  <2>4. QED
    BY <1>12, <2>2, <2>3 DEF Replay
<1>13. CASE Reject(w) \/ SettleRejected(w)
  BY <1>13, AfterConclude DEF Reject, SettleRejected, Busy
<1>14. CASE Execute(w)
  <2>1. worker[w].pc = "executing" /\ worker'[w].op = worker[w].op /\ worker'[w].candidate = c
    BY <1>1, <1>14, AfterExecute DEF Execute
  <2>2. QED
    BY <1>3, <2>1
<1>15. CASE Dispatch(w)
  BY <1>1, <1>3, <1>15, AfterGo DEF Dispatch
<1>16. CASE Settle(w)
  <2>1. worker[w].pc = "settling" /\ Continue(w, worker[w].result)
    BY <1>16 DEF Settle
  <2>2. PICK part \in Parts : worker[w].op = Op(c, part) /\ Cleared(c, part)
    BY <1>2, <2>1
  <2>3. PICK op, result : op = worker[w].op /\ result = worker[w].result
    OBVIOUS
  <2>4. result \in ResultsOf(op) /\ ResultsOf(op) \subseteq Results
        /\ worker[w].at \in Times /\ Charge(op) \in Costs \cup {Unknown}
    BY <2>1, <2>3, WorkerOperation DEF TypeOK
  <2>5. PICK i \in RowOf(op) : SettleOperation(i, Charge(op), result, worker[w].at)
    BY <1>16, <2>3 DEF Settle
  <2>6. Recorded(op)' = {result}
    BY <2>4, <2>5, SettledRecords
  <2>7. Recorded(Op(c, part))' = {result}
    BY <2>2, <2>3, <2>6 DEF Recorded, RowOf
  <2>8. result \in ResultsOf(Op(c, part)) /\ Continue(w, result)
        /\ worker[w].pc \notin {"idle", "candidate"}
    BY <2>1, <2>2, <2>3, <2>4
  <2>9. /\ worker'[w].candidate = c
        /\ \E p \in Parts : worker'[w].op = Op(c, p) /\ Cleared(c, p)'
    BY <1>1, <2>2, <2>7, <2>8, ContinueClears
  <2>10. QED
    BY <2>9, StillCleared
<1>17. QED
  BY <1>1, <1>4, <1>5, <1>6, <1>7, <1>8, <1>9, <1>10, <1>11, <1>12, <1>13, <1>14, <1>15, <1>16
     DEF Local

\* A reservation is made for a part that is cleared, or by another command.
LEMMA ReserveKeepsRows ==
  ASSUME CoherentInv, ReviewInv, NEW op \in Operations, NEW at \in Times,
         ReserveOperation(op, at),
         op \in Others \/ \E c \in 1 .. Candidates, part \in Parts :
                            op = Op(c, part) /\ Cleared(c, part)
  PROVE  ClearedRows' /\ FittingResults'
<1>1. [NextBudget]_ledger /\ LedgerTypeOK
  BY DEF NextBudget, CoherentInv
<1>2. /\ DOMAIN ledger' = DOMAIN ledger \cup {Len(ledger) + 1}
      /\ Len(ledger) + 1 \notin DOMAIN ledger
      /\ \A i \in DOMAIN ledger : ledger'[i] = ledger[i]
      /\ ledger'[Len(ledger) + 1].operation = op
      /\ ObservedRows(ledger') = ObservedRows(ledger)
  BY <1>1, ReserveRow
<1>3. ClearedRows'
  <2>1. SUFFICES ASSUME NEW i \in DOMAIN ledger', NEW c \in 1 .. Candidates, NEW part \in Parts,
                        ledger'[i].operation = Op(c, part)
                 PROVE  Cleared(c, part)'
    BY DEF ClearedRows
  <2>2. Cleared(c, part)
    <3>1. CASE i \in DOMAIN ledger
      BY <1>2, <2>1, <3>1 DEF ReviewInv, ClearedRows
    <3>2. CASE i = Len(ledger) + 1
      <4>1. op = Op(c, part) /\ op \notin Others
        BY <1>2, <2>1, <3>2, StageOperations
      <4>2. PICK d \in 1 .. Candidates, p \in Parts : op = Op(d, p) /\ Cleared(d, p)
        BY <4>1
      <4>3. Op(c, part) = Op(d, p)
        BY <4>1, <4>2
      <4>4. c = d /\ part = p
        BY <4>3, StageOperations
      <4>5. QED
        BY <4>2, <4>4
    <3>3. QED
      BY <1>2, <3>1, <3>2
  <2>3. QED
    BY <1>1, <2>2, ClearedStays
<1>4. FittingResults'
  <2>1. ObservedRows(ledger) \subseteq DOMAIN ledger
    BY DEF ObservedRows
  <2>2. QED
    BY <1>2, <2>1 DEF ReviewInv, FittingResults
<1>5. QED
  BY <1>3, <1>4

\* A settlement records what its operation may return, or what another command returns.
LEMMA SettleKeepsRows ==
  ASSUME CoherentInv, ReviewInv, NEW i \in DOMAIN ledger, NEW cost \in Costs \cup {Unknown},
         NEW result \in Results, NEW at \in Times, SettleOperation(i, cost, result, at),
         ledger[i].operation \in Others \/ result \in ResultsOf(ledger[i].operation)
  PROVE  ClearedRows' /\ FittingResults'
<1>1. [NextBudget]_ledger /\ LedgerTypeOK
  BY DEF NextBudget, CoherentInv
<1>2. /\ DOMAIN ledger' = DOMAIN ledger
      /\ \A j \in DOMAIN ledger : j # i => ledger'[j] = ledger[j]
      /\ ledger'[i].operation = ledger[i].operation
      /\ ledger'[i].observation.result = result
      /\ ObservedRows(ledger') = ObservedRows(ledger) \cup {i}
  BY <1>1, SettleRow
<1>3. ClearedRows'
  <2>1. SUFFICES ASSUME NEW j \in DOMAIN ledger', NEW c \in 1 .. Candidates, NEW part \in Parts,
                        ledger'[j].operation = Op(c, part)
                 PROVE  Cleared(c, part)'
    BY DEF ClearedRows
  <2>2. Cleared(c, part)
    BY <1>2, <2>1 DEF ReviewInv, ClearedRows
  <2>3. QED
    BY <1>1, <2>2, ClearedStays
<1>4. FittingResults'
  <2>1. ObservedRows(ledger) \subseteq DOMAIN ledger
    BY DEF ObservedRows
  <2>2. SUFFICES ASSUME NEW j \in ObservedRows(ledger'), ledger'[j].operation \notin Others
                 PROVE  ledger'[j].observation.result \in ResultsOf(ledger'[j].operation)
    BY DEF FittingResults
  <2>3. CASE j = i
    BY <1>2, <2>2, <2>3
  <2>4. CASE j # i
    BY <1>2, <2>1, <2>2, <2>4 DEF ReviewInv, FittingResults
  <2>5. QED
    BY <2>3, <2>4
<1>5. QED
  BY <1>3, <1>4

\* Every step keeps what the reviews cleared.
LEMMA NextKeepsReviews ==
  ASSUME TypeOK, CoherentInv, ReviewInv, [Next]_vars
  PROVE  ReviewInv'
<1>1. [NextBudget]_ledger
  BY StepsAreBudgetSteps
<1>2. ASSUME UNCHANGED ledger
      PROVE  ClearedRows' /\ FittingResults'
  BY <1>2 DEF ReviewInv, ClearedRows, FittingResults, Cleared, Recorded, RowOf
<1>3. ASSUME UNCHANGED worker
      PROVE  ClearedWork'
  <2>1. SUFFICES ASSUME NEW w \in Workers PROVE ClearedAt(w)'
    BY DEF ClearedWork
  <2>2. ClearedAt(w)
    BY DEF ReviewInv, ClearedWork
  <2>3. QED
    BY <1>1, <1>3, <2>2, ClearedStays, StillCleared DEF ClearedAt, Busy
<1>4. ASSUME NEW w \in Workers, Local(w) \/ Dispatch(w) \/ Settle(w)
      PROVE  ClearedWork'
  <2>1. SUFFICES ASSUME NEW v \in Workers PROVE ClearedAt(v)'
    BY DEF ClearedWork
  <2>2. CASE v = w
    BY <1>1, <1>4, <2>2, ProcessStaysCleared
  <2>3. CASE v # w
    <3>1. worker'[v] = worker[v]
      BY <1>4, <2>3, ProcessTypes, OnlyMovesOthers
    <3>2. ClearedAt(v)
      BY DEF ReviewInv, ClearedWork
    <3>3. QED
      BY <1>1, <3>1, <3>2, ClearedStays, StillCleared DEF ClearedAt, Busy
  <2>4. QED
    BY <2>2, <2>3
<1>5. ASSUME NEW w \in Workers, Dispatch(w)
      PROVE  ClearedRows' /\ FittingResults'
  <2>1. worker[w].pc = "reserving" /\ ReserveOperation(worker[w].op, worker[w].at)
    BY <1>5 DEF Dispatch
  <2>2. /\ worker[w].op \in Operations /\ worker[w].at \in Times
        /\ worker[w].candidate \in 1 .. Candidates
    BY <2>1, WorkerOperation
  <2>3. \E part \in Parts : /\ worker[w].op = Op(worker[w].candidate, part)
                            /\ Cleared(worker[w].candidate, part)
    BY <2>1 DEF ReviewInv, ClearedWork, ClearedAt, Busy
  <2>4. QED
    BY <2>1, <2>2, <2>3, ReserveKeepsRows
<1>6. ASSUME NEW w \in Workers, Settle(w)
      PROVE  ClearedRows' /\ FittingResults'
  <2>1. PICK op, result, at : op = worker[w].op /\ result = worker[w].result /\ at = worker[w].at
    OBVIOUS
  <2>2. worker[w].pc = "settling"
    BY <1>6 DEF Settle
  <2>3. /\ result \in ResultsOf(op) /\ ResultsOf(op) \subseteq Results /\ at \in Times
        /\ Charge(op) \in Costs \cup {Unknown}
    BY <2>1, <2>2, WorkerOperation DEF TypeOK
  <2>4. PICK i \in RowOf(op) : SettleOperation(i, Charge(op), result, at)
    BY <1>6, <2>1 DEF Settle
  <2>5. i \in DOMAIN ledger /\ ledger[i].operation = op
    BY <2>4 DEF RowOf
  <2>6. QED
    BY <2>3, <2>4, <2>5, SettleKeepsRows
<1>7. CASE OtherCommand
  <2>1. PICK op \in Others, at \in Times :
          \/ ReserveOperation(op, at)
          \/ \E i \in RowOf(op) : SettleOperation(i, Unknown, "other", at)
    BY <1>7 DEF OtherCommand, TypeOK
  <2>2. op \in Operations /\ "other" \in Results
    BY StageAssumption DEF StageAssumption
  <2>3. ASSUME ReserveOperation(op, at)
        PROVE  ClearedRows' /\ FittingResults'
    BY <2>2, <2>3, ReserveKeepsRows
  <2>4. ASSUME \E i \in RowOf(op) : SettleOperation(i, Unknown, "other", at)
        PROVE  ClearedRows' /\ FittingResults'
    <3>1. PICK i \in RowOf(op) : SettleOperation(i, Unknown, "other", at)
      BY <2>4
    <3>2. i \in DOMAIN ledger /\ ledger[i].operation \in Others
      BY <3>1 DEF RowOf
    <3>3. PICK cost \in Costs \cup {Unknown}, result \in Results :
            SettleOperation(i, cost, result, at)
      BY <2>2, <3>1
    <3>4. QED
      BY <3>2, <3>3, SettleKeepsRows
  <2>5. ClearedRows' /\ FittingResults'
    BY <2>1, <2>3, <2>4
  <2>6. QED
    BY <1>3, <1>7, <2>5 DEF OtherCommand, ReviewInv
<1>8. CASE Tick \/ UNCHANGED vars
  BY <1>2, <1>3, <1>8 DEF Tick, vars, ReviewInv
<1>9. CASE \E w \in Workers : Local(w) \/ Dispatch(w) \/ Settle(w)
  BY <1>2, <1>4, <1>5, <1>6, <1>9, LocalKeepsLedger DEF ReviewInv
<1>10. QED
  BY <1>7, <1>8, <1>9 DEF Next, Local

\* The ledger is coherent at every moment of the stage.
LEMMA StageCoherent == Spec => []CoherentInv
  BY StageImplementsRunBudget, CoherenceInvariant, PTL

\* What the ledger holds and what the processes work on was cleared by what is recorded.
LEMMA ReviewInvariance == Spec => []ReviewInv
<1>1. Init => ReviewInv
  <2>1. SUFFICES ASSUME Init PROVE ReviewInv
    OBVIOUS
  <2>2. DOMAIN ledger = {} /\ ObservedRows(ledger) = {}
    BY <2>1 DEF Init, InitBudget, ObservedRows
  <2>3. \A w \in Workers : ~Busy(w)
    BY <2>1 DEF Init, Busy, Idle
  <2>4. QED
    BY <2>2, <2>3 DEF ReviewInv, ClearedRows, ClearedWork, ClearedAt, FittingResults
<1>2. TypeOK /\ CoherentInv /\ ReviewInv /\ [Next]_vars => ReviewInv'
  BY NextKeepsReviews
<1>3. QED
  BY <1>1, <1>2, TypeCorrect, StageCoherent, PTL DEF Spec

\* For any number of processes and candidates, under every plan: a backtest was dispatched only
\* for a candidate whose recorded review agrees, an amended one only after a recorded
\* disagreement and an amendment of it (research_experiments).
THEOREM BacktestsAreReviewed == Spec => []BacktestsFollowReviews
<1>1. TypeOK /\ ReviewInv => BacktestsFollowReviews
  <2>1. ASSUME TypeOK, ReviewInv, NEW c \in 1 .. Candidates, NEW part \in Parts,
               Holds(ledger, <<c, part>>)
        PROVE  Cleared(c, part)
    <3>1. PICK i \in DOMAIN ledger : ledger[i].operation.id = <<c, part>>
      BY <2>1 DEF Holds
    <3>2. PICK op : op = ledger[i].operation
      OBVIOUS
    <3>3. op \in Operations
      <4>1. ledger[i] \in Row
        BY <2>1 DEF TypeOK, LedgerTypeOK
      <4>2. QED
        BY <3>2, <4>1 DEF Row
    <3>4. op \notin Others
      <4>1. <<c, part>> \in (1 .. Candidates) \X Parts
        OBVIOUS
      <4>2. QED
        BY <3>1, <3>2, <4>1, StageAssumption DEF StageAssumption
    <3>5. PICK d \in 1 .. Candidates, p \in Parts : op = Op(d, p)
      BY <3>3, <3>4, StageAssumption DEF StageAssumption
    <3>6. <<d, p>> = <<c, part>>
      BY <3>1, <3>2, <3>5, StageOperations
    <3>7. op = Op(c, part)
      BY <3>5, <3>6
    <3>8. QED
      BY <2>1, <3>2, <3>7 DEF ReviewInv, ClearedRows
  <2>2. QED
    BY <2>1 DEF BacktestsFollowReviews, Cleared, Parts
<1>2. QED
  BY <1>1, TypeCorrect, ReviewInvariance, PTL

-----------------------------------------------------------------------------
(* One process in the graph of an experiment *)

\* The checkpoint that belongs to each place in a graph.
Checkpointed(pc) ==
  CASE pc = "entering" -> "input"
    [] pc = "manifest" -> "executed"
    [] pc = "finishing" -> "published"
    [] OTHER -> "started"

\* The steps around an experiment are taken for experiments only.
Placed(w) ==
  worker[w].pc \in {"locking", "entering", "saving", "manifest", "finishing"} =>
    worker[w].op \in Experiments

\* A process in the graph of an experiment is the only one, and the graph's checkpoint says
\* where it is.
Holder(w) ==
  InGraph(w) /\ worker[w].op \in Experiments =>
    /\ checkpoints[worker[w].op] = Checkpointed(worker[w].pc)
    /\ \A v \in Workers \ {w} : InGraph(v) => worker[v].op # worker[w].op

GraphInv == \A w \in Workers : Placed(w) /\ Holder(w)

\* A process that is in no graph disturbs no graph.
LEMMA LeavesGraphs ==
  ASSUME TypeOK, GraphInv, NEW w \in Workers, OnlyMoves(w), UNCHANGED checkpoints, Placed(w)',
         ~(InGraph(w)' /\ worker'[w].op \in Experiments)
  PROVE  GraphInv'
<1>1. \A v \in Workers \ {w} : worker'[v] = worker[v]
  BY OnlyMovesOthers
<1>2. ASSUME NEW v \in Workers \ {w}
      PROVE  Placed(v)' /\ Holder(v)'
  <2>1. Placed(v) /\ Holder(v)
    BY DEF GraphInv
  <2>2. Placed(v)'
    BY <1>1, <2>1 DEF Placed, Experiments
  <2>3. ASSUME InGraph(v)', worker'[v].op \in Experiments
        PROVE  /\ checkpoints'[worker'[v].op] = Checkpointed(worker'[v].pc)
               /\ \A u \in Workers \ {v} : InGraph(u)' => worker'[u].op # worker'[v].op
    <3>1. InGraph(v) /\ worker[v].op \in Experiments
      BY <1>1, <2>3 DEF InGraph, Busy
    <3>2. \A u \in Workers \ {v} : InGraph(u)' => worker'[u].op # worker'[v].op
      <4>1. SUFFICES ASSUME NEW u \in Workers \ {v}, InGraph(u)'
                     PROVE  worker'[u].op # worker'[v].op
        OBVIOUS
      <4>2. CASE u = w
        BY <2>3, <4>1, <4>2
      <4>3. CASE u # w
        BY <1>1, <2>1, <3>1, <4>1, <4>3 DEF Holder, InGraph, Busy
      <4>4. QED
        BY <4>2, <4>3
    <3>3. QED
      BY <1>1, <2>1, <3>1, <3>2 DEF Holder
  <2>4. QED
    BY <2>2, <2>3 DEF Holder, Experiments
<1>3. Placed(w)' /\ Holder(w)'
  BY DEF Holder, Experiments
<1>4. QED
  BY <1>2, <1>3 DEF GraphInv

\* The process that holds a graph, or takes it when nobody holds it, moves its checkpoint.
LEMMA MovesGraph ==
  ASSUME TypeOK, GraphInv, NEW w \in Workers, OnlyMoves(w), NEW op \in Experiments,
         worker[w].op = op, worker'[w].op = op, InGraph(w) \/ ~GraphLocked(op), InGraph(w)',
         NEW pc, worker'[w].pc = pc,
         checkpoints' = [checkpoints EXCEPT ![op] = Checkpointed(pc)]
  PROVE  GraphInv'
<1>1. \A v \in Workers \ {w} : worker'[v] = worker[v]
  BY OnlyMovesOthers
<1>2. \A v \in Workers \ {w} : InGraph(v) => worker[v].op # op
  BY DEF GraphInv, Holder, GraphLocked, InGraph, Busy
<1>3. /\ checkpoints'[op] = Checkpointed(pc)
      /\ \A other \in Experiments \ {op} : checkpoints'[other] = checkpoints[other]
  BY DEF TypeOK
<1>4. ASSUME NEW v \in Workers \ {w}
      PROVE  Placed(v)' /\ Holder(v)'
  <2>1. Placed(v) /\ Holder(v)
    BY DEF GraphInv
  <2>2. Placed(v)'
    BY <1>1, <2>1 DEF Placed, Experiments
  <2>3. ASSUME InGraph(v)', worker'[v].op \in Experiments
        PROVE  /\ checkpoints'[worker'[v].op] = Checkpointed(worker'[v].pc)
               /\ \A u \in Workers \ {v} : InGraph(u)' => worker'[u].op # worker'[v].op
    <3>1. InGraph(v) /\ worker[v].op \in Experiments \ {op}
      BY <1>1, <1>2, <2>3 DEF InGraph, Busy
    <3>2. \A u \in Workers \ {v} : InGraph(u)' => worker'[u].op # worker'[v].op
      <4>1. SUFFICES ASSUME NEW u \in Workers \ {v}, InGraph(u)'
                     PROVE  worker'[u].op # worker'[v].op
        OBVIOUS
      <4>2. CASE u = w
        BY <1>1, <3>1, <4>2
      <4>3. CASE u # w
        BY <1>1, <2>1, <3>1, <4>1, <4>3 DEF Holder, InGraph, Busy
      <4>4. QED
        BY <4>2, <4>3
    <3>3. QED
      BY <1>1, <1>3, <2>1, <3>1, <3>2 DEF Holder
  <2>4. QED
    BY <2>2, <2>3 DEF Holder, Experiments
<1>5. \A v \in Workers \ {w} : InGraph(v)' => worker'[v].op # op
  BY <1>1, <1>2 DEF InGraph, Busy
<1>6. Placed(w)' /\ Holder(w)'
  BY <1>3, <1>5 DEF Placed, Holder, Experiments
<1>7. QED
  BY <1>4, <1>6 DEF GraphInv

\* A process goes on in its graph, or with an operation that has none.
LEMMA StaysInGraph ==
  ASSUME TypeOK, GraphInv, NEW w \in Workers, OnlyMoves(w), UNCHANGED checkpoints,
         worker'[w].op = worker[w].op, NEW pc, worker'[w].pc = pc,
         InGraph(w), Checkpointed(worker[w].pc) = "started",
         \/ pc \in {"reserving", "executing", "settling"}
         \/ pc = "saving" /\ worker[w].op \in Experiments
  PROVE  GraphInv'
<1>1. CASE worker[w].op \in Experiments
  <2>1. PICK op \in Experiments : op = worker[w].op
    BY <1>1
  <2>2. Checkpointed(pc) = "started"
    BY DEF Checkpointed
  <2>3. checkpoints[op] = "started"
    BY <1>1, <2>1 DEF GraphInv, Holder
  <2>4. checkpoints' = [checkpoints EXCEPT ![op] = Checkpointed(pc)]
    BY <2>1, <2>2, <2>3 DEF TypeOK
  <2>5. InGraph(w)'
    BY DEF InGraph, Busy
  <2>6. QED
    BY <2>1, <2>4, <2>5, MovesGraph
<1>2. CASE worker[w].op \notin Experiments
  <2>1. Placed(w)'
    BY <1>2 DEF Placed
  <2>2. QED
    BY <1>2, <2>1, LeavesGraphs
<1>3. QED
  BY <1>1, <1>2

\* A process that begins a part of its candidate is in no graph yet.
LEMMA EnterKeepsGraphs ==
  ASSUME TypeOK, GraphInv, NEW w \in Workers, NEW part, Enter(w, part), UNCHANGED checkpoints
  PROVE  GraphInv'
<1>1. PICK op, pc :
        /\ op = Op(worker[w].candidate, part)
        /\ pc = IF op \in Experiments THEN "locking" ELSE "reserving"
  OBVIOUS
<1>2. worker'[w].op = op /\ worker'[w].pc = pc /\ OnlyMoves(w)
  BY <1>1, AfterEnter, EnterFields
<1>3. Placed(w)' /\ ~(InGraph(w)' /\ worker'[w].op \in Experiments)
  BY <1>1, <1>2 DEF Placed, InGraph, Busy, Experiments
<1>4. QED
  BY <1>2, <1>3, LeavesGraphs

\* A process that ends its candidate, or gives up, has left its graph.
LEMMA LeavingKeepsGraphs ==
  ASSUME TypeOK, GraphInv, NEW w \in Workers, UNCHANGED checkpoints, OnlyMoves(w),
         worker'[w].pc \in {"idle", "candidate"}
  PROVE  GraphInv'
<1>1. Placed(w)' /\ ~InGraph(w)'
  BY DEF Placed, InGraph, Busy
<1>2. QED
  BY <1>1, LeavesGraphs

\* A process that continues with a result leaves the checkpoints alone.
LEMMA ContinueKeepsGraphs ==
  ASSUME TypeOK, GraphInv, NEW w \in Workers, NEW result, Continue(w, result),
         UNCHANGED checkpoints, InGraph(w), Checkpointed(worker[w].pc) = "started",
         result \in {"completed", "failed"} => worker[w].op \in Experiments
  PROVE  GraphInv'
<1>1. CASE \E part : Enter(w, part)
  BY <1>1, EnterKeepsGraphs
<1>2. CASE result \in {"completed", "failed"} /\ Go(w, "saving")
  <2>1. worker'[w].op = worker[w].op /\ worker'[w].pc = "saving" /\ OnlyMoves(w)
    BY <1>2, AfterGo, GoFields
  <2>2. QED
    BY <1>2, <2>1, StaysInGraph
<1>3. CASE Conclude(w, "skipped", NoResult)
  BY <1>3, AfterConclude, ConcludeFields, LeavingKeepsGraphs
<1>4. QED
  BY <1>1, <1>2, <1>3, ContinueCases

\* A result that an experiment can have is recorded for experiments only.
LEMMA ExperimentResults ==
  ASSUME TypeOK, ReviewInv, NEW w \in Workers, Busy(w), NEW result \in {"completed", "failed"},
         \/ result \in Recorded(worker[w].op)
         \/ result \in ResultsOf(worker[w].op)
  PROVE  worker[w].op \in Experiments
<1>1. PICK op : op = worker[w].op
  OBVIOUS
<1>2. op \notin Others
  BY <1>1, WorkerOperation DEF Busy
<1>3. result \in ResultsOf(op)
  <2>1. CASE result \in Recorded(op)
    <3>1. PICK i \in RowOf(op) \cap ObservedRows(ledger) : ledger[i].observation.result = result
      BY <2>1 DEF Recorded
    <3>2. QED
      BY <1>2, <3>1 DEF ReviewInv, FittingResults, RowOf
  <2>2. QED
    BY <1>1, <2>1
<1>4. QED
  BY <1>1, <1>3 DEF ResultsOf

\* Every step of a process leaves one process in each graph, where its checkpoint says.
LEMMA ProcessKeepsGraphs ==
  ASSUME TypeOK, ReviewInv, GraphInv, NEW w \in Workers, Local(w) \/ Dispatch(w) \/ Settle(w)
  PROVE  GraphInv'
<1>1. OnlyMoves(w)
  BY ProcessTypes
<1>2. Placed(w) /\ Holder(w)
  BY DEF GraphInv
<1>3. ASSUME Abort(w), UNCHANGED checkpoints
      PROVE  GraphInv'
  BY <1>1, <1>3, AfterAbort, LeavingKeepsGraphs
<1>4. ASSUME NEW status, NEW result, Conclude(w, status, result), UNCHANGED checkpoints
      PROVE  GraphInv'
  BY <1>1, <1>4, AfterConclude, LeavingKeepsGraphs
<1>5. CASE Start(w)
  BY <1>1, <1>5, AfterGo, LeavingKeepsGraphs DEF Start
<1>6. CASE Consider(w)
  BY <1>4, <1>6, EnterKeepsGraphs DEF Consider
<1>7. CASE Publish(w) \/ Crash(w)
  BY <1>3, <1>7 DEF Publish, Crash
<1>8. CASE LockGraph(w)
  <2>1. PICK op \in Experiments : op = worker[w].op
    BY <1>2, <1>8 DEF LockGraph, Placed
  <2>2. PICK status : status = checkpoints[op]
    OBVIOUS
  <2>3. ASSUME ~GraphLocked(op), status # "input",
               checkpoints' = [checkpoints EXCEPT ![op] = IF @ = "none" THEN "input" ELSE @],
               worker'[w].pc = ResumedAt(status), worker'[w].op = op
        PROVE  GraphInv'
    <3>1. PICK pc : pc = ResumedAt(status)
      OBVIOUS
    <3>2. status \in {"none", "started", "executed", "published"}
      BY <2>2, <2>3 DEF TypeOK
    <3>3. Checkpointed(pc) = IF status = "none" THEN "input" ELSE status
      BY <3>1, <3>2 DEF Checkpointed, ResumedAt
    <3>4. checkpoints' = [checkpoints EXCEPT ![op] = Checkpointed(pc)]
      BY <2>1, <2>2, <2>3, <3>3
    <3>5. InGraph(w)'
      BY <2>3 DEF InGraph, Busy, ResumedAt
    <3>6. worker[w].op = op /\ worker'[w].op = op /\ worker'[w].pc = pc /\ ~GraphLocked(op)
      BY <2>1, <2>2, <2>3, <3>1
    <3>7. QED
      BY <1>1, <3>4, <3>5, <3>6, MovesGraph
  <2>4. QED
    BY <1>3, <1>8, <2>1, <2>2, <2>3, AfterLock
<1>9. CASE EnterGraph(w)
  <2>1. PICK op \in Experiments : op = worker[w].op
    BY <1>2, <1>9 DEF EnterGraph, Placed
  <2>2. worker'[w].pc = "reserving" /\ worker'[w].op = op
    BY <1>9, <2>1, AfterEnterGraph
  <2>3. checkpoints' = [checkpoints EXCEPT ![op] = Checkpointed("reserving")]
    BY <1>9, <2>1 DEF EnterGraph, Checkpointed
  <2>4. InGraph(w) /\ InGraph(w)'
    BY <1>9, <2>2 DEF EnterGraph, InGraph, Busy
  <2>5. QED
    BY <1>1, <2>1, <2>2, <2>3, <2>4, MovesGraph
<1>10. CASE SaveExecuted(w)
  <2>1. PICK op \in Experiments : op = worker[w].op
    BY <1>2, <1>10 DEF SaveExecuted, Placed
  <2>2. worker'[w].pc = "manifest" /\ worker'[w].op = op
    BY <1>10, <2>1, AfterGo DEF SaveExecuted
  <2>3. checkpoints' = [checkpoints EXCEPT ![op] = Checkpointed("manifest")]
    BY <1>10, <2>1 DEF SaveExecuted, Checkpointed
  <2>4. InGraph(w) /\ InGraph(w)'
    BY <1>10, <2>2 DEF SaveExecuted, InGraph, Busy
  <2>5. QED
    BY <1>1, <2>1, <2>2, <2>3, <2>4, MovesGraph
<1>11. CASE PublishManifest(w)
  <2>1. PICK op \in Experiments : op = worker[w].op
    BY <1>2, <1>11 DEF PublishManifest, Placed
  <2>2. ASSUME Go(w, "finishing"), checkpoints' = [checkpoints EXCEPT ![op] = "published"]
        PROVE  GraphInv'
    <3>1. worker'[w].pc = "finishing" /\ worker'[w].op = op
      BY <2>1, <2>2, AfterGo
    <3>2. checkpoints' = [checkpoints EXCEPT ![op] = Checkpointed("finishing")]
      BY <2>2 DEF Checkpointed
    <3>3. InGraph(w) /\ InGraph(w)'
      BY <1>11, <3>1 DEF PublishManifest, InGraph, Busy
    <3>4. QED
      BY <1>1, <2>1, <3>1, <3>2, <3>3, MovesGraph
  <2>3. QED
    BY <1>3, <1>11, <2>1, <2>2 DEF PublishManifest
<1>12. CASE FinishGraph(w)
  BY <1>4, <1>12 DEF FinishGraph
<1>13. CASE Replay(w)
  <2>1. InGraph(w) /\ Checkpointed(worker[w].pc) = "started" /\ Busy(w) /\ UNCHANGED checkpoints
    BY <1>13 DEF Replay, InGraph, Busy, Checkpointed
  <2>2. ASSUME NEW result \in Recorded(worker[w].op), Continue(w, result)
        PROVE  GraphInv'
    BY <2>1, <2>2, ExperimentResults, ContinueKeepsGraphs
  <2>3. QED
    BY <1>3, <1>13, <2>1, <2>2 DEF Replay
<1>14. CASE Reject(w) \/ SettleRejected(w)
  BY <1>4, <1>14 DEF Reject, SettleRejected
<1>15. CASE Execute(w)
  <2>1. InGraph(w) /\ Checkpointed(worker[w].pc) = "started" /\ UNCHANGED checkpoints
    BY <1>15 DEF Execute, InGraph, Busy, Checkpointed
  <2>2. worker'[w].op = worker[w].op /\ worker'[w].pc = "settling"
    BY <1>15, AfterExecute
  <2>3. QED
    BY <1>1, <2>1, <2>2, StaysInGraph
<1>16. CASE Dispatch(w)
  <2>1. InGraph(w) /\ Checkpointed(worker[w].pc) = "started" /\ UNCHANGED checkpoints
    BY <1>16 DEF Dispatch, InGraph, Busy, Checkpointed
  <2>2. worker'[w].op = worker[w].op /\ worker'[w].pc = "executing"
    BY <1>16, AfterGo DEF Dispatch
  <2>3. QED
    BY <1>1, <2>1, <2>2, StaysInGraph
<1>17. CASE Settle(w)
  <2>1. /\ InGraph(w) /\ Checkpointed(worker[w].pc) = "started" /\ UNCHANGED checkpoints
        /\ Busy(w) /\ worker[w].pc = "settling" /\ Continue(w, worker[w].result)
    BY <1>17 DEF Settle, InGraph, Busy, Checkpointed
  <2>2. PICK result : result = worker[w].result
    OBVIOUS
  <2>3. result \in ResultsOf(worker[w].op)
    BY <2>1, <2>2 DEF TypeOK
  <2>4. QED
    BY <2>1, <2>2, <2>3, ExperimentResults, ContinueKeepsGraphs
<1>18. QED
  BY <1>5, <1>6, <1>7, <1>8, <1>9, <1>10, <1>11, <1>12, <1>13, <1>14, <1>15, <1>16, <1>17
     DEF Local

\* Every step keeps one process in each graph.
LEMMA NextKeepsGraphs ==
  ASSUME TypeOK, ReviewInv, GraphInv, [Next]_vars
  PROVE  GraphInv'
<1>1. CASE \E w \in Workers : Local(w) \/ Dispatch(w) \/ Settle(w)
  BY <1>1, ProcessKeepsGraphs
<1>2. CASE UNCHANGED <<checkpoints, worker>>
  BY <1>2 DEF GraphInv, Placed, Holder, InGraph, Busy, Experiments
<1>3. QED
  BY <1>1, <1>2 DEF Next, Local, Tick, OtherCommand, vars

\* At every moment at most one process is in the graph of an experiment, and the graph's saved
\* checkpoint is the one of the place where that process is (MonthlyExperimentGraph.finish).
THEOREM OneProcessPerGraph == Spec => []GraphInv
<1>1. Init => GraphInv
  BY DEF Init, Idle, GraphInv, Placed, Holder, InGraph, Busy
<1>2. TypeOK /\ ReviewInv /\ GraphInv /\ [Next]_vars => GraphInv'
  BY NextKeepsGraphs
<1>3. QED
  BY <1>1, <1>2, TypeCorrect, ReviewInvariance, PTL DEF Spec

-----------------------------------------------------------------------------
(* Reports say what was settled *)

\* An outcome with a result is that of an experiment whose graph is finished.
SettledOutcomes(report) ==
  \A c \in DOMAIN report :
    report[c].result # NoResult =>
      /\ Op(c, report[c].part) \in Experiments
      /\ Recorded(Op(c, report[c].part)) = {report[c].result}
      /\ checkpoints[Op(c, report[c].part)] = "published"

ReportInv ==
  /\ \A report \in reports : SettledOutcomes(report)
  /\ \A w \in Workers : SettledOutcomes(worker[w].outcomes)

\* A published graph is never taken back.
LEMMA PublishedStays ==
  ASSUME TypeOK, GraphInv, [Next]_vars, NEW op \in Experiments, checkpoints[op] = "published"
  PROVE  checkpoints'[op] = "published"
<1>1. \A w \in Workers : Placed(w) /\ Holder(w)
  BY DEF GraphInv
<1>2. CASE UNCHANGED checkpoints
  BY <1>2
<1>3. ASSUME NEW w \in Workers, LockGraph(w)
      PROVE  checkpoints'[op] = "published"
  <2>1. \/ UNCHANGED checkpoints
        \/ checkpoints' = [checkpoints EXCEPT ![worker[w].op] = IF @ = "none" THEN "input" ELSE @]
    BY <1>3, AfterLock
  <2>2. QED
    BY <2>1 DEF TypeOK
<1>4. ASSUME NEW w \in Workers, EnterGraph(w) \/ SaveExecuted(w)
      PROVE  checkpoints'[op] = "published"
  <2>1. InGraph(w) /\ worker[w].op \in Experiments /\ worker[w].pc \in {"entering", "saving"}
    BY <1>1, <1>4 DEF EnterGraph, SaveExecuted, Placed, InGraph, Busy
  <2>2. checkpoints[worker[w].op] \in {"input", "started"}
    BY <1>1, <2>1 DEF Holder, Checkpointed
  <2>3. worker[w].op # op
    BY <2>2
  <2>4. QED
    BY <1>4, <2>3 DEF EnterGraph, SaveExecuted, TypeOK
<1>5. ASSUME NEW w \in Workers, PublishManifest(w)
      PROVE  checkpoints'[op] = "published"
  BY <1>5 DEF PublishManifest, TypeOK
<1>6. QED
  BY <1>2, <1>3, <1>4, <1>5 DEF Next, Tick, OtherCommand, vars, Start, Consider, Publish,
     FinishGraph, Dispatch, Replay, Reject, Execute, Settle, SettleRejected, Crash

\* What a report says stays true.
LEMMA SettledStays ==
  ASSUME TypeOK, CoherentInv, GraphInv, [Next]_vars, NEW report, SettledOutcomes(report)
  PROVE  SettledOutcomes(report)'
<1>1. [NextBudget]_ledger
  BY StepsAreBudgetSteps
<1>2. SUFFICES ASSUME NEW c \in DOMAIN report, report[c].result # NoResult
               PROVE  /\ Op(c, report[c].part) \in Experiments
                      /\ Recorded(Op(c, report[c].part))' = {report[c].result}
                      /\ checkpoints'[Op(c, report[c].part)] = "published"
  BY DEF SettledOutcomes, Experiments
<1>3. PICK op : op = Op(c, report[c].part)
  OBVIOUS
<1>4. /\ op \in Experiments /\ Recorded(op) = {report[c].result}
      /\ checkpoints[op] = "published"
  BY <1>2, <1>3 DEF SettledOutcomes
<1>5. Recorded(op)' = {report[c].result}
  BY <1>1, <1>4, RecordedStays
<1>6. checkpoints'[op] = "published"
  BY <1>4, PublishedStays
<1>7. QED
  BY <1>3, <1>4, <1>5, <1>6 DEF Recorded, RowOf

\* What the process that finishes an experiment adds to its outcomes is settled.
LEMMA FinishSettles ==
  ASSUME TypeOK, CoherentInv, GraphInv, ReportInv, [Next]_vars, NEW w \in Workers,
         FinishGraph(w)
  PROVE  SettledOutcomes(worker[w].outcomes)'
<1>1. PICK result \in Recorded(worker[w].op) : Conclude(w, result, result)
  BY DEF FinishGraph
<1>2. worker[w].pc = "finishing" /\ UNCHANGED <<ledger, checkpoints>>
  BY DEF FinishGraph
<1>3. PICK op, c, before, after :
        /\ op = worker[w].op /\ c = worker[w].candidate
        /\ before = worker[w].outcomes /\ after = worker'[w].outcomes
  OBVIOUS
<1>4. PICK part \in Parts : op = Op(c, part) /\ c \in 1 .. Candidates /\ op \in Operations
  BY <1>2, <1>3, WorkerOperation
<1>5. before \in Seq(Outcome) /\ Len(before) = c - 1
  BY <1>3 DEF TypeOK, WorkerState
<1>6. after = Append(before, [status |-> result, result |-> result, part |-> part])
  <2>1. op # NoOperation /\ op.id[2] = part
    BY <1>4, StageOperations, StageAssumption DEF StageAssumption
  <2>2. QED
    BY <1>1, <1>3, <2>1, AfterConclude
<1>7. op \in Experiments /\ checkpoints[op] = "published"
  BY <1>2, <1>3 DEF GraphInv, Placed, Holder, InGraph, Busy, Checkpointed
<1>8. Recorded(op) = {result}
  BY <1>1, <1>3, RecordedOnce
<1>9. SettledOutcomes(before)
  BY <1>3 DEF ReportInv
<1>10. SettledOutcomes(after)
  <2>1. SUFFICES ASSUME NEW d \in DOMAIN after, after[d].result # NoResult
                 PROVE  /\ Op(d, after[d].part) \in Experiments
                        /\ Recorded(Op(d, after[d].part)) = {after[d].result}
                        /\ checkpoints[Op(d, after[d].part)] = "published"
    BY DEF SettledOutcomes
  <2>2. DOMAIN after = DOMAIN before \cup {c}
    BY <1>4, <1>5, <1>6
  <2>3. CASE d = c
    <3>1. after[d] = [status |-> result, result |-> result, part |-> part]
      BY <1>4, <1>5, <1>6, <2>3
    <3>2. after[d].result = result /\ after[d].part = part
      BY <3>1
    <3>3. QED
      BY <1>3, <1>4, <1>7, <1>8, <2>3, <3>2
  <2>4. CASE d \in DOMAIN before
    <3>1. after[d] = before[d]
      BY <1>5, <1>6, <2>4
    <3>2. QED
      BY <1>9, <2>1, <2>4, <3>1 DEF SettledOutcomes
  <2>5. QED
    BY <2>2, <2>3, <2>4
<1>11. SettledOutcomes(after)'
  BY <1>10, SettledStays
<1>12. QED
  BY <1>3, <1>11 DEF SettledOutcomes

\* Every other step adds only outcomes without a result.
AddsNoResult(w) ==
  \/ worker'[w].outcomes \in {worker[w].outcomes, << >>}
  \/ \E outcome : /\ outcome.result = NoResult
                  /\ worker'[w].outcomes = Append(worker[w].outcomes, outcome)

\* Only the end of a graph adds a result to the outcomes.
LEMMA OtherOutcomes ==
  ASSUME TypeOK, NEW w \in Workers, Local(w) \/ Dispatch(w) \/ Settle(w), ~FinishGraph(w)
  PROVE  AddsNoResult(w)
<1>1. ASSUME NEW pc, Go(w, pc)
      PROVE  AddsNoResult(w)
  BY <1>1, AfterGo DEF AddsNoResult
<1>2. ASSUME NEW part, Enter(w, part)
      PROVE  AddsNoResult(w)
  BY <1>2, AfterEnter DEF AddsNoResult
<1>3. ASSUME Abort(w)
      PROVE  AddsNoResult(w)
  BY <1>3, AfterAbort DEF AddsNoResult
<1>4. ASSUME NEW status, Conclude(w, status, NoResult)
      PROVE  AddsNoResult(w)
  <2>1. PICK outcome :
          outcome = [status |-> status, result |-> NoResult,
                     part |-> IF worker[w].op = NoOperation THEN "none"
                              ELSE worker[w].op.id[2]]
    OBVIOUS
  <2>2. outcome.result = NoResult
    BY <2>1
  <2>3. worker'[w].outcomes = Append(worker[w].outcomes, outcome)
    BY <1>4, <2>1, AfterConclude
  <2>4. QED
    BY <2>2, <2>3 DEF AddsNoResult
<1>5. ASSUME NEW result, Continue(w, result)
      PROVE  AddsNoResult(w)
  BY <1>1, <1>2, <1>4, <1>5, ContinueCases
<1>6. ASSUME worker'[w].outcomes = worker[w].outcomes
      PROVE  AddsNoResult(w)
  BY <1>6 DEF AddsNoResult
<1>7. CASE Start(w) \/ SaveExecuted(w) \/ Dispatch(w)
  BY <1>1, <1>7 DEF Start, SaveExecuted, Dispatch
<1>8. CASE Consider(w)
  BY <1>2, <1>4, <1>8 DEF Consider
<1>9. CASE Publish(w) \/ Crash(w)
  BY <1>3, <1>9 DEF Publish, Crash
<1>10. CASE LockGraph(w)
  BY <1>3, <1>6, <1>10, AfterLock
<1>11. CASE EnterGraph(w)
  BY <1>6, <1>11, AfterEnterGraph
<1>12. CASE PublishManifest(w)
  BY <1>1, <1>3, <1>12 DEF PublishManifest
<1>13. CASE Replay(w)
  BY <1>3, <1>5, <1>13 DEF Replay
<1>14. CASE Reject(w) \/ SettleRejected(w)
  BY <1>4, <1>14 DEF Reject, SettleRejected
<1>15. CASE Execute(w)
  BY <1>6, <1>15, AfterExecute
<1>16. CASE Settle(w)
  BY <1>5, <1>16 DEF Settle
<1>17. QED
  BY <1>7, <1>8, <1>9, <1>10, <1>11, <1>12, <1>13, <1>14, <1>15, <1>16 DEF Local

\* Appending an outcome without a result leaves a report settled.
LEMMA AppendSettled ==
  ASSUME NEW report \in Seq(Outcome), SettledOutcomes(report), NEW outcome,
         outcome.result = NoResult
  PROVE  SettledOutcomes(Append(report, outcome))
<1> DEFINE longer == Append(report, outcome)
<1>1. SUFFICES ASSUME NEW c \in DOMAIN longer, longer[c].result # NoResult
               PROVE  /\ Op(c, longer[c].part) \in Experiments
                      /\ Recorded(Op(c, longer[c].part)) = {longer[c].result}
                      /\ checkpoints[Op(c, longer[c].part)] = "published"
  BY DEF SettledOutcomes
<1>2. c \in DOMAIN report /\ longer[c] = report[c]
  BY <1>1
<1> HIDE DEF longer
<1>3. QED
  BY <1>1, <1>2 DEF SettledOutcomes

\* Every step keeps the reports and the outcomes of the processes settled.
LEMMA NextKeepsReports ==
  ASSUME TypeOK, CoherentInv, GraphInv, ReportInv, [Next]_vars
  PROVE  ReportInv'
<1>1. ASSUME NEW w \in Workers
      PROVE  SettledOutcomes(worker[w].outcomes)'
  <2>1. PICK before, after : before = worker[w].outcomes /\ after = worker'[w].outcomes
    OBVIOUS
  <2>2. SettledOutcomes(before) /\ before \in Seq(Outcome)
    BY <2>1 DEF ReportInv, TypeOK, WorkerState
  <2>3. SettledOutcomes(<< >>)
    BY DEF SettledOutcomes
  <2>4. ASSUME SettledOutcomes(after)
        PROVE  SettledOutcomes(worker[w].outcomes)'
    <3>1. SettledOutcomes(after)'
      BY <2>4, SettledStays
    <3>2. QED
      BY <2>1, <3>1 DEF SettledOutcomes
  <2>5. CASE FinishGraph(w)
    BY <2>5, FinishSettles
  <2>6. CASE (Local(w) \/ Dispatch(w) \/ Settle(w)) /\ ~FinishGraph(w)
    <3>1. \/ after \in {before, << >>}
          \/ \E outcome : outcome.result = NoResult /\ after = Append(before, outcome)
      BY <2>1, <2>6, OtherOutcomes DEF AddsNoResult
    <3>2. SettledOutcomes(after)
      BY <2>2, <2>3, <3>1, AppendSettled
    <3>3. QED
      BY <2>4, <3>2
  <2>7. CASE worker'[w] = worker[w]
    BY <2>1, <2>2, <2>4, <2>7
  <2>8. CASE \E v \in Workers \ {w} : Local(v) \/ Dispatch(v) \/ Settle(v)
    BY <2>7, <2>8, ProcessTypes, OnlyMovesOthers
  <2>9. QED
    BY <2>5, <2>6, <2>7, <2>8 DEF Next, Local, Tick, OtherCommand, vars
<1>2. ASSUME NEW report \in reports'
      PROVE  SettledOutcomes(report)'
  <2>1. report \in reports \/ \E w \in Workers : report = worker[w].outcomes
    BY <1>2 DEF Next, Tick, OtherCommand, vars, Start, Consider, Publish, LockGraph, EnterGraph,
       SaveExecuted, PublishManifest, FinishGraph, Dispatch, Replay, Reject, Execute, Settle,
       SettleRejected, Crash
  <2>2. SettledOutcomes(report)
    BY <2>1 DEF ReportInv
  <2>3. QED
    BY <2>2, SettledStays
<1>3. QED
  BY <1>1, <1>2 DEF ReportInv

\* For any number of processes and candidates: what a published report says was executed is
\* what the budget recorded for that very command, with its graph finished (research_experiments,
\* MonthlyExperimentGraph).
THEOREM ReportsStaySettled == Spec => []ReportsAreSettled
<1>1. Init => ReportInv
  BY DEF Init, Idle, ReportInv, SettledOutcomes
<1>2. TypeOK /\ CoherentInv /\ GraphInv /\ ReportInv /\ [Next]_vars => ReportInv'
  BY NextKeepsReports
<1>3. ReportInv => ReportsAreSettled
  BY DEF ReportInv, SettledOutcomes, ReportsAreSettled
<1>4. QED
  BY <1>1, <1>2, <1>3, TypeCorrect, StageCoherent, OneProcessPerGraph, PTL DEF Spec

=============================================================================
