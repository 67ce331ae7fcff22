---------------------------- MODULE ResearchProofs ----------------------------
(***************************************************************************)
(* Proofs about the durable research workflow and its delivery: for every  *)
(* plan, budget, number of requests, processes and messages, wherever      *)
(* processes stop and however late a reading of the clock is used, a       *)
(* receipt keeps every charge it reports, a saved workflow conflicts only  *)
(* when its thread is stranded or overtaken, everybody is told what the    *)
(* ledger records, and a job that left the queue is remembered.            *)
(***************************************************************************)
EXTENDS ResearchDelivery, TLAPS

N == Len(Reservation)

-----------------------------------------------------------------------------
(* The budget of a run and what is told of it. *)

\* The outcome of a settled operation cannot change any more.
Passed(r, i) == ledger[r][i] # Unused /\ ledger[r][i].settled = TRUE

\* An operation is begun once and settled once: a is what b has been before.
Older(a, b) ==
  \/ a = b
  \/ a = Unused /\ b # Unused
  \/ a # Unused /\ b # Unused /\ a.settled = FALSE /\ b.settled = TRUE

\* Of every operation the outcomes tell its settlement, or that the budget refused it.
Tells(outcomes, r) ==
  /\ Len(outcomes) =< N
  /\ \A i \in 1 .. Len(outcomes) :
       outcomes[i] = BudgetStopped \/ (Passed(r, i) /\ outcomes[i] = ledger[r][i])

\* A budget that was read after the outcomes has the charges they report.
Backed(result, budget) == \A i \in Operations : result[i] = BudgetStopped \/ budget[i] = result[i]

\* A budget that was read before.
WasRead(budget, r) == \A i \in Operations : Older(budget[i], ledger[r][i])

-----------------------------------------------------------------------------
(* The invariant. *)

Places == {"idle", "locking", "starting", "research", "operations", "reserving", "expired",
           "dispatched", "inserting", "inserted", "verifying", "exporting", "writing",
           "completing", "remembered", "finished"} \cup Errors

Process == [pc : Places, request : Requests \cup {Unused},
            mode : {"job", "workflow", "plain", Unused}, outcomes : Seq(Charge),
            budget : Budgets \cup {Unused}, stage : {"report", "remember", "end", "print", Unused},
            answer : Completions \cup {Unused}]

Saved == [next : {"none", "input", "research", "report", "remember", "end"},
          result : Seq(Charge) \cup {Unused}, completion : Completions \cup {Unused}]

TypeOK ==
  /\ ledger \in [Requests -> Budgets]
  /\ row \in [Requests -> Row \cup {Unused}]
  /\ checkpoint \in [Requests -> Saved]
  /\ lock \in [Requests -> Workers \cup {Unused}]
  /\ report \in [Requests -> {"absent", "partial", "whole", "edited"}]
  /\ worker \in [Workers -> Process]

\* A receipt tells the whole plan, with a budget that has the charges it reports.
RowAgrees(r) ==
  row[r] # Unused =>
    /\ Tells(row[r].result, r) /\ Len(row[r].result) = N
    /\ Backed(row[r].result, row[r].budget)
    /\ WasRead(row[r].budget, r)
    /\ row[r].completion \in {Unused, SavedCompletion(r)}
    /\ row[r].remembered = TRUE => row[r].completion = SavedCompletion(r)

\* The checkpoint is behind the row, never ahead of it; there is no row before the first stage.
CheckpointAgrees(r) ==
  /\ checkpoint[r].next \in {"none", "input"} => row[r] = Unused
  /\ checkpoint[r].next = "input" => checkpoint[r] = InputCheckpoint
  /\ checkpoint[r].next \in {"report", "remember", "end"} =>
       row[r] # Unused /\ checkpoint[r].result = row[r].result
  /\ checkpoint[r].next \in {"remember", "end"} =>
       row[r].completion = SavedCompletion(r) /\ checkpoint[r].completion = SavedCompletion(r)
  /\ checkpoint[r].next = "end" => row[r].remembered = TRUE

\* The places of the first stage, of the later ones, and of a command that prints.
Operating == {"operations", "reserving", "expired", "dispatched"}

Planning(w) ==
  \/ worker[w].pc \in {"research", "inserting", "inserted"}
  \/ worker[w].pc \in Operating /\ worker[w].mode # "plain"

\* The process executes the plan for a row that does not exist yet.
Recording(w) ==
  \/ worker[w].pc = "inserting"
  \/ worker[w].pc \in Operating /\ worker[w].mode # "plain"

Exports == {"exporting", "writing", "completing"}

Staged(w) ==
  \/ worker[w].pc = "verifying"
  \/ worker[w].pc \in Exports /\ worker[w].stage # "print"

Printing(w) == worker[w].pc \in Exports /\ worker[w].stage = "print"

Holding(w) == worker[w].pc \in {"starting", "remembered"} \/ Planning(w) \/ Staged(w)

\* What the place of a process says of the rest of the state.
ThreadAgrees(w) ==
  LET r == Req(w) IN
  /\ Holding(w) => lock[r] = w
  /\ worker[w].pc = "starting" => checkpoint[r] = InputCheckpoint
  /\ worker[w].pc = "conflict" => checkpoint[r] = InputCheckpoint \/ Overtaken(r)
  /\ Planning(w) => checkpoint[r].next = "research"
  /\ Recording(w) => row[r] = Unused
  /\ Staged(w) => /\ worker[w].stage \in {"report", "remember", "end"}
                  /\ checkpoint[r].next = worker[w].stage
  /\ worker[w].pc = "remembered" => checkpoint[r].next = "remember" /\ row[r].remembered = TRUE

PlanAgrees(w) ==
  LET r == Req(w) IN
  /\ Tells(worker[w].outcomes, r)
  /\ worker[w].pc \in {"reserving", "expired"} => Operation(w) \in Operations
  /\ worker[w].pc = "dispatched" =>
       Operation(w) \in Operations /\ ledger[r][Operation(w)] = Reserved
  /\ worker[w].pc \in {"inserting", "inserted", "finished"} \/ Printing(w) =>
       Len(worker[w].outcomes) = N
  /\ worker[w].pc = "inserting" =>
       /\ worker[w].budget \in Budgets
       /\ Backed(worker[w].outcomes, worker[w].budget)
       /\ WasRead(worker[w].budget, r)
  /\ worker[w].pc = "inserted" =>
       row[r] # Unused /\ row[r].result = worker[w].outcomes /\ row[r].budget = worker[w].budget

AnswerAgrees(w) ==
  LET r == Req(w) IN
  /\ worker[w].mode = "job" => ~Printing(w)
  /\ (worker[w].pc = "finished" \/ Printing(w)) /\ worker[w].mode # "plain" =>
       row[r] # Unused /\ row[r].result = worker[w].outcomes
  /\ worker[w].pc = "finished" =>
       /\ worker[w].answer.result = worker[w].outcomes
       /\ Backed(worker[w].outcomes, worker[w].answer.budget)
  /\ worker[w].pc = "finished" /\ worker[w].mode = "job" =>
       row[r].remembered = TRUE /\ worker[w].answer = SavedCompletion(r)

PlaceAgrees(w) ==
  worker[w].pc # "idle" =>
    Req(w) \in Requests /\ ThreadAgrees(w) /\ PlanAgrees(w) /\ AnswerAgrees(w)

\* An operation is executed by one process.
OneDispatch ==
  \A v, w \in Workers :
    At(v, "dispatched") /\ At(w, "dispatched") /\ Req(v) = Req(w) /\ Operation(v) = Operation(w)
      => v = w

\* A thread that is reported as conflicting is not on its way past its first checkpoint.
StrandedStays ==
  \A v, w \in Workers : At(v, "conflict") /\ At(w, "starting") => Req(v) # Req(w)

WorkflowInv ==
  /\ TypeOK
  /\ \A r \in Requests : RowAgrees(r) /\ CheckpointAgrees(r)
  /\ \A w \in Workers : PlaceAgrees(w)
  /\ OneDispatch
  /\ StrandedStays

\* A worker of the queue works on the request of the message it received.
HolderAgrees(w) ==
  worker[w].pc # "idle" /\ worker[w].mode = "job" =>
    holder[w].message \in Messages /\ RequestOf[holder[w].message] = Req(w)

\* The request of a message that was deleted is remembered.
MessageAgrees(m) ==
  queue[m] = "deleted" => row[RequestOf[m]] # Unused /\ row[RequestOf[m]].remembered = TRUE

DeliveryInv ==
  /\ WorkflowInv
  /\ queue \in [Messages -> {"unsent", "visible", "inflight", "deleted"}]
  /\ holder \in [Workers -> [message : Messages \cup {Unused}, current : BOOLEAN]]
  /\ \A w \in Workers : HolderAgrees(w)
  /\ \A m \in Messages : MessageAgrees(m)

-----------------------------------------------------------------------------
(* What happens to the budget of a run. *)

\* The operations are the places of the plan.
LEMMA PlanIsFinite ==
  /\ N \in Nat /\ Operations = 1 .. N
  /\ \A i \in Operations : Reservation[i] \in Nat
  /\ MaxCost \in Nat
<1>1. Reservation \in Seq(Nat) /\ MaxCost \in Nat
  BY WorkflowAssumption DEF WorkflowAssumption
<1>2. N \in Nat /\ Operations = 1 .. N
  BY <1>1 DEF N, Operations
<1>3. QED
  BY <1>1, <1>2 DEF Operations

\* The fields of a charge and of the budgets.
LEMMA BudgetType ==
  ASSUME TypeOK, NEW r \in Requests, NEW i \in Operations
  PROVE  /\ ledger[r] \in Budgets /\ ledger[r][i] \in Charge \cup {Unused}
         /\ ledger[r][i] # Unused => /\ ledger[r][i] \in Charge /\ ledger[r][i].settled \in BOOLEAN
                                     /\ ledger[r][i].cost \in Nat
<1>1. ledger[r] \in Budgets /\ ledger[r][i] \in Charge \cup {Unused}
  BY DEF TypeOK, Budgets
<1>2. QED
  BY <1>1 DEF Charge

\* Nobody takes a reservation or a settlement back.
BudgetGrows ==
  \A r \in Requests : \A i \in Operations : Older(ledger[r][i], ledger'[r][i])

\* A budget that is left alone has grown.
LEMMA TimeGrows ==
  ASSUME ledger' = ledger
  PROVE  BudgetGrows
BY DEF BudgetGrows, Older

\* The budget of a run changes at one operation.
Charged(r, i, charge) == ledger' = [ledger EXCEPT ![r][i] = charge]

\* An operation goes on from what it was, and the others stay as they are.
LEMMA ChargeGrows ==
  ASSUME TypeOK, NEW r \in Requests, NEW i \in Operations, NEW charge \in Charge,
         Older(ledger[r][i], charge), Charged(r, i, charge)
  PROVE  /\ BudgetGrows /\ ledger' \in [Requests -> Budgets] /\ ledger'[r][i] = charge
         /\ \A k \in Operations \ {i} : ledger'[r][k] = ledger[r][k]
         /\ \A o \in Requests \ {r} : ledger'[o] = ledger[o]
<1> DEFINE budget == [ledger[r] EXCEPT ![i] = charge]
<1>1. ledger[r] \in Budgets /\ ledger \in [Requests -> Budgets]
  BY DEF TypeOK
<1>2. budget \in Budgets /\ budget[i] = charge /\ \A k \in Operations \ {i} : budget[k] = ledger[r][k]
  BY <1>1 DEF Budgets
<1>3. ledger' = [ledger EXCEPT ![r] = budget]
  BY <1>1 DEF Charged
<1> HIDE DEF budget
<1>4. ledger' \in [Requests -> Budgets]
  BY <1>1, <1>2, <1>3
<1>5. ledger'[r] = budget /\ \A o \in Requests \ {r} : ledger'[o] = ledger[o]
  BY <1>1, <1>3
<1>6. ASSUME NEW o \in Requests, NEW k \in Operations
      PROVE  Older(ledger[o][k], ledger'[o][k])
  <2>1. CASE o = r /\ k = i
    BY <1>2, <1>5, <2>1
  <2>2. CASE o # r \/ k # i
    <3>1. ledger'[o][k] = ledger[o][k]
      BY <1>2, <1>5, <2>2
    <3>2. QED
      BY <3>1 DEF Older
  <2>3. QED
    BY <2>1, <2>2
<1>7. QED
  BY <1>2, <1>4, <1>5, <1>6 DEF BudgetGrows

\* A settlement stays.
LEMMA PassedStays ==
  ASSUME BudgetGrows, NEW r \in Requests, NEW i \in Operations, Passed(r, i)
  PROVE  Passed(r, i)' /\ ledger'[r][i] = ledger[r][i]
<1>1. Older(ledger[r][i], ledger'[r][i])
  BY DEF BudgetGrows
<1>2. ledger'[r][i] = ledger[r][i]
  BY <1>1 DEF Older, Passed
<1>3. QED
  BY <1>2 DEF Passed

\* What was before stays before, and does not come back.
LEMMA OlderStays ==
  ASSUME NEW a, NEW b, NEW c, Older(a, b), Older(b, c)
  PROVE  Older(a, c) /\ (a # b => a # c)
BY DEF Older

\* A budget that was read stays one that was read before.
LEMMA ReadStays ==
  ASSUME BudgetGrows, NEW r \in Requests, NEW budget, WasRead(budget, r)
  PROVE  \A i \in Operations : Older(budget[i], ledger'[r][i])
<1> SUFFICES ASSUME NEW i \in Operations PROVE Older(budget[i], ledger'[r][i])
  OBVIOUS
<1>1. Older(budget[i], ledger[r][i]) /\ Older(ledger[r][i], ledger'[r][i])
  BY DEF BudgetGrows, WasRead
<1>2. QED
  BY <1>1, OlderStays

-----------------------------------------------------------------------------
(* Moves of one process. *)

\* What a process was given when it started, it keeps.
Continues(w) ==
  /\ worker' \in [Workers -> Process]
  /\ \A v \in Workers \ {w} : worker'[v] = worker[v]
  /\ worker'[w].request = worker[w].request
  /\ worker'[w].mode = worker[w].mode

\* A process has a record, with the fields of a process.
LEMMA ProcessFields ==
  ASSUME TypeOK, NEW w \in Workers
  PROVE  /\ worker[w] \in Process
         /\ worker[w].pc \in Places /\ worker[w].request \in Requests \cup {Unused}
         /\ worker[w].mode \in {"job", "workflow", "plain", Unused}
         /\ worker[w].outcomes \in Seq(Charge) /\ worker[w].budget \in Budgets \cup {Unused}
         /\ worker[w].stage \in {"report", "remember", "end", "print", Unused}
         /\ worker[w].answer \in Completions \cup {Unused}
<1>1. worker[w] \in Process
  BY DEF TypeOK
<1>2. QED
  BY <1>1 DEF Process

\* The record of one process is replaced.
LEMMA ProcessReplaced ==
  ASSUME TypeOK, NEW w \in Workers, NEW n \in Process, worker' = [worker EXCEPT ![w] = n]
  PROVE  /\ worker' \in [Workers -> Process] /\ worker'[w] = n
         /\ \A v \in Workers \ {w} : worker'[v] = worker[v]
<1>1. worker \in [Workers -> Process]
  BY DEF TypeOK
<1>2. QED
  BY <1>1

\* A process goes to another place.
LEMMA GoMoves ==
  ASSUME TypeOK, NEW w \in Workers, NEW pc \in Places, Go(w, pc)
  PROVE  /\ Continues(w) /\ worker'[w].pc = pc
         /\ worker'[w].outcomes = worker[w].outcomes /\ worker'[w].budget = worker[w].budget
         /\ worker'[w].stage = worker[w].stage /\ worker'[w].answer = worker[w].answer
<1> DEFINE n == [worker[w] EXCEPT !.pc = pc]
<1>1. worker' = [worker EXCEPT ![w] = n]
  BY DEF Go
<1>2. worker[w] \in Process
  BY ProcessFields
<1>3. n \in Process
  BY <1>2 DEF Process
<1>4. /\ n.pc = pc /\ n.request = worker[w].request /\ n.mode = worker[w].mode
      /\ n.outcomes = worker[w].outcomes /\ n.budget = worker[w].budget
      /\ n.stage = worker[w].stage /\ n.answer = worker[w].answer
  BY <1>2 DEF Process
<1> HIDE DEF n
<1>5. QED
  BY <1>1, <1>3, <1>4, ProcessReplaced DEF Continues

\* A process goes to a place of another stage.
LEMMA StageMoves ==
  ASSUME TypeOK, NEW w \in Workers, NEW pc \in Places,
         NEW stage \in {"report", "remember", "end", "print"},
         worker' = [worker EXCEPT ![w].pc = pc, ![w].stage = stage]
  PROVE  /\ Continues(w) /\ worker'[w].pc = pc /\ worker'[w].stage = stage
         /\ worker'[w].outcomes = worker[w].outcomes /\ worker'[w].budget = worker[w].budget
         /\ worker'[w].answer = worker[w].answer
<1> DEFINE n == [worker[w] EXCEPT !.pc = pc, !.stage = stage]
<1>1. worker' = [worker EXCEPT ![w] = n]
  OBVIOUS
<1>2. worker[w] \in Process
  BY ProcessFields
<1>3. n \in Process
  BY <1>2 DEF Process
<1>4. /\ n.pc = pc /\ n.request = worker[w].request /\ n.mode = worker[w].mode
      /\ n.outcomes = worker[w].outcomes /\ n.budget = worker[w].budget
      /\ n.stage = stage /\ n.answer = worker[w].answer
  BY <1>2 DEF Process
<1> HIDE DEF n
<1>5. QED
  BY <1>1, <1>3, <1>4, ProcessReplaced DEF Continues

\* A process learns the outcome of an operation.
LEMMA OutcomeMoves ==
  ASSUME TypeOK, NEW w \in Workers, NEW pc \in Places, NEW outcome \in Charge, Outcome(w, outcome, pc)
  PROVE  /\ Continues(w) /\ worker'[w].pc = pc
         /\ worker'[w].outcomes = Append(worker[w].outcomes, outcome)
         /\ worker'[w].budget = worker[w].budget
         /\ worker'[w].stage = worker[w].stage /\ worker'[w].answer = worker[w].answer
<1> DEFINE n == [worker[w] EXCEPT !.outcomes = Append(@, outcome), !.pc = pc]
<1>1. worker' = [worker EXCEPT ![w] = n]
  BY DEF Outcome
<1>2. worker[w] \in Process /\ worker[w].outcomes \in Seq(Charge)
  BY ProcessFields
<1>3. Append(worker[w].outcomes, outcome) \in Seq(Charge)
  BY <1>2
<1>4. n \in Process
  BY <1>2, <1>3, ZenonT(30) DEF Process
<1>5. /\ n.pc = pc /\ n.request = worker[w].request /\ n.mode = worker[w].mode
      /\ n.outcomes = Append(worker[w].outcomes, outcome) /\ n.budget = worker[w].budget
      /\ n.stage = worker[w].stage /\ n.answer = worker[w].answer
  BY <1>2 DEF Process
<1> HIDE DEF n
<1>6. QED
  BY <1>1, <1>4, <1>5, ProcessReplaced DEF Continues

-----------------------------------------------------------------------------
(* What the moves of one process leave to the others. *)

\* A receipt is not taken back: it only gains its completion and its memory.
RowsGrow ==
  \A r \in Requests : row[r] # Unused =>
    /\ row'[r] # Unused
    /\ row'[r].result = row[r].result /\ row'[r].budget = row[r].budget
    /\ row'[r].completion \in {row[r].completion, SavedCompletion(r)}
    /\ row[r].remembered = TRUE => row'[r].remembered = TRUE

\* The locks, checkpoints, rows and reservations of others are left alone.
Leaves(w) ==
  /\ \A v \in Workers \ {w} : worker'[v] = worker[v]
  /\ \A r \in Requests : lock[r] \notin {w, Unused} =>
       lock'[r] = lock[r] /\ checkpoint'[r] = checkpoint[r] /\ row'[r] = row[r]
  /\ \A r \in Requests : checkpoint'[r] # checkpoint[r] =>
       \A v \in Workers : At(v, "conflict") /\ Req(v) = r => Overtaken(r)
  /\ \A v \in Workers \ {w} : At(v, "dispatched") =>
       ledger'[Req(v)][Operation(v)] = ledger[Req(v)][Operation(v)]

\* A receipt whose budget is not the run's is overtaken.
LEMMA BehindIsOvertaken ==
  ASSUME NEW r \in Requests, RowAgrees(r), row[r] # Unused, ledger[r] # row[r].budget
  PROVE  Overtaken(r)
<1>1. ASSUME NEW i \in Operations, ledger[r][i] # row[r].budget[i] PROVE row[r].result[i] = BudgetStopped
  <2>1. i \in 1 .. Len(row[r].result)
    BY PlanIsFinite DEF RowAgrees
  <2>2. row[r].result[i] = BudgetStopped \/ row[r].result[i] = ledger[r][i]
    BY <2>1 DEF RowAgrees, Tells
  <2>3. row[r].result[i] = BudgetStopped \/ row[r].budget[i] = row[r].result[i]
    BY DEF RowAgrees, Backed
  <2>4. QED
    BY <1>1, <2>2, <2>3
<1>2. QED
  BY <1>1 DEF Overtaken

\* A receipt that is overtaken stays so.
LEMMA OvertakenStays ==
  ASSUME TypeOK, TypeOK', BudgetGrows, RowsGrow, NEW r \in Requests, RowAgrees(r), Overtaken(r)
  PROVE  Overtaken(r)'
<1>1. /\ row[r] # Unused /\ row[r] \in Row /\ row[r].budget \in Budgets /\ ledger[r] \in Budgets
      /\ ledger[r] # row[r].budget
  BY DEF Overtaken, TypeOK, Row
<1>2. row'[r] # Unused /\ row'[r].result = row[r].result /\ row'[r].budget = row[r].budget
  BY <1>1 DEF RowsGrow
<1>3. PICK i \in Operations : ledger[r][i] # row[r].budget[i]
  BY <1>1 DEF Budgets
<1>4. Older(row[r].budget[i], ledger[r][i]) /\ Older(ledger[r][i], ledger'[r][i])
  BY <1>1 DEF RowAgrees, WasRead, BudgetGrows
<1>5. ledger'[r][i] # row[r].budget[i]
  BY <1>3, <1>4, OlderStays
<1>6. ASSUME NEW k \in Operations, ledger'[r][k] # row[r].budget[k] PROVE row[r].result[k] = BudgetStopped
  <2>1. k \in 1 .. Len(row[r].result)
    BY <1>1, PlanIsFinite DEF RowAgrees
  <2>2. row[r].result[k] = BudgetStopped \/ (Passed(r, k) /\ row[r].result[k] = ledger[r][k])
    BY <1>1, <2>1 DEF RowAgrees, Tells
  <2>3. row[r].result[k] = BudgetStopped \/ row[r].budget[k] = row[r].result[k]
    BY <1>1 DEF RowAgrees, Backed
  <2>4. Passed(r, k) => ledger'[r][k] = ledger[r][k]
    BY PassedStays
  <2>5. QED
    BY <1>6, <2>2, <2>3, <2>4
<1>7. QED
  BY <1>2, <1>5, <1>6 DEF Overtaken

\* What was told of a plan remains true.
LEMMA ToldRemains ==
  ASSUME BudgetGrows, NEW r \in Requests, NEW outcomes, NEW same, same = outcomes,
         Len(outcomes) \in Nat, Tells(outcomes, r)
  PROVE  /\ Len(same) =< N
         /\ \A i \in 1 .. Len(same) :
              same[i] = BudgetStopped \/ (Passed(r, i)' /\ same[i] = ledger'[r][i])
<1>1. \A i \in 1 .. Len(outcomes) : i \in Operations
  BY PlanIsFinite DEF Tells
<1>2. ASSUME NEW i \in 1 .. Len(outcomes)
      PROVE  outcomes[i] = BudgetStopped \/ (Passed(r, i)' /\ outcomes[i] = ledger'[r][i])
  <2>1. outcomes[i] = BudgetStopped \/ (Passed(r, i) /\ outcomes[i] = ledger[r][i])
    BY DEF Tells
  <2>2. i \in Operations
    BY <1>1
  <2>3. QED
    BY <2>1, <2>2, PassedStays
<1>3. QED
  BY <1>2 DEF Tells

\* What is true of the run of a process.
LEMMA TellsItsRun ==
  ASSUME NEW w \in Workers, NEW r \in Requests, worker'[w].request = r,
         Len(worker'[w].outcomes) =< N,
         \A i \in 1 .. Len(worker'[w].outcomes) :
           \/ worker'[w].outcomes[i] = BudgetStopped
           \/ Passed(r, i)' /\ worker'[w].outcomes[i] = ledger'[r][i]
  PROVE  Tells(worker[w].outcomes, Req(w))'
<1>1. ASSUME NEW j PROVE Passed(Req(w), j)' <=> Passed(r, j)'
  BY DEF Passed, Req
<1>2. QED
  BY <1>1 DEF Tells, Req

\* The place of a process that does not move agrees with what became of the rest.
LEMMA OthersAgree ==
  ASSUME WorkflowInv, TypeOK', NEW w, Leaves(w), BudgetGrows, RowsGrow,
         NEW v \in Workers \ {w}
  PROVE  PlaceAgrees(v)'
<1> SUFFICES ASSUME worker[v].pc # "idle" PROVE PlaceAgrees(v)'
  BY DEF Leaves, PlaceAgrees
<1>0. worker'[v] = worker[v]
  BY DEF Leaves
<1> DEFINE r == worker[v].request
<1>1. r \in Requests /\ PlaceAgrees(v) /\ ThreadAgrees(v) /\ PlanAgrees(v) /\ AnswerAgrees(v) /\ TypeOK
  BY DEF WorkflowInv, PlaceAgrees, Req
<1>2. worker'[v].request = r
  BY <1>0
<1>3. /\ (Planning(v)' <=> Planning(v)) /\ (Staged(v)' <=> Staged(v)) /\ (Printing(v)' <=> Printing(v))
      /\ (Recording(v)' <=> Recording(v))
  BY <1>0 DEF Planning, Staged, Printing, Recording
<1>4. Holding(v)' <=> Holding(v)
  BY <1>0, <1>3 DEF Holding
<1>5. ThreadAgrees(v)'
  <2>1. ASSUME Holding(v)
        PROVE  lock'[r] = v /\ lock[r] = v /\ checkpoint'[r] = checkpoint[r] /\ row'[r] = row[r]
    <3>1. lock[r] = v
      BY <1>1, <2>1 DEF ThreadAgrees, Req
    <3>2. lock[r] \notin {w, Unused}
      BY <3>1, WorkflowAssumption DEF WorkflowAssumption
    <3>3. QED
      BY <1>1, <3>1, <3>2 DEF Leaves
  <2>2. worker[v].pc = "conflict" => checkpoint'[r] = InputCheckpoint \/ Overtaken(Req(v))'
    <3> SUFFICES ASSUME worker[v].pc = "conflict", checkpoint'[r] # InputCheckpoint
                 PROVE  Overtaken(Req(v))'
      OBVIOUS
    <3>1. PICK q \in Requests : q = r
      BY <1>1
    <3>2. checkpoint[q] = InputCheckpoint \/ Overtaken(q)
      BY <1>1, <3>1 DEF ThreadAgrees, Req
    <3>3. checkpoint'[q] # checkpoint[q] => Overtaken(q)
      BY <3>1 DEF Leaves, At, Req
    <3>4. Overtaken(q) /\ RowAgrees(q)
      BY <3>1, <3>2, <3>3 DEF WorkflowInv
    <3>5. Overtaken(q)'
      BY <1>1, <3>4, OvertakenStays
    <3>6. QED
      BY <1>2, <3>1, <3>5 DEF Overtaken, Req
  <2>3. worker[v].pc = "starting" => Holding(v)
    BY DEF Holding
  <2>4. Holding(v)' => lock'[Req(v)'] = v
    BY <1>2, <1>4, <2>1 DEF Req
  <2>5. /\ worker'[v].pc = "starting" => checkpoint'[r] = InputCheckpoint
        /\ worker'[v].pc = "conflict" => checkpoint'[r] = InputCheckpoint \/ Overtaken(Req(v))'
    BY <1>0, <1>1, <2>1, <2>2, <2>3 DEF ThreadAgrees, Req
  <2>6. Planning(v)' => checkpoint'[r].next = "research"
    BY <1>1, <1>3, <2>1 DEF ThreadAgrees, Req, Holding
  <2>7. Staged(v)' => /\ worker'[v].stage \in {"report", "remember", "end"}
                      /\ checkpoint'[r].next = worker'[v].stage
    BY <1>0, <1>1, <1>3, <2>1 DEF ThreadAgrees, Req, Holding
  <2>8. worker'[v].pc = "remembered" => checkpoint'[r].next = "remember"
    BY <1>0, <1>1, <2>1 DEF ThreadAgrees, Req, Holding
  <2>9. worker'[v].pc = "remembered" => row'[r].remembered = TRUE
    <3>1. worker[v].pc = "remembered" => row[r] # Unused
      BY <1>1, <2>1 DEF WorkflowInv, CheckpointAgrees, ThreadAgrees, Req
    <3>2. QED
      BY <1>0, <1>1, <3>1 DEF RowsGrow, ThreadAgrees, Req
  <2>10. Recording(v)' => row'[r] = Unused
    <3>1. Recording(v) => Holding(v)
      BY DEF Recording, Planning, Holding
    <3>2. QED
      BY <1>1, <1>3, <2>1, <3>1 DEF ThreadAgrees, Req
  <2>11. QED
    BY <1>2, <2>4, <2>5, <2>6, <2>7, <2>8, <2>9, <2>10 DEF ThreadAgrees, Req, InputCheckpoint, NoCheckpoint
<1>6. worker[v].outcomes \in Seq(Charge) /\ Len(worker[v].outcomes) \in Nat
  BY <1>1, ProcessFields
<1>8. PlanAgrees(v)'
  <2>1. Tells(worker[v].outcomes, Req(v))'
    <3>1. PICK q \in Requests : q = r
      BY <1>1
    <3>2. Tells(worker[v].outcomes, q) /\ worker'[v].outcomes = worker[v].outcomes
      BY <1>0, <1>1, <3>1 DEF PlanAgrees, Req
    <3>3. QED
      BY <1>2, <1>6, <3>1, <3>2, ToldRemains, TellsItsRun
  <2>2. worker'[v].pc = "dispatched" =>
          Operation(v)' \in Operations /\ ledger'[r][Operation(v)'] = Reserved
    BY <1>0, <1>1 DEF PlanAgrees, Req, Operation, Leaves, At
  <2>3. worker'[v].pc \in {"inserting", "inserted", "finished"} \/ Printing(v)' =>
          Len(worker'[v].outcomes) = N
    BY <1>0, <1>1, <1>3 DEF PlanAgrees, Req
  <2>4. worker'[v].pc = "inserting" =>
          /\ worker'[v].budget \in Budgets /\ Backed(worker'[v].outcomes, worker'[v].budget)
          /\ \A i \in Operations : Older(worker'[v].budget[i], ledger'[r][i])
    <3> SUFFICES ASSUME worker[v].pc = "inserting"
                 PROVE  /\ worker[v].budget \in Budgets /\ Backed(worker[v].outcomes, worker[v].budget)
                        /\ \A i \in Operations : Older(worker[v].budget[i], ledger'[r][i])
      BY <1>0
    <3>1. /\ worker[v].budget \in Budgets /\ Backed(worker[v].outcomes, worker[v].budget)
          /\ WasRead(worker[v].budget, Req(v))
      BY <1>1 DEF PlanAgrees
    <3>2. PICK q \in Requests : q = Req(v)
      BY <1>1 DEF Req
    <3>3. \A i \in Operations : Older(worker[v].budget[i], ledger'[q][i])
      BY <3>1, <3>2, ReadStays
    <3>4. QED
      BY <3>1, <3>2, <3>3 DEF Req
  <2>5. worker'[v].pc = "inserted" =>
          /\ row'[r] # Unused /\ row'[r].result = worker'[v].outcomes
          /\ row'[r].budget = worker'[v].budget
    BY <1>0, <1>1 DEF PlanAgrees, Req, RowsGrow
  <2>6. worker'[v].pc \in {"reserving", "expired"} => Operation(v)' \in Operations
    BY <1>0, <1>1 DEF PlanAgrees, Operation
  <2>7. QED
    BY <1>2, <2>1, <2>2, <2>3, <2>4, <2>5, <2>6 DEF PlanAgrees, Req, Reserved, WasRead, Backed
<1>9. AnswerAgrees(v)'
  <2>1. (worker'[v].pc = "finished" \/ Printing(v)') /\ worker'[v].mode # "plain" =>
          row'[r] # Unused /\ row'[r].result = worker'[v].outcomes
    BY <1>0, <1>1, <1>3 DEF AnswerAgrees, Req, RowsGrow
  <2>2. worker'[v].pc = "finished" =>
          /\ worker'[v].answer.result = worker'[v].outcomes
          /\ Backed(worker'[v].outcomes, worker'[v].answer.budget)
    BY <1>0, <1>1 DEF AnswerAgrees
  <2>3. worker'[v].mode = "job" => ~Printing(v)'
    BY <1>0, <1>1, <1>3 DEF AnswerAgrees
  <2>4. worker'[v].pc = "finished" /\ worker'[v].mode = "job" =>
          row'[r].remembered = TRUE /\ worker'[v].answer = Completion(row'[r].result, row'[r].budget)
    BY <1>0, <1>1 DEF AnswerAgrees, Req, RowsGrow, SavedCompletion, Completion
  <2>5. QED
    BY <1>2, <2>1, <2>2, <2>3, <2>4 DEF AnswerAgrees, Req, SavedCompletion, Completion, Backed
<1>10. QED
  BY <1>1, <1>2, <1>5, <1>8, <1>9 DEF PlaceAgrees, Req

\* A row that is left alone goes on agreeing with the budget.
LEMMA RowRemains ==
  ASSUME WorkflowInv, TypeOK', BudgetGrows, NEW r \in Requests, row'[r] = row[r]
  PROVE  RowAgrees(r)'
<1>1. RowAgrees(r) /\ TypeOK
  BY DEF WorkflowInv
<1>2. SavedCompletion(r)' = SavedCompletion(r)
  BY DEF SavedCompletion, Completion
<1>3. CASE row[r] # Unused
  <2>1. row[r] \in Row /\ row[r].result \in Seq(Charge)
    BY <1>1, <1>3 DEF TypeOK, Row
  <2>2. Len(row[r].result) \in Nat /\ row'[r].result = row[r].result
    BY <2>1
  <2>3. \A i \in Operations : Older(row'[r].budget[i], ledger'[r][i])
    BY <1>1, <1>3, ReadStays DEF RowAgrees
  <2>4. Tells(row[r].result, r)'
    <3>1. Tells(row[r].result, r)
      BY <1>1, <1>3 DEF RowAgrees
    <3>2. /\ Len(row'[r].result) =< N
          /\ \A i \in 1 .. Len(row'[r].result) :
               \/ row'[r].result[i] = BudgetStopped
               \/ Passed(r, i)' /\ row'[r].result[i] = ledger'[r][i]
      BY <2>2, <3>1, ToldRemains
    <3>3. QED
      BY <3>2 DEF Tells
  <2>5. QED
    BY <1>1, <1>2, <1>3, <2>2, <2>3, <2>4 DEF RowAgrees, WasRead, Backed
<1>4. CASE row[r] = Unused
  BY <1>4 DEF RowAgrees
<1>5. QED
  BY <1>3, <1>4

\* The runs whose row and checkpoint are left alone.
LEMMA RunsAgree ==
  ASSUME WorkflowInv, TypeOK', BudgetGrows, NEW r \in Requests, row'[r] = row[r],
         checkpoint'[r] = checkpoint[r]
  PROVE  RowAgrees(r)' /\ CheckpointAgrees(r)'
<1>1. CheckpointAgrees(r)
  BY DEF WorkflowInv
<1>2. SavedCompletion(r)' = SavedCompletion(r)
  BY DEF SavedCompletion, Completion
<1>3. CheckpointAgrees(r)'
  BY <1>1, <1>2 DEF CheckpointAgrees, InputCheckpoint, NoCheckpoint
<1>4. QED
  BY <1>3, RowRemains

\* One process moves, and the others keep their places.
LEMMA MoveKeeps ==
  ASSUME WorkflowInv, TypeOK', NEW w \in Workers, Leaves(w), BudgetGrows, RowsGrow, PlaceAgrees(w)',
         \A r \in Requests : RowAgrees(r)' /\ CheckpointAgrees(r)',
         At(w, "dispatched")' =>
           \A v \in Workers \ {w} :
             At(v, "dispatched") => (Req(v) # Req(w)') \/ (Operation(v) # Operation(w)'),
         At(w, "starting")' => \A v \in Workers \ {w} : At(v, "conflict") => Req(v) # Req(w)',
         At(w, "conflict")' => \A v \in Workers \ {w} : At(v, "starting") => Req(v) # Req(w)'
  PROVE  WorkflowInv'
<1>1. \A v \in Workers : PlaceAgrees(v)'
  BY OthersAgree
<1>2. \A v \in Workers \ {w} : worker'[v] = worker[v]
  BY DEF Leaves
<1>3. OneDispatch'
  BY <1>2 DEF OneDispatch, WorkflowInv, At, Req, Operation
<1>4. StrandedStays'
  BY <1>2 DEF StrandedStays, WorkflowInv, At, Req
<1>5. QED
  BY <1>1, <1>3, <1>4 DEF WorkflowInv

-----------------------------------------------------------------------------
(* Moves that change nothing but the process, its locks and the report file. *)

\* Where a process stands before it moves.
LEMMA Standing ==
  ASSUME WorkflowInv, NEW w \in Workers, worker[w].pc # "idle"
  PROVE  /\ Req(w) \in Requests /\ ThreadAgrees(w) /\ PlanAgrees(w) /\ AnswerAgrees(w)
         /\ TypeOK /\ RowAgrees(Req(w)) /\ CheckpointAgrees(Req(w))
         /\ Tells(worker[w].outcomes, Req(w))
         /\ worker[w].outcomes \in Seq(Charge) /\ Len(worker[w].outcomes) \in Nat
<1>1. PlaceAgrees(w) /\ TypeOK
  BY DEF WorkflowInv
<1>2. Req(w) \in Requests /\ ThreadAgrees(w) /\ PlanAgrees(w) /\ AnswerAgrees(w)
  BY <1>1 DEF PlaceAgrees
<1>3. worker[w].outcomes \in Seq(Charge)
  BY <1>1, ProcessFields
<1>4. QED
  BY <1>1, <1>2, <1>3 DEF WorkflowInv, PlanAgrees

\* What a process was told remains true while it keeps its outcomes.
LEMMA TellsRemains ==
  ASSUME WorkflowInv, BudgetGrows, NEW w \in Workers, worker[w].pc # "idle",
         worker'[w].request = worker[w].request, worker'[w].outcomes = worker[w].outcomes
  PROVE  Tells(worker[w].outcomes, Req(w))'
<1>1. /\ Req(w) \in Requests /\ Tells(worker[w].outcomes, Req(w)) /\ Len(worker[w].outcomes) \in Nat
  BY Standing
<1>2. PICK r \in Requests : r = Req(w)
  BY <1>1
<1>3. worker'[w].request = r /\ Tells(worker[w].outcomes, r)
  BY <1>1, <1>2 DEF Req
<1>4. QED
  BY <1>1, <1>3, ToldRemains, TellsItsRun

\* A process lets go of its locks only.
LEMMA UnlocksItsOwn ==
  ASSUME TypeOK, NEW w \in Workers, lock' \in {lock, Unlocked(w)}
  PROVE  /\ lock' \in [Requests -> Workers \cup {Unused}]
         /\ \A r \in Requests : lock[r] # w => lock'[r] = lock[r]
BY DEF TypeOK, Unlocked

\* A move that leaves budgets, receipts and checkpoints alone.
LEMMA QuietKeeps ==
  ASSUME WorkflowInv, NEW w \in Workers,
         worker' \in [Workers -> Process], \A v \in Workers \ {w} : worker'[v] = worker[v],
         lock' \in [Requests -> Workers \cup {Unused}],
         \A r \in Requests : lock[r] \notin {w, Unused} => lock'[r] = lock[r],
         report' \in [Requests -> {"absent", "partial", "whole", "edited"}],
         ledger' = ledger, row' = row, checkpoint' = checkpoint,
         PlaceAgrees(w)', worker'[w].pc \notin {"dispatched", "starting"},
         At(w, "conflict")' => \A v \in Workers \ {w} : At(v, "starting") => Req(v) # Req(w)'
  PROVE  WorkflowInv'
<1>1. TypeOK'
  BY DEF TypeOK, WorkflowInv
<1>2. BudgetGrows
  BY TimeGrows
<1>3. RowsGrow
  BY DEF RowsGrow
<1>4. Leaves(w)
  BY DEF Leaves
<1>5. \A r \in Requests : RowAgrees(r)' /\ CheckpointAgrees(r)'
  BY <1>1, <1>2, <1>3, RunsAgree
<1>6. ~At(w, "dispatched")' /\ ~At(w, "starting")'
  BY DEF At
<1>7. QED
  BY <1>1, <1>2, <1>3, <1>4, <1>5, <1>6, MoveKeeps

\* A process becomes idle.
LEMMA IdleKeeps ==
  ASSUME WorkflowInv, NEW w \in Workers, worker' = [worker EXCEPT ![w] = Idle],
         lock' \in {lock, Unlocked(w)},
         ledger' = ledger, row' = row, checkpoint' = checkpoint, report' = report
  PROVE  WorkflowInv' /\ worker'[w] = Idle /\ \A v \in Workers \ {w} : worker'[v] = worker[v]
<1>0. TypeOK
  BY DEF WorkflowInv
<1>1. Idle \in Process
  BY DEF Idle, Process, Places
<1>2. /\ worker' \in [Workers -> Process] /\ worker'[w] = Idle
      /\ \A v \in Workers \ {w} : worker'[v] = worker[v]
  BY <1>0, <1>1, ProcessReplaced
<1>3. worker'[w].pc = "idle"
  BY <1>2 DEF Idle
<1>4. PlaceAgrees(w)' /\ ~At(w, "conflict")'
  BY <1>3 DEF PlaceAgrees, At
<1>5. report' \in [Requests -> {"absent", "partial", "whole", "edited"}]
  BY <1>0 DEF TypeOK
<1>6. QED
  BY <1>0, <1>2, <1>3, <1>4, <1>5, UnlocksItsOwn, QuietKeeps

\* A process leaves with an error.
LEMMA RaiseKeeps ==
  ASSUME WorkflowInv, NEW w \in Workers, worker[w].pc # "idle", NEW error \in Errors, Raise(w, error),
         ledger' = ledger, row' = row, checkpoint' = checkpoint, report' = report,
         error = "conflict" => /\ checkpoint[Req(w)] = InputCheckpoint \/ Overtaken(Req(w))
                               /\ \A v \in Workers : At(v, "starting") => Req(v) # Req(w)
  PROVE  WorkflowInv' /\ Continues(w)
<1>0. TypeOK /\ Req(w) \in Requests
  BY Standing
<1>1. error \in Places
  BY DEF Places
<1>2. Continues(w) /\ worker'[w].pc = error /\ worker'[w].outcomes = worker[w].outcomes
  BY <1>0, <1>1, GoMoves DEF Raise
<1>3. Req(w)' = Req(w)
  BY <1>2 DEF Continues, Req
<1>4. ~Holding(w)' /\ ~Planning(w)' /\ ~Staged(w)' /\ ~Printing(w)' /\ ~Recording(w)'
  BY <1>2 DEF Holding, Planning, Staged, Printing, Exports, Errors, Recording, Operating
<1>5. Tells(worker[w].outcomes, Req(w))'
  BY <1>2, TimeGrows, TellsRemains DEF Continues
<1>6. worker'[w].pc \notin {"idle", "starting", "remembered", "reserving", "expired", "dispatched",
                            "inserting", "inserted", "finished"}
  BY <1>2 DEF Errors
<1>7. PlaceAgrees(w)'
  <2>1. Overtaken(Req(w)) => Overtaken(Req(w))'
    BY <1>3 DEF Overtaken
  <2>a. ThreadAgrees(w)'
    BY <1>2, <1>3, <1>4, <1>6, <2>1 DEF ThreadAgrees, InputCheckpoint, NoCheckpoint
  <2>2. PlanAgrees(w)'
    BY <1>4, <1>5, <1>6 DEF PlanAgrees
  <2>3. AnswerAgrees(w)'
    BY <1>4, <1>6 DEF AnswerAgrees
  <2>4. QED
    BY <1>0, <1>3, <2>a, <2>2, <2>3 DEF PlaceAgrees
<1>8. report' \in [Requests -> {"absent", "partial", "whole", "edited"}]
  BY <1>0 DEF TypeOK
<1>9. At(w, "conflict")' => \A v \in Workers \ {w} : At(v, "starting") => Req(v) # Req(w)'
  BY <1>2, <1>3 DEF At
<1>10. lock' = Unlocked(w)
  BY DEF Raise
<1>11. QED
  BY <1>0, <1>2, <1>6, <1>7, <1>8, <1>9, <1>10, UnlocksItsOwn, QuietKeeps DEF Continues

\* A process that verifies, exports or writes goes on in its stage.
LEMMA ExportingKeeps ==
  ASSUME WorkflowInv, NEW w \in Workers, worker[w].pc \in {"verifying"} \cup Exports,
         NEW pc \in Exports, Go(w, pc), lock' = lock,
         report' \in [Requests -> {"absent", "partial", "whole", "edited"}],
         ledger' = ledger, row' = row, checkpoint' = checkpoint
  PROVE  WorkflowInv'
<1>0. worker[w].pc # "idle"
  BY DEF Exports
<1>1. TypeOK /\ Req(w) \in Requests /\ ThreadAgrees(w) /\ PlanAgrees(w) /\ AnswerAgrees(w)
  BY <1>0, Standing
<1>2. pc \in Places /\ lock' \in [Requests -> Workers \cup {Unused}]
  BY <1>1 DEF Places, Exports, TypeOK
<1>3. /\ Continues(w) /\ worker'[w].pc = pc /\ worker'[w].outcomes = worker[w].outcomes
      /\ worker'[w].stage = worker[w].stage /\ worker'[w].answer = worker[w].answer
  BY <1>1, <1>2, GoMoves
<1>4. Req(w)' = Req(w)
  BY <1>3 DEF Continues, Req
<1>5. worker[w].pc = "verifying" => worker[w].stage # "print"
  BY <1>1 DEF ThreadAgrees, Staged
<1>6. Staged(w)' <=> Staged(w)
  BY <1>3, <1>5 DEF Staged, Exports
<1>7. Printing(w)' <=> Printing(w)
  BY <1>3, <1>5 DEF Printing, Exports
<1>8. ~Planning(w)' /\ ~Recording(w)'
  BY <1>3 DEF Planning, Exports, Recording, Operating
<1>9. Holding(w)' => Holding(w)
  BY <1>3, <1>6, <1>8 DEF Holding, Exports
<1>10. Tells(worker[w].outcomes, Req(w))'
  BY <1>0, <1>3, TimeGrows, TellsRemains DEF Continues
<1>11. worker'[w].pc \notin Errors /\ worker'[w].pc \notin
         {"idle", "starting", "remembered", "reserving", "expired", "dispatched", "inserting", "inserted",
          "finished", "conflict"}
  BY <1>3 DEF Exports, Errors
<1>12. ThreadAgrees(w)'
  <2>1. Staged(w)' => /\ worker'[w].stage \in {"report", "remember", "end"}
                      /\ checkpoint'[Req(w)'].next = worker'[w].stage
    BY <1>1, <1>3, <1>4, <1>6 DEF ThreadAgrees
  <2>2. Holding(w)' => lock'[Req(w)'] = w
    BY <1>1, <1>4, <1>9 DEF ThreadAgrees
  <2>3. QED
    BY <2>1, <2>2, <1>8, <1>11 DEF ThreadAgrees
<1>13. PlanAgrees(w)'
  BY <1>1, <1>3, <1>7, <1>10, <1>11 DEF PlanAgrees
<1>14. AnswerAgrees(w)'
  BY <1>1, <1>3, <1>4, <1>7, <1>11 DEF AnswerAgrees, Continues
<1>15. PlaceAgrees(w)'
  BY <1>1, <1>4, <1>12, <1>13, <1>14 DEF PlaceAgrees
<1>16. ~At(w, "conflict")'
  BY <1>11 DEF At
<1>17. QED
  BY <1>2, <1>3, <1>11, <1>15, <1>16, QuietKeeps DEF Continues

\* A stage finds the row, the checkpoint and the budget as it expects them, unless a command has
\* overtaken the receipt.
LEMMA StagesAreConsistent ==
  ASSUME WorkflowInv, NEW w \in Workers, At(w, "verifying")
  PROVE  Consistent(w) \/ Overtaken(Req(w))
<1>1. worker[w].pc = "verifying" /\ worker[w].pc # "idle"
  BY DEF At
<1>2. Req(w) \in Requests /\ ThreadAgrees(w) /\ RowAgrees(Req(w)) /\ CheckpointAgrees(Req(w))
  BY <1>1, Standing
<1>3. /\ worker[w].stage \in {"report", "remember", "end"}
      /\ checkpoint[Req(w)].next = worker[w].stage
  BY <1>1, <1>2 DEF ThreadAgrees, Staged
<1>4. row[Req(w)] # Unused
  BY <1>2, <1>3 DEF CheckpointAgrees
<1>5. CASE row[Req(w)].budget = ledger[Req(w)]
  BY <1>2, <1>3, <1>4, <1>5 DEF Consistent, RowAgrees, CheckpointAgrees
<1>6. CASE row[Req(w)].budget # ledger[Req(w)]
  <2>1. PICK r \in Requests : r = Req(w)
    BY <1>2
  <2>2. Overtaken(r)
    BY <1>2, <1>4, <1>6, <2>1, BehindIsOvertaken
  <2>3. QED
    BY <2>1, <2>2
<1>7. QED
  BY <1>5, <1>6

\* A process that has a thread: nobody else starts it.
LEMMA NobodyElseStarts ==
  ASSUME WorkflowInv, NEW w \in Workers, ~At(w, "starting"), lock[Req(w)] \in {w, Unused},
         NEW v \in Workers, At(v, "starting")
  PROVE  Req(v) # Req(w)
<1>1. ThreadAgrees(v) /\ Holding(v)
  BY Standing DEF At, Holding
<1>2. lock[Req(v)] = v /\ v # w
  BY <1>1 DEF ThreadAgrees
<1>3. QED
  BY <1>2, WorkflowAssumption DEF WorkflowAssumption

\* Verifying.
LEMMA VerifyKeeps ==
  ASSUME WorkflowInv, NEW w \in Workers, Verify(w)
  PROVE  WorkflowInv'
<1>1. /\ Consistent(w) \/ Overtaken(Req(w))
      /\ worker[w].pc = "verifying" /\ worker[w].pc # "idle" /\ ~At(w, "starting")
  BY StagesAreConsistent DEF Verify, At
<1>2. ledger' = ledger /\ row' = row /\ checkpoint' = checkpoint /\ report' = report
  BY DEF Verify
<1>3. report \in [Requests -> {"absent", "partial", "whole", "edited"}] /\ "exporting" \in Exports
      /\ "conflict" \in Errors
  BY DEF WorkflowInv, TypeOK, Exports, Errors
<1>4. CASE Consistent(w)
  <2>1. Go(w, "exporting") /\ lock' = lock
    BY <1>4 DEF Verify
  <2>2. QED
    BY <1>1, <1>2, <1>3, <2>1, ExportingKeeps
<1>5. CASE ~Consistent(w)
  <2>1. Raise(w, "conflict") /\ Overtaken(Req(w))
    BY <1>1, <1>5 DEF Verify
  <2>2. lock[Req(w)] = w
    BY <1>1, Standing DEF ThreadAgrees, Holding, Staged
  <2>3. \A v \in Workers : At(v, "starting") => Req(v) # Req(w)
    BY <1>1, <2>2, NobodyElseStarts
  <2>4. QED
    BY <1>1, <1>2, <1>3, <2>1, <2>3, RaiseKeeps
<1>6. QED
  BY <1>4, <1>5

\* Opening the report file.
LEMMA ExportKeeps ==
  ASSUME WorkflowInv, NEW w \in Workers, Export(w)
  PROVE  WorkflowInv'
<1>0. worker[w].pc = "exporting" /\ worker[w].pc \in Exports /\ TypeOK
  BY DEF Export, At, Exports, WorkflowInv
<1>1. ledger' = ledger /\ row' = row /\ checkpoint' = checkpoint
  BY DEF Export
<1>2. CASE report[Req(w)] = "absent"
  <2>1. /\ report' = [report EXCEPT ![Req(w)] = "partial"] /\ Go(w, "writing") /\ lock' = lock
    BY <1>2 DEF Export
  <2>2. report' \in [Requests -> {"absent", "partial", "whole", "edited"}] /\ "writing" \in Exports
    BY <1>0, <2>1 DEF TypeOK, Exports
  <2>3. QED
    BY <1>0, <1>1, <2>1, <2>2, ExportingKeeps
<1>3. CASE report[Req(w)] = "whole"
  <2>1. Go(w, "completing") /\ lock' = lock /\ report' = report
    BY <1>3 DEF Export
  <2>2. report' \in [Requests -> {"absent", "partial", "whole", "edited"}] /\ "completing" \in Exports
    BY <1>0, <2>1 DEF TypeOK, Exports
  <2>3. QED
    BY <1>0, <1>1, <2>1, <2>2, ExportingKeeps
<1>4. CASE report[Req(w)] \notin {"absent", "whole"}
  <2>1. Raise(w, "export_invalid") /\ report' = report
    BY <1>4 DEF Export
  <2>2. "export_invalid" \in Errors
    BY DEF Errors
  <2>3. QED
    BY <1>0, <1>1, <2>1, <2>2, RaiseKeeps
<1>5. QED
  BY <1>2, <1>3, <1>4

\* Writing the report file.
LEMMA WriteKeeps ==
  ASSUME WorkflowInv, NEW w \in Workers, Write(w)
  PROVE  WorkflowInv'
<1>1. worker[w].pc = "writing" /\ worker[w].pc \in Exports /\ "completing" \in Exports /\ TypeOK
  BY DEF Write, At, Exports, WorkflowInv
<1>2. /\ Go(w, "completing") /\ lock' = lock /\ ledger' = ledger /\ row' = row
      /\ checkpoint' = checkpoint
      /\ report' = [report EXCEPT ![Req(w)] = IF @ = "partial" THEN "whole" ELSE @]
  BY DEF Write
<1>3. report' \in [Requests -> {"absent", "partial", "whole", "edited"}]
  BY <1>1, <1>2 DEF TypeOK
<1>4. QED
  BY <1>1, <1>2, <1>3, ExportingKeeps

\* Errors of the budget and of the lock.
LEMMA RefusalKeeps ==
  ASSUME WorkflowInv, NEW w \in Workers, OperateUncertain(w) \/ LockBusy(w)
  PROVE  WorkflowInv'
<1>1. worker[w].pc # "idle" /\ "uncertain" \in Errors /\ "busy" \in Errors
  BY DEF OperateUncertain, LockBusy, At, Errors
<1>2. CASE OperateUncertain(w)
  BY <1>1, <1>2, RaiseKeeps DEF OperateUncertain
<1>3. CASE LockBusy(w)
  BY <1>1, <1>3, RaiseKeeps DEF LockBusy
<1>4. QED
  BY <1>2, <1>3

\* A process that ends or stops.
LEMMA EndKeeps ==
  ASSUME WorkflowInv, NEW w \in Workers, Exit(w) \/ Stop(w)
  PROVE  WorkflowInv'
BY IdleKeeps DEF Exit, Stop

\* finish() returns what the row tells.
LEMMA FinishKeeps ==
  ASSUME WorkflowInv, NEW w \in Workers, Finish(w)
  PROVE  WorkflowInv'
<1> DEFINE r == Req(w)
           pc == IF worker[w].mode = "job" THEN "finished" ELSE "exporting"
           n == [worker[w] EXCEPT !.pc = pc, !.stage = "print", !.outcomes = row[r].result,
                                  !.answer = SavedCompletion(r)]
<1>0. worker[w].pc = "completing" /\ worker[w].stage = "end" /\ worker[w].pc # "idle"
  BY DEF Finish, At
<1>1. /\ TypeOK /\ r \in Requests /\ ThreadAgrees(w) /\ RowAgrees(r) /\ CheckpointAgrees(r)
      /\ worker[w] \in Process
  BY <1>0, Standing, ProcessFields
<1>2. /\ worker' = [worker EXCEPT ![w] = n] /\ lock' = Unlocked(w) /\ ledger' = ledger
      /\ row' = row /\ checkpoint' = checkpoint /\ report' = report
  BY DEF Finish
<1>3. checkpoint[r].next = "end"
  BY <1>0, <1>1 DEF ThreadAgrees, Staged, Exports
<1>4. /\ row[r] # Unused /\ row[r].remembered = TRUE /\ Tells(row[r].result, r)
      /\ Len(row[r].result) = N /\ Backed(row[r].result, row[r].budget)
  BY <1>1, <1>3 DEF CheckpointAgrees, RowAgrees
<1>5. row[r] \in Row
  BY <1>1, <1>4 DEF TypeOK
<1>6. row[r].result \in Seq(Charge) /\ row[r].budget \in Budgets
  BY <1>5 DEF Row
<1>7. /\ SavedCompletion(r) \in Completions /\ SavedCompletion(r).result = row[r].result
      /\ SavedCompletion(r).budget = row[r].budget
  BY <1>6 DEF SavedCompletion, Completion, Completions
<1>8. pc \in {"finished", "exporting"} /\ pc \in Places
  BY DEF Places
<1>9. /\ n.pc = pc /\ n.request = worker[w].request /\ n.mode = worker[w].mode
      /\ n.outcomes = row[r].result /\ n.stage = "print" /\ n.answer = SavedCompletion(r)
  BY <1>1 DEF Process
<1>10. n \in Process
  <2> DEFINE result == row[r].result
             answer == SavedCompletion(r)
  <2>1. n = [worker[w] EXCEPT !.pc = pc, !.stage = "print", !.outcomes = result, !.answer = answer]
    OBVIOUS
  <2>2. result \in Seq(Charge) /\ answer \in Completions
    BY <1>6, <1>7
  <2> HIDE DEF result, answer, pc, n
  <2>3. QED
    BY <1>1, <1>8, <2>1, <2>2, ZenonT(30) DEF Process
<1>11. pc = "finished" <=> worker[w].mode = "job"
  OBVIOUS
<1> HIDE DEF n, pc
<1>12. worker' \in [Workers -> Process] /\ worker'[w] = n /\ \A v \in Workers \ {w} : worker'[v] = worker[v]
  BY <1>1, <1>2, <1>10, ProcessReplaced
<1>13. worker'[w].request = r /\ worker'[w].outcomes = row[r].result
  BY <1>9, <1>12 DEF Req
<1>14. Tells(worker[w].outcomes, Req(w))'
  <2>1. PICK q \in Requests : q = r
    BY <1>1
  <2>2. Tells(row[q].result, q) /\ Len(row[q].result) \in Nat
    BY <1>4, <1>6, <2>1
  <2>3. QED
    BY <1>2, <1>13, <2>1, <2>2, TimeGrows, ToldRemains, TellsItsRun
<1>15. ~Holding(w)' /\ ~Planning(w)' /\ ~Staged(w)' /\ ~Recording(w)'
  BY <1>8, <1>9, <1>12 DEF Holding, Planning, Staged, Exports, Recording, Operating
<1>16. ThreadAgrees(w)'
  BY <1>8, <1>9, <1>12, <1>15 DEF ThreadAgrees
<1>17. PlanAgrees(w)'
  BY <1>4, <1>8, <1>9, <1>12, <1>13, <1>14 DEF PlanAgrees
<1>18. AnswerAgrees(w)'
  <2>1. Printing(w)' => worker'[w].mode # "job"
    BY <1>9, <1>11, <1>12 DEF Printing, Exports
  <2>2. /\ row'[r] # Unused /\ row'[r].remembered = TRUE /\ row'[r].result = worker'[w].outcomes
        /\ worker'[w].answer.result = worker'[w].outcomes
        /\ Backed(worker'[w].outcomes, worker'[w].answer.budget)
        /\ worker'[w].answer = Completion(row'[r].result, row'[r].budget)
    BY <1>2, <1>4, <1>7, <1>9, <1>12, <1>13 DEF SavedCompletion
  <2>3. QED
    BY <1>13, <2>1, <2>2 DEF AnswerAgrees, Req, SavedCompletion, Completion, Backed
<1>19. PlaceAgrees(w)'
  BY <1>1, <1>13, <1>16, <1>17, <1>18 DEF PlaceAgrees, Req
<1>20. worker'[w].pc \notin {"dispatched", "starting"} /\ ~At(w, "conflict")'
       /\ report' \in [Requests -> {"absent", "partial", "whole", "edited"}]
  BY <1>1, <1>2, <1>8, <1>9, <1>12 DEF At, TypeOK
<1>21. QED
  BY <1>1, <1>2, <1>12, <1>19, <1>20, UnlocksItsOwn, QuietKeeps

\* The command prints what it was told and the budget as it is.
LEMMA PrintKeeps ==
  ASSUME WorkflowInv, NEW w \in Workers, PrintCompletion(w)
  PROVE  WorkflowInv'
<1> DEFINE r == Req(w)
           answer == Completion(worker[w].outcomes, ledger[r])
           n == [worker[w] EXCEPT !.pc = "finished", !.answer = answer]
<1>0. worker[w].pc = "completing" /\ worker[w].stage = "print" /\ worker[w].pc # "idle"
  BY DEF PrintCompletion, At
<1>1. /\ TypeOK /\ r \in Requests /\ PlanAgrees(w) /\ AnswerAgrees(w)
      /\ worker[w] \in Process /\ worker[w].outcomes \in Seq(Charge)
  BY <1>0, Standing, ProcessFields
<1>2. /\ worker' = [worker EXCEPT ![w] = n] /\ lock' = lock /\ ledger' = ledger
      /\ row' = row /\ checkpoint' = checkpoint /\ report' = report
  BY DEF PrintCompletion
<1>3. Printing(w)
  BY <1>0 DEF Printing, Exports
<1>4. /\ Len(worker[w].outcomes) = N /\ worker[w].mode # "job" /\ Tells(worker[w].outcomes, r)
      /\ worker[w].mode # "plain" => row[r] # Unused /\ row[r].result = worker[w].outcomes
  BY <1>1, <1>3 DEF PlanAgrees, AnswerAgrees
<1>5. /\ answer \in Completions /\ answer.result = worker[w].outcomes
      /\ Backed(worker[w].outcomes, answer.budget)
  BY <1>1, <1>4, PlanIsFinite DEF Completion, Completions, TypeOK, Backed, Tells
<1>6. /\ n.pc = "finished" /\ n.request = worker[w].request /\ n.mode = worker[w].mode
      /\ n.outcomes = worker[w].outcomes /\ n.answer = answer
  BY <1>1 DEF Process
<1>7. n \in Process
  <2> HIDE DEF answer
  <2>1. QED
    BY <1>1, <1>5, ZenonT(30) DEF Process, Places
<1> HIDE DEF n
<1>8. worker' \in [Workers -> Process] /\ worker'[w] = n /\ \A v \in Workers \ {w} : worker'[v] = worker[v]
  BY <1>1, <1>2, <1>7, ProcessReplaced
<1>9. worker'[w].request = r
  BY <1>6, <1>8 DEF Req
<1>10. Tells(worker[w].outcomes, Req(w))'
  BY <1>0, <1>2, <1>6, <1>8, TimeGrows, TellsRemains
<1>11. ~Holding(w)' /\ ~Planning(w)' /\ ~Staged(w)' /\ ~Printing(w)' /\ ~Recording(w)'
  BY <1>6, <1>8 DEF Holding, Planning, Staged, Printing, Exports, Recording, Operating
<1>12. ThreadAgrees(w)'
  BY <1>6, <1>8, <1>11 DEF ThreadAgrees
<1>13. PlanAgrees(w)'
  BY <1>4, <1>6, <1>8, <1>9, <1>10 DEF PlanAgrees
<1>14. AnswerAgrees(w)'
  <2>1. worker'[w].mode # "job" /\ (worker'[w].mode # "plain" => row'[r] # Unused /\ row'[r].result = worker'[w].outcomes)
    BY <1>2, <1>4, <1>6, <1>8
  <2>2. worker'[w].answer.result = worker'[w].outcomes /\ Backed(worker'[w].outcomes, worker'[w].answer.budget)
    BY <1>5, <1>6, <1>8
  <2>3. QED
    BY <1>9, <1>11, <2>1, <2>2 DEF AnswerAgrees, Req, Backed
<1>15. PlaceAgrees(w)'
  BY <1>1, <1>9, <1>12, <1>13, <1>14 DEF PlaceAgrees, Req
<1>16. /\ worker'[w].pc \notin {"dispatched", "starting"} /\ ~At(w, "conflict")'
       /\ report' \in [Requests -> {"absent", "partial", "whole", "edited"}]
       /\ lock' \in [Requests -> Workers \cup {Unused}]
  BY <1>1, <1>2, <1>6, <1>8 DEF At, TypeOK
<1>17. QED
  BY <1>2, <1>8, <1>15, <1>16, QuietKeeps

\* The budget is read when every operation has its outcome.
LEMMA ReadBudgetKeeps ==
  ASSUME WorkflowInv, NEW w \in Workers, ReadBudget(w)
  PROVE  WorkflowInv'
<1> DEFINE r == Req(w)
           budget == ledger[r]
           n == [worker[w] EXCEPT !.budget = budget, !.pc = "inserting"]
<1>0. /\ worker[w].pc = "operations" /\ worker[w].pc # "idle" /\ Operation(w) \notin Operations
      /\ worker[w].mode # "plain"
  BY DEF ReadBudget, At
<1>1. /\ TypeOK /\ r \in Requests /\ ThreadAgrees(w) /\ worker[w] \in Process
      /\ Tells(worker[w].outcomes, r) /\ Len(worker[w].outcomes) \in Nat
  BY <1>0, Standing, ProcessFields
<1>2. /\ worker' = [worker EXCEPT ![w] = n] /\ lock' = lock /\ ledger' = ledger
      /\ row' = row /\ checkpoint' = checkpoint /\ report' = report
  BY DEF ReadBudget
<1>3. Len(worker[w].outcomes) = N
  BY <1>0, <1>1, PlanIsFinite DEF Operation, Tells
<1>4. "inserting" \in Places
  BY DEF Places
<1>5. budget \in Budgets
  BY <1>1 DEF TypeOK
<1>6. /\ n.pc = "inserting" /\ n.request = worker[w].request /\ n.mode = worker[w].mode
      /\ n.outcomes = worker[w].outcomes /\ n.budget = ledger[r]
  BY <1>1 DEF Process
<1>7. n \in Process
  <2> HIDE DEF budget
  <2>1. QED
    BY <1>1, <1>4, <1>5, ZenonT(30) DEF Process
<1> HIDE DEF n
<1>8. worker' \in [Workers -> Process] /\ worker'[w] = n /\ \A v \in Workers \ {w} : worker'[v] = worker[v]
  BY <1>1, <1>2, <1>7, ProcessReplaced
<1>9. worker'[w].request = r
  BY <1>6, <1>8 DEF Req
<1>10. Tells(worker[w].outcomes, Req(w))'
  BY <1>0, <1>2, <1>6, <1>8, TimeGrows, TellsRemains
<1>11. ~Staged(w)' /\ ~Printing(w)'
  BY <1>6, <1>8 DEF Staged, Exports, Printing
<1>12. Planning(w) /\ Holding(w) /\ Recording(w)
  BY <1>0 DEF Planning, Holding, Recording, Operating
<1>13. ThreadAgrees(w)'
  BY <1>1, <1>2, <1>6, <1>8, <1>9, <1>11, <1>12 DEF ThreadAgrees, Req
<1>14. Backed(worker[w].outcomes, ledger[r])
  BY <1>1, <1>3, PlanIsFinite DEF Backed, Tells
<1>15. PlanAgrees(w)'
  <2>1. /\ worker'[w].budget = ledger'[r] /\ worker'[w].budget \in Budgets
        /\ Backed(worker'[w].outcomes, worker'[w].budget)
    BY <1>2, <1>5, <1>6, <1>8, <1>14
  <2>2. \A i \in Operations : Older(worker'[w].budget[i], ledger'[r][i])
    BY <2>1 DEF Older
  <2>3. QED
    BY <1>3, <1>6, <1>8, <1>9, <1>10, <2>1, <2>2 DEF PlanAgrees, Req, WasRead, Backed
<1>16. AnswerAgrees(w)'
  BY <1>6, <1>8, <1>11 DEF AnswerAgrees
<1>17. PlaceAgrees(w)'
  BY <1>1, <1>9, <1>13, <1>15, <1>16 DEF PlaceAgrees, Req
<1>18. /\ worker'[w].pc \notin {"dispatched", "starting"} /\ ~At(w, "conflict")'
       /\ report' \in [Requests -> {"absent", "partial", "whole", "edited"}]
       /\ lock' \in [Requests -> Workers \cup {Unused}]
  BY <1>1, <1>2, <1>6, <1>8 DEF At, TypeOK
<1>19. QED
  BY <1>2, <1>8, <1>17, <1>18, QuietKeeps

\* The plain command goes on to its report.
LEMMA PlainResultKeeps ==
  ASSUME WorkflowInv, NEW w \in Workers, PlainResult(w)
  PROVE  WorkflowInv'
<1>0. /\ worker[w].pc = "operations" /\ worker[w].pc # "idle" /\ Operation(w) \notin Operations
      /\ worker[w].mode = "plain" /\ "exporting" \in Places
  BY DEF PlainResult, At, Places
<1>1. /\ TypeOK /\ Req(w) \in Requests /\ Tells(worker[w].outcomes, Req(w))
      /\ Len(worker[w].outcomes) \in Nat
  BY <1>0, Standing
<1>2. /\ worker' = [worker EXCEPT ![w].pc = "exporting", ![w].stage = "print"] /\ lock' = lock
      /\ ledger' = ledger /\ row' = row /\ checkpoint' = checkpoint /\ report' = report
  BY DEF PlainResult
<1>3. Len(worker[w].outcomes) = N
  BY <1>0, <1>1, PlanIsFinite DEF Operation, Tells
<1>4. /\ Continues(w) /\ worker'[w].pc = "exporting" /\ worker'[w].stage = "print"
      /\ worker'[w].outcomes = worker[w].outcomes
  BY <1>0, <1>1, <1>2, StageMoves
<1>5. Tells(worker[w].outcomes, Req(w))'
  BY <1>0, <1>2, <1>4, TimeGrows, TellsRemains DEF Continues
<1>6. ~Holding(w)' /\ ~Planning(w)' /\ ~Staged(w)' /\ ~Recording(w)'
  BY <1>4 DEF Holding, Planning, Staged, Exports, Recording, Operating
<1>7. ThreadAgrees(w)'
  BY <1>4, <1>6 DEF ThreadAgrees
<1>8. PlanAgrees(w)'
  BY <1>3, <1>4, <1>5 DEF PlanAgrees
<1>9. AnswerAgrees(w)'
  BY <1>0, <1>4 DEF AnswerAgrees, Continues
<1>10. PlaceAgrees(w)'
  BY <1>1, <1>4, <1>7, <1>8, <1>9 DEF PlaceAgrees, Req, Continues
<1>11. /\ worker'[w].pc \notin {"dispatched", "starting"} /\ ~At(w, "conflict")'
       /\ report' \in [Requests -> {"absent", "partial", "whole", "edited"}]
       /\ lock' \in [Requests -> Workers \cup {Unused}]
  BY <1>1, <1>2, <1>4 DEF At, TypeOK
<1>12. QED
  BY <1>2, <1>4, <1>10, <1>11, QuietKeeps DEF Continues

\* One more outcome is told.
LEMMA TellsMore ==
  ASSUME WorkflowInv, BudgetGrows, NEW w \in Workers, worker[w].pc # "idle", NEW r \in Requests,
         r = Req(w), worker'[w].request = r, NEW i \in Operations, i = Operation(w),
         NEW outcome \in Charge, worker'[w].outcomes = Append(worker[w].outcomes, outcome),
         outcome = BudgetStopped \/ (Passed(r, i)' /\ outcome = ledger'[r][i])
  PROVE  Tells(worker[w].outcomes, Req(w))'
<1> DEFINE told == worker[w].outcomes
<1>1. Tells(told, r) /\ told \in Seq(Charge) /\ Len(told) \in Nat /\ i = Len(told) + 1
  BY Standing DEF Operation
<1>2. /\ Len(told) =< N
      /\ \A j \in 1 .. Len(told) :
           told[j] = BudgetStopped \/ (Passed(r, j)' /\ told[j] = ledger'[r][j])
  BY <1>1, ToldRemains
<1>3. /\ Len(Append(told, outcome)) = i /\ Append(told, outcome)[i] = outcome
      /\ \A j \in 1 .. Len(told) : Append(told, outcome)[j] = told[j]
  BY <1>1
<1>4. i =< N /\ i \in Nat /\ \A j \in 1 .. i : j = i \/ j \in 1 .. Len(told)
  BY <1>1, PlanIsFinite
<1>5. /\ Len(Append(told, outcome)) =< N
      /\ \A j \in 1 .. Len(Append(told, outcome)) :
           \/ Append(told, outcome)[j] = BudgetStopped
           \/ Passed(r, j)' /\ Append(told, outcome)[j] = ledger'[r][j]
  BY <1>2, <1>3, <1>4
<1>6. QED
  BY <1>5, TellsItsRun

\* A process that goes on with its plan holds its thread if it is not a plain command.
LEMMA PlanningKeeps ==
  ASSUME WorkflowInv, NEW w \in Workers, worker[w].pc \in Operating, Continues(w),
         worker'[w].pc \in {"operations", "reserving", "expired"},
         lock' = lock, checkpoint' = checkpoint, row' = row, Tells(worker[w].outcomes, Req(w))',
         worker'[w].pc # "operations" => Operation(w)' \in Operations
  PROVE  PlaceAgrees(w)'
<1>1. worker[w].pc # "idle"
  BY DEF Operating
<1>2. Req(w) \in Requests /\ ThreadAgrees(w)
  BY <1>1, Standing
<1>3. Req(w)' = Req(w) /\ worker'[w].mode = worker[w].mode
  BY DEF Continues, Req
<1>4. /\ ~Staged(w)' /\ ~Printing(w)' /\ (Planning(w)' => Planning(w)) /\ (Holding(w)' => Holding(w))
      /\ (Recording(w)' => Recording(w))
  BY <1>3 DEF Planning, Staged, Printing, Holding, Exports, Recording, Operating
<1>5. ThreadAgrees(w)'
  BY <1>2, <1>3, <1>4 DEF ThreadAgrees
<1>6. PlanAgrees(w)'
  BY <1>4 DEF PlanAgrees
<1>7. AnswerAgrees(w)'
  BY <1>4 DEF AnswerAgrees
<1>8. QED
  BY <1>2, <1>3, <1>5, <1>6, <1>7 DEF PlaceAgrees

\* The clock is read.
LEMMA ReadClockKeeps ==
  ASSUME WorkflowInv, NEW w \in Workers, ReadClock(w)
  PROVE  WorkflowInv'
<1>0. worker[w].pc = "operations" /\ worker[w].pc # "idle" /\ worker[w].pc \in Operating
      /\ Operation(w) \in Operations
  BY DEF ReadClock, At, Operating
<1>1. PICK pc \in {"reserving", "expired"} : Go(w, pc)
  BY DEF ReadClock
<1>2. /\ lock' = lock /\ ledger' = ledger /\ row' = row /\ checkpoint' = checkpoint /\ report' = report
  BY DEF ReadClock
<1>3. TypeOK /\ pc \in Places
  BY <1>0, Standing DEF Places
<1>4. Continues(w) /\ worker'[w].pc = pc /\ worker'[w].outcomes = worker[w].outcomes
  BY <1>1, <1>3, GoMoves
<1>5. Tells(worker[w].outcomes, Req(w))'
  BY <1>0, <1>2, <1>4, TimeGrows, TellsRemains DEF Continues
<1>6. Operation(w)' = Operation(w)
  BY <1>4 DEF Operation
<1>7. PlaceAgrees(w)'
  BY <1>0, <1>2, <1>4, <1>5, <1>6, PlanningKeeps
<1>8. /\ worker'[w].pc \notin {"dispatched", "starting"} /\ ~At(w, "conflict")'
      /\ report' \in [Requests -> {"absent", "partial", "whole", "edited"}]
      /\ lock' \in [Requests -> Workers \cup {Unused}]
  BY <1>2, <1>3, <1>4 DEF At, TypeOK
<1>9. QED
  BY <1>2, <1>4, <1>7, <1>8, QuietKeeps DEF Continues

\* A refusal, or an outcome that is settled already, is taken as it is.
LEMMA LearnKeeps ==
  ASSUME WorkflowInv, NEW w \in Workers, worker[w].pc \in {"reserving", "expired", "dispatched"},
         NEW r \in Requests, r = Req(w), NEW i \in Operations, i = Operation(w),
         NEW outcome \in Charge, Outcome(w, outcome, "operations"),
         outcome = BudgetStopped \/ (Passed(r, i) /\ outcome = ledger[r][i]),
         ledger' = ledger, row' = row, checkpoint' = checkpoint, lock' = lock, report' = report
  PROVE  WorkflowInv'
<1>0. worker[w].pc \in Operating /\ worker[w].pc # "idle" /\ "operations" \in Places
  BY DEF Operating, Places
<1>1. TypeOK
  BY <1>0, Standing
<1>2. /\ Continues(w) /\ worker'[w].pc = "operations"
      /\ worker'[w].outcomes = Append(worker[w].outcomes, outcome)
  BY <1>0, <1>1, OutcomeMoves
<1>3. Passed(r, i) => Passed(r, i)'
  BY DEF Passed
<1>4. BudgetGrows
  BY TimeGrows
<1>5. worker'[w].request = r
  BY <1>2 DEF Continues, Req
<1>6. Tells(worker[w].outcomes, Req(w))'
  BY <1>0, <1>2, <1>3, <1>4, <1>5, TellsMore
<1>7. PlaceAgrees(w)'
  BY <1>0, <1>2, <1>6, PlanningKeeps
<1>8. /\ worker'[w].pc \notin {"dispatched", "starting"} /\ ~At(w, "conflict")'
      /\ report' \in [Requests -> {"absent", "partial", "whole", "edited"}]
      /\ lock' \in [Requests -> Workers \cup {Unused}]
  BY <1>1, <1>2 DEF At, TypeOK
<1>9. QED
  BY <1>2, <1>7, <1>8, QuietKeeps DEF Continues

\* A reservation is a charge.
LEMMA ReservedIsCharge ==
  /\ Reserved \in Charge /\ BudgetStopped \in Charge /\ Reserved # Unused /\ Reserved.settled = FALSE
<1>1. Reserved \in Charge /\ BudgetStopped \in Charge /\ Reserved.settled = FALSE
  BY DEF Reserved, BudgetStopped, Charge
<1>2. Unused \notin Charge
  BY WorkflowAssumption DEF WorkflowAssumption
<1>3. QED
  BY <1>1, <1>2

\* An operation that is dispatched is reserved.
LEMMA DispatchedIsOpen ==
  ASSUME WorkflowInv, NEW v \in Workers, At(v, "dispatched"), NEW r \in Requests, r = Req(v)
  PROVE  Operation(v) \in Operations /\ ledger[r][Operation(v)] = Reserved
<1>1. worker[v].pc = "dispatched" /\ worker[v].pc # "idle"
  BY DEF At
<1>2. PlanAgrees(v)
  BY <1>1, Standing
<1>3. QED
  BY <1>1, <1>2 DEF PlanAgrees

\* A move of the budget by one process, from what an operation was.
LEMMA SpendingKeeps ==
  ASSUME WorkflowInv, NEW w \in Workers, worker[w].pc \in Operating,
         NEW r \in Requests, r = Req(w), NEW i \in Operations, i = Operation(w), Continues(w),
         NEW charge \in Charge, Older(ledger[r][i], charge), Charged(r, i, charge),
         row' = row, checkpoint' = checkpoint, lock' = lock, report' = report,
         \A v \in Workers \ {w} : At(v, "dispatched") => Req(v) # r \/ Operation(v) # i,
         worker'[w].pc \in {"operations", "dispatched"}, At(w, "dispatched")' => Operation(w)' = i,
         PlaceAgrees(w)'
  PROVE  WorkflowInv' /\ BudgetGrows
<1>1. TypeOK
  BY DEF WorkflowInv
<1>2. /\ BudgetGrows /\ ledger' \in [Requests -> Budgets]
      /\ \A k \in Operations \ {i} : ledger'[r][k] = ledger[r][k]
      /\ \A o \in Requests \ {r} : ledger'[o] = ledger[o]
  BY <1>1, ChargeGrows
<1>3. TypeOK'
  BY <1>1, <1>2 DEF TypeOK, Continues
<1>4. RowsGrow
  BY DEF RowsGrow
<1>5. ASSUME NEW v \in Workers \ {w}, At(v, "dispatched")
      PROVE  ledger'[Req(v)][Operation(v)] = ledger[Req(v)][Operation(v)]
  <2>1. Req(v) \in Requests
    BY <1>5, Standing DEF At
  <2>2. PICK o \in Requests : o = Req(v)
    BY <2>1
  <2>3. PICK k \in Operations : k = Operation(v)
    BY <1>5, <2>2, DispatchedIsOpen
  <2>4. o # r \/ k # i
    BY <1>5, <2>2, <2>3
  <2>5. QED
    BY <1>2, <2>2, <2>3, <2>4
<1>6. Leaves(w)
  BY <1>5 DEF Leaves, Continues
<1>7. \A q \in Requests : RowAgrees(q)' /\ CheckpointAgrees(q)'
  BY <1>2, <1>3, RunsAgree
<1>8. Req(w)' = r
  BY DEF Continues, Req
<1>9. At(w, "dispatched")' => \A v \in Workers \ {w} :
        At(v, "dispatched") => (Req(v) # Req(w)') \/ (Operation(v) # Operation(w)')
  BY <1>8
<1>10. ~At(w, "starting")' /\ ~At(w, "conflict")'
  BY DEF At
<1>11. QED
  BY <1>2, <1>3, <1>4, <1>6, <1>7, <1>9, <1>10, MoveKeeps

\* An operation is begun.
LEMMA BeginOperationKeeps ==
  ASSUME WorkflowInv, NEW w \in Workers, worker[w].pc = "reserving", NEW r \in Requests, r = Req(w),
         NEW i \in Operations, i = Operation(w), ledger[r][i] = Unused,
         ledger' = [ledger EXCEPT ![r][i] = Reserved], Go(w, "dispatched"),
         row' = row, checkpoint' = checkpoint, lock' = lock, report' = report
  PROVE  WorkflowInv' /\ BudgetGrows
<1>0. worker[w].pc \in Operating /\ worker[w].pc # "idle" /\ "dispatched" \in Places
  BY DEF Operating, Places
<1>1. /\ TypeOK /\ ThreadAgrees(w)
  BY <1>0, Standing
<1>2. /\ Continues(w) /\ worker'[w].pc = "dispatched" /\ worker'[w].outcomes = worker[w].outcomes
  BY <1>0, <1>1, GoMoves
<1>3. Older(ledger[r][i], Reserved)
  BY ReservedIsCharge DEF Older
<1>c. Charged(r, i, Reserved)
  BY DEF Charged
<1>4. BudgetGrows /\ ledger'[r][i] = Reserved
  BY <1>1, <1>3, <1>c, ReservedIsCharge, ChargeGrows
<1>5. ASSUME NEW v \in Workers \ {w}, At(v, "dispatched"), Req(v) = r
      PROVE  Operation(v) # i
  BY <1>5, DispatchedIsOpen, ReservedIsCharge
<1>6. worker'[w].request = r /\ Operation(w)' = i
  BY <1>2 DEF Continues, Req, Operation
<1>7. /\ ~Staged(w)' /\ ~Printing(w)' /\ (Planning(w)' => Planning(w)) /\ (Holding(w)' => Holding(w))
      /\ (Recording(w)' => Recording(w))
  BY <1>0, <1>2 DEF Planning, Staged, Printing, Holding, Exports, Continues, Recording, Operating
<1>8. PlaceAgrees(w)'
  <2>1. ThreadAgrees(w)'
    BY <1>1, <1>2, <1>6, <1>7 DEF ThreadAgrees, Req
  <2>2. Tells(worker[w].outcomes, Req(w))'
    BY <1>0, <1>2, <1>4, TellsRemains DEF Continues
  <2>3. PlanAgrees(w)'
    BY <1>2, <1>4, <1>6, <1>7, <2>2 DEF PlanAgrees, Req, Reserved
  <2>4. AnswerAgrees(w)'
    BY <1>2, <1>7 DEF AnswerAgrees
  <2>5. QED
    BY <1>6, <2>1, <2>3, <2>4 DEF PlaceAgrees, Req
<1>9. \A v \in Workers \ {w} : At(v, "dispatched") => Req(v) # r \/ Operation(v) # i
  BY <1>5
<1>10. QED
  BY <1>0, <1>2, <1>3, <1>c, <1>6, <1>8, <1>9, ReservedIsCharge, SpendingKeeps

\* The transaction of an operation that is to be begun.
LEMMA OperateKeeps ==
  ASSUME WorkflowInv, NEW w \in Workers, Operate(w)
  PROVE  WorkflowInv' /\ BudgetGrows
<1>0. worker[w].pc \in {"reserving", "expired"} /\ worker[w].pc # "idle"
  BY DEF Operate
<1>1. PICK r \in Requests : r = Req(w)
  BY <1>0, Standing
<1>2. TypeOK /\ Operation(w) \in Operations
  BY <1>0, Standing DEF PlanAgrees
<1>i. PICK i \in Operations : i = Operation(w)
  BY <1>2
<1>3. row' = row /\ checkpoint' = checkpoint /\ lock' = lock /\ report' = report
  BY DEF Operate
<1>4. CASE /\ ledger[r][i] = Unused /\ worker[w].pc = "reserving"
           /\ ledger' = [ledger EXCEPT ![r][i] = Reserved] /\ Go(w, "dispatched")
  BY <1>1, <1>i, <1>3, <1>4, BeginOperationKeeps
<1>5. CASE Outcome(w, BudgetStopped, "operations") /\ ledger' = ledger
  BY <1>0, <1>1, <1>i, <1>3, <1>5, ReservedIsCharge, LearnKeeps, TimeGrows
<1>6. CASE /\ ledger[r][i] # Unused /\ ledger[r][i].settled
           /\ Outcome(w, ledger[r][i], "operations") /\ ledger' = ledger
  <2>1. ledger[r][i] \in Charge /\ ledger[r][i].settled \in BOOLEAN
    BY <1>2, <1>6, BudgetType
  <2>2. Passed(r, i)
    BY <1>6, <2>1 DEF Passed
  <2>3. PICK outcome \in Charge : outcome = ledger[r][i]
    BY <2>1
  <2>4. QED
    BY <1>0, <1>1, <1>i, <1>3, <1>6, <2>2, <2>3, LearnKeeps, TimeGrows
<1>7. QED
  BY <1>1, <1>i, <1>4, <1>5, <1>6 DEF Operate, At

\* An operation whose settlement is refused.
LEMMA SettleRefusedKeeps ==
  ASSUME WorkflowInv, NEW w \in Workers, SettleRefused(w)
  PROVE  WorkflowInv'
<1>0. worker[w].pc = "dispatched" /\ worker[w].pc # "idle" /\ At(w, "dispatched")
  BY DEF SettleRefused, At
<1>1. PICK r \in Requests : r = Req(w)
  BY <1>0, Standing
<1>2. PICK i \in Operations : i = Operation(w)
  BY <1>0, <1>1, DispatchedIsOpen
<1>3. QED
  BY <1>0, <1>1, <1>2, ReservedIsCharge, LearnKeeps DEF SettleRefused

\* An operation ends with its charge.
LEMMA SettleKeeps ==
  ASSUME WorkflowInv, NEW w \in Workers, Settle(w)
  PROVE  WorkflowInv' /\ BudgetGrows
<1>0. /\ worker[w].pc = "dispatched" /\ worker[w].pc # "idle" /\ At(w, "dispatched")
      /\ worker[w].pc \in Operating /\ "operations" \in Places
  BY DEF Settle, At, Places, Operating
<1>1. PICK r \in Requests : r = Req(w)
  BY <1>0, Standing
<1>2. PICK i \in Operations : i = Operation(w)
  BY <1>0, <1>1, DispatchedIsOpen
<1>3. ledger[r][i] = Reserved /\ TypeOK
  BY <1>0, <1>1, <1>2, DispatchedIsOpen, Standing
<1>4. PICK cost \in {0, Reservation[i]} : /\ ledger' = [ledger EXCEPT ![r][i] = Settled(cost)]
                                          /\ Outcome(w, Settled(cost), "operations")
  BY <1>1, <1>2 DEF Settle
<1>5. row' = row /\ checkpoint' = checkpoint /\ lock' = lock /\ report' = report
  BY DEF Settle
<1> DEFINE charge == Settled(cost)
<1>6. charge \in Charge /\ charge.settled = TRUE
  BY PlanIsFinite DEF Settled, Charge
<1>7. charge # Unused
  BY <1>6, WorkflowAssumption DEF WorkflowAssumption
<1>8. Charged(r, i, charge) /\ Outcome(w, charge, "operations")
  BY <1>4 DEF Charged
<1> HIDE DEF charge
<1>9. /\ Continues(w) /\ worker'[w].pc = "operations"
      /\ worker'[w].outcomes = Append(worker[w].outcomes, charge)
  BY <1>0, <1>3, <1>6, <1>8, OutcomeMoves
<1>10. Older(ledger[r][i], charge)
  BY <1>3, <1>6, <1>7, ReservedIsCharge DEF Older
<1>11. BudgetGrows /\ ledger'[r][i] = charge
  BY <1>3, <1>6, <1>8, <1>10, ChargeGrows
<1>12. \A v \in Workers \ {w} : At(v, "dispatched") => Req(v) # r \/ Operation(v) # i
  BY <1>0, <1>1, <1>2 DEF WorkflowInv, OneDispatch
<1>13. worker'[w].request = r /\ ~At(w, "dispatched")'
  BY <1>1, <1>9 DEF Continues, Req, At
<1>14. Passed(r, i)' /\ charge = ledger'[r][i]
  BY <1>6, <1>7, <1>11 DEF Passed
<1>15. Tells(worker[w].outcomes, Req(w))'
  BY <1>0, <1>1, <1>2, <1>6, <1>9, <1>11, <1>13, <1>14, TellsMore
<1>16. PlaceAgrees(w)'
  BY <1>0, <1>5, <1>9, <1>15, PlanningKeeps
<1>17. QED
  BY <1>0, <1>1, <1>2, <1>5, <1>6, <1>8, <1>9, <1>10, <1>12, <1>13, <1>16, SpendingKeeps

-----------------------------------------------------------------------------
(* Moves that save a checkpoint or a row. *)

\* The first two checkpoints.
LEMMA FirstCheckpoints ==
  /\ NoCheckpoint \in Saved /\ NoCheckpoint.next = "none"
  /\ InputCheckpoint \in Saved /\ InputCheckpoint.next = "input"
  /\ FirstCheckpoint \in Saved /\ FirstCheckpoint.next = "research"
BY DEF NoCheckpoint, InputCheckpoint, FirstCheckpoint, Saved

\* A process that has a thread saves its checkpoint, its row or both.
LEMMA SaveKeeps ==
  ASSUME WorkflowInv, NEW w \in Workers, NEW r \in Requests,
         worker' \in [Workers -> Process], \A v \in Workers \ {w} : worker'[v] = worker[v],
         checkpoint' \in [Requests -> Saved], \A q \in Requests \ {r} : checkpoint'[q] = checkpoint[q],
         row' \in [Requests -> Row \cup {Unused}], \A q \in Requests \ {r} : row'[q] = row[q],
         lock' \in [Requests -> Workers \cup {Unused}], lock[r] \in {w, Unused},
         \A q \in Requests : lock[q] \notin {w, Unused} => lock'[q] = lock[q],
         ledger' = ledger, report' = report, RowsGrow,
         RowAgrees(r)', CheckpointAgrees(r)', PlaceAgrees(w)',
         checkpoint'[r] # checkpoint[r] =>
           \A v \in Workers : At(v, "conflict") /\ Req(v) = r => Overtaken(r),
         worker'[w].pc = "starting" => \A v \in Workers : At(v, "conflict") => Req(v) # r,
         worker'[w].pc \notin {"dispatched", "conflict"}, Req(w)' = r
  PROVE  WorkflowInv'
<1>1. TypeOK'
  BY DEF TypeOK, WorkflowInv
<1>2. BudgetGrows
  BY TimeGrows
<1>3. Leaves(w)
  BY DEF Leaves
<1>4. ASSUME NEW q \in Requests PROVE RowAgrees(q)' /\ CheckpointAgrees(q)'
  BY <1>1, <1>2, <1>4, RunsAgree
<1>5. ~At(w, "dispatched")' /\ ~At(w, "conflict")'
  BY DEF At
<1>6. At(w, "starting")' => \A v \in Workers \ {w} : At(v, "conflict") => Req(v) # Req(w)'
  BY DEF At
<1>7. QED
  BY <1>1, <1>2, <1>3, <1>4, <1>5, <1>6, MoveKeeps

\* Nobody is stranded on a thread that is not at its first checkpoint.
LEMMA NobodyIsStranded ==
  ASSUME WorkflowInv, NEW r \in Requests, checkpoint[r].next # "input", NEW v \in Workers, At(v, "conflict")
  PROVE  /\ Req(v) = r => Overtaken(r)
         /\ checkpoint[r].next = "none" => Req(v) # r
<1>1. ThreadAgrees(v) /\ worker[v].pc = "conflict"
  BY Standing DEF At
<1>2. checkpoint[Req(v)] = InputCheckpoint \/ Overtaken(Req(v))
  BY <1>1 DEF ThreadAgrees
<1>3. Req(v) = r => Overtaken(r)
  BY <1>2, FirstCheckpoints
<1>4. CheckpointAgrees(r)
  BY DEF WorkflowInv
<1>5. checkpoint[r].next = "none" => ~Overtaken(r)
  BY <1>4 DEF CheckpointAgrees, Overtaken
<1>6. QED
  BY <1>3, <1>5

\* A process verifies the stage that its checkpoint names.
LEMMA VerifyingPlace ==
  ASSUME WorkflowInv, BudgetGrows, NEW w \in Workers, worker[w].pc # "idle", Continues(w),
         worker'[w].pc = "verifying", worker'[w].stage \in {"report", "remember", "end"},
         NEW r \in Requests, r = Req(w), checkpoint'[r].next = worker'[w].stage,
         lock'[r] = w, worker'[w].outcomes = worker[w].outcomes
  PROVE  PlaceAgrees(w)'
<1>1. worker'[w].request = r
  BY DEF Continues, Req
<1>2. Tells(worker[w].outcomes, Req(w))'
  BY TellsRemains DEF Continues
<1>3. Staged(w)' /\ ~Planning(w)' /\ ~Printing(w)' /\ ~Recording(w)'
  BY DEF Staged, Planning, Printing, Exports, Recording, Operating
<1>4. ThreadAgrees(w)'
  BY <1>1, <1>3 DEF ThreadAgrees, Req
<1>5. PlanAgrees(w)'
  BY <1>2, <1>3 DEF PlanAgrees
<1>6. AnswerAgrees(w)'
  BY <1>3 DEF AnswerAgrees
<1>7. QED
  BY <1>1, <1>4, <1>5, <1>6 DEF PlaceAgrees, Req

\* A process takes the lock of its thread.
LEMMA LockKeeps ==
  ASSUME WorkflowInv, NEW w \in Workers, Lock(w)
  PROVE  WorkflowInv'
<1>0. worker[w].pc = "locking" /\ worker[w].pc # "idle"
  BY DEF Lock, At
<1>1. PICK r \in Requests : r = Req(w)
  BY <1>0, Standing
<1>2. TypeOK /\ CheckpointAgrees(r) /\ checkpoint[r] \in Saved
  BY <1>0, <1>1, Standing DEF TypeOK
<1>3. lock[r] = Unused /\ ledger' = ledger /\ row' = row /\ report' = report
  BY <1>1 DEF Lock
<1>4. BudgetGrows
  BY <1>3, TimeGrows
<1>5. RowsGrow
  BY <1>3 DEF RowsGrow
<1>6. CASE checkpoint[r].next = "none"
  <2>1. /\ checkpoint' = [checkpoint EXCEPT ![r] = InputCheckpoint] /\ lock' = [lock EXCEPT ![r] = w]
        /\ Go(w, "starting")
    BY <1>1, <1>6 DEF Lock
  <2>2. "starting" \in Places
    BY DEF Places
  <2>3. /\ Continues(w) /\ worker'[w].pc = "starting" /\ worker'[w].outcomes = worker[w].outcomes
    BY <1>2, <2>1, <2>2, GoMoves
  <2>4. /\ checkpoint' \in [Requests -> Saved] /\ checkpoint'[r] = InputCheckpoint
        /\ \A q \in Requests \ {r} : checkpoint'[q] = checkpoint[q]
        /\ lock' \in [Requests -> Workers \cup {Unused}] /\ lock'[r] = w
        /\ \A q \in Requests \ {r} : lock'[q] = lock[q]
    BY <1>2, <2>1, FirstCheckpoints DEF TypeOK
  <2>5. worker'[w].request = r
    BY <1>1, <2>3 DEF Continues, Req
  <2>6. Tells(worker[w].outcomes, Req(w))'
    BY <1>0, <1>4, <2>3, TellsRemains DEF Continues
  <2>7. ~Staged(w)' /\ ~Planning(w)' /\ ~Printing(w)' /\ ~Recording(w)'
    BY <2>3 DEF Staged, Planning, Printing, Exports, Recording, Operating
  <2>8. ThreadAgrees(w)'
    BY <2>3, <2>4, <2>5, <2>7 DEF ThreadAgrees, Req, InputCheckpoint, NoCheckpoint
  <2>9. PlanAgrees(w)'
    BY <2>3, <2>6, <2>7 DEF PlanAgrees
  <2>10. AnswerAgrees(w)'
    BY <2>3, <2>7 DEF AnswerAgrees
  <2>11. PlaceAgrees(w)'
    BY <2>5, <2>8, <2>9, <2>10 DEF PlaceAgrees, Req
  <2>12. TypeOK'
    BY <1>2, <1>3, <2>3, <2>4 DEF TypeOK, Continues
  <2>13. RowAgrees(r)'
    BY <1>3, <1>4, <2>12, RowRemains
  <2>14. CheckpointAgrees(r)'
    BY <1>2, <1>3, <1>6, <2>4, FirstCheckpoints DEF CheckpointAgrees, InputCheckpoint, NoCheckpoint
  <2>15. \A v \in Workers : At(v, "conflict") => Req(v) # r
    BY <1>6, NobodyIsStranded
  <2>16. row' \in [Requests -> Row \cup {Unused}] /\ \A q \in Requests \ {r} : row'[q] = row[q]
    BY <1>2, <1>3 DEF TypeOK
  <2>17. Req(w)' = r
    BY <2>5 DEF Req
  <2>18. QED
    BY <1>3, <1>5, <2>3, <2>4, <2>11, <2>13, <2>14, <2>15, <2>16, <2>17, SaveKeeps DEF Continues
<1>7. CASE checkpoint[r].next = "input"
  <2>1. Raise(w, "conflict") /\ checkpoint' = checkpoint
    BY <1>1, <1>7 DEF Lock
  <2>2. checkpoint[r] = InputCheckpoint
    BY <1>2, <1>7 DEF CheckpointAgrees
  <2>3. \A v \in Workers : At(v, "starting") => Req(v) # r
    BY <1>0, <1>1, <1>3, NobodyElseStarts DEF At
  <2>4. "conflict" \in Errors
    BY DEF Errors
  <2>5. QED
    BY <1>0, <1>1, <1>3, <2>1, <2>2, <2>3, <2>4, RaiseKeeps
<1>8. CASE checkpoint[r].next \notin {"none", "input"}
  <2>1. lock' = [lock EXCEPT ![r] = w] /\ Resume(w, checkpoint[r].next) /\ checkpoint' = checkpoint
    BY <1>1, <1>8 DEF Lock
  <2>2. checkpoint[r].next \in {"research", "report", "remember", "end"}
    BY <1>2, <1>8 DEF Saved
  <2>3. /\ lock' \in [Requests -> Workers \cup {Unused}] /\ lock'[r] = w
        /\ \A q \in Requests \ {r} : lock'[q] = lock[q]
    BY <1>2, <2>1 DEF TypeOK
  <2>4. report' \in [Requests -> {"absent", "partial", "whole", "edited"}]
    BY <1>2, <1>3 DEF TypeOK
  <2>5. CASE checkpoint[r].next = "research"
    <3>1. Go(w, "research") /\ "research" \in Places
      BY <2>1, <2>5 DEF Resume, Places
    <3>2. /\ Continues(w) /\ worker'[w].pc = "research" /\ worker'[w].outcomes = worker[w].outcomes
      BY <1>2, <3>1, GoMoves
    <3>3. worker'[w].request = r
      BY <1>1, <3>2 DEF Continues, Req
    <3>4. Tells(worker[w].outcomes, Req(w))'
      BY <1>0, <1>4, <3>2, TellsRemains DEF Continues
    <3>5. ~Staged(w)' /\ ~Printing(w)' /\ ~Recording(w)'
      BY <3>2 DEF Staged, Printing, Exports, Recording, Operating
    <3>6. ThreadAgrees(w)'
      BY <2>1, <2>3, <2>5, <3>2, <3>3, <3>5 DEF ThreadAgrees, Req
    <3>7. PlanAgrees(w)'
      BY <3>2, <3>4, <3>5 DEF PlanAgrees
    <3>8. AnswerAgrees(w)'
      BY <3>2, <3>5 DEF AnswerAgrees
    <3>9. PlaceAgrees(w)'
      BY <3>3, <3>6, <3>7, <3>8 DEF PlaceAgrees, Req
    <3>10. worker'[w].pc \notin {"dispatched", "starting"} /\ ~At(w, "conflict")'
      BY <3>2 DEF At
    <3>11. QED
      BY <1>3, <2>1, <2>3, <2>4, <3>2, <3>9, <3>10, QuietKeeps DEF Continues
  <2>6. CASE checkpoint[r].next \in {"report", "remember", "end"}
    <3> DEFINE stage == checkpoint[r].next
    <3>1. worker' = [worker EXCEPT ![w].pc = "verifying", ![w].stage = stage]
      BY <2>1, <2>6 DEF Resume
    <3>2. "verifying" \in Places
      BY DEF Places
    <3>3. /\ Continues(w) /\ worker'[w].pc = "verifying" /\ worker'[w].outcomes = worker[w].outcomes
          /\ worker'[w].stage = checkpoint[r].next
      BY <1>2, <2>6, <3>1, <3>2, StageMoves
    <3>4. checkpoint'[r].next = worker'[w].stage
      BY <2>1, <3>3
    <3>5. PlaceAgrees(w)'
      BY <1>0, <1>1, <1>4, <2>3, <2>6, <3>3, <3>4, VerifyingPlace
    <3>6. worker'[w].pc \notin {"dispatched", "starting"} /\ ~At(w, "conflict")'
      BY <3>3 DEF At
    <3>7. QED
      BY <1>3, <2>1, <2>3, <2>4, <3>3, <3>5, <3>6, QuietKeeps DEF Continues
  <2>7. QED
    BY <2>2, <2>5, <2>6
<1>9. QED
  BY <1>6, <1>7, <1>8

\* The input reaches the thread.
LEMMA SaveInputKeeps ==
  ASSUME WorkflowInv, NEW w \in Workers, SaveInput(w)
  PROVE  WorkflowInv'
<1>0. worker[w].pc = "starting" /\ worker[w].pc # "idle" /\ "research" \in Places /\ At(w, "starting")
  BY DEF SaveInput, At, Places
<1>1. PICK r \in Requests : r = Req(w)
  BY <1>0, Standing
<1>2. TypeOK /\ ThreadAgrees(w)
  BY <1>0, Standing
<1>3. /\ checkpoint' = [checkpoint EXCEPT ![r] = FirstCheckpoint] /\ Go(w, "research") /\ lock' = lock
      /\ ledger' = ledger /\ row' = row /\ report' = report
  BY <1>1 DEF SaveInput
<1>4. /\ Continues(w) /\ worker'[w].pc = "research" /\ worker'[w].outcomes = worker[w].outcomes
  BY <1>0, <1>2, <1>3, GoMoves
<1>5. /\ checkpoint' \in [Requests -> Saved] /\ checkpoint'[r] = FirstCheckpoint
      /\ \A q \in Requests \ {r} : checkpoint'[q] = checkpoint[q]
  BY <1>2, <1>3, FirstCheckpoints DEF TypeOK
<1>6. lock[r] = w
  BY <1>0, <1>1, <1>2 DEF ThreadAgrees, Holding
<1>7. worker'[w].request = r
  BY <1>1, <1>4 DEF Continues, Req
<1>8. BudgetGrows /\ RowsGrow
  BY <1>3, TimeGrows DEF RowsGrow
<1>9. TypeOK'
  BY <1>2, <1>3, <1>4, <1>5 DEF TypeOK, Continues
<1>10. RowAgrees(r)'
  BY <1>3, <1>8, <1>9, RowRemains
<1>11. CheckpointAgrees(r)'
  BY <1>5, FirstCheckpoints DEF CheckpointAgrees
<1>12. ~Staged(w)' /\ ~Printing(w)' /\ ~Recording(w)'
  BY <1>4 DEF Staged, Printing, Exports, Recording, Operating
<1>13. PlaceAgrees(w)'
  <2>1. ThreadAgrees(w)'
    BY <1>3, <1>4, <1>5, <1>6, <1>7, <1>12, FirstCheckpoints DEF ThreadAgrees, Req
  <2>2. Tells(worker[w].outcomes, Req(w))'
    BY <1>0, <1>4, <1>8, TellsRemains DEF Continues
  <2>3. PlanAgrees(w)'
    BY <1>4, <1>12, <2>2 DEF PlanAgrees
  <2>4. AnswerAgrees(w)'
    BY <1>4, <1>12 DEF AnswerAgrees
  <2>5. QED
    BY <1>7, <2>1, <2>3, <2>4 DEF PlaceAgrees, Req
<1>14. \A v \in Workers : At(v, "conflict") => Req(v) # r
  BY <1>0, <1>1 DEF WorkflowInv, StrandedStays
<1>15. Req(w)' = r /\ worker'[w].pc \notin {"dispatched", "conflict", "starting"}
  BY <1>4, <1>7 DEF Req
<1>16. row' \in [Requests -> Row \cup {Unused}] /\ lock' \in [Requests -> Workers \cup {Unused}]
  BY <1>9 DEF TypeOK
<1>17. QED
  BY <1>3, <1>4, <1>5, <1>6, <1>8, <1>10, <1>11, <1>13, <1>14, <1>15, <1>16, SaveKeeps DEF Continues

\* The result of the row is saved with the thread.
LEMMA SaveResultKeeps ==
  ASSUME WorkflowInv, NEW w \in Workers, worker[w].pc # "idle", Planning(w), NEW r \in Requests,
         r = Req(w), row[r] # Unused, SaveResult(w, row[r].result), lock' = lock,
         ledger' = ledger, row' = row, report' = report
  PROVE  WorkflowInv'
<1> DEFINE result == row[r].result
           c == [checkpoint[r] EXCEPT !.next = "report", !.result = result]
<1>1. TypeOK /\ ThreadAgrees(w) /\ checkpoint[r] \in Saved /\ row[r] \in Row
  BY Standing DEF TypeOK
<1>2. checkpoint' = [checkpoint EXCEPT ![r] = c]
  BY DEF SaveResult
<1>3. worker' = [worker EXCEPT ![w].pc = "verifying", ![w].stage = "report"] /\ "verifying" \in Places
  BY DEF SaveResult, Places
<1>4. /\ Continues(w) /\ worker'[w].pc = "verifying" /\ worker'[w].outcomes = worker[w].outcomes
      /\ worker'[w].stage = "report"
  BY <1>1, <1>3, StageMoves
<1>5. result \in Seq(Charge)
  BY <1>1 DEF Row
<1>6. c.next = "report" /\ c.result = result
  BY <1>1 DEF Saved
<1>7. c \in Saved
  <2> HIDE DEF result
  <2>1. QED
    BY <1>1, <1>5, ZenonT(30) DEF Saved
<1> HIDE DEF c
<1>8. /\ checkpoint' \in [Requests -> Saved] /\ checkpoint'[r] = c
      /\ \A q \in Requests \ {r} : checkpoint'[q] = checkpoint[q]
  BY <1>1, <1>2, <1>7 DEF TypeOK
<1>9. lock[r] = w /\ checkpoint[r].next = "research"
  BY <1>1 DEF ThreadAgrees, Holding
<1>10. BudgetGrows /\ RowsGrow
  BY TimeGrows DEF RowsGrow
<1>11. TypeOK'
  BY <1>1, <1>4, <1>8 DEF TypeOK, Continues
<1>12. RowAgrees(r)'
  BY <1>10, <1>11, RowRemains
<1>13. CheckpointAgrees(r)'
  BY <1>6, <1>8 DEF CheckpointAgrees
<1>14. PlaceAgrees(w)'
  BY <1>4, <1>6, <1>8, <1>9, <1>10, VerifyingPlace
<1>15. \A v \in Workers : At(v, "conflict") /\ Req(v) = r => Overtaken(r)
  BY <1>9, NobodyIsStranded
<1>16. Req(w)' = r /\ worker'[w].pc \notin {"dispatched", "conflict", "starting"}
  BY <1>4 DEF Req, Continues
<1>17. row' \in [Requests -> Row \cup {Unused}] /\ lock' \in [Requests -> Workers \cup {Unused}]
  BY <1>11 DEF TypeOK
<1>18. QED
  BY <1>4, <1>8, <1>9, <1>10, <1>12, <1>13, <1>14, <1>15, <1>16, <1>17, SaveKeeps DEF Continues

\* The first stage finds its row or executes the plan.
LEMMA ResearchKeeps ==
  ASSUME WorkflowInv, NEW w \in Workers, Research(w)
  PROVE  WorkflowInv'
<1>0. worker[w].pc = "research" /\ worker[w].pc # "idle" /\ Planning(w)
  BY DEF Research, At, Planning
<1>1. PICK r \in Requests : r = Req(w)
  BY <1>0, Standing
<1>2. ledger' = ledger /\ row' = row /\ lock' = lock /\ report' = report
  BY DEF Research
<1>3. CASE row[r] # Unused
  <2>1. SaveResult(w, row[r].result)
    BY <1>1, <1>3 DEF Research
  <2>2. QED
    BY <1>0, <1>1, <1>2, <1>3, <2>1, SaveResultKeeps
<1>4. CASE row[r] = Unused
  <2> DEFINE n == [worker[w] EXCEPT !.pc = "operations", !.outcomes = <<>>]
  <2>1. TypeOK /\ ThreadAgrees(w) /\ worker[w] \in Process
    BY <1>0, Standing, ProcessFields
  <2>2. worker' = [worker EXCEPT ![w] = n] /\ checkpoint' = checkpoint
    BY <1>1, <1>4 DEF Research
  <2>3. /\ n.pc = "operations" /\ n.request = worker[w].request /\ n.outcomes = <<>>
    BY <2>1 DEF Process
  <2>4. n \in Process
    <3> DEFINE none == <<>>
    <3>1. none \in Seq(Charge) /\ n = [worker[w] EXCEPT !.pc = "operations", !.outcomes = none]
      OBVIOUS
    <3> HIDE DEF none, n
    <3>2. QED
      BY <2>1, <3>1, ZenonT(30) DEF Process, Places
  <2> HIDE DEF n
  <2>5. worker' \in [Workers -> Process] /\ worker'[w] = n /\ \A v \in Workers \ {w} : worker'[v] = worker[v]
    BY <2>1, <2>2, <2>4, ProcessReplaced
  <2>6. worker'[w].request = r
    BY <1>1, <2>3, <2>5 DEF Req
  <2>7. Tells(worker[w].outcomes, Req(w))'
    BY <2>3, <2>5, <2>6, PlanIsFinite, TellsItsRun
  <2>8. ~Staged(w)' /\ ~Printing(w)'
    BY <2>3, <2>5 DEF Staged, Printing, Exports
  <2>r. row'[r] = Unused
    BY <1>2, <1>4
  <2>9. lock[r] = w /\ checkpoint[r].next = "research"
    BY <1>0, <1>1, <2>1 DEF ThreadAgrees, Holding
  <2>10. ThreadAgrees(w)'
    BY <1>2, <2>2, <2>3, <2>5, <2>6, <2>8, <2>9, <2>r DEF ThreadAgrees, Req
  <2>11. PlanAgrees(w)'
    BY <2>3, <2>5, <2>7, <2>8 DEF PlanAgrees
  <2>12. AnswerAgrees(w)'
    BY <2>3, <2>5, <2>8 DEF AnswerAgrees
  <2>13. PlaceAgrees(w)'
    BY <2>6, <2>10, <2>11, <2>12 DEF PlaceAgrees, Req
  <2>14. /\ worker'[w].pc \notin {"dispatched", "starting"} /\ ~At(w, "conflict")'
         /\ report' \in [Requests -> {"absent", "partial", "whole", "edited"}]
         /\ lock' \in [Requests -> Workers \cup {Unused}]
    BY <1>2, <2>1, <2>3, <2>5 DEF At, TypeOK
  <2>15. QED
    BY <1>2, <2>2, <2>5, <2>13, <2>14, QuietKeeps
<1>5. QED
  BY <1>3, <1>4

\* The row is inserted, or was there already.
LEMMA InsertKeeps ==
  ASSUME WorkflowInv, NEW w \in Workers, Insert(w)
  PROVE  WorkflowInv' /\ RowsGrow
<1> DEFINE outcomes == worker[w].outcomes
           budget == worker[w].budget
           n == [result |-> outcomes, budget |-> budget, completion |-> Unused, remembered |-> FALSE]
<1>0. worker[w].pc = "inserting" /\ worker[w].pc # "idle" /\ Planning(w) /\ "inserted" \in Places
  BY DEF Insert, At, Planning, Places
<1>1. PICK r \in Requests : r = Req(w)
  BY <1>0, Standing
<1>2. /\ TypeOK /\ ThreadAgrees(w) /\ PlanAgrees(w) /\ outcomes \in Seq(Charge) /\ Tells(outcomes, r)
      /\ RowAgrees(r)
  BY <1>0, <1>1, Standing
<1>u. row[r] = Unused
  BY <1>0, <1>1, <1>2 DEF ThreadAgrees, Recording
<1>3. Go(w, "inserted") /\ ledger' = ledger /\ checkpoint' = checkpoint /\ lock' = lock
      /\ report' = report /\ row' = [row EXCEPT ![r] = n]
  BY <1>1, <1>u DEF Insert
<1>4. /\ Len(outcomes) = N /\ budget \in Budgets /\ Len(outcomes) \in Nat
      /\ Backed(outcomes, budget) /\ WasRead(budget, r)
  BY <1>0, <1>1, <1>2, PlanIsFinite DEF PlanAgrees, TypeOK
<1>5. /\ Continues(w) /\ worker'[w].pc = "inserted" /\ worker'[w].outcomes = outcomes
      /\ worker'[w].budget = budget
  BY <1>0, <1>2, <1>3, GoMoves
<1>6. /\ n.result = outcomes /\ n.budget = budget /\ n.completion = Unused /\ n.remembered = FALSE
  OBVIOUS
<1>7. n \in Row
  <2> HIDE DEF outcomes, budget
  <2>1. QED
    BY <1>2, <1>4 DEF Row
<1> HIDE DEF n
<1>8. n # Unused
  BY <1>7, WorkflowAssumption DEF WorkflowAssumption
<1>9. row' \in [Requests -> Row \cup {Unused}] /\ \A q \in Requests \ {r} : row'[q] = row[q]
  BY <1>2, <1>3, <1>7 DEF TypeOK
<1>10. row'[r] = n
  BY <1>2, <1>3 DEF TypeOK
<1>11. BudgetGrows
  BY <1>3, TimeGrows
<1>12. RowsGrow
  <2>1. \A q \in Requests : row[q] # Unused => row'[q] = row[q]
    BY <1>9, <1>u
  <2>2. QED
    BY <2>1 DEF RowsGrow
<1>13. TypeOK'
  BY <1>2, <1>3, <1>5, <1>9 DEF TypeOK, Continues
<1>14. RowAgrees(r)'
  <2>1. /\ row'[r].result = outcomes /\ row'[r].budget = budget /\ row'[r].completion = Unused
        /\ row'[r].remembered = FALSE
    BY <1>6, <1>10
  <2>2. /\ Len(row'[r].result) =< N
        /\ \A i \in 1 .. Len(row'[r].result) :
             \/ row'[r].result[i] = BudgetStopped
             \/ Passed(r, i)' /\ row'[r].result[i] = ledger'[r][i]
    BY <1>2, <1>4, <1>11, <2>1, ToldRemains
  <2>3. Tells(row[r].result, r)'
    BY <2>2 DEF Tells
  <2>4. \A i \in Operations : Older(row'[r].budget[i], ledger'[r][i])
    BY <1>4, <1>11, <2>1, ReadStays
  <2>5. QED
    BY <1>4, <2>1, <2>3, <2>4 DEF RowAgrees, WasRead, Backed
<1>15. lock[r] = w /\ checkpoint[r].next = "research"
  BY <1>0, <1>1, <1>2 DEF ThreadAgrees, Holding
<1>16. CheckpointAgrees(r)'
  BY <1>3, <1>15 DEF CheckpointAgrees
<1>17. worker'[w].request = r
  BY <1>1, <1>5 DEF Continues, Req
<1>18. ~Staged(w)' /\ ~Printing(w)' /\ ~Recording(w)'
  BY <1>5 DEF Staged, Printing, Exports, Recording, Operating
<1>19. PlaceAgrees(w)'
  <2>1. ThreadAgrees(w)'
    BY <1>3, <1>5, <1>15, <1>17, <1>18 DEF ThreadAgrees, Req
  <2>2. Tells(worker[w].outcomes, Req(w))'
    BY <1>0, <1>5, <1>11, TellsRemains DEF Continues
  <2>3. PlanAgrees(w)'
    BY <1>4, <1>5, <1>6, <1>8, <1>10, <1>17, <1>18, <2>2 DEF PlanAgrees, Req
  <2>4. AnswerAgrees(w)'
    BY <1>5, <1>18 DEF AnswerAgrees
  <2>5. QED
    BY <1>17, <2>1, <2>3, <2>4 DEF PlaceAgrees, Req
<1>20. \A v \in Workers : At(v, "conflict") /\ Req(v) = r => Overtaken(r)
  BY <1>15, NobodyIsStranded
<1>21. /\ Req(w)' = r /\ worker'[w].pc \notin {"dispatched", "conflict", "starting"}
       /\ checkpoint' \in [Requests -> Saved] /\ lock' \in [Requests -> Workers \cup {Unused}]
  BY <1>5, <1>13, <1>17 DEF Req, TypeOK
<1>22. QED
  BY <1>3, <1>5, <1>9, <1>12, <1>14, <1>15, <1>16, <1>19, <1>20, <1>21, SaveKeeps DEF Continues

\* The row that is read again is the one this execution has written.
LEMMA RereadKeeps ==
  ASSUME WorkflowInv, NEW w \in Workers, Reread(w)
  PROVE  WorkflowInv'
<1>0. worker[w].pc = "inserted" /\ worker[w].pc # "idle" /\ Planning(w)
  BY DEF Reread, At, Planning
<1>1. PICK r \in Requests : r = Req(w)
  BY <1>0, Standing
<1>2. row[r] # Unused /\ row[r].result = worker[w].outcomes /\ row[r].budget = worker[w].budget
  BY <1>0, <1>1, Standing DEF PlanAgrees
<1>3. SaveResult(w, row[r].result) /\ lock' = lock
  BY <1>1, <1>2 DEF Reread
<1>4. ledger' = ledger /\ row' = row /\ report' = report
  BY DEF Reread
<1>5. QED
  BY <1>0, <1>1, <1>2, <1>3, <1>4, SaveResultKeeps

\* A row that gains its completion or its memory.
LEMMA RowGains ==
  ASSUME WorkflowInv, ledger' = ledger, NEW r \in Requests, row[r] # Unused, TypeOK,
         row'[r].result = row[r].result, row'[r].budget = row[r].budget,
         row'[r].completion \in {Unused, SavedCompletion(r)},
         row'[r].remembered = TRUE => row'[r].completion = SavedCompletion(r)
  PROVE  RowAgrees(r)' /\ SavedCompletion(r)' = SavedCompletion(r)
<1>1. SavedCompletion(r)' = SavedCompletion(r)
  BY DEF SavedCompletion, Completion
<1>2. RowAgrees(r) /\ Tells(row[r].result, r) /\ Len(row[r].result) = N
  BY DEF WorkflowInv, RowAgrees
<1>3. row[r].result \in Seq(Charge) /\ Len(row[r].result) \in Nat
  BY DEF TypeOK, Row
<1>4. /\ Len(row'[r].result) =< N
      /\ \A i \in 1 .. Len(row'[r].result) :
           \/ row'[r].result[i] = BudgetStopped
           \/ Passed(r, i)' /\ row'[r].result[i] = ledger'[r][i]
  BY <1>2, <1>3, TimeGrows, ToldRemains
<1>5. Tells(row[r].result, r)'
  BY <1>4 DEF Tells
<1>6. Backed(row'[r].result, row'[r].budget) /\ \A i \in Operations : Older(row'[r].budget[i], ledger'[r][i])
  BY DEF WorkflowInv, RowAgrees, WasRead, Backed
<1>7. QED
  BY <1>1, <1>2, <1>5, <1>6 DEF RowAgrees, WasRead, Backed

\* What the later stages stand on.
LEMMA StageStands ==
  ASSUME WorkflowInv, NEW w \in Workers, worker[w].pc = "completing", worker[w].stage # "print",
         NEW r \in Requests, r = Req(w)
  PROVE  /\ lock[r] = w /\ checkpoint[r].next = worker[w].stage
         /\ worker[w].stage \in {"report", "remember", "end"}
         /\ row[r] # Unused /\ row[r] \in Row /\ checkpoint[r] \in Saved
         /\ checkpoint[r].result = row[r].result
<1>1. ThreadAgrees(w) /\ CheckpointAgrees(r) /\ TypeOK /\ Staged(w) /\ Holding(w)
  BY Standing DEF Staged, Holding, Exports
<1>2. /\ lock[r] = w /\ checkpoint[r].next = worker[w].stage
      /\ worker[w].stage \in {"report", "remember", "end"}
  BY <1>1 DEF ThreadAgrees
<1>3. row[r] # Unused /\ checkpoint[r].result = row[r].result
  BY <1>1, <1>2 DEF CheckpointAgrees
<1>4. QED
  BY <1>1, <1>2, <1>3 DEF TypeOK

\* The completion is recorded with its checkpoint.
LEMMA ReportKeeps ==
  ASSUME WorkflowInv, NEW w \in Workers, Report(w)
  PROVE  WorkflowInv' /\ RowsGrow
<1>0. worker[w].pc = "completing" /\ worker[w].pc # "idle" /\ worker[w].stage = "report"
  BY DEF Report, At
<1>1. PICK r \in Requests : r = Req(w)
  BY <1>0, Standing
<1>2. /\ TypeOK /\ RowAgrees(r) /\ lock[r] = w /\ checkpoint[r].next = "report" /\ row[r] # Unused
      /\ row[r] \in Row /\ checkpoint[r] \in Saved /\ checkpoint[r].result = row[r].result
  BY <1>0, <1>1, Standing, StageStands
<1> DEFINE completion == SavedCompletion(r)
           n == [row[r] EXCEPT !.completion = IF row[r].completion = Unused THEN completion
                                              ELSE row[r].completion]
           c == [checkpoint[r] EXCEPT !.next = "remember", !.completion = completion]
<1>3. row' = [row EXCEPT ![r] = n]
  BY <1>1 DEF Report
<1>4. /\ ledger' = ledger /\ report' = report
  BY DEF Report
<1>5. completion \in Completions /\ row[r].completion \in {Unused, completion}
  BY <1>2 DEF SavedCompletion, Completion, Completions, Row, RowAgrees
<1>6. /\ n.completion = completion /\ n.result = row[r].result /\ n.budget = row[r].budget
      /\ n.remembered = row[r].remembered
  BY <1>2, <1>5 DEF Row
<1>7. n \in Row
  <2>1. (IF row[r].completion = Unused THEN completion ELSE row[r].completion) \in Completions \cup {Unused}
    BY <1>5
  <2> DEFINE e == IF row[r].completion = Unused THEN completion ELSE row[r].completion
  <2>2. e \in Completions \cup {Unused} /\ n = [row[r] EXCEPT !.completion = e]
    BY <2>1
  <2> HIDE DEF e, n, completion
  <2>3. QED
    BY <1>2, <2>2, ZenonT(30) DEF Row
<1>8. /\ c.next = "remember" /\ c.completion = completion /\ c.result = checkpoint[r].result
  BY <1>2 DEF Saved
<1>9. c \in Saved
  <2> HIDE DEF completion
  <2>1. QED
    BY <1>2, <1>5, ZenonT(30) DEF Saved
<1> HIDE DEF n
<1>10. row' \in [Requests -> Row \cup {Unused}] /\ row'[r] = n /\ \A q \in Requests \ {r} : row'[q] = row[q]
  BY <1>2, <1>3, <1>7 DEF TypeOK
<1>11. /\ checkpoint' = [checkpoint EXCEPT ![r] = c] /\ lock' = lock
       /\ worker' = [worker EXCEPT ![w].pc = "verifying", ![w].stage = "remember"]
  BY <1>1, <1>6, <1>10 DEF Report
<1> HIDE DEF c, completion
<1>12. "verifying" \in Places
  BY DEF Places
<1>13. /\ Continues(w) /\ worker'[w].pc = "verifying" /\ worker'[w].outcomes = worker[w].outcomes
       /\ worker'[w].stage = "remember"
  <2>1. TypeOK /\ worker' = [worker EXCEPT ![w].pc = "verifying", ![w].stage = "remember"]
    BY <1>2, <1>11
  <2>2. "remember" \in {"report", "remember", "end", "print"}
    OBVIOUS
  <2>3. QED
    BY <1>12, <2>1, <2>2, StageMoves
<1>14. /\ checkpoint' \in [Requests -> Saved] /\ checkpoint'[r] = c
       /\ \A q \in Requests \ {r} : checkpoint'[q] = checkpoint[q]
  BY <1>2, <1>9, <1>11 DEF TypeOK
<1>15. n # Unused
  BY <1>7, WorkflowAssumption DEF WorkflowAssumption
<1>16. RowAgrees(r)' /\ SavedCompletion(r)' = completion
  <2>1. completion = SavedCompletion(r)
    BY DEF completion
  <2>2. /\ row'[r].result = row[r].result /\ row'[r].budget = row[r].budget
        /\ row'[r].completion = SavedCompletion(r)
    BY <1>6, <1>10, <2>1
  <2>3. QED
    BY <1>2, <1>4, <2>1, <2>2, RowGains
<1>17. CheckpointAgrees(r)'
  BY <1>2, <1>6, <1>8, <1>10, <1>14, <1>15, <1>16 DEF CheckpointAgrees
<1>18. BudgetGrows
  BY <1>4, TimeGrows
<1>19. RowsGrow
  <2>1. /\ row'[r] # Unused /\ row'[r].result = row[r].result /\ row'[r].budget = row[r].budget
        /\ row'[r].completion = SavedCompletion(r) /\ row'[r].remembered = row[r].remembered
    BY <1>6, <1>10, <1>15 DEF completion
  <2>2. ASSUME NEW q \in Requests, row[q] # Unused
        PROVE  /\ row'[q] # Unused
               /\ row'[q].result = row[q].result /\ row'[q].budget = row[q].budget
               /\ row'[q].completion \in {row[q].completion, SavedCompletion(q)}
               /\ row[q].remembered = TRUE => row'[q].remembered = TRUE
    <3>1. CASE q = r
      BY <2>1, <3>1
    <3>2. CASE q # r
      BY <1>10, <2>2, <3>2
    <3>3. QED
      BY <3>1, <3>2
  <2>3. QED
    BY <2>2 DEF RowsGrow
<1>20. PlaceAgrees(w)'
  <2>1. /\ checkpoint'[r].next = worker'[w].stage /\ lock'[r] = w
        /\ worker'[w].stage \in {"report", "remember", "end"}
    BY <1>2, <1>8, <1>11, <1>13, <1>14
  <2>2. QED
    BY <1>0, <1>1, <1>13, <1>18, <2>1, VerifyingPlace
<1>21. \A v \in Workers : At(v, "conflict") /\ Req(v) = r => Overtaken(r)
  BY <1>2, NobodyIsStranded
<1>22. Req(w)' = r /\ worker'[w].pc \notin {"dispatched", "conflict", "starting"}
       /\ lock' \in [Requests -> Workers \cup {Unused}]
  BY <1>1, <1>2, <1>11, <1>13 DEF Req, Continues, TypeOK
<1>23. QED
  BY <1>2, <1>4, <1>10, <1>11, <1>13, <1>14, <1>16, <1>17, <1>19, <1>20, <1>21, <1>22, SaveKeeps
  DEF Continues

\* The row is remembered.
LEMMA RememberKeeps ==
  ASSUME WorkflowInv, NEW w \in Workers, Remember(w)
  PROVE  WorkflowInv' /\ RowsGrow
<1>0. worker[w].pc = "completing" /\ worker[w].pc # "idle" /\ worker[w].stage = "remember"
      /\ "remembered" \in Places
  BY DEF Remember, At, Places
<1>1. PICK r \in Requests : r = Req(w)
  BY <1>0, Standing
<1>2. /\ TypeOK /\ CheckpointAgrees(r) /\ lock[r] = w /\ checkpoint[r].next = "remember" /\ row[r] # Unused
      /\ row[r] \in Row /\ checkpoint[r] \in Saved
  BY <1>0, <1>1, Standing, StageStands
<1> DEFINE n == [row[r] EXCEPT !.remembered = TRUE]
<1>3. row' = [row EXCEPT ![r] = n] /\ Go(w, "remembered")
  BY <1>1 DEF Remember
<1>4. ledger' = ledger /\ report' = report /\ checkpoint' = checkpoint /\ lock' = lock
  BY DEF Remember
<1>5. /\ n.completion = row[r].completion /\ n.result = row[r].result /\ n.budget = row[r].budget
      /\ n.remembered = TRUE
  BY <1>2 DEF Row
<1>6. n \in Row
  BY <1>2, ZenonT(30) DEF Row
<1> HIDE DEF n
<1>7. row' \in [Requests -> Row \cup {Unused}] /\ row'[r] = n /\ \A q \in Requests \ {r} : row'[q] = row[q]
  BY <1>2, <1>3, <1>6 DEF TypeOK
<1>8. n # Unused
  BY <1>6, WorkflowAssumption DEF WorkflowAssumption
<1>9. row[r].completion = SavedCompletion(r)
  BY <1>2 DEF CheckpointAgrees
<1>10. RowAgrees(r)' /\ SavedCompletion(r)' = SavedCompletion(r)
  BY <1>2, <1>4, <1>5, <1>7, <1>9, RowGains
<1>11. CheckpointAgrees(r)'
  BY <1>2, <1>4, <1>5, <1>7, <1>8, <1>9, <1>10 DEF CheckpointAgrees
<1>12. RowsGrow
  <2>1. ASSUME NEW q \in Requests, row[q] # Unused
        PROVE  /\ row'[q] # Unused
               /\ row'[q].result = row[q].result /\ row'[q].budget = row[q].budget
               /\ row'[q].completion = row[q].completion
               /\ row[q].remembered = TRUE => row'[q].remembered = TRUE
    <3>1. CASE q = r
      BY <1>5, <1>7, <1>8, <3>1
    <3>2. CASE q # r
      BY <1>7, <2>1, <3>2
    <3>3. QED
      BY <3>1, <3>2
  <2>2. QED
    BY <2>1 DEF RowsGrow
<1>13. /\ Continues(w) /\ worker'[w].pc = "remembered" /\ worker'[w].outcomes = worker[w].outcomes
  BY <1>0, <1>2, <1>3, GoMoves
<1>14. worker'[w].request = r
  BY <1>1, <1>13 DEF Continues, Req
<1>15. ~Staged(w)' /\ ~Printing(w)' /\ ~Planning(w)' /\ ~Recording(w)'
  BY <1>13 DEF Staged, Printing, Planning, Exports, Recording, Operating
<1>16. PlaceAgrees(w)'
  <2>1. row'[r].remembered = TRUE
    BY <1>5, <1>7
  <2>2. ThreadAgrees(w)'
    BY <1>2, <1>4, <1>13, <1>14, <1>15, <2>1 DEF ThreadAgrees, Req
  <2>3. Tells(worker[w].outcomes, Req(w))'
    BY <1>0, <1>4, <1>13, TimeGrows, TellsRemains DEF Continues
  <2>4. PlanAgrees(w)'
    BY <1>13, <1>15, <2>3 DEF PlanAgrees
  <2>5. AnswerAgrees(w)'
    BY <1>13, <1>15 DEF AnswerAgrees
  <2>6. QED
    BY <1>14, <2>2, <2>4, <2>5 DEF PlaceAgrees, Req
<1>17. \A v \in Workers : At(v, "conflict") /\ Req(v) = r => Overtaken(r)
  BY <1>2, NobodyIsStranded
<1>18. /\ Req(w)' = r /\ worker'[w].pc \notin {"dispatched", "conflict", "starting"}
       /\ checkpoint' \in [Requests -> Saved] /\ lock' \in [Requests -> Workers \cup {Unused}]
  BY <1>2, <1>4, <1>13, <1>14 DEF Req, TypeOK
<1>19. QED
  BY <1>2, <1>4, <1>7, <1>10, <1>11, <1>12, <1>13, <1>16, <1>17, <1>18, SaveKeeps DEF Continues

\* The last checkpoint is saved after its row.
LEMMA SaveEndKeeps ==
  ASSUME WorkflowInv, NEW w \in Workers, SaveEnd(w)
  PROVE  WorkflowInv'
<1>0. worker[w].pc = "remembered" /\ worker[w].pc # "idle" /\ "verifying" \in Places
  BY DEF SaveEnd, At, Places
<1>1. PICK r \in Requests : r = Req(w)
  BY <1>0, Standing
<1>2. TypeOK /\ CheckpointAgrees(r) /\ ThreadAgrees(w) /\ checkpoint[r] \in Saved
  BY <1>0, <1>1, Standing DEF TypeOK
<1>3. lock[r] = w /\ checkpoint[r].next = "remember" /\ row[r].remembered = TRUE
  BY <1>0, <1>1, <1>2 DEF ThreadAgrees, Holding
<1> DEFINE c == [checkpoint[r] EXCEPT !.next = "end"]
<1>4. /\ checkpoint' = [checkpoint EXCEPT ![r] = c] /\ lock' = lock
      /\ ledger' = ledger /\ row' = row /\ report' = report
      /\ worker' = [worker EXCEPT ![w].pc = "verifying", ![w].stage = "end"]
  BY <1>1 DEF SaveEnd
<1>5. /\ c.next = "end" /\ c.completion = checkpoint[r].completion /\ c.result = checkpoint[r].result
  BY <1>2 DEF Saved
<1>6. c \in Saved
  BY <1>2, ZenonT(30) DEF Saved
<1> HIDE DEF c
<1>7. /\ checkpoint' \in [Requests -> Saved] /\ checkpoint'[r] = c
      /\ \A q \in Requests \ {r} : checkpoint'[q] = checkpoint[q]
  BY <1>2, <1>4, <1>6 DEF TypeOK
<1>8. /\ Continues(w) /\ worker'[w].pc = "verifying" /\ worker'[w].outcomes = worker[w].outcomes
      /\ worker'[w].stage = "end"
  BY <1>0, <1>2, <1>4, StageMoves
<1>9. BudgetGrows /\ RowsGrow
  BY <1>4, TimeGrows DEF RowsGrow
<1>10. TypeOK'
  BY <1>2, <1>4, <1>7, <1>8 DEF TypeOK, Continues
<1>11. RowAgrees(r)'
  BY <1>4, <1>9, <1>10, RowRemains
<1>12. SavedCompletion(r)' = SavedCompletion(r)
  BY <1>4 DEF SavedCompletion, Completion
<1>13. CheckpointAgrees(r)'
  BY <1>2, <1>3, <1>4, <1>5, <1>7, <1>12 DEF CheckpointAgrees
<1>14. PlaceAgrees(w)'
  <2>1. /\ checkpoint'[r].next = worker'[w].stage /\ lock'[r] = w
        /\ worker'[w].stage \in {"report", "remember", "end"}
    BY <1>3, <1>4, <1>5, <1>7, <1>8
  <2>2. QED
    BY <1>0, <1>1, <1>8, <1>9, <2>1, VerifyingPlace
<1>15. \A v \in Workers : At(v, "conflict") /\ Req(v) = r => Overtaken(r)
  BY <1>3, NobodyIsStranded
<1>16. /\ Req(w)' = r /\ worker'[w].pc \notin {"dispatched", "conflict", "starting"}
       /\ row' \in [Requests -> Row \cup {Unused}] /\ lock' \in [Requests -> Workers \cup {Unused}]
  BY <1>1, <1>8, <1>10 DEF Req, Continues, TypeOK
<1>17. QED
  BY <1>3, <1>4, <1>7, <1>8, <1>9, <1>11, <1>13, <1>14, <1>15, <1>16, SaveKeeps DEF Continues

-----------------------------------------------------------------------------
(* Every step of the workflow. *)

\* A process starts.
LEMMA BeginKeeps ==
  ASSUME WorkflowInv, NEW w \in Workers, NEW r \in Requests, NEW mode \in {"job", "workflow", "plain"},
         Begin(w, r, mode)
  PROVE  /\ WorkflowInv' /\ worker'[w].request = r /\ worker'[w].mode = mode
         /\ \A v \in Workers \ {w} : worker'[v] = worker[v]
<1> DEFINE pc == IF mode = "plain" THEN "operations" ELSE "locking"
           n == [Idle EXCEPT !.pc = pc, !.request = r, !.mode = mode]
<1>1. /\ worker' = [worker EXCEPT ![w] = n] /\ ledger' = ledger /\ row' = row
      /\ checkpoint' = checkpoint /\ lock' = lock /\ report' = report
  BY DEF Begin
<1>2. TypeOK
  BY DEF WorkflowInv
<1>3. pc \in {"operations", "locking"} /\ pc \in Places /\ (pc = "operations" <=> mode = "plain")
  BY DEF Places
<1>4. Idle \in Process
  BY DEF Idle, Process, Places
<1>5. n.pc = pc /\ n.request = r /\ n.mode = mode /\ n.outcomes = <<>>
  BY DEF Idle
<1>6. n \in Process
  <2> HIDE DEF pc
  <2>1. QED
    BY <1>3, <1>4, ZenonT(30) DEF Process
<1> HIDE DEF n, pc
<1>7. worker' \in [Workers -> Process] /\ worker'[w] = n /\ \A v \in Workers \ {w} : worker'[v] = worker[v]
  BY <1>1, <1>2, <1>6, ProcessReplaced
<1>8. worker'[w].request = r /\ worker'[w].mode = mode
  BY <1>5, <1>7
<1>9. Tells(worker[w].outcomes, Req(w))'
  BY <1>5, <1>7, <1>8, PlanIsFinite, TellsItsRun
<1>10. ~Staged(w)' /\ ~Printing(w)' /\ ~Planning(w)' /\ ~Holding(w)' /\ ~Recording(w)'
  BY <1>3, <1>5, <1>7 DEF Staged, Printing, Planning, Holding, Exports, Recording, Operating
<1>11. ThreadAgrees(w)'
  BY <1>3, <1>5, <1>7, <1>10 DEF ThreadAgrees
<1>12. PlanAgrees(w)'
  BY <1>3, <1>5, <1>7, <1>9, <1>10 DEF PlanAgrees
<1>13. AnswerAgrees(w)'
  BY <1>3, <1>5, <1>7, <1>10 DEF AnswerAgrees
<1>14. PlaceAgrees(w)'
  BY <1>8, <1>11, <1>12, <1>13 DEF PlaceAgrees, Req
<1>15. /\ worker'[w].pc \notin {"dispatched", "starting"} /\ ~At(w, "conflict")'
       /\ report' \in [Requests -> {"absent", "partial", "whole", "edited"}]
       /\ lock' \in [Requests -> Workers \cup {Unused}]
  BY <1>1, <1>2, <1>3, <1>5, <1>7 DEF At, TypeOK
<1>16. QED
  BY <1>1, <1>7, <1>8, <1>14, <1>15, QuietKeeps

\* What happens around the processes leaves their places as they are.
LEMMA SurroundingsKeep ==
  ASSUME WorkflowInv, ledger' = ledger, row' = row, checkpoint' = checkpoint,
         lock' = lock, worker' = worker,
         report' \in [Requests -> {"absent", "partial", "whole", "edited"}]
  PROVE  WorkflowInv'
<1>1. TypeOK'
  BY DEF WorkflowInv, TypeOK
<1>2. BudgetGrows /\ RowsGrow
  BY TimeGrows DEF RowsGrow
<1>3. Leaves(Unused)
  BY DEF Leaves
<1>4. \A v \in Workers : PlaceAgrees(v)'
  <2>1. \A v \in Workers : v \in Workers \ {Unused}
    BY WorkflowAssumption DEF WorkflowAssumption
  <2>2. QED
    BY <1>1, <1>2, <1>3, <2>1, OthersAgree
<1>5. \A r \in Requests : RowAgrees(r)' /\ CheckpointAgrees(r)'
  BY <1>1, <1>2, RunsAgree
<1>6. OneDispatch' /\ StrandedStays'
  BY DEF WorkflowInv, OneDispatch, StrandedStays, At, Req, Operation
<1>7. QED
  BY <1>1, <1>4, <1>5, <1>6 DEF WorkflowInv

\* A step of a process.
LEMMA StepKeeps ==
  ASSUME WorkflowInv, NEW w \in Workers, Step(w)
  PROVE  WorkflowInv' /\ BudgetGrows /\ RowsGrow
<1>1. WorkflowInv'
  BY EndKeeps, OperateKeeps, RefusalKeeps, SettleKeeps, ReadBudgetKeeps, LockKeeps, SaveInputKeeps,
     ResearchKeeps, InsertKeeps, RereadKeeps, VerifyKeeps, ExportKeeps, WriteKeeps, ReportKeeps,
     RememberKeeps, SaveEndKeeps, FinishKeeps, PrintKeeps, ReadClockKeeps, SettleRefusedKeeps,
     PlainResultKeeps
  DEF Step
<1>2. BudgetGrows
  <2>1. CASE Operate(w) \/ Settle(w)
    BY <2>1, OperateKeeps, SettleKeeps
  <2>2. CASE ~Operate(w) /\ ~Settle(w)
    <3>1. ledger' = ledger
      BY <2>2 DEF Step, Exit, OperateUncertain, ReadBudget, Lock, LockBusy, SaveInput, Research, Insert,
                  Reread, Verify, Export, Write, Report, Remember, SaveEnd, Finish, PrintCompletion,
                  ReadClock, SettleRefused, PlainResult
    <3>2. QED
      BY <3>1, TimeGrows
  <2>3. QED
    BY <2>1, <2>2
<1>3. RowsGrow
  <2>1. CASE Insert(w) \/ Report(w) \/ Remember(w)
    BY <2>1, InsertKeeps, ReportKeeps, RememberKeeps
  <2>2. CASE ~Insert(w) /\ ~Report(w) /\ ~Remember(w)
    <3>1. row' = row
      BY <2>2 DEF Step, Exit, Operate, OperateUncertain, Settle, ReadBudget, Lock, LockBusy, SaveInput,
                  Research, Reread, Verify, Export, Write, SaveEnd, Finish, PrintCompletion,
                  ReadClock, SettleRefused, PlainResult
    <3>2. QED
      BY <3>1 DEF RowsGrow
  <2>3. QED
    BY <2>1, <2>2
<1>4. QED
  BY <1>1, <1>2, <1>3

\* A process that goes on keeps its request and its mode.
LEMMA StepContinues ==
  ASSUME WorkflowInv, NEW w \in Workers, Step(w), worker[w].pc \notin Errors
  PROVE  /\ worker'[w].request = worker[w].request /\ worker'[w].mode = worker[w].mode
         /\ \A v \in Workers \ {w} : worker'[v] = worker[v]
<1>1. worker \in [Workers -> Process] /\ worker[w] \in Process
  BY ProcessFields DEF WorkflowInv, TypeOK
<1>2. CASE Operate(w) \/ OperateUncertain(w) \/ Settle(w) \/ ReadBudget(w)
  BY <1>1, <1>2 DEF Operate, OperateUncertain, Settle, ReadBudget, Go, Outcome, Raise, Process
<1>a. CASE ReadClock(w) \/ SettleRefused(w) \/ PlainResult(w)
  BY <1>1, <1>a DEF ReadClock, SettleRefused, PlainResult, Go, Outcome, Process
<1>3. CASE Lock(w) \/ LockBusy(w) \/ SaveInput(w) \/ Research(w)
  <2>1. CASE Lock(w)
    <3>1. checkpoint[Req(w)] \in Saved
      BY <2>1, Standing DEF Lock, At, TypeOK
    <3>2. PICK next : next = checkpoint[Req(w)].next
      OBVIOUS
    <3>3. next \in {"none", "input", "research", "report", "remember", "end"}
      BY <3>1, <3>2 DEF Saved
    <3>4. CASE next \in {"none", "input"}
      <4>1. Go(w, "starting") \/ Go(w, "conflict")
        BY <2>1, <3>2, <3>4 DEF Lock, Raise
      <4>2. QED
        BY <1>1, <4>1 DEF Go, Process
    <3>5. CASE next \in {"research", "report", "remember", "end"}
      <4>1. Resume(w, next)
        BY <2>1, <3>2, <3>5 DEF Lock
      <4>2. \/ Go(w, "research")
            \/ worker' = [worker EXCEPT ![w].pc = "verifying", ![w].stage = next]
        BY <3>5, <4>1 DEF Resume
      <4>3. QED
        BY <1>1, <4>2 DEF Go, Process
    <3>6. QED
      BY <3>3, <3>4, <3>5
  <2>2. CASE LockBusy(w) \/ SaveInput(w) \/ Research(w)
    BY <1>1, <2>2 DEF LockBusy, SaveInput, Research, SaveResult, Go, Raise, Process
  <2>3. QED
    BY <1>3, <2>1, <2>2
<1>4. CASE Insert(w) \/ Reread(w) \/ Verify(w) \/ Export(w) \/ Write(w)
  BY <1>1, <1>4 DEF Insert, Reread, Verify, Export, Write, SaveResult, Go, Raise, Process
<1>5. CASE Report(w) \/ Remember(w) \/ SaveEnd(w) \/ Finish(w) \/ PrintCompletion(w)
  BY <1>1, <1>5 DEF Report, Remember, SaveEnd, Finish, PrintCompletion, Go, Raise, Process
<1>6. QED
  BY <1>2, <1>a, <1>3, <1>4, <1>5 DEF Step, Exit

-----------------------------------------------------------------------------
(* The queue and the commands. *)

\* A job that was acknowledged stays remembered while receipts are kept.
LEMMA MemoryRemains ==
  ASSUME DeliveryInv, RowsGrow, NEW m \in Messages, queue[m] = "deleted"
  PROVE  row'[RequestOf[m]] # Unused /\ row'[RequestOf[m]].remembered = TRUE
<1>1. RequestOf[m] \in Requests
  BY DeliveryAssumption DEF DeliveryAssumption
<1>2. row[RequestOf[m]] # Unused /\ row[RequestOf[m]].remembered = TRUE
  BY DEF DeliveryInv, MessageAgrees
<1>3. QED
  BY <1>1, <1>2 DEF RowsGrow

\* A move that takes no message from the queue, of at most one process, which keeps its job.
LEMMA DeliveryKeeps ==
  ASSUME DeliveryInv, WorkflowInv', RowsGrow,
         queue' \in [Messages -> {"unsent", "visible", "inflight", "deleted"}],
         \A m \in Messages : queue'[m] = "deleted" => queue[m] = "deleted",
         holder' \in [Workers -> [message : Messages \cup {Unused}, current : BOOLEAN]],
         \A w \in Workers : HolderAgrees(w)'
  PROVE  DeliveryInv'
<1>1. \A m \in Messages : MessageAgrees(m)'
  BY MemoryRemains DEF MessageAgrees
<1>2. QED
  BY <1>1 DEF DeliveryInv

\* A process that does not move keeps the message it has.
LEMMA HolderRemains ==
  ASSUME NEW w \in Workers, HolderAgrees(w), worker'[w] = worker[w],
         holder'[w].message = holder[w].message
  PROVE  HolderAgrees(w)'
BY DEF HolderAgrees, Req

\* A message is sent, or its visibility time ends.
LEMMA QueueKeeps ==
  ASSUME DeliveryInv, NEW m \in Messages, Submit(m) \/ Expire(m)
  PROVE  DeliveryInv' /\ BudgetGrows
<1>0. WorkflowInv /\ TypeOK
  BY DEF DeliveryInv, WorkflowInv
<1>1. /\ ledger' = ledger /\ row' = row /\ checkpoint' = checkpoint /\ lock' = lock
      /\ report' = report /\ worker' = worker /\ queue' = [queue EXCEPT ![m] = "visible"]
  BY DEF Submit, Expire, workflowVars
<1>2. WorkflowInv' /\ RowsGrow /\ BudgetGrows
  BY <1>0, <1>1, SurroundingsKeep, TimeGrows DEF RowsGrow, TypeOK
<1>3. /\ queue' \in [Messages -> {"unsent", "visible", "inflight", "deleted"}]
      /\ \A n \in Messages : queue'[n] = "deleted" => queue[n] = "deleted"
  BY <1>1 DEF DeliveryInv
<1>4. /\ holder' \in [Workers -> [message : Messages \cup {Unused}, current : BOOLEAN]]
      /\ \A w \in Workers : holder'[w].message = holder[w].message
  <2>1. CASE Submit(m)
    BY <2>1 DEF Submit, DeliveryInv
  <2>2. CASE Expire(m)
    <3>1. holder' = [w \in Workers |-> IF Holds(w, m) THEN [holder[w] EXCEPT !.current = FALSE]
                                       ELSE holder[w]]
      BY <2>2 DEF Expire
    <3>2. ASSUME NEW w \in Workers
          PROVE  /\ holder'[w] \in [message : Messages \cup {Unused}, current : BOOLEAN]
                 /\ holder'[w].message = holder[w].message
      <4>1. holder[w] \in [message : Messages \cup {Unused}, current : BOOLEAN]
        BY DEF DeliveryInv
      <4>2. [holder[w] EXCEPT !.current = FALSE] \in [message : Messages \cup {Unused}, current : BOOLEAN]
        BY <4>1, ZenonT(30)
      <4>3. [holder[w] EXCEPT !.current = FALSE].message = holder[w].message
        BY <4>1
      <4>4. holder'[w] = [holder[w] EXCEPT !.current = FALSE] \/ holder'[w] = holder[w]
        BY <3>1
      <4>5. QED
        BY <4>1, <4>2, <4>3, <4>4
    <3>3. QED
      BY <3>1, <3>2
  <2>3. QED
    BY <2>1, <2>2
<1>5. \A w \in Workers : HolderAgrees(w)'
  BY <1>1, <1>4, HolderRemains DEF DeliveryInv
<1>6. QED
  BY <1>2, <1>3, <1>4, <1>5, DeliveryKeeps

\* A worker of the queue or a command starts.
LEMMA StartKeeps ==
  ASSUME DeliveryInv, NEW w \in Workers,
         \/ \E m \in Messages : Receive(w, m)
         \/ \E r \in Requests, mode \in {"workflow", "plain"} : Command(w, r, mode)
  PROVE  DeliveryInv' /\ BudgetGrows
<1>0. WorkflowInv
  BY DEF DeliveryInv
<1>1. CASE \E m \in Messages : Receive(w, m)
  <2>1. PICK m \in Messages : Receive(w, m)
    BY <1>1
  <2>2. RequestOf[m] \in Requests
    BY DeliveryAssumption DEF DeliveryAssumption
  <2>3. /\ Begin(w, RequestOf[m], "job") /\ queue' = [queue EXCEPT ![m] = "inflight"]
        /\ holder' = [holder EXCEPT ![w] = [message |-> m, current |-> TRUE]]
    BY <2>1 DEF Receive
  <2>4. /\ WorkflowInv' /\ worker'[w].request = RequestOf[m]
        /\ \A v \in Workers \ {w} : worker'[v] = worker[v]
    BY <1>0, <2>2, <2>3, BeginKeeps
  <2>5. ledger' = ledger /\ row' = row
    BY <2>3 DEF Begin
  <2>6. /\ queue' \in [Messages -> {"unsent", "visible", "inflight", "deleted"}]
        /\ \A n \in Messages : queue'[n] = "deleted" => queue[n] = "deleted"
    BY <2>3 DEF DeliveryInv
  <2>7. /\ holder' \in [Workers -> [message : Messages \cup {Unused}, current : BOOLEAN]]
        /\ holder'[w].message = m /\ \A v \in Workers \ {w} : holder'[v] = holder[v]
    BY <2>3 DEF DeliveryInv
  <2>8. ASSUME NEW v \in Workers PROVE HolderAgrees(v)'
    <3>1. CASE v = w
      BY <2>4, <2>7, <3>1 DEF HolderAgrees, Req
    <3>2. CASE v # w
      BY <2>4, <2>7, <3>2, HolderRemains DEF DeliveryInv
    <3>3. QED
      BY <3>1, <3>2
  <2>9. RowsGrow /\ BudgetGrows
    BY <2>5, TimeGrows DEF RowsGrow
  <2>10. QED
    BY <2>4, <2>6, <2>7, <2>8, <2>9, DeliveryKeeps
<1>2. CASE \E r \in Requests, mode \in {"workflow", "plain"} : Command(w, r, mode)
  <2>1. PICK r \in Requests, mode \in {"workflow", "plain"} : Command(w, r, mode)
    BY <1>2
  <2>2. Begin(w, r, mode) /\ queue' = queue /\ holder' = holder
    BY <2>1 DEF Command
  <2>3. /\ WorkflowInv' /\ worker'[w].mode = mode
        /\ \A v \in Workers \ {w} : worker'[v] = worker[v]
    BY <1>0, <2>2, BeginKeeps
  <2>4. ledger' = ledger /\ row' = row
    BY <2>2 DEF Begin
  <2>5. ASSUME NEW v \in Workers PROVE HolderAgrees(v)'
    <3>1. CASE v = w
      BY <2>3, <3>1 DEF HolderAgrees
    <3>2. CASE v # w
      BY <2>2, <2>3, <3>2, HolderRemains DEF DeliveryInv
    <3>3. QED
      BY <3>1, <3>2
  <2>6. RowsGrow /\ BudgetGrows
    BY <2>4, TimeGrows DEF RowsGrow
  <2>7. QED
    BY <2>2, <2>3, <2>5, <2>6, DeliveryKeeps DEF DeliveryInv
<1>3. QED
  BY <1>1, <1>2

\* A process goes on with its workflow.
LEMMA WorkKeeps ==
  ASSUME DeliveryInv, NEW w \in Workers, worker[w].pc \notin Errors, Step(w), UNCHANGED deliveryVars
  PROVE  DeliveryInv' /\ BudgetGrows
<1>1. WorkflowInv' /\ BudgetGrows /\ RowsGrow
  BY StepKeeps DEF DeliveryInv
<1>2. queue' = queue /\ holder' = holder
  BY DEF deliveryVars
<1>3. /\ worker'[w].request = worker[w].request /\ worker'[w].mode = worker[w].mode
      /\ \A v \in Workers \ {w} : worker'[v] = worker[v]
  BY StepContinues DEF DeliveryInv
<1>4. worker[w].pc # "idle"
  BY DEF Step, Exit, Operate, OperateUncertain, Settle, ReadBudget, Lock, LockBusy, SaveInput, Research,
         Insert, Reread, Verify, Export, Write, Report, Remember, SaveEnd, Finish, PrintCompletion, At,
         Errors, ReadClock, SettleRefused, PlainResult
<1>5. ASSUME NEW v \in Workers PROVE HolderAgrees(v)'
  <2>1. CASE v = w
    BY <1>2, <1>3, <1>4, <2>1 DEF DeliveryInv, HolderAgrees, Req
  <2>2. CASE v # w
    BY <1>2, <1>3, <2>2, HolderRemains DEF DeliveryInv
  <2>3. QED
    BY <2>1, <2>2
<1>6. QED
  BY <1>1, <1>2, <1>5, DeliveryKeeps DEF DeliveryInv

\* A process that is idle has no message.
LEMMA HoldersWithoutOne ==
  ASSUME DeliveryInv, NEW w \in Workers, worker'[w] = Idle,
         \A v \in Workers \ {w} : worker'[v] = worker[v] /\ holder'[v].message = holder[v].message
  PROVE  \A v \in Workers : HolderAgrees(v)'
<1>1. worker'[w].pc = "idle"
  BY DEF Idle
<1>2. HolderAgrees(w)'
  BY <1>1 DEF HolderAgrees
<1>3. \A v \in Workers \ {w} : HolderAgrees(v)'
  BY HolderRemains DEF DeliveryInv
<1>4. QED
  BY <1>2, <1>3

\* A process ends: with an error, interrupted, or a command with its answer.
LEMMA LeaveKeeps ==
  ASSUME DeliveryInv, NEW w \in Workers, Retain(w) \/ ProcessStops(w) \/ CommandEnds(w)
  PROVE  DeliveryInv' /\ BudgetGrows
<1>1. /\ worker' = [worker EXCEPT ![w] = Idle] /\ lock' \in {lock, Unlocked(w)}
      /\ ledger' = ledger /\ row' = row /\ checkpoint' = checkpoint /\ report' = report
  BY DEF Retain, Exit, ProcessStops, Stop, CommandEnds
<1>2. queue' = queue /\ holder' \in {holder, [holder EXCEPT ![w] = Nothing]}
  BY DEF Retain, ProcessStops, CommandEnds, deliveryVars
<1>3. WorkflowInv' /\ worker'[w] = Idle /\ \A v \in Workers \ {w} : worker'[v] = worker[v]
  BY <1>1, IdleKeeps DEF DeliveryInv
<1>4. Nothing \in [message : Messages \cup {Unused}, current : BOOLEAN]
  BY DEF Nothing
<1>5. /\ holder' \in [Workers -> [message : Messages \cup {Unused}, current : BOOLEAN]]
      /\ \A v \in Workers \ {w} : holder'[v] = holder[v]
  BY <1>2, <1>4 DEF DeliveryInv
<1>6. \A v \in Workers : HolderAgrees(v)'
  BY <1>3, <1>5, HoldersWithoutOne
<1>7. RowsGrow /\ BudgetGrows
  BY <1>1, TimeGrows DEF RowsGrow
<1>8. QED
  BY <1>2, <1>3, <1>5, <1>6, <1>7, DeliveryKeeps DEF DeliveryInv

\* A worker of the queue that is done deletes its message.
LEMMA AcknowledgeKeeps ==
  ASSUME DeliveryInv, NEW w \in Workers, Acknowledge(w)
  PROVE  DeliveryInv' /\ BudgetGrows
<1> DEFINE m == holder[w].message
<1>0. /\ worker[w].pc = "finished" /\ worker[w].pc # "idle" /\ worker[w].mode = "job" /\ WorkflowInv
      /\ HolderAgrees(w)
  BY DEF Acknowledge, At, DeliveryInv
<1>1. /\ worker' = [worker EXCEPT ![w] = Idle] /\ lock' = lock /\ ledger' = ledger
      /\ row' = row /\ checkpoint' = checkpoint /\ report' = report
      /\ queue' \in {queue, [queue EXCEPT ![m] = "deleted"]}
      /\ holder' = [holder EXCEPT ![w] = Nothing]
  BY DEF Acknowledge
<1>2. WorkflowInv' /\ worker'[w] = Idle /\ \A v \in Workers \ {w} : worker'[v] = worker[v]
  BY <1>0, <1>1, IdleKeeps
<1>3. Nothing \in [message : Messages \cup {Unused}, current : BOOLEAN]
  BY DEF Nothing
<1>4. /\ holder' \in [Workers -> [message : Messages \cup {Unused}, current : BOOLEAN]]
      /\ \A v \in Workers \ {w} : holder'[v] = holder[v]
  BY <1>1, <1>3 DEF DeliveryInv
<1>5. \A v \in Workers : HolderAgrees(v)'
  BY <1>2, <1>4, HoldersWithoutOne
<1>6. RowsGrow /\ BudgetGrows
  BY <1>1, TimeGrows DEF RowsGrow
<1>7. m \in Messages /\ RequestOf[m] = Req(w)
  BY <1>0 DEF HolderAgrees
<1> HIDE DEF m
<1>8. queue' \in [Messages -> {"unsent", "visible", "inflight", "deleted"}]
  BY <1>1, <1>7 DEF DeliveryInv
<1>9. \A n \in Messages : queue'[n] = "deleted" => queue[n] = "deleted" \/ n = m
  BY <1>1, <1>7 DEF DeliveryInv
<1>10. row'[RequestOf[m]] # Unused /\ row'[RequestOf[m]].remembered = TRUE
  BY <1>0, <1>1, <1>7, Standing DEF AnswerAgrees
<1>11. \A n \in Messages : MessageAgrees(n)'
  BY <1>6, <1>9, <1>10, MemoryRemains DEF MessageAgrees
<1>12. QED
  BY <1>2, <1>4, <1>5, <1>6, <1>8, <1>11 DEF DeliveryInv

\* A user edits a report, or nothing happens.
LEMMA TimeKeeps ==
  ASSUME DeliveryInv,
         \/ \E r \in Requests : UserEdits(r)
         \/ UNCHANGED vars
  PROVE  DeliveryInv' /\ BudgetGrows
<1>0. WorkflowInv /\ TypeOK
  BY DEF DeliveryInv, WorkflowInv
<1>1. /\ ledger' = ledger /\ row' = row /\ checkpoint' = checkpoint /\ lock' = lock
      /\ worker' = worker /\ queue' = queue /\ holder' = holder
  BY DEF UserEdits, Edit, deliveryVars, vars, workflowVars
<1>2. report' \in [Requests -> {"absent", "partial", "whole", "edited"}]
  BY <1>0 DEF UserEdits, Edit, vars, workflowVars, TypeOK
<1>3. WorkflowInv' /\ RowsGrow /\ BudgetGrows
  BY <1>0, <1>1, <1>2, SurroundingsKeep, TimeGrows DEF RowsGrow
<1>4. \A w \in Workers : HolderAgrees(w)'
  BY <1>1, HolderRemains DEF DeliveryInv
<1>5. QED
  BY <1>1, <1>3, <1>4, DeliveryKeeps DEF DeliveryInv

-----------------------------------------------------------------------------
(* The theorems. *)

\* The invariant holds before anything is submitted.
LEMMA DeliveryInit == Init => DeliveryInv
<1> SUFFICES ASSUME Init PROVE DeliveryInv
  OBVIOUS
<1>1. /\ ledger = [r \in Requests |-> [i \in Operations |-> Unused]]
      /\ row = [r \in Requests |-> Unused] /\ checkpoint = [r \in Requests |-> NoCheckpoint]
      /\ lock = [r \in Requests |-> Unused] /\ report = [r \in Requests |-> "absent"]
      /\ worker = [w \in Workers |-> Idle] /\ queue = [m \in Messages |-> "unsent"]
      /\ holder = [w \in Workers |-> Nothing]
  BY DEF Init, InitWorkflow
<1>2. Idle \in Process /\ Idle.pc = "idle"
  BY DEF Idle, Process, Places
<1>3. [i \in Operations |-> Unused] \in Budgets
  BY DEF Budgets
<1>4. TypeOK
  BY <1>1, <1>2, <1>3, FirstCheckpoints DEF TypeOK
<1>5. \A w \in Workers : worker[w].pc = "idle"
  BY <1>1, <1>2
<1>6. ASSUME NEW r \in Requests PROVE RowAgrees(r) /\ CheckpointAgrees(r)
  BY <1>1, FirstCheckpoints DEF RowAgrees, CheckpointAgrees
<1>7. WorkflowInv
  BY <1>4, <1>5, <1>6 DEF WorkflowInv, PlaceAgrees, OneDispatch, StrandedStays, At
<1>8. /\ queue \in [Messages -> {"unsent", "visible", "inflight", "deleted"}]
      /\ holder \in [Workers -> [message : Messages \cup {Unused}, current : BOOLEAN]]
      /\ \A m \in Messages : MessageAgrees(m)
  BY <1>1 DEF Nothing, MessageAgrees
<1>9. \A w \in Workers : HolderAgrees(w)
  BY <1>5 DEF HolderAgrees
<1>10. QED
  BY <1>7, <1>8, <1>9 DEF DeliveryInv

\* No step breaks it, and none takes back a reservation or a settlement.
LEMMA DeliveryNext == DeliveryInv /\ [Next]_vars => DeliveryInv' /\ BudgetGrows
<1> SUFFICES ASSUME DeliveryInv, [Next]_vars PROVE DeliveryInv' /\ BudgetGrows
  OBVIOUS
<1>1. ASSUME NEW m \in Messages, Submit(m) \/ Expire(m) PROVE DeliveryInv' /\ BudgetGrows
  BY <1>1, QueueKeeps
<1>2. ASSUME NEW w \in Workers, NEW m \in Messages, Receive(w, m) PROVE DeliveryInv' /\ BudgetGrows
  BY <1>2, StartKeeps
<1>3. ASSUME NEW w \in Workers, NEW r \in Requests, NEW mode \in {"workflow", "plain"},
             Command(w, r, mode)
      PROVE  DeliveryInv' /\ BudgetGrows
  BY <1>3, StartKeeps
<1>4. ASSUME NEW w \in Workers, WorkerStep(w) \/ ProcessStops(w) PROVE DeliveryInv' /\ BudgetGrows
  BY <1>4, WorkKeeps, LeaveKeeps, AcknowledgeKeeps DEF WorkerStep
<1>5. ASSUME NEW r \in Requests, UserEdits(r) PROVE DeliveryInv' /\ BudgetGrows
  BY <1>5, TimeKeeps
<1>6. CASE UNCHANGED vars
  BY <1>6, TimeKeeps
<1>7. QED
  BY <1>1, <1>2, <1>3, <1>4, <1>5, <1>6 DEF Next

\* The invariant holds throughout.
LEMMA DeliveryInvariant == Spec => []DeliveryInv
<1>1. DeliveryInv /\ [Next]_vars => DeliveryInv'
  BY DeliveryNext
<1>2. QED
  BY <1>1, DeliveryInit, PTL DEF Spec

\* A receipt is true of the budget, and its budget has the charges it reports.
LEMMA ReceiptIsTrue ==
  ASSUME WorkflowInv, NEW r \in Requests, row[r] # Unused, NEW i \in Operations
  PROVE  \/ row[r].result[i] = BudgetStopped
         \/ Passed(r, i) /\ row[r].result[i] = ledger[r][i] /\ row[r].budget[i] = ledger[r][i]
<1>1. /\ Tells(row[r].result, r) /\ Len(row[r].result) = N /\ Backed(row[r].result, row[r].budget)
  BY DEF WorkflowInv, RowAgrees
<1>2. i \in 1 .. Len(row[r].result)
  BY <1>1, PlanIsFinite
<1>3. row[r].result[i] = BudgetStopped \/ (Passed(r, i) /\ row[r].result[i] = ledger[r][i])
  BY <1>1, <1>2 DEF Tells
<1>4. row[r].result[i] = BudgetStopped \/ row[r].budget[i] = row[r].result[i]
  BY <1>1 DEF Backed
<1>5. QED
  BY <1>3, <1>4

\* A job that left the queue is remembered with the completion of its receipt, and every charge the
\* receipt reports is what the ledger records, whichever deliveries were late, repeated or
\* interrupted and whichever commands overtook it.
THEOREM JobsAreRemembered == Spec => []AcknowledgedIsRemembered
<1>1. DeliveryInv => AcknowledgedIsRemembered
  <2> SUFFICES ASSUME DeliveryInv, NEW m \in Messages, queue[m] = "deleted"
               PROVE  LET r == RequestOf[m] IN
                      /\ row[r] # Unused
                      /\ row[r].remembered
                      /\ row[r].completion = SavedCompletion(r)
                      /\ \A i \in Operations :
                           \/ row[r].result[i] = BudgetStopped
                           \/ row[r].result[i] = ledger[r][i] /\ row[r].budget[i] = ledger[r][i]
    BY DEF AcknowledgedIsRemembered
  <2>1. PICK r \in Requests : r = RequestOf[m]
    BY DeliveryAssumption DEF DeliveryAssumption
  <2>2. WorkflowInv /\ row[r] # Unused /\ row[r].remembered = TRUE
    BY <2>1 DEF DeliveryInv, MessageAgrees
  <2>3. row[r].completion = SavedCompletion(r)
    BY <2>2 DEF WorkflowInv, RowAgrees
  <2>4. \A i \in Operations :
          \/ row[r].result[i] = BudgetStopped
          \/ row[r].result[i] = ledger[r][i] /\ row[r].budget[i] = ledger[r][i]
    BY <2>2, ReceiptIsTrue
  <2>5. QED
    BY <2>1, <2>2, <2>3, <2>4
<1>2. QED
  BY <1>1, DeliveryInvariant, PTL

\* A saved workflow never becomes inconsistent, whichever stages processes stopped in, but for a
\* thread that stopped between its first two checkpoints and a receipt that a command overtook.
THEOREM ConflictsHaveCauses == Spec => []ConflictsAreExplained
<1>1. DeliveryInv => ConflictsAreExplained
  BY Standing DEF DeliveryInv, ConflictsAreExplained, ThreadAgrees, At
<1>2. QED
  BY <1>1, DeliveryInvariant, PTL

\* Everybody who is answered is told of every operation what the ledger records or that the budget
\* stopped it; a workflow answers with its receipt, and a job with what memory returns later.
THEOREM OneAnswer == Spec => []AnswersAgree
<1>1. DeliveryInv => AnswersAgree
  <2> SUFFICES ASSUME DeliveryInv, NEW w \in Workers, At(w, "finished")
               PROVE  LET r == Req(w)
                          answer == worker[w].answer
                      IN /\ \A i \in Operations :
                              \/ answer.result[i] = BudgetStopped
                              \/ answer.result[i] = ledger[r][i] /\ answer.budget[i] = ledger[r][i]
                         /\ worker[w].mode # "plain" => row[r] # Unused /\ answer.result = row[r].result
                         /\ worker[w].mode = "job" => answer = SavedCompletion(r)
    BY DEF AnswersAgree
  <2>1. worker[w].pc = "finished" /\ worker[w].pc # "idle" /\ WorkflowInv
    BY DEF At, DeliveryInv
  <2>2. PICK r \in Requests : r = Req(w)
    BY <2>1, Standing
  <2>3. /\ Len(worker[w].outcomes) = N /\ Tells(worker[w].outcomes, r)
        /\ worker[w].answer.result = worker[w].outcomes
        /\ Backed(worker[w].outcomes, worker[w].answer.budget)
        /\ worker[w].mode # "plain" => row[r] # Unused /\ row[r].result = worker[w].outcomes
        /\ worker[w].mode = "job" => worker[w].answer = SavedCompletion(r)
    BY <2>1, <2>2, Standing DEF PlanAgrees, AnswerAgrees
  <2>4. ASSUME NEW i \in Operations
        PROVE  \/ worker[w].answer.result[i] = BudgetStopped
               \/ worker[w].answer.result[i] = ledger[r][i] /\ worker[w].answer.budget[i] = ledger[r][i]
    <3>1. i \in 1 .. Len(worker[w].outcomes)
      BY <2>3, PlanIsFinite
    <3>2. worker[w].outcomes[i] = BudgetStopped \/ worker[w].outcomes[i] = ledger[r][i]
      BY <2>3, <3>1 DEF Tells
    <3>3. worker[w].outcomes[i] = BudgetStopped \/ worker[w].answer.budget[i] = worker[w].outcomes[i]
      BY <2>3 DEF Backed
    <3>4. QED
      BY <2>3, <3>2, <3>3
  <2>5. QED
    BY <2>2, <2>3, <2>4
<1>2. QED
  BY <1>1, DeliveryInvariant, PTL

\* Who changes the budget of a run that has its receipt is a plain command, at an operation that
\* the receipt calls stopped.
LEMMA SpendersArePlain ==
  ASSUME WorkflowInv, NEW w \in Workers, Operate(w) \/ Settle(w), NEW r \in Requests,
         NEW i \in Operations, row[r] # Unused, ledger'[r][i] # ledger[r][i]
  PROVE  Req(w) = r /\ worker[w].mode = "plain" /\ Operation(w) = i
<1>0. worker[w].pc \in {"reserving", "expired", "dispatched"} /\ worker[w].pc # "idle" /\ TypeOK
  BY DEF Operate, Settle, At, WorkflowInv
<1>1. PICK q \in Requests : q = Req(w)
  BY <1>0, Standing
<1>2. PICK k \in Operations : k = Operation(w)
  BY <1>0, Standing DEF PlanAgrees
<1>3. \E charge : ledger' = [ledger EXCEPT ![q][k] = charge]
  <2>1. CASE Operate(w)
    BY <1>1, <1>2, <2>1 DEF Operate
  <2>2. CASE Settle(w)
    BY <1>1, <1>2, <2>2 DEF Settle
  <2>3. QED
    BY <2>1, <2>2
<1>4. q = r /\ k = i
  BY <1>0, <1>3 DEF TypeOK, Budgets
<1>5. ~Recording(w)
  BY <1>0, <1>1, <1>4, Standing DEF ThreadAgrees
<1>6. QED
  BY <1>0, <1>1, <1>2, <1>4, <1>5 DEF Recording, Operating

\* Once a run has its receipt, no step of anybody changes a charge it reports, and only a plain
\* command changes the budget at all.
THEOREM ReceiptsKeepCharges == Spec => ReceiptKeepsCharges
<1>1. ASSUME DeliveryInv, BudgetGrows, [Next]_vars, NEW r \in Requests, NEW i \in Operations,
             row[r] # Unused, ledger'[r][i] # ledger[r][i]
      PROVE  /\ row[r].result[i] = BudgetStopped
             /\ \E w \in Workers : Req(w) = r /\ worker[w].mode = "plain" /\ Operation(w) = i
  <2>0. WorkflowInv
    BY <1>1 DEF DeliveryInv
  <2>1. row[r].result[i] = BudgetStopped
    BY <1>1, <2>0, ReceiptIsTrue, PassedStays
  <2>2. \E w \in Workers : Operate(w) \/ Settle(w)
    <3>1. ledger' # ledger
      BY <1>1
    <3>2. PICK w \in Workers : Step(w)
      BY <1>1, <3>1 DEF Next, vars, workflowVars, Submit, Expire, Receive, Begin, Command, WorkerStep,
         Retain, Exit, Acknowledge, CommandEnds, ProcessStops, Stop, UserEdits, Edit
    <3>3. Operate(w) \/ Settle(w)
      BY <3>1, <3>2 DEF Step, Exit, OperateUncertain, ReadBudget, Lock, LockBusy, SaveInput, Research,
         Insert, Reread, Verify, Export, Write, Report, Remember, SaveEnd, Finish, PrintCompletion,
         ReadClock, SettleRefused, PlainResult
    <3>4. QED
      BY <3>3
  <2>3. QED
    BY <1>1, <2>0, <2>1, <2>2, SpendersArePlain
<1>2. DeliveryInv /\ [Next]_vars =>
        [\A r \in Requests, i \in Operations :
           row[r] # Unused /\ ledger'[r][i] # ledger[r][i] =>
             /\ row[r].result[i] = BudgetStopped
             /\ \E w \in Workers : Req(w) = r /\ worker[w].mode = "plain" /\ Operation(w) = i]_workflowVars
  BY <1>1, DeliveryNext
<1>3. QED
  BY <1>2, DeliveryInvariant, PTL DEF Spec, ReceiptKeepsCharges
=============================================================================
