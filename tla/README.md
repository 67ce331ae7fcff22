# FactorForge: specification and verification

FactorForge runs literature-to-backtest research under explicit budgets. A client creates a
run; a service normalizes its brief; a worker or an operator then discovers and extracts
strategies from sources with a local model, lets the model review them, and executes monthly
backtests. What makes the system hard is not the arithmetic of one step but that every step may
be repeated, interrupted or raced: by a retry, a second process, a crash, a lost connection, a
slow provider or a wall clock. The repository answers with PostgreSQL row locks, idempotency keys,
reservations that are durable before any external effect, content-addressed artifacts, and
checkpoints of LangGraph that are verified before they are believed. The modules here model that
answer, check it with TLC on small instances, and prove the parts that everything else rests on
with TLAPS for every instance.

Paths below are relative to `src/src/factorforge/` unless they start with `src/`.

## 1. The system

| Component | State | Operations | Module |
|---|---|---|---|
| Budget ledger (`orchestration/budgets.py`) | reservations, each with at most one observation, event ordinals, clocks | `reserve`, `settle`, replay `_validate_history` | `BudgetLedger` |
| Durable budget (`orchestration/postgres_budgets.py`) | `research_budgets` row of a run | `reserve_operation`, `settle_operation`, `read_budget` | `RunBudget`, `BudgetPromise` |
| Workers (extraction, direction review and revision, synthesis, monthly) | a process between its reservation and its settlement; retained results | `execute_*_operation`, `_recover` | `OperationWorkers` |
| Run store, normalization graph (`postgres_runs.py`, `normalization_graph.py`) | `research_runs` rows, recovery stamps, checkpoints on a connection of their own | `create`, `get`, `normalize`, `recover_pending`, `finish`, `verify_finished` | `RunStore` |
| Blocking dispatcher (`api/dispatch.py`, lifespan of `api/app.py`) | semaphore, closing flag, calls, threads, drains | `run`, `close` | `Dispatcher` |
| Experiment stage and graphs (`research_experiments.py`, `monthly_graph.py`) | loop over candidates, checkpoint and advisory lock of each experiment | `research_experiments`, `MonthlyExperimentGraph.finish` | `ExperimentStage` |
| Research workflow, commands, report export (`research_workflow.py`, `command.py`, `report_export.py`) | receipt row, checkpoint, completion, memory flag, report file | `finish` (`_research`, `_report`, `_remember`, `_completion`), `export_report` | `ResearchWorkflow` |
| SQS delivery (`sqs_jobs.py`) | queue, visibility, deliveries in hand | `submit`, `work_once` | `ResearchDelivery` |
| Source strategies, synthesis command | compiled strategies; a command between its operations | extraction, review, synthesis, hybrid | `SourceStrategies`, `SynthesisRun` |
| Batches (`evaluation/research_runner.py`, `research_batch.py`) | journal, submission, evidence | `run_research_batch`, `_record`, `evaluate_batch` | `ResearchBatch` |
| Discovery and its cache (`retrieval/discovery*.py`) | locators, captures, receipts | `discover`, `replay`, `cached_discover` | `Discovery` |
| Dataset catalog (`data/catalog.py`) | metadata rows, rights that expire | `publish`, `get` | `DatasetCatalog` |
| Model provider (`providers/ollama.py`) | one attempt: captures, deadline, archived prefixes | `generate` | `ModelProvider` |
| Artifact stores (`data/artifacts.py`, `data/s3_artifacts.py`) | names, files being staged, requests on their way | `put`, `get` | `ArtifactStore`, `ObjectPromise` |
| LEAN verifier (`interop/lean/service.py`) | slot, engine, quarantine, stored receipts | `VerifyStrategy` (`_execute`, `_start`, `_stop`, `_finish`), cancellation, restart | `LeanVerifier` |
| Sandbox (`sandbox/`) | one experiment, its container, its staged mount | `run_experiment`, cleanup by `remove_owned` | `SandboxRunner` |
| Signing keys (`auth/cognito.py`) | cached keys, expiry, refresh limit | `_key`, `_download`, `verify` | `KeyCache` |
| Quote replay (`src/tools/streaming/replay.py`) | partition, group offset, journals | `produce`, `consume` | `QuoteJournal` |
| Monthly simulator (`backtests/monthly.py`, `accounting.py`, `funding.py`, `whole_shares.py`, `cash_claims.py`) | books, ledger, claims, loans | `run_monthly`: actions, entry, rebalance, liquidation | `MonthlyAccount`, `PostFeeFunding` |
| Admission, performance (`backtests/admission.py`, `performance.py`) | none (pure, over a store) | `admit_monthly`, `compute_performance` | `MonthlyAdmission`, `Performance` |
| Point-in-time data (`data/point_in_time.py`, `data/monthly_signals.py`, `domain/calendar.py`) | published facts and events | `select_facts`, `select_universe`, `assemble_monthly_signals` | `PointInTime` |
| Allocation, splits, queue, formula, normalizers | none (pure) | `build_allocation`, `walk_forward`, `purged_fold`, `assess_folds`, `rank_hypotheses`, `evaluate_formula`, `normalize_sec`, `normalize_french_daily` | `Allocation`, `ValidationSplits`, `HypothesisQueue`, `Formula`, `SourceNormalization` |

How they interact. The API calls the run store only through the dispatcher; the recovery loop is
one of the dispatcher's calls. A queued job, or an operator's command, runs the workflow; its
research node runs the experiment stage, which runs experiment graphs, whose first node is the
monthly worker. A synthesis command runs the other four workers. All workers meet only in the
durable budget, under the row lock of the run. A batch runs commands one after the other.
Everything that is kept is an artifact, written before a row, a ledger or a checkpoint refers to
it. The pure parts turn archived data into the inputs of a backtest, and each writes records that
a later reader validates again: what they produce and what those contracts accept has to agree.

`ResearchDelivery` composes the queue with `ResearchWorkflow`, and that keeps the run's budget
in the rows `RunBudget` describes. `OperationWorkers` extends `RunBudget`, splits its transactions into
what a connection really does, and is proved to implement it; `ExperimentStage` uses the transactions
of `RunBudget` as they are, which that result justifies. `ResearchBatch`
composes `SynthesisRun`, which uses `SourceStrategies`, and extends `Discovery`, `DatasetCatalog` and
`ModelProvider`, from which a research gets its inputs; what these three hand over is one property
(`OnlyAdmissibleAnswers`). The other services and the pure parts share no state.

### Not modelled

* `orchestration/local_runs.py`: a dictionary under one lock; every method is atomic and nothing
  outlives the process. `RunStore` has the same receipts under real interleavings.
* Statistics (`validation/hac.py`, `validation/monthly.py`), decimal rounding, rendering of reports,
  prompts, lexical ranking, ingestion of text: numeric code or wording without state that
  interleaves; TLC has no numbers for the first.
* Contracts that only validate the form of a record (`domain/factors.py`, most of
  `domain/raw_strategy.py`), the fixture bundle, `evaluation/historical_study.py` (a sequential
  script), the traversal in `lineage/closure.py`.
* Verification of a token's signature and claims; here it is whether its key is accepted. The content
  of the container policy and the protocol inside the container. The engine behind the LEAN
  verifier, which `src/` declares and does not implement.
* Routing, settings, exports under `src/tools`, infrastructure and the web client.
* A writer that outlives its own database session: a process in `RunStore` ends together with its
  transaction. Only the row lock, which it would no longer hold, keeps such a writer from its
  checkpoints; the hazard is listed without a property.


## 2. The modules

**Budgets and runs.** `BudgetLedger` holds the pure rules: a ledger is a sequence of rows and
`CanReserve`, `Reserved`, `CanSettle`, `Settled` take it as an argument. `Coherent` is the validator
that the source runs on every load and on every ledger it builds; it replays the events, so a
refund counts only from its own event on. `reserve` tests breach, deadline, watermark and cost by
hand before it validates what it built: `Admits` is kept apart from `Coherent` to compare the two.
`RunBudget` makes each transaction of `postgres_budgets` one step, since all of it happens under
the run's row lock; the clock value is an argument of the call, read before the lock was granted,
hence any instant at any step. `BudgetPromise` is what the rest of the system relies on: one grant
and one result per identity, and a budget that closed grants nothing more. `OperationWorkers`
interleaves processes: deliver (and read the clock), lock the row and read the ledger, dispatch,
refuse or recover, call, store (and read the clock), lock and read again, settle or lose the
settlement, crash anywhere. Its transactions are not the steps of `RunBudget`: `LockAndRead` copies the
ledger to the process (`seen`), and what is decided and written later is computed from that copy. Only
the row lock (`locked`) keeps one process from writing over what another one wrote meanwhile, and
`ImplementsRunBudget` says that it does: without the lock (the slip `ReadUnlocked`) an update is lost.

`RunStore` follows the two transactions of a run: `create` (insert, commit and acknowledge are three
steps, for the acknowledgement may be lost) and recovery (scan, stamp, lock, graph, verify, publish).
`InTransaction` is where the row lock is held. The graph's checkpoints survive what the transaction
loses: LangGraph saves the input first and the values afterwards, and a graph that stopped between
the two is refused from then on (`Stranded`). Two kinds of connections can be lost. One of the pool is
replaced, and `Fail` only ends the transaction. The connection of the checkpoints is opened once, in
`__init__`, and never again (`LoseSaver`): the process goes on scanning and stamping rows, every
attempt fails (`Unreachable`), readiness answers 503, and nothing in the repository restarts it;
`Relaunch` is what an operator or a supervisor may do, and nobody has to. `Legacy` rows of another graph version are what the
source calls a poison record. `Dispatcher` splits each call in a task and a thread, which share the
guard; every step is what one of them does under a lock.

**Research.** `ExperimentStage` follows the loop over candidates. `Continue` is what the loop does
with a result, settled or recovered; `Conclude` appends an outcome. All processes share a clock that
never moves back, so that what goes wrong cannot be blamed on a bad clock. `ResearchWorkflow` is
the graph around it: research, report, remember, each saved by a checkpoint, with the receipt row
inserted once, a completion that must match the budget saved with it, and a report file. The plain
command executes the same plan on the same run without the lock of the workflow. Every process
reads its clock first (`ReadClock`) and waits for the row of the run afterwards (`Operate`): a
reading from before the deadline may be used long after it, also after the receipt of a job for which
the same operation was refused (`Overtaken`). A settlement with a clock that is behind is refused and
reported as a stop (`SettleRefused`). `Overtaken` and `MayBeBehind` are all that is kept of clock
values: any process may read a time on either side of the deadline.
`ResearchDelivery` adds the queue: a message may be delivered again while an earlier delivery is
still at work, and is deleted only with a handle that is still current. `SynthesisRun` lets
processes run one command at the same time; `readings` and `behind` keep the order of clocks that were
read and not used, and each reading is before the deadline or not. `ResearchBatch` puts a journal entry around each command.

**Services.** `LeanVerifier`, `SandboxRunner`, `ArtifactStore`, `KeyCache`, `QuoteJournal`,
`Discovery`, `DatasetCatalog`, `ModelProvider`: one action per step that another party can observe
or interrupt. What is external (a daemon, a provider, S3, Kafka, a cache, damage, power loss) is an
action of its own, marked so. `ObjectPromise` is the write-once map both artifact stores implement,
and the reason why a put is a single step everywhere else.

**Money and data.** `MonthlyAccount` keeps the simulator's books and the ledger as two pieces of
state, because the code does; `Observe` is the step at which they have to agree.
`PostFeeFunding` is exact: prices, fees and weights are multiples of a scale, a net asset value is
a fraction. `PointInTime` lets a provider publish facts and events as time passes (`Publish`,
`Announce`) and assembles cross-sections of formations that are past (`Form`); `ValidationSplits`
asks for folds, `HypothesisQueue` for the queue of some candidates. All three are small specifications
around pure functions. `Allocation`, `Formula`, `SourceNormalization`, `Performance` and
`MonthlyAdmission` are pure operators. Each has, where the code has one, the contract its result is loaded under
(`...Accepted`), translated apart from it.

`*Proofs` modules hold theorems: `RunBudgetProofs` (the rules and the durable budget),
`OperationWorkersProofs`, `ExperimentStageProofs`, `ResearchProofs` (workflow and delivery),
`MonthlyAccountProofs`, `BatchProofs` (synthesis command and batch, and the inputs of research:
discovery, catalog, model provider, folds, cross-sections, queues, allocations) and `ServicesProofs` (run store, verifier,
sandbox, artifact stores, key cache, replay, dispatcher).
`SumTheorems` holds what they share: induction over finite sets, and lemmas on sums. `MC*` modules
give constants their values and compose. A definition named for a slip (`...Anyway`, `...Later`,
`...Early`, `...AtFirst`) stands beside the definition it is a wrong version of; no specification
uses it.

## 3. What is checked

| Run | Instance | States | Question |
|---|---|---|---|
| `run_budget` | 5 commands (two share an identity), budget 3, deadline inside the clock's range, an overrun | 235,121 | is the ledger sound for every order of calls and clocks? |
| `operation_workers` | 2 processes, 3 commands that together exceed the budget | 59,571 | do concurrent, crashing workers run a command once, within budget, and tell the truth, and do their transactions act one at a time? |
| `run_store` | 2 callers, 1 key, 2 requests, 2 recovery loops that scan 1 row, 2 faults, 1 legacy row | 128,862 | are receipts stable, accepted runs readable, and is every receipt normalized where broken processes are stopped or restarted, unless its graph is stranded? |
| `dispatcher` | 3 calls, 2 slots, 2 closers | 23,189 | are slots conserved, is shutdown safe, and does it end? |
| `experiment_stage` | 2 processes, 2 candidates, iterative plan, a foreign spender | 233,271 | do backtests follow reviews, and do reports state what was settled? |
| `experiment_stopped` | 1 process, plain plan, a foreign spender | violated | does a budget stop leave nothing pending? |
| `research_delivery` | 1 job, 2 workers, 1 command, 1 stop, 1 edit of the report, a budget for one operation at a time | 567,414 | is a job completed, remembered, and then deleted, does everybody tell the same of what was charged, and what may still conflict? |
| `report_interrupted` | the same without command and edit | violated | is a report refused only if somebody edited it? |
| `workflow_overtaken` | the same without stop and edit, with clocks that agree | violated | can a finished workflow always be repeated? |
| `services` | 3 calls of the verifier, 2 experiments, 2 writers of 2 digests, 2 keys, 2 consumers; one service per behaviour | 551,537 | does each service keep its promise through stops, lost answers and retries? |
| `monthly_account` | 2 securities, 2 sessions, every set of actions of three kinds, both quantity policies | 75,205 | do books and ledger agree, and is every finished run accepted by its contract? |
| `research_inputs` | 2 processes on one command, a batch of 2, discovery, catalog, model; 10 facts and 5 events of a provider; folds of sizes 1 to 3 with embargoes 0 to 2; and the other pure parts over sets of inputs; one of them per behaviour | 1,436,759 | is every answer earned, reproducible, and accepted by the contract that records it? |

Why the bounds are enough. Each instance has the smallest numbers at which the interesting
conflict exists: two processes (every race is between two), one resource fewer than its users
(three calls for two slots, three rows for a scan of one, commands that exceed the budget only
together), and a deadline, an expiry or an overrun inside the enumerated range. Clock values matter
only through their order with the deadline and with each other. `MaxSequence` and `MaxOperations` are
set to the bound the ledger can really reach. What bounds behaviours is named in the guards:
`MaxFaults`, `MaxStops`, `MaxRestarts`, `MaxCrashes`, `MaxCommands`, `MaxEdits`, `MaxPuts`, `MaxRuns`,
`MaxLog`, `MaxSearches`, `MaxCalls` and the ranges of clocks (`MaxClock`, `MaxHour`, `MaxInstant`,
`MaxModelTime`). A stop or a fault may hit any step, and with a second process or a second delivery
the recovery from it is raced as well. The pure parts are evaluated on every input of sets that
contain each branch: ties, missing values, too few rows, boundaries of a window on both sides,
duplicates, limits exceeded by one.

The hard properties. `AdmissionAgreesWithReplay` compares two statements of one rule.
`WorstCaseBillWithinBudget` counts real executions, at their full reservation, and not what the
ledger says of them. `AcceptedStaysReadable` relates two stores that commit apart. `SlotsConserved`
accounts for every slot at every point of a cancellation. `ImplementsRunBudget` compares transactions
that read, compute and write with ones that are atomic. `AnswersAgree` and `ReceiptKeepsCharges`
tie what two deliveries and a command tell their callers to one receipt and one ledger, although a
command may overtake the receipt. `ConflictsAreExplained` says when a person has to reconcile, and
that nothing else leads there.
`OneEngine` and `VerdictsAreEarned` hold through cancellation and quarantine; `ConfirmedIsGone`
through a create that a daemon completes after its client gave up. `BooksAgree` compares two
accounts of one portfolio that apply corporate actions on their own, `CommittedBatchesAreFunded`
the exact root with whole shares, fees and collateral. `ReceiptsAreReproducible` compares what was
known at a formation with the same question asked later and in another order. `FoldsDoNotLeak`
relates every training label to every test row. `ResultsAgree` and `BatchIsAccounted` relate the
results of commands to the one ledger they share and to the journal.

The type invariants of `RunBudget` (`LedgerTypeOK`), `OperationWorkers`, `ExperimentStage` and
`Dispatcher` are proved by themselves,
those of the other modules with theorems as a part of a larger invariant (`RunStoreInv`, `LeanInv`,
`SandboxInv`, `JournalInv`, `BatchInv` and so on), which also says what the types alone do not.

`CHECK_DEADLOCK FALSE` stands in the runs of systems that do end: a budget that is spent and
settled, a process whose dispatcher is closed, a job that is deleted, a service whose calls are
used up, an account that is liquidated, a question that is answered.

Fairness. In `RunStore` each recovery loop is weakly fair while its process lives: `app.py` runs
`recover_pending` again two seconds after it returned, whatever it raised; callers are not fair, and
neither is `Relaunch`. That somebody operates the service is a premise of `ReceiptsAreNormalized` and
no fairness (`Operated`): from some time on a process has its checkpoint connection, and none that lost
it is left running. Both parts are needed. Without the first nobody can normalize; and a process
that lost its connection stamps a row before each attempt, so that beside it a healthy process with a
bounded scan may find the same rows first again and again. In `Dispatcher` threads start what is queued for a task that still
waits (the pool of anyio has more threads than the dispatcher has slots), operations end, drains go
on while they can; no fairness is given to a callback whose task was cancelled, since anyio may never
run it. In `ResearchDelivery` somebody polls the queue, a visibility time ends, and a process that
runs goes on; stops are bounded and operators are not fair. The other specifications have no
liveness property: an operation whose process stopped stays pending, by design, until someone
reconciles it.

### Findings

Three runs are expected to fail, each with what a docstring says of the code.

`experiment_stopped` is expected to fail. The docstring of `research_experiments` says: "Pending
operations require reconciliation; only explicit budget rejection becomes a scheduling outcome."
A settlement that `settle` refuses raises the same `RESEARCH_BUDGET_REJECTED` as a reservation that
`reserve` refuses. The trace: a backtest ran and its worker reads the settlement clock, another
command of the run commits an event with a later clock before the worker gets the row lock,
`_validate_history` refuses the observation ("Event clock moved backward"), and the stage reports
the candidate as `budget_stopped` although its experiment was executed and its reservation stays
pending. Reading the clock after the lock is granted, or a code of its own for a refused
settlement, would remove it.

`report_interrupted` is expected to fail. The docstring of the report node says: "Report retries
regenerate identical artifacts and preserve conflicting user exports." `export_report` creates the
Markdown file and writes it afterwards. The trace: the process stops between the two, and every
retry finds a file that differs from the report and raises `REPORT_EXPORT_INVALID`, although no user
touched it. Writing a file under another name and linking it, as the artifact store does, would
remove it.

`workflow_overtaken` is expected to fail. The docstring of `finish` says: "Serialize workflow writers;
terminal replay verifies evidence without model dispatch.", and `src/docs/research.md` tells the reader
to "Repeat the workflow command with the same request and artifact directory." The trace: a plain
command of the same request reads its clock before the deadline and is delayed on its way to the row
lock; the deadline passes; the budget refuses every operation of a queued job, which inserts its
receipt, remembers it and comes to its end; the reservation of the command commits with the time it
read; `_completion` compares the saved budget with the ledger byte for byte and raises
`WORKFLOW_CONFLICT`, as it will at every repetition. A job that was deleted from the queue before is not
repeated, and its receipt stays what it was. Reading the clock after the row lock is granted, or
letting the plain command take the lock of the workflow, would remove it.

Observations that no run is about. An accepted formula can exceed the operation budget when it is
evaluated. A synthesis whose context is larger than 12,288 bytes is refused after its extractions
and reviews were paid for, so that no result is retained. The reasons of a hybrid fold a conflict
of input bindings into that of the environment. A local put that loses the race for a link
acknowledges before the winner has flushed the directory, which is why `ObjectPromise` promises an
object only to a writer whose own creation succeeded. A graph that stops right after its input
checkpoint is refused by every later attempt: the liveness of `RunStore` and the conflicts of
`ResearchDelivery` except exactly that case.


## 4. What is proved

TLAPS proves the following for any values of the constants. Every inductive invariant named here was
first given to TLC as an invariant of the run of its module.

**The budget.**

* `RunBudgetProofs!LedgerTypeCorrect`, `PromiseKept`. The invariant `PromiseInv` adds to the types that
  identities are distinct and that the ledger is coherent: without coherence a reservation could
  follow a breach. `AdmissionMeansOpen` derives from the hand-written guards that a ledger that
  admits is open; `ReserveGrants` and `SettleRecords` map the two actions to those of the promise.
* `RunBudgetProofs!CompletionIsRecordable`, `AdmissionIsReplay`, `PlannedSpendIsBounded`. All rest on
  `CoherentInv`: the ledger passes its own replay. Of a settlement one has to show that every prefix
  of the replay still holds, although a charge that was held is now known (a late observation changes
  no earlier sum, and lowers or keeps every later one); of a reservation, that the guards of `reserve`
  say what the replay of the longer history says.
* `OperationWorkersProofs!TypeCorrect`, `SingleExecution`, `PermissionIsExclusive`. `ExecutedOnce`
  is not inductive: a worker in `dispatched` could call a second time. `PermissionInv` adds that
  working processes hold pending rows of distinct identities that nobody has executed while they
  are in `dispatched`. A call uses this up; a crash only lets go of it; a pending row is never
  granted again.
* `OperationWorkersProofs!AnswersRecorded`: an observation, once in the ledger, stays
  (`ObservedRowsStay`), and every answer comes from a settled row or from the settlement itself.
* `OperationWorkersProofs!TransactionsAreSerial`, `WorkersImplementRunBudget`. `SerialInv`: at most one
  transaction is between its read and its end, it is the one that holds the row, and what it read is
  still the ledger. A write that is computed from that copy is therefore a step of `RunBudget` on the
  ledger itself; all other steps, the lock and a crash in the middle of a transaction among them, stutter on it.
* `OperationWorkersProofs!BillIsBounded`. `BillInv` compares, identity by identity, what was really
  executed with what the ledger holds for it: an executed identity has a row, executed once, and a
  row that was settled for less was answered.

**The experiment stage.** `ExperimentStageProofs`, for any number of processes and candidates, every
plan, and any other commands of the run:

* `TypeCorrect`: a process holds an operation of its candidate exactly while it works on one. The stage
  uses the transactions of `RunBudget` as its own steps, so that what is proved of the budget holds
  for it (the lemma `StageImplementsRunBudget`, which says nothing more); its coherence is used below.
* `BacktestsAreReviewed`. What clears a part of a candidate is recorded before anybody works on that part
  (`ClearedWork`) and before it has a row (`ClearedRows`). It stays cleared, since an identity has one
  row and a recorded result is neither changed nor joined by another (`RecordedOnce`,
  `RecordedStays`); and what is recorded for a part is one of its results (`FittingResults`), so that the
  loop, replaying it after a restart, takes the branch that was taken before.
* `OneProcessPerGraph`. The lock of a graph excludes other processes from the first checkpoint to the last
  one, and the saved checkpoint is the one of the place where its holder is.
* `ReportsStaySettled`. An outcome with a result was appended by the holder of a published graph with the
  one result the ledger records; neither of the two is taken back (`PublishedStays`).

**Runs.** `ServicesProofs!StableReceipts`, `ReadableRuns`. `RunStoreInv` says that keys are unique, that
what was answered is a row (also when the acknowledgement was lost), that at most one transaction
holds the lock of a row, and that a row that is `NORMALIZED` has the checkpoint it names, which no
other transaction is about to change. The queues of the scan are filtered sequences; `Among` is
proved to keep order and members without `SelectSeq`, whose recursion is out of reach.

**The workflow.** `ResearchProofs`, for any plan, any number of requests, messages, workers and
commands, and stops anywhere:

* `ReceiptsKeepCharges`. An operation is dispatched by one process at a time (`OneDispatch`), and a ledger
  only grows: an operation that is reserved or settled stays so (`Older`, `BudgetGrows`). What a
  process tells of an operation is its settlement or that the budget stopped it (`Tells`), and a receipt
  tells of every operation of the plan. What its charges name is settled, and no step changes a
  settlement; what it calls stopped can only be moved by a process that is still in its operations, and
  while there is a receipt that is a plain command (`RowAgrees`, `PlaceAgrees`).
* `OneAnswer`. A budget that a process read, or that a receipt holds, is an earlier state of the ledger
  (`WasRead`) and contains the charges that its outcomes tell of (`Backed`); both survive what happens
  to the ledger later. Hence an answer agrees with the ledger in every charge, whoever gives it.
* `ConflictsHaveCauses`. A checkpoint may be behind its row and never ahead of it (`CheckpointAgrees`),
  the holder of the lock owns the thread (`ThreadAgrees`), its execution is the only one that can insert the
  receipt (`Recording`), and a thread that stopped between its first two checkpoints stays that way
  (`StrandedStays`). What is left of the comparisons of `_completion` is the ledger that moved after the
  receipt, and that is `Overtaken` from then on.
* `JobsAreRemembered`. Whoever may still delete a message holds a completion that was remembered.

**Synthesis and batches.** `BatchProofs`:

* `ResultsAlwaysAgree`. The next operation of a command is a function of the results it has seen.
  Hence there is one *course* of a run (`IsCourse`): the ledger holds the first operations of the
  course, settled, and at most the next one, pending; what any process has seen, and any result that
  was published, is an initial part of it. Two results that no budget stopped are its end.
* `BatchIsAlwaysAccounted`. `BatchInv` adds the journal: cases before the current one have exactly one
  verdict, the results that are submitted are those that verdicts name, a run that was touched has its
  dispatch, and the worker of the controller is at work only while it waits. That the runs together
  stay within the ceiling is a sum over runs compared with a sum over cases (`SumReindexed`), and
  needs that cases are distinct.

**Services.** `ServicesProofs`:

* `OneEngineAtATime`, `VerdictsStayEarned`. `PlaceAgrees` ties each program counter to slot, receipt,
  engine and quarantine: an engine that may be left keeps the verifier quarantined.
* `MountsOutliveContainers`, `ConfirmedStaysGone`, `EveryResultIsCoherent`. A container whose creation is
  uncertain is treated as one that may come later; cleanup confirms an absence only when no creation
  is on its way, and the mount goes after that.
* `StoresKeepThePromise`, the refinement of `ObjectPromise`. The link, and the arrival of a request, are
  the appearance of an object, the verified read is its promise, and a power loss takes only what
  nobody was promised, because a writer that is told of its creation has flushed the directory
  (`LocalIsSynced`).
* `WithdrawnKeysLapse`. A cached key was published after the fetch that brought it began
  (`KeysAreFresh`), and the lifetime counts from that beginning, so that neither a slow fetch nor a
  provider that fails afterwards prolongs it.
* `NothingCommittedIsLost`. A committed offset is one more than the last because the consumer that owns
  the partition continues where the group has committed (`OwnerContinues`); a consumer that lost the
  partition holds a record and can no longer commit it. `RecordsInHand` says that what is appended is
  in that consumer's journal.
* `DispatcherTypeCorrect`, `NoSlotIsLost`, `ClosedStoreIsUnused`. Every slot is free, occupied by a call
  or owned by the drain that holds the shutdown lock (`slots + Busy + Owned = Capacity`), a drain is in
  order (`DrainsInOrder`), and a dispatcher that closed has nobody left at work (`ClosedIsQuiet`).
  `NoSlotIsLost` assumes that there is a closer at all.

**The simulator.** `MonthlyAccountProofs`, for any securities, actions, prices, allocations and both
quantity policies. What the ledger says is a fold over the events of a timeline, in the order of their
times, phases and identities; what the books say was changed step by step. The bridge is that a
timeline can be cut at any instant: the fold over the whole is the fold over the later part, begun
with the result of the earlier one (`FoldedJoin`). Hence a step of the simulator and a replay of one
event more agree (`ReplayFollowsBooks`, `LedgerFollowsBatch`, `AdvanceKeeps`).

* `BooksAreMirrored` is the invariant `IInv`. Its center is that the books are sound for the events that
  have happened and that the ledger, replaying the fills, returns their account (`BooksMirrored`,
  `CacheIsReplay`).
* `BooksAlwaysAgree`: the comparisons the simulator makes of itself never fail. The mismatches of
  `_observe` cannot arise by `BooksMirrored`, that of the value after a batch by `ValuedForTrade`
  (the value observed last is that of the books at the quotes they are traded at) and because the fee
  of a batch is the sum of the fees of its fills (`FeesAddUp`, which needs that prices are multiples of
  `Scale`). That the sizing finds a solution is the existence of a root: the equation is linear
  between breakpoints, negative at zero and not negative at the net asset value (`ExcessIs`,
  `CrossingExists`), so that one interval contains the solution of its own part, and that solves the
  whole (`RootExists`, `RootSolves`, `SolutionNeverInvalid`).
* `HistoryStaysStable`: replaying the fills to an earlier instant gives what was observed then, because
  what is appended comes after all that is there (`RowsInOrder`).
* `BatchesStayFunded`: what is observed after a batch is what the preflight of the batch looked at.
* `EveryEndIsRecordable`: a run that completes has one close for each session and ends flat
  (`ClosesInOrder`), and fills are those of the batches and of their plans (`BatchesInOrder`).

**The inputs of research.** `BatchProofs`, each for any values of the constants:

* `CatalogStaysGuarded`, `DiscoveryAlwaysAnswers`, `RecordAlwaysExplains` and their conjunction
  `OnlyAdmissibleIsHandedOver`. The invariants (`CatalogInv`, `DiscoveryInv`, `ProviderInv`) say what is
  established at each place of a call and that nothing that happens meanwhile undoes it: who may
  publish or read a version was checked before its first object was read, a search that still runs has not used up its time and
  holds a receipt of its own query, an attempt at a model has archived what it received, under names
  that differ, and the digest of its first inventory.
* `FoldsNeverLeak`. Blocks of a walk-forward follow each other, so that they cover the rows after the
  initial history once (`BlocksCover`); their training was known before the block starts
  (`ForwardFolds`). The end of a purged block is the latest end of its labels (`EndOfBlock`), so that a
  training label is apart from each of them, by the embargo if it comes later (`PurgedFolds`).
* `ReceiptsStayReproducible`. A selection is defined by one pass over the rows in the order they come. The
  proof gives what that pass computes a closed form over the *set* of rows known at the formation
  (`FactsSound`, `EventsSound`): the rows of one version agree or the pass has failed, and of those
  that agree the one with the smallest source is kept. Two bundles with the same known rows therefore
  give the same cross-section (`AssembledFromKnown`); what is published after a formation was not known
  at it (`LaterFactIsUnknown`, `LaterEventIsUnknown`), and a reversed bundle has the same rows. The
  invariant `AssemblyInv` adds that receipts are of formations before the clock.
* `ReceiptsStayAccepted`. What is assembled satisfies `coherent_lineage` and `coherent_values`: each
  requested cell is selected or missing, and evaluating the selected facts alone gives the values that
  all facts up to the cutoff gave, because a cell of an accepted receipt has at most one of them.
* `QueueStaysRecordable`. The place of a candidate is how many come before it. Places grow along the
  order and there are as many as candidates, hence each is taken, and the order names every candidate
  once (`PlacesAreTaken`, `OrderOfPlaces`, `OrderIsComplete`). Along it each entry is what its candidate and the entries
  before it determine (`EntriesFit`, proved from the recursive function by `EntriesAreMade`). Two queued
  entries of one contract are impossible because the later one would have found the earlier
  (`QueueOfBacklog`), and one that is a duplicate has its contract queued by a candidate that comes
  before it and so scores no less.
* `AllocationsAreAccepted`, for any cross-section (`IsPanel`: distinct securities, signals that are numbers
  or missing, positive capitalizations) and rule (`IsRule`: two buckets or more, a positive minimum; the
  fields of `AllocationSpec`). The securities are ordered by the lemmas of the queue. A bucket is the
  ranks from one bound to the next (`BucketIsInterval`), hence of the size the contract expects
  (`BucketsAreSized`), and not empty. All weights of a bucket have the sum of its amounts as
  denominator, so the running total of the validator, whose denominator is their product, is one unit
  (`PartsTotalUnit`).

Sums. The induction theorems of the library take a predicate, which the provers at hand cannot
instantiate. `SumTheorems` states induction over finite sets for a *set* of sets instead
(`SubsetInduction`), and from that: sums exist, grow with their terms, change by what one term
changes, may be renamed, and may leave out zeros.

Assumptions. `LedgerAssumption`, `WorkersAssumption`, `StageAssumption`, `RunStoreAssumption`,
`WorkflowAssumption`, `DeliveryAssumption`, `SynthesisAssumption`, `BatchAssumption`,
`VerifierAssumption`, `SandboxAssumption`, `StoreAssumption`, `KeyCacheAssumption`,
`JournalAssumption`, `DispatcherAssumption`, `AccountAssumption`, `FundingAssumption`,
`CatalogAssumption`, `DiscoveryAssumption`, `ProviderAssumption`, `SplitAssumption`,
`PointInTimeAssumption` and `QueueAssumption`; TLC evaluates them in every run that uses them. Most
only type constants and keep values that mean "none" apart from the others. Those with content:
`MaxSequence` has room for the two events of each operation (128 operations and 255 ordinals in the
code); the other commands of a stage's run have identities of their own (an identity is derived from the
run, the kind of worker and the digest of the request; a command with the same request is one more
process of the stage); the runs of another graph version are finitely many; the cases of a suite have
runs of their own (`distinct_inputs`); ceilings and limits are not negative; prices are positive
multiples of `Scale` (the unit in which a rate is given, so that a fee is an integer), a sleeve of an
allocation is at most the whole, initial cash is positive, actions have identities of their own and
are paid no earlier than they take effect, and formations are at closes, the first one at the start;
the labels of a validation are chronological (`_periods`) and sizes of folds positive; the largest
response of a model is not empty (`MAX_RESPONSE_BYTES`); times, revisions and sources of published
rows are numbers, and the capitalization of a request is one of its bindings; identities, novelty and
specificity of candidates are numbers, and a specification has an execution identity.

Only model-checked:

* liveness (`ReceiptsAreNormalized`, `CloseReturns`, `JobsAreAcknowledged`);
* `AnswersAreRecordable`, but for the receipts and allocations in it (`ReceiptsStayAccepted`,
  `AllocationsAreAccepted`): formulas, normalized sources, metrics and admissions are computed by
  recursive operators and sorts over data, evaluated on enumerated inputs.

## 5. Assumptions and abstractions

* A transaction that holds the run's row lock is one step, but for normalization, of which another
  connection can observe parts, and for those of the budget in `OperationWorkers`, where the lock itself
  is the question; `ImplementsRunBudget` justifies the one step elsewhere. PostgreSQL keeps its promises: a unique constraint, `FOR UPDATE`, atomic
  commits. A process that stops loses its transaction at once.
* Readers and retrying callers hold the row lock for one step only (`get`, `Replay`); the lock that
  is held across steps, and that others time out on, is that of `normalize`.
* Stamps of recovery and creation follow commit order; `recovery_error_code` and counters of
  attempts are not kept.
* A provider call or backtest yields one of a set of results. What an experiment stage does with them
  is the subject of `ExperimentStage`, what extraction and compilation make of an answer that of
  `SourceStrategies`; `ResearchWorkflow` sees operations and their rows, in the order of the plan.
* Clocks. `RunBudget`, `OperationWorkers` and `ResearchWorkflow` let a process read any instant, as the
  clocks of several hosts may show; `ExperimentStage`, `SynthesisRun` and the run `workflow_overtaken`
  have clocks that agree. Everywhere a reading is taken before the wait for the row.
* The connection pool of a worker is not modelled: a worker receives one message at a time
  (`MaxNumberOfMessages=1`), so that one workflow runs in a process that has a pool of its own.
* A digest stands for its content. Damage of stored bytes is an event of its own, and every read
  verifies.
* Money is exact: prices, quantities and fees are small integers on a common scale, quotients are
  fractions. Decimal contexts, rounding to cents and the limit on the size of a fraction
  (`bounded_fraction`, 2048 bits) are outside.
* Formulas are trees; how a text is parsed to one is not modelled, and the three codes of a text that
  does not parse are one. Splits multiply shares by whole ratios: `monthly.py` applies the fraction of
  new to old shares, and the parts of a share that a fraction can leave, which the whole-share policy
  refuses, are not modelled. Dates are numbers, instants a date
  and a time of day.
* `SQS` is a FIFO queue with visibility times; it may deliver again and never delivers two messages
  of a group at once.

## 6. What could follow

1. `RunStore` with a writer that outlives its database session.
2. Proofs about the remaining pure parts (formula, normalizers), for inputs of any size.
3. Rounding of the simulator's decimals against its exact accounts.
4. Commands and deliveries of two requests that share a connection pool.
