-------------------------- MODULE MCResearchInputs --------------------------
(***************************************************************************)
(* The inputs of research, on small instances.  A provider publishes facts *)
(* and membership events as time passes and cross-sections are assembled   *)
(* for formations of the past; apart from that, allocations, folds, queues *)
(* and the pure parts of a monthly strategy are computed for every input   *)
(* of a small set.  And sources become researches: the discovery of        *)
(* sources, the catalog of datasets, an attempt at a model, commands of    *)
(* two processes on one run, and a batch of two researches.  Only one of   *)
(* these happens in a behaviour: they share nothing.                       *)
(***************************************************************************)
EXTENDS ResearchBatch, ValidationSplits, PointInTime, HypothesisQueue, Allocation, SequencesExt, TLC

CONSTANTS r1, r2, p1, w1, w2, v1, v2, o1, o2, owner, reader, NotThere

-----------------------------------------------------------------------------
(* The pure parts of a monthly strategy: its formula, the normalized       *)
(* sources, the admission of its datasets, and the metrics of its result.  *)
(* Recordable says of a question and its answer what the readers of the    *)
(* answer rely on.                                                         *)

F == INSTANCE Formula WITH
  MaxNodes <- 13, MaxDepth <- 4, MaxOperations <- 6, MaxWindow <- 2, Magnitude <- 8
S == INSTANCE SourceNormalization WITH Undefined <- NotThere
M == INSTANCE Performance WITH Unknown <- NotThere
AM == INSTANCE MonthlyAdmission WITH MaxBytes <- 6

UpTo(n, items) == UNION {[1 .. k -> items] : k \in 0 .. n}

-----------------------------------------------------------------------------
(* Formulas of a return with two months of history, and of an amount *)

Number(n) == [op |-> "number", value |-> n]

FormulaLeaves ==
  {Number(2), Number(9), [op |-> "name", name |-> "r"], [op |-> "name", name |-> "m"],
   [op |-> "delta", name |-> "r"], [op |-> "other"]}
  \cup [op : {"compound"}, name : {"r", "m"}, window : 1 .. 3]

Over(leaves, more) ==
  [op : F!Unary, operand : more] \cup [op : {"+", "-", "*", "/"}, left : leaves, right : more]

Formulas ==
  LET one == Over(FormulaLeaves, FormulaLeaves)
  IN FormulaLeaves \cup one
     \cup Over({[op |-> "compound", name |-> "r", window |-> 2], [op |-> "name", name |-> "m"]}, one)

BindingSets ==
  LET returns == [name |-> "r", context |-> "return", history |-> 2] IN
  {{returns}, {returns, [name |-> "m", context |-> "USD", history |-> 1]}}

HistoriesOf(bindings) ==
  {h \in [{b.name : b \in bindings} -> UpTo(2, {-1, 0, 3})] :
     \A b \in bindings : Len(h[b.name]) = b.history}

FormulaQuestions ==
  UNION {[kind : {"formula"}, bindings : {b}, histories : HistoriesOf(b),
          formula : {f \in Formulas : F!MonthlyFormula(f, b)}] : b \in BindingSets}

\* An accepted formula never lacks an input, stays within its budget, and reads no month before its
\* windows.
FormulaRecordable(q, a) ==
  /\ a.failure \in {"none", "FORMULA_LIMIT", "FORMULA_ZERO_DIVISION", "FORMULA_NUMERIC"}
  /\ a.failure = "none" => a.used <= 6 /\ F!Bounded(a.value)
  /\ a = F!EvaluateFormula(q.formula,
           F!MonthlyInputs([b \in DOMAIN q.histories |-> <<7>> \o q.histories[b]]))

-----------------------------------------------------------------------------
(* Filings of three days around a window of two, with and without a reviewed availability *)

FilingRows ==
  [filed : {1, 2, 3}, start : {NotThere, 1}, end : {1, 3}, value : {1}, accession : {"a", "b"}]
  \cup [filed : {2}, start : {NotThere}, end : {1}, value : {2}, accession : {"a"}]

SecRequests ==
  {r \in [from : {1, 2}, through : {2}, captured : {29, 35}, kind : {"instant", "duration"},
          available : {("a" :> 25), ("a" :> 15) @@ ("b" :> 29), ("a" :> 25) @@ ("b" :> 31)}] :
     S!SecRequestValid(r)}

SecQuestions == [kind : {"sec"}, request : SecRequests, rows : UpTo(2, FilingRows)]

\* Every scoped row is emitted, once and in order, or none is; nothing is known before it was filed
\* and had ended.
SecRecordable(q, a) ==
  LET scoped == SelectSeq(q.rows, LAMBDA r : S!InWindow(q.request, r)) IN
  /\ S!SecAccepted(a)
  /\ a.status = "ready" =>
       /\ Len(a.facts) = Len(scoped)
       /\ \A i \in DOMAIN scoped :
            /\ a.facts[i].source = scoped[i].accession
            /\ S!DayOf(a.facts[i].available) >= scoped[i].filed
            /\ S!DayOf(a.facts[i].available) >= a.facts[i].end

-----------------------------------------------------------------------------
(* Tables of daily returns and the closes of two or three sessions *)

DailyRows == [day : 1 .. 4, excess : {-100, 1}, free : {0, 1}]

FrenchRequests ==
  {r \in [closes : UNION {[1 .. n -> {16, 26, 36}] : n \in 2 .. 3}, captured : {36, 46}] :
     S!FrenchRequestValid(r)}

FrenchQuestions == [kind : {"french"}, request : FrenchRequests, table : UpTo(3, DailyRows)]

\* The intervals of a series follow one another from the first close to the last, each with the
\* return of its own end.
FrenchRecordable(q, a) ==
  /\ S!FrenchAccepted(a)
  /\ a.status = "ready" =>
       LET closes == q.request.closes IN
       /\ \A series \in {"benchmark", "risk_free"} :
            {<<r.start, r.end>> : r \in {x \in a.rows : x.series = series}}
              = {<<closes[i], closes[i + 1]>> : i \in 1 .. Len(closes) - 1}
       /\ \A r \in a.rows : \E i \in DOMAIN q.table :
            /\ q.table[i].day = S!DayOf(r.end)
            /\ r.value - q.table[i].free \in {0, q.table[i].excess}
            /\ r.available >= r.end

-----------------------------------------------------------------------------
(* Paths of at most two months, aligned and misaligned rates, batches of trades *)

Paths ==
  [capital : {2}, inception : {NotThere, 0, 1, 2}, closes : UpTo(2, {NotThere, -1, 0, 1, 2})]

Rate(at, value) == [start |-> at, end |-> at + 1, value |-> <<value, 1>>]
RateTables ==
  {NotThere, <<>>, <<Rate(0, 0)>>, <<Rate(0, 1)>>, <<Rate(1, 0)>>, <<Rate(0, 0), Rate(1, 1)>>,
   <<Rate(0, 1), Rate(1, 0)>>, <<Rate(1, 1), Rate(0, 0)>>}

Batch(at, nav) == [at |-> at, notional |-> 1, nav |-> nav]
BatchTables ==
  {NotThere, <<>>, <<Batch(0, 2)>>, <<Batch(0, 1)>>, <<Batch(1, 1), Batch(2, 2)>>,
   <<Batch(2, 1), Batch(1, 2)>>, <<Batch(3, 1)>>}

PerformanceQuestions ==
  [kind : {"performance"}, path : Paths, rates : RateTables,
   batches : BatchTables]

Equals(x, y) == x[1] * y[2] = y[1] * x[2]

\* The report can be saved, and the periods compound to the total return on the initial capital.
PerformanceRecordable(q, a) ==
  a.failure = "none" =>
    /\ M!ReportAccepted(a)
    /\ Equals(FoldLeft(LAMBDA x, y : M!Times(x, M!Plus(M!Whole(1), y)), M!Whole(1), a.net),
              IF a.net = <<>> THEN M!Whole(1) ELSE M!Plus(M!Whole(1), a.total))

-----------------------------------------------------------------------------
(* Two datasets of one table each, one derived from an archive of a provider *)

Table(version, digest) ==
  [version |-> version, name |-> "t", schema |-> "s", artifact |-> <<digest, 1>>]

MonthlySpec ==
  [datasets |-> {[version |-> 1, manifest |-> <<1, 1>>], [version |-> 2, manifest |-> <<2, 1>>]},
   tables |-> {Table(1, 3), Table(2, 4)}, calendar |-> <<5, 1>>, declarations |-> {},
   kind |-> "observed", needed |-> 2, sampleEnd |-> 4, calendarName |-> "c"]

ManifestOf(version, digest, uses, expires, through, derivations) ==
  [version |-> version, uses |-> uses, expires |-> expires, kind |-> "observed", retrieved |-> 0,
   from |-> 1, through |-> through, derivations |-> derivations,
   objects |-> {[name |-> "t", schema |-> "s", artifact |-> <<digest, 1>>, rows |-> 1]}]

MonthlyStores ==
  {[d \in 1 .. 6 |-> CASE d = 1 -> first [] d = 2 -> second [] d = 5 -> [name |-> calendar]
                       [] d = lost -> NotThere [] d = 4 -> [rows |-> size] [] OTHER -> [rows |-> 1]] :
     first \in {NotThere, ManifestOf(1, 3, {"local_research"}, 3, 5, {<<6, 1>>}),
                ManifestOf(1, 3, {"local_research"}, 9, 5, {<<6, 1>>, <<3, 1>>}),
                ManifestOf(1, 3, {"local_research"}, 9, 5, {}),
                ManifestOf(1, 3, {"local_research"}, 9, 3, {}),
                ManifestOf(1, 3, {"public_demo"}, 9, 5, {})},
     second \in {ManifestOf(1, 4, {"local_research"}, 9, 5, {}),
                 ManifestOf(2, 4, {"local_research"}, 9, 5, {<<6, 1>>}),
                 ManifestOf(2, 4, {"local_research"}, 9, 5, {<<6, 2>>}),
                 ManifestOf(2, 3, {"local_research"}, 9, 5, {})},
     calendar \in {"c", "d"}, lost \in {0, 3, 6}, size \in 1 .. 2}

AdmissionQuestions == [kind : {"admission"}, store : MonthlyStores, at : {0, 2, 3}]

\* Nothing but manifests is read unless all of them permit the use; an admission has read once, and
\* its receipt names, everything the sources were made of.
AdmissionRecordable(q, a) ==
  LET manifests == {d.manifest : d \in MonthlySpec.datasets}
      usable == \A m \in manifests :
                  /\ q.store[m[1]] # NotThere
                  /\ "local_research" \in q.store[m[1]].uses /\ q.at < q.store[m[1]].expires
  IN /\ ~usable => ToSet(a.reads) \subseteq manifests
     /\ a.failure = "none" =>
          /\ usable
          /\ AM!ReceiptAccepted(a.receipt)
          /\ IsInjective(a.reads) /\ ToSet(a.reads) = a.receipt.refs
          /\ \A m \in manifests : q.store[m[1]].derivations \subseteq a.receipt.refs

-----------------------------------------------------------------------------

MonthlyAnswer(q) ==
  CASE q.kind = "formula" -> F!EvaluateFormula(q.formula, F!MonthlyInputs(q.histories))
    [] q.kind = "sec" -> S!NormalizeSec(q.request, q.rows)
    [] q.kind = "french" -> S!NormalizeFrench(q.request, q.table)
    [] q.kind = "performance" -> M!ComputePerformance(q.path, q.rates, q.batches)
    [] q.kind = "admission" -> AM!Admit(MonthlySpec, q.store, q.at)

Recordable(q, a) ==
  CASE q.kind = "formula" -> FormulaRecordable(q, a)
    [] q.kind = "sec" -> SecRecordable(q, a)
    [] q.kind = "french" -> FrenchRecordable(q, a)
    [] q.kind = "performance" -> PerformanceRecordable(q, a)
    [] q.kind = "admission" -> AdmissionRecordable(q, a)
    [] OTHER -> TRUE

-----------------------------------------------------------------------------
(* Labels that overlap and are late, and the instants of an execution, in order *)

MCPeriodTables ==
  LET Label(i, end, late) == [start |-> i, end |-> i + end, available |-> i + end + late] IN
  {[i \in 1 .. 4 |-> Label(i, ends[i], late[i])] : ends \in [1 .. 4 -> 1 .. 3],
                                                  late \in [1 .. 4 -> {0, 2}]}

MCInstantTables ==
  {SetToSortSeq(t, LAMBDA x, y : x < y) : t \in UNION {kSubset(n, 1 .. 8) : n \in 4 .. 6}}

-----------------------------------------------------------------------------
(* From sources to researches: the values of the constants, and the steps *)

MCCases == <<r1, r2>>

MCBindings ==
  [s \in 1 .. 2 |-> [environment |-> "monthly", rule |-> "formed", aliases |-> {"ranked"}]]

Observation(direction, rule) ==
  [cited |-> TRUE, status |-> "extracted", stated |-> TRUE, direction |-> direction,
   rule |-> rule, size |-> 1]

Halves == {[paper |-> s, weight |-> 1, quoted |-> TRUE] : s \in 1 .. 2}

MCAnswers ==
  [extraction |-> {Observation("high_low", "ranked"), Observation("low_high", "elsewhere")},
   review |-> {[direction |-> "high_low", quoted |-> TRUE],
               [direction |-> "low_high", quoted |-> TRUE]},
   synthesis |-> {[status |-> "proposed", allocations |-> Halves],
                  [status |-> "abstained", allocations |-> {}]}]

MCSkew == w1 :> 0 @@ w2 :> 1

MCInventories == {<<2, 1, 2>>, <<2, 1, 2, 1>>}

MCVersions ==
  v1 :> [uses |-> {"local_research", "public_demo"}, expires |-> 1, objects |-> {o1, o2}]
  @@ v2 :> [uses |-> {"local_research"}, expires |-> 9, objects |-> {o2}]

MCPrincipals ==
  owner :> {"ingest_dataset", "publish_dataset", "read_dataset"}
  @@ reader :> {"ingest_dataset", "read_dataset"}

-----------------------------------------------------------------------------
VARIABLE acting   \* what this behaviour is about

sourceVars == <<batchVars, discoveryVars, catalogVars, providerVars>>

InitSources ==
  /\ InitBatch /\ InitDiscovery /\ InitCatalog /\ InitProvider
  /\ acting \in {"commands", "batch", "discovery", "catalog", "model", "inputs"}
  /\ installed = CHOOSE m \in Models : TRUE   \* the models are interchangeable
  /\ acting # "commands" => budget[r1].limit = 3
  /\ acting # "batch" => batch.ceiling = 8
  /\ budget[r2].limit = 5

NextSources ==
  \/ /\ acting = "commands"
     /\ \/ \E p \in Processes : Work(p) \/ StopCommand(p) \/ StartCommand(p, r1)
        \/ ExpireBudget(r1)
     /\ UNCHANGED <<batch, journal, damaged, discoveryVars, catalogVars, providerVars>>
  \/ /\ acting = "batch"
     /\ NextBatch
     /\ UNCHANGED <<discoveryVars, catalogVars, providerVars>>
  \/ /\ acting = "discovery"
     /\ NextDiscovery
     /\ UNCHANGED <<batchVars, catalogVars, providerVars>>
  \/ /\ acting = "catalog"
     /\ NextCatalog
     /\ UNCHANGED <<batchVars, discoveryVars, providerVars>>
  \/ /\ acting = "model"
     /\ NextProvider
     /\ UNCHANGED <<batchVars, discoveryVars, catalogVars>>

-----------------------------------------------------------------------------
(* The inputs of research *)

CONSTANT Securities    \* of an allocation panel

inputVars == <<assemblyVars, question, answer, ranked, queue>>
vars == <<inputVars, sourceVars, acting>>

MCDaysIn(month) == IF month = 2 THEN 2 ELSE 3
MCEvaluate(histories) == histories   \* any formula: it sees exactly these values

-----------------------------------------------------------------------------
(* Assembly *)

Returns(history) == [name |-> "r", context |-> "return", history |-> history]
Dollars == [name |-> "m", context |-> "USD", history |-> 1]

MCRequests ==
  {[bindings |-> {Returns(2)}, capitalization |-> Unknown, lag |-> 1],
   [bindings |-> {Returns(1), Dollars}, capitalization |-> Dollars, lag |-> 1]}

MCCalendars ==
  {[sessions |-> <<13, 22, 33, 41>>, covered |-> 11 .. 41, available |-> 0],
   [sessions |-> <<13, 21, 33>>, covered |-> 11 .. 41, available |-> 0],
   [sessions |-> <<13, 33, 41>>, covered |-> 11 .. 41, available |-> 0],
   [sessions |-> <<13, 22, 33, 41>>, covered |-> 21 .. 41, available |-> Close(31)]}

MCTimings ==
  {[start |-> s, end |-> 33, delay |-> 1, months |-> m] :
     s \in {11, 22}, m \in {1 .. 4, {3}}}

\* Every field of a fact in a few rows: restated, corrected, past the cutoff, unknown, invalid.
Row(s, c, end, available, revision, source, value) ==
  [security |-> s, context |-> c, end |-> end, available |-> available,
   revision |-> revision, source |-> source, value |-> value]

MCFactRows ==
  {Row(1, "return", 12, Close(13), 0, 1, 1),
   Row(1, "return", 12, Close(13), 0, 2, 1),
   Row(1, "return", 12, Close(22), 1, 1, 2),
   Row(1, "return", 11, Close(22), 0, 1, 1),
   Row(1, "return", 22, Close(22), 0, 1, -2),
   Row(1, "return", 22, Close(31), 0, 1, 1),
   Row(1, "USD", 12, Close(13), 0, 1, 1),
   Row(1, "return", 12, Close(22), 0, 2, 3),
   Row(1, "USD", 22, Close(33), 0, 1, 0),
   Row(1, "USD", 12, Close(41), 1, 1, 2)}

Event(s, event, effective, available, included) ==
  [security |-> s, event |-> event, effective |-> effective, available |-> available,
   included |-> included]

MCEventRows ==
  {Event(1, 1, Close(11), Close(11), TRUE),
   Event(1, 2, Close(22), Close(13), FALSE),
   Event(1, 2, Close(22), Close(31), FALSE),
   Event(1, 3, Close(22), Close(31), TRUE),
   Event(2, 1, Close(13), Close(33), TRUE)}

-----------------------------------------------------------------------------
(* The other questions, asked at most once *)

Rules(weighted) ==
  [highLong : BOOLEAN, buckets : {2, 3}, valueWeighted : {weighted}, minimum : {1, 2}]

Signals == {Blank, 1, 2}
EqualPanels == [Securities -> [signal : Signals, capitalization : {Blank}]]
WeightedPanels == [1 .. 4 -> [signal : Signals, capitalization : {Blank, 1, 2}]]

AskAllocation ==
  \E panel \in EqualPanels \cup WeightedPanels, missing \in {"fail", "exclude"} :
    \E rule \in Rules(DOMAIN panel # Securities) :
      Asked([kind |-> "allocation", rule |-> rule], Allocate(panel, rule, missing))

Spec_(execution, artifact) ==
  [execution |-> execution, references |-> {},
   datasets |-> {[version |-> 1, manifest |-> <<"manifest", 0>>]},
   tables |-> {[version |-> 1, name |-> execution, artifact |-> artifact]}]

Specs == {Unspecified, Spec_("e", <<"a", 1>>), Spec_("f", <<"b", 1>>), Spec_("e", <<"a", 3>>)}

Candidates(id) ==
  [id : {id}, questions : {FALSE}, novelty : 0 .. 1, specificity : {0},
   sources : {{<<"a", 1>>}}, spec : Specs]
  \cup [id : {id}, questions : {TRUE}, novelty : {1}, specificity : {1},
        sources : {{<<"a", 1>>}}, spec : Specs]

MCHoldings ==
  [held : SUBSET {<<"manifest", 0>>, <<"a", 1>>, <<"b", 1>>},
   manifests : [{<<"manifest", 0>>} ->
     [version : 1 .. 2, flaws : {{}, {"dataset_use_not_permitted"}},
      tables : {{<<"e", <<"a", 1>>>>, <<"f", <<"b", 1>>>>}, {<<"e", <<"a", 1>>>>}}]]]

MCBacklogs ==
  {{a, b, c} : a \in Candidates(1), b \in Candidates(2), c \in Candidates(3)}
  \cup {{a, b} : a \in Candidates(1), b \in Candidates(1) \cup Candidates(2)}
  \cup {{}, {(CHOOSE c \in Candidates(id) : TRUE) : id \in 1 .. 4}}

-----------------------------------------------------------------------------
Init ==
  /\ InitSources
  /\ request \in Requests \cup {Nothing}   \* Nothing leaves the behaviour to a question
  /\ acting # "inputs" => request = Nothing
  /\ NothingPublished
  /\ InitFolds /\ InitQueue

AskMonthly(questions) == \E q \in questions : Asked(q, MonthlyAnswer(q))

Question ==
  \/ AskAllocation \/ AskForward \/ AskPurged \/ AskFolds
  \/ AskMonthly(FormulaQuestions) \/ AskMonthly(SecQuestions) \/ AskMonthly(FrenchQuestions)
  \/ AskMonthly(PerformanceQuestions) \/ AskMonthly(AdmissionQuestions)

Next ==
  /\ UNCHANGED acting
  /\ \/ /\ acting = "inputs" /\ request # Nothing
        /\ NextAssembly
        /\ UNCHANGED <<question, answer, ranked, queue, sourceVars>>
     \/ /\ acting = "inputs" /\ request = Nothing
        /\ question = NoQuestion /\ ranked = Unspecified
        /\ \/ Question /\ UNCHANGED <<ranked, queue>>
           \/ AskQueue /\ UNCHANGED <<question, answer>>
        /\ UNCHANGED <<assemblyVars, sourceVars>>
     \/ NextSources /\ UNCHANGED inputVars

Spec == Init /\ [][Next]_vars

-----------------------------------------------------------------------------
\* What the code assembles, allocates, normalizes, admits and measures, the contracts of the saved
\* records accept when they are read back, and it says what its readers rely on (MonthlyAssembly's
\* coherent_lineage and coherent_values, _validate_partition, SecNormalizationResult,
\* AdmissionReceipt, PerformanceReport, evaluate_formula).
AnswersAreRecordable ==
  /\ ReceiptsAreAccepted
  /\ question # NoQuestion =>
       /\ question.kind = "allocation" /\ answer.failure = "none" =>
            AllocationAccepted(question.rule, answer.positions, answer.excluded)
       /\ Recordable(question, answer)
=============================================================================
