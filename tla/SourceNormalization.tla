-------------------------- MODULE SourceNormalization --------------------------
(***************************************************************************)
(* Archived provider data turned into source rows: facts of filings with   *)
(* reviewed availability (data/sec_normalizer.py) and daily reference      *)
(* returns between session closes (data/french_normalizer.py).  Pure       *)
(* functions of the archived rows; days are numbers, instants fractions of *)
(* a day in tens.                                                          *)
(***************************************************************************)
EXTENDS Integers, Sequences, FiniteSets, SequencesExt

CONSTANT Undefined

DayOf(instant) == instant \div 10

Normalized(status, reason, selected, facts, unresolved) ==
  [status |-> status, reason |-> reason, selected |-> selected, facts |-> facts,
   unresolved |-> unresolved]

Invalid(reason) == Normalized("invalid", reason, 0, <<>>, {})

\* SecNormalizationRequest: the window and the reviewed availability precede the capture.
SecRequestValid(request) ==
  /\ request.from <= request.through
  /\ request.through <= DayOf(request.captured)
  /\ \A a \in DOMAIN request.available : request.available[a] <= request.captured

InWindow(request, row) == row.filed \in request.from .. request.through

\* The fact of a row, available when its filing was.
FactOf(request, row) ==
  [start |-> row.start, end |-> row.end, value |-> row.value, source |-> row.accession,
   available |-> request.available[row.accession]]

\* A row that is not what the request says, was available before it was filed, or reports a period
\* that had not ended or ends before it starts.
Inconsistent(request, row) ==
  LET fact == FactOf(request, row) IN
  \/ (row.start = Undefined) # (request.kind = "instant")
  \/ DayOf(fact.available) < row.filed
  \/ row.end > DayOf(fact.available)
  \/ row.start # Undefined /\ row.start > row.end

\* Two values of one period within a filing; the same value twice is kept twice.
Contradict(f, g) ==
  f.source = g.source /\ f.start = g.start /\ f.end = g.end /\ f # g

\* The slip of emitting what has a reviewed availability and leaving out the rest.
MissingIgnored(request, rows) == {}

\* Filings in the window without a reviewed availability.
MissingTiming(request, rows) ==
  {rows[i].accession : i \in DOMAIN rows} \ DOMAIN request.available

\* normalize_sec(): all scoped rows, or none.
NormalizeSec(request, source) ==
  LET rows == SelectSeq(source, LAMBDA r : InWindow(request, r))
      missing == MissingTiming(request, rows)
      timed == SelectSeq(rows, LAMBDA r : r.accession \in DOMAIN request.available)
      facts == [i \in DOMAIN timed |-> FactOf(request, timed[i])]
  IN IF missing # {} THEN Normalized("held", "missing_timing", Len(rows), <<>>, missing)
     ELSE IF \/ \E i \in DOMAIN timed : Inconsistent(request, timed[i])
             \/ \E i, j \in DOMAIN facts : Contradict(facts[i], facts[j])
     THEN Invalid("inconsistent")
     ELSE IF rows = <<>> THEN Normalized("held", "empty_window", 0, <<>>, {})
     ELSE Normalized("ready", "none", Len(rows), facts, {})

\* SecNormalizationResult.coherent_inventory().
SecAccepted(result) ==
  /\ result.status = "ready" =>
       /\ result.reason = "none" /\ result.unresolved = {}
       /\ Len(result.facts) = result.selected /\ result.facts # <<>>
  /\ result.status = "held" =>
       /\ result.facts = <<>>
       /\ \/ result.reason = "missing_timing" /\ result.unresolved # {} /\ result.selected > 0
          \/ result.reason = "empty_window" /\ result.unresolved = {} /\ result.selected = 0

-----------------------------------------------------------------------------

\* FrenchDailyRequest: the closes are on different days, in order, before the capture.
FrenchRequestValid(request) ==
  LET closes == request.closes IN
  /\ Len(closes) >= 2
  /\ closes[Len(closes)] <= request.captured
  /\ \A i \in 2 .. Len(closes) : DayOf(closes[i - 1]) < DayOf(closes[i])

\* _rows(): the days ascend, there are two at least, and no total return is below minus one.
DailyTableValid(table) ==
  /\ Len(table) >= 2
  /\ \A i \in 2 .. Len(table) : table[i - 1].day < table[i].day
  /\ \A i \in DOMAIN table : table[i].excess + table[i].free >= -100 /\ table[i].free >= -100

\* normalize_french_daily(): the sessions are exactly the days of the table between the first and
\* the last of them; each interval has the return of its end, known with the capture.
NormalizeFrench(request, table) ==
  LET closes == request.closes
      first == DayOf(closes[1])
      last == DayOf(closes[Len(closes)])
      days == {table[i].day : i \in DOMAIN table}
      On(day) == table[CHOOSE i \in DOMAIN table : table[i].day = day]
      Row(i, series) ==
        [series |-> series, start |-> closes[i - 1], end |-> closes[i],
         available |-> request.captured,
         value |-> LET row == On(DayOf(closes[i])) IN
                   IF series = "benchmark" THEN row.excess + row.free ELSE row.free]
  IN IF ~DailyTableValid(table) \/ (\E d \in days : d > DayOf(request.captured))
     THEN [status |-> "invalid", rows |-> {}]
     ELSE IF days \cap first .. last # {DayOf(closes[i]) : i \in DOMAIN closes}
     THEN [status |-> "invalid", rows |-> {}]
     ELSE [status |-> "ready",
           rows |-> {Row(i, s) : i \in 2 .. Len(closes), s \in {"benchmark", "risk_free"}}]

\* The contracts of the saved intervals: forward, each once, an even number of them.
FrenchAccepted(result) ==
  result.status = "ready" =>
    /\ Cardinality(result.rows) >= 2 /\ Cardinality(result.rows) % 2 = 0
    /\ \A r \in result.rows : r.start < r.end /\ r.value >= -100
    /\ \A r, s \in result.rows :
         r.series = s.series /\ r.start = s.start /\ r.end = s.end => r = s
=============================================================================
