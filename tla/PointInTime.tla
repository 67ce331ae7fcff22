---------------------------- MODULE PointInTime -----------------------------
(***************************************************************************)
(* What a formation may know: the plan of formations on a declared         *)
(* calendar (domain/calendar.py), the selection of facts and members known *)
(* by then (data/point_in_time.py) and the monthly cross-section made of   *)
(* them (data/monthly_signals.py), with the contract its receipt is        *)
(* reloaded under (domain/monthly_signals.py).                             *)
(*                                                                         *)
(* A date is ten times its month plus its day, an instant the open or the  *)
(* close of a date.  A fact is a record of its security, its context       *)
(* (concept and unit), the date its period ends, its availability,         *)
(* revision, source and value; a membership event of its security, event   *)
(* id, effect and availability and whether it includes.  A provider        *)
(* publishes both as time passes, and formations of the past are assembled *)
(* from what is there.                                                     *)
(***************************************************************************)
EXTENDS Integers, Sequences, FiniteSets, Functions, FiniteSetsExt

CONSTANTS
  Unknown,       \* no value, no session
  DaysIn(_),     \* the days of a month
  Evaluate(_),   \* the formula of a signal, on the histories of its bindings
  Calendars, Timings, Requests,
  FactRows, EventRows,   \* what the provider may publish
  MaxFacts,      \* bound: facts published
  MaxEvents      \* bound: membership events published

ASSUME PointInTimeAssumption ==
  /\ \A timing \in Timings : timing.start \in Int /\ timing.end \in Int
  /\ \A asked \in Requests :
       IsFiniteSet(asked.bindings) /\ asked.capitalization \in asked.bindings \cup {Unknown}
  /\ \A row \in FactRows : row.available \in Int /\ row.revision \in Int /\ row.source \in Int
  /\ \A row \in EventRows : row.available \in Int /\ row.effective \in Int

VARIABLES
  request,    \* the monthly request that is asked of every formation
  clock,      \* the latest publication
  facts,      \* the rows of the source bundle, as published
  membership,
  formed      \* formation plan -> the receipt that was assembled

Month(date) == date \div 10
Day(date) == date % 10
Open(date) == 2 * date
Close(date) == 2 * date + 1
DateOf(instant) == instant \div 2

Rank(a, b) == <<a, b>>
Above(p, q) == p[1] > q[1] \/ (p[1] = q[1] /\ p[2] > q[2])

Refused(code) == [failure |-> code]

-----------------------------------------------------------------------------
(* plan_formations(): the last session of every month of a window, where   *)
(* the strategy rebalances; the trade is a number of sessions later.  A    *)
(* calendar is a record of its session dates, the dates it covers and when *)
(* it became available.                                                    *)

LastSession(calendar, month) ==
  LET dates == {d \in Range(calendar.sessions) : Month(d) = month}
  IN IF dates = {} THEN Unknown ELSE Max(dates)

Skipped == [failure |-> "none", formation |-> Unknown]

Planned(calendar, timing, month) ==
  LET date == LastSession(calendar, month)
      later == IF date = Unknown THEN {}
               ELSE {i \in DOMAIN calendar.sessions :
                       i > timing.delay /\ calendar.sessions[i - timing.delay] = date}
  IN IF date = Unknown THEN Refused("CALENDAR_INCOMPLETE")
     ELSE IF date \notin timing.start .. timing.end THEN Skipped
     ELSE IF calendar.available > Close(date) THEN Refused("CALENDAR_NOT_KNOWN")
     ELSE IF later = {} THEN Refused("CALENDAR_INCOMPLETE")
     ELSE [failure |-> "none", formation |-> Close(date),
           trade |-> Open(calendar.sessions[CHOOSE i \in later : TRUE])]

\* The plans of a window, or the failure of its first month that has one.
Formations(calendar, timing) ==
  LET months == (Month(timing.start) .. Month(timing.end)) \cap timing.months
      refused == {m \in months : Planned(calendar, timing, m).failure # "none"}
  IN IF ~((10 * Month(timing.start) + 1) .. (10 * Month(timing.end) + DaysIn(Month(timing.end)))
            \subseteq calendar.covered)
     THEN {Refused("CALENDAR_INVALID")}
     ELSE IF refused # {} THEN {Planned(calendar, timing, Min(refused))}
     ELSE {Planned(calendar, timing, m) : m \in months} \ {Skipped}

-----------------------------------------------------------------------------
(* select_facts() and select_universe(): one pass over the rows that are   *)
(* known by then, in the order they are supplied                           *)

FactKey(row) == <<row.security, row.context, row.end>>
FactSource(row) == <<FactKey(row), row.source, row.revision>>
FactVersion(row) == <<FactKey(row), row.available, row.revision>>

Empty == [failed |-> FALSE, sources |-> {}, versions |-> {}]

AddFact(seen, row) ==
  LET previous == {v \in seen.versions : FactVersion(v) = FactVersion(row)}
      conflict == \/ \E s \in seen.sources : FactSource(s) = FactSource(row) /\ s # row
                  \/ \E v \in previous : v.value # row.value
      sources == seen.sources \cup {row}
  IN IF seen.failed \/ conflict THEN [seen EXCEPT !.failed = TRUE]
     ELSE IF previous = {} THEN [seen EXCEPT !.sources = sources, !.versions = @ \cup {row}]
     ELSE IF \E v \in previous : row.source < v.source
     THEN [seen EXCEPT !.sources = sources, !.versions = (@ \ previous) \cup {row}]
     ELSE [seen EXCEPT !.sources = sources]

KnownFact(row, contexts, at) == row.context \in contexts /\ row.available <= at

FactsSeen(rows, contexts, at) ==
  LET seen[n \in 0 .. Len(rows)] ==
        IF n = 0 THEN Empty
        ELSE IF KnownFact(rows[n], contexts, at) THEN AddFact(seen[n - 1], rows[n])
        ELSE seen[n - 1]
  IN seen[Len(rows)]

SelectFacts(rows, contexts, at) ==
  LET seen == FactsSeen(rows, contexts, at)
      Newest(row) == \A v \in seen.versions :
        FactKey(v) = FactKey(row) /\ v # row =>
          Above(Rank(row.available, row.revision), Rank(v.available, v.revision))
  IN IF seen.failed THEN Refused("DATA_CONFLICT")
     ELSE [failure |-> "none", facts |-> {row \in seen.versions : Newest(row)}]

AddEvent(seen, row) ==
  LET SameVersion(v) == /\ v.security = row.security
                        /\ v.effective = row.effective
                        /\ v.available = row.available
      conflict ==
        \/ \E s \in seen.sources : s.security = row.security /\ s.event = row.event /\ s # row
        \/ \E v \in seen.versions : SameVersion(v) /\ v.included # row.included
  IN IF seen.failed \/ conflict THEN [seen EXCEPT !.failed = TRUE]
     ELSE [seen EXCEPT !.sources = @ \cup {row},
                       !.versions = {v \in @ : ~SameVersion(v)} \cup {row}]

\* The slip of a member that counts from its effect on, announced or not.
KnownByEffect(row, at) == row.effective <= at

KnownEvent(row, at) == row.available <= at /\ row.effective <= at

EventsSeen(rows, at) ==
  LET seen[n \in 0 .. Len(rows)] ==
        IF n = 0 THEN Empty
        ELSE IF KnownEvent(rows[n], at) THEN AddEvent(seen[n - 1], rows[n])
        ELSE seen[n - 1]
  IN seen[Len(rows)]

SelectUniverse(rows, at) ==
  LET seen == EventsSeen(rows, at)
      Latest(row) == \A v \in seen.versions :
        v.security = row.security /\ v # row =>
          Above(Rank(row.effective, row.available), Rank(v.effective, v.available))
  IN IF seen.failed THEN Refused("DATA_CONFLICT")
     ELSE [failure |-> "none",
           members |-> {row.security : row \in {v \in seen.versions : Latest(v) /\ v.included}}]

-----------------------------------------------------------------------------
(* _assemble(): a request has the bindings, records of their name, context *)
(* and history, which of them is the capitalization (or Unknown), and the  *)
(* lag in months.                                                          *)

\* economic_cutoff(): the day of the formation, clipped to the month of the cutoff.
Cutoff(asked, plan) ==
  LET date == DateOf(plan.formation)
      month == Month(date) - asked.lag
  IN 10 * month + Min({Day(date), DaysIn(month)})

\* The requested months of a binding: consecutive and ending with the cutoff's.
Requested(asked, plan, binding) ==
  LET last == Month(Cutoff(asked, plan)) IN (last - binding.history + 1) .. last

CellsOf(asked, plan, members) ==
  UNION {[binding : {b}, security : members, month : Requested(asked, plan, b)] :
           b \in asked.bindings}

\* The facts of a cell; two days of one month make it ambiguous.
RowsOf(indexed, cell) ==
  {f \in indexed : /\ f.security = cell.security
                 /\ f.context = cell.binding.context
                 /\ Month(f.end) = cell.month}

ValueOf(indexed, cell) == (CHOOSE f \in RowsOf(indexed, cell) : TRUE).value

Invalid(asked, binding, value) ==
  \/ binding.context = "return" /\ value < -1
  \/ binding = asked.capitalization /\ value <= 0

\* The values of a binding's months, when its whole history is there.
History(asked, plan, indexed, binding, security) ==
  LET months == Requested(asked, plan, binding)
      Cell(m) == [binding |-> binding, security |-> security, month |-> m]
  IN IF \A m \in months : RowsOf(indexed, Cell(m)) # {}
     THEN [m \in months |-> ValueOf(indexed, Cell(m))] ELSE Unknown

Observed(asked, plan, indexed, security) ==
  LET Of(b) == History(asked, plan, indexed, b, security)
      signals == asked.bindings \ {asked.capitalization}
  IN [signal |-> IF \E b \in signals : Of(b) = Unknown THEN Unknown
                 ELSE Evaluate([b \in signals |-> Of(b)]),
      capitalization |->
        IF asked.capitalization = Unknown \/ Of(asked.capitalization) = Unknown THEN Unknown
        ELSE Of(asked.capitalization)[Month(Cutoff(asked, plan))]]

Observations(asked, plan, indexed, members) ==
  [s \in members |-> Observed(asked, plan, indexed, s)]

\* The facts up to the cutoff, the cells they fill and the fact selected for each of those.
Indexed(selected, asked, plan) == {f \in selected.facts : f.end <= Cutoff(asked, plan)}
Filled(indexed, cells) == {c \in cells : RowsOf(indexed, c) # {}}
Selections(indexed, filled) ==
  {[cell |-> c, fact |-> CHOOSE f \in RowsOf(indexed, c) : TRUE] : c \in filled}

\* The cross-section of a selected universe and of the selected facts.
CrossSection(universe, selected, asked, plan) ==
  LET cells == CellsOf(asked, plan, universe.members)
      indexed == Indexed(selected, asked, plan)
      filled == Filled(indexed, cells)
  IN IF universe.failure # "none" THEN universe
     ELSE IF universe.members = {} THEN Refused("MONTHLY_EMPTY_UNIVERSE")
     ELSE IF selected.failure # "none" THEN selected
     ELSE IF \/ \E c \in cells : Cardinality(RowsOf(indexed, c)) > 1
             \/ \E c \in filled : Invalid(asked, c.binding, ValueOf(indexed, c))
     THEN Refused("MONTHLY_CELL_INVALID")   \* the first such cell gives the code its detail
     ELSE [failure |-> "none",
           universe |-> universe.members,
           observations |-> Observations(asked, plan, indexed, universe.members),
           selections |-> Selections(indexed, filled),
           missing |-> cells \ filled]

Assemble(bundle, asked, plan) ==
  CrossSection(SelectUniverse(bundle.membership, plan.formation),
               SelectFacts(bundle.facts, {b.context : b \in asked.bindings}, plan.formation),
               asked, plan)

-----------------------------------------------------------------------------
(* The contract of a saved receipt, MonthlyAssembly *)

\* coherent_lineage(): every requested cell once, selected or missing, and nothing selected that
\* was not published by the formation or lies past the economic cutoff.
LineageAccepted(receipt, asked, plan) ==
  LET chosen == {s.cell : s \in receipt.selections} IN
  /\ DOMAIN receipt.observations = receipt.universe
  /\ Cardinality(chosen) = Cardinality(receipt.selections)
  /\ chosen \cap receipt.missing = {}
  /\ chosen \cup receipt.missing = CellsOf(asked, plan, receipt.universe)
  /\ \A s \in receipt.selections :
       /\ s.fact.context = s.cell.binding.context
       /\ Month(s.fact.end) = s.cell.month /\ s.fact.end <= Cutoff(asked, plan)
       /\ s.fact.available <= plan.formation
       /\ ~Invalid(asked, s.cell.binding, s.fact.value)

\* coherent_values(): the saved scalars follow from the saved selections.
ValuesAccepted(receipt, asked, plan) ==
  LET indexed == {s.fact : s \in receipt.selections} IN
  receipt.observations = Observations(asked, plan, indexed, receipt.universe)

-----------------------------------------------------------------------------
(* A provider publishes, and formations of the past are assembled *)

Plans == UNION {Formations(calendar, timing) : calendar \in Calendars, timing \in Timings}

Bundle == [facts |-> facts, membership |-> membership]

NothingPublished ==
  clock = 0 /\ facts = <<>> /\ membership = <<>> /\ formed = [p \in {} |-> Unknown]

InitAssembly == request \in Requests /\ NothingPublished

Publish ==
  /\ Len(facts) < MaxFacts
  /\ \E row \in FactRows :
       /\ row.available >= clock
       /\ facts' = Append(facts, row)
       /\ clock' = row.available
  /\ UNCHANGED <<request, membership, formed>>

Announce ==
  /\ Len(membership) < MaxEvents
  /\ \E row \in EventRows :
       /\ row.available >= clock
       /\ membership' = Append(membership, row)
       /\ clock' = row.available
  /\ UNCHANGED <<request, facts, formed>>

\* By then everything known at the formation has been published.
Form ==
  \E plan \in {p \in Plans : p.failure = "none"} \ DOMAIN formed :
    /\ clock > plan.formation
    /\ formed' = [p \in DOMAIN formed \cup {plan} |->
         IF p = plan THEN Assemble(Bundle, request, plan) ELSE formed[p]]
    /\ UNCHANGED <<request, clock, facts, membership>>

NextAssembly == Publish \/ Announce \/ Form

assemblyVars == <<request, clock, facts, membership, formed>>

AssemblySpec == InitAssembly /\ [][NextAssembly]_assemblyVars

-----------------------------------------------------------------------------
\* A bundle in the reverse order of its publication.
Reversed == [facts |-> [i \in DOMAIN facts |-> facts[Len(facts) + 1 - i]],
             membership |-> [i \in DOMAIN membership |-> membership[Len(membership) + 1 - i]]]

\* What is assembled is accepted by the contract of its receipt: every requested cell is there once,
\* no selected fact was unknown at the formation or lies past the economic cutoff, and the saved
\* scalars follow from the saved selections (_assemble, coherent_lineage, coherent_values).
ReceiptsAreAccepted ==
  \A plan \in DOMAIN formed :
    formed[plan].failure = "none" =>
      LineageAccepted(formed[plan], request, plan) /\ ValuesAccepted(formed[plan], request, plan)

\* The receipt of a formation stays the one that was assembled first, whatever is published after
\* the formation - restatements, corrections, late announcements of earlier effects - and in
\* whatever order the rows are supplied (_assemble, select_facts, select_universe).
ReceiptsAreReproducible ==
  \A plan \in DOMAIN formed :
    /\ Assemble(Bundle, request, plan) = formed[plan]
    /\ Assemble(Reversed, request, plan) = formed[plan]
=============================================================================
