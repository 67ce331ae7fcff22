CONSTANTS
  Nothing = Nothing
  Unknown = Unknown
  DaysIn <- MCDaysIn
  Evaluate <- MCEvaluate
  Calendars <- MCCalendars
  Timings <- MCTimings
  Requests <- MCRequests
  FactRows <- MCFactRows
  EventRows <- MCEventRows
  MaxFacts = 3
  MaxEvents = 2
  Securities = {1, 2, 3, 4, 5}
  PeriodTables <- MCPeriodTables
  InstantTables <- MCInstantTables
  Sizes = {1, 2, 3}
  Embargoes = {0, 1, 2}
  LagCounts = {0, 1}
  Blank = Blank
  NoQuestion = NoQuestion
  r1 = r1
  r2 = r2
  p1 = p1
  w1 = w1
  w2 = w2
  v1 = v1
  v2 = v2
  o1 = o1
  o2 = o2
  owner = owner
  reader = reader
  WholeWeight = 2
  MaxFormula = 4
  Sources = 2
  Bindings <- MCBindings
  Runs = {r1, r2}
  Processes = {p1, p2}
  Answers <- MCAnswers
  CostLimits = {3, 5}
  MaxCommands = 3
  Controller = p1
  Cases <- MCCases
  Ceilings = {7, 8}
  Queries = {q1, q2}
  Inventories <- MCInventories
  Limit = 3
  Searchers = {w1, w2}
  Skew <- MCSkew
  CacheAge = 1
  SearchTime = 1
  Missing = Missing
  MaxHour = 2
  MaxSearches = 2
  Versions <- MCVersions
  DataObjects = {o1, o2}
  Absent = Absent
  Clients = {c1, c2}
  Principals <- MCPrincipals
  MaxInstant = 2
  MaxCalls = 2
  Models = {m1, m2}
  Unset = Unset
  AttemptTime = 2
  ReadTime = 1
  MaxResponse = 2
  MaxModelTime = 2
  NotThere = NotThere
  Unspecified = Unspecified
  MaxVerifiedBytes = 2
  MaxCandidates = 3
  Backlogs <- MCBacklogs
  Holdings <- MCHoldings
SPECIFICATION Spec
INVARIANTS
  ReceiptsAreReproducible
  AnswersAreRecordable
  FoldsDoNotLeak
  QueueIsRecordable
  ResultsAgree
  BatchIsAccounted
  OnlyAdmissibleAnswers
CHECK_DEADLOCK FALSE
