---------------------------- MODULE BudgetLedger ----------------------------
(***************************************************************************)
(* The research budget of one run (orchestration/budgets.py): a tuple of   *)
(* reservations in dispatch order, each with at most one observation, and  *)
(* the rules that decide whether a new reservation or observation is       *)
(* accepted.  The functions of the source are pure, and so is this module: *)
(* a ledger is a sequence of rows and every operator takes it as an        *)
(* argument.  The clock starts at 0, the run's started_at.                 *)
(***************************************************************************)
EXTENDS Integers, Sequences, FiniteSets, FiniteSetsExt, Functions

CONSTANTS
  Operations,      \* operations callers present: [id, kind, max]
  Results,         \* identities of retained result artifacts
  Costs,           \* measured charges a caller may report
  Times,           \* instants a caller's wall clock may show
  Unknown,         \* an observation without a measured charge
  Pending,         \* a reservation without an observation
  Deadline,        \* started_at + max_wall_seconds
  MaxCost,         \* max_cost_microusd
  MaxExperiments,  \* max_experiments
  MaxOperations,   \* max_operations, 128 in the service
  MaxSequence      \* largest event ordinal the schema admits, 255

OperationIds == {op.id : op \in Operations}

Observation ==
  [cost : Costs \cup {Unknown}, result : Results, at : Times, sequence : 0 .. MaxSequence]

Row ==
  [operation : Operations, reservedAt : Times, sequence : 0 .. MaxSequence,
   observation : Observation \cup {Pending}]

\* Only an LLM operation reserves cost (Operation.distinct_cost); amounts are integers; the
\* schema has an ordinal for both events of each of its 128 operations.
ASSUME LedgerAssumption ==
  /\ Operations \subseteq
       [id : OperationIds, kind : {"llm", "experiment", "validation"}, max : Nat]
  /\ \A op \in Operations : op.kind # "llm" => op.max = 0
  /\ Costs \subseteq Nat
  /\ Times \subseteq Nat
  /\ Unknown \notin Nat
  /\ Pending \notin
       [cost : Costs \cup {Unknown}, result : Results, at : Times, sequence : Nat]
  /\ {Deadline, MaxCost, MaxExperiments, MaxOperations, MaxSequence} \subseteq Nat
  /\ MaxSequence >= 2 * MaxOperations - 1

-----------------------------------------------------------------------------
(* What a ledger says *)

ObservedRows(ledger) == {i \in DOMAIN ledger : ledger[i].observation # Pending}

Holds(ledger, id) == \E i \in DOMAIN ledger : ledger[i].operation.id = id

\* Reservation.committed_microusd, with the slip of releasing a reservation whose charge
\* was never measured.
CommittedReleasingUnknown(row) ==
  IF row.observation = Pending THEN row.operation.max
  ELSE IF row.observation.cost = Unknown THEN 0 ELSE row.observation.cost

Committed(row) ==
  IF row.observation = Pending \/ row.observation.cost = Unknown
  THEN row.operation.max
  ELSE row.observation.cost

\* The slip of calling an overrun a breach only once the whole budget is exceeded.
OverrunOfBudget(row) == Committed(row) > MaxCost

Overrun(row) == Committed(row) > row.operation.max

TotalCommitted(ledger) == SumFunction([i \in DOMAIN ledger |-> Committed(ledger[i])])

Breached(ledger) == \E i \in DOMAIN ledger : Overrun(ledger[i])

\* clock_watermark is the latest of these instants: at is before the watermark when
\* one of them is later than at.
EventTimes(ledger) ==
  {0} \cup {ledger[i].reservedAt : i \in DOMAIN ledger}
      \cup {ledger[i].observation.at : i \in ObservedRows(ledger)}

NotBeforeWatermark(ledger, at) == \A t \in EventTimes(ledger) : at >= t

NextSequence(ledger) == Len(ledger) + Cardinality(ObservedRows(ledger))

-----------------------------------------------------------------------------
(* BudgetLedger.coherent_history and _validate_history: the replay of a ledger *)

WithinInventory(ledger) ==
  /\ Len(ledger) <= MaxOperations
  /\ \A i, j \in DOMAIN ledger : i # j => ledger[i].operation.id # ledger[j].operation.id
  /\ Cardinality({i \in DOMAIN ledger : ledger[i].operation.kind = "experiment"})
       <= MaxExperiments

Events(ledger) ==
  {[sequence |-> ledger[i].sequence, at |-> ledger[i].reservedAt] : i \in DOMAIN ledger}
  \cup {[sequence |-> ledger[i].observation.sequence, at |-> ledger[i].observation.at] :
          i \in ObservedRows(ledger)}

\* The slip of refusing observations that arrive after the deadline.
OrderedHistoryRefusingLate(ledger) ==
  /\ {e.sequence : e \in Events(ledger)} = 0 .. NextSequence(ledger) - 1
  /\ \A e, f \in Events(ledger) : e.sequence < f.sequence => e.at <= f.at
  /\ \A e \in Events(ledger) : e.at < Deadline

\* Ordinals are 0, 1, 2, ... without gap or repetition, reservations keep dispatch
\* order, an observation follows its reservation and the clock never moves backward.
OrderedHistory(ledger) ==
  /\ {e.sequence : e \in Events(ledger)} = 0 .. NextSequence(ledger) - 1
  /\ NextSequence(ledger) - 1 <= MaxSequence
  /\ \A i, j \in DOMAIN ledger : i < j => ledger[i].sequence < ledger[j].sequence
  /\ \A i \in ObservedRows(ledger) :
       /\ ledger[i].observation.sequence > ledger[i].sequence
       /\ ledger[i].observation.at >= ledger[i].reservedAt
  /\ \A e, f \in Events(ledger) : e.sequence < f.sequence => e.at <= f.at

\* What row i held right after event s: the replay refunds only at the observation.
CommittedAfter(ledger, i, s) ==
  IF i \in ObservedRows(ledger) /\ ledger[i].observation.sequence <= s
  THEN Committed(ledger[i])
  ELSE ledger[i].operation.max

\* At each reservation: no overrun observed earlier, before the deadline, and funded by
\* what was free at that event.
AuthorizedDispatches(ledger) ==
  \A i \in DOMAIN ledger :
    LET s == ledger[i].sequence
        earlier == {j \in DOMAIN ledger : ledger[j].sequence <= s}
    IN  /\ \A j \in ObservedRows(ledger) :
             Overrun(ledger[j]) => ledger[j].observation.sequence > s
        /\ ledger[i].reservedAt < Deadline
        /\ SumFunctionOnSet([j \in DOMAIN ledger |-> CommittedAfter(ledger, j, s)], earlier)
             <= MaxCost

Coherent(ledger) ==
  /\ WithinInventory(ledger)
  /\ OrderedHistory(ledger)
  /\ AuthorizedDispatches(ledger)

-----------------------------------------------------------------------------
(* reserve() *)

Reserved(ledger, op, at) ==
  Append(ledger, [operation |-> op, reservedAt |-> at,
                  sequence |-> NextSequence(ledger), observation |-> Pending])

\* The slip of letting an operation start at the deadline itself.
AdmitsAtDeadline(ledger, op, at) ==
  /\ ~Breached(ledger)
  /\ at <= Deadline
  /\ NotBeforeWatermark(ledger, at)
  /\ TotalCommitted(ledger) + op.max <= MaxCost

\* The conditions reserve() tests itself, before it validates the ledger it built.
Admits(ledger, op, at) ==
  /\ ~Breached(ledger)
  /\ at < Deadline
  /\ NotBeforeWatermark(ledger, at)
  /\ TotalCommitted(ledger) + op.max <= MaxCost

CanReserve(ledger, op, at) ==
  /\ ~Holds(ledger, op.id)
  /\ Admits(ledger, op, at)
  /\ Coherent(Reserved(ledger, op, at))

-----------------------------------------------------------------------------
(* settle() *)

Settled(ledger, i, cost, result, at) ==
  [ledger EXCEPT ![i].observation =
     [cost |-> cost, result |-> result, at |-> at, sequence |-> NextSequence(ledger)]]

CanSettle(ledger, i, cost, result, at) ==
  /\ i \in DOMAIN ledger
  /\ ledger[i].observation = Pending
  /\ Coherent(Settled(ledger, i, cost, result, at))

=============================================================================
