--------------------------- MODULE RunBudgetProofs --------------------------
(***************************************************************************)
(* Theorems about the rules of a research budget and about the durable     *)
(* budget of a run, for every set of operations, costs and clock readings  *)
(* and every limit: the ledger stays well formed, keeps BudgetPromise,     *)
(* records whatever was dispatched, admits what its replay admits and      *)
(* bounds the planned spend.                                               *)
(***************************************************************************)
EXTENDS RunBudget, SumTheorems

\* The observed rows of a ledger (coherent_history's second event per row) are finitely
\* many, so the next event ordinal is a natural number.
LEMMA ObservedRowsFinite ==
  ASSUME NEW rows \in Seq(Row)
  PROVE  /\ IsFiniteSet(ObservedRows(rows))
         /\ Cardinality(ObservedRows(rows)) \in Nat
         /\ NextSequence(rows) \in Nat
<1>1. DOMAIN rows = 1 .. Len(rows) /\ Len(rows) \in Nat
  OBVIOUS
<1>2. IsFiniteSet(1 .. Len(rows))
  BY <1>1, FS_Interval
<1>3. ObservedRows(rows) \in SUBSET (1 .. Len(rows))
  BY <1>1 DEF ObservedRows
<1>4. IsFiniteSet(ObservedRows(rows))
  BY <1>2, <1>3, FS_Subset
<1>5. Cardinality(ObservedRows(rows)) \in Nat
  BY <1>4, FS_CardinalityType
<1>6. QED
  BY <1>1, <1>4, <1>5 DEF NextSequence

\* reserve() appends one row and leaves every row before it alone.
LEMMA ReservedRows ==
  ASSUME NEW rows \in Seq(Row), NEW op, NEW at
  PROVE  /\ Len(Reserved(rows, op, at)) = Len(rows) + 1
         /\ DOMAIN Reserved(rows, op, at) = DOMAIN rows \cup {Len(rows) + 1}
         /\ Len(rows) + 1 \notin DOMAIN rows
         /\ \A i \in DOMAIN rows : Reserved(rows, op, at)[i] = rows[i]
         /\ Reserved(rows, op, at)[Len(rows) + 1] =
              [operation |-> op, reservedAt |-> at, sequence |-> NextSequence(rows),
               observation |-> Pending]
  BY DEF Reserved

\* A new reservation is pending: it observes nothing.
LEMMA ReservedObserves ==
  ASSUME NEW rows \in Seq(Row), NEW op, NEW at
  PROVE  ObservedRows(Reserved(rows, op, at)) = ObservedRows(rows)
<1> DEFINE after == Reserved(rows, op, at)
<1>1. /\ DOMAIN after = DOMAIN rows \cup {Len(rows) + 1}
      /\ \A i \in DOMAIN rows : after[i] = rows[i]
  BY DEF Reserved
<1>2. after[Len(rows) + 1] =
        [operation |-> op, reservedAt |-> at, sequence |-> NextSequence(rows),
         observation |-> Pending]
  BY ReservedRows
<1>3. after[Len(rows) + 1].observation = Pending
  BY <1>2
<1> HIDE DEF after
<1>4. ObservedRows(after) = ObservedRows(rows)
  BY <1>1, <1>3 DEF ObservedRows
<1>5. QED
  BY <1>4 DEF after

\* settle() changes the observation of one row and nothing else.
LEMMA SettledRows ==
  ASSUME NEW rows \in Seq(Row), NEW i \in DOMAIN rows, NEW cost, NEW result, NEW at
  PROVE  /\ Len(Settled(rows, i, cost, result, at)) = Len(rows)
         /\ DOMAIN Settled(rows, i, cost, result, at) = DOMAIN rows
         /\ \A j \in DOMAIN rows : j # i => Settled(rows, i, cost, result, at)[j] = rows[j]
         /\ Settled(rows, i, cost, result, at)[i] =
              [operation |-> rows[i].operation, reservedAt |-> rows[i].reservedAt,
               sequence |-> rows[i].sequence,
               observation |-> [cost |-> cost, result |-> result, at |-> at,
                                sequence |-> NextSequence(rows)]]
<1> rows[i] \in Row
  OBVIOUS
<1> QED
  BY DEF Settled, Row

\* The ordinals of the schema bound both transitions: a ledger that passes the replay has
\* room for the last event it holds.
LEMMA OrdinalInSchema ==
  ASSUME NEW rows \in Seq(Row), NextSequence(rows) <= MaxSequence
  PROVE  NextSequence(rows) \in 0 .. MaxSequence
  BY ObservedRowsFinite, LedgerAssumption DEF LedgerAssumption

\* reserve() returns a well-formed ledger.
LEMMA ReserveType ==
  ASSUME NEW rows \in Seq(Row), NEW op \in Operations, NEW at \in Times,
         CanReserve(rows, op, at)
  PROVE  Reserved(rows, op, at) \in Seq(Row)
<1> DEFINE after == Reserved(rows, op, at)
<1>1. NextSequence(after) - 1 <= MaxSequence
  BY DEF CanReserve, Coherent, OrderedHistory
<1>2. NextSequence(after) = NextSequence(rows) + 1
  <2>1. NextSequence(after) = Len(after) + Cardinality(ObservedRows(rows))
    BY ReservedObserves DEF NextSequence
  <2>2. Len(after) = Len(rows) + 1
    BY ReservedRows
  <2>3. QED
    BY <2>1, <2>2, ObservedRowsFinite DEF NextSequence
<1>3. NextSequence(rows) \in 0 .. MaxSequence
  <2>1. NextSequence(rows) <= MaxSequence
    BY <1>1, <1>2, ObservedRowsFinite, LedgerAssumption DEF LedgerAssumption
  <2>2. QED
    BY <2>1, OrdinalInSchema
<1>4. [operation |-> op, reservedAt |-> at, sequence |-> NextSequence(rows),
       observation |-> Pending] \in Row
  BY <1>3 DEF Row
<1>5. QED
  BY <1>4 DEF Reserved

\* settle() returns a well-formed ledger with one more observed row.
LEMMA SettleTypeAndRows ==
  ASSUME NEW rows \in Seq(Row), NEW i \in DOMAIN rows, NEW cost \in Costs \cup {Unknown},
         NEW result \in Results, NEW at \in Times,
         CanSettle(rows, i, cost, result, at)
  PROVE  /\ Settled(rows, i, cost, result, at) \in Seq(Row)
         /\ ObservedRows(Settled(rows, i, cost, result, at)) = ObservedRows(rows) \cup {i}
<1> DEFINE after == Settled(rows, i, cost, result, at)
           seen  == [cost |-> cost, result |-> result, at |-> at,
                     sequence |-> NextSequence(rows)]
<1>0. rows[i] \in Row /\ i \notin ObservedRows(rows)
  BY DEF CanSettle, ObservedRows
<1>1. Len(after) = Len(rows) /\ DOMAIN after = DOMAIN rows
  BY DEF Settled
<1>2. after[i] = [operation |-> rows[i].operation, reservedAt |-> rows[i].reservedAt,
                  sequence |-> rows[i].sequence, observation |-> seen]
  BY SettledRows
<1>3. \A j \in DOMAIN rows : j # i => after[j] = rows[j]
  BY DEF Settled
<1>4. seen # Pending
  BY ObservedRowsFinite, LedgerAssumption DEF LedgerAssumption
<1>5. ObservedRows(after) = ObservedRows(rows) \cup {i}
  BY <1>1, <1>2, <1>3, <1>4 DEF ObservedRows
<1>6. NextSequence(after) = NextSequence(rows) + 1
  <2>1. IsFiniteSet(ObservedRows(rows)) /\ Cardinality(ObservedRows(rows)) \in Nat
    BY ObservedRowsFinite
  <2>2. Cardinality(ObservedRows(rows) \cup {i}) = Cardinality(ObservedRows(rows)) + 1
    BY <1>0, <2>1, FS_AddElement
  <2>3. NextSequence(after) = Len(rows) + Cardinality(ObservedRows(rows)) + 1
    BY <1>1, <1>5, <2>1, <2>2 DEF NextSequence
  <2>4. QED
    BY <2>1, <2>3 DEF NextSequence
<1>7. NextSequence(rows) \in 0 .. MaxSequence
  <2>1. NextSequence(after) - 1 <= MaxSequence
    BY DEF CanSettle, Coherent, OrderedHistory
  <2>2. NextSequence(rows) <= MaxSequence
    BY <1>6, <2>1, ObservedRowsFinite, LedgerAssumption DEF LedgerAssumption
  <2>3. QED
    BY <2>2, OrdinalInSchema
<1>8. seen \in Observation
  BY <1>7 DEF Observation
<1>9. after \in Seq(Row)
  <2>1. [rows[i] EXCEPT !.observation = seen] \in Row
    BY <1>0, <1>8 DEF Row
  <2>2. after = [rows EXCEPT ![i] = [rows[i] EXCEPT !.observation = seen]]
    BY DEF Settled
  <2>3. QED
    BY <2>1, <2>2
<1>10. QED
  BY <1>5, <1>9

\* settle() returns a well-formed ledger.
LEMMA SettleType ==
  ASSUME NEW rows \in Seq(Row), NEW i \in DOMAIN rows, NEW cost \in Costs \cup {Unknown},
         NEW result \in Results, NEW at \in Times,
         CanSettle(rows, i, cost, result, at)
  PROVE  Settled(rows, i, cost, result, at) \in Seq(Row)
  BY SettleTypeAndRows

\* settle() observes one more row.
LEMMA SettleObserves ==
  ASSUME NEW rows \in Seq(Row), NEW i \in DOMAIN rows, NEW cost \in Costs \cup {Unknown},
         NEW result \in Results, NEW at \in Times,
         CanSettle(rows, i, cost, result, at)
  PROVE  ObservedRows(Settled(rows, i, cost, result, at)) = ObservedRows(rows) \cup {i}
  BY SettleTypeAndRows

-----------------------------------------------------------------------------
(* The events of a ledger and their order *)

\* The event a transition adds: it has the next ordinal.
NewEvent(rows, at) == [sequence |-> NextSequence(rows), at |-> at]

\* reserve() adds one event.
LEMMA ReservedEvents ==
  ASSUME NEW rows \in Seq(Row), NEW op, NEW at
  PROVE  /\ Events(Reserved(rows, op, at)) = Events(rows) \cup {NewEvent(rows, at)}
         /\ NextSequence(Reserved(rows, op, at)) = NextSequence(rows) + 1
<1> DEFINE after == Reserved(rows, op, at)
           new == Len(rows) + 1
<1>1. /\ Len(after) = new
      /\ DOMAIN after = DOMAIN rows \cup {new}
      /\ new \notin DOMAIN rows
      /\ \A i \in DOMAIN rows : after[i] = rows[i]
      /\ after[new] = [operation |-> op, reservedAt |-> at, sequence |-> NextSequence(rows),
                       observation |-> Pending]
  BY ReservedRows
<1>2. ObservedRows(after) = ObservedRows(rows)
  BY ReservedObserves
<1>3. /\ \A i \in ObservedRows(rows) : i \in DOMAIN rows
      /\ after[new].sequence = NextSequence(rows) /\ after[new].reservedAt = at
  BY <1>1 DEF ObservedRows
<1> HIDE DEF after, new
<1>4. Events(after) = Events(rows) \cup {NewEvent(rows, at)}
  BY <1>1, <1>2, <1>3 DEF Events, NewEvent
<1>5. NextSequence(after) = NextSequence(rows) + 1
  <2>1. Cardinality(ObservedRows(rows)) \in Nat /\ Len(rows) \in Nat
    BY ObservedRowsFinite
  <2>2. QED
    BY <1>1, <1>2, <2>1 DEF NextSequence, new
<1>6. QED
  BY <1>4, <1>5 DEF after

\* settle() adds one event.
LEMMA SettledEvents ==
  ASSUME NEW rows \in Seq(Row), NEW i \in DOMAIN rows, rows[i].observation = Pending,
         NEW cost \in Costs \cup {Unknown}, NEW result \in Results, NEW at \in Times
  PROVE  /\ Events(Settled(rows, i, cost, result, at)) =
              Events(rows) \cup {NewEvent(rows, at)}
         /\ NextSequence(Settled(rows, i, cost, result, at)) = NextSequence(rows) + 1
         /\ ObservedRows(Settled(rows, i, cost, result, at)) = ObservedRows(rows) \cup {i}
         /\ i \notin ObservedRows(rows)
<1> DEFINE after == Settled(rows, i, cost, result, at)
           seen  == [cost |-> cost, result |-> result, at |-> at,
                     sequence |-> NextSequence(rows)]
<1>1. /\ Len(after) = Len(rows) /\ DOMAIN after = DOMAIN rows
      /\ \A j \in DOMAIN rows : j # i => after[j] = rows[j]
      /\ after[i] = [operation |-> rows[i].operation, reservedAt |-> rows[i].reservedAt,
                     sequence |-> rows[i].sequence, observation |-> seen]
  BY SettledRows
<1>2. seen # Pending
  BY ObservedRowsFinite, LedgerAssumption DEF LedgerAssumption
<1>3. i \notin ObservedRows(rows)
  BY DEF ObservedRows
<1>4. /\ after[i].observation = seen
      /\ after[i].sequence = rows[i].sequence
      /\ after[i].reservedAt = rows[i].reservedAt
      /\ seen.sequence = NextSequence(rows)
      /\ seen.at = at
  BY <1>1
<1> HIDE DEF after, seen
<1>5. ObservedRows(after) = ObservedRows(rows) \cup {i}
  BY <1>1, <1>2, <1>4 DEF ObservedRows
<1>6. Events(after) = Events(rows) \cup {NewEvent(rows, at)}
  <2>1. {[sequence |-> after[j].sequence, at |-> after[j].reservedAt] : j \in DOMAIN after} =
        {[sequence |-> rows[j].sequence, at |-> rows[j].reservedAt] : j \in DOMAIN rows}
    BY <1>1, <1>4
  <2>2. \A j \in ObservedRows(rows) : j \in DOMAIN rows /\ j # i
    BY <1>3 DEF ObservedRows
  <2>3. {[sequence |-> after[j].observation.sequence, at |-> after[j].observation.at] :
            j \in ObservedRows(after)} =
        {[sequence |-> rows[j].observation.sequence, at |-> rows[j].observation.at] :
            j \in ObservedRows(rows)} \cup {NewEvent(rows, at)}
    BY <1>1, <1>4, <1>5, <2>2 DEF NewEvent
  <2>4. QED
    BY <2>1, <2>3 DEF Events
<1>7. NextSequence(after) = NextSequence(rows) + 1
  <2>1. IsFiniteSet(ObservedRows(rows)) /\ Cardinality(ObservedRows(rows)) \in Nat
    BY ObservedRowsFinite
  <2>2. Cardinality(ObservedRows(rows) \cup {i}) = Cardinality(ObservedRows(rows)) + 1
    BY <1>3, <2>1, FS_AddElement
  <2>3. Len(rows) \in Nat
    OBVIOUS
  <2>4. QED
    BY <1>1, <1>5, <2>1, <2>2, <2>3 DEF NextSequence
<1>8. QED
  BY <1>3, <1>5, <1>6, <1>7 DEF after

\* Every event of a replayed ledger has an ordinal below the next one and an instant the
\* watermark covers.
LEMMA EventBounds ==
  ASSUME NEW rows \in Seq(Row), OrderedHistory(rows)
  PROVE  /\ \A e \in Events(rows) :
              /\ e.sequence \in 0 .. NextSequence(rows) - 1
              /\ e.at \in EventTimes(rows)
              /\ e.at \in Nat
         /\ \A i \in DOMAIN rows : rows[i].sequence \in 0 .. NextSequence(rows) - 1
         /\ \A i \in ObservedRows(rows) :
              rows[i].observation.sequence \in 0 .. NextSequence(rows) - 1
<1>1. \A e \in Events(rows) : e.sequence \in 0 .. NextSequence(rows) - 1
  BY DEF OrderedHistory
<1>2. \A e \in Events(rows) : e.at \in EventTimes(rows)
  BY DEF Events, EventTimes
<1>3. ASSUME NEW e \in Events(rows)
      PROVE  e.at \in Nat
  <2>0. \A i \in DOMAIN rows : rows[i] \in Row
    OBVIOUS
  <2>1. CASE \E i \in DOMAIN rows : e.at = rows[i].reservedAt
    BY <2>0, <2>1, LedgerAssumption DEF Row, LedgerAssumption
  <2>2. CASE \E i \in ObservedRows(rows) : e.at = rows[i].observation.at
    <3>1. PICK i \in ObservedRows(rows) : e.at = rows[i].observation.at
      BY <2>2
    <3>2. rows[i].observation \in Observation
      BY <2>0 DEF ObservedRows, Row
    <3>3. QED
      BY <3>1, <3>2, LedgerAssumption DEF Observation, LedgerAssumption
  <2>3. QED
    BY <2>1, <2>2 DEF Events
<1>4. \A i \in DOMAIN rows :
        [sequence |-> rows[i].sequence, at |-> rows[i].reservedAt] \in Events(rows)
  BY DEF Events
<1>5. \A i \in ObservedRows(rows) :
        [sequence |-> rows[i].observation.sequence, at |-> rows[i].observation.at]
          \in Events(rows)
  BY DEF Events
<1>6. QED
  BY <1>1, <1>2, <1>3, <1>4, <1>5

\* An event that is not before the watermark continues the order of ordinals and instants.
LEMMA OrderContinues ==
  ASSUME NEW rows \in Seq(Row), OrderedHistory(rows), NEW at \in Times,
         NotBeforeWatermark(rows, at)
  PROVE  LET all == Events(rows) \cup {NewEvent(rows, at)} IN
         /\ {e.sequence : e \in all} = 0 .. NextSequence(rows)
         /\ \A e, f \in all : e.sequence < f.sequence => e.at <= f.at
<1> DEFINE N == NextSequence(rows)
           new == NewEvent(rows, at)
           all == Events(rows) \cup {new}
<1>1. N \in Nat /\ at \in Nat
  BY ObservedRowsFinite, LedgerAssumption DEF LedgerAssumption
<1>2. {e.sequence : e \in Events(rows)} = 0 .. N - 1
  BY DEF OrderedHistory
<1>3. new.sequence = N /\ new.at = at
  BY DEF NewEvent
<1>4. \A e \in Events(rows) : e.sequence \in 0 .. N - 1 /\ e.at \in Nat /\ e.at <= at
  BY EventBounds DEF NotBeforeWatermark
<1>5. \A e, f \in Events(rows) : e.sequence < f.sequence => e.at <= f.at
  BY DEF OrderedHistory
<1> HIDE DEF new, N
<1>6. {e.sequence : e \in all} = (0 .. N - 1) \cup {N}
  BY <1>2, <1>3
<1>7. (0 .. N - 1) \cup {N} = 0 .. N
  BY <1>1
<1>8. ASSUME NEW e \in all, NEW f \in all, e.sequence < f.sequence
      PROVE  e.at <= f.at
  <2>1. CASE e \in Events(rows) /\ f \in Events(rows)
    BY <1>5, <1>8, <2>1
  <2>2. CASE e \in Events(rows) /\ f = new
    BY <1>3, <1>4, <2>2
  <2>3. CASE e = new
    <3>1. f = new \/ f.sequence \in 0 .. N - 1
      BY <1>4
    <3>2. ~(N < f.sequence)
      BY <1>1, <1>3, <3>1
    <3>3. QED
      BY <1>3, <1>8, <2>3, <3>2
  <2>4. QED
    BY <2>1, <2>2, <2>3
<1>9. QED
  BY <1>6, <1>7, <1>8 DEF new, N

-----------------------------------------------------------------------------
(* Coherence survives both transitions *)

\* What a row commits is a natural number, and at most its reservation unless it overran.
LEMMA CommittedType ==
  ASSUME NEW row \in Row
  PROVE  /\ Committed(row) \in Nat /\ row.operation.max \in Nat
         /\ ~Overrun(row) => Committed(row) <= row.operation.max
<1>1. row.operation.max \in Nat
  BY LedgerAssumption DEF Row, LedgerAssumption
<1>2. CASE row.observation = Pending \/ row.observation.cost = Unknown
  BY <1>1, <1>2 DEF Committed
<1>3. CASE row.observation # Pending /\ row.observation.cost # Unknown
  <2>1. row.observation \in Observation
    BY <1>3 DEF Row
  <2>2. row.observation.cost \in Nat
    BY <1>3, <2>1, LedgerAssumption DEF Observation, LedgerAssumption
  <2>3. QED
    BY <1>1, <1>3, <2>2 DEF Committed, Overrun
<1>4. QED
  BY <1>2, <1>3

\* The rows of a ledger are finitely many and each holds natural amounts.
LEMMA LedgerAmounts ==
  ASSUME NEW rows \in Seq(Row)
  PROVE  /\ IsFiniteSet(DOMAIN rows)
         /\ \A i \in DOMAIN rows : /\ rows[i] \in Row
                                     /\ Committed(rows[i]) \in Nat
                                     /\ rows[i].operation.max \in Nat
         /\ \A i \in DOMAIN rows : \A s : CommittedAfter(rows, i, s) \in Nat
<1>1. DOMAIN rows = 1 .. Len(rows) /\ Len(rows) \in Nat
  OBVIOUS
<1>2. IsFiniteSet(1 .. Len(rows))
  BY <1>1, FS_Interval
<1>3. \A i \in DOMAIN rows : rows[i] \in Row
  OBVIOUS
<1>4. \A i \in DOMAIN rows : Committed(rows[i]) \in Nat /\ rows[i].operation.max \in Nat
  BY <1>3, CommittedType
<1>5. QED
  BY <1>1, <1>2, <1>3, <1>4 DEF CommittedAfter

\* No ledger within its inventory runs out of ordinals: two for each operation.
LEMMA OrdinalsSuffice ==
  ASSUME NEW rows \in Seq(Row)
  PROVE  /\ NextSequence(rows) <= 2 * Len(rows)
         /\ (\E i \in DOMAIN rows : rows[i].observation = Pending) =>
              NextSequence(rows) <= 2 * Len(rows) - 1
<1>1. Len(rows) \in Nat /\ DOMAIN rows = 1 .. Len(rows)
  OBVIOUS
<1>2. /\ IsFiniteSet(1 .. Len(rows)) /\ Cardinality(1 .. Len(rows)) = Len(rows)
  BY <1>1, FS_Interval
<1>3. ObservedRows(rows) \in SUBSET (1 .. Len(rows))
  BY <1>1 DEF ObservedRows
<1>4. /\ Cardinality(ObservedRows(rows)) \in Nat
      /\ Cardinality(ObservedRows(rows)) <= Len(rows)
  BY <1>2, <1>3, FS_Subset, ObservedRowsFinite
<1>5. ASSUME NEW i \in DOMAIN rows, rows[i].observation = Pending
      PROVE  Cardinality(ObservedRows(rows)) <= Len(rows) - 1
  <2>1. i \notin ObservedRows(rows) /\ i \in 1 .. Len(rows)
    BY <1>1, <1>5 DEF ObservedRows
  <2>2. IsFiniteSet((1 .. Len(rows)) \ {i}) /\
        Cardinality((1 .. Len(rows)) \ {i}) = Len(rows) - 1
    BY <1>2, <2>1, FS_RemoveElement
  <2>3. ObservedRows(rows) \in SUBSET ((1 .. Len(rows)) \ {i})
    BY <1>3, <2>1
  <2>4. QED
    BY <2>2, <2>3, FS_Subset
<1>6. QED
  BY <1>1, <1>4, <1>5 DEF NextSequence

\* The replay accepts the order of a reservation whose clock is not behind.
LEMMA ReserveKeepsOrder ==
  ASSUME NEW rows \in Seq(Row), OrderedHistory(rows), NEW op \in Operations,
         NEW at \in Times, NotBeforeWatermark(rows, at),
         Len(rows) + 1 <= MaxOperations
  PROVE  OrderedHistory(Reserved(rows, op, at))
<1> DEFINE after == Reserved(rows, op, at)
           new == Len(rows) + 1
           N == NextSequence(rows)
<1>0. N \in Nat /\ Len(rows) \in Nat /\ DOMAIN rows = 1 .. Len(rows)
  BY ObservedRowsFinite
<1>1. /\ DOMAIN after = DOMAIN rows \cup {new}
      /\ \A i \in DOMAIN rows : after[i] = rows[i]
      /\ after[new] = [operation |-> op, reservedAt |-> at, sequence |-> N,
                       observation |-> Pending]
      /\ Events(after) = Events(rows) \cup {NewEvent(rows, at)}
      /\ NextSequence(after) = N + 1
      /\ ObservedRows(after) = ObservedRows(rows)
  <2>1. DOMAIN after = DOMAIN rows \cup {new} /\ \A i \in DOMAIN rows : after[i] = rows[i]
    BY DEF Reserved
  <2>2. after[new] = [operation |-> op, reservedAt |-> at, sequence |-> N,
                      observation |-> Pending]
    BY ReservedRows
  <2>3. QED
    BY <2>1, <2>2, ReservedEvents, ReservedObserves
<1>2. after[new].sequence = N
  BY <1>1
<1>3. N <= MaxSequence
  BY <1>0, OrdinalsSuffice, LedgerAssumption DEF LedgerAssumption
<1>4. \A i \in DOMAIN rows : rows[i].sequence \in 0 .. N - 1
  BY EventBounds
<1>5. \A i, j \in DOMAIN rows : i < j => rows[i].sequence < rows[j].sequence
  BY DEF OrderedHistory
<1>6. \A i \in ObservedRows(rows) :
        /\ i \in DOMAIN rows
        /\ rows[i].observation.sequence > rows[i].sequence
        /\ rows[i].observation.at >= rows[i].reservedAt
  BY DEF OrderedHistory, ObservedRows
<1>7. /\ {e.sequence : e \in Events(after)} = 0 .. N
      /\ \A e, f \in Events(after) : e.sequence < f.sequence => e.at <= f.at
  BY <1>1, OrderContinues
<1> HIDE DEF after, N
<1>8. \A i, j \in DOMAIN after : i < j => after[i].sequence < after[j].sequence
  BY <1>0, <1>1, <1>2, <1>4, <1>5
<1>9. \A i \in ObservedRows(after) :
        /\ after[i].observation.sequence > after[i].sequence
        /\ after[i].observation.at >= after[i].reservedAt
  BY <1>1, <1>6
<1>10. NextSequence(after) - 1 = N
  BY <1>0, <1>1
<1>11. QED
  BY <1>3, <1>7, <1>8, <1>9, <1>10 DEF OrderedHistory, after

\* The replay funds a reservation that the ledger in hand can pay for.
LEMMA ReserveKeepsFunding ==
  ASSUME NEW rows \in Seq(Row), OrderedHistory(rows), AuthorizedDispatches(rows),
         NEW op \in Operations, NEW at \in Times, Admits(rows, op, at)
  PROVE  AuthorizedDispatches(Reserved(rows, op, at))
<1> DEFINE after == Reserved(rows, op, at)
           new == Len(rows) + 1
           N == NextSequence(rows)
           earlier(l, s) == {j \in DOMAIN l : l[j].sequence <= s}
           held(l, s) == [j \in DOMAIN l |-> CommittedAfter(l, j, s)]
<1>0. N \in Nat /\ new \notin DOMAIN rows /\ op.max \in Nat
  BY ObservedRowsFinite, LedgerAssumption DEF LedgerAssumption
<1>1. /\ DOMAIN after = DOMAIN rows \cup {new}
      /\ \A i \in DOMAIN rows : after[i] = rows[i]
      /\ after[new] = [operation |-> op, reservedAt |-> at, sequence |-> N,
                       observation |-> Pending]
      /\ ObservedRows(after) = ObservedRows(rows)
  <2>1. DOMAIN after = DOMAIN rows \cup {new} /\ \A i \in DOMAIN rows : after[i] = rows[i]
    BY DEF Reserved
  <2>2. after[new] = [operation |-> op, reservedAt |-> at, sequence |-> N,
                      observation |-> Pending]
    BY ReservedRows
  <2>3. QED
    BY <2>1, <2>2, ReservedObserves
<1>2. /\ after[new].sequence = N /\ after[new].operation.max = op.max
      /\ after[new].reservedAt = at /\ after[new].observation = Pending
  BY <1>1
<1>3. /\ \A i \in DOMAIN rows : rows[i].sequence \in 0 .. N - 1
      /\ \A i \in ObservedRows(rows) : /\ i \in DOMAIN rows
                                         /\ rows[i].observation.sequence \in 0 .. N - 1
  BY EventBounds DEF ObservedRows
<1>4. /\ IsFiniteSet(DOMAIN rows)
      /\ \A i \in DOMAIN rows : /\ Committed(rows[i]) \in Nat
                                  /\ \A s : CommittedAfter(rows, i, s) \in Nat
  BY LedgerAmounts
<1> HIDE DEF after, N
<1>5. \A i \in DOMAIN rows : \A s : CommittedAfter(after, i, s) = CommittedAfter(rows, i, s)
  BY <1>1 DEF CommittedAfter
<1>6. \A s : CommittedAfter(after, new, s) = op.max
  BY <1>0, <1>1, <1>2, <1>3 DEF CommittedAfter
<1>7. ASSUME NEW i \in DOMAIN rows
      PROVE  LET s == rows[i].sequence
             IN  /\ \A j \in ObservedRows(after) :
                      Overrun(after[j]) => after[j].observation.sequence > s
                 /\ after[i].reservedAt < Deadline
                 /\ SumFunctionOnSet(held(after, s), earlier(after, s)) <= MaxCost
  <2> DEFINE s == rows[i].sequence
  <2>1. /\ \A j \in ObservedRows(rows) :
             Overrun(rows[j]) => rows[j].observation.sequence > s
        /\ rows[i].reservedAt < Deadline
        /\ SumFunctionOnSet(held(rows, s), earlier(rows, s)) <= MaxCost
    BY DEF AuthorizedDispatches
  <2>2. earlier(after, s) = earlier(rows, s)
    BY <1>0, <1>1, <1>2, <1>3
  <2>3. IsFiniteSet(earlier(rows, s)) /\ earlier(rows, s) \subseteq DOMAIN rows
    BY <1>4, FS_Subset
  <2>4. \A j \in earlier(rows, s) : /\ held(rows, s)[j] \in Int
                                      /\ held(after, s)[j] = held(rows, s)[j]
    BY <1>1, <1>4, <1>5, <2>3
  <2> HIDE DEF held, earlier
  <2>5. SumFunctionOnSet(held(after, s), earlier(rows, s)) =
        SumFunctionOnSet(held(rows, s), earlier(rows, s))
    BY <2>3, <2>4, SumAgree
  <2>6. QED
    BY <1>1, <1>3, <2>1, <2>2, <2>5
<1>8. /\ \A j \in ObservedRows(after) : Overrun(after[j]) => after[j].observation.sequence > N
      /\ after[new].reservedAt < Deadline
      /\ SumFunctionOnSet(held(after, N), earlier(after, N)) <= MaxCost
  <2>1. \A j \in ObservedRows(after) : ~Overrun(after[j])
    BY <1>1, <1>3 DEF Admits, Breached
  <2>2. earlier(after, N) = DOMAIN rows \cup {new}
    BY <1>0, <1>1, <1>2, <1>3
  <2>3. \A j \in DOMAIN rows : CommittedAfter(after, j, N) = Committed(rows[j])
    <3>1. ASSUME NEW j \in DOMAIN rows
          PROVE  CommittedAfter(rows, j, N) = Committed(rows[j])
      <4>1. CASE j \in ObservedRows(rows)
        <5>1. rows[j].observation.sequence <= N
          BY <1>0, <1>3, <4>1
        <5>2. QED
          BY <4>1, <5>1 DEF CommittedAfter
      <4>2. CASE j \notin ObservedRows(rows)
        BY <4>2 DEF CommittedAfter, Committed, ObservedRows
      <4>3. QED
        BY <4>1, <4>2
    <3>2. QED
      BY <1>5, <3>1
  <2> DEFINE f == held(after, N)
             c == [i \in DOMAIN rows |-> Committed(rows[i])]
  <2>4. /\ \A j \in DOMAIN rows : c[j] \in Int /\ f[j] = c[j] /\ f[j] \in Int
        /\ f[new] = op.max
    BY <1>1, <1>4, <1>6, <2>3
  <2>5. DOMAIN c = DOMAIN rows
    OBVIOUS
  <2>6. SumFunctionOnSet(c, DOMAIN rows) + op.max <= MaxCost
    BY <2>5 DEF Admits, TotalCommitted, SumFunction
  <2> HIDE DEF f, c
  <2>7. SumFunctionOnSet(f, DOMAIN rows) = SumFunctionOnSet(c, DOMAIN rows)
    BY <1>4, <2>4, SumAgree
  <2>8. \A j \in DOMAIN rows \cup {new} : f[j] \in Int
    BY <1>0, <2>4
  <2>9. SumFunctionOnSet(f, DOMAIN rows \cup {new}) =
        SumFunctionOnSet(f, DOMAIN rows) + f[new]
    <3> HIDE DEF new
    <3>1. QED
      BY <1>0, <1>4, <2>8, SumAdd
  <2>10. SumFunctionOnSet(f, DOMAIN rows \cup {new}) <= MaxCost
    BY <2>4, <2>6, <2>7, <2>9
  <2>11. QED
    BY <1>2, <2>1, <2>2, <2>10 DEF f, Admits
<1>9. QED
  BY <1>1, <1>2, <1>7, <1>8 DEF AuthorizedDispatches, after

\* The replay accepts every settlement of a pending row whose clock is not behind: whatever it
\* cost and however late it is, the sums at earlier reservations hold its full reservation.
LEMMA SettlementAccepted ==
  ASSUME NEW rows \in Seq(Row), Coherent(rows), NEW i \in DOMAIN rows,
         rows[i].observation = Pending, NEW cost \in Costs \cup {Unknown},
         NEW result \in Results, NEW at \in Times, NotBeforeWatermark(rows, at)
  PROVE  CanSettle(rows, i, cost, result, at)
<1> DEFINE after == Settled(rows, i, cost, result, at)
           N == NextSequence(rows)
           earlier(l, s) == {j \in DOMAIN l : l[j].sequence <= s}
           held(l, s) == [j \in DOMAIN l |-> CommittedAfter(l, j, s)]
<1>0. /\ N \in Nat /\ i \notin ObservedRows(rows)
      /\ OrderedHistory(rows) /\ AuthorizedDispatches(rows) /\ WithinInventory(rows)
  BY ObservedRowsFinite DEF Coherent, ObservedRows
<1>1. /\ Len(after) = Len(rows) /\ DOMAIN after = DOMAIN rows
      /\ \A j \in DOMAIN rows : j # i => after[j] = rows[j]
      /\ Events(after) = Events(rows) \cup {NewEvent(rows, at)}
      /\ NextSequence(after) = N + 1
      /\ ObservedRows(after) = ObservedRows(rows) \cup {i}
  <2>1. Len(after) = Len(rows) /\ DOMAIN after = DOMAIN rows
    BY DEF Settled
  <2>2. \A j \in DOMAIN rows : j # i => after[j] = rows[j]
    BY DEF Settled
  <2>3. /\ Events(after) = Events(rows) \cup {NewEvent(rows, at)}
        /\ NextSequence(after) = N + 1
        /\ ObservedRows(after) = ObservedRows(rows) \cup {i}
    BY SettledEvents
  <2> HIDE DEF after, N
  <2>4. QED
    BY <2>1, <2>2, <2>3
<1>2. after[i] = [operation |-> rows[i].operation, reservedAt |-> rows[i].reservedAt,
                  sequence |-> rows[i].sequence,
                  observation |-> [cost |-> cost, result |-> result, at |-> at, sequence |-> N]]
  BY SettledRows
<1>3. /\ after[i].operation = rows[i].operation
      /\ after[i].reservedAt = rows[i].reservedAt
      /\ after[i].sequence = rows[i].sequence
      /\ after[i].observation.sequence = N
      /\ after[i].observation.at = at
  BY <1>2
<1>4. /\ \A j \in DOMAIN rows : rows[j].sequence \in 0 .. N - 1
      /\ \A j \in ObservedRows(rows) : /\ j \in DOMAIN rows
                                         /\ rows[j].observation.sequence \in 0 .. N - 1
  BY <1>0, EventBounds DEF ObservedRows
<1>5. /\ IsFiniteSet(DOMAIN rows)
      /\ \A j \in DOMAIN rows : \A s : CommittedAfter(rows, j, s) \in Nat
  BY LedgerAmounts
<1> HIDE DEF after, N
<1>6. /\ \A j \in DOMAIN rows : after[j].operation = rows[j].operation
      /\ \A j \in DOMAIN rows : after[j].sequence = rows[j].sequence
      /\ \A j \in DOMAIN rows : after[j].reservedAt = rows[j].reservedAt
  BY <1>1, <1>3
<1>7. WithinInventory(after)
  <2>1. {j \in DOMAIN after : after[j].operation.kind = "experiment"} =
        {j \in DOMAIN rows : rows[j].operation.kind = "experiment"}
    BY <1>1, <1>6
  <2>2. Len(after) <= MaxOperations
    BY <1>0, <1>1 DEF WithinInventory
  <2>3. \A j, k \in DOMAIN rows : j # k => rows[j].operation.id # rows[k].operation.id
    BY <1>0 DEF WithinInventory
  <2>4. \A j, k \in DOMAIN after : j # k => after[j].operation.id # after[k].operation.id
    BY <1>1, <1>6, <2>3
  <2>5. QED
    BY <1>0, <2>1, <2>2, <2>4 DEF WithinInventory
<1>8. OrderedHistory(after)
  <2>1. /\ {e.sequence : e \in Events(after)} = 0 .. N
        /\ \A e, f \in Events(after) : e.sequence < f.sequence => e.at <= f.at
    BY <1>0, <1>1, OrderContinues DEF N
  <2>2. \A j, k \in DOMAIN after : j < k => after[j].sequence < after[k].sequence
    BY <1>0, <1>1, <1>6 DEF OrderedHistory
  <2>3. N <= MaxSequence
    <3>1. N <= 2 * Len(rows) - 1
      BY OrdinalsSuffice DEF N
    <3>2. Len(rows) <= MaxOperations /\ Len(rows) \in Nat
      BY <1>0 DEF WithinInventory
    <3>3. QED
      BY <1>0, <3>1, <3>2, LedgerAssumption DEF LedgerAssumption
  <2>4. at >= rows[i].reservedAt
    BY DEF NotBeforeWatermark, EventTimes
  <2>5. \A j \in ObservedRows(after) :
          /\ after[j].observation.sequence > after[j].sequence
          /\ after[j].observation.at >= after[j].reservedAt
    <3>1. \A j \in ObservedRows(rows) :
            /\ j \in DOMAIN rows /\ j # i
            /\ rows[j].observation.sequence > rows[j].sequence
            /\ rows[j].observation.at >= rows[j].reservedAt
      BY <1>0, <1>4 DEF OrderedHistory
    <3>2. after[i].observation.sequence > after[i].sequence
      BY <1>0, <1>3, <1>4
    <3>3. QED
      BY <1>1, <1>3, <2>4, <3>1, <3>2
  <2>6. NextSequence(after) - 1 = N
    BY <1>0, <1>1
  <2>7. QED
    BY <2>1, <2>2, <2>3, <2>5, <2>6 DEF OrderedHistory
<1>9. AuthorizedDispatches(after)
  <2>1. SUFFICES ASSUME NEW k \in DOMAIN rows
                 PROVE  LET s == rows[k].sequence
                        IN  /\ \A j \in ObservedRows(after) :
                                 Overrun(after[j]) => after[j].observation.sequence > s
                            /\ rows[k].reservedAt < Deadline
                            /\ SumFunctionOnSet(held(after, s), earlier(after, s)) <= MaxCost
    BY <1>1, <1>6 DEF AuthorizedDispatches
  <2> DEFINE s == rows[k].sequence
  <2>2. s \in 0 .. N - 1
    BY <1>4
  <2>3. /\ \A j \in ObservedRows(rows) :
             Overrun(rows[j]) => rows[j].observation.sequence > s
        /\ rows[k].reservedAt < Deadline
        /\ SumFunctionOnSet(held(rows, s), earlier(rows, s)) <= MaxCost
    BY <1>0 DEF AuthorizedDispatches
  <2>4. \A j \in ObservedRows(after) : Overrun(after[j]) => after[j].observation.sequence > s
    BY <1>0, <1>1, <1>3, <1>4, <2>2, <2>3
  <2>5. earlier(after, s) = earlier(rows, s)
    BY <1>1, <1>6
  <2>6. IsFiniteSet(earlier(rows, s)) /\ earlier(rows, s) \subseteq DOMAIN rows
    BY <1>5, FS_Subset
  <2>7. \A j \in DOMAIN rows : CommittedAfter(after, j, s) = CommittedAfter(rows, j, s)
    <3>1. ~(after[i].observation.sequence <= s)
      BY <1>0, <1>3, <2>2
    <3>2. CommittedAfter(after, i, s) = CommittedAfter(rows, i, s)
      BY <1>0, <1>3, <3>1 DEF CommittedAfter
    <3>3. \A j \in DOMAIN rows : j # i =>
            CommittedAfter(after, j, s) = CommittedAfter(rows, j, s)
      BY <1>1 DEF CommittedAfter
    <3>4. QED
      BY <3>2, <3>3
  <2>8. \A j \in earlier(rows, s) : /\ held(rows, s)[j] \in Int
                                      /\ held(after, s)[j] = held(rows, s)[j]
    BY <1>1, <1>5, <2>6, <2>7
  <2> HIDE DEF held, earlier
  <2>9. SumFunctionOnSet(held(after, s), earlier(rows, s)) =
        SumFunctionOnSet(held(rows, s), earlier(rows, s))
    BY <2>6, <2>8, SumAgree
  <2>10. QED
    BY <2>3, <2>4, <2>5, <2>9
<1>10. QED
  BY <1>7, <1>8, <1>9 DEF CanSettle, Coherent, after

-----------------------------------------------------------------------------
(* The durable budget keeps its ledger well formed. *)

\* NextBudget keeps the ledger well formed: one step per action of the durable budget.
LEMMA BudgetKeepsType ==
  ASSUME LedgerTypeOK, [NextBudget]_ledger
  PROVE  LedgerTypeOK'
<1>1. ASSUME NEW op \in Operations, NEW at \in Times, ReserveOperation(op, at)
      PROVE  LedgerTypeOK'
  BY <1>1, ReserveType DEF LedgerTypeOK, ReserveOperation
<1>2. ASSUME NEW at \in Times, NEW i \in DOMAIN ledger, NEW cost \in Costs \cup {Unknown},
             NEW result \in Results, SettleOperation(i, cost, result, at)
      PROVE  LedgerTypeOK'
  BY <1>2, SettleType DEF LedgerTypeOK, SettleOperation
<1>3. CASE UNCHANGED ledger
  BY <1>3 DEF LedgerTypeOK
<1>4. QED
  BY <1>1, <1>2, <1>3 DEF NextBudget

\* The ledger the durable budget commits is always well formed, within the bounds of the
\* schema it is stored under (postgres_budgets._mutate).
THEOREM LedgerTypeCorrect == BudgetSpec => []LedgerTypeOK
<1>1. InitBudget => LedgerTypeOK
  BY DEF InitBudget, LedgerTypeOK
<1>2. LedgerTypeOK /\ [NextBudget]_ledger => LedgerTypeOK'
  BY BudgetKeepsType
<1>3. QED
  BY <1>1, <1>2, PTL DEF BudgetSpec

-----------------------------------------------------------------------------
(* The refinement needs one fact beyond the types: identities are distinct. *)

DistinctIds ==
  \A i, j \in DOMAIN ledger : i # j => ledger[i].operation.id # ledger[j].operation.id

PromiseInv == LedgerTypeOK /\ DistinctIds

\* Distinct identities are part of what every commit validates (_validate_history).
LEMMA NextKeepsPromiseInv ==
  ASSUME PromiseInv, [NextBudget]_ledger
  PROVE  PromiseInv'
<1>1. LedgerTypeOK'
  BY BudgetKeepsType DEF PromiseInv
<1>2. ASSUME NEW op \in Operations, NEW at \in Times, ReserveOperation(op, at)
      PROVE  DistinctIds'
  <2>1. WithinInventory(Reserved(ledger, op, at))
    BY <1>2 DEF ReserveOperation, CanReserve, Coherent
  <2>2. WithinInventory(ledger')
    BY <1>2, <2>1 DEF ReserveOperation
  <2>3. QED
    BY <2>2 DEF WithinInventory, DistinctIds
<1>3. ASSUME NEW at \in Times, NEW i \in DOMAIN ledger, NEW cost \in Costs \cup {Unknown},
             NEW result \in Results, SettleOperation(i, cost, result, at)
      PROVE  DistinctIds'
  <2>1. WithinInventory(Settled(ledger, i, cost, result, at))
    BY <1>3 DEF SettleOperation, CanSettle, Coherent
  <2>2. WithinInventory(ledger')
    BY <1>3, <2>1 DEF SettleOperation
  <2>3. QED
    BY <2>2 DEF WithinInventory, DistinctIds
<1>4. ASSUME UNCHANGED ledger
      PROVE  DistinctIds'
  BY <1>4 DEF PromiseInv, DistinctIds
<1>5. DistinctIds'
  BY <1>2, <1>3, <1>4 DEF NextBudget
<1>6. QED
  BY <1>1, <1>5 DEF PromiseInv

\* Before the deadline, with no overrun and a clock that is not behind, the budget is open.
LEMMA AdmissionMeansOpen ==
  ASSUME LedgerTypeOK, NEW op \in Operations, NEW at \in Times, Admits(ledger, op, at)
  PROVE  Open
<1> SUFFICES ASSUME NEW i \in DOMAIN ledger
             PROVE  /\ ledger[i].reservedAt < Deadline
                    /\ i \in ObservedRows(ledger) =>
                         /\ ledger[i].observation.at < Deadline
                         /\ ledger[i].observation.cost # Unknown =>
                              ledger[i].observation.cost <= ledger[i].operation.max
  BY DEF Open
<1>0. ledger[i] \in Row /\ at < Deadline /\ at \in Nat /\ Deadline \in Nat
  BY LedgerAssumption DEF LedgerTypeOK, Admits, LedgerAssumption
<1>1. ledger[i].reservedAt < Deadline
  <2>1. ledger[i].reservedAt \in EventTimes(ledger)
    BY DEF EventTimes
  <2>2. ledger[i].reservedAt <= at
    BY <2>1 DEF Admits, NotBeforeWatermark
  <2>3. ledger[i].reservedAt \in Nat
    BY <1>0, LedgerAssumption DEF Row, LedgerAssumption
  <2>4. QED
    BY <1>0, <2>2, <2>3
<1>2. ASSUME i \in ObservedRows(ledger)
      PROVE  ledger[i].observation.at < Deadline
  <2>1. ledger[i].observation.at \in EventTimes(ledger)
    BY <1>2 DEF EventTimes
  <2>2. ledger[i].observation.at <= at
    BY <2>1 DEF Admits, NotBeforeWatermark
  <2>3. ledger[i].observation.at \in Nat
    BY <1>0, <1>2, LedgerAssumption DEF Row, Observation, ObservedRows, LedgerAssumption
  <2>4. QED
    BY <1>0, <2>2, <2>3
<1>3. ASSUME i \in ObservedRows(ledger), ledger[i].observation.cost # Unknown
      PROVE  ledger[i].observation.cost <= ledger[i].operation.max
  <2>1. ~(ledger[i].observation.cost > ledger[i].operation.max)
    BY <1>3 DEF Admits, Breached, Overrun, Committed, ObservedRows
  <2>2. ledger[i].observation.cost \in Nat /\ ledger[i].operation.max \in Nat
    BY <1>0, <1>3, LedgerAssumption DEF Row, Observation, ObservedRows, LedgerAssumption
  <2>3. QED
    BY <2>1, <2>2
<1>4. QED
  BY <1>1, <1>2, <1>3

\* Every reservation is a grant of a new identity by an open budget that stays open.
LEMMA ReserveGrants ==
  ASSUME LedgerTypeOK, NEW op \in Operations, NEW at \in Times, ReserveOperation(op, at)
  PROVE  Promise!Grant(op.id)
<1>0. /\ ledger \in Seq(Row)
      /\ ledger' = Reserved(ledger, op, at)
      /\ Admits(ledger, op, at)
      /\ ~Holds(ledger, op.id)
  BY DEF LedgerTypeOK, ReserveOperation, CanReserve
<1>1. /\ DOMAIN ledger' = DOMAIN ledger \cup {Len(ledger) + 1}
      /\ \A i \in DOMAIN ledger : ledger'[i] = ledger[i]
      /\ Len(ledger) + 1 \notin DOMAIN ledger
  BY <1>0 DEF Reserved
<1>2. ledger'[Len(ledger) + 1] =
        [operation |-> op, reservedAt |-> at, sequence |-> NextSequence(ledger),
         observation |-> Pending]
  BY <1>0 DEF Reserved
<1>3. ObservedRows(ledger') = ObservedRows(ledger)
  BY <1>0, ReservedObserves
<1>4. Open
  BY <1>0, AdmissionMeansOpen
<1>5. op.id \notin Granted
  BY <1>0 DEF Granted, Holds
<1>6. Granted' = Granted \cup {op.id}
  BY <1>1, <1>2 DEF Granted
<1>7. RecordedResults' = RecordedResults
  BY <1>1, <1>3 DEF RecordedResults, ObservedRows
<1>8. Open'
  <2>1. at < Deadline
    BY <1>0 DEF Admits
  <2>2. Len(ledger) + 1 \notin ObservedRows(ledger')
    BY <1>1, <1>3 DEF ObservedRows
  <2>3. QED
    BY <1>1, <1>2, <1>3, <1>4, <2>1, <2>2 DEF Open
<1>9. QED
  BY <1>4, <1>5, <1>6, <1>7, <1>8 DEF Promise!Grant, Open

\* Every settlement records the first result of a granted identity and can only close the
\* budget.
LEMMA SettleRecords ==
  ASSUME PromiseInv, NEW at \in Times, NEW i \in DOMAIN ledger,
         NEW cost \in Costs \cup {Unknown}, NEW result \in Results,
         SettleOperation(i, cost, result, at)
  PROVE  Promise!Record(ledger[i].operation.id, result)
<1> DEFINE id == ledger[i].operation.id
<1>0. /\ ledger \in Seq(Row)
      /\ ledger' = Settled(ledger, i, cost, result, at)
      /\ i \notin ObservedRows(ledger)
      /\ ledger[i] \in Row
  BY DEF PromiseInv, LedgerTypeOK, SettleOperation, CanSettle, ObservedRows
<1>1. /\ DOMAIN ledger' = DOMAIN ledger
      /\ \A j \in DOMAIN ledger : j # i => ledger'[j] = ledger[j]
  BY <1>0 DEF Settled
<1>2. ledger'[i] =
        [operation |-> ledger[i].operation, reservedAt |-> ledger[i].reservedAt,
         sequence |-> ledger[i].sequence,
         observation |-> [cost |-> cost, result |-> result, at |-> at,
                          sequence |-> NextSequence(ledger)]]
  BY <1>0 DEF Settled, Row
<1>3. ObservedRows(ledger') = ObservedRows(ledger) \cup {i}
  BY <1>0, SettleObserves DEF SettleOperation
<1>4. id \in Granted
  BY DEF Granted
<1>5. ASSUME NEW other \in Results
      PROVE  <<id, other>> \notin RecordedResults
  BY <1>0 DEF RecordedResults, PromiseInv, DistinctIds, ObservedRows
<1>6. RecordedResults' = RecordedResults \cup {<<id, result>>}
  <2>1. \A j \in ObservedRows(ledger) : j # i /\ j \in DOMAIN ledger
    BY <1>0 DEF ObservedRows
  <2>2. QED
    BY <1>1, <1>2, <1>3, <2>1 DEF RecordedResults
<1>7. Granted' = Granted
  BY <1>1, <1>2 DEF Granted
<1>8. Open' \in {Open, FALSE}
  <2>1. Open' => Open
    BY <1>0, <1>1, <1>2, <1>3 DEF Open
  <2>2. Open' \in BOOLEAN /\ Open \in BOOLEAN
    BY DEF Open
  <2>3. QED
    BY <2>1, <2>2
<1>9. QED
  BY <1>4, <1>5, <1>6, <1>7, <1>8 DEF Promise!Record

\* Every step of the durable budget is a step of the promise or leaves it alone.
LEMMA NextKeepsPromise ==
  ASSUME PromiseInv, [NextBudget]_ledger
  PROVE  [Promise!Next]_<<Granted, RecordedResults, Open>>
<1>1. ASSUME NEW op \in Operations, NEW at \in Times, ReserveOperation(op, at)
      PROVE  Promise!Next
  <2>1. Promise!Grant(op.id)
    BY <1>1, ReserveGrants DEF PromiseInv
  <2>2. QED
    BY <2>1 DEF Promise!Next, OperationIds
<1>2. ASSUME NEW at \in Times, NEW i \in DOMAIN ledger, NEW cost \in Costs \cup {Unknown},
             NEW result \in Results, SettleOperation(i, cost, result, at)
      PROVE  Promise!Next
  <2>1. Promise!Record(ledger[i].operation.id, result)
    BY <1>2, SettleRecords
  <2>2. ledger[i] \in Row
    BY DEF PromiseInv, LedgerTypeOK
  <2>3. ledger[i].operation \in Operations
    BY <2>2 DEF Row
  <2>4. QED
    BY <2>1, <2>3 DEF Promise!Next, OperationIds
<1>3. CASE UNCHANGED ledger
  BY <1>3 DEF Granted, RecordedResults, Open, ObservedRows
<1>4. QED
  BY <1>1, <1>2, <1>3 DEF NextBudget

\* The durable budget implements BudgetPromise: an identity is granted once, its first
\* result is final, and a budget that closed never authorizes another dispatch.
THEOREM PromiseKept == BudgetSpec => KeepsPromise
<1>1. InitBudget => PromiseInv
  BY DEF InitBudget, PromiseInv, LedgerTypeOK, DistinctIds
<1>2. PromiseInv /\ [NextBudget]_ledger => PromiseInv'
  BY NextKeepsPromiseInv
<1>3. InitBudget => Promise!Init
  BY DEF InitBudget, Promise!Init, Granted, RecordedResults, Open, ObservedRows
<1>4. PromiseInv /\ [NextBudget]_ledger => [Promise!Next]_<<Granted, RecordedResults, Open>>
  BY NextKeepsPromise
<1>5. QED
  BY <1>1, <1>2, <1>3, <1>4, PTL DEF BudgetSpec, KeepsPromise, Promise!Spec

-----------------------------------------------------------------------------
(* The ledger is coherent, and its hand-written rules agree with its replay. *)

CoherentInv == LedgerTypeOK /\ Coherent(ledger)

\* Every commit is validated, so that what is loaded was validated (coherent_history).
LEMMA CoherenceInvariant == BudgetSpec => []CoherentInv
<1>1. InitBudget => CoherentInv
  <2>1. SUFFICES ASSUME InitBudget PROVE CoherentInv
    OBVIOUS
  <2>2. ledger = <<>> /\ DOMAIN ledger = {} /\ Len(ledger) = 0
    BY <2>1 DEF InitBudget
  <2>3. /\ ObservedRows(ledger) = {} /\ Events(ledger) = {}
        /\ {i \in DOMAIN ledger : ledger[i].operation.kind = "experiment"} = {}
    BY <2>2 DEF ObservedRows, Events
  <2>4. Cardinality({}) = 0
    BY FS_EmptySet
  <2>5. NextSequence(ledger) = 0
    BY <2>2, <2>3, <2>4 DEF NextSequence
  <2>6. /\ MaxOperations \in Nat /\ MaxExperiments \in Nat /\ MaxSequence \in Nat
    BY LedgerAssumption DEF LedgerAssumption
  <2>7. WithinInventory(ledger)
    BY <2>2, <2>3, <2>4, <2>6 DEF WithinInventory
  <2>8. OrderedHistory(ledger)
    BY <2>2, <2>3, <2>5, <2>6 DEF OrderedHistory
  <2>9. AuthorizedDispatches(ledger)
    BY <2>2 DEF AuthorizedDispatches
  <2>10. QED
    BY <2>2, <2>7, <2>8, <2>9 DEF CoherentInv, LedgerTypeOK, Coherent
<1>2. CoherentInv /\ [NextBudget]_ledger => CoherentInv'
  <2>1. SUFFICES ASSUME CoherentInv, [NextBudget]_ledger PROVE CoherentInv'
    OBVIOUS
  <2>2. LedgerTypeOK'
    BY <2>1, BudgetKeepsType DEF CoherentInv
  <2>3. Coherent(ledger')
    BY <2>1 DEF CoherentInv, NextBudget, ReserveOperation, CanReserve, SettleOperation, CanSettle
  <2>4. QED
    BY <2>2, <2>3 DEF CoherentInv
<1>3. QED
  BY <1>1, <1>2, PTL DEF BudgetSpec

\* For every budget: work that was dispatched can be recorded, however late and whatever it
\* cost, unless its clock is behind (budgets.settle).
THEOREM CompletionIsRecordable == BudgetSpec => []CompletionRecordable
<1>1. CoherentInv => CompletionRecordable
  <2>1. SUFFICES ASSUME CoherentInv, NEW i \in DOMAIN ledger \ ObservedRows(ledger),
                        NEW cost \in Costs \cup {Unknown}, NEW result \in Results,
                        NEW at \in Times, NotBeforeWatermark(ledger, at)
                 PROVE  CanSettle(ledger, i, cost, result, at)
    BY DEF CompletionRecordable
  <2>2. i \in DOMAIN ledger /\ ledger[i].observation = Pending
    BY DEF ObservedRows
  <2>3. QED
    BY <2>1, <2>2, SettlementAccepted DEF CoherentInv, LedgerTypeOK
<1>2. QED
  BY <1>1, CoherenceInvariant, PTL

\* For every budget: what reserve() tests by hand is what the replay of the ledger it builds
\* asks for, apart from the limits of the inventory.
THEOREM AdmissionIsReplay == BudgetSpec => []AdmissionAgreesWithReplay
<1>1. CoherentInv => AdmissionAgreesWithReplay
  <2>1. SUFFICES ASSUME CoherentInv, NEW op \in Operations, NEW at \in Times,
                        Admits(ledger, op, at), WithinInventory(Reserved(ledger, op, at))
                 PROVE  /\ OrderedHistory(Reserved(ledger, op, at))
                        /\ AuthorizedDispatches(Reserved(ledger, op, at))
    BY DEF AdmissionAgreesWithReplay
  <2>2. /\ ledger \in Seq(Row) /\ OrderedHistory(ledger) /\ AuthorizedDispatches(ledger)
        /\ NotBeforeWatermark(ledger, at)
    BY <2>1 DEF CoherentInv, LedgerTypeOK, Coherent, Admits
  <2>3. Len(ledger) + 1 <= MaxOperations
    <3>1. Len(Reserved(ledger, op, at)) = Len(ledger) + 1
      BY <2>2 DEF Reserved
    <3>2. QED
      BY <2>1, <3>1 DEF WithinInventory
  <2>4. QED
    BY <2>1, <2>2, <2>3, ReserveKeepsOrder, ReserveKeepsFunding
<1>2. QED
  BY <1>1, CoherenceInvariant, PTL

-----------------------------------------------------------------------------
(* The planned spend *)

\* The planned charge of a row is at most its reservation, and at most what it commits.
LEMMA PlannedChargeBounds ==
  ASSUME NEW row \in Row
  PROVE  /\ PlannedCharge(row) \in Nat
         /\ PlannedCharge(row) <= row.operation.max
         /\ PlannedCharge(row) <= Committed(row)
         /\ row.observation = Pending => PlannedCharge(row) = row.operation.max
<1>1. row.operation.max \in Nat /\ Committed(row) \in Nat
  BY CommittedType
<1>2. CASE row.observation = Pending \/ row.observation.cost = Unknown
  BY <1>1, <1>2 DEF PlannedCharge, Committed
<1>3. CASE row.observation # Pending /\ row.observation.cost # Unknown
  <2>1. Committed(row) = row.observation.cost
    BY <1>3 DEF Committed
  <2>2. PlannedCharge(row) = Min({Committed(row), row.operation.max})
    BY <1>3, <2>1 DEF PlannedCharge
  <2>3. ASSUME NEW a \in Nat, NEW b \in Nat
        PROVE  Min({a, b}) \in {a, b} /\ Min({a, b}) <= a /\ Min({a, b}) <= b
    <3>1. \E x \in {a, b} : \A y \in {a, b} : x <= y
      OBVIOUS
    <3>2. Min({a, b}) \in {a, b} /\ \A y \in {a, b} : Min({a, b}) <= y
      BY <3>1 DEF Min
    <3>3. QED
      BY <3>2
  <2>4. QED
    BY <1>1, <1>3, <2>2, <2>3
<1>4. QED
  BY <1>2, <1>3

Planned(l) == [i \in DOMAIN l |-> PlannedCharge(l[i])]

\* A reservation plans its worst case on top of what the ledger commits to.
LEMMA ReservePlans ==
  ASSUME LedgerTypeOK, NEW op \in Operations, NEW at \in Times, ReserveOperation(op, at)
  PROVE  PlannedSpendWithinBudget'
<1> DEFINE new == Len(ledger) + 1
           c == [i \in DOMAIN ledger |-> Committed(ledger[i])]
           f == Planned(ledger')
<1>1. /\ ledger \in Seq(Row) /\ ledger' \in Seq(Row)
      /\ ledger' = Reserved(ledger, op, at) /\ Admits(ledger, op, at)
      /\ op.max \in Nat
  BY BudgetKeepsType, LedgerAssumption
     DEF LedgerTypeOK, ReserveOperation, CanReserve, LedgerAssumption, NextBudget
<1>2. /\ DOMAIN ledger' = DOMAIN ledger \cup {new} /\ new \notin DOMAIN ledger
      /\ \A i \in DOMAIN ledger : ledger'[i] = ledger[i]
  BY <1>1 DEF Reserved
<1>3. ledger'[new] = [operation |-> op, reservedAt |-> at, sequence |-> NextSequence(ledger),
                      observation |-> Pending]
  BY <1>1 DEF Reserved
<1>4. ledger'[new].operation.max = op.max /\ ledger'[new].observation = Pending
  BY <1>3
<1>5. /\ IsFiniteSet(DOMAIN ledger)
      /\ \A i \in DOMAIN ledger : ledger[i] \in Row /\ Committed(ledger[i]) \in Nat
      /\ \A i \in DOMAIN ledger' : ledger'[i] \in Row
  BY <1>1, LedgerAmounts
<1>6. \A i \in DOMAIN ledger' : f[i] \in Int /\ f[i] = PlannedCharge(ledger'[i])
  BY <1>5, PlannedChargeBounds DEF Planned
<1>7. f[new] = op.max
  <2> HIDE DEF new, f
  <2>1. QED
    BY <1>2, <1>4, <1>5, <1>6, PlannedChargeBounds DEF PlannedCharge
<1>8. \A i \in DOMAIN ledger : c[i] \in Int /\ f[i] \in Int /\ f[i] <= c[i]
  BY <1>2, <1>5, <1>6, PlannedChargeBounds
<1>9. DOMAIN c = DOMAIN ledger /\ DOMAIN f = DOMAIN ledger'
  BY DEF Planned
<1>10. SumFunctionOnSet(c, DOMAIN ledger) + op.max <= MaxCost
  BY <1>1, <1>9 DEF Admits, TotalCommitted, SumFunction
<1> HIDE DEF f, c, new
<1>11. SumFunctionOnSet(f, DOMAIN ledger) <= SumFunctionOnSet(c, DOMAIN ledger)
  BY <1>5, <1>8, SumMonotonic
<1>12. SumFunctionOnSet(f, DOMAIN ledger') = SumFunctionOnSet(f, DOMAIN ledger) + op.max
  BY <1>2, <1>5, <1>6, <1>7, SumAdd
<1>13. SumFunctionOnSet(f, DOMAIN ledger) \in Int /\ SumFunctionOnSet(c, DOMAIN ledger) \in Int
  BY <1>5, <1>8, SumType
<1>14. SumFunctionOnSet(f, DOMAIN ledger') <= MaxCost
  BY <1>1, <1>10, <1>11, <1>12, <1>13, LedgerAssumption DEF LedgerAssumption
<1>15. QED
  BY <1>9, <1>14 DEF PlannedSpendWithinBudget, SumFunction, f, Planned

\* A settlement never plans more than the reservation it settles.
LEMMA SettlePlans ==
  ASSUME LedgerTypeOK, PlannedSpendWithinBudget, NEW at \in Times, NEW k \in DOMAIN ledger,
         NEW cost \in Costs \cup {Unknown}, NEW result \in Results,
         SettleOperation(k, cost, result, at)
  PROVE  PlannedSpendWithinBudget'
<1> DEFINE f == Planned(ledger)
           g == Planned(ledger')
<1>1. /\ ledger \in Seq(Row) /\ ledger' \in Seq(Row)
      /\ ledger' = Settled(ledger, k, cost, result, at)
      /\ ledger[k].observation = Pending
  BY BudgetKeepsType DEF LedgerTypeOK, SettleOperation, CanSettle, NextBudget
<1>2. /\ DOMAIN ledger' = DOMAIN ledger
      /\ \A i \in DOMAIN ledger : i # k => ledger'[i] = ledger[i]
  BY <1>1 DEF Settled
<1>3. ledger'[k].operation = ledger[k].operation
  <2>1. ledger[k] \in Row
    BY <1>1
  <2>2. QED
    BY <1>1, <2>1 DEF Settled, Row
<1>4. /\ IsFiniteSet(DOMAIN ledger)
      /\ \A i \in DOMAIN ledger : ledger[i] \in Row /\ ledger'[i] \in Row
  BY <1>1, <1>2, LedgerAmounts
<1>5. \A i \in DOMAIN ledger : /\ f[i] = PlannedCharge(ledger[i]) /\ f[i] \in Int
                               /\ g[i] = PlannedCharge(ledger'[i]) /\ g[i] \in Int
  BY <1>2, <1>4, PlannedChargeBounds DEF Planned
<1>6. ASSUME NEW i \in DOMAIN ledger
      PROVE  g[i] <= f[i]
  <2>1. CASE i = k
    <3>1. PlannedCharge(ledger'[k]) <= ledger[k].operation.max
      BY <1>3, <1>4, PlannedChargeBounds
    <3>2. PlannedCharge(ledger[k]) = ledger[k].operation.max
      BY <1>1, <1>4, PlannedChargeBounds
    <3>3. QED
      BY <1>5, <2>1, <3>1, <3>2
  <2>2. CASE i # k
    <3>1. g[i] = f[i]
      BY <1>2, <1>5, <2>2
    <3>2. QED
      BY <1>5, <3>1
  <2>3. QED
    BY <2>1, <2>2
<1>7. DOMAIN f = DOMAIN ledger /\ DOMAIN g = DOMAIN ledger
  BY <1>2 DEF Planned
<1>8. SumFunctionOnSet(f, DOMAIN ledger) <= MaxCost
  BY <1>7 DEF PlannedSpendWithinBudget, SumFunction, Planned
<1> HIDE DEF f, g
<1>9. /\ SumFunctionOnSet(g, DOMAIN ledger) <= SumFunctionOnSet(f, DOMAIN ledger)
      /\ SumFunctionOnSet(g, DOMAIN ledger) \in Int /\ SumFunctionOnSet(f, DOMAIN ledger) \in Int
  BY <1>4, <1>5, <1>6, SumMonotonic, SumType
<1>10. SumFunctionOnSet(g, DOMAIN ledger) <= MaxCost
  BY <1>8, <1>9, LedgerAssumption DEF LedgerAssumption
<1>11. QED
  BY <1>7, <1>10 DEF PlannedSpendWithinBudget, SumFunction, g, Planned

\* For every budget: counting unresolved charges in full and an overrun up to what was
\* reserved, a run never spends more than its limit.
THEOREM PlannedSpendIsBounded == BudgetSpec => []PlannedSpendWithinBudget
<1>1. InitBudget => PlannedSpendWithinBudget
  <2>1. SUFFICES ASSUME InitBudget PROVE PlannedSpendWithinBudget
    OBVIOUS
  <2>2. DOMAIN Planned(ledger) = {}
    BY <2>1 DEF InitBudget, Planned
  <2>3. SumFunction(Planned(ledger)) = 0
    BY <2>2, SumEmpty DEF SumFunction
  <2>4. QED
    BY <2>3, LedgerAssumption DEF PlannedSpendWithinBudget, Planned, LedgerAssumption
<1>2. LedgerTypeOK /\ PlannedSpendWithinBudget /\ [NextBudget]_ledger => PlannedSpendWithinBudget'
  BY ReservePlans, SettlePlans DEF NextBudget, PlannedSpendWithinBudget
<1>3. QED
  BY <1>1, <1>2, LedgerTypeCorrect, PTL DEF BudgetSpec

=============================================================================
