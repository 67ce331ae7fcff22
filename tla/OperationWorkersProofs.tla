------------------------ MODULE OperationWorkersProofs ----------------------
(***************************************************************************)
(* Theorems about the workers for every number of processes, every set of  *)
(* operations and every clock: types, single execution, stable answers, a  *)
(* bounded bill, and that transactions which read and write the ledger in  *)
(* separate steps implement the serial ledger of RunBudget.                *)
(***************************************************************************)
EXTENDS OperationWorkers, RunBudgetProofs

\* The charge a worker reports is one the ledger knows.
LEMMA SettledCostType ==
  ASSUME NEW op
  PROVE  SettledCost(op) \in Costs \cup {Unknown}
  BY WorkersAssumption DEF WorkersAssumption, SettledCost

\* Executing keeps every type.
LEMMA CallKeepsType ==
  ASSUME TypeOK, NEW w \in Workers, Call(w)
  PROVE  TypeOK'
<1>1. /\ calls' = [calls EXCEPT ![worker[w].op.id] = @ + 1]
      /\ worker[w].pc = "dispatched"
      /\ UNCHANGED <<ledger, artifacts, locked, seen, answers>>
  BY DEF Call
<1>2. PICK result \in Results :
        worker' = [worker EXCEPT ![w].pc = "called", ![w].result = result]
  BY DEF Call
<1>3. calls \in [OperationIds -> Nat]
  BY DEF TypeOK, LedgerTypeOK
<1>4. calls' \in [OperationIds -> Nat]
  <2>1. worker[w].op.id \in OperationIds
    BY <1>1 DEF TypeOK, LedgerTypeOK, OperationIds
  <2>2. calls[worker[w].op.id] + 1 \in Nat
    BY <1>3, <2>1
  <2>3. QED
    BY <1>1, <1>3, <2>2
<1>5. /\ worker' \in [Workers -> WorkerState]
      /\ \A v \in Workers :
           /\ worker'[v].pc # "idle" => worker'[v].op \in Operations /\ worker'[v].at \in Times
           /\ worker'[v].pc \in {"called", "settling", "recording"} => worker'[v].result \in Results
  BY <1>1, <1>2 DEF TypeOK, LedgerTypeOK, WorkerState
<1>6. QED
  BY <1>1, <1>4, <1>5 DEF TypeOK, LedgerTypeOK

\* The end of a transaction keeps the types of the locks and of what was read.
LEMMA UnlockKeepsType ==
  ASSUME TypeOK, NEW w \in Workers, Unlock(w)
  PROVE  locked' \subseteq Workers /\ seen' \in [Workers -> Seq(Row)]
BY DEF TypeOK, LedgerTypeOK, Unlock

\* A worker's steps before and after its ledger steps keep every type.
LEMMA LocalStepsKeepType ==
  ASSUME TypeOK, NEW w \in Workers,
         \/ \E op \in Operations, at \in Times : Deliver(w, op, at)
         \/ Refuse(w)
         \/ Call(w)
         \/ \E at \in Times : StoreResult(w, at)
         \/ LockAndRead(w)
         \/ LoseSettlement(w)
         \/ Crash(w)
  PROVE  TypeOK'
<1> USE DEF TypeOK, LedgerTypeOK, WorkerState, Idle
<1>1. ASSUME NEW op \in Operations, NEW at \in Times, Deliver(w, op, at)
      PROVE  TypeOK'
  BY <1>1 DEF Deliver
<1>2. CASE Refuse(w)
  BY <1>2, UnlockKeepsType DEF Refuse, Release
<1>3. CASE Call(w)
  BY <1>3, CallKeepsType
<1>4. ASSUME NEW at \in Times, StoreResult(w, at)
      PROVE  TypeOK'
  BY <1>4 DEF StoreResult
<1>5. CASE LoseSettlement(w)
  BY <1>5, UnlockKeepsType DEF LoseSettlement, Release
<1>6. CASE Crash(w)
  BY <1>6, UnlockKeepsType DEF Crash, Release
<1>7. CASE LockAndRead(w)
  BY <1>7 DEF LockAndRead
<1>8. QED
  BY <1>1, <1>2, <1>3, <1>4, <1>5, <1>6, <1>7

\* Dispatching keeps every type.
LEMMA DispatchKeepsType ==
  ASSUME TypeOK, NEW w \in Workers, Dispatch(w)
  PROVE  TypeOK'
<1>1. /\ worker[w].op \in Operations
      /\ worker[w].at \in Times
      /\ seen[w] \in Seq(Row)
  BY DEF TypeOK, LedgerTypeOK, Dispatch
<1>2. ledger' \in Seq(Row)
  BY <1>1, ReserveType DEF Dispatch
<1>3. worker' \in [Workers -> WorkerState]
  BY DEF TypeOK, LedgerTypeOK, Dispatch, WorkerState
<1>4. QED
  BY <1>1, <1>2, <1>3, UnlockKeepsType DEF TypeOK, LedgerTypeOK, Dispatch, WorkerState

\* Answering from a settled row keeps every type.
LEMMA RecoverKeepsType ==
  ASSUME TypeOK, NEW w \in Workers, Recover(w)
  PROVE  TypeOK'
<1>0. seen[w] \in Seq(Row)
  BY DEF TypeOK
<1>1. PICK i \in RowOf(seen[w], worker[w].op) \cap ObservedRows(seen[w]) :
        answers' = [answers EXCEPT ![worker[w].op.id] =
                      @ \cup {seen[w][i].observation.result}]
  BY DEF Recover
<1>2. seen[w][i] \in Row /\ seen[w][i].observation # Pending
  BY <1>0, <1>1 DEF RowOf, ObservedRows
<1>3. seen[w][i].observation.result \in Results
  BY <1>2 DEF Row, Observation
<1>4. answers' \in [OperationIds -> SUBSET Results]
  BY <1>1, <1>3 DEF TypeOK, LedgerTypeOK
<1>5. QED
  BY <1>4, UnlockKeepsType DEF TypeOK, LedgerTypeOK, Recover, Release, WorkerState, Idle

\* Settling keeps every type.
LEMMA SettleKeepsType ==
  ASSUME TypeOK, NEW w \in Workers, Settle(w)
  PROVE  TypeOK'
<1>1. /\ worker[w].op \in Operations
      /\ worker[w].at \in Times
      /\ worker[w].result \in Results
      /\ seen[w] \in Seq(Row)
  BY DEF TypeOK, LedgerTypeOK, Settle
<1>2. PICK i \in RowOf(seen[w], worker[w].op) :
        /\ CanSettle(seen[w], i, SettledCost(worker[w].op), worker[w].result, worker[w].at)
        /\ ledger' = Settled(seen[w], i, SettledCost(worker[w].op), worker[w].result,
                             worker[w].at)
  BY DEF Settle
<1>3. i \in DOMAIN seen[w]
  BY DEF RowOf
<1>4. SettledCost(worker[w].op) \in Costs \cup {Unknown}
  BY SettledCostType
<1>5. ledger' \in Seq(Row)
  BY <1>1, <1>2, <1>3, <1>4, SettleType
<1>6. answers' \in [OperationIds -> SUBSET Results]
  BY <1>1 DEF TypeOK, LedgerTypeOK, Settle
<1>7. QED
  BY <1>5, <1>6, UnlockKeepsType
     DEF TypeOK, LedgerTypeOK, Settle, Release, WorkerState, Idle

\* No step of any worker breaks a type.
LEMMA NextKeepsType ==
  ASSUME TypeOK, [Next]_vars
  PROVE  TypeOK'
<1>1. CASE UNCHANGED vars
  BY <1>1 DEF vars, TypeOK, LedgerTypeOK
<1>2. CASE Next
  BY <1>2, LocalStepsKeepType, DispatchKeepsType, RecoverKeepsType, SettleKeepsType DEF Next
<1>3. QED
  BY <1>1, <1>2

\* Every process, the ledger, the retained results and the answers keep their types.
THEOREM TypeCorrect == Spec => []TypeOK
<1>1. Init => TypeOK
  BY DEF Init, InitBudget, TypeOK, LedgerTypeOK, WorkerState, Idle
<1>2. TypeOK /\ [Next]_vars => TypeOK'
  BY NextKeepsType
<1>3. QED
  BY <1>1, <1>2, PTL DEF Spec

-----------------------------------------------------------------------------
(* One transaction at a time: what a transaction read is still the ledger when it writes. *)

InTransaction(w) == worker[w].pc \in {"admitting", "recording"}

\* The row lock has one holder, and the ledger its transaction read is the present one.
Serialized == \A w \in Workers : InTransaction(w) => locked = {w} /\ seen[w] = ledger

SerialInv == TypeOK /\ Serialized

\* A step of a worker that holds the lock, or of one that does not and leaves the ledger alone,
\* takes the lock from nobody else.
LEMMA UnlockKeepsSerialized ==
  ASSUME SerialInv, NEW w \in Workers, Unlock(w), ~InTransaction(w)',
         \A v \in Workers \ {w} : worker'[v] = worker[v],
         InTransaction(w) \/ ledger' = ledger
  PROVE  Serialized'
<1> SUFFICES ASSUME NEW v \in Workers, InTransaction(v)'
             PROVE  locked' = {v} /\ seen'[v] = ledger'
  BY DEF Serialized
<1>1. v # w /\ InTransaction(v)
  BY DEF InTransaction
<1>2. locked = {v} /\ seen[v] = ledger
  BY <1>1 DEF SerialInv, Serialized
<1>3. ~InTransaction(w)
  BY <1>1, <1>2 DEF SerialInv, Serialized
<1>4. seen'[v] = seen[v] /\ locked' = locked \ {w}
  BY <1>1 DEF Unlock, SerialInv, TypeOK
<1>5. QED
  BY <1>1, <1>2, <1>3, <1>4

\* Every step of every worker keeps transactions apart.
LEMMA NextKeepsSerialized ==
  ASSUME SerialInv, [Next]_vars
  PROVE  SerialInv'
<1>0. TypeOK /\ Serialized /\ TypeOK'
  BY NextKeepsType DEF SerialInv
<1>1. CASE UNCHANGED vars
  BY <1>0, <1>1 DEF vars, SerialInv, Serialized, InTransaction
<1>2. ASSUME NEW w \in Workers, LockAndRead(w)
      PROVE  Serialized'
  <2> SUFFICES ASSUME NEW v \in Workers, InTransaction(v)'
               PROVE  locked' = {v} /\ seen'[v] = ledger'
    BY DEF Serialized
  <2>1. \A u \in Workers : ~InTransaction(u)
    BY <1>0, <1>2 DEF LockAndRead, Serialized
  <2>0. \A u \in Workers \ {w} : worker'[u] = worker[u]
    BY <1>0, <1>2 DEF LockAndRead, TypeOK
  <2>2. v = w
    BY <2>0, <2>1 DEF InTransaction
  <2>3. QED
    BY <1>0, <1>2, <2>2 DEF LockAndRead, TypeOK
<1>3. ASSUME NEW w \in Workers, NEW op \in Operations, NEW at \in Times,
             Deliver(w, op, at) \/ Call(w) \/ StoreResult(w, at)
      PROVE  Serialized'
  <2>1. /\ ledger' = ledger /\ locked' = locked /\ seen' = seen
        /\ \A v \in Workers : InTransaction(v)' => InTransaction(v)
    <3>1. CASE Deliver(w, op, at)
      BY <1>0, <3>1 DEF Deliver, TypeOK, WorkerState, Idle, InTransaction
    <3>2. CASE Call(w)
      BY <1>0, <3>2 DEF Call, TypeOK, WorkerState, InTransaction
    <3>3. CASE StoreResult(w, at)
      BY <1>0, <3>3 DEF StoreResult, TypeOK, WorkerState, InTransaction
    <3>4. QED
      BY <1>3, <3>1, <3>2, <3>3
  <2>2. QED
    BY <1>0, <2>1 DEF Serialized
<1>4. ASSUME NEW w \in Workers,
             \/ Dispatch(w) \/ Refuse(w) \/ Recover(w) \/ Settle(w)
             \/ LoseSettlement(w) \/ Crash(w)
      PROVE  Serialized'
  <2>1. /\ InTransaction(w) \/ ledger' = ledger
        /\ worker' = [worker EXCEPT ![w].pc = "dispatched"] \/ worker' = [worker EXCEPT ![w] = Idle]
    BY <1>4 DEF Dispatch, Refuse, Recover, Settle, LoseSettlement, Crash, Release, InTransaction
  <2>2. Unlock(w)
    BY <1>4 DEF Dispatch, Refuse, Recover, Settle, LoseSettlement, Crash, Release
  <2>3. ~InTransaction(w)' /\ \A v \in Workers \ {w} : worker'[v] = worker[v]
    BY <1>0, <2>1 DEF TypeOK, WorkerState, Idle, InTransaction
  <2>4. QED
    BY <2>1, <2>2, <2>3, UnlockKeepsSerialized
<1>5. CASE Next
  <2>1. PICK w \in Workers :
          \/ \E op \in Operations, at \in Times : Deliver(w, op, at)
          \/ LockAndRead(w) \/ Dispatch(w) \/ Refuse(w) \/ Recover(w) \/ Call(w)
          \/ \E at \in Times : StoreResult(w, at)
          \/ Settle(w) \/ LoseSettlement(w) \/ Crash(w)
    BY <1>5 DEF Next
  <2>2. CASE \E op \in Operations, at \in Times : Deliver(w, op, at)
    BY <1>0, <1>3, <2>2 DEF SerialInv
  <2>3. CASE LockAndRead(w)
    BY <1>0, <1>2, <2>3 DEF SerialInv
  <2>4. CASE Call(w)
    <3>1. worker[w].op \in Operations /\ worker[w].at \in Times
      BY <1>0, <2>4 DEF Call, TypeOK
    <3>2. QED
      BY <1>0, <1>3, <2>4, <3>1 DEF SerialInv
  <2>5. CASE \E at \in Times : StoreResult(w, at)
    <3>1. worker[w].op \in Operations
      BY <1>0, <2>5 DEF StoreResult, TypeOK
    <3>2. QED
      BY <1>0, <1>3, <2>5, <3>1 DEF SerialInv
  <2>6. CASE \/ Dispatch(w) \/ Refuse(w) \/ Recover(w) \/ Settle(w)
             \/ LoseSettlement(w) \/ Crash(w)
    BY <1>0, <1>4, <2>6 DEF SerialInv
  <2>7. QED
    BY <2>1, <2>2, <2>3, <2>4, <2>5, <2>6
<1>6. QED
  BY <1>0, <1>1, <1>5 DEF SerialInv

\* Transactions on the ledger of a run never overlap.
THEOREM TransactionsAreSerial == Spec => []SerialInv
<1>1. Init => SerialInv
  BY DEF Init, InitBudget, SerialInv, TypeOK, LedgerTypeOK, WorkerState, Idle, Serialized,
     InTransaction
<1>2. SerialInv /\ [Next]_vars => SerialInv'
  BY NextKeepsSerialized
<1>3. QED
  BY <1>1, <1>2, PTL DEF Spec

\* A dispatch is a reservation in the present ledger.
LEMMA DispatchReserves ==
  ASSUME SerialInv, NEW w \in Workers, Dispatch(w)
  PROVE  /\ worker[w].op \in Operations /\ worker[w].at \in Times
         /\ CanReserve(ledger, worker[w].op, worker[w].at)
         /\ ledger' = Reserved(ledger, worker[w].op, worker[w].at)
<1>1. seen[w] = ledger
  BY DEF Dispatch, SerialInv, Serialized, InTransaction
<1>2. QED
  BY <1>1 DEF Dispatch, SerialInv, TypeOK

\* A settlement observes a row of the present ledger.
LEMMA SettleObservesRow ==
  ASSUME SerialInv, NEW w \in Workers, Settle(w)
  PROVE  /\ worker[w].op \in Operations /\ worker[w].at \in Times
         /\ worker[w].result \in Results
         /\ \E i \in RowOf(ledger, worker[w].op) :
              /\ CanSettle(ledger, i, SettledCost(worker[w].op), worker[w].result, worker[w].at)
              /\ ledger' = Settled(ledger, i, SettledCost(worker[w].op), worker[w].result,
                                   worker[w].at)
<1>1. seen[w] = ledger
  BY DEF Settle, SerialInv, Serialized, InTransaction
<1>2. QED
  BY <1>1 DEF Settle, SerialInv, TypeOK

-----------------------------------------------------------------------------
(* What the two ledger steps do to the rows another process relies on *)

PermissionInv == SerialInv /\ DistinctIds /\ ExecutedOnce /\ ExclusivePermission

\* A dispatch appends one pending row for an identity the ledger did not hold.
LEMMA DispatchRows ==
  ASSUME SerialInv, NEW w \in Workers, Dispatch(w)
  PROVE  /\ \A i \in DOMAIN ledger : i \in DOMAIN ledger' /\ ledger'[i] = ledger[i]
         /\ \E i \in DOMAIN ledger' :
              ledger'[i].operation = worker[w].op /\ ledger'[i].observation = Pending
         /\ ~Holds(ledger, worker[w].op.id)
         /\ DistinctIds'
<1>1. /\ ledger \in Seq(Row)
      /\ CanReserve(ledger, worker[w].op, worker[w].at)
      /\ ledger' = Reserved(ledger, worker[w].op, worker[w].at)
  BY DispatchReserves DEF SerialInv, TypeOK, LedgerTypeOK
<1>2. \A i \in DOMAIN ledger : i \in DOMAIN ledger' /\ ledger'[i] = ledger[i]
  BY <1>1 DEF Reserved
<1>3. \E i \in DOMAIN ledger' :
        ledger'[i].operation = worker[w].op /\ ledger'[i].observation = Pending
  <2>1. /\ Len(ledger) + 1 \in DOMAIN ledger'
        /\ ledger'[Len(ledger) + 1] =
             [operation |-> worker[w].op, reservedAt |-> worker[w].at,
              sequence |-> NextSequence(ledger), observation |-> Pending]
    BY <1>1 DEF Reserved
  <2>2. QED
    BY <2>1
<1>4. WithinInventory(ledger')
  BY <1>1 DEF CanReserve, Coherent
<1>5. QED
  BY <1>1, <1>2, <1>3, <1>4 DEF CanReserve, WithinInventory, DistinctIds

\* A settlement observes the pending row of the worker's own operation and no other.
LEMMA SettleRow ==
  ASSUME SerialInv, NEW w \in Workers, Settle(w)
  PROVE  \E i \in DOMAIN ledger :
           /\ ledger[i].operation = worker[w].op
           /\ ledger[i].observation = Pending
           /\ DOMAIN ledger' = DOMAIN ledger
           /\ \A j \in DOMAIN ledger : j # i => ledger'[j] = ledger[j]
           /\ ledger'[i].operation = ledger[i].operation
           /\ ledger'[i].observation.result = worker[w].result
           /\ ObservedRows(ledger') = ObservedRows(ledger) \cup {i}
           /\ DistinctIds'
<1>1. /\ ledger \in Seq(Row)
      /\ worker[w].at \in Times
      /\ worker[w].result \in Results
  BY SettleObservesRow DEF SerialInv, TypeOK, LedgerTypeOK
<1>2. PICK i \in RowOf(ledger, worker[w].op) :
        /\ CanSettle(ledger, i, SettledCost(worker[w].op), worker[w].result, worker[w].at)
        /\ ledger' = Settled(ledger, i, SettledCost(worker[w].op), worker[w].result, worker[w].at)
  BY SettleObservesRow
<1>3. /\ i \in DOMAIN ledger
      /\ ledger[i] \in Row
      /\ ledger[i].operation = worker[w].op
      /\ ledger[i].observation = Pending
  BY <1>1, <1>2 DEF RowOf, CanSettle
<1>4. /\ DOMAIN ledger' = DOMAIN ledger
      /\ \A j \in DOMAIN ledger : j # i => ledger'[j] = ledger[j]
  BY <1>1, <1>2 DEF Settled
<1>5. /\ ledger'[i].operation = ledger[i].operation
      /\ ledger'[i].observation.result = worker[w].result
  BY <1>1, <1>2, <1>3 DEF Settled, Row
<1>6. ObservedRows(ledger') = ObservedRows(ledger) \cup {i}
  <2>1. SettledCost(worker[w].op) \in Costs \cup {Unknown}
    BY SettledCostType
  <2>2. ASSUME NEW cost \in Costs \cup {Unknown}, NEW result \in Results, NEW at \in Times,
               CanSettle(ledger, i, cost, result, at)
        PROVE  ObservedRows(Settled(ledger, i, cost, result, at)) = ObservedRows(ledger) \cup {i}
    BY <1>1, <1>3, <2>2, SettleObserves
  <2>3. QED
    BY <1>1, <1>2, <2>1, <2>2
<1>7. DistinctIds'
  <2>1. WithinInventory(ledger')
    BY <1>2 DEF CanSettle, Coherent
  <2>2. QED
    BY <2>1 DEF WithinInventory, DistinctIds
<1>8. QED
  BY <1>3, <1>4, <1>5, <1>6, <1>7

-----------------------------------------------------------------------------
(* Single execution *)

\* A worker that stops, is refused, recovers or loses its settlement gives up its permission
\* and leaves the reservations alone.
LEMMA ReleaseKeepsPermission ==
  ASSUME PermissionInv, NEW w \in Workers, Release(w), UNCHANGED <<ledger, calls>>
  PROVE  DistinctIds' /\ ExecutedOnce' /\ ExclusivePermission'
<1>1. DistinctIds'
  BY DEF PermissionInv, DistinctIds
<1>2. ExecutedOnce'
  BY DEF PermissionInv, ExecutedOnce, Holds
<1>3. \A v \in Workers : Working(v)' => Working(v) /\ worker'[v] = worker[v] /\ v # w
  BY DEF PermissionInv, SerialInv, TypeOK, LedgerTypeOK, Working, Release, Idle
<1>4. ExclusivePermission'
  BY <1>3 DEF PermissionInv, ExclusivePermission, RowOf
<1>5. QED
  BY <1>1, <1>2, <1>4

\* A delivery gives no permission.
LEMMA DeliverKeepsPermission ==
  ASSUME PermissionInv, NEW w \in Workers, NEW op \in Operations, NEW at \in Times,
         Deliver(w, op, at)
  PROVE  DistinctIds' /\ ExecutedOnce' /\ ExclusivePermission'
<1>1. DistinctIds' /\ ExecutedOnce'
  BY DEF Deliver, PermissionInv, DistinctIds, ExecutedOnce, Holds
<1>2. \A v \in Workers : Working(v)' => Working(v) /\ worker'[v] = worker[v]
  BY DEF PermissionInv, SerialInv, TypeOK, LedgerTypeOK, Working, Deliver, Idle
<1>3. ledger' = ledger /\ calls' = calls
  BY DEF Deliver
<1>4. ExclusivePermission'
  BY <1>2, <1>3 DEF PermissionInv, ExclusivePermission, RowOf
<1>5. QED
  BY <1>1, <1>4

\* A dispatch is permission for an identity nobody holds and nobody executed.
LEMMA DispatchKeepsPermission ==
  ASSUME PermissionInv, NEW w \in Workers, Dispatch(w)
  PROVE  DistinctIds' /\ ExecutedOnce' /\ ExclusivePermission'
<1> DEFINE op == worker[w].op
<1>0. SerialInv /\ TypeOK /\ ExecutedOnce /\ ExclusivePermission
  BY DEF PermissionInv, SerialInv
<1>1. /\ \A i \in DOMAIN ledger : i \in DOMAIN ledger' /\ ledger'[i] = ledger[i]
      /\ \E i \in DOMAIN ledger' : ledger'[i].operation = op /\ ledger'[i].observation = Pending
      /\ ~Holds(ledger, op.id)
      /\ DistinctIds'
  BY <1>0, DispatchRows
<1>2. /\ calls' = calls
      /\ worker' = [worker EXCEPT ![w].pc = "dispatched"]
      /\ op.id \in OperationIds
  BY <1>0 DEF Dispatch, TypeOK, LedgerTypeOK, OperationIds
<1>3. ExecutedOnce'
  BY <1>0, <1>1, <1>2 DEF ExecutedOnce, Holds
<1>4. calls[op.id] = 0
  <2>1. calls[op.id] \in Nat
    BY <1>0, <1>2 DEF TypeOK
  <2>2. calls[op.id] <= 1 /\ calls[op.id] # 1
    BY <1>0, <1>1, <1>2 DEF ExecutedOnce
  <2>3. QED
    BY <2>1, <2>2
<1>5. /\ worker'[w].pc = "dispatched" /\ worker'[w].op = op
      /\ \A v \in Workers : v # w => worker'[v] = worker[v]
  BY <1>0, <1>2 DEF TypeOK, LedgerTypeOK, WorkerState
<1>6. ASSUME NEW v \in Workers, v # w, Working(v)
      PROVE  /\ \E i \in DOMAIN ledger :
                  /\ ledger[i].operation = worker[v].op
                  /\ ledger[i].observation = Pending
             /\ worker[v].op.id # op.id
  BY <1>0, <1>1, <1>6 DEF ExclusivePermission, RowOf, Holds
<1>7. ExclusivePermission'
  <2> SUFFICES ASSUME NEW v \in Workers, Working(v)'
               PROVE  /\ \E i \in DOMAIN ledger' :
                           /\ ledger'[i].operation = worker'[v].op
                           /\ ledger'[i].observation = Pending
                      /\ \A u \in Workers \ {v} :
                           Working(u)' => worker'[u].op.id # worker'[v].op.id
                      /\ worker'[v].pc = "dispatched" => calls'[worker'[v].op.id] = 0
    BY DEF ExclusivePermission, RowOf
  <2>1. CASE v = w
    BY <1>1, <1>2, <1>4, <1>5, <1>6, <2>1 DEF Working
  <2>2. CASE v # w
    <3>1. Working(v)
      BY <1>5, <2>2 DEF Working
    <3>2. /\ \A u \in Workers \ {v} : Working(u) => worker[u].op.id # worker[v].op.id
          /\ worker[v].pc = "dispatched" => calls[worker[v].op.id] = 0
      BY <1>0, <3>1 DEF ExclusivePermission
    <3>3. \A u \in Workers \ {v} : Working(u)' => worker'[u].op.id # worker'[v].op.id
      BY <1>5, <1>6, <2>2, <3>1, <3>2 DEF Working
    <3>4. \E i \in DOMAIN ledger' :
            ledger'[i].operation = worker'[v].op /\ ledger'[i].observation = Pending
      BY <1>1, <1>5, <1>6, <2>2, <3>1
    <3>5. QED
      BY <1>2, <1>5, <2>2, <3>2, <3>3, <3>4
  <2>3. QED
    BY <2>1, <2>2
<1>8. QED
  BY <1>1, <1>3, <1>7

\* A call uses up the permission of its own identity only.
LEMMA CallKeepsPermission ==
  ASSUME PermissionInv, NEW w \in Workers, Call(w)
  PROVE  DistinctIds' /\ ExecutedOnce' /\ ExclusivePermission'
<1> DEFINE op == worker[w].op
<1>0. SerialInv /\ TypeOK /\ DistinctIds /\ ExecutedOnce /\ ExclusivePermission
  BY DEF PermissionInv, SerialInv
<1>1. /\ worker[w].pc = "dispatched"
      /\ calls' = [calls EXCEPT ![op.id] = @ + 1]
      /\ ledger' = ledger
      /\ op.id \in OperationIds
  BY <1>0 DEF Call, TypeOK, LedgerTypeOK, OperationIds
<1>2. /\ worker'[w].pc = "called" /\ worker'[w].op = op
      /\ \A v \in Workers : v # w => worker'[v] = worker[v]
  BY <1>0 DEF Call, TypeOK, LedgerTypeOK, WorkerState
<1>3. Working(w) /\ calls[op.id] = 0
  BY <1>0, <1>1 DEF Working, ExclusivePermission
<1>4. Holds(ledger, op.id)
  BY <1>0, <1>3 DEF ExclusivePermission, RowOf, Holds
<1>5. /\ calls'[op.id] = 1
      /\ \A id \in OperationIds : id # op.id => calls'[id] = calls[id]
  BY <1>0, <1>1, <1>3 DEF TypeOK, LedgerTypeOK
<1>6. ExecutedOnce'
  BY <1>0, <1>1, <1>4, <1>5 DEF ExecutedOnce
<1>7. \A v \in Workers : Working(v)' => Working(v)
  BY <1>2, <1>3 DEF Working
<1>8. \A v \in Workers : worker'[v].op = worker[v].op
  BY <1>2
<1>9. ASSUME NEW v \in Workers, worker'[v].pc = "dispatched"
      PROVE  calls'[worker'[v].op.id] = 0
  <2>1. v # w /\ worker'[v] = worker[v] /\ Working(v)
    BY <1>2, <1>9 DEF Working
  <2>2. worker[v].op.id # op.id /\ calls[worker[v].op.id] = 0
    BY <1>0, <1>3, <1>9, <2>1 DEF ExclusivePermission
  <2>3. worker[v].op.id \in OperationIds
    BY <1>0, <1>9, <2>1 DEF TypeOK, LedgerTypeOK, OperationIds
  <2>4. QED
    BY <1>5, <2>1, <2>2, <2>3
<1>10. ExclusivePermission'
  BY <1>0, <1>1, <1>7, <1>8, <1>9 DEF ExclusivePermission, RowOf
<1>11. QED
  BY <1>0, <1>1, <1>6, <1>10 DEF DistinctIds

\* Retaining a result changes nobody's permission.
LEMMA StoreKeepsPermission ==
  ASSUME PermissionInv, NEW w \in Workers, NEW at \in Times, StoreResult(w, at)
  PROVE  DistinctIds' /\ ExecutedOnce' /\ ExclusivePermission'
<1>1. DistinctIds' /\ ExecutedOnce'
  BY DEF StoreResult, PermissionInv, DistinctIds, ExecutedOnce, Holds
<1>2. \A v \in Workers :
        /\ Working(v)' => Working(v)
        /\ worker'[v].op = worker[v].op
        /\ worker'[v].pc = "dispatched" => worker[v].pc = "dispatched"
  BY DEF StoreResult, PermissionInv, SerialInv, TypeOK, LedgerTypeOK, WorkerState, Working
<1>3. ledger' = ledger /\ calls' = calls
  BY DEF StoreResult
<1>4. ExclusivePermission'
  BY <1>2, <1>3 DEF PermissionInv, ExclusivePermission, RowOf
<1>5. QED
  BY <1>1, <1>4

\* A transaction that begins changes nobody's permission.
LEMMA LockKeepsPermission ==
  ASSUME PermissionInv, NEW w \in Workers, LockAndRead(w)
  PROVE  DistinctIds' /\ ExecutedOnce' /\ ExclusivePermission'
<1>1. DistinctIds' /\ ExecutedOnce'
  BY DEF LockAndRead, PermissionInv, DistinctIds, ExecutedOnce, Holds
<1>2. \A v \in Workers :
        /\ Working(v)' => Working(v)
        /\ worker'[v].op = worker[v].op
        /\ worker'[v].pc = "dispatched" => worker[v].pc = "dispatched"
  BY DEF LockAndRead, PermissionInv, SerialInv, TypeOK, LedgerTypeOK, WorkerState, Working
<1>3. ledger' = ledger /\ calls' = calls
  BY DEF LockAndRead
<1>4. ExclusivePermission'
  BY <1>2, <1>3 DEF PermissionInv, ExclusivePermission, RowOf
<1>5. QED
  BY <1>1, <1>4

\* A settlement ends its worker's permission and touches no row another worker relies on.
LEMMA SettleKeepsPermission ==
  ASSUME PermissionInv, NEW w \in Workers, Settle(w)
  PROVE  DistinctIds' /\ ExecutedOnce' /\ ExclusivePermission'
<1>0. SerialInv /\ TypeOK /\ ExecutedOnce /\ ExclusivePermission
  BY DEF PermissionInv, SerialInv
<1>1. PICK i \in DOMAIN ledger :
        /\ ledger[i].operation = worker[w].op
        /\ DOMAIN ledger' = DOMAIN ledger
        /\ \A j \in DOMAIN ledger : j # i => ledger'[j] = ledger[j]
        /\ ledger'[i].operation = ledger[i].operation
        /\ DistinctIds'
  BY <1>0, SettleRow
<1>2. calls' = calls /\ Working(w)
  BY DEF Settle, Working
<1>3. ExecutedOnce'
  BY <1>0, <1>1, <1>2 DEF ExecutedOnce, Holds
<1>4. \A v \in Workers : Working(v)' => Working(v) /\ worker'[v] = worker[v] /\ v # w
  BY <1>0 DEF TypeOK, LedgerTypeOK, Working, Settle, Release, Idle
<1>5. ASSUME NEW v \in Workers, Working(v)'
      PROVE  \E j \in DOMAIN ledger' :
               ledger'[j].operation = worker'[v].op /\ ledger'[j].observation = Pending
  <2>1. worker[v].op.id # worker[w].op.id
    BY <1>0, <1>2, <1>4, <1>5 DEF ExclusivePermission
  <2>2. PICK j \in DOMAIN ledger :
          ledger[j].operation = worker[v].op /\ ledger[j].observation = Pending
    BY <1>0, <1>4, <1>5 DEF ExclusivePermission, RowOf
  <2>3. QED
    BY <1>1, <1>4, <1>5, <2>1, <2>2
<1>6. ExclusivePermission'
  BY <1>0, <1>2, <1>4, <1>5 DEF ExclusivePermission, RowOf
<1>7. QED
  BY <1>1, <1>3, <1>6

\* No step of any worker shares or repeats a permission.
LEMMA NextKeepsPermission ==
  ASSUME PermissionInv, [Next]_vars
  PROVE  PermissionInv'
<1>1. SerialInv'
  BY NextKeepsSerialized DEF PermissionInv
<1>2. CASE UNCHANGED vars
  BY <1>1, <1>2 DEF vars, PermissionInv, DistinctIds, ExecutedOnce, ExclusivePermission,
     Holds, RowOf, Working
<1>3. ASSUME NEW w \in Workers, Refuse(w) \/ Recover(w) \/ LoseSettlement(w) \/ Crash(w)
      PROVE  DistinctIds' /\ ExecutedOnce' /\ ExclusivePermission'
  <2>1. Release(w) /\ UNCHANGED <<ledger, calls>>
    BY <1>3 DEF Refuse, Recover, LoseSettlement, Crash
  <2>2. QED
    BY <2>1, ReleaseKeepsPermission
<1>4. CASE Next
  <2>1. DistinctIds' /\ ExecutedOnce' /\ ExclusivePermission'
    BY <1>3, <1>4, DeliverKeepsPermission, DispatchKeepsPermission, CallKeepsPermission,
       StoreKeepsPermission, SettleKeepsPermission, LockKeepsPermission DEF Next
  <2>2. QED
    BY <1>1, <2>1 DEF PermissionInv
<1>5. QED
  BY <1>2, <1>4

\* The invariant behind single execution: permissions are exclusive and used once.
THEOREM PermissionHolds == Spec => []PermissionInv
<1>1. Init => PermissionInv
  BY DEF Init, InitBudget, PermissionInv, SerialInv, Serialized, InTransaction, TypeOK, LedgerTypeOK, WorkerState, Idle, DistinctIds,
     ExecutedOnce,
     ExclusivePermission, Working, Holds
<1>2. PermissionInv /\ [Next]_vars => PermissionInv'
  BY NextKeepsPermission
<1>3. QED
  BY <1>1, <1>2, PTL DEF Spec

\* However deliveries, crashes and clocks interleave, an identity is executed at most once
\* and never without a durable reservation.
THEOREM SingleExecution == Spec => []ExecutedOnce
<1>1. PermissionInv => ExecutedOnce
  BY DEF PermissionInv
<1>2. QED
  BY <1>1, PermissionHolds, PTL

\* At most one process works on an identity, and its reservation is pending meanwhile.
THEOREM PermissionIsExclusive == Spec => []ExclusivePermission
<1>1. PermissionInv => ExclusivePermission
  BY DEF PermissionInv
<1>2. QED
  BY <1>1, PermissionHolds, PTL

-----------------------------------------------------------------------------
(* Stable answers *)

\* The ledger only gains observations: what a row observed stays in it.
LEMMA ObservedRowsStay ==
  ASSUME SerialInv, [Next]_vars
  PROVE  \A i \in ObservedRows(ledger) : i \in ObservedRows(ledger') /\ ledger'[i] = ledger[i]
<1>1. CASE UNCHANGED ledger
  BY <1>1
<1>2. ASSUME NEW w \in Workers, Dispatch(w)
      PROVE  \A i \in ObservedRows(ledger) : i \in ObservedRows(ledger') /\ ledger'[i] = ledger[i]
  <2>1. \A i \in DOMAIN ledger : i \in DOMAIN ledger' /\ ledger'[i] = ledger[i]
    BY <1>2, DispatchRows
  <2>2. QED
    BY <2>1 DEF ObservedRows
<1>3. ASSUME NEW w \in Workers, Settle(w)
      PROVE  \A i \in ObservedRows(ledger) : i \in ObservedRows(ledger') /\ ledger'[i] = ledger[i]
  <2>1. PICK i \in DOMAIN ledger :
          /\ ledger[i].observation = Pending
          /\ \A j \in DOMAIN ledger : j # i => ledger'[j] = ledger[j]
          /\ ObservedRows(ledger') = ObservedRows(ledger) \cup {i}
    BY <1>3, SettleRow
  <2>2. \A j \in ObservedRows(ledger) : j \in DOMAIN ledger /\ j # i
    BY <2>1 DEF ObservedRows
  <2>3. QED
    BY <2>1, <2>2
<1>4. ASSUME NEW w \in Workers, NEW op \in Operations, NEW at \in Times,
             \/ Deliver(w, op, at) \/ LockAndRead(w) \/ Refuse(w) \/ Recover(w) \/ Call(w)
             \/ StoreResult(w, at) \/ LoseSettlement(w) \/ Crash(w)
      PROVE  UNCHANGED ledger
  BY <1>4 DEF Deliver, Refuse, Recover, Call, StoreResult, LoseSettlement, Crash,
     LockAndRead
<1>5. CASE UNCHANGED vars
  BY <1>1, <1>5 DEF vars
<1>6. CASE Next
  <2>1. PICK w \in Workers :
          \/ \E op \in Operations, at \in Times : Deliver(w, op, at)
          \/ LockAndRead(w) \/ Dispatch(w) \/ Refuse(w) \/ Recover(w) \/ Call(w)
          \/ \E at \in Times : StoreResult(w, at)
          \/ Settle(w) \/ LoseSettlement(w) \/ Crash(w)
    BY <1>6 DEF Next
  <2>2. CASE Dispatch(w)
    BY <1>2, <2>2
  <2>3. CASE Settle(w)
    BY <1>3, <2>3
  <2>4. CASE ~Dispatch(w) /\ ~Settle(w)
    BY <1>1, <2>1, <2>4 DEF Deliver, Refuse, Recover, Call, StoreResult, LoseSettlement, Crash,
     LockAndRead
  <2>5. QED
    BY <2>2, <2>3, <2>4
<1>7. QED
  BY <1>5, <1>6

\* An answer already given stays the recorded one, and its bytes stay retained.
LEMMA OldAnswersStay ==
  ASSUME SerialInv, AnswersAreRecorded, [Next]_vars,
         NEW id \in OperationIds, NEW result \in answers[id]
  PROVE  /\ result \in artifacts'
         /\ \E i \in ObservedRows(ledger') :
              ledger'[i].operation.id = id /\ ledger'[i].observation.result = result
<1>1. artifacts \subseteq artifacts'
  BY DEF Next, vars, Deliver, Dispatch, Refuse, Recover, Call, StoreResult,
     Settle, LoseSettlement, Crash, LockAndRead, Release
<1>2. PICK i \in ObservedRows(ledger) :
        ledger[i].operation.id = id /\ ledger[i].observation.result = result
  BY DEF AnswersAreRecorded
<1>3. i \in ObservedRows(ledger') /\ ledger'[i] = ledger[i]
  BY <1>2, ObservedRowsStay
<1>4. QED
  BY <1>1, <1>2, <1>3 DEF AnswersAreRecorded

\* A new answer comes from a settled row or from the settlement itself.
LEMMA NewAnswersAreRecorded ==
  ASSUME SerialInv, [Next]_vars,
         NEW id \in OperationIds, NEW result \in answers'[id], result \notin answers[id]
  PROVE  /\ result \in artifacts'
         /\ \E i \in ObservedRows(ledger') :
              ledger'[i].operation.id = id /\ ledger'[i].observation.result = result
<1>1. answers' # answers
  OBVIOUS
<1>2. PICK w \in Workers : Recover(w) \/ Settle(w)
  BY <1>1 DEF Next, vars, Deliver, Dispatch, Refuse, Call, StoreResult,
     LoseSettlement, Crash, LockAndRead
<1>3. CASE Recover(w)
  <2>0. seen[w] = ledger
    BY <1>3 DEF Recover, SerialInv, Serialized, InTransaction
  <2>1. PICK i \in RowOf(ledger, worker[w].op) \cap ObservedRows(ledger) :
          /\ ledger[i].observation.result \in artifacts
          /\ answers' = [answers EXCEPT ![worker[w].op.id] =
                           @ \cup {ledger[i].observation.result}]
    BY <1>3, <2>0 DEF Recover
  <2>2. id = worker[w].op.id /\ result = ledger[i].observation.result
    BY <2>1 DEF SerialInv, TypeOK, LedgerTypeOK
  <2>3. UNCHANGED <<ledger, artifacts>>
    BY <1>3 DEF Recover
  <2>4. QED
    BY <2>1, <2>2, <2>3 DEF RowOf
<1>4. CASE Settle(w)
  <2>1. PICK i \in DOMAIN ledger :
          /\ ledger[i].operation = worker[w].op
          /\ ledger'[i].operation = ledger[i].operation
          /\ ledger'[i].observation.result = worker[w].result
          /\ ObservedRows(ledger') = ObservedRows(ledger) \cup {i}
    BY <1>4, SettleRow
  <2>2. /\ answers' = [answers EXCEPT ![worker[w].op.id] = @ \cup {worker[w].result}]
        /\ worker[w].result \in artifacts'
    BY <1>4 DEF Settle
  <2>3. id = worker[w].op.id /\ result = worker[w].result
    BY <2>2 DEF SerialInv, TypeOK, LedgerTypeOK
  <2>4. QED
    BY <2>1, <2>2, <2>3
<1>5. QED
  BY <1>2, <1>3, <1>4

\* Whoever gets a result for an identity gets the one the ledger records, retained.
THEOREM AnswersRecorded == Spec => []AnswersAreRecorded
<1> DEFINE Inv == SerialInv /\ AnswersAreRecorded
<1>1. Init => Inv
  BY DEF Init, InitBudget, SerialInv, Serialized, InTransaction, TypeOK, LedgerTypeOK,
     WorkerState, Idle, AnswersAreRecorded
<1>2. Inv /\ [Next]_vars => Inv'
  <2> SUFFICES ASSUME SerialInv, AnswersAreRecorded, [Next]_vars
               PROVE  SerialInv' /\ AnswersAreRecorded'
    OBVIOUS
  <2>1. AnswersAreRecorded'
    BY OldAnswersStay, NewAnswersAreRecorded DEF AnswersAreRecorded
  <2>2. QED
    BY <2>1, NextKeepsSerialized
<1>3. Inv => AnswersAreRecorded
  OBVIOUS
<1>4. QED
  BY <1>1, <1>2, <1>3, PTL DEF Spec

-----------------------------------------------------------------------------
(* The worst-case bill.  No worker ever refunds a reservation: an LLM charge is settled as
   unknown and an experiment reserves nothing.  So what the ledger commits to is what was
   reserved, and that is all the executed operations may cost. *)

FullyCharged == \A i \in DOMAIN ledger : Committed(ledger[i]) = ledger[i].operation.max

Reservations(l) == [i \in DOMAIN l |-> l[i].operation.max]

BillInv == FullyCharged /\ SumFunction(Reservations(ledger)) <= MaxCost

\* A reservation is funded on top of what is committed, hence of what was reserved.
LEMMA DispatchKeepsBill ==
  ASSUME SerialInv, BillInv, NEW w \in Workers, Dispatch(w)
  PROVE  BillInv'
<1> DEFINE op == worker[w].op
           at == worker[w].at
           new == Len(ledger) + 1
           c == [i \in DOMAIN ledger |-> Committed(ledger[i])]
           f == Reservations(ledger')
<1>1. /\ ledger \in Seq(Row) /\ op \in Operations /\ at \in Times
      /\ ledger' = Reserved(ledger, op, at) /\ Admits(ledger, op, at)
      /\ op.max \in Nat
  BY LedgerAssumption, DispatchReserves DEF SerialInv, TypeOK, LedgerTypeOK, CanReserve,
     LedgerAssumption
<1> HIDE DEF op, at
<1>2. /\ DOMAIN ledger' = DOMAIN ledger \cup {new} /\ new \notin DOMAIN ledger
      /\ \A i \in DOMAIN ledger : ledger'[i] = ledger[i]
      /\ ledger'[new] = [operation |-> op, reservedAt |-> at, sequence |-> NextSequence(ledger),
                         observation |-> Pending]
  BY <1>1 DEF Reserved
<1>3. ledger'[new].operation.max = op.max /\ ledger'[new].observation = Pending
  BY <1>2
<1>4. Committed(ledger'[new]) = ledger'[new].operation.max
  BY <1>3 DEF Committed
<1>5. FullyCharged'
  BY <1>2, <1>4 DEF BillInv, FullyCharged
<1>6. /\ IsFiniteSet(DOMAIN ledger)
      /\ \A i \in DOMAIN ledger : Committed(ledger[i]) \in Nat
  BY <1>1, LedgerAmounts
<1>7. \A i \in DOMAIN ledger : c[i] \in Int /\ f[i] = c[i] /\ f[i] \in Int
  BY <1>2, <1>6 DEF BillInv, FullyCharged, Reservations
<1>8. f[new] = op.max
  BY <1>2, <1>3 DEF Reservations
<1>9. DOMAIN c = DOMAIN ledger /\ DOMAIN f = DOMAIN ledger'
  BY DEF Reservations
<1>10. SumFunctionOnSet(c, DOMAIN ledger) + op.max <= MaxCost
  BY <1>1, <1>9 DEF Admits, TotalCommitted, SumFunction
<1> HIDE DEF c, f, new
<1>11. SumFunctionOnSet(f, DOMAIN ledger) = SumFunctionOnSet(c, DOMAIN ledger)
  BY <1>6, <1>7, SumAgree
<1>12. \A y \in DOMAIN ledger \cup {new} : f[y] \in Int
  BY <1>1, <1>7, <1>8
<1>13. SumFunctionOnSet(f, DOMAIN ledger') = SumFunctionOnSet(f, DOMAIN ledger) + op.max
  BY <1>2, <1>6, <1>8, <1>12, SumAdd
<1>14. SumFunction(f) <= MaxCost
  BY <1>9, <1>10, <1>11, <1>13 DEF SumFunction
<1>15. QED
  BY <1>5, <1>14 DEF BillInv, f

\* A settlement neither refunds nor charges: the row commits to what it reserved.
LEMMA SettleKeepsBill ==
  ASSUME SerialInv, BillInv, NEW w \in Workers, Settle(w)
  PROVE  BillInv'
<1> DEFINE op == worker[w].op
           cost == SettledCost(op)
<1>1. PICK k \in DOMAIN ledger :
        /\ ledger[k].operation = op
        /\ ledger' = Settled(ledger, k, cost, worker[w].result, worker[w].at)
  BY SettleObservesRow DEF RowOf
<1>2. ledger \in Seq(Row) /\ ledger[k] \in Row /\ op \in Operations
  BY SettleObservesRow DEF SerialInv, TypeOK, LedgerTypeOK
<1> DEFINE noted == [cost |-> cost, result |-> worker[w].result, at |-> worker[w].at,
                     sequence |-> NextSequence(ledger)]
<1>3. /\ DOMAIN ledger' = DOMAIN ledger
      /\ \A i \in DOMAIN ledger : i # k => ledger'[i] = ledger[i]
      /\ ledger'[k].operation = ledger[k].operation
      /\ ledger'[k].observation = noted
  BY <1>1, <1>2 DEF Settled, Row
<1>4. noted # Pending /\ noted.cost = cost
  <2>1. cost \in Costs \cup {Unknown}
    BY SettledCostType
  <2>2. worker[w].result \in Results /\ worker[w].at \in Times
    BY SettleObservesRow DEF SerialInv, TypeOK, LedgerTypeOK
  <2>3. QED
    BY <1>2, <2>1, <2>2, ObservedRowsFinite, LedgerAssumption DEF LedgerAssumption
<1> HIDE DEF noted
<1>5. Committed(ledger'[k]) = op.max
  <2>1. CASE op.kind = "experiment"
    <3>1. cost = 0 /\ op.max = 0 /\ cost # Unknown
      BY <1>2, <2>1, LedgerAssumption DEF SettledCost, LedgerAssumption
    <3>2. QED
      BY <1>3, <1>4, <3>1 DEF Committed
  <2>2. CASE op.kind # "experiment"
    <3>1. cost = Unknown
      BY <2>2 DEF SettledCost
    <3>2. ledger'[k].observation.cost = Unknown
      BY <1>3, <1>4, <3>1
    <3>3. QED
      BY <1>1, <1>3, <3>2 DEF Committed
  <2>3. QED
    BY <2>1, <2>2
<1>6. FullyCharged'
  BY <1>1, <1>3, <1>5 DEF BillInv, FullyCharged
<1>7. Reservations(ledger') = Reservations(ledger)
  BY <1>3 DEF Reservations
<1>8. QED
  BY <1>6, <1>7 DEF BillInv

\* No step of any worker breaks the bill.
LEMMA NextKeepsBill ==
  ASSUME SerialInv, BillInv, [Next]_vars
  PROVE  BillInv'
<1>1. CASE UNCHANGED ledger
  BY <1>1 DEF BillInv, FullyCharged
<1>2. CASE Next
  <2>1. PICK w \in Workers : Dispatch(w) \/ Settle(w) \/ UNCHANGED ledger
    BY <1>2 DEF Next, Deliver, LockAndRead, Refuse, Recover, Call, StoreResult, LoseSettlement, Crash,
     LockAndRead
  <2>2. QED
    BY <1>1, <2>1, DispatchKeepsBill, SettleKeepsBill
<1>3. QED
  BY <1>1, <1>2 DEF vars

\* For every number of workers and every budget: the operations that were really executed, each
\* at its full reservation, never cost more than the limit of the run.
THEOREM BillIsBounded == Spec => []WorstCaseBillWithinBudget
<1>1. Init => BillInv
  <2>1. SUFFICES ASSUME Init PROVE BillInv
    OBVIOUS
  <2>2. DOMAIN ledger = {} /\ DOMAIN Reservations(ledger) = {}
    BY <2>1 DEF Init, InitBudget, Reservations
  <2>3. SumFunction(Reservations(ledger)) = 0
    BY <2>2, SumEmpty DEF SumFunction
  <2>4. QED
    BY <2>2, <2>3, LedgerAssumption DEF BillInv, FullyCharged, LedgerAssumption
<1>2. SerialInv /\ BillInv /\ [Next]_vars => BillInv'
  BY NextKeepsBill
<1>3. SerialInv /\ BillInv /\ ExecutedOnce => WorstCaseBillWithinBudget
  <2>1. SUFFICES ASSUME SerialInv, BillInv, ExecutedOnce PROVE WorstCaseBillWithinBudget
    OBVIOUS
  <2> DEFINE bill == [i \in DOMAIN ledger |->
                        calls[ledger[i].operation.id] * ledger[i].operation.max]
             f == Reservations(ledger)
  <2>2. /\ IsFiniteSet(DOMAIN ledger)
        /\ \A i \in DOMAIN ledger : ledger[i] \in Row /\ ledger[i].operation.max \in Nat
    BY <2>1, LedgerAmounts DEF SerialInv, TypeOK, LedgerTypeOK
  <2>3. ASSUME NEW i \in DOMAIN ledger
        PROVE  f[i] \in Int /\ bill[i] \in Int /\ bill[i] <= f[i]
    <3>1. ledger[i].operation.id \in OperationIds
      BY <2>2 DEF Row, OperationIds
    <3>2. calls[ledger[i].operation.id] \in {0, 1}
      <4>1. calls \in [OperationIds -> Nat]
        BY <2>1 DEF SerialInv, TypeOK
      <4>2. QED
        BY <2>1, <3>1, <4>1 DEF ExecutedOnce
    <3>3. calls[ledger[i].operation.id] * ledger[i].operation.max
            \in {0, ledger[i].operation.max}
      BY <2>2, <3>2
    <3>4. QED
      BY <2>2, <3>3 DEF Reservations
  <2>4. DOMAIN bill = DOMAIN ledger /\ DOMAIN f = DOMAIN ledger
    BY DEF Reservations
  <2>5. SumFunctionOnSet(f, DOMAIN ledger) <= MaxCost
    BY <2>1, <2>4 DEF BillInv, SumFunction
  <2> HIDE DEF bill, f
  <2>6. /\ SumFunctionOnSet(bill, DOMAIN ledger) <= SumFunctionOnSet(f, DOMAIN ledger)
        /\ SumFunctionOnSet(bill, DOMAIN ledger) \in Int
        /\ SumFunctionOnSet(f, DOMAIN ledger) \in Int
    BY <2>2, <2>3, SumMonotonic, SumType
  <2>7. SumFunctionOnSet(bill, DOMAIN ledger) <= MaxCost
    BY <2>5, <2>6, LedgerAssumption DEF LedgerAssumption
  <2>8. QED
    BY <2>4, <2>7 DEF WorstCaseBillWithinBudget, SumFunction, bill
<1>4. QED
  BY <1>1, <1>2, <1>3, TransactionsAreSerial, SingleExecution, PTL DEF Spec

-----------------------------------------------------------------------------
(* Refinement *)

\* What the workers do to the ledger is a reservation, a settlement or nothing.
LEMMA StepsAreLedgerSteps ==
  ASSUME SerialInv, [Next]_vars
  PROVE  [NextBudget]_ledger
<1>1. ASSUME NEW w \in Workers, Dispatch(w)
      PROVE  NextBudget
  BY <1>1, DispatchReserves DEF NextBudget, ReserveOperation
<1>2. ASSUME NEW w \in Workers, Settle(w)
      PROVE  NextBudget
  <2>1. worker[w].at \in Times /\ worker[w].result \in Results
    BY <1>2, SettleObservesRow
  <2>2. PICK i \in RowOf(ledger, worker[w].op) :
          SettleOperation(i, SettledCost(worker[w].op), worker[w].result, worker[w].at)
    BY <1>2, SettleObservesRow DEF SettleOperation
  <2>3. i \in DOMAIN ledger /\ SettledCost(worker[w].op) \in Costs \cup {Unknown}
    BY SettledCostType DEF RowOf
  <2>4. QED
    BY <2>1, <2>2, <2>3 DEF NextBudget
<1>3. CASE UNCHANGED vars
  BY <1>3 DEF vars
<1>4. CASE Next
  <2>1. PICK w \in Workers :
          Dispatch(w) \/ Settle(w) \/ UNCHANGED ledger
    BY <1>4 DEF Next, Deliver, LockAndRead, Refuse, Recover, Call, StoreResult, LoseSettlement,
       Crash
  <2>2. QED
    BY <1>1, <1>2, <2>1
<1>5. QED
  BY <1>3, <1>4

\* Any number of concurrent, crashing workers, each of which writes a ledger that it computed
\* from one it read earlier, implements the serial ledger of RunBudget.
THEOREM WorkersImplementRunBudget == Spec => ImplementsRunBudget
<1>1. Init => InitBudget
  BY DEF Init
<1>2. SerialInv /\ [Next]_vars => [NextBudget]_ledger
  BY StepsAreLedgerSteps
<1>3. QED
  BY <1>1, <1>2, TransactionsAreSerial, PTL DEF Spec, ImplementsRunBudget, BudgetSpec

=============================================================================
