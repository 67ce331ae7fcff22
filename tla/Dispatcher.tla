------------------------------ MODULE Dispatcher ----------------------------
(***************************************************************************)
(* The API process's bridge from the event loop to blocking work           *)
(* (api/dispatch.py), and the shutdown that relies on it (lifespan in      *)
(* app.py): a call holds a slot from its admission until its worker thread *)
(* is done, even when the awaiting task is cancelled; close() stops        *)
(* admission and drains by owning every slot; only then may the store be   *)
(* closed.  Tasks, threads and closers interleave; a step is what one of   *)
(* them does under one lock.                                               *)
(***************************************************************************)
EXTENDS Naturals, FiniteSets

CONSTANTS
  Calls,     \* run() invocations
  Closers,   \* close() invocations
  Capacity,  \* BlockingDispatcher(capacity)
  NoCloser

ASSUME DispatcherAssumption ==
  /\ Capacity \in Nat \ {0}
  /\ NoCloser \notin Closers

VARIABLES
  slots,       \* free slots of the bounded semaphore
  closing,     \* no further admission
  task,        \* the coroutine of each call
  thread,      \* its worker thread's callback
  cancelled,   \* cancelled_before_start of each call
  closer,      \* program counter of each close()
  held,        \* slots a drain owns
  shutdown,    \* the closer that holds the shutdown lock
  storeClosed  \* the lifespan closed the store after a drain

dispatcherVars == <<slots, closing, task, thread, cancelled, closer, held, shutdown, storeClosed>>

InitDispatcher ==
  /\ slots = Capacity
  /\ closing = FALSE
  /\ task = [c \in Calls |-> "new"]
  /\ thread = [c \in Calls |-> "none"]
  /\ cancelled = [c \in Calls |-> FALSE]
  /\ closer = [k \in Closers |-> "new"]
  /\ held = [k \in Closers |-> 0]
  /\ shutdown = NoCloser
  /\ storeClosed = FALSE

-----------------------------------------------------------------------------
(* run() *)

\* The slip of admitting work while the dispatcher drains.
AdmitWhileClosing(c) ==
  /\ task[c] = "new"
  /\ slots > 0
  /\ slots' = slots - 1
  /\ task' = [task EXCEPT ![c] = "waiting"]
  /\ thread' = [thread EXCEPT ![c] = "queued"]
  /\ UNCHANGED <<closing, cancelled, closer, held, shutdown, storeClosed>>

AdmitCall(c) ==
  /\ task[c] = "new"
  /\ ~closing /\ slots > 0
  /\ slots' = slots - 1
  /\ task' = [task EXCEPT ![c] = "waiting"]
  /\ thread' = [thread EXCEPT ![c] = "queued"]
  /\ UNCHANGED <<closing, cancelled, closer, held, shutdown, storeClosed>>

\* SERVICE_BUSY.
Reject(c) ==
  /\ task[c] = "new"
  /\ closing \/ slots = 0
  /\ task' = [task EXCEPT ![c] = "rejected"]
  /\ UNCHANGED <<slots, closing, thread, cancelled, closer, held, shutdown, storeClosed>>

\* invoke(), under the call's guard: WORK_CANCELLED, or the operation starts.
Begin(c) ==
  /\ thread[c] = "queued"
  /\ thread' = [thread EXCEPT ![c] = IF cancelled[c] THEN "refused" ELSE "running"]
  /\ UNCHANGED <<slots, closing, task, cancelled, closer, held, shutdown, storeClosed>>

\* The operation returns or raises, and the thread gives the slot back.
Finish(c) ==
  /\ thread[c] = "running"
  /\ thread' = [thread EXCEPT ![c] = "finished"]
  /\ slots' = slots + 1
  /\ UNCHANGED <<closing, task, cancelled, closer, held, shutdown, storeClosed>>

\* run_sync returns what the thread produced; the operation had started.
Return(c) ==
  /\ task[c] = "waiting"
  /\ thread[c] = "finished"
  /\ task' = [task EXCEPT ![c] = "done"]
  /\ UNCHANGED <<slots, closing, thread, cancelled, closer, held, shutdown, storeClosed>>

\* The slip of releasing the slot of an abandoned call that already runs.
AbandonReleasing(c) ==
  /\ task[c] = "waiting"
  /\ task' = [task EXCEPT ![c] = "abandoned"]
  /\ cancelled' = [cancelled EXCEPT ![c] = thread[c] = "queued"]
  /\ slots' = slots + 1
  /\ UNCHANGED <<closing, thread, closer, held, shutdown, storeClosed>>

\* Native cancellation ends the await before the thread does: the finally clause takes the
\* slot back only from a callback that has not started, and forbids it to start.
Abandon(c) ==
  /\ task[c] = "waiting"
  /\ task' = [task EXCEPT ![c] = "abandoned"]
  /\ IF thread[c] = "queued"
     THEN /\ cancelled' = [cancelled EXCEPT ![c] = TRUE]
          /\ slots' = slots + 1
     ELSE UNCHANGED <<cancelled, slots>>
  /\ UNCHANGED <<closing, thread, closer, held, shutdown, storeClosed>>

-----------------------------------------------------------------------------
(* close() and the end of the lifespan *)

Close(k) ==
  /\ closer[k] = "new"
  /\ closing' = TRUE
  /\ closer' = [closer EXCEPT ![k] = "locking"]
  /\ UNCHANGED <<slots, task, thread, cancelled, held, shutdown, storeClosed>>

\* The slip of draining without the shutdown lock.
LockShutdownShared(k) ==
  /\ closer[k] = "locking"
  /\ shutdown' = k
  /\ closer' = [closer EXCEPT ![k] = "acquiring"]
  /\ UNCHANGED <<slots, closing, task, thread, cancelled, held, storeClosed>>

LockShutdown(k) ==
  /\ closer[k] = "locking"
  /\ shutdown = NoCloser
  /\ shutdown' = k
  /\ closer' = [closer EXCEPT ![k] = "acquiring"]
  /\ UNCHANGED <<slots, closing, task, thread, cancelled, held, storeClosed>>

\* drain(): one blocking acquire after the other, until every slot is owned.
Acquire(k) ==
  /\ closer[k] = "acquiring"
  /\ slots > 0
  /\ slots' = slots - 1
  /\ held' = [held EXCEPT ![k] = @ + 1]
  /\ closer' = [closer EXCEPT ![k] = IF held[k] + 1 = Capacity THEN "releasing" ELSE @]
  /\ UNCHANGED <<closing, task, thread, cancelled, shutdown, storeClosed>>

\* The slots are given back one by one, then the shutdown lock.
Release(k) ==
  /\ closer[k] = "releasing"
  /\ slots' = slots + 1
  /\ held' = [held EXCEPT ![k] = @ - 1]
  /\ IF held[k] = 1
     THEN closer' = [closer EXCEPT ![k] = "drained"] /\ shutdown' = NoCloser
     ELSE UNCHANGED <<closer, shutdown>>
  /\ UNCHANGED <<closing, task, thread, cancelled, storeClosed>>

\* lifespan: close() has returned, the store the application owns is closed.
CloseStore(k) ==
  /\ closer[k] = "drained"
  /\ closer' = [closer EXCEPT ![k] = "done"]
  /\ storeClosed' = TRUE
  /\ UNCHANGED <<slots, closing, task, thread, cancelled, held, shutdown>>

-----------------------------------------------------------------------------

CallStep(c) == AdmitCall(c) \/ Reject(c) \/ Begin(c) \/ Finish(c) \/ Return(c) \/ Abandon(c)

Drain(k) == LockShutdown(k) \/ Acquire(k) \/ Release(k) \/ CloseStore(k)

NextDispatcher ==
  \/ \E c \in Calls : CallStep(c)
  \/ \E k \in Closers : Close(k) \/ Drain(k)

\* Threads start what is queued for a task that still waits, operations end, and a drain
\* goes on while it can.  Nothing obliges a thread to pick up a callback whose task is gone.
DispatcherSpec ==
  /\ InitDispatcher /\ [][NextDispatcher]_dispatcherVars
  /\ \A c \in Calls : /\ WF_dispatcherVars(task[c] = "waiting" /\ Begin(c))
                       /\ WF_dispatcherVars(Finish(c))
  /\ \A k \in Closers : WF_dispatcherVars(Drain(k))

-----------------------------------------------------------------------------
(* Properties *)

\* Slots stay between zero and the capacity (a release above it would raise ValueError in
\* BoundedSemaphore), and every task, thread and closer is in a state of the protocol.
DispatcherTypeOK ==
  /\ slots \in 0 .. Capacity
  /\ closing \in BOOLEAN /\ storeClosed \in BOOLEAN
  /\ task \in [Calls -> {"new", "waiting", "rejected", "done", "abandoned"}]
  /\ thread \in [Calls -> {"none", "queued", "running", "refused", "finished"}]
  /\ cancelled \in [Calls -> BOOLEAN]
  /\ closer \in [Closers -> {"new", "locking", "acquiring", "releasing", "drained", "done"}]
  /\ held \in [Closers -> 0 .. Capacity]
  /\ shutdown \in Closers \cup {NoCloser}

\* Calls whose admission is still reserved: a thread runs for them, or will.
Occupying == {c \in Calls : thread[c] = "running" \/ (thread[c] = "queued" /\ ~cancelled[c])}

\* Slots are neither lost nor returned twice, whatever is cancelled when: the free ones, the
\* ones of work that runs or may still start and the one drain's are the capacity.
SlotsConserved ==
  \E k \in Closers :
    /\ slots + Cardinality(Occupying) + held[k] = Capacity
    /\ \A other \in Closers \ {k} : held[other] = 0

\* Once the store is closed no operation runs on it and none can start any more ("Owning
\* every reservation proves no dispatched operation still uses the store", close()).
NothingRunsAfterClose == storeClosed => Occupying = {}

\* close() returns although tasks are cancelled at any point and several closers drain at
\* once, as long as the operations themselves end.
CloseReturns == \A k \in Closers : closer[k] = "locking" ~> closer[k] = "done"

=============================================================================
