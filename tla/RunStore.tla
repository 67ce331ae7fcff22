------------------------------- MODULE RunStore -----------------------------
(***************************************************************************)
(* The durable receipts of research runs and their normalization           *)
(* (postgres_runs.py, normalization_graph.py, the recovery loop of         *)
(* app.py).  Clients create runs under an idempotency key; every server    *)
(* process scans for receipts that are not normalized and finishes them.   *)
(* The graph's checkpoints commit on a connection of their own, before     *)
(* and apart from the transaction that publishes the result, so a process  *)
(* can stop, or lose a dependency, with a checkpoint ahead of the row.     *)
(* Rows are read and written on connections of a pool, which replaces the  *)
(* ones it loses.  The one connection of the checkpoints is opened when    *)
(* the process starts and never again: a process that lost it goes on      *)
(* scanning and fails every normalization until it is restarted.           *)
(***************************************************************************)
EXTENDS Naturals, Sequences, FiniteSets, SequencesExt

CONSTANTS
  Clients,      \* concurrent callers of create
  Servers,      \* processes that run the recovery loop
  Keys,         \* (owner, idempotency key) pairs
  Requests,     \* canonical requests
  Runs,         \* run identities uuid4 may draw
  Legacy,       \* runs found in the database, of an incompatible graph version
  NoRow, NoCheckpoint,
  BatchLimit,   \* rows one recovery scan takes, 8 in the service
  MaxFaults     \* bound on process stops and dependency failures

\* A row of research_runs; a run found in the database has a key and a request of its own.
Row == [key : Keys \cup Legacy, request : Requests \cup Legacy,
        status : {"RECEIVED", "BRIEF_NORMALIZED"}, accepted : Nat \cup {NoCheckpoint}]

ASSUME RunStoreAssumption ==
  /\ Legacy \subseteq Runs /\ IsFiniteSet(Legacy)
  /\ NoRow \notin Row
  /\ BatchLimit \in Nat \ {0}
  /\ MaxFaults \in Nat

VARIABLES
  runs,        \* research_runs: key, request, status, accepted_checkpoint_id
  fresh,       \* runs never attempted, by created_at
  attempted,   \* runs attempted before, by last_recovery_at
  checkpoints, \* the latest checkpoint of each run's graph: its stage and identifier
  client,      \* each caller's create transaction
  server,      \* each recovery loop: program counter and the rest of its batch
  saver,       \* each process's checkpoint connection: "open", "lost" or, not running, "down"
  receipts,    \* every acknowledgement a caller ever got
  faults       \* process stops and dependency failures so far

vars == <<runs, fresh, attempted, checkpoints, client, server, saver, receipts, faults>>

Committed == {r \in Runs : runs[r] # NoRow}

NoWork == [pc |-> "idle", todo |-> <<>>, found |-> NoCheckpoint]
NoCall == [pc |-> "idle"]

Init ==
  /\ runs = [r \in Runs |->
              IF r \in Legacy
              THEN [key |-> r, request |-> r, status |-> "RECEIVED", accepted |-> NoCheckpoint]
              ELSE NoRow]
  /\ fresh = SetToSeq(Legacy)
  /\ attempted = <<>>
  /\ checkpoints = [r \in Runs |-> [stage |-> "none", id |-> 0]]
  /\ client = [c \in Clients |-> NoCall]
  /\ server = [s \in Servers |-> NoWork]
  /\ saver = [s \in Servers |-> "open"]
  /\ receipts = {}
  /\ faults = 0

Current(s) == Head(server[s].todo)

\* normalize() holds its row lock from here to the commit or the rollback.
InTransaction(s) ==
  server[s].pc \in {"graph", "starting", "entering", "running", "verifying", "publishing"}

Locked(r) ==
  \E s \in Servers : InTransaction(s) /\ Current(s) = r

-----------------------------------------------------------------------------
(* create(): one transaction, arbitrated by the unique (owner, key) constraint *)

\* Runs a caller inserted and has not committed.
Inserting(k) == {c \in Clients : client[c].pc = "inserted" /\ client[c].key = k}

\* The slip of leaving the arbitration of a key to a lookup before the insert.
InsertUnarbitrated(c, k, q, r) ==
  /\ client[c].pc = "idle"
  /\ \A other \in Committed : runs[other].key # k
  /\ r \notin Committed /\ \A d \in Clients : client[d].pc = "inserted" => client[d].run # r
  /\ client' = [client EXCEPT ![c] = [pc |-> "inserted", key |-> k, request |-> q, run |-> r]]
  /\ UNCHANGED <<runs, fresh, attempted, checkpoints, server, saver, receipts, faults>>

\* INSERT ... ON CONFLICT DO NOTHING waits for a transaction that holds the key.
Insert(c, k, q, r) ==
  /\ client[c].pc = "idle"
  /\ Inserting(k) = {}
  /\ \A other \in Committed : runs[other].key # k
  /\ r \notin Committed /\ \A d \in Clients : client[d].pc = "inserted" => client[d].run # r
  /\ client' = [client EXCEPT ![c] = [pc |-> "inserted", key |-> k, request |-> q, run |-> r]]
  /\ UNCHANGED <<runs, fresh, attempted, checkpoints, server, saver, receipts, faults>>

\* The commit makes the receipt durable; the caller has not heard of it yet.
CommitCreate(c) ==
  LET call == client[c] IN
  /\ call.pc = "inserted"
  /\ runs' = [runs EXCEPT ![call.run] =
               [key |-> call.key, request |-> call.request, status |-> "RECEIVED",
                accepted |-> NoCheckpoint]]
  /\ fresh' = Append(fresh, call.run)
  /\ client' = [client EXCEPT ![c].pc = "committed"]
  /\ UNCHANGED <<attempted, checkpoints, server, saver, receipts, faults>>

\* The acknowledgement reaches the caller.
Acknowledge(c) ==
  LET call == client[c] IN
  /\ call.pc = "committed"
  /\ receipts' = receipts \cup {[key |-> call.key, request |-> call.request, run |-> call.run]}
  /\ client' = [client EXCEPT ![c] = NoCall]
  /\ UNCHANGED <<runs, fresh, attempted, checkpoints, server, saver, faults>>

\* The transaction rolls back, or the acknowledgement is lost.
AbandonCreate(c) ==
  /\ client[c].pc \in {"inserted", "committed"}
  /\ client' = [client EXCEPT ![c] = NoCall]
  /\ UNCHANGED <<runs, fresh, attempted, checkpoints, server, saver, receipts, faults>>

\* A retry: the row that holds the key is locked and answers, if the request is the same.
Replay(c, k, q) ==
  /\ client[c].pc = "idle"
  /\ \E r \in Committed :
       /\ runs[r].key = k /\ runs[r].request = q
       /\ ~Locked(r)
       /\ receipts' = receipts \cup {[key |-> k, request |-> q, run |-> r]}
  /\ UNCHANGED <<runs, fresh, attempted, checkpoints, client, server, saver, faults>>

-----------------------------------------------------------------------------
(* recover_pending(): scan, then attempt and normalize row after row *)

\* Rows of this batch that are left after the current one.
Advance(s) ==
  LET rest == Tail(server[s].todo) IN
  server' = [server EXCEPT ![s] =
              IF rest = <<>> THEN NoWork
              ELSE [NoWork EXCEPT !.pc = "attempting", !.todo = rest]]

Quit(s) == server' = [server EXCEPT ![s] = NoWork]

At(s, pc) == server' = [server EXCEPT ![s].pc = pc]

\* The elements of a queue that are in S, in their order.
Among(queue, S) ==
  LET kept[n \in 0 .. Len(queue)] ==
        IF n = 0 THEN <<>>
        ELSE IF queue[n] \in S THEN Append(kept[n - 1], queue[n]) ELSE kept[n - 1]
  IN kept[Len(queue)]

Pending == Among(fresh \o attempted, {r \in Committed : runs[r].status = "RECEIVED"})

Scan(s) ==
  /\ server[s].pc = "idle"
  /\ saver[s] # "down"
  /\ Pending # <<>>
  /\ server' = [server EXCEPT ![s] =
                 [NoWork EXCEPT
                   !.pc = "attempting",
                   !.todo = SubSeq(Pending, 1, IF Len(Pending) < BatchLimit THEN Len(Pending)
                                               ELSE BatchLimit)]]
  /\ UNCHANGED <<runs, fresh, attempted, checkpoints, client, saver, receipts, faults>>

\* The slip of stamping an attempt only once it succeeded.
RecordAttemptLater(s) ==
  /\ server[s].pc = "attempting"
  /\ ~Locked(Current(s))
  /\ At(s, "locking")
  /\ UNCHANGED <<runs, fresh, attempted, checkpoints, client, saver, receipts, faults>>

\* _record_attempt commits before the attempt and rotates the row behind every other.
RecordAttempt(s) ==
  LET r == Current(s)
      others == Runs \ {r}
  IN
  /\ server[s].pc = "attempting"
  /\ ~Locked(r)
  /\ fresh' = Among(fresh, others)
  /\ attempted' = Append(Among(attempted, others), r)
  /\ At(s, "locking")
  /\ UNCHANGED <<runs, checkpoints, client, saver, receipts, faults>>

\* The row stays locked past lock_timeout: outside normalize() the error ends the batch,
\* inside it the run is marked and the batch goes on.
LockTimeout(s) ==
  /\ server[s].pc \in {"attempting", "locking", "erring"}
  /\ Locked(Current(s))
  /\ IF server[s].pc = "locking" THEN At(s, "erring") ELSE Quit(s)
  /\ UNCHANGED <<runs, fresh, attempted, checkpoints, client, saver, receipts, faults>>

\* The process can read and write checkpoints.
Serving(s) == saver[s] = "open"

\* normalize() finds the run accepted: it verifies the checkpoint and publishes nothing.
AlreadyAccepted(s) ==
  LET r == Current(s) IN
  /\ server[s].pc = "locking"
  /\ ~Locked(r)
  /\ runs[r].status = "BRIEF_NORMALIZED" /\ r \notin Legacy
  /\ IF Serving(s) /\ runs[r].accepted = checkpoints[r].id
     THEN Advance(s) ELSE At(s, "erring")
  /\ UNCHANGED <<runs, fresh, attempted, checkpoints, client, saver, receipts, faults>>

\* _expected refuses a row of another graph version.
RefuseVersion(s) ==
  /\ server[s].pc = "locking"
  /\ ~Locked(Current(s))
  /\ Current(s) \in Legacy
  /\ At(s, "erring")
  /\ UNCHANGED <<runs, fresh, attempted, checkpoints, client, saver, receipts, faults>>

\* The UPDATE of recovery_error_code, then the next row.
RecordError(s) ==
  /\ server[s].pc = "erring"
  /\ ~Locked(Current(s))
  /\ Advance(s)
  /\ UNCHANGED <<runs, fresh, attempted, checkpoints, client, saver, receipts, faults>>

\* The slip of reading the row without FOR UPDATE.
LockNothing(s) ==
  LET r == Current(s) IN
  /\ server[s].pc = "locking"
  /\ runs[r].status = "RECEIVED" /\ r \notin Legacy
  /\ At(s, "graph")
  /\ UNCHANGED <<runs, fresh, attempted, checkpoints, client, saver, receipts, faults>>

\* The row lock is granted on a receipt that still has to be normalized.
Lock(s) ==
  LET r == Current(s) IN
  /\ server[s].pc = "locking"
  /\ ~Locked(r)
  /\ runs[r].status = "RECEIVED" /\ r \notin Legacy
  /\ At(s, "graph")
  /\ UNCHANGED <<runs, fresh, attempted, checkpoints, client, saver, receipts, faults>>

-----------------------------------------------------------------------------
(* NormalizationGraph.finish() and the publication, under the row lock *)

\* finish() looks at the saved checkpoint once: it starts the graph, resumes it, or only
\* verifies what an earlier attempt finished.  One that stopped at its first checkpoint has no
\* identity yet, which validate_identity refuses.
Inspect(s) ==
  /\ server[s].pc = "graph"
  /\ Serving(s)
  /\ LET stage == checkpoints[Current(s)].stage IN
       At(s, IF stage = "none" THEN "starting"
             ELSE IF stage = "input" THEN "erring"
             ELSE IF stage = "pending" THEN "running" ELSE "verifying")
  /\ UNCHANGED <<runs, fresh, attempted, checkpoints, client, saver, receipts, faults>>

Save(r, stage) ==
  checkpoints' = [checkpoints EXCEPT ![r] = [stage |-> stage, id |-> @.id + 1]]

\* External: LangGraph saves the input before it enters the channels of the state ...
SaveInput(s) ==
  /\ server[s].pc = "starting"
  /\ Serving(s)
  /\ Save(Current(s), "input")
  /\ At(s, "entering")
  /\ UNCHANGED <<runs, fresh, attempted, client, saver, receipts, faults>>

\* ... and once more with the values, before the node runs.
EnterGraph(s) ==
  /\ server[s].pc = "entering"
  /\ Serving(s)
  /\ Save(Current(s), "pending")
  /\ At(s, "running")
  /\ UNCHANGED <<runs, fresh, attempted, client, saver, receipts, faults>>

\* The node runs, in the invocation that saved the input or in one that resumes it.
RunNode(s) ==
  /\ server[s].pc = "running"
  /\ Serving(s)
  /\ Save(Current(s), "finished")
  /\ At(s, "verifying")
  /\ UNCHANGED <<runs, fresh, attempted, client, saver, receipts, faults>>

\* verify_finished refuses an unfinished graph and returns the identifier of a finished one.
Verify(s) ==
  LET saved == checkpoints[Current(s)] IN
  /\ server[s].pc = "verifying"
  /\ Serving(s)
  /\ IF saved.stage = "finished"
     THEN server' = [server EXCEPT ![s].pc = "publishing", ![s].found = saved.id]
     ELSE At(s, "erring")
  /\ UNCHANGED <<runs, fresh, attempted, checkpoints, client, saver, receipts, faults>>

\* Any of these calls fails without the checkpoint connection: the transaction rolls back.
Unreachable(s) ==
  /\ server[s].pc \in {"graph", "starting", "entering", "running", "verifying"}
  /\ ~Serving(s)
  /\ At(s, "erring")
  /\ UNCHANGED <<runs, fresh, attempted, checkpoints, client, saver, receipts, faults>>

\* _publish and its commit, which releases the lock; a second event for one run is refused.
Publish(s) ==
  LET r == Current(s) IN
  /\ server[s].pc = "publishing"
  /\ IF runs[r].status = "RECEIVED"
     THEN /\ runs' = [runs EXCEPT ![r].status = "BRIEF_NORMALIZED",
                                  ![r].accepted = server[s].found]
          /\ Advance(s)
     ELSE At(s, "erring") /\ UNCHANGED runs
  /\ UNCHANGED <<fresh, attempted, checkpoints, client, saver, receipts, faults>>

-----------------------------------------------------------------------------
(* Faults *)

\* The publication commits and its acknowledgement is lost: the run is handled as a failed one.
PublishUnheard(s) ==
  LET r == Current(s) IN
  /\ faults < MaxFaults
  /\ server[s].pc = "publishing"
  /\ runs[r].status = "RECEIVED"
  /\ runs' = [runs EXCEPT ![r].status = "BRIEF_NORMALIZED", ![r].accepted = server[s].found]
  /\ At(s, "erring")
  /\ faults' = faults + 1
  /\ UNCHANGED <<fresh, attempted, checkpoints, client, saver, receipts>>

\* A connection of the pool is lost and replaced later: the transaction rolls back and the
\* failure is handled like a timeout.
Fail(s) ==
  /\ faults < MaxFaults
  /\ server[s].pc # "idle"
  /\ IF server[s].pc = "locking" \/ InTransaction(s) THEN At(s, "erring") ELSE Quit(s)
  /\ faults' = faults + 1
  /\ UNCHANGED <<runs, fresh, attempted, checkpoints, client, saver, receipts>>

\* The checkpoint connection is lost; ready() answers 503 from now on, and nothing opens it again.
LoseSaver(s) ==
  /\ faults < MaxFaults
  /\ Serving(s)
  /\ saver' = [saver EXCEPT ![s] = "lost"]
  /\ faults' = faults + 1
  /\ UNCHANGED <<runs, fresh, attempted, checkpoints, client, server, receipts>>

\* The process stops; its transaction rolls back, its checkpoints stay.
Crash(s) ==
  /\ faults < MaxFaults
  /\ saver[s] # "down"
  /\ Quit(s)
  /\ saver' = [saver EXCEPT ![s] = "down"]
  /\ faults' = faults + 1
  /\ UNCHANGED <<runs, fresh, attempted, checkpoints, client, receipts>>

\* Somebody starts a process in the place of one that stopped or has to be stopped for that; it
\* opens connections of its own.
Relaunch(s) ==
  /\ ~Serving(s)
  /\ Quit(s)
  /\ saver' = [saver EXCEPT ![s] = "open"]
  /\ UNCHANGED <<runs, fresh, attempted, checkpoints, client, receipts, faults>>

Recovery(s) ==
  \/ Scan(s)
  \/ RecordAttempt(s)
  \/ LockTimeout(s)
  \/ AlreadyAccepted(s)
  \/ RefuseVersion(s)
  \/ RecordError(s)
  \/ Lock(s)
  \/ Inspect(s)
  \/ SaveInput(s)
  \/ EnterGraph(s)
  \/ RunNode(s)
  \/ Verify(s)
  \/ Unreachable(s)
  \/ Publish(s)

Next ==
  \/ \E c \in Clients, k \in Keys, q \in Requests :
       \/ \E r \in Runs : Insert(c, k, q, r)
       \/ Replay(c, k, q)
  \/ \E c \in Clients : CommitCreate(c) \/ Acknowledge(c) \/ AbandonCreate(c)
  \/ \E s \in Servers :
       \/ Recovery(s)
       \/ PublishUnheard(s) \/ Fail(s) \/ LoseSaver(s) \/ Crash(s) \/ Relaunch(s)

\* The loop of app.py runs recover_pending again two seconds after it returned, whatever it
\* met, for as long as its process lives.  Nothing in the program starts a process again.
Spec == Init /\ [][Next]_vars /\ \A s \in Servers : WF_vars(Recovery(s))

-----------------------------------------------------------------------------
(* Properties *)

\* Whatever callers retry, lose and race for, a key that was ever acknowledged names one run
\* with one request, and that run is durable ("Commit a stable owner-scoped receipt before
\* acknowledging", app.create_run).
ReceiptsAreStable ==
  /\ \A a \in receipts :
       a.run \in Committed /\ runs[a.run].key = a.key /\ runs[a.run].request = a.request
  /\ \A a, b \in receipts : a.key = b.key => a.run = b.run

\* An accepted run can be read at any time: its latest checkpoint is the finished one it was
\* accepted with, although checkpoints and rows commit apart and other processes recover the
\* same run (_verify_accepted fails closed otherwise).
AcceptedStaysReadable ==
  \A r \in Committed :
    runs[r].status = "BRIEF_NORMALIZED" =>
      checkpoints[r].stage = "finished" /\ checkpoints[r].id = runs[r].accepted

\* A graph that stopped between its first two checkpoints: no attempt gets past it.
Stranded(r) ==
  /\ checkpoints[r].stage = "input"
  /\ \A s \in Servers : server[s].pc = "entering" => Current(s) # r

\* From some time on a process serves, and none that lost its checkpoint connection is left
\* running beside it.
Operated ==
  <>[](/\ \E s \in Servers : Serving(s)
       /\ \A s \in Servers : saver[s] # "lost")

\* A receipt is normalized in the end, unless its graph is stranded, where somebody stops or
\* restarts the processes that lost their checkpoint connection and keeps one that has it: other
\* stops, lost connections of the pool, a competing process and runs that fail every attempt
\* delay a receipt and never starve it ("Rotate failed work before retrying so one poison record
\* cannot starve later runs", _record_attempt).
ReceiptsAreNormalized ==
  Operated =>
    \A r \in Runs \ Legacy :
      r \in Committed ~>
        (r \in Committed /\ runs[r].status = "BRIEF_NORMALIZED") \/ Stranded(r)

=============================================================================
