---------------------------- MODULE ResearchBatch ----------------------------
(***************************************************************************)
(* A batch of researches (evaluation/research_runner.py and                *)
(* research_batch.py): one controller runs the command of every case of a  *)
(* suite in order, writes a durable journal entry around each, submits     *)
(* the results, and the submission is graded from the saved evidence.  The *)
(* controller may stop anywhere, workers fail, and evidence may be damaged *)
(* in the store.  Apart from the batch and sharing no state with it, its   *)
(* sources are discovered, its datasets are opened from a catalog, and a   *)
(* local model is called.                                                  *)
(***************************************************************************)
EXTENDS SynthesisRun, Discovery, DatasetCatalog, ModelProvider

CONSTANTS
  Controller,     \* the process of the batch
  Cases,          \* the runs of the cases, in the order of the suite
  Ceilings        \* what an operator may authorize, in calls of a model

\* Every case has a request and so a run of its own (ResearchSuite.distinct_inputs).
ASSUME BatchAssumption ==
  /\ Controller \in Processes
  /\ Cases \in Seq(Runs)
  /\ \A i, j \in DOMAIN Cases : Cases[i] = Cases[j] => i = j
  /\ IsFiniteSet(Runs)
  /\ Ceilings \subseteq Nat

VARIABLES
  batch,      \* where the controller is, what the worker returned, and what was collected
  journal,    \* the durable entries
  damaged     \* runs whose evidence can no longer be verified

batchVars == <<synthesisVars, batch, journal, damaged>>

InitBatch ==
  /\ InitSynthesis
  /\ batch \in [pc : {"idle"}, case : {1}, returned : {{}}, results : {{}}, ceiling : Ceilings]
  /\ journal = <<>>
  /\ damaged = {}

BatchAt(pc) == batch.pc = pc

\* An entry names the result of its case, if there is one.
Journal(event, results) ==
  journal' = Append(journal, [event |-> event, case |-> batch.case, result |-> results])

\* The slip of holding every case against the ceiling on its own.
AuthorizedEach(limits, ceiling) == \A i \in DOMAIN limits : limits[i] <= ceiling

Authorized(limits, ceiling) == SumFunction(limits) <= ceiling

\* The preflight of the whole suite; nothing has been dispatched when it fails.
BeginBatch ==
  /\ BatchAt("idle")
  /\ IF Authorized([i \in DOMAIN Cases |-> budget[Cases[i]].limit], batch.ceiling)
     THEN /\ batch' = [batch EXCEPT !.pc = "dispatching"]
          /\ Journal("batch_started", {})
     ELSE batch' = [batch EXCEPT !.pc = "refused"] /\ UNCHANGED journal
  /\ UNCHANGED <<synthesisVars, damaged>>

\* The slip of writing the entry with the verdict of the case only.
DispatchUnrecorded ==
  /\ BatchAt("dispatching") /\ batch.case \in DOMAIN Cases
  /\ batch' = [batch EXCEPT !.pc = "executing"]
  /\ UNCHANGED <<synthesisVars, journal, damaged>>

\* The entry is on disk before the worker is called.
DispatchCase ==
  /\ BatchAt("dispatching") /\ batch.case \in DOMAIN Cases
  /\ Journal("case_dispatch", {})
  /\ batch' = [batch EXCEPT !.pc = "executing"]
  /\ UNCHANGED <<synthesisVars, damaged>>

\* The run of the case is created, or not, and its command is executed.
ExecuteCase ==
  /\ BatchAt("executing")
  /\ \/ /\ StartCommand(Controller, Cases[batch.case])
        /\ batch' = [batch EXCEPT !.pc = "waiting"]
     \/ /\ batch' = [batch EXCEPT !.pc = "returned"]
        /\ UNCHANGED synthesisVars
  /\ UNCHANGED <<journal, damaged>>

\* A step of the worker; it returns its result or raises.
WorkerStep ==
  /\ BatchAt("waiting")
  /\ \/ /\ Work(Controller)
        /\ batch' = IF work'[Controller] # NoWork THEN batch
                    ELSE IF research' = research \/ WorkAt(Controller, "reserving")
                    THEN [batch EXCEPT !.pc = "returned"]
                    ELSE [batch EXCEPT !.pc = "returned",
                                       !.returned = {Result(Controller, WorkAt(Controller, "stopped"))}]
     \/ /\ StopCommand(Controller)
        /\ batch' = [batch EXCEPT !.pc = "returned"]
  /\ UNCHANGED <<journal, damaged>>

\* The result is kept, its evidence is verified, and the entry of the case is written: whatever the
\* worker returned is submitted, verified or not.  Another result than that of the case is unsettled.
RecordCase ==
  /\ BatchAt("returned")
  /\ \E result \in {batch.returned, {}}, readable \in BOOLEAN :
       LET run == Cases[batch.case]
           settled == /\ result # {} /\ readable /\ run \notin damaged
                      /\ \A r \in result : r.run = run
       IN /\ Journal(IF settled THEN "case_recorded" ELSE "case_unsettled", result)
          /\ batch' = [batch EXCEPT !.pc = "dispatching", !.case = @ + 1, !.returned = {},
                                   !.results = @ \cup {<<run, r>> : r \in result}]
  /\ UNCHANGED <<synthesisVars, damaged>>

FinishBatch ==
  /\ BatchAt("dispatching") /\ batch.case \notin DOMAIN Cases
  /\ Journal("batch_recorded", {})
  /\ batch' = [batch EXCEPT !.pc = "submitted"]
  /\ UNCHANGED <<synthesisVars, damaged>>

\* The controller and the worker inside it stop.
StopBatch ==
  /\ batch.pc \in {"dispatching", "executing", "waiting", "returned"}
  /\ batch' = [batch EXCEPT !.pc = "halted", !.returned = {}]
  /\ IF BatchAt("waiting") THEN StopCommand(Controller) ELSE UNCHANGED synthesisVars
  /\ UNCHANGED <<journal, damaged>>

\* An object that a result depends on is lost or altered.
DamageEvidence(run) ==
  /\ research[run] # {} /\ run \notin damaged
  /\ damaged' = damaged \cup {run}
  /\ UNCHANGED <<synthesisVars, batch, journal>>

NextBatch ==
  \/ BeginBatch \/ DispatchCase \/ ExecuteCase \/ WorkerStep \/ RecordCase \/ FinishBatch
  \/ StopBatch
  \/ \E run \in Runs : DamageEvidence(run)
  \/ /\ BatchAt("waiting")
     /\ ExpireBudget(Cases[batch.case])
     /\ UNCHANGED <<batch, journal, damaged>>

BatchSpec == InitBatch /\ [][NextBatch]_batchVars

-----------------------------------------------------------------------------
(* evaluate_batch() *)

\* A submission that repeats a case, adds one or reuses a result is rejected as a whole.
Rejected(results) ==
  \/ \E r, s \in results : r # s /\ (r[1] = s[1] \/ r[2] = s[2])
  \/ \E r \in results : \A i \in DOMAIN Cases : Cases[i] # r[1]

\* What is read again from the store: the result is of this case, and its budget is of its run.
Verified(run, result) == run \notin damaged /\ result.run = run

\* The evidence of every case of the suite, submitted or not.
EvidenceStatus(results, run) ==
  IF run \notin {r[1] : r \in results} THEN "missing"
  ELSE IF \E r \in results : r[1] = run /\ Verified(run, r[2]) THEN "verified"
  ELSE "invalid"

-----------------------------------------------------------------------------

Entries(event, case) == {i \in DOMAIN journal : journal[i].event = event /\ journal[i].case = case}

Settled(case) == Entries("case_recorded", case) \cup Entries("case_unsettled", case)

\* The journal accounts for a batch, wherever it stopped: no run has been touched before its durable
\* dispatch, only the last dispatch may lack its one verdict, and all runs together stay within what
\* was authorized.  The submission grades what the journal says: a case is missing exactly if its
\* entry names no result, and a recorded one is verified until its evidence is damaged
\* (evaluation/research_runner.py:58-159, research_batch.py:60-122).
BatchIsAccounted ==
  LET Dispatched(case) == Entries("case_dispatch", case) # {} IN
  ~BatchAt("idle") =>
    /\ \A case \in DOMAIN Cases :
         LET run == Cases[case] IN
         /\ ledger[run] # NoLedger \/ calls[run] # <<>> => Dispatched(case)
         /\ Cardinality(Settled(case)) <= 1
         /\ Dispatched(case + 1) \/ Entries("batch_recorded", Len(Cases) + 1) # {} =>
              Settled(case) # {}
         /\ \A i \in Settled(case) :
              LET status == EvidenceStatus(batch.results, run) IN
              /\ (status = "missing") <=> (journal[i].result = {})
              /\ journal[i].event = "case_recorded" /\ run \notin damaged => status = "verified"
              /\ journal[i].result \subseteq research[run]
    /\ ~Rejected(batch.results)
    /\ SumFunction([run \in Runs |-> Charged(run)]) <= batch.ceiling

\* What is handed to research is admissible when it is handed over: candidates of the request that
\* was made, a dataset whose rights permit the use, an answer whose record explains it
\* (retrieval/discovery_cache.py, data/catalog.py, providers/ollama.py).
OnlyAdmissibleAnswers ==
  /\ DiscoveryAnswersRequest
  /\ CatalogIsGuarded
  /\ RecordExplainsResult
=============================================================================
