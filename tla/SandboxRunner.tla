---------------------------- MODULE SandboxRunner ---------------------------
(***************************************************************************)
(* The sandbox runner (sandbox/runner.py): one experiment at a time in a   *)
(* container that is created, verified, started, observed and removed by   *)
(* docker commands of bounded time, over a staged bundle of its inputs.    *)
(* A command may time out, fail to start or report an error at any point,  *)
(* and a create that was cut short may still be completed by the daemon.   *)
(***************************************************************************)
EXTENDS Integers, FiniteSets

CONSTANTS
  Attempts,    \* calls of run_experiment
  NoAttempt,
  MaxCrashes   \* bound: crashes of the controller process

ASSUME SandboxAssumption == NoAttempt \notin Attempts /\ MaxCrashes \in Nat

VARIABLES
  running,    \* the holder of _EXECUTION_LOCK
  attempt,    \* each call: program counter and its state dictionary
  container,  \* of the call's nonce: "none", "pending", "created", "running" or "exited"
  bundle,     \* the staged inputs: "none", "present" or "removed"
  begun,      \* calls whose start receipt (with the nonce) is stored
  crashes

sandboxVars == <<running, attempt, container, bundle, begun, crashes>>

\* The state dictionary of _run_admitted().  "exit" is the container's recorded exit: "none",
\* "zero" or "other"; "reason" is why the attached start command ended.
NewState ==
  [pc |-> "idle", status |-> "failed", launched |-> FALSE, identified |-> FALSE,
   exit |-> "none", cleanup |-> "not_started", outputs |-> FALSE, uncertain |-> FALSE,
   reason |-> "none", failure |-> TRUE]

InitSandbox ==
  /\ running = NoAttempt
  /\ attempt = [a \in Attempts |-> NewState]
  /\ container = [a \in Attempts |-> "none"]
  /\ bundle = [a \in Attempts |-> "none"]
  /\ begun = {}
  /\ crashes = 0

-----------------------------------------------------------------------------

BoxAt(a, pc) == attempt[a].pc = pc
BoxGo(a, pc) == attempt' = [attempt EXCEPT ![a].pc = pc]

\* An error of the launched part ends in the cleanup of the container, with status "failed".
ToCleanup(a) == attempt' = [attempt EXCEPT ![a].pc = "removing", ![a].status = "failed",
                                           ![a].failure = TRUE]

Reasons == {"exited", "timed_out", "cancelled", "output_limit"}

\* Admission, the lock and the start receipt; a refusal leaves nothing behind.
Admit(a) ==
  /\ BoxAt(a, "idle")
  /\ \/ BoxGo(a, "refused") /\ UNCHANGED <<running, begun>>
     \/ /\ running = NoAttempt
        /\ running' = a
        /\ begun' = begun \cup {a}
        /\ BoxGo(a, "staging")
  /\ UNCHANGED <<container, bundle, crashes>>

\* Cancellation, profile and preflight are checked and the inputs staged; when anything fails
\* nothing was launched and what was staged is removed.
StageInputs(a) ==
  /\ BoxAt(a, "staging")
  /\ \/ BoxGo(a, "creating") /\ bundle' = [bundle EXCEPT ![a] = "present"]
     \/ BoxGo(a, "publishing") /\ UNCHANGED bundle
     \/ BoxGo(a, "unstaging") /\ bundle' = [bundle EXCEPT ![a] = "present"]
  /\ UNCHANGED <<running, container, begun, crashes>>

\* docker create: answered by the daemon; refused by it, or its answer not saved; or cut short
\* with the daemon at work, when a container that is found meanwhile is not used either.
Create(a) ==
  /\ BoxAt(a, "creating")
  /\ \/ /\ container' = [container EXCEPT ![a] = "created"]
        /\ attempt' = [attempt EXCEPT ![a].pc = "finding", ![a].launched = TRUE,
                                      ![a].cleanup = "unconfirmed"]
     \/ /\ container' \in {[container EXCEPT ![a] = c] : c \in {"none", "created"}}
        /\ attempt' = [attempt EXCEPT ![a].pc = "removing", ![a].launched = TRUE,
                                      ![a].cleanup = "unconfirmed"]
     \/ \E c \in {"none", "pending", "created"}, found \in BOOLEAN :
          /\ found => c = "created"
          /\ container' = [container EXCEPT ![a] = c]
          /\ attempt' = [attempt EXCEPT ![a].pc = "removing", ![a].launched = TRUE,
                                        ![a].cleanup = "unconfirmed", ![a].uncertain = TRUE,
                                        ![a].identified = found]
  /\ UNCHANGED <<running, bundle, begun, crashes>>

\* The daemon completes a create whose client is gone.
DaemonCreates(a) ==
  /\ container[a] = "pending"
  /\ container' = [container EXCEPT ![a] = "created"]
  /\ UNCHANGED <<running, attempt, bundle, begun, crashes>>

\* The container is found by its nonce and its effective policy verified.
FindAndVerify(a) ==
  /\ BoxAt(a, "finding")
  /\ \/ ToCleanup(a)
     \/ attempt' = [attempt EXCEPT ![a].pc = "removing", ![a].identified = TRUE]
     \/ attempt' = [attempt EXCEPT ![a].pc = "attaching", ![a].identified = TRUE]
  /\ UNCHANGED <<running, container, bundle, begun, crashes>>

\* docker start --attach: it ends with the container, or is ended by the timeout, the
\* cancellation or the output limit while the container may go on.  A cancellation that was
\* there before starts nothing.
Attach(a) ==
  /\ BoxAt(a, "attaching")
  /\ \/ \E reason \in Reasons, c \in {"created", "running", "exited"} :
          /\ reason = "exited" => c # "running"
          /\ container' = [container EXCEPT ![a] = c]
          /\ attempt' = [attempt EXCEPT ![a].pc = "observing", ![a].outputs = TRUE,
                                        ![a].reason = reason]
     \/ /\ container' \in {[container EXCEPT ![a] = c] : c \in {"created", "running", "exited"}}
        /\ ToCleanup(a)
  /\ UNCHANGED <<running, bundle, begun, crashes>>

\* A container that still runs is killed (the answer of kill is not looked at), then its state
\* is inspected and turned into the outcome.
Observe(a) ==
  LET reason == attempt[a].reason IN
  /\ BoxAt(a, "observing")
  /\ \/ ToCleanup(a) /\ UNCHANGED container
     \/ /\ container' \in IF reason = "exited" \/ container[a] # "running" THEN {container}
                          ELSE {container, [container EXCEPT ![a] = "exited"]}
        /\ \E exit \in IF container'[a] = "exited" THEN {"zero", "other"} ELSE {"none"} :
             attempt' = [attempt EXCEPT
               ![a].pc = "removing", ![a].exit = exit,
               ![a].status = CASE reason \in {"timed_out", "cancelled"} -> reason
                               [] reason = "exited" /\ exit = "zero" -> "completed"
                               [] OTHER -> "failed",
               ![a].failure = ~(reason = "exited" /\ exit = "zero")]
  /\ UNCHANGED <<running, bundle, begun, crashes>>

\* A container that runs ends on its own.
ContainerExits(a) ==
  /\ container[a] = "running"
  /\ container' = [container EXCEPT ![a] = "exited"]
  /\ UNCHANGED <<running, attempt, bundle, begun, crashes>>

\* The slip of taking the answer of docker rm for the absence of the container.
RemoveUncertain(a) ==
  /\ BoxAt(a, "removing")
  /\ \E removed, confirmed \in BOOLEAN :
       /\ confirmed => container[a] \in {"none", "pending"} \/ removed
       /\ container' = IF removed /\ container[a] # "pending"
                       THEN [container EXCEPT ![a] = "none"] ELSE container
       /\ attempt' = [attempt EXCEPT
            ![a].pc = "unstaging",
            ![a].cleanup = IF confirmed THEN "confirmed" ELSE "unconfirmed"]
  /\ UNCHANGED <<running, bundle, begun, crashes>>

\* remove_owned(): found, removed by force and looked for again; only a daemon that answers
\* every command confirms the absence, and never after a create nobody knows the end of.
RemoveContainer(a) ==
  /\ BoxAt(a, "removing")
  /\ \E removed, confirmed \in BOOLEAN :
       /\ confirmed => container[a] \in {"none", "pending"} \/ removed
       /\ container' = IF removed /\ container[a] # "pending"
                       THEN [container EXCEPT ![a] = "none"] ELSE container
       /\ attempt' = [attempt EXCEPT
            ![a].pc = "unstaging",
            ![a].cleanup = IF confirmed /\ ~attempt[a].uncertain THEN "confirmed"
                           ELSE "unconfirmed"]
  /\ UNCHANGED <<running, bundle, begun, crashes>>

\* Saving the cleanup evidence fails: the outcome becomes a failure, the cleanup stays.
SaveFails(a) ==
  /\ BoxAt(a, "unstaging")
  /\ attempt[a].launched
  /\ attempt' = [attempt EXCEPT ![a].status = "failed", ![a].failure = TRUE]
  /\ UNCHANGED <<running, container, bundle, begun, crashes>>

\* The slip of removing the bundle whatever became of the container.
UnstageAlways(a) ==
  /\ BoxAt(a, "unstaging")
  /\ bundle' = [bundle EXCEPT ![a] = "removed"]
  /\ BoxGo(a, "publishing")
  /\ UNCHANGED <<running, container, begun, crashes>>

\* The staged bundle is removed unless cleanup_allowed() says that a container may still use
\* it; a removal that fails is a failure of the experiment.
Unstage(a) ==
  /\ BoxAt(a, "unstaging")
  /\ \/ /\ attempt[a].cleanup = "unconfirmed"
        /\ BoxGo(a, "publishing")
        /\ UNCHANGED bundle
     \/ /\ attempt[a].cleanup # "unconfirmed"
        /\ bundle' = [bundle EXCEPT ![a] = "removed"]
        /\ BoxGo(a, "publishing")
     \/ /\ attempt[a].cleanup # "unconfirmed"
        /\ attempt' = [attempt EXCEPT ![a].pc = "publishing", ![a].status = "failed",
                                      ![a].failure = TRUE]
        /\ UNCHANGED bundle
  /\ UNCHANGED <<running, container, begun, crashes>>

\* The slip of reporting the status the launched part left, whatever became of the cleanup.
ReportedAsLeft(state) == state

\* The status of the terminal result: an unconfirmed cleanup overrides every other outcome.
Reported(state) ==
  IF state.cleanup = "unconfirmed"
  THEN [state EXCEPT !.status = "cleanup_unconfirmed", !.failure = TRUE]
  ELSE state

\* The result is validated and stored, and the lock released.
PublishResult(a) ==
  /\ BoxAt(a, "publishing")
  /\ attempt' = [attempt EXCEPT ![a] = [Reported(attempt[a]) EXCEPT !.pc = "reported"]]
  /\ running' = NoAttempt
  /\ UNCHANGED <<container, bundle, begun, crashes>>

\* The controller process stops wherever it is.
ControllerCrash ==
  /\ crashes < MaxCrashes
  /\ running # NoAttempt
  /\ crashes' = crashes + 1
  /\ BoxGo(running, "crashed")
  /\ running' = NoAttempt
  /\ UNCHANGED <<container, bundle, begun>>

NextSandbox ==
  \/ \E a \in Attempts :
       \/ Admit(a) \/ StageInputs(a) \/ Create(a) \/ DaemonCreates(a) \/ FindAndVerify(a)
       \/ Attach(a) \/ Observe(a) \/ ContainerExits(a) \/ RemoveContainer(a) \/ SaveFails(a)
       \/ Unstage(a) \/ PublishResult(a)
  \/ ControllerCrash

SandboxSpec == InitSandbox /\ [][NextSandbox]_sandboxVars

-----------------------------------------------------------------------------

\* The inputs of an experiment outlive its container, also a container that the daemon has not
\* created yet, and what exists can be found by the nonce of a stored start receipt, whatever
\* command failed and wherever the controller stopped (runner.py:179-184, 208-213, 307-310).
MountOutlivesContainer ==
  \A a \in Attempts : container[a] # "none" => bundle[a] = "present" /\ a \in begun

\* A confirmed cleanup is the truth: no container of the experiment exists or will (runner.py:308).
ConfirmedIsGone ==
  \A a \in Attempts : attempt[a].cleanup = "confirmed" => container[a] = "none"

\* ExperimentResult.coherent_outcome
Coherent(state) ==
  /\ state.launched =>
       /\ state.cleanup # "not_started"
       /\ IF state.status = "cleanup_unconfirmed" THEN state.cleanup = "unconfirmed"
          ELSE /\ state.cleanup = "confirmed"
               /\ ~state.identified => /\ state.status = "failed"
                                       /\ state.exit = "none"
                                       /\ ~state.outputs
  /\ ~state.launched =>
       /\ state.status = "failed"
       /\ ~state.identified /\ state.exit = "none" /\ ~state.outputs
       /\ state.cleanup = "not_started"
  /\ IF state.status = "completed" THEN state.exit = "zero" /\ ~state.failure
     ELSE state.failure

\* Every path through the runner ends in a result its own contract accepts, so that an
\* experiment whose controller lives always leaves a terminal record (domain/experiments.py:175).
ResultsAreCoherent ==
  \A a \in Attempts : BoxAt(a, "reported") => Coherent(attempt[a])
=============================================================================
