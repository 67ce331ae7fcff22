---------------------------- MODULE LeanVerifier ----------------------------
(***************************************************************************)
(* The LEAN verifier service (interop/lean/service.py): handlers of one    *)
(* process share one admission slot and a quarantine flag, run an engine   *)
(* behind a deadline and a cancellation signal, and leave receipts in the  *)
(* artifact store.  A stored receipt is a record of what it states.        *)
(***************************************************************************)
EXTENDS Integers, FiniteSets

CONSTANTS
  Handlers,      \* calls of VerifyStrategy
  NoHandler,
  MaxRestarts    \* bound: restarts of the service process

ASSUME VerifierAssumption == NoHandler \notin Handlers /\ MaxRestarts \in Nat

VARIABLES
  slot,        \* the handler that owns the admission slot
  quarantined, \* _quarantined
  handler,     \* each handler: its program counter and what its call has seen
  engine,      \* the engine work of a handler: "none", "running", "left" or "orphan"
  started,     \* handlers whose VerificationStart is stored
  verdicts,    \* stored VerificationRecords
  restarts

leanVars == <<slot, quarantined, handler, engine, started, verdicts, restarts>>

\* What the backend returned: a run whose cleanup is unconfirmed, whose identity is not the
\* admitted one, whose clocks are not the source's, or whose values can be compared.
EngineRuns == {"unclean", "changed", "unordered", "agrees", "disagrees"}
NoRun == "none"

Fresh == [pc |-> "idle", late |-> FALSE, signal |-> FALSE, attempted |-> FALSE,
          run |-> NoRun, stopped |-> FALSE]

InitLean ==
  /\ slot = NoHandler
  /\ quarantined = FALSE
  /\ handler = [h \in Handlers |-> Fresh]
  /\ engine = [h \in Handlers |-> "none"]
  /\ started = {}
  /\ verdicts = {}
  /\ restarts = 0

-----------------------------------------------------------------------------

Inside == {"admitted", "reading", "starting", "prepared", "engine", "returned", "checking"}

LeanAt(h, pc) == handler[h].pc = pc

LeanGo(h, pc) == handler' = [handler EXCEPT ![h].pc = pc]

Released(h) == IF slot = h THEN NoHandler ELSE slot

\* The terminal record is published and the response returned; when the store refuses the call
\* is aborted instead.  The slot is released on every way out of the call.
FinishCall(h, outcome) ==
  /\ handler' = [handler EXCEPT ![h] = [Fresh EXCEPT !.pc = "done"]]
  /\ slot' = Released(h)
  /\ verdicts' \in {verdicts,
       verdicts \cup {[handler |-> h, outcome |-> outcome, start |-> h \in started,
                       attempted |-> handler[h].attempted,
                       run |-> handler[h].run, stopped |-> handler[h].stopped]}}

\* _stop(): the deadline of the server or the client, then the cancellation.
Stopped(h) == handler[h].late \/ handler[h].signal
StopOutcome(h) == IF handler[h].late THEN "deadline" ELSE "cancelled"

\* _ready(): a backend that answers; the answer is read again wherever the code asks.
Ready == ~quarantined

\* Authorization, profile and deadline are checked before the slot is tried.
Call(h) ==
  /\ LeanAt(h, "idle")
  /\ \/ \E outcome \in {"deadline", "unsupported"} : FinishCall(h, outcome)
     \/ /\ slot # NoHandler
        /\ FinishCall(h, "busy")
     \/ /\ slot = NoHandler
        /\ slot' = h
        /\ LeanGo(h, "admitted")
        /\ UNCHANGED verdicts
  /\ UNCHANGED <<quarantined, engine, started, restarts>>

\* The slip of an admission that does not look at the quarantine.
ConsiderUnready(h) ==
  /\ LeanAt(h, "admitted")
  /\ IF Stopped(h) THEN FinishCall(h, StopOutcome(h))
     ELSE LeanGo(h, "reading") /\ UNCHANGED <<slot, verdicts>>
  /\ UNCHANGED <<quarantined, engine, started, restarts>>

Consider(h) ==
  /\ LeanAt(h, "admitted")
  /\ IF Stopped(h) THEN FinishCall(h, StopOutcome(h))
     ELSE \/ FinishCall(h, "unavailable")
          \/ Ready /\ LeanGo(h, "reading") /\ UNCHANGED <<slot, verdicts>>
  /\ UNCHANGED <<quarantined, engine, started, restarts>>

\* Source and reference are read and bound to each other.
Read(h) ==
  /\ LeanAt(h, "reading")
  /\ \/ \E outcome \in {"unavailable", "unsupported"} : FinishCall(h, outcome)
     \/ Stopped(h) /\ FinishCall(h, StopOutcome(h))
     \/ ~Stopped(h) /\ LeanGo(h, "starting") /\ UNCHANGED <<slot, verdicts>>
  /\ UNCHANGED <<quarantined, engine, started, restarts>>

\* The prepared receipt is published before any engine work; without it the call is aborted.
Start(h) ==
  /\ LeanAt(h, "starting")
  /\ \/ started' = started \cup {h} /\ LeanGo(h, "prepared") /\ UNCHANGED slot
     \/ /\ UNCHANGED started
        /\ slot' = Released(h)
        /\ handler' = [handler EXCEPT ![h] = [Fresh EXCEPT !.pc = "done"]]
  /\ UNCHANGED <<quarantined, engine, verdicts, restarts>>

Launch(h) ==
  /\ LeanAt(h, "prepared")
  /\ IF Stopped(h)
     THEN FinishCall(h, StopOutcome(h)) /\ UNCHANGED engine
     ELSE /\ engine' = [engine EXCEPT ![h] = "running"]
          /\ handler' = [handler EXCEPT ![h].pc = "engine", ![h].attempted = TRUE]
          /\ UNCHANGED <<slot, verdicts>>
  /\ UNCHANGED <<quarantined, started, restarts>>

\* backend.execute() raises: whatever it was doing may still be there.
EngineFails(h) ==
  /\ LeanAt(h, "engine")
  /\ engine' \in {[engine EXCEPT ![h] = "none"], [engine EXCEPT ![h] = "left"]}
  /\ quarantined' = TRUE
  /\ FinishCall(h, "engine_failed")
  /\ UNCHANGED <<started, restarts>>

\* backend.execute() returns; unconfirmed cleanup quarantines the verifier at once.
EngineReturns(h) ==
  /\ LeanAt(h, "engine")
  /\ \E run \in EngineRuns :
       /\ engine' = [engine EXCEPT ![h] = IF run = "unclean" THEN "left" ELSE "none"]
       /\ quarantined' = (quarantined \/ run = "unclean")
       /\ handler' = [handler EXCEPT ![h].pc = "returned", ![h].run = run,
                                     ![h].stopped = Stopped(h)]
  /\ UNCHANGED <<slot, started, verdicts, restarts>>

\* The slip of comparing before the deadline and the cancellation are looked at again.
JudgeLate(h) ==
  LET run == handler[h].run IN
  /\ LeanAt(h, "returned")
  /\ FinishCall(h, CASE run = "agrees" -> "verified"
                     [] run = "disagrees" -> "disagreed"
                     [] OTHER -> "engine_failed")
  /\ UNCHANGED <<quarantined, engine, started, restarts>>

\* What the result is worth: a late answer first, then cleanup, identity, clocks and values.
Judge(h) ==
  LET run == handler[h].run IN
  /\ LeanAt(h, "returned")
  /\ FinishCall(h, CASE Stopped(h) -> StopOutcome(h)
                     [] ~Stopped(h) /\ Ready /\ run = "agrees" -> "verified"
                     [] ~Stopped(h) /\ Ready /\ run = "disagrees" -> "disagreed"
                     [] OTHER -> "engine_failed")
  /\ UNCHANGED <<quarantined, engine, started, restarts>>

\* The deadline passes or the transport ends while the call is in progress.
Interrupt(h) ==
  /\ handler[h].pc \in Inside
  /\ handler' \in {[handler EXCEPT ![h].late = TRUE], [handler EXCEPT ![h].signal = TRUE]}
  /\ handler' # handler
  /\ UNCHANGED <<slot, quarantined, engine, started, verdicts, restarts>>

\* The service process stops and starts again: slot and quarantine are in its memory only.
Restart ==
  /\ restarts < MaxRestarts
  /\ restarts' = restarts + 1
  /\ slot' = NoHandler
  /\ quarantined' = FALSE
  /\ handler' = [h \in Handlers |-> IF handler[h].pc \in Inside
                                    THEN [Fresh EXCEPT !.pc = "done"] ELSE handler[h]]
  /\ engine' = [h \in Handlers |-> IF engine[h] \in {"running", "left"} THEN "orphan"
                                   ELSE engine[h]]
  /\ UNCHANGED <<started, verdicts>>

NextLean ==
  \/ \E h \in Handlers :
       \/ Call(h) \/ Consider(h) \/ Read(h) \/ Start(h) \/ Launch(h)
       \/ EngineFails(h) \/ EngineReturns(h) \/ Judge(h) \/ Interrupt(h)
  \/ Restart

LeanSpec == InitLean /\ [][NextLean]_leanVars

-----------------------------------------------------------------------------

\* Engine work of one process never overlaps: as long as any may be left behind no other call
\* gets to its engine, whichever way the earlier call ended (service.py:402, 236, 453, 463).
\* What is left behind by a process that died has a prepared receipt.
OneEngine ==
  /\ Cardinality({h \in Handlers : engine[h] \in {"running", "left"}}) <= 1
  /\ \A h \in Handlers : engine[h] # "none" => h \in started
  /\ slot # NoHandler => handler[slot].pc \in Inside

\* A stored verdict was earned: a comparison is only reported for prepared engine work that was
\* cleaned up under an unchanged identity and returned before its deadline and cancellation,
\* and a call has at most one terminal record (service.py:464-517, 137-158).
VerdictsAreEarned ==
  \A v \in verdicts :
    /\ v.attempted => v.start
    /\ v.outcome \in {"verified", "disagreed"} =>
         /\ v.attempted
         /\ v.run = (IF v.outcome = "verified" THEN "agrees" ELSE "disagrees")
         /\ ~v.stopped
         /\ engine[v.handler] = "none"
    /\ \A u \in verdicts : u.handler = v.handler => u = v
=============================================================================
