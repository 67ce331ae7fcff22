---------------------------- MODULE ServicesProofs ----------------------------
(***************************************************************************)
(* Proofs about the services around a run, for every set of callers and    *)
(* every bound: the verifier and the sandbox that execute outside work,    *)
(* the artifact stores, the cache of signing keys, the replay of quotes,   *)
(* the dispatcher that calls blocking work and the durable store of runs.  *)
(***************************************************************************)
EXTENDS LeanVerifier, SandboxRunner, ArtifactStore, KeyCache, QuoteJournal, Dispatcher,
        RunStore, SumTheorems, SequenceTheorems, FiniteSetTheorems, TLAPS

-----------------------------------------------------------------------------
(* The verifier. *)

Places == Inside \cup {"idle", "done"}

Outcomes == {"deadline", "unsupported", "busy", "unavailable", "cancelled", "verified",
             "disagreed", "engine_failed"}

\* A terminal record of the evidence store.
Verdict == [handler : Handlers, outcome : Outcomes,
            start : BOOLEAN, attempted : BOOLEAN, run : EngineRuns \cup {NoRun}, stopped : BOOLEAN]

LeanTypeOK ==
  /\ slot \in Handlers \cup {NoHandler}
  /\ quarantined \in BOOLEAN
  /\ handler \in [Handlers -> [pc : Places, late : BOOLEAN, signal : BOOLEAN,
                               attempted : BOOLEAN, run : EngineRuns \cup {NoRun}, stopped : BOOLEAN]]
  /\ engine \in [Handlers -> {"none", "running", "left", "orphan"}]
  /\ started \in SUBSET Handlers
  /\ verdicts \in SUBSET Verdict
  /\ restarts \in Nat

\* What a handler's place in the call says of the rest of the state: the slot is its own inside
\* the call, the start receipt is stored before engine work, engine work that may be left keeps
\* the verifier quarantined, and the record is the last thing that a call does.
PlaceAgrees(h) ==
  /\ handler[h].pc \in Inside <=> slot = h
  /\ handler[h].pc \in {"prepared", "engine", "returned"} => h \in started
  /\ handler[h].attempted => h \in started
  /\ engine[h] = "running" <=> handler[h].pc = "engine"
  /\ engine[h] = "left" => quarantined /\ handler[h].pc \in {"returned", "done"}
  /\ engine[h] = "orphan" => handler[h].pc = "done"
  /\ engine[h] # "none" => h \in started
  /\ quarantined => handler[h].pc \notin {"reading", "starting", "prepared", "engine"}
  /\ handler[h].pc \in {"engine", "returned"} => handler[h].attempted
  /\ handler[h].pc = "returned" =>
       /\ handler[h].run # "unclean" => engine[h] = "none"
       /\ handler[h].stopped => Stopped(h)

RecordsAgree ==
  \A v \in verdicts :
    /\ handler[v.handler].pc = "done"
    /\ v.attempted => v.start
    /\ v.outcome \in {"verified", "disagreed"} =>
         /\ v.attempted
         /\ v.run = (IF v.outcome = "verified" THEN "agrees" ELSE "disagrees")
         /\ ~v.stopped
         /\ engine[v.handler] = "none"
    /\ \A u \in verdicts : u.handler = v.handler => u = v

\* Engine work of this process belongs to one call.
OneLeft ==
  \A g, h \in Handlers : engine[g] \in {"running", "left"} /\ engine[h] \in {"running", "left"}
                           => g = h

LeanInv ==
  /\ LeanTypeOK
  /\ \A h \in Handlers : PlaceAgrees(h)
  /\ OneLeft
  /\ RecordsAgree

\* No call has begun.
LEMMA LeanInit == InitLean => LeanInv
<1> SUFFICES ASSUME InitLean PROVE LeanInv
  OBVIOUS
<1>1. LeanTypeOK
  <2>1. Fresh \in [pc : Places, late : BOOLEAN, signal : BOOLEAN, attempted : BOOLEAN,
                   run : EngineRuns \cup {NoRun}, stopped : BOOLEAN]
    BY DEF Fresh, Places
  <2>2. QED
    BY <2>1 DEF InitLean, LeanTypeOK
<1>2. ASSUME NEW h \in Handlers PROVE PlaceAgrees(h)
  BY <1>2, VerifierAssumption DEF VerifierAssumption, InitLean, Fresh, Inside, PlaceAgrees
<1>3. QED
  BY <1>1, <1>2 DEF InitLean, LeanInv, RecordsAgree, OneLeft

\* What the type invariant says of one handler.
LEMMA HandlerType ==
  ASSUME LeanTypeOK, NEW h \in Handlers
  PROVE  handler[h] \in [pc : Places, late : BOOLEAN, signal : BOOLEAN, attempted : BOOLEAN,
                         run : EngineRuns \cup {NoRun}, stopped : BOOLEAN]
BY DEF LeanTypeOK

\* A call is over: its record may be stored, its engine work may be left behind in quarantine, and
\* the slot is free again if it was its own.  A comparison must have been earned.
LEMMA FinishKeeps ==
  ASSUME LeanInv, NEW h \in Handlers, NEW outcome \in Outcomes, FinishCall(h, outcome),
         handler[h].pc \in Inside \cup {"idle"},
         UNCHANGED <<started, restarts>>,
         NEW e \in {"none", "left"}, engine' = [engine EXCEPT ![h] = e],
         quarantined' \in BOOLEAN, quarantined => quarantined', e = "left" => quarantined',
         quarantined' = quarantined \/ slot = h,
         outcome \in {"verified", "disagreed"} =>
           /\ handler[h].attempted /\ ~handler[h].stopped /\ e = "none"
           /\ handler[h].run = (IF outcome = "verified" THEN "agrees" ELSE "disagrees"),
         e = "left" => engine[h] \in {"running", "left"}
  PROVE  LeanInv'
<1> DEFINE v == [handler |-> h, outcome |-> outcome, start |-> h \in started,
                 attempted |-> handler[h].attempted, run |-> handler[h].run,
                 stopped |-> handler[h].stopped]
           done == [Fresh EXCEPT !.pc = "done"]
<1>1. /\ handler' = [handler EXCEPT ![h] = done]
      /\ slot' = (IF slot = h THEN NoHandler ELSE slot)
      /\ (verdicts' = verdicts \/ verdicts' = verdicts \cup {v})
  BY DEF FinishCall, Released
<1>d. /\ done \in [pc : Places, late : BOOLEAN, signal : BOOLEAN, attempted : BOOLEAN,
                   run : EngineRuns \cup {NoRun}, stopped : BOOLEAN]
      /\ done.pc = "done" /\ done.attempted = FALSE
  BY DEF Places, Fresh
<1> HIDE DEF done
<1>2. /\ handler'[h] = done /\ engine'[h] = e
      /\ \A g \in Handlers \ {h} : handler'[g] = handler[g] /\ engine'[g] = engine[g]
  BY <1>1 DEF LeanInv, LeanTypeOK
<1>3. v \in Verdict
  BY HandlerType DEF LeanInv, LeanTypeOK, Verdict, Outcomes
<1>4. LeanTypeOK'
  <2>1. verdicts' \in SUBSET Verdict
    BY <1>1, <1>3 DEF LeanInv, LeanTypeOK
  <2>2. QED
    BY <1>1, <1>d, <2>1 DEF LeanInv, LeanTypeOK
<1>5. /\ slot' # h
      /\ \A g \in Handlers \ {h} : slot' = g <=> slot = g
  BY <1>1, VerifierAssumption DEF VerifierAssumption
<1>6. PlaceAgrees(h)'
  BY <1>d, <1>2, <1>5 DEF PlaceAgrees, Inside, LeanInv, Stopped
<1>7. ASSUME NEW g \in Handlers \ {h} PROVE PlaceAgrees(g)'
  <2>1. PlaceAgrees(g)
    BY DEF LeanInv
  <2>2. quarantined' /\ ~quarantined => handler[g].pc \notin Inside
    BY <2>1 DEF PlaceAgrees
  <2>3. QED
    BY <1>2, <1>5, <1>7, <2>1, <2>2 DEF PlaceAgrees, Inside, Stopped
<1>8. OneLeft'
  <2>1. ASSUME NEW g \in Handlers \ {h}, e = "left" PROVE engine[g] \notin {"running", "left"}
    <3>1. engine[h] \in {"running", "left"} /\ g # h /\ g \in Handlers
      BY <2>1
    <3>2. QED
      BY <3>1 DEF LeanInv, OneLeft
  <2>2. QED
    BY <1>2, <2>1 DEF OneLeft, LeanInv
<1>9. RecordsAgree'
  <2>1. ASSUME NEW u \in verdicts PROVE u.handler # h /\ u.handler \in Handlers
    BY DEF LeanInv, RecordsAgree, LeanTypeOK, Verdict, Inside
  <2>2. v.attempted => v.start
    BY DEF LeanInv, PlaceAgrees
  <2>3. QED
    BY <1>d, <1>1, <1>2, <2>1, <2>2 DEF LeanInv, RecordsAgree
<1>10. QED
  BY <1>4, <1>6, <1>7, <1>8, <1>9 DEF LeanInv

\* A step inside a call leaves the calls of the others and the stored records alone.
LEMMA StepKeeps ==
  ASSUME LeanInv, NEW h \in Handlers, LeanTypeOK', PlaceAgrees(h)', handler[h].pc # "done",
         UNCHANGED verdicts, started \subseteq started',
         \A g \in Handlers \ {h} :
           handler'[g] = handler[g] /\ engine'[g] = engine[g] /\ (slot' = g <=> slot = g),
         quarantined' = quarantined \/ slot = h, quarantined => quarantined',
         engine'[h] \in {"running", "left"} =>
           \/ engine[h] \in {"running", "left"}
           \/ \A g \in Handlers \ {h} : engine[g] \notin {"running", "left"}
  PROVE  LeanInv'
<1>1. ASSUME NEW g \in Handlers \ {h} PROVE PlaceAgrees(g)'
  <2>1. PlaceAgrees(g)
    BY DEF LeanInv
  <2>2. quarantined' # quarantined => handler[g].pc \notin Inside
    BY <2>1 DEF PlaceAgrees
  <2>3. QED
    BY <1>1, <2>1, <2>2 DEF PlaceAgrees, Inside, Stopped, LeanTypeOK
<1>2. OneLeft'
  BY DEF LeanInv, OneLeft
<1>3. RecordsAgree'
  BY DEF LeanInv, RecordsAgree, LeanTypeOK, Verdict
<1>4. QED
  BY <1>1, <1>2, <1>3 DEF LeanInv

\* No step of a call, of the gateway or of a restart breaks the invariant of the verifier.
LEMMA LeanNext == LeanInv /\ [NextLean]_leanVars => LeanInv'
<1> SUFFICES ASSUME LeanInv, [NextLean]_leanVars PROVE LeanInv'
  OBVIOUS
<1>t. LeanTypeOK /\ \A h \in Handlers : PlaceAgrees(h)
  BY DEF LeanInv
<1>e. \A h \in Handlers : engine = [engine EXCEPT ![h] = engine[h]]
  BY <1>t DEF LeanTypeOK
<1>1. ASSUME NEW h \in Handlers, Call(h) PROVE LeanInv'
  <2>1. handler[h].pc = "idle" /\ engine[h] = "none"
    BY <1>1, <1>t DEF Call, LeanAt, PlaceAgrees, LeanTypeOK
  <2>2. CASE \E outcome \in {"deadline", "unsupported", "busy"} : FinishCall(h, outcome)
    BY <1>1, <1>t, <1>e, <2>1, <2>2, FinishKeeps DEF Call, Outcomes, LeanTypeOK
  <2>3. CASE slot = NoHandler /\ slot' = h /\ LeanGo(h, "admitted") /\ UNCHANGED verdicts
    <3>1. UNCHANGED <<quarantined, engine, started, restarts, verdicts>>
      BY <1>1, <2>3 DEF Call
    <3>2. handler' = [handler EXCEPT ![h].pc = "admitted"]
      BY <2>3 DEF LeanGo
    <3>3. LeanTypeOK'
      BY <1>t, <2>3, <3>1, <3>2 DEF LeanTypeOK, Places, Inside
    <3>4. handler'[h].pc = "admitted" /\ handler'[h].attempted = handler[h].attempted
      BY <1>t, <3>2 DEF LeanTypeOK
    <3>5. PlaceAgrees(h)'
      BY <1>t, <2>1, <2>3, <3>1, <3>4 DEF PlaceAgrees, Inside
    <3>6. \A g \in Handlers \ {h} :
            handler'[g] = handler[g] /\ engine'[g] = engine[g] /\ (slot' = g <=> slot = g)
      BY <1>t, <2>3, <3>1, <3>2, VerifierAssumption DEF LeanTypeOK, VerifierAssumption
    <3>7. QED
      BY <2>1, <3>1, <3>3, <3>5, <3>6, StepKeeps
  <2>4. QED
    BY <1>1, <2>2, <2>3 DEF Call
<1>2. ASSUME NEW h \in Handlers, NEW here, handler[h].pc = here, here \in Inside \ {"engine", "returned"},
             NEW outcome \in Outcomes \ {"verified", "disagreed"}, FinishCall(h, outcome),
             UNCHANGED <<quarantined, engine, started, restarts>>
      PROVE  LeanInv'
  <2>1. engine[h] = "none"
    BY <1>2, <1>t DEF PlaceAgrees, LeanTypeOK, Inside
  <2>2. QED
    BY <1>2, <1>t, <1>e, <2>1, FinishKeeps DEF LeanTypeOK
<1>3. ASSUME NEW h \in Handlers, NEW there \in {"reading", "starting"},
             handler[h].pc \in {"admitted", "reading"}, ~quarantined,
             LeanGo(h, there), UNCHANGED <<slot, verdicts, quarantined, engine, started, restarts>>
      PROVE  LeanInv'
  <2>1. handler' = [handler EXCEPT ![h].pc = there]
    BY <1>3 DEF LeanGo
  <2>2. LeanTypeOK'
    BY <1>t, <1>3, <2>1 DEF LeanTypeOK, Places, Inside
  <2>3. handler'[h].pc = there /\ handler'[h].attempted = handler[h].attempted
    BY <1>t, <2>1 DEF LeanTypeOK
  <2>4. PlaceAgrees(h)'
    BY <1>t, <1>3, <2>3 DEF PlaceAgrees, Inside
  <2>5. \A g \in Handlers \ {h} :
          handler'[g] = handler[g] /\ engine'[g] = engine[g] /\ (slot' = g <=> slot = g)
    BY <1>t, <1>3, <2>1 DEF LeanTypeOK
  <2>6. QED
    BY <1>3, <2>2, <2>4, <2>5, StepKeeps
<1>4. ASSUME NEW h \in Handlers, Consider(h) PROVE LeanInv'
  BY <1>2, <1>3, <1>4 DEF Consider, LeanAt, Inside, StopOutcome, Outcomes, Ready
<1>5. ASSUME NEW h \in Handlers, Read(h) PROVE LeanInv'
  <2>1. ~quarantined
    BY <1>t, <1>5 DEF Read, LeanAt, PlaceAgrees, LeanTypeOK
  <2>2. QED
    BY <1>2, <1>3, <1>5, <2>1 DEF Read, LeanAt, Inside, StopOutcome, Outcomes
<1>6. ASSUME NEW h \in Handlers, Start(h) PROVE LeanInv'
  <2>1. /\ handler[h].pc = "starting" /\ engine[h] = "none" /\ ~quarantined /\ slot = h
        /\ UNCHANGED <<quarantined, engine, verdicts, restarts>>
    BY <1>t, <1>6 DEF Start, LeanAt, PlaceAgrees, LeanTypeOK, Inside
  <2>2. CASE started' = started \cup {h} /\ LeanGo(h, "prepared") /\ UNCHANGED slot
    <3>1. handler' = [handler EXCEPT ![h].pc = "prepared"]
      BY <2>2 DEF LeanGo
    <3>2. LeanTypeOK'
      BY <1>t, <2>1, <2>2, <3>1 DEF LeanTypeOK, Places, Inside
    <3>3. handler'[h].pc = "prepared" /\ handler'[h].attempted = handler[h].attempted
      BY <1>t, <3>1 DEF LeanTypeOK
    <3>4. PlaceAgrees(h)'
      BY <1>t, <2>1, <2>2, <3>3 DEF PlaceAgrees, Inside
    <3>5. \A g \in Handlers \ {h} :
            handler'[g] = handler[g] /\ engine'[g] = engine[g] /\ (slot' = g <=> slot = g)
      BY <1>t, <2>1, <2>2, <3>1 DEF LeanTypeOK
    <3>6. QED
      BY <2>1, <2>2, <3>2, <3>4, <3>5, StepKeeps
  <2>3. CASE /\ UNCHANGED started /\ slot' = Released(h)
             /\ handler' = [handler EXCEPT ![h] = [Fresh EXCEPT !.pc = "done"]]
    <3>1. FinishCall(h, "unavailable")
      BY <2>1, <2>3 DEF FinishCall
    <3>2. QED
      BY <1>2, <2>1, <2>3, <3>1 DEF Inside, Outcomes
  <2>4. QED
    BY <1>6, <2>2, <2>3 DEF Start
<1>7. ASSUME NEW h \in Handlers, Launch(h) PROVE LeanInv'
  <2>1. /\ handler[h].pc = "prepared" /\ engine[h] = "none" /\ ~quarantined /\ slot = h
        /\ h \in started
        /\ UNCHANGED <<quarantined, started, restarts>>
    BY <1>t, <1>7 DEF Launch, LeanAt, PlaceAgrees, LeanTypeOK, Inside
  <2>2. CASE FinishCall(h, StopOutcome(h)) /\ UNCHANGED engine
    BY <1>2, <2>1, <2>2 DEF Inside, Outcomes, StopOutcome
  <2>3. CASE /\ engine' = [engine EXCEPT ![h] = "running"]
             /\ handler' = [handler EXCEPT ![h].pc = "engine", ![h].attempted = TRUE]
             /\ UNCHANGED <<slot, verdicts>>
    <3>1. LeanTypeOK'
      <4>1. handler' \in [Handlers -> [pc : Places, late : BOOLEAN, signal : BOOLEAN,
                                      attempted : BOOLEAN, run : EngineRuns \cup {NoRun},
                                      stopped : BOOLEAN]]
        <5> DEFINE state == [pc : Places, late : BOOLEAN, signal : BOOLEAN, attempted : BOOLEAN,
                             run : EngineRuns \cup {NoRun}, stopped : BOOLEAN]
                   n == [handler[h] EXCEPT !.pc = "engine", !.attempted = TRUE]
        <5>1. n \in state
          BY <1>t, HandlerType DEF Places, Inside
        <5>2. handler' = [handler EXCEPT ![h] = n]
          BY <1>t, <2>3 DEF LeanTypeOK
        <5> HIDE DEF n
        <5>3. QED
          BY <1>t, <5>1, <5>2 DEF LeanTypeOK
      <4>2. QED
        BY <1>t, <2>1, <2>3, <4>1 DEF LeanTypeOK
    <3>2. handler'[h].pc = "engine" /\ engine'[h] = "running" /\ handler'[h].attempted
      BY <1>t, <2>3 DEF LeanTypeOK
    <3>3. PlaceAgrees(h)'
      BY <1>t, <2>1, <2>3, <3>2 DEF PlaceAgrees, Inside
    <3>4. \A g \in Handlers \ {h} :
            handler'[g] = handler[g] /\ engine'[g] = engine[g] /\ (slot' = g <=> slot = g)
      BY <1>t, <2>1, <2>3 DEF LeanTypeOK
    <3>5. \A g \in Handlers \ {h} : engine[g] \notin {"running", "left"}
      BY <1>t, <2>1 DEF PlaceAgrees, Inside
    <3>6. QED
      BY <2>1, <2>3, <3>1, <3>3, <3>4, <3>5, StepKeeps
  <2>4. QED
    BY <1>7, <2>2, <2>3 DEF Launch
<1>8. ASSUME NEW h \in Handlers, EngineFails(h) PROVE LeanInv'
  <2>1. /\ handler[h].pc = "engine" /\ engine[h] = "running" /\ slot = h
        /\ quarantined' = TRUE /\ FinishCall(h, "engine_failed") /\ UNCHANGED <<started, restarts>>
    BY <1>t, <1>8 DEF EngineFails, LeanAt, PlaceAgrees, Inside
  <2>2. PICK e \in {"none", "left"} : engine' = [engine EXCEPT ![h] = e]
    BY <1>8 DEF EngineFails
  <2>3. QED
    BY <2>1, <2>2, FinishKeeps DEF Outcomes, Inside
<1>9. ASSUME NEW h \in Handlers, EngineReturns(h) PROVE LeanInv'
  <2>1. /\ handler[h].pc = "engine" /\ engine[h] = "running" /\ slot = h /\ h \in started
        /\ UNCHANGED <<slot, started, verdicts, restarts>>
    BY <1>t, <1>9 DEF EngineReturns, LeanAt, PlaceAgrees, Inside
  <2>2. PICK run \in EngineRuns :
          /\ engine' = [engine EXCEPT ![h] = IF run = "unclean" THEN "left" ELSE "none"]
          /\ quarantined' = (quarantined \/ run = "unclean")
          /\ handler' = [handler EXCEPT ![h].pc = "returned", ![h].run = run,
                                        ![h].stopped = Stopped(h)]
    BY <1>9 DEF EngineReturns
  <2>3. handler[h].late \in BOOLEAN /\ handler[h].signal \in BOOLEAN
    BY <1>t, HandlerType
  <2>4. Stopped(h) \in BOOLEAN
    BY <2>3 DEF Stopped
  <2>e. /\ engine' \in [Handlers -> {"none", "running", "left", "orphan"}]
        /\ quarantined' \in BOOLEAN /\ (quarantined => quarantined')
        /\ (run = "unclean" => quarantined')
    BY <1>t, <2>2 DEF LeanTypeOK
  <2>h. handler' \in [Handlers -> [pc : Places, late : BOOLEAN, signal : BOOLEAN,
                                  attempted : BOOLEAN, run : EngineRuns \cup {NoRun},
                                  stopped : BOOLEAN]]
    <3> DEFINE state == [pc : Places, late : BOOLEAN, signal : BOOLEAN, attempted : BOOLEAN,
                         run : EngineRuns \cup {NoRun}, stopped : BOOLEAN]
               n == [handler[h] EXCEPT !.pc = "returned", !.run = run, !.stopped = Stopped(h)]
    <3>1. handler[h] \in state
      BY HandlerType, <1>t
    <3>2. n \in state
      BY <2>4, <3>1 DEF Places, Inside
    <3>3. handler' = [handler EXCEPT ![h] = n]
      BY <1>t, <2>2 DEF LeanTypeOK
    <3> HIDE DEF n
    <3>4. QED
      BY <1>t, <3>2, <3>3 DEF LeanTypeOK
  <2>5. LeanTypeOK'
    BY <1>t, <2>1, <2>e, <2>h DEF LeanTypeOK
  <2>6. /\ handler'[h].pc = "returned" /\ handler'[h].run = run
        /\ handler'[h].stopped = Stopped(h) /\ handler'[h].attempted = handler[h].attempted
        /\ handler'[h].late = handler[h].late /\ handler'[h].signal = handler[h].signal
        /\ engine'[h] = IF run = "unclean" THEN "left" ELSE "none"
    BY <1>t, <2>2 DEF LeanTypeOK
  <2>7. PlaceAgrees(h)'
    <3>1. Stopped(h)' = Stopped(h)
      BY <2>6 DEF Stopped
    <3>2. engine'[h] # "none" => engine'[h] = "left" /\ run = "unclean"
      BY <2>6
    <3>3. handler'[h].attempted /\ slot' = h
      BY <1>t, <2>1, <2>6 DEF PlaceAgrees
    <3>4. engine'[h] = "left" => quarantined'
      BY <2>e, <2>6
    <3>5. QED
      BY <2>1, <2>6, <3>1, <3>2, <3>3, <3>4 DEF PlaceAgrees, Inside
  <2>8. \A g \in Handlers \ {h} :
          handler'[g] = handler[g] /\ engine'[g] = engine[g] /\ (slot' = g <=> slot = g)
    BY <1>t, <2>1, <2>2 DEF LeanTypeOK
  <2>9. quarantined' = quarantined \/ slot = h
    BY <2>1
  <2>10. QED
    BY <2>1, <2>e, <2>5, <2>7, <2>8, <2>9, StepKeeps
<1>10. ASSUME NEW h \in Handlers, Judge(h) PROVE LeanInv'
  <2> DEFINE outcome == CASE Stopped(h) -> StopOutcome(h)
                          [] ~Stopped(h) /\ Ready /\ handler[h].run = "agrees" -> "verified"
                          [] ~Stopped(h) /\ Ready /\ handler[h].run = "disagrees" -> "disagreed"
                          [] OTHER -> "engine_failed"
  <2>1. /\ handler[h].pc = "returned" /\ slot = h /\ engine[h] \in {"none", "left"}
        /\ handler[h].attempted /\ (handler[h].stopped => Stopped(h))
        /\ handler[h].run # "unclean" => engine[h] = "none"
        /\ engine[h] = "left" => quarantined
        /\ FinishCall(h, outcome) /\ UNCHANGED <<quarantined, engine, started, restarts>>
    BY <1>t, <1>10 DEF Judge, LeanAt, PlaceAgrees, LeanTypeOK, Inside
  <2>2. /\ outcome \in Outcomes
        /\ outcome = "verified" => ~Stopped(h) /\ handler[h].run = "agrees"
        /\ outcome = "disagreed" => ~Stopped(h) /\ handler[h].run = "disagrees"
    BY DEF Outcomes, StopOutcome
  <2> HIDE DEF outcome
  <2>3. outcome \in {"verified", "disagreed"} =>
          /\ handler[h].attempted /\ ~handler[h].stopped /\ engine[h] = "none"
          /\ handler[h].run = (IF outcome = "verified" THEN "agrees" ELSE "disagrees")
    BY <2>1, <2>2
  <2>4. engine' = [engine EXCEPT ![h] = engine[h]] /\ quarantined' \in BOOLEAN
    BY <1>t, <1>e, <2>1 DEF LeanTypeOK
  <2>5. QED
    BY <2>1, <2>2, <2>3, <2>4, FinishKeeps DEF Inside
<1>11. ASSUME NEW h \in Handlers, Interrupt(h) PROVE LeanInv'
  <2>1. /\ handler[h].pc \in Inside /\ handler[h].pc # "done"
        /\ UNCHANGED <<slot, quarantined, engine, started, verdicts, restarts>>
        /\ \/ handler' = [handler EXCEPT ![h].late = TRUE]
           \/ handler' = [handler EXCEPT ![h].signal = TRUE]
    BY <1>11 DEF Interrupt, Inside
  <2>2. LeanTypeOK'
    <3>1. handler' \in [Handlers -> [pc : Places, late : BOOLEAN, signal : BOOLEAN,
                                    attempted : BOOLEAN, run : EngineRuns \cup {NoRun},
                                    stopped : BOOLEAN]]
      <4>1. CASE handler' = [handler EXCEPT ![h].late = TRUE]
        BY <1>t, <4>1 DEF LeanTypeOK
      <4>2. CASE handler' = [handler EXCEPT ![h].signal = TRUE]
        BY <1>t, <4>2 DEF LeanTypeOK
      <4>3. QED
        BY <2>1, <4>1, <4>2
    <3>2. QED
      BY <1>t, <2>1, <3>1 DEF LeanTypeOK
  <2>3. /\ handler'[h].pc = handler[h].pc /\ handler'[h].run = handler[h].run
        /\ handler'[h].stopped = handler[h].stopped /\ handler'[h].attempted = handler[h].attempted
        /\ handler[h].late => handler'[h].late
        /\ handler[h].signal => handler'[h].signal
    BY <1>t, <2>1 DEF LeanTypeOK
  <2>4. PlaceAgrees(h)'
    BY <1>t, <2>1, <2>3 DEF PlaceAgrees, Stopped
  <2>5. \A g \in Handlers \ {h} :
          handler'[g] = handler[g] /\ engine'[g] = engine[g] /\ (slot' = g <=> slot = g)
    BY <1>t, <2>1 DEF LeanTypeOK
  <2>6. QED
    BY <2>1, <2>2, <2>4, <2>5, StepKeeps
<1>12. CASE Restart
  <2> DEFINE done == [Fresh EXCEPT !.pc = "done"]
  <2>1. /\ slot' = NoHandler /\ quarantined' = FALSE /\ restarts' = restarts + 1
        /\ handler' = [h \in Handlers |-> IF handler[h].pc \in Inside THEN done ELSE handler[h]]
        /\ engine' = [h \in Handlers |-> IF engine[h] \in {"running", "left"} THEN "orphan"
                                         ELSE engine[h]]
        /\ UNCHANGED <<started, verdicts>>
    BY <1>12 DEF Restart
  <2>2. /\ done \in [pc : Places, late : BOOLEAN, signal : BOOLEAN, attempted : BOOLEAN,
                     run : EngineRuns \cup {NoRun}, stopped : BOOLEAN]
        /\ done.pc = "done" /\ done.attempted = FALSE
    BY DEF Fresh, Places
  <2> HIDE DEF done
  <2>3. LeanTypeOK'
    <3>1. handler' \in [Handlers -> [pc : Places, late : BOOLEAN, signal : BOOLEAN,
                                    attempted : BOOLEAN, run : EngineRuns \cup {NoRun},
                                    stopped : BOOLEAN]]
      BY <1>t, <2>1, <2>2 DEF LeanTypeOK
    <3>2. engine' \in [Handlers -> {"none", "running", "left", "orphan"}]
      BY <1>t, <2>1 DEF LeanTypeOK
    <3>3. slot' \in Handlers \cup {NoHandler} /\ quarantined' \in BOOLEAN
      BY <2>1
    <3>4. restarts' \in Nat
      BY <1>t, <2>1 DEF LeanTypeOK
    <3>5. QED
      BY <1>t, <2>1, <3>1, <3>2, <3>3, <3>4 DEF LeanTypeOK
  <2>4. ASSUME NEW h \in Handlers PROVE PlaceAgrees(h)'
    BY <1>t, <2>1, <2>2, VerifierAssumption DEF PlaceAgrees, Inside, Stopped, VerifierAssumption
  <2>5. OneLeft'
    BY <2>1 DEF OneLeft
  <2>6. ASSUME NEW v \in verdicts
        PROVE  handler'[v.handler] = handler[v.handler] /\ handler[v.handler].pc = "done"
               /\ (engine[v.handler] = "none" => engine'[v.handler] = "none")
    BY <1>t, <2>1 DEF LeanInv, RecordsAgree, LeanTypeOK, Verdict, Inside
  <2>7. RecordsAgree'
    BY <2>1, <2>6 DEF LeanInv, RecordsAgree
  <2>8. QED
    BY <2>3, <2>4, <2>5, <2>7 DEF LeanInv
<1>13. CASE UNCHANGED leanVars
  BY <1>13
  DEF leanVars, LeanInv, LeanTypeOK, PlaceAgrees, OneLeft, RecordsAgree, Stopped
<1>14. QED
  BY <1>1, <1>4, <1>5, <1>6, <1>7, <1>8, <1>9, <1>10, <1>11, <1>12, <1>13 DEF NextLean

\* Whichever way calls end and whenever the service is restarted, at most one engine of the
\* running process is at work or left behind (service.py:402, 236, 453, 463).
THEOREM OneEngineAtATime == LeanSpec => []OneEngine
<1>1. LeanSpec => []LeanInv
  BY LeanInit, LeanNext, PTL DEF LeanSpec
<1>2. ASSUME LeanInv PROVE OneEngine
  <2> DEFINE left == {h \in Handlers : engine[h] \in {"running", "left"}}
  <2>1. Cardinality(left) =< 1
    <3>1. CASE left = {}
      <4>1. Cardinality(left) = 0
        BY <3>1, FS_EmptySet
      <4>2. QED
        BY <4>1
    <3>2. CASE left # {}
      <4>1. PICK h \in left : TRUE
        BY <3>2
      <4>2. left = {h}
        BY <1>2, <4>1 DEF LeanInv, OneLeft
      <4>3. QED
        <5>1. Cardinality({h}) = 1
          BY FS_Singleton
        <5>2. QED
          BY <4>2, <5>1
    <3> HIDE DEF left
    <3>3. QED
      BY <3>1, <3>2
  <2>2. \A h \in Handlers : engine[h] # "none" => h \in started
    BY <1>2 DEF LeanInv, PlaceAgrees
  <2>3. slot # NoHandler => handler[slot].pc \in Inside
    BY <1>2 DEF LeanInv, LeanTypeOK, PlaceAgrees
  <2>4. QED
    BY <2>1, <2>2, <2>3 DEF OneEngine
<1>3. QED
  BY <1>1, <1>2, PTL

\* A stored comparison was earned by prepared engine work, cleaned up and in time, and no call has
\* two terminal records, for every interleaving of calls, signals and restarts
\* (service.py:464-517, 137-158).
THEOREM VerdictsStayEarned == LeanSpec => []VerdictsAreEarned
<1>1. LeanSpec => []LeanInv
  BY LeanInit, LeanNext, PTL DEF LeanSpec
<1>2. LeanInv => VerdictsAreEarned
  BY DEF LeanInv, RecordsAgree, VerdictsAreEarned
<1>3. QED
  BY <1>1, <1>2, PTL

-----------------------------------------------------------------------------
(* The sandbox. *)

BoxState ==
  [pc : {"idle", "refused", "staging", "creating", "finding", "attaching", "observing",
         "removing", "unstaging", "publishing", "reported", "crashed"},
   status : {"failed", "timed_out", "cancelled", "completed", "cleanup_unconfirmed"},
   launched : BOOLEAN, identified : BOOLEAN, exit : {"none", "zero", "other"},
   cleanup : {"not_started", "confirmed", "unconfirmed"}, outputs : BOOLEAN,
   uncertain : BOOLEAN, reason : Reasons \cup {"none"}, failure : BOOLEAN]
Boxes == {"none", "pending", "created", "running", "exited"}
Bundles == {"none", "present", "removed"}

\* Where a call is that holds the lock.
Active == {"staging", "creating", "finding", "attaching", "observing", "removing", "unstaging",
           "publishing"}

SandboxTypeOK ==
  /\ running \in Attempts \cup {NoAttempt}
  /\ attempt \in [Attempts -> BoxState]
  /\ container \in [Attempts -> Boxes]
  /\ bundle \in [Attempts -> Bundles]
  /\ begun \in SUBSET Attempts
  /\ crashes \in Nat

\* A container belongs to a launch and a launch to a staged bundle; a create that may still be
\* completed leaves the cleanup unconfirmed for ever.
LaunchAgrees(state, box, staged) ==
  /\ state.pc \in {"idle", "refused", "staging", "creating"} => ~state.launched
  /\ state.pc \in {"finding", "attaching", "observing", "removing"}
       => state.launched /\ state.cleanup = "unconfirmed"
  /\ state.pc \in {"creating", "finding", "attaching", "observing", "removing"}
       => staged = "present"
  /\ state.cleanup = "not_started" <=> ~state.launched
  /\ ~state.launched => box = "none"
  /\ box = "pending" => state.uncertain
  /\ state.cleanup = "confirmed" => box = "none"
  /\ box # "none" => staged = "present"

\* What the state dictionary says of itself from the launch to the result.
OutcomeAgrees(state) ==
  /\ ~state.identified =>
       /\ state.exit = "none" /\ ~state.outputs
       /\ state.status = "failed"
          \/ (state.pc = "reported" /\ state.status = "cleanup_unconfirmed")
  /\ ~state.launched => ~state.identified
  /\ state.pc = "finding" => ~state.outputs /\ state.exit = "none" /\ state.status = "failed"
  /\ state.pc \in {"attaching", "observing"}
       => state.identified /\ state.exit = "none" /\ state.status = "failed"
  /\ IF state.status = "completed" THEN state.exit = "zero" /\ ~state.failure ELSE state.failure
  /\ state.status = "cleanup_unconfirmed" => state.pc = "reported"
  /\ state.pc = "reported"
       => (state.cleanup = "unconfirmed" <=> state.status = "cleanup_unconfirmed")

SandboxInv ==
  /\ SandboxTypeOK
  /\ \A a \in Attempts : LaunchAgrees(attempt[a], container[a], bundle[a])
  /\ \A a \in Attempts : OutcomeAgrees(attempt[a])
  /\ \A a \in Attempts : attempt[a].pc \notin {"idle", "refused"} => a \in begun
  /\ running # NoAttempt => attempt[running].pc \in Active

\* No attempt has begun.
LEMMA SandboxInit == InitSandbox => SandboxInv
<1> SUFFICES ASSUME InitSandbox PROVE SandboxInv
  OBVIOUS
<1>1. NewState \in BoxState
  BY DEF NewState, BoxState
<1>2. SandboxTypeOK
  BY <1>1 DEF InitSandbox, SandboxTypeOK, Boxes, Bundles
<1>3. LaunchAgrees(NewState, "none", "none") /\ OutcomeAgrees(NewState)
  BY DEF NewState, LaunchAgrees, OutcomeAgrees
<1>4. ASSUME NEW a \in Attempts
      PROVE  attempt[a] = NewState /\ container[a] = "none" /\ bundle[a] = "none"
  BY DEF InitSandbox
<1>5. QED
  BY <1>2, <1>3, <1>4 DEF SandboxInv, NewState, InitSandbox

\* One experiment moves and the others stay where they are.
LEMMA ExperimentMoves ==
  ASSUME SandboxInv, NEW a \in Attempts, NEW n \in BoxState, NEW c \in Boxes, NEW b \in Bundles,
         attempt' = [attempt EXCEPT ![a] = n], container' = [container EXCEPT ![a] = c],
         bundle' = [bundle EXCEPT ![a] = b],
         begun \subseteq begun', begun' \in SUBSET Attempts,
         running' \in {running, a, NoAttempt}, running' # a \/ n.pc \in Active, crashes' \in Nat,
         LaunchAgrees(n, c, b), OutcomeAgrees(n), n.pc \in {"idle", "refused"} \/ a \in begun'
  PROVE  SandboxInv'
<1>1. SandboxTypeOK'
  BY DEF SandboxInv, SandboxTypeOK
<1>2. /\ attempt'[a] = n /\ container'[a] = c /\ bundle'[a] = b
      /\ \A o \in Attempts \ {a} :
           attempt'[o] = attempt[o] /\ container'[o] = container[o] /\ bundle'[o] = bundle[o]
  BY DEF SandboxInv, SandboxTypeOK
<1>3. ASSUME NEW o \in Attempts
      PROVE  /\ LaunchAgrees(attempt'[o], container'[o], bundle'[o])
             /\ OutcomeAgrees(attempt'[o])
             /\ attempt'[o].pc \notin {"idle", "refused"} => o \in begun'
  <2>1. CASE o = a
    BY <1>2, <2>1
  <2>2. CASE o # a
    BY <1>2, <2>2 DEF SandboxInv
  <2>3. QED
    BY <2>1, <2>2
<1>4. running' # NoAttempt => attempt'[running'].pc \in Active
  BY <1>2 DEF SandboxInv, SandboxTypeOK
<1>5. QED
  BY <1>1, <1>3, <1>4 DEF SandboxInv

\* An experiment moves and its container changes; its bundle and the receipts do not.
LEMMA LauncherMoves ==
  ASSUME SandboxInv, NEW a \in Attempts, NEW n \in BoxState, NEW c \in Boxes,
         attempt' = [attempt EXCEPT ![a] = n], container' = [container EXCEPT ![a] = c],
         bundle' = bundle, begun' = begun,
         running' \in {running, a, NoAttempt}, running' # a \/ n.pc \in Active, crashes' \in Nat,
         LaunchAgrees(n, c, bundle[a]), OutcomeAgrees(n), n.pc \in {"idle", "refused"} \/ a \in begun
  PROVE  SandboxInv'
<1>1. /\ bundle' = [bundle EXCEPT ![a] = bundle[a]] /\ bundle[a] \in Bundles
      /\ begun \subseteq begun' /\ begun' \in SUBSET Attempts
  BY DEF SandboxInv, SandboxTypeOK
<1>2. QED
  BY <1>1, ExperimentMoves

\* An experiment moves on without its container, its bundle or any start receipt.
LEMMA CallMoves ==
  ASSUME SandboxInv, NEW a \in Attempts, NEW n \in BoxState,
         attempt' = [attempt EXCEPT ![a] = n],
         running' \in {running, a, NoAttempt}, running' # a \/ n.pc \in Active, crashes' \in Nat,
         container' = container, bundle' = bundle, begun' = begun,
         LaunchAgrees(n, container[a], bundle[a]), OutcomeAgrees(n),
         n.pc \in {"idle", "refused"} \/ a \in begun
  PROVE  SandboxInv'
<1>1. container' = [container EXCEPT ![a] = container[a]] /\ container[a] \in Boxes
  BY DEF SandboxInv, SandboxTypeOK
<1>2. QED
  BY <1>1, LauncherMoves

\* No step of the launcher, of a container, of a deletion or of a crash breaks the invariant of
\* the sandbox.
LEMMA SandboxNext == SandboxInv /\ [NextSandbox]_sandboxVars => SandboxInv'
<1> SUFFICES ASSUME SandboxInv, [NextSandbox]_sandboxVars PROVE SandboxInv'
  OBVIOUS
<1>t. SandboxTypeOK
  BY DEF SandboxInv
<1>a. ASSUME NEW a \in Attempts
      PROVE  /\ attempt[a] \in BoxState /\ container[a] \in Boxes /\ bundle[a] \in Bundles
             /\ LaunchAgrees(attempt[a], container[a], bundle[a])
             /\ OutcomeAgrees(attempt[a])
             /\ attempt[a].pc \in {"idle", "refused"} \/ a \in begun
             /\ running # a \/ attempt[a].pc \in Active
  BY SandboxAssumption DEF SandboxAssumption, SandboxInv, SandboxTypeOK
<1>u. \A a \in Attempts : /\ attempt = [attempt EXCEPT ![a] = attempt[a]]
                          /\ container = [container EXCEPT ![a] = container[a]]
                          /\ bundle = [bundle EXCEPT ![a] = bundle[a]]
  BY <1>t DEF SandboxTypeOK
<1>1. ASSUME NEW a \in Attempts, Admit(a) PROVE SandboxInv'
  <2> DEFINE MovedTo(pc) == [attempt[a] EXCEPT !.pc = pc]
  <2>1. attempt[a].pc = "idle" /\ UNCHANGED <<container, bundle, crashes>>
    BY <1>1 DEF Admit, BoxAt
  <2>2. ASSUME NEW pc \in {"refused", "staging"}
        PROVE  /\ MovedTo(pc) \in BoxState /\ MovedTo(pc).pc = pc
               /\ OutcomeAgrees(MovedTo(pc)) /\ LaunchAgrees(MovedTo(pc), container[a], bundle[a])
    BY <1>a, <2>1 DEF BoxState, OutcomeAgrees, LaunchAgrees
  <2>3. \/ attempt' = [attempt EXCEPT ![a] = MovedTo("refused")] /\ UNCHANGED <<running, begun>>
        \/ attempt' = [attempt EXCEPT ![a] = MovedTo("staging")] /\ running' = a
             /\ begun' = begun \cup {a}
    BY <1>1, <1>t DEF Admit, BoxGo, SandboxTypeOK
  <2> HIDE DEF At
  <2>4. CASE attempt' = [attempt EXCEPT ![a] = MovedTo("refused")] /\ UNCHANGED <<running, begun>>
    <3>1. running # a
      BY <1>a, <2>1 DEF Active
    <3>2. QED
      BY <1>t, <2>1, <2>2, <2>4, <3>1, CallMoves DEF SandboxTypeOK
  <2>5. CASE attempt' = [attempt EXCEPT ![a] = MovedTo("staging")] /\ running' = a
               /\ begun' = begun \cup {a}
    <3>1. /\ begun \subseteq begun' /\ begun' \in SUBSET Attempts /\ a \in begun'
          /\ running' = a /\ crashes' \in Nat /\ "staging" \in Active
      BY <1>t, <2>1, <2>5 DEF SandboxTypeOK, Active
    <3>2. /\ container' = [container EXCEPT ![a] = container[a]]
          /\ bundle' = [bundle EXCEPT ![a] = bundle[a]]
      BY <1>u, <2>1
    <3>3. QED
      BY <1>a, <2>2, <2>5, <3>1, <3>2, ExperimentMoves
  <2>6. QED
    BY <2>3, <2>4, <2>5
<1>2. ASSUME NEW a \in Attempts, StageInputs(a) PROVE SandboxInv'
  <2> DEFINE MovedTo(pc) == [attempt[a] EXCEPT !.pc = pc]
  <2>1. attempt[a].pc = "staging" /\ UNCHANGED <<running, container, begun, crashes>>
    BY <1>2 DEF StageInputs, BoxAt
  <2>2. PICK pc \in {"creating", "publishing", "unstaging"}, b \in {"present", bundle[a]} :
          /\ pc = "creating" => b = "present"
          /\ attempt' = [attempt EXCEPT ![a] = MovedTo(pc)]
          /\ bundle' = [bundle EXCEPT ![a] = b]
    <3>1. CASE BoxGo(a, "creating") /\ bundle' = [bundle EXCEPT ![a] = "present"]
      BY <1>t, <3>1 DEF BoxGo, SandboxTypeOK
    <3>2. CASE BoxGo(a, "publishing") /\ UNCHANGED bundle
      BY <1>t, <1>u, <3>2 DEF BoxGo, SandboxTypeOK
    <3>3. CASE BoxGo(a, "unstaging") /\ bundle' = [bundle EXCEPT ![a] = "present"]
      BY <1>t, <3>3 DEF BoxGo, SandboxTypeOK
    <3>4. QED
      BY <1>2, <3>1, <3>2, <3>3 DEF StageInputs
  <2>3. /\ MovedTo(pc) \in BoxState /\ MovedTo(pc).pc \in Active
        /\ OutcomeAgrees(MovedTo(pc)) /\ LaunchAgrees(MovedTo(pc), container[a], b)
    BY <1>a, <2>1, <2>2 DEF BoxState, Active, OutcomeAgrees, LaunchAgrees
  <2>4. b \in Bundles /\ container' = [container EXCEPT ![a] = container[a]] /\ a \in begun
    BY <1>a, <1>u, <2>1 DEF Bundles
  <2> HIDE DEF At
  <2>5. QED
    BY <1>a, <1>t, <2>1, <2>2, <2>3, <2>4, ExperimentMoves DEF SandboxTypeOK
<1>3. ASSUME NEW a \in Attempts, Create(a) PROVE SandboxInv'
  <2>1. attempt[a].pc = "creating" /\ UNCHANGED <<running, bundle, begun, crashes>>
    BY <1>3 DEF Create, BoxAt
  <2> DEFINE found == [attempt[a] EXCEPT !.pc = "finding", !.launched = TRUE,
                                       !.cleanup = "unconfirmed"]
             refused == [attempt[a] EXCEPT !.pc = "removing", !.launched = TRUE,
                                           !.cleanup = "unconfirmed"]
             cut(f) == [attempt[a] EXCEPT !.pc = "removing", !.launched = TRUE,
                                          !.cleanup = "unconfirmed", !.uncertain = TRUE,
                                          !.identified = f]
  <2>2. PICK c \in {"none", "pending", "created"}, f \in BOOLEAN :
          /\ container' = [container EXCEPT ![a] = c]
          /\ \/ c = "created" /\ attempt' = [attempt EXCEPT ![a] = found]
             \/ c # "pending" /\ attempt' = [attempt EXCEPT ![a] = refused]
             \/ attempt' = [attempt EXCEPT ![a] = cut(f)]
    <3>1. CASE /\ container' = [container EXCEPT ![a] = "created"]
               /\ attempt' = [attempt EXCEPT ![a].pc = "finding", ![a].launched = TRUE,
                                             ![a].cleanup = "unconfirmed"]
      BY <1>t, <3>1 DEF SandboxTypeOK
    <3>2. CASE /\ container' \in {[container EXCEPT ![a] = c] : c \in {"none", "created"}}
               /\ attempt' = [attempt EXCEPT ![a].pc = "removing", ![a].launched = TRUE,
                                             ![a].cleanup = "unconfirmed"]
      BY <1>t, <3>2 DEF SandboxTypeOK
    <3>3. ASSUME NEW c \in {"none", "pending", "created"}, NEW f \in BOOLEAN,
                 container' = [container EXCEPT ![a] = c],
                 attempt' = [attempt EXCEPT ![a].pc = "removing", ![a].launched = TRUE,
                                ![a].cleanup = "unconfirmed", ![a].uncertain = TRUE,
                                ![a].identified = f]
          PROVE  attempt' = [attempt EXCEPT ![a] = cut(f)]
      BY <1>t, <3>3 DEF SandboxTypeOK
    <3> HIDE DEF found, refused, cut
    <3>4. QED
      BY <1>3, <3>1, <3>2, <3>3 DEF Create
  <2>3. /\ ~attempt[a].launched /\ ~attempt[a].identified /\ bundle[a] = "present" /\ a \in begun
        /\ ~attempt[a].outputs /\ attempt[a].exit = "none" /\ attempt[a].status = "failed"
        /\ attempt[a].failure
    BY <1>a, <2>1 DEF LaunchAgrees, OutcomeAgrees
  <2>4. /\ found \in BoxState /\ found.pc \in Active /\ OutcomeAgrees(found)
        /\ c = "created" => LaunchAgrees(found, c, bundle[a])
    <3>1. found \in BoxState /\ found.pc \in Active
      <4>1. found \in BoxState
        BY <1>a, ZenonT(30) DEF BoxState
      <4>2. found.pc \in Active
        BY <1>a DEF BoxState, Active
      <4>3. QED
        BY <4>1, <4>2
    <3>2. OutcomeAgrees(found)
      BY <1>a, <2>3 DEF BoxState, OutcomeAgrees
    <3>3. c = "created" => LaunchAgrees(found, c, bundle[a])
      BY <1>a, <2>3 DEF BoxState, LaunchAgrees
    <3>4. QED
      BY <3>1, <3>2, <3>3
  <2>5. /\ refused \in BoxState /\ refused.pc \in Active /\ OutcomeAgrees(refused)
        /\ c # "pending" => LaunchAgrees(refused, c, bundle[a])
    <3>1. refused \in BoxState /\ refused.pc \in Active
      <4>1. refused \in BoxState
        BY <1>a, ZenonT(30) DEF BoxState
      <4>2. refused.pc \in Active
        BY <1>a DEF BoxState, Active
      <4>3. QED
        BY <4>1, <4>2
    <3>2. OutcomeAgrees(refused)
      BY <1>a, <2>3 DEF BoxState, OutcomeAgrees
    <3>3. c # "pending" => LaunchAgrees(refused, c, bundle[a])
      BY <1>a, <2>3 DEF BoxState, LaunchAgrees
    <3>4. QED
      BY <3>1, <3>2, <3>3
  <2>6. /\ cut(f) \in BoxState /\ cut(f).pc \in Active /\ OutcomeAgrees(cut(f))
        /\ LaunchAgrees(cut(f), c, bundle[a])
    <3>1. cut(f) \in BoxState /\ cut(f).pc \in Active
      <4>1. cut(f) \in BoxState
        BY <1>a, ZenonT(30) DEF BoxState
      <4>2. cut(f).pc \in Active
        BY <1>a DEF BoxState, Active
      <4>3. QED
        BY <4>1, <4>2
    <3>2. OutcomeAgrees(cut(f))
      BY <1>a, <2>3 DEF BoxState, OutcomeAgrees
    <3>3. LaunchAgrees(cut(f), c, bundle[a])
      BY <1>a, <2>3 DEF BoxState, LaunchAgrees
    <3>4. QED
      BY <3>1, <3>2, <3>3
  <2> HIDE DEF found, refused, cut
  <2>7. c \in Boxes /\ crashes' \in Nat
    BY <1>t, <2>1 DEF Boxes, SandboxTypeOK
  <2>8. ASSUME NEW n \in BoxState, n.pc \in Active, attempt' = [attempt EXCEPT ![a] = n],
               OutcomeAgrees(n), LaunchAgrees(n, c, bundle[a])
        PROVE  SandboxInv'
    BY <2>1, <2>2, <2>3, <2>7, <2>8, LauncherMoves
  <2>9. CASE c = "created" /\ attempt' = [attempt EXCEPT ![a] = found]
    BY <2>4, <2>8, <2>9
  <2>10. CASE c # "pending" /\ attempt' = [attempt EXCEPT ![a] = refused]
    BY <2>5, <2>8, <2>10
  <2>11. CASE attempt' = [attempt EXCEPT ![a] = cut(f)]
    BY <2>6, <2>8, <2>11
  <2>12. QED
    BY <2>2, <2>9, <2>10, <2>11
<1>4. ASSUME NEW a \in Attempts, DaemonCreates(a) PROVE SandboxInv'
  <2>1. /\ container[a] = "pending" /\ container' = [container EXCEPT ![a] = "created"]
        /\ UNCHANGED <<running, attempt, bundle, begun, crashes>>
    BY <1>4 DEF DaemonCreates
  <2>2. LaunchAgrees(attempt[a], "created", bundle[a])
    BY <1>a, <2>1 DEF LaunchAgrees
  <2>3. QED
    BY <1>a, <1>t, <1>u, <2>1, <2>2, LauncherMoves DEF Boxes, SandboxTypeOK
<1>5. ASSUME NEW a \in Attempts, ContainerExits(a) PROVE SandboxInv'
  <2>1. /\ container[a] = "running" /\ container' = [container EXCEPT ![a] = "exited"]
        /\ UNCHANGED <<running, attempt, bundle, begun, crashes>>
    BY <1>5 DEF ContainerExits
  <2>2. LaunchAgrees(attempt[a], "exited", bundle[a])
    BY <1>a, <2>1 DEF LaunchAgrees
  <2>3. QED
    BY <1>a, <1>t, <1>u, <2>1, <2>2, LauncherMoves DEF Boxes, SandboxTypeOK
\* An error of the launched part.
<1>6. ASSUME NEW a \in Attempts, NEW c \in Boxes, container' = [container EXCEPT ![a] = c],
             attempt[a].pc \in {"finding", "attaching", "observing"}, ToCleanup(a),
             c = "pending" => container[a] = "pending",
             UNCHANGED <<running, bundle, begun, crashes>>
      PROVE  SandboxInv'
  <2> DEFINE n == [attempt[a] EXCEPT !.pc = "removing", !.status = "failed", !.failure = TRUE]
  <2>1. attempt' = [attempt EXCEPT ![a] = n]
    BY <1>t, <1>6 DEF ToCleanup, SandboxTypeOK
  <2>2. n \in BoxState /\ n.pc \in Active /\ n.pc = "removing"
    <3>1. n \in BoxState
      BY <1>a, ZenonT(30) DEF BoxState
    <3>2. n.pc \in Active /\ n.pc = "removing"
      BY <1>a DEF BoxState, Active
    <3>3. QED
      BY <3>1, <3>2
  <2>3. OutcomeAgrees(n) /\ LaunchAgrees(n, c, bundle[a])
    BY <1>a, <1>6 DEF BoxState, OutcomeAgrees, LaunchAgrees
  <2> HIDE DEF n
  <2>4. QED
    BY <1>a, <1>t, <1>6, <2>1, <2>2, <2>3, LauncherMoves DEF SandboxTypeOK
<1>7. ASSUME NEW a \in Attempts, FindAndVerify(a) PROVE SandboxInv'
  <2>1. attempt[a].pc = "finding" /\ UNCHANGED <<running, container, bundle, begun, crashes>>
    BY <1>7 DEF FindAndVerify, BoxAt
  <2>2. CASE ToCleanup(a)
    BY <1>a, <1>u, <1>6, <2>1, <2>2
  <2>3. ASSUME NEW pc \in {"removing", "attaching"},
               attempt' = [attempt EXCEPT ![a].pc = pc, ![a].identified = TRUE]
        PROVE  SandboxInv'
    <3> DEFINE n == [attempt[a] EXCEPT !.pc = pc, !.identified = TRUE]
    <3>1. attempt' = [attempt EXCEPT ![a] = n]
      BY <1>t, <2>3 DEF SandboxTypeOK
    <3>2. n \in BoxState /\ n.pc \in Active /\ n.pc = pc
      <4>1. n \in BoxState
        BY <1>a, ZenonT(30) DEF BoxState
      <4>2. n.pc \in Active /\ n.pc = pc
        BY <1>a DEF BoxState, Active
      <4>3. QED
        BY <4>1, <4>2
    <3>3. OutcomeAgrees(n) /\ LaunchAgrees(n, container[a], bundle[a])
      BY <1>a, <2>1 DEF BoxState, OutcomeAgrees, LaunchAgrees
    <3> HIDE DEF n
    <3>4. QED
      BY <1>a, <1>t, <2>1, <3>1, <3>2, <3>3, CallMoves DEF SandboxTypeOK
  <2>4. QED
    BY <1>7, <2>2, <2>3 DEF FindAndVerify
<1>8. ASSUME NEW a \in Attempts, Attach(a) PROVE SandboxInv'
  <2>1. attempt[a].pc = "attaching" /\ UNCHANGED <<running, bundle, begun, crashes>>
    BY <1>8 DEF Attach, BoxAt
  <2>2. ASSUME NEW reason \in Reasons, NEW c \in {"created", "running", "exited"},
               container' = [container EXCEPT ![a] = c],
               attempt' = [attempt EXCEPT ![a].pc = "observing", ![a].outputs = TRUE,
                                          ![a].reason = reason]
        PROVE  SandboxInv'
    <3> DEFINE n == [attempt[a] EXCEPT !.pc = "observing", !.outputs = TRUE, !.reason = reason]
    <3>1. attempt' = [attempt EXCEPT ![a] = n]
      BY <1>t, <2>2 DEF SandboxTypeOK
    <3>2. n \in BoxState /\ n.pc \in Active /\ n.pc = "observing"
      <4>1. n \in BoxState
        BY <1>a, ZenonT(30) DEF BoxState
      <4>2. n.pc \in Active /\ n.pc = "observing"
        BY <1>a DEF BoxState, Active
      <4>3. QED
        BY <4>1, <4>2
    <3>3. OutcomeAgrees(n) /\ LaunchAgrees(n, c, bundle[a])
      BY <1>a, <2>1 DEF BoxState, OutcomeAgrees, LaunchAgrees
    <3> HIDE DEF n
    <3>4. c \in Boxes /\ a \in begun /\ crashes' \in Nat
      BY <1>a, <1>t, <2>1 DEF SandboxTypeOK, Boxes
    <3>5. QED
      BY <2>1, <2>2, <3>1, <3>2, <3>3, <3>4, LauncherMoves
  <2>3. ASSUME NEW c \in {"created", "running", "exited"},
               container' = [container EXCEPT ![a] = c], ToCleanup(a)
        PROVE  SandboxInv'
    BY <1>6, <2>1, <2>3 DEF Boxes
  <2>4. CASE \E reason \in Reasons, c \in {"created", "running", "exited"} :
               /\ container' = [container EXCEPT ![a] = c]
               /\ attempt' = [attempt EXCEPT ![a].pc = "observing", ![a].outputs = TRUE,
                                             ![a].reason = reason]
    BY <2>2, <2>4
  <2>5. CASE /\ container' \in {[container EXCEPT ![a] = c] :
                                  c \in {"created", "running", "exited"}}
             /\ ToCleanup(a)
    BY <2>3, <2>5
  <2>6. QED
    BY <1>8, <2>4, <2>5 DEF Attach
<1>9. ASSUME NEW a \in Attempts, Observe(a) PROVE SandboxInv'
  <2>1. attempt[a].pc = "observing" /\ UNCHANGED <<running, bundle, begun, crashes>>
    BY <1>9 DEF Observe, BoxAt
  <2>2. CASE ToCleanup(a) /\ UNCHANGED container
    BY <1>a, <1>u, <1>6, <2>1, <2>2
  <2>3. ASSUME container' \in {container, [container EXCEPT ![a] = "exited"]},
               NEW exit \in {"none", "zero", "other"},
               NEW status \in {"timed_out", "cancelled", "completed", "failed"},
               NEW failure \in BOOLEAN,
               IF status = "completed" THEN exit = "zero" /\ ~failure ELSE failure,
               attempt' = [attempt EXCEPT ![a].pc = "removing", ![a].exit = exit,
                                          ![a].status = status, ![a].failure = failure]
        PROVE  SandboxInv'
    <3> DEFINE n == [attempt[a] EXCEPT !.pc = "removing", !.exit = exit, !.status = status,
                                       !.failure = failure]
    <3>1. attempt' = [attempt EXCEPT ![a] = n]
      BY <1>t, <2>3 DEF SandboxTypeOK
    <3>2. PICK c \in {container[a], "exited"} : container' = [container EXCEPT ![a] = c]
      BY <1>u, <2>3
    <3>3. n \in BoxState /\ n.pc \in Active
      <4>1. exit \in {"none", "zero", "other"} /\ failure \in BOOLEAN
            /\ status \in {"failed", "timed_out", "cancelled", "completed", "cleanup_unconfirmed"}
        OBVIOUS
      <4>2. n \in BoxState
        BY <1>a, <4>1, ZenonT(30) DEF BoxState
      <4>3. n.pc = "removing"
        BY <1>a DEF BoxState
      <4>4. QED
        BY <4>2, <4>3 DEF Active
    <3>c. c \in Boxes
      BY <1>a DEF Boxes
    <3>4. OutcomeAgrees(n)
      BY <1>a, <2>1, <2>3 DEF BoxState, OutcomeAgrees
    <3>5. LaunchAgrees(n, c, bundle[a])
      BY <1>a, <2>1 DEF BoxState, LaunchAgrees
    <3> HIDE DEF n
    <3>6. QED
      BY <1>a, <1>t, <2>1, <3>1, <3>2, <3>3, <3>c, <3>4, <3>5, LauncherMoves DEF SandboxTypeOK
  <2>4. ASSUME NEW exit \in {"none", "zero", "other"},
               container' \in {container, [container EXCEPT ![a] = "exited"]},
               attempt' = [attempt EXCEPT
                 ![a].pc = "removing", ![a].exit = exit,
                 ![a].status = CASE attempt[a].reason \in {"timed_out", "cancelled"}
                                      -> attempt[a].reason
                                 [] attempt[a].reason = "exited" /\ exit = "zero" -> "completed"
                                 [] OTHER -> "failed",
                 ![a].failure = ~(attempt[a].reason = "exited" /\ exit = "zero")]
        PROVE  SandboxInv'
    <3> DEFINE status == CASE attempt[a].reason \in {"timed_out", "cancelled"} -> attempt[a].reason
                           [] attempt[a].reason = "exited" /\ exit = "zero" -> "completed"
                           [] OTHER -> "failed"
               failure == ~(attempt[a].reason = "exited" /\ exit = "zero")
    <3>1. /\ status \in {"timed_out", "cancelled", "completed", "failed"} /\ failure \in BOOLEAN
          /\ IF status = "completed" THEN exit = "zero" /\ ~failure ELSE failure
      OBVIOUS
    <3>2. attempt' = [attempt EXCEPT ![a].pc = "removing", ![a].exit = exit,
                                     ![a].status = status, ![a].failure = failure]
      BY <2>4
    <3> HIDE DEF status, failure
    <3>3. QED
      BY <2>3, <2>4, <3>1, <3>2
  <2>5. QED
    BY <1>9, <2>2, <2>4 DEF Observe
<1>10. ASSUME NEW a \in Attempts, RemoveContainer(a) PROVE SandboxInv'
  <2>1. attempt[a].pc = "removing" /\ UNCHANGED <<running, bundle, begun, crashes>>
    BY <1>10 DEF RemoveContainer, BoxAt
  <2>2. PICK removed \in BOOLEAN, confirmed \in BOOLEAN :
          /\ confirmed => container[a] \in {"none", "pending"} \/ removed
          /\ container' = IF removed /\ container[a] # "pending"
                          THEN [container EXCEPT ![a] = "none"] ELSE container
          /\ attempt' = [attempt EXCEPT
               ![a].pc = "unstaging",
               ![a].cleanup = IF confirmed /\ ~attempt[a].uncertain THEN "confirmed"
                              ELSE "unconfirmed"]
    BY <1>10 DEF RemoveContainer
  <2> DEFINE c == IF removed /\ container[a] # "pending" THEN "none" ELSE container[a]
             cleanup == IF confirmed /\ ~attempt[a].uncertain THEN "confirmed" ELSE "unconfirmed"
             n == [attempt[a] EXCEPT !.pc = "unstaging", !.cleanup = cleanup]
  <2>3. attempt' = [attempt EXCEPT ![a] = n]
    BY <1>t, <2>2 DEF SandboxTypeOK
  <2>4. container' = [container EXCEPT ![a] = c] /\ c \in Boxes
    BY <1>a, <1>u, <2>2 DEF Boxes
  <2>5. /\ cleanup \in {"confirmed", "unconfirmed"}
        /\ cleanup = "confirmed" => c = "none"
        /\ c \in {"none", container[a]}
    BY <1>a, <2>2 DEF LaunchAgrees
  <2> HIDE DEF c, cleanup
  <2>6. n \in BoxState /\ n.pc \in Active
    <3>1. n \in BoxState
      BY <1>a, <2>5, ZenonT(30) DEF BoxState
    <3>2. n.pc \in Active
      BY <1>a, <2>5 DEF BoxState, Active
    <3>3. QED
      BY <3>1, <3>2
  <2>7. OutcomeAgrees(n)
    BY <1>a, <2>1 DEF BoxState, OutcomeAgrees
  <2>8. LaunchAgrees(n, c, bundle[a])
    BY <1>a, <2>1, <2>5 DEF BoxState, LaunchAgrees
  <2> HIDE DEF n
  <2>9. QED
    BY <1>a, <1>t, <2>1, <2>3, <2>4, <2>6, <2>7, <2>8, LauncherMoves DEF SandboxTypeOK
<1>11. ASSUME NEW a \in Attempts, SaveFails(a) PROVE SandboxInv'
  <2> DEFINE n == [attempt[a] EXCEPT !.status = "failed", !.failure = TRUE]
  <2>1. /\ attempt[a].pc = "unstaging" /\ attempt[a].launched
        /\ UNCHANGED <<running, container, bundle, begun, crashes>>
    BY <1>11 DEF SaveFails, BoxAt
  <2>2. attempt' = [attempt EXCEPT ![a] = n]
    BY <1>11, <1>t DEF SaveFails, SandboxTypeOK
  <2>3. n \in BoxState /\ n.pc \in Active
    <3>1. n \in BoxState
      BY <1>a, <2>1, ZenonT(30) DEF BoxState
    <3>2. n.pc \in Active
      BY <1>a, <2>1 DEF BoxState, Active
    <3>3. QED
      BY <3>1, <3>2
  <2>4. OutcomeAgrees(n)
    BY <1>a, <2>1 DEF BoxState, OutcomeAgrees
  <2>5. LaunchAgrees(n, container[a], bundle[a])
    BY <1>a, <2>1 DEF BoxState, LaunchAgrees
  <2> HIDE DEF n
  <2>6. QED
    BY <1>a, <1>t, <2>1, <2>2, <2>3, <2>4, <2>5, CallMoves DEF SandboxTypeOK
<1>12. ASSUME NEW a \in Attempts, Unstage(a) PROVE SandboxInv'
  <2>1. attempt[a].pc = "unstaging" /\ UNCHANGED <<running, container, begun, crashes>>
    BY <1>12 DEF Unstage, BoxAt
  <2> DEFINE left == [attempt[a] EXCEPT !.pc = "publishing"]
             failed == [attempt[a] EXCEPT !.pc = "publishing", !.status = "failed",
                                          !.failure = TRUE]
  <2>2. /\ left \in BoxState /\ left.pc \in Active
        /\ OutcomeAgrees(left) /\ LaunchAgrees(left, container[a], bundle[a])
    <3>1. left \in BoxState /\ left.pc \in Active
      <4>1. left \in BoxState
        BY <1>a, ZenonT(30) DEF BoxState
      <4>2. left.pc \in Active
        BY <1>a DEF BoxState, Active
      <4>3. QED
        BY <4>1, <4>2
    <3>2. OutcomeAgrees(left)
      BY <1>a, <2>1 DEF BoxState, OutcomeAgrees
    <3>3. LaunchAgrees(left, container[a], bundle[a])
      BY <1>a, <2>1 DEF BoxState, LaunchAgrees
    <3>4. QED
      BY <3>1, <3>2, <3>3
  <2>3. attempt[a].cleanup # "unconfirmed" => LaunchAgrees(left, container[a], "removed")
    BY <1>a, <2>1 DEF BoxState, LaunchAgrees
  <2>4. /\ failed \in BoxState /\ failed.pc \in Active
        /\ OutcomeAgrees(failed) /\ LaunchAgrees(failed, container[a], bundle[a])
    <3>1. failed \in BoxState /\ failed.pc \in Active
      <4>1. failed \in BoxState
        BY <1>a, ZenonT(30) DEF BoxState
      <4>2. failed.pc \in Active
        BY <1>a DEF BoxState, Active
      <4>3. QED
        BY <4>1, <4>2
    <3>2. OutcomeAgrees(failed)
      BY <1>a, <2>1 DEF BoxState, OutcomeAgrees
    <3>3. LaunchAgrees(failed, container[a], bundle[a])
      BY <1>a, <2>1 DEF BoxState, LaunchAgrees
    <3>4. QED
      BY <3>1, <3>2, <3>3
  <2>5. \/ attempt' = [attempt EXCEPT ![a] = left] /\ UNCHANGED bundle
        \/ /\ attempt[a].cleanup # "unconfirmed"
           /\ attempt' = [attempt EXCEPT ![a] = left]
           /\ bundle' = [bundle EXCEPT ![a] = "removed"]
        \/ attempt' = [attempt EXCEPT ![a] = failed] /\ UNCHANGED bundle
    BY <1>12, <1>t DEF Unstage, BoxGo, SandboxTypeOK
  <2> HIDE DEF left, failed
  <2>6. CASE attempt' = [attempt EXCEPT ![a] = left] /\ UNCHANGED bundle
    BY <1>a, <1>t, <2>1, <2>2, <2>6, CallMoves DEF SandboxTypeOK
  <2>7. CASE attempt' = [attempt EXCEPT ![a] = failed] /\ UNCHANGED bundle
    BY <1>a, <1>t, <2>1, <2>4, <2>7, CallMoves DEF SandboxTypeOK
  <2>8. CASE /\ attempt[a].cleanup # "unconfirmed"
             /\ attempt' = [attempt EXCEPT ![a] = left]
             /\ bundle' = [bundle EXCEPT ![a] = "removed"]
    <3>1. /\ container' = [container EXCEPT ![a] = container[a]] /\ "removed" \in Bundles
          /\ begun \subseteq begun' /\ begun' \in SUBSET Attempts /\ a \in begun'
          /\ running' = running /\ crashes' \in Nat
      BY <1>a, <1>t, <1>u, <2>1 DEF SandboxTypeOK, Bundles, Active
    <3>2. QED
      BY <1>a, <2>2, <2>3, <2>8, <3>1, ExperimentMoves
  <2>9. QED
    BY <2>5, <2>6, <2>7, <2>8
<1>13. ASSUME NEW a \in Attempts, PublishResult(a) PROVE SandboxInv'
  <2> DEFINE n == [Reported(attempt[a]) EXCEPT !.pc = "reported"]
  <2>1. /\ attempt[a].pc = "publishing" /\ attempt' = [attempt EXCEPT ![a] = n]
        /\ running' = NoAttempt /\ UNCHANGED <<container, bundle, begun, crashes>>
    BY <1>13 DEF PublishResult, BoxAt
  <2>2. n \in BoxState
    BY <1>a DEF Reported, BoxState
  <2>3. OutcomeAgrees(n)
    BY <1>a, <2>1 DEF Reported, BoxState, OutcomeAgrees
  <2>4. LaunchAgrees(n, container[a], bundle[a])
    BY <1>a, <2>1 DEF Reported, BoxState, LaunchAgrees
  <2> HIDE DEF n
  <2>5. QED
    BY <1>a, <1>t, <2>1, <2>2, <2>3, <2>4, SandboxAssumption, CallMoves
    DEF SandboxTypeOK, SandboxAssumption
<1>14. CASE ControllerCrash
  <2>1. PICK a \in Attempts : a = running
    BY <1>14, <1>t DEF ControllerCrash, SandboxTypeOK
  <2> DEFINE n == [attempt[a] EXCEPT !.pc = "crashed"]
  <2>2. /\ running' = NoAttempt /\ crashes' = crashes + 1
        /\ container' = container /\ bundle' = bundle /\ begun' = begun
    BY <1>14 DEF ControllerCrash
  <2>3. attempt' = [attempt EXCEPT ![a] = n]
    BY <1>14, <1>t, <2>1 DEF ControllerCrash, BoxGo, SandboxTypeOK
  <2>4. attempt[a].pc \in Active /\ a \in begun /\ crashes' \in Nat /\ running' # a
    BY <1>a, <1>t, <2>1, <2>2, SandboxAssumption
    DEF SandboxInv, SandboxTypeOK, SandboxAssumption, Active
  <2>5. n \in BoxState
    BY <1>a DEF BoxState
  <2>6. OutcomeAgrees(n)
    BY <1>a, <2>4 DEF BoxState, OutcomeAgrees, Active
  <2>7. LaunchAgrees(n, container[a], bundle[a])
    BY <1>a DEF BoxState, LaunchAgrees
  <2> HIDE DEF n
  <2>8. QED
    BY <2>2, <2>3, <2>4, <2>5, <2>6, <2>7, CallMoves
<1>15. CASE UNCHANGED sandboxVars
  BY <1>15 DEF sandboxVars, SandboxInv, SandboxTypeOK
<1>16. QED
  BY <1>1, <1>2, <1>3, <1>4, <1>5, <1>7, <1>8, <1>9, <1>10, <1>11, <1>12, <1>13, <1>14, <1>15
  DEF NextSandbox

\* Staged inputs outlive the container that mounts them, one that the daemon has yet to create
\* included, whichever command fails and wherever the controller dies
\* (runner.py:179-184, 208-213, 307-310).
THEOREM MountsOutliveContainers == SandboxSpec => []MountOutlivesContainer
<1>1. SandboxSpec => []SandboxInv
  BY SandboxInit, SandboxNext, PTL DEF SandboxSpec
<1>2. SandboxInv => MountOutlivesContainer
  BY DEF SandboxInv, SandboxTypeOK, BoxState, LaunchAgrees, MountOutlivesContainer
<1>3. QED
  BY <1>1, <1>2, PTL

\* A cleanup that was reported as confirmed left no container, and none appears later
\* (runner.py:308).
THEOREM ConfirmedStaysGone == SandboxSpec => []ConfirmedIsGone
<1>1. SandboxSpec => []SandboxInv
  BY SandboxInit, SandboxNext, PTL DEF SandboxSpec
<1>2. SandboxInv => ConfirmedIsGone
  BY DEF SandboxInv, LaunchAgrees, ConfirmedIsGone
<1>3. QED
  BY <1>1, <1>2, PTL

\* Every path through the runner ends in a result that its own contract accepts
\* (domain/experiments.py:175).
THEOREM EveryResultIsCoherent == SandboxSpec => []ResultsAreCoherent
<1>1. SandboxSpec => []SandboxInv
  BY SandboxInit, SandboxNext, PTL DEF SandboxSpec
<1>2. SandboxInv => ResultsAreCoherent
  <2> SUFFICES ASSUME SandboxInv, NEW a \in Attempts, attempt[a].pc = "reported"
               PROVE  Coherent(attempt[a])
    BY DEF ResultsAreCoherent, BoxAt
  <2>1. /\ attempt[a] \in BoxState /\ OutcomeAgrees(attempt[a])
        /\ LaunchAgrees(attempt[a], container[a], bundle[a])
    BY DEF SandboxInv, SandboxTypeOK
  <2>2. QED
    BY <2>1 DEF BoxState, OutcomeAgrees, LaunchAgrees, Coherent
<1>3. QED
  BY <1>1, <1>2, PTL

-----------------------------------------------------------------------------
(* The artifact stores. *)

StoreSpec == InitStore /\ [][NextStore]_storeVars

WriterState ==
  [pc : {"idle", "staged", "flushed", "named", "sent", "linked"}, digest : Digests \cup {"none"},
   attempt : Nat, created : BOOLEAN]

StoreTypeOK ==
  /\ medium \in {"local", "s3"}
  /\ objects \in [Digests -> {"absent", "whole", "corrupt"}]
  /\ writer \in [Writers -> WriterState]
  /\ requests \subseteq [writer : Writers, digest : Digests, attempt : Nat]

\* A writer that does something does it for a digest.
WritersHaveDigests ==
  \A w \in Writers : writer[w].pc # "idle" => writer[w].digest \in Digests

\* Nothing is sent to S3 for files, and a file that was created is on disk before its writer is told of it.
LocalIsSynced ==
  medium = "local" =>
    /\ promised \subseteq synced
    /\ requests = {}
    /\ \A w \in Writers :
         /\ writer[w].pc # "sent"
         /\ writer[w].created => writer[w].digest \in synced

StoreInv == StoreTypeOK /\ WritersHaveDigests /\ LocalIsSynced

\* No object exists and no writer has begun.
LEMMA StoreInit == InitStore => StoreInv
BY DEF InitStore, StoreInv, StoreTypeOK, WritersHaveDigests, LocalIsSynced, Waiting, WriterState

\* What a writer becomes, and what is on disk or promised afterwards.
LEMMA WriterChanges ==
  ASSUME StoreInv, NEW w \in Writers, NEW state \in WriterState,
         state.pc # "idle" => state.digest \in Digests,
         writer' = [writer EXCEPT ![w] = state],
         medium' = medium,
         objects' \in [Digests -> {"absent", "whole", "corrupt"}],
         synced \subseteq synced',
         requests' \subseteq [writer : Writers, digest : Digests, attempt : Nat],
         medium = "local" =>
           /\ requests' = {} /\ promised' \subseteq synced'
           /\ state.pc # "sent" /\ (state.created => state.digest \in synced')
  PROVE  StoreInv'
<1>1. /\ StoreTypeOK' /\ writer \in [Writers -> WriterState]
      /\ \A v \in Writers : writer'[v] = IF v = w THEN state ELSE writer[v]
  BY DEF StoreInv, StoreTypeOK
<1>2. WritersHaveDigests'
  BY <1>1 DEF StoreInv, WritersHaveDigests
<1>3. LocalIsSynced'
  BY <1>1 DEF StoreInv, LocalIsSynced
<1>4. QED
  BY <1>1, <1>2, <1>3 DEF StoreInv

\* No step of a writer, of S3, of a fault or of the power supply breaks the invariant.
LEMMA StoreNext == StoreInv /\ [NextStore]_storeVars => StoreInv'
<1> SUFFICES ASSUME StoreInv, [NextStore]_storeVars PROVE StoreInv'
  OBVIOUS
<1> USE DEF StoreInv
<1>0. /\ writer \in [Writers -> WriterState] /\ StoreTypeOK
      /\ Waiting \in WriterState /\ Waiting.pc = "idle" /\ Waiting.created = FALSE
  BY DEF StoreTypeOK, Waiting, WriterState
<1>14. \A d : Created(d) \in [Digests -> {"absent", "whole", "corrupt"}]
  BY <1>0 DEF Created, StoreTypeOK
<1>1. ASSUME NEW w \in Writers, NEW d \in Digests, StageFile(w, d) PROVE StoreInv'
  <2> DEFINE state == [Waiting EXCEPT !.pc = "staged", !.digest = d]
  <2>1. state \in WriterState /\ state.created = FALSE /\ state.digest = d
        /\ state.pc = "staged"
    BY DEF Waiting, WriterState
  <2>2. /\ writer' = [writer EXCEPT ![w] = state]
        /\ UNCHANGED <<medium, objects, synced, requests, promised>>
    BY <1>1 DEF StageFile
  <2>3. QED
    BY <2>1, <2>2, WriterChanges DEF StoreTypeOK, LocalIsSynced
<1>2. ASSUME NEW w \in Writers, NEW d \in Digests, SendCreation(w, d) PROVE StoreInv'
  <2> DEFINE state == [pc |-> "sent", digest |-> d, attempt |-> 1, created |-> FALSE]
  <2>1. state \in WriterState /\ state.digest = d
    BY DEF WriterState
  <2>2. /\ writer' = [writer EXCEPT ![w] = state]
        /\ medium = "s3"
        /\ requests' = requests \cup {[writer |-> w, digest |-> d, attempt |-> 1]}
        /\ UNCHANGED <<medium, objects, synced, promised>>
    BY <1>2 DEF SendCreation
  <2>3. requests' \subseteq [writer : Writers, digest : Digests, attempt : Nat]
    BY <2>2 DEF StoreTypeOK
  <2>4. QED
    BY <2>1, <2>2, <2>3, WriterChanges DEF StoreTypeOK
<1>3. ASSUME NEW w \in Writers, FlushFile(w) PROVE StoreInv'
  <2> DEFINE state == [writer[w] EXCEPT !.pc = "flushed"]
  <2>1. /\ state \in WriterState /\ state.digest = writer[w].digest
        /\ state.created = writer[w].created /\ state.pc = "flushed"
    BY <1>0 DEF WriterState
  <2>2. /\ writer' = [writer EXCEPT ![w] = state] /\ writer[w].pc = "staged"
        /\ UNCHANGED <<medium, objects, synced, requests, promised>>
    BY <1>3 DEF FlushFile, WriterGo, WriterAt
  <2>3. QED
    BY <2>1, <2>2, WriterChanges DEF StoreTypeOK, LocalIsSynced, WritersHaveDigests
<1>4. ASSUME NEW w \in Writers, LinkFile(w) PROVE StoreInv'
  <2>1. PICK pc \in {"named", "linked"} : writer' = [writer EXCEPT ![w].pc = pc]
    BY <1>4 DEF LinkFile, WriterGo
  <2> DEFINE state == [writer[w] EXCEPT !.pc = pc]
  <2>2. /\ state \in WriterState /\ state.digest = writer[w].digest
        /\ state.created = writer[w].created /\ state.pc \in {"named", "linked"}
    BY <1>0 DEF WriterState
  <2>3. /\ writer' = [writer EXCEPT ![w] = state] /\ writer[w].pc = "flushed"
        /\ objects' = Created(writer[w].digest)
        /\ UNCHANGED <<medium, synced, requests, promised>>
    BY <1>4, <2>1 DEF LinkFile, WriterAt
  <2>4. QED
    BY <1>14, <2>2, <2>3, WriterChanges DEF StoreTypeOK, LocalIsSynced, WritersHaveDigests
<1>5. ASSUME NEW w \in Writers, SyncDirectory(w) PROVE StoreInv'
  <2> DEFINE state == [writer[w] EXCEPT !.pc = "linked", !.created = TRUE]
  <2>1. state \in WriterState /\ state.digest = writer[w].digest /\ state.pc = "linked"
    BY <1>0 DEF WriterState
  <2>2. /\ writer' = [writer EXCEPT ![w] = state] /\ writer[w].pc = "named"
        /\ synced' = synced \cup {writer[w].digest}
        /\ UNCHANGED <<medium, objects, requests, promised>>
    BY <1>0, <1>5 DEF SyncDirectory, WriterAt
  <2>3. QED
    BY <2>1, <2>2, WriterChanges DEF StoreTypeOK, LocalIsSynced, WritersHaveDigests
<1>6. ASSUME NEW w \in Writers, RetryCreation(w) PROVE StoreInv'
  <2> DEFINE nth ==  writer[w].attempt + 1
             state == [writer[w] EXCEPT !.attempt = nth]
             request == [writer |-> w, digest |-> writer[w].digest, attempt |-> nth]
  <2>1. /\ writer[w].pc = "sent" /\ writer' = [writer EXCEPT ![w] = state]
        /\ requests' = requests \cup {request}
        /\ UNCHANGED <<medium, objects, synced, promised>>
    BY <1>6 DEF RetryCreation, WriterAt
  <2>2. nth \in Nat /\ writer[w].digest \in Digests
    BY <1>0, <2>1 DEF WriterState, WritersHaveDigests
  <2>3. /\ state \in WriterState /\ state.digest = writer[w].digest /\ state.pc = "sent"
        /\ state.created = writer[w].created
    BY <1>0, <2>1, <2>2 DEF WriterState
  <2>4. request \in [writer : Writers, digest : Digests, attempt : Nat]
    BY <2>2
  <2>5. medium = "s3"
    BY <2>1 DEF StoreTypeOK, LocalIsSynced
  <2>6. QED
    BY <2>1, <2>2, <2>3, <2>4, <2>5, WriterChanges DEF StoreTypeOK
<1>7. ASSUME NEW w \in Writers, ReadBack(w) PROVE StoreInv'
  <2>1. /\ writer' = [writer EXCEPT ![w] = Waiting]
        /\ promised' = promised \/ (promised' = promised \cup {writer[w].digest}
                                      /\ writer[w].created)
        /\ UNCHANGED <<medium, objects, synced, requests>>
    BY <1>7 DEF ReadBack
  <2>2. medium = "local" => promised' \subseteq synced
    BY <2>1 DEF LocalIsSynced
  <2>3. QED
    BY <1>0, <2>1, <2>2, WriterChanges DEF StoreTypeOK, LocalIsSynced
<1>8. ASSUME NEW w \in Writers, GiveUpPut(w) PROVE StoreInv'
  BY <1>0, <1>8, WriterChanges DEF GiveUpPut, StoreTypeOK, LocalIsSynced
<1>9. ASSUME NEW request \in requests, Arrive(request) PROVE StoreInv'
  <2> DEFINE w == request.writer
             state == [writer[w] EXCEPT !.pc = "linked", !.created = TRUE]
  <2>1. w \in Writers /\ medium = "s3"
    BY DEF StoreTypeOK, LocalIsSynced
  <2>2. /\ UNCHANGED <<medium, synced, promised>> /\ requests' \subseteq requests
        /\ objects' \in [Digests -> {"absent", "whole", "corrupt"}]
        /\ \/ writer' = [writer EXCEPT ![w] = state] /\ writer[w].pc = "sent"
           \/ writer' = writer
    BY <1>0, <1>9, <1>14, <2>1 DEF Arrive, WriterAt, StoreTypeOK
  <2>3. state \in WriterState /\ state.digest = writer[w].digest
    BY <1>0, <2>1 DEF WriterState
  <2>4. CASE writer' = writer
    BY <1>0, <2>1, <2>2, <2>4 DEF StoreTypeOK, WritersHaveDigests, LocalIsSynced
  <2>5. CASE writer' = [writer EXCEPT ![w] = state] /\ writer[w].pc = "sent"
    <3>1. state.digest \in Digests
      BY <2>1, <2>3, <2>5 DEF WritersHaveDigests
    <3>2. QED
      BY <2>1, <2>2, <2>3, <2>5, <3>1, WriterChanges DEF StoreTypeOK
  <2>6. QED
    BY <2>2, <2>4, <2>5
<1>10. ASSUME NEW d \in Digests, Damage(d) PROVE StoreInv'
  <2>1. objects' = [objects EXCEPT ![d] = "corrupt"]
        /\ UNCHANGED <<medium, synced, writer, requests, promised>>
    BY <1>10 DEF Damage
  <2>2. QED
    BY <2>1 DEF StoreTypeOK, WritersHaveDigests, LocalIsSynced
<1>11. CASE PowerLoss
  <2>1. /\ medium = "local" /\ UNCHANGED <<medium, synced, requests, promised>>
        /\ objects' \in [Digests -> {"absent", "whole", "corrupt"}]
        /\ writer' = [w \in Writers |-> Waiting]
    BY <1>11 DEF PowerLoss, StoreTypeOK
  <2>2. QED
    BY <1>0, <2>1 DEF StoreTypeOK, WritersHaveDigests, LocalIsSynced
<1>12. CASE UNCHANGED storeVars
  BY <1>12 DEF storeVars, StoreTypeOK, WritersHaveDigests, LocalIsSynced
<1>13. QED
  BY <1>1, <1>2, <1>3, <1>4, <1>5, <1>6, <1>7, <1>8, <1>9, <1>10, <1>11, <1>12 DEF NextStore

-----------------------------------------------------------------------------
\* Taking a free name is the appearance of an object, and taking it again is nothing.
LEMMA CreationAppears ==
  ASSUME StoreInv, NEW d \in Digests, objects' = Created(d), UNCHANGED promised
  PROVE  Objects!Appear(d) \/ UNCHANGED <<objects, promised>>
BY DEF Created, Objects!Appear

\* Every step of a writer, of S3, of a fault or of the power supply is one of the promise or none.
LEMMA StepsKeepThePromise ==
  ASSUME StoreInv, [NextStore]_storeVars
  PROVE  [Objects!Next]_<<objects, promised>>
<1> USE DEF StoreInv
<1>1. ASSUME NEW w \in Writers, ReadBack(w)
      PROVE  (\E d \in Digests : Objects!Promise(d)) \/ UNCHANGED <<objects, promised>>
  <2>1. writer[w].digest \in Digests
    BY <1>1 DEF ReadBack, WriterAt, WritersHaveDigests
  <2>2. QED
    BY <1>1, <2>1 DEF ReadBack, Verified, Objects!Promise
<1>2. ASSUME NEW w \in Writers, LinkFile(w)
      PROVE  (\E d \in Digests : Objects!Appear(d)) \/ UNCHANGED <<objects, promised>>
  <2>1. writer[w].digest \in Digests
    BY <1>2 DEF LinkFile, WriterAt, WritersHaveDigests
  <2>2. QED
    BY <1>2, <2>1, CreationAppears DEF LinkFile
<1>3. ASSUME NEW request \in requests, Arrive(request)
      PROVE  (\E d \in Digests : Objects!Appear(d)) \/ UNCHANGED <<objects, promised>>
  <2>1. request.digest \in Digests
    BY DEF StoreTypeOK
  <2>2. (objects' = Created(request.digest) \/ UNCHANGED objects) /\ UNCHANGED promised
    BY <1>3 DEF Arrive
  <2>3. QED
    BY <2>1, <2>2, CreationAppears
<1>4. ASSUME NEW d \in Digests, Damage(d) PROVE Objects!Damage(d)
  BY <1>4 DEF Damage, Objects!Damage
<1>5. ASSUME PowerLoss PROVE \E lost \in SUBSET Digests : Objects!Lose(lost)
  <2>1. PICK lost \in SUBSET (Digests \ synced) :
          objects' = [d \in Digests |-> IF d \in lost THEN "absent" ELSE objects[d]]
    BY <1>5 DEF PowerLoss
  <2>2. lost \cap promised = {} /\ UNCHANGED promised
    BY <1>5, <2>1 DEF PowerLoss, LocalIsSynced
  <2>3. QED
    BY <2>1, <2>2 DEF Objects!Lose
<1>6. ASSUME NEW w \in Writers,
             \/ FlushFile(w) \/ SyncDirectory(w) \/ RetryCreation(w) \/ GiveUpPut(w)
             \/ \E d \in Digests : StageFile(w, d) \/ SendCreation(w, d)
      PROVE  UNCHANGED <<objects, promised>>
  BY <1>6
  DEF FlushFile, SyncDirectory, RetryCreation, GiveUpPut, StageFile, SendCreation
<1>7. CASE UNCHANGED storeVars
  BY <1>7 DEF storeVars
<1>8. QED
  BY <1>1, <1>2, <1>3, <1>4, <1>5, <1>6, <1>7 DEF NextStore, Objects!Next

\* Both stores are a store of write-once objects for their callers: whatever writers, retries, late
\* requests, damage and power failures do, no name is written over and what was promised stays
\* (data/artifacts.py:249-267, data/s3_artifacts.py:88-142).
THEOREM StoresKeepThePromise == StoreSpec => PutsKeepThePromise
<1>1. InitStore => Objects!Init
  BY DEF InitStore, Objects!Init
<1>2. StoreSpec => []StoreInv
  BY StoreInit, StoreNext, PTL DEF StoreSpec
<1>3. StoreInv /\ [NextStore]_storeVars => [Objects!Next]_<<objects, promised>>
  BY StepsKeepThePromise
<1>4. QED
  BY <1>1, <1>2, <1>3, PTL DEF StoreSpec, PutsKeepThePromise, Objects!Spec

-----------------------------------------------------------------------------
(* The signing keys. *)

KeySpec == InitKeys /\ [][NextKeys]_keyVars

KeysTypeOK ==
  /\ clock \in Nat
  /\ published \in SUBSET SigningKeys
  /\ lastPublished \in [SigningKeys -> Int]
  /\ cache \in [keys : SUBSET SigningKeys, expires : Int, refreshAfter : Int, unavailable : BOOLEAN]
  /\ fetch \in [kid : SigningKeys \cup {NoKey}, started : Int, document : SUBSET SigningKeys]
  /\ accepted \in [kid : SigningKeys \cup {NoKey}, at : Int]

\* The provider signs with its keys at this instant and with none that are still to come.
PublicationIsDated ==
  \A k \in SigningKeys : lastPublished[k] =< clock /\ (k \in published => lastPublished[k] = clock)

\* What is read of the provider, and what is cached of it, was published after the fetch began.
KeysAreFresh ==
  /\ fetch.started =< clock
  /\ \A k \in fetch.document : lastPublished[k] >= fetch.started
  /\ \A k \in cache.keys : lastPublished[k] >= cache.expires - Lifetime

KeysInv == KeysTypeOK /\ PublicationIsDated /\ KeysAreFresh /\ RetiredKeysLapse

\* Nothing is cached at first.
LEMMA KeysInit == InitKeys => KeysInv
BY KeyCacheAssumption
DEF KeyCacheAssumption, InitKeys, KeysInv, KeysTypeOK, PublicationIsDated, KeysAreFresh,
    RetiredKeysLapse, NoFetch, Never

\* A cached key that is looked up before the cache expires is young enough.
LEMMA AnswerIsFresh ==
  ASSUME KeysInv, NEW c, c \in [keys : SUBSET SigningKeys, expires : Int, refreshAfter : Int,
                                unavailable : BOOLEAN],
         NEW kid \in SigningKeys, kid \in c.keys, clock < c.expires,
         \A k \in c.keys : lastPublished[k] >= c.expires - Lifetime
  PROVE  clock - lastPublished[kid] < Lifetime
BY KeyCacheAssumption DEF KeyCacheAssumption, KeysInv, KeysTypeOK

\* No step of a thread, of the provider or of the clock breaks the invariant.
LEMMA KeysNext == KeysInv /\ [NextKeys]_keyVars => KeysInv'
<1> SUFFICES ASSUME KeysInv, [NextKeys]_keyVars PROVE KeysInv'
  OBVIOUS
<1> USE KeyCacheAssumption DEF KeyCacheAssumption, KeysInv
<1>1. ASSUME NEW kid \in SigningKeys, Lookup(kid) PROVE KeysInv'
  <2>1. UNCHANGED <<clock, published, lastPublished, cache, fetch>>
    BY <1>1 DEF Lookup
  <2>2. \/ UNCHANGED accepted
        \/ accepted' = [kid |-> kid, at |-> clock] /\ clock < cache.expires /\ kid \in cache.keys
    BY <1>1 DEF Lookup, Answer, Accept
  <2>3. KeysTypeOK'
    BY <2>1, <2>2 DEF KeysTypeOK
  <2>4. RetiredKeysLapse'
    <3>1. CASE UNCHANGED accepted
      BY <2>1, <3>1 DEF RetiredKeysLapse
    <3>2. CASE accepted' = [kid |-> kid, at |-> clock] /\ clock < cache.expires
                 /\ kid \in cache.keys
      <4>1. clock - lastPublished[kid] < Lifetime
        BY <3>2, AnswerIsFresh DEF KeysTypeOK, KeysAreFresh
      <4>2. QED
        BY <2>1, <3>2, <4>1 DEF RetiredKeysLapse
    <3>3. QED
      BY <2>2, <3>1, <3>2
  <2>5. QED
    BY <2>1, <2>3, <2>4 DEF PublicationIsDated, KeysAreFresh
<1>2. ASSUME NEW kid \in SigningKeys, BeginFetch(kid) PROVE KeysInv'
  <2>1. /\ UNCHANGED <<clock, published, lastPublished, accepted>>
        /\ cache' = [cache EXCEPT !.refreshAfter = clock + RefreshEvery]
        /\ fetch' = [kid |-> kid, started |-> clock, document |-> {}]
    BY <1>2 DEF BeginFetch
  <2>2. cache'.keys = cache.keys /\ cache'.expires = cache.expires
    BY <2>1 DEF KeysTypeOK
  <2>3. KeysTypeOK'
    BY <2>1 DEF KeysTypeOK
  <2>4. KeysAreFresh'
    BY <2>1, <2>2 DEF KeysAreFresh, KeysTypeOK
  <2>5. QED
    BY <2>1, <2>3, <2>4 DEF PublicationIsDated, RetiredKeysLapse
<1>3. CASE Respond
  <2>1. /\ UNCHANGED <<clock, published, lastPublished, cache, accepted>>
        /\ fetch' = [fetch EXCEPT !.document = published]
    BY <1>3 DEF Respond
  <2>2. fetch'.started = fetch.started /\ fetch'.document = published
    BY <2>1 DEF KeysTypeOK
  <2>3. KeysTypeOK'
    BY <2>1 DEF KeysTypeOK
  <2>4. KeysAreFresh'
    BY <2>1, <2>2 DEF KeysAreFresh, PublicationIsDated, KeysTypeOK
  <2>5. QED
    BY <2>1, <2>3, <2>4 DEF PublicationIsDated, RetiredKeysLapse
<1>4. CASE EndFetch
  <2>1. /\ UNCHANGED <<clock, published, lastPublished>>
        /\ fetch # NoFetch /\ fetch' = NoFetch
        /\ Answer(fetch.kid, cache')
    BY <1>4 DEF EndFetch
  <2>2. \/ cache' = [cache EXCEPT !.keys = fetch.document, !.expires = fetch.started + Lifetime,
                                  !.unavailable = FALSE]
        \/ cache' = [cache EXCEPT !.unavailable = TRUE]
    BY <1>4 DEF EndFetch, Expiry
  <2>3. /\ fetch.document \in SUBSET SigningKeys /\ fetch.started \in Int /\ Lifetime \in Int
        /\ cache \in [keys : SUBSET SigningKeys, expires : Int, refreshAfter : Int, unavailable : BOOLEAN]
        /\ lastPublished \in [SigningKeys -> Int]
    BY DEF KeysTypeOK
  <2>4. cache' \in [keys : SUBSET SigningKeys, expires : Int, refreshAfter : Int, unavailable : BOOLEAN]
    <3>1. CASE cache' = [cache EXCEPT !.keys = fetch.document, !.expires = fetch.started + Lifetime,
                                      !.unavailable = FALSE]
      <4>1. fetch.started + Lifetime \in Int
        BY <2>3
      <4>2. QED
        BY <2>3, <3>1, <4>1
    <3>2. CASE cache' = [cache EXCEPT !.unavailable = TRUE]
      BY <2>3, <3>2
    <3>3. QED
      BY <2>2, <3>1, <3>2
  <2>5. \/ cache'.keys = fetch.document /\ cache'.expires = fetch.started + Lifetime
        \/ cache'.keys = cache.keys /\ cache'.expires = cache.expires
    BY <2>2, <2>3
  <2>6. \A k \in cache'.keys : lastPublished[k] >= cache'.expires - Lifetime
    BY <2>3, <2>5 DEF KeysAreFresh
  <2>7. \/ UNCHANGED accepted
        \/ /\ accepted' = [kid |-> fetch.kid, at |-> clock]
           /\ clock < cache'.expires /\ fetch.kid \in cache'.keys
    BY <2>1 DEF Answer, Accept
  <2>8. KeysTypeOK'
    BY <2>1, <2>4, <2>7 DEF KeysTypeOK, NoFetch
  <2>9. KeysAreFresh'
    <3>1. fetch'.started =< clock' /\ fetch'.document = {}
      BY <2>1 DEF NoFetch, KeysTypeOK
    <3>2. QED
      BY <2>1, <2>6, <3>1 DEF KeysAreFresh
  <2>10. RetiredKeysLapse'
    <3>1. CASE UNCHANGED accepted
      BY <2>1, <3>1 DEF RetiredKeysLapse
    <3>2. CASE /\ accepted' = [kid |-> fetch.kid, at |-> clock]
               /\ clock < cache'.expires /\ fetch.kid \in cache'.keys
      <4>1. fetch.kid \in SigningKeys
        BY <2>4, <3>2
      <4>2. clock - lastPublished[fetch.kid] < Lifetime
        BY <2>4, <2>6, <3>2, <4>1, AnswerIsFresh
      <4>3. QED
        BY <2>1, <3>2, <4>2 DEF RetiredKeysLapse
    <3>3. QED
      BY <2>7, <3>1, <3>2
  <2>11. QED
    BY <2>1, <2>8, <2>9, <2>10 DEF PublicationIsDated
<1>5. ASSUME UNCHANGED <<cache, fetch, accepted>>, clock' \in {clock, clock + 1},
             published' \in SUBSET SigningKeys,
             lastPublished' = [k \in SigningKeys |-> IF k \in published' THEN clock' ELSE lastPublished[k]]
      PROVE  KeysInv'
  <2>1. \A k \in SigningKeys : lastPublished'[k] >= lastPublished[k]
    BY <1>5 DEF PublicationIsDated, KeysTypeOK
  <2>2. KeysTypeOK'
    BY <1>5 DEF KeysTypeOK
  <2>3. PublicationIsDated'
    BY <1>5 DEF PublicationIsDated, KeysTypeOK
  <2>4. KeysAreFresh'
    BY <1>5, <2>1, <2>2 DEF KeysAreFresh, KeysTypeOK
  <2>5. RetiredKeysLapse'
    BY <1>5, <2>1, <2>2 DEF RetiredKeysLapse, KeysTypeOK
  <2>6. QED
    BY <2>2, <2>3, <2>4, <2>5
<1>6. CASE Rotate
  BY <1>5, <1>6 DEF Rotate
<1>7. CASE TickKeys
  BY <1>5, <1>7 DEF TickKeys, KeysTypeOK
<1>8. CASE UNCHANGED keyVars
  BY <1>8
  DEF keyVars, KeysTypeOK, PublicationIsDated, KeysAreFresh, RetiredKeysLapse
<1>9. QED
  BY <1>1, <1>2, <1>3, <1>4, <1>6, <1>7, <1>8 DEF NextKeys

\* A key that was withdrawn verifies no token later than a lifetime after its withdrawal, whatever
\* the threads, the provider and the network do (auth/cognito.py:78-131).
THEOREM WithdrawnKeysLapse == KeySpec => []RetiredKeysLapse
<1>1. KeySpec => []KeysInv
  BY KeysInit, KeysNext, PTL DEF KeySpec
<1>2. KeysInv => RetiredKeysLapse
  BY DEF KeysInv
<1>3. QED
  BY <1>1, <1>2, PTL

-----------------------------------------------------------------------------
(* The replay of quotes. *)

JournalSpec == InitJournal /\ [][NextJournal]_journalVars

Messages == 1 .. Events \cup {Altered}

ConsumerState ==
  [pc : {"stopped", "polling", "polled", "appended"}, position : Nat, record : Nat,
   processed : Nat]

JournalTypeOK ==
  /\ log \in Seq(Messages)
  /\ sending \in 0 .. Events
  /\ committed \in 0 .. Len(log)
  /\ assigned \in Consumers \cup {Nobody}
  /\ consumer \in [Consumers -> ConsumerState]
  /\ journal \in [Consumers -> SUBSET Messages]
  /\ executions \in Nat

\* The record in hand is in the partition, and in the journal once it is appended.
RecordsInHand ==
  \A c \in Consumers :
    /\ consumer[c].pc \in {"polled", "appended"} => consumer[c].record \in 1 .. Len(log)
    /\ consumer[c].pc = "appended" => log[consumer[c].record] \in journal[c]

\* The consumer that owns the partition continues where the group has committed.
OwnerContinues ==
  \A c \in Consumers :
    assigned = c =>
      /\ consumer[c].pc # "stopped"
      /\ consumer[c].pc = "polling" => consumer[c].position = committed
      /\ consumer[c].pc \in {"polled", "appended"} =>
           consumer[c].record = committed + 1 /\ consumer[c].position = committed + 1

JournalInv == JournalTypeOK /\ RecordsInHand /\ OwnerContinues /\ CommittedIsJournaled

\* Nothing is committed at first.
LEMMA JournalInit == InitJournal => JournalInv
<1> SUFFICES ASSUME InitJournal PROVE JournalInv
  OBVIOUS
<1> USE JournalAssumption DEF JournalAssumption, InitJournal
<1>1. log \in Seq(Messages) /\ Len(log) = 0
  OBVIOUS
<1>2. JournalTypeOK
  BY <1>1 DEF JournalTypeOK, Stopped0, ConsumerState
<1>3. RecordsInHand /\ OwnerContinues
  BY DEF RecordsInHand, OwnerContinues, Stopped0
<1>4. CommittedIsJournaled
  BY DEF CommittedIsJournaled
<1>5. QED
  BY <1>2, <1>3, <1>4 DEF JournalInv

\* A message that is appended leaves the earlier ones where they are.
LEMMA AppendKeeps ==
  ASSUME JournalInv, NEW message \in Messages, log' = Append(log, message),
         sending' \in 0 .. Events,
         UNCHANGED <<committed, assigned, consumer, journal, executions>>
  PROVE  JournalInv'
<1> USE DEF JournalInv
<1>1. /\ log \in Seq(Messages) /\ log' \in Seq(Messages) /\ Len(log') = Len(log) + 1
      /\ Len(log) \in Nat
      /\ \A i \in 1 .. Len(log) : log'[i] = log[i]
  BY DEF JournalTypeOK
<1>2. JournalTypeOK'
  BY <1>1 DEF JournalTypeOK
<1>3. RecordsInHand'
  BY <1>1 DEF RecordsInHand
<1>4. OwnerContinues'
  BY DEF OwnerContinues
<1>5. CommittedIsJournaled'
  BY <1>1 DEF CommittedIsJournaled, JournalTypeOK
<1>6. QED
  BY <1>2, <1>3, <1>4, <1>5

\* The producer and the other writer of the topic keep the invariant.
LEMMA WritersKeep ==
  ASSUME JournalInv, StartProducer \/ Produce \/ WriteAltered
  PROVE  JournalInv'
<1> USE JournalAssumption DEF JournalAssumption
<1>0. sending \in 0 .. Events /\ Events \in Nat
  BY DEF JournalInv, JournalTypeOK
<1>1. CASE WriteAltered
  BY <1>0, <1>1, AppendKeeps DEF WriteAltered, Messages
<1>2. CASE Produce /\ log' = Append(log, sending)
  <2>1. sending \in Messages /\ sending' \in 0 .. Events
    BY <1>0, <1>2 DEF Produce, Messages
  <2>2. QED
    BY <1>2, <2>1, AppendKeeps DEF Produce
<1>3. CASE UNCHANGED <<log, committed, assigned, consumer, journal, executions>> /\ sending' \in 0 .. Events
  BY <1>3 DEF JournalInv, JournalTypeOK, RecordsInHand, OwnerContinues, CommittedIsJournaled
<1>4. StartProducer \/ (Produce /\ log' # Append(log, sending)) =>
        UNCHANGED <<log, committed, assigned, consumer, journal, executions>> /\ sending' \in 0 .. Events
  BY <1>0 DEF StartProducer, Produce
<1>5. QED
  BY <1>1, <1>2, <1>3, <1>4

\* A consumer keeps the invariant: it commits what it has appended, and nobody commits before it.
LEMMA ConsumersKeep ==
  ASSUME JournalInv, NEW c \in Consumers,
         StartConsumer(c) \/ Assign(c) \/ Poll(c) \/ Record(c) \/ Commit(c) \/ EndRun(c)
  PROVE  JournalInv'
<1> USE DEF JournalInv, ConsumerState
<1>0. /\ log' = log /\ sending' = sending
      /\ log \in Seq(Messages) /\ Len(log) \in Nat
      /\ committed \in 0 .. Len(log)
      /\ Nobody \notin Consumers
      /\ consumer \in [Consumers -> ConsumerState] /\ journal \in [Consumers -> SUBSET Messages]
  BY JournalAssumption
  DEF JournalAssumption, JournalTypeOK, StartConsumer, Assign, Poll, Record, Commit, EndRun
<1>1. CASE StartConsumer(c)
  <2>0. /\ consumer' \in [Consumers -> ConsumerState] /\ executions' \in Nat
        /\ UNCHANGED <<committed, assigned, journal>>
    <3>1. [Stopped0 EXCEPT !.pc = "polling"] \in ConsumerState
      BY DEF Stopped0
    <3>2. /\ executions \in Nat /\ executions' = executions + 1
          /\ consumer' = [consumer EXCEPT ![c] = [Stopped0 EXCEPT !.pc = "polling"]]
          /\ UNCHANGED <<committed, assigned, journal>>
      BY <1>1 DEF StartConsumer, JournalTypeOK
    <3>3. QED
      BY <1>0, <3>1, <3>2
  <2>1. JournalTypeOK'
    BY <1>0, <2>0 DEF JournalTypeOK
  <2>2. RecordsInHand' /\ OwnerContinues'
    BY <1>0, <1>1 DEF StartConsumer, RecordsInHand, OwnerContinues, Stopped0, ConsumerAt
  <2>3. CommittedIsJournaled'
    BY <1>0, <1>1 DEF StartConsumer, CommittedIsJournaled
  <2>4. QED
    BY <2>1, <2>2, <2>3
<1>2. CASE Assign(c)
  <2>0. /\ consumer' \in [Consumers -> ConsumerState] /\ assigned' \in Consumers
        /\ UNCHANGED <<committed, journal, executions>>
    <3>1. /\ consumer' = [consumer EXCEPT ![c].position = committed] /\ assigned' = c
          /\ UNCHANGED <<committed, journal, executions>>
      BY <1>2 DEF Assign
    <3>2. committed \in Nat /\ consumer[c] \in ConsumerState
      BY <1>0
    <3>3. [consumer[c] EXCEPT !.position = committed] \in ConsumerState
      BY <3>2
    <3>4. QED
      BY <1>0, <3>1, <3>3
  <2>1. JournalTypeOK'
    BY <1>0, <2>0 DEF JournalTypeOK
  <2>2. RecordsInHand' /\ OwnerContinues'
    BY <1>0, <1>2 DEF Assign, RecordsInHand, OwnerContinues, ConsumerAt
  <2>3. CommittedIsJournaled'
    BY <1>0, <1>2 DEF Assign, CommittedIsJournaled
  <2>4. QED
    BY <2>1, <2>2, <2>3
<1>3. CASE Poll(c)
  <2>0. consumer' \in [Consumers -> ConsumerState] /\ UNCHANGED <<committed, assigned, journal, executions>>
    <3>1. /\ consumer' = [consumer EXCEPT ![c].pc = "polled", ![c].position = @ + 1,
                                          ![c].record = consumer[c].position + 1]
          /\ UNCHANGED <<committed, assigned, journal, executions>>
      BY <1>3 DEF Poll
    <3>2. consumer[c] \in ConsumerState /\ consumer[c].position + 1 \in Nat
      BY <1>0
    <3>3. [consumer[c] EXCEPT !.pc = "polled", !.position = @ + 1,
                              !.record = consumer[c].position + 1] \in ConsumerState
      BY <3>2
    <3>4. consumer' = [consumer EXCEPT ![c] = [consumer[c] EXCEPT !.pc = "polled",
                         !.position = @ + 1, !.record = consumer[c].position + 1]]
      BY <1>0, <3>1
    <3>5. QED
      BY <1>0, <3>1, <3>3, <3>4
  <2>1. JournalTypeOK'
    BY <1>0, <2>0 DEF JournalTypeOK
  <2>2. RecordsInHand' /\ OwnerContinues'
    BY <1>0, <1>3 DEF Poll, RecordsInHand, OwnerContinues, ConsumerAt
  <2>3. CommittedIsJournaled'
    BY <1>0, <1>3 DEF Poll, CommittedIsJournaled
  <2>4. QED
    BY <2>1, <2>2, <2>3
<1>4. CASE Record(c)
  <2>1. consumer[c].record \in 1 .. Len(log) /\ log[consumer[c].record] \in Messages
    BY <1>0, <1>4 DEF Record, RecordsInHand, ConsumerAt
  <2>2. /\ journal' = [journal EXCEPT ![c] = @ \cup {log[consumer[c].record]}]
        /\ consumer' = [consumer EXCEPT ![c].pc = "appended"]
        /\ consumer[c].pc = "polled"
        /\ UNCHANGED <<committed, assigned, executions>>
    BY <1>4 DEF Record, ConsumerGo, ConsumerAt
  <2>3. journal' \in [Consumers -> SUBSET Messages]
        /\ \A d \in Consumers : journal[d] \subseteq journal'[d]
    BY <1>0, <2>1, <2>2
  <2>4. JournalTypeOK'
    BY <1>0, <2>2, <2>3 DEF JournalTypeOK
  <2>5. RecordsInHand'
    <3>1. log[consumer[c].record] \in journal'[c]
      BY <1>0, <2>2
    <3>2. QED
      BY <1>0, <2>1, <2>2, <2>3, <3>1 DEF RecordsInHand
  <2>6. OwnerContinues'
    BY <1>0, <2>2 DEF OwnerContinues
  <2>7. CommittedIsJournaled'
    BY <1>0, <2>2, <2>3 DEF CommittedIsJournaled
  <2>8. QED
    BY <2>4, <2>5, <2>6, <2>7
<1>5. CASE (Commit(c) \/ EndRun(c)) /\ committed' # committed
  <2>1. /\ consumer[c].pc = "appended" /\ assigned = c
        /\ committed' = consumer[c].record
        /\ journal' = journal /\ executions' = executions
    BY <1>5 DEF Commit, EndRun, Committable, ConsumerAt
  <2>2. /\ committed' = committed + 1 /\ committed' \in 1 .. Len(log)
        /\ log[committed'] \in journal[c]
    BY <1>0, <2>1 DEF OwnerContinues, RecordsInHand
  <2>3. CommittedIsJournaled'
    <3>1. \A i \in 1 .. committed' : i \in 1 .. committed \/ i = committed'
      BY <1>0, <2>2
    <3>2. QED
      BY <1>0, <2>1, <2>2, <3>1 DEF CommittedIsJournaled
  <2>4. CASE Commit(c)
    <3>1. JournalTypeOK'
      BY <1>0, <2>1, <2>2, <2>4 DEF Commit, JournalTypeOK
    <3>2. RecordsInHand' /\ OwnerContinues'
      BY <1>0, <2>1, <2>2, <2>4 DEF Commit, RecordsInHand, OwnerContinues
    <3>3. QED
      BY <2>3, <3>1, <3>2
  <2>5. CASE EndRun(c)
    <3>1. JournalTypeOK'
      BY <1>0, <2>1, <2>2, <2>5 DEF EndRun, Leave, JournalTypeOK, Stopped0
    <3>2. RecordsInHand' /\ OwnerContinues'
      BY <1>0, <2>1, <2>2, <2>5 DEF EndRun, Leave, RecordsInHand, OwnerContinues, Stopped0
    <3>3. QED
      BY <2>3, <3>1, <3>2
  <2>6. QED
    BY <1>5, <2>4, <2>5
<1>6. CASE (Commit(c) \/ EndRun(c)) /\ committed' = committed
  <2>1. ~Commit(c)
    <3>1. ASSUME Commit(c) PROVE FALSE
      BY <1>0, <1>6, <3>1 DEF Commit, Committable, ConsumerAt, OwnerContinues
    <3>2. QED
      BY <3>1
  <2>2. EndRun(c) /\ journal' = journal /\ executions' = executions
    BY <1>6, <2>1 DEF EndRun
  <2>3. JournalTypeOK'
    BY <1>0, <1>6, <2>2 DEF EndRun, Leave, JournalTypeOK, Stopped0
  <2>4. RecordsInHand' /\ OwnerContinues'
    BY <1>0, <1>6, <2>2 DEF EndRun, Leave, RecordsInHand, OwnerContinues, Stopped0
  <2>5. CommittedIsJournaled'
    BY <1>0, <1>6, <2>2 DEF CommittedIsJournaled
  <2>6. QED
    BY <2>3, <2>4, <2>5
<1>7. QED
  BY <1>1, <1>2, <1>3, <1>4, <1>5, <1>6

\* The invariant holds in every reachable state.
THEOREM JournalInvariance == JournalSpec => []JournalInv
<1>1. JournalInv /\ [NextJournal]_journalVars => JournalInv'
  <2> SUFFICES ASSUME JournalInv, [NextJournal]_journalVars PROVE JournalInv'
    OBVIOUS
  <2>1. CASE UNCHANGED journalVars
    BY <2>1 DEF journalVars, JournalInv, JournalTypeOK, RecordsInHand, OwnerContinues,
                CommittedIsJournaled
  <2>2. CASE NextJournal
    BY <2>2, WritersKeep, ConsumersKeep DEF NextJournal
  <2>3. QED
    BY <2>1, <2>2
<1>2. QED
  BY JournalInit, <1>1, PTL DEF JournalSpec

\* For any number of consumers, events, runs, rebalances, repeated and altered messages, and
\* wherever consumers stop, no committed offset passes a message that no journal holds
\* (tools/streaming/replay.py:91-138).
THEOREM NothingCommittedIsLost == JournalSpec => []CommittedIsJournaled
<1>1. JournalInv => CommittedIsJournaled
  BY DEF JournalInv
<1>2. QED
  BY <1>1, JournalInvariance, PTL

-----------------------------------------------------------------------------
(* The dispatcher: no slot is lost or returned twice, and nothing runs on a closed store. *)

\* What the drain that holds the shutdown lock owns.
Owned == IF shutdown = NoCloser THEN 0 ELSE held[shutdown]

Busy == Cardinality(Occupying)

\* The states of a call: nothing is queued for a new one, only an abandoned one is cancelled.
CallsInOrder ==
  \A c \in Calls : /\ task[c] = "new" => thread[c] = "none"
                   /\ cancelled[c] => task[c] = "abandoned"

\* Only the holder of the shutdown lock drains, and it owns what its program counter says.
DrainsInOrder ==
  \A k \in Closers :
    /\ shutdown = k <=> closer[k] \in {"acquiring", "releasing"}
    /\ shutdown # k => held[k] = 0
    /\ closer[k] = "acquiring" => held[k] < Capacity
    /\ closer[k] = "releasing" => held[k] > 0

\* Admission ends before the first drain, and nothing is occupied after it.
ClosedIsQuiet ==
  /\ \A k \in Closers : closer[k] # "new" => closing
  /\ \A k \in Closers : closer[k] \in {"releasing", "drained", "done"} => Occupying = {}
  /\ storeClosed => closing /\ Occupying = {}

DispatcherInv ==
  /\ DispatcherTypeOK
  /\ IsFiniteSet(Occupying)
  /\ slots + Busy + Owned = Capacity
  /\ CallsInOrder
  /\ DrainsInOrder
  /\ ClosedIsQuiet

\* A set of calls that gains or loses one call is counted accordingly.
LEMMA BusyCounts ==
  ASSUME NEW S, IsFiniteSet(S), NEW c
  PROVE  /\ IsFiniteSet(S \cup {c}) /\ IsFiniteSet(S \ {c})
         /\ Cardinality(S) \in Nat
         /\ c \notin S => Cardinality(S \cup {c}) = Cardinality(S) + 1
         /\ c \in S => Cardinality(S \ {c}) = Cardinality(S) - 1
  BY FS_AddElement, FS_RemoveElement, FS_CardinalityType

\* No slot is occupied at first.
LEMMA DispatcherInit == InitDispatcher => DispatcherInv
<1> SUFFICES ASSUME InitDispatcher PROVE DispatcherInv
  OBVIOUS
<1>1. Occupying = {}
  BY DEF InitDispatcher, Occupying
<1>2. IsFiniteSet(Occupying) /\ Busy = 0
  BY <1>1, FS_EmptySet DEF Busy
<1>3. DispatcherTypeOK
  <2>1. slots \in 0 .. Capacity /\ held \in [Closers -> 0 .. Capacity]
    BY DispatcherAssumption DEF InitDispatcher, DispatcherAssumption
  <2>2. QED
    BY <2>1 DEF InitDispatcher, DispatcherTypeOK
<1>4. slots + Busy + Owned = Capacity
  BY <1>2, DispatcherAssumption DEF InitDispatcher, Owned, DispatcherAssumption
<1>5. CallsInOrder /\ ClosedIsQuiet
  BY DEF InitDispatcher, CallsInOrder, ClosedIsQuiet
<1>6. DrainsInOrder
  BY DispatcherAssumption DEF InitDispatcher, DrainsInOrder, DispatcherAssumption
<1>7. QED
  BY <1>2, <1>3, <1>4, <1>5, <1>6 DEF DispatcherInv

\* A step of a call keeps the invariant.
LEMMA CallKeeps ==
  ASSUME DispatcherInv, NEW c \in Calls, CallStep(c)
  PROVE  DispatcherInv'
<1> USE DEF DispatcherInv
<1>0. /\ Capacity \in Nat /\ slots \in Nat /\ Owned \in Nat /\ Busy \in Nat
      /\ shutdown' = shutdown /\ held' = held /\ Owned' = Owned
      /\ closer' = closer /\ closing' = closing /\ storeClosed' = storeClosed
  BY DispatcherAssumption, FS_CardinalityType
  DEF DispatcherAssumption, DispatcherTypeOK, Owned, Busy, CallStep, AdmitCall, Reject, Begin,
      Finish, Return, Abandon
<1>1. CASE AdmitCall(c)
  <2>1. Occupying' = Occupying \cup {c} /\ c \notin Occupying
    BY <1>1 DEF AdmitCall, Occupying, DispatcherTypeOK, CallsInOrder
  <2>2. Busy' = Busy + 1 /\ IsFiniteSet(Occupying')
    BY <2>1, BusyCounts DEF Busy
  <2>3. DispatcherTypeOK'
    BY <1>0, <1>1, <2>1 DEF AdmitCall, DispatcherTypeOK
  <2>4. (slots + Busy + Owned = Capacity)'
    BY <1>0, <1>1, <2>2 DEF AdmitCall
  <2>5. CallsInOrder'
    BY <1>1 DEF AdmitCall, CallsInOrder, DispatcherTypeOK
  <2>6. DrainsInOrder'
    BY <1>0 DEF DrainsInOrder
  <2>7. ClosedIsQuiet'
    BY <1>0, <1>1 DEF AdmitCall, ClosedIsQuiet
  <2>8. QED
    BY <2>2, <2>3, <2>4, <2>5, <2>6, <2>7
<1>2. CASE Finish(c)
  <2>1. Occupying' = Occupying \ {c} /\ c \in Occupying
    BY <1>2 DEF Finish, Occupying, DispatcherTypeOK
  <2>2. Busy' = Busy - 1 /\ IsFiniteSet(Occupying')
    BY <2>1, BusyCounts DEF Busy
  <2>3. slots' + Busy' + Owned' = Capacity /\ slots' \in 0 .. Capacity
    BY <1>0, <1>2, <2>2, <2>1, FS_CardinalityType DEF Finish, Busy
  <2>4. DispatcherTypeOK'
    BY <1>0, <1>2, <2>3 DEF Finish, DispatcherTypeOK
  <2>5. CallsInOrder'
    BY <1>2 DEF Finish, CallsInOrder, DispatcherTypeOK
  <2>6. DrainsInOrder'
    BY <1>0 DEF DrainsInOrder
  <2>7. ClosedIsQuiet'
    BY <1>0, <2>1 DEF ClosedIsQuiet
  <2>8. QED
    BY <2>2, <2>3, <2>4, <2>5, <2>6, <2>7
<1>3. CASE Abandon(c) /\ thread[c] = "queued"
  <2>1. Occupying' = Occupying \ {c} /\ c \in Occupying
    BY <1>3 DEF Abandon, Occupying, DispatcherTypeOK, CallsInOrder
  <2>2. Busy' = Busy - 1 /\ IsFiniteSet(Occupying')
    BY <2>1, BusyCounts DEF Busy
  <2>3. slots' + Busy' + Owned' = Capacity /\ slots' \in 0 .. Capacity
    BY <1>0, <1>3, <2>2, <2>1, FS_CardinalityType DEF Abandon, Busy
  <2>4. DispatcherTypeOK'
    BY <1>0, <1>3, <2>3 DEF Abandon, DispatcherTypeOK
  <2>5. CallsInOrder'
    BY <1>3 DEF Abandon, CallsInOrder, DispatcherTypeOK
  <2>6. DrainsInOrder'
    BY <1>0 DEF DrainsInOrder
  <2>7. ClosedIsQuiet'
    BY <1>0, <2>1 DEF ClosedIsQuiet
  <2>8. QED
    BY <2>2, <2>3, <2>4, <2>5, <2>6, <2>7
<1>4. CASE Reject(c) \/ Begin(c) \/ Return(c) \/ (Abandon(c) /\ thread[c] # "queued")
  <2>1. Occupying' = Occupying
    BY <1>4 DEF Reject, Begin, Return, Abandon, Occupying, DispatcherTypeOK
  <2>2. slots' = slots /\ Busy' = Busy
    BY <1>4, <2>1 DEF Reject, Begin, Return, Abandon, Busy
  <2>3. DispatcherTypeOK'
    BY <1>0, <1>4 DEF Reject, Begin, Return, Abandon, DispatcherTypeOK
  <2>4. CallsInOrder'
    BY <1>4 DEF Reject, Begin, Return, Abandon, CallsInOrder, DispatcherTypeOK
  <2>5. DrainsInOrder' /\ ClosedIsQuiet'
    BY <1>0, <2>1 DEF DrainsInOrder, ClosedIsQuiet
  <2>6. QED
    BY <1>0, <2>1, <2>2, <2>3, <2>4, <2>5
<1>5. QED
  BY <1>1, <1>2, <1>3, <1>4 DEF CallStep

\* A step of close() keeps the invariant.
LEMMA CloserKeeps ==
  ASSUME DispatcherInv, NEW k \in Closers, Close(k) \/ Drain(k)
  PROVE  DispatcherInv'
<1> USE DEF DispatcherInv
<1>0. /\ Capacity \in Nat \ {0} /\ NoCloser \notin Closers /\ slots \in Nat /\ Busy \in Nat
      /\ held[k] \in Nat
  BY DispatcherAssumption, FS_CardinalityType DEF DispatcherAssumption, DispatcherTypeOK, Busy
<1>1. task' = task /\ thread' = thread /\ cancelled' = cancelled
  BY DEF Close, Drain, LockShutdown, Acquire, Release, CloseStore
<1>2. Occupying' = Occupying /\ Busy' = Busy /\ CallsInOrder'
  BY <1>1 DEF Occupying, Busy, CallsInOrder
<1>3. CASE Close(k)
  <2>1. DispatcherTypeOK' /\ Owned' = Owned /\ slots' = slots
    BY <1>3 DEF Close, DispatcherTypeOK, Owned
  <2>2. DrainsInOrder' /\ ClosedIsQuiet'
    BY <1>2, <1>3 DEF Close, DrainsInOrder, ClosedIsQuiet, DispatcherTypeOK
  <2>3. QED
    BY <1>2, <2>1, <2>2
<1>4. CASE LockShutdown(k)
  <2>1. held[k] = 0
    BY <1>0, <1>4 DEF LockShutdown, DrainsInOrder
  <2>2. DispatcherTypeOK' /\ Owned' = 0 /\ Owned = 0 /\ slots' = slots
    BY <1>0, <1>4, <2>1 DEF LockShutdown, DispatcherTypeOK, Owned
  <2>3. DrainsInOrder' /\ ClosedIsQuiet'
    BY <1>0, <1>2, <1>4, <2>1 DEF LockShutdown, DrainsInOrder, ClosedIsQuiet, DispatcherTypeOK
  <2>4. QED
    BY <1>0, <1>2, <2>2, <2>3
<1>5. CASE Acquire(k)
  <2>1. shutdown = k /\ held[k] < Capacity
    BY <1>5 DEF Acquire, DrainsInOrder
  <2>2. /\ slots' = slots - 1 /\ slots' \in Nat /\ held'[k] = held[k] + 1
        /\ Owned = held[k] /\ Owned' = held[k] + 1
    BY <1>0, <1>5, <2>1 DEF Acquire, DispatcherTypeOK, Owned
  <2>3. slots' + Busy' + Owned' = Capacity
    BY <1>0, <1>2, <2>2
  <2>4. DispatcherTypeOK'
    BY <1>0, <1>5, <2>1, <2>2 DEF Acquire, DispatcherTypeOK
  <2>5. DrainsInOrder'
    BY <1>0, <1>5, <2>1, <2>2 DEF Acquire, DrainsInOrder, DispatcherTypeOK
  <2>6. ASSUME held[k] + 1 = Capacity
        PROVE  Occupying = {}
    BY <1>0, <1>2, <2>2, <2>3, <2>6, FS_EmptySet DEF Busy
  <2>7. ClosedIsQuiet'
    BY <1>2, <1>5, <2>6 DEF Acquire, ClosedIsQuiet, DispatcherTypeOK
  <2>8. QED
    BY <1>2, <2>3, <2>4, <2>5, <2>7
<1>6. CASE Release(k)
  <2>1. shutdown = k /\ held[k] > 0 /\ held[k] \in 0 .. Capacity
    BY <1>6 DEF Release, DrainsInOrder, DispatcherTypeOK
  <2>2. /\ slots' = slots + 1 /\ held'[k] = held[k] - 1
        /\ Owned = held[k] /\ Owned' = held[k] - 1
    BY <1>0, <1>6, <2>1 DEF Release, DispatcherTypeOK, Owned
  <2>3. slots' + Busy' + Owned' = Capacity /\ slots' \in 0 .. Capacity
    BY <1>0, <1>2, <2>1, <2>2
  <2>4. DispatcherTypeOK'
    BY <1>0, <1>6, <2>1, <2>2, <2>3 DEF Release, DispatcherTypeOK
  <2>5. DrainsInOrder'
    BY <1>0, <1>6, <2>1, <2>2 DEF Release, DrainsInOrder, DispatcherTypeOK
  <2>6. ClosedIsQuiet'
    BY <1>2, <1>6 DEF Release, ClosedIsQuiet, DispatcherTypeOK
  <2>7. QED
    BY <1>2, <2>3, <2>4, <2>5, <2>6
<1>7. CASE CloseStore(k)
  <2>1. DispatcherTypeOK' /\ Owned' = Owned /\ slots' = slots
    BY <1>7 DEF CloseStore, DispatcherTypeOK, Owned
  <2>2. DrainsInOrder' /\ ClosedIsQuiet'
    BY <1>2, <1>7 DEF CloseStore, DrainsInOrder, ClosedIsQuiet, DispatcherTypeOK
  <2>3. QED
    BY <1>2, <2>1, <2>2
<1>8. QED
  BY <1>3, <1>4, <1>5, <1>6, <1>7 DEF Drain

\* The invariant holds in every reachable state.
THEOREM DispatcherInvariance == DispatcherSpec => []DispatcherInv
<1>1. DispatcherInv /\ [NextDispatcher]_dispatcherVars => DispatcherInv'
  <2> SUFFICES ASSUME DispatcherInv, [NextDispatcher]_dispatcherVars PROVE DispatcherInv'
    OBVIOUS
  <2>1. CASE UNCHANGED dispatcherVars
    BY <2>1 DEF dispatcherVars, DispatcherInv, DispatcherTypeOK, Occupying, Busy, Owned,
                CallsInOrder, DrainsInOrder, ClosedIsQuiet
  <2>2. CASE NextDispatcher
    BY <2>2, CallKeeps, CloserKeeps DEF NextDispatcher
  <2>3. QED
    BY <2>1, <2>2
<1>2. QED
  BY DispatcherInit, <1>1, PTL DEF DispatcherSpec

\* Slots, calls, threads and closers keep their types; a release above the capacity, at which
\* BoundedSemaphore raises ValueError (api/dispatch.py:44-69), does not happen.
THEOREM DispatcherTypeCorrect == DispatcherSpec => []DispatcherTypeOK
<1>1. DispatcherInv => DispatcherTypeOK
  BY DEF DispatcherInv
<1>2. QED
  BY <1>1, DispatcherInvariance, PTL

\* No slot is lost or returned twice by refusals, cancellations at any point, or concurrent
\* drains (api/dispatch.py:27-69).
THEOREM NoSlotIsLost ==
  ASSUME Closers # {}
  PROVE  DispatcherSpec => []SlotsConserved
<1>1. DispatcherInv => SlotsConserved
  <2> SUFFICES ASSUME DispatcherInv PROVE SlotsConserved
    OBVIOUS
  <2>0. slots + Busy + Owned = Capacity /\ DrainsInOrder /\ DispatcherTypeOK
    BY DEF DispatcherInv
  <2>1. CASE shutdown = NoCloser
    <3>1. PICK k \in Closers : TRUE
      OBVIOUS
    <3>2. \A other \in Closers : held[other] = 0
      BY <2>0, <2>1, DispatcherAssumption DEF DrainsInOrder, DispatcherAssumption
    <3>3. slots + Cardinality(Occupying) + held[k] = Capacity
      BY <2>0, <2>1, <3>2 DEF Owned, Busy
    <3>4. QED
      BY <3>2, <3>3 DEF SlotsConserved
  <2>2. CASE shutdown \in Closers
    <3>1. slots + Cardinality(Occupying) + held[shutdown] = Capacity
      BY <2>0, <2>2, DispatcherAssumption DEF Owned, Busy, DispatcherAssumption
    <3>2. \A other \in Closers \ {shutdown} : held[other] = 0
      BY <2>0 DEF DrainsInOrder
    <3>3. QED
      BY <2>2, <3>1, <3>2 DEF SlotsConserved
  <2>3. QED
    BY <2>0, <2>1, <2>2 DEF DispatcherTypeOK
<1>2. QED
  BY <1>1, DispatcherInvariance, PTL

\* No operation uses the store after it was closed (api/dispatch.py:61-72, api/app.py:105-117).
THEOREM ClosedStoreIsUnused == DispatcherSpec => []NothingRunsAfterClose
<1>1. DispatcherInv => NothingRunsAfterClose
  BY DEF DispatcherInv, ClosedIsQuiet, NothingRunsAfterClose
<1>2. QED
  BY <1>1, DispatcherInvariance, PTL

-----------------------------------------------------------------------------
(* The durable run store: receipts are stable and accepted runs stay      *)
(* readable, for every number of callers, recovery loops, keys and runs,  *)
(* for scans of any size, and however often processes stop.               *)

-----------------------------------------------------------------------------
(* Queues. *)

\* One more element of a queue is looked at.
Step(queue, S, kept, n) ==
  IF n = 0 THEN <<>>
  ELSE IF queue[n] \in S THEN Append(kept[n - 1], queue[n]) ELSE kept[n - 1]

\* kept is a table of the elements of S among the first m, fewer or none of a queue.
KeptTable(queue, S, kept, m) == kept = [n \in 0 .. m |-> Step(queue, S, kept, n)]

\* There is a table for every prefix of a queue.
LEMMA KeptTableExists ==
  ASSUME NEW S, NEW T, NEW queue \in Seq(T)
  PROVE  \E kept : KeptTable(queue, S, kept, Len(queue))
<1> DEFINE Good == {m \in Nat : m =< Len(queue) => \E kept : KeptTable(queue, S, kept, m)}
<1>1. 0 \in Good
  <2> DEFINE none == [n \in 0 .. 0 |-> <<>>]
  <2>1. none = [n \in 0 .. 0 |-> Step(queue, S, none, n)]
    BY DEF Step
  <2>2. KeptTable(queue, S, none, 0)
    BY <2>1 DEF KeptTable
  <2>3. QED
    BY <2>2
<1>2. ASSUME NEW m \in Good PROVE m + 1 \in Good
  <2>1. m \in Nat /\ m + 1 \in Nat
    OBVIOUS
  <2>2. SUFFICES ASSUME m + 1 =< Len(queue) PROVE \E kept : KeptTable(queue, S, kept, m + 1)
    BY <2>1
  <2>3. PICK kept : KeptTable(queue, S, kept, m)
    BY <2>1, <2>2
  <2> DEFINE more == [n \in 0 .. m + 1 |-> Step(queue, S, kept, n)]
  <2>4. \A n \in 0 .. m : more[n] = kept[n]
    BY <2>1, <2>3 DEF KeptTable
  <2>5. \A n \in 0 .. m + 1 : Step(queue, S, more, n) = Step(queue, S, kept, n)
    <3> SUFFICES ASSUME NEW n \in 0 .. m + 1
                 PROVE  Step(queue, S, more, n) = Step(queue, S, kept, n)
      OBVIOUS
    <3>1. CASE n = 0
      BY <3>1 DEF Step
    <3>2. CASE n # 0
      <4>1. n - 1 \in 0 .. m
        BY <2>1, <3>2
      <4>2. more[n - 1] = kept[n - 1]
        BY <2>4, <4>1
      <4> HIDE DEF more
      <4>3. QED
        BY <3>2, <4>2 DEF Step
    <3>3. QED
      BY <3>1, <3>2
  <2>6. KeptTable(queue, S, more, m + 1)
    BY <2>5 DEF KeptTable
  <2>7. QED
    BY <2>6
<1>3. Good = Nat
  <2> HIDE DEF Good
  <2>1. Good \in SUBSET Nat
    BY DEF Good
  <2>2. QED
    BY <1>1, <1>2, <2>1, NatSetInduction
<1>4. Len(queue) \in Nat
  OBVIOUS
<1>5. QED
  BY <1>3, <1>4

\* The elements of a queue that are in S make a queue of the same kind.
LEMMA AmongType ==
  ASSUME NEW S, NEW T, NEW queue \in Seq(T)
  PROVE  Among(queue, S) \in Seq(T)
<1> DEFINE kept == CHOOSE k : KeptTable(queue, S, k, Len(queue))
           Good == {n \in Nat : n =< Len(queue) => kept[n] \in Seq(T)}
<1>1. KeptTable(queue, S, kept, Len(queue))
  BY KeptTableExists
<1>2. Among(queue, S) = kept[Len(queue)]
  BY DEF Among, KeptTable, Step
<1> HIDE DEF kept
<1>3. Len(queue) \in Nat
  OBVIOUS
<1>4. \A n \in 0 .. Len(queue) : kept[n] = Step(queue, S, kept, n)
  BY <1>1 DEF KeptTable
<1>5. 0 \in Good
  <2>1. kept[0] = <<>>
    BY <1>3, <1>4 DEF Step
  <2>2. <<>> \in Seq(T)
    OBVIOUS
  <2>3. QED
    BY <2>1, <2>2
<1>6. ASSUME NEW n \in Good PROVE n + 1 \in Good
  <2>1. n \in Nat /\ n + 1 \in Nat
    OBVIOUS
  <2>2. SUFFICES ASSUME n + 1 =< Len(queue) PROVE kept[n + 1] \in Seq(T)
    BY <2>1
  <2>3. kept[n] \in Seq(T)
    BY <2>1, <2>2, <1>3
  <2>4. kept[n + 1] = Step(queue, S, kept, n + 1) /\ n + 1 # 0 /\ (n + 1) - 1 = n
    BY <1>3, <1>4, <2>1, <2>2
  <2>5. queue[n + 1] \in T
    BY <1>3, <2>1, <2>2
  <2>6. Append(kept[n], queue[n + 1]) \in Seq(T)
    BY <2>3, <2>5
  <2>7. QED
    BY <2>3, <2>4, <2>6 DEF Step
<1>7. Good = Nat
  <2> HIDE DEF Good
  <2>1. Good \in SUBSET Nat
    BY DEF Good
  <2>2. QED
    BY <1>5, <1>6, <2>1, NatSetInduction
<1>8. QED
  BY <1>2, <1>3, <1>7

\* The runs found in the database are put in some order.
LEMMA SetToSeqType ==
  ASSUME NEW S, IsFiniteSet(S)
  PROVE  SetToSeq(S) \in Seq(S)
<1>1. Cardinality(S) \in Nat /\ ExistsBijection(1 .. Cardinality(S), S)
  BY FS_CardinalityType
<1>2. \E f \in [1 .. Cardinality(S) -> S] : IsInjective(f)
  BY <1>1 DEF ExistsBijection, Bijection, Injection, Surjection, IsInjective
<1>3. SetToSeq(S) \in [1 .. Cardinality(S) -> S]
  BY <1>2 DEF SetToSeq
<1>4. QED
  BY <1>1, <1>3

-----------------------------------------------------------------------------
(* The invariant. *)

Stages == {"none", "input", "pending", "finished"}

CallRecord == [pc : {"idle"}]
          \cup [pc : {"inserted", "committed"}, key : Keys, request : Requests, run : Runs]

Work == [pc : {"idle", "attempting", "locking", "graph", "starting", "entering", "running",
               "verifying", "publishing", "erring"},
         todo : Seq(Runs), found : Nat \cup {NoCheckpoint}]

\* The checkpoint connections only restrict what a loop does: no part of the invariant needs them.
TypeOK ==
  /\ runs \in [Runs -> Row \cup {NoRow}]
  /\ fresh \in Seq(Committed)
  /\ attempted \in Seq(Committed)
  /\ checkpoints \in [Runs -> [stage : Stages, id : Nat]]
  /\ client \in [Clients -> CallRecord]
  /\ server \in [Servers -> Work]
  /\ receipts \in SUBSET [key : Keys, request : Requests, run : Runs]
  /\ faults \in Nat

\* The unique constraint: a key belongs to one committed run, or to one transaction.
KeysAreUnique ==
  /\ \A r1, r2 \in Committed : runs[r1].key = runs[r2].key => r1 = r2
  /\ \A c \in Clients : client[c].pc = "inserted" =>
       /\ client[c].run \notin Committed
       /\ \A r \in Committed : runs[r].key # client[c].key
  /\ \A c, d \in Clients : client[c].pc = "inserted" /\ client[d].pc = "inserted" /\ c # d =>
       client[c].run # client[d].run /\ client[c].key # client[d].key

\* What a caller is told, or about to be told, is what its durable row says.
AnswersAreRows ==
  /\ \A c \in Clients : client[c].pc = "committed" =>
       /\ client[c].run \in Committed
       /\ runs[client[c].run].key = client[c].key
       /\ runs[client[c].run].request = client[c].request
  /\ \A a \in receipts :
       a.run \in Committed /\ runs[a.run].key = a.key /\ runs[a.run].request = a.request

\* What a recovery loop works on; inside the transaction the row is locked and to be normalized,
\* and when it comes to publish, what it found is still the latest checkpoint.
WorkAgrees(s) ==
  /\ server[s].todo \in Seq(Committed)
  /\ server[s].pc # "idle" => server[s].todo # <<>>
  /\ InTransaction(s) => runs[Current(s)].status = "RECEIVED"
  /\ server[s].pc = "publishing" =>
       /\ checkpoints[Current(s)].stage = "finished"
       /\ checkpoints[Current(s)].id = server[s].found

\* The row lock.
OneHolder ==
  \A s, t \in Servers : InTransaction(s) /\ InTransaction(t) /\ Current(s) = Current(t) => s = t

RunStoreInv ==
  /\ TypeOK
  /\ KeysAreUnique
  /\ AnswersAreRows
  /\ \A s \in Servers : WorkAgrees(s)
  /\ OneHolder
  /\ AcceptedStaysReadable

\* At first only the incompatible runs are there, and nobody works on them.
LEMMA RunStoreInit == Init => RunStoreInv
<1> SUFFICES ASSUME Init PROVE RunStoreInv
  OBVIOUS
<1>1. \A r \in Runs : runs[r] = IF r \in Legacy
                       THEN [key |-> r, request |-> r, status |-> "RECEIVED",
                             accepted |-> NoCheckpoint]
                       ELSE NoRow
  BY DEF Init
<1>2. \A r \in Legacy : [key |-> r, request |-> r, status |-> "RECEIVED",
                         accepted |-> NoCheckpoint] \in Row
  BY DEF Row
<1>3. Committed = Legacy
  BY <1>1, <1>2, RunStoreAssumption DEF Committed, RunStoreAssumption
<1>4. TypeOK
  <2>1. runs \in [Runs -> Row \cup {NoRow}]
    BY <1>1, <1>2 DEF Init
  <2>2. fresh \in Seq(Committed)
    BY <1>3, SetToSeqType, RunStoreAssumption DEF RunStoreAssumption, Init
  <2>3. NoWork \in Work
    BY DEF NoWork, Work
  <2>4. NoCall \in CallRecord
    BY DEF NoCall, CallRecord
  <2>5. QED
    BY <2>1, <2>2, <2>3, <2>4 DEF Init, TypeOK, Stages
<1>5. ASSUME NEW r \in Committed PROVE runs[r].key = r /\ runs[r].status = "RECEIVED"
  <2>1. r \in Runs /\ r \in Legacy
    BY <1>3, RunStoreAssumption DEF RunStoreAssumption
  <2>2. runs[r] = [key |-> r, request |-> r, status |-> "RECEIVED", accepted |-> NoCheckpoint]
    BY <1>1, <2>1
  <2>3. QED
    BY <2>2
<1>6. KeysAreUnique /\ AnswersAreRows
  BY <1>5 DEF Init, NoCall, KeysAreUnique, AnswersAreRows
<1>7. \A s \in Servers : server[s] = NoWork
  BY DEF Init
<1>n. NoWork.pc = "idle" /\ NoWork.todo = <<>>
  BY DEF NoWork
<1>8. (\A s \in Servers : WorkAgrees(s)) /\ OneHolder
  <2>1. \A s \in Servers : server[s].pc = "idle" /\ server[s].todo \in Seq(Committed)
    <3>1. <<>> \in Seq(Committed)
      OBVIOUS
    <3>2. QED
      BY <1>7, <1>n, <3>1
  <2>2. QED
    BY <2>1 DEF WorkAgrees, OneHolder, InTransaction
<1>9. AcceptedStaysReadable
  BY <1>5 DEF AcceptedStaysReadable
<1>10. QED
  BY <1>4, <1>6, <1>8, <1>9 DEF RunStoreInv

\* What a recovery loop has at hand is a committed row.
LEMMA CurrentIsCommitted ==
  ASSUME RunStoreInv, NEW s \in Servers, server[s].pc # "idle"
  PROVE  /\ server[s] \in Work
         /\ server[s].todo \in Seq(Committed) /\ server[s].todo # <<>>
         /\ Tail(server[s].todo) \in Seq(Committed)
         /\ Current(s) \in Committed /\ Current(s) \in Runs
         /\ runs[Current(s)] \in Row
<1>1. server[s] \in Work /\ server[s].todo \in Seq(Committed) /\ server[s].todo # <<>>
  BY DEF RunStoreInv, TypeOK, WorkAgrees
<1>2. Current(s) \in Committed /\ Tail(server[s].todo) \in Seq(Committed)
  BY <1>1 DEF Current
<1>3. QED
  BY <1>1, <1>2 DEF RunStoreInv, TypeOK, Committed

\* The places inside the transaction of normalize().
Transaction == {"graph", "starting", "entering", "running", "verifying", "publishing"}

\* A recovery loop moves, and within its transaction the row and the checkpoints of the run that
\* it holds may change with it.
LEMMA ServerMoves ==
  ASSUME RunStoreInv, NEW s \in Servers, NEW w \in Work, server' = [server EXCEPT ![s] = w],
         client' = client, receipts' = receipts,
         fresh' \in Seq(Committed), attempted' \in Seq(Committed), faults' \in Nat,
         runs' \in [Runs -> Row \cup {NoRow}],
         checkpoints' \in [Runs -> [stage : Stages, id : Nat]],
         \A r \in Runs : \/ InTransaction(s) /\ r = Current(s)
                         \/ runs'[r] = runs[r] /\ checkpoints'[r] = checkpoints[r],
         \A r \in Committed : /\ runs'[r] \in Row
                              /\ runs'[r].key = runs[r].key
                              /\ runs'[r].request = runs[r].request,
         w.todo \in Seq(Committed), w.pc # "idle" => w.todo # <<>>,
         w.pc \in Transaction =>
           /\ runs'[Head(w.todo)].status = "RECEIVED"
           /\ ~Locked(Head(w.todo)) \/ (InTransaction(s) /\ Head(w.todo) = Current(s)),
         w.pc = "publishing" => /\ checkpoints'[Head(w.todo)].stage = "finished"
                                /\ checkpoints'[Head(w.todo)].id = w.found,
         AcceptedStaysReadable'
  PROVE  RunStoreInv'
<1>1. Committed' = Committed
  <2>1. ASSUME NEW r \in Runs PROVE runs'[r] # NoRow <=> runs[r] # NoRow
    <3>1. CASE r \in Committed
      BY <3>1, RunStoreAssumption DEF RunStoreAssumption, Committed
    <3>2. CASE r \notin Committed
      <4>1. InTransaction(s) => Current(s) \in Committed
        BY CurrentIsCommitted DEF InTransaction
      <4>2. QED
        BY <3>2, <4>1
    <3>3. QED
      BY <3>1, <3>2
  <2>2. QED
    BY <2>1 DEF Committed
<1>2. /\ server'[s] = w
      /\ \A t \in Servers \ {s} : server'[t] = server[t]
  BY DEF RunStoreInv, TypeOK
<1>3. TypeOK'
  BY <1>1 DEF RunStoreInv, TypeOK
<1>4. KeysAreUnique'
  BY <1>1 DEF RunStoreInv, KeysAreUnique
<1>5. AnswersAreRows'
  BY <1>1 DEF RunStoreInv, AnswersAreRows
<1>6. /\ InTransaction(s)' <=> w.pc \in Transaction
      /\ Current(s)' = Head(w.todo)
      /\ \A t \in Servers \ {s} : /\ InTransaction(t)' <=> InTransaction(t)
                                  /\ Current(t)' = Current(t)
  BY <1>2 DEF InTransaction, Current, Transaction
<1>7. ASSUME NEW t \in Servers \ {s}, InTransaction(t) PROVE Current(t) # Current(s)'  \/ ~InTransaction(s)'
  BY <1>6, <1>7 DEF RunStoreInv, OneHolder, Locked
<1>8. OneHolder'
  BY <1>6, <1>7 DEF RunStoreInv, OneHolder
<1>9. WorkAgrees(s)'
  BY <1>1, <1>2, <1>6 DEF WorkAgrees
<1>10. ASSUME NEW t \in Servers \ {s} PROVE WorkAgrees(t)'
  <2>1. WorkAgrees(t)
    BY DEF RunStoreInv
  <2>2. ASSUME InTransaction(t)
        PROVE  runs'[Current(t)] = runs[Current(t)] /\ checkpoints'[Current(t)] = checkpoints[Current(t)]
    <3>1. Current(t) \in Runs
      BY <2>2, CurrentIsCommitted DEF InTransaction
    <3>2. ~(InTransaction(s) /\ Current(t) = Current(s))
      BY <2>2 DEF RunStoreInv, OneHolder
    <3>3. QED
      BY <3>1, <3>2
  <2>3. server[t].pc = "publishing" => InTransaction(t)
    BY DEF InTransaction
  <2>4. QED
    BY <1>1, <1>2, <1>6, <2>1, <2>2, <2>3 DEF WorkAgrees
<1>11. QED
  BY <1>3, <1>4, <1>5, <1>8, <1>9, <1>10 DEF RunStoreInv

\* The next row of a batch, if there is one.
LEMMA BatchGoesOn ==
  ASSUME RunStoreInv, NEW s \in Servers, server[s].pc # "idle", Advance(s) \/ Quit(s)
  PROVE  \E w \in Work : /\ server' = [server EXCEPT ![s] = w]
                         /\ w.todo \in Seq(Committed) /\ (w.pc # "idle" => w.todo # <<>>)
                         /\ w.pc \notin Transaction
<1> DEFINE rest == Tail(server[s].todo)
           next == [NoWork EXCEPT !.pc = "attempting", !.todo = rest]
<1>1. NoWork \in Work /\ NoWork.todo = <<>> /\ NoWork.pc = "idle"
  BY DEF NoWork, Work
<1>2. <<>> \in Seq(Committed) /\ "idle" \notin Transaction /\ "attempting" \notin Transaction
  BY DEF Transaction
<1>3. rest \in Seq(Committed) /\ rest \in Seq(Runs)
  BY CurrentIsCommitted DEF Work
<1>4. next \in Work /\ next.todo = rest /\ next.pc = "attempting"
  BY <1>1, <1>3 DEF Work
<1>5. \/ server' = [server EXCEPT ![s] = NoWork]
      \/ rest # <<>> /\ server' = [server EXCEPT ![s] = next]
  BY DEF Advance, Quit
<1> HIDE DEF rest, next
<1>6. CASE server' = [server EXCEPT ![s] = NoWork]
  BY <1>1, <1>2, <1>6
<1>7. CASE rest # <<>> /\ server' = [server EXCEPT ![s] = next]
  BY <1>2, <1>3, <1>4, <1>7
<1>8. QED
  BY <1>5, <1>6, <1>7

\* The same for the steps that leave rows and checkpoints alone and enter no transaction.
LEMMA LoopMoves ==
  ASSUME RunStoreInv, NEW s \in Servers, NEW w \in Work, server' = [server EXCEPT ![s] = w],
         UNCHANGED <<runs, checkpoints, client, receipts>>,
         fresh' \in Seq(Committed), attempted' \in Seq(Committed), faults' \in Nat,
         w.todo \in Seq(Committed), w.pc # "idle" => w.todo # <<>>,
         w.pc \notin Transaction
  PROVE  RunStoreInv'
<1>1. /\ runs' \in [Runs -> Row \cup {NoRow}]
      /\ checkpoints' \in [Runs -> [stage : Stages, id : Nat]]
      /\ \A r \in Committed : runs'[r] \in Row
  BY DEF RunStoreInv, TypeOK, Committed
<1>2. AcceptedStaysReadable'
  BY DEF RunStoreInv, AcceptedStaysReadable, Committed
<1>3. w.pc # "publishing"
  BY DEF Transaction
<1>4. QED
  BY <1>1, <1>2, <1>3, ServerMoves

\* A loop goes on to another place with the same row at hand.
LEMMA PlaceMoves ==
  ASSUME RunStoreInv, NEW s \in Servers, server[s].pc # "idle", NEW pc \in {"locking", "erring"},
         At(s, pc), UNCHANGED <<runs, checkpoints, client, receipts>>,
         fresh' \in Seq(Committed), attempted' \in Seq(Committed), faults' \in Nat
  PROVE  RunStoreInv'
<1> DEFINE w == [server[s] EXCEPT !.pc = pc]
<1>1. server' = [server EXCEPT ![s] = w]
  BY DEF At, RunStoreInv, TypeOK
<1>2. /\ w \in Work /\ w.todo \in Seq(Committed) /\ w.todo # <<>>
      /\ w.pc \notin Transaction
  BY CurrentIsCommitted DEF Work, Transaction
<1> HIDE DEF w
<1>3. QED
  BY <1>1, <1>2, LoopMoves

\* A loop goes on to the next row of its batch, or gives up its batch.
LEMMA BatchMoves ==
  ASSUME RunStoreInv, NEW s \in Servers, server[s].pc # "idle", Advance(s) \/ Quit(s),
         UNCHANGED <<runs, checkpoints, client, receipts>>,
         fresh' \in Seq(Committed), attempted' \in Seq(Committed), faults' \in Nat
  PROVE  RunStoreInv'
<1>1. PICK w \in Work : /\ server' = [server EXCEPT ![s] = w]
                        /\ w.todo \in Seq(Committed) /\ (w.pc # "idle" => w.todo # <<>>)
                        /\ w.pc \notin Transaction
  BY BatchGoesOn
<1>2. QED
  BY <1>1, LoopMoves

\* A process stops, or another takes its place: its batch is gone and its transaction undone.
LEMMA BatchIsDropped ==
  ASSUME RunStoreInv, NEW s \in Servers, Quit(s),
         UNCHANGED <<runs, checkpoints, client, receipts>>,
         fresh' \in Seq(Committed), attempted' \in Seq(Committed), faults' \in Nat
  PROVE  RunStoreInv'
<1>1. NoWork \in Work /\ NoWork.todo = <<>> /\ NoWork.pc = "idle"
  BY DEF NoWork, Work
<1>2. <<>> \in Seq(Committed) /\ "idle" \notin Transaction
  BY DEF Transaction
<1>3. server' = [server EXCEPT ![s] = NoWork]
  BY DEF Quit
<1>4. QED
  BY <1>1, <1>2, <1>3, LoopMoves

\* What does not move in most steps of a loop.
LEMMA QueuesStay ==
  ASSUME RunStoreInv, UNCHANGED <<fresh, attempted, faults>>
  PROVE  fresh' \in Seq(Committed) /\ attempted' \in Seq(Committed) /\ faults' \in Nat
BY DEF RunStoreInv, TypeOK

\* A scan takes committed rows, no more than the batch limit and at least one.
LEMMA ScanKeeps ==
  ASSUME RunStoreInv, NEW s \in Servers, Scan(s)
  PROVE  RunStoreInv'
<1> DEFINE todo == SubSeq(Pending, 1, IF Len(Pending) < BatchLimit THEN Len(Pending) ELSE BatchLimit)
           w == [NoWork EXCEPT !.pc = "attempting", !.todo = todo]
<1>1. Pending \in Seq(Committed) /\ Pending # <<>>
  <2>1. fresh \o attempted \in Seq(Committed)
    BY DEF RunStoreInv, TypeOK
  <2>2. QED
    BY <2>1, AmongType DEF Pending, Scan
<1>2. todo \in Seq(Committed) /\ todo # <<>>
  <2> DEFINE n == IF Len(Pending) < BatchLimit THEN Len(Pending) ELSE BatchLimit
  <2>1. n \in 1 .. Len(Pending)
    BY <1>1, RunStoreAssumption DEF RunStoreAssumption
  <2>2. todo = SubSeq(Pending, 1, n)
    OBVIOUS
  <2> HIDE DEF n, todo
  <2>3. todo \in Seq(Committed) /\ Len(todo) = n
    BY <1>1, <2>1, <2>2, SubSeqProperties
  <2>4. QED
    BY <2>1, <2>3
<1> HIDE DEF todo
<1>3. todo \in Seq(Runs)
  BY <1>2 DEF Committed
<1>4. w \in Work /\ w.todo = todo /\ w.pc = "attempting"
  BY <1>3 DEF NoWork, Work
<1>5. server' = [server EXCEPT ![s] = w] /\ UNCHANGED <<runs, checkpoints, client, receipts>>
  BY DEF Scan, todo
<1>6. fresh' \in Seq(Committed) /\ attempted' \in Seq(Committed) /\ faults' \in Nat
  BY QueuesStay DEF Scan
<1> HIDE DEF w
<1>7. w.pc \notin Transaction
  BY <1>4 DEF Transaction
<1>8. QED
  BY <1>2, <1>4, <1>5, <1>6, <1>7, LoopMoves

\* The attempt rotates a committed row behind the others.
LEMMA AttemptKeeps ==
  ASSUME RunStoreInv, NEW s \in Servers, RecordAttempt(s)
  PROVE  RunStoreInv'
<1>1. server[s].pc # "idle" /\ At(s, "locking") /\ UNCHANGED <<runs, checkpoints, client, receipts>>
  BY DEF RecordAttempt
<1>2. Current(s) \in Committed
  BY <1>1, CurrentIsCommitted
<1>3. fresh' \in Seq(Committed)
  BY AmongType DEF RecordAttempt, RunStoreInv, TypeOK
<1>4. attempted' \in Seq(Committed)
  <2>1. Among(attempted, Runs \ {Current(s)}) \in Seq(Committed)
    BY AmongType DEF RunStoreInv, TypeOK
  <2>2. attempted' = Append(Among(attempted, Runs \ {Current(s)}), Current(s))
    BY DEF RecordAttempt
  <2>3. QED
    BY <1>2, <2>1, <2>2
<1>5. faults' \in Nat
  BY DEF RecordAttempt, RunStoreInv, TypeOK
<1>6. QED
  BY <1>1, <1>3, <1>4, <1>5, PlaceMoves

\* The row lock is granted to one loop at a time, on a row that still has to be normalized.
LEMMA LockKeeps ==
  ASSUME RunStoreInv, NEW s \in Servers, Lock(s)
  PROVE  RunStoreInv'
<1> DEFINE w == [server[s] EXCEPT !.pc = "graph"]
<1>1. /\ server[s].pc = "locking" /\ ~Locked(Current(s)) /\ runs[Current(s)].status = "RECEIVED"
      /\ UNCHANGED <<runs, fresh, attempted, checkpoints, client, receipts, faults>>
  BY DEF Lock
<1>2. server' = [server EXCEPT ![s] = w]
  BY DEF Lock, At, RunStoreInv, TypeOK
<1>3. w \in Work /\ w.pc = "graph" /\ w.todo = server[s].todo
  BY <1>1, CurrentIsCommitted DEF Work
<1>4. w.todo \in Seq(Committed) /\ w.todo # <<>> /\ Head(w.todo) = Current(s)
  BY <1>1, <1>3, CurrentIsCommitted DEF Current
<1> HIDE DEF w
<1>5. fresh' \in Seq(Committed) /\ attempted' \in Seq(Committed) /\ faults' \in Nat
  BY <1>1, QueuesStay
<1>6. /\ runs' \in [Runs -> Row \cup {NoRow}]
      /\ checkpoints' \in [Runs -> [stage : Stages, id : Nat]]
      /\ \A r \in Committed : runs'[r] \in Row
  BY <1>1 DEF RunStoreInv, TypeOK, Committed
<1>7. AcceptedStaysReadable'
  BY <1>1 DEF RunStoreInv, AcceptedStaysReadable, Committed
<1>8. QED
  BY <1>1, <1>2, <1>3, <1>4, <1>5, <1>6, <1>7, ServerMoves

\* Within the transaction a loop goes from place to place, and the checkpoint of the run that it
\* holds may be followed by another: the run is not accepted, so that no reader relies on it.
LEMMA GraphMoves ==
  ASSUME RunStoreInv, NEW s \in Servers, InTransaction(s),
         NEW pc \in {"starting", "entering", "running", "verifying", "erring"}, At(s, pc),
         UNCHANGED <<runs, fresh, attempted, client, receipts, faults>>,
         \/ checkpoints' = checkpoints
         \/ \E stage \in Stages : Save(Current(s), stage)
  PROVE  RunStoreInv'
<1> DEFINE w == [server[s] EXCEPT !.pc = pc]
<1>1. server[s].pc # "idle"
  BY DEF InTransaction
<1>2. server' = [server EXCEPT ![s] = w]
  BY DEF At, RunStoreInv, TypeOK
<1>3. w \in Work /\ w.pc = pc /\ w.todo = server[s].todo
  BY <1>1, CurrentIsCommitted DEF Work
<1>4. /\ w.todo \in Seq(Committed) /\ w.todo # <<>> /\ Head(w.todo) = Current(s)
      /\ w.pc # "publishing"
  BY <1>1, <1>3, CurrentIsCommitted DEF Current
<1> HIDE DEF w
<1>5. fresh' \in Seq(Committed) /\ attempted' \in Seq(Committed) /\ faults' \in Nat
  BY QueuesStay
<1>6. Current(s) \in Committed /\ Current(s) \in Runs /\ runs[Current(s)].status = "RECEIVED"
  BY <1>1, CurrentIsCommitted DEF RunStoreInv, WorkAgrees
<1>7. /\ checkpoints' \in [Runs -> [stage : Stages, id : Nat]]
      /\ \A r \in Runs \ {Current(s)} : checkpoints'[r] = checkpoints[r]
  <2>1. checkpoints \in [Runs -> [stage : Stages, id : Nat]]
    BY DEF RunStoreInv, TypeOK
  <2>2. ASSUME NEW stage \in Stages, Save(Current(s), stage)
        PROVE  /\ checkpoints' \in [Runs -> [stage : Stages, id : Nat]]
               /\ \A r \in Runs \ {Current(s)} : checkpoints'[r] = checkpoints[r]
    BY <1>6, <2>1, <2>2 DEF Save
  <2>3. QED
    BY <2>1, <2>2
<1>8. /\ runs' \in [Runs -> Row \cup {NoRow}]
      /\ \A r \in Committed : runs'[r] \in Row
  BY DEF RunStoreInv, TypeOK, Committed
<1>9. AcceptedStaysReadable'
  BY <1>6, <1>7 DEF RunStoreInv, AcceptedStaysReadable, Committed
<1>10. QED
  BY <1>2, <1>3, <1>4, <1>5, <1>6, <1>7, <1>8, <1>9, ServerMoves

\* What verify_finished returns is the identifier of the checkpoint it has just looked at.
LEMMA VerifyKeeps ==
  ASSUME RunStoreInv, NEW s \in Servers, Verify(s)
  PROVE  RunStoreInv'
<1> DEFINE saved == checkpoints[Current(s)]
           w == [server[s] EXCEPT !.pc = "publishing", !.found = saved.id]
<1>1. /\ server[s].pc = "verifying" /\ InTransaction(s)
      /\ UNCHANGED <<runs, fresh, attempted, checkpoints, client, receipts, faults>>
  BY DEF Verify, InTransaction
<1>2. CASE saved.stage # "finished" /\ At(s, "erring")
  BY <1>1, <1>2, GraphMoves
<1>3. CASE /\ saved.stage = "finished"
           /\ server' = [server EXCEPT ![s].pc = "publishing", ![s].found = saved.id]
  <2>1. /\ Current(s) \in Committed /\ Current(s) \in Runs /\ runs[Current(s)].status = "RECEIVED"
        /\ server[s] \in Work
    BY <1>1, CurrentIsCommitted DEF RunStoreInv, WorkAgrees
  <2>2. saved.id \in Nat
    BY <2>1 DEF RunStoreInv, TypeOK
  <2> HIDE DEF saved
  <2>3. server' = [server EXCEPT ![s] = w]
    BY <1>3 DEF RunStoreInv, TypeOK
  <2>4. w \in Work
    BY <2>1, <2>2 DEF Work
  <2>5. w.pc = "publishing" /\ w.todo = server[s].todo /\ w.found = saved.id
    BY <2>1 DEF Work
  <2>6. w.todo \in Seq(Committed) /\ w.todo # <<>> /\ Head(w.todo) = Current(s)
    BY <1>1, <2>5, CurrentIsCommitted DEF Current
  <2> HIDE DEF w
  <2>7. fresh' \in Seq(Committed) /\ attempted' \in Seq(Committed) /\ faults' \in Nat
    BY <1>1, QueuesStay
  <2>8. /\ runs' \in [Runs -> Row \cup {NoRow}]
        /\ checkpoints' \in [Runs -> [stage : Stages, id : Nat]]
        /\ \A r \in Committed : runs'[r] \in Row
    BY <1>1 DEF RunStoreInv, TypeOK, Committed
  <2>9. AcceptedStaysReadable'
    BY <1>1 DEF RunStoreInv, AcceptedStaysReadable, Committed
  <2>10. checkpoints'[Head(w.todo)].stage = "finished" /\ checkpoints'[Head(w.todo)].id = w.found
    BY <1>1, <1>3, <2>5, <2>6 DEF saved
  <2>11. QED
    BY <1>1, <2>1, <2>3, <2>4, <2>6, <2>7, <2>8, <2>9, <2>10, ServerMoves
<1>4. QED
  BY <1>2, <1>3 DEF Verify

\* The publication accepts the run with its latest checkpoint and gives up the lock.
LEMMA PublicationKeeps ==
  ASSUME RunStoreInv, NEW s \in Servers, server[s].pc = "publishing",
         runs' = [runs EXCEPT ![Current(s)].status = "BRIEF_NORMALIZED",
                              ![Current(s)].accepted = server[s].found],
         NEW w \in Work, server' = [server EXCEPT ![s] = w],
         w.todo \in Seq(Committed), w.pc # "idle" => w.todo # <<>>, w.pc \notin Transaction,
         UNCHANGED <<fresh, attempted, checkpoints, client, receipts>>, faults' \in Nat
  PROVE  RunStoreInv'
<1> DEFINE r == Current(s)
           row == [runs[r] EXCEPT !.status = "BRIEF_NORMALIZED", !.accepted = server[s].found]
<1>1. InTransaction(s) /\ r \in Committed /\ r \in Runs /\ runs[r] \in Row /\ server[s] \in Work
  BY CurrentIsCommitted DEF InTransaction
<1>2. checkpoints[r].stage = "finished" /\ checkpoints[r].id = server[s].found
  BY DEF RunStoreInv, WorkAgrees
<1>3. /\ row \in Row /\ row.key = runs[r].key /\ row.request = runs[r].request
      /\ row.accepted = server[s].found
  BY <1>1 DEF Row, Work
<1>4. runs' = [runs EXCEPT ![r] = row]
  BY <1>1 DEF RunStoreInv, TypeOK
<1> HIDE DEF row
<1>5. runs'[r] = row /\ \A o \in Runs \ {r} : runs'[o] = runs[o]
  BY <1>1, <1>4 DEF RunStoreInv, TypeOK
<1> HIDE DEF r
<1>6. /\ runs' \in [Runs -> Row \cup {NoRow}]
      /\ checkpoints' \in [Runs -> [stage : Stages, id : Nat]]
  BY <1>1, <1>3, <1>4 DEF RunStoreInv, TypeOK
<1>7. \A o \in Committed : /\ runs'[o] \in Row /\ runs'[o].key = runs[o].key
                           /\ runs'[o].request = runs[o].request
  BY <1>1, <1>3, <1>5 DEF RunStoreInv, TypeOK, Committed
<1>8. AcceptedStaysReadable'
  BY <1>1, <1>2, <1>3, <1>5 DEF RunStoreInv, AcceptedStaysReadable, Committed
<1>9. fresh' \in Seq(Committed) /\ attempted' \in Seq(Committed)
  BY DEF RunStoreInv, TypeOK
<1>10. w.pc # "publishing" /\ \A o \in Runs : (InTransaction(s) /\ o = Current(s))
                                \/ (runs'[o] = runs[o] /\ checkpoints'[o] = checkpoints[o])
  BY <1>1, <1>5 DEF Transaction, r
<1>11. QED
  BY <1>6, <1>7, <1>8, <1>9, <1>10, ServerMoves

-----------------------------------------------------------------------------
(* Callers. *)

\* What the recovery loops rely on survives a caller's step, which adds receipts at most.
LEMMA LoopsUndisturbed ==
  ASSUME RunStoreInv, UNCHANGED <<checkpoints, server>>,
         Committed \subseteq Committed', \A r \in Committed : runs'[r] = runs[r],
         \A r \in Committed' \ Committed : runs'[r].status = "RECEIVED"
  PROVE  (\A s \in Servers : WorkAgrees(s)') /\ OneHolder' /\ AcceptedStaysReadable'
<1>1. \A s \in Servers : (InTransaction(s)' <=> InTransaction(s)) /\ Current(s)' = Current(s)
  BY DEF InTransaction, Current
<1>2. OneHolder'
  BY <1>1 DEF RunStoreInv, OneHolder
<1>3. AcceptedStaysReadable'
  <2> SUFFICES ASSUME NEW r \in Committed', runs'[r].status = "BRIEF_NORMALIZED"
               PROVE  checkpoints'[r].stage = "finished" /\ checkpoints'[r].id = runs'[r].accepted
    BY DEF AcceptedStaysReadable
  <2>1. r \in Committed /\ runs'[r] = runs[r]
    OBVIOUS
  <2>2. QED
    BY <2>1 DEF RunStoreInv, AcceptedStaysReadable
<1>4. ASSUME NEW s \in Servers PROVE WorkAgrees(s)'
  <2>1. WorkAgrees(s)
    BY DEF RunStoreInv
  <2>2. server'[s].todo \in Seq(Committed')
    <3>1. server[s].todo \in Seq(Committed)
      BY <2>1 DEF WorkAgrees
    <3>2. \A q \in Seq(Committed) : q \in Seq(Committed')
      BY SeqMonotonic
    <3>3. QED
      BY <3>1, <3>2
  <2>3. InTransaction(s) => runs'[Current(s)] = runs[Current(s)]
    BY CurrentIsCommitted DEF InTransaction
  <2>4. QED
    BY <1>1, <2>1, <2>2, <2>3 DEF WorkAgrees
<1>5. QED
  BY <1>2, <1>3, <1>4

\* A step of a caller that commits nothing.
LEMMA CallerMoves ==
  ASSUME RunStoreInv, NEW c \in Clients, NEW call \in CallRecord,
         client' = [client EXCEPT ![c] = call],
         UNCHANGED <<runs, fresh, attempted, checkpoints, server, faults>>,
         receipts' \in SUBSET [key : Keys, request : Requests, run : Runs],
         KeysAreUnique', AnswersAreRows'
  PROVE  RunStoreInv'
<1>1. Committed' = Committed
  BY DEF Committed
<1>2. TypeOK'
  BY <1>1 DEF RunStoreInv, TypeOK
<1>3. (\A s \in Servers : WorkAgrees(s)') /\ OneHolder' /\ AcceptedStaysReadable'
  BY <1>1, LoopsUndisturbed
<1>4. QED
  BY <1>2, <1>3 DEF RunStoreInv

\* The insert waits for a transaction that holds the key and yields to a row that has it.
LEMMA InsertKeeps ==
  ASSUME RunStoreInv, NEW c \in Clients, NEW k \in Keys, NEW q \in Requests, NEW r \in Runs,
         Insert(c, k, q, r)
  PROVE  RunStoreInv'
<1> DEFINE call == [pc |-> "inserted", key |-> k, request |-> q, run |-> r]
<1>1. /\ client[c].pc = "idle" /\ Inserting(k) = {}
      /\ \A other \in Committed : runs[other].key # k
      /\ r \notin Committed
      /\ \A d \in Clients : client[d].pc = "inserted" => client[d].run # r
      /\ client' = [client EXCEPT ![c] = call]
      /\ UNCHANGED <<runs, fresh, attempted, checkpoints, server, receipts, faults>>
  BY DEF Insert
<1>2. call \in CallRecord /\ call.pc = "inserted" /\ call.key = k /\ call.run = r
  BY DEF CallRecord
<1>3. client'[c] = call /\ \A d \in Clients \ {c} : client'[d] = client[d]
  BY <1>1 DEF RunStoreInv, TypeOK
<1>4. \A d \in Clients : client[d].pc = "inserted" => client[d].key # k
  BY <1>1 DEF Inserting
<1> HIDE DEF call
<1>5. Committed' = Committed /\ runs' = runs /\ receipts' = receipts
  BY <1>1 DEF Committed
<1>6. KeysAreUnique'
  BY <1>1, <1>2, <1>3, <1>4, <1>5 DEF RunStoreInv, KeysAreUnique
<1>7. AnswersAreRows'
  BY <1>2, <1>3, <1>5 DEF RunStoreInv, AnswersAreRows
<1>8. receipts' \in SUBSET [key : Keys, request : Requests, run : Runs]
  BY <1>5 DEF RunStoreInv, TypeOK
<1>9. QED
  BY <1>1, <1>2, <1>6, <1>7, <1>8, CallerMoves

\* A retry is answered with the row that holds the key.
LEMMA ReplayKeeps ==
  ASSUME RunStoreInv, NEW c \in Clients, NEW k \in Keys, NEW q \in Requests, Replay(c, k, q)
  PROVE  RunStoreInv'
<1>1. PICK r \in Committed :
        /\ runs[r].key = k /\ runs[r].request = q
        /\ receipts' = receipts \cup {[key |-> k, request |-> q, run |-> r]}
  BY DEF Replay
<1>2. UNCHANGED <<runs, fresh, attempted, checkpoints, client, server, faults>>
  BY DEF Replay
<1>3. Committed' = Committed
  BY <1>2 DEF Committed
<1>4. KeysAreUnique'
  BY <1>2, <1>3 DEF RunStoreInv, KeysAreUnique
<1>5. AnswersAreRows'
  BY <1>1, <1>2, <1>3 DEF RunStoreInv, AnswersAreRows
<1>6. receipts' \in SUBSET [key : Keys, request : Requests, run : Runs]
  <2>1. r \in Runs
    BY DEF Committed
  <2>2. QED
    BY <1>1, <2>1 DEF RunStoreInv, TypeOK
<1>7. client[c] \in CallRecord /\ client' = [client EXCEPT ![c] = client[c]]
  BY <1>2 DEF RunStoreInv, TypeOK
<1>8. QED
  BY <1>2, <1>4, <1>5, <1>6, <1>7, CallerMoves

\* A caller in a transaction has its key, its request and its run at hand.
LEMMA CallHasFields ==
  ASSUME RunStoreInv, NEW c \in Clients, client[c].pc \in {"inserted", "committed"}
  PROVE  client[c].key \in Keys /\ client[c].request \in Requests /\ client[c].run \in Runs
BY DEF RunStoreInv, TypeOK, CallRecord

\* The acknowledgement tells what the commit made durable.
LEMMA AcknowledgeKeeps ==
  ASSUME RunStoreInv, NEW c \in Clients, Acknowledge(c)
  PROVE  RunStoreInv'
<1> DEFINE told == [key |-> client[c].key, request |-> client[c].request, run |-> client[c].run]
<1>1. /\ client[c].pc = "committed" /\ receipts' = receipts \cup {told}
      /\ client' = [client EXCEPT ![c] = NoCall]
      /\ UNCHANGED <<runs, fresh, attempted, checkpoints, server, faults>>
  BY DEF Acknowledge
<1>2. NoCall \in CallRecord /\ NoCall.pc = "idle"
  BY DEF NoCall, CallRecord
<1>3. client'[c] = NoCall /\ \A d \in Clients \ {c} : client'[d] = client[d]
  BY <1>1 DEF RunStoreInv, TypeOK
<1>4. Committed' = Committed
  BY <1>1 DEF Committed
<1>5. /\ told.key = client[c].key /\ told.request = client[c].request /\ told.run = client[c].run
      /\ told \in [key : Keys, request : Requests, run : Runs]
  BY <1>1, CallHasFields
<1> HIDE DEF told
<1>6. KeysAreUnique'
  BY <1>1, <1>2, <1>3, <1>4 DEF RunStoreInv, KeysAreUnique
<1>7. AnswersAreRows'
  BY <1>1, <1>2, <1>3, <1>4, <1>5 DEF RunStoreInv, AnswersAreRows
<1>8. receipts' \in SUBSET [key : Keys, request : Requests, run : Runs]
  BY <1>1, <1>5 DEF RunStoreInv, TypeOK
<1>9. QED
  BY <1>1, <1>2, <1>6, <1>7, <1>8, CallerMoves

\* A lost caller takes nothing with it.
LEMMA AbandonKeeps ==
  ASSUME RunStoreInv, NEW c \in Clients, AbandonCreate(c)
  PROVE  RunStoreInv'
<1>1. /\ client' = [client EXCEPT ![c] = NoCall]
      /\ UNCHANGED <<runs, fresh, attempted, checkpoints, server, receipts, faults>>
  BY DEF AbandonCreate
<1>2. NoCall \in CallRecord /\ NoCall.pc = "idle"
  BY DEF NoCall, CallRecord
<1>3. client'[c] = NoCall /\ \A d \in Clients \ {c} : client'[d] = client[d]
  BY <1>1 DEF RunStoreInv, TypeOK
<1>4. Committed' = Committed
  BY <1>1 DEF Committed
<1>5. KeysAreUnique'
  BY <1>1, <1>2, <1>3, <1>4 DEF RunStoreInv, KeysAreUnique
<1>6. AnswersAreRows'
  BY <1>1, <1>2, <1>3, <1>4 DEF RunStoreInv, AnswersAreRows
<1>7. receipts' \in SUBSET [key : Keys, request : Requests, run : Runs]
  BY <1>1 DEF RunStoreInv, TypeOK
<1>8. QED
  BY <1>1, <1>2, <1>5, <1>6, <1>7, CallerMoves

\* The commit adds the one row of its key; no row that anybody relies on changes.
LEMMA CommitKeeps ==
  ASSUME RunStoreInv, NEW c \in Clients, CommitCreate(c)
  PROVE  RunStoreInv'
<1> DEFINE call == client[c]
           row == [key |-> call.key, request |-> call.request, status |-> "RECEIVED",
                   accepted |-> NoCheckpoint]
           done == [call EXCEPT !.pc = "committed"]
<1>1. /\ call.pc = "inserted" /\ runs' = [runs EXCEPT ![call.run] = row]
      /\ fresh' = Append(fresh, call.run)
      /\ UNCHANGED <<attempted, checkpoints, server, receipts, faults>>
  BY DEF CommitCreate
<1>2. /\ call.key \in Keys /\ call.request \in Requests /\ call.run \in Runs
      /\ call.run \notin Committed
      /\ \A r \in Committed : runs[r].key # call.key
  BY <1>1, CallHasFields DEF RunStoreInv, KeysAreUnique
<1>3. row \in Row /\ row.key = call.key /\ row.request = call.request /\ row.status = "RECEIVED"
  BY <1>2 DEF Row
<1>4. /\ done \in CallRecord /\ done.pc = "committed" /\ done.key = call.key
      /\ done.request = call.request /\ done.run = call.run
  BY <1>1 DEF RunStoreInv, TypeOK, CallRecord
<1>5. client' = [client EXCEPT ![c] = done]
  BY DEF CommitCreate, RunStoreInv, TypeOK
<1> HIDE DEF row, done
<1>6. client'[c] = done /\ \A d \in Clients \ {c} : client'[d] = client[d]
  BY <1>5 DEF RunStoreInv, TypeOK
<1>7. runs'[call.run] = row /\ \A r \in Runs \ {call.run} : runs'[r] = runs[r]
  BY <1>1, <1>2 DEF RunStoreInv, TypeOK
<1>8. Committed' = Committed \cup {call.run}
  <2>1. row # NoRow
    BY <1>3, RunStoreAssumption DEF RunStoreAssumption
  <2>2. QED
    BY <1>2, <1>7, <2>1 DEF Committed
<1>9. \A r \in Committed : runs'[r] = runs[r]
  BY <1>2, <1>7 DEF Committed
<1>10. TypeOK'
  <2>1. runs' \in [Runs -> Row \cup {NoRow}]
    BY <1>1, <1>2, <1>3 DEF RunStoreInv, TypeOK
  <2>2. fresh' \in Seq(Committed') /\ attempted' \in Seq(Committed')
    <3>1. fresh \in Seq(Committed) /\ attempted \in Seq(Committed)
      BY DEF RunStoreInv, TypeOK
    <3>2. \A q \in Seq(Committed) : q \in Seq(Committed')
      BY <1>8, SeqMonotonic
    <3>3. fresh \in Seq(Committed') /\ attempted \in Seq(Committed') /\ call.run \in Committed'
      BY <1>8, <3>1, <3>2
    <3>4. QED
      BY <1>1, <3>3
  <2>3. client' \in [Clients -> CallRecord]
    BY <1>4, <1>5 DEF RunStoreInv, TypeOK
  <2>4. QED
    BY <1>1, <2>1, <2>2, <2>3 DEF RunStoreInv, TypeOK
<1>11. KeysAreUnique'
  <2>1. \A r1, r2 \in Committed' : runs'[r1].key = runs'[r2].key => r1 = r2
    BY <1>2, <1>3, <1>7, <1>8, <1>9 DEF RunStoreInv, KeysAreUnique
  <2>2. ASSUME NEW d \in Clients, client'[d].pc = "inserted"
        PROVE  /\ client'[d].run \notin Committed'
               /\ \A r \in Committed' : runs'[r].key # client'[d].key
    <3>1. d # c /\ client'[d] = client[d]
      BY <1>4, <1>6, <2>2
    <3>2. /\ client[d].run \notin Committed
          /\ \A r \in Committed : runs[r].key # client[d].key
          /\ client[d].run # call.run /\ client[d].key # call.key
      BY <1>1, <2>2, <3>1 DEF RunStoreInv, KeysAreUnique
    <3>3. QED
      BY <1>3, <1>7, <1>8, <1>9, <3>1, <3>2
  <2>3. \A d, e \in Clients : client'[d].pc = "inserted" /\ client'[e].pc = "inserted" /\ d # e =>
          client'[d].run # client'[e].run /\ client'[d].key # client'[e].key
    BY <1>4, <1>6 DEF RunStoreInv, KeysAreUnique
  <2>4. QED
    BY <2>1, <2>2, <2>3 DEF KeysAreUnique
<1>12. AnswersAreRows'
  <2>1. \A a \in receipts' :
          a.run \in Committed' /\ runs'[a.run].key = a.key /\ runs'[a.run].request = a.request
    BY <1>1, <1>8, <1>9 DEF RunStoreInv, AnswersAreRows
  <2>2. ASSUME NEW d \in Clients, client'[d].pc = "committed"
        PROVE  /\ client'[d].run \in Committed'
               /\ runs'[client'[d].run].key = client'[d].key
               /\ runs'[client'[d].run].request = client'[d].request
    <3>1. CASE d = c
      BY <1>3, <1>4, <1>6, <1>7, <1>8, <3>1
    <3>2. CASE d # c
      BY <1>6, <1>8, <1>9, <2>2, <3>2 DEF RunStoreInv, AnswersAreRows
    <3>3. QED
      BY <3>1, <3>2
  <2>3. QED
    BY <2>1, <2>2 DEF AnswersAreRows
<1>13. (\A s \in Servers : WorkAgrees(s)') /\ OneHolder' /\ AcceptedStaysReadable'
  <2>1. \A r \in Committed' \ Committed : runs'[r].status = "RECEIVED"
    BY <1>3, <1>7, <1>8
  <2>2. QED
    BY <1>1, <1>8, <1>9, <2>1, LoopsUndisturbed
<1>14. QED
  BY <1>10, <1>11, <1>12, <1>13 DEF RunStoreInv

-----------------------------------------------------------------------------
(* All steps. *)

\* A step of a recovery loop that nothing disturbs.
LEMMA RecoveryKeeps ==
  ASSUME RunStoreInv, NEW s \in Servers, Recovery(s)
  PROVE  RunStoreInv'
<1>1. CASE Scan(s)
  BY <1>1, ScanKeeps
<1>2. CASE RecordAttempt(s)
  BY <1>2, AttemptKeeps
<1>3. CASE LockTimeout(s)
  <2>1. /\ server[s].pc # "idle" /\ (At(s, "erring") \/ Quit(s))
        /\ UNCHANGED <<runs, checkpoints, client, receipts>> /\ UNCHANGED <<fresh, attempted, faults>>
    BY <1>3 DEF LockTimeout
  <2>2. QED
    BY <1>3, <2>1, QueuesStay, PlaceMoves, BatchMoves DEF LockTimeout
<1>4. CASE AlreadyAccepted(s)
  <2>1. /\ server[s].pc # "idle" /\ (At(s, "erring") \/ Advance(s))
        /\ UNCHANGED <<runs, checkpoints, client, receipts>> /\ UNCHANGED <<fresh, attempted, faults>>
    BY <1>4 DEF AlreadyAccepted
  <2>2. QED
    BY <1>4, <2>1, QueuesStay, PlaceMoves, BatchMoves DEF AlreadyAccepted
<1>5. CASE RefuseVersion(s)
  <2>1. /\ server[s].pc # "idle" /\ At(s, "erring")
        /\ UNCHANGED <<runs, checkpoints, client, receipts>> /\ UNCHANGED <<fresh, attempted, faults>>
    BY <1>5 DEF RefuseVersion
  <2>2. QED
    BY <2>1, QueuesStay, PlaceMoves
<1>6. CASE RecordError(s)
  <2>1. /\ server[s].pc # "idle" /\ Advance(s)
        /\ UNCHANGED <<runs, checkpoints, client, receipts>> /\ UNCHANGED <<fresh, attempted, faults>>
    BY <1>6 DEF RecordError
  <2>2. QED
    BY <2>1, QueuesStay, BatchMoves
<1>7. CASE Lock(s)
  BY <1>7, LockKeeps
<1>8. CASE Inspect(s)
  <2>1. /\ InTransaction(s) /\ \E pc \in {"starting", "erring", "running", "verifying"} : At(s, pc)
        /\ UNCHANGED <<runs, fresh, attempted, client, receipts, faults>>
        /\ checkpoints' = checkpoints
    BY <1>8 DEF Inspect, InTransaction
  <2>2. QED
    BY <2>1, GraphMoves
<1>9. CASE SaveInput(s)
  <2>1. /\ InTransaction(s) /\ At(s, "entering") /\ Save(Current(s), "input") /\ "input" \in Stages
        /\ UNCHANGED <<runs, fresh, attempted, client, receipts, faults>>
    BY <1>9 DEF SaveInput, InTransaction, Stages
  <2>2. QED
    BY <2>1, GraphMoves
<1>10. CASE EnterGraph(s)
  <2>1. /\ InTransaction(s) /\ At(s, "running") /\ Save(Current(s), "pending") /\ "pending" \in Stages
        /\ UNCHANGED <<runs, fresh, attempted, client, receipts, faults>>
    BY <1>10 DEF EnterGraph, InTransaction, Stages
  <2>2. QED
    BY <2>1, GraphMoves
<1>11. CASE RunNode(s)
  <2>1. /\ InTransaction(s) /\ At(s, "verifying") /\ Save(Current(s), "finished")
        /\ "finished" \in Stages
        /\ UNCHANGED <<runs, fresh, attempted, client, receipts, faults>>
    BY <1>11 DEF RunNode, InTransaction, Stages
  <2>2. QED
    BY <2>1, GraphMoves
<1>12. CASE Verify(s)
  BY <1>12, VerifyKeeps
<1>13. CASE Publish(s)
  <2>1. /\ server[s].pc = "publishing" /\ server[s].pc # "idle"
        /\ UNCHANGED <<fresh, attempted, checkpoints, client, receipts, faults>>
    BY <1>13 DEF Publish
  <2>2. CASE /\ runs' = [runs EXCEPT ![Current(s)].status = "BRIEF_NORMALIZED",
                                     ![Current(s)].accepted = server[s].found]
             /\ Advance(s)
    <3>1. PICK w \in Work : /\ server' = [server EXCEPT ![s] = w]
                            /\ w.todo \in Seq(Committed) /\ (w.pc # "idle" => w.todo # <<>>)
                            /\ w.pc \notin Transaction
      BY <2>1, <2>2, BatchGoesOn
    <3>2. QED
      BY <2>1, <2>2, <3>1, QueuesStay, PublicationKeeps
  <2>3. CASE At(s, "erring") /\ UNCHANGED runs
    BY <2>1, <2>3, QueuesStay, PlaceMoves
  <2>4. QED
    BY <1>13, <2>2, <2>3 DEF Publish
<1>14. CASE Unreachable(s)
  <2>1. /\ InTransaction(s) /\ At(s, "erring")
        /\ UNCHANGED <<runs, fresh, attempted, client, receipts, faults>>
        /\ checkpoints' = checkpoints
    BY <1>14 DEF Unreachable, InTransaction
  <2>2. QED
    BY <2>1, GraphMoves
<1>15. QED
  BY <1>1, <1>2, <1>3, <1>4, <1>5, <1>6, <1>7, <1>8, <1>9, <1>10, <1>11, <1>12, <1>13, <1>14
     DEF Recovery

\* A fault, or the start of a process after one.
LEMMA FaultKeeps ==
  ASSUME RunStoreInv, NEW s \in Servers,
         PublishUnheard(s) \/ Fail(s) \/ LoseSaver(s) \/ Crash(s) \/ Relaunch(s)
  PROVE  RunStoreInv'
<1>1. fresh' = fresh /\ attempted' = attempted /\ faults' \in {faults, faults + 1} /\ faults \in Nat
  BY DEF PublishUnheard, Fail, LoseSaver, Crash, Relaunch, RunStoreInv, TypeOK
<1>2. fresh' \in Seq(Committed) /\ attempted' \in Seq(Committed) /\ faults' \in Nat
  BY <1>1 DEF RunStoreInv, TypeOK
<1>3. CASE PublishUnheard(s)
  <2> DEFINE w == [server[s] EXCEPT !.pc = "erring"]
  <2>1. /\ server[s].pc = "publishing" /\ server[s].pc # "idle"
        /\ runs' = [runs EXCEPT ![Current(s)].status = "BRIEF_NORMALIZED",
                                ![Current(s)].accepted = server[s].found]
        /\ UNCHANGED <<fresh, attempted, checkpoints, client, receipts>>
    BY <1>3 DEF PublishUnheard
  <2>2. server' = [server EXCEPT ![s] = w]
    BY <1>3 DEF PublishUnheard, At, RunStoreInv, TypeOK
  <2>3. /\ w \in Work /\ w.todo \in Seq(Committed) /\ w.todo # <<>>
        /\ w.pc \notin Transaction
    BY <2>1, CurrentIsCommitted DEF Work, Transaction
  <2> HIDE DEF w
  <2>4. QED
    BY <1>2, <2>1, <2>2, <2>3, PublicationKeeps
<1>4. CASE Fail(s)
  <2>1. /\ server[s].pc # "idle" /\ (At(s, "erring") \/ Quit(s))
        /\ UNCHANGED <<runs, checkpoints, client, receipts>>
    BY <1>4 DEF Fail
  <2>2. QED
    BY <1>2, <1>4, <2>1, PlaceMoves, BatchMoves DEF Fail
<1>5. CASE Crash(s)
  <2>1. Quit(s) /\ UNCHANGED <<runs, checkpoints, client, receipts>>
    BY <1>5 DEF Crash
  <2>2. QED
    BY <1>2, <2>1, BatchIsDropped
<1>6. CASE LoseSaver(s)
  <2>1. UNCHANGED <<runs, fresh, attempted, checkpoints, client, server, receipts>>
    BY <1>6 DEF LoseSaver
  <2>2. QED
    BY <1>2, <2>1 DEF RunStoreInv, TypeOK, KeysAreUnique, AnswersAreRows, WorkAgrees, OneHolder,
                      AcceptedStaysReadable, Committed, InTransaction, Current
<1>7. CASE Relaunch(s)
  <2>1. Quit(s) /\ UNCHANGED <<runs, checkpoints, client, receipts>>
    BY <1>7 DEF Relaunch
  <2>2. QED
    BY <1>2, <2>1, BatchIsDropped
<1>8. QED
  BY <1>3, <1>4, <1>5, <1>6, <1>7

\* No step breaks the invariant.
LEMMA RunStoreNext == RunStoreInv /\ [Next]_vars => RunStoreInv'
<1> SUFFICES ASSUME RunStoreInv, [Next]_vars PROVE RunStoreInv'
  OBVIOUS
<1>1. ASSUME NEW c \in Clients, NEW k \in Keys, NEW q \in Requests, NEW r \in Runs,
             Insert(c, k, q, r)
      PROVE  RunStoreInv'
  BY <1>1, InsertKeeps
<1>2. ASSUME NEW c \in Clients, NEW k \in Keys, NEW q \in Requests, Replay(c, k, q)
      PROVE  RunStoreInv'
  BY <1>2, ReplayKeeps
<1>3. ASSUME NEW c \in Clients, CommitCreate(c) \/ Acknowledge(c) \/ AbandonCreate(c)
      PROVE  RunStoreInv'
  BY <1>3, CommitKeeps, AcknowledgeKeeps, AbandonKeeps
<1>4. ASSUME NEW s \in Servers, Recovery(s)
      PROVE  RunStoreInv'
  BY <1>4, RecoveryKeeps
<1>5. ASSUME NEW s \in Servers,
             PublishUnheard(s) \/ Fail(s) \/ LoseSaver(s) \/ Crash(s) \/ Relaunch(s)
      PROVE  RunStoreInv'
  BY <1>5, FaultKeeps
<1>6. CASE UNCHANGED vars
  BY <1>6 DEF vars, RunStoreInv, TypeOK, KeysAreUnique, AnswersAreRows, WorkAgrees, OneHolder,
              AcceptedStaysReadable, Committed, InTransaction, Current
<1>7. QED
  BY <1>1, <1>2, <1>3, <1>4, <1>5, <1>6 DEF Next

-----------------------------------------------------------------------------
(* The theorems. *)

\* The invariant holds throughout, however the loops are scheduled.
LEMMA RunStoreInvariant == Spec => []RunStoreInv
BY RunStoreInit, RunStoreNext, PTL DEF Spec

\* Whatever callers retry, lose and race for, an acknowledged key names one run with one request
\* forever, and the run is durable.
THEOREM StableReceipts == Spec => []ReceiptsAreStable
<1>1. RunStoreInv => ReceiptsAreStable
  <2> SUFFICES ASSUME RunStoreInv PROVE ReceiptsAreStable
    OBVIOUS
  <2>1. \A a \in receipts :
          a.run \in Committed /\ runs[a.run].key = a.key /\ runs[a.run].request = a.request
    BY DEF RunStoreInv, AnswersAreRows
  <2>2. \A a, b \in receipts : a.key = b.key => a.run = b.run
    BY <2>1 DEF RunStoreInv, KeysAreUnique
  <2>3. QED
    BY <2>1, <2>2 DEF ReceiptsAreStable
<1>2. QED
  BY <1>1, RunStoreInvariant, PTL

\* The checkpoint an accepted run was accepted with stays its latest one, however many loops
\* recover the same run and wherever they stop.
THEOREM ReadableRuns == Spec => []AcceptedStaysReadable
<1>1. RunStoreInv => AcceptedStaysReadable
  BY DEF RunStoreInv
<1>2. QED
  BY <1>1, RunStoreInvariant, PTL
=============================================================================
