----------------------------- MODULE BatchProofs -----------------------------
(***************************************************************************)
(* Proofs about the synthesis command and the batch that runs it, for      *)
(* every catalog of sources, every answer of the models, any number of     *)
(* processes on one run and of cases in a suite: the results that commands *)
(* publish agree, and the journal accounts for a batch wherever it stops.  *)
(* Then about the inputs of research, whatever the searches, the models    *)
(* and the labels: the registry of datasets stays guarded, a recorded      *)
(* answer explains a call, a search is answered from what was found, no    *)
(* inadmissible answer is handed over, the folds of a validation do not    *)
(* leak, what a formation of the past is assembled from was known at it,   *)
(* whatever is published later, a queue of hypotheses admits each contract *)
(* once, by the best of its candidates, and an allocation that is built is *)
(* accepted wherever it is loaded.                                         *)
(***************************************************************************)
EXTENDS ResearchBatch, ValidationSplits, PointInTime, HypothesisQueue, Allocation,
        SumTheorems

-----------------------------------------------------------------------------
(* The course of a run.  Each operation is determined by the results of    *)
(* the earlier ones, so that all commands of a run follow one course.      *)

\* c is the course of ledger L: c[i] are the results of its first i operations, and L holds the
\* n operations that are settled and at most the next one, pending.
IsCourse(c, n, L) ==
  /\ c[0] = NoLedger
  /\ \A i \in 0 .. n - 1 :
       LET op == NextOperation(c[i]) IN
       op # Nothing /\ op \in DOMAIN L /\ c[i + 1] = With(c[i], op, L[op].result)
  /\ \A i \in 0 .. n : \A op \in DOMAIN c[i] : op \in DOMAIN L /\ L[op] = Done(c[i][op])
  /\ \A op \in DOMAIN L :
       \/ op \in DOMAIN c[n]
       \/ op = NextOperation(c[n]) /\ op # Nothing /\ L[op] = Pending

\* The ledger in which the operations of seen, and no others, are settled.
SettledAs(seen) == [op \in DOMAIN seen |-> Done(seen[op])]

\* A row is pending or settled.
LEMMA RowsDiffer ==
  ASSUME NEW x
  PROVE  /\ Done(x) # Pending /\ Done(x).settled = TRUE /\ Done(x).result = x
         /\ Pending.settled = FALSE
  BY DEF Done, Pending

\* The first of some sources is one of them.
LEMMA FirstIn ==
  ASSUME NEW S \in SUBSET (1 .. Sources), S # {}
  PROVE  First(S) \in S
<1>1. S \subseteq Nat
  BY SynthesisAssumption
<1>2. PICK s \in S : \A t \in S : ~ (<<t, s>> \in OpToRel(<, Nat))
  BY <1>1, NatLessThanWellFounded, WFMin
<1>3. ASSUME NEW t \in S
      PROVE  s <= t
  <2>1. t \in Nat /\ s \in Nat
    BY <1>1
  <2>2. ~ (t < s)
    BY <1>2, <2>1 DEF OpToRel
  <2>3. QED
    BY <2>1, <2>2
<1>4. QED
  BY <1>3 DEF First

\* The next operation has not been seen yet.
LEMMA NextIsNew ==
  ASSUME NEW seen, NextOperation(seen) # Nothing
  PROVE  NextOperation(seen) \notin DOMAIN seen
<1> DEFINE op == NextOperation(seen)
<1>1. CASE Extracted(seen) # 1 .. Sources
  <2>1. op = Extraction(First(1 .. Sources \ Extracted(seen)))
    BY <1>1 DEF NextOperation
  <2>2. First(1 .. Sources \ Extracted(seen)) \in 1 .. Sources \ Extracted(seen)
    BY <1>1, FirstIn DEF Extracted
  <2>3. QED
    BY <2>1, <2>2 DEF Extracted
<1>2. CASE Extracted(seen) = 1 .. Sources /\ ~Compiled(seen) \subseteq Reviewed(seen)
  <2>1. op = Review(First(Compiled(seen) \ Reviewed(seen)))
    BY <1>2 DEF NextOperation
  <2>2. First(Compiled(seen) \ Reviewed(seen)) \in Compiled(seen) \ Reviewed(seen)
    BY <1>2, FirstIn DEF Compiled, Extracted
  <2>3. First(Compiled(seen) \ Reviewed(seen)) \in 1 .. Sources
    BY <2>2 DEF Compiled, Extracted
  <2>4. QED
    BY <2>1, <2>2, <2>3 DEF Reviewed
<1>3. CASE Extracted(seen) = 1 .. Sources /\ Compiled(seen) \subseteq Reviewed(seen)
  BY <1>3 DEF NextOperation
<1>4. QED
  BY <1>1, <1>2, <1>3

\* Whoever is told that its next operation is not in the ledger has seen the whole course; the
\* reservation leaves the course as it is.
LEMMA CourseReserves ==
  ASSUME NEW L, NEW n \in Nat, NEW c, IsCourse(c, n, L), NEW k \in 0 .. n,
         NextOperation(c[k]) # Nothing, NextOperation(c[k]) \notin DOMAIN L
  PROVE  IsCourse(c, n, With(L, NextOperation(c[k]), Pending))
<1> DEFINE op == NextOperation(c[k])
           M == With(L, op, Pending)
<1>1. k = n
  BY DEF IsCourse
<1>2. /\ DOMAIN M = DOMAIN L \cup {op}
      /\ M[op] = Pending
      /\ \A x \in DOMAIN L : M[x] = L[x]
  BY DEF With
<1> HIDE DEF op, M
<1>3. op = NextOperation(c[n]) /\ op # Nothing
  BY <1>1 DEF op
<1>4. QED
  BY <1>2, <1>3 DEF IsCourse, op, M

\* A pending operation is the next one of the whole course, which its settlement continues.
LEMMA CourseSettles ==
  ASSUME NEW L, NEW n \in Nat, NEW c, IsCourse(c, n, L), NEW k \in 0 .. n, NEW outcome,
         NextOperation(c[k]) # Nothing, NextOperation(c[k]) \in DOMAIN L,
         L[NextOperation(c[k])] = Pending
  PROVE  \E d : /\ IsCourse(d, n + 1, [L EXCEPT ![NextOperation(c[k])] = Done(outcome)])
                /\ \A i \in 0 .. n : d[i] = c[i]
                /\ d[n + 1] = With(c[k], NextOperation(c[k]), outcome)
<1> DEFINE op == NextOperation(c[k])
           M == [L EXCEPT ![op] = Done(outcome)]
           d == [i \in 0 .. n + 1 |-> IF i = n + 1 THEN With(c[k], op, outcome) ELSE c[i]]
<1>1. \A i \in 0 .. n - 1 : L[NextOperation(c[i])] # Pending
  <2>1. TAKE i \in 0 .. n - 1
  <2>2. /\ NextOperation(c[i]) \in DOMAIN L
        /\ c[i + 1] = With(c[i], NextOperation(c[i]), L[NextOperation(c[i])].result)
    BY DEF IsCourse
  <2>3. NextOperation(c[i]) \in DOMAIN c[i + 1]
    BY <2>2 DEF With
  <2>4. L[NextOperation(c[i])] = Done(c[i + 1][NextOperation(c[i])])
    BY <2>3 DEF IsCourse
  <2>5. QED
    BY <2>4, RowsDiffer
<1>2. k = n
  BY <1>1
<1>3. /\ DOMAIN M = DOMAIN L
      /\ M[op] = Done(outcome)
      /\ \A x \in DOMAIN L \ {op} : M[x] = L[x]
  OBVIOUS
<1>4. \A i \in 0 .. n : op \notin DOMAIN c[i]
  BY RowsDiffer DEF IsCourse
<1>5. /\ \A i \in 0 .. n : d[i] = c[i]
      /\ d[n + 1] = With(c[n], op, outcome)
  BY <1>2
<1>7. op = NextOperation(c[n]) /\ op # Nothing /\ op \in DOMAIN L
  BY <1>2
<1>10. op \notin DOMAIN c[n]
  BY <1>4
<1> HIDE DEF op, M, d
<1>6. /\ DOMAIN d[n + 1] = DOMAIN c[n] \cup {op}
      /\ d[n + 1][op] = outcome
      /\ \A x \in DOMAIN c[n] : d[n + 1][x] = c[n][x]
  <2>1. /\ DOMAIN With(c[n], op, outcome) = DOMAIN c[n] \cup {op}
        /\ With(c[n], op, outcome)[op] = outcome
        /\ \A x \in DOMAIN c[n] \ {op} : With(c[n], op, outcome)[x] = c[n][x]
    BY DEF With
  <2>2. d[n + 1] = With(c[n], op, outcome)
    BY <1>5
  <2>3. QED
    BY <2>1, <2>2, <1>10
<1>8. IsCourse(d, n + 1, M)
  <2>1. d[0] = NoLedger
    BY <1>5 DEF IsCourse
  <2>2. ASSUME NEW i \in 0 .. n
        PROVE  /\ NextOperation(d[i]) # Nothing /\ NextOperation(d[i]) \in DOMAIN M
               /\ d[i + 1] = With(d[i], NextOperation(d[i]), M[NextOperation(d[i])].result)
    <3>1. CASE i = n
      <4>1. M[op].result = outcome
        BY <1>3, RowsDiffer
      <4>2. d[n] = c[n]
        BY <1>5
      <4>3. QED
        BY <3>1, <1>3, <1>5, <1>7, <4>1, <4>2
    <3>2. CASE i # n
      <4>1. i \in 0 .. n - 1 /\ i \in 0 .. n /\ i + 1 \in 0 .. n
        BY <3>2
      <4>2. d[i] = c[i] /\ d[i + 1] = c[i + 1]
        BY <1>5, <4>1
      <4>3. NextOperation(c[i]) # op
        BY <1>1, <4>1, L[op] = Pending DEF op
      <4>4. /\ NextOperation(c[i]) # Nothing /\ NextOperation(c[i]) \in DOMAIN L
            /\ c[i + 1] = With(c[i], NextOperation(c[i]), L[NextOperation(c[i])].result)
        BY <4>1 DEF IsCourse
      <4>5. M[NextOperation(c[i])] = L[NextOperation(c[i])]
        BY <1>3, <4>3, <4>4
      <4>6. QED
        BY <1>3, <4>2, <4>4, <4>5
    <3>3. QED
      BY <3>1, <3>2
  <2>3. ASSUME NEW i \in 0 .. n + 1, NEW x \in DOMAIN d[i]
        PROVE  x \in DOMAIN M /\ M[x] = Done(d[i][x])
    <3>1. CASE i = n + 1 /\ x = op
      BY <3>1, <1>3, <1>6, <1>7
    <3>2. CASE i = n + 1 /\ x # op
      <4>1. x \in DOMAIN c[n] /\ d[i][x] = c[n][x]
        BY <3>2, <1>6
      <4>2. x \in DOMAIN L /\ L[x] = Done(c[n][x])
        BY <4>1 DEF IsCourse
      <4>3. QED
        BY <3>2, <4>1, <4>2, <1>3
    <3>3. CASE i # n + 1
      <4>1. i \in 0 .. n /\ d[i] = c[i]
        BY <3>3, <1>5
      <4>2. x \in DOMAIN L /\ L[x] = Done(c[i][x]) /\ x # op
        BY <4>1, <1>4 DEF IsCourse
      <4>3. QED
        BY <4>1, <4>2, <1>3
    <3>4. QED
      BY <3>1, <3>2, <3>3
  <2>4. ASSUME NEW x \in DOMAIN M
        PROVE  x \in DOMAIN d[n + 1]
    BY <1>3, <1>6, <1>7 DEF IsCourse
  <2>5. QED
    BY <2>1, <2>2, <2>3, <2>4 DEF IsCourse
<1>9. QED
  BY <1>2, <1>5, <1>8 DEF op, M

\* A recovered result is the next step of the course.
LEMMA CourseRecovers ==
  ASSUME NEW L, NEW n \in Nat, NEW c, IsCourse(c, n, L), NEW k \in 0 .. n,
         NextOperation(c[k]) # Nothing, NextOperation(c[k]) \in DOMAIN L,
         L[NextOperation(c[k])] # Pending
  PROVE  /\ k + 1 \in 0 .. n
         /\ c[k + 1] = With(c[k], NextOperation(c[k]), L[NextOperation(c[k])].result)
<1>1. k # n
  BY NextIsNew DEF IsCourse
<1>2. k \in 0 .. n - 1
  BY <1>1
<1>3. QED
  BY <1>2 DEF IsCourse

\* Where nothing is left to do, all of the course has been seen, and nothing is pending.
LEMMA CourseEnds ==
  ASSUME NEW L, L = [op \in DOMAIN L |-> L[op]], NEW n \in Nat, NEW c, IsCourse(c, n, L),
         NEW k \in 0 .. n, NextOperation(c[k]) = Nothing
  PROVE  k = n /\ L = SettledAs(c[k])
<1>1. k = n
  BY DEF IsCourse
<1>2. DOMAIN L = DOMAIN c[k]
  BY <1>1 DEF IsCourse
<1>3. \A op \in DOMAIN L : L[op] = Done(c[k][op])
  BY <1>2 DEF IsCourse
<1>4. QED
  BY <1>1, <1>2, <1>3 DEF SettledAs

-----------------------------------------------------------------------------
(* The invariant of the command. *)

Fields == {"pc", "run", "seen", "op", "outcome", "late"}

Steps == {"idle", "deciding", "reserving", "calling", "settling", "stopped"}

\* A process that has reserved its operation and not settled it.
Holds(p) == work[p].pc \in {"calling", "settling"}

SynthesisType ==
  /\ DOMAIN work = Processes
  /\ \A p \in Processes : DOMAIN work[p] = Fields /\ work[p].pc \in Steps
  /\ DOMAIN ledger = Runs
  /\ \A run \in Runs : /\ ledger[run] = [op \in DOMAIN ledger[run] |-> ledger[run][op]]
                       /\ IsFiniteSet(DOMAIN ledger[run])
  /\ DOMAIN calls = Runs
  /\ \A run \in Runs : calls[run] \in Seq(DOMAIN ledger[run])
  /\ DOMAIN research = Runs
  /\ budget \in [Runs -> [limit : CostLimits, expired : BOOLEAN]]

\* Whatever anybody has seen of a run is a part of its course.
OnCourse(run, c, n) ==
  /\ IsCourse(c, n, ledger[run])
  /\ \A p \in Processes :
       work[p].pc # "idle" /\ work[p].run = run => \E k \in 0 .. n : work[p].seen = c[k]
  /\ \A r \in research[run] : \E k \in 0 .. n : r.seen = c[k]

RunsFollowCourses == \A run \in Runs : \E n \in Nat : \E c : OnCourse(run, c, n)

\* An operation that is at work is the next one, pending in the ledger, and of one process.
WorkAgrees ==
  /\ \A p \in Processes :
       /\ work[p].pc # "idle" => work[p].run \in Runs
       /\ work[p].pc \in {"reserving", "calling", "settling"} =>
            work[p].op = NextOperation(work[p].seen) /\ work[p].op # Nothing
       /\ Holds(p) => /\ work[p].op \in DOMAIN ledger[work[p].run]
                      /\ ledger[work[p].run][work[p].op] = Pending
       /\ work[p].pc = "calling" =>
            \A i \in DOMAIN calls[work[p].run] : calls[work[p].run][i] # work[p].op
  /\ \A p, q \in Processes :
       Holds(p) /\ Holds(q) /\ work[p].run = work[q].run /\ work[p].op = work[q].op => p = q

CalledOnce ==
  \A run \in Runs : \A i, j \in DOMAIN calls[run] : calls[run][i] = calls[run][j] => i = j

\* A result tells the truth about its run, all of it unless the budget stopped the research.
ResultAgrees(r, run) ==
  /\ r = [run |-> r.run, seen |-> r.seen, budget |-> r.budget, status |-> r.status]
  /\ r.run = run
  /\ \A op \in DOMAIN r.seen : op \in DOMAIN r.budget /\ r.budget[op] = Done(r.seen[op])
  /\ r.status # "budget_stopped" =>
       /\ NextOperation(r.seen) = Nothing
       /\ r.status = StatusOf(r.seen)
       /\ r.budget = SettledAs(r.seen)

\* Nothing is charged above the limit.
WithinLimit ==
  \A run \in Runs : Charged(run) <= budget[run].limit

SynthesisInv ==
  /\ SynthesisType
  /\ RunsFollowCourses
  /\ WorkAgrees
  /\ CalledOnce
  /\ \A run \in Runs : \A r \in research[run] : ResultAgrees(r, run)
  /\ WithinLimit

\* Nothing has been seen, called or charged at first.
LEMMA SynthesisInit == InitSynthesis => SynthesisInv
<1> SUFFICES ASSUME InitSynthesis PROVE SynthesisInv
  OBVIOUS
<1> USE DEF InitSynthesis
<1>1. /\ DOMAIN NoLedger = {} /\ NoLedger = [op \in DOMAIN NoLedger |-> NoLedger[op]]
      /\ \A run \in Runs : ledger[run] = NoLedger
  BY DEF NoLedger
<1>2. /\ DOMAIN NoWork = Fields /\ NoWork.pc = "idle"
      /\ DOMAIN work = Processes /\ \A p \in Processes : work[p] = NoWork
  BY DEF NoWork, Fields
<1>3. SynthesisType
  <2>1. \A run \in Runs : /\ ledger[run] = [op \in DOMAIN ledger[run] |-> ledger[run][op]]
                          /\ IsFiniteSet(DOMAIN ledger[run])
    BY <1>1, FS_EmptySet
  <2>2. \A run \in Runs : calls[run] \in Seq(DOMAIN ledger[run])
    BY <1>1
  <2>3. budget \in [Runs -> [limit : CostLimits, expired : BOOLEAN]]
    BY ZenonT(30)
  <2>4. QED
    BY <1>1, <1>2, <2>1, <2>2, <2>3 DEF SynthesisType, Steps
<1>4. RunsFollowCourses
  <2>1. SUFFICES ASSUME NEW run \in Runs
                 PROVE  OnCourse(run, [i \in {0} |-> NoLedger], 0)
    BY DEF RunsFollowCourses
  <2>2. IsCourse([i \in {0} |-> NoLedger], 0, ledger[run])
    BY <1>1 DEF IsCourse
  <2>3. QED
    BY <1>2, <2>2 DEF OnCourse
<1>5. WorkAgrees
  BY <1>2 DEF WorkAgrees, Holds
<1>6. CalledOnce
  BY DEF CalledOnce
<1>7. WithinLimit
  <2>1. SUFFICES ASSUME NEW run \in Runs
                 PROVE  Charged(run) <= budget[run].limit
    BY DEF WithinLimit
  <2>2. {op \in DOMAIN ledger[run] : op[1] # "experiment"} = {}
    BY <1>1
  <2>3. budget[run].limit \in Nat
    BY <1>3, SynthesisAssumption DEF SynthesisType
  <2>4. Charged(run) = 0
    BY <2>2, FS_EmptySet DEF Charged
  <2>5. QED
    BY <2>3, <2>4
<1>8. QED
  BY <1>3, <1>4, <1>5, <1>6, <1>7 DEF SynthesisInv

\* What somebody has seen is a part of the course of the run.
Followed(run, seen) ==
  \A n \in Nat : \A c : OnCourse(run, c, n) => \E k \in 0 .. n : seen = c[k]

\* Steps that leave the ledger and the calls alone.
LEMMA QuietKeeps ==
  ASSUME SynthesisInv, NEW p \in Processes, UNCHANGED <<ledger, calls, budget>>,
         DOMAIN work' = Processes, \A q \in Processes \ {p} : work'[q] = work[q],
         DOMAIN work'[p] = Fields,
         work'[p].pc \in {"idle", "deciding", "reserving", "stopped"},
         work'[p].pc # "idle" => work'[p].run \in Runs /\ Followed(work'[p].run, work'[p].seen),
         work'[p].pc = "reserving" =>
           work'[p].op = NextOperation(work'[p].seen) /\ work'[p].op # Nothing,
         DOMAIN research' = Runs,
         \A run \in Runs : \A r \in research'[run] :
           r \in research[run] \/ (ResultAgrees(r, run) /\ Followed(run, r.seen))
  PROVE  SynthesisInv'
<1>1. SynthesisType'
  BY DEF SynthesisInv, SynthesisType, Steps
<1>2. RunsFollowCourses'
  <2>1. SUFFICES ASSUME NEW run \in Runs
                 PROVE  \E n \in Nat : \E c : OnCourse(run, c, n)'
    BY DEF RunsFollowCourses
  <2>2. PICK n \in Nat : \E c : OnCourse(run, c, n)
    BY DEF SynthesisInv, RunsFollowCourses
  <2>3. PICK c : OnCourse(run, c, n)
    BY <2>2
  <2>4. ASSUME NEW q \in Processes, work'[q].pc # "idle", work'[q].run = run
        PROVE  \E k \in 0 .. n : work'[q].seen = c[k]
    BY <2>3, <2>4 DEF OnCourse, Followed
  <2>5. \A r \in research'[run] : \E k \in 0 .. n : r.seen = c[k]
    BY <2>3 DEF OnCourse, Followed
  <2>6. IsCourse(c, n, ledger'[run])
    BY <2>3 DEF OnCourse
  <2>7. OnCourse(run, c, n)'
    BY <2>4, <2>5, <2>6 DEF OnCourse
  <2>8. QED
    BY <2>7
<1>3. WorkAgrees'
  BY DEF SynthesisInv, WorkAgrees, Holds
<1>4. CalledOnce' /\ WithinLimit'
  BY DEF SynthesisInv, CalledOnce, WithinLimit, Charged
<1>5. \A run \in Runs : \A r \in research'[run] : ResultAgrees(r, run)
  BY DEF SynthesisInv
<1>6. QED
  BY <1>1, <1>2, <1>3, <1>4, <1>5 DEF SynthesisInv

\* A process that is at work on a run has seen a part of its course.
LEMMA WorkFollows ==
  ASSUME SynthesisInv, NEW p \in Processes, work[p].pc # "idle"
  PROVE  work[p].run \in Runs /\ Followed(work[p].run, work[p].seen)
  BY DEF SynthesisInv, WorkAgrees, Followed, OnCourse

\* Nothing has been seen by a new command.
LEMMA NothingFollows ==
  ASSUME NEW run
  PROVE  Followed(run, NoLedger)
<1> SUFFICES ASSUME NEW n \in Nat, NEW c, OnCourse(run, c, n)
             PROVE  \E k \in 0 .. n : NoLedger = c[k]
  BY DEF Followed
<1>1. c[0] = NoLedger /\ 0 \in 0 .. n
  BY DEF OnCourse, IsCourse
<1>2. QED
  BY <1>1

\* Beginning, reading the clock and stopping.
LEMMA StartKeeps ==
  ASSUME SynthesisInv, NEW p \in Processes, NEW run \in Runs, StartCommand(p, run)
  PROVE  SynthesisInv'
<1> USE DEF StartCommand
<1>1. DOMAIN work = Processes /\ DOMAIN research = Runs
  BY DEF SynthesisInv, SynthesisType
<1>2. /\ DOMAIN work' = Processes /\ \A q \in Processes \ {p} : work'[q] = work[q]
      /\ DOMAIN work'[p] = Fields /\ work'[p].pc = "deciding" /\ work'[p].run = run
      /\ work'[p].seen = NoLedger
  BY <1>1 DEF NoWork, Fields
<1>3. Followed(run, NoLedger)
  BY NothingFollows
<1>4. Followed(work'[p].run, work'[p].seen)
  BY <1>2, <1>3
<1>5. QED
  BY <1>1, <1>2, <1>4, QuietKeeps

\* Reading the clock changes no result.
LEMMA ReadClockKeeps ==
  ASSUME SynthesisInv, NEW p \in Processes, ReadClock(p)
  PROVE  SynthesisInv'
<1> USE DEF ReadClock
<1>1. DOMAIN work = Processes /\ DOMAIN research = Runs /\ DOMAIN work[p] = Fields
  BY DEF SynthesisInv, SynthesisType
<1>2. work[p].pc # "idle"
  BY DEF WorkAt
<1>3. /\ DOMAIN work' = Processes /\ \A q \in Processes \ {p} : work'[q] = work[q]
      /\ DOMAIN work'[p] = Fields /\ work'[p].pc = "reserving" /\ work'[p].run = work[p].run
      /\ work'[p].seen = work[p].seen
      /\ work'[p].op = NextOperation(work[p].seen) /\ work'[p].op # Nothing
  BY <1>1 DEF Fields
<1>4. work'[p].run \in Runs /\ Followed(work'[p].run, work'[p].seen)
  BY <1>2, <1>3, WorkFollows
<1>5. QED
  BY <1>1, <1>3, <1>4, QuietKeeps

\* A command that stops, or whose answer was taken, changes no result.
LEMMA StopKeeps ==
  ASSUME SynthesisInv, NEW p \in Processes, UNCHANGED <<ledger, calls, budget, research>>,
         \/ work' = [work EXCEPT ![p] = NoWork]
         \/ work[p].pc # "idle" /\ work' = [work EXCEPT ![p].pc = "stopped"]
  PROVE  SynthesisInv'
<1>1. DOMAIN work = Processes /\ DOMAIN research = Runs /\ DOMAIN work[p] = Fields
  BY DEF SynthesisInv, SynthesisType
<1>2. CASE work' = [work EXCEPT ![p] = NoWork]
  <2>1. /\ DOMAIN work' = Processes /\ \A q \in Processes \ {p} : work'[q] = work[q]
        /\ DOMAIN work'[p] = Fields /\ work'[p].pc = "idle"
    BY <1>1, <1>2 DEF NoWork, Fields
  <2>2. QED
    BY <1>1, <2>1, QuietKeeps
<1>3. CASE work[p].pc # "idle" /\ work' = [work EXCEPT ![p].pc = "stopped"]
  <2>1. /\ DOMAIN work' = Processes /\ \A q \in Processes \ {p} : work'[q] = work[q]
        /\ DOMAIN work'[p] = Fields /\ work'[p].pc = "stopped" /\ work'[p].run = work[p].run
        /\ work'[p].seen = work[p].seen
    BY <1>1, <1>3 DEF Fields
  <2>2. work'[p].run \in Runs /\ Followed(work'[p].run, work'[p].seen)
    BY <1>3, <2>1, WorkFollows
  <2>3. QED
    BY <1>1, <2>1, <2>2, QuietKeeps
<1>4. QED
  BY <1>2, <1>3

\* A recovered result has been settled by somebody on the course of the run.
LEMMA RecoverKeeps ==
  ASSUME SynthesisInv, NEW p \in Processes, UNCHANGED <<ledger, calls, budget, research>>,
         work[p].pc = "reserving", work[p].op \in DOMAIN ledger[work[p].run],
         ledger[work[p].run][work[p].op].settled = TRUE,
         work' = [work EXCEPT ![p].pc = "deciding",
                    ![p].seen = With(@, work[p].op, ledger[work[p].run][work[p].op].result)]
  PROVE  SynthesisInv'
<1> DEFINE run == work[p].run
           op == work[p].op
           seen == With(work[p].seen, op, ledger[run][op].result)
<1>1. DOMAIN work = Processes /\ DOMAIN research = Runs /\ DOMAIN work[p] = Fields
  BY DEF SynthesisInv, SynthesisType
<1>2. /\ DOMAIN work' = Processes /\ \A q \in Processes \ {p} : work'[q] = work[q]
      /\ DOMAIN work'[p] = Fields /\ work'[p].pc = "deciding" /\ work'[p].run = run
      /\ work'[p].seen = seen
  BY <1>1 DEF Fields
<1>3. run \in Runs /\ op = NextOperation(work[p].seen) /\ op # Nothing
  BY DEF SynthesisInv, WorkAgrees
<1>4. Followed(run, work[p].seen)
  BY WorkFollows
<1>5. Followed(run, seen)
  <2>1. SUFFICES ASSUME NEW n \in Nat, NEW c, OnCourse(run, c, n)
                 PROVE  \E k \in 0 .. n : seen = c[k]
    BY DEF Followed
  <2>2. PICK k \in 0 .. n : work[p].seen = c[k]
    BY <1>4, <2>1 DEF Followed
  <2>3. IsCourse(c, n, ledger[run])
    BY <2>1 DEF OnCourse
  <2>6. op = NextOperation(c[k])
    BY <1>3, <2>2
  <2>7. /\ NextOperation(c[k]) # Nothing /\ NextOperation(c[k]) \in DOMAIN ledger[run]
        /\ ledger[run][NextOperation(c[k])] # Pending
    BY <1>3, <2>6, RowsDiffer
  <2>8. /\ k + 1 \in 0 .. n
        /\ c[k + 1] = With(c[k], NextOperation(c[k]), ledger[run][NextOperation(c[k])].result)
    BY <2>3, <2>7, CourseRecovers
  <2>4. k + 1 \in 0 .. n /\ c[k + 1] = With(c[k], op, ledger[run][op].result)
    BY <2>6, <2>8
  <2>5. QED
    BY <2>2, <2>4
<1> HIDE DEF run, op, seen
<1>6. work'[p].run \in Runs /\ Followed(work'[p].run, work'[p].seen)
  BY <1>2, <1>3, <1>5
<1>7. QED
  BY <1>1, <1>2, <1>6, QuietKeeps

\* What a process has seen is settled in the ledger; whoever has nothing left to do has seen it all.
LEMMA SeenIsSettled ==
  ASSUME SynthesisInv, NEW p \in Processes, work[p].pc # "idle"
  PROVE  /\ \A op \in DOMAIN work[p].seen :
              /\ op \in DOMAIN ledger[work[p].run]
              /\ ledger[work[p].run][op] = Done(work[p].seen[op])
         /\ NextOperation(work[p].seen) = Nothing =>
              ledger[work[p].run] = SettledAs(work[p].seen)
<1>1. PICK run \in Runs : run = work[p].run
  BY DEF SynthesisInv, WorkAgrees
<1>2. PICK n \in Nat : \E c : OnCourse(run, c, n)
  BY DEF SynthesisInv, RunsFollowCourses
<1>3. PICK c : OnCourse(run, c, n)
  BY <1>2
<1>4. PICK k \in 0 .. n : work[p].seen = c[k]
  BY <1>1, <1>3 DEF OnCourse
<1>5. PICK L : L = ledger[run]
  OBVIOUS
<1>6. IsCourse(c, n, L) /\ L = [op \in DOMAIN L |-> L[op]]
  BY <1>3, <1>5 DEF OnCourse, SynthesisInv, SynthesisType
<1>7. \A op \in DOMAIN c[k] : op \in DOMAIN L /\ L[op] = Done(c[k][op])
  BY <1>6 DEF IsCourse
<1>8. NextOperation(c[k]) = Nothing => L = SettledAs(c[k])
  BY <1>6, CourseEnds
<1>9. QED
  BY <1>1, <1>4, <1>5, <1>7, <1>8

\* What is published is the end of the course.
LEMMA PublishKeeps ==
  ASSUME SynthesisInv, NEW p \in Processes, PublishResearch(p)
  PROVE  SynthesisInv'
<1> DEFINE run == work[p].run
           result == Result(p, WorkAt(p, "stopped"))
<1>1. DOMAIN work = Processes /\ DOMAIN research = Runs /\ DOMAIN work[p] = Fields
  BY DEF SynthesisInv, SynthesisType
<1>2. work[p].pc # "idle"
  BY DEF PublishResearch, WorkAt
<1>3. /\ DOMAIN work' = Processes /\ \A q \in Processes \ {p} : work'[q] = work[q]
      /\ DOMAIN work'[p] = Fields /\ work'[p].pc = "idle"
  BY <1>1 DEF PublishResearch, NoWork, Fields
<1>4. run \in Runs /\ Followed(run, work[p].seen)
  BY <1>2, WorkFollows
<1>5. /\ result.run = run /\ result.seen = work[p].seen /\ result.budget = ledger[run]
      /\ result = [run |-> result.run, seen |-> result.seen, budget |-> result.budget,
                   status |-> result.status]
      /\ result.status # "budget_stopped" =>
           ~WorkAt(p, "stopped") /\ result.status = StatusOf(result.seen)
  BY DEF Result
<1>6. ~WorkAt(p, "stopped") => NextOperation(work[p].seen) = Nothing
  BY DEF PublishResearch
<1>7. research' = [research EXCEPT ![run] = @ \cup {result}]
  BY DEF PublishResearch
<1>8. UNCHANGED <<ledger, calls, budget>>
  BY DEF PublishResearch
<1>9. /\ \A op \in DOMAIN work[p].seen :
           op \in DOMAIN ledger[run] /\ ledger[run][op] = Done(work[p].seen[op])
      /\ NextOperation(work[p].seen) = Nothing => ledger[run] = SettledAs(work[p].seen)
  BY <1>2, SeenIsSettled
<1> HIDE DEF run, result
<1>10. ResultAgrees(result, run)
  BY <1>5, <1>6, <1>9 DEF ResultAgrees
<1>11. Followed(run, result.seen)
  BY <1>4, <1>5
<1>12. DOMAIN research' = Runs
  BY <1>1, <1>7
<1>13. ASSUME NEW other \in Runs, NEW r \in research'[other]
       PROVE  r \in research[other] \/ (ResultAgrees(r, other) /\ Followed(other, r.seen))
  <2>1. CASE other = run
    <3>1. r \in research[run] \/ r = result
      BY <1>1, <1>4, <1>7, <1>13, <2>1
    <3>2. QED
      BY <2>1, <3>1, <1>10, <1>11
  <2>2. CASE other # run
    BY <1>1, <1>7, <1>13, <2>2
  <2>3. QED
    BY <2>1, <2>2
<1>14. QED
  BY <1>3, <1>8, <1>12, <1>13, QuietKeeps

\* The deadline of a budget says nothing of what was done.
LEMMA ExpireKeeps ==
  ASSUME SynthesisInv, NEW run \in Runs, ExpireBudget(run)
  PROVE  SynthesisInv'
<1>1. budget \in [Runs -> [limit : CostLimits, expired : BOOLEAN]]
  BY DEF SynthesisInv, SynthesisType
<1>2. budget' \in [Runs -> [limit : CostLimits, expired : BOOLEAN]]
  BY <1>1, ZenonT(30) DEF ExpireBudget
<1>3. \A r \in Runs : budget'[r].limit = budget[r].limit
  BY <1>1 DEF ExpireBudget
<1>4. UNCHANGED <<ledger, work, research, calls>>
  BY DEF ExpireBudget
<1>5. SynthesisType'
  BY <1>2, <1>4 DEF SynthesisInv, SynthesisType
<1>6. RunsFollowCourses'
  BY <1>4 DEF SynthesisInv, RunsFollowCourses, OnCourse
<1>7. WorkAgrees'
  BY <1>4 DEF SynthesisInv, WorkAgrees, Holds
<1>8. CalledOnce' /\ WithinLimit'
  BY <1>3, <1>4 DEF SynthesisInv, CalledOnce, WithinLimit, Charged
<1>9. \A r \in Runs : \A result \in research'[r] : ResultAgrees(result, r)
  BY <1>4 DEF SynthesisInv
<1>10. QED
  BY <1>5, <1>6, <1>7, <1>8, <1>9 DEF SynthesisInv

\* The courses of the other runs go on as they were.
LEMMA OthersFollow ==
  ASSUME SynthesisInv, NEW p \in Processes, NEW run \in Runs,
         NEW other \in Runs, other # run,
         ledger'[other] = ledger[other], research'[other] = research[other],
         \A q \in Processes \ {p} : work'[q] = work[q], work'[p].run = run
  PROVE  \E n \in Nat : \E c : OnCourse(other, c, n)'
<1>1. PICK n \in Nat : \E c : OnCourse(other, c, n)
  BY DEF SynthesisInv, RunsFollowCourses
<1>2. PICK c : OnCourse(other, c, n)
  BY <1>1
<1>3. OnCourse(other, c, n)'
  BY <1>2 DEF OnCourse
<1>4. QED
  BY <1>3

\* An operation is reserved that nobody has reserved before.
LEMMA GrantKeeps ==
  ASSUME SynthesisInv, NEW p \in Processes, UNCHANGED <<calls, budget, research>>,
         work[p].pc = "reserving", work[p].op \notin DOMAIN ledger[work[p].run],
         Admitted(p, work[p].op),
         ledger' = [ledger EXCEPT ![work[p].run] = With(@, work[p].op, Pending)],
         work' = [work EXCEPT ![p].pc = "calling"]
  PROVE  SynthesisInv'
<1>1. PICK run \in Runs : run = work[p].run
  BY DEF SynthesisInv, WorkAgrees
<1>2. PICK op : op = work[p].op
  OBVIOUS
<1>3. SynthesisType /\ WorkAgrees
  BY DEF SynthesisInv
<1>4. /\ DOMAIN work' = Processes /\ \A q \in Processes \ {p} : work'[q] = work[q]
      /\ DOMAIN work'[p] = Fields /\ work'[p].pc = "calling" /\ work'[p].run = run
      /\ work'[p].seen = work[p].seen /\ work'[p].op = op
  BY <1>1, <1>2, <1>3 DEF SynthesisType, Fields
<1>5. op = NextOperation(work[p].seen) /\ op # Nothing /\ op \notin DOMAIN ledger[run]
  BY <1>1, <1>2, <1>3 DEF WorkAgrees
<1>6. /\ DOMAIN ledger' = Runs
      /\ ledger'[run] = With(ledger[run], op, Pending)
      /\ \A other \in Runs \ {run} : ledger'[other] = ledger[other]
  BY <1>1, <1>2, <1>3 DEF SynthesisType
<1>7. /\ DOMAIN ledger'[run] = DOMAIN ledger[run] \cup {op}
      /\ ledger'[run] = [x \in DOMAIN ledger'[run] |-> ledger'[run][x]]
      /\ ledger'[run][op] = Pending
      /\ \A x \in DOMAIN ledger[run] : ledger'[run][x] = ledger[run][x]
  BY <1>5, <1>6 DEF With
<1>8. SynthesisType'
  <2>1. ASSUME NEW r \in Runs
        PROVE  /\ ledger'[r] = [x \in DOMAIN ledger'[r] |-> ledger'[r][x]]
               /\ IsFiniteSet(DOMAIN ledger'[r])
               /\ calls'[r] \in Seq(DOMAIN ledger'[r])
    <3>1. CASE r = run
      <4>1. IsFiniteSet(DOMAIN ledger[run]) /\ calls[run] \in Seq(DOMAIN ledger[run])
        BY <1>3 DEF SynthesisType
      <4>2. IsFiniteSet(DOMAIN ledger[run] \cup {op})
        BY <4>1, FS_AddElement
      <4>3. calls[run] \in Seq(DOMAIN ledger[run] \cup {op})
        BY <4>1
      <4>4. QED
        BY <3>1, <1>7, <4>2, <4>3
    <3>2. CASE r # run
      <4>1. /\ ledger[r] = [x \in DOMAIN ledger[r] |-> ledger[r][x]]
            /\ IsFiniteSet(DOMAIN ledger[r])
            /\ calls[r] \in Seq(DOMAIN ledger[r])
        BY <1>3 DEF SynthesisType
      <4>2. ledger'[r] = ledger[r]
        BY <3>2, <1>6
      <4>3. QED
        BY <4>1, <4>2
    <3>3. QED
      BY <3>1, <3>2
  <2>2. QED
    BY <2>1, <1>3, <1>4, <1>6 DEF SynthesisType, Steps
<1>9. RunsFollowCourses'
  <2>1. SUFFICES ASSUME NEW other \in Runs
                 PROVE  \E n \in Nat : \E c : OnCourse(other, c, n)'
    BY DEF RunsFollowCourses
  <2>2. CASE other # run
    BY <2>2, <1>4, <1>6, OthersFollow
  <2>3. CASE other = run
    <3>1. PICK n \in Nat : \E c : OnCourse(run, c, n)
      BY DEF SynthesisInv, RunsFollowCourses
    <3>2. PICK c : OnCourse(run, c, n)
      BY <3>1
    <3>3. PICK k \in 0 .. n : work[p].seen = c[k]
      BY <1>1, <3>2 DEF OnCourse
    <3>4. IsCourse(c, n, ledger[run])
      BY <3>2 DEF OnCourse
    <3>5. NextOperation(c[k]) = op
      BY <3>3, <1>5
    <3>6. IsCourse(c, n, With(ledger[run], NextOperation(c[k]), Pending))
      BY <3>4, <3>5, <1>5, CourseReserves
    <3>7. IsCourse(c, n, ledger'[run])
      BY <3>5, <3>6, <1>6
    <3>8. ASSUME NEW q \in Processes, work'[q].pc # "idle", work'[q].run = run
          PROVE  \E j \in 0 .. n : work'[q].seen = c[j]
      BY <3>2, <3>3, <3>8, <1>4 DEF OnCourse
    <3>9. OnCourse(run, c, n)'
      BY <3>2, <3>7, <3>8 DEF OnCourse
    <3>10. QED
      BY <2>3, <3>9
  <2>4. QED
    BY <2>2, <2>3
<1>10. WorkAgrees'
  <2>1. \A i \in DOMAIN calls[run] : calls[run][i] # op
    BY <1>3, <1>5 DEF SynthesisType
  <2>2. \A q \in Processes \ {p} : Holds(q)' <=> Holds(q)
    BY <1>4 DEF Holds
  <2>3. \A q \in Processes : Holds(q) /\ work[q].run = run => work[q].op # op
    BY <1>3, <1>5 DEF WorkAgrees
  <2>4. ASSUME NEW q \in Processes, Holds(q)'
        PROVE  /\ work'[q].op \in DOMAIN ledger'[work'[q].run]
               /\ ledger'[work'[q].run][work'[q].op] = Pending
    <3>1. CASE q = p
      BY <3>1, <1>4, <1>7
    <3>2. CASE q # p
      <4>1. Holds(q) /\ work'[q] = work[q] /\ work[q].run \in Runs
        BY <2>2, <2>4, <3>2, <1>3, <1>4 DEF WorkAgrees, Holds
      <4>2. /\ work[q].op \in DOMAIN ledger[work[q].run]
            /\ ledger[work[q].run][work[q].op] = Pending
        BY <4>1, <1>3 DEF WorkAgrees
      <4>3. QED
        BY <4>1, <4>2, <1>6, <1>7
    <3>3. QED
      BY <3>1, <3>2
  <2>5. ASSUME NEW q \in Processes
        PROVE  /\ work'[q].pc # "idle" => work'[q].run \in Runs
               /\ work'[q].pc \in {"reserving", "calling", "settling"} =>
                    work'[q].op = NextOperation(work'[q].seen) /\ work'[q].op # Nothing
               /\ work'[q].pc = "calling" =>
                    \A i \in DOMAIN calls[work'[q].run] : calls[work'[q].run][i] # work'[q].op
    <3>1. CASE q = p
      BY <3>1, <1>4, <1>5, <2>1
    <3>2. CASE q # p
      BY <3>2, <1>3, <1>4 DEF WorkAgrees
    <3>3. QED
      BY <3>1, <3>2
  <2>6. ASSUME NEW q \in Processes, NEW r \in Processes, Holds(q)', Holds(r)',
               work'[q].run = work'[r].run, work'[q].op = work'[r].op
        PROVE  q = r
    <3>1. CASE q # p /\ r # p
      BY <2>6, <3>1, <2>2, <1>3, <1>4 DEF WorkAgrees
    <3>2. CASE q = p /\ r # p
      BY <2>6, <3>2, <2>2, <2>3, <1>4
    <3>3. CASE q # p /\ r = p
      BY <2>6, <3>3, <2>2, <2>3, <1>4
    <3>4. QED
      BY <3>1, <3>2, <3>3
  <2>7. QED
    BY <2>4, <2>5, <2>6 DEF WorkAgrees
<1>11. CalledOnce'
  BY DEF SynthesisInv, CalledOnce
<1>12. WithinLimit'
  <2>1. SUFFICES ASSUME NEW other \in Runs
                 PROVE  (Charged(other) <= budget[other].limit)'
    BY DEF WithinLimit
  <2>2. Charged(other) <= budget[other].limit
    BY DEF SynthesisInv, WithinLimit
  <2>3. CASE other # run
    BY <2>2, <2>3, <1>6 DEF Charged
  <2>4. CASE other = run /\ op[1] = "experiment"
    <3>1. {x \in DOMAIN ledger'[run] : x[1] # "experiment"}
            = {x \in DOMAIN ledger[run] : x[1] # "experiment"}
      BY <2>4, <1>7
    <3>2. Charged(run)' = Charged(run)
      BY <3>1 DEF Charged
    <3>3. QED
      BY <2>2, <2>4, <3>2
  <2>5. CASE other = run /\ op[1] # "experiment"
    <3>1. PICK S : S = {x \in DOMAIN ledger[run] : x[1] # "experiment"}
      OBVIOUS
    <3>2. {x \in DOMAIN ledger'[run] : x[1] # "experiment"} = S \cup {op}
      BY <2>5, <3>1, <1>7
    <3>3. IsFiniteSet(S) /\ op \notin S
      BY <3>1, <1>3, <1>5, FS_Subset DEF SynthesisType
    <3>4. Cardinality(S) \in Nat /\ Cardinality(S \cup {op}) = Cardinality(S) + 1
      BY <3>3, FS_AddElement, FS_CardinalityType
    <3>5. Charged(run) = Cardinality(S) /\ Charged(run)' = Cardinality(S \cup {op})
      BY <3>1, <3>2 DEF Charged
    <3>6. Charged(run) < budget[run].limit
      BY <2>5, <1>1, <1>2 DEF Admitted
    <3>7. budget[run].limit \in Nat /\ budget'[run].limit = budget[run].limit
      BY <1>3, SynthesisAssumption DEF SynthesisType
    <3>8. QED
      BY <2>5, <3>4, <3>5, <3>6, <3>7
  <2>6. QED
    BY <2>3, <2>4, <2>5
<1>13. \A r \in Runs : \A result \in research'[r] : ResultAgrees(result, r)
  BY DEF SynthesisInv
<1>14. QED
  BY <1>8, <1>9, <1>10, <1>11, <1>12, <1>13 DEF SynthesisInv

\* A call is made by the one process that holds the operation, and once.
LEMMA CallKeeps ==
  ASSUME SynthesisInv, NEW p \in Processes, CallOperation(p)
  PROVE  SynthesisInv'
<1>1. PICK run \in Runs : run = work[p].run
  BY DEF SynthesisInv, WorkAgrees, CallOperation, WorkAt
<1>2. PICK op : op = work[p].op
  OBVIOUS
<1>3. SynthesisType /\ WorkAgrees
  BY DEF SynthesisInv
<1>4. work[p].pc = "calling" /\ Holds(p)
  BY DEF CallOperation, WorkAt, Holds
<1>5. /\ DOMAIN work' = Processes /\ \A q \in Processes \ {p} : work'[q] = work[q]
      /\ DOMAIN work'[p] = Fields /\ work'[p].pc = "settling" /\ work'[p].run = run
      /\ work'[p].seen = work[p].seen /\ work'[p].op = op
  BY <1>1, <1>2, <1>3 DEF SynthesisType, CallOperation, Fields
<1>6. /\ op \in DOMAIN ledger[run]
      /\ \A i \in DOMAIN calls[run] : calls[run][i] # op
  BY <1>1, <1>2, <1>3, <1>4 DEF WorkAgrees
<1>7. calls[run] \in Seq(DOMAIN ledger[run])
  BY <1>3 DEF SynthesisType
<1>8. /\ DOMAIN calls' = Runs
      /\ calls'[run] = Append(calls[run], op)
      /\ \A other \in Runs \ {run} : calls'[other] = calls[other]
  BY <1>1, <1>2, <1>3 DEF SynthesisType, CallOperation
<1>9. /\ calls'[run] \in Seq(DOMAIN ledger[run])
      /\ Len(calls[run]) \in Nat
      /\ DOMAIN calls[run] = 1 .. Len(calls[run])
      /\ DOMAIN calls'[run] = 1 .. Len(calls[run]) + 1
      /\ calls'[run][Len(calls[run]) + 1] = op
      /\ \A i \in 1 .. Len(calls[run]) : calls'[run][i] = calls[run][i]
  <2>1. PICK D : D = DOMAIN ledger[run]
    OBVIOUS
  <2>2. PICK s \in Seq(D) : s = calls[run]
    BY <1>7, <2>1
  <2>3. op \in D
    BY <1>6, <2>1
  <2>4. PICK t : t = Append(s, op)
    OBVIOUS
  <2>5. /\ t \in Seq(D) /\ Len(s) \in Nat /\ DOMAIN s = 1 .. Len(s)
        /\ Len(t) = Len(s) + 1 /\ DOMAIN t = 1 .. Len(s) + 1 /\ t[Len(s) + 1] = op
        /\ \A i \in 1 .. Len(s) : t[i] = s[i]
    BY <2>3, <2>4
  <2>6. calls'[run] = t
    BY <1>8, <2>2, <2>4
  <2>7. QED
    BY <2>1, <2>2, <2>5, <2>6
<1>10. UNCHANGED <<budget, ledger, research>>
  BY DEF CallOperation
<1>11. SynthesisType'
  BY <1>3, <1>5, <1>8, <1>9, <1>10 DEF SynthesisType, Steps
<1>12. RunsFollowCourses'
  <2>1. SUFFICES ASSUME NEW other \in Runs
                 PROVE  \E n \in Nat : \E c : OnCourse(other, c, n)'
    BY DEF RunsFollowCourses
  <2>2. PICK n \in Nat : \E c : OnCourse(other, c, n)
    BY DEF SynthesisInv, RunsFollowCourses
  <2>3. PICK c : OnCourse(other, c, n)
    BY <2>2
  <2>4. ASSUME NEW q \in Processes, work'[q].pc # "idle", work'[q].run = other
        PROVE  \E j \in 0 .. n : work'[q].seen = c[j]
    BY <2>3, <2>4, <1>1, <1>4, <1>5 DEF OnCourse
  <2>5. OnCourse(other, c, n)'
    BY <2>3, <2>4, <1>10 DEF OnCourse
  <2>6. QED
    BY <2>5
<1>13. WorkAgrees'
  <2>1. \A q \in Processes : Holds(q)' <=> Holds(q)
    BY <1>4, <1>5 DEF Holds
  <2>2. \A q \in Processes : work'[q].run = work[q].run /\ work'[q].op = work[q].op
                             /\ work'[q].seen = work[q].seen
    BY <1>1, <1>2, <1>5
  <2>3. \A q, r \in Processes :
          Holds(q)' /\ Holds(r)' /\ work'[q].run = work'[r].run /\ work'[q].op = work'[r].op
            => q = r
    BY <2>1, <2>2, <1>3 DEF WorkAgrees
  <2>4. ASSUME NEW q \in Processes, work'[q].pc = "calling"
        PROVE  \A i \in DOMAIN calls'[work'[q].run] : calls'[work'[q].run][i] # work'[q].op
    <3>1. q # p /\ work[q].pc = "calling" /\ Holds(q) /\ work[q].run \in Runs
      BY <2>4, <1>3, <1>5 DEF Holds, WorkAgrees
    <3>2. \A i \in DOMAIN calls[work[q].run] : calls[work[q].run][i] # work[q].op
      BY <3>1, <1>3 DEF WorkAgrees
    <3>3. CASE work[q].run = run
      <4>1. work[q].op # op
        BY <3>1, <3>3, <1>1, <1>2, <1>3, <1>4 DEF WorkAgrees
      <4>2. QED
        <5>1. SUFFICES ASSUME NEW i \in DOMAIN calls'[run]
                       PROVE  calls'[run][i] # work[q].op
          BY <2>2, <3>3
        <5>2. CASE i = Len(calls[run]) + 1
          BY <4>1, <5>2, <1>9
        <5>3. CASE i \in 1 .. Len(calls[run])
          BY <3>2, <3>3, <5>3, <1>9
        <5>4. QED
          BY <5>1, <5>2, <5>3, <1>9
    <3>4. CASE work[q].run # run
      <4>1. PICK other \in Runs \ {run} : other = work[q].run
        BY <3>1, <3>4
      <4>2. calls'[other] = calls[other]
        BY <1>8
      <4>3. QED
        BY <2>2, <3>2, <4>1, <4>2
    <3>5. QED
      BY <3>3, <3>4
  <2>5. ASSUME NEW q \in Processes
        PROVE  /\ work'[q].pc # "idle" => work'[q].run \in Runs
               /\ work'[q].pc \in {"reserving", "calling", "settling"} =>
                    work'[q].op = NextOperation(work'[q].seen) /\ work'[q].op # Nothing
               /\ Holds(q)' => /\ work'[q].op \in DOMAIN ledger'[work'[q].run]
                               /\ ledger'[work'[q].run][work'[q].op] = Pending
    <3>1. /\ work[q].pc # "idle" => work[q].run \in Runs
          /\ work[q].pc \in {"reserving", "calling", "settling"} =>
               work[q].op = NextOperation(work[q].seen) /\ work[q].op # Nothing
          /\ Holds(q) => /\ work[q].op \in DOMAIN ledger[work[q].run]
                         /\ ledger[work[q].run][work[q].op] = Pending
      BY <1>3 DEF WorkAgrees
    <3>2. CASE q = p
      BY <3>1, <3>2, <2>1, <2>2, <1>4, <1>5, <1>10
    <3>3. CASE q # p
      BY <3>1, <3>3, <2>1, <1>5, <1>10
    <3>4. QED
      BY <3>2, <3>3
  <2>6. QED
    BY <2>3, <2>4, <2>5 DEF WorkAgrees
<1>14. CalledOnce'
  <2>1. SUFFICES ASSUME NEW other \in Runs, NEW i \in DOMAIN calls'[other],
                        NEW j \in DOMAIN calls'[other], calls'[other][i] = calls'[other][j]
                 PROVE  i = j
    BY DEF CalledOnce
  <2>2. \A x, y \in DOMAIN calls[other] : calls[other][x] = calls[other][y] => x = y
    BY DEF SynthesisInv, CalledOnce
  <2>3. CASE other # run
    BY <2>1, <2>2, <2>3, <1>8
  <2>4. CASE other = run
    BY <2>1, <2>2, <2>4, <1>6, <1>9
  <2>5. QED
    BY <2>3, <2>4
<1>15. WithinLimit'
  BY <1>10 DEF SynthesisInv, WithinLimit, Charged
<1>16. \A r \in Runs : \A result \in research'[r] : ResultAgrees(result, r)
  BY <1>10 DEF SynthesisInv
<1>17. QED
  BY <1>11, <1>12, <1>13, <1>14, <1>15, <1>16 DEF SynthesisInv

\* A settlement continues the course, for its own process and for all that follow.
LEMMA SettleKeeps ==
  ASSUME SynthesisInv, NEW p \in Processes, UNCHANGED <<calls, budget, research>>,
         work[p].pc = "settling",
         ledger' = [ledger EXCEPT ![work[p].run][work[p].op] = Done(work[p].outcome)],
         work' = [work EXCEPT ![p].pc = "deciding",
                              ![p].seen = With(@, work[p].op, work[p].outcome)]
  PROVE  SynthesisInv'
<1>1. PICK run \in Runs : run = work[p].run
  BY DEF SynthesisInv, WorkAgrees
<1>2. PICK op : op = work[p].op
  OBVIOUS
<1>3. PICK outcome : outcome = work[p].outcome
  OBVIOUS
<1>4. SynthesisType /\ WorkAgrees
  BY DEF SynthesisInv
<1>5. Holds(p)
  BY DEF Holds
<1>6. /\ op = NextOperation(work[p].seen) /\ op # Nothing
      /\ op \in DOMAIN ledger[run] /\ ledger[run][op] = Pending
  BY <1>1, <1>2, <1>4, <1>5 DEF WorkAgrees
<1>7. /\ DOMAIN work' = Processes /\ \A q \in Processes \ {p} : work'[q] = work[q]
      /\ DOMAIN work'[p] = Fields /\ work'[p].pc = "deciding" /\ work'[p].run = run
      /\ work'[p].seen = With(work[p].seen, op, outcome)
  BY <1>1, <1>2, <1>3, <1>4 DEF SynthesisType, Fields
<1>8. /\ DOMAIN ledger' = Runs
      /\ ledger'[run] = [ledger[run] EXCEPT ![op] = Done(outcome)]
      /\ \A other \in Runs \ {run} : ledger'[other] = ledger[other]
  BY <1>1, <1>2, <1>3, <1>4 DEF SynthesisType
<1>9. /\ DOMAIN ledger'[run] = DOMAIN ledger[run]
      /\ ledger'[run] = [x \in DOMAIN ledger'[run] |-> ledger'[run][x]]
      /\ \A x \in DOMAIN ledger[run] \ {op} : ledger'[run][x] = ledger[run][x]
  BY <1>8
<1>10. SynthesisType'
  <2>1. ASSUME NEW r \in Runs
        PROVE  /\ ledger'[r] = [x \in DOMAIN ledger'[r] |-> ledger'[r][x]]
               /\ IsFiniteSet(DOMAIN ledger'[r])
               /\ calls'[r] \in Seq(DOMAIN ledger'[r])
    <3>1. /\ ledger[r] = [x \in DOMAIN ledger[r] |-> ledger[r][x]]
          /\ IsFiniteSet(DOMAIN ledger[r])
          /\ calls[r] \in Seq(DOMAIN ledger[r])
      BY <1>4 DEF SynthesisType
    <3>2. CASE r = run
      BY <3>1, <3>2, <1>9
    <3>3. CASE r # run
      <4>1. ledger'[r] = ledger[r]
        BY <3>3, <1>8
      <4>2. QED
        BY <3>1, <4>1
    <3>4. QED
      BY <3>2, <3>3
  <2>2. QED
    BY <2>1, <1>4, <1>7, <1>8 DEF SynthesisType, Steps
<1>11. RunsFollowCourses'
  <2>1. SUFFICES ASSUME NEW other \in Runs
                 PROVE  \E n \in Nat : \E c : OnCourse(other, c, n)'
    BY DEF RunsFollowCourses
  <2>2. CASE other # run
    BY <2>2, <1>7, <1>8, OthersFollow
  <2>3. CASE other = run
    <3>1. PICK n \in Nat : \E c : OnCourse(run, c, n)
      BY DEF SynthesisInv, RunsFollowCourses
    <3>2. PICK c : OnCourse(run, c, n)
      BY <3>1
    <3>3. PICK k \in 0 .. n : work[p].seen = c[k]
      BY <1>1, <3>2 DEF OnCourse
    <3>4. PICK L : L = ledger[run]
      OBVIOUS
    <3>5. IsCourse(c, n, L)
      BY <3>2, <3>4 DEF OnCourse
    <3>6. NextOperation(c[k]) = op
      BY <3>3, <1>6
    <3>7. PICK d : /\ IsCourse(d, n + 1, [L EXCEPT ![NextOperation(c[k])] = Done(outcome)])
                   /\ \A i \in 0 .. n : d[i] = c[i]
                   /\ d[n + 1] = With(c[k], NextOperation(c[k]), outcome)
      BY <3>4, <3>5, <3>6, <1>6, CourseSettles
    <3>8. IsCourse(d, n + 1, ledger'[run])
      BY <3>4, <3>6, <3>7, <1>8
    <3>9. \A k1 \in 0 .. n : k1 \in 0 .. n + 1 /\ c[k1] = d[k1]
      BY <3>7
    <3>10. ASSUME NEW q \in Processes, work'[q].pc # "idle", work'[q].run = run
           PROVE  \E j \in 0 .. n + 1 : work'[q].seen = d[j]
      <4>1. CASE q = p
        BY <4>1, <3>3, <3>6, <3>7, <1>7
      <4>2. CASE q # p
        <5>1. PICK j \in 0 .. n : work[q].seen = c[j]
          BY <3>2, <3>10, <4>2, <1>7 DEF OnCourse
        <5>2. QED
          BY <3>9, <4>2, <5>1, <1>7
      <4>3. QED
        BY <4>1, <4>2
    <3>11. ASSUME NEW r \in research'[run]
           PROVE  \E j \in 0 .. n + 1 : r.seen = d[j]
      <4>1. PICK j \in 0 .. n : r.seen = c[j]
        BY <3>2, <3>11 DEF OnCourse
      <4>2. QED
        BY <3>9, <4>1
    <3>12. OnCourse(run, d, n + 1)'
      BY <3>8, <3>10, <3>11 DEF OnCourse
    <3>13. n + 1 \in Nat
      OBVIOUS
    <3>14. QED
      BY <2>3, <3>12, <3>13
  <2>4. QED
    BY <2>2, <2>3
<1>12. WorkAgrees'
  <2>1. ~Holds(p)' /\ \A q \in Processes \ {p} : Holds(q)' <=> Holds(q)
    BY <1>7 DEF Holds
  <2>2. \A q \in Processes \ {p} : Holds(q) /\ work[q].run = run => work[q].op # op
    BY <1>1, <1>2, <1>4, <1>5 DEF WorkAgrees
  <2>3. \A q, r \in Processes :
          Holds(q)' /\ Holds(r)' /\ work'[q].run = work'[r].run /\ work'[q].op = work'[r].op
            => q = r
    BY <2>1, <1>4, <1>7 DEF WorkAgrees
  <2>4. ASSUME NEW q \in Processes, Holds(q)'
        PROVE  /\ work'[q].op \in DOMAIN ledger'[work'[q].run]
               /\ ledger'[work'[q].run][work'[q].op] = Pending
    <3>1. q # p /\ Holds(q) /\ work'[q] = work[q] /\ work[q].run \in Runs
      BY <2>1, <2>4, <1>4, <1>7 DEF WorkAgrees, Holds
    <3>2. /\ work[q].op \in DOMAIN ledger[work[q].run]
          /\ ledger[work[q].run][work[q].op] = Pending
      BY <3>1, <1>4 DEF WorkAgrees
    <3>3. CASE work[q].run = run
      <4>1. work[q].op # op
        BY <3>1, <3>3, <2>2
      <4>2. QED
        BY <3>1, <3>2, <3>3, <4>1, <1>9
    <3>4. CASE work[q].run # run
      <4>1. ledger'[work[q].run] = ledger[work[q].run]
        BY <3>1, <3>4, <1>8
      <4>2. QED
        BY <3>1, <3>2, <4>1
    <3>5. QED
      BY <3>3, <3>4
  <2>5. ASSUME NEW q \in Processes
        PROVE  /\ work'[q].pc # "idle" => work'[q].run \in Runs
               /\ work'[q].pc \in {"reserving", "calling", "settling"} =>
                    work'[q].op = NextOperation(work'[q].seen) /\ work'[q].op # Nothing
               /\ work'[q].pc = "calling" =>
                    \A i \in DOMAIN calls'[work'[q].run] : calls'[work'[q].run][i] # work'[q].op
    <3>1. CASE q = p
      BY <3>1, <1>7
    <3>2. CASE q # p
      BY <3>2, <1>4, <1>7 DEF WorkAgrees
    <3>3. QED
      BY <3>1, <3>2
  <2>6. QED
    BY <2>3, <2>4, <2>5 DEF WorkAgrees
<1>13. CalledOnce'
  BY DEF SynthesisInv, CalledOnce
<1>14. WithinLimit'
  <2>1. ASSUME NEW other \in Runs
        PROVE  DOMAIN ledger'[other] = DOMAIN ledger[other]
    BY <1>8, <1>9
  <2>2. QED
    BY <2>1 DEF SynthesisInv, WithinLimit, Charged
<1>15. \A r \in Runs : \A result \in research'[r] : ResultAgrees(result, r)
  BY DEF SynthesisInv
<1>16. QED
  BY <1>10, <1>11, <1>12, <1>13, <1>14, <1>15 DEF SynthesisInv

\* What is reserved is the next operation of the course.
LEMMA ReserveKeeps ==
  ASSUME SynthesisInv, NEW p \in Processes, Reserve(p)
  PROVE  SynthesisInv'
<1> DEFINE run == work[p].run
           op == work[p].op
           verdict == Reservation(p, op)
<1>1. work[p].pc = "reserving" /\ UNCHANGED <<budget, research, calls>>
  BY DEF Reserve, WorkAt
<1>2. CASE op \in DOMAIN ledger[run] /\ ledger[run][op].settled = TRUE
  <2>1. verdict = <<"recovered", ledger[run][op].result>>
    BY <1>2 DEF Reservation
  <2>2. UNCHANGED ledger /\ work' = [work EXCEPT ![p].pc = "deciding",
                                       ![p].seen = With(@, op, ledger[run][op].result)]
    BY <2>1 DEF Reserve
  <2>3. QED
    BY <1>1, <1>2, <2>2, RecoverKeeps
<1>3. CASE op \in DOMAIN ledger[run] /\ ledger[run][op].settled # TRUE
  <2>1. verdict = <<"unresolved">>
    BY <1>3 DEF Reservation
  <2>2. UNCHANGED ledger /\ work' = [work EXCEPT ![p] = NoWork]
    BY <2>1 DEF Reserve
  <2>3. QED
    BY <1>1, <2>2, StopKeeps
<1>4. CASE op \notin DOMAIN ledger[run] /\ Admitted(p, op)
  <2>1. verdict = <<"granted">>
    BY <1>4 DEF Reservation
  <2>2. /\ ledger' = [ledger EXCEPT ![run] = With(@, op, Pending)]
        /\ work' = [work EXCEPT ![p].pc = "calling"]
    BY <2>1 DEF Reserve, WorkGo
  <2>3. QED
    BY <1>1, <1>4, <2>2, GrantKeeps
<1>5. CASE op \notin DOMAIN ledger[run] /\ ~Admitted(p, op)
  <2>1. verdict = <<"refused">>
    BY <1>5 DEF Reservation
  <2>2. UNCHANGED ledger /\ work' = [work EXCEPT ![p].pc = "stopped"]
    BY <2>1 DEF Reserve, WorkGo
  <2>3. QED
    BY <1>1, <2>2, StopKeeps
<1>6. QED
  BY <1>2, <1>3, <1>4, <1>5

\* Every step of a command.
LEMMA WorkKeeps ==
  ASSUME SynthesisInv, NEW p \in Processes, Work(p)
  PROVE  SynthesisInv'
<1>1. CASE SettleOperation(p)
  <2>1. work[p].pc = "settling" /\ UNCHANGED <<calls, budget, research>>
    BY <1>1 DEF SettleOperation, WorkAt
  <2>2. CASE p \in behind
    BY <1>1, <2>1, <2>2, StopKeeps DEF SettleOperation, WorkGo
  <2>3. CASE p \notin behind
    BY <1>1, <2>1, <2>3, SettleKeeps DEF SettleOperation
  <2>4. QED
    BY <2>2, <2>3
<1>2. QED
  BY <1>1, ReadClockKeeps, ReserveKeeps, CallKeeps, PublishKeeps DEF Work

\* Every step of commands and budgets.
LEMMA SynthesisNext == SynthesisInv /\ [NextSynthesis]_synthesisVars => SynthesisInv'
<1> SUFFICES ASSUME SynthesisInv, [NextSynthesis]_synthesisVars PROVE SynthesisInv'
  OBVIOUS
<1>1. ASSUME NEW p \in Processes, Work(p) PROVE SynthesisInv'
  BY <1>1, WorkKeeps
<1>2. ASSUME NEW p \in Processes, StopCommand(p) PROVE SynthesisInv'
  BY <1>2, StopKeeps DEF StopCommand
<1>3. ASSUME NEW p \in Processes, NEW run \in Runs, StartCommand(p, run) PROVE SynthesisInv'
  BY <1>3, StartKeeps
<1>4. ASSUME NEW run \in Runs, ExpireBudget(run) PROVE SynthesisInv'
  BY <1>4, ExpireKeeps
<1>5. CASE UNCHANGED synthesisVars
  BY <1>5 DEF synthesisVars, SynthesisInv, SynthesisType, RunsFollowCourses, OnCourse, WorkAgrees,
              Holds, CalledOnce, WithinLimit, Charged
<1>6. QED
  BY <1>1, <1>2, <1>3, <1>4, <1>5 DEF NextSynthesis

\* What has been seen of a run, whoever publishes it, agrees.
LEMMA CoursesAgree == SynthesisInv => ResultsAgree
<1> SUFFICES ASSUME SynthesisInv, NEW run \in Runs
             PROVE  /\ \A i, j \in DOMAIN calls[run] : calls[run][i] = calls[run][j] => i = j
                    /\ \A r \in research[run] :
                         /\ \A op \in DOMAIN r.seen :
                              op \in DOMAIN r.budget /\ r.budget[op] = Done(r.seen[op])
                         /\ r.status # "budget_stopped" => Trajectory(r).pending = 0
                    /\ \A r, s \in research[run] :
                         /\ \A op \in DOMAIN r.seen \cap DOMAIN s.seen : r.seen[op] = s.seen[op]
                         /\ "budget_stopped" \notin {r.status, s.status} => r = s
  BY DEF ResultsAgree
<1>1. \A i, j \in DOMAIN calls[run] : calls[run][i] = calls[run][j] => i = j
  BY DEF SynthesisInv, CalledOnce
<1>2. \A r \in research[run] : ResultAgrees(r, run)
  BY DEF SynthesisInv
<1>3. ASSUME NEW r \in research[run], r.status # "budget_stopped"
      PROVE  Trajectory(r).pending = 0
  <2>1. r.budget = SettledAs(r.seen)
    BY <1>2, <1>3 DEF ResultAgrees
  <2>2. \A op \in DOMAIN r.budget : r.budget[op].settled = TRUE
    BY <2>1, RowsDiffer DEF SettledAs
  <2>3. {op \in DOMAIN r.budget : ~r.budget[op].settled} = {}
    BY <2>2
  <2>4. QED
    BY <2>3, FS_EmptySet DEF Trajectory
<1>4. PICK n \in Nat : \E c : OnCourse(run, c, n)
  BY DEF SynthesisInv, RunsFollowCourses
<1>5. PICK c : OnCourse(run, c, n)
  BY <1>4
<1>6. ASSUME NEW r \in research[run], NEW s \in research[run],
             NEW op \in DOMAIN r.seen \cap DOMAIN s.seen
      PROVE  r.seen[op] = s.seen[op]
  <2>1. PICK i \in 0 .. n : r.seen = c[i]
    BY <1>5 DEF OnCourse
  <2>2. PICK j \in 0 .. n : s.seen = c[j]
    BY <1>5 DEF OnCourse
  <2>3. ledger[run][op] = Done(c[i][op]) /\ ledger[run][op] = Done(c[j][op])
    BY <1>5, <2>1, <2>2 DEF OnCourse, IsCourse
  <2>4. QED
    BY <2>1, <2>2, <2>3, RowsDiffer
<1>7. ASSUME NEW r \in research[run], NEW s \in research[run],
             r.status # "budget_stopped", s.status # "budget_stopped"
      PROVE  r = s
  <2>1. PICK i \in 0 .. n : r.seen = c[i]
    BY <1>5 DEF OnCourse
  <2>2. PICK j \in 0 .. n : s.seen = c[j]
    BY <1>5 DEF OnCourse
  <2>3. NextOperation(c[i]) = Nothing /\ NextOperation(c[j]) = Nothing
    BY <1>2, <1>7, <2>1, <2>2 DEF ResultAgrees
  <2>4. i = n /\ j = n
    <3>1. \A k \in 0 .. n - 1 : NextOperation(c[k]) # Nothing
      BY <1>5 DEF OnCourse, IsCourse
    <3>2. i \notin 0 .. n - 1 /\ j \notin 0 .. n - 1
      BY <2>3, <3>1
    <3>3. QED
      BY <3>2
  <2>5. r.seen = s.seen
    BY <2>1, <2>2, <2>4
  <2>6. r.run = s.run /\ r.status = s.status /\ r.budget = s.budget
    BY <1>2, <1>7, <2>5 DEF ResultAgrees
  <2>7. QED
    BY <1>2, <2>5, <2>6 DEF ResultAgrees
<1>8. QED
  BY <1>1, <1>2, <1>3, <1>6, <1>7 DEF ResultAgrees

\* Commands of one run, any number of them at the same time, call every operation once at most, and
\* the results they publish agree with each other and with the ledger, however late each was
\* published (orchestration/synthesis_command.py:96-199).
THEOREM ResultsAlwaysAgree == SynthesisSpec => []ResultsAgree
<1>1. SynthesisSpec => []SynthesisInv
  BY SynthesisInit, SynthesisNext, PTL DEF SynthesisSpec
<1>2. QED
  BY <1>1, CoursesAgree, PTL

-----------------------------------------------------------------------------
(* The batch around the commands. *)

IsSequence(s) == s \in Seq({s[i] : i \in DOMAIN s})

\* A sequence that gains one element.
LEMMA SequenceGains ==
  ASSUME NEW s, IsSequence(s), NEW e
  PROVE  /\ IsSequence(Append(s, e))
         /\ Len(s) \in Nat /\ DOMAIN s = 1 .. Len(s)
         /\ DOMAIN Append(s, e) = 1 .. Len(s) + 1
         /\ Append(s, e)[Len(s) + 1] = e
         /\ \A i \in 1 .. Len(s) : Append(s, e)[i] = s[i]
<1> DEFINE S == {s[i] : i \in DOMAIN s}
           t == Append(s, e)
<1>1. s \in Seq(S) /\ s \in Seq(S \cup {e})
  BY DEF IsSequence
<1> HIDE DEF S
<1>2. /\ Len(s) \in Nat /\ DOMAIN s = 1 .. Len(s)
      /\ t \in Seq(S \cup {e}) /\ Len(t) = Len(s) + 1 /\ DOMAIN t = 1 .. Len(s) + 1
      /\ t[Len(s) + 1] = e /\ \A i \in 1 .. Len(s) : t[i] = s[i]
  BY <1>1
<1>3. \A i \in 1 .. Len(s) + 1 : t[i] \in {t[j] : j \in DOMAIN t}
  BY <1>2
<1>4. t \in Seq({t[j] : j \in DOMAIN t})
  BY <1>2, <1>3
<1>5. QED
  BY <1>2, <1>4 DEF IsSequence

BatchFields == {"pc", "case", "returned", "results", "ceiling"}

BatchPlaces == {"idle", "refused", "dispatching", "executing", "waiting", "returned", "submitted",
                "halted"}

BatchType ==
  /\ DOMAIN batch = BatchFields
  /\ batch.pc \in BatchPlaces
  /\ batch.case \in 1 .. Len(Cases) + 1
  /\ batch.ceiling \in Ceilings
  /\ IsSequence(journal)

IsVerdict(i) == journal[i].event \in {"case_recorded", "case_unsettled"}

\* The cases before the current one have one verdict each, the others none; a verdict names at most
\* one result, of its run, and these are the results that are submitted.
JournalAgrees ==
  /\ \A i \in DOMAIN journal :
       /\ journal[i].case \in 1 .. Len(Cases) + 1 /\ journal[i].case <= batch.case
       /\ IsVerdict(i) =>
            /\ journal[i].case < batch.case
            /\ \A r, s \in journal[i].result : r = s
            /\ \A r \in journal[i].result :
                 /\ r \in research[Cases[journal[i].case]]
                 /\ <<Cases[journal[i].case], r>> \in batch.results
            /\ journal[i].event = "case_recorded" => journal[i].result # {}
  /\ \A case \in DOMAIN Cases :
       case < batch.case => \E i \in DOMAIN journal : IsVerdict(i) /\ journal[i].case = case
  /\ \A i, j \in DOMAIN journal :
       IsVerdict(i) /\ IsVerdict(j) /\ journal[i].case = journal[j].case => i = j
  /\ \A x \in batch.results :
       \E i \in DOMAIN journal : \E r \in journal[i].result :
         IsVerdict(i) /\ x = <<Cases[journal[i].case], r>>

IsDispatched(case) ==
  \E i \in DOMAIN journal : journal[i].event = "case_dispatch" /\ journal[i].case = case

\* What the place of the controller says: a case is dispatched before its worker is called, the
\* worker is at work while the controller waits, and what it returned is its result.
ControllerAgrees ==
  /\ batch.pc \in {"idle", "refused"} => journal = <<>>
  /\ batch.pc \in {"executing", "waiting", "returned"} =>
       batch.case \in DOMAIN Cases /\ IsDispatched(batch.case)
  /\ work[Controller].pc # "idle" =>
       batch.pc = "waiting" /\ work[Controller].run = Cases[batch.case]
  /\ batch.returned # {} => batch.pc = "returned"
  /\ \A r \in batch.returned : r \in research[Cases[batch.case]]
  /\ \A r, s \in batch.returned : r = s

\* Only runs of dispatched cases have been touched.
TouchedAreDispatched ==
  \A run \in Runs :
    ledger[run] # NoLedger \/ calls[run] # <<>> =>
      \E case \in DOMAIN Cases : Cases[case] = run /\ IsDispatched(case)

\* The limits of all cases together are authorized.
LimitsAreAuthorized ==
  batch.pc \notin {"idle", "refused"} =>
    SumFunction([i \in DOMAIN Cases |-> budget[Cases[i]].limit]) <= batch.ceiling

BatchInv ==
  /\ SynthesisInv
  /\ BatchType
  /\ JournalAgrees
  /\ ControllerAgrees
  /\ TouchedAreDispatched
  /\ LimitsAreAuthorized

\* Before a batch nothing is journaled.
LEMMA BatchInit == InitBatch => BatchInv
<1> SUFFICES ASSUME InitBatch PROVE BatchInv
  OBVIOUS
<1>1. SynthesisInv
  BY SynthesisInit DEF InitBatch
<1>2. /\ DOMAIN batch = BatchFields /\ batch.pc = "idle" /\ batch.case = 1
      /\ batch.returned = {} /\ batch.results = {} /\ batch.ceiling \in Ceilings
      /\ journal = <<>>
  BY DEF InitBatch, BatchFields
<1>3. Len(Cases) \in Nat
  BY BatchAssumption
<1>4. DOMAIN journal = {} /\ IsSequence(journal)
  BY <1>2 DEF IsSequence
<1>5. BatchType
  BY <1>2, <1>3, <1>4 DEF BatchType, BatchPlaces
<1>6. JournalAgrees
  <2>1. \A case \in DOMAIN Cases : ~ (case < batch.case)
    BY <1>2, BatchAssumption
  <2>2. QED
    BY <1>2, <1>4, <2>1 DEF JournalAgrees
<1>7. \A p \in Processes : work[p].pc = "idle"
  BY DEF InitBatch, InitSynthesis, NoWork
<1>8. ControllerAgrees
  BY <1>2, <1>7, BatchAssumption DEF ControllerAgrees
<1>9. TouchedAreDispatched
  BY DEF InitBatch, InitSynthesis, TouchedAreDispatched
<1>10. LimitsAreAuthorized
  BY <1>2 DEF LimitsAreAuthorized
<1>11. QED
  BY <1>1, <1>5, <1>6, <1>8, <1>9, <1>10 DEF BatchInv

\* What is published stays published.
ResearchGrows == \A run \in Runs : research[run] \subseteq research'[run]

\* A verdict is about a case of the suite that is over.
LEMMA VerdictsNameCases ==
  ASSUME BatchInv, NEW i \in DOMAIN journal, IsVerdict(i)
  PROVE  journal[i].case \in DOMAIN Cases /\ Cases[journal[i].case] \in Runs
<1>1. JournalAgrees /\ BatchType
  BY DEF BatchInv
<1>2. journal[i].case \in 1 .. Len(Cases) + 1 /\ journal[i].case < batch.case
  BY <1>1 DEF JournalAgrees
<1>3. batch.case \in 1 .. Len(Cases) + 1
  BY <1>1 DEF BatchType
<1>4. Len(Cases) \in Nat
  BY BatchAssumption
<1>5. journal[i].case \in 1 .. Len(Cases)
  BY <1>2, <1>3, <1>4
<1>6. QED
  BY <1>5, BatchAssumption

\* The controller moves and leaves journal and collection alone.
LEMMA ControllerMoves ==
  ASSUME BatchInv, UNCHANGED journal, ResearchGrows,
         DOMAIN batch' = BatchFields, batch'.pc \in BatchPlaces, batch'.case = batch.case,
         batch'.results = batch.results, batch'.ceiling = batch.ceiling
  PROVE  BatchType' /\ JournalAgrees' /\ \A case : IsDispatched(case)' <=> IsDispatched(case)
<1>2. BatchType'
  BY DEF BatchInv, BatchType
<1>3. \A i \in DOMAIN journal : IsVerdict(i)' <=> IsVerdict(i)
  BY DEF IsVerdict
<1>4. \A i \in DOMAIN journal : IsVerdict(i) => Cases[journal[i].case] \in Runs
  BY VerdictsNameCases
<1>5. JournalAgrees
  BY DEF BatchInv
<1>6. JournalAgrees'
  BY <1>3, <1>4, <1>5 DEF JournalAgrees, ResearchGrows
<1>7. QED
  BY <1>2, <1>6 DEF IsDispatched

\* An entry that is not a verdict, with a move of the controller.
LEMMA EntryKeeps ==
  ASSUME BatchInv, UNCHANGED synthesisVars, NEW pc \in BatchPlaces, NEW event,
         event \notin {"case_recorded", "case_unsettled"},
         Journal(event, {}), batch' = [batch EXCEPT !.pc = pc]
  PROVE  /\ BatchType' /\ JournalAgrees'
         /\ batch'.pc = pc /\ batch'.returned = batch.returned /\ batch'.case = batch.case
         /\ batch'.ceiling = batch.ceiling
         /\ \A case : IsDispatched(case) => IsDispatched(case)'
         /\ event = "case_dispatch" => IsDispatched(batch.case)'
<1> DEFINE n == Len(journal) + 1
           entry == [event |-> event, case |-> batch.case, result |-> {}]
<1>1. /\ DOMAIN batch' = BatchFields /\ batch'.pc = pc /\ batch'.returned = batch.returned
      /\ batch'.case = batch.case /\ batch'.results = batch.results
      /\ batch'.ceiling = batch.ceiling
  BY DEF BatchInv, BatchType, BatchFields
<1>2. BatchType /\ JournalAgrees
  BY DEF BatchInv
<1>3. journal' = Append(journal, entry) /\ IsSequence(journal)
  BY <1>2 DEF Journal, BatchType
<1>4. /\ IsSequence(journal') /\ Len(journal) \in Nat /\ DOMAIN journal = 1 .. Len(journal)
      /\ DOMAIN journal' = 1 .. Len(journal) + 1 /\ journal'[Len(journal) + 1] = entry
      /\ \A i \in 1 .. Len(journal) : journal'[i] = journal[i]
  BY <1>3, SequenceGains
<1>5. /\ DOMAIN journal' = DOMAIN journal \cup {n} /\ n \notin DOMAIN journal
      /\ journal'[n] = entry
      /\ \A i \in DOMAIN journal : journal'[i] = journal[i]
  BY <1>4
<1> HIDE DEF n
<1>6. entry.event = event /\ entry.case = batch.case /\ entry.result = {}
  OBVIOUS
<1> HIDE DEF entry
<1>7. BatchType'
  BY <1>1, <1>2, <1>4 DEF BatchType
<1>8. ASSUME NEW i \in DOMAIN journal'
      PROVE  /\ IsVerdict(i)' => i \in DOMAIN journal
             /\ i \in DOMAIN journal => (IsVerdict(i)' <=> IsVerdict(i))
  <2>1. CASE i = n
    <3>1. journal'[i].event = event
      BY <2>1, <1>5, <1>6
    <3>2. QED
      BY <2>1, <3>1, <1>5 DEF IsVerdict
  <2>2. CASE i \in DOMAIN journal
    BY <2>2, <1>5 DEF IsVerdict
  <2>3. QED
    BY <2>1, <2>2, <1>5
<1>9. research' = research
  BY DEF synthesisVars
<1>10. JournalAgrees'
  <2>1. ASSUME NEW i \in DOMAIN journal'
        PROVE  journal'[i].case \in 1 .. Len(Cases) + 1 /\ journal'[i].case <= batch'.case
    <3>1. CASE i = n
      <4>1. batch.case \in 1 .. Len(Cases) + 1 /\ Len(Cases) \in Nat
        BY <1>2, BatchAssumption DEF BatchType
      <4>2. batch.case <= batch.case
        BY <4>1
      <4>3. QED
        BY <3>1, <4>1, <4>2, <1>1, <1>5, <1>6
    <3>2. CASE i \in DOMAIN journal
      BY <3>2, <1>1, <1>2, <1>5 DEF JournalAgrees
    <3>3. QED
      BY <3>1, <3>2, <1>5
  <2>2. ASSUME NEW i \in DOMAIN journal', IsVerdict(i)'
        PROVE  i \in DOMAIN journal /\ IsVerdict(i) /\ journal'[i] = journal[i]
    BY <2>2, <1>5, <1>8
  <2>3. ASSUME NEW i \in DOMAIN journal', IsVerdict(i)'
        PROVE  /\ journal'[i].case < batch'.case
               /\ \A r, s \in journal'[i].result : r = s
               /\ \A r \in journal'[i].result :
                    /\ r \in research'[Cases[journal'[i].case]]
                    /\ <<Cases[journal'[i].case], r>> \in batch'.results
               /\ journal'[i].event = "case_recorded" => journal'[i].result # {}
    BY <2>2, <2>3, <1>1, <1>2, <1>9 DEF JournalAgrees
  <2>4. ASSUME NEW case \in DOMAIN Cases, case < batch'.case
        PROVE  \E i \in DOMAIN journal' : IsVerdict(i)' /\ journal'[i].case = case
    <3>1. PICK i \in DOMAIN journal : IsVerdict(i) /\ journal[i].case = case
      BY <2>4, <1>1, <1>2 DEF JournalAgrees
    <3>2. QED
      BY <3>1, <1>5, <1>8
  <2>5. ASSUME NEW i \in DOMAIN journal', NEW j \in DOMAIN journal', IsVerdict(i)', IsVerdict(j)',
               journal'[i].case = journal'[j].case
        PROVE  i = j
    BY <2>2, <2>5, <1>2 DEF JournalAgrees
  <2>6. ASSUME NEW x \in batch'.results
        PROVE  \E i \in DOMAIN journal' : \E r \in journal'[i].result :
                 IsVerdict(i)' /\ x = <<Cases[journal'[i].case], r>>
    <3>1. PICK i \in DOMAIN journal : \E r \in journal[i].result :
                 IsVerdict(i) /\ x = <<Cases[journal[i].case], r>>
      BY <2>6, <1>1, <1>2 DEF JournalAgrees
    <3>2. QED
      BY <3>1, <1>5, <1>8
  <2>7. QED
    BY <2>1, <2>3, <2>4, <2>5, <2>6 DEF JournalAgrees
<1>11. \A case : IsDispatched(case) => IsDispatched(case)'
  BY <1>5 DEF IsDispatched
<1>12. event = "case_dispatch" => IsDispatched(batch.case)'
  BY <1>5, <1>6 DEF IsDispatched
<1>13. QED
  BY <1>1, <1>7, <1>10, <1>11, <1>12

\* What a step of a worker may change.
LEMMA WorkMoves ==
  ASSUME SynthesisInv, NEW p \in Processes, Work(p)
  PROVE  /\ work[p].pc # "idle" /\ work[p].run \in Runs
         /\ work'[p] = NoWork \/ (work'[p].pc # "idle" /\ work'[p].run = work[p].run)
         /\ UNCHANGED budget
         /\ \A run \in Runs \ {work[p].run} :
              ledger'[run] = ledger[run] /\ calls'[run] = calls[run]
         /\ ResearchGrows
         /\ research' = research \/ Result(p, WorkAt(p, "stopped")) \in research'[work[p].run]
<1>1. SynthesisType
  BY DEF SynthesisInv
<1>2. work[p].pc # "idle"
  BY DEF Work, ReadClock, Reserve, CallOperation, SettleOperation, PublishResearch, WorkAt
<1>3. work[p].run \in Runs
  BY <1>2 DEF SynthesisInv, WorkAgrees
<1>4. DOMAIN work = Processes /\ DOMAIN work[p] = Fields
  BY <1>1 DEF SynthesisType
<1>5. CASE ReadClock(p)
  <2>1. work'[p].pc = "reserving" /\ work'[p].run = work[p].run
    BY <1>4, <1>5 DEF ReadClock, Fields
  <2>2. UNCHANGED <<budget, ledger, calls, research>>
    BY <1>5 DEF ReadClock
  <2>3. QED
    BY <1>2, <1>3, <2>1, <2>2 DEF ResearchGrows
<1>6. CASE Reserve(p)
  <2>1. UNCHANGED <<budget, calls, research>>
    BY <1>6 DEF Reserve
  <2>2. \/ work'[p] = NoWork
        \/ work'[p].pc \in {"calling", "deciding", "stopped"} /\ work'[p].run = work[p].run
    <3>1. PICK verdict : verdict = Reservation(p, work[p].op)
      OBVIOUS
    <3>2. verdict[1] \in {"granted", "recovered", "refused", "unresolved"}
      BY <3>1 DEF Reservation
    <3>3. CASE verdict[1] = "granted"
      <4>1. work' = [work EXCEPT ![p].pc = "calling"]
        BY <1>6, <3>1, <3>3 DEF Reserve, WorkGo
      <4>2. QED
        BY <1>4, <4>1 DEF Fields
    <3>4. CASE verdict[1] = "recovered"
      <4>1. work' = [work EXCEPT ![p].pc = "deciding", ![p].seen = With(@, work[p].op, verdict[2])]
        BY <1>6, <3>1, <3>4 DEF Reserve
      <4>2. QED
        BY <1>4, <4>1 DEF Fields
    <3>5. CASE verdict[1] = "refused"
      <4>1. work' = [work EXCEPT ![p].pc = "stopped"]
        BY <1>6, <3>1, <3>5 DEF Reserve, WorkGo
      <4>2. QED
        BY <1>4, <4>1 DEF Fields
    <3>6. CASE verdict[1] = "unresolved"
      <4>1. work' = [work EXCEPT ![p] = NoWork]
        BY <1>6, <3>1, <3>6 DEF Reserve
      <4>2. QED
        BY <1>4, <4>1
    <3>7. QED
      BY <3>2, <3>3, <3>4, <3>5, <3>6
  <2>3. \A run \in Runs \ {work[p].run} : ledger'[run] = ledger[run]
    BY <1>1, <1>6 DEF Reserve, Reservation, SynthesisType
  <2>4. QED
    BY <1>2, <1>3, <2>1, <2>2, <2>3 DEF ResearchGrows
<1>7. CASE CallOperation(p)
  <2>1. UNCHANGED <<budget, ledger, research>>
    BY <1>7 DEF CallOperation
  <2>2. work'[p].pc = "settling" /\ work'[p].run = work[p].run
    BY <1>4, <1>7 DEF CallOperation, Fields
  <2>3. \A run \in Runs \ {work[p].run} : calls'[run] = calls[run]
    BY <1>1, <1>7 DEF CallOperation, SynthesisType
  <2>4. QED
    BY <1>2, <1>3, <2>1, <2>2, <2>3 DEF ResearchGrows
<1>8. CASE SettleOperation(p)
  <2>1. UNCHANGED <<budget, calls, research>>
    BY <1>8 DEF SettleOperation
  <2>2. work'[p].pc \in {"deciding", "stopped"} /\ work'[p].run = work[p].run
    BY <1>4, <1>8 DEF SettleOperation, WorkGo, Fields
  <2>3. \A run \in Runs \ {work[p].run} : ledger'[run] = ledger[run]
    BY <1>1, <1>8 DEF SettleOperation, SynthesisType
  <2>4. QED
    BY <1>2, <1>3, <2>1, <2>2, <2>3 DEF ResearchGrows
<1>9. CASE PublishResearch(p)
  <2>1. UNCHANGED <<budget, ledger, calls>> /\ work'[p] = NoWork
    BY <1>4, <1>9 DEF PublishResearch
  <2>2. research' = [research EXCEPT ![work[p].run] = @ \cup {Result(p, WorkAt(p, "stopped"))}]
    BY <1>9 DEF PublishResearch
  <2>3. PICK result : result = Result(p, WorkAt(p, "stopped"))
    OBVIOUS
  <2>4. /\ result \in research'[work[p].run]
        /\ \A run \in Runs : research[run] \subseteq research'[run]
    BY <1>1, <1>3, <2>2, <2>3 DEF SynthesisType
  <2>5. QED
    BY <1>2, <1>3, <2>1, <2>3, <2>4 DEF ResearchGrows
<1>10. QED
  BY <1>5, <1>6, <1>7, <1>8, <1>9 DEF Work

-----------------------------------------------------------------------------
(* Steps of the batch. *)

\* A step of NextBatch is a step of the commands, or none.
LEMMA BatchStepsAreCommands == BatchInv /\ [NextBatch]_batchVars => SynthesisInv'
<1> SUFFICES ASSUME BatchInv, [NextBatch]_batchVars PROVE SynthesisInv'
  OBVIOUS
<1>0. SynthesisInv /\ Controller \in Processes
  BY BatchAssumption DEF BatchInv
<1>1. CASE UNCHANGED synthesisVars
  BY <1>0, <1>1, SynthesisNext
<1>2. CASE Work(Controller)
  BY <1>0, <1>2, WorkKeeps
<1>3. CASE StopCommand(Controller)
  BY <1>0, <1>3, StopKeeps DEF StopCommand
<1>4. CASE \E run \in Runs : StartCommand(Controller, run)
  BY <1>0, <1>4, StartKeeps
<1>5. CASE \E run \in Runs : ExpireBudget(run)
  BY <1>0, <1>5, ExpireKeeps
<1>6. batch.pc \in {"executing", "waiting"} => Cases[batch.case] \in Runs
  <2>1. batch.pc \in {"executing", "waiting"} => batch.case \in DOMAIN Cases
    BY DEF BatchInv, ControllerAgrees
  <2>2. QED
    BY <2>1, BatchAssumption
<1>7. CASE NextBatch
  <2>1. CASE BeginBatch \/ DispatchCase \/ RecordCase \/ FinishBatch
             \/ (\E run \in Runs : DamageEvidence(run))
    BY <2>1, <1>1 DEF BeginBatch, DispatchCase, RecordCase, FinishBatch, DamageEvidence
  <2>2. CASE ExecuteCase
    BY <2>2, <1>1, <1>4, <1>6 DEF ExecuteCase, BatchAt
  <2>3. CASE WorkerStep
    BY <2>3, <1>2, <1>3 DEF WorkerStep
  <2>4. CASE StopBatch
    BY <2>4, <1>1, <1>3 DEF StopBatch
  <2>5. CASE BatchAt("waiting") /\ ExpireBudget(Cases[batch.case])
    BY <2>5, <1>5, <1>6 DEF BatchAt
  <2>6. QED
    BY <1>7, <2>1, <2>2, <2>3, <2>4, <2>5 DEF NextBatch
<1>8. CASE UNCHANGED batchVars
  BY <1>1, <1>8 DEF batchVars
<1>9. QED
  BY <1>7, <1>8

\* A batch begins with an empty journal.
LEMMA BeginKeeps ==
  ASSUME BatchInv, BeginBatch, SynthesisInv'
  PROVE  BatchInv'
<1>1. UNCHANGED synthesisVars /\ batch.pc = "idle"
  BY DEF BeginBatch, BatchAt
<1>2. BatchType /\ ControllerAgrees /\ TouchedAreDispatched
  BY DEF BatchInv
<1>3. UNCHANGED <<budget, ledger, work, research, calls>>
  BY <1>1 DEF synthesisVars
<1>4. DOMAIN batch = BatchFields
  BY <1>2 DEF BatchType
<1>5. CASE Authorized([i \in DOMAIN Cases |-> budget[Cases[i]].limit], batch.ceiling)
  <2>1. Journal("batch_started", {}) /\ batch' = [batch EXCEPT !.pc = "dispatching"]
    BY <1>5 DEF BeginBatch
  <2>2. /\ BatchType' /\ JournalAgrees'
        /\ batch'.pc = "dispatching" /\ batch'.returned = batch.returned
        /\ batch'.case = batch.case /\ batch'.ceiling = batch.ceiling
        /\ \A case : IsDispatched(case) => IsDispatched(case)'
    BY <1>1, <2>1, EntryKeeps DEF BatchPlaces
  <2>3. ControllerAgrees'
    BY <1>1, <1>2, <1>3, <2>2 DEF ControllerAgrees
  <2>4. TouchedAreDispatched'
    BY <1>2, <1>3, <2>2 DEF TouchedAreDispatched
  <2>5. SumFunction([i \in DOMAIN Cases |-> budget[Cases[i]].limit]) <= batch.ceiling
    BY <1>5 DEF Authorized
  <2>6. LimitsAreAuthorized'
    BY <1>3, <2>2, <2>5 DEF LimitsAreAuthorized
  <2>7. QED
    BY <2>2, <2>3, <2>4, <2>6 DEF BatchInv
<1>6. CASE ~Authorized([i \in DOMAIN Cases |-> budget[Cases[i]].limit], batch.ceiling)
  <2>1. UNCHANGED journal /\ batch' = [batch EXCEPT !.pc = "refused"]
    BY <1>6 DEF BeginBatch
  <2>2. /\ DOMAIN batch' = BatchFields /\ batch'.pc = "refused"
        /\ batch'.returned = batch.returned /\ batch'.case = batch.case
        /\ batch'.results = batch.results /\ batch'.ceiling = batch.ceiling
    BY <1>4, <2>1 DEF BatchFields
  <2>3. BatchType' /\ JournalAgrees' /\ \A case : IsDispatched(case)' <=> IsDispatched(case)
    BY <1>3, <2>1, <2>2, ControllerMoves DEF BatchPlaces, ResearchGrows
  <2>4. ControllerAgrees'
    BY <1>1, <1>2, <1>3, <2>1, <2>2 DEF ControllerAgrees
  <2>5. TouchedAreDispatched' /\ LimitsAreAuthorized'
    BY <1>2, <1>3, <2>2, <2>3 DEF TouchedAreDispatched, LimitsAreAuthorized
  <2>6. QED
    BY <2>3, <2>4, <2>5 DEF BatchInv
<1>7. QED
  BY <1>5, <1>6

\* A case is dispatched before its run is touched.
LEMMA DispatchKeeps ==
  ASSUME BatchInv, DispatchCase, SynthesisInv'
  PROVE  BatchInv'
<1>1. /\ UNCHANGED synthesisVars /\ batch.pc = "dispatching" /\ batch.case \in DOMAIN Cases
      /\ Journal("case_dispatch", {}) /\ batch' = [batch EXCEPT !.pc = "executing"]
  BY DEF DispatchCase, BatchAt
<1>2. ControllerAgrees /\ TouchedAreDispatched /\ LimitsAreAuthorized
  BY DEF BatchInv
<1>3. UNCHANGED <<budget, ledger, work, research, calls>>
  BY <1>1 DEF synthesisVars
<1>4. /\ BatchType' /\ JournalAgrees'
      /\ batch'.pc = "executing" /\ batch'.returned = batch.returned
      /\ batch'.case = batch.case /\ batch'.ceiling = batch.ceiling
      /\ \A case : IsDispatched(case) => IsDispatched(case)'
      /\ IsDispatched(batch.case)'
  BY <1>1, EntryKeeps DEF BatchPlaces
<1>6. ControllerAgrees'
  BY <1>1, <1>2, <1>3, <1>4 DEF ControllerAgrees
<1>7. TouchedAreDispatched'
  BY <1>2, <1>3, <1>4 DEF TouchedAreDispatched
<1>8. LimitsAreAuthorized'
  BY <1>1, <1>2, <1>3, <1>4 DEF LimitsAreAuthorized
<1>9. QED
  BY <1>4, <1>6, <1>7, <1>8 DEF BatchInv

\* A batch ends with a verdict for every case.
LEMMA FinishKeeps ==
  ASSUME BatchInv, FinishBatch, SynthesisInv'
  PROVE  BatchInv'
<1>1. /\ UNCHANGED synthesisVars /\ batch.pc = "dispatching"
      /\ Journal("batch_recorded", {}) /\ batch' = [batch EXCEPT !.pc = "submitted"]
  BY DEF FinishBatch, BatchAt
<1>2. ControllerAgrees /\ TouchedAreDispatched /\ LimitsAreAuthorized
  BY DEF BatchInv
<1>3. UNCHANGED <<budget, ledger, work, research, calls>>
  BY <1>1 DEF synthesisVars
<1>4. /\ BatchType' /\ JournalAgrees'
      /\ batch'.pc = "submitted" /\ batch'.returned = batch.returned
      /\ batch'.case = batch.case /\ batch'.ceiling = batch.ceiling
      /\ \A case : IsDispatched(case) => IsDispatched(case)'
  BY <1>1, EntryKeeps DEF BatchPlaces
<1>5. ControllerAgrees'
  BY <1>1, <1>2, <1>3, <1>4 DEF ControllerAgrees
<1>6. TouchedAreDispatched'
  BY <1>2, <1>3, <1>4 DEF TouchedAreDispatched
<1>7. LimitsAreAuthorized'
  BY <1>1, <1>2, <1>3, <1>4 DEF LimitsAreAuthorized
<1>8. QED
  BY <1>4, <1>5, <1>6, <1>7 DEF BatchInv

\* The controller starts a command for the current case.
LEMMA ExecuteKeeps ==
  ASSUME BatchInv, ExecuteCase, SynthesisInv'
  PROVE  BatchInv'
<1>1. batch.pc = "executing" /\ UNCHANGED journal
  BY DEF ExecuteCase, BatchAt
<1>2. SynthesisInv /\ BatchType /\ ControllerAgrees /\ TouchedAreDispatched /\ LimitsAreAuthorized
  BY DEF BatchInv
<1>3. DOMAIN batch = BatchFields /\ DOMAIN work = Processes /\ Controller \in Processes
  BY <1>2, BatchAssumption DEF BatchType, SynthesisInv, SynthesisType
<1>4. PICK pc \in {"waiting", "returned"} :
        /\ batch' = [batch EXCEPT !.pc = pc]
        /\ UNCHANGED <<budget, ledger, research, calls>>
        /\ \/ work' = work
           \/ pc = "waiting" /\ work'[Controller].run = Cases[batch.case]
  <2>1. CASE /\ StartCommand(Controller, Cases[batch.case])
             /\ batch' = [batch EXCEPT !.pc = "waiting"]
    <3>1. work' = [work EXCEPT ![Controller] =
                     [NoWork EXCEPT !.pc = "deciding", !.run = Cases[batch.case]]]
      BY <2>1 DEF StartCommand
    <3>2. work'[Controller].run = Cases[batch.case]
      BY <3>1, <1>3 DEF NoWork
    <3>3. QED
      BY <2>1, <3>2 DEF StartCommand
  <2>2. CASE batch' = [batch EXCEPT !.pc = "returned"] /\ UNCHANGED synthesisVars
    BY <2>2 DEF synthesisVars
  <2>3. QED
    BY <2>1, <2>2 DEF ExecuteCase
<1>5. /\ DOMAIN batch' = BatchFields /\ batch'.pc = pc /\ batch'.returned = batch.returned
      /\ batch'.case = batch.case /\ batch'.results = batch.results
      /\ batch'.ceiling = batch.ceiling
  BY <1>3, <1>4 DEF BatchFields
<1>6. BatchType' /\ JournalAgrees' /\ \A case : IsDispatched(case)' <=> IsDispatched(case)
  BY <1>1, <1>4, <1>5, ControllerMoves DEF BatchPlaces, ResearchGrows
<1>7. ControllerAgrees'
  <2>1. batch.case \in DOMAIN Cases /\ IsDispatched(batch.case)
    BY <1>1, <1>2 DEF ControllerAgrees
  <2>2. IsDispatched(batch.case)'
    BY <2>1, <1>1, <1>5 DEF IsDispatched
  <2>3. batch.returned = {} /\ work[Controller].pc = "idle"
    BY <1>1, <1>2 DEF ControllerAgrees
  <2>4. QED
    BY <1>4, <1>5, <2>1, <2>2, <2>3 DEF ControllerAgrees
<1>8. TouchedAreDispatched' /\ LimitsAreAuthorized'
  BY <1>1, <1>2, <1>4, <1>5, <1>6 DEF TouchedAreDispatched, LimitsAreAuthorized
<1>9. QED
  BY <1>6, <1>7, <1>8 DEF BatchInv

\* The end of a command: its process is idle.
LEMMA NoWorkIsIdle == NoWork.pc = "idle"
  BY DEF NoWork

\* A step of the command the controller waits for.
LEMMA WorkerKeeps ==
  ASSUME BatchInv, WorkerStep, SynthesisInv'
  PROVE  BatchInv'
<1>1. batch.pc = "waiting" /\ UNCHANGED journal
  BY DEF WorkerStep, BatchAt
<1>2. SynthesisInv /\ BatchType /\ ControllerAgrees /\ TouchedAreDispatched /\ LimitsAreAuthorized
  BY DEF BatchInv
<1>3. DOMAIN batch = BatchFields /\ DOMAIN work = Processes /\ Controller \in Processes
  BY <1>2, BatchAssumption DEF BatchType, SynthesisInv, SynthesisType
<1>4. /\ batch.case \in DOMAIN Cases /\ IsDispatched(batch.case) /\ batch.returned = {}
      /\ work[Controller].pc # "idle" => work[Controller].run = Cases[batch.case]
  BY <1>1, <1>2 DEF ControllerAgrees
<1>5. PICK run \in Runs : run = Cases[batch.case]
  BY <1>4, BatchAssumption
<1>6. /\ UNCHANGED budget /\ ResearchGrows
      /\ \A other \in Runs \ {run} : ledger'[other] = ledger[other] /\ calls'[other] = calls[other]
      /\ \E pc \in {"waiting", "returned"} : \E back :
           /\ DOMAIN batch' = BatchFields /\ batch'.pc = pc /\ batch'.returned = back
           /\ batch'.case = batch.case /\ batch'.results = batch.results
           /\ batch'.ceiling = batch.ceiling
           /\ work'[Controller].pc # "idle" => pc = "waiting" /\ work'[Controller].run = run
           /\ back # {} => pc = "returned"
           /\ \A r \in back : r \in research'[run]
           /\ \A r, s \in back : r = s
  <2>1. CASE /\ Work(Controller)
             /\ batch' = IF work'[Controller] # NoWork THEN batch
                         ELSE IF research' = research \/ WorkAt(Controller, "reserving")
                         THEN [batch EXCEPT !.pc = "returned"]
                         ELSE [batch EXCEPT !.pc = "returned",
                                 !.returned = {Result(Controller, WorkAt(Controller, "stopped"))}]
    <3>1. /\ work[Controller].run = run
          /\ \/ work'[Controller] = NoWork
             \/ work'[Controller].pc # "idle" /\ work'[Controller].run = run
          /\ UNCHANGED budget
          /\ \A other \in Runs \ {run} :
               ledger'[other] = ledger[other] /\ calls'[other] = calls[other]
          /\ ResearchGrows
          /\ \/ research' = research
             \/ Result(Controller, WorkAt(Controller, "stopped")) \in research'[run]
      BY <1>2, <1>3, <1>4, <1>5, <2>1, WorkMoves
    <3>2. PICK result : result = Result(Controller, WorkAt(Controller, "stopped"))
      OBVIOUS
    <3>3. batch' = IF work'[Controller] # NoWork THEN batch
                   ELSE IF research' = research \/ WorkAt(Controller, "reserving")
                   THEN [batch EXCEPT !.pc = "returned"]
                   ELSE [batch EXCEPT !.pc = "returned", !.returned = {result}]
      BY <2>1, <3>2
    <3>4. CASE work'[Controller] # NoWork
      BY <1>1, <1>3, <1>4, <3>1, <3>3, <3>4
    <3>5. CASE work'[Controller] = NoWork /\ (research' = research \/ WorkAt(Controller, "reserving"))
      <4>1. batch' = [batch EXCEPT !.pc = "returned"]
        BY <3>3, <3>5
      <4>2. /\ DOMAIN batch' = BatchFields /\ batch'.pc = "returned" /\ batch'.returned = {}
            /\ batch'.case = batch.case /\ batch'.results = batch.results
            /\ batch'.ceiling = batch.ceiling
        BY <4>1, <1>3, <1>4 DEF BatchFields
      <4>3. QED
        BY <3>1, <3>5, <4>2, NoWorkIsIdle
    <3>6. CASE work'[Controller] = NoWork /\ research' # research /\ ~WorkAt(Controller, "reserving")
      <4>1. batch' = [batch EXCEPT !.pc = "returned", !.returned = {result}]
        BY <3>3, <3>6
      <4>2. /\ DOMAIN batch' = BatchFields /\ batch'.pc = "returned" /\ batch'.returned = {result}
            /\ batch'.case = batch.case /\ batch'.results = batch.results
            /\ batch'.ceiling = batch.ceiling
        BY <4>1, <1>3 DEF BatchFields
      <4>3. result \in research'[run]
        BY <3>1, <3>2, <3>6
      <4>4. QED
        BY <3>1, <3>6, <4>2, <4>3, NoWorkIsIdle
    <3>7. QED
      BY <3>4, <3>5, <3>6
  <2>2. CASE StopCommand(Controller) /\ batch' = [batch EXCEPT !.pc = "returned"]
    <3>1. /\ UNCHANGED <<budget, ledger, research, calls>> /\ work'[Controller] = NoWork
      BY <2>2, <1>3 DEF StopCommand
    <3>2. /\ DOMAIN batch' = BatchFields /\ batch'.pc = "returned" /\ batch'.returned = {}
          /\ batch'.case = batch.case /\ batch'.results = batch.results
          /\ batch'.ceiling = batch.ceiling
      BY <2>2, <1>3, <1>4 DEF BatchFields
    <3>3. QED
      BY <3>1, <3>2, NoWorkIsIdle DEF ResearchGrows
  <2>3. QED
    BY <2>1, <2>2 DEF WorkerStep
<1>7. BatchType' /\ JournalAgrees' /\ \A case : IsDispatched(case)' <=> IsDispatched(case)
  BY <1>1, <1>6, ControllerMoves DEF BatchPlaces
<1>8. IsDispatched(batch.case)'
  BY <1>1, <1>4, <1>6 DEF IsDispatched
<1>9. ControllerAgrees'
  BY <1>4, <1>5, <1>6, <1>8 DEF ControllerAgrees
<1>10. TouchedAreDispatched'
  <2>1. ASSUME NEW other \in Runs, ledger'[other] # NoLedger \/ calls'[other] # <<>>
        PROVE  \E case \in DOMAIN Cases : Cases[case] = other /\ IsDispatched(case)
    <3>1. CASE other = run
      BY <3>1, <1>4, <1>5
    <3>2. CASE other # run
      BY <2>1, <3>2, <1>2, <1>6 DEF TouchedAreDispatched
    <3>3. QED
      BY <3>1, <3>2
  <2>2. QED
    BY <2>1, <1>7 DEF TouchedAreDispatched
<1>11. LimitsAreAuthorized'
  BY <1>1, <1>2, <1>6 DEF LimitsAreAuthorized
<1>12. QED
  BY <1>7, <1>9, <1>10, <1>11 DEF BatchInv

\* A controller that stops leaves its journal.
LEMMA StopBatchKeeps ==
  ASSUME BatchInv, StopBatch, SynthesisInv'
  PROVE  BatchInv'
<1>1. /\ batch.pc \in {"dispatching", "executing", "waiting", "returned"} /\ UNCHANGED journal
      /\ batch' = [batch EXCEPT !.pc = "halted", !.returned = {}]
  BY DEF StopBatch
<1>2. SynthesisInv /\ BatchType /\ ControllerAgrees /\ TouchedAreDispatched /\ LimitsAreAuthorized
  BY DEF BatchInv
<1>3. DOMAIN batch = BatchFields /\ DOMAIN work = Processes /\ Controller \in Processes
  BY <1>2, BatchAssumption DEF BatchType, SynthesisInv, SynthesisType
<1>4. /\ UNCHANGED <<budget, ledger, research, calls>> /\ work'[Controller].pc = "idle"
  <2>1. CASE batch.pc = "waiting"
    BY <2>1, <1>3, NoWorkIsIdle DEF StopBatch, BatchAt, StopCommand
  <2>2. CASE batch.pc # "waiting"
    BY <2>2, <1>2 DEF StopBatch, BatchAt, ControllerAgrees, synthesisVars
  <2>3. QED
    BY <2>1, <2>2
<1>5. /\ DOMAIN batch' = BatchFields /\ batch'.pc = "halted" /\ batch'.returned = {}
      /\ batch'.case = batch.case /\ batch'.results = batch.results
      /\ batch'.ceiling = batch.ceiling
  BY <1>1, <1>3 DEF BatchFields
<1>6. BatchType' /\ JournalAgrees' /\ \A case : IsDispatched(case)' <=> IsDispatched(case)
  BY <1>1, <1>4, <1>5, ControllerMoves DEF BatchPlaces, ResearchGrows
<1>7. ControllerAgrees'
  BY <1>4, <1>5 DEF ControllerAgrees
<1>8. TouchedAreDispatched' /\ LimitsAreAuthorized'
  BY <1>1, <1>2, <1>4, <1>5, <1>6 DEF TouchedAreDispatched, LimitsAreAuthorized
<1>9. QED
  BY <1>6, <1>7, <1>8 DEF BatchInv

\* The deadline of a run leaves its limit alone.
LEMMA ExpiredKeepsLimits ==
  ASSUME SynthesisInv, NEW run \in Runs, ExpireBudget(run)
  PROVE  \A other \in Runs : budget'[other].limit = budget[other].limit
<1>1. budget \in [Runs -> [limit : CostLimits, expired : BOOLEAN]]
  BY DEF SynthesisInv, SynthesisType
<1>2. budget' = [budget EXCEPT ![run].expired = TRUE]
  BY DEF ExpireBudget
<1>3. QED
  BY <1>1, <1>2

\* A step that touches no run of a batch.
LEMMA QuietBatchKeeps ==
  ASSUME BatchInv, SynthesisInv', UNCHANGED <<ledger, work, research, calls, batch, journal>>,
         \A run \in Runs : budget'[run].limit = budget[run].limit
  PROVE  BatchInv'
<1>1. BatchType /\ ControllerAgrees /\ TouchedAreDispatched /\ LimitsAreAuthorized
  BY DEF BatchInv
<1>2. BatchType' /\ JournalAgrees' /\ \A case : IsDispatched(case)' <=> IsDispatched(case)
  BY <1>1, ControllerMoves DEF BatchType, ResearchGrows
<1>3. ControllerAgrees' /\ TouchedAreDispatched'
  BY <1>1, <1>2 DEF ControllerAgrees, TouchedAreDispatched, IsDispatched
<1>4. \A i \in DOMAIN Cases : budget'[Cases[i]].limit = budget[Cases[i]].limit
  BY BatchAssumption
<1>5. [i \in DOMAIN Cases |-> budget[Cases[i]].limit]' = [i \in DOMAIN Cases |-> budget[Cases[i]].limit]
  BY <1>4
<1>6. LimitsAreAuthorized'
  BY <1>1, <1>5 DEF LimitsAreAuthorized
<1>7. QED
  BY <1>2, <1>3, <1>6 DEF BatchInv

\* The verdict of a case, with its result or without one.
LEMMA RecordKeeps ==
  ASSUME BatchInv, RecordCase, SynthesisInv'
  PROVE  BatchInv'
<1>1. batch.pc = "returned" /\ UNCHANGED synthesisVars
  BY DEF RecordCase, BatchAt
<1>2. SynthesisInv /\ BatchType /\ ControllerAgrees /\ TouchedAreDispatched /\ LimitsAreAuthorized
  BY DEF BatchInv
<1>3. UNCHANGED <<budget, ledger, work, research, calls>>
  BY <1>1 DEF synthesisVars
<1>4. PICK case : case = batch.case
  OBVIOUS
<1>5. /\ case \in DOMAIN Cases /\ work[Controller].pc = "idle" /\ Len(Cases) \in Nat
      /\ case \in 1 .. Len(Cases)
  BY <1>1, <1>2, <1>4, BatchAssumption DEF ControllerAgrees
<1>6. PICK run \in Runs : run = Cases[case]
  BY <1>5, BatchAssumption
<1>7. PICK result \in {batch.returned, {}}, event \in {"case_recorded", "case_unsettled"} :
        /\ event = "case_recorded" => result # {}
        /\ Journal(event, result)
        /\ batch' = [batch EXCEPT !.pc = "dispatching", !.case = @ + 1, !.returned = {},
                                  !.results = @ \cup {<<run, r>> : r \in result}]
  BY <1>4, <1>6 DEF RecordCase
<1>8. (\A r \in result : r \in research[run]) /\ (\A r, s \in result : r = s)
  BY <1>2, <1>4, <1>6, <1>7 DEF ControllerAgrees
<1>9. DOMAIN batch = BatchFields
  BY <1>2 DEF BatchType
<1>10. /\ DOMAIN batch' = BatchFields /\ batch'.pc = "dispatching" /\ batch'.returned = {}
       /\ batch'.case = case + 1 /\ batch'.ceiling = batch.ceiling
       /\ batch'.results = batch.results \cup {<<run, r>> : r \in result}
  BY <1>4, <1>7, <1>9 DEF BatchFields
<1>11. \A x : x \in batch'.results <=> x \in batch.results \/ \E r \in result : x = <<run, r>>
  BY <1>10
<1>0. PICK n : n = Len(journal) + 1
  OBVIOUS
<1> DEFINE entry == [event |-> event, case |-> case, result |-> result]
<1>12. journal' = Append(journal, entry) /\ IsSequence(journal)
  BY <1>2, <1>4, <1>7 DEF Journal, BatchType
<1>13. /\ IsSequence(journal') /\ Len(journal) \in Nat /\ DOMAIN journal = 1 .. Len(journal)
       /\ DOMAIN journal' = 1 .. Len(journal) + 1 /\ journal'[Len(journal) + 1] = entry
       /\ \A i \in 1 .. Len(journal) : journal'[i] = journal[i]
  BY <1>12, SequenceGains
<1>14. /\ DOMAIN journal' = DOMAIN journal \cup {n} /\ n \notin DOMAIN journal
       /\ journal'[n] = entry
       /\ \A i \in DOMAIN journal : journal'[i] = journal[i]
  BY <1>0, <1>13
<1>15. entry.event = event /\ entry.case = case /\ entry.result = result
  OBVIOUS
<1> HIDE DEF entry
<1>16. BatchType'
  BY <1>2, <1>5, <1>10, <1>13 DEF BatchType, BatchPlaces
<1>17. IsVerdict(n)' /\ journal'[n].case = case /\ journal'[n].result = result
       /\ journal'[n].event = event
  BY <1>7, <1>14, <1>15 DEF IsVerdict
<1>18. \A i \in DOMAIN journal : IsVerdict(i)' <=> IsVerdict(i)
  BY <1>14 DEF IsVerdict
<1>19. JournalAgrees
  BY DEF BatchInv
<1>20. \A i \in DOMAIN journal : IsVerdict(i) => journal[i].case < case
  BY <1>4, <1>19 DEF JournalAgrees
<1>21. JournalAgrees'
  <2>1. ASSUME NEW i \in DOMAIN journal'
        PROVE  journal'[i].case \in 1 .. Len(Cases) + 1 /\ journal'[i].case <= batch'.case
    <3>1. CASE i = n
      BY <3>1, <1>5, <1>10, <1>17
    <3>2. CASE i \in DOMAIN journal
      <4>1. /\ journal[i].case \in 1 .. Len(Cases) + 1 /\ journal[i].case <= case
            /\ journal'[i] = journal[i]
        BY <3>2, <1>4, <1>14, <1>19 DEF JournalAgrees
      <4>2. QED
        BY <4>1, <1>5, <1>10
    <3>3. QED
      BY <3>1, <3>2, <1>14
  <2>2. ASSUME NEW i \in DOMAIN journal', IsVerdict(i)'
        PROVE  /\ journal'[i].case < batch'.case
               /\ \A r, s \in journal'[i].result : r = s
               /\ \A r \in journal'[i].result :
                    /\ r \in research'[Cases[journal'[i].case]]
                    /\ <<Cases[journal'[i].case], r>> \in batch'.results
               /\ journal'[i].event = "case_recorded" => journal'[i].result # {}
    <3>1. CASE i = n
      <4>1. case < case + 1
        BY <1>5
      <4>2. QED
        BY <3>1, <4>1, <1>3, <1>6, <1>7, <1>8, <1>10, <1>11, <1>17
    <3>2. CASE i \in DOMAIN journal
      <4>1. IsVerdict(i) /\ journal'[i] = journal[i]
        BY <2>2, <3>2, <1>14, <1>18
      <4>2. /\ journal[i].case < case /\ journal[i].case \in 1 .. Len(Cases) + 1
            /\ \A r, s \in journal[i].result : r = s
            /\ \A r \in journal[i].result :
                 /\ r \in research[Cases[journal[i].case]]
                 /\ <<Cases[journal[i].case], r>> \in batch.results
            /\ journal[i].event = "case_recorded" => journal[i].result # {}
        BY <3>2, <4>1, <1>19, <1>20 DEF JournalAgrees
      <4>3. journal[i].case < case + 1
        BY <4>2, <1>5
      <4>4. QED
        BY <4>1, <4>2, <4>3, <1>3, <1>10, <1>11
    <3>3. QED
      BY <3>1, <3>2, <1>14
  <2>3. ASSUME NEW other \in DOMAIN Cases, other < batch'.case
        PROVE  \E i \in DOMAIN journal' : IsVerdict(i)' /\ journal'[i].case = other
    <3>1. other = case \/ other < case
      BY <2>3, <1>5, <1>10, BatchAssumption
    <3>2. CASE other = case
      BY <3>2, <1>14, <1>17
    <3>3. CASE other < case
      <4>1. PICK i \in DOMAIN journal : IsVerdict(i) /\ journal[i].case = other
        BY <3>3, <1>4, <1>19 DEF JournalAgrees
      <4>2. QED
        BY <4>1, <1>14, <1>18
    <3>4. QED
      BY <3>1, <3>2, <3>3
  <2>4. ASSUME NEW i \in DOMAIN journal', NEW j \in DOMAIN journal', IsVerdict(i)', IsVerdict(j)',
               journal'[i].case = journal'[j].case
        PROVE  i = j
    <3>1. ASSUME NEW k \in DOMAIN journal', IsVerdict(k)'
          PROVE  \/ k = n
                 \/ k \in DOMAIN journal /\ IsVerdict(k) /\ journal'[k] = journal[k]
                    /\ journal[k].case # case
      <4>1. CASE k \in DOMAIN journal
        <5>1. IsVerdict(k) /\ journal'[k] = journal[k] /\ journal[k].case < case
          BY <3>1, <4>1, <1>14, <1>18, <1>20
        <5>2. journal[k].case # case
          BY <5>1, <1>5
        <5>3. QED
          BY <4>1, <5>1, <5>2
      <4>2. QED
        BY <4>1, <1>14
    <3>2. \A k, l \in DOMAIN journal :
            IsVerdict(k) /\ IsVerdict(l) /\ journal[k].case = journal[l].case => k = l
      BY <1>19 DEF JournalAgrees
    <3>3. QED
      BY <2>4, <3>1, <3>2, <1>17
  <2>5. ASSUME NEW x \in batch'.results
        PROVE  \E i \in DOMAIN journal' : \E r \in journal'[i].result :
                 IsVerdict(i)' /\ x = <<Cases[journal'[i].case], r>>
    <3>1. CASE x \in batch.results
      <4>1. PICK i \in DOMAIN journal : \E r \in journal[i].result :
                   IsVerdict(i) /\ x = <<Cases[journal[i].case], r>>
        BY <3>1, <1>19 DEF JournalAgrees
      <4>2. QED
        BY <4>1, <1>14, <1>18
    <3>2. CASE \E r \in result : x = <<run, r>>
      BY <3>2, <1>6, <1>14, <1>17
    <3>3. QED
      BY <3>1, <3>2, <1>11
  <2>6. QED
    BY <2>1, <2>2, <2>3, <2>4, <2>5 DEF JournalAgrees
<1>22. \A c : IsDispatched(c) => IsDispatched(c)'
  BY <1>14 DEF IsDispatched
<1>23. ControllerAgrees'
  BY <1>3, <1>5, <1>10 DEF ControllerAgrees
<1>24. TouchedAreDispatched'
  BY <1>2, <1>3, <1>22 DEF TouchedAreDispatched
<1>25. LimitsAreAuthorized'
  BY <1>1, <1>2, <1>3, <1>10 DEF LimitsAreAuthorized
<1>26. QED
  BY <1>16, <1>21, <1>23, <1>24, <1>25 DEF BatchInv

\* Every step of a batch.
LEMMA BatchNext == BatchInv /\ [NextBatch]_batchVars => BatchInv'
<1> SUFFICES ASSUME BatchInv, [NextBatch]_batchVars PROVE BatchInv'
  OBVIOUS
<1>0. SynthesisInv'
  BY BatchStepsAreCommands
<1>1. CASE BeginBatch
  BY <1>0, <1>1, BeginKeeps
<1>2. CASE DispatchCase
  BY <1>0, <1>2, DispatchKeeps
<1>3. CASE ExecuteCase
  BY <1>0, <1>3, ExecuteKeeps
<1>4. CASE WorkerStep
  BY <1>0, <1>4, WorkerKeeps
<1>5. CASE RecordCase
  BY <1>0, <1>5, RecordKeeps
<1>6. CASE FinishBatch
  BY <1>0, <1>6, FinishKeeps
<1>7. CASE StopBatch
  BY <1>0, <1>7, StopBatchKeeps
<1>8. CASE \E run \in Runs : DamageEvidence(run)
  BY <1>0, <1>8, QuietBatchKeeps DEF DamageEvidence, synthesisVars
<1>9. CASE /\ BatchAt("waiting") /\ ExpireBudget(Cases[batch.case])
           /\ UNCHANGED <<batch, journal, damaged>>
  <2>1. PICK run \in Runs : run = Cases[batch.case]
    BY <1>9, BatchAssumption DEF BatchInv, ControllerAgrees, BatchAt
  <2>2. ExpireBudget(run) /\ SynthesisInv
    BY <1>9, <2>1 DEF BatchInv
  <2>3. \A other \in Runs : budget'[other].limit = budget[other].limit
    BY <2>2, ExpiredKeepsLimits
  <2>4. QED
    BY <1>0, <1>9, <2>2, <2>3, QuietBatchKeeps DEF ExpireBudget
<1>10. CASE UNCHANGED batchVars
  BY <1>0, <1>10, QuietBatchKeeps DEF batchVars, synthesisVars
<1>11. QED
  BY <1>1, <1>2, <1>3, <1>4, <1>5, <1>6, <1>7, <1>8, <1>9, <1>10 DEF NextBatch

-----------------------------------------------------------------------------
(* What the invariant says of a batch. *)

\* A run that nobody has touched is charged nothing; no run is charged above its limit.
LEMMA ChargedIsBounded ==
  ASSUME SynthesisInv, NEW run \in Runs
  PROVE  /\ Charged(run) \in Nat /\ budget[run].limit \in Nat
         /\ Charged(run) <= budget[run].limit
         /\ ledger[run] = NoLedger => Charged(run) = 0
<1>1. IsFiniteSet(DOMAIN ledger[run]) /\ budget \in [Runs -> [limit : CostLimits, expired : BOOLEAN]]
  BY DEF SynthesisInv, SynthesisType
<1> DEFINE S == {op \in DOMAIN ledger[run] : op[1] # "experiment"}
<1>2. S \subseteq DOMAIN ledger[run]
  OBVIOUS
<1> HIDE DEF S
<1>3. IsFiniteSet(S)
  BY <1>1, <1>2, FS_Subset
<1>4. Cardinality(S) \in Nat
  BY <1>3, FS_CardinalityType
<1>5. Charged(run) = Cardinality(S)
  BY DEF Charged, S
<1>6. budget[run].limit \in Nat
  BY <1>1, SynthesisAssumption
<1>7. Charged(run) <= budget[run].limit
  BY DEF SynthesisInv, WithinLimit
<1>8. ASSUME ledger[run] = NoLedger
      PROVE  Charged(run) = 0
  <2>1. S = {}
    BY <1>2, <1>8 DEF NoLedger
  <2>2. QED
    BY <2>1, <1>5, FS_EmptySet
<1>9. QED
  BY <1>4, <1>5, <1>6, <1>7, <1>8

\* All runs together are charged at most what was authorized.
LEMMA BatchIsWithinCeiling ==
  ASSUME BatchInv, batch.pc # "idle"
  PROVE  SumFunction([run \in Runs |-> Charged(run)]) <= batch.ceiling
<1> DEFINE charge == [run \in Runs |-> Charged(run)]
           part == [i \in DOMAIN Cases |-> Charged(Cases[i])]
           limit == [i \in DOMAIN Cases |-> budget[Cases[i]].limit]
           covered == {Cases[i] : i \in DOMAIN Cases}
<1>1. SynthesisInv /\ BatchType /\ ControllerAgrees /\ TouchedAreDispatched /\ LimitsAreAuthorized
  BY DEF BatchInv
<1>2. \A i \in DOMAIN Cases : Cases[i] \in Runs
  BY BatchAssumption
<1>3. IsFiniteSet(Runs) /\ IsFiniteSet(DOMAIN Cases)
  BY BatchAssumption, FS_Interval
<1>4. \A run \in Runs : /\ Charged(run) \in Nat /\ budget[run].limit \in Nat
                        /\ Charged(run) <= budget[run].limit
                        /\ ledger[run] = NoLedger => Charged(run) = 0
  BY <1>1, ChargedIsBounded
<1>5. \A run \in Runs : charge[run] = Charged(run)
  OBVIOUS
<1>6. \A i \in DOMAIN Cases : /\ part[i] = charge[Cases[i]] /\ part[i] \in Int
                              /\ limit[i] \in Int /\ part[i] <= limit[i]
  BY <1>2, <1>4
<1>7. covered \subseteq Runs /\ \A i \in DOMAIN Cases : Cases[i] \in covered
  BY <1>2
<1>8. ASSUME NEW run \in Runs \ covered
      PROVE  charge[run] = 0
  BY <1>1, <1>4, <1>5, <1>7 DEF TouchedAreDispatched
<1>9. /\ SumFunction(charge) = SumFunctionOnSet(charge, Runs)
      /\ SumFunction(limit) = SumFunctionOnSet(limit, DOMAIN Cases)
  BY DEF SumFunction, SumFunctionOnSet, FoldFunction
<1>10. batch.pc # "refused" => SumFunction(limit) <= batch.ceiling
  BY <1>1 DEF LimitsAreAuthorized
<1>11. covered = {Cases[i] : i \in DOMAIN Cases}
  OBVIOUS
<1> HIDE DEF charge, part, limit, covered
<1>12. \A run \in Runs : charge[run] \in Int
  BY <1>4, <1>5
<1>13. SumFunctionOnSet(charge, Runs) = SumFunctionOnSet(charge, covered)
  BY <1>3, <1>7, <1>8, <1>12, SumOfPart
<1>14. SumFunctionOnSet(charge, covered) = SumFunctionOnSet(part, DOMAIN Cases)
  <2>1. \A i, j \in DOMAIN Cases : Cases[i] = Cases[j] => i = j
    BY BatchAssumption
  <2>2. QED
    BY <1>3, <1>6, <1>11, <2>1, SumReindexed
<1>15. SumFunctionOnSet(part, DOMAIN Cases) <= SumFunctionOnSet(limit, DOMAIN Cases)
  BY <1>3, <1>6, SumMonotonic
<1>16. SumFunctionOnSet(part, DOMAIN Cases) \in Int /\ SumFunctionOnSet(limit, DOMAIN Cases) \in Int
  BY <1>3, <1>6, SumType
<1>17. batch.ceiling \in Nat
  BY <1>1, BatchAssumption DEF BatchType
<1>18. CASE batch.pc # "refused"
  BY <1>9, <1>10, <1>13, <1>14, <1>15, <1>16, <1>17, <1>18 DEF charge
<1>19. CASE batch.pc = "refused"
  <2>1. journal = <<>>
    BY <1>1, <1>19 DEF ControllerAgrees
  <2>2. \A run \in Runs : charge[run] = 0
    BY <1>1, <1>4, <1>5, <2>1 DEF TouchedAreDispatched, IsDispatched
  <2>3. SumFunctionOnSet(charge, Runs) = SumFunctionOnSet(charge, {})
    BY <1>3, <1>12, <2>2, SumOfPart
  <2>4. SumFunctionOnSet(charge, {}) = 0
    BY SumEmpty
  <2>5. QED
    BY <1>9, <1>17, <2>3, <2>4 DEF charge
<1>20. QED
  BY <1>18, <1>19

\* A journal with a later dispatch, or the entry of the whole batch, is past the case.
LEMMA LaterEntriesFollow ==
  ASSUME BatchInv, NEW case \in DOMAIN Cases,
         \/ Entries("case_dispatch", case + 1) # {}
         \/ Entries("batch_recorded", Len(Cases) + 1) # {}
  PROVE  Settled(case) # {}
<1>1. JournalAgrees /\ BatchType
  BY DEF BatchInv
<1>2. Len(Cases) \in Nat /\ case \in 1 .. Len(Cases)
  BY BatchAssumption
<1>3. PICK i \in DOMAIN journal : journal[i].case = case + 1 \/ journal[i].case = Len(Cases) + 1
  BY DEF Entries
<1>4. journal[i].case <= batch.case /\ batch.case \in 1 .. Len(Cases) + 1
  BY <1>1 DEF JournalAgrees, BatchType
<1>5. case < batch.case
  BY <1>2, <1>3, <1>4
<1>6. PICK j \in DOMAIN journal : IsVerdict(j) /\ journal[j].case = case
  BY <1>1, <1>5 DEF JournalAgrees
<1>7. j \in Settled(case)
  BY <1>6 DEF Settled, Entries, IsVerdict
<1>8. QED
  BY <1>7

\* The entries of a case that settle it are its verdicts.
LEMMA SettledAreVerdicts ==
  ASSUME NEW case, NEW i \in Settled(case)
  PROVE  i \in DOMAIN journal /\ IsVerdict(i) /\ journal[i].case = case
  BY DEF Settled, Entries, IsVerdict

\* A case has at most one verdict.
LEMMA OneVerdict ==
  ASSUME BatchInv, NEW case
  PROVE  Cardinality(Settled(case)) <= 1
<1>1. \A i, j \in Settled(case) : i = j
  BY SettledAreVerdicts DEF BatchInv, JournalAgrees
<1>2. CASE Settled(case) = {}
  BY <1>2, FS_EmptySet
<1>3. CASE Settled(case) # {}
  <2>1. PICK i : Settled(case) = {i}
    BY <1>1, <1>3
  <2>2. Cardinality({i}) = 1
    BY FS_Singleton
  <2>3. QED
    BY <2>1, <2>2
<1>4. QED
  BY <1>2, <1>3

\* What was submitted for a case is what its verdict names.
LEMMA SubmittedIsNamed ==
  ASSUME BatchInv, NEW case \in DOMAIN Cases, NEW i \in Settled(case)
  PROVE  /\ \A r \in journal[i].result :
              r \in research[Cases[case]] /\ <<Cases[case], r>> \in batch.results
         /\ \A x \in batch.results : x[1] = Cases[case] => x[2] \in journal[i].result
<1>1. i \in DOMAIN journal /\ IsVerdict(i) /\ journal[i].case = case
  BY SettledAreVerdicts
<1>2. JournalAgrees
  BY DEF BatchInv
<1>3. \A r \in journal[i].result :
        r \in research[Cases[case]] /\ <<Cases[case], r>> \in batch.results
  BY <1>1, <1>2 DEF JournalAgrees
<1>4. ASSUME NEW x \in batch.results, x[1] = Cases[case]
      PROVE  x[2] \in journal[i].result
  <2>1. PICK j \in DOMAIN journal : \E r \in journal[j].result :
               IsVerdict(j) /\ x = <<Cases[journal[j].case], r>>
    BY <1>2 DEF JournalAgrees
  <2>2. PICK r \in journal[j].result : IsVerdict(j) /\ x = <<Cases[journal[j].case], r>>
    BY <2>1
  <2>3. journal[j].case \in DOMAIN Cases
    BY <2>2, VerdictsNameCases
  <2>4. Cases[journal[j].case] = Cases[case] /\ x[2] = r
    BY <1>4, <2>2
  <2>5. journal[j].case = case
    BY <2>3, <2>4, BatchAssumption
  <2>6. i = j
    BY <1>1, <1>2, <2>2, <2>5 DEF JournalAgrees
  <2>7. QED
    BY <2>2, <2>4, <2>6
<1>5. QED
  BY <1>3, <1>4

\* What is submitted is one result of each of some cases.
LEMMA SubmissionIsRegular ==
  ASSUME BatchInv
  PROVE  ~Rejected(batch.results)
<1>1. JournalAgrees /\ \A run \in Runs : \A r \in research[run] : ResultAgrees(r, run)
  BY DEF BatchInv, SynthesisInv
<1>2. ASSUME NEW x \in batch.results
      PROVE  \E i \in DOMAIN journal : \E r \in journal[i].result :
               /\ IsVerdict(i) /\ x = <<Cases[journal[i].case], r>>
               /\ journal[i].case \in DOMAIN Cases /\ r.run = Cases[journal[i].case]
  <2>1. PICK i \in DOMAIN journal : \E r \in journal[i].result :
               IsVerdict(i) /\ x = <<Cases[journal[i].case], r>>
    BY <1>1 DEF JournalAgrees
  <2>2. PICK r \in journal[i].result : IsVerdict(i) /\ x = <<Cases[journal[i].case], r>>
    BY <2>1
  <2>3. journal[i].case \in DOMAIN Cases /\ Cases[journal[i].case] \in Runs
    BY <2>2, VerdictsNameCases
  <2>4. r \in research[Cases[journal[i].case]]
    BY <1>1, <2>2 DEF JournalAgrees
  <2>5. r.run = Cases[journal[i].case]
    BY <1>1, <2>3, <2>4 DEF ResultAgrees
  <2>6. QED
    BY <2>2, <2>3, <2>5
<1>3. ASSUME NEW x \in batch.results, NEW y \in batch.results, x[1] = y[1] \/ x[2] = y[2]
      PROVE  x = y
  <2>1. PICK i \in DOMAIN journal : \E r \in journal[i].result :
               /\ IsVerdict(i) /\ x = <<Cases[journal[i].case], r>>
               /\ journal[i].case \in DOMAIN Cases /\ r.run = Cases[journal[i].case]
    BY <1>2
  <2>2. PICK r \in journal[i].result :
               /\ IsVerdict(i) /\ x = <<Cases[journal[i].case], r>>
               /\ journal[i].case \in DOMAIN Cases /\ r.run = Cases[journal[i].case]
    BY <2>1
  <2>3. PICK j \in DOMAIN journal : \E s \in journal[j].result :
               /\ IsVerdict(j) /\ y = <<Cases[journal[j].case], s>>
               /\ journal[j].case \in DOMAIN Cases /\ s.run = Cases[journal[j].case]
    BY <1>2
  <2>4. PICK s \in journal[j].result :
               /\ IsVerdict(j) /\ y = <<Cases[journal[j].case], s>>
               /\ journal[j].case \in DOMAIN Cases /\ s.run = Cases[journal[j].case]
    BY <2>3
  <2>5. Cases[journal[i].case] = Cases[journal[j].case]
    BY <1>3, <2>2, <2>4
  <2>6. journal[i].case = journal[j].case
    BY <2>2, <2>4, <2>5, BatchAssumption
  <2>7. i = j
    BY <1>1, <2>2, <2>4, <2>6 DEF JournalAgrees
  <2>8. r = s
    BY <1>1, <2>2, <2>4, <2>7 DEF JournalAgrees
  <2>9. QED
    BY <2>2, <2>4, <2>5, <2>8
<1>4. \A x \in batch.results : \E i \in DOMAIN Cases : Cases[i] = x[1]
  BY <1>2
<1>5. QED
  BY <1>3, <1>4 DEF Rejected

\* The verdict of a case and the grade of its submission agree.
LEMMA GradesFollowTheJournal ==
  ASSUME BatchInv, NEW case \in DOMAIN Cases, NEW i \in Settled(case)
  PROVE  LET status == EvidenceStatus(batch.results, Cases[case]) IN
         /\ (status = "missing") <=> (journal[i].result = {})
         /\ journal[i].event = "case_recorded" /\ Cases[case] \notin damaged => status = "verified"
         /\ journal[i].result \subseteq research[Cases[case]]
<1> DEFINE run == Cases[case]
           submitted == {x[1] : x \in batch.results}
<1>1. /\ \A r \in journal[i].result : r \in research[run] /\ <<run, r>> \in batch.results
      /\ \A x \in batch.results : x[1] = run => x[2] \in journal[i].result
  BY SubmittedIsNamed
<1>2. run \in submitted <=> journal[i].result # {}
  <2>1. ASSUME run \in submitted PROVE journal[i].result # {}
    <3>1. PICK x \in batch.results : x[1] = run
      BY <2>1
    <3>2. QED
      BY <1>1, <3>1
  <2>2. ASSUME journal[i].result # {} PROVE run \in submitted
    <3>1. PICK r \in journal[i].result : TRUE
      BY <2>2
    <3>2. <<run, r>> \in batch.results /\ <<run, r>>[1] = run
      BY <1>1, <3>1
    <3>3. QED
      BY <3>2
  <2>3. QED
    BY <2>1, <2>2
<1>3. ASSUME journal[i].event = "case_recorded", run \notin damaged
      PROVE  run \in submitted /\ \E x \in batch.results : x[1] = run /\ Verified(run, x[2])
  <2>1. i \in DOMAIN journal /\ IsVerdict(i)
    BY SettledAreVerdicts
  <2>2. journal[i].result # {}
    BY <1>3, <2>1 DEF BatchInv, JournalAgrees
  <2>3. PICK r \in journal[i].result : r \in research[run] /\ <<run, r>> \in batch.results
    BY <1>1, <2>2
  <2>4. run \in Runs
    BY BatchAssumption
  <2>5. r.run = run
    BY <2>3, <2>4 DEF BatchInv, SynthesisInv, ResultAgrees
  <2>6. <<run, r>>[1] = run /\ Verified(run, <<run, r>>[2])
    BY <1>3, <2>5 DEF Verified
  <2>7. QED
    BY <1>2, <2>2, <2>3, <2>6
<1>4. EvidenceStatus(batch.results, run) =
        IF run \notin submitted THEN "missing"
        ELSE IF \E x \in batch.results : x[1] = run /\ Verified(run, x[2]) THEN "verified"
        ELSE "invalid"
  BY DEF EvidenceStatus
<1> HIDE DEF run, submitted
<1>5. PICK status : status = EvidenceStatus(batch.results, run)
  OBVIOUS
<1>6. /\ (status = "missing") <=> (journal[i].result = {})
      /\ journal[i].event = "case_recorded" /\ run \notin damaged => status = "verified"
      /\ journal[i].result \subseteq research[run]
  BY <1>1, <1>2, <1>3, <1>4, <1>5
<1>7. QED
  BY <1>5, <1>6 DEF run

\* The journal accounts for a batch, wherever it stopped, and the submission is graded by what the
\* journal says; the runs together stay within what was authorized
\* (evaluation/research_runner.py:58-159, research_batch.py:60-122).
THEOREM BatchIsAlwaysAccounted == BatchSpec => []BatchIsAccounted
<1>1. BatchSpec => []BatchInv
  BY BatchInit, BatchNext, PTL DEF BatchSpec
<1>2. BatchInv => BatchIsAccounted
  <2> SUFFICES ASSUME BatchInv, batch.pc # "idle" PROVE BatchIsAccounted
    BY DEF BatchIsAccounted, BatchAt
  <2>1. ASSUME NEW case \in DOMAIN Cases,
               ledger[Cases[case]] # NoLedger \/ calls[Cases[case]] # <<>>
        PROVE  Entries("case_dispatch", case) # {}
    <3>1. PICK other \in DOMAIN Cases : Cases[other] = Cases[case] /\ IsDispatched(other)
      BY <2>1, BatchAssumption DEF BatchInv, TouchedAreDispatched
    <3>2. other = case
      BY <3>1, BatchAssumption
    <3>3. QED
      BY <3>1, <3>2 DEF IsDispatched, Entries
  <2>2. ASSUME NEW case \in DOMAIN Cases,
               \/ Entries("case_dispatch", case + 1) # {}
               \/ Entries("batch_recorded", Len(Cases) + 1) # {}
        PROVE  Settled(case) # {}
    BY <2>2, LaterEntriesFollow
  <2>3. \A case \in DOMAIN Cases : Cardinality(Settled(case)) <= 1
    BY OneVerdict
  <2>4. \A case \in DOMAIN Cases : \A i \in Settled(case) :
          LET status == EvidenceStatus(batch.results, Cases[case]) IN
          /\ (status = "missing") <=> (journal[i].result = {})
          /\ journal[i].event = "case_recorded" /\ Cases[case] \notin damaged => status = "verified"
          /\ journal[i].result \subseteq research[Cases[case]]
    BY GradesFollowTheJournal
  <2>5. SumFunction([run \in Runs |-> Charged(run)]) <= batch.ceiling
    BY BatchIsWithinCeiling
  <2>6. ~Rejected(batch.results)
    BY SubmissionIsRegular
  <2>7. QED
    BY <2>1, <2>2, <2>3, <2>4, <2>5, <2>6 DEF BatchIsAccounted
<1>3. QED
  BY <1>1, <1>2, PTL

-----------------------------------------------------------------------------
(* The catalog of datasets: rights are checked when something is handed    *)
(* out, rows are never taken back and never change whom they are for.      *)

CatalogRow == [manifest : DOMAIN Versions, shared : BOOLEAN]

CatalogCall ==
  [pc : {"verifying", "ended"}, kind : {"publish", "get"}, principal : DOMAIN Principals,
   version : DOMAIN Versions, use : {"local_research", "public_demo"}, shared : BOOLEAN,
   left : SUBSET DataObjects,
   outcome : {Absent, "unverified", "returned", "denied", "conflict", "published", "unknown"}]

CatalogType ==
  /\ DOMAIN rows \subseteq (DOMAIN Principals) \X (DOMAIN Versions)
  /\ rows \in [DOMAIN rows -> CatalogRow]
  /\ client \in [Clients -> {NoCall} \cup CatalogCall]

\* Who may read the version of a call finds a row of it.
Reachable(call) ==
  \/ <<call.principal, call.version>> \in DOMAIN rows
  \/ \E k \in DOMAIN rows : k[2] = call.version /\ rows[k].shared

\* What was checked before the first object was read.
CallAgrees(call) ==
  call # NoCall =>
    /\ call.kind = "publish" =>
         /\ "ingest_dataset" \in Principals[call.principal]
         /\ call.shared => "publish_dataset" \in Principals[call.principal] /\ call.use = "public_demo"
    /\ call.kind = "get" => Reachable(call)
    /\ call.pc = "ended" /\ call.outcome \in {"returned", "published"} =>
         Permits(call.version, call.use) /\ Reachable(call)

RowsAgree ==
  \A k \in DOMAIN rows :
    /\ "ingest_dataset" \in Principals[k[1]]
    /\ rows[k].shared => "publish_dataset" \in Principals[k[1]] /\ "public_demo" \in Versions[k[2]].uses

CatalogInv == CatalogType /\ RowsAgree /\ \A c \in Clients : CallAgrees(client[c])

\* A step of one client that leaves the rows, and what the others were told.
LEMMA CatalogStep ==
  ASSUME CatalogInv, UNCHANGED <<instant, rows>>, NEW c \in Clients, NEW call,
         call \in {NoCall} \cup CatalogCall, CallAgrees(call), client' = [client EXCEPT ![c] = call]
  PROVE  CatalogInv'
<1>1. CatalogType'
  BY DEF CatalogInv, CatalogType
<1>2. RowsAgree'
  BY DEF CatalogInv, RowsAgree
<1>3. \A d : CallAgrees(d)' <=> CallAgrees(d)
  BY DEF CallAgrees, Reachable, Permits
<1>4. ASSUME NEW d \in Clients PROVE CallAgrees(client'[d])
  <2>1. client'[d] = IF d = c THEN call ELSE client[d]
    BY DEF CatalogInv, CatalogType
  <2>2. QED
    BY <2>1 DEF CatalogInv
<1>5. \A d \in Clients : CallAgrees(client[d])'
  BY <1>4 DEF CallAgrees, Reachable, Permits
<1>6. QED
  BY <1>1, <1>2, <1>5 DEF CatalogInv

\* What a call is while it is verifying, and when it has ended.
LEMMA CallFields ==
  ASSUME CatalogInv, NEW c \in Clients, ClientAt(c, "verifying")
  PROVE  /\ client[c] \in CatalogCall /\ CallAgrees(client[c]) /\ client[c] # NoCall
         /\ \A outcome \in {"unverified", "returned", "denied", "conflict", "published", "unknown"} :
              Ends(c, outcome) =>
                /\ client' = [client EXCEPT ![c] = [client[c] EXCEPT !.pc = "ended", !.outcome = outcome]]
                /\ [client[c] EXCEPT !.pc = "ended", !.outcome = outcome] \in CatalogCall
<1>1. client[c] # NoCall
  BY DEF ClientAt, NoCall
<1>2. client[c] \in CatalogCall /\ CallAgrees(client[c])
  BY <1>1 DEF CatalogInv, CatalogType
<1>3. ASSUME NEW outcome \in {"unverified", "returned", "denied", "conflict", "published", "unknown"},
             Ends(c, outcome)
      PROVE  /\ client' = [client EXCEPT ![c] = [client[c] EXCEPT !.pc = "ended", !.outcome = outcome]]
             /\ [client[c] EXCEPT !.pc = "ended", !.outcome = outcome] \in CatalogCall
  <2>1. client' = [client EXCEPT ![c] = [client[c] EXCEPT !.pc = "ended", !.outcome = outcome]]
    BY <1>3 DEF Ends
  <2>2. [client[c] EXCEPT !.pc = "ended", !.outcome = outcome] \in CatalogCall
    BY <1>2, Zenon DEF CatalogCall
  <2>3. QED
    BY <2>1, <2>2
<1>4. QED
  BY <1>1, <1>2, <1>3

\* A call that ends without having got anything, or with what it may have.
LEMMA EndKeeps ==
  ASSUME CatalogInv, NEW c \in Clients, ClientAt(c, "verifying"), UNCHANGED <<instant, rows>>,
         NEW outcome \in {"unverified", "returned", "denied", "conflict", "unknown"}, Ends(c, outcome),
         outcome = "returned" => client[c].kind = "get" /\ StillPermitted(c)
  PROVE  CatalogInv'
<1>1. PICK call : call = [client[c] EXCEPT !.pc = "ended", !.outcome = outcome]
  OBVIOUS
<1>2. client[c] \in CatalogCall /\ CallAgrees(client[c]) /\ client[c] # NoCall
  BY CallFields
<1>3. client' = [client EXCEPT ![c] = call] /\ call \in CatalogCall
  BY <1>1, CallFields
<1>4. /\ call.kind = client[c].kind /\ call.principal = client[c].principal /\ call.shared = client[c].shared
      /\ call.use = client[c].use /\ call.version = client[c].version /\ call.outcome = outcome
  BY <1>1, <1>2 DEF CatalogCall
<1>5. CallAgrees(call)
  BY <1>2, <1>4 DEF CallAgrees, Reachable, StillPermitted
<1>6. QED
  BY <1>3, <1>5, CatalogStep

\* A call begins with what it was checked for.
LEMMA BeginKeepsCatalog ==
  ASSUME CatalogInv, NEW c \in Clients, NEW principal \in DOMAIN Principals,
         NEW version \in DOMAIN Versions, NEW shared \in BOOLEAN,
         NEW use \in {"local_research", "public_demo"}, NEW kind \in {"publish", "get"},
         Begins(c, kind, principal, version, use, shared), UNCHANGED <<instant, rows>>,
         kind = "publish" =>
           /\ "ingest_dataset" \in Principals[principal]
           /\ shared => "publish_dataset" \in Principals[principal] /\ use = "public_demo",
         kind = "get" => \E k \in Readable(principal, version) : TRUE
  PROVE  CatalogInv'
<1>1. PICK call : call = [pc |-> "verifying", kind |-> kind, principal |-> principal, version |-> version,
                          use |-> use, shared |-> shared, left |-> Versions[version].objects,
                          outcome |-> Absent]
  OBVIOUS
<1>2. call \in CatalogCall
  BY <1>1, CatalogAssumption DEF CatalogCall
<1>3. client' = [client EXCEPT ![c] = call]
  BY <1>1 DEF Begins
<1>4. ASSUME kind = "get" PROVE Reachable(call)
  <2>1. PICK k \in DOMAIN rows : k[2] = version /\ (k[1] = principal \/ rows[k].shared) /\ k \in Readable(principal, version)
    BY <1>4 DEF Readable
  <2>2. CASE rows[k].shared
    BY <1>1, <2>1, <2>2 DEF Reachable
  <2>3. CASE k[1] = principal
    <3>1. k = <<k[1], k[2]>>
      <4>1. k \in (DOMAIN Principals) \X (DOMAIN Versions)
        BY <2>1 DEF CatalogInv, CatalogType
      <4>2. QED
        BY <4>1
    <3>2. QED
      BY <1>1, <2>1, <2>3, <3>1 DEF Reachable
  <2>4. QED
    BY <2>1, <2>2, <2>3
<1>5. CallAgrees(call)
  BY <1>1, <1>4 DEF CallAgrees
<1>6. QED
  BY <1>2, <1>3, <1>5, CatalogStep

\* An object is read, or found damaged.
LEMMA VerifyKeeps ==
  ASSUME CatalogInv, NEW c \in Clients, VerifyObject(c)
  PROVE  CatalogInv'
<1>1. ClientAt(c, "verifying") /\ UNCHANGED <<instant, rows>>
  BY DEF VerifyObject
<1>2. CASE Ends(c, "unverified")
  BY <1>1, <1>2, EndKeeps
<1>3. CASE \E o \in client[c].left : client' = [client EXCEPT ![c].left = @ \ {o}]
  <2>1. PICK o \in client[c].left : client' = [client EXCEPT ![c].left = @ \ {o}]
    BY <1>3
  <2>2. client[c] \in CatalogCall /\ CallAgrees(client[c]) /\ client[c] # NoCall
    BY <1>1, CallFields
  <2>3. PICK call : call = [client[c] EXCEPT !.left = @ \ {o}]
    OBVIOUS
  <2>4. call \in CatalogCall
    <3>1. client[c].left \ {o} \in SUBSET DataObjects
      BY <2>2 DEF CatalogCall
    <3>2. call = [client[c] EXCEPT !.left = client[c].left \ {o}]
      BY <2>3
    <3>3. QED
      BY <2>2, <3>1, <3>2, Zenon DEF CatalogCall
  <2>5. client' = [client EXCEPT ![c] = call]
    BY <2>1, <2>3
  <2>6. /\ call.kind = client[c].kind /\ call.principal = client[c].principal
        /\ call.shared = client[c].shared /\ call.use = client[c].use /\ call.version = client[c].version
        /\ call.pc = "verifying"
    BY <1>1, <2>2, <2>3 DEF CatalogCall, ClientAt
  <2>7. CallAgrees(call)
    BY <2>2, <2>6 DEF CallAgrees, Reachable
  <2>8. QED
    BY <1>1, <2>4, <2>5, <2>7, CatalogStep
<1>4. QED
  BY <1>2, <1>3 DEF VerifyObject

\* Who is answered has no call any more.
LEMMA ForgetKeeps ==
  ASSUME CatalogInv, NEW c \in Clients, Forget(c)
  PROVE  CatalogInv'
<1>1. client' = [client EXCEPT ![c] = NoCall] /\ UNCHANGED <<instant, rows>>
  BY DEF Forget
<1>2. CallAgrees(NoCall)
  BY DEF CallAgrees
<1>3. QED
  BY <1>1, <1>2, CatalogStep

\* Rows may be added and their manifests altered: whom a row is for does not change.
LEMMA MoreRows ==
  ASSUME CatalogInv, DOMAIN rows \subseteq DOMAIN rows', UNCHANGED instant,
         \A k \in DOMAIN rows : rows'[k].shared = rows[k].shared
  PROVE  \A call : CallAgrees(call) => CallAgrees(call)'
<1>1. \A call : Reachable(call) => Reachable(call)'
  BY DEF Reachable
<1>2. QED
  BY <1>1 DEF CallAgrees, Permits

\* A version is published by who may, for a use that its rights permit at the commit.
LEMMA CommitKeeps ==
  ASSUME CatalogInv, NEW c \in Clients, CommitPublish(c)
  PROVE  CatalogInv'
<1>1. PICK call, key, row : /\ call = client[c] /\ key = <<call.principal, call.version>>
                            /\ row = [manifest |-> call.version, shared |-> call.shared]
  OBVIOUS
<1>2. /\ ClientAt(c, "verifying") /\ call.kind = "publish" /\ UNCHANGED <<instant, intact, callsMade>>
      /\ \/ (Ends(c, "conflict") \/ Ends(c, "denied")) /\ UNCHANGED rows
         \/ /\ ~ (key \in DOMAIN rows /\ rows[key] # row) /\ StillPermitted(c) /\ Ends(c, "published")
            /\ rows' = [k \in DOMAIN rows \cup {key} |-> IF k = key THEN row ELSE rows[k]]
  BY <1>1 DEF CommitPublish
<1>3. CASE (Ends(c, "conflict") \/ Ends(c, "denied")) /\ UNCHANGED rows
  BY <1>2, <1>3, EndKeeps
<1>4. CASE /\ ~ (key \in DOMAIN rows /\ rows[key] # row) /\ StillPermitted(c) /\ Ends(c, "published")
           /\ rows' = [k \in DOMAIN rows \cup {key} |-> IF k = key THEN row ELSE rows[k]]
  <2>1. call \in CatalogCall /\ CallAgrees(call) /\ call # NoCall
    BY <1>1, <1>2, CallFields
  <2>2. /\ key \in (DOMAIN Principals) \X (DOMAIN Versions) /\ row \in CatalogRow
        /\ key[1] = call.principal /\ key[2] = call.version /\ row.shared = call.shared
    BY <1>1, <2>1 DEF CatalogCall, CatalogRow
  <2>3. /\ DOMAIN rows' = DOMAIN rows \cup {key} /\ rows'[key] = row
        /\ \A k \in DOMAIN rows : rows'[k] = rows[k]
    BY <1>4
  <2>4. CatalogType'
    <3>1. rows' \in [DOMAIN rows' -> CatalogRow]
      BY <1>4, <2>2, <2>3 DEF CatalogInv, CatalogType
    <3>2. PICK done : done = [call EXCEPT !.pc = "ended", !.outcome = "published"]
      OBVIOUS
    <3>3. client' = [client EXCEPT ![c] = done] /\ done \in CatalogCall
      BY <1>1, <1>2, <1>4, <3>2, CallFields
    <3>4. client' \in [Clients -> {NoCall} \cup CatalogCall]
      BY <3>3 DEF CatalogInv, CatalogType
    <3>5. QED
      BY <2>2, <2>3, <3>1, <3>4 DEF CatalogInv, CatalogType
  <2>5. /\ "ingest_dataset" \in Principals[call.principal]
        /\ call.shared => "publish_dataset" \in Principals[call.principal] /\ call.use = "public_demo"
        /\ Permits(call.version, call.use)
    BY <1>1, <1>2, <1>4, <2>1 DEF CallAgrees, StillPermitted
  <2>6. RowsAgree'
    <3>1. ASSUME NEW k \in DOMAIN rows'
          PROVE  /\ "ingest_dataset" \in Principals[k[1]]
                 /\ rows'[k].shared => /\ "publish_dataset" \in Principals[k[1]]
                                       /\ "public_demo" \in Versions[k[2]].uses
      <4>1. CASE k \in DOMAIN rows
        BY <2>3, <4>1 DEF CatalogInv, RowsAgree
      <4>2. CASE k = key
        BY <2>2, <2>3, <2>5, <4>2 DEF Permits
      <4>3. QED
        BY <2>3, <4>1, <4>2
    <3>2. QED
      BY <3>1 DEF RowsAgree
  <2>7. \A d \in Clients : CallAgrees(client[d])'
    <3>1. \A other : CallAgrees(other) => CallAgrees(other)'
      BY <1>2, <2>3, MoreRows
    <3>2. PICK done : done = [call EXCEPT !.pc = "ended", !.outcome = "published"]
      OBVIOUS
    <3>3. client' = [client EXCEPT ![c] = done] /\ done \in CatalogCall
      BY <1>1, <1>2, <1>4, <3>2, CallFields
    <3>4. /\ done.kind = "publish" /\ done.principal = call.principal /\ done.version = call.version
          /\ done.use = call.use /\ done.shared = call.shared
      BY <1>2, <2>1, <3>2 DEF CatalogCall
    <3>5. Reachable(done)' /\ Permits(done.version, done.use)'
      BY <1>1, <1>2, <2>3, <2>5, <3>4 DEF Reachable, Permits
    <3>6. CallAgrees(done)'
      BY <2>5, <3>4, <3>5 DEF CallAgrees
    <3>7. ASSUME NEW d \in Clients PROVE CallAgrees(client[d])'
      <4>1. client'[d] = IF d = c THEN done ELSE client[d]
        BY <3>3 DEF CatalogInv, CatalogType
      <4>2. CASE d = c
        BY <3>6, <4>1, <4>2 DEF CallAgrees, Reachable, Permits
      <4>3. CASE d # c
        <5>1. CallAgrees(client[d])
          BY DEF CatalogInv
        <5>2. client'[d] = client[d]
          BY <4>1, <4>3
        <5>3. PICK other : other = client[d]
          OBVIOUS
        <5>4. CallAgrees(other)'
          BY <3>1, <5>1, <5>3
        <5>5. QED
          BY <5>2, <5>3, <5>4 DEF CallAgrees, Reachable, Permits
      <4>4. QED
        BY <4>2, <4>3
    <3>8. QED
      BY <3>7
  <2>8. QED
    BY <2>4, <2>6, <2>7 DEF CatalogInv
<1>5. QED
  BY <1>2, <1>3, <1>4

\* Altered metadata are not for anybody else.
LEMMA AlterKeeps ==
  ASSUME CatalogInv, NEW k \in DOMAIN rows, NEW version \in DOMAIN Versions, AlterRow(k, version)
  PROVE  CatalogInv'
<1>1. rows' = [rows EXCEPT ![k].manifest = version] /\ UNCHANGED <<instant, client>>
  BY DEF AlterRow
<1>2. PICK row : row = [rows[k] EXCEPT !.manifest = version]
  OBVIOUS
<1>3. row \in CatalogRow /\ row.shared = rows[k].shared
  <2>1. rows[k] \in CatalogRow
    BY DEF CatalogInv, CatalogType
  <2>2. row \in CatalogRow
    BY <1>2, <2>1, Zenon DEF CatalogRow
  <2>3. QED
    BY <1>2, <2>1, <2>2 DEF CatalogRow
<1>4. rows' = [rows EXCEPT ![k] = row]
  BY <1>1, <1>2
<1>5. DOMAIN rows' = DOMAIN rows /\ \A l \in DOMAIN rows : rows'[l].shared = rows[l].shared
  BY <1>3, <1>4 DEF CatalogInv, CatalogType
<1>6. CatalogType'
  BY <1>1, <1>3, <1>4, <1>5 DEF CatalogInv, CatalogType
<1>7. RowsAgree'
  BY <1>5 DEF CatalogInv, RowsAgree
<1>8. \A call : CallAgrees(call) => CallAgrees(call)'
  BY <1>1, <1>5, MoreRows
<1>9. ASSUME NEW d \in Clients PROVE CallAgrees(client[d])'
  <2>1. PICK call : call = client[d]
    OBVIOUS
  <2>2. CallAgrees(call)'
    BY <1>8, <2>1 DEF CatalogInv
  <2>3. QED
    BY <1>1, <2>1, <2>2 DEF CallAgrees, Reachable, Permits
<1>10. QED
  BY <1>6, <1>7, <1>9 DEF CatalogInv

\* A retention ends while nobody holds an answer.
LEMMA InstantKeeps ==
  ASSUME CatalogInv, PassInstant
  PROVE  CatalogInv'
<1>1. UNCHANGED <<rows, client>> /\ \A c \in Clients : client[c].pc # "ended"
  BY DEF PassInstant, ClientAt
<1>2. CatalogType' /\ RowsAgree'
  BY <1>1 DEF CatalogInv, CatalogType, RowsAgree
<1>3. \A c \in Clients : CallAgrees(client[c])'
  BY <1>1 DEF CatalogInv, CallAgrees, Reachable
<1>4. QED
  BY <1>2, <1>3 DEF CatalogInv

\* Every step of the catalog.
LEMMA CatalogNext ==
  CatalogInv /\ [NextCatalog]_catalogVars => CatalogInv'
<1> SUFFICES ASSUME CatalogInv, [NextCatalog]_catalogVars PROVE CatalogInv'
  OBVIOUS
<1>1. ASSUME NEW c \in Clients,
             VerifyObject(c) \/ Return(c) \/ CommitPublish(c) \/ Disconnect(c) \/ Forget(c)
      PROVE  CatalogInv'
  <2>1. CASE Return(c)
    <3>1. PICK outcome : outcome = IF StillPermitted(c) THEN "returned" ELSE "denied"
      OBVIOUS
    <3>2. /\ ClientAt(c, "verifying") /\ UNCHANGED <<instant, rows>> /\ client[c].kind = "get"
          /\ outcome \in {"returned", "denied"} /\ Ends(c, outcome)
          /\ outcome = "returned" => StillPermitted(c)
      BY <2>1, <3>1 DEF Return
    <3>3. QED
      BY <3>2, EndKeeps
  <2>2. CASE Disconnect(c)
    <3>1. ClientAt(c, "verifying") /\ UNCHANGED <<instant, rows>> /\ Ends(c, "unknown")
      BY <2>2 DEF Disconnect
    <3>2. QED
      BY <3>1, EndKeeps
  <2>3. QED
    BY <1>1, <2>1, <2>2, VerifyKeeps, CommitKeeps, ForgetKeeps
<1>2. ASSUME NEW c \in Clients, NEW principal \in DOMAIN Principals, NEW version \in DOMAIN Versions,
             NEW shared \in BOOLEAN, BeginPublish(c, principal, version, shared)
      PROVE  CatalogInv'
  <2>1. PICK use : use = IF shared THEN "public_demo" ELSE "local_research"
    OBVIOUS
  <2>2. /\ use \in {"local_research", "public_demo"} /\ UNCHANGED <<instant, rows>>
        /\ Begins(c, "publish", principal, version, use, shared)
        /\ "ingest_dataset" \in Principals[principal]
        /\ shared => "publish_dataset" \in Principals[principal] /\ use = "public_demo"
    BY <1>2, <2>1 DEF BeginPublish
  <2>3. QED
    BY <2>2, BeginKeepsCatalog
<1>3. ASSUME NEW c \in Clients, NEW principal \in DOMAIN Principals, NEW version \in DOMAIN Versions,
             NEW use \in {"local_research", "public_demo"}, BeginGet(c, principal, version, use)
      PROVE  CatalogInv'
  <2>1. PICK k \in Readable(principal, version) :
          Begins(c, "get", principal, version, use, rows[k].shared) /\ UNCHANGED <<instant, rows>>
    BY <1>3 DEF BeginGet
  <2>2. PICK shared : shared = rows[k].shared
    OBVIOUS
  <2>3. shared \in BOOLEAN
    BY <2>1, <2>2 DEF Readable, CatalogInv, CatalogType, CatalogRow
  <2>4. Begins(c, "get", principal, version, use, shared) /\ \E l \in Readable(principal, version) : TRUE
    BY <2>1, <2>2
  <2>5. QED
    BY <2>1, <2>3, <2>4, BeginKeepsCatalog
<1>4. ASSUME UNCHANGED <<instant, rows, client>> PROVE CatalogInv'
  BY <1>4 DEF CatalogInv, CatalogType, RowsAgree, CallAgrees, Reachable, Permits
<1>5. CASE \E o \in DataObjects : DamageObject(o)
  BY <1>4, <1>5 DEF DamageObject
<1>6. CASE \E k \in DOMAIN rows, version \in DOMAIN Versions : AlterRow(k, version)
  BY <1>6, AlterKeeps
<1>7. CASE PassInstant
  BY <1>7, InstantKeeps
<1>8. CASE UNCHANGED catalogVars
  BY <1>4, <1>8 DEF catalogVars
<1>9. QED
  BY <1>1, <1>2, <1>3, <1>5, <1>6, <1>7, <1>8 DEF NextCatalog

\* However long the objects took to verify, and whatever happened meanwhile to rights, rows and
\* objects, a dataset is handed out or published only while its rights permit the use, by and to
\* whom they permit it (data/catalog.py:46-125).
THEOREM CatalogStaysGuarded ==
  InitCatalog /\ [][NextCatalog]_catalogVars => []CatalogIsGuarded
<1>1. InitCatalog => CatalogInv
  BY DEF InitCatalog, CatalogInv, CatalogType, RowsAgree, CallAgrees
<1>2. CatalogInv /\ [NextCatalog]_catalogVars => CatalogInv'
  BY CatalogNext
<1>3. CatalogInv => CatalogIsGuarded
  <2> SUFFICES ASSUME CatalogInv PROVE CatalogIsGuarded
    OBVIOUS
  <2>1. ASSUME NEW c \in Clients, ClientAt(c, "ended"), client[c].outcome \in {"returned", "published"}
        PROVE  /\ Permits(client[c].version, client[c].use) /\ Reachable(client[c])
    <3>1. client[c] # NoCall
      BY <2>1 DEF ClientAt, NoCall
    <3>2. QED
      BY <2>1, <3>1 DEF CatalogInv, CallAgrees, ClientAt
  <2>2. RowsAgree
    BY DEF CatalogInv
  <2>3. QED
    BY <2>1, <2>2 DEF CatalogIsGuarded, Reachable, RowsAgree
<1>4. QED
  BY <1>1, <1>2, <1>3, PTL

-----------------------------------------------------------------------------
(* The attempt at a model.  What is read to its end is archived and nothing *)
(* else is, until a capture fails; the digest of the first lookup is the    *)
(* one that the attempt goes on with.                                       *)

CaptureSet == {"inventory", "version", "response", "inventory_after"}

Bodies == Models \cup {Unset}

Evidence == [asked : SUBSET CaptureSet, complete : SUBSET CaptureSet, archived : SUBSET (CaptureSet \X Bodies)]

Attempts ==
  [pc : {"open", "reading"}, step : 1 .. 4, evidence : Evidence, digest : Bodies,
   reason : {"stop", "length", Unset}, received : 0 .. MaxResponse, heard : SUBSET CaptureSet,
   body : Bodies, wait : Int, until : Int, deadline : Int]

ArchivedNames(e) == {c[1] : c \in e.archived}

\* The answers heard of: those read to their end and, once a part of it came, the one being read.
HeardOf(a) ==
  a.evidence.complete \cup (IF a.pc = "reading" /\ a.received > 0 THEN {Name(a)} ELSE {})

AttemptFits(a) ==
  /\ a \in Attempts
  /\ a.evidence.complete = {Captures[i] : i \in 1 .. a.step - 1}
  /\ ArchivedNames(a.evidence) = a.evidence.complete
  /\ a.heard \subseteq HeardOf(a)
  /\ a.step > 1 =>
       /\ a.digest # Unset
       /\ \A c \in a.evidence.archived : c[1] = "inventory" => c[2] = a.digest

ProviderInv ==
  /\ elapsed \in Nat
  /\ installed \in Bodies
  /\ generation = NotCalled \/ AttemptFits(generation)
  /\ RecordExplainsResult

\* The four captures have names of their own.
LEMMA CaptureNames ==
  /\ Captures[1] = "inventory" /\ Captures[2] = "version"
  /\ Captures[3] = "response" /\ Captures[4] = "inventory_after"
  BY DEF Captures

\* The name of a capture is none of the earlier ones.
LEMMA NamesDiffer ==
  ASSUME NEW s \in 1 .. 4
  PROVE  /\ Captures[s] \in CaptureSet
         /\ Captures[s] \notin {Captures[i] : i \in 1 .. s - 1}
         /\ s > 1 => Captures[s] # "inventory"
         /\ {Captures[i] : i \in 1 .. (s + 1) - 1} = {Captures[i] : i \in 1 .. s - 1} \cup {Captures[s]}
<1>0. s = 1 \/ s = 2 \/ s = 3 \/ s = 4
  OBVIOUS
<1>1. Captures[s] \in CaptureSet /\ (s > 1 => Captures[s] # "inventory")
  <2>1. CASE s = 1
    BY <2>1, CaptureNames DEF CaptureSet
  <2>2. CASE s = 2
    BY <2>2, CaptureNames DEF CaptureSet
  <2>3. CASE s = 3
    BY <2>3, CaptureNames DEF CaptureSet
  <2>4. CASE s = 4
    BY <2>4, CaptureNames DEF CaptureSet
  <2> QED
    BY <1>0, <2>1, <2>2, <2>3, <2>4
<1>2. \A i \in 1 .. s - 1 : Captures[i] # Captures[s]
  BY CaptureNames DEF CaptureSet
<1>3. 1 .. (s + 1) - 1 = (1 .. s - 1) \cup {s}
  OBVIOUS
<1> QED
  BY <1>1, <1>2, <1>3

\* A capture that ends is archived if anything of it was received or it came to its end.
LEMMA ArchivedAdds ==
  ASSUME NEW a \in Attempts, NEW whole \in BOOLEAN
  PROVE  LET e == Archived(a, whole)
             added == IF a.received > 0 \/ whole THEN {Name(a)} ELSE {}
         IN /\ e \in Evidence
            /\ ArchivedNames(e) = ArchivedNames(a.evidence) \cup added
            /\ e.complete = a.evidence.complete \cup (IF whole THEN {Name(a)} ELSE {})
            /\ \A c \in e.archived : c \in a.evidence.archived \/ c = <<Name(a), a.body>>
            /\ whole => <<Name(a), a.body>> \in e.archived
            /\ a.evidence.archived \subseteq e.archived
<1>1. a.evidence \in Evidence /\ a.step \in 1 .. 4 /\ a.body \in Bodies
  BY DEF Attempts
<1>2. Name(a) \in CaptureSet
  BY <1>1, NamesDiffer DEF Name
<1>3. PICK n : n = Name(a)
  OBVIOUS
<1>4. PICK more : more = (a.received > 0 \/ whole)
  OBVIOUS
<1>5. Archived(a, whole) =
        [asked |-> a.evidence.asked \cup {n},
         complete |-> a.evidence.complete \cup (IF whole THEN {n} ELSE {}),
         archived |-> a.evidence.archived \cup (IF more THEN {<<n, a.body>>} ELSE {})]
  BY <1>3, <1>4 DEF Archived
<1>6. PICK old, b : old = a.evidence.archived /\ b = a.body
  OBVIOUS
<1>7. {c[1] : c \in old \cup (IF more THEN {<<n, b>>} ELSE {})}
        = {c[1] : c \in old} \cup (IF more THEN {n} ELSE {})
  <2>1. <<n, b>>[1] = n
    OBVIOUS
  <2>2. CASE more
    BY <2>1, <2>2, Zenon
  <2>3. CASE ~more
    BY <2>3
  <2> QED
    BY <2>2, <2>3
<1>8. Archived(a, whole) \in Evidence
  BY <1>1, <1>2, <1>3, <1>5 DEF Evidence
<1>9. whole => more
  BY <1>4
<1>10. ArchivedNames(Archived(a, whole)) = ArchivedNames(a.evidence) \cup (IF more THEN {n} ELSE {})
  BY <1>5, <1>6, <1>7 DEF ArchivedNames
<1>11. ArchivedNames(Archived(a, whole))
          = ArchivedNames(a.evidence) \cup (IF a.received > 0 \/ whole THEN {Name(a)} ELSE {})
  BY <1>3, <1>4, <1>10, Zenon
<1>12. Archived(a, whole).complete = a.evidence.complete \cup (IF whole THEN {Name(a)} ELSE {})
  BY <1>3, <1>5
<1>13. Archived(a, whole).archived = old \cup (IF more THEN {<<n, b>>} ELSE {})
  BY <1>5, <1>6
<1>14. \A c \in Archived(a, whole).archived : c \in old \/ c = <<n, b>>
  BY <1>13
<1>15. (whole => <<n, b>> \in Archived(a, whole).archived) /\ old \subseteq Archived(a, whole).archived
  BY <1>9, <1>13
<1> QED
  BY <1>3, <1>6, <1>8, <1>11, <1>12, <1>14, <1>15, Zenon

\* A record that reports no answer explains itself once what was heard of is archived.
LEMMA FailureExplained ==
  ASSUME NEW a, NEW status \in {"unavailable", "malformed"}, Delivered(a, status),
         a.heard \subseteq ArchivedNames(a.evidence)
  PROVE  RecordExplainsResult'
<1>1. PICK h, e : h = a.heard /\ e = a.evidence
  OBVIOUS
<1>2. delivery'.heard = h /\ delivery'.evidence = e /\ delivery'.status = status
  BY <1>1 DEF Delivered
<1>3. h \subseteq {c[1] : c \in e.archived}
  BY <1>1 DEF ArchivedNames
<1>4. delivery'.status \notin {"success", "truncated"}
  BY <1>2
<1> QED
  BY <1>2, <1>3, <1>4, Zenon DEF RecordExplainsResult

\* What is archived where a capture fails covers all that was heard of.
LEMMA CaptureFailureExplained ==
  ASSUME NEW a \in Attempts, NEW whole \in BOOLEAN, NEW status \in {"unavailable", "malformed"},
         CaptureFails(a, whole, status),
         ArchivedNames(a.evidence) = a.evidence.complete,
         a.heard \subseteq a.evidence.complete
           \cup (IF a.received > 0 \/ whole THEN {Name(a)} ELSE {})
  PROVE  RecordExplainsResult' /\ generation' = NotCalled
<1> DEFINE b == [a EXCEPT !.evidence = Archived(a, whole)]
<1>1. PICK e : e = Archived(a, whole)
  OBVIOUS
<1>2. ArchivedNames(e) = ArchivedNames(a.evidence)
                           \cup (IF a.received > 0 \/ whole THEN {Name(a)} ELSE {})
  BY <1>1, ArchivedAdds
<1>3. b.heard = a.heard /\ b.evidence = e
  BY <1>1 DEF Attempts
<1>4. b.heard \subseteq ArchivedNames(b.evidence)
  BY <1>2, <1>3
<1>5. Delivered(b, status)
  BY DEF CaptureFails
<1> HIDE DEF b
<1>6. RecordExplainsResult'
  BY <1>4, <1>5, FailureExplained
<1> QED
  BY <1>5, <1>6 DEF Delivered

\* A called attempt is not one that was never called.
LEMMA CalledFits ==
  ASSUME ProviderInv, generation # NotCalled
  PROVE  AttemptFits(generation) /\ generation \in Attempts
  BY DEF ProviderInv, AttemptFits

LEMMA NotIdle ==
  ASSUME generation.pc \in {"open", "reading"}
  PROVE  generation # NotCalled
  BY DEF NotCalled

LEMMA EarlierIs ==
  ASSUME NEW s \in Int, NEW t \in Int
  PROVE  Earlier(s, t) \in Int /\ Earlier(s, t) <= s /\ Earlier(s, t) <= t
         /\ (Earlier(s, t) = s \/ Earlier(s, t) = t)
  BY DEF Earlier

LEMMA GenerateKeepsProvider ==
  ASSUME ProviderInv, Generate
  PROVE  ProviderInv'
<1>1. PICK operation \in {0, 1, AttemptTime + 1} :
        generation' = [pc |-> "open", step |-> 1, evidence |-> NoEvidence, digest |-> Unset,
                   reason |-> Unset, received |-> 0, heard |-> {}, body |-> Unset, wait |-> 0,
                   until |-> 0, deadline |-> Earlier(elapsed + AttemptTime, elapsed + operation)]
  BY DEF Generate
<1>2. AttemptTime \in Nat /\ elapsed \in Nat /\ MaxResponse \in Nat
  BY ProviderAssumption DEF ProviderInv
<1>3. PICK due \in Int : due = Earlier(elapsed + AttemptTime, elapsed + operation)
  BY <1>2, EarlierIs
<1>4. NoEvidence \in Evidence /\ ArchivedNames(NoEvidence) = {} /\ NoEvidence.complete = {}
  BY DEF NoEvidence, Evidence, ArchivedNames
<1>5. PICK none : none = NoEvidence
  OBVIOUS
<1>6. PICK a : a = [pc |-> "open", step |-> 1, evidence |-> none, digest |-> Unset,
                   reason |-> Unset, received |-> 0, heard |-> {}, body |-> Unset, wait |-> 0,
                   until |-> 0, deadline |-> due]
  OBVIOUS
<1>7. a \in Attempts
  BY <1>2, <1>4, <1>5, <1>6 DEF Attempts, Bodies
<1>8. AttemptFits(a)
  <2>1. {Captures[i] : i \in 1 .. a.step - 1} = {}
    BY <1>6
  <2>2. a.step = 1 /\ a.evidence = none /\ a.heard = {}
    BY <1>6
  <2>3. ~(a.step > 1)
    BY <2>2
  <2>4. ArchivedNames(a.evidence) = a.evidence.complete /\ a.evidence.complete = {}
    BY <2>2, <1>4, <1>5
  <2> QED
    BY <2>1, <2>2, <2>3, <2>4, <1>7, Zenon DEF AttemptFits
<1>9. generation' = a
  BY <1>1, <1>3, <1>5, <1>6
<1>10. UNCHANGED <<elapsed, installed, delivery>>
  BY DEF Generate
<1> QED
  BY <1>8, <1>9, <1>10 DEF ProviderInv, RecordExplainsResult

LEMMA OpenStreamKeepsProvider ==
  ASSUME ProviderInv, OpenStream
  PROVE  ProviderInv'
<1>1. generation.pc = "open" /\ UNCHANGED <<elapsed, installed>>
  BY DEF OpenStream
<1>2. AttemptFits(generation) /\ generation \in Attempts
  BY <1>1, NotIdle, CalledFits
<1>3. PICK g, b : g = generation /\ b = installed
  OBVIOUS
<1>4. b \in Bodies /\ elapsed \in Nat /\ MaxResponse \in Nat
  BY <1>3, ProviderAssumption DEF ProviderInv
<1>5. PICK fresh : fresh = [g EXCEPT !.received = 0, !.body = b]
  OBVIOUS
<1>6. fresh \in Attempts
  <2>1. g \in Attempts /\ 0 \in 0 .. MaxResponse
    BY <1>2, <1>3, <1>4
  <2> QED
    BY <2>1, <1>4, <1>5, Zenon DEF Attempts
<1>7. /\ fresh.evidence = g.evidence /\ fresh.heard = g.heard /\ fresh.received = 0
      /\ fresh.step = g.step /\ fresh.digest = g.digest
  BY <1>2, <1>3, <1>5 DEF Attempts
<1>8. ArchivedNames(g.evidence) = g.evidence.complete /\ g.heard \subseteq g.evidence.complete
  BY <1>1, <1>2, <1>3 DEF AttemptFits, HeardOf
<1>9. PICK wait : wait = Earlier(ReadTime, generation.deadline - elapsed)
  OBVIOUS
<1>10. wait \in Int
  BY <1>2, <1>4, <1>9, EarlierIs, ProviderAssumption DEF Attempts
<1>11. \/ CaptureFails(fresh, FALSE, "unavailable")
       \/ /\ generation' = [fresh EXCEPT !.pc = "reading", !.wait = wait, !.until = elapsed + wait]
          /\ UNCHANGED delivery
  BY <1>3, <1>5, <1>9 DEF OpenStream
<1>12. CASE CaptureFails(fresh, FALSE, "unavailable")
  <2>1. fresh.heard \subseteq fresh.evidence.complete
                                \cup (IF fresh.received > 0 \/ FALSE THEN {Name(fresh)} ELSE {})
    BY <1>7, <1>8
  <2>2. ArchivedNames(fresh.evidence) = fresh.evidence.complete
    BY <1>7, <1>8
  <2>3. RecordExplainsResult' /\ generation' = NotCalled
    BY <2>1, <2>2, <1>6, <1>12, CaptureFailureExplained
  <2> QED
    BY <2>3, <1>1 DEF ProviderInv
<1>13. CASE /\ generation' = [fresh EXCEPT !.pc = "reading", !.wait = wait, !.until = elapsed + wait]
            /\ UNCHANGED delivery
  <2>1. PICK a : a = [fresh EXCEPT !.pc = "reading", !.wait = wait, !.until = elapsed + wait]
    OBVIOUS
  <2>2. a \in Attempts
    <3>1. elapsed + wait \in Int
      BY <1>4, <1>10
    <3> QED
      BY <3>1, <2>1, <1>6, <1>10, Zenon DEF Attempts
  <2>3. /\ a.evidence = g.evidence /\ a.heard = g.heard
        /\ a.step = g.step /\ a.digest = g.digest
    BY <2>1, <1>6, <1>7 DEF Attempts
  <2>4. AttemptFits(a)
    BY <2>2, <2>3, <1>2, <1>3, <1>8 DEF AttemptFits, HeardOf
  <2>5. generation' = a
    BY <2>1, <1>13
  <2> QED
    BY <2>4, <2>5, <1>1, <1>13 DEF ProviderInv, RecordExplainsResult
<1> QED
  BY <1>11, <1>12, <1>13

LEMMA ReadChunkKeepsProvider ==
  ASSUME ProviderInv, ReadChunk
  PROVE  ProviderInv'
<1>1. generation.pc = "reading" /\ UNCHANGED <<elapsed, installed>>
  BY DEF ReadChunk
<1>2. AttemptFits(generation) /\ generation \in Attempts
  BY <1>1, NotIdle, CalledFits
<1>3. PICK g : g = generation
  OBVIOUS
<1>4. elapsed \in Nat /\ MaxResponse \in Nat \ {0} /\ g.received \in 0 .. MaxResponse
  BY <1>2, <1>3, ProviderAssumption DEF ProviderInv, Attempts
<1>5. PICK size \in 1 .. 2 :
        LET kept == Earlier(size, MaxResponse - generation.received)
            a == [generation EXCEPT !.received = @ + kept, !.heard = @ \cup {Name(generation)},
                                 !.until = elapsed + generation.wait]
        IN \/ /\ size > kept
              /\ CaptureFails(a, FALSE, "malformed")
           \/ /\ size = kept /\ elapsed >= a.deadline
              /\ CaptureFails(a, FALSE, "unavailable")
           \/ /\ size = kept /\ elapsed < a.deadline
              /\ generation' = a
              /\ UNCHANGED delivery
  BY DEF ReadChunk
<1>6. PICK kept : kept = Earlier(size, MaxResponse - g.received)
  OBVIOUS
<1>7. kept \in Int /\ g.received + kept \in 0 .. MaxResponse /\ g.received + kept > 0
  BY <1>4, <1>6 DEF Earlier
<1>8. PICK n, more, until : /\ n = Name(g) /\ more = g.received + kept
                            /\ until = elapsed + g.wait
  OBVIOUS
<1>9. n \in CaptureSet /\ until \in Int /\ more \in 0 .. MaxResponse /\ more > 0
  BY <1>2, <1>3, <1>4, <1>7, <1>8, NamesDiffer DEF Attempts, Name
<1>10. PICK heard : heard = g.heard \cup {n}
  OBVIOUS
<1>11. PICK a : a = [g EXCEPT !.received = more, !.heard = heard, !.until = until]
  OBVIOUS
<1>12. a \in Attempts
  <2>1. heard \in SUBSET CaptureSet
    BY <1>2, <1>3, <1>9, <1>10 DEF Attempts
  <2>2. g \in Attempts
    BY <1>2, <1>3
  <2> QED
    BY <2>1, <2>2, <1>9, <1>11, Zenon DEF Attempts
<1>13. /\ a.evidence = g.evidence /\ a.heard = heard /\ a.received = more /\ a.pc = g.pc
       /\ a.step = g.step /\ a.digest = g.digest
  BY <1>2, <1>3, <1>11 DEF Attempts
<1>14. Name(a) = n
  BY <1>8, <1>13 DEF Name
<1>15. ArchivedNames(a.evidence) = a.evidence.complete
  BY <1>2, <1>3, <1>13 DEF AttemptFits
<1>16. g.heard \subseteq g.evidence.complete \cup {n}
  BY <1>2, <1>3, <1>8 DEF AttemptFits, HeardOf
<1>17. a.heard \subseteq a.evidence.complete \cup (IF a.received > 0 \/ FALSE THEN {Name(a)} ELSE {})
  BY <1>9, <1>10, <1>13, <1>14, <1>16
<1>18. \/ CaptureFails(a, FALSE, "malformed")
       \/ CaptureFails(a, FALSE, "unavailable")
       \/ generation' = a /\ UNCHANGED delivery
  BY <1>3, <1>5, <1>6, <1>8, <1>10, <1>11
<1>19. ASSUME NEW status \in {"unavailable", "malformed"}, CaptureFails(a, FALSE, status)
       PROVE  ProviderInv'
  <2>1. RecordExplainsResult' /\ generation' = NotCalled
    BY <1>12, <1>15, <1>17, <1>19, CaptureFailureExplained
  <2> QED
    BY <2>1, <1>1 DEF ProviderInv
<1>20. CASE generation' = a /\ UNCHANGED delivery
  <2>1. a.heard \subseteq HeardOf(a)
    BY <1>1, <1>3, <1>13, <1>17 DEF HeardOf
  <2>2. AttemptFits(a)
    BY <2>1, <1>2, <1>3, <1>12, <1>13, <1>15 DEF AttemptFits
  <2> QED
    BY <2>2, <1>1, <1>20 DEF ProviderInv, RecordExplainsResult
<1> QED
  BY <1>18, <1>19, <1>20

LEMMA BreakStreamKeepsProvider ==
  ASSUME ProviderInv, BreakStream
  PROVE  ProviderInv'
<1>1. generation.pc = "reading" /\ UNCHANGED <<elapsed, installed>>
      /\ CaptureFails(generation, FALSE, "unavailable")
  BY DEF BreakStream
<1>2. AttemptFits(generation) /\ generation \in Attempts
  BY <1>1, NotIdle, CalledFits
<1>3. PICK g : g = generation
  OBVIOUS
<1>4. /\ ArchivedNames(g.evidence) = g.evidence.complete
      /\ g.heard \subseteq g.evidence.complete \cup (IF g.received > 0 \/ FALSE THEN {Name(g)} ELSE {})
  BY <1>1, <1>2, <1>3 DEF AttemptFits, HeardOf
<1>5. g \in Attempts /\ CaptureFails(g, FALSE, "unavailable")
  BY <1>1, <1>2, <1>3
<1>6. RecordExplainsResult' /\ generation' = NotCalled
  BY <1>4, <1>5, CaptureFailureExplained
<1> QED
  BY <1>1, <1>6 DEF ProviderInv

\* An answer read to its end: its name is new, and all that is archived is still complete.
LEMMA CompleteAnswer ==
  ASSUME NEW g, NEW a, AttemptFits(g), g.pc = "reading",
         a = [g EXCEPT !.evidence = Archived(g, TRUE)]
  PROVE  /\ a \in Attempts /\ a.step = g.step /\ a.digest = g.digest /\ a.body = g.body
         /\ a.reason = g.reason /\ a.deadline = g.deadline
         /\ a.evidence.complete = {Captures[i] : i \in 1 .. (a.step + 1) - 1}
         /\ ArchivedNames(a.evidence) = a.evidence.complete
         /\ a.heard \subseteq a.evidence.complete
         /\ \A c \in a.evidence.archived :
              /\ c[1] = "inventory" => c[2] = IF a.step > 1 THEN a.digest ELSE a.body
              /\ c[1] = Captures[a.step] => c[2] = a.body
<1>1. PICK e : e = Archived(g, TRUE)
  OBVIOUS
<1>2. g \in Attempts /\ g.step \in 1 .. 4
  BY DEF AttemptFits, Attempts
<1>3. PICK n, b, old : n = Captures[g.step] /\ b = g.body /\ old = g.evidence
  OBVIOUS
<1>4. /\ e \in Evidence /\ ArchivedNames(e) = ArchivedNames(old) \cup {n}
      /\ e.complete = old.complete \cup {n}
      /\ \A c \in e.archived : c \in old.archived \/ c = <<n, b>>
  BY <1>1, <1>2, <1>3, ArchivedAdds DEF Name
<1>5. a \in Attempts
  BY <1>1, <1>2, <1>4, Zenon DEF Attempts
<1>6. /\ a.step = g.step /\ a.digest = g.digest /\ a.body = g.body /\ a.heard = g.heard
      /\ a.reason = g.reason /\ a.deadline = g.deadline /\ a.evidence = e
  BY <1>1, <1>2 DEF Attempts
<1>7. /\ old.complete = {Captures[i] : i \in 1 .. g.step - 1}
      /\ ArchivedNames(old) = old.complete
      /\ g.heard \subseteq old.complete \cup {n}
  BY <1>3 DEF AttemptFits, HeardOf, Name
<1>8. n \notin old.complete /\ e.complete = {Captures[i] : i \in 1 .. (g.step + 1) - 1}
      /\ (g.step > 1 => n # "inventory")
  BY <1>2, <1>3, <1>4, <1>7, NamesDiffer
<1>9. ArchivedNames(e) = e.complete /\ g.heard \subseteq e.complete
  BY <1>4, <1>7
<1>10. ASSUME NEW c \in e.archived
       PROVE  /\ c[1] = "inventory" => c[2] = IF g.step > 1 THEN g.digest ELSE b
              /\ c[1] = n => c[2] = b
  <2>1. CASE c \in old.archived
    <3>1. c[1] \in old.complete
      BY <2>1, <1>7 DEF ArchivedNames
    <3>2. g.step > 1
      BY <3>1, <1>2, <1>7
    <3>3. c[1] = "inventory" => c[2] = g.digest
      BY <2>1, <3>2, <1>3 DEF AttemptFits
    <3> QED
      BY <3>1, <3>2, <3>3, <1>8
  <2>2. CASE c = <<n, b>>
    BY <2>2, <1>8
  <2> QED
    BY <2>1, <2>2, <1>4
<1> QED
  BY <1>3, <1>5, <1>6, <1>8, <1>9, <1>10

\* After an answer that was understood the attempt goes on with the digest of the first one.
LEMMA GoesOn ==
  ASSUME NEW a \in Attempts, a.step < 4,
         a.evidence.complete = {Captures[i] : i \in 1 .. (a.step + 1) - 1},
         ArchivedNames(a.evidence) = a.evidence.complete,
         a.heard \subseteq a.evidence.complete,
         NEW digest \in Models,
         \A c \in a.evidence.archived : c[1] = "inventory" => c[2] = digest,
         NEW reason \in {"stop", "length", Unset},
         NEW b, b = [a EXCEPT !.pc = "open", !.step = a.step + 1, !.digest = digest, !.reason = reason]
  PROVE  AttemptFits(b)
<1>1. a.step \in 1 .. 4 /\ a.step + 1 \in 1 .. 4
  BY DEF Attempts
<1>2. PICK next : next = a.step + 1
  OBVIOUS
<1>3. digest \in Bodies /\ digest # Unset
  BY ProviderAssumption DEF Bodies
<1>4. b = [a EXCEPT !.pc = "open", !.step = next, !.digest = digest, !.reason = reason]
  BY <1>2
<1>5. b \in Attempts
  BY <1>1, <1>2, <1>3, <1>4, Zenon DEF Attempts
<1>6. b.step = next /\ b.evidence = a.evidence /\ b.heard = a.heard /\ b.digest = digest
  BY <1>4 DEF Attempts
<1>7. b.heard \subseteq HeardOf(b)
  BY <1>6 DEF HeardOf
<1>8. b.evidence.complete = {Captures[i] : i \in 1 .. b.step - 1}
  BY <1>2, <1>6
<1>9. ArchivedNames(b.evidence) = b.evidence.complete
  BY <1>6
<1>10. b.digest # Unset /\ \A c \in b.evidence.archived : c[1] = "inventory" => c[2] = b.digest
  BY <1>3, <1>6
<1> QED
  BY <1>5, <1>7, <1>8, <1>9, <1>10 DEF AttemptFits

\* The last answer concludes the attempt: both lookups showed the digest it is recorded with.
LEMMA AnswerExplained ==
  ASSUME NEW a \in Attempts, a.step = 4, DigestHolds(a), a.digest # Unset,
         NEW status, Delivered(a, status), elapsed < a.deadline,
         a.evidence.complete = {Captures[i] : i \in 1 .. 4},
         ArchivedNames(a.evidence) = a.evidence.complete,
         a.heard \subseteq a.evidence.complete,
         \A c \in a.evidence.archived :
           /\ c[1] = "inventory" => c[2] = a.digest
           /\ c[1] = "inventory_after" => c[2] = a.body
  PROVE  RecordExplainsResult'
<1>1. a.digest = a.body
  BY DEF DigestHolds
<1>2. PICK d, e, h : d = a.digest /\ e = a.evidence /\ h = a.heard
  OBVIOUS
<1>3. /\ delivery'.digest = d /\ delivery'.evidence = e /\ delivery'.heard = h
      /\ delivery'.ended = elapsed /\ delivery'.deadline = a.deadline
  BY <1>2 DEF Delivered
<1>4. \A name \in {"inventory", "inventory_after"} :
        {c[2] : c \in {x \in e.archived : x[1] = name}} = {d}
  <2> SUFFICES ASSUME NEW name \in {"inventory", "inventory_after"}
               PROVE  {c[2] : c \in {x \in e.archived : x[1] = name}} = {d}
    OBVIOUS
  <2>1. name \in {Captures[i] : i \in 1 .. 4}
    <3>1. name = Captures[1] \/ name = Captures[4]
      BY CaptureNames
    <3>2. 1 \in 1 .. 4 /\ 4 \in 1 .. 4
      OBVIOUS
    <3> QED
      BY <3>1, <3>2
  <2>2. PICK c \in e.archived : c[1] = name
    BY <2>1, <1>2 DEF ArchivedNames
  <2>3. \A x \in e.archived : x[1] = name => x[2] = d
    BY <1>1, <1>2
  <2> QED
    BY <2>2, <2>3
<1>5. h \subseteq {c[1] : c \in e.archived}
  BY <1>2 DEF ArchivedNames
<1>6. e.complete = {Captures[i] : i \in 1 .. 4}
  BY <1>2
<1>7. delivery'.ended < delivery'.deadline
  BY <1>3
<1> QED
  BY <1>3, <1>4, <1>5, <1>6, <1>7, Zenon DEF RecordExplainsResult

LEMMA EndStreamKeepsProvider ==
  ASSUME ProviderInv, EndStream
  PROVE  ProviderInv'
<1>1. generation.pc = "reading" /\ UNCHANGED <<elapsed, installed>>
  BY DEF EndStream
<1>2. AttemptFits(generation) /\ generation \in Attempts
  BY <1>1, NotIdle, CalledFits
<1>3. PICK g : g = generation
  OBVIOUS
<1>4. PICK a : a = [g EXCEPT !.evidence = Archived(g, TRUE)]
  OBVIOUS
<1>5. AttemptFits(g) /\ g.pc = "reading"
  BY <1>1, <1>2, <1>3
<1>6. /\ a \in Attempts /\ a.step = g.step /\ a.digest = g.digest /\ a.body = g.body
      /\ a.reason = g.reason /\ a.deadline = g.deadline
      /\ a.evidence.complete = {Captures[i] : i \in 1 .. (a.step + 1) - 1}
      /\ ArchivedNames(a.evidence) = a.evidence.complete
      /\ a.heard \subseteq a.evidence.complete
      /\ \A c \in a.evidence.archived :
           /\ c[1] = "inventory" => c[2] = IF a.step > 1 THEN a.digest ELSE a.body
           /\ c[1] = Captures[a.step] => c[2] = a.body
  BY <1>4, <1>5, CompleteAnswer
<1>7. \/ Delivered(a, "unavailable") \/ Delivered(a, "malformed")
      \/ elapsed < a.deadline /\ Understood(a)
  BY <1>3, <1>4 DEF EndStream
<1>8. ASSUME NEW status \in {"unavailable", "malformed"}, Delivered(a, status)
      PROVE  ProviderInv'
  <2>1. RecordExplainsResult'
    BY <1>6, <1>8, FailureExplained
  <2> QED
    BY <2>1, <1>1, <1>8 DEF ProviderInv, Delivered
<1>9. a.step > 1 => a.digest \in Models
  BY <1>5, <1>6 DEF AttemptFits, Attempts, Bodies
<1>10. a.step \in 1 .. 4 /\ a.body \in Bodies /\ a.reason \in {"stop", "length", Unset}
       /\ a.digest \in Bodies
  BY <1>6 DEF Attempts
<1>11. ASSUME NEW digest \in Models, NEW reason \in {"stop", "length", Unset}, a.step < 4,
              \A c \in a.evidence.archived : c[1] = "inventory" => c[2] = digest,
              UNCHANGED delivery,
              generation' = [a EXCEPT !.pc = "open", !.step = a.step + 1, !.digest = digest,
                                      !.reason = reason]
       PROVE  ProviderInv'
  <2>1. PICK b : b = [a EXCEPT !.pc = "open", !.step = a.step + 1, !.digest = digest,
                               !.reason = reason]
    OBVIOUS
  <2>2. AttemptFits(b)
    BY <2>1, <1>6, <1>11, GoesOn
  <2>3. generation' = b
    BY <2>1, <1>11
  <2> QED
    BY <2>2, <2>3, <1>1, <1>11 DEF ProviderInv, RecordExplainsResult
<1>12. ASSUME elapsed < a.deadline, Understood(a)
       PROVE  ProviderInv'
  <2> DEFINE next == [a EXCEPT !.pc = "open", !.step = @ + 1]
  <2>1. CASE a.step = 1 /\ DigestHolds(a) /\ generation' = [next EXCEPT !.digest = a.body]
             /\ UNCHANGED delivery
    <3>1. [next EXCEPT !.digest = a.body]
            = [a EXCEPT !.pc = "open", !.step = a.step + 1, !.digest = a.body, !.reason = a.reason]
      BY <1>6 DEF Attempts
    <3>2. a.body \in Models
      BY <2>1, <1>10 DEF DigestHolds, Bodies
    <3>3. \A c \in a.evidence.archived : c[1] = "inventory" => c[2] = a.body
      BY <2>1, <1>6
    <3>4. a.step < 4
      BY <2>1
    <3> QED
      BY <3>1, <3>2, <3>3, <3>4, <2>1, <1>10, <1>11
  <2>2. CASE a.step = 2 /\ generation' = next /\ UNCHANGED delivery
    <3>1. next = [a EXCEPT !.pc = "open", !.step = a.step + 1, !.digest = a.digest,
                           !.reason = a.reason]
      BY <1>6 DEF Attempts
    <3>2. \A c \in a.evidence.archived : c[1] = "inventory" => c[2] = a.digest
      BY <2>2, <1>6
    <3>3. a.digest \in Models /\ a.step < 4
      BY <2>2, <1>9
    <3> QED
      BY <3>1, <3>2, <3>3, <2>2, <1>10, <1>11
  <2>3. ASSUME a.step = 3, NEW reason \in {"stop", "length"},
               generation' = [next EXCEPT !.reason = reason], UNCHANGED delivery
        PROVE  ProviderInv'
    <3>1. [next EXCEPT !.reason = reason]
            = [a EXCEPT !.pc = "open", !.step = a.step + 1, !.digest = a.digest, !.reason = reason]
      BY <1>6 DEF Attempts
    <3>2. \A c \in a.evidence.archived : c[1] = "inventory" => c[2] = a.digest
      BY <2>3, <1>6
    <3>3. a.digest \in Models /\ a.step < 4
      BY <2>3, <1>9
    <3>4. reason \in {"stop", "length", Unset}
      BY <2>3
    <3> QED
      BY <3>1, <3>2, <3>3, <3>4, <2>3, <1>11
  <2>4. CASE a.step = 4 /\ DigestHolds(a)
             /\ Delivered(a, IF a.reason = "stop" THEN "success" ELSE "truncated")
    <3>1. a.digest # Unset
      BY <2>4, <1>9, ProviderAssumption
    <3>2. a.evidence.complete = {Captures[i] : i \in 1 .. 4}
      <4>1. (a.step + 1) - 1 = 4
        BY <2>4
      <4> QED
        BY <4>1, <1>6
    <3>3. \A c \in a.evidence.archived :
            /\ c[1] = "inventory" => c[2] = a.digest
            /\ c[1] = "inventory_after" => c[2] = a.body
      BY <2>4, <1>6, CaptureNames
    <3>4. PICK status : status = IF a.reason = "stop" THEN "success" ELSE "truncated"
      OBVIOUS
    <3>5. Delivered(a, status)
      BY <2>4, <3>4
    <3>6. RecordExplainsResult'
      BY <3>1, <3>2, <3>3, <3>5, <2>4, <1>6, <1>12, AnswerExplained
    <3> QED
      BY <3>5, <3>6, <1>1 DEF ProviderInv, Delivered
  <2>5. CASE Delivered(a, IF a.body = Unset THEN "unavailable" ELSE "malformed")
    <3>1. PICK status \in {"unavailable", "malformed"} :
            status = IF a.body = Unset THEN "unavailable" ELSE "malformed"
      OBVIOUS
    <3> QED
      BY <3>1, <2>5, <1>8
  <2> QED
    BY <2>1, <2>2, <2>3, <2>4, <2>5, <1>12 DEF Understood
<1> QED
  BY <1>7, <1>8, <1>12

LEMMA ProviderNext ==
  ASSUME ProviderInv, [NextProvider]_providerVars
  PROVE  ProviderInv'
<1>1. ASSUME LoseAttempt
      PROVE  ProviderInv'
  BY <1>1 DEF LoseAttempt, ProviderInv, RecordExplainsResult
<1>2. ASSUME Reinstall
      PROVE  ProviderInv'
  <2>1. installed' \in Bodies /\ UNCHANGED <<elapsed, generation, delivery>>
    BY <1>2 DEF Reinstall, Bodies
  <2> QED
    BY <2>1 DEF ProviderInv, RecordExplainsResult
<1>3. ASSUME TickModel
      PROVE  ProviderInv'
  <2>1. elapsed' \in Nat /\ UNCHANGED <<installed, generation, delivery>>
    BY <1>3 DEF TickModel, ProviderInv
  <2> QED
    BY <2>1 DEF ProviderInv, RecordExplainsResult
<1>4. CASE UNCHANGED providerVars
  BY <1>4 DEF providerVars, ProviderInv, RecordExplainsResult
<1> QED
  BY <1>1, <1>2, <1>3, <1>4, GenerateKeepsProvider, OpenStreamKeepsProvider,
     ReadChunkKeepsProvider, BreakStreamKeepsProvider, EndStreamKeepsProvider DEF NextProvider

\* The record of an attempt at a model explains its result, whatever the models, the limits and the
\* times: an answer comes in time, from four complete captures, by the one model that both lookups
\* show, and whatever was received of any answer is archived (providers/ollama.py:243-292, 326-432).
THEOREM RecordAlwaysExplains ==
  InitProvider /\ [][NextProvider]_providerVars => []RecordExplainsResult
<1>1. InitProvider => ProviderInv
  BY ProviderAssumption DEF InitProvider, ProviderInv, RecordExplainsResult, Bodies
<1>2. ProviderInv /\ [NextProvider]_providerVars => ProviderInv'
  BY ProviderNext
<1>3. ProviderInv => RecordExplainsResult
  BY DEF ProviderInv
<1> QED
  BY <1>1, <1>2, <1>3, PTL

-----------------------------------------------------------------------------
(* Discovery.  A receipt that was published stays what it is, so a worker   *)
(* needs to know only which receipt it holds and when it asked for it.      *)

ReceiptSet == {Receipt(0, query, at, capture) : query \in Queries, at \in Int, capture \in CapturesOf}

SearchSet ==
  [pc : {"idle", "searching", "caching", "delivered"}, query : Queries \cup {Missing},
   read : {"hit", "miss", "invalid", "unavailable"}, at : Int, until : Int,
   delivered : Int \cup {Missing}]

\* s is a search of worker w, at hour h and with the receipts rs.
SearchFits(s, w, h, rs) ==
  /\ s \in SearchSet
  /\ s.pc # "idle" => s.query \in Queries
  /\ s.pc \in {"searching", "caching"} =>
       /\ s.read # "hit"
       /\ h <= s.until
       /\ s.at = s.until - SearchTime + Skew[w]
  /\ s.pc \in {"caching", "delivered"} =>
       /\ s.delivered \in DOMAIN rs
       /\ rs[s.delivered].query = s.query
  /\ s.pc = "caching" => rs[s.delivered].at = s.at
  /\ s.pc = "delivered" =>
       IF s.read = "hit"
       THEN s.at - rs[s.delivered].at \in 0 .. CacheAge /\ rs[s.delivered].status = "success"
       ELSE s.at - rs[s.delivered].at <= SearchTime

DiscoveryInv ==
  /\ hour \in Nat
  /\ receipts \in Seq(ReceiptSet)
  /\ captures \subseteq DOMAIN receipts
  /\ search = [w \in Searchers |-> search[w]]
  /\ \A w \in Searchers : SearchFits(search[w], w, hour, receipts)

\* Every identity that a provider lists is at one first position.
LEMMA CandidatesOnce ==
  ASSUME NEW items, NEW n \in Nat, DOMAIN items = 1 .. n
  PROVE  LET C == CandidatesOf(items) IN
         /\ Cardinality(C) = Cardinality({c[2] : c \in C})
         /\ {c[2] : c \in C} = {items[i] : i \in DOMAIN items}
<1> DEFINE Early == {j \in DOMAIN items : \A k \in 1 .. j - 1 : items[k] # items[j]}
           C == CandidatesOf(items)
           Listed == {items[i] : i \in DOMAIN items}
<1>1. \A c \in C : \E i \in Early : c = <<i, items[i]>>
  BY DEF CandidatesOf
<1>2. \A i \in Early : <<i, items[i]>> \in C
  BY DEF CandidatesOf
<1>3. \A x \in Listed : \E i \in Early : items[i] = x
  <2> SUFFICES ASSUME NEW x \in Listed
               PROVE  \E i \in Early : items[i] = x
    OBVIOUS
  <2> DEFINE Places == {i \in 1 .. n : items[i] = x}
  <2>1. Places # {} /\ Places \subseteq Nat
    OBVIOUS
  <2>2. PICK s \in Places : \A t \in Places : ~ (<<t, s>> \in OpToRel(<, Nat))
    BY <2>1, NatLessThanWellFounded, WFMin
  <2>3. ASSUME NEW k \in 1 .. s - 1
        PROVE  items[k] # items[s]
    <3>1. k \in 1 .. n /\ k \in Nat /\ s \in Nat /\ k < s
      OBVIOUS
    <3>2. items[s] = x
      OBVIOUS
    <3>3. k \notin Places
      BY <3>1, <2>2 DEF OpToRel
    <3> QED
      BY <3>1, <3>2, <3>3
  <2>4. s \in Early /\ items[s] = x
    BY <2>3
  <2> QED
    BY <2>4
<1>4. ASSUME NEW i \in Early, NEW j \in Early, items[i] = items[j]
      PROVE  i = j
  <2>1. i \in Int /\ j \in Int /\ i >= 1 /\ j >= 1
    OBVIOUS
  <2>2. ~ (i < j)
    <3>1. i < j => i \in 1 .. j - 1
      BY <2>1
    <3> QED
      BY <3>1, <1>4
  <2>3. ~ (j < i)
    <3>1. j < i => j \in 1 .. i - 1
      BY <2>1
    <3> QED
      BY <3>1, <1>4
  <2> QED
    BY <2>1, <2>2, <2>3
<1>5. Early \subseteq 1 .. n
  OBVIOUS
<1> HIDE DEF C
<1>6. \A c \in C : c[1] \in Early /\ c[2] = items[c[1]] /\ c = <<c[1], c[2]>>
  <2> SUFFICES ASSUME NEW c \in C
               PROVE  c[1] \in Early /\ c[2] = items[c[1]] /\ c = <<c[1], c[2]>>
    OBVIOUS
  <2>1. PICK i \in Early : c = <<i, items[i]>>
    BY <1>1
  <2>2. PICK x : x = items[i]
    OBVIOUS
  <2>3. c = <<i, x>>
    BY <2>1, <2>2
  <2>4. c[1] = i /\ c[2] = x
    BY <2>3
  <2> QED
    BY <2>2, <2>3, <2>4
<1> HIDE DEF Early
<1>7. {c[2] : c \in C} = Listed
  <2>1. \A c \in C : c[2] \in Listed
    BY <1>5, <1>6
  <2>2. ASSUME NEW x \in Listed
        PROVE  \E c \in C : c[2] = x
    <3>1. PICK i \in Early : items[i] = x
      BY <1>3
    <3>2. <<i, x>> \in C
      BY <3>1, <1>2
    <3>3. <<i, x>>[2] = x
      OBVIOUS
    <3> QED
      BY <3>2, <3>3
  <2> QED
    BY <2>1, <2>2
<1>8. IsFiniteSet(Early)
  <2>1. IsFiniteSet(1 .. n)
    BY FS_Interval
  <2> QED
    BY <2>1, <1>5, FS_Subset
<1>9. IsFiniteSet(C)
  <2> DEFINE f == [i \in Early |-> <<i, items[i]>>]
  <2>1. f \in [Early -> C]
    BY <1>2
  <2>2. \A c \in C : \E i \in Early : f[i] = c
    BY <1>1
  <2>3. f \in Surjection(Early, C)
    BY <2>1, <2>2 DEF Surjection
  <2> QED
    BY <2>3, <1>8, FS_Surjection
<1>10. Cardinality(Listed) = Cardinality(C)
  <2> DEFINE f == [c \in C |-> c[2]]
  <2>1. f \in [C -> Listed]
    BY <1>7
  <2>2. \A x \in Listed : \E c \in C : f[c] = x
    BY <1>7
  <2>3. f \in Surjection(C, Listed)
    BY <2>1, <2>2 DEF Surjection
  <2>4. \A c, d \in C : c[2] = d[2] => c = d
    BY <1>4, <1>6
  <2>5. f \in Injection(C, Listed)
    BY <2>1, <2>4 DEF Injection, IsInjective
  <2> QED
    BY <2>3, <2>5, <1>9, FS_Surjection
<1> QED
  BY <1>7, <1>10 DEF C

\* What a receipt says is what its capture holds: the candidates of a success, each once.
LEMMA ReceiptFaithful ==
  ASSUME NEW r \in ReceiptSet
  PROVE  /\ r.query \in Queries /\ r.at \in Int
         /\ r.status = "success" => r.capture.failure = "none" /\ r.capture.http = 200
         /\ r.candidates # {} =>
              /\ Cardinality(r.candidates) = Cardinality({c[2] : c \in r.candidates})
              /\ {c[2] : c \in r.candidates} = {r.capture.items[i] : i \in DOMAIN r.capture.items}
<1>1. PICK query \in Queries, at \in Int, capture \in CapturesOf : r = Receipt(0, query, at, capture)
  BY DEF ReceiptSet
<1>2. PICK status, candidates : status = Interpret(capture)[1] /\ candidates = Interpret(capture)[2]
  OBVIOUS
<1>3. /\ r.query = query /\ r.at = at /\ r.capture = capture
      /\ r.status = status /\ r.candidates = candidates
  BY <1>1, <1>2 DEF Receipt
<1>4. capture.items \in Inventories \cup {<<>>}
  BY DEF CapturesOf
<1>5. PICK n \in Nat : DOMAIN capture.items = 1 .. n
  <2>1. CASE capture.items \in Inventories
    BY <2>1, DiscoveryAssumption
  <2>2. CASE capture.items = <<>>
    <3>1. DOMAIN capture.items = 1 .. 0
      BY <2>2
    <3> QED
      BY <3>1
  <2> QED
    BY <1>4, <2>1, <2>2
<1>6. \/ status # "success" /\ candidates = {}
      \/ /\ status = "success" /\ candidates = CandidatesOf(capture.items)
         /\ capture.failure = "none" /\ capture.http = 200
  <2>1. CASE capture.failure # "none"
    <3>1. capture.failure \in {"none", "transport_error", "response_too_large"}
      BY DEF CapturesOf
    <3> QED
      BY <2>1, <3>1, <1>2 DEF Interpret
  <2>2. CASE capture.failure = "none" /\ capture.http # 200
    BY <2>2, <1>2 DEF Interpret
  <2>3. CASE /\ capture.failure = "none" /\ capture.http = 200
             /\ ~capture.readable \/ Len(capture.items) > Limit
    BY <2>3, <1>2 DEF Interpret
  <2>4. CASE /\ capture.failure = "none" /\ capture.http = 200
             /\ ~(~capture.readable \/ Len(capture.items) > Limit)
    <3>1. PICK C : C = CandidatesOf(capture.items)
      OBVIOUS
    <3>2. Interpret(capture) = <<"success", C>>
      BY <2>4, <3>1 DEF Interpret
    <3> QED
      BY <2>4, <3>1, <3>2, <1>2
  <2> QED
    BY <2>1, <2>2, <2>3, <2>4
<1>7. candidates # {} =>
        /\ Cardinality(candidates) = Cardinality({c[2] : c \in candidates})
        /\ {c[2] : c \in candidates} = {capture.items[i] : i \in DOMAIN capture.items}
  <2> SUFFICES ASSUME candidates # {}
               PROVE  /\ Cardinality(candidates) = Cardinality({c[2] : c \in candidates})
                      /\ {c[2] : c \in candidates} = {capture.items[i] : i \in DOMAIN capture.items}
    OBVIOUS
  <2>1. candidates = CandidatesOf(capture.items)
    BY <1>6
  <2>2. PICK items : items = capture.items
    OBVIOUS
  <2>3. /\ Cardinality(CandidatesOf(items)) = Cardinality({c[2] : c \in CandidatesOf(items)})
        /\ {c[2] : c \in CandidatesOf(items)} = {items[i] : i \in DOMAIN items}
    BY <2>2, <1>5, CandidatesOnce
  <2> QED
    BY <2>1, <2>2, <2>3, Zenon
<1>8. r.candidates # {} =>
        /\ Cardinality(r.candidates) = Cardinality({c[2] : c \in r.candidates})
        /\ {c[2] : c \in r.candidates} = {r.capture.items[i] : i \in DOMAIN r.capture.items}
  BY <1>3, <1>7, Zenon
<1> QED
  BY <1>3, <1>6, <1>8

\* A receipt as it is published by a search is one of the receipts.
LEMMA ReceiptIn ==
  ASSUME NEW w, NEW query \in Queries, NEW at \in Int, NEW capture \in CapturesOf
  PROVE  /\ Receipt(w, query, at, capture) \in ReceiptSet
         /\ Receipt(w, query, at, capture).query = query
         /\ Receipt(w, query, at, capture).at = at
<1>1. Receipt(w, query, at, capture) = Receipt(0, query, at, capture)
  BY DEF Receipt
<1>2. Receipt(w, query, at, capture).query = query /\ Receipt(w, query, at, capture).at = at
  BY DEF Receipt
<1> QED
  BY <1>1, <1>2 DEF ReceiptSet

\* What a worker holds stays true as receipts are added.
LEMMA FitsLonger ==
  ASSUME NEW s, NEW w, NEW h, NEW rs, NEW more, SearchFits(s, w, h, rs),
         DOMAIN rs \subseteq DOMAIN more, \A i \in DOMAIN rs : more[i] = rs[i]
  PROVE  SearchFits(s, w, h, more)
<1>1. s.pc \in {"caching", "delivered"} => s.delivered \in DOMAIN rs
  BY DEF SearchFits
<1>2. s.pc \in {"caching", "delivered"} => more[s.delivered] = rs[s.delivered]
  BY <1>1
<1> QED
  BY <1>1, <1>2 DEF SearchFits

\* Where one worker's search changes and no receipt or hour does, its new search is what matters.
LEMMA OneSearch ==
  ASSUME DiscoveryInv, NEW w \in Searchers, NEW s, search' = [search EXCEPT ![w] = s],
         hour' = hour, receipts' = receipts, captures' \subseteq DOMAIN receipts,
         SearchFits(s, w, hour, receipts)
  PROVE  DiscoveryInv'
<1>1. search = [v \in Searchers |-> search[v]]
  BY DEF DiscoveryInv
<1>2. \A v \in Searchers : search'[v] = IF v = w THEN s ELSE search[v]
  BY <1>1
<1>3. search' = [v \in Searchers |-> search'[v]]
  BY <1>1
<1>4. \A v \in Searchers : SearchFits(search'[v], v, hour', receipts')
  BY <1>2 DEF DiscoveryInv
<1> QED
  BY <1>3, <1>4 DEF DiscoveryInv

LEMMA IdleFits ==
  ASSUME NEW w, NEW h, NEW rs
  PROVE  SearchFits(NoSearch, w, h, rs) /\ NoSearch \in SearchSet
  BY DEF NoSearch, SearchFits, SearchSet

LEMMA LookUpKeepsDiscovery ==
  ASSUME DiscoveryInv, NEW w \in Searchers, NEW query \in Queries, LookUp(w, query)
  PROVE  DiscoveryInv'
<1>1. PICK read \in {"hit", "miss", "invalid", "unavailable"}, named \in Served(query) :
        /\ read = "hit" => named # Missing /\ named \in captures /\ Usable(w, query, receipts[named])
        /\ search' = [search EXCEPT ![w] =
             IF read = "hit"
             THEN [NoSearch EXCEPT !.pc = "delivered", !.query = query, !.read = read,
                                   !.at = Clock(w), !.delivered = named]
             ELSE [NoSearch EXCEPT !.pc = "searching", !.query = query, !.read = read,
                                   !.at = Clock(w), !.until = hour + SearchTime]]
  BY DEF LookUp
<1>2. UNCHANGED <<hour, receipts, captures>>
  BY DEF LookUp
<1>3. /\ hour \in Nat /\ Skew[w] \in Int /\ SearchTime \in Nat /\ CacheAge \in Nat
      /\ captures \subseteq DOMAIN receipts /\ receipts \in Seq(ReceiptSet)
  BY DiscoveryAssumption DEF DiscoveryInv
<1>4. PICK now \in Int : now = Clock(w) /\ now = hour + Skew[w]
  BY <1>3 DEF Clock
<1>5. CASE read = "hit"
  <2>1. PICK s : s = [NoSearch EXCEPT !.pc = "delivered", !.query = query, !.read = read,
                                      !.at = now, !.delivered = named]
    OBVIOUS
  <2>2. search' = [search EXCEPT ![w] = s]
    BY <2>1, <1>1, <1>4, <1>5, Zenon
  <2>3. named \in DOMAIN receipts /\ named \in Int
    BY <1>1, <1>3, <1>5
  <2>4. PICK r \in ReceiptSet : r = receipts[named]
    BY <2>3, <1>3
  <2>5. r.query = query /\ r.status = "success" /\ r.at \in now - CacheAge .. now
    BY <2>4, <1>1, <1>4, <1>5 DEF Usable
  <2>6. now - r.at \in 0 .. CacheAge
    BY <2>4, <2>5, <1>3, ReceiptFaithful
  <2>7. s \in SearchSet
    <3>1. NoSearch \in SearchSet
      BY IdleFits
    <3> QED
      BY <3>1, <2>1, <2>3, Zenon DEF SearchSet
  <2>8. /\ s.pc = "delivered" /\ s.query = query /\ s.read = "hit" /\ s.at = now
        /\ s.delivered = named
    <3>1. NoSearch \in SearchSet
      BY IdleFits
    <3> QED
      BY <3>1, <2>1, <1>5 DEF SearchSet
  <2>9. SearchFits(s, w, hour, receipts)
    BY <2>8, <2>3, <2>4, <2>5, <2>6, <2>7 DEF SearchFits
  <2> QED
    BY <2>2, <2>9, <1>2, <1>3, OneSearch
<1>6. CASE read # "hit"
  <2>1. PICK until \in Int : until = hour + SearchTime
    BY <1>3
  <2>2. PICK s : s = [NoSearch EXCEPT !.pc = "searching", !.query = query, !.read = read,
                                      !.at = now, !.until = until]
    OBVIOUS
  <2>3. search' = [search EXCEPT ![w] = s]
    BY <2>2, <2>1, <1>1, <1>4, <1>6, Zenon
  <2>4. hour <= until /\ now = until - SearchTime + Skew[w]
    BY <2>1, <1>3, <1>4
  <2>5. NoSearch \in SearchSet
    BY IdleFits
  <2>6. s \in SearchSet
    BY <2>2, <2>5, Zenon DEF SearchSet
  <2>7. s.pc = "searching" /\ s.query = query /\ s.read = read /\ s.at = now /\ s.until = until
    BY <2>2, <2>5 DEF SearchSet
  <2>8. SearchFits(s, w, hour, receipts)
    BY <2>4, <2>6, <2>7, <1>6 DEF SearchFits
  <2> QED
    BY <2>3, <2>8, <1>2, <1>3, OneSearch
<1> QED
  BY <1>5, <1>6

LEMMA SearchKeepsDiscovery ==
  ASSUME DiscoveryInv, NEW w \in Searchers, Search(w)
  PROVE  DiscoveryInv'
<1>1. PICK g : g = search[w]
  OBVIOUS
<1>2. g.pc = "searching" /\ UNCHANGED hour
  BY <1>1 DEF Search
<1>3. SearchFits(g, w, hour, receipts) /\ g \in SearchSet /\ g.query \in Queries /\ g.at \in Int
  BY <1>1, <1>2 DEF DiscoveryInv, SearchFits, SearchSet
<1>4. PICK capture \in CapturesOf :
        receipts' = Append(receipts, Receipt(w, search[w].query, search[w].at, capture))
  BY DEF Search
<1>5. PICK r : r = Receipt(w, g.query, g.at, capture)
  OBVIOUS
<1>6. r \in ReceiptSet /\ r.query = g.query /\ r.at = g.at
  BY <1>3, <1>5, ReceiptIn
<1>7. receipts \in Seq(ReceiptSet) /\ captures \subseteq DOMAIN receipts
  BY DEF DiscoveryInv
<1>8. PICK n \in Nat : n = Len(receipts) + 1
  BY <1>7
<1>9. receipts' = Append(receipts, r)
  BY <1>1, <1>4, <1>5
<1>10. /\ receipts' \in Seq(ReceiptSet) /\ DOMAIN receipts = 1 .. n - 1 /\ DOMAIN receipts' = 1 .. n
       /\ receipts'[n] = r /\ \A i \in DOMAIN receipts : receipts'[i] = receipts[i]
  BY <1>6, <1>7, <1>8, <1>9
<1>11. DOMAIN receipts \subseteq DOMAIN receipts' /\ n \in DOMAIN receipts'
  <2>1. 1 .. n - 1 \subseteq 1 .. n /\ n \in 1 .. n
    BY <1>8
  <2> QED
    BY <2>1, <1>10
<1>12. captures' \subseteq DOMAIN receipts'
  BY <1>7, <1>8, <1>11 DEF Search
<1>13. PICK s : s = [g EXCEPT !.pc = "caching", !.delivered = n]
  OBVIOUS
<1>14. s \in SearchSet
  <2>1. n \in Int \cup {Missing}
    BY <1>8
  <2> QED
    BY <2>1, <1>3, <1>13, Zenon DEF SearchSet
<1>15. /\ s.pc = "caching" /\ s.delivered = n /\ s.query = g.query /\ s.read = g.read
       /\ s.at = g.at /\ s.until = g.until
  BY <1>3, <1>13 DEF SearchSet
<1>16. SearchFits(s, w, hour, receipts')
  BY <1>2, <1>3, <1>6, <1>10, <1>11, <1>14, <1>15 DEF SearchFits
<1>17. search = [v \in Searchers |-> search[v]]
  BY DEF DiscoveryInv
<1>18. search' = [search EXCEPT ![w] = s]
  BY <1>1, <1>8, <1>13, <1>17 DEF Search
<1>19. \A v \in Searchers : search'[v] = IF v = w THEN s ELSE search[v]
  BY <1>17, <1>18
<1>20. ASSUME NEW v \in Searchers
       PROVE  SearchFits(search'[v], v, hour', receipts')
  <2>1. CASE v = w
    BY <2>1, <1>2, <1>16, <1>19
  <2>2. CASE v # w
    <3>1. SearchFits(search[v], v, hour, receipts)
      BY DEF DiscoveryInv
    <3>2. SearchFits(search[v], v, hour, receipts')
      BY <3>1, <1>10, <1>11, FitsLonger
    <3> QED
      BY <3>2, <2>2, <1>2, <1>19
  <2> QED
    BY <2>1, <2>2
<1>21. search' = [v \in Searchers |-> search'[v]]
  BY <1>17, <1>18
<1> QED
  BY <1>2, <1>10, <1>12, <1>20, <1>21 DEF DiscoveryInv

LEMMA RememberKeepsDiscovery ==
  ASSUME DiscoveryInv, NEW w \in Searchers, Remember(w)
  PROVE  DiscoveryInv'
<1>1. PICK g : g = search[w]
  OBVIOUS
<1>2. g.pc = "caching" /\ UNCHANGED <<hour, receipts, captures>>
  BY <1>1 DEF Remember
<1>3. SearchFits(g, w, hour, receipts) /\ g \in SearchSet
  BY <1>1 DEF DiscoveryInv, SearchFits
<1>4. hour \in Nat /\ Skew[w] \in Int /\ captures \subseteq DOMAIN receipts /\ SearchTime \in Nat
  BY DiscoveryAssumption DEF DiscoveryInv
<1>5. PICK now \in Int : now = Clock(w) /\ now = hour + Skew[w]
  BY <1>4 DEF Clock
<1>6. PICK s : s = [g EXCEPT !.pc = "delivered", !.at = now]
  OBVIOUS
<1>7. s \in SearchSet
  BY <1>3, <1>6, Zenon DEF SearchSet
<1>8. /\ s.pc = "delivered" /\ s.delivered = g.delivered /\ s.query = g.query /\ s.read = g.read
      /\ s.at = now
  BY <1>3, <1>6 DEF SearchSet
<1>9. g.read # "hit" /\ hour <= g.until /\ g.at = g.until - SearchTime + Skew[w]
      /\ g.delivered \in DOMAIN receipts /\ receipts[g.delivered].query = g.query
      /\ receipts[g.delivered].at = g.at /\ g.query \in Queries
  BY <1>2, <1>3 DEF SearchFits
<1>10. g.until \in Int /\ g.at \in Int
  BY <1>3 DEF SearchSet
<1>11. now - g.at <= SearchTime
  BY <1>4, <1>5, <1>9, <1>10
<1>12. SearchFits(s, w, hour, receipts)
  BY <1>7, <1>8, <1>9, <1>11 DEF SearchFits
<1>13. search = [v \in Searchers |-> search[v]]
  BY DEF DiscoveryInv
<1>14. search' = [search EXCEPT ![w] = s]
  BY <1>1, <1>5, <1>6, <1>13 DEF Remember
<1> QED
  BY <1>2, <1>4, <1>12, <1>14, OneSearch

LEMMA PassHourKeepsDiscovery ==
  ASSUME DiscoveryInv, PassHour
  PROVE  DiscoveryInv'
<1>1. /\ UNCHANGED <<receipts, captures, search>> /\ hour' = hour + 1 /\ hour \in Nat
      /\ \A w \in Searchers : search[w].pc \in {"searching", "caching"} => hour < search[w].until
  BY DEF PassHour, DiscoveryInv
<1>2. ASSUME NEW w \in Searchers
      PROVE  SearchFits(search[w], w, hour', receipts)
  <2>1. PICK s : s = search[w]
    OBVIOUS
  <2>2. SearchFits(s, w, hour, receipts)
    BY <2>1 DEF DiscoveryInv
  <2>3. s.pc \in {"searching", "caching"} => hour' <= s.until
    <3>1. s.until \in Int
      BY <2>2 DEF SearchFits, SearchSet
    <3> QED
      BY <3>1, <2>1, <1>1
  <2>4. SearchFits(s, w, hour', receipts)
    BY <2>2, <2>3 DEF SearchFits
  <2> QED
    BY <2>1, <2>4
<1> QED
  BY <1>1, <1>2 DEF DiscoveryInv

LEMMA DiscoveryNext ==
  ASSUME DiscoveryInv, [NextDiscovery]_discoveryVars
  PROVE  DiscoveryInv'
<1>1. ASSUME NEW w \in Searchers, EndSearch(w)
      PROVE  DiscoveryInv'
  <2>1. SearchFits(NoSearch, w, hour, receipts)
    BY IdleFits
  <2> QED
    BY <2>1, <1>1, OneSearch DEF EndSearch, DiscoveryInv
<1>2. ASSUME NEW i, LoseCapture(i)
      PROVE  DiscoveryInv'
  BY <1>2 DEF LoseCapture, DiscoveryInv
<1>3. CASE UNCHANGED discoveryVars
  BY <1>3 DEF discoveryVars, DiscoveryInv
<1> QED
  BY <1>1, <1>2, <1>3, SearchKeepsDiscovery, RememberKeepsDiscovery, LookUpKeepsDiscovery,
     PassHourKeepsDiscovery DEF NextDiscovery

\* Whatever the cache answers and however the clocks differ, what discovery delivers answers the
\* request: for any workers, queries, providers and ages, it was retrieved for that request in time, or
\* as a success that is not too old, and lists what its capture holds, each identity once
\* (retrieval/discovery_cache.py:40-87, discovery.py:66-170).
THEOREM DiscoveryAlwaysAnswers ==
  InitDiscovery /\ [][NextDiscovery]_discoveryVars => []DiscoveryAnswersRequest
<1>1. InitDiscovery => DiscoveryInv
  <2> SUFFICES ASSUME InitDiscovery
               PROVE  DiscoveryInv
    OBVIOUS
  <2>1. hour = 0 /\ receipts = <<>> /\ captures = {} /\ search = [w \in Searchers |-> NoSearch]
    BY DEF InitDiscovery
  <2>2. \A w \in Searchers : SearchFits(search[w], w, hour, receipts)
    BY <2>1, IdleFits
  <2> QED
    BY <2>1, <2>2 DEF DiscoveryInv
<1>2. DiscoveryInv /\ [NextDiscovery]_discoveryVars => DiscoveryInv'
  BY DiscoveryNext
<1>3. DiscoveryInv => DiscoveryAnswersRequest
  <2> SUFFICES ASSUME DiscoveryInv, NEW w \in Searchers, search[w].pc = "delivered",
                      NEW r, r = receipts[search[w].delivered]
               PROVE  /\ r.query = search[w].query
                      /\ search[w].read = "hit" =>
                           /\ search[w].at - r.at \in 0 .. CacheAge
                           /\ r.capture.failure = "none" /\ r.capture.http = 200
                      /\ search[w].read # "hit" => search[w].at - r.at <= SearchTime
                      /\ r.candidates # {} =>
                           /\ Cardinality(r.candidates) = Cardinality({c[2] : c \in r.candidates})
                           /\ {c[2] : c \in r.candidates}
                                = {r.capture.items[i] : i \in DOMAIN r.capture.items}
    BY ZenonT(60) DEF DiscoveryAnswersRequest
  <2>1. PICK s : s = search[w]
    OBVIOUS
  <2>2. SearchFits(s, w, hour, receipts) /\ receipts \in Seq(ReceiptSet)
    BY <2>1 DEF DiscoveryInv
  <2>3. /\ s.delivered \in DOMAIN receipts /\ r.query = s.query
        /\ IF s.read = "hit" THEN s.at - r.at \in 0 .. CacheAge /\ r.status = "success"
                             ELSE s.at - r.at <= SearchTime
    BY <2>1, <2>2 DEF SearchFits
  <2>4. r \in ReceiptSet
    BY <2>1, <2>2, <2>3
  <2>5. /\ r.status = "success" => r.capture.failure = "none" /\ r.capture.http = 200
        /\ r.candidates # {} =>
             /\ Cardinality(r.candidates) = Cardinality({c[2] : c \in r.candidates})
             /\ {c[2] : c \in r.candidates} = {r.capture.items[i] : i \in DOMAIN r.capture.items}
    BY <2>4, ReceiptFaithful
  <2>6. s.read = "hit" => s.at - r.at \in 0 .. CacheAge /\ r.status = "success"
    BY <2>3
  <2>7. s.read # "hit" => s.at - r.at <= SearchTime
    BY <2>3
  <2> QED
    BY <2>1, <2>3, <2>5, <2>6, <2>7, Zenon
<1> QED
  BY <1>1, <1>2, <1>3, PTL

\* What research is given is admissible as long as discovery, the catalog and the model are used as
\* their operations allow, in whatever order and at the same time (retrieval/discovery_cache.py,
\* data/catalog.py, providers/ollama.py).
THEOREM OnlyAdmissibleIsHandedOver ==
  /\ InitDiscovery /\ [][NextDiscovery]_discoveryVars
  /\ InitCatalog /\ [][NextCatalog]_catalogVars
  /\ InitProvider /\ [][NextProvider]_providerVars
  => []OnlyAdmissibleAnswers
<1>1. DiscoveryAnswersRequest /\ CatalogIsGuarded /\ RecordExplainsResult => OnlyAdmissibleAnswers
  BY DEF OnlyAdmissibleAnswers
<1> QED
  BY <1>1, DiscoveryAlwaysAnswers, CatalogStaysGuarded, RecordAlwaysExplains, PTL

-----------------------------------------------------------------------------
(* The folds of a validation *)

\* Sets that share nothing are as large together as apart.
LEMMA ApartCounts ==
  ASSUME NEW S, NEW T, IsFiniteSet(S), IsFiniteSet(T), S \cap T = {}
  PROVE  IsFiniteSet(S \cup T) /\ Cardinality(S \cup T) = Cardinality(S) + Cardinality(T)
<1>1. Cardinality(S) \in Nat /\ Cardinality(T) \in Nat
  BY FS_CardinalityType
<1>2. Cardinality({}) = 0
  BY FS_EmptySet
<1>3. Cardinality(S \cup T) = Cardinality(S) + Cardinality(T) - Cardinality({})
  BY FS_Union
<1>4. IsFiniteSet(S \cup T)
  BY FS_Union
<1> QED
  BY <1>1, <1>2, <1>3, <1>4

\* A fold whose four roles exclude each other is disjoint.
LEMMA RolesDisjoint ==
  ASSUME NEW fold, NEW all, IsFiniteSet(all), NEW train \in SUBSET all, NEW test \in SUBSET all,
         NEW purged \in SUBSET all, NEW embargoed \in SUBSET all,
         fold = [train |-> train, test |-> test, purged |-> purged, embargoed |-> embargoed],
         train # {}, train \cap test = {}, (train \cup test) \cap purged = {},
         (train \cup test \cup purged) \cap embargoed = {}
  PROVE  Disjoint(fold)
<1>1. /\ IsFiniteSet(train) /\ IsFiniteSet(test) /\ IsFiniteSet(purged) /\ IsFiniteSet(embargoed)
  BY FS_Subset
<1>2. /\ IsFiniteSet(train \cup test)
      /\ Cardinality(train \cup test) = Cardinality(train) + Cardinality(test)
  BY <1>1, ApartCounts
<1>3. /\ IsFiniteSet(train \cup test \cup purged)
      /\ Cardinality(train \cup test \cup purged) = Cardinality(train \cup test) + Cardinality(purged)
  BY <1>1, <1>2, ApartCounts
<1>4. Cardinality(train \cup test \cup purged \cup embargoed)
        = Cardinality(train \cup test \cup purged) + Cardinality(embargoed)
  BY <1>1, <1>3, ApartCounts
<1>5. fold.train = train /\ fold.test = test /\ fold.purged = purged /\ fold.embargoed = embargoed
  OBVIOUS
<1> QED
  BY <1>2, <1>3, <1>4, <1>5 DEF Disjoint

\* The rows of a table of labels.
LEMMA RowsOfTable ==
  ASSUME NEW periods, Chronological(periods)
  PROVE  /\ Len(periods) \in Nat /\ DOMAIN periods = 1 .. Len(periods)
         /\ \A i \in 1 .. Len(periods) :
              /\ periods[i].start \in Int /\ periods[i].end \in Int /\ periods[i].available \in Int
              /\ periods[i].start < periods[i].end /\ periods[i].end <= periods[i].available
         /\ \A i, j \in 1 .. Len(periods) : i <= j => periods[i].start <= periods[j].start
<1>1. PICK Rows : Rows = [start : Int, end : Int, available : Int]
  OBVIOUS
<1>2. /\ periods \in Seq(Rows)
      /\ \A i \in DOMAIN periods :
           periods[i].start < periods[i].end /\ periods[i].end <= periods[i].available
      /\ \A i, j \in DOMAIN periods : i < j => periods[i].start < periods[j].start
  BY <1>1, Zenon DEF Chronological
<1>3. PICK n \in Nat : n = Len(periods) /\ DOMAIN periods = 1 .. n
  BY <1>2
<1>4. \A i \in 1 .. n : periods[i] \in Rows
  BY <1>2, <1>3
<1>5. \A i \in 1 .. n :
        /\ periods[i].start \in Int /\ periods[i].end \in Int /\ periods[i].available \in Int
  BY <1>1, <1>4
<1>6. \A i, j \in 1 .. n : i <= j => periods[i].start <= periods[j].start
  <2> SUFFICES ASSUME NEW i \in 1 .. n, NEW j \in 1 .. n, i <= j
               PROVE  periods[i].start <= periods[j].start
    OBVIOUS
  <2>1. CASE i = j
    BY <2>1, <1>5
  <2>2. CASE i < j
    <3>1. periods[i].start < periods[j].start
      BY <2>2, <1>2, <1>3
    <3>2. periods[i].start \in Int /\ periods[j].start \in Int
      BY <1>5
    <3> QED
      BY <3>1, <3>2
  <2> QED
    BY <2>1, <2>2
<1> QED
  BY <1>2, <1>3, <1>5, <1>6

\* The labels of contiguous return intervals are chronological.
LEMMA LabelsChronological ==
  ASSUME NEW instants \in InstantTables
  PROVE  Chronological(Labels(instants))
<1>1. /\ instants \in Seq(Int)
      /\ \A i, j \in DOMAIN instants : i < j => instants[i] < instants[j]
  BY SplitAssumption
<1>2. PICK m \in Nat : m = Len(instants) /\ DOMAIN instants = 1 .. m
  BY <1>1
<1>3. PICK n \in Nat : n = IF m = 0 THEN 0 ELSE m - 1
  OBVIOUS
<1>4. PICK periods : periods = Labels(instants)
  OBVIOUS
<1>5. 1 .. m - 1 = 1 .. n
  BY <1>3
<1>6. periods = [i \in 1 .. n |-> [start |-> instants[i], end |-> instants[i + 1],
                                   available |-> instants[i + 1]]]
  BY <1>2, <1>4, <1>5 DEF Labels
<1>7. \A i \in 1 .. n : i \in 1 .. m /\ i + 1 \in 1 .. m
  BY <1>3
<1>8. \A i \in 1 .. n : instants[i] \in Int /\ instants[i + 1] \in Int
  BY <1>1, <1>2, <1>7
<1>9. \A i \in 1 .. n : /\ periods[i].start = instants[i]
                        /\ periods[i].end = instants[i + 1]
                        /\ periods[i].available = instants[i + 1]
  BY <1>6
<1>10. PICK Rows : Rows = [start : Int, end : Int, available : Int]
  OBVIOUS
<1>11. \A i \in 1 .. n : periods[i] \in Rows
  BY <1>6, <1>8, <1>10
<1>12. DOMAIN periods = 1 .. n /\ periods = [i \in 1 .. n |-> periods[i]]
  BY <1>6
<1>13. periods \in Seq(Rows)
  BY <1>11, <1>12
<1>14. ASSUME NEW i \in 1 .. n
       PROVE  periods[i].start < periods[i].end /\ periods[i].end <= periods[i].available
  <2>1. i \in Int /\ i < i + 1
    OBVIOUS
  <2>2. instants[i] < instants[i + 1]
    BY <2>1, <1>1, <1>2, <1>7
  <2> QED
    BY <2>2, <1>8, <1>9
<1>15. ASSUME NEW i \in 1 .. n, NEW j \in 1 .. n, i < j
       PROVE  periods[i].start < periods[j].start
  BY <1>1, <1>2, <1>7, <1>9, <1>15
<1>16. /\ \A i \in DOMAIN periods :
             periods[i].start < periods[i].end /\ periods[i].end <= periods[i].available
       /\ \A i, j \in DOMAIN periods : i < j => periods[i].start < periods[j].start
  BY <1>12, <1>14, <1>15
<1> QED
  BY <1>4, <1>10, <1>13, <1>16, Zenon DEF Chronological

\* Two multiples of a size are at least that size apart.
LEMMA MultiplesApart ==
  ASSUME NEW a \in Nat, NEW b \in Nat, NEW size \in Nat \ {0}, a % size = 0, b % size = 0, a < b
  PROVE  a + size <= b
<1>1. PICK p \in Int, q \in Int : p = a \div size /\ q = b \div size
  OBVIOUS
<1>2. a = size * p /\ b = size * q
  BY <1>1
<1>3. p < q
  BY <1>2
<1>4. PICK k \in Nat : q = p + 1 + k
  BY <1>3
<1>5. size * (p + 1 + k) = size * p + size + size * k
  OBVIOUS
<1>6. size * k >= 0
  OBVIOUS
<1> QED
  BY <1>2, <1>4, <1>5, <1>6

\* Going back to the last multiple takes less than the size.
LEMMA LastMultiple ==
  ASSUME NEW d \in Nat, NEW size \in Nat \ {0}
  PROVE  \E b \in Nat : b % size = 0 /\ b <= d /\ d < b + size
<1>1. d % size \in 0 .. size - 1
  OBVIOUS
<1>2. PICK r \in 0 .. size - 1, p \in Int : r = d % size /\ p = d \div size
  BY <1>1
<1>3. d = size * p + r
  BY <1>2
<1>4. p \in Nat
  BY <1>2
<1>5. PICK b \in Nat : b = size * p
  BY <1>4
<1>6. b % size = 0
  BY <1>4, <1>5
<1> QED
  BY <1>2, <1>3, <1>5, <1>6

\* Test blocks of one size, one after the other, meet every row after the initial history once.
LEMMA BlocksCover ==
  ASSUME NEW periods, NEW n \in Nat, n = Len(periods), NEW initial \in Nat,
         NEW size \in Nat \ {0}, NEW i \in 1 .. n
  PROVE  /\ i <= initial =>
              \A s \in BlockStarts(periods, initial, size) : i \notin s .. Smaller(s + size - 1, n)
         /\ i > initial =>
              \E s \in BlockStarts(periods, initial, size) :
                /\ i \in s .. Smaller(s + size - 1, n)
                /\ \A q \in BlockStarts(periods, initial, size) :
                     i \in q .. Smaller(q + size - 1, n) => q = s
<1>0. PICK Starts : Starts = BlockStarts(periods, initial, size)
  OBVIOUS
<1>a. Starts = {s \in initial + 1 .. n : (s - initial - 1) % size = 0}
  BY <1>0 DEF BlockStarts
<1> DEFINE Test(s) == s .. Smaller(s + size - 1, n)
<1>1. \A s \in Starts : s \in Int /\ initial + 1 <= s /\ s <= n
  BY <1>a
<1>2. ASSUME NEW s \in Starts
      PROVE  i \in Test(s) <=> s <= i /\ i < s + size
  <2>1. s \in Int
    BY <1>1
  <2>2. i \in s .. Smaller(s + size - 1, n) <=> s <= i /\ i < s + size
    BY <2>1 DEF Smaller
  <2> QED
    BY <2>2
<1>3. ASSUME i <= initial
      PROVE  \A s \in Starts : i \notin Test(s)
  BY <1>1, <1>2, <1>3
<1>4. ASSUME i > initial
      PROVE  \E s \in Starts : i \in Test(s) /\ \A q \in Starts : i \in Test(q) => q = s
  <2>1. PICK d \in Nat : d = i - initial - 1
    BY <1>4
  <2>2. PICK b \in Nat : b % size = 0 /\ b <= d /\ d < b + size
    BY LastMultiple
  <2>3. PICK s \in Int : s = initial + 1 + b
    OBVIOUS
  <2>4. s - initial - 1 = b /\ s \in initial + 1 .. n
    BY <2>1, <2>2, <2>3
  <2>5. s \in Starts
    BY <1>a, <2>2, <2>4
  <2>6. i \in Test(s)
    <3>1. s <= i /\ i < s + size
      BY <2>1, <2>2, <2>3
    <3> QED
      BY <3>1, <1>2, <2>5
  <2>7. ASSUME NEW r \in Starts, i \in Test(r)
        PROVE  r = s
    <3>1. r \in Int /\ initial + 1 <= r /\ r <= i /\ i < r + size
      BY <1>1, <1>2, <2>7
    <3>2. PICK a \in Nat : a = r - initial - 1
      BY <3>1
    <3>3. a % size = 0
      BY <1>a, <3>2
    <3>4. a <= d /\ d < a + size
      BY <3>1, <3>2, <2>1
    <3>5. ~(a < b)
      <4>1. a < b => a + size <= b
        BY <3>3, <2>2, MultiplesApart
      <4> QED
        BY <4>1, <3>4, <2>2
    <3>6. ~(b < a)
      <4>1. b < a => b + size <= a
        BY <3>3, <2>2, MultiplesApart
      <4> QED
        BY <4>1, <3>4, <2>2
    <3> QED
      BY <3>1, <3>2, <3>5, <3>6, <2>3
  <2> QED
    BY <2>5, <2>6, <2>7
<1> QED
  BY <1>0, <1>3, <1>4

\* The folds of a walk-forward validation.
LEMMA ForwardFolds ==
  ASSUME NEW periods, Chronological(periods), NEW initial \in Nat \ {0}, NEW size \in Nat \ {0},
         WalkForward(periods, initial, size).failure = "none"
  PROVE  LET folds == WalkForward(periods, initial, size).folds
             n == Len(periods)
         IN /\ \A f \in folds :
                 /\ Disjoint(f) /\ Causal(periods, f)
                 /\ \E s, t \in 1 .. n : s <= t /\ f.test = s .. t
            /\ Covered(periods, initial, {f.test : f \in folds})
<1> DEFINE Starts == BlockStarts(periods, initial, size)
           Fold(s) == ForwardFold(periods, s, size)
<1>1. PICK folds : folds = {Fold(s) : s \in Starts}
  OBVIOUS
<1>2. ~(initial >= Len(periods) \/ size > Len(periods) \/ \E f \in folds : f.train = {})
  BY <1>1 DEF WalkForward
<1>3. WalkForward(periods, initial, size).folds = folds
  BY <1>1, <1>2 DEF WalkForward
<1>4. PICK n \in Nat : n = Len(periods) /\ DOMAIN periods = 1 .. n
  BY RowsOfTable
<1>5. \A i, j \in 1 .. n : i <= j => periods[i].start <= periods[j].start
  BY <1>4, RowsOfTable
<1>6. \A i \in 1 .. n : periods[i].start \in Int /\ periods[i].available \in Int
  BY <1>4, RowsOfTable
<1>7. Starts = {s \in initial + 1 .. n : (s - initial - 1) % size = 0}
  BY <1>4 DEF BlockStarts
<1> HIDE DEF Starts
<1>8. ASSUME NEW s \in Starts
      PROVE  /\ Fold(s).test = s .. Smaller(s + size - 1, n)
             /\ Disjoint(Fold(s)) /\ Causal(periods, Fold(s))
             /\ \E t \in 1 .. n : s \in 1 .. n /\ s <= t /\ Fold(s).test = s .. t
  <2> DEFINE history == 1 .. s - 1
  <2>1. PICK train : train = {i \in history : periods[i].available < periods[s].start}
    OBVIOUS
  <2>2. PICK t : t = Smaller(s + size - 1, n)
    OBVIOUS
  <2>3. PICK f : f = Fold(s)
    OBVIOUS
  <2>4. PICK purged : purged = history \ train
    OBVIOUS
  <2>5. f = [train |-> train, test |-> s .. t, purged |-> purged, embargoed |-> {}]
    BY <2>1, <2>2, <2>3, <2>4, <1>4 DEF ForwardFold
  <2>6. s \in Int /\ 1 <= s /\ s <= n
    BY <1>7
  <2>7. t \in Int /\ s <= t /\ t <= n
    BY <2>2, <2>6 DEF Smaller
  <2>8. train # {}
    <3>1. f \in folds
      BY <1>1, <2>3
    <3>2. f.train # {}
      BY <3>1, <1>2
    <3> QED
      BY <3>2, <2>5
  <2>9. history \subseteq 1 .. n /\ s .. t \subseteq 1 .. n /\ history \cap (s .. t) = {}
    BY <2>6, <2>7
  <2>10. train \subseteq history /\ purged \subseteq history /\ train \cap purged = {}
    BY <2>1, <2>4
  <2>11. Disjoint(f)
    <3> HIDE DEF history
    <3>1. PICK all : all = 1 .. n
      OBVIOUS
    <3>2. PICK test : test = s .. t
      OBVIOUS
    <3>3. IsFiniteSet(all)
      BY <3>1, FS_Interval
    <3>4. /\ train \in SUBSET all /\ test \in SUBSET all /\ purged \in SUBSET all
          /\ {} \in SUBSET all
      BY <2>9, <2>10, <3>1, <3>2
    <3>5. /\ train \cap test = {} /\ (train \cup test) \cap purged = {}
          /\ (train \cup test \cup purged) \cap {} = {}
      BY <2>9, <2>10, <3>2
    <3>6. f = [train |-> train, test |-> test, purged |-> purged, embargoed |-> {}]
      BY <2>5, <3>2
    <3> QED
      BY <3>3, <3>4, <3>5, <3>6, <2>8, RolesDisjoint
  <2>12. Causal(periods, f)
    <3> SUFFICES ASSUME NEW i \in train, NEW j \in s .. t
                 PROVE  periods[i].available < periods[j].start
      BY <2>5 DEF Causal
    <3>1. i \in 1 .. n /\ j \in 1 .. n /\ s \in 1 .. n /\ s <= j
      BY <2>6, <2>7, <2>9, <2>10
    <3>2. periods[i].available < periods[s].start
      BY <2>1
    <3>3. periods[s].start <= periods[j].start
      BY <3>1, <1>5
    <3>4. periods[i].available \in Int /\ periods[s].start \in Int /\ periods[j].start \in Int
      BY <3>1, <1>6
    <3> QED
      BY <3>2, <3>3, <3>4
  <2>13. f.test = s .. t
    BY <2>5
  <2> QED
    BY <2>2, <2>3, <2>6, <2>7, <2>11, <2>12, <2>13
<1>9. \A f \in folds : /\ Disjoint(f) /\ Causal(periods, f)
                       /\ \E s, t \in 1 .. n : s <= t /\ f.test = s .. t
  BY <1>1, <1>8
<1>10. Covered(periods, initial, {f.test : f \in folds})
  <2>1. {f.test : f \in folds} = {s .. Smaller(s + size - 1, n) : s \in Starts}
    BY <1>1, <1>8
  <2>2. PICK tests : tests = {s .. Smaller(s + size - 1, n) : s \in Starts}
    OBVIOUS
  <2>3. \A i \in 1 .. n : Cardinality({t \in tests : i \in t}) = (IF i > initial THEN 1 ELSE 0)
    <3> SUFFICES ASSUME NEW i \in 1 .. n
                 PROVE  Cardinality({t \in tests : i \in t}) = (IF i > initial THEN 1 ELSE 0)
      OBVIOUS
    <3>1. n \in Nat /\ initial \in Nat /\ size \in Nat \ {0} /\ i \in 1 .. n
      BY <1>4
    <3>2. PICK Here : Here = {t \in tests : i \in t}
      OBVIOUS
    <3>3. \A t : t \in Here <=> i \in t /\ \E s \in Starts : t = s .. Smaller(s + size - 1, n)
      BY <3>2, <2>2
    <3>4. PICK S : S = Starts
      OBVIOUS
    <3>5. S = BlockStarts(periods, initial, size)
      BY <3>4 DEF Starts
    <3>6. /\ i <= initial => \A s \in S : i \notin s .. Smaller(s + size - 1, n)
          /\ i > initial =>
               \E s \in S : /\ i \in s .. Smaller(s + size - 1, n)
                            /\ \A q \in S : i \in q .. Smaller(q + size - 1, n) => q = s
      BY <3>1, <3>5, <1>4, BlocksCover
    <3>7. CASE i <= initial
      <4>1. Here = {}
        BY <3>3, <3>4, <3>6, <3>7
      <4> QED
        BY <4>1, <3>2, <3>7, FS_EmptySet
    <3>8. CASE i > initial
      <4>1. PICK s \in S : /\ i \in s .. Smaller(s + size - 1, n)
                           /\ \A q \in S : i \in q .. Smaller(q + size - 1, n) => q = s
        BY <3>6, <3>8
      <4>2. PICK t : t = s .. Smaller(s + size - 1, n)
        OBVIOUS
      <4>3. t \in Here /\ \A u \in Here : u = t
        BY <4>1, <4>2, <3>3, <3>4
      <4>4. Here = {t} /\ Cardinality({t}) = 1
        BY <4>3, FS_Singleton
      <4> QED
        BY <4>4, <3>2, <3>8
    <3> QED
      BY <3>7, <3>8
  <2> QED
    BY <1>4, <2>1, <2>2, <2>3 DEF Covered
<1> QED
  BY <1>3, <1>4, <1>9, <1>10

\* The end of a test block is the latest end of its labels.
LEMMA EndOfBlock ==
  ASSUME NEW periods, Chronological(periods),
         NEW first \in 1 .. Len(periods), NEW last \in 1 .. Len(periods), first <= last
  PROVE  /\ BlockEnd(periods, first .. last) \in Int
         /\ \A i \in first .. last : periods[i].end <= BlockEnd(periods, first .. last)
<1> DEFINE EndsTo(k) == {periods[i].end : i \in first .. first + k}
           HasLatest(k) == \E x \in EndsTo(k) : \A y \in EndsTo(k) : x >= y
           Bad == {k \in 0 .. last - first : ~HasLatest(k)}
<1>1. PICK n \in Nat : n = Len(periods)
  BY RowsOfTable
<1>2. \A i \in 1 .. n : periods[i].end \in Int
  BY <1>1, RowsOfTable
<1>3. \A k \in 0 .. last - first : first .. first + k \subseteq 1 .. n /\ k \in Nat
  BY <1>1
<1>4. \A k \in 0 .. last - first : EndsTo(k) \subseteq Int
  BY <1>2, <1>3
<1>5. Bad = {}
  <2> SUFFICES ASSUME Bad # {}
               PROVE  FALSE
    OBVIOUS
  <2>1. Bad \subseteq Nat
    BY <1>3
  <2>2. PICK k \in Bad : \A j \in Bad : ~ (<<j, k>> \in OpToRel(<, Nat))
    BY <2>1, NatLessThanWellFounded, WFMin
  <2>3. k \in Nat /\ k \in 0 .. last - first
    BY <2>1
  <2>4. CASE k = 0
    <3>1. EndsTo(0) = {periods[first].end}
      <4>1. first .. first + 0 = {first}
        BY <1>1
      <4> QED
        BY <4>1
    <3>2. periods[first].end \in Int
      BY <1>1, <1>2
    <3>3. periods[first].end \in EndsTo(0) /\ \A y \in EndsTo(0) : periods[first].end >= y
      BY <3>1, <3>2
    <3> QED
      BY <3>3, <2>4
  <2>5. CASE k > 0
    <3>1. PICK j \in Nat : k = j + 1 /\ j \in 0 .. last - first
      <4>1. PICK j \in Nat : k = j + 1
        BY <2>3, <2>5
      <4>2. last - first \in Int /\ k <= last - first
        BY <2>3, <1>1
      <4> HIDE DEF Bad, HasLatest, EndsTo
      <4>3. j \in 0 .. last - first
        BY <4>1, <4>2
      <4> QED
        BY <4>1, <4>3
    <3>2. <<j, k>> \in OpToRel(<, Nat)
      BY <3>1, <2>3 DEF OpToRel
    <3>3. HasLatest(j)
      BY <3>1, <3>2, <2>2
    <3>4. PICK x \in EndsTo(j) : \A y \in EndsTo(j) : x >= y
      BY <3>3
    <3>5. PICK z : z = periods[first + k].end
      OBVIOUS
    <3>6. EndsTo(k) = EndsTo(j) \cup {z}
      <4>1. first .. first + k = (first .. first + j) \cup {first + k}
        BY <3>1, <1>1
      <4> QED
        BY <4>1, <3>5
    <3>7. EndsTo(j) \subseteq Int /\ EndsTo(k) \subseteq Int /\ z \in EndsTo(k)
      BY <1>4, <2>3, <3>1, <3>6
    <3> HIDE DEF EndsTo
    <3>8. x \in Int /\ z \in Int
      BY <3>7
    <3>9. CASE x >= z
      <4>1. x \in EndsTo(k) /\ \A y \in EndsTo(k) : x >= y
        BY <3>4, <3>6, <3>9
      <4> QED
        BY <4>1
    <3>10. CASE ~(x >= z)
      <4>1. \A y \in EndsTo(j) : z >= y
        BY <3>4, <3>7, <3>8, <3>10
      <4>2. z \in EndsTo(k) /\ \A y \in EndsTo(k) : z >= y
        BY <4>1, <3>6, <3>8
      <4> QED
        BY <4>2
    <3> QED
      BY <3>9, <3>10
  <2> QED
    BY <2>3, <2>4, <2>5
<1>6. PICK k \in 0 .. last - first : k = last - first /\ first + k = last
  BY <1>1
<1>7. HasLatest(k)
  BY <1>5, <1>6
<1>8. PICK all : all = {periods[i].end : i \in first .. last}
  OBVIOUS
<1>9. \E x \in all : \A y \in all : x >= y
  BY <1>6, <1>7, <1>8
<1>10. Max(all) \in all /\ \A y \in all : Max(all) >= y
  BY <1>9 DEF Max
<1>11. BlockEnd(periods, first .. last) = Max(all)
  BY <1>8 DEF BlockEnd
<1>12. all \subseteq Int
  BY <1>4, <1>6, <1>8
<1>13. PICK end : end = Max(all)
  OBVIOUS
<1>14. end \in Int /\ \A y \in all : y <= end
  BY <1>10, <1>12, <1>13
<1> QED
  BY <1>8, <1>11, <1>13, <1>14

\* A purged fold gives every row one role, and its training is apart from its test block.
LEMMA PurgedFolds ==
  ASSUME NEW periods, Chronological(periods), NEW first \in 1 .. Len(periods),
         NEW last \in 1 .. Len(periods), first <= last, NEW embargo \in Nat,
         PurgedFold(periods, first .. last, embargo).failure = "none"
  PROVE  LET f == PurgedFold(periods, first .. last, embargo).fold
         IN Disjoint(f) /\ Apart(periods, f, embargo) /\ f.test = first .. last
<1>1. PICK n \in Nat : n = Len(periods) /\ DOMAIN periods = 1 .. n
  BY RowsOfTable
<1>2. PICK test : test = first .. last
  OBVIOUS
<1>3. PICK start : start = periods[first].start
  OBVIOUS
<1>4. PICK end : end = BlockEnd(periods, test)
  OBVIOUS
<1>5. PICK others : others = DOMAIN periods \ test
  OBVIOUS
<1>6. PICK purged : purged = {i \in others : periods[i].start <= end /\ periods[i].end >= start}
  OBVIOUS
<1>7. PICK embargoed : embargoed = {i \in others \ purged :
                                      end < periods[i].start /\ periods[i].start <= end + embargo}
  OBVIOUS
<1>8. PICK train : train = others \ (purged \cup embargoed)
  OBVIOUS
<1>9. Min(test) = first
  <2>1. first \in test /\ \A y \in test : first =< y
    BY <1>1, <1>2
  <2>2. \A x \in test : (\A y \in test : x =< y) => x = first
    <3> SUFFICES ASSUME NEW x \in test, \A y \in test : x =< y
                 PROVE  x = first
      OBVIOUS
    <3>1. x =< first /\ first =< x /\ x \in Int /\ first \in Int
      BY <1>1, <1>2, <2>1
    <3> QED
      BY <3>1
  <2> QED
    BY <2>1, <2>2 DEF Min
<1>10. /\ end \in Int /\ \A j \in test : periods[j].end <= end
  BY <1>1, <1>2, <1>4, EndOfBlock
<1>11. PurgedFold(periods, first .. last, embargo) =
         IF train = {} THEN [failure |-> "ValueError"]
         ELSE [failure |-> "none",
               fold |-> [train |-> train, test |-> test, purged |-> purged,
                         embargoed |-> embargoed]]
  <2>1. PurgedFold(periods, test, embargo) =
         IF train = {} THEN [failure |-> "ValueError"]
         ELSE [failure |-> "none",
               fold |-> [train |-> train, test |-> test, purged |-> purged,
                         embargoed |-> embargoed]]
    BY <1>3, <1>4, <1>5, <1>6, <1>7, <1>8, <1>9 DEF PurgedFold
  <2> QED
    BY <2>1, <1>2
<1>12. train # {}
  BY <1>11
<1>13. PICK f : f = [train |-> train, test |-> test, purged |-> purged, embargoed |-> embargoed]
  OBVIOUS
<1>14. PurgedFold(periods, first .. last, embargo).fold = f
  BY <1>11, <1>12, <1>13
<1>15. Disjoint(f)
  <2>1. PICK all : all = 1 .. n
    OBVIOUS
  <2>2. IsFiniteSet(all)
    BY <2>1, FS_Interval
  <2>3. test \subseteq all
    BY <1>1, <1>2, <2>1
  <2>4. /\ train \in SUBSET all /\ test \in SUBSET all /\ purged \in SUBSET all
        /\ embargoed \in SUBSET all
    BY <2>3, <1>1, <1>5, <1>6, <1>7, <1>8, <2>1
  <2>5. /\ train \cap test = {} /\ (train \cup test) \cap purged = {}
        /\ (train \cup test \cup purged) \cap embargoed = {}
    BY <1>5, <1>6, <1>7, <1>8
  <2> QED
    BY <1>12, <1>13, <2>2, <2>4, <2>5, RolesDisjoint
<1>16. Apart(periods, f, embargo)
  <2> SUFFICES ASSUME NEW i \in train, NEW j \in test
               PROVE  \/ periods[i].end < periods[j].start
                      \/ periods[i].start > periods[j].end + embargo
    BY <1>13 DEF Apart
  <2>1. i \in 1 .. n /\ j \in 1 .. n /\ first \in 1 .. n /\ first <= j
    BY <1>1, <1>2, <1>5, <1>8
  <2>2. PICK a \in Int, b \in Int : a = periods[i].start /\ b = periods[i].end
    BY <2>1, <1>1, RowsOfTable
  <2>3. PICK c \in Int, d \in Int : c = periods[j].start /\ d = periods[j].end
    BY <2>1, <1>1, RowsOfTable
  <2>4. start \in Int /\ start <= c
    BY <2>1, <2>3, <1>1, <1>3, RowsOfTable
  <2>5. d <= end
    BY <2>3, <1>10
  <2>6. ~(a <= end /\ b >= start)
    BY <2>2, <1>6, <1>8
  <2>7. ~(end < a /\ a <= end + embargo)
    BY <2>2, <1>7, <1>8
  <2>8. b < c \/ a > d + embargo
    BY <2>4, <2>5, <2>6, <2>7, <1>10
  <2> QED
    BY <2>8, <2>2, <2>3
<1> QED
  BY <1>2, <1>13, <1>14, <1>15, <1>16

\* What the paired folds of a retained execution promise.
PairsDoNotLeak(periods, initial, embargo, folds) ==
  /\ \A d \in folds :
       /\ Disjoint(d.forward) /\ Causal(periods, d.forward)
       /\ Disjoint(d.purged) /\ Apart(periods, d.purged, embargo)
       /\ d.forward.test = d.purged.test
  /\ Covered(periods, initial, {d.forward.test : d \in folds})

\* The folds of a retained execution: every walk-forward fold is paired with the purged fold of
\* the same block.
LEMMA AssessedFolds ==
  ASSUME NEW instants \in InstantTables, NEW initial \in Nat \ {0}, NEW size \in Nat \ {0},
         NEW embargo \in Nat, NEW lags, NEW periods, periods = Labels(instants),
         AssessFolds(instants, initial, size, embargo, lags).failure = "none"
  PROVE  PairsDoNotLeak(periods, initial, embargo,
                        AssessFolds(instants, initial, size, embargo, lags).folds)
<1>1. Chronological(periods)
  BY LabelsChronological
<1>2. PICK forward : forward = WalkForward(periods, initial, size)
  OBVIOUS
<1>3. PICK purgeds : purgeds = [f \in forward.folds |-> PurgedFold(periods, f.test, embargo)]
  OBVIOUS
<1> DEFINE Enough(f) == Cardinality(f.test) >= 2 /\ lags < Cardinality(f.test)
<1>4. PICK folds : folds = {[forward |-> f, purged |-> purgeds[f].fold, assessed |-> Enough(f)] :
                              f \in forward.folds}
  OBVIOUS
<1>5. AssessFolds(instants, initial, size, embargo, lags) =
        IF forward.failure # "none" THEN forward
        ELSE IF \E f \in forward.folds : purgeds[f].failure # "none"
             THEN [failure |-> "ValueError"] ELSE [failure |-> "none", folds |-> folds]
  BY <1>2, <1>3, <1>4 DEF AssessFolds
<1>6. /\ forward.failure = "none"
      /\ \A f \in forward.folds : purgeds[f].failure = "none"
      /\ AssessFolds(instants, initial, size, embargo, lags).folds = folds
  <2>1. CASE forward.failure # "none"
    BY <1>5, <2>1
  <2>2. CASE /\ forward.failure = "none"
             /\ \E f \in forward.folds : purgeds[f].failure # "none"
    BY <1>5, <2>2
  <2>3. CASE /\ forward.failure = "none"
             /\ \A f \in forward.folds : purgeds[f].failure = "none"
    BY <1>5, <2>3
  <2> QED
    BY <2>1, <2>2, <2>3
<1>7. PICK n : n = Len(periods)
  OBVIOUS
<1>8. /\ \A f \in forward.folds :
           /\ Disjoint(f) /\ Causal(periods, f)
           /\ \E s, t \in 1 .. n : s <= t /\ f.test = s .. t
      /\ Covered(periods, initial, {f.test : f \in forward.folds})
  BY <1>1, <1>2, <1>6, <1>7, ForwardFolds
<1>9. ASSUME NEW f \in forward.folds
      PROVE  /\ Disjoint(purgeds[f].fold) /\ Apart(periods, purgeds[f].fold, embargo)
             /\ purgeds[f].fold.test = f.test
  <2>1. PICK s \in 1 .. n, t \in 1 .. n : s <= t /\ f.test = s .. t
    BY <1>8
  <2>2. purgeds[f] = PurgedFold(periods, s .. t, embargo)
    BY <2>1, <1>3
  <2>3. PurgedFold(periods, s .. t, embargo).failure = "none"
    BY <2>2, <1>6
  <2>4. PICK g : g = PurgedFold(periods, s .. t, embargo).fold
    OBVIOUS
  <2>5. Disjoint(g) /\ Apart(periods, g, embargo) /\ g.test = s .. t
    BY <2>1, <2>3, <2>4, <1>1, <1>7, PurgedFolds
  <2> QED
    BY <2>1, <2>2, <2>4, <2>5
<1>10. ASSUME NEW d \in folds
       PROVE  /\ Disjoint(d.forward) /\ Causal(periods, d.forward)
              /\ Disjoint(d.purged) /\ Apart(periods, d.purged, embargo)
              /\ d.forward.test = d.purged.test
  <2>1. PICK f \in forward.folds : d.forward = f /\ d.purged = purgeds[f].fold
    BY <1>4
  <2> QED
    BY <2>1, <1>8, <1>9
<1>11. {d.forward.test : d \in folds} = {f.test : f \in forward.folds}
  <2>1. PICK all : all = forward.folds
    OBVIOUS
  <2>2. \A d \in folds : d.forward \in all
    BY <2>1, <1>4
  <2>3. ASSUME NEW f \in all
        PROVE  \E d \in folds : d.forward = f
    <3>1. PICK d : d = [forward |-> f, purged |-> purgeds[f].fold, assessed |-> Enough(f)]
      OBVIOUS
    <3>2. d \in folds
      BY <3>1, <2>1, <1>4
    <3> QED
      BY <3>1, <3>2
  <2>4. {d.forward.test : d \in folds} = {f.test : f \in all}
    BY <2>2, <2>3
  <2> QED
    BY <2>1, <2>4
<1> QED
  BY <1>6, <1>8, <1>10, <1>11 DEF PairsDoNotLeak

\* The folds of a validation never leak: what walk_forward(), purged_fold() and assess_folds()
\* answer gives every row one role, trains on what was known before the test block or is apart
\* from it, and covers the rows after the initial history once, whatever the labels, the sizes
\* and the embargo.
THEOREM FoldsNeverLeak ==
  FoldsSpec => []FoldsDoNotLeak
<1>1. InitFolds => FoldsDoNotLeak
  BY DEF InitFolds, FoldsDoNotLeak
<1>2. FoldsDoNotLeak /\ [NextFolds]_<<question, answer>> => FoldsDoNotLeak'
  <2>1. ASSUME AskForward
        PROVE  FoldsDoNotLeak'
    <3>1. PICK periods \in PeriodTables, initial \in Sizes, size \in Sizes :
            /\ question' = [kind |-> "forward", periods |-> periods, initial |-> initial]
            /\ answer' = WalkForward(periods, initial, size)
      BY <2>1 DEF AskForward, Asked
    <3>2. Chronological(periods) /\ initial \in Nat \ {0} /\ size \in Nat \ {0}
      BY SplitAssumption
    <3>3. PICK w : w = WalkForward(periods, initial, size)
      OBVIOUS
    <3>4. w.failure = "none" =>
            /\ \A f \in w.folds : Disjoint(f) /\ Causal(periods, f)
            /\ Covered(periods, initial, {f.test : f \in w.folds})
      BY <3>2, <3>3, ForwardFolds
    <3>5. /\ question'.kind = "forward" /\ question'.periods = periods
          /\ question'.initial = initial /\ answer' = w
      BY <3>1, <3>3
    <3> QED
      BY <3>4, <3>5 DEF FoldsDoNotLeak
  <2>2. ASSUME AskPurged
        PROVE  FoldsDoNotLeak'
    <3>1. PICK periods \in PeriodTables, embargo \in Embargoes :
            \E first, last \in DOMAIN periods :
              /\ first <= last
              /\ question' = [kind |-> "purged", periods |-> periods, embargo |-> embargo]
              /\ answer' = PurgedFold(periods, first .. last, embargo)
      BY <2>2 DEF AskPurged, Asked
    <3>2. PICK first \in DOMAIN periods, last \in DOMAIN periods :
              /\ first <= last
              /\ question' = [kind |-> "purged", periods |-> periods, embargo |-> embargo]
              /\ answer' = PurgedFold(periods, first .. last, embargo)
      BY <3>1
    <3>3. Chronological(periods) /\ embargo \in Nat
      BY SplitAssumption
    <3>4. first \in 1 .. Len(periods) /\ last \in 1 .. Len(periods)
      BY <3>3, RowsOfTable
    <3>5. PICK p : p = PurgedFold(periods, first .. last, embargo)
      OBVIOUS
    <3>6. p.failure = "none" => Disjoint(p.fold) /\ Apart(periods, p.fold, embargo)
      BY <3>2, <3>3, <3>4, <3>5, PurgedFolds
    <3>7. /\ question'.kind = "purged" /\ question'.periods = periods
          /\ question'.embargo = embargo /\ answer' = p
      BY <3>2, <3>5
    <3> QED
      BY <3>6, <3>7 DEF FoldsDoNotLeak
  <2>3. ASSUME AskFolds
        PROVE  FoldsDoNotLeak'
    <3>1. PICK instants \in InstantTables, initial \in Sizes \ {1}, size \in Sizes,
               embargo \in Embargoes, lags \in LagCounts :
            /\ question' = [kind |-> "folds", periods |-> Labels(instants), initial |-> initial,
                            embargo |-> embargo]
            /\ answer' = AssessFolds(instants, initial, size, embargo, lags)
      BY <2>3 DEF AskFolds, Asked
    <3>2. initial \in Nat \ {0} /\ size \in Nat \ {0} /\ embargo \in Nat
      BY SplitAssumption
    <3>3. PICK periods : periods = Labels(instants)
      OBVIOUS
    <3>4. PICK a : a = AssessFolds(instants, initial, size, embargo, lags)
      OBVIOUS
    <3>5. a.failure = "none" => PairsDoNotLeak(periods, initial, embargo, a.folds)
      BY <3>1, <3>2, <3>3, <3>4, AssessedFolds
    <3>6. /\ question'.kind = "folds" /\ question'.periods = periods
          /\ question'.initial = initial /\ question'.embargo = embargo /\ answer' = a
      BY <3>1, <3>3, <3>4
    <3> QED
      BY <3>5, <3>6 DEF FoldsDoNotLeak, PairsDoNotLeak
  <2>4. ASSUME FoldsDoNotLeak, UNCHANGED <<question, answer>>
        PROVE  FoldsDoNotLeak'
    <3>1. question' = question /\ answer' = answer
      BY <2>4
    <3> QED
      BY <2>4, <3>1 DEF FoldsDoNotLeak
  <2> QED
    BY <2>1, <2>2, <2>3, <2>4 DEF NextFolds
<1> QED
  BY <1>1, <1>2, PTL DEF FoldsSpec

-----------------------------------------------------------------------------
(* What a formation may know.  A selection is determined by the set of the *)
(* rows that are known by then, so that neither their order nor what is    *)
(* published later can change it.                                          *)

\* Two facts that select_facts() does not accept together.
FactsConflict(a, b) ==
  \/ FactSource(a) = FactSource(b) /\ a # b
  \/ FactVersion(a) = FactVersion(b) /\ a.value # b.value

\* The row that represents its version among those of K: the one of the smallest source.
Represents(r, K) == \A k \in K : FactVersion(k) = FactVersion(r) => r.source <= k.source

\* What select_facts() has seen when the rows of K went by.
FactsSound(seen, K) ==
  /\ seen \in [failed : BOOLEAN, sources : SUBSET K, versions : SUBSET K]
  /\ seen.failed <=> \E a, b \in K : FactsConflict(a, b)
  /\ ~seen.failed =>
       /\ seen.sources = K
       /\ seen.versions = {r \in K : Represents(r, K)}
       /\ \A k \in K : \E v \in seen.versions : FactVersion(v) = FactVersion(k)

\* Rows of one version and one source are of one source identity.
LEMMA VersionsAndSources ==
  ASSUME NEW a, NEW b, FactVersion(a) = FactVersion(b), a.source = b.source
  PROVE  FactSource(a) = FactSource(b)
  BY DEF FactVersion, FactSource

\* A conflict has two sides.
LEMMA ConflictIsMutual ==
  ASSUME NEW a, NEW b
  PROVE  FactsConflict(a, b) <=> FactsConflict(b, a)
  BY DEF FactsConflict

\* One more row.
LEMMA AddFactKeeps ==
  ASSUME NEW K \in SUBSET FactRows, NEW row \in FactRows, NEW seen, FactsSound(seen, K)
  PROVE  FactsSound(AddFact(seen, row), K \cup {row})
<1>1. PICK L : L = K \cup {row}
  OBVIOUS
<1>2. /\ seen \in [failed : BOOLEAN, sources : SUBSET K, versions : SUBSET K]
      /\ seen.failed <=> \E a, b \in K : FactsConflict(a, b)
      /\ ~seen.failed =>
           /\ seen.sources = K
           /\ seen.versions = {r \in K : Represents(r, K)}
           /\ \A k \in K : \E v \in seen.versions : FactVersion(v) = FactVersion(k)
  BY DEF FactsSound
<1>3. PICK previous : previous = {v \in seen.versions : FactVersion(v) = FactVersion(row)}
  OBVIOUS
<1>4. PICK conflict \in BOOLEAN :
        conflict <=> \/ \E s \in seen.sources : FactSource(s) = FactSource(row) /\ s # row
                     \/ \E v \in previous : v.value # row.value
  OBVIOUS
<1>5. PICK next : next = AddFact(seen, row)
  OBVIOUS
<1>6. next = IF seen.failed \/ conflict THEN [seen EXCEPT !.failed = TRUE]
             ELSE IF previous = {}
             THEN [seen EXCEPT !.sources = seen.sources \cup {row},
                               !.versions = seen.versions \cup {row}]
             ELSE IF \E v \in previous : row.source < v.source
             THEN [seen EXCEPT !.sources = seen.sources \cup {row},
                               !.versions = (seen.versions \ previous) \cup {row}]
             ELSE [seen EXCEPT !.sources = seen.sources \cup {row}]
  BY <1>3, <1>4, <1>5 DEF AddFact
<1>7. seen \in [failed : BOOLEAN, sources : SUBSET L, versions : SUBSET L]
  BY <1>1, <1>2
<1>8. \A r \in L : r.source \in Int
  BY <1>1, PointInTimeAssumption
<1>9. K \subseteq L /\ row \in L /\ \A r \in L : r \in K \/ r = row
  BY <1>1
<1>10. CASE seen.failed \/ conflict
  <2>1. next = [seen EXCEPT !.failed = TRUE]
    BY <1>6, <1>10
  <2>2. next \in [failed : BOOLEAN, sources : SUBSET L, versions : SUBSET L] /\ next.failed = TRUE
    BY <2>1, <1>7
  <2>3. \E a, b \in L : FactsConflict(a, b)
    <3>1. CASE seen.failed
      BY <3>1, <1>2, <1>9
    <3>2. CASE ~seen.failed /\ conflict
      <4>1. PICK s \in K : FactsConflict(s, row)
        <5>1. CASE \E s \in seen.sources : FactSource(s) = FactSource(row) /\ s # row
          BY <5>1, <3>2, <1>2 DEF FactsConflict
        <5>2. CASE \E v \in previous : v.value # row.value
          BY <5>2, <1>2, <1>3 DEF FactsConflict
        <5> QED
          BY <3>2, <5>1, <5>2, <1>4
      <4> QED
        BY <4>1, <1>9
    <3> QED
      BY <3>1, <3>2, <1>10
  <2> QED
    BY <2>2, <2>3, <1>1, <1>5 DEF FactsSound
<1>11. CASE ~seen.failed /\ ~conflict
  <2>1. /\ seen.sources = K
        /\ \A r : r \in seen.versions <=> r \in K /\ Represents(r, K)
        /\ \A k \in K : \E v \in seen.versions : FactVersion(v) = FactVersion(k)
        /\ ~ \E a, b \in K : FactsConflict(a, b)
    BY <1>2, <1>11
  <2>2. /\ \A s \in K : FactSource(s) = FactSource(row) => s = row
        /\ \A v \in previous : v.value = row.value
    BY <2>1, <1>4, <1>11
  <2>3. previous \subseteq K /\ \A v \in previous : Represents(v, K)
                                                 /\ FactVersion(v) = FactVersion(row)
    BY <2>1, <1>3
  <2>4. ASSUME NEW k \in K, FactVersion(k) = FactVersion(row)
        PROVE  k.value = row.value /\ \E v \in previous : TRUE
    <3>1. PICK v \in seen.versions : FactVersion(v) = FactVersion(k)
      BY <2>1
    <3>2. v \in previous /\ v \in K
      BY <3>1, <2>4, <2>3, <1>3
    <3>3. v.value = k.value
      BY <3>1, <3>2, <2>1 DEF FactsConflict
    <3> QED
      BY <3>2, <3>3, <2>2
  <2>5. ~ \E a, b \in L : FactsConflict(a, b)
    <3> SUFFICES ASSUME NEW a \in L, NEW b \in L, FactsConflict(a, b)
                 PROVE  FALSE
      OBVIOUS
    <3>1. ~FactsConflict(row, row)
      BY DEF FactsConflict
    <3>2. \A k \in K : ~FactsConflict(k, row)
      BY <2>2, <2>4 DEF FactsConflict
    <3>3. \A k \in K : ~FactsConflict(row, k)
      BY <3>2, ConflictIsMutual
    <3> QED
      BY <3>1, <3>2, <3>3, <2>1, <1>9
  <2>6. next.failed = FALSE /\ next.sources = L
        /\ next \in [failed : BOOLEAN, sources : SUBSET L, versions : SUBSET L]
    <3>1. seen.sources \cup {row} = L /\ seen.versions \cup {row} \in SUBSET L
          /\ (seen.versions \ previous) \cup {row} \in SUBSET L /\ seen.failed = FALSE
      BY <2>1, <1>1, <1>2, <1>11
    <3> QED
      BY <3>1, <1>6, <1>7, <1>11
  <2>7. /\ \A r : r \in next.versions <=> r \in L /\ Represents(r, L)
        /\ \A k \in L : \E v \in next.versions : FactVersion(v) = FactVersion(k)
    <3>1. CASE previous = {}
      <4>1. next.versions = seen.versions \cup {row}
        BY <3>1, <1>6, <1>7, <1>11
      <4>2. \A k \in K : FactVersion(k) # FactVersion(row)
        BY <2>4, <3>1
      <4>3. Represents(row, L)
        BY <4>2, <1>8, <1>9 DEF Represents
      <4>4. \A r \in K : Represents(r, L) <=> Represents(r, K)
        BY <4>2, <1>9 DEF Represents
      <4> QED
        BY <4>1, <4>3, <4>4, <2>1, <1>9
    <3>2. CASE previous # {} /\ \E v \in previous : row.source < v.source
      <4>1. next.versions = (seen.versions \ previous) \cup {row}
        BY <3>2, <1>6, <1>7, <1>11
      <4>2. PICK v \in previous : row.source < v.source
        BY <3>2
      <4>3. \A k \in K : FactVersion(k) = FactVersion(row) => v.source <= k.source
        BY <2>3 DEF Represents
      <4>4. v.source \in Int /\ row.source \in Int /\ \A k \in K : k.source \in Int
        BY <1>8, <1>9, <2>3
      <4>5. \A k \in K : FactVersion(k) = FactVersion(row) => row.source < k.source
        BY <4>2, <4>3, <4>4
      <4>6. Represents(row, L)
        BY <4>4, <4>5, <1>9 DEF Represents
      <4>7. \A r \in K : FactVersion(r) = FactVersion(row) => ~Represents(r, L)
        BY <4>4, <4>5, <1>9 DEF Represents
      <4>8. \A r \in K : FactVersion(r) # FactVersion(row) =>
                           (Represents(r, L) <=> Represents(r, K))
        BY <1>9 DEF Represents
      <4>9. \A r : r \in previous <=> r \in seen.versions /\ FactVersion(r) = FactVersion(row)
        BY <1>3
      <4>10. \A r : r \in next.versions <=> r \in L /\ Represents(r, L)
        <5>1. row \notin K
          BY <4>5, <4>4
        <5>2. \A r : r \in next.versions <=>
                       r = row \/ (r \in K /\ Represents(r, K) /\ FactVersion(r) # FactVersion(row))
          BY <4>1, <4>9, <2>1
        <5> QED
          BY <5>1, <5>2, <4>6, <4>7, <4>8, <1>9
      <4>11. ASSUME NEW k \in L
             PROVE  \E w \in next.versions : FactVersion(w) = FactVersion(k)
        <5>1. CASE FactVersion(k) = FactVersion(row)
          BY <5>1, <4>1
        <5>2. CASE FactVersion(k) # FactVersion(row)
          BY <5>2, <4>1, <4>9, <2>1, <1>9
        <5> QED
          BY <5>1, <5>2
      <4> QED
        BY <4>10, <4>11
    <3>3. CASE previous # {} /\ ~ \E v \in previous : row.source < v.source
      <4>1. next.versions = seen.versions
        BY <3>3, <1>6, <1>7, <1>11
      <4>2. PICK v : v \in previous
        BY <3>3
      <4>3. v \in K /\ v \in seen.versions /\ FactVersion(v) = FactVersion(row) /\ Represents(v, K)
        BY <4>2, <2>3, <1>3
      <4>4. \A r \in previous : r.source <= row.source
        BY <3>3, <1>8, <1>9, <2>3
      <4>5. \A r \in K : Represents(r, K) => Represents(r, L)
        <5> SUFFICES ASSUME NEW r \in K, Represents(r, K), FactVersion(row) = FactVersion(r)
                     PROVE  r.source <= row.source
          BY <1>9 DEF Represents
        <5>1. r \in previous
          BY <2>1, <1>3
        <5> QED
          BY <5>1, <4>4
      <4>6. \A r \in K : Represents(r, L) => Represents(r, K)
        BY <1>9 DEF Represents
      <4>7. Represents(row, L) => row \in K
        <5> SUFFICES ASSUME Represents(row, L)
                     PROVE  row \in K
          OBVIOUS
        <5>1. row.source <= v.source
          BY <4>3, <1>9 DEF Represents
        <5>2. v.source <= row.source
          BY <4>2, <4>4
        <5>3. v.source = row.source
          BY <5>1, <5>2, <4>3, <1>8, <1>9
        <5>4. v = row
          BY <5>3, <4>3, <2>2, VersionsAndSources
        <5> QED
          BY <5>4, <4>3
      <4>8. \A r : r \in next.versions <=> r \in L /\ Represents(r, L)
        BY <4>1, <4>5, <4>6, <4>7, <2>1, <1>9
      <4>9. \A k \in L : \E w \in next.versions : FactVersion(w) = FactVersion(k)
        BY <4>1, <4>3, <2>1, <1>9
      <4> QED
        BY <4>8, <4>9
    <3> QED
      BY <3>1, <3>2, <3>3
  <2>8. next.versions = {r \in L : Represents(r, L)}
    BY <2>7
  <2> QED
    BY <2>5, <2>6, <2>7, <2>8, <1>1, <1>5 DEF FactsSound
<1> QED
  BY <1>2, <1>4, <1>10, <1>11

\* The facts among the first n rows that are known by then, and all of them.
FactsAmong(records, contexts, at, n) ==
  {records[i] : i \in {j \in 1 .. n : KnownFact(records[j], contexts, at)}}

KnownFacts(records, contexts, at) == FactsAmong(records, contexts, at, Len(records))

\* g holds what select_facts() has seen after each of the first m rows.
IsFactTable(g, records, contexts, at, m) ==
  g = [n \in 0 .. m |->
        IF n = 0 THEN Empty
        ELSE IF KnownFact(records[n], contexts, at) THEN AddFact(g[n - 1], records[n])
        ELSE g[n - 1]]

LEMMA FactsSeenIsTable ==
  ASSUME NEW records, NEW contexts, NEW at
  PROVE  FactsSeen(records, contexts, at) =
           (CHOOSE g : IsFactTable(g, records, contexts, at, Len(records)))[Len(records)]
  BY DEF FactsSeen, IsFactTable

\* Such a table exists, a row longer each time.
LEMMA FactTableExists ==
  ASSUME NEW records, NEW contexts, NEW at, NEW m \in Nat
  PROVE  \E g : IsFactTable(g, records, contexts, at, m)
<1> DEFINE Good == {n \in Nat : \E g : IsFactTable(g, records, contexts, at, n)}
<1>1. 0 \in Good
  <2>1. IsFactTable([n \in 0 .. 0 |-> Empty], records, contexts, at, 0)
    BY DEF IsFactTable
  <2> QED
    BY <2>1
<1>2. ASSUME NEW n \in Good
      PROVE  n + 1 \in Good
  <2>1. n \in Nat
    OBVIOUS
  <2>2. PICK g : IsFactTable(g, records, contexts, at, n)
    OBVIOUS
  <2>3. PICK last : last = IF KnownFact(records[n + 1], contexts, at)
                           THEN AddFact(g[n], records[n + 1]) ELSE g[n]
    OBVIOUS
  <2>4. PICK h : h = [k \in 0 .. n + 1 |-> IF k = n + 1 THEN last ELSE g[k]]
    OBVIOUS
  <2>5. \A k \in 0 .. n : g[k] = IF k = 0 THEN Empty
                                 ELSE IF KnownFact(records[k], contexts, at)
                                 THEN AddFact(g[k - 1], records[k]) ELSE g[k - 1]
    BY <2>2 DEF IsFactTable
  <2>6. ASSUME NEW k \in 0 .. n + 1
        PROVE  h[k] = IF k = 0 THEN Empty
                      ELSE IF KnownFact(records[k], contexts, at)
                      THEN AddFact(h[k - 1], records[k]) ELSE h[k - 1]
    <3>1. CASE k = n + 1
      <4>1. n \in 0 .. n + 1 /\ n # n + 1 /\ n + 1 \in 0 .. n + 1 /\ n + 1 # 0
            /\ (n + 1) - 1 = n
        BY <2>1
      <4>2. h[n] = g[n] /\ h[n + 1] = last
        BY <4>1, <2>4
      <4> QED
        BY <4>1, <4>2, <3>1, <2>3
    <3>2. CASE k # n + 1
      <4>1. k \in 0 .. n /\ (k # 0 => k - 1 \in 0 .. n + 1 /\ k - 1 # n + 1)
        BY <3>2, <2>1
      <4>2. h[k] = g[k] /\ (k # 0 => h[k - 1] = g[k - 1])
        BY <4>1, <3>2, <2>4
      <4> QED
        BY <4>1, <4>2, <2>5
    <3> QED
      BY <3>1, <3>2
  <2>7. IsFactTable(h, records, contexts, at, n + 1)
    <3>1. h = [k \in 0 .. n + 1 |-> h[k]]
      BY <2>4
    <3> QED
      BY <3>1, <2>6 DEF IsFactTable
  <2> QED
    BY <2>1, <2>7
<1>3. Good = Nat
  <2>1. Good \in SUBSET Nat
    OBVIOUS
  <2> HIDE DEF Good
  <2> QED
    BY <1>1, <1>2, <2>1, NatSetInduction
<1> QED
  BY <1>3

\* Whatever rows went by, select_facts() saw those that are known.
LEMMA FactsAreSeen ==
  ASSUME NEW records \in Seq(FactRows), NEW contexts, NEW at
  PROVE  /\ KnownFacts(records, contexts, at) \in SUBSET FactRows
         /\ FactsSound(FactsSeen(records, contexts, at), KnownFacts(records, contexts, at))
<1>1. PICK m \in Nat : m = Len(records) /\ DOMAIN records = 1 .. m
  OBVIOUS
<1>2. PICK g : IsFactTable(g, records, contexts, at, m) /\ FactsSeen(records, contexts, at) = g[m]
  <2>1. PICK g : g = CHOOSE h : IsFactTable(h, records, contexts, at, m)
    OBVIOUS
  <2>2. IsFactTable(g, records, contexts, at, m)
    BY <2>1, FactTableExists
  <2> QED
    BY <2>1, <2>2, <1>1, FactsSeenIsTable
<1>3. \A n \in 0 .. m : g[n] = IF n = 0 THEN Empty
                               ELSE IF KnownFact(records[n], contexts, at)
                               THEN AddFact(g[n - 1], records[n]) ELSE g[n - 1]
  BY <1>2 DEF IsFactTable
<1>4. \A n \in 1 .. m : records[n] \in FactRows
  BY <1>1
<1> DEFINE Good == {n \in Nat : n <= m =>
                      /\ FactsAmong(records, contexts, at, n) \in SUBSET FactRows
                      /\ FactsSound(g[n], FactsAmong(records, contexts, at, n))}
<1>5. 0 \in Good
  <2>1. FactsAmong(records, contexts, at, 0) = {}
    BY DEF FactsAmong
  <2>2. g[0] = Empty
    BY <1>3
  <2>3. FactsSound(Empty, {})
    BY DEF FactsSound, Empty
  <2> QED
    BY <2>1, <2>2, <2>3
<1>6. ASSUME NEW n \in Good
      PROVE  n + 1 \in Good
  <2>1. n \in Nat /\ n + 1 \in Nat
    OBVIOUS
  <2>2. SUFFICES ASSUME n + 1 <= m
                 PROVE  /\ FactsAmong(records, contexts, at, n + 1) \in SUBSET FactRows
                        /\ FactsSound(g[n + 1], FactsAmong(records, contexts, at, n + 1))
    BY <2>1
  <2>3. PICK K : K = FactsAmong(records, contexts, at, n)
    OBVIOUS
  <2>4. K \in SUBSET FactRows /\ FactsSound(g[n], K)
    BY <2>1, <2>2, <2>3
  <2>5. PICK row \in FactRows : row = records[n + 1]
    BY <2>1, <2>2, <1>4
  <2>6. 1 .. n + 1 = (1 .. n) \cup {n + 1} /\ n + 1 \in 0 .. m /\ n + 1 # 0 /\ (n + 1) - 1 = n
    BY <2>1, <2>2
  <2>7. CASE KnownFact(row, contexts, at)
    <3>1. FactsAmong(records, contexts, at, n + 1) = K \cup {row}
      BY <2>3, <2>5, <2>6, <2>7 DEF FactsAmong
    <3>2. g[n + 1] = AddFact(g[n], row)
      BY <1>3, <2>5, <2>6, <2>7
    <3>3. FactsSound(AddFact(g[n], row), K \cup {row})
      BY <2>4, <2>5, AddFactKeeps
    <3> QED
      BY <3>1, <3>2, <3>3, <2>4, <2>5
  <2>8. CASE ~KnownFact(row, contexts, at)
    <3>1. FactsAmong(records, contexts, at, n + 1) = K
      BY <2>3, <2>5, <2>6, <2>8 DEF FactsAmong
    <3>2. g[n + 1] = g[n]
      BY <1>3, <2>5, <2>6, <2>8
    <3> QED
      BY <3>1, <3>2, <2>4
  <2> QED
    BY <2>7, <2>8
<1>7. Good = Nat
  <2>1. Good \in SUBSET Nat
    OBVIOUS
  <2> HIDE DEF Good
  <2> QED
    BY <1>5, <1>6, <2>1, NatSetInduction
<1>8. m \in Good /\ m <= m
  BY <1>7
<1> QED
  BY <1>1, <1>2, <1>8 DEF KnownFacts

\* What is selected is determined by what is known.
LEMMA FactsFromKnown ==
  ASSUME NEW records \in Seq(FactRows), NEW others \in Seq(FactRows), NEW contexts, NEW at,
         KnownFacts(records, contexts, at) = KnownFacts(others, contexts, at)
  PROVE  SelectFacts(records, contexts, at) = SelectFacts(others, contexts, at)
<1>1. PICK K : K = KnownFacts(records, contexts, at)
  OBVIOUS
<1>2. PICK a, b : a = FactsSeen(records, contexts, at) /\ b = FactsSeen(others, contexts, at)
  OBVIOUS
<1>3. FactsSound(a, K) /\ FactsSound(b, K)
  BY <1>1, <1>2, FactsAreSeen
<1>4. a.failed = b.failed
  BY <1>3 DEF FactsSound
<1>5. CASE a.failed
  BY <1>2, <1>4, <1>5 DEF SelectFacts
<1>6. CASE ~a.failed
  <2>1. a.versions = b.versions
    BY <1>3, <1>4, <1>6 DEF FactsSound
  <2> QED
    BY <1>2, <1>4, <1>6, <2>1 DEF SelectFacts
<1> QED
  BY <1>5, <1>6

\* Two events of one version: of one security, effect and publication.
SameEvent(v, row) ==
  v.security = row.security /\ v.effective = row.effective /\ v.available = row.available

\* Two events that select_universe() does not accept together.
EventsConflict(a, b) ==
  \/ a.security = b.security /\ a.event = b.event /\ a # b
  \/ SameEvent(a, b) /\ a.included # b.included

\* What select_universe() has seen when the rows of K went by: one row of every version.
EventsSound(seen, K) ==
  /\ seen \in [failed : BOOLEAN, sources : SUBSET K, versions : SUBSET K]
  /\ seen.failed <=> \E a, b \in K : EventsConflict(a, b)
  /\ ~seen.failed =>
       /\ seen.sources = K
       /\ \A k \in K : \E v \in seen.versions : SameEvent(v, k)
       /\ \A v, w \in seen.versions : SameEvent(v, w) => v = w

\* One more row.
LEMMA AddEventKeeps ==
  ASSUME NEW K \in SUBSET EventRows, NEW row \in EventRows, NEW seen, EventsSound(seen, K)
  PROVE  EventsSound(AddEvent(seen, row), K \cup {row})
<1>1. PICK L : L = K \cup {row}
  OBVIOUS
<1>2. /\ seen \in [failed : BOOLEAN, sources : SUBSET K, versions : SUBSET K]
      /\ seen.failed <=> \E a, b \in K : EventsConflict(a, b)
      /\ ~seen.failed =>
           /\ seen.sources = K
           /\ \A k \in K : \E v \in seen.versions : SameEvent(v, k)
           /\ \A v, w \in seen.versions : SameEvent(v, w) => v = w
  BY DEF EventsSound
<1>3. PICK conflict \in BOOLEAN :
        conflict <=>
          \/ \E s \in seen.sources : s.security = row.security /\ s.event = row.event /\ s # row
          \/ \E v \in seen.versions : SameEvent(v, row) /\ v.included # row.included
  OBVIOUS
<1>4. PICK kept : kept = {v \in seen.versions : ~SameEvent(v, row)} \cup {row}
  OBVIOUS
<1>5. PICK next : next = AddEvent(seen, row)
  OBVIOUS
<1>6. next = IF seen.failed \/ conflict THEN [seen EXCEPT !.failed = TRUE]
             ELSE [seen EXCEPT !.sources = seen.sources \cup {row}, !.versions = kept]
  BY <1>3, <1>4, <1>5 DEF AddEvent, SameEvent
<1>7. seen \in [failed : BOOLEAN, sources : SUBSET L, versions : SUBSET L]
  BY <1>1, <1>2
<1>8. K \subseteq L /\ row \in L /\ \A r \in L : r \in K \/ r = row
  BY <1>1
<1>9. CASE seen.failed \/ conflict
  <2>1. next = [seen EXCEPT !.failed = TRUE]
    BY <1>6, <1>9
  <2>2. next \in [failed : BOOLEAN, sources : SUBSET L, versions : SUBSET L] /\ next.failed = TRUE
    BY <2>1, <1>7
  <2>3. \E a, b \in L : EventsConflict(a, b)
    <3>1. CASE seen.failed
      BY <3>1, <1>2, <1>8
    <3>2. CASE ~seen.failed /\ conflict
      <4>1. PICK s \in K : EventsConflict(s, row)
        <5>1. CASE \E s \in seen.sources :
                     s.security = row.security /\ s.event = row.event /\ s # row
          BY <5>1, <3>2, <1>2 DEF EventsConflict
        <5>2. CASE \E v \in seen.versions : SameEvent(v, row) /\ v.included # row.included
          BY <5>2, <1>2 DEF EventsConflict
        <5> QED
          BY <3>2, <5>1, <5>2, <1>3
      <4> QED
        BY <4>1, <1>8
    <3> QED
      BY <3>1, <3>2, <1>9
  <2> QED
    BY <2>2, <2>3, <1>1, <1>5 DEF EventsSound
<1>10. CASE ~seen.failed /\ ~conflict
  <2>1. /\ seen.sources = K /\ seen.versions \subseteq K
        /\ \A k \in K : \E v \in seen.versions : SameEvent(v, k)
        /\ \A v, w \in seen.versions : SameEvent(v, w) => v = w
        /\ ~ \E a, b \in K : EventsConflict(a, b)
    BY <1>2, <1>10
  <2>2. /\ \A s \in K : s.security = row.security /\ s.event = row.event => s = row
        /\ \A v \in seen.versions : SameEvent(v, row) => v.included = row.included
    BY <2>1, <1>3, <1>10
  <2>3. ASSUME NEW k \in K, SameEvent(k, row)
        PROVE  k.included = row.included
    <3>1. PICK v \in seen.versions : SameEvent(v, k)
      BY <2>1
    <3>2. SameEvent(v, row)
      BY <3>1, <2>3 DEF SameEvent
    <3>3. v.included = k.included
      BY <3>1, <2>1 DEF EventsConflict
    <3> QED
      BY <3>2, <3>3, <2>2
  <2>4. ~ \E a, b \in L : EventsConflict(a, b)
    <3>1. ~EventsConflict(row, row)
      BY DEF EventsConflict
    <3>2. \A k \in K : ~EventsConflict(k, row)
      BY <2>2, <2>3 DEF EventsConflict
    <3>3. \A k \in K : ~EventsConflict(row, k)
      BY <3>2 DEF EventsConflict, SameEvent
    <3> QED
      BY <3>1, <3>2, <3>3, <2>1, <1>8
  <2>5. /\ next.failed = FALSE /\ next.sources = L /\ next.versions = kept
        /\ next \in [failed : BOOLEAN, sources : SUBSET L, versions : SUBSET L]
    <3>1. seen.sources \cup {row} = L /\ kept \in SUBSET L /\ seen.failed = FALSE
      BY <2>1, <1>1, <1>2, <1>4, <1>10
    <3> QED
      BY <3>1, <1>6, <1>7, <1>10
  <2>6. \A v : v \in kept <=> v = row \/ (v \in seen.versions /\ ~SameEvent(v, row))
    BY <1>4
  <2>7. ASSUME NEW k \in L
        PROVE  \E v \in kept : SameEvent(v, k)
    <3>1. SameEvent(row, row)
      BY DEF SameEvent
    <3>2. CASE SameEvent(k, row)
      <4>1. SameEvent(row, k)
        BY <3>2 DEF SameEvent
      <4> QED
        BY <4>1, <2>6
    <3>3. CASE ~SameEvent(k, row)
      <4>1. k \in K
        BY <3>1, <3>3, <1>8
      <4>2. PICK v \in seen.versions : SameEvent(v, k)
        BY <4>1, <2>1
      <4>3. ~SameEvent(v, row)
        BY <4>2, <3>3 DEF SameEvent
      <4> QED
        BY <4>2, <4>3, <2>6
    <3> QED
      BY <3>2, <3>3
  <2>8. \A v, w \in kept : SameEvent(v, w) => v = w
    <3>1. \A v : SameEvent(row, v) <=> SameEvent(v, row)
      BY DEF SameEvent
    <3> QED
      BY <3>1, <2>1, <2>6
  <2> QED
    BY <2>4, <2>5, <2>7, <2>8, <1>1, <1>5 DEF EventsSound
<1> QED
  BY <1>2, <1>3, <1>9, <1>10

\* The events among the first n rows that are known by then, and all of them.
EventsAmong(records, at, n) ==
  {records[i] : i \in {j \in 1 .. n : KnownEvent(records[j], at)}}

KnownEvents(records, at) == EventsAmong(records, at, Len(records))

\* g holds what select_universe() has seen after each of the first m rows.
IsEventTable(g, records, at, m) ==
  g = [n \in 0 .. m |->
        IF n = 0 THEN Empty
        ELSE IF KnownEvent(records[n], at) THEN AddEvent(g[n - 1], records[n])
        ELSE g[n - 1]]

LEMMA EventsSeenIsTable ==
  ASSUME NEW records, NEW at
  PROVE  EventsSeen(records, at) =
           (CHOOSE g : IsEventTable(g, records, at, Len(records)))[Len(records)]
  BY DEF EventsSeen, IsEventTable

\* Such a table exists, a row longer each time.
LEMMA EventTableExists ==
  ASSUME NEW records, NEW at, NEW m \in Nat
  PROVE  \E g : IsEventTable(g, records, at, m)
<1> DEFINE Good == {n \in Nat : \E g : IsEventTable(g, records, at, n)}
<1>1. 0 \in Good
  <2>1. IsEventTable([n \in 0 .. 0 |-> Empty], records, at, 0)
    BY DEF IsEventTable
  <2> QED
    BY <2>1
<1>2. ASSUME NEW n \in Good
      PROVE  n + 1 \in Good
  <2>1. n \in Nat
    OBVIOUS
  <2>2. PICK g : IsEventTable(g, records, at, n)
    OBVIOUS
  <2>3. PICK last : last = IF KnownEvent(records[n + 1], at)
                           THEN AddEvent(g[n], records[n + 1]) ELSE g[n]
    OBVIOUS
  <2>4. PICK h : h = [k \in 0 .. n + 1 |-> IF k = n + 1 THEN last ELSE g[k]]
    OBVIOUS
  <2>5. \A k \in 0 .. n : g[k] = IF k = 0 THEN Empty
                                 ELSE IF KnownEvent(records[k], at)
                                 THEN AddEvent(g[k - 1], records[k]) ELSE g[k - 1]
    BY <2>2 DEF IsEventTable
  <2>6. ASSUME NEW k \in 0 .. n + 1
        PROVE  h[k] = IF k = 0 THEN Empty
                      ELSE IF KnownEvent(records[k], at)
                      THEN AddEvent(h[k - 1], records[k]) ELSE h[k - 1]
    <3>1. CASE k = n + 1
      <4>1. n \in 0 .. n + 1 /\ n # n + 1 /\ n + 1 \in 0 .. n + 1 /\ n + 1 # 0
            /\ (n + 1) - 1 = n
        BY <2>1
      <4>2. h[n] = g[n] /\ h[n + 1] = last
        BY <4>1, <2>4
      <4> QED
        BY <4>1, <4>2, <3>1, <2>3
    <3>2. CASE k # n + 1
      <4>1. k \in 0 .. n /\ (k # 0 => k - 1 \in 0 .. n + 1 /\ k - 1 # n + 1)
        BY <3>2, <2>1
      <4>2. h[k] = g[k] /\ (k # 0 => h[k - 1] = g[k - 1])
        BY <4>1, <3>2, <2>4
      <4> QED
        BY <4>1, <4>2, <2>5
    <3> QED
      BY <3>1, <3>2
  <2>7. IsEventTable(h, records, at, n + 1)
    <3>1. h = [k \in 0 .. n + 1 |-> h[k]]
      BY <2>4
    <3> QED
      BY <3>1, <2>6 DEF IsEventTable
  <2> QED
    BY <2>1, <2>7
<1>3. Good = Nat
  <2>1. Good \in SUBSET Nat
    OBVIOUS
  <2> HIDE DEF Good
  <2> QED
    BY <1>1, <1>2, <2>1, NatSetInduction
<1> QED
  BY <1>3

\* Whatever rows went by, select_universe() saw those that are known.
LEMMA EventsAreSeen ==
  ASSUME NEW records \in Seq(EventRows), NEW at
  PROVE  /\ KnownEvents(records, at) \in SUBSET EventRows
         /\ EventsSound(EventsSeen(records, at), KnownEvents(records, at))
<1>1. PICK m \in Nat : m = Len(records) /\ DOMAIN records = 1 .. m
  OBVIOUS
<1>2. PICK g : IsEventTable(g, records, at, m) /\ EventsSeen(records, at) = g[m]
  <2>1. PICK g : g = CHOOSE h : IsEventTable(h, records, at, m)
    OBVIOUS
  <2>2. IsEventTable(g, records, at, m)
    BY <2>1, EventTableExists
  <2> QED
    BY <2>1, <2>2, <1>1, EventsSeenIsTable
<1>3. \A n \in 0 .. m : g[n] = IF n = 0 THEN Empty
                               ELSE IF KnownEvent(records[n], at)
                               THEN AddEvent(g[n - 1], records[n]) ELSE g[n - 1]
  BY <1>2 DEF IsEventTable
<1>4. \A n \in 1 .. m : records[n] \in EventRows
  BY <1>1
<1> DEFINE Good == {n \in Nat : n <= m =>
                      /\ EventsAmong(records, at, n) \in SUBSET EventRows
                      /\ EventsSound(g[n], EventsAmong(records, at, n))}
<1>5. 0 \in Good
  <2>1. EventsAmong(records, at, 0) = {}
    BY DEF EventsAmong
  <2>2. g[0] = Empty
    BY <1>3
  <2>3. EventsSound(Empty, {})
    BY DEF EventsSound, Empty
  <2> QED
    BY <2>1, <2>2, <2>3
<1>6. ASSUME NEW n \in Good
      PROVE  n + 1 \in Good
  <2>1. n \in Nat /\ n + 1 \in Nat
    OBVIOUS
  <2>2. SUFFICES ASSUME n + 1 <= m
                 PROVE  /\ EventsAmong(records, at, n + 1) \in SUBSET EventRows
                        /\ EventsSound(g[n + 1], EventsAmong(records, at, n + 1))
    BY <2>1
  <2>3. PICK K : K = EventsAmong(records, at, n)
    OBVIOUS
  <2>4. K \in SUBSET EventRows /\ EventsSound(g[n], K)
    BY <2>1, <2>2, <2>3
  <2>5. PICK row \in EventRows : row = records[n + 1]
    BY <2>1, <2>2, <1>4
  <2>6. 1 .. n + 1 = (1 .. n) \cup {n + 1} /\ n + 1 \in 0 .. m /\ n + 1 # 0 /\ (n + 1) - 1 = n
    BY <2>1, <2>2
  <2>7. CASE KnownEvent(row, at)
    <3>1. EventsAmong(records, at, n + 1) = K \cup {row}
      BY <2>3, <2>5, <2>6, <2>7 DEF EventsAmong
    <3>2. g[n + 1] = AddEvent(g[n], row)
      BY <1>3, <2>5, <2>6, <2>7
    <3>3. EventsSound(AddEvent(g[n], row), K \cup {row})
      BY <2>4, <2>5, AddEventKeeps
    <3> QED
      BY <3>1, <3>2, <3>3, <2>4, <2>5
  <2>8. CASE ~KnownEvent(row, at)
    <3>1. EventsAmong(records, at, n + 1) = K
      BY <2>3, <2>5, <2>6, <2>8 DEF EventsAmong
    <3>2. g[n + 1] = g[n]
      BY <1>3, <2>5, <2>6, <2>8
    <3> QED
      BY <3>1, <3>2, <2>4
  <2> QED
    BY <2>7, <2>8
<1>7. Good = Nat
  <2>1. Good \in SUBSET Nat
    OBVIOUS
  <2> HIDE DEF Good
  <2> QED
    BY <1>5, <1>6, <2>1, NatSetInduction
<1>8. m \in Good /\ m <= m
  BY <1>7
<1> QED
  BY <1>1, <1>2, <1>8 DEF KnownEvents

\* The members among the events of K: what takes effect last, as it was published last, includes.
MembersOf(K) ==
  {r.security : r \in {k \in K :
     /\ k.included
     /\ \A v \in K : v.security = k.security =>
          ~Above(Rank(v.effective, v.available), Rank(k.effective, k.available))}}

\* Whichever row represents a version, the members are those of what is known.
LEMMA MembersAreDetermined ==
  ASSUME NEW K \in SUBSET EventRows, NEW seen, EventsSound(seen, K), ~seen.failed
  PROVE  {row.security : row \in {v \in seen.versions :
            /\ \A w \in seen.versions : w.security = v.security /\ w # v =>
                 Above(Rank(v.effective, v.available), Rank(w.effective, w.available))
            /\ v.included}} = MembersOf(K)
<1> DEFINE Higher(v, w) == Above(Rank(v.effective, v.available), Rank(w.effective, w.available))
<1>1. PICK versions : versions = seen.versions
  OBVIOUS
<1>2. /\ versions \subseteq K
      /\ \A k \in K : \E v \in versions : SameEvent(v, k)
      /\ \A v, w \in versions : SameEvent(v, w) => v = w
      /\ \A a, b \in K : ~EventsConflict(a, b)
  BY <1>1 DEF EventsSound
<1>3. \A k \in K : k.effective \in Int /\ k.available \in Int
  BY PointInTimeAssumption
<1>4. \A v, w \in K : /\ ~(Higher(v, w) /\ Higher(w, v))
                      /\ Higher(v, w) \/ Higher(w, v)
                         \/ (v.effective = w.effective /\ v.available = w.available)
  BY <1>3 DEF Above, Rank
<1>5. \A u, v, w \in K : SameEvent(u, w) => /\ Higher(v, u) <=> Higher(v, w)
                                            /\ Higher(u, v) <=> Higher(w, v)
  BY DEF SameEvent
<1>6. \A v \in K : ~Higher(v, v)
  BY <1>4
<1> HIDE DEF Higher
<1>7. ASSUME NEW v \in versions, v.included,
             \A w \in versions : w.security = v.security /\ w # v => Higher(v, w)
      PROVE  \A w \in K : w.security = v.security => ~Higher(w, v)
  <2> SUFFICES ASSUME NEW w \in K, w.security = v.security
               PROVE  ~Higher(w, v)
    OBVIOUS
  <2>1. PICK u \in versions : SameEvent(u, w)
    BY <1>2
  <2>2. u.security = v.security /\ u \in K /\ v \in K
    BY <2>1, <1>2 DEF SameEvent
  <2>3. ~Higher(u, v)
    BY <2>2, <1>4, <1>6, <1>7
  <2> QED
    BY <2>1, <2>2, <2>3, <1>5
<1>8. ASSUME NEW k \in K, k.included,
             \A w \in K : w.security = k.security => ~Higher(w, k)
      PROVE  \E v \in versions : /\ v.security = k.security /\ v.included
                                 /\ \A w \in versions :
                                      w.security = v.security /\ w # v => Higher(v, w)
  <2>1. PICK v \in versions : SameEvent(v, k)
    BY <1>2
  <2>2. v \in K /\ v.security = k.security /\ v.included = k.included
    BY <2>1, <1>2 DEF SameEvent, EventsConflict
  <2>3. ASSUME NEW w \in versions, w.security = v.security, w # v
        PROVE  Higher(v, w)
    <3>1. w \in K /\ ~Higher(w, k)
      BY <2>2, <2>3, <1>2, <1>8
    <3>2. ~Higher(w, v)
      BY <3>1, <2>1, <2>2, <1>5
    <3>3. ~(w.effective = v.effective /\ w.available = v.available)
      BY <2>3, <1>2 DEF SameEvent
    <3> QED
      BY <3>1, <3>2, <3>3, <2>2, <1>4
  <2> QED
    BY <2>2, <2>3, <1>8
<1>9. PICK latest : latest = {v \in versions :
        /\ \A w \in versions : w.security = v.security /\ w # v => Higher(v, w)
        /\ v.included}
  OBVIOUS
<1>10. PICK top : top = {k \in K : /\ k.included
                                   /\ \A v \in K : v.security = k.security => ~Higher(v, k)}
  OBVIOUS
<1>11. \A v \in latest : v \in top
  BY <1>2, <1>7, <1>9, <1>10
<1>12. \A k \in top : \E v \in latest : v.security = k.security
  BY <1>8, <1>9, <1>10
<1>13. {row.security : row \in latest} = {r.security : r \in top}
  BY <1>11, <1>12
<1>14. MembersOf(K) = {r.security : r \in top}
  BY <1>10 DEF MembersOf, Higher
<1> QED
  BY <1>1, <1>9, <1>13, <1>14 DEF Higher

\* The universe is determined by what is known.
LEMMA UniverseFromKnown ==
  ASSUME NEW records \in Seq(EventRows), NEW others \in Seq(EventRows), NEW at,
         KnownEvents(records, at) = KnownEvents(others, at)
  PROVE  SelectUniverse(records, at) = SelectUniverse(others, at)
<1>1. PICK K : K = KnownEvents(records, at)
  OBVIOUS
<1>2. PICK a, b : a = EventsSeen(records, at) /\ b = EventsSeen(others, at)
  OBVIOUS
<1>3. K \in SUBSET EventRows /\ EventsSound(a, K) /\ EventsSound(b, K)
  BY <1>1, <1>2, EventsAreSeen
<1>4. a.failed = b.failed
  BY <1>3 DEF EventsSound
<1>5. CASE a.failed
  BY <1>2, <1>4, <1>5 DEF SelectUniverse
<1>6. CASE ~a.failed
  <2>1. SelectUniverse(records, at) = [failure |-> "none", members |-> MembersOf(K)]
    BY <1>2, <1>3, <1>6, MembersAreDetermined DEF SelectUniverse
  <2>2. SelectUniverse(others, at) = [failure |-> "none", members |-> MembersOf(K)]
    BY <1>2, <1>3, <1>4, <1>6, MembersAreDetermined DEF SelectUniverse
  <2> QED
    BY <2>1, <2>2
<1> QED
  BY <1>5, <1>6

\* What is assembled is determined by what is known at the formation.
LEMMA AssembledFromKnown ==
  ASSUME NEW one, NEW other, one.facts \in Seq(FactRows), other.facts \in Seq(FactRows),
         one.membership \in Seq(EventRows), other.membership \in Seq(EventRows), NEW asked, NEW plan,
         \A contexts : KnownFacts(one.facts, contexts, plan.formation) =
                         KnownFacts(other.facts, contexts, plan.formation),
         KnownEvents(one.membership, plan.formation) = KnownEvents(other.membership, plan.formation)
  PROVE  Assemble(one, asked, plan) = Assemble(other, asked, plan)
<1>1. SelectUniverse(one.membership, plan.formation) =
        SelectUniverse(other.membership, plan.formation)
  BY UniverseFromKnown
<1>2. SelectFacts(one.facts, {b.context : b \in asked.bindings}, plan.formation) =
        SelectFacts(other.facts, {b.context : b \in asked.bindings}, plan.formation)
  <2>1. PICK contexts : contexts = {b.context : b \in asked.bindings}
    OBVIOUS
  <2>2. SelectFacts(one.facts, contexts, plan.formation) =
          SelectFacts(other.facts, contexts, plan.formation)
    BY FactsFromKnown
  <2> QED
    BY <2>1, <2>2
<1> QED
  BY <1>1, <1>2 DEF Assemble

\* What is published after an instant is not known by then.
LEMMA LaterFactIsUnknown ==
  ASSUME NEW records \in Seq(FactRows), NEW row \in FactRows, NEW at \in Int, row.available > at
  PROVE  \A contexts : KnownFacts(Append(records, row), contexts, at) = KnownFacts(records, contexts, at)
<1> SUFFICES ASSUME NEW contexts
             PROVE  KnownFacts(Append(records, row), contexts, at) = KnownFacts(records, contexts, at)
  OBVIOUS
<1>1. PICK n \in Nat : n = Len(records)
  OBVIOUS
<1>2. PICK more : more = Append(records, row)
  OBVIOUS
<1>3. Len(more) = n + 1 /\ more[n + 1] = row /\ \A i \in 1 .. n : more[i] = records[i]
  BY <1>1, <1>2
<1>4. row.available \in Int
  BY PointInTimeAssumption
<1>5. ~KnownFact(more[n + 1], contexts, at)
  BY <1>3, <1>4 DEF KnownFact
<1>6. 1 .. n + 1 = (1 .. n) \cup {n + 1}
  BY <1>1
<1>7. {j \in 1 .. n + 1 : KnownFact(more[j], contexts, at)} =
        {j \in 1 .. n : KnownFact(records[j], contexts, at)}
  BY <1>3, <1>5, <1>6
<1> QED
  BY <1>1, <1>2, <1>3, <1>7 DEF KnownFacts, FactsAmong

LEMMA LaterEventIsUnknown ==
  ASSUME NEW records \in Seq(EventRows), NEW row \in EventRows, NEW at \in Int, row.available > at
  PROVE  KnownEvents(Append(records, row), at) = KnownEvents(records, at)
<1>1. PICK n \in Nat : n = Len(records)
  OBVIOUS
<1>2. PICK more : more = Append(records, row)
  OBVIOUS
<1>3. Len(more) = n + 1 /\ more[n + 1] = row /\ \A i \in 1 .. n : more[i] = records[i]
  BY <1>1, <1>2
<1>4. row.available \in Int
  BY PointInTimeAssumption
<1>5. ~KnownEvent(more[n + 1], at)
  BY <1>3, <1>4 DEF KnownEvent
<1>6. 1 .. n + 1 = (1 .. n) \cup {n + 1}
  BY <1>1
<1>7. {j \in 1 .. n + 1 : KnownEvent(more[j], at)} = {j \in 1 .. n : KnownEvent(records[j], at)}
  BY <1>3, <1>5, <1>6
<1> QED
  BY <1>1, <1>2, <1>3, <1>7 DEF KnownEvents, EventsAmong

\* The reverse of a sequence, as a bundle is reversed.
Backwards(records) == [i \in DOMAIN records |-> records[Len(records) + 1 - i]]

\* It is of the same rows.
LEMMA BackwardsIsOfTheSame ==
  ASSUME NEW S, NEW records \in Seq(S)
  PROVE  /\ Backwards(records) \in Seq(S) /\ Len(Backwards(records)) = Len(records)
         /\ \A i \in 1 .. Len(records) :
              /\ Len(records) + 1 - i \in 1 .. Len(records)
              /\ Backwards(records)[i] = records[Len(records) + 1 - i]
              /\ Backwards(records)[Len(records) + 1 - i] = records[i]
<1>1. PICK n \in Nat : n = Len(records) /\ DOMAIN records = 1 .. n
  OBVIOUS
<1>2. PICK back : back = Backwards(records)
  OBVIOUS
<1>3. back = [i \in 1 .. n |-> records[n + 1 - i]]
  BY <1>1, <1>2 DEF Backwards
<1>4. \A i \in 1 .. n : n + 1 - i \in 1 .. n /\ (n + 1) - (n + 1 - i) = i
  OBVIOUS
<1>5. back \in [1 .. n -> S]
  BY <1>1, <1>3, <1>4
<1>6. back \in Seq(S) /\ Len(back) = n
  BY <1>5, <1>3
<1>7. \A i \in 1 .. n : back[i] = records[n + 1 - i] /\ back[n + 1 - i] = records[i]
  BY <1>3, <1>4
<1> QED
  BY <1>1, <1>2, <1>4, <1>6, <1>7

\* The same is known of it.
LEMMA BackwardsIsKnown ==
  /\ \A records \in Seq(FactRows) : \A contexts, at :
       KnownFacts(Backwards(records), contexts, at) = KnownFacts(records, contexts, at)
  /\ \A records \in Seq(EventRows) : \A at :
       KnownEvents(Backwards(records), at) = KnownEvents(records, at)
<1>1. ASSUME NEW records \in Seq(FactRows), NEW contexts, NEW at
      PROVE  KnownFacts(Backwards(records), contexts, at) = KnownFacts(records, contexts, at)
  <2>1. PICK n \in Nat : n = Len(records)
    OBVIOUS
  <2>2. PICK back : back = Backwards(records)
    OBVIOUS
  <2>3. /\ Len(back) = n
        /\ \A i \in 1 .. n : /\ n + 1 - i \in 1 .. n
                             /\ back[i] = records[n + 1 - i] /\ back[n + 1 - i] = records[i]
    BY <2>1, <2>2, BackwardsIsOfTheSame
  <2>4. ASSUME NEW x
        PROVE  x \in FactsAmong(back, contexts, at, n) <=> x \in FactsAmong(records, contexts, at, n)
    <3>1. ASSUME x \in FactsAmong(back, contexts, at, n)
          PROVE  x \in FactsAmong(records, contexts, at, n)
      <4>1. PICK i \in 1 .. n : KnownFact(back[i], contexts, at) /\ x = back[i]
        BY <3>1 DEF FactsAmong
      <4>2. PICK j \in 1 .. n : j = n + 1 - i
        BY <2>3
      <4>3. KnownFact(records[j], contexts, at) /\ x = records[j]
        BY <4>1, <4>2, <2>3
      <4> QED
        BY <4>2, <4>3 DEF FactsAmong
    <3>2. ASSUME x \in FactsAmong(records, contexts, at, n)
          PROVE  x \in FactsAmong(back, contexts, at, n)
      <4>1. PICK i \in 1 .. n : KnownFact(records[i], contexts, at) /\ x = records[i]
        BY <3>2 DEF FactsAmong
      <4>2. PICK j \in 1 .. n : j = n + 1 - i
        BY <2>3
      <4>3. KnownFact(back[j], contexts, at) /\ x = back[j]
        BY <4>1, <4>2, <2>3
      <4> QED
        BY <4>2, <4>3 DEF FactsAmong
    <3> QED
      BY <3>1, <3>2
  <2>5. FactsAmong(back, contexts, at, n) = FactsAmong(records, contexts, at, n)
    BY <2>4
  <2> QED
    BY <2>1, <2>2, <2>3, <2>5 DEF KnownFacts
<1>2. ASSUME NEW records \in Seq(EventRows), NEW at
      PROVE  KnownEvents(Backwards(records), at) = KnownEvents(records, at)
  <2>1. PICK n \in Nat : n = Len(records)
    OBVIOUS
  <2>2. PICK back : back = Backwards(records)
    OBVIOUS
  <2>3. /\ Len(back) = n
        /\ \A i \in 1 .. n : /\ n + 1 - i \in 1 .. n
                             /\ back[i] = records[n + 1 - i] /\ back[n + 1 - i] = records[i]
    BY <2>1, <2>2, BackwardsIsOfTheSame
  <2>4. ASSUME NEW x
        PROVE  x \in EventsAmong(back, at, n) <=> x \in EventsAmong(records, at, n)
    <3>1. ASSUME x \in EventsAmong(back, at, n)
          PROVE  x \in EventsAmong(records, at, n)
      <4>1. PICK i \in 1 .. n : KnownEvent(back[i], at) /\ x = back[i]
        BY <3>1 DEF EventsAmong
      <4>2. PICK j \in 1 .. n : j = n + 1 - i
        BY <2>3
      <4>3. KnownEvent(records[j], at) /\ x = records[j]
        BY <4>1, <4>2, <2>3
      <4> QED
        BY <4>2, <4>3 DEF EventsAmong
    <3>2. ASSUME x \in EventsAmong(records, at, n)
          PROVE  x \in EventsAmong(back, at, n)
      <4>1. PICK i \in 1 .. n : KnownEvent(records[i], at) /\ x = records[i]
        BY <3>2 DEF EventsAmong
      <4>2. PICK j \in 1 .. n : j = n + 1 - i
        BY <2>3
      <4>3. KnownEvent(back[j], at) /\ x = back[j]
        BY <4>1, <4>2, <2>3
      <4> QED
        BY <4>2, <4>3 DEF EventsAmong
    <3> QED
      BY <3>1, <3>2
  <2>5. EventsAmong(back, at, n) = EventsAmong(records, at, n)
    BY <2>4
  <2> QED
    BY <2>1, <2>2, <2>3, <2>5 DEF KnownEvents
<1> QED
  BY <1>1, <1>2

\* An interval of integers has its least element.
LEMMA LeastOfInterval ==
  ASSUME NEW a \in Int, NEW b \in Int, NEW S \in SUBSET (a .. b), S # {}
  PROVE  Min(S) \in S
<1>1. PICK N : N = {x - a : x \in S}
  OBVIOUS
<1>2. N \subseteq Nat /\ N # {}
  <2>1. \A x \in S : x \in Int /\ a =< x
    OBVIOUS
  <2>2. \A x \in S : x - a \in Nat
    BY <2>1
  <2> QED
    BY <1>1, <2>2
<1>3. PICK n \in N : \A m \in N : ~ (<<m, n>> \in OpToRel(<, Nat))
  BY <1>2, NatLessThanWellFounded, WFMin
<1>4. PICK x \in S : n = x - a
  BY <1>1
<1>5. ASSUME NEW y \in S
      PROVE  x =< y
  <2>1. y - a \in N /\ y - a \in Nat /\ n \in Nat
    BY <1>1, <1>2
  <2>2. ~(y - a < n)
    BY <2>1, <1>3 DEF OpToRel
  <2>3. x \in Int /\ y \in Int
    OBVIOUS
  <2> QED
    BY <2>2, <2>3, <1>4
<1> QED
  BY <1>5 DEF Min

\* The instant of a formation is one, whatever the calendar.
LEMMA PlansAreDated ==
  ASSUME NEW plan \in Plans, plan.failure = "none"
  PROVE  plan.formation \in Int
<1>1. PICK calendar \in Calendars, timing \in Timings : plan \in Formations(calendar, timing)
  BY DEF Plans
<1>2. timing.start \in Int /\ timing.end \in Int
  BY PointInTimeAssumption
<1>3. PICK months : months = (Month(timing.start) .. Month(timing.end)) \cap timing.months
  OBVIOUS
<1>4. PICK refused : refused = {m \in months : Planned(calendar, timing, m).failure # "none"}
  OBVIOUS
<1>5. \/ plan = Refused("CALENDAR_INVALID")
      \/ refused # {} /\ plan = Planned(calendar, timing, Min(refused))
      \/ plan \in {Planned(calendar, timing, m) : m \in months} \ {Skipped}
  BY <1>1, <1>3, <1>4 DEF Formations
<1>6. plan # Refused("CALENDAR_INVALID")
  BY DEF Refused
<1>7. refused # {} => Planned(calendar, timing, Min(refused)).failure # "none"
  <2>1. PICK a \in Int, b \in Int : a = Month(timing.start) /\ b = Month(timing.end)
    BY <1>2 DEF Month
  <2>2. refused \in SUBSET (a .. b)
    BY <2>1, <1>3, <1>4
  <2>3. refused # {} => Min(refused) \in refused
    BY <2>2, LeastOfInterval
  <2> QED
    BY <2>3, <1>4
<1>8. PICK month \in months : plan = Planned(calendar, timing, month) /\ plan # Skipped
  BY <1>5, <1>6, <1>7
<1>9. PICK date : date = LastSession(calendar, month)
  OBVIOUS
<1>10. date \in timing.start .. timing.end /\ plan.formation = Close(date)
  <2>1. PICK later : later = IF date = Unknown THEN {}
                             ELSE {i \in DOMAIN calendar.sessions :
                                     /\ i > timing.delay
                                     /\ calendar.sessions[i - timing.delay] = date}
    OBVIOUS
  <2>2. PICK trade : trade = Open(calendar.sessions[CHOOSE i \in later : TRUE])
    OBVIOUS
  <2>3. plan = IF date = Unknown THEN Refused("CALENDAR_INCOMPLETE")
               ELSE IF date \notin timing.start .. timing.end THEN Skipped
               ELSE IF calendar.available > Close(date) THEN Refused("CALENDAR_NOT_KNOWN")
               ELSE IF later = {} THEN Refused("CALENDAR_INCOMPLETE")
               ELSE [failure |-> "none", formation |-> Close(date), trade |-> trade]
    BY <1>8, <1>9, <2>1, <2>2 DEF Planned
  <2>4. /\ plan # Refused("CALENDAR_INCOMPLETE") /\ plan # Refused("CALENDAR_NOT_KNOWN")
        /\ plan # Skipped
    BY <1>8 DEF Refused
  <2> QED
    BY <2>3, <2>4
<1> QED
  BY <1>2, <1>10 DEF Close

\* Nothing published later was known at a formation of the past, and the rows of a receipt are
\* still there.
AssemblyInv ==
  /\ request \in Requests /\ clock \in Int /\ facts \in Seq(FactRows) /\ membership \in Seq(EventRows)
  /\ \A plan \in DOMAIN formed :
       /\ plan.formation \in Int /\ plan.formation < clock
       /\ formed[plan] = Assemble(Bundle, request, plan)

\* Publication of a fact, and of an event.
LEMMA FactKeepsReceipts ==
  ASSUME AssemblyInv, Publish PROVE AssemblyInv'
<1>1. PICK row \in FactRows :
        row.available >= clock /\ facts' = Append(facts, row) /\ clock' = row.available
  BY DEF Publish
<1>2. request' = request /\ membership' = membership /\ formed' = formed
  BY DEF Publish
<1>3. row.available \in Int /\ facts' \in Seq(FactRows)
  BY <1>1, PointInTimeAssumption DEF AssemblyInv
<1>4. ASSUME NEW plan \in DOMAIN formed
      PROVE  /\ plan.formation \in Int /\ plan.formation < clock'
             /\ formed[plan] = Assemble(Bundle, request, plan)'
  <2>1. /\ clock \in Int /\ plan.formation \in Int /\ plan.formation < clock
        /\ formed[plan] = Assemble(Bundle, request, plan)
    BY DEF AssemblyInv
  <2>2. row.available > plan.formation
    BY <2>1, <1>1, <1>3
  <2>3. \A contexts : KnownFacts(facts', contexts, plan.formation) =
                        KnownFacts(facts, contexts, plan.formation)
    BY <2>1, <2>2, <1>1, LaterFactIsUnknown DEF AssemblyInv
  <2>4. PICK one, other : /\ one = [facts |-> facts', membership |-> membership]
                          /\ other = [facts |-> facts, membership |-> membership]
    OBVIOUS
  <2>5. Assemble(one, request, plan) = Assemble(other, request, plan)
    <3>1. /\ one.facts = facts' /\ one.membership = membership
          /\ other.facts = facts /\ other.membership = membership
      BY <2>4
    <3>2. /\ facts' \in Seq(FactRows) /\ facts \in Seq(FactRows) /\ membership \in Seq(EventRows)
      BY <1>3 DEF AssemblyInv
    <3> QED
      BY <3>1, <3>2, <2>3, AssembledFromKnown
  <2>6. Bundle' = one /\ Bundle = other
    BY <2>4, <1>2 DEF Bundle
  <2> QED
    BY <2>1, <2>2, <2>5, <2>6, <1>1, <1>2
<1> QED
  BY <1>1, <1>2, <1>3, <1>4 DEF AssemblyInv

LEMMA EventKeepsReceipts ==
  ASSUME AssemblyInv, Announce PROVE AssemblyInv'
<1>1. PICK row \in EventRows :
        row.available >= clock /\ membership' = Append(membership, row) /\ clock' = row.available
  BY DEF Announce
<1>2. request' = request /\ facts' = facts /\ formed' = formed
  BY DEF Announce
<1>3. row.available \in Int /\ membership' \in Seq(EventRows)
  BY <1>1, PointInTimeAssumption DEF AssemblyInv
<1>4. ASSUME NEW plan \in DOMAIN formed
      PROVE  /\ plan.formation \in Int /\ plan.formation < clock'
             /\ formed[plan] = Assemble(Bundle, request, plan)'
  <2>1. /\ clock \in Int /\ plan.formation \in Int /\ plan.formation < clock
        /\ formed[plan] = Assemble(Bundle, request, plan)
    BY DEF AssemblyInv
  <2>2. row.available > plan.formation
    BY <2>1, <1>1, <1>3
  <2>3. KnownEvents(membership', plan.formation) = KnownEvents(membership, plan.formation)
    BY <2>1, <2>2, <1>1, LaterEventIsUnknown DEF AssemblyInv
  <2>4. PICK one, other : /\ one = [facts |-> facts, membership |-> membership']
                          /\ other = [facts |-> facts, membership |-> membership]
    OBVIOUS
  <2>5. Assemble(one, request, plan) = Assemble(other, request, plan)
    <3>1. /\ one.facts = facts /\ one.membership = membership'
          /\ other.facts = facts /\ other.membership = membership
      BY <2>4
    <3>2. /\ facts \in Seq(FactRows) /\ membership \in Seq(EventRows)
          /\ membership' \in Seq(EventRows)
      BY <1>3 DEF AssemblyInv
    <3> QED
      BY <3>1, <3>2, <2>3, AssembledFromKnown
  <2>6. Bundle' = one /\ Bundle = other
    BY <2>4, <1>2 DEF Bundle
  <2> QED
    BY <2>1, <2>2, <2>5, <2>6, <1>1, <1>2
<1> QED
  BY <1>1, <1>2, <1>3, <1>4 DEF AssemblyInv

\* A formation of the past.
LEMMA FormKeepsReceipts ==
  ASSUME AssemblyInv, Form PROVE AssemblyInv'
<1>1. PICK plan \in {p \in Plans : p.failure = "none"} \ DOMAIN formed :
        /\ clock > plan.formation
        /\ formed' = [p \in DOMAIN formed \cup {plan} |->
                        IF p = plan THEN Assemble(Bundle, request, plan) ELSE formed[p]]
        /\ UNCHANGED <<request, clock, facts, membership>>
  BY DEF Form
<1>2. plan.formation \in Int /\ plan.formation < clock /\ clock \in Int
  BY <1>1, PlansAreDated DEF AssemblyInv
<1>3. Bundle' = Bundle
  BY <1>1 DEF Bundle
<1>4. ASSUME NEW p \in DOMAIN formed'
      PROVE  /\ p.formation \in Int /\ p.formation < clock
             /\ formed'[p] = Assemble(Bundle, request, p)
  <2>1. p \in DOMAIN formed \cup {plan}
        /\ formed'[p] = IF p = plan THEN Assemble(Bundle, request, plan) ELSE formed[p]
    BY <1>1
  <2>2. CASE p = plan
    BY <2>1, <2>2, <1>2
  <2>3. CASE p # plan
    BY <2>1, <2>3 DEF AssemblyInv
  <2> QED
    BY <2>2, <2>3
<1> QED
  BY <1>1, <1>3, <1>4 DEF AssemblyInv

\* AssemblyInv is an invariant.
LEMMA AssemblyInvHolds ==
  AssemblySpec => []AssemblyInv
<1>1. InitAssembly => AssemblyInv
  BY DEF InitAssembly, NothingPublished, AssemblyInv
<1>2. AssemblyInv /\ [NextAssembly]_assemblyVars => AssemblyInv'
  <2>1. ASSUME AssemblyInv, UNCHANGED assemblyVars PROVE AssemblyInv'
    BY <2>1 DEF AssemblyInv, assemblyVars, Bundle
  <2>2. ASSUME AssemblyInv, Publish PROVE AssemblyInv'
    BY <2>2, FactKeepsReceipts
  <2>3. ASSUME AssemblyInv, Announce PROVE AssemblyInv'
    BY <2>3, EventKeepsReceipts
  <2>4. ASSUME AssemblyInv, Form PROVE AssemblyInv'
    BY <2>4, FormKeepsReceipts
  <2> QED
    BY <2>1, <2>2, <2>3, <2>4 DEF NextAssembly
<1> QED
  BY <1>1, <1>2, PTL DEF AssemblySpec

\* The receipt of a formation stays the one that was assembled first, whatever is published after
\* the formation and in whatever order the rows are supplied (data/monthly_signals.py _assemble,
\* data/point_in_time.py select_facts and select_universe), for any rows, calendars, requests and
\* formulas.
THEOREM ReceiptsStayReproducible ==
  AssemblySpec => []ReceiptsAreReproducible
<1>1. AssemblyInv => ReceiptsAreReproducible
  <2> SUFFICES ASSUME AssemblyInv, NEW plan \in DOMAIN formed
               PROVE  /\ Assemble(Bundle, request, plan) = formed[plan]
                      /\ Assemble(Reversed, request, plan) = formed[plan]
    BY DEF ReceiptsAreReproducible
  <2>1. formed[plan] = Assemble(Bundle, request, plan)
    BY DEF AssemblyInv
  <2>2. facts \in Seq(FactRows) /\ membership \in Seq(EventRows)
    BY DEF AssemblyInv
  <2>3. PICK one, other : one = Bundle /\ other = Reversed
    OBVIOUS
  <2>4. /\ one.facts = facts /\ one.membership = membership
        /\ other.facts = Backwards(facts) /\ other.membership = Backwards(membership)
    BY <2>3 DEF Bundle, Reversed, Backwards
  <2>5. Backwards(facts) \in Seq(FactRows) /\ Backwards(membership) \in Seq(EventRows)
    BY <2>2, BackwardsIsOfTheSame
  <2>6. /\ \A contexts : KnownFacts(one.facts, contexts, plan.formation) =
                           KnownFacts(other.facts, contexts, plan.formation)
        /\ KnownEvents(one.membership, plan.formation) =
             KnownEvents(other.membership, plan.formation)
    BY <2>2, <2>4, BackwardsIsKnown
  <2>7. Assemble(one, request, plan) = Assemble(other, request, plan)
    <3>1. /\ one.facts \in Seq(FactRows) /\ one.membership \in Seq(EventRows)
          /\ other.facts \in Seq(FactRows) /\ other.membership \in Seq(EventRows)
      BY <2>2, <2>4, <2>5
    <3> QED
      BY <3>1, <2>6, AssembledFromKnown
  <2> QED
    BY <2>1, <2>3, <2>7
<1> QED
  BY <1>1, AssemblyInvHolds, PTL

\* What is selected was known.
LEMMA SelectedIsKnown ==
  ASSUME NEW records \in Seq(FactRows), NEW contexts, NEW at,
         SelectFacts(records, contexts, at).failure = "none"
  PROVE  /\ IsFiniteSet(SelectFacts(records, contexts, at).facts)
         /\ \A f \in SelectFacts(records, contexts, at).facts : f.available <= at
<1>1. PICK K : K = KnownFacts(records, contexts, at)
  OBVIOUS
<1>2. PICK seen : seen = FactsSeen(records, contexts, at)
  OBVIOUS
<1>3. FactsSound(seen, K)
  BY <1>1, <1>2, FactsAreSeen
<1>4. ~seen.failed
  BY <1>2 DEF SelectFacts, Refused
<1>5. PICK chosen : chosen = SelectFacts(records, contexts, at).facts
  OBVIOUS
<1>6. chosen \subseteq seen.versions
  BY <1>2, <1>4, <1>5 DEF SelectFacts
<1>7. chosen \subseteq K
  BY <1>3, <1>4, <1>6 DEF FactsSound
<1>8. PICK n \in Nat : n = Len(records)
  OBVIOUS
<1>9. PICK known : known = {j \in 1 .. n : KnownFact(records[j], contexts, at)}
  OBVIOUS
<1>10. K = {records[i] : i \in known}
  BY <1>1, <1>8, <1>9 DEF KnownFacts, FactsAmong
<1>11. IsFiniteSet(known)
  <2>1. IsFiniteSet(1 .. n)
    BY FS_Interval
  <2>2. known \subseteq 1 .. n
    BY <1>9
  <2> QED
    BY <2>1, <2>2, FS_Subset
<1>12. IsFiniteSet(K)
  <2>1. PICK take : take = [i \in known |-> records[i]]
    OBVIOUS
  <2>2. take \in Surjection(known, K)
    BY <2>1, <1>10 DEF Surjection
  <2> QED
    BY <2>2, <1>11, FS_Surjection
<1>13. \A f \in K : f.available <= at
  BY <1>9, <1>10 DEF KnownFact
<1> QED
  BY <1>5, <1>7, <1>12, <1>13, FS_Subset

\* As many selections as cells are filled: a selection is that of its cell.
LEMMA SelectionsCount ==
  ASSUME NEW filled, IsFiniteSet(filled), NEW pick,
         NEW selections, selections = {[cell |-> c, fact |-> pick[c]] : c \in filled}
  PROVE  Cardinality(selections) = Cardinality(filled)
<1>1. PICK f : f = [c \in filled |-> [cell |-> c, fact |-> pick[c]]]
  OBVIOUS
<1>2. f \in [filled -> selections] /\ \A c \in filled : f[c].cell = c
  BY <1>1
<1>3. \A c, d \in filled : f[c] = f[d] => c = d
  <2> SUFFICES ASSUME NEW c \in filled, NEW d \in filled, f[c] = f[d]
               PROVE  c = d
    OBVIOUS
  <2>1. f[c].cell = c /\ f[d].cell = d
    BY <1>2
  <2> QED
    BY <2>1
<1>4. \A s \in selections : \E c \in filled : f[c] = s
  BY <1>1
<1>5. f \in Bijection(filled, selections)
  BY <1>2, <1>3, <1>4 DEF Bijection, Injection, Surjection, IsInjective
<1>6. ExistsBijection(filled, selections)
  BY <1>5 DEF ExistsBijection
<1> QED
  BY <1>6, FS_Bijection

\* The filled cells are finitely many: each is that of a binding and of a fact.
LEMMA FilledCellsAreFinite ==
  ASSUME NEW asked, IsFiniteSet(asked.bindings), NEW indexed, IsFiniteSet(indexed), NEW plan,
         NEW members, NEW filled,
         filled = {c \in CellsOf(asked, plan, members) : RowsOf(indexed, c) # {}}
  PROVE  IsFiniteSet(filled)
<1>1. PICK B : B = asked.bindings
  OBVIOUS
<1>2. PICK pairs : pairs = B \X indexed
  OBVIOUS
<1>3. IsFiniteSet(pairs)
  BY <1>1, <1>2, FS_Product
<1>4. PICK f : f = [p \in pairs |->
                      [binding |-> p[1], security |-> p[2].security, month |-> Month(p[2].end)]]
  OBVIOUS
<1>5. PICK range : range = {f[p] : p \in pairs}
  OBVIOUS
<1>6. f \in Surjection(pairs, range)
  BY <1>4, <1>5 DEF Surjection
<1>7. IsFiniteSet(range)
  BY <1>3, <1>6, FS_Surjection
<1>8. ASSUME NEW c \in filled
      PROVE  c \in range
  <2>1. PICK b \in B : c \in [binding : {b}, security : members, month : Requested(asked, plan, b)]
    BY <1>1 DEF CellsOf
  <2>2. c = [binding |-> c.binding, security |-> c.security, month |-> c.month] /\ c.binding = b
    BY <2>1
  <2>3. PICK r \in indexed : r.security = c.security /\ Month(r.end) = c.month
    BY DEF RowsOf
  <2>4. <<b, r>> \in pairs
    BY <1>2
  <2>5. f[<<b, r>>] = c
    BY <2>2, <2>3, <2>4, <1>4
  <2> QED
    BY <2>4, <2>5, <1>5
<1> QED
  BY <1>7, <1>8, FS_Subset

\* Two rows are more than one.
LEMMA AtMostOne ==
  ASSUME NEW S, IsFiniteSet(S), ~(Cardinality(S) > 1), NEW a \in S, NEW b \in S
  PROVE  a = b
<1> SUFFICES ASSUME a # b
             PROVE  FALSE
  OBVIOUS
<1>1. {a, b} \subseteq S
  OBVIOUS
<1>2. Cardinality({a, b}) <= Cardinality(S)
  BY <1>1, FS_Subset
<1>3. IsFiniteSet({a}) /\ Cardinality({a}) = 1
  BY FS_Singleton
<1>4. {a} \cup {b} = {a, b} /\ b \notin {a}
  OBVIOUS
<1>5. Cardinality({a} \cup {b}) = Cardinality({a}) + 1
  BY <1>3, <1>4, FS_AddElement
<1>6. Cardinality(S) \in Nat
  BY FS_CardinalityType
<1> QED
  BY <1>2, <1>3, <1>4, <1>5, <1>6

\* Histories agree where the rows of their cells do.
LEMMA HistoriesAgree ==
  ASSUME NEW asked, NEW plan, NEW one, NEW other, NEW b, NEW security,
         \A m \in Requested(asked, plan, b) :
           RowsOf(one, [binding |-> b, security |-> security, month |-> m]) =
             RowsOf(other, [binding |-> b, security |-> security, month |-> m])
  PROVE  History(asked, plan, one, b, security) = History(asked, plan, other, b, security)
<1>1. PICK months : months = Requested(asked, plan, b)
  OBVIOUS
<1>2. PICK cell : cell = [m \in months |-> [binding |-> b, security |-> security, month |-> m]]
  OBVIOUS
<1>3. \A m \in months : RowsOf(one, cell[m]) = RowsOf(other, cell[m])
  BY <1>1, <1>2
<1>4. \A m \in months : ValueOf(one, cell[m]) = ValueOf(other, cell[m])
  BY <1>3 DEF ValueOf
<1>5. /\ History(asked, plan, one, b, security) =
           IF \A m \in months : RowsOf(one, cell[m]) # {}
           THEN [m \in months |-> ValueOf(one, cell[m])] ELSE Unknown
      /\ History(asked, plan, other, b, security) =
           IF \A m \in months : RowsOf(other, cell[m]) # {}
           THEN [m \in months |-> ValueOf(other, cell[m])] ELSE Unknown
  BY <1>1, <1>2 DEF History
<1>6. [m \in months |-> ValueOf(one, cell[m])] = [m \in months |-> ValueOf(other, cell[m])]
  BY <1>4
<1> QED
  BY <1>3, <1>5, <1>6

\* Observations agree where the histories of the bindings do.
LEMMA ObservationsAgree ==
  ASSUME NEW asked \in Requests, NEW plan, NEW one, NEW other, NEW security,
         \A b \in asked.bindings :
           History(asked, plan, one, b, security) = History(asked, plan, other, b, security)
  PROVE  Observed(asked, plan, one, security) = Observed(asked, plan, other, security)
<1>1. PICK signals : signals = asked.bindings \ {asked.capitalization}
  OBVIOUS
<1>2. PICK of, off : /\ of = [b \in signals |-> History(asked, plan, one, b, security)]
                     /\ off = [b \in signals |-> History(asked, plan, other, b, security)]
  OBVIOUS
<1>3. of = off
  BY <1>1, <1>2
<1>4. PICK cap : cap = asked.capitalization
  OBVIOUS
<1>5. cap # Unknown =>
        History(asked, plan, one, cap, security) = History(asked, plan, other, cap, security)
  BY <1>4, PointInTimeAssumption
<1>6. PICK month : month = Month(Cutoff(asked, plan))
  OBVIOUS
<1>7. PICK h, k : /\ h = History(asked, plan, one, cap, security)
                  /\ k = History(asked, plan, other, cap, security)
  OBVIOUS
<1>8. Observed(asked, plan, one, security) =
        [signal |-> IF \E b \in signals : of[b] = Unknown THEN Unknown ELSE Evaluate(of),
         capitalization |-> IF cap = Unknown \/ h = Unknown THEN Unknown ELSE h[month]]
  <2>1. \A b \in signals : History(asked, plan, one, b, security) = of[b]
    BY <1>2
  <2>2. (\E b \in signals : History(asked, plan, one, b, security) = Unknown) <=>
          \E b \in signals : of[b] = Unknown
    BY <2>1
  <2> QED
    BY <2>2, <1>1, <1>2, <1>4, <1>6, <1>7 DEF Observed
<1>9. Observed(asked, plan, other, security) =
        [signal |-> IF \E b \in signals : off[b] = Unknown THEN Unknown ELSE Evaluate(off),
         capitalization |-> IF cap = Unknown \/ k = Unknown THEN Unknown ELSE k[month]]
  <2>1. \A b \in signals : History(asked, plan, other, b, security) = off[b]
    BY <1>2
  <2>2. (\E b \in signals : History(asked, plan, other, b, security) = Unknown) <=>
          \E b \in signals : off[b] = Unknown
    BY <2>1
  <2> QED
    BY <2>2, <1>1, <1>2, <1>4, <1>6, <1>7 DEF Observed
<1> QED
  BY <1>3, <1>5, <1>7, <1>8, <1>9

\* What a cross-section is made of, once it is made.
LEMMA CrossSectionIsMade ==
  ASSUME NEW asked, NEW plan, NEW universe, NEW selected,
         NEW receipt, receipt = CrossSection(universe, selected, asked, plan),
         receipt.failure = "none",
         NEW cells, cells = CellsOf(asked, plan, universe.members),
         NEW indexed, indexed = Indexed(selected, asked, plan),
         NEW filled, filled = Filled(indexed, cells)
  PROVE  /\ selected.failure = "none"
         /\ \A c \in cells : ~(Cardinality(RowsOf(indexed, c)) > 1)
         /\ \A c \in filled : ~Invalid(asked, c.binding, ValueOf(indexed, c))
         /\ receipt = [failure |-> "none",
                       universe |-> universe.members,
                       observations |-> Observations(asked, plan, indexed, universe.members),
                       selections |-> Selections(indexed, filled),
                       missing |-> cells \ filled]
<1>1. /\ universe.failure = "none" /\ universe.members # {} /\ selected.failure = "none"
      /\ ~(\/ \E c \in cells : Cardinality(RowsOf(indexed, c)) > 1
           \/ \E c \in filled : Invalid(asked, c.binding, ValueOf(indexed, c)))
  BY DEF CrossSection, Refused
<1> QED
  BY <1>1 DEF CrossSection

\* A cross-section of finitely many facts, known by the formation, is accepted by its contract.
LEMMA CrossSectionIsAccepted ==
  ASSUME NEW asked \in Requests, NEW plan, NEW universe, NEW selected,
         selected.failure = "none" =>
           /\ IsFiniteSet(selected.facts)
           /\ \A f \in selected.facts : f.available <= plan.formation,
         NEW receipt, receipt = CrossSection(universe, selected, asked, plan),
         receipt.failure = "none"
  PROVE  LineageAccepted(receipt, asked, plan) /\ ValuesAccepted(receipt, asked, plan)
<1>1. PICK members : members = universe.members
  OBVIOUS
<1>2. PICK cells : cells = CellsOf(asked, plan, members)
  OBVIOUS
<1>3. PICK cutoff : cutoff = Cutoff(asked, plan)
  OBVIOUS
<1>4. PICK indexed : indexed = Indexed(selected, asked, plan)
  OBVIOUS
<1>5. PICK filled : filled = Filled(indexed, cells)
  OBVIOUS
<1>6. indexed = {f \in selected.facts : f.end <= cutoff}
  BY <1>3, <1>4 DEF Indexed
<1>7. filled = {c \in cells : RowsOf(indexed, c) # {}}
  BY <1>5 DEF Filled
<1>8. PICK pick : pick = [c \in filled |-> CHOOSE f \in RowsOf(indexed, c) : TRUE]
  OBVIOUS
<1>9. /\ selected.failure = "none"
      /\ \A c \in cells : ~(Cardinality(RowsOf(indexed, c)) > 1)
      /\ \A c \in filled : ~Invalid(asked, c.binding, ValueOf(indexed, c))
      /\ receipt = [failure |-> "none",
                    universe |-> universe.members,
                    observations |-> Observations(asked, plan, indexed, universe.members),
                    selections |-> Selections(indexed, filled),
                    missing |-> cells \ filled]
  BY <1>1, <1>2, <1>4, <1>5, CrossSectionIsMade
<1>10. /\ receipt.universe = members
      /\ receipt.observations = [s \in members |-> Observed(asked, plan, indexed, s)]
      /\ receipt.selections = {[cell |-> c, fact |-> pick[c]] : c \in filled}
      /\ receipt.missing = cells \ filled
  <2>1. Selections(indexed, filled) = {[cell |-> c, fact |-> pick[c]] : c \in filled}
    BY <1>8 DEF Selections
  <2>2. Observations(asked, plan, indexed, members) =
          [s \in members |-> Observed(asked, plan, indexed, s)]
    BY DEF Observations
  <2> QED
    BY <1>1, <1>9, <2>1, <2>2
<1>11. PICK selections : selections = receipt.selections
  OBVIOUS
<1>12. \A c \in filled : pick[c] \in RowsOf(indexed, c) /\ ValueOf(indexed, c) = pick[c].value
  BY <1>7, <1>8 DEF ValueOf
<1>13. \A c \in filled : /\ pick[c] \in indexed /\ pick[c].security = c.security
                         /\ pick[c].context = c.binding.context /\ Month(pick[c].end) = c.month
  BY <1>12 DEF RowsOf
<1>14. /\ IsFiniteSet(indexed) /\ \A f \in indexed : f.available <= plan.formation /\ f.end <= cutoff
  <2>1. IsFiniteSet(selected.facts)
    BY <1>9
  <2>2. indexed \subseteq selected.facts
    BY <1>6
  <2> QED
    BY <2>1, <2>2, <1>6, <1>9, FS_Subset
<1>15. {s.cell : s \in selections} = filled
  <2>1. \A s \in selections : s.cell \in filled
    BY <1>10, <1>11
  <2>2. ASSUME NEW c \in filled
        PROVE  c \in {s.cell : s \in selections}
    <3>1. PICK s : s = [cell |-> c, fact |-> pick[c]]
      OBVIOUS
    <3>2. s \in selections /\ s.cell = c
      BY <3>1, <1>10, <1>11
    <3> QED
      BY <3>2
  <2> QED
    BY <2>1, <2>2
<1>16. IsFiniteSet(filled)
  BY <1>2, <1>7, <1>14, FilledCellsAreFinite, PointInTimeAssumption
<1>17. Cardinality(filled) = Cardinality(selections)
  BY <1>10, <1>11, <1>16, SelectionsCount
<1>18. ASSUME NEW s \in selections
       PROVE  /\ s.fact.context = s.cell.binding.context
              /\ Month(s.fact.end) = s.cell.month /\ s.fact.end <= cutoff
              /\ s.fact.available <= plan.formation
              /\ ~Invalid(asked, s.cell.binding, s.fact.value)
  <2>1. PICK c \in filled : s = [cell |-> c, fact |-> pick[c]]
    BY <1>10, <1>11
  <2>2. s.cell = c /\ s.fact = pick[c]
    BY <2>1
  <2> QED
    BY <2>2, <1>9, <1>12, <1>13, <1>14
<1>19. LineageAccepted(receipt, asked, plan)
  <2>1. PICK chosen : chosen = {s.cell : s \in receipt.selections}
    OBVIOUS
  <2>2. /\ chosen = filled /\ DOMAIN receipt.observations = receipt.universe
    BY <2>1, <1>10, <1>11, <1>15
  <2>3. filled \subseteq cells
    BY <1>7
  <2> QED
    BY <2>1, <2>2, <2>3, <1>2, <1>3, <1>10, <1>11, <1>17, <1>18 DEF LineageAccepted
<1>20. PICK chosenFacts : chosenFacts = {s.fact : s \in receipt.selections}
  OBVIOUS
<1>21. ASSUME NEW c \in cells
       PROVE  RowsOf(chosenFacts, c) = RowsOf(indexed, c)
  <2>1. \A f \in chosenFacts : f \in indexed
    BY <1>20, <1>10, <1>13
  <2>2. RowsOf(chosenFacts, c) \subseteq RowsOf(indexed, c)
    BY <2>1 DEF RowsOf
  <2>3. ASSUME NEW f \in RowsOf(indexed, c)
        PROVE  f \in RowsOf(chosenFacts, c)
    <3>1. c \in filled
      BY <1>7
    <3>2. pick[c] \in RowsOf(indexed, c)
      BY <3>1, <1>12
    <3>3. IsFiniteSet(RowsOf(indexed, c))
      <4>1. RowsOf(indexed, c) \subseteq indexed
        BY DEF RowsOf
      <4> QED
        BY <4>1, <1>14, FS_Subset
    <3>4. f = pick[c]
      BY <3>2, <3>3, <1>9, AtMostOne
    <3>5. f \in chosenFacts
      <4>1. PICK s : s = [cell |-> c, fact |-> pick[c]]
        OBVIOUS
      <4>2. s \in receipt.selections /\ s.fact = f
        BY <4>1, <3>1, <3>4, <1>10
      <4> QED
        BY <4>2, <1>20
    <3> QED
      BY <3>5 DEF RowsOf
  <2> QED
    BY <2>2, <2>3
<1>22. ASSUME NEW security \in members
       PROVE  Observed(asked, plan, indexed, security) = Observed(asked, plan, chosenFacts, security)
  <2>1. ASSUME NEW b \in asked.bindings
        PROVE  History(asked, plan, indexed, b, security) =
                 History(asked, plan, chosenFacts, b, security)
    <3>1. ASSUME NEW m \in Requested(asked, plan, b)
          PROVE  RowsOf(indexed, [binding |-> b, security |-> security, month |-> m]) =
                   RowsOf(chosenFacts, [binding |-> b, security |-> security, month |-> m])
      <4>1. PICK c : c = [binding |-> b, security |-> security, month |-> m]
        OBVIOUS
      <4>2. c \in cells
        BY <4>1, <1>2 DEF CellsOf
      <4> QED
        BY <4>1, <4>2, <1>21
    <3> QED
      BY <3>1, HistoriesAgree
  <2> QED
    BY <2>1, ObservationsAgree
<1>23. ValuesAccepted(receipt, asked, plan)
  <2>1. [s \in members |-> Observed(asked, plan, indexed, s)] =
          [s \in members |-> Observed(asked, plan, chosenFacts, s)]
    BY <1>22
  <2> QED
    BY <2>1, <1>10, <1>20 DEF ValuesAccepted, Observations
<1> QED
  BY <1>19, <1>23

\* Every receipt that is assembled is accepted by the contract it is reloaded under: every requested
\* cell once, selected or missing, no fact unknown at the formation or past the cutoff, and the
\* scalars those of the selections (_assemble, coherent_lineage, coherent_values).
THEOREM ReceiptsStayAccepted ==
  AssemblySpec => []ReceiptsAreAccepted
<1>1. AssemblyInv => ReceiptsAreAccepted
  <2> SUFFICES ASSUME AssemblyInv, NEW plan \in DOMAIN formed, formed[plan].failure = "none"
               PROVE  /\ LineageAccepted(formed[plan], request, plan)
                      /\ ValuesAccepted(formed[plan], request, plan)
    BY DEF ReceiptsAreAccepted
  <2>1. /\ request \in Requests /\ facts \in Seq(FactRows)
        /\ formed[plan] = Assemble(Bundle, request, plan)
    BY DEF AssemblyInv
  <2>2. PICK contexts : contexts = {b.context : b \in request.bindings}
    OBVIOUS
  <2>3. PICK universe, selected : /\ universe = SelectUniverse(membership, plan.formation)
                                  /\ selected = SelectFacts(facts, contexts, plan.formation)
    OBVIOUS
  <2>4. formed[plan] = CrossSection(universe, selected, request, plan)
    BY <2>1, <2>2, <2>3 DEF Assemble, Bundle
  <2>5. selected.failure = "none" =>
          /\ IsFiniteSet(selected.facts)
          /\ \A f \in selected.facts : f.available <= plan.formation
    BY <2>1, <2>3, SelectedIsKnown
  <2> QED
    BY <2>1, <2>4, <2>5, CrossSectionIsAccepted
<1> QED
  BY <1>1, AssemblyInvHolds, PTL

-----------------------------------------------------------------------------
(* Orders.  The place of an element is how many come before it; a         *)
(* sequence that has in each place the element of that place lists all.    *)

\* R orders the finite set S.
IsOrder(S, R) ==
  /\ IsFiniteSet(S)
  /\ \A x \in S : <<x, x>> \notin R
  /\ \A x, y, z \in S : <<x, y>> \in R /\ <<y, z>> \in R => <<x, z>> \in R
  /\ \A x, y \in S : x # y => <<x, y>> \in R \/ <<y, x>> \in R

Preceding(S, R, x) == {y \in S : <<y, x>> \in R}

\* Of two, one comes first.
LEMMA OrderCompares ==
  ASSUME NEW S, NEW R, IsOrder(S, R), NEW x \in S, NEW y \in S, NEW z \in S
  PROVE  /\ <<x, x>> \notin R
         /\ <<x, y>> \in R /\ <<y, z>> \in R => <<x, z>> \in R
         /\ x # y => <<x, y>> \in R \/ <<y, x>> \in R
  BY DEF IsOrder

\* How many come before one is a place below their number, and a later one has a later place.
LEMMA PlacesGrow ==
  ASSUME NEW S, NEW R, IsOrder(S, R), NEW x \in S
  PROVE  /\ IsFiniteSet(Preceding(S, R, x)) /\ Cardinality(Preceding(S, R, x)) \in 0 .. Cardinality(S) - 1
         /\ \A y \in S : <<y, x>> \in R => Cardinality(Preceding(S, R, y)) < Cardinality(Preceding(S, R, x))
<1>1. IsFiniteSet(S)
  BY DEF IsOrder
<1>2. ASSUME NEW y \in S
      PROVE  IsFiniteSet(Preceding(S, R, y)) /\ Cardinality(Preceding(S, R, y)) \in Nat
  <2>1. Preceding(S, R, y) \subseteq S
    BY DEF Preceding
  <2> QED
    BY <2>1, <1>1, FS_Subset, FS_CardinalityType
<1>3. ASSUME NEW A, NEW B, IsFiniteSet(B), A \subseteq B, NEW b \in B, b \notin A
      PROVE  Cardinality(A) < Cardinality(B)
  <2>1. /\ Cardinality(A) <= Cardinality(B) /\ IsFiniteSet(A)
        /\ Cardinality(B) = Cardinality(A) => B = A
    BY <1>3, FS_Subset
  <2>2. Cardinality(A) \in Nat /\ Cardinality(B) \in Nat
    BY <1>3, <2>1, FS_CardinalityType
  <2> QED
    BY <1>3, <2>1, <2>2
<1>4. Cardinality(Preceding(S, R, x)) < Cardinality(S)
  <2>1. Preceding(S, R, x) \subseteq S /\ x \notin Preceding(S, R, x)
    BY OrderCompares DEF Preceding
  <2> QED
    BY <2>1, <1>1, <1>3
<1>5. ASSUME NEW y \in S, <<y, x>> \in R
      PROVE  Cardinality(Preceding(S, R, y)) < Cardinality(Preceding(S, R, x))
  <2>1. Preceding(S, R, y) \subseteq Preceding(S, R, x)
    <3> SUFFICES ASSUME NEW z \in Preceding(S, R, y)
                 PROVE  z \in Preceding(S, R, x)
      OBVIOUS
    <3>1. z \in S /\ <<z, y>> \in R
      BY DEF Preceding
    <3>2. <<z, x>> \in R
      BY <3>1, <1>5, OrderCompares
    <3> QED
      BY <3>1, <3>2 DEF Preceding
  <2>2. y \in Preceding(S, R, x) /\ y \notin Preceding(S, R, y)
    BY <1>5, OrderCompares DEF Preceding
  <2> QED
    BY <2>1, <2>2, <1>2, <1>3
<1>6. Cardinality(S) \in Nat
  BY <1>1, FS_CardinalityType
<1> QED
  BY <1>2, <1>4, <1>5, <1>6

\* Every place is somebody's.
LEMMA PlacesAreTaken ==
  ASSUME NEW S, NEW R, IsOrder(S, R), NEW n \in 1 .. Cardinality(S)
  PROVE  \E x \in S : Cardinality(Preceding(S, R, x)) = n - 1
<1>1. IsFiniteSet(S) /\ Cardinality(S) \in Nat
  BY FS_CardinalityType DEF IsOrder
<1>2. PICK m : m = Cardinality(S)
  OBVIOUS
<1>3. PICK place : place = [x \in S |-> Cardinality(Preceding(S, R, x)) + 1]
  OBVIOUS
<1>4. place \in [S -> 1 .. m]
  <2> SUFFICES ASSUME NEW x \in S
               PROVE  Cardinality(Preceding(S, R, x)) + 1 \in 1 .. m
    BY <1>3
  <2>1. Cardinality(Preceding(S, R, x)) \in 0 .. m - 1
    BY <1>2, PlacesGrow
  <2> QED
    BY <2>1, <1>1, <1>2
<1>5. ASSUME NEW x \in S, NEW y \in S, place[x] = place[y]
      PROVE  x = y
  <2>1. PICK a, b : a = Cardinality(Preceding(S, R, x)) /\ b = Cardinality(Preceding(S, R, y))
    OBVIOUS
  <2>2. a \in Int /\ b \in Int /\ a + 1 = b + 1
    BY <2>1, <1>3, <1>5, PlacesGrow
  <2>3. <<x, y>> \notin R /\ <<y, x>> \notin R
    BY <2>1, <2>2, PlacesGrow
  <2> QED
    BY <2>3, OrderCompares
<1>6. place \in Injection(S, 1 .. m)
  BY <1>4, <1>5 DEF Injection, IsInjective
<1>7. IsFiniteSet(1 .. m) /\ Cardinality(1 .. m) = m
  BY <1>1, <1>2, FS_Interval
<1>8. place \in Surjection(S, 1 .. m)
  BY <1>2, <1>6, <1>7, FS_Injection
<1>9. PICK x \in S : place[x] = n
  BY <1>2, <1>8 DEF Surjection
<1>10. Cardinality(Preceding(S, R, x)) \in Int
  BY PlacesGrow
<1> QED
  BY <1>3, <1>9, <1>10

\* The sequence order has in each place the element of that place.
FillsPlaces(order, n, S, R) ==
  /\ n = Cardinality(S)
  /\ order \in [1 .. n -> S]
  /\ \A i \in 1 .. n : Cardinality(Preceding(S, R, order[i])) = i - 1

\* The order names each once, those that come before first.
LEMMA OrderOfPlaces ==
  ASSUME NEW S, NEW R, IsOrder(S, R), NEW n \in Nat, NEW order, FillsPlaces(order, n, S, R)
  PROVE  /\ Len(order) = n
         /\ \A x \in S : \E i \in 1 .. n : order[i] = x
         /\ \A i, j \in 1 .. n : i < j => <<order[i], order[j]>> \in R /\ order[i] # order[j]
<1>1. /\ n = Cardinality(S)
      /\ \A i \in 1 .. n : order[i] \in S /\ Cardinality(Preceding(S, R, order[i])) = i - 1
  BY DEF FillsPlaces
<1>2. Len(order) = n
  BY DEF FillsPlaces
<1>3. ASSUME NEW x \in S
      PROVE  \E i \in 1 .. n : order[i] = x
  <2>1. PICK c : c = Cardinality(Preceding(S, R, x))
    OBVIOUS
  <2>2. c \in 0 .. n - 1
    BY <1>1, <2>1, PlacesGrow
  <2>3. c + 1 \in 1 .. n /\ (c + 1) - 1 = c
    BY <2>2
  <2>4. order[c + 1] \in S /\ Cardinality(Preceding(S, R, order[c + 1])) = c
    BY <1>1, <2>3
  <2>5. <<x, order[c + 1]>> \notin R /\ <<order[c + 1], x>> \notin R
    BY <2>1, <2>2, <2>4, PlacesGrow
  <2>6. order[c + 1] = x
    BY <2>4, <2>5 DEF IsOrder
  <2> QED
    BY <2>3, <2>6
<1>4. ASSUME NEW i \in 1 .. n, NEW j \in 1 .. n, i < j
      PROVE  <<order[i], order[j]>> \in R /\ order[i] # order[j]
  <2>1. PICK x, y : x = order[i] /\ y = order[j]
    OBVIOUS
  <2>2. /\ x \in S /\ y \in S
        /\ Cardinality(Preceding(S, R, x)) = i - 1 /\ Cardinality(Preceding(S, R, y)) = j - 1
    BY <1>1, <2>1
  <2>3. x # y
    BY <2>2, <1>4
  <2>4. <<y, x>> \notin R
    <3> SUFFICES ASSUME <<y, x>> \in R
                 PROVE  FALSE
      OBVIOUS
    <3>1. Cardinality(Preceding(S, R, y)) < Cardinality(Preceding(S, R, x))
      BY <2>2, PlacesGrow
    <3> QED
      BY <3>1, <2>2, <1>4
  <2> QED
    BY <2>1, <2>2, <2>3, <2>4 DEF IsOrder
<1> QED
  BY <1>1, <1>2, <1>3, <1>4

-----------------------------------------------------------------------------
(* The queue of hypotheses.  The candidates are ordered by how many come   *)
(* before each, and the entries are made along that order.                 *)

\* What is ordered: finitely many, by numbers, each with an identity of its own.
IsScored(S) ==
  /\ IsFiniteSet(S)
  /\ \A x \in S : x.score \in Int /\ x.candidate.id \in Int
  /\ \A x, y \in S : x.candidate.id = y.candidate.id => x = y

\* Of two, one comes first.
LEMMA PrecedesOrders ==
  ASSUME NEW S, IsScored(S), NEW x \in S, NEW y \in S, NEW z \in S
  PROVE  /\ ~Precedes(x, x)
         /\ Precedes(x, y) /\ Precedes(y, z) => Precedes(x, z)
         /\ x # y => Precedes(x, y) \/ Precedes(y, x)
<1>1. PICK a, b, c, i, j, k : /\ a = x.score /\ b = y.score /\ c = z.score
                              /\ i = x.candidate.id /\ j = y.candidate.id /\ k = z.candidate.id
  OBVIOUS
<1>2. /\ a \in Int /\ b \in Int /\ c \in Int /\ i \in Int /\ j \in Int /\ k \in Int
      /\ x # y => i # j
  BY <1>1 DEF IsScored
<1>3. /\ Precedes(x, x) <=> (a > a \/ (a = a /\ i < i))
      /\ Precedes(x, y) <=> (a > b \/ (a = b /\ i < j))
      /\ Precedes(y, x) <=> (b > a \/ (b = a /\ j < i))
      /\ Precedes(y, z) <=> (b > c \/ (b = c /\ j < k))
      /\ Precedes(x, z) <=> (a > c \/ (a = c /\ i < k))
  BY <1>1 DEF Precedes
<1> QED
  BY <1>2, <1>3

\* The order names each once, those that come before first.
LEMMA OrderIsComplete ==
  ASSUME NEW S, IsScored(S), NEW n \in Nat, n = Cardinality(S), NEW order, order = Ordered(S)
  PROVE  /\ order \in [1 .. n -> S] /\ Len(order) = n
         /\ \A x \in S : \E i \in 1 .. n : order[i] = x
         /\ \A i, j \in 1 .. n : i < j => Precedes(order[i], order[j]) /\ order[i] # order[j]
<1>1. PICK R : R = {p \in S \X S : Precedes(p[1], p[2])}
  OBVIOUS
<1>2. \A x, y \in S : <<x, y>> \in R <=> Precedes(x, y)
  BY <1>1
<1>3. IsOrder(S, R)
  <2>1. IsFiniteSet(S)
    BY DEF IsScored
  <2> QED
    BY <2>1, <1>2, PrecedesOrders DEF IsOrder
<1>4. ASSUME NEW i \in 1 .. n
      PROVE  order[i] \in S /\ Cardinality(Preceding(S, R, order[i])) = i - 1
  <2>1. ASSUME NEW x \in S
        PROVE  Preceding(S, R, x) = {y \in S : Precedes(y, x)}
    BY <1>2 DEF Preceding
  <2>2. \E x \in S : Cardinality(Preceding(S, R, x)) = i - 1
    BY <1>3, PlacesAreTaken
  <2>3. \E x \in S : Cardinality({y \in S : Precedes(y, x)}) = i - 1
    BY <2>1, <2>2
  <2>4. order[i] = CHOOSE x \in S : Cardinality({y \in S : Precedes(y, x)}) = i - 1
    BY DEF Ordered, InPlace
  <2>5. order[i] \in S /\ Cardinality({y \in S : Precedes(y, order[i])}) = i - 1
    BY <2>3, <2>4
  <2> QED
    BY <2>1, <2>5
<1>5. order \in [1 .. n -> S]
  <2>1. order = [i \in 1 .. n |-> order[i]]
    BY DEF Ordered
  <2> QED
    BY <2>1, <1>4
<1>6. /\ Len(order) = n
      /\ \A x \in S : \E i \in 1 .. n : order[i] = x
      /\ \A i, j \in 1 .. n : i < j => <<order[i], order[j]>> \in R /\ order[i] # order[j]
  <2>1. FillsPlaces(order, n, S, R)
    BY <1>4, <1>5 DEF FillsPlaces
  <2> QED
    BY <2>1, <1>3, OrderOfPlaces
<1> QED
  BY <1>2, <1>4, <1>5, <1>6

\* e is the entry of x after those of before.
Enters(e, x, before) ==
  /\ e.id = x.candidate.id /\ e.execution = Execution(x.candidate)
  /\ e.blockers = x.blockers /\ e.score = x.score
  /\ x.blockers # {} => e.status = "blocked" /\ e.duplicate = Unspecified
  /\ x.blockers = {} /\ Retained(before, e.execution) = {} =>
       e.status = "queued" /\ e.duplicate = Unspecified
  /\ x.blockers = {} /\ Retained(before, e.execution) # {} =>
       /\ e.status = "duplicate"
       /\ \E k \in Retained(before, e.execution) : e.duplicate = k.id

\* The entries of the first n of an order.
EntriesFit(entries, order, n) ==
  /\ entries = [i \in 1 .. n |-> entries[i]]
  /\ \A i \in 1 .. n : Enters(entries[i], order[i], {entries[j] : j \in 1 .. i - 1})

\* What is appended to a sequence comes after all that is there.
LEMMA AppendedLast ==
  ASSUME NEW entries, NEW n \in Nat, entries = [i \in 1 .. n |-> entries[i]], NEW e
  PROVE  /\ Append(entries, e) = [i \in 1 .. n + 1 |-> IF i = n + 1 THEN e ELSE entries[i]]
         /\ Range(entries) = {entries[j] : j \in 1 .. n}
<1>1. PICK S : S = {entries[i] : i \in 1 .. n} \cup {e}
  OBVIOUS
<1>2. entries \in [1 .. n -> S] /\ e \in S
  BY <1>1
<1>3. entries \in Seq(S) /\ Len(entries) = n /\ DOMAIN entries = 1 .. n
  BY <1>2
<1>4. PICK more : more = Append(entries, e)
  OBVIOUS
<1>5. /\ more \in Seq(S) /\ DOMAIN more = 1 .. n + 1
      /\ \A i \in 1 .. n + 1 : more[i] = IF i = n + 1 THEN e ELSE entries[i]
  BY <1>2, <1>3, <1>4
<1>6. more = [i \in 1 .. n + 1 |-> IF i = n + 1 THEN e ELSE entries[i]]
  BY <1>5
<1>7. Range(entries) = {entries[j] : j \in 1 .. n}
  BY <1>3 DEF Range
<1> QED
  BY <1>4, <1>6, <1>7

\* One entry more.
LEMMA AddEntryFits ==
  ASSUME NEW entries, NEW order, NEW n \in Nat, EntriesFit(entries, order, n)
  PROVE  EntriesFit(AddEntry(entries, order[n + 1]), order, n + 1)
<1>1. PICK x : x = order[n + 1]
  OBVIOUS
<1>2. PICK before : before = Range(entries)
  OBVIOUS
<1>3. PICK execution : execution = Execution(x.candidate)
  OBVIOUS
<1>4. PICK retained : retained = IF x.blockers = {} THEN Retained(before, execution) ELSE {}
  OBVIOUS
<1>5. PICK kept : kept = CHOOSE e \in retained : TRUE
  OBVIOUS
<1>6. PICK e : e = [id |-> x.candidate.id, execution |-> execution, blockers |-> x.blockers,
                    status |-> IF x.blockers # {} THEN "blocked"
                               ELSE IF retained # {} THEN "duplicate" ELSE "queued",
                    duplicate |-> IF retained = {} THEN Unspecified ELSE kept.id,
                    score |-> x.score]
  OBVIOUS
<1>7. PICK more : more = AddEntry(entries, x)
  OBVIOUS
<1>8. more = Append(entries, e)
  BY <1>2, <1>3, <1>4, <1>5, <1>6, <1>7 DEF AddEntry
<1>9. Enters(e, x, before)
  <2>1. /\ e.id = x.candidate.id /\ e.execution = execution /\ e.blockers = x.blockers
        /\ e.score = x.score
    BY <1>6
  <2>2. CASE x.blockers # {}
    <3>1. retained = {}
      BY <1>4, <2>2
    <3>2. e.status = "blocked" /\ e.duplicate = Unspecified
      BY <1>6, <2>2, <3>1
    <3> QED
      BY <1>3, <2>1, <2>2, <3>2 DEF Enters
  <2>3. CASE x.blockers = {} /\ Retained(before, execution) = {}
    <3>1. retained = {}
      BY <1>4, <2>3
    <3>2. e.status = "queued" /\ e.duplicate = Unspecified
      BY <1>6, <2>3, <3>1
    <3> QED
      BY <1>3, <2>1, <2>3, <3>2 DEF Enters
  <2>4. CASE x.blockers = {} /\ Retained(before, execution) # {}
    <3>1. retained = Retained(before, execution) /\ kept \in retained
      BY <1>4, <1>5, <2>4
    <3>2. e.status = "duplicate" /\ e.duplicate = kept.id
      BY <1>6, <2>4, <3>1
    <3> QED
      BY <1>3, <2>1, <2>4, <3>1, <3>2 DEF Enters
  <2> QED
    BY <2>2, <2>3, <2>4
<1>10. /\ more = [i \in 1 .. n + 1 |-> IF i = n + 1 THEN e ELSE entries[i]]
       /\ before = {entries[j] : j \in 1 .. n}
  BY <1>2, <1>8, AppendedLast DEF EntriesFit
<1>11. more[n + 1] = e /\ \A i \in 1 .. n : more[i] = entries[i]
  BY <1>10
<1>12. ASSUME NEW i \in 1 .. n + 1
       PROVE  Enters(more[i], order[i], {more[j] : j \in 1 .. i - 1})
  <2>1. CASE i = n + 1
    <3>1. {more[j] : j \in 1 .. i - 1} = before
      <4>1. 1 .. i - 1 = 1 .. n
        BY <2>1
      <4>2. {more[j] : j \in 1 .. n} = {entries[j] : j \in 1 .. n}
        BY <1>11
      <4> QED
        BY <4>1, <4>2, <1>10
    <3> QED
      BY <3>1, <2>1, <1>1, <1>9, <1>11
  <2>2. CASE i # n + 1
    <3>1. i \in 1 .. n
      BY <2>2
    <3>2. {more[j] : j \in 1 .. i - 1} = {entries[j] : j \in 1 .. i - 1}
      <4>1. \A j \in 1 .. i - 1 : more[j] = entries[j]
        BY <3>1, <1>11
      <4> QED
        BY <4>1
    <3> QED
      BY <3>1, <3>2, <1>11 DEF EntriesFit
  <2> QED
    BY <2>1, <2>2
<1>13. more = [i \in 1 .. n + 1 |-> more[i]]
  BY <1>10
<1> QED
  BY <1>1, <1>7, <1>12, <1>13 DEF EntriesFit

\* The table of the entries that EntriesOf() makes, one longer each time.
IsEntryTable(g, order, m) ==
  g = [n \in 0 .. m |-> IF n = 0 THEN <<>> ELSE AddEntry(g[n - 1], order[n])]

LEMMA EntriesAreOfTable ==
  ASSUME NEW order
  PROVE  EntriesOf(order) = (CHOOSE g : IsEntryTable(g, order, Len(order)))[Len(order)]
  BY DEF EntriesOf, IsEntryTable

LEMMA EntryTableExists ==
  ASSUME NEW order, NEW m \in Nat
  PROVE  \E g : IsEntryTable(g, order, m)
<1> DEFINE Good == {n \in Nat : \E g : IsEntryTable(g, order, n)}
<1>1. 0 \in Good
  <2>1. IsEntryTable([n \in 0 .. 0 |-> <<>>], order, 0)
    BY DEF IsEntryTable
  <2> QED
    BY <2>1
<1>2. ASSUME NEW n \in Good
      PROVE  n + 1 \in Good
  <2>1. n \in Nat
    OBVIOUS
  <2>2. PICK g : IsEntryTable(g, order, n)
    OBVIOUS
  <2>3. PICK last : last = AddEntry(g[n], order[n + 1])
    OBVIOUS
  <2>4. PICK h : h = [k \in 0 .. n + 1 |-> IF k = n + 1 THEN last ELSE g[k]]
    OBVIOUS
  <2>5. \A k \in 0 .. n : g[k] = IF k = 0 THEN <<>> ELSE AddEntry(g[k - 1], order[k])
    BY <2>2 DEF IsEntryTable
  <2>6. ASSUME NEW k \in 0 .. n + 1
        PROVE  h[k] = IF k = 0 THEN <<>> ELSE AddEntry(h[k - 1], order[k])
    <3>1. CASE k = n + 1
      <4>1. n \in 0 .. n + 1 /\ n # n + 1 /\ n + 1 \in 0 .. n + 1 /\ n + 1 # 0
            /\ (n + 1) - 1 = n
        BY <2>1
      <4>2. h[n] = g[n] /\ h[n + 1] = last
        BY <4>1, <2>4
      <4> QED
        BY <4>1, <4>2, <3>1, <2>3
    <3>2. CASE k # n + 1
      <4>1. k \in 0 .. n /\ (k # 0 => k - 1 \in 0 .. n + 1 /\ k - 1 # n + 1)
        BY <3>2, <2>1
      <4>2. h[k] = g[k] /\ (k # 0 => h[k - 1] = g[k - 1])
        BY <4>1, <3>2, <2>4
      <4> QED
        BY <4>1, <4>2, <2>5
    <3> QED
      BY <3>1, <3>2
  <2>7. IsEntryTable(h, order, n + 1)
    <3>1. h = [k \in 0 .. n + 1 |-> h[k]]
      BY <2>4
    <3> QED
      BY <3>1, <2>6 DEF IsEntryTable
  <2> QED
    BY <2>1, <2>7
<1>3. Good = Nat
  <2>1. Good \in SUBSET Nat
    OBVIOUS
  <2> HIDE DEF Good
  <2> QED
    BY <1>1, <1>2, <2>1, NatSetInduction
<1> QED
  BY <1>3

\* The entries of a whole order.
LEMMA EntriesAreMade ==
  ASSUME NEW order, NEW m \in Nat, m = Len(order)
  PROVE  EntriesFit(EntriesOf(order), order, m)
<1>1. PICK g : IsEntryTable(g, order, m) /\ EntriesOf(order) = g[m]
  <2>1. PICK g : g = CHOOSE h : IsEntryTable(h, order, m)
    OBVIOUS
  <2>2. IsEntryTable(g, order, m)
    BY <2>1, EntryTableExists
  <2> QED
    BY <2>1, <2>2, EntriesAreOfTable
<1>2. \A n \in 0 .. m : g[n] = IF n = 0 THEN <<>> ELSE AddEntry(g[n - 1], order[n])
  BY <1>1 DEF IsEntryTable
<1> DEFINE Good == {n \in Nat : n <= m => EntriesFit(g[n], order, n)}
<1>3. 0 \in Good
  <2>1. g[0] = <<>>
    BY <1>2
  <2> QED
    BY <2>1 DEF EntriesFit
<1>4. ASSUME NEW n \in Good
      PROVE  n + 1 \in Good
  <2> SUFFICES ASSUME n + 1 <= m
               PROVE  EntriesFit(g[n + 1], order, n + 1)
    OBVIOUS
  <2>1. n \in Nat /\ EntriesFit(g[n], order, n)
    OBVIOUS
  <2>2. g[n + 1] = AddEntry(g[n], order[n + 1])
    <3>1. n + 1 \in 0 .. m /\ n + 1 # 0 /\ (n + 1) - 1 = n
      BY <2>1
    <3> QED
      BY <3>1, <1>2
  <2> QED
    BY <2>1, <2>2, AddEntryFits
<1>5. Good = Nat
  <2>1. Good \in SUBSET Nat
    OBVIOUS
  <2> HIDE DEF Good
  <2> QED
    BY <1>3, <1>4, <2>1, NatSetInduction
<1> QED
  BY <1>1, <1>5

\* What rank_hypotheses accepts: finitely many candidates, each with an id of its own, that are
\* declared as QueueAssumption says.
IsBacklog(C) ==
  /\ IsFiniteSet(C)
  /\ \A c \in C : /\ c.id \in Int /\ c.novelty \in Int /\ c.specificity \in Int
                  /\ c.id # Unspecified
                  /\ c.spec # Unspecified => c.spec.execution # Unspecified
  /\ \A c, d \in C : c.id = d.id => c = d

\* The scored candidate of one.
ScoredOf(c, store) ==
  [candidate |-> c, blockers |-> Assess(c, store), score |-> Score(c, Assess(c, store))]

\* What is ranked is what the candidates score.
LEMMA ScoredIsScored ==
  ASSUME NEW C, IsBacklog(C), NEW store
  PROVE  /\ IsScored(Scored(C, store)) /\ Cardinality(Scored(C, store)) = Cardinality(C)
         /\ \A x \in Scored(C, store) : /\ x.candidate \in C
                                        /\ x.blockers = Assess(x.candidate, store)
                                        /\ x.score = Score(x.candidate, x.blockers)
         /\ \A c \in C : \E x \in Scored(C, store) : x.candidate = c
<1>1. PICK S : S = Scored(C, store)
  OBVIOUS
<1>2. S = {ScoredOf(c, store) : c \in C}
  BY <1>1 DEF Scored, ScoredOf
<1>3. ASSUME NEW c \in C
      PROVE  LET x == ScoredOf(c, store) IN
             /\ x.candidate = c /\ x.blockers = Assess(c, store)
             /\ x.score = Score(c, Assess(c, store)) /\ x.score \in Int
  <2>1. PICK blockers, score : blockers = Assess(c, store) /\ score = Score(c, blockers)
    OBVIOUS
  <2>2. ScoredOf(c, store) = [candidate |-> c, blockers |-> blockers, score |-> score]
    BY <2>1 DEF ScoredOf
  <2>3. score \in Int
    <3>1. PICK a, b : a = c.novelty /\ b = c.specificity
      OBVIOUS
    <3>2. a \in Int /\ b \in Int
      BY <3>1 DEF IsBacklog
    <3>3. score = 4 * a + 3 * b + (IF blockers = {} THEN 3 ELSE 0)
      BY <2>1, <3>1 DEF Score
    <3>4. CASE blockers = {}
      BY <3>2, <3>3, <3>4
    <3>5. CASE blockers # {}
      BY <3>2, <3>3, <3>5
    <3> QED
      BY <3>4, <3>5
  <2> QED
    BY <2>1, <2>2, <2>3
<1>4. ASSUME NEW x \in S
      PROVE  /\ x.candidate \in C /\ x = ScoredOf(x.candidate, store)
             /\ x.blockers = Assess(x.candidate, store)
             /\ x.score = Score(x.candidate, x.blockers) /\ x.score \in Int
  <2>1. PICK c \in C : x = ScoredOf(c, store)
    BY <1>2
  <2>2. /\ x.candidate = c /\ x.blockers = Assess(c, store)
        /\ x.score = Score(c, Assess(c, store)) /\ x.score \in Int
    BY <2>1, <1>3
  <2> QED
    BY <2>1, <2>2
<1>5. ASSUME NEW c \in C
      PROVE  ScoredOf(c, store) \in S /\ ScoredOf(c, store).candidate = c
  BY <1>2, <1>3
<1>6. IsFiniteSet(S) /\ Cardinality(S) = Cardinality(C)
  <2>1. PICK f : f = [c \in C |-> ScoredOf(c, store)]
    OBVIOUS
  <2>2. f \in [C -> S] /\ \A c \in C : f[c] = ScoredOf(c, store)
    BY <2>1, <1>5
  <2>3. \A c, d \in C : f[c] = f[d] => c = d
    BY <2>2, <1>5
  <2>4. \A x \in S : \E c \in C : f[c] = x
    BY <2>2, <1>4
  <2>5. f \in Bijection(C, S)
    BY <2>2, <2>3, <2>4 DEF Bijection, Injection, IsInjective, Surjection
  <2>6. ExistsBijection(C, S)
    BY <2>5 DEF ExistsBijection
  <2> QED
    BY <2>6, FS_Bijection DEF IsBacklog
<1>7. ASSUME NEW x \in S, NEW y \in S, x.candidate.id = y.candidate.id
      PROVE  x = y
  <2>1. x.candidate \in C /\ y.candidate \in C
    BY <1>4
  <2>2. x.candidate = y.candidate
    BY <2>1, <1>7 DEF IsBacklog
  <2> QED
    BY <2>2, <1>4
<1>8. IsScored(S)
  <2>1. \A x \in S : x.score \in Int /\ x.candidate.id \in Int
    BY <1>4 DEF IsBacklog
  <2> QED
    BY <2>1, <1>6, <1>7 DEF IsScored
<1> QED
  BY <1>1, <1>4, <1>5, <1>6, <1>8

\* The entries E can be saved, keep every candidate of C, and admit the best ranked free one of each
\* contract.
IsQueueOf(E, C, store) ==
  /\ QueueAccepted(E)
  /\ {e.id : e \in Range(E)} = {c.id : c \in C}
  /\ \A c \in C : Assess(c, store) = {} =>
       \E e \in Range(E) : /\ e.status = "queued" /\ e.execution = c.spec.execution
                           /\ e.score >= Score(c, {})

\* The entries made for a backlog do so.
LEMMA QueueOfBacklog ==
  ASSUME NEW C, IsBacklog(C), NEW store, NEW E, E = EntriesOf(Ordered(Scored(C, store)))
  PROVE  IsQueueOf(E, C, store)
<1>1. PICK S, n, order : S = Scored(C, store) /\ n = Cardinality(S) /\ order = Ordered(S)
  OBVIOUS
<1>2. /\ IsScored(S) /\ n = Cardinality(C) /\ n \in Nat
      /\ \A x \in S : /\ x.candidate \in C /\ x.blockers = Assess(x.candidate, store)
                      /\ x.score = Score(x.candidate, x.blockers)
      /\ \A c \in C : \E x \in S : x.candidate = c
  BY <1>1, ScoredIsScored, FS_CardinalityType DEF IsBacklog
<1>3. /\ order \in [1 .. n -> S] /\ Len(order) = n
      /\ \A x \in S : \E i \in 1 .. n : order[i] = x
      /\ \A i, j \in 1 .. n : i < j => Precedes(order[i], order[j]) /\ order[i] # order[j]
  <2>1. IsScored(S) /\ n \in Nat /\ n = Cardinality(S) /\ order = Ordered(S)
    BY <1>1, <1>2
  <2> HIDE <1>1, <1>2
  <2> QED
    BY <2>1, OrderIsComplete
<1>4. EntriesFit(E, order, n)
  BY <1>1, <1>2, <1>3, EntriesAreMade
<1>5. E = [i \in 1 .. n |-> E[i]]
  BY <1>4 DEF EntriesFit
<1>6. DOMAIN E = 1 .. n /\ Len(E) = n
  BY <1>2, <1>5
<1>7. PICK R : R = Range(E)
  OBVIOUS
<1>8. \A e : e \in R <=> \E i \in 1 .. n : e = E[i]
  BY <1>6, <1>7 DEF Range
<1>9. ASSUME NEW i \in 1 .. n
      PROVE  Enters(E[i], order[i], {E[j] : j \in 1 .. i - 1})
  BY <1>4 DEF EntriesFit
<1>10. ASSUME NEW i \in 1 .. n
       PROVE  /\ order[i] \in S /\ order[i].candidate \in C
              /\ order[i].blockers = Assess(order[i].candidate, store)
              /\ E[i].id = order[i].candidate.id /\ E[i].blockers = order[i].blockers
              /\ E[i].execution = Execution(order[i].candidate) /\ E[i].score = order[i].score
              /\ E[i].id # Unspecified
  <2>1. order[i] \in S /\ order[i].candidate \in C
    BY <1>2, <1>3
  <2> QED
    BY <2>1, <1>2, <1>9 DEF Enters, IsBacklog
<1>11. ASSUME NEW i \in 1 .. n, NEW j \in 1 .. n, E[i].id = E[j].id
       PROVE  i = j
  <2>1. order[i] = order[j]
    BY <1>10, <1>11, <1>2 DEF IsScored
  <2>2. ~(i < j) /\ ~(j < i)
    BY <2>1, <1>3
  <2> QED
    BY <2>2
\* The entries before the i-th that stand for an execution.
<1>12. ASSUME NEW i \in 1 .. n, NEW execution
       PROVE  \A k : k \in Retained({E[j] : j \in 1 .. i - 1}, execution)
                       <=> \E j \in 1 .. i - 1 : /\ k = E[j] /\ E[j].execution = execution
                                                 /\ E[j].status = "queued"
  BY DEF Retained
<1>13. ASSUME NEW i \in 1 .. n
       PROVE  /\ E[i].blockers # {} => E[i].status = "blocked" /\ E[i].duplicate = Unspecified
              /\ E[i].blockers = {} =>
                   \/ /\ E[i].status = "queued" /\ E[i].duplicate = Unspecified
                      /\ ~\E j \in 1 .. i - 1 : /\ E[j].execution = E[i].execution
                                                /\ E[j].status = "queued"
                   \/ /\ E[i].status = "duplicate"
                      /\ \E j \in 1 .. i - 1 : /\ E[j].execution = E[i].execution
                                               /\ E[j].status = "queued"
                                               /\ E[i].duplicate = E[j].id
  <2>1. PICK x, execution, before, retained :
          /\ x = order[i] /\ execution = E[i].execution
          /\ before = {E[j] : j \in 1 .. i - 1} /\ retained = Retained(before, execution)
    OBVIOUS
  <2>2. \A k : k \in retained <=> \E j \in 1 .. i - 1 : /\ k = E[j] /\ E[j].execution = execution
                                                        /\ E[j].status = "queued"
    BY <2>1, <1>12
  <2>3. Enters(E[i], x, before) /\ x.blockers = E[i].blockers
    BY <2>1, <1>9, <1>10
  <2>4. /\ E[i].blockers # {} => E[i].status = "blocked" /\ E[i].duplicate = Unspecified
        /\ E[i].blockers = {} /\ retained = {} =>
             E[i].status = "queued" /\ E[i].duplicate = Unspecified
        /\ E[i].blockers = {} /\ retained # {} =>
             E[i].status = "duplicate" /\ \E k \in retained : E[i].duplicate = k.id
    BY <2>1, <2>3 DEF Enters
  <2>5. CASE E[i].blockers # {}
    BY <2>4, <2>5
  <2>6. CASE E[i].blockers = {} /\ retained = {}
    BY <2>1, <2>2, <2>4, <2>6
  <2>7. CASE E[i].blockers = {} /\ retained # {}
    <3>1. PICK k \in retained : E[i].duplicate = k.id
      BY <2>4, <2>7
    <3>2. PICK j \in 1 .. i - 1 : k = E[j] /\ E[j].execution = execution /\ E[j].status = "queued"
      BY <2>2
    <3> QED
      BY <3>1, <3>2, <2>1, <2>4, <2>7
  <2> QED
    BY <2>5, <2>6, <2>7
<1>14. ASSUME NEW i \in 1 .. n
       PROVE  \A j \in 1 .. i - 1 : j \in 1 .. n /\ j < i
  BY <1>2
\* One entry is queued for an execution.
<1>15. ASSUME NEW i \in 1 .. n, NEW j \in 1 .. n, E[i].status = "queued", E[j].status = "queued",
              E[i].execution = E[j].execution
       PROVE  i = j
  <2>1. ASSUME NEW a \in 1 .. n, NEW b \in 1 .. n, a < b, E[a].status = "queued",
               E[b].status = "queued", E[a].execution = E[b].execution
        PROVE  FALSE
    <3>1. a \in 1 .. b - 1
      BY <2>1, <1>2
    <3>2. E[b].blockers = {}
      BY <2>1, <1>13
    <3> QED
      BY <3>1, <3>2, <2>1, <1>13
  <2> QED
    BY <2>1, <1>15, <1>2
<1>16. {e.id : e \in R} = {c.id : c \in C}
  <2>1. ASSUME NEW e \in R
        PROVE  \E c \in C : e.id = c.id
    BY <1>8, <1>10
  <2>2. ASSUME NEW c \in C
        PROVE  \E e \in R : e.id = c.id
    <3>1. PICK x \in S : x.candidate = c
      BY <1>2
    <3>2. PICK i \in 1 .. n : order[i] = x
      BY <1>3
    <3>3. E[i] \in R /\ E[i].id = c.id
      BY <3>1, <3>2, <1>8, <1>10
    <3> QED
      BY <3>3
  <2> QED
    BY <2>1, <2>2
<1>17. Cardinality({e.id : e \in R}) = Len(E)
  <2>1. PICK I : I = {e.id : e \in R}
    OBVIOUS
  <2>2. PICK f : f = [i \in 1 .. n |-> E[i].id]
    OBVIOUS
  <2>3. ASSUME NEW i \in 1 .. n
        PROVE  f[i] \in I /\ f[i] = E[i].id
    BY <2>1, <2>2, <1>8
  <2>4. \A z \in I : \E i \in 1 .. n : f[i] = z
    BY <2>1, <2>3, <1>8
  <2>5. f \in [1 .. n -> I] /\ \A i, j \in 1 .. n : f[i] = f[j] => i = j
    BY <2>2, <2>3, <1>11
  <2>6. f \in Bijection(1 .. n, I)
    BY <2>4, <2>5 DEF Bijection, Injection, IsInjective, Surjection
  <2>7. ExistsBijection(1 .. n, I)
    BY <2>6 DEF ExistsBijection
  <2>8. IsFiniteSet(1 .. n) /\ Cardinality(1 .. n) = n
    BY <1>2, FS_Interval
  <2>9. Cardinality(I) = n
    BY <2>7, <2>8, FS_Bijection
  <2> QED
    BY <2>1, <2>9, <1>6
<1>18. PICK queued : queued = {e \in R : e.status = "queued"}
  OBVIOUS
<1>19. Cardinality({e.execution : e \in queued}) = Cardinality(queued)
  <2>1. PICK X : X = {e.execution : e \in queued}
    OBVIOUS
  <2>2. PICK f : f = [e \in queued |-> e.execution]
    OBVIOUS
  <2>3. ASSUME NEW d \in queued, NEW e \in queued, d.execution = e.execution
        PROVE  d = e
    <3>1. PICK i \in 1 .. n, j \in 1 .. n : d = E[i] /\ e = E[j]
      BY <1>8, <1>18
    <3>2. E[i].status = "queued" /\ E[j].status = "queued"
      BY <3>1, <1>18
    <3> QED
      BY <3>1, <3>2, <2>3, <1>15
  <2>4. f \in [queued -> X] /\ \A e \in queued : f[e] = e.execution
    BY <2>1, <2>2
  <2>5. \A x \in X : \E e \in queued : f[e] = x
    BY <2>1, <2>4
  <2>6. f \in Bijection(queued, X)
    BY <2>3, <2>4, <2>5 DEF Bijection, Injection, IsInjective, Surjection
  <2>7. ExistsBijection(queued, X)
    BY <2>6 DEF ExistsBijection
  <2>8. IsFiniteSet(R)
    <3>1. PICK g : g = [i \in 1 .. n |-> E[i]]
      OBVIOUS
    <3>2. g \in [1 .. n -> R] /\ \A i \in 1 .. n : g[i] = E[i]
      BY <3>1, <1>8
    <3>3. \A e \in R : \E i \in 1 .. n : g[i] = e
      BY <3>2, <1>8
    <3>4. g \in Surjection(1 .. n, R)
      BY <3>2, <3>3 DEF Surjection
    <3>5. IsFiniteSet(1 .. n)
      BY <1>2, FS_Interval
    <3> QED
      BY <3>4, <3>5, FS_Surjection
  <2>9. IsFiniteSet(queued)
    BY <2>8, <1>18, FS_Subset
  <2> QED
    BY <2>1, <2>7, <2>9, FS_Bijection
<1>20. ASSUME NEW i \in 1 .. n, E[i].blockers = {}
       PROVE  E[i].execution # Unspecified /\ E[i].execution = order[i].candidate.spec.execution
  <2>1. PICK c \in C : c = order[i].candidate /\ Assess(c, store) = {}
    BY <1>10, <1>20
  <2>2. c.spec # Unspecified
    BY <2>1 DEF Assess
  <2>3. c.spec.execution # Unspecified
    BY <2>1, <2>2 DEF IsBacklog
  <2> QED
    BY <2>1, <2>2, <2>3, <1>10 DEF Execution
<1>21. ASSUME NEW e \in R
       PROVE  /\ (e.status = "blocked") = (e.blockers # {})
              /\ (e.status = "duplicate") = (e.duplicate # Unspecified)
              /\ e.status # "blocked" => e.execution # Unspecified
              /\ e.duplicate # Unspecified =>
                   \E k \in queued : k.id = e.duplicate /\ k.execution = e.execution
  <2>1. PICK i \in 1 .. n : e = E[i]
    BY <1>8
  <2>2. CASE e.blockers # {}
    <3>1. e.status = "blocked" /\ e.duplicate = Unspecified
      BY <2>1, <2>2, <1>13
    <3> QED
      BY <3>1, <2>2
  <2>3. CASE e.blockers = {} /\ e.status = "queued"
    <3>1. e.duplicate = Unspecified /\ e.execution # Unspecified
      BY <2>1, <2>3, <1>13, <1>20
    <3> QED
      BY <3>1, <2>3
  <2>4. CASE e.blockers = {} /\ e.status = "duplicate"
    <3>1. PICK j \in 1 .. i - 1 : /\ E[j].execution = e.execution /\ E[j].status = "queued"
                                  /\ e.duplicate = E[j].id
      BY <2>1, <2>4, <1>13
    <3>2. j \in 1 .. n
      BY <1>14
    <3>3. E[j] \in queued /\ E[j].id # Unspecified
      BY <3>1, <3>2, <1>8, <1>10, <1>18
    <3>4. e.execution # Unspecified
      BY <2>1, <2>4, <1>20
    <3> QED
      BY <3>1, <3>3, <3>4, <2>4
  <2>5. e.blockers = {} => e.status = "queued" \/ e.status = "duplicate"
    BY <2>1, <1>13
  <2> QED
    BY <2>2, <2>3, <2>4, <2>5
<1>22. QueueAccepted(E)
  BY <1>7, <1>17, <1>18, <1>19, <1>21 DEF QueueAccepted
<1>23. ASSUME NEW c \in C, Assess(c, store) = {}
       PROVE  \E e \in R : /\ e.status = "queued" /\ e.execution = c.spec.execution
                           /\ e.score >= Score(c, {})
  <2>1. PICK x \in S : x.candidate = c
    BY <1>2
  <2>2. PICK i \in 1 .. n : order[i] = x
    BY <1>3
  <2>3. x.blockers = {} /\ x.score = Score(c, {}) /\ x.score \in Int
    BY <2>1, <1>2, <1>23 DEF IsScored
  <2>4. E[i].blockers = {} /\ E[i].score = x.score /\ E[i].execution = c.spec.execution
    BY <2>1, <2>2, <2>3, <1>10, <1>20
  <2>5. CASE E[i].status = "queued"
    BY <2>3, <2>4, <2>5, <1>8
  <2>6. CASE E[i].status # "queued"
    <3>1. PICK j \in 1 .. i - 1 : E[j].execution = E[i].execution /\ E[j].status = "queued"
      BY <2>4, <2>6, <1>13
    <3>2. j \in 1 .. n /\ j < i
      BY <1>14
    <3>3. Precedes(order[j], x) /\ order[j] \in S /\ E[j].score = order[j].score
      BY <3>2, <2>2, <1>3, <1>10
    <3>4. E[j].score >= x.score
      <4>1. PICK a, b : a = order[j].score /\ b = x.score
        OBVIOUS
      <4>2. a \in Int /\ b \in Int
        BY <4>1, <3>3, <1>2 DEF IsScored
      <4>3. a > b \/ a = b
        BY <4>1, <3>3 DEF Precedes
      <4> QED
        BY <4>1, <4>2, <4>3, <3>3
    <3> QED
      BY <3>1, <3>2, <3>4, <2>3, <2>4, <1>8
  <2> QED
    BY <2>5, <2>6
<1> QED
  BY <1>7, <1>16, <1>22, <1>23 DEF IsQueueOf

\* What holds of every queue: it is the queue of one of the backlogs.
QueueInv ==
  \/ ranked = Unspecified
  \/ /\ ranked.candidates \in Backlogs
     /\ queue = RankHypotheses(ranked.candidates, ranked.store)

LEMMA QueueInvHolds == QueueSpec => []QueueInv
<1>1. InitQueue => QueueInv
  BY DEF InitQueue, QueueInv
<1>2. QueueInv /\ [AskQueue]_<<ranked, queue>> => QueueInv'
  <2> SUFFICES ASSUME QueueInv, [AskQueue]_<<ranked, queue>>
               PROVE  QueueInv'
    OBVIOUS
  <2>1. CASE AskQueue
    <3>1. PICK candidates \in Backlogs, store \in Holdings :
            /\ ranked' = [candidates |-> candidates, store |-> store]
            /\ queue' = RankHypotheses(candidates, store)
      BY <2>1 DEF AskQueue
    <3>2. ranked'.candidates = candidates /\ ranked'.store = store
      BY <3>1
    <3> QED
      BY <3>1, <3>2 DEF QueueInv
  <2>2. CASE UNCHANGED <<ranked, queue>>
    BY <2>2 DEF QueueInv
  <2> QED
    BY <2>1, <2>2
<1> QED
  BY <1>1, <1>2, PTL DEF QueueSpec

\* Whatever the candidates and whatever the store holds of what they name, the queue that
\* rank_hypotheses of factors/hypotheses.py returns is one that coherent_inventory accepts, with an
\* entry for each candidate, and it admits every contract that has a candidate free of blockers
\* exactly once, by a candidate that ranks no lower than any other of that contract.
THEOREM QueueStaysRecordable == QueueSpec => []QueueIsRecordable
<1>1. QueueInv => QueueIsRecordable
  <2> SUFFICES ASSUME QueueInv, ranked # Unspecified, queue.failure = "none"
               PROVE  LET entries == Range(queue.entries) IN
                      /\ QueueAccepted(queue.entries)
                      /\ {e.id : e \in entries} = {c.id : c \in ranked.candidates}
                      /\ \A c \in ranked.candidates :
                           Assess(c, ranked.store) = {} =>
                             \E e \in entries :
                               /\ e.status = "queued" /\ e.execution = c.spec.execution
                               /\ e.score >= Score(c, {})
    BY DEF QueueIsRecordable
  <2>1. PICK C, store, E : C = ranked.candidates /\ store = ranked.store /\ E = queue.entries
    OBVIOUS
  <2>2. C \in Backlogs /\ queue = RankHypotheses(C, store)
    BY <2>1 DEF QueueInv
  <2>3. /\ ~\E c, d \in C : c # d /\ c.id = d.id
        /\ E = EntriesOf(Ordered(Scored(C, store)))
    <3>1. PICK order : order = Ordered(Scored(C, store))
      OBVIOUS
    <3>2. PICK made : made = EntriesOf(order)
      OBVIOUS
    <3>3. CASE \/ Cardinality(C) \notin 1 .. MaxCandidates
               \/ \E c, d \in C : c # d /\ c.id = d.id
      <4>1. queue = [failure |-> "HYPOTHESIS_INVALID"]
        BY <2>2, <3>3 DEF RankHypotheses
      <4>2. queue.failure = "HYPOTHESIS_INVALID"
        BY <4>1
      <4> QED
        BY <4>2
    <3>4. CASE ~(\/ Cardinality(C) \notin 1 .. MaxCandidates
                 \/ \E c, d \in C : c # d /\ c.id = d.id)
      <4>1. queue = [failure |-> "none", entries |-> made]
        BY <2>2, <3>1, <3>2, <3>4 DEF RankHypotheses
      <4>2. E = made
        BY <4>1, <2>1
      <4> QED
        BY <4>2, <3>1, <3>2, <3>4
    <3> QED
      BY <3>3, <3>4
  <2>4. IsBacklog(C)
    BY <2>2, <2>3, QueueAssumption DEF IsBacklog
  <2>5. IsQueueOf(E, C, store)
    BY <2>3, <2>4, QueueOfBacklog
  <2> QED
    BY <2>1, <2>5 DEF IsQueueOf
<1> QED
  BY <1>1, QueueInvHolds, PTL

-----------------------------------------------------------------------------
(* The sleeves of an allocation.  A bucket is an interval of the order, so *)
(* that its size is known; the weights of one bucket share a denominator,  *)
(* the sum of its amounts, so that they add up to a unit.                  *)

\* A cross-section, and a rule of allocation (CrossSection, SignalValue and AllocationSpec).
IsPanel(panel) ==
  /\ IsFiniteSet(DOMAIN panel)
  /\ \A s \in DOMAIN panel :
       /\ s \in Int
       /\ panel[s].signal # Blank => panel[s].signal \in Int
       /\ panel[s].capitalization # Blank => panel[s].capitalization \in Nat \ {0}

IsRule(rule) ==
  /\ rule.buckets \in Nat /\ rule.buckets >= 2
  /\ rule.minimum \in Nat \ {0}
  /\ rule.valueWeighted \in BOOLEAN /\ rule.highLong \in BOOLEAN

\* The order names each eligible security once.
LEMMA RankedIsComplete ==
  ASSUME NEW panel, IsPanel(panel), NEW rule, IsRule(rule), NEW E, E = Eligible(panel, rule),
         NEW n \in Nat, n = Cardinality(E), NEW order, order = Ranked(panel, E)
  PROVE  /\ order = [i \in 1 .. n |-> order[i]] /\ order \in [1 .. n -> E] /\ Len(order) = n
         /\ \A x \in E : \E i \in 1 .. n : order[i] = x
         /\ \A i, j \in 1 .. n : i < j => order[i] # order[j]
<1>1. PICK R : R = {p \in E \X E : Below(panel, p[1], p[2])}
  OBVIOUS
<1>2. \A x, y \in E : <<x, y>> \in R <=> Below(panel, x, y)
  BY <1>1
<1>3. ASSUME NEW x \in E
      PROVE  x \in Int /\ panel[x].signal \in Int
  BY DEF Eligible, IsPanel
<1>4. IsOrder(E, R)
  <2>1. IsFiniteSet(E)
    BY FS_Subset DEF Eligible, IsPanel
  <2>2. ASSUME NEW x \in E, NEW y \in E, NEW z \in E
        PROVE  /\ <<x, x>> \notin R
               /\ <<x, y>> \in R /\ <<y, z>> \in R => <<x, z>> \in R
               /\ x # y => <<x, y>> \in R \/ <<y, x>> \in R
    <3>1. PICK a, b, c : a = panel[x].signal /\ b = panel[y].signal /\ c = panel[z].signal
      OBVIOUS
    <3>2. a \in Int /\ b \in Int /\ c \in Int /\ x \in Int /\ y \in Int /\ z \in Int
      BY <3>1, <1>3
    <3>3. /\ <<x, x>> \in R <=> (a < a \/ (a = a /\ x < x))
          /\ <<x, y>> \in R <=> (a < b \/ (a = b /\ x < y))
          /\ <<y, x>> \in R <=> (b < a \/ (b = a /\ y < x))
          /\ <<y, z>> \in R <=> (b < c \/ (b = c /\ y < z))
          /\ <<x, z>> \in R <=> (a < c \/ (a = c /\ x < z))
      BY <3>1, <1>2 DEF Below
    <3> HIDE <1>1
    <3> QED
      BY <3>2, <3>3
  <2>3. \A x \in E : <<x, x>> \notin R
    BY <2>2
  <2>4. \A x, y, z \in E : <<x, y>> \in R /\ <<y, z>> \in R => <<x, z>> \in R
    BY <2>2, Zenon
  <2>5. \A x, y \in E : x # y => <<x, y>> \in R \/ <<y, x>> \in R
    BY <2>2, Zenon
  <2> QED
    BY <2>1, <2>3, <2>4, <2>5 DEF IsOrder
<1>5. ASSUME NEW i \in 1 .. n
      PROVE  order[i] \in E /\ Cardinality(Preceding(E, R, order[i])) = i - 1
  <2>1. ASSUME NEW x \in E
        PROVE  Preceding(E, R, x) = {y \in E : Below(panel, y, x)}
    BY <1>2 DEF Preceding
  <2>2. \E x \in E : Cardinality(Preceding(E, R, x)) = i - 1
    BY <1>4, PlacesAreTaken
  <2>3. \E x \in E : Cardinality({y \in E : Below(panel, y, x)}) = i - 1
    BY <2>1, <2>2
  <2>4. order[i] = CHOOSE x \in E : Cardinality({y \in E : Below(panel, y, x)}) = i - 1
    BY DEF Ranked, RankedAt
  <2>5. order[i] \in E /\ Cardinality({y \in E : Below(panel, y, order[i])}) = i - 1
    BY <2>3, <2>4
  <2> QED
    BY <2>1, <2>5
<1>6. order = [i \in 1 .. n |-> order[i]]
  BY DEF Ranked
<1>7. order \in [1 .. n -> E]
  BY <1>5, <1>6
<1>8. /\ Len(order) = n
      /\ \A x \in E : \E i \in 1 .. n : order[i] = x
      /\ \A i, j \in 1 .. n : i < j => <<order[i], order[j]>> \in R /\ order[i] # order[j]
  <2>1. FillsPlaces(order, n, E, R)
    BY <1>5, <1>7 DEF FillsPlaces
  <2> QED
    BY <2>1, <1>4, OrderOfPlaces
<1> QED
  BY <1>6, <1>7, <1>8

\* The larger of two products has the larger factor.
LEMMA ProductsGrow ==
  ASSUME NEW a \in Int, NEW b \in Int, NEW d \in Nat, a <= b
  PROVE  a * d \in Int /\ b * d \in Int /\ a * d <= b * d
<1>1. PICK c : c = b - a
  OBVIOUS
<1>2. c \in Nat /\ b = a + c
  BY <1>1
<1>3. c * d \in Nat
  BY <1>2
<1>4. b * d = a * d + c * d
  BY <1>2
<1> QED
  BY <1>3, <1>4

\* A quotient is the number of whole divisors.
LEMMA QuotientIs ==
  ASSUME NEW k \in Nat, NEW d \in Nat \ {0}, NEW m \in Int
  PROVE  /\ k \div d \in Nat
         /\ k \div d = m <=> m * d <= k /\ k < (m + 1) * d
<1>1. PICK c : c = k \div d
  OBVIOUS
<1>2. c \in Nat /\ c * d <= k /\ k < (c + 1) * d
  BY <1>1
<1>3. ASSUME m * d <= k, k < (m + 1) * d
      PROVE  m = c
  <2>1. ~(m + 1 <= c)
    <3> SUFFICES ASSUME m + 1 <= c
                 PROVE  FALSE
      OBVIOUS
    <3>1. (m + 1) * d <= c * d /\ (m + 1) * d \in Int /\ c * d \in Int
      BY <1>2, ProductsGrow
    <3> QED
      BY <3>1, <1>2, <1>3
  <2>2. ~(c + 1 <= m)
    <3> SUFFICES ASSUME c + 1 <= m
                 PROVE  FALSE
      OBVIOUS
    <3>1. (c + 1) * d <= m * d /\ (c + 1) * d \in Int /\ m * d \in Int
      BY <1>2, ProductsGrow
    <3> QED
      BY <3>1, <1>2, <1>3
  <2> QED
    BY <2>1, <2>2, <1>2
<1> QED
  BY <1>1, <1>2, <1>3

\* The rank of the first row of bucket b.
FirstOf(b, q, r) == IF b <= r THEN b * (q + 1) ELSE r * (q + 1) + (b - r) * q

\* The first rows of the buckets follow each other, a bucket apart.
LEMMA FirstsGrow ==
  ASSUME NEW q \in Nat, NEW r \in Nat, NEW b \in Nat, NEW c \in Nat
  PROVE  /\ FirstOf(b, q, r) \in Nat
         /\ FirstOf(b + 1, q, r) = FirstOf(b, q, r) + q + (IF b < r THEN 1 ELSE 0)
         /\ b <= c => FirstOf(b, q, r) <= FirstOf(c, q, r)
<1>1. ASSUME NEW a \in Nat
      PROVE  /\ FirstOf(a, q, r) \in Nat
             /\ FirstOf(a, q, r) = a * q + (IF a <= r THEN a ELSE r)
  <2>1. CASE a <= r
    BY <2>1 DEF FirstOf
  <2>2. CASE ~(a <= r)
    <3>1. PICK e : e = a - r
      OBVIOUS
    <3>2. e \in Nat /\ a = r + e
      BY <3>1, <2>2
    <3>3. a * q = r * q + e * q
      BY <3>2
    <3>4. FirstOf(a, q, r) = r * (q + 1) + e * q
      BY <3>1, <2>2 DEF FirstOf
    <3>5. r * (q + 1) = r * q + r
      OBVIOUS
    <3>6. r * q \in Nat /\ e * q \in Nat
      BY <3>2
    <3> QED
      BY <3>3, <3>4, <3>5, <3>6, <2>2
  <2> QED
    BY <2>1, <2>2
<1>2. PICK f, g, h, x, y, z : /\ f = FirstOf(b, q, r) /\ g = FirstOf(b + 1, q, r) /\ h = FirstOf(c, q, r)
                              /\ x = b * q /\ y = (b + 1) * q /\ z = c * q
  OBVIOUS
<1>3. /\ f \in Nat /\ g \in Nat /\ h \in Nat
      /\ f = x + (IF b <= r THEN b ELSE r)
      /\ g = y + (IF b + 1 <= r THEN b + 1 ELSE r)
      /\ h = z + (IF c <= r THEN c ELSE r)
  BY <1>1, <1>2
<1>4. x \in Nat /\ y = x + q /\ z \in Nat
  BY <1>2
<1>5. g = f + q + (IF b < r THEN 1 ELSE 0)
  BY <1>3, <1>4
<1>6. b <= c => f <= h
  <2>1. b <= c => x <= z
    BY <1>2, ProductsGrow
  <2> QED
    BY <2>1, <1>3, <1>4
<1> QED
  BY <1>2, <1>3, <1>5, <1>6

\* A bucket holds the ranks from its first row to that of the next bucket.
LEMMA BucketIsInterval ==
  ASSUME NEW q \in Nat \ {0}, NEW r \in Nat, NEW k \in Nat, NEW b \in Nat
  PROVE  /\ BucketOf(k, q, r) \in Nat
         /\ BucketOf(k, q, r) = b <=> FirstOf(b, q, r) <= k /\ k < FirstOf(b + 1, q, r)
<1>1. PICK p, v : p = r * (q + 1) /\ v = BucketOf(k, q, r)
  OBVIOUS
<1>2. p \in Nat /\ q + 1 \in Nat \ {0}
  BY <1>1
<1>3. PICK f, g : f = FirstOf(b, q, r) /\ g = FirstOf(b + 1, q, r)
  OBVIOUS
<1>4. f \in Nat /\ g \in Nat
  BY <1>3, FirstsGrow
<1>5. CASE k < p
  <2>1. PICK c : c = k \div (q + 1)
    OBVIOUS
  <2>2. v = c
    BY <1>1, <1>5, <2>1 DEF BucketOf
  <2>3. c \in Nat /\ (c = b <=> b * (q + 1) <= k /\ k < (b + 1) * (q + 1))
    BY <1>2, <2>1, QuotientIs
  <2>4. c < r
    <3>1. c * (q + 1) <= k
      BY <1>2, <2>1, <2>3, QuotientIs
    <3>2. ~(r <= c)
      <4> SUFFICES ASSUME r <= c
                   PROVE  FALSE
        OBVIOUS
      <4>1. p <= c * (q + 1) /\ c * (q + 1) \in Int
        BY <1>1, <1>2, <2>3, ProductsGrow
      <4> QED
        BY <4>1, <3>1, <1>2, <1>5
    <3> QED
      BY <3>2, <2>3
  <2>5. CASE b < r
    <3>1. f = b * (q + 1) /\ g = (b + 1) * (q + 1)
      BY <1>3, <2>5 DEF FirstOf
    <3> QED
      BY <3>1, <1>1, <1>3, <2>2, <2>3
  <2>6. CASE ~(b < r)
    <3>1. FirstOf(r, q, r) = p /\ FirstOf(r, q, r) <= f
      BY <1>1, <1>3, <2>6, FirstsGrow DEF FirstOf
    <3>2. ~(f <= k)
      BY <3>1, <1>2, <1>4, <1>5
    <3> QED
      BY <3>2, <1>1, <1>3, <2>2, <2>3, <2>4, <2>6
  <2> QED
    BY <2>5, <2>6
<1>6. CASE ~(k < p)
  <2>1. PICK m, c : m = k - p /\ c = m \div q
    OBVIOUS
  <2>2. m \in Nat
    BY <2>1, <1>2, <1>6
  <2>3. v = r + c
    BY <1>1, <1>6, <2>1 DEF BucketOf
  <2>4. c \in Nat
    BY <2>1, <2>2, QuotientIs
  <2>5. CASE b < r
    <3>1. FirstOf(r, q, r) = p /\ g <= FirstOf(r, q, r)
      BY <1>1, <1>3, <2>5, FirstsGrow DEF FirstOf
    <3>2. ~(k < g)
      BY <3>1, <1>2, <1>4, <1>6
    <3> QED
      BY <3>2, <1>1, <1>3, <2>3, <2>4, <2>5
  <2>6. CASE ~(b < r)
    <3>1. PICK e : e = b - r
      OBVIOUS
    <3>2. e \in Nat /\ b = r + e
      BY <3>1, <2>6
    <3>3. PICK x, y : x = e * q /\ y = (e + 1) * q
      OBVIOUS
    <3>4. x \in Nat /\ y \in Nat
      BY <3>2, <3>3
    <3>5. f = p + x
      <4>1. CASE b = r
        <5>1. e = 0 /\ x = 0
          BY <4>1, <3>1, <3>3
        <5>2. f = p
          BY <4>1, <1>1, <1>3 DEF FirstOf
        <5> QED
          BY <5>1, <5>2, <1>2
      <4>2. CASE b # r
        BY <4>2, <2>6, <1>1, <1>3, <3>1, <3>3 DEF FirstOf
      <4> QED
        BY <4>1, <4>2
    <3>6. g = p + y
      <4>1. ~(b + 1 <= r) /\ (b + 1) - r = e + 1
        BY <3>1, <2>6
      <4> QED
        BY <4>1, <1>1, <1>3, <3>3 DEF FirstOf
    <3>7. c = e <=> x <= m /\ m < y
      BY <2>1, <2>2, <3>2, <3>3, QuotientIs
    <3>8. v = b <=> c = e
      BY <2>3, <2>4, <3>2
    <3>9. (f <= k <=> x <= m) /\ (k < g <=> m < y)
      BY <3>4, <3>5, <3>6, <2>1, <1>2
    <3> QED
      BY <3>7, <3>8, <3>9, <1>1, <1>3, <2>3, <2>4
  <2> QED
    BY <2>5, <2>6
<1> QED
  BY <1>5, <1>6

\* Buckets are in order, and hold a row more below the remainder.
LEMMA BucketsAreSized ==
  ASSUME NEW rule, IsRule(rule), NEW n \in Nat, NEW q \in Nat \ {0}, NEW r \in Nat,
         q = n \div rule.buckets, r = n % rule.buckets, NEW bucket, bucket = Buckets(n, rule)
  PROVE  /\ \A i \in 1 .. n : bucket[i] = BucketOf(i - 1, q, r) /\ bucket[i] \in 0 .. rule.buckets - 1
         /\ \A i, j \in 1 .. n : i < j => bucket[i] <= bucket[j]
         /\ \A b \in 0 .. rule.buckets - 1 :
              /\ IsFiniteSet({i \in 1 .. n : bucket[i] = b})
              /\ Cardinality({i \in 1 .. n : bucket[i] = b}) = q + (IF b < r THEN 1 ELSE 0)
<1>1. PICK k : k = rule.buckets
  OBVIOUS
<1>2. k \in Nat /\ k >= 2
  BY <1>1 DEF IsRule
<1>3. n = k * q + r /\ r < k
  BY <1>1, <1>2
<1>4. ASSUME NEW i \in 1 .. n
      PROVE  bucket[i] = BucketOf(i - 1, q, r)
  BY <1>4 DEF Buckets
<1>5. FirstOf(k, q, r) = n
  <2>1. PICK e : e = k - r
    OBVIOUS
  <2>2. e \in Nat /\ k = r + e /\ e # 0
    BY <2>1, <1>2, <1>3
  <2>3. FirstOf(k, q, r) = r * (q + 1) + e * q
    BY <2>1, <2>2, <1>2 DEF FirstOf
  <2>4. r * (q + 1) = r * q + r /\ k * q = r * q + e * q /\ r * q \in Nat /\ e * q \in Nat
    BY <2>2
  <2> QED
    BY <2>3, <2>4, <1>3
<1>6. ASSUME NEW i \in 1 .. n, NEW b \in Nat
      PROVE  /\ bucket[i] \in Nat
             /\ bucket[i] = b <=> FirstOf(b, q, r) < i /\ i <= FirstOf(b + 1, q, r)
  <2>1. PICK f, g : f = FirstOf(b, q, r) /\ g = FirstOf(b + 1, q, r)
    OBVIOUS
  <2>2. f \in Nat /\ g \in Nat
    BY <2>1, FirstsGrow
  <2>3. i - 1 \in Nat
    OBVIOUS
  <2>4. /\ BucketOf(i - 1, q, r) \in Nat
        /\ BucketOf(i - 1, q, r) = b <=> f <= i - 1 /\ i - 1 < g
    BY <2>1, <2>3, BucketIsInterval
  <2> QED
    BY <2>1, <2>2, <2>4, <1>4
<1>7. ASSUME NEW i \in 1 .. n
      PROVE  bucket[i] < k
  <2>1. PICK b : b = bucket[i]
    OBVIOUS
  <2>2. b \in Nat /\ FirstOf(b, q, r) < i
    BY <2>1, <1>6
  <2>3. ~(k <= b)
    <3> SUFFICES ASSUME k <= b
                 PROVE  FALSE
      OBVIOUS
    <3>1. n <= FirstOf(b, q, r) /\ FirstOf(b, q, r) \in Nat
      BY <2>2, <1>2, <1>5, FirstsGrow
    <3> QED
      BY <3>1, <2>2
  <2> QED
    BY <2>1, <2>2, <2>3, <1>2
<1>8. ASSUME NEW i \in 1 .. n, NEW j \in 1 .. n, i < j
      PROVE  bucket[i] <= bucket[j]
  <2>1. PICK b, c : b = bucket[i] /\ c = bucket[j]
    OBVIOUS
  <2>2. b \in Nat /\ c \in Nat /\ FirstOf(b, q, r) < i /\ j <= FirstOf(c + 1, q, r)
    BY <2>1, <1>6
  <2>3. ~(c + 1 <= b)
    <3> SUFFICES ASSUME c + 1 <= b
                 PROVE  FALSE
      OBVIOUS
    <3>1. /\ FirstOf(c + 1, q, r) <= FirstOf(b, q, r)
          /\ FirstOf(c + 1, q, r) \in Nat /\ FirstOf(b, q, r) \in Nat
      BY <2>2, FirstsGrow
    <3> QED
      BY <3>1, <2>2, <1>8
  <2> QED
    BY <2>1, <2>2, <2>3
<1>9. ASSUME NEW b \in 0 .. k - 1
      PROVE  /\ IsFiniteSet({i \in 1 .. n : bucket[i] = b})
             /\ Cardinality({i \in 1 .. n : bucket[i] = b}) = q + (IF b < r THEN 1 ELSE 0)
  <2>1. PICK f, g : f = FirstOf(b, q, r) /\ g = FirstOf(b + 1, q, r)
    OBVIOUS
  <2>2. b \in Nat /\ b + 1 \in Nat /\ b + 1 <= k
    BY <1>2
  <2>3. f \in Nat /\ g \in Nat /\ g = f + q + (IF b < r THEN 1 ELSE 0)
    BY <2>1, <2>2, FirstsGrow
  <2>4. g <= n
    BY <2>1, <2>2, <1>2, <1>5, FirstsGrow
  <2>5. {i \in 1 .. n : bucket[i] = b} = f + 1 .. g
    <3>1. \A i \in 1 .. n : bucket[i] = b <=> f < i /\ i <= g
      BY <2>1, <2>2, <1>6
    <3> QED
      BY <3>1, <2>3, <2>4
  <2>6. PICK a, holding : a = f + 1 /\ holding = a .. g
    OBVIOUS
  <2>7. a \in Int /\ g \in Int /\ a <= g /\ g - a + 1 = q + (IF b < r THEN 1 ELSE 0)
    <3>1. PICK more : more = IF b < r THEN 1 ELSE 0
      OBVIOUS
    <3>2. more \in Nat /\ q \in Nat /\ q >= 1
      BY <3>1
    <3> QED
      BY <3>1, <3>2, <2>3, <2>6
  <2>8. IsFiniteSet(holding) /\ Cardinality(holding) = IF a > g THEN 0 ELSE g - a + 1
    BY <2>6, <2>7, FS_Interval
  <2>9. Cardinality(holding) = g - a + 1
    BY <2>7, <2>8
  <2> QED
    BY <2>5, <2>6, <2>7, <2>8, <2>9
<1>10. \A i \in 1 .. n : bucket[i] \in 0 .. k - 1
  BY <1>2, <1>6, <1>7
<1> QED
  BY <1>1, <1>4, <1>8, <1>9, <1>10

\* A sum of ones counts them.
LEMMA SumCounts ==
  ASSUME NEW S, IsFiniteSet(S), NEW f, \A x \in S : f[x] = 1
  PROVE  SumFunctionOnSet(f, S) = Cardinality(S)
<1> DEFINE Good == {s \in SUBSET S : SumFunctionOnSet(f, s) = Cardinality(s)}
<1>1. {} \in Good
  BY SumEmpty, FS_EmptySet
<1>2. ASSUME NEW s \in Good, NEW x \in S \ s
      PROVE  s \cup {x} \in Good
  <2>1. IsFiniteSet(s) /\ x \notin s /\ \A y \in s \cup {x} : f[y] \in Int
    BY FS_Subset
  <2>2. f[x] = 1 /\ s \cup {x} \in SUBSET S
    OBVIOUS
  <2>3. SumFunctionOnSet(f, s \cup {x}) = SumFunctionOnSet(f, s) + f[x]
    <3> HIDE DEF Good
    <3> QED
      BY <2>1, SumAdd
  <2>4. Cardinality(s \cup {x}) = Cardinality(s) + 1
    BY <2>1, FS_AddElement
  <2> QED
    BY <2>2, <2>3, <2>4
<1>3. Good = SUBSET S
  <2>1. Good \in SUBSET (SUBSET S)
    OBVIOUS
  <2> HIDE DEF Good
  <2> QED
    BY <1>1, <1>2, <2>1, SubsetInduction
<1> QED
  BY <1>3

\* A term is no more than the sum of what is not negative.
LEMMA TermOfSum ==
  ASSUME NEW S, IsFiniteSet(S), NEW f, \A x \in S : f[x] \in Nat, NEW x \in S
  PROVE  SumFunctionOnSet(f, S) \in Nat /\ f[x] <= SumFunctionOnSet(f, S)
<1>1. ASSUME NEW s \in SUBSET S
      PROVE  SumFunctionOnSet(f, s) \in Nat
  <2>1. IsFiniteSet(s)
    BY FS_Subset
  <2>2. PICK h : h = [y \in s |-> 0]
    OBVIOUS
  <2>3. \A y \in s : h[y] = 0 /\ h[y] \in Int /\ f[y] \in Int /\ h[y] <= f[y]
    BY <2>2
  <2>4. SumFunctionOnSet(h, s) <= SumFunctionOnSet(f, s)
    BY <2>1, <2>3, SumMonotonic
  <2>5. SumFunctionOnSet(h, s) = SumFunctionOnSet(h, {})
    BY <2>1, <2>3, SumOfPart
  <2>6. SumFunctionOnSet(h, {}) = 0
    BY SumEmpty
  <2>7. SumFunctionOnSet(f, s) \in Int
    BY <2>1, <2>3, SumType
  <2> QED
    BY <2>4, <2>5, <2>6, <2>7
<1>2. PICK rest : rest = SumFunctionOnSet(f, S \ {x})
  OBVIOUS
<1>3. SumFunctionOnSet(f, S) = rest + f[x]
  BY <1>2, SumWithout
<1>4. rest \in Nat
  BY <1>1, <1>2
<1> QED
  BY <1>1, <1>3, <1>4

-----------------------------------------------------------------------------
(* The total of a bucket *)

IsTotalTable(g, positions, b, m) ==
  g = [n \in 0 .. m |-> IF n = 0 THEN <<0, 1>> ELSE AddWeight(g[n - 1], positions[n], b)]

LEMMA TotalIsOfTable ==
  ASSUME NEW positions, NEW b
  PROVE  SleeveTotal(positions, b)
           = (CHOOSE g : IsTotalTable(g, positions, b, Len(positions)))[Len(positions)]
  BY DEF SleeveTotal, IsTotalTable

LEMMA TotalTableExists ==
  ASSUME NEW positions, NEW b, NEW m \in Nat
  PROVE  \E g : IsTotalTable(g, positions, b, m)
<1> DEFINE Good == {n \in Nat : \E g : IsTotalTable(g, positions, b, n)}
<1>1. 0 \in Good
  <2>1. IsTotalTable([n \in 0 .. 0 |-> <<0, 1>>], positions, b, 0)
    BY DEF IsTotalTable
  <2> QED
    BY <2>1
<1>2. ASSUME NEW n \in Good
      PROVE  n + 1 \in Good
  <2>1. n \in Nat
    OBVIOUS
  <2>2. PICK g : IsTotalTable(g, positions, b, n)
    OBVIOUS
  <2>3. PICK last : last = AddWeight(g[n], positions[n + 1], b)
    OBVIOUS
  <2>4. PICK h : h = [k \in 0 .. n + 1 |-> IF k = n + 1 THEN last ELSE g[k]]
    OBVIOUS
  <2>5. \A k \in 0 .. n : g[k] = IF k = 0 THEN <<0, 1>> ELSE AddWeight(g[k - 1], positions[k], b)
    BY <2>2 DEF IsTotalTable
  <2>6. ASSUME NEW k \in 0 .. n + 1
        PROVE  h[k] = IF k = 0 THEN <<0, 1>> ELSE AddWeight(h[k - 1], positions[k], b)
    <3>1. CASE k = n + 1
      <4>1. n \in 0 .. n + 1 /\ n # n + 1 /\ n + 1 \in 0 .. n + 1 /\ n + 1 # 0
            /\ (n + 1) - 1 = n
        BY <2>1
      <4>2. h[n] = g[n] /\ h[n + 1] = last
        BY <4>1, <2>4
      <4> QED
        BY <4>1, <4>2, <3>1, <2>3
    <3>2. CASE k # n + 1
      <4>1. k \in 0 .. n /\ (k # 0 => k - 1 \in 0 .. n + 1 /\ k - 1 # n + 1)
        BY <3>2, <2>1
      <4>2. h[k] = g[k] /\ (k # 0 => h[k - 1] = g[k - 1])
        BY <4>1, <3>2, <2>4
      <4> QED
        BY <4>1, <4>2, <2>5
    <3> QED
      BY <3>1, <3>2
  <2>7. IsTotalTable(h, positions, b, n + 1)
    <3>1. h = [k \in 0 .. n + 1 |-> h[k]]
      BY <2>4
    <3> QED
      BY <3>1, <2>6 DEF IsTotalTable
  <2> QED
    BY <2>1, <2>7
<1>3. Good = Nat
  <2>1. Good \in SUBSET Nat
    OBVIOUS
  <2> HIDE DEF Good
  <2> QED
    BY <1>1, <1>2, <2>1, NatSetInduction
<1> QED
  BY <1>3

\* The rows of bucket b among the first k.
HeldTo(bucket, b, k) == {i \in 1 .. k : bucket[i] = b}

\* The i-th position stands for an amount in its bucket; those of b are parts of D, with sign s.
IsPart(position, amount, held, b, s, D) ==
  /\ position.bucket = held
  /\ amount \in Nat
  /\ held = b => position.weight = <<s * amount, D>>

\* Parts of the sum of their amounts total a unit.
LEMMA PartsTotalUnit ==
  ASSUME NEW positions, NEW n \in Nat, n = Len(positions), NEW b, NEW s \in Int,
         NEW D \in Nat \ {0}, NEW amounts, NEW bucket,
         \A i \in 1 .. n : IsPart(positions[i], amounts[i], bucket[i], b, s, D),
         D = SumFunctionOnSet(amounts, HeldTo(bucket, b, n))
  PROVE  Same(SleeveTotal(positions, b), <<s, 1>>)
<1>1. PICK g : IsTotalTable(g, positions, b, n) /\ SleeveTotal(positions, b) = g[n]
  <2>1. PICK g : g = CHOOSE h : IsTotalTable(h, positions, b, n)
    OBVIOUS
  <2>2. IsTotalTable(g, positions, b, n)
    BY <2>1, TotalTableExists
  <2> QED
    BY <2>1, <2>2, TotalIsOfTable
<1>2. \A k \in 0 .. n : g[k] = IF k = 0 THEN <<0, 1>> ELSE AddWeight(g[k - 1], positions[k], b)
  BY <1>1 DEF IsTotalTable
<1> DEFINE Reached(k) ==
             \E x \in Int, y \in Nat \ {0} :
               /\ g[k] = <<x, y>>
               /\ x * D = y * (s * SumFunctionOnSet(amounts, HeldTo(bucket, b, k)))
           Good == {k \in Nat : k <= n => Reached(k)}
<1>3. Reached(0)
  <2>1. g[0] = <<0, 1>>
    BY <1>2
  <2>2. HeldTo(bucket, b, 0) = {}
    BY DEF HeldTo
  <2>3. SumFunctionOnSet(amounts, HeldTo(bucket, b, 0)) = 0
    BY <2>2, SumEmpty
  <2>4. 0 * D = 1 * (s * 0)
    OBVIOUS
  <2> QED
    BY <2>1, <2>3, <2>4
<1>4. ASSUME NEW k \in Nat, k + 1 <= n, Reached(k)
      PROVE  Reached(k + 1)
  <2>1. PICK x \in Int, y \in Nat \ {0} :
          /\ g[k] = <<x, y>>
          /\ x * D = y * (s * SumFunctionOnSet(amounts, HeldTo(bucket, b, k)))
    BY <1>4
  <2>2. PICK held, more, S, T, a :
          /\ held = HeldTo(bucket, b, k) /\ more = HeldTo(bucket, b, k + 1)
          /\ S = SumFunctionOnSet(amounts, held) /\ T = SumFunctionOnSet(amounts, more)
          /\ a = amounts[k + 1]
    OBVIOUS
  <2>3. k + 1 \in 1 .. n /\ k + 1 \in 0 .. n /\ k + 1 # 0 /\ (k + 1) - 1 = k
    BY <1>4
  <2>4. g[k + 1] = AddWeight(<<x, y>>, positions[k + 1], b)
    BY <2>1, <2>3, <1>2
  <2>5. IsPart(positions[k + 1], a, bucket[k + 1], b, s, D)
    BY <2>2, <2>3
  <2>6. IsFiniteSet(held) /\ held \in SUBSET (1 .. k) /\ k + 1 \notin held
    <3>1. IsFiniteSet(1 .. k)
      BY FS_Interval
    <3>2. held \in SUBSET (1 .. k)
      BY <2>2 DEF HeldTo
    <3>3. IsFiniteSet(held)
      BY <3>1, <3>2, FS_Subset
    <3>4. k + 1 \notin 1 .. k
      OBVIOUS
    <3> QED
      BY <3>2, <3>3, <3>4
  <2>7. \A i \in held \cup {k + 1} : amounts[i] \in Int
    <3>1. \A i \in held \cup {k + 1} : i \in 1 .. n
      BY <2>3, <2>6
    <3> QED
      BY <3>1 DEF IsPart
  <2>8. S \in Int
    BY <2>2, <2>6, <2>7, SumType
  <2>9. CASE bucket[k + 1] # b
    <3>1. more = held
      BY <2>2, <2>9 DEF HeldTo
    <3>2. g[k + 1] = <<x, y>>
      BY <2>4, <2>5, <2>9 DEF AddWeight, IsPart
    <3> QED
      BY <3>1, <3>2, <2>1, <2>2
  <2>10. CASE bucket[k + 1] = b
    <3>1. more = held \cup {k + 1}
      BY <2>2, <2>10 DEF HeldTo
    <3>2. T = S + a
      <4>1. PICK row : row = k + 1
        OBVIOUS
      <4>2. row \notin held /\ \A i \in held \cup {row} : amounts[i] \in Int
        BY <4>1, <2>6, <2>7
      <4>3. SumFunctionOnSet(amounts, held \cup {row})
              = SumFunctionOnSet(amounts, held) + amounts[row]
        BY <4>2, <2>6, SumAdd
      <4> QED
        BY <4>1, <4>3, <3>1, <2>2
    <3>3. PICK u, v : u = x * D + (s * a) * y /\ v = y * D
      OBVIOUS
    <3>4. a \in Nat /\ positions[k + 1].bucket = b /\ positions[k + 1].weight = <<s * a, D>>
      BY <2>5, <2>10 DEF IsPart
    <3>5. g[k + 1] = <<u, v>>
      BY <3>3, <3>4, <2>4 DEF AddWeight, Plus
    <3>6. u \in Int /\ v \in Nat \ {0}
      BY <3>3, <3>4
    <3>7. PICK z : z = s * T
      OBVIOUS
    <3>8. z \in Int /\ z = s * S + s * a
      BY <3>2, <3>4, <3>7, <2>8
    <3>9. u = y * z
      <4>1. PICK w, c : w = s * S /\ c = s * a
        OBVIOUS
      <4>2. w \in Int /\ c \in Int /\ z = w + c
        BY <4>1, <3>4, <3>8, <2>8
      <4>3. x * D = y * w
        BY <4>1, <2>1, <2>2
      <4>4. u = y * w + c * y
        BY <4>1, <4>3, <3>3
      <4>5. y * (w + c) = y * w + c * y
        BY <4>2
      <4> QED
        BY <4>2, <4>4, <4>5
    <3>10. u * D = v * z
      <4>1. (y * z) * D = (y * D) * z
        BY <3>8
      <4> QED
        BY <4>1, <3>3, <3>9
    <3> QED
      BY <3>5, <3>6, <3>7, <3>10, <2>2
  <2> QED
    BY <2>9, <2>10
<1>5. Good = Nat
  <2>1. 0 \in Good
    BY <1>3
  <2>2. ASSUME NEW k \in Good
        PROVE  k + 1 \in Good
    <3>1. k \in Nat /\ (k <= n => Reached(k))
      OBVIOUS
    <3> HIDE DEF Reached
    <3>2. k + 1 <= n => Reached(k + 1)
      BY <3>1, <1>4
    <3> QED
      BY <3>1, <3>2
  <2>3. Good \in SUBSET Nat
    OBVIOUS
  <2> HIDE DEF Good
  <2> QED
    BY <2>1, <2>2, <2>3, NatSetInduction
<1>6. Reached(n)
  <2> HIDE DEF Reached
  <2>1. n \in Good
    BY <1>5
  <2> QED
    BY <2>1
<1>7. PICK x \in Int, y \in Nat \ {0} : g[n] = <<x, y>> /\ x * D = y * (s * D)
  BY <1>6
<1>8. x = y * s
  <2>1. PICK z : z = y * s
    OBVIOUS
  <2>2. z \in Int /\ x * D = z * D
    BY <2>1, <1>7
  <2>3. ~(x + 1 <= z)
    <3> SUFFICES ASSUME x + 1 <= z
                 PROVE  FALSE
      OBVIOUS
    <3>1. (x + 1) * D <= z * D /\ (x + 1) * D = x * D + D
      BY <2>2, ProductsGrow
    <3> QED
      BY <3>1, <2>2
  <2>4. ~(z + 1 <= x)
    <3> SUFFICES ASSUME z + 1 <= x
                 PROVE  FALSE
      OBVIOUS
    <3>1. (z + 1) * D <= x * D /\ (z + 1) * D = z * D + D
      BY <2>2, ProductsGrow
    <3> QED
      BY <3>1, <2>2
  <2> QED
    BY <2>1, <2>2, <2>3, <2>4
<1> QED
  BY <1>1, <1>7, <1>8 DEF Same

-----------------------------------------------------------------------------

\* Every allocation that build_allocation returns is accepted by _validate_partition, whatever the
\* cross-section and the rule: each security once, buckets in the order and of the sizes the policy
\* expects, every weight of the sign of its bucket, equal ones equal, and both extreme sleeves of
\* exactly one unit.
THEOREM AllocationsAreAccepted ==
  ASSUME NEW panel, IsPanel(panel), NEW rule, IsRule(rule), NEW missing, NEW allocation,
         allocation = Allocate(panel, rule, missing), allocation.failure = "none"
  PROVE  AllocationAccepted(rule, allocation.positions, allocation.excluded)
<1>1. PICK E, n, order : E = Eligible(panel, rule) /\ n = Cardinality(E) /\ order = Ranked(panel, E)
  OBVIOUS
<1>2. E \in SUBSET DOMAIN panel /\ IsFiniteSet(E) /\ n \in Nat
  <2>1. E \in SUBSET DOMAIN panel
    BY <1>1 DEF Eligible
  <2>2. IsFiniteSet(E)
    BY <2>1, FS_Subset DEF IsPanel
  <2> QED
    BY <2>1, <2>2, <1>1, FS_CardinalityType
<1>3. /\ order = [i \in 1 .. n |-> order[i]] /\ order \in [1 .. n -> E] /\ Len(order) = n
      /\ \A x \in E : \E i \in 1 .. n : order[i] = x
      /\ \A i, j \in 1 .. n : i < j => order[i] # order[j]
  BY <1>1, <1>2, RankedIsComplete
<1>4. PICK amounts, bucket, q, r, P :
        /\ amounts = Amounts(panel, rule, order) /\ bucket = Buckets(n, rule)
        /\ q = n \div rule.buckets /\ r = n % rule.buckets
        /\ P = Positions(rule, order, amounts, bucket)
  OBVIOUS
<1>5. q >= rule.minimum /\ allocation.positions = P /\ allocation.excluded = DOMAIN panel \ E
  <2>1. q \in Int
    BY <1>2, <1>4 DEF IsRule
  <2>2. CASE (E # DOMAIN panel /\ missing = "fail") \/ q < rule.minimum
    <3>1. allocation = [failure |-> "ALLOCATION_INPUT_INVALID"]
      BY <2>2, <1>1, <1>4 DEF Allocate
    <3>2. allocation.failure = "ALLOCATION_INPUT_INVALID"
      BY <3>1
    <3> QED
      BY <3>2
  <2>3. CASE ~((E # DOMAIN panel /\ missing = "fail") \/ q < rule.minimum)
    <3>1. PICK excluded : excluded = DOMAIN panel \ E
      OBVIOUS
    <3>2. allocation = [failure |-> "none", positions |-> P, excluded |-> excluded]
      BY <2>3, <3>1, <1>1, <1>3, <1>4 DEF Allocate
    <3>3. allocation.positions = P /\ allocation.excluded = excluded
      BY <3>2
    <3> QED
      BY <2>1, <2>3, <3>1, <3>3 DEF IsRule
  <2> QED
    BY <2>2, <2>3
<1>6. q \in Nat \ {0} /\ r \in Nat
  BY <1>2, <1>4, <1>5 DEF IsRule
<1>7. /\ \A i \in 1 .. n : bucket[i] \in 0 .. rule.buckets - 1
      /\ \A i, j \in 1 .. n : i < j => bucket[i] <= bucket[j]
      /\ \A b \in 0 .. rule.buckets - 1 :
           /\ IsFiniteSet({i \in 1 .. n : bucket[i] = b})
           /\ Cardinality({i \in 1 .. n : bucket[i] = b}) = q + (IF b < r THEN 1 ELSE 0)
  BY <1>2, <1>4, <1>6, BucketsAreSized
<1>8. DOMAIN bucket = 1 .. n
  BY <1>4 DEF Buckets
<1>9. ASSUME NEW i \in 1 .. n
      PROVE  /\ order[i] \in E /\ amounts[i] \in Nat \ {0}
             /\ ~rule.valueWeighted => amounts[i] = 1
  <2>1. order[i] \in E
    BY <1>3
  <2>2. PICK s : s = order[i]
    OBVIOUS
  <2>3. amounts[i] = IF rule.valueWeighted THEN panel[s].capitalization ELSE 1
    BY <2>2, <1>3, <1>4 DEF Amounts
  <2>4. rule.valueWeighted => panel[s].capitalization \in Nat \ {0}
    BY <2>1, <2>2, <1>1 DEF Eligible, IsPanel
  <2> QED
    BY <2>1, <2>3, <2>4
<1>10. PICK D : D = [b \in 0 .. rule.buckets - 1 |-> SumFunctionOnSet(amounts, HeldTo(bucket, b, n))]
  OBVIOUS
<1>11. ASSUME NEW b \in 0 .. rule.buckets - 1
       PROVE  /\ SumOfBucket(amounts, bucket, b) = D[b]
              /\ D[b] = SumFunctionOnSet(amounts, HeldTo(bucket, b, n))
              /\ IsFiniteSet(HeldTo(bucket, b, n))
              /\ Cardinality(HeldTo(bucket, b, n)) = q + (IF b < r THEN 1 ELSE 0)
              /\ HeldTo(bucket, b, n) # {}
              /\ \A i \in HeldTo(bucket, b, n) : i \in 1 .. n /\ bucket[i] = b
  <2>1. PICK held : held = {i \in 1 .. n : bucket[i] = b}
    OBVIOUS
  <2>2. held = HeldTo(bucket, b, n)
    BY <2>1 DEF HeldTo
  <2>3. IsFiniteSet(held) /\ Cardinality(held) = q + (IF b < r THEN 1 ELSE 0)
    BY <2>1, <1>7
  <2>4. held # {}
    <3>1. Cardinality(held) # 0
      BY <2>3, <1>6
    <3> QED
      BY <3>1, FS_EmptySet
  <2>5. SumOfBucket(amounts, bucket, b) = SumFunctionOnSet(amounts, held)
    BY <2>1, <1>8 DEF SumOfBucket
  <2>6. \A i \in held : i \in 1 .. n /\ bucket[i] = b
    BY <2>1
  <2> QED
    BY <2>2, <2>3, <2>4, <2>5, <2>6, <1>10
<1>12. ASSUME NEW i \in 1 .. n, NEW b \in 0 .. rule.buckets - 1, bucket[i] = b
       PROVE  D[b] \in Nat \ {0} /\ amounts[i] <= D[b]
  <2>1. PICK held : held = HeldTo(bucket, b, n)
    OBVIOUS
  <2>2. i \in held
    BY <2>1, <1>12 DEF HeldTo
  <2>3. IsFiniteSet(held) /\ \A j \in held : amounts[j] \in Nat
    BY <2>1, <1>9, <1>11
  <2>4. SumFunctionOnSet(amounts, held) \in Nat /\ amounts[i] <= SumFunctionOnSet(amounts, held)
    BY <2>2, <2>3, TermOfSum
  <2> QED
    BY <2>1, <2>4, <1>9, <1>11
<1>13. ASSUME NEW i \in 1 .. n
       PROVE  /\ P[i].security = order[i] /\ P[i].bucket = bucket[i]
              /\ P[i].weight = <<Sign(rule, bucket[i]) * amounts[i], D[bucket[i]]>>
  <2>1. PICK a, b, w : /\ a = order[i] /\ b = bucket[i]
                       /\ w = <<Sign(rule, bucket[i]) * amounts[i], SumOfBucket(amounts, bucket, bucket[i])>>
    OBVIOUS
  <2>2. P[i] = [security |-> a, bucket |-> b, weight |-> w]
    BY <2>1, <1>3, <1>4 DEF Positions
  <2>3. SumOfBucket(amounts, bucket, bucket[i]) = D[bucket[i]]
    BY <1>7, <1>11
  <2> QED
    BY <2>1, <2>2, <2>3
<1>14. DOMAIN P = 1 .. n /\ Len(P) = n
  <2>1. P = [i \in 1 .. n |-> P[i]]
    BY <1>3, <1>4 DEF Positions
  <2> QED
    BY <2>1, <1>2
<1>15. ASSUME NEW b
       PROVE  Sign(rule, b) \in {-1, 0, 1}
  <2>1. PICK low, last : low = (IF rule.highLong THEN -1 ELSE 1) /\ last = rule.buckets - 1
    OBVIOUS
  <2>2. low \in {-1, 1}
    BY <2>1
  <2>3. Sign(rule, b) = CASE b = 0 -> low [] b = last -> -low [] OTHER -> 0
    BY <2>1 DEF Sign
  <2>4. last # 0
    BY <2>1 DEF IsRule
  <2>5. CASE b = 0
    BY <2>2, <2>3, <2>4, <2>5
  <2>6. CASE b = last
    BY <2>2, <2>3, <2>4, <2>6
  <2>7. CASE b # 0 /\ b # last
    BY <2>3, <2>7
  <2> QED
    BY <2>5, <2>6, <2>7
<1>16. PICK ids : ids = {P[i].security : i \in DOMAIN P}
  OBVIOUS
<1>17. Cardinality(ids) = Len(P) /\ ids \cap (DOMAIN panel \ E) = {}
  <2>1. \A x : x \in ids <=> \E i \in 1 .. n : x = order[i]
    BY <1>13, <1>14, <1>16
  <2>2. ids = E
    <3>1. \A i \in 1 .. n : order[i] \in E
      BY <1>3
    <3>2. \A x \in E : \E i \in 1 .. n : order[i] = x
      BY <1>3
    <3> QED
      BY <3>1, <3>2, <2>1
  <2> QED
    BY <2>2, <1>1, <1>14
<1>18. \A i, j \in DOMAIN P : i < j => P[i].bucket <= P[j].bucket
  BY <1>7, <1>13, <1>14
<1>19. ASSUME NEW b \in 0 .. rule.buckets - 1
       PROVE  Cardinality({i \in DOMAIN P : P[i].bucket = b}) = q + (IF b < r THEN 1 ELSE 0)
  <2>1. {i \in DOMAIN P : P[i].bucket = b} = HeldTo(bucket, b, n)
    BY <1>13, <1>14 DEF HeldTo
  <2> QED
    BY <2>1, <1>11
<1>20. ASSUME NEW i \in 1 .. n, NEW sign, sign = Sign(rule, P[i].bucket), NEW weight, weight = P[i].weight
       PROVE  /\ IF sign = 0 THEN weight[1] = 0
                 ELSE 0 < sign * weight[1] /\ sign * weight[1] <= weight[2]
              /\ ~rule.valueWeighted =>
                   Same(weight, <<sign, q + (IF P[i].bucket < r THEN 1 ELSE 0)>>)
  <2>1. PICK b, a, d : b = bucket[i] /\ a = amounts[i] /\ d = D[b]
    OBVIOUS
  <2>2. /\ b \in 0 .. rule.buckets - 1 /\ a \in Nat \ {0} /\ d \in Nat \ {0} /\ a <= d
        /\ sign \in {-1, 0, 1} /\ P[i].bucket = b /\ weight = <<sign * a, d>>
    BY <2>1, <1>7, <1>9, <1>12, <1>13, <1>15, <1>20
  <2>3. weight[1] = sign * a /\ weight[2] = d
    BY <2>2
  <2>4. IF sign = 0 THEN weight[1] = 0
        ELSE 0 < sign * weight[1] /\ sign * weight[1] <= weight[2]
    <3>1. CASE sign = 0
      BY <3>1, <2>2, <2>3
    <3>2. CASE sign = 1
      BY <3>2, <2>2, <2>3
    <3>3. CASE sign = -1
      BY <3>3, <2>2, <2>3
    <3> QED
      BY <3>1, <3>2, <3>3, <2>2
  <2>5. ASSUME ~rule.valueWeighted
        PROVE  Same(weight, <<sign, q + (IF P[i].bucket < r THEN 1 ELSE 0)>>)
    <3>1. PICK held, size : held = HeldTo(bucket, b, n) /\ size = q + (IF b < r THEN 1 ELSE 0)
      OBVIOUS
    <3>2. IsFiniteSet(held) /\ \A j \in held : amounts[j] = 1
      BY <3>1, <2>2, <2>5, <1>9, <1>11
    <3>3. d = size
      <4>1. SumFunctionOnSet(amounts, held) = Cardinality(held)
        BY <3>2, SumCounts
      <4> QED
        BY <4>1, <3>1, <2>1, <2>2, <1>11
    <3>4. a = 1
      BY <2>1, <2>5, <1>9
    <3> QED
      BY <3>1, <3>3, <3>4, <2>2 DEF Same
  <2> QED
    BY <2>4, <2>5
<1>21. ASSUME NEW b \in {0, rule.buckets - 1}
       PROVE  Same(SleeveTotal(P, b), <<Sign(rule, b), 1>>)
  <2>1. b \in 0 .. rule.buckets - 1
    BY DEF IsRule
  <2>2. PICK s, d : s = Sign(rule, b) /\ d = D[b]
    OBVIOUS
  <2>3. d \in Nat \ {0} /\ s \in Int
    <3>1. PICK i \in 1 .. n : bucket[i] = b
      BY <2>1, <1>11
    <3> QED
      BY <3>1, <2>1, <2>2, <1>12, <1>15
  <2>4. \A i \in 1 .. n : IsPart(P[i], amounts[i], bucket[i], b, s, d)
    BY <2>2, <1>9, <1>13 DEF IsPart
  <2>5. d = SumFunctionOnSet(amounts, HeldTo(bucket, b, n))
    BY <2>1, <2>2, <1>11
  <2>6. Same(SleeveTotal(P, b), <<s, 1>>)
    BY <2>3, <2>4, <2>5, <1>2, <1>14, PartsTotalUnit
  <2> QED
    BY <2>2, <2>6
<1> QED
  BY <1>4, <1>5, <1>14, <1>16, <1>17, <1>18, <1>19, <1>20, <1>21 DEF AllocationAccepted
=============================================================================
