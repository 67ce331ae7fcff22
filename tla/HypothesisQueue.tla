-------------------------- MODULE HypothesisQueue ---------------------------
(***************************************************************************)
(* The planning queue of factors/hypotheses.py: every candidate is         *)
(* assessed against the artifacts it names (_assess(), _manifest_checks()),*)
(* scored, and the executable ones are queued once per contract            *)
(* (rank_hypotheses()); QueueAccepted is what a saved queue must satisfy.  *)
(*                                                                         *)
(* A candidate is a record of its id, whether questions are open, its      *)
(* novelty and specificity, its sources and its spec (or Unspecified).  A  *)
(* spec has its execution identity, its datasets (version and manifest), tables *)
(* (version, name and artifact) and further references.  A reference is    *)
(* <<digest, size>>.  A store holds some references and knows what the     *)
(* manifests among them say.                                               *)
(***************************************************************************)
EXTENDS Integers, Sequences, FiniteSets, Functions, FiniteSetsExt

CONSTANTS
  Unspecified,         \* no specification, no retained duplicate, nothing ranked
  MaxVerifiedBytes,    \* MAX_VERIFIED_BYTES
  MaxCandidates,       \* of one queue
  Backlogs,            \* the sets of candidates that are ranked
  Holdings             \* the stores they are assessed against

ASSUME QueueAssumption ==
  \A candidates \in Backlogs :
    /\ IsFiniteSet(candidates)
    /\ \A c \in candidates :
         /\ c.id \in Int /\ c.novelty \in Int /\ c.specificity \in Int
         /\ c.id # Unspecified
         /\ c.spec # Unspecified => c.spec.execution # Unspecified

VARIABLES
  ranked,   \* the candidates and the store that were ranked last
  queue     \* what came of it

-----------------------------------------------------------------------------
(* _manifest_checks() *)

Manifest(store, link) == store.manifests[link.manifest]

\* A readable manifest that is the canonical one of its version.
Known(store, spec) ==
  {l \in spec.datasets : /\ l.manifest \in store.held
                         /\ l.manifest \in DOMAIN store.manifests
                         /\ Manifest(store, l).version = l.version}

ManifestBlockers(store, spec) ==
  LET known == Known(store, spec)
      unreadable == {l \in spec.datasets : \/ l.manifest \notin store.held
                                           \/ l.manifest \notin DOMAIN store.manifests}
      Misplaced(t) == \E l \in known :
        /\ l.version = t.version
        /\ <<t.name, t.artifact>> \notin Manifest(store, l).tables
  IN UNION {Manifest(store, l).flaws : l \in known}
     \cup (IF unreadable # {} THEN {"manifest_unavailable_or_invalid"} ELSE {})
     \cup (IF spec.datasets # known \cup unreadable THEN {"manifest_identity_mismatch"} ELSE {})
     \cup (IF \E t \in spec.tables : Misplaced(t) THEN {"table_identity_mismatch"} ELSE {})

-----------------------------------------------------------------------------
(* _assess() *)

References(candidate) ==
  candidate.sources \cup candidate.spec.references
  \cup {l.manifest : l \in candidate.spec.datasets}
  \cup {t.artifact : t \in candidate.spec.tables}

\* Of two sizes claimed for one digest the larger stands here for the one read last.
VerifiedBytes(references) ==
  MapThenSumSet(LAMBDA d : Max({r[2] : r \in {s \in references : s[1] = d}}),
                {r[1] : r \in references})

Preflight(candidate) ==
  LET references == References(candidate) IN
  (IF candidate.questions THEN {"unresolved_questions"} ELSE {})
  \cup (IF \E x, y \in references : x[1] = y[1] /\ x[2] # y[2]
        THEN {"artifact_identity_conflict"} ELSE {})
  \cup (IF VerifiedBytes(references) > MaxVerifiedBytes
        THEN {"artifact_verification_budget_exceeded"} ELSE {})

Assess(candidate, store) ==
  IF candidate.spec = Unspecified
  THEN {"missing_specification"}
       \cup (IF candidate.questions THEN {"unresolved_questions"} ELSE {})
  ELSE IF Preflight(candidate) # {} THEN Preflight(candidate)
  ELSE IF ManifestBlockers(store, candidate.spec) # {}
  THEN ManifestBlockers(store, candidate.spec)
  ELSE IF References(candidate) \subseteq store.held THEN {}
  ELSE {"artifact_unavailable_or_corrupt"}

-----------------------------------------------------------------------------
(* rank_hypotheses() *)

\* In tenths of the declared weights.
Score(candidate, blockers) ==
  4 * candidate.novelty + 3 * candidate.specificity + (IF blockers = {} THEN 3 ELSE 0)

Execution(candidate) ==
  IF candidate.spec = Unspecified THEN Unspecified ELSE candidate.spec.execution

Scored(candidates, store) ==
  {[candidate |-> c, blockers |-> Assess(c, store), score |-> Score(c, Assess(c, store))] :
     c \in candidates}

\* By descending score, ties by the id.
Precedes(x, y) == x.score > y.score \/ (x.score = y.score /\ x.candidate.id < y.candidate.id)

InPlace(scored, n) ==
  CHOOSE x \in scored : Cardinality({y \in scored : Precedes(y, x)}) = n - 1

Ordered(scored) == [n \in 1 .. Cardinality(scored) |-> InPlace(scored, n)]

\* The entry that already stands for an execution, in the entries made so far.
\* The slip: any earlier entry, admitted or not.
RetainedAny(entries, execution) == {e \in entries : e.execution = execution}

Retained(entries, execution) ==
  {e \in entries : e.execution = execution /\ e.status = "queued"}

AddEntry(entries, scored) ==
  LET execution == Execution(scored.candidate)
      retained == IF scored.blockers = {} THEN Retained(Range(entries), execution) ELSE {}
  IN Append(entries,
       [id |-> scored.candidate.id, execution |-> execution, blockers |-> scored.blockers,
        status |-> IF scored.blockers # {} THEN "blocked"
                   ELSE IF retained # {} THEN "duplicate" ELSE "queued",
        duplicate |-> IF retained = {} THEN Unspecified ELSE (CHOOSE e \in retained : TRUE).id,
        score |-> scored.score])

EntriesOf(order) ==
  LET entries[n \in 0 .. Len(order)] ==
        IF n = 0 THEN <<>> ELSE AddEntry(entries[n - 1], order[n])
  IN entries[Len(order)]

RankHypotheses(candidates, store) ==
  IF \/ Cardinality(candidates) \notin 1 .. MaxCandidates
     \/ \E c, d \in candidates : c # d /\ c.id = d.id
  THEN [failure |-> "HYPOTHESIS_INVALID"]
  ELSE [failure |-> "none", entries |-> EntriesOf(Ordered(Scored(candidates, store)))]

\* coherent_status() of every entry and coherent_inventory() of the queue.
QueueAccepted(entries) ==
  LET queued == {e \in Range(entries) : e.status = "queued"} IN
  /\ Cardinality({e.id : e \in Range(entries)}) = Len(entries)
  /\ Cardinality({e.execution : e \in queued}) = Cardinality(queued)
  /\ \A e \in Range(entries) :
       /\ (e.status = "blocked") = (e.blockers # {})
       /\ (e.status = "duplicate") = (e.duplicate # Unspecified)
       /\ e.status # "blocked" => e.execution # Unspecified
       /\ e.duplicate # Unspecified =>
            \E k \in queued : k.id = e.duplicate /\ k.execution = e.execution

-----------------------------------------------------------------------------

InitQueue == ranked = Unspecified /\ queue = Unspecified

AskQueue ==
  \E candidates \in Backlogs, store \in Holdings :
    /\ ranked' = [candidates |-> candidates, store |-> store]
    /\ queue' = RankHypotheses(candidates, store)

QueueSpec == InitQueue /\ [][AskQueue]_<<ranked, queue>>

\* A queue can be saved, keeps every candidate, and admits each contract that has a candidate free
\* of blockers exactly once, by the best ranked of them (rank_hypotheses, coherent_inventory).
QueueIsRecordable ==
  ranked # Unspecified /\ queue.failure = "none" =>
    LET entries == Range(queue.entries) IN
    /\ QueueAccepted(queue.entries)
    /\ {e.id : e \in entries} = {c.id : c \in ranked.candidates}
    /\ \A c \in ranked.candidates :
         Assess(c, ranked.store) = {} =>
           \E e \in entries :
             /\ e.status = "queued" /\ e.execution = c.spec.execution
             /\ e.score >= Score(c, {})
=============================================================================
