---------------------------- MODULE ModelProvider ----------------------------
(***************************************************************************)
(* One attempt at a local model (providers/ollama.py): the installed model *)
(* is looked up, the version is read, the model generates, and the         *)
(* installed model is looked up again, each over one bounded stream whose  *)
(* received prefix is archived.  Meanwhile models are replaced, answers    *)
(* are slow, long, broken or missing, and the time of the attempt ends.    *)
(***************************************************************************)
EXTENDS Integers, Sequences

CONSTANTS
  Models,           \* digests that the requested name can be installed with
  Unset,            \* none: no digest, no attempt, no result
  AttemptTime,      \* an attempt may take this long (180 s)
  ReadTime,         \* no read waits longer (read_seconds)
  MaxResponse,      \* MAX_RESPONSE_BYTES, in chunks
  MaxModelTime      \* bound: ticks of the monotonic clock

ASSUME ProviderAssumption ==
  /\ Unset \notin Models
  /\ {AttemptTime, ReadTime, MaxModelTime} \subseteq Nat
  /\ MaxResponse \in Nat \ {0}

VARIABLES
  elapsed,
  installed,   \* what the requested name stands for now, if it is installed
  generation,  \* the attempt under way
  delivery     \* the record of the attempt, once there is one

providerVars == <<elapsed, installed, generation, delivery>>

Captures == <<"inventory", "version", "response", "inventory_after">>

\* _Captures: the answers asked for, those read to their end, and what is archived of each.
NoEvidence == [asked |-> {}, complete |-> {}, archived |-> {}]

NotCalled == [pc |-> "idle"]

InitProvider ==
  /\ elapsed = 0
  /\ installed \in Models
  /\ generation = NotCalled
  /\ delivery = Unset

Earlier(s, t) == IF s < t THEN s ELSE t

\* generate() and _request_payload(): a request over the limits of its profile is refused and
\* leaves nothing.  The deadline of the operation can be nearer than that of the attempt, or past.
Generate ==
  /\ generation = NotCalled /\ delivery = Unset
  /\ \E operation \in {0, 1, AttemptTime + 1} :
       generation' = [pc |-> "open", step |-> 1, evidence |-> NoEvidence, digest |-> Unset,
                   reason |-> Unset, received |-> 0, heard |-> {}, body |-> Unset, wait |-> 0,
                   until |-> 0, deadline |-> Earlier(elapsed + AttemptTime, elapsed + operation)]
  /\ UNCHANGED <<elapsed, installed, delivery>>

Name(a) == Captures[a.step]

\* The record of the attempt, whatever came of it.
Delivered(a, status) ==
  /\ delivery' = [status |-> status, digest |-> a.digest, evidence |-> a.evidence,
                heard |-> a.heard, ended |-> elapsed, deadline |-> a.deadline]
  /\ generation' = NotCalled

\* The slip of archiving complete answers only.
ArchivedIfComplete(a, complete) ==
  [asked    |-> a.evidence.asked \cup {Name(a)},
   complete |-> a.evidence.complete \cup (IF complete THEN {Name(a)} ELSE {}),
   archived |-> a.evidence.archived \cup (IF complete THEN {<<Name(a), a.body>>} ELSE {})]

\* The end of a capture, on every path: what was received is archived, if only a prefix.
Archived(a, complete) ==
  [asked    |-> a.evidence.asked \cup {Name(a)},
   complete |-> a.evidence.complete \cup (IF complete THEN {Name(a)} ELSE {}),
   archived |-> a.evidence.archived
                \cup (IF a.received > 0 \/ complete THEN {<<Name(a), a.body>>} ELSE {})]

CaptureFails(a, complete, status) ==
  Delivered([a EXCEPT !.evidence = Archived(a, complete)], status)

\* A request is sent only while there is time; its reads wait no longer than what is left now.
OpenStream ==
  /\ generation.pc = "open"
  /\ LET fresh == [generation EXCEPT !.received = 0, !.body = installed]
         wait == Earlier(ReadTime, generation.deadline - elapsed)
     IN \/ CaptureFails(fresh, FALSE, "unavailable")   \* no time, or no connection
        \/ /\ elapsed < generation.deadline
           /\ generation' = [fresh EXCEPT !.pc = "reading", !.wait = wait, !.until = elapsed + wait]
           /\ UNCHANGED delivery
  /\ UNCHANGED <<elapsed, installed>>

\* A chunk of any size, of which only what there is room for is kept.
ReadChunk ==
  /\ generation.pc = "reading"
  /\ \E size \in 1 .. 2 :
       LET kept == Earlier(size, MaxResponse - generation.received)
           a == [generation EXCEPT !.received = @ + kept, !.heard = @ \cup {Name(generation)},
                                !.until = elapsed + generation.wait]
       IN \/ /\ size > kept
             /\ CaptureFails(a, FALSE, "malformed")
          \/ /\ size = kept /\ elapsed >= a.deadline
             /\ CaptureFails(a, FALSE, "unavailable")
          \/ /\ size = kept /\ elapsed < a.deadline
             /\ generation' = a
             /\ UNCHANGED delivery
  /\ UNCHANGED <<elapsed, installed>>

\* The transport fails, or a read has waited its time.
BreakStream ==
  /\ generation.pc = "reading"
  /\ CaptureFails(generation, FALSE, "unavailable")
  /\ UNCHANGED <<elapsed, installed>>

\* The slip of looking the model up once only.
DigestAtFirst(a) == IF a.step = 1 THEN a.body # Unset ELSE TRUE

\* _digest(): the name is installed, and what it stood for at first.
DigestHolds(a) == a.body # Unset /\ a.digest \in {Unset, a.body}

\* What an answer that can be read says of the attempt; the last one concludes it.
Understood(a) ==
  LET next == [a EXCEPT !.pc = "open", !.step = @ + 1] IN
  \/ /\ a.step = 1 /\ DigestHolds(a)
     /\ generation' = [next EXCEPT !.digest = a.body] /\ UNCHANGED delivery
  \/ /\ a.step = 2
     /\ generation' = next /\ UNCHANGED delivery
  \/ /\ a.step = 3
     /\ \E reason \in {"stop", "length"} : generation' = [next EXCEPT !.reason = reason]
     /\ UNCHANGED delivery
  \/ /\ a.step = 4 /\ DigestHolds(a)
     /\ Delivered(a, IF a.reason = "stop" THEN "success" ELSE "truncated")
  \/ /\ a.step \in {1, 4} /\ ~DigestHolds(a)
     /\ Delivered(a, IF a.body = Unset THEN "unavailable" ELSE "malformed")

\* The end of a stream.  Any answer may turn out to be malformed: of another encoding or shape, not
\* JSON, ambiguous, too deep; or its status is not 200.
EndStream ==
  /\ generation.pc = "reading"
  /\ LET a == [generation EXCEPT !.evidence = Archived(generation, TRUE)] IN
     \/ Delivered(a, "unavailable")
     \/ /\ elapsed < a.deadline
        /\ Delivered(a, "malformed") \/ Understood(a)
  /\ UNCHANGED <<elapsed, installed>>

\* The artifact store refuses the evidence: the caller gets an exception and no record.
LoseAttempt ==
  /\ generation # NotCalled
  /\ generation' = NotCalled
  /\ UNCHANGED <<elapsed, installed, delivery>>

\* External: another model takes the name, or it is removed.
Reinstall ==
  /\ generation # NotCalled
  /\ installed' \in (Models \cup {Unset}) \ {installed}
  /\ UNCHANGED <<elapsed, generation, delivery>>

TickModel ==
  /\ elapsed < MaxModelTime
  /\ generation # NotCalled
  /\ generation.pc = "reading" => elapsed < generation.until
  /\ elapsed' = elapsed + 1
  /\ UNCHANGED <<installed, generation, delivery>>

NextProvider ==
  \/ Generate \/ OpenStream \/ ReadChunk \/ BreakStream \/ EndStream \/ LoseAttempt
  \/ Reinstall \/ TickModel

-----------------------------------------------------------------------------

\* The record of an attempt explains its result.  Whatever was received is archived, cut off or not;
\* an answer is delivered only in time, from four complete captures, by the model whose digest both
\* lookups of the inventory show, however models were replaced in between
\* (providers/ollama.py:243-292, 326-432).
RecordExplainsResult ==
  delivery # Unset =>
    LET e == delivery.evidence
        Showed(name) == {c[2] : c \in {x \in e.archived : x[1] = name}}
    IN /\ delivery.heard \subseteq {c[1] : c \in e.archived}
       /\ delivery.status \in {"success", "truncated"} =>
            /\ e.complete = {Captures[i] : i \in 1 .. 4}
            /\ Showed("inventory") = {delivery.digest} /\ Showed("inventory_after") = {delivery.digest}
            /\ delivery.ended < delivery.deadline
=============================================================================
