--------------------------- MODULE ArtifactStore ----------------------------
(***************************************************************************)
(* The two artifact stores under concurrent writers: files that are        *)
(* staged, flushed and hard-linked under their digest (data/artifacts.py), *)
(* and conditional creations in S3 with retries (data/s3_artifacts.py).    *)
(* A digest stands for its content, so that two writers of one digest      *)
(* write the same bytes.  Every put ends with a verified read.             *)
(***************************************************************************)
EXTENDS Integers, FiniteSets

CONSTANTS
  Writers,       \* threads and processes that call put()
  Digests,
  MaxAttempts,   \* max_attempts of the S3 adapter
  MaxPuts        \* bound: puts that are begun

ASSUME StoreAssumption == MaxAttempts \in 1 .. 3 /\ MaxPuts \in Nat

VARIABLES
  medium,    \* "local" or "s3"
  objects,   \* the content under each name: "absent", "whole" or "corrupt"
  synced,    \* local names that are on disk
  writer,    \* each writer: program counter, digest, attempts, whether the name is its work
  requests,  \* creations on their way to S3: the writer, its digest and its attempt
  promised,  \* digests returned to a writer that was told of their creation
  puts

storeVars == <<medium, objects, synced, writer, requests, promised, puts>>

Waiting == [pc |-> "idle", digest |-> "none", attempt |-> 0, created |-> FALSE]

InitStore ==
  /\ medium \in {"local", "s3"}
  /\ objects = [d \in Digests |-> "absent"]
  /\ synced = {}
  /\ writer = [w \in Writers |-> Waiting]
  /\ requests = {}
  /\ promised = {}
  /\ puts = 0

WriterAt(w, pc) == writer[w].pc = pc

WriterGo(w, pc) == writer' = [writer EXCEPT ![w].pc = pc]

\* A name takes its content only while it is free.
Created(d) == IF objects[d] = "absent" THEN [objects EXCEPT ![d] = "whole"] ELSE objects

\* The slip of taking a name that is there for the content it should have.
VerifiedByName(d) == objects[d] # "absent"

\* verify_bytes() on what is read back.
Verified(d) == objects[d] = "whole"

\* get() with the reference just published, after which put() returns or raises.
ReadBack(w) ==
  LET d == writer[w].digest IN
  /\ WriterAt(w, "linked")
  /\ promised' = IF Verified(d) /\ writer[w].created THEN promised \cup {d} ELSE promised
  /\ writer' = [writer EXCEPT ![w] = Waiting]
  /\ UNCHANGED <<medium, objects, synced, requests, puts>>

\* An I/O error, a lost response or the last refused attempt: the caller is told nothing else.
GiveUpPut(w) ==
  /\ writer[w].pc \in {"staged", "flushed", "named", "sent", "linked"}
  /\ writer' = [writer EXCEPT ![w] = Waiting]
  /\ UNCHANGED <<medium, objects, synced, requests, promised, puts>>

-----------------------------------------------------------------------------
(* Local files *)

\* A staging file of a fresh name is created.
StageFile(w, d) ==
  /\ medium = "local" /\ puts < MaxPuts
  /\ WriterAt(w, "idle")
  /\ writer' = [writer EXCEPT ![w] = [Waiting EXCEPT !.pc = "staged", !.digest = d]]
  /\ puts' = puts + 1
  /\ UNCHANGED <<medium, objects, synced, requests, promised>>

FlushFile(w) ==
  /\ WriterAt(w, "staged")
  /\ WriterGo(w, "flushed")
  /\ UNCHANGED <<medium, objects, synced, requests, promised, puts>>

\* The hard link: a writer that finds the name taken goes on to read what is there.
LinkFile(w) ==
  LET d == writer[w].digest IN
  /\ WriterAt(w, "flushed")
  /\ objects' = Created(d)
  /\ IF objects[d] = "absent" THEN WriterGo(w, "named") ELSE WriterGo(w, "linked")
  /\ UNCHANGED <<medium, synced, requests, promised, puts>>

\* Only the writer whose link succeeded flushes the directory.
SyncDirectory(w) ==
  /\ WriterAt(w, "named")
  /\ synced' = synced \cup {writer[w].digest}
  /\ writer' = [writer EXCEPT ![w].pc = "linked", ![w].created = TRUE]
  /\ UNCHANGED <<medium, objects, requests, promised, puts>>

-----------------------------------------------------------------------------
(* S3 *)

SendCreation(w, d) ==
  /\ medium = "s3" /\ puts < MaxPuts
  /\ WriterAt(w, "idle")
  /\ writer' = [writer EXCEPT ![w] = [pc |-> "sent", digest |-> d, attempt |-> 1,
                                      created |-> FALSE]]
  /\ requests' = requests \cup {[writer |-> w, digest |-> d, attempt |-> 1]}
  /\ puts' = puts + 1
  /\ UNCHANGED <<medium, objects, synced, promised>>

\* A transient status, or no answer in time: the request may still arrive.
RetryCreation(w) ==
  LET next == writer[w].attempt + 1 IN
  /\ WriterAt(w, "sent") /\ writer[w].attempt < MaxAttempts
  /\ writer' = [writer EXCEPT ![w].attempt = next]
  /\ requests' = requests \cup {[writer |-> w, digest |-> writer[w].digest, attempt |-> next]}
  /\ UNCHANGED <<medium, objects, synced, promised, puts>>

\* If-None-Match: the answer of the attempt that waits is the end of the loop, created or 412.
Arrive(request) ==
  LET w == request.writer
      awaited == WriterAt(w, "sent") /\ writer[w].digest = request.digest
                   /\ writer[w].attempt = request.attempt
  IN
  /\ requests' = requests \ {request}
  /\ \/ /\ objects' = Created(request.digest)
        /\ \/ awaited /\ writer' = [writer EXCEPT ![w].pc = "linked", ![w].created = TRUE]
           \/ UNCHANGED writer
     \/ UNCHANGED <<objects, writer>>
  /\ UNCHANGED <<medium, synced, promised, puts>>

-----------------------------------------------------------------------------

\* External: what is stored is damaged.
Damage(d) ==
  /\ objects[d] = "whole"
  /\ objects' = [objects EXCEPT ![d] = "corrupt"]
  /\ UNCHANGED <<medium, synced, writer, requests, promised, puts>>

\* External: the machine of a local store stops; names that are not on disk may be gone.
PowerLoss ==
  /\ medium = "local"
  /\ \E lost \in SUBSET (Digests \ synced) :
       objects' = [d \in Digests |-> IF d \in lost THEN "absent" ELSE objects[d]]
  /\ writer' = [w \in Writers |-> Waiting]
  /\ UNCHANGED <<medium, synced, requests, promised, puts>>

NextStore ==
  \/ \E w \in Writers, d \in Digests : StageFile(w, d) \/ SendCreation(w, d)
  \/ \E w \in Writers :
       FlushFile(w) \/ LinkFile(w) \/ SyncDirectory(w) \/ RetryCreation(w) \/ ReadBack(w)
         \/ GiveUpPut(w)
  \/ \E request \in requests : Arrive(request)
  \/ \E d \in Digests : Damage(d)
  \/ PowerLoss

-----------------------------------------------------------------------------

Objects == INSTANCE ObjectPromise

\* Whatever the interleaving of writers, failed writes, late and repeated S3 requests, damage
\* and power failures, both stores are a store of write-once objects: no name is written over,
\* and a digest that put() returned after its own link, or an answer of S3, stays where it is
\* (data/artifacts.py:249-267, data/s3_artifacts.py:88-142).
PutsKeepThePromise == Objects!Spec
=============================================================================
