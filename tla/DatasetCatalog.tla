---------------------------- MODULE DatasetCatalog ----------------------------
(***************************************************************************)
(* The catalog of dataset versions (data/catalog.py): publication verifies *)
(* every referenced object before one transaction inserts the metadata,    *)
(* reads verify them again; retention may end, objects may be damaged and  *)
(* the saved metadata may be altered meanwhile.                            *)
(***************************************************************************)
EXTENDS Integers, FiniteSets

CONSTANTS
  Versions,     \* version identity -> [uses, expires, objects]; identities are digests
  DataObjects,  \* artifacts the versions refer to
  Absent,       \* no call, no row
  Clients,      \* calls under way at the same time
  Principals,   \* principal -> its permissions
  MaxInstant, MaxCalls   \* bounds: ticks and calls begun

ASSUME CatalogAssumption ==
  /\ Absent \notin DOMAIN Versions
  /\ \A v \in DOMAIN Versions : Versions[v].objects \subseteq DataObjects
  /\ {MaxInstant, MaxCalls} \subseteq Nat

VARIABLES
  instant,
  rows,      \* <<owner, version>> -> the row: its manifest (a version), shared
  intact,    \* objects whose bytes can be verified
  client,    \* the call of each client
  callsMade  \* calls begun

catalogVars == <<instant, rows, intact, client, callsMade>>

NoCall == [pc |-> "idle"]

InitCatalog ==
  /\ instant = 0
  /\ rows = [k \in {} |-> Absent]
  /\ intact = DataObjects
  /\ client = [c \in Clients |-> NoCall]
  /\ callsMade = 0

\* UsageRights.permits().
Permits(version, use) ==
  use \in Versions[version].uses /\ instant < Versions[version].expires

ClientAt(c, pc) == client[c].pc = pc

Ends(c, outcome) ==
  client' = [client EXCEPT ![c] = [@ EXCEPT !.pc = "ended", !.outcome = outcome]]

Begins(c, kind, principal, version, use, shared) ==
  /\ callsMade < MaxCalls /\ callsMade' = callsMade + 1
  /\ client' = [client EXCEPT ![c] =
    [pc |-> "verifying", kind |-> kind, principal |-> principal, version |-> version, use |-> use,
     shared |-> shared, left |-> Versions[version].objects, outcome |-> Absent]]

\* The rights are checked before any object is read.
BeginPublish(c, principal, version, shared) ==
  LET use == IF shared THEN "public_demo" ELSE "local_research" IN
  /\ ClientAt(c, "idle")
  /\ "ingest_dataset" \in Principals[principal]
  /\ shared => "publish_dataset" \in Principals[principal]
  /\ Permits(version, use)
  /\ Begins(c, "publish", principal, version, use, shared)
  /\ UNCHANGED <<instant, rows, intact>>

\* The rows of a version that a principal may read: its own or shared ones.
Readable(principal, version) ==
  {k \in DOMAIN rows : k[2] = version /\ (k[1] = principal \/ rows[k].shared)}

\* get() takes one of them; metadata of another identity is corrupt.
BeginGet(c, principal, version, use) ==
  /\ ClientAt(c, "idle")
  /\ "read_dataset" \in Principals[principal]
  /\ \E k \in Readable(principal, version) :
       /\ rows[k].manifest = version
       /\ Permits(version, use)
       /\ Begins(c, "get", principal, version, use, rows[k].shared)
  /\ UNCHANGED <<instant, rows, intact>>

\* The objects are read one after the other, each against its reference.
VerifyObject(c) ==
  /\ ClientAt(c, "verifying")
  /\ \E o \in client[c].left :
       IF o \in intact THEN client' = [client EXCEPT ![c].left = @ \ {o}]
                       ELSE Ends(c, "unverified")
  /\ UNCHANGED <<instant, rows, intact, callsMade>>

\* The slip of relying on the check before the objects were read.
StillPermittedAtFirst(c) == TRUE

\* require_use() once more, after the work on the objects.
StillPermitted(c) == Permits(client[c].version, client[c].use)

Return(c) ==
  /\ ClientAt(c, "verifying") /\ client[c].kind = "get" /\ client[c].left = {}
  /\ Ends(c, IF StillPermitted(c) THEN "returned" ELSE "denied")
  /\ UNCHANGED <<instant, rows, intact, callsMade>>

\* Insert or leave; the row that is there has to be the same; the rights are checked within the
\* transaction, and a failure takes the insertion back.
CommitPublish(c) ==
  LET call == client[c]
      key == <<call.principal, call.version>>
      row == [manifest |-> call.version, shared |-> call.shared]
  IN /\ ClientAt(c, "verifying") /\ call.kind = "publish" /\ call.left = {}
     /\ IF key \in DOMAIN rows /\ rows[key] # row
        THEN Ends(c, "conflict") /\ UNCHANGED rows
        ELSE IF ~StillPermitted(c) THEN Ends(c, "denied") /\ UNCHANGED rows
        ELSE /\ rows' = [k \in DOMAIN rows \cup {key} |-> IF k = key THEN row ELSE rows[k]]
             /\ Ends(c, "published")
     /\ UNCHANGED <<instant, intact, callsMade>>

\* The session is dropped, before the commit or after it, or the process stops.
Disconnect(c) ==
  /\ ClientAt(c, "verifying")
  /\ Ends(c, "unknown")
  /\ UNCHANGED <<instant, rows, intact, callsMade>>

\* The caller has its answer.
Forget(c) ==
  /\ ClientAt(c, "ended")
  /\ client' = [client EXCEPT ![c] = NoCall]
  /\ UNCHANGED <<instant, rows, intact, callsMade>>

DamageObject(o) ==
  /\ intact = DataObjects   \* bound: one object
  /\ intact' = intact \ {o}
  /\ UNCHANGED <<instant, rows, client, callsMade>>

\* Saved metadata that another version stands in.
AlterRow(k, version) ==
  /\ \A l \in DOMAIN rows : rows[l].manifest = l[2]   \* bound: one alteration
  /\ version # k[2]
  /\ rows' = [rows EXCEPT ![k].manifest = version]
  /\ UNCHANGED <<instant, intact, client, callsMade>>

PassInstant ==
  /\ instant < MaxInstant
  /\ instant' = instant + 1
  /\ \A c \in Clients : ~ClientAt(c, "ended")
  /\ UNCHANGED <<rows, intact, client, callsMade>>

NextCatalog ==
  \/ \E c \in Clients :
       \/ VerifyObject(c) \/ Return(c) \/ CommitPublish(c) \/ Disconnect(c) \/ Forget(c)
       \/ \E principal \in DOMAIN Principals, version \in DOMAIN Versions :
            \/ \E shared \in BOOLEAN : BeginPublish(c, principal, version, shared)
            \/ \E use \in {"local_research", "public_demo"} : BeginGet(c, principal, version, use)
  \/ \E o \in DataObjects : DamageObject(o)
  \/ \E k \in DOMAIN rows, version \in DOMAIN Versions : AlterRow(k, version)
  \/ PassInstant

-----------------------------------------------------------------------------

\* However long the objects took to verify, a dataset is handed out or published only while its
\* rights permit the use, and what is shared was published by somebody who may publish; no version
\* is both shared and unshared of one owner, and somebody who is not the owner never gets a version
\* that no row shares (data/catalog.py:46-125).
CatalogIsGuarded ==
  /\ \A c \in Clients :
       ClientAt(c, "ended") /\ client[c].outcome \in {"returned", "published"} =>
         /\ Permits(client[c].version, client[c].use)
         /\ \/ <<client[c].principal, client[c].version>> \in DOMAIN rows
            \/ \E k \in DOMAIN rows : k[2] = client[c].version /\ rows[k].shared
  /\ \A k \in DOMAIN rows :
       /\ "ingest_dataset" \in Principals[k[1]]
       /\ rows[k].shared => /\ "publish_dataset" \in Principals[k[1]]
                            /\ "public_demo" \in Versions[k[2]].uses
=============================================================================
