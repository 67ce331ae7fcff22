--------------------------- MODULE MonthlyAdmission ---------------------------
(***************************************************************************)
(* Admission of the sources of a monthly strategy                          *)
(* (backtests/admission.py): manifests and their rights first, then a      *)
(* preflight of everything they refer to, then one read of each artifact,  *)
(* from which the typed sources are taken.  The result names what was read *)
(* in which order.  A reference is <<digest, size>>; the store holds bytes *)
(* by digest, that of a manifest as the record it says.                    *)
(***************************************************************************)
EXTENDS Integers, Sequences, FiniteSets, FiniteSetsExt, SequencesExt

CONSTANTS
  NotThere,      \* what the store gives for bytes it does not have, or not unaltered
  MaxBytes       \* of all artifacts of an admission (64 MiB)

\* Artifacts that the specification itself names: manifests, tables, calendar, declarations.
SpecArtifacts(spec) ==
  {d.manifest : d \in spec.datasets} \cup {t.artifact : t \in spec.tables}
  \cup {spec.calendar} \cup spec.declarations

TablesOf(spec, version) == {t \in spec.tables : t.version = version}

\* The failure of one dataset link, given the bytes of its manifest.
ManifestFailure(spec, link, manifest, at) ==
  LET declared == TablesOf(spec, link.version) IN
  IF manifest = NotThere THEN "MONTHLY_SOURCE_UNAVAILABLE"
  ELSE IF manifest.version # link.version THEN "MONTHLY_MANIFEST_IDENTITY"
  ELSE IF ~("local_research" \in manifest.uses /\ at < manifest.expires)
  THEN "MONTHLY_DATA_USE_DENIED"
  ELSE IF \/ manifest.kind # spec.kind \/ manifest.retrieved > at
          \/ manifest.from > spec.needed \/ manifest.through < spec.sampleEnd
  THEN "MONTHLY_MANIFEST_POLICY"
  ELSE IF {o.name : o \in manifest.objects} # {t.name : t \in declared}
  THEN "MONTHLY_MANIFEST_CLOSURE"
  ELSE IF \E o \in manifest.objects, t \in declared :
            o.name = t.name /\ (o.schema # t.schema \/ o.artifact # t.artifact)
  THEN "MONTHLY_TABLE_IDENTITY"
  ELSE "none"

Refused(code, reads) == [failure |-> code, reads |-> reads, receipt |-> NotThere]

\* A sequence up to the first of the bad positions.
UpToFirst(s, bad) == IF bad = {} THEN s ELSE SubSeq(s, 1, Min(bad))

\* _manifests(): the links in the order of their versions, up to the first that fails.
Manifests(spec, store, at) ==
  LET Bytes(link) == store[link.manifest[1]]
      Failure(link) == ManifestFailure(spec, link, Bytes(link), at)
      ordered == SetToSortSeq(spec.datasets, LAMBDA x, y : x.version < y.version)
      links == UpToFirst(ordered, {i \in DOMAIN ordered : Failure(ordered[i]) # "none"})
  IN [failure |-> Failure(Last(links)),
      reads |-> [i \in DOMAIN links |-> links[i].manifest],
      manifests |-> {Bytes(links[i]) : i \in DOMAIN links}]

\* The slip of relying on the references of the specification alone.
SpecInventory(spec, manifests) == SpecArtifacts(spec)

\* The provenance of observed data counts as well, once its rights are known.
Inventory(spec, manifests) ==
  SpecArtifacts(spec) \cup UNION {m.derivations : m \in manifests}

\* Whatever is not read yet, in the order of the digests, until something is not there.
Others(spec, store, inventory) ==
  LET left == inventory \ {d.manifest : d \in spec.datasets}
      ordered == SetToSortSeq(left, LAMBDA x, y : x[1] < y[1])
  IN UpToFirst(ordered, {i \in DOMAIN ordered : store[ordered[i][1]] = NotThere})

\* The failure after the manifests: the preflight, the bytes and the typed sources.
SourceFailure(spec, store, manifests, inventory) ==
  IF \E x, y \in inventory : x[1] = y[1] /\ x # y THEN "MONTHLY_EVIDENCE_CONFLICT"
  ELSE IF MapThenSumSet(LAMBDA r : r[2], inventory) > MaxBytes THEN "MONTHLY_EVIDENCE_LIMIT"
  ELSE IF \E ref \in inventory : store[ref[1]] = NotThere THEN "MONTHLY_SOURCE_UNAVAILABLE"
  ELSE IF store[spec.calendar[1]].name # spec.calendarName THEN "MONTHLY_CALENDAR_IDENTITY"
  ELSE IF \E m \in manifests : \E o \in m.objects : store[o.artifact[1]].rows # o.rows
  THEN "MONTHLY_SOURCE_ROW_COUNT"
  ELSE "none"

\* The preflight reads nothing.
Admitted(spec, store, at, checked, inventory, failure) ==
  IF failure \in {"MONTHLY_EVIDENCE_CONFLICT", "MONTHLY_EVIDENCE_LIMIT"}
  THEN Refused(failure, checked.reads)
  ELSE [failure |-> failure, reads |-> checked.reads \o Others(spec, store, inventory),
        receipt |-> IF failure # "none" THEN NotThere
                    ELSE [refs |-> inventory, manifests |-> {d.manifest : d \in spec.datasets},
                          calendar |-> spec.calendar,
                          roles |-> {t.artifact : t \in spec.tables}, at |-> at]]

\* admit_monthly().
Admit(spec, store, at) ==
  LET checked == Manifests(spec, store, at)
      inventory == Inventory(spec, checked.manifests)
  IN IF checked.failure # "none" THEN Refused(checked.failure, checked.reads)
     ELSE Admitted(spec, store, at, checked, inventory,
                   SourceFailure(spec, store, checked.manifests, inventory))

\* AdmissionReceipt.closed_inventory().
ReceiptAccepted(receipt) ==
  /\ receipt.manifests \subseteq receipt.refs
  /\ receipt.calendar \in receipt.refs
  /\ receipt.roles \subseteq receipt.refs
=============================================================================
