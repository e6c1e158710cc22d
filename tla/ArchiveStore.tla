----------------------------- MODULE ArchiveStore -----------------------------
(***************************************************************************)
(* One archive from the request of its writer to the view of a reader: a   *)
(* caller changes a good request, write_archive_v1, v2 or v3 completes and *)
(* lays it out or refuses it, the file changes while nobody has it open,   *)
(* and load_archive or a loader of one version decides about it in stages. *)
(* The passes over the open file are those of ArchiveReader.               *)
(***************************************************************************)
EXTENDS ArchiveContainer, ArchiveManifestV3, ManifestText

CONSTANTS
  Requests,     \* [version, manifest, payloads] that the writer accepts
  Variants(_),  \* manifests that differ from this one in one place
  Texts,        \* texts that may stand in manifest.json
  MaxChanges    \* bound: changes of the request and of the file

VARIABLES
  pc,        \* "request", "stored", then the stage of the load
  reader,    \* 1, 2, 3: loader of one version; 0: load_archive, undecided
  request,   \* [version, manifest, payloads]
  zip,       \* the file, None before it is written
  held,      \* what the load has in memory: [manifest, payloads]
  verdict,   \* "ok", "format", "integrity", "unsupported"; None while it is open
  stage,     \* where the verdict was reached
  written,   \* history: the manifest and payloads the writer laid out
  pristine,  \* history: is the file as the writer left it?
  changes

vars == <<pc, reader, request, zip, held, verdict, stage, written, pristine, changes>>

Verdicts == {"ok", "format", "integrity", "unsupported"}

ASSUME StoreAssumption ==
  /\ Requests \subseteq [version : 1 .. 3, manifest : Manifest, payloads : Seq(Payload)]
  /\ MaxChanges \in Nat
  /\ None \notin Verdicts

Stages == {"preflight", "manifest", "dispatch", "payloads", "verify"}
Nothing == [manifest |-> None, payloads |-> None]

Init ==
  /\ pc = "request"
  /\ request \in Requests
  /\ reader = 0 /\ zip = None /\ held = Nothing /\ written = Nothing
  /\ verdict = None /\ stage = "none"
  /\ pristine = TRUE /\ changes = 0

-----------------------------------------------------------------------------
(* The caller of the writer.                                               *)

\* A member and everything that names it moves from path p to path q.
Moved(r, p, q) ==
  LET at(x) == IF x.path = p THEN [x EXCEPT !.path = q] ELSE x IN
  [r EXCEPT !.manifest.refs = [i \in DOMAIN @ |-> at(@[i])],
            !.manifest.inventory = [k \in DOMAIN @ |-> at(@[k])],
            !.payloads = [i \in DOMAIN @ |-> at(@[i])]]

Alter ==
  /\ pc = "request" /\ changes < MaxChanges
  /\ changes' = changes + 1
  /\ \/ \E m \in Variants(request.manifest) :
          m \in Manifest /\ request' = [request EXCEPT !.manifest = m]
     \/ \E i \in DOMAIN request.payloads :
          \/ \E c \in Contents : request' = [request EXCEPT !.payloads[i].body = c]
          \/ \E p \in Paths : request' = [request EXCEPT !.payloads[i].path = p]
          \/ \E p \in Paths : request' = Moved(request, request.payloads[i].path, p)
          \/ request' = [request EXCEPT !.payloads = RemoveAt(@, i)]
  /\ UNCHANGED <<pc, reader, zip, held, verdict, stage, written, pristine>>

-----------------------------------------------------------------------------
(* The writers.                                                            *)

Prepare(version, m, seq) ==
  CASE version = 1 -> V1Prepare(m, seq)
    [] version = 2 -> V2Prepare(m, seq)
    [] version = 3 -> V3Prepare(m, seq)

Derive(version, m, payloads) ==
  CASE version = 1 -> V1Derive(m, payloads)
    [] version = 2 -> V2Derive(m, payloads)
    [] version = 3 -> V3Derive(m, payloads)

\* manifest.json holds the value and its text.
Document(m) == [value |-> m, text |-> Nested(m.depth)]

\* Mutant: the request is laid out as it came.
Write_Underived ==
  LET m == request.manifest
      payloads == Members(request.payloads)
      prepared == Prepare(request.version, m, request.payloads)
      decided == IF prepared = "ok" /\ ~Fits(m.bulk, request.payloads) THEN "format" ELSE prepared
  IN
  /\ pc = "request"
  /\ IF decided = "ok"
     THEN /\ pc' = "stored"
          /\ zip' = StoredZip(Document(m), m.bulk, request.payloads)
          /\ written' = [manifest |-> m, payloads |-> payloads]
          /\ UNCHANGED <<verdict, stage>>
     ELSE /\ pc' = "refused" /\ verdict' = decided /\ stage' = "write"
          /\ UNCHANGED <<zip, written>>
  /\ UNCHANGED <<reader, request, held, pristine, changes>>

\* write_archive_v1, write_archive_v2_bytes, write_archive_v3, up to the
\* publication of the bytes.
Write ==
  LET payloads == Members(request.payloads)
      prepared == Prepare(request.version, request.manifest, request.payloads)
      m == Derive(request.version, request.manifest, payloads)
      decided == IF prepared = "ok" /\ ~Fits(m.bulk, request.payloads) THEN "format" ELSE prepared
  IN
  /\ pc = "request"
  /\ IF decided = "ok"
     THEN /\ pc' = "stored"
          /\ zip' = StoredZip(Document(m), m.bulk, request.payloads)
          /\ written' = [manifest |-> m, payloads |-> payloads]
          /\ UNCHANGED <<verdict, stage>>
     ELSE /\ pc' = "refused" /\ verdict' = decided /\ stage' = "write"
          /\ UNCHANGED <<zip, written>>
  /\ UNCHANGED <<reader, request, held, pristine, changes>>

-----------------------------------------------------------------------------
(* The file between the writer and the reader.                             *)

\* Other bytes in place, with the CRC32 of the old or of the new ones.
Rewritten(m, body) == {[m EXCEPT !.body = body], [m EXCEPT !.body = body, !.crc = body]}

\* Bytes that may take the place of those of m, of the same length.
Bodies(m) ==
  IF m.path.name = ManifestName
  THEN {[m.body EXCEPT !.value = v] : v \in {v \in Variants(m.body.value) : v \in Manifest}}
       \cup {[m.body EXCEPT !.text = t] : t \in Texts}
  ELSE {c \in Contents : Size[c] = m.size}

\* Another header, another name for a payload, another place for one entry.
Headers(m) ==
  {[m EXCEPT !.plain = FALSE], [m EXCEPT !.regular = FALSE], [m EXCEPT !.local = FALSE]}
  \cup {[m EXCEPT !.path = p] :
          p \in {p \in Paths : p.name # ManifestName /\ m.path.name # ManifestName}}
  \cup {[m EXCEPT !.offset = o] : o \in {zip.members[i].offset : i \in DOMAIN zip.members}}

Tamper ==
  /\ pc = "stored" /\ changes < MaxChanges
  /\ changes' = changes + 1 /\ pristine' = FALSE
  /\ \E i \in DOMAIN zip.members :
       \/ \E b \in Bodies(zip.members[i]) : \E m \in Rewritten(zip.members[i], b) :
            zip' = [zip EXCEPT !.members[i] = m]
       \/ \E m \in Headers(zip.members[i]) : zip' = [zip EXCEPT !.members[i] = m]
       \/ zip' = [zip EXCEPT !.members = RemoveAt(@, i), !.tail.entries = @ - 1]
       \/ zip' = [zip EXCEPT !.members = Append(@, @[i]), !.tail.entries = @ + 1]
       \/ zip' = [zip EXCEPT !.tail.excess = 1]
       \/ zip' = [zip EXCEPT !.tail.offset = zip.members[i].offset]
  /\ UNCHANGED <<pc, reader, request, held, verdict, stage, written>>

-----------------------------------------------------------------------------
(* The readers.                                                            *)

\* One stage: go on, or stop with its verdict.
Decide(at, outcome, next) ==
  /\ pc = at
  /\ IF outcome = "ok" THEN pc' = next /\ UNCHANGED <<verdict, stage>>
                       ELSE pc' = "refused" /\ verdict' = outcome /\ stage' = at
  /\ UNCHANGED <<request, zip, written, pristine, changes>>

\* load_archive, load_archive_v1, load_archive_v2 (from a path or from bytes)
\* and load_archive_v3.
Load ==
  /\ pc = "stored"
  /\ reader' \in 0 .. 3
  /\ pc' = "preflight"
  /\ UNCHANGED <<request, zip, held, verdict, stage, written, pristine, changes>>

Preflight ==
  /\ Decide("preflight", IF reader = 1 THEN V1Preflight(zip) ELSE V2Preflight(zip), "manifest")
  /\ UNCHANGED <<reader, held>>

\* read_manifest_member, parse_manifest_json: the value of a text that is not
\* the one of a manifest has none of its sections.
StoredDocument == zip.members[ManifestAt(zip)].body
Parsed(doc) ==
  IF doc.text = Nested(doc.value.depth) THEN doc.value
  ELSE [doc.value EXCEPT !.frozen = 0, !.version = 0]

ReadManifest ==
  LET doc == StoredDocument
      version == Parsed(doc).version
      unknown == reader = 0 /\ version \notin 1 .. 3
      outcome == IF ~Checked(zip, ManifestAt(zip)) THEN "integrity"
                 ELSE IF ~Parses(doc.text) \/ unknown THEN "format" ELSE "ok"
  IN
  /\ Decide("manifest", outcome,
            IF reader = 0 /\ version \in {1, 3} THEN "preflight" ELSE "dispatch")
  /\ reader' = IF reader = 0 /\ outcome = "ok" THEN version ELSE reader
  /\ held' = IF outcome = "ok" THEN [held EXCEPT !.manifest = Parsed(doc)] ELSE held

\* Mutant: V3 is left to the validation that follows the payloads.
Dispatch_Deferred ==
  /\ Decide("dispatch",
            CASE reader = 1 -> V1Dispatch(held.manifest, Physical(zip))
              [] reader = 2 -> V2Dispatch(held.manifest, SizesIn(zip))
              [] OTHER      -> "ok",
            "payloads")
  /\ UNCHANGED <<reader, held>>

\* validate_manifest_for_dispatch of the version, before any payload is opened.
Dispatch ==
  /\ Decide("dispatch",
            CASE reader = 1 -> V1Dispatch(held.manifest, Physical(zip))
              [] reader = 2 -> V2Dispatch(held.manifest, SizesIn(zip))
              [] reader = 3 -> V3Dispatch(held.manifest, SizesIn(zip)),
            "payloads")
  /\ UNCHANGED <<reader, held>>

\* read_payload_members.
ReadPayloads ==
  LET outcome == IF \A i \in Payloads(zip) : Checked(zip, i) THEN "ok" ELSE "integrity" IN
  /\ Decide("payloads", outcome, "verify")
  /\ held' = IF outcome = "ok" THEN [held EXCEPT !.payloads = Contained(zip)] ELSE held
  /\ UNCHANGED reader

\* validate_manifest_and_payloads (V1), prepare without derivation (V2, V3).
Verify ==
  /\ Decide("verify",
            CASE reader = 1 -> V1Verify(held.manifest, held.payloads)
              [] reader = 2 -> V2Verify(held.manifest, held.payloads)
              [] reader = 3 -> V3Verify(held.manifest, held.payloads),
            "loaded")
  /\ UNCHANGED <<reader, held>>

Next == Alter \/ Write \/ Tamper \/ Load \/ Preflight \/ ReadManifest \/ Dispatch
        \/ ReadPayloads \/ Verify

Spec == Init /\ [][Next]_vars

-----------------------------------------------------------------------------
(* archive_view, archive_v2_view, archive_v3_view of a loaded manifest.    *)

Shown(m) ==
  CASE m.version = 1 -> Of(m.refs, V1Required \cup {"conformal", "robustness"})
    [] m.version = 2 -> Of(m.refs, V2Required \cup {"robustness"})
    [] m.version = 3 -> Of(m.refs, V3Required \cup V3Families)

\* Every key the view looks up is there; V2 has no conformal state of its own.
Viewable(m) ==
  CASE m.version = 1 -> V1Required \subseteq Slots(m.refs)
    [] m.version = 2 -> V2Required \subseteq Slots(m.refs) /\ "conformal" \notin Slots(m.refs)
    [] m.version = 3 -> V3Required \subseteq Slots(m.refs)

-----------------------------------------------------------------------------
Loaded == pc = "loaded"
Refused == pc = "refused"

TypeOK ==
  /\ pc \in {"request", "stored", "loaded", "refused"} \cup Stages
  /\ reader \in 0 .. 3
  /\ verdict \in Verdicts \cup {None}
  /\ stage \in Stages \cup {"none", "write"}
  /\ pristine \in BOOLEAN
  /\ changes \in 0 .. MaxChanges
  /\ Refused <=> verdict # None
  /\ verdict # "ok"

\* A loaded archive is closed: the members of the file, the inventory and the
\* references name the same paths, every digest is the one of the bytes handed
\* out, and in V2 and V3 no two references share a member - whatever happened
\* to the file (validate_ref_inventory_links, validate_reference_closure,
\* validate_raw_closure).
LoadedIsClosed ==
  Loaded =>
    LET m == held.manifest
        payloads == held.payloads
    IN  /\ InventoryPaths(m.inventory) = DOMAIN payloads
        /\ RefPaths(m.refs) = DOMAIN payloads
        /\ Unrepeated(m.inventory)
        /\ \A k \in DOMAIN m.inventory : m.inventory[k].raw = payloads[m.inventory[k].path]
        /\ \A i \in DOMAIN m.refs : m.refs[i].raw = payloads[m.refs[i].path]
        /\ m.version \in {2, 3} => Distinct(m.refs, DOMAIN m.refs)

\* A load that accepts the manifest of the writer hands out the payloads of
\* the writer: the manifest pins every byte.
ManifestPinsBytes ==
  Loaded /\ held.manifest = written.manifest => held.payloads = written.payloads

\* What is outside the grammar a reader shares with the writer: nesting beyond
\* the scan, paths of V1 and V3 that path_ok of V2 refuses, and an offset that
\* looks like an end record.
Readable ==
  /\ written.manifest.depth <= MaxNesting
  /\ \A p \in DOMAIN written.payloads : V2PathOk(p)
  /\ zip.directory # EndMark

\* An archive that its writer published and nobody touched is loaded, by
\* load_archive and by the loader of its version, with what was written.
WrittenIsReadable ==
  /\ Refused /\ stage # "write" /\ pristine /\ reader \in {0, request.version} => ~Readable
  /\ Loaded /\ pristine => held = written

\* Everything but damaged bytes is decided before a payload is opened
\* (archive_v2.rs:213-215): a later refusal is an integrity error.
DispatchDecides ==
  Refused /\ stage \in {"payloads", "verify"} => verdict = "integrity"

\* Archive V1 reports a capability it lacks only for a manifest whose closed
\* inventory and links are right (archive_v1.rs:815-818).
CapabilityLast ==
  Refused /\ verdict = "unsupported" /\ stage = "dispatch" =>
    LET m == held.manifest IN
    /\ InventoryPaths(m.inventory) = Physical(zip)
    /\ RefPaths(V1Refs(m)) = Physical(zip)
    /\ \A i \in DOMAIN V1Refs(m) : Binds(V1Refs(m)[i], m.inventory)

\* The texts the scan should accept.
Grammatical == Documents(MaxNesting)

\* The iterative scan and serde_json together accept exactly the documents of
\* the grammar with distinct keys and at most MaxNesting open containers.
TextExact ==
  LET text == StoredDocument.text IN
  /\ pc \in {"dispatch", "payloads", "verify", "loaded"} => text \in Grammatical
  /\ /\ Refused /\ stage = "manifest" /\ verdict = "format"
     /\ reader # 0 \/ Parsed(StoredDocument).version \in 1 .. 3
     => text \notin Grammatical

\* A loaded archive has a view, whose entries carry the digest of the bytes and
\* the fingerprint of the inventory; the views of V1 and V3 account for every
\* member (archive_view.rs).
ViewAccounts ==
  Loaded =>
    LET m == held.manifest
        shown == {m.refs[i] : i \in Shown(m)}
    IN  /\ Viewable(m)
        /\ \A r \in shown : /\ r.raw = held.payloads[r.path]
                            /\ r.semantic = EntryOf(m.inventory, r.path).semantic
        /\ m.version \in {1, 3} => {r.path : r \in shown} = DOMAIN held.payloads

\* A V3 archive that its writer published is loaded, by the loader of V3 and by
\* load_archive: v3_round_trips_opaque_refit_package_and_dispatches
\* (archive_v3.rs:954).
RoundTripV3 ==
  ~(Refused /\ stage # "write" /\ pristine /\ request.version = 3 /\ reader \in {0, 3})
=============================================================================
