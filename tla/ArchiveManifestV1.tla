-------------------------- MODULE ArchiveManifestV1 --------------------------
(***************************************************************************)
(* The manifest of Archive V1 (archive_v1.rs): what the writer completes,  *)
(* what the reader decides before it opens a payload, and what it checks   *)
(* once it has the payloads.  A verdict is "ok" or the error a caller sees. *)
(***************************************************************************)
EXTENDS ArchiveManifest

V1Required == {"portable_predictor_package", "graph", "execution_bundle",
               "training_outcome", "prediction_cache_payload_set", "score_set"}
V1Methods == {"n4mm", "n4mopt"}
V1Single == {"n4d_aggregate_reference", "conformal", "robustness"}
V1DagMl == V1Required \cup {"conformal", "robustness"}
V1Keys == V1Required \cup V1Methods \cup V1Single \cup {"host_artifacts"}

\* validate_dagml_ref, validate_methods_ref, validate_n4d_ref, host and
\* workspace entries: the semantic profile of a slot.
V1Profile(slot) ==
  CASE slot \in {"graph", "prediction_cache_payload_set", "score_set"}
                                          -> {"dagml_historical_serde_json_v1"}
    [] slot \in V1Methods                 -> {"methods_rfc8785_jcs"}
    [] slot = "n4d_aggregate_reference"   -> {"none"}
    [] slot = "host_artifacts"            -> {"host_opaque"}
    [] slot = "workspace"                 -> {"host_opaque", "none"}
    [] OTHER                              -> {"dagml_tcv1"}

\* require_semantic_profile.
V1Profiles == {"dagml_tcv1", "dagml_historical_serde_json_v1", "methods_rfc8785_jcs",
               "host_opaque", "none"}

\* validate_member_path.
V1PathOk(p) == p.chars <= MaxPath /\ p.nfc /\ p.clean /\ p.portable

\* Fingerprints: N4D and host members have none, a workspace member may.
V1Semantic(slot, x) ==
  CASE slot \in {"n4d_aggregate_reference", "host_artifacts"} -> x = None
    [] slot = "workspace" -> ShaOrNull(x)
    [] OTHER -> Sha(x)

V1RefOk(r) ==
  /\ r.exact
  /\ r.profile \in V1Profile(r.slot)
  /\ V1PathOk(r.path)
  /\ Sha(r.raw)
  /\ V1Semantic(r.slot, r.semantic)

\* validate_host_artifact: the loading policy against state and backend.
V1HostOk(h) ==
  /\ h.state = "native_portable" => h.policy = "native_portable"
  /\ h.backend \in {"pickle", "joblib", "rds"} => h.policy = "host_opt_in"

\* validate_payload_declarations; both objects of references have a closed set of
\* keys (require_exact_keys).
V1PayloadsOk(refs) ==
  /\ Slots(refs) \subseteq V1Keys
  /\ \A i \in DOMAIN refs : V1RefOk(refs[i])
  /\ \A i, j \in Of(refs, {"host_artifacts"}) :
       /\ V1HostOk(refs[i].detail)
       /\ refs[i].detail.id = refs[j].detail.id => i = j

\* validate_migration_provenance: legacy is a source that is named, and the
\* only one known is the retained fixture.
V1MigrationOk(g) ==
  g # None => /\ g.exact
              /\ g.legacy => g.fixture /\ g.version

\* validate_signature and its preimage: the manifest without the signature.
V1SignatureOk(s) == s # None => s.exact /\ s.bound

\* validate_workspace.
V1WorkspaceOk(w) ==
  LET files == w.payloads
      is(kind) == {i \in DOMAIN files : files[i].detail.kind = kind}
  IN  /\ w.exact
      /\ w.runs # <<>> /\ IsInjective(w.runs)
      /\ files # <<>> /\ Distinct(files, DOMAIN files)
      /\ Cardinality(is("sqlite")) = 1
      /\ \A i \in DOMAIN files :
           /\ V1RefOk(files[i])
           /\ ~files[i].path.live
           /\ IF i \in is("sqlite")
              THEN /\ files[i].detail.run = None
                   /\ files[i].path.area = "workspace"
                   /\ files[i].path.form = "sqlite" /\ files[i].path.stem
              ELSE /\ files[i].detail.run \in Range(w.runs)
                   /\ files[i].path.run
                   /\ i \in is("parquet") => files[i].path.form = "parquet"

\* validate_dispatch, validate_physical_profile, validate_future_artifacts.
V1FrozenOk(m) == m.version = 1 /\ m.frozen = 1

\* validate_extensions: an object with namespaced keys, or nothing.
V1ExtensionsOk(x) == x # "malformed"

\* validate_required_replay_refs.
V1ReplayOk(refs) == V1Required \subseteq Slots(refs)

\* Keys, identity, writer, sections, references.
V1ShapeOk(m) ==
  /\ V1FrozenOk(m)
  /\ m.kind \in {"n4a_archive", "workspace_snapshot"}
  /\ V1MigrationOk(m.migration)
  /\ V1SignatureOk(m.signature)
  /\ V1ReplayOk(m.refs)
  /\ V1ExtensionsOk(m.extension)
  /\ V1PayloadsOk(m.refs)
  /\ IF m.kind = "workspace_snapshot" THEN m.workspace # None /\ V1WorkspaceOk(m.workspace)
                                      ELSE m.workspace = None

\* The inventory, with the sizes it declares or those of the payloads.
V1InventoryOk(inv, size) ==
  /\ inv # <<>> /\ Len(inv) + 1 <= MaxEntries
  /\ Unrepeated(inv)
  /\ \A k \in DOMAIN inv :
       /\ V1PathOk(inv[k].path) /\ inv[k].path.name # ManifestName
       /\ inv[k].regular
       /\ Sha(inv[k].raw) /\ ShaOrNull(inv[k].semantic)
       /\ inv[k].profile \in V1Profiles
       /\ size[k] <= MaxMember
  /\ Total(size, Len(inv)) <= MaxTotal

\* Every reference of the manifest, those of a workspace included.
V1Refs(m) == IF m.workspace = None THEN m.refs ELSE m.refs \o m.workspace.payloads

\* Mutant: an inventory entry that nothing refers to.
V1LinksOk_Open(m) ==
  LET refs == V1Refs(m) IN
  /\ Distinct(refs, Of(refs, V1Required))
  /\ Distinct(refs, Of(refs, V1Methods))
  /\ \A i \in DOMAIN refs : Binds(refs[i], m.inventory)

\* validate_ref_inventory_links.
V1LinksOk(m) ==
  LET refs == V1Refs(m) IN
  /\ Distinct(refs, Of(refs, V1Required))
  /\ Distinct(refs, Of(refs, V1Methods))
  /\ \A i \in DOMAIN refs : Binds(refs[i], m.inventory)
  /\ RefPaths(refs) = InventoryPaths(m.inventory)

\* validate_workspace_namespace.
V1NamespaceOk(m, physical) ==
  m.kind = "workspace_snapshot" =>
    RefPaths(m.workspace.payloads) = {p \in physical : p.area = "workspace"}

\* What this slice of V1 declares but cannot execute.
V1Reserved(m) ==
  \/ m.kind = "workspace_snapshot"
  \/ m.migration # None
  \/ m.signature # None
  \/ Of(m.refs, V1Methods \cup {"n4d_aggregate_reference", "host_artifacts"}) # {}

Declared(inv) == [k \in DOMAIN inv |-> inv[k].size]

\* Mutant: a reserved declaration is reported first.
V1Dispatch_CapabilityFirst(m, physical) ==
  IF V1ShapeOk(m) /\ V1Reserved(m) THEN "unsupported"
  ELSE IF /\ V1ShapeOk(m) /\ V1InventoryOk(m.inventory, Declared(m.inventory))
          /\ physical = InventoryPaths(m.inventory) /\ V1LinksOk(m)
  THEN "ok" ELSE "format"

\* validate_manifest_for_dispatch: the manifest against the names in the ZIP.
V1Dispatch(m, physical) ==
  IF /\ V1ShapeOk(m)
     /\ V1InventoryOk(m.inventory, Declared(m.inventory))
     /\ physical = InventoryPaths(m.inventory)
     /\ V1NamespaceOk(m, physical)
     /\ V1LinksOk(m)
  THEN IF V1Reserved(m) THEN "unsupported" ELSE "ok"
  ELSE "format"

\* Mutant: the size alone is compared.
V1Verify_SizeOnly(m, payloads) ==
  LET again == V1Dispatch(m, DOMAIN payloads) IN
  IF again # "ok" THEN again
  ELSE IF \A k \in DOMAIN m.inventory :
            m.inventory[k].size = Size[payloads[m.inventory[k].path]]
  THEN "ok" ELSE "integrity"

\* validate_manifest_and_payloads, for the reader.
V1Verify(m, payloads) ==
  LET again == V1Dispatch(m, DOMAIN payloads) IN
  IF again # "ok" THEN again
  ELSE IF Intact(m.inventory, payloads) THEN "ok" ELSE "integrity"

\* derive_replay_raw_hashes: methods, N4D and host references keep the digest
\* of the request.
V1Derive(m, payloads) ==
  [m EXCEPT
     !.inventory = [k \in DOMAIN @ |-> Raw(@[k], payloads)],
     !.refs = [i \in DOMAIN @ |-> IF @[i].slot \in V1DagMl THEN RawRef(@[i], payloads)
                                                            ELSE @[i]]]

\* prepare_write: the verdict on a request, in the order of the code.
V1Prepare(m, seq) ==
  LET payloads == Members(seq)
      sizes == [k \in DOMAIN m.inventory |-> Size[payloads[m.inventory[k].path]]]
      orphans == {i \in Of(m.refs, V1DagMl) : m.refs[i].path \notin DOMAIN payloads}
  IN  IF /\ Admitted(seq)
         /\ \A i \in DOMAIN seq : V1PathOk(seq[i].path)
         /\ V1ShapeOk(m)
         /\ InventoryPaths(m.inventory) = DOMAIN payloads
         /\ V1InventoryOk(m.inventory, sizes)
      THEN IF orphans # {} THEN "integrity"
           ELSE IF ~V1LinksOk(V1Derive(m, payloads)) THEN "format"
           ELSE IF V1Reserved(m) THEN "unsupported" ELSE "ok"
      ELSE "format"
=============================================================================
