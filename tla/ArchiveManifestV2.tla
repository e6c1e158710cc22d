-------------------------- MODULE ArchiveManifestV2 --------------------------
(***************************************************************************)
(* The manifest of Archive V2 (archive_v2.rs).                             *)
(***************************************************************************)
EXTENDS ArchiveManifest

V2Package == "dagml/portable_predictor_package.json"
V2Training == {"graph", "execution_bundle", "training_outcome",
               "prediction_cache_payload_set", "score_set"}
V2Required == V2Training \cup {"portable_predictor_package"}
V2DagMl == V2Required \cup {"robustness"}
V2Pipelines == {"role_pipelines", "multimodal_pipelines"}
V2Natives == V2Pipelines \cup {"n4mm"}
V2Kinds == [regressor |-> [role_pipelines |-> "dagml_methods_role_pipeline_raw_sha256",
                           multimodal_pipelines |-> "dagml_methods_multimodal_pipeline_raw_sha256"],
            classifier |-> [role_pipelines |-> "dagml_methods_role_classifier_pipeline_raw_sha256",
                            multimodal_pipelines |->
                              "dagml_methods_multimodal_classifier_pipeline_raw_sha256"]]
V2PipelineProfiles == {V2Kinds[k][s] : k \in DOMAIN V2Kinds, s \in V2Pipelines}

\* path_ok.
V2PathOk(p) == p.bytes <= MaxPath /\ p.name # ManifestName /\ p.clean /\ p.nfc

\* n4mm_path_ok: one file below methods/.
V2N4mmPathOk(p) == p.area = "methods" /\ p.form = "n4mm" /\ p.stem

\* The semantic profile a DAG-ML reference must have.
V2Profile(slot) ==
  IF slot \in {"graph", "prediction_cache_payload_set", "score_set"}
  THEN "dagml_historical_serde_json_v1" ELSE "dagml_tcv1"

V2DagMlOk(r) ==
  /\ r.profile = V2Profile(r.slot)
  /\ r.slot = "portable_predictor_package" => r.path.name = V2Package

\* The N4MM declaration: wire format 2 is ABI minor 5, format 3 minor 20 on.
V2N4mmOk(r) ==
  /\ r.detail.format \in 1 .. 3
  /\ r.detail.format = 2 => r.detail.minor = 5
  /\ r.detail.format = 3 => r.detail.minor # None /\ r.detail.minor >= 20
  /\ r.profile = "n4mm_raw_sha256"
  /\ r.semantic = r.raw
  /\ V2N4mmPathOk(r.path)

\* A role or multimodal pipeline lies at artifacts/<digest>.json.
V2PipelineOk(r) ==
  /\ r.profile = V2Kinds[r.detail.kind][r.slot]
  /\ r.semantic = r.raw
  /\ Sha(r.raw) /\ r.path.spells = r.raw

V2N4mOptOk(r, refs) ==
  /\ r.profile = "methods_rfc8785_jcs"
  /\ r.path \notin {refs[i].path : i \in Of(refs, V2Natives)}

\* declared_inventory_metadata: profile "none" is the absence of a fingerprint.
V2EntryOk(e) ==
  /\ e.profile \in {"dagml_tcv1", "dagml_historical_serde_json_v1", "n4mm_raw_sha256",
                    "methods_rfc8785_jcs", "none"} \cup V2PipelineProfiles
  /\ e.profile = "none" <=> e.semantic = None
  /\ ShaOrNull(e.semantic)

\* validate_reference_declarations, validate_ref.
V2ReferencesOk(m) ==
  LET refs == m.refs IN
  /\ \A i \in DOMAIN refs :
       /\ refs[i].exact
       /\ V2PathOk(refs[i].path)
       /\ Binds(refs[i], m.inventory)
       /\ refs[i].slot \in V2DagMl => V2DagMlOk(refs[i])
       /\ refs[i].slot = "n4mm" => V2N4mmOk(refs[i])
       /\ refs[i].slot \in V2Pipelines => V2PipelineOk(refs[i])
       /\ refs[i].slot = "n4mopt" => V2N4mOptOk(refs[i], refs)
       /\ refs[i].slot = "n4d_aggregate_reference" => refs[i].profile = "none"
  /\ \A i, j \in Of(refs, V2Natives) : refs[i].detail.id = refs[j].detail.id => i = j
  /\ Distinct(refs, DOMAIN refs)
  /\ RefPaths(refs) = InventoryPaths(m.inventory)

\* V1-to-V2 provenance is recorded and changes nothing else.
V2MigrationOk(g) == g # None => g.exact /\ Sha(g.source)

\* validate_dispatch, validate_physical.
V2FrozenOk(m) == m.version = 2 /\ m.frozen = 2

\* validate_extensions.
V2ExtensionsOk(x) == x # "malformed"

\* The sections, in the order of validate_manifest_declarations.
V2SectionsOk(m) ==
  /\ V2FrozenOk(m)
  /\ m.kind = "n4a_archive"
  /\ V2ExtensionsOk(m.extension)
  /\ Of(m.refs, {"conformal", "host_artifacts"}) = {}
  /\ V2Required \subseteq Slots(m.refs)
  /\ m.workspace = None
  /\ m.signature = None
  /\ V2MigrationOk(m.migration)
  /\ Of(m.refs, V2Natives) # {}

\* The inventory against the sizes of the members (declared, or in the ZIP).
V2InventoryOk(inv, sizes) ==
  /\ Len(inv) = Cardinality(DOMAIN sizes)
  /\ Len(inv) + 1 <= MaxEntries
  /\ Unrepeated(inv)
  /\ \A k \in DOMAIN inv :
       /\ V2PathOk(inv[k].path)
       /\ inv[k].regular
       /\ inv[k].path \in DOMAIN sizes
       /\ inv[k].size = sizes[inv[k].path]
       /\ Sha(inv[k].raw)
       /\ V2EntryOk(inv[k])

\* validate_manifest_declarations, before any payload is opened: every
\* refusal is a format error.
V2Dispatch(m, sizes) ==
  IF /\ V2SectionsOk(m)
     /\ V2InventoryOk(m.inventory, sizes)
     /\ V2ReferencesOk(m)
  THEN "ok" ELSE "format"

SizesOf(payloads) == [p \in DOMAIN payloads |-> Size[payloads[p]]]

\* validate_manifest_shape of the reader: declarations again, then the bytes.
V2Verify(m, payloads) ==
  IF V2Dispatch(m, SizesOf(payloads)) # "ok" THEN "format"
  ELSE IF Intact(m.inventory, payloads) THEN "ok" ELSE "integrity"

\* derive_inventory: an N4MM member is its own fingerprint whatever the
\* request says, a pipeline member when its profile (its kind) says so.
V2Own(x, payloads, profile) ==
  [x EXCEPT !.semantic = payloads[x.path], !.profile = profile]

V2DeriveEntry(e, payloads) ==
  LET sealed == Raw(e, payloads) IN
  CASE e.path.form = "n4mm"             -> V2Own(sealed, payloads, "n4mm_raw_sha256")
    [] e.path.form # "n4mm" /\ e.profile \in V2PipelineProfiles
                                        -> V2Own(sealed, payloads, e.profile)
    [] OTHER                            -> sealed

V2DeriveRef(r, payloads) ==
  LET sealed == RawRef(r, payloads) IN
  CASE r.path.form = "n4mm"             -> V2Own(sealed, payloads, "n4mm_raw_sha256")
    [] r.path.form # "n4mm" /\ r.slot \in V2Pipelines
                                        -> V2Own(sealed, payloads, V2Kinds[r.detail.kind][r.slot])
    [] OTHER                            -> sealed

V2Derive(m, payloads) ==
  [m EXCEPT !.inventory = [k \in DOMAIN @ |-> V2DeriveEntry(@[k], payloads)],
            !.refs = [i \in DOMAIN @ |-> V2DeriveRef(@[i], payloads)]]

\* prepare, for the writer.
V2Prepare(m, seq) ==
  LET payloads == Members(seq)
      known(p) == p \in DOMAIN payloads
  IN  IF /\ Admitted(seq)
         /\ \A i \in DOMAIN seq : V2PathOk(seq[i].path)
         /\ \A k \in DOMAIN m.inventory : known(m.inventory[k].path)
         /\ \A i \in DOMAIN m.refs : known(m.refs[i].path)
      THEN V2Verify(V2Derive(m, payloads), payloads)
      ELSE "format"
=============================================================================
