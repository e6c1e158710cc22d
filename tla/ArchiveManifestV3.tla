-------------------------- MODULE ArchiveManifestV3 --------------------------
(***************************************************************************)
(* The manifest of Archive V3 (archive_v3.rs): a refitted package with its *)
(* native artifacts and nothing else.                                      *)
(***************************************************************************)
EXTENDS ArchiveManifest

V3Fixed == [portable_refit_package |-> "dagml/portable_refit_package.json",
            graph                  |-> "dagml/graph.json",
            execution_bundle       |-> "dagml/portable_refit_execution_bundle.json",
            refit_outcome          |-> "dagml/portable_refit_outcome.json"]
V3Required == DOMAIN V3Fixed
V3Families == {"n4mm", "n4me", "role_pipelines"}
V3Raw == [n4mm           |-> "n4mm_raw_sha256",
          n4me           |-> "n4me_raw_sha256",
          role_pipelines |-> "dagml_methods_role_pipeline_raw_sha256"]

\* path_ok of V3: normalisation is not asked for.
V3PathOk(p) == p.bytes <= MaxPath /\ p.clean

V3Profile(slot) ==
  IF slot = "graph" THEN "dagml_historical_serde_json_v1" ELSE "dagml_tcv1"

\* Where a native artifact lies: a role pipeline at artifacts/<digest>.json.
V3NativePathOk(r) ==
  CASE r.slot = "n4mm" -> r.path.area = "methods" /\ r.path.form = "n4mm"
    [] r.slot = "n4me" -> r.path.area = "methods" /\ r.path.form = "n4me"
    [] OTHER           -> r.path.spells = r.raw

\* Wire format against ABI minor, N4MM and N4ME.
V3WireOk(r) ==
  /\ \/ r.detail.format = 1
     \/ r.slot = "n4mm" /\ r.detail.format = 2 /\ r.detail.minor # None /\ r.detail.minor >= 5
     \/ r.slot = "n4mm" /\ r.detail.format = 3 /\ r.detail.minor # None /\ r.detail.minor >= 20
  /\ r.slot = "n4me" => r.detail.minor = 13

\* validate_methods_ref.
V3NativeOk(r) ==
  /\ V3PathOk(r.path) /\ V3NativePathOk(r)
  /\ V3WireOk(r)
  /\ r.profile = V3Raw[r.slot]
  /\ r.semantic = r.raw

\* validate_ref: the required members have fixed paths.
V3RefOk(r) ==
  /\ r.exact
  /\ IF r.slot \in V3Required
     THEN r.path.name = V3Fixed[r.slot] /\ r.profile = V3Profile(r.slot)
     ELSE r.slot \in V3Families /\ V3NativeOk(r)

\* inventory_meta: exactly the physical members, each with a fingerprint.
V3InventoryOk(inv, sizes) ==
  /\ Len(inv) = Cardinality(DOMAIN sizes)
  /\ Len(inv) \in 5 .. MaxEntries - 1
  /\ Unrepeated(inv)
  /\ \A k \in DOMAIN inv :
       /\ V3PathOk(inv[k].path)
       /\ inv[k].regular
       /\ Sha(inv[k].raw) /\ Sha(inv[k].semantic)
       /\ inv[k].profile \in {"dagml_tcv1", "dagml_historical_serde_json_v1"} \cup Range(V3Raw)
       /\ inv[k].path \in DOMAIN sizes
       /\ inv[k].size = sizes[inv[k].path]

\* validate_writer, validate_dispatch, validate_physical.
V3FrozenOk(m) == m.version = 3 /\ m.frozen = 3

\* An optional family, when present, is not empty; N4MM alone may be.
V3SectionsOk(m) ==
  /\ V3FrozenOk(m)
  /\ m.kind = "n4a_archive"
  /\ m.extension = "absent"
  /\ m.migration = None /\ m.workspace = None /\ m.signature = None
  /\ V3Required \subseteq Slots(m.refs)
  /\ Slots(m.refs) \subseteq V3Required \cup V3Families
  /\ \A s \in m.lists : Of(m.refs, {s}) # {}
  /\ Of(m.refs, V3Families) # {}

V3NativesOk(refs) ==
  \A i, j \in Of(refs, V3Families) : refs[i].detail.id = refs[j].detail.id => i = j

\* validate_declarations.
V3Dispatch(m, sizes) ==
  IF /\ V3SectionsOk(m)
     /\ V3InventoryOk(m.inventory, sizes)
     /\ \A i \in DOMAIN m.refs : V3RefOk(m.refs[i]) /\ Binds(m.refs[i], m.inventory)
     /\ V3NativesOk(m.refs)
     /\ Distinct(m.refs, DOMAIN m.refs)
     /\ RefPaths(m.refs) = InventoryPaths(m.inventory)
  THEN "ok" ELSE "format"

\* validate_raw_closure: sizes are settled by the declarations.
V3Verify(m, payloads) ==
  IF V3Dispatch(m, [p \in DOMAIN payloads |-> Size[payloads[p]]]) # "ok" THEN "format"
  ELSE IF Intact(m.inventory, payloads) THEN "ok" ELSE "integrity"

\* raw_methods_profile: by the suffix of the path, or a declared role pipeline.
V3RawProfile(x) ==
  CASE x.path.form = "n4mm" -> V3Raw.n4mm
    [] x.path.form = "n4me" -> V3Raw.n4me
    [] OTHER -> IF x.profile = V3Raw.role_pipelines THEN x.profile ELSE None

V3Seal(x, sealed, payloads) ==
  IF V3RawProfile(x) = None THEN sealed
  ELSE [sealed EXCEPT !.semantic = payloads[x.path], !.profile = V3RawProfile(x)]

\* derive_inventory.
V3Derive(m, payloads) ==
  [m EXCEPT
     !.inventory = [k \in DOMAIN @ |-> V3Seal(@[k], Raw(@[k], payloads), payloads)],
     !.refs = [i \in DOMAIN @ |-> V3Seal(@[i], RawRef(@[i], payloads), payloads)]]

\* prepare, for the writer.
V3Prepare(m, seq) ==
  LET payloads == Members(seq)
      known(p) == p \in DOMAIN payloads
  IN  IF /\ Admitted(seq)
         /\ \A i \in DOMAIN seq : V3PathOk(seq[i].path)
         /\ \A k \in DOMAIN m.inventory : known(m.inventory[k].path)
         /\ \A i \in DOMAIN m.refs : known(m.refs[i].path)
      THEN V3Verify(V3Derive(m, payloads), payloads)
      ELSE "format"
=============================================================================
