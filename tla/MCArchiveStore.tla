---------------------------- MODULE MCArchiveStore ----------------------------
(* Constants of ArchiveStore for TLC: one request of each kind, and the      *)
(* places where it or the file may be changed.                               *)
EXTENDS ArchiveStore

CONSTANTS c1, c2, c3, c4

MCSize == [c \in Contents |-> CASE c = c3 -> 2 [] c = c4 -> 20 [] OTHER -> 1]

Plain(name, area, form) ==
  [name |-> name, chars |-> 4, bytes |-> 4, nfc |-> TRUE, clean |-> TRUE, portable |-> TRUE,
   area |-> area, form |-> form, stem |-> TRUE, run |-> FALSE, live |-> FALSE, spells |-> None]

pManifest == Plain("manifest.json", "other", "json")
pPackage  == Plain(V2Package, "dagml", "json")
pGraph    == Plain("dagml/graph.json", "dagml", "json")
pBundle   == Plain("dagml/bundle.json", "dagml", "json")
pOutcome  == Plain("dagml/outcome.json", "dagml", "json")
pCache    == Plain("dagml/cache.json", "dagml", "json")
pScores   == Plain("dagml/scores.json", "dagml", "json")
pRobust   == Plain("dagml/robustness.json", "dagml", "json")
pRefit    == Plain(V3Fixed.portable_refit_package, "dagml", "json")
pRBundle  == Plain(V3Fixed.execution_bundle, "dagml", "json")
pROutcome == Plain(V3Fixed.refit_outcome, "dagml", "json")
pMethods  == Plain("methods/a.n4mm", "methods", "n4mm")
pDecomposed == [Plain("methods/e.n4mm, decomposed", "methods", "n4mm")
                  EXCEPT !.nfc = FALSE, !.stem = FALSE]
pEnsemble == Plain("methods/a.n4me", "methods", "n4me")
pRole     == [Plain("artifacts/<c3>.json", "artifacts", "json") EXCEPT !.spells = c3]
pAccents  == [Plain("twelve bytes of nine characters", "other", "json")
                EXCEPT !.chars = 9, !.bytes = 12]
pUnclean  == [Plain("dagml/../x", "dagml", "other") EXCEPT !.clean = FALSE]
pDevice   == [Plain("aux.json", "other", "json") EXCEPT !.portable = FALSE]
pStore    == Plain("workspace/store.sqlite", "workspace", "sqlite")
pRun      == [Plain("workspace/runs/r/x.parquet", "workspace", "parquet") EXCEPT !.run = TRUE]

MCPaths == {pManifest, pPackage, pGraph, pBundle, pOutcome, pCache, pScores, pRobust, pRefit,
            pRBundle, pROutcome, pMethods, pDecomposed, pEnsemble, pRole, pAccents, pUnclean,
            pDevice, pStore, pRun}
\* Paths a request or a file may be changed to.
Elsewhere == {pBundle, pDecomposed, pAccents, pUnclean}

NoDetail == [id |-> None, format |-> 1, minor |-> None, kind |-> "regressor",
             state |-> "host_sidecar", backend |-> "json", policy |-> "host_opt_in", run |-> None]

Ref(slot, path, body, profile) ==
  [slot |-> slot, path |-> path, raw |-> body, semantic |-> c1, profile |-> profile,
   exact |-> TRUE, detail |-> NoDetail]
Native(slot, path, body, profile, format, minor) ==
  [Ref(slot, path, body, profile) EXCEPT !.semantic = body, !.detail.id = slot,
                                         !.detail.format = format, !.detail.minor = minor]
Tcv == "dagml_tcv1"
Hist == "dagml_historical_serde_json_v1"

\* A request whose inventory is that of its references; every member has
\* content c unless it says otherwise.
Entry(r) == [path |-> r.path, regular |-> TRUE, raw |-> c1, size |-> 0,
             semantic |-> r.semantic, profile |-> r.profile]
Asked(version, refs, all) ==
  [version |-> version,
   manifest |-> [version |-> version, frozen |-> version, kind |-> "n4a_archive",
                 extension |-> "absent", migration |-> None, signature |-> None,
                 workspace |-> None, lists |-> {}, depth |-> 1, bulk |-> 2, refs |-> refs,
                 inventory |-> [k \in DOMAIN all |-> Entry(all[k])]],
   payloads |-> [k \in DOMAIN all |-> [path |-> all[k].path, body |-> all[k].raw]]]

Training == <<Ref("graph", pGraph, c2, Hist), Ref("execution_bundle", pBundle, c1, Tcv),
              Ref("training_outcome", pOutcome, c2, Tcv),
              Ref("prediction_cache_payload_set", pCache, c1, Hist),
              Ref("score_set", pScores, c2, Hist)>>
Package == Ref("portable_predictor_package", pPackage, c1, Tcv)
Refs1 == Training \o <<Package, Ref("robustness", pRobust, c3, Tcv)>>
Reserved1 == Training \o <<Package, Native("n4mm", pMethods, c3, "methods_rfc8785_jcs", 1, None)>>
Refs2 == Training \o
  <<Package, Native("n4mm", pMethods, c1, "n4mm_raw_sha256", 2, 5),
    Native("role_pipelines", pRole, c3, "dagml_methods_role_pipeline_raw_sha256", 1, None)>>
Refs3 ==
  <<Ref("portable_refit_package", pRefit, c1, Tcv), Ref("graph", pGraph, c2, Hist),
    Ref("execution_bundle", pRBundle, c1, Tcv), Ref("refit_outcome", pROutcome, c2, Tcv),
    Native("n4mm", pMethods, c1, "n4mm_raw_sha256", 3, 20),
    Native("n4me", pEnsemble, c3, "n4me_raw_sha256", 1, 13)>>

\* A snapshot of a workspace: its database and a table of its one run.
Files == <<[Ref("workspace", pStore, c1, "none") EXCEPT !.detail.kind = "sqlite"],
           [Ref("workspace", pRun, c2, "none") EXCEPT !.detail.kind = "parquet",
                                                     !.detail.run = "r"]>>
Snapshot ==
  [Asked(1, Refs1, Refs1 \o Files) EXCEPT
     !.manifest.kind = "workspace_snapshot",
     !.manifest.workspace = [exact |-> TRUE, runs |-> <<"r">>, payloads |-> Files]]

MCRequests == {Asked(1, Refs1, Refs1), Asked(1, Reserved1, Reserved1), Snapshot,
               Asked(2, Refs2, Refs2), Asked(3, Refs3, Refs3)}

\* References and entries that are changed one by one.
Marked(refs) == {i \in DOMAIN refs : refs[i].slot \in
                   {"graph", "robustness", "portable_predictor_package",
                    "portable_refit_package", "n4mm", "n4me", "role_pipelines"}}
RefVariants(r) ==
  {[r EXCEPT !.path = p] : p \in Elsewhere} \cup {[r EXCEPT !.raw = x] : x \in {c1, c3, NotSha}}
  \cup {[r EXCEPT !.semantic = x] : x \in {c3, None}}
  \cup {[r EXCEPT !.profile = "none"], [r EXCEPT !.exact = FALSE], [r EXCEPT !.detail.format = 2]}
EntryVariants(e) ==
  {[e EXCEPT !.path = p] : p \in Elsewhere} \cup {[e EXCEPT !.raw = x] : x \in {c1, c3, NotSha}}
  \cup {[e EXCEPT !.semantic = x] : x \in {c3, None}}
  \cup {[e EXCEPT !.profile = "none"], [e EXCEPT !.regular = FALSE], [e EXCEPT !.size = 2]}

Legacy == [exact |-> TRUE, legacy |-> TRUE, fixture |-> TRUE, source |-> NotSha, version |-> TRUE]
Sections(m) ==
  {[m EXCEPT !.version = 4], [m EXCEPT !.version = 1], [m EXCEPT !.frozen = 0],
   [m EXCEPT !.kind = "workspace_snapshot"], [m EXCEPT !.kind = "other"],
   [m EXCEPT !.extension = "malformed"],
   [m EXCEPT !.migration = Legacy], [m EXCEPT !.migration = [Legacy EXCEPT !.source = c1]],
   [m EXCEPT !.signature = [exact |-> TRUE, bound |-> TRUE]],
   [m EXCEPT !.signature = [exact |-> TRUE, bound |-> FALSE]],
   [m EXCEPT !.lists = {"role_pipelines"}], [m EXCEPT !.extension = "object", !.depth = MaxNesting + 1],
   [m EXCEPT !.bulk = MaxManifest], [m EXCEPT !.bulk = MaxManifest + 1]}

\* A reference and its entry change together.
Paired(m, i) ==
  LET k == CHOOSE k \in DOMAIN m.inventory : m.inventory[k].path = m.refs[i].path IN
  {[m EXCEPT !.refs[i].path = p, !.inventory[k].path = p] :
     p \in Elsewhere \cup RefPaths(m.refs)}
  \cup {[m EXCEPT !.refs[i].path = p, !.inventory = Remove(@, m.inventory[k])] :
         p \in RefPaths(m.refs)}
  \cup {[m EXCEPT !.refs[i].raw = x, !.inventory[k].raw = x] : x \in {c1, c3}}
  \cup {[m EXCEPT !.refs[i].semantic = x, !.inventory[k].semantic = x] : x \in {c3, None}}
  \cup {[m EXCEPT !.refs[i].profile = x, !.inventory[k].profile = x] : x \in {"none", Tcv}}
  \cup {[m EXCEPT !.refs = Remove(@, m.refs[i]), !.inventory = Remove(@, m.inventory[k])]}

\* A capability V1 lacks, in a manifest that is wrong as well.
Reserving(m) ==
  {[m EXCEPT !.migration = Legacy, !.inventory = Remove(@, @[1])],
   [m EXCEPT !.signature = [exact |-> TRUE, bound |-> TRUE], !.refs[1].raw = c3],
   [m EXCEPT !.migration = Legacy, !.refs = Remove(@, @[Len(@)])]}

MCVariants(m) ==
  Sections(m) \cup Reserving(m)
  \cup UNION {Paired(m, i) : i \in {i \in Marked(m.refs) :
                m.refs[i].path \in InventoryPaths(m.inventory)}}
  \cup UNION {{[m EXCEPT !.refs[i] = r] : r \in RefVariants(m.refs[i])} : i \in Marked(m.refs)}
  \cup UNION {{[m EXCEPT !.inventory[k] = e] : e \in EntryVariants(m.inventory[k])} :
                k \in Marked(m.refs)}
  \cup {[m EXCEPT !.refs = Remove(@, m.refs[i])] : i \in Marked(m.refs)}
  \cup {[m EXCEPT !.refs = Append(@, m.refs[i])] : i \in Marked(m.refs) \ {1, 2}}
  \cup {[m EXCEPT !.inventory = Remove(@, m.inventory[k])] : k \in Marked(m.refs)}
  \cup {[m EXCEPT !.inventory = Append(@, m.inventory[1])]}

\* Two documents with one token left out, repeated or replaced.
Tokens == {"{", "}", "[", "]", ",", ":"} \cup Scalars
Bases == {<<"{", "a", ":", "[", "1", "]", ",", "b", ":", "b", "}">>,
          <<"[", "{", "a", ":", "1", ",", "b", ":", "1", "}", ",", "a", "]">>}
MCTexts ==
  UNION {{RemoveAt(t, i) : i \in DOMAIN t}
         \cup {InsertAt(t, i, t[i]) : i \in DOMAIN t}
         \cup {[t EXCEPT ![i] = x] : i \in DOMAIN t, x \in Tokens} : t \in Bases}
=============================================================================
