--------------------------- MODULE ArchiveManifest ---------------------------
(***************************************************************************)
(* What the manifests of Archive V1, V2 and V3 share: member paths,        *)
(* references, the member inventory and the payloads they speak of.        *)
(*                                                                         *)
(* A content stands for the bytes of a member and for their SHA-256: two   *)
(* members with different bytes have different digests.                    *)
(***************************************************************************)
EXTENDS Naturals, Sequences, FiniteSets, FiniteSetsExt, Functions

CONSTANTS
  Contents,    \* bytes of a payload, and their SHA-256
  Size,        \* length of a content
  Paths,       \* member paths, see Path
  MaxMember, MaxTotal, MaxEntries, MaxManifest, MaxPath,
  NotSha,      \* a text that is no SHA-256
  None         \* null

\* A path: its name, its length in characters and in UTF-8 bytes, and what the
\* grammars of the readers ask of it.
Path == [
  name : STRING,
  chars : Nat, bytes : Nat,
  nfc : BOOLEAN,       \* in Unicode normal form C
  clean : BOOLEAN,     \* relative; no backslash; no empty, "." or ".." segment
  portable : BOOLEAN,  \* no colon, control character, trailing dot or space, device
  area : {"dagml", "methods", "artifacts", "workspace", "other"},  \* first segment
  form : {"n4mm", "n4me", "json", "parquet", "sqlite", "other"},   \* suffix
  stem : BOOLEAN,      \* one segment below its area, of letters, digits and _.-
  run : BOOLEAN,       \* workspace/runs/<run>/<child>
  live : BOOLEAN,      \* a name of SQLite's journals and temporary files
  spells : Contents \cup {None}]  \* the digest in artifacts/<digest>.json

ASSUME ManifestAssumption ==
  /\ Size \in [Contents -> Nat]
  /\ Paths \subseteq Path
  /\ \A p, q \in Paths : p.name = q.name => p = q
  /\ MaxMember \in Nat /\ MaxTotal \in Nat /\ MaxEntries \in Nat
  /\ MaxManifest \in Nat /\ MaxPath \in Nat
  /\ None \notin Contents \cup {NotSha} /\ NotSha \notin Contents

Sha(x) == x \in Contents
ShaOrNull(x) == x \in Contents \cup {None}

ManifestName == "manifest.json"

-----------------------------------------------------------------------------
(* A reference to a member: slot is the key of the manifest that holds it; *)
(* exact says that its keys are the closed set of its kind and that owner, *)
(* kind, schema, version and ABI major are the constants of that kind.     *)
(* The keys of a JSON object are distinct, so that only the slots that are *)
(* arrays can occur more than once.                                        *)

Digest == Contents \cup {NotSha}
Detail == [
  id : STRING \cup {None},                        \* artifact_id
  format : Nat, minor : Nat \cup {None},           \* format_version, abi_min_minor
  kind : STRING,                                   \* of a pipeline, of a workspace file
  state : STRING, backend : STRING, policy : STRING,  \* of a host sidecar
  run : STRING \cup {None}]                        \* of a workspace file
Reference == [slot : STRING, path : Paths, raw : Digest, semantic : Digest \cup {None},
              profile : STRING, exact : BOOLEAN, detail : Detail]
InventoryEntry == [path : Paths, regular : BOOLEAN, raw : Digest, size : Nat,
                   semantic : Digest \cup {None}, profile : STRING]

(* frozen is the version whose constants all closed sections of the        *)
(* manifest carry (keys, profile, identity, writer, dispatch, physical and *)
(* security profile, deferred artifacts), 0 if none; lists the optional    *)
(* keys of payloads.methods that are present; depth the nesting and bulk   *)
(* the length of its text.                                                 *)
Manifest == [
  version : Nat, frozen : Nat, kind : STRING,
  extension : {"absent", "object", "malformed"},
  migration : [exact : BOOLEAN, legacy : BOOLEAN, fixture : BOOLEAN, version : BOOLEAN,
               source : Digest] \cup {None},
  signature : [exact : BOOLEAN, bound : BOOLEAN] \cup {None},
  workspace : [exact : BOOLEAN, runs : Seq(STRING), payloads : Seq(Reference)] \cup {None},
  lists : SUBSET STRING,
  depth : Nat, bulk : Nat,
  refs : Seq(Reference),
  inventory : Seq(InventoryEntry)]
Payload == [path : Paths, body : Contents]

Slots(refs) == {refs[i].slot : i \in DOMAIN refs}
At(refs, slot) == refs[CHOOSE i \in DOMAIN refs : refs[i].slot = slot]
Of(refs, slots) == {i \in DOMAIN refs : refs[i].slot \in slots}
RefPaths(refs) == {refs[i].path : i \in DOMAIN refs}
Distinct(refs, is) == \A i, j \in is : refs[i].path = refs[j].path => i = j

-----------------------------------------------------------------------------
(* The inventory: a sequence of entries.                                   *)

InventoryPaths(inv) == {inv[k].path : k \in DOMAIN inv}
Unrepeated(inv) == \A k, l \in DOMAIN inv : inv[k].path = inv[l].path => k = l
EntryOf(inv, p) == inv[CHOOSE k \in DOMAIN inv : inv[k].path = p]

\* Mutant: only the digest of the bytes is compared.
Binds_RawOnly(ref, inv) ==
  \E k \in DOMAIN inv : inv[k].path = ref.path /\ inv[k].raw = ref.raw

\* A reference repeats the inventory entry of its path.
Binds(ref, inv) ==
  \E k \in DOMAIN inv :
    /\ inv[k].path = ref.path
    /\ inv[k].raw = ref.raw
    /\ inv[k].semantic = ref.semantic
    /\ inv[k].profile = ref.profile

-----------------------------------------------------------------------------
(* Payloads: a function from paths to contents; a request has a sequence.  *)

\* The first n lengths of a list, as a budget adds them up.
Total(lengths, n) ==
  LET sum[k \in 0 .. n] == IF k = 0 THEN 0 ELSE sum[k - 1] + lengths[k]
  IN  sum[n]

Lengths(seq) == [i \in DOMAIN seq |-> Size[seq[i].body]]
SizeOf(seq) == Total(Lengths(seq), Len(seq))
Members(seq) == [p \in {seq[i].path : i \in DOMAIN seq} |->
                   seq[CHOOSE i \in DOMAIN seq : seq[i].path = p].body]

\* Payloads of a request, before anything is looked up in them; their paths
\* are checked by the rule of each version.
Admitted(seq) ==
  /\ Len(seq) + 1 <= MaxEntries
  /\ Unrepeated(seq)
  /\ \A i \in DOMAIN seq :
       /\ seq[i].path.name # ManifestName
       /\ Size[seq[i].body] <= MaxMember
  /\ SizeOf(seq) <= MaxTotal

\* Every entry has the digest and the size of its payload.
Intact(inv, payloads) ==
  \A k \in DOMAIN inv :
    /\ inv[k].path \in DOMAIN payloads
    /\ inv[k].raw = payloads[inv[k].path]
    /\ inv[k].size = Size[payloads[inv[k].path]]

\* The writer fills digest and size in: seal(entry) is the entry completed.
Raw(entry, payloads) ==
  [entry EXCEPT !.raw = payloads[entry.path], !.size = Size[payloads[entry.path]]]
RawRef(ref, payloads) == [ref EXCEPT !.raw = payloads[ref.path]]
=============================================================================
