--------------------------- MODULE ArchiveContainer ---------------------------
(***************************************************************************)
(* The stored ZIP of an archive: what the writers lay out and what the two *)
(* preflights demand of it before they read a member (archive_v1.rs for    *)
(* V1; archive_v2.rs for V2, V3 and the version dispatch).                 *)
(*                                                                         *)
(* members is the central directory, one record per entry:                 *)
(*   path, size, crc   as the directory has them (crc is the content it    *)
(*                     was computed over)                                  *)
(*   offset            of the local header                                 *)
(*   body              the bytes that are there                            *)
(*   plain             no flag, compression, extra field, comment, disk    *)
(*   regular           neither a Unix file type nor the DOS directory bit  *)
(*   local             the local header repeats the directory, name too    *)
(* directory is where the central directory starts; tail is the end        *)
(* record: entries, offset, comment as declared, excess the bytes after it.*)
(***************************************************************************)
EXTENDS ArchiveManifestV1, ArchiveManifestV2, SequencesExt

CONSTANTS
  LocalHeader,   \* length of a local header without its name
  ManifestPath,  \* the path manifest.json
  EndMark        \* the number whose four bytes are the signature PK 05 06

ASSUME ContainerAssumption ==
  /\ LocalHeader \in Nat \ {0} /\ EndMark \in Nat
  /\ MaxManifest <= MaxMember
  /\ ManifestPath \in Paths /\ ManifestPath.name = ManifestName /\ V1PathOk(ManifestPath)

SpanOf(m) == LocalHeader + m.path.bytes + m.size
EndOf(m) == m.offset + SpanOf(m)
ManifestAt(zip) ==
  CHOOSE i \in DOMAIN zip.members : zip.members[i].path.name = ManifestName
Payloads(zip) ==
  {i \in DOMAIN zip.members : zip.members[i].path.name # ManifestName}

\* The members named in the directory.
Physical(zip) == {zip.members[i].path : i \in Payloads(zip)}
Body(zip, p) ==
  zip.members[CHOOSE i \in Payloads(zip) : zip.members[i].path = p].body
Contained(zip) == [p \in Physical(zip) |-> Body(zip, p)]
SizesIn(zip) ==
  [p \in Physical(zip) |->
     zip.members[CHOOSE i \in Payloads(zip) : zip.members[i].path = p].size]

-----------------------------------------------------------------------------
(* The writers.                                                            *)

\* The budgets of write_stored_zip (V1) and stored_zip (V2, V3).
Fits(bulk, seq) ==
  /\ bulk <= MaxManifest
  /\ bulk + SizeOf(seq) <= MaxTotal

\* append: manifest.json first, then the payloads.  The writers take them in
\* the order of their paths, here they stay in that of the request: no reader
\* asks for an order.
StoredZip(text, bulk, seq) ==
  LET names == <<ManifestPath>> \o [i \in DOMAIN seq |-> seq[i].path]
      body(i) == IF i = 1 THEN text ELSE seq[i - 1].body
      length(i) == IF i = 1 THEN bulk ELSE Size[seq[i - 1].body]
      regions == [i \in DOMAIN names |-> LocalHeader + names[i].bytes + length(i)]
      offset(i) == Total(regions, i - 1)
      end == Total(regions, Len(names))
  IN  [members   |-> [i \in DOMAIN names |->
                        [path |-> names[i], size |-> length(i), crc |-> body(i),
                         body |-> body(i), offset |-> offset(i),
                         plain |-> TRUE, regular |-> TRUE, local |-> TRUE]],
       directory |-> end,
       tail      |-> [entries |-> Len(names), offset |-> end, comment |-> 0, excess |-> 0]]

-----------------------------------------------------------------------------
(* The preflights.                                                         *)

\* zip_directory_bounds: entries, offset and the end record agree.
Bounded(zip) ==
  /\ zip.tail.entries = Len(zip.members)
  /\ zip.tail.entries \in 1 .. MaxEntries
  /\ zip.tail.offset = zip.directory

\* find_eocd of V1 looks for the signature from the end of the file and gives
\* up when a candidate is too close to the end to have a comment length: an
\* offset with the bytes of the signature lies behind the true record.
V1EndFound(zip) ==
  /\ zip.tail.offset # EndMark
  /\ zip.tail.comment = zip.tail.excess

\* Sizes of the first k members.
UpTo(zip, k) == Total([i \in DOMAIN zip.members |-> zip.members[i].size], k)

\* What every preflight asks of entry k besides a good path: kind and budgets.
EntryOk(zip, k) ==
  LET m == zip.members[k] IN
  /\ m.regular
  /\ \A j \in 1 .. k - 1 : zip.members[j].path # m.path
  /\ m.path.name = ManifestName => m.size <= MaxManifest
  /\ m.size <= MaxMember /\ UpTo(zip, k) <= MaxTotal

OneManifest(zip) ==
  \E i \in DOMAIN zip.members :
    zip.members[i].path.name = ManifestName
    /\ \A j \in DOMAIN zip.members : zip.members[j].path.name = ManifestName => i = j

\* locate_zip_members: headers agree, regions are disjoint and end before the
\* directory.
Located(zip) ==
  /\ \A i \in DOMAIN zip.members :
       zip.members[i].local /\ EndOf(zip.members[i]) <= zip.directory
  /\ \A i, j \in DOMAIN zip.members :
       i # j => \/ EndOf(zip.members[i]) <= zip.members[j].offset
                \/ EndOf(zip.members[j]) <= zip.members[i].offset

\* preflight_central_directory of V1 stops at the first entry it refuses; one
\* that is not plain is a capability it lacks.
V1Preflight(zip) ==
  LET refused == {k \in DOMAIN zip.members :
                    ~(zip.members[k].plain /\ V1PathOk(zip.members[k].path) /\ EntryOk(zip, k))}
  IN  IF ~(V1EndFound(zip) /\ Bounded(zip)) THEN "format"
      ELSE IF refused # {}
      THEN IF zip.members[Min(refused)].plain THEN "format" ELSE "unsupported"
      ELSE IF OneManifest(zip) /\ Located(zip) THEN "ok" ELSE "format"

\* The name of the manifest is exempt from path_ok.
V2NameOk(p) == p.name = ManifestName \/ V2PathOk(p)

\* preflight_zip_reader and locate_zip_members of V2: one kind of refusal.  It
\* takes the last signature that leaves room for a record, and its comment as
\* it comes.
V2Preflight(zip) ==
  IF /\ Bounded(zip)
     /\ \A k \in DOMAIN zip.members :
          zip.members[k].plain /\ V2NameOk(zip.members[k].path) /\ EntryOk(zip, k)
     /\ OneManifest(zip) /\ Located(zip)
  THEN "ok" ELSE "format"

\* read_zip_member.
Checked(zip, i) == zip.members[i].crc = zip.members[i].body
=============================================================================
