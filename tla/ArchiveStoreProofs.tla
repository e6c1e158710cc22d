------------------------- MODULE ArchiveStoreProofs -------------------------
(***************************************************************************)
(* What a loaded archive is, for every request, every file and every set   *)
(* of paths and contents: the load is a row of stages, each of which keeps *)
(* the file and hands on what the next one relies on, so that an archive   *)
(* is loaded only after the verification of its version has said "ok".     *)
(***************************************************************************)
EXTENDS ArchiveStore, FiniteSetTheorems, SequenceTheorems, WellFoundedInduction, TLAPS

Listed(s) == s \in Seq(Range(s))

\* What LoadedIsClosed says of a manifest and its payloads.
Closed(m, payloads) ==
  /\ InventoryPaths(m.inventory) = DOMAIN payloads
  /\ RefPaths(m.refs) = DOMAIN payloads
  /\ Unrepeated(m.inventory)
  /\ \A k \in DOMAIN m.inventory : m.inventory[k].raw = payloads[m.inventory[k].path]
  /\ \A i \in DOMAIN m.refs : m.refs[i].raw = payloads[m.refs[i].path]
  /\ m.version \in {2, 3} => Distinct(m.refs, DOMAIN m.refs)

-----------------------------------------------------------------------------
(* Lists and closed manifests.                                             *)

\* A function on the indices of a list is a list.
LEMMA ListedMap ==
  ASSUME NEW s, Listed(s), NEW t, DOMAIN t = DOMAIN s, t = [k \in DOMAIN s |-> t[k]]
  PROVE  Listed(t) /\ Len(t) = Len(s)
<1>1. s \in [1 .. Len(s) -> Range(s)] /\ Len(s) \in Nat
  BY DEF Listed
<1>2. t \in [1 .. Len(s) -> Range(t)]
  BY <1>1 DEF Range
<1> QED
  BY <1>1, <1>2 DEF Listed

\* An inventory of as many entries as a finite set has elements, each for its
\* own element, is for all of them.
LEMMA Covering ==
  ASSUME NEW S, IsFiniteSet(S), NEW inv, Listed(inv), Len(inv) = Cardinality(S),
         Unrepeated(inv), \A k \in DOMAIN inv : inv[k].path \in S
  PROVE  InventoryPaths(inv) = S
<1> DEFINE path == [k \in 1 .. Len(inv) |-> inv[k].path]
<1>1. DOMAIN inv = 1 .. Len(inv) /\ Len(inv) \in Nat
  BY DEF Listed
<1>2. path \in Injection(1 .. Len(inv), S)
  BY <1>1 DEF Injection, IsInjective, Unrepeated
<1>3. Cardinality(1 .. Len(inv)) = Cardinality(S)
  BY <1>1, FS_Interval
<1>4. path \in Surjection(1 .. Len(inv), S)
  BY <1>2, <1>3, FS_Injection
<1> QED
  BY <1>1, <1>4 DEF Surjection, InventoryPaths

\* The verification of V1 closes a manifest.
LEMMA V1Closed ==
  ASSUME NEW m, NEW payloads, V1Verify(m, payloads) = "ok"
  PROVE  Closed(m, payloads)
<1>1. /\ V1Dispatch(m, DOMAIN payloads) = "ok"
      /\ Intact(m.inventory, payloads)
  BY DEF V1Verify
<1>2. /\ V1ShapeOk(m) /\ ~V1Reserved(m)
      /\ V1InventoryOk(m.inventory, Declared(m.inventory))
      /\ DOMAIN payloads = InventoryPaths(m.inventory)
      /\ V1LinksOk(m)
  BY <1>1 DEF V1Dispatch
<1>3. V1Refs(m) = m.refs /\ m.version = 1
  BY <1>2 DEF V1ShapeOk, V1Reserved, V1Refs, V1FrozenOk
<1>4. /\ RefPaths(m.refs) = InventoryPaths(m.inventory)
      /\ \A i \in DOMAIN m.refs : Binds(m.refs[i], m.inventory)
  BY <1>2, <1>3 DEF V1LinksOk
<1> QED
  BY <1>1, <1>2, <1>3, <1>4 DEF Closed, V1InventoryOk, Intact, Binds

\* So does the verification of V2.
LEMMA V2Closed ==
  ASSUME NEW m, NEW payloads, Listed(m.inventory), IsFiniteSet(DOMAIN payloads),
         V2Verify(m, payloads) = "ok"
  PROVE  Closed(m, payloads)
<1>1. /\ V2Dispatch(m, SizesOf(payloads)) = "ok"
      /\ Intact(m.inventory, payloads)
  BY DEF V2Verify
<1>2. /\ V2SectionsOk(m)
      /\ V2InventoryOk(m.inventory, SizesOf(payloads))
      /\ V2ReferencesOk(m)
  BY <1>1 DEF V2Dispatch
<1>3. InventoryPaths(m.inventory) = DOMAIN payloads
  BY <1>2, Covering DEF V2InventoryOk, SizesOf
<1> QED
  BY <1>1, <1>2, <1>3 DEF Closed, V2InventoryOk, V2ReferencesOk, Intact, Binds

\* And the verification of V3.
LEMMA V3Closed ==
  ASSUME NEW m, NEW payloads, Listed(m.inventory), IsFiniteSet(DOMAIN payloads),
         V3Verify(m, payloads) = "ok"
  PROVE  Closed(m, payloads)
<1> DEFINE sizes == [p \in DOMAIN payloads |-> Size[payloads[p]]]
<1>1. /\ V3Dispatch(m, sizes) = "ok"
      /\ Intact(m.inventory, payloads)
  BY DEF V3Verify
<1>2. /\ V3InventoryOk(m.inventory, sizes)
      /\ \A i \in DOMAIN m.refs : Binds(m.refs[i], m.inventory)
      /\ Distinct(m.refs, DOMAIN m.refs)
      /\ RefPaths(m.refs) = InventoryPaths(m.inventory)
  BY <1>1 DEF V3Dispatch
<1>3. InventoryPaths(m.inventory) = DOMAIN payloads
  BY <1>2, Covering DEF V3InventoryOk
<1> QED
  BY <1>1, <1>2, <1>3 DEF Closed, V3InventoryOk, Intact, Binds

-----------------------------------------------------------------------------
(* What a writer prepares.                                                 *)

\* The manifest has the path and the digest of every payload, and no other.
Pins(m, payloads) ==
  /\ InventoryPaths(m.inventory) = DOMAIN payloads
  /\ \A k \in DOMAIN m.inventory : m.inventory[k].raw = payloads[m.inventory[k].path]

\* Two sets of payloads that one manifest pins are equal.
LEMMA PinnedEqual ==
  ASSUME NEW m, NEW x, NEW y, x = [p \in DOMAIN x |-> x[p]], y = [p \in DOMAIN y |-> y[p]],
         Pins(m, x), Pins(m, y)
  PROVE  x = y
<1>1. ASSUME NEW p \in DOMAIN x PROVE x[p] = y[p]
  BY DEF Pins, InventoryPaths
<1> QED
  BY <1>1 DEF Pins

\* A list is a list of any set its elements are in.
LEMMA ListedSeq ==
  ASSUME NEW S, NEW s \in Seq(S)
  PROVE  /\ Listed(s)
         /\ DOMAIN s = 1 .. Len(s) /\ Len(s) \in Nat
         /\ \A i \in DOMAIN s : s[i] \in S
<1>1. s \in [1 .. Len(s) -> S] /\ Len(s) \in Nat
  OBVIOUS
<1>2. s \in [1 .. Len(s) -> Range(s)]
  BY <1>1 DEF Range
<1> QED
  BY <1>1, <1>2 DEF Listed

\* The payloads of a request are finitely many.
LEMMA MembersFinite ==
  ASSUME NEW seq \in Seq(Payload)
  PROVE  /\ IsFiniteSet(DOMAIN Members(seq))
         /\ Members(seq) = [p \in DOMAIN Members(seq) |-> Members(seq)[p]]
<1> DEFINE S == 1 .. Len(seq)
           path == [i \in S |-> seq[i].path]
<1>1. DOMAIN seq = S /\ Len(seq) \in Nat
  OBVIOUS
<1>2. path \in Surjection(S, DOMAIN Members(seq))
  BY <1>1 DEF Surjection, Members
<1>3. IsFiniteSet(S)
  BY <1>1, FS_Interval
<1> QED
  BY <1>2, <1>3, FS_Surjection DEF Members

\* The writer of V1 fills in the digests and changes no path.
LEMMA V1Derived ==
  ASSUME NEW m \in Manifest, NEW payloads
  PROVE  LET inv == V1Derive(m, payloads).inventory IN
         /\ Listed(inv)
         /\ DOMAIN inv = DOMAIN m.inventory
         /\ \A k \in DOMAIN inv : /\ inv[k].path = m.inventory[k].path
                                  /\ inv[k].raw = payloads[m.inventory[k].path]
<1>1. m.inventory \in Seq(InventoryEntry)
  BY DEF Manifest
<1>2. Listed(m.inventory) /\ \A k \in DOMAIN m.inventory : m.inventory[k] \in InventoryEntry
  BY <1>1, ListedSeq
<1>3. V1Derive(m, payloads).inventory = [k \in DOMAIN m.inventory |-> Raw(m.inventory[k], payloads)]
  BY DEF V1Derive, Manifest
<1>4. ASSUME NEW e \in InventoryEntry
      PROVE  Raw(e, payloads).path = e.path /\ Raw(e, payloads).raw = payloads[e.path]
  BY DEF Raw, InventoryEntry
<1> QED
  BY <1>2, <1>3, <1>4, ListedMap

\* The inventory a writer derives is a list.
LEMMA DerivedListed ==
  ASSUME NEW m \in Manifest, NEW version \in 1 .. 3, NEW payloads
  PROVE  Listed(Derive(version, m, payloads).inventory)
<1>1. m.inventory \in Seq(InventoryEntry)
  BY DEF Manifest
<1>2. Listed(m.inventory)
  BY <1>1, ListedSeq
<1>3. CASE version = 1
  BY <1>3, V1Derived DEF Derive
<1>4. CASE version = 2
  <2>1. V2Derive(m, payloads).inventory = [k \in DOMAIN m.inventory |-> V2DeriveEntry(m.inventory[k], payloads)]
    BY DEF V2Derive, Manifest
  <2> QED
    BY <1>2, <1>4, <2>1, ListedMap DEF Derive
<1>5. CASE version = 3
  <2>1. V3Derive(m, payloads).inventory =
          [k \in DOMAIN m.inventory |-> V3Seal(m.inventory[k], Raw(m.inventory[k], payloads), payloads)]
    BY DEF V3Derive, Manifest
  <2> QED
    BY <1>2, <1>5, <2>1, ListedMap DEF Derive
<1> QED
  BY <1>3, <1>4, <1>5

\* A request that is accepted is derived to a manifest that pins its payloads,
\* none of which is called manifest.json.
LEMMA Prepared ==
  ASSUME NEW m \in Manifest, NEW version \in 1 .. 3, NEW seq \in Seq(Payload),
         Prepare(version, m, seq) = "ok"
  PROVE  /\ Pins(Derive(version, m, Members(seq)), Members(seq))
         /\ \A i \in DOMAIN seq : seq[i].path.name # ManifestName
<1> DEFINE payloads == Members(seq)
           d == Derive(version, m, payloads)
<1>1. IsFiniteSet(DOMAIN payloads) /\ Listed(d.inventory)
  BY MembersFinite, DerivedListed
<1>2. CASE version = 1
  <2>1. V1Prepare(m, seq) = "ok" /\ d = V1Derive(m, payloads)
    BY <1>2 DEF Prepare, Derive
  <2>2. InventoryPaths(m.inventory) = DOMAIN payloads /\ Admitted(seq)
    BY <2>1 DEF V1Prepare
  <2>3. /\ DOMAIN d.inventory = DOMAIN m.inventory
        /\ \A k \in DOMAIN m.inventory : /\ d.inventory[k].path = m.inventory[k].path
                                         /\ d.inventory[k].raw = payloads[m.inventory[k].path]
    BY <2>1, V1Derived
  <2>4. Pins(d, payloads)
    BY <2>2, <2>3 DEF Pins, InventoryPaths
  <2> QED
    BY <2>2, <2>4 DEF Admitted
<1>3. CASE version = 2
  <2>1. V2Prepare(m, seq) = "ok" /\ d = V2Derive(m, payloads)
    BY <1>3 DEF Prepare, Derive
  <2>2. V2Verify(d, payloads) = "ok" /\ Admitted(seq)
    BY <2>1 DEF V2Prepare
  <2>3. Closed(d, payloads)
    BY <1>1, <2>2, V2Closed
  <2> QED
    BY <2>2, <2>3 DEF Admitted, Closed, Pins
<1>4. CASE version = 3
  <2>1. V3Prepare(m, seq) = "ok" /\ d = V3Derive(m, payloads)
    BY <1>4 DEF Prepare, Derive
  <2>2. V3Verify(d, payloads) = "ok" /\ Admitted(seq)
    BY <2>1 DEF V3Prepare
  <2>3. Closed(d, payloads)
    BY <1>1, <2>2, V3Closed
  <2> QED
    BY <2>2, <2>3 DEF Admitted, Closed, Pins
<1> QED
  BY <1>2, <1>3, <1>4

-----------------------------------------------------------------------------
(* The file.                                                               *)

\* A value with an inventory.
Inventoried(v) == "inventory" \in DOMAIN v /\ Listed(v.inventory)

\* An entry of the directory: the manifest, or bytes of the size it declares.
Entry(e) ==
  /\ e = [path |-> e.path, size |-> e.size, crc |-> e.crc, body |-> e.body,
          offset |-> e.offset, plain |-> e.plain, regular |-> e.regular, local |-> e.local]
  /\ IF e.path.name = ManifestName
     THEN /\ e.body = [value |-> e.body.value, text |-> e.body.text]
          /\ Inventoried(e.body.value)
     ELSE e.size = Size[e.body]

WellFormed(z) ==
  /\ z = [members |-> z.members, directory |-> z.directory, tail |-> z.tail]
  /\ Listed(z.members)
  /\ \A i \in DOMAIN z.members : Entry(z.members[i])

\* Entry i of a stored file: the manifest, then the payloads of the request.
PathAt(seq, i) == IF i = 1 THEN ManifestPath ELSE seq[i - 1].path
BodyAt(text, seq, i) == IF i = 1 THEN text ELSE seq[i - 1].body
LengthAt(bulk, seq, i) == IF i = 1 THEN bulk ELSE Size[seq[i - 1].body]
Regions(bulk, seq) ==
  [i \in 1 .. Len(seq) + 1 |-> LocalHeader + PathAt(seq, i).bytes + LengthAt(bulk, seq, i)]
EntryAt(text, bulk, seq, i) ==
  [path |-> PathAt(seq, i), size |-> LengthAt(bulk, seq, i),
   crc |-> BodyAt(text, seq, i), body |-> BodyAt(text, seq, i),
   offset |-> Total(Regions(bulk, seq), i - 1),
   plain |-> TRUE, regular |-> TRUE, local |-> TRUE]

\* The entries of a stored file, one after the other.
LEMMA StoredIs ==
  ASSUME NEW text, NEW bulk, NEW seq \in Seq(Payload)
  PROVE  LET n == Len(seq) + 1
             end == Total(Regions(bulk, seq), n)
         IN  StoredZip(text, bulk, seq) =
               [members   |-> [i \in 1 .. n |-> EntryAt(text, bulk, seq, i)],
                directory |-> end,
                tail      |-> [entries |-> n, offset |-> end, comment |-> 0, excess |-> 0]]
<1> DEFINE n == Len(seq) + 1
           names == <<ManifestPath>> \o [i \in DOMAIN seq |-> seq[i].path]
           length(i) == IF i = 1 THEN bulk ELSE Size[seq[i - 1].body]
           regions == [i \in DOMAIN names |-> LocalHeader + names[i].bytes + length(i)]
           record(i) ==
             LET body == IF i = 1 THEN text ELSE seq[i - 1].body IN
             [path |-> names[i], size |-> length(i), crc |-> body, body |-> body,
              offset |-> Total(regions, i - 1), plain |-> TRUE, regular |-> TRUE, local |-> TRUE]
<1>1. /\ Len(names) = n /\ DOMAIN names = 1 .. n
      /\ \A i \in 1 .. n : names[i] = PathAt(seq, i)
  <2>1. DOMAIN seq = 1 .. Len(seq) /\ Len(seq) \in Nat /\ \A i \in DOMAIN seq : seq[i] \in Payload
    BY ListedSeq
  <2>2. [i \in DOMAIN seq |-> seq[i].path] \in Seq(Paths)
    BY <2>1 DEF Payload
  <2>3. ManifestPath \in Paths
    BY ContainerAssumption
  <2> QED
    BY <2>1, <2>2, <2>3 DEF PathAt
<1>2. StoredZip(text, bulk, seq) =
        [members   |-> [i \in DOMAIN names |-> record(i)],
         directory |-> Total(regions, Len(names)),
         tail      |-> [entries |-> Len(names), offset |-> Total(regions, Len(names)),
                        comment |-> 0, excess |-> 0]]
  BY Zenon DEF StoredZip
<1> HIDE DEF names
<1>3. regions = Regions(bulk, seq)
  BY <1>1 DEF Regions, LengthAt
<1>4. \A i \in 1 .. n : record(i) = EntryAt(text, bulk, seq, i)
  BY <1>1, <1>3 DEF EntryAt, BodyAt, LengthAt
<1>5. [i \in DOMAIN names |-> record(i)] = [i \in 1 .. n |-> EntryAt(text, bulk, seq, i)]
  <2> HIDE DEF record
  <2> QED
    BY <1>1, <1>4
<1> HIDE DEF record, regions
<1> QED
  BY <1>1, <1>2, <1>3, <1>5

\* What a writer lays out.
LEMMA StoredWellFormed ==
  ASSUME NEW v, Inventoried(v), NEW bulk, NEW seq \in Seq(Payload),
         \A i \in DOMAIN seq : seq[i].path.name # ManifestName
  PROVE  WellFormed(StoredZip(Document(v), bulk, seq))
<1> DEFINE n == Len(seq) + 1
           z == StoredZip(Document(v), bulk, seq)
<1>1. DOMAIN seq = 1 .. Len(seq) /\ Len(seq) \in Nat
  BY ListedSeq
<1>2. PICK end, tail :
        z = [members   |-> [i \in 1 .. n |-> EntryAt(Document(v), bulk, seq, i)],
             directory |-> end, tail |-> tail]
  BY StoredIs
<1> HIDE DEF z
<1>3. /\ z = [members |-> z.members, directory |-> z.directory, tail |-> z.tail]
      /\ z.members = [i \in 1 .. n |-> EntryAt(Document(v), bulk, seq, i)]
  BY <1>2
<1>4. Listed(z.members)
  <2>1. z.members \in [1 .. n -> Range(z.members)] /\ n \in Nat
    BY <1>1, <1>3 DEF Range
  <2> QED
    BY <2>1 DEF Listed
<1>5. ASSUME NEW i \in 1 .. n PROVE Entry(EntryAt(Document(v), bulk, seq, i))
  <2>1. CASE i = 1
    BY <2>1, ContainerAssumption DEF EntryAt, PathAt, BodyAt, LengthAt, Entry, Document
  <2>2. CASE i # 1
    <3>1. i - 1 \in DOMAIN seq
      BY <1>1, <2>2
    <3> QED
      BY <2>2, <3>1 DEF EntryAt, PathAt, BodyAt, LengthAt, Entry
  <2> QED
    BY <2>1, <2>2
<1> QED
  BY <1>3, <1>4, <1>5 DEF WellFormed, z

\* A list with another element, one element less, or one more.
LEMMA ListUpdated ==
  ASSUME NEW s, Listed(s), NEW i \in DOMAIN s, NEW x
  PROVE  /\ Listed([s EXCEPT ![i] = x])
         /\ \A k \in DOMAIN [s EXCEPT ![i] = x] : [s EXCEPT ![i] = x][k] \in Range(s) \cup {x}
<1>1. s \in Seq(Range(s) \cup {x})
  BY DEF Listed
<1>2. [s EXCEPT ![i] = x] \in Seq(Range(s) \cup {x})
  BY <1>1
<1> QED
  BY <1>2, ListedSeq

LEMMA ListShortened ==
  ASSUME NEW s, Listed(s), NEW i \in DOMAIN s
  PROVE  /\ Listed(RemoveAt(s, i))
         /\ \A k \in DOMAIN RemoveAt(s, i) : RemoveAt(s, i)[k] \in Range(s)
<1>1. RemoveAt(s, i) \in Seq(Range(s))
  BY DEF Listed, RemoveAt
<1> QED
  BY <1>1, ListedSeq

LEMMA ListExtended ==
  ASSUME NEW s, Listed(s), NEW x
  PROVE  /\ Listed(Append(s, x))
         /\ \A k \in DOMAIN Append(s, x) : Append(s, x)[k] \in Range(s) \cup {x}
<1>1. s \in Seq(Range(s) \cup {x})
  BY DEF Listed
<1>2. Append(s, x) \in Seq(Range(s) \cup {x})
  BY <1>1
<1> QED
  BY <1>2, ListedSeq

\* A change of the file leaves a file.
LEMMA TamperWellFormed ==
  ASSUME WellFormed(zip), Tamper
  PROVE  WellFormed(zip')
<1>1. PICK i \in DOMAIN zip.members :
         \/ \E b \in Bodies(zip.members[i]) : \E m \in Rewritten(zip.members[i], b) :
              zip' = [zip EXCEPT !.members[i] = m]
         \/ \E m \in Headers(zip.members[i]) : zip' = [zip EXCEPT !.members[i] = m]
         \/ zip' = [zip EXCEPT !.members = RemoveAt(@, i), !.tail.entries = @ - 1]
         \/ zip' = [zip EXCEPT !.members = Append(@, @[i]), !.tail.entries = @ + 1]
         \/ zip' = [zip EXCEPT !.tail.excess = 1]
         \/ zip' = [zip EXCEPT !.tail.offset = zip.members[i].offset]
  BY DEF Tamper
<1> DEFINE e == zip.members[i]
<1>2. Entry(e) /\ \A x \in Range(zip.members) : Entry(x)
  BY DEF WellFormed, Range
<1>3. ASSUME NEW b \in Bodies(e), NEW m \in Rewritten(e, b) PROVE Entry(m)
  <2>1. m.body = b /\ m.path = e.path /\ m.size = e.size
    BY <1>2, <1>3 DEF Rewritten, Entry
  <2>2. m = [path |-> m.path, size |-> m.size, crc |-> m.crc, body |-> m.body,
             offset |-> m.offset, plain |-> m.plain, regular |-> m.regular, local |-> m.local]
    BY <1>2, <1>3 DEF Rewritten, Entry
  <2>3. CASE e.path.name = ManifestName
    <3>1. CASE \E v : v \in Manifest /\ b = [e.body EXCEPT !.value = v]
      <4>1. PICK v : v \in Manifest /\ b = [e.body EXCEPT !.value = v]
        BY <3>1
      <4>2. v.inventory \in Seq(InventoryEntry) /\ "inventory" \in DOMAIN v
        BY <4>1 DEF Manifest
      <4>3. Inventoried(v)
        BY <4>2, ListedSeq DEF Inventoried
      <4>4. b = [value |-> v, text |-> e.body.text]
        BY <1>2, <2>3, <4>1 DEF Entry
      <4> QED
        BY <2>1, <2>2, <2>3, <4>3, <4>4 DEF Entry
    <3>2. CASE \E t : b = [e.body EXCEPT !.text = t]
      <4>1. PICK t : b = [e.body EXCEPT !.text = t]
        BY <3>2
      <4>2. b = [value |-> e.body.value, text |-> t] /\ Inventoried(e.body.value)
        BY <1>2, <2>3, <4>1 DEF Entry
      <4> QED
        BY <2>1, <2>2, <2>3, <4>2 DEF Entry
    <3> QED
      BY <1>3, <2>3, <3>1, <3>2 DEF Bodies
  <2>4. CASE e.path.name # ManifestName
    BY <1>2, <1>3, <2>1, <2>2, <2>4 DEF Bodies, Entry
  <2> QED
    BY <2>3, <2>4
<1>4. ASSUME NEW m \in Headers(e) PROVE Entry(m)
  BY <1>2, <1>4 DEF Headers, Entry
<1>5. /\ zip' = [members |-> zip'.members, directory |-> zip'.directory, tail |-> zip'.tail]
      /\ \/ \E m : Entry(m) /\ zip'.members = [zip.members EXCEPT ![i] = m]
         \/ zip'.members = RemoveAt(zip.members, i)
         \/ zip'.members = Append(zip.members, e)
         \/ zip'.members = zip.members
  BY <1>1, <1>3, <1>4 DEF WellFormed
<1>6. Listed(zip.members)
  BY DEF WellFormed
<1>7. Listed(zip'.members) /\ \A k \in DOMAIN zip'.members : Entry(zip'.members[k])
  <2>1. CASE \E m : Entry(m) /\ zip'.members = [zip.members EXCEPT ![i] = m]
    <3>1. PICK m : Entry(m) /\ zip'.members = [zip.members EXCEPT ![i] = m]
      BY <2>1
    <3> QED
      BY <1>2, <1>6, <3>1, ListUpdated
  <2>2. CASE zip'.members = RemoveAt(zip.members, i)
    <3> DEFINE t == RemoveAt(zip.members, i)
    <3>1. Listed(t) /\ \A k \in DOMAIN t : t[k] \in Range(zip.members)
      BY <1>6, ListShortened
    <3> QED
      BY <1>2, <2>2, <3>1
  <2>3. CASE zip'.members = Append(zip.members, e)
    <3> DEFINE t == Append(zip.members, e)
    <3>1. Listed(t) /\ \A k \in DOMAIN t : t[k] \in Range(zip.members) \cup {e}
      BY <1>6, ListExtended
    <3> HIDE DEF t
    <3> QED
      BY <1>2, <2>3, <3>1 DEF t
  <2>4. CASE zip'.members = zip.members
    BY <2>4 DEF WellFormed
  <2> QED
    BY <1>5, <2>1, <2>2, <2>3, <2>4
<1> QED
  BY <1>5, <1>7 DEF WellFormed

\* The payloads of a file are finitely many and have the sizes it declares.
LEMMA ContainedPayloads ==
  ASSUME NEW z, WellFormed(z)
  PROVE  /\ IsFiniteSet(DOMAIN Contained(z)) /\ DOMAIN Contained(z) = Physical(z)
         /\ Contained(z) = [p \in DOMAIN Contained(z) |-> Contained(z)[p]]
         /\ [p \in DOMAIN Contained(z) |-> Size[Contained(z)[p]]] = SizesIn(z)
<1> DEFINE path == [i \in Payloads(z) |-> z.members[i].path]
<1>1. DOMAIN z.members = 1 .. Len(z.members) /\ Len(z.members) \in Nat
  BY DEF WellFormed, Listed
<1>2. IsFiniteSet(1 .. Len(z.members))
  BY <1>1, FS_Interval
<1>3. IsFiniteSet(Payloads(z))
  BY <1>1, <1>2, FS_Subset DEF Payloads
<1>4. path \in Surjection(Payloads(z), Physical(z))
  BY DEF Surjection, Physical
<1>5. IsFiniteSet(Physical(z))
  BY <1>3, <1>4, FS_Surjection
<1>6. ASSUME NEW p \in Physical(z)
      PROVE  Size[Contained(z)[p]] = SizesIn(z)[p]
  <2> DEFINE i == CHOOSE i \in Payloads(z) : z.members[i].path = p
  <2>1. i \in Payloads(z)
    BY <1>6 DEF Physical
  <2>2. Entry(z.members[i]) /\ z.members[i].path.name # ManifestName
    BY <2>1 DEF Payloads, WellFormed
  <2>3. z.members[i].size = Size[z.members[i].body]
    BY <2>2 DEF Entry
  <2> QED
    BY <2>3 DEF Contained, Body, SizesIn
<1> QED
  BY <1>5, <1>6 DEF Contained, SizesIn

\* The manifest of a file has an inventory, whatever its text says.
LEMMA ParsedInventoried ==
  ASSUME WellFormed(zip), OneManifest(zip)
  PROVE  Listed(Parsed(StoredDocument).inventory)
<1>1. /\ ManifestAt(zip) \in DOMAIN zip.members
      /\ zip.members[ManifestAt(zip)].path.name = ManifestName
  BY DEF OneManifest, ManifestAt
<1>2. Inventoried(StoredDocument.value)
  BY <1>1 DEF WellFormed, Entry, StoredDocument
<1> QED
  BY <1>2 DEF Parsed, Inventoried

-----------------------------------------------------------------------------
(* The invariant: what each stage leaves to the next.                      *)

Exists == {"stored", "loaded"} \cup Stages

DispatchVerdict(r, m, z) ==
  CASE r = 1 -> V1Dispatch(m, Physical(z))
    [] r = 2 -> V2Dispatch(m, SizesIn(z))
    [] r = 3 -> V3Dispatch(m, SizesIn(z))

VerifyVerdict(r, m, payloads) ==
  CASE r = 1 -> V1Verify(m, payloads)
    [] r = 2 -> V2Verify(m, payloads)
    [] r = 3 -> V3Verify(m, payloads)

\* The request stays one that a caller can make.
RequestInv ==
  pc = "request" =>
    request \in [version : 1 .. 3, manifest : Manifest, payloads : Seq(Payload)]

\* There is a file, and what its writer laid out was pinned by its manifest.
FileInv ==
  pc \in Exists =>
    /\ WellFormed(zip)
    /\ Pins(written.manifest, written.payloads)
    /\ written.payloads = [p \in DOMAIN written.payloads |-> written.payloads[p]]

\* What the load has, and has decided, when it comes to a stage.
LoadInv ==
  /\ held = [manifest |-> held.manifest, payloads |-> held.payloads]
  /\ pc \in {"manifest", "dispatch", "payloads", "verify"} => OneManifest(zip)
  /\ pc \in {"dispatch", "payloads", "verify", "loaded"} =>
       reader \in 1 .. 3 /\ Listed(held.manifest.inventory)
  /\ pc \in {"payloads", "verify"} => DispatchVerdict(reader, held.manifest, zip) = "ok"
  /\ pc \in {"verify", "loaded"} => held.payloads = Contained(zip)
  /\ pc = "loaded" => VerifyVerdict(reader, held.manifest, held.payloads) = "ok"

Inv == TypeOK /\ RequestInv /\ FileInv /\ LoadInv /\ DispatchDecides /\ CapabilityLast

\* Preflights refuse a file without exactly one manifest.
LEMMA PreflightVerdicts ==
  ASSUME NEW z
  PROVE  /\ V1Preflight(z) \in {"ok", "format", "unsupported"}
         /\ V2Preflight(z) \in {"ok", "format"}
         /\ V1Preflight(z) = "ok" \/ V2Preflight(z) = "ok" => OneManifest(z)
<1>1. V1Preflight(z) \in {"ok", "format", "unsupported"} /\ (V1Preflight(z) = "ok" => OneManifest(z))
  BY DEF V1Preflight
<1>2. V2Preflight(z) \in {"ok", "format"} /\ (V2Preflight(z) = "ok" => OneManifest(z))
  BY DEF V2Preflight
<1> QED
  BY <1>1, <1>2

\* The dispatch of V1 alone knows capabilities it lacks, and asks for them last.
LEMMA DispatchVerdicts ==
  ASSUME NEW r \in 1 .. 3, NEW m, NEW z
  PROVE  /\ DispatchVerdict(r, m, z) \in {"ok", "format", "unsupported"}
         /\ DispatchVerdict(r, m, z) = "unsupported" =>
              /\ InventoryPaths(m.inventory) = Physical(z)
              /\ V1LinksOk(m)
<1>1. CASE r = 1
  <2>1. DispatchVerdict(r, m, z) = V1Dispatch(m, Physical(z))
    BY <1>1 DEF DispatchVerdict
  <2>2. V1Dispatch(m, Physical(z)) \in {"ok", "format", "unsupported"}
    BY DEF V1Dispatch
  <2>3. V1Dispatch(m, Physical(z)) = "unsupported" =>
          Physical(z) = InventoryPaths(m.inventory) /\ V1LinksOk(m)
    BY DEF V1Dispatch
  <2> QED
    BY <2>1, <2>2, <2>3
<1>2. CASE r = 2
  BY <1>2 DEF DispatchVerdict, V2Dispatch
<1>3. CASE r = 3
  BY <1>3 DEF DispatchVerdict, V3Dispatch
<1> QED
  BY <1>1, <1>2, <1>3

\* What was dispatched fails its verification only for damaged bytes.
LEMMA VerifyVerdicts ==
  ASSUME NEW r \in 1 .. 3, NEW m, NEW z, WellFormed(z), DispatchVerdict(r, m, z) = "ok"
  PROVE  VerifyVerdict(r, m, Contained(z)) \in {"ok", "integrity"}
<1>1. CASE r = 1
  <2>1. V1Dispatch(m, DOMAIN Contained(z)) = "ok"
    BY <1>1, ContainedPayloads DEF DispatchVerdict
  <2> QED
    BY <1>1, <2>1 DEF VerifyVerdict, V1Verify
<1>2. CASE r = 2
  <2>1. V2Dispatch(m, SizesOf(Contained(z))) = "ok"
    BY <1>2, ContainedPayloads DEF DispatchVerdict, SizesOf
  <2> QED
    BY <1>2, <2>1 DEF VerifyVerdict, V2Verify
<1>3. CASE r = 3
  <2>1. V3Dispatch(m, [p \in DOMAIN Contained(z) |-> Size[Contained(z)[p]]]) = "ok"
    BY <1>3, ContainedPayloads DEF DispatchVerdict
  <2> QED
    BY <1>3, <2>1 DEF VerifyVerdict, V3Verify
<1> QED
  BY <1>1, <1>2, <1>3

\* The writers refuse in four ways at most.
LEMMA PrepareVerdicts ==
  ASSUME NEW version \in 1 .. 3, NEW m, NEW seq
  PROVE  Prepare(version, m, seq) \in Verdicts
<1>1. CASE version = 1
  BY <1>1 DEF Prepare, V1Prepare, Verdicts
<1>2. CASE version = 2
  BY <1>2 DEF Prepare, V2Prepare, V2Verify, Verdicts
<1>3. CASE version = 3
  BY <1>3 DEF Prepare, V3Prepare, V3Verify, Verdicts
<1> QED
  BY <1>1, <1>2, <1>3

LEMMA InitInv == Init => Inv
<1> SUFFICES ASSUME Init PROVE Inv
  OBVIOUS
<1>1. TypeOK
  BY StoreAssumption DEF Init, TypeOK, Refused, Stages, Verdicts
<1>2. RequestInv
  BY StoreAssumption DEF Init, RequestInv
<1>3. FileInv /\ LoadInv
  BY DEF Init, FileInv, LoadInv, Exists, Stages, Nothing
<1>4. DispatchDecides /\ CapabilityLast
  BY DEF Init, DispatchDecides, CapabilityLast, Refused
<1> QED
  BY <1>1, <1>2, <1>3, <1>4 DEF Inv

\* The caller changes a request into another one.
LEMMA AlterInv ==
  ASSUME Inv, Alter
  PROVE  Inv'
<1> USE DEF Inv
<1>1. pc = "request" /\ pc' = "request" /\ changes' = changes + 1 /\ changes < MaxChanges
      /\ UNCHANGED <<reader, zip, held, verdict, stage, written, pristine>>
  BY DEF Alter
<1>2. TypeOK'
  BY <1>1, StoreAssumption DEF TypeOK, Refused
<1>3. FileInv' /\ LoadInv' /\ DispatchDecides' /\ CapabilityLast'
  BY <1>1 DEF FileInv, LoadInv, Exists, Stages, DispatchDecides, CapabilityLast, Refused
<1>4. RequestInv'
  <2> DEFINE Request == [version : 1 .. 3, manifest : Manifest, payloads : Seq(Payload)]
  <2>1. request \in Request
    BY <1>1 DEF RequestInv
  <2>2. ASSUME NEW i \in DOMAIN request.payloads PROVE request.payloads[i] \in Payload
    BY <2>1
  <2>3. ASSUME NEW m \in Manifest PROVE [request EXCEPT !.manifest = m] \in Request
    BY <2>1
  <2>4. ASSUME NEW i \in DOMAIN request.payloads, NEW x \in Payload
        PROVE  [request EXCEPT !.payloads[i] = x] \in Request
    BY <2>1
  <2>5. ASSUME NEW i \in DOMAIN request.payloads
        PROVE  [request EXCEPT !.payloads = RemoveAt(@, i)] \in Request
    <3>1. RemoveAt(request.payloads, i) \in Seq(Payload)
      BY <2>1 DEF RemoveAt
    <3> QED
      BY <2>1, <3>1
  <2>6. ASSUME NEW p, NEW q \in Paths PROVE Moved(request, p, q) \in Request
    <3> DEFINE at(x) == IF x.path = p THEN [x EXCEPT !.path = q] ELSE x
               m == request.manifest
               refs == [i \in DOMAIN m.refs |-> at(m.refs[i])]
               inv == [k \in DOMAIN m.inventory |-> at(m.inventory[k])]
               payloads == [i \in DOMAIN request.payloads |-> at(request.payloads[i])]
    <3>1. m \in Manifest /\ request.payloads \in Seq(Payload)
      BY <2>1
    <3>2. m.refs \in Seq(Reference) /\ m.inventory \in Seq(InventoryEntry)
      BY <3>1 DEF Manifest
    <3>3. refs \in Seq(Reference)
      <4>1. ASSUME NEW x \in Reference PROVE at(x) \in Reference
        BY <2>6 DEF Reference
      <4> QED
        BY <3>2, <4>1
    <3>4. inv \in Seq(InventoryEntry)
      <4>1. ASSUME NEW x \in InventoryEntry PROVE at(x) \in InventoryEntry
        BY <2>6 DEF InventoryEntry
      <4> QED
        BY <3>2, <4>1
    <3>5. payloads \in Seq(Payload)
      <4>1. ASSUME NEW x \in Payload PROVE at(x) \in Payload
        BY <2>6 DEF Payload
      <4> QED
        BY <3>1, <4>1
    <3>6. [[m EXCEPT !.refs = refs] EXCEPT !.inventory = inv] \in Manifest
      <4> HIDE DEF refs, inv
      <4> QED
        BY <3>1, <3>3, <3>4 DEF Manifest
    <3>7. Moved(request, p, q) =
            [request EXCEPT !.manifest = [[m EXCEPT !.refs = refs] EXCEPT !.inventory = inv],
                            !.payloads = payloads]
      BY <2>1 DEF Moved, Manifest
    <3> QED
      BY <2>1, <3>5, <3>6, <3>7
  <2>7. /\ \A x \in Payload, c \in Contents : [x EXCEPT !.body = c] \in Payload
        /\ \A x \in Payload, q \in Paths : [x EXCEPT !.path = q] \in Payload
    BY DEF Payload
  <2>8. \/ \E m \in Manifest : request' = [request EXCEPT !.manifest = m]
        \/ \E i \in DOMAIN request.payloads :
             \/ \E x \in Payload : request' = [request EXCEPT !.payloads[i] = x]
             \/ \E p, q \in Paths : request' = Moved(request, p, q)
             \/ request' = [request EXCEPT !.payloads = RemoveAt(@, i)]
    <3>1. ASSUME NEW i \in DOMAIN request.payloads, NEW c \in Contents,
                 request' = [request EXCEPT !.payloads[i].body = c]
          PROVE  \E x \in Payload : request' = [request EXCEPT !.payloads[i] = x]
      <4>1. [request.payloads[i] EXCEPT !.body = c] \in Payload
        BY <2>2, <2>7, <3>1
      <4>2. request' = [request EXCEPT !.payloads[i] = [request.payloads[i] EXCEPT !.body = c]]
        BY <2>1, <3>1
      <4> QED
        BY <4>1, <4>2
    <3>2. ASSUME NEW i \in DOMAIN request.payloads, NEW q \in Paths,
                 request' = [request EXCEPT !.payloads[i].path = q]
          PROVE  \E x \in Payload : request' = [request EXCEPT !.payloads[i] = x]
      <4>1. [request.payloads[i] EXCEPT !.path = q] \in Payload
        BY <2>2, <2>7, <3>2
      <4>2. request' = [request EXCEPT !.payloads[i] = [request.payloads[i] EXCEPT !.path = q]]
        BY <2>1, <3>2
      <4> QED
        BY <4>1, <4>2
    <3>3. ASSUME NEW i \in DOMAIN request.payloads PROVE request.payloads[i].path \in Paths
      BY <2>2 DEF Payload
    <3> QED
      BY <3>1, <3>2, <3>3 DEF Alter
  <2> QED
    BY <2>3, <2>4, <2>5, <2>6, <2>8 DEF RequestInv
<1> QED
  BY <1>2, <1>3, <1>4

\* The writer lays out what it derived, or refuses.
LEMMA WriteInv ==
  ASSUME Inv, Write
  PROVE  Inv'
<1> USE DEF Inv
<1> DEFINE payloads == Members(request.payloads)
           prepared == Prepare(request.version, request.manifest, request.payloads)
           m == Derive(request.version, request.manifest, payloads)
           decided == IF prepared = "ok" /\ ~Fits(m.bulk, request.payloads) THEN "format" ELSE prepared
<1>1. pc = "request" /\ UNCHANGED <<reader, request, held, pristine, changes>>
  BY DEF Write
<1>2. /\ request.version \in 1 .. 3 /\ request.manifest \in Manifest
      /\ request.payloads \in Seq(Payload)
  BY <1>1 DEF RequestInv
<1>3. decided \in Verdicts
  BY <1>2, PrepareVerdicts DEF Verdicts
<1>4. CASE decided = "ok"
  <2>1. /\ pc' = "stored" /\ UNCHANGED <<verdict, stage>>
        /\ zip' = StoredZip(Document(m), m.bulk, request.payloads)
        /\ written' = [manifest |-> m, payloads |-> payloads]
    BY <1>4 DEF Write
  <2>2. prepared = "ok"
    BY <1>4
  <2>3. Pins(m, payloads) /\ \A i \in DOMAIN request.payloads : request.payloads[i].path.name # ManifestName
    BY <1>2, <2>2, Prepared
  <2>4. "inventory" \in DOMAIN m
    BY <1>2 DEF Derive, V1Derive, V2Derive, V3Derive, Manifest
  <2>5. Inventoried(m)
    BY <1>2, <2>4, DerivedListed DEF Inventoried
  <2> HIDE DEF m, payloads
  <2>6. FileInv'
    <3>1. WellFormed(zip')
      BY <1>2, <2>1, <2>3, <2>5, StoredWellFormed
    <3>2. payloads = [p \in DOMAIN payloads |-> payloads[p]]
      BY <1>2, MembersFinite DEF payloads
    <3> QED
      BY <2>1, <2>3, <3>1, <3>2 DEF FileInv
  <2>7. TypeOK'
    BY <1>1, <2>1 DEF TypeOK, Refused
  <2>8. RequestInv' /\ LoadInv' /\ DispatchDecides' /\ CapabilityLast'
    BY <1>1, <2>1 DEF RequestInv, LoadInv, DispatchDecides, CapabilityLast, Refused
  <2> QED
    BY <2>6, <2>7, <2>8
<1>5. CASE decided # "ok"
  <2>1. pc' = "refused" /\ verdict' = decided /\ stage' = "write"
    BY <1>5 DEF Write
  <2> HIDE DEF decided
  <2>2. TypeOK'
    BY <1>1, <1>3, <1>5, <2>1, StoreAssumption DEF TypeOK, Refused
  <2> QED
    BY <1>1, <2>1, <2>2 DEF RequestInv, FileInv, LoadInv, Exists, Stages, DispatchDecides,
                            CapabilityLast, Refused
<1> QED
  BY <1>4, <1>5

\* The file changes while nobody has it open.
LEMMA TamperInv ==
  ASSUME Inv, Tamper
  PROVE  Inv'
<1> USE DEF Inv
<1>1. /\ pc = "stored" /\ pc' = pc /\ changes < MaxChanges /\ changes' = changes + 1
      /\ pristine' = FALSE /\ UNCHANGED <<reader, request, held, verdict, stage, written>>
  BY DEF Tamper
<1>2. WellFormed(zip')
  BY <1>1, TamperWellFormed DEF FileInv, Exists
<1>3. TypeOK'
  <2>1. changes \in 0 .. MaxChanges /\ changes + 1 \in 0 .. MaxChanges
    BY <1>1, StoreAssumption DEF TypeOK
  <2> QED
    BY <1>1, <2>1 DEF TypeOK, Refused
<1>4. FileInv'
  BY <1>1, <1>2 DEF FileInv, Exists
<1> QED
  BY <1>1, <1>3, <1>4 DEF RequestInv, LoadInv, DispatchDecides, CapabilityLast, Refused

\* What a stage of the load keeps, whatever it decides.
LEMMA DecideKeeps ==
  ASSUME Inv, NEW at \in Stages, NEW outcome \in Verdicts, NEW next \in Stages \cup {"loaded"},
         Decide(at, outcome, next), reader' \in 0 .. 3
  PROVE  TypeOK' /\ RequestInv' /\ FileInv'
<1> USE DEF Inv
<1>1. pc = at /\ UNCHANGED <<request, zip, written, pristine, changes>>
  BY DEF Decide
<1>2. FileInv'
  BY <1>1 DEF FileInv, Exists, Decide
<1>3. CASE outcome = "ok"
  BY <1>1, <1>2, <1>3, StoreAssumption DEF TypeOK, RequestInv, Refused, Decide, Stages
<1>4. CASE outcome # "ok"
  BY <1>1, <1>2, <1>4, StoreAssumption DEF TypeOK, RequestInv, Refused, Decide, Stages
<1> QED
  BY <1>3, <1>4

\* A load begins.
LEMMA LoadStarts ==
  ASSUME Inv, Load
  PROVE  Inv'
BY DEF Inv, Load, TypeOK, RequestInv, FileInv, LoadInv, Exists, Stages, DispatchDecides,
       CapabilityLast, Refused

LEMMA PreflightInv ==
  ASSUME Inv, Preflight
  PROVE  Inv'
<1> DEFINE outcome == IF reader = 1 THEN V1Preflight(zip) ELSE V2Preflight(zip)
<1>1. Decide("preflight", outcome, "manifest") /\ UNCHANGED <<reader, held>>
  BY DEF Preflight
<1>2. outcome \in Verdicts /\ (outcome = "ok" => OneManifest(zip))
  BY PreflightVerdicts DEF Verdicts
<1> HIDE DEF outcome
<1>3. TypeOK' /\ RequestInv' /\ FileInv'
  BY <1>1, <1>2, DecideKeeps DEF Stages, Inv, TypeOK
<1>4. LoadInv' /\ DispatchDecides' /\ CapabilityLast'
  BY <1>1, <1>2 DEF Decide, Inv, LoadInv, DispatchDecides, CapabilityLast, Refused
<1> QED
  BY <1>3, <1>4 DEF Inv

LEMMA ReadManifestInv ==
  ASSUME Inv, ReadManifest
  PROVE  Inv'
<1> DEFINE version == Parsed(StoredDocument).version
           unknown == reader = 0 /\ version \notin 1 .. 3
           outcome == IF ~Checked(zip, ManifestAt(zip)) THEN "integrity"
                      ELSE IF ~Parses(StoredDocument.text) \/ unknown THEN "format" ELSE "ok"
           next == IF reader = 0 /\ version \in {1, 3} THEN "preflight" ELSE "dispatch"
<1>1. /\ Decide("manifest", outcome, next)
      /\ reader' = IF reader = 0 /\ outcome = "ok" THEN version ELSE reader
      /\ held' = IF outcome = "ok" THEN [held EXCEPT !.manifest = Parsed(StoredDocument)] ELSE held
  BY DEF ReadManifest
<1>2. /\ outcome \in Verdicts \ {"unsupported"} /\ next \in {"preflight", "dispatch"}
      /\ outcome = "ok" /\ reader = 0 => version \in 1 .. 3
  BY DEF Verdicts
<1>3. pc = "manifest" /\ WellFormed(zip) /\ OneManifest(zip) /\ reader \in 0 .. 3
  BY <1>1 DEF Decide, Inv, FileInv, LoadInv, Exists, Stages, TypeOK
<1>4. Listed(Parsed(StoredDocument).inventory)
  BY <1>3, ParsedInventoried
<1> HIDE DEF version, outcome, next
<1>5. reader' \in 0 .. 3 /\ (outcome = "ok" => reader' \in 1 .. 3)
  BY <1>1, <1>2, <1>3
<1>6. TypeOK' /\ RequestInv' /\ FileInv'
  BY <1>1, <1>2, <1>5, DecideKeeps DEF Stages
<1>7. CASE outcome = "ok"
  <2>1. pc' = next /\ held'.manifest = Parsed(StoredDocument) /\ UNCHANGED <<zip, verdict, stage>>
        /\ held' = [manifest |-> held'.manifest, payloads |-> held'.payloads]
    BY <1>1, <1>7 DEF Decide, Inv, LoadInv
  <2> QED
    BY <1>2, <1>3, <1>4, <1>5, <1>6, <1>7, <2>1
       DEF Inv, LoadInv, DispatchDecides, CapabilityLast, Refused
<1>8. CASE outcome # "ok"
  <2>1. pc' = "refused" /\ stage' = "manifest" /\ held' = held
    BY <1>1, <1>8 DEF Decide
  <2> QED
    BY <1>6, <2>1 DEF Inv, LoadInv, DispatchDecides, CapabilityLast
<1> QED
  BY <1>7, <1>8

LEMMA DispatchInv ==
  ASSUME Inv, Dispatch
  PROVE  Inv'
<1> DEFINE outcome == DispatchVerdict(reader, held.manifest, zip)
<1>1. Decide("dispatch", outcome, "payloads") /\ UNCHANGED <<reader, held>>
  BY DEF Dispatch, DispatchVerdict
<1>2. pc = "dispatch" /\ reader \in 1 .. 3
  BY <1>1 DEF Decide, Inv, LoadInv
<1>3. /\ outcome \in Verdicts
      /\ outcome = "unsupported" =>
           InventoryPaths(held.manifest.inventory) = Physical(zip) /\ V1LinksOk(held.manifest)
  BY <1>2, DispatchVerdicts DEF Verdicts
<1> HIDE DEF outcome
<1>4. TypeOK' /\ RequestInv' /\ FileInv'
  BY <1>1, <1>2, <1>3, DecideKeeps DEF Stages
<1>5. CASE outcome = "ok"
  BY <1>1, <1>2, <1>4, <1>5 DEF Decide, Inv, LoadInv, DispatchDecides, CapabilityLast, Refused, outcome
<1>6. CASE outcome # "ok"
  <2>1. pc' = "refused" /\ verdict' = outcome /\ stage' = "dispatch" /\ UNCHANGED <<zip, held>>
    BY <1>1, <1>6 DEF Decide
  <2>2. LoadInv' /\ DispatchDecides'
    BY <2>1 DEF Inv, LoadInv, DispatchDecides
  <2>3. CapabilityLast'
    BY <1>3, <2>1 DEF CapabilityLast, V1LinksOk
  <2> QED
    BY <1>4, <2>2, <2>3 DEF Inv
<1> QED
  BY <1>5, <1>6

LEMMA ReadPayloadsInv ==
  ASSUME Inv, ReadPayloads
  PROVE  Inv'
<1> DEFINE outcome == IF \A i \in Payloads(zip) : Checked(zip, i) THEN "ok" ELSE "integrity"
<1>1. /\ Decide("payloads", outcome, "verify") /\ reader' = reader
      /\ held' = IF outcome = "ok" THEN [held EXCEPT !.payloads = Contained(zip)] ELSE held
  BY DEF ReadPayloads
<1>2. outcome \in {"ok", "integrity"}
  OBVIOUS
<1> HIDE DEF outcome
<1>3. TypeOK' /\ RequestInv' /\ FileInv'
  BY <1>1, <1>2, DecideKeeps DEF Stages, Verdicts, Inv, TypeOK
<1>4. CASE outcome = "ok"
  <2>1. /\ pc = "payloads" /\ pc' = "verify" /\ UNCHANGED <<zip, verdict, stage>>
        /\ held' = [manifest |-> held.manifest, payloads |-> Contained(zip)]
    BY <1>1, <1>4 DEF Decide, Inv, LoadInv
  <2> QED
    BY <1>1, <1>3, <2>1 DEF Inv, LoadInv, DispatchDecides, CapabilityLast, Refused
<1>5. CASE outcome # "ok"
  <2>1. pc' = "refused" /\ verdict' = "integrity" /\ stage' = "payloads" /\ held' = held
    BY <1>1, <1>2, <1>5 DEF Decide
  <2> QED
    BY <1>3, <2>1 DEF Inv, LoadInv, DispatchDecides, CapabilityLast
<1> QED
  BY <1>4, <1>5

LEMMA VerifyInv ==
  ASSUME Inv, Verify
  PROVE  Inv'
<1> DEFINE outcome == VerifyVerdict(reader, held.manifest, held.payloads)
<1>1. Decide("verify", outcome, "loaded") /\ UNCHANGED <<reader, held>>
  BY DEF Verify, VerifyVerdict
<1>2. /\ pc = "verify" /\ reader \in 1 .. 3 /\ WellFormed(zip)
      /\ DispatchVerdict(reader, held.manifest, zip) = "ok"
      /\ held.payloads = Contained(zip)
  BY <1>1 DEF Decide, Inv, LoadInv, FileInv, Exists, Stages
<1>3. outcome \in {"ok", "integrity"}
  BY <1>2, VerifyVerdicts
<1> HIDE DEF outcome
<1>4. TypeOK' /\ RequestInv' /\ FileInv'
  BY <1>1, <1>2, <1>3, DecideKeeps DEF Stages, Verdicts
<1>5. CASE outcome = "ok"
  BY <1>1, <1>2, <1>4, <1>5 DEF Decide, Inv, LoadInv, DispatchDecides, CapabilityLast, Refused, outcome
<1>6. CASE outcome # "ok"
  <2>1. pc' = "refused" /\ verdict' = "integrity" /\ stage' = "verify" /\ held' = held
    BY <1>1, <1>3, <1>6 DEF Decide
  <2> QED
    BY <1>4, <2>1 DEF Inv, LoadInv, DispatchDecides, CapabilityLast
<1> QED
  BY <1>5, <1>6

LEMMA NextInv == Inv /\ [Next]_vars => Inv'
<1> SUFFICES ASSUME Inv, [Next]_vars PROVE Inv'
  OBVIOUS
<1>1. CASE UNCHANGED vars
  BY <1>1 DEF vars, Inv, TypeOK, RequestInv, FileInv, LoadInv, DispatchDecides, CapabilityLast, Refused
<1> QED
  BY <1>1, AlterInv, WriteInv, TamperInv, LoadStarts, PreflightInv, ReadManifestInv,
     DispatchInv, ReadPayloadsInv, VerifyInv DEF Next

LEMMA Invariance == Spec => []Inv
  BY InitInv, NextInv, PTL DEF Spec

-----------------------------------------------------------------------------
(* The theorems.                                                           *)

\* Every variable stays in its range, and a load is refused exactly when it
\* has a verdict, which is not "ok" (the Result of the loaders).
THEOREM TypeCorrectness == Spec => []TypeOK
  BY Invariance, PTL DEF Inv

LEMMA LoadedClosed == Inv /\ Loaded => Closed(held.manifest, held.payloads)
<1> SUFFICES ASSUME Inv, Loaded PROVE Closed(held.manifest, held.payloads)
  OBVIOUS
<1>1. /\ reader \in 1 .. 3 /\ Listed(held.manifest.inventory)
      /\ held.payloads = Contained(zip) /\ WellFormed(zip)
      /\ VerifyVerdict(reader, held.manifest, held.payloads) = "ok"
  BY DEF Loaded, Inv, LoadInv, FileInv, Exists
<1>2. IsFiniteSet(DOMAIN held.payloads)
  BY <1>1, ContainedPayloads
<1>3. CASE reader = 1
  BY <1>1, <1>3, V1Closed DEF VerifyVerdict
<1>4. CASE reader = 2
  BY <1>1, <1>2, <1>4, V2Closed DEF VerifyVerdict
<1>5. CASE reader = 3
  BY <1>1, <1>2, <1>5, V3Closed DEF VerifyVerdict
<1> QED
  BY <1>1, <1>3, <1>4, <1>5

\* A loaded archive of any version is closed: its inventory, its references
\* and its members name the same paths, and every digest is the one of the
\* bytes handed out (validate_ref_inventory_links, validate_reference_closure,
\* validate_raw_closure), whatever was asked of the writer and done to the file.
THEOREM Closure == Spec => []LoadedIsClosed
<1>1. Inv => LoadedIsClosed
  BY LoadedClosed DEF LoadedIsClosed, Closed
<1> QED
  BY <1>1, Invariance, PTL

\* A load that accepts the manifest of the writer hands out the payloads of the
\* writer, however the file was changed in between.
THEOREM Pinning == Spec => []ManifestPinsBytes
<1>1. Inv => ManifestPinsBytes
  <2> SUFFICES ASSUME Inv, Loaded, held.manifest = written.manifest
               PROVE  held.payloads = written.payloads
    BY DEF ManifestPinsBytes
  <2>1. Pins(held.manifest, held.payloads)
    BY LoadedClosed DEF Closed, Pins
  <2>2. /\ Pins(held.manifest, written.payloads)
        /\ written.payloads = [p \in DOMAIN written.payloads |-> written.payloads[p]]
    BY DEF Loaded, Inv, FileInv, Exists
  <2>3. held.payloads = [p \in DOMAIN held.payloads |-> held.payloads[p]]
    BY ContainedPayloads DEF Loaded, Inv, FileInv, LoadInv, Exists
  <2> QED
    BY <2>1, <2>2, <2>3, PinnedEqual
<1> QED
  BY <1>1, Invariance, PTL

\* Before a payload is opened everything is decided that does not depend on
\* its bytes: a later refusal is an integrity error (the order of stages in
\* load_archive_v1, v2, v3).
THEOREM DispatchFirst == Spec => []DispatchDecides
  BY Invariance, PTL DEF Inv

\* Archive V1 reports a capability it lacks only for a manifest that is closed
\* over the names in the file (validate_manifest_for_dispatch).
THEOREM CapabilitiesLast == Spec => []CapabilityLast
  BY Invariance, PTL DEF Inv

\* What the verification of V1 says of the references.
LEMMA V1Viewed ==
  ASSUME NEW m, NEW payloads, V1Verify(m, payloads) = "ok"
  PROVE  /\ m.version = 1 /\ V1Required \subseteq Slots(m.refs)
         /\ Of(m.refs, V1Required \cup {"conformal", "robustness"}) = DOMAIN m.refs
         /\ \A i \in DOMAIN m.refs : Binds(m.refs[i], m.inventory)
<1>1. V1Dispatch(m, DOMAIN payloads) = "ok"
  BY DEF V1Verify
<1>2. V1ShapeOk(m) /\ ~V1Reserved(m) /\ V1LinksOk(m)
  BY <1>1 DEF V1Dispatch
<1>3. /\ m.version = 1 /\ V1Required \subseteq Slots(m.refs) /\ Slots(m.refs) \subseteq V1Keys
      /\ V1Refs(m) = m.refs
  BY <1>2 DEF V1ShapeOk, V1Reserved, V1Refs, V1FrozenOk, V1ReplayOk, V1PayloadsOk
<1>4. \A i \in DOMAIN m.refs :
        m.refs[i].slot \notin V1Methods \cup {"n4d_aggregate_reference", "host_artifacts"}
  BY <1>2 DEF V1Reserved, Of
<1>5. \A i \in DOMAIN m.refs : m.refs[i].slot \in V1Required \cup {"conformal", "robustness"}
  BY <1>3, <1>4 DEF Slots, V1Keys, V1Single
<1> QED
  BY <1>2, <1>3, <1>5 DEF Of, V1LinksOk

\* The same of V2, whose view holds its required slots and robustness.
LEMMA V2Viewed ==
  ASSUME NEW m, NEW payloads, V2Verify(m, payloads) = "ok"
  PROVE  /\ m.version = 2 /\ V2Required \subseteq Slots(m.refs) /\ "conformal" \notin Slots(m.refs)
         /\ \A i \in DOMAIN m.refs : Binds(m.refs[i], m.inventory)
<1>1. V2Dispatch(m, SizesOf(payloads)) = "ok"
  BY DEF V2Verify
<1>2. V2SectionsOk(m) /\ V2ReferencesOk(m)
  BY <1>1 DEF V2Dispatch
<1>3. Of(m.refs, {"conformal", "host_artifacts"}) = {}
  BY <1>2 DEF V2SectionsOk
<1>4. "conformal" \notin Slots(m.refs)
  BY <1>3 DEF Of, Slots
<1> QED
  BY <1>2, <1>4 DEF V2SectionsOk, V2FrozenOk, V2ReferencesOk

\* The same of V3, whose references are all shown.
LEMMA V3Viewed ==
  ASSUME NEW m, NEW payloads, V3Verify(m, payloads) = "ok"
  PROVE  /\ m.version = 3 /\ V3Required \subseteq Slots(m.refs)
         /\ Of(m.refs, V3Required \cup V3Families) = DOMAIN m.refs
         /\ \A i \in DOMAIN m.refs : Binds(m.refs[i], m.inventory)
<1>1. V3Dispatch(m, [p \in DOMAIN payloads |-> Size[payloads[p]]]) = "ok"
  BY DEF V3Verify
<1>2. V3SectionsOk(m) /\ \A i \in DOMAIN m.refs : Binds(m.refs[i], m.inventory)
  BY <1>1 DEF V3Dispatch
<1>3. /\ m.version = 3 /\ V3Required \subseteq Slots(m.refs)
      /\ Slots(m.refs) \subseteq V3Required \cup V3Families
  BY <1>2 DEF V3SectionsOk, V3FrozenOk
<1>4. Of(m.refs, V3Required \cup V3Families) = DOMAIN m.refs
  BY <1>3 DEF Of, Slots
<1> QED
  BY <1>2, <1>3, <1>4

\* The entry a reference repeats is the entry of its path.
LEMMA BoundEntry ==
  ASSUME NEW inv, Unrepeated(inv), NEW r, Binds(r, inv)
  PROVE  EntryOf(inv, r.path).semantic = r.semantic
  BY DEF Unrepeated, Binds, EntryOf

\* A loaded archive of any version has a view, with the digests of the bytes
\* and the fingerprints of the inventory, and the views of V1 and V3 leave out
\* no member (archive_view, archive_v2_view, archive_v3_view).
THEOREM Viewing == Spec => []ViewAccounts
<1>1. Inv => ViewAccounts
  <2> SUFFICES ASSUME Inv, Loaded PROVE ViewAccounts
    BY DEF ViewAccounts
  <2> DEFINE m == held.manifest
             shown == {m.refs[i] : i \in Shown(m)}
  <2>1. Closed(m, held.payloads)
    BY LoadedClosed
  <2>2. reader \in 1 .. 3 /\ VerifyVerdict(reader, m, held.payloads) = "ok"
    BY DEF Loaded, Inv, LoadInv
  <2>3. /\ m.version \in 1 .. 3 /\ Viewable(m) /\ Shown(m) \subseteq DOMAIN m.refs
        /\ m.version \in {1, 3} => Shown(m) = DOMAIN m.refs
        /\ \A i \in DOMAIN m.refs : Binds(m.refs[i], m.inventory)
    <3>1. CASE reader = 1
      <4>1. V1Verify(m, held.payloads) = "ok"
        BY <2>2, <3>1 DEF VerifyVerdict
      <4>2. /\ m.version = 1 /\ V1Required \subseteq Slots(m.refs)
            /\ Of(m.refs, V1Required \cup {"conformal", "robustness"}) = DOMAIN m.refs
            /\ \A i \in DOMAIN m.refs : Binds(m.refs[i], m.inventory)
        BY <4>1, V1Viewed
      <4>3. Shown(m) = DOMAIN m.refs
        BY <4>2 DEF Shown
      <4>4. Viewable(m)
        BY <4>2 DEF Viewable
      <4> QED
        BY <4>2, <4>3, <4>4
    <3>2. CASE reader = 2
      <4>1. V2Verify(m, held.payloads) = "ok"
        BY <2>2, <3>2 DEF VerifyVerdict
      <4>2. /\ m.version = 2 /\ V2Required \subseteq Slots(m.refs)
            /\ "conformal" \notin Slots(m.refs)
            /\ \A i \in DOMAIN m.refs : Binds(m.refs[i], m.inventory)
        BY <4>1, V2Viewed
      <4>3. Shown(m) = Of(m.refs, V2Required \cup {"robustness"})
        BY <4>2 DEF Shown
      <4>4. Viewable(m)
        BY <4>2 DEF Viewable
      <4> QED
        BY <4>2, <4>3, <4>4 DEF Of
    <3>3. CASE reader = 3
      <4>1. V3Verify(m, held.payloads) = "ok"
        BY <2>2, <3>3 DEF VerifyVerdict
      <4>2. /\ m.version = 3 /\ V3Required \subseteq Slots(m.refs)
            /\ Of(m.refs, V3Required \cup V3Families) = DOMAIN m.refs
            /\ \A i \in DOMAIN m.refs : Binds(m.refs[i], m.inventory)
        BY <4>1, V3Viewed
      <4>3. Shown(m) = DOMAIN m.refs
        BY <4>2 DEF Shown
      <4>4. Viewable(m)
        BY <4>2 DEF Viewable
      <4> QED
        BY <4>2, <4>3, <4>4
    <3> QED
      BY <2>2, <3>1, <3>2, <3>3
  <2>4. ASSUME NEW r \in shown
        PROVE  /\ r.raw = held.payloads[r.path]
               /\ r.semantic = EntryOf(m.inventory, r.path).semantic
    <3>1. PICK i \in DOMAIN m.refs : r = m.refs[i]
      BY <2>3
    <3>2. r.raw = held.payloads[r.path] /\ Unrepeated(m.inventory)
      BY <2>1, <3>1 DEF Closed
    <3>3. Binds(r, m.inventory)
      BY <2>3, <3>1
    <3> QED
      BY <3>2, <3>3, BoundEntry
  <2>5. ASSUME m.version \in {1, 3} PROVE {r.path : r \in shown} = DOMAIN held.payloads
    <3>1. Shown(m) = DOMAIN m.refs
      BY <2>3, <2>5
    <3>2. {r.path : r \in shown} = RefPaths(m.refs)
      BY <3>1 DEF RefPaths
    <3> QED
      BY <2>1, <3>2 DEF Closed
  <2> QED
    BY <2>3, <2>4, <2>5 DEF ViewAccounts
<1> QED
  BY <1>1, Invariance, PTL

-----------------------------------------------------------------------------
(* Budgets: sums of lengths.                                               *)

\* A set of numbers that holds zero and what follows each of its elements holds
\* them all.
LEMMA Induction ==
  ASSUME NEW S, 0 \in S, \A n \in Nat : n \in S => n + 1 \in S
  PROVE  Nat \subseteq S
<1> SUFFICES ASSUME NEW k \in Nat, k \notin S PROVE FALSE
  OBVIOUS
<1> DEFINE R == OpToRel(<, Nat)
           T == Nat \ S
<1>1. IsWellFoundedOn(R, Nat)
  BY NatLessThanWellFounded
<1>2. \A x, y \in Nat : x < y => <<x, y>> \in R
  BY DEF OpToRel
<1> HIDE DEF R
<1>3. T # {} /\ T \in SUBSET Nat
  OBVIOUS
<1> HIDE DEF T
<1>4. PICK m \in T : \A y \in T : ~ (<<y, m>> \in R)
  BY <1>1, <1>3, WFMin
<1>5. m \in Nat /\ m \notin S
  BY <1>4 DEF T
<1>6. m # 0 /\ m - 1 \in Nat /\ m - 1 < m
  BY <1>5
<1>7. m - 1 \in T
  BY <1>5, <1>6 DEF T
<1> QED
  BY <1>2, <1>4, <1>5, <1>6, <1>7

\* g adds up the first n lengths.
Sums(lengths, n, g) ==
  g = [k \in 0 .. n |-> IF k = 0 THEN 0 ELSE g[k - 1] + lengths[k]]

\* A sum over one length more.
LEMMA SumsGrow ==
  ASSUME NEW s, NEW n \in Nat, NEW g, Sums(s, n, g)
  PROVE  \E h : Sums(s, n + 1, h)
<1> DEFINE h == [k \in 0 .. n + 1 |-> IF k = n + 1 THEN g[n] + s[k] ELSE g[k]]
           f == [k \in 0 .. n + 1 |-> IF k = 0 THEN 0 ELSE h[k - 1] + s[k]]
<1>1. ASSUME NEW k \in 0 .. n + 1 PROVE h[k] = f[k]
  <2>1. CASE k = n + 1
    <3>1. k # 0 /\ k - 1 = n /\ k - 1 \in 0 .. n + 1 /\ k - 1 # n + 1
      BY <2>1
    <3>2. h[k] = g[n] + s[k] /\ h[k - 1] = g[n]
      BY <2>1, <3>1
    <3>3. f[k] = h[k - 1] + s[k]
      BY <3>1
    <3> QED
      BY <3>2, <3>3
  <2>2. CASE k # n + 1
    <3>1. k \in 0 .. n /\ (k # 0 => k - 1 \in 0 .. n + 1 /\ k - 1 # n + 1)
      BY <2>2
    <3>2. h[k] = g[k] /\ (k # 0 => h[k - 1] = g[k - 1])
      BY <2>2, <3>1
    <3>3. g[k] = IF k = 0 THEN 0 ELSE g[k - 1] + s[k]
      BY <3>1 DEF Sums
    <3>4. f[k] = IF k = 0 THEN 0 ELSE h[k - 1] + s[k]
      OBVIOUS
    <3> HIDE DEF h, f
    <3> QED
      BY <3>2, <3>3, <3>4
  <2> QED
    BY <2>1, <2>2
<1>2. DOMAIN h = 0 .. n + 1 /\ h = [k \in 0 .. n + 1 |-> h[k]]
  OBVIOUS
<1>3. DOMAIN f = 0 .. n + 1 /\ f = [k \in 0 .. n + 1 |-> f[k]]
  OBVIOUS
<1>4. h = f
  <2> HIDE DEF h, f
  <2> QED
    BY <1>1, <1>2, <1>3
<1>5. Sums(s, n + 1, h)
  <2> HIDE DEF h
  <2> QED
    BY <1>4 DEF Sums
<1> QED
  BY <1>5

LEMMA SumsExist ==
  ASSUME NEW s, NEW n \in Nat
  PROVE  \E g : Sums(s, n, g)
<1> DEFINE S == {k \in Nat : \E g : Sums(s, k, g)}
<1>1. 0 \in S
  <2> DEFINE g == [k \in 0 .. 0 |-> 0]
  <2>1. g = [k \in 0 .. 0 |-> IF k = 0 THEN 0 ELSE g[k - 1] + s[k]]
    OBVIOUS
  <2> HIDE DEF g
  <2>2. Sums(s, 0, g)
    BY <2>1 DEF Sums
  <2> QED
    BY <2>2
<1>2. ASSUME NEW k \in Nat, k \in S PROVE k + 1 \in S
  <2> PICK g : Sums(s, k, g)
    BY <1>2
  <2> QED
    BY SumsGrow
<1> HIDE DEF S
<1>3. Nat \subseteq S
  BY <1>1, <1>2, Induction
<1> QED
  BY <1>3 DEF S

\* Total is such a sum.
LEMMA TotalIs ==
  ASSUME NEW s, NEW n \in Nat
  PROVE  \E g : Sums(s, n, g) /\ Total(s, n) = g[n]
<1> DEFINE g == CHOOSE f : Sums(s, n, f)
<1>1. Sums(s, n, g)
  BY SumsExist
<1>2. Total(s, n) = g[n]
  BY DEF Total, Sums
<1> HIDE DEF g
<1> QED
  BY <1>1, <1>2

\* Two sums agree where both are defined.
LEMMA SumsAgree ==
  ASSUME NEW s, NEW n \in Nat, NEW m \in Nat, NEW g, NEW h, Sums(s, n, g), Sums(s, m, h)
  PROVE  \A k \in Nat : k <= n /\ k <= m => g[k] = h[k]
<1> DEFINE S == {k \in Nat : k <= n /\ k <= m => g[k] = h[k]}
<1>1. 0 \in S
  BY DEF Sums
<1>2. ASSUME NEW k \in Nat, k \in S PROVE k + 1 \in S
  <2> SUFFICES ASSUME k + 1 <= n, k + 1 <= m PROVE g[k + 1] = h[k + 1]
    OBVIOUS
  <2>1. k + 1 \in 0 .. n /\ k + 1 \in 0 .. m /\ k + 1 # 0 /\ k + 1 - 1 = k /\ k <= n /\ k <= m
    OBVIOUS
  <2>2. g[k] = h[k]
    BY <1>2, <2>1
  <2>3. g[k + 1] = g[k] + s[k + 1] /\ h[k + 1] = h[k] + s[k + 1]
    BY <2>1 DEF Sums
  <2> QED
    BY <2>2, <2>3
<1> HIDE DEF S
<1>3. Nat \subseteq S
  BY <1>1, <1>2, Induction
<1> QED
  BY <1>3 DEF S

\* One length more is added.
LEMMA TotalNext ==
  ASSUME NEW s, NEW n \in Nat
  PROVE  Total(s, 0) = 0 /\ Total(s, n + 1) = Total(s, n) + s[n + 1]
<1> PICK f : Sums(s, 0, f) /\ Total(s, 0) = f[0]
  BY TotalIs
<1> PICK g : Sums(s, n, g) /\ Total(s, n) = g[n]
  BY TotalIs
<1> PICK h : Sums(s, n + 1, h) /\ Total(s, n + 1) = h[n + 1]
  BY TotalIs
<1>1. f[0] = 0
  BY DEF Sums
<1>2. g[n] = h[n]
  BY SumsAgree
<1>3. h[n + 1] = h[n] + s[n + 1]
  <2>1. n + 1 \in 0 .. n + 1 /\ n + 1 # 0 /\ n + 1 - 1 = n
    OBVIOUS
  <2> QED
    BY <2>1 DEF Sums
<1> QED
  BY <1>1, <1>2, <1>3

\* Sums of lengths are lengths, and grow.
LEMMA TotalGrows ==
  ASSUME NEW n \in Nat, NEW s, \A k \in 1 .. n : s[k] \in Nat
  PROVE  \A k \in 0 .. n : Total(s, k) \in Nat
                           /\ \A j \in 0 .. k : Total(s, j) <= Total(s, k)
<1> DEFINE Good(k) == /\ Total(s, k) \in Nat
                      /\ \A j \in 0 .. k : Total(s, j) \in Nat /\ Total(s, j) <= Total(s, k)
           S == {k \in Nat : k <= n => Good(k)}
<1>1. 0 \in S
  BY TotalNext
<1>2. ASSUME NEW k \in Nat, k \in S PROVE k + 1 \in S
  <2> SUFFICES ASSUME k + 1 <= n PROVE Good(k + 1)
    OBVIOUS
  <2>1. Good(k) /\ k + 1 \in 1 .. n
    BY <1>2
  <2>2. Total(s, k + 1) = Total(s, k) + s[k + 1]
    BY TotalNext
  <2>3. s[k + 1] \in Nat /\ \A j \in 0 .. k + 1 : j \in 0 .. k \/ j = k + 1
    BY <2>1
  <2> QED
    BY <2>1, <2>2, <2>3
<1> HIDE DEF S
<1>3. Nat \subseteq S
  BY <1>1, <1>2, Induction
<1> QED
  BY <1>3 DEF S

\* One length in front of a list.
LEMMA TotalShifted ==
  ASSUME NEW n \in Nat, NEW s, NEW t, NEW b \in Nat, t[1] = b,
         \A k \in 1 .. n : s[k] \in Nat /\ t[k + 1] = s[k]
  PROVE  Total(t, n + 1) = b + Total(s, n)
<1> DEFINE S == {k \in Nat : k <= n => Total(t, k + 1) = b + Total(s, k) /\ Total(s, k) \in Nat}
<1>1. 0 \in S
  <2>1. Total(t, 0) = 0 /\ Total(s, 0) = 0 /\ Total(t, 0 + 1) = Total(t, 0) + t[0 + 1]
    BY TotalNext
  <2> QED
    BY <2>1
<1>2. ASSUME NEW k \in Nat, k \in S PROVE k + 1 \in S
  <2> SUFFICES ASSUME k + 1 <= n
               PROVE  Total(t, k + 1 + 1) = b + Total(s, k + 1) /\ Total(s, k + 1) \in Nat
    OBVIOUS
  <2>1. Total(t, k + 1) = b + Total(s, k) /\ Total(s, k) \in Nat /\ k + 1 \in 1 .. n
    BY <1>2
  <2>2. Total(s, k + 1) = Total(s, k) + s[k + 1] /\ Total(t, k + 1 + 1) = Total(t, k + 1) + t[k + 1 + 1]
    BY TotalNext
  <2>3. s[k + 1] \in Nat /\ t[k + 1 + 1] = s[k + 1]
    BY <2>1
  <2> QED
    BY <2>1, <2>2, <2>3
<1> HIDE DEF S
<1>3. Nat \subseteq S
  BY <1>1, <1>2, Induction
<1> QED
  BY <1>3 DEF S

-----------------------------------------------------------------------------
(* What a writer published passes the preflights.                          *)

\* A stored file: n entries, its end, its record, its entries one by one.
Laid(z, text, bulk, seq) ==
  LET n == Len(seq) + 1 IN
  /\ DOMAIN z.members = 1 .. n /\ Len(z.members) = n
  /\ \A i \in 1 .. n : z.members[i] = EntryAt(text, bulk, seq, i)
  /\ z.directory = Total(Regions(bulk, seq), n)
  /\ z.tail = [entries |-> n, offset |-> z.directory, comment |-> 0, excess |-> 0]

LEMMA StoredLaid ==
  ASSUME NEW text, NEW bulk, NEW seq \in Seq(Payload)
  PROVE  Laid(StoredZip(text, bulk, seq), text, bulk, seq)
<1> DEFINE z == StoredZip(text, bulk, seq)
           n == Len(seq) + 1
           end == Total(Regions(bulk, seq), n)
           entries == [i \in 1 .. n |-> EntryAt(text, bulk, seq, i)]
<1>1. z = [members |-> entries, directory |-> end,
           tail |-> [entries |-> n, offset |-> end, comment |-> 0, excess |-> 0]]
  BY StoredIs
<1>2. Len(seq) \in Nat /\ n \in Nat
  BY ListedSeq
<1>3. DOMAIN entries = 1 .. n /\ Len(entries) = n /\ \A i \in 1 .. n : entries[i] = EntryAt(text, bulk, seq, i)
  <2>1. entries \in Seq(Range(entries)) /\ DOMAIN entries = 1 .. n
    BY <1>2 DEF Range
  <2>2. DOMAIN entries = 1 .. Len(entries) /\ Len(entries) \in Nat
    BY <2>1
  <2>3. Len(entries) = n
    <3> HIDE DEF entries, n
    <3> QED
      BY <1>2, <2>1, <2>2
  <2> QED
    BY <2>1, <2>3
<1> HIDE DEF z, entries, n
<1>4. z.members = entries /\ z.directory = end
      /\ z.tail = [entries |-> n, offset |-> z.directory, comment |-> 0, excess |-> 0]
  BY <1>1
<1> QED
  BY <1>3, <1>4 DEF Laid, n, z

\* The fields of an entry.
LEMMA EntryFields ==
  ASSUME NEW text, NEW bulk, NEW seq, NEW i
  PROVE  LET e == EntryAt(text, bulk, seq, i) IN
         /\ e.path = PathAt(seq, i) /\ e.size = LengthAt(bulk, seq, i)
         /\ e.crc = BodyAt(text, seq, i) /\ e.body = BodyAt(text, seq, i)
         /\ e.offset = Total(Regions(bulk, seq), i - 1)
         /\ e.plain /\ e.regular /\ e.local
BY DEF EntryAt

\* The facts about paths and lengths that a writer has when it lays out a file.
Layable(bulk, seq) ==
  /\ seq \in Seq(Payload) /\ bulk \in Nat /\ Admitted(seq) /\ Fits(bulk, seq)

\* Regions have the lengths of entries, of which no two have one path.
LEMMA LaidEntries ==
  ASSUME NEW bulk, NEW seq, Layable(bulk, seq)
  PROVE  /\ Len(seq) \in Nat
         /\ \A i \in 1 .. Len(seq) + 1 :
              /\ PathAt(seq, i) \in Paths
              /\ LengthAt(bulk, seq, i) \in Nat /\ LengthAt(bulk, seq, i) <= MaxMember
              /\ Regions(bulk, seq)[i] \in Nat
              /\ Regions(bulk, seq)[i] = LocalHeader + PathAt(seq, i).bytes + LengthAt(bulk, seq, i)
              /\ i = 1 <=> PathAt(seq, i).name = ManifestName
         /\ \A i, j \in 1 .. Len(seq) + 1 : PathAt(seq, i) = PathAt(seq, j) => i = j
<1>1. /\ DOMAIN seq = 1 .. Len(seq) /\ Len(seq) \in Nat
      /\ \A i \in DOMAIN seq : seq[i].path \in Paths /\ seq[i].body \in Contents
  <2>1. /\ DOMAIN seq = 1 .. Len(seq) /\ Len(seq) \in Nat
        /\ \A i \in DOMAIN seq : seq[i] \in Payload
    BY ListedSeq DEF Layable
  <2> QED
    BY <2>1 DEF Payload
<1>2. ASSUME NEW i \in 1 .. Len(seq) + 1
      PROVE  /\ PathAt(seq, i) \in Paths
             /\ LengthAt(bulk, seq, i) \in Nat /\ LengthAt(bulk, seq, i) <= MaxMember
             /\ i = 1 <=> PathAt(seq, i).name = ManifestName
             /\ i # 1 => i - 1 \in DOMAIN seq
  <2>1. CASE i = 1
    BY <2>1, ContainerAssumption, ManifestAssumption DEF Layable, Fits, PathAt, LengthAt
  <2>2. CASE i # 1
    <3>1. i - 1 \in DOMAIN seq
      BY <1>1, <2>2
    <3>2. seq[i - 1].path.name # ManifestName /\ Size[seq[i - 1].body] <= MaxMember
      BY <3>1 DEF Layable, Admitted
    <3>3. Size[seq[i - 1].body] \in Nat
      BY <1>1, <3>1, ManifestAssumption
    <3> QED
      BY <1>1, <2>2, <3>1, <3>2, <3>3 DEF PathAt, LengthAt
  <2> QED
    BY <2>1, <2>2
<1>3. ASSUME NEW i \in 1 .. Len(seq) + 1
      PROVE  /\ Regions(bulk, seq)[i] \in Nat
             /\ Regions(bulk, seq)[i] = LocalHeader + PathAt(seq, i).bytes + LengthAt(bulk, seq, i)
  <2>1. PathAt(seq, i).bytes \in Nat
    BY <1>2, ManifestAssumption DEF Path
  <2>2. Regions(bulk, seq)[i] = LocalHeader + PathAt(seq, i).bytes + LengthAt(bulk, seq, i)
    BY DEF Regions
  <2> QED
    BY <1>2, <2>1, <2>2, ContainerAssumption
<1>4. ASSUME NEW i \in 1 .. Len(seq) + 1, NEW j \in 1 .. Len(seq) + 1, PathAt(seq, i) = PathAt(seq, j)
      PROVE  i = j
  <2>1. i = 1 <=> j = 1
    BY <1>2, <1>4
  <2>2. CASE i # 1
    <3>1. seq[i - 1].path = seq[j - 1].path /\ i - 1 \in DOMAIN seq /\ j - 1 \in DOMAIN seq
      BY <1>2, <1>4, <2>1, <2>2 DEF PathAt
    <3>2. i - 1 = j - 1
      BY <3>1 DEF Layable, Admitted, Unrepeated
    <3> QED
      BY <1>1, <3>2
  <2> QED
    BY <2>1, <2>2
<1> QED
  BY <1>1, <1>2, <1>3, <1>4

\* The sizes of the first entries stay within the budget.
LEMMA LaidBudget ==
  ASSUME NEW text, NEW bulk, NEW seq, Layable(bulk, seq), NEW z, Laid(z, text, bulk, seq)
  PROVE  \A k \in DOMAIN z.members : UpTo(z, k) <= MaxTotal
<1> DEFINE n == Len(seq)
           s == Lengths(seq)
           t == [i \in DOMAIN z.members |-> z.members[i].size]
<1>1. /\ DOMAIN seq = 1 .. n /\ n \in Nat /\ seq \in Seq(Payload) /\ bulk \in Nat
      /\ \A i \in DOMAIN seq : seq[i].body \in Contents
      /\ DOMAIN z.members = 1 .. n + 1
  <2>1. /\ DOMAIN seq = 1 .. n /\ n \in Nat /\ seq \in Seq(Payload) /\ bulk \in Nat
        /\ \A i \in DOMAIN seq : seq[i] \in Payload
    BY ListedSeq DEF Layable
  <2> QED
    BY <2>1 DEF Payload, Laid
<1>2. ASSUME NEW i \in 1 .. n + 1 PROVE t[i] = LengthAt(bulk, seq, i)
  <2>1. z.members[i] = EntryAt(text, bulk, seq, i)
    BY DEF Laid
  <2>2. t[i] = z.members[i].size
    BY <1>1
  <2> QED
    BY <2>1, <2>2, EntryFields
<1>3. ASSUME NEW i \in 1 .. n PROVE s[i] \in Nat /\ t[i + 1] = s[i]
  <2>1. i + 1 \in 1 .. n + 1 /\ i + 1 # 1 /\ i + 1 - 1 = i /\ i \in DOMAIN seq
    BY <1>1
  <2>2. t[i + 1] = Size[seq[i].body]
    <3>1. LengthAt(bulk, seq, i + 1) = Size[seq[i].body]
      BY <2>1 DEF LengthAt
    <3> HIDE DEF t
    <3> QED
      BY <1>2, <2>1, <3>1
  <2>3. s[i] = Size[seq[i].body]
    BY <2>1 DEF Lengths
  <2>4. Size[seq[i].body] \in Nat
    BY <1>1, <2>1, ManifestAssumption
  <2> QED
    BY <2>2, <2>3, <2>4
<1>4. t[1] = bulk
  BY <1>1, <1>2 DEF LengthAt
<1> HIDE DEF s, t, n
<1>5. Total(t, n + 1) = bulk + Total(s, n)
  BY <1>1, <1>3, <1>4, TotalShifted
<1>6. Total(t, n + 1) <= MaxTotal
  BY <1>5 DEF Layable, Fits, SizeOf, s, n
<1>7. ASSUME NEW i \in 1 .. n + 1 PROVE t[i] \in Nat
  <2>1. CASE i = 1
    BY <1>1, <1>4, <2>1
  <2>2. CASE i # 1
    <3>1. i - 1 \in 1 .. n /\ i - 1 + 1 = i
      BY <1>1, <2>2
    <3> QED
      BY <1>3, <3>1
  <2> QED
    BY <2>1, <2>2
<1>8. ASSUME NEW k \in DOMAIN z.members PROVE UpTo(z, k) <= MaxTotal
  <2>1. k \in 0 .. n + 1 /\ n + 1 \in 0 .. n + 1 /\ n + 1 \in Nat
    BY <1>1, <1>8
  <2>2. /\ Total(t, k) \in Nat /\ Total(t, n + 1) \in Nat
        /\ Total(t, k) <= Total(t, n + 1)
    BY <1>7, <2>1, TotalGrows
  <2> QED
    BY <1>6, <2>2, ManifestAssumption DEF UpTo, t
<1> QED
  BY <1>8

\* Entries lie one behind the other, in front of the directory.
LEMMA LaidLocated ==
  ASSUME NEW text, NEW bulk, NEW seq, Layable(bulk, seq), NEW z, Laid(z, text, bulk, seq)
  PROVE  Located(z)
<1> DEFINE n == Len(seq) + 1
           r == Regions(bulk, seq)
<1>1. /\ n \in Nat
      /\ \A i \in 1 .. n : r[i] \in Nat /\ r[i] = SpanOf(EntryAt(text, bulk, seq, i))
  <2>1. /\ n \in Nat
        /\ \A i \in 1 .. n :
             r[i] \in Nat /\ r[i] = LocalHeader + PathAt(seq, i).bytes + LengthAt(bulk, seq, i)
    BY LaidEntries
  <2> QED
    BY <2>1, EntryFields DEF SpanOf
<1>2. /\ DOMAIN z.members = 1 .. n /\ z.directory = Total(r, n)
      /\ \A i \in 1 .. n : z.members[i] = EntryAt(text, bulk, seq, i)
  BY DEF Laid
<1> HIDE DEF n, r
<1>3. \A k \in 0 .. n : Total(r, k) \in Nat /\ \A j \in 0 .. k : Total(r, j) <= Total(r, k)
  BY <1>1, TotalGrows
<1>4. ASSUME NEW i \in 1 .. n
      PROVE  z.members[i].offset = Total(r, i - 1) /\ EndOf(z.members[i]) = Total(r, i)
  <2>1. z.members[i].offset = Total(r, i - 1)
    BY <1>2, EntryFields DEF r
  <2>2. EndOf(z.members[i]) = Total(r, i - 1) + r[i]
    BY <1>1, <1>2, <2>1 DEF EndOf
  <2>3. i - 1 \in Nat /\ i - 1 + 1 = i
    OBVIOUS
  <2>4. Total(r, i) = Total(r, i - 1) + r[i]
    BY <2>3, TotalNext
  <2> QED
    BY <2>1, <2>2, <2>4
<1>5. ASSUME NEW i \in 1 .. n PROVE z.members[i].local /\ EndOf(z.members[i]) <= z.directory
  <2>1. i \in 0 .. n /\ n \in 0 .. n
    BY <1>1
  <2>2. z.members[i].local
    BY <1>2, EntryFields
  <2> QED
    BY <1>2, <1>3, <1>4, <2>1, <2>2
<1>6. ASSUME NEW i \in 1 .. n, NEW j \in 1 .. n, i < j
      PROVE  EndOf(z.members[i]) <= z.members[j].offset
  <2>1. j - 1 \in 0 .. n /\ i \in 0 .. j - 1
    BY <1>1, <1>6
  <2> QED
    BY <1>3, <1>4, <2>1
<1>7. \A i, j \in 1 .. n : i # j => i < j \/ j < i
  OBVIOUS
<1> QED
  BY <1>2, <1>5, <1>6, <1>7 DEF Located

\* The preflights accept what a writer laid out, if its paths are in the
\* grammar of the version and the place of its directory is no end mark.
LEMMA LaidPasses ==
  ASSUME NEW text, NEW bulk, NEW seq, Layable(bulk, seq), NEW z, Laid(z, text, bulk, seq),
         \A i \in DOMAIN seq : V2PathOk(seq[i].path)
  PROVE  /\ V2Preflight(z) = "ok"
         /\ (\A i \in DOMAIN seq : V1PathOk(seq[i].path)) /\ z.directory # EndMark
              => V1Preflight(z) = "ok"
<1> DEFINE n == Len(seq) + 1
<1>1. /\ Len(seq) \in Nat /\ n \in Nat /\ DOMAIN z.members = 1 .. n
      /\ \A i \in 1 .. n : z.members[i] = EntryAt(text, bulk, seq, i)
      /\ DOMAIN seq = 1 .. Len(seq)
  BY LaidEntries, ListedSeq DEF Laid, Layable
<1>2. Bounded(z) /\ z.tail.comment = z.tail.excess /\ z.tail.offset = z.directory
  <2>1. n <= MaxEntries
    BY DEF Layable, Admitted
  <2>2. /\ z.tail = [entries |-> n, offset |-> z.directory, comment |-> 0, excess |-> 0]
        /\ Len(z.members) = n
    BY DEF Laid
  <2>3. n \in 1 .. MaxEntries
    BY <1>1, <2>1, ManifestAssumption
  <2> QED
    BY <2>2, <2>3 DEF Bounded
<1>3. ASSUME NEW k \in 1 .. n
      PROVE  /\ z.members[k].plain /\ z.members[k].regular
             /\ z.members[k].path = PathAt(seq, k)
             /\ z.members[k].size = LengthAt(bulk, seq, k)
             /\ z.members[k].path.name = ManifestName <=> k = 1
             /\ z.members[k].size <= MaxMember
  <2>1. z.members[k] = EntryAt(text, bulk, seq, k)
    BY <1>1
  <2>2. /\ k = 1 <=> PathAt(seq, k).name = ManifestName
        /\ LengthAt(bulk, seq, k) <= MaxMember
    BY LaidEntries
  <2> QED
    BY <2>1, <2>2, EntryFields
<1>4. ASSUME NEW k \in 1 .. n PROVE EntryOk(z, k)
  <2>1. UpTo(z, k) <= MaxTotal
    BY <1>1, LaidBudget
  <2>2. \A j \in 1 .. k - 1 : z.members[j].path # z.members[k].path
    <3> SUFFICES ASSUME NEW j \in 1 .. k - 1 PROVE z.members[j].path # z.members[k].path
      OBVIOUS
    <3>1. j \in 1 .. n /\ j # k
      BY <1>1
    <3>2. PathAt(seq, j) # PathAt(seq, k)
      BY <3>1, LaidEntries
    <3> QED
      BY <1>3, <3>1, <3>2
  <2>3. k = 1 => z.members[k].size <= MaxManifest
    BY <1>3 DEF LengthAt, Layable, Fits
  <2> QED
    BY <1>3, <2>1, <2>2, <2>3 DEF EntryOk
<1>5. OneManifest(z)
  <2>1. 1 \in DOMAIN z.members
    BY <1>1
  <2> QED
    BY <1>1, <1>3, <2>1 DEF OneManifest
<1>6. Located(z)
  BY LaidLocated
<1>7. ASSUME NEW k \in 1 .. n PROVE V2NameOk(z.members[k].path)
  <2>1. CASE k = 1
    BY <1>3, <2>1 DEF V2NameOk
  <2>2. CASE k # 1
    <3>1. k - 1 \in DOMAIN seq
      BY <1>1, <2>2
    <3> QED
      BY <1>3, <2>2, <3>1 DEF PathAt, V2NameOk
  <2> QED
    BY <2>1, <2>2
<1>8. V2Preflight(z) = "ok"
  BY <1>1, <1>2, <1>3, <1>4, <1>5, <1>6, <1>7 DEF V2Preflight
<1>9. ASSUME \A i \in DOMAIN seq : V1PathOk(seq[i].path), z.directory # EndMark
      PROVE  V1Preflight(z) = "ok"
  <2>1. ASSUME NEW k \in 1 .. n PROVE V1PathOk(z.members[k].path)
    <3>1. CASE k = 1
      BY <1>3, <3>1, ContainerAssumption DEF PathAt
    <3>2. CASE k # 1
      <4>1. k - 1 \in DOMAIN seq
        BY <1>1, <3>2
      <4> QED
        BY <1>3, <1>9, <3>2, <4>1 DEF PathAt
    <3> QED
      BY <3>1, <3>2
  <2>2. V1EndFound(z)
    BY <1>2, <1>9 DEF V1EndFound
  <2>3. {k \in DOMAIN z.members :
           ~(z.members[k].plain /\ V1PathOk(z.members[k].path) /\ EntryOk(z, k))} = {}
    BY <1>1, <1>3, <1>4, <2>1
  <2> QED
    BY <1>2, <1>5, <1>6, <2>2, <2>3 DEF V1Preflight
<1> QED
  BY <1>8, <1>9

-----------------------------------------------------------------------------
(* The text a writer gives a manifest is one that the readers parse.       *)

aKey == CHOOSE k \in Strings : TRUE
aLiteral == CHOOSE l \in Literals : TRUE
Left == "{"
Right == "}"
Colon == ":"
Wrapped(t) == <<Left, aKey, Colon>> \o t \o <<Right>>

\* What the tokens are, and are not.
LEMMA TokensAre ==
  /\ aKey \in Strings /\ aLiteral \in Literals
  /\ \A x \in {aKey, aLiteral} : x \notin Malformed /\ x \notin {Left, Right, "[", "]", Colon, ","}
  /\ \A x \in {Left, Right, Colon} : x # ","
  /\ Left \notin Scalars /\ Left # "["
<1>1. aKey \in Strings /\ aLiteral \in Literals
  BY TextAssumption DEF aKey, aLiteral
<1>2. \A x \in Strings \cup Literals : x \notin Malformed /\ x \notin Delimiters
  BY TextAssumption DEF Scalars
<1>3. Delimiters = {Left, Right, "[", "]", Colon, ","}
  BY Zenon DEF Delimiters, Left, Right, Colon
<1>4. Left # "," /\ Right # "," /\ Colon # ","
  BY Zenon DEF Left, Right, Colon
<1>5. Left \notin Scalars
  BY <1>3, TextAssumption
<1>6. Left # "["
  BY Zenon DEF Left
<1> QED
  BY <1>1, <1>2, <1>3, <1>4, <1>5, <1>6

\* g has the documents up to depth n.
Docs(n, g) == g = [d \in 0 .. n |-> IF d = 0 THEN <<aLiteral>> ELSE Wrapped(g[d - 1])]

LEMMA DocsGrow ==
  ASSUME NEW n \in Nat, NEW g, Docs(n, g)
  PROVE  \E h : Docs(n + 1, h)
<1> DEFINE h == [k \in 0 .. n + 1 |-> IF k = n + 1 THEN Wrapped(g[n]) ELSE g[k]]
           f == [k \in 0 .. n + 1 |-> IF k = 0 THEN <<aLiteral>> ELSE Wrapped(h[k - 1])]
<1>1. ASSUME NEW k \in 0 .. n + 1 PROVE h[k] = f[k]
  <2>1. CASE k = n + 1
    <3>1. k # 0 /\ k - 1 = n /\ k - 1 \in 0 .. n + 1 /\ k - 1 # n + 1
      BY <2>1
    <3>2. h[k] = Wrapped(g[n]) /\ h[k - 1] = g[n]
      BY <2>1, <3>1
    <3>3. f[k] = Wrapped(h[k - 1])
      BY <3>1
    <3> QED
      BY <3>2, <3>3
  <2>2. CASE k # n + 1
    <3>1. k \in 0 .. n /\ (k # 0 => k - 1 \in 0 .. n + 1 /\ k - 1 # n + 1)
      BY <2>2
    <3>2. h[k] = g[k] /\ (k # 0 => h[k - 1] = g[k - 1])
      BY <2>2, <3>1
    <3>3. g[k] = IF k = 0 THEN <<aLiteral>> ELSE Wrapped(g[k - 1])
      BY <3>1 DEF Docs
    <3>4. f[k] = IF k = 0 THEN <<aLiteral>> ELSE Wrapped(h[k - 1])
      OBVIOUS
    <3> HIDE DEF h, f
    <3> QED
      BY <3>2, <3>3, <3>4
  <2> QED
    BY <2>1, <2>2
<1>2. DOMAIN h = 0 .. n + 1 /\ h = [k \in 0 .. n + 1 |-> h[k]]
  OBVIOUS
<1>3. DOMAIN f = 0 .. n + 1 /\ f = [k \in 0 .. n + 1 |-> f[k]]
  OBVIOUS
<1>4. h = f
  <2> HIDE DEF h, f
  <2> QED
    BY <1>1, <1>2, <1>3
<1>5. Docs(n + 1, h)
  <2> HIDE DEF h
  <2> QED
    BY <1>4 DEF Docs
<1> QED
  BY <1>5

LEMMA DocsExist ==
  ASSUME NEW n \in Nat
  PROVE  \E g : Docs(n, g) /\ Nested(n) = g[n]
<1> DEFINE S == {k \in Nat : \E g : Docs(k, g)}
<1>1. 0 \in S
  <2> DEFINE g == [k \in 0 .. 0 |-> <<aLiteral>>]
  <2>1. g = [k \in 0 .. 0 |-> IF k = 0 THEN <<aLiteral>> ELSE Wrapped(g[k - 1])]
    OBVIOUS
  <2> HIDE DEF g
  <2>2. Docs(0, g)
    BY <2>1 DEF Docs
  <2> QED
    BY <2>2
<1>2. ASSUME NEW k \in Nat, k \in S PROVE k + 1 \in S
  <2> PICK g : Docs(k, g)
    BY <1>2
  <2> QED
    BY DocsGrow
<1> HIDE DEF S
<1>3. Nat \subseteq S
  BY <1>1, <1>2, Induction
<1> DEFINE doc == CHOOSE g : Docs(n, g)
<1>4. Docs(n, doc)
  BY <1>3 DEF S
<1>5. Nested(n) = doc[n]
  BY Zenon DEF Nested, Docs, Wrapped, aKey, aLiteral, Left, Right, Colon
<1> HIDE DEF doc
<1> QED
  BY <1>4, <1>5

\* d objects around a literal: what opens them, the literal, what closes them.
IsDoc(t, d) ==
  /\ t \in Seq({Left, Colon, Right, aKey, aLiteral})
  /\ Len(t) = 4 * d + 1
  /\ \A q \in Nat : q < d => t[3 * q + 1] = Left /\ t[3 * q + 2] = aKey /\ t[3 * q + 3] = Colon
  /\ t[3 * d + 1] = aLiteral
  /\ \A c \in 1 .. d : t[3 * d + 1 + c] = Right

\* c is a list of elements of S: those of a, then those of b.
IsJoin(S, a, b, c) ==
  /\ c \in Seq(S) /\ Len(c) = Len(a) + Len(b)
  /\ \A i \in 1 .. Len(a) : c[i] = a[i]
  /\ \A i \in 1 .. Len(b) : c[i + Len(a)] = b[i]

\* What concatenation does to two lists.
LEMMA Joined ==
  ASSUME NEW S, NEW a \in Seq(S), NEW b \in Seq(S)
  PROVE  IsJoin(S, a, b, a \o b)
<1> DEFINE c == a \o b
<1>1. /\ a \o b \in Seq(S) /\ Len(a \o b) = Len(a) + Len(b)
      /\ \A i \in 1 .. Len(a) + Len(b) : (a \o b)[i] = IF i <= Len(a) THEN a[i] ELSE b[i - Len(a)]
  BY ConcatProperties
<1>2. /\ c \in Seq(S) /\ Len(c) = Len(a) + Len(b)
      /\ \A i \in 1 .. Len(a) + Len(b) : c[i] = IF i <= Len(a) THEN a[i] ELSE b[i - Len(a)]
  BY <1>1, Zenon
<1> HIDE DEF c
<1>3. Len(a) \in Nat /\ Len(b) \in Nat
  BY LenProperties
<1>4. ASSUME NEW i \in 1 .. Len(a) PROVE c[i] = a[i]
  BY <1>2, <1>3
<1>5. ASSUME NEW i \in 1 .. Len(b) PROVE c[i + Len(a)] = b[i]
  <2>1. i + Len(a) \in 1 .. Len(a) + Len(b) /\ ~(i + Len(a) <= Len(a)) /\ i + Len(a) - Len(a) = i
    BY <1>3
  <2> QED
    BY <1>2, <2>1
<1> QED
  BY <1>2, <1>4, <1>5 DEF IsJoin, c

\* Three tokens, a text, one token.
LEMMA WrappedIs ==
  ASSUME NEW T, Left \in T, Colon \in T, Right \in T, aKey \in T, NEW t \in Seq(T)
  PROVE  /\ Wrapped(t) \in Seq(T) /\ Len(Wrapped(t)) = Len(t) + 4
         /\ Wrapped(t)[1] = Left /\ Wrapped(t)[2] = aKey /\ Wrapped(t)[3] = Colon
         /\ \A i \in 1 .. Len(t) : Wrapped(t)[i + 3] = t[i]
         /\ Wrapped(t)[Len(t) + 4] = Right
<1> DEFINE a == <<Left, aKey, Colon>>
           b == a \o t
           c == <<Right>>
<1>1. a \in Seq(T) /\ Len(a) = 3 /\ a[1] = Left /\ a[2] = aKey /\ a[3] = Colon
  OBVIOUS
<1>2. c \in Seq(T) /\ Len(c) = 1 /\ c[1] = Right
  OBVIOUS
<1> HIDE DEF a, c
<1>3. Len(t) \in Nat
  OBVIOUS
<1>4. /\ b \in Seq(T) /\ Len(b) = Len(t) + 3
      /\ \A i \in 1 .. 3 : b[i] = a[i]
      /\ \A i \in 1 .. Len(t) : b[i + 3] = t[i]
  <2> DEFINE l == Len(a)
  <2>1. /\ b \in Seq(T) /\ Len(b) = l + Len(t)
        /\ \A i \in 1 .. l : b[i] = a[i]
        /\ \A i \in 1 .. Len(t) : b[i + l] = t[i]
    <3>1. IsJoin(T, a, t, b)
      BY <1>1, Joined, Zenon
    <3> HIDE DEF b
    <3> QED
      BY <3>1 DEF IsJoin
  <2>2. l = 3
    BY <1>1
  <2> HIDE DEF l, b
  <2> QED
    BY <1>3, <2>1, <2>2
<1> DEFINE e == b \o c
<1> HIDE DEF b
<1>5. /\ e \in Seq(T) /\ Len(e) = Len(t) + 4
      /\ \A i \in 1 .. Len(t) + 3 : e[i] = b[i]
      /\ e[Len(t) + 4] = c[1]
  <2> DEFINE l == Len(b)
             k == Len(c)
  <2>1. /\ e \in Seq(T) /\ Len(e) = l + k
        /\ \A i \in 1 .. l : e[i] = b[i]
        /\ \A i \in 1 .. k : e[i + l] = c[i]
    <3>1. IsJoin(T, b, c, e)
      BY <1>2, <1>4, Joined, Zenon
    <3> HIDE DEF e
    <3> QED
      BY <3>1 DEF IsJoin
  <2>2. l = Len(t) + 3 /\ k = 1
    BY <1>2, <1>4
  <2> HIDE DEF l, k, e
  <2>3. 1 \in 1 .. k /\ 1 + l = Len(t) + 4
    BY <1>3, <2>2
  <2>4. e[Len(t) + 4] = c[1]
    BY <2>1, <2>3
  <2>5. Len(e) = Len(t) + 4
    BY <1>3, <2>1, <2>2
  <2> QED
    BY <2>1, <2>2, <2>4, <2>5
<1> HIDE DEF e
<1>6. Wrapped(t) = e
  BY DEF Wrapped, a, b, c, e
<1>7. \A i \in 1 .. Len(t) : i + 3 \in 1 .. Len(t) + 3
  BY <1>3
<1>8. \A i \in 1 .. 3 : i \in 1 .. Len(t) + 3
  BY <1>3
<1> QED
  BY <1>1, <1>2, <1>4, <1>5, <1>6, <1>7, <1>8

LEMMA WrappedDoc ==
  ASSUME NEW d \in Nat, NEW t, IsDoc(t, d)
  PROVE  IsDoc(Wrapped(t), d + 1)
<1> DEFINE T == {Left, Colon, Right, aKey, aLiteral}
           u == Wrapped(t)
<1>1. t \in Seq(T) /\ Len(t) = 4 * d + 1
  BY DEF IsDoc
<1>2. Left \in T /\ Colon \in T /\ Right \in T /\ aKey \in T
  OBVIOUS
<1> HIDE DEF T
<1>3. /\ u \in Seq(T) /\ Len(u) = 4 * (d + 1) + 1
      /\ u[1] = Left /\ u[2] = aKey /\ u[3] = Colon
      /\ \A i \in 1 .. 4 * d + 1 : u[i + 3] = t[i]
      /\ u[4 * d + 5] = Right
  <2>1. /\ u \in Seq(T) /\ Len(u) = Len(t) + 4
        /\ u[1] = Left /\ u[2] = aKey /\ u[3] = Colon
        /\ \A i \in 1 .. Len(t) : u[i + 3] = t[i]
        /\ u[Len(t) + 4] = Right
    BY <1>1, <1>2, WrappedIs
  <2> HIDE DEF u
  <2> QED
    BY <1>1, <2>1
<1> HIDE DEF u
<1>4. ASSUME NEW q \in Nat, q < d + 1
      PROVE  u[3 * q + 1] = Left /\ u[3 * q + 2] = aKey /\ u[3 * q + 3] = Colon
  <2>1. CASE q = 0
    BY <1>3, <2>1
  <2>2. CASE q # 0
    <3> DEFINE p == q - 1
    <3>1. p \in Nat /\ p < d /\ q = p + 1
      BY <1>4, <2>2
    <3>2. t[3 * p + 1] = Left /\ t[3 * p + 2] = aKey /\ t[3 * p + 3] = Colon
      BY <3>1 DEF IsDoc
    <3> HIDE DEF p
    <3>3. /\ 3 * p + 1 \in 1 .. 4 * d + 1 /\ 3 * p + 1 + 3 = 3 * q + 1
          /\ 3 * p + 2 \in 1 .. 4 * d + 1 /\ 3 * p + 2 + 3 = 3 * q + 2
          /\ 3 * p + 3 \in 1 .. 4 * d + 1 /\ 3 * p + 3 + 3 = 3 * q + 3
      BY <3>1
    <3>4. u[3 * p + 1 + 3] = t[3 * p + 1] /\ u[3 * p + 2 + 3] = t[3 * p + 2]
          /\ u[3 * p + 3 + 3] = t[3 * p + 3]
      BY <1>3, <3>3
    <3> QED
      BY <3>2, <3>3, <3>4
  <2> QED
    BY <2>1, <2>2
<1>5. u[3 * (d + 1) + 1] = aLiteral
  <2>1. 3 * d + 1 \in 1 .. 4 * d + 1 /\ 3 * d + 1 + 3 = 3 * (d + 1) + 1
    OBVIOUS
  <2>2. u[3 * d + 1 + 3] = t[3 * d + 1]
    BY <1>3, <2>1
  <2> QED
    BY <2>1, <2>2 DEF IsDoc
<1>6. ASSUME NEW c \in 1 .. d + 1 PROVE u[3 * (d + 1) + 1 + c] = Right
  <2>1. CASE c = d + 1
    <3>1. 3 * (d + 1) + 1 + c = 4 * d + 5
      BY <2>1
    <3> QED
      BY <1>3, <3>1
  <2>2. CASE c # d + 1
    <3>1. c \in 1 .. d /\ 3 * d + 1 + c \in 1 .. 4 * d + 1
          /\ 3 * d + 1 + c + 3 = 3 * (d + 1) + 1 + c
      BY <2>2
    <3>2. u[3 * d + 1 + c + 3] = t[3 * d + 1 + c]
      BY <1>3, <3>1
    <3> QED
      BY <3>1, <3>2 DEF IsDoc
  <2> QED
    BY <2>1, <2>2
<1> QED
  BY <1>3, <1>4, <1>5, <1>6 DEF IsDoc, T, u

\* Nested(n) is such a text.
LEMMA NestedIs ==
  ASSUME NEW n \in Nat
  PROVE  IsDoc(Nested(n), n)
<1> PICK g : Docs(n, g) /\ Nested(n) = g[n]
  BY DocsExist
<1> DEFINE S == {k \in Nat : k <= n => IsDoc(g[k], k)}
<1>1. 0 \in S
  <2>1. g[0] = <<aLiteral>>
    BY DEF Docs
  <2>2. /\ <<aLiteral>> \in Seq({Left, Colon, Right, aKey, aLiteral})
        /\ Len(<<aLiteral>>) = 1 /\ <<aLiteral>>[1] = aLiteral
    OBVIOUS
  <2> DEFINE t == <<aLiteral>>
  <2>3. /\ t \in Seq({Left, Colon, Right, aKey, aLiteral})
        /\ Len(t) = 1 /\ t[1] = aLiteral /\ g[0] = t
    BY <2>1, <2>2
  <2> HIDE DEF t
  <2>4. IsDoc(t, 0)
    BY <2>3 DEF IsDoc
  <2> QED
    BY <2>3, <2>4
<1>2. ASSUME NEW k \in Nat, k \in S PROVE k + 1 \in S
  <2> SUFFICES ASSUME k + 1 <= n PROVE IsDoc(g[k + 1], k + 1)
    OBVIOUS
  <2>1. k + 1 \in 0 .. n /\ k + 1 # 0 /\ k + 1 - 1 = k /\ k <= n
    OBVIOUS
  <2>2. g[k + 1] = Wrapped(g[k])
    BY <2>1 DEF Docs
  <2>3. IsDoc(g[k], k)
    BY <1>2, <2>1
  <2> QED
    BY <2>2, <2>3, WrappedDoc
<1> HIDE DEF S
<1>3. Nat \subseteq S
  BY <1>1, <1>2, Induction
<1> QED
  BY <1>3 DEF S

\* What the scan does with the next token, in the states it comes through.
LEMMA FeedIs ==
  ASSUME NEW s, ~s.bad, ~s.done
  PROVE  /\ s.frames = <<>> \/ Top(s).next = "value" =>
              /\ ~(Len(s.frames) >= MaxNesting) =>
                   Feed(s, Left) = Push(s, Frame("object", "key", {}))
              /\ Feed(s, aLiteral) = Complete(s)
         /\ s.frames # <<>> /\ Top(s).next = "key" /\ aKey \notin Top(s).keys =>
              Feed(s, aKey) =
                [Await(s, "colon") EXCEPT !.frames[Len(s.frames)].keys = @ \cup {aKey}]
         /\ s.frames # <<>> /\ Top(s).next = "colon" => Feed(s, Colon) = Await(s, "value")
         /\ s.frames # <<>> /\ Top(s).next = "comma" /\ Top(s).kind = "object" =>
              Feed(s, Right) = Close(s)
<1>1. ~(s.bad \/ s.done) /\ ~s.bad /\ ~s.done
  OBVIOUS
<1> DEFINE In(t) == CASE Top(s).next = "key"   -> Key(s, t)
                      [] Top(s).next = "colon" -> IF t = Colon THEN Await(s, "value") ELSE Bad(s)
                      [] Top(s).next = "value" -> Value(s, t)
                      [] Top(s).next = "item"  -> IF t = "]" THEN Close(s) ELSE Value(Await(s, "value"), t)
                      [] OTHER                 -> Comma(s, t)
<1>2. ASSUME NEW t PROVE Feed(s, t) = IF s.frames = <<>> THEN Value(s, t) ELSE In(t)
  <2>1. CASE s.frames = <<>>
    BY <1>1, <2>1, Zenon DEF Feed
  <2>2. CASE s.frames # <<>>
    BY <1>1, <2>2, Zenon DEF Feed, Colon
  <2> QED
    BY <2>1, <2>2
<1>3. Value(s, Left) = Open(s, "object")
  BY TokensAre, Zenon DEF Value, Left
<1>4. Value(s, aLiteral) = Complete(s)
  <2>1. aLiteral \in Scalars /\ aLiteral # Left /\ aLiteral # "["
    BY TokensAre DEF Scalars
  <2> QED
    BY <2>1, Zenon DEF Value, Left
<1>5. ASSUME ~(Len(s.frames) >= MaxNesting)
      PROVE  Open(s, "object") = Push(s, Frame("object", "key", {}))
  BY <1>5, Zenon DEF Open
<1>6. ASSUME aKey \notin Top(s).keys
      PROVE  Key(s, aKey) = [Await(s, "colon") EXCEPT !.frames[Len(s.frames)].keys = @ \cup {aKey}]
  <2>1. aKey # Right /\ aKey \in Strings \ Top(s).keys
    BY <1>6, TokensAre
  <2> QED
    BY <2>1, Zenon DEF Key, Right
<1>7. ASSUME Top(s).kind = "object" PROVE Comma(s, Right) = Close(s)
  <2>1. Right # ","
    BY TokensAre
  <2> QED
    BY <1>7, <2>1, Zenon DEF Comma, Right
<1>8. /\ Top(s).next = "key" => In(aKey) = Key(s, aKey)
      /\ Top(s).next = "colon" => In(Colon) = Await(s, "value")
      /\ Top(s).next = "value" => In(Left) = Value(s, Left) /\ In(aLiteral) = Value(s, aLiteral)
      /\ Top(s).next = "comma" => In(Right) = Comma(s, Right)
  <2>1. Top(s).next = "key" => In(aKey) = Key(s, aKey)
    BY Zenon
  <2>2. Top(s).next = "colon" => In(Colon) = Await(s, "value")
    <3> HIDE DEF Colon
    <3> QED
      BY Zenon
  <2>3. Top(s).next = "value" => In(Left) = Value(s, Left) /\ In(aLiteral) = Value(s, aLiteral)
    BY Zenon
  <2>4. Top(s).next = "comma" => In(Right) = Comma(s, Right)
    BY Zenon
  <2> QED
    BY <2>1, <2>2, <2>3, <2>4
<1> HIDE DEF In
<1> QED
  BY <1>2, <1>3, <1>4, <1>5, <1>6, <1>7, <1>8

Around(next) == Frame("object", next, {aKey})

\* n open containers, all but the last of which wait for a value.
Stack(n, top) == [i \in 1 .. n |-> IF i = n THEN top ELSE Around("value")]

\* What the last frame of a stack is, and what pushing, popping and replacing
\* it does.
LEMMA StackIs ==
  ASSUME NEW n \in Nat, NEW top, NEW other
  PROVE  /\ Len(Stack(n, top)) = n
         /\ n = 0 => Stack(n, top) = <<>> /\ Stack(n, top) = Stack(n, other)
         /\ n # 0 => /\ Stack(n, top) # <<>> /\ Last(Stack(n, top)) = top
                     /\ Stack(n, top)[n] = top
                     /\ [Stack(n, top) EXCEPT ![n] = other] = Stack(n, other)
                     /\ Front(Stack(n, top)) = Stack(n - 1, Around("value"))
         /\ Append(Stack(n, Around("value")), top) = Stack(n + 1, top)
<1> DEFINE S == {top, Around("value")}
           s == Stack(n, top)
<1>1. s \in Seq(S) /\ s \in [1 .. n -> S] /\ DOMAIN s = 1 .. n
  BY DEF Stack
<1>2. Len(s) = n
  <2> HIDE DEF s, S
  <2>1. Len(s) \in Nat /\ DOMAIN s = 1 .. Len(s)
    BY <1>1
  <2> QED
    BY <1>1, <2>1
<1>3. n = 0 => s = <<>> /\ s = Stack(n, other)
  <2> SUFFICES ASSUME n = 0 PROVE s = <<>> /\ s = Stack(n, other)
    OBVIOUS
  <2>1. s = <<>>
    <3> HIDE DEF s, S
    <3> QED
      BY <1>1, <1>2, EmptySeq
  <2>2. \A i \in 1 .. n : FALSE
    OBVIOUS
  <2>3. s = Stack(n, other)
    BY <2>2 DEF Stack
  <2> QED
    BY <2>1, <2>3
<1>4. ASSUME n # 0
      PROVE  /\ s # <<>> /\ Last(s) = top /\ s[n] = top
             /\ [s EXCEPT ![n] = other] = Stack(n, other)
             /\ Front(s) = Stack(n - 1, Around("value"))
  <2>1. n \in 1 .. n
    BY <1>4
  <2>2. s[n] = top
    BY <2>1 DEF Stack
  <2>3. s # <<>> /\ Last(s) = top
    <3> HIDE DEF s, S
    <3> QED
      BY <1>1, <1>2, <1>4, <2>2, EmptySeq DEF Last
  <2>4. [s EXCEPT ![n] = other] = Stack(n, other)
    BY DEF Stack
  <2>5. Front(s) = Stack(n - 1, Around("value"))
    <3>1. Front(s) = [i \in 1 .. n - 1 |-> s[i]]
      <4> HIDE DEF s, S
      <4>1. Front(s) = SubSeq(s, 1, n - 1)
        BY <1>2 DEF Front
      <4>2. SubSeq(s, 1, n - 1) = [i \in 1 .. n - 1 |-> s[i]]
        BY <1>4
      <4> QED
        BY <4>1, <4>2
    <3>2. \A i \in 1 .. n - 1 : s[i] = Around("value")
      BY <1>4 DEF Stack
    <3> HIDE DEF s
    <3>3. [i \in 1 .. n - 1 |-> s[i]] = [i \in 1 .. n - 1 |-> Around("value")]
      BY <3>2
    <3>4. Stack(n - 1, Around("value")) = [i \in 1 .. n - 1 |-> Around("value")]
      BY DEF Stack
    <3> QED
      BY <3>1, <3>3, <3>4
  <2> QED
    BY <2>2, <2>3, <2>4, <2>5
<1>5. Append(Stack(n, Around("value")), top) = Stack(n + 1, top)
  <2> DEFINE u == Stack(n, Around("value"))
             v == Stack(n + 1, top)
  <2>1. u \in Seq(S) /\ u \in [1 .. n -> S] /\ DOMAIN u = 1 .. n
    BY DEF Stack
  <2>2. Len(u) = n
    <3> HIDE DEF u, S
    <3>1. Len(u) \in Nat /\ DOMAIN u = 1 .. Len(u)
      BY <2>1
    <3> QED
      BY <2>1, <3>1
  <2>3. v = [i \in 1 .. n + 1 |-> IF i = n + 1 THEN top ELSE u[i]]
    <3>1. \A i \in 1 .. n + 1 : v[i] = IF i = n + 1 THEN top ELSE u[i]
      BY DEF Stack
    <3>2. v = [i \in 1 .. n + 1 |-> v[i]]
      BY DEF Stack
    <3> HIDE DEF u, v
    <3> QED
      BY <3>1, <3>2
  <2> HIDE DEF u, v
  <2>4. Append(u, top) = [i \in 1 .. n + 1 |-> IF i = n + 1 THEN top ELSE u[i]]
    <3> DEFINE a == Append(u, top)
    <3>1. top \in S
      OBVIOUS
    <3> HIDE DEF S
    <3>2. /\ a \in Seq(S) /\ Len(a) = n + 1 /\ a[n + 1] = top
          /\ \A i \in 1 .. n : a[i] = u[i]
      BY <2>1, <2>2, <3>1, AppendProperties
    <3> HIDE DEF a
    <3>3. a = [i \in 1 .. n + 1 |-> a[i]]
      BY <3>2
    <3>4. \A i \in 1 .. n + 1 : a[i] = IF i = n + 1 THEN top ELSE u[i]
      BY <3>2
    <3> QED
      BY <3>3, <3>4 DEF a
  <2> QED
    BY <2>3, <2>4 DEF u, v
<1> QED
  BY <1>2, <1>3, <1>4, <1>5

Nexts == {"key", "colon", "value", "comma"}
Frames == [kind : {"object"}, next : Nexts, keys : SUBSET Strings]
ScanState == [frames : Seq(Frames), done : BOOLEAN, bad : BOOLEAN]

\* s goes on below n open containers; s is past a value below n of them.
IsScan(s, n, top) == s \in ScanState /\ ~s.done /\ ~s.bad /\ s.frames = Stack(n, top)
IsPast(s, n) == IF n = 0 THEN s.done /\ ~s.bad ELSE IsScan(s, n, Around("comma"))

LEMMA FrameIs ==
  ASSUME NEW next \in Nexts, NEW keys \in SUBSET Strings
  PROVE  /\ Frame("object", next, keys) \in Frames
         /\ Frame("object", next, keys).kind = "object"
         /\ Frame("object", next, keys).next = next
         /\ Frame("object", next, keys).keys = keys
<1> DEFINE f == Frame("object", next, keys)
<1>1. f = [kind |-> "object", next |-> next, keys |-> keys]
  BY DEF Frame
<1>2. f \in Frames
  BY <1>1 DEF Frames
<1>3. f.kind = "object" /\ f.next = next /\ f.keys = keys
  BY <1>1
<1> QED
  BY <1>2, <1>3

LEMMA NextsAre ==
  "key" \in Nexts /\ "colon" \in Nexts /\ "value" \in Nexts /\ "comma" \in Nexts
BY DEF Nexts

LEMMA AroundIs ==
  ASSUME NEW next \in Nexts
  PROVE  Around(next) \in Frames /\ Around(next).next = next /\ Around(next).kind = "object"
<1>1. {aKey} \in SUBSET Strings
  BY TokensAre
<1> QED
  BY <1>1, NextsAre, FrameIs DEF Around

\* What such a state has on top.
LEMMA ScanIs ==
  ASSUME NEW n \in Nat, NEW top, NEW s, IsScan(s, n, top)
  PROVE  /\ s \in ScanState /\ ~s.bad /\ ~s.done
         /\ s.frames = Stack(n, top) /\ Len(s.frames) = n
         /\ s.frames = <<>> <=> n = 0
         /\ n # 0 => Top(s) = top
<1>1. s \in ScanState /\ ~s.bad /\ ~s.done /\ s.frames = Stack(n, top)
  BY DEF IsScan
<1>2. Len(s.frames) = n
  BY <1>1, StackIs
<1>3. s.frames = <<>> <=> n = 0
  BY <1>1, StackIs
<1>4. n # 0 => Top(s) = top
  BY <1>1, StackIs DEF Top
<1> QED
  BY <1>1, <1>2, <1>3, <1>4

\* It may get other containers.
LEMMA Reframed ==
  ASSUME NEW s \in ScanState, ~s.bad, ~s.done, NEW n \in Nat, NEW top \in Frames
  PROVE  IsScan([s EXCEPT !.frames = Stack(n, top)], n, top)
<1>1. Around("value") \in Frames
  BY NextsAre, AroundIs
<1>2. Stack(n, top) \in Seq(Frames)
  <2> HIDE DEF Frames
  <2> QED
    BY <1>1 DEF Stack
<1> DEFINE F == Stack(n, top)
<1> HIDE DEF F
<1>3. F \in Seq(Frames)
  BY <1>2 DEF F
<1>4. LET r == [s EXCEPT !.frames = F] IN
      r \in ScanState /\ ~r.bad /\ ~r.done /\ r.frames = F
  BY <1>3 DEF ScanState
<1> QED
  BY <1>4 DEF IsScan, F

\* The frame on top waits for something else.
LEMMA Awaited ==
  ASSUME NEW n \in Nat, n # 0, NEW next \in Nexts, NEW keys \in SUBSET Strings, NEW x \in Nexts,
         NEW s, IsScan(s, n, Frame("object", next, keys))
  PROVE  IsScan(Await(s, x), n, Frame("object", x, keys))
<1> DEFINE f == Frame("object", next, keys)
           g == Frame("object", x, keys)
<1>1. [f EXCEPT !.next = x] = g
  BY DEF Frame
<1>2. g \in Frames
  BY NextsAre, FrameIs
<1>3. IsScan(s, n, f)
  OBVIOUS
<1> HIDE DEF f, g
<1>4. s \in ScanState /\ ~s.bad /\ ~s.done /\ s.frames = Stack(n, f) /\ Len(s.frames) = n
  BY <1>3, ScanIs
<1>5. Stack(n, f)[n] = f /\ [Stack(n, f) EXCEPT ![n] = g] = Stack(n, g)
  BY StackIs
<1>6. Await(s, x) = [s EXCEPT !.frames = [s.frames EXCEPT ![n] = [s.frames[n] EXCEPT !.next = x]]]
  BY <1>4 DEF Await
<1>7. Await(s, x) = [s EXCEPT !.frames = Stack(n, g)]
  BY <1>1, <1>4, <1>5, <1>6
<1>8. IsScan([s EXCEPT !.frames = Stack(n, g)], n, g)
  BY <1>2, <1>4, Reframed
<1>9. IsScan(Await(s, x), n, g)
  BY <1>7, <1>8
<1> QED
  BY <1>9 DEF g

\* What completes on n open containers.
LEMMA Completed ==
  ASSUME NEW n \in Nat, NEW s, IsScan(s, n, Around("value"))
  PROVE  IsPast(Complete(s), n)
<1> DEFINE r == Complete(s)
<1>1. s \in ScanState /\ ~s.bad /\ ~s.done /\ (s.frames = <<>> <=> n = 0)
      /\ (n # 0 => Top(s) = Around("value"))
  BY ScanIs
<1>2. CASE n = 0
  <2>1. Complete(s) = [s EXCEPT !.done = TRUE]
    BY <1>1, <1>2 DEF Complete
  <2>2. r.done /\ ~r.bad
    BY <1>1, <2>1 DEF ScanState
  <2> HIDE DEF r
  <2>3. IsPast(r, n)
    BY <1>2, <2>2 DEF IsPast
  <2> QED
    BY <2>3 DEF r
<1>3. CASE n # 0
  <2>1. Top(s).next = "value"
    BY <1>1, <1>3, NextsAre, AroundIs
  <2>2. Complete(s) = Await(s, "comma")
    BY <1>1, <1>3, <2>1 DEF Complete
  <2>3. {aKey} \in SUBSET Strings
    BY TokensAre
  <2>4. IsScan(s, n, Frame("object", "value", {aKey}))
    BY DEF Around
  <2>5. IsScan(Await(s, "comma"), n, Frame("object", "comma", {aKey}))
    BY <1>3, <2>3, <2>4, NextsAre, Awaited
  <2>6. IsScan(Complete(s), n, Around("comma"))
    BY <2>2, <2>5 DEF Around
  <2> HIDE DEF r
  <2> QED
    BY <1>3, <2>6 DEF IsPast
<1> QED
  BY <1>2, <1>3

\* One more object opens, up to MaxNesting.
LEMMA ScanOpens ==
  ASSUME NEW n \in Nat, n < MaxNesting, NEW s, IsScan(s, n, Around("value"))
  PROVE  IsScan(Feed(Feed(Feed(s, Left), aKey), Colon), n + 1, Around("value"))
<1> DEFINE f == Frame("object", "key", {})
           k == Feed(s, Left)
           c == Feed(k, aKey)
<1>1. s \in ScanState /\ ~s.bad /\ ~s.done /\ (s.frames = <<>> <=> n = 0)
      /\ (n # 0 => Top(s) = Around("value")) /\ s.frames = Stack(n, Around("value"))
      /\ Len(s.frames) = n
  BY ScanIs
<1> n + 1 \in Nat /\ n + 1 # 0
  OBVIOUS
<1>2. f \in Frames /\ f.next = "key" /\ f.keys = {}
  BY NextsAre, FrameIs
<1>3. IsScan(k, n + 1, f)
  <2>1. s.frames = <<>> \/ Top(s).next = "value"
    BY <1>1, NextsAre, AroundIs
  <2>2. ~(Len(s.frames) >= MaxNesting)
    BY <1>1, TextAssumption
  <2>3. Feed(s, Left) = Push(s, f)
    <3> HIDE DEF f
    <3> QED
      BY <1>1, <2>1, <2>2, FeedIs DEF f
  <2> HIDE DEF f
  <2>4. Append(Stack(n, Around("value")), f) = Stack(n + 1, f)
    BY StackIs
  <2>5. Push(s, f) = [s EXCEPT !.frames = Stack(n + 1, f)]
    BY <1>1, <2>4 DEF Push
  <2>6. IsScan([s EXCEPT !.frames = Stack(n + 1, f)], n + 1, f)
    BY <1>1, <1>2, Reframed
  <2> QED
    BY <2>3, <2>5, <2>6
<1> HIDE DEF k
<1>4. IsScan(c, n + 1, Around("colon"))
  <2> DEFINE a == Await(k, "colon")
             g == Frame("object", "colon", {})
             h == Around("colon")
  <2>1. ~k.bad /\ ~k.done /\ k.frames # <<>> /\ Len(k.frames) = n + 1 /\ Top(k) = f
    <3> HIDE DEF f
    <3> QED
      BY <1>3, ScanIs
  <2>2. Top(k).next = "key" /\ aKey \notin Top(k).keys
    BY <1>2, <2>1
  <2>3. c = [a EXCEPT !.frames[n + 1].keys = @ \cup {aKey}]
    <3>1. Feed(k, aKey) = [Await(k, "colon") EXCEPT !.frames[Len(k.frames)].keys = @ \cup {aKey}]
      BY <2>1, <2>2, FeedIs, Zenon
    <3> QED
      BY <2>1, <3>1
  <2>4. IsScan(a, n + 1, g)
    <3>1. {} \in SUBSET Strings
      OBVIOUS
    <3> QED
      BY <1>3, <3>1, NextsAre, Awaited
  <2>5. [g EXCEPT !.keys = g.keys \cup {aKey}] = h /\ h \in Frames
    <3>1. g = [kind |-> "object", next |-> "colon", keys |-> {}]
          /\ h = [kind |-> "object", next |-> "colon", keys |-> {aKey}]
      BY DEF Frame, Around
    <3>2. h \in Frames
      BY NextsAre, AroundIs
    <3> HIDE DEF g, h
    <3>3. [g EXCEPT !.keys = g.keys \cup {aKey}] = h
      BY <3>1
    <3> QED
      BY <3>2, <3>3
  <2> HIDE DEF a, g, h, c
  <2>6. a \in ScanState /\ ~a.bad /\ ~a.done /\ a.frames = Stack(n + 1, g)
    BY <2>4, ScanIs
  <2>7. Stack(n + 1, g)[n + 1] = g /\ [Stack(n + 1, g) EXCEPT ![n + 1] = h] = Stack(n + 1, h)
    <3>1. ASSUME NEW m \in Nat, m # 0
          PROVE  Stack(m, g)[m] = g /\ [Stack(m, g) EXCEPT ![m] = h] = Stack(m, h)
      BY <3>1, StackIs
    <3> QED
      BY <3>1
  <2>8. c = [a EXCEPT !.frames = [a.frames EXCEPT ![n + 1] =
                                    [a.frames[n + 1] EXCEPT !.keys = a.frames[n + 1].keys \cup {aKey}]]]
    BY <2>3
  <2>9. c = [a EXCEPT !.frames = Stack(n + 1, h)]
    BY <2>5, <2>6, <2>7, <2>8
  <2>10. IsScan([a EXCEPT !.frames = Stack(n + 1, h)], n + 1, h)
    BY <2>5, <2>6, Reframed
  <2> QED
    BY <2>9, <2>10 DEF h
<1> HIDE DEF c
<1>5. IsScan(Feed(c, Colon), n + 1, Around("value"))
  <2>1. ~c.bad /\ ~c.done /\ c.frames # <<>> /\ Top(c) = Around("colon")
    BY <1>4, ScanIs
  <2>2. Top(c).next = "colon"
    BY <2>1, NextsAre, AroundIs
  <2>3. Feed(c, Colon) = Await(c, "value")
    BY <2>1, <2>2, FeedIs, Zenon
  <2>4. {aKey} \in SUBSET Strings
    BY TokensAre
  <2>5. IsScan(Await(c, "value"), n + 1, Frame("object", "value", {aKey}))
    <3>1. IsScan(c, n + 1, Frame("object", "colon", {aKey}))
      BY <1>4 DEF Around
    <3> QED
      BY <2>4, <3>1, NextsAre, Awaited
  <2> QED
    BY <2>3, <2>5 DEF Around
<1> QED
  BY <1>5 DEF c, k

\* The literal inside.
LEMMA ScanLiteral ==
  ASSUME NEW n \in Nat, NEW s, IsScan(s, n, Around("value"))
  PROVE  IsPast(Feed(s, aLiteral), n)
<1>1. ~s.bad /\ ~s.done /\ (s.frames = <<>> <=> n = 0) /\ (n # 0 => Top(s) = Around("value"))
  BY ScanIs
<1>2. s.frames = <<>> \/ Top(s).next = "value"
  BY <1>1, NextsAre, AroundIs
<1>3. Feed(s, aLiteral) = Complete(s)
  BY <1>1, <1>2, FeedIs, Zenon
<1> QED
  BY <1>3, Completed

\* One object less.
LEMMA ScanCloses ==
  ASSUME NEW n \in Nat, NEW s, IsPast(s, n + 1)
  PROVE  IsPast(Feed(s, Right), n)
<1> DEFINE r == [s EXCEPT !.frames = Front(@)]
<1>1. IsScan(s, n + 1, Around("comma"))
  BY DEF IsPast
<1>2. /\ s \in ScanState /\ ~s.bad /\ ~s.done /\ s.frames # <<>>
      /\ Top(s) = Around("comma") /\ s.frames = Stack(n + 1, Around("comma"))
  BY <1>1, ScanIs
<1>3. Top(s).next = "comma" /\ Top(s).kind = "object"
  BY <1>2, NextsAre, AroundIs
<1>4. Feed(s, Right) = Close(s)
  BY <1>2, <1>3, FeedIs, Zenon
<1>5. Front(s.frames) = Stack(n, Around("value"))
  <2>1. n + 1 \in Nat /\ n + 1 # 0 /\ n + 1 - 1 = n
    OBVIOUS
  <2>2. Front(Stack(n + 1, Around("comma"))) = Stack(n + 1 - 1, Around("value"))
    BY <2>1, StackIs
  <2> QED
    BY <1>2, <2>1, <2>2
<1>6. r = [s EXCEPT !.frames = Stack(n, Around("value"))]
  BY <1>5
<1>7. IsScan(r, n, Around("value"))
  BY <1>2, <1>6, NextsAre, AroundIs, Reframed
<1>8. Close(s) = Complete(r)
  BY DEF Close
<1> HIDE DEF r
<1> QED
  BY <1>4, <1>7, <1>8, Completed

\* g has what the scan has seen after the first n tokens.
Feeds(text, n, g) ==
  g = [k \in 0 .. n |-> IF k = 0 THEN Start ELSE Feed(g[k - 1], text[k])]

\* The scan of one token more.
LEMMA FeedsGrow ==
  ASSUME NEW s, NEW n \in Nat, NEW g, Feeds(s, n, g)
  PROVE  \E h : Feeds(s, n + 1, h)
<1> DEFINE h == [k \in 0 .. n + 1 |-> IF k = n + 1 THEN Feed(g[n], s[k]) ELSE g[k]]
           f == [k \in 0 .. n + 1 |-> IF k = 0 THEN Start ELSE Feed(h[k - 1], s[k])]
<1>1. ASSUME NEW k \in 0 .. n + 1 PROVE h[k] = f[k]
  <2>1. CASE k = n + 1
    <3>1. k # 0 /\ k - 1 = n /\ k - 1 \in 0 .. n + 1 /\ k - 1 # n + 1
      BY <2>1
    <3>2. h[k] = Feed(g[n], s[k]) /\ h[k - 1] = g[n]
      BY <2>1, <3>1
    <3>3. f[k] = Feed(h[k - 1], s[k])
      BY <3>1
    <3> QED
      BY <3>2, <3>3
  <2>2. CASE k # n + 1
    <3>1. k \in 0 .. n /\ (k # 0 => k - 1 \in 0 .. n + 1 /\ k - 1 # n + 1)
      BY <2>2
    <3>2. h[k] = g[k] /\ (k # 0 => h[k - 1] = g[k - 1])
      BY <2>2, <3>1
    <3>3. g[k] = IF k = 0 THEN Start ELSE Feed(g[k - 1], s[k])
      BY <3>1 DEF Feeds
    <3>4. f[k] = IF k = 0 THEN Start ELSE Feed(h[k - 1], s[k])
      OBVIOUS
    <3> HIDE DEF h, f
    <3> QED
      BY <3>2, <3>3, <3>4
  <2> QED
    BY <2>1, <2>2
<1>2. DOMAIN h = 0 .. n + 1 /\ h = [k \in 0 .. n + 1 |-> h[k]]
  OBVIOUS
<1>3. DOMAIN f = 0 .. n + 1 /\ f = [k \in 0 .. n + 1 |-> f[k]]
  OBVIOUS
<1>4. h = f
  <2> HIDE DEF h, f
  <2> QED
    BY <1>1, <1>2, <1>3
<1>5. Feeds(s, n + 1, h)
  <2> HIDE DEF h
  <2> QED
    BY <1>4 DEF Feeds
<1> QED
  BY <1>5

LEMMA FeedsExist ==
  ASSUME NEW s, NEW n \in Nat
  PROVE  \E g : Feeds(s, n, g)
<1> DEFINE S == {k \in Nat : \E g : Feeds(s, k, g)}
<1>1. 0 \in S
  <2> DEFINE g == [k \in 0 .. 0 |-> Start]
  <2>1. g = [k \in 0 .. 0 |-> IF k = 0 THEN Start ELSE Feed(g[k - 1], s[k])]
    OBVIOUS
  <2> HIDE DEF g
  <2>2. Feeds(s, 0, g)
    BY <2>1 DEF Feeds
  <2> QED
    BY <2>2
<1>2. ASSUME NEW k \in Nat, k \in S PROVE k + 1 \in S
  <2> PICK g : Feeds(s, k, g)
    BY <1>2
  <2> QED
    BY FeedsGrow
<1> HIDE DEF S
<1>3. Nat \subseteq S
  BY <1>1, <1>2, Induction
<1> QED
  BY <1>3 DEF S

LEMMA FedIs ==
  ASSUME NEW text, Len(text) \in Nat
  PROVE  \E g : Feeds(text, Len(text), g) /\ Scan(text) = g[Len(text)]
<1> DEFINE g == CHOOSE f : Feeds(text, Len(text), f)
<1>1. Feeds(text, Len(text), g)
  BY FeedsExist
<1>2. Scan(text) = g[Len(text)]
  BY Zenon DEF Scan, Feeds
<1> HIDE DEF g
<1> QED
  BY <1>1, <1>2

LEMMA StartIs == IsScan(Start, 0, Around("value"))
<1>1. Stack(0, Around("value")) = <<>>
  BY StackIs
<1>2. <<>> \in Seq(Frames)
  OBVIOUS
<1>3. Start = [frames |-> <<>>, done |-> FALSE, bad |-> FALSE]
  BY DEF Start
<1>4. Start \in ScanState
  <2> HIDE DEF Frames
  <2> QED
    BY <1>2, <1>3 DEF ScanState
<1>5. Start.frames = <<>> /\ ~Start.done /\ ~Start.bad
  BY <1>3
<1> QED
  BY <1>1, <1>4, <1>5 DEF IsScan

\* The scan of such a text ends with it.
LEMMA ScannedDoc ==
  ASSUME NEW d \in Nat, d <= MaxNesting, NEW t, IsDoc(t, d)
  PROVE  Scan(t).done /\ ~Scan(t).bad
<1>0. Len(t) = 4 * d + 1 /\ Len(t) \in Nat /\ MaxNesting \in Nat
  BY TextAssumption DEF IsDoc
<1> PICK g : Feeds(t, Len(t), g) /\ Scan(t) = g[Len(t)]
  BY <1>0, FedIs
<1>1. g[0] = Start
  BY <1>0 DEF Feeds
<1>2. ASSUME NEW k \in Nat, k < 4 * d + 1 PROVE g[k + 1] = Feed(g[k], t[k + 1])
  <2>1. k + 1 \in 0 .. Len(t) /\ k + 1 # 0 /\ k + 1 - 1 = k
    BY <1>0, <1>2
  <2> QED
    BY <2>1 DEF Feeds
<1> DEFINE S == {q \in Nat : q <= d => IsScan(g[3 * q], q, Around("value"))}
<1>3. 0 \in S
  BY <1>1, StartIs
<1>4. ASSUME NEW q \in Nat, q \in S PROVE q + 1 \in S
  <2> SUFFICES ASSUME q + 1 <= d PROVE IsScan(g[3 * (q + 1)], q + 1, Around("value"))
    OBVIOUS
  <2>1. q < d /\ q < MaxNesting /\ 3 * (q + 1) = 3 * q + 3
    BY <1>0
  <2>2. IsScan(g[3 * q], q, Around("value"))
    BY <1>4, <2>1
  <2>3. t[3 * q + 1] = Left /\ t[3 * q + 2] = aKey /\ t[3 * q + 3] = Colon
    BY <2>1 DEF IsDoc
  <2>4. /\ 3 * q \in Nat /\ 3 * q < 4 * d + 1
        /\ 3 * q + 1 \in Nat /\ 3 * q + 1 < 4 * d + 1 /\ 3 * q + 1 + 1 = 3 * q + 2
        /\ 3 * q + 2 \in Nat /\ 3 * q + 2 < 4 * d + 1 /\ 3 * q + 2 + 1 = 3 * q + 3
    BY <2>1
  <2>5. g[3 * q + 1] = Feed(g[3 * q], Left)
    BY <1>2, <2>3, <2>4
  <2>6. g[3 * q + 2] = Feed(g[3 * q + 1], aKey)
    BY <1>2, <2>3, <2>4
  <2>7. g[3 * q + 3] = Feed(g[3 * q + 2], Colon)
    BY <1>2, <2>3, <2>4
  <2>8. IsScan(Feed(Feed(Feed(g[3 * q], Left), aKey), Colon), q + 1, Around("value"))
    BY <2>1, <2>2, ScanOpens
  <2> QED
    BY <2>1, <2>5, <2>6, <2>7, <2>8
<1> HIDE DEF S
<1>5. Nat \subseteq S
  BY <1>3, <1>4, Induction
<1>6. IsScan(g[3 * d], d, Around("value"))
  BY <1>5 DEF S
<1>7. IsPast(g[3 * d + 1], d)
  <2>1. 3 * d \in Nat /\ 3 * d < 4 * d + 1
    OBVIOUS
  <2>2. g[3 * d + 1] = Feed(g[3 * d], aLiteral)
    BY <1>2, <2>1 DEF IsDoc
  <2> QED
    BY <1>6, <2>2, ScanLiteral
<1> DEFINE C == {c \in Nat : c <= d => IsPast(g[3 * d + 1 + c], d - c)}
<1>8. 0 \in C
  <2>1. 3 * d + 1 + 0 = 3 * d + 1 /\ d - 0 = d
    OBVIOUS
  <2> QED
    BY <1>7, <2>1
<1>9. ASSUME NEW c \in Nat, c \in C PROVE c + 1 \in C
  <2> SUFFICES ASSUME c + 1 <= d PROVE IsPast(g[3 * d + 1 + (c + 1)], d - (c + 1))
    OBVIOUS
  <2>1. /\ c <= d /\ c + 1 \in 1 .. d
        /\ 3 * d + 1 + c \in Nat /\ 3 * d + 1 + c < 4 * d + 1
        /\ 3 * d + 1 + (c + 1) = 3 * d + 1 + c + 1
        /\ d - (c + 1) \in Nat /\ d - c = d - (c + 1) + 1
    OBVIOUS
  <2>2. IsPast(g[3 * d + 1 + c], d - (c + 1) + 1)
    BY <1>9, <2>1
  <2>3. t[3 * d + 1 + (c + 1)] = Right
    BY <2>1 DEF IsDoc
  <2>4. g[3 * d + 1 + (c + 1)] = Feed(g[3 * d + 1 + c], Right)
    BY <1>2, <2>1, <2>3
  <2>5. IsPast(Feed(g[3 * d + 1 + c], Right), d - (c + 1))
    BY <2>1, <2>2, ScanCloses
  <2> QED
    BY <2>4, <2>5
<1> HIDE DEF C
<1>10. Nat \subseteq C
  BY <1>8, <1>9, Induction
<1>11. IsPast(g[3 * d + 1 + d], d - d)
  BY <1>10 DEF C
<1>12. 3 * d + 1 + d = Len(t) /\ d - d = 0
  BY <1>0
<1>13. IsPast(g[Len(t)], 0)
  BY <1>11, <1>12
<1> QED
  BY <1>13 DEF IsPast

\* What the writer gives a manifest that is not too deep is read back.
LEMMA NestedParses ==
  ASSUME NEW n \in Nat, n <= MaxNesting
  PROVE  Parses(Nested(n))
<1> DEFINE t == Nested(n)
           T == {Left, Colon, Right, aKey, aLiteral}
<1>1. IsDoc(t, n)
  BY NestedIs
<1> HIDE DEF t
<1>2. Scan(t).done /\ ~Scan(t).bad
  BY <1>1, ScannedDoc
<1>3. t \in Seq(T)
  BY <1>1 DEF IsDoc
<1>4. \A x \in T : x \notin Malformed /\ x # ","
  <2>1. Delimiters = {Left, Right, "[", "]", Colon, ","}
    BY Zenon DEF Delimiters, Left, Right, Colon
  <2>2. \A x \in Malformed : x \notin {Left, Right, Colon}
    BY <2>1, TextAssumption DEF Scalars
  <2> QED
    BY <2>2, TokensAre
<1>5. ASSUME NEW i \in DOMAIN t PROVE t[i] \in T
  <2> HIDE DEF T
  <2> QED
    BY <1>3
<1>6. Serde(t)
  <2> HIDE DEF T
  <2>1. \A i \in DOMAIN t : t[i] \notin Malformed /\ t[i] # ","
    BY <1>4, <1>5
  <2> QED
    BY <2>1, Zenon DEF Serde
<1>7. Parses(t)
  BY <1>2, <1>6 DEF Parses
<1> QED
  BY <1>7 DEF t

-----------------------------------------------------------------------------
(* What a reader finds in the file that a writer left.                     *)

\* Its manifest is the first entry, its payloads are those of the request, and
\* every digest is right.
LEMMA LaidContents ==
  ASSUME NEW text, NEW bulk, NEW seq, Layable(bulk, seq), NEW z, Laid(z, text, bulk, seq)
  PROVE  /\ ManifestAt(z) = 1 /\ z.members[1].body = text
         /\ 1 \in DOMAIN z.members
         /\ \A i \in DOMAIN z.members : Checked(z, i)
         /\ Contained(z) = Members(seq)
<1> DEFINE n == Len(seq) + 1
<1>1. /\ Len(seq) \in Nat /\ DOMAIN z.members = 1 .. n /\ DOMAIN seq = 1 .. Len(seq)
      /\ \A i \in 1 .. n : z.members[i] = EntryAt(text, bulk, seq, i)
      /\ \A i \in 1 .. n : i = 1 <=> PathAt(seq, i).name = ManifestName
      /\ \A i, j \in 1 .. n : PathAt(seq, i) = PathAt(seq, j) => i = j
  BY LaidEntries, ListedSeq DEF Laid, Layable
<1>2. ASSUME NEW i \in 1 .. n
      PROVE  /\ z.members[i].path = PathAt(seq, i)
             /\ z.members[i].crc = z.members[i].body
             /\ z.members[i].body = BodyAt(text, seq, i)
  BY <1>1, EntryFields
<1>3. 1 \in 1 .. n
  BY <1>1
<1>4. ManifestAt(z) = 1
  <2>1. \A i \in DOMAIN z.members : z.members[i].path.name = ManifestName <=> i = 1
    BY <1>1, <1>2
  <2>2. 1 \in DOMAIN z.members
    BY <1>1, <1>3
  <2> QED
    BY <2>1, <2>2 DEF ManifestAt
<1>5. z.members[1].body = text
  BY <1>2, <1>3 DEF BodyAt
<1>6. \A i \in DOMAIN z.members : Checked(z, i)
  BY <1>1, <1>2 DEF Checked
<1>7. Payloads(z) = 2 .. n
  <2>1. \A i \in 1 .. n : z.members[i].path.name # ManifestName <=> i # 1
    BY <1>1, <1>2
  <2>2. 2 .. n = {i \in 1 .. n : i # 1}
    BY <1>1
  <2> QED
    BY <1>1, <2>1, <2>2 DEF Payloads
<1>8. ASSUME NEW i \in 2 .. n
      PROVE  i - 1 \in DOMAIN seq /\ z.members[i].path = seq[i - 1].path /\ z.members[i].body = seq[i - 1].body
  <2>1. i \in 1 .. n /\ i # 1 /\ i - 1 \in 1 .. Len(seq)
    BY <1>1
  <2> QED
    BY <1>1, <1>2, <2>1 DEF PathAt, BodyAt
<1>9. ASSUME NEW j \in DOMAIN seq
      PROVE  j + 1 \in 2 .. n /\ z.members[j + 1].path = seq[j].path
  <2>1. j + 1 \in 2 .. n /\ j + 1 - 1 = j
    BY <1>1
  <2> QED
    BY <1>8, <2>1
<1>10. Physical(z) = {seq[j].path : j \in DOMAIN seq}
  <2>1. Physical(z) = {z.members[i].path : i \in 2 .. n}
    BY <1>7 DEF Physical
  <2>2. \A i \in 2 .. n : z.members[i].path \in {seq[j].path : j \in DOMAIN seq}
    BY <1>8
  <2>3. \A j \in DOMAIN seq : seq[j].path \in {z.members[i].path : i \in 2 .. n}
    BY <1>9
  <2> QED
    BY <2>1, <2>2, <2>3
<1>11. ASSUME NEW p \in Physical(z)
       PROVE  Body(z, p) = seq[CHOOSE j \in DOMAIN seq : seq[j].path = p].body
  <2> DEFINE i == CHOOSE i \in Payloads(z) : z.members[i].path = p
             j == CHOOSE j \in DOMAIN seq : seq[j].path = p
  <2>1. i \in 2 .. n /\ z.members[i].path = p
    <3>1. \E k \in Payloads(z) : z.members[k].path = p
      BY DEF Physical
    <3> QED
      BY <1>7, <3>1
  <2>2. j \in DOMAIN seq /\ seq[j].path = p
    BY <1>10
  <2> HIDE DEF i, j
  <2>3. Unrepeated(seq)
    BY DEF Layable, Admitted
  <2>4. i - 1 = j
    BY <1>8, <2>1, <2>2, <2>3 DEF Unrepeated
  <2>5. Body(z, p) = z.members[i].body
    BY DEF Body, i
  <2> QED
    BY <1>8, <2>1, <2>4, <2>5 DEF j
<1>12. Contained(z) = Members(seq)
  BY <1>10, <1>11 DEF Contained, Members
<1> QED
  BY <1>1, <1>3, <1>4, <1>5, <1>6, <1>12

\* What the writer completes keeps its place in the code: version, depth, bulk
\* and everything but digests, sizes, fingerprints and profiles.
LEMMA DerivedKeeps ==
  ASSUME NEW m \in Manifest, NEW version \in 1 .. 3, NEW payloads
  PROVE  LET d == Derive(version, m, payloads) IN
         d.version = m.version /\ d.depth = m.depth /\ d.bulk = m.bulk
<1>1. CASE version = 1
  <2> DEFINE d == V1Derive(m, payloads)
  <2>1. d.version = m.version /\ d.depth = m.depth /\ d.bulk = m.bulk
    BY DEF V1Derive, Manifest
  <2>2. Derive(version, m, payloads) = d
    BY <1>1 DEF Derive
  <2> HIDE DEF d
  <2> QED
    BY <2>1, <2>2
<1>2. CASE version = 2
  <2> DEFINE d == V2Derive(m, payloads)
  <2>1. d.version = m.version /\ d.depth = m.depth /\ d.bulk = m.bulk
    BY DEF V2Derive, Manifest
  <2>2. Derive(version, m, payloads) = d
    BY <1>2 DEF Derive
  <2> HIDE DEF d
  <2> QED
    BY <2>1, <2>2
<1>3. CASE version = 3
  <2> DEFINE d == V3Derive(m, payloads)
  <2>1. d.version = m.version /\ d.depth = m.depth /\ d.bulk = m.bulk
    BY DEF V3Derive, Manifest
  <2>2. Derive(version, m, payloads) = d
    BY <1>3 DEF Derive
  <2> HIDE DEF d
  <2> QED
    BY <2>1, <2>2
<1> QED
  BY <1>1, <1>2, <1>3

\* The sizes a writer of V1 fills in are those of its payloads, and the list of
\* references keeps its slots, paths and details.
LEMMA V1Fills ==
  ASSUME NEW m \in Manifest, NEW payloads
  PROVE  LET d == V1Derive(m, payloads) IN
         /\ DOMAIN d.inventory = DOMAIN m.inventory /\ Len(d.inventory) = Len(m.inventory)
         /\ \A k \in DOMAIN m.inventory :
              /\ d.inventory[k].path = m.inventory[k].path
              /\ d.inventory[k].regular = m.inventory[k].regular
              /\ d.inventory[k].semantic = m.inventory[k].semantic
              /\ d.inventory[k].profile = m.inventory[k].profile
              /\ d.inventory[k].raw = payloads[m.inventory[k].path]
              /\ d.inventory[k].size = Size[payloads[m.inventory[k].path]]
         /\ DOMAIN d.refs = DOMAIN m.refs
         /\ \A i \in DOMAIN m.refs :
              /\ d.refs[i].slot = m.refs[i].slot /\ d.refs[i].path = m.refs[i].path
              /\ d.refs[i].semantic = m.refs[i].semantic /\ d.refs[i].profile = m.refs[i].profile
              /\ d.refs[i].exact = m.refs[i].exact /\ d.refs[i].detail = m.refs[i].detail
              /\ d.refs[i].raw = IF m.refs[i].slot \in V1DagMl THEN payloads[m.refs[i].path]
                                                               ELSE m.refs[i].raw
         /\ d.version = m.version /\ d.frozen = m.frozen /\ d.kind = m.kind
         /\ d.extension = m.extension /\ d.migration = m.migration
         /\ d.signature = m.signature /\ d.workspace = m.workspace
<1> DEFINE d == V1Derive(m, payloads)
<1>1. m.inventory \in Seq(InventoryEntry) /\ m.refs \in Seq(Reference)
  BY DEF Manifest
<1>2. /\ Listed(m.inventory) /\ \A k \in DOMAIN m.inventory : m.inventory[k] \in InventoryEntry
      /\ \A i \in DOMAIN m.refs : m.refs[i] \in Reference
  BY <1>1, ListedSeq
<1>3. d.inventory = [k \in DOMAIN m.inventory |-> Raw(m.inventory[k], payloads)]
      /\ d.refs = [i \in DOMAIN m.refs |-> IF m.refs[i].slot \in V1DagMl
                                           THEN RawRef(m.refs[i], payloads) ELSE m.refs[i]]
  BY DEF V1Derive, Manifest
<1>4. /\ d.version = m.version /\ d.frozen = m.frozen /\ d.kind = m.kind
      /\ d.extension = m.extension /\ d.migration = m.migration
      /\ d.signature = m.signature /\ d.workspace = m.workspace
  BY DEF V1Derive, Manifest
<1> HIDE DEF d
<1>5. ASSUME NEW e \in InventoryEntry
      PROVE  LET r == Raw(e, payloads) IN
             /\ r.path = e.path /\ r.regular = e.regular /\ r.semantic = e.semantic
             /\ r.profile = e.profile /\ r.raw = payloads[e.path] /\ r.size = Size[payloads[e.path]]
  BY DEF Raw, InventoryEntry
<1>6. ASSUME NEW e \in Reference
      PROVE  LET r == RawRef(e, payloads) IN
             /\ r.slot = e.slot /\ r.path = e.path /\ r.semantic = e.semantic
             /\ r.profile = e.profile /\ r.exact = e.exact /\ r.detail = e.detail
             /\ r.raw = payloads[e.path]
  BY DEF RawRef, Reference
<1>7. DOMAIN d.inventory = DOMAIN m.inventory /\ Len(d.inventory) = Len(m.inventory)
  <2>1. DOMAIN d.inventory = DOMAIN m.inventory
        /\ d.inventory = [k \in DOMAIN m.inventory |-> d.inventory[k]]
    BY <1>3
  <2> QED
    BY <1>2, <2>1, ListedMap
<1>8. \A k \in DOMAIN m.inventory :
        /\ d.inventory[k].path = m.inventory[k].path
        /\ d.inventory[k].regular = m.inventory[k].regular
        /\ d.inventory[k].semantic = m.inventory[k].semantic
        /\ d.inventory[k].profile = m.inventory[k].profile
        /\ d.inventory[k].raw = payloads[m.inventory[k].path]
        /\ d.inventory[k].size = Size[payloads[m.inventory[k].path]]
  BY <1>2, <1>3, <1>5
<1>9. DOMAIN d.refs = DOMAIN m.refs
  BY <1>3
<1>10. ASSUME NEW i \in DOMAIN m.refs
       PROVE  /\ d.refs[i].slot = m.refs[i].slot /\ d.refs[i].path = m.refs[i].path
              /\ d.refs[i].semantic = m.refs[i].semantic /\ d.refs[i].profile = m.refs[i].profile
              /\ d.refs[i].exact = m.refs[i].exact /\ d.refs[i].detail = m.refs[i].detail
              /\ d.refs[i].raw = IF m.refs[i].slot \in V1DagMl THEN payloads[m.refs[i].path]
                                                               ELSE m.refs[i].raw
  <2>1. CASE m.refs[i].slot \in V1DagMl
    <3>1. d.refs[i] = RawRef(m.refs[i], payloads)
      BY <1>3, <2>1
    <3> QED
      BY <1>2, <1>6, <2>1, <3>1
  <2>2. CASE m.refs[i].slot \notin V1DagMl
    BY <1>3, <2>2
  <2> QED
    BY <2>1, <2>2
<1> QED
  BY <1>4, <1>7, <1>8, <1>9, <1>10 DEF d

\* The payloads of a request are contents.
LEMMA MembersAre ==
  ASSUME NEW seq \in Seq(Payload)
  PROVE  /\ DOMAIN Members(seq) = {seq[i].path : i \in DOMAIN seq}
         /\ \A p \in DOMAIN Members(seq) : Members(seq)[p] \in Contents
<1>1. \A i \in DOMAIN seq : seq[i] \in Payload
  BY ListedSeq
<1>2. \A i \in DOMAIN seq : seq[i].body \in Contents
  BY <1>1 DEF Payload
<1>3. DOMAIN Members(seq) = {seq[i].path : i \in DOMAIN seq}
  BY DEF Members
<1>4. ASSUME NEW p \in DOMAIN Members(seq) PROVE Members(seq)[p] \in Contents
  <2> DEFINE j == CHOOSE j \in DOMAIN seq : seq[j].path = p
  <2>1. j \in DOMAIN seq
    BY <1>3
  <2>2. Members(seq)[p] = seq[j].body
    BY <1>3 DEF Members
  <2> HIDE DEF j
  <2> QED
    BY <1>2, <2>1, <2>2
<1> QED
  BY <1>3, <1>4

\* What is asked of the shape of a manifest of V1 is asked of what its writer
\* leaves alone, or of digests that it takes from the payloads.
LEMMA V1ShapeKept ==
  ASSUME NEW m \in Manifest, NEW payloads, V1ShapeOk(m),
         \A i \in DOMAIN m.refs : m.refs[i].slot \in V1DagMl => payloads[m.refs[i].path] \in Contents
  PROVE  V1ShapeOk(V1Derive(m, payloads))
<1> DEFINE d == V1Derive(m, payloads)
<1>1. /\ DOMAIN d.refs = DOMAIN m.refs
      /\ \A i \in DOMAIN m.refs :
           /\ d.refs[i].slot = m.refs[i].slot /\ d.refs[i].path = m.refs[i].path
           /\ d.refs[i].semantic = m.refs[i].semantic /\ d.refs[i].profile = m.refs[i].profile
           /\ d.refs[i].exact = m.refs[i].exact /\ d.refs[i].detail = m.refs[i].detail
           /\ d.refs[i].raw = IF m.refs[i].slot \in V1DagMl THEN payloads[m.refs[i].path]
                                                            ELSE m.refs[i].raw
      /\ d.version = m.version /\ d.frozen = m.frozen /\ d.kind = m.kind
      /\ d.extension = m.extension /\ d.migration = m.migration
      /\ d.signature = m.signature /\ d.workspace = m.workspace
  BY V1Fills
<1> HIDE DEF d
<1>2. Slots(d.refs) = Slots(m.refs)
  BY <1>1 DEF Slots
<1>3. \A slots : Of(d.refs, slots) = Of(m.refs, slots)
  BY <1>1 DEF Of
<1>4. V1FrozenOk(d) /\ V1MigrationOk(d.migration) /\ V1SignatureOk(d.signature)
      /\ V1ReplayOk(d.refs) /\ V1ExtensionsOk(d.extension)
  BY <1>1, <1>2 DEF V1ShapeOk, V1FrozenOk, V1ReplayOk
<1>5. V1PayloadsOk(d.refs)
  <2>1. V1PayloadsOk(m.refs)
    BY DEF V1ShapeOk
  <2>2. ASSUME NEW i \in DOMAIN d.refs PROVE V1RefOk(d.refs[i])
    <3>1. V1RefOk(m.refs[i]) /\ i \in DOMAIN m.refs
      BY <1>1, <2>1 DEF V1PayloadsOk
    <3>2. Sha(d.refs[i].raw)
      BY <1>1, <3>1 DEF V1RefOk, Sha
    <3> QED
      BY <1>1, <3>1, <3>2 DEF V1RefOk
  <2>3. ASSUME NEW i \in Of(d.refs, {"host_artifacts"}), NEW j \in Of(d.refs, {"host_artifacts"})
        PROVE  V1HostOk(d.refs[i].detail) /\ (d.refs[i].detail.id = d.refs[j].detail.id => i = j)
    <3>1. i \in Of(m.refs, {"host_artifacts"}) /\ j \in Of(m.refs, {"host_artifacts"})
      BY <1>3
    <3>2. d.refs[i].detail = m.refs[i].detail /\ d.refs[j].detail = m.refs[j].detail
      BY <1>1, <3>1 DEF Of
    <3> QED
      BY <2>1, <3>1, <3>2 DEF V1PayloadsOk
  <2> QED
    BY <1>2, <2>1, <2>2, <2>3 DEF V1PayloadsOk
<1>6. IF d.kind = "workspace_snapshot" THEN d.workspace # None /\ V1WorkspaceOk(d.workspace)
                                       ELSE d.workspace = None
  BY <1>1 DEF V1ShapeOk
<1>7. d.kind \in {"n4a_archive", "workspace_snapshot"}
  BY <1>1 DEF V1ShapeOk
<1>8. V1ShapeOk(d)
  BY <1>4, <1>5, <1>6, <1>7 DEF V1ShapeOk
<1> QED
  BY <1>8 DEF d

\* The verification of a reader of V1 passes what the writer prepared.
LEMMA V1Accepted ==
  ASSUME NEW m \in Manifest, NEW seq \in Seq(Payload), V1Prepare(m, seq) = "ok"
  PROVE  V1Verify(V1Derive(m, Members(seq)), Members(seq)) = "ok"
<1> DEFINE payloads == Members(seq)
           d == V1Derive(m, payloads)
           sizes == [k \in DOMAIN m.inventory |-> Size[payloads[m.inventory[k].path]]]
<1>1. /\ V1ShapeOk(m) /\ InventoryPaths(m.inventory) = DOMAIN payloads
      /\ V1InventoryOk(m.inventory, sizes)
      /\ \A i \in Of(m.refs, V1DagMl) : m.refs[i].path \in DOMAIN payloads
      /\ V1LinksOk(d) /\ ~V1Reserved(m)
  BY DEF V1Prepare
<1>2. \A p \in DOMAIN payloads : payloads[p] \in Contents
  BY MembersAre
<1>3. /\ DOMAIN d.inventory = DOMAIN m.inventory /\ Len(d.inventory) = Len(m.inventory)
      /\ \A k \in DOMAIN m.inventory :
           /\ d.inventory[k].path = m.inventory[k].path
           /\ d.inventory[k].regular = m.inventory[k].regular
           /\ d.inventory[k].semantic = m.inventory[k].semantic
           /\ d.inventory[k].profile = m.inventory[k].profile
           /\ d.inventory[k].raw = payloads[m.inventory[k].path]
           /\ d.inventory[k].size = Size[payloads[m.inventory[k].path]]
  BY V1Fills
<1>4. /\ DOMAIN d.refs = DOMAIN m.refs
      /\ \A i \in DOMAIN m.refs : d.refs[i].slot = m.refs[i].slot
      /\ d.kind = m.kind /\ d.migration = m.migration /\ d.signature = m.signature
  BY V1Fills
<1>5. V1ShapeOk(d)
  BY <1>1, <1>2, V1ShapeKept DEF Of
<1>6. /\ Listed(d.inventory) /\ Listed(m.inventory)
  <2>1. m.inventory \in Seq(InventoryEntry)
    BY DEF Manifest
  <2> QED
    BY <2>1, V1Derived, ListedSeq
<1> HIDE DEF d, payloads
<1>7. ASSUME NEW k \in DOMAIN m.inventory
      PROVE  m.inventory[k].path \in DOMAIN payloads
  BY <1>1 DEF InventoryPaths
<1>8. InventoryPaths(d.inventory) = DOMAIN payloads
  <2>1. InventoryPaths(d.inventory) = InventoryPaths(m.inventory)
    BY <1>3 DEF InventoryPaths
  <2> QED
    BY <1>1, <2>1
<1>9. V1InventoryOk(d.inventory, Declared(d.inventory))
  <2>1. Declared(d.inventory) = sizes
    BY <1>3 DEF Declared
  <2> HIDE DEF sizes
  <2>2. d.inventory # <<>>
    <3>1. m.inventory # <<>>
      BY <1>1 DEF V1InventoryOk
    <3>2. Len(m.inventory) # 0
      BY <1>6, <3>1, EmptySeq DEF Listed
    <3>3. Len(d.inventory) # 0
      BY <1>3, <3>2
    <3> QED
      BY <1>6, <3>3, EmptySeq DEF Listed
  <2>3. Unrepeated(d.inventory)
    BY <1>1, <1>3 DEF V1InventoryOk, Unrepeated
  <2>4. ASSUME NEW k \in DOMAIN d.inventory
        PROVE  /\ V1PathOk(d.inventory[k].path) /\ d.inventory[k].path.name # ManifestName
               /\ d.inventory[k].regular
               /\ Sha(d.inventory[k].raw) /\ ShaOrNull(d.inventory[k].semantic)
               /\ d.inventory[k].profile \in V1Profiles
               /\ sizes[k] <= MaxMember
    <3>1. k \in DOMAIN m.inventory
      BY <1>3
    <3>2. Sha(d.inventory[k].raw)
      BY <1>2, <1>3, <1>7, <3>1 DEF Sha
    <3>3. /\ V1PathOk(m.inventory[k].path) /\ m.inventory[k].path.name # ManifestName
          /\ m.inventory[k].regular /\ ShaOrNull(m.inventory[k].semantic)
          /\ m.inventory[k].profile \in V1Profiles /\ sizes[k] <= MaxMember
      BY <1>1, <3>1 DEF V1InventoryOk
    <3> QED
      BY <1>3, <3>1, <3>2, <3>3
  <2>5. Len(d.inventory) + 1 <= MaxEntries /\ Total(sizes, Len(d.inventory)) <= MaxTotal
    BY <1>1, <1>3 DEF V1InventoryOk
  <2> QED
    BY <2>1, <2>2, <2>3, <2>4, <2>5 DEF V1InventoryOk
<1>10. ~V1Reserved(d) /\ V1NamespaceOk(d, DOMAIN payloads)
  <2>1. \A slots : Of(d.refs, slots) = Of(m.refs, slots)
    BY <1>4 DEF Of
  <2> QED
    BY <1>1, <1>4, <2>1 DEF V1Reserved, V1NamespaceOk
<1>11. V1Dispatch(d, DOMAIN payloads) = "ok"
  BY <1>1, <1>5, <1>8, <1>9, <1>10 DEF V1Dispatch
<1>12. Intact(d.inventory, payloads)
  BY <1>3, <1>7 DEF Intact
<1> QED
  BY <1>11, <1>12 DEF V1Verify, d, payloads

\* What a writer prepares is what the readers of its version accept: V2 and V3
\* have their writers run the verification itself.
LEMMA Accepted ==
  ASSUME NEW m \in Manifest, NEW version \in 1 .. 3, NEW seq \in Seq(Payload),
         Prepare(version, m, seq) = "ok"
  PROVE  /\ VerifyVerdict(version, Derive(version, m, Members(seq)), Members(seq)) = "ok"
         /\ Derive(version, m, Members(seq)).version = version
         /\ Admitted(seq)
         /\ version = 1 => \A i \in DOMAIN seq : V1PathOk(seq[i].path)
<1> DEFINE d == Derive(version, m, Members(seq))
<1>1. CASE version = 1
  <2>1. V1Prepare(m, seq) = "ok" /\ d = V1Derive(m, Members(seq))
    BY <1>1 DEF Prepare, Derive
  <2>2. V1Verify(d, Members(seq)) = "ok"
    BY <2>1, V1Accepted
  <2> HIDE DEF d
  <2>3. d.version = 1
    BY <2>2 DEF V1Verify, V1Dispatch, V1ShapeOk, V1FrozenOk
  <2>4. Admitted(seq) /\ \A i \in DOMAIN seq : V1PathOk(seq[i].path)
    BY <2>1 DEF V1Prepare
  <2> QED
    BY <1>1, <2>2, <2>3, <2>4 DEF VerifyVerdict, d
<1>2. CASE version = 2
  <2>1. V2Prepare(m, seq) = "ok" /\ d = V2Derive(m, Members(seq))
    BY <1>2 DEF Prepare, Derive
  <2>2. V2Verify(d, Members(seq)) = "ok" /\ Admitted(seq)
    BY <2>1 DEF V2Prepare
  <2> HIDE DEF d
  <2>3. d.version = 2
    BY <2>2 DEF V2Verify, V2Dispatch, V2SectionsOk, V2FrozenOk
  <2> QED
    BY <1>2, <2>2, <2>3 DEF VerifyVerdict, d
<1>3. CASE version = 3
  <2>1. V3Prepare(m, seq) = "ok" /\ d = V3Derive(m, Members(seq))
    BY <1>3 DEF Prepare, Derive
  <2>2. V3Verify(d, Members(seq)) = "ok" /\ Admitted(seq)
    BY <2>1 DEF V3Prepare
  <2> HIDE DEF d
  <2>3. d.version = 3
    BY <2>2 DEF V3Verify, V3Dispatch, V3SectionsOk, V3FrozenOk
  <2> QED
    BY <1>3, <2>2, <2>3 DEF VerifyVerdict, d
<1> QED
  BY <1>1, <1>2, <1>3

-----------------------------------------------------------------------------
(* What nobody touched is read.                                            *)

\* The file z is the one a writer laid out for the request r, and w is what it
\* had in hand.
Legible(r, w, z) ==
  LET m == w.manifest
      seq == r.payloads
  IN  /\ r.version \in 1 .. 3 /\ m.version = r.version /\ m.depth \in Nat
      /\ w = [manifest |-> m, payloads |-> Members(seq)]
      /\ Layable(m.bulk, seq) /\ Laid(z, Document(m), m.bulk, seq)
      /\ VerifyVerdict(r.version, m, w.payloads) = "ok"
      /\ r.version = 1 => \A i \in DOMAIN seq : V1PathOk(seq[i].path)

\* In such a file a reader finds what the writer had in hand.
LEMMA LegibleContents ==
  ASSUME NEW r, NEW w, Legible(r, w, zip)
  PROVE  /\ Parsed(StoredDocument) = w.manifest
         /\ StoredDocument.text = Nested(w.manifest.depth)
         /\ ManifestAt(zip) \in DOMAIN zip.members
         /\ \A i \in DOMAIN zip.members : Checked(zip, i)
         /\ Contained(zip) = w.payloads
<1> DEFINE m == w.manifest
<1>1. Layable(m.bulk, r.payloads) /\ Laid(zip, Document(m), m.bulk, r.payloads)
      /\ w = [manifest |-> m, payloads |-> Members(r.payloads)]
  BY DEF Legible
<1>2. /\ ManifestAt(zip) = 1 /\ zip.members[1].body = Document(m) /\ 1 \in DOMAIN zip.members
      /\ \A i \in DOMAIN zip.members : Checked(zip, i)
      /\ Contained(zip) = Members(r.payloads)
  BY <1>1, LaidContents
<1>3. StoredDocument = [value |-> m, text |-> Nested(m.depth)]
  BY <1>2 DEF StoredDocument, Document
<1>4. Parsed(StoredDocument) = m
  BY <1>3 DEF Parsed
<1>5. w.payloads = Members(r.payloads)
  BY <1>1
<1> QED
  BY <1>2, <1>3, <1>4, <1>5

\* The preflights pass.
LEMMA LegiblePasses ==
  ASSUME NEW r, Legible(r, written, zip), Readable
  PROVE  /\ V2Preflight(zip) = "ok"
         /\ r.version = 1 => V1Preflight(zip) = "ok"
<1> DEFINE m == written.manifest
<1>1. /\ Layable(m.bulk, r.payloads) /\ Laid(zip, Document(m), m.bulk, r.payloads)
      /\ written = [manifest |-> m, payloads |-> Members(r.payloads)]
      /\ r.version = 1 => \A i \in DOMAIN r.payloads : V1PathOk(r.payloads[i].path)
  BY DEF Legible
<1>2. DOMAIN written.payloads = {r.payloads[i].path : i \in DOMAIN r.payloads}
  <2>1. r.payloads \in Seq(Payload)
    BY <1>1 DEF Layable
  <2>2. DOMAIN Members(r.payloads) = {r.payloads[i].path : i \in DOMAIN r.payloads}
    BY <2>1, MembersAre
  <2>3. written.payloads = Members(r.payloads)
    BY <1>1
  <2> QED
    BY <2>2, <2>3
<1>3. \A i \in DOMAIN r.payloads : V2PathOk(r.payloads[i].path)
  BY <1>2 DEF Readable
<1>4. zip.directory # EndMark
  BY DEF Readable
<1> QED
  BY <1>1, <1>3, <1>4, LaidPasses

\* So does the manifest, whose version the dispatch follows.
LEMMA LegibleParses ==
  ASSUME NEW r, Legible(r, written, zip), Readable
  PROVE  /\ Checked(zip, ManifestAt(zip)) /\ Parses(StoredDocument.text)
         /\ Parsed(StoredDocument).version = r.version /\ r.version \in 1 .. 3
<1>1. written.manifest.depth \in Nat /\ written.manifest.depth <= MaxNesting
      /\ written.manifest.version = r.version /\ r.version \in 1 .. 3
  BY DEF Legible, Readable
<1>2. Parses(Nested(written.manifest.depth))
  BY <1>1, NestedParses
<1> QED
  BY <1>1, <1>2, LegibleContents

\* And the manifest is one that its version accepts, before and after the
\* payloads are opened.
LEMMA LegibleAccepted ==
  ASSUME NEW r, Legible(r, written, zip), WellFormed(zip)
  PROVE  /\ DispatchVerdict(r.version, written.manifest, zip) = "ok"
         /\ VerifyVerdict(r.version, written.manifest, Contained(zip)) = "ok"
<1> DEFINE m == written.manifest
           x == Contained(zip)
           sizes == [p \in DOMAIN x |-> Size[x[p]]]
<1>1. r.version \in 1 .. 3 /\ VerifyVerdict(r.version, m, written.payloads) = "ok"
  BY DEF Legible
<1>2. x = written.payloads
  BY LegibleContents
<1>3. VerifyVerdict(r.version, m, x) = "ok"
  BY <1>1, <1>2
<1>4. DOMAIN x = Physical(zip) /\ sizes = SizesIn(zip)
  BY ContainedPayloads
<1>5. SizesOf(x) = sizes
  BY DEF SizesOf
<1> HIDE DEF m, x, sizes
<1>6. CASE r.version = 1
  <2>1. V1Verify(m, x) = "ok"
    BY <1>3, <1>6 DEF VerifyVerdict
  <2>2. V1Dispatch(m, Physical(zip)) = "ok"
    BY <1>4, <2>1 DEF V1Verify
  <2> QED
    BY <1>3, <1>6, <2>2 DEF DispatchVerdict, m, x
<1>7. CASE r.version = 2
  <2>1. V2Verify(m, x) = "ok"
    BY <1>3, <1>7 DEF VerifyVerdict
  <2>2. V2Dispatch(m, SizesIn(zip)) = "ok"
    BY <1>4, <1>5, <2>1 DEF V2Verify
  <2> QED
    BY <1>3, <1>7, <2>2 DEF DispatchVerdict, m, x
<1>8. CASE r.version = 3
  <2>1. V3Verify(m, x) = "ok"
    BY <1>3, <1>8 DEF VerifyVerdict
  <2>2. V3Dispatch(m, SizesIn(zip)) = "ok"
    BY <1>4, <2>1 DEF V3Verify, sizes
  <2> QED
    BY <1>3, <1>8, <2>2 DEF DispatchVerdict, m, x
<1> QED
  BY <1>1, <1>6, <1>7, <1>8

\* A file that nobody touched is the one that its writer laid out, what was
\* taken from it is what the writer had, and no reader of its version refuses
\* it without a reason.
Kept == pristine /\ (pc \in Exists \/ (Refused /\ stage # "write"))
ReadInv ==
  /\ Kept => Legible(request, written, zip)
  /\ Kept /\ pc \in {"dispatch", "payloads", "verify", "loaded"} => held.manifest = written.manifest
  /\ Refused /\ stage # "write" /\ pristine /\ reader \in {0, request.version} => ~Readable

\* One stage keeps it when, of a file that nobody touched, it refuses only
\* what is not readable.
LEMMA DecideReads ==
  ASSUME Inv, ReadInv, NEW at \in Stages, NEW outcome, NEW next \in Stages \cup {"loaded"},
         Decide(at, outcome, next),
         outcome # "ok" => reader' = reader,
         Kept /\ Readable /\ reader \in {0, request.version} => outcome = "ok",
         Kept /\ pc' \in {"dispatch", "payloads", "verify", "loaded"}
           => held'.manifest = written.manifest
  PROVE  ReadInv'
<1>1. /\ pc = at /\ UNCHANGED <<request, zip, written, pristine, changes>>
      /\ IF outcome = "ok" THEN pc' = next /\ UNCHANGED <<verdict, stage>>
                           ELSE pc' = "refused" /\ verdict' = outcome /\ stage' = at
  BY DEF Decide
<1>2. pc \in Exists
  BY <1>1 DEF Exists
<1>3. Kept' => Kept
  BY <1>1, <1>2 DEF Kept
<1>4. (Kept => Legible(request, written, zip))'
  BY <1>1, <1>3 DEF ReadInv
<1>5. (Kept /\ pc \in {"dispatch", "payloads", "verify", "loaded"}
         => held.manifest = written.manifest)'
  BY <1>1, <1>3
<1>6. Readable' = Readable
  BY <1>1 DEF Readable
<1>7. CASE outcome = "ok"
  <2>1. pc' # "refused"
    BY <1>1, <1>7 DEF Stages
  <2> QED
    BY <1>4, <1>5, <2>1 DEF ReadInv, Refused
<1>8. CASE outcome # "ok"
  <2>1. pristine /\ reader \in {0, request.version} => ~Readable
    BY <1>2, <1>8 DEF Kept
  <2> QED
    BY <1>1, <1>4, <1>5, <1>6, <1>8, <2>1 DEF ReadInv
<1> QED
  BY <1>7, <1>8

LEMMA WriteReads ==
  ASSUME Inv, Write
  PROVE  ReadInv'
<1> DEFINE seq == request.payloads
           prepared == Prepare(request.version, request.manifest, seq)
           m == Derive(request.version, request.manifest, Members(seq))
           decided == IF prepared = "ok" /\ ~Fits(m.bulk, seq) THEN "format" ELSE prepared
<1>1. pc = "request" /\ UNCHANGED <<reader, request, held, pristine, changes>>
  BY DEF Write
<1>2. request.version \in 1 .. 3 /\ request.manifest \in Manifest /\ seq \in Seq(Payload)
  BY <1>1 DEF Inv, RequestInv
<1>3. CASE decided = "ok"
  <2>1. /\ pc' = "stored"
        /\ zip' = StoredZip(Document(m), m.bulk, seq)
        /\ written' = [manifest |-> m, payloads |-> Members(seq)]
    BY <1>3 DEF Write
  <2>2. prepared = "ok" /\ Fits(m.bulk, seq)
    BY <1>3
  <2>3. /\ VerifyVerdict(request.version, m, Members(seq)) = "ok"
        /\ m.version = request.version /\ Admitted(seq)
        /\ request.version = 1 => \A i \in DOMAIN seq : V1PathOk(seq[i].path)
    BY <1>2, <2>2, Accepted
  <2>4. m.bulk \in Nat /\ m.depth \in Nat
    <3>1. m.bulk = request.manifest.bulk /\ m.depth = request.manifest.depth
      BY <1>2, DerivedKeeps
    <3>2. request.manifest.bulk \in Nat /\ request.manifest.depth \in Nat
      BY <1>2 DEF Manifest
    <3> QED
      BY <3>1, <3>2
  <2> HIDE DEF m, prepared, decided
  <2>5. Laid(StoredZip(Document(m), m.bulk, seq), Document(m), m.bulk, seq)
    BY <1>2, StoredLaid
  <2>6. Layable(m.bulk, seq)
    BY <1>2, <2>2, <2>3, <2>4 DEF Layable
  <2>7. Legible(request, [manifest |-> m, payloads |-> Members(seq)], StoredZip(Document(m), m.bulk, seq))
    BY <1>2, <2>3, <2>4, <2>5, <2>6 DEF Legible
  <2>8. Legible(request, written, zip)'
    BY <1>1, <2>1, <2>7
  <2> QED
    BY <2>1, <2>8 DEF ReadInv, Refused
<1>4. CASE decided # "ok"
  <2>1. pc' = "refused" /\ stage' = "write"
    BY <1>4 DEF Write
  <2> QED
    BY <2>1 DEF ReadInv, Kept, Exists, Stages, Refused
<1> QED
  BY <1>3, <1>4

LEMMA PreflightReads ==
  ASSUME Inv, ReadInv, Preflight
  PROVE  ReadInv'
<1> DEFINE outcome == IF reader = 1 THEN V1Preflight(zip) ELSE V2Preflight(zip)
<1>1. Decide("preflight", outcome, "manifest") /\ UNCHANGED <<reader, held>>
  BY DEF Preflight
<1>2. ASSUME Kept, Readable, reader \in {0, request.version} PROVE outcome = "ok"
  <2>1. Legible(request, written, zip)
    BY <1>2 DEF ReadInv
  <2> QED
    BY <1>2, <2>1, LegiblePasses
<1> HIDE DEF outcome
<1>3. pc' \in {"manifest", "refused"}
  BY <1>1 DEF Decide
<1>4. ~(pc' \in {"dispatch", "payloads", "verify", "loaded"})
  BY <1>3
<1> QED
  BY <1>1, <1>2, <1>4, DecideReads DEF Stages

LEMMA ReadManifestReads ==
  ASSUME Inv, ReadInv, ReadManifest
  PROVE  ReadInv'
<1> DEFINE version == Parsed(StoredDocument).version
           unknown == reader = 0 /\ version \notin 1 .. 3
           outcome == IF ~Checked(zip, ManifestAt(zip)) THEN "integrity"
                      ELSE IF ~Parses(StoredDocument.text) \/ unknown THEN "format" ELSE "ok"
           next == IF reader = 0 /\ version \in {1, 3} THEN "preflight" ELSE "dispatch"
<1>1. /\ Decide("manifest", outcome, next)
      /\ reader' = IF reader = 0 /\ outcome = "ok" THEN version ELSE reader
      /\ held' = IF outcome = "ok" THEN [held EXCEPT !.manifest = Parsed(StoredDocument)] ELSE held
  BY DEF ReadManifest
<1>2. next \in Stages
  BY DEF Stages
<1>3. ASSUME Kept, Readable PROVE outcome = "ok"
  <2>1. Legible(request, written, zip)
    BY <1>3 DEF ReadInv
  <2>2. /\ Checked(zip, ManifestAt(zip)) /\ Parses(StoredDocument.text)
        /\ version = request.version /\ request.version \in 1 .. 3
    BY <1>3, <2>1, LegibleParses
  <2> HIDE DEF version
  <2> QED
    BY <2>2
<1> HIDE DEF version, outcome, next
<1>4. ASSUME Kept, pc' \in {"dispatch", "payloads", "verify", "loaded"}
      PROVE  held'.manifest = written.manifest
  <2>1. outcome = "ok"
    BY <1>1, <1>4 DEF Decide
  <2>2. held' = [held EXCEPT !.manifest = Parsed(StoredDocument)]
    BY <1>1, <2>1
  <2>3. held'.manifest = Parsed(StoredDocument)
    BY <2>2 DEF Inv, LoadInv
  <2>4. Parsed(StoredDocument) = written.manifest
    BY <1>4, LegibleContents DEF ReadInv
  <2> QED
    BY <2>3, <2>4
<1>5. outcome # "ok" => reader' = reader
  BY <1>1
<1> QED
  BY <1>1, <1>2, <1>3, <1>4, <1>5, DecideReads DEF Stages

LEMMA DispatchReads ==
  ASSUME Inv, ReadInv, Dispatch
  PROVE  ReadInv'
<1> DEFINE outcome == DispatchVerdict(reader, held.manifest, zip)
<1>1. Decide("dispatch", outcome, "payloads") /\ UNCHANGED <<reader, held>>
  BY DEF Dispatch, DispatchVerdict
<1>2. pc = "dispatch" /\ reader \in 1 .. 3 /\ WellFormed(zip)
  BY <1>1 DEF Decide, Inv, LoadInv, FileInv, Exists, Stages
<1>3. Kept => held.manifest = written.manifest /\ Legible(request, written, zip)
  BY <1>2 DEF ReadInv
<1>4. ASSUME Kept, Readable, reader \in {0, request.version} PROVE outcome = "ok"
  BY <1>2, <1>3, <1>4, LegibleAccepted
<1> HIDE DEF outcome
<1> QED
  BY <1>1, <1>3, <1>4, DecideReads DEF Stages

LEMMA ReadPayloadsReads ==
  ASSUME Inv, ReadInv, ReadPayloads
  PROVE  ReadInv'
<1> DEFINE outcome == IF \A i \in Payloads(zip) : Checked(zip, i) THEN "ok" ELSE "integrity"
<1>1. /\ Decide("payloads", outcome, "verify") /\ reader' = reader
      /\ held' = IF outcome = "ok" THEN [held EXCEPT !.payloads = Contained(zip)] ELSE held
  BY DEF ReadPayloads
<1>2. pc = "payloads"
  BY <1>1 DEF Decide
<1>3. Kept => held.manifest = written.manifest /\ Legible(request, written, zip)
  BY <1>2 DEF ReadInv
<1>4. ASSUME Kept, Readable, reader \in {0, request.version} PROVE outcome = "ok"
  <2>1. \A i \in DOMAIN zip.members : Checked(zip, i)
    BY <1>3, <1>4, LegibleContents
  <2> QED
    BY <2>1 DEF Payloads
<1> HIDE DEF outcome
<1>5. held'.manifest = held.manifest
  BY <1>1 DEF Inv, LoadInv
<1> QED
  BY <1>1, <1>3, <1>4, <1>5, DecideReads DEF Stages

LEMMA VerifyReads ==
  ASSUME Inv, ReadInv, Verify
  PROVE  ReadInv'
<1> DEFINE outcome == VerifyVerdict(reader, held.manifest, held.payloads)
<1>1. Decide("verify", outcome, "loaded") /\ UNCHANGED <<reader, held>>
  BY DEF Verify, VerifyVerdict
<1>2. pc = "verify" /\ reader \in 1 .. 3 /\ WellFormed(zip) /\ held.payloads = Contained(zip)
  BY <1>1 DEF Decide, Inv, LoadInv, FileInv, Exists, Stages
<1>3. Kept => held.manifest = written.manifest /\ Legible(request, written, zip)
  BY <1>2 DEF ReadInv
<1>4. ASSUME Kept, Readable, reader \in {0, request.version} PROVE outcome = "ok"
  BY <1>2, <1>3, <1>4, LegibleAccepted
<1> HIDE DEF outcome
<1> QED
  BY <1>1, <1>3, <1>4, DecideReads DEF Stages

LEMMA InitReads == Init => ReadInv
BY DEF Init, ReadInv, Kept, Exists, Stages, Refused

LEMMA NextReads == Inv /\ ReadInv /\ [Next]_vars => ReadInv'
<1> SUFFICES ASSUME Inv, ReadInv, [Next]_vars PROVE ReadInv'
  OBVIOUS
<1>1. CASE Alter
  <2>1. pc' = "request"
    BY <1>1 DEF Alter
  <2> QED
    BY <2>1 DEF ReadInv, Kept, Exists, Stages, Refused
<1>2. CASE Tamper
  <2>1. ~pristine'
    BY <1>2 DEF Tamper
  <2> QED
    BY <2>1 DEF ReadInv, Kept
<1>3. CASE Load
  <2>1. /\ pc = "stored" /\ pc' = "preflight"
        /\ UNCHANGED <<request, zip, held, verdict, stage, written, pristine, changes>>
    BY <1>3 DEF Load
  <2> QED
    BY <2>1 DEF ReadInv, Kept, Exists, Stages, Refused
<1>4. CASE UNCHANGED vars
  BY <1>4 DEF vars, ReadInv, Kept, Refused, Readable
<1> QED
  BY <1>1, <1>2, <1>3, <1>4, WriteReads, PreflightReads, ReadManifestReads, DispatchReads,
     ReadPayloadsReads, VerifyReads DEF Next

\* An archive that its writer published and nobody touched is loaded, by
\* load_archive and by the loader of its version, with what was written - for
\* every request, every number of payloads and every depth of the manifest.
\* The writer's own checks are what the reader asks for: the regions it lays
\* out are disjoint and within every budget of the preflights, the text it
\* writes passes the scan of parse_manifest_json, and the manifest it derives
\* passes the dispatch and the verification.
THEOREM Reading == Spec => []WrittenIsReadable
<1>1. Inv /\ ReadInv => WrittenIsReadable
  <2> SUFFICES ASSUME Inv, ReadInv PROVE WrittenIsReadable
    OBVIOUS
  <2>1. Refused /\ stage # "write" /\ pristine /\ reader \in {0, request.version} => ~Readable
    BY DEF ReadInv
  <2>2. ASSUME Loaded, pristine PROVE held = written
    <3>1. Kept /\ pc = "loaded"
      BY <2>2 DEF Kept, Loaded, Exists
    <3>2. Legible(request, written, zip) /\ held.manifest = written.manifest
      BY <3>1 DEF ReadInv
    <3>3. held.payloads = Contained(zip)
      BY <3>1 DEF Inv, LoadInv
    <3>4. Contained(zip) = written.payloads
      BY <3>2, LegibleContents
    <3>5. held = [manifest |-> held.manifest, payloads |-> held.payloads]
      BY DEF Inv, LoadInv
    <3>6. written = [manifest |-> written.manifest, payloads |-> Members(request.payloads)]
      BY <3>2 DEF Legible
    <3>7. written.payloads = Members(request.payloads)
      BY <3>6
    <3> QED
      BY <3>2, <3>3, <3>4, <3>5, <3>6, <3>7
  <2> QED
    BY <2>1, <2>2 DEF WrittenIsReadable
<1> QED
  BY <1>1, Invariance, InitReads, NextReads, PTL DEF Spec
=============================================================================
