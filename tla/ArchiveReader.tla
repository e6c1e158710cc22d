---------------------------- MODULE ArchiveReader ----------------------------
(***************************************************************************)
(* One command that loads an archive file while the file changes: the      *)
(* loaders of Archive V1 (archive_v1.rs), V2 and V3 (archive_v2.rs,        *)
(* archive_v3.rs), the dispatch between them, and the commands that bind   *)
(* what they do to a SHA-256 given by the caller (archive_command.rs).     *)
(*                                                                         *)
(* A file is a row of regions: the manifest, the members, and the central  *)
(* directory with the CRC32 and the place of every other region.  A        *)
(* SHA-256 is the row of bytes it was computed over.                       *)
(***************************************************************************)
EXTENDS Naturals

CONSTANTS
  N,          \* members of an archive
  Bytes,      \* contents of a region
  Archives,   \* files that pass every check of the reader of their version
  Version,    \* schema_version of a manifest with these bytes
  Inodes,     \* files a path may name in turn
  MaxWrites,  \* bound: regions overwritten in place
  MaxMoves,   \* bound: times the path names another file
  Absent      \* no file, no bytes read, no version or SHA-256 given

Regions == 0 .. N + 1
Manifest == 0
Directory == N + 1
\* The process replay hands out the package as read-member hands out a member.
Expecting == {"read-member", "replay-methods"}
Ops == {"load", "inspect"} \cup Expecting

ASSUME ReaderAssumption ==
  /\ N \in Nat \ {0}
  /\ Archives \subseteq [Regions -> Bytes]
  /\ Version \in [Bytes -> 1 .. 3]
  /\ MaxWrites \in Nat /\ MaxMoves \in Nat
  /\ Absent \notin Bytes /\ Absent \notin Inodes

VARIABLES
  stage,     \* next step of the command
  op,        \* the command; "load" is a caller of one loader
  expected,  \* --expected-archive-sha256, Absent for a command without it
  reader,    \* version of the loader that runs, Absent while load_archive dispatches
  fd,        \* the file it has open
  at,        \* next region of the current pass over the file
  before,    \* V1: SHA-256 computed first
  buffer,    \* regions read for use: directory, manifest, payloads
  sha,       \* SHA-256 computed after the payloads, the archive_sha256 returned
  copy,      \* private snapshot of replay-methods
  archive,   \* bytes of every file
  path,      \* file that the path names, Absent if there is none
  past,      \* history: bytes each region has held
  torn,      \* history: has the open file been overwritten during the load?
  writes, moves

command == <<op, expected>>
passes  == <<before, buffer, sha>>
disk    == <<archive, path, past, writes, moves>>
readerVars == <<stage, op, expected, reader, fd, at, before, buffer, sha, copy, archive, path,
                past, torn, writes, moves>>

Running == stage \notin {"ok", "refused"}
Unread == [r \in Regions |-> Absent]
Loading == {"open", "hash", "directory", "manifest", "members", "check", "rehash"}
Loaded == {"loaded", "copy", "execute", "ok"}

ReaderInit ==
  /\ op \in Ops
  /\ reader \in IF op = "load" THEN {1, 2, 3} ELSE {Absent}
  /\ expected \in IF op \in Expecting THEN Archives ELSE {Absent}
  /\ archive \in [Inodes -> Archives]
  /\ path \in Inodes
  /\ past = [i \in Inodes |-> [r \in Regions |-> {archive[i][r]}]]
  /\ stage = "open" /\ fd = Absent /\ at = 0
  /\ before = Unread /\ buffer = Unread /\ sha = Unread /\ copy = Unread
  /\ torn = FALSE /\ writes = 0 /\ moves = 0

-----------------------------------------------------------------------------
(* The loaders.                                                            *)

\* V1 starts with the SHA-256; V2, V3 and the dispatch with the directory.
OpenArchive ==
  /\ stage = "open"
  /\ path # Absent
  /\ fd' = path
  /\ at' = 0
  /\ before' = Unread /\ buffer' = Unread /\ sha' = Unread
  /\ torn' = FALSE
  /\ stage' = IF reader = 1 THEN "hash" ELSE "directory"
  /\ UNCHANGED <<command, reader, copy, disk>>

\* The first sha256_file of load_archive_v1.
Hash ==
  /\ stage = "hash"
  /\ before' = [before EXCEPT ![at] = archive[fd][at]]
  /\ IF at = Directory THEN stage' = "directory" /\ at' = 0
                       ELSE stage' = stage /\ at' = at + 1
  /\ UNCHANGED <<command, reader, fd, buffer, sha, copy, disk, torn>>

\* Reading a region for use.
Reads(r) ==
  /\ buffer' = [buffer EXCEPT ![r] = archive[fd][r]]
  /\ UNCHANGED <<command, fd, before, sha, copy, disk, torn>>

\* preflight_zip_file: the directory bounds every other region.
ReadDirectory ==
  /\ stage = "directory"
  /\ \E a \in Archives : a[Directory] = archive[fd][Directory]
  /\ Reads(Directory)
  /\ stage' = "manifest"
  /\ UNCHANGED <<reader, at>>

\* read_zip_member: local header and CRC32 agree with the directory.
InDirectory(r) ==
  \E a \in Archives : a[Directory] = buffer[Directory] /\ a[r] = archive[fd][r]

\* dispatch_schema_version: V2 reads the manifest again through the same
\* handle, V1 and V3 are loaded from the path again.
Dispatch ==
  /\ stage = "manifest" /\ reader = Absent
  /\ InDirectory(Manifest)
  /\ reader' = Version[archive[fd][Manifest]]
  /\ stage' = IF reader' = 2 THEN stage ELSE "open"
  /\ UNCHANGED <<command, fd, at, passes, copy, disk, torn>>

\* validate_manifest_for_dispatch, before any payload is opened.
ReadManifest ==
  /\ stage = "manifest" /\ reader # Absent
  /\ InDirectory(Manifest)
  /\ Version[archive[fd][Manifest]] = reader
  /\ Reads(Manifest)
  /\ stage' = "members"
  /\ at' = 1
  /\ UNCHANGED reader

\* read_payload_members; prepare (V2, V3) precedes the SHA-256, in V1
\* validate_manifest_and_payloads follows it.
ReadMember ==
  /\ stage = "members"
  /\ InDirectory(at)
  /\ Reads(at)
  /\ IF at < N THEN stage' = stage /\ at' = at + 1
               ELSE stage' = (IF reader = 1 THEN "rehash" ELSE "check") /\ at' = 0
  /\ UNCHANGED reader

\* Mutant: the file is opened again by its path for the SHA-256.
Rehash_ByPath ==
  /\ stage = "rehash"
  /\ path # Absent
  /\ sha' = [sha EXCEPT ![at] = archive[path][at]]
  /\ IF at = Directory THEN stage' = (IF reader = 1 THEN "check" ELSE "loaded") /\ at' = 0
                       ELSE stage' = stage /\ at' = at + 1
  /\ UNCHANGED <<command, reader, fd, before, buffer, copy, disk, torn>>

\* sha256_file after the payloads.
Rehash ==
  /\ stage = "rehash"
  /\ sha' = [sha EXCEPT ![at] = archive[fd][at]]
  /\ IF at = Directory THEN stage' = (IF reader = 1 THEN "check" ELSE "loaded") /\ at' = 0
                       ELSE stage' = stage /\ at' = at + 1
  /\ UNCHANGED <<command, reader, fd, before, buffer, copy, disk, torn>>

\* Mutant: V1 does not compare the two SHA-256.
Check_Once ==
  /\ stage = "check"
  /\ buffer \in Archives
  /\ stage' = IF reader = 1 THEN "loaded" ELSE "rehash"
  /\ UNCHANGED <<command, reader, fd, at, passes, copy, disk, torn>>

\* The closed inventory with the SHA-256 of every member, and in V1 the two
\* SHA-256 of the file: "archive changed while being read".
Check ==
  /\ stage = "check"
  /\ reader = 1 => sha = before
  /\ buffer \in Archives
  /\ stage' = IF reader = 1 THEN "loaded" ELSE "rehash"
  /\ UNCHANGED <<command, reader, fd, at, passes, copy, disk, torn>>

-----------------------------------------------------------------------------
(* The commands.                                                           *)

\* ensure_archive_identity, then the member or the package that was loaded is
\* handed out; V1 has no native process.
Serve ==
  /\ stage = "loaded" /\ op # "replay-methods"
  /\ op = "read-member" => expected = sha /\ reader # 1
  /\ stage' = "ok"
  /\ UNCHANGED <<command, reader, fd, at, passes, copy, disk, torn>>

\* replay_methods opens the path once more to pin its bytes.
Pin ==
  /\ stage = "loaded" /\ op = "replay-methods"
  /\ expected = sha /\ reader # 1
  /\ path # Absent
  /\ fd' = path
  /\ at' = 0
  /\ stage' = "copy"
  /\ UNCHANGED <<command, reader, passes, copy, disk, torn>>

Copy ==
  /\ stage = "copy"
  /\ copy' = [copy EXCEPT ![at] = archive[fd][at]]
  /\ IF at = Directory THEN stage' = "execute" /\ at' = 0
                       ELSE stage' = stage /\ at' = at + 1
  /\ UNCHANGED <<command, reader, fd, passes, disk, torn>>

\* Mutant: the snapshot is not compared with the archive identity.
Execute_Unpinned ==
  /\ stage = "execute"
  /\ copy \in Archives /\ Version[copy[Manifest]] = reader
  /\ stage' = "ok"
  /\ UNCHANGED <<command, reader, fd, at, passes, copy, disk, torn>>

\* "archive bytes changed before native Methods replay"; the loader of the
\* same version then loads the snapshot, and what it loads is executed.
Execute ==
  /\ stage = "execute"
  /\ copy = sha
  /\ copy \in Archives /\ Version[copy[Manifest]] = reader
  /\ stage' = "ok"
  /\ UNCHANGED <<command, reader, fd, at, passes, copy, disk, torn>>

\* Every step may meet an error of the file system, and each check above
\* refuses what it does not accept; nothing of what was read is left.
Refuse ==
  /\ Running
  /\ stage' = "refused"
  /\ fd' = Absent /\ at' = 0
  /\ before' = Unread /\ buffer' = Unread /\ sha' = Unread /\ copy' = Unread
  /\ UNCHANGED <<command, reader, disk, torn>>

-----------------------------------------------------------------------------
(* The environment, until the command ends.                                *)

\* Another program overwrites a region with bytes that it has not held before.
Overwrite(i, r, b) ==
  /\ Running
  /\ writes < MaxWrites
  /\ b \notin past[i][r]
  /\ archive' = [archive EXCEPT ![i][r] = b]
  /\ past' = [past EXCEPT ![i][r] = @ \cup {b}]
  /\ torn' = (torn \/ (i = fd /\ stage \in Loading))
  /\ writes' = writes + 1
  /\ UNCHANGED <<stage, command, reader, fd, at, passes, copy, path, moves>>

\* A rename or a removal: the path names another file, open handles do not.
Rename(i) ==
  /\ Running
  /\ moves < MaxMoves
  /\ i # path
  /\ path' = i
  /\ moves' = moves + 1
  /\ UNCHANGED <<stage, command, reader, fd, at, passes, copy, archive, past, torn, writes>>

ReaderNext ==
  \/ OpenArchive \/ Hash \/ ReadDirectory \/ Dispatch \/ ReadManifest \/ ReadMember
  \/ Rehash \/ Check \/ Serve \/ Pin \/ Copy \/ Execute \/ Refuse
  \/ \E i \in Inodes, r \in Regions, b \in Bytes : Overwrite(i, r, b)
  \/ \E i \in Inodes \cup {Absent} : Rename(i)

ReaderSpec == ReaderInit /\ [][ReaderNext]_readerVars

-----------------------------------------------------------------------------
(* Properties.                                                             *)

Partial == [Regions -> Bytes \cup {Absent}]

ReaderTypeOK ==
  /\ stage \in Loading \cup Loaded \cup {"refused"}
  /\ op \in Ops
  /\ expected \in Archives \cup {Absent}
  /\ reader \in {1, 2, 3, Absent}
  /\ fd \in Inodes \cup {Absent}
  /\ at \in Regions
  /\ before \in Partial /\ buffer \in Partial /\ sha \in Partial /\ copy \in Partial
  /\ archive \in [Inodes -> [Regions -> Bytes]]
  /\ path \in Inodes \cup {Absent}
  /\ past \in [Inodes -> [Regions -> SUBSET Bytes]]
  /\ torn \in BOOLEAN
  /\ writes \in 0 .. MaxWrites /\ moves \in 0 .. MaxMoves

\* The two SHA-256 of load_archive_v1 make its reading a snapshot: whatever is
\* overwritten meanwhile, what it returns are the bytes of the archive_sha256
\* it returns with them.
V1Coherent == stage \in Loaded /\ reader = 1 => buffer = sha

\* A load that no writer tears returns the bytes of one file under their own
\* SHA-256, whatever the path named meanwhile; what read-member and the process
\* replay hand out are then the bytes the caller expects.
Anchored ==
  stage \in Loaded /\ ~ torn =>
    /\ buffer = sha
    /\ stage = "ok" /\ op = "read-member" => buffer = expected

\* Native Methods replay executes the archive the caller expects, also when a
\* writer tears the load or the path is renamed between load and snapshot.
MethodsAnchored ==
  stage = "ok" /\ op = "replay-methods" => copy = expected
=============================================================================
