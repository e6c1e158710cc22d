------------------------- MODULE TrainingPublication -------------------------
(***************************************************************************)
(* Publication of the outputs of one native command: workflow-run,         *)
(* tuning-run and conformal-calibrate publish an archive, optionally a     *)
(* results directory, and then a response file, and roll back what they    *)
(* published when a later step fails (archive_command.rs).  The command    *)
(* publish-directory answers first and publishes one directory afterwards. *)
(* Directories are published by the POSIX branch of publication.rs.        *)
(* Several commands share the file system with rivals that create, insert, *)
(* delete and replace entries as they like, and processes die.             *)
(***************************************************************************)
EXTENDS Naturals, FiniteSets

CONSTANTS
  Runs,           \* processes, each executing one command
  Paths,          \* destinations
  Requests,       \* what a process may be asked: see RequestType
  HasIdentity,    \* cfg(unix): device and inode identify a published entry
  Faults,         \* steps that may fail with an I/O error
  RivalInWindow,  \* may a rival act between a check and the act relying on it?
  MaxRivalActs,   \* bound: acts of rivals
  MaxCrashes,     \* bound: processes killed
  Rival, NoPath, NoFile

RequestType ==
  [command : {"train"}, archive : Paths, results : Paths \cup {NoPath},
   output : Paths \cup {NoPath}]
  \cup [command : {"export"}, archive : {NoPath}, results : Paths,
        output : Paths \cup {NoPath}]

FaultTypes == {"train", "link", "reserve", "rename", "emit", "write", "remove"}

\* A file or directory is named by its creator and its kind; the directory a
\* rival makes at a path is named by the path.
OwnKinds == {"archive", "reservation", "root", "member", "output"}
RivalFile == <<Rival, "file">>
RivalDir(x) == <<x, "dir">>
Entries == (Runs \X OwnKinds) \cup {RivalFile} \cup {RivalDir(x) : x \in Paths}
Dirs == (Runs \X {"reservation", "root"}) \cup {RivalDir(x) : x \in Paths}

ASSUME ConstantsAssumption ==
  /\ Requests \subseteq RequestType
  /\ HasIdentity \in BOOLEAN /\ RivalInWindow \in BOOLEAN
  /\ Faults \subseteq FaultTypes
  /\ MaxRivalActs \in Nat /\ MaxCrashes \in Nat
  /\ NoPath \notin Paths /\ NoFile \notin Entries
  /\ Rival \notin Runs /\ Paths \cap Runs = {}

VARIABLES
  pc,        \* next step of each run
  request,   \* its arguments
  owned,     \* PublishedTrainingOutputs.owned, by kind
  response,  \* bytes of the response: none, partial or complete
  at,        \* directory entry at each destination
  member,    \* entry of a directory under the name of the published member
  extra,     \* directories that hold a rival's file under another name
  withdrawn, \* history: what each run itself has removed again
  rivalActs, \* acts of rivals so far
  crashes

tree == <<at, member, extra>>
vars == <<pc, request, owned, response, at, member, extra, withdrawn, rivalActs,
          crashes>>

Archive(r) == request[r].archive
Results(r) == request[r].results
Output(r)  == request[r].output
Trains(r)  == request[r].command = "train"

Empty(d) == d \in Dirs /\ member[d] = NoFile /\ d \notin extra

\* Where a kind of entry is published; a member is found through the path of
\* its directory, whatever directory stands there now.
Place(r, k) == IF k = "archive" THEN Archive(r) ELSE Results(r)
Found(r, k) ==
  IF k # "member" THEN at[Place(r, k)]
  ELSE IF at[Results(r)] \in Dirs THEN member[at[Results(r)]] ELSE NoFile

Init ==
  /\ pc = [r \in Runs |-> "idle"]
  /\ request \in [Runs -> Requests]
  /\ owned = [r \in Runs |-> {}]
  /\ response = [r \in Runs |-> "none"]
  /\ at = [x \in Paths |-> NoFile]
  /\ member = [d \in Dirs |-> IF d[2] = "root" THEN <<d[1], "member">> ELSE NoFile]
  /\ extra = {}
  /\ withdrawn = [r \in Runs |-> {}]
  /\ rivalActs = 0
  /\ crashes = 0

-----------------------------------------------------------------------------
(* Control flow.                                                           *)

Goto(r, l) == pc' = [pc EXCEPT ![r] = l]

\* Mutant: the archive is visited first and the rest forgotten.
Unwind_ArchiveOnly(r, kinds) ==
  Goto(r, IF "archive" \in kinds THEN "check_archive" ELSE "failed")

\* An error drops PublishedTrainingOutputs, which visits owned in reverse.
Unwind(r, kinds) ==
  Goto(r, IF "member" \in kinds THEN "check_member"
          ELSE IF "archive" \in kinds THEN "check_archive" ELSE "failed")

AfterRemoval == [member |-> "check_root", root |-> "check_archive", archive |-> "failed"]

\* Mutant: publish-directory publishes before it answers.
Begin_PublishFirst(r) ==
  /\ pc[r] = "idle"
  /\ Goto(r, IF Trains(r) THEN "probe_archive" ELSE "reserve")
  /\ UNCHANGED <<request, owned, response, tree, withdrawn, rivalActs, crashes>>

Begin(r) ==
  /\ pc[r] = "idle"
  /\ Goto(r, IF Trains(r) THEN "probe_archive" ELSE "emit")
  /\ UNCHANGED <<request, owned, response, tree, withdrawn, rivalActs, crashes>>

\* new_destination: each destination in turn must be absent.
Probe(r, l, x, next) ==
  /\ pc[r] = l
  /\ IF x # NoPath /\ at[x] # NoFile THEN Goto(r, "failed") ELSE Goto(r, next)
  /\ UNCHANGED <<request, owned, response, tree, withdrawn, rivalActs, crashes>>

ProbeAll(r) ==
  \/ Probe(r, "probe_archive", Archive(r), "probe_results")
  \/ Probe(r, "probe_results", Results(r), "probe_output")
  \/ Probe(r, "probe_output", Output(r), "overlap")

\* Mutant: a training answers before it publishes.
Train_EmitsFirst(r) ==
  /\ pc[r] = "overlap"
  /\ Goto(r, "emit")
  /\ UNCHANGED <<request, owned, response, tree, withdrawn, rivalActs, crashes>>

\* The destinations must differ; then the native run stages its outputs in
\* private directories and records their identities.
Train(r) ==
  /\ pc[r] = "overlap"
  /\ \/ /\ Archive(r) \notin {Results(r), Output(r)}
        /\ Results(r) = NoPath \/ Results(r) # Output(r)
        /\ Goto(r, "link")
     \/ /\ \/ Archive(r) \in {Results(r), Output(r)}
           \/ Results(r) # NoPath /\ Results(r) = Output(r)
           \/ "train" \in Faults
        /\ Goto(r, "failed")
  /\ UNCHANGED <<request, owned, response, tree, withdrawn, rivalActs, crashes>>

-----------------------------------------------------------------------------
(* PublishedTrainingOutputs::publish and publish_directory_noreplace.      *)

LinkArchive(r) ==
  /\ pc[r] = "link"
  /\ \/ /\ at[Archive(r)] = NoFile
        /\ at' = [at EXCEPT ![Archive(r)] = <<r, "archive">>]
        /\ owned' = [owned EXCEPT ![r] = @ \cup {"archive"}]
        /\ Goto(r, IF Results(r) = NoPath THEN "emit" ELSE "reserve")
     \/ /\ at[Archive(r)] # NoFile \/ "link" \in Faults
        /\ Goto(r, "failed")
        /\ UNCHANGED <<at, owned>>
  /\ UNCHANGED <<request, response, member, extra, withdrawn, rivalActs, crashes>>

\* Mutant: a taken results path returns the error without a rollback.
Reserve_NoRollback(r) ==
  /\ pc[r] = "reserve"
  /\ \/ /\ at[Results(r)] = NoFile
        /\ at' = [at EXCEPT ![Results(r)] = <<r, "reservation">>]
        /\ Goto(r, "rename")
     \/ /\ at[Results(r)] # NoFile
        /\ Goto(r, "failed")
        /\ UNCHANGED at
  /\ UNCHANGED <<request, owned, response, member, extra, withdrawn, rivalActs, crashes>>

\* create_dir(target)
Reserve(r) ==
  /\ pc[r] = "reserve"
  /\ \/ /\ at[Results(r)] = NoFile
        /\ at' = [at EXCEPT ![Results(r)] = <<r, "reservation">>]
        /\ Goto(r, "rename")
     \/ /\ at[Results(r)] # NoFile \/ "reserve" \in Faults
        /\ Unwind(r, owned[r])
        /\ UNCHANGED at
  /\ UNCHANGED <<request, owned, response, member, extra, withdrawn, rivalActs, crashes>>

\* rename(stage, target) replaces an empty directory or takes a free name.
Rename(r) ==
  LET d == at[Results(r)]
  IN /\ pc[r] = "rename"
     /\ \/ /\ d = NoFile \/ Empty(d)
           /\ at' = [at EXCEPT ![Results(r)] = <<r, "root">>]
           /\ IF Trains(r)
                THEN /\ owned' = [owned EXCEPT ![r] = @ \cup {"root", "member"}]
                     /\ Goto(r, "emit")
                ELSE Goto(r, "ok") /\ UNCHANGED owned
        \/ /\ ~ (d = NoFile \/ Empty(d)) \/ "rename" \in Faults
           /\ Goto(r, "unreserve")
           /\ UNCHANGED <<at, owned>>
     /\ UNCHANGED <<request, response, member, extra, withdrawn, rivalActs, crashes>>

\* remove_dir(target) removes whatever empty directory stands there.
Unreserve(r) ==
  /\ pc[r] = "unreserve"
  /\ \/ /\ Empty(at[Results(r)])
        /\ at' = [at EXCEPT ![Results(r)] = NoFile]
     \/ /\ ~ Empty(at[Results(r)]) \/ "remove" \in Faults
        /\ UNCHANGED at
  /\ Unwind(r, owned[r])
  /\ UNCHANGED <<request, owned, response, member, extra, withdrawn, rivalActs, crashes>>

-----------------------------------------------------------------------------
(* emit_json and write_new.                                                *)

AfterResponse(r) == Goto(r, IF Trains(r) THEN "ok" ELSE "reserve")

\* Without --output the response goes to the standard output in one write.
Emit(r) ==
  /\ pc[r] = "emit"
  /\ \/ /\ Output(r) = NoPath
        /\ response' = [response EXCEPT ![r] = "complete"]
        /\ AfterResponse(r)
        /\ UNCHANGED at
     \/ /\ Output(r) # NoPath
        /\ at[Output(r)] = NoFile
        /\ at' = [at EXCEPT ![Output(r)] = <<r, "output">>]
        /\ response' = [response EXCEPT ![r] = "partial"]
        /\ Goto(r, "write")
     \/ /\ (Output(r) # NoPath /\ at[Output(r)] # NoFile) \/ "emit" \in Faults
        /\ Unwind(r, owned[r])
        /\ UNCHANGED <<at, response>>
  /\ UNCHANGED <<request, owned, member, extra, withdrawn, rivalActs, crashes>>

\* A write goes through the open file; the success commits the publication.
Write(r) ==
  /\ pc[r] = "write"
  /\ \/ /\ response' = [response EXCEPT ![r] = "complete"]
        /\ AfterResponse(r)
     \/ /\ "write" \in Faults
        /\ Goto(r, "unwrite")
        /\ UNCHANGED response
  /\ UNCHANGED <<request, owned, tree, withdrawn, rivalActs, crashes>>

\* remove_file(output), by path: it cannot remove a directory.
Unwrite(r) ==
  /\ pc[r] = "unwrite"
  /\ \/ /\ at[Output(r)] \notin Dirs
        /\ at' = [at EXCEPT ![Output(r)] = NoFile]
     \/ /\ at[Output(r)] \in Dirs \/ "remove" \in Faults
        /\ UNCHANGED at
  /\ Unwind(r, owned[r])
  /\ UNCHANGED <<request, owned, response, member, extra, withdrawn, rivalActs, crashes>>

-----------------------------------------------------------------------------
(* PublishedTrainingOutputs::drop.                                         *)

\* The entry, and the directory it is in, are still those this run published.
Unchanged(r, k) ==
  /\ HasIdentity
  /\ Found(r, k) = <<r, k>>
  /\ k = "member" => at[Results(r)] = <<r, "root">>

\* Mutant: only the kind of the entry is compared.
CheckOwned_KindOnly(r, k, check, remove) ==
  /\ pc[r] = check
  /\ IF HasIdentity /\ Found(r, k) # NoFile
       THEN Goto(r, remove)
       ELSE Goto(r, AfterRemoval[k])
  /\ UNCHANGED <<request, owned, response, tree, withdrawn, rivalActs, crashes>>

CheckOwned(r, k, check, remove) ==
  /\ pc[r] = check
  /\ Goto(r, IF Unchanged(r, k) THEN remove ELSE AfterRemoval[k])
  /\ UNCHANGED <<request, owned, response, tree, withdrawn, rivalActs, crashes>>

\* remove_dir for the directory and remove_file for the others, by path.
Removable(r, k) ==
  IF k = "root" THEN Empty(Found(r, k))
  ELSE Found(r, k) # NoFile /\ Found(r, k) \notin Dirs

RemoveOwned(r, k, remove) ==
  /\ pc[r] = remove
  /\ \/ /\ Removable(r, k)
        /\ IF k = "member"
             THEN /\ member' = [member EXCEPT ![at[Results(r)]] = NoFile]
                  /\ UNCHANGED at
             ELSE /\ at' = [at EXCEPT ![Place(r, k)] = NoFile]
                  /\ UNCHANGED member
        /\ withdrawn' = [withdrawn EXCEPT ![r] = @ \cup {k}]
     \/ /\ ~ Removable(r, k) \/ "remove" \in Faults
        /\ UNCHANGED <<at, member, withdrawn>>
  /\ Goto(r, AfterRemoval[k])
  /\ UNCHANGED <<request, owned, response, extra, rivalActs, crashes>>

Rollback(r) ==
  \/ CheckOwned(r, "member", "check_member", "remove_member")
  \/ RemoveOwned(r, "member", "remove_member")
  \/ CheckOwned(r, "root", "check_root", "remove_root")
  \/ RemoveOwned(r, "root", "remove_root")
  \/ CheckOwned(r, "archive", "check_archive", "remove_archive")
  \/ RemoveOwned(r, "archive", "remove_archive")

Step(r) ==
  \/ ProbeAll(r) \/ Train(r) \/ LinkArchive(r) \/ Reserve(r) \/ Rename(r)
  \/ Unreserve(r) \/ Emit(r) \/ Write(r) \/ Unwrite(r) \/ Rollback(r)

-----------------------------------------------------------------------------
(* The environment.                                                        *)

\* A run is about to act by path on what it saw, or made, at x earlier.
Window(x) ==
  \E r \in Runs :
    \/ pc[r] \in {"rename", "unreserve", "remove_member", "remove_root"} /\ x = Results(r)
    \/ pc[r] = "remove_archive" /\ x = Archive(r)
    \/ pc[r] \in {"write", "unwrite"} /\ x = Output(r)

MayDisturb(x) == RivalInWindow \/ ~ Window(x)

RivalActs ==
  /\ rivalActs < MaxRivalActs
  /\ rivalActs' = rivalActs + 1
  /\ UNCHANGED <<pc, request, owned, response, withdrawn, crashes>>

\* A rival takes a free name, or unlinks what stands there first.
RivalPuts(x) ==
  /\ RivalActs
  /\ at[x] = NoFile \/ MayDisturb(x)
  /\ \/ /\ at' = [at EXCEPT ![x] = RivalFile]
        /\ UNCHANGED <<member, extra>>
     \/ /\ at' = [at EXCEPT ![x] = RivalDir(x)]
        /\ member' = [member EXCEPT ![RivalDir(x)] = NoFile]
        /\ extra' = extra \ {RivalDir(x)}

RivalRemoves(x) ==
  /\ RivalActs
  /\ at[x] # NoFile
  /\ MayDisturb(x)
  /\ at' = [at EXCEPT ![x] = NoFile]
  /\ UNCHANGED <<member, extra>>

\* A rival adds a file of its own to a directory.
RivalInserts(x) ==
  /\ RivalActs
  /\ at[x] \in Dirs
  /\ \/ /\ extra' = extra \cup {at[x]}
        /\ UNCHANGED member
     \/ /\ member[at[x]] = NoFile \/ MayDisturb(x)
        /\ member' = [member EXCEPT ![at[x]] = RivalFile]
        /\ UNCHANGED extra
  /\ UNCHANGED at

Crash(r) ==
  /\ crashes < MaxCrashes
  /\ pc[r] \notin {"idle", "ok", "failed", "dead"}
  /\ crashes' = crashes + 1
  /\ Goto(r, "dead")
  /\ UNCHANGED <<request, owned, response, tree, withdrawn, rivalActs>>

Next ==
  \/ \E r \in Runs : Begin(r) \/ Step(r) \/ Crash(r)
  \/ \E x \in Paths : RivalPuts(x) \/ RivalRemoves(x) \/ RivalInserts(x)

Spec == Init /\ [][Next]_vars

-----------------------------------------------------------------------------
(* Properties.                                                             *)

TypeOK ==
  /\ pc \in [Runs -> {"idle", "probe_archive", "probe_results", "probe_output",
                      "overlap", "link", "reserve", "rename", "unreserve", "emit",
                      "write", "unwrite", "check_member", "remove_member",
                      "check_root", "remove_root", "check_archive",
                      "remove_archive", "ok", "failed", "dead"}]
  /\ request \in [Runs -> Requests]
  /\ owned \in [Runs -> SUBSET {"archive", "root", "member"}]
  /\ response \in [Runs -> {"none", "partial", "complete"}]
  /\ at \in [Paths -> Entries \cup {NoFile}]
  /\ member \in [Dirs -> Entries \cup {NoFile}]
  /\ extra \subseteq Dirs
  /\ withdrawn \in [Runs -> SUBSET {"archive", "root", "member"}]
  /\ rivalActs \in 0 .. MaxRivalActs
  /\ crashes \in 0 .. MaxCrashes

\* No step of a command replaces or removes anything another command or a rival
\* put there, be it a destination, a member or the content of a directory.
StepOwns(e) == \E r \in Runs : pc'[r] # pc[r] /\ e[1] = r
OwnersOnly ==
  [][rivalActs' = rivalActs =>
       /\ \A x \in Paths : at[x] # NoFile /\ at'[x] # at[x] =>
            StepOwns(at[x]) /\ (at[x] \in Dirs => Empty(at[x]))
       /\ \A d \in Dirs : member[d] # NoFile /\ member'[d] # member[d] =>
            StepOwns(member[d])]_vars

\* A complete response of a training command names outputs that are published
\* and that the command will not take back.
ResponseTruthful ==
  \A r \in Runs : response[r] = "complete" /\ Trains(r) =>
    /\ {"archive"} \subseteq owned[r]
    /\ Results(r) # NoPath => {"root", "member"} \subseteq owned[r]
    /\ withdrawn[r] = {}
    /\ pc[r] \in {"ok", "dead"}

\* publish-directory makes the export visible only after its whole response.
ExportAnnounced ==
  \A r \in Runs : Results(r) # NoPath /\ ~ Trains(r) /\ at[Results(r)] = <<r, "root">> =>
    response[r] = "complete"

\* Whenever the results of a training can be read, through a crash or a
\* rollback too, their model archive has been published and not taken back.
ResultsNeedArchive ==
  \A r \in Runs, x \in Paths :
    Trains(r) /\ at[x] = <<r, "root">> /\ member[<<r, "root">>] = <<r, "member">> =>
      pc[r] \notin {"link", "reserve"} /\ "archive" \in owned[r] \ withdrawn[r]

\* A command that failed leaves nothing of its own at its destinations, except
\* a directory that a rival's files keep alive; only publish-directory leaves
\* the response it gave before it tried.
FailureLeavesNothing ==
  HasIdentity =>
    \A r \in Runs, x \in Paths :
      pc[r] = "failed" /\ at[x] # NoFile /\ at[x][1] = r =>
        \/ ~ Trains(r) /\ at[x][2] = "output"
        \/ /\ at[x] \in Dirs
           /\ at[x] \in extra \/ member[at[x]] = RivalFile
           /\ member[at[x]] # <<r, "member">>
=============================================================================
