------------------------- MODULE DirectoryPublication -------------------------
(***************************************************************************)
(* Publication of a directory under a name that must be free.  Three kinds *)
(* of caller share it: publish_directory_noreplace as such (publication.rs,*)
(* called by publish-directory and by Python), save_experiment_results     *)
(* around it (results.rs), and the export of Node, which has an            *)
(* implementation of its own (tuning.js).  The last two have something to  *)
(* do after the publication, and an error of it looks like any other.      *)
(*                                                                         *)
(* All reserve the name by create_dir.  On POSIX the stage then replaces   *)
(* the empty reservation by one rename; on Windows its members move one by *)
(* one; Node links them one by one.  A file whose digests bind the others, *)
(* the index, comes last, so a reader that finds it finds them.  Several   *)
(* callers and rivals want one path, any step may fail, processes die.     *)
(***************************************************************************)
EXTENDS Naturals, Sequences, FiniteSets

CONSTANTS
  Runs,           \* processes, each publishing one directory
  Platforms,      \* subset of {"posix", "windows"}
  Members,        \* names of a stage in the order of publication, per caller
  Names,          \* names that may stand in the directory
  Faults,         \* steps that may fail with an I/O error
  RivalInWindow,  \* may a rival remove a reservation that a call relies on?
  MaxRivalActs,   \* bound: acts of rivals
  MaxCrashes,     \* bound: processes killed
  Rival, NoFile

Callers == {"publish", "save", "export"}
FaultTypes == {"stage", "reserve", "identify", "rename", "move", "link", "undo",
               "reopen", "discard"}

ASSUME ConstantsAssumption ==
  /\ Platforms \subseteq {"posix", "windows"}
  /\ Members \in [Callers -> Seq(Names)]
  /\ \A c \in Callers :
       /\ Members[c] # << >>
       /\ \A i, j \in DOMAIN Members[c] : Members[c][i] = Members[c][j] => i = j
  /\ Faults \subseteq FaultTypes
  /\ RivalInWindow \in BOOLEAN
  /\ MaxRivalActs \in Nat /\ MaxCrashes \in Nat
  /\ Rival \notin Runs /\ NoFile \notin Runs /\ NoFile # Rival

\* A directory is named by its creator and its part in the publication, a file
\* in it by its creator: both stand for device and inode.
RivalDir == <<Rival, "reserved">>
Dirs == (Runs \cup {Rival}) \X {"reserved", "stage"}
NoDir == <<NoFile, "reserved">>

VARIABLES
  platform,    \* what the crate was built for
  caller,      \* who publishes
  pc,          \* next step of each run
  at,          \* position in Members of the next member to publish
  back,        \* position of the next link to take back (Node)
  reservation, \* identity of the directory that Node saw after its mkdir
  staged,      \* members in the stage of a run
  target,      \* directory at the path
  entries,     \* who made what stands in it under each name
  touched,     \* history: a rival has put something into it
  published,   \* history: runs whose index has stood at the path
  outcome,     \* what each call has returned
  acts, crashes

tree == <<target, entries, touched>>
frame == <<platform, caller, acts, crashes>>
vars == <<frame, pc, at, back, reservation, staged, tree, published, outcome>>

Order(r) == Members[caller[r]]
Own(r) == {Order(r)[i] : i \in DOMAIN Order(r)}
Index(r) == Order(r)[Len(Order(r))]
Whole(r) == \A n \in Own(r) : entries[n] = r
Reserved(r) == <<r, "reserved">>
Staged(r) == <<r, "stage">>
Present == target # NoDir
Nothing == [n \in Names |-> NoFile]
Empty == entries = Nothing
ByRename(r) == caller[r] # "export" /\ platform = "posix"
ByMoves(r) == caller[r] # "export" /\ platform = "windows"

Init ==
  /\ platform \in Platforms
  /\ caller \in [Runs -> Callers]
  /\ pc = [r \in Runs |-> "stage"]
  /\ at = [r \in Runs |-> 1]
  /\ back = [r \in Runs |-> 1]
  /\ reservation = [r \in Runs |-> NoDir]
  /\ staged = [r \in Runs |-> {}]
  /\ target = NoDir
  /\ entries = Nothing
  /\ touched = FALSE
  /\ published = {}
  /\ outcome = [r \in Runs |-> "pending"]
  /\ acts = 0
  /\ crashes = 0

-----------------------------------------------------------------------------
(* Control flow.                                                           *)

Goto(r, l) == pc' = [pc EXCEPT ![r] = l]

Return(r, o) ==
  /\ Goto(r, "done")
  /\ outcome' = [outcome EXCEPT ![r] = o]

May(fault) == fault \in Faults

\* The caller gets an error; save and export remove their temporary stages, and
\* an error of that changes nothing for the caller.
Fail(r) ==
  /\ Return(r, "failed")
  /\ \/ caller[r] # "publish" /\ staged' = [staged EXCEPT ![r] = {}]
     \/ (caller[r] = "publish" \/ May("discard")) /\ UNCHANGED staged

\* The last member stands at the path.
Complete(r) ==
  /\ published' = published \cup {r}
  /\ Goto(r, "finish")

-----------------------------------------------------------------------------
(* Staging and reservation.                                                *)

Stages(r) ==
  \/ /\ staged' = [staged EXCEPT ![r] = Own(r)]
     /\ Goto(r, "reserve")
     /\ UNCHANGED outcome
  \/ May("stage") /\ Fail(r)

\* The stage of the caller must be a directory.
StagePublish(r) ==
  /\ pc[r] = "stage" /\ caller[r] = "publish"
  /\ Stages(r)
  /\ UNCHANGED <<frame, at, back, reservation, tree, published>>

\* save_experiment_results probes its destination, then copies and validates.
StageSave(r) ==
  /\ pc[r] = "stage" /\ caller[r] = "save"
  /\ \/ Present /\ Fail(r)
     \/ ~Present /\ Stages(r)
  /\ UNCHANGED <<frame, at, back, reservation, tree, published>>

\* The export of Node copies the archive and writes tuning.json.
StageExport(r) ==
  /\ pc[r] = "stage" /\ caller[r] = "export"
  /\ Stages(r)
  /\ UNCHANGED <<frame, at, back, reservation, tree, published>>

\* Mutant: a refused create_dir is cleaned up like a failed publication.
Reserve_AlwaysUndo(r) ==
  /\ pc[r] = "reserve"
  /\ \/ /\ ~Present
        /\ target' = Reserved(r)
        /\ touched' = FALSE
        /\ Goto(r, CASE ByRename(r) -> "rename" [] ByMoves(r) -> "move" [] OTHER -> "identify")
     \/ /\ Present
        /\ Goto(r, "remove")
        /\ UNCHANGED <<target, touched>>
  /\ UNCHANGED <<frame, at, back, reservation, staged, entries, published, outcome>>
\* create_dir, mkdir: exclusive; a refusal ends the call.
Reserve(r) ==
  /\ pc[r] = "reserve"
  /\ \/ /\ ~Present
        /\ target' = Reserved(r)
        /\ touched' = FALSE
        /\ Goto(r, CASE ByRename(r) -> "rename" [] ByMoves(r) -> "move" [] OTHER -> "identify")
        /\ UNCHANGED <<staged, outcome>>
     \/ /\ Present \/ May("reserve")
        /\ Fail(r)
        /\ UNCHANGED <<target, touched>>
  /\ UNCHANGED <<frame, at, back, reservation, entries, published>>

-----------------------------------------------------------------------------
(* publish_directory_noreplace.                                            *)

\* POSIX: rename replaces an empty directory, whoever made it, and refuses
\* one with entries.
Rename(r) ==
  /\ pc[r] = "rename"
  /\ \/ /\ Empty
        /\ target' = Staged(r)
        /\ entries' = [n \in Names |-> IF n \in Own(r) THEN r ELSE NoFile]
        /\ touched' = FALSE
        /\ staged' = [staged EXCEPT ![r] = {}]
        /\ Complete(r)
     \/ /\ ~Empty \/ May("rename")
        /\ Goto(r, "remove")
        /\ UNCHANGED <<tree, staged, published>>
  /\ UNCHANGED <<frame, at, back, reservation, outcome>>

\* Mutant: the members move in the reverse order, the index first.
MoveMember_IndexFirst(r) ==
  LET n == Order(r)[Len(Order(r)) + 1 - at[r]] IN
  /\ pc[r] = "move"
  /\ \/ /\ Present
        /\ entries' = [entries EXCEPT ![n] = r]
        /\ staged' = [staged EXCEPT ![r] = @ \ {n}]
        /\ at' = [at EXCEPT ![r] = @ + 1]
        /\ IF at[r] = Len(Order(r))
             THEN Complete(r)
             ELSE UNCHANGED <<pc, published>>
     \/ /\ ~Present \/ May("move")
        /\ Goto(r, "back")
        /\ UNCHANGED <<entries, staged, at, published>>
  /\ UNCHANGED <<frame, back, reservation, target, touched, outcome>>
\* Windows: one member moves, over what stands under its name.  The removal of
\* the emptied stage after the last one cannot fail the call.
MoveMember(r) ==
  LET n == Order(r)[at[r]] IN
  /\ pc[r] = "move"
  /\ \/ /\ Present
        /\ entries' = [entries EXCEPT ![n] = r]
        /\ staged' = [staged EXCEPT ![r] = @ \ {n}]
        /\ at' = [at EXCEPT ![r] = @ + 1]
        /\ IF at[r] = Len(Order(r))
             THEN Complete(r)
             ELSE UNCHANGED <<pc, published>>
     \/ /\ ~Present \/ May("move")
        /\ Goto(r, "back")
        /\ UNCHANGED <<entries, staged, at, published>>
  /\ UNCHANGED <<frame, back, reservation, target, touched, outcome>>

\* Mutant: the first member is not moved back.
MoveBack_Partial(r) ==
  /\ pc[r] = "back"
  /\ IF at[r] <= 2
       THEN Goto(r, "remove") /\ UNCHANGED <<entries, staged, at>>
       ELSE LET n == Order(r)[at[r] - 1] IN
            /\ at' = [at EXCEPT ![r] = @ - 1]
            /\ entries' = [entries EXCEPT ![n] = NoFile]
            /\ staged' = [staged EXCEPT ![r] = @ \cup {n}]
            /\ UNCHANGED pc
  /\ UNCHANGED <<frame, back, reservation, target, touched, published, outcome>>
\* A move failed: the members moved so far go back, the last one first; what
\* stands under a name goes, whoever made it, and an error is ignored.
MoveBack(r) ==
  /\ pc[r] = "back"
  /\ IF at[r] = 1
       THEN Goto(r, "remove") /\ UNCHANGED <<entries, staged, at>>
       ELSE LET n == Order(r)[at[r] - 1] IN
            /\ at' = [at EXCEPT ![r] = @ - 1]
            /\ \/ /\ entries[n] # NoFile
                  /\ entries' = [entries EXCEPT ![n] = NoFile]
                  /\ staged' = [staged EXCEPT ![r] = @ \cup {n}]
               \/ /\ entries[n] = NoFile \/ May("undo")
                  /\ UNCHANGED <<entries, staged>>
            /\ UNCHANGED pc
  /\ UNCHANGED <<frame, back, reservation, target, touched, published, outcome>>

\* remove_dir and rmdir remove an empty directory only, and their errors are
\* ignored; the error of the publication is returned.
RemoveReservation(r) ==
  /\ pc[r] = "remove"
  /\ \/ Empty /\ target' = NoDir /\ touched' = FALSE
     \/ (~Empty \/ ~Present \/ May("undo")) /\ UNCHANGED <<target, touched>>
  /\ Fail(r)
  /\ UNCHANGED <<frame, at, back, reservation, entries, published>>

-----------------------------------------------------------------------------
(* NativeTuningResult.export in Node.                                      *)

\* The identity of the reservation is read after the mkdir; when that fails
\* nothing is taken back.
Identify(r) ==
  /\ pc[r] = "identify"
  /\ \/ /\ Present
        /\ reservation' = [reservation EXCEPT ![r] = target]
        /\ Goto(r, "link")
        /\ UNCHANGED <<staged, outcome>>
     \/ /\ ~Present \/ May("identify")
        /\ Fail(r)
        /\ UNCHANGED reservation
  /\ UNCHANGED <<frame, at, back, tree, published>>

\* link refuses a name that is taken.
LinkMember(r) ==
  LET n == Order(r)[at[r]] IN
  /\ pc[r] = "link"
  /\ \/ /\ Present /\ entries[n] = NoFile
        /\ entries' = [entries EXCEPT ![n] = r]
        /\ at' = [at EXCEPT ![r] = @ + 1]
        /\ IF at[r] = Len(Order(r))
             THEN Complete(r)
             ELSE UNCHANGED <<pc, published>>
     \/ /\ ~Present \/ entries[n] # NoFile \/ May("link")
        /\ Goto(r, "check")
        /\ UNCHANGED <<entries, at, published>>
  /\ UNCHANGED <<frame, back, reservation, staged, target, touched, outcome>>

\* The rollback begins only in the directory that the call has reserved.
CheckReservation(r) ==
  /\ pc[r] = "check"
  /\ \/ /\ target = reservation[r]
        /\ Goto(r, "entry")
        /\ UNCHANGED <<staged, outcome>>
     \/ /\ target # reservation[r] \/ May("undo")
        /\ Fail(r)
  /\ UNCHANGED <<frame, at, back, reservation, tree, published>>

\* Each link is compared with the staged file, in the order of publication.
CheckEntry(r) ==
  /\ pc[r] = "entry"
  /\ IF back[r] = at[r]
       THEN Goto(r, "remove") /\ UNCHANGED back
       ELSE \/ entries[Order(r)[back[r]]] = r /\ Goto(r, "unlink") /\ UNCHANGED back
            \/ /\ entries[Order(r)[back[r]]] # r \/ May("undo")
               /\ back' = [back EXCEPT ![r] = @ + 1]
               /\ UNCHANGED pc
  /\ UNCHANGED <<frame, at, reservation, staged, tree, published, outcome>>

\* It is removed by its path: what stands there now goes.
UnlinkEntry(r) ==
  LET n == Order(r)[back[r]] IN
  /\ pc[r] = "unlink"
  /\ \/ entries' = [entries EXCEPT ![n] = NoFile]
     \/ May("undo") /\ UNCHANGED entries
  /\ back' = [back EXCEPT ![r] = @ + 1]
  /\ Goto(r, "entry")
  /\ UNCHANGED <<frame, at, reservation, staged, target, touched, published, outcome>>

-----------------------------------------------------------------------------
(* What a call does after its publication.                                 *)

Finish(r) ==
  /\ pc[r] = "finish" /\ caller[r] = "publish"
  /\ Return(r, "ok")
  /\ UNCHANGED <<frame, at, back, reservation, staged, tree, published>>

\* save_experiment_results opens what it has published: the caller of a
\* publication that cannot be read, or is gone already, gets an error like any
\* other.
Reopen(r) ==
  /\ pc[r] = "finish" /\ caller[r] = "save"
  /\ \/ Whole(r) /\ Return(r, "ok")
     \/ (~Whole(r) \/ May("reopen")) /\ Return(r, "failed")
  /\ UNCHANGED <<frame, at, back, reservation, staged, tree, published>>

\* "finally" removes the stage: its error replaces the result, and the promise
\* is rejected as for a failed publication.
Discard(r) ==
  /\ pc[r] = "finish" /\ caller[r] = "export"
  /\ \/ Return(r, "ok") /\ staged' = [staged EXCEPT ![r] = {}]
     \/ May("discard") /\ Return(r, "failed") /\ UNCHANGED staged
  /\ UNCHANGED <<frame, at, back, reservation, tree, published>>

Step(r) ==
  \/ StagePublish(r) \/ StageSave(r) \/ StageExport(r) \/ Reserve(r)
  \/ Rename(r) \/ MoveMember(r) \/ MoveBack(r) \/ RemoveReservation(r)
  \/ Identify(r) \/ LinkMember(r)
  \/ CheckReservation(r) \/ CheckEntry(r) \/ UnlinkEntry(r)
  \/ Finish(r) \/ Reopen(r) \/ Discard(r)

-----------------------------------------------------------------------------
(* The environment.                                                        *)

\* Steps that rely on the reservation without looking at it again.
Window == {"rename", "move", "back", "remove", "identify", "link", "entry", "unlink"}
InUse == \E r \in Runs : pc[r] \in Window

Act ==
  /\ acts < MaxRivalActs
  /\ acts' = acts + 1
  /\ UNCHANGED <<platform, caller, crashes, pc, at, back, reservation, staged,
                 published, outcome>>

\* A rival makes a directory of its own at the path.
RivalCreate ==
  /\ ~Present
  /\ target' = RivalDir
  /\ touched' = TRUE
  /\ UNCHANGED entries
  /\ Act

\* A rival puts a file into the directory that stands there, under a free name.
RivalInsert(n) ==
  /\ Present /\ entries[n] = NoFile
  /\ entries' = [entries EXCEPT ![n] = Rival]
  /\ touched' = TRUE
  /\ UNCHANGED target
  /\ Act

\* A rival takes its own file away again.
RivalTakeBack(n) ==
  /\ entries[n] = Rival
  /\ entries' = [entries EXCEPT ![n] = NoFile]
  /\ UNCHANGED <<target, touched>>
  /\ Act

\* The owner of the parent directory removes what stands at the path, with its
\* contents; a reservation that a call relies on only if RivalInWindow.
Withdraw ==
  /\ Present
  /\ ~InUse \/ RivalInWindow
  /\ target' = NoDir
  /\ entries' = Nothing
  /\ touched' = FALSE
  /\ Act

Kill(r) ==
  /\ crashes < MaxCrashes
  /\ pc[r] \notin {"done", "dead"}
  /\ crashes' = crashes + 1
  /\ Goto(r, "dead")
  /\ UNCHANGED <<platform, caller, acts, at, back, reservation, staged, tree,
                 published, outcome>>

Next ==
  \/ \E r \in Runs : Step(r) \/ Kill(r)
  \/ RivalCreate
  \/ \E n \in Names : RivalInsert(n) \/ RivalTakeBack(n)
  \/ Withdraw

Spec == Init /\ [][Next]_vars

-----------------------------------------------------------------------------
(* Properties.                                                             *)

Labels == Window \cup {"stage", "reserve", "check", "finish", "done", "dead"}

TypeOK ==
  /\ platform \in Platforms
  /\ caller \in [Runs -> Callers]
  /\ pc \in [Runs -> Labels]
  /\ at \in [Runs -> Nat \ {0}]
  /\ \A r \in Runs : at[r] <= Len(Order(r)) + 1
  /\ back \in [Runs -> Nat \ {0}]
  /\ \A r \in Runs : back[r] <= at[r]
  /\ reservation \in [Runs -> Dirs \cup {NoDir}]
  /\ staged \in [Runs -> SUBSET Names]
  /\ target \in Dirs \cup {NoDir}
  /\ entries \in [Names -> Runs \cup {Rival, NoFile}]
  /\ touched \in BOOLEAN
  /\ published \in SUBSET Runs
  /\ outcome \in [Runs -> {"pending", "ok", "failed"}]
  /\ acts \in 0 .. MaxRivalActs
  /\ crashes \in 0 .. MaxCrashes

\* What a reader finds who begins with the index: one publication with all its
\* members, nothing, or (Torn) an index whose members are not there.
Torn == <<NoFile, 0>>
Shown ==
  LET indexed == {r \in Runs : entries[Index(r)] = r} IN
  IF indexed = {} THEN NoFile
  ELSE IF \E r \in Runs : indexed = {r} /\ Whole(r)
       THEN CHOOSE r \in Runs : indexed = {r}
       ELSE Torn

\* What the result of a call tells.  The errors of publish_directory_noreplace
\* are those of a publication that failed; an error of save or export may also
\* come from what they do after it, and looks the same.
Told == [r \in Runs |-> IF outcome[r] = "failed" /\ caller[r] # "publish" THEN "error"
                        ELSE outcome[r]]

\* Publication member by member keeps the promise of PublishOnce that one
\* rename keeps: a directory is there for readers at once, whole, at most once
\* and only where none was ("a reader cannot open an incomplete experiment as a
\* valid one", publication.rs:9-10); only the owner of the path withdraws it, no
\* call does, whatever it returns; success tells that it was published, and an
\* error of publish_directory_noreplace that it was not and never will be.  An
\* error of save and export tells neither.  No power failure here.
Promise == INSTANCE PublishOnce WITH Calls <- Runs, visible <- Shown, outcome <- Told,
                                     Vague <- {"error"}
PromiseStep ==
  \/ \E r \in Runs : \/ Promise!Publish(r)
                     \/ \E o \in {"ok", "failed", "error"} : Promise!Return(r, o)
  \/ Withdraw /\ Promise!Remove
PromiseKept == Promise!Init /\ [][PromiseStep]_<<Shown, published, Told>>

\* An error leaves all or nothing.  When the publication did not happen, no
\* member of the call is left, its reservation only where a rival has put a file
\* into it, and its stage is complete, for the next attempt, or gone.
\* When it did happen, and a later step of save or export failed, it stands with
\* all its members until it is withdrawn.
FailureLeavesNothing ==
  \A r \in Runs : outcome[r] = "failed" =>
    IF r \in published
      THEN Whole(r) \/ \A n \in Names : entries[n] # r
      ELSE /\ \A n \in Names : entries[n] # r
           /\ target = Reserved(r) => touched
           /\ staged[r] \in {{}, Own(r)}

\* No call takes away a directory that it did not reserve, nor an entry that it
\* did not make: rollbacks and refusals leave the others alone.  The exception
\* is the move of Windows, which replaces an entry of the same name in the
\* reservation of the call.
OwnersOnly ==
  [][\A r \in Runs : Step(r) =>
       /\ Present /\ target' # target => target = Reserved(r)
       /\ \A n \in Names :
            entries[n] \notin {r, NoFile} /\ entries'[n] # entries[n] =>
              /\ pc[r] = "move" /\ n = Order(r)[at[r]]
              /\ target = Reserved(r)]_vars
=============================================================================
