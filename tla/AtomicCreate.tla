----------------------------- MODULE AtomicCreate ----------------------------
(***************************************************************************)
(* Publication of one file by temporary name, fsync and hard link: the     *)
(* three atomic_create functions of the Rust core, selected by Store.      *)
(*   "V1"       archive_v1.rs: temporary name with the process id          *)
(*   "V2"       archive_v2.rs, also used by V3: name without a process id  *)
(*   "Session"  portable_session.rs: process id, no directory flush        *)
(* Writers are threads of processes that share one sequence counter each   *)
(* and race for one target path, while the owner of the directory may      *)
(* delete the target, processes die and the machine loses power.           *)
(***************************************************************************)
EXTENDS Integers, FiniteSets

CONSTANTS
  Store,       \* which of the three functions
  Procs,       \* processes (a restarted process may reuse its id)
  Writers,     \* threads
  ProcOf,      \* process of each thread
  MaxCalls,    \* bound: calls per thread
  MaxTries,    \* temporary names tried per call (64 in the code)
  MaxSeq,      \* bound: values of TEMP_SEQUENCE (a u64 in the code)
  MaxCrashes,  \* bound: process kills and power failures
  AnyProc,     \* stands for the absent process id in V2 names
  NoFile

ASSUME ConstantsAssumption ==
  /\ Store \in {"V1", "V2", "Session"}
  /\ ProcOf \in [Writers -> Procs]
  /\ MaxCalls \in Nat /\ MaxTries \in Nat \ {0}
  /\ MaxSeq \in Nat /\ MaxCrashes \in Nat
  /\ AnyProc \notin Procs

Inodes == Writers \X (1 .. MaxCalls)
TempNames == (Procs \cup {AnyProc}) \X (0 .. MaxSeq)

ASSUME NoFileAssumption == NoFile \notin Inodes

VARIABLES
  pc,          \* the next operation of each thread inside atomic_create
  tries,       \* its locals: names tried so far,
  temp,        \*   the temporary name it holds,
  verdict,     \*   what it returns after its cleanup
  calls,       \* calls made by each thread; the current one names its inode
  seq,         \* TEMP_SEQUENCE of each process
  temps,       \* temporary directory entries, as readers see them
  target,      \* directory entry at the target path, as readers see it
  diskTemps,   \* the entries that would survive a power failure
  diskTarget,
  data,        \* content of each inode
  synced,      \* inodes whose content sync_all has flushed
  crashes,
  outcome,     \* what each call returned
  published    \* history: inodes that ever stood at the target

thread   == <<pc, tries, temp, verdict>>
volatile == <<temps, target>>
onDisk   == <<diskTemps, diskTarget>>
content  == <<data, synced>>
vars == <<pc, tries, temp, verdict, calls, seq, temps, target, diskTemps,
          diskTarget, data, synced, crashes, outcome, published>>

Inode(w) == <<w, calls[w]>>
\* Mutant: archive names without the process id.
TempName_NoProc(p, n) == <<AnyProc, n>>
TempName(p, n) == <<IF Store = "V2" THEN AnyProc ELSE p, n>>
FlushesDirectory == Store # "Session"

Init ==
  /\ pc = [w \in Writers |-> "idle"]
  /\ tries = [w \in Writers |-> 0]
  /\ temp = [w \in Writers |-> NoFile]
  /\ verdict = [w \in Writers |-> "failed"]
  /\ calls = [w \in Writers |-> 0]
  /\ seq = [p \in Procs |-> 0]
  /\ temps = [n \in TempNames |-> NoFile]
  /\ target = NoFile
  /\ diskTemps = [n \in TempNames |-> NoFile]
  /\ diskTarget = NoFile
  /\ data = [i \in Inodes |-> "absent"]
  /\ synced = {}
  /\ crashes = 0
  /\ outcome = [i \in Inodes |-> "pending"]
  /\ published = {}

-----------------------------------------------------------------------------
(* The steps of one call.                                                  *)

Goto(w, l) ==
  /\ pc' = [pc EXCEPT ![w] = l]
  /\ UNCHANGED <<tries, temp, verdict>>

\* Leave the write closure with a result; the temporary name is removed next.
Leave(w, r) ==
  /\ pc' = [pc EXCEPT ![w] = "cleanup"]
  /\ verdict' = [verdict EXCEPT ![w] = r]
  /\ UNCHANGED <<tries, temp>>

\* These threads return or die, and their locals with them.
Forget(ws) ==
  /\ pc' = [w \in Writers |-> IF w \in ws THEN "idle" ELSE pc[w]]
  /\ tries' = [w \in Writers |-> IF w \in ws THEN 0 ELSE tries[w]]
  /\ temp' = [w \in Writers |-> IF w \in ws THEN NoFile ELSE temp[w]]
  /\ verdict' = [w \in Writers |-> IF w \in ws THEN "failed" ELSE verdict[w]]

Return(w, r) ==
  /\ Forget({w})
  /\ outcome' = [outcome EXCEPT ![Inode(w)] = r]

Begin(w) ==
  /\ pc[w] = "idle"
  /\ calls[w] < MaxCalls
  /\ calls' = [calls EXCEPT ![w] = @ + 1]
  /\ Goto(w, "reserve")
  /\ UNCHANGED <<seq, volatile, onDisk, content, crashes, outcome, published>>

\* create_dir_all fails, or every attempt has met an existing name, or the open
\* of the temporary file fails for good after it took a number.
ReserveFails(w) ==
  LET p == ProcOf[w]
  IN /\ pc[w] = "reserve"
     /\ Return(w, "failed")
     /\ \/ UNCHANGED seq
        \/ /\ tries[w] < MaxTries
           /\ seq[p] < MaxSeq
           /\ seq' = [seq EXCEPT ![p] = @ + 1]
     /\ UNCHANGED <<calls, volatile, onDisk, content, crashes, published>>

\* One iteration: take the next number, create_new the name or try again.
Reserve(w) ==
  LET p == ProcOf[w]
      name == TempName(p, seq[p])
  IN /\ pc[w] = "reserve"
     /\ tries[w] < MaxTries
     /\ seq[p] < MaxSeq
     /\ seq' = [seq EXCEPT ![p] = @ + 1]
     /\ \/ /\ temps[name] = NoFile
           /\ temps' = [temps EXCEPT ![name] = Inode(w)]
           /\ data' = [data EXCEPT ![Inode(w)] = "partial"]
           /\ pc' = [pc EXCEPT ![w] = "write"]
           /\ temp' = [temp EXCEPT ![w] = name]
           /\ UNCHANGED <<tries, verdict>>
        \/ /\ temps[name] # NoFile
           /\ tries' = [tries EXCEPT ![w] = @ + 1]
           /\ UNCHANGED <<pc, temp, verdict, temps, data>>
     /\ UNCHANGED <<calls, target, onDisk, synced, crashes, outcome, published>>

\* Mutant: no sync_all before the link.
Write_Unsynced(w) ==
  /\ pc[w] = "write"
  /\ data' = [data EXCEPT ![Inode(w)] = "complete"]
  /\ Goto(w, "link")
  /\ UNCHANGED <<calls, seq, volatile, onDisk, synced, crashes, outcome, published>>

\* write_all goes through the open file, whatever the name stands for now.
Write(w) ==
  /\ pc[w] = "write"
  /\ \/ /\ data' = [data EXCEPT ![Inode(w)] = "complete"]
        /\ Goto(w, "sync")
     \/ /\ Leave(w, "failed")
        /\ UNCHANGED data
  /\ UNCHANGED <<calls, seq, volatile, onDisk, synced, crashes, outcome, published>>

Sync(w) ==
  /\ pc[w] = "sync"
  /\ \/ /\ synced' = synced \cup {Inode(w)}
        /\ Goto(w, "link")
     \/ /\ Leave(w, "failed")
        /\ UNCHANGED synced
  /\ UNCHANGED <<calls, seq, volatile, onDisk, data, crashes, outcome, published>>

\* Mutant: a rename, which replaces what stands at the target.
Link_Rename(w) ==
  LET source == temps[temp[w]]
  IN /\ pc[w] = "link"
     /\ source # NoFile
     /\ target' = source
     /\ published' = published \cup {source}
     /\ Goto(w, "unlink")
     /\ UNCHANGED <<calls, seq, temps, onDisk, content, crashes, outcome>>

\* hard_link(temp, path) resolves both names at the time of the call.
Link(w) ==
  LET source == temps[temp[w]]
  IN /\ pc[w] = "link"
     /\ \/ /\ source # NoFile
           /\ target = NoFile
           /\ target' = source
           /\ published' = published \cup {source}
           /\ Goto(w, "unlink")
        \/ /\ source # NoFile
           /\ target # NoFile
           /\ Leave(w, "exists")
           /\ UNCHANGED <<target, published>>
        \/ /\ Leave(w, "failed")
           /\ UNCHANGED <<target, published>>
     /\ UNCHANGED <<calls, seq, temps, onDisk, content, crashes, outcome>>

\* Mutant: the archive store returns without flushing the directory.
Unlink_Unflushed(w) ==
  /\ pc[w] = "unlink"
  /\ temps[temp[w]] # NoFile
  /\ temps' = [temps EXCEPT ![temp[w]] = NoFile]
  /\ Return(w, "ok")
  /\ UNCHANGED <<calls, seq, target, onDisk, content, crashes, published>>

\* The removal inside the closure; its failure is PublishedWithCleanupError.
Unlink(w) ==
  LET name == temp[w]
  IN /\ pc[w] = "unlink"
     /\ \/ /\ temps[name] # NoFile
           /\ temps' = [temps EXCEPT ![name] = NoFile]
           /\ IF FlushesDirectory
                THEN Goto(w, "syncdir") /\ UNCHANGED outcome
                ELSE Return(w, "ok")
        \/ /\ Return(w, "dirty")
           /\ UNCHANGED temps
     /\ UNCHANGED <<calls, seq, target, onDisk, content, crashes, published>>

SyncDirectory(w) ==
  /\ pc[w] = "syncdir"
  /\ \/ /\ diskTemps' = temps
        /\ diskTarget' = target
        /\ Leave(w, "ok")
        /\ UNCHANGED outcome
     \/ /\ Return(w, "dirty")
        /\ UNCHANGED onDisk
  /\ UNCHANGED <<calls, seq, volatile, content, crashes, published>>

\* "let _ = fs::remove_file(&temp)": after an error, and in the archive
\* stores after a success too; by name, its own failure ignored.
Cleanup(w) ==
  /\ pc[w] = "cleanup"
  /\ \/ temps' = [temps EXCEPT ![temp[w]] = NoFile]
     \/ UNCHANGED temps
  /\ Return(w, verdict[w])
  /\ UNCHANGED <<calls, seq, target, onDisk, content, crashes, published>>

Step(w) ==
  \/ ReserveFails(w) \/ Reserve(w) \/ Write(w) \/ Sync(w) \/ Link(w)
  \/ Unlink(w) \/ SyncDirectory(w) \/ Cleanup(w)

-----------------------------------------------------------------------------
(* The environment.                                                        *)

\* The owner of the directory deletes the archive.
RemoveTarget ==
  /\ target # NoFile
  /\ target' = NoFile
  /\ UNCHANGED <<thread, calls, seq, temps, onDisk, content, crashes, outcome,
                 published>>

\* The kernel writes directory entries back when it likes.
WriteBack ==
  /\ diskTarget' = target
  /\ diskTemps' \in {diskTemps, temps}
  /\ UNCHANGED <<thread, calls, seq, volatile, content, crashes, outcome, published>>

\* A process dies with all its threads; its successor counts from zero.
Kill(p) ==
  /\ crashes < MaxCrashes
  /\ crashes' = crashes + 1
  /\ Forget({w \in Writers : ProcOf[w] = p})
  /\ seq' = [seq EXCEPT ![p] = 0]
  /\ UNCHANGED <<calls, volatile, onDisk, content, outcome, published>>

\* The directory falls back to its durable entries, and any content that was
\* not flushed may be torn.
PowerLoss ==
  /\ crashes < MaxCrashes
  /\ crashes' = crashes + 1
  /\ Forget(Writers)
  /\ seq' = [p \in Procs |-> 0]
  /\ temps' = diskTemps
  /\ target' = diskTarget
  /\ \E torn \in SUBSET {i \in Inodes \ synced : data[i] = "complete"} :
       data' = [i \in Inodes |-> IF i \in torn THEN "partial" ELSE data[i]]
  /\ UNCHANGED <<calls, onDisk, synced, outcome, published>>

Next ==
  \/ \E w \in Writers : Begin(w) \/ Step(w)
  \/ RemoveTarget
  \/ WriteBack
  \/ \E p \in Procs : Kill(p)
  \/ PowerLoss

Spec == Init /\ [][Next]_vars

-----------------------------------------------------------------------------
(* Properties.                                                             *)

TypeOK ==
  /\ pc \in [Writers -> {"idle", "reserve", "write", "sync", "link", "unlink",
                         "syncdir", "cleanup"}]
  /\ tries \in [Writers -> 0 .. MaxTries]
  /\ temp \in [Writers -> TempNames \cup {NoFile}]
  /\ verdict \in [Writers -> {"ok", "exists", "failed"}]
  /\ calls \in [Writers -> 0 .. MaxCalls]
  /\ seq \in [Procs -> 0 .. MaxSeq]
  /\ temps \in [TempNames -> Inodes \cup {NoFile}]
  /\ target \in Inodes \cup {NoFile}
  /\ diskTemps \in [TempNames -> Inodes \cup {NoFile}]
  /\ diskTarget \in Inodes \cup {NoFile}
  /\ data \in [Inodes -> {"absent", "partial", "complete"}]
  /\ synced \in SUBSET Inodes
  /\ crashes \in 0 .. MaxCrashes
  /\ outcome \in [Inodes -> {"pending", "ok", "dirty", "exists", "failed"}]
  /\ published \in SUBSET Inodes

\* Whatever stands at the target path, now or after a power failure, is one
\* call's whole archive with its content flushed: sync_all precedes hard_link.
TargetComplete ==
  \A i \in {target, diskTarget} \ {NoFile} : data[i] = "complete" /\ i \in synced

\* Once an archive store returned Ok, a power failure can neither take the
\* archive away nor bring its temporary name back: sync_directory came last.
OkIsDurable ==
  \A i \in Inodes :
    outcome[i] = "ok" /\ FlushesDirectory =>
      /\ target = i => diskTarget = i
      /\ \A n \in TempNames : temps[n] # i /\ diskTemps[n] # i

\* A temporary entry is removed only by the call that created it: no cleanup
\* by name ever hits the file another call is still writing.
TempsRemovedByOwner ==
  [][\A n \in TempNames :
       temps[n] # NoFile /\ temps'[n] # temps[n] =>
         LET i == temps[n]
         IN \/ crashes' # crashes
            \/ calls[i[1]] = i[2] /\ pc'[i[1]] # pc[i[1]]]_vars

\* atomic_create implements the promise of PublishOnce: bytes that are not a
\* whole archive count as Torn, a value the abstract target never takes.
Torn == <<NoFile, 0>>
Visible ==
  IF target # NoFile /\ data[target] # "complete" THEN Torn ELSE target
Promise == INSTANCE PublishOnce WITH Calls <- Inodes, visible <- Visible, Vague <- {}
PromiseKept == Promise!Spec
=============================================================================
