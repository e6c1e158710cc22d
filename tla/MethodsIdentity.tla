--------------------------- MODULE MethodsIdentity ---------------------------
(***************************************************************************)
(* The libn4m identity of one process (native_methods_replay.rs).  Threads *)
(* make calls that read the library file at a path, fix it under a lock as *)
(* the identity of the process, load a private snapshot of its bytes, and  *)
(* check the ABI an archive needs; the file is replaced while they do.     *)
(* Two instances of the n4m crate are linked: the one of DAG-ML, which     *)
(* executes models, and the one of the core itself, which answers ABI      *)
(* queries and which the host may also select by its own means.            *)
(* A library is named by its bytes, which stand for its SHA-256 too.       *)
(***************************************************************************)
EXTENDS Naturals, FiniteSets

CONSTANTS
  Threads,
  Sources,     \* paths of library files
  Libs,        \* contents of library files
  Requests,    \* calls a thread may make: see RequestType
  Executable,  \* libraries DAG-ML can open: its ABI preflight succeeds
  WithRoles,   \* libraries the core's n4m instance can load
  AbiMinor,    \* ABI minor version of each library
  HostLibs,    \* libraries the host may select in the core's n4m instance
  MaxCalls,    \* bound: calls per thread
  MaxChanges,  \* bound: changes of files
  Snapshot,    \* path of the private snapshot
  None

RequestType ==
  [op : {"preflight", "train", "replay", "refit", "predict", "present"},
   path : Sources, pin : Libs \cup {None}, need : Nat]
Pinned == {"preflight", "predict"}

ASSUME ConstantsAssumption ==
  /\ Requests \subseteq RequestType
  /\ \A q \in Requests : q.pin # None <=> q.op \in Pinned
  /\ Executable \subseteq Libs /\ WithRoles \subseteq Libs /\ HostLibs \subseteq Libs
  /\ AbiMinor \in [Libs -> Nat]
  /\ MaxCalls \in Nat /\ MaxChanges \in Nat
  /\ None \notin Libs /\ None \notin Requests /\ None \notin Threads
  /\ None \notin [path : Sources, lib : Libs, abiError : BOOLEAN]
  /\ Snapshot \notin Sources

VARIABLES
  pc,          \* next step of each thread
  request,     \* the call it makes or made last
  round,       \* 1, or 2 when the call resolves the library again
  attested,    \* AttestedMethodsLibrary: the bytes it read
  abiError,    \* its abi_error while it configures the runtime
  calls,       \* calls made by each thread
  file,        \* library at each source path, None if there is none
  snapshot,    \* bytes of the private snapshot, None if there is none
  configured,  \* CONFIGURED_METHODS_LIBRARY
  lock,        \* the thread that holds its mutex
  dagml,       \* library of DAG-ML's n4m instance
  core,        \* library of the core's n4m instance
  changes,     \* changes of files so far
  loaded,      \* history: libraries handed to DAG-ML's instance
  seen         \* history: libraries at the requested path during the call

locals  == <<request, round, attested, abiError, calls>>
process == <<snapshot, configured, lock, dagml, core>>
history == <<loaded, seen>>
vars == <<pc, request, round, attested, abiError, calls, file, snapshot, configured,
          lock, dagml, core, changes, loaded, seen>>

Idle == {"idle", "ok", "failed"}
Op(t) == request[t].op

\* predict replaces the path of its request by the snapshot it was given.
Path(t) == IF Op(t) = "predict" /\ round[t] = 2 THEN Snapshot ELSE request[t].path
Content(x) == IF x = Snapshot THEN snapshot ELSE file[x]

Init ==
  /\ pc = [t \in Threads |-> "idle"]
  /\ request = [t \in Threads |-> None]
  /\ round = [t \in Threads |-> 1]
  /\ attested = [t \in Threads |-> None]
  /\ abiError = [t \in Threads |-> FALSE]
  /\ calls = [t \in Threads |-> 0]
  /\ file \in [Sources -> Libs]
  /\ snapshot = None
  /\ configured = None
  /\ lock = None
  /\ dagml = None
  /\ core = None
  /\ changes = 0
  /\ loaded = {}
  /\ seen = [t \in Threads |-> {}]

-----------------------------------------------------------------------------
(* The order of the steps of each call.                                    *)

Goto(t, l) == pc' = [pc EXCEPT ![t] = l]

Fails(t) == Goto(t, "failed")

\* preflight_methods_archive_v2_library ends with the identity; the matrix
\* prediction checks the ABI before it opens the runtime, the others after.
AfterIdentity(t) ==
  IF Op(t) = "preflight" THEN "ok"
  ELSE IF Op(t) = "predict" /\ round[t] = 1 THEN "abi" ELSE "open"

\* Training needs no archive; the replay behind a scalar conformal
\* presentation ("present") opens the runtime and executes.
AfterOpen(t) ==
  IF Op(t) \in {"replay", "refit"} /\ round[t] = 1 THEN "abi" ELSE "ok"

Begin(t) ==
  /\ pc[t] \in Idle
  /\ calls[t] < MaxCalls
  /\ calls' = [calls EXCEPT ![t] = @ + 1]
  /\ \E q \in Requests :
       /\ request' = [request EXCEPT ![t] = q]
       /\ seen' = [seen EXCEPT ![t] = {file[q.path]} \ {None}]
  /\ round' = [round EXCEPT ![t] = 1]
  /\ Goto(t, "attest")
  /\ UNCHANGED <<attested, abiError, file, process, changes, loaded>>

\* read_methods_library_identity, and attest_methods_library when the caller
\* pins a digest: it holds for the first reading only.
Attest(t) ==
  /\ pc[t] = "attest"
  /\ \/ /\ Content(Path(t)) # None
        /\ round[t] = 1 /\ Op(t) \in Pinned => Content(Path(t)) = request[t].pin
        /\ attested' = [attested EXCEPT ![t] = Content(Path(t))]
        /\ Goto(t, "identify")
     \/ Fails(t) /\ UNCHANGED attested
  /\ UNCHANGED <<request, round, abiError, calls, file, process, changes, loaded, seen>>

-----------------------------------------------------------------------------
(* configure_methods_library_identity, under the lock until it returns.    *)

\* Mutant: the digest is not compared again.
SameIdentity_PathOnly(t) ==
  /\ configured.path = Path(t) \/ Path(t) = Snapshot
  /\ ~ configured.abiError

\* ensure_same_configured_methods_library; the snapshot must still exist.
SameIdentity(t) ==
  /\ configured.path = Path(t) \/ Path(t) = Snapshot
  /\ configured.lib = attested[t]
  /\ ~ configured.abiError

\* Mutant: the identity is looked up without the lock.
Identify_Unlocked(t) ==
  /\ pc[t] = "identify"
  /\ \/ /\ configured = None
        /\ lock' = t
        /\ Goto(t, "snapshot")
     \/ /\ configured # None /\ snapshot # None
        /\ SameIdentity(t)
        /\ Goto(t, AfterIdentity(t))
        /\ UNCHANGED lock
     \/ /\ configured # None
        /\ snapshot = None \/ ~ SameIdentity(t)
        /\ Fails(t)
        /\ UNCHANGED lock
  /\ UNCHANGED <<locals, file, snapshot, configured, dagml, core, changes, loaded, seen>>

\* Mutant: a call that finds the identity fixed keeps the guard.
Identify_KeepsGuard(t) ==
  /\ pc[t] = "identify"
  /\ lock = None
  /\ lock' = t
  /\ Goto(t, IF configured = None THEN "snapshot"
             ELSE IF snapshot # None /\ SameIdentity(t) THEN AfterIdentity(t)
             ELSE "failed")
  /\ UNCHANGED <<locals, file, snapshot, configured, dagml, core, changes, loaded, seen>>

Identify(t) ==
  /\ pc[t] = "identify"
  /\ lock = None
  /\ \/ /\ configured = None
        /\ lock' = t
        /\ Goto(t, "snapshot")
     \/ /\ configured # None /\ snapshot # None
        /\ SameIdentity(t)
        /\ Goto(t, AfterIdentity(t))
        /\ UNCHANGED lock
     \/ /\ configured # None
        /\ snapshot = None \/ ~ SameIdentity(t)
        /\ Fails(t)
        /\ UNCHANGED lock
  /\ UNCHANGED <<locals, file, snapshot, configured, dagml, core, changes, loaded, seen>>

\* write_attested_methods_snapshot: an error leaves the identity open.
WriteSnapshot(t) ==
  /\ pc[t] = "snapshot"
  /\ \/ /\ snapshot' = attested[t]
        /\ Goto(t, "configure")
        /\ UNCHANGED lock
     \/ /\ Fails(t)
        /\ lock' = None
        /\ UNCHANGED snapshot
  /\ UNCHANGED <<locals, file, configured, dagml, core, changes, loaded, seen>>

\* MethodsRuntime::configure(&snapshot_path) is the ABI preflight.
Configure(t) ==
  /\ pc[t] = "configure"
  /\ loaded' = (loaded \cup {snapshot}) \ {None}
  /\ LET works == snapshot \in Executable
     IN /\ abiError' = [abiError EXCEPT ![t] = ~ works]
        /\ dagml' = IF works THEN snapshot ELSE dagml
  /\ Goto(t, "select")
  /\ UNCHANGED <<request, round, attested, calls, file, snapshot, configured, lock,
                 core, changes, seen>>

\* "let _ = n4m::configure_library": refused if a library is selected already
\* or if this one is too old, and nobody is told.
Select(t) ==
  /\ pc[t] = "select"
  /\ core' = IF ~ abiError[t] /\ core = None /\ snapshot \in WithRoles
               THEN snapshot ELSE core
  /\ Goto(t, "store")
  /\ UNCHANGED <<locals, file, snapshot, configured, lock, dagml, changes, loaded, seen>>

\* The identity is fixed, also after an ABI error.
Store(t) ==
  /\ pc[t] = "store"
  /\ configured' = [path |-> Path(t), lib |-> attested[t], abiError |-> abiError[t]]
  /\ lock' = None
  /\ IF abiError[t] THEN Fails(t) ELSE Goto(t, AfterIdentity(t))
  /\ UNCHANGED <<locals, file, snapshot, dagml, core, changes, loaded, seen>>

-----------------------------------------------------------------------------
(* Outside the lock.                                                       *)

\* configure_methods_runtime_for_source opens the snapshot a second time.
Open(t) ==
  /\ pc[t] = "open"
  /\ \/ snapshot # None /\ dagml # None /\ Goto(t, AfterOpen(t))
     \/ Fails(t)
  /\ UNCHANGED <<locals, file, process, changes, loaded, seen>>

\* Mutant: the requirement of the archive is compared before the library is
\* selected, hence not at all.
CheckAbi_None(t) ==
  /\ pc[t] = "abi"
  /\ IF Op(t) = "refit"
       THEN Goto(t, "ok") /\ UNCHANGED round
       ELSE Goto(t, "attest") /\ round' = [round EXCEPT ![t] = 2]
  /\ UNCHANGED <<request, attested, abiError, calls, file, process, changes, loaded, seen>>

Sufficient(t) == core # None /\ AbiMinor[core] >= request[t].need

\* require_configured_archive_methods_abi asks the core's own n4m instance,
\* which fails when it has no library; replay and predict then resolve the
\* library once more.
CheckAbi(t) ==
  /\ pc[t] = "abi"
  /\ \/ /\ Sufficient(t)
        /\ IF Op(t) = "refit"
             THEN Goto(t, "ok") /\ UNCHANGED round
             ELSE Goto(t, "attest") /\ round' = [round EXCEPT ![t] = 2]
     \/ /\ ~ Sufficient(t)
        /\ Fails(t)
        /\ UNCHANGED round
  /\ UNCHANGED <<request, attested, abiError, calls, file, process, changes, loaded, seen>>

Step(t) ==
  \/ Attest(t) \/ Identify(t) \/ WriteSnapshot(t) \/ Configure(t) \/ Select(t)
  \/ Store(t) \/ Open(t) \/ CheckAbi(t)

-----------------------------------------------------------------------------
(* The environment.                                                        *)

Changes ==
  /\ changes < MaxChanges
  /\ changes' = changes + 1
  /\ UNCHANGED <<pc, locals, configured, lock, dagml, loaded>>

\* An update, a rollback or an uninstallation of the library file.
Replace(x, lib) ==
  /\ Changes
  /\ file[x] # lib
  /\ file' = [file EXCEPT ![x] = lib]
  /\ seen' = [t \in Threads |->
                IF pc[t] \notin Idle /\ request[t].path = x
                  THEN (seen[t] \cup {lib}) \ {None} ELSE seen[t]]
  /\ UNCHANGED <<snapshot, core>>

\* A cleaner of temporary files takes the snapshot away.
LoseSnapshot ==
  /\ Changes
  /\ snapshot # None
  /\ snapshot' = None
  /\ UNCHANGED <<file, seen, core>>

\* The host selects a library for role recipes: n4m::configure_library or
\* N4M_LIBRARY_PATH; an n4m instance keeps its first library.
HostSelects(lib) ==
  /\ Changes
  /\ core = None
  /\ core' = lib
  /\ UNCHANGED <<file, seen, snapshot>>

Next ==
  \/ \E t \in Threads : Begin(t) \/ Step(t)
  \/ \E x \in Sources, lib \in Libs \cup {None} : Replace(x, lib)
  \/ LoseSnapshot
  \/ \E lib \in HostLibs : HostSelects(lib)

Spec == Init /\ [][Next]_vars
FairSpec == Spec /\ \A t \in Threads : WF_vars(Step(t))

-----------------------------------------------------------------------------
(* Properties.                                                             *)

TypeOK ==
  /\ pc \in [Threads -> Idle \cup {"attest", "identify", "snapshot", "configure",
                                   "select", "store", "open", "abi"}]
  /\ request \in [Threads -> Requests \cup {None}]
  /\ round \in [Threads -> {1, 2}]
  /\ attested \in [Threads -> Libs \cup {None}]
  /\ abiError \in [Threads -> BOOLEAN]
  /\ calls \in [Threads -> 0 .. MaxCalls]
  /\ file \in [Sources -> Libs \cup {None}]
  /\ snapshot \in Libs \cup {None}
  /\ configured \in {None} \cup [path : Sources, lib : Libs, abiError : BOOLEAN]
  /\ lock \in Threads \cup {None}
  /\ dagml \in Libs \cup {None}
  /\ core \in Libs \cup {None}
  /\ changes \in 0 .. MaxChanges
  /\ loaded \subseteq Libs
  /\ seen \in [Threads -> SUBSET Libs]

\* No replacement of the file ever reaches the native runtime: one library at
\* most is handed to DAG-ML, and it is the identity of the process.
SingleLibrary ==
  /\ \A l, m \in loaded : l = m
  /\ configured # None => loaded \subseteq {configured.lib}
  /\ configured # None /\ ~ configured.abiError => dagml = configured.lib

\* A call that succeeds was served by the library it pinned and by bytes that
\* stood at the path it named at some time during the call.
ServedFromPath ==
  \A t \in Threads : pc[t] = "ok" =>
    /\ dagml \in seen[t]
    /\ request[t].pin \in {None, dagml}

\* A replay, a refit or a matrix prediction never executes an archive by a
\* library whose ABI is older than its manifest demands: the library asked for
\* its ABI is the one that executes.
AbiHonoured ==
  \A t \in Threads : pc[t] = "ok" /\ Op(t) \in {"replay", "refit", "predict"} =>
    AbiMinor[dagml] >= request[t].need

\* Every call returns, however long others keep the lock: no call waits for
\* the lock while it holds it.
Returns == \A t \in Threads : pc[t] \notin Idle ~> pc[t] \in Idle
=============================================================================
