------------------------- MODULE NativeExecutionProofs -------------------------
(***************************************************************************)
(* What a native execution rests on: which library executes                *)
(* (MethodsIdentity) and which archive is executed (ArchiveReader).        *)
(* SingleLibrary, ServedFromPath and, when the host selects no library of  *)
(* its own, AbiHonoured are proved for any number of threads, calls, files,*)
(* libraries and replacements; V1Coherent, Anchored and MethodsAnchored    *)
(* for archives of any size, any number of files, overwrites and renames.  *)
(***************************************************************************)
EXTENDS MethodsIdentity, ArchiveReader, TLAPS

\* A thread inside the critical section that fixes the identity.
Fixing(t) == pc[t] \in {"snapshot", "configure", "select", "store"}

\* The lock is held exactly by the thread that fixes the identity.
LockInv == \A t \in Threads : Fixing(t) <=> lock = t

\* Nothing is loaded before a thread fixes the identity.
OpenInv ==
  configured = None /\ lock = None => loaded = {} /\ dagml = None /\ snapshot = None

\* What the thread that fixes the identity has done so far.
FixingOf(t) ==
  /\ configured = None
  /\ round[t] = 1
  /\ attested[t] \in Libs
  /\ pc[t] = "snapshot" => snapshot = None
  /\ snapshot \in {attested[t], None}
  /\ pc[t] \in {"snapshot", "configure"} => loaded = {} /\ dagml = None
  /\ loaded \subseteq {attested[t]}
  /\ pc[t] \in {"select", "store"} => (~ abiError[t] => dagml = attested[t])
FixingInv == \A t \in Threads : Fixing(t) => FixingOf(t)

\* A fixed identity agrees with the runtime and with the snapshot.
FixedInv ==
  configured # None =>
    /\ loaded \subseteq {configured.lib}
    /\ snapshot \in {configured.lib, None}
    /\ ~ configured.abiError => dagml = configured.lib

\* A library that was at the requested path during the call, and the pin.
Acceptable(t, lib) == lib \in seen[t] /\ request[t].pin \in {None, lib}

\* The call has found its library to be the identity of the process.
Identified(t) ==
  /\ configured # None /\ ~ configured.abiError
  /\ Acceptable(t, configured.lib)

CallOf(t) ==
  /\ pc[t] # "idle" => request[t] \in Requests
  /\ pc[t] = "attest" /\ round[t] = 1 => file[request[t].path] \in seen[t] \cup {None}
  /\ pc[t] = "identify" \/ Fixing(t) => attested[t] \in Libs
  /\ round[t] = 1 /\ (pc[t] = "identify" \/ Fixing(t)) => Acceptable(t, attested[t])
  /\ pc[t] \in {"open", "abi", "ok"} \/ round[t] = 2 => Identified(t)
CallInv == \A t \in Threads : CallOf(t)

Inv == TypeOK /\ LockInv /\ OpenInv /\ FixingInv /\ FixedInv /\ CallInv

USE DEF Idle, Op, Fixing

-----------------------------------------------------------------------------

\* A request is a record of a path, a pin and a need.
LEMMA RequestFields ==
  ASSUME NEW q \in Requests
  PROVE  /\ q.path \in Sources /\ q.pin \in Libs \cup {None} /\ q.need \in Nat
         /\ q # None /\ (q.pin # None <=> q.op \in Pinned)
  BY ConstantsAssumption DEF RequestType

\* The bounds are numbers, and None is none of the things it stands beside.
LEMMA Bounds ==
  /\ MaxCalls \in Nat /\ MaxChanges \in Nat
  /\ None \notin Libs /\ None \notin Threads
  /\ HostLibs \subseteq Libs /\ Executable \subseteq Libs
  BY ConstantsAssumption

\* Nothing has happened yet.
THEOREM InvInit == Init => Inv
<1> SUFFICES ASSUME Init PROVE Inv
  OBVIOUS
<1>0. /\ file \in [Sources -> Libs \cup {None}]
      /\ calls \in [Threads -> 0 .. MaxCalls] /\ changes \in 0 .. MaxChanges
      /\ seen \in [Threads -> SUBSET Libs]
  BY Bounds DEF Init
<1>1. TypeOK
  BY <1>0 DEF Init, TypeOK
<1>2. LockInv
  BY ConstantsAssumption DEF Init, LockInv
<1>. QED
  BY <1>1, <1>2 DEF Init, Inv, OpenInv, FixingInv, FixedInv, CallInv, CallOf

\* A call starts outside the critical section and in its first round.
LEMMA BeginStep ==
  ASSUME Inv, NEW t \in Threads, Begin(t)
  PROVE  Inv'
<1> USE DEF Begin, Goto, process, Inv
<1>1. PICK q \in Requests : /\ request' = [request EXCEPT ![t] = q]
                            /\ seen' = [seen EXCEPT ![t] = {file[q.path]} \ {None}]
  OBVIOUS
<1>2. q.path \in Sources
  BY RequestFields
<1>3. TypeOK'
  BY <1>1, <1>2, ConstantsAssumption DEF TypeOK
<1>4. LockInv'
  BY DEF TypeOK, LockInv
<1>5. OpenInv' /\ FixedInv'
  BY DEF OpenInv, FixedInv
<1>6. FixingInv'
  BY DEF TypeOK, FixingInv, FixingOf
<1>7. CallInv'
  BY <1>1 DEF TypeOK, CallInv, CallOf, Identified, Acceptable
<1>. QED
  BY <1>3, <1>4, <1>5, <1>6, <1>7

\* What is read in the first round stands at the requested path.
LEMMA AttestStep ==
  ASSUME Inv, NEW t \in Threads, Attest(t)
  PROVE  Inv'
<1> USE DEF Attest, Goto, Fails, process, Inv
<1>0. request[t] \in Requests /\ round[t] \in {1, 2}
  BY DEF TypeOK, CallInv, CallOf
<1>1. Content(Path(t)) \in Libs \cup {None}
  BY <1>0, RequestFields DEF TypeOK, Content, Path
<1>2. TypeOK'
  BY <1>1, ConstantsAssumption DEF TypeOK
<1>3. LockInv'
  BY DEF TypeOK, LockInv
<1>4. OpenInv' /\ FixedInv'
  BY DEF OpenInv, FixedInv
<1>5. FixingInv'
  BY DEF TypeOK, FixingInv, FixingOf
<1>6. ASSUME round[t] = 1, Content(Path(t)) # None,
             Op(t) \in Pinned => Content(Path(t)) = request[t].pin
      PROVE  Acceptable(t, Content(Path(t)))
  <2>1. Content(Path(t)) = file[request[t].path]
    BY <1>6, <1>0, RequestFields, ConstantsAssumption DEF Content, Path
  <2>. QED
    BY <1>6, <2>1, <1>0, RequestFields DEF Acceptable, CallInv, CallOf
<1>7. CallInv'
  BY <1>1, <1>6 DEF TypeOK, CallInv, CallOf, Identified, Acceptable
<1>. QED
  BY <1>2, <1>3, <1>4, <1>5, <1>7

\* The lock is taken only when no identity is fixed; otherwise the identity
\* found is the library the call has read.
LEMMA IdentifyStep ==
  ASSUME Inv, NEW t \in Threads, Identify(t)
  PROVE  Inv'
<1> USE DEF Identify, Goto, Fails, locals, Inv
<1>0. request[t] \in Requests /\ round[t] \in {1, 2} /\ attested[t] \in Libs /\ t # None
  BY ConstantsAssumption DEF TypeOK, CallInv, CallOf
<1>1. AfterIdentity(t) \in {"ok", "abi", "open"}
  BY DEF AfterIdentity
<1>2. TypeOK'
  BY <1>1 DEF TypeOK
<1>3. LockInv'
  BY <1>0, <1>1, ConstantsAssumption DEF TypeOK, LockInv
<1>4. OpenInv' /\ FixedInv'
  BY <1>0, ConstantsAssumption DEF OpenInv, FixedInv
<1>5. FixingInv'
  BY <1>0, <1>1, ConstantsAssumption DEF TypeOK, FixingInv, FixingOf, OpenInv, CallInv, CallOf,
     Identified
<1>6. CallInv'
  BY <1>0, <1>1 DEF TypeOK, CallInv, CallOf, Identified, Acceptable, SameIdentity
<1>. QED
  BY <1>2, <1>3, <1>4, <1>5, <1>6

\* The snapshot holds the bytes the call has read.
LEMMA WriteSnapshotStep ==
  ASSUME Inv, NEW t \in Threads, WriteSnapshot(t)
  PROVE  Inv'
<1> USE DEF WriteSnapshot, Goto, Fails, locals, Inv
<1>0. FixingOf(t) /\ lock = t /\ t # None
  BY ConstantsAssumption DEF FixingInv, LockInv
<1>1. TypeOK'
  BY <1>0 DEF TypeOK, FixingOf
<1>2. LockInv'
  BY <1>0, ConstantsAssumption DEF TypeOK, LockInv
<1>3. OpenInv' /\ FixedInv'
  BY <1>0 DEF OpenInv, FixedInv, FixingOf
<1>4. FixingInv'
  BY <1>0 DEF TypeOK, FixingInv, FixingOf, LockInv
<1>5. CallInv'
  BY <1>0 DEF TypeOK, CallInv, CallOf, Identified, Acceptable
<1>. QED
  BY <1>1, <1>2, <1>3, <1>4, <1>5

\* What DAG-ML loads is the snapshot.
LEMMA ConfigureStep ==
  ASSUME Inv, NEW t \in Threads, Configure(t)
  PROVE  Inv'
<1> USE DEF Configure, Goto, Inv
<1>0. FixingOf(t) /\ lock = t /\ t # None
  BY ConstantsAssumption DEF FixingInv, LockInv
<1>1. snapshot \in Executable => snapshot \in Libs /\ snapshot = attested[t]
  BY <1>0, ConstantsAssumption DEF FixingOf
<1>2. TypeOK'
  BY <1>0, <1>1 DEF TypeOK, FixingOf
<1>3. LockInv'
  BY <1>0 DEF TypeOK, LockInv
<1>4. OpenInv' /\ FixedInv'
  BY <1>0, ConstantsAssumption DEF OpenInv, FixedInv, FixingOf
<1>5. FixingInv'
  BY <1>0, <1>1 DEF TypeOK, FixingInv, FixingOf, LockInv
<1>6. CallInv'
  BY <1>0 DEF TypeOK, CallInv, CallOf, Identified, Acceptable
<1>. QED
  BY <1>2, <1>3, <1>4, <1>5, <1>6

\* The core's own instance concerns none of it.
LEMMA SelectStep ==
  ASSUME Inv, NEW t \in Threads, Select(t)
  PROVE  Inv'
<1> USE DEF Select, Goto, locals, Inv
<1>0. FixingOf(t) /\ lock = t /\ t # None
  BY ConstantsAssumption DEF FixingInv, LockInv
<1>1. TypeOK'
  BY DEF TypeOK
<1>2. LockInv'
  BY <1>0 DEF TypeOK, LockInv
<1>3. OpenInv' /\ FixedInv'
  BY DEF OpenInv, FixedInv
<1>4. FixingInv'
  BY DEF TypeOK, FixingInv, FixingOf
<1>5. CallInv'
  BY DEF TypeOK, CallInv, CallOf, Identified, Acceptable
<1>. QED
  BY <1>1, <1>2, <1>3, <1>4, <1>5

\* A library that is stored as the identity is not None.
LEMMA StoredRecord ==
  ASSUME Inv, NEW t \in Threads, Store(t)
  PROVE  /\ configured' # None
         /\ configured'.lib = attested[t] /\ configured'.abiError = abiError[t]
         /\ configured' \in [path : Sources, lib : Libs, abiError : BOOLEAN]
<1> USE DEF Store, Inv
<1>0. FixingOf(t) /\ request[t] \in Requests
  BY DEF FixingInv, CallInv, CallOf
<1>1. Path(t) \in Sources /\ abiError[t] \in BOOLEAN
  BY <1>0, RequestFields DEF FixingOf, Path, TypeOK
<1>. QED
  BY <1>0, <1>1, ConstantsAssumption DEF FixingOf

\* The identity is the library that was loaded.
LEMMA StoreStep ==
  ASSUME Inv, NEW t \in Threads, Store(t)
  PROVE  Inv'
<1> USE DEF Store, Goto, Fails, locals, Inv
<1>0. /\ FixingOf(t) /\ lock = t /\ t # None
      /\ request[t] \in Requests
  BY ConstantsAssumption DEF FixingInv, LockInv, CallInv, CallOf
<1>1. /\ Path(t) \in Sources
      /\ abiError[t] \in BOOLEAN
      /\ AfterIdentity(t) \in {"ok", "abi", "open"}
  BY <1>0, RequestFields DEF FixingOf, Path, AfterIdentity, TypeOK
<1>2. /\ configured' # None
      /\ configured'.lib = attested[t] /\ configured'.abiError = abiError[t]
      /\ configured' \in [path : Sources, lib : Libs, abiError : BOOLEAN]
  BY StoredRecord
<1>3. TypeOK'
  BY <1>1, <1>2 DEF TypeOK
<1>4. LockInv'
  BY <1>0, <1>1, ConstantsAssumption DEF TypeOK, LockInv
<1>5. OpenInv' /\ FixedInv'
  BY <1>0, <1>2 DEF OpenInv, FixedInv, FixingOf
<1>6. FixingInv'
  BY <1>0, <1>1 DEF TypeOK, FixingInv, FixingOf, LockInv
<1>7. ASSUME NEW u \in Threads PROVE CallOf(u)'
  <2>1. CASE u = t
    BY <1>0, <1>1, <1>2, <2>1 DEF TypeOK, CallInv, CallOf, FixingOf, Identified, Acceptable
  <2>2. CASE u # t
    BY <1>0, <2>2 DEF TypeOK, CallInv, CallOf, FixingOf, FixingInv, LockInv, Identified, Acceptable
  <2>. QED
    BY <2>1, <2>2
<1>. QED
  BY <1>3, <1>4, <1>5, <1>6, <1>7 DEF CallInv

\* The call goes on with the identity it has found.
LEMMA OpenStep ==
  ASSUME Inv, NEW t \in Threads, Open(t)
  PROVE  Inv'
<1> USE DEF Open, Goto, Fails, locals, process, Inv
<1>0. AfterOpen(t) \in {"abi", "ok"}
  BY DEF AfterOpen
<1>1. TypeOK'
  BY <1>0 DEF TypeOK
<1>2. LockInv'
  BY <1>0 DEF TypeOK, LockInv
<1>3. OpenInv' /\ FixedInv'
  BY DEF OpenInv, FixedInv
<1>4. FixingInv'
  BY <1>0 DEF TypeOK, FixingInv, FixingOf
<1>5. CallInv'
  BY <1>0 DEF TypeOK, CallInv, CallOf, Identified, Acceptable
<1>. QED
  BY <1>1, <1>2, <1>3, <1>4, <1>5

\* The second round starts with the identity found in the first.
LEMMA CheckAbiStep ==
  ASSUME Inv, NEW t \in Threads, CheckAbi(t)
  PROVE  Inv'
<1> USE DEF CheckAbi, Goto, Fails, process, Inv
<1>0. Identified(t) /\ request[t] \in Requests
  BY DEF CallInv, CallOf
<1>1. TypeOK'
  BY DEF TypeOK
<1>2. LockInv'
  BY DEF TypeOK, LockInv
<1>3. OpenInv' /\ FixedInv'
  BY DEF OpenInv, FixedInv
<1>4. FixingInv'
  BY DEF TypeOK, FixingInv, FixingOf
<1>5. CallInv'
  BY <1>0 DEF TypeOK, CallInv, CallOf, Identified, Acceptable
<1>. QED
  BY <1>1, <1>2, <1>3, <1>4, <1>5

\* Files change, the bytes already read do not.
LEMMA EnvironmentStep ==
  ASSUME Inv,
         \/ \E x \in Sources, lib \in Libs \cup {None} : Replace(x, lib)
         \/ LoseSnapshot
         \/ \E lib \in HostLibs : HostSelects(lib)
  PROVE  Inv'
<1> USE DEF Changes, locals, Inv
<1>1. ASSUME NEW x \in Sources, NEW lib \in Libs \cup {None}, Replace(x, lib)
      PROVE  Inv'
  <2> USE <1>1 DEF Replace
  <2>0. seen' \in [Threads -> SUBSET Libs]
    BY DEF TypeOK
  <2>1. TypeOK'
    <3>1. file' \in [Sources -> Libs \cup {None}]
      BY DEF TypeOK
    <3>2. changes' \in 0 .. MaxChanges
      BY Bounds DEF TypeOK
    <3>. QED
      BY <2>0, <3>1, <3>2 DEF TypeOK
  <2>2. LockInv' /\ OpenInv' /\ FixedInv' /\ FixingInv'
    BY DEF LockInv, OpenInv, FixedInv, FixingInv, FixingOf
  <2>3. \A t \in Threads : pc[t] \notin Idle => seen[t] \subseteq seen'[t]
    BY Bounds DEF TypeOK
  <2>4. \A t \in Threads : pc[t] \in Idle => seen'[t] = seen[t]
    BY DEF TypeOK
  <2>5. ASSUME NEW t \in Threads PROVE CallOf(t)'
    <3>1. request[t] \in Requests \/ pc[t] = "idle"
      BY DEF CallInv, CallOf
    <3>2. pc[t] = "attest" /\ round[t] = 1 => file'[request[t].path] \in seen'[t] \cup {None}
      BY <3>1, <2>3, RequestFields DEF TypeOK, CallInv, CallOf
    <3>. QED
      BY <3>2, <2>3, <2>4 DEF CallInv, CallOf, Identified, Acceptable
  <2>. QED
    BY <2>1, <2>2, <2>5 DEF CallInv
<1>2. CASE LoseSnapshot
  <2> USE <1>2 DEF LoseSnapshot
  <2>1. TypeOK' /\ LockInv'
    BY Bounds DEF TypeOK, LockInv
  <2>2. OpenInv' /\ FixedInv' /\ FixingInv'
    BY DEF OpenInv, FixedInv, FixingInv, FixingOf
  <2>3. CallInv'
    BY DEF CallInv, CallOf, Identified, Acceptable
  <2>. QED
    BY <2>1, <2>2, <2>3
<1>3. ASSUME NEW lib \in HostLibs, HostSelects(lib) PROVE Inv'
  <2> USE <1>3 DEF HostSelects
  <2>1. TypeOK' /\ LockInv'
    BY Bounds DEF TypeOK, LockInv
  <2>2. OpenInv' /\ FixedInv' /\ FixingInv' /\ CallInv'
    BY DEF OpenInv, FixedInv, FixingInv, FixingOf, CallInv, CallOf, Identified, Acceptable
  <2>. QED
    BY <2>1, <2>2
<1>. QED
  BY <1>1, <1>2, <1>3

\* Inv is inductive.
THEOREM Invariance == Spec => []Inv
<1>1. ASSUME Inv, UNCHANGED vars PROVE Inv'
  BY <1>1 DEF vars, Inv, TypeOK, LockInv, OpenInv, FixingInv, FixingOf, FixedInv, CallInv,
     CallOf, Identified, Acceptable
<1>2. Inv /\ [Next]_vars => Inv'
  BY <1>1, BeginStep, AttestStep, IdentifyStep, WriteSnapshotStep, ConfigureStep, SelectStep,
     StoreStep, OpenStep, CheckAbiStep, EnvironmentStep DEF Next, Step
<1>. QED
  BY InvInit, <1>2, PTL DEF Spec

-----------------------------------------------------------------------------

\* Every variable keeps its type.
THEOREM TypeCorrectness == Spec => []TypeOK
<1>1. Inv => TypeOK
  BY DEF Inv
<1>. QED
  BY Invariance, <1>1, PTL

\* One library at most ever reaches the native runtime, whatever the threads
\* and the files do (configure_methods_library_identity and its lock).
THEOREM OneLibrary == Spec => []SingleLibrary
<1>1. ASSUME Inv PROVE SingleLibrary
  <2> USE <1>1 DEF Inv, SingleLibrary
  <2>1. CASE configured # None
    BY <2>1 DEF FixedInv
  <2>2. CASE configured = None /\ lock = None
    BY <2>2 DEF OpenInv
  <2>3. CASE configured = None /\ lock # None
    <3>1. lock \in Threads /\ FixingOf(lock)
      BY <2>3 DEF TypeOK, LockInv, FixingInv
    <3>. QED
      BY <2>3, <3>1 DEF FixingOf
  <2>. QED
    BY <2>1, <2>2, <2>3
<1>. QED
  BY Invariance, <1>1, PTL

\* A success was served by bytes that stood at the path during the call, and
\* by the library that was pinned (attest_methods_library).
THEOREM Service == Spec => []ServedFromPath
<1>1. Inv => ServedFromPath
  BY DEF Inv, ServedFromPath, CallInv, CallOf, Identified, Acceptable, FixedInv
<1>. QED
  BY Invariance, <1>1, PTL

-----------------------------------------------------------------------------
(* The core's own instance, when the host selects no library for it.       *)

\* It holds nothing but the identity of the process, or the library that the
\* thread in the critical section has just configured.
CoreInv ==
  core # None =>
    /\ configured # None => core = configured.lib
    /\ configured = None =>
         lock # None /\ pc[lock] = "store" /\ core = attested[lock]

\* A call that is past CheckAbi has found the identity sufficient.
AbiOf(t) ==
  /\ pc[t] = "open" /\ Op(t) = "predict" => round[t] = 2
  /\ round[t] = 2 \/ (pc[t] = "ok" /\ Op(t) \in {"replay", "refit", "predict"}) =>
       AbiMinor[configured.lib] >= request[t].need
AbiInv == \A t \in Threads : AbiOf(t)

\* Only the selection by the runtime fills the core's instance, and only with
\* the snapshot, in the critical section.
LEMMA CoreStep ==
  ASSUME Inv, CoreInv, HostLibs = {}, [Next]_vars
  PROVE  CoreInv'
<1> USE DEF Inv, CoreInv, Goto, Fails, locals, process
<1>1. ASSUME NEW t \in Threads, Begin(t) \/ Attest(t) \/ Open(t) \/ CheckAbi(t)
      PROVE  CoreInv'
  BY <1>1 DEF TypeOK, LockInv, Begin, Attest, Open, CheckAbi
<1>2. ASSUME NEW t \in Threads, Identify(t) PROVE CoreInv'
  BY <1>2 DEF TypeOK, Identify
<1>3. ASSUME NEW t \in Threads, WriteSnapshot(t) \/ Configure(t) PROVE CoreInv'
  BY <1>3 DEF TypeOK, LockInv, FixingInv, FixingOf, WriteSnapshot, Configure
<1>4. ASSUME NEW t \in Threads, Select(t) PROVE CoreInv'
  <2>1. FixingOf(t) /\ lock = t /\ t # None
    BY <1>4, Bounds DEF Select, FixingInv, LockInv
  <2>2. core = None
    BY <1>4, <2>1 DEF Select, FixingOf
  <2>. QED
    BY <1>4, <2>1, <2>2, Bounds DEF Select, TypeOK, FixingOf
<1>5. ASSUME NEW t \in Threads, Store(t) PROVE CoreInv'
  <2>1. FixingOf(t) /\ lock = t
    BY <1>5 DEF Store, FixingInv, LockInv
  <2>2. configured' # None /\ configured'.lib = attested[t]
    BY <1>5, <2>1, StoredRecord DEF Store
  <2>. QED
    BY <1>5, <2>1, <2>2 DEF Store, FixingOf
<1>6. ASSUME \/ \E x \in Sources, lib \in Libs \cup {None} : Replace(x, lib)
             \/ LoseSnapshot
      PROVE  CoreInv'
  BY <1>6 DEF Replace, LoseSnapshot, Changes
<1>7. CASE UNCHANGED vars
  BY <1>7 DEF vars
<1>. QED
  BY <1>1, <1>2, <1>3, <1>4, <1>5, <1>6, <1>7 DEF Next, Step

\* The ABI is asked of the library that is the identity, and the identity does
\* not change any more.
LEMMA AbiStep ==
  ASSUME Inv, CoreInv, AbiInv, [Next]_vars
  PROVE  AbiInv'
<1> USE DEF Inv, AbiInv, AbiOf, Goto, Fails, locals, process
<1>1. ASSUME NEW t \in Threads, Begin(t) \/ Attest(t) \/ WriteSnapshot(t) \/ Configure(t)
                                \/ Select(t)
      PROVE  AbiInv'
  BY <1>1 DEF TypeOK, Begin, Attest, WriteSnapshot, Configure, Select
<1>2. ASSUME NEW t \in Threads, Identify(t) PROVE AbiInv'
  BY <1>2 DEF TypeOK, Identify, AfterIdentity
<1>3. ASSUME NEW t \in Threads, Store(t) PROVE AbiInv'
  <2>1. FixingOf(t) /\ configured = None
    BY <1>3 DEF Store, FixingInv, FixingOf
  <2>2. \A u \in Threads : pc[u] # "ok" /\ round[u] # 2
    BY <2>1 DEF CallInv, CallOf, Identified
  <2>. QED
    BY <1>3, <2>1, <2>2 DEF TypeOK, Store, FixingOf, AfterIdentity
<1>4. ASSUME NEW t \in Threads, Open(t) PROVE AbiInv'
  BY <1>4 DEF TypeOK, Open, AfterOpen
<1>5. ASSUME NEW t \in Threads, CheckAbi(t) PROVE AbiInv'
  <2>1. Identified(t)
    BY <1>5 DEF CheckAbi, CallInv, CallOf
  <2>2. Sufficient(t) => AbiMinor[configured.lib] >= request[t].need
    BY <2>1 DEF Sufficient, CoreInv, Identified
  <2>. QED
    BY <1>5, <2>2 DEF TypeOK, CheckAbi
<1>6. ASSUME \/ \E x \in Sources, lib \in Libs \cup {None} : Replace(x, lib)
             \/ LoseSnapshot
             \/ \E lib \in HostLibs : HostSelects(lib)
      PROVE  AbiInv'
  BY <1>6 DEF Replace, LoseSnapshot, HostSelects, Changes
<1>7. CASE UNCHANGED vars
  BY <1>7 DEF vars
<1>. QED
  BY <1>1, <1>2, <1>3, <1>4, <1>5, <1>6, <1>7 DEF Next, Step

\* An archive is executed by a library whose ABI is at least the one its
\* manifest demands, unless the host has selected a library of its own
\* (require_configured_archive_methods_abi asks the other instance).
THEOREM AbiRequirement == HostLibs = {} /\ Spec => []AbiHonoured
<1> SUFFICES ASSUME HostLibs = {} PROVE Spec => []AbiHonoured
  OBVIOUS
<1>1. Init => CoreInv /\ AbiInv
  BY DEF Init, CoreInv, AbiInv, AbiOf
<1>2. Inv /\ CoreInv /\ AbiInv /\ [Next]_vars => CoreInv' /\ AbiInv'
  BY CoreStep, AbiStep
<1>3. Inv /\ AbiInv => AbiHonoured
  BY DEF Inv, AbiHonoured, AbiInv, AbiOf, CallInv, CallOf, Identified, FixedInv
<1>. QED
  BY Invariance, <1>1, <1>2, <1>3, PTL DEF Spec

-----------------------------------------------------------------------------
(* The archive reader.  The argument for V1 is the one of a double         *)
(* collect: a region that holds the same bytes in two passes held them at  *)
(* every moment in between, because no region is given bytes it has held   *)
(* before.                                                                 *)

\* The steps of a load that have the file open.
Passing == {"hash", "directory", "manifest", "members", "check", "rehash"}

\* A file is open, and the second SHA-256 starts with its first region.
Handle ==
  /\ stage \in Passing \cup {"copy"} => fd \in Inodes
  /\ stage = "check" => at = 0

\* Bytes a region holds are bytes it has held.
History == \A i \in Inodes, r \in Regions : archive[i][r] \in past[i][r]

\* The passes follow each other: nothing is read for use before the first
\* SHA-256 is complete, and the second SHA-256 starts after the reading.
Order ==
  /\ stage = "hash" => reader = 1 /\ buffer = Unread
  /\ stage \in {"hash", "directory", "manifest", "members"} => sha = Unread
  /\ stage = "check" /\ reader # 1 => sha = Unread
  /\ stage = "rehash" /\ reader # 1 => buffer \in Archives
  /\ stage = "rehash" => \A r \in Regions : r < at => sha[r] # Absent
  /\ stage \in Loaded \/ (stage = "check" /\ reader = 1) => \A r \in Regions
      : sha[r] # Absent

\* V1: bytes of the first SHA-256 that are still there are those that were read.
FirstPass ==
  stage \in Passing /\ reader = 1 =>
    \A r \in Regions : before[r] # Absent =>
      /\ before[r] \in past[fd][r]
      /\ buffer[r] # Absent /\ archive[fd][r] = before[r] => buffer[r] = before[r]

\* V1: bytes that are in both SHA-256 are those that were read.
SecondPass ==
  stage \in Passing /\ reader = 1 =>
    \A r \in Regions :
      sha[r] # Absent /\ sha[r] = before[r] /\ buffer[r] # Absent => buffer[r] = before[r]

\* Without a tear, what was read is what the file holds.
Untorn ==
  stage \in Passing /\ ~ torn =>
    \A r \in Regions :
      buffer[r] \in {Absent, archive[fd][r]} /\ sha[r] \in {Absent, archive[fd][r]}

Collected ==
  stage \in Loaded /\ (reader = 1 \/ ~ torn) => buffer = sha

\* What the commands compare before they end.
Compared ==
  /\ stage = "ok" /\ op \in Expecting => expected = sha
  /\ stage \in {"copy", "execute"} => op = "replay-methods" /\ expected = sha
  /\ stage = "ok" /\ op = "replay-methods" => copy = sha

ReaderInv ==
  /\ ReaderTypeOK
  /\ Handle
  /\ History
  /\ Order
  /\ FirstPass
  /\ SecondPass
  /\ Untorn
  /\ Collected
  /\ Compared

-----------------------------------------------------------------------------
\* The regions are the manifest, the members and the directory.
RegionLaws ==
  /\ Regions \subseteq Nat
  /\ Manifest \in Regions /\ Directory \in Regions
  /\ \A r \in Regions : r # Directory => r + 1 \in Regions
  /\ \A r \in Regions : r < N => r + 1 \in Regions
  /\ \A r \in Regions : r <= Directory
  /\ 0 \in Regions /\ 1 \in Regions

LEMMA RegionFacts == RegionLaws
  BY ReaderAssumption DEF RegionLaws, Regions, Manifest,
      Directory

\* A pass starts with no region read and adds one region at a time.
LEMMA PassFacts ==
  /\ Unread \in Partial
  /\ \A s \in Partial, r \in Regions, b \in Bytes :
       [s EXCEPT ![r] = b] \in Partial
  BY DEF Unread, Partial

\* Two passes with the same regions are the same.
LEMMA SamePass ==
  ASSUME NEW s \in Partial, NEW t \in Partial,
         \A r \in Regions : s[r] = t[r]
  PROVE  s = t
  BY DEF Partial

\* The initial state satisfies the invariant.
LEMMA ReaderInitially ==
  ReaderInit => ReaderInv
<1> SUFFICES ASSUME ReaderInit PROVE ReaderInv
  OBVIOUS
<1>r. RegionLaws
  BY RegionFacts
<1> USE <1>r, ReaderAssumption DEF RegionLaws, ReaderInit
<1>1. ReaderTypeOK
  <2>1. /\ archive \in [Inodes -> [Regions -> Bytes]]
        /\ past \in [Inodes -> [Regions -> SUBSET Bytes]]
    BY DEF ReaderTypeOK
  <2>2. before \in Partial /\ buffer \in Partial /\ sha \in Partial
      /\ copy \in Partial
    BY PassFacts
  <2>3. expected \in Archives \cup {Absent} /\ reader \in {1, 2, 3, Absent}
    OBVIOUS
  <2>4. /\ stage \in Loading /\ op \in Ops /\ at \in Regions
        /\ fd \in Inodes \cup {Absent} /\ path \in Inodes \cup {Absent}
    BY DEF Loading
  <2>5. torn \in BOOLEAN
    OBVIOUS
  <2>6. writes \in 0 .. MaxWrites /\ moves \in 0 .. MaxMoves
    OBVIOUS
  <2> HIDE DEF ReaderInit
  <2> QED BY <2>1, <2>2, <2>3, <2>4, <2>5, <2>6 DEF ReaderTypeOK
<1>2. Handle /\ Order /\ FirstPass /\ SecondPass /\ Untorn /\ Collected /\ Compared
  BY DEF Handle, Order, FirstPass, SecondPass, Untorn, Collected, Compared, Passing,
      Loaded
<1>3. History
  BY DEF History
<1> QED BY <1>1, <1>2, <1>3 DEF ReaderInv

\* Every step keeps the types.
LEMMA TypeStep ==
  ReaderTypeOK /\ Handle /\ [ReaderNext]_readerVars =>
      ReaderTypeOK'
<1> SUFFICES ASSUME ReaderTypeOK, Handle,
    [ReaderNext]_readerVars PROVE ReaderTypeOK'
  OBVIOUS
<1>a. stage \in Passing \cup {"copy"} =>
        \A r \in Regions : /\ [before EXCEPT ![r] = archive[fd][r]] \in Partial
                           /\ [buffer EXCEPT ![r] = archive[fd][r]] \in Partial
                           /\ [sha EXCEPT ![r] = archive[fd][r]] \in Partial
                           /\ [copy EXCEPT ![r] = archive[fd][r]] \in Partial
  BY PassFacts DEF ReaderTypeOK, Handle
<1>r. RegionLaws
  BY RegionFacts
<1> USE <1>r, ReaderAssumption DEF RegionLaws, ReaderTypeOK, Passing,
    Loading, Loaded, command,
    passes, disk
<1>1. CASE OpenArchive       BY <1>1, PassFacts DEF OpenArchive
<1>2. CASE Hash
  <2>1. /\ stage' \in Loading \cup Loaded \cup {"refused"}
        /\ at' \in Regions
    BY <1>2 DEF Hash
  <2>2. before' \in Partial /\ buffer' \in Partial /\ sha' \in Partial
      /\ copy' \in Partial
    BY <1>2, <1>a DEF Hash
  <2> QED BY <1>2, <2>1, <2>2 DEF Hash
<1>3. CASE ReadDirectory
  <2>1. /\ stage' \in Loading \cup Loaded \cup {"refused"}
        /\ at' \in Regions
    BY <1>3 DEF ReadDirectory, Reads
  <2>2. before' \in Partial /\ buffer' \in Partial /\ sha' \in Partial
      /\ copy' \in Partial
    BY <1>3, <1>a DEF ReadDirectory, Reads
  <2> QED BY <1>3, <2>1, <2>2 DEF ReadDirectory, Reads
<1>4. CASE Dispatch
  <2>1. archive[fd][Manifest] \in Bytes
    BY <1>4 DEF Dispatch, Handle
  <2>2. Version[archive[fd][Manifest]] \in {1, 2, 3}
    BY <2>1
  <2> QED BY <1>4, <2>2 DEF Dispatch
<1>5. CASE ReadManifest
  <2>1. /\ stage' \in Loading \cup Loaded \cup {"refused"}
        /\ at' \in Regions
    BY <1>5 DEF ReadManifest, Reads
  <2>2. before' \in Partial /\ buffer' \in Partial /\ sha' \in Partial
      /\ copy' \in Partial
    BY <1>5, <1>a DEF ReadManifest, Reads
  <2> QED BY <1>5, <2>1, <2>2 DEF ReadManifest, Reads
<1>6. CASE ReadMember
  <2>1. /\ stage' \in Loading \cup Loaded \cup {"refused"}
        /\ at' \in Regions
    BY <1>6 DEF ReadMember, Reads
  <2>2. before' \in Partial /\ buffer' \in Partial /\ sha' \in Partial
      /\ copy' \in Partial
    BY <1>6, <1>a DEF ReadMember, Reads
  <2> QED BY <1>6, <2>1, <2>2 DEF ReadMember, Reads
<1>7. CASE Rehash
  <2>1. /\ stage' \in Loading \cup Loaded \cup {"refused"}
        /\ at' \in Regions
    BY <1>7 DEF Rehash
  <2>2. before' \in Partial /\ buffer' \in Partial /\ sha' \in Partial
      /\ copy' \in Partial
    BY <1>7, <1>a DEF Rehash
  <2> QED BY <1>7, <2>1, <2>2 DEF Rehash
<1>8. CASE Check      BY <1>8 DEF Check
<1>9. CASE Serve      BY <1>9 DEF Serve
<1>10. CASE Pin       BY <1>10 DEF Pin
<1>11. CASE Copy
  <2>1. /\ stage' \in Loading \cup Loaded \cup {"refused"}
        /\ at' \in Regions
    BY <1>11 DEF Copy
  <2>2. before' \in Partial /\ buffer' \in Partial /\ sha' \in Partial
      /\ copy' \in Partial
    BY <1>11, <1>a DEF Copy
  <2> QED BY <1>11, <2>1, <2>2 DEF Copy
<1>12. CASE Execute   BY <1>12 DEF Execute
<1>13. CASE Refuse    BY <1>13, PassFacts DEF Refuse
<1>14. ASSUME NEW i \in Inodes, NEW r \in Regions, NEW b \in Bytes,
    Overwrite(i, r, b)
       PROVE  ReaderTypeOK'
  BY <1>14 DEF Overwrite
<1>15. ASSUME NEW i \in Inodes \cup {Absent}, Rename(i) PROVE ReaderTypeOK'
  BY <1>15 DEF Rename
<1>16. CASE UNCHANGED readerVars BY <1>16 DEF readerVars
<1> QED
  BY <1>1, <1>2, <1>3, <1>4, <1>5, <1>6, <1>7, <1>8, <1>9, <1>10, <1>11, <1>12, <1>13,
     <1>14, <1>15, <1>16 DEF ReaderNext

\* Every step but the end of a load keeps the file open.
LEMMA HandleStep ==
  ReaderTypeOK /\ Handle /\ [ReaderNext]_readerVars => Handle'
<1> SUFFICES ASSUME ReaderTypeOK, Handle,
    [ReaderNext]_readerVars PROVE Handle'
  OBVIOUS
<1> USE ReaderAssumption DEF ReaderTypeOK, Handle, Passing, command,
    passes, disk
<1>1. CASE OpenArchive BY <1>1 DEF OpenArchive
<1>2. CASE Hash BY <1>2 DEF Hash
<1>3. CASE ReadDirectory BY <1>3 DEF ReadDirectory, Reads
<1>4. CASE Dispatch BY <1>4 DEF Dispatch
<1>5. CASE ReadManifest BY <1>5 DEF ReadManifest, Reads
<1>6. CASE ReadMember BY <1>6 DEF ReadMember, Reads
<1>7. CASE Rehash BY <1>7 DEF Rehash
<1>8. CASE Check BY <1>8 DEF Check
<1>9. CASE Serve BY <1>9 DEF Serve
<1>10. CASE Pin BY <1>10 DEF Pin
<1>11. CASE Copy BY <1>11 DEF Copy
<1>12. CASE Execute BY <1>12 DEF Execute
<1>13. CASE Refuse BY <1>13 DEF Refuse
<1>14. ASSUME NEW i \in Inodes, NEW r \in Regions, NEW b \in Bytes,
    Overwrite(i, r, b)
       PROVE  Handle'
  BY <1>14 DEF Overwrite
<1>15. ASSUME NEW i \in Inodes \cup {Absent}, Rename(i) PROVE Handle' BY <1>15 DEF
    Rename
<1>16. CASE UNCHANGED readerVars BY <1>16 DEF readerVars
<1> QED
  BY <1>1, <1>2, <1>3, <1>4, <1>5, <1>6, <1>7, <1>8, <1>9, <1>10, <1>11, <1>12, <1>13,
     <1>14, <1>15, <1>16 DEF ReaderNext

\* History only grows, and it grows with every byte that is written.
LEMMA HistoryStep == ReaderTypeOK /\ History /\ [ReaderNext]_readerVars => History'
<1> SUFFICES ASSUME ReaderTypeOK, History, [ReaderNext]_readerVars PROVE History'
  OBVIOUS
<1> USE DEF ReaderTypeOK, History, command, passes, disk
<1>1. CASE OpenArchive BY <1>1 DEF OpenArchive
<1>2. CASE Hash BY <1>2 DEF Hash
<1>3. CASE ReadDirectory BY <1>3 DEF ReadDirectory, Reads
<1>4. CASE Dispatch BY <1>4 DEF Dispatch
<1>5. CASE ReadManifest BY <1>5 DEF ReadManifest, Reads
<1>6. CASE ReadMember BY <1>6 DEF ReadMember, Reads
<1>7. CASE Rehash BY <1>7 DEF Rehash
<1>8. CASE Check BY <1>8 DEF Check
<1>9. CASE Serve BY <1>9 DEF Serve
<1>10. CASE Pin BY <1>10 DEF Pin
<1>11. CASE Copy BY <1>11 DEF Copy
<1>12. CASE Execute BY <1>12 DEF Execute
<1>13. CASE Refuse BY <1>13 DEF Refuse
<1>14. ASSUME NEW i \in Inodes, NEW r \in Regions, NEW b \in Bytes,
    Overwrite(i, r, b)
       PROVE  History'
  BY <1>14 DEF Overwrite
<1>15. ASSUME NEW i \in Inodes \cup {Absent}, Rename(i) PROVE History' BY <1>15 DEF
    Rename
<1>16. CASE UNCHANGED readerVars BY <1>16 DEF readerVars
<1> QED
  BY <1>1, <1>2, <1>3, <1>4, <1>5, <1>6, <1>7, <1>8, <1>9, <1>10, <1>11, <1>12, <1>13,
     <1>14, <1>15, <1>16 DEF ReaderNext

\* Every step keeps the order of the passes.
LEMMA OrderStep ==
  ReaderTypeOK /\ Handle /\ Order
      /\ [ReaderNext]_readerVars => Order'
<1> SUFFICES ASSUME ReaderTypeOK, Handle, Order,
    [ReaderNext]_readerVars PROVE Order'
  OBVIOUS
<1>r. RegionLaws
  BY RegionFacts
<1> USE <1>r, ReaderAssumption DEF RegionLaws, ReaderTypeOK, Handle, Order,
    Passing, Loading, Loaded, Unread, Partial, command,
    passes, disk
<1>1. CASE OpenArchive BY <1>1 DEF OpenArchive
<1>2. CASE Hash BY <1>2 DEF Hash
<1>3. CASE ReadDirectory BY <1>3 DEF ReadDirectory, Reads
<1>4. CASE Dispatch BY <1>4 DEF Dispatch
<1>5. CASE ReadManifest BY <1>5 DEF ReadManifest, Reads
<1>6. CASE ReadMember BY <1>6 DEF ReadMember, Reads
<1>7. CASE Rehash BY <1>7 DEF Rehash
<1>8. CASE Check BY <1>8 DEF Check
<1>9. CASE Serve BY <1>9 DEF Serve
<1>10. CASE Pin BY <1>10 DEF Pin
<1>11. CASE Copy BY <1>11 DEF Copy
<1>12. CASE Execute BY <1>12 DEF Execute
<1>13. CASE Refuse BY <1>13 DEF Refuse
<1>14. ASSUME NEW i \in Inodes, NEW r \in Regions, NEW b \in Bytes,
    Overwrite(i, r, b)
       PROVE  Order'
  BY <1>14 DEF Overwrite
<1>15. ASSUME NEW i \in Inodes \cup {Absent}, Rename(i) PROVE Order' BY <1>15 DEF
    Rename
<1>16. CASE UNCHANGED readerVars BY <1>16 DEF readerVars
<1> QED
  BY <1>1, <1>2, <1>3, <1>4, <1>5, <1>6, <1>7, <1>8, <1>9, <1>10, <1>11, <1>12, <1>13,
     <1>14, <1>15, <1>16 DEF ReaderNext

\* Every step keeps what the first SHA-256 says of the bytes read.
LEMMA FirstPassStep ==
  ReaderTypeOK /\ Handle /\ History /\ Order /\ FirstPass
      /\ [ReaderNext]_readerVars => FirstPass'
<1> SUFFICES ASSUME ReaderTypeOK, Handle, History, Order,
    FirstPass, [ReaderNext]_readerVars PROVE FirstPass'
  OBVIOUS
<1>r. RegionLaws
  BY RegionFacts
<1> USE <1>r, ReaderAssumption DEF RegionLaws, ReaderTypeOK, Handle, History,
    Order, FirstPass, Passing, Unread, Partial, command, passes,
    disk
<1>1. CASE OpenArchive BY <1>1 DEF OpenArchive
<1>2. CASE Hash BY <1>2 DEF Hash
<1>3. CASE ReadDirectory BY <1>3 DEF ReadDirectory, Reads
<1>4. CASE Dispatch BY <1>4 DEF Dispatch
<1>5. CASE ReadManifest BY <1>5 DEF ReadManifest, Reads
<1>6. CASE ReadMember BY <1>6 DEF ReadMember, Reads
<1>7. CASE Rehash BY <1>7 DEF Rehash
<1>8. CASE Check BY <1>8 DEF Check
<1>9. CASE Serve BY <1>9 DEF Serve
<1>10. CASE Pin BY <1>10 DEF Pin
<1>11. CASE Copy BY <1>11 DEF Copy
<1>12. CASE Execute BY <1>12 DEF Execute
<1>13. CASE Refuse BY <1>13 DEF Refuse
<1>14. ASSUME NEW i \in Inodes, NEW r \in Regions, NEW b \in Bytes,
    Overwrite(i, r, b)
       PROVE  FirstPass'
  BY <1>14 DEF Overwrite
<1>15. ASSUME NEW i \in Inodes \cup {Absent}, Rename(i) PROVE FirstPass' BY <1>15 DEF
    Rename
<1>16. CASE UNCHANGED readerVars BY <1>16 DEF readerVars
<1> QED
  BY <1>1, <1>2, <1>3, <1>4, <1>5, <1>6, <1>7, <1>8, <1>9, <1>10, <1>11, <1>12, <1>13,
     <1>14, <1>15, <1>16 DEF ReaderNext

\* A byte that the second SHA-256 confirms was there when it was read.
LEMMA SecondPassStep ==
  ReaderTypeOK /\ Handle /\ Order /\ FirstPass /\ SecondPass
      /\ [ReaderNext]_readerVars => SecondPass'
<1> SUFFICES ASSUME ReaderTypeOK, Handle, Order, FirstPass,
    SecondPass, [ReaderNext]_readerVars PROVE SecondPass'
  OBVIOUS
<1>r. RegionLaws
  BY RegionFacts
<1> USE <1>r, ReaderAssumption DEF RegionLaws, ReaderTypeOK, Handle, Order,
    FirstPass, SecondPass, Passing, Unread, Partial, command,
    passes, disk
<1>1. CASE OpenArchive BY <1>1 DEF OpenArchive
<1>2. CASE Hash BY <1>2 DEF Hash
<1>3. CASE ReadDirectory BY <1>3 DEF ReadDirectory, Reads
<1>4. CASE Dispatch BY <1>4 DEF Dispatch
<1>5. CASE ReadManifest BY <1>5 DEF ReadManifest, Reads
<1>6. CASE ReadMember BY <1>6 DEF ReadMember, Reads
<1>7. CASE Rehash BY <1>7 DEF Rehash
<1>8. CASE Check BY <1>8 DEF Check
<1>9. CASE Serve BY <1>9 DEF Serve
<1>10. CASE Pin BY <1>10 DEF Pin
<1>11. CASE Copy BY <1>11 DEF Copy
<1>12. CASE Execute BY <1>12 DEF Execute
<1>13. CASE Refuse BY <1>13 DEF Refuse
<1>14. ASSUME NEW i \in Inodes, NEW r \in Regions, NEW b \in Bytes,
    Overwrite(i, r, b)
       PROVE  SecondPass'
  BY <1>14 DEF Overwrite
<1>15. ASSUME NEW i \in Inodes \cup {Absent}, Rename(i) PROVE SecondPass' BY <1>15 DEF
    Rename
<1>16. CASE UNCHANGED readerVars BY <1>16 DEF readerVars
<1> QED
  BY <1>1, <1>2, <1>3, <1>4, <1>5, <1>6, <1>7, <1>8, <1>9, <1>10, <1>11, <1>12, <1>13,
     <1>14, <1>15, <1>16 DEF ReaderNext

\* Only a tear separates what was read from the file.
LEMMA UntornStep ==
  ReaderTypeOK /\ Handle /\ Order /\ Untorn
      /\ [ReaderNext]_readerVars => Untorn'
<1> SUFFICES ASSUME ReaderTypeOK, Handle, Order, Untorn,
    [ReaderNext]_readerVars PROVE Untorn'
  OBVIOUS
<1>r. RegionLaws
  BY RegionFacts
<1> USE <1>r, ReaderAssumption DEF RegionLaws, ReaderTypeOK, Handle, Order,
    Untorn, Passing, Loading, Unread, Partial, command,
    passes, disk
<1>1. CASE OpenArchive BY <1>1 DEF OpenArchive
<1>2. CASE Hash BY <1>2 DEF Hash
<1>3. CASE ReadDirectory BY <1>3 DEF ReadDirectory, Reads
<1>4. CASE Dispatch BY <1>4 DEF Dispatch
<1>5. CASE ReadManifest BY <1>5 DEF ReadManifest, Reads
<1>6. CASE ReadMember BY <1>6 DEF ReadMember, Reads
<1>7. CASE Rehash BY <1>7 DEF Rehash
<1>8. CASE Check BY <1>8 DEF Check
<1>9. CASE Serve BY <1>9 DEF Serve
<1>10. CASE Pin BY <1>10 DEF Pin
<1>11. CASE Copy BY <1>11 DEF Copy
<1>12. CASE Execute BY <1>12 DEF Execute
<1>13. CASE Refuse BY <1>13 DEF Refuse
<1>14. ASSUME NEW i \in Inodes, NEW r \in Regions, NEW b \in Bytes,
    Overwrite(i, r, b)
       PROVE  Untorn'
  BY <1>14 DEF Overwrite
<1>15. ASSUME NEW i \in Inodes \cup {Absent}, Rename(i) PROVE Untorn' BY <1>15 DEF
    Rename
<1>16. CASE UNCHANGED readerVars BY <1>16 DEF readerVars
<1> QED
  BY <1>1, <1>2, <1>3, <1>4, <1>5, <1>6, <1>7, <1>8, <1>9, <1>10, <1>11, <1>12, <1>13,
     <1>14, <1>15, <1>16 DEF ReaderNext

\* A load ends with the bytes of its SHA-256.
LEMMA CollectedStep ==
  ReaderTypeOK /\ Handle /\ Order /\ SecondPass /\ Untorn
      /\ Collected /\ [ReaderNext]_readerVars => Collected'
<1> SUFFICES ASSUME ReaderTypeOK, Handle, Order, SecondPass,
    Untorn, Collected, [ReaderNext]_readerVars PROVE Collected'
  OBVIOUS
<1>r. RegionLaws
  BY RegionFacts
<1> USE <1>r, ReaderAssumption DEF RegionLaws, ReaderTypeOK, Handle, Order,
    SecondPass, Untorn, Collected, Passing, Loading, Loaded, Partial,
    command, passes, disk
<1>1. CASE OpenArchive BY <1>1 DEF OpenArchive
<1>2. CASE Hash BY <1>2 DEF Hash
<1>3. CASE ReadDirectory BY <1>3 DEF ReadDirectory, Reads
<1>4. CASE Dispatch BY <1>4 DEF Dispatch
<1>5. CASE ReadManifest BY <1>5 DEF ReadManifest, Reads
<1>6. CASE ReadMember BY <1>6 DEF ReadMember, Reads
<1>7. CASE Rehash BY <1>7 DEF Rehash
<1>8. CASE Check
  <2>1. CASE reader = 1
    <3>1. \A r \in Regions : buffer[r] = sha[r]
      BY <1>8, <2>1 DEF Check
    <3>2. buffer = sha
      <4> HIDE DEF Partial
      <4> QED BY <3>1, SamePass
    <3> QED BY <1>8, <3>2 DEF Check
  <2>2. CASE reader # 1
    BY <1>8, <2>2 DEF Check
  <2> QED BY <2>1, <2>2
<1>9. CASE Serve BY <1>9 DEF Serve
<1>10. CASE Pin BY <1>10 DEF Pin
<1>11. CASE Copy BY <1>11 DEF Copy
<1>12. CASE Execute BY <1>12 DEF Execute
<1>13. CASE Refuse BY <1>13 DEF Refuse
<1>14. ASSUME NEW i \in Inodes, NEW r \in Regions, NEW b \in Bytes,
    Overwrite(i, r, b)
       PROVE  Collected'
  BY <1>14 DEF Overwrite
<1>15. ASSUME NEW i \in Inodes \cup {Absent}, Rename(i) PROVE Collected' BY <1>15 DEF
    Rename
<1>16. CASE UNCHANGED readerVars BY <1>16 DEF readerVars
<1> QED
  BY <1>1, <1>2, <1>3, <1>4, <1>5, <1>6, <1>7, <1>8, <1>9, <1>10, <1>11, <1>12, <1>13,
     <1>14, <1>15, <1>16 DEF ReaderNext

\* The commands end only after their comparisons.
LEMMA ComparedStep == ReaderTypeOK /\ Compared /\ [ReaderNext]_readerVars => Compared'
<1> SUFFICES ASSUME ReaderTypeOK, Compared, [ReaderNext]_readerVars PROVE Compared'
  OBVIOUS
<1> USE DEF ReaderTypeOK, Compared, Expecting, Ops, command,
    passes, disk
<1>1. CASE OpenArchive BY <1>1 DEF OpenArchive
<1>2. CASE Hash BY <1>2 DEF Hash
<1>3. CASE ReadDirectory BY <1>3 DEF ReadDirectory, Reads
<1>4. CASE Dispatch BY <1>4 DEF Dispatch
<1>5. CASE ReadManifest BY <1>5 DEF ReadManifest, Reads
<1>6. CASE ReadMember BY <1>6 DEF ReadMember, Reads
<1>7. CASE Rehash BY <1>7 DEF Rehash
<1>8. CASE Check BY <1>8 DEF Check
<1>9. CASE Serve BY <1>9 DEF Serve
<1>10. CASE Pin BY <1>10 DEF Pin
<1>11. CASE Copy BY <1>11 DEF Copy
<1>12. CASE Execute BY <1>12 DEF Execute
<1>13. CASE Refuse BY <1>13 DEF Refuse
<1>14. ASSUME NEW i \in Inodes, NEW r \in Regions, NEW b \in Bytes,
    Overwrite(i, r, b)
       PROVE  Compared'
  BY <1>14 DEF Overwrite
<1>15. ASSUME NEW i \in Inodes \cup {Absent}, Rename(i) PROVE Compared' BY <1>15 DEF
    Rename
<1>16. CASE UNCHANGED readerVars BY <1>16 DEF readerVars
<1> QED
  BY <1>1, <1>2, <1>3, <1>4, <1>5, <1>6, <1>7, <1>8, <1>9, <1>10, <1>11, <1>12, <1>13,
     <1>14, <1>15, <1>16 DEF ReaderNext

\* The inductive invariant holds in every reachable state.
THEOREM ReaderInvariance == ReaderSpec => []ReaderInv
<1>1. ReaderInit => ReaderInv
  BY ReaderInitially
<1>2. ReaderInv /\ [ReaderNext]_readerVars => ReaderInv'
  BY TypeStep, HandleStep, HistoryStep, OrderStep, FirstPassStep, SecondPassStep, UntornStep,
     CollectedStep, ComparedStep DEF ReaderInv
<1> QED BY <1>1, <1>2, PTL DEF ReaderSpec

\* Type correctness.
THEOREM ReaderTypes == ReaderSpec => []ReaderTypeOK
<1>1. ReaderInv => ReaderTypeOK
  BY DEF ReaderInv
<1> QED BY <1>1, ReaderInvariance, PTL

\* What load_archive_v1 returns are the bytes of the SHA-256 it returns.
THEOREM ReaderSnapshot == ReaderSpec => []V1Coherent
<1>1. ReaderInv => V1Coherent
  BY DEF ReaderInv, Collected, V1Coherent
<1> QED BY <1>1, ReaderInvariance, PTL

\* An untorn load of any version returns the bytes of its SHA-256, and
\* read-member hands out those the caller expects.
THEOREM AnchoredLoad == ReaderSpec => []Anchored
<1>1. ReaderInv => Anchored
  BY DEF ReaderInv, Collected, Compared, Anchored, Expecting, Loaded
<1> QED BY <1>1, ReaderInvariance, PTL

\* Native replay executes the archive of the expected SHA-256 only.
THEOREM AnchoredReplay == ReaderSpec => []MethodsAnchored
<1>1. ReaderInv => MethodsAnchored
  BY DEF ReaderInv, Compared, MethodsAnchored, Expecting
<1> QED BY <1>1, ReaderInvariance, PTL
=============================================================================
