------------------------ MODULE AtomicCreateProofs -------------------------
(***************************************************************************)
(* TargetComplete, TempsRemovedByOwner, OkIsDurable and the refinement of  *)
(* PublishOnce, proved for any number of processes, threads, calls and     *)
(* crashes.  The only hypothesis is SafeNaming: the V2 names carry no      *)
(* process id, so there the argument needs a single process.               *)
(***************************************************************************)
EXTENDS AtomicCreate, TLAPS

SafeNaming == Store = "V2" => \A u, v \in Writers : ProcOf[u] = ProcOf[v]

\* A thread between the creation of its temporary file and its return.
Holding(w) ==
  pc[w] \in {"write", "sync", "link", "unlink", "syncdir", "cleanup"}
InClosure(w) == pc[w] \in {"write", "sync", "link", "unlink"}

\* The inode of a call that has not created its file yet.
Fresh(i) ==
  \/ i[2] > calls[i[1]]
  \/ i[2] = calls[i[1]] /\ pc[i[1]] = "reserve"

\* A held name was numbered by its process before the current counter value.
HeldNumbers ==
  \A w \in Writers : Holding(w) =>
    \E k \in 0 .. MaxSeq : k < seq[ProcOf[w]] /\ temp[w] = TempName(ProcOf[w], k)

\* Two calls under way hold two names.
HeldDistinct ==
  \A u, v \in Writers : Holding(u) /\ Holding(v) /\ u # v => temp[u] # temp[v]

\* A held name stands for the holder's inode until its own removal of it.
HeldEntries ==
  \A w \in Writers :
    /\ InClosure(w) => temps[temp[w]] = Inode(w)
    /\ pc[w] = "syncdir" => temps[temp[w]] = NoFile
    /\ pc[w] = "cleanup" => temps[temp[w]] \in {Inode(w), NoFile}

\* The inode of a call under way has no other name.
OneName ==
  \A w \in Writers : Holding(w) =>
    \A n \in TempNames : temps[n] = Inode(w) => n = temp[w]

FreshUntouched ==
  \A i \in Inodes : Fresh(i) =>
    /\ data[i] = "absent" /\ outcome[i] = "pending"
    /\ i \notin synced /\ i \notin published
    /\ \A n \in TempNames : temps[n] # i /\ diskTemps[n] # i

\* What each step of a call may rely on.
ProgressOf(w) ==
  /\ pc[w] # "idle" => calls[w] > 0 /\ outcome[Inode(w)] = "pending"
  /\ pc[w] \in {"write", "sync", "link"} => Inode(w) \notin published
  /\ pc[w] = "write" => Inode(w) \notin synced
  /\ pc[w] \in {"sync", "link"} => data[Inode(w)] = "complete"
  /\ pc[w] = "link" => Inode(w) \in synced
  /\ pc[w] \in {"unlink", "syncdir"} => Inode(w) \in published
  /\ pc[w] = "cleanup" => (verdict[w] = "ok" <=> Inode(w) \in published)
  /\ pc[w] = "cleanup" /\ verdict[w] = "exists" => published # {}
  /\ pc[w] = "syncdir" => FlushesDirectory
  /\ pc[w] = "cleanup" /\ verdict[w] = "ok" =>
       /\ target = Inode(w) => diskTarget = Inode(w)
       /\ \A n \in TempNames : temps[n] # Inode(w) /\ diskTemps[n] # Inode(w)

Progress == \A w \in Writers : ProgressOf(w)

SyncedComplete == \A i \in synced : data[i] = "complete"
PublishedSynced == published \subseteq synced
TargetPublished == {target, diskTarget} \subseteq published \cup {NoFile}

Outcomes ==
  \A i \in Inodes :
    /\ outcome[i] \in {"ok", "dirty"} => i \in published
    /\ outcome[i] \in {"exists", "failed"} => i \notin published
    /\ outcome[i] = "exists" => published # {}

Inv ==
  /\ TypeOK
  /\ HeldNumbers
  /\ HeldDistinct
  /\ HeldEntries
  /\ OneName
  /\ FreshUntouched
  /\ Progress
  /\ SyncedComplete
  /\ PublishedSynced
  /\ TargetPublished
  /\ Outcomes
  /\ OkIsDurable

-----------------------------------------------------------------------------
(* Types.                                                                  *)

\* A thread under way names an inode of the model.
LEMMA InodeType ==
  ASSUME TypeOK, NEW w \in Writers, calls[w] > 0
  PROVE  Inode(w) \in Inodes
  BY ConstantsAssumption DEF TypeOK, Inode, Inodes

\* Every name a process can form is a temporary name.
LEMMA NameType ==
  ASSUME NEW p \in Procs, NEW k \in 0 .. MaxSeq
  PROVE  TempName(p, k) \in TempNames
  BY DEF TempName, TempNames

\* Resetting the locals of some threads keeps their types.
LEMMA ForgetType ==
  ASSUME TypeOK, NEW ws, Forget(ws)
  PROVE  /\ pc' \in [Writers -> {"idle", "reserve", "write", "sync", "link",
                               "unlink", "syncdir", "cleanup"}]
         /\ tries' \in [Writers -> 0 .. MaxTries]
         /\ temp' \in [Writers -> TempNames \cup {NoFile}]
         /\ verdict' \in [Writers -> {"ok", "exists", "failed"}]
  BY ConstantsAssumption DEF TypeOK, Forget

\* The initial state is well typed.
LEMMA TypeInit == Init => TypeOK
  BY ConstantsAssumption DEF Init, TypeOK

\* Every step keeps the types; the counter in a held name and the inode of
\* the call under way are bounded by HeldNumbers and Progress.
LEMMA TypeStep ==
  ASSUME TypeOK, HeldNumbers, Progress, [Next]_vars
  PROVE  TypeOK'
<1> USE ConstantsAssumption DEF TypeOK, thread, volatile, onDisk, content
<1>1. ASSUME NEW w \in Writers, Begin(w) PROVE TypeOK'
  BY <1>1 DEF Begin, Goto
<1>2. ASSUME NEW w \in Writers, ReserveFails(w) PROVE TypeOK'
  <2>1. ProcOf[w] \in Procs /\ Inode(w) \in Inodes
    BY <1>2, InodeType DEF ReserveFails, Progress, ProgressOf
  <2>2. seq' \in [Procs -> 0 .. MaxSeq]
    BY <1>2, <2>1 DEF ReserveFails
  <2>3. outcome' \in [Inodes -> {"pending", "ok", "dirty", "exists", "failed"}]
    BY <1>2, <2>1 DEF ReserveFails, Return
  <2>. QED
    BY <1>2, <2>2, <2>3, ForgetType DEF ReserveFails, Return
<1>3. ASSUME NEW w \in Writers, Reserve(w) PROVE TypeOK'
  <2>1. ProcOf[w] \in Procs
    OBVIOUS
  <2>2. TempName(ProcOf[w], seq[ProcOf[w]]) \in TempNames
    BY <2>1, NameType
  <2>3. Inode(w) \in Inodes
    BY <1>3, InodeType DEF Reserve, Progress, ProgressOf
  <2>. QED
    BY <1>3, <2>1, <2>2, <2>3 DEF Reserve
<1>4. ASSUME NEW w \in Writers, Write(w) PROVE TypeOK'
  BY <1>4 DEF Write, Goto, Leave
<1>5. ASSUME NEW w \in Writers, Sync(w) PROVE TypeOK'
  <2>1. Inode(w) \in Inodes
    BY <1>5, InodeType DEF Sync, Progress, ProgressOf
  <2>. QED
    BY <1>5, <2>1 DEF Sync, Goto, Leave
<1>6. ASSUME NEW w \in Writers, Link(w) PROVE TypeOK'
  <2>1. temp[w] \in TempNames
    BY <1>6, NameType DEF Link, HeldNumbers, Holding
  <2>. QED
    BY <1>6, <2>1 DEF Link, Goto, Leave
<1>7. ASSUME NEW w \in Writers, Unlink(w) PROVE TypeOK'
  BY <1>7, ForgetType DEF Unlink, Goto, Return
<1>8. ASSUME NEW w \in Writers, SyncDirectory(w) PROVE TypeOK'
  BY <1>8, ForgetType DEF SyncDirectory, Leave, Return
<1>9. ASSUME NEW w \in Writers, Cleanup(w) PROVE TypeOK'
  <2>1. verdict[w] \in {"ok", "exists", "failed"}
    OBVIOUS
  <2>. QED
    BY <1>9, <2>1, ForgetType DEF Cleanup, Return
<1>10. CASE RemoveTarget
  BY <1>10 DEF RemoveTarget
<1>11. CASE WriteBack
  BY <1>11 DEF WriteBack
<1>12. ASSUME NEW p \in Procs, Kill(p) PROVE TypeOK'
  BY <1>12, ForgetType DEF Kill
<1>13. CASE PowerLoss
  BY <1>13, ForgetType DEF PowerLoss
<1>14. CASE UNCHANGED vars
  BY <1>14 DEF vars
<1>. QED
  BY <1>1, <1>2, <1>3, <1>4, <1>5, <1>6, <1>7, <1>8, <1>9, <1>10, <1>11, <1>12,
     <1>13, <1>14 DEF Next, Step

-----------------------------------------------------------------------------
(* One lemma per action: it preserves Inv.                                 *)

\* Only Begin makes a call fresh: otherwise what is fresh after a step was
\* fresh before it.
LEMMA FreshMonotone ==
  ASSUME TypeOK, TypeOK', calls' = calls,
         \A w \in Writers : pc'[w] = "reserve" => pc[w] = "reserve",
         NEW i \in Inodes, Fresh(i)'
  PROVE  Fresh(i)
  BY DEF Fresh, Inodes

\* A thread past its reservation has created its inode.
LEMMA NotFresh ==
  ASSUME TypeOK, NEW w \in Writers, pc[w] # "reserve"
  PROVE  ~ Fresh(Inode(w))
  BY DEF Fresh, Inode, TypeOK

\* Equal names have equal numbers and, outside V2, equal processes.
LEMMA NameInjective ==
  ASSUME NEW p, NEW q, NEW j, NEW k, TempName(p, j) = TempName(q, k)
  PROVE  j = k /\ (Store # "V2" => p = q)
  BY DEF TempName

\* A new call starts with a fresh inode.
LEMMA BeginInv ==
  ASSUME Inv, SafeNaming, TypeOK', NEW w \in Writers, Begin(w)
  PROVE  Inv'
<1> USE ConstantsAssumption, NoFileAssumption
    DEF Inv, thread, volatile, onDisk, content, Begin, Goto
<1>1. HeldNumbers'
  BY DEF TypeOK, HeldNumbers, Holding
<1>2. HeldDistinct'
  BY DEF TypeOK, HeldDistinct, Holding
<1>3. HeldEntries'
  BY DEF TypeOK, HeldEntries, HeldDistinct, Holding, InClosure, Inode
<1>4. OneName'
  BY DEF TypeOK, OneName, HeldEntries, Holding, Inode
<1>5. FreshUntouched'
  <2> SUFFICES ASSUME NEW i \in Inodes, Fresh(i)'
               PROVE  Fresh(i)
    BY DEF FreshUntouched
  <2>1. i[1] \in Writers /\ i[2] \in Nat
    BY DEF Inodes
  <2>. QED
    BY <2>1 DEF Fresh, TypeOK
<1>6. Progress'
  <2> SUFFICES ASSUME NEW u \in Writers
               PROVE  ProgressOf(u)'
    BY DEF Progress
  <2>1. CASE u = w
    <3>1. Inode(w)' = <<w, calls[w] + 1>> /\ calls'[w] > 0 /\ pc'[w] = "reserve"
      BY DEF Inode, TypeOK
    <3>2. <<w, calls[w] + 1>> \in Inodes
      BY DEF Inodes, TypeOK
    <3>3. Fresh(<<w, calls[w] + 1>>)
      BY DEF Fresh, TypeOK
    <3>4. outcome'[Inode(w)'] = "pending"
      BY <3>1, <3>2, <3>3 DEF FreshUntouched
    <3>. QED
      BY <2>1, <3>1, <3>4 DEF ProgressOf
  <2>2. CASE u # w
    <3>1. Inode(u)' = Inode(u) /\ calls'[u] = calls[u] /\ pc'[u] = pc[u]
      BY <2>2 DEF Inode, TypeOK
    <3>. QED
      BY <3>1 DEF Progress, ProgressOf
  <2>. QED
    BY <2>1, <2>2
<1>7. SyncedComplete'
  BY DEF TypeOK, SyncedComplete
<1>8. PublishedSynced'
  BY DEF TypeOK, PublishedSynced
<1>9. TargetPublished'
  BY DEF TypeOK, TargetPublished
<1>10. Outcomes'
  BY DEF TypeOK, Outcomes
<1>11. OkIsDurable'
  BY DEF TypeOK, OkIsDurable
<1>. QED
  BY <1>1, <1>2, <1>3, <1>4, <1>5, <1>6, <1>7, <1>8, <1>9, <1>10, <1>11

\* A call that gets no temporary file returns an error and leaves no trace.
LEMMA ReserveFailsInv ==
  ASSUME Inv, SafeNaming, TypeOK', NEW w \in Writers, ReserveFails(w)
  PROVE  Inv'
<1> USE ConstantsAssumption, NoFileAssumption
    DEF Inv, thread, volatile, onDisk, content, ReserveFails, Return, Forget
<1>a. Inode(w) \in Inodes
  BY InodeType DEF Progress, ProgressOf
<1>b. \A u \in Writers : Inode(u)' = Inode(u)
  BY DEF Inode
<1>c. \A u \in Writers : u # w => Inode(u) # Inode(w)
  BY DEF Inode
<1>d. Fresh(Inode(w)) /\ Inode(w) \notin published
  BY <1>a DEF Fresh, Inode, FreshUntouched, TypeOK
<1>1. HeldNumbers'
  <2> SUFFICES ASSUME NEW u \in Writers, Holding(u)'
               PROVE  \E k \in 0 .. MaxSeq :
                        k < seq'[ProcOf[u]] /\ temp'[u] = TempName(ProcOf[u], k)
    BY DEF HeldNumbers
  <2>1. Holding(u) /\ temp'[u] = temp[u]
    BY DEF TypeOK, Holding
  <2>2. PICK k \in 0 .. MaxSeq : k < seq[ProcOf[u]] /\ temp[u] = TempName(ProcOf[u], k)
    BY <2>1 DEF HeldNumbers
  <2>3. k < seq'[ProcOf[u]]
    BY <2>2 DEF TypeOK
  <2>. QED
    BY <2>1, <2>2, <2>3
<1>2. HeldDistinct'
  BY <1>a, <1>b, <1>c DEF TypeOK, HeldDistinct, Holding
<1>3. HeldEntries'
  BY <1>a, <1>b, <1>c DEF TypeOK, HeldEntries, HeldDistinct, Holding, InClosure
<1>4. OneName'
  BY <1>a, <1>b, <1>c DEF TypeOK, OneName, HeldEntries, Holding
<1>5. FreshUntouched'
  <2> SUFFICES ASSUME NEW i \in Inodes, Fresh(i)'
               PROVE  /\ data'[i] = "absent" /\ outcome'[i] = "pending"
                      /\ i \notin synced' /\ i \notin published'
                      /\ \A n \in TempNames : temps'[n] # i /\ diskTemps'[n] # i
    BY DEF FreshUntouched
  <2>1. Fresh(i)
    BY FreshMonotone DEF TypeOK
  <2>2. i # Inode(w)
    BY DEF Fresh, Inode, TypeOK
  <2>. QED
    BY <2>1, <2>2 DEF FreshUntouched, TypeOK
<1>6. Progress'
  BY <1>a, <1>b, <1>c DEF TypeOK, Progress, ProgressOf
<1>7. SyncedComplete'
  BY <1>a, <1>b, <1>c DEF TypeOK, SyncedComplete
<1>8. PublishedSynced'
  BY <1>a, <1>b, <1>c DEF TypeOK, PublishedSynced
<1>9. TargetPublished'
  BY <1>a, <1>b, <1>c DEF TypeOK, TargetPublished
<1>10. Outcomes'
  BY <1>a, <1>d DEF TypeOK, Outcomes
<1>11. OkIsDurable'
  BY <1>a, <1>b, <1>c DEF TypeOK, OkIsDurable
<1>. QED
  BY <1>1, <1>2, <1>3, <1>4, <1>5, <1>6, <1>7, <1>8, <1>9, <1>10, <1>11

\* create_new gives the call a name no other call holds: numbers of one
\* process only grow, and names of two processes differ.
LEMMA ReserveInv ==
  ASSUME Inv, SafeNaming, TypeOK', NEW w \in Writers, Reserve(w)
  PROVE  Inv'
<1> USE ConstantsAssumption, NoFileAssumption
    DEF Inv, thread, volatile, onDisk, content, Reserve
<1>a. Inode(w) \in Inodes
  BY InodeType DEF Progress, ProgressOf
<1>b. \A u \in Writers : Inode(u)' = Inode(u)
  BY DEF Inode
<1>c. \A u \in Writers : u # w => Inode(u) # Inode(w)
  BY DEF Inode
<1> DEFINE p == ProcOf[w]
           name == TempName(p, seq[p])
<1>d. p \in Procs /\ name \in TempNames
  BY NameType DEF TypeOK
<1>e. Fresh(Inode(w)) /\ pc[w] = "reserve"
  BY DEF Fresh, Inode, TypeOK
<1>f. /\ data[Inode(w)] = "absent" /\ outcome[Inode(w)] = "pending"
      /\ Inode(w) \notin synced /\ Inode(w) \notin published
      /\ \A n \in TempNames : temps[n] # Inode(w) /\ diskTemps[n] # Inode(w)
  BY <1>a, <1>e DEF FreshUntouched
<1>g. ASSUME NEW u \in Writers, Holding(u)
      PROVE  u # w /\ temp[u] \in TempNames /\ temp[u] # name
  <2>1. u # w
    BY <1>g, <1>e DEF Holding
  <2>2. PICK k \in 0 .. MaxSeq : k < seq[ProcOf[u]] /\ temp[u] = TempName(ProcOf[u], k)
    BY <1>g DEF HeldNumbers
  <2>3. temp[u] \in TempNames
    BY <2>2, NameType
  <2>4. CASE ProcOf[u] = p
    <3>1. k # seq[p]
      BY <2>2, <2>4, <1>d DEF TypeOK
    <3>. QED
      BY <2>1, <2>2, <2>3, <3>1, NameInjective
  <2>5. CASE ProcOf[u] # p
    <3>1. Store # "V2"
      BY <2>5 DEF SafeNaming
    <3>. QED
      BY <2>1, <2>2, <2>3, <2>5, <3>1, NameInjective
  <2>. QED
    BY <2>1, <2>3, <2>4, <2>5
<1>h. CASE temps[name] # NoFile
  <2>1. /\ UNCHANGED <<pc, temp, verdict, calls, temps, target, diskTemps, diskTarget,
                       data, synced, outcome, published>>
        /\ seq' = [seq EXCEPT ![p] = @ + 1]
    BY <1>h
  <2>2. HeldNumbers'
    BY <2>1, <1>d DEF HeldNumbers, Holding, TypeOK
  <2>3. /\ HeldDistinct' /\ HeldEntries' /\ OneName' /\ FreshUntouched' /\ Progress'
        /\ SyncedComplete' /\ PublishedSynced' /\ TargetPublished' /\ Outcomes'
        /\ OkIsDurable'
    BY <2>1 DEF HeldDistinct, HeldEntries, OneName, FreshUntouched, Progress,
         ProgressOf, SyncedComplete, PublishedSynced, TargetPublished, Outcomes,
         OkIsDurable, Holding, InClosure, Fresh, Inode
  <2>. QED
    BY <2>2, <2>3
<1>i. CASE temps[name] = NoFile
  <2>1. /\ pc' = [pc EXCEPT ![w] = "write"] /\ temp' = [temp EXCEPT ![w] = name]
        /\ temps' = [temps EXCEPT ![name] = Inode(w)]
        /\ data' = [data EXCEPT ![Inode(w)] = "partial"]
        /\ seq' = [seq EXCEPT ![p] = @ + 1]
        /\ UNCHANGED <<calls, verdict, target, diskTemps, diskTarget, synced,
                       outcome, published>>
    BY <1>i
  <2>2. /\ Holding(w)' /\ temp'[w] = name /\ temps'[name] = Inode(w)
        /\ \A u \in Writers : u # w =>
             /\ pc'[u] = pc[u] /\ temp'[u] = temp[u] /\ verdict'[u] = verdict[u]
             /\ Holding(u)' <=> Holding(u)
             /\ InClosure(u)' <=> InClosure(u)
    BY <2>1, <1>d DEF TypeOK, Holding, InClosure
  <2>3. HeldNumbers'
    <3> SUFFICES ASSUME NEW u \in Writers, Holding(u)'
                 PROVE  \E k \in 0 .. MaxSeq :
                          k < seq'[ProcOf[u]] /\ temp'[u] = TempName(ProcOf[u], k)
      BY DEF HeldNumbers
    <3>1. CASE u = w
      BY <3>1, <2>1, <2>2, <1>d DEF TypeOK
    <3>2. CASE u # w
      <4>1. PICK k \in 0 .. MaxSeq : k < seq[ProcOf[u]] /\ temp[u] = TempName(ProcOf[u], k)
        BY <3>2, <2>2 DEF HeldNumbers
      <4>2. k < seq'[ProcOf[u]]
        BY <4>1, <2>1, <1>d DEF TypeOK
      <4>. QED
        BY <4>1, <4>2, <3>2, <2>2
    <3>. QED
      BY <3>1, <3>2
  <2>4. HeldDistinct'
    BY <2>2, <1>g DEF HeldDistinct
  <2>5. HeldEntries'
    <3> SUFFICES ASSUME NEW u \in Writers
                 PROVE  /\ InClosure(u)' => temps'[temp'[u]] = Inode(u)
                        /\ pc'[u] = "syncdir" => temps'[temp'[u]] = NoFile
                        /\ pc'[u] = "cleanup" => temps'[temp'[u]] \in {Inode(u), NoFile}
      BY <1>b DEF HeldEntries
    <3>1. CASE u = w
      BY <3>1, <2>1, <2>2 DEF TypeOK
    <3>2. CASE u # w
      <4>1. Holding(u) => temps'[temp'[u]] = temps[temp[u]]
        BY <3>2, <2>1, <2>2, <1>g DEF TypeOK
      <4>. QED
        BY <4>1, <3>2, <2>2 DEF HeldEntries, Holding, InClosure
    <3>. QED
      BY <3>1, <3>2
  <2>6. OneName'
    <3> SUFFICES ASSUME NEW u \in Writers, Holding(u)',
                        NEW n \in TempNames, temps'[n] = Inode(u)
                 PROVE  n = temp'[u]
      BY <1>b DEF OneName
    <3>1. CASE u = w
      BY <3>1, <2>1, <2>2, <1>f DEF TypeOK
    <3>2. CASE u # w
      <4>1. temps[n] = Inode(u)
        BY <3>2, <2>1, <1>c, <1>d DEF TypeOK
      <4>. QED
        BY <4>1, <3>2, <2>2 DEF OneName
    <3>. QED
      BY <3>1, <3>2
  <2>7. FreshUntouched'
    <3> SUFFICES ASSUME NEW i \in Inodes, Fresh(i)'
                 PROVE  Fresh(i) /\ i # Inode(w)
      BY <2>1, <1>d DEF FreshUntouched, TypeOK
    <3>1. Fresh(i)
      BY <2>1, FreshMonotone DEF TypeOK
    <3>2. i # Inode(w)
      BY <2>1 DEF Fresh, Inode, TypeOK
    <3>. QED
      BY <3>1, <3>2
  <2>8. Progress'
    <3> SUFFICES ASSUME NEW u \in Writers
                 PROVE  ProgressOf(u)'
      BY DEF Progress
    <3>1. CASE u = w
      BY <3>1, <2>1, <1>b, <1>f DEF Progress, ProgressOf, TypeOK
    <3>2. CASE u # w
      <4>1. \A n \in TempNames : temps[n] # Inode(u) => temps'[n] # Inode(u)
        BY <3>2, <2>1, <1>c, <1>d DEF TypeOK
      <4>2. data'[Inode(u)] = data[Inode(u)]
        BY <3>2, <2>1, <1>c DEF TypeOK
      <4>. QED
        BY <4>1, <4>2, <3>2, <2>1, <2>2, <1>b DEF Progress, ProgressOf
    <3>. QED
      BY <3>1, <3>2
  <2>9. SyncedComplete'
    BY <2>1, <1>f DEF SyncedComplete, TypeOK
  <2>10. PublishedSynced' /\ TargetPublished' /\ Outcomes'
    BY <2>1 DEF PublishedSynced, TargetPublished, Outcomes
  <2>11. OkIsDurable'
    <3>1. \A i \in Inodes, n \in TempNames :
            outcome[i] = "ok" /\ temps[n] # i => temps'[n] # i
      BY <2>1, <1>d, <1>f DEF TypeOK
    <3>. QED
      BY <3>1, <2>1 DEF OkIsDurable, FlushesDirectory
  <2>. QED
    BY <2>3, <2>4, <2>5, <2>6, <2>7, <2>8, <2>9, <2>10, <2>11
<1>. QED
  BY <1>h, <1>i

\* Writing changes the content of an unpublished inode only.
LEMMA WriteInv ==
  ASSUME Inv, SafeNaming, TypeOK', NEW w \in Writers, Write(w)
  PROVE  Inv'
<1> USE ConstantsAssumption, NoFileAssumption
    DEF Inv, thread, volatile, onDisk, content, Write, Goto, Leave
<1>a. Inode(w) \in Inodes
  BY InodeType DEF Progress, ProgressOf
<1>b. \A u \in Writers : Inode(u)' = Inode(u)
  BY DEF Inode
<1>c. \A u \in Writers : u # w => Inode(u) # Inode(w)
  BY DEF Inode
<1>1. HeldNumbers'
  BY <1>a, <1>b, <1>c DEF TypeOK, HeldNumbers, Holding
<1>2. HeldDistinct'
  BY <1>a, <1>b, <1>c DEF TypeOK, HeldDistinct, Holding
<1>3. HeldEntries'
  BY <1>a, <1>b, <1>c DEF TypeOK, HeldEntries, HeldDistinct, Holding, InClosure
<1>4. OneName'
  BY <1>a, <1>b, <1>c DEF TypeOK, OneName, HeldEntries, Holding
<1>5. FreshUntouched'
  <2> SUFFICES ASSUME NEW i \in Inodes, Fresh(i)'
               PROVE  /\ data'[i] = "absent" /\ outcome'[i] = "pending"
                      /\ i \notin synced' /\ i \notin published'
                      /\ \A n \in TempNames : temps'[n] # i /\ diskTemps'[n] # i
    BY DEF FreshUntouched
  <2>1. Fresh(i)
    BY FreshMonotone DEF TypeOK
  <2>2. i # Inode(w)
    BY <2>1, NotFresh
  <2>. QED
    BY <2>1, <2>2, <1>a DEF FreshUntouched, TypeOK
<1>6. Progress'
  <2> SUFFICES ASSUME NEW u \in Writers
               PROVE  ProgressOf(u)'
    BY DEF Progress
  <2>1. CASE u = w
    BY <2>1, <1>a, <1>b DEF Progress, ProgressOf, TypeOK
  <2>2. CASE u # w
    <3>1. pc'[u] = pc[u] /\ verdict'[u] = verdict[u]
      BY <2>2 DEF TypeOK
    <3>2. pc[u] # "idle" => Inode(u) \in Inodes
      BY InodeType DEF Progress, ProgressOf
    <3>3. pc[u] # "idle" => data'[Inode(u)] = data[Inode(u)]
      BY <3>2, <2>2, <1>c DEF TypeOK
    <3>. QED
      BY <3>1, <3>3, <1>b DEF Progress, ProgressOf
  <2>. QED
    BY <2>1, <2>2
<1>7. SyncedComplete'
  BY <1>a, <1>b, <1>c DEF TypeOK, SyncedComplete
<1>8. PublishedSynced'
  BY <1>a, <1>b, <1>c DEF TypeOK, PublishedSynced
<1>9. TargetPublished'
  BY <1>a, <1>b, <1>c DEF TypeOK, TargetPublished
<1>10. Outcomes'
  BY <1>a, <1>b, <1>c DEF TypeOK, Outcomes
<1>11. OkIsDurable'
  BY <1>a, <1>b, <1>c DEF TypeOK, OkIsDurable
<1>. QED
  BY <1>1, <1>2, <1>3, <1>4, <1>5, <1>6, <1>7, <1>8, <1>9, <1>10, <1>11

\* What is flushed is complete.
LEMMA SyncInv ==
  ASSUME Inv, SafeNaming, TypeOK', NEW w \in Writers, Sync(w)
  PROVE  Inv'
<1> USE ConstantsAssumption, NoFileAssumption
    DEF Inv, thread, volatile, onDisk, content, Sync, Goto, Leave
<1>a. Inode(w) \in Inodes
  BY InodeType DEF Progress, ProgressOf
<1>b. \A u \in Writers : Inode(u)' = Inode(u)
  BY DEF Inode
<1>c. \A u \in Writers : u # w => Inode(u) # Inode(w)
  BY DEF Inode
<1>1. HeldNumbers'
  BY <1>a, <1>b, <1>c DEF TypeOK, HeldNumbers, Holding
<1>2. HeldDistinct'
  BY <1>a, <1>b, <1>c DEF TypeOK, HeldDistinct, Holding
<1>3. HeldEntries'
  <2>1. \A u \in Writers : u # w => pc'[u] = pc[u]
    BY DEF TypeOK
  <2>2. InClosure(w) /\ pc'[w] \in {"link", "cleanup"}
    BY DEF InClosure, TypeOK
  <2>. QED
    BY <2>1, <2>2, <1>b DEF HeldEntries, InClosure
<1>4. OneName'
  BY <1>a, <1>b, <1>c DEF TypeOK, OneName, HeldEntries, Holding
<1>5. FreshUntouched'
  <2> SUFFICES ASSUME NEW i \in Inodes, Fresh(i)'
               PROVE  /\ data'[i] = "absent" /\ outcome'[i] = "pending"
                      /\ i \notin synced' /\ i \notin published'
                      /\ \A n \in TempNames : temps'[n] # i /\ diskTemps'[n] # i
    BY DEF FreshUntouched
  <2>1. Fresh(i)
    BY FreshMonotone DEF TypeOK
  <2>2. i # Inode(w)
    BY <2>1, NotFresh
  <2>. QED
    BY <2>1, <2>2, <1>a DEF FreshUntouched, TypeOK
<1>6. Progress'
  BY <1>a, <1>b, <1>c DEF TypeOK, Progress, ProgressOf
<1>7. SyncedComplete'
  <2>1. data[Inode(w)] = "complete"
    BY DEF Progress, ProgressOf
  <2>. QED
    BY <2>1 DEF SyncedComplete
<1>8. PublishedSynced'
  BY <1>a, <1>b, <1>c DEF TypeOK, PublishedSynced
<1>9. TargetPublished'
  BY <1>a, <1>b, <1>c DEF TypeOK, TargetPublished
<1>10. Outcomes'
  BY <1>a, <1>b, <1>c DEF TypeOK, Outcomes
<1>11. OkIsDurable'
  BY <1>a, <1>b, <1>c DEF TypeOK, OkIsDurable
<1>. QED
  BY <1>1, <1>2, <1>3, <1>4, <1>5, <1>6, <1>7, <1>8, <1>9, <1>10, <1>11

\* The name that is linked still stands for the call's own flushed inode.
LEMMA LinkInv ==
  ASSUME Inv, SafeNaming, TypeOK', NEW w \in Writers, Link(w)
  PROVE  Inv'
<1> USE ConstantsAssumption, NoFileAssumption
    DEF Inv, thread, volatile, onDisk, content, Link, Goto, Leave
<1>a. Inode(w) \in Inodes
  BY InodeType DEF Progress, ProgressOf
<1>b. \A u \in Writers : Inode(u)' = Inode(u)
  BY DEF Inode
<1>c. \A u \in Writers : u # w => Inode(u) # Inode(w)
  BY DEF Inode
<1>d. /\ temps[temp[w]] = Inode(w)
      /\ Inode(w) \in synced /\ Inode(w) \notin published
      /\ data[Inode(w)] = "complete" /\ outcome[Inode(w)] = "pending"
  BY DEF HeldEntries, InClosure, Progress, ProgressOf
<1>e. /\ published' \in {published, published \cup {Inode(w)}}
      /\ pc' = [pc EXCEPT ![w] = "unlink"] \/ pc' = [pc EXCEPT ![w] = "cleanup"]
      /\ pc'[w] = "unlink" => published' = published \cup {Inode(w)} /\ target' = Inode(w)
      /\ pc'[w] = "cleanup" => published' = published /\ target' = target
      /\ pc'[w] = "cleanup" => verdict'[w] \in {"exists", "failed"}
      /\ pc'[w] = "cleanup" /\ verdict'[w] = "exists" => target # NoFile
      /\ \A u \in Writers : u # w => pc'[u] = pc[u] /\ verdict'[u] = verdict[u]
  BY <1>d DEF TypeOK
<1>f. pc'[w] \in {"unlink", "cleanup"}
  BY <1>e DEF TypeOK
<1>1. HeldNumbers'
  BY <1>a, <1>b, <1>c DEF TypeOK, HeldNumbers, Holding
<1>2. HeldDistinct'
  BY <1>a, <1>b, <1>c DEF TypeOK, HeldDistinct, Holding
<1>3. HeldEntries'
  BY <1>b, <1>d, <1>e, <1>f DEF HeldEntries, InClosure
<1>4. OneName'
  BY <1>a, <1>b, <1>c DEF TypeOK, OneName, HeldEntries, Holding
<1>5. FreshUntouched'
  <2> SUFFICES ASSUME NEW i \in Inodes, Fresh(i)'
               PROVE  Fresh(i) /\ i # Inode(w)
    BY <1>e DEF FreshUntouched
  <2>1. Fresh(i)
    BY <1>e, <1>f, FreshMonotone DEF TypeOK
  <2>2. i # Inode(w)
    BY <2>1, NotFresh
  <2>. QED
    BY <2>1, <2>2
<1>6. Progress'
  <2> SUFFICES ASSUME NEW u \in Writers
               PROVE  ProgressOf(u)'
    BY DEF Progress
  <2>1. CASE u = w
    BY <2>1, <1>b, <1>d, <1>e, <1>f DEF Progress, ProgressOf, TargetPublished
  <2>2. CASE u # w
    <3>1. Inode(u) \in published' <=> Inode(u) \in published
      BY <2>2, <1>c, <1>e
    <3>2. target' = Inode(u) => target = Inode(u)
      BY <2>2, <1>c, <1>e, <1>f
    <3>. QED
      BY <3>1, <3>2, <2>2, <1>b, <1>e DEF Progress, ProgressOf
  <2>. QED
    BY <2>1, <2>2
<1>7. SyncedComplete'
  BY <1>a, <1>b, <1>c DEF TypeOK, SyncedComplete
<1>8. PublishedSynced'
  BY <1>d, <1>e DEF PublishedSynced
<1>9. TargetPublished'
  BY <1>a, <1>b, <1>c DEF TypeOK, TargetPublished
<1>10. Outcomes'
  BY <1>a, <1>d, <1>e DEF Outcomes
<1>11. OkIsDurable'
  BY <1>d, <1>e, <1>f DEF OkIsDurable, FlushesDirectory
<1>. QED
  BY <1>1, <1>2, <1>3, <1>4, <1>5, <1>6, <1>7, <1>8, <1>9, <1>10, <1>11

\* The removal after the publication hits the call's own entry.
LEMMA UnlinkInv ==
  ASSUME Inv, SafeNaming, TypeOK', NEW w \in Writers, Unlink(w)
  PROVE  Inv'
<1> USE ConstantsAssumption, NoFileAssumption
    DEF Inv, thread, volatile, onDisk, content, Unlink, Goto, Return, Forget
<1>a. Inode(w) \in Inodes
  BY InodeType DEF Progress, ProgressOf
<1>b. \A u \in Writers : Inode(u)' = Inode(u)
  BY DEF Inode
<1>c. \A u \in Writers : u # w => Inode(u) # Inode(w)
  BY DEF Inode
<1>d. /\ temps[temp[w]] = Inode(w) /\ Inode(w) \in published
      /\ outcome[Inode(w)] = "pending" /\ temp[w] \in TempNames
  BY NameType DEF HeldEntries, InClosure, Progress, ProgressOf, HeldNumbers, Holding, TypeOK
<1>e. /\ pc'[w] \in {"syncdir", "idle"}
      /\ pc'[w] = "syncdir" =>
           FlushesDirectory /\ temps'[temp[w]] = NoFile /\ temp'[w] = temp[w]
      /\ \A u \in Writers : u # w =>
           pc'[u] = pc[u] /\ verdict'[u] = verdict[u] /\ temp'[u] = temp[u]
      /\ temps' = temps \/ temps' = [temps EXCEPT ![temp[w]] = NoFile]
      /\ outcome' = outcome \/ outcome' = [outcome EXCEPT ![Inode(w)] = "ok"]
           \/ outcome' = [outcome EXCEPT ![Inode(w)] = "dirty"]
  BY <1>d DEF TypeOK
<1>1. HeldNumbers'
  BY <1>a, <1>b, <1>c DEF TypeOK, HeldNumbers, Holding
<1>2. HeldDistinct'
  BY <1>a, <1>b, <1>c DEF TypeOK, HeldDistinct, Holding
<1>3. HeldEntries'
  <2>1. ASSUME NEW u \in Writers, u # w, Holding(u)
        PROVE  temps'[temp'[u]] = temps[temp[u]]
    <3>1. temp[u] \in TempNames
      BY <2>1, NameType DEF HeldNumbers, TypeOK
    <3>2. temp[u] # temp[w]
      BY <2>1 DEF HeldDistinct, Holding
    <3>. QED
      BY <2>1, <3>1, <3>2, <1>d, <1>e DEF TypeOK
  <2>. QED
    BY <2>1, <1>b, <1>d, <1>e DEF HeldEntries, Holding, InClosure
<1>4. OneName'
  <2>1. \A n \in TempNames, u \in Writers :
          calls[u] > 0 /\ temps'[n] = Inode(u) => temps[n] = Inode(u)
    BY <1>d, <1>e, InodeType DEF TypeOK
  <2>2. \A u \in Writers : Holding(u)' => Holding(u) /\ temp'[u] = temp[u] /\ calls[u] > 0
    BY <1>e DEF Holding, Progress, ProgressOf
  <2>. QED
    BY <2>1, <2>2, <1>b DEF OneName
<1>5. FreshUntouched'
  <2> SUFFICES ASSUME NEW i \in Inodes, Fresh(i)'
               PROVE  /\ data'[i] = "absent" /\ outcome'[i] = "pending"
                      /\ i \notin synced' /\ i \notin published'
                      /\ \A n \in TempNames : temps'[n] # i /\ diskTemps'[n] # i
    BY DEF FreshUntouched
  <2>1. Fresh(i)
    BY FreshMonotone DEF TypeOK
  <2>2. i # Inode(w)
    BY <2>1, NotFresh
  <2>. QED
    BY <2>1, <2>2, <1>a DEF FreshUntouched, TypeOK
<1>6. Progress'
  <2> SUFFICES ASSUME NEW u \in Writers
               PROVE  ProgressOf(u)'
    BY DEF Progress
  <2>1. CASE u = w
    BY <2>1, <1>a, <1>b, <1>d, <1>e DEF Progress, ProgressOf, TypeOK
  <2>2. CASE u # w
    <3>1. pc[u] # "idle" => Inode(u) \in Inodes
      BY InodeType DEF Progress, ProgressOf
    <3>2. pc[u] # "idle" => outcome'[Inode(u)] = outcome[Inode(u)]
      BY <3>1, <2>2, <1>a, <1>c, <1>e DEF TypeOK
    <3>3. calls[u] > 0 => \A n \in TempNames : temps[n] # Inode(u) => temps'[n] # Inode(u)
      BY <1>d, <1>e, InodeType DEF TypeOK
    <3>. QED
      BY <3>3, <3>2, <2>2, <1>b, <1>e DEF Progress, ProgressOf
  <2>. QED
    BY <2>1, <2>2
<1>7. SyncedComplete'
  BY <1>a, <1>b, <1>c DEF TypeOK, SyncedComplete
<1>8. PublishedSynced'
  BY <1>a, <1>b, <1>c DEF TypeOK, PublishedSynced
<1>9. TargetPublished'
  BY <1>a, <1>b, <1>c DEF TypeOK, TargetPublished
<1>10. Outcomes'
  BY <1>a, <1>d, <1>e DEF Outcomes, TypeOK
<1>11. OkIsDurable'
  BY <1>a, <1>b, <1>c DEF TypeOK, OkIsDurable
<1>. QED
  BY <1>1, <1>2, <1>3, <1>4, <1>5, <1>6, <1>7, <1>8, <1>9, <1>10, <1>11

\* The flushed directory holds the target as it is and not the temporary.
LEMMA SyncDirectoryInv ==
  ASSUME Inv, SafeNaming, TypeOK', NEW w \in Writers, SyncDirectory(w)
  PROVE  Inv'
<1> USE ConstantsAssumption, NoFileAssumption
    DEF Inv, thread, volatile, onDisk, content, SyncDirectory, Leave, Return, Forget
<1>a. Inode(w) \in Inodes
  BY InodeType DEF Progress, ProgressOf
<1>b. \A u \in Writers : Inode(u)' = Inode(u)
  BY DEF Inode
<1>c. \A u \in Writers : u # w => Inode(u) # Inode(w)
  BY DEF Inode
<1>d. /\ temps[temp[w]] = NoFile /\ Inode(w) \in published
      /\ outcome[Inode(w)] = "pending"
      /\ \A n \in TempNames : temps[n] # Inode(w)
  BY <1>a DEF HeldEntries, Progress, ProgressOf, OneName, Holding
<1>e. /\ \A u \in Writers : u # w =>
           pc'[u] = pc[u] /\ verdict'[u] = verdict[u] /\ temp'[u] = temp[u]
      /\ \/ /\ pc'[w] = "cleanup" /\ verdict'[w] = "ok" /\ outcome' = outcome
            /\ diskTemps' = temps /\ diskTarget' = target
         \/ /\ pc'[w] = "idle" /\ outcome' = [outcome EXCEPT ![Inode(w)] = "dirty"]
            /\ diskTemps' = diskTemps /\ diskTarget' = diskTarget
  BY <1>d DEF TypeOK
<1>1. HeldNumbers'
  BY <1>a, <1>b, <1>c DEF TypeOK, HeldNumbers, Holding
<1>2. HeldDistinct'
  BY <1>a, <1>b, <1>c DEF TypeOK, HeldDistinct, Holding
<1>3. HeldEntries'
  BY <1>a, <1>b, <1>c DEF TypeOK, HeldEntries, HeldDistinct, Holding, InClosure
<1>4. OneName'
  BY <1>a, <1>b, <1>c DEF TypeOK, OneName, HeldEntries, Holding
<1>5. FreshUntouched'
  <2> SUFFICES ASSUME NEW i \in Inodes, Fresh(i)'
               PROVE  /\ data'[i] = "absent" /\ outcome'[i] = "pending"
                      /\ i \notin synced' /\ i \notin published'
                      /\ \A n \in TempNames : temps'[n] # i /\ diskTemps'[n] # i
    BY DEF FreshUntouched
  <2>1. Fresh(i)
    BY FreshMonotone DEF TypeOK
  <2>2. i # Inode(w)
    BY <2>1, NotFresh
  <2>. QED
    BY <2>1, <2>2, <1>a DEF FreshUntouched, TypeOK
<1>6. Progress'
  <2> SUFFICES ASSUME NEW u \in Writers
               PROVE  ProgressOf(u)'
    BY DEF Progress
  <2>1. CASE u = w
    BY <2>1, <1>b, <1>d, <1>e DEF Progress, ProgressOf, TypeOK
  <2>2. CASE u # w
    <3>1. pc[u] # "idle" => Inode(u) \in Inodes
      BY InodeType DEF Progress, ProgressOf
    <3>2. pc[u] # "idle" => outcome'[Inode(u)] = outcome[Inode(u)]
      BY <3>1, <2>2, <1>a, <1>c, <1>e DEF TypeOK
    <3>. QED
      BY <3>2, <2>2, <1>b, <1>e DEF Progress, ProgressOf
  <2>. QED
    BY <2>1, <2>2
<1>7. SyncedComplete'
  BY <1>a, <1>b, <1>c DEF TypeOK, SyncedComplete
<1>8. PublishedSynced'
  BY <1>a, <1>b, <1>c DEF TypeOK, PublishedSynced
<1>9. TargetPublished'
  BY <1>a, <1>b, <1>c DEF TypeOK, TargetPublished
<1>10. Outcomes'
  BY <1>a, <1>d, <1>e DEF Outcomes, TypeOK
<1>11. OkIsDurable'
  BY <1>a, <1>b, <1>c DEF TypeOK, OkIsDurable
<1>. QED
  BY <1>1, <1>2, <1>3, <1>4, <1>5, <1>6, <1>7, <1>8, <1>9, <1>10, <1>11

\* The removal after the closure hits the call's own entry or nothing.
LEMMA CleanupInv ==
  ASSUME Inv, SafeNaming, TypeOK', NEW w \in Writers, Cleanup(w)
  PROVE  Inv'
<1> USE ConstantsAssumption, NoFileAssumption
    DEF Inv, thread, volatile, onDisk, content, Cleanup, Return, Forget
<1>a. Inode(w) \in Inodes
  BY InodeType DEF Progress, ProgressOf
<1>b. \A u \in Writers : Inode(u)' = Inode(u)
  BY DEF Inode
<1>c. \A u \in Writers : u # w => Inode(u) # Inode(w)
  BY DEF Inode
<1>d. /\ temps[temp[w]] \in {Inode(w), NoFile} /\ temp[w] \in TempNames
      /\ verdict[w] \in {"ok", "exists", "failed"}
      /\ outcome[Inode(w)] = "pending"
  BY NameType DEF HeldEntries, Progress, ProgressOf, HeldNumbers, Holding, TypeOK
<1>e. /\ pc'[w] = "idle"
      /\ \A u \in Writers : u # w =>
           pc'[u] = pc[u] /\ verdict'[u] = verdict[u] /\ temp'[u] = temp[u]
      /\ temps' = temps \/ temps' = [temps EXCEPT ![temp[w]] = NoFile]
      /\ outcome' = [outcome EXCEPT ![Inode(w)] = verdict[w]]
  BY <1>d DEF TypeOK
<1>1. HeldNumbers'
  BY <1>a, <1>b, <1>c DEF TypeOK, HeldNumbers, Holding
<1>2. HeldDistinct'
  BY <1>a, <1>b, <1>c DEF TypeOK, HeldDistinct, Holding
<1>3. HeldEntries'
  <2>1. ASSUME NEW u \in Writers, u # w, Holding(u)
        PROVE  temps'[temp'[u]] = temps[temp[u]]
    <3>1. temp[u] \in TempNames
      BY <2>1, NameType DEF HeldNumbers, TypeOK
    <3>2. temp[u] # temp[w]
      BY <2>1 DEF HeldDistinct, Holding
    <3>. QED
      BY <2>1, <3>1, <3>2, <1>d, <1>e DEF TypeOK
  <2>. QED
    BY <2>1, <1>b, <1>d, <1>e DEF HeldEntries, Holding, InClosure
<1>4. OneName'
  <2>1. \A n \in TempNames, u \in Writers :
          calls[u] > 0 /\ temps'[n] = Inode(u) => temps[n] = Inode(u)
    BY <1>d, <1>e, InodeType DEF TypeOK
  <2>2. \A u \in Writers : Holding(u)' => Holding(u) /\ temp'[u] = temp[u] /\ calls[u] > 0
    BY <1>e DEF Holding, Progress, ProgressOf
  <2>. QED
    BY <2>1, <2>2, <1>b DEF OneName
<1>5. FreshUntouched'
  <2> SUFFICES ASSUME NEW i \in Inodes, Fresh(i)'
               PROVE  /\ data'[i] = "absent" /\ outcome'[i] = "pending"
                      /\ i \notin synced' /\ i \notin published'
                      /\ \A n \in TempNames : temps'[n] # i /\ diskTemps'[n] # i
    BY DEF FreshUntouched
  <2>1. Fresh(i)
    BY FreshMonotone DEF TypeOK
  <2>2. i # Inode(w)
    BY <2>1, NotFresh
  <2>. QED
    BY <2>1, <2>2, <1>a DEF FreshUntouched, TypeOK
<1>6. Progress'
  BY <1>a, <1>b, <1>c DEF TypeOK, Progress, ProgressOf
<1>7. SyncedComplete'
  BY <1>a, <1>b, <1>c DEF TypeOK, SyncedComplete
<1>8. PublishedSynced'
  BY <1>a, <1>b, <1>c DEF TypeOK, PublishedSynced
<1>9. TargetPublished'
  BY <1>a, <1>b, <1>c DEF TypeOK, TargetPublished
<1>10. Outcomes'
  BY <1>a, <1>d, <1>e DEF Outcomes, Progress, ProgressOf, TypeOK
<1>11. OkIsDurable'
  <2>1. \A i \in Inodes, n \in TempNames : temps[n] # i => temps'[n] # i
    BY <1>d, <1>e DEF TypeOK
  <2>2. verdict[w] = "ok" =>
          /\ target = Inode(w) => diskTarget = Inode(w)
          /\ \A n \in TempNames : temps[n] # Inode(w) /\ diskTemps[n] # Inode(w)
    BY DEF Progress, ProgressOf
  <2>. QED
    BY <2>1, <2>2, <1>a, <1>e DEF OkIsDurable, FlushesDirectory, TypeOK
<1>. QED
  BY <1>1, <1>2, <1>3, <1>4, <1>5, <1>6, <1>7, <1>8, <1>9, <1>10, <1>11

\* The owner of the directory may delete the target at any time.
LEMMA RemoveTargetInv ==
  ASSUME Inv, SafeNaming, TypeOK', RemoveTarget
  PROVE  Inv'
<1> USE ConstantsAssumption, NoFileAssumption
    DEF Inv, thread, volatile, onDisk, content, RemoveTarget
<1>1. HeldNumbers'
  BY DEF TypeOK, HeldNumbers, Holding
<1>2. HeldDistinct'
  BY DEF TypeOK, HeldDistinct, Holding
<1>3. HeldEntries'
  BY DEF TypeOK, HeldEntries, HeldDistinct, Holding, InClosure, Inode
<1>4. OneName'
  BY DEF TypeOK, OneName, HeldEntries, Holding, Inode
<1>5. FreshUntouched'
  BY DEF TypeOK, FreshUntouched, Fresh, Inode
<1>6. Progress'
  BY DEF TypeOK, Progress, ProgressOf, Inode
<1>7. SyncedComplete'
  BY DEF TypeOK, SyncedComplete
<1>8. PublishedSynced'
  BY DEF TypeOK, PublishedSynced
<1>9. TargetPublished'
  BY DEF TypeOK, TargetPublished
<1>10. Outcomes'
  BY DEF TypeOK, Outcomes
<1>11. OkIsDurable'
  BY DEF TypeOK, OkIsDurable
<1>. QED
  BY <1>1, <1>2, <1>3, <1>4, <1>5, <1>6, <1>7, <1>8, <1>9, <1>10, <1>11

\* Early write-back never makes an unflushed inode durable at the target.
LEMMA WriteBackInv ==
  ASSUME Inv, SafeNaming, TypeOK', WriteBack
  PROVE  Inv'
<1> USE ConstantsAssumption, NoFileAssumption
    DEF Inv, thread, volatile, onDisk, content, WriteBack
<1>1. HeldNumbers'
  BY DEF TypeOK, HeldNumbers, Holding
<1>2. HeldDistinct'
  BY DEF TypeOK, HeldDistinct, Holding
<1>3. HeldEntries'
  BY DEF TypeOK, HeldEntries, HeldDistinct, Holding, InClosure, Inode
<1>4. OneName'
  BY DEF TypeOK, OneName, HeldEntries, Holding, Inode
<1>5. FreshUntouched'
  BY DEF TypeOK, FreshUntouched, Fresh, Inode
<1>6. Progress'
  BY DEF TypeOK, Progress, ProgressOf, Inode
<1>7. SyncedComplete'
  BY DEF TypeOK, SyncedComplete
<1>8. PublishedSynced'
  BY DEF TypeOK, PublishedSynced
<1>9. TargetPublished'
  BY DEF TypeOK, TargetPublished
<1>10. Outcomes'
  BY DEF TypeOK, Outcomes
<1>11. OkIsDurable'
  BY DEF TypeOK, OkIsDurable
<1>. QED
  BY <1>1, <1>2, <1>3, <1>4, <1>5, <1>6, <1>7, <1>8, <1>9, <1>10, <1>11

\* The successor of a killed process may reuse its numbers: no live thread
\* holds one of them.
LEMMA KillInv ==
  ASSUME Inv, SafeNaming, TypeOK', NEW p \in Procs, Kill(p)
  PROVE  Inv'
<1> USE ConstantsAssumption, NoFileAssumption
    DEF Inv, thread, volatile, onDisk, content, Kill, Forget
<1>1. HeldNumbers'
  BY DEF TypeOK, HeldNumbers, Holding
<1>2. HeldDistinct'
  BY DEF TypeOK, HeldDistinct, Holding
<1>3. HeldEntries'
  BY DEF TypeOK, HeldEntries, HeldDistinct, Holding, InClosure, Inode
<1>4. OneName'
  BY DEF TypeOK, OneName, HeldEntries, Holding, Inode
<1>5. FreshUntouched'
  <2> SUFFICES ASSUME NEW i \in Inodes, Fresh(i)'
               PROVE  Fresh(i)
    BY DEF FreshUntouched, TypeOK
  <2>. QED
    BY FreshMonotone DEF TypeOK
<1>6. Progress'
  BY DEF TypeOK, Progress, ProgressOf, Inode
<1>7. SyncedComplete'
  BY DEF TypeOK, SyncedComplete
<1>8. PublishedSynced'
  BY DEF TypeOK, PublishedSynced
<1>9. TargetPublished'
  BY DEF TypeOK, TargetPublished
<1>10. Outcomes'
  BY DEF TypeOK, Outcomes
<1>11. OkIsDurable'
  BY DEF TypeOK, OkIsDurable
<1>. QED
  BY <1>1, <1>2, <1>3, <1>4, <1>5, <1>6, <1>7, <1>8, <1>9, <1>10, <1>11

\* A power failure tears only inodes that were never published.
LEMMA PowerLossInv ==
  ASSUME Inv, SafeNaming, TypeOK', PowerLoss
  PROVE  Inv'
<1> USE ConstantsAssumption, NoFileAssumption
    DEF Inv, thread, volatile, onDisk, content, PowerLoss, Forget
<1>1. HeldNumbers'
  BY DEF TypeOK, HeldNumbers, Holding
<1>2. HeldDistinct'
  BY DEF TypeOK, HeldDistinct, Holding
<1>3. HeldEntries'
  BY DEF TypeOK, HeldEntries, HeldDistinct, Holding, InClosure, Inode
<1>4. OneName'
  BY DEF TypeOK, OneName, HeldEntries, Holding, Inode
<1>5. FreshUntouched'
  <2> SUFFICES ASSUME NEW i \in Inodes, Fresh(i)'
               PROVE  Fresh(i)
    BY DEF FreshUntouched, TypeOK
  <2>. QED
    BY FreshMonotone DEF TypeOK
<1>6. Progress'
  BY DEF TypeOK, Progress, ProgressOf, Inode
<1>7. SyncedComplete'
  BY DEF TypeOK, SyncedComplete
<1>8. PublishedSynced'
  BY DEF TypeOK, PublishedSynced
<1>9. TargetPublished'
  BY DEF TypeOK, TargetPublished
<1>10. Outcomes'
  BY DEF TypeOK, Outcomes
<1>11. OkIsDurable'
  BY DEF TypeOK, OkIsDurable
<1>. QED
  BY <1>1, <1>2, <1>3, <1>4, <1>5, <1>6, <1>7, <1>8, <1>9, <1>10, <1>11

-----------------------------------------------------------------------------
(* The theorems.                                                           *)

\* The initial state satisfies the inductive invariant.
LEMMA InvInit == Init => Inv
<1> SUFFICES ASSUME Init PROVE Inv
  OBVIOUS
<1> USE ConstantsAssumption, NoFileAssumption DEF Init
<1>1. TypeOK
  BY TypeInit
<1>2. HeldNumbers /\ HeldDistinct /\ HeldEntries /\ OneName
  BY DEF HeldNumbers, HeldDistinct, HeldEntries, OneName, Holding, InClosure
<1>3. FreshUntouched
  BY DEF FreshUntouched
<1>4. Progress
  BY DEF Progress, ProgressOf
<1>5. SyncedComplete /\ PublishedSynced /\ TargetPublished /\ Outcomes /\ OkIsDurable
  BY DEF SyncedComplete, PublishedSynced, TargetPublished, Outcomes, OkIsDurable
<1>. QED
  BY <1>1, <1>2, <1>3, <1>4, <1>5 DEF Inv

\* A stuttering step preserves it.
LEMMA InvStutter == Inv /\ UNCHANGED vars => Inv'
  BY DEF Inv, vars, TypeOK, HeldNumbers, HeldDistinct, HeldEntries, OneName,
     FreshUntouched, Progress, ProgressOf, SyncedComplete, PublishedSynced,
     TargetPublished, Outcomes, OkIsDurable, Holding, InClosure, Fresh, Inode

\* So does every step.
LEMMA InvStep ==
  ASSUME SafeNaming, Inv, [Next]_vars
  PROVE  Inv'
<1>1. TypeOK'
  BY TypeStep DEF Inv
<1>2. ASSUME NEW w \in Writers, Begin(w) \/ Step(w) PROVE Inv'
  BY <1>1, <1>2, BeginInv, ReserveFailsInv, ReserveInv, WriteInv, SyncInv, LinkInv,
     UnlinkInv, SyncDirectoryInv, CleanupInv DEF Step
<1>3. CASE RemoveTarget \/ WriteBack \/ PowerLoss
  BY <1>1, <1>3, RemoveTargetInv, WriteBackInv, PowerLossInv
<1>4. ASSUME NEW p \in Procs, Kill(p) PROVE Inv'
  BY <1>1, <1>4, KillInv
<1>. QED
  BY <1>2, <1>3, <1>4, InvStutter DEF Next

\* The conjunction Inv is an inductive invariant of every store whose names are
\* safe.
THEOREM Invariance ==
  ASSUME SafeNaming
  PROVE  Spec => []Inv
<1>1. Inv /\ [Next]_vars => Inv'
  BY InvStep
<1>. QED
  BY InvInit, <1>1, PTL DEF Spec

\* Every variable keeps its type, and a thread never leaves the steps of
\* atomic_create, however calls, kills and power failures interleave.
THEOREM TypeCorrectness ==
  ASSUME SafeNaming
  PROVE  Spec => []TypeOK
<1>1. Inv => TypeOK
  BY DEF Inv
<1>. QED
  BY Invariance, <1>1, PTL

\* A reader never finds a partial archive at the target path, during any race
\* or after any crash.
THEOREM Completeness ==
  ASSUME SafeNaming
  PROVE  Spec => []TargetComplete
<1>1. Inv => TargetComplete
  BY DEF Inv, TargetComplete, TargetPublished, PublishedSynced, SyncedComplete
<1>. QED
  BY Invariance, <1>1, PTL

\* An Ok of an archive store survives power failures.
THEOREM Durability ==
  ASSUME SafeNaming
  PROVE  Spec => []OkIsDurable
<1>1. Inv => OkIsDurable
  BY DEF Inv
<1>. QED
  BY Invariance, <1>1, PTL

\* No cleanup removes the temporary file of another call.
THEOREM Ownership ==
  ASSUME SafeNaming
  PROVE  Spec => TempsRemovedByOwner
<1> DEFINE Removal(n) ==
      temps[n] # NoFile /\ temps'[n] # temps[n] =>
        \/ crashes' # crashes
        \/ calls[temps[n][1]] = temps[n][2] /\ pc'[temps[n][1]] # pc[temps[n][1]]
<1>1. ASSUME Inv, [Next]_vars, NEW n \in TempNames
      PROVE  Removal(n)
  <2> SUFFICES ASSUME temps[n] # NoFile, temps'[n] # temps[n]
               PROVE  Removal(n)
    OBVIOUS
  <2>1. ASSUME NEW w \in Writers, pc[w] # "idle", pc'[w] # pc[w], temps[n] = Inode(w)
        PROVE  Removal(n)
    BY <2>1 DEF Inode
  <2>2. ASSUME NEW w \in Writers, Begin(w) \/ Step(w)
        PROVE  Removal(n)
    <3>1. CASE Reserve(w)
      BY <1>1, <3>1, NameType, ConstantsAssumption DEF Reserve, Inv, TypeOK
    <3>2. CASE Unlink(w)
      <4>1. pc[w] = "unlink" /\ pc'[w] # "unlink"
        BY <1>1, <3>2 DEF Unlink, Goto, Return, Forget, Inv, TypeOK
      <4>2. n = temp[w] /\ temps[temp[w]] = Inode(w)
        BY <1>1, <3>2, <4>1 DEF Unlink, Inv, TypeOK, HeldEntries, InClosure
      <4>. QED
        BY <4>1, <4>2, <2>1
    <3>3. CASE Cleanup(w)
      <4>1. pc[w] = "cleanup" /\ pc'[w] = "idle"
        BY <1>1, <3>3 DEF Cleanup, Return, Forget, Inv, TypeOK
      <4>2. n = temp[w] /\ temps[temp[w]] = Inode(w)
        BY <1>1, <3>3, <4>1 DEF Cleanup, Inv, TypeOK, HeldEntries
      <4>. QED
        BY <4>1, <4>2, <2>1
    <3>4. CASE Begin(w) \/ ReserveFails(w) \/ Write(w) \/ Sync(w) \/ Link(w)
               \/ SyncDirectory(w)
      BY <3>4 DEF Begin, ReserveFails, Write, Sync, Link, SyncDirectory, volatile
    <3>. QED
      BY <2>2, <3>1, <3>2, <3>3, <3>4 DEF Step
  <2>3. CASE RemoveTarget \/ WriteBack \/ (\E p \in Procs : Kill(p)) \/ UNCHANGED vars
    BY <2>3 DEF RemoveTarget, WriteBack, Kill, vars, volatile
  <2>4. CASE PowerLoss
    BY <1>1, <2>4, ConstantsAssumption DEF PowerLoss, Inv, TypeOK
  <2>. QED
    BY <1>1, <2>2, <2>3, <2>4 DEF Next
<1>2. Inv /\ [Next]_vars => [\A n \in TempNames : Removal(n)]_vars
  BY <1>1
<1>. QED
  BY Invariance, <1>2, PTL DEF Spec, TempsRemovedByOwner

-----------------------------------------------------------------------------
(* Refinement of PublishOnce.                                              *)

\* Under the invariant no Torn value is ever visible.
LEMMA VisibleIsTarget ==
  ASSUME Inv
  PROVE  Visible = target
  BY DEF Inv, Visible, TargetPublished, PublishedSynced, SyncedComplete

\* Initial states map to initial states of PublishOnce.
LEMMA PromiseInit == Init => Promise!Init
  BY DEF Init, Promise!Init, Visible

\* Every step maps to a step of PublishOnce or to a stutter: Link to Publish,
\* the end of a call to Return, RemoveTarget to Remove, PowerLoss to Recover.
LEMMA PromiseStep ==
  ASSUME Inv, Inv', [Next]_vars
  PROVE  [Promise!Next]_(Promise!vars)
<1>1. Visible = target /\ Visible' = target'
  <2>1. Visible = target
    BY VisibleIsTarget
  <2>2. Visible' = target'
    BY DEF Inv, Visible, TargetPublished, PublishedSynced, SyncedComplete
  <2>. QED
    BY <2>1, <2>2
<1>2. ASSUME UNCHANGED <<target, published, outcome>>
      PROVE  UNCHANGED Promise!vars
  BY <1>1, <1>2 DEF Promise!vars
<1>3. ASSUME NEW w \in Writers, NEW r \in {"ok", "dirty", "exists", "failed"},
             Inode(w) \in Inodes, outcome[Inode(w)] = "pending",
             outcome' = [outcome EXCEPT ![Inode(w)] = r],
             UNCHANGED <<target, published>>
      PROVE  Promise!Next
  <2>1. outcome'[Inode(w)] = r
    BY <1>3 DEF Inv, TypeOK
  <2>2. Promise!Return(Inode(w), r)
    BY <1>1, <1>3, <2>1 DEF Promise!Return, Promise!Succeeded, Promise!Refused,
         Inv, Outcomes
  <2>. QED
    BY <1>3, <2>2 DEF Promise!Next, Promise!Succeeded, Promise!Refused
<1>4. ASSUME NEW w \in Writers, Begin(w) \/ Step(w)
      PROVE  [Promise!Next]_(Promise!vars)
  <2>1. CASE Begin(w) \/ Reserve(w) \/ Write(w) \/ Sync(w)
    BY <1>2, <2>1 DEF Begin, Reserve, Write, Sync, volatile
  <2>2. pc[w] # "idle" => Inode(w) \in Inodes /\ outcome[Inode(w)] = "pending"
    BY InodeType DEF Inv, Progress, ProgressOf
  <2>3. CASE ReserveFails(w)
    BY <1>3, <2>2, <2>3 DEF ReserveFails, Return, volatile
  <2>4. CASE Link(w)
    <3>1. CASE target' # target
      <4>1. /\ target = NoFile /\ target' = temps[temp[w]]
            /\ published' = published \cup {temps[temp[w]]} /\ outcome' = outcome
        BY <2>4, <3>1 DEF Link
      <4>2. temps[temp[w]] = Inode(w) /\ Inode(w) \notin published
        BY <2>4 DEF Link, Inv, HeldEntries, InClosure, Progress, ProgressOf
      <4>3. Promise!Publish(Inode(w))
        BY <1>1, <2>2, <2>4, <4>1, <4>2 DEF Link, Promise!Publish
      <4>. QED
        BY <2>2, <2>4, <4>3 DEF Promise!Next, Link
    <3>2. CASE target' = target
      <4>1. UNCHANGED <<target, published, outcome>>
        BY <2>4, <3>2 DEF Link
      <4>. QED
        BY <1>2, <4>1
    <3>. QED
      BY <3>1, <3>2
  <2>5. CASE Unlink(w)
    <3>1. CASE outcome' = outcome
      BY <1>2, <2>5, <3>1 DEF Unlink
    <3>2. CASE outcome' # outcome
      BY <1>3, <2>2, <2>5, <3>2 DEF Unlink, Return
    <3>. QED
      BY <3>1, <3>2
  <2>6. CASE SyncDirectory(w)
    <3>1. CASE outcome' = outcome
      BY <1>2, <2>6, <3>1 DEF SyncDirectory, volatile
    <3>2. CASE outcome' # outcome
      BY <1>3, <2>2, <2>6, <3>2 DEF SyncDirectory, Return, volatile
    <3>. QED
      BY <3>1, <3>2
  <2>7. CASE Cleanup(w)
    <3>1. verdict[w] \in {"ok", "exists", "failed"}
      BY DEF Inv, TypeOK
    <3>. QED
      BY <1>3, <2>2, <2>7, <3>1 DEF Cleanup, Return
  <2>. QED
    BY <1>4, <2>1, <2>3, <2>4, <2>5, <2>6, <2>7 DEF Step
<1>5. CASE RemoveTarget
  BY <1>1, <1>5 DEF RemoveTarget, Promise!Remove, Promise!Next
<1>6. CASE WriteBack \/ (\E p \in Procs : Kill(p)) \/ UNCHANGED vars
  BY <1>2, <1>6 DEF WriteBack, Kill, vars, volatile
<1>7. CASE PowerLoss
  <2>1. target' \in published \cup {NoFile} /\ UNCHANGED <<outcome, published>>
    BY <1>7 DEF PowerLoss, Inv, TargetPublished
  <2>2. Promise!Recover
    BY <1>1, <2>1 DEF Promise!Recover
  <2>. QED
    BY <2>2 DEF Promise!Next
<1>. QED
  BY <1>4, <1>5, <1>6, <1>7 DEF Next

\* Every behaviour of atomic_create is one of PublishOnce: at most one
\* publication per call, only onto a free name, truthfully reported.
THEOREM Refinement ==
  ASSUME SafeNaming
  PROVE  Spec => PromiseKept
<1>1. Inv /\ Inv' /\ [Next]_vars => [Promise!Next]_(Promise!vars)
  BY PromiseStep
<1>. QED
  BY Invariance, PromiseInit, <1>1, PTL DEF Spec, PromiseKept, Promise!Spec
=============================================================================
