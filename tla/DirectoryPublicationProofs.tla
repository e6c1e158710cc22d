---------------------- MODULE DirectoryPublicationProofs ----------------------
(***************************************************************************)
(* Proofs about DirectoryPublication for any number of runs, any members   *)
(* and platforms, any acts of rivals and any crashes.                      *)
(*                                                                         *)
(* The argument: create_dir is exclusive, and a reservation that a call    *)
(* relies on stays where it is, so at most one call fills the directory at *)
(* the path (Place, Alone).  It fills it in order, and nobody takes its    *)
(* members away (Filled); the index is last, so an index that stands there *)
(* has all its members behind it (Indexed).  When a publication fails, the *)
(* members that stand there are those its rollback has still before it     *)
(* (Left); when it succeeds, nobody but the owner of the path takes a      *)
(* member away (Standing).                                                 *)
(***************************************************************************)
EXTENDS DirectoryPublication, TLAPS

\* The acts of a rollback succeed, and so does the lstat of the reservation:
\* assumed by the theorem on failures only.
Reliable == "undo" \notin Faults /\ "identify" \notin Faults

-----------------------------------------------------------------------------
(* The invariant.                                                          *)

Early == {"stage", "reserve"}
Late == {"finish", "done", "dead"}
Filler == {"move", "back", "link", "check", "entry", "unlink"}

\* An entry of a run stands in a directory of that run, one of a rival shows.
Directory ==
  /\ ~Present => Empty
  /\ \A n \in Names : entries[n] \in Runs =>
       target \in {Reserved(entries[n]), Staged(entries[n])}
  /\ \A n \in Names : entries[n] = Rival => touched

\* The reservation of a call that relies on it stands at the path; a call that
\* has none yet has no directory there.
Place ==
  \A r \in Runs :
    /\ pc[r] \in Window => target = Reserved(r)
    /\ pc[r] \in {"link", "check", "entry", "unlink"} => reservation[r] = Reserved(r)
    /\ pc[r] \in Early => target \notin {Reserved(r), Staged(r)}

\* Nothing is published before the last member.
Position ==
  \A r \in Runs :
    /\ pc[r] \in Early \cup {"rename", "identify"} => at[r] = 1
    /\ pc[r] \notin {"entry", "unlink", "remove"} \cup Late => back[r] = 1
    /\ pc[r] \in Filler => at[r] <= Len(Order(r))
    /\ pc[r] = "unlink" => back[r] < at[r]

\* The members published so far stand there.
Filled ==
  \A r \in Runs : pc[r] \in {"move", "back", "link"} =>
    \A i \in 1 .. (at[r] - 1) : entries[Order(r)[i]] = r

\* A link that is about to be removed is the call's own.
Checked ==
  \A r \in Runs : pc[r] = "unlink" => entries[Order(r)[back[r]]] = r

\* An index that stands there is published, with all the members it binds.
Indexed ==
  \A r \in Runs : entries[Index(r)] = r => Whole(r) /\ r \in published

Results ==
  \A r \in Runs :
    /\ pc[r] \notin Late => r \notin published
    /\ pc[r] = "finish" => r \in published
    /\ pc[r] # "done" => outcome[r] = "pending"
    /\ outcome[r] = "ok" => r \in published
    /\ outcome[r] = "failed" /\ caller[r] = "publish" => r \notin published

Inv == TypeOK /\ Directory /\ Place /\ Position /\ Filled /\ Checked /\ Indexed /\ Results

-----------------------------------------------------------------------------
(* Facts about the constants and about one state.                          *)

\* The order of publication lists the members of a stage, each once.
LEMMA Orders ==
  ASSUME TypeOK, NEW r \in Runs
  PROVE  /\ Order(r) \in Seq(Names)
         /\ Len(Order(r)) \in Nat \ {0}
         /\ DOMAIN Order(r) = 1 .. Len(Order(r))
         /\ \A i \in 1 .. Len(Order(r)) : Order(r)[i] \in Names
         /\ \A i, j \in 1 .. Len(Order(r)) : Order(r)[i] = Order(r)[j] => i = j
         /\ Own(r) = {Order(r)[i] : i \in 1 .. Len(Order(r))}
         /\ Own(r) \subseteq Names
         /\ Index(r) \in Names
         /\ Index(r) = Order(r)[Len(Order(r))]
<1>1. caller[r] \in Callers
  BY DEF TypeOK
<1>2. /\ Order(r) \in Seq(Names)
      /\ Order(r) # << >>
      /\ \A i, j \in DOMAIN Order(r) : Order(r)[i] = Order(r)[j] => i = j
  BY <1>1, ConstantsAssumption DEF Order
<1>3. Len(Order(r)) \in Nat \ {0} /\ DOMAIN Order(r) = 1 .. Len(Order(r))
  BY <1>2
<1>4. \A i \in 1 .. Len(Order(r)) : Order(r)[i] \in Names
  BY <1>2, <1>3
<1>. QED
  BY <1>2, <1>3, <1>4 DEF Own, Index

\* A call that relies on its reservation is the only one that does, and no
\* other run has an entry in the directory.
LEMMA Alone ==
  ASSUME TypeOK, Directory, Place, NEW r \in Runs, target = Reserved(r)
  PROVE  /\ Present
         /\ \A q \in Runs : q # r => pc[q] \notin Window
         /\ \A n \in Names : entries[n] \in Runs => entries[n] = r
         /\ \A q \in Runs : q # r => entries[Index(q)] # q
<1>1. Present
  BY ConstantsAssumption DEF Present, NoDir, Reserved
<1>2. ASSUME NEW q \in Runs, q # r
      PROVE  pc[q] \notin Window
  BY <1>2 DEF Place, Reserved
<1>3. ASSUME NEW n \in Names, entries[n] \in Runs
      PROVE  entries[n] = r
  BY <1>3 DEF Directory, Reserved, Staged
<1>4. ASSUME NEW q \in Runs, q # r
      PROVE  entries[Index(q)] # q
  BY <1>3, <1>4, Orders
<1>. QED
  BY <1>1, <1>2, <1>3, <1>4

\* The next member of a call that fills its directory is one of its own.
LEMMA Here ==
  ASSUME Inv, NEW r \in Runs, pc[r] \in Window
  PROVE  /\ target = Reserved(r) /\ Present
         /\ r \notin published
         /\ \A q \in Runs : q # r => pc[q] \notin Window
         /\ \A n \in Names : entries[n] \in Runs => entries[n] = r
         /\ \A q \in Runs : q # r => entries[Index(q)] # q
         /\ at[r] \in Nat \ {0} /\ back[r] \in Nat \ {0} /\ back[r] <= at[r]
         /\ pc[r] \in Filler =>
              /\ at[r] \in 1 .. Len(Order(r)) /\ back[r] \in 1 .. Len(Order(r))
              /\ Order(r)[at[r]] \in Names /\ Order(r)[back[r]] \in Names
              /\ at[r] # 1 => Order(r)[at[r] - 1] \in Names
<1>1. target = Reserved(r) /\ r \notin published
  BY DEF Inv, Place, Results, Late, Window
<1>2. at[r] \in Nat \ {0} /\ back[r] \in Nat \ {0} /\ back[r] <= at[r]
  BY DEF Inv, TypeOK
<1>3. ASSUME pc[r] \in Filler
      PROVE  /\ at[r] \in 1 .. Len(Order(r)) /\ back[r] \in 1 .. Len(Order(r))
             /\ at[r] # 1 => at[r] - 1 \in 1 .. Len(Order(r))
  BY <1>2, <1>3, Orders DEF Inv, Position
<1>. QED
  BY <1>1, <1>2, <1>3, Alone, Orders DEF Inv

\* Who publishes is settled at the start, and with it the names of a stage.
LEMMA Settled == [Next]_vars => caller' = caller
BY DEF Next, vars, frame, Step, StagePublish, StageSave, StageExport, Reserve, Rename,
     MoveMember, MoveBack, RemoveReservation, Identify, LinkMember, CheckReservation,
     CheckEntry, UnlinkEntry, Finish, Reopen, Discard, RivalCreate, RivalInsert,
     RivalTakeBack, Withdraw, Kill, Act

LEMMA Fixed ==
  ASSUME [Next]_vars, NEW r \in Runs
  PROVE  Order(r)' = Order(r) /\ Own(r)' = Own(r) /\ Index(r)' = Index(r)
BY Settled DEF Order, Own, Index

\* A step moves one run to another label, or changes its other variables.
LEMMA Update ==
  ASSUME NEW D, NEW S, NEW f \in [D -> S], NEW x \in D, NEW v \in S
  PROVE  [f EXCEPT ![x] = v] \in [D -> S]
OBVIOUS

-----------------------------------------------------------------------------
(* Every action preserves the invariant.                                   *)

\* It holds at the start, when the path is free.
LEMMA InitInv == Init => Inv
<1>. SUFFICES ASSUME Init PROVE Inv
  OBVIOUS
<1>1. TypeOK
  <2>1. \A r \in Runs : Len(Order(r)) \in Nat
    BY ConstantsAssumption DEF Init, Order
  <2>2. pc \in [Runs -> Labels] /\ at \in [Runs -> Nat \ {0}] /\ back \in [Runs -> Nat \ {0}]
    BY DEF Init, Labels
  <2>3. \A r \in Runs : at[r] <= Len(Order(r)) + 1 /\ back[r] <= at[r]
    BY <2>1 DEF Init
  <2>4. /\ reservation \in [Runs -> Dirs \cup {NoDir}] /\ staged \in [Runs -> SUBSET Names]
        /\ target \in Dirs \cup {NoDir} /\ entries \in [Names -> Runs \cup {Rival, NoFile}]
        /\ outcome \in [Runs -> {"pending", "ok", "failed"}]
    BY DEF Init, Nothing
  <2>5. /\ platform \in Platforms /\ caller \in [Runs -> Callers] /\ touched \in BOOLEAN
        /\ published \in SUBSET Runs
    BY DEF Init
  <2>6. acts \in 0 .. MaxRivalActs /\ crashes \in 0 .. MaxCrashes
    <3>1. acts = 0 /\ crashes = 0
      BY DEF Init
    <3>. QED
      BY <3>1, ConstantsAssumption
  <2>. QED
    BY <2>2, <2>3, <2>4, <2>5, <2>6 DEF TypeOK
<1>2. \A r \in Runs : entries[Index(r)] = NoFile
  BY <1>1, Orders DEF Init, Nothing
<1>3. Directory /\ Place
  BY ConstantsAssumption DEF Init, Directory, Place, Present, Empty, Nothing, NoDir,
     Reserved, Staged, Early, Window
<1>4. Position /\ Filled /\ Checked /\ Results
  BY DEF Init, Position, Filled, Checked, Results, Early, Late, Filler
<1>5. Indexed
  BY <1>2, ConstantsAssumption DEF Indexed
<1>. QED
  BY <1>1, <1>3, <1>4, <1>5 DEF Inv

\* No step of a run breaks the invariant.
LEMMA StagePublishInv ==
  ASSUME Inv, NEW r \in Runs, StagePublish(r)
  PROVE  Inv'
<1>1. \A q \in Runs : Order(q)' = Order(q) /\ Own(q)' = Own(q) /\ Index(q)' = Index(q)
  BY Fixed DEF Next, Step
<1>2. TypeOK /\ \A q \in Runs : Len(Order(q)) \in Nat \ {0}
  BY Orders DEF Inv
<1>3. TypeOK'
  <2>1. /\ platform' = platform /\ caller' = caller /\ acts' = acts /\ crashes' = crashes
        /\ at' = at /\ back' = back /\ reservation' = reservation /\ target' = target
        /\ entries' = entries /\ touched' = touched /\ published' = published
    BY DEF StagePublish, Stages, Fail, Return, Goto, May, frame, tree
  <2>2. pc' \in [Runs -> Labels]
    <3>1. \/ pc' = pc
          \/ \E v \in Labels : pc' = [pc EXCEPT ![r] = v]
      BY <1>2, Orders DEF StagePublish, Stages, Fail, Return, Goto, May, frame, tree,
         Labels, Window, TypeOK
    <3>. QED
      BY <1>2, <3>1, Update DEF TypeOK
  <2>3. staged' \in [Runs -> SUBSET Names]
    <3>1. \/ staged' = staged
          \/ \E v \in SUBSET Names : staged' = [staged EXCEPT ![r] = v]
      BY <1>2, Orders DEF StagePublish, Stages, Fail, Return, Goto, May, frame, tree,
         TypeOK
    <3>. QED
      BY <1>2, <3>1, Update DEF TypeOK
  <2>4. /\ published' \in SUBSET Runs
        /\ outcome' \in [Runs -> {"pending", "ok", "failed"}]
    BY <1>2, ConstantsAssumption DEF StagePublish, Stages, Fail, Return, Goto, May,
       frame, tree, Inv, TypeOK
  <2>5. \A q \in Runs : at'[q] <= Len(Order(q)') + 1 /\ back'[q] <= at'[q]
    BY <1>1, <1>2, <2>1 DEF TypeOK
  <2>6. /\ platform' \in Platforms /\ caller' \in [Runs -> Callers]
        /\ at' \in [Runs -> Nat \ {0}]
        /\ back' \in [Runs -> Nat \ {0}]
        /\ reservation' \in [Runs -> Dirs \cup {NoDir}]
        /\ target' \in Dirs \cup {NoDir}
        /\ entries' \in [Names -> Runs \cup {Rival, NoFile}]
        /\ touched' \in BOOLEAN
        /\ acts' \in 0 .. MaxRivalActs /\ crashes' \in 0 .. MaxCrashes
    BY <1>2, <2>1 DEF TypeOK
  <2>. QED
    BY <2>2, <2>3, <2>4, <2>5, <2>6 DEF TypeOK
<1>4. Directory'
  BY <1>1, <1>2, ConstantsAssumption DEF StagePublish, Stages, Fail, Return, Goto, May,
     frame, tree, Window, Early, Late, Filler, Inv, Directory, Present, Empty, Nothing,
     NoDir, Reserved, Staged, TypeOK
<1>5. Place'
  BY <1>1, <1>2, ConstantsAssumption DEF StagePublish, Stages, Fail, Return, Goto, May,
     frame, tree, Window, Early, Late, Filler, Inv, Place, Reserved, Staged, NoDir,
     TypeOK, Directory
<1>6. Position'
  BY <1>1, <1>2, ConstantsAssumption DEF StagePublish, Stages, Fail, Return, Goto, May,
     frame, tree, Window, Early, Late, Filler, Inv, Position, TypeOK
<1>7. Filled'
  <2>. SUFFICES ASSUME NEW q \in Runs, pc'[q] \in {"move", "back", "link"},
                       NEW i \in 1 .. (at'[q] - 1)
                PROVE  entries'[Order(q)[i]] = q
    BY <1>1 DEF Filled
  <2>1. pc'[q] = pc[q] /\ at' = at /\ entries' = entries
    BY <1>2 DEF StagePublish, Stages, Fail, Return, Goto, May, frame, tree, TypeOK
  <2>. QED
    BY <2>1 DEF Inv, Filled
<1>8. Checked'
  <2>1. \/ pc' = pc
        \/ \E l \in Labels \ {"unlink"} : pc' = [pc EXCEPT ![r] = l]
    BY DEF StagePublish, Stages, Fail, Return, Goto, May, frame, tree, Labels, Window
  <2>2. /\ entries' = entries /\ back' = back
        /\ \A q \in Runs : pc'[q] = "unlink" => pc[q] = "unlink"
    BY <1>2, <2>1 DEF StagePublish, tree, TypeOK
  <2>. QED
    BY <1>1, <2>2 DEF Inv, Checked
<1>9. Indexed'
  BY <1>1, <1>2, ConstantsAssumption DEF StagePublish, Stages, Fail, Return, Goto, May,
     frame, tree, Window, Early, Late, Filler, Inv, Indexed, Whole, TypeOK
<1>10. Results'
  <2>1. /\ published' = published /\ caller' = caller /\ pc[r] \notin Late
        /\ \A q \in Runs : q # r => pc'[q] = pc[q] /\ outcome'[q] = outcome[q]
    BY <1>2 DEF StagePublish, Stages, Fail, Return, Goto, May, frame, tree, Late, TypeOK
  <2>2. \/ pc'[r] \in {"reserve"} /\ outcome'[r] = outcome[r]
        \/ pc'[r] = "done" /\ outcome'[r] = "failed"
    BY <1>2 DEF StagePublish, Stages, Fail, Return, Goto, May, frame, tree, TypeOK
  <2>. QED
    BY <2>1, <2>2 DEF Inv, Results, Late
<1>. QED
  BY <1>3, <1>4, <1>5, <1>6, <1>7, <1>8, <1>9, <1>10 DEF Inv

LEMMA StageSaveInv ==
  ASSUME Inv, NEW r \in Runs, StageSave(r)
  PROVE  Inv'
<1>1. \A q \in Runs : Order(q)' = Order(q) /\ Own(q)' = Own(q) /\ Index(q)' = Index(q)
  BY Fixed DEF Next, Step
<1>2. TypeOK /\ \A q \in Runs : Len(Order(q)) \in Nat \ {0}
  BY Orders DEF Inv
<1>3. TypeOK'
  <2>1. /\ platform' = platform /\ caller' = caller /\ acts' = acts /\ crashes' = crashes
        /\ at' = at /\ back' = back /\ reservation' = reservation /\ target' = target
        /\ entries' = entries /\ touched' = touched /\ published' = published
    BY DEF StageSave, Stages, Fail, Return, Goto, May, frame, tree
  <2>2. pc' \in [Runs -> Labels]
    <3>1. \/ pc' = pc
          \/ \E v \in Labels : pc' = [pc EXCEPT ![r] = v]
      BY <1>2, Orders DEF StageSave, Stages, Fail, Return, Goto, May, frame, tree,
         Labels, Window, TypeOK
    <3>. QED
      BY <1>2, <3>1, Update DEF TypeOK
  <2>3. staged' \in [Runs -> SUBSET Names]
    <3>1. \/ staged' = staged
          \/ \E v \in SUBSET Names : staged' = [staged EXCEPT ![r] = v]
      BY <1>2, Orders DEF StageSave, Stages, Fail, Return, Goto, May, frame, tree, TypeOK
    <3>. QED
      BY <1>2, <3>1, Update DEF TypeOK
  <2>4. /\ published' \in SUBSET Runs
        /\ outcome' \in [Runs -> {"pending", "ok", "failed"}]
    BY <1>2, ConstantsAssumption DEF StageSave, Stages, Fail, Return, Goto, May, frame,
       tree, Inv, TypeOK
  <2>5. \A q \in Runs : at'[q] <= Len(Order(q)') + 1 /\ back'[q] <= at'[q]
    BY <1>1, <1>2, <2>1 DEF TypeOK
  <2>6. /\ platform' \in Platforms /\ caller' \in [Runs -> Callers]
        /\ at' \in [Runs -> Nat \ {0}]
        /\ back' \in [Runs -> Nat \ {0}]
        /\ reservation' \in [Runs -> Dirs \cup {NoDir}]
        /\ target' \in Dirs \cup {NoDir}
        /\ entries' \in [Names -> Runs \cup {Rival, NoFile}]
        /\ touched' \in BOOLEAN
        /\ acts' \in 0 .. MaxRivalActs /\ crashes' \in 0 .. MaxCrashes
    BY <1>2, <2>1 DEF TypeOK
  <2>. QED
    BY <2>2, <2>3, <2>4, <2>5, <2>6 DEF TypeOK
<1>4. Directory'
  BY <1>1, <1>2, ConstantsAssumption DEF StageSave, Stages, Fail, Return, Goto, May,
     frame, tree, Window, Early, Late, Filler, Inv, Directory, Present, Empty, Nothing,
     NoDir, Reserved, Staged, TypeOK
<1>5. Place'
  BY <1>1, <1>2, ConstantsAssumption DEF StageSave, Stages, Fail, Return, Goto, May,
     frame, tree, Window, Early, Late, Filler, Inv, Place, Reserved, Staged, NoDir,
     TypeOK, Directory
<1>6. Position'
  BY <1>1, <1>2, ConstantsAssumption DEF StageSave, Stages, Fail, Return, Goto, May,
     frame, tree, Window, Early, Late, Filler, Inv, Position, TypeOK
<1>7. Filled'
  <2>. SUFFICES ASSUME NEW q \in Runs, pc'[q] \in {"move", "back", "link"},
                       NEW i \in 1 .. (at'[q] - 1)
                PROVE  entries'[Order(q)[i]] = q
    BY <1>1 DEF Filled
  <2>1. pc'[q] = pc[q] /\ at' = at /\ entries' = entries
    BY <1>2 DEF StageSave, Stages, Fail, Return, Goto, May, frame, tree, TypeOK
  <2>. QED
    BY <2>1 DEF Inv, Filled
<1>8. Checked'
  <2>1. \/ pc' = pc
        \/ \E l \in Labels \ {"unlink"} : pc' = [pc EXCEPT ![r] = l]
    BY DEF StageSave, Stages, Fail, Return, Goto, May, frame, tree, Labels, Window
  <2>2. /\ entries' = entries /\ back' = back
        /\ \A q \in Runs : pc'[q] = "unlink" => pc[q] = "unlink"
    BY <1>2, <2>1 DEF StageSave, tree, TypeOK
  <2>. QED
    BY <1>1, <2>2 DEF Inv, Checked
<1>9. Indexed'
  BY <1>1, <1>2, ConstantsAssumption DEF StageSave, Stages, Fail, Return, Goto, May,
     frame, tree, Window, Early, Late, Filler, Inv, Indexed, Whole, TypeOK
<1>10. Results'
  <2>1. /\ published' = published /\ caller' = caller /\ pc[r] \notin Late
        /\ \A q \in Runs : q # r => pc'[q] = pc[q] /\ outcome'[q] = outcome[q]
    BY <1>2 DEF StageSave, Stages, Fail, Return, Goto, May, frame, tree, Late, TypeOK
  <2>2. \/ pc'[r] \in {"reserve"} /\ outcome'[r] = outcome[r]
        \/ pc'[r] = "done" /\ outcome'[r] = "failed"
    BY <1>2 DEF StageSave, Stages, Fail, Return, Goto, May, frame, tree, TypeOK
  <2>. QED
    BY <2>1, <2>2 DEF Inv, Results, Late
<1>. QED
  BY <1>3, <1>4, <1>5, <1>6, <1>7, <1>8, <1>9, <1>10 DEF Inv

LEMMA StageExportInv ==
  ASSUME Inv, NEW r \in Runs, StageExport(r)
  PROVE  Inv'
<1>1. \A q \in Runs : Order(q)' = Order(q) /\ Own(q)' = Own(q) /\ Index(q)' = Index(q)
  BY Fixed DEF Next, Step
<1>2. TypeOK /\ \A q \in Runs : Len(Order(q)) \in Nat \ {0}
  BY Orders DEF Inv
<1>3. TypeOK'
  <2>1. /\ platform' = platform /\ caller' = caller /\ acts' = acts /\ crashes' = crashes
        /\ at' = at /\ back' = back /\ reservation' = reservation /\ target' = target
        /\ entries' = entries /\ touched' = touched /\ published' = published
    BY DEF StageExport, Stages, Fail, Return, Goto, May, frame, tree
  <2>2. pc' \in [Runs -> Labels]
    <3>1. \/ pc' = pc
          \/ \E v \in Labels : pc' = [pc EXCEPT ![r] = v]
      BY <1>2, Orders DEF StageExport, Stages, Fail, Return, Goto, May, frame, tree,
         Labels, Window, TypeOK
    <3>. QED
      BY <1>2, <3>1, Update DEF TypeOK
  <2>3. staged' \in [Runs -> SUBSET Names]
    <3>1. \/ staged' = staged
          \/ \E v \in SUBSET Names : staged' = [staged EXCEPT ![r] = v]
      BY <1>2, Orders DEF StageExport, Stages, Fail, Return, Goto, May, frame, tree,
         TypeOK
    <3>. QED
      BY <1>2, <3>1, Update DEF TypeOK
  <2>4. /\ published' \in SUBSET Runs
        /\ outcome' \in [Runs -> {"pending", "ok", "failed"}]
    BY <1>2, ConstantsAssumption DEF StageExport, Stages, Fail, Return, Goto, May, frame,
       tree, Inv, TypeOK
  <2>5. \A q \in Runs : at'[q] <= Len(Order(q)') + 1 /\ back'[q] <= at'[q]
    BY <1>1, <1>2, <2>1 DEF TypeOK
  <2>6. /\ platform' \in Platforms /\ caller' \in [Runs -> Callers]
        /\ at' \in [Runs -> Nat \ {0}]
        /\ back' \in [Runs -> Nat \ {0}]
        /\ reservation' \in [Runs -> Dirs \cup {NoDir}]
        /\ target' \in Dirs \cup {NoDir}
        /\ entries' \in [Names -> Runs \cup {Rival, NoFile}]
        /\ touched' \in BOOLEAN
        /\ acts' \in 0 .. MaxRivalActs /\ crashes' \in 0 .. MaxCrashes
    BY <1>2, <2>1 DEF TypeOK
  <2>. QED
    BY <2>2, <2>3, <2>4, <2>5, <2>6 DEF TypeOK
<1>4. Directory'
  BY <1>1, <1>2, ConstantsAssumption DEF StageExport, Stages, Fail, Return, Goto, May,
     frame, tree, Window, Early, Late, Filler, Inv, Directory, Present, Empty, Nothing,
     NoDir, Reserved, Staged, TypeOK
<1>5. Place'
  BY <1>1, <1>2, ConstantsAssumption DEF StageExport, Stages, Fail, Return, Goto, May,
     frame, tree, Window, Early, Late, Filler, Inv, Place, Reserved, Staged, NoDir,
     TypeOK, Directory
<1>6. Position'
  BY <1>1, <1>2, ConstantsAssumption DEF StageExport, Stages, Fail, Return, Goto, May,
     frame, tree, Window, Early, Late, Filler, Inv, Position, TypeOK
<1>7. Filled'
  <2>. SUFFICES ASSUME NEW q \in Runs, pc'[q] \in {"move", "back", "link"},
                       NEW i \in 1 .. (at'[q] - 1)
                PROVE  entries'[Order(q)[i]] = q
    BY <1>1 DEF Filled
  <2>1. pc'[q] = pc[q] /\ at' = at /\ entries' = entries
    BY <1>2 DEF StageExport, Stages, Fail, Return, Goto, May, frame, tree, TypeOK
  <2>. QED
    BY <2>1 DEF Inv, Filled
<1>8. Checked'
  <2>1. \/ pc' = pc
        \/ \E l \in Labels \ {"unlink"} : pc' = [pc EXCEPT ![r] = l]
    BY DEF StageExport, Stages, Fail, Return, Goto, May, frame, tree, Labels, Window
  <2>2. /\ entries' = entries /\ back' = back
        /\ \A q \in Runs : pc'[q] = "unlink" => pc[q] = "unlink"
    BY <1>2, <2>1 DEF StageExport, tree, TypeOK
  <2>. QED
    BY <1>1, <2>2 DEF Inv, Checked
<1>9. Indexed'
  BY <1>1, <1>2, ConstantsAssumption DEF StageExport, Stages, Fail, Return, Goto, May,
     frame, tree, Window, Early, Late, Filler, Inv, Indexed, Whole, TypeOK
<1>10. Results'
  <2>1. /\ published' = published /\ caller' = caller /\ pc[r] \notin Late
        /\ \A q \in Runs : q # r => pc'[q] = pc[q] /\ outcome'[q] = outcome[q]
    BY <1>2 DEF StageExport, Stages, Fail, Return, Goto, May, frame, tree, Late, TypeOK
  <2>2. \/ pc'[r] \in {"reserve"} /\ outcome'[r] = outcome[r]
        \/ pc'[r] = "done" /\ outcome'[r] = "failed"
    BY <1>2 DEF StageExport, Stages, Fail, Return, Goto, May, frame, tree, TypeOK
  <2>. QED
    BY <2>1, <2>2 DEF Inv, Results, Late
<1>. QED
  BY <1>3, <1>4, <1>5, <1>6, <1>7, <1>8, <1>9, <1>10 DEF Inv

LEMMA ReserveInv ==
  ASSUME Inv, NEW r \in Runs, Reserve(r)
  PROVE  Inv'
<1>1. \A q \in Runs : Order(q)' = Order(q) /\ Own(q)' = Own(q) /\ Index(q)' = Index(q)
  BY Fixed DEF Next, Step
<1>2. TypeOK /\ \A q \in Runs : Len(Order(q)) \in Nat \ {0}
  BY Orders DEF Inv
<1>3. TypeOK'
  <2>1. /\ platform' = platform /\ caller' = caller /\ acts' = acts /\ crashes' = crashes
        /\ at' = at /\ back' = back /\ reservation' = reservation /\ entries' = entries
        /\ published' = published
    BY DEF Reserve, Fail, Return, Goto, May, frame, Present, ByRename, ByMoves, NoDir,
       Reserved
  <2>2. pc' \in [Runs -> Labels]
    <3>1. \/ pc' = pc
          \/ \E v \in Labels : pc' = [pc EXCEPT ![r] = v]
      BY <1>2, Orders DEF Reserve, Fail, Return, Goto, May, frame, Present, ByRename,
         ByMoves, NoDir, Reserved, Labels, Window, TypeOK
    <3>. QED
      BY <1>2, <3>1, Update DEF TypeOK
  <2>3. staged' \in [Runs -> SUBSET Names]
    <3>1. \/ staged' = staged
          \/ \E v \in SUBSET Names : staged' = [staged EXCEPT ![r] = v]
      BY <1>2, Orders DEF Reserve, Fail, Return, Goto, May, frame, Present, ByRename,
         ByMoves, NoDir, Reserved, TypeOK
    <3>. QED
      BY <1>2, <3>1, Update DEF TypeOK
  <2>4. target' \in Dirs \cup {NoDir}
    BY <1>2, ConstantsAssumption DEF Reserve, Fail, Return, Goto, May, frame, Present,
       ByRename, ByMoves, NoDir, Reserved, Dirs, Staged, Inv, TypeOK
  <2>5. touched' \in BOOLEAN
    BY <1>2, ConstantsAssumption DEF Reserve, Fail, Return, Goto, May, frame, Present,
       ByRename, ByMoves, NoDir, Reserved, Inv, TypeOK
  <2>6. /\ published' \in SUBSET Runs
        /\ outcome' \in [Runs -> {"pending", "ok", "failed"}]
    BY <1>2, ConstantsAssumption DEF Reserve, Fail, Return, Goto, May, frame, Present,
       ByRename, ByMoves, NoDir, Reserved, Inv, TypeOK
  <2>7. \A q \in Runs : at'[q] <= Len(Order(q)') + 1 /\ back'[q] <= at'[q]
    BY <1>1, <1>2, <2>1 DEF TypeOK
  <2>8. /\ platform' \in Platforms /\ caller' \in [Runs -> Callers]
        /\ at' \in [Runs -> Nat \ {0}]
        /\ back' \in [Runs -> Nat \ {0}]
        /\ reservation' \in [Runs -> Dirs \cup {NoDir}]
        /\ entries' \in [Names -> Runs \cup {Rival, NoFile}]
        /\ acts' \in 0 .. MaxRivalActs /\ crashes' \in 0 .. MaxCrashes
    BY <1>2, <2>1 DEF TypeOK
  <2>. QED
    BY <2>2, <2>3, <2>4, <2>5, <2>6, <2>7, <2>8 DEF TypeOK
<1>4. Directory'
  BY <1>1, <1>2, Alone, ConstantsAssumption DEF Reserve, Fail, Return, Goto, May, frame,
     Present, ByRename, ByMoves, NoDir, Reserved, Window, Early, Late, Filler, Inv,
     Directory, Empty, Nothing, Staged, TypeOK
<1>5. Place'
  <2>1. /\ pc[r] = "reserve" /\ reservation' = reservation
        /\ \A q \in Runs : q # r => pc'[q] = pc[q]
    BY <1>2 DEF Reserve, Fail, Return, Goto, TypeOK
  <2>2. CASE target' = target /\ pc'[r] = "done"
    BY <2>1, <2>2 DEF Inv, Place, Window, Early
  <2>3. CASE ~Present /\ target' = Reserved(r) /\ pc'[r] \in {"rename", "move", "identify"}
    <3>1. \A q \in Runs : pc[q] \notin Window
      BY <2>3, Here
    <3>. QED
      BY <2>1, <2>3, <3>1 DEF Inv, Place, Window, Early, Reserved, Staged
  <2>. QED
    BY <1>2, <2>2, <2>3 DEF Reserve, Fail, Return, Goto, TypeOK
<1>6. Position'
  <2>1. /\ pc[r] = "reserve" /\ at' = at /\ back' = back
        /\ \A q \in Runs : q # r => pc'[q] = pc[q]
    BY <1>2 DEF Reserve, Fail, Return, Goto, TypeOK
  <2>2. pc'[r] \in {"rename", "move", "identify", "done"}
    BY <1>2 DEF Reserve, Fail, Return, Goto, TypeOK
  <2>3. at[r] = 1 /\ back[r] = 1
    BY <2>1 DEF Inv, Position, Early, Late
  <2>. QED
    BY <1>1, <1>2, <2>1, <2>2, <2>3 DEF Inv, Position, Early, Late, Filler
<1>7. Filled'
  <2>. SUFFICES ASSUME NEW q \in Runs, pc'[q] \in {"move", "back", "link"},
                       NEW i \in 1 .. (at'[q] - 1)
                PROVE  entries'[Order(q)[i]] = q
    BY <1>1 DEF Filled
  <2>1. CASE q = r
    BY <1>2, <2>1 DEF Reserve, Fail, Return, Goto, Inv, TypeOK, Position, Early
  <2>2. CASE q # r
    <3>1. pc[q] = pc'[q] /\ at'[q] = at[q] /\ entries' = entries
      BY <1>2, <2>2 DEF Reserve, Fail, Return, Goto, TypeOK
    <3>. QED
      BY <3>1 DEF Inv, Filled
  <2>. QED
    BY <2>1, <2>2
<1>8. Checked'
  <2>1. \/ pc' = pc
        \/ \E l \in Labels \ {"unlink"} : pc' = [pc EXCEPT ![r] = l]
    BY DEF Reserve, Fail, Return, Goto, May, frame, Present, ByRename, ByMoves, NoDir,
       Reserved, Labels, Window
  <2>2. /\ entries' = entries /\ back' = back
        /\ \A q \in Runs : pc'[q] = "unlink" => pc[q] = "unlink"
    BY <1>2, <2>1 DEF Reserve, tree, TypeOK
  <2>. QED
    BY <1>1, <2>2 DEF Inv, Checked
<1>9. Indexed'
  BY <1>1, <1>2, Alone, Orders, ConstantsAssumption DEF Reserve, Fail, Return, Goto, May,
     frame, Present, ByRename, ByMoves, NoDir, Reserved, Window, Early, Late, Filler,
     Inv, Indexed, Whole, TypeOK
<1>10. Results'
  <2>1. /\ published' = published /\ caller' = caller /\ pc[r] \notin Late
        /\ \A q \in Runs : q # r => pc'[q] = pc[q] /\ outcome'[q] = outcome[q]
    BY <1>2 DEF Reserve, Fail, Return, Goto, May, frame, Present, ByRename, ByMoves,
       NoDir, Reserved, Late, TypeOK
  <2>2. \/ pc'[r] \in {"rename", "move", "identify"} /\ outcome'[r] = outcome[r]
        \/ pc'[r] = "done" /\ outcome'[r] = "failed"
    BY <1>2 DEF Reserve, Fail, Return, Goto, May, frame, Present, ByRename, ByMoves,
       NoDir, Reserved, TypeOK
  <2>. QED
    BY <2>1, <2>2 DEF Inv, Results, Late
<1>. QED
  BY <1>3, <1>4, <1>5, <1>6, <1>7, <1>8, <1>9, <1>10 DEF Inv

LEMMA RenameInv ==
  ASSUME Inv, NEW r \in Runs, Rename(r)
  PROVE  Inv'
<1>1. \A q \in Runs : Order(q)' = Order(q) /\ Own(q)' = Own(q) /\ Index(q)' = Index(q)
  BY Fixed DEF Next, Step
<1>2. TypeOK /\ \A q \in Runs : Len(Order(q)) \in Nat \ {0}
  BY Orders DEF Inv
<1>3. TypeOK'
  <2>1. /\ platform' = platform /\ caller' = caller /\ acts' = acts /\ crashes' = crashes
        /\ at' = at /\ back' = back /\ reservation' = reservation /\ outcome' = outcome
    BY DEF Rename, Complete, Goto, May, frame, tree, Empty, Nothing, Staged
  <2>2. pc' \in [Runs -> Labels]
    <3>1. \/ pc' = pc
          \/ \E v \in Labels : pc' = [pc EXCEPT ![r] = v]
      BY <1>2, Orders DEF Rename, Complete, Goto, May, frame, tree, Empty, Nothing,
         Staged, Labels, Window, TypeOK
    <3>. QED
      BY <1>2, <3>1, Update DEF TypeOK
  <2>3. staged' \in [Runs -> SUBSET Names]
    <3>1. \/ staged' = staged
          \/ \E v \in SUBSET Names : staged' = [staged EXCEPT ![r] = v]
      BY <1>2, Orders DEF Rename, Complete, Goto, May, frame, tree, Empty, Nothing,
         Staged, TypeOK
    <3>. QED
      BY <1>2, <3>1, Update DEF TypeOK
  <2>4. target' \in Dirs \cup {NoDir}
    BY <1>2, ConstantsAssumption DEF Rename, Complete, Goto, May, frame, tree, Empty,
       Nothing, Staged, Dirs, Reserved, Inv, TypeOK
  <2>5. entries' \in [Names -> Runs \cup {Rival, NoFile}]
    BY <1>2, Orders, ConstantsAssumption DEF Rename, Complete, Goto, May, frame, tree,
       Empty, Nothing, Staged, Inv, TypeOK
  <2>6. touched' \in BOOLEAN
    BY <1>2, ConstantsAssumption DEF Rename, Complete, Goto, May, frame, tree, Empty,
       Nothing, Staged, Inv, TypeOK
  <2>7. /\ published' \in SUBSET Runs
        /\ outcome' \in [Runs -> {"pending", "ok", "failed"}]
    BY <1>2, ConstantsAssumption DEF Rename, Complete, Goto, May, frame, tree, Empty,
       Nothing, Staged, Inv, TypeOK
  <2>8. \A q \in Runs : at'[q] <= Len(Order(q)') + 1 /\ back'[q] <= at'[q]
    BY <1>1, <1>2, <2>1 DEF TypeOK
  <2>9. /\ platform' \in Platforms /\ caller' \in [Runs -> Callers]
        /\ at' \in [Runs -> Nat \ {0}]
        /\ back' \in [Runs -> Nat \ {0}]
        /\ reservation' \in [Runs -> Dirs \cup {NoDir}]
        /\ acts' \in 0 .. MaxRivalActs /\ crashes' \in 0 .. MaxCrashes
    BY <1>2, <2>1 DEF TypeOK
  <2>. QED
    BY <2>2, <2>3, <2>4, <2>5, <2>6, <2>7, <2>8, <2>9 DEF TypeOK
<1>4. Directory'
  BY <1>1, <1>2, Alone, ConstantsAssumption DEF Rename, Complete, Goto, May, frame, tree,
     Empty, Nothing, Staged, Window, Early, Late, Filler, Inv, Directory, Present, NoDir,
     Reserved, TypeOK
<1>5. Place'
  BY <1>1, <1>2, Alone, ConstantsAssumption DEF Rename, Complete, Goto, May, frame, tree,
     Empty, Nothing, Staged, Window, Early, Late, Filler, Inv, Place, Reserved, NoDir,
     TypeOK, Directory
<1>6. Position'
  BY <1>1, <1>2, ConstantsAssumption DEF Rename, Complete, Goto, May, frame, tree, Empty,
     Nothing, Staged, Window, Early, Late, Filler, Inv, Position, TypeOK
<1>7. Filled'
  <2>. SUFFICES ASSUME NEW q \in Runs, pc'[q] \in {"move", "back", "link"},
                       NEW i \in 1 .. (at'[q] - 1)
                PROVE  entries'[Order(q)[i]] = q
    BY <1>1 DEF Filled
  <2>1. q = r
    BY <1>2, Here DEF Rename, Goto, Complete, Window, TypeOK
  <2>. QED
    BY <1>2, <2>1 DEF Rename, Complete, Goto, TypeOK
<1>8. Checked'
  <2>1. pc'[r] # "unlink" /\ \A q \in Runs : q # r => pc'[q] = pc[q]
    BY <1>2 DEF Rename, Complete, Goto, TypeOK
  <2>2. \A q \in Runs : q # r => pc[q] # "unlink"
    BY Here DEF Rename, Window
  <2>. QED
    BY <2>1, <2>2 DEF Checked
<1>9. Indexed'
  <2>1. CASE entries' = entries /\ published' = published
    BY <1>1, <2>1 DEF Inv, Indexed, Whole
  <2>2. CASE /\ entries' = [n \in Names |-> IF n \in Own(r) THEN r ELSE NoFile]
             /\ published' = published \cup {r}
    <3>1. \A n \in Own(r) : entries'[n] = r
      BY <1>2, <2>2, Orders
    <3>2. \A q \in Runs : entries'[Index(q)] = q => q = r
      BY <1>2, <2>2, Orders, ConstantsAssumption
    <3>. QED
      BY <1>1, <2>2, <3>1, <3>2 DEF Indexed, Whole
  <2>. QED
    BY <2>1, <2>2 DEF Rename, Complete, tree
<1>10. Results'
  <2>1. /\ pc[r] \notin Late /\ outcome' = outcome /\ caller' = caller
        /\ \A q \in Runs : q # r => pc'[q] = pc[q]
    BY <1>2 DEF Rename, Complete, Goto, frame, Late, TypeOK
  <2>2. \/ pc'[r] \in {"remove"} /\ published' = published
        \/ pc'[r] = "finish" /\ published' = published \cup {r}
    BY <1>2 DEF Rename, Complete, Goto, TypeOK
  <2>. QED
    BY <2>1, <2>2 DEF Inv, Results, Late
<1>. QED
  BY <1>3, <1>4, <1>5, <1>6, <1>7, <1>8, <1>9, <1>10 DEF Inv

LEMMA MoveMemberInv ==
  ASSUME Inv, NEW r \in Runs, MoveMember(r)
  PROVE  Inv'
<1>1. \A q \in Runs : Order(q)' = Order(q) /\ Own(q)' = Own(q) /\ Index(q)' = Index(q)
  BY Fixed DEF Next, Step
<1>2. TypeOK /\ \A q \in Runs : Len(Order(q)) \in Nat \ {0}
  BY Orders DEF Inv
<1>3. TypeOK'
  <2>1. /\ platform' = platform /\ caller' = caller /\ acts' = acts /\ crashes' = crashes
        /\ back' = back /\ reservation' = reservation /\ target' = target /\ touched' = touched
        /\ outcome' = outcome
    BY DEF MoveMember, Complete, Goto, May, frame, Present
  <2>2. pc' \in [Runs -> Labels]
    <3>1. \/ pc' = pc
          \/ \E v \in Labels : pc' = [pc EXCEPT ![r] = v]
      BY <1>2, Orders DEF MoveMember, Complete, Goto, May, frame, Present, Labels,
         Window, TypeOK
    <3>. QED
      BY <1>2, <3>1, Update DEF TypeOK
  <2>3. at' \in [Runs -> Nat \ {0}]
    <3>1. at' = at \/ at' = [at EXCEPT ![r] = at[r] + 1]
      BY DEF MoveMember
    <3>2. at[r] + 1 \in Nat \ {0}
      BY <1>2 DEF TypeOK
    <3>. QED
      BY <1>2, <3>1, <3>2, Update DEF TypeOK
  <2>4. \A q \in Runs : at'[q] <= Len(Order(q)) + 1
    <3>. SUFFICES ASSUME NEW q \in Runs PROVE at'[q] <= Len(Order(q)) + 1
      OBVIOUS
    <3>1. back' = back /\ at'[q] \in {at[q], IF q = r THEN at[q] + 1 ELSE at[q]}
      BY <1>2 DEF MoveMember, TypeOK
    <3>2. at[q] \in Nat /\ back[q] \in Nat /\ back[q] <= at[q] /\ at[q] <= Len(Order(q)) + 1
      BY <1>2 DEF TypeOK
    <3>3. at[r] <= Len(Order(r))
      BY <1>2, Here DEF MoveMember, Window, Filler
    <3>. QED
      BY <1>2, <3>1, <3>2, <3>3
  <2>5. \A q \in Runs : back'[q] <= at'[q]
    <3>. SUFFICES ASSUME NEW q \in Runs PROVE back'[q] <= at'[q]
      OBVIOUS
    <3>1. back' = back /\ at'[q] \in {at[q], IF q = r THEN at[q] + 1 ELSE at[q]}
      BY <1>2 DEF MoveMember, TypeOK
    <3>2. at[q] \in Nat /\ back[q] \in Nat /\ back[q] <= at[q] /\ at[q] <= Len(Order(q)) + 1
      BY <1>2 DEF TypeOK
    <3>3. at[r] <= Len(Order(r))
      BY <1>2, Here DEF MoveMember, Window, Filler
    <3>. QED
      BY <1>2, <3>1, <3>2, <3>3
  <2>6. staged' \in [Runs -> SUBSET Names]
    <3>1. \/ staged' = staged
          \/ \E v \in SUBSET Names : staged' = [staged EXCEPT ![r] = v]
      BY <1>2, Orders DEF MoveMember, Complete, Goto, May, frame, Present, TypeOK
    <3>. QED
      BY <1>2, <3>1, Update DEF TypeOK
  <2>7. entries' \in [Names -> Runs \cup {Rival, NoFile}]
    <3>1. Order(r)[at[r]] \in Names
      BY Here DEF MoveMember, Window, Filler
    <3>2. \/ entries' = entries
          \/ entries' = [entries EXCEPT ![Order(r)[at[r]]] = r]
      BY DEF MoveMember
    <3>3. entries \in [Names -> Runs \cup {Rival, NoFile}]
      BY <1>2 DEF TypeOK
    <3>4. [entries EXCEPT ![Order(r)[at[r]]] = r] \in [Names -> Runs \cup {Rival, NoFile}]
      BY <3>1, <3>3
    <3>. QED
      BY <3>2, <3>3, <3>4
  <2>8. /\ published' \in SUBSET Runs
        /\ outcome' \in [Runs -> {"pending", "ok", "failed"}]
    BY <1>2, ConstantsAssumption DEF MoveMember, Complete, Goto, May, frame, Present,
       Inv, TypeOK
  <2>9. \A q \in Runs : at'[q] <= Len(Order(q)') + 1 /\ back'[q] <= at'[q]
    BY <1>1, <1>2, <2>1, <2>4, <2>5 DEF TypeOK
  <2>10. /\ platform' \in Platforms /\ caller' \in [Runs -> Callers]
        /\ back' \in [Runs -> Nat \ {0}]
        /\ reservation' \in [Runs -> Dirs \cup {NoDir}]
        /\ target' \in Dirs \cup {NoDir}
        /\ touched' \in BOOLEAN
        /\ acts' \in 0 .. MaxRivalActs /\ crashes' \in 0 .. MaxCrashes
    BY <1>2, <2>1 DEF TypeOK
  <2>. QED
    BY <2>2, <2>3, <2>4, <2>5, <2>6, <2>7, <2>8, <2>9, <2>10 DEF TypeOK
<1>4. Directory'
  <2>1. /\ target' = target /\ touched' = touched
        /\ \A n \in Names : entries'[n] \in {entries[n], r}
    BY <1>2 DEF MoveMember, TypeOK
  <2>. QED
    BY <2>1, Here, ConstantsAssumption DEF MoveMember, Window, Inv, Directory, Present
<1>5. Place'
  BY <1>1, <1>2, Alone, ConstantsAssumption DEF MoveMember, Complete, Goto, May, frame,
     Present, Window, Early, Late, Filler, Inv, Place, Reserved, Staged, NoDir, TypeOK,
     Directory
<1>6. Position'
  <2>1. \A q \in Runs : q # r => pc'[q] = pc[q] /\ at'[q] = at[q] /\ back'[q] = back[q]
    BY <1>2 DEF MoveMember, Complete, Goto, TypeOK
  <2>2. pc'[r] \in {"move", "back", "finish"} /\ back'[r] = back[r] /\ back[r] = 1
    BY <1>2 DEF MoveMember, Complete, Goto, Inv, TypeOK, Position, Late
  <2>3. pc'[r] \in {"move", "back"} => at'[r] <= Len(Order(r))
    <3>1. at[r] \in Nat /\ Len(Order(r)) \in Nat /\ at[r] <= Len(Order(r))
      BY <1>2, Here DEF MoveMember, Window, Filler
    <3>2. pc'[r] \in {"move", "back"} => at'[r] = at[r] \/ (at[r] # Len(Order(r)) /\ at'[r] = at[r] + 1)
      BY <1>2 DEF MoveMember, Complete, Goto, TypeOK
    <3>. QED
      BY <3>1, <3>2
  <2>. QED
    BY <1>1, <2>1, <2>2, <2>3 DEF Inv, Position, Early, Late, Filler
<1>7. Filled'
  <2>. SUFFICES ASSUME NEW q \in Runs, pc'[q] \in {"move", "back", "link"},
                       NEW i \in 1 .. (at'[q] - 1)
                PROVE  entries'[Order(q)[i]] = q
    BY <1>1 DEF Filled
  <2>1. q = r
    BY <1>2, Here DEF MoveMember, Goto, Complete, Window, TypeOK
  <2>2. Order(r)[at[r]] \in Names /\ at[r] \in Nat \ {0}
    BY Here DEF MoveMember, Window, Filler
  <2>3. \A j \in 1 .. (at[r] - 1) : entries[Order(r)[j]] = r /\ Order(r)[j] \in Names
    <3>1. \A j \in 1 .. (at[r] - 1) : j \in 1 .. Len(Order(r))
      BY <1>2, Here DEF MoveMember, Window, Filler
    <3>. QED
      BY <1>2, <3>1, Orders DEF MoveMember, Inv, Filled
  <2>4. CASE entries' = entries /\ at' = at
    BY <2>1, <2>3, <2>4
  <2>5. CASE /\ entries' = [entries EXCEPT ![Order(r)[at[r]]] = r]
             /\ at' = [at EXCEPT ![r] = @ + 1]
    <3>1. at'[r] - 1 = at[r]
      BY <1>2, <2>2, <2>5 DEF TypeOK
    <3>2. i = at[r] \/ i \in 1 .. (at[r] - 1)
      BY <2>1, <2>2, <3>1
    <3>. QED
      BY <1>2, <2>1, <2>2, <2>3, <2>5, <3>2 DEF TypeOK
  <2>. QED
    BY <2>4, <2>5 DEF MoveMember
<1>8. Checked'
  <2>1. pc'[r] # "unlink" /\ \A q \in Runs : q # r => pc'[q] = pc[q]
    BY <1>2 DEF MoveMember, Complete, Goto, TypeOK
  <2>2. \A q \in Runs : q # r => pc[q] # "unlink"
    BY Here DEF MoveMember, Window
  <2>. QED
    BY <2>1, <2>2 DEF Checked
<1>9. Indexed'
  <2>. SUFFICES ASSUME NEW q \in Runs, entries'[Index(q)] = q
                PROVE  q \in published' /\ \A n \in Own(q) : entries'[n] = q
    BY <1>1 DEF Indexed, Whole
  <2>. DEFINE n == Order(r)[at[r]]
  <2>1. pc[r] \in Window /\ pc[r] \in Filler
    BY DEF MoveMember, Window, Filler
  <2>2. CASE entries' = entries /\ published' = published
    BY <2>2 DEF Inv, Indexed, Whole
  <2>3. CASE /\ entries' = [entries EXCEPT ![n] = r]
             /\ IF at[r] = Len(Order(r)) THEN published' = published \cup {r}
                                        ELSE published' = published
    <3>1. q = r
      BY <1>2, <2>1, <2>3, Here, Orders DEF TypeOK
    <3>2. at[r] = Len(Order(r))
      <4>. SUFFICES ASSUME at[r] # Len(Order(r)) PROVE FALSE
        OBVIOUS
      <4>1. n # Index(r)
        BY <1>2, <2>1, Here, Orders
      <4>2. entries[Index(r)] = r
        BY <1>2, <2>3, <3>1, <4>1, Orders DEF TypeOK
      <4>. QED
        BY <2>1, <4>2, Here DEF Inv, Indexed
    <3>3. \A i \in 1 .. (at[r] - 1) : entries[Order(r)[i]] = r
      BY DEF MoveMember, Inv, Filled
    <3>4. \A i \in 1 .. Len(Order(r)) : entries'[Order(r)[i]] = r
      <4>. SUFFICES ASSUME NEW i \in 1 .. Len(Order(r)) PROVE entries'[Order(r)[i]] = r
        OBVIOUS
      <4>1. i = at[r] \/ i \in 1 .. (at[r] - 1)
        BY <1>2, <3>2, Orders
      <4>2. Order(r)[i] \in Names /\ entries \in [Names -> Runs \cup {Rival, NoFile}]
        BY <1>2, Orders DEF TypeOK
      <4>. QED
        BY <2>3, <3>3, <4>1, <4>2
    <3>. QED
      BY <1>2, <2>3, <3>1, <3>2, <3>4, Orders
  <2>. QED
    BY <2>2, <2>3 DEF MoveMember, Complete
<1>10. Results'
  <2>1. /\ pc[r] \notin Late /\ outcome' = outcome /\ caller' = caller
        /\ \A q \in Runs : q # r => pc'[q] = pc[q]
    BY <1>2 DEF MoveMember, Complete, Goto, frame, Late, TypeOK
  <2>2. \/ pc'[r] \in {"move", "back"} /\ published' = published
        \/ pc'[r] = "finish" /\ published' = published \cup {r}
    BY <1>2 DEF MoveMember, Complete, Goto, TypeOK
  <2>. QED
    BY <2>1, <2>2 DEF Inv, Results, Late
<1>. QED
  BY <1>3, <1>4, <1>5, <1>6, <1>7, <1>8, <1>9, <1>10 DEF Inv

LEMMA MoveBackInv ==
  ASSUME Inv, NEW r \in Runs, MoveBack(r)
  PROVE  Inv'
<1>1. \A q \in Runs : Order(q)' = Order(q) /\ Own(q)' = Own(q) /\ Index(q)' = Index(q)
  BY Fixed DEF Next, Step
<1>2. TypeOK /\ \A q \in Runs : Len(Order(q)) \in Nat \ {0}
  BY Orders DEF Inv
<1>3. TypeOK'
  <2>1. /\ platform' = platform /\ caller' = caller /\ acts' = acts /\ crashes' = crashes
        /\ back' = back /\ reservation' = reservation /\ target' = target /\ touched' = touched
        /\ published' = published /\ outcome' = outcome
    BY DEF MoveBack, Goto, May, frame
  <2>2. pc' \in [Runs -> Labels]
    <3>1. \/ pc' = pc
          \/ \E v \in Labels : pc' = [pc EXCEPT ![r] = v]
      BY <1>2, Orders DEF MoveBack, Goto, May, frame, Labels, Window, TypeOK
    <3>. QED
      BY <1>2, <3>1, Update DEF TypeOK
  <2>3. at' \in [Runs -> Nat \ {0}]
    BY <1>2, ConstantsAssumption DEF MoveBack, Goto, May, frame, Position, Filler, Inv,
       TypeOK
  <2>4. \A q \in Runs : at'[q] <= Len(Order(q)) + 1
    <3>. SUFFICES ASSUME NEW q \in Runs PROVE at'[q] <= Len(Order(q)) + 1
      OBVIOUS
    <3>1. back' = back /\ (at' = at \/ (at[r] # 1 /\ at' = [at EXCEPT ![r] = @ - 1]))
      BY DEF MoveBack
    <3>2. at[q] \in Nat \ {0} /\ back[q] \in Nat /\ back[q] <= at[q] /\ at[q] <= Len(Order(q)) + 1
      BY <1>2 DEF TypeOK
    <3>3. back[r] = 1
      BY DEF MoveBack, Inv, Position, Late
    <3>4. at'[q] = at[q] \/ (q = r /\ at[r] # 1 /\ at'[q] = at[q] - 1)
      BY <1>2, <3>1 DEF TypeOK
    <3>. QED
      BY <1>2, <3>1, <3>2, <3>3, <3>4
  <2>5. \A q \in Runs : back'[q] <= at'[q]
    <3>. SUFFICES ASSUME NEW q \in Runs PROVE back'[q] <= at'[q]
      OBVIOUS
    <3>1. back' = back /\ (at' = at \/ (at[r] # 1 /\ at' = [at EXCEPT ![r] = @ - 1]))
      BY DEF MoveBack
    <3>2. at[q] \in Nat \ {0} /\ back[q] \in Nat /\ back[q] <= at[q] /\ at[q] <= Len(Order(q)) + 1
      BY <1>2 DEF TypeOK
    <3>3. back[r] = 1
      BY DEF MoveBack, Inv, Position, Late
    <3>4. at'[q] = at[q] \/ (q = r /\ at[r] # 1 /\ at'[q] = at[q] - 1)
      BY <1>2, <3>1 DEF TypeOK
    <3>. QED
      BY <1>2, <3>1, <3>2, <3>3, <3>4
  <2>6. staged' \in [Runs -> SUBSET Names]
    <3>1. \/ staged' = staged
          \/ \E v \in SUBSET Names : staged' = [staged EXCEPT ![r] = v]
      BY <1>2, Orders DEF MoveBack, Goto, May, frame, TypeOK
    <3>. QED
      BY <1>2, <3>1, Update DEF TypeOK
  <2>7. entries' \in [Names -> Runs \cup {Rival, NoFile}]
    BY <1>2, Orders, ConstantsAssumption DEF MoveBack, Goto, May, frame, Nothing, Inv,
       TypeOK
  <2>8. \A q \in Runs : at'[q] <= Len(Order(q)') + 1 /\ back'[q] <= at'[q]
    BY <1>1, <1>2, <2>1, <2>4, <2>5 DEF TypeOK
  <2>9. /\ platform' \in Platforms /\ caller' \in [Runs -> Callers]
        /\ back' \in [Runs -> Nat \ {0}]
        /\ reservation' \in [Runs -> Dirs \cup {NoDir}]
        /\ target' \in Dirs \cup {NoDir}
        /\ touched' \in BOOLEAN
        /\ published' \in SUBSET Runs
        /\ outcome' \in [Runs -> {"pending", "ok", "failed"}]
        /\ acts' \in 0 .. MaxRivalActs /\ crashes' \in 0 .. MaxCrashes
    BY <1>2, <2>1 DEF TypeOK
  <2>. QED
    BY <2>2, <2>3, <2>4, <2>5, <2>6, <2>7, <2>8, <2>9 DEF TypeOK
<1>4. Directory'
  <2>1. /\ target' = target /\ touched' = touched
        /\ \A n \in Names : entries'[n] \in {entries[n], NoFile}
    BY <1>2 DEF MoveBack, TypeOK
  <2>. QED
    BY <2>1, Here, ConstantsAssumption DEF MoveBack, Window, Inv, Directory, Present
<1>5. Place'
  BY <1>1, <1>2, Alone, ConstantsAssumption DEF MoveBack, Goto, May, frame, Window,
     Early, Late, Filler, Inv, Place, Reserved, Staged, NoDir, TypeOK, Directory
<1>6. Position'
  BY <1>1, <1>2, ConstantsAssumption DEF MoveBack, Goto, May, frame, Window, Early, Late,
     Filler, Inv, Position, TypeOK
<1>7. Filled'
  <2>. SUFFICES ASSUME NEW q \in Runs, pc'[q] \in {"move", "back", "link"},
                       NEW i \in 1 .. (at'[q] - 1)
                PROVE  entries'[Order(q)[i]] = q
    BY <1>1 DEF Filled
  <2>1. q = r
    BY <1>2, Here DEF MoveBack, Goto, Complete, Window, TypeOK
  <2>2. at'[r] \in {at[r], at[r] - 1} /\ at[r] \in Nat \ {0} /\ at[r] <= Len(Order(r))
    BY <1>2, Here DEF MoveBack, TypeOK, Window, Filler
  <2>3. i \in 1 .. (at[r] - 1) /\ i \in 1 .. Len(Order(r))
    BY <1>2, <2>1, <2>2
  <2>4. entries[Order(r)[i]] = r /\ Order(r)[i] \in Names
    BY <1>2, <2>3, Orders DEF MoveBack, Inv, Filled
  <2>5. CASE entries' = entries
    BY <2>1, <2>4, <2>5
  <2>6. CASE at'[r] = at[r] - 1 /\ entries' = [entries EXCEPT ![Order(r)[at[r] - 1]] = NoFile]
    <3>1. i # at[r] - 1 /\ at[r] - 1 \in 1 .. Len(Order(r))
      BY <1>2, <2>1, <2>2, <2>3, <2>6
    <3>2. Order(r)[i] # Order(r)[at[r] - 1]
      BY <1>2, <2>3, <3>1, Orders
    <3>. QED
      BY <1>2, <2>1, <2>4, <2>6, <3>2 DEF TypeOK
  <2>. QED
    BY <1>2, <2>5, <2>6 DEF MoveBack, TypeOK
<1>8. Checked'
  <2>1. pc'[r] # "unlink" /\ \A q \in Runs : q # r => pc'[q] = pc[q]
    BY <1>2 DEF MoveBack, Complete, Goto, TypeOK
  <2>2. \A q \in Runs : q # r => pc[q] # "unlink"
    BY Here DEF MoveBack, Window
  <2>. QED
    BY <2>1, <2>2 DEF Checked
<1>9. Indexed'
  <2>1. \A n \in Names : entries'[n] \in {entries[n], NoFile}
    BY <1>2 DEF MoveBack, TypeOK
  <2>2. ASSUME NEW q \in Runs
        PROVE  entries'[Index(q)] # q
    <3>1. entries[Index(q)] # q
      BY Here DEF MoveBack, Window, Inv, Indexed
    <3>. QED
      BY <1>2, <2>1, <3>1, Orders, ConstantsAssumption
  <2>. QED
    BY <1>1, <2>2 DEF Indexed
<1>10. Results'
  BY <1>1, <1>2, ConstantsAssumption DEF MoveBack, Goto, May, frame, Window, Early, Late,
     Filler, Inv, Results, TypeOK
<1>. QED
  BY <1>3, <1>4, <1>5, <1>6, <1>7, <1>8, <1>9, <1>10 DEF Inv

LEMMA RemoveReservationInv ==
  ASSUME Inv, NEW r \in Runs, RemoveReservation(r)
  PROVE  Inv'
<1>1. \A q \in Runs : Order(q)' = Order(q) /\ Own(q)' = Own(q) /\ Index(q)' = Index(q)
  BY Fixed DEF Next, Step
<1>2. TypeOK /\ \A q \in Runs : Len(Order(q)) \in Nat \ {0}
  BY Orders DEF Inv
<1>3. TypeOK'
  <2>1. /\ platform' = platform /\ caller' = caller /\ acts' = acts /\ crashes' = crashes
        /\ at' = at /\ back' = back /\ reservation' = reservation /\ entries' = entries
        /\ published' = published
    BY DEF RemoveReservation, Fail, Return, Goto, May, frame, Empty, Present, Nothing,
       NoDir
  <2>2. pc' \in [Runs -> Labels]
    <3>1. \/ pc' = pc
          \/ \E v \in Labels : pc' = [pc EXCEPT ![r] = v]
      BY <1>2, Orders DEF RemoveReservation, Fail, Return, Goto, May, frame, Empty,
         Present, Nothing, NoDir, Labels, Window, TypeOK
    <3>. QED
      BY <1>2, <3>1, Update DEF TypeOK
  <2>3. staged' \in [Runs -> SUBSET Names]
    <3>1. \/ staged' = staged
          \/ \E v \in SUBSET Names : staged' = [staged EXCEPT ![r] = v]
      BY <1>2, Orders DEF RemoveReservation, Fail, Return, Goto, May, frame, Empty,
         Present, Nothing, NoDir, TypeOK
    <3>. QED
      BY <1>2, <3>1, Update DEF TypeOK
  <2>4. target' \in Dirs \cup {NoDir}
    BY <1>2, ConstantsAssumption DEF RemoveReservation, Fail, Return, Goto, May, frame,
       Empty, Present, Nothing, NoDir, Dirs, Reserved, Staged, Inv, TypeOK
  <2>5. touched' \in BOOLEAN
    BY <1>2, ConstantsAssumption DEF RemoveReservation, Fail, Return, Goto, May, frame,
       Empty, Present, Nothing, NoDir, Inv, TypeOK
  <2>6. /\ published' \in SUBSET Runs
        /\ outcome' \in [Runs -> {"pending", "ok", "failed"}]
    BY <1>2, ConstantsAssumption DEF RemoveReservation, Fail, Return, Goto, May, frame,
       Empty, Present, Nothing, NoDir, Inv, TypeOK
  <2>7. \A q \in Runs : at'[q] <= Len(Order(q)') + 1 /\ back'[q] <= at'[q]
    BY <1>1, <1>2, <2>1 DEF TypeOK
  <2>8. /\ platform' \in Platforms /\ caller' \in [Runs -> Callers]
        /\ at' \in [Runs -> Nat \ {0}]
        /\ back' \in [Runs -> Nat \ {0}]
        /\ reservation' \in [Runs -> Dirs \cup {NoDir}]
        /\ entries' \in [Names -> Runs \cup {Rival, NoFile}]
        /\ acts' \in 0 .. MaxRivalActs /\ crashes' \in 0 .. MaxCrashes
    BY <1>2, <2>1 DEF TypeOK
  <2>. QED
    BY <2>2, <2>3, <2>4, <2>5, <2>6, <2>7, <2>8 DEF TypeOK
<1>4. Directory'
  BY <1>1, <1>2, Alone, ConstantsAssumption DEF RemoveReservation, Fail, Return, Goto,
     May, frame, Empty, Present, Nothing, NoDir, Window, Early, Late, Filler, Inv,
     Directory, Reserved, Staged, TypeOK
<1>5. Place'
  BY <1>1, <1>2, Alone, ConstantsAssumption DEF RemoveReservation, Fail, Return, Goto,
     May, frame, Empty, Present, Nothing, NoDir, Window, Early, Late, Filler, Inv, Place,
     Reserved, Staged, TypeOK, Directory
<1>6. Position'
  BY <1>1, <1>2, ConstantsAssumption DEF RemoveReservation, Fail, Return, Goto, May,
     frame, Empty, Present, Nothing, NoDir, Window, Early, Late, Filler, Inv, Position,
     TypeOK
<1>7. Filled'
  <2>. SUFFICES ASSUME NEW q \in Runs, pc'[q] \in {"move", "back", "link"},
                       NEW i \in 1 .. (at'[q] - 1)
                PROVE  entries'[Order(q)[i]] = q
    BY <1>1 DEF Filled
  <2>1. pc'[q] = pc[q] /\ at' = at /\ entries' = entries
    BY <1>2 DEF RemoveReservation, Fail, Return, Goto, May, frame, Empty, Present,
       Nothing, NoDir, TypeOK
  <2>. QED
    BY <2>1 DEF Inv, Filled
<1>8. Checked'
  BY <1>1, <1>2, ConstantsAssumption DEF RemoveReservation, Fail, Return, Goto, May,
     frame, Empty, Present, Nothing, NoDir, Window, Early, Late, Filler, Inv, Checked,
     TypeOK, Position
<1>9. Indexed'
  BY <1>1, <1>2, Alone, Orders, ConstantsAssumption DEF RemoveReservation, Fail, Return,
     Goto, May, frame, Empty, Present, Nothing, NoDir, Window, Early, Late, Filler, Inv,
     Indexed, Whole, TypeOK
<1>10. Results'
  BY <1>1, <1>2, ConstantsAssumption DEF RemoveReservation, Fail, Return, Goto, May,
     frame, Empty, Present, Nothing, NoDir, Window, Early, Late, Filler, Inv, Results,
     TypeOK
<1>. QED
  BY <1>3, <1>4, <1>5, <1>6, <1>7, <1>8, <1>9, <1>10 DEF Inv

LEMMA IdentifyInv ==
  ASSUME Inv, NEW r \in Runs, Identify(r)
  PROVE  Inv'
<1>1. \A q \in Runs : Order(q)' = Order(q) /\ Own(q)' = Own(q) /\ Index(q)' = Index(q)
  BY Fixed DEF Next, Step
<1>2. TypeOK /\ \A q \in Runs : Len(Order(q)) \in Nat \ {0}
  BY Orders DEF Inv
<1>3. TypeOK'
  <2>1. /\ platform' = platform /\ caller' = caller /\ acts' = acts /\ crashes' = crashes
        /\ at' = at /\ back' = back /\ target' = target /\ entries' = entries
        /\ touched' = touched /\ published' = published
    BY DEF Identify, Fail, Return, Goto, May, frame, tree, Present
  <2>2. pc' \in [Runs -> Labels]
    <3>1. \/ pc' = pc
          \/ \E v \in Labels : pc' = [pc EXCEPT ![r] = v]
      BY <1>2, Orders DEF Identify, Fail, Return, Goto, May, frame, tree, Present,
         Labels, Window, TypeOK
    <3>. QED
      BY <1>2, <3>1, Update DEF TypeOK
  <2>3. reservation' \in [Runs -> Dirs \cup {NoDir}]
    <3>1. \/ reservation' = reservation
          \/ \E v \in Dirs \cup {NoDir} : reservation' = [reservation EXCEPT ![r] = v]
      BY <1>2, Orders DEF Identify, Fail, Return, Goto, May, frame, tree, Present, TypeOK
    <3>. QED
      BY <1>2, <3>1, Update DEF TypeOK
  <2>4. staged' \in [Runs -> SUBSET Names]
    <3>1. \/ staged' = staged
          \/ \E v \in SUBSET Names : staged' = [staged EXCEPT ![r] = v]
      BY <1>2, Orders DEF Identify, Fail, Return, Goto, May, frame, tree, Present, TypeOK
    <3>. QED
      BY <1>2, <3>1, Update DEF TypeOK
  <2>5. /\ published' \in SUBSET Runs
        /\ outcome' \in [Runs -> {"pending", "ok", "failed"}]
    BY <1>2, ConstantsAssumption DEF Identify, Fail, Return, Goto, May, frame, tree,
       Present, Inv, TypeOK
  <2>6. \A q \in Runs : at'[q] <= Len(Order(q)') + 1 /\ back'[q] <= at'[q]
    BY <1>1, <1>2, <2>1 DEF TypeOK
  <2>7. /\ platform' \in Platforms /\ caller' \in [Runs -> Callers]
        /\ at' \in [Runs -> Nat \ {0}]
        /\ back' \in [Runs -> Nat \ {0}]
        /\ target' \in Dirs \cup {NoDir}
        /\ entries' \in [Names -> Runs \cup {Rival, NoFile}]
        /\ touched' \in BOOLEAN
        /\ acts' \in 0 .. MaxRivalActs /\ crashes' \in 0 .. MaxCrashes
    BY <1>2, <2>1 DEF TypeOK
  <2>. QED
    BY <2>2, <2>3, <2>4, <2>5, <2>6, <2>7 DEF TypeOK
<1>4. Directory'
  BY <1>1, <1>2, ConstantsAssumption DEF Identify, Fail, Return, Goto, May, frame, tree,
     Present, Window, Early, Late, Filler, Inv, Directory, Empty, Nothing, NoDir,
     Reserved, Staged, TypeOK
<1>5. Place'
  BY <1>1, <1>2, ConstantsAssumption DEF Identify, Fail, Return, Goto, May, frame, tree,
     Present, Window, Early, Late, Filler, Inv, Place, Reserved, Staged, NoDir, TypeOK,
     Directory
<1>6. Position'
  BY <1>1, <1>2, ConstantsAssumption DEF Identify, Fail, Return, Goto, May, frame, tree,
     Present, Window, Early, Late, Filler, Inv, Position, TypeOK
<1>7. Filled'
  <2>. SUFFICES ASSUME NEW q \in Runs, pc'[q] \in {"move", "back", "link"},
                       NEW i \in 1 .. (at'[q] - 1)
                PROVE  entries'[Order(q)[i]] = q
    BY <1>1 DEF Filled
  <2>1. at' = at /\ entries' = entries /\ at[r] = 1
    BY DEF Identify, tree, Inv, Position
  <2>2. q # r => pc'[q] = pc[q]
    BY <1>2 DEF Identify, Fail, Return, Goto, TypeOK
  <2>. QED
    BY <2>1, <2>2 DEF Inv, Filled
<1>8. Checked'
  <2>1. \/ pc' = pc
        \/ \E l \in Labels \ {"unlink"} : pc' = [pc EXCEPT ![r] = l]
    BY DEF Identify, Fail, Return, Goto, May, frame, tree, Present, Labels, Window
  <2>2. /\ entries' = entries /\ back' = back
        /\ \A q \in Runs : pc'[q] = "unlink" => pc[q] = "unlink"
    BY <1>2, <2>1 DEF Identify, tree, TypeOK
  <2>. QED
    BY <1>1, <2>2 DEF Inv, Checked
<1>9. Indexed'
  BY <1>1, <1>2, ConstantsAssumption DEF Identify, Fail, Return, Goto, May, frame, tree,
     Present, Window, Early, Late, Filler, Inv, Indexed, Whole, TypeOK
<1>10. Results'
  <2>1. /\ published' = published /\ caller' = caller /\ pc[r] \notin Late
        /\ \A q \in Runs : q # r => pc'[q] = pc[q] /\ outcome'[q] = outcome[q]
    BY <1>2 DEF Identify, Fail, Return, Goto, May, frame, tree, Present, Late, TypeOK
  <2>2. \/ pc'[r] \in {"link"} /\ outcome'[r] = outcome[r]
        \/ pc'[r] = "done" /\ outcome'[r] = "failed"
    BY <1>2 DEF Identify, Fail, Return, Goto, May, frame, tree, Present, TypeOK
  <2>. QED
    BY <2>1, <2>2 DEF Inv, Results, Late
<1>. QED
  BY <1>3, <1>4, <1>5, <1>6, <1>7, <1>8, <1>9, <1>10 DEF Inv

LEMMA LinkMemberInv ==
  ASSUME Inv, NEW r \in Runs, LinkMember(r)
  PROVE  Inv'
<1>1. \A q \in Runs : Order(q)' = Order(q) /\ Own(q)' = Own(q) /\ Index(q)' = Index(q)
  BY Fixed DEF Next, Step
<1>2. TypeOK /\ \A q \in Runs : Len(Order(q)) \in Nat \ {0}
  BY Orders DEF Inv
<1>3. TypeOK'
  <2>1. /\ platform' = platform /\ caller' = caller /\ acts' = acts /\ crashes' = crashes
        /\ back' = back /\ reservation' = reservation /\ staged' = staged /\ target' = target
        /\ touched' = touched /\ outcome' = outcome
    BY DEF LinkMember, Complete, Goto, May, frame, Present
  <2>2. pc' \in [Runs -> Labels]
    <3>1. \/ pc' = pc
          \/ \E v \in Labels : pc' = [pc EXCEPT ![r] = v]
      BY <1>2, Orders DEF LinkMember, Complete, Goto, May, frame, Present, Labels,
         Window, TypeOK
    <3>. QED
      BY <1>2, <3>1, Update DEF TypeOK
  <2>3. at' \in [Runs -> Nat \ {0}]
    <3>1. at' = at \/ at' = [at EXCEPT ![r] = at[r] + 1]
      BY DEF LinkMember
    <3>2. at[r] + 1 \in Nat \ {0}
      BY <1>2 DEF TypeOK
    <3>. QED
      BY <1>2, <3>1, <3>2, Update DEF TypeOK
  <2>4. \A q \in Runs : at'[q] <= Len(Order(q)) + 1
    <3>. SUFFICES ASSUME NEW q \in Runs PROVE at'[q] <= Len(Order(q)) + 1
      OBVIOUS
    <3>1. back' = back /\ at'[q] \in {at[q], IF q = r THEN at[q] + 1 ELSE at[q]}
      BY <1>2 DEF LinkMember, TypeOK
    <3>2. at[q] \in Nat /\ back[q] \in Nat /\ back[q] <= at[q] /\ at[q] <= Len(Order(q)) + 1
      BY <1>2 DEF TypeOK
    <3>3. at[r] <= Len(Order(r))
      BY <1>2, Here DEF LinkMember, Window, Filler
    <3>. QED
      BY <1>2, <3>1, <3>2, <3>3
  <2>5. \A q \in Runs : back'[q] <= at'[q]
    <3>. SUFFICES ASSUME NEW q \in Runs PROVE back'[q] <= at'[q]
      OBVIOUS
    <3>1. back' = back /\ at'[q] \in {at[q], IF q = r THEN at[q] + 1 ELSE at[q]}
      BY <1>2 DEF LinkMember, TypeOK
    <3>2. at[q] \in Nat /\ back[q] \in Nat /\ back[q] <= at[q] /\ at[q] <= Len(Order(q)) + 1
      BY <1>2 DEF TypeOK
    <3>3. at[r] <= Len(Order(r))
      BY <1>2, Here DEF LinkMember, Window, Filler
    <3>. QED
      BY <1>2, <3>1, <3>2, <3>3
  <2>6. entries' \in [Names -> Runs \cup {Rival, NoFile}]
    <3>1. Order(r)[at[r]] \in Names
      BY Here DEF LinkMember, Window, Filler
    <3>2. \/ entries' = entries
          \/ entries' = [entries EXCEPT ![Order(r)[at[r]]] = r]
      BY DEF LinkMember
    <3>3. entries \in [Names -> Runs \cup {Rival, NoFile}]
      BY <1>2 DEF TypeOK
    <3>4. [entries EXCEPT ![Order(r)[at[r]]] = r] \in [Names -> Runs \cup {Rival, NoFile}]
      BY <3>1, <3>3
    <3>. QED
      BY <3>2, <3>3, <3>4
  <2>7. /\ published' \in SUBSET Runs
        /\ outcome' \in [Runs -> {"pending", "ok", "failed"}]
    BY <1>2, ConstantsAssumption DEF LinkMember, Complete, Goto, May, frame, Present,
       Inv, TypeOK
  <2>8. \A q \in Runs : at'[q] <= Len(Order(q)') + 1 /\ back'[q] <= at'[q]
    BY <1>1, <1>2, <2>1, <2>4, <2>5 DEF TypeOK
  <2>9. /\ platform' \in Platforms /\ caller' \in [Runs -> Callers]
        /\ back' \in [Runs -> Nat \ {0}]
        /\ reservation' \in [Runs -> Dirs \cup {NoDir}]
        /\ staged' \in [Runs -> SUBSET Names]
        /\ target' \in Dirs \cup {NoDir}
        /\ touched' \in BOOLEAN
        /\ acts' \in 0 .. MaxRivalActs /\ crashes' \in 0 .. MaxCrashes
    BY <1>2, <2>1 DEF TypeOK
  <2>. QED
    BY <2>2, <2>3, <2>4, <2>5, <2>6, <2>7, <2>8, <2>9 DEF TypeOK
<1>4. Directory'
  <2>1. /\ target' = target /\ touched' = touched
        /\ \A n \in Names : entries'[n] \in {entries[n], r}
    BY <1>2 DEF LinkMember, TypeOK
  <2>. QED
    BY <2>1, Here, ConstantsAssumption DEF LinkMember, Window, Inv, Directory, Present
<1>5. Place'
  <2>1. /\ target' = target /\ reservation' = reservation
        /\ pc'[r] \in {"link", "check", "finish"} /\ \A q \in Runs : q # r => pc'[q] = pc[q]
    BY <1>2 DEF LinkMember, Complete, Goto, TypeOK
  <2>2. target = Reserved(r) /\ reservation[r] = Reserved(r)
    BY DEF LinkMember, Inv, Place, Window
  <2>. QED
    BY <2>1, <2>2 DEF Inv, Place, Window, Early, Reserved, Staged
<1>6. Position'
  <2>1. \A q \in Runs : q # r => pc'[q] = pc[q] /\ at'[q] = at[q] /\ back'[q] = back[q]
    BY <1>2 DEF LinkMember, Complete, Goto, TypeOK
  <2>2. pc'[r] \in {"link", "check", "finish"} /\ back'[r] = back[r] /\ back[r] = 1
    BY <1>2 DEF LinkMember, Complete, Goto, Inv, TypeOK, Position, Late
  <2>3. pc'[r] \in {"link", "check"} => at'[r] <= Len(Order(r))
    <3>1. at[r] \in Nat /\ Len(Order(r)) \in Nat /\ at[r] <= Len(Order(r))
      BY <1>2, Here DEF LinkMember, Window, Filler
    <3>2. pc'[r] \in {"link", "check"} => at'[r] = at[r] \/ (at[r] # Len(Order(r)) /\ at'[r] = at[r] + 1)
      BY <1>2 DEF LinkMember, Complete, Goto, TypeOK
    <3>. QED
      BY <3>1, <3>2
  <2>. QED
    BY <1>1, <2>1, <2>2, <2>3 DEF Inv, Position, Early, Late, Filler
<1>7. Filled'
  <2>. SUFFICES ASSUME NEW q \in Runs, pc'[q] \in {"move", "back", "link"},
                       NEW i \in 1 .. (at'[q] - 1)
                PROVE  entries'[Order(q)[i]] = q
    BY <1>1 DEF Filled
  <2>1. q = r
    BY <1>2, Here DEF LinkMember, Goto, Complete, Window, TypeOK
  <2>2. Order(r)[at[r]] \in Names /\ at[r] \in Nat \ {0}
    BY Here DEF LinkMember, Window, Filler
  <2>3. \A j \in 1 .. (at[r] - 1) : entries[Order(r)[j]] = r /\ Order(r)[j] \in Names
    <3>1. \A j \in 1 .. (at[r] - 1) : j \in 1 .. Len(Order(r))
      BY <1>2, Here DEF LinkMember, Window, Filler
    <3>. QED
      BY <1>2, <3>1, Orders DEF LinkMember, Inv, Filled
  <2>4. CASE entries' = entries /\ at' = at
    BY <2>1, <2>3, <2>4
  <2>5. CASE /\ entries' = [entries EXCEPT ![Order(r)[at[r]]] = r]
             /\ at' = [at EXCEPT ![r] = @ + 1]
    <3>1. at'[r] - 1 = at[r]
      BY <1>2, <2>2, <2>5 DEF TypeOK
    <3>2. i = at[r] \/ i \in 1 .. (at[r] - 1)
      BY <2>1, <2>2, <3>1
    <3>. QED
      BY <1>2, <2>1, <2>2, <2>3, <2>5, <3>2 DEF TypeOK
  <2>. QED
    BY <2>4, <2>5 DEF LinkMember
<1>8. Checked'
  <2>1. pc'[r] # "unlink" /\ \A q \in Runs : q # r => pc'[q] = pc[q]
    BY <1>2 DEF LinkMember, Complete, Goto, TypeOK
  <2>2. \A q \in Runs : q # r => pc[q] # "unlink"
    BY Here DEF LinkMember, Window
  <2>. QED
    BY <2>1, <2>2 DEF Checked
<1>9. Indexed'
  <2>. SUFFICES ASSUME NEW q \in Runs, entries'[Index(q)] = q
                PROVE  q \in published' /\ \A n \in Own(q) : entries'[n] = q
    BY <1>1 DEF Indexed, Whole
  <2>. DEFINE n == Order(r)[at[r]]
  <2>1. pc[r] \in Window /\ pc[r] \in Filler
    BY DEF LinkMember, Window, Filler
  <2>2. CASE entries' = entries /\ published' = published
    BY <2>2 DEF Inv, Indexed, Whole
  <2>3. CASE /\ entries' = [entries EXCEPT ![n] = r]
             /\ IF at[r] = Len(Order(r)) THEN published' = published \cup {r}
                                        ELSE published' = published
    <3>1. q = r
      BY <1>2, <2>1, <2>3, Here, Orders DEF TypeOK
    <3>2. at[r] = Len(Order(r))
      <4>. SUFFICES ASSUME at[r] # Len(Order(r)) PROVE FALSE
        OBVIOUS
      <4>1. n # Index(r)
        BY <1>2, <2>1, Here, Orders
      <4>2. entries[Index(r)] = r
        BY <1>2, <2>3, <3>1, <4>1, Orders DEF TypeOK
      <4>. QED
        BY <2>1, <4>2, Here DEF Inv, Indexed
    <3>3. \A i \in 1 .. (at[r] - 1) : entries[Order(r)[i]] = r
      BY DEF LinkMember, Inv, Filled
    <3>4. \A i \in 1 .. Len(Order(r)) : entries'[Order(r)[i]] = r
      <4>. SUFFICES ASSUME NEW i \in 1 .. Len(Order(r)) PROVE entries'[Order(r)[i]] = r
        OBVIOUS
      <4>1. i = at[r] \/ i \in 1 .. (at[r] - 1)
        BY <1>2, <3>2, Orders
      <4>2. Order(r)[i] \in Names /\ entries \in [Names -> Runs \cup {Rival, NoFile}]
        BY <1>2, Orders DEF TypeOK
      <4>. QED
        BY <2>3, <3>3, <4>1, <4>2
    <3>. QED
      BY <1>2, <2>3, <3>1, <3>2, <3>4, Orders
  <2>. QED
    BY <2>2, <2>3 DEF LinkMember, Complete
<1>10. Results'
  <2>1. /\ pc[r] \notin Late /\ outcome' = outcome /\ caller' = caller
        /\ \A q \in Runs : q # r => pc'[q] = pc[q]
    BY <1>2 DEF LinkMember, Complete, Goto, frame, Late, TypeOK
  <2>2. \/ pc'[r] \in {"link", "check"} /\ published' = published
        \/ pc'[r] = "finish" /\ published' = published \cup {r}
    BY <1>2 DEF LinkMember, Complete, Goto, TypeOK
  <2>. QED
    BY <2>1, <2>2 DEF Inv, Results, Late
<1>. QED
  BY <1>3, <1>4, <1>5, <1>6, <1>7, <1>8, <1>9, <1>10 DEF Inv

LEMMA CheckReservationInv ==
  ASSUME Inv, NEW r \in Runs, CheckReservation(r)
  PROVE  Inv'
<1>1. \A q \in Runs : Order(q)' = Order(q) /\ Own(q)' = Own(q) /\ Index(q)' = Index(q)
  BY Fixed DEF Next, Step
<1>2. TypeOK /\ \A q \in Runs : Len(Order(q)) \in Nat \ {0}
  BY Orders DEF Inv
<1>3. TypeOK'
  <2>1. /\ platform' = platform /\ caller' = caller /\ acts' = acts /\ crashes' = crashes
        /\ at' = at /\ back' = back /\ reservation' = reservation /\ target' = target
        /\ entries' = entries /\ touched' = touched /\ published' = published
    BY DEF CheckReservation, Fail, Return, Goto, May, frame, tree
  <2>2. pc' \in [Runs -> Labels]
    <3>1. \/ pc' = pc
          \/ \E v \in Labels : pc' = [pc EXCEPT ![r] = v]
      BY <1>2, Orders DEF CheckReservation, Fail, Return, Goto, May, frame, tree, Labels,
         Window, TypeOK
    <3>. QED
      BY <1>2, <3>1, Update DEF TypeOK
  <2>3. staged' \in [Runs -> SUBSET Names]
    <3>1. \/ staged' = staged
          \/ \E v \in SUBSET Names : staged' = [staged EXCEPT ![r] = v]
      BY <1>2, Orders DEF CheckReservation, Fail, Return, Goto, May, frame, tree, TypeOK
    <3>. QED
      BY <1>2, <3>1, Update DEF TypeOK
  <2>4. /\ published' \in SUBSET Runs
        /\ outcome' \in [Runs -> {"pending", "ok", "failed"}]
    BY <1>2, ConstantsAssumption DEF CheckReservation, Fail, Return, Goto, May, frame,
       tree, Inv, TypeOK
  <2>5. \A q \in Runs : at'[q] <= Len(Order(q)') + 1 /\ back'[q] <= at'[q]
    BY <1>1, <1>2, <2>1 DEF TypeOK
  <2>6. /\ platform' \in Platforms /\ caller' \in [Runs -> Callers]
        /\ at' \in [Runs -> Nat \ {0}]
        /\ back' \in [Runs -> Nat \ {0}]
        /\ reservation' \in [Runs -> Dirs \cup {NoDir}]
        /\ target' \in Dirs \cup {NoDir}
        /\ entries' \in [Names -> Runs \cup {Rival, NoFile}]
        /\ touched' \in BOOLEAN
        /\ acts' \in 0 .. MaxRivalActs /\ crashes' \in 0 .. MaxCrashes
    BY <1>2, <2>1 DEF TypeOK
  <2>. QED
    BY <2>2, <2>3, <2>4, <2>5, <2>6 DEF TypeOK
<1>4. Directory'
  BY <1>1, <1>2, ConstantsAssumption DEF CheckReservation, Fail, Return, Goto, May,
     frame, tree, Window, Early, Late, Filler, Inv, Directory, Present, Empty, Nothing,
     NoDir, Reserved, Staged, TypeOK
<1>5. Place'
  <2>1. /\ target' = target /\ reservation' = reservation /\ pc[r] = "check"
        /\ \A q \in Runs : q # r => pc'[q] = pc[q]
    BY <1>2 DEF CheckReservation, Fail, Return, Goto, tree, TypeOK
  <2>2. \/ pc'[r] = "done"
        \/ pc'[r] = "entry" /\ target = reservation[r]
    <3>1. \/ pc' = [pc EXCEPT ![r] = "done"]
          \/ pc' = [pc EXCEPT ![r] = "entry"] /\ target = reservation[r]
      BY DEF CheckReservation, Fail, Return, Goto
    <3>. QED
      BY <1>2, <3>1 DEF TypeOK
  <2>. QED
    BY <2>1, <2>2 DEF Inv, Place, Window, Early
<1>6. Position'
  BY <1>1, <1>2, ConstantsAssumption DEF CheckReservation, Fail, Return, Goto, May,
     frame, tree, Window, Early, Late, Filler, Inv, Position, TypeOK
<1>7. Filled'
  <2>. SUFFICES ASSUME NEW q \in Runs, pc'[q] \in {"move", "back", "link"},
                       NEW i \in 1 .. (at'[q] - 1)
                PROVE  entries'[Order(q)[i]] = q
    BY <1>1 DEF Filled
  <2>1. pc'[q] = pc[q] /\ at' = at /\ entries' = entries
    BY <1>2 DEF CheckReservation, Fail, Return, Goto, May, frame, tree, TypeOK
  <2>. QED
    BY <2>1 DEF Inv, Filled
<1>8. Checked'
  <2>1. \/ pc' = pc
        \/ \E l \in Labels \ {"unlink"} : pc' = [pc EXCEPT ![r] = l]
    BY DEF CheckReservation, Fail, Return, Goto, May, frame, tree, Labels, Window
  <2>2. /\ entries' = entries /\ back' = back
        /\ \A q \in Runs : pc'[q] = "unlink" => pc[q] = "unlink"
    BY <1>2, <2>1 DEF CheckReservation, tree, TypeOK
  <2>. QED
    BY <1>1, <2>2 DEF Inv, Checked
<1>9. Indexed'
  BY <1>1, <1>2, ConstantsAssumption DEF CheckReservation, Fail, Return, Goto, May,
     frame, tree, Window, Early, Late, Filler, Inv, Indexed, Whole, TypeOK
<1>10. Results'
  <2>1. /\ published' = published /\ caller' = caller /\ pc[r] \notin Late
        /\ \A q \in Runs : q # r => pc'[q] = pc[q] /\ outcome'[q] = outcome[q]
    BY <1>2 DEF CheckReservation, Fail, Return, Goto, May, frame, tree, Late, TypeOK
  <2>2. \/ pc'[r] \in {"entry"} /\ outcome'[r] = outcome[r]
        \/ pc'[r] = "done" /\ outcome'[r] = "failed"
    BY <1>2 DEF CheckReservation, Fail, Return, Goto, May, frame, tree, TypeOK
  <2>. QED
    BY <2>1, <2>2 DEF Inv, Results, Late
<1>. QED
  BY <1>3, <1>4, <1>5, <1>6, <1>7, <1>8, <1>9, <1>10 DEF Inv

LEMMA CheckEntryInv ==
  ASSUME Inv, NEW r \in Runs, CheckEntry(r)
  PROVE  Inv'
<1>1. \A q \in Runs : Order(q)' = Order(q) /\ Own(q)' = Own(q) /\ Index(q)' = Index(q)
  BY Fixed DEF Next, Step
<1>2. TypeOK /\ \A q \in Runs : Len(Order(q)) \in Nat \ {0}
  BY Orders DEF Inv
<1>3. TypeOK'
  <2>1. /\ platform' = platform /\ caller' = caller /\ acts' = acts /\ crashes' = crashes
        /\ at' = at /\ reservation' = reservation /\ staged' = staged /\ target' = target
        /\ entries' = entries /\ touched' = touched /\ published' = published /\ outcome' = outcome
    BY DEF CheckEntry, Goto, May, frame, tree
  <2>2. pc' \in [Runs -> Labels]
    <3>1. \/ pc' = pc
          \/ \E v \in Labels : pc' = [pc EXCEPT ![r] = v]
      BY <1>2, Orders DEF CheckEntry, Goto, May, frame, tree, Labels, Window, TypeOK
    <3>. QED
      BY <1>2, <3>1, Update DEF TypeOK
  <2>3. back' \in [Runs -> Nat \ {0}]
    <3>1. back' = back \/ back' = [back EXCEPT ![r] = back[r] + 1]
      BY DEF CheckEntry
    <3>2. back[r] + 1 \in Nat \ {0}
      BY <1>2 DEF TypeOK
    <3>. QED
      BY <1>2, <3>1, <3>2, Update DEF TypeOK
  <2>4. \A q \in Runs : back'[q] <= at'[q]
    <3>. SUFFICES ASSUME NEW q \in Runs PROVE back'[q] <= at'[q]
      OBVIOUS
    <3>1. at' = at /\ (back' = back \/ (back[r] # at[r] /\ back' = [back EXCEPT ![r] = @ + 1]))
      BY DEF CheckEntry
    <3>3. back'[q] = back[q] \/ (q = r /\ back[r] # at[r] /\ back'[q] = back[q] + 1)
      BY <1>2, <3>1 DEF TypeOK
    <3>2. at[q] \in Nat \ {0} /\ back[q] \in Nat /\ back[q] <= at[q]
      BY <1>2 DEF TypeOK
    <3>. QED
      BY <3>1, <3>2, <3>3
  <2>5. \A q \in Runs : at'[q] <= Len(Order(q)') + 1 /\ back'[q] <= at'[q]
    BY <1>1, <1>2, <2>1, <2>4 DEF TypeOK
  <2>6. /\ platform' \in Platforms /\ caller' \in [Runs -> Callers]
        /\ at' \in [Runs -> Nat \ {0}]
        /\ reservation' \in [Runs -> Dirs \cup {NoDir}]
        /\ staged' \in [Runs -> SUBSET Names]
        /\ target' \in Dirs \cup {NoDir}
        /\ entries' \in [Names -> Runs \cup {Rival, NoFile}]
        /\ touched' \in BOOLEAN
        /\ published' \in SUBSET Runs
        /\ outcome' \in [Runs -> {"pending", "ok", "failed"}]
        /\ acts' \in 0 .. MaxRivalActs /\ crashes' \in 0 .. MaxCrashes
    BY <1>2, <2>1 DEF TypeOK
  <2>. QED
    BY <2>2, <2>3, <2>4, <2>5, <2>6 DEF TypeOK
<1>4. Directory'
  BY <1>1, <1>2, ConstantsAssumption DEF CheckEntry, Goto, May, frame, tree, Window,
     Early, Late, Filler, Inv, Directory, Present, Empty, Nothing, NoDir, Reserved,
     Staged, TypeOK
<1>5. Place'
  BY <1>1, <1>2, ConstantsAssumption DEF CheckEntry, Goto, May, frame, tree, Window,
     Early, Late, Filler, Inv, Place, Reserved, Staged, NoDir, TypeOK, Directory
<1>6. Position'
  <2>1. \A q \in Runs : q # r => pc'[q] = pc[q] /\ at'[q] = at[q] /\ back'[q] = back[q]
    BY <1>2 DEF CheckEntry, Goto, TypeOK
  <2>2. /\ pc[r] = "entry" /\ pc'[r] \in {"entry", "unlink", "remove"} /\ at'[r] = at[r]
        /\ pc'[r] = "unlink" => back[r] # at[r] /\ back'[r] = back[r]
    BY <1>2 DEF CheckEntry, Goto, TypeOK
  <2>3. at[r] \in Nat /\ back[r] \in Nat /\ back[r] <= at[r] /\ at[r] <= Len(Order(r))
    BY <1>2, <2>2 DEF TypeOK, Inv, Position, Filler
  <2>. QED
    BY <1>1, <2>1, <2>2, <2>3 DEF Inv, Position, Early, Late, Filler
<1>7. Filled'
  <2>. SUFFICES ASSUME NEW q \in Runs, pc'[q] \in {"move", "back", "link"},
                       NEW i \in 1 .. (at'[q] - 1)
                PROVE  entries'[Order(q)[i]] = q
    BY <1>1 DEF Filled
  <2>1. pc'[q] = pc[q] /\ at' = at /\ entries' = entries
    BY <1>2 DEF CheckEntry, Goto, May, frame, tree, TypeOK
  <2>. QED
    BY <2>1 DEF Inv, Filled
<1>8. Checked'
  <2>1. /\ entries' = entries
        /\ \A q \in Runs : q # r => pc'[q] = pc[q] /\ back'[q] = back[q]
    BY <1>2 DEF CheckEntry, Goto, tree, TypeOK
  <2>2. pc'[r] = "unlink" => back' = back /\ entries[Order(r)[back[r]]] = r
    BY <1>2 DEF CheckEntry, Goto, TypeOK
  <2>. QED
    BY <1>1, <2>1, <2>2 DEF Inv, Checked
<1>9. Indexed'
  BY <1>1, <1>2, ConstantsAssumption DEF CheckEntry, Goto, May, frame, tree, Window,
     Early, Late, Filler, Inv, Indexed, Whole, TypeOK
<1>10. Results'
  BY <1>1, <1>2, ConstantsAssumption DEF CheckEntry, Goto, May, frame, tree, Window,
     Early, Late, Filler, Inv, Results, TypeOK
<1>. QED
  BY <1>3, <1>4, <1>5, <1>6, <1>7, <1>8, <1>9, <1>10 DEF Inv

LEMMA UnlinkEntryInv ==
  ASSUME Inv, NEW r \in Runs, UnlinkEntry(r)
  PROVE  Inv'
<1>1. \A q \in Runs : Order(q)' = Order(q) /\ Own(q)' = Own(q) /\ Index(q)' = Index(q)
  BY Fixed DEF Next, Step
<1>2. TypeOK /\ \A q \in Runs : Len(Order(q)) \in Nat \ {0}
  BY Orders DEF Inv
<1>3. TypeOK'
  <2>1. /\ platform' = platform /\ caller' = caller /\ acts' = acts /\ crashes' = crashes
        /\ at' = at /\ reservation' = reservation /\ staged' = staged /\ target' = target
        /\ touched' = touched /\ published' = published /\ outcome' = outcome
    BY DEF UnlinkEntry, Goto, May, frame
  <2>2. pc' \in [Runs -> Labels]
    <3>1. \/ pc' = pc
          \/ \E v \in Labels : pc' = [pc EXCEPT ![r] = v]
      BY <1>2, Orders DEF UnlinkEntry, Goto, May, frame, Labels, Window, TypeOK
    <3>. QED
      BY <1>2, <3>1, Update DEF TypeOK
  <2>3. back' \in [Runs -> Nat \ {0}]
    BY <1>2, ConstantsAssumption DEF UnlinkEntry, Goto, May, frame, Inv, TypeOK
  <2>4. \A q \in Runs : back'[q] <= at'[q]
    BY <1>2, ConstantsAssumption DEF UnlinkEntry, Goto, May, frame, Position, Inv, TypeOK
  <2>5. entries' \in [Names -> Runs \cup {Rival, NoFile}]
    BY <1>2, Orders, ConstantsAssumption DEF UnlinkEntry, Goto, May, frame, Nothing, Inv,
       TypeOK
  <2>6. \A q \in Runs : at'[q] <= Len(Order(q)') + 1 /\ back'[q] <= at'[q]
    BY <1>1, <1>2, <2>1, <2>4 DEF TypeOK
  <2>7. /\ platform' \in Platforms /\ caller' \in [Runs -> Callers]
        /\ at' \in [Runs -> Nat \ {0}]
        /\ reservation' \in [Runs -> Dirs \cup {NoDir}]
        /\ staged' \in [Runs -> SUBSET Names]
        /\ target' \in Dirs \cup {NoDir}
        /\ touched' \in BOOLEAN
        /\ published' \in SUBSET Runs
        /\ outcome' \in [Runs -> {"pending", "ok", "failed"}]
        /\ acts' \in 0 .. MaxRivalActs /\ crashes' \in 0 .. MaxCrashes
    BY <1>2, <2>1 DEF TypeOK
  <2>. QED
    BY <2>2, <2>3, <2>4, <2>5, <2>6, <2>7 DEF TypeOK
<1>4. Directory'
  <2>1. /\ target' = target /\ touched' = touched
        /\ \A n \in Names : entries'[n] \in {entries[n], NoFile}
    BY <1>2 DEF UnlinkEntry, TypeOK
  <2>. QED
    BY <2>1, Here, ConstantsAssumption DEF UnlinkEntry, Window, Inv, Directory, Present
<1>5. Place'
  BY <1>1, <1>2, Alone, ConstantsAssumption DEF UnlinkEntry, Goto, May, frame, Window,
     Early, Late, Filler, Inv, Place, Reserved, Staged, NoDir, TypeOK, Directory
<1>6. Position'
  BY <1>1, <1>2, ConstantsAssumption DEF UnlinkEntry, Goto, May, frame, Window, Early,
     Late, Filler, Inv, Position, TypeOK
<1>7. Filled'
  <2>. SUFFICES ASSUME NEW q \in Runs, pc'[q] \in {"move", "back", "link"},
                       NEW i \in 1 .. (at'[q] - 1)
                PROVE  entries'[Order(q)[i]] = q
    BY <1>1 DEF Filled
  <2>1. q = r
    BY <1>2, Here DEF UnlinkEntry, Goto, Complete, Window, TypeOK
  <2>. QED
    BY <1>2, <2>1 DEF UnlinkEntry, Goto, TypeOK
<1>8. Checked'
  <2>1. pc'[r] # "unlink" /\ \A q \in Runs : q # r => pc'[q] = pc[q]
    BY <1>2 DEF UnlinkEntry, Complete, Goto, TypeOK
  <2>2. \A q \in Runs : q # r => pc[q] # "unlink"
    BY Here DEF UnlinkEntry, Window
  <2>. QED
    BY <2>1, <2>2 DEF Checked
<1>9. Indexed'
  <2>1. \A n \in Names : entries'[n] \in {entries[n], NoFile}
    BY <1>2 DEF UnlinkEntry, TypeOK
  <2>2. ASSUME NEW q \in Runs
        PROVE  entries'[Index(q)] # q
    <3>1. entries[Index(q)] # q
      BY Here DEF UnlinkEntry, Window, Inv, Indexed
    <3>. QED
      BY <1>2, <2>1, <3>1, Orders, ConstantsAssumption
  <2>. QED
    BY <1>1, <2>2 DEF Indexed
<1>10. Results'
  BY <1>1, <1>2, ConstantsAssumption DEF UnlinkEntry, Goto, May, frame, Window, Early,
     Late, Filler, Inv, Results, TypeOK
<1>. QED
  BY <1>3, <1>4, <1>5, <1>6, <1>7, <1>8, <1>9, <1>10 DEF Inv

LEMMA FinishInv ==
  ASSUME Inv, NEW r \in Runs, Finish(r)
  PROVE  Inv'
<1>1. \A q \in Runs : Order(q)' = Order(q) /\ Own(q)' = Own(q) /\ Index(q)' = Index(q)
  BY Fixed DEF Next, Step
<1>2. TypeOK /\ \A q \in Runs : Len(Order(q)) \in Nat \ {0}
  BY Orders DEF Inv
<1>3. TypeOK'
  <2>1. /\ platform' = platform /\ caller' = caller /\ acts' = acts /\ crashes' = crashes
        /\ at' = at /\ back' = back /\ reservation' = reservation /\ staged' = staged
        /\ target' = target /\ entries' = entries /\ touched' = touched /\ published' = published
    BY DEF Finish, Return, Goto, frame, tree
  <2>2. pc' \in [Runs -> Labels]
    <3>1. \/ pc' = pc
          \/ \E v \in Labels : pc' = [pc EXCEPT ![r] = v]
      BY <1>2, Orders DEF Finish, Return, Goto, frame, tree, Labels, Window, TypeOK
    <3>. QED
      BY <1>2, <3>1, Update DEF TypeOK
  <2>3. /\ published' \in SUBSET Runs
        /\ outcome' \in [Runs -> {"pending", "ok", "failed"}]
    <3>1. \E o \in {"ok", "failed"} : outcome' = [outcome EXCEPT ![r] = o]
      BY DEF Finish, Return
    <3>. QED
      BY <1>2, <2>1, <3>1 DEF TypeOK
  <2>4. \A q \in Runs : at'[q] <= Len(Order(q)') + 1 /\ back'[q] <= at'[q]
    BY <1>1, <1>2, <2>1 DEF TypeOK
  <2>5. /\ platform' \in Platforms /\ caller' \in [Runs -> Callers]
        /\ at' \in [Runs -> Nat \ {0}]
        /\ back' \in [Runs -> Nat \ {0}]
        /\ reservation' \in [Runs -> Dirs \cup {NoDir}]
        /\ staged' \in [Runs -> SUBSET Names]
        /\ target' \in Dirs \cup {NoDir}
        /\ entries' \in [Names -> Runs \cup {Rival, NoFile}]
        /\ touched' \in BOOLEAN
        /\ acts' \in 0 .. MaxRivalActs /\ crashes' \in 0 .. MaxCrashes
    BY <1>2, <2>1 DEF TypeOK
  <2>. QED
    BY <2>2, <2>3, <2>4, <2>5 DEF TypeOK
<1>4. Directory'
  BY <1>1, <1>2, ConstantsAssumption DEF Finish, Return, Goto, frame, tree, Window,
     Early, Late, Filler, Inv, Directory, Present, Empty, Nothing, NoDir, Reserved,
     Staged, TypeOK
<1>5. Place'
  BY <1>1, <1>2, ConstantsAssumption DEF Finish, Return, Goto, frame, tree, Window,
     Early, Late, Filler, Inv, Place, Reserved, Staged, NoDir, TypeOK, Directory
<1>6. Position'
  BY <1>1, <1>2, ConstantsAssumption DEF Finish, Return, Goto, frame, tree, Window,
     Early, Late, Filler, Inv, Position, TypeOK
<1>7. Filled'
  <2>. SUFFICES ASSUME NEW q \in Runs, pc'[q] \in {"move", "back", "link"},
                       NEW i \in 1 .. (at'[q] - 1)
                PROVE  entries'[Order(q)[i]] = q
    BY <1>1 DEF Filled
  <2>1. pc'[q] = pc[q] /\ at' = at /\ entries' = entries
    BY <1>2 DEF Finish, Return, Goto, frame, tree, TypeOK
  <2>. QED
    BY <2>1 DEF Inv, Filled
<1>8. Checked'
  BY <1>1, <1>2, ConstantsAssumption DEF Finish, Return, Goto, frame, tree, Window,
     Early, Late, Filler, Inv, Checked, TypeOK, Position
<1>9. Indexed'
  BY <1>1, <1>2, ConstantsAssumption DEF Finish, Return, Goto, frame, tree, Window,
     Early, Late, Filler, Inv, Indexed, Whole, TypeOK
<1>10. Results'
  BY <1>1, <1>2, ConstantsAssumption DEF Finish, Return, Goto, frame, tree, Window,
     Early, Late, Filler, Inv, Results, TypeOK
<1>. QED
  BY <1>3, <1>4, <1>5, <1>6, <1>7, <1>8, <1>9, <1>10 DEF Inv

LEMMA ReopenInv ==
  ASSUME Inv, NEW r \in Runs, Reopen(r)
  PROVE  Inv'
<1>1. \A q \in Runs : Order(q)' = Order(q) /\ Own(q)' = Own(q) /\ Index(q)' = Index(q)
  BY Fixed DEF Next, Step
<1>2. TypeOK /\ \A q \in Runs : Len(Order(q)) \in Nat \ {0}
  BY Orders DEF Inv
<1>3. TypeOK'
  <2>1. /\ platform' = platform /\ caller' = caller /\ acts' = acts /\ crashes' = crashes
        /\ at' = at /\ back' = back /\ reservation' = reservation /\ staged' = staged
        /\ target' = target /\ entries' = entries /\ touched' = touched /\ published' = published
    BY DEF Reopen, Return, Goto, May, frame, tree
  <2>2. pc' \in [Runs -> Labels]
    <3>1. \/ pc' = pc
          \/ \E v \in Labels : pc' = [pc EXCEPT ![r] = v]
      BY <1>2, Orders DEF Reopen, Return, Goto, May, frame, tree, Labels, Window, TypeOK
    <3>. QED
      BY <1>2, <3>1, Update DEF TypeOK
  <2>3. /\ published' \in SUBSET Runs
        /\ outcome' \in [Runs -> {"pending", "ok", "failed"}]
    <3>1. \E o \in {"ok", "failed"} : outcome' = [outcome EXCEPT ![r] = o]
      BY DEF Reopen, Return
    <3>. QED
      BY <1>2, <2>1, <3>1 DEF TypeOK
  <2>4. \A q \in Runs : at'[q] <= Len(Order(q)') + 1 /\ back'[q] <= at'[q]
    BY <1>1, <1>2, <2>1 DEF TypeOK
  <2>5. /\ platform' \in Platforms /\ caller' \in [Runs -> Callers]
        /\ at' \in [Runs -> Nat \ {0}]
        /\ back' \in [Runs -> Nat \ {0}]
        /\ reservation' \in [Runs -> Dirs \cup {NoDir}]
        /\ staged' \in [Runs -> SUBSET Names]
        /\ target' \in Dirs \cup {NoDir}
        /\ entries' \in [Names -> Runs \cup {Rival, NoFile}]
        /\ touched' \in BOOLEAN
        /\ acts' \in 0 .. MaxRivalActs /\ crashes' \in 0 .. MaxCrashes
    BY <1>2, <2>1 DEF TypeOK
  <2>. QED
    BY <2>2, <2>3, <2>4, <2>5 DEF TypeOK
<1>4. Directory'
  BY <1>1, <1>2, ConstantsAssumption DEF Reopen, Return, Goto, May, frame, tree, Window,
     Early, Late, Filler, Inv, Directory, Present, Empty, Nothing, NoDir, Reserved,
     Staged, TypeOK
<1>5. Place'
  BY <1>1, <1>2, ConstantsAssumption DEF Reopen, Return, Goto, May, frame, tree, Window,
     Early, Late, Filler, Inv, Place, Reserved, Staged, NoDir, TypeOK, Directory
<1>6. Position'
  BY <1>1, <1>2, ConstantsAssumption DEF Reopen, Return, Goto, May, frame, tree, Window,
     Early, Late, Filler, Inv, Position, TypeOK
<1>7. Filled'
  <2>. SUFFICES ASSUME NEW q \in Runs, pc'[q] \in {"move", "back", "link"},
                       NEW i \in 1 .. (at'[q] - 1)
                PROVE  entries'[Order(q)[i]] = q
    BY <1>1 DEF Filled
  <2>1. pc'[q] = pc[q] /\ at' = at /\ entries' = entries
    BY <1>2 DEF Reopen, Return, Goto, May, frame, tree, TypeOK
  <2>. QED
    BY <2>1 DEF Inv, Filled
<1>8. Checked'
  <2>1. \/ pc' = pc
        \/ \E l \in Labels \ {"unlink"} : pc' = [pc EXCEPT ![r] = l]
    BY DEF Reopen, Return, Goto, May, frame, tree, Labels, Window
  <2>2. /\ entries' = entries /\ back' = back
        /\ \A q \in Runs : pc'[q] = "unlink" => pc[q] = "unlink"
    BY <1>2, <2>1 DEF Reopen, tree, TypeOK
  <2>. QED
    BY <1>1, <2>2 DEF Inv, Checked
<1>9. Indexed'
  BY <1>1, <1>2, ConstantsAssumption DEF Reopen, Return, Goto, May, frame, tree, Window,
     Early, Late, Filler, Inv, Indexed, Whole, TypeOK
<1>10. Results'
  BY <1>1, <1>2, ConstantsAssumption DEF Reopen, Return, Goto, May, frame, tree, Window,
     Early, Late, Filler, Inv, Results, TypeOK
<1>. QED
  BY <1>3, <1>4, <1>5, <1>6, <1>7, <1>8, <1>9, <1>10 DEF Inv

LEMMA DiscardInv ==
  ASSUME Inv, NEW r \in Runs, Discard(r)
  PROVE  Inv'
<1>1. \A q \in Runs : Order(q)' = Order(q) /\ Own(q)' = Own(q) /\ Index(q)' = Index(q)
  BY Fixed DEF Next, Step
<1>2. TypeOK /\ \A q \in Runs : Len(Order(q)) \in Nat \ {0}
  BY Orders DEF Inv
<1>3. TypeOK'
  <2>1. /\ platform' = platform /\ caller' = caller /\ acts' = acts /\ crashes' = crashes
        /\ at' = at /\ back' = back /\ reservation' = reservation /\ target' = target
        /\ entries' = entries /\ touched' = touched /\ published' = published
    BY DEF Discard, Return, Goto, May, frame, tree
  <2>2. pc' \in [Runs -> Labels]
    <3>1. \/ pc' = pc
          \/ \E v \in Labels : pc' = [pc EXCEPT ![r] = v]
      BY <1>2, Orders DEF Discard, Return, Goto, May, frame, tree, Labels, Window, TypeOK
    <3>. QED
      BY <1>2, <3>1, Update DEF TypeOK
  <2>3. staged' \in [Runs -> SUBSET Names]
    <3>1. \/ staged' = staged
          \/ \E v \in SUBSET Names : staged' = [staged EXCEPT ![r] = v]
      BY <1>2, Orders DEF Discard, Return, Goto, May, frame, tree, TypeOK
    <3>. QED
      BY <1>2, <3>1, Update DEF TypeOK
  <2>4. /\ published' \in SUBSET Runs
        /\ outcome' \in [Runs -> {"pending", "ok", "failed"}]
    <3>1. \E o \in {"ok", "failed"} : outcome' = [outcome EXCEPT ![r] = o]
      BY DEF Discard, Return
    <3>. QED
      BY <1>2, <2>1, <3>1 DEF TypeOK
  <2>5. \A q \in Runs : at'[q] <= Len(Order(q)') + 1 /\ back'[q] <= at'[q]
    BY <1>1, <1>2, <2>1 DEF TypeOK
  <2>6. /\ platform' \in Platforms /\ caller' \in [Runs -> Callers]
        /\ at' \in [Runs -> Nat \ {0}]
        /\ back' \in [Runs -> Nat \ {0}]
        /\ reservation' \in [Runs -> Dirs \cup {NoDir}]
        /\ target' \in Dirs \cup {NoDir}
        /\ entries' \in [Names -> Runs \cup {Rival, NoFile}]
        /\ touched' \in BOOLEAN
        /\ acts' \in 0 .. MaxRivalActs /\ crashes' \in 0 .. MaxCrashes
    BY <1>2, <2>1 DEF TypeOK
  <2>. QED
    BY <2>2, <2>3, <2>4, <2>5, <2>6 DEF TypeOK
<1>4. Directory'
  BY <1>1, <1>2, ConstantsAssumption DEF Discard, Return, Goto, May, frame, tree, Window,
     Early, Late, Filler, Inv, Directory, Present, Empty, Nothing, NoDir, Reserved,
     Staged, TypeOK
<1>5. Place'
  BY <1>1, <1>2, ConstantsAssumption DEF Discard, Return, Goto, May, frame, tree, Window,
     Early, Late, Filler, Inv, Place, Reserved, Staged, NoDir, TypeOK, Directory
<1>6. Position'
  BY <1>1, <1>2, ConstantsAssumption DEF Discard, Return, Goto, May, frame, tree, Window,
     Early, Late, Filler, Inv, Position, TypeOK
<1>7. Filled'
  <2>. SUFFICES ASSUME NEW q \in Runs, pc'[q] \in {"move", "back", "link"},
                       NEW i \in 1 .. (at'[q] - 1)
                PROVE  entries'[Order(q)[i]] = q
    BY <1>1 DEF Filled
  <2>1. pc'[q] = pc[q] /\ at' = at /\ entries' = entries
    BY <1>2 DEF Discard, Return, Goto, May, frame, tree, TypeOK
  <2>. QED
    BY <2>1 DEF Inv, Filled
<1>8. Checked'
  <2>1. \/ pc' = pc
        \/ \E l \in Labels \ {"unlink"} : pc' = [pc EXCEPT ![r] = l]
    BY DEF Discard, Return, Goto, May, frame, tree, Labels, Window
  <2>2. /\ entries' = entries /\ back' = back
        /\ \A q \in Runs : pc'[q] = "unlink" => pc[q] = "unlink"
    BY <1>2, <2>1 DEF Discard, tree, TypeOK
  <2>. QED
    BY <1>1, <2>2 DEF Inv, Checked
<1>9. Indexed'
  BY <1>1, <1>2, ConstantsAssumption DEF Discard, Return, Goto, May, frame, tree, Window,
     Early, Late, Filler, Inv, Indexed, Whole, TypeOK
<1>10. Results'
  BY <1>1, <1>2, ConstantsAssumption DEF Discard, Return, Goto, May, frame, tree, Window,
     Early, Late, Filler, Inv, Results, TypeOK
<1>. QED
  BY <1>3, <1>4, <1>5, <1>6, <1>7, <1>8, <1>9, <1>10 DEF Inv

\* The acts of rivals and of the operating system change no local variable of a
\* run but its label.
LEMMA Bounded ==
  ASSUME TypeOK, Act
  PROVE  acts' \in 0 .. MaxRivalActs
BY ConstantsAssumption DEF TypeOK, Act

LEMMA RivalCreateInv ==
  ASSUME Inv, RivalCreate
  PROVE  Inv'
<1>1. \A q \in Runs : Order(q)' = Order(q) /\ Own(q)' = Own(q) /\ Index(q)' = Index(q)
  BY Fixed DEF Next
<1>2. ~Present /\ \A q \in Runs : pc[q] \notin Window
  BY Here DEF RivalCreate
<1>3. TypeOK'
  <2>1. target' \in Dirs
    BY DEF RivalCreate, Dirs, RivalDir
  <2>2. acts' \in 0 .. MaxRivalActs
    BY Bounded DEF RivalCreate, Inv
  <2>. QED
    BY <1>1, <2>1, <2>2 DEF RivalCreate, Act, Inv, TypeOK
<1>4. Directory'
  BY <1>2, ConstantsAssumption DEF RivalCreate, Inv, TypeOK, Directory, Empty, Nothing,
     Present, RivalDir, NoDir
<1>5. Place'
  BY <1>2, ConstantsAssumption DEF RivalCreate, Act, Inv, Place, Window, RivalDir,
     Reserved,
     Staged
<1>6. (Position /\ Filled /\ Checked /\ Indexed /\ Results)'
  BY <1>1 DEF RivalCreate, Act, Inv, Position, Filled, Checked, Indexed, Whole, Results
<1>. QED
  BY <1>3, <1>4, <1>5, <1>6 DEF Inv

LEMMA RivalInsertInv ==
  ASSUME Inv, NEW n \in Names, RivalInsert(n)
  PROVE  Inv'
<1>1. \A q \in Runs : Order(q)' = Order(q) /\ Own(q)' = Own(q) /\ Index(q)' = Index(q)
  BY Fixed DEF Next
<1>2. /\ entries \in [Names -> Runs \cup {Rival, NoFile}]
      /\ entries' = [entries EXCEPT ![n] = Rival] /\ entries[n] = NoFile
  BY DEF RivalInsert, Inv, TypeOK
<1>3. \A m \in Names, q \in Runs : entries'[m] = q <=> entries[m] = q
  BY <1>2, ConstantsAssumption
<1>4. TypeOK'
  <2>1. entries' \in [Names -> Runs \cup {Rival, NoFile}]
    BY <1>2
  <2>2. acts' \in 0 .. MaxRivalActs
    BY Bounded DEF RivalInsert, Inv
  <2>. QED
    BY <1>1, <2>1, <2>2 DEF RivalInsert, Act, Inv, TypeOK
<1>5. Directory' /\ Place'
  BY <1>2, <1>3, ConstantsAssumption DEF RivalInsert, Act, Inv, Directory, Place, Present
<1>6. Position' /\ Results'
  BY <1>1 DEF RivalInsert, Act, Inv, Position, Results
<1>7. Filled'
  <2>. SUFFICES ASSUME NEW q \in Runs, pc[q] \in {"move", "back", "link"},
                       NEW i \in 1 .. (at[q] - 1)
                PROVE  entries'[Order(q)[i]] = q
    BY <1>1 DEF Filled, RivalInsert, Act
  <2>1. i \in 1 .. Len(Order(q))
    BY Orders DEF Inv, TypeOK
  <2>. QED
    BY <1>3, <2>1, Orders DEF Inv, Filled
<1>8. Indexed'
  BY <1>1, <1>3, Orders DEF RivalInsert, Act, Inv, Indexed, Whole
<1>9. Checked'
  BY <1>1, <1>3, Here DEF RivalInsert, Act, Inv, Checked, Window, Filler
<1>. QED
  BY <1>4, <1>5, <1>6, <1>7, <1>8, <1>9 DEF Inv

LEMMA RivalTakeBackInv ==
  ASSUME Inv, NEW n \in Names, RivalTakeBack(n)
  PROVE  Inv'
<1>1. \A q \in Runs : Order(q)' = Order(q) /\ Own(q)' = Own(q) /\ Index(q)' = Index(q)
  BY Fixed DEF Next
<1>2. /\ entries \in [Names -> Runs \cup {Rival, NoFile}]
      /\ entries' = [entries EXCEPT ![n] = NoFile] /\ entries[n] = Rival
  BY DEF RivalTakeBack, Inv, TypeOK
<1>3. /\ \A m \in Names, q \in Runs : entries'[m] = q <=> entries[m] = q
      /\ \A m \in Names : entries'[m] = Rival => entries[m] = Rival
  BY <1>2, ConstantsAssumption
<1>4. TypeOK'
  <2>1. entries' \in [Names -> Runs \cup {Rival, NoFile}]
    BY <1>2
  <2>2. acts' \in 0 .. MaxRivalActs
    BY Bounded DEF RivalTakeBack, Inv
  <2>. QED
    BY <1>1, <2>1, <2>2 DEF RivalTakeBack, Act, Inv, TypeOK
<1>5. Directory' /\ Place'
  <2>1. Present
    BY <1>2, ConstantsAssumption DEF Inv, Directory, Empty, Nothing
  <2>. QED
    BY <1>3, <2>1 DEF RivalTakeBack, Act, Inv, Directory, Place, Present
<1>6. Position' /\ Results'
  BY <1>1 DEF RivalTakeBack, Act, Inv, Position, Results
<1>7. Filled'
  <2>. SUFFICES ASSUME NEW q \in Runs, pc[q] \in {"move", "back", "link"},
                       NEW i \in 1 .. (at[q] - 1)
                PROVE  entries'[Order(q)[i]] = q
    BY <1>1 DEF Filled, RivalTakeBack, Act
  <2>1. i \in 1 .. Len(Order(q))
    BY Orders DEF Inv, TypeOK
  <2>. QED
    BY <1>3, <2>1, Orders DEF Inv, Filled
<1>8. Indexed'
  BY <1>1, <1>3, Orders DEF RivalTakeBack, Act, Inv, Indexed, Whole
<1>9. Checked'
  BY <1>1, <1>3, Here DEF RivalTakeBack, Act, Inv, Checked, Window, Filler
<1>. QED
  BY <1>4, <1>5, <1>6, <1>7, <1>8, <1>9 DEF Inv

LEMMA WithdrawInv ==
  ASSUME Inv, Withdraw, ~RivalInWindow
  PROVE  Inv'
<1>1. \A q \in Runs : Order(q)' = Order(q) /\ Own(q)' = Own(q) /\ Index(q)' = Index(q)
  BY Fixed DEF Next
<1>2. \A q \in Runs : pc[q] \notin Window
  BY DEF Withdraw, InUse
<1>3. TypeOK'
  <2>1. entries' \in [Names -> Runs \cup {Rival, NoFile}]
    BY DEF Withdraw, Nothing
  <2>2. acts' \in 0 .. MaxRivalActs
    BY Bounded DEF Withdraw, Inv
  <2>. QED
    BY <1>1, <2>1, <2>2 DEF Withdraw, Act, Inv, TypeOK
<1>4. Directory' /\ Place'
  BY <1>2, ConstantsAssumption DEF Withdraw, Act, Inv, Directory, Place, Empty, Nothing,
     Present, NoDir, Reserved, Staged, Window
<1>5. Position' /\ Filled' /\ Checked' /\ Results'
  BY <1>1, <1>2 DEF Withdraw, Act, Inv, Position, Filled, Checked, Results, Window
<1>6. Indexed'
  <2>1. \A q \in Runs : entries'[Index(q)] # q
    BY Orders, ConstantsAssumption DEF Withdraw, Nothing, Inv
  <2>. QED
    BY <1>1, <2>1 DEF Indexed
<1>. QED
  BY <1>3, <1>4, <1>5, <1>6 DEF Inv

LEMMA KillInv ==
  ASSUME Inv, NEW r \in Runs, Kill(r)
  PROVE  Inv'
<1>1. \A q \in Runs : Order(q)' = Order(q) /\ Own(q)' = Own(q) /\ Index(q)' = Index(q)
  BY Fixed DEF Next
<1>2. pc \in [Runs -> Labels] /\ pc' = [pc EXCEPT ![r] = "dead"]
  BY DEF Kill, Goto, Inv, TypeOK
<1>3. \A q \in Runs : pc'[q] # "dead" => pc'[q] = pc[q]
  BY <1>2
<1>4. TypeOK'
  <2>1. pc' \in [Runs -> Labels]
    BY <1>2 DEF Labels
  <2>2. crashes' \in 0 .. MaxCrashes
    BY ConstantsAssumption DEF Kill, Inv, TypeOK
  <2>. QED
    BY <1>1, <2>1, <2>2 DEF Kill, tree, Inv, TypeOK
<1>5. Directory' /\ Place' /\ Position' /\ Filled' /\ Checked'
  BY <1>1, <1>2, <1>3 DEF Kill, tree, Inv, Directory, Place, Position, Filled, Checked,
     Present,
     Empty, Window, Early, Late, Filler
<1>6. Indexed' /\ Results'
  BY <1>1, <1>2, <1>3 DEF Kill, tree, Inv, Indexed, Whole, Results, Late
<1>. QED
  BY <1>4, <1>5, <1>6 DEF Inv

\* No step breaks the invariant while reservations in use are left alone.
LEMMA NextInv ==
  ASSUME Inv, [Next]_vars, ~RivalInWindow
  PROVE  Inv'
<1>1. ASSUME NEW r \in Runs, Step(r)
      PROVE  Inv'
  BY <1>1, StagePublishInv, StageSaveInv, StageExportInv, ReserveInv,
     RenameInv, MoveMemberInv, MoveBackInv, RemoveReservationInv,
     IdentifyInv, LinkMemberInv, CheckReservationInv, CheckEntryInv,
     UnlinkEntryInv, FinishInv, ReopenInv, DiscardInv
     DEF Step
<1>2. CASE UNCHANGED vars
  BY <1>2 DEF vars, frame, tree, Inv, TypeOK, Directory, Place, Position, Filled, Checked,
     Indexed, Results, Present, Empty, Whole, Order, Own, Index
<1>. QED
  BY <1>1, <1>2, KillInv, RivalCreateInv, RivalInsertInv, RivalTakeBackInv, WithdrawInv
     DEF Next

-----------------------------------------------------------------------------
(* The theorems.                                                           *)

\* "Reserve the destination exclusively" (publication.rs:6): while rivals leave a
\* reservation in use alone, at most one call fills the directory at the path and
\* an index has its members behind it.
THEOREM Invariance == ASSUME ~RivalInWindow PROVE Spec => []Inv
<1>1. Init => Inv
  BY InitInv
<1>2. Inv /\ [Next]_vars => Inv'
  BY NextInv
<1>. QED
  BY <1>1, <1>2, PTL DEF Spec

\* Every variable keeps its type; no position runs past the members of a stage.
THEOREM TypeCorrectness == ASSUME ~RivalInWindow PROVE Spec => []TypeOK
<1>1. Inv => TypeOK
  BY DEF Inv
<1>. QED
  BY <1>1, Invariance, PTL

\* What stands at the path belongs to the call that relies on it, so whatever is
\* undone is its own directory and its own entries.
LEMMA OwnStep ==
  ASSUME Inv, NEW r \in Runs, Step(r)
  PROVE  /\ Present /\ target' # target => target = Reserved(r)
         /\ \A n \in Names :
              entries[n] \notin {r, NoFile} /\ entries'[n] # entries[n] =>
                /\ pc[r] = "move" /\ n = Order(r)[at[r]]
                /\ target = Reserved(r)
<1>1. CASE pc[r] \notin Window
  <2>. QED
    BY <1>1 DEF Step, StagePublish, StageSave, StageExport, Reserve, Rename, MoveMember,
       MoveBack, RemoveReservation, Identify, LinkMember, CheckReservation, CheckEntry,
       UnlinkEntry, Finish, Reopen, Discard, tree, Window
<1>2. CASE pc[r] \in Window
  <2>1. target = Reserved(r)
    BY <1>2, Here
  <2>2. ASSUME NEW n \in Names, entries[n] \notin {r, NoFile}, entries'[n] # entries[n]
        PROVE  pc[r] = "move" /\ n = Order(r)[at[r]]
    <3>1. CASE Rename(r)
      BY <2>2, <3>1 DEF Rename, Empty, Nothing, tree
    <3>2. CASE MoveMember(r)
      BY <2>2, <3>2 DEF MoveMember, Inv, TypeOK
    <3>3. CASE MoveBack(r)
      <4>1. at[r] # 1 /\ n = Order(r)[at[r] - 1]
        BY <2>2, <3>3 DEF MoveBack, Inv, TypeOK
      <4>2. at[r] - 1 \in 1 .. (at[r] - 1)
        BY <1>2, <4>1, Here
      <4>3. entries[Order(r)[at[r] - 1]] = r
        BY <3>3, <4>2 DEF MoveBack, Inv, Filled
      <4>. QED
        BY <2>2, <4>1, <4>3
    <3>4. CASE LinkMember(r)
      BY <2>2, <3>4 DEF LinkMember, Inv, TypeOK
    <3>5. CASE UnlinkEntry(r)
      BY <2>2, <3>5 DEF UnlinkEntry, Inv, TypeOK, Checked
    <3>. QED
      BY <1>2, <2>2, <3>1, <3>2, <3>3, <3>4, <3>5 DEF Step, StagePublish, StageSave,
         StageExport, Reserve, RemoveReservation, Identify, CheckReservation, CheckEntry,
         Finish, Reopen, Discard, tree
  <2>. QED
    BY <2>1, <2>2
<1>. QED
  BY <1>1, <1>2

\* No call takes away a directory that it did not reserve or an entry that it
\* did not make, except what a move of Windows replaces in its own reservation.
THEOREM Owners == ASSUME ~RivalInWindow PROVE Spec => OwnersOnly
<1>1. Inv /\ [Next]_vars =>
        [\A r \in Runs : Step(r) =>
           /\ Present /\ target' # target => target = Reserved(r)
           /\ \A n \in Names :
                entries[n] \notin {r, NoFile} /\ entries'[n] # entries[n] =>
                  /\ pc[r] = "move" /\ n = Order(r)[at[r]]
                  /\ target = Reserved(r)]_vars
  BY OwnStep
<1>. QED
  BY <1>1, Invariance, PTL DEF Spec, OwnersOnly

-----------------------------------------------------------------------------
(* Refinement of PublishOnce.                                              *)

\* The reader's view in terms of the entries.
ShownFacts ==
  /\ Shown = NoFile <=> \A r \in Runs : entries[Index(r)] # r
  /\ \A r \in Runs : entries[Index(r)] = r => Shown = r

\* At most one index stands at the path, with the members it binds: a reader
\* finds one publication or nothing.
LEMMA ShownIs == Inv => ShownFacts
<1>. SUFFICES ASSUME Inv PROVE ShownFacts
  OBVIOUS
<1>1. ASSUME NEW r \in Runs, entries[Index(r)] = r
      PROVE  {q \in Runs : entries[Index(q)] = q} = {r} /\ Whole(r)
  <2>1. \A q \in Runs : entries[Index(q)] = q => q = r
    BY <1>1, Orders DEF Inv, Directory, Reserved, Staged
  <2>. QED
    BY <1>1, <2>1 DEF Inv, Indexed
<1>2. ASSUME NEW r \in Runs, entries[Index(r)] = r
      PROVE  Shown = r
  BY <1>1, <1>2 DEF Shown
<1>3. (\A r \in Runs : entries[Index(r)] # r) => Shown = NoFile
  BY DEF Shown
<1>. QED
  BY <1>2, <1>3, ConstantsAssumption DEF ShownFacts

LEMMA ShownNext == Inv /\ Inv' /\ [Next]_vars =>
                     ShownFacts /\ ShownFacts' /\ \A r \in Runs : Index(r)' = Index(r)
<1>1. Inv /\ Inv' => ShownFacts /\ ShownFacts'
  BY ShownIs, PTL
<1>2. [Next]_vars => \A r \in Runs : Index(r)' = Index(r)
  BY Fixed
<1>. QED
  BY <1>1, <1>2

LEMMA PromiseInit == Init => Promise!Init
<1>. SUFFICES ASSUME Init PROVE Promise!Init
  OBVIOUS
<1>1. Inv
  BY InitInv
<1>2. \A r \in Runs : entries[Index(r)] = NoFile
  BY <1>1, Orders DEF Init, Nothing, Inv
<1>3. Shown = NoFile
  BY <1>1, <1>2, ShownIs, ConstantsAssumption DEF ShownFacts
<1>4. Told = [r \in Runs |-> "pending"]
  BY DEF Init, Told
<1>. QED
  BY <1>3, <1>4 DEF Init, Promise!Init

\* What a call tells is settled when it returns, and an error of a caller that
\* has more to do after its publication tells nothing.
LEMMA Telling ==
  ASSUME TypeOK, NEW r \in Runs, NEW o \in {"ok", "failed"}, caller' = caller,
         outcome' = [outcome EXCEPT ![r] = o], outcome[r] = "pending"
  PROVE  \E t \in {"ok", "failed", "error"} :
           /\ Told[r] = "pending" /\ Told' = [Told EXCEPT ![r] = t]
           /\ t = "ok" => o = "ok"
           /\ t = "failed" => o = "failed" /\ caller[r] = "publish"
<1>. DEFINE t == IF o = "failed" /\ caller[r] # "publish" THEN "error" ELSE o
<1>1. \A q \in Runs : outcome'[q] = IF q = r THEN o ELSE outcome[q]
  BY DEF TypeOK
<1>2. Told' = [Told EXCEPT ![r] = t]
  BY <1>1 DEF Told
<1>3. t \in {"ok", "failed", "error"} /\ Told[r] = "pending"
  BY DEF Told
<1>. QED
  BY <1>2, <1>3

\* Every step maps to a step of PublishOnce or to a stutter: the rename, the
\* last move or the last link to Publish, the end of a call to Return, the
\* removal by the owner to Remove.
LEMMA PromiseStepped ==
  ASSUME Inv, Inv', [Next]_vars
  PROVE  [PromiseStep]_<<Shown, published, Told>>
<1>10. caller' = caller
  BY Settled
<1>11. outcome' = outcome => Told' = Told
  BY <1>10 DEF Told
<1>1. /\ Shown = NoFile <=> \A r \in Runs : entries[Index(r)] # r
      /\ Shown' = NoFile <=> \A r \in Runs : entries'[Index(r)] # r
      /\ \A r \in Runs : entries[Index(r)] = r => Shown = r
      /\ \A r \in Runs : entries'[Index(r)] = r => Shown' = r
  BY ShownNext DEF ShownFacts
<1>2. ASSUME \A r \in Runs : entries'[Index(r)] = r <=> entries[Index(r)] = r
      PROVE  Shown' = Shown
  BY <1>1, <1>2
<1>3. ASSUME NEW r \in Runs, NEW o \in {"ok", "failed"}, pc[r] # "done", pc'[r] = "done",
             outcome' = [outcome EXCEPT ![r] = o], published' = published, entries' = entries
      PROVE  PromiseStep
  <2>1. outcome[r] = "pending" /\ outcome'[r] = o
    BY <1>3 DEF Inv, TypeOK, Results
  <2>2. /\ o = "ok" => r \in published
        /\ o = "failed" /\ caller[r] = "publish" => r \notin published
    BY <1>3, <2>1, <1>10 DEF Inv, Results
  <2>3. PICK t \in {"ok", "failed", "error"} :
           /\ Told[r] = "pending" /\ Told' = [Told EXCEPT ![r] = t]
           /\ t = "ok" => o = "ok"
           /\ t = "failed" => o = "failed" /\ caller[r] = "publish"
    BY <1>3, <1>10, <2>1, Telling DEF Inv
  <2>4. Promise!Return(r, t)
    BY <1>2, <1>3, <2>2, <2>3 DEF Promise!Return, Promise!Succeeded, Promise!Refused
  <2>. QED
    BY <2>4 DEF PromiseStep
<1>4. ASSUME NEW r \in Runs, pc[r] \in Window, published' = published \cup {r}, outcome' = outcome,
             entries'[Index(r)] = r
      PROVE  PromiseStep
  <2>1. r \notin published /\ Told[r] = "pending" /\ Told' = Told
    BY <1>4, <1>11, Here DEF Inv, Results, Window, Told
  <2>2. \A q \in Runs : entries[Index(q)] # q
    BY <1>4, <2>1, Here DEF Inv, Indexed
  <2>3. Promise!Publish(r)
    BY <1>1, <1>4, <2>1, <2>2 DEF Promise!Publish
  <2>. QED
    BY <2>3 DEF PromiseStep
<1>5. ASSUME NEW r \in Runs, pc[r] \in Window, published' = published, outcome' = outcome,
             \A n \in Names : entries'[n] \in {entries[n], r, NoFile}
      PROVE  UNCHANGED <<Shown, published, Told>>
  <2>1. \A q \in Runs : entries[Index(q)] # q
    BY <1>5, Here DEF Inv, Indexed
  <2>2. \A q \in Runs : entries'[Index(q)] # q
    <3>1. entries'[Index(r)] # r
      BY <1>5, Here, ShownNext DEF Inv, Indexed
    <3>. QED
      BY <1>5, <2>1, <3>1, Orders, ConstantsAssumption DEF Inv
  <2>. QED
    BY <1>1, <1>5, <1>11, <2>1, <2>2
<1>6. ASSUME NEW r \in Runs, Step(r)
      PROVE  [PromiseStep]_<<Shown, published, Told>>
  <2>1. CASE StagePublish(r) \/ StageSave(r) \/ StageExport(r)
    BY <1>2, <1>3, <1>11, <2>1 DEF StagePublish, StageSave, StageExport, Stages, Fail, Return,
       Goto,
       tree, Inv, TypeOK
  <2>2. CASE Reserve(r)
    BY <1>2, <1>3, <1>11, <2>2 DEF Reserve, Fail, Return, Goto, Inv, TypeOK
  <2>3. CASE Rename(r)
    <3>1. CASE UNCHANGED <<tree, published>>
      BY <1>2, <1>11, <2>3, <3>1 DEF Rename, tree
    <3>2. CASE entries' = [n \in Names |-> IF n \in Own(r) THEN r ELSE NoFile] /\ Complete(r)
      <4>1. Index(r) \in Own(r) /\ Index(r) \in Names
        BY Orders DEF Inv
      <4>. QED
        BY <1>4, <2>3, <3>2, <4>1 DEF Rename, Complete, Window
    <3>. QED
      BY <2>3, <3>1, <3>2 DEF Rename
  <2>4. CASE MoveMember(r) \/ LinkMember(r)
    <3>1. Order(r)[at[r]] \in Names /\ Index(r) = Order(r)[Len(Order(r))] /\ pc[r] \in Window
      BY <2>4, Here, Orders DEF MoveMember, LinkMember, Window, Filler, Inv
    <3>2. CASE published' = published
      <4>1. \A n \in Names : entries'[n] \in {entries[n], r}
        BY <2>4, <3>1 DEF MoveMember, LinkMember, Inv, TypeOK
      <4>. QED
        BY <1>5, <2>4, <3>1, <3>2, <4>1 DEF MoveMember, LinkMember
    <3>3. CASE published' # published
      <4>1. /\ at[r] = Len(Order(r)) /\ published' = published \cup {r} /\ outcome' = outcome
            /\ entries' = [entries EXCEPT ![Order(r)[at[r]]] = r]
        BY <2>4, <3>3 DEF MoveMember, LinkMember, Complete
      <4>2. entries'[Index(r)] = r
        BY <3>1, <4>1 DEF Inv, TypeOK
      <4>. QED
        BY <1>4, <3>1, <4>1, <4>2
    <3>. QED
      BY <3>2, <3>3
  <2>5. CASE MoveBack(r) \/ UnlinkEntry(r)
    <3>1. \A n \in Names : entries'[n] \in {entries[n], NoFile}
      BY <2>5 DEF MoveBack, UnlinkEntry, Inv, TypeOK
    <3>. QED
      BY <1>5, <2>5, <3>1 DEF MoveBack, UnlinkEntry, Window
  <2>6. CASE RemoveReservation(r)
    BY <1>2, <1>3, <2>6 DEF RemoveReservation, Fail, Return, Goto, Inv, TypeOK
  <2>7. CASE Identify(r) \/ CheckReservation(r)
    BY <1>2, <1>3, <1>11, <2>7 DEF Identify, CheckReservation, Fail, Return, Goto, tree, Inv,
       TypeOK
  <2>8. CASE CheckEntry(r)
    BY <1>2, <1>11, <2>8 DEF CheckEntry, tree
  <2>9. CASE Finish(r) \/ Reopen(r) \/ Discard(r)
    BY <1>2, <1>3, <2>9 DEF Finish, Reopen, Discard, Return, Goto, tree, Inv, TypeOK
  <2>. QED
    BY <1>6, <2>1, <2>2, <2>3, <2>4, <2>5, <2>6, <2>7, <2>8, <2>9 DEF Step
<1>7. CASE RivalCreate \/ (\E r \in Runs : Kill(r)) \/ UNCHANGED vars
  BY <1>2, <1>7, <1>11 DEF RivalCreate, Act, Kill, vars, tree
<1>8. ASSUME NEW n \in Names, RivalInsert(n) \/ RivalTakeBack(n)
      PROVE  UNCHANGED <<Shown, published, Told>>
  <2>1. \A m \in Names, r \in Runs : entries'[m] = r <=> entries[m] = r
    BY <1>8, ConstantsAssumption DEF RivalInsert, RivalTakeBack, Inv, TypeOK
  <2>. QED
    BY <1>2, <1>8, <1>11, <2>1, Orders DEF RivalInsert, RivalTakeBack, Act, Inv
<1>9. CASE Withdraw
  <2>1. \A r \in Runs : entries'[Index(r)] # r
    BY <1>9, Orders, ConstantsAssumption DEF Withdraw, Nothing, Inv
  <2>2. Shown' = NoFile /\ UNCHANGED <<published, Told>>
    BY <1>1, <1>9, <1>11, <2>1 DEF Withdraw, Act
  <2>. QED
    BY <1>9, <2>2 DEF Promise!Remove, PromiseStep
<1>. QED
  BY <1>6, <1>7, <1>8, <1>9 DEF Next

\* Publication member by member keeps the promise of the atomic one: a reader
\* that begins with the index finds one whole publication or nothing
\* (publication.rs:9-10), and no call takes a publication away.  Success means
\* published, an error of publish_directory_noreplace means not published; what
\* save and export report as an error may come with either.
THEOREM Refinement == ASSUME ~RivalInWindow PROVE Spec => PromiseKept
<1>1. Inv /\ Inv' /\ [Next]_vars => [PromiseStep]_<<Shown, published, Told>>
  BY PromiseStepped
<1>. QED
  BY Invariance, PromiseInit, <1>1, PTL DEF Spec, PromiseKept

-----------------------------------------------------------------------------
(* Failures leave nothing, when the acts of a rollback succeed.            *)

\* The entries of a call that fills its directory are those that its rollback
\* has still before it; a call that has failed has none.
Left(r) ==
  \A n \in Names : entries[n] = r =>
    /\ outcome[r] = "failed" => r \in published
    /\ pc[r] \in Filler \cup Late
    /\ pc[r] \in Filler => \E i \in back[r] .. (at[r] - 1) : n = Order(r)[i]

\* What is not in the directory is in the stage.
InStage(r) ==
  /\ pc[r] = "stage" => staged[r] = {}
  /\ pc[r] \in {"reserve", "rename"} => staged[r] = Own(r)
  /\ pc[r] \in {"move", "back"} => staged[r] = {Order(r)[i] : i \in at[r] .. Len(Order(r))}
  /\ pc[r] \in {"identify", "link", "check", "entry", "unlink"} =>
       caller[r] = "export" /\ staged[r] = Own(r)
  /\ pc[r] = "remove" => staged[r] = Own(r)
  /\ outcome[r] = "failed" /\ r \notin published => staged[r] \in {{}, Own(r)}

\* A reservation outlives its call only under a rival's files.
Shut(r) ==
  /\ outcome[r] = "failed" /\ r \notin published /\ target = Reserved(r) => touched
  /\ target = Staged(r) => r \in published

Clean == \A r \in Runs : Left(r) /\ InStage(r) /\ Shut(r)

\* A step of one run puts no entry of another into the directory.
LEMMA CleanEntries ==
  ASSUME Inv, NEW r \in Runs, Step(r), NEW q \in Runs, q # r
  PROVE  \A n \in Names : entries'[n] = q => entries[n] = q
<1>1. CASE Rename(r)
  BY <1>1, ConstantsAssumption DEF Rename, tree
<1>2. CASE MoveMember(r) \/ LinkMember(r)
  BY <1>2 DEF MoveMember, LinkMember, Inv, TypeOK
<1>3. CASE MoveBack(r) \/ UnlinkEntry(r)
  BY <1>3, ConstantsAssumption DEF MoveBack, UnlinkEntry, Inv, TypeOK
<1>. QED
  BY <1>1, <1>2, <1>3 DEF Step, StagePublish, StageSave, StageExport, Reserve, Rename,
     MoveMember,
     MoveBack, RemoveReservation, Identify, LinkMember, CheckReservation, CheckEntry,
     UnlinkEntry, Finish, Reopen, Discard, tree

\* A publication is complete when the index stands there.
LEMMA PublishedIndex ==
  ASSUME Inv, NEW r \in Runs, Step(r), r \in published', r \notin published
  PROVE  entries'[Index(r)] = r
<1>1. Index(r) \in Own(r) /\ Index(r) \in Names /\ Index(r) = Order(r)[Len(Order(r))]
  BY Orders DEF Inv
<1>2. CASE Rename(r)
  BY <1>1, <1>2 DEF Rename, Complete
<1>3. CASE MoveMember(r) \/ LinkMember(r)
  <2>1. at[r] = Len(Order(r)) /\ entries' = [entries EXCEPT ![Order(r)[at[r]]] = r]
    BY <1>3 DEF MoveMember, LinkMember, Complete
  <2>. QED
    BY <1>1, <2>1 DEF Inv, TypeOK
<1>. QED
  BY <1>2, <1>3 DEF Step, StagePublish, StageSave, StageExport, Reserve, MoveBack,
     RemoveReservation, Identify, CheckReservation, CheckEntry, UnlinkEntry, Finish, Reopen,
     Discard

\* A step of one run leaves what another one has.
LEMMA CleanOthers ==
  ASSUME Inv, Clean, NEW r \in Runs, Step(r), NEW q \in Runs, q # r
  PROVE  Left(q)' /\ InStage(q)' /\ Shut(q)'
<1>1. Order(q)' = Order(q) /\ Own(q)' = Own(q)
  BY Fixed DEF Next
<1>2. /\ pc'[q] = pc[q] /\ at'[q] = at[q] /\ back'[q] = back[q] /\ staged'[q] = staged[q]
      /\ outcome'[q] = outcome[q] /\ caller' = caller
  BY DEF Step, StagePublish, StageSave, StageExport, Reserve, Rename, MoveMember,
       MoveBack, RemoveReservation, Identify, LinkMember, CheckReservation, CheckEntry,
       UnlinkEntry, Finish, Reopen, Discard, Stages,
     Fail, Return, Goto, Complete, frame, Inv, TypeOK
<1>3. \A n \in Names : entries'[n] = q => entries[n] = q
  BY CleanEntries
<1>4. /\ target' = Reserved(q) => target = Reserved(q) /\ touched' = touched
      /\ target' = Staged(q) => target = Staged(q)
      /\ q \in published => q \in published'
  BY ConstantsAssumption DEF Step, StagePublish, StageSave, StageExport, Reserve, Rename,
     MoveMember,
       MoveBack, RemoveReservation, Identify, LinkMember, CheckReservation, CheckEntry,
       UnlinkEntry, Finish, Reopen, Discard, tree, Complete, Reserved, Staged, NoDir
<1>. QED
  BY <1>1, <1>2, <1>3, <1>4 DEF Clean, Left, InStage, Shut


\* A call that ends before it has put anything into the directory, or after it
\* has taken everything back.
LEMMA CleanFail ==
  ASSUME Inv, Clean, NEW r \in Runs, Fail(r), [Next]_vars, entries' = entries,
         UNCHANGED <<caller, published>>, target' # Staged(r),
         \A n \in Names : entries[n] # r,
         target' = Reserved(r) => touched',
         staged[r] \in {{}, Own(r)}
  PROVE  Left(r)' /\ InStage(r)' /\ Shut(r)'
<1>1. Order(r)' = Order(r) /\ Own(r)' = Own(r)
  BY Fixed
<1>2. pc'[r] = "done" /\ outcome'[r] = "failed"
  BY DEF Fail, Return, Goto, Inv, TypeOK
<1>3. staged'[r] \in {{}, Own(r)}
  BY DEF Fail, Inv, TypeOK
<1>. QED
  BY <1>1, <1>2, <1>3 DEF Left, InStage, Shut, Filler, Late, Reserved, Staged

\* A call that has put nothing into the directory yet.
LEMMA Fresh ==
  ASSUME Inv, Clean, NEW r \in Runs, pc[r] \in Early \cup {"rename", "identify", "remove"}
  PROVE  \A n \in Names : entries[n] # r
  BY DEF Clean, Left, Early, Filler, Late

LEMMA CleanOwn ==
  ASSUME Inv, Clean, Reliable, NEW r \in Runs, Step(r)
  PROVE  Left(r)' /\ InStage(r)' /\ Shut(r)'
<1>1. Order(r)' = Order(r) /\ Own(r)' = Own(r)
  BY Fixed DEF Next
<1>2. TypeOK /\ Len(Order(r)) \in Nat \ {0} /\ Own(r) = {Order(r)[i] : i \in 1 .. Len(Order(r))}
  BY Orders DEF Inv
<1>3. Left(r) /\ InStage(r) /\ Shut(r)
  BY DEF Clean
<1>4. [Next]_vars
  BY DEF Next
<1>5. CASE StagePublish(r) \/ StageSave(r) \/ StageExport(r)
  <2>1. pc[r] = "stage" /\ entries' = entries /\ target' = target /\ UNCHANGED <<caller, published>>
    BY <1>5 DEF StagePublish, StageSave, StageExport, tree, frame
  <2>2. target \notin {Reserved(r), Staged(r)} /\ \A n \in Names : entries[n] # r
    BY <2>1, Fresh DEF Inv, Place, Early
  <2>3. CASE Fail(r)
    BY <1>3, <1>4, <2>1, <2>2, <2>3, CleanFail DEF InStage
  <2>4. CASE ~Fail(r)
    <3>1. pc'[r] = "reserve" /\ staged'[r] = Own(r) /\ outcome'[r] = "pending"
      BY <1>2, <1>5, <2>1, <2>4 DEF StagePublish, StageSave, StageExport, Stages, Goto,
         TypeOK,
         Inv, Results
    <3>. QED
      BY <1>1, <2>1, <2>2, <3>1 DEF Left, InStage, Shut, Reserved, Staged
  <2>. QED
    BY <2>3, <2>4
<1>6. CASE Reserve(r)
  <2>1. pc[r] = "reserve" /\ entries' = entries /\ UNCHANGED <<caller, published>>
    BY <1>6 DEF Reserve, frame
  <2>2. target \notin {Reserved(r), Staged(r)} /\ \A n \in Names : entries[n] # r
    BY <2>1, Fresh DEF Inv, Place, Early
  <2>3. CASE Fail(r) /\ target' = target
    BY <1>3, <1>4, <2>1, <2>2, <2>3, CleanFail DEF InStage
  <2>4. CASE ~(Fail(r) /\ target' = target)
    <3>1. /\ target' = Reserved(r) /\ staged'[r] = Own(r) /\ outcome'[r] = "pending" /\ at' = at
          /\ \/ pc'[r] = "rename" /\ caller[r] # "export"
             \/ pc'[r] = "move" /\ caller[r] # "export"
             \/ pc'[r] = "identify" /\ caller[r] = "export"
      BY <1>2, <1>3, <1>6, <2>1, <2>4, ConstantsAssumption DEF Reserve, Goto, TypeOK, Inv,
         Results, InStage, ByRename, ByMoves
    <3>2. at'[r] = 1
      BY <2>1, <3>1 DEF Inv, Position, Early
    <3>. QED
      BY <1>1, <1>2, <2>1, <2>2, <3>1, <3>2 DEF Left, InStage, Shut, Reserved, Staged
  <2>. QED
    BY <2>3, <2>4
<1>7. CASE Rename(r)
  <2>1. /\ pc[r] = "rename" /\ caller' = caller /\ outcome'[r] = "pending"
        /\ target = Reserved(r)
    BY <1>7, Here DEF Rename, frame, Inv, Results, Window
  <2>2. CASE pc'[r] = "finish"
    <3>1. target' = Staged(r) /\ r \in published'
      BY <1>2, <1>7, <2>2 DEF Rename, Complete, Goto, TypeOK
    <3>. QED
      BY <1>1, <2>1, <2>2, <3>1 DEF Left, InStage, Shut, Filler, Late, Reserved, Staged
  <2>3. CASE pc'[r] # "finish"
    <3>1. pc'[r] = "remove" /\ UNCHANGED <<tree, staged, published>>
      BY <1>2, <1>7, <2>3 DEF Rename, Complete, Goto, TypeOK
    <3>. QED
      BY <1>1, <1>3, <2>1, <3>1, Fresh DEF tree, Left, InStage, Shut, Reserved, Staged
  <2>. QED
    BY <2>2, <2>3
<1>8. CASE MoveMember(r)
  <2>1. /\ pc[r] = "move" /\ caller' = caller /\ outcome'[r] = "pending" /\ back'[r] = 1
        /\ target' = Reserved(r) /\ touched' = touched
    BY <1>8, Here DEF MoveMember, frame, Inv, Results, Window, Position, Late
  <2>2. at[r] \in 1 .. Len(Order(r)) /\ Order(r)[at[r]] \in Names
    BY <2>1, Here DEF Window, Filler
  <2>3. CASE UNCHANGED <<entries, staged, at, published>> /\ pc'[r] = "back"
    BY <1>1, <1>3, <2>1, <2>3 DEF Left, InStage, Shut, Filler, Reserved, Staged, Inv,
       Position,
       Late
  <2>4. CASE /\ entries' = [entries EXCEPT ![Order(r)[at[r]]] = r]
             /\ staged' = [staged EXCEPT ![r] = @ \ {Order(r)[at[r]]}]
             /\ at' = [at EXCEPT ![r] = @ + 1]
             /\ pc'[r] \in {"move", "finish"}
    <3>1. at'[r] = at[r] + 1 /\ staged'[r] = staged[r] \ {Order(r)[at[r]]}
      BY <1>2, <2>4 DEF TypeOK
    <3>2. ASSUME NEW n \in Names, entries'[n] = r
          PROVE  \E i \in back'[r] .. (at'[r] - 1) : n = Order(r)[i]
      <4>1. CASE n = Order(r)[at[r]]
        BY <2>1, <2>2, <3>1, <4>1
      <4>2. CASE n # Order(r)[at[r]]
        <5>1. entries[n] = r
          BY <1>2, <2>4, <3>2, <4>2 DEF TypeOK
        <5>2. PICK i \in back[r] .. (at[r] - 1) : n = Order(r)[i]
          BY <1>3, <2>1, <5>1 DEF Left, Filler
        <5>3. back[r] = 1
          BY <2>1 DEF Inv, Position, Late
        <5>. QED
          BY <2>1, <2>2, <3>1, <5>2, <5>3
      <4>. QED
        BY <4>1, <4>2
    <3>3. staged'[r] = {Order(r)[i] : i \in at'[r] .. Len(Order(r))}
      <4>1. staged[r] = {Order(r)[i] : i \in at[r] .. Len(Order(r))}
        BY <1>3, <2>1 DEF InStage
      <4>2. \A i \in at[r] .. Len(Order(r)) : Order(r)[i] = Order(r)[at[r]] => i = at[r]
        BY <1>2, <2>2, Orders
      <4>. QED
        BY <1>2, <2>2, <3>1, <4>1, <4>2
    <3>. QED
      BY <1>1, <1>3, <2>1, <2>4, <3>2, <3>3 DEF Left, InStage, Shut, Filler, Late,
         Reserved,
         Staged
  <2>. QED
    BY <1>2, <1>8, <2>3, <2>4 DEF MoveMember, Complete, Goto, TypeOK
<1>9. CASE MoveBack(r)
  <2>1. /\ pc[r] = "back" /\ caller' = caller /\ outcome'[r] = "pending"
        /\ back'[r] = 1 /\ back[r] = 1 /\ target' = Reserved(r) /\ touched' = touched
    BY <1>9, Here DEF MoveBack, frame, Inv, Results, Window, Position, Late
  <2>2. at[r] \in 1 .. Len(Order(r))
    BY <2>1, Here DEF Window, Filler
  <2>3. \A n \in Names : entries[n] = r => \E i \in 1 .. (at[r] - 1) : n = Order(r)[i]
    BY <1>3, <2>1 DEF Left, Filler
  <2>4. staged[r] = {Order(r)[i] : i \in at[r] .. Len(Order(r))}
    BY <1>3, <2>1 DEF InStage
  <2>5. CASE at[r] = 1
    <3>1. pc'[r] = "remove" /\ entries' = entries /\ staged' = staged /\ at' = at
      BY <1>2, <1>9, <2>5 DEF MoveBack, Goto, TypeOK
    <3>2. \A n \in Names : entries[n] # r
      BY <2>3, <2>5
    <3>3. staged[r] = Own(r)
      BY <1>2, <2>4, <2>5
    <3>. QED
      BY <1>1, <2>1, <3>1, <3>2, <3>3 DEF Left, InStage, Shut, Reserved, Staged
  <2>6. CASE at[r] # 1
    <3>. DEFINE m == Order(r)[at[r] - 1]
    <3>1. at[r] - 1 \in 1 .. Len(Order(r)) /\ at[r] - 1 \in 1 .. (at[r] - 1)
      BY <1>2, <2>2, <2>6
    <3>2. m \in Names /\ entries[m] = r
      BY <2>1, <3>1, Orders DEF Inv, Filled
    <3>3. /\ at' = [at EXCEPT ![r] = @ - 1] /\ entries' = [entries EXCEPT ![m] = NoFile]
          /\ staged' = [staged EXCEPT ![r] = @ \cup {m}] /\ pc' = pc
      BY <1>9, <2>6, <3>2, ConstantsAssumption DEF MoveBack, Reliable, May
    <3>4. /\ at'[r] = at[r] - 1 /\ staged'[r] = staged[r] \cup {m} /\ pc'[r] = "back"
      BY <1>2, <2>1, <3>3 DEF TypeOK
    <3>5. ASSUME NEW n \in Names, entries'[n] = r
          PROVE  \E i \in 1 .. (at'[r] - 1) : n = Order(r)[i]
      <4>1. n # m /\ entries[n] = r
        BY <1>2, <3>2, <3>3, <3>5, ConstantsAssumption DEF TypeOK
      <4>2. PICK i \in 1 .. (at[r] - 1) : n = Order(r)[i]
        BY <2>3, <4>1
      <4>3. i # at[r] - 1
        BY <4>1, <4>2
      <4>. QED
        BY <2>2, <3>4, <4>2, <4>3
    <3>6. staged'[r] = {Order(r)[i] : i \in at'[r] .. Len(Order(r))}
      BY <1>2, <2>2, <2>4, <2>6, <3>4
    <3>. QED
      BY <1>1, <1>3, <2>1, <3>4, <3>5, <3>6 DEF Left, InStage, Shut, Filler, Late,
         Reserved,
         Staged
  <2>. QED
    BY <2>5, <2>6
<1>10. CASE RemoveReservation(r)
  <2>1. /\ pc[r] = "remove" /\ entries' = entries /\ UNCHANGED <<caller, published>> /\ Fail(r)
        /\ target = Reserved(r) /\ Present
    BY <1>10, Here DEF RemoveReservation, frame, Window
  <2>2. \A n \in Names : entries[n] # r
    BY <2>1, Fresh
  <2>3. target' # Staged(r)
    BY <1>10, <2>1, ConstantsAssumption DEF RemoveReservation, Staged, Reserved, NoDir
  <2>4. ASSUME target' = Reserved(r)
        PROVE  touched'
    <3>1. ~Empty /\ touched' = touched
      BY <1>10, <2>1, <2>4, ConstantsAssumption DEF RemoveReservation, Reliable, May,
         Reserved,
         NoDir
    <3>2. PICK n \in Names : entries[n] # NoFile
      BY <1>2, <3>1 DEF Empty, Nothing, TypeOK
    <3>3. entries[n] = Rival
      BY <1>2, <2>1, <2>2, <3>2, Here DEF TypeOK, Window
    <3>. QED
      BY <3>1, <3>3 DEF Inv, Directory
  <2>. QED
    BY <1>3, <1>4, <2>1, <2>2, <2>3, <2>4, CleanFail DEF InStage
<1>11. CASE Identify(r)
  <2>1. /\ pc[r] = "identify" /\ target = Reserved(r) /\ Present /\ outcome[r] = "pending"
    BY <1>11, Here DEF Identify, Window, Inv, Results
  <2>2. /\ pc'[r] = "link" /\ UNCHANGED <<tree, staged, outcome, caller, published>>
    BY <1>2, <1>11, <2>1 DEF Identify, Goto, Reliable, May, frame, TypeOK
  <2>3. \A n \in Names : entries[n] # r
    BY <2>1, Fresh
  <2>. QED
    BY <1>1, <1>3, <2>1, <2>2, <2>3 DEF tree, Left, InStage, Shut, Reserved, Staged
<1>12. CASE LinkMember(r)
  <2>1. /\ pc[r] = "link" /\ caller' = caller /\ outcome'[r] = "pending" /\ back'[r] = 1
        /\ target' = Reserved(r) /\ touched' = touched /\ caller[r] = "export"
        /\ staged' = staged
    BY <1>3, <1>12, Here DEF LinkMember, frame, Inv, Results, Window, Position, Late,
       InStage
  <2>2. at[r] \in 1 .. Len(Order(r)) /\ Order(r)[at[r]] \in Names /\ back[r] = 1
    BY <2>1, Here DEF Window, Filler, Inv, Position, Late
  <2>3. CASE UNCHANGED <<entries, at, published>> /\ pc'[r] = "check"
    BY <1>1, <1>3, <2>1, <2>2, <2>3 DEF Left, InStage, Shut, Filler, Late, Reserved,
       Staged
  <2>4. CASE /\ entries' = [entries EXCEPT ![Order(r)[at[r]]] = r]
             /\ at' = [at EXCEPT ![r] = @ + 1]
             /\ pc'[r] \in {"link", "finish"}
    <3>1. at'[r] = at[r] + 1
      BY <1>2, <2>4 DEF TypeOK
    <3>2. ASSUME NEW n \in Names, entries'[n] = r
          PROVE  \E i \in back'[r] .. (at'[r] - 1) : n = Order(r)[i]
      <4>1. CASE n = Order(r)[at[r]]
        BY <2>1, <2>2, <3>1, <4>1
      <4>2. CASE n # Order(r)[at[r]]
        <5>1. entries[n] = r
          BY <1>2, <2>4, <3>2, <4>2 DEF TypeOK
        <5>2. PICK i \in back[r] .. (at[r] - 1) : n = Order(r)[i]
          BY <1>3, <2>1, <5>1 DEF Left, Filler
        <5>. QED
          BY <2>1, <2>2, <3>1, <5>2
      <4>. QED
        BY <4>1, <4>2
    <3>. QED
      BY <1>1, <1>3, <2>1, <2>4, <3>2 DEF Left, InStage, Shut, Filler, Late, Reserved,
         Staged
  <2>. QED
    BY <1>2, <1>12, <2>3, <2>4 DEF LinkMember, Complete, Goto, TypeOK
<1>13. CASE CheckReservation(r)
  <2>1. /\ pc[r] = "check" /\ UNCHANGED <<tree, caller, published, at, back>>
        /\ reservation[r] = Reserved(r) /\ outcome[r] = "pending" /\ r \notin published
        /\ caller[r] = "export"
    BY <1>3, <1>13 DEF CheckReservation, frame, Inv, Place, Results, Late, InStage
  <2>2. CASE pc'[r] = "entry" /\ UNCHANGED <<staged, outcome>>
    BY <1>1, <1>3, <2>1, <2>2 DEF tree, Left, InStage, Shut, Filler, Late
  <2>3. CASE target # reservation[r] /\ Fail(r)
    <3>1. target \notin {Reserved(r), Staged(r)}
      BY <1>3, <2>1, <2>3 DEF Shut
    <3>2. \A n \in Names : entries[n] # r
      BY <3>1 DEF Inv, Directory
    <3>. QED
      BY <1>3, <1>4, <2>1, <2>3, <3>1, <3>2, CleanFail DEF tree, InStage
  <2>. QED
    BY <1>2, <1>13, <2>2, <2>3 DEF CheckReservation, Goto, Reliable, May, TypeOK
<1>14. CASE CheckEntry(r)
  <2>1. /\ pc[r] = "entry" /\ UNCHANGED <<tree, caller, published, at, staged, outcome>>
        /\ outcome[r] = "pending" /\ target = Reserved(r) /\ caller[r] = "export"
    BY <1>3, <1>14, Here DEF CheckEntry, frame, Inv, Results, InStage, Window
  <2>2. back[r] \in Nat \ {0} /\ at[r] \in Nat \ {0} /\ back[r] <= at[r]
    BY <2>1, Here DEF Window
  <2>3. CASE back[r] = at[r]
    <3>1. \A n \in Names : entries[n] # r
      BY <1>3, <2>1, <2>2, <2>3 DEF Left, Filler
    <3>2. pc'[r] = "remove"
      BY <1>2, <1>14, <2>3 DEF CheckEntry, Goto, TypeOK
    <3>. QED
      BY <1>1, <1>3, <2>1, <3>1, <3>2 DEF tree, Left, InStage, Shut, Reserved, Staged
  <2>4. CASE pc'[r] = "unlink" /\ back' = back
    BY <1>1, <1>3, <2>1, <2>4 DEF tree, Left, InStage, Shut, Filler, Late
  <2>5. CASE /\ entries[Order(r)[back[r]]] # r /\ back' = [back EXCEPT ![r] = @ + 1] /\ pc' = pc
    <3>1. back'[r] = back[r] + 1
      BY <1>2, <2>5 DEF TypeOK
    <3>2. ASSUME NEW n \in Names, entries[n] = r
          PROVE  \E i \in back'[r] .. (at[r] - 1) : n = Order(r)[i]
      <4>1. PICK i \in back[r] .. (at[r] - 1) : n = Order(r)[i]
        BY <1>3, <2>1, <3>2 DEF Left, Filler
      <4>2. i # back[r]
        BY <2>5, <3>2, <4>1
      <4>. QED
        BY <2>2, <3>1, <4>1, <4>2
    <3>. QED
      BY <1>1, <1>3, <2>1, <2>5, <3>2 DEF tree, Left, InStage, Shut, Filler, Late
  <2>. QED
    BY <1>2, <1>14, <2>3, <2>4, <2>5 DEF CheckEntry, Goto, Reliable, May, TypeOK
<1>15. CASE UnlinkEntry(r)
  <2>. DEFINE m == Order(r)[back[r]]
  <2>1. /\ pc[r] = "unlink" /\ UNCHANGED <<target, touched, caller, published, at, staged, outcome>>
        /\ outcome[r] = "pending" /\ target = Reserved(r) /\ caller[r] = "export"
        /\ m \in Names
    BY <1>3, <1>15, Here DEF UnlinkEntry, frame, Inv, Results, InStage, Window, Filler
  <2>2. /\ back[r] \in Nat \ {0} /\ at[r] \in Nat \ {0}
        /\ back'[r] = back[r] + 1 /\ pc'[r] = "entry"
        /\ entries' = [entries EXCEPT ![m] = NoFile]
    BY <1>2, <1>15 DEF UnlinkEntry, Goto, Reliable, May, TypeOK
  <2>3. ASSUME NEW n \in Names, entries'[n] = r
        PROVE  \E i \in back'[r] .. (at[r] - 1) : n = Order(r)[i]
    <3>1. n # m /\ entries[n] = r
      BY <1>2, <2>1, <2>2, <2>3, ConstantsAssumption DEF TypeOK
    <3>2. PICK i \in back[r] .. (at[r] - 1) : n = Order(r)[i]
      BY <1>3, <2>1, <3>1 DEF Left, Filler
    <3>3. i # back[r]
      BY <3>1, <3>2
    <3>. QED
      BY <2>2, <3>2, <3>3
  <2>. QED
    BY <1>1, <1>3, <2>1, <2>2, <2>3 DEF Left, InStage, Shut, Filler, Late
<1>16. CASE Finish(r) \/ Reopen(r) \/ Discard(r)
  <2>1. /\ pc'[r] = "done" /\ r \in published /\ UNCHANGED <<tree, caller, published>>
    BY <1>2, <1>16 DEF Finish, Reopen, Discard, Return, Goto, frame, TypeOK, Inv, Results
  <2>. QED
    BY <1>1, <1>3, <2>1 DEF tree, Left, InStage, Shut, Filler, Late
<1>. QED
  BY <1>5, <1>6, <1>7, <1>8, <1>9, <1>10, <1>11, <1>12, <1>13, <1>14, <1>15,
     <1>16 DEF Step

\* Rivals, withdrawals and crashes leave a failed call as it is.
LEMMA CleanNext ==
  ASSUME Inv, Clean, [Next]_vars, Reliable
  PROVE  Clean'
<1>1. \A q \in Runs : Order(q)' = Order(q) /\ Own(q)' = Own(q)
  BY Fixed
<1>2. ASSUME NEW r \in Runs, Step(r)
      PROVE  Clean'
  BY <1>2, CleanOwn, CleanOthers DEF Clean
<1>3. CASE UNCHANGED vars
  BY <1>1, <1>3 DEF vars, frame, tree, Clean, Left, InStage, Shut
<1>4. ASSUME NEW r \in Runs, Kill(r)
      PROVE  Clean'
  <2>1. \A q \in Runs : pc'[q] = IF q = r THEN "dead" ELSE pc[q]
    BY <1>4 DEF Kill, Goto, Inv, TypeOK
  <2>. QED
    BY <1>1, <1>4, <2>1 DEF Kill, tree, Clean, Left, InStage, Shut, Filler, Late
<1>5. CASE RivalCreate
  BY <1>1, <1>5, ConstantsAssumption DEF RivalCreate, Act, Clean, Left, InStage, Shut,
     RivalDir,
     Reserved, Staged
<1>6. ASSUME NEW n \in Names, RivalInsert(n) \/ RivalTakeBack(n)
      PROVE  Clean'
  <2>1. \A m \in Names, q \in Runs : entries'[m] = q => entries[m] = q
    BY <1>6, ConstantsAssumption DEF RivalInsert, RivalTakeBack, Inv, TypeOK
  <2>2. target' = target /\ (touched => touched')
    BY <1>6 DEF RivalInsert, RivalTakeBack
  <2>. QED
    BY <1>1, <1>6, <2>1, <2>2 DEF RivalInsert, RivalTakeBack, Act, Clean, Left, InStage,
       Shut,
       Reserved, Staged
<1>7. CASE Withdraw
  BY <1>1, <1>7, ConstantsAssumption DEF Withdraw, Act, Nothing, Clean, Left, InStage,
     Shut,
     NoDir, Reserved, Staged
<1>. QED
  BY <1>2, <1>3, <1>4, <1>5, <1>6, <1>7 DEF Next

\* What has been published stands with all its members until it is withdrawn:
\* no call takes a member of it away.
Standing == \A r \in published : Whole(r) \/ \A n \in Names : entries[n] # r

LEMMA StandingNext ==
  ASSUME Inv, Inv', Standing, [Next]_vars
  PROVE  Standing'
<1>1. \A r \in Runs : Order(r)' = Order(r) /\ Own(r)' = Own(r) /\ Index(r)' = Index(r)
  BY Fixed
<1>2. published \subseteq Runs /\ published' \subseteq Runs
  BY DEF Inv, TypeOK
<1>3. ASSUME NEW q \in published, \A n \in Names : entries'[n] = q <=> entries[n] = q
      PROVE  Whole(q)' \/ \A n \in Names : entries'[n] # q
  BY <1>1, <1>2, <1>3, Orders DEF Standing, Whole, Inv
<1>4. ASSUME NEW r \in Runs, Step(r)
      PROVE  Standing'
  <2>1. ASSUME NEW q \in published, q # r, NEW n \in Names
        PROVE  entries'[n] = q <=> entries[n] = q
    <3>1. entries'[n] = q => entries[n] = q
      BY <1>2, <1>4, <2>1, CleanEntries
    <3>2. ASSUME entries[n] = q, entries'[n] # q
          PROVE  FALSE
      <4>1. target = Reserved(r)
        BY <1>2, <1>4, <2>1, <3>2, OwnStep, ConstantsAssumption DEF Inv, TypeOK
      <4>. QED
        BY <1>2, <2>1, <3>2, <4>1, Alone DEF Inv
    <3>. QED
      BY <3>1, <3>2
  <2>2. ASSUME r \in published
        PROVE  entries' = entries
    <3>1. pc[r] \notin Window
      BY <2>2, Here
    <3>. QED
      BY <1>4, <3>1 DEF Step, StagePublish, StageSave, StageExport, Reserve, Rename, MoveMember,
         MoveBack, RemoveReservation, Identify, LinkMember, CheckReservation, CheckEntry,
         UnlinkEntry, Finish, Reopen, Discard, tree, Window
  <2>3. published' \in {published, published \cup {r}}
    BY <1>4 DEF Step, StagePublish, StageSave, StageExport, Reserve, Rename, MoveMember,
       MoveBack, RemoveReservation, Identify, LinkMember, CheckReservation, CheckEntry,
       UnlinkEntry, Finish, Reopen, Discard, Complete
  <2>4. ASSUME r \in published', r \notin published
        PROVE  Whole(r)'
    <3>1. entries'[Index(r)] = r
      BY <1>4, <2>4, PublishedIndex
    <3>. QED
      BY <1>1, <3>1 DEF Inv, Indexed
  <2>. QED
    BY <1>3, <2>1, <2>2, <2>3, <2>4 DEF Standing
<1>5. CASE RivalCreate \/ (\E r \in Runs : Kill(r)) \/ UNCHANGED vars
  BY <1>3, <1>5 DEF RivalCreate, Act, Kill, vars, tree, Standing
<1>6. ASSUME NEW n \in Names, RivalInsert(n) \/ RivalTakeBack(n)
      PROVE  Standing'
  <2>1. \A m \in Names, r \in Runs : entries'[m] = r <=> entries[m] = r
    BY <1>6, ConstantsAssumption DEF RivalInsert, RivalTakeBack, Inv, TypeOK
  <2>. QED
    BY <1>2, <1>3, <1>6, <2>1 DEF RivalInsert, RivalTakeBack, Act, Standing
<1>7. CASE Withdraw
  BY <1>2, <1>7, ConstantsAssumption DEF Withdraw, Nothing, Standing
<1>. QED
  BY <1>4, <1>5, <1>6, <1>7 DEF Next

\* After an error all stands or nothing: a publication that did happen has all
\* its members, of one that did not none is left, its reservation only under a
\* rival's files, and the stage of its caller is complete.
THEOREM NothingLeft ==
  ASSUME ~RivalInWindow, Reliable
  PROVE  Spec => []FailureLeavesNothing
<1>1. Init => Clean /\ Standing
  <2>. SUFFICES ASSUME Init PROVE Clean /\ Standing
    OBVIOUS
  <2>. QED
    BY ConstantsAssumption DEF Init, Clean, Left, InStage, Shut, Nothing, NoDir,
       Reserved, Staged, Standing
<1>2. Inv /\ Clean /\ [Next]_vars => Clean'
  BY CleanNext
<1>3. Inv /\ Inv' /\ Standing /\ [Next]_vars => Standing'
  BY StandingNext
<1>4. Clean /\ Standing => FailureLeavesNothing
  BY DEF Clean, Left, InStage, Shut, Standing, FailureLeavesNothing
<1>. QED
  BY Invariance, <1>1, <1>2, <1>3, <1>4, PTL DEF Spec
=============================================================================
