---------------------- MODULE TrainingPublicationProofs ----------------------
(***************************************************************************)
(* The safety of TrainingPublication for any number of commands, paths,    *)
(* rival acts and crashes: what a response says is true, results never     *)
(* stand without their archive, a failure leaves nothing, and nobody       *)
(* else's entry is lost.                                                   *)
(***************************************************************************)
EXTENDS TrainingPublication, TLAPS

\* Labels before anything has been published.
Early == {"idle", "probe_archive", "probe_results", "probe_output", "overlap", "link"}

\* Labels while the results directory is being published.
Reserving == {"reserve", "rename", "unreserve"}

\* Labels of the rollback from the directory on, and from the archive on.
LateRollback == {"check_root", "remove_root", "check_archive", "remove_archive", "failed"}
LastRollback == {"check_archive", "remove_archive", "failed"}

\* What a training that has published everything owns.
Published(r) == {"archive"} \cup (IF Results(r) = NoPath THEN {} ELSE {"root", "member"})

-----------------------------------------------------------------------------
(* Types. *)

\* The fields of a request, and what a command without a training lacks.
LEMMA RequestFields ==
  ASSUME TypeOK, NEW r \in Runs
  PROVE  /\ Output(r) \in Paths \cup {NoPath}
         /\ Trains(r) => Archive(r) \in Paths /\ Results(r) \in Paths \cup {NoPath}
         /\ ~Trains(r) => /\ Archive(r) = NoPath
                          /\ Results(r) \in Paths /\ Results(r) # NoPath
  BY ConstantsAssumption DEF TypeOK, RequestType, Output, Archive, Results, Trains

\* Entries by their creator and kind.
LEMMA EntryFacts ==
  /\ NoFile \notin Entries /\ Dirs \subseteq Entries
  /\ \A r \in Runs, k \in OwnKinds : <<r, k>> \in Entries /\ <<r, k>> # NoFile
  /\ \A r \in Runs : /\ <<r, "root">> \in Dirs /\ <<r, "reservation">> \in Dirs
                     /\ <<r, "archive">> \notin Dirs /\ <<r, "member">> \notin Dirs
                     /\ <<r, "output">> \notin Dirs
  /\ RivalFile \in Entries /\ RivalFile \notin Dirs /\ RivalFile # NoFile
  /\ \A x \in Paths : RivalDir(x) \in Dirs
  BY ConstantsAssumption DEF Entries, Dirs, OwnKinds, RivalFile, RivalDir

THEOREM TypeInit == Init => TypeOK
<1> SUFFICES ASSUME Init PROVE TypeOK
  OBVIOUS
<1>1. request \in [Runs -> Requests] /\ pc \in [Runs -> {"idle"}]
      /\ owned \in [Runs -> {{}}] /\ response \in [Runs -> {"none"}]
      /\ withdrawn \in [Runs -> {{}}] /\ extra = {} /\ rivalActs = 0 /\ crashes = 0
  BY DEF Init
<1>2. at \in [Paths -> Entries \cup {NoFile}]
  BY DEF Init
<1>3. member \in [Dirs -> Entries \cup {NoFile}]
  <2>1. \A d \in Dirs : d[2] = "root" => <<d[1], "member">> \in Entries
    BY DEF Dirs, Entries, OwnKinds, RivalDir
  <2> QED
    BY <2>1 DEF Init
<1> QED
  BY <1>1, <1>2, <1>3, ConstantsAssumption DEF TypeOK

\* A label of the program.
Labels == Early \cup Reserving \cup {"emit", "write", "unwrite", "check_member",
                                     "remove_member", "ok", "dead"} \cup LateRollback

THEOREM TypeStep == TypeOK /\ [Next]_vars => TypeOK'
<1> SUFFICES ASSUME TypeOK, [Next]_vars PROVE TypeOK'
  OBVIOUS
<1> USE DEF TypeOK, Goto, tree
<1>1. ASSUME NEW r \in Runs, Begin(r) PROVE TypeOK'
  BY <1>1 DEF Begin
<1>2. ASSUME NEW r \in Runs, ProbeAll(r) PROVE TypeOK'
  BY <1>2 DEF ProbeAll, Probe
<1>3. ASSUME NEW r \in Runs, Train(r) PROVE TypeOK'
  BY <1>3 DEF Train
<1>4. ASSUME NEW r \in Runs, LinkArchive(r) PROVE TypeOK'
  <2>1. at' \in [Paths -> Entries \cup {NoFile}]
    <3> <<r, "archive">> \in Entries
      BY EntryFacts DEF OwnKinds
    <3> QED
      BY <1>4 DEF LinkArchive
  <2> QED
    BY <1>4, <2>1 DEF LinkArchive
<1>5. ASSUME NEW r \in Runs, Reserve(r) PROVE TypeOK'
  BY <1>5, EntryFacts DEF Reserve, OwnKinds, Unwind
<1>6. ASSUME NEW r \in Runs, Rename(r) PROVE TypeOK'
  <2>1. at' \in [Paths -> Entries \cup {NoFile}]
    <3> <<r, "root">> \in Entries
      BY EntryFacts DEF OwnKinds
    <3> QED
      BY <1>6 DEF Rename
  <2> QED
    BY <1>6, <2>1 DEF Rename
<1>7. ASSUME NEW r \in Runs, Unreserve(r) PROVE TypeOK'
  BY <1>7 DEF Unreserve, Unwind
<1>8. ASSUME NEW r \in Runs, Emit(r) PROVE TypeOK'
  <2>1. at' \in [Paths -> Entries \cup {NoFile}]
    <3> <<r, "output">> \in Entries
      BY EntryFacts DEF OwnKinds
    <3> QED
      BY <1>8 DEF Emit
  <2>2. pc' \in [Runs -> Labels]
    BY <1>8 DEF Emit, Unwind, AfterResponse, Labels, Early, Reserving, LateRollback
  <2> QED
    BY <1>8, <2>1, <2>2 DEF Emit, Labels, Early, Reserving, LateRollback
<1>9. ASSUME NEW r \in Runs, Write(r) PROVE TypeOK'
  BY <1>9 DEF Write, AfterResponse
<1>10. ASSUME NEW r \in Runs, Unwrite(r) PROVE TypeOK'
  BY <1>10 DEF Unwrite, Unwind
<1>11. ASSUME NEW r \in Runs, NEW k \in {"member", "root", "archive"}, NEW l, NEW m \in Labels,
              CheckOwned(r, k, l, m)
       PROVE  TypeOK'
  BY <1>11 DEF CheckOwned, AfterRemoval, Labels, Early, Reserving, LateRollback
<1>12. ASSUME NEW r \in Runs, NEW k \in {"member", "root", "archive"}, NEW l,
              RemoveOwned(r, k, l)
       PROVE  TypeOK'
  BY <1>12 DEF RemoveOwned, AfterRemoval
<1>13. ASSUME NEW r \in Runs, Crash(r) PROVE TypeOK'
  BY <1>13, ConstantsAssumption DEF Crash
<1>14. ASSUME NEW x \in Paths, RivalPuts(x) PROVE TypeOK'
  <2>1. at' \in [Paths -> Entries \cup {NoFile}]
    BY <1>14, EntryFacts DEF RivalPuts
  <2>2. member' \in [Dirs -> Entries \cup {NoFile}] /\ extra' \subseteq Dirs
    BY <1>14, EntryFacts DEF RivalPuts
  <2> QED
    BY <1>14, <2>1, <2>2, ConstantsAssumption DEF RivalPuts, RivalActs
<1>15. ASSUME NEW x \in Paths, RivalRemoves(x) PROVE TypeOK'
  BY <1>15, ConstantsAssumption DEF RivalRemoves, RivalActs
<1>16. ASSUME NEW x \in Paths, RivalInserts(x) PROVE TypeOK'
  <2>1. member' \in [Dirs -> Entries \cup {NoFile}] /\ extra' \subseteq Dirs
    BY <1>16, EntryFacts DEF RivalInserts
  <2> QED
    BY <1>16, <2>1, ConstantsAssumption DEF RivalInserts, RivalActs
<1>17. ASSUME UNCHANGED vars PROVE TypeOK'
  BY <1>17 DEF vars
<1> QED
  BY <1>1, <1>2, <1>3, <1>4, <1>5, <1>6, <1>7, <1>8, <1>9, <1>10, <1>11, <1>12, <1>13,
     <1>14, <1>15, <1>16, <1>17
  DEF Next, Step, Rollback, Labels, Early, Reserving, LateRollback

\* TypeOK: every variable keeps its type, whatever commands, rivals and
\* crashes do (archive_command.rs, publication.rs).
THEOREM TypeCorrectness == Spec => []TypeOK
  BY TypeInit, TypeStep, PTL DEF Spec
-----------------------------------------------------------------------------
(* What a command has published, answered and taken back at each label. *)

Flow(r) ==
  /\ pc[r] \in Early => owned[r] = {} /\ response[r] = "none"
  /\ pc[r] \in Early \ {"idle"} => Trains(r)
  /\ pc[r] \in Reserving => Results(r) # NoPath
  /\ Trains(r) /\ pc[r] \in Reserving => owned[r] = {"archive"}
  /\ Trains(r) /\ pc[r] \in {"emit", "write", "unwrite", "ok"} => owned[r] = Published(r)
  /\ Trains(r) /\ response[r] = "complete" => pc[r] = "ok"
  /\ ~Trains(r) => /\ owned[r] = {}
                   /\ pc[r] \in Reserving \cup {"ok"} => response[r] = "complete"
  /\ pc[r] \in {"write", "unwrite"} => Output(r) # NoPath
FlowInv == \A r \in Runs : Flow(r)

RollbackOf(r) ==
  /\ pc[r] \in {"check_member", "remove_member", "check_root", "remove_root"} =>
       Trains(r) /\ owned[r] = Published(r) /\ Results(r) # NoPath
  /\ pc[r] \in {"check_archive", "remove_archive"} => Trains(r)
  /\ pc[r] \in {"remove_member", "remove_root", "remove_archive"} => HasIdentity
  /\ withdrawn[r] # {} => HasIdentity /\ pc[r] \in LateRollback \cup {"dead"}
  /\ "archive" \in withdrawn[r] => pc[r] = "failed"
RollbackInv == \A r \in Runs : RollbackOf(r)

\* A step of a command changes no other command's variables.
LEMMA OthersKeep ==
  ASSUME TypeOK, NEW r \in Runs, NEW s \in Runs, s # r, Begin(r) \/ Step(r) \/ Crash(r)
  PROVE  /\ pc'[s] = pc[s] /\ owned'[s] = owned[s] /\ response'[s] = response[s]
         /\ withdrawn'[s] = withdrawn[s] /\ request' = request
  BY DEF TypeOK, Begin, Step, Crash, ProbeAll, Probe, Train, LinkArchive, Reserve, Rename,
         Unreserve, Emit, Write, Unwrite, Rollback, CheckOwned, RemoveOwned, Goto, Unwind,
         AfterResponse

\* A rival changes no command's variables.
LEMMA RivalsKeep ==
  ASSUME NEW x \in Paths, RivalPuts(x) \/ RivalRemoves(x) \/ RivalInserts(x)
  PROVE  UNCHANGED <<pc, owned, response, withdrawn, request>>
  BY DEF RivalPuts, RivalRemoves, RivalInserts, RivalActs

LEMMA FlowInit == Init => FlowInv
  BY DEF Init, FlowInv, Flow, Early, Reserving

LEMMA FlowStep ==
  ASSUME TypeOK, FlowInv, RollbackInv, [Next]_vars
  PROVE  FlowInv'
<1> SUFFICES ASSUME NEW s \in Runs PROVE Flow(s)'
  BY DEF FlowInv
<1>0. Flow(s) /\ RollbackOf(s)
  BY DEF FlowInv, RollbackInv
<1>1. ASSUME UNCHANGED <<pc, owned, response, withdrawn, request>> PROVE Flow(s)'
  BY <1>0, <1>1 DEF Flow, Trains, Results, Output, Published
<1>2. ASSUME NEW r \in Runs, r # s, Begin(r) \/ Step(r) \/ Crash(r) PROVE Flow(s)'
  BY <1>0, <1>2, OthersKeep DEF Flow, Trains, Results, Output, Published
<1>3. ASSUME Begin(s) \/ Step(s) \/ Crash(s) PROVE Flow(s)'
  <2> USE <1>0 DEF TypeOK, Flow, Trains, Results, Output, Published, Goto, Early, Reserving
  <2>1. CASE Begin(s)
    BY <2>1 DEF Begin
  <2>2. CASE ProbeAll(s)
    BY <2>2 DEF ProbeAll, Probe
  <2>3. CASE Train(s)
    BY <2>3 DEF Train
  <2>4. CASE LinkArchive(s)
    BY <2>4 DEF LinkArchive
  <2>5. CASE Reserve(s)
    BY <2>5 DEF Reserve, Unwind
  <2>6. CASE Rename(s)
    BY <2>6 DEF Rename
  <2>7. CASE Unreserve(s)
    BY <2>7 DEF Unreserve, Unwind
  <2>8. CASE Emit(s)
    <3>1. request' = request /\ owned' = owned
      BY <2>8 DEF Emit
    <3>2. CASE pc'[s] \in {"ok", "reserve"} /\ response'[s] = "complete"
      BY <2>8, <3>1, <3>2, RequestFields DEF Emit, Unwind, AfterResponse
    <3>3. CASE pc'[s] = "write" /\ response'[s] = "partial" /\ Output(s) # NoPath
      BY <2>8, <3>1, <3>3 DEF Emit
    <3>4. CASE pc'[s] \in LateRollback \cup {"check_member"} /\ response' = response
      BY <2>8, <3>1, <3>4 DEF Emit, LateRollback
    <3> QED
      BY <2>8, <3>2, <3>3, <3>4 DEF Emit, Unwind, AfterResponse, LateRollback
  <2>9. CASE Write(s)
    <3>1. request' = request /\ owned' = owned
      BY <2>9 DEF Write
    <3>2. CASE pc'[s] = (IF Trains(s) THEN "ok" ELSE "reserve") /\ response'[s] = "complete"
      BY <2>9, <3>1, <3>2, RequestFields DEF Write
    <3>3. CASE pc'[s] = "unwrite" /\ response' = response
      BY <2>9, <3>1, <3>3 DEF Write
    <3> QED
      BY <2>9, <3>2, <3>3 DEF Write, AfterResponse
  <2>10. CASE Unwrite(s)
    BY <2>10 DEF Unwrite, Unwind
  <2>11. CASE Rollback(s)
    BY <2>11 DEF Rollback, CheckOwned, RemoveOwned, AfterRemoval, RollbackOf
  <2>12. CASE Crash(s)
    BY <2>12 DEF Crash
  <2> QED
    BY <1>3, <2>1, <2>2, <2>3, <2>4, <2>5, <2>6, <2>7, <2>8, <2>9, <2>10, <2>11, <2>12 DEF Step
<1> QED
  BY <1>1, <1>2, <1>3, RivalsKeep DEF Next, vars

LEMMA RollbackInit == Init => RollbackInv
  BY DEF Init, RollbackInv, RollbackOf

LEMMA RollbackStep ==
  ASSUME TypeOK, FlowInv, RollbackInv, [Next]_vars
  PROVE  RollbackInv'
<1> SUFFICES ASSUME NEW s \in Runs PROVE RollbackOf(s)'
  BY DEF RollbackInv
<1>0. Flow(s) /\ RollbackOf(s)
  BY DEF FlowInv, RollbackInv
<1>1. ASSUME UNCHANGED <<pc, owned, response, withdrawn, request>> PROVE RollbackOf(s)'
  BY <1>0, <1>1 DEF RollbackOf, Trains, Results, Published
<1>2. ASSUME NEW r \in Runs, r # s, Begin(r) \/ Step(r) \/ Crash(r) PROVE RollbackOf(s)'
  BY <1>0, <1>2, OthersKeep DEF RollbackOf, Trains, Results, Published
<1>3. ASSUME Begin(s) \/ Step(s) \/ Crash(s) PROVE RollbackOf(s)'
  <2> USE <1>0 DEF TypeOK, Flow, RollbackOf, Trains, Results, Published, Goto, Early, Reserving,
                   LateRollback
  <2>1. CASE Begin(s) \/ ProbeAll(s) \/ Train(s) \/ LinkArchive(s)
    BY <2>1 DEF Begin, ProbeAll, Probe, Train, LinkArchive
  <2>2. CASE Reserve(s) \/ Unreserve(s)
    BY <2>2 DEF Reserve, Unreserve, Unwind
  <2>3. CASE Rename(s)
    BY <2>3 DEF Rename
  <2>4. CASE Emit(s)
    BY <2>4, RequestFields DEF Emit, Unwind, AfterResponse
  <2>5. CASE Write(s) \/ Unwrite(s)
    BY <2>5, RequestFields DEF Write, Unwrite, Unwind, AfterResponse
  <2>6. CASE Rollback(s)
    BY <2>6 DEF Rollback, CheckOwned, RemoveOwned, AfterRemoval, Unchanged
  <2>7. CASE Crash(s)
    BY <2>7 DEF Crash
  <2> QED
    BY <1>3, <2>1, <2>2, <2>3, <2>4, <2>5, <2>6, <2>7 DEF Step
<1> QED
  BY <1>1, <1>2, <1>3, RivalsKeep DEF Next, vars

\* ResponseTruthful: a complete response names outputs that stand and will not
\* be taken back by the command (execute of archive_command.rs).
THEOREM TruthfulResponse == Spec => []ResponseTruthful
<1>1. Init => TypeOK /\ FlowInv /\ RollbackInv
  BY TypeInit, FlowInit, RollbackInit
<1>2. TypeOK /\ FlowInv /\ RollbackInv /\ [Next]_vars => (TypeOK /\ FlowInv /\ RollbackInv)'
  BY TypeStep, FlowStep, RollbackStep
<1>3. TypeOK /\ FlowInv /\ RollbackInv => ResponseTruthful
  BY DEF TypeOK, FlowInv, Flow, RollbackInv, RollbackOf, ResponseTruthful, Published, LateRollback
<1> QED
  BY <1>1, <1>2, <1>3, PTL DEF Spec
-----------------------------------------------------------------------------
(* Where the entries of a command stand, and what is in its directories. *)

Placed(r, x) ==
  /\ at[x] = <<r, "archive">> => x = Archive(r) /\ pc[r] \notin Early
  /\ at[x] = <<r, "root">> =>
       /\ x = Results(r) /\ pc[r] \notin Early \cup Reserving
       /\ Trains(r) => owned[r] = Published(r)
       /\ ~Trains(r) => pc[r] = "ok"
  /\ at[x] = <<r, "reservation">> =>
       x = Results(r) /\ pc[r] \in {"rename", "unreserve", "dead"} \cup LastRollback
  /\ at[x] = <<r, "output">> =>
       /\ x = Output(r) /\ pc[r] \notin Early \cup {"emit"}
       /\ Trains(r) => pc[r] \notin Reserving
  /\ at[x] # <<r, "member">>
PlacedInv == \A r \in Runs, x \in Paths : Placed(r, x)

MembersOf(r) ==
  /\ member[<<r, "root">>] \in {NoFile, RivalFile, <<r, "member">>}
  /\ member[<<r, "reservation">>] \in {NoFile, RivalFile}
MembersInv == \A r \in Runs : MembersOf(r)

\* Entries of two creators, or of two kinds, differ.
LEMMA Distinct ==
  /\ \A r \in Runs, s \in Runs, k \in OwnKinds, l \in OwnKinds :
       <<r, k>> = <<s, l>> => r = s /\ k = l
  /\ \A r \in Runs, k \in OwnKinds : RivalFile # <<r, k>>
  /\ \A r \in Runs, k \in OwnKinds, x \in Paths : RivalDir(x) # <<r, k>>
  BY ConstantsAssumption DEF OwnKinds, RivalFile, RivalDir

\* A step of a command empties a destination or puts its own entry there.
LEMMA RunPuts ==
  ASSUME TypeOK, NEW r \in Runs, Begin(r) \/ Step(r) \/ Crash(r), NEW x \in Paths
  PROVE  \/ at'[x] = at[x] \/ at'[x] = NoFile
         \/ \E k \in OwnKinds : at'[x] = <<r, k>>
<1> USE DEF TypeOK, tree
<1>1. CASE Begin(r) \/ Crash(r) \/ ProbeAll(r) \/ Train(r) \/ Write(r)
  BY <1>1 DEF Begin, Crash, ProbeAll, Probe, Train, Write
<1>2. CASE LinkArchive(r) \/ Reserve(r) \/ Rename(r) \/ Emit(r)
  BY <1>2 DEF LinkArchive, Reserve, Rename, Emit, OwnKinds
<1>3. CASE Unreserve(r) \/ Unwrite(r) \/ Rollback(r)
  BY <1>3 DEF Unreserve, Unwrite, Rollback, CheckOwned, RemoveOwned
<1> QED
  BY <1>1, <1>2, <1>3 DEF Step

\* A rival puts only its own entries at a destination.
LEMMA RivalPut ==
  ASSUME TypeOK, NEW y \in Paths, RivalPuts(y) \/ RivalRemoves(y) \/ RivalInserts(y), NEW x \in Paths
  PROVE  at'[x] = at[x] \/ at'[x] \in {NoFile, RivalFile, RivalDir(x)}
  BY DEF TypeOK, RivalPuts, RivalRemoves, RivalInserts

LEMMA PlacedInit == Init => PlacedInv
  BY EntryFacts DEF Init, PlacedInv, Placed, OwnKinds

LEMMA PlacedStep ==
  ASSUME TypeOK, FlowInv, RollbackInv, PlacedInv, [Next]_vars
  PROVE  PlacedInv'
<1> SUFFICES ASSUME NEW s \in Runs, NEW x \in Paths PROVE Placed(s, x)'
  BY DEF PlacedInv
<1>0. Flow(s) /\ RollbackOf(s) /\ Placed(s, x)
  BY DEF FlowInv, RollbackInv, PlacedInv
<1>1. ASSUME UNCHANGED <<pc, owned, request>>,
             at'[x] = at[x] \/ \A k \in OwnKinds : at'[x] # <<s, k>>
      PROVE  Placed(s, x)'
  BY <1>0, <1>1 DEF Placed, Trains, Results, Output, Archive, Published, OwnKinds
<1>2. ASSUME NEW r \in Runs, r # s, Begin(r) \/ Step(r) \/ Crash(r) PROVE Placed(s, x)'
  <2>1. at'[x] = at[x] \/ \A k \in OwnKinds : at'[x] # <<s, k>>
    <3>1. CASE at'[x] = NoFile
      BY <3>1, EntryFacts
    <3>2. ASSUME NEW k \in OwnKinds, at'[x] = <<r, k>>
          PROVE  \A l \in OwnKinds : at'[x] # <<s, l>>
      BY <1>2, <3>2, Distinct
    <3> QED
      BY <1>2, <3>1, <3>2, RunPuts
  <2>2. pc'[s] = pc[s] /\ owned'[s] = owned[s] /\ request' = request
    BY <1>2, OthersKeep
  <2> QED
    BY <1>0, <2>1, <2>2 DEF Placed, Trains, Results, Output, Archive, Published, OwnKinds
<1>3. ASSUME Begin(s) \/ Step(s) \/ Crash(s) PROVE Placed(s, x)'
  <2>0. /\ \A k \in OwnKinds : <<s, k>> # NoFile
        /\ \A k, l \in OwnKinds : <<s, k>> = <<s, l>> => k = l
    BY EntryFacts, Distinct
  <2> USE <1>0, <2>0, RequestFields
      DEF TypeOK, Flow, Placed, Trains, Results, Output, Archive, Published, Goto, OwnKinds,
          Early, Reserving, LastRollback
  <2>1. CASE Begin(s)
    BY <2>1 DEF Begin, tree
  <2>2. CASE ProbeAll(s)
    BY <2>2 DEF ProbeAll, Probe, tree
  <2>3. CASE Train(s)
    BY <2>3 DEF Train, tree
  <2>4. CASE LinkArchive(s)
    BY <2>4 DEF LinkArchive
  <2>5. CASE Reserve(s)
    BY <2>5 DEF Reserve, Unwind
  <2>6. CASE Rename(s)
    BY <2>6 DEF Rename
  <2>7. CASE Unreserve(s)
    BY <2>7 DEF Unreserve, Unwind
  <2>8. CASE Emit(s)
    BY <2>8 DEF Emit, Unwind, AfterResponse
  <2>9. CASE Write(s)
    BY <2>9 DEF Write, AfterResponse, tree
  <2>10. CASE Unwrite(s)
    BY <2>10 DEF Unwrite, Unwind
  <2>11. CASE Rollback(s)
    <3>1. /\ at'[x] \in {at[x], NoFile} /\ request' = request /\ owned' = owned
          /\ Trains(s) /\ pc[s] \notin Early \cup Reserving \cup {"emit", "dead"}
      BY <2>11 DEF Rollback, CheckOwned, RemoveOwned, RollbackOf, tree
    <3>2. /\ pc'[s] \notin Early \cup Reserving \cup {"emit"}
          /\ pc[s] \in LastRollback => pc'[s] \in LastRollback
      BY <2>11 DEF Rollback, CheckOwned, RemoveOwned, AfterRemoval
    <3> QED
      BY <3>1, <3>2
  <2>12. CASE Crash(s)
    BY <2>12 DEF Crash, tree
  <2> QED
    BY <1>3, <2>1, <2>2, <2>3, <2>4, <2>5, <2>6, <2>7, <2>8, <2>9, <2>10, <2>11, <2>12 DEF Step
<1>4. ASSUME NEW y \in Paths, RivalPuts(y) \/ RivalRemoves(y) \/ RivalInserts(y)
      PROVE  Placed(s, x)'
  BY <1>1, <1>4, RivalPut, RivalsKeep, Distinct, EntryFacts
<1> QED
  BY <1>1, <1>2, <1>3, <1>4 DEF Next, vars

\* How the content of directories changes.
LEMMA RunMembers ==
  ASSUME TypeOK, NEW r \in Runs, Begin(r) \/ Step(r) \/ Crash(r)
  PROVE  /\ extra' = extra
         /\ \/ member' = member
            \/ pc[r] = "remove_member" /\ member' = [member EXCEPT ![at[Results(r)]] = NoFile]
  BY DEF Begin, Step, Crash, ProbeAll, Probe, Train, LinkArchive, Reserve, Rename,
         Unreserve, Emit, Write, Unwrite, Rollback, CheckOwned, RemoveOwned, tree

LEMMA RivalMembers ==
  ASSUME TypeOK, NEW y \in Paths, RivalPuts(y) \/ RivalRemoves(y) \/ RivalInserts(y),
         NEW r \in Runs, NEW k \in {"root", "reservation"}
  PROVE  /\ member'[<<r, k>>] \in {member[<<r, k>>], RivalFile}
         /\ <<r, k>> \in extra => <<r, k>> \in extra'
<1>0. <<r, k>> \in Dirs /\ RivalDir(y) \in Dirs /\ RivalDir(y) # <<r, k>>
  BY EntryFacts, Distinct DEF OwnKinds
<1> DEFINE d == <<r, k>>
           e == RivalDir(y)
<1>1. d \in Dirs /\ e \in Dirs /\ e # d
  BY <1>0
<1> HIDE DEF d, e
<1>2. CASE /\ member' \in {member, [member EXCEPT ![e] = NoFile]}
           /\ extra' \in {extra, extra \ {e}}
  BY <1>1, <1>2 DEF TypeOK, d
<1>3. CASE \/ extra' = extra \cup {at[y]} /\ member' = member
           \/ extra' = extra /\ member' = [member EXCEPT ![at[y]] = RivalFile]
  BY <1>1, <1>3 DEF TypeOK, d
<1> QED
  BY <1>2, <1>3 DEF RivalPuts, RivalRemoves, RivalInserts, e

LEMMA MembersInit == Init => MembersInv
  BY EntryFacts DEF Init, MembersInv, MembersOf

LEMMA MembersStep ==
  ASSUME TypeOK, MembersInv, [Next]_vars
  PROVE  MembersInv'
<1> SUFFICES ASSUME NEW s \in Runs PROVE MembersOf(s)'
  BY DEF MembersInv
<1>0. MembersOf(s) /\ <<s, "root">> \in Dirs /\ <<s, "reservation">> \in Dirs
  BY EntryFacts DEF MembersInv
<1>1. ASSUME NEW r \in Runs, Begin(r) \/ Step(r) \/ Crash(r) PROVE MembersOf(s)'
  BY <1>0, <1>1, RunMembers DEF MembersOf, TypeOK
<1>2. ASSUME NEW y \in Paths, RivalPuts(y) \/ RivalRemoves(y) \/ RivalInserts(y)
      PROVE  MembersOf(s)'
  BY <1>0, <1>2, RivalMembers DEF MembersOf
<1>3. ASSUME UNCHANGED vars PROVE MembersOf(s)'
  BY <1>0, <1>3 DEF MembersOf, vars
<1> QED
  BY <1>1, <1>2, <1>3 DEF Next

\* ExportAnnounced: publish-directory makes the export visible only after its
\* whole response (execute of archive_command.rs).
THEOREM AnnouncedExport == Spec => []ExportAnnounced
<1> DEFINE I == TypeOK /\ FlowInv /\ RollbackInv /\ PlacedInv
<1>1. Init => I
  BY TypeInit, FlowInit, RollbackInit, PlacedInit
<1>2. I /\ [Next]_vars => I'
  BY TypeStep, FlowStep, RollbackStep, PlacedStep
<1>3. I => ExportAnnounced
  BY RequestFields DEF FlowInv, Flow, PlacedInv, Placed, ExportAnnounced
<1> QED
  BY <1>1, <1>2, <1>3, PTL DEF Spec
-----------------------------------------------------------------------------
(* Between a check and its act a command still finds what it checked, when *)
(* rivals leave the windows alone.                                         *)

HeldBy(r) ==
  /\ pc[r] \in {"rename", "unreserve"} => at[Results(r)] = <<r, "reservation">>
  /\ pc[r] \in {"remove_member", "remove_root"} => at[Results(r)] = <<r, "root">>
  /\ pc[r] = "remove_member" => member[<<r, "root">>] = <<r, "member">>
  /\ pc[r] = "remove_archive" => at[Archive(r)] = <<r, "archive">>
  /\ pc[r] \in {"write", "unwrite"} => at[Output(r)] = <<r, "output">>
HeldInv == \A r \in Runs : HeldBy(r)

\* A command that finds what it checked takes away only what it made.
LEMMA RunTakes ==
  ASSUME TypeOK, NEW r \in Runs, Flow(r), RollbackOf(r), HeldBy(r), Step(r),
         NEW x \in Paths, at'[x] # at[x], at[x] # NoFile
  PROVE  /\ \E k \in OwnKinds : at[x] = <<r, k>>
         /\ at[x] \in Dirs => Empty(at[x])
<1>0. /\ <<r, "archive">> \notin Dirs /\ <<r, "output">> \notin Dirs
      /\ Results(r) # NoPath => Results(r) \in Paths
      /\ Output(r) # NoPath => Output(r) \in Paths
      /\ Trains(r) => Archive(r) \in Paths
  BY EntryFacts, RequestFields
<1> USE DEF TypeOK, tree, OwnKinds
<1>1. CASE ProbeAll(r) \/ Train(r) \/ Write(r)
  BY <1>1 DEF ProbeAll, Probe, Train, Write
<1>2. CASE LinkArchive(r) \/ Reserve(r) \/ Emit(r)
  BY <1>2 DEF LinkArchive, Reserve, Emit
<1>3. CASE Rename(r) \/ Unreserve(r)
  BY <1>3 DEF Rename, Unreserve, HeldBy
<1>4. CASE Unwrite(r)
  BY <1>0, <1>4 DEF Unwrite, HeldBy
<1>5. CASE Rollback(r)
  BY <1>0, <1>5 DEF Rollback, CheckOwned, RemoveOwned, Removable, Found, Place, HeldBy
<1> QED
  BY <1>1, <1>2, <1>3, <1>4, <1>5 DEF Step

\* ... and from no directory but its own.
LEMMA RunTakesMember ==
  ASSUME TypeOK, NEW r \in Runs, HeldBy(r), Begin(r) \/ Step(r) \/ Crash(r),
         NEW d \in Dirs, member'[d] # member[d]
  PROVE  d = <<r, "root">> /\ member[d] = <<r, "member">> /\ pc[r] = "remove_member"
  BY RunMembers DEF HeldBy, TypeOK

\* Begin and Crash touch no entry.
LEMMA RunIdles ==
  ASSUME NEW r \in Runs, Begin(r) \/ Crash(r)
  PROVE  at' = at
  BY DEF Begin, Crash, tree

\* A rival leaves an entry in a window where it is.
LEMMA RivalSpares ==
  ASSUME TypeOK, ~RivalInWindow, NEW y \in Paths,
         RivalPuts(y) \/ RivalRemoves(y) \/ RivalInserts(y),
         NEW x \in Paths, Window(x), at[x] # NoFile
  PROVE  at'[x] = at[x]
  BY DEF TypeOK, RivalPuts, RivalRemoves, RivalInserts, MayDisturb

LEMMA RivalSparesMember ==
  ASSUME TypeOK, ~RivalInWindow, NEW y \in Paths,
         RivalPuts(y) \/ RivalRemoves(y) \/ RivalInserts(y),
         NEW r \in Runs, pc[r] = "remove_member", \A x \in Paths : Placed(r, x),
         member[<<r, "root">>] = <<r, "member">>
  PROVE  member'[<<r, "root">>] = <<r, "member">>
<1>0. <<r, "root">> \in Dirs /\ RivalDir(y) \in Dirs /\ RivalDir(y) # <<r, "root">>
      /\ <<r, "member">> # NoFile
  BY EntryFacts, Distinct DEF OwnKinds
<1>1. CASE RivalPuts(y) \/ RivalRemoves(y)
  <2> DEFINE e == RivalDir(y)
  <2>1. member' \in {member, [member EXCEPT ![e] = NoFile]}
    BY <1>1 DEF RivalPuts, RivalRemoves
  <2> HIDE DEF e
  <2>2. e # <<r, "root">>
    BY <1>0 DEF e
  <2> QED
    BY <1>0, <2>1, <2>2 DEF TypeOK
<1>2. CASE RivalInserts(y)
  <2>1. CASE at[y] = <<r, "root">>
    <3>1. y = Results(r)
      BY <2>1 DEF Placed
    <3>2. Window(y)
      BY <3>1 DEF Window
    <3> QED
      BY <1>0, <1>2, <2>1, <3>2 DEF RivalInserts, MayDisturb
  <2>2. CASE at[y] # <<r, "root">>
    BY <1>0, <1>2, <2>2 DEF RivalInserts, TypeOK
  <2> QED
    BY <2>1, <2>2
<1> QED
  BY <1>1, <1>2

LEMMA HeldInit == Init => HeldInv
  BY DEF Init, HeldInv, HeldBy

LEMMA HeldStep ==
  ASSUME TypeOK, FlowInv, RollbackInv, PlacedInv, HeldInv, ~RivalInWindow, [Next]_vars
  PROVE  HeldInv'
<1> SUFFICES ASSUME NEW s \in Runs PROVE HeldBy(s)'
  BY DEF HeldInv
<1>0. Flow(s) /\ RollbackOf(s) /\ HeldBy(s) /\ \A x \in Paths : Placed(s, x)
  BY DEF FlowInv, RollbackInv, HeldInv, PlacedInv
<1>a. /\ Results(s) # NoPath => Results(s) \in Paths
      /\ Output(s) # NoPath => Output(s) \in Paths
      /\ Trains(s) => Archive(s) \in Paths
      /\ <<s, "root">> \in Dirs
      /\ \A k \in OwnKinds : <<s, k>> # NoFile
  BY RequestFields, EntryFacts
\* What another actor leaves alone stays held.
<1>1. ASSUME pc'[s] = pc[s], request' = request,
             \A x \in Paths, k \in OwnKinds : at[x] = <<s, k>> /\ Window(x) => at'[x] = at[x],
             pc[s] = "remove_member" => member'[<<s, "root">>] = member[<<s, "root">>]
      PROVE  HeldBy(s)'
  <2> USE <1>0, <1>1 DEF HeldBy, Results, Output, Archive
  <2>1. pc[s] \in {"rename", "unreserve", "remove_member", "remove_root"} =>
          at'[Results(s)] = at[Results(s)]
    <3> SUFFICES ASSUME pc[s] \in {"rename", "unreserve", "remove_member", "remove_root"}
                 PROVE  at'[Results(s)] = at[Results(s)]
      OBVIOUS
    <3>1. Results(s) \in Paths /\ Window(Results(s))
      BY <1>a DEF Flow, RollbackOf, Reserving, Window
    <3> QED
      BY <3>1 DEF OwnKinds
  <2>2. pc[s] = "remove_archive" => at'[Archive(s)] = at[Archive(s)]
    <3> SUFFICES ASSUME pc[s] = "remove_archive" PROVE at'[Archive(s)] = at[Archive(s)]
      OBVIOUS
    <3>1. Archive(s) \in Paths /\ Window(Archive(s))
      BY <1>a DEF RollbackOf, Window
    <3> QED
      BY <3>1 DEF OwnKinds
  <2>3. pc[s] \in {"write", "unwrite"} => at'[Output(s)] = at[Output(s)]
    <3> SUFFICES ASSUME pc[s] \in {"write", "unwrite"} PROVE at'[Output(s)] = at[Output(s)]
      OBVIOUS
    <3>1. Output(s) \in Paths /\ Window(Output(s))
      BY <1>a DEF Flow, Window
    <3> QED
      BY <3>1 DEF OwnKinds
  <2> QED
    BY <2>1, <2>2, <2>3
<1>2. ASSUME NEW r \in Runs, r # s, Begin(r) \/ Step(r) \/ Crash(r) PROVE HeldBy(s)'
  <2>1. pc'[s] = pc[s] /\ request' = request
    BY <1>2, OthersKeep
  <2>2. Flow(r) /\ RollbackOf(r) /\ HeldBy(r)
    BY DEF FlowInv, RollbackInv, HeldInv
  <2>3. ASSUME NEW x \in Paths, NEW k \in OwnKinds, at[x] = <<s, k>> PROVE at'[x] = at[x]
    <3>1. \A l \in OwnKinds : at[x] # <<r, l>>
      BY <1>2, <2>3, Distinct
    <3> QED
      BY <1>2, <1>a, <2>2, <2>3, <3>1, RunTakes, RunIdles
  <2>4. member'[<<s, "root">>] = member[<<s, "root">>]
    BY <1>2, <1>a, <2>2, RunTakesMember
  <2> QED
    BY <1>1, <2>1, <2>3, <2>4
<1>3. ASSUME Begin(s) \/ Step(s) \/ Crash(s) PROVE HeldBy(s)'
  <2> USE <1>0, <1>a
      DEF TypeOK, Goto, OwnKinds, HeldBy, Trains, Results, Output, Archive, Early, Reserving
  <2>1. CASE Begin(s) \/ ProbeAll(s) \/ Train(s) \/ Crash(s)
    BY <2>1 DEF Begin, ProbeAll, Probe, Train, Crash
  <2>2. CASE LinkArchive(s)
    BY <2>2 DEF LinkArchive
  <2>3. CASE Reserve(s)
    BY <2>3 DEF Reserve, Unwind, Flow
  <2>4. CASE Rename(s)
    BY <2>4 DEF Rename
  <2>5. CASE Unreserve(s)
    BY <2>5 DEF Unreserve, Unwind
  <2>6. CASE Emit(s)
    <3>1. CASE pc'[s] = "write"
      BY <2>6, <3>1 DEF Emit, Unwind, AfterResponse
    <3>2. CASE pc'[s] # "write"
      BY <2>6, <3>2 DEF Emit, Unwind, AfterResponse
    <3> QED
      BY <3>1, <3>2
  <2>7. CASE Write(s)
    BY <2>7 DEF Write, AfterResponse, tree
  <2>8. CASE Unwrite(s)
    BY <2>8 DEF Unwrite, Unwind
  <2>9. ASSUME NEW k \in {"member", "root", "archive"}, NEW l, NEW m,
               CheckOwned(s, k, l, m),
               <<k, m>> \in {<<"member", "remove_member">>, <<"root", "remove_root">>,
                             <<"archive", "remove_archive">>}
        PROVE  HeldBy(s)'
    <3>1. CASE Unchanged(s, k)
      BY <2>9, <3>1 DEF CheckOwned, Unchanged, Found, Place, tree
    <3>2. CASE ~Unchanged(s, k)
      BY <2>9, <3>2 DEF CheckOwned, AfterRemoval, tree
    <3> QED
      BY <3>1, <3>2
  <2>10. ASSUME NEW k \in {"member", "root", "archive"}, NEW l, RemoveOwned(s, k, l)
         PROVE  HeldBy(s)'
    BY <2>10 DEF RemoveOwned, AfterRemoval
  <2> QED
    BY <1>3, <2>1, <2>2, <2>3, <2>4, <2>5, <2>6, <2>7, <2>8, <2>9, <2>10 DEF Step, Rollback
<1>4. ASSUME NEW y \in Paths, RivalPuts(y) \/ RivalRemoves(y) \/ RivalInserts(y)
      PROVE  HeldBy(s)'
  <2>1. pc' = pc /\ request' = request
    BY <1>4, RivalsKeep
  <2>2. ASSUME NEW x \in Paths, NEW k \in OwnKinds, at[x] = <<s, k>>, Window(x)
        PROVE  at'[x] = at[x]
    BY <1>4, <1>a, <2>2, RivalSpares
  <2>3. pc[s] = "remove_member" => member'[<<s, "root">>] = member[<<s, "root">>]
    BY <1>0, <1>4, RivalSparesMember DEF HeldBy
  <2> QED
    BY <1>1, <2>1, <2>2, <2>3
<1>5. ASSUME UNCHANGED vars PROVE HeldBy(s)'
  BY <1>0, <1>5 DEF vars, HeldBy, Results, Output, Archive
<1> QED
  BY <1>2, <1>3, <1>4, <1>5 DEF Next

\* Every step of a command moves it to another label.
LEMMA RunMoves ==
  ASSUME TypeOK, NEW r \in Runs, Begin(r) \/ Step(r) \/ Crash(r)
  PROVE  pc'[r] # pc[r]
  BY DEF TypeOK, Begin, Step, Crash, ProbeAll, Probe, Train, LinkArchive, Reserve, Rename,
         Unreserve, Emit, Write, Unwrite, Rollback, CheckOwned, RemoveOwned, Goto, Unwind,
         AfterResponse, AfterRemoval

\* OwnersOnly: no step of a command replaces or removes what another command
\* or a rival put there (drop and write_new of archive_command.rs,
\* publish_directory_noreplace), as long as rivals leave the windows between
\* a check and its act alone.
THEOREM Owners == ~RivalInWindow /\ Spec => OwnersOnly
<1> SUFFICES ASSUME ~RivalInWindow PROVE Spec => OwnersOnly
  OBVIOUS
<1> DEFINE I == TypeOK /\ FlowInv /\ RollbackInv /\ PlacedInv /\ HeldInv
           Own == rivalActs' = rivalActs =>
                    /\ \A x \in Paths : at[x] # NoFile /\ at'[x] # at[x] =>
                         StepOwns(at[x]) /\ (at[x] \in Dirs => Empty(at[x]))
                    /\ \A d \in Dirs : member[d] # NoFile /\ member'[d] # member[d] =>
                         StepOwns(member[d])
<1>1. Init => I
  BY TypeInit, FlowInit, RollbackInit, PlacedInit, HeldInit
<1>2. I /\ [Next]_vars => I'
  BY TypeStep, FlowStep, RollbackStep, PlacedStep, HeldStep
<1>3. I /\ [Next]_vars => [Own]_vars
  <2> SUFFICES ASSUME I, Next, rivalActs' = rivalActs PROVE Own
    OBVIOUS
  <2>1. ASSUME NEW x \in Paths, RivalPuts(x) \/ RivalRemoves(x) \/ RivalInserts(x) PROVE FALSE
    BY <2>1, ConstantsAssumption DEF RivalPuts, RivalRemoves, RivalInserts, RivalActs, TypeOK
  <2>2. ASSUME NEW r \in Runs, Begin(r) \/ Step(r) \/ Crash(r) PROVE Own
    <3>1. Flow(r) /\ RollbackOf(r) /\ HeldBy(r) /\ pc'[r] # pc[r]
      BY <2>2, RunMoves DEF FlowInv, RollbackInv, HeldInv
    <3>2. ASSUME NEW x \in Paths, at[x] # NoFile, at'[x] # at[x]
          PROVE  StepOwns(at[x]) /\ (at[x] \in Dirs => Empty(at[x]))
      <4>1. Step(r)
        BY <2>2, <3>2, RunIdles
      <4>2. PICK k \in OwnKinds : at[x] = <<r, k>>
        BY <3>1, <3>2, <4>1, RunTakes
      <4> QED
        BY <3>1, <3>2, <4>1, <4>2, RunTakes DEF StepOwns
    <3>3. ASSUME NEW d \in Dirs, member[d] # NoFile, member'[d] # member[d]
          PROVE  StepOwns(member[d])
      <4>1. member[d] = <<r, "member">>
        BY <2>2, <3>1, <3>3, RunTakesMember
      <4> QED
        BY <3>1, <4>1 DEF StepOwns
    <3> QED
      BY <3>2, <3>3
  <2> QED
    BY <2>1, <2>2 DEF Next
<1> QED
  BY <1>1, <1>2, <1>3, PTL DEF Spec, OwnersOnly
-----------------------------------------------------------------------------
(* What the rollback has behind it, when removals succeed. *)

Reliable == "remove" \notin Faults

Emptied(r, x) ==
  /\ HasIdentity /\ pc[r] \in LateRollback /\ at[x] = <<r, "root">> =>
       member[<<r, "root">>] # <<r, "member">>
  /\ HasIdentity /\ pc[r] = "failed" => at[x] # <<r, "archive">>
  /\ Trains(r) /\ at[x] = <<r, "output">> => pc[r] \in {"write", "unwrite", "ok", "dead"}
EmptiedInv == \A r \in Runs, x \in Paths : Emptied(r, x)

\* A directory that cannot be removed because of a rival's file in it.
KeptAlive(d) == d \in extra \/ member[d] = RivalFile

Kept(r, x) ==
  /\ HasIdentity /\ pc[r] \in LastRollback /\ at[x] = <<r, "root">> => KeptAlive(<<r, "root">>)
  /\ pc[r] \in LastRollback /\ at[x] = <<r, "reservation">> => KeptAlive(<<r, "reservation">>)
KeptInv == \A r \in Runs, x \in Paths : Kept(r, x)

\* Nobody else brings an entry of a command, or its member, back.
LEMMA NoReturn ==
  ASSUME TypeOK, NEW s \in Runs, NEW x \in Paths,
         \/ \E r \in Runs \ {s} : Begin(r) \/ Step(r) \/ Crash(r)
         \/ \E y \in Paths : RivalPuts(y) \/ RivalRemoves(y) \/ RivalInserts(y)
  PROVE  /\ \A k \in OwnKinds : at'[x] = <<s, k>> => at[x] = <<s, k>>
         /\ member'[<<s, "root">>] = <<s, "member">> => member[<<s, "root">>] = <<s, "member">>
         /\ pc'[s] = pc[s] /\ request' = request
<1>0. /\ <<s, "root">> \in Dirs /\ RivalFile # <<s, "member">>
      /\ \A k \in OwnKinds : <<s, k>> # NoFile
      /\ "member" \in OwnKinds
  BY EntryFacts, Distinct DEF OwnKinds
<1>1. ASSUME NEW r \in Runs, r # s, Begin(r) \/ Step(r) \/ Crash(r)
      PROVE  /\ \A k \in OwnKinds : at'[x] = <<s, k>> => at[x] = <<s, k>>
             /\ member'[<<s, "root">>] = <<s, "member">> => member[<<s, "root">>] = <<s, "member">>
  <2>1. ASSUME NEW k \in OwnKinds, at'[x] = <<s, k>> PROVE at[x] = <<s, k>>
    <3>1. \A l \in OwnKinds : at'[x] # <<r, l>>
      BY <1>1, <2>1, Distinct
    <3> QED
      BY <1>0, <1>1, <2>1, <3>1, RunPuts
  <2>2. member'[<<s, "root">>] \in {member[<<s, "root">>], NoFile}
    BY <1>0, <1>1, RunMembers DEF TypeOK
  <2> QED
    BY <1>0, <2>1, <2>2
<1>2. ASSUME NEW y \in Paths, RivalPuts(y) \/ RivalRemoves(y) \/ RivalInserts(y)
      PROVE  /\ \A k \in OwnKinds : at'[x] = <<s, k>> => at[x] = <<s, k>>
             /\ member'[<<s, "root">>] = <<s, "member">> => member[<<s, "root">>] = <<s, "member">>
  <2>1. ASSUME NEW k \in OwnKinds, at'[x] = <<s, k>> PROVE at[x] = <<s, k>>
    BY <1>0, <1>2, <2>1, RivalPut, Distinct
  <2>2. member'[<<s, "root">>] \in {member[<<s, "root">>], RivalFile}
    BY <1>2, RivalMembers
  <2> QED
    BY <1>0, <2>1, <2>2
<1> QED
  BY <1>1, <1>2, OthersKeep, RivalsKeep

LEMMA EmptiedInit == Init => EmptiedInv
  BY EntryFacts DEF Init, EmptiedInv, Emptied, OwnKinds, LateRollback

LEMMA EmptiedStep ==
  ASSUME Reliable, TypeOK, FlowInv, RollbackInv, PlacedInv, MembersInv, EmptiedInv, [Next]_vars
  PROVE  EmptiedInv'
<1> SUFFICES ASSUME NEW s \in Runs, NEW x \in Paths PROVE Emptied(s, x)'
  BY DEF EmptiedInv
<1>0. /\ Flow(s) /\ RollbackOf(s) /\ Placed(s, x) /\ MembersOf(s) /\ Emptied(s, x)
  BY DEF FlowInv, RollbackInv, PlacedInv, MembersInv, EmptiedInv
<1>1. CASE \/ \E r \in Runs \ {s} : Begin(r) \/ Step(r) \/ Crash(r)
           \/ \E y \in Paths : RivalPuts(y) \/ RivalRemoves(y) \/ RivalInserts(y)
  BY <1>0, <1>1, NoReturn DEF Emptied, OwnKinds, Trains
<1>2. ASSUME Begin(s) \/ Step(s) \/ Crash(s) PROVE Emptied(s, x)'
  <2>0. /\ \A k \in OwnKinds : <<s, k>> # NoFile
        /\ \A k, l \in OwnKinds : <<s, k>> = <<s, l>> => k = l
        /\ <<s, "root">> \in Dirs /\ <<s, "output">> \notin Dirs /\ <<s, "archive">> \notin Dirs
        /\ <<s, "member">> \notin Dirs /\ RivalFile \notin Dirs /\ NoFile \notin Dirs
        /\ x # NoPath
    BY EntryFacts, Distinct, ConstantsAssumption
  <2> USE <1>0, <2>0, RequestFields
      DEF Reliable, TypeOK, Emptied, Placed, Trains, Goto, OwnKinds, Early, Reserving, LateRollback,
          LastRollback, tree
  <2>1. CASE Begin(s) \/ ProbeAll(s) \/ Train(s) \/ Crash(s)
    BY <2>1 DEF Begin, ProbeAll, Probe, Train, Crash
  <2>2. CASE LinkArchive(s)
    BY <2>2 DEF LinkArchive
  <2>3. CASE Reserve(s)
    BY <2>3 DEF Reserve, Unwind, Flow
  <2>4. CASE Rename(s)
    BY <2>4 DEF Rename
  <2>5. CASE Unreserve(s)
    BY <2>5 DEF Unreserve, Unwind, Flow
  <2>6. CASE Emit(s)
    <3>1. CASE response' = response
      BY <2>6, <3>1 DEF Emit, Unwind, Flow, Published, AfterResponse
    <3>2. CASE response' # response
      BY <2>6, <3>2 DEF Emit, Unwind, AfterResponse
    <3> QED
      BY <3>1, <3>2
  <2>7. CASE Write(s)
    BY <2>7 DEF Write, AfterResponse
  <2>8. CASE Unwrite(s)
    <3>1. /\ at'[x] \in {at[x], NoFile} /\ member' = member /\ request' = request
          /\ at'[x] # <<s, "output">> /\ pc[s] = "unwrite"
      BY <2>8 DEF Unwrite, Flow
    <3>2. Trains(s) => pc'[s] = IF Results(s) = NoPath THEN "check_archive" ELSE "check_member"
      BY <2>8 DEF Unwrite, Unwind, Flow, Published
    <3>3. ~Trains(s) => at'[x] # <<s, "root">> /\ at'[x] # <<s, "archive">>
      BY <2>8, <3>1
    <3> QED
      BY <3>1, <3>2, <3>3
  <2>9. CASE Rollback(s)
    <3>1. Trains(s) /\ request' = request /\ at'[x] \in {at[x], NoFile}
      BY <2>9 DEF Rollback, CheckOwned, RemoveOwned, RollbackOf
    <3>2. at'[x] # <<s, "output">>
      BY <2>9, <3>1 DEF Rollback, CheckOwned, RemoveOwned
    <3>3. ASSUME HasIdentity, pc'[s] = "failed" PROVE at'[x] # <<s, "archive">>
      <4>1. CASE CheckOwned(s, "archive", "check_archive", "remove_archive")
        BY <3>3, <4>1 DEF CheckOwned, Unchanged, Found, Place
      <4>2. CASE RemoveOwned(s, "archive", "remove_archive")
        BY <3>3, <4>2 DEF RemoveOwned, Removable, Found, Place
      <4> QED
        BY <2>9, <3>3, <4>1, <4>2 DEF Rollback, CheckOwned, RemoveOwned, AfterRemoval
    <3>4. ASSUME HasIdentity, pc'[s] \in LateRollback, at'[x] = <<s, "root">>
          PROVE  member'[<<s, "root">>] # <<s, "member">>
      <4>0. at[x] = <<s, "root">> /\ x = Results(s)
        BY <3>1, <3>4
      <4>1. CASE CheckOwned(s, "member", "check_member", "remove_member")
        BY <3>4, <4>0, <4>1 DEF CheckOwned, Unchanged, Found, Place
      <4>2. CASE RemoveOwned(s, "member", "remove_member")
        BY <3>4, <4>0, <4>2 DEF RemoveOwned, Removable, Found, Place, MembersOf
      <4>3. CASE pc[s] \in LateRollback
        BY <2>9, <3>4, <4>0, <4>3 DEF Rollback, CheckOwned, RemoveOwned
      <4> QED
        BY <2>9, <4>1, <4>2, <4>3 DEF Rollback, CheckOwned, RemoveOwned
    <3> QED
      BY <3>1, <3>2, <3>3, <3>4
  <2> QED
    BY <1>2, <2>1, <2>2, <2>3, <2>4, <2>5, <2>6, <2>7, <2>8, <2>9 DEF Step
<1>3. ASSUME UNCHANGED vars PROVE Emptied(s, x)'
  BY <1>0, <1>3 DEF vars, Emptied, Trains
<1> QED
  BY <1>1, <1>2, <1>3 DEF Next

\* ResultsNeedArchive: whenever the results of a training can be read, their
\* model archive has been published and not taken back (publish and drop of
\* archive_command.rs), as long as the removals of a rollback succeed.
THEOREM ArchiveBehindResults == Reliable /\ Spec => []ResultsNeedArchive
<1> SUFFICES ASSUME Reliable PROVE Spec => []ResultsNeedArchive
  OBVIOUS
<1> DEFINE I == TypeOK /\ FlowInv /\ RollbackInv /\ PlacedInv /\ MembersInv /\ EmptiedInv
<1>1. Init => I
  BY TypeInit, FlowInit, RollbackInit, PlacedInit, MembersInit, EmptiedInit
<1>2. I /\ [Next]_vars => I'
  BY TypeStep, FlowStep, RollbackStep, PlacedStep, MembersStep, EmptiedStep
<1>3. I => ResultsNeedArchive
  <2> SUFFICES ASSUME I, NEW r \in Runs, NEW x \in Paths, Trains(r), at[x] = <<r, "root">>,
                      member[<<r, "root">>] = <<r, "member">>
               PROVE  pc[r] \notin {"link", "reserve"} /\ "archive" \in owned[r] \ withdrawn[r]
    BY DEF ResultsNeedArchive
  <2>1. Placed(r, x) /\ RollbackOf(r) /\ Emptied(r, x)
    BY DEF PlacedInv, RollbackInv, EmptiedInv
  <2> QED
    BY <2>1 DEF Placed, RollbackOf, Emptied, Published, Early, Reserving, LateRollback
<1> QED
  BY <1>1, <1>2, <1>3, PTL DEF Spec

LEMMA KeptInit == Init => KeptInv
  BY DEF Init, KeptInv, Kept, LastRollback

LEMMA KeptStep ==
  ASSUME Reliable, ~RivalInWindow, TypeOK, FlowInv, RollbackInv, PlacedInv, MembersInv, HeldInv,
         EmptiedInv, KeptInv, [Next]_vars
  PROVE  KeptInv'
<1> SUFFICES ASSUME NEW s \in Runs, NEW x \in Paths PROVE Kept(s, x)'
  BY DEF KeptInv
<1>0. /\ Flow(s) /\ RollbackOf(s) /\ Placed(s, x) /\ MembersOf(s) /\ HeldBy(s) /\ Emptied(s, x)
      /\ Kept(s, x) /\ <<s, "root">> \in Dirs /\ <<s, "reservation">> \in Dirs /\ x # NoPath
  BY EntryFacts, ConstantsAssumption DEF FlowInv, RollbackInv, PlacedInv, MembersInv, HeldInv, EmptiedInv, KeptInv
\* A rival's file in a command's directory stays.
<1>1. ASSUME NEW k \in {"root", "reservation"}, KeptAlive(<<s, k>>) PROVE KeptAlive(<<s, k>>)'
  <2>1. ASSUME NEW r \in Runs, Begin(r) \/ Step(r) \/ Crash(r) PROVE KeptAlive(<<s, k>>)'
    <3>1. HeldBy(r) /\ RivalFile # <<r, "member">>
      BY Distinct DEF HeldInv, OwnKinds
    <3>2. member'[<<s, k>>] = member[<<s, k>>] \/ member[<<s, k>>] = <<r, "member">>
      BY <1>0, <2>1, <3>1, RunTakesMember
    <3> QED
      BY <1>1, <2>1, <3>1, <3>2, RunMembers DEF KeptAlive
  <2>2. ASSUME NEW y \in Paths, RivalPuts(y) \/ RivalRemoves(y) \/ RivalInserts(y)
        PROVE  KeptAlive(<<s, k>>)'
    BY <1>1, <2>2, RivalMembers DEF KeptAlive
  <2>3. ASSUME UNCHANGED vars PROVE KeptAlive(<<s, k>>)'
    BY <1>1, <2>3 DEF KeptAlive, vars
  <2> QED
    BY <2>1, <2>2, <2>3 DEF Next
<1>2. CASE \/ \E r \in Runs \ {s} : Begin(r) \/ Step(r) \/ Crash(r)
           \/ \E y \in Paths : RivalPuts(y) \/ RivalRemoves(y) \/ RivalInserts(y)
  BY <1>0, <1>1, <1>2, NoReturn DEF Kept, OwnKinds
<1>3. ASSUME Begin(s) \/ Step(s) \/ Crash(s) PROVE Kept(s, x)'
  <2>0. /\ \A k \in OwnKinds : <<s, k>> # NoFile
        /\ \A k, l \in OwnKinds : <<s, k>> = <<s, l>> => k = l
    BY EntryFacts, Distinct
  <2>1. ASSUME pc[s] \notin LastRollback, pc'[s] \in LastRollback, HasIdentity,
               at'[x] = <<s, "root">>
        PROVE  KeptAlive(<<s, "root">>)'
    <3> USE <1>0, <1>3, <2>0, <2>1, RequestFields DEF TypeOK, Goto, LastRollback, OwnKinds, Flow, Placed
    <3>1. ~(Begin(s) \/ ProbeAll(s) \/ Crash(s) \/ Write(s))
      BY DEF Begin, ProbeAll, Probe, Crash, Write, AfterResponse, Early, tree
    <3>2. ~(Train(s) \/ LinkArchive(s) \/ Reserve(s) \/ Rename(s) \/ Unreserve(s))
      BY DEF Train, LinkArchive, Reserve, Rename, Unreserve, Unwind, Early, Reserving, tree
    <3>3. ~(Emit(s) \/ Unwrite(s))
      BY DEF Emit, Unwrite, Unwind, AfterResponse, Published
    <3>4. pc'[s] = "check_archive" /\ pc[s] \in {"check_root", "remove_root"}
      BY <3>1, <3>2, <3>3 DEF Step, Rollback, CheckOwned, RemoveOwned, AfterRemoval
    <3>5. CASE CheckOwned(s, "root", "check_root", "remove_root")
      BY <3>5 DEF CheckOwned, Unchanged, Found, Place, tree
    <3>6. CASE RemoveOwned(s, "root", "remove_root")
      <4>1. ~Removable(s, "root") /\ at[x] = <<s, "root">> /\ x = Results(s)
            /\ member' = member /\ extra' = extra
        BY <3>6 DEF RemoveOwned, Place, HeldBy, Reliable
      <4>2. ~Empty(<<s, "root">>)
        BY <4>1 DEF Removable, Found, Place
      <4> QED
        BY <3>4, <4>1, <4>2 DEF Empty, KeptAlive, MembersOf, Emptied, LateRollback
    <3> QED
      BY <3>1, <3>2, <3>3, <3>4, <3>5, <3>6 DEF Step, Rollback, CheckOwned, RemoveOwned
  <2>2. ASSUME pc[s] \notin LastRollback, pc'[s] \in LastRollback, at'[x] = <<s, "reservation">>
        PROVE  KeptAlive(<<s, "reservation">>)'
    <3> USE <1>0, <1>3, <2>0, <2>2 DEF TypeOK, Goto, LastRollback, OwnKinds, Placed
    <3>1. Unreserve(s)
      BY DEF Step, Rollback, Begin, ProbeAll, Probe, Crash, Write, AfterResponse, Train, LinkArchive,
             Reserve, Rename, Emit, Unwrite, Unwind, CheckOwned, RemoveOwned, AfterRemoval, tree
    <3>2. ~Empty(<<s, "reservation">>) /\ member' = member /\ extra' = extra
      <4>1. at[x] = <<s, "reservation">> /\ x = Results(s)
        BY <3>1 DEF Unreserve
      <4> QED
        BY <3>1, <4>1 DEF Unreserve, Reliable
    <3> QED
      BY <3>2 DEF Empty, KeptAlive, MembersOf
  <2>3. ASSUME NEW k \in {"root", "reservation"}, pc[s] \in LastRollback, at'[x] = <<s, k>>
        PROVE  at[x] = <<s, k>> /\ pc'[s] \in LastRollback \cup {"dead"}
    BY <1>3, <2>0, <2>3
    DEF TypeOK, Goto, LastRollback, OwnKinds, Step, Rollback, Begin, ProbeAll, Probe, Crash, Write,
        AfterResponse, Train, LinkArchive, Reserve, Rename, Emit, Unwrite, Unreserve, CheckOwned,
        RemoveOwned, AfterRemoval, tree
  <2> QED
    BY <1>0, <1>1, <2>1, <2>2, <2>3 DEF Kept
<1>4. ASSUME UNCHANGED vars PROVE Kept(s, x)'
  BY <1>0, <1>4 DEF vars, Kept, KeptAlive
<1> QED
  BY <1>2, <1>3, <1>4 DEF Next

\* FailureLeavesNothing: a command that failed leaves nothing of its own, but
\* for a directory a rival's file keeps alive (drop of archive_command.rs,
\* publish_reserved_directory), as long as removals succeed and rivals leave
\* the windows alone.
THEOREM NothingLeft == Reliable /\ ~RivalInWindow /\ Spec => []FailureLeavesNothing
<1> SUFFICES ASSUME Reliable, ~RivalInWindow PROVE Spec => []FailureLeavesNothing
  OBVIOUS
<1> DEFINE I == /\ TypeOK /\ FlowInv /\ RollbackInv /\ PlacedInv /\ MembersInv /\ HeldInv
                /\ EmptiedInv /\ KeptInv
<1>1. Init => I
  BY TypeInit, FlowInit, RollbackInit, PlacedInit, MembersInit, HeldInit, EmptiedInit, KeptInit
<1>2. I /\ [Next]_vars => I'
  BY TypeStep, FlowStep, RollbackStep, PlacedStep, MembersStep, HeldStep, EmptiedStep, KeptStep
<1>3. I => FailureLeavesNothing
  <2> SUFFICES ASSUME I, HasIdentity, NEW r \in Runs, NEW x \in Paths, pc[r] = "failed",
                      at[x] # NoFile, at[x][1] = r
               PROVE  \/ ~Trains(r) /\ at[x][2] = "output"
                      \/ /\ at[x] \in Dirs
                         /\ at[x] \in extra \/ member[at[x]] = RivalFile
                         /\ member[at[x]] # <<r, "member">>
    BY DEF FailureLeavesNothing
  <2>1. Placed(r, x) /\ MembersOf(r) /\ Emptied(r, x) /\ Kept(r, x)
    BY DEF PlacedInv, MembersInv, EmptiedInv, KeptInv
  <2>2. PICK k \in OwnKinds : at[x] = <<r, k>>
    <3>1. at[x] \in Entries
      BY DEF TypeOK
    <3>2. at[x] # RivalFile /\ \A y \in Paths : at[x] # RivalDir(y)
      BY ConstantsAssumption DEF RivalFile, RivalDir
    <3> QED
      BY <3>1, <3>2 DEF Entries
  <2>3. /\ <<r, "root">> \in Dirs /\ <<r, "reservation">> \in Dirs
        /\ RivalFile # <<r, "member">> /\ NoFile # <<r, "member">>
    BY EntryFacts, Distinct DEF OwnKinds
  <2> QED
    BY <2>1, <2>2, <2>3
    DEF Placed, MembersOf, Emptied, Kept, KeptAlive, OwnKinds, LateRollback, LastRollback
<1> QED
  BY <1>1, <1>2, <1>3, PTL DEF Spec
=============================================================================
