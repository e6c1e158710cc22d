------------------------ MODULE PortableSessionProofs ------------------------
(***************************************************************************)
(* Proofs about PortableSession and NativeCalls, for any definitions,      *)
(* libraries and limits, and for any number of changes and operations.     *)
(*                                                                         *)
(* Handles: the calls a routine has still to make are Ready for what is    *)
(* alive.  Sessions: what an operation has done to its data follows from   *)
(* the number of tasks it has done (RunAt, LoadAt, PredictAt); what is in  *)
(* the file and in the session follows from what was edited (FileAre,      *)
(* SessionAre); and the last reply still tells of both (ReplyAre).         *)
(*                                                                         *)
(* Definitions: what is stripped of its comments stays as it is (Again6),  *)
(* so that a normalised definition loads as itself (LoadIs); what has been *)
(* read of the first items is a plan still open exactly when they may      *)
(* stand before a model (ReadAt), which is what Portable says (ParseIs).   *)
(***************************************************************************)
EXTENDS PortableSession, SequenceTheorems, FiniteSetTheorems, WellFoundedInduction, TLAPS

-----------------------------------------------------------------------------
(* Handles. *)

RootHandles == {"splitter", "transform", "context"}

\* What is alive before the j-th of the calls, if all before it succeed.
Had(cs, alive, j) == alive \cup {h \in Handles : \E i \in 1 .. j - 1 : cs[i].makes = h}

\* Each call is given what is alive, makes what is not, and starts with a root.
Serves(call, had) ==
  /\ call.uses \subseteq had
  /\ call.explained => "context" \in had
  /\ call.makes # None => call.makes \in Handles \ had
  /\ call.makes # None /\ had = {} => call.makes \in RootHandles
  /\ call.fn = "config_set_pipeline" => {"config", "pipeline"} \subseteq call.uses
Ready(cs, alive) == \A j \in 1 .. Len(cs) : Serves(cs[j], Had(cs, alive, j))

\* The calls a routine may still have to make.
Ending(r, i) == SubSeq(r, i, Len(r))
Endings == {Ending(r, i) : r \in Routines, i \in 1 .. 15}

HandlesInv ==
  /\ guards \in Seq(Handles)
  /\ live = {guards[i] : i \in DOMAIN guards}
  /\ \A i, j \in DOMAIN guards : guards[i] = guards[j] => i = j
  /\ guards # <<>> => guards[1] \in RootHandles
  /\ refers \subseteq {"pipeline"}
  /\ refers # {} => "config" \in live
  /\ phase \in {"idle", "calling", "returning", "failing"}
  /\ phase = "idle" => guards = <<>>
  /\ phase # "calling" => calls = <<>>
  /\ phase = "calling" =>
       calls # <<>> /\ Ready(calls, live) /\ refers \subseteq live
  /\ calls \in Endings

-----------------------------------------------------------------------------
(* Plans. *)

IsSequence(s) == s \in Seq({s[i] : i \in DOMAIN s})
Prefix(s, n) == [i \in 1 .. n |-> s[i]]

IsStep(step) ==
  step = Snv \/ step = [kind |-> "SavitzkyGolay", window_length |-> step.window_length,
                        polyorder |-> step.polyorder, deriv |-> step.deriv,
                        mode |-> step.mode, cval |-> step.cval]
PlanOk(plan) ==
  /\ IsSequence(plan.preprocessing)
  /\ \A i \in DOMAIN plan.preprocessing : IsStep(plan.preprocessing[i])
  /\ plan.n_components \in Seq(Int) /\ plan.n_components # <<>>

Definitions == {k.definition : k \in Known}

-----------------------------------------------------------------------------
(* Operations. *)

\* How many of its tasks an operation has done, when ts are left.
Done(all, ts) == Len(all) - Len(ts)
Rest(all, ts) ==
  /\ Len(ts) \in 0 .. Len(all)
  /\ ts = [i \in 1 .. Len(ts) |-> all[Done(all, ts) + i]]

Shaped(w) ==
  /\ DOMAIN w = {"definition", "plan", "export", "library", "inspected", "rows", "empty",
                 "judged", "variants", "selected", "cols", "replaced"}
  /\ DOMAIN w.rows = {"train", "test", "new"}
  /\ w.empty \in BOOLEAN /\ w.cols \in Nat /\ w.replaced \in BOOLEAN

\* Where the stages of a run begin: transforms, fits, the selection, the
\* transforms of the export, the refit.
RunAll(plan) == RunTasks(plan) \o ExportTasks(plan)
Transforms(plan) == 1 + Len(SplitTask(plan))
Fitting(plan) == Transforms(plan) + 2 * Len(plan.preprocessing)
Selecting(plan) == Fitting(plan) + Len(plan.n_components)
Exporting(plan) == Selecting(plan) + 1 + Transforms(plan)
ByHost(plan) == IF EmbeddedSpec(plan) = NotEmbedded THEN Len(plan.preprocessing) ELSE 0
Refitting(plan) == Exporting(plan) + ByHost(plan)

\* n, but at least 0 and at most max
Within(n, max) == IF n < 0 THEN 0 ELSE IF n > max THEN max ELSE n

\* The data of a run after d tasks.
Variants == Seq([components : Int, rmse : {NaN, 1, 2}])
TestRows(plan, d) == Within((d - Transforms(plan)) \div 2, Len(plan.preprocessing))
TrainRows(plan, d) ==
  IF d <= Selecting(plan)
  THEN Within((d - Transforms(plan) + 1) \div 2, Len(plan.preprocessing))
  ELSE Within(d - Exporting(plan), ByHost(plan))
RowsAt(w, d) ==
  /\ w.rows.test = Prefix(w.plan.preprocessing, TestRows(w.plan, d))
  /\ w.rows.train = Prefix(w.plan.preprocessing, TrainRows(w.plan, d))
VariantsAt(w, d) ==
  /\ w.variants \in Variants
  /\ Len(w.variants) = Within(d - Fitting(w.plan), Len(w.plan.n_components))
SelectedAt(w, d) ==
  IF d <= Selecting(w.plan) THEN w.selected = None
  ELSE /\ w.selected = Best(w.variants)
       /\ w.judged.train = w.plan.preprocessing /\ w.judged.test = w.plan.preprocessing
ExportAt(w, d) ==
  IF d <= Refitting(w.plan) THEN w.export = None
  ELSE \E size \in Sizes :
         /\ size <= MaxModel
         /\ w.export = Exported(w.definition, Model(EmbeddedSpec(w.plan), w.rows.train,
                                                    w.selected.components, size))
OfKnown(w) == \E k \in Known : k.definition = w.definition /\ k.plan = w.plan /\ k.plan # Refused
RunAt(w, d) == OfKnown(w) /\ RowsAt(w, d) /\ VariantsAt(w, d) /\ SelectedAt(w, d) /\ ExportAt(w, d)

\* The library is the one the process pinned from the first inspection on,
\* and the one that was opened, while nobody replaces it.
LibraryAt(w, d, opening, lib, pin) ==
  ~w.replaced => /\ d > 0 => pin = lib
                 /\ d > opening => w.library = lib

\* What an operation replays.
Replays(w) ==
  w.plan = PlanOf(w.export.definition) /\ w.cols = w.export.cols /\ w.selected = None
LoadAt(w, d, f, lib, pin) ==
  /\ f # None /\ w.export = f /\ Replays(w) /\ ExportOk(w.export)
  /\ d > 0 => ~w.export.model.damaged
  /\ d > 1 => ContractOk(w.export)
  /\ d > 5 => w.cols = w.export.model.cols
  /\ LibraryAt(w, d, 4, lib, pin)
HostSteps(w) == IF w.export.model.does = NotEmbedded THEN Len(w.plan.preprocessing) ELSE 0
PredictAt(w, d, s, lib, pin) ==
  /\ s # None /\ w.export = s.export /\ Replays(w)
  /\ w.rows.new = Prefix(w.plan.preprocessing, Within(d - 3, HostSteps(w)))
  /\ LibraryAt(w, d, 2, lib, pin)

Called == {"split", "transform", "fit", "refit", "import"}
RunInv ==
  op = "run" =>
    /\ Rest(RunAll(work.plan), tasks) /\ RunAt(work, Done(RunAll(work.plan), tasks))
LoadInv ==
  op = "load" =>
    /\ Rest(LoadTasks, tasks) /\ LoadAt(work, Done(LoadTasks, tasks), file, library, pinned)
PredictInv ==
  op = "predict" =>
    /\ Rest(PredictTasks(work), tasks)
    /\ PredictAt(work, Done(PredictTasks(work), tasks), session, library, pinned)
OperationInv ==
  /\ Shaped(work)
  /\ op \in {"none", "run", "load", "predict"}
  /\ op = "none" => tasks = <<>> /\ phase = "idle" /\ work = NoWork
  /\ phase # "idle" => tasks # <<>> /\ Head(tasks).do \in Called

-----------------------------------------------------------------------------
(* Sessions, files and replies. *)

\* The model does, or its rows went through, the steps of the definition.
Joined(export, definition) ==
  export.model.trained \o Performed(export.model.does) = PlanOf(definition).preprocessing
Mixed == {"definition", "model"}

\* What save and an earlier version write.
Genuine(export) ==
  /\ ExportOk(export) /\ ContractOk(export) /\ ~export.model.damaged
  /\ export.cols = export.model.cols

IsExport(export) ==
  /\ DOMAIN export = {"schema", "definition", "digested", "model", "cols", "declared"}
  /\ DOMAIN export.model = {"does", "trained", "components", "cols", "size", "damaged"}
  /\ export.schema \in {1, 2} /\ export.cols \in Nat /\ export.model.size \in Nat
  /\ export.definition \in Definitions /\ export.digested \in Definitions

FileAre(f, changed) ==
  f # None =>
    /\ IsExport(f)
    /\ changed \cap Mixed = {} => PlanOf(f.digested) # Refused /\ Joined(f, f.digested)
    /\ changed = {} => Genuine(f) /\ Length(f) <= MaxExport
FileInv == FileAre(file, edited)

SessionAre(s, f) ==
  s # None =>
    /\ DOMAIN s = {"open", "export", "origin"} /\ s.open \in BOOLEAN
    /\ IsExport(s.export) /\ Genuine(s.export)
    /\ s.origin \cap Mixed = {} => Joined(s.export, s.export.definition)
    /\ f = None => s.origin = {}
SessionInv == SessionAre(session, file)

ReplayOk(w, s) ==
  /\ IsExport(w.export) /\ Genuine(w.export)
  /\ w.plan = PlanOf(w.export.definition)
  /\ w.rows.new = IF w.export.model.does = NotEmbedded THEN w.plan.preprocessing ELSE <<>>
  /\ s # None => s.export = w.export
ReplyAre(r, o, f, changed, s, pin) ==
  /\ r.op # "none" => o = "none"
  /\ r.op = "load" /\ ~r.ok /\ changed = {} /\ f # None => r.why \in {"native", "library"}
  /\ r.op \in {"load", "predict"} /\ r.ok /\ ~r.work.replaced => r.work.library = pin
  /\ r.op = "predict" /\ r.ok => ReplayOk(r.work, s)
ReplyInv == ReplyAre(reply, op, file, edited, session, pinned)

WorldInv ==
  /\ library \in Libraries /\ pinned \in Libraries \cup {None}
  /\ changes \in 0 .. MaxChanges /\ replies \in 0 .. MaxReplies
  /\ op # "none" => replies < MaxReplies

Inv ==
  /\ HandlesInv /\ OperationInv /\ RunInv /\ LoadInv /\ PredictInv
  /\ FileInv /\ SessionInv /\ ReplyInv /\ WorldInv

-----------------------------------------------------------------------------
(* Handles: the routines. *)

\* What a sequence of calls makes.
Made(cs) == {h \in Handles : \E i \in 1 .. Len(cs) : cs[i].makes = h}
IsCall(call) ==
  /\ call = [fn |-> call.fn, makes |-> call.makes, uses |-> call.uses,
             explained |-> call.explained]
  /\ call.makes \in Handles \cup {None} /\ call.uses \subseteq Handles
AreCalls(cs) == IsSequence(cs) /\ \A i \in 1 .. Len(cs) : IsCall(cs[i])

\* A sequence over any set is one over its own elements.
LEMMA Sequenced ==
  ASSUME NEW S, NEW s \in Seq(S)
  PROVE  IsSequence(s)
<1>1. s \in Seq(Range(s))
  BY SeqOfRange
<1> QED
  BY <1>1 DEF IsSequence, Range

\* Calls that are ready, followed by calls that are ready for what they make,
\* are ready (the routines are put together of blocks).
LEMMA ReadyConcat ==
  ASSUME NEW a, NEW b, NEW alive, IsSequence(a), IsSequence(b),
         Ready(a, alive), Ready(b, alive \cup Made(a))
  PROVE  Ready(a \o b, alive) /\ IsSequence(a \o b) /\ Made(a \o b) = Made(a) \cup Made(b)
         /\ Len(a \o b) = Len(a) + Len(b)
<1> DEFINE S == {a[i] : i \in DOMAIN a} \cup {b[i] : i \in DOMAIN b}
           c == a \o b
<1>1. a \in Seq(S) /\ b \in Seq(S)
  BY SeqMonotonic DEF IsSequence
<1>2. /\ c \in Seq(S) /\ Len(c) = Len(a) + Len(b) /\ Len(a) \in Nat /\ Len(b) \in Nat
      /\ \A i \in 1 .. Len(a) : c[i] = a[i]
      /\ \A i \in 1 .. Len(b) : c[Len(a) + i] = b[i]
      /\ \A i \in 1 .. Len(c) : i \in 1 .. Len(a) \/ i - Len(a) \in 1 .. Len(b)
  <2> HIDE DEF S
  <2>1. Len(a) \in Nat /\ Len(b) \in Nat
    BY <1>1, LenProperties
  <2>2. /\ c \in Seq(S) /\ Len(c) = Len(a) + Len(b)
        /\ \A i \in 1 .. Len(a) + Len(b) : c[i] = IF i <= Len(a) THEN a[i] ELSE b[i - Len(a)]
    BY <1>1, ConcatProperties
  <2>3. \A i \in 1 .. Len(b) : c[Len(a) + i] = b[i]
    <3> TAKE i \in 1 .. Len(b)
    <3>1. Len(a) + i \in 1 .. Len(a) + Len(b) /\ ~ (Len(a) + i <= Len(a)) /\ Len(a) + i - Len(a) = i
      BY <2>1
    <3> QED
      BY <2>2, <3>1
  <2>4. \A i \in 1 .. Len(a) : c[i] = a[i]
    BY <2>1, <2>2
  <2> QED
    BY <2>1, <2>2, <2>3, <2>4
<1> HIDE DEF S, c
<1>3. IsSequence(c)
  BY <1>2, Sequenced
<1>4. Made(c) = Made(a) \cup Made(b)
  <2>1. Made(a) \subseteq Made(c)
    BY <1>2 DEF Made
  <2>2. Made(b) \subseteq Made(c)
    <3> SUFFICES ASSUME NEW h \in Handles, NEW i \in 1 .. Len(b), b[i].makes = h
                 PROVE  h \in Made(c)
      BY DEF Made
    <3>1. Len(a) + i \in 1 .. Len(c) /\ c[Len(a) + i].makes = h
      BY <1>2
    <3> QED
      BY <3>1 DEF Made
  <2>3. Made(c) \subseteq Made(a) \cup Made(b)
    <3> SUFFICES ASSUME NEW h \in Handles, NEW i \in 1 .. Len(c), c[i].makes = h
                 PROVE  h \in Made(a) \cup Made(b)
      BY DEF Made
    <3>1. CASE i \in 1 .. Len(a)
      BY <1>2, <3>1 DEF Made
    <3>2. CASE i - Len(a) \in 1 .. Len(b)
      <4>1. c[i] = b[i - Len(a)]
        BY <1>2, <3>2, SMTT(60)
      <4> QED
        BY <4>1, <3>2 DEF Made
    <3> QED
      BY <3>1, <3>2, <1>2
  <2> QED
    BY <2>1, <2>2, <2>3
<1>5. Ready(c, alive)
  <2> SUFFICES ASSUME NEW j \in 1 .. Len(c)
               PROVE  Serves(c[j], Had(c, alive, j))
    BY DEF Ready
  <2>1. CASE j \in 1 .. Len(a)
    <3>1. Had(c, alive, j) = Had(a, alive, j)
      <4>1. \A i \in 1 .. j - 1 : c[i] = a[i]
        BY <1>2, <2>1
      <4> QED
        BY <4>1, Zenon DEF Had
    <3> QED
      BY <1>2, <2>1, <3>1 DEF Ready
  <2>2. CASE j - Len(a) \in 1 .. Len(b)
    <3> DEFINE k == j - Len(a)
    <3>1. c[j] = b[k]
      BY <1>2, <2>2
    <3>2. Had(c, alive, j) = Had(b, alive \cup Made(a), k)
      <4>1. Had(c, alive, j) \subseteq Had(b, alive \cup Made(a), k)
        <5> SUFFICES ASSUME NEW h \in Handles, NEW i \in 1 .. j - 1, c[i].makes = h
                     PROVE  h \in Had(b, alive \cup Made(a), k)
          BY DEF Had
        <5>0. i \in 1 .. Len(c)
          BY <1>2
        <5>1. CASE i \in 1 .. Len(a)
          BY <1>2, <5>1 DEF Had, Made
        <5>2. CASE i - Len(a) \in 1 .. Len(b)
          <6>1. c[i] = b[i - Len(a)] /\ i - Len(a) \in 1 .. k - 1
            BY <1>2, <5>2, <2>2
          <6> QED
            BY <6>1 DEF Had
        <5> QED
          BY <5>0, <5>1, <5>2, <1>2
      <4>2. Had(b, alive \cup Made(a), k) \subseteq Had(c, alive, j)
        <5>1. Made(a) \subseteq Had(c, alive, j)
          BY <1>2, <2>2 DEF Had, Made
        <5>2. ASSUME NEW h \in Handles, NEW i \in 1 .. k - 1, b[i].makes = h
              PROVE  h \in Had(c, alive, j)
          <6>1. Len(a) + i \in 1 .. j - 1 /\ c[Len(a) + i].makes = h
            BY <1>2, <2>2, <5>2
          <6> QED
            BY <6>1 DEF Had
        <5> QED
          BY <5>1, <5>2 DEF Had
      <4> QED
        BY <4>1, <4>2
    <3> QED
      BY <2>2, <3>1, <3>2 DEF Ready
  <2> QED
    BY <1>2, <2>1, <2>2
<1> QED
  BY <1>2, <1>3, <1>4, <1>5 DEF c

\* What is alive before each call, one call after the other.
LEMMA HadNext ==
  ASSUME NEW cs, NEW alive, NEW j \in Nat \ {0}
  PROVE  /\ Had(cs, alive, 1) = alive
         /\ Had(cs, alive, j + 1) = Had(cs, alive, j) \cup ({cs[j].makes} \cap Handles)
<1>1. 1 .. j + 1 - 1 = (1 .. j - 1) \cup {j} /\ 1 .. 1 - 1 = {}
  OBVIOUS
<1> QED
  BY <1>1 DEF Had

\* What is alive grows with each call that allocates.
LEMMA HadSteps ==
  ASSUME NEW cs, NEW alive
  PROVE  /\ Had(cs, alive, 1) = alive
         /\ \A j \in {1, 2, 3, 4} :
              /\ cs[j].makes \in Handles =>
                   Had(cs, alive, j + 1) = Had(cs, alive, j) \cup {cs[j].makes}
              /\ cs[j].makes \notin Handles => Had(cs, alive, j + 1) = Had(cs, alive, j)
<1>1. \A j \in {1, 2, 3, 4} : Had(cs, alive, j + 1) = Had(cs, alive, j) \cup ({cs[j].makes} \cap Handles)
  BY HadNext
<1>2. Had(cs, alive, 1) = alive
  BY HadNext
<1> QED
  BY <1>1, <1>2

\* The elements and lengths of the tuples the routines are written with.
LEMMA Tuples ==
  /\ \A a, b : IsSequence(<<a, b>>) /\ Len(<<a, b>>) = 2
  /\ \A a, b, c : IsSequence(<<a, b, c>>) /\ Len(<<a, b, c>>) = 3
  /\ \A a, b, c, d : IsSequence(<<a, b, c, d>>) /\ Len(<<a, b, c, d>>) = 4
  /\ \A a, b, c, d, e : IsSequence(<<a, b, c, d, e>>) /\ Len(<<a, b, c, d, e>>) = 5
<1>1. \A a, b : <<a, b>> \in Seq({a, b})
  OBVIOUS
<1>2. \A a, b, c : <<a, b, c>> \in Seq({a, b, c})
  OBVIOUS
<1>3. \A a, b, c, d : <<a, b, c, d>> \in Seq({a, b, c, d})
  OBVIOUS
<1>4. \A a, b, c, d, e : <<a, b, c, d, e>> \in Seq({a, b, c, d, e})
  OBVIOUS
<1> QED
  BY <1>1, <1>2, <1>3, <1>4, Sequenced

(* The blocks of calls the routines consist of. *)
FitCalls ==
  <<Call("model_fit", "model", {"context", "config"}, TRUE),
    Call("model_predict", None, {"context", "model"}, TRUE)>>

\* kennard_stone_split: every call is given a handle that is alive.
LEMMA SplitReady ==
  IsSequence(Split) /\ Len(Split) = 4 /\ Ready(Split, {}) /\ Made(Split) = {"splitter", "split"}
<1> DEFINE cs == Split
           H(j) == Had(cs, {}, j)
<1>1. IsSequence(cs) /\ Len(cs) = 4
  BY Tuples DEF Split
<1>2. /\ cs[1] = [fn |-> "matrix_view", makes |-> None, uses |-> {}, explained |-> FALSE]
      /\ cs[2] = [fn |-> "kennard_stone_create", makes |-> "splitter", uses |-> {}, explained |-> FALSE]
      /\ cs[3] = [fn |-> "kennard_stone_split", makes |-> "split", uses |-> {"splitter"}, explained |-> FALSE]
      /\ cs[4] = [fn |-> "copy_indices", makes |-> None, uses |-> {"split"}, explained |-> FALSE]
  BY DEF Split, Call, Resolve
<1> HIDE DEF cs
<1>3. /\ cs[1].makes = None
      /\ cs[2].makes = "splitter"
      /\ cs[3].makes = "split"
      /\ cs[4].makes = None
  BY <1>2
<1>4. H(1) = {}
  BY HadSteps
<1>5. H(2) = {}
  <2>1. cs[1].makes \notin Handles /\ 1 \in {1, 2, 3, 4} /\ 1 + 1 = 2
    BY <1>3, NoneAssumption DEF Handles
  <2>2. H(2) = H(1)
    BY <2>1, HadSteps
  <2> QED
    BY <1>3, <1>4, <2>2
<1>6. H(3) = {"splitter"}
  <2>1. cs[2].makes \in Handles /\ 2 \in {1, 2, 3, 4} /\ 2 + 1 = 3
    BY <1>3, NoneAssumption DEF Handles
  <2>2. H(3) = H(2) \cup {cs[2].makes}
    BY <2>1, HadSteps
  <2> QED
    BY <1>3, <1>5, <2>2
<1>7. H(4) = {"splitter", "split"}
  <2>1. cs[3].makes \in Handles /\ 3 \in {1, 2, 3, 4} /\ 3 + 1 = 4
    BY <1>3, NoneAssumption DEF Handles
  <2>2. H(4) = H(3) \cup {cs[3].makes}
    BY <2>1, HadSteps
  <2> QED
    BY <1>3, <1>6, <2>2
<1> HIDE DEF H
<1>8. Serves(cs[1], H(1))
  BY <1>2, <1>4, NoneAssumption DEF Serves, RootHandles, Handles
<1>9. Serves(cs[2], H(2))
  BY <1>2, <1>5, NoneAssumption DEF Serves, RootHandles, Handles
<1>10. Serves(cs[3], H(3))
  BY <1>2, <1>6, NoneAssumption DEF Serves, RootHandles, Handles
<1>11. Serves(cs[4], H(4))
  BY <1>2, <1>7, NoneAssumption DEF Serves, RootHandles, Handles
<1>12. \A j \in 1 .. 4 : Serves(cs[j], H(j))
  <2>1. 1 .. 4 = {1, 2, 3, 4}
    OBVIOUS
  <2> QED
    BY <2>1, <1>8, <1>9, <1>10, <1>11
<1>13. Made(cs) = {"splitter", "split"}
  <2>1. 1 .. 4 = {1, 2, 3, 4}
    OBVIOUS
  <2> QED
    BY <2>1, <1>1, <1>3, NoneAssumption DEF Made, Handles
<1> QED
  BY <1>1, <1>12, <1>13 DEF Ready, cs, H

\* The transform routine: likewise.
LEMMA TransformReady ==
  IsSequence(Transform) /\ Len(Transform) = 3 /\ Ready(Transform, {}) /\ Made(Transform) = {"transform"}
<1> DEFINE cs == Transform
           H(j) == Had(cs, {}, j)
<1>1. IsSequence(cs) /\ Len(cs) = 3
  BY Tuples DEF Transform
<1>2. /\ cs[1] = [fn |-> "matrix_view", makes |-> None, uses |-> {}, explained |-> FALSE]
      /\ cs[2] = [fn |-> "transform_create", makes |-> "transform", uses |-> {}, explained |-> FALSE]
      /\ cs[3] = [fn |-> "transform", makes |-> None, uses |-> {"transform"}, explained |-> FALSE]
  BY DEF Transform, Call, Resolve
<1> HIDE DEF cs
<1>3. /\ cs[1].makes = None
      /\ cs[2].makes = "transform"
      /\ cs[3].makes = None
  BY <1>2
<1>4. H(1) = {}
  BY HadSteps
<1>5. H(2) = {}
  <2>1. cs[1].makes \notin Handles /\ 1 \in {1, 2, 3, 4} /\ 1 + 1 = 2
    BY <1>3, NoneAssumption DEF Handles
  <2>2. H(2) = H(1)
    BY <2>1, HadSteps
  <2> QED
    BY <1>3, <1>4, <2>2
<1>6. H(3) = {"transform"}
  <2>1. cs[2].makes \in Handles /\ 2 \in {1, 2, 3, 4} /\ 2 + 1 = 3
    BY <1>3, NoneAssumption DEF Handles
  <2>2. H(3) = H(2) \cup {cs[2].makes}
    BY <2>1, HadSteps
  <2> QED
    BY <1>3, <1>5, <2>2
<1> HIDE DEF H
<1>7. Serves(cs[1], H(1))
  BY <1>2, <1>4, NoneAssumption DEF Serves, RootHandles, Handles
<1>8. Serves(cs[2], H(2))
  BY <1>2, <1>5, NoneAssumption DEF Serves, RootHandles, Handles
<1>9. Serves(cs[3], H(3))
  BY <1>2, <1>6, NoneAssumption DEF Serves, RootHandles, Handles
<1>10. \A j \in 1 .. 3 : Serves(cs[j], H(j))
  <2>1. 1 .. 3 = {1, 2, 3}
    OBVIOUS
  <2> QED
    BY <2>1, <1>7, <1>8, <1>9
<1>11. Made(cs) = {"transform"}
  <2>1. 1 .. 3 = {1, 2, 3}
    OBVIOUS
  <2> QED
    BY <2>1, <1>1, <1>3, NoneAssumption DEF Made, Handles
<1> QED
  BY <1>1, <1>10, <1>11 DEF Ready, cs, H

\* The import of a model and its prediction: likewise.
LEMMA ImportPredictReady ==
  IsSequence(ImportPredict) /\ Len(ImportPredict) = 4 /\ Ready(ImportPredict, {}) /\ Made(ImportPredict) = {"context", "model"}
<1> DEFINE cs == ImportPredict
           H(j) == Had(cs, {}, j)
<1>1. IsSequence(cs) /\ Len(cs) = 4
  BY Tuples DEF ImportPredict
<1>2. /\ cs[1] = [fn |-> "model_size", makes |-> None, uses |-> {}, explained |-> FALSE]
      /\ cs[2] = [fn |-> "context_create", makes |-> "context", uses |-> {}, explained |-> FALSE]
      /\ cs[3] = [fn |-> "model_import_from_buffer", makes |-> "model", uses |-> {"context"}, explained |-> TRUE]
      /\ cs[4] = [fn |-> "model_predict", makes |-> None, uses |-> {"context", "model"}, explained |-> TRUE]
  BY DEF ImportPredict, Call, Resolve
<1> HIDE DEF cs
<1>3. /\ cs[1].makes = None
      /\ cs[2].makes = "context"
      /\ cs[3].makes = "model"
      /\ cs[4].makes = None
  BY <1>2
<1>4. H(1) = {}
  BY HadSteps
<1>5. H(2) = {}
  <2>1. cs[1].makes \notin Handles /\ 1 \in {1, 2, 3, 4} /\ 1 + 1 = 2
    BY <1>3, NoneAssumption DEF Handles
  <2>2. H(2) = H(1)
    BY <2>1, HadSteps
  <2> QED
    BY <1>3, <1>4, <2>2
<1>6. H(3) = {"context"}
  <2>1. cs[2].makes \in Handles /\ 2 \in {1, 2, 3, 4} /\ 2 + 1 = 3
    BY <1>3, NoneAssumption DEF Handles
  <2>2. H(3) = H(2) \cup {cs[2].makes}
    BY <2>1, HadSteps
  <2> QED
    BY <1>3, <1>5, <2>2
<1>7. H(4) = {"context", "model"}
  <2>1. cs[3].makes \in Handles /\ 3 \in {1, 2, 3, 4} /\ 3 + 1 = 4
    BY <1>3, NoneAssumption DEF Handles
  <2>2. H(4) = H(3) \cup {cs[3].makes}
    BY <2>1, HadSteps
  <2> QED
    BY <1>3, <1>6, <2>2
<1> HIDE DEF H
<1>8. Serves(cs[1], H(1))
  BY <1>2, <1>4, NoneAssumption DEF Serves, RootHandles, Handles
<1>9. Serves(cs[2], H(2))
  BY <1>2, <1>5, NoneAssumption DEF Serves, RootHandles, Handles
<1>10. Serves(cs[3], H(3))
  BY <1>2, <1>6, NoneAssumption DEF Serves, RootHandles, Handles
<1>11. Serves(cs[4], H(4))
  BY <1>2, <1>7, NoneAssumption DEF Serves, RootHandles, Handles
<1>12. \A j \in 1 .. 4 : Serves(cs[j], H(j))
  <2>1. 1 .. 4 = {1, 2, 3, 4}
    OBVIOUS
  <2> QED
    BY <2>1, <1>8, <1>9, <1>10, <1>11
<1>13. Made(cs) = {"context", "model"}
  <2>1. 1 .. 4 = {1, 2, 3, 4}
    OBVIOUS
  <2> QED
    BY <2>1, <1>1, <1>3, NoneAssumption DEF Made, Handles
<1> QED
  BY <1>1, <1>12, <1>13 DEF Ready, cs, H

\* The context and the configuration of a fit: likewise.
LEMMA ConfigureReady ==
  IsSequence(Configure) /\ Len(Configure) = 4 /\ Ready(Configure, {}) /\ Made(Configure) = {"context", "config"}
<1> DEFINE cs == Configure
           H(j) == Had(cs, {}, j)
<1>1. IsSequence(cs) /\ Len(cs) = 4
  BY Tuples DEF Configure
<1>2. /\ cs[1] = [fn |-> "matrix_view", makes |-> None, uses |-> {}, explained |-> FALSE]
      /\ cs[2] = [fn |-> "context_create", makes |-> "context", uses |-> {}, explained |-> FALSE]
      /\ cs[3] = [fn |-> "config_create", makes |-> "config", uses |-> {}, explained |-> TRUE]
      /\ cs[4] = [fn |-> "config_set", makes |-> None, uses |-> {"config"}, explained |-> TRUE]
  BY DEF Configure, Call, Resolve
<1> HIDE DEF cs
<1>3. /\ cs[1].makes = None
      /\ cs[2].makes = "context"
      /\ cs[3].makes = "config"
      /\ cs[4].makes = None
  BY <1>2
<1>4. H(1) = {}
  BY HadSteps
<1>5. H(2) = {}
  <2>1. cs[1].makes \notin Handles /\ 1 \in {1, 2, 3, 4} /\ 1 + 1 = 2
    BY <1>3, NoneAssumption DEF Handles
  <2>2. H(2) = H(1)
    BY <2>1, HadSteps
  <2> QED
    BY <1>3, <1>4, <2>2
<1>6. H(3) = {"context"}
  <2>1. cs[2].makes \in Handles /\ 2 \in {1, 2, 3, 4} /\ 2 + 1 = 3
    BY <1>3, NoneAssumption DEF Handles
  <2>2. H(3) = H(2) \cup {cs[2].makes}
    BY <2>1, HadSteps
  <2> QED
    BY <1>3, <1>5, <2>2
<1>7. H(4) = {"context", "config"}
  <2>1. cs[3].makes \in Handles /\ 3 \in {1, 2, 3, 4} /\ 3 + 1 = 4
    BY <1>3, NoneAssumption DEF Handles
  <2>2. H(4) = H(3) \cup {cs[3].makes}
    BY <2>1, HadSteps
  <2> QED
    BY <1>3, <1>6, <2>2
<1> HIDE DEF H
<1>8. Serves(cs[1], H(1))
  BY <1>2, <1>4, NoneAssumption DEF Serves, RootHandles, Handles
<1>9. Serves(cs[2], H(2))
  BY <1>2, <1>5, NoneAssumption DEF Serves, RootHandles, Handles
<1>10. Serves(cs[3], H(3))
  BY <1>2, <1>6, NoneAssumption DEF Serves, RootHandles, Handles
<1>11. Serves(cs[4], H(4))
  BY <1>2, <1>7, NoneAssumption DEF Serves, RootHandles, Handles
<1>12. \A j \in 1 .. 4 : Serves(cs[j], H(j))
  <2>1. 1 .. 4 = {1, 2, 3, 4}
    OBVIOUS
  <2> QED
    BY <2>1, <1>8, <1>9, <1>10, <1>11
<1>13. Made(cs) = {"context", "config"}
  <2>1. 1 .. 4 = {1, 2, 3, 4}
    OBVIOUS
  <2> QED
    BY <2>1, <1>1, <1>3, NoneAssumption DEF Made, Handles
<1> QED
  BY <1>1, <1>12, <1>13 DEF Ready, cs, H

\* The pipeline of a fit, when the context and the configuration are alive.
LEMMA EmbedReady ==
  IsSequence(Embed) /\ Len(Embed) = 5 /\ Ready(Embed, {"context", "config"}) /\ Made(Embed) = {"pipeline"}
<1> DEFINE cs == Embed
           H(j) == Had(cs, {"context", "config"}, j)
<1>1. IsSequence(cs) /\ Len(cs) = 5
  BY Tuples DEF Embed
<1>2. /\ cs[1] = [fn |-> "pipeline_symbols", makes |-> None, uses |-> {}, explained |-> FALSE]
      /\ cs[2] = [fn |-> "pipeline_create", makes |-> "pipeline", uses |-> {}, explained |-> TRUE]
      /\ cs[3] = [fn |-> "add_snv", makes |-> None, uses |-> {"pipeline"}, explained |-> TRUE]
      /\ cs[4] = [fn |-> "add_savgol", makes |-> None, uses |-> {"pipeline"}, explained |-> TRUE]
      /\ cs[5] = [fn |-> "config_set_pipeline", makes |-> None, uses |-> {"config", "pipeline"}, explained |-> TRUE]
  BY DEF Embed, Call, Resolve
<1> HIDE DEF cs
<1>3. /\ cs[1].makes = None
      /\ cs[2].makes = "pipeline"
      /\ cs[3].makes = None
      /\ cs[4].makes = None
      /\ cs[5].makes = None
  BY <1>2
<1>4. H(1) = {"context", "config"}
  BY HadSteps
<1>5. H(2) = {"context", "config"}
  <2>1. cs[1].makes \notin Handles /\ 1 \in {1, 2, 3, 4} /\ 1 + 1 = 2
    BY <1>3, NoneAssumption DEF Handles
  <2>2. H(2) = H(1)
    BY <2>1, HadSteps
  <2> QED
    BY <1>3, <1>4, <2>2
<1>6. H(3) = {"context", "config", "pipeline"}
  <2>1. cs[2].makes \in Handles /\ 2 \in {1, 2, 3, 4} /\ 2 + 1 = 3
    BY <1>3, NoneAssumption DEF Handles
  <2>2. H(3) = H(2) \cup {cs[2].makes}
    BY <2>1, HadSteps
  <2> QED
    BY <1>3, <1>5, <2>2
<1>7. H(4) = {"context", "config", "pipeline"}
  <2>1. cs[3].makes \notin Handles /\ 3 \in {1, 2, 3, 4} /\ 3 + 1 = 4
    BY <1>3, NoneAssumption DEF Handles
  <2>2. H(4) = H(3)
    BY <2>1, HadSteps
  <2> QED
    BY <1>3, <1>6, <2>2
<1>8. H(5) = {"context", "config", "pipeline"}
  <2>1. cs[4].makes \notin Handles /\ 4 \in {1, 2, 3, 4} /\ 4 + 1 = 5
    BY <1>3, NoneAssumption DEF Handles
  <2>2. H(5) = H(4)
    BY <2>1, HadSteps
  <2> QED
    BY <1>3, <1>7, <2>2
<1> HIDE DEF H
<1>9. Serves(cs[1], H(1))
  BY <1>2, <1>4, NoneAssumption DEF Serves, RootHandles, Handles
<1>10. Serves(cs[2], H(2))
  BY <1>2, <1>5, NoneAssumption DEF Serves, RootHandles, Handles
<1>11. Serves(cs[3], H(3))
  BY <1>2, <1>6, NoneAssumption DEF Serves, RootHandles, Handles
<1>12. Serves(cs[4], H(4))
  BY <1>2, <1>7, NoneAssumption DEF Serves, RootHandles, Handles
<1>13. Serves(cs[5], H(5))
  BY <1>2, <1>8, NoneAssumption DEF Serves, RootHandles, Handles
<1>14. \A j \in 1 .. 5 : Serves(cs[j], H(j))
  <2>1. 1 .. 5 = {1, 2, 3, 4, 5}
    OBVIOUS
  <2> QED
    BY <2>1, <1>9, <1>10, <1>11, <1>12, <1>13
<1>15. Made(cs) = {"pipeline"}
  <2>1. 1 .. 5 = {1, 2, 3, 4, 5}
    OBVIOUS
  <2> QED
    BY <2>1, <1>1, <1>3, NoneAssumption DEF Made, Handles
<1> QED
  BY <1>1, <1>14, <1>15 DEF Ready, cs, H

\* The export of a fitted model, when the model is alive.
LEMMA ExportReady ==
  ASSUME NEW alive, "model" \in alive
  PROVE  IsSequence(Export) /\ Len(Export) = 3 /\ Ready(Export, alive) /\ Made(Export) = {}
<1> DEFINE cs == Export
           H(j) == Had(cs, alive, j)
<1>1. IsSequence(cs) /\ Len(cs) = 3
  BY Tuples DEF Export
<1>2. /\ cs[1] = [fn |-> "export_symbols", makes |-> None, uses |-> {}, explained |-> FALSE]
      /\ cs[2] = [fn |-> "model_export_size", makes |-> None, uses |-> {"model"}, explained |-> FALSE]
      /\ cs[3] = [fn |-> "model_export_to_buffer", makes |-> None, uses |-> {"model"}, explained |-> FALSE]
  BY DEF Export, Call, Resolve
<1> HIDE DEF cs
<1>3. /\ cs[1].makes = None
      /\ cs[2].makes = None
      /\ cs[3].makes = None
  BY <1>2
<1>4. H(1) = alive
  BY HadSteps
<1>5. H(2) = alive
  <2>1. cs[1].makes \notin Handles /\ 1 \in {1, 2, 3, 4} /\ 1 + 1 = 2
    BY <1>3, NoneAssumption DEF Handles
  <2>2. H(2) = H(1)
    BY <2>1, HadSteps
  <2> QED
    BY <1>3, <1>4, <2>2
<1>6. H(3) = alive
  <2>1. cs[2].makes \notin Handles /\ 2 \in {1, 2, 3, 4} /\ 2 + 1 = 3
    BY <1>3, NoneAssumption DEF Handles
  <2>2. H(3) = H(2)
    BY <2>1, HadSteps
  <2> QED
    BY <1>3, <1>5, <2>2
<1> HIDE DEF H
<1>7. Serves(cs[1], H(1))
  BY <1>2, <1>4, NoneAssumption DEF Serves, RootHandles, Handles
<1>8. Serves(cs[2], H(2))
  BY <1>2, <1>5, NoneAssumption DEF Serves, RootHandles, Handles
<1>9. Serves(cs[3], H(3))
  BY <1>2, <1>6, NoneAssumption DEF Serves, RootHandles, Handles
<1>10. \A j \in 1 .. 3 : Serves(cs[j], H(j))
  <2>1. 1 .. 3 = {1, 2, 3}
    OBVIOUS
  <2> QED
    BY <2>1, <1>7, <1>8, <1>9
<1>11. Made(cs) = {}
  <2>1. 1 .. 3 = {1, 2, 3}
    OBVIOUS
  <2> QED
    BY <2>1, <1>1, <1>3, NoneAssumption DEF Made, Handles
<1> QED
  BY <1>1, <1>10, <1>11 DEF Ready, cs, H

\* The fit and its prediction, when context and configuration are alive.
LEMMA FitCallsReady ==
  ASSUME NEW alive, {"context", "config"} \subseteq alive /\ "model" \notin alive
  PROVE  IsSequence(FitCalls) /\ Len(FitCalls) = 2 /\ Ready(FitCalls, alive) /\ Made(FitCalls) = {"model"}
<1> DEFINE cs == FitCalls
           H(j) == Had(cs, alive, j)
<1>1. IsSequence(cs) /\ Len(cs) = 2
  BY Tuples DEF FitCalls
<1>2. /\ cs[1] = [fn |-> "model_fit", makes |-> "model", uses |-> {"context", "config"}, explained |-> TRUE]
      /\ cs[2] = [fn |-> "model_predict", makes |-> None, uses |-> {"context", "model"}, explained |-> TRUE]
  BY DEF FitCalls, Call, Resolve
<1> HIDE DEF cs
<1>3. /\ cs[1].makes = "model"
      /\ cs[2].makes = None
  BY <1>2
<1>4. H(1) = alive
  BY HadSteps
<1>5. H(2) = alive \cup {"model"}
  <2>1. cs[1].makes \in Handles /\ 1 \in {1, 2, 3, 4} /\ 1 + 1 = 2
    BY <1>3, NoneAssumption DEF Handles
  <2>2. H(2) = H(1) \cup {cs[1].makes}
    BY <2>1, HadSteps
  <2> QED
    BY <1>3, <1>4, <2>2
<1> HIDE DEF H
<1>6. Serves(cs[1], H(1))
  BY <1>2, <1>4, NoneAssumption DEF Serves, RootHandles, Handles
<1>7. Serves(cs[2], H(2))
  BY <1>2, <1>5, NoneAssumption DEF Serves, RootHandles, Handles
<1>8. \A j \in 1 .. 2 : Serves(cs[j], H(j))
  <2>1. 1 .. 2 = {1, 2}
    OBVIOUS
  <2> QED
    BY <2>1, <1>6, <1>7
<1>9. Made(cs) = {"model"}
  <2>1. 1 .. 2 = {1, 2}
    OBVIOUS
  <2> QED
    BY <2>1, <1>1, <1>3, NoneAssumption DEF Made, Handles
<1> QED
  BY <1>1, <1>8, <1>9 DEF Ready, cs, H

\* Every routine can be called when nothing is alive.
LEMMA RoutinesReady ==
  ASSUME NEW r \in Routines
  PROVE  IsSequence(r) /\ Len(r) \in 3 .. 14 /\ Ready(r, {})
<1>1. ASSUME NEW em \in BOOLEAN, NEW ex \in BOOLEAN
      PROVE  LET f == FitPredict(em, ex) IN IsSequence(f) /\ Len(f) \in 3 .. 14 /\ Ready(f, {})
  <2> DEFINE embedding == IF em THEN Embed ELSE <<>>
             exporting == IF ex THEN Export ELSE <<>>
             a == Configure \o embedding
             b == a \o FitCalls
  <2>0. IsSequence(<<>>) /\ Len(<<>>) = 0 /\ Made(<<>>) = {} /\ \A alive : Ready(<<>>, alive)
    BY DEF IsSequence, Made, Ready
  <2>1. /\ IsSequence(embedding) /\ Len(embedding) \in {0, 5}
        /\ Ready(embedding, {"context", "config"})
        /\ Made(embedding) \subseteq {"pipeline"}
    BY <2>0, EmbedReady
  <2>2. /\ IsSequence(a) /\ Len(a) \in {4, 9} /\ Ready(a, {})
        /\ {"context", "config"} \subseteq Made(a) /\ "model" \notin Made(a)
    <3> HIDE DEF embedding
    <3>1. {} \cup Made(Configure) = {"context", "config"}
      BY ConfigureReady
    <3>2. /\ IsSequence(a) /\ Ready(a, {})
          /\ Made(a) = Made(Configure) \cup Made(embedding)
          /\ Len(a) = Len(Configure) + Len(embedding)
      BY <2>1, <3>1, ConfigureReady, ReadyConcat
    <3>3. \A y \in {0, 5} : 4 + y \in {4, 9}
      OBVIOUS
    <3>4. Len(a) \in {4, 9}
      BY ONLY <2>1, <3>2, <3>3, ConfigureReady
    <3> HIDE DEF a
    <3> QED
      BY <2>1, <3>2, <3>4, ConfigureReady
  <2>3. IsSequence(b) /\ Len(b) \in {6, 11} /\ Ready(b, {}) /\ "model" \in Made(b)
    <3> HIDE DEF a
    <3>1. /\ IsSequence(FitCalls) /\ Len(FitCalls) = 2 /\ Made(FitCalls) = {"model"}
          /\ Ready(FitCalls, {} \cup Made(a))
      BY <2>2, FitCallsReady
    <3>2. IsSequence(b) /\ Ready(b, {}) /\ Made(b) = Made(a) \cup Made(FitCalls)
          /\ Len(b) = Len(a) + Len(FitCalls)
      BY <2>2, <3>1, ReadyConcat
    <3>3. \A x \in {4, 9} : x + 2 \in {6, 11}
      OBVIOUS
    <3> HIDE DEF b
    <3> QED
      BY <2>2, <3>1, <3>2, <3>3
  <2>4. IsSequence(exporting) /\ Len(exporting) \in {0, 3} /\ Ready(exporting, {} \cup Made(b))
    <3> HIDE DEF b
    <3>1. "model" \in {} \cup Made(b)
      BY <2>3
    <3> QED
      BY <2>0, <3>1, ExportReady
  <2>5. /\ IsSequence(b \o exporting) /\ Ready(b \o exporting, {})
        /\ Len(b \o exporting) = Len(b) + Len(exporting)
    <3> HIDE DEF b, exporting
    <3> QED
      BY <2>3, <2>4, ReadyConcat
  <2>6. FitPredict(em, ex) = b \o exporting
    BY DEF FitPredict, FitCalls
  <2>7. Len(b) + Len(exporting) \in 3 .. 14
    <3> HIDE DEF b, exporting
    <3>1. \A x \in {6, 11}, y \in {0, 3} : x + y \in 3 .. 14
      OBVIOUS
    <3> QED
      BY <2>3, <2>4, <3>1
  <2> QED
    BY <2>5, <2>6, <2>7
<1>2. CASE r \in {Split, Transform, ImportPredict}
  BY <1>2, SplitReady, TransformReady, ImportPredictReady
<1>3. CASE r \in {FitPredict(em, ex) : em \in BOOLEAN, ex \in BOOLEAN}
  BY <1>1, <1>3
<1> QED
  BY <1>2, <1>3 DEF Routines

-----------------------------------------------------------------------------
(* Handles: the steps. *)

\* Every routine, every end of one and the empty list are endings.
LEMMA EndingIn ==
  /\ \A r \in Routines, i \in 1 .. 15 : Ending(r, i) \in Endings
  /\ <<>> \in Endings
  /\ \A r \in Routines : r \in Endings /\ r # <<>>
<1>1. \A r \in Routines, i \in 1 .. 15 : Ending(r, i) \in Endings
  BY DEF Endings
<1>2. Ending(Split, 15) = <<>> /\ Split \in Routines /\ 15 \in 1 .. 15
  <2>1. Split \in Routines
    BY DEF Routines
  <2> QED
    BY <2>1, SplitReady, SubSeqEmpty DEF Ending
<1>3. ASSUME NEW r \in Routines
      PROVE  r = Ending(r, 1) /\ 1 \in 1 .. 15 /\ r # <<>>
  <2> DEFINE S == {r[i] : i \in DOMAIN r}
  <2>1. Len(r) \in 3 .. 14 /\ r \in Seq(S)
    BY RoutinesReady DEF IsSequence
  <2> HIDE DEF S
  <2>2. r # <<>>
    <3>1. \A n \in 3 .. 14 : n # 0
      OBVIOUS
    <3>2. r = <<>> => Len(r) = 0
      BY EmptySeq
    <3> QED
      BY ONLY <2>1, <3>1, <3>2
  <2>3. SubSeq(r, 1, Len(r)) = r
    BY <2>1, SubSeqFull
  <2> QED
    BY <2>2, <2>3 DEF Ending
<1>4. <<>> \in Endings
  BY <1>1, <1>2
<1>5. \A r \in Routines : r \in Endings
  BY <1>1, <1>3
<1> QED
  BY <1>1, <1>3, <1>4, <1>5

\* An ending is a sequence, and its tail is an ending.
LEMMA EndingFacts ==
  ASSUME NEW cs \in Endings
  PROVE  /\ IsSequence(cs) /\ Len(cs) \in Nat /\ (cs = <<>> <=> Len(cs) = 0)
         /\ cs # <<>> => /\ Tail(cs) \in Endings
                         /\ Head(cs) = cs[1]
                         /\ Len(Tail(cs)) = Len(cs) - 1
                         /\ \A j \in 1 .. Len(cs) - 1 : Tail(cs)[j] = cs[j + 1]
<1> PICK r \in Routines, i \in 1 .. 15 : cs = SubSeq(r, i, Len(r))
  BY DEF Endings, Ending
<1> DEFINE S == {r[k] : k \in DOMAIN r}
<1>1. r \in Seq(S) /\ Len(r) \in 3 .. 14
  BY RoutinesReady DEF IsSequence
<1> HIDE DEF S
<1>2. cs \in Seq(S)
  <2>1. \A k \in i .. Len(r) : r[k] \in S
    BY <1>1, ElementOfSeq
  <2> QED
    BY <1>1, <2>1, SubSeqProperties
<1>3. IsSequence(cs) /\ Len(cs) \in Nat /\ (cs = <<>> <=> Len(cs) = 0)
  BY <1>2, Sequenced, LenProperties, EmptySeq
<1>4. ASSUME cs # <<>>
      PROVE  /\ Tail(cs) \in Endings
             /\ Head(cs) = cs[1]
             /\ Len(Tail(cs)) = Len(cs) - 1
             /\ \A j \in 1 .. Len(cs) - 1 : Tail(cs)[j] = cs[j + 1]
  <2>1. i <= Len(r)
    BY <1>1, <1>4, SubSeqEmpty
  <2>2. Tail(cs) = SubSeq(r, i + 1, Len(r)) /\ i + 1 \in 1 .. 15
    <3>1. i \in 1 .. Len(r) /\ Len(r) \in i .. Len(r)
      BY <1>1, <2>1
    <3> QED
      BY <1>1, <3>1, HeadTailOfSubSeq, SMTT(30)
  <2>3. Tail(cs) \in Endings
    BY <2>2, EndingIn DEF Ending
  <2> QED
    BY <1>2, <1>4, <2>3, HeadTailProperties
<1> QED
  BY <1>3, <1>4

\* The rest is ready once the first call has made what it makes.
LEMMA ReadyTail ==
  ASSUME NEW cs \in Endings, NEW alive, NEW after, cs # <<>>, Ready(cs, alive),
         after = IF cs[1].makes # None THEN alive \cup {cs[1].makes} ELSE alive
  PROVE  Ready(Tail(cs), after)
<1>1. Len(cs) \in Nat \ {0}
  BY EndingFacts
<1>2. cs[1].makes # None => cs[1].makes \in Handles
  BY <1>1 DEF Ready, Serves
<1>3. ASSUME NEW j \in 1 .. Len(cs) - 1
      PROVE  Had(Tail(cs), after, j) = Had(cs, alive, j + 1)
  <2>1. Had(Tail(cs), after, j) \subseteq Had(cs, alive, j + 1)
    <3>1. after \subseteq Had(cs, alive, j + 1)
      BY <1>1, <1>2 DEF Had
    <3>2. ASSUME NEW h \in Handles, NEW i \in 1 .. j - 1, Tail(cs)[i].makes = h
          PROVE  h \in Had(cs, alive, j + 1)
      <4>1. i + 1 \in 1 .. j + 1 - 1 /\ Tail(cs)[i] = cs[i + 1]
        BY <1>1, EndingFacts
      <4> QED
        BY <3>2, <4>1 DEF Had
    <3> QED
      BY <3>1, <3>2 DEF Had
  <2>2. Had(cs, alive, j + 1) \subseteq Had(Tail(cs), after, j)
    <3>1. alive \subseteq Had(Tail(cs), after, j)
      BY DEF Had
    <3>2. ASSUME NEW h \in Handles, NEW i \in 1 .. j + 1 - 1, cs[i].makes = h
          PROVE  h \in Had(Tail(cs), after, j)
      <4>1. CASE i = 1
        BY <3>2, <4>1, NoneAssumption DEF Had
      <4>2. CASE i # 1
        <5>1. i - 1 \in 1 .. j - 1 /\ Tail(cs)[i - 1] = cs[i]
          <6>1. i - 1 \in 1 .. j - 1 /\ i - 1 \in 1 .. Len(cs) - 1 /\ i - 1 + 1 = i
            BY <1>1, <4>2
          <6> QED
            BY <6>1, EndingFacts
        <5> QED
          BY <3>2, <5>1 DEF Had
      <4> QED
        BY <4>1, <4>2
    <3> QED
      BY <3>1, <3>2 DEF Had
  <2> QED
    BY <2>1, <2>2
<1>4. ASSUME NEW j \in 1 .. Len(Tail(cs))
      PROVE  Serves(Tail(cs)[j], Had(Tail(cs), after, j))
  <2>1. j \in 1 .. Len(cs) - 1 /\ j + 1 \in 1 .. Len(cs)
    BY <1>1, EndingFacts
  <2>2. Tail(cs)[j] = cs[j + 1]
    BY <2>1, EndingFacts
  <2> QED
    BY <1>3, <2>1, <2>2 DEF Ready
<1> QED
  BY <1>4 DEF Ready

\* Nothing is allocated at first.
LEMMA HandlesInit == Quiet => HandlesInv
<1> SUFFICES ASSUME Quiet PROVE HandlesInv
  OBVIOUS
<1>1. calls \in Endings
  BY EndingIn DEF Quiet
<1>2. guards \in Seq(Handles) /\ live = {guards[i] : i \in DOMAIN guards} /\ guards = <<>>
  BY DEF Quiet
<1> QED
  BY <1>1, <1>2 DEF Quiet, HandlesInv

\* A routine begins with nothing allocated.
LEMMA HandlesBegin ==
  ASSUME NEW r \in Routines, HandlesInv, Begin(r)
  PROVE  HandlesInv'
<1>1. Len(r) \in 3 .. 14 /\ Ready(r, {}) /\ IsSequence(r)
  BY RoutinesReady
<1>2. calls' \in Endings /\ calls' = r /\ calls' # <<>>
  BY EndingIn DEF Begin
<1>3. live = {} /\ refers = {} /\ guards = <<>>
  BY DEF Begin, HandlesInv
<1>4. Ready(calls', live')
  BY <1>1, <1>3 DEF Begin
<1>5. UNCHANGED <<live, guards, refers>> /\ phase' = "calling"
  BY DEF Begin
<1> QED
  BY <1>2, <1>3, <1>4, <1>5 DEF HandlesInv

\* A handle that is allocated was not alive, and the first one is a root.
LEMMA HandlesAllocate ==
  ASSUME NEW h \in Handles \ live, HandlesInv, Allocate(h), live = {} => h \in RootHandles
  PROVE  /\ guards' \in Seq(Handles)
         /\ live' = {guards'[i] : i \in DOMAIN guards'}
         /\ \A i, j \in DOMAIN guards' : guards'[i] = guards'[j] => i = j
         /\ guards' # <<>> /\ guards'[1] \in RootHandles
<1>1. guards \in Seq(Handles) /\ guards' = Append(guards, h) /\ live' = live \cup {h}
  BY DEF Allocate, HandlesInv
<1>2. /\ guards' \in Seq(Handles) /\ Len(guards') = Len(guards) + 1 /\ guards' # <<>>
      /\ \A i \in 1 .. Len(guards) : guards'[i] = guards[i]
      /\ guards'[Len(guards) + 1] = h
      /\ Len(guards) \in Nat
      /\ DOMAIN guards = 1 .. Len(guards) /\ DOMAIN guards' = 1 .. Len(guards) + 1
  BY <1>1, AppendProperties, LenProperties
<1>3. \A i \in DOMAIN guards : guards[i] # h
  BY DEF HandlesInv
<1>4. live' = {guards'[i] : i \in DOMAIN guards'}
  <2>1. \A x \in live' : \E i \in DOMAIN guards' : x = guards'[i]
    <3> SUFFICES ASSUME NEW x \in live' PROVE \E i \in DOMAIN guards' : x = guards'[i]
      OBVIOUS
    <3>1. CASE x = h
      BY <1>2, <3>1
    <3>2. CASE x \in live
      BY <1>2, <3>2 DEF HandlesInv
    <3> QED
      BY <1>1, <3>1, <3>2
  <2>2. \A i \in DOMAIN guards' : guards'[i] \in live'
    <3> SUFFICES ASSUME NEW i \in DOMAIN guards' PROVE guards'[i] \in live'
      OBVIOUS
    <3>1. i \in 1 .. Len(guards) \/ i = Len(guards) + 1
      BY <1>2
    <3> QED
      BY <1>1, <1>2, <3>1 DEF HandlesInv
  <2> QED
    BY <2>1, <2>2
<1>5. \A i, j \in DOMAIN guards' : guards'[i] = guards'[j] => i = j
  <2>1. \A i \in DOMAIN guards' : i \in DOMAIN guards \/ i = Len(guards) + 1
    BY <1>2
  <2> QED
    BY <1>2, <1>3, <2>1 DEF HandlesInv
<1>6. guards'[1] \in RootHandles
  <2>1. CASE guards = <<>>
    BY <1>2, <2>1 DEF HandlesInv
  <2>2. CASE guards # <<>>
    <3>1. 1 \in 1 .. Len(guards)
      BY <1>1, <1>2, <2>2, EmptySeq
    <3> QED
      BY <1>2, <2>2, <3>1 DEF HandlesInv
  <2> QED
    BY <2>1, <2>2
<1> QED
  BY <1>2, <1>4, <1>5, <1>6

\* A call that succeeds leaves what it made to a guard.
LEMMA HandlesSucceed ==
  ASSUME HandlesInv, Succeed
  PROVE  HandlesInv'
<1> DEFINE call == Head(calls)
<1>1. calls \in Endings /\ calls # <<>> /\ phase = "calling" /\ Ready(calls, live)
  BY DEF HandlesInv, Succeed
<1>2. /\ call = calls[1] /\ Tail(calls) \in Endings /\ Len(calls) \in Nat \ {0}
      /\ Serves(call, live)
  <2>1. call = calls[1] /\ Tail(calls) \in Endings /\ Len(calls) \in Nat \ {0}
    BY <1>1, EndingFacts
  <2>2. Had(calls, live, 1) = live
    BY HadSteps
  <2> QED
    BY <1>1, <2>1, <2>2 DEF Ready
<1> HIDE DEF call
<1>3. /\ guards' \in Seq(Handles)
      /\ live' = {guards'[i] : i \in DOMAIN guards'}
      /\ \A i, j \in DOMAIN guards' : guards'[i] = guards'[j] => i = j
      /\ guards' # <<>> => guards'[1] \in RootHandles
      /\ live \subseteq live'
      /\ live' = IF call.makes # None THEN live \cup {call.makes} ELSE live
  <2>1. CASE call.makes # None
    <3>1. Allocate(call.makes) /\ call.makes \in Handles \ live
          /\ (live = {} => call.makes \in RootHandles)
      BY <1>2, <2>1 DEF Succeed, Serves, call
    <3> QED
      BY <2>1, <3>1, HandlesAllocate DEF Allocate
  <2>2. CASE call.makes = None
    <3>1. live' = live /\ guards' = guards
      BY <2>2 DEF Succeed, call
    <3> QED
      BY <2>2, <3>1 DEF HandlesInv
  <2> QED
    BY <2>1, <2>2
<1>4. refers' \subseteq {"pipeline"} /\ refers' \subseteq live' /\ (refers' # {} => "config" \in live')
  <2>1. CASE call.fn = "config_set_pipeline"
    <3>1. refers' = {"pipeline"} /\ {"config", "pipeline"} \subseteq live
      BY <1>2, <2>1 DEF Succeed, Serves, call
    <3> QED
      BY <1>3, <3>1
  <2>2. CASE call.fn # "config_set_pipeline"
    <3>1. refers' = refers
      BY <2>2 DEF Succeed, call
    <3> QED
      BY <1>1, <1>3, <3>1 DEF HandlesInv
  <2> QED
    BY <2>1, <2>2
<1>5. calls' = Tail(calls) /\ Ready(Tail(calls), live')
  BY <1>1, <1>2, <1>3, ReadyTail DEF Succeed
<1>6. phase' \in {"calling", "returning"} /\ (phase' = "calling" <=> calls' # <<>>)
  BY <1>1, <1>5 DEF Succeed
<1>7. calls' \in Endings
  BY <1>2, <1>5
<1> QED
  BY <1>3, <1>4, <1>5, <1>6, <1>7 DEF HandlesInv

\* A call that fails leaves what it may have made to a guard.
LEMMA HandlesFail ==
  ASSUME HandlesInv, Fail
  PROVE  HandlesInv'
<1> DEFINE call == Head(calls)
<1>1. calls \in Endings /\ calls # <<>> /\ phase = "calling" /\ Ready(calls, live)
  BY DEF HandlesInv, Fail
<1>2. Serves(call, live)
  <2>1. call = calls[1] /\ Len(calls) \in Nat \ {0}
    BY <1>1, EndingFacts
  <2>2. Had(calls, live, 1) = live
    BY HadSteps
  <2> QED
    BY <1>1, <2>1, <2>2 DEF Ready
<1> HIDE DEF call
<1>3. /\ guards' \in Seq(Handles)
      /\ live' = {guards'[i] : i \in DOMAIN guards'}
      /\ \A i, j \in DOMAIN guards' : guards'[i] = guards'[j] => i = j
      /\ guards' # <<>> => guards'[1] \in RootHandles
      /\ live \subseteq live'
  <2>1. CASE call.makes # None /\ Allocate(call.makes)
    <3>1. call.makes \in Handles \ live /\ (live = {} => call.makes \in RootHandles)
      BY <1>2, <2>1 DEF Serves
    <3> QED
      BY <2>1, <3>1, HandlesAllocate DEF Allocate
  <2>2. CASE live' = live /\ guards' = guards
    BY <2>2 DEF HandlesInv
  <2> QED
    BY <2>1, <2>2 DEF Fail, call
<1>4. calls' = <<>> /\ phase' = "failing" /\ refers' = refers
  BY DEF Fail
<1>5. calls' \in Endings
  BY <1>4, EndingIn
<1> QED
  BY <1>3, <1>4, <1>5 DEF HandlesInv

\* What is left of the guards when one of them is dropped.
Distinct(s) == \A j, k \in DOMAIN s : s[j] = s[k] => j = k
Without(t, s, i) ==
  /\ t \in Seq(Handles)
  /\ {t[j] : j \in DOMAIN t} = {s[j] : j \in DOMAIN s} \ {s[i]}
  /\ Distinct(t)
  /\ t # <<>> /\ i # 1 => t[1] = s[1]
  /\ i = 1 /\ Len(s) = 1 => t = <<>>

\* Removing one of distinct handles removes that one alone.
LEMMA Dropped ==
  ASSUME NEW s \in Seq(Handles), NEW i \in DOMAIN s, Distinct(s)
  PROVE  Without(RemoveAt(s, i), s, i)
<1> DEFINE a == SubSeq(s, 1, i - 1)
           b == SubSeq(s, i + 1, Len(s))
           n == Len(s)
           t == RemoveAt(s, i)
<1>0. t = a \o b
  BY DEF RemoveAt
<1> HIDE DEF t
<1>1. n \in Nat /\ DOMAIN s = 1 .. n /\ i \in 1 .. n /\ \A j \in 1 .. n : s[j] \in Handles
  BY LenProperties, ElementOfSeq
<1>2. /\ a \in Seq(Handles) /\ Len(a) = i - 1 /\ \A j \in 1 .. i - 1 : a[j] = s[j]
  <2>1. \A j \in 1 .. i - 1 : s[j] \in Handles
    BY <1>1
  <2>2. /\ a \in Seq(Handles) /\ Len(a) = IF 1 <= i - 1 THEN i - 1 - 1 + 1 ELSE 0
        /\ \A j \in 1 .. i - 1 - 1 + 1 : a[j] = s[1 + j - 1]
    BY <1>1, <2>1, SubSeqProperties
  <2> QED
    BY <1>1, <2>2
<1>3. /\ b \in Seq(Handles) /\ Len(b) = n - i /\ \A j \in 1 .. n - i : b[j] = s[i + j]
  <2>1. \A j \in i + 1 .. n : s[j] \in Handles
    BY <1>1
  <2>2. /\ b \in Seq(Handles) /\ Len(b) = IF i + 1 <= n THEN n - (i + 1) + 1 ELSE 0
        /\ \A j \in 1 .. n - (i + 1) + 1 : b[j] = s[i + 1 + j - 1]
    BY <1>1, <2>1, SubSeqProperties
  <2>3. Len(b) = n - i
    BY <1>1, <2>2
  <2>4. ASSUME NEW j \in 1 .. n - i
        PROVE  b[j] = s[i + j]
    <3>1. j \in 1 .. n - (i + 1) + 1 /\ i + 1 + j - 1 = i + j
      BY <1>1
    <3>2. b[j] = s[i + 1 + j - 1]
      BY <2>2, <3>1
    <3> QED
      BY <3>1, <3>2
  <2> QED
    BY <2>2, <2>3, <2>4
<1>4. /\ t \in Seq(Handles) /\ Len(t) = n - 1 /\ DOMAIN t = 1 .. n - 1
      /\ \A j \in 1 .. n - 1 : t[j] = IF j < i THEN s[j] ELSE s[j + 1]
  <2> HIDE DEF a, b
  <2>0. a \in Seq(Handles) /\ b \in Seq(Handles)
    BY <1>2, <1>3
  <2>1. /\ t \in Seq(Handles) /\ Len(t) = Len(a) + Len(b)
        /\ \A j \in 1 .. Len(a) + Len(b) : t[j] = IF j <= Len(a) THEN a[j] ELSE b[j - Len(a)]
    BY <1>0, <2>0, ConcatProperties
  <2>2. Len(t) = n - 1
    BY <1>1, <1>2, <1>3, <2>1
  <2>3. ASSUME NEW j \in 1 .. n - 1
        PROVE  t[j] = IF j < i THEN s[j] ELSE s[j + 1]
    <3>1. CASE j < i
      <4>1. j \in 1 .. Len(a) + Len(b) /\ j <= Len(a) /\ j \in 1 .. i - 1
        BY <1>1, <1>2, <1>3, <3>1
      <4> QED
        BY <1>2, <2>1, <3>1, <4>1
    <3>2. CASE ~ (j < i)
      <4>1. /\ j \in 1 .. Len(a) + Len(b) /\ ~ (j <= Len(a)) /\ j - Len(a) \in 1 .. n - i
            /\ i + (j - Len(a)) = j + 1
        BY <1>1, <1>2, <1>3, <3>2
      <4> QED
        BY <1>3, <2>1, <3>2, <4>1
    <3> QED
      BY <3>1, <3>2
  <2> QED
    BY <2>1, <2>2, <2>3, LenProperties
<1> HIDE DEF a, b, n
<1>5. {t[j] : j \in DOMAIN t} = {s[j] : j \in DOMAIN s} \ {s[i]}
  <2>1. ASSUME NEW j \in DOMAIN t
        PROVE  \E k \in DOMAIN s : k # i /\ t[j] = s[k]
    <3>1. j \in DOMAIN s /\ j + 1 \in DOMAIN s
      BY <1>1, <1>4
    <3> QED
      BY <1>1, <1>4, <3>1 DEF Distinct
  <2>2. ASSUME NEW k \in DOMAIN s, k # i
        PROVE  \E j \in DOMAIN t : t[j] = s[k]
    <3>1. CASE k < i
      BY <1>1, <1>4, <3>1
    <3>2. CASE k > i
      <4>1. k - 1 \in DOMAIN t /\ ~ (k - 1 < i) /\ k - 1 + 1 = k
        BY <1>1, <1>4, <3>2
      <4> QED
        BY <1>4, <4>1
    <3> QED
      BY <1>1, <2>2, <3>1, <3>2
  <2> QED
    BY <2>1, <2>2 DEF Distinct
<1>6. Distinct(t)
  <2> SUFFICES ASSUME NEW j \in DOMAIN t, NEW k \in DOMAIN t, t[j] = t[k]
               PROVE  j = k
    BY DEF Distinct
  <2>1. j \in 1 .. n - 1 /\ k \in 1 .. n - 1 /\ j \in DOMAIN s /\ k \in DOMAIN s
        /\ j + 1 \in DOMAIN s /\ k + 1 \in DOMAIN s
    BY <1>1, <1>4
  <2> QED
    BY <1>1, <1>4, <2>1 DEF Distinct
<1>7. t # <<>> /\ i # 1 => t[1] = s[1]
  <2>1. t # <<>> /\ i # 1 => 1 \in 1 .. n - 1 /\ 1 < i
    BY <1>1, <1>4, EmptySeq
  <2> QED
    BY <1>4, <2>1
<1>8. i = 1 /\ n = 1 => t = <<>>
  BY <1>4, EmptySeq
<1> QED
  BY <1>4, <1>5, <1>6, <1>7, <1>8 DEF n, t, Without

\* A guard that is dropped destroys its handle, and no other.
LEMMA HandlesDrop ==
  ASSUME HandlesInv, Drop
  PROVE  HandlesInv'
<1>1. PICK i \in DOMAIN guards : guards[i] = NextGuard /\ guards' = RemoveAt(guards, i)
  BY DEF Drop
<1>2. /\ guards \in Seq(Handles) /\ DOMAIN guards = 1 .. Len(guards) /\ Len(guards) \in Nat
      /\ Distinct(guards)
  BY LenProperties DEF HandlesInv, Distinct
<1>3. Without(guards', guards, i)
  BY <1>1, <1>2, Dropped
<1>4. live' = {guards'[j] : j \in DOMAIN guards'}
  BY <1>1, <1>3 DEF Drop, HandlesInv, Without
<1>5. guards' # <<>> => guards'[1] \in RootHandles
  <2>1. i = 1 => Len(guards) = 1
    <3> SUFFICES ASSUME i = 1 PROVE Len(guards) = 1
      OBVIOUS
    <3>1. guards[1] \in RootHandles
      BY <1>2, EmptySeq DEF HandlesInv, Drop
    <3>2. NextGuard # "pipeline"
      BY <1>1, <3>1 DEF RootHandles
    <3>3. guards[Len(guards)] = guards[1] /\ Len(guards) \in DOMAIN guards
      BY <1>1, <1>2, <3>2 DEF NextGuard
    <3> QED
      BY <1>2, <3>3 DEF Distinct
  <2> QED
    BY <1>2, <1>3, <2>1 DEF HandlesInv, Drop, Without
<1>6. refers' \subseteq {"pipeline"} /\ (refers' # {} => "config" \in live')
  <2>1. CASE NextGuard = "config"
    BY <2>1 DEF Drop
  <2>2. CASE NextGuard # "config"
    BY <2>2 DEF Drop, HandlesInv
  <2> QED
    BY <2>1, <2>2
<1> QED
  BY <1>3, <1>4, <1>5, <1>6 DEF Drop, HandlesInv, Without, Distinct

\* A routine returns when its guards are gone.
LEMMA HandlesReturn ==
  ASSUME HandlesInv, guards = <<>>, Return, phase # "calling"
  PROVE  HandlesInv'
BY DEF HandlesInv, Return

\* Steps that call no routine leave the handles alone.
LEMMA HandlesStay ==
  ASSUME HandlesInv, UNCHANGED native
  PROVE  HandlesInv'
BY DEF HandlesInv, native, Ready, Serves, Had

\* The invariant of the handles implies what the runs check.
LEMMA HandlesHold == HandlesInv => HandlesSound /\ NativeTypeOK
<1> SUFFICES ASSUME HandlesInv PROVE HandlesSound /\ NativeTypeOK
  OBVIOUS
<1>1. live \subseteq Handles
  BY ElementOfSeq, LenProperties DEF HandlesInv
<1>2. guards = <<>> => live = {}
  BY DEF HandlesInv
<1>3. live # {} => guards # <<>> /\ guards[1] \in live
  BY EmptySeq, LenProperties DEF HandlesInv
<1>4. phase = "calling" /\ calls # <<>> =>
        /\ Head(calls).uses \subseteq live
        /\ Head(calls).explained => "context" \in live
        /\ Head(calls).fn = "model_fit" => refers \subseteq live
  <2> SUFFICES ASSUME phase = "calling", calls # <<>>
               PROVE  Serves(Head(calls), live) /\ refers \subseteq live
    BY DEF Serves
  <2>1. calls \in Endings /\ Ready(calls, live) /\ refers \subseteq live
    BY DEF HandlesInv
  <2>2. Head(calls) = calls[1] /\ Len(calls) \in Nat \ {0}
    BY <2>1, EndingFacts
  <2>3. Had(calls, live, 1) = live
    BY HadSteps
  <2> QED
    BY <2>1, <2>2, <2>3 DEF Ready
<1>5. HandlesSound
  BY <1>2, <1>3, <1>4 DEF HandlesInv, HandlesSound, RootHandles
<1>6. NativeTypeOK
  BY <1>1 DEF HandlesInv, NativeTypeOK, Endings, Ending
<1> QED
  BY <1>5, <1>6

-----------------------------------------------------------------------------
(* Induction: a set of numbers that holds zero and what follows each of its *)
(* elements holds them all, for what is left out would have a least one.    *)

\* A set of numbers has a least element.
LEMMA Least ==
  ASSUME NEW T \in SUBSET Nat, T # {}
  PROVE  \E m \in T : \A n \in T : m <= n
<1> DEFINE R == OpToRel(<, Nat)
<1>1. IsWellFoundedOn(R, Nat)
  BY NatLessThanWellFounded
<1>2. \A x, y \in Nat : x < y => <<x, y>> \in R
  BY DEF OpToRel
<1> HIDE DEF R
<1>3. PICK m \in T : \A y \in T : ~ (<<y, m>> \in R)
  BY <1>1, WFMin
<1>4. ASSUME NEW n \in T
      PROVE  m <= n
  <2>1. m \in Nat /\ n \in Nat
    OBVIOUS
  <2>2. ~ (n < m)
    BY <1>2, <1>3, <2>1
  <2> QED
    BY <2>1, <2>2
<1> QED
  BY <1>4

\* Induction over the numbers, for a set in the place of an operator.
LEMMA Induction ==
  ASSUME NEW S, 0 \in S, \A n \in Nat : n \in S => n + 1 \in S
  PROVE  Nat \subseteq S
<1> SUFFICES ASSUME ~ (Nat \subseteq S) PROVE FALSE
  OBVIOUS
<1> DEFINE T == Nat \ S
<1>1. T # {} /\ T \in SUBSET Nat
  OBVIOUS
<1> HIDE DEF T
<1>2. PICK m \in T : \A n \in T : m <= n
  BY <1>1, Least
<1>3. m \in Nat /\ m \notin S /\ m - 1 \notin T
  BY <1>2 DEF T
<1>4. m # 0 /\ m - 1 \in Nat
  BY <1>3
<1>5. m - 1 \in S
  BY <1>3, <1>4 DEF T
<1> QED
  BY <1>3, <1>4, <1>5

-----------------------------------------------------------------------------
(* The best variant. *)

IsBest(v, g) ==
  g = [i \in 1 .. Len(v) |-> IF i = 1 THEN v[1] ELSE Kept(g[i - 1], v[i])]

\* Best is defined on every list.
LEMMA BestExists ==
  ASSUME NEW v, Len(v) \in Nat
  PROVE  \E g : IsBest(v, g)
<1> DEFINE Upto(n, g) == g = [i \in 1 .. n |-> IF i = 1 THEN v[1] ELSE Kept(g[i - 1], v[i])]
           S == {n \in Nat : \E g : Upto(n, g)}
<1>1. 0 \in S
  <2> DEFINE g == [i \in 1 .. 0 |-> 0]
  <2>1. Upto(0, g)
    OBVIOUS
  <2> QED
    BY <2>1
<1>2. ASSUME NEW n \in Nat, n \in S
      PROVE  n + 1 \in S
  <2> PICK g : Upto(n, g)
    BY <1>2
  <2> DEFINE next == IF n + 1 = 1 THEN v[1] ELSE Kept(g[n], v[n + 1])
             h == [i \in 1 .. n + 1 |-> IF i <= n THEN g[i] ELSE next]
  <2>1. ASSUME NEW i \in 1 .. n + 1
        PROVE  h[i] = IF i = 1 THEN v[1] ELSE Kept(h[i - 1], v[i])
    <3> HIDE DEF next
    <3>1. CASE i <= n
      <4>1. h[i] = g[i] /\ i \in 1 .. n /\ (i # 1 => h[i - 1] = g[i - 1])
        BY <3>1
      <4>2. g[i] = IF i = 1 THEN v[1] ELSE Kept(g[i - 1], v[i])
        BY <4>1
      <4> HIDE DEF h
      <4> QED
        BY <4>1, <4>2
    <3>2. CASE i = n + 1
      <4>1. h[i] = next /\ (i # 1 => h[i - 1] = g[n])
        BY <3>2
      <4> HIDE DEF h
      <4> QED
        BY <4>1, <3>2 DEF next
    <3> QED
      BY <3>1, <3>2
  <2>2. Upto(n + 1, h)
    <3> DEFINE k == [i \in 1 .. n + 1 |-> IF i = 1 THEN v[1] ELSE Kept(h[i - 1], v[i])]
    <3>1. \A i \in 1 .. n + 1 : h[i] = k[i]
      <4> HIDE DEF h
      <4> QED
        BY <2>1
    <3>2. h = k
      <4>1. DOMAIN h = 1 .. n + 1 /\ h = [i \in 1 .. n + 1 |-> h[i]]
        OBVIOUS
      <4>2. DOMAIN k = 1 .. n + 1 /\ k = [i \in 1 .. n + 1 |-> k[i]]
        OBVIOUS
      <4> HIDE DEF h, k
      <4> QED
        BY <3>1, <4>1, <4>2
    <3> QED
      BY <3>2
  <2> HIDE DEF h
  <2> QED
    BY <2>2, SMTT(30)
<1>3. Len(v) \in S
  <2> HIDE DEF S
  <2>1. Nat \subseteq S
    BY <1>1, <1>2, Induction
  <2> QED
    BY <2>1
<1> QED
  BY <1>3 DEF IsBest

\* Best folds Kept over the list.
LEMMA BestIs ==
  ASSUME NEW v, Len(v) \in Nat
  PROVE  \E g : IsBest(v, g) /\ Best(v) = g[Len(v)]
<1> DEFINE g == CHOOSE f : IsBest(v, f)
<1>1. IsBest(v, g)
  BY BestExists
<1>2. Best(v) = g[Len(v)]
  BY DEF Best, IsBest
<1> HIDE DEF g
<1> QED
  BY <1>1, <1>2

\* b is the first of the best among the first n variants.
FirstBest(v, n, b) ==
  /\ v[1].rmse = NaN => b = v[1]
  /\ v[1].rmse # NaN =>
       \E i \in 1 .. n :
         /\ v[i].rmse # NaN /\ b = v[i]
         /\ \A j \in 1 .. n : v[j].rmse # NaN =>
              v[i].rmse <= v[j].rmse /\ (j < i => v[i].rmse < v[j].rmse)

\* Best gives the first variant of smallest error: min_by over partial_cmp.
LEMMA BestIsFirst ==
  ASSUME NEW v \in Variants, v # <<>>
  PROVE  FirstBest(v, Len(v), Best(v))
<1> PICK g : IsBest(v, g) /\ Best(v) = g[Len(v)]
  BY BestIs, LenProperties DEF Variants
<1>1. Len(v) \in Nat \ {0} /\ \A i \in 1 .. Len(v) : v[i].rmse \in {NaN, 1, 2}
  <2> DEFINE V == [components : Int, rmse : {NaN, 1, 2}]
  <2>1. v \in Seq(V) /\ \A x \in V : x.rmse \in {NaN, 1, 2}
    BY DEF Variants
  <2> HIDE DEF V
  <2> QED
    BY <2>1, EmptySeq, ElementOfSeq
<1> DEFINE S == {n \in Nat : n + 1 <= Len(v) => FirstBest(v, n + 1, g[n + 1])}
<1>2. 0 \in S
  <2>1. g[1] = v[1] /\ 1 .. 1 = {1}
    BY <1>1 DEF IsBest
  <2> QED
    BY <1>1, <2>1 DEF FirstBest
<1>3. ASSUME NEW n \in Nat, n \in S
      PROVE  n + 1 \in S
  <2> SUFFICES ASSUME n + 1 + 1 <= Len(v)
               PROVE  FirstBest(v, n + 1 + 1, g[n + 1 + 1])
    OBVIOUS
  <2> DEFINE m == n + 1
             b == g[m]
             c == v[m + 1]
  <2>1. FirstBest(v, m, b) /\ m \in Nat \ {0} /\ m \in 1 .. Len(v) /\ m + 1 \in 1 .. Len(v)
    BY <1>1, <1>3
  <2> HIDE DEF m
  <2>2. g[m + 1] = Kept(b, c)
    <3>1. m + 1 # 1 /\ m + 1 - 1 = m
      BY <2>1
    <3> QED
      BY <2>1, <3>1 DEF IsBest
  <2> HIDE DEF b
  <2>3. CASE v[1].rmse = NaN
    BY <2>1, <2>2, <2>3 DEF Kept, FirstBest, m
  <2>4. CASE v[1].rmse # NaN
    <3> PICK i \in 1 .. m :
               /\ v[i].rmse # NaN /\ b = v[i]
               /\ \A j \in 1 .. m : v[j].rmse # NaN =>
                    v[i].rmse <= v[j].rmse /\ (j < i => v[i].rmse < v[j].rmse)
      BY <2>1, <2>4 DEF FirstBest
    <3>0. i \in 1 .. m + 1 /\ i \in 1 .. Len(v) /\ \A j \in 1 .. m + 1 : j \in 1 .. m \/ j = m + 1
      BY <2>1, <1>1
    <3>1. CASE c.rmse # NaN /\ c.rmse < b.rmse
      <4>1. g[m + 1] = c
        BY <2>2, <3>1 DEF Kept
      <4>2. ASSUME NEW j \in 1 .. m + 1, v[j].rmse # NaN
            PROVE  c.rmse <= v[j].rmse /\ (j < m + 1 => c.rmse < v[j].rmse)
        <5>1. CASE j = m + 1
          BY <1>1, <2>1, <3>1, <5>1, <4>2
        <5>2. CASE j \in 1 .. m
          <6>1. b.rmse <= v[j].rmse
            BY <5>2, <4>2
          <6>2. b.rmse \in {1, 2} /\ c.rmse \in {1, 2} /\ v[j].rmse \in {1, 2}
            BY <1>1, <2>1, <3>0, <3>1, <4>2, <5>2
          <6> QED
            BY <3>1, <6>1, <6>2
        <5> QED
          BY <3>0, <5>1, <5>2
      <4>3. m + 1 \in 1 .. m + 1
        BY <2>1
      <4> QED
        BY <2>4, <3>1, <4>1, <4>2, <4>3 DEF FirstBest, m
    <3>2. CASE c.rmse = NaN \/ ~ (c.rmse < b.rmse)
      <4>1. g[m + 1] = b
        BY <2>2, <3>2 DEF Kept
      <4>2. ASSUME NEW j \in 1 .. m + 1, v[j].rmse # NaN
            PROVE  v[i].rmse <= v[j].rmse /\ (j < i => v[i].rmse < v[j].rmse)
        <5>1. CASE j = m + 1
          <6>1. ~ (j < i)
            BY <2>1, <5>1
          <6>2. b.rmse \in {1, 2} /\ c.rmse \in {1, 2}
            BY <1>1, <2>1, <3>0, <4>2, <5>1
          <6> QED
            BY <3>2, <4>2, <5>1, <6>1, <6>2
        <5>2. CASE j \in 1 .. m
          BY <4>2, <5>2
        <5> QED
          BY <3>0, <5>1, <5>2
      <4> QED
        BY <2>4, <3>0, <4>1, <4>2 DEF FirstBest, m
    <3> QED
      BY <3>1, <3>2
  <2> QED
    BY <2>3, <2>4 DEF m
<1>4. Len(v) - 1 \in S
  <2> HIDE DEF S
  <2>1. Nat \subseteq S
    BY <1>2, <1>3, Induction
  <2> QED
    BY <1>1, <2>1
<1> QED
  BY <1>1, <1>4

-----------------------------------------------------------------------------
(* Plans. *)

\* What Append does to a sequence.
LEMMA Appended ==
  ASSUME NEW s, IsSequence(s), NEW x
  PROVE  /\ IsSequence(Append(s, x)) /\ Len(Append(s, x)) = Len(s) + 1 /\ Len(s) \in Nat
         /\ DOMAIN s = 1 .. Len(s) /\ DOMAIN Append(s, x) = 1 .. Len(s) + 1
         /\ \A i \in 1 .. Len(s) : Append(s, x)[i] = s[i]
         /\ Append(s, x)[Len(s) + 1] = x
<1> DEFINE S == {s[i] : i \in DOMAIN s} \cup {x}
<1>1. s \in Seq(S) /\ x \in S
  BY SeqMonotonic DEF IsSequence
<1> HIDE DEF S
<1>2. Append(s, x) \in Seq(S)
  BY <1>1, AppendProperties
<1>3. IsSequence(Append(s, x))
  BY <1>2, Sequenced
<1> QED
  BY <1>1, <1>2, <1>3, AppendProperties, LenProperties

Reading(p) ==
  /\ DOMAIN p = {"ok", "splitter", "preprocessing", "model"}
  /\ IsSequence(p.preprocessing)
  /\ \A i \in DOMAIN p.preprocessing : IsStep(p.preprocessing[i])

\* What the reader does with one step of a pipeline.
LEMMA TakeCases ==
  ASSUME NEW plan, NEW step
  PROVE  \/ Take(plan, step) = Bad
         \/ \E x : Take(plan, step) = [plan EXCEPT !.splitter = x]
         \/ \E s : /\ Take(plan, step) = [plan EXCEPT !.preprocessing = Append(@, s)]
                   /\ IsStep(s)
         \/ Take(plan, step) = [plan EXCEPT !.model = step]
<1> DEFINE class == Get(step, "class")
           params == Get(step, "params")
           test == NumberParam(Get(params, "test_size"), Other("frac"))
<1>1. IsStep(Snv) /\ IsStep(Savgol(params))
  <2>1. IsStep(Savgol(params))
    <3> DEFINE sg == Savgol(params)
    <3>1. sg = [kind |-> "SavitzkyGolay", window_length |-> sg.window_length,
                polyorder |-> sg.polyorder, deriv |-> sg.deriv,
                mode |-> sg.mode, cval |-> sg.cval]
      BY DEF Savgol
    <3> QED
      BY <3>1 DEF IsStep
  <2> QED
    BY <2>1 DEF IsStep
<1>2. \/ Take(plan, step) = Bad
      \/ Take(plan, step) = [plan EXCEPT !.splitter = Num(test)]
      \/ Take(plan, step) = [plan EXCEPT !.preprocessing = Append(@, Snv)]
      \/ Take(plan, step) = [plan EXCEPT !.preprocessing = Append(@, Savgol(params))]
      \/ Take(plan, step) = [plan EXCEPT !.model = step]
  BY DEF Take
<1> QED
  BY <1>1, <1>2

\* The reader before its first step, and after a step it refuses.
LEMMA NothingRead == Reading(Empty) /\ Reading(Bad)
<1>1. /\ DOMAIN Empty = {"ok", "splitter", "preprocessing", "model"}
      /\ Empty.preprocessing = <<>>
  BY DEF Empty
<1>2. DOMAIN Bad = DOMAIN Empty /\ Bad.preprocessing = Empty.preprocessing
  BY DEF Bad
<1>3. IsSequence(<<>>) /\ DOMAIN <<>> = {}
  BY DEF IsSequence
<1> QED
  BY <1>1, <1>2, <1>3 DEF Reading

\* Every step read keeps the shape of what is read.
LEMMA TakeReads ==
  ASSUME NEW plan, Reading(plan), NEW step
  PROVE  Reading(Take(plan, step))
<1> DEFINE next == Take(plan, step)
<1>1. CASE next = Bad
  BY <1>1, NothingRead
<1>2. ASSUME NEW x, next = [plan EXCEPT !.splitter = x]
      PROVE  Reading(next)
  <2>1. DOMAIN next = DOMAIN plan /\ next.preprocessing = plan.preprocessing
    BY <1>2
  <2> QED
    BY <2>1 DEF Reading
<1>3. ASSUME NEW s, next = [plan EXCEPT !.preprocessing = Append(@, s)], IsStep(s)
      PROVE  Reading(next)
  <2> DEFINE t == Append(plan.preprocessing, s)
  <2>1. DOMAIN next = DOMAIN plan /\ next.preprocessing = t
    BY <1>3 DEF Reading
  <2>2. IsSequence(t) /\ \A i \in DOMAIN t : IsStep(t[i])
    <3>0. IsSequence(plan.preprocessing)
      BY DEF Reading
    <3>1. /\ IsSequence(t) /\ Len(plan.preprocessing) \in Nat
          /\ DOMAIN plan.preprocessing = 1 .. Len(plan.preprocessing)
          /\ DOMAIN t = 1 .. Len(plan.preprocessing) + 1
          /\ \A i \in 1 .. Len(plan.preprocessing) : t[i] = plan.preprocessing[i]
          /\ t[Len(plan.preprocessing) + 1] = s
      BY <3>0, Appended
    <3> HIDE DEF t
    <3>2. \A i \in DOMAIN t : i \in DOMAIN plan.preprocessing \/ i = Len(plan.preprocessing) + 1
      BY <3>1
    <3> QED
      BY <1>3, <3>1, <3>2 DEF Reading
  <2> HIDE DEF t
  <2> QED
    BY <2>1, <2>2 DEF Reading
<1>4. CASE next = [plan EXCEPT !.model = step]
  <2>1. DOMAIN next = DOMAIN plan /\ next.preprocessing = plan.preprocessing
    BY <1>4
  <2> QED
    BY <2>1 DEF Reading
<1> HIDE DEF next
<1> QED
  BY <1>1, <1>2, <1>3, <1>4, TakeCases DEF next

\* The plans after each of the items.
IsAfter(items, g) ==
  g = [i \in 0 .. Len(items) |-> IF i = 0 THEN Empty ELSE Take(g[i - 1], items[i])]

\* Reading is defined on every list of steps.
LEMMA AfterExists ==
  ASSUME NEW items, Len(items) \in Nat
  PROVE  \E g : IsAfter(items, g)
<1> DEFINE Upto(n, g) == g = [i \in 0 .. n |-> IF i = 0 THEN Empty ELSE Take(g[i - 1], items[i])]
           S == {n \in Nat : \E g : Upto(n, g)}
<1>1. 0 \in S
  <2> DEFINE g == [i \in 0 .. 0 |-> Empty]
             h == [i \in 0 .. 0 |-> IF i = 0 THEN Empty ELSE Take(g[i - 1], items[i])]
  <2>1. \A i \in 0 .. 0 : i = 0
    OBVIOUS
  <2>2. g = h
    BY <2>1
  <2>3. Upto(0, g)
    BY <2>2
  <2> QED
    BY <2>3
<1>2. ASSUME NEW n \in Nat, n \in S
      PROVE  n + 1 \in S
  <2> PICK g : Upto(n, g)
    BY <1>2
  <2> DEFINE next == Take(g[n], items[n + 1])
             h == [i \in 0 .. n + 1 |-> IF i <= n THEN g[i] ELSE next]
  <2>1. ASSUME NEW i \in 0 .. n + 1
        PROVE  h[i] = IF i = 0 THEN Empty ELSE Take(h[i - 1], items[i])
    <3> HIDE DEF next
    <3>1. CASE i <= n
      <4>1. h[i] = g[i] /\ i \in 0 .. n /\ (i # 0 => h[i - 1] = g[i - 1])
        BY <3>1
      <4>2. g[i] = IF i = 0 THEN Empty ELSE Take(g[i - 1], items[i])
        BY <4>1
      <4> HIDE DEF h
      <4> QED
        BY <4>1, <4>2
    <3>2. CASE i = n + 1
      <4>1. h[i] = next /\ h[i - 1] = g[n] /\ i # 0
        BY <3>2
      <4> HIDE DEF h
      <4> QED
        BY <4>1, <3>2 DEF next
    <3> QED
      BY <3>1, <3>2
  <2>2. Upto(n + 1, h)
    <3> DEFINE k == [i \in 0 .. n + 1 |-> IF i = 0 THEN Empty ELSE Take(h[i - 1], items[i])]
    <3>1. \A i \in 0 .. n + 1 : h[i] = k[i]
      <4> HIDE DEF h
      <4> QED
        BY <2>1
    <3>2. h = k
      <4>1. DOMAIN h = 0 .. n + 1 /\ h = [i \in 0 .. n + 1 |-> h[i]]
        OBVIOUS
      <4>2. DOMAIN k = 0 .. n + 1 /\ k = [i \in 0 .. n + 1 |-> k[i]]
        OBVIOUS
      <4> HIDE DEF h, k
      <4> QED
        BY <3>1, <4>1, <4>2
    <3> QED
      BY <3>2
  <2> HIDE DEF h
  <2> QED
    BY <2>2, SMTT(30)
<1>3. Len(items) \in S
  <2> HIDE DEF S
  <2>1. Nat \subseteq S
    BY <1>1, <1>2, Induction
  <2> QED
    BY <2>1
<1> QED
  BY <1>3 DEF IsAfter

\* Whatever the items are, what has been read of them is a list of steps.
LEMMA AfterReads ==
  ASSUME NEW items, Len(items) \in Nat, NEW g, IsAfter(items, g)
  PROVE  Reading(g[Len(items)])
<1> DEFINE S == {n \in Nat : n <= Len(items) => Reading(g[n])}
<1>1. 0 \in S
  <2> QED
    BY NothingRead DEF IsAfter
<1>2. ASSUME NEW n \in Nat, n \in S
      PROVE  n + 1 \in S
  <2> SUFFICES ASSUME n + 1 <= Len(items) PROVE Reading(g[n + 1])
    OBVIOUS
  <2>1. n \in 0 .. Len(items) /\ n + 1 \in 0 .. Len(items) /\ n + 1 # 0 /\ n + 1 - 1 = n
    OBVIOUS
  <2>2. Reading(g[n])
    BY <1>2, <2>1
  <2>3. g[n + 1] = Take(g[n], items[n + 1])
    BY <2>1 DEF IsAfter
  <2> QED
    BY <2>2, <2>3, TakeReads
<1>3. Len(items) \in S
  <2> HIDE DEF S
  <2>1. Nat \subseteq S
    BY <1>1, <1>2, Induction
  <2> QED
    BY <2>1
<1> QED
  BY <1>3

\* The numbers of components a model step is read for.
LEMMA ComponentsAre ==
  ASSUME NEW step, ReadsComponents(step)
  PROVE  Components(step) \in Seq(Int) /\ Components(step) # <<>>
<1>1. \A v : ReadsInt(v) => \A fallback \in Int : IntParam(v, fallback) \in Int
  BY WidthAssumption DEF ReadsInt, IntParam, I32
<1>2. CASE Has(step, "_range_")
  <2> DEFINE value(i) == IntParam(step.at["_range_"].items[i], 0)
             a == value(1)
             b == value(2)
             c == value(3)
             n == (b - a) \div c + 1
  <2>1. /\ a \in Int /\ a >= 1 /\ b \in Int /\ b >= 1 /\ c \in Int /\ c >= 1 /\ a <= b
    <3>1. \A i \in 1 .. 3 : ReadsInt(step.at["_range_"].items[i]) /\ value(i) >= 1
      BY <1>2 DEF ReadsComponents, ReadsSweep
    <3>2. value(1) <= value(2)
      BY <1>2 DEF ReadsComponents, ReadsSweep
    <3>3. 1 \in 1 .. 3 /\ 2 \in 1 .. 3 /\ 3 \in 1 .. 3
      OBVIOUS
    <3> QED
      BY <1>1, <3>1, <3>2, <3>3
  <2>2. Components(step) = Sweep(a, b, c)
    BY <1>2 DEF Components
  <2> HIDE DEF a, b, c
  <2>3. n \in Nat \ {0}
    <3>1. b - a \in Nat /\ c \in Nat \ {0}
      BY <2>1
    <3>2. \A x \in Nat, y \in Nat \ {0} : x \div y \in Nat
      OBVIOUS
    <3> QED
      BY <3>1, <3>2
  <2>4. Sweep(a, b, c) = [i \in 1 .. n |-> a + (i - 1) * c]
    BY DEF Sweep
  <2> HIDE DEF n
  <2> DEFINE e(i) == a + (i - 1) * c
  <2>5. \A i \in 1 .. n : e(i) \in Int
    BY <2>1
  <2>6. [i \in 1 .. n |-> e(i)] \in Seq(Int)
    <3> HIDE DEF e
    <3> QED
      BY <2>3, <2>5, IsASeq
  <2>7. [i \in 1 .. n |-> e(i)] # <<>>
    <3> HIDE DEF e
    <3> QED
      BY <2>3
  <2> QED
    BY <2>2, <2>4, <2>6, <2>7
<1>3. CASE ~Has(step, "_range_")
  <2> DEFINE value == Get(Get(step.at["model"], "params"), "n_components")
             n == IntParam(value, 2)
  <2>1. n \in Int
    BY <1>1, <1>3 DEF ReadsComponents
  <2>2. Components(step) = <<n>>
    BY <1>3 DEF Components
  <2> HIDE DEF n
  <2> QED
    BY <2>1, <2>2
<1> QED
  BY <1>2, <1>3

\* What parse_execution_plan accepts is a plan.
LEMMA ParseShape ==
  ASSUME NEW definition, Len(definition.at["pipeline"].items) \in Nat,
         Parse(definition) # Refused
  PROVE  PlanOk(Parse(definition))
<1> DEFINE items == definition.at["pipeline"].items
           g == CHOOSE f : IsAfter(items, f)
           read == g[Len(items)]
<1>0. Len(items) \in Nat
  BY Zenon
<1>1. IsAfter(items, g)
  BY AfterExists
<1>2. Reading(read)
  <2> HIDE DEF items, g
  <2>1. Len(items) \in Nat
    BY <1>0
  <2> QED
    BY <1>1, <2>1, AfterReads
<1>3. /\ ReadsComponents(read.model)
      /\ Parse(definition) =
           [splitter |-> read.splitter, preprocessing |-> read.preprocessing,
            n_components |-> Components(read.model)]
  BY ZenonT(60) DEF Parse, IsAfter
<1> HIDE DEF read
<1>4. Components(read.model) \in Seq(Int) /\ Components(read.model) # <<>>
  BY <1>3, ComponentsAre
<1> QED
  BY <1>2, <1>3, <1>4 DEF PlanOk, Reading

\* A function on the numbers up to n is a sequence of length n.
LEMMA Listing ==
  ASSUME NEW n \in Nat, NEW f, f = [i \in 1 .. n |-> f[i]]
  PROVE  IsSequence(f) /\ Len(f) = n /\ DOMAIN f = 1 .. n
<1> DEFINE S == {f[i] : i \in 1 .. n}
           e(i) == f[i]
<1>1. \A i \in 1 .. n : e(i) \in S
  OBVIOUS
<1>2. [i \in 1 .. n |-> e(i)] \in Seq(S)
  <2> HIDE DEF S, e
  <2> QED
    BY <1>1, IsASeq
<1>3. f \in Seq(S) /\ DOMAIN f = 1 .. n
  BY <1>2
<1> HIDE DEF S
<1>4. Len(f) \in Nat /\ DOMAIN f = 1 .. Len(f)
  BY <1>3, LenProperties
<1>5. Len(f) = n
  <2>1. 1 .. Len(f) = 1 .. n
    BY <1>3, <1>4
  <2>2. ~ (Len(f) < n)
    <3> SUFFICES ASSUME Len(f) < n PROVE FALSE
      OBVIOUS
    <3>1. n \in 1 .. n /\ n \notin 1 .. Len(f)
      BY <1>4
    <3> QED
      BY <2>1, <3>1
  <2>3. ~ (n < Len(f))
    <3> SUFFICES ASSUME n < Len(f) PROVE FALSE
      OBVIOUS
    <3>1. Len(f) \in 1 .. Len(f) /\ Len(f) \notin 1 .. n
      BY <1>4
    <3> QED
      BY <2>1, <3>1
  <2> QED
    BY <1>4, <2>2, <2>3
<1> QED
  BY <1>3, <1>5, Sequenced

\* What is kept of a list is a list.
Keeping(kept, item) == IF IsComment(item) THEN kept ELSE Append(kept, item)
AreKept(items, n, g) ==
  g = [i \in 0 .. n |-> IF i = 0 THEN <<>> ELSE Keeping(g[i - 1], items[i])]

\* Vec::retain gives a list, item by item.
LEMMA RetainedIs ==
  ASSUME NEW items, Len(items) \in Nat
  PROVE  /\ IsSequence(Retained(items))
         /\ \E g : AreKept(items, Len(items), g) /\ Retained(items) = g[Len(items)]
<1> DEFINE S == {n \in Nat : \E g : AreKept(items, n, g) /\ IsSequence(g[n])}
<1>1. 0 \in S
  <2> DEFINE g == [i \in 0 .. 0 |-> <<>>]
             h == [i \in 0 .. 0 |-> IF i = 0 THEN <<>> ELSE Keeping(g[i - 1], items[i])]
  <2>1. \A i \in 0 .. 0 : i = 0
    OBVIOUS
  <2>2. g = h
    BY <2>1
  <2>3. AreKept(items, 0, g)
    BY <2>2 DEF AreKept
  <2>4. IsSequence(g[0])
    BY DEF IsSequence
  <2> QED
    BY <2>3, <2>4
<1>2. ASSUME NEW n \in Nat, n \in S
      PROVE  n + 1 \in S
  <2> PICK g : AreKept(items, n, g) /\ IsSequence(g[n])
    BY <1>2
  <2> DEFINE next == Keeping(g[n], items[n + 1])
             h == [i \in 0 .. n + 1 |-> IF i <= n THEN g[i] ELSE next]
  <2>1. ASSUME NEW i \in 0 .. n + 1
        PROVE  h[i] = IF i = 0 THEN <<>> ELSE Keeping(h[i - 1], items[i])
    <3> HIDE DEF next
    <3>1. CASE i <= n
      <4>1. h[i] = g[i] /\ i \in 0 .. n /\ (i # 0 => h[i - 1] = g[i - 1])
        BY <3>1
      <4>2. g[i] = IF i = 0 THEN <<>> ELSE Keeping(g[i - 1], items[i])
        BY <4>1 DEF AreKept
      <4> HIDE DEF h
      <4> QED
        BY <4>1, <4>2
    <3>2. CASE i = n + 1
      <4>1. h[i] = next /\ h[i - 1] = g[n] /\ i # 0
        BY <3>2
      <4> HIDE DEF h
      <4> QED
        BY <4>1, <3>2 DEF next
    <3> QED
      BY <3>1, <3>2
  <2>2. AreKept(items, n + 1, h)
    <3> DEFINE k == [i \in 0 .. n + 1 |-> IF i = 0 THEN <<>> ELSE Keeping(h[i - 1], items[i])]
    <3>1. \A i \in 0 .. n + 1 : h[i] = k[i]
      <4> HIDE DEF h
      <4> QED
        BY <2>1
    <3>2. h = k
      <4>1. DOMAIN h = 0 .. n + 1 /\ h = [i \in 0 .. n + 1 |-> h[i]]
        OBVIOUS
      <4>2. DOMAIN k = 0 .. n + 1 /\ k = [i \in 0 .. n + 1 |-> k[i]]
        OBVIOUS
      <4> HIDE DEF h, k
      <4> QED
        BY <3>1, <4>1, <4>2
    <3> QED
      BY <3>2 DEF AreKept
  <2>3. IsSequence(h[n + 1])
    <3>1. h[n + 1] = next
      OBVIOUS
    <3>2. IsSequence(next)
      BY Appended DEF Keeping
    <3> HIDE DEF h, next
    <3> QED
      BY <3>1, <3>2
  <2> HIDE DEF h
  <2> QED
    BY <2>2, <2>3
<1>3. Len(items) \in S
  <2> HIDE DEF S
  <2>1. Nat \subseteq S
    BY <1>1, <1>2, Induction
  <2> QED
    BY <2>1
<1>4. \A g : AreKept(items, Len(items), g) => IsSequence(g[Len(items)])
  \* two functions with the same recursive definition are the same
  <2> SUFFICES ASSUME NEW g, AreKept(items, Len(items), g)
               PROVE  IsSequence(g[Len(items)])
    OBVIOUS
  <2> DEFINE T == {n \in Nat : n <= Len(items) => IsSequence(g[n])}
  <2>1. 0 \in T
    BY DEF IsSequence, AreKept
  <2>2. ASSUME NEW n \in Nat, n \in T
        PROVE  n + 1 \in T
    <3> SUFFICES ASSUME n + 1 <= Len(items) PROVE IsSequence(g[n + 1])
      OBVIOUS
    <3>1. n \in 0 .. Len(items) /\ n + 1 \in 0 .. Len(items) /\ n + 1 # 0 /\ n + 1 - 1 = n
      OBVIOUS
    <3>2. g[n + 1] = Keeping(g[n], items[n + 1])
      BY <3>1 DEF AreKept
    <3>3. IsSequence(g[n])
      BY <2>2, <3>1
    <3> QED
      BY <3>2, <3>3, Appended DEF Keeping
  <2>3. Len(items) \in T
    <3> HIDE DEF T
    <3>1. Nat \subseteq T
      BY <2>1, <2>2, Induction
    <3> QED
      BY <3>1
  <2> QED
    BY <2>3
<1> DEFINE kept == CHOOSE g : AreKept(items, Len(items), g)
<1>5. AreKept(items, Len(items), kept)
  BY <1>3
<1>6. Retained(items) = kept[Len(items)]
  BY DEF Retained, AreKept, Keeping
<1> HIDE DEF kept
<1> QED
  BY <1>4, <1>5, <1>6, Zenon

\* Stripped of its comments, a list of items is a list of items.
LEMMA StripList ==
  ASSUME NEW v, v.t = "arr", IsSequence(v.items)
  PROVE  StripComments(v).t = "arr" /\ IsSequence(StripComments(v).items)
<1>1. \E s : /\ StripComments(v) = Arr(s)
             /\ s = [i \in DOMAIN Retained(v.items) |-> s[i]]
  BY DEF StripComments, Stripped
<1> PICK s : StripComments(v) = Arr(s) /\ s = [i \in DOMAIN Retained(v.items) |-> s[i]]
  BY <1>1
<1>2. Len(v.items) \in Nat
  BY LenProperties DEF IsSequence
<1>3. IsSequence(Retained(v.items))
  BY <1>2, RetainedIs
<1> DEFINE n == Len(Retained(v.items))
           S == {s[i] : i \in 1 .. n}
           e(i) == s[i]
<1>4. n \in Nat /\ DOMAIN Retained(v.items) = 1 .. n
  BY <1>3, LenProperties DEF IsSequence
<1>5. \A i \in 1 .. n : e(i) \in S
  OBVIOUS
<1>6. [i \in 1 .. n |-> e(i)] \in Seq(S)
  <2> HIDE DEF S, e, n
  <2> QED
    BY <1>4, <1>5, IsASeq
<1>7. s \in Seq(S)
  BY <1>4, <1>6
<1>8. IsSequence(s)
  <2> HIDE DEF S
  <2> QED
    BY <1>7, Sequenced
<1> QED
  BY <1>8 DEF Arr

-----------------------------------------------------------------------------
(* Definitions: what is stripped of its comments has none. *)

\* Vec::retain keeps items that are no comments, and all of them if none is.
LEMMA RetainedItems ==
  ASSUME NEW items, IsSequence(items)
  PROVE  /\ IsSequence(Retained(items))
         /\ \A j \in DOMAIN Retained(items) :
              /\ ~IsComment(Retained(items)[j])
              /\ Retained(items)[j] \in {items[i] : i \in DOMAIN items}
         /\ (\A i \in DOMAIN items : ~IsComment(items[i])) => Retained(items) = items
<1> DEFINE n == Len(items)
           V == {items[i] : i \in DOMAIN items}
<1>1. n \in Nat /\ DOMAIN items = 1 .. n
  BY LenProperties DEF IsSequence
<1>2. IsSequence(Retained(items))
  BY <1>1, RetainedIs
<1> PICK g : AreKept(items, n, g) /\ Retained(items) = g[n]
  BY <1>1, RetainedIs
<1>3. g[0] = <<>> /\ \A i \in 1 .. n : g[i] = Keeping(g[i - 1], items[i])
  <2>1. 0 \in 0 .. n /\ \A i \in 1 .. n : i \in 0 .. n /\ i # 0
    BY <1>1
  <2> QED
    BY <2>1 DEF AreKept
<1> DEFINE Fine(s) == IsSequence(s) /\ \A j \in DOMAIN s : ~IsComment(s[j]) /\ s[j] \in V
           S == {i \in Nat : i <= n => Fine(g[i])}
<1>4. Fine(g[n])
  <2>1. 0 \in S
    <3>1. IsSequence(<<>>) /\ DOMAIN <<>> = {}
      BY DEF IsSequence
    <3> QED
      BY <1>3, <3>1
  <2>2. ASSUME NEW i \in Nat, i \in S
        PROVE  i + 1 \in S
    <3> SUFFICES ASSUME i + 1 <= n PROVE Fine(g[i + 1])
      OBVIOUS
    <3>1. i + 1 \in 1 .. n /\ i + 1 - 1 = i /\ i <= n
      BY <1>1
    <3>2. Fine(g[i]) /\ g[i + 1] = Keeping(g[i], items[i + 1]) /\ items[i + 1] \in V
      BY <1>1, <1>3, <2>2, <3>1
    <3> DEFINE s == g[i]
               x == items[i + 1]
    <3> HIDE DEF s, x, V
    <3>3. CASE IsComment(x)
      BY <3>2, <3>3 DEF Keeping, s, x
    <3>4. CASE ~IsComment(x)
      <4>1. /\ IsSequence(Append(s, x)) /\ Len(s) \in Nat
            /\ DOMAIN s = 1 .. Len(s) /\ DOMAIN Append(s, x) = 1 .. Len(s) + 1
            /\ \A j \in 1 .. Len(s) : Append(s, x)[j] = s[j]
            /\ Append(s, x)[Len(s) + 1] = x
        BY <3>2, Appended DEF s
      <4>2. \A j \in DOMAIN Append(s, x) : j \in DOMAIN s \/ j = Len(s) + 1
        BY <4>1
      <4>3. \A j \in DOMAIN Append(s, x) :
              ~IsComment(Append(s, x)[j]) /\ Append(s, x)[j] \in V
        BY <3>2, <3>4, <4>1, <4>2 DEF s, x
      <4>4. Fine(Append(s, x))
        BY <4>1, <4>3
      <4> QED
        BY <3>2, <3>4, <4>4 DEF Keeping, s, x
    <3> QED
      BY <3>3, <3>4
  <2>3. n \in S
    <3> HIDE DEF S
    <3> QED
      BY <1>1, <2>1, <2>2, Induction
  <2> QED
    BY <2>3
<1>5. ASSUME \A i \in DOMAIN items : ~IsComment(items[i])
      PROVE  Retained(items) = items
  <2> DEFINE T == {i \in Nat : i <= n => /\ IsSequence(g[i]) /\ Len(g[i]) = i
                                         /\ \A j \in 1 .. i : g[i][j] = items[j]}
  <2>1. 0 \in T
    <3>1. IsSequence(<<>>) /\ Len(<<>>) = 0 /\ \A j \in 1 .. 0 : FALSE
      BY DEF IsSequence
    <3> QED
      BY <1>3, <3>1
  <2>2. ASSUME NEW i \in Nat, i \in T
        PROVE  i + 1 \in T
    <3> SUFFICES ASSUME i + 1 <= n
                 PROVE  /\ IsSequence(g[i + 1]) /\ Len(g[i + 1]) = i + 1
                        /\ \A j \in 1 .. i + 1 : g[i + 1][j] = items[j]
      OBVIOUS
    <3> DEFINE s == g[i]
               x == items[i + 1]
    <3>1. i + 1 \in 1 .. n /\ i + 1 - 1 = i /\ i <= n
      BY <1>1
    <3>2. IsSequence(s) /\ Len(s) = i /\ \A j \in 1 .. i : s[j] = items[j]
      BY <2>2, <3>1
    <3>3. g[i + 1] = Append(s, x)
      <4>1. ~IsComment(x) /\ g[i + 1] = Keeping(s, x)
        BY <1>1, <1>3, <1>5, <3>1
      <4> QED
        BY <4>1 DEF Keeping
    <3> HIDE DEF s, x
    <3>4. /\ IsSequence(Append(s, x)) /\ Len(Append(s, x)) = i + 1
          /\ \A j \in 1 .. i : Append(s, x)[j] = s[j]
          /\ Append(s, x)[i + 1] = x
      BY <3>2, Appended
    <3>5. \A j \in 1 .. i + 1 : j \in 1 .. i \/ j = i + 1
      OBVIOUS
    <3> QED
      BY <3>2, <3>3, <3>4, <3>5 DEF x
  <2>3. n \in T
    <3> HIDE DEF T
    <3> QED
      BY <1>1, <2>1, <2>2, Induction
  <2> DEFINE r == g[n]
  <2>4. IsSequence(r) /\ Len(r) = n /\ \A j \in 1 .. n : r[j] = items[j]
    BY <1>1, <2>3
  <2> HIDE DEF r
  <2>5. r = [j \in 1 .. n |-> r[j]] /\ items = [j \in 1 .. n |-> items[j]]
    <3>1. \A s : IsSequence(s) => s = [j \in 1 .. Len(s) |-> s[j]]
      BY DEF IsSequence
    <3> QED
      BY <2>4, <3>1
  <2>6. r = items
    BY <2>4, <2>5
  <2> QED
    BY <2>6 DEF r
<1> QED
  BY <1>2, <1>4, <1>5

\* What a value is made of.
Contents(v) ==
  IF v.t = "arr" THEN {v.items[i] : i \in DOMAIN v.items}
  ELSE IF v.t = "obj" THEN {v.at[key] : key \in DOMAIN v.at} ELSE {}

\* w is v, one level of it stripped, with f for the levels below.
StrippedBy(v, w, f) ==
  /\ v.t = "arr" =>
       w = Arr([i \in DOMAIN Retained(v.items) |-> f[Retained(v.items)[i]]])
  /\ v.t = "obj" => w = Obj([key \in DOMAIN v.at \ {"_comment"} |-> f[v.at[key]]])
  /\ v.t \notin {"arr", "obj"} => w = v

\* One level is stripped once and for all if those below are.
LEMMA StrippedAgain ==
  ASSUME NEW v, NEW w, NEW f, StrippedBy(v, w, f), v.t = "arr" => IsSequence(v.items),
         \A x \in Contents(v) : f[f[x]] = f[x] /\ (IsComment(f[x]) => IsComment(x))
  PROVE  /\ StrippedBy(w, w, f)
         /\ w.t = "arr" => Retained(w.items) = w.items
         /\ IsComment(w) => IsComment(v)
<1>1. CASE v.t = "arr"
  <2> DEFINE r == Retained(v.items)
             s == [i \in DOMAIN r |-> f[r[i]]]
  <2>1. /\ IsSequence(r)
        /\ \A i \in DOMAIN r : ~IsComment(r[i]) /\ r[i] \in Contents(v)
    BY <1>1, RetainedItems DEF Contents
  <2> HIDE DEF r
  <2>2. w = Arr(s)
    BY <1>1 DEF StrippedBy, r
  <2>3. w.t = "arr" /\ w.items = s
    <3> HIDE DEF s
    <3> QED
      BY <2>2 DEF Arr
  <2>4. DOMAIN s = DOMAIN r /\ \A i \in DOMAIN s : ~IsComment(s[i]) /\ f[s[i]] = s[i]
    BY <2>1
  <2>5. IsSequence(s)
    <3>1. Len(r) \in Nat /\ DOMAIN r = 1 .. Len(r)
      BY <2>1, LenProperties DEF IsSequence
    <3>2. s = [i \in 1 .. Len(r) |-> s[i]]
      BY <3>1
    <3> HIDE DEF s
    <3> QED
      BY <3>1, <3>2, Listing
  <2>6. s = [i \in DOMAIN s |-> f[s[i]]]
    <3>1. s = [i \in DOMAIN s |-> s[i]]
      OBVIOUS
    <3> HIDE DEF s
    <3> QED
      BY <2>4, <3>1
  <2> HIDE DEF s
  <2>7. Retained(s) = s
    BY <2>4, <2>5, RetainedItems
  <2>8. StrippedBy(w, w, f)
    BY <2>2, <2>3, <2>6, <2>7, Zenon DEF StrippedBy
  <2> QED
    BY <2>3, <2>7, <2>8 DEF IsComment
<1>2. CASE v.t = "obj"
  <2> DEFINE D == DOMAIN v.at \ {"_comment"}
             h == [key \in D |-> f[v.at[key]]]
  <2>1. w = Obj(h)
    BY <1>2 DEF StrippedBy
  <2>2. w.t = "obj" /\ w.at = h
    <3> HIDE DEF h
    <3> QED
      BY <2>1 DEF Obj
  <2>3. DOMAIN h = D /\ D \ {"_comment"} = D /\ "_comment" \notin D
        /\ \A key \in D : f[h[key]] = h[key]
    BY <1>2 DEF Contents
  <2>4. h = [key \in D |-> f[h[key]]]
    <3>1. h = [key \in D |-> h[key]]
      OBVIOUS
    <3> HIDE DEF h
    <3> QED
      BY <2>3, <3>1
  <2> HIDE DEF h, D
  <2>5. w = Obj([key \in DOMAIN w.at \ {"_comment"} |-> f[w.at[key]]])
    BY <2>1, <2>2, <2>3, <2>4, Zenon
  <2>6. StrippedBy(w, w, f)
    BY <2>2, <2>5 DEF StrippedBy
  <2>7. ~IsComment(w)
    BY <2>2, <2>3 DEF IsComment
  <2> QED
    BY <2>2, <2>6, <2>7
<1>3. CASE v.t \notin {"arr", "obj"}
  <2>1. w = v
    BY <1>3 DEF StrippedBy
  <2> QED
    BY <1>3, <2>1
<1> QED
  BY <1>1, <1>2, <1>3

\* The levels of StripComments, from the deepest, and the values whose arrays
\* are lists down to a level.
Strip1(v) == Stripped(v, LAMBDA x : x)
Strip2(v) == Stripped(v, Strip1)
Strip3(v) == Stripped(v, Strip2)
Strip4(v) == Stripped(v, Strip3)
Strip5(v) == Stripped(v, Strip4)
Strip6(v) == Stripped(v, Strip5)

Lists1(v) == v.t = "arr" => IsSequence(v.items)
Lists2(v) == Lists1(v) /\ \A x \in Contents(v) : Lists1(x)
Lists3(v) == Lists1(v) /\ \A x \in Contents(v) : Lists2(x)
Lists4(v) == Lists1(v) /\ \A x \in Contents(v) : Lists3(x)
Lists5(v) == Lists1(v) /\ \A x \in Contents(v) : Lists4(x)
Lists6(v) == Lists1(v) /\ \A x \in Contents(v) : Lists5(x)

LEMMA Levels == \A v : StripComments(v) = Strip6(v)
BY DEF StripComments, StripItem, Strip1, Strip2, Strip3, Strip4, Strip5, Strip6

\* Every level strips for good: stripped again, a value stays.
LEMMA Again1 ==
  ASSUME NEW v, Lists1(v)
  PROVE  Strip1(Strip1(v)) = Strip1(v) /\ (IsComment(Strip1(v)) => IsComment(v))
<1> DEFINE w == Strip1(v)
           f == [x \in Contents(v) \cup Contents(w) |-> x]
<1>1. \A x \in Contents(v) : f[f[x]] = f[x] /\ (IsComment(f[x]) => IsComment(x))
  <2>1. ASSUME NEW x \in Contents(v)
        PROVE  x = x /\ (IsComment(x) => IsComment(x))
    OBVIOUS
  <2>2. \A x \in Contents(v) : f[x] = x /\ f[x] = x
    OBVIOUS
  <2> QED
    BY <2>1, <2>2
<1>2. \A x \in Contents(v) \cup Contents(w) : f[x] = x
  OBVIOUS
<1> HIDE DEF f
<1>3. ASSUME NEW u, \A x \in Contents(u) : f[x] = x,
             u.t = "arr" => \A i \in DOMAIN Retained(u.items) : Retained(u.items)[i] \in Contents(u)
      PROVE  StrippedBy(u, Strip1(u), f)
  <2>1. CASE u.t = "arr"
    <3> DEFINE r == Retained(u.items)
    <3>1. \A i \in DOMAIN r : f[r[i]] = r[i]
      BY <1>3, <2>1
    <3> HIDE DEF r
    <3>2. Strip1(u) = Arr([i \in DOMAIN r |-> r[i]])
      BY <2>1 DEF Strip1, Stripped, r
    <3>3. [i \in DOMAIN r |-> r[i]] = [i \in DOMAIN r |-> f[r[i]]]
      BY <3>1
    <3>4. Strip1(u) = Arr([i \in DOMAIN r |-> f[r[i]]])
      BY <3>2, <3>3, Zenon
    <3> QED
      BY <2>1, <3>4 DEF StrippedBy, r
  <2>2. CASE u.t = "obj"
    <3> DEFINE E == DOMAIN u.at \ {"_comment"}
    <3>1. \A key \in E : f[u.at[key]] = u.at[key]
      BY <1>3, <2>2 DEF Contents
    <3> HIDE DEF E
    <3>2. Strip1(u) = Obj([key \in E |-> u.at[key]])
      BY <2>2 DEF Strip1, Stripped, E
    <3>3. [key \in E |-> u.at[key]] = [key \in E |-> f[u.at[key]]]
      BY <3>1
    <3>4. Strip1(u) = Obj([key \in E |-> f[u.at[key]]])
      BY <3>2, <3>3, Zenon
    <3> QED
      BY <2>2, <3>4 DEF StrippedBy, E
  <2>3. CASE u.t \notin {"arr", "obj"}
    BY <2>3 DEF StrippedBy, Strip1, Stripped
  <2> QED
    BY <2>1, <2>2, <2>3
<1> HIDE DEF w
<1>4. StrippedBy(v, w, f) /\ (v.t = "arr" => IsSequence(v.items))
  <2>1. v.t = "arr" => IsSequence(v.items)
    BY DEF Lists1
  <2>2. v.t = "arr" => \A i \in DOMAIN Retained(v.items) : Retained(v.items)[i] \in Contents(v)
    BY <2>1, RetainedItems DEF Contents
  <2> QED
    BY <1>2, <1>3, <2>1, <2>2 DEF w
<1>5. /\ StrippedBy(w, w, f) /\ (w.t = "arr" => Retained(w.items) = w.items)
      /\ (IsComment(w) => IsComment(v))
  BY <1>1, <1>4, StrippedAgain
<1>6. StrippedBy(w, Strip1(w), f)
  <2>1. w.t = "arr" => \A i \in DOMAIN Retained(w.items) : Retained(w.items)[i] \in Contents(w)
    BY <1>5 DEF Contents
  <2> QED
    BY <1>2, <1>3, <2>1
<1>7. Strip1(w) = w
  BY <1>5, <1>6, Zenon DEF StrippedBy
<1> QED
  BY <1>5, <1>7 DEF w

LEMMA Again2 ==
  ASSUME NEW v, Lists2(v)
  PROVE  Strip2(Strip2(v)) = Strip2(v) /\ (IsComment(Strip2(v)) => IsComment(v))
<1> DEFINE w == Strip2(v)
           f == [x \in Contents(v) \cup Contents(w) \cup {Strip1(x) : x \in Contents(v)} |-> Strip1(x)]
<1>1. \A x \in Contents(v) : f[f[x]] = f[x] /\ (IsComment(f[x]) => IsComment(x))
  <2>1. ASSUME NEW x \in Contents(v)
        PROVE  Strip1(Strip1(x)) = Strip1(x) /\ (IsComment(Strip1(x)) => IsComment(x))
    BY Again1 DEF Lists2
  <2>2. \A x \in Contents(v) : f[x] = Strip1(x) /\ f[Strip1(x)] = Strip1(Strip1(x))
    OBVIOUS
  <2> QED
    BY <2>1, <2>2
<1>2. \A x \in Contents(v) \cup Contents(w) : f[x] = Strip1(x)
  OBVIOUS
<1> HIDE DEF f
<1>3. ASSUME NEW u, \A x \in Contents(u) : f[x] = Strip1(x),
             u.t = "arr" => \A i \in DOMAIN Retained(u.items) : Retained(u.items)[i] \in Contents(u)
      PROVE  StrippedBy(u, Strip2(u), f)
  <2>1. CASE u.t = "arr"
    <3> DEFINE r == Retained(u.items)
    <3>1. \A i \in DOMAIN r : f[r[i]] = Strip1(r[i])
      BY <1>3, <2>1
    <3> HIDE DEF r
    <3>2. Strip2(u) = Arr([i \in DOMAIN r |-> Strip1(r[i])])
      BY <2>1 DEF Strip2, Stripped, r
    <3>3. [i \in DOMAIN r |-> Strip1(r[i])] = [i \in DOMAIN r |-> f[r[i]]]
      BY <3>1
    <3>4. Strip2(u) = Arr([i \in DOMAIN r |-> f[r[i]]])
      BY <3>2, <3>3, Zenon
    <3> QED
      BY <2>1, <3>4 DEF StrippedBy, r
  <2>2. CASE u.t = "obj"
    <3> DEFINE E == DOMAIN u.at \ {"_comment"}
    <3>1. \A key \in E : f[u.at[key]] = Strip1(u.at[key])
      BY <1>3, <2>2 DEF Contents
    <3> HIDE DEF E
    <3>2. Strip2(u) = Obj([key \in E |-> Strip1(u.at[key])])
      BY <2>2 DEF Strip2, Stripped, E
    <3>3. [key \in E |-> Strip1(u.at[key])] = [key \in E |-> f[u.at[key]]]
      BY <3>1
    <3>4. Strip2(u) = Obj([key \in E |-> f[u.at[key]]])
      BY <3>2, <3>3, Zenon
    <3> QED
      BY <2>2, <3>4 DEF StrippedBy, E
  <2>3. CASE u.t \notin {"arr", "obj"}
    BY <2>3 DEF StrippedBy, Strip2, Stripped
  <2> QED
    BY <2>1, <2>2, <2>3
<1> HIDE DEF w
<1>4. StrippedBy(v, w, f) /\ (v.t = "arr" => IsSequence(v.items))
  <2>1. v.t = "arr" => IsSequence(v.items)
    BY DEF Lists2, Lists1
  <2>2. v.t = "arr" => \A i \in DOMAIN Retained(v.items) : Retained(v.items)[i] \in Contents(v)
    BY <2>1, RetainedItems DEF Contents
  <2> QED
    BY <1>2, <1>3, <2>1, <2>2 DEF w
<1>5. /\ StrippedBy(w, w, f) /\ (w.t = "arr" => Retained(w.items) = w.items)
      /\ (IsComment(w) => IsComment(v))
  BY <1>1, <1>4, StrippedAgain
<1>6. StrippedBy(w, Strip2(w), f)
  <2>1. w.t = "arr" => \A i \in DOMAIN Retained(w.items) : Retained(w.items)[i] \in Contents(w)
    BY <1>5 DEF Contents
  <2> QED
    BY <1>2, <1>3, <2>1
<1>7. Strip2(w) = w
  BY <1>5, <1>6, Zenon DEF StrippedBy
<1> QED
  BY <1>5, <1>7 DEF w

LEMMA Again3 ==
  ASSUME NEW v, Lists3(v)
  PROVE  Strip3(Strip3(v)) = Strip3(v) /\ (IsComment(Strip3(v)) => IsComment(v))
<1> DEFINE w == Strip3(v)
           f == [x \in Contents(v) \cup Contents(w) \cup {Strip2(x) : x \in Contents(v)} |-> Strip2(x)]
<1>1. \A x \in Contents(v) : f[f[x]] = f[x] /\ (IsComment(f[x]) => IsComment(x))
  <2>1. ASSUME NEW x \in Contents(v)
        PROVE  Strip2(Strip2(x)) = Strip2(x) /\ (IsComment(Strip2(x)) => IsComment(x))
    BY Again2 DEF Lists3
  <2>2. \A x \in Contents(v) : f[x] = Strip2(x) /\ f[Strip2(x)] = Strip2(Strip2(x))
    OBVIOUS
  <2> QED
    BY <2>1, <2>2
<1>2. \A x \in Contents(v) \cup Contents(w) : f[x] = Strip2(x)
  OBVIOUS
<1> HIDE DEF f
<1>3. ASSUME NEW u, \A x \in Contents(u) : f[x] = Strip2(x),
             u.t = "arr" => \A i \in DOMAIN Retained(u.items) : Retained(u.items)[i] \in Contents(u)
      PROVE  StrippedBy(u, Strip3(u), f)
  <2>1. CASE u.t = "arr"
    <3> DEFINE r == Retained(u.items)
    <3>1. \A i \in DOMAIN r : f[r[i]] = Strip2(r[i])
      BY <1>3, <2>1
    <3> HIDE DEF r
    <3>2. Strip3(u) = Arr([i \in DOMAIN r |-> Strip2(r[i])])
      BY <2>1 DEF Strip3, Stripped, r
    <3>3. [i \in DOMAIN r |-> Strip2(r[i])] = [i \in DOMAIN r |-> f[r[i]]]
      BY <3>1
    <3>4. Strip3(u) = Arr([i \in DOMAIN r |-> f[r[i]]])
      BY <3>2, <3>3, Zenon
    <3> QED
      BY <2>1, <3>4 DEF StrippedBy, r
  <2>2. CASE u.t = "obj"
    <3> DEFINE E == DOMAIN u.at \ {"_comment"}
    <3>1. \A key \in E : f[u.at[key]] = Strip2(u.at[key])
      BY <1>3, <2>2 DEF Contents
    <3> HIDE DEF E
    <3>2. Strip3(u) = Obj([key \in E |-> Strip2(u.at[key])])
      BY <2>2 DEF Strip3, Stripped, E
    <3>3. [key \in E |-> Strip2(u.at[key])] = [key \in E |-> f[u.at[key]]]
      BY <3>1
    <3>4. Strip3(u) = Obj([key \in E |-> f[u.at[key]]])
      BY <3>2, <3>3, Zenon
    <3> QED
      BY <2>2, <3>4 DEF StrippedBy, E
  <2>3. CASE u.t \notin {"arr", "obj"}
    BY <2>3 DEF StrippedBy, Strip3, Stripped
  <2> QED
    BY <2>1, <2>2, <2>3
<1> HIDE DEF w
<1>4. StrippedBy(v, w, f) /\ (v.t = "arr" => IsSequence(v.items))
  <2>1. v.t = "arr" => IsSequence(v.items)
    BY DEF Lists3, Lists1
  <2>2. v.t = "arr" => \A i \in DOMAIN Retained(v.items) : Retained(v.items)[i] \in Contents(v)
    BY <2>1, RetainedItems DEF Contents
  <2> QED
    BY <1>2, <1>3, <2>1, <2>2 DEF w
<1>5. /\ StrippedBy(w, w, f) /\ (w.t = "arr" => Retained(w.items) = w.items)
      /\ (IsComment(w) => IsComment(v))
  BY <1>1, <1>4, StrippedAgain
<1>6. StrippedBy(w, Strip3(w), f)
  <2>1. w.t = "arr" => \A i \in DOMAIN Retained(w.items) : Retained(w.items)[i] \in Contents(w)
    BY <1>5 DEF Contents
  <2> QED
    BY <1>2, <1>3, <2>1
<1>7. Strip3(w) = w
  BY <1>5, <1>6, Zenon DEF StrippedBy
<1> QED
  BY <1>5, <1>7 DEF w

LEMMA Again4 ==
  ASSUME NEW v, Lists4(v)
  PROVE  Strip4(Strip4(v)) = Strip4(v) /\ (IsComment(Strip4(v)) => IsComment(v))
<1> DEFINE w == Strip4(v)
           f == [x \in Contents(v) \cup Contents(w) \cup {Strip3(x) : x \in Contents(v)} |-> Strip3(x)]
<1>1. \A x \in Contents(v) : f[f[x]] = f[x] /\ (IsComment(f[x]) => IsComment(x))
  <2>1. ASSUME NEW x \in Contents(v)
        PROVE  Strip3(Strip3(x)) = Strip3(x) /\ (IsComment(Strip3(x)) => IsComment(x))
    BY Again3 DEF Lists4
  <2>2. \A x \in Contents(v) : f[x] = Strip3(x) /\ f[Strip3(x)] = Strip3(Strip3(x))
    OBVIOUS
  <2> QED
    BY <2>1, <2>2
<1>2. \A x \in Contents(v) \cup Contents(w) : f[x] = Strip3(x)
  OBVIOUS
<1> HIDE DEF f
<1>3. ASSUME NEW u, \A x \in Contents(u) : f[x] = Strip3(x),
             u.t = "arr" => \A i \in DOMAIN Retained(u.items) : Retained(u.items)[i] \in Contents(u)
      PROVE  StrippedBy(u, Strip4(u), f)
  <2>1. CASE u.t = "arr"
    <3> DEFINE r == Retained(u.items)
    <3>1. \A i \in DOMAIN r : f[r[i]] = Strip3(r[i])
      BY <1>3, <2>1
    <3> HIDE DEF r
    <3>2. Strip4(u) = Arr([i \in DOMAIN r |-> Strip3(r[i])])
      BY <2>1 DEF Strip4, Stripped, r
    <3>3. [i \in DOMAIN r |-> Strip3(r[i])] = [i \in DOMAIN r |-> f[r[i]]]
      BY <3>1
    <3>4. Strip4(u) = Arr([i \in DOMAIN r |-> f[r[i]]])
      BY <3>2, <3>3, Zenon
    <3> QED
      BY <2>1, <3>4 DEF StrippedBy, r
  <2>2. CASE u.t = "obj"
    <3> DEFINE E == DOMAIN u.at \ {"_comment"}
    <3>1. \A key \in E : f[u.at[key]] = Strip3(u.at[key])
      BY <1>3, <2>2 DEF Contents
    <3> HIDE DEF E
    <3>2. Strip4(u) = Obj([key \in E |-> Strip3(u.at[key])])
      BY <2>2 DEF Strip4, Stripped, E
    <3>3. [key \in E |-> Strip3(u.at[key])] = [key \in E |-> f[u.at[key]]]
      BY <3>1
    <3>4. Strip4(u) = Obj([key \in E |-> f[u.at[key]]])
      BY <3>2, <3>3, Zenon
    <3> QED
      BY <2>2, <3>4 DEF StrippedBy, E
  <2>3. CASE u.t \notin {"arr", "obj"}
    BY <2>3 DEF StrippedBy, Strip4, Stripped
  <2> QED
    BY <2>1, <2>2, <2>3
<1> HIDE DEF w
<1>4. StrippedBy(v, w, f) /\ (v.t = "arr" => IsSequence(v.items))
  <2>1. v.t = "arr" => IsSequence(v.items)
    BY DEF Lists4, Lists1
  <2>2. v.t = "arr" => \A i \in DOMAIN Retained(v.items) : Retained(v.items)[i] \in Contents(v)
    BY <2>1, RetainedItems DEF Contents
  <2> QED
    BY <1>2, <1>3, <2>1, <2>2 DEF w
<1>5. /\ StrippedBy(w, w, f) /\ (w.t = "arr" => Retained(w.items) = w.items)
      /\ (IsComment(w) => IsComment(v))
  BY <1>1, <1>4, StrippedAgain
<1>6. StrippedBy(w, Strip4(w), f)
  <2>1. w.t = "arr" => \A i \in DOMAIN Retained(w.items) : Retained(w.items)[i] \in Contents(w)
    BY <1>5 DEF Contents
  <2> QED
    BY <1>2, <1>3, <2>1
<1>7. Strip4(w) = w
  BY <1>5, <1>6, Zenon DEF StrippedBy
<1> QED
  BY <1>5, <1>7 DEF w

LEMMA Again5 ==
  ASSUME NEW v, Lists5(v)
  PROVE  Strip5(Strip5(v)) = Strip5(v) /\ (IsComment(Strip5(v)) => IsComment(v))
<1> DEFINE w == Strip5(v)
           f == [x \in Contents(v) \cup Contents(w) \cup {Strip4(x) : x \in Contents(v)} |-> Strip4(x)]
<1>1. \A x \in Contents(v) : f[f[x]] = f[x] /\ (IsComment(f[x]) => IsComment(x))
  <2>1. ASSUME NEW x \in Contents(v)
        PROVE  Strip4(Strip4(x)) = Strip4(x) /\ (IsComment(Strip4(x)) => IsComment(x))
    BY Again4 DEF Lists5
  <2>2. \A x \in Contents(v) : f[x] = Strip4(x) /\ f[Strip4(x)] = Strip4(Strip4(x))
    OBVIOUS
  <2> QED
    BY <2>1, <2>2
<1>2. \A x \in Contents(v) \cup Contents(w) : f[x] = Strip4(x)
  OBVIOUS
<1> HIDE DEF f
<1>3. ASSUME NEW u, \A x \in Contents(u) : f[x] = Strip4(x),
             u.t = "arr" => \A i \in DOMAIN Retained(u.items) : Retained(u.items)[i] \in Contents(u)
      PROVE  StrippedBy(u, Strip5(u), f)
  <2>1. CASE u.t = "arr"
    <3> DEFINE r == Retained(u.items)
    <3>1. \A i \in DOMAIN r : f[r[i]] = Strip4(r[i])
      BY <1>3, <2>1
    <3> HIDE DEF r
    <3>2. Strip5(u) = Arr([i \in DOMAIN r |-> Strip4(r[i])])
      BY <2>1 DEF Strip5, Stripped, r
    <3>3. [i \in DOMAIN r |-> Strip4(r[i])] = [i \in DOMAIN r |-> f[r[i]]]
      BY <3>1
    <3>4. Strip5(u) = Arr([i \in DOMAIN r |-> f[r[i]]])
      BY <3>2, <3>3, Zenon
    <3> QED
      BY <2>1, <3>4 DEF StrippedBy, r
  <2>2. CASE u.t = "obj"
    <3> DEFINE E == DOMAIN u.at \ {"_comment"}
    <3>1. \A key \in E : f[u.at[key]] = Strip4(u.at[key])
      BY <1>3, <2>2 DEF Contents
    <3> HIDE DEF E
    <3>2. Strip5(u) = Obj([key \in E |-> Strip4(u.at[key])])
      BY <2>2 DEF Strip5, Stripped, E
    <3>3. [key \in E |-> Strip4(u.at[key])] = [key \in E |-> f[u.at[key]]]
      BY <3>1
    <3>4. Strip5(u) = Obj([key \in E |-> f[u.at[key]]])
      BY <3>2, <3>3, Zenon
    <3> QED
      BY <2>2, <3>4 DEF StrippedBy, E
  <2>3. CASE u.t \notin {"arr", "obj"}
    BY <2>3 DEF StrippedBy, Strip5, Stripped
  <2> QED
    BY <2>1, <2>2, <2>3
<1> HIDE DEF w
<1>4. StrippedBy(v, w, f) /\ (v.t = "arr" => IsSequence(v.items))
  <2>1. v.t = "arr" => IsSequence(v.items)
    BY DEF Lists5, Lists1
  <2>2. v.t = "arr" => \A i \in DOMAIN Retained(v.items) : Retained(v.items)[i] \in Contents(v)
    BY <2>1, RetainedItems DEF Contents
  <2> QED
    BY <1>2, <1>3, <2>1, <2>2 DEF w
<1>5. /\ StrippedBy(w, w, f) /\ (w.t = "arr" => Retained(w.items) = w.items)
      /\ (IsComment(w) => IsComment(v))
  BY <1>1, <1>4, StrippedAgain
<1>6. StrippedBy(w, Strip5(w), f)
  <2>1. w.t = "arr" => \A i \in DOMAIN Retained(w.items) : Retained(w.items)[i] \in Contents(w)
    BY <1>5 DEF Contents
  <2> QED
    BY <1>2, <1>3, <2>1
<1>7. Strip5(w) = w
  BY <1>5, <1>6, Zenon DEF StrippedBy
<1> QED
  BY <1>5, <1>7 DEF w

LEMMA Again6 ==
  ASSUME NEW v, Lists6(v)
  PROVE  Strip6(Strip6(v)) = Strip6(v) /\ (IsComment(Strip6(v)) => IsComment(v))
<1> DEFINE w == Strip6(v)
           f == [x \in Contents(v) \cup Contents(w) \cup {Strip5(x) : x \in Contents(v)} |-> Strip5(x)]
<1>1. \A x \in Contents(v) : f[f[x]] = f[x] /\ (IsComment(f[x]) => IsComment(x))
  <2>1. ASSUME NEW x \in Contents(v)
        PROVE  Strip5(Strip5(x)) = Strip5(x) /\ (IsComment(Strip5(x)) => IsComment(x))
    BY Again5 DEF Lists6
  <2>2. \A x \in Contents(v) : f[x] = Strip5(x) /\ f[Strip5(x)] = Strip5(Strip5(x))
    OBVIOUS
  <2> QED
    BY <2>1, <2>2
<1>2. \A x \in Contents(v) \cup Contents(w) : f[x] = Strip5(x)
  OBVIOUS
<1> HIDE DEF f
<1>3. ASSUME NEW u, \A x \in Contents(u) : f[x] = Strip5(x),
             u.t = "arr" => \A i \in DOMAIN Retained(u.items) : Retained(u.items)[i] \in Contents(u)
      PROVE  StrippedBy(u, Strip6(u), f)
  <2>1. CASE u.t = "arr"
    <3> DEFINE r == Retained(u.items)
    <3>1. \A i \in DOMAIN r : f[r[i]] = Strip5(r[i])
      BY <1>3, <2>1
    <3> HIDE DEF r
    <3>2. Strip6(u) = Arr([i \in DOMAIN r |-> Strip5(r[i])])
      BY <2>1 DEF Strip6, Stripped, r
    <3>3. [i \in DOMAIN r |-> Strip5(r[i])] = [i \in DOMAIN r |-> f[r[i]]]
      BY <3>1
    <3>4. Strip6(u) = Arr([i \in DOMAIN r |-> f[r[i]]])
      BY <3>2, <3>3, Zenon
    <3> QED
      BY <2>1, <3>4 DEF StrippedBy, r
  <2>2. CASE u.t = "obj"
    <3> DEFINE E == DOMAIN u.at \ {"_comment"}
    <3>1. \A key \in E : f[u.at[key]] = Strip5(u.at[key])
      BY <1>3, <2>2 DEF Contents
    <3> HIDE DEF E
    <3>2. Strip6(u) = Obj([key \in E |-> Strip5(u.at[key])])
      BY <2>2 DEF Strip6, Stripped, E
    <3>3. [key \in E |-> Strip5(u.at[key])] = [key \in E |-> f[u.at[key]]]
      BY <3>1
    <3>4. Strip6(u) = Obj([key \in E |-> f[u.at[key]]])
      BY <3>2, <3>3, Zenon
    <3> QED
      BY <2>2, <3>4 DEF StrippedBy, E
  <2>3. CASE u.t \notin {"arr", "obj"}
    BY <2>3 DEF StrippedBy, Strip6, Stripped
  <2> QED
    BY <2>1, <2>2, <2>3
<1> HIDE DEF w
<1>4. StrippedBy(v, w, f) /\ (v.t = "arr" => IsSequence(v.items))
  <2>1. v.t = "arr" => IsSequence(v.items)
    BY DEF Lists6, Lists1
  <2>2. v.t = "arr" => \A i \in DOMAIN Retained(v.items) : Retained(v.items)[i] \in Contents(v)
    BY <2>1, RetainedItems DEF Contents
  <2> QED
    BY <1>2, <1>3, <2>1, <2>2 DEF w
<1>5. /\ StrippedBy(w, w, f) /\ (w.t = "arr" => Retained(w.items) = w.items)
      /\ (IsComment(w) => IsComment(v))
  BY <1>1, <1>4, StrippedAgain
<1>6. StrippedBy(w, Strip6(w), f)
  <2>1. w.t = "arr" => \A i \in DOMAIN Retained(w.items) : Retained(w.items)[i] \in Contents(w)
    BY <1>5 DEF Contents
  <2> QED
    BY <1>2, <1>3, <2>1
<1>7. Strip6(w) = w
  BY <1>5, <1>6, Zenon DEF StrippedBy
<1> QED
  BY <1>5, <1>7 DEF w

\* Opened adds to values what they are made of.
LEMMA OpenedIs ==
  ASSUME NEW S, NEW v \in S
  PROVE  v \in Opened(S) /\ \A x \in Contents(v) : x \in Opened(S)
<1>1. \A u : Contents(u) = IF u.t = "arr" THEN {u.items[i] : i \in DOMAIN u.items}
                           ELSE IF u.t = "obj" THEN {u.at[key] : key \in DOMAIN u.at} ELSE {}
  BY DEF Contents
<1>2. Opened(S) = S \cup UNION {Contents(u) : u \in S}
  BY <1>1 DEF Opened
<1> QED
  BY <1>2

\* The pipeline of a text, if it is an array, is one of lists.
LEMMA TextLists ==
  ASSUME NEW text \in Texts
  PROVE  LET p == Normalized(text).at["pipeline"]
         IN Normalized(text) # Refused /\ p.t = "arr" => Lists6(p)
<1> DEFINE O1 == Opened(Texts)
           O2 == Opened(O1)
           O3 == Opened(O2)
           O4 == Opened(O3)
           O5 == Opened(O4)
           O6 == Opened(O5)
           p == Normalized(text).at["pipeline"]
<1>1. \A v \in O6 : Lists1(v)
  <2>1. \A v \in O6 : v.t = "arr" => v.items \in Seq({v.items[i] : i \in DOMAIN v.items})
    BY TextsAssumption, Zenon
  <2> HIDE DEF O6
  <2> QED
    BY <2>1, Sequenced DEF Lists1, IsSequence
<1> SUFFICES ASSUME Normalized(text) # Refused PROVE p \in Opened(Texts) /\ \A v \in O1 : Lists6(v)
  BY DEF O1
<1>2. p \in O1
  <2>1. CASE text.t = "arr"
    <3>1. Normalized(text) = Obj([key \in {"pipeline"} |-> text])
      <4>1. ~Has(text, "pipeline") /\ ~Has(text, "steps")
        BY <2>1 DEF Has
      <4> QED
        BY <2>1, <4>1 DEF Normalized
    <3>2. p = [key \in {"pipeline"} |-> text]["pipeline"]
      BY <3>1 DEF Obj
    <3>3. p = text
      BY <3>2
    <3> QED
      BY <3>3, OpenedIs
  <2>2. CASE text.t # "arr"
    <3>1. text.t = "obj" /\ \E key \in DOMAIN text.at : p = text.at[key]
      <4>1. CASE Has(text, "pipeline")
        <5>1. Normalized(text) = text
          BY <2>2, <4>1 DEF Normalized
        <5> QED
          BY <4>1, <5>1 DEF Has
      <4>2. CASE ~Has(text, "pipeline") /\ Has(text, "steps")
        <5> DEFINE at == [key \in (DOMAIN text.at \ {"steps"}) \cup {"pipeline"} |->
                            IF key = "pipeline" THEN text.at["steps"] ELSE text.at[key]]
        <5>1. p = text.at["steps"]
          <6>1. Normalized(text) = Obj(at)
            BY <2>2, <4>2 DEF Normalized
          <6>2. at["pipeline"] = text.at["steps"]
            OBVIOUS
          <6> HIDE DEF at
          <6> QED
            BY <6>1, <6>2 DEF Obj
        <5> QED
          BY <4>2, <5>1 DEF Has
      <4>3. CASE ~Has(text, "pipeline") /\ ~Has(text, "steps")
        BY <2>2, <4>3 DEF Normalized
      <4> QED
        BY <4>1, <4>2, <4>3
    <3>2. p \in Contents(text)
      BY <3>1 DEF Contents
    <3> QED
      BY <3>2, OpenedIs
  <2> QED
    BY <2>1, <2>2
<1> HIDE DEF O6, p
<1>3. \A v \in O5 : Lists2(v) /\ Lists1(v)
  BY <1>1, OpenedIs DEF O6, Lists2
<1> HIDE DEF O5
<1>4. \A v \in O4 : Lists3(v) /\ Lists1(v)
  BY <1>3, OpenedIs DEF O5, Lists3
<1> HIDE DEF O4
<1>5. \A v \in O3 : Lists4(v) /\ Lists1(v)
  BY <1>4, OpenedIs DEF O4, Lists4
<1> HIDE DEF O3
<1>6. \A v \in O2 : Lists5(v) /\ Lists1(v)
  BY <1>5, OpenedIs DEF O3, Lists5
<1> HIDE DEF O2
<1>7. \A v \in O1 : Lists6(v)
  BY <1>6, OpenedIs DEF O2, Lists6
<1> QED
  BY <1>2, <1>7

\* What is refused by none of its readers, and what its readers get.
ReadsText(text) ==
  /\ text.t # "refused" /\ Normalized(text) # Refused
  /\ Normalized(text).at["pipeline"].t = "arr"
Allowed == PortableClasses \cup Resolvable

\* load_pipeline_definition_str accepts an array of supported classes, and
\* what it gives it accepts again, as it is.
LEMMA LoadIs ==
  ASSUME NEW text \in Texts
  PROVE  LET d == LoadDefinition(text)
         IN  /\ d # Refused <=> ReadsText(text) /\ Classes(Arr(Steps(text))) \subseteq Allowed
             /\ d # Refused => /\ d.t = "obj" /\ d.at["pipeline"] = Arr(Steps(text))
                               /\ LoadDefinition(d) = d /\ IsSequence(Steps(text))
<1> DEFINE root == IF text.t = "refused" THEN text ELSE Normalized(text)
           p == root.at["pipeline"]
           w == StripComments(p)
           at == [root.at EXCEPT !["pipeline"] = w]
           d == LoadDefinition(text)
           Supported(v) == \A name \in Classes(v) :
                             name \in IF name \in RoleTokens THEN Resolvable ELSE PortableClasses
<1>1. \A v : Supported(v) <=> Classes(v) \subseteq Allowed
  BY RolesAssumption, ClassesAssumption DEF Allowed
<1> HIDE DEF Supported
<1>2. Normalized(text) # Refused => /\ Normalized(text).t = "obj"
                                   /\ "pipeline" \in DOMAIN Normalized(text).at
  BY DEF Normalized, Has, Obj
<1>3. root.t = "obj" /\ Get(root, "pipeline").t = "arr" <=> ReadsText(text)
  <2>1. CASE text.t = "refused"
    BY <2>1 DEF ReadsText
  <2>2. CASE text.t # "refused"
    <3>1. root = Normalized(text) /\ (Normalized(text) = Refused => root.t # "obj")
      BY <2>2 DEF Refused
    <3> QED
      BY <1>2, <2>2, <3>1 DEF ReadsText, Get, Has
  <2> QED
    BY <2>1, <2>2
<1>4. d = IF /\ root.t = "obj" /\ Get(root, "pipeline").t = "arr"
             /\ Supported(Obj(at).at["pipeline"])
          THEN Obj(at) ELSE Refused
  BY DEF LoadDefinition, Load, Supported
<1>5. Obj(at) # Refused /\ Obj(at).t = "obj" /\ Obj(at).at = at
  BY DEF Obj, Refused
<1>6. ASSUME ReadsText(text)
      PROVE  /\ root = Normalized(text) /\ Obj(at).at["pipeline"] = w /\ w = Arr(Steps(text))
             /\ StripComments(w) = w /\ IsSequence(Steps(text)) /\ "pipeline" \in DOMAIN root.at
  <2>1. root = Normalized(text) /\ "pipeline" \in DOMAIN root.at /\ p.t = "arr"
    BY <1>2, <1>6 DEF ReadsText
  <2>2. at["pipeline"] = w
    BY <2>1
  <2>3. Lists6(p)
    BY <1>6, <2>1, TextLists DEF ReadsText
  <2>4. \E s : w = Arr(s)
    BY <2>1 DEF StripComments, Stripped
  <2>5. w = Arr(w.items)
    BY <2>4 DEF Arr
  <2>6. w.items = Steps(text)
    BY <2>1 DEF Steps
  <2>7. StripComments(w) = w
    BY <2>3, Levels, Again6
  <2>8. IsSequence(w.items)
    BY <2>1, <2>3, StripList DEF Lists6, Lists1
  <2> HIDE DEF w, at
  <2> QED
    BY <1>5, <2>1, <2>2, <2>5, <2>6, <2>7, <2>8
<1>7. ASSUME d # Refused
      PROVE  LoadDefinition(d) = d
  <2> DEFINE D == Obj(at)
  <2>1. d = D /\ ReadsText(text) /\ Supported(D.at["pipeline"])
    BY <1>3, <1>4, <1>7
  <2>2. /\ D.t = "obj" /\ D.at = at /\ "pipeline" \in DOMAIN D.at /\ D.at["pipeline"] = w
        /\ w.t = "arr" /\ StripComments(w) = w
    BY <1>5, <1>6, <2>1 DEF Arr
  <2>3. [D.at EXCEPT !["pipeline"] = w] = D.at
    <3>1. at = [key \in DOMAIN at |-> at[key]]
      OBVIOUS
    <3> HIDE DEF at, w
    <3> QED
      BY <2>2, <3>1
  <2>4. D = Obj(D.at)
    BY <1>5
  <2> HIDE DEF D, w, at
  <2>5. Normalized(D) = D /\ Get(D, "pipeline") = w
    BY <2>2 DEF Normalized, Get, Has
  <2>6. Obj([D.at EXCEPT !["pipeline"] = StripComments(D.at["pipeline"])]) = D
    BY <2>2, <2>3, <2>4
  <2>7. LoadDefinition(D) = D
    <3>1. D.t # "refused"
      BY <2>2
    <3>2. LoadDefinition(D) =
            IF D.t = "obj" /\ Get(D, "pipeline").t = "arr" /\ Supported(D.at["pipeline"])
            THEN D ELSE Refused
      BY <2>5, <2>6, <3>1 DEF LoadDefinition, Load, Supported
    <3> QED
      BY <2>1, <2>2, <2>5, <3>2
  <2> QED
    BY <2>1, <2>7
<1> HIDE DEF root, w, at, p
<1>8. d # Refused <=> ReadsText(text) /\ Supported(Obj(at).at["pipeline"])
  BY <1>3, <1>4, <1>5
<1>9. d # Refused => d = Obj(at)
  BY <1>4
<1> HIDE DEF d
<1>10. d # Refused <=> ReadsText(text) /\ Classes(Arr(Steps(text))) \subseteq Allowed
  BY <1>1, <1>6, <1>8
<1> QED
  BY <1>5, <1>6, <1>7, <1>8, <1>9, <1>10 DEF d

\* A definition has one plan, and it is a plan.
LEMMA KnownPlans ==
  ASSUME NEW k \in Known
  PROVE  /\ k.plan # Refused => PlanOk(k.plan)
         /\ PlanOf(k.definition) = k.plan
         /\ [definition |-> k.definition, plan |-> k.plan] \in Known
<1>1. \A q \in Known : q.plan = Plan(q.definition)
  BY DEF Known
<1>2. PlanOf(k.definition) = k.plan
  BY <1>1 DEF PlanOf
<1>3. ASSUME k.plan # Refused
      PROVE  PlanOk(k.plan)
  <2> PICK text \in Used : k = [definition |-> LoadDefinition(text),
                                plan |-> Plan(LoadDefinition(text))]
    BY DEF Known
  <2> DEFINE d == LoadDefinition(text)
  <2>1. k.plan = IF LoadDefinition(d) = Refused THEN Refused ELSE Parse(LoadDefinition(d))
    BY DEF Plan
  <2>2. text \in Texts
    BY SessionAssumption
  <2>3. d # Refused
    <3>1. LoadDefinition(Refused) = Refused
      BY DEF LoadDefinition, Load, Refused
    <3> HIDE DEF d
    <3> QED
      BY <1>3, <2>1, <3>1
  <2>4. LoadDefinition(d) = d /\ d.at["pipeline"] = Arr(Steps(text)) /\ IsSequence(Steps(text))
    BY <2>2, <2>3, LoadIs
  <2> HIDE DEF d
  <2>5. Len(d.at["pipeline"].items) \in Nat
    BY <2>4, LenProperties DEF Arr, IsSequence
  <2> QED
    BY <1>3, <2>1, <2>3, <2>4, <2>5, ParseShape
<1> QED
  BY <1>2, <1>3 DEF Known

-----------------------------------------------------------------------------
(* Plans mean what the definition says. *)

\* What a step before the model may be, and what the model may be.
Splits(step) == ClassOf(step) = Str(SplitterClass)
Preprocesses(step) == ClassOf(step) \in {Str(SnvClass), Str(SavgolClass)}
StepOf(step) ==
  IF ClassOf(step) = Str(SnvClass) THEN Snv ELSE Savgol(Get(step, "params"))
Middle(step) ==
  /\ step.t = "obj" /\ ~Has(step, "model")
  /\ Splits(step) \/ Preprocesses(step)
  /\ ClassOf(step) = Str(SavgolClass) => ReadsSavgol(Get(step, "params"))
  /\ Splits(step) => ReadsNumber(Get(Get(step, "params"), "test_size"))
Models(step) == step.t = "obj" /\ ~Has(step, "class") /\ Get(step, "model").t = "obj"

IsPlan(plan) ==
  DOMAIN plan = {"ok", "splitter", "preprocessing", "model"} /\ plan.ok \in BOOLEAN
IsOpen(plan) == plan.ok /\ plan.model = Absent
IsDone(plan) == plan.ok /\ plan.model # Absent

\* No class of the portable subset has two meanings.
LEMMA ClassesDiffer ==
  SplitterClass # SnvClass /\ SplitterClass # SavgolClass /\ SnvClass # SavgolClass
<1>1. ASSUME NEW a, NEW b, NEW c
      PROVE  Cardinality({a, b, c}) # 4
  <2>1. IsFiniteSet({c}) /\ Cardinality({c}) = 1
    BY FS_Singleton
  <2>2. {b, c} = {c} \cup {b} /\ {a, b, c} = {b, c} \cup {a}
    OBVIOUS
  <2>3. IsFiniteSet({b, c}) /\ Cardinality({b, c}) \in {1, 2}
    BY <2>1, <2>2, FS_AddElement
  <2>4. Cardinality({a, b, c}) \in {1, 2, 3}
    BY <2>2, <2>3, FS_AddElement
  <2> QED
    BY <2>4
<1>2. ASSUME SplitterClass = SnvClass \/ SplitterClass = SavgolClass \/ SnvClass = SavgolClass
      PROVE  \E a, b, c : PortableClasses = {a, b, c}
  <2>1. \/ PortableClasses = {SnvClass, SavgolClass, PlsClass}
        \/ PortableClasses = {SplitterClass, SnvClass, PlsClass}
    BY <1>2 DEF PortableClasses
  <2> QED
    BY <2>1
<1> QED
  BY <1>1, <1>2, ClassesAssumption

\* What the names of a step say of it.
LEMMA StepFacts ==
  ASSUME NEW step
  PROVE  /\ Splits(step) \/ Preprocesses(step) => Has(step, "class") /\ step.t = "obj" /\ ~IsRole(step)
         /\ step.t = "obj" /\ ~Has(step, "class") => ~IsRole(step) /\ ClassOf(step) = Absent
         /\ Get(step, "model").t = "obj" => Has(step, "model")
         /\ ~(Splits(step) /\ Preprocesses(step))
         /\ ClassOf(step) = Absent => ~Splits(step) /\ ~Preprocesses(step)
<1>1. \A a, b : Str(a) = Str(b) => a = b
  BY DEF Str
<1>2. \A a : Str(a).t = "str" /\ Absent.t = "absent"
  BY DEF Str, Absent
<1>3. \A key : ~Has(step, key) => Get(step, key) = Absent
  BY DEF Get
<1>4. Has(step, "class") => step.t = "obj"
  BY DEF Has
<1>5. Splits(step) \/ Preprocesses(step) => ClassOf(step).t = "str"
  BY <1>2 DEF Splits, Preprocesses
<1>6. Splits(step) \/ Preprocesses(step) => Has(step, "class")
  BY <1>2, <1>3, <1>5 DEF ClassOf
<1>7. \A c \in PortableClasses : ClassOf(step) = Str(c) /\ step.t = "obj" => ~IsRole(step)
  BY <1>1, <1>2, ClassesAssumption DEF IsRole, ClassOf
<1>8. Splits(step) \/ Preprocesses(step) => \E c \in PortableClasses : ClassOf(step) = Str(c)
  BY DEF Splits, Preprocesses, PortableClasses
<1>9. step.t = "obj" /\ ~Has(step, "class") => ~IsRole(step) /\ ClassOf(step) = Absent
  BY <1>2, <1>3 DEF IsRole, ClassOf
<1>10. Get(step, "model").t = "obj" => Has(step, "model")
  BY <1>2, <1>3
<1>11. ~(Splits(step) /\ Preprocesses(step))
  BY <1>1, ClassesDiffer DEF Splits, Preprocesses
<1>12. ClassOf(step) = Absent => ~Splits(step) /\ ~Preprocesses(step)
  BY <1>2, <1>5
<1> QED
  BY <1>4, <1>6, <1>7, <1>8, <1>9, <1>10, <1>11, <1>12

\* What the reader makes of a step.
LEMMA TakeIs ==
  ASSUME NEW plan, IsPlan(plan), NEW step
  PROVE  LET p == Take(plan, step)
         IN  /\ IsPlan(p)
             /\ IsOpen(p) <=> /\ IsOpen(plan) /\ Middle(step)
                              /\ Splits(step) => plan.splitter = Absent
             /\ IsOpen(p) =>
                  /\ p.splitter = Absent <=> plan.splitter = Absent /\ ~Splits(step)
                  /\ p.preprocessing = IF Preprocesses(step)
                                       THEN Append(plan.preprocessing, StepOf(step))
                                       ELSE plan.preprocessing
             /\ IsDone(p) <=> IsOpen(plan) /\ Models(step)
             /\ IsDone(p) => p.model = step /\ p.preprocessing = plan.preprocessing
<1> DEFINE class == Get(step, "class")
           params == Get(step, "params")
           test == Num(NumberParam(Get(params, "test_size"), Other("frac")))
           p == Take(plan, step)
           readable == /\ plan.ok /\ plan.model = Absent
                       /\ ~IsRole(step) /\ step.t = "obj"
                       /\ ~(Has(step, "class") /\ Has(step, "model"))
           tested == ReadsNumber(Get(params, "test_size"))
<1>1. IsPlan(Bad) /\ ~Bad.ok
  BY DEF Bad, Empty, IsPlan
<1>2. /\ Splits(step) <=> class = Str(SplitterClass)
      /\ Preprocesses(step) <=> class = Str(SnvClass) \/ class = Str(SavgolClass)
      /\ ~(class = Str(SnvClass) /\ class = Str(SavgolClass))
  BY ClassesDiffer DEF Splits, Preprocesses, ClassOf, Str
<1>3. p = IF ~readable THEN Bad
          ELSE IF class = Str(SplitterClass)
          THEN IF plan.splitter = Absent /\ tested THEN [plan EXCEPT !.splitter = test] ELSE Bad
          ELSE IF class = Str(SnvClass)
          THEN [plan EXCEPT !.preprocessing = Append(@, Snv)]
          ELSE IF class = Str(SavgolClass)
          THEN IF ReadsSavgol(params) THEN [plan EXCEPT !.preprocessing = Append(@, Savgol(params))]
               ELSE Bad
          ELSE IF Get(step, "model").t = "obj" THEN [plan EXCEPT !.model = step] ELSE Bad
  <2> DEFINE model == Get(step, "model").t = "obj"
             splitter == class = Str(SplitterClass)
             snv == class = Str(SnvClass)
             savgol == class = Str(SavgolClass)
  <2>1. readable /\ (splitter \/ snv \/ savgol) => ~model
    BY <1>2, StepFacts
  <2>2. ~(splitter /\ snv) /\ ~(splitter /\ savgol) /\ ~(snv /\ savgol)
    BY <1>2, StepFacts
  <2>3. p = IF ~readable THEN Bad ELSE
            CASE splitter /\ plan.splitter = Absent /\ tested -> [plan EXCEPT !.splitter = test]
              [] snv -> [plan EXCEPT !.preprocessing = Append(@, Snv)]
              [] savgol /\ ReadsSavgol(params) ->
                   [plan EXCEPT !.preprocessing = Append(@, Savgol(params))]
              [] model -> [plan EXCEPT !.model = step]
              [] OTHER -> Bad
    BY Zenon DEF Take
  <2> HIDE DEF p, readable, splitter, snv, savgol, model, test, tested
  <2>4. p = IF ~readable THEN Bad
            ELSE IF splitter
            THEN IF plan.splitter = Absent /\ tested THEN [plan EXCEPT !.splitter = test] ELSE Bad
            ELSE IF snv THEN [plan EXCEPT !.preprocessing = Append(@, Snv)]
            ELSE IF savgol
            THEN IF ReadsSavgol(params)
                 THEN [plan EXCEPT !.preprocessing = Append(@, Savgol(params))] ELSE Bad
            ELSE IF model THEN [plan EXCEPT !.model = step] ELSE Bad
    <3>1. CASE ~readable
      BY <2>3, <3>1
    <3>2. CASE readable /\ splitter
      BY <2>1, <2>2, <2>3, <3>2
    <3>3. CASE readable /\ snv
      BY <2>1, <2>2, <2>3, <3>3
    <3>4. CASE readable /\ savgol
      BY <2>1, <2>2, <2>3, <3>4
    <3>5. CASE readable /\ ~splitter /\ ~snv /\ ~savgol
      BY <2>3, <3>5
    <3> QED
      BY <3>1, <3>2, <3>3, <3>4, <3>5
  <2> QED
    BY <2>4, Zenon DEF splitter, snv, savgol, model
<1>4. /\ \A x : /\ IsPlan([plan EXCEPT !.splitter = x])
                /\ [plan EXCEPT !.splitter = x].ok = plan.ok
                /\ [plan EXCEPT !.splitter = x].model = plan.model
                /\ [plan EXCEPT !.splitter = x].splitter = x
                /\ [plan EXCEPT !.splitter = x].preprocessing = plan.preprocessing
      /\ \A x : /\ IsPlan([plan EXCEPT !.preprocessing = Append(@, x)])
                /\ [plan EXCEPT !.preprocessing = Append(@, x)].ok = plan.ok
                /\ [plan EXCEPT !.preprocessing = Append(@, x)].model = plan.model
                /\ [plan EXCEPT !.preprocessing = Append(@, x)].splitter = plan.splitter
                /\ [plan EXCEPT !.preprocessing = Append(@, x)].preprocessing =
                     Append(plan.preprocessing, x)
      /\ \A x : /\ IsPlan([plan EXCEPT !.model = x])
                /\ [plan EXCEPT !.model = x].ok = plan.ok
                /\ [plan EXCEPT !.model = x].model = x
                /\ [plan EXCEPT !.model = x].splitter = plan.splitter
                /\ [plan EXCEPT !.model = x].preprocessing = plan.preprocessing
  BY DEF IsPlan
<1>5. test # Absent /\ (step.t = "obj" => step # Absent)
  BY DEF Absent, Num
<1>6. /\ readable <=> /\ IsOpen(plan) /\ ~IsRole(step) /\ step.t = "obj"
                      /\ ~(Has(step, "class") /\ Has(step, "model"))
      /\ Middle(step) <=>
           /\ step.t = "obj" /\ ~Has(step, "model") /\ (Splits(step) \/ Preprocesses(step))
           /\ class = Str(SavgolClass) => ReadsSavgol(params)
           /\ Splits(step) => tested
      /\ StepOf(step) = IF class = Str(SnvClass) THEN Snv ELSE Savgol(params)
  BY DEF Middle, StepOf, ClassOf, IsOpen
<1>7. plan.ok \in BOOLEAN
  BY DEF IsPlan
<1> HIDE DEF p, test, tested, readable, params, class
<1>8. CASE ~readable
  <2>1. ~(IsOpen(plan) /\ Middle(step)) /\ ~(IsOpen(plan) /\ Models(step))
    BY <1>6, <1>8, StepFacts DEF Models
  <2> QED
    BY <1>1, <1>3, <1>8, <2>1 DEF IsOpen, IsDone, p
<1>9. CASE readable /\ Splits(step)
  <2>1. IsOpen(plan) /\ ~Models(step) /\ ~Preprocesses(step) /\ (Middle(step) <=> tested)
    BY <1>2, <1>6, <1>9, StepFacts DEF Models
  <2>2. p = IF plan.splitter = Absent /\ tested THEN [plan EXCEPT !.splitter = test] ELSE Bad
    BY <1>2, <1>3, <1>9
  <2> QED
    BY <1>1, <1>4, <1>5, <1>9, <2>1, <2>2 DEF IsOpen, IsDone, p
<1>10. CASE readable /\ Preprocesses(step)
  <2>1. /\ IsOpen(plan) /\ ~Models(step) /\ ~Splits(step)
        /\ Middle(step) <=> (class = Str(SavgolClass) => ReadsSavgol(params))
    BY <1>6, <1>10, StepFacts DEF Models
  <2>2. p = IF class = Str(SavgolClass) /\ ~ReadsSavgol(params) THEN Bad
            ELSE [plan EXCEPT !.preprocessing = Append(@, StepOf(step))]
    BY <1>2, <1>3, <1>6, <1>10, <2>1
  <2>3. CASE class = Str(SavgolClass) /\ ~ReadsSavgol(params)
    <3>1. p = Bad /\ ~Middle(step)
      BY <2>1, <2>2, <2>3
    <3> QED
      BY <1>1, <2>1, <3>1 DEF IsOpen, IsDone, p
  <2>4. CASE ~(class = Str(SavgolClass) /\ ~ReadsSavgol(params))
    <3> DEFINE s == StepOf(step)
    <3>1. p = [plan EXCEPT !.preprocessing = Append(@, s)] /\ Middle(step)
      BY <2>1, <2>2, <2>4
    <3> HIDE DEF s
    <3>2. /\ IsPlan(p) /\ p.ok = plan.ok /\ p.model = plan.model /\ p.splitter = plan.splitter
          /\ p.preprocessing = Append(plan.preprocessing, s)
      BY <1>4, <3>1
    <3> QED
      BY <1>10, <2>1, <3>1, <3>2 DEF IsOpen, IsDone, p, s
  <2> QED
    BY <2>3, <2>4, Zenon
<1>11. CASE readable /\ ~Splits(step) /\ ~Preprocesses(step)
  <2>1. IsOpen(plan) /\ ~Middle(step) /\ (Models(step) <=> Get(step, "model").t = "obj")
    BY <1>6, <1>11, StepFacts DEF Models
  <2>2. p = IF Get(step, "model").t = "obj" THEN [plan EXCEPT !.model = step] ELSE Bad
    BY <1>2, <1>3, <1>11
  <2>3. step # Absent
    BY <1>5, <1>6, <1>11
  <2> QED
    BY <1>1, <1>4, <2>1, <2>2, <2>3 DEF IsOpen, IsDone, p
<1> QED
  BY <1>8, <1>9, <1>10, <1>11, Zenon

\* A finite set has at most one element when no two of them differ.
LEMMA AtMostOne ==
  ASSUME NEW S, IsFiniteSet(S)
  PROVE  Cardinality(S) <= 1 <=> \A a, b \in S : a = b
<1>1. ASSUME NEW a \in S, NEW b \in S, a # b
      PROVE  ~(Cardinality(S) <= 1)
  <2>1. IsFiniteSet({a}) /\ Cardinality({a}) = 1
    BY FS_Singleton
  <2>2. Cardinality({a, b}) = 2
    <3>1. b \notin {a} /\ {a, b} = {a} \cup {b}
      BY <1>1
    <3> QED
      BY <2>1, <3>1, FS_AddElement
  <2>3. Cardinality({a, b}) <= Cardinality(S) /\ Cardinality(S) \in Nat
    BY FS_Subset, FS_CardinalityType
  <2> QED
    BY <2>2, <2>3
<1>2. ASSUME \A a, b \in S : a = b
      PROVE  Cardinality(S) <= 1
  <2>1. CASE S = {}
    BY <2>1, FS_EmptySet
  <2>2. CASE S # {}
    <3> PICK a \in S : TRUE
      BY <2>2
    <3>1. S = {a}
      BY <1>2
    <3> QED
      BY <3>1, FS_Singleton
  <2> QED
    BY <2>1, <2>2
<1> QED
  BY <1>1, <1>2

\* The preprocessing steps among the first n, and whether what has been read
\* of the first n steps is a plan still open.
StepsKept(items, n) == {i \in 1 .. n : Preprocesses(items[i])}
Readable(items, n) ==
  /\ \A i \in 1 .. n : Middle(items[i])
  /\ \A i, j \in 1 .. n : Splits(items[i]) /\ Splits(items[j]) => i = j
ReadAt(items, n, plan) ==
  /\ IsPlan(plan)
  /\ IsOpen(plan) <=> Readable(items, n)
  /\ IsOpen(plan) =>
       /\ plan.splitter = Absent <=> \A i \in 1 .. n : ~Splits(items[i])
       /\ IsSequence(plan.preprocessing)
       /\ Len(plan.preprocessing) = Cardinality(StepsKept(items, n))
       /\ \A i \in StepsKept(items, n) :
            plan.preprocessing[Cardinality(StepsKept(items, i))] = StepOf(items[i])

\* How many preprocessing steps there are, a step more.
LEMMA KeptNext ==
  ASSUME NEW items, NEW n \in Nat
  PROVE  /\ IsFiniteSet(StepsKept(items, n)) /\ Cardinality(StepsKept(items, n)) \in Nat
         /\ Preprocesses(items[n + 1]) =>
              /\ StepsKept(items, n + 1) = StepsKept(items, n) \cup {n + 1}
              /\ Cardinality(StepsKept(items, n + 1)) = Cardinality(StepsKept(items, n)) + 1
         /\ ~Preprocesses(items[n + 1]) => StepsKept(items, n + 1) = StepsKept(items, n)
         /\ \A i \in StepsKept(items, n) :
              Cardinality(StepsKept(items, i)) \in 1 .. Cardinality(StepsKept(items, n))
<1>1. ASSUME NEW m \in Nat
      PROVE  IsFiniteSet(StepsKept(items, m)) /\ Cardinality(StepsKept(items, m)) \in Nat
  <2>1. IsFiniteSet(1 .. m)
    BY FS_Interval
  <2>2. StepsKept(items, m) \subseteq 1 .. m
    BY DEF StepsKept
  <2> QED
    BY <2>1, <2>2, FS_Subset, FS_CardinalityType
<1>2. 1 .. n + 1 = (1 .. n) \cup {n + 1}
  OBVIOUS
<1>3. ASSUME Preprocesses(items[n + 1])
      PROVE  /\ StepsKept(items, n + 1) = StepsKept(items, n) \cup {n + 1}
             /\ Cardinality(StepsKept(items, n + 1)) = Cardinality(StepsKept(items, n)) + 1
  <2>1. StepsKept(items, n + 1) = StepsKept(items, n) \cup {n + 1}
    BY <1>2, <1>3 DEF StepsKept
  <2>2. n + 1 \notin StepsKept(items, n)
    BY DEF StepsKept
  <2> QED
    BY <1>1, <2>1, <2>2, FS_AddElement
<1>4. ~Preprocesses(items[n + 1]) => StepsKept(items, n + 1) = StepsKept(items, n)
  BY <1>2 DEF StepsKept
<1>5. ASSUME NEW i \in StepsKept(items, n)
      PROVE  Cardinality(StepsKept(items, i)) \in 1 .. Cardinality(StepsKept(items, n))
  <2>1. i \in 1 .. n /\ i \in Nat /\ i \in StepsKept(items, i) /\ StepsKept(items, i) \subseteq StepsKept(items, n)
    BY DEF StepsKept
  <2>2. Cardinality(StepsKept(items, i)) <= Cardinality(StepsKept(items, n))
    BY <1>1, <2>1, FS_Subset
  <2>3. Cardinality(StepsKept(items, i)) # 0
    BY <1>1, <2>1, FS_EmptySet
  <2> QED
    BY <1>1, <2>1, <2>2, <2>3
<1> QED
  BY <1>1, <1>3, <1>4, <1>5

\* One more step is read.
LEMMA ReadNext ==
  ASSUME NEW items, NEW n \in Nat, NEW plan, ReadAt(items, n, plan)
  PROVE  ReadAt(items, n + 1, Take(plan, items[n + 1]))
<1> DEFINE p == Take(plan, items[n + 1])
           step == items[n + 1]
<1>1. /\ IsPlan(p)
      /\ IsOpen(p) <=> /\ IsOpen(plan) /\ Middle(step)
                       /\ Splits(step) => plan.splitter = Absent
      /\ IsOpen(p) =>
           /\ p.splitter = Absent <=> plan.splitter = Absent /\ ~Splits(step)
           /\ p.preprocessing = IF Preprocesses(step)
                                THEN Append(plan.preprocessing, StepOf(step))
                                ELSE plan.preprocessing
  BY TakeIs DEF ReadAt
<1> HIDE DEF p
<1>2. \A i : i \in 1 .. n + 1 <=> i \in 1 .. n \/ i = n + 1
  OBVIOUS
<1>3. IsOpen(p) <=> Readable(items, n + 1)
  <2>1. Readable(items, n + 1) <=>
          /\ Readable(items, n) /\ Middle(step)
          /\ Splits(step) => \A i \in 1 .. n : ~Splits(items[i])
    <3>1. ASSUME Readable(items, n + 1)
          PROVE  /\ Readable(items, n) /\ Middle(step)
                 /\ Splits(step) => \A i \in 1 .. n : ~Splits(items[i])
      <4>1. \A i \in 1 .. n : i # n + 1
        OBVIOUS
      <4> QED
        BY <1>2, <3>1, <4>1 DEF Readable
    <3>2. ASSUME /\ Readable(items, n) /\ Middle(step)
                 /\ Splits(step) => \A i \in 1 .. n : ~Splits(items[i])
          PROVE  Readable(items, n + 1)
      BY <1>2, <3>2 DEF Readable
    <3> QED
      BY <3>1, <3>2
  <2> QED
    BY <1>1, <2>1 DEF ReadAt
<1>4. ASSUME IsOpen(p)
      PROVE  /\ p.splitter = Absent <=> \A i \in 1 .. n + 1 : ~Splits(items[i])
             /\ IsSequence(p.preprocessing)
             /\ Len(p.preprocessing) = Cardinality(StepsKept(items, n + 1))
             /\ \A i \in StepsKept(items, n + 1) :
                  p.preprocessing[Cardinality(StepsKept(items, i))] = StepOf(items[i])
  <2> DEFINE pre == plan.preprocessing
             size == Cardinality(StepsKept(items, n))
  <2>1. IsOpen(plan)
    BY <1>1, <1>4
  <2>2. p.splitter = Absent <=> \A i \in 1 .. n + 1 : ~Splits(items[i])
    BY <1>1, <1>2, <1>4, <2>1 DEF ReadAt
  <2>3. /\ IsSequence(pre) /\ Len(pre) = size
        /\ \A i \in StepsKept(items, n) : pre[Cardinality(StepsKept(items, i))] = StepOf(items[i])
    BY <2>1 DEF ReadAt
  <2> HIDE DEF pre
  <2>4. CASE Preprocesses(step)
    <3> DEFINE s == StepOf(step)
    <3>1. p.preprocessing = Append(pre, s)
      BY <1>1, <1>4, <2>4 DEF pre
    <3>2. /\ StepsKept(items, n + 1) = StepsKept(items, n) \cup {n + 1}
          /\ Cardinality(StepsKept(items, n + 1)) = size + 1
          /\ \A i \in StepsKept(items, n) : Cardinality(StepsKept(items, i)) \in 1 .. size
      BY <2>4, KeptNext
    <3> HIDE DEF s
    <3>3. /\ IsSequence(Append(pre, s)) /\ Len(Append(pre, s)) = size + 1
          /\ \A i \in 1 .. size : Append(pre, s)[i] = pre[i]
          /\ Append(pre, s)[size + 1] = s
      BY <2>3, Appended
    <3>4. ASSUME NEW i \in StepsKept(items, n + 1)
          PROVE  Append(pre, s)[Cardinality(StepsKept(items, i))] = StepOf(items[i])
      <4>1. CASE i \in StepsKept(items, n)
        BY <2>3, <3>2, <3>3, <4>1
      <4>2. CASE i = n + 1
        BY <3>2, <3>3, <4>2 DEF s
      <4> QED
        BY <3>2, <4>1, <4>2
    <3> QED
      BY <2>2, <3>1, <3>2, <3>3, <3>4
  <2>5. CASE ~Preprocesses(step)
    <3>1. p.preprocessing = pre /\ StepsKept(items, n + 1) = StepsKept(items, n)
      BY <1>1, <1>4, <2>5, KeptNext DEF pre
    <3> QED
      BY <2>2, <2>3, <3>1
  <2> QED
    BY <2>4, <2>5
<1> QED
  BY <1>1, <1>3, <1>4 DEF ReadAt, p

\* A plan is the one the items of a definition mean.
PlanMeans(plan, items) ==
  LET last == items[Len(items)]
      kept == {i \in DOMAIN items : Preprocesses(items[i])}
  IN  /\ ReadsComponents(last) /\ plan.n_components = Components(last)
      /\ Len(plan.preprocessing) = Cardinality(kept)
      /\ \A i \in kept :
           plan.preprocessing[Cardinality({j \in kept : j <= i})] = StepOf(items[i])

\* What parse_execution_plan accepts, and what it makes of it.
LEMMA ParseIs ==
  ASSUME NEW definition, definition.t = "obj", NEW items,
         items = definition.at["pipeline"].items, IsSequence(items)
  PROVE  /\ Parse(definition) # Refused <=> Portable(items)
         /\ Parse(definition) # Refused => PlanMeans(Parse(definition), items)
<1> DEFINE size == Len(items)
           g == CHOOSE f : IsAfter(items, f)
           read == g[size]
           last == items[size]
           plan == Parse(definition)
           kept == {i \in DOMAIN items : Preprocesses(items[i])}
           splitters == {i \in DOMAIN items : Splits(items[i])}
           good == /\ Get(Get(last, "model"), "class") = Str(PlsClass)
                   /\ ReadsComponents(last)
<1>1. size \in Nat /\ DOMAIN items = 1 .. size
  BY LenProperties DEF IsSequence
<1>2. IsAfter(items, g)
  <2>1. \E f : IsAfter(items, f)
    BY <1>1, AfterExists
  <2> QED
    BY <2>1
<1>3. plan = IF /\ read.ok /\ read.model # Absent
                /\ Get(Get(read.model, "model"), "class") = Str(PlsClass)
                /\ ReadsComponents(read.model)
             THEN [splitter |-> read.splitter, preprocessing |-> read.preprocessing,
                   n_components |-> Components(read.model)]
             ELSE Refused
  BY ZenonT(60) DEF Parse, IsAfter
<1> HIDE DEF g, plan
<1>4. g[0] = Empty /\ \A n \in 0 .. size - 1 : g[n + 1] = Take(g[n], items[n + 1])
  <2>1. 0 \in 0 .. size /\ \A n \in 0 .. size - 1 :
          n + 1 \in 0 .. size /\ n + 1 # 0 /\ n + 1 - 1 = n
    BY <1>1
  <2> QED
    BY <1>2, <2>1 DEF IsAfter
<1>5. \A n \in 0 .. size : ReadAt(items, n, g[n])
  <2> DEFINE S == {n \in Nat : n <= size => ReadAt(items, n, g[n])}
  <2>1. 0 \in S
    <3>1. /\ IsPlan(Empty) /\ IsOpen(Empty) /\ Empty.splitter = Absent
          /\ Empty.preprocessing = <<>>
      BY DEF Empty, IsPlan, IsOpen
    <3>2. IsSequence(<<>>) /\ Len(<<>>) = 0
      BY DEF IsSequence
    <3>3. Readable(items, 0) /\ StepsKept(items, 0) = {} /\ \A i \in 1 .. 0 : FALSE
      BY DEF Readable, StepsKept
    <3>4. ReadAt(items, 0, Empty)
      BY <3>1, <3>2, <3>3, FS_EmptySet DEF ReadAt
    <3> QED
      BY <1>4, <3>4
  <2>2. ASSUME NEW n \in Nat, n \in S
        PROVE  n + 1 \in S
    <3> SUFFICES ASSUME n + 1 <= size PROVE ReadAt(items, n + 1, g[n + 1])
      OBVIOUS
    <3>1. n \in 0 .. size - 1 /\ n <= size
      BY <1>1
    <3>2. ReadAt(items, n, g[n]) /\ g[n + 1] = Take(g[n], items[n + 1])
      BY <1>4, <2>2, <3>1
    <3> QED
      BY <3>2, ReadNext
  <2>3. Nat \subseteq S
    <3> HIDE DEF S
    <3> QED
      BY <2>1, <2>2, Induction
  <2> QED
    BY <1>1, <2>3
<1>6. /\ IsDone(read) <=> size # 0 /\ Readable(items, size - 1) /\ Models(last)
      /\ IsDone(read) => /\ read.model = last
                         /\ IsOpen(g[size - 1])
                         /\ read.preprocessing = g[size - 1].preprocessing
  <2>1. CASE size = 0
    <3>1. ~IsDone(Empty)
      BY DEF Empty, IsDone
    <3> QED
      BY <1>4, <2>1, <3>1
  <2>2. CASE size # 0
    <3> DEFINE n == size - 1
    <3>1. n \in 0 .. size - 1 /\ n \in 0 .. size /\ n + 1 = size
      BY <1>1, <2>2
    <3>2. ReadAt(items, n, g[n]) /\ read = Take(g[n], last)
      BY <1>4, <1>5, <3>1
    <3> HIDE DEF read, last
    <3>3. /\ IsDone(read) <=> IsOpen(g[n]) /\ Models(last)
          /\ IsDone(read) => read.model = last /\ read.preprocessing = g[n].preprocessing
      BY <3>2, TakeIs DEF ReadAt
    <3> QED
      BY <2>2, <3>2, <3>3 DEF ReadAt
  <2> QED
    BY <2>1, <2>2
<1> HIDE DEF read
<1>7. /\ plan # Refused <=> IsDone(read) /\ good
      /\ plan # Refused =>
           plan.n_components = Components(last) /\ plan.preprocessing = read.preprocessing
  <2> DEFINE r == [splitter |-> read.splitter, preprocessing |-> read.preprocessing,
                   n_components |-> Components(read.model)]
  <2>1. r # Refused /\ r.n_components = Components(read.model)
        /\ r.preprocessing = read.preprocessing
    <3>1. r # Refused
      <4>1. "t" \in DOMAIN Refused /\ "t" \notin DOMAIN r
        BY DEF Refused
      <4> QED
        BY <4>1
    <3> QED
      BY <3>1
  <2>2. plan = IF /\ IsDone(read) /\ Get(Get(read.model, "model"), "class") = Str(PlsClass)
                  /\ ReadsComponents(read.model)
               THEN r ELSE Refused
    BY <1>3, Zenon DEF IsDone
  <2> HIDE DEF r, last
  <2> QED
    BY <1>6, <2>1, <2>2
<1>8. IsFiniteSet(splitters) /\ splitters \subseteq 1 .. size
  <2>1. splitters \subseteq 1 .. size /\ IsFiniteSet(1 .. size)
    BY <1>1, FS_Interval
  <2> QED
    BY <2>1, FS_Subset
<1>9. items = <<>> <=> size = 0
  <2>1. items = <<>> => size = 0
    OBVIOUS
  <2>2. size = 0 => items = <<>>
    <3> DEFINE V == {items[i] : i \in DOMAIN items}
    <3>1. items \in Seq(V)
      BY DEF IsSequence
    <3> HIDE DEF V
    <3> QED
      BY <3>1, EmptySeq
  <2> QED
    BY <2>1, <2>2
<1>10. Models(last) => ~Splits(last) /\ ~Preprocesses(last)
  BY StepFacts DEF Models
<1>11. Portable(items) <=> size # 0 /\ Readable(items, size - 1) /\ Models(last) /\ good
  <2>1. \A i \in 1 .. size : i < size <=> i \in 1 .. size - 1
    BY <1>1
  <2>2. \A step : Splits(step) \/ Preprocesses(step) <=>
          ClassOf(step) \in {Str(SplitterClass), Str(SnvClass), Str(SavgolClass)}
    BY DEF Splits, Preprocesses
  <2>3. \A step : Middle(step) <=>
          /\ step.t = "obj" /\ ~Has(step, "model")
          /\ ClassOf(step) \in {Str(SplitterClass), Str(SnvClass), Str(SavgolClass)}
          /\ ClassOf(step) = Str(SavgolClass) => ReadsSavgol(Get(step, "params"))
          /\ ClassOf(step) = Str(SplitterClass) =>
               ReadsNumber(Get(Get(step, "params"), "test_size"))
    BY <2>2 DEF Middle, Splits
  <2>4. good => Get(last, "model").t = "obj"
    BY DEF Get, Has, Absent, Str
  <2>5. last.t = "obj" /\ ~Has(last, "class") /\ good <=> Models(last) /\ good
    BY <2>4 DEF Models
  <2>6. Cardinality(splitters) <= 1 <=> \A i, j \in splitters : i = j
    BY <1>8, AtMostOne
  <2>7. ASSUME size # 0, Models(last)
        PROVE  splitters = {i \in 1 .. size - 1 : Splits(items[i])}
    <3>1. 1 .. size = (1 .. size - 1) \cup {size}
      BY <1>1, <2>7
    <3> QED
      BY <1>1, <1>10, <2>7, <3>1
  <2>8. Portable(items) <=>
          /\ size # 0
          /\ \A i \in 1 .. size : IF i < size THEN Middle(items[i])
                                  ELSE items[i].t = "obj" /\ ~Has(items[i], "class")
                                       /\ Get(Get(items[i], "model"), "class") = Str(PlsClass)
                                       /\ ReadsComponents(items[i])
          /\ Cardinality(splitters) <= 1
    <3>1. splitters = {i \in DOMAIN items : ClassOf(items[i]) = Str(SplitterClass)}
      BY DEF Splits
    <3> HIDE DEF splitters, size
    <3> QED
      BY <1>1, <1>9, <2>3, <3>1, Zenon DEF Portable, size
  <2>9. Portable(items) <=>
          /\ size # 0 /\ \A i \in 1 .. size - 1 : Middle(items[i])
          /\ Models(last) /\ good
          /\ \A i, j \in splitters : i = j
    <3> DEFINE Ends(step) == /\ step.t = "obj" /\ ~Has(step, "class")
                             /\ Get(Get(step, "model"), "class") = Str(PlsClass)
                             /\ ReadsComponents(step)
    <3>1. Ends(last) <=> Models(last) /\ good
      BY <2>5
    <3>2. Portable(items) <=>
            /\ size # 0
            /\ \A i \in 1 .. size : IF i < size THEN Middle(items[i]) ELSE Ends(items[i])
            /\ Cardinality(splitters) <= 1
      BY <2>8
    <3>3. (\A i \in 1 .. size : i < size \/ i = size) /\ (size # 0 => size \in 1 .. size)
          /\ ~(size < size)
      BY <1>1
    <3> HIDE DEF splitters, Ends, good, size
    <3>4. size # 0 =>
            ((\A i \in 1 .. size : IF i < size THEN Middle(items[i]) ELSE Ends(items[i])) <=>
             (\A i \in 1 .. size - 1 : Middle(items[i])) /\ Ends(last))
      BY <2>1, <3>3
    <3> HIDE DEF last
    <3> QED
      BY <2>6, <3>1, <3>2, <3>4, Zenon
  <2> HIDE DEF good, last
  <2>10. size # 0 /\ Models(last) =>
           ((\A i, j \in splitters : i = j) <=>
            \A i, j \in 1 .. size - 1 : Splits(items[i]) /\ Splits(items[j]) => i = j)
    <3> HIDE DEF splitters
    <3> QED
      BY <2>7
  <2> QED
    BY <2>9, <2>10 DEF Readable
<1>12. plan # Refused <=> Portable(items)
  <2> HIDE DEF good, last
  <2> QED
    BY <1>6, <1>7, <1>11
<1>13. ASSUME plan # Refused
       PROVE  /\ Len(plan.preprocessing) = Cardinality(kept)
              /\ \A i \in kept :
                   plan.preprocessing[Cardinality({j \in kept : j <= i})] = StepOf(items[i])
  <2> DEFINE n == size - 1
  <2>1. size # 0 /\ IsOpen(g[n]) /\ Models(last) /\ plan.preprocessing = g[n].preprocessing
    BY <1>6, <1>7, <1>13
  <2>2. n \in Nat /\ n \in 0 .. size /\ 1 .. size = (1 .. n) \cup {size} /\ size = n + 1
    <3>1. \A m \in Nat : m # 0 => /\ m - 1 \in 0 .. m /\ m - 1 \in Nat
                                   /\ 1 .. m = (1 .. m - 1) \cup {m} /\ m = m - 1 + 1
      OBVIOUS
    <3> HIDE DEF size
    <3> QED
      BY <1>1, <2>1, <3>1
  <2>3. kept = StepsKept(items, n)
    BY <1>1, <1>10, <2>1, <2>2 DEF StepsKept
  <2>4. \A i \in kept : {j \in kept : j <= i} = StepsKept(items, i)
    BY <1>1, <2>3 DEF StepsKept
  <2> HIDE DEF kept, n
  <2>5. ReadAt(items, n, g[n])
    BY <1>5, <2>2
  <2> QED
    BY <2>1, <2>3, <2>4, <2>5 DEF ReadAt
<1> QED
  BY <1>7, <1>12, <1>13 DEF plan, PlanMeans

\* The numbers of components of a model that is read: within an i32 and
\* increasing, and those of a sweep up to the last its stride reaches.
LEMMA ComponentsReach ==
  ASSUME NEW step, ReadsComponents(step)
  PROVE  LET n == Components(step)
             bound(k) == IntParam(step.at["_range_"].items[k], 0)
         IN  /\ n # <<>> /\ Len(n) <= MaxVariants
             /\ \A i \in DOMAIN n : n[i] \in 1 .. I32Max /\ (i > 1 => n[i] > n[i - 1])
             /\ Has(step, "_range_") =>
                  ToSet(n) = {c \in bound(1) .. bound(2) : (c - bound(1)) % bound(3) = 0}
<1>1. \A v : ReadsInt(v) => \A fallback \in 0 .. I32Max : IntParam(v, fallback) \in I32
  BY WidthAssumption DEF ReadsInt, IntParam, I32
<1>2. CASE Has(step, "_range_")
  <2> DEFINE value(i) == IntParam(step.at["_range_"].items[i], 0)
             a == value(1)
             b == value(2)
             c == value(3)
             q == (b - a) \div c
             n == Sweep(a, b, c)
  <2>1. /\ a \in Int /\ a >= 1 /\ b \in Int /\ c \in Int /\ c >= 1 /\ a <= b /\ b <= I32Max
        /\ Len(n) <= MaxVariants
    <3>1. \A i \in 1 .. 3 : ReadsInt(step.at["_range_"].items[i]) /\ value(i) >= 1
      BY <1>2 DEF ReadsComponents, ReadsSweep
    <3>2. value(1) <= value(2) /\ Len(n) <= MaxVariants
      BY <1>2 DEF ReadsComponents, ReadsSweep
    <3>3. \A i \in 1 .. 3 : value(i) \in I32
      BY <1>1, <3>1, WidthAssumption
    <3> QED
      BY <3>1, <3>2, <3>3, WidthAssumption DEF I32
  <2>2. Components(step) = n
    BY <1>2 DEF Components
  <2> HIDE DEF a, b, c
  <2>3. q \in Nat /\ q * c <= b - a /\ b - a < (q + 1) * c
    <3>1. b - a \in Nat /\ c \in Nat \ {0}
      BY <2>1
    <3>2. \A x \in Nat, y \in Nat \ {0} :
            x \div y \in Nat /\ (x \div y) * y <= x /\ x < (x \div y + 1) * y
      OBVIOUS
    <3> QED
      BY <3>1, <3>2
  <2>4. n = [i \in 1 .. q + 1 |-> a + (i - 1) * c]
    BY DEF Sweep
  <2> HIDE DEF q
  <2>5. DOMAIN n = 1 .. q + 1 /\ \A i \in 1 .. q + 1 : n[i] = a + (i - 1) * c
    BY <2>4
  <2>6. n = [i \in 1 .. q + 1 |-> n[i]]
    BY <2>4, <2>5
  <2> HIDE DEF n
  <2>7. n # <<>>
    BY <2>3, <2>5
  <2>8. ASSUME NEW i \in 1 .. q + 1
        PROVE  /\ n[i] \in a .. b
               /\ i > 1 => n[i] > n[i - 1]
    <3>1. \A x \in 0 .. q : x * c \in Nat /\ x * c <= q * c
      BY <2>1, <2>3
    <3>2. i - 1 \in 0 .. q
      BY <2>3
    <3>3. (i - 1) * c \in Nat /\ (i - 1) * c <= b - a
      BY <2>1, <2>3, <3>1, <3>2
    <3>4. n[i] \in a .. b
      BY <2>1, <2>5, <3>3
    <3>5. ASSUME i > 1
          PROVE  n[i] > n[i - 1]
      <4>1. i - 1 \in 1 .. q + 1 /\ n[i - 1] = a + (i - 1 - 1) * c
        BY <2>3, <2>5, <3>5
      <4>2. (i - 1) * c = (i - 1 - 1) * c + c
        BY <2>1
      <4> QED
        BY <2>1, <2>5, <4>1, <4>2
    <3> QED
      BY <3>4, <3>5
  <2>9. ASSUME NEW x \in a .. b, (x - a) % c = 0
        PROVE  \E i \in 1 .. q + 1 : n[i] = x
    <3>1. x - a \in Nat /\ c \in Nat \ {0}
      BY <2>1
    <3>2. \A d \in Nat, y \in Nat \ {0} : d % y = 0 => \E k \in Nat : d = k * y
      OBVIOUS
    <3>3. PICK k \in Nat : x - a = k * c
      BY <2>9, <3>1, <3>2
    <3>4. k <= q
      <4>1. k * c < (q + 1) * c
        BY <2>1, <2>3, <3>3
      <4>2. \A u \in Nat, v \in Nat, y \in Nat \ {0} : u * y < v * y => u < v
        OBVIOUS
      <4> QED
        BY <2>3, <3>1, <4>1, <4>2
    <3>5. k + 1 \in 1 .. q + 1 /\ n[k + 1] = x
      BY <2>1, <2>3, <2>5, <3>3, <3>4
    <3> QED
      BY <3>5
  <2>10. ASSUME NEW i \in 1 .. q + 1
         PROVE  (n[i] - a) % c = 0
    <3>1. i - 1 \in Nat /\ c \in Nat \ {0} /\ n[i] - a = (i - 1) * c
      BY <2>1, <2>3, <2>5
    <3>2. \A k \in Nat, y \in Nat \ {0} : (k * y) % y = 0
      OBVIOUS
    <3> QED
      BY <3>1, <3>2
  <2>11. ToSet(n) = {x \in a .. b : (x - a) % c = 0}
    BY <2>5, <2>8, <2>9, <2>10 DEF ToSet
  <2>12. \A i \in DOMAIN n : n[i] \in 1 .. I32Max /\ (i > 1 => n[i] > n[i - 1])
    BY <2>1, <2>5, <2>8, WidthAssumption
  <2> QED
    BY <2>1, <2>2, <2>7, <2>11, <2>12 DEF a, b, c
<1>3. CASE ~Has(step, "_range_")
  <2> DEFINE value == Get(Get(step.at["model"], "params"), "n_components")
             x == IntParam(value, 2)
  <2>1. x \in 1 .. I32Max
    <3>1. x \in I32 /\ x >= 1
      BY <1>1, <1>3, WidthAssumption DEF ReadsComponents
    <3> QED
      BY <3>1, WidthAssumption DEF I32
  <2>2. Components(step) = <<x>>
    BY <1>3 DEF Components
  <2> HIDE DEF x
  <2>3. \A i \in DOMAIN <<x>> : i = 1 /\ <<x>>[i] = x
    OBVIOUS
  <2> QED
    BY <1>3, <2>1, <2>2, <2>3, SweepAssumption
<1> QED
  BY <1>2, <1>3

-----------------------------------------------------------------------------
(* Embedding. *)

\* What libn4m does when it embeds the preprocessing of a plan is that
\* preprocessing.
LEMMA Embeds ==
  ASSUME NEW plan, PlanOk(plan), EmbeddedSpec(plan) # NotEmbedded
  PROVE  Performed(EmbeddedSpec(plan)) = plan.preprocessing
<1> DEFINE pre == plan.preprocessing
           sg == pre[2]
           spec == EmbeddedSpec(plan)
<1>1. /\ Len(pre) = 2 /\ pre[1] = Snv /\ sg.kind = "SavitzkyGolay" /\ Embeddable(sg)
      /\ spec = [window |-> sg.window_length, degree |-> sg.polyorder]
  BY DEF EmbeddedSpec
<1> HIDE DEF spec
<1>2. IsSequence(pre) /\ \A i \in DOMAIN pre : IsStep(pre[i])
  BY DEF PlanOk
<1> HIDE DEF pre
<1>3. DOMAIN pre = {1, 2} /\ pre = <<pre[1], pre[2]>>
  <2> DEFINE S == {pre[i] : i \in DOMAIN pre}
  <2>1. pre \in Seq(S)
    BY <1>2 DEF IsSequence
  <2> HIDE DEF S
  <2>2. DOMAIN pre = 1 .. 2 /\ pre \in [1 .. 2 -> S]
    BY <1>1, <2>1, LenProperties
  <2>3. 1 .. 2 = {1, 2}
    OBVIOUS
  <2>4. pre = [i \in {1, 2} |-> pre[i]]
    BY <2>2, <2>3
  <2> QED
    BY <2>2, <2>3, <2>4
<1>4. sg = [kind |-> "SavitzkyGolay", window_length |-> sg.window_length,
            polyorder |-> sg.polyorder, deriv |-> 0, mode |-> 4, cval |-> Whole(0)]
  BY <1>1, <1>2, <1>3 DEF IsStep, Snv, Embeddable
<1>5. Performed(spec) = <<Snv, sg>>
  <2>1. spec # NotEmbedded
    BY DEF spec
  <2> QED
    BY <1>1, <1>4, <2>1 DEF Performed
<1> QED
  BY <1>1, <1>3, <1>5 DEF spec, pre

-----------------------------------------------------------------------------
(* Sequences of tasks. *)

\* Length, domain and concatenation with the empty sequence.
LEMMA ListFacts ==
  ASSUME NEW s, IsSequence(s)
  PROVE  /\ Len(s) \in Nat /\ DOMAIN s = 1 .. Len(s) /\ s = [i \in 1 .. Len(s) |-> s[i]]
         /\ Len(s) = 0 <=> s = <<>>
         /\ s \o <<>> = s /\ <<>> \o s = s
         /\ s # <<>> => Head(s) = s[1]
<1> DEFINE S == {s[i] : i \in DOMAIN s}
<1>1. s \in Seq(S)
  BY DEF IsSequence
<1> HIDE DEF S
<1>2. Len(s) = 0 => s = <<>>
  BY <1>1, EmptySeq
<1>3. s = <<>> => Len(s) = 0
  BY EmptySeq
<1> QED
  BY <1>1, <1>2, <1>3, LenProperties, ConcatEmptySeq

\* What concatenation does to two sequences.
LEMMA Joining ==
  ASSUME NEW a, IsSequence(a), NEW b, IsSequence(b)
  PROVE  /\ IsSequence(a \o b) /\ Len(a \o b) = Len(a) + Len(b)
         /\ Len(a) \in Nat /\ Len(b) \in Nat
         /\ \A i \in 1 .. Len(a) : (a \o b)[i] = a[i]
         /\ \A i \in Len(a) + 1 .. Len(a) + Len(b) : (a \o b)[i] = b[i - Len(a)]
<1> DEFINE S == {a[i] : i \in DOMAIN a} \cup {b[i] : i \in DOMAIN b}
           c == a \o b
<1>1. a \in Seq(S) /\ b \in Seq(S)
  BY SeqMonotonic DEF IsSequence
<1> HIDE DEF S
<1>2. /\ c \in Seq(S) /\ Len(c) = Len(a) + Len(b)
      /\ \A i \in 1 .. Len(a) + Len(b) : c[i] = IF i <= Len(a) THEN a[i] ELSE b[i - Len(a)]
  BY <1>1, ConcatProperties
<1>3. Len(a) \in Nat /\ Len(b) \in Nat
  BY <1>1, LenProperties
<1>4. IsSequence(c)
  BY <1>2, Sequenced
<1> HIDE DEF c
<1>5. \A i \in 1 .. Len(a) : c[i] = a[i]
  BY <1>2, <1>3
<1>6. ASSUME NEW i \in Len(a) + 1 .. Len(a) + Len(b)
      PROVE  c[i] = b[i - Len(a)]
  <2>1. i \in 1 .. Len(a) + Len(b) /\ ~ (i <= Len(a))
    BY <1>3
  <2> QED
    BY <1>2, <2>1
<1> QED
  BY <1>2, <1>3, <1>4, <1>5, <1>6 DEF c

\* Prefixes grow one element at a time.
LEMMA PrefixFacts ==
  ASSUME NEW s, IsSequence(s)
  PROVE  /\ Prefix(s, 0) = <<>> /\ Prefix(s, Len(s)) = s
         /\ \A n \in 0 .. Len(s) - 1 : Append(Prefix(s, n), s[n + 1]) = Prefix(s, n + 1)
<1>1. Len(s) \in Nat /\ s = [i \in 1 .. Len(s) |-> s[i]]
  BY ListFacts
<1>2. Prefix(s, 0) = <<>>
  BY DEF Prefix
<1>3. Prefix(s, Len(s)) = s
  BY <1>1 DEF Prefix
<1>4. ASSUME NEW n \in 0 .. Len(s) - 1
      PROVE  Append(Prefix(s, n), s[n + 1]) = Prefix(s, n + 1)
  <2> DEFINE p == Prefix(s, n)
             q == Prefix(s, n + 1)
             t == Append(p, s[n + 1])
  <2>1. n \in Nat /\ n + 1 \in Nat
    BY <1>1
  <2>2. /\ p = [i \in 1 .. n |-> p[i]] /\ \A i \in 1 .. n : p[i] = s[i]
        /\ q = [i \in 1 .. n + 1 |-> q[i]] /\ \A i \in 1 .. n + 1 : q[i] = s[i]
    BY DEF Prefix
  <2> HIDE DEF p, q
  <2>3. IsSequence(p) /\ Len(p) = n /\ IsSequence(q) /\ Len(q) = n + 1
    BY <2>1, <2>2, Listing
  <2>4. /\ IsSequence(t) /\ Len(t) = n + 1 /\ \A i \in 1 .. n : t[i] = p[i]
        /\ t[n + 1] = s[n + 1]
    BY <2>3, Appended
  <2> HIDE DEF t
  <2>5. t = [i \in 1 .. n + 1 |-> t[i]]
    BY <2>4, ListFacts
  <2>6. \A i \in 1 .. n + 1 : t[i] = q[i]
    <3>1. \A i \in 1 .. n + 1 : i \in 1 .. n \/ i = n + 1
      BY <2>1
    <3>2. n + 1 \in 1 .. n + 1 /\ \A i \in 1 .. n : i \in 1 .. n + 1
      BY <2>1
    <3> QED
      BY <2>2, <2>4, <3>1, <3>2
  <2>7. t = q
    BY <2>2, <2>5, <2>6
  <2> QED
    BY <2>7 DEF t, p, q
<1> QED
  BY <1>2, <1>3, <1>4

\* The tasks that are left are the last ones; the first of them is the one
\* after those that are done.
LEMMA RestFacts ==
  ASSUME NEW all, Len(all) \in Nat, NEW ts, Rest(all, ts)
  PROVE  /\ Done(all, ts) \in 0 .. Len(all) /\ (ts = <<>> <=> Done(all, ts) = Len(all))
         /\ ts # <<>> => /\ Head(ts) = all[Done(all, ts) + 1]
                         /\ Done(all, ts) + 1 \in 1 .. Len(all)
                         /\ Rest(all, Tail(ts))
                         /\ Done(all, Tail(ts)) = Done(all, ts) + 1
<1> DEFINE n == Len(ts)
           d == Done(all, ts)
<1>1. n \in 0 .. Len(all) /\ n \in Nat /\ ts = [i \in 1 .. n |-> all[d + i]] /\ d = Len(all) - n
  BY DEF Rest, Done
<1> HIDE DEF d
<1>2. \A i \in 1 .. n : ts[i] = all[d + i]
  BY <1>1
<1>3. ts = [i \in 1 .. n |-> ts[i]]
  BY <1>1, <1>2
<1>4. IsSequence(ts)
  BY <1>1, <1>3, Listing
<1>5. n = 0 <=> ts = <<>>
  BY <1>4, ListFacts
<1>6. d \in 0 .. Len(all) /\ (ts = <<>> <=> d = Len(all))
  <2> HIDE DEF n
  <2> QED
    BY <1>1, <1>5
<1>7. ASSUME ts # <<>>
      PROVE  /\ Head(ts) = all[d + 1] /\ d + 1 \in 1 .. Len(all)
             /\ Rest(all, Tail(ts)) /\ Done(all, Tail(ts)) = d + 1
  <2> DEFINE S == {ts[i] : i \in DOMAIN ts}
             t == Tail(ts)
  <2>1. ts \in Seq(S)
    BY <1>4 DEF IsSequence
  <2> HIDE DEF S
  <2>2. /\ t \in Seq(S) /\ Len(t) = n - 1 /\ \A i \in 1 .. Len(t) : t[i] = ts[i + 1]
    BY <2>1, <1>7, HeadTailProperties
  <2> HIDE DEF t
  <2>3. t = [i \in 1 .. Len(t) |-> t[i]] /\ Len(t) \in Nat
    BY <2>2, LenProperties
  <2> HIDE DEF n
  <2>4. Done(all, t) = d + 1 /\ Len(t) \in 0 .. Len(all) /\ 1 \in 1 .. n /\ d + 1 \in 1 .. Len(all)
    BY <1>1, <1>5, <1>7, <2>2 DEF Done
  <2>5. \A i \in 1 .. Len(t) : t[i] = all[Done(all, t) + i]
    <3> SUFFICES ASSUME NEW i \in 1 .. Len(t) PROVE t[i] = all[Done(all, t) + i]
      OBVIOUS
    <3>1. i + 1 \in 1 .. n /\ d + (i + 1) = Done(all, t) + i
      BY <1>1, <2>2, <2>4
    <3> QED
      BY <1>2, <2>2, <3>1
  <2>6. Rest(all, t)
    BY <2>3, <2>4, <2>5 DEF Rest
  <2>7. Head(ts) = all[d + 1]
    BY <1>2, <1>4, <1>7, <2>4, ListFacts
  <2> QED
    BY <2>4, <2>6, <2>7 DEF t
<1> QED
  BY <1>6, <1>7 DEF d

\* Nothing of a list is done at first.
LEMMA RestAll ==
  ASSUME NEW all, IsSequence(all)
  PROVE  Rest(all, all) /\ Done(all, all) = 0
<1>1. Len(all) \in Nat /\ all = [i \in 1 .. Len(all) |-> all[i]]
  BY ListFacts
<1>2. Done(all, all) = 0
  BY <1>1 DEF Done
<1>3. \A i \in 1 .. Len(all) : 0 + i = i
  BY <1>1
<1> QED
  BY <1>1, <1>2, <1>3 DEF Rest

\* The fields of the tasks.
LEMMA TaskFields ==
  /\ \A do : Task(do).do = do
  /\ \A part, step : LET t == On(part, step) IN t.do = "transform" /\ t.part = part /\ t.step = step
  /\ \A n : Fit(n).do = "fit" /\ Fit(n).n = n
BY DEF Task, On, Fit

\* A sequence of one element.
LEMMA One ==
  ASSUME NEW x
  PROVE  IsSequence(<<x>>) /\ Len(<<x>>) = 1 /\ <<x>>[1] = x
<1>1. <<x>> \in Seq({x})
  OBVIOUS
<1> QED
  BY <1>1, Sequenced

\* A sequence of three elements.
LEMMA Three ==
  ASSUME NEW x, NEW y, NEW z
  PROVE  LET t == <<x, y, z>> IN IsSequence(t) /\ Len(t) = 3 /\ t[1] = x /\ t[2] = y /\ t[3] = z
BY Tuples

-----------------------------------------------------------------------------
(* The tasks of a run, by their place. *)

\* A run opens the library, then splits if its plan does.
LEMMA FirstTasks ==
  ASSUME NEW plan
  PROVE  LET first == <<Task("open")>> \o SplitTask(plan) IN
         /\ IsSequence(first) /\ Len(first) = Transforms(plan) /\ Transforms(plan) \in {1, 2}
         /\ \A i \in 1 .. Transforms(plan) : first[i].do \in {"open", "split"}
<1> DEFINE a == <<Task("open")>>
           b == SplitTask(plan)
           first == a \o b
<1>1. IsSequence(a) /\ Len(a) = 1 /\ a[1] = Task("open")
  BY One
<1>2. /\ IsSequence(b) /\ Len(b) \in {0, 1} /\ \A i \in 1 .. Len(b) : b[i].do = "split"
  <2>1. CASE plan.splitter = Absent
    <3>1. b = <<>>
      BY <2>1 DEF SplitTask
    <3> HIDE DEF b
    <3>2. IsSequence(<<>>)
      BY DEF IsSequence
    <3>3. Len(b) = 0
      BY <3>1, <3>2, ListFacts
    <3> QED
      BY <3>1, <3>2, <3>3
  <2>2. CASE plan.splitter # Absent
    <3>1. b = <<Task("split")>>
      BY <2>2 DEF SplitTask
    <3> HIDE DEF b
    <3>2. IsSequence(b) /\ Len(b) = 1 /\ b[1] = Task("split")
      BY <3>1, One
    <3>3. \A i \in 1 .. 1 : i = 1
      OBVIOUS
    <3> QED
      BY <3>2, <3>3, TaskFields
  <2> QED
    BY <2>1, <2>2
<1>3. Transforms(plan) = 1 + Len(b)
  BY DEF Transforms
<1> HIDE DEF a, b
<1>4. /\ IsSequence(first) /\ Len(first) = Len(a) + Len(b)
      /\ \A i \in 1 .. Len(a) : first[i] = a[i]
      /\ \A i \in Len(a) + 1 .. Len(a) + Len(b) : first[i] = b[i - Len(a)]
  BY <1>1, <1>2, Joining
<1> HIDE DEF first
<1>5. ASSUME NEW i \in 1 .. Transforms(plan)
      PROVE  first[i].do \in {"open", "split"}
  <2>1. CASE i = 1
    <3>1. first[1] = Task("open")
      BY <1>1, <1>4
    <3> QED
      BY <2>1, <3>1, TaskFields
  <2>2. CASE i # 1
    <3>1. i \in Len(a) + 1 .. Len(a) + Len(b) /\ i - Len(a) \in 1 .. Len(b)
      BY <1>1, <1>2, <1>3, <2>2
    <3> QED
      BY <1>2, <1>4, <3>1
  <2> QED
    BY <2>1, <2>2
<1> QED
  BY <1>1, <1>2, <1>3, <1>4, <1>5 DEF a, b, first

\* The lists of transforms and of fits.
LEMMA TaskLists ==
  ASSUME NEW s, IsSequence(s)
  PROVE  /\ IsSequence(OnBoth(s)) /\ Len(OnBoth(s)) = 2 * Len(s)
         /\ \A i \in 1 .. 2 * Len(s) :
              OnBoth(s)[i] = On(IF i % 2 = 1 THEN "train" ELSE "test", s[(i + 1) \div 2])
         /\ \A part : /\ IsSequence(OnAll(part, s)) /\ Len(OnAll(part, s)) = Len(s)
                      /\ \A i \in 1 .. Len(s) : OnAll(part, s)[i] = On(part, s[i])
         /\ IsSequence(Fits(s)) /\ Len(Fits(s)) = Len(s)
         /\ \A i \in 1 .. Len(s) : Fits(s)[i] = Fit(s[i])
<1>1. Len(s) \in Nat /\ 2 * Len(s) \in Nat /\ DOMAIN s = 1 .. Len(s)
  <2>1. Len(s) \in Nat /\ DOMAIN s = 1 .. Len(s)
    BY ListFacts
  <2> QED
    BY <2>1
<1>2. /\ IsSequence(OnBoth(s)) /\ Len(OnBoth(s)) = 2 * Len(s)
      /\ \A i \in 1 .. 2 * Len(s) :
           OnBoth(s)[i] = On(IF i % 2 = 1 THEN "train" ELSE "test", s[(i + 1) \div 2])
  <2> DEFINE f == OnBoth(s)
  <2>1. /\ f = [i \in 1 .. 2 * Len(s) |-> f[i]]
        /\ \A i \in 1 .. 2 * Len(s) :
             f[i] = On(IF i % 2 = 1 THEN "train" ELSE "test", s[(i + 1) \div 2])
    BY DEF OnBoth
  <2> HIDE DEF f
  <2>2. IsSequence(f) /\ Len(f) = 2 * Len(s)
    BY <1>1, <2>1, Listing
  <2> QED
    BY <2>1, <2>2 DEF f
<1>3. ASSUME NEW part
      PROVE  /\ IsSequence(OnAll(part, s)) /\ Len(OnAll(part, s)) = Len(s)
             /\ \A i \in 1 .. Len(s) : OnAll(part, s)[i] = On(part, s[i])
  <2> DEFINE f == OnAll(part, s)
  <2>1. /\ f = [i \in 1 .. Len(s) |-> f[i]]
        /\ \A i \in 1 .. Len(s) : f[i] = On(part, s[i])
    BY <1>1 DEF OnAll
  <2> HIDE DEF f
  <2>2. IsSequence(f) /\ Len(f) = Len(s)
    BY <1>1, <2>1, Listing
  <2> QED
    BY <2>1, <2>2 DEF f
<1>4. /\ IsSequence(Fits(s)) /\ Len(Fits(s)) = Len(s)
      /\ \A i \in 1 .. Len(s) : Fits(s)[i] = Fit(s[i])
  <2> DEFINE f == Fits(s)
  <2>1. /\ f = [i \in 1 .. Len(s) |-> f[i]]
        /\ \A i \in 1 .. Len(s) : f[i] = Fit(s[i])
    BY <1>1 DEF Fits
  <2> HIDE DEF f
  <2>2. IsSequence(f) /\ Len(f) = Len(s)
    BY <1>1, <2>1, Listing
  <2> QED
    BY <2>1, <2>2 DEF f
<1> QED
  BY <1>2, <1>3, <1>4

\* The lengths the stages of a run are counted with.
Counted(plan) ==
  /\ Transforms(plan) \in {1, 2} /\ Len(plan.preprocessing) \in Nat
  /\ Len(plan.n_components) \in Nat \ {0}
  /\ ByHost(plan) \in {0, Len(plan.preprocessing)}

\* The sizes of the parts of a plan.
LEMMA Counting ==
  ASSUME NEW plan, PlanOk(plan)
  PROVE  /\ Counted(plan) /\ IsSequence(plan.preprocessing) /\ IsSequence(plan.n_components)
<1>1. IsSequence(plan.preprocessing) /\ IsSequence(plan.n_components)
  BY Sequenced DEF PlanOk
<1>2. Len(plan.n_components) \in Nat \ {0}
  BY <1>1, ListFacts DEF PlanOk
<1>3. Len(plan.preprocessing) \in Nat
  BY <1>1, ListFacts
<1> QED
  BY <1>1, <1>2, <1>3, FirstTasks DEF Counted, ByHost

Numbered(plan, t, p, c, h) ==
  /\ t \in {1, 2} /\ p \in Nat /\ c \in Nat \ {0} /\ h \in Nat /\ h \in {0, p}
  /\ Transforms(plan) = t /\ Len(plan.preprocessing) = p
  /\ Len(plan.n_components) = c /\ ByHost(plan) = h
  /\ Fitting(plan) = t + 2 * p
  /\ Selecting(plan) = t + 2 * p + c
  /\ Exporting(plan) = t + 2 * p + c + 1 + t
  /\ Refitting(plan) = t + 2 * p + c + 1 + t + h

\* Names for the sizes, for arithmetic.
LEMMA Stages ==
  ASSUME NEW plan, PlanOk(plan)
  PROVE  \E t, p, c, h : Numbered(plan, t, p, c, h)
<1> DEFINE t == Transforms(plan)
           p == Len(plan.preprocessing)
           c == Len(plan.n_components)
           h == ByHost(plan)
<1>1. t \in {1, 2} /\ p \in Nat /\ c \in Nat \ {0} /\ h \in {0, p} /\ h \in Nat
  BY Counting DEF Counted
<1>2. Fitting(plan) = t + 2 * p
  BY DEF Fitting
<1>3. Selecting(plan) = t + 2 * p + c
  BY <1>2 DEF Selecting
<1>4. Exporting(plan) = t + 2 * p + c + 1 + t
  BY <1>3 DEF Exporting
<1>5. Refitting(plan) = t + 2 * p + c + 1 + t + h
  BY <1>4 DEF Refitting
<1>6. Numbered(plan, t, p, c, h)
  BY <1>1, <1>2, <1>3, <1>4, <1>5 DEF Numbered
<1> HIDE DEF t, p, c, h
<1> QED
  BY <1>6

RunTaskAt(plan, all, j) ==
  /\ j \in 1 .. Transforms(plan) => all[j].do \in {"open", "split"}
  /\ j \in Transforms(plan) + 1 .. Fitting(plan) =>
       all[j] = LET i == j - Transforms(plan)
                IN On(IF i % 2 = 1 THEN "train" ELSE "test", plan.preprocessing[(i + 1) \div 2])
  /\ j \in Fitting(plan) + 1 .. Selecting(plan) =>
       all[j] = Fit(plan.n_components[j - Fitting(plan)])
  /\ j = Selecting(plan) + 1 => all[j] = Task("select")

\* What the tasks up to the selection are.
LEMMA RunTasksAt ==
  ASSUME NEW plan, PlanOk(plan)
  PROVE  /\ IsSequence(RunTasks(plan)) /\ Len(RunTasks(plan)) = Selecting(plan) + 1
         /\ \A j \in 1 .. Selecting(plan) + 1 : RunTaskAt(plan, RunTasks(plan), j)
<1> DEFINE T == Transforms(plan)
           P == Len(plan.preprocessing)
           C == Len(plan.n_components)
           first == <<Task("open")>> \o SplitTask(plan)
           both == OnBoth(plan.preprocessing)
           fits == Fits(plan.n_components)
           last == <<Task("select")>>
           a == first \o both
           b == a \o fits
           c == b \o last
<1>1. /\ T \in {1, 2} /\ P \in Nat /\ C \in Nat /\ Fitting(plan) = T + 2 * P
      /\ Selecting(plan) = T + 2 * P + C
  BY Counting DEF Counted, Fitting, Selecting
<1>2. IsSequence(first) /\ Len(first) = T /\ \A i \in 1 .. T : first[i].do \in {"open", "split"}
  BY FirstTasks
<1>3. /\ IsSequence(both) /\ Len(both) = 2 * P
      /\ \A i \in 1 .. 2 * P :
           both[i] = On(IF i % 2 = 1 THEN "train" ELSE "test", plan.preprocessing[(i + 1) \div 2])
  BY Counting, TaskLists
<1>4. IsSequence(fits) /\ Len(fits) = C /\ \A i \in 1 .. C : fits[i] = Fit(plan.n_components[i])
  BY Counting, TaskLists
<1>5. IsSequence(last) /\ Len(last) = 1 /\ last[1] = Task("select")
  BY One
<1>6. RunTasks(plan) = c
  BY DEF RunTasks
<1> HIDE DEF first, both, fits, last, T, P, C
<1>7. /\ IsSequence(a) /\ Len(a) = T + 2 * P
      /\ \A i \in 1 .. T : a[i] = first[i]
      /\ \A i \in T + 1 .. T + 2 * P : a[i] = both[i - T]
  <2>1. /\ IsSequence(a) /\ Len(a) = Len(first) + Len(both)
        /\ \A i \in 1 .. Len(first) : a[i] = first[i]
        /\ \A i \in Len(first) + 1 .. Len(first) + Len(both) : a[i] = both[i - Len(first)]
    BY <1>2, <1>3, Joining
  <2> HIDE DEF a
  <2> QED
    BY <1>2, <1>3, <2>1
<1> HIDE DEF a
<1>8. /\ IsSequence(b) /\ Len(b) = T + 2 * P + C
      /\ \A i \in 1 .. T + 2 * P : b[i] = a[i]
      /\ \A i \in T + 2 * P + 1 .. T + 2 * P + C : b[i] = fits[i - (T + 2 * P)]
  <2>1. /\ IsSequence(b) /\ Len(b) = Len(a) + Len(fits)
        /\ \A i \in 1 .. Len(a) : b[i] = a[i]
        /\ \A i \in Len(a) + 1 .. Len(a) + Len(fits) : b[i] = fits[i - Len(a)]
    BY <1>4, <1>7, Joining
  <2> HIDE DEF b
  <2> QED
    BY <1>4, <1>7, <2>1
<1> HIDE DEF b
<1>9. /\ IsSequence(c) /\ Len(c) = T + 2 * P + C + 1
      /\ \A i \in 1 .. T + 2 * P + C : c[i] = b[i]
      /\ c[T + 2 * P + C + 1] = Task("select")
  <2>1. /\ IsSequence(c) /\ Len(c) = Len(b) + Len(last)
        /\ \A i \in 1 .. Len(b) : c[i] = b[i]
        /\ \A i \in Len(b) + 1 .. Len(b) + Len(last) : c[i] = last[i - Len(b)]
    BY <1>5, <1>8, Joining
  <2> HIDE DEF c
  <2>2. LET k == T + 2 * P + C + 1 IN k \in Len(b) + 1 .. Len(b) + Len(last) /\ k - Len(b) = 1
    BY <1>1, <1>5, <1>8
  <2> QED
    BY <1>5, <1>8, <2>1, <2>2
<1> HIDE DEF c
<1>10. ASSUME NEW j \in 1 .. Selecting(plan) + 1
       PROVE  RunTaskAt(plan, c, j)
  <2>1. j \in 1 .. T => c[j].do \in {"open", "split"}
    <3> SUFFICES ASSUME j \in 1 .. T PROVE c[j] = first[j]
      BY <1>2
    <3>1. j \in 1 .. T + 2 * P /\ j \in 1 .. T + 2 * P + C
      BY <1>1
    <3> QED
      BY <1>7, <1>8, <1>9, <3>1
  <2>2. j \in T + 1 .. T + 2 * P =>
          c[j] = LET i == j - T
                 IN On(IF i % 2 = 1 THEN "train" ELSE "test", plan.preprocessing[(i + 1) \div 2])
    <3> SUFFICES ASSUME j \in T + 1 .. T + 2 * P PROVE c[j] = both[j - T] /\ j - T \in 1 .. 2 * P
      BY <1>3
    <3>1. j \in 1 .. T + 2 * P /\ j \in 1 .. T + 2 * P + C /\ j - T \in 1 .. 2 * P
      BY <1>1
    <3> QED
      BY <1>7, <1>8, <1>9, <3>1
  <2>3. j \in T + 2 * P + 1 .. T + 2 * P + C => c[j] = Fit(plan.n_components[j - (T + 2 * P)])
    <3> SUFFICES ASSUME j \in T + 2 * P + 1 .. T + 2 * P + C
                 PROVE  c[j] = fits[j - (T + 2 * P)] /\ j - (T + 2 * P) \in 1 .. C
      BY <1>4
    <3>1. j \in 1 .. T + 2 * P + C /\ j - (T + 2 * P) \in 1 .. C
      BY <1>1
    <3> QED
      BY <1>8, <1>9, <3>1
  <2> QED
    BY <1>1, <1>9, <2>1, <2>2, <2>3 DEF RunTaskAt, T
<1> QED
  BY <1>1, <1>6, <1>9, <1>10

ExportTaskAt(plan, all, j) ==
  /\ j \in 1 .. Transforms(plan) => all[j].do \in {"open", "split"}
  /\ j \in Transforms(plan) + 1 .. Transforms(plan) + ByHost(plan) =>
       all[j] = On("train", plan.preprocessing[j - Transforms(plan)])
  /\ j = Transforms(plan) + ByHost(plan) + 1 => all[j] = Task("refit")
  /\ j = Transforms(plan) + ByHost(plan) + 2 => all[j] = Task("inspect")
  /\ j = Transforms(plan) + ByHost(plan) + 3 => all[j] = Task("agree")

\* What the tasks of the export are.
LEMMA ExportTasksAt ==
  ASSUME NEW plan, PlanOk(plan)
  PROVE  /\ IsSequence(ExportTasks(plan))
         /\ Len(ExportTasks(plan)) = Transforms(plan) + ByHost(plan) + 3
         /\ \A j \in 1 .. Transforms(plan) + ByHost(plan) + 3 :
              ExportTaskAt(plan, ExportTasks(plan), j)
<1> DEFINE T == Transforms(plan)
           H == ByHost(plan)
           first == <<Task("open")>> \o SplitTask(plan)
           host == IF EmbeddedSpec(plan) = NotEmbedded THEN OnAll("train", plan.preprocessing)
                   ELSE <<>>
           last == <<Task("refit"), Task("inspect"), Task("agree")>>
           a == first \o host
           b == a \o last
<1>1. T \in {1, 2} /\ H \in Nat
  BY Counting DEF Counted
<1>2. IsSequence(first) /\ Len(first) = T /\ \A i \in 1 .. T : first[i].do \in {"open", "split"}
  BY FirstTasks
<1>3. /\ IsSequence(host) /\ Len(host) = H
      /\ \A i \in 1 .. H : host[i] = On("train", plan.preprocessing[i])
  <2>1. CASE EmbeddedSpec(plan) = NotEmbedded
    BY <2>1, Counting, TaskLists DEF ByHost
  <2>2. CASE EmbeddedSpec(plan) # NotEmbedded
    <3>1. host = <<>> /\ H = 0
      BY <2>2 DEF ByHost
    <3>2. IsSequence(<<>>)
      BY DEF IsSequence
    <3> HIDE DEF host, H
    <3>3. Len(host) = 0
      BY <3>1, <3>2, ListFacts
    <3> QED
      BY <3>1, <3>2, <3>3
  <2> QED
    BY <2>1, <2>2
<1>4. /\ IsSequence(last) /\ Len(last) = 3 /\ last[1] = Task("refit")
      /\ last[2] = Task("inspect") /\ last[3] = Task("agree")
  BY Three
<1>5. ExportTasks(plan) = b
  BY DEF ExportTasks
<1> HIDE DEF first, host, last, T, H
<1>6. /\ IsSequence(a) /\ Len(a) = T + H
      /\ \A i \in 1 .. T : a[i] = first[i]
      /\ \A i \in T + 1 .. T + H : a[i] = host[i - T]
  <2>1. /\ IsSequence(a) /\ Len(a) = Len(first) + Len(host)
        /\ \A i \in 1 .. Len(first) : a[i] = first[i]
        /\ \A i \in Len(first) + 1 .. Len(first) + Len(host) : a[i] = host[i - Len(first)]
    BY <1>2, <1>3, Joining
  <2> HIDE DEF a
  <2> QED
    BY <1>2, <1>3, <2>1
<1> HIDE DEF a
<1>7. /\ IsSequence(b) /\ Len(b) = T + H + 3
      /\ \A i \in 1 .. T + H : b[i] = a[i]
      /\ \A i \in T + H + 1 .. T + H + 3 : b[i] = last[i - (T + H)]
  <2>1. /\ IsSequence(b) /\ Len(b) = Len(a) + Len(last)
        /\ \A i \in 1 .. Len(a) : b[i] = a[i]
        /\ \A i \in Len(a) + 1 .. Len(a) + Len(last) : b[i] = last[i - Len(a)]
    BY <1>4, <1>6, Joining, ZenonT(60)
  <2> HIDE DEF b
  <2> QED
    BY <1>4, <1>6, <2>1
<1> HIDE DEF b
<1>8. ASSUME NEW j \in 1 .. T + H + 3
      PROVE  ExportTaskAt(plan, b, j)
  <2>1. j \in 1 .. T => b[j].do \in {"open", "split"}
    <3> SUFFICES ASSUME j \in 1 .. T PROVE b[j] = first[j]
      BY <1>2
    <3>1. j \in 1 .. T + H
      BY <1>1
    <3> QED
      BY <1>6, <1>7, <3>1
  <2>2. j \in T + 1 .. T + H => b[j] = On("train", plan.preprocessing[j - T])
    <3> SUFFICES ASSUME j \in T + 1 .. T + H PROVE b[j] = host[j - T] /\ j - T \in 1 .. H
      BY <1>3
    <3>1. j \in 1 .. T + H /\ j - T \in 1 .. H
      BY <1>1
    <3> QED
      BY <1>6, <1>7, <3>1
  <2>3. \A k \in {1, 2, 3} : j = T + H + k => b[j] = last[k]
    <3> SUFFICES ASSUME NEW k \in {1, 2, 3}, j = T + H + k PROVE b[j] = last[k]
      OBVIOUS
    <3>1. j \in T + H + 1 .. T + H + 3 /\ j - (T + H) = k
      BY <1>1
    <3> QED
      BY <1>7, <3>1
  <2> QED
    BY <1>4, <2>1, <2>2, <2>3 DEF ExportTaskAt, T, H
<1> QED
  BY <1>5, <1>7, <1>8 DEF T, H

\* What all tasks of a run are.
LEMMA RunAllAt ==
  ASSUME NEW plan, PlanOk(plan)
  PROVE  /\ IsSequence(RunAll(plan)) /\ Len(RunAll(plan)) = Refitting(plan) + 3
         /\ \A j \in 1 .. Selecting(plan) + 1 : RunTaskAt(plan, RunAll(plan), j)
         /\ \A j \in Selecting(plan) + 2 .. Refitting(plan) + 3 :
              ExportTaskAt(plan, ExportTasks(plan), j - (Selecting(plan) + 1))
                /\ RunAll(plan)[j] = ExportTasks(plan)[j - (Selecting(plan) + 1)]
<1> DEFINE a == RunTasks(plan)
           b == ExportTasks(plan)
           n == Selecting(plan) + 1
           m == Transforms(plan) + ByHost(plan) + 3
           all == RunAll(plan)
<1>1. n \in Nat /\ m \in Nat /\ n + m = Refitting(plan) + 3 /\ Selecting(plan) + 2 = n + 1
  <2> PICK t, p, c, h : Numbered(plan, t, p, c, h)
    BY Stages
  <2> USE DEF Numbered
  <2> QED
    OBVIOUS
<1>2. IsSequence(a) /\ Len(a) = n /\ \A j \in 1 .. n : RunTaskAt(plan, a, j)
  BY RunTasksAt
<1>3. IsSequence(b) /\ Len(b) = m /\ \A j \in 1 .. m : ExportTaskAt(plan, b, j)
  BY ExportTasksAt
<1>4. all = a \o b
  BY DEF RunAll
<1> HIDE DEF a, b, n, m, all
<1>5. /\ IsSequence(all) /\ Len(all) = n + m
      /\ \A i \in 1 .. n : all[i] = a[i]
      /\ \A i \in n + 1 .. n + m : all[i] = b[i - n]
  BY <1>2, <1>3, <1>4, Joining
<1>6. ASSUME NEW j \in 1 .. n
      PROVE  RunTaskAt(plan, all, j)
  BY <1>2, <1>5 DEF RunTaskAt
<1>7. ASSUME NEW j \in n + 1 .. n + m
      PROVE  ExportTaskAt(plan, b, j - n) /\ all[j] = b[j - n]
  <2>1. j - n \in 1 .. m
    BY <1>1
  <2> QED
    BY <1>3, <1>5, <2>1
<1> QED
  BY <1>1, <1>5, <1>6, <1>7 DEF n, all, b

-----------------------------------------------------------------------------
(* The stages of a run. *)

\* The task t after d others, by the stage of the run it belongs to.
RunStage(plan, d, t) ==
  \/ t.do \in {"open", "split"} /\ (d < Transforms(plan) \/ (Selecting(plan) < d /\ d < Exporting(plan)))
  \/ /\ d \in Transforms(plan) .. Fitting(plan) - 1
     /\ t = LET i == d + 1 - Transforms(plan)
            IN On(IF i % 2 = 1 THEN "train" ELSE "test", plan.preprocessing[(i + 1) \div 2])
  \/ /\ d \in Fitting(plan) .. Selecting(plan) - 1
     /\ t = Fit(plan.n_components[d + 1 - Fitting(plan)])
  \/ d = Selecting(plan) /\ t = Task("select")
  \/ /\ d \in Exporting(plan) .. Refitting(plan) - 1
     /\ t = On("train", plan.preprocessing[d + 1 - Exporting(plan)])
  \/ d = Refitting(plan) /\ t = Task("refit")
  \/ d = Refitting(plan) + 1 /\ t = Task("inspect")
  \/ d = Refitting(plan) + 2 /\ t = Task("agree")

\* The task that follows d others.
LEMMA RunStages ==
  ASSUME NEW plan, PlanOk(plan), NEW d \in Nat, d < Len(RunAll(plan))
  PROVE  RunStage(plan, d, RunAll(plan)[d + 1])
<1> DEFINE all == RunAll(plan)
           a == all[d + 1]
<1> PICK t, p, c, h : Numbered(plan, t, p, c, h)
  BY Stages
<1> USE DEF Numbered
<1> DEFINE n == t + 2 * p + c + 1
<1>0. /\ Len(all) = Refitting(plan) + 3
      /\ \A j \in 1 .. Selecting(plan) + 1 : RunTaskAt(plan, all, j)
      /\ \A j \in Selecting(plan) + 2 .. Refitting(plan) + 3 :
           ExportTaskAt(plan, ExportTasks(plan), j - (Selecting(plan) + 1))
             /\ all[j] = ExportTasks(plan)[j - (Selecting(plan) + 1)]
  BY RunAllAt
<1> HIDE DEF all
<1>2. CASE d + 1 \in 1 .. n
  <2>1. RunTaskAt(plan, all, d + 1)
    BY <1>0, <1>2
  <2>2. CASE d < t
    <3>1. d + 1 \in 1 .. Transforms(plan)
      BY <2>2
    <3>2. all[d + 1].do \in {"open", "split"}
      BY <2>1, <3>1 DEF RunTaskAt
    <3> QED
      BY <2>2, <3>2 DEF RunStage, all
  <2>3. CASE d \in t .. t + 2 * p - 1
    <3>1. d + 1 \in Transforms(plan) + 1 .. Fitting(plan)
      BY <2>3
    <3>2. all[d + 1] = LET i == d + 1 - Transforms(plan)
                       IN On(IF i % 2 = 1 THEN "train" ELSE "test",
                             plan.preprocessing[(i + 1) \div 2])
      BY <2>1, <3>1 DEF RunTaskAt
    <3> QED
      BY <2>3, <3>2 DEF RunStage, all
  <2>4. CASE d \in t + 2 * p .. t + 2 * p + c - 1
    <3>1. d + 1 \in Fitting(plan) + 1 .. Selecting(plan)
      BY <2>4
    <3>2. all[d + 1] = Fit(plan.n_components[d + 1 - Fitting(plan)])
      <4> DEFINE j == d + 1
      <4>1. j - Fitting(plan) = d + 1 - Fitting(plan)
        OBVIOUS
      <4> HIDE DEF j
      <4>2. all[j] = Fit(plan.n_components[j - Fitting(plan)])
        BY <2>1, <3>1 DEF RunTaskAt, j
      <4> QED
        BY <4>1, <4>2 DEF j
    <3>3. d \in Fitting(plan) .. Selecting(plan) - 1
      BY <2>4
    <3> HIDE DEF Numbered
    <3> QED
      BY <3>2, <3>3 DEF RunStage, all
  <2>5. CASE d = t + 2 * p + c
    <3>1. d = Selecting(plan) /\ d + 1 = Selecting(plan) + 1
      BY <2>5
    <3>2. all[d + 1] = Task("select")
      BY <2>1, <3>1 DEF RunTaskAt
    <3> QED
      BY <3>1, <3>2 DEF RunStage, all
  <2> QED
    BY <1>2, <2>2, <2>3, <2>4, <2>5
<1>3. CASE d + 1 \in n + 1 .. n + t + h + 3
  <2> DEFINE j == d + 1 - (Selecting(plan) + 1)
             b == ExportTasks(plan)
  <2>0. j = d + 1 - n /\ d + 1 \in Selecting(plan) + 2 .. Refitting(plan) + 3
    BY <1>3
  <2>1. ExportTaskAt(plan, b, j) /\ a = b[j]
    BY <1>0, <2>0 DEF all
  <2> HIDE DEF j, b, a
  <2>2. CASE j \in 1 .. t
    <3>1. Selecting(plan) < d /\ d < Exporting(plan)
      BY <2>0, <2>2
    <3>2. a.do \in {"open", "split"}
      BY <2>1, <2>2 DEF ExportTaskAt
    <3> HIDE DEF Numbered
    <3> QED
      BY <3>1, <3>2 DEF RunStage, a, all
  <2>3. CASE j \in t + 1 .. t + h
    <3>1. d \in Exporting(plan) .. Refitting(plan) - 1 /\ j - Transforms(plan) = d + 1 - Exporting(plan)
          /\ j \in Transforms(plan) + 1 .. Transforms(plan) + ByHost(plan)
      BY <2>0, <2>3
    <3>2. a = On("train", plan.preprocessing[j - Transforms(plan)])
      BY <2>1, <3>1 DEF ExportTaskAt
    <3> HIDE DEF Numbered
    <3> QED
      BY <3>1, <3>2 DEF RunStage, a, all
  <2>4. CASE j = t + h + 1
    <3>1. d = Refitting(plan) /\ j = Transforms(plan) + ByHost(plan) + 1
      BY <2>0, <2>4
    <3>2. a = Task("refit")
      BY <2>1, <3>1 DEF ExportTaskAt
    <3> HIDE DEF Numbered
    <3> QED
      BY <3>1, <3>2 DEF RunStage, a, all
  <2>5. CASE j = t + h + 2
    <3>1. d = Refitting(plan) + 1 /\ j = Transforms(plan) + ByHost(plan) + 2
      BY <2>0, <2>5
    <3>2. a = Task("inspect")
      BY <2>1, <3>1 DEF ExportTaskAt
    <3> HIDE DEF Numbered
    <3> QED
      BY <3>1, <3>2 DEF RunStage, a, all
  <2>6. CASE j = t + h + 3
    <3>1. d = Refitting(plan) + 2 /\ j = Transforms(plan) + ByHost(plan) + 3
      BY <2>0, <2>6
    <3>2. a = Task("agree")
      BY <2>1, <3>1 DEF ExportTaskAt
    <3> HIDE DEF Numbered
    <3> QED
      BY <3>1, <3>2 DEF RunStage, a, all
  <2> QED
    BY <1>3, <2>0, <2>2, <2>3, <2>4, <2>5, <2>6
<1>4. d + 1 \in 1 .. n \/ d + 1 \in n + 1 .. n + t + h + 3
  BY <1>0 DEF all
<1> QED
  BY <1>2, <1>3, <1>4

\* How the rows, the variants and the stage move with a task.
LEMMA Halves ==
  ASSUME NEW x \in Nat
  PROVE  \E k \in Nat :
           \/ x = 2 * k /\ (x + 1) % 2 = 1 /\ x \div 2 = k /\ (x + 1) \div 2 = k
                /\ (x + 2) \div 2 = k + 1 /\ (x + 1 + 1) \div 2 = k + 1
           \/ x = 2 * k + 1 /\ (x + 1) % 2 = 0 /\ x \div 2 = k /\ (x + 1) \div 2 = k + 1
                /\ (x + 2) \div 2 = k + 1 /\ (x + 1 + 1) \div 2 = k + 1
<1>1. x \div 2 \in Nat
  OBVIOUS
<1>2. x = 2 * (x \div 2) \/ x = 2 * (x \div 2) + 1
  OBVIOUS
<1>3. ASSUME NEW k \in Nat
      PROVE  /\ x = 2 * k => (x + 1) % 2 = 1 /\ x \div 2 = k /\ (x + 1) \div 2 = k
                               /\ (x + 2) \div 2 = k + 1 /\ (x + 1 + 1) \div 2 = k + 1
             /\ x = 2 * k + 1 => (x + 1) % 2 = 0 /\ x \div 2 = k /\ (x + 1) \div 2 = k + 1
                               /\ (x + 2) \div 2 = k + 1 /\ (x + 1 + 1) \div 2 = k + 1
  OBVIOUS
<1> QED
  BY <1>1, <1>2, <1>3

\* Where no row is transformed, the numbers of steps gone through stay.
LEMMA RowsStay ==
  ASSUME NEW plan, PlanOk(plan), NEW d \in Nat,
         \/ d < Transforms(plan)
         \/ d \in Fitting(plan) .. Selecting(plan) - 1
         \/ Selecting(plan) < d /\ d < Exporting(plan)
         \/ d >= Refitting(plan)
  PROVE  TestRows(plan, d + 1) = TestRows(plan, d) /\ TrainRows(plan, d + 1) = TrainRows(plan, d)
<1> PICK t, p, c, h : Numbered(plan, t, p, c, h)
  BY Stages
<1> USE DEF Numbered
<1>1. Within((d + 1 - t) \div 2, p) = Within((d - t) \div 2, p)
  BY DEF Within
<1>2. CASE d + 1 <= t + 2 * p + c
  <2>1. Within((d + 1 - t + 1) \div 2, p) = Within((d - t + 1) \div 2, p)
    BY <1>2 DEF Within
  <2> QED
    BY <1>1, <1>2, <2>1 DEF TestRows, TrainRows
<1>3. CASE ~ (d + 1 <= t + 2 * p + c)
  <2>1. ~ (d <= t + 2 * p + c)
    BY <1>3
  <2>2. Within(d + 1 - (t + 2 * p + c + 1 + t), h) = Within(d - (t + 2 * p + c + 1 + t), h)
    BY <1>3 DEF Within
  <2> QED
    BY <1>1, <1>3, <2>1, <2>2 DEF TestRows, TrainRows
<1> QED
  BY <1>2, <1>3

\* Before the fits, train and test rows are transformed in turn.
LEMMA RowsTransform ==
  ASSUME NEW plan, PlanOk(plan), NEW d \in Transforms(plan) .. Fitting(plan) - 1
  PROVE  LET i == d + 1 - Transforms(plan) IN
         /\ i % 2 = 1 => /\ TrainRows(plan, d) \in 0 .. Len(plan.preprocessing) - 1
                         /\ (i + 1) \div 2 = TrainRows(plan, d) + 1
                         /\ TrainRows(plan, d + 1) = TrainRows(plan, d) + 1
                         /\ TestRows(plan, d + 1) = TestRows(plan, d)
         /\ i % 2 # 1 => /\ TestRows(plan, d) \in 0 .. Len(plan.preprocessing) - 1
                         /\ (i + 1) \div 2 = TestRows(plan, d) + 1
                         /\ TestRows(plan, d + 1) = TestRows(plan, d) + 1
                         /\ TrainRows(plan, d + 1) = TrainRows(plan, d)
<1> PICK t, p, c, h : Numbered(plan, t, p, c, h)
  BY Stages
<1> USE DEF Numbered
<1> DEFINE x == d - t
<1>1. /\ x \in Nat /\ x < 2 * p /\ d + 1 - t = x + 1 /\ d + 1 - t + 1 = x + 2 /\ d - t + 1 = x + 1
      /\ d <= t + 2 * p + c /\ d + 1 <= t + 2 * p + c
  OBVIOUS
<1> HIDE DEF x
<1> PICK k \in Nat :
           \/ x = 2 * k /\ (x + 1) % 2 = 1 /\ x \div 2 = k /\ (x + 1) \div 2 = k
                /\ (x + 2) \div 2 = k + 1 /\ (x + 1 + 1) \div 2 = k + 1
           \/ x = 2 * k + 1 /\ (x + 1) % 2 = 0 /\ x \div 2 = k /\ (x + 1) \div 2 = k + 1
                /\ (x + 2) \div 2 = k + 1 /\ (x + 1 + 1) \div 2 = k + 1
  BY <1>1, Halves
<1>2. k < p /\ Within(k, p) = k /\ Within(k + 1, p) = k + 1
  BY <1>1 DEF Within
<1>3. /\ TestRows(plan, d) = Within(x \div 2, p) /\ TestRows(plan, d + 1) = Within((x + 1) \div 2, p)
      /\ TrainRows(plan, d) = Within((x + 1) \div 2, p)
      /\ TrainRows(plan, d + 1) = Within((x + 2) \div 2, p)
  BY <1>1 DEF TestRows, TrainRows, x
<1> DEFINE i == d + 1 - Transforms(plan)
<1>4. i = x + 1
  BY <1>1
<1> HIDE DEF i
<1>5. i % 2 = (x + 1) % 2 /\ (i + 1) \div 2 = k + 1
  BY <1>4
<1>6. /\ i % 2 = 1 => /\ TrainRows(plan, d) = k /\ TrainRows(plan, d + 1) = k + 1
                      /\ TestRows(plan, d) = k /\ TestRows(plan, d + 1) = k
      /\ i % 2 # 1 => /\ TestRows(plan, d) = k /\ TestRows(plan, d + 1) = k + 1
                      /\ TrainRows(plan, d) = k + 1 /\ TrainRows(plan, d + 1) = k + 1
  BY <1>2, <1>3, <1>5
<1>7. k \in 0 .. Len(plan.preprocessing) - 1
  BY <1>2
<1> QED
  BY <1>5, <1>6, <1>7 DEF i

\* The numbers of steps gone through at the bounds of the stages.
LEMMA RowsRest ==
  ASSUME NEW plan, PlanOk(plan)
  PROVE  /\ TestRows(plan, Selecting(plan)) = Len(plan.preprocessing)
         /\ TrainRows(plan, Selecting(plan)) = Len(plan.preprocessing)
         /\ TestRows(plan, Selecting(plan) + 1) = Len(plan.preprocessing)
         /\ TrainRows(plan, Selecting(plan) + 1) = 0
         /\ TestRows(plan, 0) = 0 /\ TrainRows(plan, 0) = 0
         /\ \A d \in Nat : d >= Refitting(plan) => TrainRows(plan, d) = ByHost(plan)
         /\ \A d \in Exporting(plan) .. Refitting(plan) - 1 :
              /\ TrainRows(plan, d) = d - Exporting(plan)
              /\ TrainRows(plan, d) \in 0 .. Len(plan.preprocessing) - 1
              /\ TrainRows(plan, d + 1) = TrainRows(plan, d) + 1
              /\ TestRows(plan, d + 1) = TestRows(plan, d)
<1> PICK t, p, c, h : Numbered(plan, t, p, c, h)
  BY Stages
<1> USE DEF Numbered
<1> DEFINE S == t + 2 * p + c
<1>1. TestRows(plan, S) = p /\ TrainRows(plan, S) = p
  <2>1. Within((S - t) \div 2, p) = p /\ Within((S - t + 1) \div 2, p) = p
    BY DEF Within
  <2> QED
    BY <2>1 DEF TestRows, TrainRows
<1>2. TestRows(plan, S + 1) = p /\ TrainRows(plan, S + 1) = 0
  <2>1. Within((S + 1 - t) \div 2, p) = p /\ Within(S + 1 - (t + 2 * p + c + 1 + t), h) = 0
        /\ ~ (S + 1 <= S)
    BY DEF Within
  <2> QED
    BY <2>1 DEF TestRows, TrainRows
<1>3. TestRows(plan, 0) = 0 /\ TrainRows(plan, 0) = 0
  <2>1. Within((0 - t) \div 2, p) = 0 /\ Within((0 - t + 1) \div 2, p) = 0 /\ 0 <= S
    BY DEF Within
  <2> QED
    BY <2>1 DEF TestRows, TrainRows
<1>4. ASSUME NEW d \in Nat, d >= Refitting(plan)
      PROVE  TrainRows(plan, d) = h
  <2>1. Within(d - (t + 2 * p + c + 1 + t), h) = h /\ ~ (d <= S)
    BY <1>4 DEF Within
  <2> QED
    BY <2>1 DEF TrainRows
<1>5. ASSUME NEW d \in Exporting(plan) .. Refitting(plan) - 1
      PROVE  /\ TrainRows(plan, d) = d - Exporting(plan)
             /\ TrainRows(plan, d) \in 0 .. p - 1
             /\ TrainRows(plan, d + 1) = TrainRows(plan, d) + 1
             /\ TestRows(plan, d + 1) = TestRows(plan, d)
  <2> DEFINE E == t + 2 * p + c + 1 + t
  <2>0. d \in Int /\ d >= E /\ d < E + h
    OBVIOUS
  <2>1. /\ Within(d - E, h) = d - E /\ ~ (d <= S) /\ d - E \in 0 .. p - 1
        /\ Within(d + 1 - E, h) = d + 1 - E /\ ~ (d + 1 <= S) /\ d + 1 - E = d - E + 1
    BY <2>0 DEF Within
  <2>2. Within((d + 1 - t) \div 2, p) = p /\ Within((d - t) \div 2, p) = p
    BY <2>0 DEF Within
  <2> QED
    BY <2>1, <2>2 DEF TrainRows, TestRows
<1> QED
  BY <1>1, <1>2, <1>3, <1>4, <1>5

-----------------------------------------------------------------------------
(* What each task does to the data of a run. *)

\* A run has the plan of its definition.
LEMMA OfKnownPlans ==
  ASSUME NEW w, OfKnown(w)
  PROVE  /\ PlanOk(w.plan) /\ PlanOf(w.definition) = w.plan /\ w.plan # Refused
         /\ w.definition \in Definitions
BY KnownPlans DEF OfKnown, Definitions

\* v has the definition, the rows, ... of w.
SamePlan(v, w) == v.definition = w.definition /\ v.plan = w.plan
SameRows(v, w) == v.rows.train = w.rows.train /\ v.rows.test = w.rows.test
SameChoice(v, w) ==
  v.variants = w.variants /\ v.selected = w.selected
    /\ v.judged.train = w.judged.train /\ v.judged.test = w.judged.test

\* Where a run is: nothing selected yet, no model yet.
LEMMA RunBounds ==
  ASSUME NEW plan, PlanOk(plan)
  PROVE  /\ Transforms(plan) \in {1, 2} /\ Fitting(plan) \in Nat /\ Selecting(plan) \in Nat
         /\ Exporting(plan) \in Nat /\ Refitting(plan) \in Nat
         /\ Transforms(plan) <= Fitting(plan) /\ Fitting(plan) < Selecting(plan)
         /\ Selecting(plan) + 1 < Exporting(plan) /\ Exporting(plan) <= Refitting(plan)
<1> PICK t, p, c, h : Numbered(plan, t, p, c, h)
  BY Stages
<1> QED
  BY DEF Numbered

\* Where no variant is fitted, their number stays.
LEMMA VariantsStay ==
  ASSUME NEW w, NEW v, PlanOk(w.plan), NEW d \in Nat, VariantsAt(w, d), v.plan = w.plan,
         v.variants = w.variants, d < Fitting(w.plan) \/ d >= Selecting(w.plan)
  PROVE  VariantsAt(v, d + 1)
<1> PICK t, p, c, h : Numbered(w.plan, t, p, c, h)
  BY Stages
<1>1. Within(d + 1 - (t + 2 * p), c) = Within(d - (t + 2 * p), c)
  BY DEF Within, Numbered
<1> QED
  BY <1>1 DEF VariantsAt, Numbered

\* A task that does no work on the data: open, split, inspect, agree.
LEMMA RunOther ==
  ASSUME NEW w, NEW d \in Nat, RunAt(w, d), NEW v, SamePlan(v, w), SameRows(v, w),
         SameChoice(v, w), v.export = w.export,
         \/ d < Transforms(w.plan)
         \/ Selecting(w.plan) < d /\ d < Exporting(w.plan)
         \/ d > Refitting(w.plan)
  PROVE  RunAt(v, d + 1)
<1>1. PlanOk(w.plan) /\ OfKnown(v)
  BY OfKnownPlans DEF RunAt, OfKnown, SamePlan
<1>2. /\ Transforms(w.plan) \in {1, 2} /\ Fitting(w.plan) \in Nat /\ Selecting(w.plan) \in Nat
      /\ Exporting(w.plan) \in Nat /\ Refitting(w.plan) \in Nat
      /\ Transforms(w.plan) <= Fitting(w.plan) /\ Fitting(w.plan) < Selecting(w.plan)
      /\ Selecting(w.plan) + 1 < Exporting(w.plan) /\ Exporting(w.plan) <= Refitting(w.plan)
  BY <1>1, RunBounds
<1>3. RowsAt(v, d + 1)
  <2>1. d >= Refitting(w.plan) \/ d < Transforms(w.plan) \/ (Selecting(w.plan) < d /\ d < Exporting(w.plan))
    BY <1>2
  <2>2. TestRows(w.plan, d + 1) = TestRows(w.plan, d) /\ TrainRows(w.plan, d + 1) = TrainRows(w.plan, d)
    BY <1>1, <2>1, RowsStay
  <2> QED
    BY <2>2 DEF RunAt, RowsAt, SamePlan, SameRows
<1>4. VariantsAt(v, d + 1)
  <2>1. d < Fitting(w.plan) \/ d >= Selecting(w.plan)
    BY <1>2
  <2> QED
    BY <1>1, <2>1, VariantsStay DEF RunAt, SamePlan, SameChoice
<1>5. SelectedAt(v, d + 1)
  <2>1. d <= Selecting(w.plan) <=> d + 1 <= Selecting(w.plan)
    BY <1>2
  <2> QED
    BY <2>1 DEF RunAt, SelectedAt, SamePlan, SameChoice
<1>6. ExportAt(v, d + 1)
  <2>1. d <= Refitting(w.plan) <=> d + 1 <= Refitting(w.plan)
    BY <1>2
  <2> QED
    BY <2>1 DEF RunAt, ExportAt, SamePlan, SameRows, SameChoice
<1> QED
  BY <1>1, <1>3, <1>4, <1>5, <1>6 DEF RunAt

\* A transform of a run takes its rows one step further.
LEMMA RunTransform ==
  ASSUME NEW w, NEW d \in Nat, RunAt(w, d), NEW v, SamePlan(v, w), SameChoice(v, w),
         v.export = w.export, NEW part, NEW step,
         \/ /\ d \in Transforms(w.plan) .. Fitting(w.plan) - 1
            /\ LET i == d + 1 - Transforms(w.plan)
               IN /\ part = IF i % 2 = 1 THEN "train" ELSE "test"
                  /\ step = w.plan.preprocessing[(i + 1) \div 2]
         \/ /\ d \in Exporting(w.plan) .. Refitting(w.plan) - 1
            /\ part = "train" /\ step = w.plan.preprocessing[d + 1 - Exporting(w.plan)],
         part = "train" => v.rows.train = Append(w.rows.train, step) /\ v.rows.test = w.rows.test,
         part = "test" => v.rows.test = Append(w.rows.test, step) /\ v.rows.train = w.rows.train
  PROVE  RunAt(v, d + 1)
<1> DEFINE pre == w.plan.preprocessing
<1>1. PlanOk(w.plan) /\ OfKnown(v) /\ IsSequence(pre)
  BY OfKnownPlans, Counting DEF RunAt, OfKnown, SamePlan
<1>2. /\ Transforms(w.plan) \in {1, 2} /\ Fitting(w.plan) \in Nat /\ Selecting(w.plan) \in Nat
      /\ Exporting(w.plan) \in Nat /\ Refitting(w.plan) \in Nat
      /\ Transforms(w.plan) <= Fitting(w.plan) /\ Fitting(w.plan) < Selecting(w.plan)
      /\ Selecting(w.plan) + 1 < Exporting(w.plan) /\ Exporting(w.plan) <= Refitting(w.plan)
  BY <1>1, RunBounds
<1>3. RowsAt(v, d + 1)
  <2>0. /\ w.rows.test = Prefix(pre, TestRows(w.plan, d))
        /\ w.rows.train = Prefix(pre, TrainRows(w.plan, d)) /\ v.plan = w.plan
    BY DEF RunAt, RowsAt, SamePlan
  <2>1. \A n \in 0 .. Len(pre) - 1 : Append(Prefix(pre, n), pre[n + 1]) = Prefix(pre, n + 1)
    BY <1>1, PrefixFacts
  <2>2. CASE d \in Transforms(w.plan) .. Fitting(w.plan) - 1
    <3> DEFINE i == d + 1 - Transforms(w.plan)
    <3>1. part = (IF i % 2 = 1 THEN "train" ELSE "test") /\ step = pre[(i + 1) \div 2]
      BY <1>2, <2>2
    <3>2. /\ i % 2 = 1 => /\ TrainRows(w.plan, d) \in 0 .. Len(pre) - 1
                          /\ (i + 1) \div 2 = TrainRows(w.plan, d) + 1
                          /\ TrainRows(w.plan, d + 1) = TrainRows(w.plan, d) + 1
                          /\ TestRows(w.plan, d + 1) = TestRows(w.plan, d)
          /\ i % 2 # 1 => /\ TestRows(w.plan, d) \in 0 .. Len(pre) - 1
                          /\ (i + 1) \div 2 = TestRows(w.plan, d) + 1
                          /\ TestRows(w.plan, d + 1) = TestRows(w.plan, d) + 1
                          /\ TrainRows(w.plan, d + 1) = TrainRows(w.plan, d)
      BY <1>1, <2>2, RowsTransform
    <3> HIDE DEF i, pre
    <3>3. CASE i % 2 = 1
      <4>1. part = "train" /\ step = pre[TrainRows(w.plan, d) + 1]
        BY <3>1, <3>2, <3>3
      <4> QED
        BY <2>0, <2>1, <3>2, <3>3, <4>1 DEF RowsAt, pre
    <3>4. CASE i % 2 # 1
      <4>1. part = "test" /\ step = pre[TestRows(w.plan, d) + 1]
        BY <3>1, <3>2, <3>4
      <4> QED
        BY <2>0, <2>1, <3>2, <3>4, <4>1 DEF RowsAt, pre
    <3> QED
      BY <3>3, <3>4
  <2>3. CASE d \in Exporting(w.plan) .. Refitting(w.plan) - 1
    <3>1. part = "train" /\ step = pre[d + 1 - Exporting(w.plan)]
      BY <1>2, <2>3
    <3>2. /\ TrainRows(w.plan, d) = d - Exporting(w.plan)
          /\ TrainRows(w.plan, d) \in 0 .. Len(pre) - 1
          /\ TrainRows(w.plan, d + 1) = TrainRows(w.plan, d) + 1
          /\ TestRows(w.plan, d + 1) = TestRows(w.plan, d)
      BY <1>1, <2>3, RowsRest
    <3>3. d + 1 - Exporting(w.plan) = TrainRows(w.plan, d) + 1
      BY <1>2, <3>2
    <3> HIDE DEF pre
    <3> QED
      BY <2>0, <2>1, <3>1, <3>2, <3>3 DEF RowsAt, pre
  <2> QED
    BY <2>2, <2>3
<1>4. VariantsAt(v, d + 1)
  <2>1. d < Fitting(w.plan) \/ d >= Selecting(w.plan)
    BY <1>2
  <2> QED
    BY <1>1, <2>1, VariantsStay DEF RunAt, SamePlan, SameChoice
<1>5. SelectedAt(v, d + 1)
  <2>1. d <= Selecting(w.plan) <=> d + 1 <= Selecting(w.plan)
    BY <1>2
  <2> QED
    BY <2>1 DEF RunAt, SelectedAt, SamePlan, SameChoice
<1>6. ExportAt(v, d + 1)
  <2>1. d <= Refitting(w.plan) /\ d + 1 <= Refitting(w.plan)
    BY <1>2
  <2> QED
    BY <2>1 DEF RunAt, ExportAt, SamePlan
<1> QED
  BY <1>1, <1>3, <1>4, <1>5, <1>6 DEF RunAt

\* A fit adds its variant.
LEMMA VariantsGrow ==
  ASSUME NEW w, NEW v, PlanOk(w.plan), NEW d \in Nat, VariantsAt(w, d), v.plan = w.plan,
         d \in Fitting(w.plan) .. Selecting(w.plan) - 1,
         NEW one \in [components : Int, rmse : {NaN, 1, 2}],
         v.variants = Append(w.variants, one),
         NEW n, n = d + 1
  PROVE  VariantsAt(v, n)
<1> PICK t, p, c, h : Numbered(w.plan, t, p, c, h)
  BY Stages
<1>1. w.variants \in Variants /\ Len(w.variants) = Within(d - Fitting(w.plan), Len(w.plan.n_components))
  BY DEF VariantsAt
<1>2. v.variants \in Variants /\ Len(v.variants) = Len(w.variants) + 1
  BY <1>1, AppendProperties DEF Variants
<1>3. Within(n - (t + 2 * p), c) = Within(d - (t + 2 * p), c) + 1
  BY DEF Within, Numbered
<1>4. Len(v.variants) = Within(n - Fitting(w.plan), Len(w.plan.n_components))
  BY <1>1, <1>2, <1>3 DEF Numbered
<1> QED
  BY <1>2, <1>4 DEF VariantsAt

\* A fit of a run.
LEMMA RunFit ==
  ASSUME NEW w, NEW d \in Nat, RunAt(w, d), NEW v, SamePlan(v, w), SameRows(v, w),
         v.export = w.export, v.selected = w.selected,
         d \in Fitting(w.plan) .. Selecting(w.plan) - 1,
         NEW score \in {NaN, 1, 2},
         v.variants = Append(w.variants,
                             [components |-> w.plan.n_components[d + 1 - Fitting(w.plan)],
                              rmse |-> score])
  PROVE  RunAt(v, d + 1)
<1>1. PlanOk(w.plan) /\ OfKnown(v)
  BY OfKnownPlans DEF RunAt, OfKnown, SamePlan
<1>2. /\ Transforms(w.plan) \in {1, 2} /\ Fitting(w.plan) \in Nat /\ Selecting(w.plan) \in Nat
      /\ Exporting(w.plan) \in Nat /\ Refitting(w.plan) \in Nat
      /\ Transforms(w.plan) <= Fitting(w.plan) /\ Fitting(w.plan) < Selecting(w.plan)
      /\ Selecting(w.plan) + 1 < Exporting(w.plan) /\ Exporting(w.plan) <= Refitting(w.plan)
  BY <1>1, RunBounds
<1>3. RowsAt(v, d + 1)
  <2>1. TestRows(w.plan, d + 1) = TestRows(w.plan, d) /\ TrainRows(w.plan, d + 1) = TrainRows(w.plan, d)
    BY <1>1, RowsStay
  <2> QED
    BY <2>1 DEF RunAt, RowsAt, SamePlan, SameRows
<1>4. VariantsAt(v, d + 1)
  <2>1. d + 1 - Fitting(w.plan) \in 1 .. Len(w.plan.n_components)
    <3> PICK t, p, c, h : Numbered(w.plan, t, p, c, h)
      BY <1>1, Stages
    <3> QED
      BY DEF Numbered
  <2> DEFINE parts == w.plan.n_components[d + 1 - Fitting(w.plan)]
             one == [components |-> parts, rmse |-> score]
  <2>2. parts \in Int
    BY <1>1, <2>1, ElementOfSeq DEF PlanOk
  <2>3. v.variants = Append(w.variants, one)
    OBVIOUS
  <2> HIDE DEF parts
  <2>4. one \in [components : Int, rmse : {NaN, 1, 2}]
    BY <2>2
  <2>5. VariantsAt(w, d) /\ v.plan = w.plan
    BY DEF RunAt, SamePlan
  <2> HIDE DEF one
  <2> QED
    BY <1>1, <2>3, <2>4, <2>5, VariantsGrow
<1>5. SelectedAt(v, d + 1)
  <2>1. d <= Selecting(w.plan) /\ d + 1 <= Selecting(w.plan)
    BY <1>2
  <2> QED
    BY <2>1 DEF RunAt, SelectedAt, SamePlan
<1>6. ExportAt(v, d + 1)
  <2>1. d <= Refitting(w.plan) /\ d + 1 <= Refitting(w.plan)
    BY <1>2
  <2> QED
    BY <2>1 DEF RunAt, ExportAt, SamePlan
<1> QED
  BY <1>1, <1>3, <1>4, <1>5, <1>6 DEF RunAt

\* The selection, after which the rows of the export start again.
LEMMA RunSelect ==
  ASSUME NEW w, NEW d \in Nat, RunAt(w, d), NEW v, SamePlan(v, w), v.export = w.export,
         v.variants = w.variants, v.rows.test = w.rows.test, v.rows.train = <<>>,
         v.selected = Best(w.variants), v.judged = w.rows, d = Selecting(w.plan)
  PROVE  RunAt(v, d + 1)
<1> DEFINE pre == w.plan.preprocessing
<1>1. PlanOk(w.plan) /\ OfKnown(v) /\ IsSequence(pre)
  BY OfKnownPlans, Counting DEF RunAt, OfKnown, SamePlan
<1>2. /\ Transforms(w.plan) \in {1, 2} /\ Fitting(w.plan) \in Nat /\ Selecting(w.plan) \in Nat
      /\ Exporting(w.plan) \in Nat /\ Refitting(w.plan) \in Nat
      /\ Transforms(w.plan) <= Fitting(w.plan) /\ Fitting(w.plan) < Selecting(w.plan)
      /\ Selecting(w.plan) + 1 < Exporting(w.plan) /\ Exporting(w.plan) <= Refitting(w.plan)
  BY <1>1, RunBounds
<1>3. /\ TestRows(w.plan, d) = Len(pre) /\ TrainRows(w.plan, d) = Len(pre)
      /\ TestRows(w.plan, d + 1) = Len(pre) /\ TrainRows(w.plan, d + 1) = 0
  BY <1>1, RowsRest
<1>4. Prefix(pre, 0) = <<>> /\ Prefix(pre, Len(pre)) = pre
  BY <1>1, PrefixFacts
<1>5. w.rows.test = pre /\ w.rows.train = pre
  BY <1>3, <1>4 DEF RunAt, RowsAt
<1>6. RowsAt(v, d + 1)
  BY <1>3, <1>4, <1>5 DEF RowsAt, SamePlan
<1>7. VariantsAt(v, d + 1)
  <2>1. d < Fitting(w.plan) \/ d >= Selecting(w.plan)
    BY <1>2
  <2> QED
    BY <1>1, <2>1, VariantsStay DEF RunAt, SamePlan
<1>8. SelectedAt(v, d + 1)
  <2>1. ~ (d + 1 <= Selecting(w.plan))
    BY <1>2
  <2> QED
    BY <1>5, <2>1 DEF SelectedAt, SamePlan
<1>9. ExportAt(v, d + 1)
  <2>1. d <= Refitting(w.plan) /\ d + 1 <= Refitting(w.plan)
    BY <1>2
  <2> QED
    BY <2>1 DEF RunAt, ExportAt, SamePlan
<1> QED
  BY <1>1, <1>6, <1>7, <1>8, <1>9 DEF RunAt

\* The refit exports a model trained on the rows of the export.
LEMMA RunRefit ==
  ASSUME NEW w, NEW d \in Nat, RunAt(w, d), NEW v, SamePlan(v, w), SameRows(v, w),
         SameChoice(v, w), NEW size \in Sizes, size <= MaxModel, d = Refitting(w.plan),
         v.export = Exported(w.definition, Model(EmbeddedSpec(w.plan), w.rows.train,
                                                 w.selected.components, size))
  PROVE  RunAt(v, d + 1)
<1>1. PlanOk(w.plan) /\ OfKnown(v)
  BY OfKnownPlans DEF RunAt, OfKnown, SamePlan
<1>2. /\ Transforms(w.plan) \in {1, 2} /\ Fitting(w.plan) \in Nat /\ Selecting(w.plan) \in Nat
      /\ Exporting(w.plan) \in Nat /\ Refitting(w.plan) \in Nat
      /\ Transforms(w.plan) <= Fitting(w.plan) /\ Fitting(w.plan) < Selecting(w.plan)
      /\ Selecting(w.plan) + 1 < Exporting(w.plan) /\ Exporting(w.plan) <= Refitting(w.plan)
  BY <1>1, RunBounds
<1>3. RowsAt(v, d + 1)
  <2>1. TestRows(w.plan, d + 1) = TestRows(w.plan, d) /\ TrainRows(w.plan, d + 1) = TrainRows(w.plan, d)
    BY <1>1, <1>2, RowsStay
  <2> QED
    BY <2>1 DEF RunAt, RowsAt, SamePlan, SameRows
<1>4. VariantsAt(v, d + 1)
  <2>1. d < Fitting(w.plan) \/ d >= Selecting(w.plan)
    BY <1>2
  <2> QED
    BY <1>1, <2>1, VariantsStay DEF RunAt, SamePlan, SameChoice
<1>5. SelectedAt(v, d + 1)
  <2>1. ~ (d <= Selecting(w.plan)) /\ ~ (d + 1 <= Selecting(w.plan))
    BY <1>2
  <2> QED
    BY <2>1 DEF RunAt, SelectedAt, SamePlan, SameChoice
<1>6. ExportAt(v, d + 1)
  <2>1. ~ (d + 1 <= Refitting(w.plan))
    BY <1>2
  <2> QED
    BY <2>1 DEF ExportAt, SamePlan, SameRows, SameChoice
<1> QED
  BY <1>1, <1>3, <1>4, <1>5, <1>6 DEF RunAt

\* A run that has just begun.
LEMMA RunBegins ==
  ASSUME NEW k \in Known, k.plan # Refused, NEW w, w.definition = k.definition,
         w.plan = k.plan, w.rows.train = <<>>, w.rows.test = <<>>, w.variants = <<>>,
         w.selected = None, w.export = None
  PROVE  RunAt(w, 0)
<1>1. OfKnown(w)
  BY DEF OfKnown
<1>2. PlanOk(w.plan)
  BY <1>1, OfKnownPlans
<1>3. Transforms(w.plan) \in {1, 2} /\ Fitting(w.plan) \in Nat /\ Selecting(w.plan) \in Nat
      /\ Refitting(w.plan) \in Nat
  BY <1>2, RunBounds
<1>4. RowsAt(w, 0)
  <2>1. TestRows(w.plan, 0) = 0 /\ TrainRows(w.plan, 0) = 0
    BY <1>2, RowsRest
  <2>2. Prefix(w.plan.preprocessing, 0) = <<>>
    BY <1>2, Counting, PrefixFacts
  <2> QED
    BY <2>1, <2>2 DEF RowsAt
<1>5. VariantsAt(w, 0)
  <2> PICK t, p, c, h : Numbered(w.plan, t, p, c, h)
    BY <1>2, Stages
  <2>1. Within(0 - (t + 2 * p), c) = 0
    BY DEF Within, Numbered
  <2>2. Within(0 - Fitting(w.plan), Len(w.plan.n_components)) = 0
    BY <2>1 DEF Numbered
  <2>3. <<>> \in Variants /\ Len(<<>>) = 0
    BY EmptySeq DEF Variants
  <2> QED
    BY <2>2, <2>3 DEF VariantsAt
<1>6. SelectedAt(w, 0) /\ ExportAt(w, 0)
  BY <1>3 DEF SelectedAt, ExportAt
<1> QED
  BY <1>1, <1>4, <1>5, <1>6 DEF RunAt

\* What a run has selected.
LEMMA RunHasSelected ==
  ASSUME NEW w, NEW d \in Nat, RunAt(w, d), w.selected # None
  PROVE  /\ w.judged.train = w.plan.preprocessing /\ w.judged.test = w.plan.preprocessing
         /\ w.variants \in Variants /\ w.variants # <<>>
         /\ FirstBest(w.variants, Len(w.variants), w.selected)
<1>1. PlanOk(w.plan)
  BY OfKnownPlans DEF RunAt
<1>2. /\ ~ (d <= Selecting(w.plan)) /\ w.selected = Best(w.variants)
      /\ w.judged.train = w.plan.preprocessing /\ w.judged.test = w.plan.preprocessing
  BY DEF RunAt, SelectedAt
<1>3. /\ w.variants \in Variants
      /\ Len(w.variants) = Within(d - Fitting(w.plan), Len(w.plan.n_components))
  BY DEF RunAt, VariantsAt
<1>4. Len(w.variants) # 0
  <2> PICK t, p, c, h : Numbered(w.plan, t, p, c, h)
    BY <1>1, Stages
  <2>1. Within(d - (t + 2 * p), c) = c
    BY <1>2 DEF Within, Numbered
  <2> QED
    BY <1>3, <2>1 DEF Numbered
<1>5. w.variants # <<>>
  BY <1>3, <1>4, EmptySeq
<1> QED
  BY <1>2, <1>3, <1>5, BestIsFirst

\* What a run exports is what a session may hold.
LEMMA RunExports ==
  ASSUME NEW w, NEW d \in Nat, RunAt(w, d), w.export # None \/ d > Refitting(w.plan)
  PROVE  /\ IsExport(w.export) /\ Genuine(w.export) /\ Joined(w.export, w.export.definition)
         /\ w.export.definition = w.definition
         /\ w.export.model.components = w.selected.components
<1>1. /\ PlanOk(w.plan) /\ PlanOf(w.definition) = w.plan /\ w.plan # Refused
      /\ w.definition \in Definitions
  BY OfKnownPlans DEF RunAt
<1>2. ~ (d <= Refitting(w.plan))
  BY <1>1, RunBounds DEF RunAt, ExportAt
<1> DEFINE x == w.export
           spec == EmbeddedSpec(w.plan)
           trained == w.rows.train
           parts == w.selected.components
<1> PICK size \in Sizes : size <= MaxModel /\ x = Exported(w.definition, Model(spec, trained, parts, size))
  BY <1>2 DEF RunAt, ExportAt
<1> HIDE DEF x, trained, parts, spec
<1>3. /\ DOMAIN x = {"schema", "definition", "digested", "model", "cols", "declared"}
      /\ DOMAIN x.model = {"does", "trained", "components", "cols", "size", "damaged"}
      /\ x.schema = (IF spec = NotEmbedded THEN 1 ELSE 2)
      /\ x.definition = w.definition /\ x.digested = w.definition /\ x.cols = Width
      /\ x.declared = Declared(spec)
      /\ x.model.does = spec /\ x.model.trained = trained /\ x.model.components = parts
      /\ x.model.cols = Width /\ x.model.size = size /\ x.model.damaged = FALSE
  BY DEF Exported, Model
<1>4. Width \in Nat \ {0} /\ size \in Nat
  BY SessionAssumption
<1>5. IsExport(x)
  BY <1>1, <1>3, <1>4 DEF IsExport
<1>6. ExportOk(x)
  BY <1>1, <1>3, <1>4 DEF ExportOk
<1>7. ContractOk(x)
  BY <1>1, <1>3 DEF ContractOk, PlanAgrees, spec
<1>8. Joined(x, x.definition)
  <2>1. TrainRows(w.plan, d) = ByHost(w.plan)
    <3>1. d >= Refitting(w.plan)
      BY <1>1, <1>2, RunBounds
    <3> QED
      BY <1>1, <3>1, RowsRest
  <2>2. trained = Prefix(w.plan.preprocessing, ByHost(w.plan))
    BY <2>1 DEF RunAt, RowsAt, trained
  <2>3. IsSequence(w.plan.preprocessing)
    BY <1>1, Counting
  <2>4. CASE spec = NotEmbedded
    <3>1. trained = w.plan.preprocessing /\ Performed(spec) = <<>>
      BY <2>2, <2>3, <2>4, PrefixFacts DEF ByHost, Performed, spec
    <3>2. trained \o Performed(spec) = w.plan.preprocessing
      BY <2>3, <3>1, ListFacts
    <3> QED
      BY <1>1, <1>3, <3>2 DEF Joined
  <2>5. CASE spec # NotEmbedded
    <3>1. trained = <<>> /\ Performed(spec) = w.plan.preprocessing
      BY <1>1, <2>2, <2>3, <2>5, PrefixFacts, Embeds DEF ByHost, spec
    <3>2. trained \o Performed(spec) = w.plan.preprocessing
      BY <2>3, <3>1, ListFacts
    <3> QED
      BY <1>1, <1>3, <3>2 DEF Joined
  <2> QED
    BY <2>4, <2>5
<1> QED
  BY <1>3, <1>5, <1>6, <1>7, <1>8 DEF x, parts, Genuine

-----------------------------------------------------------------------------
(* The tasks of a load and of a prediction. *)

LoadStage(d, t) ==
  \/ d \in {0, 2} /\ t.do = "inspect"
  \/ d = 1 /\ t.do = "contract"
  \/ d = 3 /\ t.do = "agree"
  \/ d = 4 /\ t.do = "open"
  \/ d = 5 /\ t.do = "import"

\* The tasks of a load.
LEMMA LoadStages ==
  /\ IsSequence(LoadTasks) /\ Len(LoadTasks) = 6
  /\ \A d \in 0 .. 5 : LoadStage(d, LoadTasks[d + 1])
<1> DEFINE s == LoadTasks
<1>1. /\ s \in Seq({s[1], s[2], s[3], s[4], s[5], s[6]}) /\ Len(s) = 6
      /\ s[1] = Task("inspect") /\ s[2] = Task("contract") /\ s[3] = Task("inspect")
      /\ s[4] = Task("agree") /\ s[5] = Task("open") /\ s[6] = Task("import")
  BY DEF LoadTasks
<1>2. IsSequence(s)
  BY <1>1, Sequenced
<1> HIDE DEF s
<1>3. ASSUME NEW d \in 0 .. 5
      PROVE  LoadStage(d, s[d + 1])
  <2>1. d \in {0, 1, 2, 3, 4, 5}
    OBVIOUS
  <2> QED
    BY <1>1, <2>1, TaskFields DEF LoadStage
<1> QED
  BY <1>1, <1>2, <1>3 DEF s

PredictStage(w, d, t) ==
  \/ d = 0 /\ t.do = "inspect"
  \/ d = 1 /\ t.do = "agree"
  \/ d = 2 /\ t.do = "open"
  \/ d \in 3 .. 2 + HostSteps(w) /\ t = On("new", w.plan.preprocessing[d - 2])
  \/ d = 3 + HostSteps(w) /\ t.do = "import"

\* The tasks of a prediction.
LEMMA PredictStages ==
  ASSUME NEW w, IsSequence(w.plan.preprocessing)
  PROVE  /\ IsSequence(PredictTasks(w)) /\ Len(PredictTasks(w)) = HostSteps(w) + 4
         /\ HostSteps(w) \in 0 .. Len(w.plan.preprocessing) /\ HostSteps(w) \in Nat
         /\ \A d \in 0 .. HostSteps(w) + 3 : PredictStage(w, d, PredictTasks(w)[d + 1])
<1> DEFINE h == HostSteps(w)
           first == <<Task("inspect"), Task("agree"), Task("open")>>
           host == IF w.export.model.does = NotEmbedded THEN OnAll("new", w.plan.preprocessing)
                   ELSE <<>>
           last == <<Task("import")>>
           a == first \o host
           b == a \o last
<1>1. h \in 0 .. Len(w.plan.preprocessing) /\ h \in Nat
  BY ListFacts DEF HostSteps
<1>2. /\ IsSequence(first) /\ Len(first) = 3 /\ first[1] = Task("inspect")
      /\ first[2] = Task("agree") /\ first[3] = Task("open")
  BY Three
<1>3. /\ IsSequence(host) /\ Len(host) = h
      /\ \A i \in 1 .. h : host[i] = On("new", w.plan.preprocessing[i])
  <2>1. CASE w.export.model.does = NotEmbedded
    BY <2>1, TaskLists DEF HostSteps
  <2>2. CASE w.export.model.does # NotEmbedded
    <3>1. host = <<>> /\ h = 0
      BY <2>2 DEF HostSteps
    <3>2. IsSequence(<<>>)
      BY DEF IsSequence
    <3> HIDE DEF host, h
    <3>3. Len(host) = 0
      BY <3>1, <3>2, ListFacts
    <3> QED
      BY <3>1, <3>2, <3>3
  <2> QED
    BY <2>1, <2>2
<1>4. IsSequence(last) /\ Len(last) = 1 /\ last[1] = Task("import")
  BY One
<1>5. PredictTasks(w) = b
  BY DEF PredictTasks
<1> HIDE DEF first, host, last, h
<1>6. /\ IsSequence(a) /\ Len(a) = 3 + h
      /\ \A i \in 1 .. 3 : a[i] = first[i]
      /\ \A i \in 4 .. 3 + h : a[i] = host[i - 3]
  <2>1. /\ IsSequence(a) /\ Len(a) = Len(first) + Len(host)
        /\ \A i \in 1 .. Len(first) : a[i] = first[i]
        /\ \A i \in Len(first) + 1 .. Len(first) + Len(host) : a[i] = host[i - Len(first)]
    BY <1>2, <1>3, Joining
  <2> HIDE DEF a
  <2>2. 3 + 1 = 4
    OBVIOUS
  <2> QED
    BY <1>2, <1>3, <2>1, <2>2
<1> HIDE DEF a
<1>7. /\ IsSequence(b) /\ Len(b) = h + 4
      /\ \A i \in 1 .. 3 + h : b[i] = a[i]
      /\ b[4 + h] = Task("import")
  <2>1. /\ IsSequence(b) /\ Len(b) = Len(a) + Len(last)
        /\ \A i \in 1 .. Len(a) : b[i] = a[i]
        /\ \A i \in Len(a) + 1 .. Len(a) + Len(last) : b[i] = last[i - Len(a)]
    BY <1>4, <1>6, Joining
  <2> HIDE DEF b
  <2>2. 4 + h \in Len(a) + 1 .. Len(a) + Len(last) /\ 4 + h - Len(a) = 1 /\ 3 + h + 1 = h + 4
    BY <1>1, <1>4, <1>6
  <2> QED
    BY <1>4, <1>6, <2>1, <2>2
<1> HIDE DEF b
<1>8. ASSUME NEW d \in 0 .. h + 3
      PROVE  PredictStage(w, d, b[d + 1])
  <2>1. CASE d \in {0, 1, 2}
    <3>1. d + 1 \in 1 .. 3 /\ d + 1 \in 1 .. 3 + h
      BY <1>1, <2>1
    <3>2. b[d + 1] = first[d + 1]
      BY <1>6, <1>7, <3>1
    <3> QED
      BY <1>2, <2>1, <3>2, TaskFields DEF PredictStage
  <2>2. CASE d \in 3 .. 2 + h
    <3>1. d + 1 \in 4 .. 3 + h /\ d + 1 \in 1 .. 3 + h /\ d + 1 - 3 = d - 2 /\ d - 2 \in 1 .. h
      BY <1>1, <2>2
    <3>2. b[d + 1] = On("new", w.plan.preprocessing[d - 2])
      BY <1>3, <1>6, <1>7, <3>1
    <3> QED
      BY <2>2, <3>2 DEF PredictStage, h
  <2>3. CASE d = 3 + h
    <3>1. b[d + 1] = Task("import")
      BY <1>1, <1>7, <2>3
    <3> QED
      BY <2>3, <3>1, TaskFields DEF PredictStage, h
  <2> QED
    BY <1>1, <2>1, <2>2, <2>3
<1> QED
  BY <1>1, <1>5, <1>7, <1>8 DEF h

-----------------------------------------------------------------------------
(* What a task does to the data of a load and of a prediction. *)

\* The library stays the pinned one when it is inspected and when it is opened.
LEMMA LibraryNext ==
  ASSUME NEW w, NEW v, NEW d \in Nat, NEW opening \in Nat, NEW lib, NEW pin, NEW next,
         LibraryAt(w, d, opening, lib, pin), v.replaced = w.replaced,
         next = lib \/ (d > 0 /\ next = pin),
         v.library = lib \/ (v.library = w.library /\ d # opening)
  PROVE  LibraryAt(v, d + 1, opening, lib, next)
<1> SUFFICES ASSUME ~v.replaced PROVE next = lib /\ (d + 1 > opening => v.library = lib)
  BY DEF LibraryAt
<1>1. d > 0 => pin = lib
  BY DEF LibraryAt
<1>2. d > opening => w.library = lib
  BY DEF LibraryAt
<1> QED
  BY <1>1, <1>2

\* v has what w replays.
SameExport(v, w) ==
  /\ v.plan = w.plan /\ v.export = w.export /\ v.cols = w.cols /\ v.selected = w.selected
  /\ v.replaced = w.replaced

\* A task of a load establishes what the next ones rely on.
LEMMA LoadNext ==
  ASSUME NEW w, NEW v, NEW d \in Nat, NEW f, NEW lib, NEW pin, NEW next,
         LoadAt(w, d, f, lib, pin), SameExport(v, w),
         next = lib \/ (d > 0 /\ next = pin),
         v.library = lib \/ (v.library = w.library /\ d # 4),
         d = 0 => ~w.export.model.damaged,
         d = 1 => ContractOk(w.export),
         d = 5 => w.cols = w.export.model.cols
  PROVE  LoadAt(v, d + 1, f, lib, next)
<1>1. LibraryAt(v, d + 1, 4, lib, next)
  BY LibraryNext DEF LoadAt, SameExport
<1>2. f # None /\ v.export = f /\ Replays(v) /\ ExportOk(v.export)
  BY DEF LoadAt, SameExport, Replays
<1>3. v.export = w.export /\ v.cols = w.cols
  BY DEF SameExport
<1>4. ~v.export.model.damaged
  <2>1. d = 0 \/ d > 0
    OBVIOUS
  <2> QED
    BY <1>3, <2>1 DEF LoadAt
<1>5. d + 1 > 1 => ContractOk(v.export)
  <2>1. d + 1 > 1 => d = 1 \/ d > 1
    OBVIOUS
  <2> QED
    BY <1>3, <2>1 DEF LoadAt
<1>6. d + 1 > 5 => v.cols = v.export.model.cols
  <2>1. d + 1 > 5 => d = 5 \/ d > 5
    OBVIOUS
  <2> QED
    BY <1>3, <2>1 DEF LoadAt
<1> QED
  BY <1>1, <1>2, <1>4, <1>5, <1>6 DEF LoadAt

\* A task of a prediction, and a transform takes its rows one step further.
LEMMA PredictNext ==
  ASSUME NEW w, NEW v, NEW d \in Nat, NEW s, NEW lib, NEW pin, NEW next,
         PredictAt(w, d, s, lib, pin), SameExport(v, w), IsSequence(w.plan.preprocessing),
         next = lib \/ (d > 0 /\ next = pin),
         v.library = lib \/ (v.library = w.library /\ d # 2),
         \/ v.rows.new = w.rows.new /\ ~(d \in 3 .. 2 + HostSteps(w))
         \/ /\ d \in 3 .. 2 + HostSteps(w)
            /\ v.rows.new = Append(w.rows.new, w.plan.preprocessing[d - 2])
  PROVE  PredictAt(v, d + 1, s, lib, next) /\ PredictTasks(v) = PredictTasks(w)
<1> DEFINE h == HostSteps(w)
           pre == w.plan.preprocessing
<1>1. LibraryAt(v, d + 1, 2, lib, next)
  BY LibraryNext DEF PredictAt, SameExport
<1>2. s # None /\ v.export = s.export /\ Replays(v)
  BY DEF PredictAt, SameExport, Replays
<1>3. h \in 0 .. Len(pre) /\ h \in Nat /\ HostSteps(v) = h
  BY ListFacts DEF HostSteps, SameExport
<1>4. v.rows.new = Prefix(pre, Within(d + 1 - 3, h))
  <2>1. w.rows.new = Prefix(pre, Within(d - 3, h))
    BY DEF PredictAt
  <2>2. CASE v.rows.new = w.rows.new /\ ~(d \in 3 .. 2 + h)
    <3>1. Within(d + 1 - 3, h) = Within(d - 3, h)
      BY <1>3, <2>2 DEF Within
    <3> QED
      BY <2>1, <2>2, <3>1
  <2>3. CASE d \in 3 .. 2 + h /\ v.rows.new = Append(w.rows.new, pre[d - 2])
    <3>1. /\ Within(d - 3, h) = d - 3 /\ Within(d + 1 - 3, h) = d - 3 + 1 /\ d - 2 = d - 3 + 1
          /\ d - 3 \in 0 .. Len(pre) - 1
      BY <1>3, <2>3, ListFacts DEF Within
    <3>2. Append(Prefix(pre, d - 3), pre[d - 3 + 1]) = Prefix(pre, d - 3 + 1)
      BY <3>1, PrefixFacts
    <3> QED
      BY <2>1, <2>3, <3>1, <3>2
  <2> QED
    BY <2>2, <2>3
<1>5. PredictTasks(v) = PredictTasks(w)
  BY DEF PredictTasks, SameExport
<1>6. v.plan = w.plan
  BY DEF SameExport
<1> HIDE DEF h, pre
<1>7. v.rows.new = Prefix(v.plan.preprocessing, Within(d + 1 - 3, HostSteps(v)))
  BY <1>3, <1>4, <1>6 DEF pre
<1> QED
  BY <1>1, <1>2, <1>5, <1>7 DEF PredictAt

-----------------------------------------------------------------------------
(* What each task of an operation is. *)

\* What a run does after d tasks.
LEMMA WhatRunDoes ==
  ASSUME NEW plan, PlanOk(plan), NEW d \in Nat, NEW t, RunStage(plan, d, t)
  PROVE  /\ t.do \in {"open", "split", "transform", "fit", "select", "refit", "inspect", "agree"}
         /\ t.do \in {"open", "split", "inspect", "agree"} =>
              \/ d < Transforms(plan)
              \/ Selecting(plan) < d /\ d < Exporting(plan)
              \/ d > Refitting(plan)
         /\ t.do = "transform" =>
              \/ /\ d \in Transforms(plan) .. Fitting(plan) - 1
                 /\ LET i == d + 1 - Transforms(plan)
                    IN /\ t.part = IF i % 2 = 1 THEN "train" ELSE "test"
                       /\ t.step = plan.preprocessing[(i + 1) \div 2]
              \/ /\ d \in Exporting(plan) .. Refitting(plan) - 1
                 /\ t.part = "train" /\ t.step = plan.preprocessing[d + 1 - Exporting(plan)]
         /\ t.do = "fit" => /\ d \in Fitting(plan) .. Selecting(plan) - 1
                            /\ t.n = plan.n_components[d + 1 - Fitting(plan)]
         /\ t.do = "select" => d = Selecting(plan)
         /\ t.do = "refit" => d = Refitting(plan)
<1>1. Refitting(plan) \in Nat
  BY RunBounds
<1>2. CASE t.do \in {"open", "split"} /\ (d < Transforms(plan) \/ (Selecting(plan) < d /\ d < Exporting(plan)))
  BY <1>2
<1>3. CASE /\ d \in Transforms(plan) .. Fitting(plan) - 1
           /\ t = LET i == d + 1 - Transforms(plan)
                  IN On(IF i % 2 = 1 THEN "train" ELSE "test", plan.preprocessing[(i + 1) \div 2])
  <2> DEFINE i == d + 1 - Transforms(plan)
             part == IF i % 2 = 1 THEN "train" ELSE "test"
             step == plan.preprocessing[(i + 1) \div 2]
  <2>1. t = On(part, step)
    BY <1>3
  <2>2. t.do = "transform" /\ t.part = part /\ t.step = step
    <3> HIDE DEF part, step
    <3> QED
      BY <2>1, TaskFields
  <2> QED
    BY <1>3, <2>2
<1>4. CASE d \in Fitting(plan) .. Selecting(plan) - 1 /\ t = Fit(plan.n_components[d + 1 - Fitting(plan)])
  <2>1. t.do = "fit" /\ t.n = plan.n_components[d + 1 - Fitting(plan)]
    BY <1>4, TaskFields
  <2> QED
    BY <1>4, <2>1
<1>5. CASE d = Selecting(plan) /\ t = Task("select")
  BY <1>5, TaskFields
<1>6. CASE /\ d \in Exporting(plan) .. Refitting(plan) - 1
           /\ t = On("train", plan.preprocessing[d + 1 - Exporting(plan)])
  <2>1. t.do = "transform" /\ t.part = "train" /\ t.step = plan.preprocessing[d + 1 - Exporting(plan)]
    BY <1>6, TaskFields
  <2> QED
    BY <1>6, <2>1
<1>7. CASE d = Refitting(plan) /\ t = Task("refit")
  BY <1>7, TaskFields
<1>8. CASE \/ d = Refitting(plan) + 1 /\ t = Task("inspect")
           \/ d = Refitting(plan) + 2 /\ t = Task("agree")
  <2>1. d > Refitting(plan)
    BY <1>1, <1>8
  <2> QED
    BY <1>8, <2>1, TaskFields
<1> QED
  BY <1>2, <1>3, <1>4, <1>5, <1>6, <1>7, <1>8 DEF RunStage

\* What a prediction does after d tasks.
LEMMA WhatPredictDoes ==
  ASSUME NEW w, IsSequence(w.plan.preprocessing), NEW d \in Nat, NEW t, PredictStage(w, d, t)
  PROVE  /\ t.do \in {"inspect", "agree", "open", "transform", "import"}
         /\ t.do = "inspect" => d = 0
         /\ t.do = "agree" => d = 1
         /\ t.do = "open" => d = 2
         /\ t.do = "transform" => /\ d \in 3 .. 2 + HostSteps(w) /\ t.part = "new"
                                  /\ t.step = w.plan.preprocessing[d - 2]
         /\ t.do # "transform" => ~(d \in 3 .. 2 + HostSteps(w))
<1>1. HostSteps(w) \in Nat
  BY PredictStages
<1>2. CASE d \in 3 .. 2 + HostSteps(w) /\ t = On("new", w.plan.preprocessing[d - 2])
  <2>1. t.do = "transform" /\ t.part = "new" /\ t.step = w.plan.preprocessing[d - 2]
    BY <1>2, TaskFields
  <2> QED
    BY <1>2, <2>1
<1>3. CASE \/ d = 0 /\ t.do = "inspect"
           \/ d = 1 /\ t.do = "agree"
           \/ d = 2 /\ t.do = "open"
           \/ d = 3 + HostSteps(w) /\ t.do = "import"
  BY <1>1, <1>3
<1> QED
  BY <1>2, <1>3 DEF PredictStage

-----------------------------------------------------------------------------
(* Where an operation is. *)

\* A run under way: its data and its next task.
LEMMA AtRun ==
  ASSUME RunInv, op = "run"
  PROVE  LET all == RunAll(work.plan)
             d == Done(all, tasks)
         IN /\ PlanOk(work.plan) /\ d \in Nat /\ RunAt(work, d)
            /\ tasks = <<>> => d > Refitting(work.plan)
            /\ tasks # <<>> => /\ RunStage(work.plan, d, Head(tasks))
                               /\ Rest(all, Tail(tasks)) /\ Done(all, Tail(tasks)) = d + 1
<1> DEFINE all == RunAll(work.plan)
           d == Done(all, tasks)
<1>1. Rest(all, tasks) /\ RunAt(work, d)
  BY DEF RunInv
<1>2. PlanOk(work.plan)
  BY <1>1, OfKnownPlans DEF RunAt
<1>3. IsSequence(all) /\ Len(all) = Refitting(work.plan) + 3 /\ Refitting(work.plan) \in Nat
  BY <1>2, RunAllAt, RunBounds
<1>4. \A e \in Nat : e < Len(all) => RunStage(work.plan, e, all[e + 1])
  BY <1>2, RunStages
<1> HIDE DEF all, d
<1>5. Len(all) \in Nat
  BY <1>3
<1>6. /\ d \in 0 .. Len(all) /\ (tasks = <<>> <=> d = Len(all))
      /\ tasks # <<>> => /\ Head(tasks) = all[d + 1] /\ d + 1 \in 1 .. Len(all)
                         /\ Rest(all, Tail(tasks)) /\ Done(all, Tail(tasks)) = d + 1
  BY <1>1, <1>5, RestFacts DEF d
<1>7. d \in Nat /\ (tasks = <<>> => d > Refitting(work.plan))
  BY <1>3, <1>6
<1>8. tasks # <<>> => RunStage(work.plan, d, Head(tasks))
  <2>1. tasks # <<>> => d < Len(all)
    BY <1>5, <1>6
  <2> QED
    BY <1>4, <1>6, <1>7, <2>1
<1> QED
  BY <1>1, <1>2, <1>6, <1>7, <1>8 DEF all, d

\* A load under way.
LEMMA AtLoad ==
  ASSUME LoadInv, op = "load"
  PROVE  LET d == Done(LoadTasks, tasks)
         IN /\ d \in Nat /\ LoadAt(work, d, file, library, pinned)
            /\ tasks = <<>> => d = 6
            /\ tasks # <<>> => /\ LoadStage(d, Head(tasks))
                               /\ Rest(LoadTasks, Tail(tasks)) /\ Done(LoadTasks, Tail(tasks)) = d + 1
<1> DEFINE d == Done(LoadTasks, tasks)
<1>1. Rest(LoadTasks, tasks) /\ LoadAt(work, d, file, library, pinned)
  BY DEF LoadInv
<1>2. Len(LoadTasks) = 6 /\ \A e \in 0 .. 5 : LoadStage(e, LoadTasks[e + 1])
  BY LoadStages
<1> HIDE DEF d
<1>3. /\ d \in 0 .. 6 /\ (tasks = <<>> <=> d = 6)
      /\ tasks # <<>> => /\ Head(tasks) = LoadTasks[d + 1] /\ d + 1 \in 1 .. 6
                         /\ Rest(LoadTasks, Tail(tasks)) /\ Done(LoadTasks, Tail(tasks)) = d + 1
  <2> DEFINE all == LoadTasks
  <2>1. Len(all) \in Nat /\ Len(all) = 6 /\ Rest(all, tasks)
    BY <1>1, <1>2
  <2> HIDE DEF all
  <2>2. /\ Done(all, tasks) \in 0 .. Len(all) /\ (tasks = <<>> <=> Done(all, tasks) = Len(all))
        /\ tasks # <<>> => /\ Head(tasks) = all[Done(all, tasks) + 1]
                           /\ Done(all, tasks) + 1 \in 1 .. Len(all)
                           /\ Rest(all, Tail(tasks))
                           /\ Done(all, Tail(tasks)) = Done(all, tasks) + 1
    BY <2>1, RestFacts
  <2> QED
    BY <2>1, <2>2 DEF d, all
<1>4. tasks # <<>> => LoadStage(d, Head(tasks))
  <2>1. tasks # <<>> => d \in 0 .. 5
    BY <1>3
  <2> QED
    BY <1>2, <1>3, <2>1
<1> QED
  BY <1>1, <1>3, <1>4 DEF d

\* The plan of what a session replays.
LEMMA ReplayedPlan ==
  ASSUME NEW export, IsExport(export), ExportOk(export)
  PROVE  PlanOk(PlanOf(export.definition)) /\ IsSequence(PlanOf(export.definition).preprocessing)
<1> PICK k \in Known : k.definition = export.definition
  BY DEF IsExport, Definitions
<1>1. PlanOf(export.definition) = k.plan /\ k.plan # Refused
  BY KnownPlans DEF ExportOk
<1> QED
  BY <1>1, KnownPlans, Counting

\* A prediction under way, of a session that contradicts itself nowhere.
LEMMA AtPredict ==
  ASSUME PredictInv, SessionInv, op = "predict"
  PROVE  LET all == PredictTasks(work)
             d == Done(all, tasks)
         IN /\ IsSequence(work.plan.preprocessing) /\ d \in Nat
            /\ PredictAt(work, d, session, library, pinned)
            /\ tasks = <<>> => d = HostSteps(work) + 4
            /\ tasks # <<>> => /\ PredictStage(work, d, Head(tasks))
                               /\ Rest(all, Tail(tasks)) /\ Done(all, Tail(tasks)) = d + 1
            /\ IsExport(work.export) /\ Genuine(work.export)
<1> DEFINE all == PredictTasks(work)
           d == Done(all, tasks)
           h == HostSteps(work)
<1>1. Rest(all, tasks) /\ PredictAt(work, d, session, library, pinned)
  BY DEF PredictInv
<1>2. session # None /\ work.export = session.export /\ work.plan = PlanOf(work.export.definition)
  BY <1>1 DEF PredictAt, Replays
<1>3. IsExport(work.export) /\ Genuine(work.export)
  BY <1>2 DEF SessionInv, SessionAre
<1>4. IsSequence(work.plan.preprocessing)
  BY <1>2, <1>3, ReplayedPlan DEF Genuine
<1>5. Len(all) = h + 4 /\ h \in Nat /\ \A e \in 0 .. h + 3 : PredictStage(work, e, all[e + 1])
  BY <1>4, PredictStages
<1> HIDE DEF all, d, h
<1>6. Len(all) \in Nat
  BY <1>5
<1>7. /\ d \in 0 .. Len(all) /\ (tasks = <<>> <=> d = Len(all))
      /\ tasks # <<>> => /\ Head(tasks) = all[d + 1] /\ d + 1 \in 1 .. Len(all)
                         /\ Rest(all, Tail(tasks)) /\ Done(all, Tail(tasks)) = d + 1
  BY <1>1, <1>6, RestFacts DEF d
<1>8. tasks # <<>> => PredictStage(work, d, Head(tasks))
  <2>1. tasks # <<>> => d \in 0 .. h + 3
    BY <1>5, <1>7
  <2> QED
    BY <1>5, <1>7, <2>1
<1>9. d \in Nat /\ (tasks = <<>> => d = h + 4)
  BY <1>5, <1>7
<1> QED
  BY <1>1, <1>3, <1>4, <1>7, <1>8, <1>9 DEF all, d, h

-----------------------------------------------------------------------------
(* A task that is done, and an operation that ends. *)

\* A task that is done keeps the invariant, if its data are right.
LEMMA Advancing ==
  ASSUME Inv, op # "none", tasks # <<>>, tasks' = Tail(tasks), HandlesInv', phase' = "idle",
         UNCHANGED <<op, reply, replies, session, file, library, changes, edited>>,
         pinned' \in Libraries \cup {None}, Shaped(work'),
         op = "run" => /\ work'.plan = work.plan
                       /\ RunAt(work', Done(RunAll(work.plan), tasks) + 1),
         op = "load" => LoadAt(work', Done(LoadTasks, tasks) + 1, file, library, pinned'),
         op = "predict" =>
           /\ PredictAt(work', Done(PredictTasks(work), tasks) + 1, session, library, pinned')
           /\ PredictTasks(work') = PredictTasks(work)
  PROVE  Inv'
<1>1. RunInv'
  <2> SUFFICES ASSUME op = "run" PROVE Rest(RunAll(work'.plan), tasks') /\ RunAt(work', Done(RunAll(work'.plan), tasks'))
    BY DEF RunInv
  <2> QED
    BY AtRun DEF Inv
<1>2. LoadInv'
  <2> SUFFICES ASSUME op = "load" PROVE Rest(LoadTasks, tasks') /\ LoadAt(work', Done(LoadTasks, tasks'), file, library, pinned')
    BY DEF LoadInv
  <2> QED
    BY AtLoad DEF Inv
<1>3. PredictInv'
  <2> SUFFICES ASSUME op = "predict"
               PROVE  /\ Rest(PredictTasks(work'), tasks')
                      /\ PredictAt(work', Done(PredictTasks(work'), tasks'), session, library, pinned')
    BY DEF PredictInv
  <2> QED
    BY AtPredict DEF Inv
<1>4. OperationInv'
  BY DEF Inv, OperationInv
<1>5. FileInv' /\ SessionInv'
  BY DEF Inv, FileInv, SessionInv
<1>6. ReplyInv'
  <2>1. reply.op = "none"
    BY DEF Inv, ReplyInv, ReplyAre
  <2> QED
    BY <2>1 DEF ReplyInv, ReplyAre
<1>7. WorldInv'
  BY DEF Inv, WorldInv
<1> QED
  BY <1>1, <1>2, <1>3, <1>4, <1>5, <1>6, <1>7 DEF Inv

\* Between operations there are no data.
LEMMA NoWorkShaped == Shaped(NoWork) /\ NoWork.replaced = FALSE /\ NoWork.selected = None
BY SessionAssumption DEF NoWork, Shaped

\* An operation that ends leaves no data; its reply is for the caller to show.
LEMMA OperationEnds ==
  ASSUME Inv, op # "none", op' = "none", tasks' = <<>>, work' = NoWork, replies' = replies + 1,
         HandlesInv', phase' = "idle", library' \in Libraries, pinned' \in Libraries \cup {None},
         changes' = changes, FileInv', SessionInv', ReplyInv'
  PROVE  Inv'
<1>1. RunInv' /\ LoadInv' /\ PredictInv'
  BY DEF RunInv, LoadInv, PredictInv
<1>2. OperationInv'
  BY NoWorkShaped DEF OperationInv
<1>3. WorldInv'
  BY SessionAssumption DEF Inv, WorldInv
<1> QED
  BY <1>1, <1>2, <1>3 DEF Inv

\* An operation that fails keeps the invariant, if a load names its reason.
LEMMA Failing ==
  ASSUME Inv, op # "none", NEW why, NEW data, End(FALSE, why, data), HandlesInv', phase' = "idle",
         UNCHANGED <<session, file, library, changes, edited>>, pinned' \in Libraries \cup {None},
         op = "load" /\ edited = {} => why \in {"native", "library"}
  PROVE  Inv'
<1>1. op' = "none" /\ tasks' = <<>> /\ work' = NoWork /\ replies' = replies + 1
  BY DEF End
<1>2. reply'.op = op /\ reply'.ok = FALSE /\ reply'.why = why
  BY DEF End
<1>3. ReplyInv'
  BY <1>1, <1>2 DEF ReplyInv, ReplyAre
<1>4. FileInv' /\ SessionInv'
  BY DEF Inv, FileInv, SessionInv
<1>5. library' \in Libraries
  BY DEF Inv, WorldInv
<1> QED
  BY <1>1, <1>3, <1>4, <1>5, OperationEnds

\* A file nobody edited gives a load no reason to refuse it.
LEMMA LoadsGenuine ==
  ASSUME Inv, op = "load", edited = {}
  PROVE  Genuine(work.export)
BY AtLoad DEF Inv, FileInv, FileAre, LoadAt

-----------------------------------------------------------------------------
(* The tasks that leave the rows, the variants and the models alone. *)

SameData(v, w) ==
  /\ v.definition = w.definition /\ v.plan = w.plan /\ v.export = w.export /\ v.rows = w.rows
  /\ v.variants = w.variants /\ v.selected = w.selected /\ v.judged = w.judged
  /\ v.cols = w.cols /\ v.replaced = w.replaced

\* Such a task keeps the invariant.
LEMMA Idles ==
  ASSUME Inv, op # "none", tasks # <<>>, tasks' = Tail(tasks), HandlesInv', phase' = "idle",
         UNCHANGED <<op, reply, replies, session, file, library, changes, edited>>,
         Shaped(work'), SameData(work', work),
         Head(tasks).do \in {"open", "split", "inspect", "agree", "contract", "import"},
         Head(tasks).do = "inspect" => pinned' = library /\ ~work.export.model.damaged,
         Head(tasks).do # "inspect" => pinned' = pinned,
         Head(tasks).do = "open" => work'.library = library,
         Head(tasks).do # "open" => work'.library = work.library,
         Head(tasks).do = "contract" => ContractOk(work.export),
         Head(tasks).do = "import" => work.cols = work.export.model.cols
  PROVE  Inv'
<1> DEFINE t == Head(tasks)
<1>1. op = "run" => /\ work'.plan = work.plan
                    /\ RunAt(work', Done(RunAll(work.plan), tasks) + 1)
  <2> SUFFICES ASSUME op = "run" PROVE work'.plan = work.plan /\ RunAt(work', Done(RunAll(work.plan), tasks) + 1)
    OBVIOUS
  <2> DEFINE d == Done(RunAll(work.plan), tasks)
  <2>1. PlanOk(work.plan) /\ d \in Nat /\ RunAt(work, d) /\ RunStage(work.plan, d, t)
    BY AtRun DEF Inv
  <2> HIDE DEF d, t
  <2>2. /\ t.do \in {"open", "split", "transform", "fit", "select", "refit", "inspect", "agree"}
        /\ t.do \in {"open", "split", "inspect", "agree"} =>
             \/ d < Transforms(work.plan)
             \/ Selecting(work.plan) < d /\ d < Exporting(work.plan)
             \/ d > Refitting(work.plan)
    BY <2>1, WhatRunDoes
  <2>3. \/ d < Transforms(work.plan)
        \/ Selecting(work.plan) < d /\ d < Exporting(work.plan)
        \/ d > Refitting(work.plan)
    BY <2>2 DEF t
  <2>4. /\ SamePlan(work', work) /\ SameRows(work', work) /\ SameChoice(work', work)
        /\ work'.export = work.export
    BY DEF SameData, SamePlan, SameRows, SameChoice
  <2>5. RunAt(work', d + 1)
    BY <2>1, <2>3, <2>4, RunOther
  <2> QED
    BY <2>4, <2>5 DEF SamePlan, d
<1>2. op = "load" => LoadAt(work', Done(LoadTasks, tasks) + 1, file, library, pinned')
  <2> SUFFICES ASSUME op = "load" PROVE LoadAt(work', Done(LoadTasks, tasks) + 1, file, library, pinned')
    OBVIOUS
  <2> DEFINE d == Done(LoadTasks, tasks)
  <2>1. d \in Nat /\ LoadAt(work, d, file, library, pinned) /\ LoadStage(d, t)
    BY AtLoad DEF Inv
  <2> HIDE DEF d
  <2>2. SameExport(work', work)
    BY DEF SameData, SameExport
  <2>3. /\ pinned' = library \/ (d > 0 /\ pinned' = pinned)
        /\ work'.library = library \/ (work'.library = work.library /\ d # 4)
        /\ d = 0 => ~work.export.model.damaged
        /\ d = 1 => ContractOk(work.export)
        /\ d = 5 => work.cols = work.export.model.cols
    BY <2>1 DEF LoadStage
  <2>4. LoadAt(work', d + 1, file, library, pinned')
    BY <2>1, <2>2, <2>3, LoadNext
  <2> QED
    BY <2>4 DEF d
<1>3. op = "predict" =>
           /\ PredictAt(work', Done(PredictTasks(work), tasks) + 1, session, library, pinned')
           /\ PredictTasks(work') = PredictTasks(work)
  <2> SUFFICES ASSUME op = "predict"
               PROVE  /\ PredictAt(work', Done(PredictTasks(work), tasks) + 1, session, library, pinned')
                      /\ PredictTasks(work') = PredictTasks(work)
    OBVIOUS
  <2> DEFINE d == Done(PredictTasks(work), tasks)
  <2>1. /\ IsSequence(work.plan.preprocessing) /\ d \in Nat
        /\ PredictAt(work, d, session, library, pinned) /\ PredictStage(work, d, t)
    BY AtPredict DEF Inv
  <2> HIDE DEF d, t
  <2>2. SameExport(work', work) /\ work'.rows.new = work.rows.new
    BY DEF SameData, SameExport
  <2>3. /\ t.do \in {"inspect", "agree", "open", "transform", "import"}
        /\ t.do = "inspect" => d = 0
        /\ t.do = "agree" => d = 1
        /\ t.do = "open" => d = 2
        /\ t.do # "transform" => ~(d \in 3 .. 2 + HostSteps(work))
    BY <2>1, WhatPredictDoes
  <2>4. (d = 0 => t.do = "inspect") /\ (d = 2 => t.do = "open")
    <3>1. HostSteps(work) \in Nat
      BY <2>1, PredictStages
    <3> QED
      BY <2>1, <3>1 DEF PredictStage
  <2>5. /\ pinned' = library \/ (d > 0 /\ pinned' = pinned)
        /\ work'.library = library \/ (work'.library = work.library /\ d # 2)
        /\ ~(d \in 3 .. 2 + HostSteps(work))
    BY <2>1, <2>3, <2>4 DEF t
  <2>6. PredictAt(work', d + 1, session, library, pinned') /\ PredictTasks(work') = PredictTasks(work)
    BY <2>1, <2>2, <2>5, PredictNext
  <2> QED
    BY <2>6 DEF d
<1>4. pinned' \in Libraries \cup {None}
  BY DEF Inv, WorldInv
<1> QED
  BY <1>1, <1>2, <1>3, <1>4, Advancing

\* EXCEPT on the data of an operation.
LEMMA WorkFields ==
  ASSUME NEW w, Shaped(w)
  PROVE  /\ \A x : LET v == [w EXCEPT !.library = x] IN
              Shaped(v) /\ SameData(v, w) /\ v.library = x
         /\ \A x : LET v == [w EXCEPT !.inspected = x] IN
              Shaped(v) /\ SameData(v, w) /\ v.library = w.library
         /\ \A x \in BOOLEAN : LET v == [w EXCEPT !.empty = x] IN
              Shaped(v) /\ SameData(v, w) /\ v.library = w.library
         /\ SameData(w, w)
BY DEF Shaped, SameData

\* MethodsLibrary::load.
LEMMA OpenKeeps ==
  ASSUME Inv, Open
  PROVE  Inv'
<1>1. /\ op # "none" /\ phase = "idle" /\ tasks # <<>> /\ Head(tasks).do = "open"
      /\ UNCHANGED native /\ UNCHANGED world
  BY DEF Open, Doing
<1>2. HandlesInv' /\ phase' = "idle"
  BY <1>1, HandlesStay DEF Inv, native
<1>3. UNCHANGED <<session, file, library, pinned, changes, edited>>
  BY <1>1 DEF world
<1>4. CASE /\ tasks' = Tail(tasks) /\ work' = [work EXCEPT !.library = library]
           /\ UNCHANGED <<op, reply, replies>>
  <2>1. Shaped(work') /\ SameData(work', work) /\ work'.library = library
    BY <1>4, WorkFields DEF Inv, OperationInv
  <2> QED
    BY <1>1, <1>2, <1>3, <1>4, <2>1, Idles
<1>5. CASE End(FALSE, "library", [work EXCEPT !.library = library])
  <2>1. pinned' \in Libraries \cup {None}
    BY <1>3 DEF Inv, WorldInv
  <2> QED
    BY <1>1, <1>2, <1>3, <1>5, <2>1, Failing
<1> QED
  BY <1>4, <1>5 DEF Open, Step

\* inspect_portable_model_descriptor.
LEMMA InspectKeeps ==
  ASSUME Inv, Inspect
  PROVE  Inv'
<1>1. /\ op # "none" /\ phase = "idle" /\ tasks # <<>> /\ Head(tasks).do = "inspect"
      /\ UNCHANGED native /\ UNCHANGED <<session, file, library, changes, edited>>
  BY DEF Inspect, Doing
<1>2. HandlesInv' /\ phase' = "idle"
  BY <1>1, HandlesStay DEF Inv, native
<1>3. pinned' = library \/ pinned' = pinned
  BY DEF Inspect
<1>4. pinned' \in Libraries \cup {None}
  BY <1>3 DEF Inv, WorldInv
<1>5. CASE /\ pinned' = library /\ ~work.export.model.damaged
           /\ tasks' = Tail(tasks) /\ work' = [work EXCEPT !.inspected = library]
           /\ UNCHANGED <<op, reply, replies>>
  <2>1. Shaped(work') /\ SameData(work', work) /\ work'.library = work.library
    BY <1>5, WorkFields DEF Inv, OperationInv
  <2> QED
    BY <1>1, <1>2, <1>5, <2>1, Idles
<1>6. CASE work.export.model.damaged /\ End(FALSE, "format", [work EXCEPT !.inspected = library])
  <2>1. ~(op = "load" /\ edited = {})
    BY <1>6, LoadsGenuine DEF Genuine
  <2> QED
    BY <1>1, <1>2, <1>4, <1>6, <2>1, Failing
<1>7. CASE End(FALSE, "library", work)
  BY <1>1, <1>2, <1>4, <1>7, Failing
<1> QED
  BY <1>5, <1>6, <1>7 DEF Inspect, Step

\* validate_portable_model_plan.
LEMMA AgreeKeeps ==
  ASSUME Inv, Agree
  PROVE  Inv'
<1>1. /\ op # "none" /\ phase = "idle" /\ tasks # <<>> /\ Head(tasks).do = "agree"
      /\ UNCHANGED native /\ UNCHANGED world
  BY DEF Agree, Doing
<1>2. HandlesInv' /\ phase' = "idle"
  BY <1>1, HandlesStay DEF Inv, native
<1>3. UNCHANGED <<session, file, library, pinned, changes, edited>>
  BY <1>1 DEF world
<1>4. CASE tasks' = Tail(tasks) /\ work' = work /\ UNCHANGED <<op, reply, replies>>
  <2>1. Shaped(work') /\ SameData(work', work) /\ work'.library = work.library
    BY <1>4, WorkFields DEF Inv, OperationInv
  <2> QED
    BY <1>1, <1>2, <1>3, <1>4, <2>1, Idles
<1>5. CASE ~PlanAgrees(work.plan, work.export.model.does) /\ End(FALSE, "format", work)
  <2>1. ~(op = "load" /\ edited = {})
    <3> SUFFICES ASSUME op = "load", edited = {} PROVE FALSE
      OBVIOUS
    <3>1. work.plan = PlanOf(work.export.definition)
      BY AtLoad DEF Inv, LoadAt, Replays
    <3> QED
      BY <1>5, <3>1, LoadsGenuine DEF Genuine, ContractOk
  <2>2. pinned' \in Libraries \cup {None}
    BY <1>3 DEF Inv, WorldInv
  <2> QED
    BY <1>1, <1>2, <1>3, <1>5, <2>1, <2>2, Failing
<1> QED
  BY <1>4, <1>5 DEF Agree, Step

\* validate_export_preprocessing_contract.
LEMMA ContractKeeps ==
  ASSUME Inv, Contract
  PROVE  Inv'
<1>1. /\ op # "none" /\ phase = "idle" /\ tasks # <<>> /\ Head(tasks).do = "contract"
      /\ UNCHANGED native /\ UNCHANGED world
  BY DEF Contract, Doing
<1>2. HandlesInv' /\ phase' = "idle"
  BY <1>1, HandlesStay DEF Inv, native
<1>3. UNCHANGED <<session, file, library, pinned, changes, edited>>
  BY <1>1 DEF world
<1>4. CASE /\ ContractOk(work.export)
           /\ tasks' = Tail(tasks) /\ work' = work /\ UNCHANGED <<op, reply, replies>>
  <2>1. Shaped(work') /\ SameData(work', work) /\ work'.library = work.library
    BY <1>4, WorkFields DEF Inv, OperationInv
  <2> QED
    BY <1>1, <1>2, <1>3, <1>4, <2>1, Idles
<1>5. CASE ~ContractOk(work.export) /\ End(FALSE, "format", work)
  <2>1. ~(op = "load" /\ edited = {})
    BY <1>5, LoadsGenuine DEF Genuine
  <2>2. pinned' \in Libraries \cup {None}
    BY <1>3 DEF Inv, WorldInv
  <2> QED
    BY <1>1, <1>2, <1>3, <1>5, <2>1, <2>2, Failing
<1> QED
  BY <1>4, <1>5 DEF Contract, Step

-----------------------------------------------------------------------------
(* The tasks that change the rows, the variants or the model. *)

\* A task of a run alone.
LEMMA RunAdvancing ==
  ASSUME Inv, op = "run", tasks # <<>>, tasks' = Tail(tasks), HandlesInv', phase' = "idle",
         UNCHANGED <<op, reply, replies>>, UNCHANGED world, Shaped(work'),
         work'.plan = work.plan, RunAt(work', Done(RunAll(work.plan), tasks) + 1)
  PROVE  Inv'
<1>1. UNCHANGED <<session, file, library, pinned, changes, edited>>
  BY DEF world
<1>2. pinned' \in Libraries \cup {None}
  BY <1>1 DEF Inv, WorldInv
<1> QED
  BY <1>1, <1>2, Advancing

\* Where an operation that has a task of some kind is.
LEMMA OfRun ==
  ASSUME Inv, op # "none", tasks # <<>>, Head(tasks).do \in {"fit", "select", "refit", "split"}
  PROVE  op = "run"
<1>1. op # "load"
  BY AtLoad DEF Inv, LoadStage
<1>2. op # "predict"
  <2> SUFFICES ASSUME op = "predict" PROVE FALSE
    OBVIOUS
  <2> DEFINE d == Done(PredictTasks(work), tasks)
             t == Head(tasks)
  <2>1. IsSequence(work.plan.preprocessing) /\ d \in Nat /\ PredictStage(work, d, t)
    BY AtPredict DEF Inv
  <2> HIDE DEF d, t
  <2>2. t.do \in {"inspect", "agree", "open", "transform", "import"}
    BY <2>1, WhatPredictDoes
  <2> QED
    BY <2>2 DEF t
<1> QED
  BY <1>1, <1>2 DEF Inv, OperationInv

\* The selection of the best variant.
LEMMA SelectKeeps ==
  ASSUME Inv, Select
  PROVE  Inv'
<1> DEFINE t == Head(tasks)
           d == Done(RunAll(work.plan), tasks)
           v == [work EXCEPT !.selected = Best(work.variants), !.judged = work.rows,
                             !.rows.train = <<>>]
<1>1. /\ op # "none" /\ phase = "idle" /\ tasks # <<>> /\ t.do = "select"
      /\ UNCHANGED native /\ UNCHANGED world
  BY DEF Select, Doing
<1>2. HandlesInv' /\ phase' = "idle"
  BY <1>1, HandlesStay DEF Inv, native
<1>3. tasks' = Tail(tasks) /\ work' = v /\ UNCHANGED <<op, reply, replies>>
  BY DEF Select, Step
<1>4. op = "run"
  BY <1>1, OfRun
<1>5. PlanOk(work.plan) /\ d \in Nat /\ RunAt(work, d) /\ RunStage(work.plan, d, t)
  BY <1>1, <1>4, AtRun DEF Inv
<1>6. Shaped(work)
  BY DEF Inv, OperationInv
<1>7. /\ Shaped(v) /\ SamePlan(v, work) /\ v.export = work.export /\ v.variants = work.variants
      /\ v.rows.test = work.rows.test /\ v.rows.train = <<>>
      /\ v.selected = Best(work.variants) /\ v.judged = work.rows
  <2> DEFINE best == Best(work.variants)
  <2> HIDE DEF best
  <2> SUFFICES /\ Shaped([work EXCEPT !.selected = best, !.judged = work.rows, !.rows.train = <<>>])
               /\ LET u == [work EXCEPT !.selected = best, !.judged = work.rows, !.rows.train = <<>>]
                  IN /\ SamePlan(u, work) /\ u.export = work.export /\ u.variants = work.variants
                     /\ u.rows.test = work.rows.test /\ u.rows.train = <<>>
                     /\ u.selected = best /\ u.judged = work.rows
    BY DEF best
  <2> QED
    BY <1>6 DEF Shaped, SamePlan
<1> HIDE DEF d, t, v
<1>8. d = Selecting(work.plan)
  BY <1>1, <1>5, WhatRunDoes
<1>9. RunAt(v, d + 1)
  BY <1>5, <1>7, <1>8, RunSelect
<1> QED
  BY <1>1, <1>2, <1>3, <1>4, <1>7, <1>9, RunAdvancing DEF d, SamePlan

\* A variant that is fitted and scored.
LEMMA FitKeeps ==
  ASSUME Inv, op # "none", tasks # <<>>, Head(tasks).do = "fit", NEW score \in {NaN, 1, 2},
         work' = [work EXCEPT !.variants = Append(@, [components |-> Head(tasks).n, rmse |-> score])],
         tasks' = Tail(tasks), HandlesInv', phase' = "idle", UNCHANGED <<op, reply, replies>>,
         UNCHANGED world
  PROVE  Inv'
<1> DEFINE t == Head(tasks)
           d == Done(RunAll(work.plan), tasks)
           more == Append(work.variants, [components |-> t.n, rmse |-> score])
<1>1. op = "run"
  BY OfRun
<1>2. PlanOk(work.plan) /\ d \in Nat /\ RunAt(work, d) /\ RunStage(work.plan, d, t)
  BY <1>1, AtRun DEF Inv
<1>3. Shaped(work)
  BY DEF Inv, OperationInv
<1>4. work' = [work EXCEPT !.variants = more]
  BY <1>3 DEF Shaped
<1> HIDE DEF more
<1>5. /\ Shaped(work') /\ SamePlan(work', work) /\ SameRows(work', work)
      /\ work'.export = work.export /\ work'.selected = work.selected /\ work'.variants = more
  BY <1>3, <1>4 DEF Shaped, SamePlan, SameRows
<1> HIDE DEF d, t
<1>6. t.do = "fit"
  BY DEF t
<1>7. /\ d \in Fitting(work.plan) .. Selecting(work.plan) - 1
      /\ t.n = work.plan.n_components[d + 1 - Fitting(work.plan)]
  BY <1>2, <1>6, WhatRunDoes
<1>8. work'.variants = Append(work.variants,
                             [components |-> work.plan.n_components[d + 1 - Fitting(work.plan)],
                              rmse |-> score])
  BY <1>5, <1>7 DEF more
<1>9. RunAt(work', d + 1)
  BY <1>2, <1>5, <1>7, <1>8, RunFit
<1> QED
  BY <1>1, <1>5, <1>9, RunAdvancing DEF d, SamePlan

\* The model that is exported.
LEMMA RefitKeeps ==
  ASSUME Inv, op # "none", tasks # <<>>, Head(tasks).do = "refit", NEW size \in Sizes,
         size <= MaxModel,
         work' = [work EXCEPT !.export =
                    Exported(work.definition, Model(EmbeddedSpec(work.plan), work.rows.train,
                                                    work.selected.components, size))],
         tasks' = Tail(tasks), HandlesInv', phase' = "idle", UNCHANGED <<op, reply, replies>>,
         UNCHANGED world
  PROVE  Inv'
<1> DEFINE t == Head(tasks)
           d == Done(RunAll(work.plan), tasks)
           x == Exported(work.definition, Model(EmbeddedSpec(work.plan), work.rows.train,
                                                work.selected.components, size))
<1>1. op = "run"
  BY OfRun
<1>2. PlanOk(work.plan) /\ d \in Nat /\ RunAt(work, d) /\ RunStage(work.plan, d, t)
  BY <1>1, AtRun DEF Inv
<1>3. Shaped(work)
  BY DEF Inv, OperationInv
<1>4. work' = [work EXCEPT !.export = x]
  OBVIOUS
<1> HIDE DEF x
<1>5. /\ Shaped(work') /\ SamePlan(work', work) /\ SameRows(work', work)
      /\ SameChoice(work', work) /\ work'.export = x
  BY <1>3, <1>4 DEF Shaped, SamePlan, SameRows, SameChoice
<1> HIDE DEF d, t
<1>6. t.do = "refit"
  BY DEF t
<1>7. d = Refitting(work.plan)
  BY <1>2, <1>6, WhatRunDoes
<1>8. RunAt(work', d + 1)
  BY <1>2, <1>5, <1>7, RunRefit DEF x
<1> QED
  BY <1>1, <1>5, <1>8, RunAdvancing DEF d, SamePlan

\* A step of preprocessing, in a run or in a prediction.
LEMMA TransformKeeps ==
  ASSUME Inv, op # "none", tasks # <<>>, Head(tasks).do = "transform",
         work' = [work EXCEPT !.rows[Head(tasks).part] = Append(@, Head(tasks).step)],
         tasks' = Tail(tasks), HandlesInv', phase' = "idle", UNCHANGED <<op, reply, replies>>,
         UNCHANGED world
  PROVE  Inv'
<1> DEFINE t == Head(tasks)
           longer == Append(work.rows[t.part], t.step)
<1>1. Shaped(work)
  BY DEF Inv, OperationInv
<1>2. ASSUME t.part \in {"train", "test", "new"}
      PROVE  /\ Shaped(work') /\ SamePlan(work', work) /\ SameChoice(work', work)
             /\ SameExport(work', work) /\ work'.library = work.library
             /\ work'.rows = [work.rows EXCEPT ![t.part] = longer]
  <2> DEFINE rows == [work.rows EXCEPT ![t.part] = longer]
  <2>1. work' = [work EXCEPT !.rows = rows]
    BY <1>1 DEF Shaped
  <2>2. DOMAIN rows = {"train", "test", "new"}
    BY <1>1 DEF Shaped
  <2> HIDE DEF rows
  <2>3. work'.rows = rows
    BY <1>1, <2>1 DEF Shaped
  <2>4. /\ Shaped(work') /\ SamePlan(work', work) /\ SameChoice(work', work)
        /\ SameExport(work', work) /\ work'.library = work.library
    BY <1>1, <2>1, <2>2 DEF Shaped, SamePlan, SameChoice, SameExport
  <2> QED
    BY <2>3, <2>4 DEF rows
<1>3. t.do = "transform"
  OBVIOUS
<1>4. CASE op = "run"
  <2> DEFINE d == Done(RunAll(work.plan), tasks)
  <2>1. PlanOk(work.plan) /\ d \in Nat /\ RunAt(work, d) /\ RunStage(work.plan, d, t)
    BY <1>4, AtRun DEF Inv
  <2> HIDE DEF d, t, longer
  <2>2. \/ /\ d \in Transforms(work.plan) .. Fitting(work.plan) - 1
           /\ LET i == d + 1 - Transforms(work.plan)
              IN /\ t.part = IF i % 2 = 1 THEN "train" ELSE "test"
                 /\ t.step = work.plan.preprocessing[(i + 1) \div 2]
        \/ /\ d \in Exporting(work.plan) .. Refitting(work.plan) - 1
           /\ t.part = "train" /\ t.step = work.plan.preprocessing[d + 1 - Exporting(work.plan)]
    BY <1>3, <2>1, WhatRunDoes
  <2>3. t.part \in {"train", "test"}
    BY <2>2
  <2>4. /\ Shaped(work') /\ SamePlan(work', work) /\ SameChoice(work', work)
        /\ SameExport(work', work)
        /\ work'.rows = [work.rows EXCEPT ![t.part] = longer]
    BY <1>2, <2>3
  <2>5. /\ t.part = "train" => work'.rows.train = longer /\ work'.rows.test = work.rows.test
        /\ t.part = "test" => work'.rows.test = longer /\ work'.rows.train = work.rows.train
    BY <1>1, <2>4 DEF Shaped
  <2>6. /\ t.part = "train" => /\ work'.rows.train = Append(work.rows.train, t.step)
                               /\ work'.rows.test = work.rows.test
        /\ t.part = "test" => /\ work'.rows.test = Append(work.rows.test, t.step)
                              /\ work'.rows.train = work.rows.train
    BY <2>5 DEF longer
  <2>7. work'.export = work.export
    BY <2>4 DEF SameExport
  <2>8. RunAt(work', d + 1)
    BY <2>1, <2>2, <2>4, <2>6, <2>7, RunTransform, ZenonT(60)
  <2> QED
    BY <1>4, <2>4, <2>8, RunAdvancing DEF d, SamePlan
<1>5. CASE op = "load"
  BY <1>5, AtLoad DEF Inv, LoadStage
<1>6. CASE op = "predict"
  <2> DEFINE d == Done(PredictTasks(work), tasks)
  <2>1. /\ IsSequence(work.plan.preprocessing) /\ d \in Nat
        /\ PredictAt(work, d, session, library, pinned) /\ PredictStage(work, d, t)
    BY <1>6, AtPredict DEF Inv
  <2> HIDE DEF d, t, longer
  <2>2. /\ d \in 3 .. 2 + HostSteps(work) /\ t.part = "new"
        /\ t.step = work.plan.preprocessing[d - 2]
    BY <1>3, <2>1, WhatPredictDoes
  <2>3. /\ Shaped(work') /\ SameExport(work', work) /\ work'.library = work.library
        /\ work'.rows = [work.rows EXCEPT !["new"] = longer]
    BY <1>2, <2>2
  <2>4. work'.rows.new = longer
    BY <1>1, <2>3, SMTT(30) DEF Shaped
  <2>5. work'.rows.new = Append(work.rows.new, work.plan.preprocessing[d - 2])
    BY <2>2, <2>4 DEF longer
  <2>6. UNCHANGED <<session, file, library, pinned, changes, edited>>
    BY DEF world
  <2>7. pinned' = pinned /\ d > 0 /\ d # 2
    BY <2>2, <2>6
  <2>8. PredictAt(work', d + 1, session, library, pinned') /\ PredictTasks(work') = PredictTasks(work)
    <3>1. pinned = library \/ (d > 0 /\ pinned = pinned)
      BY <2>7
    <3>2. work'.library = library \/ (work'.library = work.library /\ d # 2)
      BY <2>3, <2>7
    <3>3. PredictAt(work', d + 1, session, library, pinned) /\ PredictTasks(work') = PredictTasks(work)
      <4> DEFINE next == pinned
      <4> HIDE DEF next
      <4>1. next = library \/ (d > 0 /\ next = pinned)
        BY <3>1, Zenon DEF next
      <4>2. \/ work'.rows.new = work.rows.new /\ ~(d \in 3 .. 2 + HostSteps(work))
            \/ /\ d \in 3 .. 2 + HostSteps(work)
               /\ work'.rows.new = Append(work.rows.new, work.plan.preprocessing[d - 2])
        BY <2>2, <2>5, Zenon
      <4>3. PredictAt(work', d + 1, session, library, next) /\ PredictTasks(work') = PredictTasks(work)
        BY <2>1, <2>3, <3>2, <4>1, <4>2, PredictNext, ZenonT(60)
      <4> QED
        BY <4>3 DEF next
    <3> QED
      BY <2>7, <3>3
  <2>9. pinned' \in Libraries \cup {None}
    BY <2>6 DEF Inv, WorldInv
  <2> QED
    BY <1>6, <2>3, <2>6, <2>8, <2>9, Advancing DEF d
<1> QED
  BY <1>4, <1>5, <1>6 DEF Inv, OperationInv

-----------------------------------------------------------------------------
(* The routines. *)

\* A routine is called for the first task.
LEMMA CallKeeps ==
  ASSUME Inv, CallRoutine
  PROVE  Inv'
<1>1. /\ op # "none" /\ tasks # <<>> /\ Head(tasks).do \in Called /\ phase = "idle"
      /\ Begin(Routine(Head(tasks))) /\ UNCHANGED <<op, tasks, work, reply, replies>>
      /\ UNCHANGED world
  BY DEF CallRoutine, Begin, Called
<1>2. Routine(Head(tasks)) \in Routines
  <2>1. \A em, ex \in BOOLEAN : FitPredict(em, ex) \in Routines
    BY DEF Routines
  <2>2. /\ FALSE \in BOOLEAN /\ TRUE \in BOOLEAN
        /\ (EmbeddedSpec(work.plan) # NotEmbedded) \in BOOLEAN
    OBVIOUS
  <2>3. FitPredict(FALSE, FALSE) \in Routines
    BY <2>1, <2>2
  <2>4. FitPredict(EmbeddedSpec(work.plan) # NotEmbedded, TRUE) \in Routines
    BY <2>1, <2>2
  <2>5. Split \in Routines /\ Transform \in Routines /\ ImportPredict \in Routines
    BY DEF Routines
  <2> QED
    BY <2>3, <2>4, <2>5 DEF Routine
<1>3. HandlesInv'
  BY <1>1, <1>2, HandlesBegin DEF Inv
<1>4. UNCHANGED <<session, file, library, pinned, changes, edited>>
  BY <1>1 DEF world
<1>5. OperationInv'
  BY <1>1 DEF Inv, OperationInv
<1>6. RunInv' /\ LoadInv' /\ PredictInv'
  BY <1>1, <1>4 DEF Inv, RunInv, LoadInv, PredictInv
<1>7. FileInv' /\ SessionInv' /\ ReplyInv' /\ WorldInv'
  BY <1>1, <1>4 DEF Inv, FileInv, SessionInv, ReplyInv, WorldInv
<1> QED
  BY <1>3, <1>5, <1>6, <1>7 DEF Inv

\* A call of the routine, or a guard that is dropped.
LEMMA InRoutineKeeps ==
  ASSUME Inv, InRoutine
  PROVE  Inv'
<1>1. UNCHANGED <<op, tasks, work, reply, replies>> /\ UNCHANGED world
  BY DEF InRoutine
<1>2. HandlesInv'
  BY HandlesSucceed, HandlesFail, HandlesDrop DEF Inv, InRoutine, NativeStep
<1>3. UNCHANGED <<session, file, library, pinned, changes, edited>>
  BY <1>1 DEF world
<1>4. phase # "idle"
  BY DEF InRoutine, NativeStep, Succeed, Fail, Drop
<1>5. OperationInv'
  BY <1>1, <1>4 DEF Inv, OperationInv
<1>6. RunInv' /\ LoadInv' /\ PredictInv'
  BY <1>1, <1>3 DEF Inv, RunInv, LoadInv, PredictInv
<1>7. FileInv' /\ SessionInv' /\ ReplyInv' /\ WorldInv'
  BY <1>1, <1>3 DEF Inv, FileInv, SessionInv, ReplyInv, WorldInv
<1> QED
  BY <1>2, <1>5, <1>6, <1>7 DEF Inv

\* A routine that gave its result.
LEMMA CompleteKeeps ==
  ASSUME Inv, Complete
  PROVE  Inv'
<1> DEFINE t == Head(tasks)
<1>1. /\ op # "none" /\ phase = "returning" /\ guards = <<>> /\ Return /\ UNCHANGED world
      /\ phase' = "idle"
  BY DEF Complete, Returned, Return
<1>2. tasks # <<>> /\ t.do \in Called
  BY <1>1 DEF Inv, OperationInv
<1>3. HandlesInv'
  BY <1>1, HandlesReturn DEF Inv
<1>4. UNCHANGED <<session, file, library, pinned, changes, edited>>
  BY <1>1 DEF world
<1>5. CASE End(FALSE, "native", work)
  <2>1. pinned' \in Libraries \cup {None}
    BY <1>4 DEF Inv, WorldInv
  <2> QED
    BY <1>1, <1>3, <1>4, <1>5, <2>1, Failing
<1>6. ASSUME Possible(t), NEW data \in Outcomes(t), Step(TRUE, None, data)
      PROVE  Inv'
  <2>1. tasks' = Tail(tasks) /\ work' = data /\ UNCHANGED <<op, reply, replies>>
    BY <1>6 DEF Step
  <2>2. CASE t.do = "split"
    <3>1. PICK none \in BOOLEAN : data = [work EXCEPT !.empty = none]
      BY <1>6, <2>2 DEF Outcomes
    <3>2. Shaped(work') /\ SameData(work', work) /\ work'.library = work.library
      BY <2>1, <3>1, WorkFields DEF Inv, OperationInv
    <3> QED
      BY <1>1, <1>2, <1>3, <1>4, <2>1, <2>2, <3>2, Idles
  <2>3. CASE t.do = "transform"
    <3>1. data = [work EXCEPT !.rows[t.part] = Append(@, t.step)]
      BY <1>6, <2>3 DEF Outcomes
    <3> QED
      BY <1>1, <1>2, <1>3, <2>1, <2>3, <3>1, TransformKeeps
  <2>4. CASE t.do = "fit"
    <3>1. PICK score \in {NaN, 1, 2} :
            data = [work EXCEPT !.variants = Append(@, [components |-> t.n, rmse |-> score])]
      BY <1>6, <2>4 DEF Outcomes
    <3> QED
      BY <1>1, <1>2, <1>3, <2>1, <2>4, <3>1, FitKeeps
  <2>5. CASE t.do = "refit"
    <3>1. PICK size \in Sizes :
            /\ size <= MaxModel
            /\ data = [work EXCEPT !.export =
                         Exported(work.definition, Model(EmbeddedSpec(work.plan), work.rows.train,
                                                         work.selected.components, size))]
      BY <1>6, <2>5 DEF Outcomes
    <3> QED
      BY <1>1, <1>2, <1>3, <2>1, <2>5, <3>1, RefitKeeps
  <2>6. CASE t.do = "import"
    <3>1. data = work /\ work.cols = work.export.model.cols
      BY <1>6, <2>6 DEF Outcomes, Possible
    <3>2. Shaped(work') /\ SameData(work', work) /\ work'.library = work.library
      BY <2>1, <3>1, WorkFields DEF Inv, OperationInv
    <3> QED
      BY <1>1, <1>2, <1>3, <1>4, <2>1, <2>6, <3>1, <3>2, Idles
  <2> QED
    BY <1>2, <2>2, <2>3, <2>4, <2>5, <2>6 DEF Called
<1> QED
  BY <1>5, <1>6 DEF Complete

\* A routine that failed, or whose result is refused.
LEMMA AbortKeeps ==
  ASSUME Inv, Abort
  PROVE  Inv'
<1>1. /\ op # "none" /\ phase \in {"returning", "failing"} /\ guards = <<>> /\ Return
      /\ UNCHANGED world /\ phase' = "idle" /\ End(FALSE, "native", work)
  BY DEF Abort, Returned, Return
<1>2. HandlesInv'
  BY <1>1, HandlesReturn DEF Inv
<1>3. UNCHANGED <<session, file, library, pinned, changes, edited>>
  BY <1>1 DEF world
<1>4. pinned' \in Libraries \cup {None}
  BY <1>3 DEF Inv, WorldInv
<1> QED
  BY <1>1, <1>2, <1>3, <1>4, Failing

-----------------------------------------------------------------------------
(* The end of an operation. *)

\* What a load has found right when it ends.
LEMMA LoadedGenuine ==
  ASSUME NEW w, NEW f, NEW lib, NEW pin, LoadAt(w, 6, f, lib, pin)
  PROVE  /\ f # None /\ w.export = f /\ Genuine(w.export)
         /\ ~w.replaced => w.library = pin
BY DEF LoadAt, Replays, Genuine, LibraryAt

\* What a prediction has done to its rows when it ends.
LEMMA ReplayEnds ==
  ASSUME NEW w, NEW s, NEW lib, NEW pin, IsSequence(w.plan.preprocessing),
         PredictAt(w, HostSteps(w) + 4, s, lib, pin), IsExport(w.export), Genuine(w.export)
  PROVE  ReplayOk(w, s) /\ (~w.replaced => w.library = pin)
<1> DEFINE h == HostSteps(w)
           pre == w.plan.preprocessing
<1>1. h \in Nat /\ (IF w.export.model.does = NotEmbedded THEN h = Len(pre) ELSE h = 0)
  BY ListFacts DEF HostSteps
<1>2. Within((h + 4) - 3, h) = h
  <2> HIDE DEF h, pre
  <2>1. h \in Nat
    BY <1>1
  <2> QED
    BY <2>1 DEF Within
<1>3. w.rows.new = Prefix(pre, h)
  BY <1>2 DEF PredictAt
<1>4. Prefix(pre, 0) = <<>> /\ Prefix(pre, Len(pre)) = pre
  BY PrefixFacts
<1> HIDE DEF h, pre
<1>5. w.rows.new = IF w.export.model.does = NotEmbedded THEN pre ELSE <<>>
  BY <1>1, <1>3, <1>4
<1>6. ~w.replaced => w.library = pin
  <2>1. h + 4 > 0 /\ h + 4 > 2
    BY <1>1
  <2> QED
    BY <2>1 DEF PredictAt, LibraryAt, h
<1>7. w.export = s.export /\ w.plan = PlanOf(w.export.definition)
  BY DEF PredictAt, Replays
<1> QED
  BY <1>5, <1>6, <1>7 DEF ReplayOk, pre

\* The end of a run, a load or a prediction.
LEMMA FinishKeeps ==
  ASSUME Inv, Finish
  PROVE  Inv'
<1>1. /\ op # "none" /\ tasks = <<>> /\ phase = "idle" /\ UNCHANGED native
      /\ UNCHANGED <<file, library, pinned, changes, edited>>
      /\ op' = "none" /\ tasks' = <<>> /\ work' = NoWork /\ replies' = replies + 1
      /\ reply' = [op |-> op, ok |-> TRUE, why |-> None,
                   work |-> IF TRUE /\ op # "run" THEN work ELSE NoWork]
      /\ session' = IF op = "predict" THEN session
                    ELSE [open |-> TRUE, export |-> work.export,
                          origin |-> IF op = "run" THEN {} ELSE edited]
  BY DEF Finish, End
<1>2. HandlesInv' /\ phase' = "idle"
  BY <1>1, HandlesStay DEF Inv, native
<1>3. /\ library' \in Libraries /\ pinned' \in Libraries \cup {None} /\ FileInv'
  BY <1>1 DEF Inv, WorldInv, FileInv
<1>4. reply'.op = op /\ reply'.ok = TRUE /\ (op # "run" => reply'.work = work)
  BY <1>1
<1>5. op \in {"run", "load", "predict"}
  BY <1>1 DEF Inv, OperationInv
<1>6. CASE op = "run"
  <2> DEFINE d == Done(RunAll(work.plan), tasks)
  <2>1. d \in Nat /\ RunAt(work, d) /\ d > Refitting(work.plan)
    BY <1>1, <1>6, AtRun DEF Inv
  <2>2. IsExport(work.export) /\ Genuine(work.export) /\ Joined(work.export, work.export.definition)
    BY <2>1, RunExports
  <2>3. session' = [open |-> TRUE, export |-> work.export, origin |-> {}]
    BY <1>1, <1>6
  <2>4. SessionInv'
    BY <2>2, <2>3 DEF SessionInv, SessionAre
  <2>5. ReplyInv'
    BY <1>1, <1>4, <1>6 DEF ReplyInv, ReplyAre
  <2> QED
    BY <1>1, <1>2, <1>3, <2>4, <2>5, OperationEnds
<1>7. CASE op = "load"
  <2>1. LoadAt(work, 6, file, library, pinned)
    BY <1>1, <1>7, AtLoad DEF Inv
  <2>2. file # None /\ work.export = file /\ Genuine(file) /\ (~work.replaced => work.library = pinned)
    BY <2>1, LoadedGenuine
  <2>3. /\ IsExport(file)
        /\ edited \cap Mixed = {} => Joined(file, file.digested)
    BY <2>2 DEF Inv, FileInv, FileAre
  <2>4. file.digested = file.definition
    BY <2>2 DEF Genuine, ExportOk
  <2>5. session' = [open |-> TRUE, export |-> file, origin |-> edited]
    BY <1>1, <1>7, <2>2
  <2>6. SessionInv'
    <3>1. /\ DOMAIN session' = {"open", "export", "origin"} /\ session'.open = TRUE
          /\ session'.export = file /\ session'.origin = edited
      BY <2>5
    <3>2. edited \cap Mixed = {} => Joined(file, file.definition)
      BY <2>3, <2>4
    <3>3. file' = file
      BY <1>1
    <3> QED
      BY <2>2, <2>3, <3>1, <3>2, <3>3 DEF SessionInv, SessionAre
  <2>7. ReplyInv'
    BY <1>1, <1>4, <1>7, <2>2 DEF ReplyInv, ReplyAre
  <2> QED
    BY <1>1, <1>2, <1>3, <2>6, <2>7, OperationEnds
<1>8. CASE op = "predict"
  <2>1. /\ IsSequence(work.plan.preprocessing) /\ IsExport(work.export) /\ Genuine(work.export)
        /\ PredictAt(work, HostSteps(work) + 4, session, library, pinned)
    BY <1>1, <1>8, AtPredict DEF Inv
  <2>2. ReplayOk(work, session) /\ (~work.replaced => work.library = pinned)
    BY <2>1, ReplayEnds
  <2>3. session' = session
    BY <1>1, <1>8
  <2>4. SessionInv'
    BY <1>1, <2>3 DEF Inv, SessionInv
  <2>5. ReplyInv'
    BY <1>1, <1>4, <1>8, <2>2, <2>3 DEF ReplyInv, ReplyAre
  <2> QED
    BY <1>1, <1>2, <1>3, <2>4, <2>5, OperationEnds
<1> QED
  BY <1>5, <1>6, <1>7, <1>8

-----------------------------------------------------------------------------
(* The beginning of an operation. *)

\* An operation that starts keeps the invariant, if its data are right.
LEMMA Starting ==
  ASSUME Inv, NEW name \in {"run", "load", "predict"}, NEW todo, NEW data,
         Start(name, todo, data), UNCHANGED <<native, world>>, Shaped(data),
         name = "run" =>
           Rest(RunAll(data.plan), todo) /\ RunAt(data, Done(RunAll(data.plan), todo)),
         name = "load" =>
           Rest(LoadTasks, todo) /\ LoadAt(data, Done(LoadTasks, todo), file, library, pinned),
         name = "predict" =>
           /\ Rest(PredictTasks(data), todo)
           /\ PredictAt(data, Done(PredictTasks(data), todo), session, library, pinned)
  PROVE  Inv'
<1>1. /\ op = "none" /\ replies < MaxReplies /\ op' = name /\ tasks' = todo /\ work' = data
      /\ reply' = NoReply /\ UNCHANGED replies /\ UNCHANGED native
      /\ UNCHANGED <<session, file, library, pinned, changes, edited>>
  BY DEF Start, world
<1>2. HandlesInv'
  BY <1>1, HandlesStay DEF Inv
<1>3. phase = "idle" /\ phase' = phase
  BY <1>1 DEF Inv, OperationInv, native
<1>4. OperationInv'
  BY <1>1, <1>3 DEF OperationInv
<1>5. RunInv' /\ LoadInv' /\ PredictInv'
  BY <1>1 DEF RunInv, LoadInv, PredictInv
<1>6. FileInv' /\ SessionInv' /\ WorldInv'
  BY <1>1 DEF Inv, FileInv, SessionInv, WorldInv
<1>7. ReplyInv'
  <2>1. reply'.op = "none"
    BY <1>1 DEF NoReply
  <2> QED
    BY <2>1 DEF ReplyInv, ReplyAre
<1> QED
  BY <1>2, <1>4, <1>5, <1>6, <1>7 DEF Inv

\* An operation refused at once.
LEMMA Refusing ==
  ASSUME Inv, NEW name \in {"run", "load", "predict", "save"}, NEW why, Refuse(name, why),
         name = "load" /\ edited = {} /\ file # None => why \in {"native", "library"}
  PROVE  Inv'
<1>1. /\ op = "none" /\ replies < MaxReplies /\ replies' = replies + 1
      /\ reply' = [op |-> name, ok |-> FALSE, why |-> why, work |-> NoWork]
      /\ UNCHANGED <<op, tasks, work>> /\ UNCHANGED native
      /\ UNCHANGED <<session, file, library, pinned, changes, edited>>
  BY DEF Refuse, world
<1>2. HandlesInv'
  BY <1>1, HandlesStay DEF Inv
<1>3. OperationInv'
  BY <1>1 DEF Inv, OperationInv, native
<1>4. RunInv' /\ LoadInv' /\ PredictInv'
  BY <1>1 DEF RunInv, LoadInv, PredictInv
<1>5. FileInv' /\ SessionInv'
  BY <1>1 DEF Inv, FileInv, SessionInv
<1>6. WorldInv'
  BY <1>1, SessionAssumption DEF Inv, WorldInv
<1>7. ReplyInv'
  <2>1. reply'.op = name /\ reply'.ok = FALSE /\ reply'.why = why
    BY <1>1
  <2> QED
    BY <1>1, <2>1 DEF ReplyInv, ReplyAre
<1> QED
  BY <1>2, <1>3, <1>4, <1>5, <1>6, <1>7 DEF Inv

\* PortableSession::run.
LEMMA RunKeeps ==
  ASSUME Inv, Run
  PROVE  Inv'
<1> PICK k \in Known :
      IF k.plan = Refused THEN Refuse("run", "definition")
      ELSE /\ Start("run", RunTasks(k.plan) \o ExportTasks(k.plan),
                    [NoWork EXCEPT !.definition = k.definition, !.plan = k.plan])
           /\ UNCHANGED <<native, world>>
  BY DEF Run
<1>1. CASE k.plan = Refused
  BY <1>1, Refusing
<1>2. CASE k.plan # Refused
  <2> DEFINE data == [NoWork EXCEPT !.definition = k.definition, !.plan = k.plan]
             all == RunAll(k.plan)
  <2>1. Start("run", all, data) /\ UNCHANGED <<native, world>>
    BY <1>2 DEF RunAll
  <2>2. /\ Shaped(data) /\ data.definition = k.definition /\ data.plan = k.plan
        /\ data.rows.train = <<>> /\ data.rows.test = <<>> /\ data.variants = <<>>
        /\ data.selected = None /\ data.export = None
    BY SessionAssumption DEF NoWork, Shaped
  <2> HIDE DEF data, all
  <2>3. RunAt(data, 0)
    BY <1>2, <2>2, RunBegins
  <2>4. Rest(all, all) /\ Done(all, all) = 0
    <3>1. IsSequence(all)
      BY <1>2, KnownPlans, RunAllAt DEF all
    <3> QED
      BY <3>1, RestAll
  <2>5. Rest(RunAll(data.plan), all) /\ RunAt(data, Done(RunAll(data.plan), all))
    BY <2>2, <2>3, <2>4 DEF all
  <2> QED
    BY <2>1, <2>2, <2>5, Starting
<1> QED
  BY <1>1, <1>2

\* The data a load or a prediction starts with.
LEMMA ReplayedIs ==
  ASSUME NEW export, export.cols \in Nat
  PROVE  LET data == Replayed(export) IN
         /\ Shaped(data) /\ Replays(data) /\ data.export = export /\ data.rows.new = <<>>
         /\ data.plan = PlanOf(export.definition)
BY SessionAssumption DEF Replayed, NoWork, Shaped, Replays

\* PortableSession::load.
LEMMA LoadKeeps ==
  ASSUME Inv, LoadFile
  PROVE  Inv'
<1>1. CASE file = None /\ Refuse("load", "io")
  BY <1>1, Refusing
<1>2. CASE file # None /\ ~(Length(file) <= MaxExport /\ ExportOk(file)) /\ Refuse("load", "format")
  <2>1. edited # {}
    BY <1>2 DEF Inv, FileInv, FileAre, Genuine
  <2> QED
    BY <1>2, <2>1, Refusing
<1>3. CASE /\ file # None /\ ExportOk(file)
           /\ Start("load", LoadTasks, Replayed(file)) /\ UNCHANGED <<native, world>>
  <2> DEFINE data == Replayed(file)
  <2>1. file.cols \in Nat
    BY <1>3 DEF Inv, FileInv, FileAre, IsExport
  <2>2. Shaped(data) /\ Replays(data) /\ data.export = file
    BY <2>1, ReplayedIs
  <2> HIDE DEF data
  <2>3. LoadAt(data, 0, file, library, pinned)
    BY <1>3, <2>2 DEF LoadAt, LibraryAt
  <2>4. Rest(LoadTasks, LoadTasks) /\ Done(LoadTasks, LoadTasks) = 0
    BY LoadStages, RestAll
  <2> QED
    BY <1>3, <2>2, <2>3, <2>4, Starting DEF data
<1> QED
  BY <1>1, <1>2, <1>3 DEF LoadFile

\* PortableSession::predict.
LEMMA PredictKeeps ==
  ASSUME Inv, Predict
  PROVE  Inv'
<1>1. CASE Refuse("predict", "closed") \/ Refuse("predict", "width")
  BY <1>1, Refusing
<1>2. CASE /\ session # None /\ UNCHANGED <<native, world>>
           /\ \E data \in {Replayed(session.export)} : Start("predict", PredictTasks(data), data)
  <2> DEFINE data == Replayed(session.export)
             all == PredictTasks(data)
  <2>1. Start("predict", all, data) /\ UNCHANGED <<native, world>> /\ session # None
    BY <1>2
  <2>2. IsExport(session.export) /\ ExportOk(session.export)
    BY <1>2 DEF Inv, SessionInv, SessionAre, Genuine
  <2>3. /\ Shaped(data) /\ Replays(data) /\ data.export = session.export /\ data.rows.new = <<>>
        /\ data.plan = PlanOf(session.export.definition)
    BY <2>2, ReplayedIs DEF IsExport
  <2>4. IsSequence(data.plan.preprocessing)
    BY <2>2, <2>3, ReplayedPlan
  <2>5. IsSequence(all) /\ HostSteps(data) \in Nat
    BY <2>4, PredictStages
  <2> HIDE DEF data, all
  <2>6. Rest(all, all) /\ Done(all, all) = 0
    BY <2>5, RestAll
  <2>7. PredictAt(data, 0, session, library, pinned)
    <3>1. Within(0 - 3, HostSteps(data)) = 0
      BY <2>5 DEF Within
    <3>2. Prefix(data.plan.preprocessing, 0) = <<>>
      BY <2>4, PrefixFacts
    <3> QED
      BY <2>1, <2>3, <3>1, <3>2 DEF PredictAt, LibraryAt
  <2>8. /\ Rest(PredictTasks(data), all)
        /\ PredictAt(data, Done(PredictTasks(data), all), session, library, pinned)
    BY <2>6, <2>7 DEF all
  <2> QED
    BY <2>1, <2>3, <2>8, Starting
<1> QED
  BY <1>1, <1>2 DEF Predict

-----------------------------------------------------------------------------
(* Sessions between operations, and the environment. *)

\* PortableSession::save.
LEMMA SaveKeeps ==
  ASSUME Inv, Save
  PROVE  Inv'
<1>1. session # None /\ IsExport(session.export) /\ Genuine(session.export)
  BY DEF Save, Inv, SessionInv, SessionAre
<1>2. Length(session.export) \in Nat
  BY <1>1, SessionAssumption DEF IsExport, Length
<1>3. CASE Refuse("save", "closed") \/ Refuse("save", "format") \/ Refuse("save", "exists")
  BY <1>3, Refusing
<1>4. CASE /\ session.open /\ Length(session.export) <= MaxExport /\ file = None
           /\ op = "none" /\ replies < MaxReplies
           /\ file' = session.export /\ edited' = {}
           /\ reply' = [op |-> "save", ok |-> TRUE, why |-> None, work |-> NoWork]
           /\ replies' = replies + 1
           /\ UNCHANGED <<op, tasks, work, native, parsed, session, library, pinned, changes>>
  <2>1. session.origin = {}
    BY <1>1, <1>4 DEF Inv, SessionInv, SessionAre
  <2>2. Joined(session.export, session.export.definition)
    BY <1>1, <2>1 DEF Inv, SessionInv, SessionAre
  <2>3. FileInv'
    <3>1. /\ session.export.digested = session.export.definition
          /\ PlanOf(session.export.definition) # Refused
      BY <1>1 DEF Genuine, ExportOk
    <3> QED
      BY <1>1, <1>4, <2>2, <3>1 DEF FileInv, FileAre
  <2>4. SessionInv'
    <3>1. session' = session
      BY <1>4
    <3> QED
      BY <2>1, <3>1 DEF Inv, SessionInv, SessionAre
  <2>5. ReplyInv'
    <3>1. reply'.op = "save"
      BY <1>4
    <3> QED
      BY <1>4, <3>1 DEF ReplyInv, ReplyAre
  <2>6. WorldInv'
    BY <1>4, SessionAssumption DEF Inv, WorldInv
  <2>7. UNCHANGED native /\ UNCHANGED <<op, tasks, work, phase>>
    BY <1>4 DEF native
  <2>8. HandlesInv'
    BY <2>7, HandlesStay DEF Inv
  <2>9. OperationInv' /\ RunInv' /\ LoadInv' /\ PredictInv'
    BY <1>4, <2>7 DEF Inv, OperationInv, RunInv, LoadInv, PredictInv
  <2> QED
    BY <2>3, <2>4, <2>5, <2>6, <2>8, <2>9 DEF Inv
<1> QED
  BY <1>2, <1>3, <1>4, SessionAssumption DEF Save

\* Only the session changes, between two operations.
LEMMA SessionChanges ==
  ASSUME Inv, op = "none", SessionInv', ReplyInv',
         UNCHANGED <<op, tasks, work, file, library, pinned, changes, edited, reply, replies, native>>
  PROVE  Inv'
<1>1. UNCHANGED native /\ UNCHANGED <<op, tasks, work, phase>>
  BY DEF native
<1>2. HandlesInv'
  BY <1>1, HandlesStay DEF Inv
<1>3. OperationInv' /\ RunInv' /\ LoadInv' /\ PredictInv'
  BY <1>1 DEF Inv, OperationInv, RunInv, LoadInv, PredictInv
<1>4. FileInv' /\ WorldInv'
  BY DEF Inv, FileInv, WorldInv
<1> QED
  BY <1>2, <1>3, <1>4 DEF Inv

\* PortableSession::close.
LEMMA CloseKeeps ==
  ASSUME Inv, Close
  PROVE  Inv'
<1>1. op = "none" /\ session # None /\ session' = [session EXCEPT !.open = FALSE]
      /\ UNCHANGED <<op, tasks, work, file, library, pinned, changes, edited, reply, replies, native>>
  BY DEF Close
<1>2. /\ DOMAIN session' = {"open", "export", "origin"} /\ session'.open = FALSE
      /\ session'.export = session.export /\ session'.origin = session.origin
  BY <1>1 DEF Inv, SessionInv, SessionAre
<1>3. SessionInv'
  BY <1>1, <1>2 DEF Inv, SessionInv, SessionAre
<1>4. ReplyInv'
  BY <1>1, <1>2 DEF Inv, ReplyInv, ReplyAre, ReplayOk
<1> QED
  BY <1>1, <1>3, <1>4, SessionChanges

\* The caller drops the session.
LEMMA ForgetKeeps ==
  ASSUME Inv, Forget
  PROVE  Inv'
<1>1. op = "none" /\ session' = None
      /\ UNCHANGED <<op, tasks, work, file, library, pinned, changes, edited, reply, replies, native>>
  BY DEF Forget
<1>2. SessionInv'
  BY <1>1 DEF SessionInv, SessionAre
<1>3. ReplyInv'
  BY <1>1 DEF Inv, ReplyInv, ReplyAre, ReplayOk
<1> QED
  BY <1>1, <1>2, <1>3, SessionChanges

\* parse_execution_plan_str.
LEMMA ParseKeeps ==
  ASSUME Inv, ParseText
  PROVE  Inv'
<1>1. op = "none" /\ UNCHANGED session
      /\ UNCHANGED <<op, tasks, work, file, library, pinned, changes, edited, reply, replies, native>>
  BY DEF ParseText
<1>2. SessionInv' /\ ReplyInv'
  BY <1>1 DEF Inv, SessionInv, ReplyInv
<1> QED
  BY <1>1, <1>2, SessionChanges

\* No data are no data, replaced or not.
LEMMA NoWorkKept == [NoWork EXCEPT !.replaced = FALSE] = NoWork
<1> DEFINE w == NoWork
<1>1. w.replaced = FALSE /\ w = [x \in DOMAIN w |-> w[x]]
  BY DEF NoWork
<1> HIDE DEF w
<1>2. [w EXCEPT !.replaced = FALSE] = w
  BY <1>1
<1> QED
  BY <1>2 DEF w

\* Another library is nothing to an operation that knows of it.
LEMMA ReplaceKeeps ==
  ASSUME Inv, Replace
  PROVE  Inv'
<1> DEFINE v == [work EXCEPT !.replaced = op # "none"]
<1>1. /\ changes < MaxChanges /\ library' \in Libraries /\ changes' = changes + 1 /\ work' = v
      /\ UNCHANGED <<op, tasks, session, file, pinned, edited, reply, replies>> /\ UNCHANGED native
  BY DEF Replace
<1>2. Shaped(work)
  BY DEF Inv, OperationInv
<1>3. /\ Shaped(v) /\ v.replaced = (op # "none") /\ SamePlan(v, work) /\ SameRows(v, work)
      /\ SameChoice(v, work) /\ v.export = work.export /\ v.cols = work.cols
      /\ v.rows = work.rows
  BY <1>2 DEF Shaped, SamePlan, SameRows, SameChoice
<1>4. op = "none" => v = work
  <2> SUFFICES ASSUME op = "none" PROVE v = work
    OBVIOUS
  <2>1. work = NoWork /\ v = [work EXCEPT !.replaced = FALSE]
    BY DEF Inv, OperationInv
  <2> QED
    BY <2>1, NoWorkKept
<1> HIDE DEF v
<1>5. HandlesInv'
  BY <1>1, HandlesStay DEF Inv
<1>6. UNCHANGED phase
  BY <1>1 DEF native
<1>7. OperationInv'
  BY <1>1, <1>3, <1>4, <1>6 DEF Inv, OperationInv
<1>8. RunInv'
  <2> SUFFICES ASSUME op = "run" PROVE Rest(RunAll(v.plan), tasks) /\ RunAt(v, Done(RunAll(v.plan), tasks))
    BY <1>1 DEF RunInv
  <2>1. v.plan = work.plan
    BY <1>3 DEF SamePlan
  <2>2. \A n : RunAt(work, n) => RunAt(v, n)
    BY <1>3 DEF RunAt, OfKnown, RowsAt, VariantsAt, SelectedAt, ExportAt, SamePlan, SameRows, SameChoice
  <2> QED
    BY <2>1, <2>2 DEF Inv, RunInv
<1>9. LoadInv'
  <2> SUFFICES ASSUME op = "load" PROVE Rest(LoadTasks, tasks) /\ LoadAt(v, Done(LoadTasks, tasks), file, library', pinned)
    BY <1>1 DEF LoadInv
  <2>1. \A n : LoadAt(work, n, file, library, pinned) => LoadAt(v, n, file, library', pinned)
    BY <1>3 DEF LoadAt, Replays, LibraryAt, SamePlan, SameChoice
  <2> QED
    BY <2>1 DEF Inv, LoadInv
<1>10. PredictInv'
  <2> SUFFICES ASSUME op = "predict"
               PROVE  /\ Rest(PredictTasks(v), tasks)
                      /\ PredictAt(v, Done(PredictTasks(v), tasks), session, library', pinned)
    BY <1>1 DEF PredictInv
  <2>1. PredictTasks(v) = PredictTasks(work)
    BY <1>3 DEF PredictTasks, SamePlan
  <2>2. \A n : PredictAt(work, n, session, library, pinned) => PredictAt(v, n, session, library', pinned)
    BY <1>3 DEF PredictAt, Replays, LibraryAt, SamePlan, SameChoice, HostSteps
  <2> QED
    BY <2>1, <2>2 DEF Inv, PredictInv
<1>11. FileInv' /\ SessionInv' /\ ReplyInv'
  BY <1>1 DEF Inv, FileInv, SessionInv, ReplyInv
<1>12. WorldInv'
  BY <1>1, SessionAssumption DEF Inv, WorldInv
<1> QED
  BY <1>5, <1>7, <1>8, <1>9, <1>10, <1>11, <1>12 DEF Inv

\* What an edit leaves of a file, and what it says it changed.
Edited(f, g, what) ==
  /\ IsExport(f) => IsExport(g)
  /\ {what} \cap Mixed = {} => /\ g.digested = f.digested /\ g.model.does = f.model.does
                              /\ g.model.trained = f.model.trained

\* Every edit is of that kind.
LEMMA EditsAre ==
  ASSUME NEW f, IsExport(f), NEW e \in Edits(f)
  PROVE  Edited(f, e[2], e[1])
<1>1. /\ DOMAIN f = {"schema", "definition", "digested", "model", "cols", "declared"}
      /\ DOMAIN f.model = {"does", "trained", "components", "cols", "size", "damaged"}
      /\ f.schema \in {1, 2} /\ f.cols \in Nat /\ f.model.size \in Nat
      /\ f.definition \in Definitions /\ f.digested \in Definitions
  BY DEF IsExport
<1>2. CASE e = <<"schema", [f EXCEPT !.schema = 3 - @]>>
  BY <1>1, <1>2 DEF Edited, IsExport, Mixed
<1>3. CASE e = <<"declared", [f EXCEPT !.declared = IF @ = None THEN [window |-> 3, degree |-> 1]
                                                    ELSE None]>>
  BY <1>1, <1>3 DEF Edited, IsExport, Mixed
<1>4. CASE e = <<"cols", [f EXCEPT !.cols = Width + 1]>>
  BY <1>1, <1>4, SessionAssumption DEF Edited, IsExport, Mixed
<1>5. CASE e = <<"damaged", [f EXCEPT !.model.damaged = TRUE]>>
  BY <1>1, <1>5 DEF Edited, IsExport, Mixed
<1>6. CASE \E k \in Known : e = <<"text", [f EXCEPT !.definition = k.definition]>>
  <2> PICK k \in Known : e = <<"text", [f EXCEPT !.definition = k.definition]>>
    BY <1>6
  <2>1. k.definition \in Definitions
    BY DEF Definitions
  <2> QED
    BY <1>1, <2>1 DEF Edited, IsExport, Mixed
<1>7. CASE \E k \in Known :
             e = <<"definition", [f EXCEPT !.definition = k.definition, !.digested = k.definition]>>
  <2> PICK k \in Known :
        e = <<"definition", [f EXCEPT !.definition = k.definition, !.digested = k.definition]>>
    BY <1>7
  <2>1. k.definition \in Definitions
    BY DEF Definitions
  <2> QED
    BY <1>1, <2>1 DEF Edited, IsExport, Mixed
<1>8. CASE \E does, trained :
             e = <<"model", [f EXCEPT !.model.does = does, !.model.trained = trained]>>
  <2> PICK does, trained :
        e = <<"model", [f EXCEPT !.model.does = does, !.model.trained = trained]>>
    BY <1>8
  <2> DEFINE g == e[2]
  <2>1. e[1] = "model" /\ g = [f EXCEPT !.model.does = does, !.model.trained = trained]
    OBVIOUS
  <2> HIDE DEF g
  <2>2. /\ DOMAIN g = DOMAIN f /\ DOMAIN g.model = DOMAIN f.model
        /\ g.schema = f.schema /\ g.cols = f.cols /\ g.model.size = f.model.size
        /\ g.definition = f.definition /\ g.digested = f.digested
    BY <1>1, <2>1
  <2>3. IsExport(g)
    BY <1>1, <2>2 DEF IsExport
  <2> QED
    BY <2>1, <2>3 DEF Edited, Mixed, g
<1> QED
  BY <1>2, <1>3, <1>4, <1>5, <1>6, <1>7, <1>8 DEF Edits

\* The file is edited.
LEMMA EditKeeps ==
  ASSUME Inv, Edit
  PROVE  Inv'
<1>1. /\ op = "none" /\ file # None /\ changes < MaxChanges /\ changes' = changes + 1
      /\ UNCHANGED <<op, tasks, work, session, library, pinned, reply, replies>>
      /\ UNCHANGED native
  BY DEF Edit
<1>2. PICK e \in Edits(file) : e[2] # None /\ edited' = edited \cup {e[1]} /\ file' = e[2]
  BY DEF Edit
<1>3. IsExport(file)
  BY <1>1 DEF Inv, FileInv, FileAre
<1>4. Edited(file, file', e[1])
  BY <1>2, <1>3, EditsAre
<1>5. edited' # {}
  BY <1>2
<1>6. edited' \cap Mixed = {} => edited \cap Mixed = {} /\ {e[1]} \cap Mixed = {}
  BY <1>2
<1>7. FileInv'
  <2>1. IsExport(file')
    BY <1>3, <1>4 DEF Edited
  <2>2. edited' \cap Mixed = {} =>
          PlanOf(file'.digested) # Refused /\ Joined(file', file'.digested)
    BY <1>1, <1>4, <1>6 DEF Inv, FileInv, FileAre, Edited, Joined
  <2> QED
    BY <1>5, <2>1, <2>2 DEF FileInv, FileAre
<1>8. SessionInv'
  <2>1. file' # None
    BY <1>2
  <2> QED
    BY <1>1, <2>1 DEF Inv, SessionInv, SessionAre
<1>9. ReplyInv'
  BY <1>1, <1>5 DEF Inv, ReplyInv, ReplyAre
<1>10. WorldInv'
  BY <1>1, SessionAssumption DEF Inv, WorldInv
<1>11. HandlesInv'
  BY <1>1, HandlesStay DEF Inv
<1>12. UNCHANGED phase
  BY <1>1 DEF native
<1>13. OperationInv' /\ RunInv' /\ LoadInv' /\ PredictInv'
  BY <1>1, <1>12 DEF Inv, OperationInv, RunInv, LoadInv, PredictInv
<1> QED
  BY <1>7, <1>8, <1>9, <1>10, <1>11, <1>13 DEF Inv

-----------------------------------------------------------------------------
(* The invariant. *)

\* What an earlier version saved is what a session may hold.
LEMMA HistoricalIs ==
  ASSUME NEW k \in Known, k.plan # Refused
  PROVE  FileAre(Historical(k), {})
<1> DEFINE f == Historical(k)
<1>1. /\ DOMAIN f = {"schema", "definition", "digested", "model", "cols", "declared"}
      /\ DOMAIN f.model = {"does", "trained", "components", "cols", "size", "damaged"}
      /\ f.schema = 1 /\ f.definition = k.definition /\ f.digested = k.definition
      /\ f.cols = Width /\ f.declared = None
      /\ f.model.does = NotEmbedded /\ f.model.trained = k.plan.preprocessing
      /\ f.model.cols = Width /\ f.model.size = 1 /\ f.model.damaged = FALSE
  BY DEF Historical, Exported, Model, Declared
<1> HIDE DEF f
<1>2. /\ Width \in Nat \ {0} /\ PerByte \in Nat \ {0} /\ PerByte <= MaxExport /\ MaxModel \in Nat \ {0}
  BY SessionAssumption
<1>3. PlanOk(k.plan) /\ PlanOf(k.definition) = k.plan /\ k.definition \in Definitions
  BY KnownPlans DEF Definitions
<1>4. IsExport(f)
  BY <1>1, <1>2, <1>3 DEF IsExport
<1>5. Genuine(f)
  BY <1>1, <1>2, <1>3 DEF Genuine, ExportOk, ContractOk, PlanAgrees, Declared
<1>6. Joined(f, f.digested)
  <2>1. IsSequence(k.plan.preprocessing) /\ Performed(NotEmbedded) = <<>>
    BY <1>3, Counting DEF Performed
  <2>2. k.plan.preprocessing \o <<>> = k.plan.preprocessing
    BY <2>1, ListFacts
  <2> QED
    BY <1>1, <1>3, <2>1, <2>2 DEF Joined
<1>7. Length(f) <= MaxExport
  BY <1>1, <1>2 DEF Length
<1> QED
  BY <1>1, <1>3, <1>4, <1>5, <1>6, <1>7 DEF FileAre, f

\* The invariant holds at first, with or without the file of an earlier version.
LEMMA InvInit == Init => Inv
<1> SUFFICES ASSUME Init PROVE Inv
  OBVIOUS
<1>1. /\ op = "none" /\ tasks = <<>> /\ work = NoWork /\ session = None /\ library \in Libraries
      /\ pinned = None /\ changes = 0 /\ edited = {} /\ reply = NoReply /\ replies = 0 /\ Quiet
  BY DEF Init
<1>2. HandlesInv
  BY <1>1, HandlesInit
<1>3. OperationInv
  BY <1>1, NoWorkShaped DEF OperationInv, Quiet
<1>4. RunInv /\ LoadInv /\ PredictInv
  BY <1>1 DEF RunInv, LoadInv, PredictInv
<1>5. FileInv
  <2>1. CASE file = None
    BY <2>1 DEF FileInv, FileAre
  <2>2. CASE \E k \in Known : k.plan # Refused /\ file = Historical(k)
    BY <1>1, <2>2, HistoricalIs DEF FileInv
  <2> QED
    BY <2>1, <2>2 DEF Init
<1>6. SessionInv
  BY <1>1 DEF SessionInv, SessionAre
<1>7. ReplyInv
  <2>1. reply.op = "none"
    BY <1>1 DEF NoReply
  <2> QED
    BY <2>1 DEF ReplyInv, ReplyAre
<1>8. WorldInv
  BY <1>1, SessionAssumption DEF WorldInv
<1> QED
  BY <1>2, <1>3, <1>4, <1>5, <1>6, <1>7, <1>8 DEF Inv

\* Every step keeps the invariant.
LEMMA InvNext == Inv /\ [Next]_vars => Inv'
<1> SUFFICES ASSUME Inv, [Next]_vars PROVE Inv'
  OBVIOUS
<1>1. CASE ParseText
  BY <1>1, ParseKeeps
<1>2. CASE Run
  BY <1>2, RunKeeps
<1>3. CASE LoadFile
  BY <1>3, LoadKeeps
<1>4. CASE Predict
  BY <1>4, PredictKeeps
<1>5. CASE Save
  BY <1>5, SaveKeeps
<1>6. CASE Close
  BY <1>6, CloseKeeps
<1>7. CASE Forget
  BY <1>7, ForgetKeeps
<1>8. CASE Progress
  <2>1. CASE Open
    BY <2>1, OpenKeeps
  <2>2. CASE Inspect
    BY <2>2, InspectKeeps
  <2>3. CASE Agree
    BY <2>3, AgreeKeeps
  <2>4. CASE Contract
    BY <2>4, ContractKeeps
  <2>5. CASE Select
    BY <2>5, SelectKeeps
  <2>6. CASE CallRoutine
    BY <2>6, CallKeeps
  <2>7. CASE InRoutine
    BY <2>7, InRoutineKeeps
  <2>8. CASE Complete
    BY <2>8, CompleteKeeps
  <2>9. CASE Abort
    BY <2>9, AbortKeeps
  <2>10. CASE Finish
    BY <2>10, FinishKeeps
  <2> QED
    BY <1>8, <2>1, <2>2, <2>3, <2>4, <2>5, <2>6, <2>7, <2>8, <2>9, <2>10 DEF Progress
<1>9. CASE Replace
  BY <1>9, ReplaceKeeps
<1>10. CASE Edit
  BY <1>10, EditKeeps
<1>11. CASE UNCHANGED vars
  <2>1. /\ UNCHANGED <<op, tasks, work, session, file, library, pinned, changes, edited, reply, replies>>
        /\ UNCHANGED native
    BY <1>11 DEF vars
  <2>2. HandlesInv' /\ UNCHANGED phase
    BY <2>1, HandlesStay DEF Inv, native
  <2>3. OperationInv' /\ RunInv' /\ LoadInv' /\ PredictInv'
    BY <2>1, <2>2 DEF Inv, OperationInv, RunInv, LoadInv, PredictInv
  <2>4. FileInv' /\ SessionInv' /\ ReplyInv' /\ WorldInv'
    BY <2>1 DEF Inv, FileInv, SessionInv, ReplyInv, WorldInv
  <2> QED
    BY <2>2, <2>3, <2>4 DEF Inv
<1> QED
  BY <1>1, <1>2, <1>3, <1>4, <1>5, <1>6, <1>7, <1>8, <1>9, <1>10, <1>11 DEF Next

\* Every reachable state has the handles, the data, the file, the session and
\* the last reply the operations so far account for.
THEOREM Invariant == Spec => []Inv
<1>1. Init => Inv
  BY InvInit
<1>2. Inv /\ [Next]_vars => Inv'
  BY InvNext
<1> QED
  BY <1>1, <1>2, PTL DEF Spec

-----------------------------------------------------------------------------
(* What the runs check. *)

\* Every variable stays in its type, and between two operations no data of one
\* is left: PortableSession and its caller.
THEOREM TypesHold == Spec => []TypeOK
<1>1. Inv => TypeOK
  <2> SUFFICES ASSUME Inv PROVE TypeOK
    OBVIOUS
  <2>1. NativeTypeOK
    BY HandlesHold DEF Inv
  <2>2. /\ op \in {"none", "run", "load", "predict"}
        /\ op = "none" => tasks = <<>> /\ phase = "idle" /\ work = NoWork
        /\ Shaped(work)
    BY DEF Inv, OperationInv
  <2>3. DOMAIN work = DOMAIN NoWork /\ work.empty \in BOOLEAN /\ work.cols \in Nat
    BY <2>2 DEF Shaped, NoWork
  <2>4. session # None => session.open \in BOOLEAN /\ session.export.cols \in Nat
    BY DEF Inv, SessionInv, SessionAre, IsExport
  <2>5. file # None => file.schema \in {1, 2}
    BY DEF Inv, FileInv, FileAre, IsExport
  <2>6. /\ library \in Libraries /\ pinned \in Libraries \cup {None}
        /\ changes \in 0 .. MaxChanges /\ replies \in 0 .. MaxReplies
    BY DEF Inv, WorldInv
  <2>7. op = "none" => [work EXCEPT !.replaced = FALSE] = NoWork
    BY <2>2, NoWorkKept
  <2> QED
    BY <2>1, <2>2, <2>3, <2>4, <2>5, <2>6, <2>7 DEF TypeOK
<1> QED
  BY Invariant, <1>1, PTL

\* Whatever call fails, no routine of MethodsLibrary leaks a handle, frees one
\* twice, or gives a call a handle that is gone.
THEOREM HandlesAreSound == Spec => []HandlesSound
<1>1. Inv => HandlesSound
  BY HandlesHold DEF Inv
<1> QED
  BY Invariant, <1>1, PTL

\* A library that replays a model is the attested one, unless its file was
\* replaced while the operation ran.
THEOREM RuntimeIsPinned == Spec => []PinnedRuntime
<1>1. Inv => PinnedRuntime
  BY DEF Inv, ReplyInv, ReplyAre, PinnedRuntime
<1> QED
  BY Invariant, <1>1, PTL

\* What save wrote, and what an earlier version wrote, load accepts.
THEOREM SavedAlwaysReloads == Spec => []SavedReloads
<1>1. Inv => SavedReloads
  BY DEF Inv, ReplyInv, ReplyAre, SavedReloads
<1> QED
  BY Invariant, <1>1, PTL

\* An export without contradiction embeds the steps of its definition, or none.
LEMMA SoundExport ==
  ASSUME NEW export, IsExport(export), Genuine(export)
  PROVE  /\ export.model.does # NotEmbedded =>
              PlanOf(export.definition).preprocessing = Performed(export.model.does)
         /\ IsSequence(PlanOf(export.definition).preprocessing)
<1>1. PlanOk(PlanOf(export.definition)) /\ IsSequence(PlanOf(export.definition).preprocessing)
  BY ReplayedPlan DEF Genuine
<1>2. export.model.does # NotEmbedded => EmbeddedSpec(PlanOf(export.definition)) = export.model.does
  BY DEF Genuine, ContractOk, PlanAgrees
<1> QED
  BY <1>1, <1>2, Embeds

\* However a session came to be, its export contradicts itself nowhere.
THEOREM SessionsAreSound == Spec => []SessionSound
<1>1. Inv => SessionSound
  <2> SUFFICES ASSUME Inv, session # None PROVE SessionSound
    BY DEF SessionSound
  <2>1. IsExport(session.export) /\ Genuine(session.export)
    BY DEF Inv, SessionInv, SessionAre
  <2>2. session.export.model.does # NotEmbedded =>
          PlanOf(session.export.definition).preprocessing = Performed(session.export.model.does)
    BY <2>1, SoundExport
  <2> QED
    BY <2>1, <2>2 DEF SessionSound, Genuine, ExportOk, ContractOk
<1> QED
  BY Invariant, <1>1, PTL

\* Only a run selects a variant.
LEMMA SelectedByRun ==
  ASSUME Inv, work.selected # None
  PROVE  /\ op = "run" /\ Done(RunAll(work.plan), tasks) \in Nat
         /\ RunAt(work, Done(RunAll(work.plan), tasks))
<1>1. op # "none"
  BY NoWorkShaped DEF Inv, OperationInv
<1>2. op # "load"
  BY DEF Inv, LoadInv, LoadAt, Replays
<1>3. op # "predict"
  BY DEF Inv, PredictInv, PredictAt, Replays
<1>4. op = "run"
  BY <1>1, <1>2, <1>3 DEF Inv, OperationInv
<1> QED
  BY <1>4, AtRun DEF Inv

\* A run exports the first of its variants with the smallest error.
THEOREM BestIsSelected == Spec => []BestSelected
<1>1. Inv => BestSelected
  <2> SUFFICES ASSUME Inv, work.selected # None PROVE BestSelected
    BY DEF BestSelected
  <2> DEFINE d == Done(RunAll(work.plan), tasks)
             v == work.variants
  <2>1. d \in Nat /\ RunAt(work, d)
    BY SelectedByRun
  <2> HIDE DEF d
  <2>2. v \in Variants /\ FirstBest(v, Len(v), work.selected)
    BY <2>1, RunHasSelected
  <2>3. DOMAIN v = 1 .. Len(v)
    BY <2>2, LenProperties DEF Variants
  <2>4. work.export # None => work.export.model.components = work.selected.components
    BY <2>1, RunExports
  <2> HIDE DEF v
  <2>5. /\ v[1].rmse = NaN => work.selected = v[1]
        /\ v[1].rmse # NaN =>
             \E i \in {i \in DOMAIN v : v[i].rmse # NaN} :
               /\ work.selected = v[i]
               /\ \A j \in {j \in DOMAIN v : v[j].rmse # NaN} :
                    v[i].rmse <= v[j].rmse /\ (j < i => v[i].rmse < v[j].rmse)
    BY <2>2, <2>3, SMTT(60) DEF FirstBest
  <2> QED
    BY <2>4, <2>5 DEF BestSelected, v
<1> QED
  BY Invariant, <1>1, PTL

\* The rows a variant is judged on, a model is trained on or a prediction is
\* made for go through the declared preprocessing exactly once.
THEOREM PreprocessingIsOnce == Spec => []PreprocessedOnce
<1>1. Inv => PreprocessedOnce
  <2> SUFFICES ASSUME Inv PROVE PreprocessedOnce
    OBVIOUS
  <2>1. work.selected # None =>
          work.judged.train = work.plan.preprocessing /\ work.judged.test = work.plan.preprocessing
    BY SelectedByRun, RunHasSelected
  <2>2. op = "run" /\ work.export # None =>
          work.export.model.trained \o Performed(work.export.model.does) = work.plan.preprocessing
    <3> SUFFICES ASSUME op = "run", work.export # None
                 PROVE  work.export.model.trained \o Performed(work.export.model.does)
                          = work.plan.preprocessing
      OBVIOUS
    <3> DEFINE d == Done(RunAll(work.plan), tasks)
    <3>1. d \in Nat /\ RunAt(work, d)
      BY AtRun DEF Inv
    <3> HIDE DEF d
    <3>2. Joined(work.export, work.export.definition) /\ work.export.definition = work.definition
      BY <3>1, RunExports
    <3>3. PlanOf(work.definition) = work.plan
      BY <3>1, OfKnownPlans DEF RunAt
    <3> QED
      BY <3>2, <3>3 DEF Joined
  <2>3. ASSUME reply.op = "predict", reply.ok
        PROVE  LET model == reply.work.export.model
                   seen == reply.work.rows.new \o Performed(model.does)
               IN  /\ seen = reply.work.plan.preprocessing
                   /\ session # None /\ session.origin \cap {"definition", "model"} = {} =>
                        seen = model.trained \o Performed(model.does)
    <3> DEFINE x == reply.work.export
               pre == reply.work.plan.preprocessing
               rows == reply.work.rows.new
    <3>1. ReplayOk(reply.work, session)
      BY <2>3 DEF Inv, ReplyInv, ReplyAre
    <3>2. /\ IsExport(x) /\ Genuine(x) /\ reply.work.plan = PlanOf(x.definition)
          /\ rows = IF x.model.does = NotEmbedded THEN pre ELSE <<>>
          /\ session # None => session.export = x
      BY <3>1 DEF ReplayOk
    <3>3. IsSequence(pre) /\ (x.model.does # NotEmbedded => pre = Performed(x.model.does))
      BY <3>2, SoundExport
    <3>4. session # None /\ session.origin \cap Mixed = {} =>
            x.model.trained \o Performed(x.model.does) = pre
      BY <3>2 DEF Inv, SessionInv, SessionAre, Joined
    <3> HIDE DEF x, pre, rows
    <3>5. rows \o Performed(x.model.does) = pre
      <4>1. pre \o <<>> = pre /\ <<>> \o pre = pre
        BY <3>3, ListFacts
      <4>2. Performed(NotEmbedded) = <<>>
        BY DEF Performed
      <4> QED
        BY <3>2, <3>3, <4>1, <4>2
    <3> QED
      BY <3>4, <3>5 DEF x, pre, rows, Mixed
  <2> QED
    BY <2>1, <2>2, <2>3 DEF PreprocessedOnce
<1> QED
  BY Invariant, <1>1, PTL
\* What was parsed is the plan of a text.
ParsedInv == parsed # None => \E text \in Texts : parsed = [text |-> text, plan |-> Plan(text)]

LEMMA ParsedInit == Init => ParsedInv
BY DEF Init, ParsedInv

LEMMA ParsedNext == ParsedInv /\ [Next]_vars => ParsedInv'
<1> SUFFICES ASSUME ParsedInv, [Next]_vars PROVE ParsedInv'
  OBVIOUS
<1>1. CASE ParseText
  BY <1>1 DEF ParseText, ParsedInv
<1>2. CASE UNCHANGED parsed
  BY <1>2 DEF ParsedInv
<1>3. CASE Run \/ LoadFile \/ Predict
  <2>1. UNCHANGED parsed
    <3>1. CASE Run
      BY <3>1, Zenon DEF Run, Refuse, world
    <3>2. CASE LoadFile
      BY <3>2 DEF LoadFile, Refuse, world
    <3>3. CASE Predict
      BY <3>3, Zenon DEF Predict, Refuse, world
    <3> QED
      BY <1>3, <3>1, <3>2, <3>3
  <2> QED
    BY <1>2, <2>1
<1>4. CASE Save \/ Close \/ Forget
  <2>1. CASE Save
    BY <1>2, <2>1 DEF Save, Refuse, world
  <2>2. CASE Close \/ Forget
    BY <1>2, <2>2 DEF Close, Forget
  <2> QED
    BY <1>4, <2>1, <2>2
<1>5. CASE Progress
  <2>1. UNCHANGED parsed
    BY <1>5, Zenon
       DEF Progress, Open, Inspect, Agree, Contract, Select, CallRoutine, InRoutine, Complete,
           Abort, Finish, world
  <2> QED
    BY <1>2, <2>1
<1>6. CASE Replace \/ Edit
  BY <1>2, <1>6 DEF Replace, Edit
<1> QED
  BY <1>1, <1>2, <1>3, <1>4, <1>5, <1>6 DEF Next, vars

\* A text is planned exactly when it means a portable pipeline, its plan has
\* the steps and the numbers of components that the text means, and the
\* definition an export carries is planned as the text was.
THEOREM PlansAreFaithful == Spec => []PlanFaithful
<1>1. ParsedInv => PlanFaithful
  <2> SUFFICES ASSUME ParsedInv, parsed # None PROVE PlanFaithful
    BY DEF PlanFaithful
  <2> PICK text \in Texts : parsed = [text |-> text, plan |-> Plan(text)]
    BY DEF ParsedInv
  <2> DEFINE d == LoadDefinition(text)
             steps == Steps(text)
             last == steps[Len(steps)]
             kept == {i \in DOMAIN steps : Preprocesses(steps[i])}
             plan == Plan(text)
             n == plan.n_components
  <2>1. /\ d # Refused <=> ReadsText(text) /\ Classes(Arr(steps)) \subseteq Allowed
        /\ d # Refused => /\ d.t = "obj" /\ d.at["pipeline"] = Arr(steps)
                          /\ LoadDefinition(d) = d /\ IsSequence(steps)
    BY LoadIs
  <2>2. plan = IF d = Refused THEN Refused ELSE Parse(d)
    BY DEF Plan
  <2>3. d # Refused => /\ plan # Refused <=> Portable(steps)
                       /\ plan # Refused => PlanMeans(plan, steps)
    <3> SUFFICES ASSUME d # Refused
                 PROVE  /\ plan # Refused <=> Portable(steps)
                        /\ plan # Refused => PlanMeans(plan, steps)
      OBVIOUS
    <3>1. d.at["pipeline"].items = steps
      BY <2>1 DEF Arr
    <3>2. plan = Parse(d)
      BY <2>2
    <3>3. d.t = "obj" /\ IsSequence(steps)
      BY <2>1
    <3> HIDE DEF d, steps, plan
    <3> QED
      BY <3>1, <3>2, <3>3, ParseIs, Zenon
  <2>4. plan # Refused => Plan(d) = plan
    BY <2>1, <2>2 DEF Plan
  <2> HIDE DEF d, plan, last, steps
  <2>5. plan # Refused <=> /\ ReadsText(text) /\ Portable(steps)
                           /\ Classes(Arr(steps)) \subseteq Allowed
    BY <2>1, <2>2, <2>3
  <2>6. plan # Refused =>
          /\ ReadsComponents(last) /\ n = Components(last)
          /\ Len(plan.preprocessing) = Cardinality(kept)
          /\ \A i \in kept :
               plan.preprocessing[Cardinality({j \in kept : j <= i})] = StepOf(steps[i])
    BY <2>2, <2>3, Zenon DEF PlanMeans, last
  <2>7. plan # Refused =>
          /\ n # <<>> /\ Len(n) <= MaxVariants
          /\ \A i \in DOMAIN n : n[i] \in 1 .. I32Max /\ (i > 1 => n[i] > n[i - 1])
          /\ Has(last, "_range_") =>
               LET bound(k) == IntParam(last.at["_range_"].items[k], 0)
               IN ToSet(n) = {c \in bound(1) .. bound(2) : (c - bound(1)) % bound(3) = 0}
    <3> SUFFICES ASSUME plan # Refused
                 PROVE  /\ n # <<>> /\ Len(n) <= MaxVariants
                        /\ \A i \in DOMAIN n : n[i] \in 1 .. I32Max /\ (i > 1 => n[i] > n[i - 1])
                        /\ Has(last, "_range_") =>
                             LET bound(k) == IntParam(last.at["_range_"].items[k], 0)
                             IN ToSet(n) =
                                  {c \in bound(1) .. bound(2) : (c - bound(1)) % bound(3) = 0}
      OBVIOUS
    <3>1. ReadsComponents(last) /\ n = Components(last)
      BY <2>6
    <3> QED
      BY <3>1, ComponentsReach
  <2>8. kept = {i \in DOMAIN steps : ClassOf(steps[i]) \in {Str(SnvClass), Str(SavgolClass)}}
    BY DEF Preprocesses
  <2>9. \A step : StepOf(step) = IF ClassOf(step) = Str(SnvClass) THEN Snv
                                 ELSE Savgol(Get(step, "params"))
    BY DEF StepOf
  <2>10. parsed.text = text /\ parsed.plan = plan
    BY DEF plan
  <2> HIDE DEF kept
  <2> QED
    BY <2>4, <2>5, <2>6, <2>7, <2>8, <2>9, <2>10, Zenon
       DEF PlanFaithful, ReadsText, Allowed, d, steps, last
<1> QED
  BY ParsedInit, ParsedNext, <1>1, PTL DEF Spec

=============================================================================
