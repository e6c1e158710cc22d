---------------------------- MODULE PortableSession ----------------------------
(***************************************************************************)
(* Portable sessions (portable_session.rs over lib.rs): run a definition,  *)
(* export its best model, save, close, load and predict, every numerical   *)
(* step a routine of libn4m that may fail.  A matrix is reduced to the     *)
(* preprocessing its rows went through, a model to how it was trained and  *)
(* to what it does itself with its input, a library to its bytes.          *)
(***************************************************************************)
EXTENDS PortablePlan, NativeCalls

CONSTANTS
  Texts,       \* definitions, as read from JSON or YAML
  Used,        \* those the sessions of a behaviour are made from
  Width,       \* columns of the dataset
  Libraries,   \* contents of the library file
  NaN,         \* the score of a variant that has none
  Sizes,       \* lengths of a serialized model
  PerByte,     \* characters of one model byte in the JSON of an export
  MaxModel,    \* 64 MiB: longest model
  MaxExport,   \* 64 MiB: longest session file
  MaxChanges,  \* bound: replacements of the library, and edits of the file
  MaxReplies   \* bound: operations of a behaviour

ASSUME SessionAssumption ==
  /\ Used \subseteq Texts /\ Width \in Nat \ {0} /\ Libraries # {}
  /\ Sizes \subseteq Nat \ {0} /\ PerByte \in Nat \ {0}
  /\ MaxModel \in Nat \ {0} /\ MaxExport \in Nat /\ PerByte <= MaxExport
  /\ MaxChanges \in Nat /\ MaxReplies \in Nat

\* Values and what they are made of.
Opened(values) ==
  values \cup UNION {IF v.t = "arr" THEN {v.items[i] : i \in DOMAIN v.items}
                     ELSE IF v.t = "obj" THEN {v.at[key] : key \in DOMAIN v.at} ELSE {} :
                       v \in values}

\* JSON: the items of every array a text is read for are in a sequence.
ASSUME TextsAssumption ==
  \A v \in Opened(Opened(Opened(Opened(Opened(Opened(Texts)))))) :
    v.t = "arr" => v.items \in Seq({v.items[i] : i \in DOMAIN v.items})

VARIABLES
  parsed,    \* a text and its plan: parse_execution_plan_str
  op,        \* operation under way: "none", "run", "load" or "predict"
  tasks,     \* what it has still to do
  work,      \* its data
  session,   \* None, or its export and whether it is open
  file,      \* the export at the path of the session file, None if there is none
  library,   \* content of the library file
  pinned,    \* content the process fixed for its runtime, None before
  changes,   \* replacements and edits so far
  edited,    \* history: what was edited in the file since it was saved
  reply,     \* history: the last operation that ended
  replies    \* operations that ended

vars == <<parsed, op, tasks, work, session, file, library, pinned, changes, edited,
          reply, replies, native>>
world == <<parsed, session, file, library, pinned, changes, edited>>

-----------------------------------------------------------------------------
(* Models and exports. *)

\* The texts of the sessions, each with what load_pipeline_definition_str and
\* parse_execution_plan give for it; an export holds the definition.
Known == {[definition |-> LoadDefinition(text), plan |-> Plan(LoadDefinition(text))] : text \in Used}
PlanOf(definition) == (CHOOSE k \in Known : k.definition = definition).plan

\* N4MM: does = the preprocessing it embeds, trained = the preprocessing its
\* training rows went through before; damaged = not readable.
Model(does, trained, components, size) ==
  [does |-> does, trained |-> trained, components |-> components, cols |-> Width,
   size |-> size, damaged |-> FALSE]

\* The four fields of the embedded schema, one record here.
Declared(does) == IF does = NotEmbedded THEN None ELSE does

\* export_from_result
Exported(definition, model) ==
  [schema |-> IF model.does = NotEmbedded THEN 1 ELSE 2,
   definition |-> definition, digested |-> definition, model |-> model,
   cols |-> Width, declared |-> Declared(model.does)]

Length(export) == export.model.size * PerByte

\* What an earlier version saved: a model alone, whatever its preprocessing.
Historical(k) ==
  Exported(k.definition, Model(NotEmbedded, k.plan.preprocessing, k.plan.n_components[1], 1))

\* validate_export; the model is never empty
ExportOk(export) ==
  /\ PlanOf(export.definition) # Refused
  /\ export.digested = export.definition
  /\ export.model.size <= MaxModel
  /\ export.cols > 0

\* validate_portable_model_plan
PlanAgrees(plan, does) == does # NotEmbedded => EmbeddedSpec(plan) = does

\* Mutant: an export of the first schema may hold an embedding model.
ContractOk_AnySchema(export) ==
  /\ PlanAgrees(PlanOf(export.definition), export.model.does)
  /\ export.schema = 2 => export.declared = Declared(export.model.does)
\* validate_export_preprocessing_contract
ContractOk(export) ==
  /\ PlanAgrees(PlanOf(export.definition), export.model.does)
  /\ export.schema = (IF export.model.does = NotEmbedded THEN 1 ELSE 2)
  /\ export.declared = Declared(export.model.does)

-----------------------------------------------------------------------------
(* Tasks: the statements of the operations that may fail or change state. *)

Task(do) == [do |-> do]
On(part, step) == [do |-> "transform", part |-> part, step |-> step]
Fit(n) == [do |-> "fit", n |-> n]
OnAll(part, steps) == [i \in DOMAIN steps |-> On(part, steps[i])]
\* Every step transforms the training rows, then the test rows.
OnBoth(steps) ==
  [i \in 1 .. 2 * Len(steps) |->
     On(IF i % 2 = 1 THEN "train" ELSE "test", steps[(i + 1) \div 2])]
Fits(components) == [i \in DOMAIN components |-> Fit(components[i])]

SplitTask(plan) == IF plan.splitter = Absent THEN <<>> ELSE <<Task("split")>>

\* run_portable_pipeline_with_library
RunTasks(plan) ==
  <<Task("open")>> \o SplitTask(plan)
    \o OnBoth(plan.preprocessing) \o Fits(plan.n_components) \o <<Task("select")>>

\* run_portable_pipeline_with_exported_model, after its run, and
\* PortableSession::run_with_library
ExportTasks(plan) ==
  <<Task("open")>> \o SplitTask(plan)
    \o (IF EmbeddedSpec(plan) = NotEmbedded THEN OnAll("train", plan.preprocessing) ELSE <<>>)
    \o <<Task("refit"), Task("inspect"), Task("agree")>>

\* load_with_library, after validate_export: the last three tasks are
\* validate_exported_portable_model_with_library.
LoadTasks == <<Task("inspect"), Task("contract"), Task("inspect"), Task("agree"),
               Task("open"), Task("import")>>

\* Mutant: the descriptor of the session is taken instead of a new inspection.
PredictTasks_Uninspected(data) ==
  <<Task("open")>>
    \o (IF data.export.model.does = NotEmbedded THEN OnAll("new", data.plan.preprocessing)
        ELSE <<>>)
    \o <<Task("import")>>
\* predict_exported_portable_model_with_library
PredictTasks(data) ==
  <<Task("inspect"), Task("agree"), Task("open")>>
    \o (IF data.export.model.does = NotEmbedded THEN OnAll("new", data.plan.preprocessing)
        ELSE <<>>)
    \o <<Task("import")>>

-----------------------------------------------------------------------------
(* Operations. *)

NoWork ==
  [definition |-> Refused, plan |-> Refused, export |-> None, library |-> None, inspected |-> None,
   rows |-> [train |-> <<>>, test |-> <<>>, new |-> <<>>], empty |-> FALSE,
   judged |-> [train |-> <<>>, test |-> <<>>, new |-> <<>>], variants |-> <<>>,
   selected |-> None, cols |-> Width, replaced |-> FALSE]
NoReply == [op |-> "none", ok |-> TRUE, why |-> None, work |-> NoWork]

Init ==
  /\ parsed = None
  /\ op = "none" /\ tasks = <<>> /\ work = NoWork
  /\ session = None
  /\ file \in {None} \cup {Historical(k) : k \in {k \in Known : k.plan # Refused}}
  /\ library \in Libraries /\ pinned = None
  /\ changes = 0 /\ edited = {}
  /\ reply = NoReply /\ replies = 0
  /\ Quiet

\* parse_execution_plan_str, asked before anything else happens.
ParseText ==
  /\ replies = 0 /\ op = "none" /\ parsed = None /\ changes = 0 /\ file = None
  /\ \E text \in Texts : parsed' = [text |-> text, plan |-> Plan(text)]
  /\ UNCHANGED <<op, tasks, work, session, file, library, pinned, changes, edited,
                 reply, replies, native>>

Start(name, todo, data) ==
  /\ op = "none" /\ parsed = None /\ replies < MaxReplies
  /\ op' = name /\ tasks' = todo /\ work' = data /\ reply' = NoReply
  /\ UNCHANGED replies

\* Mutant: the data of an operation stay behind it.
End_KeepsData(how, why, data) ==
  /\ op' = "none" /\ tasks' = <<>> /\ work' = data
  /\ reply' = [op |-> op, ok |-> how, why |-> why,
               work |-> IF how /\ op # "run" THEN data ELSE NoWork]
  /\ replies' = replies + 1
End(how, why, data) ==
  /\ op' = "none" /\ tasks' = <<>> /\ work' = NoWork
  /\ reply' = [op |-> op, ok |-> how, why |-> why,
               work |-> IF how /\ op # "run" THEN data ELSE NoWork]
  /\ replies' = replies + 1

\* An operation refused before its first task.
Refuse(name, why) ==
  /\ op = "none" /\ parsed = None /\ replies < MaxReplies
  /\ reply' = [op |-> name, ok |-> FALSE, why |-> why, work |-> NoWork]
  /\ replies' = replies + 1
  /\ UNCHANGED <<op, tasks, work, native, world>>

Replayed(export) ==
  [NoWork EXCEPT !.definition = export.definition, !.plan = PlanOf(export.definition),
                 !.export = export, !.cols = export.cols]

\* Bound: a definition is run while there is no session file.
Run ==
  \E k \in Known :
    /\ session = None /\ file = None
    /\ IF k.plan = Refused THEN Refuse("run", "definition")
       ELSE /\ Start("run", RunTasks(k.plan) \o ExportTasks(k.plan),
                     [NoWork EXCEPT !.definition = k.definition, !.plan = k.plan])
            /\ UNCHANGED <<native, world>>

LoadFile ==
  /\ session = None
  /\ CASE file = None -> Refuse("load", "io")
       [] file # None /\ ~(Length(file) <= MaxExport /\ ExportOk(file)) -> Refuse("load", "format")
       [] OTHER -> /\ Start("load", LoadTasks, Replayed(file))
                   /\ UNCHANGED <<native, world>>

Predict ==
  /\ session # None
  /\ IF ~session.open THEN Refuse("predict", "closed")
     ELSE \/ Refuse("predict", "width")
          \/ /\ \E data \in {Replayed(session.export)} : Start("predict", PredictTasks(data), data)
             /\ UNCHANGED <<native, world>>

\* Mutant: the length of the serialized export is not looked at.
Save_AnyLength ==
  /\ session # None
  /\ CASE ~session.open -> Refuse("save", "closed")
       [] session.open /\ file # None -> Refuse("save", "exists")
       [] OTHER ->
            /\ op = "none" /\ replies < MaxReplies
            /\ file' = session.export /\ edited' = {}
            /\ reply' = [op |-> "save", ok |-> TRUE, why |-> None, work |-> NoWork]
            /\ replies' = replies + 1
            /\ UNCHANGED <<op, tasks, work, native, parsed, session, library, pinned, changes>>
\* atomic_create, which AtomicCreate has in detail, is one step here.
Save ==
  /\ session # None
  /\ CASE ~session.open -> Refuse("save", "closed")
       [] session.open /\ Length(session.export) > MaxExport -> Refuse("save", "format")
       [] session.open /\ Length(session.export) <= MaxExport /\ file # None ->
            Refuse("save", "exists")
       [] OTHER ->
            /\ op = "none" /\ replies < MaxReplies
            /\ file' = session.export /\ edited' = {}
            /\ reply' = [op |-> "save", ok |-> TRUE, why |-> None, work |-> NoWork]
            /\ replies' = replies + 1
            /\ UNCHANGED <<op, tasks, work, native, parsed, session, library, pinned, changes>>

Close ==
  /\ op = "none" /\ session # None /\ session.open
  /\ session' = [session EXCEPT !.open = FALSE]
  /\ UNCHANGED <<parsed, op, tasks, work, file, library, pinned, changes, edited, reply,
                 replies, native>>

\* The caller drops the session and may make another.
Forget ==
  /\ op = "none" /\ session # None
  /\ session' = None
  /\ UNCHANGED <<parsed, op, tasks, work, file, library, pinned, changes, edited, reply,
                 replies, native>>

-----------------------------------------------------------------------------
(* Tasks that call no routine of libn4m. *)

Doing(do) == op # "none" /\ phase = "idle" /\ tasks # <<>> /\ Head(tasks).do = do

Step(ok, why, data) ==
  IF ok
  THEN /\ tasks' = Tail(tasks) /\ work' = data /\ UNCHANGED <<op, reply, replies>>
  ELSE End(FALSE, why, data)

\* MethodsLibrary::load, by path, without a look at the attested snapshot.
Open ==
  /\ Doing("open")
  /\ \E loadable \in BOOLEAN : Step(loadable, "library", [work EXCEPT !.library = library])
  /\ UNCHANGED <<native, world>>

\* inspect_portable_model_descriptor: configure_methods_runtime_for_source,
\* then DAG-ML reads the descriptor of the model.
Inspect ==
  /\ Doing("inspect")
  /\ IF pinned \in {None, library}
     THEN /\ pinned' = library
          /\ Step(~work.export.model.damaged, "format", [work EXCEPT !.inspected = library])
     ELSE Step(FALSE, "library", work) /\ UNCHANGED pinned
  /\ UNCHANGED <<native, parsed, session, file, library, changes, edited>>

Agree ==
  /\ Doing("agree")
  /\ Step(PlanAgrees(work.plan, work.export.model.does), "format", work)
  /\ UNCHANGED <<native, world>>

Contract ==
  /\ Doing("contract")
  /\ Step(ContractOk(work.export), "format", work)
  /\ UNCHANGED <<native, world>>

\* Mutant: the variant with the largest error is kept.
Kept_Largest(best, v) ==
  IF best.rmse = NaN \/ v.rmse = NaN THEN best ELSE IF v.rmse > best.rmse THEN v ELSE best
\* min_by over partial_cmp: what cannot be compared counts as equal, and of
\* equals the first stays.
Kept(best, v) ==
  IF best.rmse = NaN \/ v.rmse = NaN THEN best ELSE IF v.rmse < best.rmse THEN v ELSE best
Best(variants) ==
  LET best[i \in 1 .. Len(variants)] ==
        IF i = 1 THEN variants[1] ELSE Kept(best[i - 1], variants[i])
  IN best[Len(variants)]

Select ==
  /\ Doing("select")
  /\ Step(TRUE, None, [work EXCEPT !.selected = Best(work.variants), !.judged = work.rows,
                              !.rows.train = <<>>])
  /\ UNCHANGED <<native, world>>

-----------------------------------------------------------------------------
(* Tasks that call a routine. *)

Routine(task) ==
  CASE task.do = "split" -> Split
    [] task.do = "transform" -> Transform
    [] task.do = "fit" -> FitPredict(FALSE, FALSE)
    [] task.do = "refit" -> FitPredict(EmbeddedSpec(work.plan) # NotEmbedded, TRUE)
    [] OTHER -> ImportPredict

CallRoutine ==
  /\ op # "none" /\ tasks # <<>>
  /\ Head(tasks).do \in {"split", "transform", "fit", "refit", "import"}
  /\ Begin(Routine(Head(tasks)))
  /\ UNCHANGED <<op, tasks, work, reply, replies, world>>

InRoutine == NativeStep /\ UNCHANGED <<op, tasks, work, reply, replies, world>>

\* What the routine of the first task may give.  The rows of a split are the
\* library's choice, and a test part may be empty: a variant then scores 0/0.
Outcomes(task) ==
  CASE task.do = "split" -> {[work EXCEPT !.empty = none] : none \in BOOLEAN}
    [] task.do = "transform" -> {[work EXCEPT !.rows[task.part] = Append(@, task.step)]}
    [] task.do = "fit" ->
         {[work EXCEPT !.variants = Append(@, [components |-> task.n, rmse |-> score])] :
            score \in IF work.empty THEN {NaN} ELSE {NaN, 1, 2}}
    [] task.do = "refit" ->
         {[work EXCEPT !.export =
             Exported(work.definition, Model(EmbeddedSpec(work.plan), work.rows.train,
                                             work.selected.components, size))] :
            size \in {n \in Sizes : n <= MaxModel}}
    [] OTHER -> {work}

\* libn4m predicts for inputs of the width its model was trained with.
Possible(task) == task.do = "import" => work.cols = work.export.model.cols

Complete ==
  /\ op # "none" /\ Returned("returning") /\ Return
  /\ IF Possible(Head(tasks))
     THEN \E data \in Outcomes(Head(tasks)) : Step(TRUE, None, data)
     ELSE End(FALSE, "native", work)
  /\ UNCHANGED world

\* Mutant: a routine that fails is called again.
Abort_Retried ==
  /\ op # "none" /\ Return
  /\ \/ Returned("failing") /\ UNCHANGED <<op, tasks, work, reply, replies>>
     \/ Returned("returning") /\ Head(tasks).do \in {"split", "refit"} /\ End(FALSE, "native", work)
  /\ UNCHANGED world
\* The routine failed, or gave what its caller refuses: row indices outside
\* the dataset, a model of a length it does not accept.
Abort ==
  /\ op # "none" /\ Return
  /\ \/ Returned("failing")
     \/ Returned("returning") /\ Head(tasks).do \in {"split", "refit"}
  /\ End(FALSE, "native", work)
  /\ UNCHANGED world

Finish ==
  /\ op # "none" /\ tasks = <<>> /\ phase = "idle"
  /\ session' = IF op = "predict" THEN session
                ELSE [open |-> TRUE, export |-> work.export,
                      origin |-> IF op = "run" THEN {} ELSE edited]
  /\ End(TRUE, None, work)
  /\ UNCHANGED <<parsed, file, library, pinned, changes, edited, native>>

-----------------------------------------------------------------------------
(* The environment. *)

\* Another library file is installed, at any time.
Replace ==
  /\ parsed = None /\ changes < MaxChanges
  /\ library' \in Libraries \ {library}
  /\ changes' = changes + 1
  /\ work' = [work EXCEPT !.replaced = op # "none"]
  /\ UNCHANGED <<parsed, op, tasks, session, file, pinned, edited, reply, replies, native>>

\* One thing in the session file is no longer what was saved; "model" takes
\* the model of another session, "definition" its definition with its digest.
Edits(export) ==
  {<<"schema", [export EXCEPT !.schema = 3 - @]>>,
   <<"declared", [export EXCEPT !.declared = IF @ = None THEN [window |-> 3, degree |-> 1]
                                                         ELSE None]>>,
   <<"cols", [export EXCEPT !.cols = Width + 1]>>,
   <<"damaged", [export EXCEPT !.model.damaged = TRUE]>>}
  \cup {<<"text", [export EXCEPT !.definition = k.definition]>> : k \in Known}
  \cup {<<"definition", [export EXCEPT !.definition = k.definition, !.digested = k.definition]>> :
          k \in Known}
  \cup {<<"model", [export EXCEPT !.model.does = EmbeddedSpec(k.plan),
                                  !.model.trained = IF EmbeddedSpec(k.plan) = NotEmbedded
                                                    THEN k.plan.preprocessing ELSE <<>>]>> :
          k \in {k \in Known : k.plan # Refused}}
Edit ==
  /\ op = "none" /\ parsed = None /\ file # None /\ changes < MaxChanges
  /\ \E e \in Edits(file) : e[2] \notin {None, file} /\ edited' = edited \cup {e[1]} /\ file' = e[2]
  /\ changes' = changes + 1
  /\ UNCHANGED <<parsed, op, tasks, work, session, library, pinned, reply, replies, native>>

Progress == Open \/ Inspect \/ Agree \/ Contract \/ Select \/ CallRoutine \/ InRoutine
              \/ Complete \/ Abort \/ Finish
Next == ParseText \/ Run \/ LoadFile \/ Predict \/ Save \/ Close \/ Forget
          \/ Progress \/ Replace \/ Edit

\* An operation runs in the thread of its caller, and a routine returns.
Spec == Init /\ [][Next]_vars /\ WF_vars(Progress)

-----------------------------------------------------------------------------
(* Properties. *)

\* Type invariant.
TypeOK ==
  /\ NativeTypeOK
  /\ op \in {"none", "run", "load", "predict"}
  /\ op = "none" => tasks = <<>> /\ phase = "idle" /\ [work EXCEPT !.replaced = FALSE] = NoWork
  /\ DOMAIN work = DOMAIN NoWork /\ work.empty \in BOOLEAN /\ work.cols \in Nat
  /\ session # None => session.open \in BOOLEAN /\ session.export.cols \in Nat
  /\ file # None => file.schema \in {1, 2}
  /\ library \in Libraries /\ pinned \in Libraries \cup {None}
  /\ changes \in 0 .. MaxChanges /\ replies \in 0 .. MaxReplies

\* The live steps of a text, whatever its root and its comments.
Steps(text) == StripComments(Normalized(text).at["pipeline"]).items

ClassOf(step) == Get(step, "class")

\* What a portable definition means (docs of the portable subset, stated
\* without the order of the reader): mappings, each a supported class with
\* numbers in range or, at the end and only there, one PLS model.
Portable(steps) ==
  /\ steps # <<>>
  /\ \A i \in DOMAIN steps :
       /\ steps[i].t = "obj"
       /\ IF i < Len(steps)
          THEN /\ ~Has(steps[i], "model")
               /\ ClassOf(steps[i]) \in {Str(SplitterClass), Str(SnvClass), Str(SavgolClass)}
               /\ ClassOf(steps[i]) = Str(SavgolClass) => ReadsSavgol(Get(steps[i], "params"))
               /\ ClassOf(steps[i]) = Str(SplitterClass) =>
                    ReadsNumber(Get(Get(steps[i], "params"), "test_size"))
          ELSE /\ ~Has(steps[i], "class")
               /\ Get(Get(steps[i], "model"), "class") = Str(PlsClass)
               /\ ReadsComponents(steps[i])
  /\ Cardinality({i \in DOMAIN steps : ClassOf(steps[i]) = Str(SplitterClass)}) <= 1

\* A text is planned exactly when it means a portable pipeline; the plan has
\* every preprocessing step at its rank, sweeps strictly increasing numbers of
\* components that fit an i32, up to the last one the stride reaches, and the
\* normalised definition an export carries has the same plan.
PlanFaithful ==
  parsed # None =>
    LET text == parsed.text
        plan == parsed.plan
        read == text.t # "refused" /\ Normalized(text) # Refused
                  /\ Normalized(text).at["pipeline"].t = "arr"
        steps == Steps(text)
        last == steps[Len(steps)]
        kept == {i \in DOMAIN steps : ClassOf(steps[i]) \in {Str(SnvClass), Str(SavgolClass)}}
        n == plan.n_components
    IN  /\ plan # Refused <=>
             /\ read /\ Portable(steps)
             /\ Classes(Arr(steps)) \subseteq PortableClasses \cup Resolvable
        /\ plan # Refused =>
             /\ Len(plan.preprocessing) = Cardinality(kept)
             /\ \A i \in kept :
                  plan.preprocessing[Cardinality({j \in kept : j <= i})] =
                    IF ClassOf(steps[i]) = Str(SnvClass) THEN Snv
                    ELSE Savgol(Get(steps[i], "params"))
             /\ n # <<>> /\ Len(n) <= MaxVariants
             /\ \A i \in DOMAIN n : n[i] \in 1 .. I32Max /\ (i > 1 => n[i] > n[i - 1])
             /\ Has(last, "_range_") =>
                  LET bound(k) == IntParam(last.at["_range_"].items[k], 0)
                  IN ToSet(n) = {c \in bound(1) .. bound(2) : (c - bound(1)) % bound(3) = 0}
             /\ Plan(LoadDefinition(text)) = plan

\* Preprocessing is applied exactly once.  The variants of a run are fitted
\* and scored on rows that went through the declared steps; a model exported
\* by a run has been trained behind them, by the host or by libn4m; and the
\* rows of a prediction go through the declared steps, which are those the
\* model was trained behind unless the file joins two sessions.
PreprocessedOnce ==
  /\ work.selected # None =>
       /\ work.judged.train = work.plan.preprocessing
       /\ work.judged.test = work.plan.preprocessing
  /\ op = "run" /\ work.export # None =>
       work.export.model.trained \o Performed(work.export.model.does)
         = work.plan.preprocessing
  /\ reply.op = "predict" /\ reply.ok =>
       LET model == reply.work.export.model
           seen == reply.work.rows.new \o Performed(model.does)
       IN  /\ seen = reply.work.plan.preprocessing
           /\ session # None /\ session.origin \cap {"definition", "model"} = {} =>
                seen = model.trained \o Performed(model.does)

\* Whatever an open session came from, its schema says whether its model
\* embeds preprocessing, what it declares is what the model does, its
\* definition is the one it digests and agrees with the model, and its width
\* is the one of the model: predict finds nothing left to contradict.
SessionSound ==
  session # None =>
    LET export == session.export IN
    /\ PlanOf(export.definition) # Refused /\ export.digested = export.definition
    /\ export.schema = 2 <=> export.model.does # NotEmbedded
    /\ export.declared = Declared(export.model.does)
    /\ export.model.does # NotEmbedded =>
         PlanOf(export.definition).preprocessing = Performed(export.model.does)
    /\ export.cols = export.model.cols /\ ~export.model.damaged

\* A file nobody edited loads again, unless the library refuses: what save
\* accepts to write, and what an earlier version wrote, load accepts to read.
SavedReloads ==
  reply.op = "load" /\ ~reply.ok /\ edited = {} /\ file # None =>
    reply.why \in {"native", "library"}

\* The exported model is the best variant of the run: no scored variant has a
\* smaller error and no earlier one an equal error.  A variant without a score
\* is chosen only when it is the first.
BestSelected ==
  work.selected # None =>
    LET v == work.variants
        scored == {i \in DOMAIN v : v[i].rmse # NaN}
    IN  /\ v[1].rmse = NaN => work.selected = v[1]
        /\ v[1].rmse # NaN =>
             \E i \in scored :
               /\ work.selected = v[i]
               /\ \A j \in scored : v[i].rmse <= v[j].rmse /\ (j < i => v[i].rmse < v[j].rmse)
        /\ op = "run" /\ work.export # None =>
             work.export.model.components = work.selected.components

\* The library that replays a model is the one the process attested, unless
\* the file is replaced while the operation runs: it is opened by path, after
\* its bytes were compared with those the process fixed.
PinnedRuntime ==
  reply.op \in {"load", "predict"} /\ reply.ok /\ ~reply.work.replaced =>
    reply.work.library = pinned

\* Every operation ends, whichever call fails.
OperationsEnd == op # "none" ~> op = "none"
=============================================================================
