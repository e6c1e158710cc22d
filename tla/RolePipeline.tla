------------------------------ MODULE RolePipeline ------------------------------
(***************************************************************************)
(* Pipelines of n4m role steps and their version 8 envelopes               *)
(* (n4m_roles.rs): a recipe is read, fitted, written, changed on its way,  *)
(* read again and used.  libn4m is reduced to the states of the steps: of  *)
(* what it computes only the class ids and their meaning are kept.         *)
(***************************************************************************)
EXTENDS PortableDefinition

CONSTANTS
  Catalogue,  \* the native manifest: token -> [role, stateful, keeps, params]
  Recipes,    \* documents handed to fit_recipe
  Targets,    \* training targets
  Columns,    \* sequences of column names, of any length
  Width,      \* columns of the training matrix
  Tables,     \* values a class_names field may be changed to
  Others,     \* values a recipe field may be changed to
  MaxEdits,   \* bound: changes of envelopes
  Malformed,  \* a field that is not of its type
  None

\* A model has a state to predict from.
ASSUME CatalogueAssumption ==
  /\ DOMAIN Catalogue = Resolvable
  /\ \A token \in Resolvable :
       Catalogue[token].role \in {"regressor", "classifier"} => Catalogue[token].stateful
  /\ Width \in Nat \ {0} /\ MaxEdits \in Nat

\* JSON: the items of an array and the entries of a table are sequences.
ASSUME DocumentsAssumption ==
  /\ \A recipe \in Recipes \cup Others :
       Get(recipe, "pipeline").t = "arr" =>
         LET items == recipe.at["pipeline"].items IN items \in Seq({items[i] : i \in DOMAIN items})
  /\ \A table \in Tables : table \in Seq({table[i] : i \in DOMAIN table})
  /\ \A target \in Targets : target.labels \in Seq(Int)

VARIABLES
  pipeline,   \* N4mRolePipeline, None before there is one
  envelope,   \* the document, None before there is one
  source,     \* history: the pipeline the document was written from
  edited,     \* history: what was changed in the document
  edits,
  reply       \* history: the last operation

vars == <<pipeline, envelope, source, edited, edits, reply>>

-----------------------------------------------------------------------------
(* Recipes. *)

RecipeRoles == {"transformer", "regressor", "classifier", "selector", "sample_filter"}
Capabilities == {token \in Resolvable : Catalogue[token].role \in RecipeRoles}

\* "large": an integral number of 9.0e15 or more that only a double holds
Integral(v) == v.t = "num" /\ v.n.k \in {"whole", "zero-"}
Typed(type, v) ==
  CASE type = "Int" -> Integral(v)
    [] type = "Double" -> v.t = "num"
    [] type = "Bool" -> v.t = "bool"
    [] type = "Enum" -> v.t = "str"
    [] type = "IntArray" -> v.t = "arr" /\ \A item \in ToSet(v.items) : Integral(item)
    [] type = "DoubleArray" -> v.t = "arr" /\ \A item \in ToSet(v.items) : item.t = "num"
Converted(type, v) ==
  LET int(item) == Num(Whole(item.n.i)) IN
  CASE type = "Int" -> int(v)
    [] type = "IntArray" -> Arr([i \in DOMAIN v.items |-> int(v.items[i])])
    [] OTHER -> v

Class(token) == IF token.t = "str" THEN token ELSE Get(token, "class")
Given(token) == IF token.t = "str" \/ ~Has(token, "params") THEN Null ELSE Get(token, "params")

\* recipe_step
ReadsStep(token) ==
  /\ Class(token).t = "str" /\ Class(token).s \in RoleTokens \cap Resolvable
  /\ Given(token).t \in {"null", "obj"}
  /\ Given(token).t = "obj" =>
       LET known == Catalogue[Class(token).s].params
           at == Given(token).at
       IN \A name \in DOMAIN at : name \in DOMAIN known /\ Typed(known[name].type, at[name])
RecipeStep(token) ==
  LET id == Class(token).s
      known == Catalogue[id].params
  IN [method |-> id,
      params |-> [name \in DOMAIN known |->
                    IF Has(Given(token), name)
                    THEN Converted(known[name].type, Given(token).at[name])
                    ELSE known[name].default]]

ReadsRecipe(recipe) ==
  /\ Get(recipe, "pipeline").t = "arr"
  /\ \A token \in ToSet(recipe.at["pipeline"].items) : ReadsStep(token)
Steps(recipe) ==
  LET items == recipe.at["pipeline"].items
  IN [i \in DOMAIN items |-> RecipeStep(items[i])]

Role(step) == Catalogue[step.method].role
\* The steps that have a state, in their order.
Stateful(steps) ==
  LET with[i \in 0 .. Len(steps)] ==
        IF i = 0 THEN <<>>
        ELSE IF Catalogue[steps[i].method].stateful THEN Append(with[i - 1], steps[i])
             ELSE with[i - 1]
  IN with[Len(steps)]
Classifies(steps) == Role(steps[Len(steps)]) = "classifier"

-----------------------------------------------------------------------------
(* libn4m. *)

\* RolePipeline::new
NativeAccepts(steps) ==
  /\ steps # <<>>
  /\ \A i \in DOMAIN steps : steps[i].method \in Capabilities
  /\ Role(steps[Len(steps)]) \in {"regressor", "classifier"}
  /\ \A i \in 1 .. Len(steps) - 1 :
       Role(steps[i]) # "classifier" /\ (Role(steps[i + 1]) = "sample_filter" =>
                                         Role(steps[i]) = "sample_filter")

\* RolePipeline::fit: ids are the class ids of the rows, meaning what the
\* caller calls each; sample filters may take away all rows of a class.
States(steps, kept, meaning) ==
  [i \in DOMAIN Stateful(steps) |->
     [method |-> Stateful(steps)[i].method, params |-> Stateful(steps)[i].params,
      keeps |-> Catalogue[Stateful(steps)[i].method].keeps, width |-> Width,
      classes |-> IF i = Len(Stateful(steps)) THEN kept ELSE {}, meaning |-> meaning]]
Filtered(steps, ids) ==
  IF ids # {} /\ \E i \in DOMAIN steps : Role(steps[i]) = "sample_filter"
  THEN SUBSET ids \ {{}} ELSE {ids}

\* RolePipeline::import_states, after set_feature_names
NativeImports(steps, states, names) ==
  /\ Len(states) = Len(Stateful(steps))
  /\ \A i \in DOMAIN states :
       /\ states[i].method = Stateful(steps)[i].method
       /\ states[i].params = Stateful(steps)[i].params
       /\ states[i].width = states[1].width
  /\ names # None => Len(names) = states[1].width /\ IsInjective(names)

-----------------------------------------------------------------------------
(* Labels. *)

Name(v) == [k |-> "name", v |-> v]
Number(v) == [k |-> "number", v |-> v]
Junk == [k |-> "junk", v |-> 0]        \* null, a truth value, a number beyond 2^53

\* None and Malformed are nothing that stands beside them.
ASSUME NoneAssumption ==
  /\ None \notin Int /\ None \notin Seq([k : {"name"}, v : Int])
  /\ None \notin {"recipe", "native", "format", "training rows", "columns", "unlabelled"}
  /\ \A target \in Targets : \A i \in DOMAIN target.labels : Name(target.labels[i]) # None
  /\ \A table \in Tables : \A i \in DOMAIN table : table[i] # None
  /\ Malformed \notin Columns \cup {None}

\* label_table
ReadsTable(table) ==
  /\ table # <<>>
  /\ \A i \in DOMAIN table : table[i].k \in {"name", "number"} /\ table[i].k = table[1].k
  /\ IsInjective(table)

\* Labels are numbers here, in the order of their names.
Before(labels, label) == {other \in ToSet(labels) : other < label}
SortedNames(labels) ==
  [n \in 1 .. Cardinality(ToSet(labels)) |->
     CHOOSE label \in ToSet(labels) : Cardinality(Before(labels, label)) = n - 1]
\* Mutant: ids count in the order in which the labels appear.
Encode_Appearance(labels) ==
  LET first(i) == CHOOSE j \in DOMAIN labels :
                    labels[j] = labels[i] /\ \A k \in 1 .. j - 1 : labels[k] # labels[i]
  IN [i \in DOMAIN labels |-> Cardinality({labels[j] : j \in 1 .. first(i) - 1})]
Encode(labels) ==
  [i \in DOMAIN labels |->
     (CHOOSE n \in DOMAIN SortedNames(labels) : SortedNames(labels)[n] = labels[i]) - 1]

\* Mutant: the table may be one entry too short.
Labelled_OffByOne(classes, table) == \A id \in classes : id >= 0 /\ id <= Len(table)
Labelled(classes, table) == \A id \in classes : id >= 0 /\ id < Len(table)

-----------------------------------------------------------------------------
(* Operations. *)

Reply(op, why) == reply' = [op |-> op, ok |-> why = None, why |-> why]

\* N4mRolePipeline::fitted
Fitted(recipe, states, names, table, genuine) ==
  [recipe |-> recipe, states |-> states, n_features |-> states[Len(states)].width,
   feature_names |-> IF names = <<>> THEN None ELSE names,
   classifier |-> Classifies(Steps(recipe)), class_names |-> table, genuine |-> genuine]

Init ==
  /\ pipeline = None /\ envelope = None /\ source = None
  /\ edited = "nothing" /\ edits = 0
  /\ reply = [op |-> "none", ok |-> TRUE, why |-> None]

\* libn4m takes values for a regressor, labels and ids for a classifier, as
\* many as there are rows and at least one, and may refuse for reasons of its
\* own.
Suits(steps, target) ==
  /\ target.rows /\ (target.kind = "values" <=> ~Classifies(steps))
  /\ target.kind = "labels" => target.labels # <<>>

\* The class ids of the rows, what the caller calls each, and the table.
Ids(target) ==
  IF target.kind = "labels" THEN Encode(target.labels)
  ELSE IF target.kind = "ids" THEN target.labels ELSE <<>>
Meaning(target) ==
  [id \in ToSet(Ids(target)) |->
     LET row == CHOOSE i \in DOMAIN Ids(target) : Ids(target)[i] = id
     IN IF target.kind = "labels" THEN Name(target.labels[row]) ELSE id]
Table(target) ==
  IF target.kind # "labels" THEN None
  ELSE [n \in DOMAIN SortedNames(target.labels) |-> Name(SortedNames(target.labels)[n])]

\* Bound: a behaviour fits one pipeline.
FitRecipe ==
  /\ pipeline = None
  /\ \E recipe \in Recipes, target \in Targets, names \in Columns \cup {None} :
       IF ~ReadsRecipe(recipe)
       THEN Reply("fit", "recipe") /\ UNCHANGED <<pipeline, envelope, source, edited, edits>>
       ELSE LET steps == Steps(recipe)
            IN \/ /\ Reply("fit", "native")
                  /\ UNCHANGED <<pipeline, envelope, source, edited, edits>>
               \/ /\ NativeAccepts(steps) /\ Suits(steps, target)
                  /\ names # None => Len(names) = Width /\ IsInjective(names)
                  /\ \E kept \in Filtered(steps, ToSet(Ids(target))) :
                       pipeline' = Fitted(recipe, States(steps, kept, Meaning(target)), names,
                                          Table(target), TRUE)
                  /\ Reply("fit", None)
                  /\ UNCHANGED <<envelope, source, edited, edits>>

\* One entry of "states"; sha256 is the payload it is the digest of.
Entry(state, table) ==
  [method_id |-> state.method, payload |-> state, sha256 |-> state,
   contains_training_rows |-> state.keeps, class_names |-> table]

Document(p, allow) ==
  [schema |-> 8, recipe |-> p.recipe, n_features |-> p.n_features,
   feature_names |-> p.feature_names, allowed |-> allow,
   states |-> [i \in DOMAIN p.states |->
                 Entry(p.states[i], IF i = Len(p.states) THEN p.class_names ELSE None)]]

\* export_states refuses training rows without the opt-in.
ToJson ==
  /\ pipeline # None
  /\ \E allow \in BOOLEAN :
       IF ~allow /\ \E i \in DOMAIN pipeline.states : pipeline.states[i].keeps
       THEN Reply("save", "training rows") /\ UNCHANGED <<envelope, source, edited>>
       ELSE /\ envelope' = Document(pipeline, allow)
            /\ source' = pipeline /\ edited' = "nothing"
            /\ Reply("save", None)
  /\ UNCHANGED <<pipeline, edits>>

\* from_json, before a context exists
ReadsEnvelope(e) ==
  /\ e.schema = 8
  /\ e.n_features > 0
  /\ e.feature_names # Malformed
  /\ e.states # <<>> /\ e.states[Len(e.states)].class_names # None =>
       ReadsTable(e.states[Len(e.states)].class_names)
  /\ \A i \in DOMAIN e.states : e.states[i].sha256 = e.states[i].payload

Payloads(e) == [i \in DOMAIN e.states |-> e.states[i].payload]

\* The states against the steps, after libn4m has taken them
Consistent(e, steps) ==
  /\ \A i \in DOMAIN e.states :
       /\ e.states[i].method_id = Stateful(steps)[i].method
       /\ e.states[i].contains_training_rows \in {None, e.states[i].payload.keeps}
  /\ e.n_features = e.states[1].payload.width
  /\ LET last == e.states[Len(e.states)]
     IN last.class_names # None =>
          Classifies(steps) /\ Labelled(last.payload.classes, last.class_names)

FromJson ==
  /\ envelope # None
  /\ LET e == envelope IN
     IF ~(ReadsEnvelope(e) /\ ReadsRecipe(e.recipe))
     THEN Reply("load", "format") /\ UNCHANGED pipeline
     ELSE \/ Reply("load", "native") /\ UNCHANGED pipeline
          \/ /\ NativeAccepts(Steps(e.recipe))
             /\ NativeImports(Steps(e.recipe), Payloads(e), e.feature_names)
             /\ IF Consistent(e, Steps(e.recipe))
                THEN /\ pipeline' = Fitted(e.recipe, Payloads(e), e.feature_names,
                                           e.states[Len(e.states)].class_names,
                                           source.genuine /\ edited \in {"nothing", "older"})
                     /\ Reply("load", None)
                ELSE Reply("load", "format") /\ UNCHANGED pipeline
  /\ UNCHANGED <<envelope, source, edited, edits>>

\* What a class id is served as, None when there is no entry for it.
Served(p, id) ==
  IF p.class_names = None THEN id
  ELSE IF id + 1 \in DOMAIN p.class_names THEN p.class_names[id + 1] ELSE None

\* Rows of any width, with or without column names; libn4m refuses another
\* width and names that are not the fitted ones in their order.
Predict ==
  /\ pipeline # None
  /\ \E cols \in {Width, Width + 1}, names \in Columns \cup {None} :
       IF \/ cols # pipeline.n_features
          \/ names # None /\ pipeline.feature_names # None /\ names # pipeline.feature_names
       THEN Reply("predict", "columns")
       ELSE \/ Reply("predict", "native")
            \/ ~pipeline.classifier /\ Reply("predict", None)
            \/ /\ pipeline.classifier
               /\ \E id \in pipeline.states[Len(pipeline.states)].classes :
                    Reply("predict", IF Served(pipeline, id) = None THEN "unlabelled" ELSE None)
  /\ UNCHANGED <<pipeline, envelope, source, edited, edits>>

\* The document as it was written before names and flags of training rows were.
Older(e) ==
  [e EXCEPT !.feature_names = None,
            !.states = [i \in DOMAIN e.states |->
                          [e.states[i] EXCEPT !.contains_training_rows = None]]]

\* One thing of the document is changed on its way.
Changes(e) ==
  LET last == Len(e.states)
      set(i, entry) == [e EXCEPT !.states[i] = entry]
  IN {<<"older", Older(e)>>,
      <<"schema", [e EXCEPT !.schema = 7]>>,
      <<"states", [e EXCEPT !.states = <<>>]>>,
      <<"states", [e EXCEPT !.states = Append(@, e.states[last])]>>}
     \cup {<<"n_features", [e EXCEPT !.n_features = n]>> : n \in {0, Width + 1}}
     \cup {<<"names", [e EXCEPT !.feature_names = names]>> : names \in Columns \cup {Malformed, None}}
     \cup {<<"recipe", [e EXCEPT !.recipe = recipe]>> : recipe \in Others}
     \cup {<<"table", set(last, [e.states[last] EXCEPT !.class_names = table])>> :
             table \in Tables \cup {None}}
     \cup UNION {
       {<<"sha256", set(i, [e.states[i] EXCEPT !.payload.width = @ + 1])>>,
        <<"payload", set(i, [e.states[i] EXCEPT !.payload.width = @ + 1, !.sha256.width = @ + 1])>>,
        <<"flag", set(i, [e.states[i] EXCEPT !.contains_training_rows = ~@])>>}
       \cup {<<"method", set(i, [e.states[i] EXCEPT !.method_id = token])>> : token \in Resolvable}
       : i \in DOMAIN e.states}
Edit ==
  /\ envelope # None /\ edited = "nothing" /\ edits < MaxEdits
  /\ \E c \in Changes(envelope) : c[2] # envelope /\ edited' = c[1] /\ envelope' = c[2]
  /\ edits' = edits + 1 /\ Reply("edit", None)
  /\ UNCHANGED <<pipeline, source>>

Next == FitRecipe \/ ToJson \/ FromJson \/ Predict \/ Edit

Spec == Init /\ [][Next]_vars

-----------------------------------------------------------------------------
(* Properties. *)

\* A pipeline survives its envelope.  What to_json wrote, and what an earlier
\* version wrote, from_json reads, unless libn4m refuses; it gives back the
\* pipeline that was written; and every class id is still served as the label
\* its training rows had, also when a filter took rows away.
EnvelopeFaithful ==
  /\ reply.op = "load" /\ edited \in {"nothing", "older"} =>
       /\ ~reply.ok => reply.why = "native"
       /\ reply.ok => pipeline = IF edited = "nothing" THEN source
                                 ELSE [source EXCEPT !.feature_names = None]
  /\ pipeline # None /\ pipeline.genuine /\ pipeline.classifier =>
       LET final == pipeline.states[Len(pipeline.states)]
       IN \A id \in final.classes : Served(pipeline, id) = final.meaning[id]

\* Whatever was changed in the document, a pipeline that was accepted has the
\* states of its recipe, the declared width, flags that tell the truth about
\* training rows, and no prediction fails for want of a label; and training
\* rows are in a document only when the caller allowed them.
AcceptedSound ==
  /\ pipeline # None =>
       LET steps == Steps(pipeline.recipe) IN
       /\ [i \in DOMAIN pipeline.states |->
             [method |-> pipeline.states[i].method, params |-> pipeline.states[i].params]]
            = Stateful(steps)
       /\ \A i \in DOMAIN pipeline.states : pipeline.states[i].width = pipeline.n_features
       /\ pipeline.class_names # None =>
            /\ pipeline.classifier
            /\ \A id \in pipeline.states[Len(pipeline.states)].classes :
                 Served(pipeline, id) # None
  /\ reply.op = "load" /\ reply.ok =>
       \A i \in DOMAIN envelope.states :
         /\ envelope.states[i].contains_training_rows \in {None, pipeline.states[i].keeps}
         /\ pipeline.states[i].keeps => envelope.allowed
  /\ reply.why # "unlabelled"
=============================================================================
