-------------------------- MODULE EstimatorController --------------------------
(***************************************************************************)
(* The awaiting controller of JavaScript estimators                        *)
(* (js-estimator-controller.js, createAsyncJsEstimatorController): its     *)
(* host has several calls under way, each of which runs from one await to  *)
(* the next.  An await on the estimator takes as long as the estimator     *)
(* likes; an await on a function of the controller takes its turn in the   *)
(* queue of jobs, which is first in, first out.  The synchronous           *)
(* controller is the case where no two calls overlap.                      *)
(*                                                                         *)
(* A call makes at most one estimator, which bears its name; a cohort is   *)
(* named by its fold or is the whole training set.                         *)
(***************************************************************************)
EXTENDS Naturals, Sequences, FiniteSets

CONSTANTS
  MaxCalls,   \* bound: calls of the host, numbered in the order of their start
  Ops,        \* bound: what each of them may be
  Folds,      \* folds of the FoldSet
  Variants,   \* variants that DAG-ML may name
  Base,       \* the variant of fitFull and importModel
  MaxSets,    \* bound: prediction datasets that the host sets, one after another
  MaxErrors,  \* bound: calls that end in an error of the host's objects
  Whole,      \* the cohort of a refit
  Given,      \* the dataset given to predict
  None

Calls == 1 .. MaxCalls
Operations == {"FIT_CV", "REFIT", "PREDICT", "fitFull", "importModel", "predict", "exportModel"}

ASSUME ConstantsAssumption ==
  /\ MaxCalls \in Nat /\ MaxSets \in Nat /\ MaxErrors \in Nat
  /\ Base \in Variants /\ Ops \in [Calls -> SUBSET Operations]
  /\ Whole \notin Folds /\ None \notin Folds \cup Variants \cup Nat \cup {Whole, Given}

\* What a call asks for: operation, variant, cohort or dataset.  fitFull stands
\* for the REFIT of the base variant as well, which takes the same steps.
Fits ==
       [op : {"FIT_CV"}, variant : {None}, on : Folds]
  \cup [op : {"REFIT"}, variant : Variants \ {Base}, on : {Whole}]
  \cup [op : {"fitFull"}, variant : {Base}, on : {Whole}]
Tasks == [op : {"PREDICT"}, variant : Variants, on : {None}]
Prediction == [op |-> "predict", variant |-> None, on |-> Given]
Export == [op |-> "exportModel", variant |-> None, on |-> Whole]
Import == [op |-> "importModel", variant |-> Base, on |-> Whole]

VARIABLES
  calls,            \* the calls started so far, in order
  pc,               \* what each of them is waiting for
  jobs,             \* queue of the calls whose turn has come
  fitted,           \* variant -> the call that made its estimator
  selectedVariant,
  predictionData,   \* the dataset set last
  trained,          \* cohort that the estimator of a call has been fitted on
  served,           \* estimator that a call uses
  rows,             \* cohort or dataset whose rows it predicts
  ids,              \* the one whose ids it returns
  outcome,
  seen              \* history: calls that had returned when this one started

memory == <<fitted, selectedVariant, predictionData>>
locals == <<trained, served, rows, ids>>
vars == <<calls, pc, jobs, memory, locals, outcome, seen>>

Errors == Cardinality({c \in Calls : outcome[c] = "error"})
MayFail == Errors < MaxErrors

Init ==
  /\ calls = <<>>
  /\ pc = [c \in Calls |-> "idle"]
  /\ jobs = <<>>
  /\ fitted = [v \in Variants |-> None]
  /\ selectedVariant = None
  /\ predictionData = None
  /\ trained = [c \in Calls |-> None]
  /\ served = [c \in Calls |-> None]
  /\ rows = [c \in Calls |-> None]
  /\ ids = [c \in Calls |-> None]
  /\ outcome = [c \in Calls |-> "pending"]
  /\ seen = [c \in Calls |-> {}]

Op(c) == calls[c].op
Variant(c) == calls[c].variant
Selected == IF selectedVariant = None THEN None ELSE fitted[selectedVariant]
OfVariant(v) == IF fitted[v] # None THEN fitted[v] ELSE Selected

-----------------------------------------------------------------------------
(* The queue of jobs.                                                      *)

\* A call that is not in the queue waits for a promise of the host's estimator:
\* fit, with the createEstimator before it (nothing is read or written between
\* the two), predict, restore, toJSON.
Waiting(c) == pc[c] \notin {"idle", "done"} /\ \A k \in DOMAIN jobs : jobs[k] # c

\* The promise is settled; the call goes on when its turn comes.
Settle(c) ==
  /\ Waiting(c)
  /\ jobs' = Append(jobs, c)
  /\ UNCHANGED <<calls, pc, memory, locals, outcome, seen>>

Turn(c, l) == jobs # <<>> /\ Head(jobs) = c /\ pc[c] = l

\* The job ends in an await on the estimator,
Await(c, l) ==
  /\ pc' = [pc EXCEPT ![c] = l]
  /\ jobs' = Tail(jobs)
  /\ UNCHANGED outcome
\* or in an await on a promise that is settled already.
Yield(c, l) ==
  /\ pc' = [pc EXCEPT ![c] = l]
  /\ jobs' = Append(Tail(jobs), c)
  /\ UNCHANGED outcome
\* The promise of the call is settled; its host learns it when its turn comes.
Resolve(c, o) ==
  /\ pc' = [pc EXCEPT ![c] = "return"]
  /\ jobs' = Append(Tail(jobs), c)
  /\ outcome' = [outcome EXCEPT ![c] = o]

\* Nothing depends on when it learns what a call found that made no estimator.
Close(c, o) ==
  /\ pc' = [pc EXCEPT ![c] = "done"]
  /\ jobs' = Tail(jobs)
  /\ outcome' = [outcome EXCEPT ![c] = o]

Deliver(c) ==
  /\ Turn(c, "return")
  /\ pc' = [pc EXCEPT ![c] = "done"]
  /\ jobs' = Tail(jobs)
  /\ UNCHANGED <<calls, memory, locals, outcome, seen>>

-----------------------------------------------------------------------------
(* What a call does before its first await.                                *)

Open(c, request, l) ==
  /\ Len(calls) + 1 = c /\ request.op \in Ops[c]
  /\ calls' = Append(calls, request)
  /\ seen' = [seen EXCEPT ![c] = {d \in 1 .. Len(calls) : pc[d] = "done" /\ outcome[d] = "ok"}]
  /\ pc' = [pc EXCEPT ![c] = l]
  /\ UNCHANGED <<memory, trained>>

Waits == UNCHANGED <<jobs, outcome>>

\* An error before the first await.
Rejected(c, request) ==
  /\ Open(c, request, "done")
  /\ outcome' = [outcome EXCEPT ![c] = "error"]
  /\ UNCHANGED <<jobs, served, rows, ids>>

\* Mutant: an estimator is remembered before it is fitted.
BeginFit_Remembered(c) ==
  \E request \in Fits :
    /\ Len(calls) + 1 = c /\ request.op \in Ops[c]
    /\ calls' = Append(calls, request)
    /\ pc' = [pc EXCEPT ![c] = "fit"]
    /\ fitted' = IF request.op = "FIT_CV" THEN fitted ELSE [fitted EXCEPT ![request.variant] = c]
    /\ UNCHANGED <<jobs, outcome, selectedVariant, predictionData, locals, seen>>
\* FIT_CV, REFIT, fitFull: the cohort is selected, an estimator asked for.
BeginFit(c) ==
  \E request \in Fits :
    \/ Open(c, request, "fit") /\ Waits /\ UNCHANGED <<served, rows, ids>>
    \/ MayFail /\ Rejected(c, request)

\* An estimator, rows and ids are those of the moment of the call.
Use(c, request, estimator, data, l) ==
  IF estimator = None \/ data = None
    THEN Rejected(c, request)
    ELSE /\ Open(c, request, l)
         /\ served' = [served EXCEPT ![c] = estimator]
         /\ rows' = [rows EXCEPT ![c] = data]
         /\ ids' = [ids EXCEPT ![c] = data]
         /\ Waits

\* PREDICT is about the dataset that was set, predict about the one it is given.
BeginTask(c) ==
  \E request \in Tasks :
    Use(c, request, OfVariant(request.variant), predictionData, "answer")

BeginPredict(c) ==
  \/ Use(c, Prediction, Selected, Given, "answer")
  \/ MayFail /\ Rejected(c, Prediction)

BeginExport(c) == Use(c, Export, Selected, Whole, "answer")

\* The artifact may be another controller's.
BeginImport(c) ==
  \/ Open(c, Import, "restore") /\ Waits /\ UNCHANGED <<served, rows, ids>>
  \/ MayFail /\ Rejected(c, Import)

SetPredictionDataset ==
  /\ predictionData # MaxSets
  /\ predictionData' = IF predictionData = None THEN 1 ELSE predictionData + 1
  /\ UNCHANGED <<calls, pc, jobs, fitted, selectedVariant, locals, outcome, seen>>

-----------------------------------------------------------------------------
(* The jobs of a call.                                                     *)

Fails(c) == MayFail /\ Close(c, "error") /\ UNCHANGED <<memory, locals>>

\* trainAsync returns to the caller.
Fitted(c) ==
  /\ Turn(c, "fit")
  /\ \/ /\ Yield(c, "trained")
        /\ trained' = [trained EXCEPT ![c] = calls[c].on]
        /\ UNCHANGED <<memory, served, rows, ids>>
     \/ Fails(c)
  /\ UNCHANGED <<calls, seen>>

\* FIT_CV goes on to the validation rows of its fold and remembers nothing.
Validate(c) ==
  /\ Turn(c, "trained") /\ Op(c) = "FIT_CV"
  /\ Await(c, "answer")
  /\ served' = [served EXCEPT ![c] = c]
  /\ rows' = [rows EXCEPT ![c] = calls[c].on]
  /\ ids' = [ids EXCEPT ![c] = calls[c].on]
  /\ UNCHANGED <<calls, memory, trained, seen>>

\* Mutant: an await on the host before the variant is selected.
Remember_Awaits(c) ==
  /\ Turn(c, "trained") /\ Op(c) # "FIT_CV"
  /\ Await(c, "fitted")
  /\ fitted' = [fitted EXCEPT ![Variant(c)] = c]
  /\ UNCHANGED <<calls, selectedVariant, predictionData, locals, seen>>
\* fitOn remembers the estimator and returns to REFIT or fitFull,
Remember(c) ==
  /\ Turn(c, "trained") /\ Op(c) # "FIT_CV"
  /\ Yield(c, "fitted")
  /\ fitted' = [fitted EXCEPT ![Variant(c)] = c]
  /\ UNCHANGED <<calls, selectedVariant, predictionData, locals, seen>>

\* which select its variant one turn later.
Select(c) ==
  /\ Turn(c, "fitted")
  /\ Resolve(c, "ok")
  /\ selectedVariant' = Variant(c)
  /\ UNCHANGED <<calls, fitted, predictionData, locals, seen>>

\* Mutant: the ids are read when the values have come.
Answer_Late(c) ==
  /\ Turn(c, "answer")
  /\ \/ /\ Close(c, "ok")
        /\ ids' = [ids EXCEPT ![c] = IF Op(c) = "PREDICT" THEN predictionData ELSE @]
        /\ UNCHANGED <<memory, trained, served, rows>>
     \/ Fails(c)
  /\ UNCHANGED <<calls, seen>>
\* The values have come, one finite number for each row, or the model, or an
\* error.  The turns that they take through the controller change nothing.
Answer(c) ==
  /\ Turn(c, "answer")
  /\ \/ Close(c, "ok") /\ UNCHANGED <<memory, locals>>
     \/ Fails(c)
  /\ UNCHANGED <<calls, seen>>

\* An artifact is what some exportModel returned, a model of the whole set.
Restored(c) ==
  /\ Turn(c, "restore")
  /\ \/ /\ Resolve(c, "ok")
        /\ trained' = [trained EXCEPT ![c] = Whole]
        /\ fitted' = [fitted EXCEPT ![Base] = c]
        /\ selectedVariant' = Base
        /\ UNCHANGED <<predictionData, served, rows, ids>>
     \/ Fails(c)
  /\ UNCHANGED <<calls, seen>>

Begin(c) == BeginFit(c) \/ BeginTask(c) \/ BeginPredict(c) \/ BeginExport(c) \/ BeginImport(c)
Job(c) ==
  \/ Fitted(c) \/ Validate(c) \/ Remember(c) \/ Select(c)
  \/ Answer(c) \/ Restored(c) \/ Deliver(c)

Next ==
  \/ \E c \in Calls : Begin(c) \/ Settle(c) \/ Job(c)
  \/ SetPredictionDataset

Spec == Init /\ [][Next]_vars

-----------------------------------------------------------------------------
(* Properties.                                                             *)

Requests == Fits \cup Tasks \cup {Prediction, Export, Import}
Labels == {"idle", "fit", "trained", "fitted", "restore", "answer", "return", "done"}
Cohorts == Folds \cup {Whole}

TypeOK ==
  /\ calls \in Seq(Requests) /\ Len(calls) <= MaxCalls
  /\ pc \in [Calls -> Labels]
  /\ jobs \in Seq(Calls)
  /\ fitted \in [Variants -> Calls \cup {None}]
  /\ selectedVariant \in Variants \cup {None}
  /\ predictionData \in Nat \cup {None}
  /\ trained \in [Calls -> Cohorts \cup {None}]
  /\ served \in [Calls -> Calls \cup {None}]
  /\ rows \in [Calls -> Cohorts \cup {Given, None} \cup Nat]
  /\ ids \in [Calls -> Cohorts \cup {Given, None} \cup Nat]
  /\ outcome \in [Calls -> {"pending", "ok", "error"}]
  /\ seen \in [Calls -> SUBSET Calls]

Started == DOMAIN calls
Makes(c) == Op(c) \in {"REFIT", "fitFull", "importModel"}
Predicts(c) == Op(c) \in {"FIT_CV", "PREDICT", "predict"}
Ok(c) == outcome[c] = "ok"

\* Predictions are keyed by the identity of their rows ("emits identity-keyed
\* validation predictions", bindings/wasm/README.md:213-214), also when the host
\* sets another dataset while the estimator works.
KeyedByIdentity ==
  \A c \in Started : Ok(c) /\ Predicts(c) => rows[c] # None /\ ids[c] = rows[c]

\* No validation row leaks into the estimator that predicts it, and nothing is
\* predicted or exported by an estimator whose fit is not over: a fold is
\* answered by an estimator of its own training rows, every other result by one
\* of the whole set.
FittedForIt ==
  \A c \in Started :
    Ok(c) /\ served[c] # None =>
      trained[served[c]] = IF Op(c) = "FIT_CV" THEN calls[c].on ELSE Whole

\* d was over when e began, and e before c: c must not see d any more.
Superseded(d, c, rivals) == \E e \in rivals \cap seen[c] : d \in seen[e]
Latest(c, rivals) == served[c] \in rivals /\ ~Superseded(served[c], c, rivals)

Makers == {d \in Started : Makes(d)}
Own(c) == {d \in Makers : Op(c) = "PREDICT" /\ Variant(d) = Variant(c)}

\* "REFIT keeps the fitted JS object for PREDICT" (bindings/wasm/README.md:215):
\* a call is served by the latest estimator that had been made for it when it
\* began, or by one made meanwhile.  PREDICT asks for those of its variant first.
LatestServes ==
  \A c \in Started :
    served[c] # None /\ Op(c) # "FIT_CV" =>
      Latest(c, IF Own(c) \cap seen[c] # {} THEN Own(c) ELSE Makers)
=============================================================================
