------------------------------ MODULE NativeCalls ------------------------------
(***************************************************************************)
(* The calls a routine of MethodsLibrary makes into libn4m (lib.rs), with  *)
(* the handles they allocate.  Every call may fail; a routine that ends,   *)
(* with a result or by an early return, drops its guards, and a guard      *)
(* destroys the handle it holds.                                           *)
(***************************************************************************)
EXTENDS Naturals, Sequences, SequencesExt

CONSTANT None

VARIABLES
  calls,    \* calls the routine has still to make
  live,     \* handles libn4m has allocated and not destroyed
  guards,   \* handles the guards of the routine hold, in the order of their declaration
  refers,   \* handles the native configuration refers to
  phase     \* "idle", "calling", "returning" or "failing"

native == <<calls, live, guards, refers, phase>>

Handles == {"splitter", "split", "transform", "context", "config", "pipeline", "model"}

ASSUME NoneAssumption == None \notin Handles

\* One call: the handle it allocates, the handles it is given, whether its
\* failure is explained by the last error of the context.
Call(fn, makes, uses, explained) ==
  [fn |-> fn, makes |-> makes, uses |-> uses, explained |-> explained]

Resolve(names) == Call(names, None, {}, FALSE)

-----------------------------------------------------------------------------
(* The routines. *)

Split == <<
  Resolve("matrix_view"),
  Call("kennard_stone_create", "splitter", {}, FALSE),
  Call("kennard_stone_split", "split", {"splitter"}, FALSE),
  Call("copy_indices", None, {"split"}, FALSE)>>

Transform == <<
  Resolve("matrix_view"),
  Call("transform_create", "transform", {}, FALSE),
  Call("transform", None, {"transform"}, FALSE)>>

\* The eight setters of the configuration are one call here.
Configure == <<
  Resolve("matrix_view"),
  Call("context_create", "context", {}, FALSE),
  Call("config_create", "config", {}, TRUE),
  Call("config_set", None, {"config"}, TRUE)>>

Embed == <<
  Resolve("pipeline_symbols"),
  Call("pipeline_create", "pipeline", {}, TRUE),
  Call("add_snv", None, {"pipeline"}, TRUE),
  Call("add_savgol", None, {"pipeline"}, TRUE),
  Call("config_set_pipeline", None, {"config", "pipeline"}, TRUE)>>

Export == <<
  Resolve("export_symbols"),
  Call("model_export_size", None, {"model"}, FALSE),
  Call("model_export_to_buffer", None, {"model"}, FALSE)>>

FitPredict(embedded, export) ==
  Configure
    \o (IF embedded THEN Embed ELSE <<>>)
    \o <<Call("model_fit", "model", {"context", "config"}, TRUE),
         Call("model_predict", None, {"context", "model"}, TRUE)>>
    \o (IF export THEN Export ELSE <<>>)

ImportPredict == <<
  Resolve("model_size"),
  Call("context_create", "context", {}, FALSE),
  Call("model_import_from_buffer", "model", {"context"}, TRUE),
  Call("model_predict", None, {"context", "model"}, TRUE)>>

Routines ==
  {Split, Transform, ImportPredict} \cup {FitPredict(em, ex) : em \in BOOLEAN, ex \in BOOLEAN}

-----------------------------------------------------------------------------
(* Execution. *)

Quiet ==
  /\ calls = <<>>
  /\ live = {}
  /\ guards = <<>>
  /\ refers = {}
  /\ phase = "idle"

Begin(routine) ==
  /\ phase = "idle"
  /\ calls' = routine
  /\ phase' = "calling"
  /\ UNCHANGED <<live, guards, refers>>

Allocate(h) ==
  /\ live' = live \cup {h}
  /\ guards' = Append(guards, h)

\* Mutant: the pipeline is dropped once the configuration has been given it.
Succeed_PipelineDropped ==
  /\ phase = "calling" /\ calls # <<>>
  /\ CASE Head(calls).fn = "config_set_pipeline" ->
            live' = live \ {"pipeline"} /\ guards' = SelectSeq(guards, LAMBDA h : h # "pipeline")
       [] Head(calls).makes # None -> Allocate(Head(calls).makes)
       [] OTHER -> UNCHANGED <<live, guards>>
  /\ refers' = IF Head(calls).fn = "config_set_pipeline" THEN {"pipeline"} ELSE refers
  /\ calls' = Tail(calls)
  /\ phase' = IF Tail(calls) = <<>> THEN "returning" ELSE phase
Succeed ==
  /\ phase = "calling" /\ calls # <<>>
  /\ IF Head(calls).makes # None THEN Allocate(Head(calls).makes) ELSE UNCHANGED <<live, guards>>
  /\ refers' = IF Head(calls).fn = "config_set_pipeline" THEN {"pipeline"} ELSE refers
  /\ calls' = Tail(calls)
  /\ phase' = IF Tail(calls) = <<>> THEN "returning" ELSE phase

\* A call that fails may have allocated its handle before; the out-parameter
\* is the field of the guard, so the guard holds it all the same.
Fail ==
  /\ phase = "calling" /\ calls # <<>>
  /\ \/ Head(calls).makes # None /\ Allocate(Head(calls).makes)
     \/ UNCHANGED <<live, guards>>
  /\ calls' = <<>>
  /\ phase' = "failing"
  /\ UNCHANGED refers

\* Guards are dropped in the reverse order of their declaration; the guard of
\* the pipeline is declared after the one of the model, which the fit fills
\* later.
NextGuard ==
  IF "pipeline" \in live THEN "pipeline" ELSE guards[Len(guards)]

Drop ==
  /\ phase \in {"returning", "failing"} /\ guards # <<>>
  /\ live' = live \ {NextGuard}
  /\ \E i \in DOMAIN guards : guards[i] = NextGuard /\ guards' = RemoveAt(guards, i)
  /\ refers' = IF NextGuard = "config" THEN {} ELSE refers
  /\ UNCHANGED <<calls, phase>>

Returned(how) == phase = how /\ guards = <<>>
Return == phase' = "idle" /\ UNCHANGED <<calls, live, guards, refers>>

NativeStep == Succeed \/ Fail \/ Drop

NativeTypeOK ==
  /\ calls \in {SubSeq(r, i, Len(r)) : r \in Routines, i \in 1 .. 15}
  /\ live \subseteq Handles
  /\ guards \in Seq(Handles)
  /\ refers \subseteq {"pipeline"}
  /\ phase \in {"idle", "calling", "returning", "failing"}

\* Every handle is owned and released: what libn4m has allocated is what the
\* guards hold, nothing is left when a routine has returned, every call is
\* given handles that are still allocated (the fit also reads the pipeline
\* its configuration refers to, and a failure the last error of the
\* context), and the handle a routine made first outlives those made with it.
HandlesSound ==
  /\ {guards[i] : i \in DOMAIN guards} = live
  /\ \A i, j \in DOMAIN guards : guards[i] = guards[j] => i = j
  /\ phase = "idle" => live = {}
  /\ phase = "calling" /\ calls # <<>> =>
       /\ Head(calls).uses \subseteq live
       /\ Head(calls).explained => "context" \in live
       /\ Head(calls).fn = "model_fit" => refers \subseteq live
  /\ live # {} => live \cap {"splitter", "transform", "context"} # {}
=============================================================================
