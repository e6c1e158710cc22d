----------------------------- MODULE PortablePlan -----------------------------
(***************************************************************************)
(* The execution plan of a portable definition (lib.rs,                    *)
(* parse_execution_plan): a splitter, preprocessing steps and the swept    *)
(* numbers of components of one final PLS model; and the plans whose       *)
(* preprocessing libn4m embeds in the exported model.                      *)
(***************************************************************************)
EXTENDS PortableDefinition

CONSTANTS
  SplitterClass, SnvClass, SavgolClass, PlsClass,  \* one name for each list of aliases
  MaxVariants                                      \* stands for 10 000

ASSUME SweepAssumption == MaxVariants \in Nat \ {0}

PortableClasses == {SplitterClass, SnvClass, SavgolClass, PlsClass}

\* No alias stands in two lists, and none starts with "n4m:".
ASSUME ClassesAssumption ==
  Cardinality(PortableClasses) = 4 /\ PortableClasses \cap RoleTokens = {}

LoadDefinition(text) == Load(text, PortableClasses)

-----------------------------------------------------------------------------
(* Preprocessing. *)

Modes == [mirror |-> 0, constant |-> 1, nearest |-> 2, wrap |-> 3, interp |-> 4]

ReadsMode(v) ==
  \/ v.t = "absent"
  \/ v.t = "str" /\ v.s \in DOMAIN Modes
  \/ v.t \in {"null", "num"} /\ ReadsInt(v) /\ IntParam(v, 4) \in 0..4
Mode(v) ==
  CASE v.t = "absent" -> 4
    [] v.t = "str" -> Modes[v.s]
    [] OTHER -> IntParam(v, 4)

Window(params) ==
  IF Has(params, "window_length") THEN params.at["window_length"] ELSE Get(params, "window")

ReadsSavgol(params) ==
  /\ ReadsNumber(Get(params, "delta"))
  /\ NumberParam(Get(params, "delta"), Whole(1)) = Whole(1)
  /\ ReadsInt(Window(params)) /\ IntParam(Window(params), 11) >= 1
  /\ \A name \in {"polyorder", "deriv"} :
       ReadsInt(Get(params, name)) /\ IntParam(Get(params, name), 0) >= 0
  /\ ReadsMode(Get(params, "mode"))
  /\ ReadsNumber(Get(params, "cval"))

Savgol(params) ==
  [kind |-> "SavitzkyGolay",
   window_length |-> IntParam(Window(params), 11),
   polyorder |-> IntParam(Get(params, "polyorder"), 3),
   deriv |-> IntParam(Get(params, "deriv"), 0),
   mode |-> Mode(Get(params, "mode")),
   cval |-> NumberParam(Get(params, "cval"), Whole(0))]

Snv == [kind |-> "StandardNormalVariate"]

-----------------------------------------------------------------------------
(* Components. *)

\* Mutant: the sweep leaves its last value out, as Python's range does.
Sweep_Exclusive(start, stop, stride) ==
  [i \in 1 .. ((stop - start) \div stride) |-> start + (i - 1) * stride]
\* Counted and advanced in 64 bits: nothing wraps past the last value.
Sweep(start, stop, stride) ==
  [i \in 1 .. ((stop - start) \div stride + 1) |-> start + (i - 1) * stride]

ReadsSweep(step) ==
  LET range == step.at["_range_"]
      value(i) == IntParam(range.items[i], 0)
  IN  /\ Get(step, "param") = Str("n_components")
      /\ range.t = "arr" /\ Len(range.items) = 3
      /\ \A i \in 1..3 : ReadsInt(range.items[i]) /\ value(i) >= 1
      /\ value(1) <= value(2)
      /\ Len(Sweep(value(1), value(2), value(3))) <= MaxVariants

ReadsComponents(step) ==
  IF Has(step, "_range_") THEN ReadsSweep(step)
  ELSE LET value == Get(Get(step.at["model"], "params"), "n_components")
       IN ReadsInt(value) /\ IntParam(value, 2) >= 1

Components(step) ==
  IF Has(step, "_range_")
  THEN LET value(i) == IntParam(step.at["_range_"].items[i], 0)
       IN Sweep(value(1), value(2), value(3))
  ELSE <<IntParam(Get(Get(step.at["model"], "params"), "n_components"), 2)>>

-----------------------------------------------------------------------------
(* The plan: the steps are read in order, and the first bad one refuses it. *)

IsRole(step) ==
  \E name \in RoleTokens : step = Str(name) \/ Get(step, "class") = Str(name)

Empty == [ok |-> TRUE, splitter |-> Absent, preprocessing |-> <<>>, model |-> Absent]
Bad == [Empty EXCEPT !.ok = FALSE]

Take(plan, step) ==
  LET class == Get(step, "class")
      params == Get(step, "params")
      readable == /\ plan.ok /\ plan.model = Absent
                  /\ ~IsRole(step) /\ step.t = "obj"
                  /\ ~(Has(step, "class") /\ Has(step, "model"))
  IN IF ~readable THEN Bad ELSE
     CASE class = Str(SplitterClass) /\ plan.splitter = Absent
          /\ ReadsNumber(Get(params, "test_size")) ->
            [plan EXCEPT !.splitter = Num(NumberParam(Get(params, "test_size"), Other("frac")))]
       [] class = Str(SnvClass) -> [plan EXCEPT !.preprocessing = Append(@, Snv)]
       [] class = Str(SavgolClass) /\ ReadsSavgol(params) ->
            [plan EXCEPT !.preprocessing = Append(@, Savgol(params))]
       [] Get(step, "model").t = "obj" -> [plan EXCEPT !.model = step]
       [] OTHER -> Bad

Parse(definition) ==
  LET items == definition.at["pipeline"].items
      after[i \in 0 .. Len(items)] == IF i = 0 THEN Empty ELSE Take(after[i - 1], items[i])
      read == after[Len(items)]
  IN  IF /\ definition.t = "obj"
         /\ read.ok /\ read.model # Absent
         /\ Get(Get(read.model, "model"), "class") = Str(PlsClass)
         /\ ReadsComponents(read.model)
      THEN [splitter |-> read.splitter, preprocessing |-> read.preprocessing,
            n_components |-> Components(read.model)]
      ELSE Refused

\* parse_execution_plan_str
Plan(text) ==
  LET definition == LoadDefinition(text)
  IN IF definition = Refused THEN Refused ELSE Parse(definition)

-----------------------------------------------------------------------------
(* Embedding. *)

\* Mutant: the derivative order is not looked at.
Embeddable_AnyDerivative(sg) ==
  /\ sg.mode = 4 /\ sg.cval = Whole(0)
  /\ sg.window_length \in 3..501 /\ sg.window_length % 2 = 1
  /\ sg.polyorder < sg.window_length
Embeddable(sg) ==
  /\ sg.deriv = 0 /\ sg.mode = 4 /\ sg.cval = Whole(0)
  /\ sg.window_length \in 3..501 /\ sg.window_length % 2 = 1
  /\ sg.polyorder < sg.window_length

\* embedded_pipeline_spec: what the native pipeline is given, or None.
NotEmbedded == [window |-> 0, degree |-> 0]
EmbeddedSpec(plan) ==
  IF /\ Len(plan.preprocessing) = 2
     /\ plan.preprocessing[1] = Snv /\ plan.preprocessing[2].kind = "SavitzkyGolay"
     /\ Embeddable(plan.preprocessing[2])
  THEN [window |-> plan.preprocessing[2].window_length,
        degree |-> plan.preprocessing[2].polyorder]
  ELSE NotEmbedded

\* What libn4m does with it: smoothing by its own fixed settings.
Performed(spec) ==
  IF spec = NotEmbedded THEN <<>>
  ELSE <<Snv, [kind |-> "SavitzkyGolay", window_length |-> spec.window,
               polyorder |-> spec.degree, deriv |-> 0, mode |-> 4, cval |-> Whole(0)]>>
=============================================================================
