-------------------------- MODULE PortableDefinition --------------------------
(***************************************************************************)
(* A portable pipeline definition, from the text a caller hands over to    *)
(* the normalised document every consumer reads (lib.rs,                   *)
(* load_pipeline_definition_str), and the numbers it may hold.  A JSON     *)
(* value is a record tagged t; a number is reduced to what its readers     *)
(* tell apart, the string forms they accept included.                      *)
(***************************************************************************)
EXTENDS Integers, Sequences, FiniteSets, SequencesExt

CONSTANTS
  RoleTokens,   \* strings that start with "n4m:"
  Resolvable,   \* those the native manifest resolves
  I32Max        \* stands for i32::MAX

ASSUME RolesAssumption == Resolvable \subseteq RoleTokens
ASSUME WidthAssumption == I32Max \in Nat /\ I32Max > 1

I32 == (-I32Max - 1) .. I32Max

-----------------------------------------------------------------------------
(* JSON. *)

Absent == [t |-> "absent"]
Null == [t |-> "null"]
Str(s) == [t |-> "str", s |-> s]
Num(n) == [t |-> "num", n |-> n]
Text(n) == [t |-> "text", n |-> n]       \* a string, parsed when a number is read
Arr(items) == [t |-> "arr", items |-> items]
Obj(f) == [t |-> "obj", at |-> f]

\* k: "whole", "zero-" (minus zero), "frac", "beyond" (outside i64),
\* "infinite", or "junk", which only a string can be.
Whole(i) == [k |-> "whole", i |-> i]
MinusZero == [k |-> "zero-", i |-> 0]
Other(k) == [k |-> k, i |-> 0]

Has(v, key) == v.t = "obj" /\ key \in DOMAIN v.at
\* Value::get by a string key, which only an object has.
Get(v, key) == IF Has(v, key) THEN v.at[key] ELSE Absent

Numeric(v) == v.t \in {"num", "text"}

ReadsInt(v) ==
  \/ v.t \in {"absent", "null"}
  \/ Numeric(v) /\ v.n.k \in {"whole", "zero-"} /\ v.n.i \in I32
IntParam(v, fallback) == IF v.t \in {"absent", "null"} THEN fallback ELSE v.n.i

ReadsNumber(v) ==
  \/ v.t \in {"absent", "null"}
  \/ Numeric(v) /\ v.n.k \notin {"infinite", "junk"}
NumberParam(v, fallback) == IF v.t \in {"absent", "null"} THEN fallback ELSE v.n

-----------------------------------------------------------------------------
(* Normalisation. *)

Refused == [t |-> "refused"]

Normalized(v) ==
  CASE v.t = "arr" -> Obj([key \in {"pipeline"} |-> v])
    [] Has(v, "pipeline") -> v
    [] Has(v, "steps") /\ ~Has(v, "pipeline") ->
         Obj([key \in (DOMAIN v.at \ {"steps"}) \cup {"pipeline"} |->
                IF key = "pipeline" THEN v.at["steps"] ELSE v.at[key]])
    [] OTHER -> Refused

IsComment(v) == v.t = "obj" /\ DOMAIN v.at = {"_comment"}

\* Vec::retain: the items that are no comments, in their order.
Retained(items) ==
  LET kept[i \in 0 .. Len(items)] ==
        IF i = 0 THEN <<>>
        ELSE IF IsComment(items[i]) THEN kept[i - 1] ELSE Append(kept[i - 1], items[i])
  IN kept[Len(items)]

\* One level of strip_comments_in_place and of collect_classes, Inner being
\* the level below.
Stripped(v, Inner(_)) ==
  CASE v.t = "arr" ->
         LET kept == Retained(v.items) IN Arr([i \in DOMAIN kept |-> Inner(kept[i])])
    [] v.t = "obj" -> Obj([key \in DOMAIN v.at \ {"_comment"} |-> Inner(v.at[key])])
    [] OTHER -> v
\* Names under a "class" key, and role tokens that are array items.
Named(v, Inner(_)) ==
  CASE v.t = "arr" ->
         UNION {IF item.t = "str" /\ item.s \in RoleTokens THEN {item.s} ELSE Inner(item) :
                  item \in ToSet(v.items)}
    [] v.t = "obj" ->
         UNION {Inner(v.at[key]) : key \in DOMAIN v.at}
           \cup (IF Get(v, "class").t = "str" THEN {v.at["class"].s} ELSE {})
    [] OTHER -> {}

\* Bound: a pipeline is looked into six levels deep, down to the items of a
\* list inside the params of a model.
StripItem(v) ==
  LET five(w)  == Stripped(w, LAMBDA x : x)
      four(w)  == Stripped(w, five)
      three(w) == Stripped(w, four)
      two(w)   == Stripped(w, three)
  IN Stripped(v, two)
StripComments(v) == Stripped(v, StripItem)
Classes(v) ==
  LET five(w)  == Named(w, LAMBDA x : {})
      four(w)  == Named(w, five)
      three(w) == Named(w, four)
      two(w)   == Named(w, three)
      one(w)   == Named(w, two)
  IN Named(v, one)

\* load_pipeline_definition_str: text is a JSON value, or Refused when it is
\* neither JSON nor YAML.
Load(text, portable) ==
  LET root == IF text.t = "refused" THEN text ELSE Normalized(text)
      definition == Obj([root.at EXCEPT !["pipeline"] = StripComments(root.at["pipeline"])])
  IN  IF /\ root.t = "obj"
         /\ Get(root, "pipeline").t = "arr"
         /\ \A name \in Classes(definition.at["pipeline"]) :
              name \in (IF name \in RoleTokens THEN Resolvable ELSE portable)
      THEN definition
      ELSE Refused

=============================================================================
