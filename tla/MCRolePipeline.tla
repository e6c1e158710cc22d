----------------------------- MODULE MCRolePipeline -----------------------------
(* Constants of RolePipeline for TLC: a catalogue with one method of each kind, *)
(* recipes of up to two of its steps, and targets with absent classes.          *)
EXTENDS RolePipeline, TLC

CONSTANTS Filter, Scaler, Snv, Regressor, Kernel, Classifier, Splitter

Info(role, stateful, keeps, params) ==
  [role |-> role, stateful |-> stateful, keeps |-> keeps, params |-> params]
One == Num(Whole(1))
IntParameter == "n" :> [type |-> "Int", default |-> One]
AllTypes ==
  IntParameter
    @@ "d" :> [type |-> "Double", default |-> One]
    @@ "b" :> [type |-> "Bool", default |-> [t |-> "bool"]]
    @@ "e" :> [type |-> "Enum", default |-> Str("x")]
    @@ "ia" :> [type |-> "IntArray", default |-> Arr(<<>>)]
    @@ "da" :> [type |-> "DoubleArray", default |-> Arr(<<>>)]
MCCatalogue ==
  Filter :> Info("sample_filter", FALSE, FALSE, <<>>)
    @@ Scaler :> Info("transformer", TRUE, FALSE, AllTypes)
    @@ Snv :> Info("transformer", FALSE, FALSE, <<>>)
    @@ Regressor :> Info("regressor", TRUE, FALSE, IntParameter)
    @@ Kernel :> Info("regressor", TRUE, TRUE, <<>>)
    @@ Classifier :> Info("classifier", TRUE, FALSE, <<>>)
    @@ Splitter :> Info("splitter", FALSE, FALSE, <<>>)

With(token, params) == Obj("class" :> Str(token) @@ "params" :> params)
Recipe(items) == Obj("pipeline" :> Arr(items))
Values == {One, Num(MinusZero), Num(Other("frac")), Num(Other("large")), Num(Other("beyond")),
           Null, Str("x"), [t |-> "bool"], Arr(<<>>), Arr(<<One>>), Arr(<<Num(MinusZero), One>>),
           Arr(<<Num(Other("frac"))>>), Arr(<<Null>>)}
MCRecipes ==
  {Recipe(<<>>), Null, Obj("steps" :> Arr(<<>>)), Recipe(<<Null>>), Recipe(<<Str("n4m:unknown")>>),
   Recipe(<<Str("other")>>), Recipe(<<Obj("params" :> Null)>>),
   Recipe(<<With(Regressor, Arr(<<>>))>>), Recipe(<<With(Regressor, Obj("x" :> One))>>),
   Recipe(<<With(Regressor, Obj("n" :> Num(Whole(2))))>>)}
  \cup {Recipe(<<With(Scaler, Obj(name :> v)), Str(Regressor)>>) :
          name \in DOMAIN AllTypes, v \in Values}
  \cup {Recipe(<<Str(token)>>) : token \in Resolvable}
  \cup {Recipe(<<Str(a), Str(b)>>) : a \in Resolvable, b \in Resolvable}
  \cup {Recipe(<<Str(Filter), Str(Scaler), Str(Classifier)>>),
        Recipe(<<Str(Scaler), Str(Filter), Str(Classifier)>>)}

MCOthers ==
  {Null, Recipe(<<>>), Recipe(<<Null>>), Recipe(<<With(Regressor, Obj("n" :> Num(Whole(2))))>>),
   Recipe(<<With(Scaler, Obj("n" :> Num(Whole(2)))), Str(Regressor)>>)}
    \cup {Recipe(<<Str(a), Str(b)>>) : a \in {Scaler, Snv}, b \in {Regressor, Kernel, Classifier}}

Target(kind, labels, rows) == [kind |-> kind, labels |-> labels, rows |-> rows]
MCTargets ==
  {Target("values", <<>>, rows) : rows \in BOOLEAN}
    \cup {Target("labels", labels, TRUE) : labels \in {<<2, 1, 2>>, <<3, 1, 2>>, <<1, 1>>}}
    \cup {Target("ids", ids, TRUE) : ids \in {<<0, 1, 0>>, <<1, 2>>, <<-1, 1>>}}
    \cup {Target("labels", <<1>>, FALSE)}

MCColumns == {<<"a", "b">>, <<"b", "a">>, <<"a", "a">>, <<"a">>}

MCTables ==
  {<<>>, <<Name(1)>>, <<Name(1), Name(1)>>, <<Name(2), Name(1)>>, <<Name(1), Number(1)>>,
   <<Number(1), Number(2)>>, <<Name(1), Junk>>, <<Name(1), Name(2), Name(3), Name(4)>>}
=============================================================================
