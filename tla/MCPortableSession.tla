--------------------------- MODULE MCPortableSession ---------------------------
(* Constants of PortableSession for TLC: every pipeline of up to MaxSteps     *)
(* steps for the reader, and four definitions for the sessions.               *)
EXTENDS PortableSession, TLC

CONSTANTS MaxSteps, libA, libB

One(i) == Num(Whole(i))
Class(name) == Obj("class" :> Str(name))
With(name, params) == Obj("class" :> Str(name) @@ "params" :> Obj(params))
Pls(params) == Obj("model" :> Obj("class" :> Str(PlsClass) @@ "params" :> params))
Swept(range) == Obj("model" :> Obj("class" :> Str(PlsClass)) @@ "_range_" :> range
                      @@ "param" :> Str("n_components"))
Range3(a, b, c) == Arr(<<One(a), One(b), One(c)>>)
Comment == Obj("_comment" :> Str("text"))

\* Parameters of every kind, each alone.
Numbers == {Num(Whole(i)) : i \in {-1, 0, 1, 2, 3, 5, 15, 16}}
             \cup {Num(MinusZero), Num(Other("frac")), Num(Other("beyond")), Null}
             \cup {Text(n) : n \in {Whole(3), Other("frac"), Other("infinite"), Other("junk")}}
             \cup {Str("interp"), Str("wrap"), Obj("a" :> Null), Arr(<<>>)}
SavgolSteps ==
  {With(SavgolClass, name :> v) :
     name \in {"delta", "window_length", "window", "polyorder", "deriv", "mode", "cval"},
     v \in Numbers}
SplitSteps == {With(SplitterClass, "test_size" :> v) : v \in Numbers}
ModelSteps ==
  {Pls(Obj("n_components" :> v)) : v \in Numbers}
    \cup {Pls(v) : v \in {Null, Str("x"), Arr(<<>>)}}
    \cup {Swept(Range3(a, b, c)) : a \in {0, 1, 2, 14}, b \in {1, 2, 5, 15, 16}, c \in {-1, 0, 1, 2, 3}}
    \cup {Swept(Arr(<<One(1), One(2)>>)), Swept(One(2)),
          Swept(Arr(<<Null, One(2), One(1)>>)), Swept(Arr(<<Text(Whole(1)), One(2), One(1)>>)),
          Obj("model" :> Obj("class" :> Str(PlsClass)) @@ "_range_" :> Range3(1, 2, 1))}

Small == {
  Class(SplitterClass), Class(SnvClass), Class(SavgolClass), Pls(Null), Comment,
  Obj("class" :> Str(SnvClass) @@ "_comment" :> Str("text")),
  Obj("class" :> Str(SnvClass) @@ "model" :> Obj("class" :> Str(PlsClass))),
  Obj("model" :> Obj("class" :> Str(SnvClass))), Obj("model" :> Str(PlsClass)),
  Obj("model" :> Obj("class" :> Str("n4m:known"))), Str("n4m:known"), Str(SnvClass),
  Class("n4m:known"), Class("n4m:unknown"), Class("Unsupported"), Obj("class" :> Null),
  Obj("model" :> Obj("class" :> Str(PlsClass) @@ "params" :> Obj("_comment" :> Str("text")))),
  Obj("model" :> Obj("class" :> Str(PlsClass)
        @@ "params" :> Obj("extra" :> Arr(<<Comment, Class("Unsupported")>>)))),
  Obj(<<>>), Null, Arr(<<Class(SnvClass)>>)}

Roots(items) == {Arr(items), Obj("pipeline" :> Arr(items)), Obj("steps" :> Arr(items)),
                 Obj("steps" :> Null @@ "pipeline" :> Arr(items))}

\* The definitions sessions are made from: two that libn4m embeds, with different
\* filters, one of them split and swept; and two that it does not embed, one with
\* a derivative and one without a filter.  Refused ones are in MCTexts only.
dEmbedded == Obj("name" :> Str("a") @@ "steps" :> Arr(<<
  Class(SplitterClass), Comment, Class(SnvClass),
  With(SavgolClass, "window" :> One(5) @@ "polyorder" :> One(2)), Swept(Range3(1, 3, 2))>>))
dDerived == Arr(<<Class(SnvClass),
  With(SavgolClass, "window" :> One(5) @@ "polyorder" :> One(2) @@ "deriv" :> One(1)),
  Pls(Obj("n_components" :> One(1)))>>)
dSmoothed == Arr(<<Class(SnvClass), With(SavgolClass, "window" :> One(3) @@ "polyorder" :> One(2)),
                   Pls(Null)>>)
dPlain == Obj("pipeline" :> Arr(<<Class(SplitterClass), Class(SnvClass), Swept(Range3(1, 2, 1))>>))

MCUsed == {dEmbedded, dDerived, dSmoothed, dPlain}

MCTexts ==
  MCUsed \cup {Refused, Null, One(1), Obj(<<>>), Obj("pipeline" :> Null), Obj("steps" :> Str("x"))}
    \cup {Arr(items) : items \in UNION {[1..n -> Small] : n \in 0 .. MaxSteps}}
    \cup UNION {Roots(<<Class(SnvClass), m>>) : m \in {Pls(Null), Comment}}
    \cup {Arr(<<s, Pls(Null)>>) : s \in SavgolSteps \cup SplitSteps}
    \cup {Arr(<<m>>) : m \in ModelSteps}
=============================================================================
