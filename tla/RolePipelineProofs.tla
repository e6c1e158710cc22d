-------------------------- MODULE RolePipelineProofs --------------------------
(***************************************************************************)
(* EnvelopeFaithful and AcceptedSound, proved for any catalogue, recipes,  *)
(* targets and changes of the document.                                    *)
(***************************************************************************)
EXTENDS RolePipeline, FiniteSetTheorems, SequenceTheorems, TLAPS

IsSequence(s) == s \in Seq({s[i] : i \in DOMAIN s})

Documents == Recipes \cup Others
Final(p) == p.states[Len(p.states)]
Signature(states) ==
  [i \in DOMAIN states |-> [method |-> states[i].method, params |-> states[i].params]]

IsTable(table) == IsSequence(table) /\ \A i \in DOMAIN table : table[i] # None

\* The state of a step, as libn4m gives it.
IsState(state) ==
  /\ state = [method |-> state.method, params |-> state.params, keeps |-> state.keeps,
              width |-> state.width, classes |-> state.classes, meaning |-> state.meaning]
  /\ state.classes \subseteq Int

\* A pipeline: it fits its recipe, and its table, if it has one, its classes.
Shaped(p) ==
  /\ p = [recipe |-> p.recipe, states |-> p.states, n_features |-> p.n_features,
          feature_names |-> p.feature_names, classifier |-> p.classifier,
          class_names |-> p.class_names, genuine |-> p.genuine]
  /\ p.classifier \in BOOLEAN /\ p.genuine \in BOOLEAN
  /\ IsSequence(p.states) /\ p.states # <<>>
  /\ \A i \in DOMAIN p.states : IsState(p.states[i])
OfRecipe(p) ==
  /\ p.recipe \in Documents /\ ReadsRecipe(p.recipe)
  /\ Signature(p.states) = Stateful(Steps(p.recipe))
  /\ p.classifier = Classifies(Steps(p.recipe))
Sized(p) ==
  /\ p.n_features > 0
  /\ \A i \in DOMAIN p.states : p.states[i].width = p.n_features
  /\ p.feature_names # Malformed
  /\ p.feature_names = IF p.feature_names = <<>> THEN None ELSE p.feature_names
Labelling(p) ==
  p.class_names # None =>
    /\ p.classifier
    /\ IsTable(p.class_names) /\ ReadsTable(p.class_names)
    /\ Labelled(Final(p).classes, p.class_names)
Meant(p) ==
  p.genuine /\ p.classifier =>
    \A id \in Final(p).classes : Served(p, id) = Final(p).meaning[id]
IsPipeline(p) == Shaped(p) /\ OfRecipe(p) /\ Sized(p) /\ Labelling(p) /\ Meant(p)

IsEntry(entry, allowed) ==
  /\ entry = [method_id |-> entry.method_id, payload |-> entry.payload,
              sha256 |-> entry.sha256,
              contains_training_rows |-> entry.contains_training_rows,
              class_names |-> entry.class_names]
  /\ IsState(entry.payload)
  /\ entry.payload.keeps => allowed
  /\ entry.class_names # None => IsTable(entry.class_names)
IsEnvelope(e) ==
  /\ e = [schema |-> e.schema, recipe |-> e.recipe, n_features |-> e.n_features,
          feature_names |-> e.feature_names, allowed |-> e.allowed, states |-> e.states]
  /\ e.recipe \in Documents
  /\ IsSequence(e.states)
  /\ \A i \in DOMAIN e.states : IsEntry(e.states[i], e.allowed)

PipelineInv == pipeline # None => IsPipeline(pipeline)
EnvelopeInv ==
  envelope # None =>
    /\ IsEnvelope(envelope) /\ IsPipeline(source)
    /\ edited \in {"nothing", "older"} =>
         LET d == Document(source, envelope.allowed)
         IN IsEnvelope(d) /\ envelope = IF edited = "nothing" THEN d ELSE Older(d)
ReplyInv ==
  /\ reply.op = "load" /\ edited \in {"nothing", "older"} =>
       /\ ~reply.ok => reply.why = "native"
       /\ reply.ok => pipeline = IF edited = "nothing" THEN source
                                 ELSE [source EXCEPT !.feature_names = None]
  /\ reply.op = "load" /\ reply.ok =>
       \A i \in DOMAIN envelope.states :
         /\ envelope.states[i].contains_training_rows \in {None, pipeline.states[i].keeps}
         /\ pipeline.states[i].keeps => envelope.allowed
  /\ reply.why # "unlabelled"
Inv == PipelineInv /\ EnvelopeInv /\ ReplyInv

-----------------------------------------------------------------------------
(* Sequences and induction. *)

\* A sequence over any set is one over its own elements.
LEMMA Sequenced ==
  ASSUME NEW S, NEW s \in Seq(S)
  PROVE  IsSequence(s)
<1>1. s \in Seq(Range(s))
  BY SeqOfRange
<1> QED
  BY <1>1 DEF IsSequence, Range

\* A sequence is a function from 1 to its length.
LEMMA SequenceIs ==
  ASSUME NEW s, IsSequence(s)
  PROVE  /\ Len(s) \in Nat /\ DOMAIN s = 1 .. Len(s) /\ s = [i \in DOMAIN s |-> s[i]]
         /\ s # <<>> => Len(s) \in DOMAIN s /\ 1 \in DOMAIN s
<1>1. /\ Len(s) \in Nat /\ DOMAIN s = 1 .. Len(s)
      /\ s \in [1 .. Len(s) -> {s[i] : i \in DOMAIN s}]
  BY LenProperties DEF IsSequence
<1>2. s # <<>> => Len(s) # 0
  BY EmptySeq DEF IsSequence
<1> QED
  BY <1>1, <1>2

\* A function from 1 to a number is a sequence, as long as the number.
LEMMA IsASequence ==
  ASSUME NEW n \in Nat, NEW s, s = [i \in 1 .. n |-> s[i]]
  PROVE  IsSequence(s) /\ Len(s) = n
<1> DEFINE S == {s[i] : i \in 1 .. n}
           e(i) == s[i]
<1>1. [i \in 1 .. n |-> e(i)] \in Seq(S)
  <2>1. \A i \in 1 .. n : e(i) \in S
    OBVIOUS
  <2> HIDE DEF S, e
  <2> QED
    BY <2>1, IsASeq
<1>2. s \in Seq(S)
  BY <1>1
<1> HIDE DEF S
<1>3. IsSequence(s)
  BY <1>2, Sequenced
<1>4. Len(s) \in Nat /\ DOMAIN s = 1 .. Len(s) /\ DOMAIN s = 1 .. n
  BY <1>3, SequenceIs
<1> QED
  BY <1>3, <1>4

\* What Append does to a sequence.
LEMMA Appended ==
  ASSUME NEW s, IsSequence(s), NEW x
  PROVE  /\ IsSequence(Append(s, x)) /\ DOMAIN Append(s, x) = 1 .. Len(s) + 1
         /\ \A i \in DOMAIN s : Append(s, x)[i] = s[i]
         /\ Append(s, x)[Len(s) + 1] = x
<1> DEFINE S == {s[i] : i \in DOMAIN s} \cup {x}
<1>1. s \in Seq(S) /\ x \in S
  BY SeqMonotonic DEF IsSequence
<1> HIDE DEF S
<1>2. Append(s, x) \in Seq(S)
  BY <1>1, AppendProperties
<1>3. IsSequence(Append(s, x))
  BY <1>2, Sequenced
<1> QED
  BY <1>1, <1>2, <1>3, AppendProperties, LenProperties

\* A set of numbers has a least element.
LEMMA Least ==
  ASSUME NEW T \in SUBSET Nat, T # {}
  PROVE  \E m \in T : \A n \in T : m <= n
<1> DEFINE R == OpToRel(<, Nat)
<1>1. IsWellFoundedOn(R, Nat)
  BY NatLessThanWellFounded
<1>2. \A x, y \in Nat : x < y => <<x, y>> \in R
  BY DEF OpToRel
<1> HIDE DEF R
<1>3. PICK m \in T : \A y \in T : ~ (<<y, m>> \in R)
  BY <1>1, WFMin
<1>4. ASSUME NEW n \in T
      PROVE  m <= n
  <2>1. m \in Nat /\ n \in Nat
    OBVIOUS
  <2>2. ~ (n < m)
    BY <1>2, <1>3, <2>1
  <2> QED
    BY <2>1, <2>2
<1> QED
  BY <1>4

\* Induction over the numbers, for a set in the place of an operator.
LEMMA Induction ==
  ASSUME NEW S, 0 \in S, \A n \in Nat : n \in S => n + 1 \in S
  PROVE  Nat \subseteq S
<1> SUFFICES ASSUME ~ (Nat \subseteq S) PROVE FALSE
  OBVIOUS
<1> DEFINE T == Nat \ S
<1>1. T # {} /\ T \in SUBSET Nat
  OBVIOUS
<1> HIDE DEF T
<1>2. PICK m \in T : \A n \in T : m <= n
  BY <1>1, Least
<1>3. m \in Nat /\ m \notin S /\ m - 1 \notin T
  BY <1>2 DEF T
<1>4. m # 0 /\ m - 1 \in Nat
  BY <1>3
<1>5. m - 1 \in S
  BY <1>3, <1>4 DEF T
<1> QED
  BY <1>3, <1>4, <1>5

-----------------------------------------------------------------------------
(* The steps that have a state. *)

Sifted(with, step) == IF Catalogue[step.method].stateful THEN Append(with, step) ELSE with
AreSifted(steps, n, g) ==
  g = [i \in 0 .. n |-> IF i = 0 THEN <<>> ELSE Sifted(g[i - 1], steps[i])]

\* The recursion has a solution for steps of any number.
LEMMA SiftedExists ==
  ASSUME NEW steps, NEW m \in Nat
  PROVE  \E g : AreSifted(steps, m, g)
<1> DEFINE S == {n \in Nat : \E g : AreSifted(steps, n, g)}
<1>1. 0 \in S
  <2> DEFINE g == [i \in 0 .. 0 |-> <<>>]
             h == [i \in 0 .. 0 |-> IF i = 0 THEN <<>> ELSE Sifted(g[i - 1], steps[i])]
  <2>1. \A i \in 0 .. 0 : i = 0
    OBVIOUS
  <2>2. g = h
    BY <2>1
  <2>3. AreSifted(steps, 0, g)
    BY <2>2 DEF AreSifted
  <2> QED
    BY <2>3
<1>2. ASSUME NEW n \in Nat, n \in S
      PROVE  n + 1 \in S
  <2> PICK g : AreSifted(steps, n, g)
    BY <1>2
  <2> DEFINE next == Sifted(g[n], steps[n + 1])
             h == [i \in 0 .. n + 1 |-> IF i <= n THEN g[i] ELSE next]
             k == [i \in 0 .. n + 1 |-> IF i = 0 THEN <<>> ELSE Sifted(h[i - 1], steps[i])]
  <2>1. ASSUME NEW i \in 0 .. n + 1
        PROVE  h[i] = IF i = 0 THEN <<>> ELSE Sifted(h[i - 1], steps[i])
    <3> HIDE DEF next
    <3>1. CASE i <= n
      <4>1. h[i] = g[i] /\ i \in 0 .. n /\ (i # 0 => h[i - 1] = g[i - 1])
        BY <3>1
      <4>2. g[i] = IF i = 0 THEN <<>> ELSE Sifted(g[i - 1], steps[i])
        BY <4>1 DEF AreSifted
      <4> HIDE DEF h
      <4> QED
        BY <4>1, <4>2
    <3>2. CASE i = n + 1
      <4>1. h[i] = next /\ h[i - 1] = g[n] /\ i # 0
        BY <3>2
      <4> HIDE DEF h
      <4> QED
        BY <4>1, <3>2 DEF next
    <3> QED
      BY <3>1, <3>2
  <2>2. \A i \in 0 .. n + 1 : h[i] = k[i]
    <3> HIDE DEF h
    <3> QED
      BY <2>1
  <2>3. h = k
    <3>1. DOMAIN h = 0 .. n + 1 /\ h = [i \in 0 .. n + 1 |-> h[i]]
      OBVIOUS
    <3>2. DOMAIN k = 0 .. n + 1 /\ k = [i \in 0 .. n + 1 |-> k[i]]
      OBVIOUS
    <3> HIDE DEF h, k
    <3> QED
      BY <2>2, <3>1, <3>2
  <2>4. AreSifted(steps, n + 1, h)
    BY <2>3 DEF AreSifted
  <2> HIDE DEF h
  <2> QED
    BY <2>4
<1> HIDE DEF S
<1>3. Nat \subseteq S
  BY <1>1, <1>2, Induction
<1> QED
  BY <1>3 DEF S

\* The steps with a state are steps, and the last one is among them if it has one.
LEMMA StatefulIs ==
  ASSUME NEW steps, IsSequence(steps)
  PROVE  /\ Stateful(steps) \in Seq({steps[i] : i \in DOMAIN steps})
         /\ steps # <<>> /\ Catalogue[steps[Len(steps)].method].stateful =>
              Stateful(steps) # <<>>
<1> DEFINE S == {steps[i] : i \in DOMAIN steps}
           l == Len(steps)
           with == CHOOSE g : AreSifted(steps, l, g)
<1>0. l \in Nat /\ DOMAIN steps = 1 .. l /\ (steps # <<>> => l # 0)
  BY SequenceIs
<1>1. AreSifted(steps, l, with)
  BY <1>0, SiftedExists
<1>2. Stateful(steps) = with[l]
  BY DEF Stateful, AreSifted, Sifted
<1> HIDE DEF with
<1> DEFINE T == {n \in Nat : n <= l => with[n] \in Seq(S)}
<1>3. 0 \in T
  <2>1. with[0] = <<>>
    BY <1>0, <1>1 DEF AreSifted
  <2>2. <<>> \in Seq(S)
    BY EmptySeq
  <2> QED
    BY <2>1, <2>2
<1>4. ASSUME NEW n \in Nat, n \in T
      PROVE  n + 1 \in T
  <2> SUFFICES ASSUME n + 1 <= l PROVE with[n + 1] \in Seq(S)
    OBVIOUS
  <2>1. n \in 0 .. l /\ n + 1 \in 0 .. l /\ n + 1 # 0 /\ n + 1 - 1 = n /\ n + 1 \in 1 .. l
    BY <1>0
  <2>2. with[n + 1] = Sifted(with[n], steps[n + 1])
    BY <1>1, <2>1 DEF AreSifted
  <2>3. with[n] \in Seq(S)
    BY <1>4, <1>0, <2>1
  <2>4. steps[n + 1] \in S
    BY <1>0, <2>1
  <2> HIDE DEF S
  <2> QED
    BY <2>2, <2>3, <2>4, AppendProperties DEF Sifted
<1>5. Nat \subseteq T
  <2> HIDE DEF T
  <2> QED
    BY <1>3, <1>4, Induction
<1>6. with[l] \in Seq(S)
  BY <1>0, <1>5
<1>7. ASSUME l # 0, Catalogue[steps[l].method].stateful
      PROVE  with[l] # <<>>
  <2>1. l - 1 \in 0 .. l /\ l \in 0 .. l /\ l - 1 \in Nat /\ l - 1 <= l
    BY <1>0, <1>7
  <2>2. with[l] = Append(with[l - 1], steps[l])
    BY <1>1, <1>7, <2>1 DEF AreSifted, Sifted
  <2>3. with[l - 1] \in Seq(S) /\ steps[l] \in S
    BY <1>0, <1>5, <1>7, <2>1
  <2> HIDE DEF S
  <2> QED
    BY <2>2, <2>3, AppendProperties
<1> QED
  BY <1>0, <1>2, <1>6, <1>7

-----------------------------------------------------------------------------
(* Labels: their ranks are the numbers below their count, each once. *)

LEMMA LabelsFinite ==
  ASSUME NEW labels, IsSequence(labels)
  PROVE  IsFiniteSet(ToSet(labels))
<1>1. labels \in Surjection(1 .. Len(labels), ToSet(labels))
  BY SequenceIs DEF Surjection, ToSet
<1>2. IsFiniteSet(1 .. Len(labels))
  BY SequenceIs, FS_Interval
<1> QED
  BY <1>1, <1>2, FS_Surjection

\* A label has fewer labels before it than there are, and more than any label
\* before it has.
LEMMA Ranks ==
  ASSUME NEW labels \in Seq(Int)
  PROVE  LET L == ToSet(labels)
             rank(l) == Cardinality(Before(labels, l))
         IN  /\ IsFiniteSet(L) /\ L \subseteq Int
             /\ \A l \in L : rank(l) \in 0 .. Cardinality(L) - 1
             /\ \A l, m \in L : l < m => rank(l) < rank(m)
<1> DEFINE L == ToSet(labels)
           rank(l) == Cardinality(Before(labels, l))
<1>1. IsFiniteSet(L)
  BY Sequenced, LabelsFinite
<1>2. L \subseteq Int
  BY ElementOfSeq DEF ToSet
<1>3. \A l \in L : Before(labels, l) \in SUBSET L /\ l \notin Before(labels, l)
  BY <1>2 DEF Before
<1>4. \A l, m \in L : l < m => Before(labels, l) \in SUBSET Before(labels, m)
                              /\ l \in Before(labels, m)
  BY <1>2 DEF Before
<1> HIDE DEF L
<1>5. \A l \in L : IsFiniteSet(Before(labels, l)) /\ rank(l) \in Nat
  BY <1>1, <1>3, FS_Subset, FS_CardinalityType
<1>6. \A l \in L : rank(l) < Cardinality(L)
  <2> TAKE l \in L
  <2>1. rank(l) <= Cardinality(L) /\ (Cardinality(L) = rank(l) => L = Before(labels, l))
    BY <1>1, <1>3, FS_Subset
  <2>2. Cardinality(L) # rank(l)
    BY <1>3, <2>1
  <2> QED
    BY <1>1, <1>5, <2>1, <2>2, FS_CardinalityType
<1>7. \A l, m \in L : l < m => rank(l) < rank(m)
  <2> SUFFICES ASSUME NEW l \in L, NEW m \in L, l < m PROVE rank(l) < rank(m)
    OBVIOUS
  <2>1. /\ rank(l) <= rank(m)
        /\ rank(m) = rank(l) => Before(labels, m) = Before(labels, l)
    BY <1>4, <1>5, FS_Subset
  <2>2. rank(m) # rank(l)
    BY <1>3, <1>4, <2>1
  <2> QED
    BY <1>5, <2>1, <2>2
<1>8. \A l \in L : rank(l) \in 0 .. Cardinality(L) - 1
  BY <1>1, <1>5, <1>6, FS_CardinalityType
<1> QED
  BY <1>1, <1>2, <1>7, <1>8 DEF L

\* Every number below the count is the rank of one label.
LEMMA RankBijection ==
  ASSUME NEW labels \in Seq(Int)
  PROVE  LET L == ToSet(labels)
             rank(l) == Cardinality(Before(labels, l))
         IN  /\ Cardinality(L) \in Nat
             /\ \A l \in L : rank(l) \in 0 .. Cardinality(L) - 1
             /\ \A l, m \in L : rank(l) = rank(m) => l = m
             /\ \A n \in 0 .. Cardinality(L) - 1 : \E l \in L : rank(l) = n
<1> DEFINE L == ToSet(labels)
           rank(l) == Cardinality(Before(labels, l))
           ranks == 0 .. Cardinality(L) - 1
           f == [l \in L |-> rank(l)]
<1>1. /\ IsFiniteSet(L) /\ L \subseteq Int
      /\ \A l \in L : rank(l) \in ranks
      /\ \A l, m \in L : l < m => rank(l) < rank(m)
  BY Ranks
<1>2. Cardinality(L) \in Nat
  BY <1>1, FS_CardinalityType
<1> HIDE DEF L, rank
<1>3. \A l, m \in L : rank(l) = rank(m) => l = m
  <2> SUFFICES ASSUME NEW l \in L, NEW m \in L, rank(l) = rank(m), l # m PROVE FALSE
    OBVIOUS
  <2>1. l < m \/ m < l
    BY <1>1
  <2>2. rank(l) \in Int /\ rank(m) \in Int
    BY <1>1, <1>2
  <2> QED
    BY <1>1, <2>1, <2>2
<1>4. IsFiniteSet(ranks) /\ Cardinality(ranks) = Cardinality(L)
  <2>1. 0 \in Int /\ Cardinality(L) - 1 \in Int
    BY <1>2
  <2>2. /\ IsFiniteSet(ranks)
        /\ Cardinality(ranks) = IF 0 > Cardinality(L) - 1 THEN 0
                                ELSE (Cardinality(L) - 1) - 0 + 1
    BY <2>1, FS_Interval
  <2> QED
    BY <1>2, <2>2
<1>5. f \in Injection(L, ranks)
  BY <1>1, <1>3 DEF Injection, IsInjective
<1>6. f \in Surjection(L, ranks)
  <2> HIDE DEF f, ranks
  <2> QED
    BY <1>4, <1>5, FS_Injection
<1>7. \A n \in ranks : \E l \in L : rank(l) = n
  BY <1>6 DEF Surjection
<1> QED
  BY <1>1, <1>2, <1>3, <1>7 DEF L, rank

\* The table names each label once, and the id of a row is the place of its
\* label in the table.
LEMMA Encoding ==
  ASSUME NEW labels \in Seq(Int)
  PROVE  LET n == Cardinality(ToSet(labels))
             names == SortedNames(labels)
             ids == Encode(labels)
         IN  /\ n \in Nat /\ (labels # <<>> => n # 0)
             /\ names \in [1 .. n -> ToSet(labels)] /\ IsInjective(names)
             /\ DOMAIN ids = DOMAIN labels
             /\ \A i \in DOMAIN labels : ids[i] \in 0 .. n - 1 /\ names[ids[i] + 1] = labels[i]
<1> DEFINE L == ToSet(labels)
           rank(l) == Cardinality(Before(labels, l))
           n == Cardinality(L)
           names == SortedNames(labels)
           ids == Encode(labels)
<1>1. /\ n \in Nat
      /\ \A l \in L : rank(l) \in 0 .. n - 1
      /\ \A l, m \in L : rank(l) = rank(m) => l = m
      /\ \A k \in 0 .. n - 1 : \E l \in L : rank(l) = k
  BY RankBijection
<1>2. names = [k \in 1 .. n |-> CHOOSE l \in L : rank(l) = k - 1]
  BY DEF SortedNames
<1>3. labels # <<>> => n # 0
  <2> SUFFICES ASSUME labels # <<>> PROVE n # 0
    OBVIOUS
  <2>1. labels[1] \in L
    BY EmptySeq, LenProperties DEF ToSet
  <2> HIDE DEF L, n, rank
  <2> QED
    BY <1>1, <2>1
<1>4. \A i \in DOMAIN labels : labels[i] \in L
  BY DEF ToSet
<1>5. ids = [i \in DOMAIN labels |-> (CHOOSE k \in DOMAIN names : names[k] = labels[i]) - 1]
  BY DEF Encode
<1> HIDE DEF L, n, rank, names, ids
<1>6. \A k \in 1 .. n : names[k] \in L /\ rank(names[k]) = k - 1
  <2> TAKE k \in 1 .. n
  <2>1. k - 1 \in 0 .. n - 1
    BY <1>1
  <2>2. \E l \in L : rank(l) = k - 1
    BY <1>1, <2>1
  <2> QED
    BY <1>2, <2>2
<1>7. names \in [1 .. n -> L]
  BY <1>2, <1>6
<1>8. IsInjective(names)
  <2> SUFFICES ASSUME NEW a \in 1 .. n, NEW b \in 1 .. n, names[a] = names[b] PROVE a = b
    BY <1>7 DEF IsInjective
  <2>1. a - 1 = b - 1
    BY <1>6
  <2> QED
    BY <1>1, <2>1
<1>9. \A i \in DOMAIN labels : ids[i] \in 0 .. n - 1 /\ names[ids[i] + 1] = labels[i]
  <2> TAKE i \in DOMAIN labels
  <2> DEFINE k == rank(labels[i]) + 1
             c == CHOOSE j \in DOMAIN names : names[j] = labels[i]
  <2>1. k \in 1 .. n /\ k - 1 = rank(labels[i])
    BY <1>1, <1>4
  <2>2. names[k] = labels[i]
    BY <1>1, <1>4, <1>6, <2>1
  <2>3. c \in DOMAIN names /\ names[c] = labels[i]
    BY <1>7, <2>1, <2>2
  <2>4. ids[i] = c - 1
    BY <1>5
  <2> HIDE DEF c
  <2>5. c \in 1 .. n /\ c - 1 \in 0 .. n - 1 /\ (c - 1) + 1 = c
    BY <1>1, <1>7, <2>3
  <2> QED
    BY <2>3, <2>4, <2>5
<1>10. DOMAIN ids = DOMAIN labels
  BY <1>5
<1> QED
  BY <1>1, <1>3, <1>7, <1>8, <1>9, <1>10 DEF L, n, names, ids

-----------------------------------------------------------------------------
(* Recipes. *)

\* The steps of a recipe and those that have a state are lists of steps; a
\* model has a state.
LEMMA RecipeSteps ==
  ASSUME NEW recipe \in Documents, ReadsRecipe(recipe)
  PROVE  LET steps == Steps(recipe)
             q == Stateful(steps)
         IN  /\ IsSequence(q)
             /\ \A i \in DOMAIN q : q[i] = [method |-> q[i].method, params |-> q[i].params]
             /\ NativeAccepts(steps) => q # <<>>
<1> DEFINE items == recipe.at["pipeline"].items
           steps == Steps(recipe)
           q == Stateful(steps)
           S == {steps[i] : i \in DOMAIN steps}
<1>1. IsSequence(items)
  BY DocumentsAssumption DEF ReadsRecipe, Documents, IsSequence
<1>2. Len(items) \in Nat /\ DOMAIN items = 1 .. Len(items)
  BY <1>1, SequenceIs
<1>3. steps = [i \in DOMAIN items |-> RecipeStep(items[i])]
  BY DEF Steps
<1> HIDE DEF items, steps
<1>4. IsSequence(steps)
  <2>1. steps = [i \in 1 .. Len(items) |-> steps[i]]
    BY <1>2, <1>3
  <2> QED
    BY <1>2, <2>1, IsASequence
<1>5. \A i \in DOMAIN steps :
        steps[i] = [method |-> steps[i].method, params |-> steps[i].params]
  BY <1>3 DEF RecipeStep
<1>6. q \in Seq(S) /\ (steps # <<>> /\ Catalogue[steps[Len(steps)].method].stateful => q # <<>>)
  BY <1>4, StatefulIs
<1>7. IsSequence(q)
  BY <1>6, Sequenced
<1>8. \A i \in DOMAIN q : q[i] \in S
  BY <1>6, ElementOfSeq, LenProperties
<1>9. \A i \in DOMAIN q : q[i] = [method |-> q[i].method, params |-> q[i].params]
  <2> HIDE DEF q
  <2> QED
    BY <1>5, <1>8
<1>10. NativeAccepts(steps) => q # <<>>
  <2> SUFFICES ASSUME NativeAccepts(steps) PROVE q # <<>>
    OBVIOUS
  <2>1. /\ steps # <<>> /\ Role(steps[Len(steps)]) \in {"regressor", "classifier"}
        /\ \A i \in DOMAIN steps : steps[i].method \in Capabilities
    BY DEF NativeAccepts
  <2>2. steps[Len(steps)].method \in Resolvable
    BY <1>4, <2>1, SequenceIs DEF Capabilities
  <2>3. Catalogue[steps[Len(steps)].method].stateful
    BY <2>1, <2>2, CatalogueAssumption DEF Role
  <2> QED
    BY <1>6, <2>1, <2>3
<1> QED
  BY <1>7, <1>9, <1>10 DEF steps

\* The ids and the table of a target: ids are numbers, and each id of a label
\* stands for that label in the table.
LEMMA TargetIs ==
  ASSUME NEW target \in Targets, target.kind = "labels" => target.labels # <<>>
  PROVE  /\ ToSet(Ids(target)) \subseteq Int
         /\ target.kind # "labels" =>
              /\ Table(target) = None
              /\ \A id \in ToSet(Ids(target)) : Meaning(target)[id] = id
         /\ target.kind = "labels" =>
              /\ Table(target) # None
              /\ IsTable(Table(target)) /\ ReadsTable(Table(target))
              /\ \A id \in ToSet(Ids(target)) :
                   /\ id >= 0 /\ id < Len(Table(target))
                   /\ Table(target)[id + 1] = Meaning(target)[id]
<1>0. target.labels \in Seq(Int)
  BY DocumentsAssumption
<1>1. CASE target.kind # "labels"
  <2>1. Ids(target) \in Seq(Int)
    BY <1>0, <1>1, EmptySeq DEF Ids
  <2>2. ToSet(Ids(target)) \subseteq Int
    BY <2>1, ElementOfSeq DEF ToSet
  <2>3. Table(target) = None /\ \A id \in ToSet(Ids(target)) : Meaning(target)[id] = id
    BY <1>1 DEF Table, Meaning
  <2> QED
    BY <1>1, <2>2, <2>3
<1>2. CASE target.kind = "labels"
  <2> DEFINE labels == target.labels
             n == Cardinality(ToSet(labels))
             sorted == SortedNames(labels)
             ids == Encode(labels)
             table == Table(target)
  <2>1. /\ n \in Nat /\ n # 0
        /\ sorted \in [1 .. n -> ToSet(labels)] /\ IsInjective(sorted)
        /\ DOMAIN ids = DOMAIN labels
        /\ \A i \in DOMAIN labels : ids[i] \in 0 .. n - 1 /\ sorted[ids[i] + 1] = labels[i]
    BY <1>0, <1>2, Encoding
  <2>2. Ids(target) = ids
    BY <1>2 DEF Ids
  <2>3. table = [k \in DOMAIN sorted |-> Name(sorted[k])]
    BY <1>2 DEF Table
  <2>4. \A id \in ToSet(ids) : \E i \in DOMAIN labels :
          ids[i] = id /\ Meaning(target)[id] = Name(labels[i])
    <3> TAKE id \in ToSet(ids)
    <3> DEFINE row == CHOOSE i \in DOMAIN ids : ids[i] = id
    <3>1. row \in DOMAIN ids /\ ids[row] = id
      BY DEF ToSet
    <3>2. Meaning(target)[id] = Name(labels[row])
      BY <1>2, <2>2 DEF Meaning
    <3> HIDE DEF row, ids
    <3> QED
      BY <2>1, <3>1, <3>2
  <2>5. \A k \in 1 .. n : Name(sorted[k]) # None
    <3> TAKE k \in 1 .. n
    <3>1. PICK i \in DOMAIN labels : sorted[k] = labels[i]
      BY <2>1 DEF ToSet
    <3> QED
      BY <3>1, NoneAssumption
  <2> HIDE DEF labels, n, sorted, ids, table
  <2>6. IsSequence(table) /\ Len(table) = n /\ DOMAIN table = 1 .. n
    BY <2>1, <2>3, IsASequence
  <2>7. IsTable(table)
    BY <2>1, <2>3, <2>5, <2>6 DEF IsTable
  <2>8. ReadsTable(table)
    <3>1. \A k \in DOMAIN table : table[k].k = "name" /\ table[k].v = sorted[k]
      BY <2>1, <2>3 DEF Name
    <3>2. IsInjective(table)
      BY <2>1, <2>6, <3>1 DEF IsInjective
    <3>3. 1 \in DOMAIN table
      BY <2>1, <2>6
    <3>4. table # <<>>
      BY <2>1, <2>6, EmptySeq
    <3> QED
      BY <3>1, <3>2, <3>3, <3>4 DEF ReadsTable
  <2>9. ASSUME NEW id \in ToSet(ids)
        PROVE  /\ id \in Int /\ id >= 0 /\ id < n
               /\ table[id + 1] = Meaning(target)[id]
    <3>1. PICK i \in DOMAIN labels : ids[i] = id /\ Meaning(target)[id] = Name(labels[i])
      BY <2>4
    <3>2. id \in 0 .. n - 1 /\ sorted[id + 1] = labels[i]
      BY <2>1, <3>1
    <3>3. id + 1 \in 1 .. n
      BY <2>1, <3>2
    <3> QED
      BY <2>1, <2>3, <3>1, <3>2, <3>3
  <2>10. table # None
    <3> DEFINE entries == {table[k] : k \in DOMAIN table}
               T == [k : {"name"}, v : Int]
    <3>1. entries \subseteq T
      <4>1. \A k \in 1 .. n : sorted[k] \in Int
        BY <1>0, <2>1, ElementOfSeq DEF ToSet, labels
      <4> QED
        BY <2>3, <2>6, <4>1 DEF Name
    <3>2. table \in Seq(entries)
      BY <2>6 DEF IsSequence
    <3>3. None \notin Seq(T)
      BY NoneAssumption
    <3> HIDE DEF entries, T
    <3> QED
      BY <3>1, <3>2, <3>3, SeqMonotonic
  <2> QED
    BY <1>2, <2>2, <2>6, <2>7, <2>8, <2>9, <2>10 DEF table
<1> QED
  BY <1>1, <1>2

-----------------------------------------------------------------------------
(* Pipelines. *)

\* What the fields of a fitted pipeline are.
LEMMA FittedFields ==
  ASSUME NEW recipe, NEW states, NEW names, NEW table, NEW genuine,
         NEW p, p = Fitted(recipe, states, names, table, genuine)
  PROVE  /\ p = [recipe |-> p.recipe, states |-> p.states, n_features |-> p.n_features,
                 feature_names |-> p.feature_names, classifier |-> p.classifier,
                 class_names |-> p.class_names, genuine |-> p.genuine]
         /\ p.recipe = recipe /\ p.states = states /\ p.class_names = table
         /\ p.n_features = states[Len(states)].width
         /\ p.feature_names = IF names = <<>> THEN None ELSE names
         /\ p.classifier = Classifies(Steps(recipe)) /\ p.genuine = genuine
  BY DEF Fitted

\* What fit_recipe makes is a pipeline.
LEMMA FitIs ==
  ASSUME NEW recipe \in Recipes, NEW target \in Targets, NEW names \in Columns \cup {None},
         ReadsRecipe(recipe), NativeAccepts(Steps(recipe)), Suits(Steps(recipe), target),
         NEW kept \in Filtered(Steps(recipe), ToSet(Ids(target)))
  PROVE  IsPipeline(Fitted(recipe, States(Steps(recipe), kept, Meaning(target)), names,
                           Table(target), TRUE))
<1> DEFINE steps == Steps(recipe)
           q == Stateful(steps)
           states == States(steps, kept, Meaning(target))
           p == Fitted(recipe, states, names, Table(target), TRUE)
           last == Len(states)
<1>1. /\ IsSequence(q) /\ q # <<>>
      /\ \A i \in DOMAIN q : q[i] = [method |-> q[i].method, params |-> q[i].params]
  BY RecipeSteps DEF Documents
<1>2. /\ states = [i \in DOMAIN q |-> states[i]]
      /\ \A i \in DOMAIN q :
           /\ states[i] = [method |-> states[i].method, params |-> states[i].params,
                           keeps |-> states[i].keeps, width |-> states[i].width,
                           classes |-> states[i].classes, meaning |-> states[i].meaning]
           /\ states[i].method = q[i].method /\ states[i].params = q[i].params
           /\ states[i].width = Width /\ states[i].meaning = Meaning(target)
           /\ states[i].classes = IF i = Len(q) THEN kept ELSE {}
  BY DEF States
<1>3. /\ p = [recipe |-> p.recipe, states |-> p.states, n_features |-> p.n_features,
              feature_names |-> p.feature_names, classifier |-> p.classifier,
              class_names |-> p.class_names, genuine |-> p.genuine]
      /\ p.recipe = recipe /\ p.states = states /\ p.class_names = Table(target)
      /\ p.n_features = states[last].width
      /\ p.feature_names = IF names = <<>> THEN None ELSE names
      /\ p.classifier = Classifies(steps) /\ p.genuine = TRUE
  <2> HIDE DEF states, steps
  <2> QED
    BY DEF Fitted, steps
<1>4. kept \subseteq ToSet(Ids(target))
  BY DEF Filtered
<1>5. target.kind = "labels" => target.labels # <<>>
  BY DEF Suits
<1>6. target.kind = "labels" => Classifies(steps)
  BY DEF Suits
<1>7. /\ ToSet(Ids(target)) \subseteq Int
      /\ target.kind # "labels" =>
           /\ Table(target) = None
           /\ \A id \in ToSet(Ids(target)) : Meaning(target)[id] = id
      /\ target.kind = "labels" =>
           /\ Table(target) # None
           /\ IsTable(Table(target)) /\ ReadsTable(Table(target))
           /\ \A id \in ToSet(Ids(target)) :
                /\ id >= 0 /\ id < Len(Table(target))
                /\ Table(target)[id + 1] = Meaning(target)[id]
  BY <1>5, TargetIs
<1> HIDE DEF steps, q, states, p
<1>8. /\ IsSequence(states) /\ last = Len(q) /\ DOMAIN states = DOMAIN q
      /\ last \in DOMAIN states /\ states # <<>>
  <2>1. Len(q) \in Nat /\ DOMAIN q = 1 .. Len(q) /\ Len(q) \in DOMAIN q
    BY <1>1, SequenceIs
  <2>2. IsSequence(states) /\ Len(states) = Len(q)
    BY <1>2, <2>1, IsASequence
  <2>3. DOMAIN states = DOMAIN q
    BY <1>2
  <2> QED
    BY <2>1, <2>2, <2>3, EmptySeq
<1>9. Final(p) = states[last]
  BY <1>3 DEF Final
<1>10. Shaped(p)
  <2>1. \A i \in DOMAIN states : IsState(states[i])
    BY <1>2, <1>4, <1>7, <1>8 DEF IsState
  <2>2. p.classifier \in BOOLEAN /\ p.genuine \in BOOLEAN
    BY <1>3 DEF Classifies
  <2> QED
    BY <1>3, <1>8, <2>1, <2>2, Zenon DEF Shaped
<1>11. OfRecipe(p)
  <2>1. Signature(states) = q
    <3>1. Signature(states) = [i \in DOMAIN q |-> [method |-> q[i].method, params |-> q[i].params]]
      BY <1>2, <1>8 DEF Signature
    <3>2. q = [i \in DOMAIN q |-> q[i]]
      BY <1>1, SequenceIs
    <3> QED
      BY <1>1, <3>1, <3>2
  <2> QED
    BY <1>3, <2>1, Zenon DEF OfRecipe, Documents, steps, q
<1>12. Sized(p)
  <2>1. \A i \in DOMAIN states : states[i].width = Width
    BY <1>2, <1>8
  <2>2. p.n_features = Width /\ Width > 0
    BY <1>3, <1>8, <2>1, CatalogueAssumption
  <2>3. p.feature_names # Malformed
    BY <1>3, NoneAssumption
  <2>4. p.feature_names = IF p.feature_names = <<>> THEN None ELSE p.feature_names
    BY <1>3
  <2> QED
    BY <1>3, <2>1, <2>2, <2>3, <2>4 DEF Sized
<1>13. states[last].classes = kept /\ states[last].meaning = Meaning(target)
  BY <1>2, <1>8
<1>14. Labelling(p)
  <2>1. CASE target.kind # "labels"
    BY <1>3, <1>7, <2>1 DEF Labelling
  <2>2. CASE target.kind = "labels"
    <3>1. Labelled(kept, Table(target))
      BY <1>4, <1>7, <2>2 DEF Labelled
    <3>2. p.classifier
      BY <1>3, <1>6, <2>2, Zenon
    <3> QED
      BY <1>3, <1>7, <1>9, <1>13, <2>2, <3>1, <3>2 DEF Labelling
  <2> QED
    BY <2>1, <2>2
<1>15. Meant(p)
  <2> SUFFICES ASSUME NEW id \in Final(p).classes
               PROVE  Served(p, id) = Final(p).meaning[id]
    BY DEF Meant
  <2>1. id \in ToSet(Ids(target)) /\ Final(p).meaning = Meaning(target) /\ id \in Int
    BY <1>4, <1>7, <1>9, <1>13
  <2>2. CASE target.kind # "labels"
    BY <1>3, <1>7, <2>1, <2>2 DEF Served
  <2>3. CASE target.kind = "labels"
    <3>1. id + 1 \in DOMAIN Table(target)
      <4>1. IsSequence(Table(target))
        BY <1>7, <2>3 DEF IsTable
      <4>2. Len(Table(target)) \in Nat /\ DOMAIN Table(target) = 1 .. Len(Table(target))
        BY <4>1, SequenceIs
      <4> QED
        BY <1>7, <2>1, <2>3, <4>2
    <3>2. Table(target) # None
      BY <1>7, <2>3
    <3> QED
      BY <1>3, <1>7, <2>1, <2>3, <3>1, <3>2 DEF Served
  <2> QED
    BY <2>2, <2>3
<1> QED
  BY <1>10, <1>11, <1>12, <1>14, <1>15 DEF IsPipeline, p, states, steps

-----------------------------------------------------------------------------
(* Envelopes. *)

\* What an accepted document gives is a pipeline, but for what its labels
\* mean; its flags are true, and it has training rows only if they are allowed.
LEMMA LoadIs ==
  ASSUME NEW e, IsEnvelope(e), ReadsEnvelope(e), ReadsRecipe(e.recipe),
         NativeAccepts(Steps(e.recipe)),
         NativeImports(Steps(e.recipe), Payloads(e), e.feature_names),
         Consistent(e, Steps(e.recipe)),
         NEW genuine \in BOOLEAN,
         NEW p, p = Fitted(e.recipe, Payloads(e), e.feature_names,
                           e.states[Len(e.states)].class_names, genuine)
  PROVE  /\ Shaped(p) /\ OfRecipe(p) /\ Sized(p) /\ Labelling(p)
         /\ \A i \in DOMAIN e.states :
              /\ e.states[i].contains_training_rows \in {None, p.states[i].keeps}
              /\ p.states[i].keeps => e.allowed
<1> DEFINE steps == Steps(e.recipe)
           q == Stateful(steps)
           states == Payloads(e)
           last == Len(e.states)
           table == e.states[last].class_names
<1>1. /\ IsSequence(q) /\ q # <<>>
      /\ \A i \in DOMAIN q : q[i] = [method |-> q[i].method, params |-> q[i].params]
  BY RecipeSteps DEF IsEnvelope
<1>2. /\ IsSequence(e.states) /\ e.recipe \in Documents
      /\ \A i \in DOMAIN e.states :
           /\ IsState(e.states[i].payload) /\ (e.states[i].payload.keeps => e.allowed)
           /\ e.states[i].class_names # None => IsTable(e.states[i].class_names)
  BY DEF IsEnvelope, IsEntry
<1>3. states = [i \in DOMAIN e.states |-> e.states[i].payload]
  BY DEF Payloads
<1>4. /\ Len(states) = Len(q)
      /\ \A i \in DOMAIN states :
           /\ states[i].method = q[i].method /\ states[i].params = q[i].params
           /\ states[i].width = states[1].width
  BY DEF NativeImports
<1>5. /\ \A i \in DOMAIN e.states :
           e.states[i].contains_training_rows \in {None, e.states[i].payload.keeps}
      /\ e.n_features = e.states[1].payload.width
      /\ table # None =>
           Classifies(steps) /\ Labelled(e.states[last].payload.classes, table)
  BY DEF Consistent
<1>6. /\ e.n_features > 0 /\ e.feature_names # Malformed
      /\ (e.states # <<>> /\ table # None) => ReadsTable(table)
  BY DEF ReadsEnvelope
<1>7. /\ p = [recipe |-> p.recipe, states |-> p.states, n_features |-> p.n_features,
              feature_names |-> p.feature_names, classifier |-> p.classifier,
              class_names |-> p.class_names, genuine |-> p.genuine]
      /\ p.recipe = e.recipe /\ p.states = states /\ p.class_names = table
      /\ p.n_features = states[Len(states)].width
      /\ p.feature_names = IF e.feature_names = <<>> THEN None ELSE e.feature_names
      /\ p.classifier = Classifies(steps) /\ p.genuine = genuine
  BY FittedFields
<1> HIDE DEF steps, q, states, table
<1>8. /\ IsSequence(states) /\ Len(states) = last /\ DOMAIN states = DOMAIN e.states
      /\ DOMAIN q = DOMAIN states /\ states # <<>> /\ e.states # <<>>
      /\ last \in DOMAIN states /\ 1 \in DOMAIN states
  <2>1. last \in Nat /\ DOMAIN e.states = 1 .. last
    BY <1>2, SequenceIs
  <2>2. states = [i \in 1 .. last |-> states[i]]
    BY <1>3, <2>1
  <2>3. IsSequence(states) /\ Len(states) = last
    BY <2>1, <2>2, IsASequence
  <2>4. Len(q) = last /\ DOMAIN q = 1 .. Len(q) /\ Len(q) \in DOMAIN q /\ 1 \in DOMAIN q
    BY <1>1, <1>4, <2>3, SequenceIs
  <2> QED
    BY <2>1, <2>2, <2>3, <2>4, EmptySeq
<1>9. \A i \in DOMAIN states : states[i] = e.states[i].payload
  BY <1>3
<1>10. Final(p) = states[last]
  BY <1>7, <1>8 DEF Final
<1>11. Shaped(p)
  <2>1. \A i \in DOMAIN states : IsState(states[i])
    BY <1>2, <1>8, <1>9
  <2>2. p.classifier \in BOOLEAN
    BY <1>7 DEF Classifies
  <2> QED
    BY <1>7, <1>8, <2>1, <2>2, Zenon DEF Shaped
<1>12. OfRecipe(p)
  <2>1. Signature(states) = q
    <3>1. Signature(states) = [i \in DOMAIN q |-> [method |-> q[i].method, params |-> q[i].params]]
      BY <1>4, <1>8 DEF Signature
    <3>2. q = [i \in DOMAIN q |-> q[i]]
      BY <1>1, SequenceIs
    <3> QED
      BY <1>1, <3>1, <3>2
  <2> QED
    BY <1>2, <1>7, <2>1, Zenon DEF OfRecipe, steps, q
<1>13. Sized(p)
  <2>1. \A i \in DOMAIN states : states[i].width = e.n_features
    BY <1>4, <1>5, <1>8, <1>9
  <2>2. p.n_features = e.n_features
    BY <1>7, <1>8, <2>1
  <2>3. p.feature_names # Malformed
    BY <1>6, <1>7, NoneAssumption
  <2>4. p.feature_names = IF p.feature_names = <<>> THEN None ELSE p.feature_names
    BY <1>7
  <2> QED
    BY <1>6, <1>7, <2>1, <2>2, <2>3, <2>4 DEF Sized
<1>14. Labelling(p)
  <2> SUFFICES ASSUME table # None
               PROVE  /\ p.classifier /\ IsTable(table) /\ ReadsTable(table)
                      /\ Labelled(states[last].classes, table)
    BY <1>7, <1>10 DEF Labelling
  <2>1. p.classifier
    BY <1>5, <1>7, Zenon
  <2>2. IsTable(table)
    BY <1>2, <1>8 DEF table
  <2> QED
    BY <1>5, <1>6, <1>8, <1>9, <2>1, <2>2
<1>15. \A i \in DOMAIN e.states :
         /\ e.states[i].contains_training_rows \in {None, p.states[i].keeps}
         /\ p.states[i].keeps => e.allowed
  BY <1>2, <1>5, <1>7, <1>8, <1>9
<1> QED
  BY <1>11, <1>12, <1>13, <1>14, <1>15

\* A document with what a pipeline has, under these column names.
Carries(e, p, names) ==
  /\ e.schema = 8 /\ e.recipe = p.recipe /\ e.n_features = p.n_features
  /\ e.feature_names = names
  /\ e.states = [i \in DOMAIN p.states |-> e.states[i]]
  /\ \A i \in DOMAIN p.states :
       /\ e.states[i].method_id = p.states[i].method
       /\ e.states[i].payload = p.states[i] /\ e.states[i].sha256 = p.states[i]
       /\ e.states[i].contains_training_rows \in {None, p.states[i].keeps}
       /\ e.states[i].class_names = IF i = Len(p.states) THEN p.class_names ELSE None

\* The fields of a document.
LEMMA DocumentFields ==
  ASSUME NEW p, NEW allow, NEW d, d = Document(p, allow)
  PROVE  /\ d = [schema |-> d.schema, recipe |-> d.recipe, n_features |-> d.n_features,
                 feature_names |-> d.feature_names, allowed |-> d.allowed,
                 states |-> d.states]
         /\ d.allowed = allow /\ Carries(d, p, p.feature_names)
         /\ \A i \in DOMAIN p.states :
              d.states[i] = [method_id |-> d.states[i].method_id,
                             payload |-> d.states[i].payload, sha256 |-> d.states[i].sha256,
                             contains_training_rows |-> d.states[i].contains_training_rows,
                             class_names |-> d.states[i].class_names]
<1> DEFINE entry(i) == Entry(p.states[i], IF i = Len(p.states) THEN p.class_names ELSE None)
           entries == [i \in DOMAIN p.states |-> entry(i)]
<1>1. \A i \in DOMAIN p.states :
        /\ entry(i) = [method_id |-> entry(i).method_id,
                       payload |-> entry(i).payload, sha256 |-> entry(i).sha256,
                       contains_training_rows |-> entry(i).contains_training_rows,
                       class_names |-> entry(i).class_names]
        /\ entry(i).method_id = p.states[i].method
        /\ entry(i).payload = p.states[i] /\ entry(i).sha256 = p.states[i]
        /\ entry(i).contains_training_rows = p.states[i].keeps
        /\ entry(i).class_names = IF i = Len(p.states) THEN p.class_names ELSE None
  BY DEF Entry
<1> HIDE DEF entry
<1>2. \A i \in DOMAIN p.states : entries[i] = entry(i)
  OBVIOUS
<1>3. entries = [i \in DOMAIN p.states |-> entries[i]]
  OBVIOUS
<1>4. /\ d.schema = 8 /\ d.recipe = p.recipe /\ d.n_features = p.n_features
      /\ d.feature_names = p.feature_names /\ d.allowed = allow /\ d.states = entries
      /\ d = [schema |-> d.schema, recipe |-> d.recipe, n_features |-> d.n_features,
              feature_names |-> d.feature_names, allowed |-> d.allowed, states |-> d.states]
  BY DEF Document, entry
<1> HIDE DEF entries
<1>5. Carries(d, p, p.feature_names)
  <2>1. \A i \in DOMAIN p.states :
          /\ entries[i].method_id = p.states[i].method
          /\ entries[i].payload = p.states[i] /\ entries[i].sha256 = p.states[i]
          /\ entries[i].contains_training_rows \in {None, p.states[i].keeps}
          /\ entries[i].class_names = IF i = Len(p.states) THEN p.class_names ELSE None
    BY <1>1, <1>2
  <2> QED
    BY <1>3, <1>4, <2>1 DEF Carries
<1>6. \A i \in DOMAIN p.states :
        d.states[i] = [method_id |-> d.states[i].method_id,
                       payload |-> d.states[i].payload, sha256 |-> d.states[i].sha256,
                       contains_training_rows |-> d.states[i].contains_training_rows,
                       class_names |-> d.states[i].class_names]
  BY <1>1, <1>2, <1>4
<1> QED
  BY <1>4, <1>5, <1>6

\* The document of a pipeline is an envelope, if what it keeps is allowed.
LEMMA DocumentIs ==
  ASSUME NEW p, IsPipeline(p), NEW allow, \A i \in DOMAIN p.states : p.states[i].keeps => allow,
         NEW d, d = Document(p, allow)
  PROVE  IsEnvelope(d) /\ d.allowed = allow /\ Carries(d, p, p.feature_names)
<1>1. /\ d = [schema |-> d.schema, recipe |-> d.recipe, n_features |-> d.n_features,
              feature_names |-> d.feature_names, allowed |-> d.allowed, states |-> d.states]
      /\ d.allowed = allow /\ Carries(d, p, p.feature_names)
      /\ \A i \in DOMAIN p.states :
           d.states[i] = [method_id |-> d.states[i].method_id,
                          payload |-> d.states[i].payload, sha256 |-> d.states[i].sha256,
                          contains_training_rows |-> d.states[i].contains_training_rows,
                          class_names |-> d.states[i].class_names]
  BY DocumentFields
<1>2. /\ IsSequence(p.states) /\ p.recipe \in Documents
      /\ \A i \in DOMAIN p.states : IsState(p.states[i])
      /\ p.class_names # None => IsTable(p.class_names)
  BY DEF IsPipeline, Shaped, OfRecipe, Labelling
<1>3. /\ d.recipe = p.recipe /\ d.states = [i \in DOMAIN p.states |-> d.states[i]]
      /\ \A i \in DOMAIN p.states :
           /\ d.states[i].payload = p.states[i]
           /\ d.states[i].class_names = IF i = Len(p.states) THEN p.class_names ELSE None
  BY <1>1 DEF Carries
<1>4. IsSequence(d.states) /\ DOMAIN d.states = DOMAIN p.states
  BY <1>2, <1>3, SequenceIs, IsASequence
<1>5. ASSUME NEW i \in DOMAIN d.states
      PROVE  IsEntry(d.states[i], d.allowed)
  BY <1>1, <1>2, <1>3, <1>4 DEF IsEntry
<1> QED
  BY <1>1, <1>2, <1>3, <1>4, <1>5 DEF IsEnvelope

\* An earlier version wrote the same document, without names and flags.
LEMMA OlderIs ==
  ASSUME NEW d, IsEnvelope(d), NEW o, o = Older(d)
  PROVE  /\ IsEnvelope(o) /\ o.allowed = d.allowed
         /\ \A p, names : Carries(d, p, names) => Carries(o, p, None)
<1>1. /\ d = [schema |-> d.schema, recipe |-> d.recipe, n_features |-> d.n_features,
              feature_names |-> d.feature_names, allowed |-> d.allowed, states |-> d.states]
      /\ d.recipe \in Documents /\ IsSequence(d.states)
      /\ \A i \in DOMAIN d.states : IsEntry(d.states[i], d.allowed)
  BY DEF IsEnvelope
<1> DEFINE entry(i) == [d.states[i] EXCEPT !.contains_training_rows = None]
           entries == [i \in DOMAIN d.states |-> entry(i)]
<1>2. /\ o = [schema |-> o.schema, recipe |-> o.recipe, n_features |-> o.n_features,
              feature_names |-> o.feature_names, allowed |-> o.allowed, states |-> o.states]
      /\ o.schema = d.schema /\ o.recipe = d.recipe /\ o.n_features = d.n_features
      /\ o.feature_names = None /\ o.allowed = d.allowed /\ o.states = entries
  <2>1. o = [d EXCEPT !.feature_names = None, !.states = entries]
    BY DEF Older
  <2> HIDE DEF entries
  <2> QED
    BY <1>1, <2>1
<1>3. ASSUME NEW i \in DOMAIN d.states
      PROVE  /\ entry(i) = [method_id |-> entry(i).method_id,
                            payload |-> entry(i).payload, sha256 |-> entry(i).sha256,
                            contains_training_rows |-> entry(i).contains_training_rows,
                            class_names |-> entry(i).class_names]
             /\ entry(i).method_id = d.states[i].method_id
             /\ entry(i).payload = d.states[i].payload
             /\ entry(i).sha256 = d.states[i].sha256
             /\ entry(i).contains_training_rows = None
             /\ entry(i).class_names = d.states[i].class_names
  <2> DEFINE x == d.states[i]
  <2>1. x = [method_id |-> x.method_id, payload |-> x.payload, sha256 |-> x.sha256,
             contains_training_rows |-> x.contains_training_rows,
             class_names |-> x.class_names]
    BY <1>1 DEF IsEntry
  <2> HIDE DEF x
  <2>2. entry(i) = [x EXCEPT !.contains_training_rows = None]
    BY DEF x
  <2> HIDE DEF entry
  <2> QED
    BY <2>1, <2>2 DEF x
<1> HIDE DEF entry
<1>4. /\ entries = [i \in DOMAIN d.states |-> entries[i]]
      /\ \A i \in DOMAIN d.states : entries[i] = entry(i)
  OBVIOUS
<1> HIDE DEF entries
<1>5. IsSequence(entries) /\ DOMAIN entries = DOMAIN d.states
  BY <1>1, <1>4, SequenceIs, IsASequence
<1>6. \A i \in DOMAIN entries : IsEntry(entries[i], o.allowed)
  BY <1>1, <1>2, <1>3, <1>4, <1>5 DEF IsEntry
<1>7. IsEnvelope(o)
  BY <1>1, <1>2, <1>5, <1>6 DEF IsEnvelope
<1>8. ASSUME NEW p, NEW names, Carries(d, p, names)
      PROVE  Carries(o, p, None)
  <2>1. DOMAIN d.states = DOMAIN p.states
    BY <1>8 DEF Carries
  <2>2. \A i \in DOMAIN p.states :
          /\ entries[i].method_id = p.states[i].method
          /\ entries[i].payload = p.states[i] /\ entries[i].sha256 = p.states[i]
          /\ entries[i].contains_training_rows = None
          /\ entries[i].class_names = IF i = Len(p.states) THEN p.class_names ELSE None
    <3>1. \A i \in DOMAIN p.states :
            /\ d.states[i].method_id = p.states[i].method
            /\ d.states[i].payload = p.states[i] /\ d.states[i].sha256 = p.states[i]
            /\ d.states[i].class_names = IF i = Len(p.states) THEN p.class_names ELSE None
      BY <1>8 DEF Carries
    <3> TAKE i \in DOMAIN p.states
    <3>2. i \in DOMAIN d.states /\ entries[i] = entry(i)
      BY <1>4, <2>1
    <3>3. /\ entry(i).method_id = d.states[i].method_id
          /\ entry(i).payload = d.states[i].payload
          /\ entry(i).sha256 = d.states[i].sha256
          /\ entry(i).contains_training_rows = None
          /\ entry(i).class_names = d.states[i].class_names
      BY <1>3, <3>2
    <3> QED
      BY <3>1, <3>2, <3>3
  <2>3. o.schema = 8 /\ o.recipe = p.recipe /\ o.n_features = p.n_features
    BY <1>2, <1>8 DEF Carries
  <2> QED
    BY <1>2, <1>4, <2>1, <2>2, <2>3 DEF Carries
<1> QED
  BY <1>2, <1>7, <1>8

\* A document with what a pipeline has is read, passes every check after
\* libn4m has taken its states, and gives the pipeline back.
LEMMA RoundTrip ==
  ASSUME NEW p, IsPipeline(p), NEW names \in {p.feature_names, None},
         NEW e, Carries(e, p, names)
  PROVE  /\ ReadsEnvelope(e) /\ ReadsRecipe(e.recipe)
         /\ NativeImports(Steps(e.recipe), Payloads(e), e.feature_names) =>
              Consistent(e, Steps(e.recipe))
         /\ Fitted(e.recipe, Payloads(e), e.feature_names,
                   e.states[Len(e.states)].class_names, p.genuine)
              = [p EXCEPT !.feature_names = names]
<1> DEFINE last == Len(p.states)
<1>1. /\ p = [recipe |-> p.recipe, states |-> p.states, n_features |-> p.n_features,
              feature_names |-> p.feature_names, classifier |-> p.classifier,
              class_names |-> p.class_names, genuine |-> p.genuine]
      /\ IsSequence(p.states) /\ p.states # <<>>
  BY DEF IsPipeline, Shaped
<1>2. ReadsRecipe(p.recipe) /\ p.classifier = Classifies(Steps(p.recipe))
  BY DEF IsPipeline, OfRecipe
<1>3. /\ p.n_features > 0 /\ p.feature_names # Malformed
      /\ \A i \in DOMAIN p.states : p.states[i].width = p.n_features
      /\ p.feature_names = IF p.feature_names = <<>> THEN None ELSE p.feature_names
  BY DEF IsPipeline, Sized
<1>4. p.class_names # None =>
        /\ p.classifier /\ ReadsTable(p.class_names)
        /\ Labelled(p.states[last].classes, p.class_names)
  BY DEF IsPipeline, Labelling, Final
<1>5. /\ e.schema = 8 /\ e.recipe = p.recipe /\ e.n_features = p.n_features
      /\ e.feature_names = names
      /\ e.states = [i \in DOMAIN p.states |-> e.states[i]]
      /\ \A i \in DOMAIN p.states :
           /\ e.states[i].method_id = p.states[i].method
           /\ e.states[i].payload = p.states[i] /\ e.states[i].sha256 = p.states[i]
           /\ e.states[i].contains_training_rows \in {None, p.states[i].keeps}
           /\ e.states[i].class_names = IF i = last THEN p.class_names ELSE None
  BY DEF Carries
<1>a. \A i \in DOMAIN p.states :
         /\ e.states[i].method_id = p.states[i].method
         /\ e.states[i].payload = p.states[i]
         /\ e.states[i].contains_training_rows \in {None, p.states[i].keeps}
  BY <1>5
<1>6. /\ last \in Nat /\ DOMAIN p.states = 1 .. last /\ last \in DOMAIN p.states
      /\ 1 \in DOMAIN p.states /\ p.states = [i \in DOMAIN p.states |-> p.states[i]]
  BY <1>1, SequenceIs
<1>7. Len(e.states) = last /\ DOMAIN e.states = DOMAIN p.states
  BY <1>5, <1>6, IsASequence
<1>8. Payloads(e) = p.states
  BY <1>5, <1>6, <1>7 DEF Payloads
<1>9. e.states[Len(e.states)].class_names = p.class_names
  BY <1>5, <1>6, <1>7
<1>10. ReadsEnvelope(e)
  <2>1. e.feature_names # Malformed
    BY <1>3, <1>5, NoneAssumption
  <2> QED
    BY <1>3, <1>4, <1>5, <1>7, <1>9, <2>1 DEF ReadsEnvelope
<1>11. ASSUME NativeImports(Steps(e.recipe), Payloads(e), e.feature_names)
       PROVE  Consistent(e, Steps(e.recipe))
  <2>1. \A i \in DOMAIN e.states :
          /\ e.states[i].method_id = Stateful(Steps(e.recipe))[i].method
          /\ e.states[i].contains_training_rows \in {None, e.states[i].payload.keeps}
    <3>1. \A i \in DOMAIN p.states : p.states[i].method = Stateful(Steps(e.recipe))[i].method
      BY <1>8, <1>11 DEF NativeImports
    <3> QED
      BY <1>7, <1>a, <3>1
  <2>2. e.n_features = e.states[1].payload.width
    <3>1. e.states[1].payload = p.states[1] /\ p.states[1].width = p.n_features
      BY <1>3, <1>6, <1>a
    <3> QED
      BY <1>5, <3>1
  <2>3. p.class_names # None =>
          Classifies(Steps(e.recipe)) /\ Labelled(e.states[last].payload.classes, p.class_names)
    <3>1. e.states[last].payload = p.states[last]
      BY <1>5, <1>6
    <3> QED
      BY <1>2, <1>4, <1>5, <3>1, Zenon
  <2> QED
    BY <1>7, <1>9, <2>1, <2>2, <2>3 DEF Consistent
<1>12. Fitted(e.recipe, Payloads(e), e.feature_names,
              e.states[Len(e.states)].class_names, p.genuine)
         = [p EXCEPT !.feature_names = names]
  <2> DEFINE f == Fitted(p.recipe, p.states, names, p.class_names, p.genuine)
  <2>1. /\ f = [recipe |-> f.recipe, states |-> f.states, n_features |-> f.n_features,
                feature_names |-> f.feature_names, classifier |-> f.classifier,
                class_names |-> f.class_names, genuine |-> f.genuine]
        /\ f.recipe = p.recipe /\ f.states = p.states /\ f.class_names = p.class_names
        /\ f.n_features = p.states[last].width
        /\ f.feature_names = IF names = <<>> THEN None ELSE names
        /\ f.classifier = Classifies(Steps(p.recipe)) /\ f.genuine = p.genuine
    BY FittedFields
  <2> HIDE DEF f
  <2>2. f.n_features = p.n_features /\ f.feature_names = names
    BY <1>3, <1>6, <2>1
  <2>3. f.classifier = p.classifier
    BY <1>2, <2>1, Zenon
  <2>4. f = [p EXCEPT !.feature_names = names]
    BY <1>1, <2>1, <2>2, <2>3
  <2> QED
    BY <1>5, <1>8, <1>9, <2>4 DEF f
<1> QED
  BY <1>2, <1>5, <1>10, <1>11, <1>12

-----------------------------------------------------------------------------
(* Changes of a document. *)

\* A document with another entry is an envelope.
LEMMA SetEntry ==
  ASSUME NEW e, IsEnvelope(e), NEW i \in DOMAIN e.states, NEW x, IsEntry(x, e.allowed)
  PROVE  IsEnvelope([e EXCEPT !.states[i] = x])
<1> DEFINE f == [e EXCEPT !.states[i] = x]
           entries == [e.states EXCEPT ![i] = x]
<1>1. /\ e = [schema |-> e.schema, recipe |-> e.recipe, n_features |-> e.n_features,
              feature_names |-> e.feature_names, allowed |-> e.allowed, states |-> e.states]
      /\ e.recipe \in Documents /\ IsSequence(e.states)
      /\ \A j \in DOMAIN e.states : IsEntry(e.states[j], e.allowed)
  BY DEF IsEnvelope
<1>2. f = [e EXCEPT !.states = entries]
  OBVIOUS
<1>3. /\ entries = [j \in DOMAIN e.states |-> entries[j]]
      /\ \A j \in DOMAIN e.states : entries[j] = IF j = i THEN x ELSE e.states[j]
  BY <1>1, SequenceIs
<1> HIDE DEF entries, f
<1>4. IsSequence(entries) /\ DOMAIN entries = DOMAIN e.states
  BY <1>1, <1>3, SequenceIs, IsASequence
<1>5. /\ f = [schema |-> f.schema, recipe |-> f.recipe, n_features |-> f.n_features,
              feature_names |-> f.feature_names, allowed |-> f.allowed, states |-> f.states]
      /\ f.recipe = e.recipe /\ f.allowed = e.allowed /\ f.states = entries
  BY <1>1, <1>2
<1>6. \A j \in DOMAIN entries : IsEntry(entries[j], f.allowed)
  BY <1>1, <1>3, <1>4, <1>5
<1>7. IsEnvelope(f)
  BY <1>1, <1>4, <1>5, <1>6 DEF IsEnvelope
<1> QED
  BY <1>7 DEF f

\* So is one with another field, if it is of the kind that field has.
LEMMA SetField ==
  ASSUME NEW e, IsEnvelope(e), NEW v
  PROVE  /\ IsEnvelope([e EXCEPT !.schema = v])
         /\ IsEnvelope([e EXCEPT !.n_features = v])
         /\ IsEnvelope([e EXCEPT !.feature_names = v])
         /\ v \in Documents => IsEnvelope([e EXCEPT !.recipe = v])
         /\ IsSequence(v) /\ (\A i \in DOMAIN v : IsEntry(v[i], e.allowed)) =>
              IsEnvelope([e EXCEPT !.states = v])
<1>1. /\ e = [schema |-> e.schema, recipe |-> e.recipe, n_features |-> e.n_features,
              feature_names |-> e.feature_names, allowed |-> e.allowed, states |-> e.states]
      /\ e.recipe \in Documents /\ IsSequence(e.states)
      /\ \A j \in DOMAIN e.states : IsEntry(e.states[j], e.allowed)
  BY DEF IsEnvelope
<1>2. IsEnvelope([e EXCEPT !.schema = v])
  BY <1>1 DEF IsEnvelope
<1>3. IsEnvelope([e EXCEPT !.n_features = v])
  BY <1>1 DEF IsEnvelope
<1>4. IsEnvelope([e EXCEPT !.feature_names = v])
  BY <1>1 DEF IsEnvelope
<1>5. v \in Documents => IsEnvelope([e EXCEPT !.recipe = v])
  BY <1>1 DEF IsEnvelope
<1>6. IsSequence(v) /\ (\A i \in DOMAIN v : IsEntry(v[i], e.allowed)) =>
        IsEnvelope([e EXCEPT !.states = v])
  BY <1>1 DEF IsEnvelope
<1> QED
  BY <1>2, <1>3, <1>4, <1>5, <1>6

\* What may become of an entry is an entry.
LEMMA ChangedEntry ==
  ASSUME NEW x, NEW allowed, IsEntry(x, allowed)
  PROVE  /\ IsEntry([x EXCEPT !.payload.width = @ + 1], allowed)
         /\ IsEntry([x EXCEPT !.payload.width = @ + 1, !.sha256.width = @ + 1], allowed)
         /\ IsEntry([x EXCEPT !.contains_training_rows = ~@], allowed)
         /\ \A token : IsEntry([x EXCEPT !.method_id = token], allowed)
         /\ \A table \in Tables \cup {None} : IsEntry([x EXCEPT !.class_names = table], allowed)
<1>1. /\ x = [method_id |-> x.method_id, payload |-> x.payload, sha256 |-> x.sha256,
              contains_training_rows |-> x.contains_training_rows,
              class_names |-> x.class_names]
      /\ IsState(x.payload) /\ (x.payload.keeps => allowed)
      /\ x.class_names # None => IsTable(x.class_names)
  BY DEF IsEntry
<1> DEFINE state == [x.payload EXCEPT !.width = @ + 1]
<1>2. IsState(state) /\ state.keeps = x.payload.keeps
  <2> DEFINE s == x.payload
  <2>1. /\ s = [method |-> s.method, params |-> s.params, keeps |-> s.keeps,
                width |-> s.width, classes |-> s.classes, meaning |-> s.meaning]
        /\ s.classes \subseteq Int
    BY <1>1 DEF IsState
  <2> HIDE DEF s
  <2>2. state = [s EXCEPT !.width = s.width + 1]
    BY DEF s
  <2> HIDE DEF state
  <2> QED
    BY <2>1, <2>2 DEF IsState, s
<1>3. [x EXCEPT !.payload.width = @ + 1] = [x EXCEPT !.payload = state]
  OBVIOUS
<1>4. \E digest : [x EXCEPT !.payload.width = @ + 1, !.sha256.width = @ + 1]
                    = [[x EXCEPT !.payload = state] EXCEPT !.sha256 = digest]
  BY <1>1
<1> HIDE DEF state
<1>5. IsEntry([x EXCEPT !.payload = state], allowed)
  BY <1>1, <1>2 DEF IsEntry
<1>6. ASSUME NEW digest
      PROVE  IsEntry([[x EXCEPT !.payload = state] EXCEPT !.sha256 = digest], allowed)
  <2> DEFINE y == [x EXCEPT !.payload = state]
  <2>1. IsEntry(y, allowed)
    BY <1>5
  <2> HIDE DEF y
  <2>2. /\ y = [method_id |-> y.method_id, payload |-> y.payload, sha256 |-> y.sha256,
                contains_training_rows |-> y.contains_training_rows,
                class_names |-> y.class_names]
        /\ IsState(y.payload) /\ (y.payload.keeps => allowed)
        /\ y.class_names # None => IsTable(y.class_names)
    BY <2>1 DEF IsEntry
  <2>3. IsEntry([y EXCEPT !.sha256 = digest], allowed)
    BY <2>2 DEF IsEntry
  <2> QED
    BY <2>3 DEF y
<1>7. \A flag : IsEntry([x EXCEPT !.contains_training_rows = flag], allowed)
  BY <1>1 DEF IsEntry
<1>8. IsEntry([x EXCEPT !.contains_training_rows = ~@], allowed)
  <2>1. \E flag : [x EXCEPT !.contains_training_rows = ~@]
                    = [x EXCEPT !.contains_training_rows = flag]
    OBVIOUS
  <2> QED
    BY <1>7, <2>1, Zenon
<1>9. \A token : IsEntry([x EXCEPT !.method_id = token], allowed)
  BY <1>1 DEF IsEntry
<1>10. ASSUME NEW table \in Tables \cup {None}
       PROVE  IsEntry([x EXCEPT !.class_names = table], allowed)
  <2>1. table # None => IsTable(table)
    BY DocumentsAssumption, NoneAssumption DEF IsTable, IsSequence
  <2> QED
    BY <1>1, <2>1 DEF IsEntry
<1> QED
  BY <1>3, <1>4, <1>5, <1>6, <1>8, <1>9, <1>10, Zenon

\* Every change of an envelope gives an envelope, and only an earlier version
\* leaves it what it was.
LEMMA ChangesAre ==
  ASSUME NEW e, IsEnvelope(e), e.states # <<>>, NEW c \in Changes(e)
  PROVE  /\ IsEnvelope(c[2]) /\ c[1] # "nothing"
         /\ c[1] = "older" => c[2] = Older(e)
<1> DEFINE last == Len(e.states)
           set(i, entry) == [e EXCEPT !.states[i] = entry]
           twice == Append(e.states, e.states[last])
           Good(d) == /\ IsEnvelope(d[2]) /\ d[1] # "nothing"
                      /\ d[1] = "older" => d[2] = Older(e)
<1>1. /\ IsSequence(e.states) /\ \A i \in DOMAIN e.states : IsEntry(e.states[i], e.allowed)
      /\ last \in DOMAIN e.states
  BY SequenceIs DEF IsEnvelope
<1>2. \A i \in DOMAIN e.states :
        /\ IsEntry([e.states[i] EXCEPT !.payload.width = @ + 1], e.allowed)
        /\ IsEntry([e.states[i] EXCEPT !.payload.width = @ + 1, !.sha256.width = @ + 1],
                   e.allowed)
        /\ IsEntry([e.states[i] EXCEPT !.contains_training_rows = ~@], e.allowed)
        /\ \A token : IsEntry([e.states[i] EXCEPT !.method_id = token], e.allowed)
        /\ \A table \in Tables \cup {None} :
             IsEntry([e.states[i] EXCEPT !.class_names = table], e.allowed)
  BY <1>1, ChangedEntry, Zenon
<1>3. \A i \in DOMAIN e.states : \A x : IsEntry(x, e.allowed) => IsEnvelope(set(i, x))
  BY SetEntry, Zenon
<1>4. Good(<<"older", Older(e)>>)
  BY OlderIs
<1>5. Good(<<"schema", [e EXCEPT !.schema = 7]>>)
  BY SetField
<1>6. Good(<<"states", [e EXCEPT !.states = <<>>]>>)
  <2>1. IsSequence(<<>>) /\ \A i \in DOMAIN << >> : FALSE
    BY EmptySeq DEF IsSequence
  <2>2. IsEnvelope([e EXCEPT !.states = <<>>])
    BY <2>1, SetField
  <2> QED
    BY <2>2
<1>7. Good(<<"states", [e EXCEPT !.states = Append(@, e.states[last])]>>)
  <2>1. IsSequence(twice) /\ \A i \in DOMAIN twice : IsEntry(twice[i], e.allowed)
    <3>1. /\ IsSequence(twice) /\ DOMAIN twice = 1 .. last + 1
          /\ \A i \in DOMAIN e.states : twice[i] = e.states[i]
          /\ twice[last + 1] = e.states[last]
      BY <1>1, Appended
    <3>2. last \in Nat /\ DOMAIN e.states = 1 .. last
      BY <1>1, SequenceIs
    <3> HIDE DEF twice, last
    <3>3. \A i \in 1 .. last + 1 : i \in 1 .. last \/ i = last + 1
      BY <3>2
    <3> QED
      BY <1>1, <3>1, <3>2, <3>3
  <2>2. IsEnvelope([e EXCEPT !.states = twice])
    <3> HIDE DEF twice
    <3> QED
      BY <2>1, SetField
  <2> QED
    BY <2>2
<1>8. \A n : Good(<<"n_features", [e EXCEPT !.n_features = n]>>)
  BY SetField
<1>9. \A names : Good(<<"names", [e EXCEPT !.feature_names = names]>>)
  BY SetField
<1>10. \A recipe \in Others : Good(<<"recipe", [e EXCEPT !.recipe = recipe]>>)
  BY SetField DEF Documents
<1>11. \A table \in Tables \cup {None} :
         Good(<<"table", set(last, [e.states[last] EXCEPT !.class_names = table])>>)
  <2> TAKE table \in Tables \cup {None}
  <2>1. IsEnvelope(set(last, [e.states[last] EXCEPT !.class_names = table]))
    BY <1>1, <1>2, <1>3, Zenon
  <2> HIDE DEF set
  <2> QED
    BY <2>1
<1>12. \A i \in DOMAIN e.states :
         /\ Good(<<"sha256", set(i, [e.states[i] EXCEPT !.payload.width = @ + 1])>>)
         /\ Good(<<"payload", set(i, [e.states[i] EXCEPT !.payload.width = @ + 1,
                                                         !.sha256.width = @ + 1])>>)
         /\ Good(<<"flag", set(i, [e.states[i] EXCEPT !.contains_training_rows = ~@])>>)
         /\ \A token : Good(<<"method", set(i, [e.states[i] EXCEPT !.method_id = token])>>)
  <2> TAKE i \in DOMAIN e.states
  <2> DEFINE width == [e.states[i] EXCEPT !.payload.width = @ + 1]
             both == [e.states[i] EXCEPT !.payload.width = @ + 1, !.sha256.width = @ + 1]
             flag == [e.states[i] EXCEPT !.contains_training_rows = ~@]
             method(token) == [e.states[i] EXCEPT !.method_id = token]
  <2>1. /\ IsEnvelope(set(i, width)) /\ IsEnvelope(set(i, both)) /\ IsEnvelope(set(i, flag))
        /\ \A token : IsEnvelope(set(i, method(token)))
    BY <1>2, <1>3, Zenon
  <2> HIDE DEF set, width, both, flag, method
  <2>2. /\ Good(<<"sha256", set(i, width)>>) /\ Good(<<"payload", set(i, both)>>)
        /\ Good(<<"flag", set(i, flag)>>)
        /\ \A token : Good(<<"method", set(i, method(token))>>)
    BY <2>1
  <2> QED
    BY <2>2 DEF width, both, flag, method
<1> HIDE DEF Good
<1>13. \/ c \in {<<"older", Older(e)>>, <<"schema", [e EXCEPT !.schema = 7]>>,
                 <<"states", [e EXCEPT !.states = <<>>]>>,
                 <<"states", [e EXCEPT !.states = Append(@, e.states[last])]>>}
       \/ \E n : c = <<"n_features", [e EXCEPT !.n_features = n]>>
       \/ \E names : c = <<"names", [e EXCEPT !.feature_names = names]>>
       \/ \E recipe \in Others : c = <<"recipe", [e EXCEPT !.recipe = recipe]>>
       \/ \E table \in Tables \cup {None} :
            c = <<"table", set(last, [e.states[last] EXCEPT !.class_names = table])>>
       \/ \E i \in DOMAIN e.states :
            \/ c = <<"sha256", set(i, [e.states[i] EXCEPT !.payload.width = @ + 1])>>
            \/ c = <<"payload", set(i, [e.states[i] EXCEPT !.payload.width = @ + 1,
                                                           !.sha256.width = @ + 1])>>
            \/ c = <<"flag", set(i, [e.states[i] EXCEPT !.contains_training_rows = ~@])>>
            \/ \E token : c = <<"method", set(i, [e.states[i] EXCEPT !.method_id = token])>>
  <2> DEFINE A == {<<"older", Older(e)>>, <<"schema", [e EXCEPT !.schema = 7]>>,
                   <<"states", [e EXCEPT !.states = <<>>]>>,
                   <<"states", [e EXCEPT !.states = Append(@, e.states[last])]>>}
             B == {<<"n_features", [e EXCEPT !.n_features = n]>> : n \in {0, Width + 1}}
             C == {<<"names", [e EXCEPT !.feature_names = names]>> :
                     names \in Columns \cup {Malformed, None}}
             D == {<<"recipe", [e EXCEPT !.recipe = recipe]>> : recipe \in Others}
             F == {<<"table", set(last, [e.states[last] EXCEPT !.class_names = table])>> :
                     table \in Tables \cup {None}}
             G(i) == {<<"sha256", set(i, [e.states[i] EXCEPT !.payload.width = @ + 1])>>,
                      <<"payload", set(i, [e.states[i] EXCEPT !.payload.width = @ + 1,
                                                              !.sha256.width = @ + 1])>>,
                      <<"flag", set(i, [e.states[i] EXCEPT !.contains_training_rows = ~@])>>}
                     \cup {<<"method", set(i, [e.states[i] EXCEPT !.method_id = token])>> :
                             token \in Resolvable}
  <2>1. Changes(e) = A \cup B \cup C \cup D \cup F \cup UNION {G(i) : i \in DOMAIN e.states}
    BY Zenon DEF Changes
  <2>2. c \in B => \E n : c = <<"n_features", [e EXCEPT !.n_features = n]>>
    BY Zenon
  <2>3. c \in C => \E names : c = <<"names", [e EXCEPT !.feature_names = names]>>
    BY Zenon
  <2>4. c \in D => \E recipe \in Others : c = <<"recipe", [e EXCEPT !.recipe = recipe]>>
    BY Zenon
  <2>5. c \in F => \E table \in Tables \cup {None} :
                     c = <<"table", set(last, [e.states[last] EXCEPT !.class_names = table])>>
    BY Zenon
  <2>6. \A i : c \in G(i) =>
          \/ c = <<"sha256", set(i, [e.states[i] EXCEPT !.payload.width = @ + 1])>>
          \/ c = <<"payload", set(i, [e.states[i] EXCEPT !.payload.width = @ + 1,
                                                         !.sha256.width = @ + 1])>>
          \/ c = <<"flag", set(i, [e.states[i] EXCEPT !.contains_training_rows = ~@])>>
          \/ \E token : c = <<"method", set(i, [e.states[i] EXCEPT !.method_id = token])>>
    BY Zenon
  <2>7. c \in UNION {G(i) : i \in DOMAIN e.states} => \E i \in DOMAIN e.states : c \in G(i)
    <3> HIDE DEF G
    <3> QED
      BY Zenon
  <2>8. c \in A \/ c \in B \/ c \in C \/ c \in D \/ c \in F
        \/ c \in UNION {G(i) : i \in DOMAIN e.states}
    <3> HIDE DEF A, B, C, D, F, G
    <3> QED
      BY <2>1
  <2> HIDE DEF B, C, D, F, G
  <2> QED
    BY <2>2, <2>3, <2>4, <2>5, <2>6, <2>7, <2>8, Zenon
<1>14. Good(c)
  <2> HIDE DEF last, set
  <2> QED
    BY <1>4, <1>5, <1>6, <1>7, <1>8, <1>9, <1>10, <1>11, <1>12, <1>13, Zenon
<1> QED
  BY <1>14 DEF Good


\* A pipeline serves each of its classes.
LEMMA AllServed ==
  ASSUME NEW p, IsPipeline(p), NEW id \in Final(p).classes
  PROVE  Served(p, id) # None
<1>1. id \in Int
  <2>1. IsState(Final(p))
    BY SequenceIs DEF IsPipeline, Shaped, Final
  <2> QED
    BY <2>1 DEF IsState
<1>2. CASE p.class_names = None
  BY <1>1, <1>2, NoneAssumption DEF Served
<1>3. CASE p.class_names # None
  <2>1. IsTable(p.class_names) /\ id >= 0 /\ id < Len(p.class_names)
    BY <1>3 DEF IsPipeline, Labelling, Labelled
  <2>2. id + 1 \in DOMAIN p.class_names
    BY <1>1, <2>1, SequenceIs DEF IsTable
  <2> QED
    BY <1>3, <2>1, <2>2 DEF Served, IsTable
<1> QED
  BY <1>2, <1>3

-----------------------------------------------------------------------------
(* The steps. *)

LEMMA ReplyIs ==
  ASSUME NEW o, NEW w, Reply(o, w)
  PROVE  reply'.op = o /\ reply'.why = w /\ (reply'.ok <=> w = None)
  BY DEF Reply

\* The reply of any operation but a load says nothing of a load.
LEMMA OtherReply ==
  ASSUME NEW o \in {"fit", "save", "predict", "edit"}, NEW w, w # "unlabelled", Reply(o, w)
  PROVE  ReplyInv'
  BY ReplyIs DEF ReplyInv

LEMMA InvInit == Init => Inv
<1> SUFFICES ASSUME Init PROVE Inv
  OBVIOUS
<1>1. reply.op = "none" /\ reply.why = None
  BY DEF Init
<1>2. ReplyInv
  BY <1>1, NoneAssumption DEF ReplyInv
<1> QED
  BY <1>2 DEF Init, Inv, PipelineInv, EnvelopeInv

LEMMA FitStep == Inv /\ FitRecipe => Inv'
<1> SUFFICES ASSUME Inv, FitRecipe PROVE Inv'
  OBVIOUS
<1>1. PICK recipe \in Recipes, target \in Targets, names \in Columns \cup {None} :
        \/ Reply("fit", "recipe") /\ UNCHANGED <<pipeline, envelope, source, edited, edits>>
        \/ Reply("fit", "native") /\ UNCHANGED <<pipeline, envelope, source, edited, edits>>
        \/ /\ ReadsRecipe(recipe)
           /\ NativeAccepts(Steps(recipe)) /\ Suits(Steps(recipe), target)
           /\ \E kept \in Filtered(Steps(recipe), ToSet(Ids(target))) :
                pipeline' = Fitted(recipe, States(Steps(recipe), kept, Meaning(target)), names,
                                   Table(target), TRUE)
           /\ Reply("fit", None)
           /\ UNCHANGED <<envelope, source, edited, edits>>
  BY Zenon DEF FitRecipe
<1>2. PipelineInv'
  <2>1. CASE UNCHANGED pipeline
    BY <2>1 DEF Inv, PipelineInv
  <2>2. CASE /\ ReadsRecipe(recipe)
             /\ NativeAccepts(Steps(recipe)) /\ Suits(Steps(recipe), target)
             /\ \E kept \in Filtered(Steps(recipe), ToSet(Ids(target))) :
                  pipeline' = Fitted(recipe, States(Steps(recipe), kept, Meaning(target)),
                                     names, Table(target), TRUE)
    <3>1. IsPipeline(pipeline')
      BY <2>2, FitIs, Zenon
    <3> QED
      BY <3>1 DEF PipelineInv
  <2> QED
    BY <1>1, <2>1, <2>2, Zenon
<1>3. EnvelopeInv'
  BY <1>1 DEF Inv, EnvelopeInv
<1>4. ReplyInv'
  <2>1. \E w \in {"recipe", "native", None} : Reply("fit", w)
    BY <1>1
  <2> QED
    BY <2>1, OtherReply, NoneAssumption
<1> QED
  BY <1>2, <1>3, <1>4 DEF Inv

LEMMA SaveStep == Inv /\ ToJson => Inv'
<1> SUFFICES ASSUME Inv, ToJson PROVE Inv'
  OBVIOUS
<1>1. pipeline # None /\ IsPipeline(pipeline) /\ UNCHANGED <<pipeline, edits>>
  BY DEF Inv, PipelineInv, ToJson
<1>2. PICK allow \in BOOLEAN :
        \/ Reply("save", "training rows") /\ UNCHANGED <<envelope, source, edited>>
        \/ /\ \A i \in DOMAIN pipeline.states : pipeline.states[i].keeps => allow
           /\ envelope' = Document(pipeline, allow) /\ source' = pipeline
           /\ edited' = "nothing" /\ Reply("save", None)
  BY DEF ToJson
<1>3. PipelineInv'
  BY <1>1 DEF PipelineInv
<1>4. EnvelopeInv'
  <2>1. CASE UNCHANGED <<envelope, source, edited>>
    BY <2>1 DEF Inv, EnvelopeInv
  <2>2. CASE /\ \A i \in DOMAIN pipeline.states : pipeline.states[i].keeps => allow
             /\ envelope' = Document(pipeline, allow) /\ source' = pipeline
             /\ edited' = "nothing"
    <3>1. IsEnvelope(envelope') /\ envelope'.allowed = allow
      BY <1>1, <2>2, DocumentIs
    <3> QED
      BY <1>1, <2>2, <3>1 DEF EnvelopeInv
  <2> QED
    BY <1>2, <2>1, <2>2
<1>5. ReplyInv'
  <2>1. \E w \in {"training rows", None} : Reply("save", w)
    BY <1>2
  <2> QED
    BY <2>1, OtherReply, NoneAssumption
<1> QED
  BY <1>3, <1>4, <1>5 DEF Inv

\* An untouched or historical document carries its pipeline.
LEMMA Carried ==
  ASSUME Inv, envelope # None, edited \in {"nothing", "older"}
  PROVE  Carries(envelope, source, IF edited = "nothing" THEN source.feature_names ELSE None)
<1> DEFINE d == Document(source, envelope.allowed)
<1>1. IsEnvelope(d) /\ envelope = IF edited = "nothing" THEN d ELSE Older(d)
  BY DEF Inv, EnvelopeInv
<1>2. Carries(d, source, source.feature_names)
  BY DocumentFields
<1>3. CASE edited = "nothing"
  BY <1>1, <1>2, <1>3
<1>4. CASE edited = "older"
  <2>1. Carries(Older(d), source, None)
    BY <1>1, <1>2, OlderIs, Zenon
  <2> QED
    BY <1>1, <1>4, <2>1
<1> QED
  BY <1>3, <1>4

\* Labels mean the same under other column names.
LEMMA MeantRenamed ==
  ASSUME NEW p, IsPipeline(p), NEW names
  PROVE  Meant([p EXCEPT !.feature_names = names])
<1> DEFINE r == [p EXCEPT !.feature_names = names]
<1>1. /\ p = [recipe |-> p.recipe, states |-> p.states, n_features |-> p.n_features,
              feature_names |-> p.feature_names, classifier |-> p.classifier,
              class_names |-> p.class_names, genuine |-> p.genuine]
      /\ Meant(p)
  BY DEF IsPipeline, Shaped
<1>2. /\ r.states = p.states /\ r.class_names = p.class_names
      /\ r.classifier = p.classifier /\ r.genuine = p.genuine
  BY <1>1
<1> HIDE DEF r
<1>3. Final(r) = Final(p) /\ \A id : Served(r, id) = Served(p, id)
  BY <1>2 DEF Final, Served
<1>4. Meant(r)
  BY <1>1, <1>2, <1>3, Zenon DEF Meant
<1> QED
  BY <1>4 DEF r

LEMMA LoadStep == Inv /\ FromJson => Inv'
<1> SUFFICES ASSUME Inv, FromJson PROVE Inv'
  OBVIOUS
<1> DEFINE e == envelope
           steps == Steps(e.recipe)
           table == e.states[Len(e.states)].class_names
           genuine == source.genuine /\ edited \in {"nothing", "older"}
           loaded == Fitted(e.recipe, Payloads(e), e.feature_names, table, genuine)
           plain == edited \in {"nothing", "older"}
           names == IF edited = "nothing" THEN source.feature_names ELSE None
<1>1. /\ e # None /\ IsEnvelope(e) /\ IsPipeline(source)
      /\ UNCHANGED <<envelope, source, edited, edits>>
  BY DEF Inv, EnvelopeInv, FromJson
<1>2. \/ /\ Reply("load", "format") /\ UNCHANGED pipeline
         /\ ~ (ReadsEnvelope(e) /\ ReadsRecipe(e.recipe))
      \/ Reply("load", "native") /\ UNCHANGED pipeline
      \/ /\ ReadsEnvelope(e) /\ ReadsRecipe(e.recipe)
         /\ NativeAccepts(steps) /\ NativeImports(steps, Payloads(e), e.feature_names)
         /\ \/ Consistent(e, steps) /\ pipeline' = loaded /\ Reply("load", None)
            \/ ~ Consistent(e, steps) /\ Reply("load", "format") /\ UNCHANGED pipeline
  BY Zenon DEF FromJson
<1>3. EnvelopeInv'
  BY <1>1 DEF Inv, EnvelopeInv
<1>4. plain => /\ ReadsEnvelope(e) /\ ReadsRecipe(e.recipe)
               /\ NativeImports(steps, Payloads(e), e.feature_names) => Consistent(e, steps)
               /\ Fitted(e.recipe, Payloads(e), e.feature_names, table, source.genuine)
                    = [source EXCEPT !.feature_names = names]
  <2> SUFFICES ASSUME plain
               PROVE  /\ ReadsEnvelope(e) /\ ReadsRecipe(e.recipe)
                      /\ NativeImports(steps, Payloads(e), e.feature_names) =>
                           Consistent(e, steps)
                      /\ Fitted(e.recipe, Payloads(e), e.feature_names, table, source.genuine)
                           = [source EXCEPT !.feature_names = names]
    OBVIOUS
  <2>1. Carries(e, source, names)
    BY <1>1, Carried
  <2>2. names \in {source.feature_names, None}
    OBVIOUS
  <2> HIDE DEF names
  <2> QED
    BY <1>1, <2>1, <2>2, RoundTrip, Zenon
<1>5. plain => genuine = source.genuine
  <2>1. source.genuine \in BOOLEAN
    BY <1>1 DEF IsPipeline, Shaped
  <2> QED
    BY <2>1
<1>6. CASE Reply("load", "format") /\ UNCHANGED pipeline /\ ~ plain
  <2>1. PipelineInv'
    BY <1>6 DEF Inv, PipelineInv
  <2>2. reply'.op = "load" /\ reply'.why = "format" /\ ~ reply'.ok
    BY <1>6, ReplyIs, NoneAssumption
  <2>3. ReplyInv'
    BY <1>1, <1>6, <2>2 DEF ReplyInv
  <2> QED
    BY <1>3, <2>1, <2>3 DEF Inv
<1>7. CASE Reply("load", "native") /\ UNCHANGED pipeline
  <2>1. PipelineInv'
    BY <1>7 DEF Inv, PipelineInv
  <2>2. reply'.op = "load" /\ reply'.why = "native" /\ ~ reply'.ok
    BY <1>7, ReplyIs, NoneAssumption
  <2>3. ReplyInv'
    BY <1>1, <2>2 DEF ReplyInv
  <2> QED
    BY <1>3, <2>1, <2>3 DEF Inv
<1>8. CASE /\ ReadsEnvelope(e) /\ ReadsRecipe(e.recipe)
           /\ NativeAccepts(steps) /\ NativeImports(steps, Payloads(e), e.feature_names)
           /\ Consistent(e, steps) /\ pipeline' = loaded /\ Reply("load", None)
  <2>1. /\ Shaped(pipeline') /\ OfRecipe(pipeline') /\ Sized(pipeline') /\ Labelling(pipeline')
        /\ \A i \in DOMAIN e.states :
             /\ e.states[i].contains_training_rows \in {None, pipeline'.states[i].keeps}
             /\ pipeline'.states[i].keeps => e.allowed
    <3>1. genuine \in BOOLEAN
      OBVIOUS
    <3> HIDE DEF genuine
    <3> QED
      BY <1>1, <1>8, <3>1, LoadIs, Zenon
  <2>2. plain => pipeline' = [source EXCEPT !.feature_names = names]
    <3> HIDE DEF genuine, names
    <3> QED
      BY <1>4, <1>5, <1>8
  <2>3. Meant(pipeline')
    <3>1. CASE plain
      <4>1. pipeline' = [source EXCEPT !.feature_names = names]
        BY <2>2, <3>1, Zenon
      <4>2. IsPipeline(source)
        BY <1>1
      <4> HIDE DEF names
      <4>3. Meant([source EXCEPT !.feature_names = names])
        BY <4>2, MeantRenamed, Zenon
      <4> QED
        BY <4>1, <4>3, Zenon
    <3>2. CASE ~ plain
      <4>1. pipeline'.genuine = genuine /\ ~ genuine
        BY <1>8, <3>2, FittedFields
      <4> QED
        BY <4>1 DEF Meant
    <3> QED
      BY <3>1, <3>2
  <2>4. PipelineInv'
    BY <2>1, <2>3 DEF PipelineInv, IsPipeline
  <2>5. reply'.op = "load" /\ reply'.why = None /\ reply'.ok
    BY <1>8, ReplyIs
  <2>6. plain => pipeline' = IF edited = "nothing" THEN source
                             ELSE [source EXCEPT !.feature_names = None]
    <3>1. source = [source EXCEPT !.feature_names = source.feature_names]
      BY <1>1 DEF IsPipeline, Shaped
    <3> QED
      BY <2>2, <3>1
  <2>7. ReplyInv'
    BY <1>1, <2>1, <2>5, <2>6, NoneAssumption DEF ReplyInv
  <2> QED
    BY <1>3, <2>4, <2>7 DEF Inv
<1> QED
  BY <1>2, <1>4, <1>6, <1>7, <1>8

LEMMA PredictStep == Inv /\ Predict => Inv'
<1> SUFFICES ASSUME Inv, Predict PROVE Inv'
  OBVIOUS
<1>1. /\ pipeline # None /\ IsPipeline(pipeline)
      /\ UNCHANGED <<pipeline, envelope, source, edited, edits>>
  BY DEF Inv, PipelineInv, Predict
<1>2. \A id \in Final(pipeline).classes : Served(pipeline, id) # None
  BY <1>1, AllServed
<1>3. \E w \in {"columns", "native", None} : Reply("predict", w)
  <2>1. \/ Reply("predict", "columns") \/ Reply("predict", "native")
        \/ Reply("predict", None)
        \/ \E id \in Final(pipeline).classes :
             Reply("predict", IF Served(pipeline, id) = None THEN "unlabelled" ELSE None)
    BY Zenon DEF Predict, Final
  <2> QED
    BY <1>2, <2>1
<1>4. PipelineInv' /\ EnvelopeInv'
  BY <1>1 DEF Inv, PipelineInv, EnvelopeInv
<1>5. ReplyInv'
  BY <1>3, OtherReply, NoneAssumption
<1> QED
  BY <1>4, <1>5 DEF Inv

LEMMA EditStep == Inv /\ Edit => Inv'
<1> SUFFICES ASSUME Inv, Edit PROVE Inv'
  OBVIOUS
<1>1. /\ envelope # None /\ edited = "nothing" /\ IsEnvelope(envelope) /\ IsPipeline(source)
      /\ UNCHANGED <<pipeline, source>> /\ Reply("edit", None)
  BY DEF Inv, EnvelopeInv, Edit
<1> PICK c \in Changes(envelope) : edited' = c[1] /\ envelope' = c[2]
  BY DEF Edit
<1> DEFINE d == Document(source, envelope.allowed)
<1>2. IsEnvelope(d) /\ envelope = d
  BY <1>1 DEF Inv, EnvelopeInv
<1>3. envelope.states # <<>>
  <2>1. Carries(envelope, source, source.feature_names)
    BY <1>1, Carried
  <2>2. IsSequence(source.states) /\ source.states # <<>>
    BY <1>1 DEF IsPipeline, Shaped
  <2>3. 1 \in DOMAIN envelope.states
    BY <2>1, <2>2, SequenceIs DEF Carries
  <2> QED
    BY <2>3, EmptySeq
<1>4. /\ IsEnvelope(envelope') /\ edited' # "nothing"
      /\ edited' = "older" => envelope' = Older(envelope)
  BY <1>1, <1>3, ChangesAre
<1>5. edited' = "older" => envelope'.allowed = envelope.allowed
  BY <1>1, <1>4, OlderIs
<1>6. EnvelopeInv'
  BY <1>1, <1>2, <1>4, <1>5 DEF EnvelopeInv
<1>7. PipelineInv'
  BY <1>1 DEF Inv, PipelineInv
<1>8. ReplyInv'
  BY <1>1, OtherReply, NoneAssumption
<1> QED
  BY <1>6, <1>7, <1>8 DEF Inv

-----------------------------------------------------------------------------
(* The theorems. *)

\* The inductive invariant holds in every reachable state.
THEOREM Invariance == Spec => []Inv
<1>1. Inv /\ [Next]_vars => Inv'
  <2>1. Inv /\ UNCHANGED vars => Inv'
    BY DEF vars, Inv, PipelineInv, EnvelopeInv, ReplyInv
  <2> QED
    BY <2>1, FitStep, SaveStep, LoadStep, PredictStep, EditStep DEF Next
<1> QED
  BY InvInit, <1>1, PTL DEF Spec

\* A pipeline survives its envelope: whatever was fitted, what to_json wrote is
\* read back as the pipeline it was, unless libn4m refuses, and every class is
\* still served as the label its rows had.
THEOREM Faithful == Spec => []EnvelopeFaithful
<1>1. Inv => EnvelopeFaithful
  <2> SUFFICES ASSUME Inv PROVE EnvelopeFaithful
    OBVIOUS
  <2>1. pipeline # None => Meant(pipeline)
    BY DEF Inv, PipelineInv, IsPipeline
  <2>2. ReplyInv
    BY DEF Inv
  <2>3. pipeline # None /\ pipeline.genuine /\ pipeline.classifier =>
          \A id \in Final(pipeline).classes :
            Served(pipeline, id) = Final(pipeline).meaning[id]
    BY <2>1 DEF Meant
  <2> QED
    BY <2>2, <2>3, Zenon DEF EnvelopeFaithful, ReplyInv, Final
<1> QED
  BY Invariance, <1>1, PTL

\* No change of the document gets a pipeline accepted that contradicts its
\* recipe, its width or its flags, or that cannot name one of its classes.
THEOREM Sound == Spec => []AcceptedSound
<1>1. Inv => AcceptedSound
  <2> SUFFICES ASSUME Inv PROVE AcceptedSound
    OBVIOUS
  <2>1. ASSUME pipeline # None
        PROVE  /\ Signature(pipeline.states) = Stateful(Steps(pipeline.recipe))
               /\ \A i \in DOMAIN pipeline.states :
                    pipeline.states[i].width = pipeline.n_features
               /\ pipeline.class_names # None => pipeline.classifier
               /\ \A id \in Final(pipeline).classes : Served(pipeline, id) # None
    <3>1. IsPipeline(pipeline)
      BY <2>1 DEF Inv, PipelineInv
    <3>2. \A id \in Final(pipeline).classes : Served(pipeline, id) # None
      BY <3>1, AllServed
    <3> QED
      BY <3>1, <3>2 DEF IsPipeline, OfRecipe, Sized, Labelling
  <2>2. ReplyInv
    BY DEF Inv
  <2> QED
    BY <2>1, <2>2, Zenon DEF AcceptedSound, ReplyInv, Final, Signature
<1> QED
  BY Invariance, <1>1, PTL
=============================================================================
