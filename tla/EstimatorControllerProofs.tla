----------------------- MODULE EstimatorControllerProofs -----------------------
(***************************************************************************)
(* Proofs about EstimatorController, for any number of calls, folds,       *)
(* variants, datasets and errors.                                          *)
(*                                                                         *)
(* What a call has is told by where it is (Stage): it has no estimator     *)
(* before its fit or restore is over, an estimator of its own cohort from  *)
(* then on, and rows with their ids from the moment it began.  What the    *)
(* controller remembers, and hence whatever serves a refitted prediction,  *)
(* has been fitted on the whole set (Remembered).  No step fits an         *)
(* estimator twice, so neither is ever lost again.                         *)
(*                                                                         *)
(* That the latest estimator serves rests on the order of the queue        *)
(* (Order), see there.                                                     *)
(***************************************************************************)
EXTENDS EstimatorController, TLAPS

\* Where a call is, and what it has there.
Stage(c) ==
  /\ pc[c] = "idle" <=> c \notin Started
  /\ pc[c] \in {"idle", "fit", "restore"} => trained[c] = None
  /\ pc[c] \in {"fit", "trained"} => Op(c) \in {"FIT_CV", "REFIT", "fitFull"}
  /\ pc[c] = "fitted" => Op(c) \in {"REFIT", "fitFull"}
  /\ pc[c] = "restore" => Op(c) = "importModel"
  /\ pc[c] \in {"trained", "fitted"} => trained[c] = calls[c].on
  /\ pc[c] = "return" => Makes(c)
  /\ pc[c] = "answer" => Op(c) \in {"FIT_CV", "PREDICT", "predict", "exportModel"} /\ rows[c] # None
  /\ pc[c] = "idle" => served[c] = None

\* A result has rows, and the ids of its rows.
Keyed(c) ==
  /\ ids[c] = rows[c]
  /\ outcome[c] = "ok" => pc[c] # "idle" /\ (Makes(c) \/ rows[c] # None)

\* The estimator a call uses has the training its result needs.
Suited(c) ==
  served[c] # None => trained[served[c]] = IF Op(c) = "FIT_CV" THEN calls[c].on ELSE Whole

Remembered == \A v \in Variants : fitted[v] # None => trained[fitted[v]] = Whole

Inv == TypeOK /\ Remembered /\ \A c \in Calls : Stage(c) /\ Keyed(c) /\ Suited(c)
-----------------------------------------------------------------------------
(* Lemmas about requests and the queue.                                    *)

LEMMA RequestFacts ==
  ASSUME NEW r \in Requests
  PROVE  /\ r.op = "FIT_CV" => r.on \in Folds
         /\ r.op \in {"REFIT", "fitFull", "importModel"} => r.on = Whole
         /\ r.on \in Cohorts \cup {Given, None}
  BY DEF Requests, Fits, Tasks, Prediction, Export, Import, Cohorts

LEMMA CallFacts ==
  ASSUME TypeOK, NEW c \in Started
  PROVE  /\ c \in Calls
         /\ calls[c] \in Requests
         /\ Op(c) = "FIT_CV" => calls[c].on \in Folds
         /\ Op(c) \in {"REFIT", "fitFull", "importModel"} => calls[c].on = Whole
<1>1. Len(calls) \in Nat /\ Len(calls) <= MaxCalls /\ Started = 1 .. Len(calls)
  BY DEF TypeOK, Started
<1>2. c \in Calls
  BY <1>1, ConstantsAssumption DEF Calls
<1>3. calls[c] \in Requests
  BY DEF TypeOK, Started
<1> QED
  BY <1>2, <1>3, RequestFacts DEF Op

LEMMA QueueFacts ==
  ASSUME TypeOK, NEW c \in Calls
  PROVE  /\ Append(jobs, c) \in Seq(Calls)
         /\ jobs # <<>> => Tail(jobs) \in Seq(Calls) /\ Append(Tail(jobs), c) \in Seq(Calls)
  BY DEF TypeOK

\* The host starts a call.
LEMMA OpenFacts ==
  ASSUME TypeOK, NEW c \in Calls, NEW r \in Requests, NEW l \in Labels, Open(c, r, l)
  PROVE  /\ calls' \in Seq(Requests) /\ Len(calls') <= MaxCalls
         /\ pc' = [pc EXCEPT ![c] = l] /\ pc' \in [Calls -> Labels]
         /\ seen' \in [Calls -> SUBSET Calls]
         /\ c \notin Started /\ Started' = Started \cup {c} /\ calls'[c] = r
         /\ \A d \in Started : calls'[d] = calls[d]
         /\ UNCHANGED <<memory, trained>>
<1>1. Len(calls) \in Nat /\ Len(calls) + 1 = c /\ c <= MaxCalls /\ Started = 1 .. Len(calls)
  BY ConstantsAssumption DEF TypeOK, Open, Started, Calls
<1>2. calls' = Append(calls, r) /\ calls \in Seq(Requests)
  BY DEF Open, TypeOK
<1>3. calls' \in Seq(Requests) /\ Len(calls') = c /\ calls'[c] = r /\ Started' = 1 .. c
  BY <1>1, <1>2 DEF Started
<1>4. \A d \in Started : calls'[d] = calls[d]
  BY <1>1, <1>2
<1>5. {d \in 1 .. Len(calls) : pc[d] = "done" /\ outcome[d] = "ok"} \subseteq Calls
  BY <1>1, ConstantsAssumption DEF Calls
<1>6. seen' \in [Calls -> SUBSET Calls]
  BY <1>5 DEF Open, TypeOK
<1> QED
  BY <1>1, <1>3, <1>4, <1>6 DEF Open, TypeOK

-----------------------------------------------------------------------------
(* Type correctness.                                                       *)

LEMMA TypeInit == Init => TypeOK
<1> SUFFICES ASSUME Init PROVE TypeOK
  OBVIOUS
<1>1. calls \in Seq(Requests) /\ Len(calls) <= MaxCalls /\ jobs \in Seq(Calls)
  BY ConstantsAssumption DEF Init
<1> QED
  BY <1>1 DEF Init, TypeOK, Labels

\* The estimator that serves a refitted prediction is remembered by some variant.
LEMMA SelectedFacts ==
  ASSUME TypeOK
  PROVE  /\ Selected \in Calls \cup {None} /\ \A v \in Variants : OfVariant(v) \in Calls \cup {None}
         /\ Selected # None => \E v \in Variants : Selected = fitted[v]
         /\ \A v \in Variants : OfVariant(v) # None => \E w \in Variants : OfVariant(v) = fitted[w]
  BY DEF TypeOK, Selected, OfVariant

\* What the first half of a call writes: Rejected, or waiting at l.
LEMMA UseFacts ==
  ASSUME TypeOK, NEW c \in Calls, NEW r \in Requests, NEW x \in Calls \cup {None},
         NEW data \in Cohorts \cup {Given, None} \cup Nat, Use(c, r, x, data, "answer")
  PROVE  \/ Rejected(c, r)
         \/ /\ Open(c, r, "answer") /\ x # None /\ data # None
            /\ served' = [served EXCEPT ![c] = x]
            /\ rows' = [rows EXCEPT ![c] = data] /\ ids' = [ids EXCEPT ![c] = data]
            /\ UNCHANGED <<jobs, outcome>>
  BY DEF Use, Waits

LEMMA RejectedTypes ==
  ASSUME TypeOK, NEW c \in Calls, NEW r \in Requests, Rejected(c, r)
  PROVE  TypeOK'
<1>1. Open(c, r, "done") /\ "done" \in Labels
  BY DEF Rejected, Labels
<1> QED
  BY <1>1, OpenFacts DEF Rejected, TypeOK, memory

LEMMA UseTypes ==
  ASSUME TypeOK, NEW c \in Calls, NEW r \in Requests, NEW x \in Calls \cup {None},
         NEW data \in Cohorts \cup {Given, None} \cup Nat, Use(c, r, x, data, "answer")
  PROVE  TypeOK'
<1>1. CASE Rejected(c, r)
  BY <1>1, RejectedTypes
<1>2. CASE ~ Rejected(c, r)
  <2>1. /\ Open(c, r, "answer") /\ "answer" \in Labels
        /\ served' = [served EXCEPT ![c] = x]
        /\ rows' = [rows EXCEPT ![c] = data] /\ ids' = [ids EXCEPT ![c] = data]
        /\ UNCHANGED <<jobs, outcome>>
    BY <1>2, UseFacts DEF Labels
  <2> QED
    BY <2>1, OpenFacts DEF TypeOK, memory
<1> QED
  BY <1>1, <1>2

\* The requests of the host.
LEMMA RequestTypes ==
  /\ Fits \subseteq Requests /\ Tasks \subseteq Requests
  /\ Prediction \in Requests /\ Export \in Requests /\ Import \in Requests
  /\ \A r \in Tasks : r.variant \in Variants
  BY DEF Requests, Tasks

\* A job at its turn: its call has begun.
LEMMA TurnFacts ==
  ASSUME TypeOK, NEW c \in Calls, NEW l \in Labels, Turn(c, l)
  PROVE  /\ pc[c] = l
         /\ Tail(jobs) \in Seq(Calls) /\ Append(Tail(jobs), c) \in Seq(Calls)
  BY QueueFacts DEF Turn

LEMMA TypeStep == TypeOK /\ (\A c \in Calls : Stage(c)) /\ [Next]_vars => TypeOK'
<1> SUFFICES ASSUME TypeOK, \A c \in Calls : Stage(c), [Next]_vars PROVE TypeOK'
  OBVIOUS
<1> USE DEF memory, locals
<1>1. ASSUME NEW c \in Calls, BeginFit(c) PROVE TypeOK'
  <2> PICK r \in Fits : \/ Open(c, r, "fit") /\ Waits /\ UNCHANGED <<served, rows, ids>>
                        \/ MayFail /\ Rejected(c, r)
    BY <1>1 DEF BeginFit
  <2>1. r \in Requests /\ "fit" \in Labels
    BY RequestTypes DEF Labels
  <2>2. CASE Open(c, r, "fit") /\ Waits /\ UNCHANGED <<served, rows, ids>>
    BY <2>1, <2>2, OpenFacts DEF Waits, TypeOK
  <2> QED
    BY <2>1, <2>2, RejectedTypes
<1>2. ASSUME NEW c \in Calls, BeginTask(c) PROVE TypeOK'
  <2> PICK r \in Tasks : Use(c, r, OfVariant(r.variant), predictionData, "answer")
    BY <1>2 DEF BeginTask
  <2>1. r \in Requests /\ OfVariant(r.variant) \in Calls \cup {None}
    BY RequestTypes, SelectedFacts
  <2>2. predictionData \in Cohorts \cup {Given, None} \cup Nat
    BY DEF TypeOK
  <2> QED
    BY <2>1, <2>2, UseTypes
<1>3. ASSUME NEW c \in Calls, BeginPredict(c) PROVE TypeOK'
  <2>1. Use(c, Prediction, Selected, Given, "answer") \/ Rejected(c, Prediction)
    BY <1>3 DEF BeginPredict
  <2> QED
    BY <2>1, UseTypes, RejectedTypes, RequestTypes, SelectedFacts
<1>4. ASSUME NEW c \in Calls, BeginExport(c) PROVE TypeOK'
  BY <1>4, UseTypes, RequestTypes, SelectedFacts DEF BeginExport, Cohorts
<1>5. ASSUME NEW c \in Calls, BeginImport(c) PROVE TypeOK'
  <2>1. CASE Open(c, Import, "restore") /\ Waits /\ UNCHANGED <<served, rows, ids>>
    <3>1. "restore" \in Labels
      BY DEF Labels
    <3> QED
      BY <2>1, <3>1, OpenFacts, RequestTypes DEF Waits, TypeOK
  <2> QED
    BY <1>5, <2>1, RejectedTypes, RequestTypes DEF BeginImport
<1>6. ASSUME NEW c \in Calls, Settle(c) PROVE TypeOK'
  BY <1>6, QueueFacts DEF Settle, TypeOK
<1>7. ASSUME NEW c \in Calls, NEW l \in Labels, Turn(c, l), Fails(c), UNCHANGED <<calls, seen>>
      PROVE TypeOK'
  BY <1>7, TurnFacts DEF Fails, Close, TypeOK, Labels
<1>8. ASSUME NEW c \in Calls, Fitted(c) PROVE TypeOK'
  <2>1. "fit" \in Labels /\ Turn(c, "fit")
    BY <1>8 DEF Fitted, Labels
  <2>2. CASE Fails(c)
    BY <1>7, <1>8, <2>1, <2>2 DEF Fitted
  <2>3. CASE ~ Fails(c)
    <3>1. /\ Yield(c, "trained") /\ trained' = [trained EXCEPT ![c] = calls[c].on]
          /\ UNCHANGED <<memory, served, rows, ids, calls, seen>>
      BY <1>8, <2>3 DEF Fitted
    <3>2. calls[c].on \in Cohorts
      BY <2>1, TurnFacts, CallFacts DEF Stage, Op, Cohorts
    <3> QED
      BY <2>1, <3>1, <3>2, TurnFacts DEF Yield, TypeOK, Labels
  <2> QED
    BY <2>2, <2>3
<1>9. ASSUME NEW c \in Calls, Validate(c) PROVE TypeOK'
  <2>1. /\ "trained" \in Labels /\ Turn(c, "trained") /\ Op(c) = "FIT_CV"
    BY <1>9 DEF Validate, Labels
  <2>2. calls[c].on \in Cohorts
    BY <2>1, TurnFacts, CallFacts DEF Stage, Cohorts
  <2> QED
    BY <1>9, <2>1, <2>2, TurnFacts DEF Validate, Await, TypeOK, Labels
<1>10. ASSUME NEW c \in Calls, Remember(c) PROVE TypeOK'
  <2>1. "trained" \in Labels /\ Turn(c, "trained")
    BY <1>10 DEF Remember, Labels
  <2> QED
    BY <1>10, <2>1, TurnFacts DEF Remember, Yield, TypeOK, Labels
<1>11. ASSUME NEW c \in Calls, Select(c) PROVE TypeOK'
  <2>1. "fitted" \in Labels /\ Turn(c, "fitted")
    BY <1>11 DEF Select, Labels
  <2>2. Variant(c) \in Variants
    <3>1. c \in Started /\ Op(c) \in {"REFIT", "fitFull"}
      BY <2>1, TurnFacts DEF Stage
    <3> QED
      BY <3>1, CallFacts, ConstantsAssumption
      DEF Op, Variant, Requests, Fits, Tasks, Prediction, Export, Import
  <2> QED
    BY <1>11, <2>1, <2>2, TurnFacts DEF Select, Resolve, TypeOK, Labels
<1>12. ASSUME NEW c \in Calls, Answer(c) PROVE TypeOK'
  <2>1. "answer" \in Labels /\ Turn(c, "answer") /\ UNCHANGED <<calls, seen>>
    BY <1>12 DEF Answer, Labels
  <2>2. CASE Fails(c)
    BY <1>7, <2>1, <2>2
  <2>3. CASE Close(c, "ok") /\ UNCHANGED <<memory, locals>>
    <3>1. Tail(jobs) \in Seq(Calls)
      BY <2>1, TurnFacts
    <3> QED
      BY <2>1, <2>3, <3>1 DEF Close, TypeOK, Labels
  <2> QED
    BY <1>12, <2>2, <2>3 DEF Answer
<1>13. ASSUME NEW c \in Calls, Restored(c) PROVE TypeOK'
  <2>1. "restore" \in Labels /\ Turn(c, "restore") /\ UNCHANGED <<calls, seen>>
    BY <1>13 DEF Restored, Labels
  <2>2. CASE Fails(c)
    BY <1>7, <2>1, <2>2
  <2>3. CASE ~ Fails(c)
    <3>1. /\ Resolve(c, "ok") /\ trained' = [trained EXCEPT ![c] = Whole]
          /\ fitted' = [fitted EXCEPT ![Base] = c] /\ selectedVariant' = Base
          /\ UNCHANGED <<predictionData, served, rows, ids>>
      BY <1>13, <2>3 DEF Restored
    <3>2. Append(Tail(jobs), c) \in Seq(Calls) /\ Base \in Variants /\ Whole \in Cohorts
      BY <2>1, TurnFacts, ConstantsAssumption DEF Cohorts
    <3> QED
      BY <2>1, <3>1, <3>2 DEF Resolve, TypeOK, Labels
  <2> QED
    BY <2>2, <2>3
<1>14. ASSUME NEW c \in Calls, Deliver(c) PROVE TypeOK'
  <2>1. "return" \in Labels /\ Turn(c, "return")
    BY <1>14 DEF Deliver, Labels
  <2> QED
    BY <1>14, <2>1, TurnFacts DEF Deliver, TypeOK, Labels
<1>15. ASSUME SetPredictionDataset PROVE TypeOK'
  BY <1>15 DEF SetPredictionDataset, TypeOK
<1>16. ASSUME UNCHANGED vars PROVE TypeOK'
  BY <1>16 DEF vars, TypeOK
<1> QED
  BY <1>1, <1>2, <1>3, <1>4, <1>5, <1>6, <1>8, <1>9, <1>10, <1>11, <1>12, <1>13, <1>14, <1>15, <1>16
  DEF Next, Begin, Job

-----------------------------------------------------------------------------
(* Fitted estimators, rows and ids.                                        *)

\* A call that takes no step keeps what it has: only estimators that were not
\* fitted yet are fitted.
LEMMA Others ==
  ASSUME TypeOK, NEW d \in Calls, Stage(d), Keyed(d), Suited(d),
         pc'[d] = pc[d], served'[d] = served[d], rows'[d] = rows[d], ids'[d] = ids[d],
         outcome'[d] = outcome[d], trained'[d] = trained[d],
         d \in Started' <=> d \in Started, d \in Started => calls'[d] = calls[d],
         \A e \in Calls : trained[e] # None => trained'[e] = trained[e]
  PROVE  (Stage(d) /\ Keyed(d) /\ Suited(d))'
<1>1. CASE d \in Started
  <2>1. Op(d)' = Op(d) /\ calls'[d].on = calls[d].on /\ (Makes(d)' <=> Makes(d))
    BY <1>1 DEF Op, Makes
  <2>2. Suited(d)'
    <3>1. calls[d].on # None \/ Op(d) # "FIT_CV"
      BY <1>1, CallFacts, ConstantsAssumption
    <3> SUFFICES ASSUME served[d] # None
                 PROVE  trained'[served[d]] = IF Op(d) = "FIT_CV" THEN calls[d].on ELSE Whole
      BY <2>1 DEF Suited
    <3>2. trained[served[d]] # None /\ served[d] \in Calls
      BY <3>1, ConstantsAssumption DEF Suited, TypeOK
    <3> QED
      BY <3>2 DEF Suited
  <2> QED
    BY <1>1, <2>1, <2>2 DEF Stage, Keyed
<1>2. CASE d \notin Started
  <2>1. pc[d] = "idle" /\ served[d] = None
    BY <1>2 DEF Stage
  <2> QED
    BY <1>2, <2>1 DEF Stage, Keyed, Suited
<1> QED
  BY <1>1, <1>2

Parts(c) == Stage(c) /\ Keyed(c) /\ Suited(c)

LEMMA InvInit == Init => Inv
<1> SUFFICES ASSUME Init PROVE Inv
  OBVIOUS
<1>1. Started = {}
  BY DEF Init, Started
<1> QED
  BY <1>1, TypeInit DEF Init, Inv, Remembered, Stage, Keyed, Suited

\* The start of a call that is not refused leaves it at l without a result.
LEMMA OpenKeeps ==
  ASSUME Inv, NEW c \in Calls, NEW r \in Requests, NEW l \in Labels, Open(c, r, l),
         \A d \in Calls \ {c} : /\ served'[d] = served[d] /\ rows'[d] = rows[d] /\ ids'[d] = ids[d]
                                /\ outcome'[d] = outcome[d]
  PROVE  /\ Remembered' /\ \A d \in Calls \ {c} : Parts(d)'
         /\ pc'[c] = l /\ c \in Started' /\ Op(c)' = r.op /\ calls'[c] = r
         /\ pc[c] = "idle" /\ trained[c] = None /\ served[c] = None
         /\ ids[c] = rows[c] /\ outcome[c] # "ok"
         /\ UNCHANGED <<fitted, selectedVariant, predictionData, trained>>
<1>1. TypeOK /\ Remembered /\ \A d \in Calls : Stage(d) /\ Keyed(d) /\ Suited(d)
  BY DEF Inv
<1>2. /\ pc' = [pc EXCEPT ![c] = l] /\ c \notin Started /\ Started' = Started \cup {c}
      /\ calls'[c] = r /\ \A d \in Started : calls'[d] = calls[d]
      /\ UNCHANGED <<fitted, selectedVariant, predictionData, trained>>
  BY <1>1, OpenFacts DEF memory
<1>3. ASSUME NEW d \in Calls \ {c} PROVE Parts(d)'
  <2>1. /\ pc'[d] = pc[d] /\ trained'[d] = trained[d] /\ d \in Started' <=> d \in Started
        /\ d \in Started => calls'[d] = calls[d]
    BY <1>1, <1>2 DEF TypeOK
  <2>2. served'[d] = served[d] /\ rows'[d] = rows[d] /\ ids'[d] = ids[d] /\ outcome'[d] = outcome[d]
    OBVIOUS
  <2> QED
    BY <1>1, <1>2, <2>1, <2>2, Others DEF Parts
<1>4. Remembered'
  BY <1>1, <1>2 DEF Remembered
<1>5. pc[c] = "idle" /\ trained[c] = None /\ served[c] = None /\ ids[c] = rows[c] /\ outcome[c] # "ok"
  BY <1>1, <1>2 DEF Stage, Keyed
<1>6. pc'[c] = l
  BY <1>1, <1>2 DEF TypeOK
<1> QED
  BY <1>2, <1>3, <1>4, <1>5, <1>6 DEF Op

LEMMA RejectedKeeps ==
  ASSUME Inv, NEW c \in Calls, NEW r \in Requests, Rejected(c, r)
  PROVE  Remembered' /\ \A d \in Calls : Parts(d)'
<1>1. TypeOK
  BY DEF Inv
<1>2. /\ Open(c, r, "done") /\ "done" \in Labels /\ outcome' = [outcome EXCEPT ![c] = "error"]
      /\ UNCHANGED <<served, rows, ids>>
  BY DEF Rejected, Labels
<1>3. \A d \in Calls \ {c} : /\ served'[d] = served[d] /\ rows'[d] = rows[d] /\ ids'[d] = ids[d]
                             /\ outcome'[d] = outcome[d]
  BY <1>1, <1>2 DEF TypeOK
<1>4. /\ Remembered' /\ \A d \in Calls \ {c} : Parts(d)'
      /\ pc'[c] = "done" /\ c \in Started'
      /\ served[c] = None /\ ids[c] = rows[c]
  BY <1>2, <1>3, OpenKeeps
<1>5. outcome'[c] = "error"
  BY <1>1, <1>2 DEF TypeOK
<1>6. Parts(c)'
  BY <1>2, <1>4, <1>5 DEF Parts, Stage, Keyed, Suited
<1> QED
  BY <1>4, <1>6

LEMMA UseKeeps ==
  ASSUME Inv, NEW c \in Calls, NEW r \in Requests, NEW x \in Calls \cup {None},
         NEW data \in Cohorts \cup {Given, None} \cup Nat, Use(c, r, x, data, "answer"),
         r.op \in {"PREDICT", "predict", "exportModel"}, x # None => trained[x] = Whole
  PROVE  Remembered' /\ \A d \in Calls : Parts(d)'
<1>1. TypeOK
  BY DEF Inv
<1>2. CASE Rejected(c, r)
  BY <1>2, RejectedKeeps
<1>3. CASE ~ Rejected(c, r)
  <2>1. /\ Open(c, r, "answer") /\ "answer" \in Labels /\ x # None /\ data # None
        /\ served' = [served EXCEPT ![c] = x]
        /\ rows' = [rows EXCEPT ![c] = data] /\ ids' = [ids EXCEPT ![c] = data]
        /\ UNCHANGED <<jobs, outcome>>
    BY <1>1, <1>3, UseFacts DEF Labels
  <2>2. \A d \in Calls \ {c} : /\ served'[d] = served[d] /\ rows'[d] = rows[d] /\ ids'[d] = ids[d]
                               /\ outcome'[d] = outcome[d]
    BY <1>1, <2>1 DEF TypeOK
  <2>3. /\ Remembered' /\ \A d \in Calls \ {c} : Parts(d)'
        /\ pc'[c] = "answer" /\ c \in Started' /\ Op(c)' = r.op
        /\ outcome[c] # "ok" /\ trained' = trained
    BY <2>1, <2>2, OpenKeeps
  <2>4. served'[c] = x /\ rows'[c] = data /\ ids'[c] = data
    BY <1>1, <2>1 DEF TypeOK
  <2>5. Stage(c)'
    BY <2>1, <2>3, <2>4 DEF Stage
  <2>6. Keyed(c)'
    BY <2>1, <2>3, <2>4 DEF Keyed
  <2>7. Suited(c)'
    BY <2>1, <2>3, <2>4 DEF Suited
  <2> QED
    BY <2>3, <2>5, <2>6, <2>7 DEF Parts
<1> QED
  BY <1>2, <1>3

\* A job of c leaves the other calls alone.
LEMMA JobKeeps ==
  ASSUME Inv, NEW c \in Calls, UNCHANGED calls,
         \A d \in Calls \ {c} : /\ pc'[d] = pc[d] /\ served'[d] = served[d] /\ rows'[d] = rows[d]
                                /\ ids'[d] = ids[d] /\ outcome'[d] = outcome[d]
                                /\ trained'[d] = trained[d],
         trained[c] # None => trained'[c] = trained[c]
  PROVE  \A d \in Calls \ {c} : Parts(d)'
<1> SUFFICES ASSUME NEW d \in Calls \ {c} PROVE Parts(d)'
  OBVIOUS
<1>1. TypeOK /\ Stage(d) /\ Keyed(d) /\ Suited(d)
  BY DEF Inv
<1>2. \A e \in Calls : trained[e] # None => trained'[e] = trained[e]
  OBVIOUS
<1>3. (d \in Started' <=> d \in Started) /\ calls'[d] = calls[d]
  BY DEF Started
<1> QED
  BY <1>1, <1>2, <1>3, Others DEF Parts

\* A job that ends in an error.
LEMMA FailsKeeps ==
  ASSUME Inv, NEW c \in Calls, c \in Started, Fails(c), UNCHANGED <<calls, seen>>
  PROVE  Remembered' /\ \A d \in Calls : Parts(d)'
<1>1. TypeOK /\ Stage(c) /\ Keyed(c) /\ Suited(c) /\ Remembered
  BY DEF Inv
<1>2. /\ pc' = [pc EXCEPT ![c] = "done"] /\ outcome' = [outcome EXCEPT ![c] = "error"]
      /\ UNCHANGED <<calls, fitted, trained, served, rows, ids>>
  BY DEF Fails, Close, memory, locals
<1>3. \A d \in Calls \ {c} : Parts(d)'
  BY <1>1, <1>2, JobKeeps DEF TypeOK
<1>4. pc'[c] = "done" /\ outcome'[c] = "error"
  BY <1>1, <1>2 DEF TypeOK
<1>5. Parts(c)'
  BY <1>1, <1>2, <1>4 DEF Parts, Stage, Keyed, Suited, Started, Op
<1> QED
  BY <1>1, <1>2, <1>3, <1>5 DEF Remembered

LEMMA TurnStarted ==
  ASSUME Inv, NEW c \in Calls, NEW l \in Labels \ {"idle"}, Turn(c, l)
  PROVE  c \in Started /\ pc[c] = l /\ TypeOK /\ Remembered /\ Stage(c) /\ Keyed(c) /\ Suited(c)
  BY DEF Turn, Inv, Stage

LEMMA InvStep == Inv /\ [Next]_vars => Inv'
<1> SUFFICES ASSUME Inv, [Next]_vars PROVE Inv'
  OBVIOUS
<1>t. TypeOK /\ TypeOK'
  BY TypeStep DEF Inv
<1>1. ASSUME NEW c \in Calls, BeginFit(c) PROVE Remembered' /\ \A d \in Calls : Parts(d)'
  <2> PICK r \in Fits : \/ Open(c, r, "fit") /\ Waits /\ UNCHANGED <<served, rows, ids>>
                        \/ MayFail /\ Rejected(c, r)
    BY <1>1 DEF BeginFit
  <2>1. r \in Requests /\ "fit" \in Labels /\ r.op \in {"FIT_CV", "REFIT", "fitFull"}
    BY RequestTypes DEF Labels, Fits
  <2>2. CASE Open(c, r, "fit") /\ Waits /\ UNCHANGED <<served, rows, ids>>
    <3>1. /\ Remembered' /\ \A d \in Calls \ {c} : Parts(d)'
          /\ pc'[c] = "fit" /\ c \in Started' /\ Op(c)' = r.op
          /\ trained[c] = None /\ served[c] = None
          /\ ids[c] = rows[c] /\ outcome[c] # "ok" /\ trained' = trained
      BY <2>1, <2>2, OpenKeeps DEF Waits
    <3>2. Parts(c)'
      BY <2>1, <2>2, <3>1 DEF Waits, Parts, Stage, Keyed, Suited
    <3> QED
      BY <3>1, <3>2
  <2> QED
    BY <2>1, <2>2, RejectedKeeps
<1>2. ASSUME NEW c \in Calls, BeginTask(c) PROVE Remembered' /\ \A d \in Calls : Parts(d)'
  <2> PICK r \in Tasks : Use(c, r, OfVariant(r.variant), predictionData, "answer")
    BY <1>2 DEF BeginTask
  <2>1. r \in Requests /\ r.op = "PREDICT" /\ OfVariant(r.variant) \in Calls \cup {None}
    BY <1>t, RequestTypes, SelectedFacts DEF Tasks
  <2>2. OfVariant(r.variant) # None => trained[OfVariant(r.variant)] = Whole
    BY <1>t, RequestTypes, SelectedFacts DEF Inv, Remembered
  <2>3. predictionData \in Cohorts \cup {Given, None} \cup Nat
    BY <1>t DEF TypeOK
  <2> QED
    BY <2>1, <2>2, <2>3, UseKeeps
<1>3. ASSUME NEW c \in Calls, BeginPredict(c) \/ BeginExport(c)
      PROVE Remembered' /\ \A d \in Calls : Parts(d)'
  <2>1. Selected \in Calls \cup {None} /\ (Selected # None => trained[Selected] = Whole)
    BY <1>t, SelectedFacts DEF Inv, Remembered
  <2>2. Prediction \in Requests /\ Prediction.op = "predict"
    BY RequestTypes DEF Prediction
  <2>3. Export \in Requests /\ Export.op = "exportModel" /\ Whole \in Cohorts
    BY RequestTypes DEF Export, Cohorts
  <2>4. CASE Use(c, Prediction, Selected, Given, "answer")
    BY <2>1, <2>2, <2>4, UseKeeps
  <2>5. CASE Use(c, Export, Selected, Whole, "answer")
    BY <2>1, <2>3, <2>5, UseKeeps
  <2> QED
    BY <1>3, <2>2, <2>4, <2>5, RejectedKeeps DEF BeginPredict, BeginExport
<1>4. ASSUME NEW c \in Calls, BeginImport(c) PROVE Remembered' /\ \A d \in Calls : Parts(d)'
  <2>1. Import \in Requests /\ "restore" \in Labels /\ Import.op = "importModel"
    BY RequestTypes DEF Labels, Import
  <2>2. CASE Open(c, Import, "restore") /\ Waits /\ UNCHANGED <<served, rows, ids>>
    <3>1. /\ Remembered' /\ \A d \in Calls \ {c} : Parts(d)'
          /\ pc'[c] = "restore" /\ c \in Started' /\ Op(c)' = Import.op
          /\ trained[c] = None /\ served[c] = None
          /\ ids[c] = rows[c] /\ outcome[c] # "ok" /\ trained' = trained
      BY <2>1, <2>2, OpenKeeps DEF Waits
    <3>2. Parts(c)'
      BY <2>1, <2>2, <3>1 DEF Waits, Parts, Stage, Keyed, Suited
    <3> QED
      BY <3>1, <3>2
  <2> QED
    BY <1>4, <2>1, <2>2, RejectedKeeps DEF BeginImport
<1>5. ASSUME NEW c \in Calls, Fitted(c) PROVE Remembered' /\ \A d \in Calls : Parts(d)'
  <2>1. /\ c \in Started /\ pc[c] = "fit" /\ Remembered /\ Stage(c) /\ Keyed(c) /\ Suited(c)
        /\ UNCHANGED <<calls, seen>>
    BY <1>5, TurnStarted DEF Fitted, Labels
  <2>2. CASE ~ Fails(c)
    <3>1. /\ pc' = [pc EXCEPT ![c] = "trained"] /\ trained' = [trained EXCEPT ![c] = calls[c].on]
          /\ UNCHANGED <<fitted, served, rows, ids, outcome>>
      BY <1>5, <2>2 DEF Fitted, Yield, memory
    <3>2. trained[c] = None /\ Op(c) \in {"FIT_CV", "REFIT", "fitFull"}
      BY <2>1 DEF Stage
    <3>3. pc'[c] = "trained" /\ trained'[c] = calls[c].on
      BY <1>t, <3>1 DEF TypeOK
    <3>4. \A e \in Calls : trained[e] # None => trained'[e] = trained[e]
      BY <1>t, <3>1, <3>2 DEF TypeOK
    <3>5. \A d \in Calls \ {c} : Parts(d)'
      BY <1>t, <2>1, <3>1, <3>2, JobKeeps DEF TypeOK
    <3>6. Remembered'
      BY <1>t, <2>1, <3>1, <3>4, ConstantsAssumption DEF Remembered, TypeOK
    <3>7. Suited(c)'
      <4>1. served[c] # None => trained[served[c]] # None /\ served[c] \in Calls
        BY <1>t, <2>1, CallFacts, ConstantsAssumption DEF Suited, TypeOK
      <4> QED
        BY <2>1, <3>1, <3>4, <4>1 DEF Suited, Op
    <3>8. Stage(c)' /\ Keyed(c)'
      BY <2>1, <3>1, <3>2, <3>3 DEF Stage, Keyed, Started, Op, Makes
    <3> QED
      BY <3>5, <3>6, <3>7, <3>8 DEF Parts
  <2> QED
    BY <2>1, <2>2, FailsKeeps
<1>6. ASSUME NEW c \in Calls, Validate(c) PROVE Remembered' /\ \A d \in Calls : Parts(d)'
  <2>1. /\ c \in Started /\ pc[c] = "trained" /\ Op(c) = "FIT_CV"
        /\ Remembered /\ Stage(c) /\ Keyed(c)
    BY <1>6, TurnStarted DEF Validate, Labels
  <2>2. /\ pc' = [pc EXCEPT ![c] = "answer"] /\ served' = [served EXCEPT ![c] = c]
        /\ rows' = [rows EXCEPT ![c] = calls[c].on] /\ ids' = [ids EXCEPT ![c] = calls[c].on]
        /\ UNCHANGED <<calls, fitted, trained, outcome>>
    BY <1>6 DEF Validate, Await, memory
  <2>3. calls[c].on # None /\ trained[c] = calls[c].on
    BY <1>t, <2>1, CallFacts, ConstantsAssumption DEF Stage
  <2>4. pc'[c] = "answer" /\ served'[c] = c /\ rows'[c] = calls[c].on /\ ids'[c] = calls[c].on
    BY <1>t, <2>2 DEF TypeOK
  <2>5. \A d \in Calls \ {c} : Parts(d)'
    BY <1>t, <2>2, JobKeeps DEF TypeOK
  <2>6. Parts(c)'
    BY <2>1, <2>2, <2>3, <2>4 DEF Parts, Stage, Keyed, Suited, Started, Op
  <2> QED
    BY <2>1, <2>2, <2>5, <2>6 DEF Remembered
<1>7. ASSUME NEW c \in Calls, Remember(c) PROVE Remembered' /\ \A d \in Calls : Parts(d)'
  <2>1. /\ c \in Started /\ pc[c] = "trained" /\ Op(c) # "FIT_CV"
        /\ Remembered /\ Stage(c) /\ Keyed(c) /\ Suited(c)
    BY <1>7, TurnStarted DEF Remember, Labels
  <2>2. /\ pc' = [pc EXCEPT ![c] = "fitted"] /\ fitted' = [fitted EXCEPT ![Variant(c)] = c]
        /\ UNCHANGED <<calls, trained, served, rows, ids, outcome>>
    BY <1>7 DEF Remember, Yield, locals
  <2>3. Op(c) \in {"REFIT", "fitFull"} /\ trained[c] = Whole
    BY <1>t, <2>1, CallFacts DEF Stage
  <2>4. pc'[c] = "fitted"
    BY <1>t, <2>2 DEF TypeOK
  <2>5. \A d \in Calls \ {c} : Parts(d)'
    BY <1>t, <2>2, JobKeeps DEF TypeOK
  <2>6. Parts(c)'
    BY <2>1, <2>2, <2>3, <2>4 DEF Parts, Stage, Keyed, Suited, Started, Op, Makes
  <2>7. Remembered'
    BY <1>t, <2>1, <2>2, <2>3 DEF Remembered, TypeOK
  <2> QED
    BY <2>5, <2>6, <2>7
<1>8. ASSUME NEW c \in Calls, Select(c) PROVE Remembered' /\ \A d \in Calls : Parts(d)'
  <2>1. /\ c \in Started /\ pc[c] = "fitted" /\ Op(c) \in {"REFIT", "fitFull"}
        /\ Remembered /\ Stage(c) /\ Keyed(c) /\ Suited(c)
    BY <1>8, TurnStarted DEF Select, Labels, Stage
  <2>2. /\ pc' = [pc EXCEPT ![c] = "return"] /\ outcome' = [outcome EXCEPT ![c] = "ok"]
        /\ UNCHANGED <<calls, fitted, trained, served, rows, ids>>
    BY <1>8 DEF Select, Resolve, locals
  <2>3. pc'[c] = "return" /\ outcome'[c] = "ok"
    BY <1>t, <2>2 DEF TypeOK
  <2>4. \A d \in Calls \ {c} : Parts(d)'
    BY <1>t, <2>2, JobKeeps DEF TypeOK
  <2>5. Parts(c)'
    BY <2>1, <2>2, <2>3 DEF Parts, Stage, Keyed, Suited, Started, Op, Makes
  <2> QED
    BY <2>1, <2>2, <2>4, <2>5 DEF Remembered
<1>9. ASSUME NEW c \in Calls, Answer(c) PROVE Remembered' /\ \A d \in Calls : Parts(d)'
  <2>1. /\ c \in Started /\ pc[c] = "answer" /\ UNCHANGED <<calls, seen>>
        /\ Remembered /\ Stage(c) /\ Keyed(c) /\ Suited(c)
    BY <1>9, TurnStarted DEF Answer, Labels
  <2>2. CASE Close(c, "ok") /\ UNCHANGED <<memory, locals>>
    <3>1. /\ pc' = [pc EXCEPT ![c] = "done"] /\ outcome' = [outcome EXCEPT ![c] = "ok"]
          /\ UNCHANGED <<calls, fitted, trained, served, rows, ids>>
      BY <2>1, <2>2 DEF Close, memory, locals
    <3>2. pc'[c] = "done" /\ outcome'[c] = "ok"
      BY <1>t, <3>1 DEF TypeOK
    <3>3. \A d \in Calls \ {c} : Parts(d)'
      BY <1>t, <3>1, JobKeeps DEF TypeOK
    <3>4. Parts(c)'
      BY <2>1, <3>1, <3>2 DEF Parts, Stage, Keyed, Suited, Started, Op, Makes
    <3> QED
      BY <2>1, <3>1, <3>3, <3>4 DEF Remembered
  <2> QED
    BY <1>9, <2>1, <2>2, FailsKeeps DEF Answer
<1>10. ASSUME NEW c \in Calls, Restored(c) PROVE Remembered' /\ \A d \in Calls : Parts(d)'
  <2>1. /\ c \in Started /\ pc[c] = "restore" /\ UNCHANGED <<calls, seen>>
        /\ Remembered /\ Stage(c) /\ Keyed(c) /\ Suited(c)
    BY <1>10, TurnStarted DEF Restored, Labels
  <2>2. CASE ~ Fails(c)
    <3>1. /\ pc' = [pc EXCEPT ![c] = "return"] /\ outcome' = [outcome EXCEPT ![c] = "ok"]
          /\ trained' = [trained EXCEPT ![c] = Whole] /\ fitted' = [fitted EXCEPT ![Base] = c]
          /\ UNCHANGED <<served, rows, ids>>
      BY <1>10, <2>2 DEF Restored, Resolve
    <3>2. trained[c] = None /\ Op(c) = "importModel"
      BY <2>1 DEF Stage
    <3>3. pc'[c] = "return" /\ outcome'[c] = "ok" /\ trained'[c] = Whole
      BY <1>t, <3>1 DEF TypeOK
    <3>4. \A e \in Calls : trained[e] # None => trained'[e] = trained[e]
      BY <1>t, <3>1, <3>2 DEF TypeOK
    <3>5. \A d \in Calls \ {c} : Parts(d)'
      BY <1>t, <2>1, <3>1, <3>2, JobKeeps DEF TypeOK
    <3>6. Remembered'
      <4> SUFFICES ASSUME NEW v \in Variants, fitted'[v] # None PROVE trained'[fitted'[v]] = Whole
        BY DEF Remembered
      <4>1. CASE fitted'[v] = c
        BY <3>3, <4>1
      <4>2. CASE fitted'[v] # c
        <5>1. fitted'[v] = fitted[v] /\ fitted[v] \in Calls
          BY <1>t, <3>1, <4>2 DEF TypeOK
        <5> QED
          BY <2>1, <3>4, <5>1, ConstantsAssumption DEF Remembered
      <4> QED
        BY <4>1, <4>2
    <3>7. Suited(c)'
      <4>1. served[c] # None => trained[served[c]] # None /\ served[c] \in Calls
        BY <1>t, <2>1, CallFacts, ConstantsAssumption DEF Suited, TypeOK
      <4> QED
        BY <2>1, <3>1, <3>4, <4>1 DEF Suited, Op
    <3>8. Stage(c)' /\ Keyed(c)'
      BY <2>1, <3>1, <3>2, <3>3 DEF Stage, Keyed, Started, Op, Makes
    <3> QED
      BY <3>5, <3>6, <3>7, <3>8 DEF Parts
  <2> QED
    BY <2>1, <2>2, FailsKeeps
<1>11. ASSUME NEW c \in Calls, Deliver(c) PROVE Remembered' /\ \A d \in Calls : Parts(d)'
  <2>1. /\ c \in Started /\ pc[c] = "return" /\ Remembered /\ Stage(c) /\ Keyed(c) /\ Suited(c)
    BY <1>11, TurnStarted DEF Deliver, Labels
  <2>2. /\ pc' = [pc EXCEPT ![c] = "done"]
        /\ UNCHANGED <<calls, fitted, trained, served, rows, ids, outcome>>
    BY <1>11 DEF Deliver, memory, locals
  <2>3. pc'[c] = "done"
    BY <1>t, <2>2 DEF TypeOK
  <2>4. \A d \in Calls \ {c} : Parts(d)'
    BY <1>t, <2>2, JobKeeps DEF TypeOK
  <2>5. Parts(c)'
    BY <2>1, <2>2, <2>3 DEF Parts, Stage, Keyed, Suited, Started, Op, Makes
  <2> QED
    BY <2>1, <2>2, <2>4, <2>5 DEF Remembered
<1>12. ASSUME \/ \E c \in Calls : Settle(c)
              \/ SetPredictionDataset \/ UNCHANGED vars
       PROVE Remembered' /\ \A d \in Calls : Parts(d)'
  <2>1. UNCHANGED <<calls, pc, fitted, trained, served, rows, ids, outcome>>
    BY <1>12 DEF Settle, SetPredictionDataset, vars, memory, locals
  <2> QED
    BY <2>1 DEF Inv, Remembered, Parts, Stage, Keyed, Suited, Started, Op, Makes
<1>13. Remembered' /\ \A d \in Calls : Parts(d)'
  BY <1>1, <1>2, <1>3, <1>4, <1>5, <1>6, <1>7, <1>8, <1>9, <1>10, <1>11, <1>12 DEF Next, Begin, Job
<1> QED
  BY <1>t, <1>13 DEF Inv, Parts

LEMMA Invariance == Spec => []Inv
  BY InvInit, InvStep, PTL DEF Spec

-----------------------------------------------------------------------------
(* Which estimator serves.                                                 *)
(*                                                                         *)
(* A call that was over when another began is not in the queue, and no one *)
(* writes the memory out of the queue.  So what a variant remembers is     *)
(* never older than what its makers saw when they began; and between the   *)
(* turn that remembers an estimator and the turn that selects its variant, *)
(* whoever remembers one for the same variant stands behind in the queue,  *)
(* and is not over either: the variant that is selected is never older     *)
(* than what the calls that ended well saw when they began.                *)

\* What a call saw were ends of other calls.
Past == \A e \in Calls : \A d \in seen[e] : d \in Started /\ pc[d] = "done" /\ Ok(d)

\* A call stands at most once in the queue, and is under way.
Line ==
  /\ \A i, j \in DOMAIN jobs : jobs[i] = jobs[j] => i = j
  /\ \A i \in DOMAIN jobs : pc[jobs[i]] \notin {"idle", "done"}

Made == \A v \in Variants : fitted[v] # None => fitted[v] \in Makers /\ Variant(fitted[v]) = v

\* Who remembered last stands in the queue, at the place of g or behind it.
InLine(q, g, x) == \E i, j \in DOMAIN q : i <= j /\ q[i] = g /\ q[j] = x
Selecting == \A g \in Started : pc[g] = "fitted" => InLine(jobs, g, fitted[Variant(g)])

Newer ==
  \A e \in Makers : Ok(e) =>
    /\ fitted[Variant(e)] # None /\ fitted[Variant(e)] \notin seen[e]
    /\ Selected \notin seen[e]

Order == Past /\ Line /\ Made /\ Selecting /\ Newer

LEMMA MakerFacts ==
  ASSUME TypeOK, NEW c \in Makers
  PROVE  c \in Started /\ c \in Calls /\ Variant(c) \in Variants /\ c # None
<1>1. c \in Started /\ c \in Calls /\ calls[c] \in Requests /\ Makes(c)
  BY CallFacts DEF Makers
<1>2. Variant(c) \in Variants
  BY <1>1, ConstantsAssumption
  DEF Makes, Op, Variant, Requests, Fits, Tasks, Prediction, Export, Import
<1> QED
  BY <1>1, <1>2, ConstantsAssumption DEF Calls

\* Who stands in the queue is under way, and nobody has seen it end.
LEMMA InLineFacts ==
  ASSUME TypeOK, Order, NEW i \in DOMAIN jobs
  PROVE  /\ jobs[i] \in Calls /\ jobs[i] # None /\ pc[jobs[i]] # "done"
         /\ \A e \in Calls : jobs[i] \notin seen[e]
<1>1. jobs[i] \in Calls
  BY DEF TypeOK
<1>2. pc[jobs[i]] # "done"
  BY DEF Order, Line
<1>3. jobs[i] # None
  BY <1>1, ConstantsAssumption DEF Calls
<1> QED
  BY <1>1, <1>2, <1>3 DEF Order, Past

\* Places in the queue when its head leaves it, and when it joins it again.
LEMMA TailFacts ==
  ASSUME NEW q \in Seq(Calls), q # <<>>, NEW c \in Calls, Head(q) = c
  PROVE  /\ 1 \in DOMAIN q /\ q[1] = c /\ Len(q) \in Nat /\ DOMAIN q = 1 .. Len(q)
         /\ DOMAIN Tail(q) = 1 .. Len(q) - 1
         /\ \A i \in 1 .. Len(q) - 1 : Tail(q)[i] = q[i + 1]
         /\ DOMAIN Append(Tail(q), c) = 1 .. Len(q)
         /\ \A i \in 1 .. Len(q) - 1 : Append(Tail(q), c)[i] = q[i + 1]
         /\ Append(Tail(q), c)[Len(q)] = c
<1>1. Len(q) \in Nat /\ Len(q) # 0 /\ DOMAIN q = 1 .. Len(q) /\ q[1] = c
  OBVIOUS
<1>2. Tail(q) \in Seq(Calls) /\ Len(Tail(q)) = Len(q) - 1
  BY <1>1
<1>3. \A i \in 1 .. Len(q) - 1 : Tail(q)[i] = q[i + 1]
  BY <1>1, <1>2
<1>4. Append(Tail(q), c) \in Seq(Calls) /\ Len(Append(Tail(q), c)) = Len(q)
  BY <1>1, <1>2
<1> QED
  BY <1>1, <1>2, <1>3, <1>4

\* The queue after a turn of c: the others keep their order.
Turned(c) == jobs # <<>> /\ Head(jobs) = c /\ jobs' \in {Tail(jobs), Append(Tail(jobs), c)}

LEMMA TurnedFacts ==
  ASSUME TypeOK, Line, NEW c \in Calls, Turned(c)
  PROVE  /\ \A g \in Calls \ {c} : \A x : InLine(jobs, g, x) => InLine(jobs', g, x)
         /\ \A g \in Calls \ {c} : jobs' = Append(Tail(jobs), c) =>
              \A x : InLine(jobs, g, x) => InLine(jobs', g, c)
         /\ \A i, j \in DOMAIN jobs' : jobs'[i] = jobs'[j] => i = j
         /\ \A i \in DOMAIN jobs' : jobs'[i] # c =>
              \E j \in DOMAIN jobs : jobs'[i] = jobs[j]
         /\ jobs' = Append(Tail(jobs), c) => InLine(jobs', c, c)
         /\ jobs' = Tail(jobs) => \A i \in DOMAIN jobs' : jobs'[i] # c
         /\ \E i \in DOMAIN jobs : jobs[i] = c
<1>1. jobs \in Seq(Calls) /\ jobs # <<>> /\ Head(jobs) = c
  BY DEF TypeOK, Turned
<1>2. /\ 1 \in DOMAIN jobs /\ jobs[1] = c /\ Len(jobs) \in Nat /\ DOMAIN jobs = 1 .. Len(jobs)
      /\ \A i \in 1 .. Len(jobs) - 1 : jobs'[i] = jobs[i + 1]
      /\ \/ jobs' = Tail(jobs) /\ DOMAIN jobs' = 1 .. Len(jobs) - 1
         \/ /\ jobs' = Append(Tail(jobs), c) /\ DOMAIN jobs' = 1 .. Len(jobs)
            /\ jobs'[Len(jobs)] = c
  BY <1>1, TailFacts DEF Turned
<1>n. /\ jobs' = Append(Tail(jobs), c) => DOMAIN jobs' = 1 .. Len(jobs) /\ jobs'[Len(jobs)] = c
      /\ jobs' = Tail(jobs) => DOMAIN jobs' = 1 .. Len(jobs) - 1
  BY <1>1, TailFacts
<1>l. Len(jobs) \in 1 .. Len(jobs)
  BY <1>2
<1>m. jobs' = Append(Tail(jobs), c) => Len(jobs) \in DOMAIN jobs' /\ jobs'[Len(jobs)] = c
  BY <1>l, <1>n
<1>3. \A i, j \in DOMAIN jobs : jobs[i] = jobs[j] => i = j
  BY DEF Line
<1>4. ASSUME NEW g \in Calls \ {c}, NEW x, NEW i \in DOMAIN jobs, NEW j \in DOMAIN jobs,
             i <= j, jobs[i] = g, jobs[j] = x
      PROVE  /\ i - 1 \in DOMAIN jobs' /\ j - 1 \in DOMAIN jobs' /\ i - 1 <= j - 1
             /\ jobs'[i - 1] = g /\ jobs'[j - 1] = x
  <2>1. i # 1
    BY <1>2, <1>4
  <2>2. i - 1 \in 1 .. Len(jobs) - 1 /\ j - 1 \in 1 .. Len(jobs) - 1 /\ i - 1 <= j - 1
        /\ (i - 1) + 1 = i /\ (j - 1) + 1 = j
    BY <1>2, <1>4, <2>1
  <2>3. i - 1 \in DOMAIN jobs' /\ j - 1 \in DOMAIN jobs'
    BY <1>2, <2>2
  <2> QED
    BY <1>2, <1>4, <2>2, <2>3
<1>5. \A g \in Calls \ {c} : \A x : InLine(jobs, g, x) => InLine(jobs', g, x)
  BY <1>4 DEF InLine
<1>6. ASSUME NEW g \in Calls \ {c}, jobs' = Append(Tail(jobs), c), NEW x, InLine(jobs, g, x)
      PROVE  InLine(jobs', g, c)
  <2>1. PICK i \in DOMAIN jobs, j \in DOMAIN jobs : i <= j /\ jobs[i] = g /\ jobs[j] = x
    BY <1>6 DEF InLine
  <2>2. i - 1 \in DOMAIN jobs' /\ jobs'[i - 1] = g
    BY <1>4, <2>1
  <2>3. Len(jobs) \in DOMAIN jobs' /\ jobs'[Len(jobs)] = c
    BY <1>m, <1>6
  <2>4. i - 1 <= Len(jobs)
    BY <1>2, <2>1
  <2> QED
    BY <2>2, <2>3, <2>4 DEF InLine
<1>7. ASSUME NEW i \in DOMAIN jobs', NEW j \in DOMAIN jobs', jobs'[i] = jobs'[j]
      PROVE  i = j
  <2>1. CASE i \in 1 .. Len(jobs) - 1 /\ j \in 1 .. Len(jobs) - 1
    <3>1. i + 1 \in DOMAIN jobs /\ j + 1 \in DOMAIN jobs /\ jobs[i + 1] = jobs[j + 1]
      BY <1>2, <1>7, <2>1
    <3>2. i + 1 = j + 1
      BY <1>3, <3>1
    <3> QED
      BY <1>2, <2>1, <3>2
  <2>2. ASSUME NEW k \in 1 .. Len(jobs) - 1 PROVE jobs'[k] # c
    <3>1. k + 1 \in DOMAIN jobs /\ k + 1 # 1 /\ jobs'[k] = jobs[k + 1]
      BY <1>2
    <3> QED
      BY <1>2, <1>3, <3>1
  <2>3. CASE i \notin 1 .. Len(jobs) - 1 \/ j \notin 1 .. Len(jobs) - 1
    <3>1. DOMAIN jobs' = 1 .. Len(jobs) /\ jobs'[Len(jobs)] = c
      <4>1. DOMAIN jobs' # 1 .. Len(jobs) - 1
        BY <2>3
      <4>2. jobs' = Tail(jobs) \/ jobs' = Append(Tail(jobs), c)
        BY DEF Turned
      <4> QED
        BY <1>n, <4>1, <4>2
    <3>3. \A k \in 1 .. Len(jobs) : k \in 1 .. Len(jobs) - 1 \/ k = Len(jobs)
      <4>1. \A n \in Nat : \A k \in 1 .. n : k \in 1 .. n - 1 \/ k = n
        OBVIOUS
      <4> QED
        BY <1>2, <4>1
    <3>2. \A k \in DOMAIN jobs' : k \in 1 .. Len(jobs) - 1 \/ k = Len(jobs)
      BY <3>1, <3>3
    <3> QED
      BY <1>7, <2>2, <2>3, <3>1, <3>2
  <2> QED
    BY <2>1, <2>3
<1>8. ASSUME NEW i \in DOMAIN jobs', jobs'[i] # c
      PROVE  \E j \in DOMAIN jobs : jobs'[i] = jobs[j]
  <2>1. i \in 1 .. Len(jobs) - 1
    <3>1. CASE DOMAIN jobs' = 1 .. Len(jobs) - 1
      BY <3>1
    <3>2. CASE DOMAIN jobs' = 1 .. Len(jobs) /\ jobs'[Len(jobs)] = c
      <4>1. i \in 1 .. Len(jobs) /\ i # Len(jobs)
        BY <1>8, <3>2
      <4> QED
        BY <1>2, <4>1
    <3> QED
      BY <1>2, <3>1, <3>2
  <2>2. i + 1 \in DOMAIN jobs
    BY <1>2, <2>1
  <2> QED
    BY <1>2, <2>1, <2>2
<1>9. ASSUME jobs' = Append(Tail(jobs), c) PROVE InLine(jobs', c, c)
  <2>1. Len(jobs) \in DOMAIN jobs' /\ jobs'[Len(jobs)] = c
    BY <1>m, <1>9
  <2> QED
    BY <1>2, <2>1 DEF InLine
<1>10. ASSUME jobs' = Tail(jobs), NEW i \in DOMAIN jobs' PROVE jobs'[i] # c
  <2>1. i \in 1 .. Len(jobs) - 1
    BY <1>1, <1>10, TailFacts
  <2>2. i + 1 \in DOMAIN jobs /\ i + 1 # 1 /\ jobs'[i] = jobs[i + 1]
    BY <1>2, <2>1
  <2> QED
    BY <1>2, <1>3, <2>2
<1> QED
  BY <1>2, <1>5, <1>6, <1>7, <1>8, <1>9, <1>10

\* What a turn of c does to the memory and to the ends of calls: it remembers
\* its own estimator only ahead of another turn, and what it selects, or what it
\* has made when it ends well, was remembered by a call that is still in line.
LEMMA TurnOrder ==
  ASSUME TypeOK, TypeOK', Order, NEW c \in Started, NEW l \in Labels \ {"idle"},
         Turned(c), pc' = [pc EXCEPT ![c] = l], jobs' = Tail(jobs) \/ l # "done",
         UNCHANGED <<calls, seen>>,
         \A d \in Calls \ {c} : outcome'[d] = outcome[d],
         Makes(c) /\ outcome'[c] = "ok" =>
           \/ Ok(c)
           \/ /\ selectedVariant' = Variant(c)
              /\ \E i \in DOMAIN jobs : fitted'[Variant(c)] = jobs[i],
         \/ fitted' = fitted /\ l # "fitted"
         \/ /\ Makes(c) /\ jobs' = Append(Tail(jobs), c)
            /\ fitted' = [fitted EXCEPT ![Variant(c)] = c],
         \/ selectedVariant' = selectedVariant
         \/ /\ Makes(c) /\ selectedVariant' = Variant(c)
            /\ \E i \in DOMAIN jobs : fitted'[Variant(c)] = jobs[i]
  PROVE  Order'
<1>1. c \in Calls /\ Line /\ Started' = Started /\ Started \subseteq Calls
  BY CallFacts DEF Order, Started
<1>2. pc'[c] = l /\ \A d \in Calls \ {c} : pc'[d] = pc[d]
  BY <1>1 DEF TypeOK
<1>3. /\ \A g \in Calls \ {c} : \A x : InLine(jobs, g, x) => InLine(jobs', g, x)
      /\ \A g \in Calls \ {c} : jobs' = Append(Tail(jobs), c) =>
           \A x : InLine(jobs, g, x) => InLine(jobs', g, c)
      /\ \A i, j \in DOMAIN jobs' : jobs'[i] = jobs'[j] => i = j
      /\ \A i \in DOMAIN jobs' : jobs'[i] # c => \E j \in DOMAIN jobs : jobs'[i] = jobs[j]
      /\ jobs' = Append(Tail(jobs), c) => InLine(jobs', c, c)
      /\ jobs' = Tail(jobs) => \A i \in DOMAIN jobs' : jobs'[i] # c
      /\ \E i \in DOMAIN jobs : jobs[i] = c
  BY <1>1, TurnedFacts
<1>4. c # None /\ \A e \in Calls : c \notin seen[e]
  BY <1>3, InLineFacts
<1>5. \A d \in Calls : (Op(d)' = Op(d) /\ Variant(d)' = Variant(d) /\ (Makes(d)' <=> Makes(d)))
  BY DEF Op, Variant, Makes
<1>6. Makers' = Makers
  BY <1>1, <1>5 DEF Makers
<1>7. Past'
  <2> SUFFICES ASSUME NEW e \in Calls, NEW d \in seen[e]
               PROVE  d \in Started /\ pc'[d] = "done" /\ outcome'[d] = "ok"
    BY <1>1 DEF Past, Ok
  <2>1. d \in Started /\ pc[d] = "done" /\ outcome[d] = "ok" /\ d # c
    BY <1>4 DEF Order, Past, Ok
  <2> QED
    BY <1>1, <1>2, <2>1
<1>8. Line'
  <2> SUFFICES ASSUME NEW i \in DOMAIN jobs' PROVE pc'[jobs'[i]] \notin {"idle", "done"}
    BY <1>3 DEF Line
  <2>1. CASE jobs'[i] = c
    BY <1>2, <1>3, <2>1
  <2>2. CASE jobs'[i] # c
    <3>1. PICK j \in DOMAIN jobs : jobs'[i] = jobs[j]
      BY <1>3, <2>2
    <3>2. jobs[j] \in Calls /\ pc[jobs[j]] \notin {"idle", "done"}
      BY <1>1 DEF Line, TypeOK
    <3> QED
      BY <1>2, <2>2, <3>1, <3>2
  <2> QED
    BY <2>1, <2>2
<1>9. \A v \in Variants :
        fitted'[v] = fitted[v] \/ (fitted'[v] = c /\ Makes(c) /\ Variant(c) = v)
  <2>1. fitted \in [Variants -> Calls \cup {None}]
    BY DEF TypeOK
  <2>2. \/ fitted' = fitted
        \/ Makes(c) /\ fitted' = [fitted EXCEPT ![Variant(c)] = c]
    OBVIOUS
  <2>3. ASSUME NEW v \in Variants, fitted' = [fitted EXCEPT ![Variant(c)] = c]
        PROVE  fitted'[v] = fitted[v] \/ (fitted'[v] = c /\ Variant(c) = v)
    BY <2>1, <2>3
  <2> QED
    BY <2>2, <2>3
<1>10. Made'
  <2> SUFFICES ASSUME NEW v \in Variants, fitted'[v] # None
               PROVE  fitted'[v] \in Makers /\ calls'[fitted'[v]].variant = v
    BY <1>6 DEF Made, Variant
  <2> QED
    BY <1>9 DEF Order, Made, Makers, Variant
<1>11. Selecting'
  <2> SUFFICES ASSUME NEW g \in Started, pc'[g] = "fitted"
               PROVE  InLine(jobs', g, fitted'[Variant(g)])
    BY <1>1, <1>5 DEF Selecting
  <2>1. CASE g = c
    <3>1. Makes(c) /\ jobs' = Append(Tail(jobs), c) /\ fitted' = [fitted EXCEPT ![Variant(c)] = c]
      BY <1>2, <2>1
    <3>2. Variant(c) \in Variants
      BY <3>1, MakerFacts DEF Makers
    <3>3. fitted'[Variant(c)] = c
      BY <3>1, <3>2 DEF TypeOK
    <3>4. InLine(jobs', c, c)
      BY <1>3, <3>1
    <3> QED
      BY <2>1, <3>3, <3>4
  <2>2. CASE g # c
    <3>1. g \in Calls \ {c} /\ InLine(jobs, g, fitted[Variant(g)])
      BY <1>1, <1>2, <2>2 DEF Order, Selecting
    <3>2. CASE fitted'[Variant(g)] = fitted[Variant(g)]
      BY <1>3, <3>1, <3>2
    <3>3. CASE fitted'[Variant(g)] # fitted[Variant(g)]
      <4>1. jobs' = Append(Tail(jobs), c) /\ fitted' = [fitted EXCEPT ![Variant(c)] = c]
        BY <3>3
      <4>2. fitted'[Variant(g)] = c
        BY <3>3, <4>1 DEF TypeOK
      <4> QED
        BY <1>3, <3>1, <4>1, <4>2
    <3> QED
      BY <3>2, <3>3
  <2> QED
    BY <2>1, <2>2
<1>12. Newer'
  <2> SUFFICES ASSUME NEW e \in Makers, outcome'[e] = "ok"
               PROVE  /\ fitted'[Variant(e)] # None /\ fitted'[Variant(e)] \notin seen[e]
                      /\ Selected' \notin seen[e]
    BY <1>1, <1>5, <1>6 DEF Newer, Ok, Makers
  <2>1. e \in Calls /\ Variant(e) \in Variants /\ seen[e] \subseteq Calls
    BY MakerFacts DEF TypeOK
  <2>2. \A i \in DOMAIN jobs : jobs[i] # None /\ jobs[i] \notin seen[e]
    BY <2>1, InLineFacts
  <2>3. None \notin seen[e]
    BY <2>1, ConstantsAssumption DEF Calls
  <2>4. CASE Ok(e)
    <3>1. /\ fitted[Variant(e)] # None /\ fitted[Variant(e)] \notin seen[e]
          /\ Selected \notin seen[e]
      BY <2>4 DEF Order, Newer
    <3>2. fitted'[Variant(e)] # None /\ fitted'[Variant(e)] \notin seen[e]
      BY <1>4, <1>9, <2>1, <3>1
    <3>3. CASE selectedVariant' = selectedVariant
      <4>1. selectedVariant # None => selectedVariant \in Variants
        BY DEF TypeOK
      <4>2. Selected' = Selected \/ Selected' = c
        BY <1>9, <3>3, <4>1 DEF Selected
      <4> QED
        BY <1>4, <2>1, <3>1, <3>2, <4>2
    <3>4. CASE selectedVariant' # selectedVariant
      <4>1. PICK i \in DOMAIN jobs : fitted'[Variant(c)] = jobs[i]
        BY <3>4
      <4>2. Selected' = jobs[i] \/ Selected' = None
        BY <3>4, <4>1 DEF Selected
      <4> QED
        BY <2>2, <2>3, <3>2, <4>1, <4>2
    <3> QED
      BY <3>3, <3>4
  <2>5. CASE ~ Ok(e)
    <3>1. e = c
      BY <2>1, <2>5 DEF Ok
    <3>2. PICK i \in DOMAIN jobs : fitted'[Variant(c)] = jobs[i]
      BY <2>5, <3>1 DEF Makers
    <3>3. fitted'[Variant(e)] # None /\ fitted'[Variant(e)] \notin seen[e]
      BY <2>2, <3>1, <3>2
    <3>4. selectedVariant' = Variant(c)
      BY <2>5, <3>1 DEF Makers
    <3>5. Selected' = fitted'[Variant(c)] \/ Selected' = None
      BY <3>4 DEF Selected
    <3> QED
      BY <2>3, <3>1, <3>3, <3>5
  <2> QED
    BY <2>4, <2>5
<1> QED
  BY <1>7, <1>8, <1>10, <1>11, <1>12 DEF Order

\* A call that begins reads the memory and writes none of it.
LEMMA OpenOrder ==
  ASSUME TypeOK, TypeOK', Order, NEW c \in Calls, NEW r \in Requests,
         NEW l \in {"fit", "answer", "restore", "done"}, Open(c, r, l), Stage(c), Keyed(c),
         jobs' = jobs, outcome'[c] # "ok", \A d \in Calls \ {c} : outcome'[d] = outcome[d]
  PROVE  /\ Order'
         /\ Started' = Started \cup {c} /\ \A d \in Started : calls'[d] = calls[d]
         /\ Makers \subseteq Makers' /\ Makers' \subseteq Makers \cup {c}
         /\ \A d \in Calls \ {c} : seen'[d] = seen[d]
         /\ seen'[c] = {d \in Started : pc[d] = "done" /\ Ok(d)}
         /\ c \notin Started
<1>1. /\ pc' = [pc EXCEPT ![c] = l] /\ c \notin Started /\ Started' = Started \cup {c}
      /\ \A d \in Started : calls'[d] = calls[d]
      /\ UNCHANGED <<fitted, selectedVariant, trained>>
      /\ seen' = [seen EXCEPT ![c] = {d \in Started : pc[d] = "done" /\ Ok(d)}]
  <2>1. l \in Labels /\ Started = 1 .. Len(calls)
    BY DEF Labels, Started, TypeOK
  <2> QED
    BY <2>1, OpenFacts DEF memory, Open, Ok
<1>2. /\ pc[c] = "idle" /\ pc'[c] = l /\ \A d \in Calls \ {c} : pc'[d] = pc[d]
      /\ seen'[c] = {d \in Started : pc[d] = "done" /\ Ok(d)}
      /\ \A d \in Calls \ {c} : seen'[d] = seen[d]
  BY <1>1 DEF TypeOK, Stage
<1>3. \A d \in Started : d \in Calls /\ d # c
  BY <1>1, CallFacts
<1>4. \A d \in Started : Op(d)' = Op(d) /\ Variant(d)' = Variant(d) /\ (Makes(d)' <=> Makes(d))
  BY <1>1 DEF Op, Variant, Makes
<1>5. Makers \subseteq Makers' /\ Makers' \subseteq Makers \cup {c}
  BY <1>1, <1>4 DEF Makers
<1>6. Past'
  <2> SUFFICES ASSUME NEW e \in Calls, NEW d \in seen'[e]
               PROVE  d \in Started' /\ pc'[d] = "done" /\ outcome'[d] = "ok"
    BY DEF Past, Ok
  <2>1. d \in Started /\ pc[d] = "done" /\ outcome[d] = "ok"
    BY <1>2 DEF Order, Past, Ok
  <2> QED
    BY <1>1, <1>2, <1>3, <2>1
<1>7. Line'
  <2>1. \A i \in DOMAIN jobs : jobs[i] \in Calls /\ pc[jobs[i]] \notin {"idle", "done"}
    BY DEF Order, Line, TypeOK
  <2>2. \A i \in DOMAIN jobs : pc'[jobs[i]] \notin {"idle", "done"}
    BY <1>2, <2>1
  <2> QED
    BY <2>2 DEF Order, Line
<1>8. Made'
  <2> SUFFICES ASSUME NEW v \in Variants, fitted[v] # None
               PROVE  fitted[v] \in Makers' /\ calls'[fitted[v]].variant = v
    BY <1>1 DEF Made, Variant
  <2>1. fitted[v] \in Makers /\ fitted[v] \in Started /\ calls[fitted[v]].variant = v
    BY DEF Order, Made, Makers, Variant
  <2> QED
    BY <1>1, <1>5, <2>1
<1>9. Selecting'
  <2> SUFFICES ASSUME NEW g \in Started', pc'[g] = "fitted"
               PROVE  InLine(jobs', g, fitted'[calls'[g].variant])
    BY DEF Selecting, Variant
  <2>1. g \in Started /\ pc[g] = "fitted"
    BY <1>1, <1>2, <1>3
  <2>2. InLine(jobs, g, fitted[Variant(g)])
    BY <2>1 DEF Order, Selecting
  <2> QED
    BY <1>1, <2>1, <2>2 DEF Variant
<1>10. Newer'
  <2> SUFFICES ASSUME NEW e \in Makers', outcome'[e] = "ok"
               PROVE  /\ fitted'[calls'[e].variant] # None
                      /\ fitted'[calls'[e].variant] \notin seen'[e]
                      /\ Selected' \notin seen'[e]
    BY DEF Newer, Ok, Variant
  <2>1. e \in Makers /\ e \in Started /\ e \in Calls /\ e # c /\ Ok(e)
    BY <1>3, <1>5 DEF Makers, Ok
  <2>2. /\ fitted[Variant(e)] # None /\ fitted[Variant(e)] \notin seen[e]
        /\ Selected \notin seen[e]
    BY <2>1 DEF Order, Newer
  <2>3. Selected' = Selected
    BY <1>1 DEF Selected
  <2> QED
    BY <1>1, <1>2, <2>1, <2>2, <2>3 DEF Variant
<1> QED
  BY <1>1, <1>2, <1>5, <1>6, <1>7, <1>8, <1>9, <1>10 DEF Order

LEMMA SettleOrder ==
  ASSUME TypeOK, TypeOK', Order, NEW c \in Calls, Settle(c)
  PROVE  Order'
<1>1. /\ jobs' = Append(jobs, c) /\ pc[c] \notin {"idle", "done"}
      /\ \A k \in DOMAIN jobs : jobs[k] # c
      /\ UNCHANGED <<calls, pc, fitted, selectedVariant, outcome, seen>>
  BY DEF Settle, Waiting, memory
<1>2. /\ Len(jobs) \in Nat /\ DOMAIN jobs = 1 .. Len(jobs) /\ DOMAIN jobs' = 1 .. Len(jobs) + 1
      /\ \A i \in DOMAIN jobs : jobs'[i] = jobs[i]
      /\ jobs'[Len(jobs) + 1] = c
  BY <1>1 DEF TypeOK
<1>3. \A i \in DOMAIN jobs' : i \in DOMAIN jobs \/ i = Len(jobs) + 1
  <2>1. \A n \in Nat : \A k \in 1 .. n + 1 : k \in 1 .. n \/ k = n + 1
    OBVIOUS
  <2> QED
    BY <1>2, <2>1
<1>4. DOMAIN jobs \subseteq DOMAIN jobs'
  BY <1>2
<1>5. Line'
  <2>1. ASSUME NEW i \in DOMAIN jobs', NEW j \in DOMAIN jobs', jobs'[i] = jobs'[j]
        PROVE  i = j
    <3>1. CASE i \in DOMAIN jobs /\ j \in DOMAIN jobs
      <4>1. jobs[i] = jobs[j]
        BY <1>2, <2>1, <3>1
      <4> QED
        BY <3>1, <4>1 DEF Order, Line
    <3>2. \A k \in DOMAIN jobs : jobs'[k] # c
      BY <1>1, <1>2
    <3>3. CASE i \notin DOMAIN jobs \/ j \notin DOMAIN jobs
      BY <1>2, <1>3, <2>1, <3>2, <3>3
    <3> QED
      BY <3>1, <3>3
  <2>2. ASSUME NEW i \in DOMAIN jobs' PROVE pc'[jobs'[i]] \notin {"idle", "done"}
    <3>1. CASE i \in DOMAIN jobs
      BY <1>1, <1>2, <3>1 DEF Order, Line
    <3> QED
      BY <1>1, <1>2, <1>3, <3>1
  <2> QED
    BY <2>1, <2>2 DEF Line
<1>6. Selecting'
  <2> SUFFICES ASSUME NEW g \in Started, pc[g] = "fitted"
               PROVE  InLine(jobs', g, fitted[Variant(g)])
    BY <1>1 DEF Selecting, Started, Variant
  <2>1. InLine(jobs, g, fitted[Variant(g)])
    BY DEF Order, Selecting
  <2>2. PICK i \in DOMAIN jobs, j \in DOMAIN jobs :
          i <= j /\ jobs[i] = g /\ jobs[j] = fitted[Variant(g)]
    BY <2>1 DEF InLine
  <2>3. i \in DOMAIN jobs' /\ j \in DOMAIN jobs' /\ jobs'[i] = g /\ jobs'[j] = fitted[Variant(g)]
    BY <1>2, <1>4, <2>2
  <2> QED
    BY <2>2, <2>3 DEF InLine
<1> QED
  BY <1>1, <1>5, <1>6
  DEF Order, Past, Made, Newer, Started, Ok, Makers, Makes, Op, Variant, Selected

LatestFor(c) ==
  served[c] # None /\ Op(c) # "FIT_CV" =>
    Latest(c, IF Own(c) \cap seen[c] # {} THEN Own(c) ELSE Makers)

\* What served a call goes on being the latest it could see: what it saw is
\* settled, and calls that begin later are none of its rivals.
LEMMA LatestStays ==
  ASSUME TypeOK, Order, NEW c \in Started, LatestFor(c),
         Op(c) # "FIT_CV" => served'[c] = served[c],
         \A d \in Started : d \in Started' /\ calls'[d] = calls[d] /\ seen'[d] = seen[d]
  PROVE  LatestFor(c)'
<1>1. c \in Calls /\ \A d \in seen[c] : d \in Started
  BY CallFacts DEF Order, Past
<1>2. \A d \in Started : /\ Op(d)' = Op(d) /\ Variant(d)' = Variant(d) /\ (Makes(d)' <=> Makes(d))
                         /\ seen'[d] = seen[d]
  BY DEF Op, Variant, Makes
<1>3. Makers \subseteq Makers' /\ \A d \in Started : d \in Makers' => d \in Makers
  BY <1>2 DEF Makers
<1>4. Own(c) \subseteq Own(c)' /\ \A d \in Started : d \in Own(c)' => d \in Own(c)
  <2>1. \A d \in Own(c) : d \in Makers /\ d \in Started
    BY DEF Own, Makers
  <2> QED
    BY <1>2, <1>3, <2>1 DEF Own
<1>5. Own(c)' \cap seen'[c] = Own(c) \cap seen[c] /\ Makers' \cap seen'[c] = Makers \cap seen[c]
  BY <1>1, <1>2, <1>3, <1>4
<1> SUFFICES ASSUME served'[c] # None, Op(c)' # "FIT_CV"
             PROVE  LET rivals == IF Own(c)' \cap seen'[c] # {} THEN Own(c)' ELSE Makers'
                    IN  /\ served'[c] \in rivals
                        /\ \A e \in rivals \cap seen'[c] : served'[c] \notin seen'[e]
  BY DEF LatestFor, Latest, Superseded
<1>6. served'[c] = served[c] /\ served[c] # None /\ Op(c) # "FIT_CV"
  BY <1>2
<1>7. LET rivals == IF Own(c) \cap seen[c] # {} THEN Own(c) ELSE Makers
      IN  /\ served[c] \in rivals
          /\ \A e \in rivals \cap seen[c] : served[c] \notin seen[e]
  BY <1>6 DEF LatestFor, Latest, Superseded
<1>8. \A e \in seen[c] : seen'[e] = seen[e]
  BY <1>1
<1> QED
  BY <1>3, <1>4, <1>5, <1>6, <1>7, <1>8

\* A call that begins is served by the latest estimator made for it.
LEMMA LatestBegins ==
  ASSUME TypeOK, Order, NEW c \in Calls, NEW r \in Requests, NEW x \in Calls, served'[c] = x,
         \/ r.op = "PREDICT" /\ r.variant \in Variants /\ x = OfVariant(r.variant)
         \/ r.op # "PREDICT" /\ x = Selected,
         calls'[c] = r, \A d \in Started : calls'[d] = calls[d],
         Makers \subseteq Makers', Makers' \subseteq Makers \cup {c},
         \A d \in Calls \ {c} : seen'[d] = seen[d],
         seen'[c] = {d \in Started : pc[d] = "done" /\ Ok(d)}, c \notin Started
  PROVE  LatestFor(c)'
<1>1. \A e \in Makers' \cap seen'[c] :
        /\ e \in Makers /\ e \in Calls /\ Ok(e) /\ seen'[e] = seen[e]
        /\ calls'[e] = calls[e] /\ x # None
        /\ fitted[Variant(e)] # None /\ fitted[Variant(e)] \notin seen[e]
        /\ Selected \notin seen[e]
  <2> SUFFICES ASSUME NEW e \in Makers' \cap seen'[c]
               PROVE  /\ e \in Makers /\ e \in Calls /\ Ok(e) /\ seen'[e] = seen[e]
                      /\ calls'[e] = calls[e] /\ x # None
                      /\ fitted[Variant(e)] # None /\ fitted[Variant(e)] \notin seen[e]
                      /\ Selected \notin seen[e]
    OBVIOUS
  <2>1. e \in Started /\ Ok(e) /\ e # c
    OBVIOUS
  <2>2. e \in Makers /\ e \in Calls
    BY <2>1, CallFacts
  <2>3. x # None
    BY ConstantsAssumption DEF Calls
  <2> QED
    BY <2>1, <2>2, <2>3 DEF Order, Newer
<1>2. \A v \in Variants : fitted[v] # None =>
        /\ fitted[v] \in Makers /\ calls[fitted[v]].variant = v
        /\ calls'[fitted[v]].variant = v /\ fitted[v] \in Makers'
  BY DEF Order, Made, Variant, Makers
<1>3. x # None /\ x \in Makers'
  <2>1. x # None
    BY ConstantsAssumption DEF Calls
  <2>2. \E v \in Variants : x = fitted[v]
    BY <2>1, SelectedFacts
  <2> QED
    BY <1>2, <2>1, <2>2
<1>4. Own(c)' = {d \in Makers' : r.op = "PREDICT" /\ calls'[d].variant = r.variant}
  BY DEF Own, Op, Variant
<1>5. CASE Own(c)' \cap seen'[c] # {}
  <2>1. PICK d \in Makers' \cap seen'[c] : r.op = "PREDICT" /\ calls'[d].variant = r.variant
    BY <1>4, <1>5
  <2>2. fitted[r.variant] # None /\ r.variant \in Variants
    BY <1>1, <2>1 DEF Variant
  <2>3. x = fitted[r.variant]
    BY <2>1, <2>2 DEF OfVariant
  <2>4. x \in Own(c)'
    BY <1>2, <1>4, <2>1, <2>2, <2>3
  <2>5. \A e \in Own(c)' \cap seen'[c] : x \notin seen'[e]
    <3> SUFFICES ASSUME NEW e \in Own(c)' \cap seen'[c] PROVE x \notin seen'[e]
      OBVIOUS
    <3>1. e \in Makers' \cap seen'[c] /\ calls'[e].variant = r.variant
      BY <1>4
    <3> QED
      BY <1>1, <2>3, <3>1 DEF Variant
  <2> QED
    BY <1>5, <2>4, <2>5 DEF LatestFor, Latest, Superseded
<1>6. CASE Own(c)' \cap seen'[c] = {}
  <2>1. \A e \in Makers' \cap seen'[c] : x \notin seen'[e]
    <3> SUFFICES ASSUME NEW e \in Makers' \cap seen'[c], x \in seen'[e] PROVE FALSE
      OBVIOUS
    <3>1. e \in Calls /\ x \in seen[e] /\ Selected \notin seen[e]
      BY <1>1
    <3>2. x \in Started /\ pc[x] = "done" /\ Ok(x)
      BY <3>1 DEF Order, Past
    <3>3. x \in seen'[c]
      BY <3>2
    <3>4. r.op = "PREDICT" /\ r.variant \in Variants /\ x = fitted[r.variant]
      BY <3>1 DEF OfVariant
    <3>5. x \in Own(c)'
      BY <1>2, <1>3, <1>4, <3>4
    <3> QED
      BY <1>6, <3>3, <3>5
  <2> QED
    BY <1>3, <1>6, <2>1 DEF LatestFor, Latest, Superseded
<1> QED
  BY <1>5, <1>6

LEMMA OpenLatest ==
  ASSUME TypeOK, TypeOK', Order, LatestServes, NEW c \in Calls, NEW r \in Requests,
         NEW l \in {"fit", "answer", "restore", "done"}, Open(c, r, l), Stage(c), Keyed(c),
         jobs' = jobs, outcome'[c] # "ok", \A d \in Calls \ {c} : outcome'[d] = outcome[d],
         \A d \in Calls \ {c} : served'[d] = served[d],
         \/ served'[c] = None
         \/ r.op = "PREDICT" /\ r.variant \in Variants /\ served'[c] = OfVariant(r.variant)
         \/ r.op # "PREDICT" /\ served'[c] = Selected
  PROVE  Order' /\ LatestServes'
<1>1. /\ Order'
      /\ Started' = Started \cup {c} /\ \A d \in Started : calls'[d] = calls[d]
      /\ Makers \subseteq Makers' /\ Makers' \subseteq Makers \cup {c}
      /\ \A d \in Calls \ {c} : seen'[d] = seen[d]
      /\ seen'[c] = {d \in Started : pc[d] = "done" /\ Ok(d)}
      /\ c \notin Started
  BY OpenOrder
<1>2. calls'[c] = r
  BY OpenFacts DEF Labels
<1>3. \A d \in Started : d \in Calls \ {c}
  BY <1>1, CallFacts
<1>4. ASSUME NEW d \in Started PROVE LatestFor(d)'
  <2>1. LatestFor(d)
    BY DEF LatestServes, LatestFor
  <2> QED
    BY <1>1, <1>3, <2>1, LatestStays
<1>5. LatestFor(c)'
  <2>1. CASE served'[c] = None
    BY <2>1 DEF LatestFor
  <2>2. CASE served'[c] # None
    <3>1. served'[c] \in Calls
      BY <2>2 DEF TypeOK
    <3>2. \/ r.op = "PREDICT" /\ r.variant \in Variants /\ served'[c] = OfVariant(r.variant)
          \/ r.op # "PREDICT" /\ served'[c] = Selected
      BY <2>2
    <3> QED
      BY <1>1, <1>2, <3>1, <3>2, LatestBegins
  <2> QED
    BY <2>1, <2>2
<1>6. \A d \in Started' : LatestFor(d)'
  BY <1>1, <1>4, <1>5
<1>7. LatestServes'
  BY <1>6 DEF LatestServes, LatestFor
<1> QED
  BY <1>1, <1>7

LEMMA RejectedLatest ==
  ASSUME Inv, TypeOK', Order, LatestServes, NEW c \in Calls, NEW r \in Requests, Rejected(c, r)
  PROVE  Order' /\ LatestServes'
<1>1. TypeOK /\ Stage(c) /\ Keyed(c)
  BY DEF Inv
<1>2. /\ Open(c, r, "done") /\ "done" \in Labels /\ outcome' = [outcome EXCEPT ![c] = "error"]
      /\ jobs' = jobs /\ served' = served
  BY DEF Rejected, Labels
<1>3. c \notin Started
  BY <1>1, <1>2, OpenFacts
<1>4. served'[c] = None /\ outcome'[c] # "ok" /\ \A d \in Calls \ {c} : outcome'[d] = outcome[d]
  BY <1>1, <1>2, <1>3 DEF Stage, TypeOK
<1> QED
  BY <1>1, <1>2, <1>4, OpenLatest

LEMMA UseLatest ==
  ASSUME Inv, TypeOK', Order, LatestServes, NEW c \in Calls, NEW r \in Requests,
         NEW x \in Calls \cup {None}, NEW data \in Cohorts \cup {Given, None} \cup Nat,
         Use(c, r, x, data, "answer"),
         \/ r.op = "PREDICT" /\ r.variant \in Variants /\ x = OfVariant(r.variant)
         \/ r.op # "PREDICT" /\ x = Selected
  PROVE  Order' /\ LatestServes'
<1>1. TypeOK /\ Stage(c) /\ Keyed(c)
  BY DEF Inv
<1>2. CASE Rejected(c, r)
  BY <1>2, RejectedLatest
<1>3. CASE ~ Rejected(c, r)
  <2>1. /\ Open(c, r, "answer") /\ served' = [served EXCEPT ![c] = x]
        /\ UNCHANGED <<jobs, outcome>>
    BY <1>1, <1>3, UseFacts
  <2>2. c \notin Started
    BY <1>1, <2>1, OpenFacts DEF Labels
  <2>3. /\ outcome'[c] # "ok" /\ served'[c] = x
        /\ \A d \in Calls \ {c} : served'[d] = served[d] /\ outcome'[d] = outcome[d]
    BY <1>1, <2>1, <2>2 DEF Stage, Keyed, TypeOK
  <2> QED
    BY <1>1, <2>1, <2>3, OpenLatest
<1> QED
  BY <1>2, <1>3

\* The start of a call that makes an estimator.
LEMMA WaitsLatest ==
  ASSUME Inv, TypeOK', Order, LatestServes, NEW c \in Calls, NEW r \in Requests,
         NEW l \in {"fit", "restore"}, Open(c, r, l), Waits, UNCHANGED <<served, rows, ids>>
  PROVE  Order' /\ LatestServes'
<1>1. TypeOK /\ Stage(c) /\ Keyed(c)
  BY DEF Inv
<1>2. c \notin Started
  BY <1>1, OpenFacts DEF Labels
<1>3. jobs' = jobs /\ outcome'[c] # "ok" /\ served'[c] = None /\ outcome' = outcome
  BY <1>1, <1>2 DEF Stage, Keyed, Waits
<1> QED
  BY <1>1, <1>3, OpenLatest

\* A turn, or a promise that is settled, changes neither requests nor what was seen.
LEMMA StaysLatest ==
  ASSUME TypeOK, Order, LatestServes, UNCHANGED <<calls, seen>>,
         \A d \in Started : Op(d) # "FIT_CV" => served'[d] = served[d]
  PROVE  LatestServes'
<1>1. ASSUME NEW d \in Started PROVE LatestFor(d)'
  <2>1. LatestFor(d) /\ Started' = Started
    BY DEF LatestServes, LatestFor, Started
  <2> QED
    BY <2>1, LatestStays
<1>2. \A d \in Started' : LatestFor(d)'
  BY <1>1 DEF Started
<1> QED
  BY <1>2 DEF LatestServes, LatestFor

\* A turn of a call that has no estimator to remember or has remembered it.
LEMMA PlainTurn ==
  ASSUME Inv, TypeOK', Order, LatestServes, NEW c \in Calls, NEW k \in Labels \ {"idle"},
         NEW l \in Labels \ {"idle", "fitted"}, Turn(c, k),
         jobs' \in {Tail(jobs), Append(Tail(jobs), c)}, jobs' = Tail(jobs) \/ l # "done",
         pc' = [pc EXCEPT ![c] = l], UNCHANGED <<calls, seen, fitted, selectedVariant>>,
         \A d \in Calls \ {c} : outcome'[d] = outcome[d],
         Makes(c) /\ outcome'[c] = "ok" => Ok(c),
         \A d \in Started : Op(d) # "FIT_CV" => served'[d] = served[d]
  PROVE  Order' /\ LatestServes'
<1>1. TypeOK /\ c \in Started
  BY TurnStarted DEF Inv
<1>2. Turned(c)
  BY DEF Turned, Turn
<1>3. Order'
  BY <1>1, <1>2, TurnOrder
<1> QED
  BY <1>1, <1>3, StaysLatest

\* A job that ends in an error.
LEMMA FailsLatest ==
  ASSUME Inv, TypeOK', Order, LatestServes, NEW c \in Calls, NEW k \in Labels \ {"idle"},
         Turn(c, k), Fails(c), UNCHANGED <<calls, seen>>
  PROVE  Order' /\ LatestServes'
<1>1. /\ pc' = [pc EXCEPT ![c] = "done"] /\ jobs' = Tail(jobs)
      /\ outcome' = [outcome EXCEPT ![c] = "error"]
      /\ UNCHANGED <<fitted, selectedVariant, served>>
  BY DEF Fails, Close, memory, locals
<1>2. outcome'[c] # "ok" /\ \A d \in Calls \ {c} : outcome'[d] = outcome[d]
  BY <1>1 DEF Inv, TypeOK
<1>3. "done" \in Labels \ {"idle", "fitted"}
  BY DEF Labels
<1> QED
  BY <1>1, <1>2, <1>3, PlainTurn

LEMMA LatestInit == Init => Order /\ LatestServes
<1> SUFFICES ASSUME Init PROVE Order /\ LatestServes
  OBVIOUS
<1>1. Started = {} /\ DOMAIN jobs = {}
  BY DEF Init, Started
<1> QED
  BY <1>1 DEF Init, Order, Past, Line, Made, Selecting, Newer, Makers, LatestServes

LEMMA LatestStep == Inv /\ Order /\ LatestServes /\ [Next]_vars => Order' /\ LatestServes'
<1> SUFFICES ASSUME Inv, Order, LatestServes, [Next]_vars PROVE Order' /\ LatestServes'
  OBVIOUS
<1>t. TypeOK /\ TypeOK'
  BY InvStep DEF Inv
<1>1. ASSUME NEW c \in Calls, BeginFit(c) PROVE Order' /\ LatestServes'
  <2> PICK r \in Fits : \/ Open(c, r, "fit") /\ Waits /\ UNCHANGED <<served, rows, ids>>
                        \/ MayFail /\ Rejected(c, r)
    BY <1>1 DEF BeginFit
  <2>1. r \in Requests
    BY RequestTypes
  <2> QED
    BY <1>t, <2>1, WaitsLatest, RejectedLatest
<1>2. ASSUME NEW c \in Calls, BeginTask(c) PROVE Order' /\ LatestServes'
  <2> PICK r \in Tasks : Use(c, r, OfVariant(r.variant), predictionData, "answer")
    BY <1>2 DEF BeginTask
  <2>1. /\ r \in Requests /\ r.op = "PREDICT" /\ r.variant \in Variants
        /\ OfVariant(r.variant) \in Calls \cup {None}
    BY <1>t, RequestTypes, SelectedFacts DEF Tasks
  <2>2. predictionData \in Cohorts \cup {Given, None} \cup Nat
    BY <1>t DEF TypeOK
  <2> QED
    BY <1>t, <2>1, <2>2, UseLatest
<1>3. ASSUME NEW c \in Calls, BeginPredict(c) \/ BeginExport(c) PROVE Order' /\ LatestServes'
  <2>1. Selected \in Calls \cup {None}
    BY <1>t, SelectedFacts
  <2>2. Prediction \in Requests /\ Prediction.op # "PREDICT"
    BY RequestTypes DEF Prediction
  <2>3. Export \in Requests /\ Export.op # "PREDICT" /\ Whole \in Cohorts
    BY RequestTypes DEF Export, Cohorts
  <2>4. CASE Use(c, Prediction, Selected, Given, "answer")
    BY <1>t, <2>1, <2>2, <2>4, UseLatest
  <2>5. CASE Use(c, Export, Selected, Whole, "answer")
    BY <1>t, <2>1, <2>3, <2>5, UseLatest
  <2> QED
    BY <1>t, <1>3, <2>2, <2>4, <2>5, RejectedLatest DEF BeginPredict, BeginExport
<1>4. ASSUME NEW c \in Calls, BeginImport(c) PROVE Order' /\ LatestServes'
  <2>1. Import \in Requests
    BY RequestTypes
  <2> QED
    BY <1>t, <1>4, <2>1, WaitsLatest, RejectedLatest DEF BeginImport
<1>5. ASSUME NEW c \in Calls, Settle(c) PROVE Order' /\ LatestServes'
  <2>1. Order'
    BY <1>t, <1>5, SettleOrder
  <2>2. UNCHANGED <<calls, seen, served>>
    BY <1>5 DEF Settle, locals
  <2> QED
    BY <1>t, <2>1, <2>2, StaysLatest
<1>6. ASSUME NEW c \in Calls, Fitted(c) PROVE Order' /\ LatestServes'
  <2>1. Turn(c, "fit") /\ {"fit", "trained"} \subseteq Labels \ {"idle", "fitted"}
    BY <1>6 DEF Fitted, Labels
  <2>2. CASE Yield(c, "trained") /\ UNCHANGED <<calls, seen, memory, served>>
    BY <1>t, <2>1, <2>2, PlainTurn DEF Yield, memory, Ok
  <2> QED
    BY <1>t, <1>6, <2>1, <2>2, FailsLatest DEF Fitted
<1>7. ASSUME NEW c \in Calls, Validate(c) PROVE Order' /\ LatestServes'
  <2>1. Turn(c, "trained") /\ {"trained", "answer"} \subseteq Labels \ {"idle", "fitted"}
    BY <1>7 DEF Validate, Labels
  <2>2. /\ jobs' = Tail(jobs) /\ pc' = [pc EXCEPT ![c] = "answer"] /\ outcome' = outcome
        /\ UNCHANGED <<calls, seen, fitted, selectedVariant>>
        /\ Op(c) = "FIT_CV" /\ served' = [served EXCEPT ![c] = c]
    BY <1>7 DEF Validate, Await, memory
  <2>3. \A d \in Started : Op(d) # "FIT_CV" => served'[d] = served[d]
    BY <1>t, <2>2, CallFacts DEF TypeOK
  <2> QED
    BY <1>t, <2>1, <2>2, <2>3, PlainTurn DEF Ok
<1>8. ASSUME NEW c \in Calls, Remember(c) PROVE Order' /\ LatestServes'
  <2>1. /\ Turn(c, "trained") /\ "trained" \in Labels /\ "fitted" \in Labels
        /\ Op(c) # "FIT_CV"
    BY <1>8 DEF Remember, Labels
  <2>2. c \in Started /\ Makes(c)
    BY <2>1, TurnStarted DEF Stage, Makes
  <2>3. /\ jobs' = Append(Tail(jobs), c) /\ pc' = [pc EXCEPT ![c] = "fitted"]
        /\ outcome' = outcome /\ fitted' = [fitted EXCEPT ![Variant(c)] = c]
        /\ UNCHANGED <<calls, seen, selectedVariant, served>>
    BY <1>8 DEF Remember, Yield, locals
  <2>4. Turned(c)
    BY <2>1, <2>3 DEF Turned, Turn
  <2>5. Order'
    BY <1>t, <2>1, <2>2, <2>3, <2>4, TurnOrder DEF Ok
  <2> QED
    BY <1>t, <2>3, <2>5, StaysLatest
<1>9. ASSUME NEW c \in Calls, Select(c) PROVE Order' /\ LatestServes'
  <2>1. Turn(c, "fitted") /\ "fitted" \in Labels /\ "return" \in Labels
    BY <1>9 DEF Select, Labels
  <2>2. c \in Started /\ pc[c] = "fitted" /\ Makes(c)
    BY <2>1, TurnStarted DEF Stage, Makes
  <2>3. /\ jobs' = Append(Tail(jobs), c) /\ pc' = [pc EXCEPT ![c] = "return"]
        /\ outcome' = [outcome EXCEPT ![c] = "ok"] /\ selectedVariant' = Variant(c)
        /\ UNCHANGED <<calls, seen, fitted, served>>
    BY <1>9 DEF Select, Resolve, locals
  <2>4. Turned(c)
    BY <2>1, <2>3 DEF Turned, Turn
  <2>5. \E i \in DOMAIN jobs : fitted'[Variant(c)] = jobs[i]
    BY <2>2, <2>3 DEF Order, Selecting, InLine
  <2>6. \A d \in Calls \ {c} : outcome'[d] = outcome[d]
    BY <1>t, <2>3 DEF TypeOK
  <2>7. Order'
    BY <1>t, <2>1, <2>2, <2>3, <2>4, <2>5, <2>6, TurnOrder
  <2> QED
    BY <1>t, <2>3, <2>7, StaysLatest
<1>10. ASSUME NEW c \in Calls, Answer(c) PROVE Order' /\ LatestServes'
  <2>1. /\ Turn(c, "answer") /\ {"answer", "done"} \subseteq Labels \ {"idle", "fitted"}
        /\ UNCHANGED <<calls, seen>>
    BY <1>10 DEF Answer, Labels
  <2>2. CASE Close(c, "ok") /\ UNCHANGED <<memory, locals>>
    <3>1. ~ Makes(c)
      BY <2>1, TurnStarted DEF Stage, Makes
    <3>2. /\ jobs' = Tail(jobs) /\ pc' = [pc EXCEPT ![c] = "done"]
          /\ outcome' = [outcome EXCEPT ![c] = "ok"]
          /\ UNCHANGED <<fitted, selectedVariant, served>>
      BY <2>2 DEF Close, memory, locals
    <3>3. \A d \in Calls \ {c} : outcome'[d] = outcome[d]
      BY <1>t, <3>2 DEF TypeOK
    <3> QED
      BY <1>t, <2>1, <3>1, <3>2, <3>3, PlainTurn
  <2> QED
    BY <1>t, <1>10, <2>1, <2>2, FailsLatest DEF Answer
<1>11. ASSUME NEW c \in Calls, Restored(c) PROVE Order' /\ LatestServes'
  <2>1. /\ Turn(c, "restore") /\ "restore" \in Labels \ {"idle"} /\ "return" \in Labels
        /\ UNCHANGED <<calls, seen>>
    BY <1>11 DEF Restored, Labels
  <2>2. CASE ~ Fails(c)
    <3>1. c \in Started /\ Op(c) = "importModel" /\ Makes(c)
      BY <2>1, TurnStarted DEF Stage, Makes
    <3>2. Variant(c) = Base
      <4>1. calls[c] \in Requests
        BY <1>t, <3>1, CallFacts
      <4> QED
        BY <3>1, <4>1 DEF Op, Variant, Requests, Fits, Tasks, Prediction, Export, Import
    <3>3. /\ jobs' = Append(Tail(jobs), c) /\ pc' = [pc EXCEPT ![c] = "return"]
          /\ outcome' = [outcome EXCEPT ![c] = "ok"] /\ selectedVariant' = Variant(c)
          /\ fitted' = [fitted EXCEPT ![Variant(c)] = c]
          /\ UNCHANGED <<calls, seen, served>>
      BY <1>11, <2>2, <3>2 DEF Restored, Resolve
    <3>4. Turned(c)
      BY <2>1, <3>3 DEF Turned, Turn
    <3>5. fitted'[Variant(c)] = c
      BY <1>t, <3>2, <3>3, ConstantsAssumption DEF TypeOK
    <3>6. \E i \in DOMAIN jobs : fitted'[Variant(c)] = jobs[i]
      <4>1. \E i \in DOMAIN jobs : jobs[i] = c
        BY <1>t, <3>4, TurnedFacts DEF Order
      <4> QED
        BY <3>5, <4>1
    <3>7. \A d \in Calls \ {c} : outcome'[d] = outcome[d]
      BY <1>t, <3>3 DEF TypeOK
    <3>8. Order'
      BY <1>t, <2>1, <3>1, <3>3, <3>4, <3>6, <3>7, TurnOrder
    <3> QED
      BY <1>t, <3>3, <3>8, StaysLatest
  <2> QED
    BY <1>t, <2>1, <2>2, FailsLatest
<1>12. ASSUME NEW c \in Calls, Deliver(c) PROVE Order' /\ LatestServes'
  <2>1. Turn(c, "return") /\ {"return", "done"} \subseteq Labels \ {"idle", "fitted"}
    BY <1>12 DEF Deliver, Labels
  <2>2. /\ jobs' = Tail(jobs) /\ pc' = [pc EXCEPT ![c] = "done"]
        /\ UNCHANGED <<calls, seen, fitted, selectedVariant, served, outcome>>
    BY <1>12 DEF Deliver, memory, locals
  <2> QED
    BY <1>t, <2>1, <2>2, PlainTurn DEF Ok
<1>13. ASSUME SetPredictionDataset \/ UNCHANGED vars PROVE Order' /\ LatestServes'
  <2>1. UNCHANGED <<calls, pc, jobs, fitted, selectedVariant, served, outcome, seen>>
    BY <1>13 DEF SetPredictionDataset, vars, memory, locals
  <2>2. Order'
    BY <2>1 DEF Order, Past, Line, Made, Selecting, Newer, Started, Ok, Makers, Makes, Op, Variant, Selected
  <2> QED
    BY <1>t, <2>1, <2>2, StaysLatest
<1> QED
  BY <1>1, <1>2, <1>3, <1>4, <1>5, <1>6, <1>7, <1>8, <1>9, <1>10, <1>11, <1>12, <1>13
  DEF Next, Begin, Job

-----------------------------------------------------------------------------
(* The theorems.                                                           *)

\* Every variable of the controller keeps its type, whatever calls overlap
\* (createAsyncJsEstimatorController).
THEOREM TypeCorrectness == Spec => []TypeOK
<1>1. Inv => TypeOK
  BY DEF Inv
<1> QED
  BY <1>1, Invariance, PTL

\* KeyedByIdentity: predictions bear the ids of the rows they were made for,
\* whatever datasets the host sets meanwhile (invokeAsync, predict).
THEOREM Identities == Spec => []KeyedByIdentity
<1>1. Inv => KeyedByIdentity
  <2> SUFFICES ASSUME Inv, NEW c \in Started, Ok(c), Predicts(c)
               PROVE  rows[c] # None /\ ids[c] = rows[c]
    BY DEF KeyedByIdentity
  <2>1. c \in Calls
    BY CallFacts DEF Inv
  <2>2. Keyed(c) /\ ~ Makes(c)
    BY <2>1 DEF Inv, Predicts, Makes
  <2> QED
    BY <2>2 DEF Keyed, Ok
<1> QED
  BY <1>1, Invariance, PTL

\* FittedForIt: a fold is answered by an estimator of its own training rows and
\* everything else by a fitted one of the whole set (invokeAsync, fitOn).
THEOREM Training == Spec => []FittedForIt
<1>1. Inv => FittedForIt
  BY CallFacts DEF Inv, FittedForIt, Suited
<1> QED
  BY <1>1, Invariance, PTL

\* LatestServes: however fits and imports overtake one another, a call is served
\* by the latest estimator made for it when it began (fitOn, fitFull, importModel).
THEOREM Serving == Spec => []LatestServes
<1>1. Init => Inv /\ Order /\ LatestServes
  BY InvInit, LatestInit
<1>2. Inv /\ Order /\ LatestServes /\ [Next]_vars => (Inv /\ Order /\ LatestServes)'
  BY InvStep, LatestStep
<1> QED
  BY <1>1, <1>2, PTL DEF Spec
=============================================================================
