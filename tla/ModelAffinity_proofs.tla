-------------------------- MODULE ModelAffinity_proofs --------------------------
(***************************************************************************)
(* Proofs about ModelAffinity, for any number of requests, pseudo-models   *)
(* and models.  What makes the invariants inductive is where each local of *)
(* a request gets its value, and that what another request has answered    *)
(* under is never changed again.                                           *)
(***************************************************************************)
EXTENDS ModelAffinity, TLAPS

Early == {"arrived", "pinned", "loaded", "selecting"}

Late == {"answered", "saving", "stored"}

\* Each local has its value only after the step that gives it.
InPlace(v) ==
    /\ v.at \in Early => v.selected = NoName
    /\ v.at \in Early \union {"checking"} => v.answered = NoName
    /\ v.at \in Late => v.answered # NoName
    /\ v.at \in Late \union {"checking"} => v.selected # NoName

\* What SelectionFitsSession says of one request.
SelectionFits(r, v) ==
    v.selected # NoName =>
        /\ v.selected \in Models(Pseudo[r])
        /\ v.seen.parallel /\ Models(Pseudo[r]) \intersect Parallel # {}
               => v.selected \in Parallel

\* Without a fallback the stored model is the selected one.
SelectedIsStored(v) == v.at \in Late /\ ~v.applied => v.physical = v.selected

\* A request that goes on had a count below the window, if there is one.
CheckedFits(r, v) ==
    v.at \in Late /\ Window[Pseudo[r]] # NoLimit => v.seen.tokens < Window[Pseudo[r]]

\* Another request than r was answered under the model.
AnsweredUnder(model, r) ==
    \E q \in Requests \ {r} : req[q].answered # NoName /\ req[q].physical = model

\* What holds of the locals v of a request r; the pin that it read was the
\* model of another request.
RequestInv(r, v) ==
    /\ v.answered # NoName => v.physical # NoName
    /\ InPlace(v)
    /\ SelectionFits(r, v)
    /\ SelectedIsStored(v)
    /\ CheckedFits(r, v)
    /\ v.existing # NoName => AnsweredUnder(v.existing, r)

\* The pin is what some request was answered under.
PinAnswered ==
    pin # NoName => \E r \in Requests : req[r].answered # NoName /\ req[r].physical = pin

IInv ==
    /\ TypeOK
    /\ \A r \in Requests : RequestInv(r, req[r])
    /\ PinAnswered

-----------------------------------------------------------------------------
(* Lemmas                                                                  *)

\* What one request's step leaves of the others.
LEMMA OneRequest ==
    ASSUME TypeOK, NEW r \in Requests, NEW v \in RequestType,
           v.answered # NoName => v.physical # NoName,
           req' = [req EXCEPT ![r] = v]
    PROVE  /\ req' \in [Requests -> RequestType]
           /\ req'[r] = v
           /\ \A q \in Requests \ {r} : req'[q] = req[q]
           /\ \A q \in Requests : req'[q].answered # NoName => req'[q].physical # NoName
    BY DEF TypeOK

LEMMA ModelsOfChain ==
    ASSUME NEW r \in Requests
    PROVE  /\ Models(Pseudo[r]) \subseteq AllModels
           /\ \A i \in DOMAIN Chain[Pseudo[r]] :
                 Chain[Pseudo[r]][i] \in Models(Pseudo[r])
           /\ 1 \in DOMAIN Chain[Pseudo[r]]
           /\ NoName \notin Models(Pseudo[r])
<1>1. Pseudo[r] \in Pseudos
      BY DEF Pseudos
<1>2. Models(Pseudo[r]) \subseteq AllModels
      BY <1>1 DEF AllModels
<1>3. Chain[Pseudo[r]] \in Seq(AllModels) /\ Chain[Pseudo[r]] # <<>>
      BY <1>1, ModelAffinityAssumption
<1>4. 1 \in DOMAIN Chain[Pseudo[r]]
      BY <1>3
<1>5. \A i \in DOMAIN Chain[Pseudo[r]] : Chain[Pseudo[r]][i] \in Models(Pseudo[r])
      BY DEF Models
<1> QED BY <1>2, <1>4, <1>5, ModelAffinityAssumption

\* A request that was answered keeps what it was answered under.
KeepsAnswer(r, v) ==
    req[r].answered # NoName =>
        v.answered = req[r].answered /\ v.physical = req[r].physical

LEMMA AnsweredUnderKept ==
    ASSUME TypeOK, NEW r \in Requests, NEW v \in RequestType,
           v.answered # NoName => v.physical # NoName,
           req' = [req EXCEPT ![r] = v], KeepsAnswer(r, v)
    PROVE  \A model, q : AnsweredUnder(model, q) => AnsweredUnder(model, q)'
    BY OneRequest DEF AnsweredUnder, KeepsAnswer

\* A step of one request that leaves pin and row alone preserves the
\* invariant when it does so for the locals of that request.
LEMMA OwnStep ==
    ASSUME IInv, NEW r \in Requests, NEW v \in RequestType,
           req' = [req EXCEPT ![r] = v], UNCHANGED <<pin, row>>,
           RequestInv(r, v), KeepsAnswer(r, v), req[r].at # "stored"
    PROVE  IInv'
<1>1. /\ req' \in [Requests -> RequestType]
      /\ req'[r] = v
      /\ \A q \in Requests \ {r} : req'[q] = req[q]
      /\ \A q \in Requests : req'[q].answered # NoName => req'[q].physical # NoName
      BY OneRequest DEF IInv, RequestInv
<1>2. \A model, q : AnsweredUnder(model, q) => AnsweredUnder(model, q)'
      BY AnsweredUnderKept DEF IInv, RequestInv
<1>3. TypeOK'
      BY <1>1 DEF IInv, TypeOK
<1>4. \A q \in Requests : RequestInv(q, req[q])'
  <2> SUFFICES ASSUME NEW q \in Requests
               PROVE  RequestInv(q, req[q])'
      OBVIOUS
  <2>1. CASE q = r
        BY <1>1, <1>2, <2>1 DEF RequestInv, InPlace, SelectionFits, SelectedIsStored,
                                CheckedFits
  <2>2. CASE q # r
        BY <1>1, <1>2, <2>2 DEF IInv, RequestInv, InPlace, SelectionFits,
                                SelectedIsStored, CheckedFits
  <2> QED BY <2>1, <2>2
<1>5. PinAnswered'
      BY <1>1 DEF IInv, PinAnswered, KeepsAnswer
<1> QED BY <1>3, <1>4, <1>5 DEF IInv

-----------------------------------------------------------------------------
(* The steps                                                               *)

LEMMA InitEstablishes == Init => IInv
<1> SUFFICES ASSUME Init PROVE IInv
    OBVIOUS
<1>1. NoRow \in RowType /\ Fresh \in RequestType
      BY DEF NoRow, RowType, Fresh, RequestType
<1>2. \A r \in Requests : req[r] = Fresh
      BY DEF Init
<1>3. TypeOK
      BY <1>1, <1>2 DEF Init, TypeOK, Fresh
<1>4. /\ Fresh.at = "arrived" /\ Fresh.existing = NoName
      /\ Fresh.selected = NoName /\ Fresh.answered = NoName
      BY DEF Fresh
<1>5. \A r \in Requests : RequestInv(r, req[r])
      BY <1>2, <1>4 DEF RequestInv, InPlace, SelectionFits, SelectedIsStored,
                        CheckedFits, Early, Late
<1> QED BY <1>3, <1>5 DEF IInv, Init, PinAnswered

LEMMA ReadPinKeeps ==
    ASSUME IInv, NEW r \in Requests, ReadPin(r)
    PROVE  IInv'
<1> DEFINE v == [req[r] EXCEPT !.existing = pin,
                               !.at = IF r \in Streamed THEN "selecting" ELSE "pinned"]
<1>1. req' = [req EXCEPT ![r] = v] /\ UNCHANGED <<pin, row>>
      BY DEF ReadPin
<1>2. req[r] \in RequestType /\ pin \in Names \union {NoName}
      BY DEF IInv, TypeOK
<1>3. v \in RequestType
      BY <1>2 DEF RequestType
<1>4. req[r].at \in Early /\ req[r].answered = NoName /\ req[r].selected = NoName
      BY DEF ReadPin, At, Early, IInv, RequestInv, InPlace
<1>5. pin # NoName => AnsweredUnder(pin, r)
      BY <1>4 DEF IInv, PinAnswered, AnsweredUnder
<1>6. RequestInv(r, v)
      BY <1>2, <1>4, <1>5 DEF RequestInv, RequestType, InPlace, SelectionFits,
                              SelectedIsStored, CheckedFits, Early, Late
<1>7. KeepsAnswer(r, v) /\ req[r].at # "stored"
      BY <1>4 DEF KeepsAnswer, Early
<1> QED BY <1>1, <1>3, <1>6, <1>7, OwnStep

LEMMA LoadConversationKeeps ==
    ASSUME IInv, NEW r \in Requests, LoadConversation(r)
    PROVE  IInv'
<1> DEFINE v == [req[r] EXCEPT !.seen = row,
                               !.at = IF r \in Streamed THEN "loaded" ELSE "selecting"]
<1>1. req' = [req EXCEPT ![r] = v] /\ UNCHANGED <<pin, row>>
      BY DEF LoadConversation
<1>2. req[r] \in RequestType /\ row \in RowType
      BY DEF IInv, TypeOK
<1>3. v \in RequestType
      BY <1>2 DEF RequestType
<1>4. req[r].at \in Early /\ req[r].answered = NoName /\ req[r].selected = NoName
      BY DEF LoadConversation, At, Early, IInv, RequestInv, InPlace
<1>5. req[r].existing # NoName => AnsweredUnder(req[r].existing, r)
      BY DEF IInv, RequestInv
<1>6. RequestInv(r, v)
      BY <1>2, <1>4, <1>5 DEF RequestInv, RequestType, InPlace, SelectionFits,
                              SelectedIsStored, CheckedFits, Early, Late
<1>7. KeepsAnswer(r, v) /\ req[r].at # "stored"
      BY <1>4 DEF KeepsAnswer, Early
<1> QED BY <1>1, <1>3, <1>6, <1>7, OwnStep

\* What is selected fits the session that was read.
LEMMA SelectsFitting ==
    ASSUME NEW r \in Requests, NEW i \in DOMAIN Chain[Pseudo[r]], Selects(r, i)
    PROVE  /\ Chain[Pseudo[r]][i] \in Models(Pseudo[r])
           /\ req[r].seen.parallel /\ Models(Pseudo[r]) \intersect Parallel # {}
                  => Chain[Pseudo[r]][i] \in Parallel
<1>1. Chain[Pseudo[r]][i] \in Models(Pseudo[r])
      BY ModelsOfChain
<1>2. ASSUME req[r].seen.parallel, Models(Pseudo[r]) \intersect Parallel # {}
      PROVE  Chain[Pseudo[r]][i] \in Parallel
  <2>1. Eligible(Pseudo[r], TRUE)
            = {j \in DOMAIN Chain[Pseudo[r]] : Chain[Pseudo[r]][j] \in Parallel}
        BY <1>2 DEF Eligible, Models
  <2>2. CASE Pinned(r)
    <3>1. PICK j \in Eligible(Pseudo[r], TRUE) : Chain[Pseudo[r]][j] = req[r].existing
          BY <1>2, <2>2 DEF Pinned
    <3>2. req[r].existing \in Models(Pseudo[r]) /\ req[r].existing \in Parallel
          BY <2>1, <3>1 DEF Models
    <3> QED BY <2>2, <3>2 DEF Selects
  <2>3. CASE ~Pinned(r)
    <3>1. i \in Eligible(Pseudo[r], req[r].seen.parallel)
          BY <2>3 DEF Selects
    <3>2. Eligible(Pseudo[r], req[r].seen.parallel) = Eligible(Pseudo[r], TRUE)
          BY <1>2 DEF Eligible
    <3> QED BY <2>1, <3>1, <3>2
  <2> QED BY <2>2, <2>3
<1> QED BY <1>1, <1>2

LEMMA SelectKeeps ==
    ASSUME IInv, NEW r \in Requests, Select(r)
    PROVE  IInv'
<1>1. PICK i \in DOMAIN Chain[Pseudo[r]] :
          /\ Selects(r, i)
          /\ req' = [req EXCEPT ![r] =
                        [@ EXCEPT !.selected = Chain[Pseudo[r]][i], !.at = "checking"]]
      BY DEF Select
<1> DEFINE v == [req[r] EXCEPT !.selected = Chain[Pseudo[r]][i], !.at = "checking"]
<1>2. req' = [req EXCEPT ![r] = v] /\ UNCHANGED <<pin, row>>
      BY <1>1 DEF Select
<1>3. req[r] \in RequestType
      BY DEF IInv, TypeOK
<1>4. /\ Chain[Pseudo[r]][i] \in Models(Pseudo[r])
      /\ Chain[Pseudo[r]][i] \in AllModels
      /\ Chain[Pseudo[r]][i] # NoName
      BY ModelsOfChain
<1>5. v \in RequestType
      BY <1>3, <1>4 DEF RequestType
<1>6. req[r].at = "selecting" /\ req[r].answered = NoName
      BY DEF Select, At, Early, IInv, RequestInv, InPlace
<1>7. SelectionFits(r, v)
      BY <1>1, <1>3, SelectsFitting DEF SelectionFits, RequestType
<1>8. req[r].existing # NoName => AnsweredUnder(req[r].existing, r)
      BY DEF IInv, RequestInv
<1>9. RequestInv(r, v)
      BY <1>3, <1>4, <1>6, <1>7, <1>8 DEF RequestInv, RequestType, InPlace,
                              SelectedIsStored, CheckedFits, Early, Late
<1>10. KeepsAnswer(r, v) /\ req[r].at # "stored"
      BY <1>6 DEF KeepsAnswer
<1> QED BY <1>2, <1>5, <1>9, <1>10, OwnStep

\* A request that ends without being stored.
LEMMA EndKeeps ==
    ASSUME IInv, NEW r \in Requests, NEW place \in {"refused", "failed"},
           Goto(r, place), UNCHANGED <<pin, row>>, req[r].at # "stored"
    PROVE  IInv'
<1> DEFINE v == [req[r] EXCEPT !.at = place]
<1>1. req' = [req EXCEPT ![r] = v]
      BY DEF Goto
<1>2. req[r] \in RequestType /\ RequestInv(r, req[r])
      BY DEF IInv, TypeOK
<1>3. v \in RequestType
      BY <1>2 DEF RequestType, Over
<1>4. RequestInv(r, v)
      BY <1>2 DEF RequestInv, RequestType, InPlace, SelectionFits, SelectedIsStored,
                  CheckedFits, Early, Late
<1>5. KeepsAnswer(r, v)
      BY <1>2 DEF KeepsAnswer, RequestType
<1> QED BY <1>1, <1>3, <1>4, <1>5, OwnStep

LEMMA ChainAnswersKeeps ==
    ASSUME IInv, NEW r \in Requests, ChainAnswers(r)
    PROVE  IInv'
<1>1. PICK m \in Models(Pseudo[r]), applied \in BOOLEAN :
          \E name \in Reports[m] \union {NoName} :
             req' = [req EXCEPT ![r] =
                       [@ EXCEPT !.answered = m, !.applied = applied,
                                 !.physical = Physical(r, m, name, applied),
                                 !.at = "answered"]]
      BY DEF ChainAnswers
<1>2. PICK name \in Reports[m] \union {NoName} :
          req' = [req EXCEPT ![r] =
                    [@ EXCEPT !.answered = m, !.applied = applied,
                              !.physical = Physical(r, m, name, applied),
                              !.at = "answered"]]
      BY <1>1
<1> DEFINE v == [req[r] EXCEPT !.answered = m, !.applied = applied,
                               !.physical = Physical(r, m, name, applied),
                               !.at = "answered"]
<1>3. req' = [req EXCEPT ![r] = v] /\ UNCHANGED <<pin, row>>
      BY <1>2 DEF ChainAnswers
<1>4. req[r] \in RequestType /\ RequestInv(r, req[r])
      BY DEF IInv, TypeOK
<1>5. req[r].at = "checking" /\ req[r].answered = NoName /\ req[r].selected # NoName
      BY <1>4 DEF ChainAnswers, At, RequestInv, InPlace
<1>6. m \in AllModels /\ m # NoName
      BY ModelsOfChain
<1>7. req[r].selected \in AllModels
      BY <1>4, <1>5 DEF RequestType
<1>8. name # NoName => name \in Names
      BY <1>6 DEF Names
<1>9. /\ Physical(r, m, name, applied) \in Names
      /\ Physical(r, m, name, applied) # NoName
      /\ ~applied => Physical(r, m, name, applied) = req[r].selected
      BY <1>5, <1>6, <1>7, <1>8 DEF Physical, Names
<1>10. v \in RequestType
       BY <1>4, <1>6, <1>9 DEF RequestType
<1>11. ASSUME Window[Pseudo[r]] # NoLimit
       PROVE  req[r].seen.tokens < Window[Pseudo[r]]
  <2>1. PICK estimate \in Estimates : ~Unusable(r, estimate)
        BY DEF ChainAnswers, Fits
  <2>2. Window[Pseudo[r]] \in Nat /\ estimate \in Nat
        BY <1>11, ModelAffinityAssumption DEF Pseudos
  <2>3. req[r].seen.tokens \in Nat
        BY <1>4 DEF RequestType, RowType
  <2> QED BY <1>11, <2>1, <2>2, <2>3 DEF Unusable
<1>12. InPlace(v) /\ SelectedIsStored(v) /\ CheckedFits(r, v)
       BY <1>4, <1>5, <1>6, <1>9, <1>11
       DEF RequestType, InPlace, SelectedIsStored, CheckedFits, Early, Late
<1>13. RequestInv(r, v)
       BY <1>4, <1>9, <1>12 DEF RequestInv, RequestType, SelectionFits
<1>14. KeepsAnswer(r, v) /\ req[r].at # "stored"
       BY <1>5 DEF KeepsAnswer
<1> QED BY <1>3, <1>10, <1>13, <1>14, OwnStep

-----------------------------------------------------------------------------
(* The steps that write                                                    *)

\* What a step that only moves a request within the late places leaves.
LEMMA LateMove ==
    ASSUME IInv, NEW r \in Requests, NEW place \in {"saving", "stored"},
           req[r].at \in {"answered", "saving"}, Goto(r, place)
    PROVE  /\ req' \in [Requests -> RequestType]
           /\ \A q \in Requests : RequestInv(q, req[q])'
           /\ \A q \in Requests : /\ req'[q].answered = req[q].answered
                                  /\ req'[q].physical = req[q].physical
                                  /\ req[q].at = "stored" => req'[q].at = "stored"
           /\ req'[r].at = place
<1>0. PICK v : v = [req[r] EXCEPT !.at = place]
      OBVIOUS
<1>1. req' = [req EXCEPT ![r] = v]
      BY <1>0 DEF Goto
<1>2. req[r] \in RequestType /\ RequestInv(r, req[r])
      BY DEF IInv, TypeOK
<1>3. v \in RequestType
      BY <1>0, <1>2 DEF RequestType, Over
<1>4. RequestInv(r, v)
      BY <1>0, <1>2 DEF RequestInv, RequestType, InPlace, SelectionFits, SelectedIsStored,
                  CheckedFits, Early, Late
<1>5. KeepsAnswer(r, v)
      BY <1>0, <1>2 DEF KeepsAnswer, RequestType
<1>6. /\ req' \in [Requests -> RequestType]
      /\ req'[r] = v
      /\ \A q \in Requests \ {r} : req'[q] = req[q]
      BY <1>1, <1>3, <1>4, OneRequest DEF IInv, RequestInv
<1>7. v.at = place /\ v.answered = req[r].answered /\ v.physical = req[r].physical
      BY <1>0, <1>2 DEF RequestType
<1>8. \A model, q : AnsweredUnder(model, q) => AnsweredUnder(model, q)'
      BY <1>1, <1>3, <1>4, <1>5, AnsweredUnderKept DEF IInv, RequestInv
<1>9. ASSUME NEW q \in Requests
      PROVE  RequestInv(q, req[q])'
  <2>1. CASE q = r
    <3>1. v.existing # NoName => AnsweredUnder(v.existing, r)'
          BY <1>4, <1>8 DEF RequestInv
    <3>2. /\ v.answered # NoName => v.physical # NoName
          /\ InPlace(v) /\ SelectionFits(r, v) /\ SelectedIsStored(v)
          /\ CheckedFits(r, v)
          BY <1>4 DEF RequestInv
    <3>3. req'[q] = v
          BY <1>6, <2>1
    <3> QED BY <2>1, <3>1, <3>2, <3>3
            DEF RequestInv, InPlace, SelectionFits, SelectedIsStored, CheckedFits
  <2>2. CASE q # r
        BY <1>6, <1>8, <2>2 DEF IInv, RequestInv, InPlace, SelectionFits,
                                SelectedIsStored, CheckedFits
  <2> QED BY <2>1, <2>2
<1> QED BY <1>6, <1>7, <1>9

LEMMA SetPinKeeps ==
    ASSUME IInv, NEW r \in Requests, SetPin(r)
    PROVE  IInv'
<1>1. req[r].at = "answered" /\ pin' = req[r].physical /\ row' = row
      BY DEF SetPin, At
<1>2. /\ req' \in [Requests -> RequestType]
      /\ \A q \in Requests : RequestInv(q, req[q])'
      /\ \A q \in Requests : /\ req'[q].answered = req[q].answered
                             /\ req'[q].physical = req[q].physical
                             /\ req[q].at = "stored" => req'[q].at = "stored"
      BY <1>1, LateMove DEF SetPin
<1>3. req[r].answered # NoName
      BY <1>1 DEF IInv, RequestInv, InPlace, Late
<1>4. req[r].physical \in Names \union {NoName}
      BY DEF IInv, TypeOK, RequestType
<1>5. TypeOK'
      BY <1>1, <1>2, <1>4 DEF IInv, TypeOK
<1>6. PinAnswered'
      BY <1>1, <1>2, <1>3 DEF PinAnswered
<1> QED BY <1>2, <1>5, <1>6 DEF IInv

LEMMA SaveKeeps ==
    ASSUME IInv, NEW r \in Requests, Save(r)
    PROVE  IInv'
<1>1. req[r].at = "saving" /\ pin' = pin
      BY DEF Save, At
<1>2. /\ req' \in [Requests -> RequestType]
      /\ \A q \in Requests : RequestInv(q, req[q])'
      /\ \A q \in Requests : /\ req'[q].answered = req[q].answered
                             /\ req'[q].physical = req[q].physical
                             /\ req[q].at = "stored" => req'[q].at = "stored"
      /\ req'[r].at = "stored"
      BY <1>1, LateMove DEF Save
<1>3. req[r] \in RequestType /\ row \in RowType
      BY DEF IInv, TypeOK
<1>4. Cost[r] \in Nat /\ row.tokens \in Nat /\ req[r].seen.tokens \in Nat
      BY <1>3, ModelAffinityAssumption DEF RequestType, RowType
<1>5. PICK model \in {req[r].physical} \union Continuing(r) :
          row' = [exists |-> TRUE, physical |-> model,
                  tokens |-> IF Cost[r] = 0 THEN row.tokens
                             ELSE req[r].seen.tokens + Cost[r],
                  parallel |-> req[r].seen.parallel \/ r \in WithTools]
      BY DEF Save
<1>6. row' \in RowType
  <2>1. model \in Names \union {NoName}
    <3>1. Continuing(r) \subseteq Models(Pseudo[r])
          BY ModelsOfChain, Pseudo[r] \in Pseudos, ModelAffinityAssumption
          DEF Continuing, Models, Pseudos
    <3> QED BY <1>3, <1>5, <3>1, ModelsOfChain DEF RequestType, Names
  <2>2. (req[r].seen.parallel \/ r \in WithTools) \in BOOLEAN
        OBVIOUS
  <2>3. (IF Cost[r] = 0 THEN row.tokens ELSE req[r].seen.tokens + Cost[r]) \in Nat
        BY <1>4
  <2> QED BY <1>5, <2>1, <2>2, <2>3 DEF RowType
<1>7. TypeOK'
      BY <1>1, <1>2, <1>6 DEF IInv, TypeOK
<1>8. PinAnswered'
      BY <1>1, <1>2 DEF IInv, PinAnswered
<1> QED BY <1>2, <1>7, <1>8 DEF IInv

LEMMA PinLapsesKeeps ==
    ASSUME IInv, PinLapses
    PROVE  IInv'
    BY DEF IInv, PinLapses, TypeOK, RequestInv, InPlace, SelectionFits,
           SelectedIsStored, CheckedFits, AnsweredUnder, PinAnswered

-----------------------------------------------------------------------------
(* The theorems                                                            *)

LEMMA StepKeeps == IInv /\ [Next]_vars => IInv'
<1> SUFFICES ASSUME IInv, [Next]_vars PROVE IInv'
    OBVIOUS
<1>1. ASSUME NEW r \in Requests, ReadPin(r) PROVE IInv'
      BY <1>1, ReadPinKeeps
<1>2. ASSUME NEW r \in Requests, LoadConversation(r) PROVE IInv'
      BY <1>2, LoadConversationKeeps
<1>3. ASSUME NEW r \in Requests, Select(r) PROVE IInv'
      BY <1>3, SelectKeeps
<1>4. ASSUME NEW r \in Requests, InsertFails(r) PROVE IInv'
  <2>1. Goto(r, "failed") /\ UNCHANGED <<pin, row>> /\ req[r].at # "stored"
        BY <1>4 DEF InsertFails, At
  <2> QED BY <2>1, EndKeeps
<1>5. ASSUME NEW r \in Requests, Refuse(r) PROVE IInv'
  <2>1. Goto(r, "refused") /\ UNCHANGED <<pin, row>> /\ req[r].at # "stored"
        BY <1>5 DEF Refuse, At
  <2> QED BY <2>1, EndKeeps
<1>6. ASSUME NEW r \in Requests, ChainAnswers(r) PROVE IInv'
      BY <1>6, ChainAnswersKeeps
<1>7. ASSUME NEW r \in Requests, SetPin(r) PROVE IInv'
      BY <1>7, SetPinKeeps
<1>8. ASSUME NEW r \in Requests, Save(r) PROVE IInv'
      BY <1>8, SaveKeeps
<1>9. ASSUME NEW r \in Requests, Fails(r) PROVE IInv'
  <2>1. Goto(r, "failed") /\ UNCHANGED <<pin, row>> /\ req[r].at # "stored"
        BY <1>9 DEF Fails
  <2> QED BY <2>1, EndKeeps
<1>10. CASE PinLapses
       BY <1>10, PinLapsesKeeps
<1>11. CASE UNCHANGED vars
       BY <1>11 DEF vars, IInv, TypeOK, RequestInv, InPlace, SelectionFits,
                    SelectedIsStored, CheckedFits, AnsweredUnder,
                    PinAnswered
<1> QED BY <1>1, <1>2, <1>3, <1>4, <1>5, <1>6, <1>7, <1>8, <1>9, <1>10, <1>11
        DEF Next, Step

\* The strengthening holds of every reachable state.
THEOREM Invariant == Spec => []IInv
<1> QED BY InitEstablishes, StepKeeps, PTL DEF Spec

\* The locals of a request, the pin and the row have their types, and an
\* answered request knows which model to store.
THEOREM TypeCorrect == Spec => []TypeOK
<1>1. IInv => TypeOK
      BY DEF IInv
<1> QED BY <1>1, Invariant, PTL

\* What a request selects belongs to its pseudo-model and takes parallel tool
\* calls when it has to, for any chains and any pin.
THEOREM SelectionsFit == Spec => []SelectionFitsSession
<1>1. IInv => SelectionFitsSession
      BY DEF IInv, RequestInv, SelectionFits, SelectionFitsSession
<1> QED BY <1>1, Invariant, PTL

\* A request of a pseudo-model with a window that changes the count leaves it
\* below that window and its own cost, for any number of requests, of which
\* those without a window may have stored any count.
THEOREM TokensAreBounded == Spec => TokensStayNearWindow
<1> DEFINE Near(r) ==
        /\ ~At(r, "stored") /\ req'[r].at = "stored"
        /\ Window[Pseudo[r]] # NoLimit
        /\ row'.tokens # row.tokens
        => row'.tokens < Window[Pseudo[r]] + Cost[r]
           Bounded == \A r \in Requests : Near(r)
<1>1. ASSUME IInv, [Next]_vars, NEW r \in Requests,
             ~At(r, "stored"), req'[r].at = "stored",
             Window[Pseudo[r]] # NoLimit, row'.tokens # row.tokens
      PROVE  row'.tokens < Window[Pseudo[r]] + Cost[r]
  <2>1. Save(r)
    <3>1. row' # row
          BY <1>1
    <3>2. PICK q \in Requests : Save(q)
          BY <1>1, <3>1, Zenon
          DEF Next, Step, ReadPin, LoadConversation, Select, InsertFails, Refuse,
              ChainAnswers, SetPin, Fails, PinLapses, vars
    <3>3. q # r => req'[r] = req[r]
          BY <3>2, <1>1 DEF Save, Goto, IInv, TypeOK
    <3> QED BY <1>1, <3>2, <3>3 DEF At
  <2>2. row'.tokens = req[r].seen.tokens + Cost[r]
        BY <1>1, <2>1 DEF Save
  <2>3. req[r].seen.tokens < Window[Pseudo[r]]
        BY <1>1, <2>1 DEF Save, At, IInv, RequestInv, CheckedFits, Late
  <2>4. /\ Window[Pseudo[r]] \in Nat
        /\ Cost[r] \in Nat
        /\ req[r].seen.tokens \in Nat
        BY <1>1, ModelAffinityAssumption DEF Pseudos, IInv, TypeOK, RequestType, RowType
  <2> QED BY <2>2, <2>3, <2>4
<1>2. IInv /\ [Next]_vars => Bounded
      BY <1>1
<1>3. TokensStayNearWindow <=> [][Bounded]_vars
      BY DEF TokensStayNearWindow
<1> HIDE DEF Bounded
<1> QED BY <1>2, <1>3, Invariant, PTL DEF Spec

\* An affinity reported as maintained is that of another answered request.
THEOREM MaintainedIsEarned == Spec => []MaintainedSinceAnotherAnswer
<1>1. IInv => MaintainedSinceAnotherAnswer
  <2> SUFFICES ASSUME IInv, NEW r \in Requests, At(r, "stored"), Maintained(r)
               PROVE  AnsweredUnder(req[r].physical, r)
      BY DEF MaintainedSinceAnotherAnswer, AnsweredUnder
  <2>1. RequestInv(r, req[r])
        BY DEF IInv
  <2>2. req[r].answered # NoName
        BY <2>1 DEF RequestInv, InPlace, At, Late
  <2>3. req[r].existing = req[r].physical /\ req[r].physical # NoName
        BY <2>1, <2>2 DEF RequestInv, Maintained
  <2> QED BY <2>1, <2>3 DEF RequestInv
<1> QED BY <1>1, Invariant, PTL

=============================================================================
