--------------------------- MODULE ModelBan_proofs ---------------------------
(***************************************************************************)
(* Proofs about ModelBan, for any number of clients and models and any     *)
(* threshold.  BanTypeOK holds whatever fails; the two properties of the   *)
(* counter and the ban hold until a command fails (a helper that dies      *)
(* between INCR and EXPIRE leaves a counter that never lapses).            *)
(***************************************************************************)
EXTENDS ModelBan, TLAPS

\* The two parts of BanTypeOK: the clients and the keys.
OpOK ==
    /\ op \in [Clients -> OpType]
    /\ \A c \in Clients : At(c, "idle") <=> op[c].model = NoModel

KeysOK ==
    /\ count \in [Models -> Nat]
    /\ expiring \in [Models -> BOOLEAN]
    /\ banned \in [Models -> BOOLEAN]
    /\ inFlight \in [Models -> SUBSET Clients]
    /\ faulty \in BOOLEAN

LEMMA BanTypeParts == BanTypeOK <=> OpOK /\ KeysOK
    BY DEF BanTypeOK, OpOK, KeysOK

\* A client at work is at work on a model.
LEMMA AtWork ==
    ASSUME OpOK, NEW c \in Clients, ~At(c, "idle")
    PROVE  op[c].model \in Models
    BY DEF OpOK, OpType, At

\* Every Goto between two commands, and every Leave, keeps OpOK.
LEMMA GotoOK ==
    ASSUME OpOK, NEW c \in Clients, ~At(c, "idle"),
           NEW s \in Steps, s # "idle", Goto(c, s)
    PROVE  OpOK'
    BY DEF OpOK, OpType, At, Goto, Steps

LEMMA GotoWithOK ==
    ASSUME OpOK, NEW c \in Clients, ~At(c, "idle"),
           NEW s \in Steps, s # "idle", NEW n \in Nat,
           op' = [op EXCEPT ![c].step = s, ![c].n = n]
    PROVE  OpOK'
<1> DEFINE o == [step |-> s, model |-> op[c].model, n |-> n]
<1>1. op[c] \in OpType /\ o \in OpType
      BY DEF OpOK, OpType
<1>2. op' = [op EXCEPT ![c] = o]
  <2>1. [[op[c] EXCEPT !.step = s] EXCEPT !.n = n] = o
    <3>1. op[c] = [step |-> op[c].step, model |-> op[c].model, n |-> op[c].n]
          BY <1>1 DEF OpType
    <3>2. PICK a, b, e : op[c] = [step |-> a, model |-> b, n |-> e]
          BY <3>1
    <3>3. [op[c] EXCEPT !.step = s] = [step |-> s, model |-> b, n |-> e]
          BY <3>2
    <3>4. \A r : r = [step |-> s, model |-> b, n |-> e]
                => [r EXCEPT !.n = n] = [step |-> s, model |-> b, n |-> n]
          OBVIOUS
    <3> QED BY <3>2, <3>3, <3>4
  <2>2. op' = [op EXCEPT ![c] = [[op[c] EXCEPT !.step = s] EXCEPT !.n = n]]
        BY DEF OpOK
  <2> QED BY <2>1, <2>2
<1>3. op' \in [Clients -> OpType]
      BY <1>1, <1>2 DEF OpOK
<1>4. ASSUME NEW d \in Clients PROVE At(d, "idle")' <=> op'[d].model = NoModel
  <2>1. CASE d = c
        BY <1>2, <2>1 DEF OpOK, At
  <2>2. CASE d # c
        BY <1>2, <2>2 DEF OpOK, At
  <2> QED BY <2>1, <2>2
<1> QED BY <1>3, <1>4 DEF OpOK, At

LEMMA LeaveOK ==
    ASSUME OpOK, NEW c \in Clients, Leave(c)
    PROVE  OpOK'
    BY ModelBanAssumption DEF OpOK, OpType, At, Leave, Idle, Steps

LEMMA AfterCountOK ==
    ASSUME OpOK, NEW c \in Clients, ~At(c, "idle"), NEW n \in Nat, AfterCount(c, n)
    PROVE  OpOK'
<1>1. CASE n >= FailThreshold
      BY <1>1, GotoWithOK, "ban" \in Steps, "ban" # "idle" DEF AfterCount, Steps
<1>2. CASE ~(n >= FailThreshold)
      BY <1>2, LeaveOK DEF AfterCount
<1> QED BY <1>1, <1>2

LEMMA DeleteOK ==
    ASSUME KeysOK, NEW m \in Models, DeleteFailKey(m), UNCHANGED <<banned, inFlight, faulty>>
    PROVE  KeysOK'
    BY DEF KeysOK, DeleteFailKey

LEMMA NextCountNat ==
    ASSUME KeysOK, NEW m \in Models
    PROVE  NextCount(m) \in Nat
    BY DEF KeysOK, NextCount

-----------------------------------------------------------------------------

\* OpOK and KeysOK are preserved by every command and by the lapse of every TTL.
LEMMA BanTypeStep == OpOK /\ KeysOK /\ [BanNext]_banVars => OpOK' /\ KeysOK'
<1> SUFFICES ASSUME OpOK, KeysOK, [BanNext]_banVars PROVE OpOK' /\ KeysOK'
    OBVIOUS
<1>1. ASSUME NEW c \in Clients, NEW m \in Models, PassBanCheck(c, m)
      PROVE  OpOK' /\ KeysOK'
  <2>1. OpOK'
        BY <1>1, ModelBanAssumption DEF OpOK, OpType, Steps, At, PassBanCheck
  <2>2. KeysOK'
        BY <1>1 DEF KeysOK, PassBanCheck
  <2> QED BY <2>1, <2>2
<1>2. ASSUME NEW c \in Clients, AttemptEnds(c) PROVE OpOK' /\ KeysOK'
  <2>1. OpOK'
    <3>1. CASE AttemptFails(c)
          BY <3>1, GotoOK, "incr" \in Steps DEF AttemptFails, Steps, At
    <3>2. CASE AttemptSucceeds(c)
          BY <3>2, GotoOK, "unban" \in Steps DEF AttemptSucceeds, Steps, At
    <3>3. CASE AttemptRaises(c)
          BY <3>3, LeaveOK DEF AttemptRaises
    <3> QED BY <1>2, <3>1, <3>2, <3>3 DEF AttemptEnds
  <2>2. KeysOK'
        BY <1>2 DEF KeysOK, AttemptEnds, AttemptFails, AttemptSucceeds, AttemptRaises
  <2> QED BY <2>1, <2>2
<1>3. ASSUME NEW c \in Clients, HelperStep(c) PROVE OpOK' /\ KeysOK'
  <2>1. ~At(c, "idle")
        BY <1>3 DEF HelperStep, Increment, SetExpiry, SetBan, ResetCount, ClearBan,
                    ClearCount, At
  <2> DEFINE m == op[c].model
  <2>2. m \in Models
        BY <2>1, AtWork
  <2>3. CASE Increment(c)
    <3>1. NextCount(m) \in Nat
          BY <2>2, NextCountNat
    <3>2. OpOK'
      <4>1. CASE NextCount(m) = 1
            BY <2>1, <2>3, <3>1, <4>1, GotoWithOK, "expire" \in Steps, "expire" # "idle"
            DEF Increment, Steps
      <4>2. CASE NextCount(m) # 1
            BY <2>1, <2>3, <3>1, <4>2, AfterCountOK DEF Increment
      <4> QED BY <4>1, <4>2
    <3>3. KeysOK'
          BY <2>2, <2>3, <3>1 DEF Increment, KeysOK
    <3> QED BY <3>2, <3>3
  <2>4. CASE SetExpiry(c)
    <3>1. OpOK'
          BY <2>1, <2>4, AfterCountOK, op[c].n \in Nat DEF SetExpiry, OpOK, OpType
    <3>2. KeysOK'
          BY <2>2, <2>4 DEF SetExpiry, KeysOK
    <3> QED BY <3>1, <3>2
  <2>5. CASE SetBan(c)
    <3>1. OpOK'
          BY <2>1, <2>5, GotoOK, "reset" \in Steps DEF SetBan, Steps
    <3>2. KeysOK'
          BY <2>2, <2>5 DEF SetBan, KeysOK
    <3> QED BY <3>1, <3>2
  <2>6. CASE ResetCount(c)
        BY <2>2, <2>6, LeaveOK, DeleteOK DEF ResetCount
  <2>7. CASE ClearBan(c)
    <3>1. OpOK'
          BY <2>1, <2>7, GotoOK, "forget" \in Steps DEF ClearBan, Steps
    <3>2. KeysOK'
          BY <2>2, <2>7 DEF ClearBan, KeysOK
    <3> QED BY <3>1, <3>2
  <2>8. CASE ClearCount(c)
        BY <2>2, <2>8, LeaveOK, DeleteOK DEF ClearCount
  <2> QED BY <1>3, <2>3, <2>4, <2>5, <2>6, <2>7, <2>8 DEF HelperStep
<1>4. ASSUME NEW c \in Clients, HelperFails(c) PROVE OpOK' /\ KeysOK'
      BY <1>4, LeaveOK DEF HelperFails, KeysOK
<1>5. ASSUME NEW m \in Models, TimePasses(m) PROVE OpOK' /\ KeysOK'
  <2>1. OpOK'
        BY <1>5 DEF TimePasses, CountLapses, BanLapses, OpOK, At
  <2>2. KeysOK'
        BY <1>5, DeleteOK DEF TimePasses, CountLapses, BanLapses, KeysOK
  <2> QED BY <2>1, <2>2
<1>6. CASE UNCHANGED banVars
      BY <1>6 DEF banVars, OpOK, KeysOK, At
<1> QED
    BY <1>1, <1>2, <1>3, <1>4, <1>5, <1>6 DEF BanNext

LEMMA BanTypeInit == BanInit => OpOK /\ KeysOK
<1>1. BanInit => OpOK
      BY ModelBanAssumption DEF BanInit, OpOK, OpType, Steps, At, Idle
<1>2. BanInit => faulty \in BOOLEAN
      BY Zenon DEF BanInit
<1>3. BanInit => KeysOK
      BY <1>2 DEF BanInit, KeysOK
<1> QED BY <1>1, <1>3

\* The keys and the clients' positions keep their types, with faults or without.
THEOREM BanTypeCorrect == BanSafety => []BanTypeOK
<1>1. BanInit => OpOK /\ KeysOK
      BY BanTypeInit
<1>2. OpOK /\ KeysOK /\ [BanNext]_banVars => (OpOK /\ KeysOK)'
      BY BanTypeStep
<1> QED BY <1>1, <1>2, BanTypeParts, PTL DEF BanSafety

-----------------------------------------------------------------------------
(* Until a command fails.                                                  *)

\* The counter without a TTL has its EXPIRE coming.
Guarded ==
    \A m \in Models :
        count[m] > 0 /\ ~expiring[m] =>
            \E c \in Clients : At(c, "expire") /\ op[c].model = m

\* Why a ban is lifted only by an earlier request: while it lasts, the clients
\* at work on the model are among those that were when it was placed.
BannedTracked ==
    \A m \in Models : banned[m] =>
        \A c \in Clients : op[c].model = m => c \in inFlight[m]

BanInv == OpOK /\ KeysOK /\ Guarded /\ BannedTracked

\* A command of a client other than its EXPIRE leaves the waiting EXPIREs alone.
LEMMA GuardStays ==
    ASSUME OpOK, KeysOK, Guarded, NEW c \in Clients, ~At(c, "expire"),
           UNCHANGED <<count, expiring>>,
           \A d \in Clients \ {c} : op'[d] = op[d]
    PROVE  Guarded'
    BY DEF Guarded, At

\* Guarded is kept by every step that no fault causes.
LEMMA GuardedStep == ~faulty' /\ BanInv /\ [BanNext]_banVars => Guarded'
<1> SUFFICES ASSUME ~faulty', BanInv, [BanNext]_banVars PROVE Guarded'
    OBVIOUS
<1> USE DEF BanInv
<1>1. ASSUME NEW c \in Clients, NEW m \in Models, PassBanCheck(c, m)
      PROVE  Guarded'
      BY <1>1, GuardStays DEF PassBanCheck, At, OpOK
<1>2. ASSUME NEW c \in Clients, AttemptEnds(c) PROVE Guarded'
      BY <1>2, GuardStays
      DEF AttemptEnds, AttemptFails, AttemptSucceeds, AttemptRaises, At, Goto, Leave, OpOK
<1>3. ASSUME NEW c \in Clients, HelperStep(c) PROVE Guarded'
  <2> DEFINE m == op[c].model
  <2>1. m \in Models
        BY <1>3, AtWork DEF HelperStep, Increment, SetExpiry, SetBan, ResetCount, ClearBan,
                            ClearCount, At
  <2>2. CASE Increment(c)
    <3>1. /\ \A k \in Models \ {m} : count'[k] = count[k]
          /\ count'[m] = NextCount(m)
          /\ UNCHANGED expiring
          BY <2>1, <2>2 DEF Increment, KeysOK
    <3>2. \A d \in Clients \ {c} : op'[d] = op[d]
          BY <2>2 DEF Increment, AfterCount, Leave, OpOK
    <3>3. CASE count[m] = 0
      <4>1. NextCount(m) = 1
            BY <2>1, <3>3, ModelBanAssumption DEF NextCount
      <4>2. op'[c].step = "expire" /\ op'[c].model = m
            BY <2>2, <4>1 DEF Increment, OpOK, OpType
      <4> QED BY <2>2, <3>1, <3>2, <4>2 DEF Increment, Guarded, At
    <3>4. CASE count[m] # 0
      <4>1. \A k \in Models : count'[k] > 0 => count[k] > 0
            BY <2>1, <3>1, <3>4 DEF KeysOK
      <4> QED BY <2>2, <3>1, <3>2, <4>1 DEF Increment, Guarded, At
    <3> QED BY <3>3, <3>4
  <2>3. CASE SetExpiry(c)
    <3>1. /\ \A k \in Models \ {m} : expiring'[k] = expiring[k]
          /\ expiring'[m] = (count[m] > 0)
          /\ UNCHANGED count
          BY <2>1, <2>3 DEF SetExpiry, KeysOK
    <3>2. \A d \in Clients \ {c} : op'[d] = op[d]
          BY <2>3 DEF SetExpiry, AfterCount, Leave, OpOK
    <3>3. ASSUME NEW k \in Models, count'[k] > 0, ~expiring'[k]
          PROVE  \E d \in Clients : At(d, "expire")' /\ op'[d].model = k
      <4>1. k # m
            BY <3>1, <3>3
      <4>2. PICK d \in Clients : At(d, "expire") /\ op[d].model = k
            BY <3>1, <3>3, <4>1 DEF Guarded
      <4> QED BY <3>2, <4>1, <4>2 DEF At
    <3> QED BY <3>3 DEF Guarded, At
  <2>4. CASE SetBan(c)
        BY <2>4, GuardStays DEF SetBan, At, Goto, OpOK
  <2>5. CASE ResetCount(c)
        BY <2>1, <2>5 DEF ResetCount, DeleteFailKey, Leave, Guarded, At, OpOK, KeysOK
  <2>6. CASE ClearBan(c)
        BY <2>6, GuardStays DEF ClearBan, At, Goto, OpOK
  <2>7. CASE ClearCount(c)
        BY <2>1, <2>7 DEF ClearCount, DeleteFailKey, Leave, Guarded, At, OpOK, KeysOK
  <2> QED BY <1>3, <2>2, <2>3, <2>4, <2>5, <2>6, <2>7 DEF HelperStep
<1>4. ASSUME NEW m \in Models, TimePasses(m) PROVE Guarded'
      BY <1>4 DEF TimePasses, CountLapses, BanLapses, DeleteFailKey,
                  Guarded, At, KeysOK
<1>5. CASE UNCHANGED banVars
      BY <1>5 DEF banVars, Guarded, At
<1> QED
    BY <1>1, <1>2, <1>3, <1>4, <1>5 DEF BanNext, HelperFails

\* A command that places no ban and starts no attempt keeps BannedTracked.
LEMMA TrackedStays ==
    ASSUME OpOK, KeysOK, BannedTracked,
           \A m \in Models : banned'[m] => banned[m] /\ inFlight'[m] = inFlight[m],
           \A d \in Clients : op'[d].model \in {op[d].model, NoModel}
    PROVE  BannedTracked'
    BY ModelBanAssumption DEF BannedTracked

\* BannedTracked is kept by every step that no fault causes: a client cannot
\* pass the ban check of a banned model.
LEMMA TrackedStep == ~faulty' /\ BanInv /\ [BanNext]_banVars => BannedTracked'
<1> SUFFICES ASSUME ~faulty', BanInv, [BanNext]_banVars PROVE BannedTracked'
    OBVIOUS
<1> USE DEF BanInv
<1>1. ASSUME NEW c \in Clients, NEW m \in Models, PassBanCheck(c, m)
      PROVE  BannedTracked'
  <2>1. \A d \in Clients \ {c} : op'[d] = op[d]
        BY <1>1 DEF PassBanCheck, OpOK
  <2>2. op'[c].model = m /\ ~banned[m] /\ UNCHANGED <<banned, inFlight>>
        BY <1>1 DEF PassBanCheck, OpOK
  <2> QED BY <2>1, <2>2 DEF BannedTracked
<1>2. ASSUME NEW c \in Clients, AttemptEnds(c) PROVE BannedTracked'
  <2>1. \A d \in Clients : op'[d].model \in {op[d].model, NoModel}
        BY <1>2 DEF AttemptEnds, AttemptFails, AttemptSucceeds, AttemptRaises, Goto, Leave,
                    Idle, OpOK, OpType
  <2> QED
      BY <1>2, <2>1, TrackedStays
      DEF AttemptEnds, AttemptFails, AttemptSucceeds, AttemptRaises
<1>3. ASSUME NEW c \in Clients, HelperStep(c) PROVE BannedTracked'
  <2>0. op[c].model \in Models
        BY <1>3, AtWork DEF HelperStep, Increment, SetExpiry, SetBan, ResetCount, ClearBan,
                            ClearCount, At
  <2>1. CASE Increment(c)
    <3>1. \A d \in Clients : op'[d].model \in {op[d].model, NoModel}
          BY <2>1 DEF Increment, AfterCount, Leave, Idle, OpOK, OpType
    <3> QED BY <2>1, <3>1, TrackedStays DEF Increment
  <2>2. CASE SetExpiry(c)
    <3>1. \A d \in Clients : op'[d].model \in {op[d].model, NoModel}
          BY <2>2 DEF SetExpiry, AfterCount, Leave, Idle, OpOK, OpType
    <3> QED BY <2>2, <3>1, TrackedStays DEF SetExpiry
  <2>3. CASE SetBan(c)
    <3>1. \A d \in Clients : op'[d].model = op[d].model
          BY <2>3 DEF SetBan, Goto, OpOK, OpType
    <3>2. ASSUME NEW m \in Models, banned'[m], NEW d \in Clients, op[d].model = m
          PROVE  d \in inFlight'[m]
      <4>1. CASE m = op[c].model
            BY <2>3, <3>2, <4>1 DEF SetBan, KeysOK
      <4>2. CASE m # op[c].model
            BY <2>3, <3>2, <4>2 DEF SetBan, KeysOK, BannedTracked
      <4> QED BY <4>1, <4>2
    <3> QED BY <3>1, <3>2 DEF BannedTracked
  <2>4. CASE ResetCount(c) \/ ClearCount(c)
    <3>1. \A d \in Clients : op'[d].model \in {op[d].model, NoModel}
          BY <2>4 DEF ResetCount, ClearCount, Leave, Idle, OpOK, OpType
    <3> QED BY <2>4, <3>1, TrackedStays DEF ResetCount, ClearCount
  <2>5. CASE ClearBan(c)
    <3>1. \A d \in Clients : op'[d].model \in {op[d].model, NoModel}
          BY <2>5 DEF ClearBan, Goto, OpOK, OpType
    <3>2. \A m \in Models : banned'[m] => banned[m] /\ inFlight'[m] = inFlight[m]
          BY <2>5, <2>0 DEF ClearBan, KeysOK
    <3> QED BY <3>1, <3>2, TrackedStays
  <2> QED BY <1>3, <2>1, <2>2, <2>3, <2>4, <2>5 DEF HelperStep
<1>4. ASSUME NEW m \in Models, TimePasses(m) PROVE BannedTracked'
  <2>1. \A k \in Models : banned'[k] => banned[k] /\ inFlight'[k] = inFlight[k]
        BY <1>4 DEF TimePasses, CountLapses, BanLapses, KeysOK
  <2> QED
      BY <1>4, <2>1, TrackedStays DEF TimePasses, CountLapses, BanLapses
<1>5. CASE UNCHANGED banVars
      BY <1>5 DEF banVars, BannedTracked
<1> QED
    BY <1>1, <1>2, <1>3, <1>4, <1>5 DEF BanNext, HelperFails

-----------------------------------------------------------------------------

\* What holds of every state, faults or not.
Inv == OpOK /\ KeysOK /\ (~faulty => BanInv)

LEMMA InvInit == BanInit => Inv
<1>1. BanInit => Guarded /\ BannedTracked
      BY DEF BanInit, Guarded, BannedTracked
<1> QED BY <1>1, BanTypeInit DEF Inv, BanInv

LEMMA FaultyStays == KeysOK /\ [BanNext]_banVars => (faulty => faulty')
    BY DEF KeysOK, BanNext, banVars, PassBanCheck, AttemptEnds, AttemptFails, AttemptSucceeds,
       AttemptRaises, HelperStep, HelperFails, Increment, SetExpiry, SetBan, ClearBan,
       ResetCount, ClearCount, TimePasses, CountLapses, BanLapses

LEMMA InvStep == Inv /\ [BanNext]_banVars => Inv'
<1>1. ~faulty' /\ BanInv /\ [BanNext]_banVars => BanInv'
      BY BanTypeStep, GuardedStep, TrackedStep DEF BanInv
<1> QED BY <1>1, BanTypeStep, FaultyStays DEF Inv

\* As long as no command fails, a failure counter without a TTL has its EXPIRE
\* coming.
THEOREM CounterIsGuarded == BanSafety => []CounterGuarded
<1>1. Inv => CounterGuarded
      BY DEF Inv, BanInv, Guarded, CounterGuarded
<1> QED BY <1>1, InvInit, InvStep, PTL DEF BanSafety

\* As long as no command fails, a ban ends by its TTL or through the success
\* of a request that was at work on the model before the ban was placed.
THEOREM BansAreLiftedByEarlierRequests == BanSafety => BanLiftedOnlyByEarlierRequest
<1> DEFINE Lifted ==
        \A m \in Models : ~faulty /\ banned[m] /\ ~banned'[m] =>
            \/ op' = op
            \/ \E c \in inFlight[m] : At(c, "unban") /\ op[c].model = m
<1>1. Inv /\ [BanNext]_banVars => [Lifted]_banVars
  <2> SUFFICES ASSUME Inv, [BanNext]_banVars,
                      NEW m \in Models, ~faulty, banned[m], ~banned'[m], op' # op
               PROVE  \E c \in inFlight[m] : At(c, "unban") /\ op[c].model = m
      OBVIOUS
  <2>0. BanInv
        BY DEF Inv
  <2>1. PICK c \in Clients : ClearBan(c) /\ op[c].model = m
    <3>1. ~UNCHANGED banned
          OBVIOUS
    <3>2. PICK c \in Clients : SetBan(c) \/ ClearBan(c)
          BY <3>1 DEF BanNext, banVars, PassBanCheck, AttemptEnds, AttemptFails,
             AttemptSucceeds, AttemptRaises, HelperStep, HelperFails, Increment, SetExpiry,
             ResetCount, ClearCount, TimePasses, CountLapses, BanLapses
    <3>3. ~SetBan(c)
          BY <2>0 DEF SetBan, BanInv, KeysOK
    <3>4. op[c].model = m
          BY <2>0, <3>2, <3>3 DEF ClearBan, BanInv, KeysOK
    <3> QED BY <3>2, <3>3, <3>4
  <2> QED BY <2>0, <2>1 DEF BanInv, BannedTracked, ClearBan
<1> QED
    BY <1>1, InvInit, InvStep, PTL DEF BanSafety, BanLiftedOnlyByEarlierRequest

=============================================================================
