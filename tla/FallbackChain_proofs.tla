-------------------------- MODULE FallbackChain_proofs --------------------------
(***************************************************************************)
(* Proofs about FallbackChain, for any number of requests, any chains and  *)
(* models.  The invariant ties the locals of a request to the Valkey       *)
(* command it stands at; with it, every step of the walk is a step of      *)
(* ModelBan, whose theorems then hold of the chain, and a step of          *)
(* OrderedFailover.                                                        *)
(***************************************************************************)
EXTENDS FallbackChain, ModelBan_proofs, FiniteSetTheorems

Marked(v, mark) == {i \in DOMAIN v.tried : v.tried[i] = mark}

PartsOf(v) == {v.parts[i] : i \in DOMAIN v.parts}

Increasing(s) == \A i, j \in DOMAIN s : i < j => s[i] < s[j]

\* While request r walks, at the given step of its ban helpers: every model
\* before the current one has its mark, and the current one once its attempt
\* has failed.
WalkInv(r, v, step) ==
    /\ v.pos <= Last(r) + 1
    /\ v.phase = "attempt" => v.pos <= Last(r)
    /\ v.phase = "loop" => step = "idle"
    /\ v.phase = "loop" \/ step = "calling" => v.finish = "none"
    /\ Len(v.tried) = IF v.phase = "attempt" /\ v.finish = "none" /\ step # "calling"
                      THEN v.pos ELSE v.pos - 1
    /\ Marked(v, "answered") = {}
    /\ PartsOf(v) = Marked(v, "token_limit")
    /\ Increasing(v.parts)
    /\ v.applied <=> v.tried # <<>>

\* What AttemptsExplainVerdict says of one request.
Explained(r, v) ==
    LET answered == Marked(v, "answered")
    IN /\ answered = IF v.verdict = "ok" THEN {v.pos} ELSE {}
       /\ Len(v.tried) = IF v.verdict = "ok" THEN v.pos ELSE Last(r)
       /\ PartsOf(v) = Marked(v, "token_limit") \union answered
       /\ Increasing(v.parts)
       /\ v.parts = <<>> <=> v.verdict \in {"context_too_large", "all_failed"}
       /\ v.verdict \in {"ok", "partial"} => (v.applied <=> answered # {1})
       /\ v.verdict = "context_too_large" =>
              \A i \in DOMAIN v.tried : v.tried[i] \in Skips

RequestInv(r, v, step) ==
    /\ v.verdict = "pending" => WalkInv(r, v, step)
    /\ v.verdict # "pending" => step = "idle"
    /\ v.verdict \notin {"none", "pending", "raised"} => Explained(r, v)

ReqOK == req \in [Requests -> ReqType]

IInv ==
    /\ OpOK
    /\ KeysOK
    /\ ReqOK
    /\ \A r \in Requests : RequestInv(r, req[r], op[r].step)

-----------------------------------------------------------------------------
(* Lemmas                                                                  *)

LEMMA ChainModels ==
    ASSUME NEW r \in Requests
    PROVE  /\ Last(r) \in Nat \ {0}
           /\ \A i \in 1..Last(r) : Chain[r][i] \in Models
    BY FallbackChainAssumption DEF Last

LEMMA OneRequest ==
    ASSUME ReqOK, NEW r \in Requests, NEW v \in ReqType, req' = [req EXCEPT ![r] = v]
    PROVE  /\ ReqOK'
           /\ req'[r] = v
           /\ \A q \in Requests \ {r} : req'[q] = req[q]
    BY DEF ReqOK

\* Of the ban helpers' commands, a request's own are the only ones that move it.
LEMMA OneHelper ==
    ASSUME OpOK, NEW r \in Requests, HelperStep(r) \/ HelperFails(r)
    PROVE  /\ op[r].step \notin {"idle", "calling"}
           /\ op'[r].step # "calling"
           /\ \A q \in Requests \ {r} : op'[q] = op[q]
<1>1. op[r].step \notin {"idle", "calling"}
      BY DEF HelperStep, HelperFails, Increment, SetExpiry, SetBan, ResetCount, ClearBan,
             ClearCount, At
<1>2. \/ \E s \in {"reset", "forget"} : Goto(r, s)
      \/ Leave(r)
      \/ \E n : op' = [op EXCEPT ![r].step = "expire", ![r].n = n]
      \/ \E n : op' = [op EXCEPT ![r].step = "ban", ![r].n = n]
  <2>1. CASE Increment(r)
        BY <2>1 DEF Increment, AfterCount
  <2>2. CASE SetExpiry(r)
        BY <2>2 DEF SetExpiry, AfterCount
  <2>3. CASE SetBan(r) \/ ClearBan(r)
        BY <2>3 DEF SetBan, ClearBan
  <2>4. CASE ResetCount(r) \/ ClearCount(r) \/ HelperFails(r)
        BY <2>4 DEF ResetCount, ClearCount, HelperFails
  <2> QED BY <2>1, <2>2, <2>3, <2>4 DEF HelperStep
<1> QED BY <1>1, <1>2 DEF OpOK, OpType, Goto, Leave, Idle, Requests

LEMMA AppendMark ==
    ASSUME NEW v \in ReqType, NEW w \in ReqType, NEW mark \in Marks,
           w.tried = Append(v.tried, mark)
    PROVE  /\ Len(w.tried) = Len(v.tried) + 1
           /\ w.tried # <<>>
           /\ Marked(w, mark) = Marked(v, mark) \union {Len(v.tried) + 1}
           /\ \A m : m # mark => Marked(w, m) = Marked(v, m)
<1>1. v.tried \in Seq(Marks)
      BY DEF ReqType
<1>2. /\ Len(w.tried) = Len(v.tried) + 1 /\ Len(v.tried) \in Nat
      /\ DOMAIN w.tried = 1..(Len(v.tried) + 1) /\ DOMAIN v.tried = 1..Len(v.tried)
      /\ \A i \in 1..Len(v.tried) : w.tried[i] = v.tried[i]
      /\ w.tried[Len(v.tried) + 1] = mark
      BY <1>1
<1>3. /\ Marked(w, mark) = Marked(v, mark) \union {Len(v.tried) + 1}
      /\ \A m : m # mark => Marked(w, m) = Marked(v, m)
  <2>1. \A i : i \in 1..(Len(v.tried) + 1)
                 <=> i \in 1..Len(v.tried) \/ i = Len(v.tried) + 1
        BY <1>2
  <2> QED BY <1>2, <2>1 DEF Marked
<1>4. w.tried # <<>>
      BY <1>1
<1> QED BY <1>2, <1>3, <1>4

LEMMA AppendPart ==
    ASSUME NEW v \in ReqType, NEW w \in ReqType, NEW n \in Nat \ {0},
           w.parts = Append(v.parts, n), Increasing(v.parts),
           \A p \in PartsOf(v) : p < n
    PROVE  PartsOf(w) = PartsOf(v) \union {n} /\ Increasing(w.parts) /\ w.parts # <<>>
<1>1. v.parts \in Seq(Nat \ {0})
      BY DEF ReqType
<1>2. /\ Len(v.parts) \in Nat
      /\ DOMAIN w.parts = 1..(Len(v.parts) + 1) /\ DOMAIN v.parts = 1..Len(v.parts)
      /\ \A i \in 1..Len(v.parts) : w.parts[i] = v.parts[i] /\ v.parts[i] \in Nat
      /\ w.parts[Len(v.parts) + 1] = n
      BY <1>1
<1>3. PartsOf(w) = PartsOf(v) \union {n}
      BY <1>2 DEF PartsOf
<1>4. ASSUME NEW i \in DOMAIN w.parts, NEW j \in DOMAIN w.parts, i < j
      PROVE  w.parts[i] < w.parts[j]
  <2>1. CASE j \in DOMAIN v.parts
        BY <1>2, <1>4, <2>1 DEF Increasing
  <2>2. CASE j = Len(v.parts) + 1
    <3>1. i \in DOMAIN v.parts /\ v.parts[i] \in PartsOf(v)
          BY <1>2, <1>4, <2>2 DEF PartsOf
    <3> QED BY <1>2, <2>2, <3>1
  <2> QED BY <1>2, <2>1, <2>2
<1> QED BY <1>2, <1>3, <1>4 DEF Increasing

-----------------------------------------------------------------------------
(* The use of the ban keys                                                 *)

\* A step of the chain is a command of ModelBan or leaves the ban keys alone.
LEMMA BanStep == IInv /\ [Next]_vars => [BanNext]_banVars
<1> SUFFICES ASSUME IInv, [Next]_vars PROVE [BanNext]_banVars
    OBVIOUS
<1>1. ASSUME NEW r \in Requests, Attempt(r) PROVE BanNext
  <2>1. ModelAt(r) \in Models
    <3>1. req[r].pos \in 1..Last(r)
          BY <1>1, ChainModels DEF Attempt, InLoop, IInv, ReqOK, ReqType
    <3> QED BY <3>1, ChainModels DEF ModelAt
  <2> QED BY <1>1, <2>1 DEF Attempt, BanNext, Requests
<1>2. ASSUME NEW r \in Requests,
             SkipModel(r) \/ CallFails(r) \/ CallSucceeds(r) \/ CallRaises(r)
      PROVE  BanNext
      BY <1>2 DEF SkipModel, CallFails, CallSucceeds, CallRaises, BanNext, AttemptEnds,
                  Requests
<1>3. ASSUME NEW r \in Requests, Helper(r) PROVE BanNext
      BY <1>3 DEF Helper, BanNext, Requests
<1>4. ASSUME NEW r \in Requests,
             \/ Begin(r) \/ SkipBanned(r) \/ NextModel(r) \/ ContinueWithNext(r)
             \/ Return(r) \/ Exhaust(r)
      PROVE  UNCHANGED banVars
      BY <1>4 DEF Begin, SkipBanned, NextModel, ContinueWithNext, Return, Exhaust
<1>5. ASSUME NEW m \in Models, Tick(m) PROVE BanNext
      BY <1>5 DEF Tick, BanNext
<1>6. CASE UNCHANGED vars
      BY <1>6 DEF vars
<1> QED BY <1>1, <1>2, <1>3, <1>4, <1>5, <1>6 DEF Next, Walk

-----------------------------------------------------------------------------
(* The steps of the walk                                                   *)

\* A step of one request preserves the invariant when it does so for it.
LEMMA OwnStep ==
    ASSUME IInv, OpOK', KeysOK',
           NEW r \in Requests, NEW v \in ReqType, req' = [req EXCEPT ![r] = v],
           \A q \in Requests \ {r} : op'[q] = op[q],
           RequestInv(r, v, op'[r].step)
    PROVE  IInv'
<1>1. /\ ReqOK'
      /\ req'[r] = v
      /\ \A q \in Requests \ {r} : req'[q] = req[q]
      BY OneRequest DEF IInv
<1>2. ASSUME NEW q \in Requests PROVE RequestInv(q, req'[q], op'[q].step)
  <2>1. CASE q = r
        BY <1>1, <2>1
  <2>2. CASE q # r
        BY <1>1, <2>2 DEF IInv
  <2> QED BY <2>1, <2>2
<1> QED BY <1>1, <1>2 DEF IInv

LEMMA BeginKeeps ==
    ASSUME IInv, OpOK', KeysOK', NEW r \in Requests, Begin(r)
    PROVE  IInv'
<1>1. PICK est \in 1..MaxEst, s \in Selected[r] :
          \E c \in {"plain", ContentFor(Chain[r][s])} :
             req' = [req EXCEPT ![r] =
                 [Fresh EXCEPT !.est = est, !.content = c, !.verdict = "pending"]]
      BY DEF Begin
<1>2. PICK c \in {"plain", ContentFor(Chain[r][s])} :
          req' = [req EXCEPT ![r] =
              [Fresh EXCEPT !.est = est, !.content = c, !.verdict = "pending"]]
      BY <1>1
<1> DEFINE v == [Fresh EXCEPT !.est = est, !.content = c, !.verdict = "pending"]
<1>3. c \in {"plain", "raw"} /\ est \in Nat /\ Fresh \in ReqType
      BY FallbackChainAssumption DEF ContentFor, Fresh, ReqType
<1>4. v \in ReqType
      BY <1>3 DEF ReqType
<1>5. /\ v.phase = "loop" /\ v.pos = 1 /\ v.tried = <<>> /\ v.parts = <<>>
      /\ v.finish = "none" /\ v.applied = FALSE /\ v.verdict = "pending"
      BY <1>3 DEF ReqType, Fresh
<1>6. req[r].verdict # "pending" /\ op' = op /\ req' = [req EXCEPT ![r] = v]
      BY <1>2 DEF Begin, Running, banVars
<1> HIDE DEF v
<1>7. op'[r].step = "idle"
      BY <1>6 DEF IInv, RequestInv
<1>8. WalkInv(r, v, "idle")
      BY <1>5, ChainModels DEF WalkInv, Marked, PartsOf, Increasing
<1> QED BY <1>4, <1>5, <1>6, <1>7, <1>8, OwnStep DEF RequestInv

LEMMA SkipBannedKeeps ==
    ASSUME IInv, OpOK', KeysOK', NEW r \in Requests, SkipBanned(r)
    PROVE  IInv'
<1> DEFINE u == req[r]
           v == [u EXCEPT !.tried = Append(@, "banned"), !.applied = TRUE, !.pos = @ + 1]
<1>1. req' = [req EXCEPT ![r] = v] /\ op' = op
      BY DEF SkipBanned, banVars
<1>2. u \in ReqType /\ u.phase = "loop" /\ u.verdict = "pending" /\ u.pos <= Last(r)
      BY DEF SkipBanned, InLoop, Running, IInv, ReqOK
<1>3. WalkInv(r, u, op[r].step)
      BY <1>2 DEF IInv, RequestInv
<1>4. v \in ReqType
  <2>1. Append(u.tried, "banned") \in Seq(Marks) /\ u.pos + 1 \in Nat \ {0}
        BY <1>2 DEF ReqType, Marks
  <2> QED BY <1>2, <2>1 DEF ReqType
<1>5. /\ v.tried = Append(u.tried, "banned") /\ v.applied = TRUE /\ v.pos = u.pos + 1
      /\ v.phase = "loop" /\ v.verdict = "pending" /\ v.finish = u.finish
      /\ v.parts = u.parts
      BY <1>2 DEF ReqType
<1> HIDE DEF u, v
<1>6. /\ Len(v.tried) = Len(u.tried) + 1 /\ v.tried # <<>>
      /\ Marked(v, "answered") = Marked(u, "answered")
      /\ Marked(v, "token_limit") = Marked(u, "token_limit")
      BY <1>2, <1>4, <1>5, AppendMark, "banned" \in Marks DEF Marks
<1>7. WalkInv(r, v, op[r].step)
  <2>1. u.pos \in Nat /\ Last(r) \in Nat
        BY <1>2, ChainModels DEF ReqType
  <2>2. Len(v.tried) = v.pos - 1
        BY <1>2, <1>3, <1>5, <1>6, <2>1 DEF WalkInv
  <2> QED BY <1>2, <1>3, <1>5, <1>6, <2>1, <2>2 DEF WalkInv, PartsOf
<1> QED BY <1>1, <1>4, <1>5, <1>7, OwnStep DEF RequestInv

LEMMA AttemptKeeps ==
    ASSUME IInv, OpOK', KeysOK', NEW r \in Requests, Attempt(r)
    PROVE  IInv'
<1> DEFINE u == req[r]
           v == [u EXCEPT !.phase = "attempt", !.content = Revalidated(r)]
<1>1. /\ req' = [req EXCEPT ![r] = v]
      /\ op' = [op EXCEPT ![r] = [step |-> "calling", model |-> ModelAt(r), n |-> 0]]
      BY DEF Attempt, PassBanCheck
<1>2. u \in ReqType /\ u.phase = "loop" /\ u.verdict = "pending" /\ u.pos <= Last(r)
      BY DEF Attempt, InLoop, Running, IInv, ReqOK
<1>3. WalkInv(r, u, op[r].step)
      BY <1>2 DEF IInv, RequestInv
<1>4. v \in ReqType
      BY <1>2 DEF ReqType, Revalidated
<1>5. /\ v.phase = "attempt" /\ v.verdict = "pending" /\ v.pos = u.pos
      /\ v.tried = u.tried /\ v.applied = u.applied /\ v.finish = u.finish
      /\ v.parts = u.parts
      BY <1>2 DEF ReqType
<1> HIDE DEF u, v
<1>6. op'[r].step = "calling" /\ \A q \in Requests \ {r} : op'[q] = op[q]
      BY <1>1 DEF IInv, OpOK, Requests
<1>7. WalkInv(r, v, "calling")
      BY <1>2, <1>3, <1>5, ChainModels DEF WalkInv, PartsOf, Marked
<1> QED BY <1>1, <1>4, <1>5, <1>6, <1>7, OwnStep DEF RequestInv

LEMMA FailureKeeps ==
    ASSUME IInv, OpOK', KeysOK', NEW r \in Requests, SkipModel(r) \/ CallFails(r)
    PROVE  IInv'
<1>1. PICK mark \in {"disabled", "too_large", "failed"} : MarkFailure(r, mark)
  <2>1. SkipReason(r) \in {"disabled", "too_large", "none"}
        BY DEF SkipReason
  <2> QED BY <2>1 DEF SkipModel, CallFails
<1> DEFINE u == req[r]
           v == [u EXCEPT !.tried = Append(@, mark), !.applied = TRUE]
<1>2. req' = [req EXCEPT ![r] = v]
      BY <1>1 DEF MarkFailure
<1>3. /\ u \in ReqType /\ u.phase = "attempt" /\ u.verdict = "pending"
      /\ op[r].step = "calling" /\ Goto(r, "incr")
      BY DEF SkipModel, CallFails, Calling, Attempting, AttemptFails, At, Running, IInv,
             ReqOK
<1>4. WalkInv(r, u, op[r].step)
      BY <1>3 DEF IInv, RequestInv
<1>5. mark \in Marks /\ mark \notin {"answered", "token_limit"}
      BY DEF Marks
<1>6. v \in ReqType
  <2>1. Append(u.tried, mark) \in Seq(Marks)
        BY <1>3, <1>5 DEF ReqType
  <2> QED BY <1>3, <2>1 DEF ReqType
<1>7. /\ v.phase = "attempt" /\ v.verdict = "pending" /\ v.pos = u.pos
      /\ v.tried = Append(u.tried, mark) /\ v.applied = TRUE /\ v.finish = u.finish
      /\ v.parts = u.parts
      BY <1>3 DEF ReqType
<1> HIDE DEF u, v
<1>8. /\ Len(v.tried) = Len(u.tried) + 1 /\ v.tried # <<>>
      /\ Marked(v, "answered") = Marked(u, "answered")
      /\ Marked(v, "token_limit") = Marked(u, "token_limit")
      BY <1>3, <1>5, <1>6, <1>7, AppendMark
<1>9. op'[r].step = "incr" /\ \A q \in Requests \ {r} : op'[q] = op[q]
      BY <1>3 DEF IInv, OpOK, OpType, Requests, Goto
<1>10. WalkInv(r, v, "incr")
      BY <1>3, <1>4, <1>7, <1>8, ChainModels DEF WalkInv, PartsOf, ReqType
<1> QED BY <1>2, <1>6, <1>7, <1>9, <1>10, OwnStep DEF RequestInv

LEMMA CallSucceedsKeeps ==
    ASSUME IInv, OpOK', KeysOK', NEW r \in Requests, CallSucceeds(r)
    PROVE  IInv'
<1>1. PICK finish \in {"stop", "length"} : req' = [req EXCEPT ![r].finish = finish]
      BY DEF CallSucceeds
<1> DEFINE u == req[r]
           v == [u EXCEPT !.finish = finish]
<1>2. req' = [req EXCEPT ![r] = v]
      BY <1>1
<1>3. /\ u \in ReqType /\ u.phase = "attempt" /\ u.verdict = "pending"
      /\ op[r].step = "calling" /\ Goto(r, "unban")
      BY DEF CallSucceeds, Calling, Attempting, AttemptSucceeds, At, Running, IInv, ReqOK
<1>4. WalkInv(r, u, op[r].step)
      BY <1>3 DEF IInv, RequestInv
<1>5. v \in ReqType
      BY <1>3 DEF ReqType
<1>6. /\ v.phase = "attempt" /\ v.verdict = "pending" /\ v.pos = u.pos
      /\ v.tried = u.tried /\ v.applied = u.applied /\ v.finish = finish
      /\ v.parts = u.parts
      BY <1>3 DEF ReqType
<1> HIDE DEF u, v
<1>7. op'[r].step = "unban" /\ \A q \in Requests \ {r} : op'[q] = op[q]
      BY <1>3 DEF IInv, OpOK, OpType, Requests, Goto
<1>8. WalkInv(r, v, "unban")
      BY <1>3, <1>4, <1>6 DEF WalkInv, PartsOf, Marked
<1> QED BY <1>2, <1>5, <1>6, <1>7, <1>8, OwnStep DEF RequestInv

LEMMA CallRaisesKeeps ==
    ASSUME IInv, OpOK', KeysOK', NEW r \in Requests, CallRaises(r)
    PROVE  IInv'
<1> DEFINE u == req[r]
           v == [u EXCEPT !.verdict = "raised"]
<1>1. req' = [req EXCEPT ![r] = v] /\ Leave(r) /\ u \in ReqType
      BY DEF CallRaises, AttemptRaises, IInv, ReqOK
<1>2. v \in ReqType /\ v.verdict = "raised"
      BY <1>1 DEF ReqType
<1> HIDE DEF u, v
<1>3. op'[r].step = "idle" /\ \A q \in Requests \ {r} : op'[q] = op[q]
      BY <1>1 DEF IInv, OpOK, Requests, Leave, Idle
<1> QED BY <1>1, <1>2, <1>3, OwnStep DEF RequestInv

LEMMA HelperKeeps ==
    ASSUME IInv, OpOK', KeysOK', NEW r \in Requests, Helper(r)
    PROVE  IInv'
<1>1. /\ op[r].step \notin {"idle", "calling"}
      /\ op'[r].step # "calling"
      /\ \A q \in Requests \ {r} : op'[q] = op[q]
      BY OneHelper DEF Helper, IInv
<1>2. req' = req /\ req[r] \in ReqType /\ ReqOK
      BY DEF Helper, IInv, ReqOK
<1>3. req[r].verdict = "pending" /\ WalkInv(r, req[r], op[r].step)
      BY <1>1 DEF IInv, RequestInv
<1>4. req[r].phase = "attempt"
      BY <1>1, <1>2, <1>3 DEF WalkInv, ReqType
<1>5. WalkInv(r, req[r], op'[r].step)
      BY <1>1, <1>3, <1>4 DEF WalkInv
<1>6. \A q \in Requests : RequestInv(q, req'[q], op'[q].step)
      BY <1>1, <1>2, <1>3, <1>5 DEF IInv, RequestInv
<1> QED BY <1>2, <1>6 DEF IInv, ReqOK

LEMMA NextModelKeeps ==
    ASSUME IInv, OpOK', KeysOK', NEW r \in Requests, NextModel(r)
    PROVE  IInv'
<1> DEFINE u == req[r]
           v == [u EXCEPT !.phase = "loop", !.pos = @ + 1]
<1>1. req' = [req EXCEPT ![r] = v] /\ op' = op
      BY DEF NextModel, banVars
<1>2. /\ u \in ReqType /\ u.phase = "attempt" /\ u.verdict = "pending"
      /\ op[r].step = "idle" /\ u.finish = "none"
      BY DEF NextModel, AttemptOver, At, Running, IInv, ReqOK
<1>3. WalkInv(r, u, op[r].step)
      BY <1>2 DEF IInv, RequestInv
<1>4. v \in ReqType
  <2>1. u.pos + 1 \in Nat \ {0}
        BY <1>2 DEF ReqType
  <2> QED BY <1>2, <2>1 DEF ReqType
<1>5. /\ v.phase = "loop" /\ v.verdict = "pending" /\ v.pos = u.pos + 1
      /\ v.tried = u.tried /\ v.applied = u.applied /\ v.finish = u.finish
      /\ v.parts = u.parts
      BY <1>2 DEF ReqType
<1>6. u.pos \in Nat /\ Last(r) \in Nat
      BY <1>2, ChainModels DEF ReqType
<1> HIDE DEF u, v
<1>7. WalkInv(r, v, "idle")
      BY <1>2, <1>3, <1>5, <1>6 DEF WalkInv, PartsOf, Marked
<1> QED BY <1>1, <1>2, <1>4, <1>5, <1>7, OwnStep DEF RequestInv

\* Marks stand at positions before the current one.
LEMMA MarkedBefore ==
    ASSUME NEW u \in ReqType, NEW mark, Len(u.tried) = u.pos - 1
    PROVE  /\ \A p \in Marked(u, mark) : p < u.pos
           /\ Len(u.tried) + 1 = u.pos
<1>1. u.tried \in Seq(Marks) /\ u.pos \in Nat
      BY DEF ReqType
<1>2. DOMAIN u.tried = 1..(u.pos - 1)
      BY <1>1
<1> QED BY <1>1, <1>2 DEF Marked

\* The position of an answer, whole or cut off, joins the marks and the parts.
LEMMA AnswerJoins ==
    ASSUME NEW r \in Requests, NEW u \in ReqType, NEW v \in ReqType,
           NEW mark \in {"token_limit", "answered"},
           WalkInv(r, u, "idle"), u.phase = "attempt", u.finish # "none",
           v.tried = Append(u.tried, mark), v.parts = Append(u.parts, u.pos)
    PROVE  /\ Len(v.tried) = u.pos /\ v.tried # <<>> /\ v.parts # <<>>
           /\ PartsOf(v) = Marked(v, "token_limit") \union Marked(v, "answered")
           /\ Marked(v, "answered") = IF mark = "answered" THEN {u.pos} ELSE {}
           /\ Increasing(v.parts)
<1>1. Len(u.tried) = u.pos - 1 /\ u.pos \in Nat \ {0}
      BY DEF WalkInv, ReqType
<1>2. Len(u.tried) + 1 = u.pos /\ \A p \in Marked(u, "token_limit") : p < u.pos
      BY <1>1, MarkedBefore
<1>3. /\ Len(v.tried) = u.pos /\ v.tried # <<>>
      /\ Marked(v, mark) = Marked(u, mark) \union {u.pos}
      /\ \A m : m # mark => Marked(v, m) = Marked(u, m)
  <2>1. mark \in Marks
        BY DEF Marks
  <2>2. /\ Len(v.tried) = Len(u.tried) + 1 /\ v.tried # <<>>
        /\ Marked(v, mark) = Marked(u, mark) \union {Len(u.tried) + 1}
        /\ \A m : m # mark => Marked(v, m) = Marked(u, m)
        BY <2>1, AppendMark
  <2> QED BY <1>2, <2>2
<1>4. /\ PartsOf(v) = PartsOf(u) \union {u.pos}
      /\ Increasing(v.parts) /\ v.parts # <<>>
      BY <1>1, <1>2, AppendPart DEF WalkInv
<1>5. PartsOf(u) = Marked(u, "token_limit") /\ Marked(u, "answered") = {}
      BY DEF WalkInv
<1> QED BY <1>3, <1>4, <1>5

LEMMA ContinueKeeps ==
    ASSUME IInv, OpOK', KeysOK', NEW r \in Requests, ContinueWithNext(r)
    PROVE  IInv'
<1>1. PICK est \in 1..MaxEst :
          req' = [req EXCEPT ![r] =
              [req[r] EXCEPT !.tried = Append(@, "token_limit"),
                             !.parts = Append(@, req[r].pos),
                             !.applied = TRUE,
                             !.est = est,
                             !.finish = "none",
                             !.phase = "loop",
                        !.pos = @ + 1]]
      BY DEF ContinueWithNext
<1> DEFINE u == req[r]
           v == [u EXCEPT !.tried = Append(@, "token_limit"), !.parts = Append(@, u.pos),
                          !.applied = TRUE, !.est = est, !.finish = "none",
                          !.phase = "loop", !.pos = @ + 1]
<1>2. req' = [req EXCEPT ![r] = v] /\ op' = op
  <2>1. op' = op
        BY DEF ContinueWithNext, banVars
  <2>2. req' = [req EXCEPT ![r] = v]
        BY <1>1, Zenon
  <2> QED BY <2>1, <2>2
<1>3. /\ u \in ReqType /\ u.phase = "attempt" /\ u.verdict = "pending"
      /\ op[r].step = "idle" /\ u.finish # "none" /\ u.pos < Last(r)
      BY DEF ContinueWithNext, Continues, AttemptOver, At, Running, IInv, ReqOK
<1>4. WalkInv(r, u, "idle")
      BY <1>3 DEF IInv, RequestInv
<1>5. v \in ReqType
  <2>1. /\ Append(u.tried, "token_limit") \in Seq(Marks)
        /\ Append(u.parts, u.pos) \in Seq(Nat \ {0})
        /\ u.pos + 1 \in Nat \ {0} /\ est \in Nat
        BY <1>3, FallbackChainAssumption DEF ReqType, Marks
  <2> QED BY <1>3, <2>1 DEF ReqType
<1>6. /\ v.phase = "loop" /\ v.verdict = "pending" /\ v.pos = u.pos + 1
      /\ v.tried = Append(u.tried, "token_limit") /\ v.applied = TRUE
      /\ v.finish = "none" /\ v.parts = Append(u.parts, u.pos)
      BY <1>3 DEF ReqType
<1>7. u.pos \in Nat /\ Last(r) \in Nat
      BY <1>3, ChainModels DEF ReqType
<1> HIDE DEF u, v
<1>8. /\ Len(v.tried) = u.pos /\ v.tried # <<>>
      /\ PartsOf(v) = Marked(v, "token_limit") \union Marked(v, "answered")
      /\ Marked(v, "answered") = {}
      /\ Increasing(v.parts)
      BY <1>3, <1>4, <1>5, <1>6, AnswerJoins
<1>9. WalkInv(r, v, "idle")
      BY <1>3, <1>6, <1>7, <1>8 DEF WalkInv
<1> QED BY <1>2, <1>3, <1>5, <1>6, <1>9, OwnStep DEF RequestInv

LEMMA ReturnKeeps ==
    ASSUME IInv, OpOK', KeysOK', NEW r \in Requests, Return(r)
    PROVE  IInv'
<1> DEFINE u == req[r]
           v == [u EXCEPT !.tried = Append(@, "answered"), !.parts = Append(@, u.pos),
                          !.verdict = "ok"]
<1>1. req' = [req EXCEPT ![r] = v] /\ op' = op
      BY DEF Return, banVars
<1>2. /\ u \in ReqType /\ u.phase = "attempt" /\ u.verdict = "pending"
      /\ op[r].step = "idle" /\ u.finish # "none"
      BY DEF Return, AttemptOver, At, Running, IInv, ReqOK
<1>3. WalkInv(r, u, "idle")
      BY <1>2 DEF IInv, RequestInv
<1>4. v \in ReqType
  <2>1. /\ Append(u.tried, "answered") \in Seq(Marks)
        /\ Append(u.parts, u.pos) \in Seq(Nat \ {0})
        BY <1>2 DEF ReqType, Marks
  <2> QED BY <1>2, <2>1 DEF ReqType
<1>5. /\ v.verdict = "ok" /\ v.pos = u.pos /\ v.applied = u.applied
      /\ v.tried = Append(u.tried, "answered") /\ v.parts = Append(u.parts, u.pos)
      BY <1>2 DEF ReqType
<1> HIDE DEF u, v
<1>6. /\ Len(v.tried) = u.pos /\ v.parts # <<>>
      /\ PartsOf(v) = Marked(v, "token_limit") \union Marked(v, "answered")
      /\ Marked(v, "answered") = {u.pos}
      /\ Increasing(v.parts)
      BY <1>2, <1>3, <1>4, <1>5, AnswerJoins
<1>7. u.applied <=> u.pos # 1
  <2>1. u.tried \in Seq(Marks) /\ Len(u.tried) = u.pos - 1 /\ u.pos \in Nat
        BY <1>2, <1>3 DEF ReqType, WalkInv
  <2>2. u.tried = <<>> <=> u.pos = 1
        BY <2>1
  <2> QED BY <1>3, <2>2 DEF WalkInv
<1>8. v.applied <=> Marked(v, "answered") # {1}
      BY <1>5, <1>6, <1>7
<1>9. Explained(r, v)
      BY <1>5, <1>6, <1>8 DEF Explained
<1> QED BY <1>1, <1>2, <1>4, <1>5, <1>9, OwnStep DEF RequestInv

\* As many skipped positions as the chain has entries are all its entries.
LEMMA AllSkipped ==
    ASSUME NEW u \in ReqType, NEW n \in Nat, Len(u.tried) = n,
           Cardinality({i \in DOMAIN u.tried : u.tried[i] \in Skips}) = n
    PROVE  \A i \in DOMAIN u.tried : u.tried[i] \in Skips
<1> DEFINE skipped == {i \in DOMAIN u.tried : u.tried[i] \in Skips}
<1>1. DOMAIN u.tried = 1..n
      BY DEF ReqType
<1>2. IsFiniteSet(1..n) /\ Cardinality(1..n) = n
      BY FS_Interval
<1>3. skipped \subseteq 1..n
      BY <1>1
<1>4. skipped = 1..n
      BY <1>2, <1>3, FS_Subset
<1> QED BY <1>1, <1>4

LEMMA ExhaustKeeps ==
    ASSUME IInv, OpOK', KeysOK', NEW r \in Requests, Exhaust(r)
    PROVE  IInv'
<1> DEFINE u == req[r]
           v == [u EXCEPT !.verdict = ExhaustedVerdict(r)]
<1>1. req' = [req EXCEPT ![r] = v] /\ op' = op
      BY DEF Exhaust, banVars
<1>2. /\ u \in ReqType /\ u.phase = "loop" /\ u.verdict = "pending" /\ u.pos > Last(r)
      BY DEF Exhaust, Running, IInv, ReqOK
<1>3. WalkInv(r, u, op[r].step) /\ op[r].step = "idle"
      BY <1>2 DEF IInv, RequestInv, WalkInv
<1>4. /\ ExhaustedVerdict(r) \in {"partial", "context_too_large", "all_failed"}
      /\ ExhaustedVerdict(r) = "partial" <=> u.parts # <<>>
      /\ ExhaustedVerdict(r) = "context_too_large" => Cardinality(Skipped(r)) = Last(r)
      BY DEF ExhaustedVerdict
<1>5. v \in ReqType
      BY <1>2, <1>4 DEF ReqType
<1>6. /\ v.verdict = ExhaustedVerdict(r) /\ v.pos = u.pos /\ v.applied = u.applied
      /\ v.tried = u.tried /\ v.parts = u.parts
      BY <1>2 DEF ReqType
<1>7. u.pos = Last(r) + 1 /\ Last(r) \in Nat \ {0} /\ u.tried \in Seq(Marks)
      BY <1>2, <1>3, ChainModels DEF WalkInv, ReqType
<1>8. Len(u.tried) = Last(r) /\ u.tried # <<>>
      BY <1>2, <1>3, <1>7 DEF WalkInv
<1>9. v.verdict = "context_too_large" => \A i \in DOMAIN v.tried : v.tried[i] \in Skips
      BY <1>2, <1>4, <1>6, <1>7, <1>8, AllSkipped DEF Skipped
<1> HIDE DEF u, v
<1>10. u.applied /\ Marked(u, "answered") = {} /\ PartsOf(u) = Marked(u, "token_limit")
          /\ Increasing(u.parts)
      BY <1>3, <1>8 DEF WalkInv
<1>11. Explained(r, v)
  <2>1. Marked(v, "answered") = {} /\ PartsOf(v) = Marked(v, "token_limit")
        BY <1>6, <1>10 DEF Marked, PartsOf
  <2> QED BY <1>4, <1>6, <1>8, <1>9, <1>10, <2>1 DEF Explained
<1> QED BY <1>1, <1>3, <1>4, <1>5, <1>6, <1>11, OwnStep DEF RequestInv

LEMMA TickKeeps ==
    ASSUME IInv, OpOK', KeysOK', NEW m \in Models, Tick(m)
    PROVE  IInv'
<1>1. req' = req /\ op' = op
      BY DEF Tick, TimePasses, CountLapses, BanLapses
<1> QED BY <1>1 DEF IInv, ReqOK

-----------------------------------------------------------------------------
(* The invariant                                                           *)

LEMMA ChainInvInit == Init => IInv
<1> SUFFICES ASSUME Init PROVE IInv
    OBVIOUS
<1>1. OpOK /\ KeysOK
      BY BanTypeInit DEF Init
<1>2. Fresh \in ReqType /\ Fresh.verdict = "none"
      BY DEF Fresh, ReqType
<1>3. \A r \in Requests : req[r] = Fresh /\ op[r].step = "idle"
      BY DEF Init, BanInit, Idle, Requests
<1>4. ReqOK
      BY <1>2 DEF Init, ReqOK
<1> QED BY <1>1, <1>2, <1>3, <1>4 DEF IInv, RequestInv

LEMMA ChainInvStep == IInv /\ [Next]_vars => IInv'
<1> SUFFICES ASSUME IInv, [Next]_vars PROVE IInv'
    OBVIOUS
<1>1. OpOK' /\ KeysOK'
      BY BanStep, BanTypeStep DEF IInv
<1>2. CASE UNCHANGED vars
      BY <1>1, <1>2 DEF vars, banVars, IInv, ReqOK
<1>3. ASSUME NEW r \in Requests, Begin(r) \/ Walk(r) \/ Helper(r) PROVE IInv'
      BY <1>1, <1>3, BeginKeeps, SkipBannedKeeps, AttemptKeeps, FailureKeeps,
         CallSucceedsKeeps, CallRaisesKeeps, HelperKeeps, NextModelKeeps, ContinueKeeps,
         ReturnKeeps, ExhaustKeeps DEF Walk
<1> QED BY <1>1, <1>2, <1>3, TickKeeps DEF Next

LEMMA Invariance == Spec => []IInv
    BY ChainInvInit, ChainInvStep, PTL DEF Spec

LEMMA ChainTypeParts == IInv => TypeOK
    BY BanTypeParts DEF IInv, ReqOK, TypeOK

\* The types of the keys, of the helpers and of the walks.
THEOREM ChainTypeCorrect == Spec => []TypeOK
    BY Invariance, ChainTypeParts, PTL

\* Whatever the models, the bans and the other requests do, what a caller
\* reads in attempted_models, fallback_applied and the text explains the
\* verdict it got.
THEOREM AttemptsExplainTheVerdict == Spec => []AttemptsExplainVerdict
<1>1. IInv => AttemptsExplainVerdict
  <2> SUFFICES ASSUME IInv, NEW r \in Requests, ~Running(r),
                      req[r].verdict \notin {"none", "raised"}
               PROVE  Explained(r, req[r])
      BY DEF AttemptsExplainVerdict, Explained, Positions, Marked, PartsOf, Increasing
  <2> QED BY DEF IInv, RequestInv, Running
<1> QED BY <1>1, Invariance, PTL

-----------------------------------------------------------------------------
(* The ban keys under the chain                                            *)

\* The commands that all the walks send to the ban keys, in whatever order
\* they interleave, are those of ModelBan.
LEMMA ChainUsesBan == Spec => BanSafety
<1>1. Init => BanInit
      BY DEF Init
<1> QED BY <1>1, BanStep, Invariance, PTL DEF Spec, BanSafety

\* So the theorems about ModelBan hold of the chain: no request leaves a
\* counter without a TTL, and only a request that was let in before a ban can
\* lift it.
THEOREM ChainKeepsBans ==
    Spec => []CounterGuarded /\ BanLiftedOnlyByEarlierRequest
    BY ChainUsesBan, CounterIsGuarded, BansAreLiftedByEarlierRequests, PTL

-----------------------------------------------------------------------------
(* The media of a turn                                                     *)

\* Raw media are left for the first model only when the caller validated them
\* against one that it may have selected, and are called past it only on
\* models that take them.
ContentInv(r, v) ==
    v.content = "raw" =>
        /\ v.pos = 1 => \E s \in Selected[r] : Chain[r][s] \in Capable
        /\ v.pos > 1 /\ v.phase = "attempt" => Chain[r][v.pos] \in Capable

\* Raw media reach a model that cannot take them only as the first of the
\* chain, and only when the caller may select another than the first.
RawOnlyToCapableOrUnselected ==
    \A r \in Requests :
        Calling(r) /\ req[r].content = "raw" =>
            \/ ModelAt(r) \in Capable
            \/ req[r].pos = 1 /\ \E s \in Selected[r] \ {1} : Chain[r][s] \in Capable

LEMMA ContentStep ==
    IInv /\ (\A r \in Requests : ContentInv(r, req[r])) /\ [Next]_vars
        => (\A r \in Requests : ContentInv(r, req[r]))'
<1> SUFFICES ASSUME IInv, \A r \in Requests : ContentInv(r, req[r]), [Next]_vars
             PROVE  (\A r \in Requests : ContentInv(r, req[r]))'
    OBVIOUS
<1>1. CASE req' = req
      BY <1>1 DEF ContentInv
<1>2. ASSUME NEW r \in Requests, NEW v, req' = [req EXCEPT ![r] = v], ContentInv(r, v)
      PROVE  (\A q \in Requests : ContentInv(q, req[q]))'
  <2>1. \A q \in Requests : req'[q] = IF q = r THEN v ELSE req[q]
        BY <1>2 DEF IInv, ReqOK
  <2> QED BY <1>2, <2>1 DEF ContentInv
<1>3. ASSUME NEW r \in Requests, Begin(r) \/ Walk(r)
      PROVE  (\A q \in Requests : ContentInv(q, req[q]))'
  <2> DEFINE u == req[r]
  <2>0. u \in ReqType /\ u.pos \in Nat \ {0} /\ ContentInv(r, u)
        BY DEF IInv, ReqOK, ReqType
  <2>1. CASE Begin(r)
    <3>0. PICK est \in 1..MaxEst, s \in Selected[r] :
              \E c \in {"plain", ContentFor(Chain[r][s])} : req' = [req EXCEPT ![r] =
                  [Fresh EXCEPT !.est = est, !.content = c, !.verdict = "pending"]]
          BY <2>1 DEF Begin
    <3>1. PICK c \in {"plain", ContentFor(Chain[r][s])} : req' = [req EXCEPT ![r] =
                  [Fresh EXCEPT !.est = est, !.content = c, !.verdict = "pending"]]
          BY <3>0
    <3> DEFINE v == [Fresh EXCEPT !.est = est, !.content = c, !.verdict = "pending"]
    <3>2. v.content = c /\ v.pos = 1
          BY DEF Fresh
    <3>3. c = "raw" => Chain[r][s] \in Capable
          BY DEF ContentFor
    <3> HIDE DEF v
    <3>4. ContentInv(r, v)
          BY <3>2, <3>3 DEF ContentInv
    <3> QED BY <1>2, <3>1, <3>4 DEF v
  <2>2. CASE SkipBanned(r)
    <3> DEFINE v == [u EXCEPT !.tried = Append(@, "banned"), !.applied = TRUE, !.pos = @ + 1]
    <3>1. req' = [req EXCEPT ![r] = v] /\ u.phase = "loop"
          BY <2>2 DEF SkipBanned, InLoop
    <3>2. v.phase = "loop" /\ v.pos > 1
          BY <2>0, <3>1 DEF ReqType
    <3> HIDE DEF v
    <3>3. ContentInv(r, v)
          BY <3>2 DEF ContentInv
    <3> QED BY <1>2, <3>1, <3>3
  <2>3. CASE Attempt(r)
    <3> DEFINE v == [u EXCEPT !.phase = "attempt", !.content = Revalidated(r)]
    <3>1. req' = [req EXCEPT ![r] = v]
          BY <2>3 DEF Attempt
    <3>2. v.content = Revalidated(r) /\ v.pos = u.pos
          BY <2>0 DEF ReqType
    <3>3. Revalidated(r) = "raw" =>
              u.content = "raw" /\ (u.pos > 1 => Chain[r][u.pos] \in Capable)
          BY DEF Revalidated, ModelAt
    <3> HIDE DEF u, v
    <3>4. ContentInv(r, v)
          BY <2>0, <3>2, <3>3 DEF ContentInv
    <3> QED BY <1>2, <3>1, <3>4
  <2>4. CASE NextModel(r)
    <3> DEFINE v == [u EXCEPT !.phase = "loop", !.pos = @ + 1]
    <3>1. req' = [req EXCEPT ![r] = v]
          BY <2>4 DEF NextModel
    <3>2. v.phase = "loop" /\ v.pos > 1
          BY <2>0 DEF ReqType
    <3> HIDE DEF v
    <3>3. ContentInv(r, v)
          BY <3>2 DEF ContentInv
    <3> QED BY <1>2, <3>1, <3>3
  <2>5. CASE ContinueWithNext(r)
    <3>1. PICK v : req' = [req EXCEPT ![r] = v] /\ v.phase = "loop" /\ v.pos > 1
      <4>1. PICK est \in 1..MaxEst :
              req' = [req EXCEPT ![r] =
                  [req[r] EXCEPT !.tried = Append(@, "token_limit"),
                                 !.parts = Append(@, req[r].pos),
                                 !.applied = TRUE,
                                 !.est = est,
                                 !.finish = "none",
                                 !.phase = "loop",
                                 !.pos = @ + 1]]
            BY <2>5 DEF ContinueWithNext
      <4> DEFINE v == [u EXCEPT !.tried = Append(@, "token_limit"), !.parts = Append(@, u.pos),
                          !.applied = TRUE, !.est = est, !.finish = "none",
                          !.phase = "loop", !.pos = @ + 1]
      <4>2. v.phase = "loop" /\ v.pos > 1
            BY <2>0 DEF ReqType
      <4>3. req' = [req EXCEPT ![r] = v]
            BY <4>1, Zenon
      <4> HIDE DEF v
      <4> QED BY <4>2, <4>3
    <3>2. ContentInv(r, v)
          BY <3>1 DEF ContentInv
    <3> QED BY <1>2, <3>1, <3>2
  <2>6. CASE SkipModel(r) \/ CallFails(r) \/ CallSucceeds(r) \/ CallRaises(r) \/ Return(r)
             \/ Exhaust(r)
    <3>1. PICK v : /\ req' = [req EXCEPT ![r] = v]
                   /\ v.content = u.content /\ v.pos = u.pos /\ v.phase = u.phase
      <4>1. CASE SkipModel(r) \/ CallFails(r)
        <5>1. PICK mark : MarkFailure(r, mark)
              BY <4>1 DEF SkipModel, CallFails
        <5> DEFINE v == [u EXCEPT !.tried = Append(@, mark), !.applied = TRUE]
        <5>2. req' = [req EXCEPT ![r] = v]
              BY <5>1 DEF MarkFailure
        <5>3. v.content = u.content /\ v.pos = u.pos /\ v.phase = u.phase
              BY <2>0 DEF ReqType
        <5> HIDE DEF v
        <5> QED BY <5>2, <5>3
      <4>2. CASE CallSucceeds(r)
        <5>1. PICK finish : req' = [req EXCEPT ![r].finish = finish]
              BY <4>2 DEF CallSucceeds
        <5> DEFINE v == [u EXCEPT !.finish = finish]
        <5>2. req' = [req EXCEPT ![r] = v]
              BY <5>1
        <5>3. v.content = u.content /\ v.pos = u.pos /\ v.phase = u.phase
              BY <2>0 DEF ReqType
        <5> HIDE DEF v
        <5> QED BY <5>2, <5>3
      <4>3. CASE CallRaises(r) \/ Exhaust(r)
        <5>1. PICK verdict : req' = [req EXCEPT ![r].verdict = verdict]
              BY <4>3 DEF CallRaises, Exhaust
        <5> DEFINE v == [u EXCEPT !.verdict = verdict]
        <5>2. req' = [req EXCEPT ![r] = v]
              BY <5>1
        <5>3. v.content = u.content /\ v.pos = u.pos /\ v.phase = u.phase
              BY <2>0 DEF ReqType
        <5> HIDE DEF v
        <5> QED BY <5>2, <5>3
      <4>4. CASE Return(r)
        <5> DEFINE v == [u EXCEPT !.tried = Append(@, "answered"),
                                  !.parts = Append(@, u.pos), !.verdict = "ok"]
        <5>1. req' = [req EXCEPT ![r] = v]
              BY <4>4 DEF Return
        <5>2. v.content = u.content /\ v.pos = u.pos /\ v.phase = u.phase
              BY <2>0 DEF ReqType
        <5> HIDE DEF v
        <5> QED BY <5>1, <5>2
      <4> QED BY <2>6, <4>1, <4>2, <4>3, <4>4
    <3>2. ContentInv(r, v)
          BY <2>0, <3>1 DEF ContentInv
    <3> QED BY <1>2, <3>1, <3>2
  <2> QED BY <1>3, <2>1, <2>2, <2>3, <2>4, <2>5, <2>6 DEF Walk
<1> QED BY <1>1, <1>3 DEF Next, Helper, Tick, vars

LEMMA ContentInvariance == Spec => []\A r \in Requests : ContentInv(r, req[r])
<1>1. Init => \A r \in Requests : ContentInv(r, req[r])
      BY DEF Init, Fresh, ContentInv
<1> QED BY <1>1, ContentStep, Invariance, PTL DEF Spec

\* Whoever the caller selected: raw media are never called on a model that
\* cannot take them, save on the first when the caller selected another.
THEOREM RawMediaFollowSelection == Spec => []RawOnlyToCapableOrUnselected
<1>1. IInv /\ (\A r \in Requests : ContentInv(r, req[r])) => RawOnlyToCapableOrUnselected
  <2> SUFFICES ASSUME IInv, NEW r \in Requests, ContentInv(r, req[r]), Calling(r),
                      req[r].content = "raw", ModelAt(r) \notin Capable
               PROVE  req[r].pos = 1 /\ \E s \in Selected[r] \ {1} : Chain[r][s] \in Capable
      BY DEF RawOnlyToCapableOrUnselected
  <2>1. req[r].pos \in Nat \ {0} /\ req[r].phase = "attempt"
        BY DEF IInv, ReqOK, ReqType, Calling, Attempting
  <2> QED BY <2>1 DEF ContentInv, ModelAt
<1> QED BY <1>1, ContentInvariance, Invariance, PTL

-----------------------------------------------------------------------------
(* The refinement of OrderedFailover                                       *)

\* What the refinement mapping makes of the locals of a request.
Consumed(v) == IF v.verdict = "ok" THEN v.pos ELSE v.pos - 1

cursorBar == [r \in Requests |-> Consumed(req[r])]

servedBar == [r \in Requests |-> req[r].parts]

verdictBar == [r \in Requests |-> req[r].verdict]

Updated(f, r, e) == [f EXCEPT ![r] = e]

LEMMA UpdatedFunction ==
    ASSUME NEW S, NEW r \in S, NEW e, NEW f, NEW g,
           f = [q \in S |-> f[q]], g = [q \in S |-> g[q]],
           g[r] = e, \A q \in S \ {r} : g[q] = f[q]
    PROVE  g = Updated(f, r, e)
    BY DEF Updated

LEMMA MappedStep ==
    ASSUME ReqOK, NEW r \in Requests, NEW v, req' = [req EXCEPT ![r] = v]
    PROVE  /\ cursorBar' = Updated(cursorBar, r, Consumed(v))
           /\ servedBar' = Updated(servedBar, r, v.parts)
           /\ verdictBar' = Updated(verdictBar, r, v.verdict)
<1>1. req'[r] = v /\ \A q \in Requests \ {r} : req'[q] = req[q]
      BY DEF ReqOK
<1>2. /\ cursorBar'[r] = Consumed(v) /\ servedBar'[r] = v.parts
      /\ verdictBar'[r] = v.verdict
      BY <1>1 DEF cursorBar, servedBar, verdictBar, Consumed
<1>3. \A q \in Requests \ {r} : /\ cursorBar'[q] = cursorBar[q]
                                /\ servedBar'[q] = servedBar[q]
                                /\ verdictBar'[q] = verdictBar[q]
      BY <1>1 DEF cursorBar, servedBar, verdictBar, Consumed
<1>4. /\ cursorBar = [q \in Requests |-> cursorBar[q]]
      /\ servedBar = [q \in Requests |-> servedBar[q]]
      /\ verdictBar = [q \in Requests |-> verdictBar[q]]
      BY DEF cursorBar, servedBar, verdictBar
<1>5. /\ cursorBar' = [q \in Requests |-> cursorBar'[q]]
      /\ servedBar' = [q \in Requests |-> servedBar'[q]]
      /\ verdictBar' = [q \in Requests |-> verdictBar'[q]]
      BY DEF cursorBar, servedBar, verdictBar
<1> QED BY <1>2, <1>3, <1>4, <1>5, UpdatedFunction

LEMMA MappedStutter ==
    ASSUME ReqOK, NEW r \in Requests, NEW v, req' = [req EXCEPT ![r] = v],
           Consumed(v) = Consumed(req[r]), v.parts = req[r].parts,
           v.verdict = req[r].verdict
    PROVE  UNCHANGED <<cursorBar, servedBar, verdictBar>>
<1>1. req'[r] = v /\ \A q \in Requests \ {r} : req'[q] = req[q]
      BY DEF ReqOK
<1>2. \A q \in Requests : /\ Consumed(req'[q]) = Consumed(req[q])
                          /\ req'[q].parts = req[q].parts
                          /\ req'[q].verdict = req[q].verdict
      BY <1>1
<1> QED BY <1>2 DEF cursorBar, servedBar, verdictBar, Consumed

LEMMA UpdatedWithSame ==
    ASSUME NEW r \in Requests, NEW e, verdictBar[r] = e
    PROVE  Updated(verdictBar, r, e) = verdictBar
    BY DEF Updated, verdictBar

\* A request that leaves a position behind, and one that ends.
LEMMA PassOverMapped ==
    ASSUME ReqOK, NEW r \in Requests, NEW v, req' = [req EXCEPT ![r] = v],
           req[r].verdict = "pending", req[r].pos \in Nat \ {0}, Last(r) \in Nat,
           req[r].pos <= Last(r), v.pos = req[r].pos + 1, v.parts = req[r].parts,
           v.verdict = req[r].verdict
    PROVE  Failover!PassOver(r)
<1>1. /\ cursorBar[r] = req[r].pos - 1 /\ servedBar[r] = req[r].parts
      /\ verdictBar[r] = "pending"
      BY DEF cursorBar, servedBar, verdictBar, Consumed
<1>2. Consumed(v) = req[r].pos
      BY DEF Consumed
<1>3. /\ cursorBar' = Updated(cursorBar, r, req[r].pos)
      /\ servedBar' = servedBar /\ verdictBar' = verdictBar
  <2>1. \A q \in Requests : req'[q] = IF q = r THEN v ELSE req[q]
        BY DEF ReqOK
  <2>2. servedBar' = servedBar
        BY <2>1 DEF servedBar
  <2>3. verdictBar' = verdictBar
        BY <2>1 DEF verdictBar
  <2> QED BY <1>2, <2>2, <2>3, MappedStep
<1>4. cursorBar[r] < Last(r) /\ cursorBar[r] + 1 = req[r].pos
      BY <1>1
<1>5. cursorBar' = [cursorBar EXCEPT ![r] = @ + 1]
      BY <1>3, <1>4 DEF Updated
<1> QED BY <1>1, <1>3, <1>4, <1>5 DEF Failover!PassOver, Failover!Consume, cursorBar,
                                      servedBar, verdictBar, Consumed

LEMMA VerdictMapped ==
    ASSUME ReqOK, NEW r \in Requests, NEW v, req' = [req EXCEPT ![r] = v],
           req[r].verdict = "pending", v.verdict # "ok", v.pos = req[r].pos,
           v.parts = req[r].parts
    PROVE  /\ UNCHANGED <<cursorBar, servedBar>>
           /\ verdictBar' = Updated(verdictBar, r, v.verdict)
<1>1. req'[r] = v /\ \A q \in Requests \ {r} : req'[q] = req[q]
      BY DEF ReqOK
<1>2. \A q \in Requests : Consumed(req'[q]) = Consumed(req[q])
                          /\ req'[q].parts = req[q].parts
      BY <1>1 DEF Consumed
<1>3. UNCHANGED <<cursorBar, servedBar>>
      BY <1>2 DEF cursorBar, servedBar, Consumed
<1> QED BY <1>3, MappedStep

LEMMA RefinedInit == Init => Failover!FailoverInit
<1> SUFFICES ASSUME Init PROVE Failover!FailoverInit
    OBVIOUS
<1>1. \A r \in Requests : req[r] = Fresh
      BY DEF Init
<1>2. Fresh.pos - 1 = 0 /\ Fresh.parts = <<>> /\ Fresh.verdict = "none"
      BY DEF Fresh
<1> QED BY <1>1, <1>2 DEF Failover!FailoverInit

LEMMA RefinedStep == IInv /\ [Next]_vars
                        => [Failover!FailoverNext]_<<cursorBar, servedBar, verdictBar>>
<1> SUFFICES ASSUME IInv, [Next]_vars
             PROVE  [Failover!FailoverNext]_<<cursorBar, servedBar, verdictBar>>
    OBVIOUS
<1>1. CASE req' = req
      BY <1>1 DEF cursorBar, servedBar, verdictBar, Consumed
<1>2. ASSUME NEW r \in Requests, Begin(r)
      PROVE  Failover!Ask(r)
  <2>1. PICK est \in 1..MaxEst, s \in Selected[r] :
            \E c \in {"plain", ContentFor(Chain[r][s])} : req' = [req EXCEPT ![r] =
                [Fresh EXCEPT !.est = est, !.content = c, !.verdict = "pending"]]
        BY <1>2 DEF Begin
  <2>2. PICK c : req' = [req EXCEPT ![r] =
                [Fresh EXCEPT !.est = est, !.content = c, !.verdict = "pending"]]
        BY <2>1
  <2> DEFINE v == [Fresh EXCEPT !.est = est, !.content = c, !.verdict = "pending"]
  <2>3. Consumed(v) = 0 /\ v.parts = <<>> /\ v.verdict = "pending"
        BY DEF Fresh, Consumed
  <2>0. req' = [req EXCEPT ![r] = v]
        BY <2>2
  <2> HIDE DEF v
  <2>4. /\ cursorBar' = Updated(cursorBar, r, 0)
        /\ servedBar' = Updated(servedBar, r, <<>>)
        /\ verdictBar' = Updated(verdictBar, r, "pending")
        BY <2>0, <2>3, MappedStep DEF IInv
  <2>5. verdictBar[r] # "pending"
        BY <1>2 DEF Begin, Running, verdictBar
  <2> QED BY <2>4, <2>5 DEF Updated, Failover!Ask, cursorBar, servedBar, verdictBar, Consumed
\* What a request that walks has consumed.
<1>3. ASSUME NEW r \in Requests, Running(r)
      PROVE  /\ req[r] \in ReqType /\ req[r].verdict = "pending"
             /\ WalkInv(r, req[r], op[r].step)
             /\ Consumed(req[r]) = req[r].pos - 1
             /\ verdictBar[r] = "pending" /\ cursorBar[r] = req[r].pos - 1
             /\ servedBar[r] = req[r].parts
             /\ req[r].pos \in Nat \ {0} /\ Last(r) \in Nat
      BY <1>3, ChainModels DEF Running, IInv, ReqOK, ReqType, RequestInv, Consumed,
                               cursorBar, servedBar, verdictBar
<1>4. ASSUME NEW r \in Requests, SkipBanned(r)
      PROVE  Failover!PassOver(r)
  <2> DEFINE u == req[r]
             v == [u EXCEPT !.tried = Append(@, "banned"), !.applied = TRUE, !.pos = @ + 1]
  <2>1. req' = [req EXCEPT ![r] = v] /\ Running(r) /\ u.pos <= Last(r)
        BY <1>4 DEF SkipBanned, InLoop
  <2>2. v.pos = u.pos + 1 /\ v.parts = u.parts /\ v.verdict = u.verdict
        BY <1>3, <2>1 DEF ReqType
  <2> HIDE DEF v
  <2> QED BY <1>3, <2>1, <2>2, PassOverMapped DEF IInv
<1>5. ASSUME NEW r \in Requests, NextModel(r)
      PROVE  Failover!PassOver(r)
  <2> DEFINE u == req[r]
             v == [u EXCEPT !.phase = "loop", !.pos = @ + 1]
  <2>1. req' = [req EXCEPT ![r] = v] /\ Running(r) /\ u.phase = "attempt"
        BY <1>5 DEF NextModel, AttemptOver
  <2>2. v.pos = u.pos + 1 /\ v.parts = u.parts /\ v.verdict = u.verdict
        BY <1>3, <2>1 DEF ReqType
  <2>3. u.pos <= Last(r)
        BY <1>3, <2>1 DEF WalkInv
  <2> HIDE DEF v
  <2> QED BY <1>3, <2>1, <2>2, <2>3, PassOverMapped DEF IInv
<1>6. ASSUME NEW r \in Requests, Attempt(r)
      PROVE  UNCHANGED <<cursorBar, servedBar, verdictBar>>
  <2> DEFINE u == req[r]
             v == [u EXCEPT !.phase = "attempt", !.content = Revalidated(r)]
  <2>1. req' = [req EXCEPT ![r] = v] /\ Running(r)
        BY <1>6 DEF Attempt, InLoop
  <2>2. v.pos = u.pos /\ v.parts = u.parts /\ v.verdict = u.verdict
        BY <1>3, <2>1 DEF ReqType
  <2> HIDE DEF v
  <2> QED BY <2>1, <2>2, MappedStutter DEF IInv, Consumed
<1>7. ASSUME NEW r \in Requests, SkipModel(r) \/ CallFails(r)
      PROVE  UNCHANGED <<cursorBar, servedBar, verdictBar>>
  <2>1. PICK mark : MarkFailure(r, mark) /\ Running(r)
        BY <1>7 DEF SkipModel, CallFails, Calling, Attempting
  <2> DEFINE u == req[r]
             v == [u EXCEPT !.tried = Append(@, mark), !.applied = TRUE]
  <2>2. req' = [req EXCEPT ![r] = v]
        BY <2>1 DEF MarkFailure
  <2>3. v.pos = u.pos /\ v.parts = u.parts /\ v.verdict = u.verdict
        BY <1>3, <2>1 DEF ReqType
  <2> HIDE DEF v
  <2> QED BY <2>2, <2>3, MappedStutter DEF IInv, Consumed
<1>8. ASSUME NEW r \in Requests, CallSucceeds(r)
      PROVE  UNCHANGED <<cursorBar, servedBar, verdictBar>>
  <2>1. PICK finish : req' = [req EXCEPT ![r].finish = finish] /\ Running(r)
        BY <1>8 DEF CallSucceeds, Calling, Attempting
  <2> DEFINE u == req[r]
             v == [u EXCEPT !.finish = finish]
  <2>2. req' = [req EXCEPT ![r] = v]
        BY <2>1
  <2>3. v.pos = u.pos /\ v.parts = u.parts /\ v.verdict = u.verdict
        BY <1>3, <2>1 DEF ReqType
  <2> HIDE DEF v
  <2> QED BY <2>2, <2>3, MappedStutter DEF IInv, Consumed
<1>9. ASSUME NEW r \in Requests, CallRaises(r)
      PROVE  Failover!Abort(r)
  <2> DEFINE u == req[r]
             v == [u EXCEPT !.verdict = "raised"]
  <2>1. req' = [req EXCEPT ![r] = v] /\ Running(r)
        BY <1>9 DEF CallRaises, Calling, Attempting
  <2>2. v.pos = u.pos /\ v.parts = u.parts /\ v.verdict = "raised"
        BY <1>3, <2>1 DEF ReqType
  <2> HIDE DEF v
  <2>3. UNCHANGED <<cursorBar, servedBar>> /\ verdictBar' = Updated(verdictBar, r, "raised")
        BY <1>3, <2>1, <2>2, VerdictMapped DEF IInv
  <2> QED BY <1>3, <2>1, <2>3 DEF Updated, Failover!Abort, cursorBar, servedBar, verdictBar,
                                  Consumed
<1>10. ASSUME NEW r \in Requests, Exhaust(r)
       PROVE  Failover!GiveUp(r)
  <2> DEFINE u == req[r]
             verdict == ExhaustedVerdict(r)
             v == [u EXCEPT !.verdict = verdict]
  <2>1. /\ req' = [req EXCEPT ![r] = v] /\ Running(r)
        /\ u.phase = "loop" /\ u.pos > Last(r)
        BY <1>10 DEF Exhaust
  <2>2. /\ verdict \in {"partial"} \union Failover!Failures
        /\ verdict = "partial" <=> u.parts # <<>>
        BY DEF ExhaustedVerdict, Failover!Failures
  <2>3. v.pos = u.pos /\ v.parts = u.parts /\ v.verdict = verdict /\ verdict # "ok"
        BY <1>3, <2>1, <2>2 DEF ReqType, Failover!Failures
  <2>4. cursorBar[r] = Last(r)
        BY <1>3, <2>1 DEF WalkInv
  <2> HIDE DEF v, verdict
  <2>5. UNCHANGED <<cursorBar, servedBar>> /\ verdictBar' = Updated(verdictBar, r, verdict)
        BY <1>3, <2>1, <2>3, VerdictMapped DEF IInv
  <2> QED BY <1>3, <2>1, <2>2, <2>4, <2>5
      DEF Updated, Failover!GiveUp, cursorBar, servedBar, verdictBar, Consumed
\* An answer, whole or cut off.
<1>11. ASSUME NEW r \in Requests, ContinueWithNext(r)
       PROVE  Failover!Contribute(r)
  <2>1. PICK est \in 1..MaxEst :
            req' = [req EXCEPT ![r] =
                [req[r] EXCEPT !.tried = Append(@, "token_limit"),
                               !.parts = Append(@, req[r].pos),
                               !.applied = TRUE,
                               !.est = est,
                               !.finish = "none",
                               !.phase = "loop",
                               !.pos = @ + 1]]
        BY <1>11 DEF ContinueWithNext
  <2> DEFINE u == req[r]
             v == [u EXCEPT !.tried = Append(@, "token_limit"), !.parts = Append(@, u.pos),
                            !.applied = TRUE, !.est = est, !.finish = "none",
                            !.phase = "loop", !.pos = @ + 1]
  <2>2. req' = [req EXCEPT ![r] = v]
        BY <2>1, Zenon
  <2>3. Running(r) /\ u.pos < Last(r)
        BY <1>11 DEF ContinueWithNext, AttemptOver, Continues
  <2>4. v.pos = u.pos + 1 /\ v.parts = Append(u.parts, u.pos) /\ v.verdict = "pending"
        BY <1>3, <2>3 DEF ReqType
  <2> HIDE DEF v
  <2>5. Consumed(v) = u.pos
        BY <1>3, <2>3, <2>4 DEF Consumed
  <2>6. /\ cursorBar' = Updated(cursorBar, r, u.pos)
        /\ servedBar' = Updated(servedBar, r, Append(u.parts, u.pos))
        /\ verdictBar' = Updated(verdictBar, r, "pending")
        BY <2>2, <2>4, <2>5, MappedStep DEF IInv
  <2>7. verdictBar' = verdictBar
        BY <1>3, <2>3, <2>6, UpdatedWithSame
  <2>8. cursorBar[r] + 1 = u.pos
        BY <1>3, <2>3
  <2>9. /\ cursorBar' = [cursorBar EXCEPT ![r] = @ + 1]
        /\ servedBar' = [servedBar EXCEPT ![r] = Append(@, cursorBar[r] + 1)]
        BY <1>3, <2>3, <2>6, <2>8 DEF Updated
  <2>10. cursorBar[r] < Last(r) /\ cursorBar[r] + 1 < Last(r)
        BY <1>3, <2>3, <2>8
  <2> QED BY <1>3, <2>3, <2>7, <2>9, <2>10
      DEF Failover!Contribute, Failover!Consume, cursorBar, servedBar, verdictBar, Consumed
<1>12. ASSUME NEW r \in Requests, Return(r)
       PROVE  Failover!Deliver(r)
  <2> DEFINE u == req[r]
             v == [u EXCEPT !.tried = Append(@, "answered"), !.parts = Append(@, u.pos),
                            !.verdict = "ok"]
  <2>1. req' = [req EXCEPT ![r] = v] /\ Running(r) /\ u.phase = "attempt"
        BY <1>12 DEF Return, AttemptOver
  <2>2. v.pos = u.pos /\ v.parts = Append(u.parts, u.pos) /\ v.verdict = "ok"
        BY <1>3, <2>1 DEF ReqType
  <2> HIDE DEF v
  <2>3. Consumed(v) = u.pos
        BY <2>2 DEF Consumed
  <2>4. /\ cursorBar' = Updated(cursorBar, r, u.pos)
        /\ servedBar' = Updated(servedBar, r, Append(u.parts, u.pos))
        /\ verdictBar' = Updated(verdictBar, r, "ok")
        BY <2>1, <2>2, <2>3, MappedStep DEF IInv
  <2>5. cursorBar[r] + 1 = u.pos
        BY <1>3, <2>1
  <2>6. /\ cursorBar' = [cursorBar EXCEPT ![r] = @ + 1]
        /\ servedBar' = [servedBar EXCEPT ![r] = Append(@, cursorBar[r] + 1)]
        /\ verdictBar' = [verdictBar EXCEPT ![r] = "ok"]
        BY <1>3, <2>1, <2>4, <2>5 DEF Updated
  <2>7. cursorBar[r] < Last(r)
        BY <1>3, <2>1, <2>5 DEF WalkInv
  <2> QED BY <1>3, <2>1, <2>6, <2>7
      DEF Failover!Deliver, Failover!Consume, cursorBar, servedBar, verdictBar, Consumed
<1>13. CASE Next
       BY <1>1, <1>2, <1>4, <1>5, <1>6, <1>7, <1>8, <1>9, <1>10, <1>11, <1>12, <1>13
       DEF Next, Walk, Helper, Tick, Failover!FailoverNext
<1> QED BY <1>1, <1>13 DEF vars

\* The walk consumes its chain in order, every model once, composes the answer
\* of what they contributed and fails only when the chain is used up.
THEOREM ChainImplementsFailover == Spec => ImplementsFailover
    BY RefinedInit, RefinedStep, Invariance, PTL
    DEF Spec, ImplementsFailover, Failover!FailoverSpec, Failover!failoverVars,
        cursorBar, servedBar, verdictBar, Consumed

=============================================================================
