---------------------------- MODULE FallbackChain ----------------------------
(***************************************************************************)
(* call_with_fallback and _try_physical_model of chat_fallback.py: each    *)
(* request walks the physical models of its pseudo-model in order, skips   *)
(* the banned, disabled and too small ones, stops at the first answer (or  *)
(* lets the next model continue an answer cut off by the token limit) and  *)
(* otherwise reports why none answered.  The ban keys are those of         *)
(* ModelBan, shared by all the requests, whose commands interleave here.   *)
(***************************************************************************)
EXTENDS ModelBan, Sequences, FiniteSets

CONSTANTS
    Chain,          \* Chain[r]: the physical_models list request r walks
    ContinueOnLength,   \* the requests whose pseudo-model sets it
    Disabled,       \* models of a provider in disabled_providers_set
    Capable,        \* models that take the content of the turn directly
    Window,         \* Window[m]: context_window (past MaxEst if it has none)
    MaxEst,         \* bound on the token estimate
    Selected        \* Selected[r]: positions the caller may have validated

Requests == Clients

ASSUME FallbackChainAssumption ==
    /\ Chain \in [Requests -> Seq(Models)]
    /\ \A r \in Requests : Chain[r] # <<>>
    /\ ContinueOnLength \subseteq Requests
    /\ Window \in [Models -> Nat]
    /\ MaxEst \in Nat \ {0}
    /\ \A r \in Requests : Selected[r] \subseteq 1..Len(Chain[r])

VARIABLES
    req             \* the local variables of each call_with_fallback

vars == <<banVars, req>>

Last(r) == Len(Chain[r])

ModelAt(r) == Chain[r][req[r].pos]

Running(r) == req[r].verdict = "pending"

\* fallback_info.attempted_models[i] is Chain[r][i] with one of these marks.
Marks == {"answered", "token_limit", "banned", "disabled", "too_large", "failed"}

Skips == {"disabled", "too_large"}

\* _context_skipped
Skipped(r) == {i \in DOMAIN req[r].tried : req[r].tried[i] \in Skips}

\* Mutant of Fresh: the walk starts before the first model.
FreshAtZero == [phase |-> "loop", pos |-> 0, tried |-> <<>>, parts |-> <<>>,
                est |-> 1, content |-> "plain", finish |-> "none",
                applied |-> FALSE, verdict |-> "none"]

Fresh == [phase |-> "loop", pos |-> 1, tried |-> <<>>, parts |-> <<>>,
          est |-> 1, content |-> "plain", finish |-> "none",
          applied |-> FALSE, verdict |-> "none"]

Init ==
    /\ BanInit
    /\ req = [r \in Requests |-> Fresh]

\* The media of a turn is "raw" until it is replaced by blob references; a
\* turn of text and references is "plain".  The caller validated the media
\* against the model it selected and replaced it if that model cannot take it.
ContentFor(m) == IF m \in Capable THEN "raw" ELSE "plain"

Begin(r) ==
    /\ ~Running(r)
    /\ \E est \in 1..MaxEst, s \in Selected[r] :
          \E c \in {"plain", ContentFor(Chain[r][s])} :
             req' = [req EXCEPT ![r] =
                 [Fresh EXCEPT !.est = est, !.content = c, !.verdict = "pending"]]
    /\ UNCHANGED banVars

-----------------------------------------------------------------------------
(* One turn of the loop                                                    *)

InLoop(r) == Running(r) /\ req[r].phase = "loop" /\ req[r].pos <= Last(r)

\* Mutant of SkipBanned: the request waits for the ban to lapse.
WaitForBan(r) ==
    /\ InLoop(r)
    /\ banned[ModelAt(r)]
    /\ UNCHANGED <<banVars, req>>

SkipBanned(r) ==
    /\ InLoop(r)
    /\ banned[ModelAt(r)]
    /\ req' = [req EXCEPT ![r].tried = Append(@, "banned"),
                          ![r].applied = TRUE,
                          ![r].pos = @ + 1]
    /\ UNCHANGED banVars

\* Mutant of Revalidated: the content is left as the caller prepared it.
NotRevalidated(r) == req[r].content

\* Past the ban check, the content is validated again unless this is the
\* first model, and replaced for this and every later model of the chain.
Revalidated(r) ==
    IF req[r].pos > 1 /\ req[r].content = "raw" /\ ModelAt(r) \notin Capable
    THEN "plain"
    ELSE req[r].content

Attempt(r) ==
    /\ InLoop(r)
    /\ PassBanCheck(r, ModelAt(r))
    /\ req' = [req EXCEPT ![r].phase = "attempt",
                          ![r].content = Revalidated(r)]

\* The skip_reason of _try_physical_model, "none" when the model is called.
SkipReason(r) ==
    CASE ModelAt(r) \in Disabled -> "disabled"
      [] ModelAt(r) \notin Disabled /\ req[r].est > Window[ModelAt(r)] -> "too_large"
      [] OTHER -> "none"

Attempting(r) == Running(r) /\ req[r].phase = "attempt" /\ At(r, "calling")

MarkFailure(r, mark) ==
    req' = [req EXCEPT ![r].tried = Append(@, mark), ![r].applied = TRUE]

\* A skipped model counts as a failure of the model.
SkipModel(r) ==
    /\ Attempting(r)
    /\ SkipReason(r) # "none"
    /\ AttemptFails(r)
    /\ MarkFailure(r, SkipReason(r))

Calling(r) == Attempting(r) /\ SkipReason(r) = "none"

\* 503, 429, 404, 401 or 400.
CallFails(r) ==
    /\ Calling(r)
    /\ AttemptFails(r)
    /\ MarkFailure(r, "failed")

\* A stream has no finish_reason yet and counts as "stop".
CallSucceeds(r) ==
    /\ Calling(r)
    /\ AttemptSucceeds(r)
    /\ \E finish \in {"stop", "length"} :
          req' = [req EXCEPT ![r].finish = finish]

\* Any other exception, the timeout of wait_for among them, propagates.
CallRaises(r) ==
    /\ Calling(r)
    /\ AttemptRaises(r)
    /\ req' = [req EXCEPT ![r].verdict = "raised"]

Helper(r) ==
    /\ HelperStep(r) \/ HelperFails(r)
    /\ UNCHANGED req

AttemptOver(r) == Running(r) /\ req[r].phase = "attempt" /\ At(r, "idle")

NextModel(r) ==
    /\ AttemptOver(r)
    /\ req[r].finish = "none"
    /\ req' = [req EXCEPT ![r].phase = "loop", ![r].pos = @ + 1]
    /\ UNCHANGED banVars

-----------------------------------------------------------------------------
(* An answer                                                               *)

\* Mutant of Continues: the last model hands over as well.
ContinuesPastLast(r) == r \in ContinueOnLength /\ req[r].finish = "length"

\* _handle_length_continuation
Continues(r) ==
    /\ r \in ContinueOnLength
    /\ req[r].pos < Last(r)
    /\ req[r].finish = "length"

\* The partial answer joins the messages, so the estimate changes.
ContinueWithNext(r) ==
    /\ AttemptOver(r)
    /\ Continues(r)
    /\ \E est \in 1..MaxEst :
          req' = [req EXCEPT ![r] =
              [req[r] EXCEPT !.tried = Append(@, "token_limit"),
                             !.parts = Append(@, req[r].pos),
                             !.applied = TRUE,
                             !.est = est,
                             !.finish = "none",
                             !.phase = "loop",
                        !.pos = @ + 1]]
    /\ UNCHANGED banVars

\* The response, composed with the earlier parts if there are any.
Return(r) ==
    /\ AttemptOver(r)
    /\ req[r].finish # "none"
    /\ ~Continues(r)
    /\ req' = [req EXCEPT ![r].tried = Append(@, "answered"),
                          ![r].parts = Append(@, req[r].pos),
                          ![r].verdict = "ok"]
    /\ UNCHANGED banVars

\* Mutant of ExhaustedVerdict: the text of the earlier parts is forgotten.
FailureVerdict(r) ==
    IF Cardinality(Skipped(r)) = Last(r) THEN "context_too_large" ELSE "all_failed"

\* After the loop.
ExhaustedVerdict(r) ==
    CASE req[r].parts # <<>> -> "partial"
      [] req[r].parts = <<>> /\ Cardinality(Skipped(r)) = Last(r) -> "context_too_large"
      [] OTHER -> "all_failed"

Exhaust(r) ==
    /\ Running(r)
    /\ req[r].phase = "loop"
    /\ req[r].pos > Last(r)
    /\ req' = [req EXCEPT ![r].verdict = ExhaustedVerdict(r)]
    /\ UNCHANGED banVars

-----------------------------------------------------------------------------

Walk(r) ==
    \/ SkipBanned(r)
    \/ Attempt(r)
    \/ SkipModel(r)
    \/ CallFails(r)
    \/ CallSucceeds(r)
    \/ CallRaises(r)
    \/ NextModel(r)
    \/ ContinueWithNext(r)
    \/ Return(r)
    \/ Exhaust(r)

Tick(m) == TimePasses(m) /\ UNCHANGED req

Next ==
    \/ \E r \in Requests : Begin(r) \/ Walk(r) \/ Helper(r)
    \/ \E m \in Models : Tick(m)

Spec == Init /\ [][Next]_vars

\* The event loop runs every ready coroutine, and wait_for bounds each call.
FairSpec == Spec /\ \A r \in Requests : WF_vars(Walk(r) \/ Helper(r))

-----------------------------------------------------------------------------

ReqType ==
    [phase : {"loop", "attempt"}, pos : Nat \ {0}, tried : Seq(Marks),
     parts : Seq(Nat \ {0}), est : Nat, content : {"plain", "raw"},
     finish : {"none", "stop", "length"}, applied : BOOLEAN,
     verdict : {"none", "pending", "ok", "partial", "raised",
                "context_too_large", "all_failed"}]

TypeOK ==
    /\ BanTypeOK
    /\ req \in [Requests -> ReqType]

Positions(r, mark) == {i \in DOMAIN req[r].tried : req[r].tried[i] = mark}

\* What the caller reads explains the verdict it got.  attempted_models has one
\* entry for every model up to the last one consumed, all of them unless the
\* chain answered; the text is made, in the order of the chain, of exactly the
\* entries marked token_limit and the one that answered; fallback_applied, on
\* which process_chat_request moves the pin, is set exactly when the first
\* model did not give the whole answer; and ContextTooLargeForAllModels means
\* that no model was called or left out for a ban.
AttemptsExplainVerdict ==
    \A r \in Requests : ~Running(r) /\ req[r].verdict \notin {"none", "raised"} =>
        LET answered == Positions(r, "answered")
        IN /\ answered = IF req[r].verdict = "ok" THEN {req[r].pos} ELSE {}
           /\ Len(req[r].tried) = IF req[r].verdict = "ok" THEN req[r].pos ELSE Last(r)
           /\ {req[r].parts[i] : i \in DOMAIN req[r].parts}
                  = Positions(r, "token_limit") \union answered
           /\ \A i, j \in DOMAIN req[r].parts : i < j => req[r].parts[i] < req[r].parts[j]
           /\ req[r].parts = <<>> <=> req[r].verdict \in {"context_too_large", "all_failed"}
           /\ req[r].verdict \in {"ok", "partial"} => (req[r].applied <=> answered # {1})
           /\ req[r].verdict = "context_too_large" =>
                  \A i \in DOMAIN req[r].tried : req[r].tried[i] \in Skips

\* A model that cannot take the media of the turn is never called with the
\* raw media, "(the first/primary model was already validated upstream)".
RawOnlyToCapable ==
    \A r \in Requests :
        Calling(r) /\ req[r].content = "raw" => ModelAt(r) \in Capable

\* Every request comes to a verdict, whatever the models answer.
EveryRequestEnds == \A r \in Requests : Running(r) ~> ~Running(r)

\* The chain walk keeps the promise of OrderedFailover.
Failover == INSTANCE OrderedFailover WITH
    Length  <- [r \in Requests |-> Last(r)],
    cursor  <- [r \in Requests |->
                   IF req[r].verdict = "ok" THEN req[r].pos ELSE req[r].pos - 1],
    served  <- [r \in Requests |-> req[r].parts],
    verdict <- [r \in Requests |-> req[r].verdict]

ImplementsFailover == Failover!FailoverSpec

=============================================================================
