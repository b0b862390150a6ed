---------------------------- MODULE ModelAffinity ----------------------------
(***************************************************************************)
(* Which physical model a conversation is pinned to.  A request reads the  *)
(* pin from Valkey and the conversation from the database, in one order or *)
(* the other, selects a model, refuses what does not fit the window, has   *)
(* the fallback chain call a model, writes the pin and then the row.  The  *)
(* chain is represented by what ModelAffinity sees of it: the model that   *)
(* answered, the name it reported, and whether a fallback was applied.     *)
(***************************************************************************)
EXTENDS Integers, Sequences

CONSTANTS
    Requests,   \* requests of one conversation
    Streamed,   \* those with stream: true
    Pseudo,     \* Pseudo[r]: the pseudo-model a request asks for
    Chain,      \* Chain[p]: the physical models of a pseudo-model
    Parallel,   \* the models that take parallel tool calls
    Reports,    \* Reports[m]: the names an answer of m may carry
    NoName,     \* no name
    Bracketed,  \* the models whose names hold a "("
    Window,     \* Window[p]: the context window of a pseudo-model
    Threshold,  \* Threshold[p]: its input_token_threshold
    NoLimit,    \* None, as for both in a passthrough
    Estimates,  \* the estimated tokens of a request's messages, delegated or not
    Cost,       \* Cost[r]: the tokens the answer reports
    WithTools   \* requests with parallel tool calls

Pseudos == {Pseudo[r] : r \in Requests}
Models(p) == {Chain[p][i] : i \in DOMAIN Chain[p]}
AllModels == UNION {Models(p) : p \in Pseudos}
Names == AllModels \union UNION {Reports[m] : m \in AllModels}

ASSUME ModelAffinityAssumption ==
    /\ Streamed \subseteq Requests
    /\ WithTools \subseteq Requests
    /\ \A p \in Pseudos : Chain[p] \in Seq(AllModels) /\ Chain[p] # <<>>
    /\ \A p \in Pseudos : Window[p] \in (Nat \ {0}) \union {NoLimit}
    /\ \A p \in Pseudos : Threshold[p] \in Nat \union {NoLimit}
    /\ NoLimit \notin Nat
    /\ \A r \in Requests : Cost[r] \in Nat
    /\ Estimates \subseteq Nat
    /\ NoName \notin AllModels

VARIABLES
    pin,    \* conv:<id>:physical_model
    row,    \* the row of the conversation, as committed
    req     \* the locals of each request

vars == <<pin, row, req>>

NoRow == [exists |-> FALSE, physical |-> NoName, tokens |-> 0, parallel |-> FALSE]

\* existing: the pin it read; seen: the row it read; selected: the model it
\* validates for; answered, applied: the model that answered and whether a
\* fallback was applied; physical: the model it stores.
Fresh == [at |-> "arrived", existing |-> NoName, seen |-> NoRow, selected |-> NoName,
          answered |-> NoName, applied |-> FALSE, physical |-> NoName]

At(r, place) == req[r].at = place

Goto(r, place) == req' = [req EXCEPT ![r] = [@ EXCEPT !.at = place]]

Init ==
    /\ pin = NoName
    /\ row = NoRow
    /\ req = [r \in Requests |-> Fresh]

-----------------------------------------------------------------------------
(* Reading                                                                 *)

\* affinity.get: the first read of a plain request, the second of a stream.
ReadPin(r) ==
    /\ At(r, IF r \in Streamed THEN "loaded" ELSE "arrived")
    /\ req' = [req EXCEPT ![r] =
                  [@ EXCEPT !.existing = pin,
                            !.at = IF r \in Streamed THEN "selecting" ELSE "pinned"]]
    /\ UNCHANGED <<pin, row>>

\* db.get: the row, from which the session capabilities are taken too.
LoadConversation(r) ==
    /\ At(r, IF r \in Streamed THEN "arrived" ELSE "pinned")
    /\ req' = [req EXCEPT ![r] =
                  [@ EXCEPT !.seen = row,
                            !.at = IF r \in Streamed THEN "loaded" ELSE "selecting"]]
    /\ UNCHANGED <<pin, row>>

-----------------------------------------------------------------------------
(* Selecting                                                               *)

\* get_eligible_models, as positions of the list: all of them when none takes
\* parallel tools.
Eligible(p, parallel) ==
    LET able == {i \in DOMAIN Chain[p] : Chain[p][i] \in Parallel}
    IN IF parallel /\ able # {} THEN able ELSE DOMAIN Chain[p]

\* Mutant of Pinned: the pin is kept whatever the session needs.
PinnedRegardless(r) == req[r].existing # NoName

\* is_pinned_model_eligible, asked only when the session has parallel tools.
Pinned(r) ==
    /\ req[r].existing # NoName
    /\ req[r].seen.parallel =>
          \E i \in Eligible(Pseudo[r], TRUE) : Chain[Pseudo[r]][i] = req[r].existing

\* The position of the pinned model, the first one when the pin is none of the
\* list; without a pin the first eligible one.
Selects(r, i) ==
    LET p == Pseudo[r]
        eligible == Eligible(p, req[r].seen.parallel)
    IN IF Pinned(r)
       THEN IF req[r].existing \in Models(p) THEN Chain[p][i] = req[r].existing ELSE i = 1
       ELSE i \in eligible /\ \A j \in eligible : i <= j

\* Another first request whose INSERT is not committed yet.
InsertPending(r) ==
    \E q \in Requests \ {r} :
        ~req[q].seen.exists /\ req[q].at \in {"checking", "answered", "saving"}

\* The flush of a new conversation waits for that of another request.
Select(r) ==
    /\ At(r, "selecting")
    /\ req[r].seen.exists \/ (~row.exists /\ ~InsertPending(r))
    /\ \E i \in DOMAIN Chain[Pseudo[r]] :
          /\ Selects(r, i)
          /\ req' = [req EXCEPT ![r] =
                        [@ EXCEPT !.selected = Chain[Pseudo[r]][i], !.at = "checking"]]
    /\ UNCHANGED <<pin, row>>

\* IntegrityError: another request has created the conversation.
InsertFails(r) ==
    /\ At(r, "selecting")
    /\ ~req[r].seen.exists
    /\ row.exists
    /\ Goto(r, "failed")
    /\ UNCHANGED <<pin, row>>

-----------------------------------------------------------------------------
(* Limits                                                                  *)

\* Mutant of Unusable: the history is not counted.
UnusableAlone(r, estimate) ==
    /\ Window[Pseudo[r]] # NoLimit
    /\ 2000 * estimate >= 1999 * Window[Pseudo[r]]

\* get_context_alert: the percentage is rounded to a decimal before it is
\* compared with 100, so 99.95 is enough.  Without a window there is no alert.
Unusable(r, estimate) ==
    /\ Window[Pseudo[r]] # NoLimit
    /\ 2000 * (req[r].seen.tokens + estimate) >= 1999 * Window[Pseudo[r]]

OverThreshold(r, estimate) ==
    /\ Threshold[Pseudo[r]] # NoLimit
    /\ estimate > Threshold[Pseudo[r]]

Fits(r) ==
    \E estimate \in Estimates : ~OverThreshold(r, estimate) /\ ~Unusable(r, estimate)

Exceeds(r) ==
    \E estimate \in Estimates : OverThreshold(r, estimate) \/ Unusable(r, estimate)

\* InputExceedsThreshold or ContextUnusable; the session is rolled back.
Refuse(r) ==
    /\ At(r, "checking")
    /\ Exceeds(r)
    /\ Goto(r, "refused")
    /\ UNCHANGED <<pin, row>>

-----------------------------------------------------------------------------
(* The answer                                                              *)

\* Mutant of Physical: without the elif.
PhysicalAsNamed(r, model, name, applied) ==
    IF applied THEN name ELSE req[r].selected

\* The physical model after a fallback: the name in the answer, else the last of
\* attempted_models, unless a bracket makes it look like a remark on a model that
\* was passed over.  A stream does not look there.
Physical(r, model, name, applied) ==
    IF ~applied THEN req[r].selected
    ELSE IF name # NoName THEN name
    ELSE IF r \in Streamed \/ model \in Bracketed THEN req[r].selected
    ELSE model

\* call_with_fallback walks the whole chain from its first model, neither
\* from the selected one nor within the eligible ones.
ChainAnswers(r) ==
    /\ At(r, "checking")
    /\ Fits(r)
    /\ \E m \in Models(Pseudo[r]), applied \in BOOLEAN :
          \E name \in Reports[m] \union {NoName} :
             /\ m # Chain[Pseudo[r]][1] => applied
             /\ req' = [req EXCEPT ![r] =
                           [@ EXCEPT !.answered = m, !.applied = applied,
                                     !.physical = Physical(r, m, name, applied),
                                     !.at = "answered"]]
    /\ UNCHANGED <<pin, row>>

\* affinity.set, after the answer and before the row is written.
SetPin(r) ==
    /\ At(r, "answered")
    /\ pin' = req[r].physical
    /\ Goto(r, "saving")
    /\ UNCHANGED row

\* A stream that ran out of tokens was continued by a later model of the chain,
\* which the row names and the pin does not.
Continuing(r) ==
    IF r \in Streamed
    THEN {Chain[Pseudo[r]][i] : i \in 2..Len(Chain[Pseudo[r]])}
    ELSE {}

\* _save_and_return, _persist_stream_turn: one commit, from the row that was
\* read.  An unchanged total_tokens is not written.
Save(r) ==
    /\ At(r, "saving")
    /\ \E model \in {req[r].physical} \union Continuing(r) :
          row' = [exists |-> TRUE, physical |-> model,
                  tokens |-> IF Cost[r] = 0 THEN row.tokens
                             ELSE req[r].seen.tokens + Cost[r],
                  parallel |-> req[r].seen.parallel \/ r \in WithTools]
    /\ Goto(r, "stored")
    /\ UNCHANGED pin

\* Mutant of Maintained: compared with what the request has just set.
MaintainedByItself(r) == req[r].seen.exists /\ ~req[r].applied

\* affinity_maintained, as reported to the client.
Maintained(r) ==
    /\ req[r].seen.exists
    /\ req[r].existing = req[r].physical
    /\ ~req[r].applied

\* Valkey, the database or every model of the chain fails, or the client
\* leaves: the session is rolled back, the pin stays as it is.
Fails(r) ==
    /\ req[r].at \notin {"stored", "refused", "failed"}
    /\ Goto(r, "failed")
    /\ UNCHANGED <<pin, row>>

\* The TTL of 24 hours.
PinLapses ==
    /\ pin # NoName
    /\ pin' = NoName
    /\ UNCHANGED <<row, req>>

-----------------------------------------------------------------------------

Step(r) ==
    \/ ReadPin(r)
    \/ LoadConversation(r)
    \/ Select(r)
    \/ InsertFails(r)
    \/ Refuse(r)
    \/ ChainAnswers(r)
    \/ SetPin(r)
    \/ Save(r)

Next ==
    \/ \E r \in Requests : Step(r) \/ Fails(r)
    \/ PinLapses

Spec == Init /\ [][Next]_vars

-----------------------------------------------------------------------------

Over == {"stored", "refused", "failed"}

RowType == [exists : BOOLEAN, physical : Names \union {NoName}, tokens : Nat,
            parallel : BOOLEAN]

RequestType ==
    [at : {"arrived", "pinned", "loaded", "selecting", "checking", "answered",
           "saving"} \union Over,
     existing : Names \union {NoName}, seen : RowType,
     selected : AllModels \union {NoName}, answered : AllModels \union {NoName},
     applied : BOOLEAN, physical : Names \union {NoName}]

\* The types, and that an answered request knows a model to store.
TypeOK ==
    /\ pin \in Names \union {NoName}
    /\ row \in RowType
    /\ req \in [Requests -> RequestType]
    /\ \A r \in Requests : req[r].answered # NoName => req[r].physical # NoName

\* The model that a request validates its content for is a model of the
\* pseudo-model it asks for, whatever an earlier request left in the pin, and
\* takes parallel tools when the session has them and some model does.
SelectionFitsSession ==
    \A r \in Requests :
        req[r].selected # NoName =>
            /\ req[r].selected \in Models(Pseudo[r])
            /\ req[r].seen.parallel /\ Models(Pseudo[r]) \intersect Parallel # {}
                   => req[r].selected \in Parallel

\* A request that reports its affinity as maintained reports the model that
\* another request of the conversation was answered under.
MaintainedSinceAnotherAnswer ==
    \A r \in Requests :
        At(r, "stored") /\ Maintained(r) =>
            \E q \in Requests \ {r} :
                req[q].answered # NoName /\ req[q].physical = req[r].physical

\* However many requests read the same count and overwrite each other's, and
\* whatever those of a pseudo-model without a window have stored before, a request
\* that changes the count leaves it below its window and its cost.
TokensStayNearWindow ==
    [][\A r \in Requests :
          /\ ~At(r, "stored") /\ req'[r].at = "stored"
          /\ Window[Pseudo[r]] # NoLimit
          /\ row'.tokens # row.tokens
          => row'.tokens < Window[Pseudo[r]] + Cost[r]]_vars

=============================================================================
