------------------------------ MODULE ModelBan ------------------------------
(***************************************************************************)
(* The circuit breaker of chat_fallback.py: the Valkey keys model_fail:<m> *)
(* and model_ban:<m> that every request of every proxy process shares, and *)
(* the three helpers _is_model_banned, _record_model_failure and           *)
(* _clear_model_ban that read and write them.  Every Valkey command is an  *)
(* await, so each is an action of its own and the commands of concurrent   *)
(* requests interleave.                                                    *)
(*                                                                         *)
(* A client is a request in flight; which model it tries next is left open *)
(* here and fixed by FallbackChain, which implements this module.          *)
(***************************************************************************)
EXTENDS Naturals

CONSTANTS
    Clients,        \* requests in flight
    Models,         \* physical models, the names the keys are built from
    NoModel,        \* the model of a client that is trying none
    FailThreshold,  \* _FAIL_THRESHOLD, 3 in the code
    MaxCount,       \* bound on a failure counter (see NextCount)
    Faults          \* may a Valkey command raise, or the process die?

ASSUME ModelBanAssumption ==
    /\ NoModel \notin Models
    /\ FailThreshold \in Nat \ {0}
    /\ MaxCount \in Nat
    /\ MaxCount > FailThreshold
    /\ Faults \in BOOLEAN

VARIABLES
    count,      \* model_fail:<m>, 0 when the key is absent
    expiring,   \* does model_fail:<m> carry a TTL?
    banned,     \* model_ban:<m> exists (setex always gives it a TTL)
    op,         \* what each client is doing, the await it stands at
    inFlight,   \* history: the clients at work on m when its ban was placed
    faulty      \* history: some command has raised

banVars == <<count, expiring, banned, op, inFlight, faulty>>

Steps == {"idle", "calling", "incr", "expire", "ban", "reset", "unban", "forget"}

Idle == [step |-> "idle", model |-> NoModel, n |-> 0]

At(c, step) == op[c].step = step

Goto(c, step) == op' = [op EXCEPT ![c].step = step]

\* Mutant of Leave: the model of the attempt is kept.
LeaveStepOnly(c) == op' = [op EXCEPT ![c].step = "idle"]

Leave(c) == op' = [op EXCEPT ![c] = Idle]

DeleteFailKey(m) ==
    /\ count' = [count EXCEPT ![m] = 0]
    /\ expiring' = [expiring EXCEPT ![m] = FALSE]

BanInit ==
    /\ count = [m \in Models |-> 0]
    /\ expiring = [m \in Models |-> FALSE]
    /\ banned = [m \in Models |-> FALSE]
    /\ op = [c \in Clients |-> Idle]
    /\ inFlight = [m \in Models |-> {}]
    /\ faulty = FALSE

-----------------------------------------------------------------------------
(* _is_model_banned: an EXISTS; an exception counts as not banned.         *)
(* (A fault matters only when the model is banned.)                        *)

\* Mutant of PassBanCheck: the EXISTS is not made.
PassUnchecked(c, m) ==
    /\ At(c, "idle")
    /\ op' = [op EXCEPT ![c] = [step |-> "calling", model |-> m, n |-> 0]]
    /\ UNCHANGED <<count, expiring, banned, inFlight, faulty>>

PassBanCheck(c, m) ==
    /\ At(c, "idle")
    /\ ~banned[m] \/ Faults
    /\ faulty' = (faulty \/ banned[m])
    /\ op' = [op EXCEPT ![c] = [step |-> "calling", model |-> m, n |-> 0]]
    /\ UNCHANGED <<count, expiring, banned, inFlight>>

\* The attempt ended in a retryable error, or the model was skipped.
AttemptFails(c) ==
    /\ At(c, "calling")
    /\ Goto(c, "incr")
    /\ UNCHANGED <<count, expiring, banned, inFlight, faulty>>

\* The model answered.
AttemptSucceeds(c) ==
    /\ At(c, "calling")
    /\ Goto(c, "unban")
    /\ UNCHANGED <<count, expiring, banned, inFlight, faulty>>

\* Any other exception leaves the helpers uncalled.
AttemptRaises(c) ==
    /\ At(c, "calling")
    /\ Leave(c)
    /\ UNCHANGED <<count, expiring, banned, inFlight, faulty>>

-----------------------------------------------------------------------------
(* _record_model_failure                                                   *)

\* INCR.  The count saturates at the bound MaxCount: the code tells apart
\* only the first failure and those from the threshold on.
NextCount(m) == IF count[m] < MaxCount THEN count[m] + 1 ELSE count[m]

\* What follows the EXPIRE, or the INCR when it was not the first.
AfterCount(c, n) ==
    IF n >= FailThreshold
    THEN op' = [op EXCEPT ![c].step = "ban", ![c].n = n]
    ELSE Leave(c)

Increment(c) ==
    LET m == op[c].model
        n == NextCount(m)
    IN /\ At(c, "incr")
       /\ count' = [count EXCEPT ![m] = n]
       /\ IF n = 1
          THEN op' = [op EXCEPT ![c].step = "expire", ![c].n = n]
          ELSE AfterCount(c, n)
       /\ UNCHANGED <<expiring, banned, inFlight, faulty>>

\* Mutant of SetExpiry: the EXPIRE is lost.
ForgetExpiry(c) ==
    /\ At(c, "expire")
    /\ AfterCount(c, op[c].n)
    /\ UNCHANGED <<count, expiring, banned, inFlight, faulty>>

\* EXPIRE on an absent key does nothing.
SetExpiry(c) ==
    LET m == op[c].model
    IN /\ At(c, "expire")
       /\ expiring' = [expiring EXCEPT ![m] = count[m] > 0]
       /\ AfterCount(c, op[c].n)
       /\ UNCHANGED <<count, banned, inFlight, faulty>>

SetBan(c) ==
    LET m == op[c].model
    IN /\ At(c, "ban")
       /\ banned' = [banned EXCEPT ![m] = TRUE]
       /\ inFlight' = [inFlight EXCEPT ![m] =
              (IF banned[m] THEN @ ELSE {})
                 \union {d \in Clients : op[d].model = m}]
       /\ Goto(c, "reset")
       /\ UNCHANGED <<count, expiring, faulty>>

ResetCount(c) ==
    /\ At(c, "reset")
    /\ DeleteFailKey(op[c].model)
    /\ Leave(c)
    /\ UNCHANGED <<banned, inFlight, faulty>>

-----------------------------------------------------------------------------
(* _clear_model_ban                                                        *)

ClearBan(c) ==
    /\ At(c, "unban")
    /\ banned' = [banned EXCEPT ![op[c].model] = FALSE]
    /\ inFlight' = [inFlight EXCEPT ![op[c].model] = {}]
    /\ Goto(c, "forget")
    /\ UNCHANGED <<count, expiring, faulty>>

ClearCount(c) ==
    /\ At(c, "forget")
    /\ DeleteFailKey(op[c].model)
    /\ Leave(c)
    /\ UNCHANGED <<banned, inFlight, faulty>>

-----------------------------------------------------------------------------
(* Time and faults                                                         *)

\* The TTL of model_fail:<m> ran out.
CountLapses(m) ==
    /\ count[m] > 0
    /\ expiring[m]
    /\ DeleteFailKey(m)
    /\ UNCHANGED <<banned, op, inFlight, faulty>>

\* The TTL of model_ban:<m> ran out.
BanLapses(m) ==
    /\ banned[m]
    /\ banned' = [banned EXCEPT ![m] = FALSE]
    /\ inFlight' = [inFlight EXCEPT ![m] = {}]
    /\ UNCHANGED <<count, expiring, op, faulty>>

\* A command raised: the helper swallows the exception and returns at once.
\* A process that dies between two commands leaves Valkey in the same state.
HelperFails(c) ==
    /\ Faults
    /\ op[c].step \in {"incr", "expire", "ban", "reset", "unban", "forget"}
    /\ Leave(c)
    /\ faulty' = TRUE
    /\ UNCHANGED <<count, expiring, banned, inFlight>>

-----------------------------------------------------------------------------

\* One command of a helper that is under way.
HelperStep(c) ==
    \/ Increment(c)
    \/ SetExpiry(c)
    \/ SetBan(c)
    \/ ResetCount(c)
    \/ ClearBan(c)
    \/ ClearCount(c)

AttemptEnds(c) ==
    \/ AttemptFails(c)
    \/ AttemptSucceeds(c)
    \/ AttemptRaises(c)

TimePasses(m) ==
    \/ CountLapses(m)
    \/ BanLapses(m)

BanNext ==
    \/ \E c \in Clients : \/ \E m \in Models : PassBanCheck(c, m)
                          \/ AttemptEnds(c)
                          \/ HelperStep(c)
                          \/ HelperFails(c)
    \/ \E m \in Models : TimePasses(m)

BanSafety == BanInit /\ [][BanNext]_banVars

\* The event loop runs a ready coroutine, call_litellm's wait_for ends every
\* call, and Valkey removes a key whose TTL ran out.
BanFairness ==
    /\ \A c \in Clients : WF_banVars(AttemptEnds(c) \/ HelperStep(c))
    /\ \A m \in Models : WF_banVars(CountLapses(m)) /\ WF_banVars(BanLapses(m))

BanSpec == BanSafety /\ BanFairness

-----------------------------------------------------------------------------

OpType == [step : Steps, model : Models \union {NoModel}, n : Nat]

\* The keys and the clients' positions have their types, and a client has a
\* model exactly while it is at work on one.
BanTypeOK ==
    /\ count \in [Models -> Nat]
    /\ expiring \in [Models -> BOOLEAN]
    /\ banned \in [Models -> BOOLEAN]
    /\ op \in [Clients -> OpType]
    /\ \A c \in Clients : At(c, "idle") <=> op[c].model = NoModel
    /\ inFlight \in [Models -> SUBSET Clients]
    /\ faulty \in BOOLEAN

\* A failure counter without a TTL never outlives the request that created
\* it: as long as no command has failed, whenever model_fail:<m> has no TTL
\* some request stands between its INCR and its EXPIRE for m.
\* (_record_model_failure sets the TTL on the first failure only, while other
\* requests increment and delete the key.)
CounterGuarded ==
    ~faulty =>
        \A m \in Models :
            count[m] > 0 /\ ~expiring[m] =>
                \E c \in Clients : At(c, "expire") /\ op[c].model = m

\* A ban ends before its TTL only through the success of a request that had
\* passed the ban check of that model before the ban was placed: a request
\* that arrives during the ban can neither call the model nor lift the ban.
BanLiftedOnlyByEarlierRequest ==
    [][\A m \in Models :
          ~faulty /\ banned[m] /\ ~banned'[m] =>
              \/ op' = op
              \/ \E c \in inFlight[m] :
                    At(c, "unban") /\ op[c].model = m]_banVars

\* Failures are forgotten: as long as no command fails, every failure counter
\* is eventually deleted, by its TTL, by a success or by the ban it leads to.
CounterEventuallyCleared ==
    \A m \in Models : count[m] > 0 ~> count[m] = 0 \/ faulty

=============================================================================
