--------------------------- MODULE OrderedFailover ---------------------------
(***************************************************************************)
(* What call_with_fallback promises its callers, without bans, windows,    *)
(* delegation or concurrency: a request consumes the entries of its chain  *)
(* of physical models once each and in order, its answer is made of what   *)
(* entries contributed in that order, and it fails only when the chain is  *)
(* used up and nothing was contributed.                                    *)
(***************************************************************************)
EXTENDS Naturals, Sequences

CONSTANTS
    Requests,   \* requests in flight
    Length      \* Length[r]: physical models in the chain of request r

VARIABLES
    cursor,     \* entries of the chain consumed so far
    served,     \* positions that contributed text, in order of contribution
    verdict     \* what the caller got

failoverVars == <<cursor, served, verdict>>

Failures == {"context_too_large", "all_failed"}

Verdicts == {"none", "pending", "ok", "partial", "raised"} \union Failures

FailoverInit ==
    /\ cursor = [r \in Requests |-> 0]
    /\ served = [r \in Requests |-> <<>>]
    /\ verdict = [r \in Requests |-> "none"]

Ask(r) ==
    /\ verdict[r] # "pending"
    /\ cursor' = [cursor EXCEPT ![r] = 0]
    /\ served' = [served EXCEPT ![r] = <<>>]
    /\ verdict' = [verdict EXCEPT ![r] = "pending"]

Consume(r) ==
    /\ verdict[r] = "pending"
    /\ cursor[r] < Length[r]
    /\ cursor' = [cursor EXCEPT ![r] = @ + 1]

PassOver(r) == Consume(r) /\ UNCHANGED <<served, verdict>>

\* A partial answer: only when another entry is left to continue it.
Contribute(r) ==
    /\ cursor[r] + 1 < Length[r]
    /\ Consume(r)
    /\ served' = [served EXCEPT ![r] = Append(@, cursor[r] + 1)]
    /\ UNCHANGED verdict

Deliver(r) ==
    /\ Consume(r)
    /\ served' = [served EXCEPT ![r] = Append(@, cursor[r] + 1)]
    /\ verdict' = [verdict EXCEPT ![r] = "ok"]

GiveUp(r) ==
    /\ verdict[r] = "pending"
    /\ cursor[r] = Length[r]
    /\ IF served[r] # <<>>
       THEN verdict' = [verdict EXCEPT ![r] = "partial"]
       ELSE \E f \in Failures : verdict' = [verdict EXCEPT ![r] = f]
    /\ UNCHANGED <<cursor, served>>

Abort(r) ==
    /\ verdict[r] = "pending"
    /\ verdict' = [verdict EXCEPT ![r] = "raised"]
    /\ UNCHANGED <<cursor, served>>

FailoverNext ==
    \E r \in Requests :
        \/ Ask(r)
        \/ PassOver(r)
        \/ Contribute(r)
        \/ Deliver(r)
        \/ GiveUp(r)
        \/ Abort(r)

FailoverSpec == FailoverInit /\ [][FailoverNext]_failoverVars

=============================================================================
