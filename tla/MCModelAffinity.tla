---------------------------- MODULE MCModelAffinity ----------------------------
(***************************************************************************)
(* An instance of ModelAffinity for TLC: two pseudo-models that share a    *)
(* model, one of whose models reports another name than its own.  "code"   *)
(* has no limits.                                                          *)
(***************************************************************************)
EXTENDS ModelAffinity

MCPseudo == [r \in Requests |-> IF r = "c" THEN "code" ELSE "chat"]
MCChain == [p \in {"chat", "code"} |-> IF p = "chat" THEN <<"m1", "m2">> ELSE <<"m3", "m2">>]
MCReports == [m \in {"m1", "m2", "m3"} |-> IF m = "m2" THEN {"m2", "alias"} ELSE {m}]
MCWindow == [p \in {"chat", "code"} |-> IF p = "chat" THEN 6 ELSE NoLimit]
MCThreshold == [p \in {"chat", "code"} |-> IF p = "chat" THEN 3 ELSE NoLimit]
MCCost == [r \in Requests |-> IF r = "b" THEN 4 ELSE 3]

=============================================================================
