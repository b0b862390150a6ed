--------------------------- MODULE MCFallbackChain ---------------------------
(***************************************************************************)
(* Instances of FallbackChain for TLC.  "small" has a window that the      *)
(* largest estimate exceeds, "off" belongs to a disabled provider, "blind" *)
(* takes text only and "large" takes anything.                             *)
(***************************************************************************)
EXTENDS FallbackChain, TLC

WindowOf(models) == [m \in models |-> IF m = "small" THEN 1 ELSE 9]

\* Two requests that share a model: one over a model that may be too small, a
\* disabled and a text-only one, the other over the small one alone, which it
\* may find too small, and banned by the first.
MCModels == {"small", "off", "blind"}
MCWindow == WindowOf(MCModels)
LongAndShort == [r \in {"r1", "r2"} |->
                    IF r = "r1" THEN <<"small", "off", "blind">> ELSE <<"small">>]
Primaries == [r \in {"r1", "r2"} |-> {1}]

\* A pinned conversation: the caller may have validated any model of the list.
TwoModels == {"blind", "large"}
TwoWindow == WindowOf(TwoModels)
TwoKinds  == [r \in {"r1"} |-> <<"blind", "large">>]
Pinned    == [r \in {"r1"} |-> {1, 2}]

=============================================================================
