------------------------- MODULE MCContentDelegation -------------------------
(***************************************************************************)
(* An instance of ContentDelegation for TLC.  Two requests ask the same of *)
(* a long image, one of them beside a tiny one in one call; a third asks   *)
(* something else about it and about a big one, in two calls of which the  *)
(* second cannot be made.  Two of them bring the same book, for one of     *)
(* them it is too much.                                                    *)
(***************************************************************************)
EXTENDS ContentDelegation

MCImages == [r \in Requests |-> CASE r = "first" -> <<"long">>
                                  [] r = "second" -> <<"tiny", "long">>
                                  [] OTHER -> <<"long", "big">>]
MCFiles == [r \in Requests |-> IF r = "first" THEN <<>> ELSE <<"book">>]
MCPrompt == [r \in Requests |-> IF r = "third" THEN "why" ELSE "what"]
MCOutcomes == [f \in Files |-> {"full"}]
MCSize == [h \in Images |-> CASE h = "tiny" -> 1 [] h = "long" -> 2 [] OTHER -> 3]
MCMaxFull == [r \in Requests |-> IF r = "third" THEN 0 ELSE 1]

=============================================================================
