----------------------------- MODULE EventStream -----------------------------
(***************************************************************************)
(* What a client of /v1/chat/completions with stream=true may receive: any *)
(* number of deltas, a finish, the metadata chunk, and [DONE] last.  There *)
(* is one finish, unless the stream is one that resumes after a finish for *)
(* length.  The stream may break off anywhere, and an error chunk takes    *)
(* the place of whatever was still to come.  The turn is written between   *)
(* the metadata and [DONE], or given up there.                             *)
(***************************************************************************)
EXTENDS Naturals, Sequences

VARIABLES
    sent,       \* the events sent so far, each with its field "kind"
    settled,    \* was the turn written or given up?
    resumes     \* may the stream go on after a finish for length?

Deltas == {"text", "call", "cut"}

Finishes == {"stop", "length"}

LastKind == IF sent = <<>> THEN "open" ELSE sent[Len(sent)].kind

\* Whether the stream is still one of deltas.
Open ==
    \/ LastKind \in Deltas \union {"open"}
    \/ LastKind = "length" /\ resumes

MayFollow(kind) ==
    \/ kind \in Deltas \union Finishes \union {"error"} /\ Open
    \/ kind = "meta" /\ LastKind \in Deltas \union Finishes \union {"open"}
    \/ kind = "done" /\ LastKind = "meta" /\ settled

Emit ==
    /\ Len(sent') = Len(sent) + 1
    /\ SubSeq(sent', 1, Len(sent)) = sent
    /\ MayFollow(sent'[Len(sent')].kind)
    /\ UNCHANGED <<settled, resumes>>

\* Only a stream that has had its metadata settles its turn, and only once.
Settle ==
    /\ LastKind = "meta"
    /\ ~settled
    /\ settled' = TRUE
    /\ UNCHANGED <<sent, resumes>>

EventSpec ==
    /\ sent = <<>>
    /\ ~settled
    /\ [][Emit \/ Settle]_<<sent, settled, resumes>>

=============================================================================
