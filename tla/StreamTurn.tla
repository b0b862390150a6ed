------------------------------ MODULE StreamTurn ------------------------------
(***************************************************************************)
(* One streamed turn: _handle_streaming opens a database session and gets  *)
(* the first stream out of the fallback chain, and                         *)
(* _stream_response_generator forwards its chunks as server-sent events,   *)
(* continues a stream cut off by the token limit with another model, sends *)
(* the metadata, stores the turn and ends the stream.  The provider's      *)
(* chunks and failures, the database, and the client, which may leave or   *)
(* stop reading, are the environment.                                      *)
(***************************************************************************)
EXTENDS Naturals, Sequences, FiniteSets

CONSTANTS
    Models,             \* length of the physical_models list
    Starts,             \* positions at which call_with_fallback may succeed
    Selected,           \* positions the affinity or the filters may select
    UsageChunks,        \* where the provider may put the usage of a stream
    MaxChunks           \* bound on the deltas of the whole turn

ASSUME StreamTurnAssumption ==
    /\ Models \in Nat \ {0}
    /\ Starts \subseteq 1..Models
    /\ Selected \subseteq 1..Models
    /\ UsageChunks \subseteq {"in_finish", "after_finish", "never"}
    /\ MaxChunks \in Nat

VARIABLES
    continues,  \* continue_on_length of the pseudo-model
    phase,      \* where the generator stands
    current,    \* current_idx + 1
    playing,    \* position of the model whose stream is being read
    named,      \* ctx.physical_model
    sent,       \* the events the client was sent
    text,       \* accumulated_content: the model of each piece
    calls,      \* tool_calls_by_index: the models whose deltas it holds
    finish,     \* finish_reason, "none" when the stream just ended
    usage,      \* where the provider of this stream puts the usage
    counted,    \* did last_chunk carry the usage?
    stored,     \* the turn in the database
    reading     \* does the client still take what is sent to it?

vars == <<continues, phase, current, playing, named, sent, text, calls, finish, usage,
          counted, stored, reading>>

\* What neither the generator nor the provider changes.
env == <<continues, reading>>

NotStored(why) == [text |-> <<>>, calls |-> {}, model |-> 0, state |-> why]

Event(kind) == [kind |-> kind, by |-> playing]

\* A yield returns when the client has taken the event.
Send(kind) == reading /\ sent' = Append(sent, Event(kind))

\* The positions of the events of a kind.
Sent(kind) == {i \in DOMAIN sent : sent[i].kind = kind}

Init ==
    /\ continues \in BOOLEAN
    /\ reading = TRUE
    /\ phase = "setup"
    /\ current = 1
    /\ playing = 1
    /\ named \in Selected
    /\ sent = <<>>
    /\ text = <<>>
    /\ calls = {}
    /\ finish = "none"
    /\ usage \in UsageChunks
    /\ counted = FALSE
    /\ stored = NotStored("absent")

\* Every way out of the generator passes its finally clause.
End == phase' = "ended"

-----------------------------------------------------------------------------
(* Before the stream                                                       *)

\* call_with_fallback answered with the model at any position of the list;
\* the generator nevertheless starts with current_idx = 0.  The name of the
\* selected model gives way to that of the answering one only if a fallback
\* was applied and the stream carries the name of its model.
AcceptStream ==
    /\ phase = "setup"
    /\ playing' \in Starts
    /\ named' \in IF playing' = 1 THEN {named} ELSE {named, playing'}
    /\ phase' = "accepted"
    /\ UNCHANGED <<current, sent, text, calls, finish, usage, counted, stored, env>>

\* The server asks the response for its first event.
BeginStream ==
    /\ phase = "accepted"
    /\ phase' = "streaming"
    /\ UNCHANGED <<current, playing, named, sent, text, calls, finish, usage, counted,
                   stored, env>>

\* The client had left by then: the server drops a generator that never ran,
\* and no finally clause of it does.
DropResponse ==
    /\ phase = "accepted"
    /\ phase' = "dropped"
    /\ UNCHANGED <<current, playing, named, sent, text, calls, finish, usage, counted,
                   stored, env>>

\* Threshold, context, conversation or chain error: an HTTP error, no stream.
Refuse ==
    /\ phase = "setup"
    /\ End
    /\ UNCHANGED <<current, playing, named, sent, text, calls, finish, usage, counted,
                   stored, env>>

-----------------------------------------------------------------------------
(* The chunks of one stream                                                *)

DeltaRoom == Len(text) + Cardinality(Sent("call")) < MaxChunks

TextDelta ==
    /\ phase = "streaming"
    /\ DeltaRoom
    /\ text' = Append(text, playing)
    /\ Send("text")
    /\ counted' = FALSE
    /\ UNCHANGED <<phase, current, playing, named, calls, finish, usage, stored, env>>

CallDelta ==
    /\ phase = "streaming"
    /\ DeltaRoom
    /\ calls' = calls \union {playing}
    /\ Send("call")
    /\ counted' = FALSE
    /\ UNCHANGED <<phase, current, playing, named, text, finish, usage, stored, env>>

\* Mutant of CanContinue: the end of the list is not tested.
ContinuesPastEnd == continues

CanContinue == continues /\ current < Models

\* The finish of a stream that another model continues is sent as null.
CutOff ==
    /\ phase = "streaming"
    /\ CanContinue
    /\ Send("cut")
    /\ finish' = "length"
    /\ phase' = "continuing"
    /\ counted' = (usage = "in_finish")
    /\ UNCHANGED <<current, playing, named, text, calls, usage, stored, env>>

\* The first chunk with a finish_reason is the last one that is read.  "stop"
\* stands for every reason but "length": after that the generator goes on
\* with the next model, whether it has sent the finish or held it back.
FinishChunk ==
    /\ phase = "streaming"
    /\ \E reason \in {"stop", "length"} :
          /\ ~(reason = "length" /\ CanContinue)
          /\ Send(reason)
          /\ finish' = reason
          /\ phase' = IF reason = "length" /\ current < Models
                      THEN "continuing"
                      ELSE "metadata"
    /\ counted' = (usage = "in_finish")
    /\ UNCHANGED <<current, playing, named, text, calls, usage, stored, env>>

\* The provider closed the connection without a finish_reason.
StreamRunsOut ==
    /\ phase = "streaming"
    /\ phase' = "metadata"
    /\ finish' = "none"
    /\ UNCHANGED <<current, playing, named, sent, text, calls, usage, counted, stored,
                   env>>

\* Mutant of StreamFails: the turn is stored after the error.
StreamFailsButPersists ==
    /\ phase = "streaming"
    /\ Send("error")
    /\ phase' = "persisting"
    /\ UNCHANGED <<current, playing, named, text, calls, finish, usage, counted, stored,
                   env>>

\* An exception while reading: roll back, send an error chunk, return.
StreamFails ==
    /\ phase = "streaming"
    /\ Send("error")
    /\ End
    /\ UNCHANGED <<current, playing, named, text, calls, finish, usage, counted, stored,
                   env>>

-----------------------------------------------------------------------------
(* Continuation with another model                                         *)

\* Mutant of ToNext: the tool calls are kept.
ToNextKeepingCalls == current' = current + 1 /\ calls' = calls

ToNext == current' = current + 1 /\ calls' = {}

\* Mutant of Continue: the accumulated text starts again.
ContinueAfresh ==
    /\ phase = "continuing"
    /\ ToNext
    /\ playing' = current + 1
    /\ named' = current + 1
    /\ phase' = "streaming"
    /\ usage' \in UsageChunks
    /\ text' = <<>>
    /\ UNCHANGED <<sent, finish, counted, stored, env>>

Continue ==
    /\ phase = "continuing"
    /\ ToNext
    /\ playing' = current + 1
    /\ named' = current + 1
    /\ phase' = "streaming"
    /\ usage' \in UsageChunks
    /\ UNCHANGED <<sent, text, finish, counted, stored, env>>

\* The next model is disabled or too small: finish with what there is.
ContinuationSkipped ==
    /\ phase = "continuing"
    /\ ToNext
    /\ phase' = "metadata"
    /\ UNCHANGED <<playing, named, sent, text, finish, usage, counted, stored, env>>

\* The call of the next model raised: the exception leaves the generator.
ContinuationRaises ==
    /\ phase = "continuing"
    /\ ToNext
    /\ End
    /\ UNCHANGED <<playing, named, sent, text, finish, usage, counted, stored, env>>

-----------------------------------------------------------------------------
(* The end of the turn                                                     *)

SendMetadata ==
    /\ phase = "metadata"
    /\ Send("meta")
    /\ phase' = "persisting"
    /\ UNCHANGED <<current, playing, named, text, calls, finish, usage, counted, stored,
                   env>>

Turn == [text |-> text, calls |-> calls, model |-> named,
         state |-> IF counted THEN "counted" ELSE "uncounted"]

\* _persist_stream_turn; an error rolls back and is only logged.
Persist ==
    /\ phase = "persisting"
    /\ stored' \in {Turn, NotStored("failed")}
    /\ phase' = "ending"
    /\ UNCHANGED <<current, playing, named, sent, text, calls, finish, usage, counted,
                   env>>

\* Mutant of SendDone: only after the turn could be stored.
SendDoneIfStored ==
    /\ phase = "ending"
    /\ stored.state # "failed"
    /\ Send("done")
    /\ End
    /\ UNCHANGED <<current, playing, named, text, calls, finish, usage, counted, stored,
                   env>>

SendDone ==
    /\ phase = "ending"
    /\ Send("done")
    /\ End
    /\ UNCHANGED <<current, playing, named, text, calls, finish, usage, counted, stored,
                   env>>

\* The client goes away: whatever the generator awaits or yields is
\* cancelled, a commit that the database has already done among them.
Disconnect ==
    /\ phase \in {"streaming", "continuing", "metadata", "persisting", "ending"}
    /\ End
    /\ \/ UNCHANGED stored
       \/ phase = "persisting" /\ stored' = Turn
    /\ UNCHANGED <<current, playing, named, sent, text, calls, finish, usage, counted,
                   env>>

\* The client stops reading and does not close the connection.
StopReading ==
    /\ reading
    /\ reading' = FALSE
    /\ UNCHANGED <<continues, phase, current, playing, named, sent, text, calls, finish,
                   usage, counted, stored>>

-----------------------------------------------------------------------------

\* What comes from the provider while its stream is read.
Provide ==
    \/ TextDelta
    \/ CallDelta
    \/ CutOff
    \/ FinishChunk
    \/ StreamRunsOut
    \/ StreamFails

\* What the server and the generator do of themselves.
Generate ==
    \/ AcceptStream
    \/ Refuse
    \/ BeginStream
    \/ DropResponse
    \/ Continue
    \/ ContinuationSkipped
    \/ ContinuationRaises
    \/ SendMetadata
    \/ Persist
    \/ SendDone

Next == Provide \/ Generate \/ Disconnect \/ StopReading

Spec == Init /\ [][Next]_vars

\* The event loop runs the generator, and the timeout of a call bounds its
\* wait for a model to begin.  Nothing bounds the wait for a chunk, so the
\* provider is not fair, nor is the client.
FairSpec == Spec /\ WF_vars(Generate)

-----------------------------------------------------------------------------

Kinds == {"text", "call", "cut", "stop", "length", "meta", "error", "done"}

TypeOK ==
    /\ continues \in BOOLEAN
    /\ reading \in BOOLEAN
    /\ phase \in {"setup", "accepted", "streaming", "continuing", "metadata",
                  "persisting", "ending", "ended", "dropped"}
    /\ current \in 1..Models
    /\ playing \in 1..Models
    /\ named \in 1..Models
    /\ sent \in Seq([kind : Kinds, by : 1..Models])
    /\ text \in Seq(1..Models)
    /\ calls \subseteq 1..Models
    /\ finish \in {"none", "stop", "length"}
    /\ usage \in UsageChunks
    /\ counted \in BOOLEAN
    /\ stored \in [text : Seq(1..Models), calls : SUBSET (1..Models),
                   model : 0..Models,
                   state : {"absent", "failed", "counted", "uncounted"}]

Stored == stored.state \in {"counted", "uncounted"}

\* The turn in the history holds exactly the text the client was sent, across
\* all the models that contributed to it; it names the last of them, save that
\* the answer of one model alone may go by the name of the selected one; and
\* it has the usage that a finish chunk carried, whichever model sent it.
StoredIsWhatWasSent ==
    Stored =>
        /\ Len(stored.text) = Cardinality(Sent("text"))
        /\ \A i \in Sent("text") :
              stored.text[Cardinality({j \in Sent("text") : j <= i})] = sent[i].by
        /\ \/ stored.model = sent[Len(sent)].by
           \/ stored.model \in Selected
                /\ \A i \in DOMAIN sent : sent[i].by = sent[Len(sent)].by
        /\ usage = "in_finish" /\ finish # "none" => stored.state = "counted"

\* The tool calls of the turn are those of the model that finished it: the
\* deltas of a model that was cut off never mix with those of the next.
CallsOfAnsweringModel == Stored => stored.calls \subseteq {playing}

Over == phase \in {"ended", "dropped"}

\* If every provider ends its stream, and the client reads or leaves, the
\* request comes to an end: the generator does not call models for ever and
\* waits for nobody else.
StreamEndsWithProviders ==
    (phase = "streaming" ~> phase # "streaming") /\ []reading => <>Over

\* "the generator suppresses the "length" finish_reason [...] and seamlessly
\* continues streaming from the next model": the model that continues stands
\* after the one that was cut off.
ContinuesForward ==
    [][continues /\ phase = "continuing" /\ phase' = "streaming" =>
           playing' > playing]_vars

\* continue_on_length: "Default False - length is treated as a normal
\* completion": once the finish has been sent, only the metadata and [DONE]
\* follow.
LengthCompletes ==
    ~continues =>
        \A i \in Sent("length"), j \in DOMAIN sent :
            j > i => sent[j].kind \in {"meta", "done"}

Events == INSTANCE EventStream WITH
    settled <- stored.state # "absent",
    resumes <- ~continues

\* The client sees a well-formed event stream, and the turn is written or
\* given up in its place there: "Persist AFTER metadata chunk, BEFORE [DONE]
\* marker", and never after an error or for a client that left before it.
\* When the pseudo-model continues, the finish is the last of the deltas;
\* when it does not, the stream may go on after a finish for length.
WellFormedStream == Events!EventSpec

=============================================================================
