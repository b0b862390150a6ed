---------------------------- MODULE MessageHistory ----------------------------
(***************************************************************************)
(* The messages of one conversation: what the client sends again with      *)
(* every request, what is stored of it, what each physical model is given, *)
(* and what normalize-tools makes of the stored turns.  A message is       *)
(* identified by its position in the conversation.                         *)
(***************************************************************************)
EXTENDS Integers, Sequences, SequencesExt

CONSTANTS
    Models,         \* the physical models that may answer
    Prompted,       \* those with a system_prompt of their own
    MaxMessages,    \* bound: messages of the conversation
    MaxCalls        \* bound: tool calls of one answer

ASSUME MessageHistoryAssumption ==
    Prompted \subseteq Models /\ MaxMessages \in Nat /\ MaxCalls \in Nat

VARIABLES
    opening,    \* does the client have a system prompt?
    conv,   \* the conversation as its client keeps it, the system prompt apart
    turns,  \* the messages of each stored turn
    sent    \* what each model was given last, <<>> before

vars == <<opening, conv, turns, sent>>

NoCall == <<0, 0>>

Roles == {"system", "user", "assistant", "tool"}

Message(role, kind, n) ==
    [role |-> role, text |-> <<kind, n>>, calls |-> <<>>, of |-> NoCall]

SystemPrompt == Message("system", "prompt", 0)

\* The ids of calls are unique within the conversation.
Calls(n, position) == [k \in 1..n |-> <<position, k>>]

CallsOf(messages) == UNION {Range(messages[i].calls) : i \in DOMAIN messages}

Results(messages) == {m \in Range(messages) : m.role = "tool"}

Parallel(m) == m.role = "assistant" /\ Len(m.calls) > 1

Init ==
    /\ opening \in BOOLEAN
    /\ conv = <<>>
    /\ turns = <<>>
    /\ sent = [m \in Models |-> <<>>]

-----------------------------------------------------------------------------
(* The request                                                             *)

\* Mutant of DerivedId: the last two messages.
LatestTwo(messages) ==
    SubSeq(messages, IF Len(messages) > 2 THEN Len(messages) - 1 ELSE 1, Len(messages))

\* The conversation id of a request that names none: a hash of its first two
\* messages, or of the only one.
DerivedId(messages) == SubSeq(messages, 1, IF Len(messages) >= 2 THEN 2 ELSE 1)

\* Mutant of Canonical: the order of the client.
AsSent(messages) == messages

\* The messages of some roles, in their order.
OfRoles(messages, roles) ==
    LET upTo[n \in 0..Len(messages)] ==
            IF n = 0 THEN <<>>
            ELSE upTo[n - 1] \o IF messages[n].role \in roles THEN <<messages[n]>> ELSE <<>>
    IN upTo[Len(messages)]

\* canonicalize_message_order: the system messages first.  Every branch of
\* its loop over the rest appends, so no tool result is moved.
Canonical(messages) ==
    OfRoles(messages, {"system"}) \o OfRoles(messages, Roles \ {"system"})

\* _try_physical_model merges the model's system_prompt into the first system
\* message, or puts it in front, in a copy.
CallMessages(model, messages) ==
    LET systems == {i \in DOMAIN messages : messages[i].role = "system"}
        first == CHOOSE i \in systems : \A j \in systems : i <= j
    IN IF model \notin Prompted THEN messages
       ELSE IF systems = {} THEN <<Message("system", "model prompt", 0)>> \o messages
       ELSE [messages EXCEPT ![first].text = <<"model prompt and prompt", 0>>]

\* apply_anthropic_cache_control: after the first system message, and before
\* the final message unless a system message stands there.
Breakpoints(messages) ==
    LET last == Len(messages)
    IN IF last < 2 THEN {}
       ELSE {i \in DOMAIN messages :
                \/ /\ messages[i].role = "system"
                   /\ \A j \in 1..(i - 1) : messages[j].role # "system"
                \/ i = last - 1 /\ messages[i].role # "system"}

\* What the breakpoints cover.
Cached(messages) ==
    SubSeq(messages, 1, CHOOSE i \in Breakpoints(messages) \union {0} :
                            \A j \in Breakpoints(messages) : j <= i)

\* Mutant of Stored: with the answer.
StoredWithAnswer(messages) ==
    Append(turns, Append(messages, Message("assistant", "message", Len(conv) + 1)))

\* The stored turn holds all messages of its request, the answer apart.
Stored(messages) == Append(turns, messages)

\* Where the client may put its system prompt, 0 when it has none.
Places == IF opening THEN 1..(Len(conv) + 1) ELSE {0}

\* One request and its answer: the client puts its system prompt at any place,
\* the first model answers or is cut off at the token limit, and then the
\* second one is given its text too; the client sees one answer.
Exchange(place, model, next, n) ==
    LET request == IF place = 0 THEN conv ELSE InsertAt(conv, place, SystemPrompt)
        position == Len(conv) + 1
        partial == Message("assistant", "partial", position)
        answer == [Message("assistant", "message", position) EXCEPT
                       !.calls = Calls(n, position)]
        ordered == Canonical(request)
    IN /\ position <= MaxMessages
       /\ conv # <<>> /\ Last(conv).role # "assistant"
       /\ conv' = Append(conv, answer)
       /\ turns' = Stored(request)
       /\ sent' = [m \in Models |->
                      IF m = next /\ next # model
                      THEN CallMessages(m, Append(ordered, partial))
                      ELSE IF m = model THEN CallMessages(m, ordered)
                      ELSE sent[m]]
       /\ UNCHANGED opening

-----------------------------------------------------------------------------
(* The client                                                              *)

\* The user writes, also while calls are open.
Say ==
    /\ Len(conv) < MaxMessages
    /\ conv' = Append(conv, Message("user", "message", Len(conv) + 1))
    /\ UNCHANGED <<opening, turns, sent>>

\* The result of an open call, in any order.
ReturnResult(id) ==
    /\ Len(conv) < MaxMessages
    /\ \A m \in Results(conv) : m.of # id
    /\ conv' = Append(conv, [Message("tool", "message", Len(conv) + 1) EXCEPT !.of = id])
    /\ UNCHANGED <<opening, turns, sent>>

Next ==
    \/ \E place \in Places, model, next \in Models, n \in 0..MaxCalls :
           Exchange(place, model, next, n)
    \/ Say
    \/ \E id \in CallsOf(conv) : ReturnResult(id)

Spec == Init /\ [][Next]_vars

-----------------------------------------------------------------------------
(* normalize-tools                                                         *)

\* The history of normalize-tools: the messages of every turn, one after the
\* other, although each turn holds those of the turns before it.
AllMessages == FlattenSeq(turns)

\* The results of a call at some positions of the history.
ResultsAt(history, positions, id) ==
    {j \in positions \intersect DOMAIN history :
        history[j].role = "tool" /\ history[j].of = id}

\* Mutant of ResultOf: only the next message is looked at.
NextResultOf(history, i, id) ==
    IF ResultsAt(history, {i + 1}, id) = {} THEN <<>> ELSE <<history[i + 1]>>

\* _find_tool_result, as a sequence of at most one message.
ResultOf(history, i, id) ==
    LET later == ResultsAt(history, (i + 1)..Len(history), id)
    IN IF later = {} THEN <<>> ELSE <<history[Min(later)]>>

\* One of the calls of a message; the text stays with the first.
OneCall(m, k) ==
    [m EXCEPT !.calls = <<m.calls[k]>>, !.text = IF k = 1 THEN @ ELSE <<"none", 0>>]

\* One assistant message per call, its result, and a note but after the last.
Serialized(history, i) ==
    LET calls == history[i].calls
        pair(k) ==
            <<OneCall(history[i], k)>> \o ResultOf(history, i, calls[k])
            \o IF k < Len(calls) THEN <<Message("system", "note", k)>> ELSE <<>>
    IN FlattenSeq([k \in DOMAIN calls |-> pair(k)])

\* _build_parallel_call_ids
ParallelIds(history) ==
    UNION {Range(history[i].calls) : i \in {j \in DOMAIN history : Parallel(history[j])}}

\* What stands for message i; the results of serialized calls are skipped.
Replaced(history, i) ==
    IF Parallel(history[i]) THEN Serialized(history, i)
    ELSE IF history[i].role = "tool" /\ history[i].of \in ParallelIds(history) THEN <<>>
    ELSE <<history[i]>>

\* normalize_history
Normalized(history) == FlattenSeq([i \in DOMAIN history |-> Replaced(history, i)])

-----------------------------------------------------------------------------

MessageType ==
    [role : Roles,
     text : {"prompt", "model prompt", "model prompt and prompt", "partial", "message"}
                \X (0..MaxMessages),
     calls : Seq((1..MaxMessages) \X (1..MaxCalls)),
     of : {NoCall} \union (1..MaxMessages) \X (1..MaxCalls)]

\* The types, and "the assistant response [...] not yet in turn.messages at
\* save time": no stored turn ends with an answer.
TypeOK ==
    /\ opening \in BOOLEAN
    /\ conv \in Seq(MessageType)
    /\ turns \in Seq(Seq(MessageType))
    /\ \A i \in DOMAIN turns : turns[i] # <<>> /\ Last(turns[i]).role # "assistant"
    /\ sent \in [Models -> Seq(MessageType)]

\* Whatever place the client gives its system prompt and whichever models
\* answer in between, what a model is given begins with what it was told to
\* cache the last time: everything up to the last breakpoint.
\* (canonicalize_message_order: "making the cacheable prefix (system + early
\* history) identical across turns".)
CachedPrefixKept ==
    [][\A m \in Models : IsPrefix(Cached(sent[m]), sent'[m])]_vars

PlaceOfPrompt(messages) == {i \in DOMAIN messages : messages[i].role = "system"}

\* "SAME conversation across turns [...] SAME ID": a client that always puts
\* its system prompt at the same place keeps the id it was given, from its
\* first request of two messages on.  (With one message alone, or with the
\* prompt elsewhere, it gets another id, and a new conversation.)
IdSettles ==
    \A i, j \in DOMAIN turns :
        /\ Len(turns[i]) >= 2 /\ Len(turns[j]) >= 2
        /\ PlaceOfPrompt(turns[i]) = PlaceOfPrompt(turns[j])
        => DerivedId(turns[i]) = DerivedId(turns[j])

\* Of the history that normalize-tools writes: no message has more than one
\* call; no call and no result is lost or invented; every serialized call
\* that has a result is followed by it at once; and no result comes before
\* its call.
NormalizedHistoryComplete ==
    LET history == AllMessages
        new == Normalized(history)
    IN /\ \A i \in DOMAIN new : ~Parallel(new[i])
       /\ CallsOf(new) = CallsOf(history)
       /\ Results(new) = Results(history)
       /\ \A i \in DOMAIN new : \A id \in Range(new[i].calls) :
              id \in ParallelIds(history) /\ (\E m \in Results(history) : m.of = id)
              => i < Len(new) /\ new[i + 1].of = id
       /\ \A j \in DOMAIN new :
              new[j].role = "tool" =>
                  \E i \in 1..(j - 1) : new[j].of \in Range(new[i].calls)

=============================================================================
