# A verification development for proxy-cesar

proxy-cesar is an OpenAI-compatible LLM proxy (FastAPI, LiteLLM, Valkey, SQLite
or PostgreSQL). A client asks for a *pseudo-model*; the proxy selects one of
its *physical models*, walks a fallback chain when models fail, streams or
returns the answer, and stores the conversation. This directory holds TLA+
modules translated from the code under `src/proxy/src`, TLC configurations that
check them on small instances, and TLAPS proofs for every value of their
constants. `PROJECT.json` lists, for every definition, the lines it models.

All paths below are relative to `proxy/src/` unless they say otherwise.

## 1. The system

| Component | State it keeps | Operations | Interacts with |
|---|---|---|---|
| Model ban (`service/chat_fallback.py:634-687`) | Valkey keys `model_fail:<m>`, `model_ban:<m>`, shared by all requests | check, record a failure, clear | the chain, through awaits on Valkey |
| Fallback chain (`service/chat_fallback.py`) | locals of a request: attempts, parts, content, `fallback_info` | try, skip, fail, continue, return, give up | ban keys, LiteLLM, content delegation |
| Chat pipeline (`service/chat_service.py`, `api/chat.py`) | none of its own | resolve, check limits, select, call, save | everything |
| Streaming (`api/chat_streaming.py`, `chat_stream_persistence.py`) | generator locals, a database session | forward chunks, continue with the next model, metadata, store, `[DONE]` | chain, store, the client |
| Conversation store (`service/chat_persistence.py`, `capability_detector.py`, `chat_messages.py`, `api/conversations.py`) | `conversations`, `conversation_turns` | load, insert, save a turn, auto-describe, normalize-tools | chat pipeline, compaction |
| Compaction (`service/compactor/explicit.py`, `tasks/arq_app.py`) | `conversation_snapshots`, `active_snapshot_id`, an in-process lock, arq jobs | try_compact, compact, dispatch, summarize, commit | store, compactor model |
| Affinity (`adapters/cache/valkey_affinity.py`, `service/tool_filter.py`) | Valkey key `conv:<id>:physical_model`, 24 h | get, set, filter, select | chat pipeline, streaming |
| Content delegation, blobs (`service/tool_detector.py`, `service/multimedia/image_describer.py`) | Valkey keys `blob:<id>:<hash>` with the raw data, `…:desc` and `…:desc:<prompt>` with the texts | look up, describe, extract, store, replace | chain, chat pipeline, vision and audio models |
| Message ordering, provider cache, tool normalisation (`adapters/cache/message_ordering.py`, `provider_cache.py`, `service/tools_normalizer.py`) | none: functions of the messages; what they are applied to is the stored and the resent history | canonical order, cache breakpoints, normalize_history | chat pipeline, normalize-tools |
| Router LLM, inline commands, smart-fallback history, health, metrics, auth, configuration | reports, counters, tables read at start | — | — |

### What is hard here

* **Interleaving on shared keys.** Every Valkey command is an await; `INCR` and
  `EXPIRE` of a failure counter are two of them (`chat_fallback.py:661-664`).
* **State read before the model call and written after it.** Rows, turns,
  capability flags and turn numbers are read, then a model is called for up to
  a minute, then all of them are written. Nothing serializes the requests of a
  conversation.
* **A transaction over the model call.** The first request of a conversation
  flushes its `INSERT` before the call (`chat_service.py:629`).
* **Ends of a stream.** It may stop, be cut off, fail, run dry or be abandoned
  at any await, and each end has its own way through metadata, storage, `[DONE]`
  and the session.
* **Two index spaces.** The selected model (pin, filter), the first model of the
  list and the answering model are three positions that the code mixes.
* **Background work.** Large compactions leave the lock and run in a worker
  that repeats interrupted jobs.

* **A cache filled before the outcome is known.** Descriptions and extracted
  texts are stored before the request that made them is admitted or answered,
  and other requests of the conversation find them at any point.

* **One history in three places.** The client resends it with every request,
  each turn stores all of it again, and each provider caches a prefix of it.

What makes each part correct:

* *Ban*: a counter never stays without a TTL, and a ban ends by its TTL or by a
  request that was already calling.
* *Chain*: the answer, its parts, `attempted_models` and `fallback_applied`
  agree; an error only when every model was tried and nothing was said; raw
  media only to models that take them; every request gets a verdict.
* *Stream*: the turn stored is what the client was sent; deltas, the finish,
  metadata, the turn written or given up, then `[DONE]`; a stream ends when its
  providers have.
* *Store*: turns in the order in which they were seen; a turn, its degradation
  turn and its row together or not at all; no count or flag out of nothing; an
  answer lost to a lock only while somebody has a reason to hold it.
* *Compaction*: one chain of snapshots, a turn lost only with a part that could
  not be summarized, the newest active; the lock comes free.
* *Affinity*: a reported affinity follows from answers; what is selected fits the
  session; the token count stays near the window, where there is one.
* *Delegation*: every part of a message is replaced by a text, made from that
  part and for that question.
* *History*: what a provider was told to cache is a prefix of what it is given
  next; normalize-tools loses and reorders nothing.

`PROJECT.json` "hazards" has each of them at its line with the properties aimed
at it, or the reason why none covers it yet.

## 2. The modules

    OrderedFailover (abstract)  <- implemented by -  FallbackChain
    ModelBan                    <- extended by -     FallbackChain
    EventStream (abstract)      <- implemented by -  StreamTurn
    ConversationStore, Compaction, ModelAffinity, ContentDelegation, MessageHistory
    <X>_proofs extends <X>, for each of the eight that model code;
                            FallbackChain_proofs extends ModelBan_proofs too

`MC*` modules only give values to constants. An operator introduced by "Mutant
of D" is a plausible wrong version of the definition D; `PROJECT.json` pairs it
with the property that notices the difference, and no specification uses it.

**ModelBan** has one action per Valkey command: `PassBanCheck` (EXISTS),
`Increment`, `SetExpiry`, `SetBan`, `ResetCount`, `ClearBan`, `ClearCount`; the
attempt itself is `AttemptFails`, `AttemptSucceeds`, `AttemptRaises`; the TTLs
are `CountLapses` and `BanLapses`. `HelperFails` is an exception of a command,
which the helpers swallow, or the death of the process. `inFlight` and `faulty`
are history variables: who was at work on a model when it was banned; some
command has raised.

**FallbackChain** is `call_with_fallback` and `_try_physical_model`. `req[r]`
holds the locals of a request: position, `attempted_models` (as marks), parts
of a continued answer, token estimate, content (`raw` media or `plain` text and
references), `fallback_info.applied` and the verdict. It extends ModelBan and
drives it, with ModelBan's own actions for the commands, so that those of several
requests interleave inside the walk. `ImplementsFailover` says that the walk
implements **OrderedFailover**: each entry consumed once and in order, the answer
made of what entries contributed, failure only at the end and only with nothing
contributed.

**StreamTurn** is `_handle_streaming` from the accepted stream on and
`_stream_response_generator`. `current` is `current_idx + 1`, `playing` the
model whose stream is read, `named` is `ctx.physical_model`, `continues` the
switch `continue_on_length` of the pseudo-model. Chunks are text or tool-call
deltas tagged with the model they came from; `CutOff` is a suppressed
`finish_reason`, `FinishChunk` one that is forwarded: after `length` the generator
goes on to the next model even then. `Disconnect` cancels the generator at any
await, the commit included; `DropResponse` is a client that left before the first
event, whose generator never runs; `StopReading` is one that stays connected and
takes nothing. `Provide` is what the provider sends and `Generate` what the
program does. **EventStream** is the grammar of what a client may see, and says
where in it the turn is written or given up; a stream that `resumes` may hold
several finishes for length.

**ConversationStore** has an actor per chat request and per normalize-tools
call. `work[a]` is what its session has read, `turns` the table in the order of
the commits, `lock` the write lock of an open transaction: one for the whole
database when `SingleWriter` (SQLite), one per conversation otherwise. A streamed
chat may be left by its client between the response and the first event
(`Abandon`): it is over, and its session with the flushed `INSERT` stays open until
the garbage collector gets to it (`Reclaim`), which nothing guarantees.

**Compaction** is one conversation: `try_compact` with its lock, the dispatch
to arq, the worker's runs (`Interrupt` repeats them), the summary of the chunks
and the commit that chains the snapshot. `Summarize` keeps what some of the chunks
gave, as long as one did: a snapshot is the set of the turns it holds (`covers`)
and of those that failed chunks took along (`skipped`). Chunks are cut between any
two messages, but a last turn whose messages are no list leaves the previous
snapshot as the one chunk there is.

**ModelAffinity** is one conversation and any number of requests, each with the
pseudo-model it asks for. `pin` is the Valkey key, `row` the committed row,
`req[r]` what the request has read, selected, got and decided to store. A
streamed request reads the row before the pin, a plain one after it. `Eligible`,
`Pinned` and `Selects` are the filter for parallel tools and the selection;
`Unusable` is the percentage of `get_context_alert`, rounded to a decimal before
it is compared, and `OverThreshold` the input threshold; both are `NoLimit` where
the configuration has `None`, as for every passthrough model. `ChainAnswers` stands
for FallbackChain by what is visible of it here; a name with a bracket in
`attempted_models` is not taken for a model (`Bracketed`). `SetPin` and `Save` are
two steps, as in the code, and `Save` may store the model that continued a stream
(`Continuing`) instead of the pinned one.

**ContentDelegation** is the media of the requests of one conversation and the
cache they share. A request is one user message; `req[r]` holds where it stands,
what stands for its images (`pieces`: each remembers the image and the prompt it
was made from), the positions whose `GET` or `SET` is out, and how far each of its
files has come. `Lookup`, `Save`, `LookupFile` and `SaveFile` are one Valkey
command each, which may also raise; `Describe` is the call or calls of the vision
model, of which `Answers` says what they may return: any list of texts, each of
which describes an image of the call or none, in any order, too few or too many.
`Refuse` and `CallChain` are the threshold and the rest of the request; `Dies` is a
client or a process that goes away, and `Lapse` a TTL. `AutoDescribe` is the other
describer, for images the selected model can take when the request changes the
pseudo-model. The code has no way to notice that a list leaves out an image in the
middle, and gives every later one its neighbour's text; the history variable
`misread` records that a text was read for an image it does not describe.

**MessageHistory** is the conversation as its client keeps it, what is stored of
it, and what each model is given. `Exchange` is one request and its answer:
the conversation id derived from its first messages (`DerivedId`),
`Canonical` order, the model's own system prompt (`CallMessages`), the cache
breakpoints, the messages of the turn. `Normalized` is `normalize_history` as an
operator, evaluated on every history that the client, the results and the models
can produce together. Its messages are told apart by their positions.

## 3. The runs

| Run | Instance | Distinct states | What it shows |
|---|---|---|---|
| `MCModelBan` | 3 requests on one model, threshold 2, any command may raise | 40,248 | until a command raises: no counter without TTL but for a request about to set it, no ban lifted on behalf of a later request, every counter deleted |
| `MCFallbackChain` | 2 concurrent requests, one over a small, a disabled and a text-only model, one over the first of them; bans, continuation, 2 sizes of prompt | 282,255 | what the caller reads explains the verdict; raw media only to models that take it; the walk implements `OrderedFailover`; every request ends |
| `MCStreamTurn` | 3 models, `continue_on_length` on and off, any start, up to 3 deltas, failures, disconnections and a client that stops reading | 177,608 | the stored turn is what was sent; a well-formed stream, its turn settled between metadata and `[DONE]`; the request ends when its providers have ended their streams |
| `MCConversationStore` | 4 chats, two of them streamed and two overlapping ones of the same conversation with a cost, and a normalization; 2 conversations, SQLite | 33,968 | what survives the missing serialization, who loses an answer to the lock, and that all requests end but those that wait for the provider of a stream or for an abandoned session |
| `MCCompaction` | 2 calls, in place or by the worker, 3 turns, any of the chunks failing, 2 tries of a job | 1,960,938 | one chain as long as the worker is not used; turns forgotten only with a failed chunk, the newest active and the lock free in any case |
| `MCModelAffinity` | 3 requests, one streamed, one for a pseudo-model without limits, a model that reports another name and one with a bracket in its name | 261,596 | selection fits the session; a maintained affinity follows from an answer; the token count stays near the window |
| `MCContentDelegation` | 3 requests, two of them with the same question; three images, one long, one too big; a file; any list of texts up to the number of images; one request refused for its texts | 2,725,474 | every part of a message is replaced by something; until a text is read for an image it does not describe, what stands for an image was made from it and for no other question, in the cache too |
| `MCMessageHistory` | conversations of up to 6 messages, with and without a system prompt, 2 models, 2 parallel calls | 140,162 | cached prefixes are kept; the derived conversation id settles; normalize-tools loses, reorders and leaves parallel nothing |

Four runs end in a counterexample. Each checks one sentence of a comment or
docstring that the code does not keep, quoted under "findings":

| Run | Counterexample in a line |
|---|---|
| `MCFallbackChain_pin` | pinned to the second model, the first is called with media it cannot take |
| `MCStreamTurn_forward` | answered by the second model, cut off, continued by the second again |
| `MCContentDelegation_note` | a request dies after its extraction, and the repeated one is answered with a note of a text no model was given |
| `MCStreamTurn_length` | with `continue_on_length` off, the client gets the finish of the first model and then the chunks of the second |

### Bounds

* `FailThreshold` is 3 in the code. The runs use 1 or 2: what is told apart is
  the first failure, one below the threshold and one at it. `MaxCount` is where
  a counter saturates, above the threshold. The theorems hold of any threshold.
* The chain of the first request holds a small model that takes media, a
  disabled one and one that takes text only; the second request shares the first
  of them, so that bans meet skips, calls and continuations. `MCFallbackChain_pin`
  uses two capable or text-only models. A longer chain only repeats a kind.
* `MaxEst = 2` gives a prompt that fits a small window and one that does not.
* `MaxChunks = 3` lets two models each contribute text and tool calls. `Starts`
  and `Selected` let a fallback stream go by the selected name and by its own.
* Four chats let one finish before the others begin and two overlap, with a
  first request in another conversation; `a` and `c` both cost tokens and share
  `k1`, so their counts can overwrite each other. Both streamed chats are first
  requests, which hold the lock when they are abandoned.
* `MaxTurns = 3` and `MaxTries = 2` give turns before, between and after two
  snapshots, and one repetition; of three turns any part may fail.
* Three requests let two overlap after one was answered; the window 6, costs 3
  and 4 and estimates 1 and 4 against the threshold 3 reach, pass and just miss a
  window, and the pseudo-model without limits stores a count beyond it.
* In `MCContentDelegation` the images of one message fit one call and those of
  the other are split into parts of one, of which the big one fits none; the third
  request has another question. `Extra = 0` leaves answers that are too long, and
  `Audio = {}` and one outcome of the extraction leave the order of audios and
  files and the empty texts, to the proofs, which hold for all of them; with them
  the state space passes what TLC does in minutes. `MaxFull` lets the text of the
  book through for one request and not for the other.
* Six messages hold a parallel call, its two results in either order or
  missing, a user message between them and another exchange after it.
* `Faults` is on in `MCModelBan` only. With it the chain has millions of states,
  and the fault steps of the chain are literally those of ModelBan; the theorems
  hold with it and without.

### Fairness

Weak fairness of the steps a coroutine takes by itself: the event loop runs
every ready coroutine. The step that ends a model call is included because
`call_litellm` wraps it in `asyncio.wait_for` (`adapters/litellm/client.py`).
The TTLs of Valkey keys are fair, because Valkey removes them. No timeout covers
a chunk once a stream is accepted, so the provider of a stream is not fair:
`StreamTurn` has weak fairness on `Generate` only, and `StreamEndsWithProviders`
takes the end of each stream as its premise; in ConversationStore the end of a
call is fair for the chats that are not streamed, and `EveryActorEnds` names the
open streams as the one thing a request may wait for. Nothing assumes that a
request arrives, a fault happens, a client reads or leaves, a session is garbage
collected or a database refuses: `Begin`, `HelperFails`, `SaveFails`, `Interrupt`,
`Disconnect`, `StopReading`, `Abandon` and `Reclaim` are outside the fairness.
ModelAffinity, ContentDelegation and MessageHistory are checked for safety only:
their requests run straight on, and nobody waits for another.

`CHECK_DEADLOCK FALSE` stands where every actor comes to an end: a stream, a
finite set of requests or compaction calls, a conversation at its bound.
ModelBan and FallbackChain never stop.

## 4. The proofs

All of them hold for any number of requests, models, conversations, turns and
calls, from the named assumptions on the constants, which TLC evaluates in every
run of the module.

**ModelBan_proofs.** `BanTypeCorrect` stands alone. The two others say what
holds as long as no command has raised, so their invariant is

    Inv == OpOK /\ KeysOK /\ (~faulty => BanInv)

where `BanInv` joins `Guarded` and `BannedTracked` to the types. A counter without
a TTL has a request between its `INCR` and its `EXPIRE`: a deletion by another
request between the two leaves the count at 0, and an increment from 0 always goes
to the `EXPIRE`. `BannedTracked` says that a client at work on a banned
model was there when the ban was placed, because the check lets nobody in
meanwhile; with it, `BansAreLiftedByEarlierRequests` is a case split over
`BanNext`.

**FallbackChain_proofs.** `WalkInv` ties the locals of a walk to the command of
its ban helpers it stands at: each model before the current one has its mark,
the current one too once its attempt has failed, the parts of the answer are the
models cut off, in order, and `applied` says that something was tried. At the
verdict it turns into `Explained`, and so into `AttemptsExplainVerdict`.
The
safety theorems about ModelBan assume no more than `BanSafety`, and the steps of
the chain are steps of it (`ChainUsesBan`), so `ChainKeepsBans` follows from them. `ChainImplementsFailover` maps the position, the
marks and the parts to those of OrderedFailover, a step or a stutter for each
action. For media, `RawMediaFollowSelection` says what holds in any case: a
model that cannot take raw media gets them only as the first of the list and
only when another position was selected, which is the case of
`MCFallbackChain_pin`.

**StreamTurn_proofs.** The invariant says where each phase stands in the grammar
of EventStream (`PhaseInv`), that the accumulated text is one piece per text
event, of the model of that event (`Accumulates`, over the set of positions of
the text events, whose cardinality numbers the pieces), that the calls are those
of the model whose stream is read, and what the generator has counted
(`UsageInv`). `StoredInv` carries it over the commit. All of it holds with
`continue_on_length` and without: after a forwarded finish for length the
generator is in the same phase as after a suppressed one, and the grammar that
`StreamIsWellFormed` refers to lets the stream resume only where `continues` is
false. The refinement has one step per action.

**ConversationStore_proofs.** The invariant adds three facts to the properties:
what a session has read is still a prefix of the table (`ReadsHold`: turns are
only appended, so a number read stays an upper bound of that prefix), a turn's
`after` lies before it, and a normalization under way has seen turns
(`NormalizersSawTurns`). `SeenTurnsComeFirst` and `NumbersStayWithinLength` need
each other: a number is one more than the largest read, which is at most the
number of turns read. `RowsComeWithTurns` is the other half of the commit.
`RowsFollowTheirTurns` needs the sum of the costs, a recursive function: the
partial sums of a sequence exist and are unique (a least place where they fail
cannot be), so a longer sequence has a larger sum, and what a session has read of
the row stays below it (`RowInv`). `TurnsAreStoredOnce` follows the places of
the session. `OnlyOpenSessionsLockOut` is an action property; its invariant is
`LocksHeld`: a lock is held by a request of its own conversation that is calling
or saving or was abandoned, and only until the row is committed; a request at work
without a committed row holds its lock; SQLite has one lock. So a session that is
refused the commit has a committed row, and the lock in its way is that of another
conversation. `Abandon` is the one step that ends a request and leaves its lock.

**Compaction_proofs.** `IInv` adds `JobsHaveTurns` and `BaseContained`: what a
run has read, summarized or skipped contains what the snapshot it will supersede
holds. It gives `NewestSnapshotIsActive` and `TurnsAreForgottenOnlyWithAChunk` for
every interleaving, repeated runs included. `ChainStaysLinear` speaks of the time in which nothing
has been handed to the worker:

    SerialInv == IInv /\ (NoWorker => Serial)

where `Serial` says that whoever is past the lock holds it, that a run under way
is inside such a call, and that its base is the active snapshot.

**ModelAffinity_proofs.** What makes the properties inductive is where each
local gets its value (`InPlace`), that the check against the window held when a
request went on (`CheckedFits`), that without a fallback the stored model is the
selected one, and that the pin (`PinAnswered`), and so what a request has read of
it, was the model of another request (`AnsweredUnder`). The last one is stable because an answered request
never changes what it was answered with. `OwnStep` proves once what every step
that only changes a request's own locals needs; `SetPin` and `Save` are proved
apart. `TokensAreBounded` is about the step that writes the row: `CheckedFits` ties
what the request has read, to which it adds its cost, to the window of its own
pseudo-model; nothing can be said of a row that a request without a window wrote.
`SelectsFitting` is the reason for `SelectionsFit`: outside the pinned
case the position is eligible, and inside it the pinned model was found among
the eligible ones whenever the session needs them.

**ContentDelegation_proofs.** `NoPartVanishes` holds whatever the models, the
extractors and Valkey return. The invariant says, of a request between `Begin`
and its verdict, that it has one piece for each image (`PartsInPlace`), that a
file that is done with or about to be stored has its text (`TextsInPlace`), and
that a message is composed only when all its files are (`ReadyIsDone`). Nothing
is used of what the calls for parts of the images return: `Padded` alone gives
the count. The cache is part of the invariant because a text found there becomes
the text of a file. `DescriptionsAreTheirImages` does depend on those calls, and
holds until a text is read for an image it does not describe:

    MInv == TypeOK /\ (~misread => CacheMatches /\ \A r : LocalsMatch of r)

That the texts of each answer stand at their images is a fact about the calls; that
they still do in the message is a fact about the code. The batches are a partition
of the images in order (`BatchesPartition`), so when each text of an answer is about
the image at its place (`AnswerOfOneCall`), joining (`JoinInOrder`) and padding (`PaddedInOrder`) keep every text at its
image, and a text found for an image is that of its first occurrence.

**MessageHistory_proofs.** Histories have any length (`MaxMessages` is any number).
`Canonical` is the system messages and then the others, and a client has at most
one system message, so what a model is given is a heading, which depends on the
model and the prompt only, and then the conversation without its prompt
(`CallHasHeading`). The invariant says that each stored turn is a beginning of the
present conversation with the prompt at some place (`FromConv`), and that what each
model was given last is such a heading and beginning, with a partial answer after it at most
(`GivenInOrder`). A later
request has the same heading and a longer beginning, which is `WhatIsCachedStays`;
two turns with the prompt at the same place have the same first messages, which
is `DerivedIdSettles`.

`NormalizedIsComplete` is about `normalize_history` and about what it is given.
The joined sequences of `FlattenSeq` are laid out with a start for each part
(`FlattenLaid`), so every message written stands in the place of one read
(`SerializedIsOk` for one of several calls). `NormalizedComplete` then holds of a
history that is `Wellformed`: only assistants have calls, messages that share a
call are equal, and so are results of one call, a result comes after a message
with its call, and every message with a call that has a result has one after it.
The last condition is the delicate one, because each stored turn repeats the ones
before it and a result is looked for only after its call. It follows from the
invariant `NInv`: a call names the message it stands in and has one result at
most, which comes later (`CallsInOrder`), and every turn holds a beginning of the
conversation, none a shorter one than a turn before it (`TurnsHold`). So a turn
that repeats a call after its result was stored repeats the result, too.

### Recursion in the proofs

The induction theorems of the library cannot be instantiated. What the recursive
functions compute (sums, batches, joined answers, `OfRoles`, and the `FlattenSeq`
of the community modules) is proved from the well-foundedness of `<` on the
naturals, by a least counterexample. Such a proof needs the function written out
in a module, so the modules that are proved about use no `SelectSeq`.

### What is only model-checked

* Liveness (`CounterEventuallyCleared`, `EveryRequestEnds`,
  `StreamEndsWithProviders`, `EveryActorEnds`, `LockEventuallyFree`): fairness and
  `ENABLED` are beyond the prover.
* The sentences that the code does not keep, of course.

## 5. Where the code departs from its words

Besides the four counterexamples, modelling met these. None has a run of its
own; each can be read off the lines named.

*Fallback and bans.* A lost `EXPIRE` leaves a counter that bans days later
(`chat_fallback.py:672`). A skipped model counts towards its ban
(`chat_fallback.py:785-793`). A disabled provider counts as one without room, so
a chain of disabled models ends in a context error. The chain starts at
`physical_models[0]` whatever model was selected, and takes no notice of the
filter for parallel tools.

*Streams.* No pseudo-model of `pseudo_models.yaml` sets `continue_on_length`, so
what `MCStreamTurn_length` shows is how a streamed answer that reaches the token
limit goes on whenever its pseudo-model has another model. An error chunk is not
followed by `[DONE]`. A usage chunk after the
finish chunk is never read (`chat_streaming.py:791`). A client that leaves
between the response and its first event leaves the database session open, and for
a new conversation the lock of its `INSERT`; the connection comes back when the
garbage collector finds the session. No timeout covers a chunk, so a silent
provider holds the session as well. A stream that was continued is pinned to the
model before the continuation and stored under the one after it. A fallback stream
whose chunks carry no model name is stored under the selected model's.

*Store.* Under concurrency a flag can be reset, tokens lost and a turn number
given twice, and the count of described images is overwritten within one
request. The row of a new conversation is flushed before the model is called, so
SQLite's only write lock is held through the call, and another conversation's
answer is lost to the busy timeout of 15 s (`main.py:76` speaks of "SQLite WAL mode
+ busy timeout for concurrent access"); `LockedOutOnlyByOpenSessions` says how far
that goes. `chat.py:69` promises "SAME conversation across turns → SAME
fingerprint → SAME ID" and another one for a different conversation: without a
system prompt the id changes with the second request, with a system prompt at
another place it changes as well, and two conversations that begin alike share it. `chat_service.py:261-265` calls the stored history the stable prefix of
a request, while `build_conversation_messages` returns the client's messages.

*Compaction.* A large history is handed to the arq worker and the lock released at
once, and the worker takes none: two runs may work side by side and supersede the
same snapshot, although `explicit.py:45` speaks of "only one compaction per
conversation at a time". (`arq_app.py` makes its connections by `from_dsn` out of a
`valkey://` URL, lines 98 and 119; where arq refuses that, there is no pool and
every history is summarized in place.) A snapshot is stored although some chunks
failed, and what was in them is gone from the compacted history without a word
(`explicit.py:317`). After normalize-tools the last turn has another shape and its messages are skipped.
Compaction does not lower `total_tokens`, so a conversation past its window
stays refused, although `context_alert.py:59` says "Compaction is the only
available action".

*Affinity.* The stored and pinned model may be one that did not answer: after a
fallback the code stores the name in the answer, or the selected model for a
stream without one. The pin is written before a save that may fail.

*Delegation.* The descriptions are read by their position in whatever list the
vision model returns (`tool_detector.py:395-396`): one that is left out, added or
moved gives the images after it their neighbours' texts, in the message and in the
cache, in one call and across the parts of a split (the docstring promises "one
description per image"). One image missing from the cache has all images of the message described
again (`:913-943`), and what was cached before wins over what the model is given
(`SET NX`). The error text of an image that is too large, and that of an extractor,
are cached like any other for the whole TTL. In auto-describe an empty answer
leaves the image in the message, although it says it describes all
(`image_describer.py:403-419`), and an image described alone is described without
the question. Inside the fallback media are replaced by texts after the estimate
against the next window was made (`chat_fallback.py:767-777`), whereas
`chat_streaming.py` takes care that "estimate_tokens must run AFTER
replace_base64_with_blob_refs".

*Messages.* `canonicalize_message_order` never moves a tool result: each branch
of its loop appends, although `message_ordering.py:86` says "tool results
reordered to follow their corresponding tool_call messages". normalize-tools
concatenates turns that `chat_messages.py:28` says "ALL messages cumulatively",
so a message is counted once per turn; nothing reads the `normalized_history` it
stores, and `capability_has_parallel_tools` stays set although
`conversations.py:241` says "After this, the conversation can switch to
pseudo-models without parallel tool support". A call id that is used again
loses the later result.

## 6. What is not modelled

* Parameters of a call (thinking, reasoning, temperature), wording of errors,
  layout of chunks, headers, traces and logs: no property here is about them.
* `degrade-images`: the endpoint fails on a lazy load before it changes anything.
* The router's suggestion and the smart-fallback history: nothing reads them to
  decide. (`record_call` reads, changes and writes one JSON value, so concurrent
  calls lose entries of it.)
* Text extraction itself: external programs; `Outcomes` is what they may return.
  The raw blobs in Valkey: the path of a request writes and never reads them. In
  ContentDelegation a request has one user message, downloads of image URLs are
  over, texts are told apart only as far as a hit does (long or not), and the cut
  of a text to the size of its file is left out. Compaction's use of the describer
  and of its own cache keys is left out. In FallbackChain delegation is the step
  from `raw` to `plain`.
* Configuration is constant after start.
* In ConversationStore a request is one conversation and one pseudo-model, and
  the affinity is absent; in StreamTurn the chain is the set of positions it may
  answer from; ModelAffinity has its own, smaller row.
* In MessageHistory there is one request at a time, ids of calls are unique, media
  are absent (a long description becomes a note when it is sent again, which changes
  the prefix: `tool_detector.py:933-942`, `1103`), the
  texts of long tool results are not shortened, and hashes, the order of tool
  definitions and the statistics of the cache are left out.

## 7. The plan

Written: the parts above, in the order of their importance to a client: who
answers, what the client sees, what is stored, what survives, under which name,
and with which messages.

The proofs are written for every safety invariant and action property that a run
checks and the code keeps. Next, in this order:

1. A composition of a turn (affinity, chain and store together), so that the pin,
   the row and the attempted models of overlapping requests are checked against
   each other; it takes the place of what ModelAffinity assumes of the chain.
2. `_split_into_chunks` and the choice of a compactor model as operators against
   a reference, inside Compaction.

Where a new property says more than an old one it takes its place.
