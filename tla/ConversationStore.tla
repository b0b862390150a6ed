-------------------------- MODULE ConversationStore --------------------------
(***************************************************************************)
(* The conversations and conversation_turns tables as the chat requests    *)
(* and normalize-tools use them.  A request reads the conversation and its *)
(* turns, waits for the model, and only then writes its turn, computed     *)
(* from what it had read; the requests of one conversation are not         *)
(* serialized.  The first request of a conversation flushes the INSERT of  *)
(* the row before it calls the model, so its transaction, and the lock the *)
(* database takes for it, stay open for the whole call.                    *)
(***************************************************************************)
EXTENDS Naturals, Sequences, FiniteSets

CONSTANTS
    Conversations,
    Chats,          \* chat requests
    Streamed,       \* those answered as a stream of events
    Normalizers,    \* POST /conversations/{id}/normalize-tools
    Conv,           \* Conv[a]: the conversation an actor names
    Pseudo,         \* Pseudo[r]: the pseudo-model a chat asks for
    NoPseudo,
    Vision,         \* pseudo-models with a vision model
    Content,        \* Content[r]: the capability flags of the chat's messages
    Cost,           \* Cost[r]: input and output tokens the model reports
    Free,           \* no actor
    SingleWriter    \* SQLite, one writer; otherwise PostgreSQL, row locks

Actors == Chats \union Normalizers

ASSUME ConversationStoreAssumption ==
    /\ Chats \intersect Normalizers = {}
    /\ Streamed \subseteq Chats
    /\ Conv \in [Actors -> Conversations]
    /\ \A r \in Chats : Pseudo[r] # NoPseudo
    /\ Cost \in [Chats -> Nat]
    /\ Free \notin Actors
    /\ SingleWriter \in BOOLEAN

VARIABLES
    row,    \* the row of each conversation, as committed
    turns,  \* the turns of each conversation, in the order of their commits
    lock,   \* who holds the write lock through an open transaction
    work    \* the session of each actor

vars == <<row, turns, lock, work>>

NoRow == [exists |-> FALSE, tokens |-> 0, flags |-> {}, pseudo |-> NoPseudo]

\* at: where the actor stands; row, top, seen: what it read, the highest
\* number and how many of the turns; images: auto-describe added a turn.
Arrived == [at |-> "arrived", row |-> NoRow, top |-> 0, seen |-> 0,
            images |-> FALSE]

Over == {"stored", "failed", "lost", "locked_out", "abandoned"}

At(a, place) == work[a].at = place

Goto(a, place) == work' = [work EXCEPT ![a].at = place]

Init ==
    /\ row = [c \in Conversations |-> NoRow]
    /\ turns = [c \in Conversations |-> <<>>]
    /\ lock = [c \in Conversations |-> Free]
    /\ work = [a \in Actors |-> Arrived]

-----------------------------------------------------------------------------
(* Locks                                                                   *)

\* The transactions a write of conversation c waits for.
Contended(c) == IF SingleWriter THEN Conversations ELSE {c}

MayWrite(a) == \A c \in Contended(Conv[a]) : lock[c] \in {a, Free}

Release(a) == lock' = [lock EXCEPT ![Conv[a]] = IF @ = a THEN Free ELSE @]

\* SQLite gives up after its busy timeout; PostgreSQL waits.
LockTimeout(a, outcome) ==
    /\ SingleWriter
    /\ ~MayWrite(a)
    /\ Goto(a, outcome)
    /\ UNCHANGED <<row, turns, lock>>

-----------------------------------------------------------------------------
(* Reading                                                                 *)

\* Mutant of MaxNumber: the number of the first turn.
FirstNumber(ts) == IF ts = <<>> THEN 0 ELSE ts[1].number

MaxNumber(ts) ==
    IF ts = <<>> THEN 0
    ELSE CHOOSE n \in {ts[i].number : i \in DOMAIN ts} :
             \A i \in DOMAIN ts : ts[i].number <= n

\* db.get(Conversation): the row, and no transaction is left open.
LoadRow(r) ==
    /\ At(r, "arrived")
    /\ work' = [work EXCEPT ![r].row = row[Conv[r]],
                            ![r].at = IF row[Conv[r]].exists THEN "turns" ELSE "insert"]
    /\ UNCHANGED <<row, turns, lock>>

\* selectinload(Conversation.turns), a SELECT of its own.
LoadTurns(r) ==
    /\ At(r, "turns")
    /\ work' = [work EXCEPT ![r].top = MaxNumber(turns[Conv[r]]),
                            ![r].seen = Len(turns[Conv[r]]),
                            ![r].at = "calling"]
    /\ UNCHANGED <<row, turns, lock>>

\* Mutant of Insert: commit in the place of flush.
InsertAndCommit(r) ==
    /\ At(r, "insert")
    /\ MayWrite(r)
    /\ IF row[Conv[r]].exists
       THEN Goto(r, "failed") /\ UNCHANGED row
       ELSE /\ Goto(r, "calling")
            /\ row' = [row EXCEPT ![Conv[r]].exists = TRUE, ![Conv[r]].pseudo = Pseudo[r]]
    /\ UNCHANGED <<turns, lock>>

\* db.add(conv) and flush: a new conversation, or an IntegrityError when
\* another request has created it in the meantime.
Insert(r) ==
    /\ At(r, "insert")
    /\ MayWrite(r)
    /\ IF row[Conv[r]].exists
       THEN Goto(r, "failed") /\ UNCHANGED lock
       ELSE Goto(r, "calling") /\ lock' = [lock EXCEPT ![Conv[r]] = r]
    /\ UNCHANGED <<row, turns>>

InsertTimesOut(r) ==
    /\ At(r, "insert")
    /\ LockTimeout(r, "failed")

-----------------------------------------------------------------------------
(* The model                                                               *)

\* handle_auto_describe: the conversation belongs to another pseudo-model,
\* one with vision, and some message has an image.  The conversation_turn is
\* added to the session; the turns the session has loaded stay as they are.
DescribeImages(r) ==
    /\ At(r, "calling")
    /\ ~work[r].images
    /\ work[r].row.exists
    /\ work[r].row.pseudo # Pseudo[r]
    /\ work[r].row.pseudo \in Vision
    /\ work[r].seen > 0
    /\ work' = [work EXCEPT ![r].images = TRUE]
    /\ UNCHANGED <<row, turns, lock>>

Answered(r) ==
    /\ At(r, "calling")
    /\ Goto(r, "saving")
    /\ UNCHANGED <<row, turns, lock>>

\* Mutant of Fails: the transaction is left open.
FailsWithoutRollback(r) ==
    /\ At(r, "calling")
    /\ Goto(r, "failed")
    /\ UNCHANGED <<row, turns, lock>>

\* A refusal, a failed chain, a broken stream or a client that left while its
\* events were sent: the session is rolled back or closed without a commit.
Fails(r) ==
    /\ At(r, "calling")
    /\ Goto(r, "failed")
    /\ Release(r)
    /\ UNCHANGED <<row, turns>>

\* The client leaves between the response and its first event: the generator
\* that would close the session never runs, and nothing is rolled back.
Abandon(r) ==
    /\ r \in Streamed
    /\ At(r, "calling")
    /\ Goto(r, "abandoned")
    /\ UNCHANGED <<row, turns, lock>>

\* The garbage collector may get to the session, and its connection goes back to
\* the pool: nothing in the program makes it.
Reclaim(r) ==
    /\ At(r, "abandoned")
    /\ lock[Conv[r]] = r
    /\ Release(r)
    /\ UNCHANGED <<row, turns, work>>

-----------------------------------------------------------------------------
(* Writing                                                                 *)

\* Mutant of Turn: max, and not max + 1.
TurnNumberedAsTheLast(a, kind, flags, cost) ==
    [number |-> work[a].top, kind |-> kind, by |-> a, flags |-> flags,
     cost |-> cost, after |-> work[a].seen]

Turn(a, kind, flags, cost) ==
    [number |-> work[a].top + 1, kind |-> kind, by |-> a, flags |-> flags,
     cost |-> cost, after |-> work[a].seen]

\* The tokens a described image costs are those of the turn, not of the row.
Described(r) ==
    IF work[r].images THEN <<Turn(r, "degradation", {}, 1)>> ELSE <<>>

\* Mutant of RowAfter: the tokens read and those of the row are both added.
RowAfterAddingTwice(r) ==
    [exists |-> TRUE,
     tokens |-> row[Conv[r]].tokens + work[r].row.tokens + Cost[r],
     flags  |-> work[r].row.flags \union Content[r],
     pseudo |-> IF work[r].row.exists THEN work[r].row.pseudo ELSE Pseudo[r]]

\* The row after a turn.  total_tokens is written when it changed, with the
\* value read plus the cost; accumulate_capabilities writes every flag, those
\* read before with those of the messages.  images_described, which it writes
\* back as read, is left out.
RowAfter(r) ==
    [exists |-> TRUE,
     tokens |-> IF Cost[r] = 0 THEN row[Conv[r]].tokens
                ELSE work[r].row.tokens + Cost[r],
     flags  |-> work[r].row.flags \union Content[r],
     pseudo |-> IF work[r].row.exists THEN work[r].row.pseudo ELSE Pseudo[r]]

\* _save_and_return and _persist_stream_turn: one commit.
Save(r) ==
    /\ At(r, "saving")
    /\ r \in Chats
    /\ MayWrite(r)
    /\ turns' = [turns EXCEPT ![Conv[r]] =
           @ \o Described(r) \o <<Turn(r, "normal", Content[r], Cost[r])>>]
    /\ row' = [row EXCEPT ![Conv[r]] = RowAfter(r)]
    /\ Goto(r, "stored")
    /\ Release(r)

\* Mutant of SaveFails: the degradation turn was committed on its own.
SaveFailsAfterDescription(a) ==
    /\ At(a, "saving")
    /\ Goto(a, "lost")
    /\ Release(a)
    /\ turns' = [turns EXCEPT ![Conv[a]] = @ \o Described(a)]
    /\ UNCHANGED row

\* The database refused the commit: an error for the client, or, after a
\* stream, for the log only.
SaveFails(a) ==
    /\ At(a, "saving")
    /\ Goto(a, "lost")
    /\ Release(a)
    /\ UNCHANGED <<row, turns>>

SaveTimesOut(a) ==
    /\ At(a, "saving")
    /\ LockTimeout(a, "locked_out")

-----------------------------------------------------------------------------
(* normalize-tools                                                         *)

HasParallelCalls(c) ==
    \E i \in DOMAIN turns[c] : "parallel" \in turns[c][i].flags

\* The turns are counted, not numbered by their maximum.
ReadForNormalization(n) ==
    LET c == Conv[n]
    IN /\ At(n, "arrived")
       /\ row[c].exists
       /\ HasParallelCalls(c)
       /\ work' = [work EXCEPT ![n].top = Len(turns[c]), ![n].seen = Len(turns[c]),
                               ![n].at = "saving"]
       /\ UNCHANGED <<row, turns, lock>>

\* No conversation, no turns or no parallel calls, or a dry run.
NothingToNormalize(n) ==
    /\ At(n, "arrived")
    /\ Goto(n, "failed")
    /\ UNCHANGED <<row, turns, lock>>

SaveNormalization(n) ==
    /\ At(n, "saving")
    /\ n \in Normalizers
    /\ MayWrite(n)
    /\ turns' = [turns EXCEPT ![Conv[n]] = Append(@, Turn(n, "normalization", {}, 0))]
    /\ Goto(n, "stored")
    /\ UNCHANGED <<row, lock>>

-----------------------------------------------------------------------------

\* What the event loop and the database get done.
SessionStep(r) ==
    \/ LoadRow(r)
    \/ LoadTurns(r)
    \/ Insert(r)
    \/ InsertTimesOut(r)
    \/ Save(r)

\* How the call of the model goes.
CallStep(r) ==
    \/ DescribeImages(r)
    \/ Answered(r)
    \/ Fails(r)

ChatStep(r) == SessionStep(r) \/ CallStep(r) \/ Abandon(r) \/ Reclaim(r)

NormalizerStep(n) ==
    \/ ReadForNormalization(n)
    \/ NothingToNormalize(n)
    \/ SaveNormalization(n)

WriteFails(a) == SaveFails(a) \/ SaveTimesOut(a)

Next ==
    \/ \E r \in Chats : ChatStep(r)
    \/ \E n \in Normalizers : NormalizerStep(n)
    \/ \E a \in Actors : WriteFails(a)

Spec == Init /\ [][Next]_vars

\* The event loop runs every ready coroutine and the database answers.  A call
\* that is not streamed is bounded by its timeout.  A stream is not: once it is
\* accepted nobody times its chunks.  No client has to leave.
FairSpec ==
    /\ Spec
    /\ \A r \in Chats : WF_vars(SessionStep(r))
    /\ \A r \in Chats \ Streamed : WF_vars(CallStep(r))
    /\ \A n \in Normalizers : WF_vars(NormalizerStep(n))

-----------------------------------------------------------------------------

RowType ==
    [exists : BOOLEAN, tokens : Nat, flags : SUBSET UNION {Content[r] : r \in Chats},
     pseudo : {Pseudo[r] : r \in Chats} \union {NoPseudo}]

TurnType ==
    [number : Nat \ {0}, kind : {"normal", "degradation", "normalization"}, by : Actors,
     flags : SUBSET UNION {Content[r] : r \in Chats}, cost : Nat, after : Nat]

WorkType ==
    [at : {"arrived", "turns", "insert", "calling", "saving"} \union Over,
     row : RowType, top : Nat, seen : Nat, images : BOOLEAN]

TypeOK ==
    /\ row \in [Conversations -> RowType]
    /\ turns \in [Conversations -> Seq(TurnType)]
    /\ lock \in [Conversations -> Actors \union {Free}]
    /\ work \in [Actors -> WorkType]

TurnsBy(a) == {i \in DOMAIN turns[Conv[a]] : turns[Conv[a]][i].by = a}

\* A turn is numbered after every turn its request had read, whatever other
\* requests did in between: what the user saw first stays first.  (Numbers
\* come from max + 1 in the chats and from len + 1 in normalize-tools.)
SeenTurnsPrecede ==
    \A c \in Conversations : \A j \in DOMAIN turns[c] : \A i \in 1..turns[c][j].after :
        turns[c][i].number < turns[c][j].number

\* A conversation exists only with a turn: the row that the first request
\* inserts before it calls the model goes away with a failed call.
ExistsWithTurns ==
    \A c \in Conversations : row[c].exists <=> turns[c] # <<>>

\* A request that was answered and committed has exactly one normal turn, and
\* any other request has left nothing, its degradation turn included.
StoredOnceOrNotAtAll ==
    \A r \in Chats :
        /\ At(r, "stored") => Cardinality({i \in TurnsBy(r) :
                                  turns[Conv[r]][i].kind = "normal"}) = 1
        /\ ~At(r, "stored") => TurnsBy(r) = {}

SumOfCosts(ts) ==
    LET upTo[n \in 0..Len(ts)] == IF n = 0 THEN 0 ELSE upTo[n - 1] + ts[n].cost
    IN upTo[Len(ts)]

\* However stale the row was that a request wrote back, a flag of the row comes
\* from some turn of the conversation, and its token count never exceeds what
\* the turns add up to.
RowFollowsTurns ==
    \A c \in Conversations :
        /\ \A f \in row[c].flags : \E i \in DOMAIN turns[c] : f \in turns[c][i].flags
        /\ row[c].tokens <= SumOfCosts(turns[c])

\* The lock is held by a session that nothing has to close: a stream that waits
\* for its provider, or one whose client left before the first event.
HeldOpen(c) ==
    /\ lock[c] \in Streamed
    /\ work[lock[c]].at \in {"calling", "abandoned"}

\* Every request ends, or it waits for the provider of a stream: its own, or
\* that of the session that holds the lock it needs.  No session that is over
\* keeps the others waiting, but for an abandoned stream.
EveryActorEnds ==
    \A a \in Actors : work[a].at \notin Over ~>
        \/ work[a].at \in Over
        \/ a \in Streamed /\ At(a, "calling")
        \/ \E c \in Contended(Conv[a]) : lock[c] # a /\ HeldOpen(c)

\* The session of a request that is at its call or its commit, or of a stream
\* that was abandoned.
OpenSession(a) ==
    At(a, "calling") \/ At(a, "saving") \/ (a \in Streamed /\ At(a, "abandoned"))

\* An answer is lost to the lock of SQLite only while the first request of
\* another conversation has its session open: never to one of the same
\* conversation, and never to a request that ended otherwise than by being
\* abandoned.
LockedOutOnlyByOpenSessions ==
    [][\A a \in Actors : At(a, "saving") /\ work'[a].at = "locked_out" =>
           \E c \in Conversations \ {Conv[a]} :
               lock[c] # Free /\ OpenSession(lock[c])]_vars

=============================================================================
