------------------------------ MODULE Compaction ------------------------------
(***************************************************************************)
(* Explicit compaction of one conversation: CompactionOrchestrator with    *)
(* its lock, compact_conversation, which summarizes the history at once or *)
(* hands a large one to the arq worker, and _run_compaction_sync, which    *)
(* stores the snapshot and chains it to the one before.  Chats and         *)
(* normalize-tools add turns meanwhile.                                    *)
(***************************************************************************)
EXTENDS Naturals, Sequences

CONSTANTS
    Calls,      \* POST /conversations/{id}/compact
    Nobody,     \* holder of a free lock
    Background, \* may the history exceed 500000 tokens while arq is there?
    MaxTurns,   \* bound on the turns of the conversation
    MaxTries    \* runs of a job: arq starts an interrupted job again

ASSUME CompactionAssumption ==
    /\ Nobody \notin Calls
    /\ Background \subseteq BOOLEAN
    /\ MaxTurns \in Nat
    /\ MaxTries \in Nat \ {0}

VARIABLES
    turns,      \* number of turns
    readable,   \* are the messages of the last turn a list?
    snapshots,  \* committed snapshots, in the order of their commits
    active,     \* active_snapshot_id: a position in snapshots, 0 for none
    holder,     \* who holds the lock of the conversation
    call,       \* the HTTP call
    job         \* the run of its compaction, in the call or in a worker

vars == <<turns, readable, snapshots, active, holder, call, job>>

\* worker: does the run belong to the arq worker; base, turns, listed, covers: what
\* it read, the active snapshot, the number of turns, whether the last one's
\* messages are a list, and the turns of its history, later those summarized;
\* skipped: the turns that the failed chunks took along.
NoJob == [at |-> "none", worker |-> FALSE, tries |-> 0, base |-> 0, turns |-> 0,
          listed |-> FALSE, covers |-> {}, skipped |-> {}]

Init ==
    /\ turns = 0
    /\ readable = TRUE
    /\ snapshots = <<>>
    /\ active = 0
    /\ holder = Nobody
    /\ call = [p \in Calls |-> "arrived"]
    /\ job = [p \in Calls |-> NoJob]

-----------------------------------------------------------------------------
(* The rest of the proxy                                                   *)

\* The client sends the whole history with every request, so the messages of
\* a chat turn hold all the turns before.
AddTurn ==
    /\ turns < MaxTurns
    /\ turns' = turns + 1
    /\ readable' = TRUE
    /\ UNCHANGED <<snapshots, active, holder, call, job>>

\* normalization_event: its messages are a dict without "messages".
AddNormalization ==
    /\ 0 < turns
    /\ turns < MaxTurns
    /\ turns' = turns + 1
    /\ readable' = FALSE
    /\ UNCHANGED <<snapshots, active, holder, call, job>>

-----------------------------------------------------------------------------
(* try_compact                                                             *)

\* Mutant of Acquire: the lock is not tested.
AcquireUntested(p) ==
    /\ call[p] = "arrived"
    /\ holder' = p
    /\ call' = [call EXCEPT ![p] = "loading"]
    /\ UNCHANGED <<turns, readable, snapshots, active, job>>

\* The lock is tested and taken without an await in between.
Acquire(p) ==
    /\ call[p] = "arrived"
    /\ holder = Nobody
    /\ holder' = p
    /\ call' = [call EXCEPT ![p] = "loading"]
    /\ UNCHANGED <<turns, readable, snapshots, active, job>>

\* 409.
RefuseBusy(p) ==
    /\ call[p] = "arrived"
    /\ holder # Nobody
    /\ call' = [call EXCEPT ![p] = "over"]
    /\ UNCHANGED <<turns, readable, snapshots, active, holder, job>>

\* Mutant of Leave: the lock is not released.
LeaveLocked(p) ==
    /\ holder' = holder
    /\ call' = [call EXCEPT ![p] = "over"]

\* Out of compact_conversation, whatever the result.
Leave(p) ==
    /\ holder' = Nobody
    /\ call' = [call EXCEPT ![p] = "over"]

\* No conversation, no turns, no compactor model.
Refuse(p) ==
    /\ call[p] = "loading"
    /\ Leave(p)
    /\ UNCHANGED <<turns, readable, snapshots, active, job>>

\* Mutant of History: only what came after the active snapshot.
HistorySinceSnapshot ==
    IF ~readable THEN {}
    ELSE IF active = 0 THEN 1..turns
    ELSE (snapshots[active].at + 1)..turns

\* The turns that the active snapshot and the last turn's messages hold.  The
\* SELECTs follow each other and no LLM call lies between them.
History ==
    (IF active = 0 THEN {} ELSE snapshots[active].covers)
        \union (IF readable THEN 1..turns ELSE {})

Loaded(p, place) ==
    job' = [job EXCEPT ![p] = [at |-> place, worker |-> @.worker, tries |-> @.tries + 1,
                               base |-> active, turns |-> turns, listed |-> readable,
                               covers |-> History, skipped |-> {}]]

CompactNow(p) ==
    /\ call[p] = "loading"
    /\ turns > 0
    /\ FALSE \in Background
    /\ Loaded(p, "summarizing")
    /\ call' = [call EXCEPT ![p] = "compacting"]
    /\ UNCHANGED <<turns, readable, snapshots, active, holder>>

\* enqueue_job; the worker reads everything again.
Dispatch(p) ==
    /\ call[p] = "loading"
    /\ turns > 0
    /\ TRUE \in Background
    /\ job' = [job EXCEPT ![p].at = "queued", ![p].worker = TRUE]
    /\ Leave(p)
    /\ UNCHANGED <<turns, readable, snapshots, active>>

\* The outcome of the run reaches the call.
CallEnds(p) ==
    /\ call[p] = "compacting"
    /\ job[p].at = "over"
    /\ Leave(p)
    /\ UNCHANGED <<turns, readable, snapshots, active, job>>

-----------------------------------------------------------------------------
(* The arq worker: no lock                                                 *)

StartJob(p) ==
    /\ job[p].at = "queued"
    /\ job[p].tries < MaxTries
    /\ Loaded(p, "summarizing")
    /\ UNCHANGED <<turns, readable, snapshots, active, holder, call>>

\* The worker is stopped; its job runs again, or is given up.
Interrupt(p) ==
    /\ job[p].worker
    /\ job[p].at \in {"summarizing", "committing", "reporting"}
    /\ job' = [job EXCEPT ![p].at = IF job[p].tries < MaxTries
                                    THEN "queued" ELSE "over"]
    /\ UNCHANGED <<turns, readable, snapshots, active, holder, call>>

-----------------------------------------------------------------------------
(* _run_compaction_sync                                                    *)

\* The history is cut into chunks between any two messages, every chunk is
\* summarized by a call of its own, and those that fail are left out: it is enough
\* that one succeeds.  The previous snapshot is one message, and so one chunk.
Summarize(p) ==
    /\ job[p].at = "summarizing"
    /\ \E kept \in SUBSET job[p].covers :
          /\ kept # {}
          /\ job[p].listed \/ kept = job[p].covers
          /\ job' = [job EXCEPT ![p] =
                 [@ EXCEPT !.at = "committing", !.covers = kept,
                           !.skipped = job[p].covers \ kept]]
    /\ UNCHANGED <<turns, readable, snapshots, active, holder, call>>

\* "All compaction chunks failed", of which there may have been none.
NothingSummarized(p) ==
    /\ job[p].at = "summarizing"
    /\ job' = [job EXCEPT ![p].at = "over"]
    /\ UNCHANGED <<turns, readable, snapshots, active, holder, call>>

Snapshot(p) ==
    [at |-> job[p].turns, covers |-> job[p].covers, skipped |-> job[p].skipped,
     supersededBy |-> 0]

\* Mutants of Commit: the new snapshot is linked to the old one, the wrong way
\* round; the index is one too large.
CommitReversed(p) ==
    LET new == Len(snapshots) + 1
    IN /\ job[p].at = "committing"
       /\ snapshots' = Append(snapshots, [Snapshot(p) EXCEPT !.supersededBy = job[p].base])
       /\ active' = new
       /\ job' = [job EXCEPT ![p].at = "reporting"]
       /\ UNCHANGED <<turns, readable, holder, call>>

CommitPastEnd(p) ==
    /\ job[p].at = "committing"
    /\ snapshots' = Append(snapshots, Snapshot(p))
    /\ active' = Len(snapshots) + 2
    /\ job' = [job EXCEPT ![p].at = "reporting"]
    /\ UNCHANGED <<turns, readable, holder, call>>

\* The snapshot, the link from the one that was active when the run read the
\* conversation, and the new active snapshot: one commit.
Commit(p) ==
    LET new == Len(snapshots) + 1
        linked == IF job[p].base = 0 THEN snapshots
                  ELSE [snapshots EXCEPT ![job[p].base].supersededBy = new]
    IN /\ job[p].at = "committing"
       /\ snapshots' = Append(linked, Snapshot(p))
       /\ active' = new
       /\ job' = [job EXCEPT ![p].at = "reporting"]
       /\ UNCHANGED <<turns, readable, holder, call>>

CommitFails(p) ==
    /\ job[p].at = "committing"
    /\ job' = [job EXCEPT ![p].at = "over"]
    /\ UNCHANGED <<turns, readable, snapshots, active, holder, call>>

Report(p) ==
    /\ job[p].at = "reporting"
    /\ job' = [job EXCEPT ![p].at = "over"]
    /\ UNCHANGED <<turns, readable, snapshots, active, holder, call>>

-----------------------------------------------------------------------------

CallStep(p) ==
    \/ Acquire(p)
    \/ RefuseBusy(p)
    \/ Refuse(p)
    \/ CompactNow(p)
    \/ Dispatch(p)
    \/ CallEnds(p)

RunStep(p) ==
    \/ StartJob(p)
    \/ Summarize(p)
    \/ NothingSummarized(p)
    \/ Commit(p)
    \/ CommitFails(p)
    \/ Report(p)

Others == AddTurn \/ AddNormalization

Next ==
    \/ \E p \in Calls : CallStep(p) \/ RunStep(p) \/ Interrupt(p)
    \/ Others

Spec == Init /\ [][Next]_vars

\* The event loops run; the calls of the compactor model have a timeout, and
\* so has a job.
FairSpec == Spec /\ \A p \in Calls : WF_vars(CallStep(p)) /\ WF_vars(RunStep(p))

-----------------------------------------------------------------------------

SnapshotType ==
    [at : 1..MaxTurns, covers : SUBSET (1..MaxTurns), skipped : SUBSET (1..MaxTurns),
     supersededBy : Nat]

JobType ==
    [at : {"none", "queued", "summarizing", "committing", "reporting", "over"},
     worker : BOOLEAN, tries : Nat, base : Nat, turns : 0..MaxTurns,
     listed : BOOLEAN, covers : SUBSET (1..MaxTurns), skipped : SUBSET (1..MaxTurns)]

TypeOK ==
    /\ turns \in 0..MaxTurns
    /\ readable \in BOOLEAN
    /\ snapshots \in Seq(SnapshotType)
    /\ active \in 0..Len(snapshots)
    /\ holder \in Calls \union {Nobody}
    /\ call \in [Calls -> {"arrived", "loading", "compacting", "over"}]
    /\ job \in [Calls -> JobType]

Linear ==
    /\ active = Len(snapshots)
    /\ \A i \in DOMAIN snapshots :
          snapshots[i].supersededBy = IF i = active THEN 0 ELSE i + 1

\* As long as no compaction was handed to the worker, the snapshots form one
\* chain, each superseded by the next and the last one active: the lock is held
\* from the reading of the active snapshot to the commit that supersedes it.
ChainIsLinear ==
    (\A p \in Calls : ~job[p].worker) => Linear

\* A turn that a snapshot holds is lost to the one that supersedes it only with a
\* chunk that could not be summarized: the run that supersedes a snapshot has
\* read that very snapshot, whatever was stored in the meantime.
ForgottenOnlyWithAChunk ==
    \A i \in DOMAIN snapshots :
        LET next == snapshots[snapshots[i].supersededBy]
        IN snapshots[i].supersededBy # 0 =>
               snapshots[i].covers \subseteq next.covers \union next.skipped

\* However the runs interleave and however often a job is started again, the
\* active snapshot is the newest and a superseded one points to a later one.
NewestIsActive ==
    /\ active = Len(snapshots)
    /\ \A i \in DOMAIN snapshots :
          snapshots[i].supersededBy # 0 =>
              snapshots[i].supersededBy \in (i + 1)..Len(snapshots)

\* A call that was let in comes out, and leaves the lock.
LockEventuallyFree == holder # Nobody ~> holder = Nobody

=============================================================================
