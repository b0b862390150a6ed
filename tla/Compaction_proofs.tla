-------------------------- MODULE Compaction_proofs --------------------------
(***************************************************************************)
(* Proofs about Compaction, for any number of calls, turns and tries.      *)
(* That supersession points forward and forgets nothing holds however the  *)
(* runs interleave; the snapshots form one chain as long as every run is   *)
(* inside its call, under the lock, and none is the worker's.              *)
(***************************************************************************)
EXTENDS Compaction, TLAPS

\* The places of a run that has read the conversation and may yet store.
Working == {"summarizing", "committing"}

\* A run that reads or has read the conversation does so when it has turns.
JobsHaveTurns ==
    \A p \in Calls :
        /\ job[p].at \in Working \union {"queued", "reporting"} => turns > 0
        /\ job[p].at \in Working => job[p].turns > 0

\* What a run holds or has skipped contains what the snapshot that it will
\* supersede holds.
BaseContained ==
    \A p \in Calls : job[p].at \in Working =>
        /\ job[p].at = "summarizing" => job[p].skipped = {}
        /\ job[p].base \in 0..Len(snapshots)
        /\ job[p].base # 0 =>
              snapshots[job[p].base].covers \subseteq job[p].covers \union job[p].skipped

IInv ==
    /\ TypeOK
    /\ JobsHaveTurns
    /\ BaseContained
    /\ NewestIsActive
    /\ ForgottenOnlyWithAChunk

-----------------------------------------------------------------------------
(* What the steps do to one run                                            *)

\* A run that only moves to another place.
LEMMA JobMoves ==
    ASSUME TypeOK, NEW p \in Calls,
           NEW place \in {"none", "queued", "summarizing", "committing", "reporting", "over"},
           job' = [job EXCEPT ![p].at = place]
    PROVE  /\ job' \in [Calls -> JobType]
           /\ \A q \in Calls \ {p} : job'[q] = job[q]
           /\ job'[p].at = place
           /\ job'[p].worker = job[p].worker
           /\ job'[p].turns = job[p].turns
           /\ job'[p].base = job[p].base
           /\ job'[p].covers = job[p].covers
           /\ job'[p].skipped = job[p].skipped
    BY DEF TypeOK, JobType

\* A run that has summarized some of its chunks.
LEMMA JobSummarizes ==
    ASSUME TypeOK, NEW p \in Calls, Summarize(p)
    PROVE  /\ job' \in [Calls -> JobType]
           /\ \A q \in Calls \ {p} : job'[q] = job[q]
           /\ job'[p].at = "committing"
           /\ job'[p].worker = job[p].worker
           /\ job'[p].turns = job[p].turns
           /\ job'[p].base = job[p].base
           /\ job[p].covers \subseteq job'[p].covers \union job'[p].skipped
<1>1. PICK kept \in SUBSET job[p].covers :
          job' = [job EXCEPT ![p] =
                     [@ EXCEPT !.at = "committing", !.covers = kept,
                               !.skipped = job[p].covers \ kept]]
      BY DEF Summarize
<1> DEFINE old == job[p]
           lost == old.covers \ kept
           one == [old EXCEPT !.at = "committing"]
           two == [one EXCEPT !.covers = kept]
           new == [two EXCEPT !.skipped = lost]
<1>2. /\ old \in JobType
      /\ kept \in SUBSET (1..MaxTurns) /\ lost \in SUBSET (1..MaxTurns)
      BY DEF TypeOK, JobType
<1>3. job' = [job EXCEPT ![p] = new]
      BY <1>1 DEF TypeOK
<1>4. old.covers \subseteq kept \union lost
      OBVIOUS
<1> HIDE DEF old, lost
<1>5. /\ one \in JobType /\ one.at = "committing"
      /\ one.worker = old.worker /\ one.turns = old.turns /\ one.base = old.base
      BY <1>2 DEF JobType
<1> HIDE DEF one
<1>6. /\ two \in JobType /\ two.at = "committing" /\ two.covers = kept
      /\ two.worker = old.worker /\ two.turns = old.turns /\ two.base = old.base
      BY <1>2, <1>5 DEF JobType
<1> HIDE DEF two
<1>7. /\ new \in JobType /\ new.at = "committing"
      /\ new.covers = kept /\ new.skipped = lost
      /\ new.worker = old.worker /\ new.turns = old.turns /\ new.base = old.base
      BY <1>2, <1>6 DEF JobType
<1> HIDE DEF new
<1>8. /\ job' \in [Calls -> JobType] /\ job'[p] = new
      /\ \A q \in Calls \ {p} : job'[q] = job[q]
      BY <1>3, <1>7 DEF TypeOK
<1> QED BY <1>4, <1>7, <1>8 DEF old

LEMMA HistoryType ==
    ASSUME TypeOK
    PROVE  /\ History \in SUBSET (1..MaxTurns)
           /\ active # 0 => snapshots[active].covers \subseteq History
<1>1. active # 0 => snapshots[active] \in SnapshotType
      BY DEF TypeOK
<1>2. active # 0 => snapshots[active].covers \in SUBSET (1..MaxTurns)
      BY <1>1 DEF SnapshotType
<1>3. 1..turns \subseteq 1..MaxTurns
      BY CompactionAssumption DEF TypeOK
<1> QED BY <1>2, <1>3 DEF History

\* A run that reads the conversation.
LEMMA JobLoads ==
    ASSUME TypeOK, NEW p \in Calls, Loaded(p, "summarizing")
    PROVE  /\ job' \in [Calls -> JobType]
           /\ \A q \in Calls \ {p} : job'[q] = job[q]
           /\ job'[p].at = "summarizing"
           /\ job'[p].worker = job[p].worker
           /\ job'[p].turns = turns
           /\ job'[p].base = active
           /\ job'[p].covers = History
           /\ job'[p].skipped = {}
<1> DEFINE r == [at |-> "summarizing", worker |-> job[p].worker,
                 tries |-> job[p].tries + 1, base |-> active,
                 turns |-> turns, listed |-> readable, covers |-> History,
                 skipped |-> {}]
<1>1. job' = [job EXCEPT ![p] = r]
      BY DEF Loaded
<1>2. r \in JobType
  <2>1. job[p].tries + 1 \in Nat
        BY DEF TypeOK, JobType
  <2> QED BY <2>1, HistoryType DEF TypeOK, JobType
<1> QED BY <1>1, <1>2 DEF TypeOK

\* A run that is handed to the worker.
LEMMA JobQueued ==
    ASSUME TypeOK, NEW p \in Calls, Dispatch(p)
    PROVE  /\ job' \in [Calls -> JobType]
           /\ \A q \in Calls \ {p} : job'[q] = job[q]
           /\ job'[p].at = "queued"
           /\ job'[p].worker
<1> DEFINE old == job[p]
           mid == [old EXCEPT !.at = "queued"]
           new == [mid EXCEPT !.worker = TRUE]
<1>1. job' = [job EXCEPT ![p] = new]
      BY DEF TypeOK, Dispatch
<1>2. mid \in JobType /\ mid.at = "queued"
      BY DEF TypeOK, JobType
<1>3. new \in JobType /\ new.at = "queued" /\ new.worker = TRUE
  <2> HIDE DEF mid
  <2> QED BY <1>2 DEF JobType
<1> HIDE DEF new
<1> QED BY <1>1, <1>3 DEF TypeOK

-----------------------------------------------------------------------------
(* The steps that store no snapshot                                        *)

\* A step that stores nothing and only moves one run, or none, forwards.
LEMMA QuietStep ==
    ASSUME IInv,
           UNCHANGED <<snapshots, active>>,
           turns' \in 0..MaxTurns, turns <= turns',
           readable' \in BOOLEAN,
           holder' \in Calls \union {Nobody},
           call' \in [Calls -> {"arrived", "loading", "compacting", "over"}],
           job' \in [Calls -> JobType],
           \A p \in Calls :
               \/ job'[p] = job[p]
               \/ job'[p].at = "over"
               \/ job'[p].at = "queued" /\ turns > 0
               \/ /\ job[p].at = "summarizing" /\ job'[p].at = "committing"
                  /\ job'[p].turns = job[p].turns
                  /\ job'[p].base = job[p].base
                  /\ job[p].covers \subseteq job'[p].covers \union job'[p].skipped
               \/ /\ job'[p].at = "summarizing"
                  /\ turns > 0
                  /\ job'[p].turns = turns
                  /\ job'[p].base = active
                  /\ job'[p].covers = History
                  /\ job'[p].skipped = {}
    PROVE  IInv'
<1> USE DEF IInv
<1>1. TypeOK'
      BY DEF TypeOK
<1>2. turns \in Nat /\ turns' \in Nat
      BY CompactionAssumption DEF TypeOK
<1>3. JobsHaveTurns'
  <2> SUFFICES ASSUME NEW p \in Calls
      PROVE  /\ job'[p].at \in Working \union {"queued", "reporting"} => turns' > 0
             /\ job'[p].at \in Working => job'[p].turns > 0
      BY DEF JobsHaveTurns, Working
  <2> QED BY <1>2 DEF JobsHaveTurns, Working
<1>4. BaseContained'
  <2> SUFFICES ASSUME NEW p \in Calls, job'[p].at \in Working
      PROVE  /\ job'[p].at = "summarizing" => job'[p].skipped = {}
             /\ job'[p].base \in 0..Len(snapshots)
             /\ job'[p].base # 0 =>
                   snapshots[job'[p].base].covers \subseteq job'[p].covers \union job'[p].skipped
      BY DEF BaseContained, Working
  <2>1. CASE /\ job'[p].at = "summarizing" /\ job'[p].skipped = {}
             /\ job'[p].base = active /\ job'[p].covers = History
        BY <2>1, HistoryType DEF TypeOK
  <2>2. CASE /\ job[p].at = "summarizing" /\ job'[p].at = "committing"
             /\ job'[p].base = job[p].base
             /\ job[p].covers \subseteq job'[p].covers \union job'[p].skipped
        BY <2>2 DEF BaseContained, Working
  <2>3. CASE job'[p] = job[p]
        BY <2>3 DEF BaseContained
  <2> QED BY <2>1, <2>2, <2>3 DEF Working
<1>5. NewestIsActive' /\ ForgottenOnlyWithAChunk'
      BY DEF NewestIsActive, ForgottenOnlyWithAChunk
<1> QED BY <1>1, <1>3, <1>4, <1>5

\* The invariant is kept by the HTTP calls.
LEMMA CallKeeps ==
    ASSUME IInv, NEW p \in Calls, CallStep(p)
    PROVE  IInv'
<1> USE DEF IInv
<1>0. /\ turns' = turns /\ turns \in Nat
      /\ holder' \in Calls \union {Nobody}
      /\ call' \in [Calls -> {"arrived", "loading", "compacting", "over"}]
      /\ UNCHANGED <<snapshots, active, readable>>
  <2>1. turns \in Nat
        BY CompactionAssumption DEF TypeOK
  <2>2. /\ UNCHANGED <<turns, snapshots, active, readable>>
        /\ holder' \in {p, Nobody, holder}
        /\ \/ call' = [call EXCEPT ![p] = "loading"]
           \/ call' = [call EXCEPT ![p] = "compacting"]
           \/ call' = [call EXCEPT ![p] = "over"]
        BY DEF CallStep, Acquire, RefuseBusy, Refuse, CompactNow, Dispatch, CallEnds, Leave
  <2> QED BY <2>1, <2>2 DEF TypeOK
<1>1. CASE UNCHANGED job
      BY <1>0, <1>1, QuietStep DEF TypeOK
<1>2. CASE CompactNow(p)
  <2>1. Loaded(p, "summarizing") /\ turns > 0
        BY <1>2 DEF CompactNow
  <2> QED BY <1>0, <2>1, JobLoads, QuietStep DEF TypeOK
<1>3. CASE Dispatch(p)
  <2>1. turns > 0
        BY <1>3 DEF Dispatch
  <2>2. /\ job' \in [Calls -> JobType]
        /\ \A q \in Calls \ {p} : job'[q] = job[q]
        /\ job'[p].at = "queued"
        BY <1>3, JobQueued
  <2> QED BY <1>0, <2>1, <2>2, QuietStep DEF TypeOK
<1> QED
    BY <1>1, <1>2, <1>3 DEF CallStep, Acquire, RefuseBusy, Refuse, CallEnds

\* The invariant is kept by everything of a run but its commit.
LEMMA RunKeeps ==
    ASSUME IInv, NEW p \in Calls, RunStep(p) \/ Interrupt(p), ~Commit(p)
    PROVE  IInv'
<1> USE DEF IInv
<1>0. /\ turns' = turns /\ turns \in Nat
      /\ UNCHANGED <<snapshots, active, readable, holder, call>>
  <2>1. UNCHANGED <<turns, snapshots, active, readable, holder, call>>
        BY Zenon
        DEF RunStep, StartJob, Summarize, NothingSummarized, CommitFails, Report, Interrupt
  <2>2. turns \in Nat
        BY CompactionAssumption DEF TypeOK
  <2> QED BY <2>1, <2>2
<1>1. CASE StartJob(p)
  <2>1. Loaded(p, "summarizing") /\ turns > 0
        BY <1>1 DEF StartJob, JobsHaveTurns
  <2> QED BY <1>0, <2>1, JobLoads, QuietStep DEF TypeOK
<1>2. CASE Summarize(p)
  <2>1. job[p].at = "summarizing"
        BY <1>2 DEF Summarize
  <2>2. /\ job' \in [Calls -> JobType]
        /\ \A q \in Calls \ {p} : job'[q] = job[q]
        /\ job'[p].at = "committing"
        /\ job'[p].turns = job[p].turns
        /\ job'[p].base = job[p].base
        /\ job[p].covers \subseteq job'[p].covers \union job'[p].skipped
        BY <1>2, JobSummarizes
  <2> QED BY <1>0, <2>1, <2>2, QuietStep DEF TypeOK
<1>3. CASE NothingSummarized(p) \/ CommitFails(p) \/ Report(p)
  <2>1. job' = [job EXCEPT ![p].at = "over"]
        BY <1>3 DEF NothingSummarized, CommitFails, Report
  <2>2. /\ job' \in [Calls -> JobType]
        /\ \A q \in Calls \ {p} : job'[q] = job[q]
        /\ job'[p].at = "over"
        BY <2>1, JobMoves
  <2> QED BY <1>0, <2>2, QuietStep DEF TypeOK
<1>4. CASE Interrupt(p)
  <2>1. turns > 0
        BY <1>4 DEF Interrupt, JobsHaveTurns, Working
  <2>2. PICK place \in {"queued", "over"} : job' = [job EXCEPT ![p].at = place]
        BY <1>4 DEF Interrupt
  <2>3. /\ job' \in [Calls -> JobType]
        /\ \A q \in Calls \ {p} : job'[q] = job[q]
        /\ job'[p].at = place
        BY <2>2, JobMoves
  <2> QED BY <1>0, <2>1, <2>2, <2>3, QuietStep DEF TypeOK
<1> QED BY <1>1, <1>2, <1>3, <1>4 DEF RunStep

-----------------------------------------------------------------------------
(* The commit                                                              *)

\* What the link changes in the snapshot that it is written into.
LEMMA Superseded ==
    ASSUME NEW old \in SnapshotType, NEW k \in Nat
    PROVE  /\ [old EXCEPT !.supersededBy = k] \in SnapshotType
           /\ [old EXCEPT !.supersededBy = k].covers = old.covers
           /\ [old EXCEPT !.supersededBy = k].skipped = old.skipped
           /\ [old EXCEPT !.supersededBy = k].supersededBy = k
    BY DEF SnapshotType

\* What Commit does to the snapshots: one is added at the end, and the one
\* that was active when the run read the conversation points to it.
LEMMA CommitEffect ==
    ASSUME IInv, NEW p \in Calls, Commit(p)
    PROVE  /\ Len(snapshots) \in Nat
           /\ snapshots' \in Seq(SnapshotType)
           /\ Len(snapshots') = Len(snapshots) + 1
           /\ \A i \in 1..Len(snapshots) :
                 /\ snapshots'[i].covers = snapshots[i].covers
                 /\ snapshots'[i].skipped = snapshots[i].skipped
                 /\ snapshots'[i].supersededBy =
                       IF i = job[p].base THEN Len(snapshots) + 1
                       ELSE snapshots[i].supersededBy
           /\ snapshots'[Len(snapshots) + 1].covers = job[p].covers
           /\ snapshots'[Len(snapshots) + 1].skipped = job[p].skipped
           /\ snapshots'[Len(snapshots) + 1].supersededBy = 0
<1> DEFINE n == Len(snapshots)
           base == job[p].base
           linked == IF base = 0 THEN snapshots
                     ELSE [snapshots EXCEPT ![base].supersededBy = n + 1]
<1>1. /\ n \in Nat /\ snapshots \in Seq(SnapshotType)
      /\ job[p].at = "committing" /\ job[p] \in JobType
      /\ snapshots' = Append(linked, Snapshot(p))
      BY DEF IInv, TypeOK, Commit
<1>2. base \in 0..n /\ job[p].turns \in 1..MaxTurns
  <2>1. base \in 0..n /\ job[p].turns > 0
        BY <1>1 DEF IInv, JobsHaveTurns, BaseContained, Working
  <2> QED BY <1>1, <2>1, CompactionAssumption DEF JobType
<1>3. /\ Snapshot(p) \in SnapshotType
      /\ Snapshot(p).covers = job[p].covers
      /\ Snapshot(p).skipped = job[p].skipped
      /\ Snapshot(p).supersededBy = 0
      BY <1>1, <1>2 DEF Snapshot, SnapshotType, JobType
<1>4. /\ linked \in Seq(SnapshotType)
      /\ Len(linked) = n
      /\ \A i \in 1..n :
            /\ linked[i].covers = snapshots[i].covers
            /\ linked[i].skipped = snapshots[i].skipped
            /\ linked[i].supersededBy = IF i = base THEN n + 1 ELSE snapshots[i].supersededBy
  <2>1. CASE base = 0
        BY <1>1, <2>1
  <2>2. CASE base # 0
    <3> DEFINE s == [snapshots[base] EXCEPT !.supersededBy = n + 1]
    <3>1. base \in 1..n /\ snapshots[base] \in SnapshotType
          BY <1>1, <1>2, <2>2
    <3>2. /\ s \in SnapshotType
          /\ s.covers = snapshots[base].covers
          /\ s.skipped = snapshots[base].skipped
          /\ s.supersededBy = n + 1
          BY <1>1, <3>1, Superseded, n + 1 \in Nat
    <3>3. linked = [snapshots EXCEPT ![base] = s]
          BY <2>2, <3>1
    <3> HIDE DEF s, linked
    <3> QED BY <1>1, <3>1, <3>2, <3>3
  <2> QED BY <2>1, <2>2
<1> HIDE DEF linked
<1> QED BY <1>1, <1>3, <1>4

LEMMA CommitKeeps ==
    ASSUME IInv, NEW p \in Calls, Commit(p)
    PROVE  IInv'
<1> DEFINE n == Len(snapshots)
<1>1. /\ n \in Nat
      /\ snapshots' \in Seq(SnapshotType)
      /\ Len(snapshots') = n + 1
      /\ DOMAIN snapshots' = 1..(n + 1)
      /\ \A i \in 1..n :
            /\ snapshots'[i].covers = snapshots[i].covers
            /\ snapshots'[i].skipped = snapshots[i].skipped
            /\ snapshots'[i].supersededBy =
                  IF i = job[p].base THEN n + 1 ELSE snapshots[i].supersededBy
      /\ snapshots'[n + 1].covers = job[p].covers
      /\ snapshots'[n + 1].skipped = job[p].skipped
      /\ snapshots'[n + 1].supersededBy = 0
      BY CommitEffect
<1>2. /\ active' = n + 1
      /\ UNCHANGED <<turns, readable, holder, call>>
      BY DEF Commit
<1>3. /\ job' \in [Calls -> JobType]
      /\ \A q \in Calls \ {p} : job'[q] = job[q]
      /\ job'[p].at = "reporting"
      /\ job[p].at = "committing"
      BY JobMoves DEF Commit, IInv
<1>4. /\ job[p].base \in 0..n
      /\ job[p].base # 0 =>
            snapshots[job[p].base].covers \subseteq job[p].covers \union job[p].skipped
      BY <1>3 DEF IInv, BaseContained, Working
<1>5. /\ active = n
      /\ \A i \in 1..n : snapshots[i].supersededBy # 0 =>
            /\ snapshots[i].supersededBy \in (i + 1)..n
            /\ snapshots[i].covers
                  \subseteq snapshots[snapshots[i].supersededBy].covers
                               \union snapshots[snapshots[i].supersededBy].skipped
      BY DEF IInv, TypeOK, NewestIsActive, ForgottenOnlyWithAChunk
<1>6. TypeOK'
      BY <1>1, <1>2, <1>3 DEF IInv, TypeOK
<1>7. JobsHaveTurns'
      BY <1>2, <1>3 DEF IInv, JobsHaveTurns, Working
<1>8. BaseContained'
  <2> SUFFICES ASSUME NEW q \in Calls, job'[q].at \in Working
      PROVE  /\ job'[q].at = "summarizing" => job'[q].skipped = {}
             /\ job'[q].base \in 0..Len(snapshots')
             /\ job'[q].base # 0 =>
                   snapshots'[job'[q].base].covers \subseteq job'[q].covers \union job'[q].skipped
      BY DEF BaseContained, Working
  <2>1. q # p /\ job'[q] = job[q]
        BY <1>3 DEF Working
  <2>2. /\ job[q].at = "summarizing" => job[q].skipped = {}
        /\ job[q].base \in 0..n
        /\ job[q].base # 0 =>
              snapshots[job[q].base].covers \subseteq job[q].covers \union job[q].skipped
        BY <2>1 DEF IInv, BaseContained
  <2> QED BY <1>1, <2>1, <2>2
<1>9. NewestIsActive'
      BY <1>1, <1>2, <1>5 DEF NewestIsActive
<1>10. ForgottenOnlyWithAChunk'
  <2> SUFFICES ASSUME NEW i \in 1..(n + 1), snapshots'[i].supersededBy # 0
      PROVE  snapshots'[i].covers
                 \subseteq snapshots'[snapshots'[i].supersededBy].covers
                              \union snapshots'[snapshots'[i].supersededBy].skipped
      BY <1>1 DEF ForgottenOnlyWithAChunk
  <2>1. i \in 1..n
        BY <1>1
  <2>2. CASE i = job[p].base
        BY <1>1, <1>4, <2>1, <2>2
  <2>3. CASE i # job[p].base
    <3>1. snapshots'[i].supersededBy = snapshots[i].supersededBy
          BY <1>1, <2>1, <2>3
    <3>2. snapshots[i].supersededBy \in 1..n
          BY <1>5, <2>1, <3>1
    <3> QED BY <1>1, <1>5, <2>1, <3>1, <3>2
  <2> QED BY <2>2, <2>3
<1> QED BY <1>6, <1>7, <1>8, <1>9, <1>10 DEF IInv

-----------------------------------------------------------------------------
(* However the runs interleave                                             *)

LEMMA IInvInit == Init => IInv
<1> SUFFICES ASSUME Init PROVE IInv
    OBVIOUS
<1>1. snapshots = <<>> /\ Len(snapshots) = 0 /\ DOMAIN snapshots = {}
      BY DEF Init
<1>2. NoJob \in JobType
      BY CompactionAssumption DEF NoJob, JobType
<1>3. TypeOK
      BY <1>1, <1>2, CompactionAssumption DEF Init, TypeOK
<1>4. JobsHaveTurns /\ BaseContained
      BY DEF Init, NoJob, JobsHaveTurns, BaseContained, Working
<1>5. NewestIsActive /\ ForgottenOnlyWithAChunk
      BY <1>1 DEF Init, NewestIsActive, ForgottenOnlyWithAChunk
<1> QED BY <1>3, <1>4, <1>5 DEF IInv

LEMMA IInvStep == IInv /\ [Next]_vars => IInv'
<1> SUFFICES ASSUME IInv, [Next]_vars PROVE IInv'
    OBVIOUS
<1>1. ASSUME NEW p \in Calls, CallStep(p) \/ RunStep(p) \/ Interrupt(p) PROVE IInv'
      BY <1>1, CallKeeps, RunKeeps, CommitKeeps
<1>2. CASE Others
  <2>0. turns \in Nat /\ MaxTurns \in Nat
        BY CompactionAssumption DEF IInv, TypeOK
  <2>1. /\ turns' = turns + 1 /\ turns' \in 0..MaxTurns
        /\ readable' \in BOOLEAN
        /\ UNCHANGED <<snapshots, active, holder, call, job>>
    <3>1. CASE AddTurn
          BY <2>0, <3>1 DEF AddTurn
    <3>2. CASE AddNormalization
      <4>1. readable' \in BOOLEAN
            BY <3>2, Zenon DEF AddNormalization
      <4>2. turns' = turns + 1 /\ turns < MaxTurns
            BY <3>2 DEF AddNormalization
      <4>3. UNCHANGED <<snapshots, active, holder, call, job>>
            BY <3>2, Zenon DEF AddNormalization
      <4> QED BY <2>0, <4>1, <4>2, <4>3
    <3> QED BY <1>2, <3>1, <3>2 DEF Others
  <2>2. /\ turns <= turns' /\ holder' \in Calls \union {Nobody}
        /\ call' \in [Calls -> {"arrived", "loading", "compacting", "over"}]
        /\ job' \in [Calls -> JobType]
        BY <2>0, <2>1 DEF IInv, TypeOK
  <2> QED BY <2>1, <2>2, QuietStep
<1>3. CASE UNCHANGED vars
      BY <1>3, QuietStep, CompactionAssumption DEF vars, IInv, TypeOK
<1> QED BY <1>1, <1>2, <1>3 DEF Next

\* The snapshots, the calls and the runs keep their types.
THEOREM TypeCorrect == Spec => []TypeOK
<1>1. IInv => TypeOK
      BY DEF IInv
<1> QED BY <1>1, IInvInit, IInvStep, PTL DEF Spec

\* The snapshot stored last is the active one and supersession points to later
\* snapshots, with any number of runs outside the lock and any restarts.
THEOREM NewestSnapshotIsActive == Spec => []NewestIsActive
<1>1. IInv => NewestIsActive
      BY DEF IInv
<1> QED BY <1>1, IInvInit, IInvStep, PTL DEF Spec

\* What a superseded snapshot covers, its successor covers as well or has skipped
\* with a chunk that failed, with any number of runs at once.
THEOREM TurnsAreForgottenOnlyWithAChunk == Spec => []ForgottenOnlyWithAChunk
<1>1. IInv => ForgottenOnlyWithAChunk
      BY DEF IInv
<1> QED BY <1>1, IInvInit, IInvStep, PTL DEF Spec

-----------------------------------------------------------------------------
(* As long as every run is inside its call, under the lock                 *)

NoWorker == \A p \in Calls : ~job[p].worker

\* Whoever is between Acquire and Leave holds the lock, and no other.
LockExclusive ==
    \A p \in Calls : call[p] \in {"loading", "compacting"} <=> holder = p

\* A run is under way only inside its call, and what it read is current.
RunsInside ==
    \A p \in Calls :
        /\ job[p].at # "queued"
        /\ job[p].at \in Working \union {"reporting"} => call[p] = "compacting"
        /\ job[p].at \in Working => job[p].base = active

Serial == LockExclusive /\ RunsInside /\ Linear

SerialInv == IInv /\ (NoWorker => Serial)

\* A run that has been handed to the worker stays the worker's.
LEMMA WorkerStays ==
    ASSUME IInv, [Next]_vars, NoWorker'
    PROVE  NoWorker
<1> SUFFICES ASSUME NEW p \in Calls PROVE job'[p].worker = job[p].worker
    BY DEF NoWorker
<1>1. ASSUME NEW q \in Calls, CallStep(q) \/ RunStep(q) \/ Interrupt(q)
      PROVE  job'[p].worker = job[p].worker
  <2>1. ~Dispatch(q)
        BY JobQueued DEF NoWorker, IInv
  <2>2. CASE \E place \in {"queued", "committing", "reporting", "over"} :
                 job' = [job EXCEPT ![q].at = place]
        BY <2>2, JobMoves DEF IInv
  <2>3. CASE Loaded(q, "summarizing")
        BY <2>3, JobLoads DEF IInv
  <2>7. CASE Summarize(q)
        BY <2>7, JobSummarizes DEF IInv
  <2>4. CASE UNCHANGED job
        BY <2>4
  <2>5. CASE CallStep(q)
        BY <2>1, <2>3, <2>4, <2>5
        DEF CallStep, Acquire, RefuseBusy, Refuse, CompactNow, CallEnds
  <2>6. CASE RunStep(q) \/ Interrupt(q)
        BY <2>2, <2>3, <2>6, <2>7
        DEF RunStep, StartJob, NothingSummarized, Commit, CommitFails, Report, Interrupt
  <2> QED BY <1>1, <2>5, <2>6
<1>2. CASE Others \/ UNCHANGED vars
      BY <1>2 DEF Others, AddTurn, AddNormalization, vars
<1> QED BY <1>1, <1>2 DEF Next

LEMMA SerialRunStep ==
    ASSUME IInv, NoWorker, Serial, NEW p \in Calls, RunStep(p) \/ Interrupt(p)
    PROVE  Serial'
<1> USE DEF Serial
<1>1. UNCHANGED <<call, holder>> /\ \A q \in Calls \ {p} : job'[q] = job[q]
  <2>1. UNCHANGED <<call, holder>>
        BY DEF RunStep, StartJob, Summarize, NothingSummarized, Commit, CommitFails, Report,
               Interrupt
  <2>2. CASE Summarize(p)
        BY <2>1, <2>2, JobSummarizes DEF IInv
  <2>3. CASE ~Summarize(p)
        BY <2>1, <2>3, JobMoves, JobLoads
        DEF RunStep, StartJob, NothingSummarized, Commit, CommitFails, Report,
            Interrupt, IInv, Loaded, TypeOK
  <2> QED BY <2>2, <2>3
<1>2. LockExclusive'
      BY <1>1 DEF LockExclusive
<1>3. ~StartJob(p) /\ ~Interrupt(p)
      BY DEF StartJob, Interrupt, NoWorker, RunsInside
<1>4. CASE Commit(p)
  <2> DEFINE n == Len(snapshots)
  <2>1. /\ n \in Nat
        /\ Len(snapshots') = n + 1
        /\ DOMAIN snapshots' = 1..(n + 1)
        /\ \A i \in 1..n : snapshots'[i].supersededBy =
              IF i = job[p].base THEN n + 1 ELSE snapshots[i].supersededBy
        /\ snapshots'[n + 1].supersededBy = 0
        BY <1>4, CommitEffect
  <2>2. /\ job[p].at = "committing" /\ job[p].base = active /\ call[p] = "compacting"
        /\ active' = n + 1
        BY <1>4 DEF Commit, RunsInside, Working
  <2>3. active = n /\ \A i \in 1..n :
              snapshots[i].supersededBy = IF i = n THEN 0 ELSE i + 1
        BY DEF Linear, IInv, TypeOK
  <2>4. Linear'
        BY <2>1, <2>2, <2>3 DEF Linear
  <2>5. job'[p].at = "reporting"
        BY <1>4, JobMoves DEF Commit, IInv
  <2>6. ASSUME NEW q \in Calls \ {p} PROVE job[q].at \notin Working \union {"reporting"}
        BY <2>2 DEF RunsInside, LockExclusive
  <2>7. RunsInside'
        BY <1>1, <2>2, <2>5, <2>6 DEF RunsInside, Working
  <2> QED BY <1>2, <2>4, <2>7
<1>5. CASE Summarize(p)
  <2>1. /\ job[p].at = "summarizing" /\ UNCHANGED <<snapshots, active>>
        /\ job'[p].at = "committing" /\ job'[p].base = job[p].base
        BY <1>5, JobSummarizes DEF Summarize, IInv
  <2> QED BY <1>1, <1>2, <2>1 DEF RunsInside, Linear, Working
<1>6. CASE NothingSummarized(p) \/ CommitFails(p) \/ Report(p)
  <2>1. job' = [job EXCEPT ![p].at = "over"] /\ UNCHANGED <<snapshots, active>>
        BY <1>6 DEF NothingSummarized, CommitFails, Report
  <2>2. job'[p].at = "over"
        BY <2>1, JobMoves DEF IInv
  <2> QED BY <1>1, <1>2, <2>1, <2>2 DEF RunsInside, Linear, Working
<1> QED BY <1>3, <1>4, <1>5, <1>6 DEF RunStep

LEMMA SerialCallStep ==
    ASSUME IInv, NoWorker', Serial, NEW p \in Calls, CallStep(p)
    PROVE  Serial'
<1> USE DEF Serial
<1>0. UNCHANGED <<snapshots, active>> /\ \A q \in Calls \ {p} : call'[q] = call[q]
      BY DEF CallStep, Acquire, RefuseBusy, Refuse, CompactNow, Dispatch, CallEnds, Leave,
             IInv, TypeOK
<1>1. Linear'
      BY <1>0 DEF Linear
<1>2. ~Dispatch(p)
      BY JobQueued DEF NoWorker, IInv
<1>3. CASE Acquire(p)
  <2>1. /\ call'[p] = "loading" /\ holder' = p /\ holder = Nobody
        /\ call[p] = "arrived" /\ UNCHANGED job
        BY <1>3 DEF Acquire, IInv, TypeOK
  <2>2. LockExclusive'
        BY <1>0, <2>1, CompactionAssumption DEF LockExclusive
  <2> QED BY <1>0, <1>1, <2>1, <2>2 DEF RunsInside, Working
<1>4. CASE RefuseBusy(p)
  <2>1. call'[p] = "over" /\ call[p] = "arrived" /\ UNCHANGED <<holder, job>>
        BY <1>4 DEF RefuseBusy, IInv, TypeOK
  <2> QED BY <1>0, <1>1, <2>1 DEF RunsInside, LockExclusive, Working
<1>5. CASE Refuse(p) \/ CallEnds(p)
  <2>1. /\ call'[p] = "over" /\ call[p] \in {"loading", "compacting"}
        /\ holder' = Nobody /\ UNCHANGED job
        /\ job[p].at \notin Working \union {"reporting"}
        BY <1>5 DEF Refuse, CallEnds, Leave, IInv, TypeOK, RunsInside, Working
  <2>2. holder = p
        BY <2>1 DEF LockExclusive
  <2> QED BY <1>0, <1>1, <2>1, <2>2, CompactionAssumption DEF RunsInside, LockExclusive, Working
<1>6. CASE CompactNow(p)
  <2>1. /\ call'[p] = "compacting" /\ call[p] = "loading" /\ UNCHANGED holder
        /\ Loaded(p, "summarizing")
        BY <1>6 DEF CompactNow, IInv, TypeOK
  <2>2. /\ \A q \in Calls \ {p} : job'[q] = job[q]
        /\ job'[p].at = "summarizing" /\ job'[p].base = active
        BY <2>1, JobLoads DEF IInv
  <2> QED BY <1>0, <1>1, <2>1, <2>2 DEF RunsInside, LockExclusive, Working
<1> QED BY <1>2, <1>3, <1>4, <1>5, <1>6 DEF CallStep

\* As long as every history is summarized inside its call, the lock keeps the
\* snapshots in one chain whose last element is the active one.
THEOREM ChainStaysLinear == Spec => []ChainIsLinear
<1>1. Init => SerialInv
  <2> SUFFICES ASSUME Init PROVE SerialInv
      OBVIOUS
  <2>1. IInv
        BY IInvInit
  <2>2. LockExclusive
        BY CompactionAssumption DEF Init, LockExclusive
  <2>3. RunsInside
        BY DEF Init, NoJob, RunsInside, Working
  <2>4. Linear
    <3>1. snapshots = <<>> /\ Len(snapshots) = 0 /\ DOMAIN snapshots = {} /\ active = 0
          BY DEF Init
    <3> QED BY <3>1 DEF Linear
  <2> QED BY <2>1, <2>2, <2>3, <2>4 DEF SerialInv, Serial
<1>2. SerialInv /\ [Next]_vars => SerialInv'
  <2> SUFFICES ASSUME SerialInv, [Next]_vars PROVE SerialInv'
      OBVIOUS
  <2>1. IInv /\ IInv'
        BY IInvStep DEF SerialInv
  <2>2. SUFFICES ASSUME NoWorker' PROVE Serial'
        BY <2>1 DEF SerialInv
  <2>3. NoWorker /\ Serial
        BY <2>1, <2>2, WorkerStays DEF SerialInv
  <2>4. CASE \E p \in Calls : CallStep(p) \/ RunStep(p) \/ Interrupt(p)
        BY <2>1, <2>2, <2>3, <2>4, SerialCallStep, SerialRunStep
  <2>5. CASE Others \/ UNCHANGED vars
    <3>1. UNCHANGED <<snapshots, active, holder, call, job>>
          BY <2>5 DEF Others, AddTurn, AddNormalization, vars
    <3> QED
        BY <2>3, <3>1 DEF Serial, LockExclusive, RunsInside, Linear, Working
  <2> QED BY <2>4, <2>5 DEF Next
<1>3. SerialInv => ChainIsLinear
      BY DEF SerialInv, Serial, NoWorker, ChainIsLinear
<1> QED BY <1>1, <1>2, <1>3, PTL DEF Spec

=============================================================================
