--------------------------- MODULE StreamTurn_proofs ---------------------------
(***************************************************************************)
(* Proofs about StreamTurn, for any chain of models, any of them selected  *)
(* or answering, and streams of any length: what is stored is what was     *)
(* sent, and the client sees a stream of EventStream.                      *)
(***************************************************************************)
EXTENDS StreamTurn, FiniteSetTheorems, TLAPS

Turns == [text : Seq(1..Models), calls : SUBSET (1..Models), model : 0..Models,
          state : {"absent", "failed", "counted", "uncounted"}]

Evts == [kind : Kinds, by : 1..Models]

\* The positions in the stream of the pieces sent up to event i.
PiecesUpTo(i) == {j \in Sent("text") : j <= i}

Accumulates(t) ==
    /\ Len(t) = Cardinality(Sent("text"))
    /\ \A i \in Sent("text") : t[Cardinality(PiecesUpTo(i))] = sent[i].by

LastEvent == sent[Len(sent)]

\* The last event tells where the generator stands.
PhaseInv ==
    /\ phase \in {"setup", "accepted"} => sent = <<>>
    /\ phase = "setup" => calls = {} /\ named \in Selected
    /\ phase = "streaming" => Events!Open
    /\ phase = "continuing" => Events!Open /\ current < Models
    /\ phase = "metadata" =>
           Events!LastKind \in Events!Deltas \union Events!Finishes \union {"open"}
    /\ phase \in {"persisting", "ending"} => Events!LastKind = "meta"
    /\ Events!LastKind = "meta" => LastEvent.by = playing

\* The name of the turn is that of the model that plays, or still that of the
\* selected one, and then no other model has played yet.
NamedInv ==
    named # playing =>
        named \in Selected /\ \A i \in DOMAIN sent : sent[i].by = playing

UsageCounted == usage = "in_finish" /\ finish # "none" => counted

UsageInv == phase \in {"continuing", "metadata", "persisting"} => UsageCounted

StoredInv ==
    /\ stored.state # "absent" => phase \in {"ending", "ended"}
    /\ phase = "ending" => stored.state # "absent"
    /\ Stored =>
           /\ stored.text = text
           /\ stored.calls = calls
           /\ stored.model = named
           /\ stored.state = "counted" <=> counted
           /\ UsageCounted
           /\ sent # <<>>
           /\ LastEvent.by = playing

IInv ==
    /\ TypeOK
    /\ Accumulates(text)
    /\ calls \subseteq {playing}
    /\ PhaseInv
    /\ NamedInv
    /\ UsageInv
    /\ StoredInv

-----------------------------------------------------------------------------
(* The events                                                              *)

LEMMA SentEvent ==
    ASSUME TypeOK, NEW kind \in Kinds, Send(kind)
    PROVE  /\ sent' \in Seq(Evts)
           /\ Len(sent') = Len(sent) + 1
           /\ DOMAIN sent' = 1..(Len(sent) + 1)
           /\ \A i \in 1..Len(sent) : sent'[i] = sent[i]
           /\ sent'[Len(sent')] = Event(kind)
           /\ sent' # <<>>
           /\ Events!LastKind' = kind
           /\ SubSeq(sent', 1, Len(sent)) = sent
<1>1. sent \in Seq(Evts) /\ Event(kind) \in Evts
      BY DEF TypeOK, Event, Evts
<1>2. sent' = Append(sent, Event(kind))
      BY DEF Send
<1>3. /\ sent' \in Seq(Evts)
      /\ Len(sent') = Len(sent) + 1
      /\ DOMAIN sent' = 1..(Len(sent) + 1)
      /\ \A i \in 1..Len(sent) : sent'[i] = sent[i]
      /\ sent'[Len(sent')] = Event(kind)
      /\ sent' # <<>>
      BY <1>1, <1>2
<1>4. Events!LastKind' = kind
      BY <1>3 DEF Events!LastKind, Event
<1>5. SubSeq(sent', 1, Len(sent)) = sent
      BY <1>1, <1>3
<1> QED BY <1>3, <1>4, <1>5

LEMMA SentFinite ==
    ASSUME TypeOK
    PROVE  /\ IsFiniteSet(Sent("text"))
           /\ Sent("text") \subseteq 1..Len(sent)
           /\ \A i : IsFiniteSet(PiecesUpTo(i))
<1>1. Sent("text") \subseteq 1..Len(sent) /\ Len(sent) \in Nat
      BY DEF TypeOK, Sent
<1>2. IsFiniteSet(1..Len(sent))
      BY <1>1, FS_Interval
<1>3. \A i : PiecesUpTo(i) \subseteq Sent("text")
      BY DEF PiecesUpTo
<1>4. IsFiniteSet(Sent("text"))
      BY <1>1, <1>2, FS_Subset
<1> QED BY <1>1, <1>3, <1>4, FS_Subset

\* An event that carries no text leaves the accumulated text as it is.
LEMMA OtherEvent ==
    ASSUME TypeOK, NEW kind \in Kinds \ {"text"}, Send(kind), Accumulates(text),
           UNCHANGED text
    PROVE  Accumulates(text)'
<1>1. /\ DOMAIN sent = 1..Len(sent) /\ DOMAIN sent' = 1..(Len(sent) + 1)
      /\ \A i \in 1..Len(sent) : sent'[i] = sent[i]
      /\ sent'[Len(sent) + 1].kind # "text" /\ Len(sent) \in Nat
  <2>1. Len(sent) \in Nat /\ DOMAIN sent = 1..Len(sent)
        BY DEF TypeOK
  <2>2. sent'[Len(sent) + 1] = Event(kind)
        BY <2>1, SentEvent
  <2> QED BY <2>1, <2>2, SentEvent DEF Event
<1>2. Sent("text")' = Sent("text")
  <2>1. \A i : i \in 1..(Len(sent) + 1) <=> i \in 1..Len(sent) \/ i = Len(sent) + 1
        BY <1>1
  <2> QED BY <1>1, <2>1 DEF Sent
<1>3. \A i : PiecesUpTo(i)' = PiecesUpTo(i)
      BY <1>2 DEF PiecesUpTo
<1>4. \A i \in Sent("text") : sent'[i] = sent[i]
      BY <1>1 DEF Sent
<1> QED BY <1>2, <1>3, <1>4 DEF Accumulates

\* A text event and the piece it carries stay together.
LEMMA TextEvent ==
    ASSUME TypeOK, Send("text"), Accumulates(text), text' = Append(text, playing)
    PROVE  Accumulates(text)'
<1>0. PICK n \in Nat : n = Len(sent) + 1
      BY DEF TypeOK
<1>1. /\ DOMAIN sent = 1..Len(sent) /\ DOMAIN sent' = 1..n
      /\ \A i \in 1..Len(sent) : sent'[i] = sent[i]
      /\ sent'[n] = Event("text") /\ Len(sent) \in Nat
      BY <1>0, SentEvent DEF TypeOK, Kinds
<1>2. Sent("text")' = Sent("text") \union {n} /\ n \notin Sent("text")
  <2>1. \A i : i \in 1..n <=> i \in 1..Len(sent) \/ i = n
        BY <1>0, <1>1
  <2>2. n \notin 1..Len(sent)
        BY <1>0, <1>1
  <2> QED BY <1>1, <2>1, <2>2 DEF Sent, Event
<1>3. Cardinality(Sent("text")') = Cardinality(Sent("text")) + 1
      BY <1>2, SentFinite, FS_AddElement
<1>4. Len(text) \in Nat /\ Len(text') = Len(text) + 1
      /\ text'[Len(text) + 1] = playing
      /\ \A k \in 1..Len(text) : text'[k] = text[k]
      BY DEF TypeOK
<1>5. ASSUME NEW i \in Sent("text")
      PROVE  text'[Cardinality(PiecesUpTo(i)')] = sent'[i].by
  <2>1. i \in 1..Len(sent) /\ sent'[i] = sent[i]
        BY <1>1, <1>5 DEF Sent
  <2>2. PiecesUpTo(i)' = PiecesUpTo(i)
        BY <1>0, <1>1, <1>2, <2>1 DEF PiecesUpTo
  <2>3. Cardinality(PiecesUpTo(i)) \in 1..Len(text)
    <3>1. PiecesUpTo(i) \subseteq Sent("text") /\ i \in PiecesUpTo(i)
          BY <1>5, <2>1 DEF PiecesUpTo
    <3>2. /\ Cardinality(PiecesUpTo(i)) \in Nat
          /\ Cardinality(PiecesUpTo(i)) <= Cardinality(Sent("text"))
          BY <3>1, SentFinite, FS_Subset, FS_CardinalityType
    <3>3. Cardinality(PiecesUpTo(i)) # 0
          BY <3>1, SentFinite, FS_EmptySet
    <3> QED BY <1>4, <3>2, <3>3 DEF Accumulates
  <2> QED BY <1>4, <2>1, <2>2, <2>3 DEF Accumulates
<1>6. text'[Cardinality(PiecesUpTo(n)')] = sent'[n].by
  <2>1. PiecesUpTo(n)' = Sent("text")'
    <3>1. \A j \in Sent("text")' : j <= n
          BY <1>0, <1>1 DEF Sent
    <3> QED BY <3>1 DEF PiecesUpTo
  <2>2. Cardinality(PiecesUpTo(n)') = Len(text) + 1
        BY <1>3, <2>1 DEF Accumulates
  <2> QED BY <1>1, <1>4, <2>2 DEF Event
<1> QED BY <1>2, <1>3, <1>4, <1>5, <1>6 DEF Accumulates

-----------------------------------------------------------------------------
(* The invariant                                                           *)

LEMMA StreamInvInit == Init => IInv
<1> SUFFICES ASSUME Init PROVE IInv
    OBVIOUS
<1>1. TypeOK
  <2>1. sent \in Seq([kind : Kinds, by : 1..Models]) /\ text \in Seq(1..Models)
        BY DEF Init
  <2>2. 0 \in 0..Models /\ 1 \in 1..Models
        BY StreamTurnAssumption
  <2>3. stored \in Turns
        BY <2>2 DEF Init, NotStored, Turns
  <2> QED BY <2>1, <2>2, <2>3, StreamTurnAssumption DEF Init, TypeOK, Turns
<1>2. Accumulates(text)
  <2>1. Sent("text") = {} /\ Len(text) = 0
        BY DEF Init, Sent
  <2> QED BY <2>1, FS_EmptySet DEF Accumulates
<1>3. PhaseInv
      BY DEF Init, PhaseInv, Events!LastKind
<1>4. NamedInv /\ UsageInv /\ StoredInv /\ calls \subseteq {playing}
      BY DEF Init, NamedInv, UsageInv, StoredInv, Stored, NotStored
<1> QED BY <1>1, <1>2, <1>3, <1>4 DEF IInv

LEMMA StreamTypeStep == IInv /\ [Next]_vars => TypeOK'
<1> SUFFICES ASSUME IInv, [Next]_vars PROVE TypeOK'
    OBVIOUS
<1> USE StreamTurnAssumption DEF env
<1>1. ASSUME NEW kind \in Kinds, Send(kind)
      PROVE  sent' \in Seq([kind : Kinds, by : 1..Models])
      BY <1>1, SentEvent DEF IInv, Evts
<1>2. Turn \in Turns /\ NotStored("failed") \in Turns
      BY DEF IInv, TypeOK, Turns, Turn, NotStored
<1>3. CASE AcceptStream
      BY <1>3 DEF IInv, TypeOK, AcceptStream
<1>4. CASE BeginStream \/ Refuse \/ StreamRunsOut \/ DropResponse \/ StopReading
      BY <1>4 DEF IInv, TypeOK, BeginStream, Refuse, StreamRunsOut, DropResponse, StopReading,
                  End
<1>5. CASE TextDelta
  <2>1. sent' \in Seq([kind : Kinds, by : 1..Models])
        BY <1>1, <1>5 DEF TextDelta, Kinds
  <2>2. text' \in Seq(1..Models)
        BY <1>5 DEF IInv, TypeOK, TextDelta
  <2> QED BY <1>5, <2>1, <2>2 DEF IInv, TypeOK, TextDelta
<1>6. CASE CallDelta
  <2>1. sent' \in Seq([kind : Kinds, by : 1..Models])
        BY <1>1, <1>6 DEF CallDelta, Kinds
  <2> QED BY <1>6, <2>1 DEF IInv, TypeOK, CallDelta
<1>7. CASE CutOff
  <2>1. sent' \in Seq([kind : Kinds, by : 1..Models])
        BY <1>1, <1>7 DEF CutOff, Kinds
  <2> QED BY <1>7, <2>1 DEF IInv, TypeOK, CutOff
<1>8. CASE FinishChunk
  <2>1. sent' \in Seq([kind : Kinds, by : 1..Models])
        BY <1>1, <1>8 DEF FinishChunk, Kinds
  <2> QED BY <1>8, <2>1 DEF IInv, TypeOK, FinishChunk
<1>9. CASE StreamFails
  <2>1. sent' \in Seq([kind : Kinds, by : 1..Models])
        BY <1>1, <1>9 DEF StreamFails, Kinds
  <2> QED BY <1>9, <2>1 DEF IInv, TypeOK, StreamFails, End
<1>10. CASE Continue \/ ContinuationSkipped \/ ContinuationRaises
  <2>1. current' \in 1..Models /\ current + 1 \in 1..Models /\ calls' = {}
    <3>1. current < Models /\ current' = current + 1 /\ calls' = {}
          BY <1>10 DEF IInv, PhaseInv, Continue, ContinuationSkipped,
                       ContinuationRaises, ToNext
    <3> QED BY <3>1 DEF IInv, TypeOK
  <2> QED BY <1>10, <2>1 DEF IInv, TypeOK, Continue, ContinuationSkipped,
                             ContinuationRaises, End
<1>11. CASE SendMetadata
  <2>1. sent' \in Seq([kind : Kinds, by : 1..Models])
        BY <1>1, <1>11 DEF SendMetadata, Kinds
  <2> QED BY <1>11, <2>1 DEF IInv, TypeOK, SendMetadata
<1>12. CASE Persist
      BY <1>2, <1>12 DEF IInv, TypeOK, Persist, Turns
<1>13. CASE SendDone
  <2>1. sent' \in Seq([kind : Kinds, by : 1..Models])
        BY <1>1, <1>13 DEF SendDone, Kinds
  <2> QED BY <1>13, <2>1 DEF IInv, TypeOK, SendDone, End
<1>14. CASE Disconnect
      BY <1>2, <1>14 DEF IInv, TypeOK, Disconnect, Turns, End
<1>15. CASE UNCHANGED vars
      BY <1>15 DEF IInv, TypeOK, vars
<1> QED BY <1>3, <1>4, <1>5, <1>6, <1>7, <1>8, <1>9, <1>10, <1>11, <1>12, <1>13, <1>14,
           <1>15 DEF Next, Generate, Provide

LEMMA AccumulatesStep == IInv /\ [Next]_vars => Accumulates(text)'
<1> SUFFICES ASSUME IInv, [Next]_vars PROVE Accumulates(text)'
    OBVIOUS
<1>1. CASE TextDelta
      BY <1>1, TextEvent DEF IInv, TextDelta
<1>2. CASE UNCHANGED <<sent, text>>
      BY <1>2 DEF IInv, Accumulates, PiecesUpTo, Sent
<1>3. ASSUME NEW kind \in Kinds \ {"text"}, Send(kind), UNCHANGED text
      PROVE  Accumulates(text)'
      BY <1>3, OtherEvent DEF IInv
<1>4. CASE CallDelta \/ CutOff \/ FinishChunk \/ StreamFails \/ SendMetadata \/ SendDone
  <2>1. \E kind \in Kinds \ {"text"} : Send(kind) /\ UNCHANGED text
        BY <1>4 DEF CallDelta, CutOff, FinishChunk, StreamFails, SendMetadata, SendDone,
                    Kinds
  <2> QED BY <1>3, <2>1
<1> QED BY <1>1, <1>2, <1>4
        DEF Next, Generate, Provide, AcceptStream, BeginStream, Refuse, StreamRunsOut,
            Continue, ContinuationSkipped, ContinuationRaises, Persist, DropResponse,
            Disconnect, StopReading, vars

LEMMA PhaseStep == IInv /\ [Next]_vars => PhaseInv'
<1> SUFFICES ASSUME IInv, [Next]_vars PROVE PhaseInv'
    OBVIOUS
<1> USE DEF PhaseInv, Events!Open
<1>1. ASSUME NEW kind \in Kinds, Send(kind)
      PROVE  Events!LastKind' = kind /\ LastEvent' = Event(kind)
      BY <1>1, SentEvent DEF IInv, LastEvent
<1>2. ASSUME UNCHANGED <<sent, playing>>
      PROVE  UNCHANGED Events!LastKind /\ UNCHANGED LastEvent /\ UNCHANGED playing
      BY <1>2 DEF Events!LastKind, LastEvent
<1>3. CASE AcceptStream
  <2>1. sent = <<>> /\ sent' = <<>>
        BY <1>3 DEF IInv, AcceptStream
  <2> QED BY <1>3, <2>1 DEF AcceptStream, Events!LastKind
<1>4. CASE BeginStream
  <2>1. sent = <<>> /\ sent' = <<>>
        BY <1>4 DEF IInv, BeginStream
  <2> QED BY <1>4, <2>1 DEF BeginStream, Events!LastKind
<1>5. CASE Refuse \/ StreamRunsOut \/ DropResponse \/ ContinuationSkipped
           \/ ContinuationRaises \/ Persist \/ Disconnect
      BY <1>2, <1>5 DEF IInv, Refuse, StreamRunsOut, DropResponse, ContinuationSkipped,
         ContinuationRaises, Persist, Disconnect, End, Events!Deltas, Events!Finishes
<1>6. CASE TextDelta \/ CallDelta
  <2>1. PICK kind \in {"text", "call"} : Send(kind)
        BY <1>6 DEF TextDelta, CallDelta
  <2>2. Events!LastKind' = kind
        BY <1>1, <2>1 DEF Kinds
  <2> QED BY <1>6, <2>1, <2>2 DEF TextDelta, CallDelta, Events!Deltas
<1>7. CASE CutOff
  <2>1. Events!LastKind' = "cut"
        BY <1>1, <1>7 DEF CutOff, Kinds
  <2> QED BY <1>7, <2>1 DEF CutOff, CanContinue, Events!Deltas
<1>8. CASE FinishChunk
  <2>1. PICK reason \in {"stop", "length"} :
            /\ ~(reason = "length" /\ CanContinue)
            /\ Send(reason)
            /\ phase' = IF reason = "length" /\ current < Models
                        THEN "continuing"
                        ELSE "metadata"
        BY <1>8 DEF FinishChunk
  <2>2. Events!LastKind' = reason
        BY <1>1, <2>1 DEF Kinds
  <2>3. UNCHANGED <<continues, current>>
        BY <1>8 DEF FinishChunk, env
  <2> QED BY <2>1, <2>2, <2>3 DEF CanContinue, Events!Finishes
<1>9. CASE StreamFails \/ SendDone
  <2>1. Events!LastKind' \in {"error", "done"}
        BY <1>1, <1>9 DEF StreamFails, SendDone, Kinds
  <2> QED BY <1>9, <2>1 DEF StreamFails, SendDone, End
<1>10. CASE Continue
  <2>1. UNCHANGED Events!Open /\ Events!Open /\ Events!LastKind # "meta"
        BY <1>10 DEF IInv, Continue, Events!LastKind, Events!Deltas, env
  <2>2. UNCHANGED Events!LastKind
        BY <1>10 DEF Continue, Events!LastKind
  <2> QED BY <1>10, <2>1, <2>2 DEF Continue
<1>11. CASE SendMetadata
  <2>1. Events!LastKind' = "meta" /\ LastEvent' = Event("meta")
        BY <1>1, <1>11 DEF SendMetadata, Kinds
  <2> QED BY <1>11, <2>1 DEF SendMetadata, Event
<1>12. CASE UNCHANGED vars \/ StopReading
       BY <1>2, <1>12 DEF IInv, vars, StopReading
<1> QED BY <1>3, <1>4, <1>5, <1>6, <1>7, <1>8, <1>9, <1>10, <1>11, <1>12
        DEF Next, Generate, Provide

\* The name follows the model that plays.
LEMMA NamedStep == IInv /\ [Next]_vars => NamedInv'
<1> SUFFICES ASSUME IInv, [Next]_vars PROVE NamedInv'
    OBVIOUS
<1>1. ASSUME NEW kind \in Kinds, Send(kind), UNCHANGED <<named, playing>> PROVE NamedInv'
  <2>1. /\ DOMAIN sent = 1..Len(sent) /\ DOMAIN sent' = 1..(Len(sent) + 1)
        /\ \A i \in 1..Len(sent) : sent'[i] = sent[i]
        /\ sent'[Len(sent) + 1] = Event(kind) /\ Len(sent) \in Nat
        BY <1>1, SentEvent DEF IInv, TypeOK
  <2>2. \A i : i \in 1..(Len(sent) + 1) <=> i \in 1..Len(sent) \/ i = Len(sent) + 1
        BY <2>1
  <2>3. sent'[Len(sent) + 1].by = playing
        BY <2>1 DEF Event
  <2> QED BY <1>1, <2>1, <2>2, <2>3 DEF IInv, NamedInv
<1>2. CASE AcceptStream
      BY <1>2 DEF IInv, NamedInv, PhaseInv, AcceptStream
<1>3. CASE Continue
      BY <1>3 DEF NamedInv, Continue
<1>4. CASE UNCHANGED <<named, playing, sent>>
      BY <1>4 DEF IInv, NamedInv
<1>5. CASE TextDelta \/ CallDelta \/ CutOff \/ FinishChunk \/ StreamFails \/ SendMetadata
           \/ SendDone
  <2>1. \E kind \in Kinds : Send(kind) /\ UNCHANGED <<named, playing>>
        BY <1>5 DEF TextDelta, CallDelta, CutOff, FinishChunk, StreamFails, SendMetadata,
                    SendDone, Kinds
  <2> QED BY <1>1, <2>1
<1> QED BY <1>2, <1>3, <1>4, <1>5
        DEF Next, Generate, Provide, BeginStream, Refuse, StreamRunsOut, DropResponse,
            ContinuationSkipped, ContinuationRaises, Persist, Disconnect, StopReading, vars

LEMMA StoredStep ==
    IInv /\ [Next]_vars =>
        calls' \subseteq {playing'} /\ UsageInv' /\ StoredInv'
<1> SUFFICES ASSUME IInv, [Next]_vars
             PROVE  calls' \subseteq {playing'} /\ UsageInv' /\ StoredInv'
    OBVIOUS
<1>1. ASSUME NEW kind \in Kinds, Send(kind)
      PROVE  sent' # <<>> /\ LastEvent'.by = playing
  <2>1. sent' # <<>> /\ LastEvent' = Event(kind)
        BY <1>1, SentEvent DEF IInv, LastEvent
  <2> QED BY <2>1 DEF Event
<1>2. CASE phase \notin {"persisting", "ending", "ended"} /\ ~UNCHANGED vars
  <2>1. ~Stored
        BY <1>2 DEF IInv, TypeOK, StoredInv, Stored
  <2> QED BY <1>2, <2>1
      DEF IInv, PhaseInv, UsageInv, UsageCounted, StoredInv, Stored, Next,
          Generate, Provide, AcceptStream, BeginStream, Refuse, TextDelta, CallDelta, CutOff,
          FinishChunk, StreamRunsOut, StreamFails, Continue, ContinuationSkipped,
          ContinuationRaises, SendMetadata, Persist, SendDone, Disconnect, DropResponse,
          StopReading, End, ToNext, vars
<1>3. CASE SendDone
      BY <1>1, <1>3 DEF IInv, UsageInv, UsageCounted, StoredInv, Stored, SendDone,
                        End, Kinds
<1>4. CASE Persist
  <2>1. sent # <<>> /\ LastEvent.by = playing
        BY <1>4 DEF IInv, PhaseInv, Persist, Events!LastKind
  <2> QED BY <1>4, <2>1 DEF IInv, UsageInv, UsageCounted, StoredInv, Stored,
                            Persist, Turn, NotStored, LastEvent
<1>5. CASE Disconnect
  <2>1. phase = "persisting" => sent # <<>> /\ LastEvent.by = playing
        BY DEF IInv, PhaseInv, Events!LastKind
  <2> QED BY <1>5, <2>1 DEF IInv, UsageInv, UsageCounted, StoredInv, Stored,
                            Disconnect, End, Turn, LastEvent
<1>6. CASE UNCHANGED vars \/ StopReading
      BY <1>6 DEF IInv, UsageInv, UsageCounted, StoredInv, Stored, LastEvent, vars,
                  StopReading
<1>7. CASE phase \in {"persisting", "ending", "ended"} /\ Next
      BY <1>3, <1>4, <1>5, <1>6, <1>7
      DEF Next, Generate, Provide, AcceptStream, BeginStream, Refuse, TextDelta, CallDelta,
          CutOff, FinishChunk, StreamRunsOut, StreamFails, Continue, ContinuationSkipped,
          ContinuationRaises, SendMetadata, DropResponse
<1> QED BY <1>2, <1>6, <1>7

LEMMA StreamInvariance == Spec => []IInv
<1>1. IInv /\ [Next]_vars => IInv'
      BY StreamTypeStep, AccumulatesStep, PhaseStep, NamedStep, StoredStep DEF IInv
<1> QED BY <1>1, StreamInvInit, PTL DEF Spec

-----------------------------------------------------------------------------
(* What a streamed turn promises                                           *)

\* The locals of the generator and the stored turn keep their types: every
\* continuation stays inside the list of models.
THEOREM StreamTypeCorrect == Spec => []TypeOK
<1>1. IInv => TypeOK
      BY DEF IInv
<1> QED BY <1>1, StreamInvariance, PTL

\* However often the answer is continued by another model and wherever it
\* breaks off: what _persist_stream_turn writes is what the client was sent.
THEOREM StoredTurnIsWhatWasSent == Spec => []StoredIsWhatWasSent
<1>1. IInv => StoredIsWhatWasSent
      BY DEF IInv, TypeOK, Accumulates, PiecesUpTo, NamedInv, StoredInv, UsageCounted,
             LastEvent, StoredIsWhatWasSent
<1> QED BY <1>1, StreamInvariance, PTL

\* Resetting tool_calls_by_index at each continuation is enough: no call of a
\* model that was cut off is stored with those of another.
THEOREM StoredCallsAreOfOneModel == Spec => []CallsOfAnsweringModel
<1>1. IInv => CallsOfAnsweringModel
      BY DEF IInv, StoredInv, CallsOfAnsweringModel
<1> QED BY <1>1, StreamInvariance, PTL

-----------------------------------------------------------------------------
(* The refinement of EventStream                                           *)

settledBar == stored.state # "absent"

LEMMA EventStep ==
    IInv /\ [Next]_vars => [Events!Emit \/ Events!Settle]_<<sent, settledBar, ~continues>>
<1> SUFFICES ASSUME IInv, [Next]_vars
             PROVE  \/ Events!Emit
                    \/ Events!Settle
                    \/ UNCHANGED <<sent, settledBar, ~continues>>
    OBVIOUS
<1>1. ASSUME NEW kind \in Kinds, Send(kind), Events!MayFollow(kind),
             UNCHANGED <<stored, continues>>
      PROVE  Events!Emit
  <2>1. sent'[Len(sent')] = Event(kind)
        BY <1>1, SentEvent DEF IInv
  <2>2. sent'[Len(sent')].kind = kind
        BY <2>1 DEF Event
  <2> QED BY <1>1, <2>2, SentEvent DEF IInv, Events!Emit
<1>2. CASE TextDelta \/ CallDelta \/ CutOff \/ FinishChunk \/ StreamFails
  <2>1. /\ phase = "streaming" /\ UNCHANGED <<stored, continues>>
        /\ \E kind \in {"text", "call", "cut", "stop", "length", "error"} : Send(kind)
        BY <1>2 DEF TextDelta, CallDelta, CutOff, FinishChunk, StreamFails, env
  <2>2. Events!Open
        BY <2>1 DEF IInv, PhaseInv
  <2> QED BY <1>1, <2>1, <2>2 DEF Kinds, Events!MayFollow, Events!Deltas, Events!Finishes
<1>3. CASE SendMetadata
  <2>1. Events!MayFollow("meta")
        BY <1>3 DEF IInv, PhaseInv, SendMetadata, Events!MayFollow
  <2> QED BY <1>1, <1>3, <2>1 DEF SendMetadata, Kinds, env
<1>4. CASE SendDone
  <2>1. Events!MayFollow("done")
        BY <1>4 DEF IInv, PhaseInv, StoredInv, SendDone, Events!MayFollow
  <2> QED BY <1>1, <1>4, <2>1 DEF SendDone, Kinds, env
<1>5. CASE /\ phase = "persisting" /\ stored' \in {Turn, NotStored("failed")}
           /\ UNCHANGED <<sent, continues>>
  <2>1. stored.state = "absent" /\ Events!LastKind = "meta"
        BY <1>5 DEF IInv, PhaseInv, StoredInv
  <2>2. stored'.state # "absent"
        BY <1>5 DEF Turn, NotStored
  <2> QED BY <1>5, <2>1, <2>2 DEF Events!Settle
<1>6. CASE Persist \/ Disconnect
      BY <1>5, <1>6 DEF Persist, Disconnect, settledBar, env
<1>7. CASE UNCHANGED <<sent, stored, continues>>
      BY <1>7 DEF settledBar
<1> QED BY <1>2, <1>3, <1>4, <1>6, <1>7
        DEF Next, Generate, Provide, AcceptStream, BeginStream, Refuse, StreamRunsOut,
            Continue, ContinuationSkipped, ContinuationRaises, DropResponse, StopReading,
            env, vars

\* The client sees the stream that EventStream describes, and the turn is
\* written, or given up, between the metadata and [DONE].
THEOREM StreamIsWellFormed == Spec => WellFormedStream
<1>1. Init => sent = <<>> /\ ~settledBar
      BY DEF Init, NotStored, settledBar
<1> QED BY <1>1, EventStep, StreamInvariance, PTL
        DEF Spec, WellFormedStream, Events!EventSpec, settledBar

=============================================================================
