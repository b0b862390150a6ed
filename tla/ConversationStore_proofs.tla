----------------------- MODULE ConversationStore_proofs -----------------------
(***************************************************************************)
(* Proofs about ConversationStore, for any conversations, chats and        *)
(* normalizations, on SQLite and on PostgreSQL: what the numbering of the  *)
(* turns guarantees although it is computed from a stale read, that a      *)
(* conversation exists exactly when it has a turn, that a turn is stored   *)
(* once or not at all, what a row says of its turns, and whose lock may    *)
(* cost a request its commit.                                              *)
(***************************************************************************)
EXTENDS ConversationStore, FiniteSetTheorems, WellFoundedInduction, TLAPS

\* Numbers never run ahead of the number of turns, which is what keeps
\* len + 1 of normalize-tools above every number in use.
NumbersWithinLength ==
    \A c \in Conversations : \A i \in DOMAIN turns[c] : turns[c][i].number <= i

\* What an actor read was true and stays so: the turns it saw are the first
\* ones of the conversation, numbered up to top, and top does not exceed seen.
ReadsHold ==
    \A a \in Actors :
        /\ work[a].seen <= Len(turns[Conv[a]])
        /\ work[a].top <= work[a].seen
        /\ \A i \in 1..work[a].seen : turns[Conv[a]][i].number <= work[a].top

\* A turn comes after those its request had read.
AfterIsEarlier ==
    \A c \in Conversations : \A j \in DOMAIN turns[c] : turns[c][j].after < j

\* A normalization is stored only in a conversation that has turns.
NormalizersSawTurns ==
    \A n \in Normalizers : At(n, "saving") => turns[Conv[n]] # <<>>

IInv ==
    /\ TypeOK
    /\ NumbersWithinLength
    /\ ReadsHold
    /\ AfterIsEarlier
    /\ SeenTurnsPrecede
    /\ ExistsWithTurns
    /\ NormalizersSawTurns

-----------------------------------------------------------------------------
(* The largest number                                                      *)

LEMMA LeastNumber ==
    ASSUME NEW S, S \subseteq Nat, S # {}
    PROVE  \E n \in S : \A k \in S : ~(k < n)
<1> DEFINE R == OpToRel(<, Nat)
<1>1. IsWellFoundedOn(R, Nat)
      BY NatLessThanWellFounded
<1>2. \A i, j \in Nat : <<i, j>> \in R <=> i < j
      BY DEF OpToRel
<1> HIDE DEF R
<1>3. PICK n \in S : \A k \in S : ~(<<k, n>> \in R)
      BY <1>1, WFMin
<1> QED BY <1>2, <1>3

LEMMA BoundedHasMaximum ==
    ASSUME NEW S, S \subseteq Nat, S # {}, NEW b \in Nat, \A x \in S : x <= b
    PROVE  \E n \in S : \A x \in S : x <= n
<1> DEFINE Bounds == {n \in Nat : \A x \in S : x <= n}
<1>1. Bounds \subseteq Nat /\ Bounds # {}
      OBVIOUS
<1>2. PICK n \in Bounds : \A k \in Bounds : ~(k < n)
  <2> HIDE DEF Bounds
  <2> QED BY <1>1, LeastNumber
<1>3. n \in Nat /\ \A x \in S : x \in Nat /\ x <= n
      BY <1>2
<1>4. n \in S
  <2> SUFFICES ASSUME n \notin S PROVE FALSE
      OBVIOUS
  <2>0. PICK y \in S : TRUE
        OBVIOUS
  <2>1. \A x \in S : x <= n - 1
    <3> SUFFICES ASSUME NEW x \in S PROVE x <= n - 1
        OBVIOUS
    <3>1. x \in Nat /\ n \in Nat /\ x <= n /\ x # n
          BY <1>3
    <3> QED BY <3>1
  <2>2. n - 1 \in Nat
    <3>1. y \in Nat /\ y <= n - 1
          BY <1>3, <2>1
    <3> QED BY <1>3, <3>1
  <2>3. n - 1 \in Bounds /\ n - 1 < n
        BY <1>3, <2>1, <2>2
  <2> QED BY <1>2, <2>3
<1> QED BY <1>3, <1>4

\* max(t.turn_number for t in turns, default=0): no number is larger, and it
\* does not run ahead of the turns.
LEMMA MaxNumberBounds ==
    ASSUME NEW ts \in Seq(TurnType), \A i \in DOMAIN ts : ts[i].number <= i
    PROVE  /\ MaxNumber(ts) \in Nat
           /\ MaxNumber(ts) <= Len(ts)
           /\ \A i \in DOMAIN ts : ts[i].number <= MaxNumber(ts)
<1> DEFINE S == {ts[i].number : i \in DOMAIN ts}
<1>1. Len(ts) \in Nat /\ DOMAIN ts = 1..Len(ts)
      OBVIOUS
<1>2. CASE ts = <<>>
      BY <1>2 DEF MaxNumber
<1>3. CASE ts # <<>>
  <2>1. \A i \in 1..Len(ts) : ts[i].number \in Nat /\ ts[i].number <= Len(ts)
    <3> SUFFICES ASSUME NEW i \in 1..Len(ts)
        PROVE ts[i].number \in Nat /\ ts[i].number <= Len(ts)
        OBVIOUS
    <3>1. ts[i] \in TurnType
          OBVIOUS
    <3>2. ts[i].number \in Nat /\ ts[i].number <= i
          BY <1>1, <3>1 DEF TurnType
    <3> QED BY <1>1, <3>2
  <2>2. S \subseteq Nat /\ \A x \in S : x <= Len(ts)
        BY <1>1, <2>1
  <2>3. S # {}
    <3>1. Len(ts) # 0
          BY <1>3
    <3>2. ts[1].number \in S
          BY <1>1, <3>1
    <3> QED BY <3>2
  <2>4. \E n \in S : \A x \in S : x <= n
        BY <1>1, <2>2, <2>3, BoundedHasMaximum
  <2>5. \E n \in S : \A i \in DOMAIN ts : ts[i].number <= n
    <3>1. PICK n \in S : \A x \in S : x <= n
          BY <2>4
    <3>2. \A i \in DOMAIN ts : ts[i].number \in S
          OBVIOUS
    <3> HIDE DEF S
    <3>3. \A i \in DOMAIN ts : ts[i].number <= n
          BY <3>1, <3>2
    <3> QED BY <3>3
  <2>6. /\ MaxNumber(ts) \in S
        /\ \A i \in DOMAIN ts : ts[i].number <= MaxNumber(ts)
    <3>1. MaxNumber(ts) = CHOOSE n \in S : \A i \in DOMAIN ts : ts[i].number <= n
          BY <1>3 DEF MaxNumber
    <3> HIDE DEF S
    <3> QED BY <2>5, <3>1
  <2> QED BY <2>2, <2>6
<1> QED BY <1>2, <1>3

-----------------------------------------------------------------------------
(* What the steps do to one session                                        *)

Places == {"arrived", "turns", "insert", "calling", "saving"} \union Over

\* A session that only moves to another place.
LEMMA WorkMoves ==
    ASSUME TypeOK, NEW a \in Actors, NEW place \in Places, Goto(a, place)
    PROVE  /\ work' \in [Actors -> WorkType]
           /\ \A b \in Actors \ {a} : work'[b] = work[b]
           /\ work'[a].at = place
           /\ work'[a].top = work[a].top
           /\ work'[a].seen = work[a].seen
    BY DEF TypeOK, WorkType, Places, Goto, Over

\* A session that reads the row, and one that reads the turns.
ReadingRow(w, x, place) == [w EXCEPT !.row = x, !.at = place]

ReadingTurns(w, t, n, place) == [w EXCEPT !.top = t, !.seen = n, !.at = place]

LEMMA RowRead ==
    ASSUME NEW w \in WorkType, NEW x \in RowType, NEW place \in Places
    PROVE  /\ ReadingRow(w, x, place) \in WorkType
           /\ ReadingRow(w, x, place).top = w.top
           /\ ReadingRow(w, x, place).seen = w.seen
           /\ ReadingRow(w, x, place).at = place
<1> DEFINE mid == [w EXCEPT !.row = x]
<1>1. mid \in WorkType /\ mid.top = w.top /\ mid.seen = w.seen
      BY DEF WorkType
<1> HIDE DEF mid
<1>2. /\ [mid EXCEPT !.at = place] \in WorkType
      /\ [mid EXCEPT !.at = place].top = mid.top
      /\ [mid EXCEPT !.at = place].seen = mid.seen
      /\ [mid EXCEPT !.at = place].at = place
      BY <1>1 DEF WorkType, Places, Over
<1> QED BY <1>1, <1>2 DEF mid, ReadingRow

LEMMA TurnsRead ==
    ASSUME NEW w \in WorkType, NEW t \in Nat, NEW n \in Nat, NEW place \in Places
    PROVE  /\ ReadingTurns(w, t, n, place) \in WorkType
           /\ ReadingTurns(w, t, n, place).top = t
           /\ ReadingTurns(w, t, n, place).seen = n
           /\ ReadingTurns(w, t, n, place).at = place
<1> DEFINE one == [w EXCEPT !.top = t]
<1>1. one \in WorkType /\ one.top = t
      BY DEF WorkType
<1> HIDE DEF one
<1> DEFINE two == [one EXCEPT !.seen = n]
<1>2. two \in WorkType /\ two.top = t /\ two.seen = n
      BY <1>1 DEF WorkType
<1> HIDE DEF two
<1>3. /\ [two EXCEPT !.at = place] \in WorkType
      /\ [two EXCEPT !.at = place].top = t
      /\ [two EXCEPT !.at = place].seen = n
      /\ [two EXCEPT !.at = place].at = place
      BY <1>2 DEF WorkType, Places, Over
<1> QED BY <1>3 DEF one, two, ReadingTurns

-----------------------------------------------------------------------------
(* Steps that store no turn                                                *)

\* A step that leaves the tables as they are and moves one session, which keeps
\* what it read or reads the turns again.
LEMMA QuietStep ==
    ASSUME IInv, UNCHANGED <<row, turns>>,
           lock' \in [Conversations -> Actors \union {Free}],
           work' \in [Actors -> WorkType],
           \A a \in Actors :
               \/ work'[a].top = work[a].top /\ work'[a].seen = work[a].seen
               \/ /\ work'[a].seen = Len(turns[Conv[a]])
                  /\ work'[a].top <= Len(turns[Conv[a]])
                  /\ \A i \in DOMAIN turns[Conv[a]] : turns[Conv[a]][i].number <= work'[a].top,
           \A n \in Normalizers :
               work'[n].at = "saving" => At(n, "saving") \/ turns[Conv[n]] # <<>>
    PROVE  IInv'
<1>1. TypeOK'
      BY DEF IInv, TypeOK
<1>2. ReadsHold'
  <2> SUFFICES ASSUME NEW a \in Actors
      PROVE  /\ work'[a].seen <= Len(turns[Conv[a]])
             /\ work'[a].top <= work'[a].seen
             /\ \A i \in 1..work'[a].seen : turns[Conv[a]][i].number <= work'[a].top
      BY DEF ReadsHold
  <2>1. Conv[a] \in Conversations /\ turns[Conv[a]] \in Seq(TurnType)
        BY ConversationStoreAssumption DEF IInv, TypeOK
  <2>2. DOMAIN turns[Conv[a]] = 1..Len(turns[Conv[a]]) /\ Len(turns[Conv[a]]) \in Nat
        BY <2>1
  <2>3. /\ work[a].seen <= Len(turns[Conv[a]])
        /\ work[a].top <= work[a].seen
        /\ \A i \in 1..work[a].seen : turns[Conv[a]][i].number <= work[a].top
        BY DEF IInv, ReadsHold
  <2>4. CASE work'[a].top = work[a].top /\ work'[a].seen = work[a].seen
        BY <2>3, <2>4
  <2>5. CASE /\ work'[a].seen = Len(turns[Conv[a]])
             /\ work'[a].top <= Len(turns[Conv[a]])
             /\ \A i \in DOMAIN turns[Conv[a]] : turns[Conv[a]][i].number <= work'[a].top
        BY <2>2, <2>5
  <2> QED BY <2>4, <2>5
<1>3. NumbersWithinLength' /\ AfterIsEarlier' /\ SeenTurnsPrecede' /\ ExistsWithTurns'
      BY DEF IInv, NumbersWithinLength, AfterIsEarlier, SeenTurnsPrecede, ExistsWithTurns
<1>4. NormalizersSawTurns'
      BY DEF IInv, NormalizersSawTurns, At
<1> QED BY <1>1, <1>2, <1>3, <1>4 DEF IInv

LEMMA ReleaseType ==
    ASSUME TypeOK, NEW a \in Actors, Release(a)
    PROVE  lock' \in [Conversations -> Actors \union {Free}]
    BY ConversationStoreAssumption DEF TypeOK, Release

\* A step that only moves one session and takes or gives up its lock.
LEMMA MoveKeeps ==
    ASSUME IInv, NEW a \in Actors, NEW place \in Places, Goto(a, place),
           a \in Chats \/ place # "saving",
           UNCHANGED <<row, turns>>,
           lock' \in [Conversations -> Actors \union {Free}]
    PROVE  IInv'
<1>1. /\ work' \in [Actors -> WorkType]
      /\ \A b \in Actors \ {a} : work'[b] = work[b]
      /\ work'[a].at = place
      /\ work'[a].top = work[a].top
      /\ work'[a].seen = work[a].seen
      BY WorkMoves DEF IInv
<1>2. \A n \in Normalizers : work'[n].at = "saving" => At(n, "saving")
      BY <1>1, ConversationStoreAssumption DEF Actors, At
<1> QED BY <1>1, <1>2, QuietStep

\* One session is replaced.
LEMMA OneSession ==
    ASSUME NEW f \in [Actors -> WorkType], NEW b \in Actors, NEW v \in WorkType
    PROVE  /\ [f EXCEPT ![b] = v] \in [Actors -> WorkType]
           /\ \A d \in Actors \ {b} : [f EXCEPT ![b] = v][d] = f[d]
           /\ [f EXCEPT ![b] = v][b] = v
    OBVIOUS

\* What LoadTurns and ReadForNormalization read.
LEMMA ReadKeeps ==
    ASSUME IInv, NEW a \in Actors, NEW place \in Places, NEW t \in Nat,
           place # "saving" \/ turns[Conv[a]] # <<>>,
           UNCHANGED <<row, turns, lock>>,
           t <= Len(turns[Conv[a]]),
           \A i \in DOMAIN turns[Conv[a]] : turns[Conv[a]][i].number <= t,
           work' = [work EXCEPT ![a].top = t, ![a].seen = Len(turns[Conv[a]]),
                                ![a].at = place]
    PROVE  IInv'
<1> DEFINE n == Len(turns[Conv[a]])
           w == ReadingTurns(work[a], t, n, place)
<1>1. n \in Nat /\ work[a] \in WorkType
      BY ConversationStoreAssumption DEF IInv, TypeOK
<1>2. w \in WorkType /\ w.top = t /\ w.seen = n /\ w.at = place
  <2> HIDE DEF n
  <2> QED BY <1>1, TurnsRead
<1>3. work' = [work EXCEPT ![a] = w]
      BY DEF IInv, TypeOK, ReadingTurns
<1> HIDE DEF w, n
<1>8. work \in [Actors -> WorkType]
      BY DEF IInv, TypeOK
<1>4. /\ work' \in [Actors -> WorkType]
      /\ \A b \in Actors \ {a} : work'[b] = work[b]
      /\ work'[a].top = t /\ work'[a].seen = n /\ work'[a].at = place
  <2>0. /\ [work EXCEPT ![a] = w] \in [Actors -> WorkType]
        /\ \A b \in Actors \ {a} : [work EXCEPT ![a] = w][b] = work[b]
        /\ [work EXCEPT ![a] = w][a] = w
        BY <1>2, <1>8, OneSession
  <2>1. work' \in [Actors -> WorkType] /\ work'[a] = w
        BY <1>3, <2>0
  <2>2. \A b \in Actors \ {a} : work'[b] = work[b]
        BY <1>3, <2>0
  <2> QED BY <1>2, <2>1, <2>2
<1>5. lock' \in [Conversations -> Actors \union {Free}]
      BY DEF IInv, TypeOK
<1>6. \A b \in Normalizers :
          work'[b].at = "saving" => At(b, "saving") \/ turns[Conv[b]] # <<>>
      BY <1>4 DEF Actors, At
<1>7. \A b \in Actors :
          \/ work'[b].top = work[b].top /\ work'[b].seen = work[b].seen
          \/ /\ work'[b].seen = Len(turns[Conv[b]])
             /\ work'[b].top <= Len(turns[Conv[b]])
             /\ \A i \in DOMAIN turns[Conv[b]] : turns[Conv[b]][i].number <= work'[b].top
      BY <1>4 DEF n
<1> QED BY <1>4, <1>5, <1>6, <1>7, QuietStep

\* NumbersWithinLength bounds the numbers of every conversation by its length.
LEMMA TurnsOf ==
    ASSUME IInv, NEW a \in Actors
    PROVE  /\ Conv[a] \in Conversations
           /\ turns[Conv[a]] \in Seq(TurnType)
           /\ Len(turns[Conv[a]]) \in Nat
           /\ DOMAIN turns[Conv[a]] = 1..Len(turns[Conv[a]])
           /\ \A i \in DOMAIN turns[Conv[a]] : turns[Conv[a]][i].number <= i
           /\ \A i \in DOMAIN turns[Conv[a]] :
                 turns[Conv[a]][i].number <= Len(turns[Conv[a]])
<1>1. Conv[a] \in Conversations /\ turns[Conv[a]] \in Seq(TurnType)
      BY ConversationStoreAssumption DEF IInv, TypeOK
<1>2. \A i \in DOMAIN turns[Conv[a]] :
          turns[Conv[a]][i].number \in Nat /\ turns[Conv[a]][i].number <= i
  <2>1. \A i \in DOMAIN turns[Conv[a]] : turns[Conv[a]][i] \in TurnType
        BY <1>1
  <2>2. \A i \in DOMAIN turns[Conv[a]] : turns[Conv[a]][i].number \in Nat
        BY <2>1 DEF TurnType
  <2> QED BY <1>1, <2>2 DEF IInv, NumbersWithinLength
<1>3. Len(turns[Conv[a]]) \in Nat /\ DOMAIN turns[Conv[a]] = 1..Len(turns[Conv[a]])
      BY <1>1
<1>4. ASSUME NEW i \in DOMAIN turns[Conv[a]]
      PROVE  turns[Conv[a]][i].number <= Len(turns[Conv[a]])
  <2>1. i \in Nat /\ i <= Len(turns[Conv[a]])
        BY <1>3
  <2>2. turns[Conv[a]][i].number \in Nat /\ turns[Conv[a]][i].number <= i
        BY <1>2
  <2> QED BY <1>3, <2>1, <2>2
<1> QED BY <1>1, <1>2, <1>3, <1>4

-----------------------------------------------------------------------------
(* Steps that store turns                                                  *)

\* Turns that carry what the session read are added at the end of the
\* conversation, whatever was added to it since the session read it.
LEMMA StoreKeeps ==
    ASSUME IInv, NEW a \in Actors, NEW ts \in Seq(TurnType),
           turns' = [turns EXCEPT ![Conv[a]] = ts],
           Len(ts) > Len(turns[Conv[a]]),
           \A i \in 1..Len(turns[Conv[a]]) : ts[i] = turns[Conv[a]][i],
           \A i \in (Len(turns[Conv[a]]) + 1)..Len(ts) :
               ts[i].number = work[a].top + 1 /\ ts[i].after = work[a].seen,
           row' \in [Conversations -> RowType],
           \A c \in Conversations \ {Conv[a]} : row'[c].exists = row[c].exists,
           row'[Conv[a]].exists,
           lock' \in [Conversations -> Actors \union {Free}],
           Goto(a, "stored")
    PROVE  IInv'
<1> DEFINE c == Conv[a]
           n == Len(turns[c])
<1>1. /\ c \in Conversations
      /\ turns[c] \in Seq(TurnType)
      /\ n \in Nat
      /\ DOMAIN turns[c] = 1..n
      /\ \A i \in 1..n : turns[c][i].number <= i
      BY TurnsOf
<1>2. /\ work' \in [Actors -> WorkType]
      /\ \A b \in Actors : work'[b].top = work[b].top /\ work'[b].seen = work[b].seen
      /\ \A b \in Actors \ {a} : work'[b] = work[b]
      /\ work'[a].at = "stored"
      BY WorkMoves, "stored" \in Places DEF IInv, Places, Over
<1>3. /\ turns'[c] = ts
      /\ \A d \in Conversations \ {c} : turns'[d] = turns[d]
      /\ turns' \in [Conversations -> Seq(TurnType)]
      BY <1>1 DEF IInv, TypeOK
<1>4. Len(ts) \in Nat /\ DOMAIN ts = 1..Len(ts)
      OBVIOUS
<1>5. /\ work[a].top \in Nat /\ work[a].seen \in Nat
      /\ work[a].top <= work[a].seen /\ work[a].seen <= n
      /\ \A i \in 1..work[a].seen : turns[c][i].number <= work[a].top
      BY DEF IInv, TypeOK, WorkType, ReadsHold
<1>6. TypeOK'
      BY <1>2, <1>3 DEF IInv, TypeOK
<1>7. \A i \in 1..Len(ts) : ts[i] \in TurnType /\ ts[i].number \in Nat /\ ts[i].after \in Nat
  <2>1. \A i \in 1..Len(ts) : ts[i] \in TurnType
        OBVIOUS
  <2> QED BY <2>1 DEF TurnType
<1>8. NumbersWithinLength'
  <2>1. ASSUME NEW i \in 1..Len(ts) PROVE ts[i].number <= i
    <3>1. CASE i \in 1..n
          BY <1>1, <3>1
    <3>2. CASE i \in (n + 1)..Len(ts)
      <4>1. ts[i].number = work[a].top + 1
            BY <3>2
      <4>2. \A x, y, z, k \in Nat : x <= y /\ y <= z /\ k >= z + 1 => x + 1 <= k
            OBVIOUS
      <4>3. i \in Nat /\ i >= n + 1
            BY <1>1, <1>4, <3>2
      <4>4. work[a].top + 1 <= i
            BY <1>1, <1>5, <4>2, <4>3
      <4> QED BY <4>1, <4>4
    <3> QED BY <1>1, <1>4, <3>1, <3>2
  <2>2. ASSUME NEW d \in Conversations, d # c, NEW i \in DOMAIN turns[d]
        PROVE  turns[d][i].number <= i
        BY DEF IInv, NumbersWithinLength
  <2> QED BY <1>3, <1>4, <2>1, <2>2 DEF NumbersWithinLength
<1>9. ReadsHold'
  <2> SUFFICES ASSUME NEW b \in Actors
      PROVE  /\ work[b].seen <= Len(turns'[Conv[b]])
             /\ work[b].top <= work[b].seen
             /\ \A i \in 1..work[b].seen : turns'[Conv[b]][i].number <= work[b].top
      BY <1>2 DEF ReadsHold
  <2>1. /\ work[b].seen \in Nat
        /\ work[b].seen <= Len(turns[Conv[b]])
        /\ work[b].top <= work[b].seen
        /\ \A i \in 1..work[b].seen : turns[Conv[b]][i].number <= work[b].top
        BY DEF IInv, TypeOK, WorkType, ReadsHold
  <2>2. CASE Conv[b] = c
    <3>1. \A i \in 1..work[b].seen : i \in 1..n
          BY <1>1, <2>1, <2>2
    <3>2. \A i \in 1..work[b].seen : ts[i].number <= work[b].top
          BY <2>1, <2>2, <3>1
    <3> QED BY <1>1, <1>3, <1>4, <2>1, <2>2, <3>2
  <2>3. CASE Conv[b] # c
        BY <1>3, <2>1, <2>3, ConversationStoreAssumption
  <2> QED BY <2>2, <2>3
<1>10. AfterIsEarlier'
  <2>1. ASSUME NEW j \in 1..Len(ts) PROVE ts[j].after < j
    <3>1. CASE j \in 1..n
          BY <1>1, <3>1 DEF IInv, AfterIsEarlier
    <3>2. CASE j \in (n + 1)..Len(ts)
          BY <1>1, <1>5, <3>2
    <3> QED BY <1>1, <1>4, <3>1, <3>2
  <2>2. ASSUME NEW d \in Conversations, d # c, NEW j \in DOMAIN turns[d]
        PROVE  turns[d][j].after < j
        BY DEF IInv, AfterIsEarlier
  <2> QED BY <1>3, <1>4, <2>1, <2>2 DEF AfterIsEarlier
<1>11. SeenTurnsPrecede'
  <2>1. ASSUME NEW j \in 1..Len(ts), NEW i \in 1..ts[j].after
        PROVE  ts[i].number < ts[j].number
    <3>1. CASE j \in 1..n
      <4>1. ts[j] = turns[c][j] /\ turns[c][j].after < j /\ ts[j].after \in Nat
            BY <1>1, <1>7, <3>1 DEF IInv, AfterIsEarlier
      <4>2. i \in 1..n
            BY <1>1, <3>1, <4>1
      <4>3. turns[c][i].number < turns[c][j].number
            BY <1>1, <3>1, <4>1 DEF IInv, SeenTurnsPrecede
      <4> QED BY <4>1, <4>2, <4>3
    <3>2. CASE j \in (n + 1)..Len(ts)
      <4>1. ts[j].number = work[a].top + 1 /\ i \in 1..work[a].seen
            BY <3>2
      <4>2. i \in 1..n
            BY <1>1, <1>5, <4>1
      <4>3. ts[i] = turns[c][i] /\ turns[c][i].number <= work[a].top
            BY <1>5, <4>1, <4>2
      <4>4. i \in 1..Len(ts)
            BY <1>1, <1>4, <4>2
      <4>5. ts[i].number \in Nat
            BY <1>7, <4>4
      <4> QED BY <1>5, <4>1, <4>3, <4>5
    <3> QED BY <1>1, <1>4, <3>1, <3>2
  <2>2. ASSUME NEW d \in Conversations, d # c, NEW j \in DOMAIN turns[d],
               NEW i \in 1..turns[d][j].after
        PROVE  turns[d][i].number < turns[d][j].number
        BY DEF IInv, SeenTurnsPrecede
  <2> QED BY <1>3, <1>4, <2>1, <2>2 DEF SeenTurnsPrecede
<1>12. ExistsWithTurns'
  <2>1. ts # <<>>
        BY <1>1, <1>4
  <2> QED BY <1>3, <2>1 DEF IInv, ExistsWithTurns
<1>13. NormalizersSawTurns'
  <2>1. ts # <<>>
        BY <1>1, <1>4
  <2>2. ASSUME NEW m \in Normalizers, work'[m].at = "saving"
        PROVE  turns'[Conv[m]] # <<>>
    <3>1. m \in Actors /\ Conv[m] \in Conversations
          BY ConversationStoreAssumption DEF Actors
    <3>2. work[m].at = "saving"
          BY <1>2, <2>2, <3>1
    <3>3. turns[Conv[m]] # <<>>
          BY <3>2 DEF IInv, NormalizersSawTurns, At
    <3> HIDE DEF c, n
    <3> QED BY <1>3, <2>1, <3>1, <3>3
  <2> QED BY <2>2 DEF NormalizersSawTurns, At
<1> QED BY <1>6, <1>8, <1>9, <1>10, <1>11, <1>12, <1>13 DEF IInv

-----------------------------------------------------------------------------
(* The actions                                                             *)

LEMMA ChatReads ==
    ASSUME IInv, NEW r \in Chats,
           LoadRow(r) \/ LoadTurns(r) \/ DescribeImages(r)
    PROVE  IInv'
<1>0. r \in Actors /\ Conv[r] \in Conversations /\ work[r] \in WorkType
      BY ConversationStoreAssumption DEF Actors, IInv, TypeOK
<1>1. CASE LoadRow(r)
  <2> DEFINE place == IF row[Conv[r]].exists THEN "turns" ELSE "insert"
             w == ReadingRow(work[r], row[Conv[r]], place)
  <2>1. place \in Places /\ place # "saving" /\ row[Conv[r]] \in RowType
        BY <1>0 DEF Places, IInv, TypeOK
  <2>2. work' = [work EXCEPT ![r] = w] /\ UNCHANGED <<row, turns, lock>>
        BY <1>0, <1>1 DEF LoadRow, ReadingRow, IInv, TypeOK
  <2> HIDE DEF place
  <2>3. w \in WorkType /\ w.top = work[r].top /\ w.seen = work[r].seen /\ w.at = place
        BY <1>0, <2>1, RowRead
  <2> HIDE DEF w
  <2>4. /\ work' \in [Actors -> WorkType]
        /\ \A a \in Actors : work'[a].top = work[a].top /\ work'[a].seen = work[a].seen
        /\ \A a \in Actors : work'[a].at = "saving" => At(a, "saving")
        BY <1>0, <2>1, <2>2, <2>3 DEF IInv, TypeOK, At
  <2>5. lock' \in [Conversations -> Actors \union {Free}]
        BY <2>2 DEF IInv, TypeOK
  <2> QED BY <2>2, <2>4, <2>5, QuietStep DEF Actors
<1>2. CASE LoadTurns(r)
  <2> DEFINE ts == turns[Conv[r]]
  <2>1. /\ MaxNumber(ts) \in Nat
        /\ MaxNumber(ts) <= Len(ts)
        /\ \A i \in DOMAIN ts : ts[i].number <= MaxNumber(ts)
        BY <1>0, TurnsOf, MaxNumberBounds
  <2>2. /\ work' = [work EXCEPT ![r].top = MaxNumber(ts), ![r].seen = Len(ts),
                                ![r].at = "calling"]
        /\ UNCHANGED <<row, turns, lock>>
        BY <1>2 DEF LoadTurns
  <2> QED BY <1>0, <2>1, <2>2, ReadKeeps, "calling" \in Places, "calling" # "saving" DEF Places
<1>3. CASE DescribeImages(r)
  <2>1. /\ work' = [work EXCEPT ![r].images = TRUE]
        /\ UNCHANGED <<row, turns, lock>>
        BY <1>3 DEF DescribeImages
  <2>2. /\ work' \in [Actors -> WorkType]
        /\ \A a \in Actors : work'[a].top = work[a].top /\ work'[a].seen = work[a].seen
        /\ \A a \in Actors : work'[a].at = work[a].at
        BY <1>0, <2>1 DEF IInv, TypeOK, WorkType
  <2>3. lock' \in [Conversations -> Actors \union {Free}]
        BY <2>1 DEF IInv, TypeOK
  <2> QED BY <2>1, <2>2, <2>3, QuietStep DEF Actors, At
<1> QED BY <1>1, <1>2, <1>3

LEMMA ChatMoves ==
    ASSUME IInv, NEW r \in Chats,
           Insert(r) \/ InsertTimesOut(r) \/ Answered(r) \/ Fails(r) \/ Abandon(r)
    PROVE  IInv'
<1>1. r \in Actors /\ Conv[r] \in Conversations
      BY ConversationStoreAssumption DEF Actors
<1>2. PICK place \in Places : Goto(r, place) /\ UNCHANGED <<row, turns>>
      BY DEF Insert, InsertTimesOut, LockTimeout, Answered, Fails, Abandon, Places, Over
<1>3. lock' \in [Conversations -> Actors \union {Free}]
  <2>1. CASE UNCHANGED lock
        BY <2>1 DEF IInv, TypeOK
  <2>2. CASE lock' = [lock EXCEPT ![Conv[r]] = r]
        BY <1>1, <2>2 DEF IInv, TypeOK
  <2>3. CASE Release(r)
        BY <1>1, <2>3, ReleaseType DEF IInv
  <2> QED BY <2>1, <2>2, <2>3
      DEF Insert, InsertTimesOut, LockTimeout, Answered, Fails, Abandon
<1> QED BY <1>1, <1>2, <1>3, MoveKeeps

LEMMA ReclaimKeeps ==
    ASSUME IInv, NEW r \in Chats, Reclaim(r)
    PROVE  IInv'
<1>1. r \in Actors /\ UNCHANGED <<row, turns, work>>
      BY DEF Reclaim, Actors
<1>2. lock' \in [Conversations -> Actors \union {Free}]
      BY <1>1, ReleaseType DEF IInv, Reclaim
<1>3. work' \in [Actors -> WorkType]
      BY <1>1 DEF IInv, TypeOK
<1> QED BY <1>1, <1>2, <1>3, QuietStep DEF At

LEMMA WriteFailKeeps ==
    ASSUME IInv, NEW a \in Actors, WriteFails(a)
    PROVE  IInv'
<1>1. PICK place \in Places : place # "saving" /\ Goto(a, place) /\ UNCHANGED <<row, turns>>
      BY DEF WriteFails, SaveFails, SaveTimesOut, LockTimeout, Places, Over
<1>2. lock' \in [Conversations -> Actors \union {Free}]
      BY ReleaseType DEF WriteFails, SaveFails, SaveTimesOut, LockTimeout, IInv, TypeOK
<1> QED BY <1>1, <1>2, MoveKeeps

LEMMA TurnHasType ==
    ASSUME IInv, NEW a \in Actors,
           NEW kind \in {"normal", "degradation", "normalization"},
           NEW flags \in SUBSET UNION {Content[x] : x \in Chats}, NEW cost \in Nat
    PROVE  /\ Turn(a, kind, flags, cost) \in TurnType
           /\ Turn(a, kind, flags, cost).number = work[a].top + 1
           /\ Turn(a, kind, flags, cost).after = work[a].seen
<1>1. /\ work[a].top \in Nat /\ work[a].seen \in Nat
      /\ work[a].top + 1 \in Nat \ {0}
      BY DEF IInv, TypeOK, WorkType
<1> QED BY <1>1 DEF Turn, TurnType

\* A chat appends its turn, after that of the described images if there is one.
LEMMA SaveKeeps ==
    ASSUME IInv, NEW r \in Chats, Save(r)
    PROVE  IInv'
<1> DEFINE c == Conv[r]
           s == turns[c]
           d == Turn(r, "degradation", {}, 1)
           t == Turn(r, "normal", Content[r], Cost[r])
           ts == s \o Described(r) \o <<t>>
<1>1. /\ r \in Actors /\ c \in Conversations
      /\ s \in Seq(TurnType) /\ Len(s) \in Nat
      BY TurnsOf DEF Actors
<1>2. /\ d \in TurnType /\ d.number = work[r].top + 1 /\ d.after = work[r].seen
      /\ t \in TurnType /\ t.number = work[r].top + 1 /\ t.after = work[r].seen
  <2>1. Content[r] \in SUBSET UNION {Content[x] : x \in Chats} /\ Cost[r] \in Nat
    <3>1. \A f \in Content[r] : f \in UNION {Content[x] : x \in Chats}
          OBVIOUS
    <3>2. Content[r] \subseteq UNION {Content[x] : x \in Chats}
          BY <3>1
    <3> QED BY <3>2, ConversationStoreAssumption
  <2>2. d \in TurnType /\ d.number = work[r].top + 1 /\ d.after = work[r].seen
    <3>1. {} \in SUBSET UNION {Content[x] : x \in Chats} /\ 1 \in Nat
          OBVIOUS
    <3> QED BY <1>1, <3>1, TurnHasType, Zenon
  <2>3. t \in TurnType /\ t.number = work[r].top + 1 /\ t.after = work[r].seen
        BY <1>1, <2>1, TurnHasType
  <2> QED BY <2>2, <2>3
<1> HIDE DEF d, t
<1>3. /\ ts \in Seq(TurnType)
      /\ Len(ts) > Len(s)
      /\ \A i \in 1..Len(s) : ts[i] = s[i]
      /\ \A i \in (Len(s) + 1)..Len(ts) : ts[i] \in {d, t}
  <2> HIDE DEF s
  <2>1. CASE work[r].images
    <3>1. ts = Append(Append(s, d), t)
          BY <1>1, <1>2, <2>1 DEF Described, d
    <3> HIDE DEF ts
    <3> QED BY <1>1, <1>2, <3>1
  <2>2. CASE ~work[r].images
    <3>1. ts = Append(s, t)
          BY <1>1, <1>2, <2>2 DEF Described
    <3> HIDE DEF ts
    <3> QED BY <1>1, <1>2, <3>1
  <2> QED BY <2>1, <2>2
<1>4. \A i \in (Len(s) + 1)..Len(ts) :
          ts[i].number = work[r].top + 1 /\ ts[i].after = work[r].seen
      BY <1>2, <1>3
<1>5. /\ turns' = [turns EXCEPT ![c] = ts]
      /\ row' = [row EXCEPT ![c] = RowAfter(r)]
      /\ Goto(r, "stored")
      /\ Release(r)
      BY DEF Save, t
<1>6. RowAfter(r) \in RowType /\ RowAfter(r).exists
  <2>1. row[c] \in RowType /\ work[r].row \in RowType
        BY <1>1 DEF IInv, TypeOK, WorkType
  <2>2. Cost[r] \in Nat
        BY ConversationStoreAssumption
  <2> QED BY <2>1, <2>2 DEF RowAfter, RowType
<1>7. /\ row' \in [Conversations -> RowType]
      /\ \A k \in Conversations \ {c} : row'[k].exists = row[k].exists
      /\ row'[c].exists
      BY <1>1, <1>5, <1>6 DEF IInv, TypeOK
<1>8. lock' \in [Conversations -> Actors \union {Free}]
      BY <1>1, <1>5, ReleaseType DEF IInv
<1> HIDE DEF ts
<1> QED BY <1>1, <1>3, <1>4, <1>5, <1>7, <1>8, StoreKeeps

LEMMA NormalizerKeeps ==
    ASSUME IInv, NEW n \in Normalizers, NormalizerStep(n)
    PROVE  IInv'
<1> DEFINE c == Conv[n]
           s == turns[c]
<1>1. /\ n \in Actors /\ c \in Conversations
      /\ s \in Seq(TurnType) /\ Len(s) \in Nat
      /\ DOMAIN s = 1..Len(s)
      /\ \A i \in DOMAIN s : s[i].number <= Len(s)
      BY TurnsOf DEF Actors
<1>2. lock \in [Conversations -> Actors \union {Free}]
      BY DEF IInv, TypeOK
<1>3. CASE ReadForNormalization(n)
  <2>1. s # <<>>
        BY <1>1, <1>3 DEF ReadForNormalization, HasParallelCalls
  <2>2. /\ work' = [work EXCEPT ![n].top = Len(s), ![n].seen = Len(s), ![n].at = "saving"]
        /\ UNCHANGED <<row, turns, lock>>
        BY <1>3 DEF ReadForNormalization
  <2>3. "saving" \in Places /\ Len(s) <= Len(s)
        BY <1>1 DEF Places
  <2> QED BY <1>1, <2>1, <2>2, <2>3, ReadKeeps
<1>4. CASE NothingToNormalize(n)
  <2>1. Goto(n, "failed") /\ UNCHANGED <<row, turns, lock>>
        BY <1>4 DEF NothingToNormalize
  <2> QED BY <1>1, <1>2, <2>1, MoveKeeps, "failed" \in Places, "failed" # "saving" DEF Places, Over
<1>5. CASE SaveNormalization(n)
  <2> DEFINE t == Turn(n, "normalization", {}, 0)
             ts == Append(s, t)
  <2>1. t \in TurnType /\ t.number = work[n].top + 1 /\ t.after = work[n].seen
        BY <1>1, TurnHasType
  <2>2. /\ turns' = [turns EXCEPT ![c] = ts]
        /\ UNCHANGED <<row, lock>>
        /\ Goto(n, "stored")
        BY <1>5 DEF SaveNormalization
  <2>3. row[c].exists
        BY <1>1, <1>5 DEF SaveNormalization, IInv, NormalizersSawTurns, ExistsWithTurns
  <2>4. row \in [Conversations -> RowType]
        BY DEF IInv, TypeOK
  <2> HIDE DEF t
  <2>5. /\ ts \in Seq(TurnType)
        /\ Len(ts) > Len(s)
        /\ \A i \in 1..Len(s) : ts[i] = s[i]
        /\ \A i \in (Len(s) + 1)..Len(ts) :
              ts[i].number = work[n].top + 1 /\ ts[i].after = work[n].seen
        BY <1>1, <2>1
  <2> HIDE DEF ts
  <2> QED BY <1>1, <1>2, <2>2, <2>3, <2>4, <2>5, StoreKeeps
<1> QED BY <1>3, <1>4, <1>5 DEF NormalizerStep

-----------------------------------------------------------------------------

LEMMA IInvInit == Init => IInv
<1> SUFFICES ASSUME Init PROVE IInv
    OBVIOUS
<1>1. NoRow \in RowType /\ NoRow.exists = FALSE
      BY DEF NoRow, RowType
<1>2. Arrived \in WorkType /\ Arrived.at = "arrived" /\ Arrived.seen = 0 /\ Arrived.top = 0
      BY <1>1 DEF Arrived, WorkType
<1>3. TypeOK
      BY <1>1, <1>2 DEF Init, TypeOK
<1>4. \A c \in Conversations : turns[c] = <<>> /\ Len(turns[c]) = 0 /\ DOMAIN turns[c] = {}
      BY DEF Init
<1>5. NumbersWithinLength /\ AfterIsEarlier /\ SeenTurnsPrecede
      BY <1>4 DEF NumbersWithinLength, AfterIsEarlier, SeenTurnsPrecede
<1>6. ReadsHold
      BY <1>2, <1>4, ConversationStoreAssumption DEF Init, ReadsHold
<1>7. ExistsWithTurns /\ NormalizersSawTurns
      BY <1>1, <1>2, <1>4 DEF Init, ExistsWithTurns, NormalizersSawTurns, At, Actors
<1> QED BY <1>3, <1>5, <1>6, <1>7 DEF IInv

LEMMA IInvStep == IInv /\ [Next]_vars => IInv'
<1> SUFFICES ASSUME IInv, [Next]_vars PROVE IInv'
    OBVIOUS
<1>1. ASSUME NEW r \in Chats, ChatStep(r) PROVE IInv'
      BY <1>1, ChatReads, ChatMoves, SaveKeeps, ReclaimKeeps DEF ChatStep, SessionStep, CallStep
<1>2. ASSUME NEW n \in Normalizers, NormalizerStep(n) PROVE IInv'
      BY <1>2, NormalizerKeeps
<1>3. ASSUME NEW a \in Actors, WriteFails(a) PROVE IInv'
      BY <1>3, WriteFailKeeps
<1>4. CASE UNCHANGED vars
      BY <1>4, QuietStep DEF vars, IInv, TypeOK, At
<1> QED BY <1>1, <1>2, <1>3, <1>4 DEF Next

\* The tables, the locks and the sessions keep their types.
THEOREM TypeCorrect == Spec => []TypeOK
<1>1. IInv => TypeOK
      BY DEF IInv
<1> QED BY <1>1, IInvInit, IInvStep, PTL DEF Spec

\* A turn is numbered after every turn its request had read, however many
\* requests store their turns between the read and the write.
THEOREM SeenTurnsComeFirst == Spec => []SeenTurnsPrecede
<1>1. IInv => SeenTurnsPrecede
      BY DEF IInv
<1> QED BY <1>1, IInvInit, IInvStep, PTL DEF Spec

\* No turn number exceeds the position at which its turn was committed, so that
\* the len + 1 of normalize-tools is above every number it read.
THEOREM NumbersStayWithinLength == Spec => []NumbersWithinLength
<1>1. IInv => NumbersWithinLength
      BY DEF IInv
<1> QED BY <1>1, IInvInit, IInvStep, PTL DEF Spec

\* The row of a conversation is committed with its first turn or not at all.
THEOREM RowsComeWithTurns == Spec => []ExistsWithTurns
<1>1. IInv => ExistsWithTurns
      BY DEF IInv
<1> QED BY <1>1, IInvInit, IInvStep, PTL DEF Spec

-----------------------------------------------------------------------------
(* The sum of the costs                                                    *)

\* The partial sums that SumOfCosts is defined by.
Sums(f, ts, n) == f[0] = 0 /\ \A k \in 1..n : f[k] = f[k - 1] + ts[k].cost

PartialSums(f, ts, n) == f \in [0..n -> Nat] /\ Sums(f, ts, n)

LEMMA SumsExist ==
    ASSUME NEW ts \in Seq(TurnType), NEW n \in 0..Len(ts)
    PROVE  \E f : PartialSums(f, ts, n)
<1> DEFINE Bad == {m \in 0..Len(ts) : ~\E f : PartialSums(f, ts, m)}
<1> SUFFICES Bad = {}
    OBVIOUS
<1> SUFFICES ASSUME Bad # {} PROVE FALSE
    OBVIOUS
<1>1. Len(ts) \in Nat /\ Bad \subseteq Nat
      OBVIOUS
<1>2. PICK m \in Bad : \A k \in Bad : ~(k < m)
  <2> HIDE DEF Bad
  <2> QED BY <1>1, LeastNumber
<1>3. m \in Nat /\ m <= Len(ts)
      BY <1>1, <1>2
<1>4. m # 0
  <2>1. PartialSums([k \in 0..0 |-> 0], ts, 0)
        BY DEF PartialSums, Sums
  <2> QED BY <1>2, <2>1
<1>5. m - 1 \in 0..Len(ts) /\ m - 1 < m
      BY <1>3, <1>4
<1>6. PICK f : PartialSums(f, ts, m - 1)
      BY <1>2, <1>5
<1>7. ts[m].cost \in Nat
  <2>1. ts[m] \in TurnType
        BY <1>3, <1>4
  <2> QED BY <2>1 DEF TurnType
<1> DEFINE g == [k \in 0..m |-> IF k = m THEN f[m - 1] + ts[m].cost ELSE f[k]]
<1>8. PartialSums(g, ts, m)
  <2>1. \A k \in 0..m : k = m \/ k \in 0..(m - 1)
        BY <1>3
  <2>2. f[m - 1] \in Nat
        BY <1>3, <1>4, <1>6 DEF PartialSums, Sums
  <2>3. g \in [0..m -> Nat]
        BY <1>6, <1>7, <2>1, <2>2 DEF PartialSums, Sums
  <2>4. g[0] = 0
        BY <1>3, <1>4, <1>6 DEF PartialSums, Sums
  <2>5. ASSUME NEW k \in 1..m PROVE g[k] = g[k - 1] + ts[k].cost
    <3>1. CASE k = m
          BY <1>3, <1>4, <3>1
    <3>2. CASE k # m
      <4>1. k \in 1..(m - 1) /\ k - 1 \in 0..m /\ k - 1 # m /\ k \in 0..m
            BY <1>3, <3>2
      <4> QED BY <1>6, <3>2, <4>1 DEF PartialSums, Sums
    <3> QED BY <3>1, <3>2
  <2> HIDE DEF g
  <2> QED BY <2>3, <2>4, <2>5 DEF PartialSums, Sums
<1> QED BY <1>2, <1>8

\* The partial sums are determined by their equations.
LEMMA SamePartialSums ==
    ASSUME NEW ts, NEW n \in Nat, NEW f, PartialSums(f, ts, n),
           NEW g, Sums(g, ts, n)
    PROVE  \A k \in 0..n : g[k] = f[k]
<1> DEFINE Bad == {k \in 0..n : g[k] # f[k]}
<1> SUFFICES ASSUME Bad # {} PROVE FALSE
    OBVIOUS
<1>1. PICK k \in Bad : \A j \in Bad : ~(j < k)
  <2>1. Bad \subseteq Nat
        OBVIOUS
  <2> HIDE DEF Bad
  <2> QED BY <2>1, LeastNumber
<1>2. k \in 1..n
      BY <1>1 DEF PartialSums, Sums
<1>3. k - 1 \in 0..n /\ k - 1 < k
      BY <1>2
<1>4. g[k - 1] = f[k - 1]
      BY <1>1, <1>3
<1> QED BY <1>1, <1>2, <1>4 DEF PartialSums, Sums

LEMMA SumIsPartialSum ==
    ASSUME NEW ts \in Seq(TurnType)
    PROVE  \E f : PartialSums(f, ts, Len(ts)) /\ SumOfCosts(ts) = f[Len(ts)]
<1> DEFINE Eq(f) == f = [n \in 0..Len(ts) |-> IF n = 0 THEN 0 ELSE f[n - 1] + ts[n].cost]
           upTo == CHOOSE f : Eq(f)
<1>1. Len(ts) \in Nat
      OBVIOUS
<1>2. \E f : Eq(f)
  <2>1. PICK f : PartialSums(f, ts, Len(ts))
        BY <1>1, SumsExist
  <2>2. \A n \in 0..Len(ts) : f[n] = IF n = 0 THEN 0 ELSE f[n - 1] + ts[n].cost
        BY <1>1, <2>1 DEF PartialSums, Sums
  <2>3. Eq(f)
        BY <2>1, <2>2 DEF PartialSums, Sums
  <2> QED BY <2>3
<1>3. Eq(upTo)
      BY <1>2
<1>4. SumOfCosts(ts) = upTo[Len(ts)]
      BY DEF SumOfCosts
<1>5. Sums(upTo, ts, Len(ts))
  <2> HIDE DEF upTo
  <2>1. upTo[0] = 0
        BY <1>1, <1>3
  <2>2. \A n \in 1..Len(ts) : n \in 0..Len(ts) /\ n # 0
        BY <1>1
  <2>3. \A n \in 1..Len(ts) : upTo[n] = upTo[n - 1] + ts[n].cost
        BY <1>3, <2>2
  <2> QED BY <2>1, <2>3 DEF Sums
<1> HIDE DEF upTo
<1>6. PICK f : PartialSums(f, ts, Len(ts))
      BY <1>1, SumsExist
<1>7. \A n \in 0..Len(ts) : upTo[n] = f[n]
      BY <1>1, <1>5, <1>6, SamePartialSums
<1> QED BY <1>1, <1>4, <1>6, <1>7

LEMMA SumOfNone == SumOfCosts(<<>>) = 0
<1>1. <<>> \in Seq(TurnType) /\ Len(<<>>) = 0
      OBVIOUS
<1> QED BY <1>1, SumIsPartialSum DEF PartialSums, Sums

\* A turn adds its cost.
LEMMA SumOfAppend ==
    ASSUME NEW ts \in Seq(TurnType), NEW t \in TurnType
    PROVE  /\ SumOfCosts(ts) \in Nat
           /\ SumOfCosts(Append(ts, t)) = SumOfCosts(ts) + t.cost
<1> DEFINE n == Len(ts)
           us == Append(ts, t)
<1>1. /\ n \in Nat /\ us \in Seq(TurnType) /\ Len(us) = n + 1
      /\ us[n + 1] = t /\ \A k \in 1..n : us[k] = ts[k]
      OBVIOUS
<1>2. PICK f : PartialSums(f, ts, n) /\ SumOfCosts(ts) = f[n]
      BY SumIsPartialSum
<1>3. PICK g : PartialSums(g, us, n + 1) /\ SumOfCosts(us) = g[n + 1]
      BY <1>1, SumIsPartialSum
<1> HIDE DEF us, n
<1>4. Sums(g, ts, n)
  <2>1. \A k \in 1..n : k \in 1..(n + 1)
        BY <1>1
  <2> QED BY <1>1, <1>3, <2>1 DEF PartialSums, Sums
<1>5. \A k \in 0..n : g[k] = f[k]
      BY <1>1, <1>2, <1>4, SamePartialSums
<1>6. g[n + 1] = g[n] + t.cost
  <2>1. n + 1 \in 1..(n + 1) /\ (n + 1) - 1 = n
        BY <1>1
  <2> QED BY <1>1, <1>3, <2>1 DEF PartialSums, Sums
<1>7. f[n] \in Nat /\ n \in 0..n
      BY <1>1, <1>2 DEF PartialSums, Sums
<1> QED BY <1>2, <1>3, <1>5, <1>6, <1>7 DEF us

-----------------------------------------------------------------------------
(* The turns of a request and the row they leave                           *)

\* A request has turns only once it is stored, and then one normal turn.
StoredOnce(r) ==
    /\ At(r, "stored") => Cardinality({i \in TurnsBy(r) :
                              turns[Conv[r]][i].kind = "normal"}) = 1
    /\ ~At(r, "stored") => TurnsBy(r) = {}

\* The flags and the tokens x are accounted for by the turns ts.
AccountsFor(ts, x) ==
    /\ \A f \in x.flags : \E i \in DOMAIN ts : f \in ts[i].flags
    /\ x.tokens <= SumOfCosts(ts)

\* What a chat read of the row stays accounted for, however many turns are
\* added before it writes the row back.
RowInv ==
    /\ \A c \in Conversations : AccountsFor(turns[c], row[c])
    /\ \A r \in Chats : AccountsFor(turns[Conv[r]], work[r].row)

\* One more turn, and its effect on what the turns account for.
LEMMA AccountAfterAppend ==
    ASSUME NEW ts \in Seq(TurnType), NEW t \in TurnType,
           NEW x \in RowType, AccountsFor(ts, x)
    PROVE  AccountsFor(Append(ts, t), x)
<1>1. SumOfCosts(ts) \in Nat /\ t.cost \in Nat /\ x.tokens \in Nat
      BY SumOfAppend DEF TurnType, RowType
<1>2. x.tokens <= SumOfCosts(Append(ts, t))
      BY <1>1, SumOfAppend DEF AccountsFor
<1>3. \A i \in DOMAIN ts : i \in DOMAIN Append(ts, t) /\ Append(ts, t)[i] = ts[i]
      OBVIOUS
<1>4. \A f \in x.flags : \E i \in DOMAIN Append(ts, t) : f \in Append(ts, t)[i].flags
      BY <1>3 DEF AccountsFor
<1> QED BY <1>2, <1>4 DEF AccountsFor

\* The row after a turn: what was read, with the flags and the cost of the turn.
LEMMA AccountWithTurn ==
    ASSUME NEW ts \in Seq(TurnType), NEW t \in TurnType,
           NEW x \in RowType, AccountsFor(ts, x),
           NEW y \in RowType, y.flags = x.flags \union t.flags,
           y.tokens <= SumOfCosts(ts) + t.cost
    PROVE  AccountsFor(Append(ts, t), y)
<1>1. /\ SumOfCosts(ts) \in Nat /\ t.cost \in Nat
      /\ x.tokens \in Nat /\ y.tokens \in Nat
      BY SumOfAppend DEF TurnType, RowType
<1>2. y.tokens <= SumOfCosts(Append(ts, t))
      BY <1>1, SumOfAppend DEF AccountsFor
<1>3. /\ \A i \in DOMAIN ts : i \in DOMAIN Append(ts, t) /\ Append(ts, t)[i] = ts[i]
      /\ Len(ts) + 1 \in DOMAIN Append(ts, t) /\ Append(ts, t)[Len(ts) + 1] = t
      OBVIOUS
<1>4. \A f \in y.flags : \E i \in DOMAIN Append(ts, t) : f \in Append(ts, t)[i].flags
      BY <1>3 DEF AccountsFor
<1> QED BY <1>2, <1>4 DEF AccountsFor

\* What a request stores: its turn, after that of the images if there is one.
LEMMA SaveAppends ==
    ASSUME IInv, NEW r \in Chats, Save(r)
    PROVE  \E t \in TurnType, mid \in Seq(TurnType) :
               /\ t.by = r /\ t.kind = "normal"
               /\ t.flags = Content[r] /\ t.cost = Cost[r]
               /\ \/ mid = turns[Conv[r]]
                  \/ \E d \in TurnType : /\ mid = Append(turns[Conv[r]], d)
                                         /\ d.by = r /\ d.kind = "degradation"
               /\ turns' = [turns EXCEPT ![Conv[r]] = Append(mid, t)]
<1> DEFINE s == turns[Conv[r]]
           d == Turn(r, "degradation", {}, 1)
           t == Turn(r, "normal", Content[r], Cost[r])
<1>1. r \in Actors /\ s \in Seq(TurnType)
      BY TurnsOf DEF Actors
<1>2. d \in TurnType /\ d.by = r /\ d.kind = "degradation"
  <2>1. {} \in SUBSET UNION {Content[x] : x \in Chats} /\ 1 \in Nat
        OBVIOUS
  <2>2. d \in TurnType
        BY <1>1, <2>1, TurnHasType, Zenon
  <2> QED BY <2>2 DEF Turn
<1>3. /\ t \in TurnType /\ t.by = r /\ t.kind = "normal"
      /\ t.flags = Content[r] /\ t.cost = Cost[r]
  <2>1. Content[r] \in SUBSET UNION {Content[x] : x \in Chats} /\ Cost[r] \in Nat
    <3>1. \A f \in Content[r] : f \in UNION {Content[x] : x \in Chats}
          OBVIOUS
    <3> QED BY <3>1, ConversationStoreAssumption
  <2>2. t \in TurnType
        BY <1>1, <2>1, TurnHasType
  <2> QED BY <2>2 DEF Turn
<1>4. turns' = [turns EXCEPT ![Conv[r]] = s \o Described(r) \o <<t>>]
      BY DEF Save
<1>5. CASE work[r].images
  <2>1. Described(r) = <<d>>
        BY <1>5 DEF Described
  <2> HIDE DEF s, d, t
  <2>2. s \o <<d>> \o <<t>> = Append(Append(s, d), t) /\ Append(s, d) \in Seq(TurnType)
        BY <1>1, <1>2, <1>3
  <2>3. turns' = [turns EXCEPT ![Conv[r]] = Append(Append(s, d), t)]
        BY <1>4, <2>1, <2>2
  <2> QED BY <1>2, <1>3, <2>2, <2>3 DEF s
<1>6. CASE ~work[r].images
  <2>1. Described(r) = <<>>
        BY <1>6 DEF Described
  <2> HIDE DEF s, d, t
  <2>2. s \o <<>> \o <<t>> = Append(s, t)
        BY <1>1, <1>3
  <2>3. turns' = [turns EXCEPT ![Conv[r]] = Append(s, t)]
        BY <1>4, <2>1, <2>2
  <2> QED BY <1>1, <1>3, <2>3 DEF s
<1> QED BY <1>5, <1>6

LEMMA NormalizationAppends ==
    ASSUME IInv, NEW n \in Normalizers, SaveNormalization(n)
    PROVE  \E t \in TurnType :
               /\ t.by = n
               /\ turns' = [turns EXCEPT ![Conv[n]] = Append(turns[Conv[n]], t)]
<1> DEFINE t == Turn(n, "normalization", {}, 0)
<1>1. t \in TurnType /\ t.by = n
  <2>1. t \in TurnType
        BY TurnHasType DEF Actors
  <2> QED BY <2>1 DEF Turn
<1>2. turns' = [turns EXCEPT ![Conv[n]] = Append(turns[Conv[n]], t)]
      BY DEF SaveNormalization
<1> QED BY <1>1, <1>2

\* Every other step leaves the tables alone and stores nobody.
LEMMA OtherSteps ==
    ASSUME IInv, [Next]_vars, ~\E r \in Chats : Save(r),
           ~\E n \in Normalizers : SaveNormalization(n)
    PROVE  /\ UNCHANGED <<row, turns>>
           /\ \A r \in Chats : At(r, "stored")' = At(r, "stored")
           /\ \A r \in Chats : work'[r].row \in {work[r].row, row[Conv[r]]}
<1>1. work \in [Actors -> WorkType] /\ Chats \subseteq Actors
      BY DEF IInv, TypeOK, Actors
<1>2. ASSUME NEW a \in Actors, NEW place, place # "stored", Goto(a, place),
             work[a].at # "stored"
      PROVE  /\ \A r \in Chats : At(r, "stored")' = At(r, "stored")
             /\ \A r \in Chats : work'[r].row = work[r].row
      BY <1>1, <1>2 DEF WorkType, Goto, At
<1>3. ASSUME NEW r \in Chats,
             InsertTimesOut(r) \/ Insert(r) \/ Answered(r) \/ Fails(r) \/ Abandon(r)
      PROVE  /\ UNCHANGED <<row, turns>>
             /\ \E place : place # "stored" /\ Goto(r, place) /\ work[r].at # "stored"
      BY <1>3 DEF InsertTimesOut, Insert, Answered, Fails, Abandon, LockTimeout, At
<1>4. ASSUME NEW r \in Chats, LoadRow(r)
      PROVE  /\ UNCHANGED <<row, turns>>
             /\ \A q \in Chats : At(q, "stored")' = At(q, "stored")
             /\ \A q \in Chats : work'[q].row \in {work[q].row, row[Conv[q]]}
  <2> DEFINE w == ReadingRow(work[r], row[Conv[r]],
                             IF row[Conv[r]].exists THEN "turns" ELSE "insert")
  <2>1. work' = [work EXCEPT ![r] = w] /\ work[r].at = "arrived"
        /\ UNCHANGED <<row, turns>>
        BY <1>1, <1>4 DEF LoadRow, ReadingRow, At
  <2>2. w.row = row[Conv[r]] /\ w.at # "stored"
        BY <1>1 DEF ReadingRow, WorkType
  <2> HIDE DEF w
  <2> QED BY <1>1, <2>1, <2>2 DEF At
<1>5. ASSUME NEW r \in Chats, LoadTurns(r)
      PROVE  /\ UNCHANGED <<row, turns>>
             /\ \A q \in Chats : At(q, "stored")' = At(q, "stored")
             /\ \A q \in Chats : work'[q].row = work[q].row
  <2> DEFINE w == ReadingTurns(work[r], MaxNumber(turns[Conv[r]]), Len(turns[Conv[r]]),
                               "calling")
  <2>1. work' = [work EXCEPT ![r] = w] /\ work[r].at = "turns" /\ UNCHANGED <<row, turns>>
        BY <1>1, <1>5 DEF LoadTurns, ReadingTurns, At
  <2>2. w.row = work[r].row /\ w.at # "stored"
        BY <1>1 DEF ReadingTurns, WorkType
  <2> HIDE DEF w
  <2> QED BY <1>1, <2>1, <2>2 DEF At
<1>6. ASSUME NEW r \in Chats, DescribeImages(r)
      PROVE  /\ UNCHANGED <<row, turns>>
             /\ \A q \in Chats : At(q, "stored")' = At(q, "stored")
             /\ \A q \in Chats : work'[q].row = work[q].row
      BY <1>1, <1>6 DEF DescribeImages, WorkType, At
<1>7. ASSUME NEW n \in Normalizers, ReadForNormalization(n) \/ NothingToNormalize(n)
      PROVE  /\ UNCHANGED <<row, turns>>
             /\ \A q \in Chats : work'[q] = work[q]
      BY <1>1, <1>7, ConversationStoreAssumption
      DEF ReadForNormalization, NothingToNormalize, Goto
<1>8. ASSUME NEW a \in Actors, WriteFails(a)
      PROVE  /\ UNCHANGED <<row, turns>>
             /\ \E place : place # "stored" /\ Goto(a, place) /\ work[a].at # "stored"
      BY <1>8 DEF WriteFails, SaveFails, SaveTimesOut, LockTimeout, At
<1>9. CASE UNCHANGED vars
      BY <1>9 DEF vars, At
<1>10. CASE \E r \in Chats : ChatStep(r)
  <2>1. PICK r \in Chats : ChatStep(r)
        BY <1>10
  <2>2. CASE InsertTimesOut(r) \/ Insert(r) \/ Answered(r) \/ Fails(r) \/ Abandon(r)
        BY <1>1, <1>2, <1>3, <2>2
  <2>3. CASE Reclaim(r)
        BY <2>3 DEF Reclaim, At
  <2> QED BY <1>4, <1>5, <1>6, <2>1, <2>2, <2>3 DEF ChatStep, SessionStep, CallStep
<1>11. CASE \E n \in Normalizers : NormalizerStep(n)
       BY <1>7, <1>11 DEF NormalizerStep, At
<1>12. CASE \E a \in Actors : WriteFails(a)
       BY <1>2, <1>8, <1>12
<1> QED BY <1>9, <1>10, <1>11, <1>12 DEF Next

\* Turns of another actor leave those of a request alone.
LEMMA OthersTurn ==
    ASSUME IInv, NEW r \in Chats, NEW a \in Actors \ {r}, NEW t \in TurnType, t.by = a,
           NEW mid \in Seq(TurnType),
           \/ mid = turns[Conv[a]]
           \/ \E d \in TurnType : mid = Append(turns[Conv[a]], d) /\ d.by = a,
           turns' = [turns EXCEPT ![Conv[a]] = Append(mid, t)]
    PROVE  /\ TurnsBy(r)' = TurnsBy(r)
           /\ \A i \in TurnsBy(r) : turns'[Conv[r]][i] = turns[Conv[r]][i]
<1> DEFINE s == turns[Conv[a]]
           ts == Append(mid, t)
<1>1. /\ Conv[a] \in Conversations /\ Conv[r] \in Conversations
      /\ s \in Seq(TurnType) /\ Len(s) \in Nat /\ DOMAIN s = 1..Len(s)
      BY TurnsOf DEF Actors
<1>2. turns'[Conv[a]] = ts /\ (Conv[r] # Conv[a] => turns'[Conv[r]] = turns[Conv[r]])
      BY <1>1 DEF IInv, TypeOK
<1>3. /\ DOMAIN s \subseteq DOMAIN ts
      /\ \A i \in DOMAIN s : ts[i] = s[i]
      /\ \A i \in DOMAIN ts \ DOMAIN s : ts[i].by = a
  <2> HIDE DEF s
  <2>1. /\ DOMAIN s \subseteq DOMAIN mid
        /\ \A i \in DOMAIN s : mid[i] = s[i]
        /\ \A i \in DOMAIN mid \ DOMAIN s : mid[i].by = a
    <3>1. CASE mid # s
      <4>1. PICK d \in TurnType : mid = Append(s, d) /\ d.by = a
            BY <3>1 DEF s
      <4> QED BY <1>1, <4>1
    <3> QED BY <3>1
  <2>2. /\ DOMAIN mid \subseteq DOMAIN ts
        /\ \A i \in DOMAIN mid : ts[i] = mid[i]
        /\ \A i \in DOMAIN ts \ DOMAIN mid : ts[i] = t
        OBVIOUS
  <2> HIDE DEF ts
  <2> QED BY <2>1, <2>2
<1> HIDE DEF ts
<1>4. CASE Conv[r] = Conv[a]
      BY <1>2, <1>3, <1>4 DEF TurnsBy
<1>5. CASE Conv[r] # Conv[a]
      BY <1>2, <1>5 DEF TurnsBy
<1> QED BY <1>4, <1>5

LEMMA StoredOnceStep ==
    ASSUME IInv, [Next]_vars, NEW r \in Chats, StoredOnce(r)
    PROVE  StoredOnce(r)'
<1> DEFINE Normal == {i \in TurnsBy(r) : turns[Conv[r]][i].kind = "normal"}
<1>1. work \in [Actors -> WorkType] /\ r \in Actors /\ Conv[r] \in Conversations
      BY ConversationStoreAssumption DEF IInv, TypeOK, Actors
<1>2. ASSUME TurnsBy(r)' = TurnsBy(r),
             \A i \in TurnsBy(r) : turns'[Conv[r]][i] = turns[Conv[r]][i],
             At(r, "stored")' = At(r, "stored")
      PROVE  StoredOnce(r)'
  <2>1. Normal' = Normal
        BY <1>2
  <2> QED BY <1>2, <2>1 DEF StoredOnce
<1>3. CASE Save(r)
  <2>1. PICK t \in TurnType, mid \in Seq(TurnType) :
               /\ t.by = r /\ t.kind = "normal"
               /\ \/ mid = turns[Conv[r]]
                  \/ \E d \in TurnType : /\ mid = Append(turns[Conv[r]], d)
                                         /\ d.by = r /\ d.kind = "degradation"
               /\ turns' = [turns EXCEPT ![Conv[r]] = Append(mid, t)]
        BY <1>3, SaveAppends
  <2> DEFINE s == turns[Conv[r]]
             ts == Append(mid, t)
             n == Len(mid) + 1
  <2>2. s \in Seq(TurnType) /\ Len(s) \in Nat /\ DOMAIN s = 1..Len(s)
        BY <1>1, TurnsOf
  <2>3. turns'[Conv[r]] = ts
        BY <1>1, <2>1 DEF IInv, TypeOK
  <2>4. TurnsBy(r) = {} /\ At(r, "stored")'
        BY <1>1, <1>3 DEF Save, StoredOnce, At, Goto, IInv, TypeOK, WorkType
  <2>5. \A i \in DOMAIN s : s[i].by # r
        BY <2>4 DEF TurnsBy
  <2>6. \A i \in DOMAIN mid : mid[i].by = r => mid[i].kind # "normal"
    <3> HIDE DEF s
    <3>1. CASE mid = s
          BY <2>5, <3>1
    <3>2. CASE mid # s
      <4>1. PICK d \in TurnType : mid = Append(s, d) /\ d.kind = "degradation"
            BY <2>1, <3>2 DEF s
      <4> QED BY <2>2, <2>5, <4>1
    <3> QED BY <3>1, <3>2
  <2>7. /\ n \in DOMAIN ts /\ ts[n] = t
        /\ \A i \in DOMAIN ts \ {n} : i \in DOMAIN mid /\ ts[i] = mid[i]
        OBVIOUS
  <2>8. Normal' = {i \in DOMAIN ts : ts[i].by = r /\ ts[i].kind = "normal"}
        BY <2>3 DEF TurnsBy
  <2> HIDE DEF ts, n
  <2>9. Normal' = {n}
        BY <2>1, <2>6, <2>7, <2>8
  <2> HIDE DEF Normal
  <2>10. Cardinality(Normal') = 1
         BY <2>9, FS_Singleton
  <2> QED BY <2>4, <2>10 DEF StoredOnce, Normal
<1>4. ASSUME NEW q \in Chats \ {r}, Save(q) PROVE StoredOnce(r)'
  <2>1. PICK t \in TurnType, mid \in Seq(TurnType) :
               /\ t.by = q
               /\ \/ mid = turns[Conv[q]]
                  \/ \E d \in TurnType : mid = Append(turns[Conv[q]], d) /\ d.by = q
               /\ turns' = [turns EXCEPT ![Conv[q]] = Append(mid, t)]
        BY <1>4, SaveAppends
  <2>2. q \in Actors \ {r}
        BY DEF Actors
  <2>3. At(r, "stored")' = At(r, "stored")
        BY <1>1, <1>4 DEF Save, At, Goto
  <2> QED BY <1>2, <2>1, <2>2, <2>3, OthersTurn
<1>5. ASSUME NEW n \in Normalizers, SaveNormalization(n) PROVE StoredOnce(r)'
  <2>1. PICK t \in TurnType :
               /\ t.by = n
               /\ turns' = [turns EXCEPT ![Conv[n]] = Append(turns[Conv[n]], t)]
        BY <1>5, NormalizationAppends
  <2>2. n \in Actors \ {r} /\ turns[Conv[n]] \in Seq(TurnType)
        BY ConversationStoreAssumption, TurnsOf DEF Actors
  <2>3. At(r, "stored")' = At(r, "stored")
        BY <1>1, <1>5, <2>2 DEF SaveNormalization, At, Goto
  <2> QED BY <1>2, <2>1, <2>2, <2>3, OthersTurn
<1>6. CASE ~(\E q \in Chats : Save(q)) /\ ~\E n \in Normalizers : SaveNormalization(n)
  <2>1. UNCHANGED turns /\ At(r, "stored")' = At(r, "stored")
        BY <1>6, OtherSteps
  <2> QED BY <1>2, <2>1 DEF TurnsBy
<1> QED BY <1>3, <1>4, <1>5, <1>6

LEMMA RowInvStep ==
    ASSUME IInv, [Next]_vars, RowInv
    PROVE  RowInv'
<1>1. /\ row \in [Conversations -> RowType]
      /\ turns \in [Conversations -> Seq(TurnType)]
      /\ work \in [Actors -> WorkType]
      /\ Chats \subseteq Actors /\ Normalizers \subseteq Actors
      /\ \A a \in Actors : Conv[a] \in Conversations /\ work[a].row \in RowType
      BY ConversationStoreAssumption DEF IInv, TypeOK, Actors, WorkType
\* Turns are only added.
<1>2. ASSUME NEW c \in Conversations, NEW t \in TurnType, NEW mid \in Seq(TurnType),
             mid = turns[c] \/ \E d \in TurnType : mid = Append(turns[c], d),
             turns' = [turns EXCEPT ![c] = Append(mid, t)]
      PROVE  /\ \A k \in Conversations, x \in RowType :
                    AccountsFor(turns[k], x) => AccountsFor(turns'[k], x)
             /\ \A x \in RowType : AccountsFor(turns[c], x) => AccountsFor(mid, x)
  <2>1. \A x \in RowType : AccountsFor(turns[c], x) => AccountsFor(mid, x)
        BY <1>1, <1>2, AccountAfterAppend
  <2>2. \A x \in RowType : AccountsFor(mid, x) => AccountsFor(Append(mid, t), x)
        BY AccountAfterAppend
  <2>3. turns'[c] = Append(mid, t) /\ \A k \in Conversations \ {c} : turns'[k] = turns[k]
        BY <1>1, <1>2
  <2> QED BY <2>1, <2>2, <2>3
<1>3. ASSUME NEW r \in Chats, Save(r) PROVE RowInv'
  <2> DEFINE c == Conv[r]
             y == RowAfter(r)
  <2>1. PICK t \in TurnType, mid \in Seq(TurnType) :
               /\ t.flags = Content[r] /\ t.cost = Cost[r]
               /\ mid = turns[c] \/ \E d \in TurnType : mid = Append(turns[c], d)
               /\ turns' = [turns EXCEPT ![c] = Append(mid, t)]
        BY <1>3, SaveAppends
  <2>2. c \in Conversations /\ work[r].row \in RowType /\ row[c] \in RowType
        BY <1>1
  <2>3. AccountsFor(mid, work[r].row) /\ AccountsFor(mid, row[c])
        BY <1>2, <2>1, <2>2 DEF RowInv
  <2>4. /\ y \in RowType
        /\ y.flags = work[r].row.flags \union t.flags
        /\ y.tokens <= SumOfCosts(mid) + t.cost
    <3>1. Content[r] \subseteq UNION {Content[x] : x \in Chats}
          OBVIOUS
    <3>2. /\ row[c].tokens \in Nat /\ work[r].row.tokens \in Nat /\ Cost[r] \in Nat
          BY <2>2, ConversationStoreAssumption DEF RowType
    <3>3. y \in RowType
          BY <2>2, <3>1, <3>2 DEF RowAfter, RowType
    <3>4. /\ SumOfCosts(mid) \in Nat
          /\ row[c].tokens <= SumOfCosts(mid) /\ work[r].row.tokens <= SumOfCosts(mid)
          BY <2>1, <2>3, SumOfAppend DEF AccountsFor
    <3>5. y.flags = work[r].row.flags \union t.flags
          BY <2>1 DEF RowAfter
    <3>6. y.tokens \in {row[c].tokens, work[r].row.tokens + Cost[r]}
          BY DEF RowAfter
    <3> QED BY <2>1, <3>2, <3>3, <3>4, <3>5, <3>6
  <2> HIDE DEF y
  <2>5. AccountsFor(turns'[c], y)
    <3>1. turns'[c] = Append(mid, t)
          BY <1>1, <2>1, <2>2
    <3> QED BY <2>2, <2>3, <2>4, <3>1, AccountWithTurn
  <2>6. row' = [row EXCEPT ![c] = y] /\ \A q \in Chats : work'[q].row = work[q].row
        BY <1>1, <1>3 DEF Save, Goto, WorkType, y
  <2>7. ASSUME NEW k \in Conversations PROVE AccountsFor(turns'[k], row'[k])
    <3>1. CASE k = c
          BY <1>1, <2>2, <2>5, <2>6, <3>1
    <3>2. CASE k # c
          BY <1>1, <1>2, <2>1, <2>2, <2>6, <3>2 DEF RowInv
    <3> QED BY <3>1, <3>2
  <2>8. ASSUME NEW q \in Chats PROVE AccountsFor(turns'[Conv[q]], work'[q].row)
        BY <1>1, <1>2, <2>1, <2>2, <2>6 DEF RowInv
  <2> QED BY <2>7, <2>8 DEF RowInv
<1>4. ASSUME NEW n \in Normalizers, SaveNormalization(n) PROVE RowInv'
  <2>1. PICK t \in TurnType :
               turns' = [turns EXCEPT ![Conv[n]] = Append(turns[Conv[n]], t)]
        BY <1>4, NormalizationAppends
  <2>2. \A k \in Conversations, x \in RowType :
            AccountsFor(turns[k], x) => AccountsFor(turns'[k], x)
        BY <1>1, <1>2, <2>1
  <2>3. row' = row /\ \A q \in Chats : work'[q].row = work[q].row
        BY <1>1, <1>4 DEF SaveNormalization, Goto, WorkType
  <2> QED BY <1>1, <2>2, <2>3 DEF RowInv
<1>5. CASE ~(\E q \in Chats : Save(q)) /\ ~\E n \in Normalizers : SaveNormalization(n)
  <2>1. /\ UNCHANGED <<row, turns>>
        /\ \A r \in Chats : work'[r].row \in {work[r].row, row[Conv[r]]}
        BY <1>5, OtherSteps
  <2> QED BY <1>1, <2>1 DEF RowInv
<1> QED BY <1>3, <1>4, <1>5

LEMMA AccountsInit == Init => RowInv /\ \A r \in Chats : StoredOnce(r)
<1> SUFFICES ASSUME Init PROVE RowInv /\ \A r \in Chats : StoredOnce(r)
    OBVIOUS
<1>1. /\ \A a \in Actors : Conv[a] \in Conversations
      /\ \A c \in Conversations : turns[c] = <<>> /\ row[c] = NoRow
      /\ \A r \in Chats : r \in Actors /\ work[r].row = NoRow /\ work[r].at = "arrived"
      BY ConversationStoreAssumption DEF Init, Arrived, Actors
<1>2. AccountsFor(<<>>, NoRow)
      BY SumOfNone DEF AccountsFor, NoRow
<1> QED BY <1>1, <1>2 DEF RowInv, StoredOnce, At, TurnsBy

\* An answered and committed request has exactly one normal turn, and a request
\* that was refused, failed, timed out or lost its commit has left nothing.
THEOREM TurnsAreStoredOnce == Spec => []StoredOnceOrNotAtAll
<1>1. (\A r \in Chats : StoredOnce(r)) <=> StoredOnceOrNotAtAll
      BY DEF StoredOnce, StoredOnceOrNotAtAll
<1>2. IInv /\ StoredOnceOrNotAtAll /\ [Next]_vars => StoredOnceOrNotAtAll'
      BY StoredOnceStep DEF StoredOnceOrNotAtAll, StoredOnce
<1>3. Init => StoredOnceOrNotAtAll
      BY <1>1, AccountsInit
<1> QED BY <1>2, <1>3, IInvInit, IInvStep, PTL DEF Spec

\* Lost updates make the row say less than its turns and never more, for any
\* number of requests that write back what they read before others stored.
THEOREM RowsFollowTheirTurns == Spec => []RowFollowsTurns
<1>1. RowInv => RowFollowsTurns
      BY DEF RowInv, AccountsFor, RowFollowsTurns
<1>2. IInv /\ RowInv /\ [Next]_vars => RowInv'
      BY RowInvStep
<1> QED BY <1>1, <1>2, AccountsInit, IInvInit, IInvStep, PTL DEF Spec

-----------------------------------------------------------------------------
(* The lock of a first request                                             *)

AtWork == {"turns", "calling", "saving"}

\* The places where an actor may hold a lock: OpenSession(a) is HoldsAt(a, work[a].at).
HoldsAt(a, place) ==
    place \in {"calling", "saving"} \/ (a \in Streamed /\ place = "abandoned")

\* A lock is held by a request of its conversation that is at work, or by a stream
\* that was abandoned, and only as long as the row is not committed.  A request that is at work in a conversation
\* without a committed row holds its lock.  SQLite has one lock.
LocksHeld ==
    /\ \A c \in Conversations : lock[c] # Free =>
           /\ Conv[lock[c]] = c
           /\ ~row[c].exists
           /\ HoldsAt(lock[c], work[lock[c]].at)
    /\ \A a \in Actors : work[a].at \in AtWork =>
           row[Conv[a]].exists \/ lock[Conv[a]] = a
    /\ SingleWriter =>
           \A c, d \in Conversations : lock[c] # Free /\ lock[d] # Free => c = d

\* A step of one session that takes and gives up no lock.
LEMMA LocksStay ==
    ASSUME TypeOK, LocksHeld, NEW a \in Actors, UNCHANGED lock,
           \A c \in Conversations : row'[c].exists = row[c].exists,
           \A b \in Actors \ {a} : work'[b].at = work[b].at,
           HoldsAt(a, work'[a].at) \/ lock[Conv[a]] # a,
           work'[a].at \in AtWork => row[Conv[a]].exists \/ lock[Conv[a]] = a
    PROVE  LocksHeld'
<1>1. \A c \in Conversations : lock[c] # Free =>
          lock[c] \in Actors /\ Conv[lock[c]] = c /\ ~row[c].exists
          /\ HoldsAt(lock[c], work[lock[c]].at)
      BY DEF TypeOK, LocksHeld
<1>2. \A b \in Actors : Conv[b] \in Conversations
      BY ConversationStoreAssumption
<1>3. \A c \in Conversations : lock'[c] # Free =>
          /\ Conv[lock'[c]] = c
          /\ ~row'[c].exists
          /\ HoldsAt(lock'[c], work'[lock'[c]].at)
      BY <1>1
<1>4. \A b \in Actors : work'[b].at \in AtWork =>
          row'[Conv[b]].exists \/ lock'[Conv[b]] = b
      BY <1>2 DEF LocksHeld
<1> QED BY <1>3, <1>4 DEF LocksHeld

\* A step of a session that ends, with its lock given up and its conversation
\* committed or not.
LEMMA LocksGivenUp ==
    ASSUME TypeOK, LocksHeld, NEW a \in Actors, Release(a),
           \A c \in Conversations \ {Conv[a]} : row'[c].exists = row[c].exists,
           \/ row'[Conv[a]].exists = row[Conv[a]].exists
           \/ row'[Conv[a]].exists /\ lock[Conv[a]] \in {a, Free},
           \A b \in Actors \ {a} : work'[b].at = work[b].at,
           work'[a].at \notin AtWork
    PROVE  LocksHeld'
<1>1. \A b \in Actors : Conv[b] \in Conversations /\ b # Free
      BY ConversationStoreAssumption
<1>2. /\ lock'[Conv[a]] = IF lock[Conv[a]] = a THEN Free ELSE lock[Conv[a]]
      /\ \A c \in Conversations \ {Conv[a]} : lock'[c] = lock[c]
      BY <1>1 DEF TypeOK, Release
<1>3. \A c \in Conversations : lock'[c] # Free => lock'[c] = lock[c] /\ lock[c] # a
  <2> SUFFICES ASSUME NEW c \in Conversations, lock'[c] # Free
      PROVE lock'[c] = lock[c] /\ lock[c] # a
      OBVIOUS
  <2>1. CASE c = Conv[a]
        BY <1>2, <2>1
  <2>2. CASE c # Conv[a]
        BY <1>2, <2>2 DEF LocksHeld
  <2> QED BY <2>1, <2>2
<1>4. \A c \in Conversations : lock'[c] # Free =>
          /\ Conv[lock'[c]] = c
          /\ ~row'[c].exists
          /\ HoldsAt(lock'[c], work'[lock'[c]].at)
  <2> SUFFICES ASSUME NEW c \in Conversations, lock'[c] # Free
      PROVE  /\ Conv[lock'[c]] = c
             /\ ~row'[c].exists
             /\ HoldsAt(lock'[c], work'[lock'[c]].at)
      OBVIOUS
  <2>1. lock'[c] = lock[c] /\ lock[c] \in Actors \ {a} /\ lock[c] # Free
        BY <1>3 DEF TypeOK
  <2>2. Conv[lock[c]] = c /\ ~row[c].exists /\ HoldsAt(lock[c], work[lock[c]].at)
        BY <2>1 DEF LocksHeld
  <2>3. row'[c].exists = row[c].exists
        BY <2>1
  <2>4. work'[lock[c]].at = work[lock[c]].at
        BY <2>1
  <2> QED BY <2>1, <2>2, <2>3, <2>4
<1>5. ASSUME NEW b \in Actors, work'[b].at \in AtWork
      PROVE  row'[Conv[b]].exists \/ lock'[Conv[b]] = b
  <2>1. b # a /\ work[b].at \in AtWork
        BY <1>5
  <2>2. row[Conv[b]].exists \/ lock[Conv[b]] = b
        BY <2>1 DEF LocksHeld
  <2>3. CASE Conv[b] = Conv[a]
        BY <1>2, <2>1, <2>2, <2>3
  <2>4. CASE Conv[b] # Conv[a]
        BY <1>1, <1>2, <2>2, <2>4
  <2> QED BY <2>3, <2>4
<1>6. SingleWriter =>
          \A c, d \in Conversations : lock'[c] # Free /\ lock'[d] # Free => c = d
      BY <1>3 DEF LocksHeld
<1> QED BY <1>4, <1>5, <1>6 DEF LocksHeld

\* The first request of a conversation takes the lock.
LEMMA LocksTaken ==
    ASSUME TypeOK, LocksHeld, NEW a \in Actors, MayWrite(a),
           ~row[Conv[a]].exists, UNCHANGED row,
           lock' = [lock EXCEPT ![Conv[a]] = a],
           \A b \in Actors \ {a} : work'[b].at = work[b].at,
           work'[a].at = "calling"
    PROVE  LocksHeld'
<1>1. \A b \in Actors : Conv[b] \in Conversations /\ b # Free
      BY ConversationStoreAssumption
<1>2. /\ lock'[Conv[a]] = a
      /\ \A c \in Conversations \ {Conv[a]} : lock'[c] = lock[c]
      BY <1>1 DEF TypeOK
<1>3. lock[Conv[a]] \in {a, Free}
      BY <1>1 DEF MayWrite, Contended
<1>4. ASSUME NEW c \in Conversations, lock'[c] # Free
      PROVE  /\ Conv[lock'[c]] = c
             /\ ~row'[c].exists
             /\ HoldsAt(lock'[c], work'[lock'[c]].at)
  <2>1. CASE c = Conv[a]
        BY <1>2, <2>1 DEF HoldsAt
  <2>2. CASE c # Conv[a]
    <3>1. lock'[c] = lock[c] /\ lock[c] # Free /\ lock[c] \in Actors
          BY <1>2, <1>4, <2>2 DEF TypeOK
    <3>2. Conv[lock[c]] = c /\ ~row[c].exists /\ HoldsAt(lock[c], work[lock[c]].at)
          BY <3>1 DEF LocksHeld
    <3>3. lock[c] # a
          BY <2>2, <3>2
    <3> QED BY <3>1, <3>2, <3>3
  <2> QED BY <2>1, <2>2
<1>5. ASSUME NEW b \in Actors, work'[b].at \in AtWork
      PROVE  row'[Conv[b]].exists \/ lock'[Conv[b]] = b
  <2>1. CASE b = a
        BY <1>2, <2>1
  <2>2. CASE b # a
    <3>1. row[Conv[b]].exists \/ lock[Conv[b]] = b
          BY <1>5, <2>2 DEF LocksHeld
    <3>2. CASE Conv[b] = Conv[a]
          BY <1>1, <1>3, <2>2, <3>1, <3>2
    <3>3. CASE Conv[b] # Conv[a]
          BY <1>1, <1>2, <3>1, <3>3
    <3> QED BY <3>2, <3>3
  <2> QED BY <2>1, <2>2
<1>6. ASSUME SingleWriter, NEW c \in Conversations, lock'[c] # Free
      PROVE  c = Conv[a]
  <2> SUFFICES ASSUME c # Conv[a] PROVE FALSE
      OBVIOUS
  <2>1. lock[c] # Free /\ lock[c] \in {a, Free}
        BY <1>2, <1>6 DEF MayWrite, Contended
  <2>2. Conv[lock[c]] = c
        BY <2>1 DEF LocksHeld
  <2> QED BY <2>1, <2>2
<1> QED BY <1>4, <1>5, <1>6 DEF LocksHeld

\* A session that only moves leaves the others where they are.
LEMMA OthersStay ==
    ASSUME TypeOK, NEW a \in Actors, NEW place \in Places, Goto(a, place)
    PROVE  work'[a].at = place /\ \A b \in Actors \ {a} : work'[b].at = work[b].at
    BY WorkMoves

LEMMA ChatsKeepLocks ==
    ASSUME IInv, LocksHeld, NEW r \in Chats, ChatStep(r)
    PROVE  LocksHeld'
<1>1. /\ r \in Actors /\ Conv[r] \in Conversations /\ r # Free
      /\ work[r] \in WorkType /\ TypeOK
      BY ConversationStoreAssumption DEF Actors, IInv, TypeOK
<1>2. lock[Conv[r]] = r => At(r, "calling") \/ At(r, "saving") \/ At(r, "abandoned")
      BY <1>1 DEF LocksHeld, HoldsAt, At
<1>3. CASE LoadRow(r)
  <2>1. /\ \A b \in Actors \ {r} : work'[b].at = work[b].at
        /\ work'[r].at = IF row[Conv[r]].exists THEN "turns" ELSE "insert"
        BY <1>1, <1>3 DEF LoadRow, TypeOK, WorkType
  <2>2. lock[Conv[r]] # r /\ UNCHANGED <<row, lock>>
        BY <1>2, <1>3 DEF LoadRow, At
  <2> QED BY <1>1, <2>1, <2>2, LocksStay DEF AtWork
<1>4. CASE LoadTurns(r)
  <2>1. /\ \A b \in Actors \ {r} : work'[b].at = work[b].at
        /\ work'[r].at = "calling"
        BY <1>1, <1>4 DEF LoadTurns, TypeOK, WorkType
  <2>2. row[Conv[r]].exists \/ lock[Conv[r]] = r
        BY <1>1, <1>4 DEF LoadTurns, At, LocksHeld, AtWork
  <2> QED BY <1>1, <1>4, <2>1, <2>2, LocksStay DEF LoadTurns, HoldsAt
<1>5. CASE Insert(r) /\ row[Conv[r]].exists
  <2>1. Goto(r, "failed") /\ UNCHANGED <<row, lock>> /\ lock[Conv[r]] # r
        BY <1>2, <1>5 DEF Insert, At
  <2>2. work'[r].at = "failed" /\ \A b \in Actors \ {r} : work'[b].at = work[b].at
        BY <1>1, <2>1, OthersStay, "failed" \in Places DEF Places, Over
  <2> QED BY <1>1, <2>1, <2>2, LocksStay DEF AtWork
<1>6. CASE Insert(r) /\ ~row[Conv[r]].exists
  <2>1. /\ Goto(r, "calling") /\ UNCHANGED row
        /\ lock' = [lock EXCEPT ![Conv[r]] = r]
        /\ MayWrite(r)
        BY <1>6 DEF Insert
  <2>2. work'[r].at = "calling" /\ \A b \in Actors \ {r} : work'[b].at = work[b].at
        BY <1>1, <2>1, OthersStay, "calling" \in Places DEF Places
  <2> QED BY <1>1, <1>6, <2>1, <2>2, LocksTaken
<1>7. CASE InsertTimesOut(r)
  <2>1. Goto(r, "failed") /\ UNCHANGED <<row, lock>> /\ lock[Conv[r]] # r
        BY <1>2, <1>7 DEF InsertTimesOut, LockTimeout, At
  <2>2. work'[r].at = "failed" /\ \A b \in Actors \ {r} : work'[b].at = work[b].at
        BY <1>1, <2>1, OthersStay, "failed" \in Places DEF Places, Over
  <2> QED BY <1>1, <2>1, <2>2, LocksStay DEF AtWork
<1>8. CASE DescribeImages(r)
  <2>1. \A b \in Actors : work'[b].at = work[b].at
        BY <1>1, <1>8 DEF DescribeImages, TypeOK, WorkType
  <2>2. work[r].at = "calling" /\ UNCHANGED <<row, lock>>
        BY <1>8 DEF DescribeImages, At
  <2>3. row[Conv[r]].exists \/ lock[Conv[r]] = r
        BY <1>1, <2>2 DEF LocksHeld, AtWork
  <2> QED BY <1>1, <2>1, <2>2, <2>3, LocksStay DEF HoldsAt
<1>9. CASE Answered(r)
  <2>1. Goto(r, "saving") /\ UNCHANGED <<row, lock>> /\ work[r].at = "calling"
        BY <1>9 DEF Answered, At
  <2>2. work'[r].at = "saving" /\ \A b \in Actors \ {r} : work'[b].at = work[b].at
        BY <1>1, <2>1, OthersStay, "saving" \in Places DEF Places
  <2>3. row[Conv[r]].exists \/ lock[Conv[r]] = r
        BY <1>1, <2>1 DEF LocksHeld, AtWork
  <2> QED BY <1>1, <2>1, <2>2, <2>3, LocksStay DEF HoldsAt
<1>10. CASE Fails(r)
  <2>1. Goto(r, "failed") /\ UNCHANGED row /\ Release(r)
        BY <1>10 DEF Fails
  <2>2. work'[r].at = "failed" /\ \A b \in Actors \ {r} : work'[b].at = work[b].at
        BY <1>1, <2>1, OthersStay, "failed" \in Places DEF Places, Over
  <2> QED BY <1>1, <2>1, <2>2, LocksGivenUp DEF AtWork
<1>11. CASE Save(r)
  <2>1. /\ Goto(r, "stored") /\ Release(r) /\ MayWrite(r)
        /\ row' = [row EXCEPT ![Conv[r]] = RowAfter(r)]
        BY <1>11 DEF Save
  <2>2. work'[r].at = "stored" /\ \A b \in Actors \ {r} : work'[b].at = work[b].at
        BY <1>1, <2>1, OthersStay, "stored" \in Places DEF Places, Over
  <2>3. /\ row'[Conv[r]].exists
        /\ \A c \in Conversations \ {Conv[r]} : row'[c].exists = row[c].exists
    <3>1. RowAfter(r).exists
          BY DEF RowAfter
    <3>2. row \in [Conversations -> RowType]
          BY <1>1 DEF TypeOK
    <3> QED BY <1>1, <2>1, <3>1, <3>2
  <2>4. lock[Conv[r]] \in {r, Free}
        BY <1>1, <2>1 DEF MayWrite, Contended
  <2> QED BY <1>1, <2>1, <2>2, <2>3, <2>4, LocksGivenUp DEF AtWork
<1>12. CASE Abandon(r)
  <2>1. Goto(r, "abandoned") /\ UNCHANGED <<row, lock>> /\ r \in Streamed
        BY <1>12 DEF Abandon
  <2>2. work'[r].at = "abandoned" /\ \A b \in Actors \ {r} : work'[b].at = work[b].at
        BY <1>1, <2>1, OthersStay, "abandoned" \in Places DEF Places, Over
  <2> QED BY <1>1, <2>1, <2>2, LocksStay DEF AtWork, HoldsAt
<1>13. CASE Reclaim(r)
  <2>1. /\ UNCHANGED <<row, work>> /\ Release(r) /\ work[r].at = "abandoned"
        BY <1>13 DEF Reclaim, At
  <2> QED BY <1>1, <2>1, LocksGivenUp DEF AtWork
<1> QED BY <1>3, <1>4, <1>5, <1>6, <1>7, <1>8, <1>9, <1>10, <1>11, <1>12, <1>13
    DEF ChatStep, SessionStep, CallStep

LEMMA NormalizersKeepLocks ==
    ASSUME IInv, LocksHeld, NEW n \in Normalizers, NormalizerStep(n)
    PROVE  LocksHeld'
<1>1. /\ n \in Actors /\ Conv[n] \in Conversations
      /\ work[n] \in WorkType /\ TypeOK
      BY ConversationStoreAssumption DEF Actors, IInv, TypeOK
<1>2. lock[Conv[n]] = n => At(n, "calling") \/ At(n, "saving") \/ At(n, "abandoned")
      BY <1>1, ConversationStoreAssumption DEF LocksHeld, HoldsAt, At
<1>3. CASE ReadForNormalization(n)
  <2>1. /\ \A b \in Actors \ {n} : work'[b].at = work[b].at
        /\ work'[n].at = "saving"
        BY <1>1, <1>3 DEF ReadForNormalization, TypeOK, WorkType
  <2> QED BY <1>1, <1>3, <2>1, LocksStay DEF ReadForNormalization, HoldsAt
<1>4. CASE NothingToNormalize(n)
  <2>1. Goto(n, "failed") /\ UNCHANGED <<row, lock>> /\ lock[Conv[n]] # n
        BY <1>2, <1>4 DEF NothingToNormalize, At
  <2>2. work'[n].at = "failed" /\ \A b \in Actors \ {n} : work'[b].at = work[b].at
        BY <1>1, <2>1, OthersStay, "failed" \in Places DEF Places, Over
  <2> QED BY <1>1, <2>1, <2>2, LocksStay DEF AtWork
<1>5. CASE SaveNormalization(n)
  <2>1. Goto(n, "stored") /\ UNCHANGED <<row, lock>>
        BY <1>5 DEF SaveNormalization
  <2>2. work'[n].at = "stored" /\ \A b \in Actors \ {n} : work'[b].at = work[b].at
        BY <1>1, <2>1, OthersStay, "stored" \in Places DEF Places, Over
  <2>3. row[Conv[n]].exists
        BY <1>1, <1>5 DEF SaveNormalization, IInv, NormalizersSawTurns, ExistsWithTurns
  <2>4. lock[Conv[n]] # n
        BY <1>1, <2>3, ConversationStoreAssumption DEF LocksHeld
  <2> QED BY <1>1, <2>1, <2>2, <2>4, LocksStay DEF AtWork
<1> QED BY <1>3, <1>4, <1>5 DEF NormalizerStep

\* With one writer, a session at "saving" that may not write does not hold a
\* lock itself: its row is committed, and the lock is another conversation's.
LEMMA OthersHoldTheLock ==
    ASSUME IInv, LocksHeld, NEW a \in Actors, At(a, "saving"),
           SingleWriter, ~MayWrite(a)
    PROVE  /\ lock[Conv[a]] # a
           /\ \E c \in Conversations \ {Conv[a]} :
                  lock[c] # Free /\ HoldsAt(lock[c], work[lock[c]].at)
<1>1. Conv[a] \in Conversations /\ a # Free
      BY ConversationStoreAssumption
<1>2. PICK c \in Conversations : lock[c] # Free /\ lock[c] # a
      BY DEF MayWrite, Contended
<1>3. lock[Conv[a]] # a
      BY <1>1, <1>2 DEF LocksHeld
<1>4. row[Conv[a]].exists
      BY <1>3 DEF LocksHeld, AtWork, At
<1>5. c # Conv[a]
      BY <1>2, <1>4 DEF LocksHeld
<1>6. HoldsAt(lock[c], work[lock[c]].at)
      BY <1>2 DEF LocksHeld
<1> QED BY <1>2, <1>3, <1>5, <1>6

LEMMA WriteFailsKeepsLocks ==
    ASSUME IInv, LocksHeld, NEW a \in Actors, WriteFails(a)
    PROVE  LocksHeld'
<1>1. TypeOK
      BY DEF IInv
<1>2. CASE SaveFails(a)
  <2>1. Goto(a, "lost") /\ UNCHANGED row /\ Release(a)
        BY <1>2 DEF SaveFails
  <2>2. work'[a].at = "lost" /\ \A b \in Actors \ {a} : work'[b].at = work[b].at
        BY <1>1, <2>1, OthersStay, "lost" \in Places DEF Places, Over
  <2> QED BY <1>1, <2>1, <2>2, LocksGivenUp DEF AtWork
<1>3. CASE SaveTimesOut(a)
  <2>1. /\ Goto(a, "locked_out") /\ UNCHANGED <<row, lock>>
        /\ At(a, "saving") /\ SingleWriter /\ ~MayWrite(a)
        BY <1>3 DEF SaveTimesOut, LockTimeout
  <2>2. work'[a].at = "locked_out" /\ \A b \in Actors \ {a} : work'[b].at = work[b].at
        BY <1>1, <2>1, OthersStay, "locked_out" \in Places DEF Places, Over
  <2>3. lock[Conv[a]] # a
        BY <2>1, OthersHoldTheLock
  <2> QED BY <1>1, <2>1, <2>2, <2>3, LocksStay DEF AtWork
<1> QED BY <1>2, <1>3 DEF WriteFails

LEMMA LocksHeldInit == Init => LocksHeld
    BY ConversationStoreAssumption DEF Init, LocksHeld, AtWork, Arrived

LEMMA LocksHeldStep == IInv /\ LocksHeld /\ [Next]_vars => LocksHeld'
<1> SUFFICES ASSUME IInv, LocksHeld, [Next]_vars PROVE LocksHeld'
    OBVIOUS
<1>1. CASE Next
      BY <1>1, ChatsKeepLocks, NormalizersKeepLocks, WriteFailsKeepsLocks DEF Next
<1>2. CASE UNCHANGED vars
      BY <1>2 DEF vars, LocksHeld
<1> QED BY <1>1, <1>2

\* Only SaveTimesOut locks out a session that is at "saving".
LEMMA LockedOutBySaveTimesOut ==
    ASSUME IInv, [Next]_vars, NEW a \in Actors, At(a, "saving"),
           work'[a].at = "locked_out"
    PROVE  SaveTimesOut(a)
<1>1. work[a].at = "saving" /\ TypeOK
      BY DEF At, IInv
<1>2. ASSUME NEW b \in Actors, NEW place \in Places, Goto(b, place), place # "locked_out"
      PROVE  FALSE
      BY <1>1, <1>2, OthersStay
<1>3. ASSUME NEW r \in Chats, ChatStep(r) PROVE FALSE
  <2>1. r \in Actors /\ work[r] \in WorkType
        BY <1>1 DEF Actors, TypeOK
  <2>2. CASE LoadRow(r) \/ LoadTurns(r) \/ DescribeImages(r)
        BY <1>1, <2>1, <2>2 DEF LoadRow, LoadTurns, DescribeImages, At, TypeOK, WorkType
  <2>3. CASE Insert(r) \/ InsertTimesOut(r) \/ Answered(r) \/ Fails(r) \/ Abandon(r) \/ Save(r)
    <3>1. \E place \in {"failed", "calling", "saving", "stored", "abandoned"} : Goto(r, place)
          BY <2>3 DEF Insert, InsertTimesOut, LockTimeout, Answered, Fails, Abandon, Save
    <3> QED BY <1>2, <2>1, <3>1 DEF Places, Over
  <2>4. CASE Reclaim(r)
        BY <1>1, <2>4 DEF Reclaim
  <2> QED BY <1>3, <2>2, <2>3, <2>4 DEF ChatStep, SessionStep, CallStep
<1>4. ASSUME NEW n \in Normalizers, NormalizerStep(n) PROVE FALSE
  <2>1. n \in Actors /\ work[n] \in WorkType
        BY <1>1 DEF Actors, TypeOK
  <2>2. CASE ReadForNormalization(n)
        BY <1>1, <2>1, <2>2 DEF ReadForNormalization, At, TypeOK, WorkType
  <2>3. CASE NothingToNormalize(n) \/ SaveNormalization(n)
    <3>1. \E place \in {"failed", "stored"} : Goto(n, place)
          BY <2>3 DEF NothingToNormalize, SaveNormalization
    <3> QED BY <1>2, <2>1, <3>1 DEF Places, Over
  <2> QED BY <1>4, <2>2, <2>3 DEF NormalizerStep
<1>5. ASSUME NEW b \in Actors, SaveFails(b) PROVE FALSE
      BY <1>2, <1>5 DEF SaveFails, Places, Over
<1>6. ASSUME NEW b \in Actors, SaveTimesOut(b) PROVE b = a
  <2>1. Goto(b, "locked_out")
        BY <1>6 DEF SaveTimesOut, LockTimeout
  <2>2. \A d \in Actors \ {b} : work'[d].at = work[d].at
        BY <1>1, <2>1, OthersStay, "locked_out" \in Places DEF Places, Over
  <2> QED BY <1>1, <2>2
<1>7. CASE UNCHANGED vars
      BY <1>1, <1>7 DEF vars
<1>8. CASE Next
      BY <1>3, <1>4, <1>5, <1>6, <1>8 DEF Next, WriteFails
<1> QED BY <1>7, <1>8

\* A commit is lost to the lock of SQLite only while a request of another
\* conversation has its session open, at work or abandoned before the first event
\* of its stream: no other end of a request leaves its lock, and the requests of one
\* conversation never lock each other out.
THEOREM OnlyOpenSessionsLockOut == Spec => LockedOutOnlyByOpenSessions
<1> DEFINE A == \A a \in Actors : At(a, "saving") /\ work'[a].at = "locked_out" =>
                    \E c \in Conversations \ {Conv[a]} :
                        lock[c] # Free /\ OpenSession(lock[c])
<1>1. IInv /\ LocksHeld /\ [Next]_vars => A
  <2> SUFFICES ASSUME IInv, LocksHeld, [Next]_vars,
                      NEW a \in Actors, At(a, "saving"), work'[a].at = "locked_out"
      PROVE  \E c \in Conversations \ {Conv[a]} :
                 lock[c] # Free /\ OpenSession(lock[c])
      OBVIOUS
  <2>1. SingleWriter /\ ~MayWrite(a)
        BY LockedOutBySaveTimesOut DEF SaveTimesOut, LockTimeout
  <2> QED BY <2>1, OthersHoldTheLock DEF OpenSession, HoldsAt, At
<1>2. LockedOutOnlyByOpenSessions <=> [][A]_vars
      BY DEF LockedOutOnlyByOpenSessions
<1> HIDE DEF A
<1> QED BY <1>1, <1>2, IInvInit, IInvStep, LocksHeldInit, LocksHeldStep, PTL DEF Spec

=============================================================================
