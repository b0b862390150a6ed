------------------------ MODULE MessageHistory_proofs ------------------------
(***************************************************************************)
(* Proofs, for any models, any length of a conversation and any number of  *)
(* calls, that the derived id settles, that what a model was told to cache *)
(* is a prefix of what it is given the next time, and that normalize-tools *)
(* loses, invents and separates nothing.                                   *)
(***************************************************************************)
EXTENDS MessageHistory, WellFoundedInduction, TLAPS

LEMMA LeastNumber ==
    ASSUME NEW S, S \subseteq Nat, S # {}
    PROVE  \E n \in S : \A k \in S : ~(k < n)
<1> DEFINE R == OpToRel(<, Nat)
<1>1. IsWellFoundedOn(R, Nat)
      BY NatLessThanWellFounded
<1>2. \A i, j \in Nat : <<i, j>> \in R <=> i < j
      BY DEF OpToRel
<1> HIDE DEF R
<1>3. PICK n \in S : \A k \in S : ~(<<k, n>> \in R)
      BY <1>1, WFMin
<1> QED BY <1>2, <1>3

-----------------------------------------------------------------------------
(* The messages of some roles                                              *)

\* g[n] has those of the first n messages.
Collects(g, messages, roles) ==
    /\ g[0] = <<>>
    /\ \A n \in 1..Len(messages) :
          g[n] = g[n - 1] \o IF messages[n].role \in roles THEN <<messages[n]>> ELSE <<>>

\* Two collections of the same are the same.
LEMMA SameCollections ==
    ASSUME NEW messages, Len(messages) \in Nat, NEW roles,
           NEW f, Collects(f, messages, roles), NEW g, Collects(g, messages, roles)
    PROVE  f[Len(messages)] = g[Len(messages)]
<1> DEFINE Bad == {n \in 0..Len(messages) : f[n] # g[n]}
<1> SUFFICES ASSUME Bad # {} PROVE FALSE
    OBVIOUS
<1>1. PICK n \in Bad : \A j \in Bad : ~(j < n)
  <2>1. Bad \subseteq Nat
        OBVIOUS
  <2> HIDE DEF Bad
  <2> QED BY <2>1, LeastNumber
<1>2. n \in 1..Len(messages)
      BY <1>1 DEF Collects
<1>3. n - 1 \in 0..Len(messages) /\ n - 1 < n
      BY <1>2
<1>4. f[n - 1] = g[n - 1]
      BY <1>1, <1>3
<1> QED BY <1>1, <1>2, <1>4 DEF Collects

\* A collection that is known tells what OfRoles gives.
LEMMA OfRolesIs ==
    ASSUME NEW messages, Len(messages) \in Nat, NEW roles,
           NEW g, g = [n \in 0..Len(messages) |-> g[n]], Collects(g, messages, roles)
    PROVE  OfRoles(messages, roles) = g[Len(messages)]
<1> DEFINE Eq(f) ==
               f = [n \in 0..Len(messages) |->
                       IF n = 0 THEN <<>>
                       ELSE f[n - 1] \o IF messages[n].role \in roles
                                        THEN <<messages[n]>> ELSE <<>>]
           upTo == CHOOSE f : Eq(f)
<1>1. Eq(g)
  <2>1. ASSUME NEW n \in 0..Len(messages)
        PROVE  g[n] = IF n = 0 THEN <<>>
                      ELSE g[n - 1] \o IF messages[n].role \in roles
                                       THEN <<messages[n]>> ELSE <<>>
    <3>1. n # 0 => n \in 1..Len(messages)
          OBVIOUS
    <3> QED BY <3>1 DEF Collects
  <2> QED BY <2>1
<1>2. Eq(upTo)
      BY <1>1
<1>3. OfRoles(messages, roles) = upTo[Len(messages)]
      BY DEF OfRoles
<1>4. Collects(upTo, messages, roles)
  <2> HIDE DEF upTo
  <2>1. upTo[0] = <<>>
        BY <1>2
  <2>2. \A n \in 1..Len(messages) : n \in 0..Len(messages) /\ n # 0
        OBVIOUS
  <2>3. \A n \in 1..Len(messages) :
            upTo[n] = upTo[n - 1] \o IF messages[n].role \in roles
                                     THEN <<messages[n]>> ELSE <<>>
        BY <1>2, <2>2
  <2> QED BY <2>1, <2>3 DEF Collects
<1> HIDE DEF upTo
<1> QED BY <1>3, <1>4, SameCollections

-----------------------------------------------------------------------------
(* The request                                                             *)

\* t is the messages of base with the system prompt at a place, 0 for none.
IsRequest(t, base, place) ==
    /\ place \in 0..(Len(base) + 1)
    /\ t \in Seq(MessageType)
    /\ Len(t) = IF place = 0 THEN Len(base) ELSE Len(base) + 1
    /\ \A k \in 1..Len(t) :
          t[k] = IF place = 0 \/ k < place THEN base[k]
                 ELSE IF k = place THEN SystemPrompt ELSE base[k - 1]

Plain(base) == \A k \in 1..Len(base) : base[k].role # "system"

LEMMA PromptType ==
    SystemPrompt \in MessageType /\ SystemPrompt.role = "system"
<1>1. 0 \in 0..MaxMessages
      BY MessageHistoryAssumption
<1>2. <<>> \in Seq((1..MaxMessages) \X (1..MaxCalls))
      OBVIOUS
<1> QED BY <1>1, <1>2 DEF SystemPrompt, Message, MessageType, NoCall, Roles

LEMMA RolesOfMessages ==
    ASSUME NEW m \in MessageType
    PROVE  m.role \in Roles
BY DEF MessageType

LEMMA TwoJoined ==
    ASSUME NEW S, NEW a \in Seq(S), NEW c \in Seq(S)
    PROVE  /\ a \o c \in Seq(S) /\ Len(a \o c) = Len(a) + Len(c)
           /\ \A k \in 1..Len(a) : (a \o c)[k] = a[k]
           /\ \A k \in (Len(a) + 1)..(Len(a) + Len(c)) : (a \o c)[k] = c[k - Len(a)]
OBVIOUS

LEMMA InsertedAt ==
    ASSUME NEW S, NEW s \in Seq(S), NEW i \in 1..(Len(s) + 1), NEW e \in S
    PROVE  /\ InsertAt(s, i, e) \in Seq(S)
           /\ Len(InsertAt(s, i, e)) = Len(s) + 1
           /\ \A k \in 1..(Len(s) + 1) :
                 InsertAt(s, i, e)[k] = IF k < i THEN s[k] ELSE IF k = i THEN e ELSE s[k - 1]
<1> DEFINE before == SubSeq(s, 1, i - 1)
           after == SubSeq(s, i, Len(s))
<1>1. before \in Seq(S) /\ Len(before) = i - 1 /\ \A k \in 1..(i - 1) : before[k] = s[k]
      OBVIOUS
<1>2. after \in Seq(S) /\ Len(after) = Len(s) - i + 1
         /\ \A k \in 1..(Len(s) - i + 1) : after[k] = s[i + k - 1]
      OBVIOUS
<1>3. InsertAt(s, i, e) = before \o <<e>> \o after
      BY DEF InsertAt
<1> HIDE DEF before, after
<1>4. /\ (before \o <<e>>) \in Seq(S) /\ Len(before \o <<e>>) = i
      /\ \A k \in 1..(i - 1) : (before \o <<e>>)[k] = s[k]
      /\ (before \o <<e>>)[i] = e
      BY <1>1
<1> DEFINE front == before \o <<e>>
           all == front \o after
<1> HIDE DEF front
<1>5. front \in Seq(S) /\ Len(front) = i
      BY <1>4 DEF front
<1>6. /\ all \in Seq(S) /\ Len(all) = Len(s) + 1
      /\ \A k \in 1..i : all[k] = front[k]
      /\ \A k \in (i + 1)..(Len(s) + 1) : all[k] = after[k - i]
      BY <1>2, <1>5, TwoJoined
<1> HIDE DEF all
<1>7. ASSUME NEW k \in 1..(Len(s) + 1)
      PROVE  all[k] = IF k < i THEN s[k] ELSE IF k = i THEN e ELSE s[k - 1]
  <2>1. CASE k < i
        BY <1>4, <1>6, <2>1 DEF front
  <2>2. CASE k = i
        BY <1>4, <1>6, <2>2 DEF front
  <2>3. CASE k > i
    <3>1. k \in (i + 1)..(Len(s) + 1) /\ k - i \in 1..(Len(s) - i + 1)
             /\ i + (k - i) - 1 = k - 1
          BY <2>3
    <3>2. all[k] = after[k - i] /\ after[k - i] = s[k - 1]
          BY <1>2, <1>6, <3>1
    <3> QED BY <2>3, <3>2
  <2> QED BY <2>1, <2>2, <2>3
<1> QED BY <1>3, <1>6, <1>7 DEF all, front

LEMMA OneMore ==
    ASSUME NEW S, NEW s \in Seq(S), NEW n \in 1..Len(s)
    PROVE  SubSeq(s, 1, n) = SubSeq(s, 1, n - 1) \o <<s[n]>>
OBVIOUS

LEMMA NoneMore ==
    ASSUME NEW S, NEW s \in Seq(S)
    PROVE  s \o <<>> = s /\ <<>> \o s = s /\ SubSeq(s, 1, 0) = <<>> /\ SubSeq(s, 1, Len(s)) = s
OBVIOUS

\* The system prompt comes first, wherever the client put it, and the rest
\* keeps its order.
LEMMA CanonicalRequest ==
    ASSUME NEW base \in Seq(MessageType), Plain(base), NEW place, NEW t,
           IsRequest(t, base, place)
    PROVE  Canonical(t) = (IF place = 0 THEN <<>> ELSE <<SystemPrompt>>) \o base
<1> DEFINE without(n) == place = 0 \/ n < place
           systems == [n \in 0..Len(t) |-> IF without(n) THEN <<>> ELSE <<SystemPrompt>>]
           upTo(n) == IF without(n) THEN n ELSE n - 1
           rest == [n \in 0..Len(t) |-> SubSeq(base, 1, upTo(n))]
<1>1. /\ place \in Nat /\ Len(base) \in Nat /\ Len(t) \in Nat /\ place <= Len(base) + 1
      /\ Len(t) = IF place = 0 THEN Len(base) ELSE Len(base) + 1
      BY DEF IsRequest
<1>2. ASSUME NEW n \in 1..Len(t)
      PROVE  /\ t[n].role = "system" <=> n = place
             /\ n # place => t[n].role \in Roles \ {"system"} /\ t[n] = base[upTo(n)]
                               /\ upTo(n) \in 1..Len(base)
             /\ n = place => t[n] = SystemPrompt
  <2>1. CASE n = place
        BY <1>1, <2>1, PromptType DEF IsRequest
  <2>2. CASE n # place
    <3>1. upTo(n) \in 1..Len(base)
          BY <1>1, <2>2
    <3>2. t[n] = base[upTo(n)]
          BY <1>1, <2>2 DEF IsRequest
    <3>3. base[upTo(n)] \in MessageType
          BY <3>1
    <3>4. base[upTo(n)].role \in Roles /\ base[upTo(n)].role # "system"
          BY <3>1, <3>3, RolesOfMessages DEF Plain
    <3> QED BY <2>2, <3>1, <3>2, <3>4
  <2> QED BY <2>1, <2>2
<1>3. Collects(systems, t, {"system"})
  <2>1. systems[0] = <<>>
        BY <1>1
  <2>2. ASSUME NEW n \in 1..Len(t)
        PROVE  systems[n] = systems[n - 1]
                  \o IF t[n].role \in {"system"} THEN <<t[n]>> ELSE <<>>
    <3>1. systems[n] = (IF without(n) THEN <<>> ELSE <<SystemPrompt>>)
             /\ systems[n - 1] = IF without(n - 1) THEN <<>> ELSE <<SystemPrompt>>
          BY <1>1
    <3> HIDE DEF systems
    <3>2. CASE n = place
      <4>1. systems[n] = <<SystemPrompt>> /\ systems[n - 1] = <<>>
            BY <1>1, <3>1, <3>2
      <4> QED BY <1>2, <3>2, <4>1
    <3>3. CASE n # place
      <4>1. systems[n] = systems[n - 1] /\ systems[n] \in Seq(MessageType)
            BY <1>1, <3>1, <3>3, PromptType
      <4> QED BY <1>2, <3>3, <4>1, NoneMore
    <3> QED BY <3>2, <3>3
  <2> HIDE DEF systems
  <2> QED BY <2>1, <2>2 DEF Collects
<1>4. Collects(rest, t, Roles \ {"system"})
  <2>1. rest[0] = <<>>
        BY <1>1, NoneMore
  <2>2. ASSUME NEW n \in 1..Len(t)
        PROVE  rest[n] = rest[n - 1]
                  \o IF t[n].role \in Roles \ {"system"} THEN <<t[n]>> ELSE <<>>
    <3>1. rest[n] = SubSeq(base, 1, upTo(n)) /\ rest[n - 1] = SubSeq(base, 1, upTo(n - 1))
          BY <1>1
    <3> HIDE DEF rest
    <3>2. CASE n = place
      <4>1. upTo(n) = upTo(n - 1) /\ upTo(n) \in 0..Len(base)
            BY <1>1, <3>2
      <4>2. SubSeq(base, 1, upTo(n)) \in Seq(MessageType)
            BY <4>1
      <4>3. rest[n] = rest[n - 1] /\ rest[n] \in Seq(MessageType)
            BY <3>1, <4>1, <4>2
      <4> QED BY <1>2, <3>2, <4>3, NoneMore
    <3>3. CASE n # place
      <4>1. upTo(n - 1) = upTo(n) - 1
            BY <1>1, <3>3
      <4> HIDE DEF upTo
      <4>2. SubSeq(base, 1, upTo(n)) = SubSeq(base, 1, upTo(n) - 1) \o <<base[upTo(n)]>>
            BY <1>2, <3>3, OneMore
      <4> QED BY <1>2, <3>1, <3>3, <4>1, <4>2
    <3> QED BY <3>2, <3>3
  <2> HIDE DEF rest
  <2> QED BY <2>1, <2>2 DEF Collects
<1>5. systems = [n \in 0..Len(t) |-> systems[n]] /\ rest = [n \in 0..Len(t) |-> rest[n]]
      OBVIOUS
<1>6. systems[Len(t)] = IF place = 0 THEN <<>> ELSE <<SystemPrompt>>
      BY <1>1
<1>7. rest[Len(t)] = base
  <2>1. upTo(Len(t)) = Len(base)
        BY <1>1
  <2>2. rest[Len(t)] = SubSeq(base, 1, upTo(Len(t)))
        BY <1>1
  <2> QED BY <2>1, <2>2, NoneMore
<1> HIDE DEF systems, rest
<1>8. OfRoles(t, {"system"}) = systems[Len(t)]
      BY <1>1, <1>3, <1>5, OfRolesIs
<1>9. OfRoles(t, Roles \ {"system"}) = rest[Len(t)]
      BY <1>1, <1>4, <1>5, OfRolesIs
<1> QED BY <1>6, <1>7, <1>8, <1>9 DEF Canonical

-----------------------------------------------------------------------------
(* What a model is given                                                   *)

\* The messages that stand before those of the conversation.
Heading(m) ==
    IF opening
    THEN <<IF m \in Prompted
           THEN [SystemPrompt EXCEPT !.text = <<"model prompt and prompt", 0>>]
           ELSE SystemPrompt>>
    ELSE IF m \in Prompted THEN <<Message("system", "model prompt", 0)>> ELSE <<>>

LEMMA HeadingType ==
    ASSUME NEW m
    PROVE  /\ Heading(m) \in Seq(MessageType)
           /\ Len(Heading(m)) \in {0, 1}
           /\ \A k \in 1..Len(Heading(m)) : Heading(m)[k].role = "system"
<1>1. 0 \in 0..MaxMessages
      BY MessageHistoryAssumption
<1>2. <<>> \in Seq((1..MaxMessages) \X (1..MaxCalls))
      OBVIOUS
<1>3. /\ Message("system", "model prompt", 0) \in MessageType
      /\ Message("system", "model prompt", 0).role = "system"
      BY <1>1, <1>2 DEF Message, MessageType, NoCall, Roles
<1>4. PICK both : both = [SystemPrompt EXCEPT !.text = <<"model prompt and prompt", 0>>]
      OBVIOUS
<1>5. both \in MessageType /\ both.role = "system"
      BY <1>1, <1>4, PromptType DEF MessageType
<1>6. \A e \in MessageType : e.role = "system" =>
          /\ <<e>> \in Seq(MessageType) /\ Len(<<e>>) = 1
          /\ \A k \in 1..1 : <<e>>[k].role = "system"
      OBVIOUS
<1>7. Heading(m) \in {<<both>>, <<SystemPrompt>>, <<Message("system", "model prompt", 0)>>, <<>>}
      BY <1>4 DEF Heading
<1>8. CASE Heading(m) = <<>>
      BY <1>8
<1>9. CASE Heading(m) # <<>>
      BY <1>3, <1>5, <1>6, <1>7, <1>9, PromptType
<1> QED BY <1>8, <1>9

LEMMA BothPromptsType ==
    [SystemPrompt EXCEPT !.text = <<"model prompt and prompt", 0>>] \in MessageType
<1>1. 0 \in 0..MaxMessages
      BY MessageHistoryAssumption
<1> QED BY <1>1, PromptType DEF MessageType

WithFirst(s, e) == [s EXCEPT ![1] = e]

LEMMA FirstReplaced ==
    ASSUME NEW S, NEW s \in Seq(S), Len(s) >= 1, NEW e \in S
    PROVE  /\ WithFirst(s, e) \in Seq(S) /\ Len(WithFirst(s, e)) = Len(s)
           /\ WithFirst(s, e)[1] = e
           /\ \A k \in 2..Len(s) : WithFirst(s, e)[k] = s[k]
BY DEF WithFirst

LEMMA OtherHead ==
    ASSUME NEW S, NEW base \in Seq(S), NEW d \in S, NEW e \in S
    PROVE  WithFirst(<<d>> \o base, e) = <<e>> \o base
<1> DEFINE old == <<d>> \o base
           new == WithFirst(old, e)
<1>1. old \in Seq(S) /\ Len(old) = Len(base) + 1 /\ Len(base) \in Nat
         /\ \A k \in 2..(Len(base) + 1) : old[k] = base[k - 1]
      OBVIOUS
<1> HIDE DEF old
<1>2. new \in Seq(S) /\ Len(new) = Len(old) /\ new[1] = e
         /\ \A k \in 2..Len(old) : new[k] = old[k]
  <2>1. Len(old) >= 1 /\ old \in Seq(S)
        BY <1>1
  <2> QED BY <2>1, FirstReplaced
<1> HIDE DEF new
<1> DEFINE whole == <<e>> \o base
<1>3. whole \in Seq(S) /\ Len(whole) = Len(base) + 1 /\ whole[1] = e
         /\ \A k \in 2..(Len(base) + 1) : whole[k] = base[k - 1]
      OBVIOUS
<1> HIDE DEF whole
<1>4. ASSUME NEW k \in 1..(Len(base) + 1) PROVE new[k] = whole[k]
  <2>1. k = 1 \/ (k \in 2..(Len(base) + 1) /\ k \in 2..Len(old))
        BY <1>1
  <2> QED BY <1>1, <1>2, <1>3, <2>1
<1>5. new = whole
      BY <1>1, <1>2, <1>3, <1>4
<1> QED BY <1>5 DEF whole, new, old

\* The prompts of client and model together stand where the client's stood.
LEMMA CallHasHeading ==
    ASSUME NEW m \in Models, NEW base \in Seq(MessageType), Plain(base),
           NEW ordered, ordered = (IF opening THEN <<SystemPrompt>> ELSE <<>>) \o base
    PROVE  CallMessages(m, ordered) = Heading(m) \o base
<1> DEFINE systems == {i \in DOMAIN ordered : ordered[i].role = "system"}
           first == CHOOSE i \in systems : \A j \in systems : i <= j
<1>1. CASE ~opening
  <2>1. ordered = base
        BY <1>1, NoneMore
  <2>2. systems = {}
        BY <2>1 DEF Plain
  <2>3. CASE m \in Prompted
        BY <1>1, <2>1, <2>2, <2>3 DEF CallMessages, Heading
  <2>4. CASE m \notin Prompted
    <3>1. Heading(m) = <<>> /\ CallMessages(m, ordered) = ordered
          BY <1>1, <2>4 DEF CallMessages, Heading
    <3> QED BY <2>1, <3>1, NoneMore
  <2> QED BY <2>3, <2>4
<1>2. CASE opening
  <2>1. ordered = <<SystemPrompt>> \o base
        BY <1>2
  <2>2. /\ ordered \in Seq(MessageType) /\ Len(ordered) = Len(base) + 1
        /\ ordered[1] = SystemPrompt
        /\ \A k \in 2..(Len(base) + 1) : ordered[k] = base[k - 1]
        BY <2>1, PromptType
  <2>3. systems = {1}
    <3>1. 1 \in systems
          BY <2>2, PromptType
    <3>2. ASSUME NEW k \in systems PROVE k = 1
      <4>1. k \in 2..(Len(base) + 1) => k - 1 \in 1..Len(base) /\ ordered[k] = base[k - 1]
            BY <2>2
      <4>2. ordered[k].role = "system" /\ k \in 1..(Len(base) + 1)
            BY <2>2
      <4> QED BY <4>1, <4>2 DEF Plain
    <3> QED BY <3>1, <3>2
  <2> HIDE DEF systems
  <2>4. first = 1
        BY <2>3
  <2>5. CASE m \in Prompted
    <3> DEFINE both == [SystemPrompt EXCEPT !.text = <<"model prompt and prompt", 0>>]
               merged == [ordered EXCEPT ![1].text = <<"model prompt and prompt", 0>>]
    <3>1. CallMessages(m, ordered) =
              [ordered EXCEPT ![first].text = <<"model prompt and prompt", 0>>]
          BY <2>3, <2>5 DEF CallMessages, systems
    <3>2. CallMessages(m, ordered) = merged
          BY <2>4, <3>1
    <3>3. Heading(m) = <<both>>
          BY <1>2, <2>5 DEF Heading
    <3>4. both \in MessageType
          BY BothPromptsType
    <3>5. merged = WithFirst(ordered, both)
          BY <2>2 DEF WithFirst
    <3> HIDE DEF both, merged
    <3>6. merged = <<both>> \o base
          BY <2>1, <3>4, <3>5, PromptType, OtherHead
    <3> QED BY <3>2, <3>3, <3>6
  <2>6. CASE m \notin Prompted
        BY <1>2, <2>1, <2>6 DEF CallMessages, Heading
  <2> QED BY <2>5, <2>6
<1> QED BY <1>1, <1>2

-----------------------------------------------------------------------------
(* What is cached                                                          *)

\* The last breakpoint exists.
LEMMA CachedIsUpTo ==
    ASSUME NEW s \in Seq(MessageType)
    PROVE  \E i \in 0..Len(s) :
               Cached(s) = SubSeq(s, 1, i) /\ (i = 0 \/ i \in Breakpoints(s))
<1> DEFINE B == Breakpoints(s)
           Bounds == {u \in Nat : \A j \in B : j <= u}
           Last1(i) == i \in B \union {0} /\ \A j \in B : j <= i
<1>1. B \subseteq 1..Len(s) /\ Len(s) \in Nat
      BY DEF Breakpoints
<1>2. Len(s) \in Bounds /\ Bounds \subseteq Nat
      BY <1>1
<1> HIDE DEF B
<1>3. PICK u \in Bounds : \A v \in Bounds : ~(v < u)
  <2> HIDE DEF Bounds
  <2> QED BY <1>2, LeastNumber
<1>4. Last1(u)
  <2>1. CASE u = 0
        BY <1>3, <2>1
  <2>2. CASE u # 0 /\ u \notin B
    <3>1. \A j \in B : j <= u - 1
          BY <1>1, <1>3, <2>2
    <3>2. u - 1 \in Bounds /\ u - 1 < u
          BY <1>3, <2>2, <3>1
    <3> QED BY <1>3, <3>2
  <2>3. CASE u \in B
        BY <1>3, <2>3
  <2> QED BY <2>1, <2>2, <2>3
<1> DEFINE c == CHOOSE i \in B \union {0} : \A j \in B : j <= i
<1>5. Last1(c)
      BY <1>4
<1>6. Cached(s) = SubSeq(s, 1, c)
      BY DEF Cached, B
<1> HIDE DEF c
<1>7. c \in 0..Len(s) /\ (c = 0 \/ c \in Breakpoints(s))
      BY <1>1, <1>5 DEF B
<1> QED BY <1>6, <1>7

LEMMA PrefixUpTo ==
    ASSUME NEW S, NEW s \in Seq(S), NEW t \in Seq(S), NEW i \in 0..Len(s), i <= Len(t),
           \A k \in 1..i : s[k] = t[k]
    PROVE  IsPrefix(SubSeq(s, 1, i), t)
<1> DEFINE p == SubSeq(s, 1, i)
<1>1. p \in Seq(S) /\ Len(p) = i /\ \A k \in 1..i : p[k] = s[k]
      OBVIOUS
<1> HIDE DEF p
<1>2. SubSeq(p, 1, i) \in Seq(S) /\ Len(SubSeq(p, 1, i)) = i
         /\ \A k \in 1..i : SubSeq(p, 1, i)[k] = s[k]
      BY <1>1
<1>3. SubSeq(t, 1, i) \in Seq(S) /\ Len(SubSeq(t, 1, i)) = i
         /\ \A k \in 1..i : SubSeq(t, 1, i)[k] = s[k]
      OBVIOUS
<1>4. SubSeq(p, 1, i) = SubSeq(t, 1, i)
      BY <1>2, <1>3
<1> QED BY <1>1, <1>4 DEF IsPrefix, p

\* Two calls that have the heading, and all but the last message of the first
\* in common: the second has what was cached of the first.
LEMMA CachedIsPrefix ==
    ASSUME NEW m, NEW base \in Seq(MessageType), Plain(base), NEW s, s = Heading(m) \o base,
           NEW later \in Seq(MessageType), NEW t, t = Heading(m) \o later,
           Len(base) <= Len(later) + 1, \A k \in 1..(Len(base) - 1) : base[k] = later[k]
    PROVE  IsPrefix(Cached(s), t)
<1> DEFINE H == Heading(m)
<1>1. H \in Seq(MessageType) /\ Len(H) \in {0, 1}
         /\ \A k \in 1..Len(H) : H[k].role = "system"
      BY HeadingType
<1> HIDE DEF H
<1>2. /\ s \in Seq(MessageType) /\ Len(s) = Len(H) + Len(base)
      /\ \A k \in 1..Len(H) : s[k] = H[k]
      /\ \A k \in (Len(H) + 1)..(Len(H) + Len(base)) : s[k] = base[k - Len(H)]
      BY <1>1, TwoJoined DEF H
<1>3. /\ t \in Seq(MessageType) /\ Len(t) = Len(H) + Len(later)
      /\ \A k \in 1..Len(H) : t[k] = H[k]
      /\ \A k \in (Len(H) + 1)..(Len(H) + Len(later)) : t[k] = later[k - Len(H)]
      BY <1>1, TwoJoined DEF H
<1>4. PICK i \in 0..Len(s) : Cached(s) = SubSeq(s, 1, i) /\ (i = 0 \/ i \in Breakpoints(s))
      BY <1>2, CachedIsUpTo
<1>5. i = 0 \/ i <= Len(H) + Len(base) - 1
  <2> SUFFICES ASSUME i \in Breakpoints(s), i # 0 PROVE i <= Len(H) + Len(base) - 1
      BY <1>4
  <2>1. Len(s) >= 2 /\ i \in 1..Len(s) /\ (s[i].role = "system" \/ i = Len(s) - 1)
        BY <1>2 DEF Breakpoints
  <2>2. CASE i = Len(s) - 1
        BY <1>2, <2>2
  <2>3. CASE s[i].role = "system"
    <3>1. i <= Len(H)
      <4> SUFFICES ASSUME i > Len(H) PROVE FALSE
          BY <1>1
      <4>1. i \in (Len(H) + 1)..(Len(H) + Len(base)) /\ i - Len(H) \in 1..Len(base)
            BY <1>1, <1>2, <2>1
      <4>2. s[i] = base[i - Len(H)]
            BY <1>2, <4>1
      <4> QED BY <2>3, <4>1, <4>2 DEF Plain
    <3> QED BY <1>1, <1>2, <2>1, <3>1
  <2> QED BY <2>1, <2>2, <2>3
<1>6. i <= Len(t)
      BY <1>1, <1>3, <1>5
<1>7. ASSUME NEW k \in 1..i PROVE s[k] = t[k]
  <2>1. k \in Nat /\ k >= 1 /\ k <= Len(H) + Len(base) - 1 /\ i # 0
        BY <1>1, <1>5
  <2>2. CASE k <= Len(H)
    <3>1. k \in 1..Len(H)
          BY <2>1, <2>2, <1>1
    <3> QED BY <1>2, <1>3, <3>1
  <2>3. CASE k > Len(H)
    <3>1. /\ k - Len(H) \in 1..(Len(base) - 1)
          /\ k \in (Len(H) + 1)..(Len(H) + Len(base))
          /\ k \in (Len(H) + 1)..(Len(H) + Len(later))
          BY <1>1, <2>1, <2>3
    <3>2. s[k] = base[k - Len(H)] /\ t[k] = later[k - Len(H)]
          BY <1>2, <1>3, <3>1
    <3>3. base[k - Len(H)] = later[k - Len(H)]
          BY <3>1
    <3> QED BY <3>2, <3>3
  <2>4. k <= Len(H) \/ k > Len(H)
        BY <1>1, <2>1
  <2> QED BY <2>2, <2>3, <2>4
<1> QED BY <1>2, <1>3, <1>4, <1>6, <1>7, PrefixUpTo

-----------------------------------------------------------------------------
(* The invariant                                                           *)

\* A stored turn: messages of the conversation, with the system prompt at a
\* place, 0 for none.
FromConv(t, place) ==
    /\ place \in 0..Len(t)
    /\ Len(t) <= IF place = 0 THEN Len(conv) ELSE Len(conv) + 1
    /\ \A k \in 1..Len(t) :
          t[k] = IF place = 0 \/ k < place THEN conv[k]
                 ELSE IF k = place THEN SystemPrompt ELSE conv[k - 1]

\* What a model was given: messages of the conversation, and one partial
\* answer at most.
Follows(base) ==
    /\ Len(base) <= Len(conv) + 1
    /\ \A k \in 1..(Len(base) - 1) : base[k] = conv[k]

GivenInOrder(m) ==
    \/ sent[m] = <<>>
    \/ \E base \in Seq(MessageType) :
          Plain(base) /\ Follows(base) /\ sent[m] = Heading(m) \o base

IInv ==
    /\ TypeOK
    /\ Plain(conv) /\ Len(conv) <= MaxMessages
    /\ \A i \in DOMAIN turns : \E place \in Nat : FromConv(turns[i], place)
    /\ \A m \in Models : GivenInOrder(m)

LEMMA Grown ==
    ASSUME NEW S, NEW s \in Seq(S), NEW e \in S
    PROVE  /\ Append(s, e) \in Seq(S) /\ Len(Append(s, e)) = Len(s) + 1
           /\ \A k \in 1..Len(s) : Append(s, e)[k] = s[k]
           /\ Append(s, e)[Len(s) + 1] = e
OBVIOUS

\* The conversation grows by a message that is not of the system.
LEMMA ConvGrows ==
    ASSUME IInv, NEW e \in MessageType, e.role # "system", Len(conv) < MaxMessages,
           conv' = Append(conv, e)
    PROVE  /\ conv' \in Seq(MessageType) /\ Len(conv)' <= MaxMessages /\ Plain(conv)'
           /\ \A t : \A place \in Nat : t \in Seq(MessageType) /\ FromConv(t, place)
                                           => FromConv(t, place)'
           /\ \A base \in Seq(MessageType) : Follows(base) => Follows(base)'
<1>1. conv \in Seq(MessageType) /\ Len(conv) \in Nat /\ MaxMessages \in Nat
      BY MessageHistoryAssumption DEF IInv, TypeOK
<1>2. /\ conv' \in Seq(MessageType) /\ Len(conv') = Len(conv) + 1
      /\ \A k \in 1..Len(conv) : conv'[k] = conv[k]
      /\ conv'[Len(conv) + 1] = e
      BY <1>1, Grown
<1>3. Plain(conv')
  <2>1. \A k \in 1..Len(conv') : k \in 1..Len(conv) \/ k = Len(conv) + 1
        BY <1>1, <1>2
  <2> QED BY <1>2, <2>1 DEF Plain, IInv
<1>4. Plain(conv)' /\ Len(conv)' <= MaxMessages
      BY <1>1, <1>2, <1>3 DEF Plain
<1>5. ASSUME NEW t \in Seq(MessageType), NEW place \in Nat, FromConv(t, place)
      PROVE  FromConv(t, place)'
  <2>1. /\ place <= Len(t) /\ Len(t) \in Nat
        /\ Len(t) <= IF place = 0 THEN Len(conv) ELSE Len(conv) + 1
        BY <1>5 DEF FromConv
  <2>2. Len(t) <= IF place = 0 THEN Len(conv') ELSE Len(conv') + 1
        BY <1>1, <1>2, <2>1
  <2>3. ASSUME NEW k \in 1..Len(t)
        PROVE  t[k] = IF place = 0 \/ k < place THEN conv'[k]
                      ELSE IF k = place THEN SystemPrompt ELSE conv'[k - 1]
    <3>1. CASE place = 0 \/ k < place
      <4>1. k \in 1..Len(conv)
            BY <1>1, <2>1, <3>1
      <4>2. t[k] = conv[k]
            BY <1>5, <3>1 DEF FromConv
      <4> QED BY <1>2, <3>1, <4>1, <4>2
    <3>2. CASE place # 0 /\ k = place
      <4>1. t[k] = SystemPrompt
            BY <1>5, <3>2 DEF FromConv
      <4> QED BY <3>2, <4>1
    <3>3. CASE place # 0 /\ k > place
      <4>1. k - 1 \in 1..Len(conv)
            BY <1>1, <2>1, <3>3
      <4>2. t[k] = conv[k - 1]
            BY <1>5, <3>3 DEF FromConv
      <4> QED BY <1>2, <3>3, <4>1, <4>2
    <3>4. (place = 0 \/ k < place) \/ (place # 0 /\ k = place) \/ (place # 0 /\ k > place)
          BY <2>1
    <3> QED BY <3>1, <3>2, <3>3, <3>4, Zenon
  <2>4. place \in 0..Len(t)
        BY <1>5 DEF FromConv
  <2> QED BY <2>2, <2>3, <2>4 DEF FromConv
<1>6. ASSUME NEW base \in Seq(MessageType), Follows(base) PROVE Follows(base)'
  <2>1. Len(base) <= Len(conv) + 1 /\ Len(base) \in Nat
           /\ \A k \in 1..(Len(base) - 1) : base[k] = conv[k]
        BY <1>6 DEF Follows
  <2>2. \A k \in 1..(Len(base) - 1) : k \in 1..Len(conv)
        BY <1>1, <2>1
  <2>3. Len(base) <= Len(conv') + 1 /\ \A k \in 1..(Len(base) - 1) : base[k] = conv'[k]
        BY <1>1, <1>2, <2>1, <2>2
  <2> QED BY <2>3 DEF Follows
<1> QED BY <1>2, <1>4, <1>5, <1>6

\* What the client adds.
LEMMA ClientAdds ==
    ASSUME IInv, NEW e \in MessageType, e.role # "system", Len(conv) < MaxMessages,
           conv' = Append(conv, e), UNCHANGED <<opening, turns, sent>>
    PROVE  IInv'
<1>1. /\ conv' \in Seq(MessageType) /\ Len(conv)' <= MaxMessages /\ Plain(conv)'
      /\ \A t : \A place \in Nat : t \in Seq(MessageType) /\ FromConv(t, place)
                                      => FromConv(t, place)'
      /\ \A base \in Seq(MessageType) : Follows(base) => Follows(base)'
      BY ConvGrows
<1>2. TypeOK'
      BY <1>1 DEF IInv, TypeOK
<1>3. ASSUME NEW i \in DOMAIN turns PROVE \E place \in Nat : FromConv(turns[i], place)'
  <2>1. turns[i] \in Seq(MessageType)
        BY DEF IInv, TypeOK
  <2>2. PICK place \in Nat : FromConv(turns[i], place)
        BY DEF IInv
  <2>3. PICK t : t = turns[i]
        OBVIOUS
  <2>4. FromConv(t, place)'
        BY <1>1, <2>1, <2>2, <2>3
  <2>5. turns'[i] = t
        BY <2>3
  <2> QED BY <2>4, <2>5 DEF FromConv
<1>4. ASSUME NEW m \in Models PROVE GivenInOrder(m)'
  <2>1. CASE sent[m] = <<>>
        BY <2>1 DEF GivenInOrder
  <2>2. ASSUME NEW base \in Seq(MessageType), Plain(base), Follows(base),
               sent[m] = Heading(m) \o base
        PROVE  GivenInOrder(m)'
    <3>1. Follows(base)'
          BY <1>1, <2>2
    <3>2. sent'[m] = Heading(m)' \o base
          BY <2>2 DEF Heading
    <3>3. Plain(base)'
          BY <2>2 DEF Plain
    <3> QED BY <3>1, <3>2, <3>3 DEF GivenInOrder
  <2>3. GivenInOrder(m)
        BY DEF IInv
  <2> QED BY <2>1, <2>2, <2>3 DEF GivenInOrder
<1>5. \A i \in DOMAIN turns' : \E place \in Nat : FromConv(turns[i], place)'
      BY <1>3
<1> QED BY <1>1, <1>2, <1>4, <1>5 DEF IInv

-----------------------------------------------------------------------------
(* An exchange                                                             *)

LEMMA MessagesOfExchange ==
    ASSUME NEW position \in 1..MaxMessages, NEW n \in 0..MaxCalls
    PROVE  /\ Message("assistant", "partial", position) \in MessageType
           /\ Message("assistant", "partial", position).role = "assistant"
           /\ [Message("assistant", "message", position) EXCEPT !.calls = Calls(n, position)]
                  \in MessageType
           /\ [Message("assistant", "message", position) EXCEPT !.calls = Calls(n, position)].role
                  = "assistant"
<1>1. position \in 0..MaxMessages /\ n \in Nat /\ n <= MaxCalls
      BY MessageHistoryAssumption
<1>2. <<>> \in Seq((1..MaxMessages) \X (1..MaxCalls))
      OBVIOUS
<1>3. Calls(n, position) \in Seq((1..MaxMessages) \X (1..MaxCalls))
  <2>1. \A k \in 1..n : <<position, k>> \in (1..MaxMessages) \X (1..MaxCalls)
        BY <1>1, MessageHistoryAssumption
  <2> QED BY <1>1, <2>1 DEF Calls
<1>4. ASSUME NEW kind \in {"partial", "message"}
      PROVE  /\ Message("assistant", kind, position) \in MessageType
             /\ Message("assistant", kind, position).role = "assistant"
      BY <1>1, <1>2 DEF Message, MessageType, NoCall, Roles
<1> DEFINE m == Message("assistant", "message", position)
<1>5. m \in MessageType /\ m.role = "assistant"
      BY <1>4
<1> HIDE DEF m
<1>6. [m EXCEPT !.calls = Calls(n, position)] \in MessageType
         /\ [m EXCEPT !.calls = Calls(n, position)].role = "assistant"
      BY <1>3, <1>5 DEF MessageType
<1> QED BY <1>4, <1>6 DEF m

LEMMA AppendToJoin ==
    \A a, c \in Seq(MessageType) : \A e \in MessageType :
        Append(a \o c, e) = a \o Append(c, e)
OBVIOUS

\* What the client sends.
LEMMA RequestOfClient ==
    ASSUME NEW base \in Seq(MessageType), base # <<>>, Last(base).role # "assistant",
           NEW place \in 0..(Len(base) + 1), NEW t,
           t = IF place = 0 THEN base ELSE InsertAt(base, place, SystemPrompt)
    PROVE  IsRequest(t, base, place) /\ t # <<>> /\ Last(t).role # "assistant"
<1>1. Len(base) \in Nat \ {0} /\ base[Len(base)].role # "assistant"
      BY DEF Last
<1>2. CASE place = 0
      BY <1>1, <1>2 DEF IsRequest, Last
<1>3. CASE place # 0
  <2>1. place \in 1..(Len(base) + 1)
        BY <1>1, <1>3
  <2>2. /\ t \in Seq(MessageType) /\ Len(t) = Len(base) + 1
        /\ \A k \in 1..(Len(base) + 1) :
              t[k] = IF k < place THEN base[k] ELSE IF k = place THEN SystemPrompt
                     ELSE base[k - 1]
        BY <1>3, <2>1, InsertedAt, PromptType
  <2>3. IsRequest(t, base, place)
        BY <1>3, <2>2 DEF IsRequest
  <2>4. t[Len(t)].role # "assistant"
    <3>1. Len(t) \in 1..(Len(base) + 1) /\ ~(Len(t) < place) /\ Len(t) - 1 = Len(base)
          BY <1>1, <2>1, <2>2
    <3>2. t[Len(t)] = IF Len(t) = place THEN SystemPrompt ELSE base[Len(base)]
          BY <2>2, <3>1
    <3>3. SystemPrompt.role # "assistant"
          BY PromptType
    <3> QED BY <1>1, <3>2, <3>3
  <2> QED BY <1>1, <2>2, <2>3, <2>4 DEF Last
<1> QED BY <1>2, <1>3

LEMMA RequestIsFromConv ==
    ASSUME NEW t, NEW place, conv \in Seq(MessageType), IsRequest(t, conv, place)
    PROVE  place \in Nat /\ t \in Seq(MessageType) /\ FromConv(t, place)
<1>1. Len(conv) \in Nat
      OBVIOUS
<1>2. place \in 0..Len(t) /\ place \in Nat
         /\ Len(t) <= IF place = 0 THEN Len(conv) ELSE Len(conv) + 1
      BY <1>1 DEF IsRequest
<1> QED BY <1>2 DEF IsRequest, FromConv

\* What a model is given in an exchange, or was given before it.
LEMMA GivenByExchange ==
    ASSUME IInv, NEW place \in Places, NEW model \in Models, NEW next \in Models,
           NEW n \in 0..MaxCalls, Exchange(place, model, next, n), NEW m \in Models
    PROVE  \/ sent'[m] = sent[m]
           \/ \E later \in Seq(MessageType) :
                 /\ Plain(later) /\ sent'[m] = Heading(m) \o later
                 /\ Len(later) \in {Len(conv), Len(conv) + 1}
                 /\ \A k \in 1..Len(conv) : later[k] = conv[k]
<1> DEFINE request == IF place = 0 THEN conv ELSE InsertAt(conv, place, SystemPrompt)
           partial == Message("assistant", "partial", Len(conv) + 1)
           ordered == Canonical(request)
<1>1. /\ conv \in Seq(MessageType) /\ conv # <<>> /\ Last(conv).role # "assistant"
      /\ Plain(conv) /\ Len(conv) \in Nat /\ Len(conv) + 1 <= MaxMessages
      BY DEF IInv, TypeOK, Exchange
<1>2. sent' = [q \in Models |->
                  IF q = next /\ next # model
                  THEN CallMessages(q, Append(ordered, partial))
                  ELSE IF q = model THEN CallMessages(q, ordered)
                  ELSE sent[q]]
      BY DEF Exchange
<1>3. \/ sent'[m] = CallMessages(m, Append(ordered, partial))
      \/ sent'[m] = CallMessages(m, ordered)
      \/ sent'[m] = sent[m]
      BY <1>2
<1>4. place \in 0..(Len(conv) + 1) /\ (place = 0 <=> ~opening)
      BY <1>1 DEF Places
<1>5. IsRequest(request, conv, place)
      BY <1>1, <1>4, RequestOfClient
<1> HIDE DEF request
<1> DEFINE front == IF opening THEN <<SystemPrompt>> ELSE <<>>
<1>6. ordered = front \o conv
  <2>1. ordered = (IF place = 0 THEN <<>> ELSE <<SystemPrompt>>) \o conv
        BY <1>1, <1>5, CanonicalRequest
  <2>2. front = IF place = 0 THEN <<>> ELSE <<SystemPrompt>>
        BY <1>4
  <2> QED BY <2>1, <2>2
<1>7. front \in Seq(MessageType)
      BY PromptType
<1>8. partial \in MessageType /\ partial.role # "system"
  <2>1. Len(conv) + 1 \in 1..MaxMessages
        BY <1>1, MessageHistoryAssumption
  <2> QED BY <2>1, MessagesOfExchange
<1> HIDE DEF ordered, partial
<1>9. CASE sent'[m] = CallMessages(m, ordered)
  <2>1. CallMessages(m, ordered) = Heading(m) \o conv
        BY <1>1, <1>6, CallHasHeading
  <2> QED BY <1>1, <1>9, <2>1
<1>10. CASE sent'[m] = CallMessages(m, Append(ordered, partial))
  <2> DEFINE later == Append(conv, partial)
  <2>1. /\ later \in Seq(MessageType) /\ Len(later) = Len(conv) + 1
        /\ \A k \in 1..Len(conv) : later[k] = conv[k]
        /\ later[Len(conv) + 1] = partial
        BY <1>1, <1>8, Grown
  <2>2. Append(ordered, partial) = front \o later
    <3> HIDE DEF front
    <3>1. Append(front \o conv, partial) = front \o Append(conv, partial)
      <4>1. conv \in Seq(MessageType)
            BY <1>1
      <4>2. partial \in MessageType
            BY <1>8
      <4> QED BY <1>7, <4>1, <4>2, AppendToJoin, Zenon
    <3> QED BY <1>6, <3>1, Zenon
  <2> HIDE DEF later
  <2>3. Plain(later)
    <3>1. \A k \in 1..Len(later) : k \in 1..Len(conv) \/ k = Len(conv) + 1
          BY <1>1, <2>1
    <3> QED BY <1>1, <1>8, <2>1, <3>1 DEF Plain
  <2>4. CallMessages(m, Append(ordered, partial)) = Heading(m) \o later
        BY <2>1, <2>2, <2>3, CallHasHeading
  <2> QED BY <1>10, <2>1, <2>3, <2>4
<1> QED BY <1>3, <1>9, <1>10

LEMMA ExchangeKeeps ==
    ASSUME IInv, NEW place \in Places, NEW model \in Models, NEW next \in Models,
           NEW n \in 0..MaxCalls, Exchange(place, model, next, n)
    PROVE  IInv'
<1> DEFINE request == IF place = 0 THEN conv ELSE InsertAt(conv, place, SystemPrompt)
           answer == [Message("assistant", "message", Len(conv) + 1) EXCEPT
                          !.calls = Calls(n, Len(conv) + 1)]
<1>1. /\ conv \in Seq(MessageType) /\ conv # <<>> /\ Last(conv).role # "assistant"
      /\ Plain(conv) /\ Len(conv) \in Nat /\ Len(conv) + 1 <= MaxMessages
      /\ turns \in Seq(Seq(MessageType))
      BY DEF IInv, TypeOK, Exchange
<1>2. conv' = Append(conv, answer) /\ turns' = Append(turns, request) /\ opening' = opening
      BY DEF Exchange, Stored
<1>3. answer \in MessageType /\ answer.role # "system"
  <2>1. Len(conv) + 1 \in 1..MaxMessages
        BY <1>1, MessageHistoryAssumption
  <2> QED BY <2>1, MessagesOfExchange
<1> HIDE DEF answer
<1>4. Len(conv) < MaxMessages
      BY <1>1, MessageHistoryAssumption
<1>5. /\ conv' \in Seq(MessageType) /\ Len(conv)' <= MaxMessages /\ Plain(conv)'
      /\ \A t : \A q \in Nat : t \in Seq(MessageType) /\ FromConv(t, q) => FromConv(t, q)'
      /\ \A base \in Seq(MessageType) : Follows(base) => Follows(base)'
      BY <1>2, <1>3, <1>4, ConvGrows
<1>6. place \in 0..(Len(conv) + 1)
      BY <1>1 DEF Places
<1>7. PICK t : t = request
      OBVIOUS
<1>8. IsRequest(t, conv, place) /\ t # <<>> /\ Last(t).role # "assistant"
      BY <1>1, <1>6, <1>7, RequestOfClient
<1> HIDE DEF request
<1>9. place \in Nat /\ t \in Seq(MessageType) /\ FromConv(t, place)
      BY <1>1, <1>8, RequestIsFromConv
<1>10. /\ turns' \in Seq(Seq(MessageType)) /\ Len(turns') = Len(turns) + 1
       /\ \A i \in 1..Len(turns) : turns'[i] = turns[i]
       /\ turns'[Len(turns) + 1] = t
       BY <1>1, <1>2, <1>7, <1>9, Grown
<1>11. ASSUME NEW i \in DOMAIN turns', i # Len(turns) + 1
       PROVE  i \in DOMAIN turns /\ turns'[i] = turns[i]
  <2>1. DOMAIN turns' = 1..Len(turns') /\ DOMAIN turns = 1..Len(turns) /\ Len(turns) \in Nat
        BY <1>1, <1>10
  <2>2. i \in 1..Len(turns)
        BY <1>10, <1>11, <2>1
  <2> QED BY <1>10, <2>1, <2>2
<1>12. \A i \in DOMAIN turns' : turns'[i] # <<>> /\ Last(turns'[i]).role # "assistant"
  <2> TAKE i \in DOMAIN turns'
  <2>1. CASE i = Len(turns) + 1
        BY <1>8, <1>10, <2>1
  <2>2. CASE i # Len(turns) + 1
        BY <1>11, <2>2 DEF IInv, TypeOK
  <2> QED BY <2>1, <2>2
<1>13. ASSUME NEW m \in Models
       PROVE  sent'[m] \in Seq(MessageType) /\ GivenInOrder(m)'
  <2>1. Heading(m)' = Heading(m)
        BY <1>2 DEF Heading
  <2>2. CASE sent'[m] = sent[m]
    <3>1. GivenInOrder(m) /\ sent[m] \in Seq(MessageType)
          BY DEF IInv, TypeOK
    <3>2. CASE sent[m] = <<>>
          BY <2>2, <3>1, <3>2 DEF GivenInOrder
    <3>3. ASSUME NEW base \in Seq(MessageType), Plain(base), Follows(base),
                 sent[m] = Heading(m) \o base
          PROVE  GivenInOrder(m)'
      <4>1. Follows(base)' /\ Plain(base)'
            BY <1>5, <3>3 DEF Plain
      <4>2. sent'[m] = Heading(m)' \o base
            BY <2>1, <2>2, <3>3
      <4> QED BY <4>1, <4>2 DEF GivenInOrder
    <3> QED BY <2>2, <3>1, <3>2, <3>3 DEF GivenInOrder
  <2>3. ASSUME NEW later \in Seq(MessageType), Plain(later), sent'[m] = Heading(m) \o later,
               Len(later) \in {Len(conv), Len(conv) + 1},
               \A k \in 1..Len(conv) : later[k] = conv[k]
        PROVE  sent'[m] \in Seq(MessageType) /\ GivenInOrder(m)'
    <3>1. Follows(later)
          BY <1>1, <2>3 DEF Follows
    <3>2. Follows(later)' /\ Plain(later)'
          BY <1>5, <2>3, <3>1 DEF Plain
    <3>3. sent'[m] = Heading(m)' \o later
          BY <2>1, <2>3
    <3>4. Heading(m) \o later \in Seq(MessageType)
          BY HeadingType, TwoJoined
    <3> QED BY <2>3, <3>2, <3>3, <3>4 DEF GivenInOrder
  <2> QED BY <2>2, <2>3, GivenByExchange
<1>14. sent' \in [Models -> Seq(MessageType)]
  <2>1. sent' = [q \in Models |-> sent'[q]]
        BY DEF Exchange
  <2> QED BY <1>13, <2>1
<1>15. TypeOK'
       BY <1>2, <1>5, <1>10, <1>12, <1>14 DEF TypeOK, IInv
<1>16. \A i \in DOMAIN turns' : \E q \in Nat : FromConv(turns[i], q)'
  <2> TAKE i \in DOMAIN turns'
  <2>1. CASE i = Len(turns) + 1
    <3>1. FromConv(t, place)'
          BY <1>5, <1>9
    <3>2. turns'[i] = t
          BY <1>10, <2>1
    <3> QED BY <1>9, <3>1, <3>2 DEF FromConv
  <2>2. CASE i # Len(turns) + 1
    <3>1. i \in DOMAIN turns /\ turns'[i] = turns[i]
          BY <1>11, <2>2
    <3>2. PICK u : u = turns[i]
          OBVIOUS
    <3>3. u \in Seq(MessageType)
          BY <1>1, <3>1, <3>2
    <3>4. PICK q \in Nat : FromConv(u, q)
          BY <3>1, <3>2 DEF IInv
    <3>5. FromConv(u, q)'
          BY <1>5, <3>3, <3>4
    <3>6. turns'[i] = u
          BY <3>1, <3>2
    <3> QED BY <3>5, <3>6 DEF FromConv
  <2> QED BY <2>1, <2>2
<1> QED BY <1>5, <1>13, <1>15, <1>16 DEF IInv

-----------------------------------------------------------------------------

LEMMA SayKeeps ==
    ASSUME IInv, Say
    PROVE  IInv'
<1> DEFINE e == Message("user", "message", Len(conv) + 1)
<1>1. Len(conv) + 1 \in 0..MaxMessages /\ Len(conv) < MaxMessages
      BY MessageHistoryAssumption DEF Say, IInv, TypeOK
<1>2. <<>> \in Seq((1..MaxMessages) \X (1..MaxCalls))
      OBVIOUS
<1>3. e \in MessageType /\ e.role # "system"
      BY <1>1, <1>2 DEF Message, MessageType, NoCall, Roles
<1>4. conv' = Append(conv, e) /\ UNCHANGED <<opening, turns, sent>>
      BY DEF Say
<1> HIDE DEF e
<1> QED BY <1>1, <1>3, <1>4, ClientAdds

LEMMA ReturnResultKeeps ==
    ASSUME IInv, NEW id \in CallsOf(conv), ReturnResult(id)
    PROVE  IInv'
<1> DEFINE m == Message("tool", "message", Len(conv) + 1)
           e == [m EXCEPT !.of = id]
<1>1. Len(conv) + 1 \in 0..MaxMessages /\ Len(conv) < MaxMessages
      BY MessageHistoryAssumption DEF ReturnResult, IInv, TypeOK
<1>2. <<>> \in Seq((1..MaxMessages) \X (1..MaxCalls))
      OBVIOUS
<1>3. m \in MessageType /\ m.role = "tool"
      BY <1>1, <1>2 DEF Message, MessageType, NoCall, Roles
<1> HIDE DEF m
<1>4. id \in (1..MaxMessages) \X (1..MaxCalls)
  <2>1. PICK i \in DOMAIN conv : id \in Range(conv[i].calls)
        BY DEF CallsOf
  <2>2. conv[i] \in MessageType
        BY DEF IInv, TypeOK
  <2>3. conv[i].calls \in Seq((1..MaxMessages) \X (1..MaxCalls))
        BY <2>2 DEF MessageType
  <2>4. PICK k \in DOMAIN conv[i].calls : id = conv[i].calls[k]
        BY <2>1 DEF Range
  <2> QED BY <2>3, <2>4
<1>5. e \in MessageType /\ e.role # "system"
      BY <1>3, <1>4 DEF MessageType
<1>6. conv' = Append(conv, e) /\ UNCHANGED <<opening, turns, sent>>
      BY DEF ReturnResult, m
<1> HIDE DEF e
<1> QED BY <1>1, <1>5, <1>6, ClientAdds

LEMMA IInvInit == Init => IInv
<1> SUFFICES ASSUME Init PROVE IInv
    OBVIOUS
<1>1. TypeOK
      BY DEF Init, TypeOK
<1>2. Plain(conv) /\ Len(conv) <= MaxMessages
      BY MessageHistoryAssumption DEF Init, Plain
<1>3. \A i \in DOMAIN turns : \E place \in Nat : FromConv(turns[i], place)
      BY DEF Init
<1>4. \A m \in Models : GivenInOrder(m)
      BY DEF Init, GivenInOrder
<1> QED BY <1>1, <1>2, <1>3, <1>4 DEF IInv

LEMMA IInvStep == IInv /\ [Next]_vars => IInv'
<1> SUFFICES ASSUME IInv, [Next]_vars PROVE IInv'
    OBVIOUS
<1>1. ASSUME NEW place \in Places, NEW model \in Models, NEW next \in Models,
             NEW n \in 0..MaxCalls, Exchange(place, model, next, n)
      PROVE  IInv'
      BY <1>1, ExchangeKeeps
<1>2. CASE Say
      BY <1>2, SayKeeps
<1>3. ASSUME NEW id \in CallsOf(conv), ReturnResult(id) PROVE IInv'
      BY <1>3, ReturnResultKeeps
<1>4. CASE UNCHANGED vars
  <2>1. conv' = conv /\ turns' = turns /\ sent' = sent /\ opening' = opening
        BY <1>4 DEF vars
  <2>2. TypeOK' /\ Plain(conv)' /\ Len(conv)' <= MaxMessages
        BY <2>1 DEF IInv, TypeOK, Plain
  <2>3. \A i \in DOMAIN turns' : \E place \in Nat : FromConv(turns[i], place)'
        BY <2>1 DEF IInv, FromConv
  <2>4. \A m \in Models : GivenInOrder(m)'
        BY <2>1 DEF IInv, GivenInOrder, Follows, Heading, Plain
  <2> QED BY <2>2, <2>3, <2>4 DEF IInv
<1> QED BY <1>1, <1>2, <1>3, <1>4 DEF Next

\* The conversation, the stored turns and the calls of the models have their
\* types, and no stored turn ends with an answer.
THEOREM HistoryTypeCorrect == Spec => []TypeOK
<1>1. IInv => TypeOK
      BY DEF IInv
<1> QED BY <1>1, IInvInit, IInvStep, PTL DEF Spec

\* A client that keeps the place of its system prompt keeps its id.
THEOREM DerivedIdSettles == Spec => []IdSettles
<1>1. ASSUME IInv PROVE IdSettles
  <2> SUFFICES ASSUME NEW i \in DOMAIN turns, NEW j \in DOMAIN turns,
                      Len(turns[i]) >= 2, Len(turns[j]) >= 2,
                      PlaceOfPrompt(turns[i]) = PlaceOfPrompt(turns[j])
               PROVE  DerivedId(turns[i]) = DerivedId(turns[j])
      BY DEF IdSettles
  <2>1. conv \in Seq(MessageType) /\ Plain(conv)
           /\ turns[i] \in Seq(MessageType) /\ turns[j] \in Seq(MessageType)
        BY <1>1 DEF IInv, TypeOK
  <2>2. ASSUME NEW t \in Seq(MessageType), NEW place \in Nat, FromConv(t, place)
        PROVE  PlaceOfPrompt(t) = IF place = 0 THEN {} ELSE {place}
    <3>1. ASSUME NEW k \in DOMAIN t PROVE t[k].role = "system" <=> k = place
      <4>1. /\ k \in 1..Len(t) /\ place <= Len(t) /\ Len(t) \in Nat /\ Len(conv) \in Nat
            /\ Len(t) <= IF place = 0 THEN Len(conv) ELSE Len(conv) + 1
            BY <2>1, <2>2 DEF FromConv
      <4>2. CASE k = place
        <5>1. t[k] = SystemPrompt
              BY <2>2, <4>1, <4>2 DEF FromConv
        <5> QED BY <4>2, <5>1, PromptType
      <4>3. CASE k # place
        <5>1. PICK q \in 1..Len(conv) : t[k] = conv[q]
          <6>1. CASE place = 0 \/ k < place
            <7>1. k \in 1..Len(conv)
                  BY <4>1, <6>1
            <7>2. t[k] = conv[k]
                  BY <2>2, <4>1, <6>1 DEF FromConv
            <7> QED BY <7>1, <7>2
          <6>2. CASE place # 0 /\ k > place
            <7>1. k - 1 \in 1..Len(conv)
                  BY <4>1, <6>2
            <7>2. t[k] = conv[k - 1]
                  BY <2>2, <4>1, <6>2 DEF FromConv
            <7> QED BY <7>1, <7>2
          <6> QED BY <4>1, <4>3, <6>1, <6>2
        <5> QED BY <2>1, <4>3, <5>1 DEF Plain
      <4> QED BY <4>2, <4>3
    <3>2. place # 0 => place \in DOMAIN t
          BY <2>2 DEF FromConv
    <3>3. 0 \notin DOMAIN t
          OBVIOUS
    <3> QED BY <3>1, <3>2, <3>3 DEF PlaceOfPrompt
  <2>3. PICK p \in Nat : FromConv(turns[i], p)
        BY <1>1 DEF IInv
  <2>4. PICK q \in Nat : FromConv(turns[j], q)
        BY <1>1 DEF IInv
  <2>5. p = q
    <3>1. (IF p = 0 THEN {} ELSE {p}) = (IF q = 0 THEN {} ELSE {q})
          BY <2>1, <2>2, <2>3, <2>4
    <3> QED BY <3>1
  <2>6. ASSUME NEW k \in {1, 2} PROVE turns[i][k] = turns[j][k]
    <3>1. k \in 1..Len(turns[i]) /\ k \in 1..Len(turns[j])
          BY <2>1
    <3> QED BY <2>3, <2>4, <2>5, <3>1 DEF FromConv
  <2>7. ASSUME NEW t \in Seq(MessageType), Len(t) >= 2
        PROVE  DerivedId(t) \in Seq(MessageType) /\ Len(DerivedId(t)) = 2
                  /\ \A k \in {1, 2} : DerivedId(t)[k] = t[k]
        BY <2>7 DEF DerivedId
  <2>8. \A k \in 1..2 : k \in {1, 2}
        OBVIOUS
  <2> QED BY <2>1, <2>6, <2>7, <2>8
<1> QED BY <1>1, IInvInit, IInvStep, PTL DEF Spec

\* What a model is given begins with what it was told to cache the last time,
\* whatever other models answered in between and wherever the client puts its
\* system prompt.
THEOREM WhatIsCachedStays == Spec => CachedPrefixKept
<1>1. ASSUME IInv, [Next]_vars, NEW m \in Models
      PROVE  IsPrefix(Cached(sent[m]), sent'[m])
  <2>1. sent[m] \in Seq(MessageType) /\ conv \in Seq(MessageType) /\ Len(conv) \in Nat
        BY <1>1 DEF IInv, TypeOK
  <2>2. CASE sent'[m] = sent[m]
    <3>1. PICK i \in 0..Len(sent[m]) : Cached(sent[m]) = SubSeq(sent[m], 1, i)
          BY <2>1, CachedIsUpTo
    <3>2. i <= Len(sent[m])
          BY <2>1
    <3> QED BY <2>1, <2>2, <3>1, <3>2, PrefixUpTo
  <2>3. ASSUME NEW later \in Seq(MessageType), sent'[m] = Heading(m) \o later,
               Len(later) \in {Len(conv), Len(conv) + 1},
               \A k \in 1..Len(conv) : later[k] = conv[k]
        PROVE  IsPrefix(Cached(sent[m]), sent'[m])
    <3>1. CASE sent[m] = <<>>
      <4>1. PICK i \in 0..Len(sent[m]) : Cached(sent[m]) = SubSeq(sent[m], 1, i)
            BY <2>1, CachedIsUpTo
      <4>2. sent'[m] \in Seq(MessageType)
            BY <2>3, HeadingType, TwoJoined
      <4>3. i <= Len(sent'[m]) /\ \A k \in 1..i : sent[m][k] = sent'[m][k]
            BY <3>1, <4>2
      <4> QED BY <2>1, <4>1, <4>2, <4>3, PrefixUpTo
    <3>2. ASSUME NEW base \in Seq(MessageType), Plain(base), Follows(base),
                 sent[m] = Heading(m) \o base
          PROVE  IsPrefix(Cached(sent[m]), sent'[m])
      <4>1. Len(base) <= Len(later) + 1
            BY <2>1, <2>3, <3>2 DEF Follows
      <4>2. ASSUME NEW k \in 1..(Len(base) - 1) PROVE base[k] = later[k]
        <5>1. k \in 1..Len(conv)
              BY <2>1, <3>2 DEF Follows
        <5>2. base[k] = conv[k]
              BY <3>2 DEF Follows
        <5> QED BY <2>3, <5>1, <5>2
      <4> QED BY <2>3, <3>2, <4>1, <4>2, CachedIsPrefix
    <3>3. GivenInOrder(m)
          BY <1>1 DEF IInv
    <3> QED BY <3>1, <3>2, <3>3 DEF GivenInOrder
  <2>4. CASE UNCHANGED sent
        BY <2>2, <2>4
  <2>5. ASSUME NEW place \in Places, NEW model \in Models, NEW next \in Models,
               NEW n \in 0..MaxCalls, Exchange(place, model, next, n)
        PROVE  IsPrefix(Cached(sent[m]), sent'[m])
        BY <1>1, <2>2, <2>3, <2>5, GivenByExchange
  <2> QED BY <1>1, <2>4, <2>5 DEF Next, Say, ReturnResult, vars
<1>2. IInv /\ [Next]_vars => [\A m \in Models : IsPrefix(Cached(sent[m]), sent'[m])]_vars
      BY <1>1
<1> QED BY <1>2, IInvInit, IInvStep, PTL DEF Spec, CachedPrefixKept

-----------------------------------------------------------------------------
(* Sequences joined by FlattenSeq                                          *)

\* In all, part n begins after place start[n].
Laid(parts, upTo, all, start) ==
    /\ \A n \in 1..upTo : \A i \in 1..Len(parts[n]) :
           start[n] + i \in 1..Len(all) /\ all[start[n] + i] = parts[n][i]
    /\ \A j \in 1..Len(all) :
           \E n \in 1..upTo : \E i \in 1..Len(parts[n]) : j = start[n] + i
    /\ \A n \in 1..upTo : start[n] + Len(parts[n]) <= Len(all)
    /\ \A n, m \in 1..upTo : n < m => start[n] + Len(parts[n]) <= start[m]

\* f[n] is the first n parts joined.
Joins(f, parts, upTo) ==
    /\ f[1] = parts[1]
    /\ \A k \in 2..upTo : f[k] = f[k - 1] \o parts[k]

LEMMA LaidOne ==
    ASSUME NEW S, NEW parts \in Seq(Seq(S)), Len(parts) >= 1,
           NEW start \in [1..Len(parts) -> Nat], start[1] = 0
    PROVE  Laid(parts, 1, parts[1], start)
<1>1. parts[1] \in Seq(S)
      OBVIOUS
<1>2. Len(parts[1]) \in Nat
      BY <1>1
<1>3. \A i \in 1..Len(parts[1]) : start[1] + i = i
      BY <1>2
<1> QED BY <1>2, <1>3 DEF Laid

LEMMA LaidMore ==
    ASSUME NEW S, NEW parts \in Seq(Seq(S)), NEW n \in 1..Len(parts), n > 1,
           NEW start \in [1..Len(parts) -> Nat], NEW a \in Seq(S),
           Laid(parts, n - 1, a, start), start[n] = Len(a)
    PROVE  Laid(parts, n, a \o parts[n], start)
<1> DEFINE b == parts[n]
           all == a \o b
<1>1. /\ b \in Seq(S) /\ Len(b) \in Nat /\ Len(a) \in Nat
      OBVIOUS
<1>0. ASSUME NEW k \in 1..Len(parts)
      PROVE  Len(parts[k]) \in Nat /\ start[k] \in Nat
  <2> HIDE DEF all, b
  <2>1. parts[k] \in Seq(S)
        OBVIOUS
  <2>2. Len(parts[k]) \in Nat
        BY <2>1
  <2>3. start[k] \in Nat
        OBVIOUS
  <2> QED BY <2>2, <2>3
<1>2. /\ all \in Seq(S) /\ Len(all) = Len(a) + Len(b)
      /\ \A k \in 1..Len(a) : all[k] = a[k]
      /\ \A k \in (Len(a) + 1)..(Len(a) + Len(b)) : all[k] = b[k - Len(a)]
  <2> HIDE DEF b
  <2> QED BY <1>1, TwoJoined
<1> HIDE DEF all, b
<1>3. \A k \in 1..n : k \in 1..(n - 1) \/ k = n
      OBVIOUS
<1>4. /\ \A k \in 1..(n - 1) : \A i \in 1..Len(parts[k]) :
             start[k] + i \in 1..Len(a) /\ a[start[k] + i] = parts[k][i]
      /\ \A j \in 1..Len(a) :
             \E k \in 1..(n - 1) : \E i \in 1..Len(parts[k]) : j = start[k] + i
      /\ \A k \in 1..(n - 1) : start[k] + Len(parts[k]) <= Len(a)
      /\ \A k, m \in 1..(n - 1) : k < m => start[k] + Len(parts[k]) <= start[m]
      BY DEF Laid
<1>5. ASSUME NEW k \in 1..n, NEW i \in 1..Len(parts[k])
      PROVE  start[k] + i \in 1..Len(all) /\ all[start[k] + i] = parts[k][i]
  <2>1. CASE k = n
    <3>0. start[k] = Len(a) /\ parts[k] = b /\ i \in 1..Len(b)
          BY <2>1 DEF b
    <3>1. PICK x : x = Len(a) + i
          OBVIOUS
    <3>2. x \in (Len(a) + 1)..(Len(a) + Len(b)) /\ x \in 1..Len(all) /\ x - Len(a) = i
          BY <1>1, <1>2, <3>0, <3>1
    <3>3. all[x] = b[x - Len(a)]
          BY <1>2, <3>2
    <3> QED BY <3>0, <3>1, <3>2, <3>3
  <2>2. CASE k \in 1..(n - 1)
    <3>1. start[k] + i \in 1..Len(a) /\ a[start[k] + i] = parts[k][i]
          BY <1>4, <2>2
    <3>3. \A x \in 1..Len(a) : x \in 1..Len(all)
          BY <1>1, <1>2
    <3>2. start[k] + i \in 1..Len(all)
          BY <3>1, <3>3
    <3> QED BY <1>2, <3>1, <3>2
  <2> QED BY <1>3, <2>1, <2>2
<1>6. ASSUME NEW j \in 1..Len(all)
      PROVE  \E k \in 1..n : \E i \in 1..Len(parts[k]) : j = start[k] + i
  <2>1. CASE j <= Len(a)
    <3>1. PICK k \in 1..(n - 1) : \E i \in 1..Len(parts[k]) : j = start[k] + i
      <4>1. j \in 1..Len(a)
            BY <1>1, <1>2, <2>1
      <4> QED BY <1>4, <4>1
    <3>2. k \in 1..n
          BY <3>1
    <3> QED BY <3>1, <3>2
  <2>2. CASE j > Len(a)
    <3>1. PICK i : i = j - Len(a)
          OBVIOUS
    <3>2. i \in 1..Len(b) /\ j = Len(a) + i
          BY <1>1, <1>2, <2>2, <3>1
    <3>3. i \in 1..Len(parts[n]) /\ j = start[n] + i
          BY <3>2 DEF b
    <3>4. n \in 1..n /\ \E x \in 1..Len(parts[n]) : j = start[n] + x
          BY <3>3
    <3> QED BY <3>4
  <2>3. j <= Len(a) \/ j > Len(a)
        BY <1>1, <1>2
  <2> QED BY <2>1, <2>2, <2>3, Zenon
<1>7. ASSUME NEW k \in 1..n PROVE start[k] + Len(parts[k]) <= Len(all)
  <2>1. CASE k = n
        BY <1>1, <1>2, <2>1 DEF b
  <2>2. CASE k \in 1..(n - 1)
        BY <1>0, <1>1, <1>2, <1>4, <2>2
  <2> QED BY <1>3, <2>1, <2>2
<1>8. ASSUME NEW k \in 1..n, NEW m \in 1..n, k < m
      PROVE  start[k] + Len(parts[k]) <= start[m]
  <2>1. k \in 1..(n - 1)
        BY <1>8
  <2>2. CASE m = n
        BY <1>4, <2>1, <2>2
  <2>3. CASE m \in 1..(n - 1)
        BY <1>4, <1>8, <2>1, <2>3
  <2> QED BY <1>3, <2>2, <2>3
<1>9. Laid(parts, n, all, start)
      BY <1>5, <1>6, <1>7, <1>8 DEF Laid
<1> QED BY <1>9 DEF all, b

\* One part more.
LEMMA JoinsMore ==
    ASSUME NEW parts, NEW n \in Nat, n > 1, NEW g, Joins(g, parts, n - 1)
    PROVE  \E f : f = [k \in 1..n |-> f[k]] /\ Joins(f, parts, n)
<1> DEFINE last == g[n - 1] \o parts[n]
           f == [k \in 1..n |-> IF k = n THEN last ELSE g[k]]
<1> HIDE DEF last
<1>1. f = [k \in 1..n |-> f[k]]
      OBVIOUS
<1>2. f[n] = last /\ \A k \in 1..(n - 1) : f[k] = g[k]
      OBVIOUS
<1> HIDE DEF f
<1>3. f[1] = parts[1]
      BY <1>2 DEF Joins
<1>4. ASSUME NEW k \in 2..n PROVE f[k] = f[k - 1] \o parts[k]
  <2>1. f[k - 1] = g[k - 1]
        BY <1>2
  <2>2. CASE k = n
        BY <1>2, <2>1, <2>2 DEF last
  <2>3. CASE k # n
    <3>1. k \in 1..(n - 1) /\ k \in 2..(n - 1)
          BY <2>3
    <3>2. f[k] = g[k] /\ g[k] = g[k - 1] \o parts[k]
          BY <1>2, <3>1 DEF Joins
    <3> QED BY <2>1, <3>2
  <2> QED BY <2>2, <2>3
<1> QED BY <1>1, <1>3, <1>4 DEF Joins

\* The joins of the beginnings of parts exist.
LEMMA JoinsExist ==
    ASSUME NEW S, NEW parts \in Seq(Seq(S)), Len(parts) >= 1
    PROVE  \E f : f = [k \in 1..Len(parts) |-> f[k]] /\ Joins(f, parts, Len(parts))
<1> DEFINE Has(n) == \E f : f = [k \in 1..n |-> f[k]] /\ Joins(f, parts, n)
           Bad == {n \in Nat \ {0} : ~Has(n)}
<1>0. Len(parts) \in Nat \ {0}
      OBVIOUS
<1> SUFFICES ASSUME Bad # {} PROVE FALSE
  <2>1. Has(Len(parts)) \/ Bad # {}
        BY <1>0
  <2> QED BY <2>1
<1>1. PICK n \in Bad : \A k \in Bad : ~(k < n)
  <2>1. Bad \subseteq Nat
        OBVIOUS
  <2> HIDE DEF Bad
  <2> QED BY <2>1, LeastNumber
<1>2. n \in Nat \ {0} /\ ~Has(n)
      BY <1>1
<1>3. CASE n = 1
  <2> DEFINE f == [k \in 1..1 |-> parts[1]]
  <2>1. f = [k \in 1..1 |-> f[k]] /\ Joins(f, parts, 1)
        BY DEF Joins
  <2> HIDE DEF f
  <2> QED BY <1>2, <1>3, <2>1
<1>4. CASE n > 1
  <2>1. n - 1 \in Nat \ {0} /\ n - 1 < n
        BY <1>2, <1>4
  <2>2. Has(n - 1)
    <3> HIDE DEF Has
    <3> QED BY <1>1, <2>1
  <2>3. PICK g : Joins(g, parts, n - 1)
        BY <2>2
  <2>4. Has(n)
        BY <1>2, <1>4, <2>3, JoinsMore
  <2> QED BY <1>2, <2>4
<1> QED BY <1>2, <1>3, <1>4

\* FlattenSeq gives such joins.
LEMMA FlattenJoins ==
    ASSUME NEW S, NEW parts \in Seq(Seq(S)), Len(parts) >= 1
    PROVE  \E f : Joins(f, parts, Len(parts)) /\ FlattenSeq(parts) = f[Len(parts)]
<1> DEFINE L == Len(parts)
           Eq(f) == f = [i \in 1..L |-> IF i = 1 THEN parts[i] ELSE f[i - 1] \o parts[i]]
           flatten == CHOOSE f : Eq(f)
<1>1. \E f : Eq(f)
  <2>1. PICK f : f = [k \in 1..L |-> f[k]] /\ Joins(f, parts, L)
        BY JoinsExist
  <2>2. ASSUME NEW i \in 1..L
        PROVE  f[i] = IF i = 1 THEN parts[i] ELSE f[i - 1] \o parts[i]
    <3>1. i # 1 => i \in 2..L
          OBVIOUS
    <3> QED BY <2>1, <3>1 DEF Joins
  <2>3. [k \in 1..L |-> f[k]]
            = [i \in 1..L |-> IF i = 1 THEN parts[i] ELSE f[i - 1] \o parts[i]]
        BY <2>2
  <2> QED BY <2>1, <2>3
<1>2. Eq(flatten)
      BY <1>1
<1>3. FlattenSeq(parts) = flatten[L]
      BY DEF FlattenSeq
<1> HIDE DEF flatten
<1>4. Joins(flatten, parts, L)
  <2>1. flatten[1] = parts[1]
        BY <1>2
  <2>2. \A k \in 2..L : k \in 1..L /\ k # 1
        OBVIOUS
  <2>3. \A k \in 2..L : flatten[k] = flatten[k - 1] \o parts[k]
        BY <1>2, <2>2
  <2> QED BY <2>1, <2>3 DEF Joins
<1> QED BY <1>3, <1>4

\* Every part stands in the joined sequence, in order, and nothing else does.
LEMMA FlattenLaid ==
    ASSUME NEW S, NEW parts \in Seq(Seq(S))
    PROVE  /\ FlattenSeq(parts) \in Seq(S)
           /\ \E start \in [1..Len(parts) -> Nat] :
                  Laid(parts, Len(parts), FlattenSeq(parts), start)
<1> DEFINE L == Len(parts)
<1>0. L \in Nat
      OBVIOUS
<1>1. CASE L = 0
  <2>1. parts = <<>> /\ FlattenSeq(parts) = <<>>
        BY <1>1 DEF FlattenSeq
  <2> DEFINE start == [n \in 1..L |-> 0]
  <2>2. start \in [1..L -> Nat]
        OBVIOUS
  <2>3. Laid(parts, L, <<>>, start)
        BY <1>1 DEF Laid
  <2> HIDE DEF start
  <2>4. <<>> \in Seq(S)
        OBVIOUS
  <2> QED BY <2>1, <2>2, <2>3, <2>4
<1>2. CASE L >= 1
  <2>1. PICK f : Joins(f, parts, L) /\ FlattenSeq(parts) = f[L]
        BY <1>2, FlattenJoins
  <2> DEFINE start == [n \in 1..L |-> IF n = 1 THEN 0 ELSE Len(f[n - 1])]
             Ok(n) == f[n] \in Seq(S) /\ start[n] \in Nat /\ Laid(parts, n, f[n], start)
             Bad == {n \in 1..L : ~(f[n] \in Seq(S))}
  <2>2. \A n \in 1..L : f[n] \in Seq(S)
    <3> SUFFICES ASSUME Bad # {} PROVE FALSE
        OBVIOUS
    <3>1. PICK n \in Bad : \A k \in Bad : ~(k < n)
      <4>1. Bad \subseteq Nat
            OBVIOUS
      <4> HIDE DEF Bad
      <4> QED BY <4>1, LeastNumber
    <3>2. n \in 1..L /\ parts[n] \in Seq(S)
          BY <3>1
    <3>3. n # 1
          BY <2>1, <3>1, <3>2 DEF Joins
    <3>4. n \in 2..L /\ n - 1 \in 1..L /\ n - 1 < n
          BY <3>2, <3>3
    <3>5. f[n - 1] \in Seq(S)
          BY <3>1, <3>4
    <3>6. f[n] = f[n - 1] \o parts[n]
          BY <2>1, <3>4 DEF Joins
    <3>7. f[n - 1] \o parts[n] \in Seq(S)
          BY <3>2, <3>5, TwoJoined
    <3> QED BY <3>1, <3>6, <3>7
  <2>3. start \in [1..L -> Nat] /\ start[1] = 0
    <3>1. \A n \in 1..L : n # 1 => n - 1 \in 1..L
          OBVIOUS
    <3>2. \A n \in 1..L : n # 1 => Len(f[n - 1]) \in Nat
          BY <2>2, <3>1
    <3> QED BY <1>2, <3>2
  <2>4. \A n \in 1..L : n # 1 => start[n] = Len(f[n - 1])
        OBVIOUS
  <2> HIDE DEF start
  <2> DEFINE Unlaid == {n \in 1..L : ~Laid(parts, n, f[n], start)}
  <2>5. \A n \in 1..L : Laid(parts, n, f[n], start)
    <3> SUFFICES ASSUME Unlaid # {} PROVE FALSE
        OBVIOUS
    <3>1. PICK n \in Unlaid : \A k \in Unlaid : ~(k < n)
      <4>1. Unlaid \subseteq Nat
            OBVIOUS
      <4> HIDE DEF Unlaid
      <4> QED BY <4>1, LeastNumber
    <3>2. n \in 1..L
          BY <3>1
    <3>3. n # 1
      <4> SUFFICES ASSUME n = 1 PROVE FALSE
          OBVIOUS
      <4>1. f[1] = parts[1]
            BY <2>1 DEF Joins
      <4>2. Laid(parts, 1, parts[1], start)
            BY <1>2, <2>3, LaidOne
      <4> QED BY <3>1, <4>1, <4>2
    <3>4. n \in 2..L /\ n - 1 \in 1..L /\ n - 1 < n /\ n > 1
          BY <3>2, <3>3
    <3>5. Laid(parts, n - 1, f[n - 1], start) /\ f[n - 1] \in Seq(S)
          BY <2>2, <3>1, <3>4
    <3>6. f[n] = f[n - 1] \o parts[n]
          BY <2>1, <3>4 DEF Joins
    <3>7. Laid(parts, n, f[n - 1] \o parts[n], start)
          BY <2>3, <2>4, <3>2, <3>3, <3>4, <3>5, LaidMore
    <3> QED BY <3>1, <3>6, <3>7
  <2>6. L \in 1..L
        BY <1>0, <1>2
  <2> QED BY <2>1, <2>2, <2>3, <2>5, <2>6
<1> QED BY <1>0, <1>1, <1>2

-----------------------------------------------------------------------------
(* What normalize_history writes                                           *)

Ids == (1..MaxMessages) \X (1..MaxCalls)

Written ==
    [role : Roles,
     text : {"prompt", "model prompt", "model prompt and prompt", "partial", "message",
             "none", "note"} \X Nat,
     calls : Seq(Ids), of : {NoCall} \union Ids]

IsResult(m, id) == m.role = "tool" /\ m.of = id

\* A message of the history, one of its calls, and a note.
LEMMA MessagesWritten ==
    ASSUME NEW m \in MessageType
    PROVE  /\ m \in Written
           /\ m.calls \in Seq(Ids)
           /\ \A k \in DOMAIN m.calls :
                 /\ OneCall(m, k) \in Written
                 /\ OneCall(m, k).role = m.role
                 /\ OneCall(m, k).calls = <<m.calls[k]>>
           /\ \A k \in Nat :
                 /\ Message("system", "note", k) \in Written
                 /\ Message("system", "note", k).role = "system"
                 /\ Message("system", "note", k).calls = <<>>
<1>1. m \in Written /\ m.calls \in Seq(Ids)
  <2> DEFINE kinds == {"prompt", "model prompt", "model prompt and prompt", "partial", "message"}
             more == kinds \union {"none", "note"}
             few == kinds \X (0..MaxMessages)
             all == more \X Nat
  <2>1. few \subseteq all
    <3> HIDE DEF kinds
    <3> QED BY MessageHistoryAssumption
  <2>2. MessageType = [role : Roles, text : few, calls : Seq(Ids), of : {NoCall} \union Ids]
        BY DEF MessageType, Ids
  <2>3. Written = [role : Roles, text : all, calls : Seq(Ids), of : {NoCall} \union Ids]
    <3>1. more = {"prompt", "model prompt", "model prompt and prompt", "partial", "message",
                  "none", "note"}
          OBVIOUS
    <3> HIDE DEF more
    <3> QED BY <3>1 DEF Written
  <2> HIDE DEF few, all
  <2> QED BY <2>1, <2>2, <2>3
<1>2. ASSUME NEW k \in DOMAIN m.calls
      PROVE  /\ OneCall(m, k) \in Written
             /\ OneCall(m, k).role = m.role
             /\ OneCall(m, k).calls = <<m.calls[k]>>
  <2>1. <<m.calls[k]>> \in Seq(Ids)
    <3>1. PICK id : id = m.calls[k]
          OBVIOUS
    <3>2. id \in Ids
          BY <1>1, <3>1
    <3>3. <<id>> \in Seq(Ids)
          BY <3>2
    <3> QED BY <3>1, <3>3
  <2>2. PICK c \in Seq(Ids) : c = <<m.calls[k]>>
        BY <2>1
  <2> DEFINE one == [m EXCEPT !.calls = c]
             t == IF k = 1 THEN m.text ELSE <<"none", 0>>
  <2>3. one \in Written /\ one.role = m.role /\ one.calls = c /\ one.text = m.text
        BY <1>1 DEF Written
  <2>4. OneCall(m, k) = [one EXCEPT !.text = t]
        BY <1>1, <2>2 DEF OneCall, Written
  <2>5. t \in {"prompt", "model prompt", "model prompt and prompt", "partial", "message",
               "none", "note"} \X Nat
        BY <1>1 DEF Written
  <2> HIDE DEF one, t
  <2>6. [one EXCEPT !.text = t] \in Written /\ [one EXCEPT !.text = t].role = one.role
           /\ [one EXCEPT !.text = t].calls = one.calls
        BY <2>3, <2>5 DEF Written
  <2> QED BY <2>2, <2>3, <2>4, <2>6
<1>3. ASSUME NEW k \in Nat
      PROVE  /\ Message("system", "note", k) \in Written
             /\ Message("system", "note", k).role = "system"
             /\ Message("system", "note", k).calls = <<>>
  <2>1. <<>> \in Seq(Ids)
        OBVIOUS
  <2> QED BY <2>1 DEF Message, Written, Roles
<1> QED BY <1>1, <1>2, <1>3

\* The first result of a call after a place, if there is one.
LEMMA ResultFound ==
    ASSUME NEW h \in Seq(MessageType), NEW i \in 1..Len(h), NEW id
    PROVE  \/ /\ ResultOf(h, i, id) = <<>>
              /\ \A j \in (i + 1)..Len(h) : ~IsResult(h[j], id)
           \/ \E j \in (i + 1)..Len(h) :
                 IsResult(h[j], id) /\ ResultOf(h, i, id) = <<h[j]>>
<1> DEFINE later == ResultsAt(h, (i + 1)..Len(h), id)
<1>1. \A j : j \in later <=> j \in (i + 1)..Len(h) /\ IsResult(h[j], id)
  <2>1. \A j \in (i + 1)..Len(h) : j \in DOMAIN h
        OBVIOUS
  <2> QED BY <2>1 DEF ResultsAt, IsResult
<1>2. ResultOf(h, i, id) = IF later = {} THEN <<>> ELSE <<h[Min(later)]>>
      BY DEF ResultOf
<1> HIDE DEF later
<1>3. CASE later = {}
      BY <1>1, <1>2, <1>3
<1>4. CASE later # {}
  <2>1. later \subseteq Nat
        BY <1>1
  <2>2. \E n \in later : \A k \in later : n <= k
    <3>1. PICK n \in later : \A k \in later : ~(k < n)
          BY <1>4, <2>1, LeastNumber
    <3> QED BY <2>1, <3>1
  <2>3. Min(later) \in later
        BY <2>2 DEF Min
  <2> QED BY <1>1, <1>2, <1>4, <2>3
<1> QED BY <1>3, <1>4

-----------------------------------------------------------------------------
(* The calls of one message                                                *)

\* What _serialize_parallel_turn writes for call k of message i.
Pair(h, i, k) ==
    <<OneCall(h[i], k)>> \o ResultOf(h, i, h[i].calls[k])
    \o IF k < Len(h[i].calls) THEN <<Message("system", "note", k)>> ELSE <<>>

\* Messages other than those of an assistant have no calls.
OnlyAssistantsCall(h) == \A i \in 1..Len(h) : h[i].role # "assistant" => h[i].calls = <<>>

LEMMA ShortSequences ==
    ASSUME NEW S, NEW a \in S, NEW b \in S, NEW c \in S
    PROVE  /\ <<a>> \o <<>> \o <<>> = <<a>> /\ <<a>> \o <<>> \o <<c>> = <<a, c>>
           /\ <<a>> \o <<b>> \o <<>> = <<a, b>> /\ <<a>> \o <<b>> \o <<c>> = <<a, b, c>>
           /\ <<a>> \in Seq(S) /\ <<a, c>> \in Seq(S) /\ <<a, b, c>> \in Seq(S)
           /\ Len(<<a>>) = 1 /\ Len(<<a, c>>) = 2 /\ Len(<<a, b, c>>) = 3
           /\ <<a>>[1] = a /\ <<a, c>>[1] = a /\ <<a, c>>[2] = c
           /\ <<a, b, c>>[1] = a /\ <<a, b, c>>[2] = b /\ <<a, b, c>>[3] = c
<1>1. <<a>> \in Seq(S) /\ <<a, c>> \in Seq(S) /\ <<a, b, c>> \in Seq(S)
      OBVIOUS
<1>2. Len(<<a>>) = 1 /\ Len(<<a, c>>) = 2 /\ Len(<<a, b, c>>) = 3
      OBVIOUS
<1>3. <<a>>[1] = a /\ <<a, c>>[1] = a /\ <<a, c>>[2] = c
      OBVIOUS
<1>4. <<a, b, c>>[1] = a /\ <<a, b, c>>[2] = b /\ <<a, b, c>>[3] = c
      OBVIOUS
<1>5. <<a>> \o <<c>> = <<a, c>> /\ <<a>> \o <<b>> = <<a, b>>
  <2>1. ASSUME NEW x \in S, NEW y \in S PROVE <<x>> \o <<y>> = <<x, y>>
    <3> DEFINE xy == <<x>> \o <<y>>
               two == <<x, y>>
    <3>1. xy \in Seq(S) /\ Len(xy) = 2 /\ xy[1] = x /\ xy[2] = y
          OBVIOUS
    <3>2. two \in Seq(S) /\ Len(two) = 2 /\ two[1] = x /\ two[2] = y
          OBVIOUS
    <3> HIDE DEF xy, two
    <3>3. \A k \in 1..2 : xy[k] = two[k]
          BY <3>1, <3>2
    <3>4. xy = two
          BY <3>1, <3>2, <3>3
    <3> QED BY <3>4 DEF xy, two
  <2> QED BY <2>1
<1>6. <<a>> \o <<>> = <<a>> /\ <<a, b>> \o <<>> = <<a, b>>
      BY <1>1, NoneMore
<1>7. <<a, b>> \o <<c>> = <<a, b, c>>
  <2> DEFINE p == <<a, b>>
             q == <<c>>
             pq == p \o q
             abc == <<a, b, c>>
  <2>1. p \in Seq(S) /\ q \in Seq(S) /\ Len(p) = 2 /\ Len(q) = 1
           /\ p[1] = a /\ p[2] = b /\ q[1] = c
        OBVIOUS
  <2>2. abc \in Seq(S) /\ Len(abc) = 3 /\ abc[1] = a /\ abc[2] = b /\ abc[3] = c
        BY <1>1, <1>2, <1>4
  <2> HIDE DEF p, q, abc
  <2>3. pq \in Seq(S) /\ Len(pq) = 3 /\ pq[1] = a /\ pq[2] = b /\ pq[3] = c
    <3>1. /\ pq \in Seq(S) /\ Len(pq) = 2 + 1
          /\ \A k \in 1..2 : pq[k] = p[k]
          /\ \A k \in (2 + 1)..(2 + 1) : pq[k] = q[k - 2]
      <4>1. /\ pq \in Seq(S) /\ Len(pq) = Len(p) + Len(q)
            /\ \A k \in 1..Len(p) : pq[k] = p[k]
            /\ \A k \in (Len(p) + 1)..(Len(p) + Len(q)) : pq[k] = q[k - Len(p)]
            BY <2>1, TwoJoined
      <4> HIDE DEF pq
      <4> QED BY <2>1, <4>1
    <3> HIDE DEF pq
    <3>2. 1 \in 1..2 /\ 2 \in 1..2 /\ 3 \in (2 + 1)..(2 + 1) /\ 3 - 2 = 1 /\ 2 + 1 = 3
          OBVIOUS
    <3> QED BY <2>1, <3>1, <3>2
  <2> HIDE DEF pq
  <2>4. \A k \in 1..3 : pq[k] = abc[k]
        BY <2>2, <2>3
  <2>5. pq = abc
        BY <2>2, <2>3, <2>4
  <2> QED BY <2>5 DEF pq, p, q, abc
<1> QED BY <1>1, <1>2, <1>3, <1>4, <1>5, <1>6, <1>7, Zenon

\* What is known of such a pair.
PairOk(h, i, k, pair) ==
    /\ pair \in Seq(Written) /\ Len(pair) >= 1
    /\ pair[1].role = "assistant" /\ pair[1].calls = <<h[i].calls[k]>>
    /\ \A x \in 2..Len(pair) :
          /\ pair[x].calls = <<>>
          /\ pair[x].role # "assistant"
          /\ pair[x].role = "tool" =>
                x = 2 /\ pair[x].of = h[i].calls[k] /\ pair[x] \in Range(h)
    /\ (\E j \in (i + 1)..Len(h) : IsResult(h[j], h[i].calls[k])) =>
          Len(pair) >= 2 /\ IsResult(pair[2], h[i].calls[k])

LEMMA PairIsOk ==
    ASSUME NEW h \in Seq(MessageType), OnlyAssistantsCall(h), NEW i \in 1..Len(h),
           h[i].role = "assistant", NEW k \in DOMAIN h[i].calls
    PROVE  PairOk(h, i, k, Pair(h, i, k))
<1> DEFINE id == h[i].calls[k]
           a == OneCall(h[i], k)
           note == Message("system", "note", k)
           end == IF k < Len(h[i].calls) THEN <<note>> ELSE <<>>
           r == ResultOf(h, i, id)
<1>1. h[i] \in MessageType
      OBVIOUS
<1>2. /\ a \in Written /\ a.role = "assistant" /\ a.calls = <<id>>
      /\ h[i].calls \in Seq(Ids)
      BY <1>1, MessagesWritten
<1>3. k \in Nat
      BY <1>2
<1>4. note \in Written /\ note.role = "system" /\ note.calls = <<>>
      BY <1>1, <1>3, MessagesWritten
<1>5. Pair(h, i, k) = <<a>> \o r \o end
      BY DEF Pair
<1>6. end = <<>> \/ end = <<note>>
      OBVIOUS
<1>7. \/ r = <<>> /\ \A j \in (i + 1)..Len(h) : ~IsResult(h[j], id)
      \/ \E j \in (i + 1)..Len(h) : IsResult(h[j], id) /\ r = <<h[j]>>
      BY ResultFound
<1> HIDE DEF a, note, end, r, id
<1>8. CASE r = <<>> /\ \A j \in (i + 1)..Len(h) : ~IsResult(h[j], id)
  <2>1. Pair(h, i, k) = <<a>> \/ Pair(h, i, k) = <<a, note>>
    <3>1. /\ <<a>> \o <<>> \o <<>> = <<a>> /\ <<a>> \o <<>> \o <<note>> = <<a, note>>
          BY <1>2, <1>4, ShortSequences
    <3>2. r = <<>>
          BY <1>8
    <3> QED BY ONLY <1>5, <1>6, <3>1, <3>2, Zenon
  <2>2. ASSUME NEW p, p = <<a>> \/ p = <<a, note>>
        PROVE  PairOk(h, i, k, p)
    <3>1. p \in Seq(Written) /\ Len(p) \in {1, 2} /\ p[1] = a
             /\ (Len(p) = 2 => p[2] = note)
      <4>1. /\ <<a>> \in Seq(Written) /\ <<a, note>> \in Seq(Written)
            /\ Len(<<a>>) = 1 /\ Len(<<a, note>>) = 2
            /\ <<a>>[1] = a /\ <<a, note>>[1] = a /\ <<a, note>>[2] = note
            BY <1>2, <1>4, ShortSequences, Zenon
      <4> QED BY ONLY <2>2, <4>1
    <3>2. \A x \in 2..Len(p) : p[x] = note
          BY <3>1
    <3>3. note.role # "assistant" /\ note.role # "tool"
          BY <1>4
    <3> QED BY <1>2, <1>4, <1>8, <3>1, <3>2, <3>3 DEF PairOk, id
  <2> QED BY <2>1, <2>2
<1>9. ASSUME NEW j \in (i + 1)..Len(h), IsResult(h[j], id), r = <<h[j]>>
      PROVE  PairOk(h, i, k, Pair(h, i, k))
  <2>1. /\ h[j] \in MessageType /\ h[j] \in Range(h) /\ j \in 1..Len(h)
        BY DEF Range
  <2>2. h[j] \in Written /\ h[j].role = "tool" /\ h[j].of = id
        BY <1>9, <2>1, MessagesWritten DEF IsResult
  <2>3. h[j].calls = <<>>
        BY <2>1, <2>2 DEF OnlyAssistantsCall
  <2>4. PICK b : b = h[j]
        OBVIOUS
  <2>5. Pair(h, i, k) = <<a, b>> \/ Pair(h, i, k) = <<a, b, note>>
    <3>1. /\ <<a>> \o <<b>> \o <<>> = <<a, b>> /\ <<a>> \o <<b>> \o <<note>> = <<a, b, note>>
          BY <1>2, <1>4, <2>2, <2>4, ShortSequences
    <3>2. r = <<b>>
          BY <1>9, <2>4
    <3> QED BY ONLY <1>5, <1>6, <3>1, <3>2, Zenon
  <2>6. ASSUME NEW p, p = <<a, b>> \/ p = <<a, b, note>>
        PROVE  PairOk(h, i, k, p)
    <3>1. /\ p \in Seq(Written) /\ Len(p) \in {2, 3} /\ p[1] = a /\ p[2] = b
          /\ Len(p) = 3 => p[3] = note
      <4>1. /\ <<a, b>> \in Seq(Written) /\ <<a, b, note>> \in Seq(Written)
            /\ Len(<<a, b>>) = 2 /\ Len(<<a, b, note>>) = 3
            /\ <<a, b>>[1] = a /\ <<a, b>>[2] = b
            /\ <<a, b, note>>[1] = a /\ <<a, b, note>>[2] = b /\ <<a, b, note>>[3] = note
            BY <1>2, <1>4, <2>2, <2>4, ShortSequences, Zenon
      <4> QED BY ONLY <2>6, <4>1
    <3>2. ASSUME NEW x \in 2..Len(p)
          PROVE  x = 2 \/ (x = 3 /\ p[x] = note)
      <4>1. Len(p) = 2 \/ Len(p) = 3
            BY ONLY <3>1, Zenon
      <4>2. CASE Len(p) = 2
        <5>1. x \in 2..2
              BY <4>2
        <5> QED BY <5>1
      <4>3. CASE Len(p) = 3
        <5>1. x \in 2..3
              BY <4>3
        <5>2. x = 2 \/ x = 3
              BY <5>1
        <5> QED BY <3>1, <4>3, <5>2, Zenon
      <4> QED BY <4>1, <4>2, <4>3, Zenon
    <3> QED BY <1>2, <1>4, <2>1, <2>2, <2>3, <2>4, <3>1, <3>2 DEF PairOk, id, IsResult
  <2> QED BY <2>5, <2>6
<1> QED BY <1>7, <1>8, <1>9

\* What is known of a message once it is serialized.
SerializedOk(h, i, z) ==
    /\ z \in Seq(Written)
    /\ \A x \in 1..Len(z) : ~Parallel(z[x]) /\ Range(z[x].calls) \subseteq Range(h[i].calls)
    /\ \A id \in Range(h[i].calls) : \E x \in 1..Len(z) : id \in Range(z[x].calls)
    /\ \A x \in 1..Len(z) : z[x].role = "tool" =>
          z[x] \in Range(h) /\ \E y \in 1..(x - 1) : z[x].of \in Range(z[y].calls)
    /\ \A x \in 1..Len(z) : \A id \in Range(z[x].calls) :
          (\E j \in (i + 1)..Len(h) : IsResult(h[j], id)) =>
              x + 1 \in 1..Len(z) /\ IsResult(z[x + 1], id)

LEMMA OneInRange ==
    ASSUME NEW e
    PROVE  Range(<<e>>) = {e} /\ Len(<<e>>) = 1 /\ <<e>>[1] = e /\ Range(<<>>) = {}
BY DEF Range

LEMMA SerializedIsOk ==
    ASSUME NEW h \in Seq(MessageType), OnlyAssistantsCall(h), NEW i \in 1..Len(h),
           Parallel(h[i])
    PROVE  SerializedOk(h, i, Serialized(h, i))
<1> DEFINE calls == h[i].calls
           parts == [k \in DOMAIN calls |-> Pair(h, i, k)]
           z == Serialized(h, i)
<1>1. calls \in Seq(Ids) /\ h[i].role = "assistant"
  <2>1. h[i] \in MessageType
        OBVIOUS
  <2> QED BY <2>1, MessagesWritten DEF Parallel
<1>2. DOMAIN calls = 1..Len(calls) /\ Len(calls) \in Nat
      BY <1>1
<1>3. \A k \in 1..Len(calls) : PairOk(h, i, k, Pair(h, i, k))
      BY <1>1, <1>2, PairIsOk
<1>4. parts \in Seq(Seq(Written)) /\ Len(parts) = Len(calls)
         /\ \A k \in 1..Len(calls) : parts[k] = Pair(h, i, k)
  <2>1. \A k \in 1..Len(calls) : Pair(h, i, k) \in Seq(Written)
        BY <1>3 DEF PairOk
  <2> QED BY <1>2, <2>1
<1>5. z = FlattenSeq(parts)
      BY DEF Serialized, Pair
<1> HIDE DEF parts, z
<1>6. \A k \in 1..Len(calls) : PairOk(h, i, k, parts[k])
      BY <1>3, <1>4
<1>7. z \in Seq(Written)
      BY <1>4, <1>5, FlattenLaid
<1>8. PICK start \in [1..Len(parts) -> Nat] : Laid(parts, Len(parts), z, start)
      BY <1>4, <1>5, FlattenLaid
<1>9. ASSUME NEW x \in 1..Len(z)
      PROVE  \E k \in 1..Len(calls) : \E y \in 1..Len(parts[k]) :
                 x = start[k] + y /\ z[x] = parts[k][y]
  <2>1. PICK k \in 1..Len(parts) : \E y \in 1..Len(parts[k]) : x = start[k] + y
        BY <1>8 DEF Laid
  <2>2. PICK y \in 1..Len(parts[k]) : x = start[k] + y
        BY <2>1
  <2>3. z[start[k] + y] = parts[k][y]
        BY <1>8 DEF Laid
  <2>4. k \in 1..Len(calls)
        BY <1>4
  <2> QED BY <2>2, <2>3, <2>4
<1>10. ASSUME NEW k \in 1..Len(calls), NEW y \in 1..Len(parts[k])
       PROVE  start[k] + y \in 1..Len(z) /\ z[start[k] + y] = parts[k][y]
       BY <1>4, <1>8 DEF Laid
<1>11. ASSUME NEW x \in 1..Len(z)
       PROVE  /\ ~Parallel(z[x]) /\ Range(z[x].calls) \subseteq Range(calls)
              /\ z[x].role = "tool" =>
                   z[x] \in Range(h) /\ \E y \in 1..(x - 1) : z[x].of \in Range(z[y].calls)
              /\ \A id \in Range(z[x].calls) :
                    (\E j \in (i + 1)..Len(h) : IsResult(h[j], id)) =>
                        x + 1 \in 1..Len(z) /\ IsResult(z[x + 1], id)
  <2>1. PICK k \in 1..Len(calls) : \E y \in 1..Len(parts[k]) :
                 x = start[k] + y /\ z[x] = parts[k][y]
        BY <1>9
  <2>2. PICK y \in 1..Len(parts[k]) : x = start[k] + y /\ z[x] = parts[k][y]
        BY <2>1
  <2>3. PairOk(h, i, k, parts[k]) /\ start[k] \in Nat /\ Len(parts[k]) \in Nat
    <3>1. k \in 1..Len(parts) /\ parts[k] \in Seq(Written)
          BY <1>4
    <3> QED BY <1>6, <3>1
  <2>4. calls[k] \in Range(calls)
        BY <1>2 DEF Range
  <2>5. CASE y = 1
    <3>1. z[x].role = "assistant" /\ z[x].calls = <<calls[k]>>
          BY <2>2, <2>3, <2>5 DEF PairOk
    <3>2. ~Parallel(z[x]) /\ Range(z[x].calls) = {calls[k]}
          BY <3>1, OneInRange DEF Parallel
    <3>3. ASSUME \E j \in (i + 1)..Len(h) : IsResult(h[j], calls[k])
          PROVE  x + 1 \in 1..Len(z) /\ IsResult(z[x + 1], calls[k])
      <4>1. 2 \in 1..Len(parts[k]) /\ IsResult(parts[k][2], calls[k])
            BY <2>3, <3>3 DEF PairOk
      <4>2. start[k] + 2 \in 1..Len(z) /\ z[start[k] + 2] = parts[k][2]
            BY <1>10, <4>1
      <4>3. start[k] + 2 = x + 1
            BY <2>2, <2>3, <2>5
      <4> QED BY <4>1, <4>2, <4>3
    <3> QED BY <2>4, <3>1, <3>2, <3>3
  <2>6. CASE y # 1
    <3>1. y \in 2..Len(parts[k])
          BY <2>6
    <3>2. /\ z[x].calls = <<>> /\ z[x].role # "assistant"
          /\ z[x].role = "tool" => y = 2 /\ z[x].of = calls[k] /\ z[x] \in Range(h)
          BY <2>2, <2>3, <3>1 DEF PairOk
    <3>3. ~Parallel(z[x]) /\ Range(z[x].calls) = {}
          BY <3>2, OneInRange DEF Parallel
    <3>4. ASSUME z[x].role = "tool"
          PROVE  \E w \in 1..(x - 1) : z[x].of \in Range(z[w].calls)
      <4>1. 1 \in 1..Len(parts[k]) /\ start[k] + 1 = x - 1
            BY <2>2, <2>3, <3>2, <3>4 DEF PairOk
      <4>2. x - 1 \in 1..Len(z) /\ z[x - 1] = parts[k][1]
            BY <1>10, <4>1
      <4>3. z[x - 1].calls = <<calls[k]>>
            BY <2>3, <4>2 DEF PairOk
      <4>4. z[x].of \in Range(z[x - 1].calls)
            BY <3>2, <3>4, <4>3, OneInRange
      <4>5. x - 1 \in 1..(x - 1)
            BY <4>2
      <4> QED BY <4>4, <4>5
    <3> QED BY <3>2, <3>3, <3>4
  <2> QED BY <2>5, <2>6
<1>12. ASSUME NEW id \in Range(calls)
       PROVE  \E x \in 1..Len(z) : id \in Range(z[x].calls)
  <2>1. PICK k \in 1..Len(calls) : id = calls[k]
        BY <1>2 DEF Range
  <2>2. 1 \in 1..Len(parts[k]) /\ parts[k][1].calls = <<calls[k]>>
    <3>1. k \in 1..Len(parts) /\ parts[k] \in Seq(Written)
          BY <1>4
    <3> QED BY <1>6, <3>1 DEF PairOk
  <2>3. start[k] + 1 \in 1..Len(z) /\ z[start[k] + 1] = parts[k][1]
        BY <1>10, <2>2
  <2>4. id \in Range(z[start[k] + 1].calls)
    <3>1. Range(<<calls[k]>>) = {calls[k]}
          BY OneInRange
    <3> QED BY <2>1, <2>2, <2>3, <3>1
  <2> QED BY <2>3, <2>4
<1> QED BY <1>7, <1>11, <1>12 DEF SerializedOk, z

-----------------------------------------------------------------------------
(* A history that is well formed is normalized completely                  *)

Wellformed(h) ==
    /\ OnlyAssistantsCall(h)
    /\ \A i \in 1..Len(h) : h[i].role = "tool" =>
           \E j \in 1..(i - 1) : h[i].of \in Range(h[j].calls)
    /\ \A i, j \in 1..Len(h) : \A id :
           id \in Range(h[i].calls) /\ id \in Range(h[j].calls) => h[i] = h[j]
    /\ \A i, j \in 1..Len(h) :
           h[i].role = "tool" /\ h[j].role = "tool" /\ h[i].of = h[j].of => h[i] = h[j]
    /\ \A i \in 1..Len(h) : \A id \in Range(h[i].calls) :
           (\E j \in 1..Len(h) : IsResult(h[j], id))
              => \E j \in (i + 1)..Len(h) : IsResult(h[j], id)

\* Message i is kept as it is.
Kept(h, i) ==
    ~Parallel(h[i]) /\ ~(h[i].role = "tool" /\ h[i].of \in ParallelIds(h))

LEMMA ReplacedBy ==
    ASSUME NEW h \in Seq(MessageType), OnlyAssistantsCall(h), NEW i \in 1..Len(h)
    PROVE  /\ Replaced(h, i) \in Seq(Written)
           /\ Parallel(h[i]) => SerializedOk(h, i, Replaced(h, i))
           /\ Kept(h, i) => Len(Replaced(h, i)) = 1 /\ Replaced(h, i)[1] = h[i]
           /\ ~Parallel(h[i]) /\ ~Kept(h, i) => Len(Replaced(h, i)) = 0
<1>1. CASE Parallel(h[i])
  <2>1. Replaced(h, i) = Serialized(h, i)
        BY <1>1 DEF Replaced
  <2>2. SerializedOk(h, i, Replaced(h, i))
        BY <1>1, <2>1, SerializedIsOk
  <2> QED BY <1>1, <2>2 DEF SerializedOk, Kept
<1>2. CASE Kept(h, i)
  <2>1. Replaced(h, i) = <<h[i]>> /\ ~Parallel(h[i])
        BY <1>2 DEF Replaced, Kept
  <2>2. PICK m : m = h[i]
        OBVIOUS
  <2>3. m \in MessageType
        BY <2>2
  <2>4. m \in Written
        BY <2>3, MessagesWritten
  <2>5. <<m>> \in Seq(Written) /\ Len(<<m>>) = 1 /\ <<m>>[1] = m
        BY <2>4
  <2> QED BY <1>2, <2>1, <2>2, <2>5
<1>3. CASE ~Parallel(h[i]) /\ ~Kept(h, i)
  <2>1. Replaced(h, i) = <<>>
        BY <1>3 DEF Replaced, Kept
  <2>2. <<>> \in Seq(Written) /\ Len(<<>>) = 0
        OBVIOUS
  <2> QED BY <1>3, <2>1, <2>2
<1> QED BY <1>1, <1>2, <1>3 DEF Kept

LEMMA InParallelIds ==
    ASSUME NEW h \in Seq(MessageType), NEW id
    PROVE  id \in ParallelIds(h)
              <=> \E i \in 1..Len(h) : Parallel(h[i]) /\ id \in Range(h[i].calls)
<1>1. DOMAIN h = 1..Len(h)
      OBVIOUS
<1> QED BY <1>1 DEF ParallelIds

\* What NormalizedHistoryComplete says of a history.
Complete(h, new) ==
    /\ \A i \in DOMAIN new : ~Parallel(new[i])
    /\ CallsOf(new) = CallsOf(h)
    /\ Results(new) = Results(h)
    /\ \A i \in DOMAIN new : \A id \in Range(new[i].calls) :
           id \in ParallelIds(h) /\ (\E m \in Results(h) : m.of = id)
           => i < Len(new) /\ new[i + 1].of = id
    /\ \A j \in DOMAIN new :
           new[j].role = "tool" =>
               \E i \in 1..(j - 1) : new[j].of \in Range(new[i].calls)

LEMMA NormalizedComplete ==
    ASSUME NEW h \in Seq(MessageType), Wellformed(h)
    PROVE  Complete(h, Normalized(h))
<1> DEFINE new == Normalized(h)
           parts == [i \in DOMAIN h |-> Replaced(h, i)]
<1>1. DOMAIN h = 1..Len(h) /\ Len(h) \in Nat /\ OnlyAssistantsCall(h)
      BY DEF Wellformed
<1>2. \A i \in 1..Len(h) : Replaced(h, i) \in Seq(Written)
      BY <1>1, ReplacedBy
<1>3. parts \in Seq(Seq(Written)) /\ Len(parts) = Len(h)
         /\ \A i \in 1..Len(h) : parts[i] = Replaced(h, i)
      BY <1>1, <1>2
<1>4. new = FlattenSeq(parts)
      BY DEF Normalized
<1> HIDE DEF parts, new
<1>5. new \in Seq(Written)
      BY <1>3, <1>4, FlattenLaid
<1>6. DOMAIN new = 1..Len(new) /\ Len(new) \in Nat
      BY <1>5
<1>7. PICK start \in [1..Len(parts) -> Nat] : Laid(parts, Len(parts), new, start)
      BY <1>3, <1>4, FlattenLaid
<1>8. ASSUME NEW i \in 1..Len(h)
      PROVE  /\ start[i] \in Nat /\ Len(parts[i]) \in Nat
             /\ \A y \in 1..Len(parts[i]) :
                   start[i] + y \in 1..Len(new) /\ new[start[i] + y] = parts[i][y]
             /\ Parallel(h[i]) => SerializedOk(h, i, parts[i])
             /\ Kept(h, i) => Len(parts[i]) = 1 /\ parts[i][1] = h[i]
             /\ ~Parallel(h[i]) /\ ~Kept(h, i) => Len(parts[i]) = 0
  <2>1. parts[i] = Replaced(h, i) /\ parts[i] \in Seq(Written) /\ i \in 1..Len(parts)
        BY <1>2, <1>3
  <2>2. start[i] \in Nat /\ Len(parts[i]) \in Nat
        BY <2>1
  <2>3. \A y \in 1..Len(parts[i]) :
            start[i] + y \in 1..Len(new) /\ new[start[i] + y] = parts[i][y]
        BY <1>7, <2>1 DEF Laid
  <2>4. /\ Parallel(h[i]) => SerializedOk(h, i, Replaced(h, i))
        /\ Kept(h, i) => Len(Replaced(h, i)) = 1 /\ Replaced(h, i)[1] = h[i]
        /\ ~Parallel(h[i]) /\ ~Kept(h, i) => Len(Replaced(h, i)) = 0
        BY <1>1, ReplacedBy
  <2> QED BY <2>1, <2>2, <2>3, <2>4
<1>9. ASSUME NEW x \in 1..Len(new)
      PROVE  \E i \in 1..Len(h) : \E y \in 1..Len(parts[i]) :
                 /\ x = start[i] + y /\ new[x] = parts[i][y]
                 /\ \/ Parallel(h[i]) /\ SerializedOk(h, i, parts[i])
                    \/ Kept(h, i) /\ y = 1 /\ new[x] = h[i]
  <2>1. PICK i \in 1..Len(parts) : \E y \in 1..Len(parts[i]) : x = start[i] + y
        BY <1>7 DEF Laid
  <2>2. PICK y \in 1..Len(parts[i]) : x = start[i] + y
        BY <2>1
  <2>3. i \in 1..Len(h)
        BY <1>3
  <2>4. new[x] = parts[i][y]
        BY <1>8, <2>2, <2>3
  <2>5. CASE Parallel(h[i])
        BY <1>8, <2>2, <2>3, <2>4, <2>5
  <2>6. CASE ~Parallel(h[i])
    <3>1. Kept(h, i) /\ Len(parts[i]) = 1 /\ parts[i][1] = h[i]
      <4>1. Len(parts[i]) # 0
            BY <2>2
      <4> QED BY <1>8, <2>3, <2>6, <4>1
    <3>2. y = 1
          BY <2>2, <3>1
    <3>3. new[x] = h[i]
          BY <2>4, <3>1, <3>2
    <3> QED BY <2>2, <2>3, <2>4, <3>1, <3>2, <3>3
  <2> QED BY <2>5, <2>6
<1>10. ASSUME NEW i \in 1..Len(h), Kept(h, i)
       PROVE  start[i] + 1 \in 1..Len(new) /\ new[start[i] + 1] = h[i]
  <2>1. Len(parts[i]) = 1 /\ parts[i][1] = h[i]
        BY <1>8, <1>10
  <2>2. 1 \in 1..Len(parts[i])
        BY <2>1
  <2> QED BY <1>8, <2>1, <2>2
<1>11. ASSUME NEW i \in 1..Len(h), NEW id \in Range(h[i].calls)
       PROVE  ~(h[i].role = "tool")
  <2>1. h[i].calls # <<>>
        BY <1>11, OneInRange
  <2> QED BY <1>1, <2>1 DEF OnlyAssistantsCall
<1>12. ASSUME NEW x \in 1..Len(new) PROVE ~Parallel(new[x])
  <2>1. PICK i \in 1..Len(h) : \E y \in 1..Len(parts[i]) :
                 /\ x = start[i] + y /\ new[x] = parts[i][y]
                 /\ \/ Parallel(h[i]) /\ SerializedOk(h, i, parts[i])
                    \/ Kept(h, i) /\ y = 1 /\ new[x] = h[i]
        BY <1>9
  <2> QED BY <2>1 DEF Kept, SerializedOk
<1>13. CallsOf(new) = CallsOf(h)
  <2>1. ASSUME NEW id \in CallsOf(new) PROVE id \in CallsOf(h)
    <3>1. PICK x \in 1..Len(new) : id \in Range(new[x].calls)
          BY <1>6, <2>1 DEF CallsOf
    <3>2. PICK i \in 1..Len(h) : \E y \in 1..Len(parts[i]) :
                 /\ x = start[i] + y /\ new[x] = parts[i][y]
                 /\ \/ Parallel(h[i]) /\ SerializedOk(h, i, parts[i])
                    \/ Kept(h, i) /\ y = 1 /\ new[x] = h[i]
          BY <1>9
    <3>3. id \in Range(h[i].calls)
          BY <3>1, <3>2 DEF SerializedOk
    <3> QED BY <1>1, <3>3 DEF CallsOf
  <2>2. ASSUME NEW id \in CallsOf(h) PROVE id \in CallsOf(new)
    <3>1. PICK i \in 1..Len(h) : id \in Range(h[i].calls)
          BY <1>1, <2>2 DEF CallsOf
    <3>2. \E x \in 1..Len(new) : id \in Range(new[x].calls)
      <4>1. CASE Parallel(h[i])
        <5>1. PICK y \in 1..Len(parts[i]) : id \in Range(parts[i][y].calls)
              BY <1>8, <3>1, <4>1 DEF SerializedOk
        <5> QED BY <1>8, <5>1
      <4>2. CASE ~Parallel(h[i])
        <5>1. Kept(h, i)
              BY <1>11, <3>1, <4>2 DEF Kept
        <5> QED BY <1>10, <3>1, <5>1
      <4> QED BY <4>1, <4>2
    <3> QED BY <1>6, <3>2 DEF CallsOf
  <2> QED BY <2>1, <2>2
<1>14. Results(new) = Results(h)
  <2>1. ASSUME NEW m \in Results(new) PROVE m \in Results(h)
    <3>1. PICK x \in 1..Len(new) : m = new[x]
          BY <1>6, <2>1 DEF Results, Range
    <3>2. m.role = "tool"
          BY <2>1 DEF Results
    <3>3. PICK i \in 1..Len(h) : \E y \in 1..Len(parts[i]) :
                 /\ x = start[i] + y /\ new[x] = parts[i][y]
                 /\ \/ Parallel(h[i]) /\ SerializedOk(h, i, parts[i])
                    \/ Kept(h, i) /\ y = 1 /\ new[x] = h[i]
          BY <1>9
    <3>4. m \in Range(h)
      <4>1. h[i] \in Range(h)
            BY <1>1 DEF Range
      <4> QED BY <3>1, <3>2, <3>3, <4>1 DEF SerializedOk
    <3> QED BY <3>2, <3>4 DEF Results
  <2>2. ASSUME NEW m \in Results(h) PROVE m \in Results(new)
    <3>1. PICK i \in 1..Len(h) : m = h[i]
          BY <1>1, <2>2 DEF Results, Range
    <3>2. m.role = "tool"
          BY <2>2 DEF Results
    <3>3. \E x \in 1..Len(new) : new[x] = m
      <4>1. CASE Kept(h, i)
            BY <1>10, <3>1, <4>1
      <4>2. CASE ~Kept(h, i)
        <5>1. m.of \in ParallelIds(h)
              BY <3>1, <3>2, <4>2 DEF Kept, Parallel
        <5>2. PICK j \in 1..Len(h) : Parallel(h[j]) /\ m.of \in Range(h[j].calls)
              BY <5>1, InParallelIds
        <5>3. \E k \in (j + 1)..Len(h) : IsResult(h[k], m.of)
              BY <3>1, <3>2, <5>2 DEF Wellformed, IsResult
        <5>4. SerializedOk(h, j, parts[j])
              BY <1>8, <5>2
        <5>5. PICK y \in 1..Len(parts[j]) : m.of \in Range(parts[j][y].calls)
              BY <5>2, <5>4 DEF SerializedOk
        <5>6. y + 1 \in 1..Len(parts[j]) /\ IsResult(parts[j][y + 1], m.of)
              BY <5>3, <5>4, <5>5 DEF SerializedOk
        <5>7. parts[j][y + 1] \in Range(h)
              BY <5>4, <5>6 DEF SerializedOk, IsResult
        <5>8. PICK k \in 1..Len(h) : parts[j][y + 1] = h[k]
              BY <1>1, <5>7 DEF Range
        <5>9. h[k] = h[i]
              BY <3>1, <3>2, <5>6, <5>8 DEF Wellformed, IsResult
        <5>10. \A z \in 1..Len(parts[j]) :
                   start[j] + z \in 1..Len(new) /\ new[start[j] + z] = parts[j][z]
              BY <1>8
        <5>11. PICK z : z = y + 1
              OBVIOUS
        <5> QED BY <3>1, <5>6, <5>8, <5>9, <5>10, <5>11
      <4> QED BY <4>1, <4>2
    <3> QED BY <1>6, <3>2, <3>3 DEF Results, Range
  <2> QED BY <2>1, <2>2
<1>15. ASSUME NEW x \in 1..Len(new), NEW id \in Range(new[x].calls),
              id \in ParallelIds(h), NEW m \in Results(h), m.of = id
       PROVE  x < Len(new) /\ new[x + 1].of = id
  <2>1. PICK i \in 1..Len(h) : \E y \in 1..Len(parts[i]) :
                 /\ x = start[i] + y /\ new[x] = parts[i][y]
                 /\ \/ Parallel(h[i]) /\ SerializedOk(h, i, parts[i])
                    \/ Kept(h, i) /\ y = 1 /\ new[x] = h[i]
        BY <1>9
  <2>2. PICK y \in 1..Len(parts[i]) :
                 /\ x = start[i] + y /\ new[x] = parts[i][y]
                 /\ \/ Parallel(h[i]) /\ SerializedOk(h, i, parts[i])
                    \/ Kept(h, i) /\ y = 1 /\ new[x] = h[i]
        BY <2>1
  <2>3. PICK j \in 1..Len(h) : Parallel(h[j]) /\ id \in Range(h[j].calls)
        BY <1>15, InParallelIds
  <2>4. Parallel(h[i]) /\ SerializedOk(h, i, parts[i])
    <3>1. CASE Kept(h, i) /\ y = 1 /\ new[x] = h[i]
      <4>1. h[i] = h[j]
            BY <1>15, <2>3, <3>1 DEF Wellformed
      <4> QED BY <2>3, <3>1, <4>1 DEF Kept
    <3> QED BY <2>2, <3>1
  <2>5. id \in Range(h[i].calls)
        BY <2>2, <2>4 DEF SerializedOk
  <2>6. PICK k \in 1..Len(h) : IsResult(h[k], id)
        BY <1>1, <1>15 DEF Results, Range, IsResult
  <2>7. \E k1 \in (i + 1)..Len(h) : IsResult(h[k1], id)
        BY <2>5, <2>6 DEF Wellformed
  <2>8. y + 1 \in 1..Len(parts[i]) /\ IsResult(parts[i][y + 1], id)
        BY <2>2, <2>4, <2>7 DEF SerializedOk
  <2>9. PICK z : z = y + 1
        OBVIOUS
  <2>10. start[i] + z \in 1..Len(new) /\ new[start[i] + z] = parts[i][z]
        BY <1>8, <2>8, <2>9
  <2>11. start[i] \in Nat /\ y \in Nat /\ x = start[i] + y
    <3>1. start[i] \in Nat /\ Len(parts[i]) \in Nat
          BY <1>8
    <3> QED BY <2>2, <3>1
  <2>12. start[i] + z = x + 1
    <3>1. PICK s : s = start[i]
          OBVIOUS
    <3>2. s \in Nat /\ x = s + y
          BY <2>11, <3>1, Zenon
    <3>3. s + z = x + 1
          BY <2>9, <2>11, <3>2
    <3> QED BY <3>1, <3>3, Zenon
  <2>13. x < Len(new)
        BY <1>6, <2>10, <2>12
  <2> QED BY <2>8, <2>9, <2>10, <2>12, <2>13 DEF IsResult
<1>16. ASSUME NEW x \in 1..Len(new), new[x].role = "tool"
       PROVE  \E w \in 1..(x - 1) : new[x].of \in Range(new[w].calls)
  <2>1. PICK i \in 1..Len(h) : \E y \in 1..Len(parts[i]) :
                 /\ x = start[i] + y /\ new[x] = parts[i][y]
                 /\ \/ Parallel(h[i]) /\ SerializedOk(h, i, parts[i])
                    \/ Kept(h, i) /\ y = 1 /\ new[x] = h[i]
        BY <1>9
  <2>2. PICK y \in 1..Len(parts[i]) :
                 /\ x = start[i] + y /\ new[x] = parts[i][y]
                 /\ \/ Parallel(h[i]) /\ SerializedOk(h, i, parts[i])
                    \/ Kept(h, i) /\ y = 1 /\ new[x] = h[i]
        BY <2>1
  <2>3. CASE Parallel(h[i]) /\ SerializedOk(h, i, parts[i])
    <3>1. PICK w \in 1..(y - 1) : parts[i][y].of \in Range(parts[i][w].calls)
          BY <1>16, <2>2, <2>3 DEF SerializedOk
    <3>2. w \in 1..Len(parts[i]) /\ start[i] + w \in 1..(x - 1)
          BY <1>8, <2>2
    <3>3. new[start[i] + w] = parts[i][w]
          BY <1>8, <3>2
    <3> QED BY <2>2, <3>1, <3>2, <3>3
  <2>4. CASE Kept(h, i) /\ y = 1 /\ new[x] = h[i]
    <3>1. PICK j \in 1..(i - 1) : h[i].of \in Range(h[j].calls)
          BY <1>16, <2>4 DEF Wellformed
    <3>2. j \in 1..Len(h) /\ j < i
          BY <1>1
    <3>3. Kept(h, j)
      <4>1. h[i].of \notin ParallelIds(h)
            BY <1>16, <2>4 DEF Kept
      <4>2. ~Parallel(h[j])
            BY <3>1, <3>2, <4>1, InParallelIds
      <4> QED BY <1>11, <3>1, <3>2, <4>2 DEF Kept
    <3>4. start[j] + 1 \in 1..Len(new) /\ new[start[j] + 1] = h[j]
          BY <1>10, <3>2, <3>3
    <3>5. start[j] + Len(parts[j]) <= start[i]
          BY <1>3, <1>7, <3>2 DEF Laid
    <3>6. start[j] + 1 \in 1..(x - 1)
      <4>1. Len(parts[j]) = 1
            BY <1>8, <3>2, <3>3
      <4>2. start[j] \in Nat /\ start[i] \in Nat
            BY <1>8, <3>2
      <4>3. x = start[i] + 1 /\ start[j] + 1 <= start[i]
            BY <2>2, <2>4, <3>5, <4>1
      <4> QED BY <4>2, <4>3
    <3> QED BY <2>4, <3>1, <3>4, <3>6
  <2> QED BY <2>2, <2>3, <2>4
<1> QED BY <1>6, <1>12, <1>13, <1>14, <1>15, <1>16 DEF Complete, new

-----------------------------------------------------------------------------
(* The stored turns make a well formed history                             *)

\* A call names the message it stands in, a result comes after its call, and
\* a call has one result at most.
CallsInOrder(c) ==
    /\ \A p \in 1..Len(c) :
          /\ c[p].role # "assistant" => c[p].calls = <<>>
          /\ \A id \in Range(c[p].calls) : id[1] = p
          /\ c[p].role = "tool" => \E q \in 1..(p - 1) : c[p].of \in Range(c[q].calls)
    /\ \A p, q \in 1..Len(c) :
          c[p].role = "tool" /\ c[q].role = "tool" /\ c[p].of = c[q].of => p = q

\* The first n messages of c stand in t in their order, and besides them only
\* the system prompt does.
StandIn(t, c, n, pos) ==
    /\ n \in 0..Len(c)
    /\ pos \in [1..n -> 1..Len(t)]
    /\ \A p, q \in 1..n : p < q => pos[p] < pos[q]
    /\ \A q \in 1..n : t[pos[q]] = c[q]
    /\ \A k \in 1..Len(t) : t[k] = SystemPrompt \/ \E q \in 1..n : k = pos[q]

Holds(t, c, n) == \E pos : StandIn(t, c, n, pos)

\* Every turn holds the beginning of the conversation, none a shorter one
\* than a turn before it.
TurnsHold(ts, c, size) ==
    /\ size \in Seq(Nat) /\ Len(size) = Len(ts)
    /\ \A i \in 1..Len(ts) : Holds(ts[i], c, size[i])
    /\ \A i, j \in 1..Len(ts) : i < j => size[i] <= size[j]

\* What normalize-tools needs of the conversation and its turns.
NInv == CallsInOrder(conv) /\ \E size : TurnsHold(turns, conv, size)

LEMMA TurnsWellformed ==
    ASSUME NEW c \in Seq(MessageType), CallsInOrder(c), NEW ts \in Seq(Seq(MessageType)),
           NEW size, TurnsHold(ts, c, size)
    PROVE  FlattenSeq(ts) \in Seq(MessageType) /\ Wellformed(FlattenSeq(ts))
<1> DEFINE h == FlattenSeq(ts)
<1>1. h \in Seq(MessageType)
      BY FlattenLaid
<1>2. PICK start \in [1..Len(ts) -> Nat] : Laid(ts, Len(ts), h, start)
      BY FlattenLaid
<1> HIDE DEF h
<1>3. SystemPrompt.calls = <<>> /\ SystemPrompt.role = "system"
      BY DEF SystemPrompt, Message
<1>4. Range(SystemPrompt.calls) = {}
      BY <1>3, OneInRange
\* Where a message of the history comes from.
<1> DEFINE Of(j, i, q, pos) ==
               /\ StandIn(ts[i], c, size[i], pos)
               /\ q \in 1..size[i] /\ j = start[i] + pos[q] /\ h[j] = c[q]
<1>5. ASSUME NEW i \in 1..Len(ts), NEW pos, StandIn(ts[i], c, size[i], pos),
             NEW q \in 1..size[i]
      PROVE  /\ start[i] + pos[q] \in 1..Len(h) /\ h[start[i] + pos[q]] = c[q]
             /\ q \in 1..Len(c) /\ pos[q] \in 1..Len(ts[i]) /\ pos[q] \in Nat
  <2>1. pos[q] \in 1..Len(ts[i]) /\ ts[i][pos[q]] = c[q]
        BY <1>5 DEF StandIn
  <2>2. q \in 1..Len(c)
        BY <1>5 DEF StandIn
  <2>3. PICK k \in 1..Len(ts[i]) : k = pos[q]
        BY <2>1
  <2>4. start[i] + k \in 1..Len(h) /\ h[start[i] + k] = ts[i][k]
        BY <1>2 DEF Laid
  <2> QED BY <2>1, <2>2, <2>3, <2>4
<1>6. ASSUME NEW j \in 1..Len(h), h[j] # SystemPrompt
      PROVE  \E i \in 1..Len(ts) : \E q, pos : Of(j, i, q, pos)
  <2>1. PICK i \in 1..Len(ts) : \E k \in 1..Len(ts[i]) : j = start[i] + k
        BY <1>2 DEF Laid
  <2>2. PICK k \in 1..Len(ts[i]) : j = start[i] + k
        BY <2>1
  <2>3. h[j] = ts[i][k]
        BY <1>2, <2>2 DEF Laid
  <2>4. PICK pos : StandIn(ts[i], c, size[i], pos)
        BY DEF TurnsHold, Holds
  <2>5. PICK q \in 1..size[i] : k = pos[q]
        BY <1>6, <2>3, <2>4 DEF StandIn
  <2>6. h[j] = c[q]
        BY <2>3, <2>4, <2>5 DEF StandIn
  <2> QED BY <2>2, <2>4, <2>5, <2>6
<1>7. OnlyAssistantsCall(h)
  <2> SUFFICES ASSUME NEW j \in 1..Len(h), h[j].role # "assistant"
               PROVE  h[j].calls = <<>>
      BY DEF OnlyAssistantsCall
  <2>1. CASE h[j] = SystemPrompt
        BY <1>3, <2>1
  <2>2. CASE h[j] # SystemPrompt
    <3>1. PICK i \in 1..Len(ts) : \E q, pos : Of(j, i, q, pos)
          BY <1>6, <2>2
    <3>2. PICK q, pos : Of(j, i, q, pos)
          BY <3>1
    <3>3. q \in 1..Len(c)
          BY <1>5, <3>2
    <3> QED BY <3>2, <3>3 DEF CallsInOrder
  <2> QED BY <2>1, <2>2
<1>8. ASSUME NEW j \in 1..Len(h), h[j].role = "tool"
      PROVE  \E k \in 1..(j - 1) : h[j].of \in Range(h[k].calls)
  <2>1. h[j] # SystemPrompt
        BY <1>3, <1>8
  <2>2. PICK i \in 1..Len(ts) : \E q, pos : Of(j, i, q, pos)
        BY <1>6, <2>1
  <2>3. PICK q, pos : Of(j, i, q, pos)
        BY <2>2
  <2>4. q \in 1..Len(c) /\ pos[q] \in Nat
        BY <1>5, <2>3
  <2>5. PICK p \in 1..(q - 1) : c[q].of \in Range(c[p].calls)
        BY <1>8, <2>3, <2>4 DEF CallsInOrder
  <2>6. p \in 1..size[i] /\ p < q
    <3>1. q \in 1..size[i] /\ size[i] \in 0..Len(c) /\ Len(c) \in Nat
          BY <2>3 DEF StandIn
    <3>2. PICK n \in Nat : n = size[i]
          BY <3>1
    <3>3. q \in 1..n
          BY <3>1, <3>2
    <3>4. p \in 1..n /\ p < q
          BY <3>3
    <3> QED BY <3>2, <3>4
  <2>7. /\ start[i] + pos[p] \in 1..Len(h) /\ h[start[i] + pos[p]] = c[p]
        /\ pos[p] \in Nat
        BY <1>5, <2>3, <2>6
  <2>8. pos[p] < pos[q]
        BY <2>3, <2>6 DEF StandIn
  <2>9. PICK k : k = start[i] + pos[p]
        OBVIOUS
  <2>10. k \in 1..(j - 1)
    <3>1. PICK a \in Nat : a = start[i]
          OBVIOUS
    <3>2. PICK x \in Nat : x = pos[p]
          BY <2>7
    <3>3. PICK y \in Nat : y = pos[q]
          BY <2>4
    <3>4. k = a + x /\ j = a + y /\ x < y /\ k \in 1..Len(h)
          BY <2>3, <2>7, <2>8, <2>9, <3>1, <3>2, <3>3
    <3> QED BY <3>4
  <2> QED BY <2>3, <2>5, <2>7, <2>9, <2>10
<1>9. ASSUME NEW j \in 1..Len(h), NEW k \in 1..Len(h), NEW id,
             id \in Range(h[j].calls), id \in Range(h[k].calls)
      PROVE  h[j] = h[k]
  <2>1. h[j] # SystemPrompt /\ h[k] # SystemPrompt
        BY <1>4, <1>9
  <2>2. PICK i \in 1..Len(ts) : \E q, pos : Of(j, i, q, pos)
        BY <1>6, <2>1
  <2>3. PICK q, pos : Of(j, i, q, pos)
        BY <2>2
  <2>4. PICK u \in 1..Len(ts) : \E p, pos1 : Of(k, u, p, pos1)
        BY <1>6, <2>1
  <2>5. PICK p, pos1 : Of(k, u, p, pos1)
        BY <2>4
  <2>6. q \in 1..Len(c) /\ p \in 1..Len(c)
        BY <1>5, <2>3, <2>5
  <2>7. id[1] = q /\ id[1] = p
        BY <1>9, <2>3, <2>5, <2>6 DEF CallsInOrder
  <2> QED BY <2>3, <2>5, <2>7
<1>10. ASSUME NEW j \in 1..Len(h), NEW k \in 1..Len(h),
              h[j].role = "tool", h[k].role = "tool", h[j].of = h[k].of
       PROVE  h[j] = h[k]
  <2>1. h[j] # SystemPrompt /\ h[k] # SystemPrompt
        BY <1>3, <1>10
  <2>2. PICK i \in 1..Len(ts) : \E q, pos : Of(j, i, q, pos)
        BY <1>6, <2>1
  <2>3. PICK q, pos : Of(j, i, q, pos)
        BY <2>2
  <2>4. PICK u \in 1..Len(ts) : \E p, pos1 : Of(k, u, p, pos1)
        BY <1>6, <2>1
  <2>5. PICK p, pos1 : Of(k, u, p, pos1)
        BY <2>4
  <2>6. q \in 1..Len(c) /\ p \in 1..Len(c)
        BY <1>5, <2>3, <2>5
  <2>7. p = q
    <3>1. c[q].role = "tool" /\ c[p].role = "tool" /\ c[q].of = c[p].of
          BY <1>10, <2>3, <2>5
    <3> QED BY <2>6, <3>1 DEF CallsInOrder
  <2> QED BY <2>3, <2>5, <2>7
<1>11. ASSUME NEW j \in 1..Len(h), NEW id \in Range(h[j].calls),
              NEW r \in 1..Len(h), IsResult(h[r], id)
       PROVE  \E k \in (j + 1)..Len(h) : IsResult(h[k], id)
  <2>1. h[j] # SystemPrompt /\ h[r] # SystemPrompt
        BY <1>3, <1>4, <1>11 DEF IsResult
  <2>2. PICK i \in 1..Len(ts) : \E q, pos : Of(j, i, q, pos)
        BY <1>6, <2>1
  <2>3. PICK q, pos : Of(j, i, q, pos)
        BY <2>2
  <2>4. PICK u \in 1..Len(ts) : \E s, pos1 : Of(r, u, s, pos1)
        BY <1>6, <2>1
  <2>5. PICK s, pos1 : Of(r, u, s, pos1)
        BY <2>4
  <2>6. /\ q \in 1..Len(c) /\ s \in 1..Len(c)
        /\ pos[q] \in 1..Len(ts[i]) /\ pos[q] \in Nat
        /\ pos1[s] \in 1..Len(ts[u]) /\ pos1[s] \in Nat
        BY <1>5, <2>3, <2>5
  <2>7. c[s].role = "tool" /\ c[s].of = id /\ id \in Range(c[q].calls)
        BY <1>11, <2>3, <2>5 DEF IsResult
  <2>8. q < s
    <3>1. PICK p \in 1..(s - 1) : id \in Range(c[p].calls)
          BY <2>6, <2>7 DEF CallsInOrder
    <3>2. p \in 1..Len(c)
          BY <2>6
    <3>3. id[1] = p /\ id[1] = q
          BY <2>6, <2>7, <3>1, <3>2 DEF CallsInOrder
    <3> QED BY <2>6, <3>1, <3>3
  <2>9. size[i] \in Nat /\ size[u] \in Nat /\ start[i] \in Nat /\ start[u] \in Nat
           /\ Len(ts[i]) \in Nat
    <3>1. ts[i] \in Seq(MessageType) /\ size \in Seq(Nat) /\ Len(size) = Len(ts)
          BY DEF TurnsHold
    <3>2. Len(ts[i]) \in Nat
          BY <3>1
    <3>3. \A f \in Seq(Nat) : \A n : Len(f) = n => \A k \in 1..n : f[k] \in Nat
          OBVIOUS
    <3>4. size[i] \in Nat /\ size[u] \in Nat
          BY <3>1, <3>3
    <3> QED BY <3>2, <3>4
  <2>10. CASE i < u
    <3>1. start[i] + Len(ts[i]) <= start[u]
          BY <1>2, <2>10 DEF Laid
    <3>2. j < r
      <4>1. PICK a \in Nat : a = start[i]
            BY <2>9
      <4>2. PICK b \in Nat : b = start[u]
            BY <2>9
      <4>3. PICK x \in Nat : x = pos[q]
            BY <2>6
      <4>4. PICK y \in Nat : y = pos1[s]
            BY <2>6
      <4>5. PICK l \in Nat : l = Len(ts[i])
            BY <2>9
      <4>6. j = a + x /\ r = b + y /\ x <= l /\ y >= 1 /\ a + l <= b
            BY <2>3, <2>5, <2>6, <3>1, <4>1, <4>2, <4>3, <4>4, <4>5
      <4> QED BY <4>6
    <3>3. r \in (j + 1)..Len(h)
          BY <3>2
    <3> QED BY <1>11, <3>3
  <2>11. CASE ~(i < u)
    <3>1. size[u] <= size[i]
      <4>1. u < i \/ u = i
            BY <2>11
      <4> QED BY <2>9, <4>1 DEF TurnsHold
    <3>2. s \in 1..size[i]
          BY <2>5, <2>9, <3>1
    <3>3. /\ start[i] + pos[s] \in 1..Len(h) /\ h[start[i] + pos[s]] = c[s]
          /\ pos[s] \in Nat
          BY <1>5, <2>3, <3>2
    <3>4. pos[q] < pos[s]
          BY <2>3, <2>8, <3>2 DEF StandIn
    <3>5. PICK k : k = start[i] + pos[s]
          OBVIOUS
    <3>6. k \in (j + 1)..Len(h)
      <4>1. PICK a \in Nat : a = start[i]
            BY <2>9
      <4>2. PICK x \in Nat : x = pos[q]
            BY <2>6
      <4>3. PICK y \in Nat : y = pos[s]
            BY <3>3
      <4>4. j = a + x /\ k = a + y /\ x < y /\ k \in 1..Len(h)
            BY <2>3, <3>3, <3>4, <3>5, <4>1, <4>2, <4>3
      <4> QED BY <4>4
    <3>7. IsResult(h[k], id)
          BY <2>7, <3>3, <3>5 DEF IsResult
    <3> QED BY <3>6, <3>7
  <2> QED BY <2>10, <2>11
<1>12. Wellformed(h)
  <2>1. \A i \in 1..Len(h) : h[i].role = "tool" =>
            \E j \in 1..(i - 1) : h[i].of \in Range(h[j].calls)
        BY <1>8
  <2>2. \A i, j \in 1..Len(h) : \A id :
            id \in Range(h[i].calls) /\ id \in Range(h[j].calls) => h[i] = h[j]
        BY <1>9
  <2>3. \A i, j \in 1..Len(h) :
            h[i].role = "tool" /\ h[j].role = "tool" /\ h[i].of = h[j].of => h[i] = h[j]
        BY <1>10
  <2>4. \A i \in 1..Len(h) : \A id \in Range(h[i].calls) :
            (\E j \in 1..Len(h) : IsResult(h[j], id))
               => \E j \in (i + 1)..Len(h) : IsResult(h[j], id)
        BY <1>11
  <2> QED BY <1>7, <2>1, <2>2, <2>3, <2>4 DEF Wellformed
<1> QED BY <1>1, <1>12 DEF h

\* One message more in the conversation.
LEMMA CallsGrow ==
    ASSUME NEW c \in Seq(MessageType), CallsInOrder(c), NEW e \in MessageType,
           e.role # "assistant" => e.calls = <<>>,
           \A id \in Range(e.calls) : id[1] = Len(c) + 1,
           e.role = "tool" => /\ \E q \in 1..Len(c) : e.of \in Range(c[q].calls)
                              /\ \A q \in 1..Len(c) : ~IsResult(c[q], e.of)
    PROVE  CallsInOrder(Append(c, e))
<1> DEFINE d == Append(c, e)
           L == Len(c)
<1>1. L \in Nat /\ d \in Seq(MessageType) /\ Len(d) = L + 1
         /\ (\A k \in 1..L : d[k] = c[k]) /\ d[L + 1] = e
      BY Grown
<1> HIDE DEF d, L
<1>2. \A p \in 1..Len(d) : p \in 1..L \/ p = L + 1
      BY <1>1
<1>3. ASSUME NEW p \in 1..Len(d)
      PROVE  /\ d[p].role # "assistant" => d[p].calls = <<>>
             /\ \A id \in Range(d[p].calls) : id[1] = p
             /\ d[p].role = "tool" => \E q \in 1..(p - 1) : d[p].of \in Range(d[q].calls)
  <2>1. CASE p \in 1..L
    <3>1. d[p] = c[p]
          BY <1>1, <2>1
    <3>2. ASSUME d[p].role = "tool"
          PROVE  \E q \in 1..(p - 1) : d[p].of \in Range(d[q].calls)
      <4>1. PICK q \in 1..(p - 1) : c[p].of \in Range(c[q].calls)
            BY <2>1, <3>1, <3>2 DEF CallsInOrder, L
      <4>2. q \in 1..L
            BY <1>1, <2>1
      <4>3. d[q] = c[q]
            BY <1>1, <4>2
      <4> QED BY <3>1, <4>1, <4>3
    <3>3. /\ c[p].role # "assistant" => c[p].calls = <<>>
          /\ \A id \in Range(c[p].calls) : id[1] = p
          BY <2>1 DEF CallsInOrder, L
    <3> QED BY <3>1, <3>2, <3>3
  <2>2. CASE p = L + 1
    <3>1. d[p] = e
          BY <1>1, <2>2
    <3>2. ASSUME e.role = "tool"
          PROVE  \E q \in 1..(p - 1) : e.of \in Range(d[q].calls)
      <4>1. PICK q \in 1..L : e.of \in Range(c[q].calls)
            BY <3>2 DEF L
      <4>2. d[q] = c[q] /\ q \in 1..(p - 1)
            BY <1>1, <2>2, <4>1
      <4> QED BY <4>1, <4>2
    <3>3. \A id \in Range(e.calls) : id[1] = p
          BY <2>2 DEF L
    <3> QED BY <3>1, <3>2, <3>3
  <2> QED BY <1>2, <2>1, <2>2
<1>4. ASSUME NEW p \in 1..Len(d), NEW q \in 1..Len(d),
             d[p].role = "tool", d[q].role = "tool", d[p].of = d[q].of
      PROVE  p = q
  <2>1. CASE p \in 1..L /\ q \in 1..L
    <3>1. d[p] = c[p] /\ d[q] = c[q]
          BY <1>1, <2>1
    <3> QED BY <1>4, <2>1, <3>1 DEF CallsInOrder, L
  <2>2. CASE p \in 1..L /\ q = L + 1
    <3>1. d[p] = c[p] /\ d[q] = e
          BY <1>1, <2>2
    <3> QED BY <1>4, <2>2, <3>1 DEF IsResult, L
  <2>3. CASE p = L + 1 /\ q \in 1..L
    <3>1. d[q] = c[q] /\ d[p] = e
          BY <1>1, <2>3
    <3>2. e.role = "tool" /\ IsResult(c[q], e.of)
          BY <1>4, <3>1 DEF IsResult
    <3> QED BY <2>3, <3>2 DEF L
  <2> QED BY <1>2, <2>1, <2>2, <2>3
<1> QED BY <1>3, <1>4 DEF CallsInOrder, d

LEMMA HoldsGrow ==
    ASSUME NEW c \in Seq(MessageType), NEW e \in MessageType, NEW t, NEW n, Holds(t, c, n)
    PROVE  Holds(t, Append(c, e), n)
<1> DEFINE d == Append(c, e)
<1>1. Len(c) \in Nat /\ Len(d) = Len(c) + 1 /\ \A k \in 1..Len(c) : d[k] = c[k]
      BY Grown
<1> HIDE DEF d
<1>2. PICK pos : StandIn(t, c, n, pos)
      BY DEF Holds
<1>3. n \in 0..Len(c) /\ n \in 0..Len(d) /\ \A q \in 1..n : q \in 1..Len(c)
      BY <1>1, <1>2 DEF StandIn
<1>4. \A q \in 1..n : t[pos[q]] = d[q]
      BY <1>1, <1>2, <1>3 DEF StandIn
<1>5. StandIn(t, d, n, pos)
      BY <1>2, <1>3, <1>4 DEF StandIn
<1> QED BY <1>5 DEF Holds, d

LEMMA RequestHolds ==
    ASSUME NEW c \in Seq(MessageType), NEW t, NEW place, IsRequest(t, c, place)
    PROVE  Holds(t, c, Len(c))
<1> DEFINE L == Len(c)
           pos == [q \in 1..L |-> IF place = 0 \/ q < place THEN q ELSE q + 1]
<1>1. /\ L \in Nat /\ Len(t) \in Nat /\ place \in 0..(L + 1)
      /\ Len(t) = IF place = 0 THEN L ELSE L + 1
      /\ \A k \in 1..Len(t) :
            t[k] = IF place = 0 \/ k < place THEN c[k]
                   ELSE IF k = place THEN SystemPrompt ELSE c[k - 1]
      BY DEF IsRequest
<1> HIDE DEF L
<1>2. pos \in [1..L -> 1..Len(t)]
      BY <1>1
<1>3. \A p, q \in 1..L : p < q => pos[p] < pos[q]
      BY <1>1
<1>4. ASSUME NEW q \in 1..L PROVE t[pos[q]] = c[q]
  <2>1. CASE place = 0 \/ q < place
    <3>1. pos[q] = q /\ q \in 1..Len(t)
          BY <1>1, <2>1
    <3> QED BY <1>1, <2>1, <3>1
  <2>2. CASE ~(place = 0 \/ q < place)
    <3>1. PICK k : k = q + 1
          OBVIOUS
    <3>2. pos[q] = k
          BY <2>2, <3>1
    <3>3. k \in 1..Len(t) /\ ~(place = 0 \/ k < place) /\ k # place /\ k - 1 = q
          BY <1>1, <2>2, <3>1
    <3>4. t[k] = c[k - 1]
          BY <1>1, <3>3
    <3> QED BY <3>2, <3>3, <3>4
  <2> QED BY <2>1, <2>2
<1>5. ASSUME NEW k \in 1..Len(t)
      PROVE  t[k] = SystemPrompt \/ \E q \in 1..L : k = pos[q]
  <2>1. CASE place = 0 \/ k < place
    <3>1. k \in 1..L
          BY <1>1, <2>1
    <3>2. pos[k] = k
          BY <2>1, <3>1
    <3> QED BY <3>1, <3>2
  <2>2. CASE k = place /\ place # 0
        BY <1>1, <2>2
  <2>3. CASE k > place /\ place # 0
    <3>1. PICK q : q = k - 1
          OBVIOUS
    <3>2. q \in 1..L /\ ~(q < place) /\ q + 1 = k
          BY <1>1, <2>3, <3>1
    <3>3. pos[q] = k
          BY <2>3, <3>2
    <3> QED BY <3>2, <3>3
  <2> QED BY <1>1, <2>1, <2>2, <2>3
<1> HIDE DEF pos
<1>6. L \in 0..Len(c)
      BY <1>1 DEF L
<1>7. StandIn(t, c, L, pos)
      BY <1>2, <1>3, <1>4, <1>5, <1>6, Zenon DEF StandIn
<1> QED BY <1>7 DEF Holds, L

LEMMA TurnsGrow ==
    ASSUME NEW c \in Seq(MessageType), NEW e \in MessageType,
           NEW ts \in Seq(Seq(MessageType)), NEW size, TurnsHold(ts, c, size)
    PROVE  /\ TurnsHold(ts, Append(c, e), size)
           /\ \A t \in Seq(MessageType) : Holds(t, c, Len(c)) =>
                 TurnsHold(Append(ts, t), Append(c, e), Append(size, Len(c)))
<1>1. TurnsHold(ts, Append(c, e), size)
      BY HoldsGrow DEF TurnsHold
<1>2. ASSUME NEW t \in Seq(MessageType), Holds(t, c, Len(c))
      PROVE  TurnsHold(Append(ts, t), Append(c, e), Append(size, Len(c)))
  <2> DEFINE L == Len(ts)
             more == Append(ts, t)
             sizes == Append(size, Len(c))
             d == Append(c, e)
  <2>1. size \in Seq(Nat) /\ Len(size) = L /\ L \in Nat /\ Len(c) \in Nat
        BY DEF TurnsHold
  <2>2. /\ more \in Seq(Seq(MessageType)) /\ Len(more) = L + 1
        /\ \A i \in 1..L : more[i] = ts[i]
        /\ more[L + 1] = t
        BY <1>2, Grown
  <2>3. /\ sizes \in Seq(Nat) /\ Len(sizes) = L + 1
        /\ \A i \in 1..L : sizes[i] = size[i]
        /\ sizes[L + 1] = Len(c)
        BY <2>1, Grown
  <2>4. \A i \in 1..L : Holds(ts[i], c, size[i]) /\ Holds(ts[i], d, size[i])
        BY <1>1 DEF TurnsHold
  <2>5. Holds(t, d, Len(c))
        BY <1>2, HoldsGrow
  <2>6. \A i \in 1..L : size[i] <= Len(c)
    <3> TAKE i \in 1..L
    <3>1. size[i] \in 0..Len(c)
          BY <2>4 DEF Holds, StandIn
    <3> QED BY <2>1, <3>1
  <2>7. \A i, j \in 1..L : i < j => size[i] <= size[j]
        BY DEF TurnsHold
  <2> HIDE DEF more, sizes, d, L
  <2>8. \A i \in 1..(L + 1) : i \in 1..L \/ i = L + 1
        BY <2>1
  <2>9. \A i \in 1..(L + 1) : Holds(more[i], d, sizes[i])
        BY <2>2, <2>3, <2>4, <2>5, <2>8
  <2>10. ASSUME NEW i \in 1..(L + 1), NEW j \in 1..(L + 1), i < j
         PROVE  sizes[i] <= sizes[j]
    <3>1. i \in 1..L
          BY <2>1, <2>10
    <3>2. CASE j = L + 1
          BY <2>3, <2>6, <3>1, <3>2
    <3>3. CASE j \in 1..L
          BY <2>3, <2>7, <2>10, <3>1, <3>3
    <3> QED BY <2>8, <3>2, <3>3
  <2>11. TurnsHold(more, d, sizes)
         BY <2>2, <2>3, <2>9, <2>10 DEF TurnsHold
  <2> QED BY <2>11 DEF more, d, sizes
<1> QED BY <1>1, <1>2

-----------------------------------------------------------------------------

LEMMA NInvInit == Init => NInv
<1> SUFFICES ASSUME Init PROVE NInv
    OBVIOUS
<1>1. conv = <<>> /\ turns = <<>>
      BY DEF Init
<1>2. CallsInOrder(<<>>)
      BY DEF CallsInOrder
<1>3. TurnsHold(<<>>, <<>>, <<>>)
      BY DEF TurnsHold
<1> QED BY <1>1, <1>2, <1>3 DEF NInv

\* What is appended to the conversation, and to the turns.
LEMMA NInvGrows ==
    ASSUME IInv, NInv, NEW e \in MessageType, conv' = Append(conv, e),
           e.role # "assistant" => e.calls = <<>>,
           \A id \in Range(e.calls) : id[1] = Len(conv) + 1,
           e.role = "tool" => /\ \E q \in 1..Len(conv) : e.of \in Range(conv[q].calls)
                              /\ \A q \in 1..Len(conv) : ~IsResult(conv[q], e.of),
           \/ turns' = turns
           \/ \E place : \E t \in Seq(MessageType) :
                 IsRequest(t, conv, place) /\ turns' = Append(turns, t)
    PROVE  NInv'
<1>1. conv \in Seq(MessageType) /\ turns \in Seq(Seq(MessageType))
      BY DEF IInv, TypeOK
<1>2. CallsInOrder(Append(conv, e))
      BY <1>1, CallsGrow DEF NInv
<1>3. PICK size : TurnsHold(turns, conv, size)
      BY DEF NInv
<1>4. PICK c : c = Append(conv, e)
      OBVIOUS
<1>5. \E sizes : \E ts : ts = turns' /\ TurnsHold(ts, c, sizes)
  <2>1. CASE turns' = turns
    <3>1. TurnsHold(turns, c, size)
          BY <1>1, <1>3, <1>4, TurnsGrow
    <3> QED BY <2>1, <3>1
  <2>2. ASSUME NEW place, NEW t \in Seq(MessageType), IsRequest(t, conv, place),
               turns' = Append(turns, t)
        PROVE  \E sizes : \E ts : ts = turns' /\ TurnsHold(ts, c, sizes)
    <3>1. Holds(t, conv, Len(conv))
          BY <1>1, <2>2, RequestHolds
    <3>2. TurnsHold(Append(turns, t), c, Append(size, Len(conv)))
          BY <1>1, <1>3, <1>4, <3>1, TurnsGrow
    <3> QED BY <2>2, <3>2
  <2> QED BY <2>1, <2>2
<1>6. conv' = c /\ CallsInOrder(c)
      BY <1>2, <1>4
<1>7. PICK sizes, ts : ts = turns' /\ TurnsHold(ts, c, sizes)
      BY <1>5
<1>8. CallsInOrder(conv')
      BY <1>6
<1>9. TurnsHold(turns', conv', sizes)
      BY <1>6, <1>7
<1> QED BY <1>8, <1>9 DEF NInv

LEMMA SayKeepsN ==
    ASSUME IInv, NInv, Say
    PROVE  NInv'
<1> DEFINE e == Message("user", "message", Len(conv) + 1)
<1>1. Len(conv) + 1 \in 0..MaxMessages
      BY MessageHistoryAssumption DEF Say, IInv, TypeOK
<1>2. <<>> \in Seq((1..MaxMessages) \X (1..MaxCalls))
      OBVIOUS
<1>3. e \in MessageType /\ e.role = "user" /\ e.calls = <<>>
      BY <1>1, <1>2 DEF Message, MessageType, NoCall, Roles
<1>4. conv' = Append(conv, e) /\ turns' = turns
      BY DEF Say
<1> HIDE DEF e
<1>5. Range(e.calls) = {}
      BY <1>3, OneInRange
<1> QED BY <1>3, <1>4, <1>5, NInvGrows

LEMMA ReturnResultKeepsN ==
    ASSUME IInv, NInv, NEW id \in CallsOf(conv), ReturnResult(id)
    PROVE  NInv'
<1> DEFINE m == Message("tool", "message", Len(conv) + 1)
           e == [m EXCEPT !.of = id]
<1>1. Len(conv) + 1 \in 0..MaxMessages /\ conv \in Seq(MessageType)
         /\ DOMAIN conv = 1..Len(conv)
      BY MessageHistoryAssumption DEF ReturnResult, IInv, TypeOK
<1>2. <<>> \in Seq((1..MaxMessages) \X (1..MaxCalls))
      OBVIOUS
<1>3. m \in MessageType /\ m.role = "tool" /\ m.calls = <<>>
      BY <1>1, <1>2 DEF Message, MessageType, NoCall, Roles
<1> HIDE DEF m
<1>4. PICK q \in 1..Len(conv) : id \in Range(conv[q].calls)
      BY <1>1 DEF CallsOf
<1>5. id \in (1..MaxMessages) \X (1..MaxCalls)
  <2>1. conv[q].calls \in Seq((1..MaxMessages) \X (1..MaxCalls))
    <3>1. conv[q] \in MessageType
          BY <1>1
    <3> QED BY <3>1 DEF MessageType
  <2>2. PICK k \in DOMAIN conv[q].calls : id = conv[q].calls[k]
        BY <1>4 DEF Range
  <2> QED BY <2>1, <2>2
<1>6. e \in MessageType /\ e.role = "tool" /\ e.calls = <<>> /\ e.of = id
      BY <1>3, <1>5 DEF MessageType
<1>7. conv' = Append(conv, e) /\ turns' = turns
      BY DEF ReturnResult, m
<1>8. \A p \in 1..Len(conv) : ~IsResult(conv[p], id)
  <2>1. \A r \in Results(conv) : r.of # id
        BY DEF ReturnResult
  <2>2. \A p \in 1..Len(conv) : conv[p].role = "tool" => conv[p] \in Results(conv)
        BY <1>1 DEF Results, Range
  <2> QED BY <2>1, <2>2 DEF IsResult
<1> HIDE DEF e
<1>9. Range(e.calls) = {}
      BY <1>6, OneInRange
<1> QED BY <1>4, <1>6, <1>7, <1>8, <1>9, NInvGrows

LEMMA ExchangeKeepsN ==
    ASSUME IInv, NInv, NEW place \in Places, NEW model \in Models, NEW next \in Models,
           NEW n \in 0..MaxCalls, Exchange(place, model, next, n)
    PROVE  NInv'
<1> DEFINE request == IF place = 0 THEN conv ELSE InsertAt(conv, place, SystemPrompt)
           position == Len(conv) + 1
           m == Message("assistant", "message", position)
           answer == [m EXCEPT !.calls = Calls(n, position)]
<1>1. /\ conv \in Seq(MessageType) /\ conv # <<>> /\ Last(conv).role # "assistant"
      /\ Len(conv) \in Nat /\ Len(conv) + 1 <= MaxMessages
      BY DEF IInv, TypeOK, Exchange
<1>2. conv' = Append(conv, answer) /\ turns' = Append(turns, request)
      BY DEF Exchange, Stored
<1>3. position \in 1..MaxMessages
      BY <1>1, MessageHistoryAssumption
<1>4. answer \in MessageType /\ answer.role = "assistant"
      BY <1>3, MessagesOfExchange
<1>5. answer.calls = Calls(n, position)
  <2>1. m \in MessageType
    <3>1. <<>> \in Seq((1..MaxMessages) \X (1..MaxCalls))
          OBVIOUS
    <3>2. position \in 0..MaxMessages
          BY <1>3
    <3> HIDE DEF position
    <3> QED BY <3>1, <3>2 DEF Message, MessageType, NoCall, Roles
  <2> HIDE DEF m
  <2> QED BY <2>1 DEF MessageType
<1>6. \A id \in Range(Calls(n, position)) : id[1] = position
      BY DEF Calls, Range
<1> HIDE DEF answer
<1>7. place \in 0..(Len(conv) + 1)
      BY <1>1 DEF Places
<1>8. PICK t : t = request
      OBVIOUS
<1>9. IsRequest(t, conv, place)
      BY <1>1, <1>7, <1>8, RequestOfClient
<1>10. t \in Seq(MessageType)
       BY <1>9 DEF IsRequest
<1> HIDE DEF request
<1>11. \A id \in Range(answer.calls) : id[1] = Len(conv) + 1
       BY <1>5, <1>6
<1> QED BY <1>2, <1>4, <1>8, <1>9, <1>10, <1>11, NInvGrows

LEMMA NInvStep == IInv /\ NInv /\ [Next]_vars => NInv'
<1> SUFFICES ASSUME IInv, NInv, [Next]_vars PROVE NInv'
    OBVIOUS
<1>1. ASSUME NEW place \in Places, NEW model \in Models, NEW next \in Models,
             NEW n \in 0..MaxCalls, Exchange(place, model, next, n)
      PROVE  NInv'
      BY <1>1, ExchangeKeepsN
<1>2. CASE Say
      BY <1>2, SayKeepsN
<1>3. ASSUME NEW id \in CallsOf(conv), ReturnResult(id) PROVE NInv'
      BY <1>3, ReturnResultKeepsN
<1>4. CASE UNCHANGED vars
      BY <1>4 DEF vars, NInv
<1> QED BY <1>1, <1>2, <1>3, <1>4 DEF Next

\* The history that normalize-tools writes has no message of several calls,
\* loses and invents no call and no result, and every serialized call that has
\* a result is followed by it at once, no result coming before its call.
THEOREM NormalizedIsComplete == Spec => []NormalizedHistoryComplete
<1>1. ASSUME IInv, NInv PROVE NormalizedHistoryComplete
  <2>1. conv \in Seq(MessageType) /\ turns \in Seq(Seq(MessageType))
        BY <1>1 DEF IInv, TypeOK
  <2>2. PICK size : CallsInOrder(conv) /\ TurnsHold(turns, conv, size)
        BY <1>1 DEF NInv
  <2>3. AllMessages \in Seq(MessageType) /\ Wellformed(AllMessages)
        BY <2>1, <2>2, TurnsWellformed DEF AllMessages
  <2>4. Complete(AllMessages, Normalized(AllMessages))
        BY <2>3, NormalizedComplete
  <2> QED BY <2>4 DEF Complete, NormalizedHistoryComplete
<1> QED BY <1>1, IInvInit, IInvStep, NInvInit, NInvStep, PTL DEF Spec

=============================================================================
