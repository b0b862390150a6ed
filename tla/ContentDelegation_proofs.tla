----------------------- MODULE ContentDelegation_proofs -----------------------
(***************************************************************************)
(* Proofs, for any requests, images, files and outcomes, that no part of a *)
(* message vanishes, and that what stands for an image was made from it.   *)
(* The first looks at the number of texts alone, which Padded sets right   *)
(* whatever the calls return.  The second looks at what each call returns, *)
(* at how the images are divided among the calls, and at how their texts   *)
(* are joined again.                                                       *)
(***************************************************************************)
EXTENDS ContentDelegation, WellFoundedInduction, TLAPS

\* The places between a Begin and the verdict.
Composing == {"lookup", "saving", "files", "ready"}

\* The locals of a request are those of Arrived.
Shape == req = [r \in Requests |-> req[r]]
            /\ \A r \in Requests : DOMAIN req[r] = {"at", "due", "pieces", "files"}

\* One text for each image, and one step for each file.
PartsInPlace(r) ==
    /\ DOMAIN req[r].pieces = DOMAIN ImagesOf[r]
    /\ DOMAIN req[r].files = DOMAIN FilesOf[r]

\* A file that is done with, or about to be stored, has its text.
HasText(file) ==
    /\ file.step \in {"saving", "done"} => file.text # "none"
    /\ file.step = "saving" => file.text \in Texts

TextsInPlace(r) == \A i \in DOMAIN FilesOf[r] : HasText(req[r].files[i])

ReadyIsDone(r) ==
    At(r, "ready") => \A i \in DOMAIN FilesOf[r] : req[r].files[i].step = "done"

RequestInv(r) ==
    req[r].at \in Composing => PartsInPlace(r) /\ TextsInPlace(r) /\ ReadyIsDone(r)

CacheInv == extracted \in [Files -> Texts \union {"missing"}]

IInv == Shape /\ CacheInv /\ \A r \in Requests : RequestInv(r)

-----------------------------------------------------------------------------
(* Steps that change the locals of one request                             *)

\* A step of r leaves the others alone, so only r has to be looked at.
LEMMA OneRequest ==
    ASSUME IInv, NEW r \in Requests, NEW v,
           req' = [req EXCEPT ![r] = v],
           DOMAIN v = {"at", "due", "pieces", "files"},
           CacheInv', RequestInv(r)'
    PROVE  IInv'
<1>1. \A q \in Requests : req'[q] = IF q = r THEN v ELSE req[q]
      BY DEF IInv, Shape
<1>2. Shape'
      BY <1>1 DEF IInv, Shape
<1>3. ASSUME NEW q \in Requests, q # r PROVE RequestInv(q)'
  <2>1. req'[q] = req[q]
        BY <1>1, <1>3
  <2> QED BY <2>1 DEF IInv, RequestInv, PartsInPlace, TextsInPlace, ReadyIsDone, At
<1> QED BY <1>2, <1>3 DEF IInv

\* The same when the request leaves its media behind.
LEMMA RequestEnds ==
    ASSUME IInv, NEW r \in Requests, NEW outcome \in Over, End(r, outcome), CacheInv'
    PROVE  IInv'
<1> DEFINE v == [Arrived EXCEPT !.at = outcome,
                     !.files = IF outcome = "answered" THEN req[r].files ELSE <<>>]
<1>1. DOMAIN v = {"at", "due", "pieces", "files"} /\ v.at = outcome
      BY DEF Arrived
<1>2. req' = [req EXCEPT ![r] = v]
      BY DEF End
<1> HIDE DEF v
<1>3. req'[r] = v
      BY <1>2 DEF IInv, Shape
<1>4. RequestInv(r)'
      BY <1>1, <1>3 DEF RequestInv, Over, Composing
<1> QED BY <1>1, <1>2, <1>4, OneRequest

\* The same when only place, positions and images change.
LEMMA ImagesMove ==
    ASSUME IInv, NEW r \in Requests, NEW v,
           req[r].at \in Composing, v.at \in Composing \ {"ready"},
           req' = [req EXCEPT ![r] = v],
           DOMAIN v = {"at", "due", "pieces", "files"},
           v.files = req[r].files,
           DOMAIN v.pieces = DOMAIN ImagesOf[r], CacheInv'
    PROVE  IInv'
<1>1. req'[r] = v
      BY DEF IInv, Shape
<1>2. RequestInv(r)'
      BY <1>1 DEF IInv, RequestInv, PartsInPlace, TextsInPlace, ReadyIsDone, At
<1> QED BY <1>2, OneRequest

\* And when one file makes a step.
LEMMA FileMoves ==
    ASSUME IInv, NEW r \in Requests, NEW i \in DOMAIN FilesOf[r],
           NEW step, NEW text, At(r, "files"), Put(r, i, step, text),
           step \in {"saving", "done"} => text # "none",
           step = "saving" => text \in Texts, CacheInv'
    PROVE  IInv'
<1> DEFINE files == [req[r].files EXCEPT ![i] = Step(step, text)]
           v == [req[r] EXCEPT !.files = files]
<1>1. DOMAIN v = {"at", "due", "pieces", "files"}
      BY DEF IInv, Shape
<1>2. v.at = "files" /\ v.pieces = req[r].pieces /\ v.files = files
      BY DEF IInv, Shape, At
<1>3. req' = [req EXCEPT ![r] = v]
      BY DEF Put
<1>4. DOMAIN files = DOMAIN req[r].files
         /\ \A j \in DOMAIN req[r].files :
                files[j] = IF j = i THEN Step(step, text) ELSE req[r].files[j]
      OBVIOUS
<1> HIDE DEF v, files
<1>5. req'[r] = v
      BY <1>3 DEF IInv, Shape
<1>6. HasText(Step(step, text))
      BY DEF HasText, Step
<1>7. PartsInPlace(r) /\ TextsInPlace(r)
      BY DEF IInv, RequestInv, Composing, At
<1>8. PartsInPlace(r)' /\ TextsInPlace(r)'
      BY <1>2, <1>4, <1>5, <1>6, <1>7 DEF PartsInPlace, TextsInPlace
<1>9. ReadyIsDone(r)'
      BY <1>2, <1>5 DEF ReadyIsDone, At
<1> QED BY <1>1, <1>3, <1>8, <1>9, OneRequest DEF RequestInv

-----------------------------------------------------------------------------
(* The actions                                                             *)

LEMMA DomainsAreKept ==
    ASSUME IInv, NEW r \in Requests, req[r].at \in Composing
    PROVE  DOMAIN req[r].pieces = DOMAIN ImagesOf[r]
BY DEF IInv, RequestInv, PartsInPlace

LEMMA BeginKeeps ==
    ASSUME IInv, NEW r \in Requests, Begin(r)
    PROVE  IInv'
<1> DEFINE v == [req[r] EXCEPT !.at = IF ImagesOf[r] = <<>> THEN "files" ELSE "lookup",
                     !.due = DOMAIN ImagesOf[r],
                     !.pieces = [i \in DOMAIN ImagesOf[r] |-> Missing],
                     !.files = [i \in DOMAIN FilesOf[r] |-> Step("lookup", "none")]]
<1>1. DOMAIN v = {"at", "due", "pieces", "files"}
      BY DEF IInv, Shape
<1>2. /\ v.at \in {"files", "lookup"}
      /\ v.pieces = [i \in DOMAIN ImagesOf[r] |-> Missing]
      /\ v.files = [i \in DOMAIN FilesOf[r] |-> Step("lookup", "none")]
      BY DEF IInv, Shape
<1>3. req' = [req EXCEPT ![r] = v] /\ CacheInv'
      BY DEF Begin, IInv, CacheInv
<1> HIDE DEF v
<1>4. req'[r] = v
      BY <1>3 DEF IInv, Shape
<1>5. HasText(Step("lookup", "none"))
      BY DEF HasText, Step
<1>6. PartsInPlace(r)' /\ TextsInPlace(r)'
      BY <1>2, <1>4, <1>5 DEF PartsInPlace, TextsInPlace
<1>7. ReadyIsDone(r)'
      BY <1>2, <1>4 DEF ReadyIsDone, At
<1> QED BY <1>1, <1>3, <1>6, <1>7, OneRequest DEF RequestInv

LEMMA PaddedDomain ==
    ASSUME NEW list, NEW n, NEW p
    PROVE  DOMAIN Padded(list, n, p) = 1..n
BY DEF Padded

LEMMA ImagesKeep ==
    ASSUME IInv, NEW r \in Requests,
           UseCache(r) \/ Describe(r) \/ Saved(r)
             \/ \E i \in DOMAIN ImagesOf[r] : Lookup(r, i) \/ Save(r, i) \/ SaveFails(r, i)
    PROVE  IInv'
<1>0. /\ CacheInv'
      /\ \A place \in Composing : At(r, place) => req[r].at \in Composing
      BY DEF IInv, CacheInv, At, UseCache, Describe, Saved, Lookup, Save, SaveFails
<1>s. DOMAIN req[r] = {"at", "due", "pieces", "files"}
      BY DEF IInv, Shape
<1>i. DOMAIN ImagesOf[r] = 1..Len(ImagesOf[r])
      BY ContentDelegationAssumption
<1>1. CASE UseCache(r)
  <2> DEFINE pieces == [i \in DOMAIN ImagesOf[r] |-> Shortened(req[r].pieces[i])]
             v == [req[r] EXCEPT !.pieces = pieces, !.at = "files"]
  <2>1. req' = [req EXCEPT ![r] = v] /\ req[r].at \in Composing
        BY <1>1 DEF UseCache, LookedUp, At, Composing
  <2>2. DOMAIN pieces = DOMAIN ImagesOf[r]
        OBVIOUS
  <2> HIDE DEF pieces
  <2>3. /\ DOMAIN v = {"at", "due", "pieces", "files"}
        /\ v.at = "files" /\ v.pieces = pieces /\ v.files = req[r].files
        BY <1>s
  <2> HIDE DEF v
  <2>4. v.at \in Composing \ {"ready"} /\ DOMAIN v.pieces = DOMAIN ImagesOf[r]
        BY <2>2, <2>3 DEF Composing
  <2> QED BY <1>0, <2>1, <2>3, <2>4, ImagesMove
<1>2. CASE Describe(r)
  <2>1. PICK pieces, due :
          /\ DOMAIN pieces = DOMAIN ImagesOf[r]
          /\ req' = [req EXCEPT ![r].pieces = pieces, ![r].due = due, ![r].at = "saving"]
    <3>1. PICK lists :
            LET list == Padded(Concatenated(lists), Len(ImagesOf[r]), PromptOf[r])
            IN req' = [req EXCEPT ![r].pieces = list,
                          ![r].due = {i \in DOMAIN list : list[i].kind # "blank"},
                          ![r].at = "saving"]
          BY <1>2 DEF Describe
    <3> DEFINE list == Padded(Concatenated(lists), Len(ImagesOf[r]), PromptOf[r])
    <3>2. DOMAIN list = DOMAIN ImagesOf[r]
          BY <1>i, PaddedDomain
    <3>3. req' = [req EXCEPT ![r].pieces = list,
                     ![r].due = {i \in DOMAIN list : list[i].kind # "blank"},
                     ![r].at = "saving"]
          BY <3>1
    <3> HIDE DEF list
    <3> QED BY <3>2, <3>3
  <2> DEFINE v == [req[r] EXCEPT !.pieces = pieces, !.due = due, !.at = "saving"]
  <2>2. req' = [req EXCEPT ![r] = v] /\ req[r].at \in Composing
        BY <1>2, <2>1 DEF Describe, LookedUp, At, Composing
  <2>3. /\ DOMAIN v = {"at", "due", "pieces", "files"}
        /\ v.at = "saving" /\ v.pieces = pieces /\ v.files = req[r].files
        BY <1>s
  <2> HIDE DEF v
  <2>4. v.at \in Composing \ {"ready"} /\ DOMAIN v.pieces = DOMAIN ImagesOf[r]
        BY <2>1, <2>3 DEF Composing
  <2> QED BY <1>0, <2>2, <2>3, <2>4, ImagesMove
<1>3. CASE Saved(r)
  <2> DEFINE v == [req[r] EXCEPT !.at = "files"]
  <2>1. req' = [req EXCEPT ![r] = v] /\ req[r].at \in Composing
        BY <1>3 DEF Saved, At, Composing
  <2>2. /\ DOMAIN v = {"at", "due", "pieces", "files"}
        /\ v.at = "files" /\ v.pieces = req[r].pieces /\ v.files = req[r].files
        BY <1>s
  <2> HIDE DEF v
  <2>3. v.at \in Composing \ {"ready"} /\ DOMAIN v.pieces = DOMAIN ImagesOf[r]
        BY <2>1, <2>2, DomainsAreKept DEF Composing
  <2>4. req[r].at \in Composing
        BY <2>1 DEF Composing
  <2> QED BY <1>0, <2>1, <2>2, <2>3, <2>4, ImagesMove
<1>4. ASSUME NEW i \in DOMAIN ImagesOf[r], Lookup(r, i) PROVE IInv'
  <2>1. PICK found :
          req' = [req EXCEPT ![r].pieces[i] = found, ![r].due = @ \ {i}]
        BY <1>4 DEF Lookup
  <2> DEFINE pieces == [req[r].pieces EXCEPT ![i] = found]
             v == [req[r] EXCEPT !.pieces = pieces, !.due = req[r].due \ {i}]
  <2>2. req[r].at = "lookup"
        BY <1>4 DEF Lookup, At
  <2>3. DOMAIN pieces = DOMAIN ImagesOf[r]
        BY <2>2, DomainsAreKept DEF Composing
  <2>4. req' = [req EXCEPT ![r] = v]
        BY <2>1, <1>s
  <2> HIDE DEF pieces
  <2>5. /\ DOMAIN v = {"at", "due", "pieces", "files"}
        /\ v.at = "lookup" /\ v.pieces = pieces /\ v.files = req[r].files
        BY <1>s, <2>2
  <2> HIDE DEF v
  <2>6. v.at \in Composing \ {"ready"} /\ DOMAIN v.pieces = DOMAIN ImagesOf[r]
           /\ req[r].at \in Composing
        BY <2>2, <2>3, <2>5 DEF Composing
  <2> QED BY <1>0, <2>4, <2>5, <2>6, ImagesMove
<1>5. ASSUME NEW i \in DOMAIN ImagesOf[r], Save(r, i) \/ SaveFails(r, i) PROVE IInv'
  <2> DEFINE v == [req[r] EXCEPT !.due = @ \ {i}]
  <2>1. req[r].at = "saving" /\ req' = [req EXCEPT ![r] = v]
        BY <1>5 DEF Save, SaveFails, At
  <2>2. /\ DOMAIN v = {"at", "due", "pieces", "files"}
        /\ v.at = "saving" /\ v.pieces = req[r].pieces /\ v.files = req[r].files
        BY <1>s, <2>1
  <2> HIDE DEF v
  <2>3. v.at \in Composing \ {"ready"} /\ DOMAIN v.pieces = DOMAIN ImagesOf[r]
        BY <2>1, <2>2, DomainsAreKept DEF Composing
  <2>4. req[r].at \in Composing
        BY <2>1 DEF Composing
  <2> QED BY <1>0, <2>1, <2>2, <2>3, <2>4, ImagesMove
<1> QED BY <1>1, <1>2, <1>3, <1>4, <1>5

LEMMA FilesKeep ==
    ASSUME IInv, NEW r \in Requests, NEW i \in DOMAIN FilesOf[r],
           LookupFile(r, i) \/ Extract(r, i) \/ SaveFile(r, i)
    PROVE  IInv'
<1>1. FilesOf[r][i] \in Files /\ At(r, "files")
      BY ContentDelegationAssumption DEF LookupFile, Extract, SaveFile, FileStep, MayTake
<1>2. TextsInPlace(r)
      BY <1>1 DEF IInv, RequestInv, Composing, At
<1>3. CASE LookupFile(r, i)
  <2>1. CacheInv'
        BY <1>3 DEF LookupFile, IInv, CacheInv
  <2>2. \A text \in Texts \union {"missing"} : Repeated(text) # "none"
        BY DEF Repeated, Texts
  <2>3. Repeated(extracted[FilesOf[r][i]]) # "none"
        BY <1>1, <2>2 DEF IInv, CacheInv
  <2>4. \/ Put(r, i, "done", Repeated(extracted[FilesOf[r][i]]))
        \/ Put(r, i, "extract", "none")
        BY <1>3 DEF LookupFile
  <2> QED BY <1>1, <2>1, <2>3, <2>4, FileMoves
<1>4. CASE Extract(r, i)
  <2>1. CacheInv'
        BY <1>4 DEF Extract, IInv, CacheInv
  <2>2. PICK text \in Outcomes[FilesOf[r][i]] :
            Put(r, i, IF text = "blank" THEN "done" ELSE "saving", text)
        BY <1>4 DEF Extract
  <2>3. text \in Texts /\ text # "none"
        BY <1>1, <2>2, ContentDelegationAssumption DEF Texts
  <2> QED BY <1>1, <2>1, <2>2, <2>3, FileMoves
<1>5. CASE SaveFile(r, i)
  <2>1. req[r].files[i].step = "saving"
        BY <1>5 DEF SaveFile, FileStep
  <2>2. req[r].files[i].text \in Texts /\ req[r].files[i].text # "none"
        BY <1>2, <2>1 DEF TextsInPlace, HasText
  <2>3. CacheInv'
        BY <1>1, <1>5, <2>2 DEF SaveFile, IInv, CacheInv
  <2>4. Put(r, i, "done", req[r].files[i].text)
        BY <1>5 DEF SaveFile
  <2> QED BY <1>1, <2>2, <2>3, <2>4, FileMoves
<1> QED BY <1>3, <1>4, <1>5

\* A message that keeps its media, or has its images described on their own.
LEMMA MediaStays ==
    ASSUME IInv, NEW r \in Requests, NEW pieces,
           DOMAIN pieces = DOMAIN ImagesOf[r],
           req' = [req EXCEPT ![r].pieces = pieces, ![r].files = RawFiles(r),
                              ![r].at = "ready"],
           CacheInv'
    PROVE  IInv'
<1> DEFINE v == [req[r] EXCEPT !.pieces = pieces, !.files = RawFiles(r), !.at = "ready"]
<1>1. DOMAIN v = {"at", "due", "pieces", "files"}
      BY DEF IInv, Shape
<1>2. v.at = "ready" /\ v.pieces = pieces /\ v.files = RawFiles(r)
      BY DEF IInv, Shape
<1>3. req' = [req EXCEPT ![r] = v]
      OBVIOUS
<1> HIDE DEF v
<1>4. req'[r] = v
      BY <1>3 DEF IInv, Shape
<1>5. DOMAIN RawFiles(r) = DOMAIN FilesOf[r]
         /\ \A i \in DOMAIN FilesOf[r] : RawFiles(r)[i] = Step("done", "raw")
      BY DEF RawFiles
<1>6. HasText(Step("done", "raw")) /\ Step("done", "raw").step = "done"
      BY DEF HasText, Step
<1>7. RequestInv(r)'
      BY <1>2, <1>4, <1>5, <1>6 DEF RequestInv, PartsInPlace, TextsInPlace, ReadyIsDone
<1> QED BY <1>1, <1>3, <1>7, OneRequest

LEMMA OthersKeep ==
    ASSUME IInv, NEW r \in Requests,
           LeaveAlone(r) \/ AutoDescribe(r) \/ FilesDone(r) \/ Refuse(r) \/ CallChain(r)
             \/ Dies(r)
    PROVE  IInv'
<1>0. CacheInv'
      BY DEF IInv, CacheInv, LeaveAlone, AutoDescribe, FilesDone, Refuse, CallChain, Dies
<1>1. CASE LeaveAlone(r)
  <2>1. DOMAIN Raw(r) = DOMAIN ImagesOf[r]
        BY DEF Raw
  <2> QED BY <1>0, <1>1, <2>1, MediaStays DEF LeaveAlone
<1>2. CASE AutoDescribe(r)
  <2>1. PICK pieces :
            /\ DOMAIN pieces = DOMAIN ImagesOf[r]
            /\ req' = [req EXCEPT ![r].pieces = pieces, ![r].files = RawFiles(r),
                                  ![r].at = "ready"]
    <3>1. PICK told :
              req' = [req EXCEPT
                 ![r].pieces = [i \in DOMAIN ImagesOf[r] |-> told[SameImage(ImagesOf[r], i)]],
                 ![r].files = RawFiles(r),
                 ![r].at = "ready"]
          BY <1>2 DEF AutoDescribe
    <3> QED BY <3>1
  <2> QED BY <1>0, <2>1, MediaStays
<1>3. CASE FilesDone(r)
  <2> DEFINE v == [req[r] EXCEPT !.at = "ready"]
  <2>1. DOMAIN v = {"at", "due", "pieces", "files"}
        BY DEF IInv, Shape
  <2>2. v.at = "ready" /\ v.pieces = req[r].pieces /\ v.files = req[r].files
        BY DEF IInv, Shape
  <2>3. req' = [req EXCEPT ![r] = v]
        BY <1>3 DEF FilesDone
  <2> HIDE DEF v
  <2>4. req'[r] = v
        BY <2>3 DEF IInv, Shape
  <2>5. PartsInPlace(r) /\ TextsInPlace(r)
        BY <1>3 DEF IInv, RequestInv, FilesDone, At, Composing
  <2>6. \A i \in DOMAIN FilesOf[r] : req[r].files[i].step = "done"
        BY <1>3 DEF FilesDone
  <2>7. RequestInv(r)'
        BY <2>2, <2>4, <2>5, <2>6 DEF RequestInv, PartsInPlace, TextsInPlace, ReadyIsDone
  <2> QED BY <1>0, <2>1, <2>3, <2>7, OneRequest
<1>4. CASE Refuse(r) \/ CallChain(r) \/ Dies(r)
  <2>1. PICK outcome \in Over : End(r, outcome)
        BY <1>4 DEF Refuse, CallChain, Dies, Over
  <2> QED BY <1>0, <2>1, RequestEnds
<1> QED BY <1>1, <1>2, <1>3, <1>4

-----------------------------------------------------------------------------

LEMMA IInvInit == Init => IInv
<1> SUFFICES ASSUME Init PROVE IInv
    OBVIOUS
<1>1. \A r \in Requests : req[r] = Arrived
      BY DEF Init
<1>2. DOMAIN Arrived = {"at", "due", "pieces", "files"} /\ Arrived.at = "arrived"
      BY DEF Arrived
<1>3. Shape /\ CacheInv
      BY <1>1, <1>2 DEF Init, Shape, CacheInv
<1>4. \A r \in Requests : RequestInv(r)
      BY <1>1, <1>2 DEF RequestInv, Composing
<1> QED BY <1>3, <1>4 DEF IInv

LEMMA IInvStep == IInv /\ [Next]_vars => IInv'
<1> SUFFICES ASSUME IInv, [Next]_vars PROVE IInv'
    OBVIOUS
<1>1. ASSUME NEW r \in Requests, Proceed(r) \/ Dies(r) PROVE IInv'
      BY <1>1, BeginKeeps, ImagesKeep, FilesKeep, OthersKeep DEF Proceed
<1>2. CASE Lapse
  <2>1. CacheInv' /\ req' = req
        BY <1>2 DEF Lapse, IInv, CacheInv
  <2> QED BY <2>1 DEF IInv, Shape, RequestInv, PartsInPlace, TextsInPlace, ReadyIsDone, At
<1>3. CASE UNCHANGED vars
      BY <1>3 DEF vars, IInv, Shape, CacheInv, RequestInv, PartsInPlace, TextsInPlace,
                  ReadyIsDone, At
<1> QED BY <1>1, <1>2, <1>3 DEF Next

\* Whatever the vision model, the extractors and Valkey return, a composed
\* message has a part for each of its images and files.
THEOREM NoPartVanishes == Spec => []NothingVanishes
<1>1. IInv => NothingVanishes
  <2> SUFFICES ASSUME IInv, NEW r \in Requests, Composed(r)
               PROVE  /\ PartsInPlace(r)
                      /\ \A i \in DOMAIN FilesOf[r] : req[r].files[i].text # "none"
      BY DEF NothingVanishes, PartsInPlace
  <2>1. PartsInPlace(r) /\ TextsInPlace(r) /\ ReadyIsDone(r)
        BY DEF IInv, RequestInv, Composed, At, Composing
  <2> QED BY <2>1 DEF TextsInPlace, ReadyIsDone, HasText, Composed
<1> QED BY <1>1, IInvInit, IInvStep, PTL DEF Spec

-----------------------------------------------------------------------------
(* The texts of several calls                                              *)

LEMMA LeastNumber ==
    ASSUME NEW S, S \subseteq Nat, S # {}
    PROVE  \E n \in S : \A k \in S : ~(k < n)
<1> DEFINE R == OpToRel(<, Nat)
<1>1. IsWellFoundedOn(R, Nat)
      BY NatLessThanWellFounded
<1>2. \A i, j \in Nat : <<i, j>> \in R <=> i < j
      BY DEF OpToRel
<1> HIDE DEF R
<1>3. PICK n \in S : \A k \in S : ~(<<k, n>> \in R)
      BY <1>1, WFMin
<1> QED BY <1>2, <1>3

\* The lists one after the other, up to each of them.
Joins(f, lists, n) ==
    f[0] = <<>> /\ \A b \in 1..n : f[b] = f[b - 1] \o lists[b]

LEMMA JoinsExist ==
    ASSUME NEW lists \in Seq(Seq(PieceType)), NEW n \in 0..Len(lists)
    PROVE  \E f \in [0..n -> Seq(PieceType)] : Joins(f, lists, n)
<1> DEFINE Has(m) == \E f \in [0..m -> Seq(PieceType)] : Joins(f, lists, m)
           Bad == {m \in 0..Len(lists) : ~Has(m)}
<1> SUFFICES ASSUME Bad # {} PROVE FALSE
    OBVIOUS
<1>1. PICK m \in Bad : \A k \in Bad : ~(k < m)
  <2>1. Bad \subseteq Nat
        OBVIOUS
  <2> HIDE DEF Bad
  <2> QED BY <2>1, LeastNumber
<1>2. m \in Nat /\ m <= Len(lists) /\ Len(lists) \in Nat
      BY <1>1
<1>3. m # 0
  <2> DEFINE e == [k \in 0..0 |-> <<>>]
  <2>1. e \in [0..0 -> Seq(PieceType)] /\ Joins(e, lists, 0)
        BY DEF Joins
  <2>2. Has(0)
        BY <2>1
  <2> QED BY <1>1, <2>2
<1>4. m - 1 \in 0..Len(lists) /\ m - 1 < m
      BY <1>2, <1>3
<1>5. PICK f \in [0..(m - 1) -> Seq(PieceType)] : Joins(f, lists, m - 1)
      BY <1>1, <1>4
<1>6. PICK last \in Seq(PieceType) : last = f[m - 1] \o lists[m]
  <2>1. lists[m] \in Seq(PieceType) /\ f[m - 1] \in Seq(PieceType)
        BY <1>2, <1>3
  <2>2. f[m - 1] \o lists[m] \in Seq(PieceType)
        BY <2>1
  <2> QED BY <2>2
<1> DEFINE g == [k \in 0..m |-> IF k = m THEN last ELSE f[k]]
<1>7. g \in [0..m -> Seq(PieceType)]
  <2>1. \A k \in 0..m : k = m \/ k \in 0..(m - 1)
        BY <1>2
  <2> QED BY <2>1
<1>8. Joins(g, lists, m)
  <2>1. g[0] = <<>>
        BY <1>2, <1>3, <1>5 DEF Joins
  <2>2. ASSUME NEW k \in 1..m PROVE g[k] = g[k - 1] \o lists[k]
    <3>1. CASE k = m
      <4>1. g[k] = last /\ g[k - 1] = f[k - 1]
            BY <1>2, <1>3, <3>1
      <4> QED BY <1>6, <3>1, <4>1
    <3>2. CASE k # m
      <4>1. k \in 1..(m - 1) /\ k - 1 \in 0..m /\ k - 1 # m /\ k \in 0..m
            BY <1>2, <3>2
      <4>2. g[k] = f[k] /\ g[k - 1] = f[k - 1]
            BY <3>2, <4>1
      <4> HIDE DEF g
      <4>3. f[k] = f[k - 1] \o lists[k]
            BY <1>5, <4>1 DEF Joins
      <4> QED BY <4>2, <4>3
    <3> QED BY <3>1, <3>2
  <2> HIDE DEF g
  <2> QED BY <2>1, <2>2 DEF Joins
<1>9. Has(m)
      BY <1>7, <1>8
<1> QED BY <1>1, <1>9

LEMMA SameJoins ==
    ASSUME NEW lists, NEW n \in Nat, NEW f, Joins(f, lists, n), NEW g, Joins(g, lists, n)
    PROVE  \A b \in 0..n : g[b] = f[b]
<1> DEFINE Bad == {b \in 0..n : g[b] # f[b]}
<1> SUFFICES ASSUME Bad # {} PROVE FALSE
    OBVIOUS
<1>1. PICK b \in Bad : \A j \in Bad : ~(j < b)
  <2>1. Bad \subseteq Nat
        OBVIOUS
  <2> HIDE DEF Bad
  <2> QED BY <2>1, LeastNumber
<1>2. b \in 1..n
      BY <1>1 DEF Joins
<1>3. b - 1 \in 0..n /\ b - 1 < b
      BY <1>2
<1>4. g[b - 1] = f[b - 1]
      BY <1>1, <1>3
<1> QED BY <1>1, <1>2, <1>4 DEF Joins

LEMMA ConcatenatedIsJoin ==
    ASSUME NEW lists \in Seq(Seq(PieceType))
    PROVE  \E f \in [0..Len(lists) -> Seq(PieceType)] :
               Joins(f, lists, Len(lists)) /\ Concatenated(lists) = f[Len(lists)]
<1> DEFINE Eq(f) == f = [n \in 0..Len(lists) |->
                             IF n = 0 THEN <<>> ELSE f[n - 1] \o lists[n]]
           upTo == CHOOSE f : Eq(f)
<1>1. Len(lists) \in Nat
      OBVIOUS
<1>2. PICK f \in [0..Len(lists) -> Seq(PieceType)] : Joins(f, lists, Len(lists))
      BY <1>1, JoinsExist
<1>3. \E e : Eq(e)
  <2>1. ASSUME NEW n \in 0..Len(lists)
        PROVE  f[n] = IF n = 0 THEN <<>> ELSE f[n - 1] \o lists[n]
    <3>1. n # 0 => n \in 1..Len(lists)
          BY <1>1
    <3>2. n # 0 => f[n] = f[n - 1] \o lists[n]
          BY <1>2, <3>1 DEF Joins
    <3>3. f[0] = <<>>
          BY <1>2 DEF Joins
    <3> QED BY <3>2, <3>3
  <2>2. Eq(f)
        BY <1>2, <2>1
  <2> QED BY <2>2
<1>4. Eq(upTo)
      BY <1>3
<1>5. Concatenated(lists) = upTo[Len(lists)]
      BY DEF Concatenated
<1>6. Joins(upTo, lists, Len(lists))
  <2> HIDE DEF upTo
  <2>1. upTo[0] = <<>>
        BY <1>1, <1>4
  <2>2. \A n \in 1..Len(lists) : n \in 0..Len(lists) /\ n # 0
        BY <1>1
  <2>3. \A n \in 1..Len(lists) : upTo[n] = upTo[n - 1] \o lists[n]
        BY <1>4, <2>2
  <2> QED BY <2>1, <2>3 DEF Joins
<1> HIDE DEF upTo
<1>7. \A b \in 0..Len(lists) : upTo[b] = f[b]
      BY <1>1, <1>2, <1>6, SameJoins
<1> QED BY <1>1, <1>2, <1>5, <1>7

-----------------------------------------------------------------------------
(* What is made of the texts of several calls                              *)

\* A text that says something says it of the h-th image, to the prompt.
Speaks(piece) == piece.kind \notin Wordless

\* The list has the text for image k of images at position k, for those of its
\* positions that are not beyond the end.
InOrder(list, images, p) ==
    \A k \in DOMAIN list :
        k <= Len(images) /\ Speaks(list[k]) => list[k].of = images[k] /\ list[k].for = p

\* Part b of the images is theirs from the offset (b - 1) * stride on.
PartsOf(parts, images, stride) ==
    /\ parts \in Seq(Seq(Images))
    /\ Len(parts) > 0
    /\ \A b \in 1..Len(parts) :
          /\ Len(parts[b]) = IF b < Len(parts) THEN stride
                             ELSE Len(images) - (b - 1) * stride
          /\ \A k \in 1..Len(parts[b]) : parts[b][k] = images[(b - 1) * stride + k]

LEMMA NumberOfParts ==
    ASSUME NEW n \in Nat \ {0}, NEW B \in Nat \ {0}, NEW q, q = (n + B - 1) \div B
    PROVE  q \in Nat \ {0} /\ q * B >= n /\ (q - 1) * B < n
<1>1. q \in Int
      OBVIOUS
<1>2. q * B <= n + B - 1 /\ n + B - 1 < (q + 1) * B
      OBVIOUS
<1>3. (q + 1) * B = q * B + B /\ (q - 1) * B = q * B - B
      BY <1>1
<1>4. q * B \in Int /\ q * B >= n /\ (q - 1) * B < n
      BY <1>1, <1>2, <1>3
<1>5. q > 0
  <2>1. q <= 0 => q * B <= 0
        BY <1>1
  <2> QED BY <1>1, <1>4, <2>1
<1> QED BY <1>1, <1>4, <1>5

LEMMA Section ==
    ASSUME NEW S, NEW s \in Seq(S), NEW lo \in Nat, NEW hi \in Nat,
           lo <= hi, hi <= Len(s)
    PROVE  /\ SubSeq(s, lo + 1, hi) \in Seq(S)
           /\ Len(SubSeq(s, lo + 1, hi)) = hi - lo
           /\ \A k \in 1..(hi - lo) : SubSeq(s, lo + 1, hi)[k] = s[lo + k]
    OBVIOUS

LEMMA BatchesPartition ==
    ASSUME NEW images \in Seq(Images), images # <<>>
    PROVE  \E stride \in Nat \ {0} : PartsOf(Batches(images), images, stride)
<1> DEFINE n == Len(images)
<1>1. n \in Nat \ {0} /\ BatchSize \in Nat \ {0} /\ DOMAIN images = 1..n
      BY ContentDelegationAssumption
<1>2. CASE Fits(images)
  <2>1. Batches(images) = <<images>>
        BY <1>2 DEF Batches
  <2>2. PartsOf(<<images>>, images, 1)
        BY <1>1 DEF PartsOf
  <2> QED BY <2>1, <2>2
<1>3. CASE ~Fits(images)
  <2> DEFINE q == (n + BatchSize - 1) \div BatchSize
             part(b) == SubSeq(images, (b - 1) * BatchSize + 1, Least(b * BatchSize, n))
             parts == [b \in 1..q |-> part(b)]
  <2>1. q \in Nat \ {0} /\ q * BatchSize >= n /\ (q - 1) * BatchSize < n
        BY <1>1, NumberOfParts
  <2>2. Batches(images) = parts
        BY <1>3 DEF Batches
  <2> HIDE DEF q
  <2>3. ASSUME NEW b \in 1..q
        PROVE  /\ part(b) \in Seq(Images)
               /\ Len(part(b)) = IF b < q THEN BatchSize ELSE n - (b - 1) * BatchSize
               /\ \A k \in 1..Len(part(b)) : part(b)[k] = images[(b - 1) * BatchSize + k]
    <3> DEFINE lo == (b - 1) * BatchSize
               top == b * BatchSize
               hi == Least(top, n)
    <3>1. top = lo + BatchSize /\ lo \in Nat /\ top \in Nat
          BY <1>1, <2>1
    <3>2. IF b < q THEN top < n ELSE top >= n /\ lo < n
      <4>1. CASE b < q
        <5>1. b * BatchSize <= (q - 1) * BatchSize
              BY <1>1, <2>1, <4>1
        <5>2. b * BatchSize \in Int /\ (q - 1) * BatchSize \in Int
              BY <1>1, <2>1
        <5> QED BY <1>1, <2>1, <4>1, <5>1, <5>2
      <4>2. CASE b = q
            BY <2>1, <4>2
      <4> QED BY <2>1, <4>1, <4>2
    <3>3. part(b) = SubSeq(images, lo + 1, hi)
          OBVIOUS
    <3> HIDE DEF lo, top, part
    <3>4. /\ hi \in Nat /\ hi <= n /\ lo <= hi
          /\ hi = IF b < q THEN lo + BatchSize ELSE n
          BY <1>1, <3>1, <3>2 DEF Least
    <3> HIDE DEF hi
    <3>5. /\ part(b) \in Seq(Images)
          /\ Len(part(b)) = hi - lo
          /\ \A k \in 1..(hi - lo) : part(b)[k] = images[lo + k]
          BY <3>1, <3>3, <3>4, Section
    <3>6. Len(part(b)) = IF b < q THEN BatchSize ELSE n - lo
      <4>1. b < q => Len(part(b)) = BatchSize
            BY <1>1, <3>1, <3>4, <3>5
      <4>2. ~(b < q) => Len(part(b)) = n - lo
            BY <3>4, <3>5
      <4> QED BY <4>1, <4>2
    <3> QED BY <3>5, <3>6 DEF lo
  <2> HIDE DEF part
  <2>4. parts \in Seq(Seq(Images)) /\ Len(parts) = q /\ \A b \in 1..q : parts[b] = part(b)
        BY <2>1, <2>3
  <2> HIDE DEF parts, n
  <2>5. PartsOf(parts, images, BatchSize)
        BY <2>1, <2>3, <2>4 DEF PartsOf, n
  <2> QED BY <1>1, <2>2, <2>5
<1> QED BY <1>2, <1>3

\* A function on the positions of a sequence is a sequence.
LEMMA ListOfAll ==
    ASSUME NEW S, NEW n \in Nat, NEW f, f = [k \in 1..n |-> f[k]], \A k \in 1..n : f[k] \in S
    PROVE  f \in Seq(S) /\ Len(f) = n /\ DOMAIN f = 1..n
    OBVIOUS

LEMMA AnswerOfOneCall ==
    ASSUME NEW batch \in Seq(Images), NEW p \in Prompts, NEW list \in BatchResults(batch, p)
    PROVE  /\ list \in Seq(PieceType)
           /\ Follows(list, batch) => InOrder(list, batch, p)
<1>1. DOMAIN batch = 1..Len(batch) /\ Len(batch) \in Nat /\ Extra \in Nat
         /\ \A k \in 1..Len(batch) : batch[k] \in Images
      BY ContentDelegationAssumption
<1>2. ASSUME NEW kind \in {"text", "error", "blank"}, NEW h \in Images \union {Nothing}
      PROVE  /\ Piece(kind, h, p) \in PieceType
             /\ Piece(kind, h, p).of = h /\ Piece(kind, h, p).for = p
             /\ Piece(kind, h, p).kind = kind
      BY <1>2 DEF Piece, PieceType
<1>3. ASSUME NEW piece \in Said(batch, p)
      PROVE  piece \in PieceType /\ (Speaks(piece) => piece.kind # "blank" /\ piece.for = p)
  <2>1. CASE piece = Blank(p)
        BY <1>2, <2>1 DEF Blank, Speaks, Wordless
  <2>2. CASE piece # Blank(p)
    <3>1. PICK h \in Images \union {Nothing} : piece = Piece("text", h, p)
          BY <1>1, <2>2 DEF Said
    <3> QED BY <1>2, <3>1
  <2> QED BY <2>1, <2>2
<1>4. CASE ~Fits(batch)
  <2> DEFINE errors == [k \in DOMAIN batch |-> Piece("error", batch[k], p)]
  <2>1. list = errors
        BY <1>4 DEF BatchResults
  <2>2. list = [k \in 1..Len(batch) |-> list[k]]
           /\ \A k \in 1..Len(batch) : list[k] = Piece("error", batch[k], p)
        BY <1>1, <2>1
  <2>3. \A k \in 1..Len(batch) :
            list[k] \in PieceType /\ list[k].of = batch[k] /\ list[k].for = p
        BY <1>1, <1>2, <2>2
  <2>4. list \in Seq(PieceType) /\ DOMAIN list = 1..Len(batch)
        BY <1>1, <2>2, <2>3, ListOfAll
  <2> QED BY <2>3, <2>4 DEF InOrder
<1>5. CASE Fits(batch)
  <2>1. PICK n \in 0..(Len(batch) + Extra) : list \in [1..n -> Said(batch, p)]
        BY <1>5 DEF BatchResults, Answers
  <2>2. n \in Nat /\ list = [k \in 1..n |-> list[k]]
           /\ \A k \in 1..n : list[k] \in Said(batch, p)
        BY <1>1, <2>1
  <2>3. \A k \in 1..n : list[k] \in PieceType
                           /\ (Speaks(list[k]) => list[k].kind # "blank" /\ list[k].for = p)
        BY <1>3, <2>2
  <2>4. list \in Seq(PieceType) /\ DOMAIN list = 1..n
        BY <2>2, <2>3, ListOfAll
  <2>5. ASSUME Follows(list, batch), NEW k \in 1..n, k <= Len(batch), Speaks(list[k])
        PROVE  list[k].of = batch[k] /\ list[k].for = p
    <3>1. k \in DOMAIN list \intersect DOMAIN batch
          BY <1>1, <2>4, <2>5
    <3> QED BY <2>3, <2>5, <3>1 DEF Follows
  <2> QED BY <2>4, <2>5 DEF InOrder
<1> QED BY <1>4, <1>5

LEMMA LengthOfJoin ==
    ASSUME NEW S, NEW a \in Seq(S), NEW c \in Seq(S)
    PROVE  Len(a \o c) = Len(a) + Len(c)
    OBVIOUS

\* The texts of a part continue those of the parts before it.
LEMMA JoinOnePart ==
    ASSUME NEW images \in Seq(Images), NEW p \in Prompts,
           NEW pre \in Seq(PieceType), InOrder(pre, images, p),
           NEW part \in Seq(Images), NEW add \in Seq(PieceType), InOrder(add, part, p),
           \A k \in 1..Len(part) : part[k] = images[Len(pre) + k],
           Len(add) <= Len(part) \/ Len(part) = Len(images) - Len(pre)
    PROVE  InOrder(pre \o add, images, p)
<1> DEFINE all == pre \o add
           lo == Len(pre)
<1>1. /\ lo \in Nat /\ Len(add) \in Nat /\ Len(part) \in Nat /\ Len(images) \in Nat
      /\ DOMAIN all = 1..(lo + Len(add))
      /\ DOMAIN add = 1..Len(add) /\ DOMAIN pre = 1..lo
      /\ \A k \in 1..lo : all[k] = pre[k]
      /\ \A k \in 1..Len(add) : all[lo + k] = add[k]
      OBVIOUS
<1> HIDE DEF all, lo
<1>2. ASSUME NEW k \in DOMAIN all, k <= Len(images), Speaks(all[k])
      PROVE  all[k].of = images[k] /\ all[k].for = p
  <2>1. CASE k <= lo
        BY <1>1, <1>2, <2>1 DEF InOrder
  <2>2. CASE k > lo
    <3>1. PICK j \in 1..Len(add) : k = lo + j
      <4>1. k - lo \in 1..Len(add) /\ k = lo + (k - lo)
            BY <1>1, <2>2
      <4> QED BY <4>1
    <3>2. all[k] = add[j] /\ j \in DOMAIN add
          BY <1>1, <3>1
    <3>3. j \in 1..Len(part)
          BY <1>1, <1>2, <3>1 DEF lo
    <3>4. j <= Len(part) /\ part[j] = images[k]
          BY <1>1, <3>1, <3>3 DEF lo
    <3>5. Speaks(add[j])
          BY <1>2, <3>2
    <3> QED BY <3>2, <3>4, <3>5 DEF InOrder
  <2> QED BY <1>1, <2>1, <2>2
<1> QED BY <1>2 DEF InOrder, all

LEMMA JoinInOrder ==
    ASSUME NEW images \in Seq(Images), NEW p \in Prompts, NEW stride \in Nat \ {0},
           NEW parts, PartsOf(parts, images, stride),
           NEW lists \in [1..Len(parts) -> Seq(PieceType)],
           \A b \in 1..Len(parts) : InOrder(lists[b], parts[b], p),
           \A b \in 1..(Len(parts) - 1) : Len(lists[b]) = Len(parts[b])
    PROVE  InOrder(Concatenated(lists), images, p)
<1> DEFINE nb == Len(parts)
<1>1. /\ nb \in Nat \ {0} /\ DOMAIN parts = 1..nb
      /\ \A b \in 1..nb : parts[b] \in Seq(Images)
      BY DEF PartsOf
<1>2. lists \in Seq(Seq(PieceType)) /\ Len(lists) = nb
  <2> HIDE DEF nb
  <2>1. lists = [b \in 1..nb |-> lists[b]] /\ \A b \in 1..nb : lists[b] \in Seq(PieceType)
        BY DEF nb
  <2> QED BY <1>1, <2>1, ListOfAll
<1>3. PICK f \in [0..nb -> Seq(PieceType)] :
          Joins(f, lists, nb) /\ Concatenated(lists) = f[nb]
      BY <1>2, ConcatenatedIsJoin
<1> HIDE DEF nb
<1> DEFINE Fine(b) == InOrder(f[b], images, p) /\ (b < nb => Len(f[b]) = b * stride)
           Bad == {b \in 0..nb : ~Fine(b)}
<1> SUFFICES ASSUME Bad # {} PROVE FALSE
  <2>1. nb \in 0..nb
        BY <1>1
  <2> QED BY <1>3, <2>1
<1>4. PICK b \in Bad : \A j \in Bad : ~(j < b)
  <2>1. Bad \subseteq Nat
        OBVIOUS
  <2> HIDE DEF Bad
  <2> QED BY <2>1, LeastNumber
<1>5. b # 0
  <2>1. f[0] = <<>>
        BY <1>3 DEF Joins
  <2>2. InOrder(f[0], images, p) /\ Len(f[0]) = 0 * stride
        BY <2>1 DEF InOrder
  <2>3. Fine(0)
        BY <2>2
  <2> QED BY <1>4, <2>3
<1>6. b \in 1..nb /\ b - 1 \in 0..nb /\ b - 1 < b /\ b - 1 < nb
      BY <1>1, <1>4, <1>5
<1>7. Fine(b - 1)
      BY <1>4, <1>6
<1> DEFINE pre == f[b - 1]
<1>8. pre \in Seq(PieceType) /\ InOrder(pre, images, p) /\ Len(pre) = (b - 1) * stride
      BY <1>6, <1>7
<1>9. f[b] = pre \o lists[b] /\ lists[b] \in Seq(PieceType)
      BY <1>3, <1>6 DEF Joins, nb
<1> HIDE DEF pre, Fine
<1>10. /\ parts[b] \in Seq(Images)
       /\ Len(parts[b]) = IF b < nb THEN stride ELSE Len(images) - (b - 1) * stride
       /\ \A k \in 1..Len(parts[b]) : parts[b][k] = images[(b - 1) * stride + k]
       BY <1>1, <1>6 DEF PartsOf, nb
<1>11. b < nb => Len(lists[b]) = stride
  <2>1. b < nb => b \in 1..(nb - 1)
        BY <1>1, <1>6
  <2> QED BY <1>10, <2>1 DEF nb
<1>12. InOrder(f[b], images, p)
  <2>1. InOrder(lists[b], parts[b], p)
        BY <1>6 DEF nb
  <2>2. \A k \in 1..Len(parts[b]) : parts[b][k] = images[Len(pre) + k]
        BY <1>8, <1>10
  <2>3. Len(lists[b]) <= Len(parts[b]) \/ Len(parts[b]) = Len(images) - Len(pre)
    <3>1. CASE b < nb
          BY <1>10, <1>11, <3>1
    <3>2. CASE ~(b < nb)
          BY <1>8, <1>10, <3>2
    <3> QED BY <3>1, <3>2
  <2> QED BY <1>8, <1>9, <1>10, <2>1, <2>2, <2>3, JoinOnePart
<1>13. b < nb => Len(f[b]) = b * stride
  <2>1. Len(f[b]) = Len(pre) + Len(lists[b])
    <3>1. Len(pre \o lists[b]) = Len(pre) + Len(lists[b])
          BY <1>8, <1>9, LengthOfJoin
    <3> QED BY <1>9, <3>1
  <2>2. b * stride = (b - 1) * stride + stride
        BY <1>6
  <2> QED BY <1>8, <1>11, <2>1, <2>2
<1> QED BY <1>4, <1>12, <1>13 DEF Fine

LEMMA ConcatenatedType ==
    ASSUME NEW lists \in Seq(Seq(PieceType))
    PROVE  Concatenated(lists) \in Seq(PieceType)
<1>1. PICK f \in [0..Len(lists) -> Seq(PieceType)] : Concatenated(lists) = f[Len(lists)]
      BY ConcatenatedIsJoin
<1>2. Len(lists) \in 0..Len(lists)
      OBVIOUS
<1> QED BY <1>1, <1>2

LEMMA PaddedInOrder ==
    ASSUME NEW list \in Seq(PieceType), NEW n \in Nat, NEW p \in Prompts
    PROVE  /\ Padded(list, n, p) \in Seq(PieceType)
           /\ \A images : n = Len(images) /\ InOrder(list, images, p) =>
                 \A i \in 1..n : Speaks(Padded(list, n, p)[i]) =>
                     /\ Padded(list, n, p)[i].of = images[i]
                     /\ Padded(list, n, p)[i].for = p
<1> DEFINE e == Padded(list, n, p)
<1>1. Blank(p) \in PieceType /\ ~Speaks(Blank(p))
      BY DEF Blank, Piece, PieceType, Speaks, Wordless
<1>2. /\ e = [i \in 1..n |-> e[i]]
      /\ \A i \in 1..n : e[i] = IF i <= Len(list) THEN list[i] ELSE Blank(p)
      BY DEF Padded
<1>3. DOMAIN list = 1..Len(list) /\ Len(list) \in Nat
      /\ \A i \in 1..Len(list) : list[i] \in PieceType
      OBVIOUS
<1> HIDE DEF e
<1>4. \A i \in 1..n : e[i] \in PieceType
      BY <1>1, <1>2, <1>3
<1>5. e \in Seq(PieceType)
      BY <1>2, <1>4, ListOfAll
<1>6. ASSUME NEW images, n = Len(images), InOrder(list, images, p),
             NEW i \in 1..n, Speaks(e[i])
      PROVE  e[i].of = images[i] /\ e[i].for = p
  <2>1. i <= Len(list)
        BY <1>1, <1>2, <1>6
  <2>2. i \in DOMAIN list /\ e[i] = list[i] /\ i <= Len(images)
        BY <1>2, <1>3, <1>6, <2>1
  <2> QED BY <1>6, <2>2 DEF InOrder
<1> QED BY <1>5, <1>6 DEF e

-----------------------------------------------------------------------------
(* What stands for an image was made from it                               *)

\* A text that says something says it of image h, to the prompt p.
MadeFrom(piece, h, p) == Speaks(piece) => piece.of = h /\ piece.for = p

CacheMatches == \A k \in Keys : MadeFrom(described[k], k[1], k[2])

\* Until the texts are in the message each was made to its prompt; only a
\* message that is composed outside the cache has texts made to none.
LocalsMatch(v, r) ==
    v.at \in Composing =>
        \A i \in DOMAIN v.pieces :
            Speaks(v.pieces[i]) =>
                /\ v.pieces[i].of = ImagesOf[r][i]
                /\ v.pieces[i].for \in {PromptOf[r], Nothing}
                /\ v.at # "ready" => v.pieces[i].for = PromptOf[r]

MInv ==
    /\ TypeOK
    /\ ~misread => CacheMatches /\ \A r \in Requests : LocalsMatch(req[r], r)

Grows == misread' \in BOOLEAN /\ (misread => misread')

\* A step of r leaves the locals of the others alone.
LEMMA MatchesAfter ==
    ASSUME MInv, CacheInv', NEW r \in Requests, NEW v \in ReqType,
           req' = [req EXCEPT ![r] = v],
           described' \in [Keys -> PieceType], Grows,
           ~misread' => CacheMatches' /\ LocalsMatch(v, r)
    PROVE  MInv'
<1>1. req \in [Requests -> ReqType]
      BY DEF MInv, TypeOK
<1>2. \A q \in Requests : req'[q] = IF q = r THEN v ELSE req[q]
      BY <1>1
<1>3. TypeOK'
      BY <1>1 DEF TypeOK, CacheInv, Grows
<1>4. ASSUME ~misread', NEW q \in Requests PROVE LocalsMatch(req'[q], q)
  <2>1. CASE q = r
        BY <1>2, <1>4, <2>1
  <2>2. CASE q # r
    <3>1. req'[q] = req[q] /\ ~misread
          BY <1>2, <1>4, <2>2 DEF Grows
    <3> QED BY <3>1 DEF MInv
  <2> QED BY <2>1, <2>2
<1>5. \A q \in Requests : LocalsMatch(req[q], q)' <=> LocalsMatch(req'[q], q)
      BY DEF LocalsMatch
<1> QED BY <1>3, <1>4, <1>5 DEF MInv

LEMMA LocalsAreTyped ==
    ASSUME MInv, NEW r \in Requests
    PROVE  /\ req[r] \in ReqType
           /\ req[r].pieces \in Seq(PieceType)
           /\ req[r].due \in SUBSET Nat
           /\ req' = [req EXCEPT ![r] = req[r]] <=> req' = req
           /\ ImagesOf[r] \in Seq(Images) /\ PromptOf[r] \in Prompts
           /\ FilesOf[r] \in Seq(Files)
<1>1. req \in [Requests -> ReqType]
      BY DEF MInv, TypeOK
<1>2. req[r] \in ReqType
      BY <1>1
<1>3. req[r].pieces \in Seq(PieceType) /\ req[r].due \in SUBSET Nat
      BY <1>2 DEF ReqType
<1> QED BY <1>1, <1>2, <1>3, ContentDelegationAssumption

FileType ==
    [step : {"lookup", "extract", "saving", "done"}, text : Texts \union {"none", "note", "raw"}]

LEMMA MatchBegin ==
    ASSUME IInv', MInv, NEW r \in Requests, Begin(r)
    PROVE  MInv'
<1> DEFINE at == IF ImagesOf[r] = <<>> THEN "files" ELSE "lookup"
           due == DOMAIN ImagesOf[r]
           pieces == [i \in DOMAIN ImagesOf[r] |-> Missing]
           files == [i \in DOMAIN FilesOf[r] |-> Step("lookup", "none")]
           v == [req[r] EXCEPT !.at = at, !.due = due, !.pieces = pieces, !.files = files]
<1>1. req[r] \in ReqType /\ ImagesOf[r] \in Seq(Images) /\ FilesOf[r] \in Seq(Files)
      BY LocalsAreTyped
<1>2. Missing \in PieceType /\ ~Speaks(Missing)
      BY DEF Missing, Piece, PieceType, Speaks, Wordless
<1>3. Step("lookup", "none") \in FileType
      BY DEF Step, FileType
<1>4. at \in Composing /\ due \in SUBSET Nat
      BY <1>1 DEF Composing
<1>5. pieces \in Seq(PieceType) /\ \A i \in DOMAIN pieces : ~Speaks(pieces[i])
      BY <1>1, <1>2
<1>6. files \in Seq(FileType)
      BY <1>1, <1>3
<1>7. req' = [req EXCEPT ![r] = v] /\ UNCHANGED <<described, misread>>
      BY DEF Begin
<1> HIDE DEF at, due, pieces, files
<1>9. v \in ReqType /\ v.pieces = pieces
      BY <1>1, <1>4, <1>5, <1>6 DEF ReqType, FileType, Composing
<1> HIDE DEF v
<1>10. LocalsMatch(v, r)
       BY <1>5, <1>9 DEF LocalsMatch
<1>11. /\ described' \in [Keys -> PieceType] /\ Grows
       /\ ~misread' => CacheMatches'
       BY <1>7 DEF MInv, TypeOK, CacheMatches, Grows
<1>12. CacheInv'
       BY DEF IInv
<1>13. ~misread' => CacheMatches' /\ LocalsMatch(v, r)
       BY <1>10, <1>11
<1> QED BY <1>7, <1>9, <1>11, <1>12, <1>13, MatchesAfter

\* The parts of a request that composes are as many as its images.
LEMMA PartsAreTyped ==
    ASSUME IInv, MInv, NEW r \in Requests, req[r].at \in Composing
    PROVE  /\ req[r].pieces \in Seq(PieceType)
           /\ req[r].files \in Seq(FileType)
           /\ DOMAIN req[r].pieces = DOMAIN ImagesOf[r]
           /\ DOMAIN req[r].files = DOMAIN FilesOf[r]
           /\ \A i \in DOMAIN ImagesOf[r] :
                 /\ i \in Nat
                 /\ req[r].pieces[i] \in PieceType
                 /\ ImageKey(r, i) \in Keys
                 /\ ImageKey(r, i)[1] = ImagesOf[r][i]
                 /\ ImageKey(r, i)[2] = PromptOf[r]
                 /\ described[ImageKey(r, i)] \in PieceType
           /\ ~misread => LocalsMatch(req[r], r) /\ CacheMatches
<1>1. req[r] \in ReqType /\ req[r].pieces \in Seq(PieceType)
         /\ ImagesOf[r] \in Seq(Images) /\ PromptOf[r] \in Prompts
      BY LocalsAreTyped
<1>2. req[r].files \in Seq(FileType)
      BY <1>1 DEF ReqType, FileType
<1>3. DOMAIN req[r].pieces = DOMAIN ImagesOf[r] /\ DOMAIN req[r].files = DOMAIN FilesOf[r]
      BY DEF IInv, RequestInv, PartsInPlace
<1>4. ASSUME NEW i \in DOMAIN ImagesOf[r]
      PROVE  /\ i \in Nat
             /\ req[r].pieces[i] \in PieceType
             /\ ImageKey(r, i) \in Keys
             /\ ImageKey(r, i)[1] = ImagesOf[r][i]
             /\ ImageKey(r, i)[2] = PromptOf[r]
             /\ described[ImageKey(r, i)] \in PieceType
  <2>1. i \in Nat /\ ImagesOf[r][i] \in Images /\ req[r].pieces[i] \in PieceType
        BY <1>1, <1>3
  <2>2. /\ ImageKey(r, i) \in Keys
        /\ ImageKey(r, i)[1] = ImagesOf[r][i] /\ ImageKey(r, i)[2] = PromptOf[r]
        BY <1>1, <2>1 DEF ImageKey, Keys
  <2> QED BY <2>1, <2>2 DEF MInv, TypeOK
<1> QED BY <1>1, <1>2, <1>3, <1>4 DEF MInv

\* A step of r that changes its parts, positions and place.
LEMMA PartsMove ==
    ASSUME IInv, IInv', MInv, NEW r \in Requests, req[r].at \in Composing,
           NEW at \in Composing, NEW due \in SUBSET Nat, NEW pieces \in Seq(PieceType),
           req' = [req EXCEPT ![r] = [req[r] EXCEPT !.pieces = pieces, !.due = due, !.at = at]],
           described' \in [Keys -> PieceType], Grows,
           ~misread' => CacheMatches',
           ASSUME ~misread', NEW i \in DOMAIN pieces, Speaks(pieces[i])
           PROVE  /\ pieces[i].of = ImagesOf[r][i]
                  /\ pieces[i].for \in {PromptOf[r], Nothing}
                  /\ at # "ready" => pieces[i].for = PromptOf[r]
    PROVE  MInv'
<1> DEFINE v == [req[r] EXCEPT !.pieces = pieces, !.due = due, !.at = at]
<1>1. v \in ReqType /\ v.pieces = pieces /\ v.at = at
      BY LocalsAreTyped DEF ReqType, Composing
<1>2. req' = [req EXCEPT ![r] = v]
      OBVIOUS
<1> HIDE DEF v
<1>3. ~misread' => CacheMatches' /\ LocalsMatch(v, r)
      BY <1>1 DEF LocalsMatch
<1>4. CacheInv'
      BY DEF IInv
<1> QED BY <1>1, <1>2, <1>3, <1>4, MatchesAfter

\* The cache and the history as they were.
LEMMA CacheStays ==
    ASSUME MInv, UNCHANGED <<described, misread>>
    PROVE  described' \in [Keys -> PieceType] /\ Grows /\ (~misread' => CacheMatches')
BY DEF MInv, TypeOK, CacheMatches, Grows

LEMMA MatchLookup ==
    ASSUME IInv, IInv', MInv, NEW r \in Requests, NEW i \in DOMAIN ImagesOf[r], Lookup(r, i)
    PROVE  MInv'
<1>1. req[r].at = "lookup" /\ req[r].at \in Composing
      BY DEF Lookup, At, Composing
<1>2. PICK found \in {described[ImageKey(r, i)], Missing} :
          req' = [req EXCEPT ![r].pieces[i] = found, ![r].due = @ \ {i}]
      BY DEF Lookup
<1> DEFINE pieces == [req[r].pieces EXCEPT ![i] = found]
           due == req[r].due \ {i}
<1>3. /\ req[r] \in ReqType /\ req[r].due \in SUBSET Nat
      /\ req[r].at = "lookup"
      BY <1>1, LocalsAreTyped
<1>4. req' = [req EXCEPT ![r] = [req[r] EXCEPT !.pieces = pieces, !.due = due, !.at = "lookup"]]
  <2>1. [req[r] EXCEPT !.pieces = pieces, !.due = due, !.at = "lookup"]
            = [req[r] EXCEPT !.pieces = pieces, !.due = due]
        BY <1>3 DEF ReqType
  <2> QED BY <1>2, <2>1
<1>5. Missing \in PieceType /\ ~Speaks(Missing)
      BY DEF Missing, Piece, PieceType, Speaks, Wordless
<1>6. found \in PieceType
      BY <1>1, <1>5, PartsAreTyped
<1>7. /\ pieces \in Seq(PieceType) /\ i \in DOMAIN req[r].pieces
      /\ DOMAIN pieces = DOMAIN req[r].pieces
      /\ \A j \in DOMAIN pieces : pieces[j] = IF j = i THEN found ELSE req[r].pieces[j]
      BY <1>1, <1>6, PartsAreTyped
<1>8. ~misread => MadeFrom(found, ImagesOf[r][i], PromptOf[r])
      BY <1>1, <1>5, PartsAreTyped DEF CacheMatches, MadeFrom
<1>9. UNCHANGED <<described, misread>>
      BY DEF Lookup
<1> HIDE DEF pieces
<1>10. ASSUME ~misread', NEW j \in DOMAIN pieces, Speaks(pieces[j])
       PROVE  pieces[j].of = ImagesOf[r][j] /\ pieces[j].for = PromptOf[r]
  <2>1. ~misread /\ LocalsMatch(req[r], r)
        BY <1>1, <1>9, <1>10, PartsAreTyped
  <2>2. CASE j = i
        BY <1>7, <1>8, <1>10, <2>1, <2>2 DEF MadeFrom
  <2>3. CASE j # i
        BY <1>1, <1>7, <1>10, <2>1, <2>3 DEF LocalsMatch
  <2> QED BY <2>2, <2>3
<1>11. "lookup" \in Composing /\ due \in SUBSET Nat
       BY <1>1, <1>3
<1> HIDE DEF due
<1> QED BY <1>1, <1>4, <1>7, <1>9, <1>10, <1>11, CacheStays, PartsMove

LEMMA MatchUseCache ==
    ASSUME IInv, IInv', MInv, NEW r \in Requests, UseCache(r)
    PROVE  MInv'
<1>1. req[r].at = "lookup" /\ req[r].at \in Composing
      BY DEF UseCache, LookedUp, At, Composing
<1> DEFINE pieces == [i \in DOMAIN ImagesOf[r] |-> Shortened(req[r].pieces[i])]
           due == req[r].due
<1>2. req[r] \in ReqType /\ due \in SUBSET Nat /\ ImagesOf[r] \in Seq(Images)
      BY LocalsAreTyped
<1>3. ASSUME NEW piece \in PieceType
      PROVE  /\ Shortened(piece) \in PieceType
             /\ Shortened(piece).of = piece.of /\ Shortened(piece).for = piece.for
             /\ Speaks(Shortened(piece)) => Speaks(piece)
      BY DEF Shortened, PieceType, Speaks, Wordless
<1>4. /\ DOMAIN pieces = DOMAIN ImagesOf[r]
      /\ \A i \in DOMAIN ImagesOf[r] : pieces[i] = Shortened(req[r].pieces[i])
      OBVIOUS
<1>5. pieces \in Seq(PieceType)
      BY <1>1, <1>2, <1>3, PartsAreTyped
<1>6. req' = [req EXCEPT ![r] = [req[r] EXCEPT !.pieces = pieces, !.due = due, !.at = "files"]]
  <2>1. [req[r] EXCEPT !.pieces = pieces, !.due = due, !.at = "files"]
            = [req[r] EXCEPT !.pieces = pieces, !.at = "files"]
        BY <1>2 DEF ReqType
  <2> QED BY <2>1 DEF UseCache
<1>7. UNCHANGED <<described, misread>>
      BY DEF UseCache
<1> HIDE DEF pieces, due
<1>8. ASSUME ~misread', NEW i \in DOMAIN pieces, Speaks(pieces[i])
      PROVE  pieces[i].of = ImagesOf[r][i] /\ pieces[i].for = PromptOf[r]
  <2>1. req[r].pieces[i] \in PieceType /\ pieces[i] = Shortened(req[r].pieces[i])
           /\ i \in DOMAIN req[r].pieces
        BY <1>1, <1>4, <1>8, PartsAreTyped
  <2>2. LocalsMatch(req[r], r)
        BY <1>1, <1>7, <1>8, PartsAreTyped
  <2>3. /\ pieces[i].of = req[r].pieces[i].of /\ pieces[i].for = req[r].pieces[i].for
        /\ Speaks(req[r].pieces[i])
        BY <1>3, <1>8, <2>1
  <2> QED BY <1>1, <2>1, <2>2, <2>3 DEF LocalsMatch
<1>9. "files" \in Composing
      BY DEF Composing
<1> QED BY <1>1, <1>2, <1>5, <1>6, <1>7, <1>8, <1>9, CacheStays, PartsMove

\* A request that goes on with the parts it has.
LEMMA PartsStay ==
    ASSUME IInv, IInv', MInv, NEW r \in Requests, req[r].at \in {"saving", "files"},
           NEW at \in {"saving", "files", "ready"}, NEW due \in SUBSET Nat,
           req' = [req EXCEPT ![r] = [req[r] EXCEPT !.due = due, !.at = at]],
           described' \in [Keys -> PieceType], Grows,
           ~misread' => CacheMatches'
    PROVE  MInv'
<1> DEFINE v == [req[r] EXCEPT !.due = due, !.at = at]
<1>1. req[r] \in ReqType /\ req[r].at \in Composing
      BY LocalsAreTyped DEF Composing
<1>2. v \in ReqType /\ v.pieces = req[r].pieces /\ v.at = at
      BY <1>1 DEF ReqType, Composing
<1>3. req' = [req EXCEPT ![r] = v]
      OBVIOUS
<1> HIDE DEF v
<1>4. ASSUME ~misread' PROVE CacheMatches' /\ LocalsMatch(v, r)
  <2>1. LocalsMatch(req[r], r)
        BY <1>1, <1>4, PartsAreTyped DEF Grows
  <2> QED BY <1>1, <1>2, <1>4, <2>1 DEF LocalsMatch
<1>5. CacheInv'
      BY DEF IInv
<1> QED BY <1>2, <1>3, <1>4, <1>5, MatchesAfter

LEMMA MatchSave ==
    ASSUME IInv, IInv', MInv, NEW r \in Requests, NEW i \in DOMAIN ImagesOf[r],
           Save(r, i) \/ SaveFails(r, i)
    PROVE  MInv'
<1> DEFINE due == req[r].due \ {i}
<1>1. req[r].at = "saving" /\ req[r].at \in Composing
      BY DEF Save, SaveFails, At, Composing
<1>2. req[r] \in ReqType /\ due \in SUBSET Nat
      BY LocalsAreTyped
<1>3. req' = [req EXCEPT ![r] = [req[r] EXCEPT !.due = due, !.at = "saving"]]
  <2>1. [req[r] EXCEPT !.due = due, !.at = "saving"] = [req[r] EXCEPT !.due = due]
        BY <1>1, <1>2 DEF ReqType
  <2> QED BY <2>1 DEF Save, SaveFails
<1>4. misread' = misread /\ Grows
      BY DEF Save, SaveFails, Grows, MInv, TypeOK
<1>5. described' \in [Keys -> PieceType] /\ (~misread' => CacheMatches')
  <2>1. CASE SaveFails(r, i)
    <3>1. UNCHANGED <<described, misread>>
          BY <2>1 DEF SaveFails
    <3> QED BY <3>1, CacheStays
  <2>2. CASE Save(r, i)
    <3> DEFINE k == ImageKey(r, i)
               piece == req[r].pieces[i]
    <3>1. described \in [Keys -> PieceType] /\ k \in Keys /\ piece \in PieceType
             /\ k[1] = ImagesOf[r][i] /\ k[2] = PromptOf[r] /\ i \in DOMAIN req[r].pieces
          BY <1>1, PartsAreTyped DEF MInv, TypeOK
    <3>2. described' = [described EXCEPT ![k] = IF @ = Missing THEN piece ELSE @]
          BY <2>2 DEF Save
    <3>3. ~misread => MadeFrom(piece, k[1], k[2])
          BY <1>1, <3>1, PartsAreTyped DEF LocalsMatch, MadeFrom
    <3>4. ~misread => CacheMatches
          BY <1>1, PartsAreTyped
    <3> HIDE DEF k, piece
    <3>5. /\ described' \in [Keys -> PieceType]
          /\ \A q \in Keys : described'[q] = described[q] \/ (q = k /\ described'[q] = piece)
          BY <3>1, <3>2
    <3>6. ASSUME ~misread' PROVE CacheMatches'
      <4>1. \A q \in Keys : MadeFrom(described'[q], q[1], q[2])
            BY <1>4, <3>3, <3>4, <3>5, <3>6 DEF CacheMatches
      <4> QED BY <4>1 DEF CacheMatches, MadeFrom
    <3> QED BY <3>5, <3>6
  <2> QED BY <2>1, <2>2
<1> HIDE DEF due
<1> QED BY <1>1, <1>2, <1>3, <1>4, <1>5, PartsStay

LEMMA MatchSaved ==
    ASSUME IInv, IInv', MInv, NEW r \in Requests, Saved(r) \/ FilesDone(r)
    PROVE  MInv'
<1> DEFINE due == req[r].due
<1>1. req[r].at \in {"saving", "files"}
      BY DEF Saved, FilesDone, At
<1>2. req[r] \in ReqType /\ due \in SUBSET Nat
      BY LocalsAreTyped
<1>3. PICK at \in {"files", "ready"} : req' = [req EXCEPT ![r].at = at]
      BY DEF Saved, FilesDone
<1>4. req' = [req EXCEPT ![r] = [req[r] EXCEPT !.due = due, !.at = at]]
  <2>1. [req[r] EXCEPT !.due = due, !.at = at] = [req[r] EXCEPT !.at = at]
        BY <1>2 DEF ReqType
  <2> QED BY <1>3, <2>1
<1>5. UNCHANGED <<described, misread>>
      BY DEF Saved, FilesDone
<1> HIDE DEF due
<1> QED BY <1>1, <1>2, <1>3, <1>4, <1>5, CacheStays, PartsStay

LEMMA MatchDescribe ==
    ASSUME IInv, IInv', MInv, NEW r \in Requests, Describe(r)
    PROVE  MInv'
<1> DEFINE images == ImagesOf[r]
           p == PromptOf[r]
           batches == Batches(images)
           nb == Len(batches)
<1>1. /\ req[r].at = "lookup" /\ req[r].at \in Composing
      /\ images \in Seq(Images) /\ p \in Prompts /\ req[r] \in ReqType
      BY LocalsAreTyped DEF Describe, LookedUp, At, Composing
<1>2. images # <<>>
  <2>1. PICK i \in DOMAIN images : TRUE
        BY DEF Describe, AllHit
  <2> QED BY <2>1
<1>3. PICK stride \in Nat \ {0} : PartsOf(batches, images, stride)
      BY <1>1, <1>2, BatchesPartition
<1>4. DOMAIN batches = 1..nb /\ nb \in Nat \ {0}
         /\ \A b \in 1..nb : batches[b] \in Seq(Images)
      BY <1>3 DEF PartsOf
<1>5. PICK lists \in [DOMAIN batches -> UNION {BatchResults(batches[b], p) : b \in DOMAIN batches}] :
          /\ \A b \in DOMAIN batches : lists[b] \in BatchResults(batches[b], p)
          /\ LET pieces == Padded(Concatenated(lists), Len(images), p)
             IN req' = [req EXCEPT ![r].pieces = pieces,
                           ![r].due = {i \in DOMAIN pieces : pieces[i].kind # "blank"},
                           ![r].at = "saving"]
          /\ misread' = (misread \/ Misreads(lists, batches))
      BY DEF Describe
<1> DEFINE list == Concatenated(lists)
           pieces == Padded(list, Len(images), p)
           due == {i \in DOMAIN pieces : pieces[i].kind # "blank"}
<1>6. req' = [req EXCEPT ![r] = [req[r] EXCEPT !.pieces = pieces, !.due = due, !.at = "saving"]]
      BY <1>5
<1>7. /\ Grows
      /\ ~misread' => /\ ~misread
                      /\ \A b \in 1..nb : Follows(lists[b], batches[b])
                      /\ \A b \in 1..(nb - 1) : Len(lists[b]) = Len(batches[b])
  <2>1. Misreads(lists, batches) \in BOOLEAN
        BY DEF Misreads
  <2>2. Grows /\ (~misread' => ~misread /\ ~Misreads(lists, batches))
        BY <1>5, <2>1 DEF Grows, MInv, TypeOK
  <2>3. \A b \in 1..(nb - 1) : b \in 1..nb /\ b < nb
        BY <1>4
  <2>4. ~Misreads(lists, batches) => /\ \A b \in 1..nb : Follows(lists[b], batches[b])
                                     /\ \A b \in 1..(nb - 1) : Len(lists[b]) = Len(batches[b])
        BY <1>4, <2>3 DEF Misreads
  <2> QED BY <2>2, <2>4
<1> HIDE DEF images, p, batches, nb
<1>8. \A b \in 1..nb : lists[b] \in Seq(PieceType)
      BY <1>1, <1>4, <1>5, AnswerOfOneCall
<1>9. DOMAIN lists = 1..nb
      BY <1>4, <1>5
<1>10. lists = [b \in 1..nb |-> lists[b]]
       BY <1>4, <1>5
<1>11. lists \in Seq(Seq(PieceType)) /\ lists \in [1..nb -> Seq(PieceType)]
  <2>1. lists \in Seq(Seq(PieceType))
        BY <1>4, <1>8, <1>10, ListOfAll
  <2> QED BY <1>8, <1>10, <2>1
<1> HIDE DEF list, pieces, due
<1>12. list \in Seq(PieceType)
       BY <1>11, ConcatenatedType DEF list
<1>13. ASSUME ~misread' PROVE InOrder(list, images, p)
  <2>1. \A b \in 1..nb : Follows(lists[b], batches[b]) => InOrder(lists[b], batches[b], p)
        BY <1>1, <1>4, <1>5, AnswerOfOneCall
  <2>2. \A b \in 1..nb : InOrder(lists[b], batches[b], p)
        BY <1>7, <1>13, <2>1
  <2> QED BY <1>1, <1>3, <1>7, <1>11, <1>13, <2>2, JoinInOrder DEF list, nb
<1>14. Len(images) \in Nat
       BY <1>1
<1>15. pieces \in Seq(PieceType) /\ DOMAIN pieces = 1..Len(images)
       BY <1>1, <1>12, <1>14, PaddedInOrder, PaddedDomain DEF pieces
<1>16. due \in SUBSET Nat
       BY <1>14, <1>15 DEF due
<1>17. ASSUME ~misread', NEW i \in DOMAIN pieces, Speaks(pieces[i])
       PROVE  pieces[i].of = ImagesOf[r][i] /\ pieces[i].for = PromptOf[r]
  <2>1. InOrder(list, images, p)
        BY <1>13, <1>17
  <2>2. pieces = Padded(list, Len(images), p)
        BY DEF pieces
  <2>3. \A k \in 1..Len(images) :
            Speaks(pieces[k]) => pieces[k].of = images[k] /\ pieces[k].for = p
        BY <1>1, <1>12, <1>14, <2>1, <2>2, PaddedInOrder
  <2>4. pieces[i].of = images[i] /\ pieces[i].for = p
        BY <1>15, <1>17, <2>3
  <2> QED BY <2>4 DEF images, p
<1>18. described' = described
       BY DEF Describe
<1>19. described' \in [Keys -> PieceType] /\ (~misread' => CacheMatches')
  <2>1. ~misread' => CacheMatches
        BY <1>1, <1>7, PartsAreTyped
  <2> QED BY <1>18, <2>1 DEF CacheMatches, MInv, TypeOK
<1>20. "saving" \in Composing
       BY DEF Composing
<1> QED BY <1>1, <1>6, <1>7, <1>15, <1>16, <1>17, <1>19, <1>20, PartsMove

\* A step of one file leaves the parts as they are.
LEMMA MatchFiles ==
    ASSUME IInv, IInv', MInv, NEW r \in Requests, NEW i \in DOMAIN FilesOf[r],
           LookupFile(r, i) \/ Extract(r, i) \/ SaveFile(r, i)
    PROVE  MInv'
<1>1. /\ req[r].at = "files" /\ req[r].at \in Composing /\ FilesOf[r][i] \in Files
      /\ req[r] \in ReqType
      BY ContentDelegationAssumption, LocalsAreTyped
         DEF LookupFile, Extract, SaveFile, FileStep, MayTake, At, Composing
<1>2. /\ req[r].files \in Seq(FileType) /\ i \in DOMAIN req[r].files
      /\ ~misread => LocalsMatch(req[r], r)
      BY <1>1, PartsAreTyped
<1>3. PICK file \in FileType : req' = [req EXCEPT ![r].files[i] = file]
  <2>1. CASE LookupFile(r, i)
    <3>1. \A text \in Texts : Step("done", Repeated(text)) \in FileType
          BY DEF Step, Repeated, FileType
    <3>2. Step("extract", "none") \in FileType
          BY DEF Step, FileType
    <3>3. extracted[FilesOf[r][i]] # "missing" => extracted[FilesOf[r][i]] \in Texts
          BY <1>1 DEF IInv, CacheInv
    <3> QED BY <2>1, <3>1, <3>2, <3>3 DEF LookupFile, Put
  <2>2. CASE Extract(r, i)
    <3>1. PICK text \in Outcomes[FilesOf[r][i]] :
              Put(r, i, IF text = "blank" THEN "done" ELSE "saving", text)
          BY <2>2 DEF Extract
    <3>2. text \in Texts
          BY <1>1, <3>1, ContentDelegationAssumption
    <3>3. Step(IF text = "blank" THEN "done" ELSE "saving", text) \in FileType
          BY <3>2 DEF Step, FileType
    <3> QED BY <3>1, <3>3 DEF Put
  <2>3. CASE SaveFile(r, i)
    <3>1. req[r].files[i] \in FileType
          BY <1>2
    <3>2. Step("done", req[r].files[i].text) \in FileType
          BY <3>1 DEF Step, FileType
    <3> QED BY <2>3, <3>2 DEF SaveFile, Put
  <2> QED BY <2>1, <2>2, <2>3
<1> DEFINE files == [req[r].files EXCEPT ![i] = file]
           v == [req[r] EXCEPT !.files = files]
<1>4. files \in Seq(FileType)
      BY <1>2
<1>5. req' = [req EXCEPT ![r] = v]
      BY <1>3
<1> HIDE DEF files
<1>6. v \in ReqType /\ v.pieces = req[r].pieces /\ v.at = "files"
      BY <1>1, <1>4 DEF ReqType, FileType
<1> HIDE DEF v
<1>7. UNCHANGED <<described, misread>>
      BY DEF LookupFile, Extract, SaveFile
<1>8. described' \in [Keys -> PieceType] /\ Grows /\ (~misread' => CacheMatches')
      BY <1>7, CacheStays
<1>9. ~misread' => CacheMatches' /\ LocalsMatch(v, r)
      BY <1>1, <1>2, <1>6, <1>8 DEF LocalsMatch, Grows
<1>10. CacheInv'
       BY DEF IInv
<1> QED BY <1>5, <1>6, <1>8, <1>9, <1>10, MatchesAfter

\* Each image has a first occurrence.
LEMMA FirstOccurrence ==
    ASSUME NEW images \in Seq(Images), NEW i \in DOMAIN images
    PROVE  SameImage(images, i) \in FirstOnes(images)
           /\ images[SameImage(images, i)] = images[i]
<1> DEFINE Same == {j \in DOMAIN images : images[j] = images[i]}
<1>1. Same \subseteq Nat /\ Same # {}
      OBVIOUS
<1> HIDE DEF Same
<1>2. PICK j \in Same : \A k \in Same : ~(k < j)
      BY <1>1, LeastNumber
<1>3. j \in DOMAIN images /\ images[j] = images[i]
      BY <1>2 DEF Same
<1>4. \A k \in 1..(j - 1) : images[k] # images[j]
  <2> SUFFICES ASSUME NEW k \in 1..(j - 1), images[k] = images[j] PROVE FALSE
      OBVIOUS
  <2>1. k \in DOMAIN images /\ k < j
        BY <1>3
  <2>2. k \in Same
        BY <1>3, <2>1 DEF Same
  <2> QED BY <1>2, <2>1, <2>2
<1>5. j \in FirstOnes(images)
      BY <1>3, <1>4 DEF FirstOnes
<1>6. \E k \in FirstOnes(images) : images[k] = images[i]
      BY <1>3, <1>5
<1> HIDE DEF Same
<1> QED BY <1>6 DEF SameImage

LEMMA PartsAreAList ==
    ASSUME MInv, NEW r \in Requests, NEW pieces,
           pieces = [i \in DOMAIN ImagesOf[r] |-> pieces[i]],
           \A i \in DOMAIN ImagesOf[r] : pieces[i] \in PieceType
    PROVE  pieces \in Seq(PieceType) /\ DOMAIN pieces = DOMAIN ImagesOf[r]
<1>1. DOMAIN ImagesOf[r] = 1..Len(ImagesOf[r]) /\ Len(ImagesOf[r]) \in Nat
      BY LocalsAreTyped
<1> QED BY <1>1, ListOfAll

LEMMA RawFilesAreAList ==
    ASSUME MInv, NEW r \in Requests
    PROVE  RawFiles(r) \in Seq(FileType)
<1>1. FilesOf[r] \in Seq(Files)
      BY LocalsAreTyped
<1>2. Step("done", "raw") \in FileType
      BY DEF Step, FileType
<1> QED BY <1>1, <1>2 DEF RawFiles

\* A message composed outside the cache.
LEMMA MatchMedia ==
    ASSUME IInv, IInv', MInv, NEW r \in Requests, NEW pieces,
           LET ps == pieces
           IN req' = [req EXCEPT ![r].pieces = ps, ![r].files = RawFiles(r), ![r].at = "ready"],
           described' = described, Grows,
           pieces = [i \in DOMAIN ImagesOf[r] |-> pieces[i]],
           \A i \in DOMAIN ImagesOf[r] :
              /\ pieces[i] \in PieceType
              /\ ~misread' => pieces[i].of = ImagesOf[r][i]
              /\ pieces[i].for \in {PromptOf[r], Nothing}
    PROVE  MInv'
<1> DEFINE files == RawFiles(r)
           v == [req[r] EXCEPT !.pieces = pieces, !.files = files, !.at = "ready"]
<1>1. req[r] \in ReqType
      BY LocalsAreTyped
<1>2. pieces \in Seq(PieceType) /\ DOMAIN pieces = DOMAIN ImagesOf[r]
      BY PartsAreAList
<1>3. files \in Seq(FileType)
      BY RawFilesAreAList
<1>4. req' = [req EXCEPT ![r] = v]
      OBVIOUS
<1> HIDE DEF files
<1>5. v \in ReqType /\ v.pieces = pieces /\ v.at = "ready"
      BY <1>1, <1>2, <1>3 DEF ReqType, FileType
<1> HIDE DEF v
<1>6. ~misread' => LocalsMatch(v, r)
      BY <1>2, <1>5 DEF LocalsMatch
<1>7. described' \in [Keys -> PieceType] /\ Grows /\ (~misread' => CacheMatches')
      BY DEF MInv, TypeOK, CacheMatches, Grows
<1>8. ~misread' => CacheMatches' /\ LocalsMatch(v, r)
      BY <1>6, <1>7
<1>9. CacheInv'
      BY DEF IInv
<1> QED BY <1>4, <1>5, <1>7, <1>8, <1>9, MatchesAfter

LEMMA MatchOthers ==
    ASSUME IInv, IInv', MInv, NEW r \in Requests, LeaveAlone(r) \/ AutoDescribe(r)
    PROVE  MInv'
<1> DEFINE images == ImagesOf[r]
           p == PromptOf[r]
<1>1. images \in Seq(Images) /\ p \in Prompts
         /\ \A i \in DOMAIN images : images[i] \in Images
      BY LocalsAreTyped
<1>2. described' = described
      BY DEF LeaveAlone, AutoDescribe
<1>3. ASSUME NEW kind \in {"raw", "error", "text"}, NEW h \in Images,
             NEW q \in {p, Nothing}
      PROVE  /\ Piece(kind, h, q) \in PieceType
             /\ Piece(kind, h, q).of = h /\ Piece(kind, h, q).for = q
      BY <1>1 DEF Piece, PieceType
<1>4. CASE LeaveAlone(r)
  <2> DEFINE pieces == Raw(r)
  <2>1. pieces = [i \in DOMAIN ImagesOf[r] |-> pieces[i]]
           /\ \A i \in DOMAIN ImagesOf[r] : pieces[i] = Piece("raw", images[i], Nothing)
        BY DEF Raw
  <2>2. req' = [req EXCEPT ![r].pieces = pieces, ![r].files = RawFiles(r), ![r].at = "ready"]
        BY <1>4 DEF LeaveAlone
  <2> HIDE DEF pieces
  <2>3. ASSUME NEW i \in DOMAIN ImagesOf[r]
        PROVE  /\ pieces[i] \in PieceType /\ pieces[i].of = ImagesOf[r][i]
               /\ pieces[i].for \in {PromptOf[r], Nothing}
    <3>1. images[i] \in Images /\ pieces[i] = Piece("raw", images[i], Nothing)
          BY <1>1, <2>1
    <3> QED BY <1>3, <3>1
  <2>4. Grows
        BY <1>4 DEF LeaveAlone, Grows, MInv, TypeOK
  <2> QED BY <1>2, <2>1, <2>2, <2>3, <2>4, MatchMedia
<1>5. CASE AutoDescribe(r)
  <2> DEFINE firsts == FirstOnes(images)
  <2>1. PICK told \in [firsts -> UNION {Outside(images, i, p) : i \in firsts}] :
           /\ \A i \in firsts : told[i] \in Outside(images, i, p)
           /\ req' = [req EXCEPT
                  ![r].pieces = [i \in DOMAIN images |-> told[SameImage(images, i)]],
                  ![r].files = RawFiles(r),
                  ![r].at = "ready"]
           /\ misread' = (misread \/ \E i \in firsts : told[i].of # images[i])
        BY <1>5 DEF AutoDescribe
  <2> DEFINE pieces == [i \in DOMAIN images |-> told[SameImage(images, i)]]
  <2>2. req' = [req EXCEPT ![r].pieces = pieces, ![r].files = RawFiles(r), ![r].at = "ready"]
        BY <2>1
  <2>3. Grows /\ (~misread' => \A i \in firsts : told[i].of = images[i])
        BY <2>1 DEF Grows, MInv, TypeOK
  <2>4. ASSUME NEW j \in firsts
        PROVE  told[j] \in PieceType /\ told[j].for \in {p, Nothing}
    <3>1. images[j] \in Images /\ told[j] \in Outside(images, j, p)
          BY <1>1, <2>1 DEF FirstOnes
    <3>2. CASE \E kind \in {"raw", "error", "text"} : told[j] = Piece(kind, images[j], Nothing)
          BY <1>3, <3>1, <3>2
    <3>3. CASE \E h \in Images \union {Nothing} : told[j] = Piece("text", h, p)
          BY <1>1, <3>3 DEF Piece, PieceType
    <3>4. \A i \in DOMAIN images : images[i] \in Images
          BY <1>1
    <3> QED BY <3>1, <3>2, <3>3, <3>4 DEF Outside, Said
  <2>5. pieces = [i \in DOMAIN ImagesOf[r] |-> pieces[i]]
           /\ \A i \in DOMAIN ImagesOf[r] : pieces[i] = told[SameImage(images, i)]
        OBVIOUS
  <2> HIDE DEF pieces, firsts
  <2>6. ASSUME NEW i \in DOMAIN ImagesOf[r]
        PROVE  /\ pieces[i] \in PieceType
               /\ ~misread' => pieces[i].of = ImagesOf[r][i]
               /\ pieces[i].for \in {PromptOf[r], Nothing}
    <3>1. SameImage(images, i) \in firsts /\ images[SameImage(images, i)] = images[i]
          BY <1>1, FirstOccurrence DEF firsts
    <3>2. pieces[i] = told[SameImage(images, i)]
          BY <2>5
    <3> QED BY <2>3, <2>4, <3>1, <3>2
  <2> QED BY <1>2, <2>2, <2>3, <2>5, <2>6, MatchMedia
<1> QED BY <1>4, <1>5

LEMMA MatchEnd ==
    ASSUME IInv, IInv', MInv, NEW r \in Requests, Refuse(r) \/ CallChain(r) \/ Dies(r)
    PROVE  MInv'
<1>1. PICK outcome \in Over : End(r, outcome)
      BY DEF Refuse, CallChain, Dies, Over
<1>2. req[r] \in ReqType /\ req[r].files \in Seq(FileType)
      BY LocalsAreTyped DEF ReqType, FileType
<1> DEFINE files == IF outcome = "answered" THEN req[r].files ELSE <<>>
           v == [Arrived EXCEPT !.at = outcome, !.files = files]
<1>3. files \in Seq(FileType)
      BY <1>2
<1>4. req' = [req EXCEPT ![r] = v]
      BY <1>1 DEF End
<1>5. Arrived \in ReqType
      BY DEF Arrived, ReqType
<1> HIDE DEF files
<1>6. v \in ReqType /\ v.at = outcome
      BY <1>3, <1>5 DEF ReqType, FileType
<1> HIDE DEF v
<1>7. LocalsMatch(v, r)
      BY <1>6 DEF LocalsMatch, Composing, Over
<1>8. UNCHANGED <<described, misread>>
      BY DEF Refuse, CallChain, Dies
<1>9. described' \in [Keys -> PieceType] /\ Grows /\ (~misread' => CacheMatches')
      BY <1>8, CacheStays
<1>10. ~misread' => CacheMatches' /\ LocalsMatch(v, r)
       BY <1>7, <1>9
<1>11. CacheInv'
       BY DEF IInv
<1> QED BY <1>4, <1>6, <1>9, <1>10, <1>11, MatchesAfter

LEMMA MatchLapse ==
    ASSUME IInv', MInv, Lapse
    PROVE  MInv'
<1>1. req' = req /\ misread' = misread
      BY DEF Lapse
<1>2. Missing \in PieceType /\ ~Speaks(Missing)
      BY DEF Missing, Piece, PieceType, Speaks, Wordless
<1>3. /\ described' \in [Keys -> PieceType]
      /\ \A q \in Keys : described'[q] = described[q] \/ described'[q] = Missing
      BY <1>2 DEF Lapse, MInv, TypeOK
<1>4. TypeOK'
      BY <1>1, <1>3 DEF MInv, TypeOK, IInv, CacheInv
<1>5. ASSUME ~misread, CacheMatches PROVE CacheMatches'
  <2>1. \A q \in Keys : MadeFrom(described'[q], q[1], q[2])
        BY <1>2, <1>3, <1>5 DEF CacheMatches, MadeFrom
  <2> QED BY <2>1 DEF CacheMatches, MadeFrom
<1> QED BY <1>1, <1>4, <1>5 DEF MInv, LocalsMatch

-----------------------------------------------------------------------------

LEMMA MInvInit == Init => MInv
<1> SUFFICES ASSUME Init PROVE MInv
    OBVIOUS
<1>1. Missing \in PieceType /\ ~Speaks(Missing)
      BY DEF Missing, Piece, PieceType, Speaks, Wordless
<1>2. Arrived \in ReqType /\ Arrived.at \notin Composing
      BY DEF Arrived, ReqType, Composing
<1>3. TypeOK
      BY <1>1, <1>2 DEF Init, TypeOK
<1>4. CacheMatches
      BY <1>1 DEF Init, CacheMatches, MadeFrom
<1>5. \A r \in Requests : req[r].at \notin Composing
      BY <1>2 DEF Init
<1> QED BY <1>3, <1>4, <1>5 DEF MInv, LocalsMatch

LEMMA MInvStep == IInv /\ MInv /\ [Next]_vars => MInv'
<1> SUFFICES ASSUME IInv, MInv, [Next]_vars PROVE MInv'
    OBVIOUS
<1>1. IInv'
      BY IInvStep
<1>2. ASSUME NEW r \in Requests, Proceed(r) \/ Dies(r) PROVE MInv'
  <2>1. CASE Begin(r)
        BY <1>1, <2>1, MatchBegin
  <2>2. CASE UseCache(r) \/ Describe(r)
        BY <1>1, <2>2, MatchUseCache, MatchDescribe
  <2>3. ASSUME NEW i \in DOMAIN ImagesOf[r], Lookup(r, i) \/ Save(r, i) \/ SaveFails(r, i)
        PROVE  MInv'
        BY <1>1, <2>3, MatchLookup, MatchSave
  <2>4. ASSUME NEW i \in DOMAIN FilesOf[r],
               LookupFile(r, i) \/ Extract(r, i) \/ SaveFile(r, i)
        PROVE  MInv'
        BY <1>1, <2>4, MatchFiles
  <2>5. CASE Saved(r) \/ FilesDone(r)
        BY <1>1, <2>5, MatchSaved
  <2>6. CASE LeaveAlone(r) \/ AutoDescribe(r)
        BY <1>1, <2>6, MatchOthers
  <2>7. CASE Refuse(r) \/ CallChain(r) \/ Dies(r)
        BY <1>1, <2>7, MatchEnd
  <2> QED BY <1>2, <2>1, <2>2, <2>3, <2>4, <2>5, <2>6, <2>7 DEF Proceed
<1>3. CASE Lapse
      BY <1>1, <1>3, MatchLapse
<1>4. CASE UNCHANGED vars
      BY <1>4 DEF vars, MInv, TypeOK, CacheMatches, LocalsMatch
<1> QED BY <1>2, <1>3, <1>4 DEF Next

\* The cache, the locals of the requests and the history have their types.
THEOREM DelegationTypeCorrect == Spec => []TypeOK
<1>1. MInv => TypeOK
      BY DEF MInv
<1> QED BY <1>1, IInvInit, IInvStep, MInvInit, MInvStep, PTL DEF Spec

\* What stands for an image, in a message or in the cache, was made from that
\* image and for no other prompt, however many requests look up, describe and
\* store at once, however their images are divided among calls and whichever of
\* these fail, as long as the texts of each answer stand where their images are.
THEOREM DescriptionsAreTheirImages == Spec => []DescriptionsMatch
<1>1. MInv => DescriptionsMatch
  <2> SUFFICES ASSUME MInv, ~misread
               PROVE  /\ \A k \in Keys : described[k].kind \notin Wordless =>
                             described[k].of = k[1] /\ described[k].for = k[2]
                      /\ \A r \in Requests : Composed(r) =>
                             \A i \in DOMAIN req[r].pieces :
                                 req[r].pieces[i].kind \notin Wordless =>
                                     /\ req[r].pieces[i].of = ImagesOf[r][i]
                                     /\ req[r].pieces[i].for \in {PromptOf[r], Nothing}
      BY DEF DescriptionsMatch
  <2>1. CacheMatches /\ \A r \in Requests : LocalsMatch(req[r], r)
        BY DEF MInv
  <2>2. ASSUME NEW k \in Keys, described[k].kind \notin Wordless
        PROVE  described[k].of = k[1] /\ described[k].for = k[2]
        BY <2>1, <2>2 DEF CacheMatches, MadeFrom, Speaks
  <2>3. ASSUME NEW r \in Requests, Composed(r), NEW i \in DOMAIN req[r].pieces,
               req[r].pieces[i].kind \notin Wordless
        PROVE  /\ req[r].pieces[i].of = ImagesOf[r][i]
               /\ req[r].pieces[i].for \in {PromptOf[r], Nothing}
        BY <2>1, <2>3 DEF LocalsMatch, Speaks, Composed, At, Composing
  <2> QED BY <2>2, <2>3
<1> QED BY <1>1, IInvInit, IInvStep, MInvInit, MInvStep, PTL DEF Spec

=============================================================================
