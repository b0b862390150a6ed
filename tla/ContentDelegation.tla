-------------------------- MODULE ContentDelegation --------------------------
(***************************************************************************)
(* tool_detector.py: the images, audios and files of a message are         *)
(* replaced by texts when the selected model cannot take them.  The texts  *)
(* are kept in Valkey, where the overlapping and the repeated requests of  *)
(* one conversation find them again; a long text is sent in full once and  *)
(* then stands behind a short note.  Every Valkey command and every call   *)
(* of a model is an await.  Images that the selected model can take are    *)
(* described all the same when the request asks for another pseudo-model   *)
(* than the conversation belongs to (image_describer.py).                  *)
(***************************************************************************)
EXTENDS Naturals, Sequences, FiniteSets

CONSTANTS
    Requests,       \* requests of one conversation, repeated ones included
    Images,         \* contents of images, by their hashes
    Files,          \* contents of audios and files, by their hashes
    Audio,          \* those of them that are audios
    Prompts,        \* texts beside the images, by their hashes
    ImagesOf,       \* ImagesOf[r]: the images of the message
    FilesOf,        \* FilesOf[r]: its audios and files
    PromptOf,       \* PromptOf[r]: its text
    Outcomes,       \* Outcomes[f]: what the extraction of f may give
    LongImages,     \* images whose descriptions pass 5000 characters
    Size,           \* Size[h]: tokens of an image, degraded
    Room,           \* what can_batch_fit allows for images
    BatchSize,      \* _MAX_IMAGES_PER_BATCH
    Extra,          \* how many texts too many an answer may hold
    MaxFull         \* MaxFull[r]: the long texts the threshold lets through

Nothing == "nothing"
Texts == {"full", "short", "error", "blank"}

ASSUME ContentDelegationAssumption ==
    /\ Audio \subseteq Files
    /\ ImagesOf \in [Requests -> Seq(Images)]
    /\ FilesOf \in [Requests -> Seq(Files)]
    /\ PromptOf \in [Requests -> Prompts]
    /\ Outcomes \in [Files -> (SUBSET Texts) \ {{}}]
    /\ LongImages \subseteq Images
    /\ Size \in [Images -> Nat]
    /\ Room \in Nat
    /\ BatchSize \in Nat \ {0}
    /\ Extra \in Nat
    /\ MaxFull \in [Requests -> Nat]
    /\ Nothing \notin Images \union Prompts

VARIABLES
    described,  \* the keys <conversation>:<image>:desc:<prompt>
    extracted,  \* the keys <conversation>:<file>:desc
    req,        \* the locals of each request
    misread     \* history: a text was read for an image it does not describe

vars == <<described, extracted, req, misread>>

\* What stands for an image: a description, the note that there is one, an
\* error text, "" or the image itself.  of and for: the image and the prompt
\* it was made from, if any.
Piece(kind, h, p) == [kind |-> kind, of |-> h, for |-> p]

Blank(p) == Piece("blank", Nothing, p)

\* at: where the request stands; due: the positions whose GET or SET is out;
\* pieces: what stands for the images; files: for each file how far it has
\* come, then its text.
Arrived == [at |-> "arrived", due |-> {}, pieces |-> <<>>, files |-> <<>>]

At(r, place) == req[r].at = place

Step(step, text) == [step |-> step, text |-> text]

Over == {"refused", "failed", "answered"}

\* Mutant of ImageKey: the prompt is left out of the key.
ImageKeyOnly(r, i) == <<ImagesOf[r][i], CHOOSE p \in Prompts : TRUE>>

ImageKey(r, i) == <<ImagesOf[r][i], PromptOf[r]>>

Keys == Images \X Prompts

Missing == Piece("missing", Nothing, Nothing)

Init ==
    /\ described = [k \in Keys |-> Missing]
    /\ extracted = [f \in Files |-> "missing"]
    /\ req = [r \in Requests |-> Arrived]
    /\ misread = FALSE

-----------------------------------------------------------------------------
(* Descriptions of images                                                  *)

\* After the blobs are stored, which nothing on this path reads again.
Begin(r) ==
    /\ At(r, "arrived")
    /\ req' = [req EXCEPT ![r].at = IF ImagesOf[r] = <<>> THEN "files" ELSE "lookup",
                          ![r].due = DOMAIN ImagesOf[r],
                          ![r].pieces = [i \in DOMAIN ImagesOf[r] |-> Missing],
                          ![r].files = [i \in DOMAIN FilesOf[r] |-> Step("lookup", "none")]]
    /\ UNCHANGED <<described, extracted, misread>>

\* _get_cached for all keys at once; an exception counts as a miss.
Lookup(r, i) ==
    /\ At(r, "lookup")
    /\ i \in req[r].due
    /\ \E found \in {described[ImageKey(r, i)], Missing} :
          req' = [req EXCEPT ![r].pieces[i] = found, ![r].due = @ \ {i}]
    /\ UNCHANGED <<described, extracted, misread>>

LookedUp(r) == At(r, "lookup") /\ req[r].due = {}

AllHit(r) == \A i \in DOMAIN ImagesOf[r] : req[r].pieces[i] # Missing

\* A long description is not sent twice.
Shortened(piece) ==
    IF piece.of \in LongImages /\ piece.kind = "text"
    THEN [piece EXCEPT !.kind = "note"] ELSE piece

UseCache(r) ==
    /\ LookedUp(r)
    /\ AllHit(r)
    /\ req' = [req EXCEPT ![r].pieces = [i \in DOMAIN ImagesOf[r] |-> Shortened(@[i])],
                          ![r].at = "files"]
    /\ UNCHANGED <<described, extracted, misread>>

\* can_batch_fit, estimated by the first image.
Fits(images) == Len(images) * Size[images[1]] <= Room

Least(a, b) == IF a < b THEN a ELSE b

\* The images one call is made for: all of them, or the b-th part.
Batches(images) ==
    IF Fits(images) THEN <<images>>
    ELSE [b \in 1..(Len(images) + BatchSize - 1) \div BatchSize |->
             SubSeq(images, (b - 1) * BatchSize + 1, Least(b * BatchSize, Len(images)))]

\* The texts of one answer: each describes an image of the call or none, or is "".
Said(batch, p) ==
    {Piece("text", h, p) : h \in {batch[i] : i \in DOMAIN batch} \union {Nothing}}
      \union {Blank(p)}

\* Any JSON list is taken as it is: the model may leave an image out anywhere, go
\* on, or change the order.  A failed call gives one "" for each image.
Answers(batch, p) == UNION {[1..n -> Said(batch, p)] : n \in 0..(Len(batch) + Extra)}

\* _describe_single_batch, or the error texts for a part that does not fit.
BatchResults(batch, p) ==
    IF ~Fits(batch)
    THEN {[i \in DOMAIN batch |-> Piece("error", batch[i], p)]}
    ELSE Answers(batch, p)

\* Each text at the position of an image is about that image.
Follows(list, batch) ==
    \A i \in DOMAIN list \intersect DOMAIN batch :
        list[i].kind = "blank" \/ list[i].of = batch[i]

\* Where a text is, joined with the others, is not where its image is.
Misreads(lists, batches) ==
    \E b \in DOMAIN batches :
        \/ ~Follows(lists[b], batches[b])
        \/ b < Len(batches) /\ Len(lists[b]) # Len(batches[b])

Concatenated(lists) ==
    LET upTo[n \in 0..Len(lists)] == IF n = 0 THEN <<>> ELSE upTo[n - 1] \o lists[n]
    IN upTo[Len(lists)]

\* Mutant of Padded: descriptions that are missing at the end stay missing.
Unpadded(list, n, p) == SubSeq(list, 1, Least(n, Len(list)))

\* Filled up with "" to one for each image; zip drops the rest.
Padded(list, n, p) == [i \in 1..n |-> IF i <= Len(list) THEN list[i] ELSE Blank(p)]

\* _describe_image_batch: one miss has every image described again.
Describe(r) ==
    LET images == ImagesOf[r]
        p == PromptOf[r]
        batches == Batches(images)
    IN /\ LookedUp(r)
       /\ ~AllHit(r)
       /\ \E lists \in [DOMAIN batches -> UNION {BatchResults(batches[b], p) : b \in DOMAIN batches}] :
             /\ \A b \in DOMAIN batches : lists[b] \in BatchResults(batches[b], p)
             /\ LET pieces == Padded(Concatenated(lists), Len(images), p)
                IN req' = [req EXCEPT ![r].pieces = pieces,
                              ![r].due = {i \in DOMAIN pieces : pieces[i].kind # "blank"},
                              ![r].at = "saving"]
             /\ misread' = (misread \/ Misreads(lists, batches))
       /\ UNCHANGED <<described, extracted>>

\* _store_desc: SET NX EX, and an exception is swallowed.
Save(r, i) ==
    /\ At(r, "saving")
    /\ i \in req[r].due
    /\ described' = [described EXCEPT ![ImageKey(r, i)] =
                         IF @ = Missing THEN req[r].pieces[i] ELSE @]
    /\ req' = [req EXCEPT ![r].due = @ \ {i}]
    /\ UNCHANGED <<extracted, misread>>

SaveFails(r, i) ==
    /\ At(r, "saving")
    /\ i \in req[r].due
    /\ req' = [req EXCEPT ![r].due = @ \ {i}]
    /\ UNCHANGED <<described, extracted, misread>>

Saved(r) ==
    /\ At(r, "saving")
    /\ req[r].due = {}
    /\ req' = [req EXCEPT ![r].at = "files"]
    /\ UNCHANGED <<described, extracted, misread>>

-----------------------------------------------------------------------------
(* Texts of audios and files                                               *)

\* The audios come first; the audios, and then the files, side by side.
MayTake(r, i) ==
    /\ At(r, "files")
    /\ \A j \in DOMAIN FilesOf[r] :
          FilesOf[r][j] \in Audio /\ FilesOf[r][i] \notin Audio => req[r].files[j].step = "done"

FileStep(r, i, step) == MayTake(r, i) /\ req[r].files[i].step = step

Put(r, i, step, text) == req' = [req EXCEPT ![r].files[i] = Step(step, text)]

\* A long text that was extracted before is not sent again.
Repeated(text) == IF text = "full" THEN "note" ELSE text

\* Mutant of LookupFile: what is found is stored like what is extracted.
LookupFileAndStore(r, i) ==
    /\ FileStep(r, i, "lookup")
    /\ \/ /\ extracted[FilesOf[r][i]] # "missing"
          /\ Put(r, i, "saving", Repeated(extracted[FilesOf[r][i]]))
       \/ Put(r, i, "extract", "none")
    /\ UNCHANGED <<described, extracted, misread>>

\* An exception counts as a miss.
LookupFile(r, i) ==
    /\ FileStep(r, i, "lookup")
    /\ \/ /\ extracted[FilesOf[r][i]] # "missing"
          /\ Put(r, i, "done", Repeated(extracted[FilesOf[r][i]]))
       \/ Put(r, i, "extract", "none")
    /\ UNCHANGED <<described, extracted, misread>>

\* The texts of the extractors that report an error are texts like others.
Extract(r, i) ==
    /\ FileStep(r, i, "extract")
    /\ \E text \in Outcomes[FilesOf[r][i]] :
          Put(r, i, IF text = "blank" THEN "done" ELSE "saving", text)
    /\ UNCHANGED <<described, extracted, misread>>

\* SET NX EX; an exception is swallowed.
SaveFile(r, i) ==
    /\ FileStep(r, i, "saving")
    /\ Put(r, i, "done", req[r].files[i].text)
    /\ extracted' \in {extracted,
                       [extracted EXCEPT ![FilesOf[r][i]] =
                           IF @ = "missing" THEN req[r].files[i].text ELSE @]}
    /\ UNCHANGED <<described, misread>>

-----------------------------------------------------------------------------
(* The other ways of a message                                             *)

Raw(r) == [i \in DOMAIN ImagesOf[r] |-> Piece("raw", ImagesOf[r][i], Nothing)]

RawFiles(r) == [i \in DOMAIN FilesOf[r] |-> Step("done", "raw")]

\* The selected model takes the media.
LeaveAlone(r) ==
    /\ At(r, "arrived")
    /\ req' = [req EXCEPT ![r].pieces = Raw(r), ![r].files = RawFiles(r), ![r].at = "ready"]
    /\ UNCHANGED <<described, extracted, misread>>

\* The positions of each image's first occurrence, in their order.
FirstOnes(images) == {i \in DOMAIN images : \A j \in 1..(i - 1) : images[j] # images[i]}

SameImage(images, i) == CHOOSE j \in FirstOnes(images) : images[j] = images[i]

\* What stands for image i: the text at its place in the list of the call for
\* all, or that of a call without the prompt if it got none.  That may fail,
\* which gives an error text, or give "", which leaves the image.
Outside(images, i, p) ==
    (Said(images, p) \ {Blank(p)})
      \union {Piece(kind, images[i], Nothing) : kind \in {"text", "error", "raw"}}

\* auto_describe_images without a cache, for the distinct images.
AutoDescribe(r) ==
    LET images == ImagesOf[r]
        p == PromptOf[r]
        firsts == FirstOnes(images)
    IN /\ At(r, "arrived")
       /\ \E told \in [firsts -> UNION {Outside(images, i, p) : i \in firsts}] :
             /\ \A i \in firsts : told[i] \in Outside(images, i, p)
             /\ req' = [req EXCEPT
                    ![r].pieces = [i \in DOMAIN images |-> told[SameImage(images, i)]],
                    ![r].files = RawFiles(r),
                    ![r].at = "ready"]
             /\ misread' = (misread \/ \E i \in firsts : told[i].of # images[i])
       /\ UNCHANGED <<described, extracted>>

-----------------------------------------------------------------------------
(* The rest of the request                                                 *)

FilesDone(r) ==
    /\ At(r, "files")
    /\ \A i \in DOMAIN FilesOf[r] : req[r].files[i].step = "done"
    /\ req' = [req EXCEPT ![r].at = "ready"]
    /\ UNCHANGED <<described, extracted, misread>>

InFull(r) == {i \in DOMAIN req[r].files : req[r].files[i].text = "full"}

\* A request that is over; of the locals, what it was told of files is kept.
End(r, outcome) ==
    req' = [req EXCEPT ![r] = [Arrived EXCEPT !.at = outcome,
                                  !.files = IF outcome = "answered" THEN req[r].files ELSE <<>>]]

\* The estimate is made after the texts are in place.
Refuse(r) ==
    /\ At(r, "ready")
    /\ Cardinality(InFull(r)) > MaxFull[r]
    /\ End(r, "refused")
    /\ UNCHANGED <<described, extracted, misread>>

CallChain(r) ==
    /\ At(r, "ready")
    /\ Cardinality(InFull(r)) <= MaxFull[r]
    /\ \E outcome \in {"answered", "failed"} : End(r, outcome)
    /\ UNCHANGED <<described, extracted, misread>>

\* The process ends; Valkey keeps what it has.
Dies(r) ==
    /\ req[r].at \notin Over
    /\ End(r, "failed")
    /\ UNCHANGED <<described, extracted, misread>>

\* The TTL of a key ran out.
Lapse ==
    /\ \/ /\ \E k \in Keys : /\ described[k] # Missing
                            /\ described' = [described EXCEPT ![k] = Missing]
          /\ UNCHANGED extracted
       \/ /\ \E f \in Files : /\ extracted[f] # "missing"
                             /\ extracted' = [extracted EXCEPT ![f] = "missing"]
          /\ UNCHANGED described
    /\ UNCHANGED <<req, misread>>

-----------------------------------------------------------------------------

Proceed(r) ==
    \/ Begin(r)
    \/ UseCache(r)
    \/ Describe(r)
    \/ \E i \in DOMAIN ImagesOf[r] : Lookup(r, i) \/ Save(r, i) \/ SaveFails(r, i)
    \/ Saved(r)
    \/ \E i \in DOMAIN FilesOf[r] : LookupFile(r, i) \/ Extract(r, i) \/ SaveFile(r, i)
    \/ FilesDone(r)
    \/ LeaveAlone(r)
    \/ AutoDescribe(r)
    \/ Refuse(r)
    \/ CallChain(r)

Next ==
    \/ \E r \in Requests : Proceed(r) \/ Dies(r)
    \/ Lapse

Spec == Init /\ [][Next]_vars

-----------------------------------------------------------------------------

PieceType ==
    [kind : {"missing", "blank", "text", "error", "note", "raw"},
     of : Images \union {Nothing}, for : Prompts \union {Nothing}]

ReqType ==
    [at : {"arrived", "lookup", "saving", "files", "ready"} \union Over,
     due : SUBSET Nat, pieces : Seq(PieceType),
     files : Seq([step : {"lookup", "extract", "saving", "done"},
                  text : Texts \union {"none", "note", "raw"}])]

TypeOK ==
    /\ described \in [Keys -> PieceType]
    /\ extracted \in [Files -> Texts \union {"missing"}]
    /\ req \in [Requests -> ReqType]
    /\ misread \in BOOLEAN

Composed(r) == At(r, "ready")

\* Whatever the vision model returns, a composed message has one part for each
\* of its images, duplicates included, and for each of its files: none
\* vanishes without a word.  (The parts are zipped with the descriptions.)
NothingVanishes ==
    \A r \in Requests : Composed(r) =>
        /\ DOMAIN req[r].pieces = DOMAIN ImagesOf[r]
        /\ DOMAIN req[r].files = DOMAIN FilesOf[r]
        /\ \A i \in DOMAIN FilesOf[r] : req[r].files[i].text # "none"

Wordless == {"missing", "blank"}

\* "Return a JSON array of strings in image order, one full analysis per image",
\* and "the same image asked with a different question gets a different (correct)
\* description": as long as the texts of each answer stand where their images
\* are, what stands for an image in a message or in the cache was made from that
\* image and for no other prompt, though texts are missing at the end, though
\* duplicates and parts have to be put together, whoever made it and in whatever
\* order the requests wrote it.
DescriptionsMatch ==
    ~misread =>
        /\ \A k \in Keys : described[k].kind \notin Wordless =>
               described[k].of = k[1] /\ described[k].for = k[2]
        /\ \A r \in Requests : Composed(r) =>
               \A i \in DOMAIN req[r].pieces : req[r].pieces[i].kind \notin Wordless =>
                   /\ req[r].pieces[i].of = ImagesOf[r][i]
                   /\ req[r].pieces[i].for \in {PromptOf[r], Nothing}

\* "On cache hit (file already extracted in a previous turn), return a short
\* summary instead of re-sending the full extracted text [...] Full text
\* available on first request.": a model is given the note for a file only
\* when an earlier turn was given the text.
NoteAfterText ==
    \A r \in Requests : At(r, "answered") =>
        \A i \in DOMAIN req[r].files : req[r].files[i].text = "note" =>
            \E q \in Requests : At(q, "answered") /\
                \E j \in InFull(q) : FilesOf[q][j] = FilesOf[r][i]

=============================================================================
