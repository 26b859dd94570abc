------------------------------ MODULE Delivery ------------------------------
(***************************************************************************)
(* One delivery run: how the files of a download reach the chat and what   *)
(* the jobs database knows of it (telegram/delivery.py, called from        *)
(* process_download_job after the row was marked delivering).  Four routes *)
(* share the code that sends one file: a single file, the artifacts of a   *)
(* post, an Instagram media plan, and a collection of stories.  A file     *)
(* above the upload limit is split into volumes and a manifest.            *)
(*                                                                         *)
(* Telegram may refuse a call (nothing arrives), answer, or leave the      *)
(* caller without an answer whether or not the files arrived.              *)
(***************************************************************************)
EXTENDS Integers, Sequences, FiniteSetsExt

CONSTANTS
  Plans,       \* what a run may have to deliver
  Volumes,     \* volumes an oversized file is split into
  AlbumLimit,  \* gallery_dl.album_max_items
  GroupLimit   \* TELEGRAM_MEDIA_GROUP_MAX_ITEMS

Routes == {"single", "artifacts", "instagram", "collection"}
Kinds == {"image", "raw_image", "video", "raw_video", "other"} \* raw: not sent inline
Modes == {"inline", "document"}
Items == [kind: Kinds, large: BOOLEAN]

ASSUME PlansAssumption ==
  /\ Plans \subseteq [route: Routes, mode: Modes, multipart: BOOLEAN, items: Seq(Items)]
  /\ \A p \in Plans : /\ p.items # <<>>
                      /\ p.route = "single" => Len(p.items) = 1
ASSUME LimitsAssumption ==
  /\ Volumes \in Nat \ {0}
  /\ AlbumLimit \in Nat /\ AlbumLimit >= 2
  /\ GroupLimit \in Nat /\ GroupLimit >= 2

VARIABLES
  plan,       \* the result to deliver, and the settings that steer it
  first,      \* first item of the call under way
  last,       \* its last item: beyond first for an album
  piece,      \* piece of a split item
  singly,     \* items up to here go one at a time
  kept,       \* receipts of the call under way that are stored
  receipts,   \* receipts of the finished items
  step,       \* what the run does next
  chat,       \* messages in the chat, in order of arrival
  rows,       \* delivery_items: ordinal -> message
  gone,       \* files deleted after their delivery
  failed,     \* items of a collection counted as failed
  stored,     \* history: messages whose receipt was stored
  verdict     \* how the run ended

cursorVars == <<first, last, piece, singly, kept, receipts>>
resultVars == <<chat, rows, gone, failed, stored>>
vars == <<plan, cursorVars, step, resultVars, verdict>>

Steps == {"choose", "pack", "album", "send", "resend", "store", "link", "delete",
          "guide", "summary", "returned"}
Verdicts == {"running", "succeeded", "uncertain", "failed", "unexpected", "cancelled", "interrupted"}

N == Len(plan.items)
Kind(i) == plan.items[i].kind
Large(i) == plan.items[i].large
IsImage(i) == Kind(i) \in {"image", "raw_image"}
Inline(i) == Kind(i) \in {"image", "video"}

-----------------------------------------------------------------------------
(* Messages: piece 1 of a whole file, piece p of a split one, whose last   *)
(* piece is the manifest; piece 0 is the split file itself, on disk.       *)
Pieces == Volumes + 1
Messages(i) == {<<i, p>> : p \in 1..(IF Large(i) THEN Pieces ELSE 1)}
Sent == {chat[n] : n \in 1..Len(chat)}

\* The messages of the call under way, in the order of its response.
Unit == IF Large(first) THEN << <<first, piece>> >>
        ELSE [n \in 1..(last - first + 1) |-> <<first + n - 1, 1>>]
UnitSet == {Unit[n] : n \in 1..Len(Unit)}
OldestUnstored == Unit[kept + 1]

OrdinalByItem(m) == IF plan.route = "single" THEN m[2] ELSE (m[1] - 1) + m[2]
\* The ordinal persist_item and its siblings give the receipt of a message.
Ordinal(m) ==
  CASE plan.route = "single"     -> m[2]
    [] plan.route = "artifacts"  -> receipts + (m[1] - first) + m[2]
    [] plan.route = "instagram"  -> m[1]
    [] plan.route = "collection" -> (m[1] - 1) + m[2]

-----------------------------------------------------------------------------
(* Which items may share a call.                                           *)
AlbumEnd(i) ==
  LET end == Min({i + AlbumLimit - 1, N})
  IN IF N - end = 1 THEN end - 1 ELSE end

\* Document albums hold images only or videos only.
SameSort(i, k) == plan.mode = "document" => \A x \in i..k : IsImage(x) = IsImage(i)
BatchEnd(i) == Max({end \in i..Min({i + GroupLimit - 1, N}) : SameSort(i, end)})

AlbumCompatible(i, k) ==
  IF plan.mode = "document"
  THEN \/ \A x \in i..k : IsImage(x)
       \/ \A x \in i..k : Kind(x) = "video"
  ELSE \A x \in i..k : Inline(x)

GroupEnd(i) == IF plan.route = "artifacts" THEN AlbumEnd(i) ELSE BatchEnd(i)
Grouped(i) ==
  /\ i > singly
  /\ \/ /\ plan.route = "artifacts"
        /\ N >= 2
        /\ \A x \in 1..N : Inline(x) /\ ~Large(x)
     \/ /\ plan.route = "instagram"
        /\ BatchEnd(i) > i
        /\ AlbumCompatible(i, BatchEnd(i))
        /\ \A x \in i..BatchEnd(i) : ~Large(x)

\* The plan's delivery mode reaches the file: a story's mode in a collection, an image's
\* elsewhere; the artifacts route does not hand it on.
ModeApplies(i) ==
  /\ plan.mode = "document"
  /\ plan.route = "collection" \/ (plan.route # "artifacts" /\ IsImage(i))

SentAsDocument(i) == Large(i) \/ Kind(i) \in {"raw_image", "raw_video"} \/ ModeApplies(i)

TooLarge(i) ==
  /\ Large(i)
  /\ ~plan.multipart \/ (ModeApplies(i) /\ plan.route # "collection")
-----------------------------------------------------------------------------
Init ==
  /\ plan \in Plans
  /\ first = 1 /\ last = 1 /\ piece = 1 /\ singly = 0 /\ kept = 0 /\ receipts = 0
  /\ step = "choose"
  /\ chat = <<>> /\ rows = <<>> /\ gone = {} /\ failed = {}
  /\ stored = {}
  /\ verdict = "running"

At(s) == verdict = "running" /\ step = s
EndAs(v) ==
  /\ verdict' = v
  /\ UNCHANGED <<plan, cursorVars, step>>

\* The next item, or what follows the last one.
GoOn ==
  /\ first' = last + 1 /\ last' = last + 1 /\ piece' = 1 /\ kept' = 0
  /\ step' = IF last < N THEN "choose"
             ELSE IF plan.route = "collection" THEN "summary" ELSE "returned"
  /\ UNCHANGED <<plan, singly, verdict>>

\* DeliveryError: a collection counts its item as failed and goes on; everywhere else the
\* worker quarantines the job.
DeliveryErrorRetried ==
  IF plan.route = "collection"
  THEN failed' = failed \union {first} /\ receipts' = receipts /\ GoOn
  ELSE failed' = failed /\ EndAs("failed")
DeliveryErrorRaised ==
  IF plan.route = "collection"
  THEN /\ failed' = failed \union {first}
       /\ receipts' = receipts
       /\ GoOn
  ELSE failed' = failed /\ EndAs("uncertain")

-----------------------------------------------------------------------------
(* Choosing what the next call sends.                                      *)
BadInstagramPlan == plan.route = "instagram" /\ \E x \in 1..N : Kind(x) = "other"

PlanRefused ==
  /\ At("choose") /\ BadInstagramPlan
  /\ EndAs("uncertain") /\ UNCHANGED resultVars

ChooseAlbum ==
  /\ At("choose") /\ ~BadInstagramPlan /\ Grouped(first)
  /\ last' = GroupEnd(first)
  /\ step' = "album"
  /\ UNCHANGED <<plan, first, piece, singly, kept, receipts, resultVars, verdict>>

ChooseFile ==
  /\ At("choose") /\ ~BadInstagramPlan /\ ~Grouped(first) /\ ~TooLarge(first)
  /\ singly' = IF plan.route = "instagram" /\ singly < first THEN BatchEnd(first) ELSE singly
  /\ step' = IF Large(first) THEN "pack" ELSE "send"
  /\ UNCHANGED <<plan, first, last, piece, kept, receipts, resultVars, verdict>>

\* DeliveryTooLargeError is no DeliveryError: it also ends a collection.
ItemTooLarge ==
  /\ At("choose") /\ ~BadInstagramPlan /\ ~Grouped(first) /\ TooLarge(first)
  /\ EndAs("failed") /\ UNCHANGED resultVars

\* 7-Zip makes the volumes and the manifest, or fails (PostProcessingError).
Pack ==
  /\ At("pack")
  /\ step' = "send"
  /\ UNCHANGED <<plan, cursorVars, resultVars, verdict>>
PackFails ==
  /\ At("pack")
  /\ EndAs("failed") /\ UNCHANGED resultVars

-----------------------------------------------------------------------------
(* Calls that send files.                                                  *)
Calling == step \in {"album", "send", "resend"}
Lands == chat' = chat \o Unit

CallAnswered ==
  /\ verdict = "running" /\ Calling
  /\ Lands
  /\ step' = IF Large(first) THEN "link" ELSE "store"
  /\ UNCHANGED <<plan, cursorVars, rows, gone, failed, stored, verdict>>

\* A network error, a timeout or an answer that names no file: the files may have arrived.
CallUnanswered ==
  /\ verdict = "running" /\ Calling
  /\ Lands \/ UNCHANGED chat
  /\ DeliveryErrorRaised
  /\ UNCHANGED <<rows, gone, stored>>

\* An answer aiogram cannot decode (ClientDecodeError) is no TelegramAPIError: no except clause
\* of the gateway or of a collection takes it, and the worker retries or fails the job as after
\* any unexpected error.  The files may have arrived.
AnswerUndecoded ==
  /\ verdict = "running"
  /\ \/ Calling /\ Lands
     \/ (Calling \/ step \in {"link", "guide", "summary"}) /\ UNCHANGED chat
  /\ EndAs("unexpected") \/ EndAs("cancelled")
  /\ UNCHANGED <<rows, gone, failed, stored>>

\* TelegramBadRequest for a file that was not sent as a document: once more, as one.
FileRefused ==
  /\ At("send") /\ ~SentAsDocument(first)
  /\ step' = "resend"
  /\ UNCHANGED <<plan, cursorVars, resultVars, verdict>>
DocumentRefused ==
  /\ At("resend") \/ (At("send") /\ SentAsDocument(first))
  /\ DeliveryErrorRaised
  /\ UNCHANGED <<chat, rows, gone, stored>>

\* A refused album: the artifacts route starts over with single files, but only from its first
\* album; the Instagram route sends the batch file by file.
MayAlwaysGoSingly == TRUE
MayGoSingly == plan.route = "instagram" \/ first = 1
StartOver ==
  /\ first' = IF plan.route = "artifacts" THEN 1 ELSE first
  /\ last' = first'
  /\ receipts' = IF plan.route = "artifacts" THEN 0 ELSE receipts
  /\ step' = "choose"
  /\ UNCHANGED <<plan, piece, kept, resultVars, verdict>>
AlbumRefused ==
  /\ At("album") /\ MayGoSingly
  /\ StartOver
  /\ singly' = IF plan.route = "artifacts" THEN N ELSE last
AlbumRefusedLate ==
  /\ At("album") /\ ~MayGoSingly
  /\ EndAs("uncertain") /\ UNCHANGED resultVars

-----------------------------------------------------------------------------
(* After the answer: receipts, the source link, the local files.           *)
\* A whole file or an album: receipts first, then the link; a part: the link first.
StoreReceipt ==
  /\ At("store")
  /\ rows' = [o \in DOMAIN rows \union {Ordinal(OldestUnstored)} |->
                IF o = Ordinal(OldestUnstored) THEN OldestUnstored ELSE rows[o]]
  /\ stored' = stored \union {OldestUnstored}
  /\ kept' = kept + 1
  /\ step' = IF kept + 1 < Len(Unit) THEN "store" ELSE IF Large(first) THEN "delete" ELSE "link"
  /\ UNCHANGED <<plan, first, last, piece, singly, receipts, chat, gone, failed, verdict>>
StoreFails ==
  /\ At("store")
  /\ DeliveryErrorRaised
  /\ UNCHANGED <<chat, rows, gone, stored>>

\* The replies with the source link, or no reply when the link fits the captions.
LinkSentForgetting ==
  /\ At("link")
  /\ step' = "delete"
  /\ UNCHANGED <<plan, cursorVars, resultVars, verdict>>
LinkSent ==
  /\ At("link")
  /\ step' = IF Large(first) THEN "store" ELSE "delete"
  /\ UNCHANGED <<plan, cursorVars, resultVars, verdict>>
\* DeliveryUncertainError ends a collection as well.
LinkFails ==
  /\ At("link")
  /\ EndAs("uncertain") /\ UNCHANGED resultVars

\* The single route leaves its file to the worker.
Deletable(files) == IF plan.route = "single" /\ ~Large(first) THEN {} ELSE files

DeletePartEarly ==
  /\ At("delete") /\ Large(first)
  /\ gone' = gone \union UnitSet
  /\ IF piece < Volumes
     THEN step' = "send" /\ piece' = piece + 1 /\ kept' = 0
     ELSE step' = "guide" /\ UNCHANGED <<piece, kept>>
  /\ UNCHANGED <<plan, first, last, singly, receipts, chat, rows, failed, stored, verdict>>
DeletePart ==
  /\ At("delete") /\ Large(first)
  /\ gone' = gone \union UnitSet
  /\ IF piece < Pieces
     THEN step' = "send" /\ piece' = piece + 1 /\ kept' = 0
     ELSE step' = "guide" /\ UNCHANGED <<piece, kept>>
  /\ UNCHANGED <<plan, first, last, singly, receipts, chat, rows, failed, stored, verdict>>
DeleteFiles ==
  /\ At("delete") /\ ~Large(first)
  /\ gone' = gone \union Deletable(UnitSet)
  /\ receipts' = receipts + Len(Unit)
  /\ GoOn
  /\ UNCHANGED <<chat, rows, failed, stored>>

\* The text that tells how to join the parts; then the router deletes the split file.
GuideSent ==
  /\ At("guide")
  /\ gone' = gone \union (IF plan.route = "single" THEN {} ELSE {<<first, 0>>})
  /\ receipts' = receipts + Pieces
  /\ GoOn
  /\ UNCHANGED <<chat, rows, failed, stored>>
GuideFails ==
  /\ At("guide")
  /\ DeliveryErrorRaised
  /\ UNCHANGED <<chat, rows, gone, stored>>

-----------------------------------------------------------------------------
(* The end of the run, and the worker's verdict.                           *)

\* A summary that fails is logged only; a collection that delivered nothing has failed.
Summarize ==
  /\ At("summary")
  /\ IF failed = 1..N THEN verdict' = "failed" /\ step' = step
     ELSE step' = "returned" /\ verdict' = verdict
  /\ UNCHANGED <<plan, cursorVars, resultVars>>

ReceiptsCount == plan.route = "instagram" => receipts = N
ReceiptsMiscounted ==
  /\ At("returned") /\ ~ReceiptsCount
  /\ EndAs("uncertain") /\ UNCHANGED resultVars

Complete ==
  /\ At("returned") /\ ReceiptsCount
  /\ EndAs("succeeded") /\ UNCHANGED resultVars
\* complete_download raised.
CompletionFails ==
  /\ At("returned") /\ ReceiptsCount
  /\ EndAs("uncertain") /\ UNCHANGED resultVars

\* The user's cancellation is seen before each item, batch and part, and at the end.
SeeCancel ==
  /\ At("choose") \/ At("send") \/ At("returned")
  /\ EndAs("cancelled") /\ UNCHANGED resultVars

\* job_timeout or a stop of the worker, at any await.
Interrupted ==
  /\ verdict = "running"
  /\ UNCHANGED chat \/ (Calling /\ Lands)
  /\ EndAs("interrupted")
  /\ UNCHANGED <<rows, gone, failed, stored>>

Choose == PlanRefused \/ ChooseAlbum \/ ChooseFile \/ ItemTooLarge \/ Pack \/ PackFails
Call == \/ CallAnswered \/ CallUnanswered \/ AnswerUndecoded \/ FileRefused \/ DocumentRefused
        \/ AlbumRefused \/ AlbumRefusedLate
Settle == \/ StoreReceipt \/ StoreFails \/ LinkSent \/ LinkFails
          \/ DeletePart \/ DeleteFiles \/ GuideSent \/ GuideFails
End == Summarize \/ ReceiptsMiscounted \/ Complete \/ CompletionFails
Next == Choose \/ Call \/ Settle \/ End \/ SeeCancel \/ Interrupted

Spec == Init /\ [][Next]_vars

\* Calls to Telegram have timeouts, so a run goes on.
FairSpec == Spec /\ WF_vars(Next)

-----------------------------------------------------------------------------
TypeOK ==
  /\ plan \in Plans
  /\ first \in 1..(N + 1) /\ last \in 1..(N + 1)
  /\ piece \in 1..Pieces /\ singly \in 0..N /\ kept \in 0..N
  /\ receipts \in Nat
  /\ step \in Steps /\ verdict \in Verdicts
  /\ chat \in Seq((1..N) \X (1..Pieces))
  /\ \A o \in DOMAIN rows : rows[o] \in stored
  /\ stored \subseteq (1..N) \X (1..Pieces)
  /\ gone \subseteq (1..N) \X (0..Pieces)
  /\ failed \subseteq 1..N

\* Every message reaches the chat at most once and in the order of the source: no fallback,
\* from an album to single files or from a photo to a document, sends again what has arrived.
Before(m, n) == m[1] < n[1] \/ (m[1] = n[1] /\ m[2] < n[2])
ArrivesInOrder == \A a, b \in 1..Len(chat) : a < b => Before(chat[a], chat[b])

\* A local file is deleted only when the receipt of what it became is durable, and a split file
\* only when the receipts of all its parts are.
DeletedIsStored ==
  \A f \in gone : IF f[2] = 0 THEN Messages(f[1]) \subseteq stored ELSE f \in stored

\* Nothing is sent while an earlier message lacks its receipt, unless its item was counted as
\* failed: a restart or an operator finds every earlier arrival in delivery_items.
StoredBeforeNext ==
  \A m \in Sent : m \in stored \/ m[1] \in failed \/ (first <= N /\ m \in UnitSet)

\* A receipt stays in delivery_items: no later one takes its ordinal, in the routes that number
\* by receipts and wherever no split file meets item ordinals.
NumberedByItem == plan.route \in {"instagram", "collection"}
EveryReceiptIsKept == \A m \in stored : \E o \in DOMAIN rows : rows[o] = m
ReceiptsAreKept == (NumberedByItem => \A i \in 1..N : ~Large(i)) => EveryReceiptIsKept

\* A run that succeeded has delivered, with receipts, every item it did not count as failed.
CompletedIsComplete ==
  verdict = "succeeded" =>
    \A i \in 1..N : i \in failed \/ Messages(i) \subseteq (Sent \intersect stored)

\* A run is called succeeded, or failed (a failure may be retried or recovered and sent again),
\* only when every message in the chat has its receipt: what may have arrived unrecorded ends in
\* quarantine.  Excepted are the items a collection counted as failed and, after an unexpected
\* error, the messages of the one call whose answer could not be decoded.
NothingInDoubt ==
  verdict \in {"succeeded", "failed", "unexpected"} =>
    \A m \in Sent : \/ m \in stored
                    \/ m[1] \in failed
                    \/ verdict = "unexpected" /\ first <= N /\ m \in UnitSet

\* Where the cursor may stand at each step.
BeforeAnswer == step \in {"choose", "pack", "album", "send", "resend"}
AfterAnswer == step \in {"store", "link", "delete", "guide"}
CursorOK ==
  /\ step \in {"summary", "returned"} => first = N + 1 /\ piece = 1
  /\ step \notin {"summary", "returned"} => first <= last /\ last <= N
  /\ plan.route = "collection" => last = first
  /\ first <= N /\ Large(first) => last = first
  /\ first <= N /\ ~Large(first) => piece = 1
  /\ step \in {"choose", "pack", "send", "resend"} => last = first
  /\ step = "choose" => piece = 1
  /\ step \in {"pack", "guide"} => Large(first)
  /\ step = "album" => ~Large(first)

\* The receipts of the call under way and of the earlier parts of its file.
KeptIsStored ==
  /\ first <= N => kept <= Len(Unit) /\ \A n \in 1..kept : Unit[n] \in stored
  /\ BeforeAnswer => kept = 0
  /\ step = "store" => kept < Len(Unit)
  /\ step = "link" => kept = IF Large(first) THEN 0 ELSE Len(Unit)
  /\ step = "delete" => kept = Len(Unit)
  /\ first <= N /\ Large(first) => \A p \in 1..(piece - 1) : <<first, p>> \in stored
  /\ step = "guide" => Messages(first) \subseteq stored

\* While the run lasts, whatever has arrived precedes the cursor or is the call under way.
SentIsPast ==
  verdict = "running" =>
    \A m \in Sent : Before(m, <<first, piece>>) \/ (AfterAnswer /\ m \in UnitSet)

DeliveryInv ==
  /\ TypeOK /\ CursorOK /\ KeptIsStored /\ SentIsPast
  /\ DeletedIsStored /\ StoredBeforeNext /\ ArrivesInOrder

=============================================================================
