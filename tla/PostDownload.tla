---------------------------- MODULE PostDownload ----------------------------
(* The download of a social post: the routed engine over gallery-dl and        *)
(* yt-dlp.  A post is inspected, the user chooses from what it held, and the   *)
(* job inspects it again before it runs the engines.  The post may change      *)
(* between any two of these calls, and nothing but counts, kinds and slots     *)
(* tells the engines so.                                                       *)
EXTENDS Naturals, Sequences, FiniteSets, SequencesExt

CONSTANTS
  Item,        \* what the provider may show; an item comes once
  Images,      \* the items that are images; the others are videos
  Measured,    \* images of which ffprobe tells a duration and a height, as of a JPEG or GIF
  Source,      \* kinds of links: "instagram", "stories" or another site's name
  MaxItems,    \* limit of assets per job
  MaxEdits,    \* bound on the changes of the post
  MaxTries     \* attempts of the job

ASSUME PostAssumption ==
  /\ Measured \subseteq Images /\ Images \subseteq Item
  /\ MaxItems \in Nat /\ MaxEdits \in Nat /\ MaxTries \in Nat

VARIABLES
  source,      \* where the link leads
  post,        \* the items the provider shows now, in order
  edits,       \* changes of the post so far
  seen,        \* the versions of the post the attempt has met, by the call that met it
  fetch        \* the job: its step, the choice, the plan and what it downloaded

postVars == <<source, post, edits, seen, fetch>>

Kind(i) == IF i \in Images THEN "image" ELSE "video"

\* Slots and places are numbers: the nth of a set of them, the set in order, and what
\* a sequence holds at the places of a set.
Nth(slots, n) == CHOOSE s \in slots : Cardinality({t \in slots : t <= s}) = n
InOrder(slots) == [n \in 1..Cardinality(slots) |-> Nth(slots, n)]
At(items, places) == [n \in 1..Cardinality(places) |-> items[Nth(places, n)]]
Only(items, kind) == At(items, {s \in DOMAIN items : Kind(items[s]) = kind})

\* What each mode asks for; the gallery's modes name the kind of asset they keep.
ImageModes == {"images", "zip"}
VideoModes == {"videos", "video"}
Collections == {"stories"}
Wanted(items, mode) ==
  IF mode \in ImageModes THEN Only(items, "image")
  ELSE IF mode \in VideoModes THEN Only(items, "video") ELSE items

\* An asset's id is a hash of the post's id, the slot and the kind; for stories the
\* post's id is that of its first item.
AssetId(items, s) == <<IF source = "stories" THEN items[1] ELSE "post", s, Kind(items[s])>>

\* parse_inspection: the assets of the post, in its order.
Assets(items) == [s \in 1..Len(items) |-> [kind |-> Kind(items[s]), id |-> AssetId(items, s)]]
SlotsOf(plan, kind) == {s \in DOMAIN plan : plan[s].kind = kind}

\* map_gallery_info: the modes a post is offered in.
Offered(plan) ==
  LET images == SlotsOf(plan, "image") # {}
      videos == SlotsOf(plan, "video") # {}
  IN IF source = "stories" THEN Collections
     ELSE IF Len(plan) = 1 THEN IF images THEN {"images"} ELSE {"video"}
     ELSE IF images /\ videos THEN {"all", "images", "videos", "zip"}
     ELSE IF images THEN {"images", "zip"} ELSE {"videos"}

\* The ids an option carries; a collection is taken whole.
OptionIds(plan, mode) ==
  IF mode \in Collections THEN {}
  ELSE {plan[s].id : s \in {t \in DOMAIN plan :
         mode = "all" \/ plan[t].kind = IF mode \in ImageModes THEN "image" ELSE "video"}}

NoFetch == [step |-> "new", mode |-> "none", ids |-> {}, plan |-> <<>>, children |-> <<>>,
            artifacts |-> <<>>, tries |-> 0]

Posts == {p \in UNION {[1..n -> Item] : n \in 1..MaxItems} : IsInjective(p)}

PostInit ==
  /\ source \in Source
  /\ post \in Posts
  /\ edits = 0 /\ seen = [call \in {"inspect", "gallery", "videos"} |-> <<>>]
  /\ fetch = NoFetch

\* An item goes, or a new one comes; a story does both in one day.
Edit ==
  /\ edits < MaxEdits /\ edits' = edits + 1
  /\ \/ \E s \in DOMAIN post : Len(post) > 1 /\
          post' = At(post, DOMAIN post \ {s})
     \/ \E i \in Item : (\A s \in DOMAIN post : post[s] # i) /\ post' = Append(post, i)
     \/ \E i \in Item : (\A s \in DOMAIN post : post[s] # i) /\ post' = Append(Tail(post), i)
  /\ UNCHANGED <<source, seen, fetch>>

Rest == UNCHANGED <<source, post, edits>>
Met(call) == seen' = [seen EXCEPT ![call] = post]

\* A failure of gallery-dl, of yt-dlp or of a check; a transient one is tried again.
Fail(retryable) ==
  fetch' = IF retryable /\ fetch.tries < MaxTries
           THEN [NoFetch EXCEPT !.step = "inspect", !.mode = fetch.mode, !.ids = fetch.ids,
                                !.tries = fetch.tries]
           ELSE [fetch EXCEPT !.step = "failed"]

\* The inspection job: what the user is shown.
Show ==
  /\ fetch.step = "new" /\ Len(post) <= MaxItems
  /\ fetch' = [fetch EXCEPT !.step = "choose", !.plan = Assets(post)]
  /\ Rest /\ UNCHANGED seen

Choose(mode) ==
  /\ fetch.step = "choose" /\ mode \in Offered(fetch.plan)
  /\ fetch' = [fetch EXCEPT !.step = "inspect", !.mode = mode,
                            !.ids = OptionIds(fetch.plan, mode), !.plan = <<>>]
  /\ Rest /\ UNCHANGED seen

Planned(plan) ==
  {s \in DOMAIN plan :
     /\ fetch.ids = {} \/ plan[s].id \in fetch.ids
     /\ fetch.mode \in ImageModes => plan[s].kind = "image"
     /\ fetch.mode \in VideoModes => plan[s].kind = "video"}

\* RoutedMediaEngine.download: which engines the plan goes to.
Route(plan) ==
  IF source = "instagram" /\ fetch.mode \in {"videos", "all"} /\ SlotsOf(plan, "video") # {}
  THEN "discover" ELSE "gallery"

\* DownloadService.download inspects once more, and the engine uses that inspection.
Inspect ==
  /\ fetch.step = "inspect"
  /\ seen' = [call \in DOMAIN seen |-> IF call = "inspect" THEN post ELSE <<>>]
  /\ fetch' = [fetch EXCEPT !.tries = @ + 1, !.plan = Assets(post),
       !.step = IF Len(post) > MaxItems THEN "failed" ELSE Route(Assets(post))]
  /\ Rest

CallFails ==
  /\ fetch.step \in {"inspect", "gallery", "discover", "child"}
  /\ \E retryable \in BOOLEAN : Fail(retryable)
  /\ Rest /\ UNCHANGED seen

\* yt-dlp's raw entries must show a video exactly where gallery-dl did.
DiscoveryMatches(entries) ==
  /\ Len(entries) = Len(fetch.plan)
  /\ {s \in DOMAIN entries : Kind(entries[s]) = "video"} = SlotsOf(fetch.plan, "video")

Discover ==
  /\ fetch.step = "discover"
  /\ Met("videos")
  /\ IF DiscoveryMatches(post)
     THEN fetch' = [fetch EXCEPT !.step = "child", !.children = Only(post, "video")]
     ELSE Fail(FALSE)
  /\ Rest

\* Each child is downloaded by its own id; then the images, if they are wanted.
DownloadChild ==
  LET n == Len(fetch.artifacts) + 1
      child == fetch.children[n]
      slot == InOrder(SlotsOf(fetch.plan, "video"))[n]
      last == n = Len(fetch.children)
  IN /\ fetch.step = "child"
     /\ \E s \in DOMAIN post : post[s] = child
     /\ fetch' = [fetch EXCEPT
          !.artifacts = Append(@, [slot |-> slot, item |-> child]),
          !.step = IF ~last THEN "child" ELSE IF fetch.mode = "all" THEN "gallery" ELSE "done"]
     /\ Rest /\ UNCHANGED seen

\* The child is gone.
ChildMissing ==
  /\ fetch.step = "child"
  /\ \A s \in DOMAIN post : post[s] # fetch.children[Len(fetch.artifacts) + 1]
  /\ Fail(FALSE) /\ Rest /\ UNCHANGED seen

\* The images of a mixed post are asked for with the ids of all of its images.
Mixed == fetch.artifacts # <<>>
Instagram == source \in {"instagram", "stories"}
ImagesOnly == Instagram /\ (Mixed \/ fetch.mode \in ImageModes)
Kept == IF Mixed THEN SlotsOf(fetch.plan, "image") ELSE Planned(fetch.plan)

\* The slots of the plan that gallery-dl's files stand for, in order.
Expected == IF ImagesOnly THEN SlotsOf(fetch.plan, "image") ELSE DOMAIN fetch.plan
Position(s) == Cardinality({t \in Expected : t <= s})

\* Mutant of FilesMatch: files beyond the plan are left aside.
FilesEnough(files) == Len(files) >= Cardinality(Expected)

\* As many files as the inspection showed.
FilesMatch(files) == Len(files) = Cardinality(Expected)

\* validate_image refuses what is no image; the probe of a video only asks for a duration and
\* a height.
PassesFor(item, kind) == Kind(item) = kind \/ (kind = "video" /\ item \in Measured)
KindsMatch(files) == \A s \in Kept : PassesFor(files[Position(s)], fetch.plan[s].kind)

Pairs(files) ==
  LET kept == InOrder(Kept)
  IN [n \in DOMAIN kept |-> [slot |-> kept[n], item |-> files[Position(kept[n])]]]

\* A sort that keeps the order of equals: the nth has n artifacts up to it.
BySlot(artifacts) ==
  LET upTo(m) == {k \in DOMAIN artifacts :
                    \/ artifacts[k].slot < artifacts[m].slot
                    \/ artifacts[k].slot = artifacts[m].slot /\ k <= m}
  IN [n \in DOMAIN artifacts |->
        artifacts[CHOOSE m \in DOMAIN artifacts : Cardinality(upTo(m)) = n]]

\* GalleryDlEngine.download_inspected: the files of the post as it is now, paired by position.
RunGallery ==
  LET files == IF ImagesOnly THEN Only(post, "image") ELSE post IN
  /\ fetch.step = "gallery"
  /\ Met("gallery")
  /\ IF Kept # {} /\ FilesMatch(files) /\ KindsMatch(files)
     THEN fetch' = [fetch EXCEPT !.step = "done",
                                 !.artifacts = BySlot(fetch.artifacts \o Pairs(files))]
     ELSE Fail(FALSE)
  /\ Rest

PostNext ==
  \/ Edit \/ Show \/ Inspect \/ CallFails \/ Discover \/ DownloadChild \/ ChildMissing
  \/ RunGallery
  \/ \E mode \in {"images", "zip", "videos", "video", "all", "stories"} : Choose(mode)

PostSpec == PostInit /\ [][PostNext]_postVars

-----------------------------------------------------------------------------
Delivered == [n \in DOMAIN fetch.artifacts |-> fetch.artifacts[n].item]

\* The choice names everything of its kind that the download's inspection showed.
WholeChoice == \A s \in DOMAIN fetch.plan :
  Wanted(<<seen["inspect"][s]>>, fetch.mode) # <<>> => fetch.ids = {} \/ fetch.plan[s].id \in fetch.ids

SameKinds(items) == [s \in DOMAIN items |-> Kind(items[s])] =
                    [s \in DOMAIN fetch.plan |-> fetch.plan[s].kind]

\* What may be taken for what a mode asks for.
Takable(items, mode) ==
  IF mode \in VideoModes
  THEN At(items, {s \in DOMAIN items : PassesFor(items[s], "video")})
  ELSE Wanted(items, mode)

(* Whichever changes came between the calls, a download ends with one version  *)
(* of the post, in its order: all of it that the mode asks for, or, where the  *)
(* choice was made from a shorter post, a part.  A mixed post may join the     *)
(* images of one version and the videos of another, never parts of either.     *)
(* Where gallery-dl is asked for more than the kind that is kept, which is on  *)
(* another site than Instagram, and for the single video of a post that has    *)
(* grown since, a slot that was left out may have changed its kind unseen, and *)
(* an image that is measured like a video may stand where a video was.         *)
OneVersion ==
  fetch.step = "done" =>
    IF seen["videos"] # <<>>
    THEN /\ Only(Delivered, "video") = Only(seen["videos"], "video")
         /\ Only(Delivered, "image") = IF fetch.mode = "all" THEN Only(seen["gallery"], "image") ELSE <<>>
         /\ seen["gallery"] = seen["videos"] => Delivered = seen["videos"]
    ELSE LET takable == Takable(seen["gallery"], fetch.mode) IN
         /\ \A n, m \in DOMAIN Delivered : \E j, k \in DOMAIN takable :
              takable[j] = Delivered[n] /\ takable[k] = Delivered[m] /\ (n < m => j < k)
         /\ WholeChoice /\ ((Instagram /\ fetch.mode # "video") \/ SameKinds(seen["gallery"]))
              => Delivered = Wanted(seen["gallery"], fetch.mode)
=============================================================================
