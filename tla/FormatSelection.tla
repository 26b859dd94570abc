-------------------------- MODULE FormatSelection --------------------------
(* How yt-dlp's formats are chosen within a size limit.  A format is a stream  *)
(* or a pair of streams with its picture height, codecs, file type and         *)
(* announced size; ids grow with the quality yt-dlp ranks them by.             *)
EXTENDS Naturals, FiniteSets, FiniteSetsExt

CONSTANTS
  FormatId,       \* ids of formats, a finite set of numbers
  LowerAllowed    \* mp4_native_fallback: a lower height may stand in for MP4

ASSUME FormatAssumption ==
  FormatId \subseteq Nat \ {0} /\ IsFiniteSet(FormatId) /\ LowerAllowed \in BOOLEAN

\* A mode's target height; best_original has none.
FixedModes == {"video_1080", "video_480"}
TargetHeight(mode) == CASE mode \in {"best", "video_1080"} -> 1080
                        [] mode = "video_480" -> 480
                        [] OTHER -> 0

IsVideo(f) == f.codec # "none"
IsAudio(f) == f.audio # "none"

\* What a container promises of its streams; "any" promises nothing.
AnyContract == [container |-> "any", codec |-> "any"]
AudioOf(container) == IF container = "mp4" THEN "aac" ELSE "opus"
MeetsContract(f, contract) ==
  contract # AnyContract =>
    /\ f.ext = contract.container
    /\ IsVideo(f) => f.codec = contract.codec
    /\ IsAudio(f) => f.audio = AudioOf(contract.container)

\* A fixed mode takes its own height, or a lower one as the fallback of MP4.
FitsHeight(f, mode, contract) ==
  TargetHeight(mode) # 0 /\ IsVideo(f) =>
    IF mode \in FixedModes /\ ~(contract.container = "mp4" /\ LowerAllowed)
    THEN f.height = TargetHeight(mode)
    ELSE f.height <= TargetHeight(mode)

\* The formats the search looks at: HDR is left out where SDR has its height.
Considered(offer, mode, contract) ==
  LET fitting == {i \in DOMAIN offer : MeetsContract(offer[i], contract)
                                       /\ FitsHeight(offer[i], mode, contract)}
      sdr == {offer[i].height : i \in {j \in fitting : IsVideo(offer[j]) /\ ~offer[j].hdr}}
  IN IF TargetHeight(mode) = 0 THEN fitting
     ELSE {i \in fitting : offer[i].hdr => offer[i].height \notin sdr}

\* yt-dlp's own selector: "v+a" ids, or the best video with the best audio of a file
\* type, or else the best format that has both.
ByIds(ids) == [kind |-> "ids", ids |-> ids]
ByType(ext) == [kind |-> ext, ids |-> {}]
AnyType == ByType("any")

\* A video that brings its sound is not given a second one.
Merged(offer, components) ==
  IF \E i \in components : IsVideo(offer[i]) /\ IsAudio(offer[i])
  THEN {i \in components : IsVideo(offer[i])} ELSE components

BaseSelection(offer, selector, available) ==
  LET typed == {i \in available : selector.kind \in {"any", offer[i].ext}}
      videos == {i \in typed : IsVideo(offer[i])}
      sounds == {i \in typed : ~IsVideo(offer[i]) /\ IsAudio(offer[i])}
      both == {i \in videos : IsAudio(offer[i])}
  IN IF selector.kind = "ids"
     THEN IF selector.ids \subseteq available THEN Merged(offer, selector.ids) ELSE {}
     ELSE IF videos # {} /\ sounds # {} THEN Merged(offer, {Max(videos), Max(sounds)})
     ELSE IF both # {} THEN {Max(both)} ELSE {}

Complete(offer, selection, mode) ==
  /\ selection # {}
  /\ \/ \E i, j \in selection : IsVideo(offer[i]) /\ IsAudio(offer[j])
     \/ mode = "best" /\ \A i \in selection : ~IsVideo(offer[i])

\* The announced size of a selection; 0 when a part of it announces none.
KnownSize(offer, selection) ==
  IF \E i \in selection : offer[i].size = 0 THEN 0
  ELSE FoldSet(LAMBDA i, sum : sum + offer[i].size, 0, selection)

\* Height, then the standard dynamic range, then the ranks of video and audio.
Score(offer, selection) ==
  LET videos == {i \in selection : IsVideo(offer[i])}
      sounds == {i \in selection : IsAudio(offer[i])}
  IN <<Max({0} \union {offer[i].height : i \in videos}),
       IF videos # {} /\ \A i \in videos : ~offer[i].hdr THEN 1 ELSE 0,
       Max({0} \union videos), Max({0} \union sounds)>>

Higher(s, t) ==
  \E n \in 1..4 : s[n] > t[n] /\ \A m \in 1..(n - 1) : s[m] = t[m]

BestOf(offer, selections) ==
  CHOOSE s \in selections :
    \A t \in selections : ~Higher(Score(offer, t), Score(offer, s))

-----------------------------------------------------------------------------
\* What the search may find: it leaves out one part after another of a selection that
\* is known not to fit.
Reachable(offer, selector, mode, contract, limit) ==
  LET formats == Considered(offer, mode, contract)
      Selection(excluded) == BaseSelection(offer, selector, formats \ excluded)
      TooBig(selection) == Complete(offer, selection, mode) /\ KnownSize(offer, selection) > limit
      Step(excluded) == {excluded \union {i} : i \in
        IF TooBig(Selection(excluded)) THEN Selection(excluded) ELSE {}}
      Round[n \in 0..Cardinality(FormatId)] ==
        IF n = 0 THEN {{}} ELSE Round[n - 1] \union UNION {Step(e) : e \in Round[n - 1]}
  IN {Selection(e) : e \in Round[Cardinality(FormatId)]}

\* The best that is known to fit, or else the best of unknown size, or the reason why
\* there is none.
Outcome(reason, parts) == [reason |-> reason, parts |-> parts]
BestWithin(offer, found, contract, limit) ==
  LET fitting == {s \in found : KnownSize(offer, s) \in 1..limit}
      unknown == {s \in found : KnownSize(offer, s) = 0}
  IN CASE fitting # {} -> Outcome("found", BestOf(offer, fitting))
       [] fitting = {} /\ unknown # {} -> Outcome("found", BestOf(offer, unknown))
       [] fitting \union unknown = {} ->
            Outcome(IF found = {} \/ contract # AnyContract THEN "unavailable" ELSE "too_large", {})

\* bounded_format_selector
Selected(offer, selector, mode, contract, limit) ==
  BestWithin(offer,
             {s \in Reachable(offer, selector, mode, contract, limit) : Complete(offer, s, mode)},
             contract, limit)
=============================================================================
