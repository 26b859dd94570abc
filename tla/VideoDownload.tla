--------------------------- MODULE VideoDownload ---------------------------
(* A video through yt-dlp: what an inspection offers, the user's choice, and   *)
(* the download of it from formats the provider may have changed since.        *)
EXTENDS FormatSelection, Sequences

CONSTANTS
  Offers,           \* what the provider may offer: functions from ids to formats
  ModeOrder,        \* enabled_modes
  ExplicitAllowed,  \* explicit_mp4_enabled: conversion to MP4 is planned as well
  MaxFile,          \* max_file_size_mb
  MaxSource,        \* max_source_size_mb
  MaxDrift          \* bound on the changes of the provider's formats

ASSUME VideoAssumption ==
  /\ ExplicitAllowed \in BOOLEAN
  /\ MaxFile \in Nat /\ MaxSource \in Nat /\ MaxFile <= MaxSource /\ MaxDrift \in Nat
  /\ ModeOrder \in Seq({"best", "best_original", "video_1080", "video_480"})
  /\ \A o \in Offers : DOMAIN o \subseteq FormatId /\ \A i \in DOMAIN o : o[i].height \in Nat

VARIABLES
  offer,     \* the provider's formats
  drifts,    \* how often they changed
  pick,      \* the view the user chose and the plan it stands for
  task       \* the download: its step and its file

videoVars == <<offer, drifts, pick, task>>

TransferLimit(mode) == IF TargetHeight(mode) # 0 THEN MaxSource ELSE MaxFile

-----------------------------------------------------------------------------
(* The inspection: every mode is planned for every container and codec.        *)

Plan(mode, container, policy, codec) ==
  [mode |-> mode, container |-> container, policy |-> policy, codec |-> codec]

\* _inspect_format_options: the plans it tries, in order.
PlansOf(mode) ==
  LET policy == IF mode = "best_original" THEN "native" ELSE "guaranteed"
      av1 == Plan(mode, "mp4", policy, "av1")
      h264 == Plan(mode, "mp4", policy, "h264")
      vp9 == Plan(mode, "webm", policy, "vp9")
  IN IF ExplicitAllowed /\ mode # "best_original"
     THEN <<av1, h264, Plan(mode, "mp4", "explicit", "any"), vp9>> ELSE <<av1, h264, vp9>>

ContractOf(plan) ==
  IF plan.policy = "guaranteed" THEN [container |-> plan.container, codec |-> plan.codec]
  ELSE AnyContract

SelectorOf(plan) == IF plan.policy = "explicit" THEN AnyType ELSE ByType(plan.container)

Found(plan) ==
  Selected(offer, SelectorOf(plan), plan.mode, ContractOf(plan), TransferLimit(plan.mode))

VideoOf(parts) == Max({i \in parts : IsVideo(offer[i])})
SoundOf(parts) == Max({i \in parts : IsAudio(offer[i])})

\* _components_match_container: codecs alone, whatever the type of the file.
CodecsMatch(codec, audio, container) ==
  IF container = "mp4" THEN codec \in {"h264", "av1"} /\ audio = "aac"
  ELSE codec = "vp9" /\ audio = "opus"

\* _describe_candidate
Described(plan, parts) ==
  LET video == offer[VideoOf(parts)]
  IN [plan |-> plan, ids |-> parts, height |-> video.height, hdr |-> video.hdr,
      codec |-> video.codec, audio |-> offer[SoundOf(parts)].audio,
      size |-> KnownSize(offer, parts)]

\* The plans of every mode in their turn, and those that find a video.
Turns == {t \in (1..Len(ModeOrder)) \X (1..4) : t[2] \in DOMAIN PlansOf(ModeOrder[t[1]])}
Sooner(s, t) == s[1] < t[1] \/ (s[1] = t[1] /\ s[2] < t[2])
PlanAt(t) == PlansOf(ModeOrder[t[1]])[t[2]]
HasVideo(found) == found.reason = "found" /\ \E i \in found.parts : IsVideo(offer[i])
Options == [t \in {u \in Turns : HasVideo(Found(PlanAt(u)))} |->
              Described(PlanAt(t), Found(PlanAt(t)).parts)]

\* is_native_video_option: what would have to be converted is hidden.
Native(option) == CodecsMatch(option.codec, option.audio, option.plan.container)

\* build_native_option_catalog shows one option for what is the same on the screen.
Identity(option) ==
  <<option.ids, option.height, option.hdr, option.codec, option.audio, option.plan.container>>

FellBack(option) ==
  option.plan.container = "mp4" /\ option.height < TargetHeight(option.plan.mode)
Preference(option) ==
  (IF option.height = TargetHeight(option.plan.mode) THEN 2 ELSE 0)
  + (IF FellBack(option) THEN 0 ELSE 1)

CatalogOf(options) ==
  LET shown == {t \in DOMAIN options : Native(options[t])}
      Rival(u, t) == /\ Identity(options[u]) = Identity(options[t])
                     /\ \/ Preference(options[u]) > Preference(options[t])
                        \/ Preference(options[u]) = Preference(options[t]) /\ Sooner(u, t)
  IN {options[t] : t \in {v \in shown : \A u \in shown : ~Rival(u, v)}}

\* choose_native_option takes the first option of the inspection that looks like the view.
Matching(view, options) ==
  LET alike == {t \in DOMAIN options : /\ options[t].plan.mode = view.plan.mode
                                      /\ options[t].plan.container = view.plan.container
                                      /\ options[t].ids = view.ids}
  IN options[CHOOSE t \in alike : \A u \in alike : ~Sooner(u, t)]

-----------------------------------------------------------------------------
NoFile == [codec |-> "none", audio |-> "none", ext |-> "none", height |-> 0, size |-> 0]
NoPick == [codec |-> "none"]

VideoInit ==
  /\ offer \in Offers /\ drifts = 0
  /\ pick = NoPick
  /\ task = [step |-> "offered", file |-> NoFile]

\* A format goes, or its id comes to stand for another.
Drift ==
  /\ drifts < MaxDrift /\ drifts' = drifts + 1
  /\ \/ \E i \in DOMAIN offer : offer' = [j \in (DOMAIN offer) \ {i} |-> offer[j]]
     \/ \E other \in Offers : \E i \in (DOMAIN offer) \intersect (DOMAIN other) :
          offer' = [offer EXCEPT ![i] = other[i]]
  /\ offer' # offer
  /\ UNCHANGED <<pick, task>>

\* The user chooses from the menu; the job carries the mode, the container, the policy,
\* the codec that was shown, and the ids.
Choice(view, plan) ==
  [plan |-> Plan(view.plan.mode, view.plan.container, plan.policy, view.codec),
   codec |-> view.codec, height |-> view.height, ids |-> view.ids]
Menu(options) ==
  {Choice(view, Matching(view, options).plan) :
    view \in {v \in CatalogOf(options) : Native(Matching(v, options))}}

ChooseView ==
  /\ task.step = "offered"
  /\ pick' \in Menu(Options)
  /\ task' = [task EXCEPT !.step = "select"]
  /\ UNCHANGED <<offer, drifts>>

VideoFails == task' = [task EXCEPT !.step = "failed"]
Undrifted == UNCHANGED <<offer, drifts, pick>>

\* The ids are looked up once more, under the plan's limits.
Select ==
  LET chosen == Selected(offer, ByIds(pick.ids), pick.plan.mode, ContractOf(pick.plan),
                         TransferLimit(pick.plan.mode))
  IN /\ task.step = "select"
     /\ IF chosen.reason = "found"
        THEN task' = [step |-> "transfer", file |->
               [codec |-> IF HasVideo(chosen) THEN offer[VideoOf(chosen.parts)].codec ELSE "none",
                audio |-> offer[SoundOf(chosen.parts)].audio,
                ext |-> IF Cardinality(chosen.parts) = 1 THEN offer[Max(chosen.parts)].ext
                        ELSE pick.plan.container,
                height |-> Score(offer, chosen.parts)[1], size |-> 0]]
        ELSE VideoFails
     /\ Undrifted

\* The streams arrive, of any size and of the codecs announced or of others, or without their
\* sound; the progress hook ends a transfer that outgrows its limit.
Streams(file) == IF file.codec = "none" THEN {<<file.codec, file.audio>>}
                 ELSE {file.codec, "h264", "vp9"} \X {file.audio, "none", "opus"}
Transfer ==
  /\ task.step = "transfer"
  /\ \E size \in 1..(MaxSource + 1), streams \in Streams(task.file) :
       IF size > TransferLimit(pick.plan.mode) THEN VideoFails
       ELSE task' = [step |-> "check", file |->
              [task.file EXCEPT !.size = size, !.codec = streams[1], !.audio = streams[2]]]
  /\ Undrifted

\* is_guaranteed_container_compatible: what ffprobe finds in the file, which may have no
\* sound; a sound alone is not asked about.
Compatible(file, plan) ==
  file.codec # "none" =>
  /\ file.ext = plan.container
  /\ IF plan.container = "mp4"
     THEN file.codec = (IF plan.codec \in {"av1", "h264"} THEN plan.codec ELSE "h264")
     ELSE file.codec = "vp9"
  /\ file.audio \in {"none", AudioOf(plan.container)}

\* Mutant of Check: the file is not compared with the contract.
CheckSize ==
  /\ task.step = "check"
  /\ task' = [task EXCEPT !.step = IF pick.plan.policy = "explicit" /\ task.file.size > MaxFile
                                   THEN "transcode" ELSE "limit"]
  /\ Undrifted

Check ==
  LET compatible == Compatible(task.file, pick.plan) IN
  /\ task.step = "check"
  /\ IF pick.plan.policy = "guaranteed" /\ ~compatible THEN VideoFails
     ELSE task' = [task EXCEPT !.step =
       IF /\ pick.plan.policy = "explicit" /\ task.file.codec # "none"
          /\ ~compatible \/ task.file.size > MaxFile
       THEN "transcode" ELSE "limit"]
  /\ Undrifted

\* The encoder ends within the limit after at most three passes, or the job fails.
Transcode ==
  /\ task.step = "transcode"
  /\ \/ VideoFails
     \/ \E size \in 1..MaxFile :
          /\ size <= Max({2 * task.file.size, task.file.size + 1})
          /\ task' = [step |-> "limit", file |-> [task.file EXCEPT !.size = size,
               !.codec = IF pick.plan.container = "mp4" THEN "h264" ELSE "vp9",
               !.audio = IF @ = "none" THEN @ ELSE AudioOf(pick.plan.container), !.ext = pick.plan.container]]
  /\ Undrifted

Limit ==
  /\ task.step = "limit"
  /\ IF task.file.size > MaxFile THEN VideoFails ELSE task' = [task EXCEPT !.step = "done"]
  /\ Undrifted

\* yt-dlp fails, or the job is cancelled or out of time.
EngineFails == task.step \in {"select", "transfer"} /\ VideoFails /\ Undrifted

VideoNext == Drift \/ ChooseView \/ Select \/ Transfer \/ Check \/ Transcode \/ Limit \/ EngineFails
VideoSpec == VideoInit /\ [][VideoNext]_videoVars

-----------------------------------------------------------------------------
\* A plan whose contract the download still checks; best_original has none.
Guarded == pick.plan.policy = "guaranteed"
ExactHeight == pick.plan.mode \in FixedModes /\ ~(pick.plan.container = "mp4" /\ LowerAllowed)

(* However the formats drift after the menu was shown, and whatever arrives, a *)
(* guaranteed choice ends in the container and with the picture and sound      *)
(* codec that the menu showed, announced within the height of its mode and     *)
(* below the size limit, or it fails.  Excepted are a file that arrives        *)
(* without sound and, in the mode best, a sound alone for a video that is gone. *)
OfferIsKept ==
  task.step = "done" =>
    /\ task.file.size <= MaxFile
    /\ Guarded /\ (pick.plan.mode = "best" => task.file.codec # "none") =>
         /\ task.file.codec = pick.codec
         /\ task.file.ext = pick.plan.container
         /\ task.file.audio \in {"none", AudioOf(pick.plan.container)}
         /\ task.file.height <= TargetHeight(pick.plan.mode)
         /\ ExactHeight => task.file.height = pick.height
=============================================================================
