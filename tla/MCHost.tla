------------------------------- MODULE MCHost -------------------------------
(* Small instances of what a job meets on its host.  Each behaviour is one of: *)
(* a search among formats, a video from its menu to its file, a social post,   *)
(* the directories of jobs, the cookie file, the Bot API server.               *)
EXTENDS FormatSearch, VideoDownload, PostDownload, Workspaces, Cookies, LocalApi

VARIABLE part

Sound(audio, ext, size) ==
  [height |-> 0, codec |-> "none", hdr |-> FALSE, audio |-> audio, ext |-> ext, size |-> size]
Picture(height, codec, hdr, audio, ext, size) ==
  [height |-> height, codec |-> codec, hdr |-> hdr, audio |-> audio, ext |-> ext, size |-> size]
H264(height, hdr, audio, size) == Picture(height, "h264", hdr, audio, "mp4", size)

\* Three pictures over two sounds, some of them combined, some of unknown size.
Pictures == {H264(h[1], h[2], audio, size) :
  h \in {<<480, FALSE>>, <<1080, FALSE>>, <<1080, TRUE>>}, audio \in {"none", "aac"}, size \in {0, 1, 3}}
Ranked == {t \in Pictures \X Pictures \X Pictures :
             t[1].height <= t[2].height /\ t[2].height <= t[3].height}
MCSearchOffers == {<<Sound("aac", "mp4", 1), Sound("aac", "mp4", size), t[1], t[2], t[3]>> :
                   size \in {0, 2}, t \in Ranked}
\* The offers are ranked by height, and the turns are enough.
ASSUME MCSearchAssumption == HeightsGrow /\ TurnsSuffice

MCRequests ==
  {[mode |-> mode, limit |-> 3, contract |-> [container |-> "mp4", codec |-> "h264"],
    selector |-> ByType("mp4")] : mode \in {"best", "video_480"}}
  \union {[mode |-> "best", limit |-> 3, contract |-> AnyContract, selector |-> AnyType],
          [mode |-> "best_original", limit |-> 3, contract |-> AnyContract, selector |-> ByType("mp4")]}

\* Two codecs of one height, HDR beside SDR, combined formats, sounds alone, and codecs
\* that MP4 takes from a file of another type.
MCOffers ==
  {<<Sound("aac", "mp4", 1), H264(480, FALSE, "none", 1), Picture(640, "av1", FALSE, "none", "mp4", 1)>>,
   <<Sound("aac", "mp4", 0), Picture(480, "av1", FALSE, "none", "mp4", 1), H264(640, FALSE, "none", 1)>>,
   <<Sound("opus", "webm", 1), Picture(1080, "vp9", FALSE, "none", "webm", 1),
     Picture(1080, "vp9", TRUE, "none", "webm", 2)>>,
   <<Sound("opus", "webm", 1), H264(640, FALSE, "aac", 1), H264(1080, FALSE, "aac", 3)>>,
   <<Sound("aac", "mp4", 1), Sound("aac", "mp4", 1), Picture(1080, "av1", FALSE, "aac", "mp4", 2)>>,
   <<Sound("aac", "mp4", 1), Picture(480, "h264", FALSE, "aac", "mov", 1)>>}
MCModes == <<"best", "best_original", "video_1080", "video_480">>

\* The parts that a behaviour is not about stand still in one state.
HostInit ==
  /\ part \in {"search", "video", "post", "workspaces", "cookies", "api"}
  /\ part # "search" => formats = (CHOOSE o \in SearchOffers : TRUE) /\ request = (CHOOSE r \in Requests : TRUE)
  /\ SearchInit
  /\ part # "video" => offer = CHOOSE o \in Offers : TRUE
  /\ VideoInit
  /\ part # "post" => source = "instagram" /\ post = <<1>>
  /\ PostInit
  /\ part # "workspaces" => /\ state = [d \in Directory |-> IF d \in Work THEN "none" ELSE "unmade"]
                            /\ content = [d \in Directory |-> {}]
  /\ WorkspacesInit
  /\ part # "cookies" => /\ file = [id |-> 0, has |-> [p \in Provider |-> 0], broken |-> FALSE]
                         /\ told = {}
  /\ CookiesInit
  /\ ApiInit

HostNext ==
  /\ UNCHANGED part
  /\ \/ part = "search" /\ SearchNext /\ UNCHANGED <<videoVars, postVars, workVars, cookieVars, apiVars>>
     \/ part = "video" /\ VideoNext /\ UNCHANGED <<searchVars, postVars, workVars, cookieVars, apiVars>>
     \/ part = "post" /\ PostNext /\ UNCHANGED <<searchVars, videoVars, workVars, cookieVars, apiVars>>
     \/ part = "workspaces" /\ WorkspacesNext
        /\ UNCHANGED <<searchVars, videoVars, postVars, cookieVars, apiVars>>
     \/ part = "cookies" /\ CookiesNext /\ UNCHANGED <<searchVars, videoVars, postVars, workVars, apiVars>>
     \/ part = "api" /\ ApiNext /\ UNCHANGED <<searchVars, videoVars, postVars, workVars, cookieVars>>

HostSpec ==
  HostInit /\ [][HostNext]_<<part, searchVars, videoVars, postVars, workVars, cookieVars, apiVars>>
=============================================================================
