---------------------------- MODULE FormatSearch ----------------------------
(* The loop of bounded_format_selector: it leaves formats out of yt-dlp's      *)
(* choice until the choice fits.  One step is one turn of the loop.            *)
EXTENDS FormatSelection, Sequences, SequencesExt

CONSTANTS
  SearchOffers, \* what the provider may offer: functions from ids to formats
  Requests,     \* [mode, contract, selector, limit] of a search
  MaxVisits     \* turns of the loop: 1024

ASSUME SearchAssumption ==
  /\ MaxVisits \in Nat
  /\ \A o \in SearchOffers :
       DOMAIN o \subseteq FormatId /\ \A i \in DOMAIN o : o[i].height \in Nat /\ o[i].size \in Nat
  /\ \A r \in Requests : r.limit \in Nat

VARIABLES
  formats,        \* the provider's formats
  request,      \* what is looked for
  search        \* the loop: queue of exclusions, those visited, and the best so far

searchVars == <<formats, request, search>>

SearchInit ==
  /\ formats \in SearchOffers /\ request \in Requests
  /\ search = [pending |-> <<{}>>, visited |-> {}, best |-> {}, unknown |-> {}, complete |-> FALSE]

Running == search.pending # <<>> /\ Cardinality(search.visited) < MaxVisits

Candidate(excluded) ==
  BaseSelection(formats, request.selector,
                Considered(formats, request.mode, request.contract) \ excluded)

Improves(selection, over) ==
  over = {} \/ Higher(Score(formats, selection), Score(formats, over))

\* Mutant of Expand: only the video is tried smaller.
ExpandVideos(excluded, selection) == {excluded \union {i} : i \in {j \in selection : IsVideo(formats[j])}}

Expand(excluded, selection) == {excluded \union {i} : i \in selection}

\* An exclusion that was tried is passed over.
Skip ==
  /\ Running /\ Head(search.pending) \in search.visited
  /\ search' = [search EXCEPT !.pending = Tail(@)]
  /\ UNCHANGED <<formats, request>>

Try ==
  LET excluded == Head(search.pending)
      found == Candidate(excluded)
      size == KnownSize(formats, found)
      tried == [search EXCEPT !.pending = Tail(@), !.visited = @ \union {excluded}]
  IN /\ Running /\ excluded \notin search.visited
     /\ search' =
          IF ~Complete(formats, found, request.mode) THEN tried
          ELSE IF size = 0
          THEN [tried EXCEPT !.complete = TRUE,
                             !.unknown = IF Improves(found, @) THEN found ELSE @]
          ELSE IF size <= request.limit
          THEN [tried EXCEPT !.complete = TRUE,
                             !.best = IF Improves(found, @) THEN found ELSE @]
          ELSE [tried EXCEPT !.complete = TRUE,
                             !.pending = @ \o SetToSeq(Expand(excluded, found))]
     /\ UNCHANGED <<formats, request>>

SearchNext == Skip \/ Try
SearchSpec == SearchInit /\ [][SearchNext]_searchVars

\* What the selector yields, or the error it raises.
Result ==
  IF search.best # {} THEN [reason |-> "found", parts |-> search.best]
  ELSE IF search.unknown # {} THEN [reason |-> "found", parts |-> search.unknown]
  ELSE IF ~search.complete \/ request.contract # AnyContract
  THEN [reason |-> "unavailable", parts |-> {}] ELSE [reason |-> "too_large", parts |-> {}]

-----------------------------------------------------------------------------
\* Everything yt-dlp could be made to select by leaving formats out.
Producible ==
  {s \in {Candidate(excluded) : excluded \in SUBSET DOMAIN formats} : Complete(formats, s, request.mode)}
Fits(selection) == KnownSize(formats, selection) \in 1..request.limit

\* Where the loop can be best: yt-dlp ranks no picture below a lower one, and there are
\* as many turns as there are sets of formats.
HeightsGrow ==
  \A o \in SearchOffers : \A i, j \in DOMAIN o :
    IsVideo(o[i]) /\ IsVideo(o[j]) /\ i <= j => o[i].height <= o[j].height
TurnsSuffice == Cardinality(SUBSET FormatId) <= MaxVisits

(* The loop ends with what Selected says.  Where every size is announced, it   *)
(* finds a selection that fits whenever there is one, and none that fits       *)
(* scores higher; best_original, which weighs HDR against SDR only after the   *)
(* search, is only the highest picture.                                        *)
SearchFindsBest ==
  ~Running =>
    /\ Result = Selected(formats, request.selector, request.mode, request.contract, request.limit)
    /\ (\A i \in DOMAIN formats : formats[i].size # 0) /\ (\E s \in Producible : Fits(s)) =>
         /\ Result.reason = "found" /\ Fits(Result.parts)
         /\ \A s \in Producible : Fits(s) =>
              IF TargetHeight(request.mode) = 0
              THEN Score(formats, s)[1] <= Score(formats, Result.parts)[1]
              ELSE ~Higher(Score(formats, s), Score(formats, Result.parts))
=============================================================================
