------------------------------- MODULE Cookies -------------------------------
(***************************************************************************)
(* The canonical cookie file and the health of its providers.  The bot     *)
(* merges what an administrator uploads into the file, which somebody else *)
(* may edit meanwhile (infrastructure/cookies/manager.py); refreshes of    *)
(* the bot and the worker and refusals met by the worker's jobs read and   *)
(* rewrite whole health rows                                               *)
(* (application/services/cookie_health_service.py).                        *)
(***************************************************************************)
EXTENDS Naturals

CONSTANTS
  Provider,       \* with cookies in the file
  Watched,        \* bound: those whose health is followed
  OtherRefresher, \* who refreshes without an upload: panel, startup
  RecoveryNotifications,  \* cookie_health.recovery_notifications
  MaxEvents               \* bound: edits, jobs that use cookies and deaths together

ASSUME WatchedAssumption == Watched \subseteq Provider
ASSUME RefresherAssumption == "upload" \notin OtherRefresher
ASSUME NotificationsAssumption == RecoveryNotifications \in BOOLEAN

VARIABLES
  file,     \* the canonical file: its identity, each provider's cookies, broken
  made,     \* the last content an upload or an edit has brought
  events,   \* how many edits, jobs and deaths there were
  lapsed,   \* providers whose cookies in the file are past their expiry
  merge,    \* the upload the bot is merging, under the manager's lock
  refresh,  \* the refreshes of static health under way
  job,      \* a job of the worker that uses cookies, and what follows a refusal
  row,      \* the health rows
  latest,   \* the cookies each provider should have, by the writers so far
  raced,    \* an edit fell between a merge's last look and its verification
  refused,  \* contents whose refusal the worker has recorded
  told,     \* providers whose refusal is in the operator's log
  unheard,  \* providers whose refusal was sent to the log, which did not take it
  excused   \* providers whose row lost an update, or whose alert a death cut short

fileVars == <<file, made, lapsed, latest, raced>>
healthVars == <<refresh, row, refused, told, unheard, excused>>
cookieVars == <<fileVars, merge, healthVars, job, events>>

Refresher == {"upload"} \cup OtherRefresher
NoMerge == [at |-> "idle", of |-> {}, id |-> 0, old |-> <<>>, new |-> <<>>]
NoRefresh == [at |-> "idle", todo |-> {}, loaded |-> <<>>, next |-> <<>>]
NoJob == [at |-> "idle", of |-> "none", uses |-> 0, loaded |-> <<>>]

(* Cookies nobody has checked yet, if any, or cookies whose refusal is on  *)
(* the row and in the log.                                                 *)
CookiesInit ==
  /\ \E n \in {0, 1} : file = [id |-> 0, has |-> [p \in Provider |-> n], broken |-> FALSE]
  /\ told \in {{}, {p \in Watched : file.has[p] # 0}}
  /\ row = [p \in Watched |->
              IF p \in told THEN [static |-> "healthy", failed |-> TRUE, notified |-> "auth_failed"]
              ELSE [static |-> "unverified", failed |-> FALSE, notified |-> "none"]]
  /\ refused = told \X {1}
  /\ made = 1 /\ lapsed = {} /\ events = 0
  /\ merge = NoMerge
  /\ refresh = [x \in Refresher |-> NoRefresh]
  /\ job = NoJob
  /\ latest = file.has /\ raced = FALSE
  /\ unheard = {} /\ excused = {}

Happens == events < MaxEvents /\ events' = events + 1

-----------------------------------------------------------------------------
(* The file. *)

WriteFile(has, broken) == file' = [id |-> file.id + 1, has |-> has, broken |-> broken]

(* Somebody replaces the file by other means than the bot. *)
EditOutside(P, breaks) ==
  /\ Happens
  /\ made' = made + 1
  /\ WriteFile([p \in Provider |-> IF p \in P THEN made' ELSE file.has[p]], breaks)
  /\ lapsed' = lapsed \ P
  /\ latest' = file'.has
  /\ raced' = (raced \/ merge.at \in {"swap", "verify", "restore"})
  /\ UNCHANGED <<merge, healthVars, job>>

Expire(p) ==
  /\ file.has[p] # 0 /\ p \notin lapsed
  /\ lapsed' = lapsed \cup {p}
  /\ UNCHANGED <<file, made, latest, raced, merge, healthVars, job, events>>

(* merge: an upload for the providers P; a file that does not parse is     *)
(* left alone.                                                             *)
ReadForMerge(P) ==
  /\ merge.at = "idle" /\ refresh["upload"].at = "idle"
  /\ ~file.broken
  /\ Happens
  /\ made' = made + 1
  /\ merge' = [at |-> "backup", of |-> P, id |-> file.id, old |-> file.has,
               new |-> [p \in Provider |-> IF p \in P THEN made' ELSE file.has[p]]]
  /\ UNCHANGED <<file, lapsed, latest, raced, healthVars, job>>

\* Mutant: the file is not looked at again.
LookAway(at, next) ==
  /\ merge.at = at
  /\ merge' = [merge EXCEPT !.at = next]
  /\ UNCHANGED <<fileVars, healthVars, job, events>>

(* Before the backup, a hard link, and before the rename the file must     *)
(* still be the one that was read.                                         *)
LookAgain(at, next) ==
  /\ merge.at = at
  /\ merge' = IF file.id = merge.id THEN [merge EXCEPT !.at = next] ELSE NoMerge
  /\ UNCHANGED <<fileVars, healthVars, job, events>>

Swap ==
  /\ merge.at = "swap"
  /\ WriteFile(merge.new, FALSE)
  /\ lapsed' = lapsed \ merge.of
  /\ latest' = [p \in Provider |-> IF p \in merge.of THEN merge.new[p] ELSE latest[p]]
  /\ merge' = [merge EXCEPT !.at = "verify"]
  /\ UNCHANGED <<made, raced, healthVars, job, events>>

(* _verify_replacement; what follows is a refresh that clears the refusal. *)
Verify ==
  /\ merge.at = "verify"
  /\ IF file.has = merge.new /\ ~file.broken
       THEN /\ merge' = NoMerge
            /\ refresh' = IF merge.of \cap Watched = {} THEN refresh
                          ELSE [refresh EXCEPT !["upload"].at = "load", !["upload"].todo = merge.of \cap Watched]
       ELSE /\ merge' = [merge EXCEPT !.at = "restore"]
            /\ UNCHANGED refresh
  /\ UNCHANGED <<fileVars, row, refused, told, unheard, excused, job, events>>

Restore ==
  /\ merge.at = "restore"
  /\ WriteFile(merge.old, FALSE)
  /\ latest' = merge.old
  /\ merge' = NoMerge
  /\ UNCHANGED <<made, lapsed, raced, healthVars, job, events>>

-----------------------------------------------------------------------------
(* refresh_static. *)

(* static_health, which reads the file and nothing else. *)
StaticHealth(p) ==
  CASE file.broken -> "malformed"
    [] ~file.broken /\ file.has[p] = 0 -> "missing"
    [] ~file.broken /\ file.has[p] # 0 -> IF p \in lapsed THEN "expired" ELSE "healthy"

Combined(r) == IF r.failed THEN "auth_failed" ELSE r.static

\* Mutant: every check forgets the refusal.
ForgetRefusal(previous, static, clears) ==
  [previous EXCEPT !.static = static, !.failed = FALSE]

(* A refusal stays on the row, unless the refresh follows an upload. *)
MergeStatic(previous, static, clears) ==
  [previous EXCEPT !.static = static, !.failed = @ /\ ~clears]

(* _should_alert; a reminder is due after some time in one state. *)
ShouldAlert(notified, status, reminderDue) ==
  CASE notified = "none" -> status \notin {"healthy", "unverified"}
    [] notified = status -> reminderDue /\ status \notin {"healthy", "unverified"}
    [] notified # "none" /\ notified # status -> status = "healthy" => RecoveryNotifications

Alerted(r) == [r EXCEPT !.notified = Combined(r)]

(* The panel and the worker's start check every provider. *)
BeginRefresh(x) ==
  /\ x \in OtherRefresher /\ refresh[x].at = "idle"
  /\ refresh' = [refresh EXCEPT ![x].at = "load", ![x].todo = Watched]
  /\ UNCHANGED <<fileVars, merge, row, refused, told, unheard, excused, job, events>>

(* All rows are loaded once, before the first provider is checked. *)
LoadRows(x) ==
  /\ refresh[x].at = "load"
  /\ refresh' = [refresh EXCEPT ![x].at = "check", ![x].loaded = row]
  /\ UNCHANGED <<fileVars, merge, row, refused, told, unheard, excused, job, events>>

NextProvider(x, p) ==
  IF refresh[x].todo = {p} THEN NoRefresh
  ELSE [refresh[x] EXCEPT !.at = "check", !.todo = @ \ {p}, !.next = <<>>]

CheckFile(x, p) ==
  /\ refresh[x].at = "check" /\ p \in refresh[x].todo
  /\ refresh' = [refresh EXCEPT
       ![x].at = "save",
       ![x].next = <<p, MergeStatic(refresh[x].loaded[p], StaticHealth(p), x = "upload")>>]
  /\ UNCHANGED <<fileVars, merge, row, refused, told, unheard, excused, job, events>>

(* A row replaces whatever was written since its old form was read. *)
Save(p, new, old) ==
  /\ row' = [row EXCEPT ![p] = new]
  /\ told' = IF new.failed THEN told ELSE told \ {p}
  /\ unheard' = IF new.failed THEN unheard ELSE unheard \ {p}
  /\ excused' = IF row[p] = old THEN excused ELSE excused \cup {p}

(* The whole row is saved, and once more when there is an alert; its       *)
(* callers drop the alert itself.                                          *)
SaveRow(x) ==
  /\ refresh[x].at = "save"
  /\ LET p == refresh[x].next[1]
         new == refresh[x].next[2]
     IN /\ Save(p, new, refresh[x].loaded[p])
        /\ \E due \in BOOLEAN :
             IF ShouldAlert(refresh[x].loaded[p].notified, Combined(new), due)
               THEN refresh' = [refresh EXCEPT ![x].at = "mark"]
               ELSE refresh' = [refresh EXCEPT ![x] = NextProvider(x, p)]
  /\ UNCHANGED <<fileVars, merge, refused, job, events>>

SaveAlert(x) ==
  /\ refresh[x].at = "mark"
  /\ LET p == refresh[x].next[1]
         new == refresh[x].next[2]
     IN /\ Save(p, Alerted(new), new)
        /\ refresh' = [refresh EXCEPT ![x] = NextProvider(x, p)]
  /\ UNCHANGED <<fileVars, merge, refused, job, events>>

-----------------------------------------------------------------------------
(* A job takes the cookies of the file and the site refuses them:          *)
(* update_from_auth_failure, then _emit_cookie_health_event.               *)

TakeCookies(p) ==
  /\ job.at = "idle"
  /\ ~file.broken /\ file.has[p] # 0
  /\ Happens
  /\ job' = [NoJob EXCEPT !.at = "fetch", !.of = p, !.uses = file.has[p]]
  /\ UNCHANGED <<fileVars, merge, healthVars>>

Refuse ==
  /\ job.at = "fetch"
  /\ job' = [job EXCEPT !.at = "save", !.loaded = row[job.of]]
  /\ UNCHANGED <<fileVars, merge, healthVars, events>>

Accept ==
  /\ job.at = "fetch"
  /\ job' = NoJob
  /\ UNCHANGED <<fileVars, merge, healthVars, events>>

Failed(r) == [r EXCEPT !.failed = TRUE]

(* The refresh after an upload will take back whatever was refused. *)
Clearing(p) ==
  \/ merge.at = "verify" /\ p \in merge.of
  \/ p \in refresh["upload"].todo

SaveRefusal ==
  /\ job.at = "save"
  /\ LET p == job.of
         races == Clearing(p) \/ row[p] # job.loaded
     IN /\ row' = [row EXCEPT ![p] = Failed(job.loaded)]
        /\ refused' = refused \cup {<<p, job.uses>>}
        /\ \E due \in BOOLEAN :
             job' = IF ShouldAlert(job.loaded.notified, "auth_failed", due)
                      THEN [job EXCEPT !.at = "mark"] ELSE NoJob
        /\ excused' = CASE races -> excused \cup {p}
                        [] ~races /\ (p \in told \cup unheard \/ job' # NoJob) -> excused \ {p}
                        [] OTHER -> excused
  /\ UNCHANGED <<fileVars, merge, refresh, told, unheard, events>>

MarkAlert ==
  /\ job.at = "mark"
  /\ row' = [row EXCEPT ![job.of] = Alerted(Failed(job.loaded))]
  /\ excused' = IF row[job.of] # Failed(job.loaded)
                  THEN excused \cup {job.of} ELSE excused
  /\ job' = [job EXCEPT !.at = "emit"]
  /\ UNCHANGED <<fileVars, merge, refresh, refused, told, unheard, events>>

(* The alert counts as given by then.  Where the audit is unavailable, or  *)
(* does not take the event, the job goes on without it.                    *)
Emit ==
  /\ job.at = "emit"
  /\ \/ told' = told \cup {job.of} /\ unheard' = unheard \ {job.of}
     \/ UNCHANGED told /\ unheard' = unheard \cup ({job.of} \ told)
  /\ job' = NoJob
  /\ UNCHANGED <<fileVars, merge, refresh, row, refused, excused, events>>

-----------------------------------------------------------------------------
(* Rows that were saved, but not what was told of them. *)
HalfSaved(X) == {refresh[x].next[1] : x \in {y \in X : refresh[y].at = "mark"}}

BotDies ==
  /\ merge.at # "idle" \/ \E x \in Refresher \ {"startup"} : refresh[x].at # "idle"
  /\ Happens
  /\ merge' = NoMerge
  /\ refresh' = [x \in Refresher |-> IF x = "startup" THEN refresh[x] ELSE NoRefresh]
  /\ excused' = excused \cup HalfSaved(Refresher \ {"startup"})
  /\ UNCHANGED <<fileVars, row, refused, told, unheard, job>>

WorkerDies ==
  /\ job.at # "idle" \/ \E x \in Refresher \cap {"startup"} : refresh[x].at # "idle"
  /\ Happens
  /\ excused' = excused \cup HalfSaved(Refresher \cap {"startup"})
                 \cup (IF job.at \in {"mark", "emit"} THEN {job.of} ELSE {})
  /\ job' = NoJob
  /\ refresh' = [x \in Refresher |-> IF x = "startup" THEN NoRefresh ELSE refresh[x]]
  /\ UNCHANGED <<fileVars, merge, row, refused, told, unheard>>

CookiesNext ==
  \/ \E P \in (SUBSET Provider) \ {{}}, breaks \in BOOLEAN : EditOutside(P, breaks)
  \/ \E P \in (SUBSET Provider) \ {{}} : ReadForMerge(P)
  \/ LookAgain("backup", "check")
  \/ LookAgain("check", "swap")
  \/ Swap \/ Verify \/ Restore
  \/ \E p \in Watched : Expire(p)
  \/ \E x \in Refresher : \/ BeginRefresh(x) \/ LoadRows(x) \/ SaveRow(x) \/ SaveAlert(x)
                          \/ \E p \in Watched : CheckFile(x, p)
  \/ \E p \in Watched : TakeCookies(p)
  \/ Refuse \/ Accept \/ SaveRefusal \/ MarkAlert \/ Emit
  \/ BotDies \/ WorkerDies

CookiesSpec == CookiesInit /\ [][CookiesNext]_cookieVars

-----------------------------------------------------------------------------
(* Properties. *)

(* An upload or an edit is undone only by an edit that fell between a      *)
(* merge's last look at the file and the end of its verification: whatever *)
(* was edited while the upload was parsed and backed up stays.             *)
WritesSurvive == raced \/ file.has = latest

(* Cookies that a site has refused while they are in the file are shown as *)
(* refused, and are in the operator's log or were sent to it and the log   *)
(* did not take the event, until they are replaced, unless the refusal met *)
(* a refresh, a merge or a death midway.                                   *)
RefusalIsTold ==
  \A p \in Watched :
    (<<p, file.has[p]>> \in refused /\ job.at = "idle" /\ p \notin excused /\ ~raced)
       => row[p].failed /\ p \in told \cup unheard
=============================================================================
