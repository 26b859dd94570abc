------------------------------- MODULE Menus -------------------------------
(***************************************************************************)
(* From a link to its downloads through the menus between: the prompt the  *)
(* link answers, who may ask (AccessPolicyService), the job it makes, the  *)
(* selection or highlight tray the worker publishes for that job, and the  *)
(* jobs and further menus its buttons make (handlers.py, job_service.py,   *)
(* private_media_policy.py, the ends of process_inspection_job).  What     *)
(* runs through it is whether the user asked for private media, which only *)
(* the row of the job a menu comes from remembers.  Buttons that only turn *)
(* a page or show another keyboard change nothing and are left out.        *)
(***************************************************************************)
EXTENDS Integers, Sequences, FiniteSetsExt

CONSTANTS
  User,
  Sender,      \* bound: the users who send links; any user may press a button
  Topic,       \* what links lead to, see MenusOf
  RateLimit,   \* security.requests_per_minute
  MaxRows,     \* bound: rows of the table
  MaxMenus,    \* bound: menus published
  MaxChanges   \* bound: deaths, failed enqueues and what happens to the users

ASSUME SenderAssumption == Sender \subseteq User
ASSUME TopicAssumption == Topic \subseteq {"item", "profile", "highlights"}

VARIABLES
  rows,        \* the jobs table; askers is the history of who was given the row for what
  menus,       \* selections and highlight trays
  fsm,         \* per user, the state of the dispatcher's memory
  prompt,      \* per user, what the last prompt asked for
  again,       \* per user, the link whose update the next start replays, or "none"
  account,     \* per user, entitlement and Instagram connection
  access,      \* per user, what AccessPolicyService asks about
  changes

menuVars == <<rows, menus, fsm, prompt, again, account, access, changes>>

Nobody == [u \in User |-> "none"]

MenusInit ==
  /\ rows = <<>> /\ menus = {} /\ fsm = Nobody /\ prompt = Nobody /\ again = Nobody
  /\ account = [u \in User |-> [entitled |-> TRUE, connected |-> TRUE, generation |-> 1]]
  /\ access = [u \in User |-> [blocked |-> FALSE, member |-> TRUE, cached |-> "none", count |-> 0]]
  /\ changes = 0

Change(n) == changes + n <= MaxChanges /\ changes' = changes + n

-----------------------------------------------------------------------------
(***************************************************************************)
(* Who may ask.  A failing backend refuses the request and is left out.    *)
(***************************************************************************)
\* TelegramMembershipChecker: the cached verdict, or Telegram's on a miss or a refresh.
IsMember(u, fresh) ==
  IF fresh \/ access[u].cached = "none" THEN access[u].member ELSE access[u].cached = "in"

Asked(u, consume, fresh) ==
  IF access[u].blocked THEN access[u]
  ELSE [access[u] EXCEPT !.cached = IF IsMember(u, fresh) THEN "in" ELSE "out",
                         !.count = IF consume /\ IsMember(u, fresh) /\ @ <= RateLimit THEN @ + 1 ELSE @]

\* authorize_request
Admitted(u, consume, fresh) ==
  /\ ~access[u].blocked
  /\ IsMember(u, fresh)
  /\ consume => access[u].count < RateLimit

AskAccess(u, consume, fresh) == access' = [access EXCEPT ![u] = Asked(u, consume, fresh)]

\* authorize_private_request
PrivateAllowed(u) == account[u].entitled /\ account[u].connected

-----------------------------------------------------------------------------
(***************************************************************************)
(* JobService._create and the enqueue behind it.                           *)
(***************************************************************************)
ActiveStatuses == {"active", "uncertain"}

\* _idempotency_key
Key(kind, u, what, policy, generation) ==
  IF policy \in {"user_only", "user_first"} THEN <<kind, u, what, policy, generation>>
  ELSE <<kind, u, what, "any", 0>>

SameKey(key) == {i \in DOMAIN rows : rows[i].key = key /\ rows[i].status \in ActiveStatuses}

\* A new row is enqueued; a link and an automatic continuation enqueue an active one again.
Enqueues(row, created, caller) ==
  created \/ caller = "inspection" \/ (caller = "link" /\ row.status = "active")

\* Mutant: a failed enqueue is only reported.
HandedUnmarked(row, created, caller, ok) ==
  IF ok THEN [row EXCEPT !.entry = @ \/ Enqueues(row, created, caller)]
  ELSE row

\* Only links and downloads mark a row whose enqueue failed.
Handed(row, created, caller, ok) ==
  IF ok THEN [row EXCEPT !.entry = @ \/ Enqueues(row, created, caller)]
  ELSE IF created /\ caller \in {"link", "download"} THEN [row EXCEPT !.status = "failed"]
  ELSE row

\* Rows are numbered; table is the table before the call.
Submit(table, kind, u, what, policy, generation, origin, caller, ok) ==
  LET key == Key(kind, u, what, policy, generation)
      twins == SameKey(key)
      new == [kind |-> kind, user |-> u, what |-> what, key |-> key, policy |-> policy,
              generation |-> generation, status |-> "active", entry |-> FALSE, stuck |-> FALSE,
              origin |-> origin, askers |-> {}]
      given(row) == [row EXCEPT !.askers = @ \union {origin},
                                !.stuck = @ \/ (~ok /\ caller \in {"open", "cut", "inspection"})]
  IN IF twins = {} THEN Append(table, Handed(given(new), TRUE, caller, ok))
     ELSE [table EXCEPT ![Max(twins)] = Handed(given(@), FALSE, caller, ok)]

\* private_job_fields of an authorization, given as its generation or 0.
PolicyOf(authorization) == IF authorization = 0 THEN "none" ELSE "user_only"

Room == Len(rows) < MaxRows

-----------------------------------------------------------------------------
(***************************************************************************)
(* Prompts and links.                                                      *)
(***************************************************************************)
Up == again = Nobody

\* The state for a public link is left out: its handler does with a link what the handler
\* without a state does.
BeginPublic(u) ==
  /\ Up
  /\ fsm[u] = "private" \/ prompt[u] = "private"
  /\ fsm' = [fsm EXCEPT ![u] = "none"]
  /\ prompt' = [prompt EXCEPT ![u] = "none"]
  /\ UNCHANGED <<rows, menus, again, account, access, changes>>

BeginPrivate(u) ==
  /\ Up /\ Room
  /\ fsm' = [fsm EXCEPT ![u] = IF PrivateAllowed(u) THEN "private" ELSE "none"]
  /\ prompt' = [prompt EXCEPT ![u] = IF PrivateAllowed(u) THEN "private" ELSE "none"]
  /\ UNCHANGED <<rows, menus, again, account, access, changes>>

\* What the user asked for, and what the memory still says of it.
LinkOrigin(u) ==
  [user |-> u,
   asked |-> IF prompt[u] = "private" THEN IF fsm[u] = "private" THEN "private" ELSE "forgotten"
             ELSE "public",
   generation |-> IF fsm[u] = "private" THEN account[u].generation ELSE 0]

LinkTaken(u) == Admitted(u, TRUE, FALSE) /\ (fsm[u] = "private" => PrivateAllowed(u))

LinkRows(u, t, ok, caller) ==
  LET authorization == IF fsm[u] = "private" THEN account[u].generation ELSE 0
  IN Submit(rows, IF t = "highlights" THEN "tray" ELSE "inspection", u, t,
            PolicyOf(authorization), authorization, LinkOrigin(u), caller, ok)

\* submit_url of a link that comes from Telegram or, with the memory gone, from a replay.
\* A link that was taken leaves its state.
SubmitLink(u, t, ok) ==
  /\ AskAccess(u, TRUE, FALSE)
  /\ IF LinkTaken(u)
     THEN /\ rows' = LinkRows(u, t, ok, "link")
          /\ fsm' = [fsm EXCEPT ![u] = "none"]
          /\ prompt' = [prompt EXCEPT ![u] = "none"]
     ELSE ok /\ UNCHANGED <<rows, fsm, prompt>>
  /\ Change(IF ok THEN 0 ELSE 1)
  /\ UNCHANGED <<menus, account>>

SendLink(u, t, ok) == Up /\ Room /\ SubmitLink(u, t, ok) /\ UNCHANGED again

\* The bot dies after the row is committed; its memory of every conversation goes with it.
CutLink(u, t) ==
  /\ Up /\ Room /\ LinkTaken(u)
  /\ AskAccess(u, TRUE, FALSE)
  /\ rows' = LinkRows(u, t, FALSE, "cut")
  /\ fsm' = Nobody
  /\ again' = [again EXCEPT ![u] = t]
  /\ Change(1)
  /\ UNCHANGED <<menus, prompt, account>>

ReplayLink(u) ==
  /\ again[u] # "none"
  /\ SubmitLink(u, again[u], TRUE)
  /\ again' = Nobody

BotRestarts ==
  /\ Up /\ fsm # Nobody
  /\ fsm' = Nobody
  /\ Change(1)
  /\ UNCHANGED <<rows, menus, prompt, again, account, access>>

-----------------------------------------------------------------------------
(***************************************************************************)
(* Menus, their buttons, and authorize_continuation.                       *)
(***************************************************************************)
\* source_job_id, what the menu is of, its download buttons and whether it opens a tray.
Menu(i, topic, shows) ==
  [source |-> i, user |-> rows[i].user, topic |-> topic, shows |-> shows,
   origin |-> rows[i].origin]

IsPrivate(row) == row.policy = "user_only"

\* get_selection and get_highlight_tray (a menu that expired is gone), then the parent's row.
MayContinue(u, m) ==
  /\ m.user = u
  /\ m.source # 0 =>
       /\ rows[m.source].user = u
       /\ IsPrivate(rows[m.source]) =>
            PrivateAllowed(u) /\ account[u].generation = rows[m.source].generation

Continuation(u, m) ==
  IF m.source # 0 /\ IsPrivate(rows[m.source]) THEN account[u].generation ELSE 0

Asker(u, m) == [m.origin EXCEPT !.user = u]

PressStarts(u, m) == Up /\ AskAccess(u, FALSE, FALSE) /\ Admitted(u, FALSE, FALSE) /\ MayContinue(u, m)

\* What the handlers of the download buttons do with a button that was offered.
PressDownload(u, m, button, ok) ==
  /\ PressStarts(u, m)
  /\ button \in m.shows
  /\ rows' = Submit(rows, "download", m.user, <<m.topic, button>>, PolicyOf(Continuation(u, m)),
                    Continuation(u, m), Asker(u, m), "download", ok)
  /\ Change(IF ok THEN 0 ELSE 1)
  /\ UNCHANGED <<menus, fsm, prompt, again, account>>

ChooseNativeOption(u, m, ok) == PressDownload(u, m, "option", ok)
ChooseImageDelivery(u, m, ok) == PressDownload(u, m, "image", ok)
ChooseMediaBundle(u, m, ok) == PressDownload(u, m, "bundle", ok)
ChooseSingleStory(u, m, ok) == PressDownload(u, m, "single", ok)
ChooseAllStories(u, m, ok) == PressDownload(u, m, "all", ok) \/ PressDownload(u, m, "highlight", ok)

\* Any button of a user who may not ask, of whom the verdict is kept.
PressRefused(u) ==
  /\ Up
  /\ ~Admitted(u, FALSE, FALSE)
  /\ AskAccess(u, FALSE, FALSE)
  /\ UNCHANGED <<rows, menus, fsm, prompt, again, account, changes>>

\* The highlights of a profile: nothing catches a failed enqueue.
PressOpen(u, m, ok) ==
  /\ PressStarts(u, m)
  /\ "open" \in m.shows
  /\ rows' = Submit(rows, "tray", u, "highlights", PolicyOf(Continuation(u, m)),
                     Continuation(u, m), Asker(u, m), "open", ok)
  /\ Change(IF ok THEN 0 ELSE 1)
  /\ UNCHANGED <<menus, fsm, prompt, again, account>>

\* Mutant: the selection does not say which job it comes from.
PickWithoutSource(m) == [m EXCEPT !.topic = "highlight", !.shows = {"highlight"}, !.source = 0]

\* One highlight of a tray gets a selection that lives as long as the tray, of the same job.
PickFrom(m) == [m EXCEPT !.topic = "highlight", !.shows = {"highlight"}]

PressPick(u, m) ==
  /\ PressStarts(u, m)
  /\ "pick" \in m.shows
  /\ Cardinality(menus) < MaxMenus
  /\ menus' = menus \union {PickFrom(m)}
  /\ UNCHANGED <<rows, fsm, prompt, again, account, changes>>

MenuExpires(m) ==
  /\ menus' = menus \ {m}
  /\ Change(1)
  /\ UNCHANGED <<rows, fsm, prompt, again, account, access>>

-----------------------------------------------------------------------------
(***************************************************************************)
(* The worker.                                                             *)
(***************************************************************************)
Runs(i, kind) == rows[i].kind = kind /\ rows[i].status = "active" /\ rows[i].entry

\* A job of public media takes the user's session, or the operator's, for good when it first runs.
WithSession(row) ==
  IF row.policy # "none" THEN row
  ELSE IF account[row.user].connected
  THEN [row EXCEPT !.policy = "user_first", !.generation = account[row.user].generation]
  ELSE [row EXCEPT !.policy = "operator_public"]

Ended(row, status) == [WithSession(row) EXCEPT !.status = status, !.entry = FALSE]

\* What a link may turn out to lead to: a video, a post, a story; the picture of a profile, which
\* opens its highlights too; a tray of highlights.
MenusOf == [item |-> {{"option"}, {"bundle"}, {"single", "all"}}, profile |-> {{"image", "open"}},
            highlights |-> {{"pick"}}]

\* process_inspection_job and process_highlight_tray_job up to a menu.
PublishMenu(i, shows) ==
  /\ Runs(i, "inspection") \/ Runs(i, "tray")
  /\ Cardinality(menus) < MaxMenus
  /\ menus' = menus \union {Menu(i, rows[i].what, shows)}
  /\ rows' = [rows EXCEPT ![i] = Ended(@, "done")]
  /\ UNCHANGED <<fsm, prompt, again, account, access, changes>>

\* The automatic continuation keeps the accepted authorization; a failed enqueue is a retry.
ContinueAs(i, ok) ==
  LET row == WithSession(rows[i])
  IN Submit([rows EXCEPT ![i] = IF ok THEN Ended(@, "done") ELSE WithSession(@)],
             "download", row.user, <<row.what, "auto">>, row.policy, row.generation, row.origin,
             "inspection", ok)

AutoContinue(i, ok) ==
  /\ Runs(i, "inspection") /\ rows[i].what = "item"
  /\ rows' = ContinueAs(i, ok)
  /\ Change(IF ok THEN 0 ELSE 1)
  /\ UNCHANGED <<menus, fsm, prompt, again, account, access>>

JobEndsAs(i, status) ==
  /\ rows[i].status = "active" /\ rows[i].entry
  /\ status \in IF rows[i].kind = "download" THEN {"done", "failed", "uncertain"} ELSE {"failed"}
  /\ rows' = [rows EXCEPT ![i] = Ended(@, status)]
  /\ UNCHANGED <<menus, fsm, prompt, again, account, access, changes>>

\* /resolve by an operator.
ResolveUncertain(i) ==
  /\ rows[i].status = "uncertain"
  /\ rows' = [rows EXCEPT ![i].status = "failed"]
  /\ UNCHANGED <<menus, fsm, prompt, again, account, access, changes>>

\* A start of the worker puts every active row in the queue.
ReconcileRows ==
  [i \in DOMAIN rows |-> IF rows[i].status = "active" THEN [rows[i] EXCEPT !.entry = TRUE] ELSE rows[i]]

WorkerRestarts ==
  /\ \E i \in DOMAIN rows : rows[i].status = "active" /\ ~rows[i].entry
  /\ rows' = ReconcileRows
  /\ UNCHANGED <<menus, fsm, prompt, again, account, access, changes>>

-----------------------------------------------------------------------------
(***************************************************************************)
(* What happens to a user meanwhile.                                       *)
(***************************************************************************)
AccountChanges(u) ==
  /\ \/ account' = [account EXCEPT ![u].entitled = ~@]
     \/ account' = [account EXCEPT ![u].connected = FALSE]
     \/ account' = [account EXCEPT ![u].connected = TRUE, ![u].generation = @ + 1]
  /\ UNCHANGED access

\* The administrator's /block and /unblock, a channel left or joined, the cache's and the
\* window's time to live.
AccessChanges(u) ==
  /\ \/ access' = [access EXCEPT ![u].blocked = ~@]
     \/ access' = [access EXCEPT ![u].member = ~@]
     \/ access[u].cached # "none" /\ access' = [access EXCEPT ![u].cached = "none"]
     \/ access[u].count > 0 /\ access' = [access EXCEPT ![u].count = 0]
  /\ UNCHANGED account

UserChanges(u) ==
  /\ AccountChanges(u) \/ AccessChanges(u)
  /\ Change(1)
  /\ UNCHANGED <<rows, menus, fsm, prompt, again>>

\* "I joined": the verdict is asked of Telegram again.
Recheck(u) ==
  /\ Up
  /\ access[u].cached = "out"
  /\ AskAccess(u, TRUE, TRUE)
  /\ UNCHANGED <<rows, menus, fsm, prompt, again, account, changes>>

-----------------------------------------------------------------------------
MenusSteps ==
  \/ BotRestarts \/ WorkerRestarts
  \/ \E u \in Sender :
       \/ BeginPublic(u) \/ BeginPrivate(u) \/ ReplayLink(u) \/ UserChanges(u) \/ Recheck(u)
       \/ \E t \in Topic : CutLink(u, t) \/ \E ok \in BOOLEAN : SendLink(u, t, ok)
  \/ \E u \in User, m \in menus :
       \/ PressPick(u, m) \/ PressRefused(u)
       \/ \E ok \in BOOLEAN :
            \/ ChooseNativeOption(u, m, ok) \/ ChooseImageDelivery(u, m, ok)
            \/ ChooseMediaBundle(u, m, ok) \/ ChooseSingleStory(u, m, ok)
            \/ ChooseAllStories(u, m, ok) \/ PressOpen(u, m, ok)
  \/ \E m \in menus : MenuExpires(m)
  \/ \E i \in DOMAIN rows :
       \/ ResolveUncertain(i)
       \/ rows[i].kind # "download" /\ \E shows \in MenusOf[rows[i].what] : PublishMenu(i, shows)
       \/ \E ok \in BOOLEAN : AutoContinue(i, ok)
       \/ \E status \in {"done", "failed", "uncertain"} : JobEndsAs(i, status)

MenusNext == MenusSteps /\ Len(rows') <= MaxRows

MenusSpec == MenusInit /\ [][MenusNext]_menuVars

\* What was asked for as private media is fetched as such, however many menus and jobs lie
\* between, with the session it was accepted for and for the user who asked; a request for
\* public media is never given such a job.  "forgotten" excepts the link that answers a prompt
\* for private media which the bot's restart made it forget: its job is public.
PrivateStaysPrivate ==
  \A i \in DOMAIN rows : \A a \in rows[i].askers :
    /\ a.user = rows[i].user
    /\ a.asked = "private" <=> IsPrivate(rows[i])
    /\ a.asked = "private" => rows[i].generation = a.generation

\* A request that was given an active job has it in the queue, unless the bot died before its
\* enqueue or the enqueue of a tray or of an automatic continuation failed.
GivenIsQueued ==
  \A i \in DOMAIN rows : rows[i].status = "active" => rows[i].entry \/ rows[i].stuck
=============================================================================
