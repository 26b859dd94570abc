# Verification of the Telegram media downloader

TLA+ models of `src/src/telegram_media_bot` (paths below are relative to it), checked with
TLC and, where section 4 says so, proved with TLAPS for every value of the constants.

## 1. The system

Two processes, the **bot** (aiogram, long polling) and the **worker** (ARQ), share one
SQLite file in WAL mode and one Redis; a third, the **web companion**, shares the SQLite
file. A user sends a link; the bot commits a row to the `jobs` table and offers the job to
ARQ; the worker inspects or downloads, delivers files to Telegram and commits the outcome.

| component | state it keeps | operations | talks to |
|---|---|---|---|
| jobs table (`infrastructure/persistence/sqlite_repository.py`) | status, cancel flag, recoverability class and count, idempotency key, usage events, receipts, selections | `create_job`, `transition`, `complete_download`, `cancel_job`, `finalize_cancelled`, `reconcile_abandoned`, recovery and purge transactions | both processes |
| ARQ adapter (`infrastructure/queue/arq_queue.py`) | Redis keys `arq:job`, `arq:retry`, `arq:in-progress`, `arq:result`, `arq:abort` | `enqueue_*`, `abort_job` | Redis, worker |
| worker (`workers/settings.py`, `workers/jobs.py`) | attempts in flight, leases, cancellation probe | `startup`, `process_{inspection,download,highlight_tray}_job`, `maintenance_job`, `audit_dispatch_job`, `shutdown` | everything |
| recovery (`application/services/job_recovery_service.py`) | remediation flags in the table | cookie, app-fix and maintenance batches, startup reconciliation | jobs table, queue |
| Telegram handlers (`telegram/handlers.py`, `telegram/user_menu.py`) | aiogram FSM in memory, selections, highlight trays | submission, prompts, choices, cancel, `/resolve` | jobs table, queue, access policy |
| access policy (`application/services/access_policy.py`, ...) | block list, membership cache, rate limit | `authorize_request` | handlers |
| inbound updates (`telegram/durable_polling.py`, `application/services/durable_update_inbox.py`) | inbox rows and claims | store, claim, complete, fail, replay, purge | handlers |
| effect ledger (`application/services/effect_ledger.py`) | reserved and completed side effects | reserve, complete, mark uncertain, purge | handlers, Telegram |
| delivery (`telegram/delivery.py`, `application/services/instagram_delivery.py`) | receipts per item | single file, multipart, album, batch | Telegram |
| media engines (`infrastructure/ytdlp`, `infrastructure/gallerydl`, `infrastructure/media_engine_router.py`) | an inspection, a plan, downloaded files | inspect, select, download, check, transcode | sites, worker |
| audit outbox (`application/services/audit_outbox.py`, `delivery_output_audit.py`, ...) | outbox rows with leases, output intents | enqueue, lease, dispatch, retry, mirror | Telegram log chats |
| payments, entitlements (`application/services/billing.py`, ...) | orders, reservations, claims, grants, subscriptions | checkout, callback, reconciliation, settle, grant, revoke | gateways |
| Instagram credentials (`application/services/credential_vault.py`, ...) | encrypted session with its generation, leases | connect, replace, resolve, lease, invalidate, fall back | worker, web companion |
| web companion (`application/services/handoff.py`, `infrastructure/web_companion`) | handoff nonces, browser sessions, login attempts | mint, exchange, step, store | credentials |
| cookies (`infrastructure/cookies/manager.py`, `application/services/cookie_health_service.py`) | cookie file, backups, health rows | merge, verify, restore, refresh, refuse, alert | engines, recovery, logger |
| workspaces (`infrastructure/storage/workspace.py`) | job and inspection directories | cleanup, sweep | worker |
| Local Bot API (`infrastructure/telegram/local_api.py`) | migration state, leases, start lock | migrate, roll back, start, stop | both processes |

What is hard: two processes interleave between any two SQLite transactions or Redis
commands; ARQ's enqueue with a fixed id is a silent no-op while an entry or a result is
there; a worker can die, be stopped or time out between an upload and its commit; a cancel
races every status write; retries, recoveries, resubmissions and restarts all put the same
job to work again; services read a row, await, and save it later; providers change what they
offer between the menu and the file. `PROJECT.json` lists each hazard at its line.

What makes each component correct:

* jobs table: cancellation and success are final, one usage event per download;
* queue: one attempt per job, every entry leaves the queue;
* worker: the row says so before a file reaches Telegram, an interrupted delivery is not
  repeated, an accepted request reaches an outcome;
* recovery: bounded, and whatever a fresh cookie can cure is tried again;
* handlers: what was asked for as private media stays private, a given job is queued;
* inbox and effects: an update is handled at least once, its visible effect at most once;
* delivery: items arrive in order, once each; a local copy outlives its receipt; an unknown
  outcome is never called a success or a failure;
* engines: the file is what the menu promised, a post is one version of it;
* outbox: an event reaches a channel at most once, a closed channel is quiet;
* payments: an order settles once, a grant stands for a paid invoice, paid time has no holes;
* credentials: a replaced session is not expired by a late refusal, one job uses it at a time;
* companion: a link opens one browser session and saves one login;
* cookies: an edit is not lost, a refusal is told;
* workspaces: a sweep takes no files of an attempt under way;
* Local Bot API: `logOut` at most once, a running client has its server.

## 2. Modules

| module | models |
|---|---|
| `Jobs` | what a job is: kind and idempotency key |
| `JobStore` | the jobs table, one operator per transaction; `StoreNext` is all that can happen to it |
| `ArqQueue` | ARQ's Redis keys as the adapter and the worker settings use them; `QueueNext` likewise |
| `JobLifecycle` | bot, worker and time over the two |
| `JobPromise` | the abstract promise: outcomes of a request, no queue, worker or crash |
| `Updates`, `InboundUpdates` | Telegram's updates; the `inbound_updates` table and `DurableUpdateInbox` |
| `EffectLedger` | the `telegram_effects` table |
| `UpdatePolling` | getUpdates, the polling loop, the replay, and the handlers that create jobs over the two tables |
| `Delivery` | one delivery run: what reaches the chat, what the table knows of it, what is deleted |
| `Gateways`, `Subscriptions` | the gateways' answers as functions; grants, windows and the projection |
| `Billing` | checkout, the three checkers and the admin over the two |
| `AuditOutbox` | log channels, outbox rows, dispatchers |
| `OutputMirror` | the mirroring of delivered files over the outbox |
| `InstagramSessions` | one user's session, its lease, and the jobs that borrow it |
| `WebCompanion` | links, browser sessions and logins over that vault |
| `Menus` | links, prompts, menus, buttons and the jobs they make |
| `FormatSelection`, `FormatSearch` | the choice among formats; the bounded best-first search as a loop |
| `VideoDownload` | from the menu of a video to its file |
| `PostDownload` | a social post through the routed engines |
| `RecoveryBatches` | the batches of both processes over jobs, markers and queue |
| `Workspaces`, `Cookies`, `LocalApi` | directories and sweeps; the cookie file and its health; the local server |
| `MC...` | small instances; `MCMaintenance`, `MCAccounts` and `MCHost` hold several that share no state |
| `...Proofs` | the theorems of section 4 |

`JobLifecycle` composes `JobStore` and `ArqQueue`; `UpdatePolling` composes `InboundUpdates` and
`EffectLedger`; `Billing` composes `Gateways` and `Subscriptions`; `OutputMirror` extends
`AuditOutbox`, `WebCompanion` extends `InstagramSessions`. `Delivery` is the inside of what `JobLifecycle` sees
between `StartDelivery` and the outcome of an attempt; `RecoveryBatches` has the batches that
`JobLifecycle` sees per job; `Menus` has what comes before a job. They are kept apart, since
each sees of the others only the fields it names.

Operators with the comment "Mutant" (`CapBelowPerUser`,
`TerminalizeUnleased`, ...) are faulty variants of the operator beside them: putting one in its place makes
TLC report the property `PROJECT.json` names beside it under "mutants". No specification uses
them.

### How `JobLifecycle` corresponds to the code

Each action is one transaction or one Redis command plus the local step around it, so every
point where a process can die lies between two actions.

* `botStep[j]` is the program counter of the running handler. `durable_poll` feeds the
  dispatcher one update at a time, hence `BotFree` before a new handler starts. The
  handler's catch of an enqueue error (`EnqueueRaises`, `MarkEnqueueFailed`,
  `CountFailure`) is modelled with the error that reached Redis and the one that did not.
* `worker`, `todo`, `owed`: the startup sequence of `settings.py` in its order, and a
  recovery batch's committed but not yet enqueued job.
* `pc[j]`: where the attempt of `process_*_job` stands; `loaded` is after the early
  returns, `giving_up` after the cancel check of `_handle_controlled_failure`, and so on.
  The generic `except Exception` and the controlled failure make the same writes in the
  same order and share actions.
* `uploads`, `excused`: history. `uploads[j]` counts delivery runs in which Telegram may
  have received a file, `excused[j]` becomes true at the events after which the code may
  deliver again (section 3). No guard reads either.

Left out of `JobLifecycle`: media acquisition, credential attempts, progress edits,
notifications, audit and metrics, which write none of these columns. A store that raises is modelled where the code catches
it and goes on (`Fail`, `LoseQuarantine`); elsewhere it leaves the state `JobTimeout`
leaves. The startup's abort of rows with a cancel flag but no cancelled status is not
modelled: `cancel_job` writes both in one UPDATE, and `CancelFlagged` proves no such row
exists (they come from databases of older releases).

### How `UpdatePolling` corresponds to the code

* `inbox[u]`, `attempts[u]` and `effect[u]` are the rows; `Durable` rows may have been
  purged since. `confirmed` is what Telegram has forgotten: getUpdates with an offset
  acknowledges everything below it.
* `phase`, `offset`, `next..last`, `failures`, `todo` are the locals of `durable_poll`:
  phase "record" is its phases 1 and 2, phase "feed" its phase 3 and the replay (the same
  loop over a different list). A crash loses all of them and none of the rows.
* `current`, `step`, `path` are the running handler. Its steps are the transactions and the
  calls to Telegram and Redis of `submit_url` (for a link) or of the option handlers (for
  an update in `Choice`), in their order: a fresh link sends its status message before the
  enqueue, a known one after it.
* `job[u]` is the row with the key of update `u`: it is active until it ends; what happens
  to it in between is `JobLifecycle`. `handed` holds the updates whose latest job was
  enqueued.
* `Refuse` stands for every answer that is a no, `HandlerRaises` for an exception at any
  point outside the handler's own try blocks, `Crash` for a death at any point.
* `starts`, `killed`, `sends`, `accepted`, `excused`, `overlooked` are history; no guard reads
  them. `excused[u]` counts the events the ledger cannot know of: a crash between the answer of
  Telegram and its write, and the purge of the row by its age. `overlooked` holds updates that a
  redelivered tombstone passed while their row waited beyond the replay limit.

Left out: FSM state, menus, handlers that change no job, and the edit of a status message
that was already sent. Update ids are consecutive (gaps would only widen a batch). Telegram
keeps an update for 24 hours; the model never drops one. The inbox purge takes rows of
confirmed updates only, since retention is at least a day.

### How `Delivery` corresponds to the code

* `plan` is what the download produced and the settings that steer its delivery. `route` is the
  branch taken: `RoutedDeliveryGateway.deliver` for `single`, `_deliver_artifacts`,
  `_deliver_instagram_media`, and `_deliver_batch` for a `collection`. An item's kind says
  whether Telegram shows it inline; a large one is above the upload limit.
* `first..last` is the call under way (an album, or one file), `piece` the volume or the manifest
  of a split file, `singly` how far an album refused by Telegram has been taken apart, `kept`
  the receipts of that call already in the table, `receipts` the length of the receipt list.
* `step` is where the run stands. A whole file or an album stores its receipts and then sends the
  replies with the source link (`deliver`, `deliver_album`); a part sends the link first, because
  its receipt is stored by `_deliver_multipart` after `deliver` has returned.
* `chat` is what Telegram has; a call that lands appends its whole album. `rows` are the
  `delivery_items` by ordinal, `stored` (history) every message ever stored there, `gone` the
  deleted files, `failed` the items a collection gave up.
* A refusal (`TelegramBadRequest`) delivers nothing; an unanswered call may have delivered, and so may
  an answer that names no file: both become a `DeliveryError`. An answer that aiogram cannot decode
  (`ClientDecodeError`) is no `TelegramAPIError`, so nothing in `delivery.py` takes it, not even a
  collection: `AnswerUndecoded` ends the run in the worker's generic handler. A call
  interrupted by `job_timeout` or a stop may have delivered too. `verdict` is the worker's: success,
  quarantine (`uncertain`), a failure, an unexpected error (`unexpected`: a retry, or a failure on the
  last try), the user's cancellation, or an interruption whose row `JobLifecycle` follows.

Left out: captions, progress, heartbeats, names; the failure of an unlink (the file then stays,
which no property forbids); `upload_as_document`, which only removes the second attempt as a
document. 7-Zip is one step that makes `Volumes` volumes and a manifest, or fails.

### How `Billing`, `Gateways` and `Subscriptions` correspond to the code

* `orders`, `reservation`, `claims`, `grants`, `subs` are the tables; `invoice` is what the
  gateway holds. `checkout[o]`, `check[c]` and `admin` are the coroutines between two
  transactions, with the rows they have read: whoever saves a row later saves what was read.
* `Checker` is the worker's cron, the companion's callback endpoint and the user's check button;
  all three end in `confirm_order_atomic`, one transaction, or in `_update_order_status`.
* `Gateways` gives each client's answer to a create call, an inquiry and a confirmation as a set
  of outcomes: accepted, refused, ambiguous or unsupported.
* Time is a number of ticks, a plan lasts `Months` ticks; `GrantWindows` is `grant_windows`.
* `raced`: users whose projection the admin wrote from an older read; `rewritten`: orders that
  somebody saved from a row that had been changed since. Both are history.

Left out: refunds, reversals, `cancel_subscription` and `claim_provider_transaction` (without a
caller in the repository), prices and texts. Where the code departs from its documents and no
run is spent on it: a pending order without a provider reference is never expired, a confirmed
payment clears an operational suspension, an ambiguous create is never inquired about.

### How `AuditOutbox` and `OutputMirror` correspond to the code

* `dest` are the channels with configuration, runtime switch and health; `outbox` has one row per
  event and channel, with the ticks its lease or pause has left; `dispatcher` the overlapping
  `dispatch_batch` coroutines, each step one transaction or one call to Telegram.
* `landed` counts arrivals; an unanswered call may have landed.
* `intents`, `completed` and the events are the mirror's tables; `finalizer[f]` is a `finalize`
  under way, by a job's handler or by the maintenance cron with its list read earlier; a job is its
  status and its stamp (`updated_at`), which makes the event's content.

Left out: texts, redaction, the CLI's reports. Intents of purged jobs stay in the list and fill
its oldest fifty places: `Blocked` names it.

### How `InstagramSessions` and `WebCompanion` correspond to the code

* `credential` is the vault's row with its generation; `connecting` and `leaving` are
  `store_session` and `disconnect` between read and write, so two logins may write the same
  generation (`Twins`).
* `job` and `attempt` are a row's phase and frozen generation and the attempt in its thread:
  public, the user's session, the operator's. `SessionsAssumption`: a job that continues an
  inspection is private exactly when the inspection is.
* `link`, `consumed` (on disk), `browser`, `login` and `request` are the companion's tables and
  the requests under way; those in memory are lost with `CompanionDies`. `Outlived` are links whose
  store goes on in its thread while their attempt is dropped, which may also be done by a late
  answer that pops a newer attempt (`flow.py:112-130`); `excused` collects them.

Left out: encryption, key rotation, the event journal, pages, CSRF tokens and headers.

### How `Menus` corresponds to the code

* `rows` are jobs with kind, owner, policy and frozen generation; `askers` is the history of who
  was given the row for what. `menus` are selections and highlight trays, `fsm` and `prompt` what
  the dispatcher keeps in memory, `again` the link whose update the next start replays.
* Each button that makes a job or a menu is an action; page and keyboard buttons change nothing.
* "forgotten" is a link that answers a prompt for private media which the bot's restart lost
  (`bot_app.py:115`, as `docs/ARCHITECTURE.md:598` says): its job is public.

Left out: the state of a public prompt (a link without one is public, too), backends that fail
(they refuse), and the worker's second look at the authorization of a private job.

### How the media modules correspond to the code

* `FormatSelection`: a format is height, codecs, type, range and announced size. `Selected` is
  the result of `bounded_format_selector` and the checks around it, `BestOf` yt-dlp's choice;
  `FormatSearch` is the selector's loop, one turn per step. Ids are places in yt-dlp's ranking.
* `VideoDownload`: `Options` has the option of every turn of the loops of
  `_inspect_format_options`, `CatalogOf` what the menu shows of them, `Choice` what the job
  carries; `Select`, `Transfer`, `Check`, `Transcode` and `Limit` are the stages of
  `YtDlpEngine.download`. `Drift` changes the provider's formats at any point; what arrives may have
  another picture or sound than announced, or no sound (`Streams`).
* `PostDownload`: `seen` has the version of the post each call met, `fetch` the job's choice, plan
  and files; `Edit` changes the post between any two calls. Lists are taken by places (`Nth`, `At`):
  what a list holds at the nth place of a set, counted, so that proofs can speak of them. A file in
  an image's place must be an image; one in a video's place only needs a duration and a height, which
  ffprobe also tells of a JPEG or a GIF: `Measured` has such images (`PassesFor`).

External: extractors, ffmpeg, gallery-dl's process; each is one step with its outcomes. Left out of
`BaseSelection`: yt-dlp's fallback of `b` for sites that offer pictures without sound only
(`incomplete_formats`), which the search does not touch.

### How the upkeep modules correspond to the code

* `RecoveryBatches`: `pass[x]` is what the bot's upload handler, the worker's maintenance or its
  startup is doing, with the list it has read; a list is a set of places of `order`
  (`updated_at`). `EnqueueLands` is the enqueue and the mark of the notification behind it.
* `Workspaces`: `sweep[s]` holds the directories a sweep has found and what it knew then; the
  removal of a tree is one step. A row ends when its attempt does (`AttemptEnds`: failed, done, to be
  retried, or still `running` when the worker stops) or, with `Cancelled`, at once, while the attempt
  writes on. `AttemptDelivers` removes what was delivered before it writes the success; `ThreadOutlasts`
  is the download's thread that the worker no longer waits for, and behind which nobody cleans up;
  `AttemptSkipped` an entry whose row had ended. A job's token (18 bytes) is longer than a
  `mkdtemp` name, hence `DirectoriesDiffer`.
* `Cookies`: one file, a merge in steps (read, look again, swap, verify, restore) under the
  manager's lock, and health rows that are read and saved whole. yt-dlp does not write the file
  back (`engine.py:79-82`), so only merges and outside edits do. The alerts that a refresh returns are
  dropped by every caller (against `docs/tasks/T029-error-cookie-migration.md:31-32,72`). `unheard` has the
  providers whose alert was marked as given and then not taken by the log (`jobs.py:2181-2212`).
* `LocalApi`: each client and the operator's migration as steps on the state file, the leases
  and the server. `starter` is who spawned the server's process: it looks until its deadline, and then
  terminates it without looking again, in a step of its own (`StarterKills`, `OperatorKills`). A start lock
  that looks old is taken over, so two starters may meet (`Spawn`): one process gets the port, the last
  record of a process stays, and a `Stop` that finds no record does nothing.

Left out of `LocalApi`: the start, stop and serve commands, a crash of the server once it has
answered, external servers, PID namespaces, and two migrations at once.

## 3. Runs

Every run checks the deepest statements of its modules; what the theorems of section 4 already say
of every instance, and no run needs again, stays a theorem (`SafetyInv`, `InboxInv`,
`EndedNeverRuns`, `RunsAreBounded`, `DeliveryInv`, `StoredBeforeNext`, `UploadsAreMarked`, `OvershootIsOne`). Deadlock is only checked in
`updates_live`: elsewhere a job ends, a bound is reached, or the system may really stop.

| run | question | states |
|---|---|---|
| `lifecycle_download` | under every fault and two stops, when may a download upload twice, and is a cancellation final? | one download |
| `lifecycle_pair` | do a tray and a download disturb one another, and does the lifecycle implement `JobPromise`? | two jobs, one stop |
| `lifecycle_live` | does every entry leave the queue, and every request reach an outcome? | one download, two stops |
| `updates_live` | is anything acknowledged before it is recorded, run out of order, sent twice, accepted and lost; is every update run? | a link and a choice, one crash |
| `delivery_runs` | do files arrive once and in order, keep their receipts before anything is deleted or sent on, and does the verdict fit what happened? | 1 to 7 items |
| `billing_races` | does an order settle once, with one grant and a current projection, whoever writes in between? | one order, two gifts |
| `maintenance` | is an event sent at most once, a closed channel quiet, a delivered job mirrored; is everything settled in the end? | two events, two orders |
| `accounts` | does a job use the session it may use, a link connect once, private media stay private? | two jobs, two browsers, two users |
| `recovery` | is every failed job tried again once its site got a cookie, and none too often? | three jobs, two sites |
| `host` | is the file what the menu promised, a post one version; do files, cookies and server survive each other? | six parts |

Bounds, and why they are enough:

* `MCJobLifecycle`: `MaxTries` 2 has a first try, a last try and a refusal; `MaxStops` 2 a crash
  during the recovery from a crash; `MaxRecovery` 2 a recovery of a recovered job. One job
  suffices for what quantifies over single jobs, `lifecycle_pair` has two.
* `MCUpdatePolling`: two updates are a predecessor and a successor; `ReplayLimit` 1 is below the
  backlog a crash can leave, so replayed and redelivered updates mix. Two failed serializations make a tombstone. One crash
  reaches every crash point.
* `MCDelivery`: every plan of up to three items over every sort and size has a split item
  before, between and after whole ones; up to seven images with albums of three give an album after an album, a
  shortened one and a left-over; two volumes give a first, a middle and a last part.
* `MCBilling`: two of checkout, checkers and admin at a time (`TwoAtATime`), for every race has two
  sides; two gifts make windows that stack, one order and one death.
* `MCMaintenance`: three parts that share no state, each behaviour of one of them (the runs of one
  cfg, not a composition): two dispatchers over an album and a report with one change of the channels and `Lease`
  1; two mirrored outputs with a list of one; two orders of which one raises.
* `MCAccounts`: three parts likewise. Two of three jobs meet within one lease, one mishap (death,
  disconnection, cancellation); two browsers over two ticks, which outlive a link; three rows and
  three menus reach a tray, its highlight and its download. Links, logins and requests are
  interchangeable, so their symmetry is sound for invariants.
* `MCRecovery`: the oldest job is a tray of another site, two jobs share user and site, the window
  has two rows: caps, windows and the marker meet. One incident (upload, start or ageing) more.
* `MCHost`: six parts likewise. Every mix of three pictures and two sounds for the search; two
  drifts (away and to something else) for the video; posts of up to three of four items with three
  edits, for what a single video can hide takes three (an image comes behind it, goes, and
  a video comes in its place), and with one image that is `Measured` and one that is not; two sweeps; two outside
  events for the cookie file; two clients and the operator for the server, so that one starts it and another finds it.

Fairness, where a run checks liveness:

* `JobLifecycle` (`FairSpec`): containers restart (`restart: unless-stopped`), coroutines run on,
  `job_timeout` bounds each attempt, Redis expires the in-progress key. Nothing is assumed of
  users, administrators, results' expiry or the purge.
* `UpdatePolling`: the container restarts, a poll is answered in the end
  (`durable_poll` retries for ever), and the loop runs on. Crashes are bounded there, since a
  process that dies at every start serves nobody.
* `MCMaintenance`: the cron starts its passes, passes run on (every call has a timeout), the clock goes
  on. Nothing is assumed of answers or administrators.
* `RecoveryBatches`: the worker's passes run on and jobs' runs end; the bot may stop for good.

Runs that end in a violation show where the code does not do what its documents say;
`PROJECT.json` "findings" quotes both:

| run | what happens |
|---|---|
| `shutdown_strands` | the retry counter survives a shutdown; ARQ refuses the job and its row stays queued |
| `terminal_rewritten` | a checkout's last save, or a closing save, of a row read earlier turns a settled order back into a pending or an expired one |

Other places where the code departs from its documents are named exceptions of properties that
hold:

* `RepeatUploadExplained`: an error after an upload that is no `DeliveryError` (it is
  retried and delivers again), a timeout that leaves `delivering` and a later continuation, and
  `/resolve` on a job whose first failure was recoverable.
* `KeepsPromise` is checked without faults, and proved where `EnqueueIsKnown`: an enqueue that
  raises after Redis took it makes the handler fail a job that runs.
* `SendsExplained`: a crash in the middle of a call to Telegram, whose reservation stays pending.
  `RunsAreBounded` does not count starts that end with the process.
* `FirstRunsInOrder`: an update entombed at a redelivery although its row waits (`overlooked`,
  `durable_polling.py:180-215`: the INSERT OR IGNORE drops the tombstone).
* `NothingInDoubt`: items a collection counted as failed: an unanswered call is such a failure
  there, not a quarantine (against `docs/MULTIPART_DELIVERY.md:73`: "Ambiguous Telegram delivery still enters
  `delivery_uncertain` and is not resent automatically"). Against the same line, and in every route: the messages of the
  one call whose answer could not be decoded, for the job is retried or failed. `ReceiptsAreKept`: in a route that numbers
  by items, the volumes of a split item take the ordinals of the items after it.
* `ProjectionIsCurrent` excepts users in `raced`, `SettledUnlessOvertaken` orders in `rewritten`.
* `ClosedIsMirrored`: a job requeued when its intent was closed for a failure; `MaintenanceSettles`:
  `Blocked`, and orders that lost their reference.
* `SessionsAreExclusive`: an attempt that outlasts its 300-second lease; `ExpiredWasRefused`: two
  overlapping logins of one generation; `ConnectsOnce`: `excused` links.
* `PrivateStaysPrivate`: "forgotten"; `GivenIsQueued`: a bot that died before the enqueue, and the enqueue of a
  tray or an automatic continuation, whose error nothing catches.
* `BacklogDrains`: the marker is cleared although rows of other sites hid the backlog
  (`job_recovery_service.py:165-167`). `RecoveryIsBounded`: a pass that listed a job before the other pass's attempt,
  since the UPDATE of `mark_recovery_requeued` looks at the status only. A job that was marked and then not enqueued is
  no backlog: it waits for the next start of the worker, which no property asks about. Also there: one
  measured limit is applied per provider (`:104-108` says otherwise), and a reconciliation looks at the oldest 50 rows only.
* `OfferIsKept`: a file that arrived without its sound, which `is_guaranteed_container_compatible` accepts
  (`transcoder.py:121,127`; `docs/tasks/T008-delivery-large-files.md:36` guarantees H.264/AAC), and in the mode best a sound
  alone for a video that is gone.
* `OneVersion`: an image that is measured like a video may be delivered where a video stood (`PassesFor`), and a slot
  that was left out may change its kind unseen, on other sites than Instagram and for the single video of an Instagram
  post that has grown since its menu: there gallery-dl is asked for everything and only the files' number and the kept ones' kinds are compared. What is delivered is still of one version, in its order.
* `WorkSurvives`: a decision older than the attempt, inspections that outlive the grace, and jobs the user has
  cancelled, whose directory a sweep removes while the attempt, or the thread it left behind, still writes there
  (against `docs/ARCHITECTURE.md:300-301`: active jobs are preserved). `WritesSurvive`: an edit between a merge's last look and its verification.
  `RefusalIsTold`: a refusal that met a refresh, a merge or a death midway, and one whose event the log did not take
  (`unheard`): it was marked as told before, and only a later refusal, past the reminder's interval,
  sends it again.
* `LogoutOnce`, `RunningIsServed`: a client that writes the end of a wait it read long ago
  (`overwritten`), and starts that overlap a migration or another's shutdown. `RunningIsServed` also: clients that had
  found a server which its starter then terminated, since its own last look had been in vain (`local_api.py:303-313`).

## 4. Proofs

All theorems hold for any sets of jobs, users, orders, events, channels, links, formats and so on, and
for all bounds, under the named ASSUMEs of the constants' modules only (types, minimum values that
`bootstrap/config.py` enforces, and facts such as `DirectoriesDiffer`). Four theorems
assume more, in their statement: `PromiseIsKept` needs `EnqueueIsKnown`; `SearchesFindBest` needs
`HeightsGrow` (yt-dlp ranks no picture below a lower one) and `TurnsSuffice` (1024 turns cover
every set of formats, which is so up to ten), both evaluated for the run's instance; and `HealthInvariant` and
`RefusalsAreTold` need `RecoveryNotifications`, the default of `cookie_health.recovery_notifications`: when it is
off, the row remembers an alert that an upload made void, and the same refusal goes unlogged
(`cookie_health_service.py:196-208`).

| module | invariant proved | properties from it |
|---|---|---|
| `JobLifecycleProofs` | `SafetyInv`, `HoldInv`, `PromiseInv` | `RepeatUploadExplained`, `CancelIsFinal`, `UploadsAreMarked`, `AttemptHoldsEntry`, the refinement `KeepsPromise` |
| `UpdatePollingProofs` | `InboxInv`, `OrderInv` | `AckedIsDurable`, `RecordedIsPrefix`, `SendsExplained`, `AcceptedLinkIsQueued`, `RunsAreBounded`, `EndedNeverRuns`, `FirstRunsInOrder` |
| `DeliveryProofs` | `DeliveryInv`, `DoneInv`, `RowsInv` | `ArrivesInOrder`, `DeletedIsStored`, `StoredBeforeNext`, `NothingInDoubt`, `CompletedIsComplete`, `ReceiptsAreKept` |
| `BillingProofs` | `LedgerInv` | `BillingInv`, `ProjectionIsCurrent`, `PaidTimeIsContinuous`, `SettledUnlessOvertaken` |
| `MaintenanceProofs` | `OutboxInv`, `MirrorInv` | `LandsAtMostOnce`, `ClosedChannelsAreQuiet`, `ClosedIsMirrored` |
| `AccountsProofs` | `SessionsInv`, `CompanionIInv`, `MenusInv` | `SessionsAreExclusive`, `ExpiredWasRefused`, `OperatorIsLastResort`, `CompanionInv`, `PrivateStaysPrivate`, `GivenIsQueued` |
| `RecoveryProofs` | `RecoveryInv` | `RecoveryIsBounded`, `OvershootIsOne` |
| `HostProofs` | `SearchInv`, `VideoInv`, `PostInv`, `WorkspacesInv`, `FileInv`, `HealthInv`, `ApiInv` | `SearchFindsBest`, `OfferIsKept`, `OneVersion`, `WorkSurvives`, `WritesSurvive`, `RefusalIsTold`, `LogoutOnce`, `RunningIsServed` |

Each invariant is a conjunction of named parts; typing is proved first, then each part by one step
per action. Why they look as they do:

**Lifecycle.** `RepeatUploadExplained` says nothing of where a job that uploaded once may rest.
`UploadedIsShelved` does: in a status that every start skips, or `delivering` while its attempt
runs or until the next startup quarantines it. That needs `AttemptsNeedWorker` (no attempt
survives the process), `DeliveringIsMarked` (the row was marked before the upload) and,
for the race with cancellation, `CancelFlagged` and `AbortsAreCancelled` (ARQ is asked to
abort only what SQLite has cancelled). Every step of the lifecycle is one step of the table and
one of the queue (`StepsAreTransactions`, `StepsAreCommands`), so typing and the cancellation facts are
proved on `StoreNext` and `QueueNext` alone. `HoldInv` adds that whoever deletes an entry's keys had
its row cancelled, and that a row outside the table has nothing in the queue. For the refinement, `PromiseInv` says what
an attempt may find in its row (`AttemptRow`): only a cancellation moves a row under an attempt,
so each of its writes is one step of the promise or none; and until its first enqueue a new
row is known to its handler only (`NewIsWaiting`).

**Updates.** `AckedIsDurable` is not inductive, for a batch is recorded long before it is
acknowledged: `PassedIsDurable` carries it through the cursor and the offset. A send is
explained only if the ledger knew of every earlier one (`LedgerKnows`), which the purge and
the quarantine by the other process could break. `LinkIsQueued` says where in the handler
the job must already be queued; it needs `HeldIsPending`. `StartsCounted` pairs each start beyond
the counted ones with a crash. For the order, `OrderInv` follows every update that never ran: it is held by
the loop, or it will be fetched again, because nothing above it is acknowledged, or the replay takes it before
every later one; only `overlooked` ones lose their place.

**Delivery.** What the next call appends must come after all that is in the chat: `SentIsPast` says
that everything sent lies before the cursor, or is the call under way
and then nothing will be sent until the cursor has moved. This is what makes starting over
safe: an album may be taken apart only while nothing of it, and in the artifacts route nothing
at all, has arrived (`RefusalKeeps`). `KeptIsStored` counts the receipts of the call and of the
earlier parts of a file; `CursorOK` says which items a call may span
at each step (`GroupEndInPlan`, from the existence of a maximum, `MaxExists`). `DoneInv`: what
was stored was sent, and every item behind the cursor is stored or counted as failed (`PastIsDone`), which makes a
success complete. `RowsInv`: the highest ordinal in use (`HighWater`) never falls and the next one lies above
it, so a new receipt takes no old one's place.

**Billing.** A writer that saves a row it read is harmless only if it still knows something of the row:
`CheckoutHeld` and `CheckHeld` say that the row it holds has the stored deadline and that, if the order
was settled since the read, the writer's save will be noted in `rewritten`. `CheckoutInv`: behind the create call
there is one reservation and one call, so one invoice; `CheckInv`: a checker that is about to settle
holds a paid invoice and a time stamp that is not in the future. `PaidInv` relates claims, grants and paid rows;
`AdminInv` says that what the admin has read is of his user and that its ids stay taken.
`PaidTimeHasNoHoles` is about `GrantWindows`, a recursive function over the grants in their order. Its values are unrolled by a
least counterexample (`WindowsOf`): a finite set of grants has an order since ranks are a bijection, each window starts where the
one before ends or later at its own grant's time, and so the first window that ends after now begins no later than now.

**Outbox and mirror.** `RunOK` and `OneSender`: a dispatcher between its mark and its record is alone on its row, whose state
is "sending" or "uncertain"; the row has landed exactly if its first call was answered; a leased row's channel is usable, since
closing a channel gives its leases up. `IntentsInv`: a closed intent is `Closable` (it has an event, was reopened by a requeue, or its job did not succeed),
and a finalizer that is about to emit holds a succeeded job.

**Accounts.** `SessionsInv`: rows keep generations that were saved; an attempt's generation is
its row's; a generation that was replaced (`Gone`) comes back only by twin logins; leases
overlap on no session (`LeasesExclude`). `CompanionIInv`: requests that hold an attempt's id are alone with it;
whoever stores for a link that is not excused is on its current attempt (`StoresOnCurrent`); once a session
was saved, that request has stored or the link is over (`SavedOnce`). `MenusInv`: a row's
idempotency key tells policy, owner and generation (`KeyTells`), one active row per key (`OnePerKey`), and a menu has the generation and
the privacy of the row it comes from (`MenuOK`); so whatever request is given an existing row asked for the same.

**Recovery.** A pass adds at most one attempt to a job still in its list, so a job has fewer than
`MaxRecovery` attempts while two passes await it and at most `MaxRecovery` while one does (`OvershootInv`);
that gives `RecoveryIsBounded` and its sharper form `OvershootIsOne`. It rests on lists that name no job twice: a query's list is a set of places of the order,
ranked by counting (`PlacesAreRanked`, `QueryLists`).

**Host.** `VideoInv`: the task keeps to the choice at every stage (`StepOK`), the choice to the contract of
its mode (`PickOK`). Behind it are lemmas about the selection: a finite set of formats has a best one (`BestIsFound`), what the
selector finds is part of what was considered and has a picture of the mode's height (`SelectedIsSound`, `HeightFits`), the
soonest turn of the loop exists (`FirstExists`, `MatchExists`), so `CHOOSE` and `Max` mean what the
code returns.

`SearchInv`: queue and visited exclusions are closed under the ones that a too big selection asks for
(`Expanded`), hold no others (`Grown`), and the best so far is the highest of what was visited. When the
queue runs empty that is exactly what `Selected` describes, with no hypothesis (`SearchAgrees`): its rounds exist
and come to the same sets (`RoundsExist`), and `KnownSize`, a fold, is unrolled by `SumExists`. That nothing better was missed
(`FittingIsMatched`) takes a largest visited exclusion that leaves a fitting selection untouched; what is picked there is no worse
(`PickIsNotWorse`, where `HeightsGrow` is used), and it fits, or the exclusion would have grown.

`PostInv`: the plan is that of the version the inspection met (`PlanIsMet`), and a mixed post's videos are the first of one version,
each at its slot (`VideosTaken`). The rest is arithmetic of places: the nth of a set has rank n (`NthHasRank`), the places of two
kinds add up (`PlacesAddUp`), a sort of artifacts at distinct slots puts each at its rank (`SortsBySlot`), and so who takes the items of some
slots has them in the version's order, and the whole version if that is all (`PartIsInOrder`). Trying to prove an earlier
`OneVersion` showed that it was too strong for the single video named in section 3.

`FoundWasRemovable`: what a sweep has found belonged to no attempt under way then, but for an aged inspection
or a cancelled job (`Spared`).
`MergeKnows`: a merge swaps in what an edit since its last look would not lose, and `RowsAreTrue`: each health row says what
was refused of what is in the file, and the alert it remembers was sent to the log, or an actor is on its way to it. `LeasesAreKept`, `CallsAreMarked` and
`StartsAreServed`: a live lease is on the endpoint of the state file, a call of `logOut` was
written down before it was made, and every stage of a start knows that nobody stops its
server: who found it is in `overlapped` by the time a stop or a starter's termination takes it away.

Induction over data is done through least numbers: a set of naturals that is not empty has a
least element (`LeastNumber`, from the well-foundedness of `<`), so a counterexample has a first one. `GreatestNumber`,
`FirstExists`, `WindowsOf` rest on it.

Only model-checked is liveness, for fairness and ENABLED are beyond the prover: `EntriesDrain`,
`RequestsSettle`, `EveryUpdateRuns`, `MaintenanceSettles`, `BacklogDrains`.

## 5. Plan

The modules of the inventory are written, and what their runs check is proved but for liveness. What
is left: retry delays, URL canonicalization and backoff as pure functions.

Not modelled: administration menus over services that are modelled (`telegram/admin_handlers.py`
apart from the uploads, gifts and health panels named above), usage analytics and metrics
(read-only), configuration (its minimum values are the assumptions), the command line apart from the migration,
installation scripts. External, one step with its outcomes: Telegram, Redis, ARQ, gateways' HTTP, extractors, ffmpeg, gallery-dl and
7-Zip.
