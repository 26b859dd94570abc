---------------------------- MODULE WebCompanion ----------------------------
(* The web companion over one user's vault: connection links of the bot, their *)
(* exchange for a browser session, and the login that a browser session walks  *)
(* through. Requests of a browser overlap; the table of sessions and that of   *)
(* attempts live in the memory of one event loop, and the provider and the     *)
(* vault are called from threads.                                              *)
EXTENDS InstagramSessions

CONSTANTS
  Link,         \* links the bot mints; a link stands for the browser session it opens
  Request,      \* requests under way at a time
  LinkLife,     \* ticks until a link ends
  ClockSkew,    \* ticks the companion's clock may differ
  SessionLife,  \* ticks a browser session lives
  AttemptLife,  \* ticks a login attempt lives
  MaxBrowsers,  \* limit of both tables
  MaxAttempts   \* bound on the login attempts of a browser session

ASSUME CompanionAssumption ==
  /\ {LinkLife, ClockSkew, SessionLife, AttemptLife} \subseteq Nat
  /\ MaxBrowsers \in Nat \ {0}
  /\ "none" \notin Link

VARIABLES
  link,         \* per link, its end, or 0 before it is minted
  consumed,     \* links consumed, on disk
  browser,      \* per link, the tick its browser session was opened, or Closed
  opened,       \* per link, how many browser sessions it opened so far
  login,        \* per link, the current login attempt of its session
  tried,        \* per link, the attempts made so far
  request,      \* per request, where it stands
  saves,        \* links and the logins their sessions took to the vault
  excused       \* links whose store timed out or lost its attempt, or whose requests went
                \* on past the session

companionVars == <<link, consumed, browser, opened, login, tried, request, saves, excused>>
allVars == <<companionVars, sessionVars>>

Closed == MaxTime + 1
NoLogin == [id |-> 0, until |-> 0, phase |-> "creds", locked |-> FALSE]
NoRequest == [step |-> "idle", from |-> "none", id |-> 0, saving |-> "none", detached |-> FALSE]

CompanionInit ==
  /\ SessionsInit
  /\ link = [k \in Link |-> 0]
  /\ consumed = {}
  /\ browser = [k \in Link |-> Closed]
  /\ opened = [k \in Link |-> 0]
  /\ login = [k \in Link |-> NoLogin]
  /\ tried = [k \in Link |-> 0]
  /\ request = [r \in Request |-> NoRequest]
  /\ saves = {} /\ excused = {}

Lives(k) == browser[k] # Closed /\ now - browser[k] < SessionLife
Trying(k) == login[k].id # 0
Current(r) == login[request[r].from].id = request[r].id

MintLink(k) ==
  /\ link[k] = 0
  /\ link' = [link EXCEPT ![k] = now + LinkLife]
  /\ UNCHANGED <<consumed, browser, opened, login, tried, request, saves, excused, sessionVars>>

\* A full table gives up its oldest session.
WithBrowser(k) ==
  LET kept == {x \in Link : Lives(x)}
      oldest == CHOOSE x \in kept : \A y \in kept : browser[x] <= browser[y]
      full == Cardinality(kept \ {k}) >= MaxBrowsers
  IN [x \in Link |->
       IF x = k THEN now ELSE IF x \in kept /\ ~(full /\ x = oldest) THEN browser[x] ELSE Closed]

\* The nonce is inserted on disk, once.
ReserveOnce(k) == k \notin consumed

\* Verified, consumed and turned into a browser session without an await.
Exchange(k) ==
  /\ link[k] # 0 /\ now <= link[k] + ClockSkew
  /\ ReserveOnce(k)
  /\ consumed' = consumed \union {k}
  /\ browser' = WithBrowser(k)
  /\ opened' = [opened EXCEPT ![k] = @ + 1]
  /\ UNCHANGED <<link, login, tried, request, saves, excused, sessionVars>>

\* The cookie is looked up, then the body is awaited.
Authorize(r, k) ==
  /\ request[r] = NoRequest /\ Lives(k)
  /\ request' = [request EXCEPT ![r] = [NoRequest EXCEPT !.step = "body", !.from = k]]
  /\ UNCHANGED <<link, consumed, browser, opened, login, tried, saves, excused, sessionVars>>

Answer(r) == request' = [request EXCEPT ![r] = NoRequest]

\* Every step first forgets the attempts that are over.
Unexpired == [k \in Link |-> IF login[k].until > now THEN login[k] ELSE NoLogin]
Full == Cardinality({k \in Link : Unexpired[k].id # 0}) >= MaxBrowsers

\* Sessions whose attempt the step forgets in the middle of its store: its time is over, or
\* a late answer of an attempt that was given up pops the one that came after it.
Outlived == {k \in Link : login'[k].id # login[k].id /\ \E r \in Request :
               /\ request[r].from = k /\ request[r].step \in {"store", "stored"}
               /\ Current(r) /\ request'[r] = request[r]}

\* A step that is answered without the provider.
StepRefused(r) ==
  LET k == request[r].from IN
  /\ request[r].step = "body"
  /\ \/ Trying(k) /\ (login[k].until <= now \/ login[k].locked)
     \/ ~Trying(k) /\ Full
  /\ login' = Unexpired
  /\ Answer(r)
  /\ excused' = excused \union Outlived
  /\ UNCHANGED <<link, consumed, browser, opened, tried, saves, sessionVars>>

\* The attempt the step works on: the one of the session, or a new one.
Joined(k) ==
  IF Trying(k) THEN login[k]
  ELSE [id |-> tried[k] + 1, until |-> now + AttemptLife, phase |-> "creds", locked |-> FALSE]

\* Mutant of CanJoin: the lock is not looked at.
CanJoinLocked(k) == IF Trying(k) THEN login[k].until > now ELSE ~Full /\ tried[k] < MaxAttempts

CanJoin(k) == IF Trying(k) THEN login[k].until > now /\ ~login[k].locked
              ELSE ~Full /\ tried[k] < MaxAttempts

\* Without the input its phase wants, the attempt only stays open.
StepAsksInput(r) ==
  LET k == request[r].from IN
  /\ request[r].step = "body" /\ CanJoin(k)
  /\ login' = [Unexpired EXCEPT ![k] = Joined(k)]
  /\ tried' = [tried EXCEPT ![k] = IF Trying(k) THEN @ ELSE @ + 1]
  /\ Answer(r)
  /\ excused' = excused \union Outlived
  /\ UNCHANGED <<link, consumed, browser, opened, saves, sessionVars>>

StepCallsProvider(r) ==
  LET k == request[r].from IN
  /\ request[r].step = "body" /\ CanJoin(k)
  /\ login' = [Unexpired EXCEPT ![k] = [Joined(k) EXCEPT !.locked = TRUE]]
  /\ tried' = [tried EXCEPT ![k] = IF Trying(k) THEN @ ELSE @ + 1]
  /\ request' = [request EXCEPT ![r].step = "acquire", ![r].id = Joined(k).id]
  /\ excused' = excused \union Outlived
  /\ UNCHANGED <<link, consumed, browser, opened, saves, sessionVars>>

\* Whatever attempt the session has now is forgotten.
Pop(k) == login' = [login EXCEPT ![k] = NoLogin]

StillTaken(r) == Current(r) /\ login[request[r].from].until > now

LoginDenied(r) ==
  /\ request[r].step = "acquire"
  /\ Pop(request[r].from) /\ Answer(r)
  /\ excused' = excused \union Outlived
  /\ UNCHANGED <<link, consumed, browser, opened, tried, saves, sessionVars>>

CodeWanted(r) ==
  LET k == request[r].from IN
  /\ request[r].step = "acquire" /\ StillTaken(r) /\ login[k].phase = "creds"
  /\ login' = [login EXCEPT ![k].phase = "2fa", ![k].locked = FALSE]
  /\ Answer(r)
  /\ UNCHANGED <<link, consumed, browser, opened, tried, saves, excused, sessionVars>>

LoggedIn(r, l) ==
  /\ request[r].step = "acquire" /\ StillTaken(r)
  /\ connecting[l].step = "new" /\ \A x \in Request : request[x].saving # l
  /\ request' = [request EXCEPT ![r].step = "store", ![r].saving = l]
  /\ UNCHANGED <<link, consumed, browser, opened, login, tried, saves, excused, sessionVars>>

\* store_login in its thread, which a timeout does not stop.
StoreReads(r) ==
  /\ request[r].step = "store" /\ ReadForStore(request[r].saving)
  /\ UNCHANGED companionVars

StoreWrites(r) ==
  /\ request[r].step = "store" /\ StoreSession(request[r].saving)
  /\ saves' = IF credential' = credential THEN saves
              ELSE saves \union {<<request[r].from, request[r].saving>>}
  /\ request' = [request EXCEPT ![r] =
       IF @.detached THEN NoRequest
       ELSE [@ EXCEPT !.step = IF credential' = credential THEN "failed" ELSE "stored"]]
  /\ UNCHANGED <<link, consumed, browser, opened, login, tried, excused>>

StoreFailed(r) ==
  /\ request[r].step = "failed"
  /\ Pop(request[r].from) /\ Answer(r)
  /\ excused' = excused \union Outlived
  /\ UNCHANGED <<link, consumed, browser, opened, tried, saves, sessionVars>>

\* Past its lookup, another request goes on although the session is dropped.
LoginFinished(r) ==
  LET k == request[r].from IN
  /\ request[r].step = "stored"
  /\ Pop(k) /\ Answer(r)
  /\ browser' = [browser EXCEPT ![k] = Closed]
  /\ excused' = IF \E x \in Request \ {r} : request[x].from = k THEN excused \union {k} ELSE excused
  /\ UNCHANGED <<link, consumed, opened, tried, saves, sessionVars>>

\* The timeout of the middleware cancels the handler.
RequestTimesOut(r) ==
  LET k == request[r].from IN
  /\ request[r].step \in {"body", "acquire", "store", "stored"} /\ ~request[r].detached
  /\ IF request[r].step = "body" THEN UNCHANGED login ELSE Pop(k)
  /\ request' = [request EXCEPT ![r] =
       IF @.step = "store" THEN [@ EXCEPT !.detached = TRUE] ELSE NoRequest]
  /\ excused' = excused \union Outlived
                 \union (IF request[r].step \in {"store", "stored"} THEN {k} ELSE {})
  /\ UNCHANGED <<link, consumed, browser, opened, tried, saves, sessionVars>>

\* Only the consumed links and the vault are on disk.
CompanionDies ==
  /\ deaths < MaxDeaths /\ deaths' = deaths + 1
  /\ browser' = [k \in Link |-> Closed]
  /\ login' = [k \in Link |-> NoLogin]
  /\ request' = [r \in Request |-> NoRequest]
  /\ UNCHANGED <<link, consumed, opened, tried, saves, excused, vaultVars, lease, job, attempt,
                  refused, now>>

RequestStep(r) ==
  \/ \E k \in Link : Authorize(r, k)
  \/ StepRefused(r) \/ StepAsksInput(r) \/ StepCallsProvider(r)
  \/ LoginDenied(r) \/ CodeWanted(r) \/ \E l \in Login : LoggedIn(r, l)
  \/ StoreReads(r) \/ StoreWrites(r) \/ StoreFailed(r) \/ LoginFinished(r) \/ RequestTimesOut(r)

\* The user disconnects in the bot, beside logins, in InstagramSessions.
CompanionNext ==
  \/ \E k \in Link : MintLink(k) \/ Exchange(k)
  \/ \E r \in Request : RequestStep(r)
  \/ CompanionDies
  \/ Tick /\ UNCHANGED companionVars

CompanionSpec == CompanionInit /\ [][CompanionNext]_allVars

-----------------------------------------------------------------------------
(* A link opens one browser session ever, over restarts of the companion.      *)
LinksOpenOnce == \A k \in Link : opened[k] <= 1

(* Two requests never work on one login attempt at a time, though a late one   *)
(* may still be on an attempt that was given up.                               *)
OneLoginAtATime ==
  \A x, y \in Request : (x # y /\ request[x].id # 0 /\ request[x].from = request[y].from) =>
    request[x].id # request[y].id

(* A link takes at most one session to the vault, unless the attempt or the    *)
(* request ended during the store, which goes on in its thread, or another     *)
(* request was past the lookup when the session was dropped.  An attempt ends  *)
(* early, too, when a late request of an earlier one is answered.              *)
ConnectsOnce ==
  \A k \in Link \ excused : Cardinality({s \in saves : s[1] = k}) <= 1

CompanionInv == LinksOpenOnce /\ OneLoginAtATime /\ ConnectsOnce
=============================================================================
