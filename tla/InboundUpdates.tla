--------------------------- MODULE InboundUpdates ---------------------------
(***************************************************************************)
(* The durable inbox of Telegram updates: the inbound_updates table and    *)
(* DurableUpdateInbox, the service that decides what a row means.  Each    *)
(* operator is one SQLite transaction.  Payloads and times are left out.   *)
(***************************************************************************)
EXTENDS Updates

CONSTANT MaxAttempts   \* DEFAULT_MAX_PROCESSING_ATTEMPTS

ASSUME MaxAttemptsAssumption == MaxAttempts \in Nat \ {0}

VARIABLES
  inbox,      \* processing_state; "absent" before INSERT, "purged" after DELETE
  attempts    \* processing_attempts

inboxVars == <<inbox, attempts>>

PendingStates == {"received", "processing"}
EndStates == {"completed", "terminal_failure"}

InboxTypeOK ==
  /\ inbox \in [Update -> PendingStates \union EndStates \union {"absent", "purged"}]
  /\ attempts \in [Update -> 0..MaxAttempts]

InboxInit ==
  /\ inbox = [u \in Update |-> "absent"]
  /\ attempts = [u \in Update |-> 0]

\* A row exists, or existed until its retention ended.
Durable(u) == inbox[u] # "absent"
Pending(u) == inbox[u] \in PendingStates

(***************************************************************************)
(* record and quarantine: INSERT OR IGNORE, so a row that is already there *)
(* keeps its state whatever is delivered again.                            *)
(***************************************************************************)
Insert(u, state) ==
  /\ inbox' = IF inbox[u] \in {"absent", "purged"} THEN [inbox EXCEPT ![u] = state]
                                                   ELSE inbox
  /\ UNCHANGED attempts

\* record answers None for a row that has ended, and the caller then skips it.
WorthProcessing(u) == inbox[u] \notin EndStates

StartProcessing(u) ==
  /\ inbox' = [inbox EXCEPT ![u] = "processing"]
  /\ UNCHANGED attempts

MarkCompleted(u) ==
  /\ inbox' = [inbox EXCEPT ![u] = "completed"]
  /\ UNCHANGED attempts

\* handler_failed: back to the journal until the attempts are used up.
HandlerFailed(u) ==
  /\ attempts' = [attempts EXCEPT ![u] = @ + 1]
  /\ inbox' = [inbox EXCEPT ![u] = IF attempts[u] + 1 >= MaxAttempts
                                     THEN "terminal_failure" ELSE "received"]

\* purge_retention: ended rows only, however old the others are.
PurgeUpdate(u) ==
  /\ inbox[u] \in EndStates
  /\ inbox' = [inbox EXCEPT ![u] = "purged"]
  /\ UNCHANGED attempts
=============================================================================
