------------------------------ MODULE Workspaces ------------------------------
(***************************************************************************)
(* The files of the jobs.  An attempt writes into the directories named    *)
(* after its job and removes them when the job has ended; an inspection    *)
(* writes into a scratch directory of its own; sweeps of the worker, at    *)
(* its start and in its maintenance, and of the operator's command remove  *)
(* what is left (infrastructure/storage/workspace.py).                     *)
(***************************************************************************)
EXTENDS Naturals, FiniteSets

CONSTANTS
  Work,         \* the jobs
  Scratch,      \* the scratch directories of inspections
  Sweeper,      \* worker and operator
  MaxStarts     \* bound: attempts and inspections

(* A job's token is longer than the name mkdtemp gives a scratch directory. *)
ASSUME DirectoriesDiffer == Work \cap Scratch = {}

VARIABLES
  state,     \* of each job's row; "none" without one, "unmade" before an inspection
  attempt,   \* the attempt of each job under way, 0 for none
  starts,    \* how many attempts and inspections there were
  content,   \* whose files are in each directory: those attempts, 0 for old ones
  stale,     \* directories last written before the orphan grace
  finalizer, \* what each job's last attempt does after its end
  sweep,     \* what each sweeper does, and with which directories
  missed     \* the removals that took the files of an attempt under way

workVars == <<state, attempt, starts, content, stale, finalizer, sweep, missed>>

Directory == Work \cup Scratch
EndedStates == {"failed", "done", "cancelled"}
NoFinalizer == [at |-> "none", decided |-> 0]
NoSweep == [at |-> "idle", todo |-> {}, found |-> {}]

(* Directories of an earlier run, one of them of a job that is gone. *)
WorkspacesInit ==
  /\ \E rows \in [Work -> {"queued", "failed", "none"}] :
       state = [d \in Directory |-> IF d \in Work THEN rows[d] ELSE "unmade"]
  /\ attempt = [d \in Directory |-> 0]
  /\ starts = 0
  /\ content \in [Directory -> {{}, {0}}]
  /\ \A s \in Scratch : content[s] = {}
  /\ stale = {}
  /\ finalizer = [w \in Work |-> NoFinalizer]
  /\ sweep = [x \in Sweeper |-> NoSweep]
  /\ missed = {}

-----------------------------------------------------------------------------
(* The jobs. *)

Begin(d) ==
  /\ attempt[d] = 0 /\ starts < MaxStarts
  /\ starts' = starts + 1
  /\ attempt' = [attempt EXCEPT ![d] = starts']
  /\ content' = [content EXCEPT ![d] = {starts'}]
  /\ stale' = stale \ {d}

(* The media directory is made anew. *)
AttemptBegins(w) ==
  /\ state[w] = "queued" /\ finalizer[w].at = "none"
  /\ Begin(w)
  /\ state' = [state EXCEPT ![w] = "running"]
  /\ UNCHANGED <<finalizer, sweep, missed>>

InspectionBegins(s) ==
  /\ state[s] = "unmade"
  /\ Begin(s)
  /\ state' = [state EXCEPT ![s] = "none"]
  /\ UNCHANGED <<finalizer, sweep, missed>>

InspectionEnds(s) ==
  /\ attempt[s] # 0
  /\ attempt' = [attempt EXCEPT ![s] = 0]
  /\ content' = [content EXCEPT ![s] = {}]
  /\ UNCHANGED <<state, starts, stale, finalizer, sweep, missed>>

(* cancel_job: the row of a job has ended at once, while its attempt goes  *)
(* on writing until it or its thread notices.                              *)
Cancelled(w) ==
  /\ state[w] \in {"queued", "running"}
  /\ state' = [state EXCEPT ![w] = "cancelled"]
  /\ UNCHANGED <<attempt, starts, content, stale, finalizer, sweep, missed>>

(* The row gets the outcome, "queued" for a retry and "running" when the   *)
(* worker stops, but for a cancelled one, which stays as it is.            *)
WritingEnds(w, outcome) ==
  /\ attempt[w] # 0
  /\ attempt' = [attempt EXCEPT ![w] = 0]
  /\ state' = [state EXCEPT ![w] = IF @ = "cancelled" THEN @ ELSE outcome]
  /\ UNCHANGED <<starts, stale, sweep, missed>>

(* The attempt ends, its outcome already written, and looks once more at   *)
(* the row before it removes anything.                                     *)
AttemptEnds(w, outcome) ==
  /\ WritingEnds(w, outcome)
  /\ finalizer' = [finalizer EXCEPT ![w].at = "look"]
  /\ UNCHANGED content

(* What was delivered is removed before the row says so, and not again.    *)
AttemptDelivers(w) ==
  /\ WritingEnds(w, "done")
  /\ content' = [content EXCEPT ![w] = {}]
  /\ UNCHANGED finalizer

(* A thread that outlasts the wait for it has nobody to clean up after it. *)
ThreadOutlasts(w) ==
  /\ WritingEnds(w, "running")
  /\ UNCHANGED <<content, finalizer>>

(* An entry of an ended job is taken up: nothing but the finalizer runs.   *)
AttemptSkipped(w) ==
  /\ state[w] \in {"done", "cancelled"}
  /\ attempt[w] = 0 /\ finalizer[w].at = "none"
  /\ finalizer' = [finalizer EXCEPT ![w].at = "look"]
  /\ UNCHANGED <<state, attempt, starts, content, stale, sweep, missed>>

CleanupEnabled(w) == state[w] \in EndedStates

FinalizerLooks(w) ==
  /\ finalizer[w].at = "look"
  /\ finalizer' = [finalizer EXCEPT ![w] = IF CleanupEnabled(w) THEN [at |-> "remove", decided |-> starts]
                                             ELSE NoFinalizer]
  /\ UNCHANGED <<state, attempt, starts, content, stale, sweep, missed>>

(* The directory goes, whoever writes into it. *)
RemoveFiles(d, decided) ==
  /\ content' = [content EXCEPT ![d] = {}]
  /\ missed' = IF attempt[d] # 0 /\ attempt[d] \in content[d]
                 THEN missed \cup {[attempt |-> attempt[d], decided |-> decided,
                                    aged |-> d \in Scratch /\ d \in stale,
                                    cancelled |-> state[d] = "cancelled"]}
                 ELSE missed

FinalizerRemoves(w) ==
  /\ finalizer[w].at = "remove"
  /\ RemoveFiles(w, finalizer[w].decided)
  /\ finalizer' = [finalizer EXCEPT ![w] = NoFinalizer]
  /\ UNCHANGED <<state, attempt, starts, stale, sweep>>

(* Recovery takes a failed job up again; retention, of a day at least,     *)
(* ends the row of one whose attempt is long over.                         *)
Requeued(w) ==
  /\ state[w] = "failed"
  /\ state' = [state EXCEPT ![w] = "queued"]
  /\ UNCHANGED <<attempt, starts, content, stale, finalizer, sweep, missed>>

Purged(w) ==
  /\ state[w] \in EndedStates /\ attempt[w] = 0 /\ finalizer[w].at = "none"
  /\ state' = [state EXCEPT ![w] = "none"]
  /\ UNCHANGED <<attempt, starts, content, stale, finalizer, sweep, missed>>

(* The worker dies: what it wrote stays, and so do the rows, which its     *)
(* next start turns back to "queued" or quarantines.                       *)
WorkerRestarts(next) ==
  /\ attempt' = [d \in Directory |-> 0]
  /\ finalizer' = [w \in Work |-> NoFinalizer]
  /\ state' = [d \in Directory |-> IF state[d] = "running" THEN next ELSE state[d]]
  /\ sweep' = [x \in Sweeper |-> IF x = "worker" THEN NoSweep ELSE sweep[x]]
  /\ UNCHANGED <<starts, content, stale, missed>>

GrowsStale(d) ==
  /\ content[d] # {} /\ d \notin stale
  /\ stale' = stale \cup {d}
  /\ UNCHANGED <<state, attempt, starts, content, finalizer, sweep, missed>>

-----------------------------------------------------------------------------
(* sweep_workspaces: the directories are read one by one, then the chosen  *)
(* ones are removed, whatever their rows say by then.                      *)

BeginSweep(x) ==
  /\ sweep[x].at = "idle"
  /\ sweep' = [sweep EXCEPT ![x].at = "scan", ![x].todo = {d \in Directory : content[d] # {}}]
  /\ UNCHANGED <<state, attempt, starts, content, stale, finalizer, missed>>

\* Mutant: only queued jobs are spared.
RemovableUnlessQueued(d) ==
  IF d \in Work /\ state[d] # "none" THEN state[d] # "queued" ELSE d \in stale

Removable(d) ==
  IF d \in Work /\ state[d] # "none" THEN state[d] \in EndedStates ELSE d \in stale

Scan(x, d) ==
  /\ sweep[x].at = "scan" /\ d \in sweep[x].todo
  /\ sweep' = [sweep EXCEPT ![x].todo = @ \ {d},
                            ![x].found = IF Removable(d) THEN @ \cup {<<d, starts>>} ELSE @]
  /\ UNCHANGED <<state, attempt, starts, content, stale, finalizer, missed>>

Scanned(x) ==
  /\ sweep[x].at = "scan" /\ sweep[x].todo = {}
  /\ sweep' = [sweep EXCEPT ![x].at = IF sweep[x].found = {} THEN "idle" ELSE "remove"]
  /\ UNCHANGED <<state, attempt, starts, content, stale, finalizer, missed>>

RemoveFound(x, d, decided) ==
  /\ sweep[x].at = "remove" /\ <<d, decided>> \in sweep[x].found
  /\ RemoveFiles(d, decided)
  /\ sweep' = [sweep EXCEPT ![x] = IF sweep[x].found = {<<d, decided>>} THEN NoSweep
                                   ELSE [sweep[x] EXCEPT !.found = sweep[x].found \ {<<d, decided>>}]]
  /\ UNCHANGED <<state, attempt, starts, stale, finalizer>>

WorkspacesNext ==
  \/ \E w \in Work : \/ AttemptBegins(w) \/ FinalizerLooks(w) \/ FinalizerRemoves(w)
                     \/ Cancelled(w) \/ Requeued(w) \/ Purged(w)
                     \/ \E outcome \in {"failed", "done", "queued", "running"} : AttemptEnds(w, outcome)
                     \/ AttemptDelivers(w) \/ ThreadOutlasts(w) \/ AttemptSkipped(w)
  \/ \E s \in Scratch : InspectionBegins(s) \/ InspectionEnds(s)
  \/ \E next \in {"queued", "done"} : WorkerRestarts(next)
  \/ \E d \in Directory : GrowsStale(d)
  \/ \E x \in Sweeper : \/ BeginSweep(x) \/ Scanned(x)
                        \/ \E d \in Directory : Scan(x, d)
                        \/ \E d \in Directory, n \in 0..MaxStarts : RemoveFound(x, d, n)

WorkspacesSpec == WorkspacesInit /\ [][WorkspacesNext]_workVars

-----------------------------------------------------------------------------
(* Properties. *)

(* Nobody removes the files of an attempt under way, unless he had decided *)
(* so before it began, from a row that has been requeued since, it is an   *)
(* inspection that outlived the orphan grace, or the user has cancelled    *)
(* the job (docs/ARCHITECTURE.md promises that active jobs are preserved). *)
WorkSurvives == \A m \in missed : m.decided < m.attempt \/ m.aged \/ m.cancelled

=============================================================================
