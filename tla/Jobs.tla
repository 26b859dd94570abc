-------------------------------- MODULE Jobs --------------------------------
(***************************************************************************)
(* What a job is, fixed when it is created (JobRecord, JobService._create) *)
(* and shared by the table that stores it and the queue that runs it.      *)
(***************************************************************************)
CONSTANTS
  Job,          \* job identifiers (secrets.token_urlsafe: never reused)
  Kind,         \* Kind[j]: what job j does
  KeyOf         \* KeyOf[j]: the idempotency key of j

Kinds == {"inspection", "download", "highlight_tray"}

ASSUME KindAssumption == Kind \in [Job -> Kinds]
=============================================================================
