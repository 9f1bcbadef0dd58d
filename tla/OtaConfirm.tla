----------------------------- MODULE OtaConfirm -----------------------------
(***************************************************************************)
(* The gate that decides when a freshly updated firmware image is          *)
(* confirmed.  The core task checks the uptime every millisecond, any task *)
(* may request a restart, and the main task takes the confirmation and     *)
(* writes it.  Two volatile flags and no lock: every access is a step.     *)
(***************************************************************************)
EXTENDS Integers

CONSTANT Requesters   \* the tasks that call graceful_restart()

VARIABLES
  survived,             \* uptime_ms >= OTA_CONFIRM_UPTIME_MS
  requested,            \* a restart was requested
  confirmation_owed, confirmation_taken,
  checker,              \* the core task, in ota_confirm_check()
  requester,            \* each requester, in ota_confirm_request()
  writer,               \* the main task, in ota_confirm_service()
  written               \* calls of mark_ota_image_valid(), capped at 2

flags == <<confirmation_owed, confirmation_taken>>
otavars == <<survived, requested, flags, checker, requester, writer, written>>

OtaTypeOK ==
  /\ survived \in BOOLEAN /\ requested \in BOOLEAN
  /\ confirmation_owed \in BOOLEAN /\ confirmation_taken \in BOOLEAN
  /\ checker \in {"read", "set"}
  /\ requester \in [Requesters -> {"idle", "read", "set"}]
  /\ writer \in {"read", "clear", "take", "write"}
  /\ written \in 0..2

-----------------------------------------------------------------------------

\* Mutant: the uptime is not looked at.
CheckReadsAnyTime ==
  /\ checker = "read" /\ ~confirmation_taken
  /\ checker' = "set"
  /\ UNCHANGED <<survived, requested, flags, requester, writer, written>>

CheckReads ==
  /\ checker = "read" /\ ~confirmation_taken /\ survived
  /\ checker' = "set"
  /\ UNCHANGED <<survived, requested, flags, requester, writer, written>>

CheckSets ==
  /\ checker = "set"
  /\ confirmation_owed' = TRUE /\ checker' = "read"
  /\ UNCHANGED <<survived, requested, confirmation_taken, requester, writer, written>>

\* graceful_restart() asks for the confirmation before the restart.
Request(r) ==
  /\ requester[r] = "idle" /\ requester' = [requester EXCEPT ![r] = "read"]
  /\ requested' = TRUE
  /\ UNCHANGED <<survived, flags, checker, writer, written>>

RequestReads(r) ==
  /\ requester[r] = "read"
  /\ requester' = [requester EXCEPT ![r] = IF confirmation_taken THEN "idle" ELSE "set"]
  /\ UNCHANGED <<survived, requested, flags, checker, writer, written>>

RequestSets(r) ==
  /\ requester[r] = "set" /\ requester' = [requester EXCEPT ![r] = "idle"]
  /\ confirmation_owed' = TRUE
  /\ UNCHANGED <<survived, requested, confirmation_taken, checker, writer, written>>

\* Mutant: looking is taking.
TakeReadsAndTakes ==
  /\ writer = "read" /\ ~confirmation_taken
  /\ writer' = IF confirmation_owed THEN "clear" ELSE "read"
  /\ confirmation_taken' = TRUE
  /\ UNCHANGED <<survived, requested, confirmation_owed, checker, requester, written>>

TakeReads ==
  /\ writer = "read" /\ confirmation_owed
  /\ writer' = "clear"
  /\ UNCHANGED <<survived, requested, flags, checker, requester, written>>

TakeClears ==
  /\ writer = "clear" /\ writer' = "take"
  /\ confirmation_owed' = FALSE
  /\ UNCHANGED <<survived, requested, confirmation_taken, checker, requester, written>>

TakeTakes ==
  /\ writer = "take" /\ writer' = "write"
  /\ confirmation_taken' = TRUE
  /\ UNCHANGED <<survived, requested, confirmation_owed, checker, requester, written>>

Writes ==
  /\ writer = "write" /\ writer' = "read"
  /\ written' = IF written = 2 THEN 2 ELSE written + 1
  /\ UNCHANGED <<survived, requested, flags, checker, requester>>

Survives ==
  /\ ~survived /\ survived' = TRUE
  /\ UNCHANGED <<requested, flags, checker, requester, writer, written>>

OtaInit ==
  /\ survived = FALSE /\ requested = FALSE
  /\ confirmation_owed = FALSE /\ confirmation_taken = FALSE
  /\ checker = "read" /\ writer = "read" /\ written = 0
  /\ requester = [r \in Requesters |-> "idle"]

Check == CheckReads \/ CheckSets
Service == TakeReads \/ TakeClears \/ TakeTakes \/ Writes

OtaNext ==
  \/ Check \/ Service \/ Survives
  \/ \E r \in Requesters : Request(r) \/ RequestReads(r) \/ RequestSets(r)

OtaSpec == OtaInit /\ [][OtaNext]_otavars

-----------------------------------------------------------------------------
(* Properties. *)

\* An image is only confirmed when it has survived or a restart was requested:
\* one that crashes before either still rolls back.
Earned == written > 0 => survived \/ requested

\* An image that has earned its confirmation gets it, whoever wins the races
\* for the two flags.
Confirmed == (survived \/ requested) ~> (written > 0)
=============================================================================
