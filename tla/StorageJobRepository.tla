------------------------ MODULE StorageJobRepository ------------------------
(***************************************************************************)
(* The rows of storage_jobs and the conditional UPDATEs on them            *)
(* (src/src/services/StorageJobRepository.cpp and the dead-letter replay   *)
(* of StorageJobAdminService.cpp): for each statement its WHERE clause and *)
(* its SET list.  PostgreSQL's NOW() shows as two flags of the row that    *)
(* time passing turns:                                                     *)
(*   live  locked_until > NOW()                                            *)
(*   due   available_at <= NOW()                                           *)
(***************************************************************************)
EXTENDS Naturals

CONSTANTS
    JobOwners,    \* instance ids of worker processes: locked_by
    NoLock,       \* locked_by IS NULL
    MaxAttempts   \* max_attempts

ASSUME NoLockAssumption   == NoLock \notin JobOwners
ASSUME AttemptsAssumption == MaxAttempts \in Nat \ {0}

WaitingStatus == {"Pending", "Retry"}
JobStatus     == {"None", "Running", "Succeeded", "DeadLetter"} \cup WaitingStatus

StorageJob ==
    [status   : JobStatus,
     attempts : 0 .. MaxAttempts,
     by       : JobOwners \cup {NoLock},
     live     : BOOLEAN,
     due      : BOOLEAN]

\* There is no row with this dedupe key yet.
NoJobRow ==
    [status |-> "None", attempts |-> 0, by |-> NoLock, live |-> FALSE, due |-> FALSE]

\* An inserted row; rearming and replay write the same columns.
PendingJob ==
    [status |-> "Pending", attempts |-> 0, by |-> NoLock, live |-> FALSE, due |-> TRUE]

\* ON CONFLICT (dedupe_key) DO NOTHING.
Enqueue(j) == IF j.status = "None" THEN PendingJob ELSE j

\* Inserts the row or resets a succeeded one; any other row is left alone.
CanRearm(j) == j.status \in {"None", "Succeeded"}

EnqueueOrRearmSucceeded(j) == IF CanRearm(j) THEN PendingJob ELSE j

CanReplay(j) == j.status = "DeadLetter"

-----------------------------------------------------------------------------
(* ClaimReadyBatch: two statements.                                        *)

IsExhausted_WaitingOnly(j) == j.attempts >= MaxAttempts /\ j.status \in WaitingStatus

IsExhausted(j) ==
    /\ j.attempts >= MaxAttempts
    /\ j.status \in WaitingStatus \/ (j.status = "Running" /\ ~j.live)

DeadLettered(j) == [j EXCEPT !.status = "DeadLetter", !.by = NoLock, !.live = FALSE]

IsReady_AtLimit(j) ==
    /\ j.attempts <= MaxAttempts
    /\ (j.status \in WaitingStatus /\ j.due) \/ (j.status = "Running" /\ ~j.live)

IsReady(j) ==
    /\ j.attempts < MaxAttempts
    /\ (j.status \in WaitingStatus /\ j.due) \/ (j.status = "Running" /\ ~j.live)

Claimed(j, o) ==
    [j EXCEPT !.status = "Running", !.attempts = @ + 1, !.by = o, !.live = TRUE]

-----------------------------------------------------------------------------
(* Renewal and results.  A result needs the owner's name only: an owner    *)
(* whose lease ran out still writes if nobody has taken the job over.      *)

LockedBy(j, o) == j.status = "Running" /\ j.by = o

LeaseHeld(j, o) == LockedBy(j, o) /\ j.live

RenewLease(j) == [j EXCEPT !.live = TRUE]

MarkSucceeded(j) == [j EXCEPT !.status = "Succeeded", !.by = NoLock, !.live = FALSE]

MarkFailed(j, retryable) ==
    [j EXCEPT !.status = IF retryable /\ j.attempts < MaxAttempts
                         THEN "Retry" ELSE "DeadLetter",
              !.due  = IF retryable /\ j.attempts < MaxAttempts THEN FALSE ELSE @,
              !.by   = NoLock,
              !.live = FALSE]

=============================================================================
