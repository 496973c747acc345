------------------------ MODULE UploadTaskRepository ------------------------
(***************************************************************************)
(* The rows of upload_tasks and the conditional UPDATEs on them            *)
(* (src/src/services/UploadTaskRepository.cpp), with the request decisions *)
(* of src/src/services/UploadStateMachine.cpp.  A row is a record; every   *)
(* operator below is one SQL statement: a predicate for its WHERE clause   *)
(* and a function for its SET list.                                        *)
(*                                                                         *)
(* PostgreSQL's NOW() is the only clock.  The two comparisons the code     *)
(* makes with it are kept as flags of the row that time passing turns:     *)
(*   live     lease_expires_at > NOW()                                     *)
(*   expired  expires_at < NOW()                                           *)
(***************************************************************************)
EXTENDS Naturals

CONSTANTS
    Instances,   \* API instances; ConfigMgr's instance id is the lease_owner
    NoOwner      \* lease_owner IS NULL

ASSUME NoOwnerAssumption == NoOwner \notin Instances

ActiveStatus   == {"InProgress", "Finalizing"}
TerminalStatus == {"Completed", "Cancelled", "Expired", "Failed"}
TaskStatus     == {"None"} \cup ActiveStatus \cup TerminalStatus

UploadTask ==
    [status   : TaskStatus,
     version  : Nat,                       \* state_version
     owner    : Instances \cup {NoOwner},  \* lease_owner
     live     : BOOLEAN,
     attempts : Nat,                       \* finalize_attempts
     expired  : BOOLEAN,
     error    : BOOLEAN]                   \* last_error_code IS NOT NULL

\* There is no row with this id yet.
NoTask ==
    [status |-> "None", version |-> 0, owner |-> NoOwner, live |-> FALSE,
     attempts |-> 0, expired |-> FALSE, error |-> FALSE]

CreatedTask == [NoTask EXCEPT !.status = "InProgress"]

IsActive(t)         == t.status \in ActiveStatus
IsTerminalStatus(t) == t.status \in TerminalStatus

-----------------------------------------------------------------------------
(* The finalize lease.                                                     *)

\* WHERE of ClaimFinalizeLease: a first claim of a complete, unexpired task,
\* or the takeover of a lease that has run out.
CanClaim_AnyDeadLease(t, complete) ==
    \/ t.status = "InProgress" /\ ~t.expired /\ complete
    \/ t.status \in {"Finalizing", "Completed"} /\ ~t.live

CanClaim(t, complete) ==
    \/ t.status = "InProgress" /\ ~t.expired /\ complete
    \/ t.status = "Finalizing" /\ ~t.live

ClaimFinalizeLease_KeepsVersion(t, o) ==
    [t EXCEPT !.status = "Finalizing", !.owner = o, !.live = TRUE,
              !.attempts = @ + 1, !.error = FALSE]

ClaimFinalizeLease(t, o) ==
    [t EXCEPT !.status = "Finalizing", !.owner = o, !.live = TRUE,
              !.version = @ + 1, !.attempts = @ + 1, !.error = FALSE]

\* The WHERE shared by renewal, completion and error recording.
LeaseOwned(t, o, v) ==
    t.status = "Finalizing" /\ t.owner = o /\ t.version = v /\ t.live

RenewFinalizeLease(t) == [t EXCEPT !.live = TRUE, !.version = @ + 1]

MarkCompleted_KeepsLease(t) ==
    [t EXCEPT !.status = "Completed", !.version = @ + 1]

MarkCompleted(t) ==
    [t EXCEPT !.status = "Completed", !.owner = NoOwner, !.live = FALSE,
              !.version = @ + 1]

RecordFinalizeError(t) == [t EXCEPT !.error = TRUE]

\* An operator ends a lease early; the row stays Finalizing.
ReleaseUploadLease(t) == [t EXCEPT !.live = FALSE, !.version = @ + 1]

-----------------------------------------------------------------------------
(* Cancellation, expiry and chunk admission: only while InProgress.        *)

CanCancel_Claimed(t) == IsActive(t) /\ ~t.expired

CanCancel(t) == t.status = "InProgress" /\ ~t.expired

MarkCancelled(t) == [t EXCEPT !.status = "Cancelled", !.version = @ + 1]

CanExpire_WithLiveLease(t) == t.status = "InProgress" /\ t.expired /\ t.live

CanExpire(t) == t.status = "InProgress" /\ t.expired

MarkExpired(t) == [t EXCEPT !.status = "Expired", !.version = @ + 1]

AcceptsChunk_AnyState(t) == t.status # "None"

AcceptsChunk(t) == t.status = "InProgress" /\ ~t.expired

=============================================================================
