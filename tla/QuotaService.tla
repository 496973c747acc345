---------------------------- MODULE QuotaService ----------------------------
(***************************************************************************)
(* The storage columns of a users row and the conditional UPDATEs of       *)
(* src/src/services/QuotaService.cpp: for each one its WHERE clause and    *)
(* its SET list.                                                           *)
(***************************************************************************)
EXTENDS Naturals

QuotaRow == [quota : Nat, used : Nat, reserved : Nat]

CanReserve(q, bytes) == q.used + q.reserved + bytes <= q.quota

ReserveStorage(q, bytes) == [q EXCEPT !.reserved = @ + bytes]

\* WHERE of ReleaseReservedStorageChecked and of CommitReservedToUsed.
HasReserved(q, bytes) == q.reserved >= bytes

ReleaseReservedStorage(q, bytes) == [q EXCEPT !.reserved = @ - bytes]

CommitReservedToUsed_ReleasesTwice(q, bytes) ==
    [q EXCEPT !.reserved = @ - 2 * bytes, !.used = @ + bytes]

CommitReservedToUsed_KeepsReserved(q, bytes) == [q EXCEPT !.used = @ + bytes]

CommitReservedToUsed(q, bytes) ==
    [q EXCEPT !.reserved = @ - bytes, !.used = @ + bytes]

\* ConsumeUsedStorage compares used bytes only; reserved bytes are not read.
CanConsume(q, bytes) == q.used + bytes <= q.quota

ConsumeUsedStorage(q, bytes) == [q EXCEPT !.used = @ + bytes]

=============================================================================
