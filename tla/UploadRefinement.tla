-------------------------- MODULE UploadRefinement --------------------------
(***************************************************************************)
(* UploadLifecycle implements UploadLedger: the ledger is the storage      *)
(* columns of users and the reference counts, the phase of an upload is    *)
(* read off its task and file rows.  Leases, takeovers, chunks, crashes    *)
(* and repeated requests are steps the ledger does not see.                *)
(***************************************************************************)
EXTENDS UploadLifecycle

PhaseOf(status, f) ==
    CASE status = "None" -> IF f = "none" THEN "none" ELSE "stored"
      [] status = "InProgress" -> "open"
      [] status = "Finalizing" -> "closed"
      [] status = "Completed" -> "stored"
      [] OTHER -> "dropped"

phaseBar    == [u \in Uploads |-> PhaseOf(task[u].status, file[u])]
reservedBar == [x \in Users |-> quota[x].reserved]
usedBar     == [x \in Users |-> quota[x].used]
refsBar     == [c \in Contents |-> content[c].refs]

Ledger == INSTANCE UploadLedger WITH
    phase <- phaseBar, reserved <- reservedBar, used <- usedBar, refs <- refsBar

\* Every step of the upload services, seen through the rows it leaves, is one
\* step of the ledger or none: bytes are reserved, given back and charged
\* exactly with the decision that calls for it, a claimed upload is never
\* dropped, and a stored one never changes (InitializeUpload, CompleteUpload,
\* CancelInProgressUpload, ExpireInProgressUpload and all their races).
KeepsLedger == Ledger!LedgerSpec

=============================================================================
