---------------------------- MODULE UploadLedger ----------------------------
(***************************************************************************)
(* What uploading promises to the users, without requests, leases, chunks, *)
(* processes or failures.  An upload is opened and reserves its bytes; it  *)
(* is dropped, which gives them back, or closed, after which it can only   *)
(* become a stored file; a content somebody has stored may be taken at     *)
(* once.  Every change of the ledger is one step together with the change  *)
(* of the upload that caused it.                                           *)
(***************************************************************************)
EXTENDS Naturals

CONSTANTS Users, Uploads, Contents, OwnerOf, ContentOf, SizeOf, QuotaOf

VARIABLES
    phase,      \* of an upload
    reserved,   \* bytes of a user's open and closed uploads
    used,       \* bytes of a user's files
    refs        \* files that use a content

ledgerVars == <<phase, reserved, used, refs>>

UserOf(u)   == OwnerOf[u]
Weight(u)   == SizeOf[ContentOf[u]]
Pending     == {"open", "closed"}
Rivals(u)   == {v \in Uploads : /\ OwnerOf[v] = OwnerOf[u] /\ ContentOf[v] = ContentOf[u]
                                /\ phase[v] \in Pending}

LedgerInit ==
    /\ phase = [u \in Uploads |-> "none"]
    /\ reserved = [x \in Users |-> 0]
    /\ used = [x \in Users |-> 0]
    /\ refs = [c \in Contents |-> 0]

Open(u) ==
    /\ phase[u] = "none" /\ Rivals(u) = {}
    /\ used[UserOf(u)] + reserved[UserOf(u)] + Weight(u) <= QuotaOf[UserOf(u)]
    /\ phase' = [phase EXCEPT ![u] = "open"]
    /\ reserved' = [reserved EXCEPT ![UserOf(u)] = @ + Weight(u)]
    /\ UNCHANGED <<used, refs>>

\* Instant upload.  Reserved bytes do not count against it.
Take(u) ==
    /\ phase[u] = "none" /\ refs[ContentOf[u]] > 0
    /\ used[UserOf(u)] + Weight(u) <= QuotaOf[UserOf(u)]
    /\ phase' = [phase EXCEPT ![u] = "stored"]
    /\ used' = [used EXCEPT ![UserOf(u)] = @ + Weight(u)]
    /\ refs' = [refs EXCEPT ![ContentOf[u]] = @ + 1]
    /\ UNCHANGED reserved

Drop(u) ==
    /\ phase[u] = "open" /\ reserved[UserOf(u)] >= Weight(u)
    /\ phase' = [phase EXCEPT ![u] = "dropped"]
    /\ reserved' = [reserved EXCEPT ![UserOf(u)] = @ - Weight(u)]
    /\ UNCHANGED <<used, refs>>

Close(u) ==
    /\ phase[u] = "open"
    /\ phase' = [phase EXCEPT ![u] = "closed"]
    /\ UNCHANGED <<reserved, used, refs>>

Store(u) ==
    /\ phase[u] = "closed" /\ reserved[UserOf(u)] >= Weight(u)
    /\ phase' = [phase EXCEPT ![u] = "stored"]
    /\ reserved' = [reserved EXCEPT ![UserOf(u)] = @ - Weight(u)]
    /\ used' = [used EXCEPT ![UserOf(u)] = @ + Weight(u)]
    /\ refs' = [refs EXCEPT ![ContentOf[u]] = @ + 1]

LedgerNext == \E u \in Uploads : Open(u) \/ Take(u) \/ Drop(u) \/ Close(u) \/ Store(u)

LedgerSpec == LedgerInit /\ [][LedgerNext]_ledgerVars

=============================================================================
