------------------------------- MODULE Shares -------------------------------
(***************************************************************************)
(* Shares of one owner, the visitors who open them, and a user who saves   *)
(* shared files to his own drive (ShareService, ShareAuthFilter, and the   *)
(* part of MoveToTrash and AdminService that writes shares).               *)
(*                                                                         *)
(* Each statement outside a transaction is a step; a transaction is one    *)
(* step per point where it reads what others may be changing, and takes    *)
(* effect when it commits.  An item is a shared file or a shared folder    *)
(* with the files in it; every file has one unit of size and a content row *)
(* of its own.  Links, texts, counters of views and audit rows are left    *)
(* out; wrong passwords are counted in the module RequestGate.             *)
(***************************************************************************)
EXTENDS Naturals, FiniteSets

CONSTANTS
    Codes,          \* share codes
    Items,          \* files and folders of the owner
    FilesOf,        \* [Items -> SUBSET files]: the file itself, or a folder's files
    Visitors,       \* requests of visitors, the owner and administrators
    SaverQuota,     \* storage_quota of the user who saves
    MaxDay,         \* the clock's bound
    MaxTokens,      \* tokens that are followed
    NoCode

ASSUME ShareAssumption ==
    /\ NoCode \notin Codes
    /\ {SaverQuota, MaxDay, MaxTokens} \subseteq Nat
    /\ FilesOf \in [Items -> SUBSET (UNION {FilesOf[i] : i \in Items})]
    /\ IsFiniteSet(UNION {FilesOf[i] : i \in Items})
    /\ \A i, j \in Items : i # j => FilesOf[i] \cap FilesOf[j] = {}

SharedFiles == UNION {FilesOf[i] : i \in Items}
Permissions == {"view", "download"}

VARIABLES
    day,
    share,      \* tables shares and share_files
    kept,       \* items of the owner that are not in the trash
    purged,     \* items deleted for good
    refs,       \* ref_count of the files' contents
    drive,      \* the saver: storage_used, names in the target folder, the folder
    token,      \* share tokens that were issued
    vreq,       \* what a request is doing and what it has read
    withdrawn   \* history: shares whose cancellation has been answered

shareVars == <<day, share, kept, purged, refs, drive, token, vreq, withdrawn>>

NoShare == [st |-> "none", exp |-> 0, perm |-> "view", items |-> {}, late |-> {}]

IdleVisitor == [pc |-> "idle", code |-> NoCode, perm |-> "view", items |-> {},
                plan |-> {}, linked |-> {}, barred |-> {}]

ShareInit ==
    /\ day = 0
    /\ share = [c \in Codes |-> NoShare]
    /\ kept = Items /\ purged = {}
    /\ refs = [f \in SharedFiles |-> 1]
    /\ drive = [used |-> 0, names |-> {}, folder |-> TRUE, count |-> 0, locked |-> FALSE]
    /\ token = {}
    /\ vreq = [v \in Visitors |-> IdleVisitor]
    /\ withdrawn = {}

-----------------------------------------------------------------------------
(* Helpers.                                                                *)

\* exp is 0 for a share that never expires.
IsShareExpired(s) == s.exp # 0 /\ s.exp <= day
IsShareActive(s)  == s.st = "active" /\ ~IsShareExpired(s)

\* BuildSharedFileAccessPredicate: the file is shared, or below a shared folder.
SharedFileAccess(s, f) == \E i \in s.items \cap kept : f \in FilesOf[i]

Finished(v) == vreq' = [vreq EXCEPT ![v] = IdleVisitor]
Continues(v, r) == vreq' = [vreq EXCEPT ![v] = r]
Starts(pc) == [IdleVisitor EXCEPT !.pc = pc]

-----------------------------------------------------------------------------
(* The owner: Create, Update, Cancel.                                      *)

\* ValidateFileOwnership and ValidateFolderOwnership, before the transaction.
CreateValidate(v, is) ==
    /\ vreq[v].pc = "idle" /\ is # {}
    /\ IF is \subseteq kept THEN Continues(v, [Starts("insert") EXCEPT !.items = is]) ELSE Finished(v)
    /\ UNCHANGED <<day, share, kept, purged, refs, drive, token, withdrawn>>

\* Items whose links no committed or running MoveToTrash has looked for yet.
Linkable == kept \ UNION {vreq[w].items : w \in {u \in Visitors : vreq[u].pc = "unlink"}}

\* Candidates until one is free; the attempts may all collide.
CreateInsert(v, perm, exp) ==
    /\ vreq[v].pc = "insert"
    /\ \/ \E c \in Codes :
            /\ share[c].st = "none"
            /\ share' = [share EXCEPT ![c] =
                  [st |-> "active", exp |-> exp, perm |-> perm,
                   items |-> vreq[v].items, late |-> vreq[v].items \ Linkable]]
       \/ (\E c \in Codes : share[c].st # "none") /\ share' = share
    /\ Finished(v)
    /\ UNCHANGED <<day, kept, purged, refs, drive, token, withdrawn>>

UpdateRead(v, c) ==
    /\ vreq[v].pc = "idle"
    /\ IF IsShareActive(share[c])
       THEN Continues(v, [Starts("update") EXCEPT !.code = c])
       ELSE Finished(v)
    /\ UNCHANGED <<day, share, kept, purged, refs, drive, token, withdrawn>>

UpdateWrite_WholeRow(v, perm, exp) ==
    /\ vreq[v].pc = "update"
    /\ share' = [share EXCEPT ![vreq[v].code] = [@ EXCEPT !.exp = exp, !.perm = perm, !.st = "active"]]
    /\ Finished(v)
    /\ UNCHANGED <<day, kept, purged, refs, drive, token, withdrawn>>

\* mapper.update writes the columns that were set, and no other.
UpdateWrite(v, perm, exp) ==
    /\ vreq[v].pc = "update"
    /\ share' = [share EXCEPT ![vreq[v].code] = [@ EXCEPT !.exp = exp, !.perm = perm]]
    /\ Finished(v)
    /\ UNCHANGED <<day, kept, purged, refs, drive, token, withdrawn>>

\* One chunk: the rows are read, those not cancelled yet are updated.  An
\* administrator's ForceCancelShare does the same to one share.
CancelRead(v, c) ==
    /\ vreq[v].pc = "idle"
    /\ IF share[c].st = "active" THEN Continues(v, [Starts("cancel") EXCEPT !.code = c]) ELSE Finished(v)
    /\ UNCHANGED <<day, share, kept, purged, refs, drive, token, withdrawn>>

CancelWrite(v) ==
    /\ vreq[v].pc = "cancel"
    /\ share' = [share EXCEPT ![vreq[v].code].st = "cancelled"]
    /\ withdrawn' = withdrawn \cup {vreq[v].code}
    /\ Finished(v)
    /\ UNCHANGED <<day, kept, purged, refs, drive, token>>

-----------------------------------------------------------------------------
(* A visitor: Access, then Browse, download and save with the token.       *)

\* FindShareByCode, status, expiry and password of the row that was read;
\* right: the share has no password, or the visitor knows it.
AccessCheck(v, c, right) ==
    /\ vreq[v].pc = "idle"
    /\ IF IsShareActive(share[c]) /\ right
       THEN Continues(v, [Starts("token") EXCEPT !.code = c, !.perm = share[c].perm, !.barred = withdrawn])
       ELSE Finished(v)
    /\ UNCHANGED <<day, share, kept, purged, refs, drive, token, withdrawn>>

\* GenerateShareToken with the permission that was read; it lives a day.
AccessGrant(v) ==
    /\ vreq[v].pc = "token" /\ Cardinality(token) < MaxTokens
    /\ token' = token \cup {[code |-> vreq[v].code, scope |-> vreq[v].perm, exp |-> day + 1]}
    /\ Finished(v)
    /\ UNCHANGED <<day, share, kept, purged, refs, drive, withdrawn>>

\* ShareAuthFilter: signature, expiry, and the scope that the path needs.
ShareAuthFilter(v, t, op) ==
    /\ vreq[v].pc = "idle"
    /\ IF t.exp > day /\ (op \in {"download", "save"} => t.scope = "download")
       THEN Continues(v, [Starts(op) EXCEPT !.code = t.code, !.barred = withdrawn])
       ELSE Finished(v)
    /\ UNCHANGED <<day, share, kept, purged, refs, drive, token, withdrawn>>

\* Browse: ValidateShareActive, then the listing.
BrowseActive(v) ==
    /\ vreq[v].pc = "browse"
    /\ IF IsShareActive(share[vreq[v].code])
       THEN Continues(v, [vreq[v] EXCEPT !.pc = "listing"]) ELSE Finished(v)
    /\ UNCHANGED <<day, share, kept, purged, refs, drive, token, withdrawn>>

BrowseList(v) ==
    /\ vreq[v].pc = "listing"
    /\ Finished(v)
    /\ UNCHANGED <<day, share, kept, purged, refs, drive, token, withdrawn>>

\* GetDownloadInfo: one query over the four tables.
DownloadAllowed(c, f) ==
    /\ IsShareActive(share[c])
    /\ SharedFileAccess(share[c], f)
    /\ share[c].perm = "download"

GetDownloadInfo(v, f) ==
    /\ vreq[v].pc = "download"
    /\ IF DownloadAllowed(vreq[v].code, f)
       THEN Continues(v, [vreq[v] EXCEPT !.pc = "stream", !.plan = {f}]) ELSE Finished(v)
    /\ UNCHANGED <<day, share, kept, purged, refs, drive, token, withdrawn>>

\* The body is sent; CompleteDownload counts it.
CompleteDownload(v) ==
    /\ vreq[v].pc = "stream"
    /\ Finished(v)
    /\ UNCHANGED <<day, share, kept, purged, refs, drive, token, withdrawn>>

-----------------------------------------------------------------------------
(* SaveToDrive                                                             *)

SaveCheck(v) ==
    /\ vreq[v].pc = "save"
    /\ IF IsShareActive(share[vreq[v].code]) /\ share[vreq[v].code].perm = "download"
       THEN Continues(v, [vreq[v] EXCEPT !.pc = "plan"]) ELSE Finished(v)
    /\ UNCHANGED <<day, share, kept, purged, refs, drive, token, withdrawn>>

\* The target folder and the rows to copy, read outside the transaction.
SavePlan(v, fs) ==
    /\ vreq[v].pc = "plan" /\ fs # {}
    /\ IF drive.folder /\ \A f \in fs : SharedFileAccess(share[vreq[v].code], f)
       THEN Continues(v, [vreq[v] EXCEPT !.pc = "quota", !.plan = fs]) ELSE Finished(v)
    /\ UNCHANGED <<day, share, kept, purged, refs, drive, token, withdrawn>>

SaveFits(n) == drive.used + n <= SaverQuota

\* UPDATE users ... AND storage_used + n <= storage_quota: it locks the row.
SaveQuota(v) ==
    /\ vreq[v].pc = "quota" /\ ~drive.locked
    /\ IF SaveFits(Cardinality(vreq[v].plan))
       THEN /\ drive' = [drive EXCEPT !.locked = TRUE]
            /\ Continues(v, [vreq[v] EXCEPT !.pc = "copy"])
       ELSE Finished(v) /\ UNCHANGED drive
    /\ UNCHANGED <<day, share, kept, purged, refs, token, withdrawn>>

\* The reference gate of IncrementRefCount: no content without a reference gains one.
SaveGate(fs) == \A f \in fs : refs[f] > 0

\* The rows that are inserted: those whose name is free.
SaveFresh(fs) == fs \ drive.names

\* What is left of storage_used when the unconsumed part has been given back.
SaveCharge_NoRefund(total, consumed) == drive.used + total
SaveCharge(total, consumed) == (drive.used + total) - (total - consumed)

\* Conflicting names are skipped, references taken, rows inserted, the folder
\* counted (also when it is gone: the UPDATE finds no row), and what was not
\* consumed of the quota is given back.
SaveCopy(v) ==
    LET fresh == SaveFresh(vreq[v].plan)
    IN /\ vreq[v].pc = "copy"
       /\ IF SaveGate(fresh)
          THEN /\ refs' = [f \in SharedFiles |-> IF f \in fresh THEN refs[f] + 1 ELSE refs[f]]
               /\ drive' = [drive EXCEPT !.used = SaveCharge(Cardinality(vreq[v].plan), Cardinality(fresh)),
                                         !.names = @ \cup fresh, !.locked = FALSE,
                                         !.count = IF drive.folder THEN @ + Cardinality(fresh) ELSE @]
          ELSE drive' = [drive EXCEPT !.locked = FALSE] /\ UNCHANGED refs
       /\ Finished(v)
       /\ UNCHANGED <<day, share, kept, purged, token, withdrawn>>

-----------------------------------------------------------------------------
(* The rest of the system: the trash, purges, the saver's target folder.   *)

LinkedShares(i) == {c \in Codes : i \in share[c].items}

\* CleanupShareLinksForMovedItems: the links that are deleted, and which shares
\* the committed rows leave empty.
TrashCleanup(v, i) ==
    /\ vreq[v].pc = "idle" /\ i \in kept
    /\ \A w \in Visitors : vreq[w].pc = "unlink" => i \notin vreq[w].items
    /\ Continues(v, [Starts("unlink") EXCEPT !.items = {i}, !.linked = LinkedShares(i),
                       !.plan = {c \in Codes : share[c].st = "active" /\ share[c].items = {i}}])
    /\ UNCHANGED <<day, share, kept, purged, refs, drive, token, withdrawn>>

TrashCommit(v) ==
    /\ vreq[v].pc = "unlink"
    /\ kept' = kept \ vreq[v].items
    /\ share' = [c \in Codes |->
          [share[c] EXCEPT !.items = IF c \in vreq[v].linked THEN @ \ vreq[v].items ELSE @,
                           !.st = IF c \in vreq[v].plan /\ @ = "active" THEN "cancelled" ELSE @]]
    /\ Finished(v)
    /\ UNCHANGED <<day, purged, refs, drive, token, withdrawn>>

\* ListShares of an administrator turns empty active shares off.
DisableEmptyShares ==
    /\ \E c \in Codes : share[c].st = "active" /\ share[c].items = {}
    /\ share' = [c \in Codes |-> IF share[c].st = "active" /\ share[c].items = {}
                                 THEN [share[c] EXCEPT !.st = "cancelled"] ELSE share[c]]
    /\ UNCHANGED <<day, kept, purged, refs, drive, token, vreq, withdrawn>>

\* PermanentlyDeleteTrashItems deletes a trash row once.
CanPurge(i) == i \in Items \ (kept \cup purged)

PurgeItem(i) ==
    /\ CanPurge(i)
    /\ purged' = purged \cup {i}
    /\ refs' = [f \in SharedFiles |-> IF f \in FilesOf[i] THEN refs[f] - 1 ELSE refs[f]]
    /\ UNCHANGED <<day, share, kept, drive, token, vreq, withdrawn>>

TargetRemoved ==
    /\ drive.folder /\ drive.names = {}
    /\ drive' = [drive EXCEPT !.folder = FALSE]
    /\ UNCHANGED <<day, share, kept, purged, refs, token, vreq, withdrawn>>

\* A statement throws, or the process ends: the transaction is rolled back.
VisitorFails(v) ==
    /\ vreq[v].pc # "idle"
    /\ drive' = [drive EXCEPT !.locked = @ /\ vreq[v].pc # "copy"]
    /\ Finished(v)
    /\ UNCHANGED <<day, share, kept, purged, refs, token, withdrawn>>

DayPasses ==
    /\ day < MaxDay
    /\ day' = day + 1
    /\ UNCHANGED <<share, kept, purged, refs, drive, token, vreq, withdrawn>>

ShareNext ==
    \/ DayPasses \/ DisableEmptyShares \/ TargetRemoved
    \/ \E i \in Items : PurgeItem(i)
    \/ \E v \in Visitors :
        \/ \E is \in SUBSET Items : CreateValidate(v, is)
        \/ \E p \in Permissions, d \in 0..MaxDay :
              CreateInsert(v, p, d) \/ UpdateWrite(v, p, d)
        \/ \E c \in Codes : UpdateRead(v, c) \/ CancelRead(v, c)
        \/ \E c \in Codes, right \in BOOLEAN : AccessCheck(v, c, right)
        \/ \E t \in token, op \in {"browse", "download", "save"} : ShareAuthFilter(v, t, op)
        \/ \E f \in SharedFiles : GetDownloadInfo(v, f)
        \/ \E fs \in SUBSET SharedFiles : SavePlan(v, fs)
        \/ CancelWrite(v) \/ AccessGrant(v) \/ BrowseActive(v) \/ BrowseList(v)
        \/ CompleteDownload(v) \/ SaveCheck(v) \/ SaveQuota(v) \/ SaveCopy(v)
        \/ \E i \in Items : TrashCleanup(v, i)
        \/ TrashCommit(v) \/ VisitorFails(v)

ShareSpec == ShareInit /\ [][ShareNext]_shareVars

-----------------------------------------------------------------------------
(* Properties                                                              *)

ShareTypeOK ==
    /\ day \in 0..MaxDay
    /\ \A c \in Codes : /\ share[c].st \in {"none", "active", "cancelled"}
                        /\ share[c].perm \in Permissions /\ share[c].items \subseteq Items
    /\ kept \subseteq Items /\ purged \subseteq Items \ kept
    /\ refs \in [SharedFiles -> Nat]
    /\ drive.used \in 0..SaverQuota /\ drive.names \subseteq SharedFiles
    /\ \A t \in token : t.code \in Codes /\ t.scope \in Permissions

\* Once a cancellation has been answered, no request that starts later gets
\* anything out of the share, whatever token it holds: no new token, no
\* listing, no download, no saved copy.
WithdrawnGrantsNothing ==
    \A v \in Visitors :
        vreq[v].pc \in {"token", "listing", "stream", "plan", "quota", "copy"} =>
            vreq[v].code \notin vreq[v].barred

\* The reference count of a content is the owner's row, until it is purged,
\* plus the saved copy: a save that raced the purge of its source took nothing.
SavedCopiesReferenced ==
    \A f \in SharedFiles :
        refs[f] = Cardinality({i \in Items \ purged : f \in FilesOf[i]})
                  + (IF f \in drive.names THEN 1 ELSE 0)

\* Every byte the saver is charged for is a file he has, and his folder counts
\* each of them, whatever was skipped, refused or rolled back.
SaverChargedForCopies ==
    /\ drive.used = Cardinality(drive.names)
    /\ drive.folder => drive.count = Cardinality(drive.names)

\* A share links no item that is in the trash, except one that went there
\* between Create's check and its commit.
LinksCleaned == \A c \in Codes : share[c].items \ kept \subseteq share[c].late

\* What shares leave behind: saved copies are referenced and paid for, and a
\* deleted item is linked by no share (ShareService::Create and SaveToDrive,
\* TrashService::CleanupShareLinksForMovedItems).
SharesAccounted ==
    ShareTypeOK /\ SavedCopiesReferenced /\ SaverChargedForCopies /\ LinksCleaned

=============================================================================
