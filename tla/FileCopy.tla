------------------------------ MODULE FileCopy ------------------------------
(***************************************************************************)
(* Copying files and folders (FileMutationService::Copy): the bytes of the *)
(* whole request are reserved in one transaction, then every batch of      *)
(* files and every folder is copied in a transaction of its own, and what  *)
(* is not copied is released.  Between these steps the sources are moved   *)
(* to the trash and purged, the target folder is removed, a name in it is  *)
(* taken, and an administrator changes the user's space.                   *)
(*                                                                         *)
(* One user; a file has a size and a content, paths and times are left     *)
(* out.  A transaction is one step; a query outside one is a step whose    *)
(* answer may be stale when it is used.                                    *)
(***************************************************************************)
EXTENDS QuotaService, Integers, SetSums

CONSTANTS
    Sources,        \* file rows that may be copied
    SourceFolders,  \* folder rows that may be copied
    InFolder,       \* [SourceFolders -> SUBSET Sources]: files of the subtree
    Below,          \* [SourceFolders -> SUBSET SourceFolders]: folders of the subtree
    SizeOf,         \* [Sources -> Nat]
    ContentOf,      \* [Sources -> Contents]
    Contents,
    CopyRequests,   \* concurrent copy requests
    Asked,          \* [CopyRequests -> [files, folders]]
    ChunkSize,      \* DEFAULT_BATCH_CHUNK_SIZE
    StartQuota,     \* storage_quota at the start
    GrantedSpace    \* space an administrator may grant

ASSUME CopyAssumption ==
    /\ ChunkSize \in Nat \ {0} /\ {StartQuota, GrantedSpace} \subseteq Nat
    /\ SizeOf \in [Sources -> Nat] /\ ContentOf \in [Sources -> Contents]
    /\ InFolder \in [SourceFolders -> SUBSET Sources]
    /\ IsFiniteSet(Sources) /\ IsFiniteSet(SourceFolders) /\ IsFiniteSet(CopyRequests)
    /\ Asked \in [CopyRequests -> [files : SUBSET Sources, folders : SUBSET SourceFolders]]

\* A file is in one folder: the subtrees of two folders meet only if one folder is below
\* the other.
ASSUME SubtreeAssumption ==
    \A d, e \in SourceFolders :
        d # e /\ d \notin Below[e] /\ e \notin Below[d] => InFolder[d] \cap InFolder[e] = {}

VARIABLES
    space,      \* users: storage_quota, storage_used, storage_reserved
    alive,      \* source rows that are not purged
    ref,        \* file_contents.ref_count; -1 once the row is deleted
    target,     \* the target folder: live, names in it
    copied,     \* inserted copies: [of, by, below]
    creq,       \* copy requests
    grant       \* ChangeUserAvailableSpace: the row it has read

copyVars == <<space, alive, ref, target, copied, creq, grant>>

Bytes(s)    == Total(SizeOf, s)
FolderBytes == [d \in SourceFolders |-> Bytes(InFolder[d])]
NoGrant     == [pc |-> "idle", quota |-> 0, used |-> 0, reserved |-> 0]
IdleCopy    == [pc |-> "idle", files |-> {}, folders |-> {}, batch |-> {}, folder |-> {}, valid |-> {},
                release |-> 0, next |-> "idle", total |-> 0, actual |-> 0, released |-> 0]

CopyInit ==
    /\ space = [quota |-> StartQuota, used |-> Bytes(Sources), reserved |-> 0]
    /\ alive = Sources
    /\ ref = [c \in Contents |-> Cardinality({f \in Sources : ContentOf[f] = c})]
    /\ target = [live |-> TRUE, names |-> {}]
    /\ copied = {}
    /\ creq = [c \in CopyRequests |-> IdleCopy]
    /\ grant = NoGrant

Pc(c, pc) == creq[c].pc = pc
Becomes_(c, q) == creq' = [creq EXCEPT ![c] = q]

-----------------------------------------------------------------------------
(* The plan, read outside a transaction.                                   *)

\* FilterCoveredFolderIds and CollectCoveredFileIds.
TopFolders(ids)  == {d \in ids : \A e \in ids : d \notin Below[e]}

CoveredFiles(ds) == UNION {InFolder[d] : d \in ds}

\* Folders whose files are gone have no plan; a batch of files whose query
\* fails is left out.
CopyPlan(c) ==
    /\ Pc(c, "idle") /\ target.live
    /\ LET ds == {d \in TopFolders(Asked[c].folders) : InFolder[d] \subseteq alive}
           fs == (Asked[c].files \ CoveredFiles(ds)) \cap alive
       IN \E read \in {fs, {}} :
            Becomes_(c, [IdleCopy EXCEPT !.pc = "reserve", !.files = read, !.folders = ds,
                          !.total = Bytes(read) + Total(FolderBytes, ds)])
    /\ UNCHANGED <<space, alive, ref, target, copied, grant>>

\* ResolveOwnedFolderLocation finds no target.
CopyTargetMissing(c) ==
    /\ Pc(c, "idle") /\ ~target.live
    /\ Becomes_(c, [IdleCopy EXCEPT !.pc = "refused"])
    /\ UNCHANGED <<space, alive, ref, target, copied, grant>>

CopyReserve(c) ==
    /\ Pc(c, "reserve") /\ CanReserve(space, creq[c].total)
    /\ space' = ReserveStorage(space, creq[c].total)
    /\ Becomes_(c, [creq[c] EXCEPT !.pc = "loop"])
    /\ UNCHANGED <<alive, ref, target, copied, grant>>

\* StorageQuotaExceeded, or a failed statement.
CopyNotReserved(c) ==
    /\ Pc(c, "reserve")
    /\ Becomes_(c, [creq[c] EXCEPT !.pc = "refused", !.total = 0])
    /\ UNCHANGED <<space, alive, ref, target, copied, grant>>

-----------------------------------------------------------------------------
(* Batches of files.                                                       *)

\* release_copy_reservation, then `after'.
Releasing(q, bytes, after) == [q EXCEPT !.pc = "release", !.release = bytes, !.next = after]

\* The next chunk, its conflict query (which may fail) and FindExistingIds
\* (whose failure yields no ids).
CopyFilesQuery(c) ==
    /\ Pc(c, "loop") /\ creq[c].files # {}
    /\ \E b \in SUBSET creq[c].files :
         /\ Cardinality(b) = ChunkSize \/ (b = creq[c].files /\ Cardinality(b) < ChunkSize)
         /\ LET q == [creq[c] EXCEPT !.files = @ \ b, !.batch = b]
                free == {f \in b : f \notin target.names /\ ref[ContentOf[f]] >= 0}
            IN \/ Becomes_(c, Releasing(q, Bytes(b), "loop"))
               \/ free # {} /\ Becomes_(c, [q EXCEPT !.pc = "filesTx", !.valid = free])
    /\ UNCHANGED <<space, alive, ref, target, copied, grant>>

\* IncrementRefCountsChecked: every content row is locked and still there.
ContentsThere(fs) == \A f \in fs : ref[ContentOf[f]] >= 0

RefsWith(fs) == [c \in Contents |-> ref[c] + Cardinality({f \in fs : ContentOf[f] = c})]

\* The names are read again under their locks; what has been taken since is
\* skipped and released in the same transaction.
CopyFilesTx(c) ==
    /\ Pc(c, "filesTx") /\ target.live
    /\ LET q     == creq[c]
           items == q.valid \ target.names
           late  == q.valid \ items
           early == q.batch \ q.valid
           paid  == CommitReservedToUsed(space, Bytes(items))
       IN /\ ContentsThere(items)
          /\ HasReserved(space, Bytes(items)) /\ HasReserved(paid, Bytes(late))
          /\ ref' = RefsWith(items)
          /\ copied' = copied \cup {[of |-> f, by |-> c, below |-> {}] : f \in items}
          /\ target' = [target EXCEPT !.names = @ \cup items]
          /\ space' = ReleaseReservedStorage(paid, Bytes(late))
          /\ LET done == [q EXCEPT !.actual = @ + Bytes(items), !.released = @ + Bytes(late), !.valid = {}]
             IN Becomes_(c, Releasing(done, Bytes(early), "loop"))
    /\ UNCHANGED <<alive, grant>>

\* The transaction is rolled back and the whole chunk is released.
CopyFilesTxFailed_OnlyValid(c) ==
    /\ Pc(c, "filesTx")
    /\ Becomes_(c, Releasing([creq[c] EXCEPT !.valid = {}], Bytes(creq[c].valid), "loop"))
    /\ UNCHANGED <<space, alive, ref, target, copied, grant>>
CopyFilesTxFailed(c) ==
    /\ Pc(c, "filesTx")
    /\ Becomes_(c, Releasing([creq[c] EXCEPT !.valid = {}], Bytes(creq[c].batch), "loop"))
    /\ UNCHANGED <<space, alive, ref, target, copied, grant>>

-----------------------------------------------------------------------------
(* Folders, once the files are done.                                       *)

\* The conflict query, the test that the target is not inside, the names and
\* the contents: a folder that cannot be copied is released.
CopyFolderQuery(c) ==
    /\ Pc(c, "loop") /\ creq[c].files = {} /\ creq[c].folders # {}
    /\ \E d \in creq[c].folders :
         LET q == [creq[c] EXCEPT !.folders = @ \ {d}, !.folder = {d}, !.batch = InFolder[d]]
         IN \/ Becomes_(c, Releasing(q, Bytes(InFolder[d]), "loop"))
            \/ /\ d \notin target.names /\ ContentsThere(InFolder[d])
               /\ Becomes_(c, [q EXCEPT !.pc = "folderTx"])
    /\ UNCHANGED <<space, alive, ref, target, copied, grant>>

CopyFolderTx(c) ==
    /\ Pc(c, "folderTx") /\ target.live
    /\ LET q == creq[c]
       IN \/ \* the name was taken: released, nothing else
             /\ q.folder \subseteq target.names /\ HasReserved(space, Bytes(q.batch))
             /\ space' = ReleaseReservedStorage(space, Bytes(q.batch))
             /\ Becomes_(c, [q EXCEPT !.pc = "loop", !.released = @ + Bytes(q.batch), !.batch = {}, !.folder = {}])
             /\ UNCHANGED <<ref, copied, target>>
          \/ /\ ~(q.folder \subseteq target.names)
             /\ ContentsThere(q.batch) /\ HasReserved(space, Bytes(q.batch))
             /\ ref' = RefsWith(q.batch)
             /\ copied' = copied \cup {[of |-> f, by |-> c, below |-> q.folder] : f \in q.batch}
             /\ target' = [target EXCEPT !.names = @ \cup q.folder]
             /\ space' = CommitReservedToUsed(space, Bytes(q.batch))
             /\ Becomes_(c, [q EXCEPT !.pc = "loop", !.actual = @ + Bytes(q.batch), !.batch = {}, !.folder = {}])
    /\ UNCHANGED <<alive, grant>>

CopyFolderTxFailed(c) ==
    /\ Pc(c, "folderTx")
    /\ Becomes_(c, Releasing(creq[c], Bytes(creq[c].batch), "loop"))
    /\ UNCHANGED <<space, alive, ref, target, copied, grant>>

-----------------------------------------------------------------------------
(* Releasing, and the end of the request.                                  *)

CopyRelease(c) ==
    /\ Pc(c, "release") /\ HasReserved(space, creq[c].release)
    /\ space' = ReleaseReservedStorage(space, creq[c].release)
    /\ Becomes_(c, [creq[c] EXCEPT !.pc = creq[c].next, !.released = @ + creq[c].release,
                                   !.release = 0, !.batch = {}, !.folder = {}])
    /\ UNCHANGED <<alive, ref, target, copied, grant>>

\* return_release_error: the rest of the reservation stays behind.
CopyReleaseFailed(c) ==
    /\ Pc(c, "release") /\ creq[c].release > 0
    /\ Becomes_(c, [creq[c] EXCEPT !.pc = "leaked"])
    /\ UNCHANGED <<space, alive, ref, target, copied, grant>>

CopyEnd(c) ==
    /\ Pc(c, "loop") /\ creq[c].files = {} /\ creq[c].folders = {}
    /\ Becomes_(c, [creq[c] EXCEPT !.pc = "answered"])
    /\ UNCHANGED <<space, alive, ref, target, copied, grant>>

-----------------------------------------------------------------------------
(* The other requests.                                                     *)

\* A source goes through the trash and is purged: the reference is dropped,
\* the bytes are no longer used, and a content without references is
\* deleted by the garbage collector.
PurgeSource(f) ==
    /\ f \in alive
    /\ alive' = alive \ {f}
    /\ ref' = [ref EXCEPT ![ContentOf[f]] = @ - 1]
    /\ space' = [space EXCEPT !.used = @ - SizeOf[f]]
    /\ UNCHANGED <<target, copied, creq, grant>>

CollectContent(k) ==
    /\ ref[k] = 0
    /\ ref' = [ref EXCEPT ![k] = -1]
    /\ UNCHANGED <<space, alive, target, copied, creq, grant>>

\* Another request takes a name in the target, or removes the target.
TakeName(n) ==
    /\ target.live /\ n \notin target.names
    /\ target' = [target EXCEPT !.names = @ \cup {n}]
    /\ UNCHANGED <<space, alive, ref, copied, creq, grant>>

RemoveTarget ==
    /\ target.live
    /\ target' = [target EXCEPT !.live = FALSE]
    /\ UNCHANGED <<space, alive, ref, copied, creq, grant>>

\* ChangeUserAvailableSpace reads the row and later updates it.
ReadSpace ==
    /\ grant.pc = "idle"
    /\ grant' = [pc |-> "read", quota |-> space.used + space.reserved + GrantedSpace,
                 used |-> space.used, reserved |-> space.reserved]
    /\ UNCHANGED <<space, alive, ref, target, copied, creq>>

\* Mapper::update writes the columns that were set: storage_quota.
UpdatedSpace == [space EXCEPT !.quota = grant.quota]

ChangeUserAvailableSpace ==
    /\ grant.pc = "read"
    /\ space' = UpdatedSpace
    /\ grant' = [NoGrant EXCEPT !.pc = "done"]
    /\ UNCHANGED <<alive, ref, target, copied, creq>>

CopyNext ==
    \/ \E c \in CopyRequests :
        \/ CopyPlan(c) \/ CopyTargetMissing(c) \/ CopyReserve(c) \/ CopyNotReserved(c)
        \/ CopyFilesQuery(c) \/ CopyFilesTx(c) \/ CopyFilesTxFailed(c)
        \/ CopyFolderQuery(c) \/ CopyFolderTx(c) \/ CopyFolderTxFailed(c)
        \/ CopyRelease(c) \/ CopyReleaseFailed(c) \/ CopyEnd(c)
    \/ \E f \in Sources : PurgeSource(f)
    \/ \E k \in Contents : CollectContent(k)
    \/ \E n \in Sources \cup SourceFolders : TakeName(n)
    \/ RemoveTarget \/ ReadSpace \/ ChangeUserAvailableSpace

CopySpec == CopyInit /\ [][CopyNext]_copyVars

-----------------------------------------------------------------------------
(* Properties                                                              *)

CopyRow == [of : Sources, by : CopyRequests, below : SUBSET SourceFolders]

CopyTypeOK ==
    /\ space \in QuotaRow
    /\ alive \subseteq Sources /\ copied \subseteq CopyRow
    /\ \A k \in Contents : ref[k] + 1 \in Nat
    /\ \A c \in CopyRequests : {creq[c].total, creq[c].actual, creq[c].released} \subseteq Nat

\* What a request has reserved and has neither used nor given back.
Owed(q) == IF q.pc \in {"idle", "reserve", "refused"} THEN 0 ELSE q.total - q.actual - q.released

\* What the code only logs ("Copy accounting mismatch"): the bytes reserved
\* and not yet settled are those of the requests still running and of the
\* ones that ended because a release failed; an answered copy leaves none.
CopyReservationSettled ==
    /\ space.reserved = Total([c \in CopyRequests |-> Owed(creq[c])], CopyRequests)
    /\ \A c \in CopyRequests : Pc(c, "answered") => creq[c].total = creq[c].actual + creq[c].released

\* The used bytes are those of the files the user has, whatever an
\* administrator's update of the same row was based on.
CopyUsedExact ==
    space.used = Bytes(alive) + Total([x \in CopyRow |-> SizeOf[x.of]], copied)

\* A copy's content is never one the garbage collector has deleted since the
\* plan was made, and is counted once per file.
CopyContentKept ==
    \A k \in Contents :
        LET owners == Cardinality({f \in alive : ContentOf[f] = k})
                        + Cardinality({x \in copied : ContentOf[x.of] = k})
        IN IF ref[k] = -1 THEN owners = 0 ELSE ref[k] = owners

\* A request inserts one copy of a file, also when it names both the file and
\* a folder the file is in.
CopiedOnce == \A x, y \in copied : x.of = y.of /\ x.by = y.by => x = y

\* The account of a user who copies: reserved and used bytes, reference counts
\* and copies agree at every point between the transactions of
\* FileMutationService::Copy, whichever of them fails.
CopiesAccounted ==
    /\ CopyTypeOK /\ CopyReservationSettled /\ CopyUsedExact
    /\ CopyContentKept /\ CopiedOnce

=============================================================================
