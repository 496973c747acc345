------------------------------- MODULE BlobGc -------------------------------
(***************************************************************************)
(* Reference counts of deduplicated contents and the garbage collection of *)
(* their final objects: src/src/services/ContentService.cpp, the permanent *)
(* deletion of TrashService.cpp, the content scan of                       *)
(* StorageReconciliationService.cpp and the blob_gc handler of             *)
(* StorageJobWorker.cpp, over the job rows of StorageJobRepository.        *)
(*                                                                         *)
(* A transaction is one action, except the one blob_gc keeps open, with    *)
(* the content row locked, while it deletes the object.  Of the completion *)
(* of an upload, which UploadLifecycle models in full, there is what meets *)
(* the collector: its lookup, the promotion of the object (one step: an S3 *)
(* object appears whole) and the finalize transaction.                     *)
(***************************************************************************)
EXTENDS Naturals, FiniteSets, SetSums, StorageJobRepository

CONSTANTS
    Users,
    Files,      \* file identities; each is created once at most
    Contents,
    OwnerOf, ContentOf, SizeOf,
    Deleters,   \* permanent deletions in flight: a user's request or expire_trash
    ConnectionLoss  \* the collector's database connection may be lost

ASSUME OwnerAssumption   == OwnerOf \in [Files -> Users]
ASSUME ContentAssumption == ContentOf \in [Files -> Contents]
ASSUME SizeAssumption    == SizeOf \in [Contents -> Nat]
ASSUME LossAssumption    == ConnectionLoss \in BOOLEAN
ASSUME TablesAssumption  == IsFiniteSet(Files) /\ Contents # {}

VARIABLES
    row,      \* file_contents
    gcJob,    \* the blob_gc job of the latest row of a content
    file,     \* files and trash rows
    cid,      \* content_id of a file
    used,     \* storage_used of a user
    blob,     \* contents whose final object exists
    fileReq,  \* the request that creates a file
    deleting, \* trash rows a permanent deletion has read
    stale,    \* zero-reference rows the reconciliation scan has read
    gpc,      \* the step of a worker process at a blob_gc job
    cand,     \* its candidate: BlobGcCandidate
    lock      \* who holds the row lock of a content for longer than an action

dbVars  == <<row, gcJob, file, cid, used>>
reqVars == <<fileReq, deleting, stale>>
gcVars  == <<gpc, cand, lock>>
blobVars == <<dbVars, blob, reqVars, gcVars>>

ContentRow == [id : Nat, refs : Nat, made : Nat]  \* id = 0: no row; made: ids used
Candidate  == [content : Contents, id : Nat]
ReqPc      == {"idle", "promote", "finalize", "reference"}
GcPc       == {"idle", "claimed", "delete", "detached", "deleted"}

\* The file has its reference and its bytes are charged.
Live(f) == file[f] \in {"active", "trash"}

SumBytes(fs) == Total([f \in Files |-> SizeOf[ContentOf[f]]], fs)

GcTypeOK ==
    /\ row      \in [Contents -> ContentRow]
    /\ gcJob    \in [Contents -> StorageJob]
    /\ file     \in [Files -> {"none", "active", "trash", "purged"}]
    /\ cid      \in [Files -> Nat]
    /\ used     \in [Users -> Nat]
    /\ blob     \subseteq Contents
    /\ fileReq  \in [Files -> [pc : ReqPc, seen : Nat]]
    /\ deleting \in [Deleters -> SUBSET Files]
    /\ stale    \subseteq Candidate
    /\ gpc      \in [JobOwners -> GcPc]
    /\ cand     \in [JobOwners -> Candidate]
    /\ lock     \in [Contents -> JobOwners \cup {NoLock}]

NoReq == [pc |-> "idle", seen |-> 0]

GcInit ==
    /\ row      = [c \in Contents |-> [id |-> 0, refs |-> 0, made |-> 0]]
    /\ gcJob    = [c \in Contents |-> NoJobRow]
    /\ file     = [f \in Files |-> "none"]
    /\ cid      = [f \in Files |-> 0]
    /\ used     = [x \in Users |-> 0]
    /\ blob     = {}
    /\ fileReq  = [f \in Files |-> NoReq]
    /\ deleting = [d \in Deleters |-> {}]
    /\ stale    = {}
    /\ gpc      = [g \in JobOwners |-> "idle"]
    /\ cand     = [g \in JobOwners |-> [content |-> CHOOSE c \in Contents : TRUE, id |-> 0]]
    /\ lock     = [c \in Contents |-> NoLock]

-----------------------------------------------------------------------------
(* References are gained.                                                  *)

\* A statement that locks the row of c goes on.
RowFree_NeverWaits(c) == TRUE

RowFree(c) == lock[c] = NoLock

\* CheckBlobGcReferenceGate: no blob_gc job, or one that succeeded.
ReferenceGateOpen_Always(c) == TRUE

ReferenceGateOpen(c) == gcJob[c].status \in {"None", "Succeeded"}

\* The file appears with the content id and its bytes are charged.
CreateFile(f, id) ==
    /\ file' = [file EXCEPT ![f] = "active"]
    /\ cid'  = [cid EXCEPT ![f] = id]
    /\ used' = [used EXCEPT ![OwnerOf[f]] = @ + SizeOf[ContentOf[f]]]

\* CompleteUpload looks the content up; a failed query reads as no content.
Lookup(f) ==
    /\ file[f] = "none" /\ fileReq[f] = NoReq
    /\ \E id \in {0, row[ContentOf[f]].id} :
          fileReq' = [fileReq EXCEPT ![f] =
                    [pc |-> IF id = 0 THEN "promote" ELSE "finalize", seen |-> id]]
    /\ UNCHANGED <<dbVars, blob, deleting, stale, gcVars>>

\* The final object is created, or found.
PromoteToFinal(f) ==
    /\ fileReq[f].pc = "promote"
    /\ blob' = blob \cup {ContentOf[f]}
    /\ fileReq'  = [fileReq EXCEPT ![f].pc = "finalize"]
    /\ UNCHANGED <<dbVars, deleting, stale, gcVars>>

\* AcquireReference in the finalize transaction: the row that was looked up
\* must still be there, an existing row must not be condemned.
AcquireReference(f) ==
    LET c == ContentOf[f]
    IN  /\ fileReq[f].pc = "finalize"
        /\ RowFree(c)
        /\ fileReq[f].seen # 0 => row[c].id = fileReq[f].seen
        /\ IF row[c].id # 0
           THEN /\ ReferenceGateOpen(c)
                /\ row' = [row EXCEPT ![c].refs = @ + 1]
                /\ UNCHANGED gcJob
           ELSE /\ row' = [row EXCEPT ![c] = [id |-> @.made + 1, refs |-> 1,
                                              made |-> @.made + 1]]
                /\ gcJob' = [gcJob EXCEPT ![c] = NoJobRow]
        /\ CreateFile(f, row'[c].id)
        /\ fileReq' = [fileReq EXCEPT ![f] = NoReq]
        /\ UNCHANGED <<blob, deleting, stale, gcVars>>

\* Instant upload, copy and save from a share first read the content id ...
FindContent(f) ==
    /\ file[f] = "none" /\ fileReq[f] = NoReq
    /\ row[ContentOf[f]].id # 0
    /\ fileReq' = [fileReq EXCEPT ![f] = [pc |-> "reference", seen |-> row[ContentOf[f]].id]]
    /\ UNCHANGED <<dbVars, blob, deleting, stale, gcVars>>

\* ... and in their transaction lock the row with that id and count.
IncrementRefCount(f) ==
    LET c == ContentOf[f]
    IN  /\ fileReq[f].pc = "reference"
        /\ RowFree(c)
        /\ row[c].id = fileReq[f].seen
        /\ ReferenceGateOpen(c)
        /\ row' = [row EXCEPT ![c].refs = @ + 1]
        /\ CreateFile(f, fileReq[f].seen)
        /\ fileReq' = [fileReq EXCEPT ![f] = NoReq]
        /\ UNCHANGED <<gcJob, blob, deleting, stale, gcVars>>

\* A conflict, a quota that is exceeded, a failure, a crash.
RequestEnds(f) ==
    /\ fileReq[f] # NoReq
    /\ fileReq' = [fileReq EXCEPT ![f] = NoReq]
    /\ UNCHANGED <<dbVars, blob, deleting, stale, gcVars>>

-----------------------------------------------------------------------------
(* References are given up: a file keeps its reference in the trash.       *)

MoveToTrash(f) ==
    /\ file[f] = "active"
    /\ file' = [file EXCEPT ![f] = "trash"]
    /\ UNCHANGED <<row, gcJob, cid, used, blob, reqVars, gcVars>>

RestoreFile(f) ==
    /\ file[f] = "trash"
    /\ file' = [file EXCEPT ![f] = "active"]
    /\ UNCHANGED <<row, gcJob, cid, used, blob, reqVars, gcVars>>

\* Delete, DeleteAll and CleanupExpiredTrashPage read trash rows first.
ReadTrash(d, fs) ==
    /\ deleting[d] = {} /\ fs # {}
    /\ \A f \in fs : file[f] = "trash"
    /\ deleting' = [deleting EXCEPT ![d] = fs]
    /\ UNCHANGED <<dbVars, blob, fileReq, stale, gcVars>>

\* Files of fs that use the row of c.
Uses(fs, c) == {f \in fs : ContentOf[f] = c /\ cid[f] = row[c].id}

Without(n, k) == IF n >= k THEN n - k ELSE 0   \* GREATEST(n - k, 0)

DecrementRefCountsAndEnqueueGc(fs) ==
    /\ row' = [c \in Contents |->
                  [row[c] EXCEPT !.refs = Without(@, Cardinality(Uses(fs, c)))]]
    /\ gcJob' = [c \in Contents |->
                  IF Uses(fs, c) # {} /\ row'[c].refs = 0
                  THEN EnqueueOrRearmSucceeded(gcJob[c]) ELSE gcJob[c]]

Purge(fs) ==
    /\ \A f \in fs : RowFree(ContentOf[f])
    /\ DecrementRefCountsAndEnqueueGc(fs)
    /\ file' = [f \in Files |-> IF f \in fs THEN "purged" ELSE file[f]]
    /\ used' = [x \in Users |->
                   Without(used[x], SumBytes({f \in fs : OwnerOf[f] = x}))]

\* One transaction, rolled back unless every row is still in the trash.
PermanentlyDeleteTrashItems_AnyRows(d) ==
    /\ deleting[d] # {}
    /\ Purge(deleting[d])
    /\ deleting' = [deleting EXCEPT ![d] = {}]
    /\ UNCHANGED <<cid, blob, fileReq, stale, gcVars>>

PermanentlyDeleteTrashItems(d) ==
    /\ deleting[d] # {}
    /\ \A f \in deleting[d] : file[f] = "trash"
    /\ Purge(deleting[d])
    /\ deleting' = [deleting EXCEPT ![d] = {}]
    /\ UNCHANGED <<cid, blob, fileReq, stale, gcVars>>

DeletionEnds(d) ==
    /\ deleting[d] # {}
    /\ deleting' = [deleting EXCEPT ![d] = {}]
    /\ UNCHANGED <<dbVars, blob, fileReq, stale, gcVars>>

-----------------------------------------------------------------------------
(* storage_reconcile: the scan reads rows without references and, outside  *)
(* any transaction, enqueues or rearms their job.                          *)

ScanContent(c) ==
    /\ row[c].id # 0 /\ row[c].refs = 0
    /\ stale' = stale \cup {[content |-> c, id |-> row[c].id]}
    /\ stale' # stale
    /\ UNCHANGED <<dbVars, blob, fileReq, deleting, gcVars>>

\* A rearmed job of a row that a newer one has replaced is left out: it finds
\* no row (GcStart).
EnqueueBlobGc(k) ==
    /\ k \in stale
    /\ stale' = stale \ {k}
    /\ gcJob' = [gcJob EXCEPT ![k.content] =
                 IF row[k.content].made = k.id THEN EnqueueOrRearmSucceeded(@) ELSE @]
    /\ UNCHANGED <<row, file, cid, used, blob, fileReq, deleting, gcVars>>

-----------------------------------------------------------------------------
(* blob_gc, one execution per worker process.                              *)

\* The candidate's job row.  Once a newer content row exists the job of the
\* old one is over, and an execution of it owns nothing.
OwnsJob(g) ==
    LET k == cand[g]
    IN  row[k.content].made = k.id /\ LockedBy(gcJob[k.content], g)

SetJob(c, j) == gcJob' = [gcJob EXCEPT ![c] = j]

GcIdle(g) ==
    /\ gpc'  = [gpc EXCEPT ![g] = "idle"]
    /\ lock' = [c \in Contents |-> IF lock[c] = g THEN NoLock ELSE lock[c]]
    /\ UNCHANGED cand

GcClaim(g, c) ==
    /\ gpc[g] = "idle"
    /\ IsReady(gcJob[c])
    /\ SetJob(c, Claimed(gcJob[c], g))
    /\ gpc'  = [gpc EXCEPT ![g] = "claimed"]
    /\ cand' = [cand EXCEPT ![g] = [content |-> c, id |-> row[c].made]]
    /\ UNCHANGED <<row, file, cid, used, blob, reqVars, lock>>

\* SELECT ... FOR UPDATE.  Without a row, or with references, the job is done.
GcStart(g) ==
    LET c       == cand[g].content
        present == row[c].id = cand[g].id
    IN  /\ gpc[g] = "claimed"
        /\ present => RowFree(c)
        /\ \/ /\ ~present \/ row[c].refs > 0
              /\ OwnsJob(g)
              /\ SetJob(c, MarkSucceeded(gcJob[c]))
              /\ GcIdle(g)
           \/ /\ present /\ row[c].refs = 0
              /\ \A f \in Files : Live(f) => Uses({f}, c) = {}
              /\ gpc'  = [gpc EXCEPT ![g] = "delete"]
              /\ lock' = [lock EXCEPT ![c] = g]
              /\ UNCHANGED <<gcJob, cand>>
        /\ UNCHANGED <<row, file, cid, used, blob, reqVars>>

\* DeleteBlob, with retries in the store.
GcDeleteBlob(g) ==
    /\ gpc[g] \in {"delete", "detached"}
    /\ blob' = blob \ {cand[g].content}
    /\ gpc'  = [gpc EXCEPT ![g] = "deleted"]
    /\ UNCHANGED <<dbVars, reqVars, cand, lock>>

\* DELETE FROM file_contents, MarkSucceeded, COMMIT.
GcCommit(g) ==
    LET c == cand[g].content
    IN  /\ gpc[g] = "deleted"
        /\ lock[c] = g
        /\ OwnsJob(g)
        /\ row' = [row EXCEPT ![c].id = 0]
        /\ SetJob(c, MarkSucceeded(gcJob[c]))
        /\ GcIdle(g)
        /\ UNCHANGED <<file, cid, used, blob, reqVars>>

\* Anything else ends in a rollback and a failure, recorded if the job still
\* is this worker's and the statement arrives.
GcFails(g, retryable) ==
    LET c == cand[g].content
    IN  /\ gpc[g] # "idle"
        /\ \/ OwnsJob(g) /\ SetJob(c, MarkFailed(gcJob[c], retryable))
           \/ UNCHANGED gcJob
        /\ GcIdle(g)
        /\ UNCHANGED <<row, file, cid, used, blob, reqVars>>

\* The server drops the connection and with it the transaction and the row
\* lock, while the process goes on with DeleteBlob.
LoseConnection(g) ==
    /\ ConnectionLoss
    /\ gpc[g] = "delete"
    /\ gpc'  = [gpc EXCEPT ![g] = "detached"]
    /\ lock' = [lock EXCEPT ![cand[g].content] = NoLock]
    /\ UNCHANGED <<dbVars, blob, reqVars, cand>>

\* The job queue: time, the sweep of exhausted jobs, the operator's replay.
JobChanges(c, j) ==
    /\ SetJob(c, j)
    /\ UNCHANGED <<row, file, cid, used, blob, reqVars, gcVars>>

GcLeaseRunsOut(c) ==
    /\ gcJob[c].status = "Running" /\ gcJob[c].live
    /\ JobChanges(c, [gcJob[c] EXCEPT !.live = FALSE])

GcBecomesDue(c) ==
    /\ gcJob[c].status = "Retry" /\ ~gcJob[c].due
    /\ JobChanges(c, [gcJob[c] EXCEPT !.due = TRUE])

GcSweepExhausted_WaitingOnly(c) ==
    /\ gcJob[c].status \in WaitingStatus /\ IsExhausted(gcJob[c])
    /\ JobChanges(c, DeadLettered(gcJob[c]))

GcSweepExhausted(c) == IsExhausted(gcJob[c]) /\ JobChanges(c, DeadLettered(gcJob[c]))

GcReplayDeadLetter(c) == CanReplay(gcJob[c]) /\ JobChanges(c, PendingJob)

-----------------------------------------------------------------------------
FileStep(f) ==
    \/ Lookup(f)
    \/ PromoteToFinal(f)
    \/ AcquireReference(f)
    \/ FindContent(f)
    \/ IncrementRefCount(f)
    \/ RequestEnds(f)
    \/ MoveToTrash(f)
    \/ RestoreFile(f)

DeleterStep(d) ==
    \/ \E fs \in SUBSET Files : ReadTrash(d, fs)
    \/ PermanentlyDeleteTrashItems(d)
    \/ DeletionEnds(d)

CollectorStep(g) ==
    \/ \E c \in Contents : GcClaim(g, c)
    \/ GcStart(g)
    \/ GcDeleteBlob(g)
    \/ GcCommit(g)
    \/ \E r \in BOOLEAN : GcFails(g, r)
    \/ LoseConnection(g)

ContentStep(c) ==
    \/ ScanContent(c)
    \/ GcLeaseRunsOut(c)
    \/ GcBecomesDue(c)
    \/ GcSweepExhausted(c)
    \/ GcReplayDeadLetter(c)

GcNext ==
    \/ \E f \in Files : FileStep(f)
    \/ \E d \in Deleters : DeleterStep(d)
    \/ \E c \in Contents : ContentStep(c)
    \/ \E k \in stale : EnqueueBlobGc(k)
    \/ \E g \in JobOwners : CollectorStep(g)

GcSpec == GcInit /\ [][GcNext]_blobVars

-----------------------------------------------------------------------------
(* Safety.                                                                 *)

\* ref_count is the number of files and trash entries of the content, each of
\* them names the row that is there, and storage_used is what they add up to:
\* two permanent deletions of one entry, or one and a restore, count once.
RefsMatchFiles ==
    /\ \A c \in Contents :
          row[c].refs = Cardinality({f \in Files : Live(f) /\ ContentOf[f] = c})
    /\ \A f \in Files : Live(f) => cid[f] = row[ContentOf[f]].id
    /\ \A x \in Users :
          used[x] = SumBytes({f \in Files : Live(f) /\ OwnerOf[f] = x})

\* Contents, files, users' bytes and jobs agree while collectors come and go
\* (IncrementRefCount, DecrementRefCountsAndEnqueueGc, ExecuteBlobGc).
GcConsistent == GcTypeOK /\ RefsMatchFiles

\* A content whose count has reached zero is never used again under its id,
\* through retries, crashes and dead letters: its object may already be gone.
ZeroIsFinal ==
    [][\A c \in Contents : row[c].id # 0 /\ row[c].refs = 0
                            => row'[c].id = 0 \/ row'[c] = row[c]]_blobVars

\* A collector goes on to delete although its connection, and with it its
\* row lock, is gone.
LockLost(c) == \E g \in JobOwners : gpc[g] = "detached" /\ cand[g].content = c

\* The collector never takes the object of a content that is referenced, also
\* not a worker whose lease was taken over long ago, as long as the database
\* keeps the lock of the transaction that deletes (ExecuteBlobGc).
ReferencedBlobKept ==
    [][\A c \in blob : row[c].refs > 0 /\ ~LockLost(c) => c \in blob']_blobVars

\* Stated by the design: metadata never points to a missing object.
ReferencedBlobPresent == \A c \in Contents : row[c].refs > 0 => c \in blob

-----------------------------------------------------------------------------
(* Liveness: the workers keep polling, SQL and storage calls return, time   *)
(* passes, nobody renews the lease of a job no worker is busy with.         *)

GcLeaseAbandoned(c) ==
    /\ \A g \in JobOwners : ~(gpc[g] # "idle" /\ cand[g].content = c /\ OwnsJob(g))
    /\ GcLeaseRunsOut(c)

GcGoesOn(g) ==
    GcStart(g) \/ GcDeleteBlob(g) \/ GcCommit(g) \/ \E r \in BOOLEAN : GcFails(g, r)

GcFairness ==
    /\ \A c \in Contents :
          /\ SF_blobVars(\E g \in JobOwners : GcClaim(g, c))
          /\ WF_blobVars(GcBecomesDue(c))
          /\ WF_blobVars(GcSweepExhausted(c))
          /\ WF_blobVars(GcLeaseAbandoned(c))
    /\ \A g \in JobOwners : WF_blobVars(GcGoesOn(g))

GcLiveSpec == GcSpec /\ GcFairness

\* The row of a content without references goes, or its job is dead-lettered
\* where an operator sees it.
GarbageCollected ==
    \A c \in Contents :
        row[c].id # 0 /\ row[c].refs = 0
        ~> row[c].id = 0 \/ gcJob[c].status = "DeadLetter"

=============================================================================
