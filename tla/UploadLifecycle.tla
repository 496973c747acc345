-------------------------- MODULE UploadLifecycle ---------------------------
(***************************************************************************)
(* Chunked upload, from initialization to a terminal task:                 *)
(* src/src/services/UploadLifecycleService.cpp and UploadService.cpp over  *)
(* PostgreSQL (tasks, chunk rows, quota, content and file rows, the        *)
(* staging_cleanup job), the staging store and the final blob store.       *)
(*                                                                         *)
(* A database transaction is one action, and so is one storage operation;  *)
(* a file operation that takes time is a begin and an end action.  A       *)
(* request is lost at any point (its process exits, or an operation of it  *)
(* fails); what it wrote stays.                                            *)
(***************************************************************************)
EXTENDS Naturals, FiniteSets, SetSums, UploadTaskRepository, QuotaService

CONSTANTS
    Users,
    Uploads,      \* upload ids (getUuid), each with the parameters of its init
    Workers,      \* completion requests in flight
    Contents,     \* distinct file contents, named by (md5, sha256, size)
    Names,        \* (folder, name) pairs
    Payloads,     \* what a client may send as the bytes of one chunk
    Good,         \* the payload that belongs to the declared file hash
    OwnerOf, ContentOf, NameOf,   \* parameters of an upload id
    SizeOf,       \* bytes of a content
    QuotaOf,      \* storage_quota of a user
    InstanceOf,   \* the API instance that runs a completion request
    TotalChunks,  \* chunks per upload
    Backend,      \* "local": LocalFileStorage and LocalBlobStore, or "s3"
    NoUpload,
    MaxClaims,          \* bound: claims of one task
    MaxChunkRequests    \* bound: chunk requests in flight

ASSUME UploadsAssumption  == IsFiniteSet(Uploads)
ASSUME GoodAssumption     == Good \in Payloads
ASSUME OwnerAssumption    == OwnerOf \in [Uploads -> Users]
ASSUME ContentAssumption  == ContentOf \in [Uploads -> Contents]
ASSUME NameAssumption     == NameOf \in [Uploads -> Names]
ASSUME SizeAssumption     == SizeOf \in [Contents -> Nat \ {0}]
ASSUME QuotaAssumption    == QuotaOf \in [Users -> Nat]
ASSUME InstanceAssumption == InstanceOf \in [Workers -> Instances]
ASSUME ChunksAssumption   == TotalChunks \in Nat \ {0}
ASSUME BackendAssumption  == Backend \in {"local", "s3"}
ASSUME NamesDisjoint      == NoUpload \notin Uploads /\ Uploads \cap Workers = {}
ASSUME BoundsAssumption   == MaxClaims \in Nat /\ MaxChunkRequests \in Nat

VARIABLES
    (* PostgreSQL *)
    task,      \* upload_tasks
    chunks,    \* upload_task_chunks: the recorded <<index, payload>> of a task
    quota,     \* storage columns of users
    content,   \* file_contents
    file,      \* files and trash rows: the file an upload created
    gc,        \* status of the blob_gc job of the current content row
    cleanup,   \* the staging_cleanup job of an upload
    (* storage *)
    staging,   \* chunk objects of an upload
    asm,       \* assembled staging object
    blob,      \* final object of a content
    (* requests in flight *)
    inits,     \* init requests between their reads and their transaction
    chunkReqs, \* chunk requests
    cached,    \* uploads in UploadService's task cache
    (* completion requests *)
    pc,        \* the step a request is at
    up,        \* its upload
    ver,       \* its state_version
    seen,      \* the content id its lookup found, or 0
    rows,      \* the chunk rows it loaded
    intact     \* nobody disturbed the file it is writing or reading

dbVars      == <<task, chunks, quota, content, file, gc, cleanup>>
storeVars   == <<staging, asm, blob>>
requestVars == <<inits, chunkReqs, cached>>
workerVars  == <<pc, up, ver, seen, rows, intact>>
vars        == <<dbVars, storeVars, requestVars, workerVars>>

-----------------------------------------------------------------------------
Chunk      == 0 .. (TotalChunks - 1)
ChunkRow   == Chunk \X Payloads
FileState  == {"none", "active", "trash", "purged"}
GcStatus   == {"none", "Pending", "Running", "Retry", "Succeeded", "DeadLetter"}
AsmState   == {"absent", "partial", "full"}
BlobState  == {"absent", "copying", "complete", "damaged"}
InitPlan   == {"instant", "resume", "new"}
WorkerPc   == {"idle", "claimed", "loaded", "assembling", "assembled", "lookup",
               "promote", "copying", "prepared", "ready", "discard", "lost", "failed"}
ContentRow == [id : Nat, refs : Nat, made : Nat]  \* id = 0: no row; made: ids used

InitRequest  == [up : Uploads, plan : InitPlan, seen : Nat,
                 found : Uploads \cup {NoUpload}]
ChunkRequest == [up : Uploads, row : ChunkRow, stage : {"loaded", "written"}]

TypeOK ==
    /\ task      \in [Uploads -> UploadTask]
    /\ chunks    \in [Uploads -> SUBSET ChunkRow]
    /\ quota     \in [Users -> QuotaRow]
    /\ content   \in [Contents -> ContentRow]
    /\ file      \in [Uploads -> FileState]
    /\ gc        \in [Contents -> GcStatus]
    /\ cleanup   \in [Uploads -> {"none", "pending", "done"}]
    /\ staging   \in [Uploads -> SUBSET ChunkRow]
    /\ asm       \in [Uploads \cup Workers -> AsmState]
    /\ blob      \in [Contents -> BlobState]
    /\ inits     \subseteq InitRequest
    /\ chunkReqs \subseteq ChunkRequest
    /\ cached    \subseteq Uploads
    /\ pc        \in [Workers -> WorkerPc]
    /\ up        \in [Workers -> Uploads \cup {NoUpload}]
    /\ ver       \in [Workers -> Nat]
    /\ seen      \in [Workers -> Nat]
    /\ rows      \in [Workers -> SUBSET ChunkRow]
    /\ intact    \in [Workers -> BOOLEAN]
    /\ \A w \in Workers : pc[w] # "idle" => up[w] \in Uploads
    /\ \A r \in inits : r.plan = "resume" => r.found \in Uploads

Init ==
    /\ task      = [u \in Uploads |-> NoTask]
    /\ chunks    = [u \in Uploads |-> {}]
    /\ quota     = [x \in Users |-> [quota |-> QuotaOf[x], used |-> 0, reserved |-> 0]]
    /\ content   = [c \in Contents |-> [id |-> 0, refs |-> 0, made |-> 0]]
    /\ file      = [u \in Uploads |-> "none"]
    /\ gc        = [c \in Contents |-> "none"]
    /\ cleanup   = [u \in Uploads |-> "none"]
    /\ staging   = [u \in Uploads |-> {}]
    /\ asm       = [k \in Uploads \cup Workers |-> "absent"]
    /\ blob      = [c \in Contents |-> "absent"]
    /\ inits     = {}
    /\ chunkReqs = {}
    /\ cached    = {}
    /\ pc        = [w \in Workers |-> "idle"]
    /\ up        = [w \in Workers |-> NoUpload]
    /\ ver       = [w \in Workers |-> 0]
    /\ seen      = [w \in Workers |-> 0]
    /\ rows      = [w \in Workers |-> {}]
    /\ intact    = [w \in Workers |-> FALSE]

-----------------------------------------------------------------------------
(* What the handlers read.                                                 *)

Bytes(u) == SizeOf[ContentOf[u]]

SumBytes(us) == Total([u \in Uploads |-> Bytes(u)], us)

\* A files row of this user already has this folder and name.
IsFilenameExists(u) ==
    \E v \in Uploads : /\ file[v] = "active"
                       /\ OwnerOf[v] = OwnerOf[u]
                       /\ NameOf[v] = NameOf[u]

SameUserAndHash(u, v) == OwnerOf[v] = OwnerOf[u] /\ ContentOf[v] = ContentOf[u]

\* FindActiveByUserAndHash.  The oldest of several would be returned; there
\* is never more than one (OneActivePerHash).
ActiveByUserAndHash(u) ==
    {v \in Uploads : SameUserAndHash(u, v) /\ IsActive(task[v])}

\* COUNT(*) = total_chunks and the largest index is total_chunks - 1.
ChunksComplete(u) == \A i \in Chunk : \E p \in Payloads : <<i, p>> \in chunks[u]

\* CheckReferenceGate: no blob_gc job, or one that succeeded.
ReferenceGateOpen(c) == gc[c] \in {"none", "Succeeded"}

DecideInitFlow(has_content, active) ==
    IF has_content THEN "instant" ELSE IF active # {} THEN "resume" ELSE "new"

EnqueueStagingCleanup_Dropped(u) == UNCHANGED cleanup

\* staging_cleanup has one dedupe key per upload: ON CONFLICT DO NOTHING.
EnqueueStagingCleanup(u) ==
    cleanup' = [cleanup EXCEPT ![u] = IF @ = "none" THEN "pending" ELSE @]

DeleteChunks(u) == chunks' = [chunks EXCEPT ![u] = {}]

-----------------------------------------------------------------------------
(* InitializeUpload: the reads outside any transaction, then one of three  *)
(* transactions chosen by DecideInitFlow.                                  *)

InitRead(u) ==
    LET c      == ContentOf[u]
        active == ActiveByUserAndHash(u)
        plan   == DecideInitFlow(content[c].id # 0, active)
    IN  /\ task[u] = NoTask /\ file[u] = "none"
        /\ \A r \in inits : r.up # u
        /\ ~IsFilenameExists(u)
        /\ \E v \in (IF plan = "resume" THEN active ELSE {NoUpload}) :
              inits' = inits \cup
                {[up |-> u, plan |-> plan, seen |-> content[c].id, found |-> v]}
        /\ UNCHANGED <<dbVars, storeVars, chunkReqs, cached, workerVars>>

\* The instant upload's transaction commits.
InitInstant(r) ==
    LET u == r.up
        c == ContentOf[u]
    IN  /\ r \in inits /\ r.plan = "instant"
        /\ ~IsFilenameExists(u)
        /\ CanConsume(quota[OwnerOf[u]], Bytes(u))
        /\ content[c].id = r.seen /\ ReferenceGateOpen(c)
        /\ quota'   = [quota EXCEPT ![OwnerOf[u]] = ConsumeUsedStorage(@, Bytes(u))]
        /\ content' = [content EXCEPT ![c].refs = @ + 1]
        /\ file'    = [file EXCEPT ![u] = "active"]
        /\ inits'   = inits \ {r}
        /\ UNCHANGED <<task, chunks, gc, cleanup, storeVars, chunkReqs, cached,
                       workerVars>>

\* ExpireInProgressUpload, also run by the expire_uploads job.  One
\* transaction: CAS, release, cleanup job, chunk rows.
ExpireInProgressUpload(u) ==
    /\ CanExpire(task[u])
    /\ HasReserved(quota[OwnerOf[u]], Bytes(u))
    /\ task'  = [task EXCEPT ![u] = MarkExpired(@)]
    /\ quota' = [quota EXCEPT ![OwnerOf[u]] = ReleaseReservedStorage(@, Bytes(u))]
    /\ EnqueueStagingCleanup(u)
    /\ DeleteChunks(u)
    /\ UNCHANGED <<content, file, gc>>

\* The found task is expired first: then the request goes on as a new
\* upload.  Otherwise the found task is returned.
InitResume(r) ==
    /\ r \in inits /\ r.plan = "resume"
    /\ \/ /\ ExpireInProgressUpload(r.found)
          /\ inits' = (inits \ {r}) \cup {[r EXCEPT !.plan = "new"]}
       \/ /\ ~CanExpire(task[r.found])
          /\ inits' = inits \ {r}
          /\ UNCHANGED dbVars
    /\ UNCHANGED <<storeVars, chunkReqs, cached, workerVars>>

\* Under the advisory lock of (user, hash) the active task is looked up
\* again; only without one is storage reserved and the task inserted.
InitNew_NoRecheck(r) ==
    LET u == r.up
        q == quota[OwnerOf[u]]
    IN  /\ r \in inits /\ r.plan = "new"
        /\ CanReserve(q, Bytes(u))
        /\ quota' = [quota EXCEPT ![OwnerOf[u]] = ReserveStorage(@, Bytes(u))]
        /\ task'  = [task EXCEPT ![u] = CreatedTask]
        /\ inits' = inits \ {r}
        /\ UNCHANGED <<chunks, content, file, gc, cleanup, storeVars, chunkReqs,
                       cached, workerVars>>

InitNew(r) ==
    LET u == r.up
        q == quota[OwnerOf[u]]
    IN  /\ r \in inits /\ r.plan = "new"
        /\ ActiveByUserAndHash(u) = {}
        /\ CanReserve(q, Bytes(u))
        /\ quota' = [quota EXCEPT ![OwnerOf[u]] = ReserveStorage(@, Bytes(u))]
        /\ task'  = [task EXCEPT ![u] = CreatedTask]
        /\ inits' = inits \ {r}
        /\ UNCHANGED <<chunks, content, file, gc, cleanup, storeVars, chunkReqs,
                       cached, workerVars>>

\* Every other end of an init request changes nothing: a concurrent task is
\* returned, the quota is exceeded, a name or a content changed, creation is
\* disabled, the transaction fails, the process exits.
InitEnds(r) ==
    /\ r \in inits
    /\ inits' = inits \ {r}
    /\ UNCHANGED <<dbVars, storeVars, chunkReqs, cached, workerVars>>

-----------------------------------------------------------------------------
(* UploadChunk: load (from the cache or an InProgress row), write the      *)
(* object, record the row.                                                 *)

LoadChunkTask(u, row) ==
    /\ Cardinality(chunkReqs) < MaxChunkRequests
    /\ u \in cached \/ task[u].status = "InProgress"
    /\ cached'    = cached \cup {u}
    /\ chunkReqs' = chunkReqs \cup {[up |-> u, row |-> row, stage |-> "loaded"]}
    /\ UNCHANGED <<dbVars, storeVars, inits, workerVars>>

\* Chunk objects are named by index and hash and never overwritten.
WriteChunk(q) ==
    /\ q \in chunkReqs /\ q.stage = "loaded"
    /\ staging'   = [staging EXCEPT ![q.up] = @ \cup {q.row}]
    /\ chunkReqs' = (chunkReqs \ {q}) \cup {[q EXCEPT !.stage = "written"]}
    /\ UNCHANGED <<dbVars, asm, blob, inits, cached, workerVars>>

\* RecordChunkIfInProgress: rejected by the task's state (which also drops
\* the cache entry of this instance), in conflict with a recorded row, or
\* accepted.
RecordChunk(q) ==
    LET u        == q.up
        conflict == \E r \in chunks[u] : r[1] = q.row[1] /\ r # q.row
    IN  /\ q \in chunkReqs /\ q.stage = "written"
        /\ chunkReqs' = chunkReqs \ {q}
        /\ \/ /\ AcceptsChunk(task[u]) /\ ~conflict
              /\ chunks' = [chunks EXCEPT ![u] = @ \cup {q.row}]
              /\ UNCHANGED cached
           \/ /\ AcceptsChunk(task[u]) /\ conflict
              /\ UNCHANGED <<chunks, cached>>
           \/ /\ ~AcceptsChunk(task[u])
              /\ cached' \in {cached, cached \ {u}}
              /\ UNCHANGED chunks
        /\ UNCHANGED <<task, quota, content, file, gc, cleanup, storeVars, inits,
                       workerVars>>

\* A chunk request fails or its process exits.
ChunkRequestEnds(q) ==
    /\ q \in chunkReqs
    /\ chunkReqs' = chunkReqs \ {q}
    /\ UNCHANGED <<dbVars, storeVars, inits, cached, workerVars>>

\* Cache entries are dropped by age and by the handlers of init, complete
\* and cancel on their own instance.
EvictUploadTask(u) ==
    /\ u \in cached
    /\ cached' = cached \ {u}
    /\ UNCHANGED <<dbVars, storeVars, inits, chunkReqs, workerVars>>

-----------------------------------------------------------------------------
(* Cancellation, expiry by the expire_uploads job, operator recovery, the  *)
(* staging_cleanup job and the clock.                                      *)

CancelInProgressUpload(u) ==
    /\ CanCancel(task[u])
    /\ HasReserved(quota[OwnerOf[u]], Bytes(u))
    /\ task'  = [task EXCEPT ![u] = MarkCancelled(@)]
    /\ quota' = [quota EXCEPT ![OwnerOf[u]] = ReleaseReservedStorage(@, Bytes(u))]
    /\ EnqueueStagingCleanup(u)
    /\ DeleteChunks(u)
    /\ UNCHANGED <<content, file, gc, storeVars, requestVars, workerVars>>

ExpireUpload(u) ==
    /\ ExpireInProgressUpload(u)
    /\ UNCHANGED <<storeVars, requestVars, workerVars>>

AdminReleaseLease(u) ==
    /\ task[u].status = "Finalizing" /\ task[u].live
    /\ task' = [task EXCEPT ![u] = ReleaseUploadLease(@)]
    /\ UNCHANGED <<chunks, quota, content, file, gc, cleanup, storeVars,
                   requestVars, workerVars>>

\* A terminal upload's cleanup job is created, or re-armed if it succeeded.
RebuildUploadCleanup(u) ==
    /\ IsTerminalStatus(task[u])
    /\ cleanup[u] \in {"none", "done"}
    /\ cleanup' = [cleanup EXCEPT ![u] = "pending"]
    /\ UNCHANGED <<task, chunks, quota, content, file, gc, storeVars, requestVars,
                   workerVars>>

\* The assembled object a completion request writes.  LocalFileStorage names
\* it by the upload alone, S3ObjectStorage by the upload and the claim.
AsmKey(w) == IF Backend = "local" THEN up[w] ELSE w

\* Requests that have the local assembled file k open, in one of two ways.
Using(k, steps) ==
    {w \in Workers : Backend = "local" /\ pc[w] \in steps /\ AsmKey(w) = k}

\* Objects are removed.  What the writers of a removed file still write is
\* lost; a reader keeps its open file.
AsmWithout(keys) == [k \in DOMAIN asm |-> IF k \in keys THEN "absent" ELSE asm[k]]

IntactWithout(keys) ==
    [w \in Workers |->
        intact[w] /\ \A k \in keys : w \notin Using(k, {"assembling"})]

Remove(keys) == asm' = AsmWithout(keys) /\ intact' = IntactWithout(keys)

\* ExecuteStagingCleanup, CleanupSession, MarkSucceeded.
CleanupSession_BeforeTerminal(u) ==
    /\ task[u].status # "None" /\ cleanup[u] # "done"
    /\ staging' = [staging EXCEPT ![u] = {}]
    /\ Remove({u} \cup {w \in Workers : up[w] = u})
    /\ cleanup' = [cleanup EXCEPT ![u] = "done"]
    /\ UNCHANGED <<task, chunks, quota, content, file, gc, blob, requestVars,
                   pc, up, ver, seen, rows>>

CleanupSession(u) ==
    /\ cleanup[u] = "pending"
    /\ staging' = [staging EXCEPT ![u] = {}]
    /\ Remove({u} \cup {w \in Workers : up[w] = u})
    /\ cleanup' = [cleanup EXCEPT ![u] = "done"]
    /\ UNCHANGED <<task, chunks, quota, content, file, gc, blob, requestVars,
                   pc, up, ver, seen, rows>>

\* lease_expires_at passes.
LeaseRunsOut(u) ==
    /\ task[u].live
    /\ task' = [task EXCEPT ![u].live = FALSE]
    /\ UNCHANGED <<chunks, quota, content, file, gc, cleanup, storeVars,
                   requestVars, workerVars>>

\* expires_at passes.
TaskTimesOut(u) ==
    /\ task[u].status = "InProgress" /\ ~task[u].expired
    /\ task' = [task EXCEPT ![u].expired = TRUE]
    /\ UNCHANGED <<chunks, quota, content, file, gc, cleanup, storeVars,
                   requestVars, workerVars>>

-----------------------------------------------------------------------------
(* CompleteUpload, one request per worker.                                 *)

\* A step that does not end the request.
Goto(w, l) == pc' = [pc EXCEPT ![w] = l] /\ UNCHANGED up

\* The request is over and its local state gone, with the object its S3 claim
\* assembled, whose key no later claim uses.  a and i: asm and intact at the end.
End(w, a, i) ==
    /\ pc'     = [pc EXCEPT ![w] = "idle"]
    /\ up'     = [up EXCEPT ![w] = NoUpload]
    /\ ver'    = [ver EXCEPT ![w] = 0]
    /\ seen'   = [seen EXCEPT ![w] = 0]
    /\ rows'   = [rows EXCEPT ![w] = {}]
    /\ asm'    = [a EXCEPT ![w] = "absent"]
    /\ intact' = [i EXCEPT ![w] = FALSE]

\* The hash of the loaded rows is the declared one.
HashMatches(w) == \A row \in rows[w] : row[2] = Good

Owned(w) == LeaseOwned(task[up[w]], InstanceOf[w], ver[w])

Claim(w, u) ==
    /\ pc[w] = "idle"
    /\ task[u].attempts < MaxClaims
    /\ CanClaim(task[u], ChunksComplete(u))
    /\ task' = [task EXCEPT ![u] = ClaimFinalizeLease(@, InstanceOf[w])]
    /\ pc'   = [pc EXCEPT ![w] = "claimed"]
    /\ up'   = [up EXCEPT ![w] = u]
    /\ ver'  = [ver EXCEPT ![w] = task'[u].version]
    /\ UNCHANGED <<chunks, quota, content, file, gc, cleanup, storeVars,
                   requestVars, seen, rows, intact>>

\* The task, its session and its chunk rows are loaded; AssembleChunks
\* refuses a set of rows that is not complete, and is refused a slot when
\* too many assemblies run.
LoadInputs(w) ==
    /\ pc[w] = "claimed"
    /\ \/ /\ ChunksComplete(up[w])
          /\ rows' = [rows EXCEPT ![w] = chunks[up[w]]]
          /\ Goto(w, "loaded")
       \/ UNCHANGED rows /\ Goto(w, "failed")
    /\ UNCHANGED <<dbVars, storeVars, requestVars, ver, seen, intact>>

\* A local assembly opens its file with truncation, under anyone who is
\* writing or reading it.
AssembleBegin(w) ==
    LET k == AsmKey(w)
    IN  /\ pc[w] = "loaded"
        /\ Goto(w, "assembling")
        /\ asm'    = [asm EXCEPT ![k] = IF Backend = "local" THEN "partial" ELSE @]
        /\ intact' = [x \in Workers |->
              x = w \/ (intact[x] /\ x \notin Using(k, {"assembling", "copying"}))]
        /\ UNCHANGED <<dbVars, staging, blob, requestVars, ver, seen, rows>>

\* The hashes are computed from the chunk objects read, not from the file.
AssembleEnd(w) ==
    LET k == AsmKey(w)
    IN  /\ pc[w] = "assembling"
        /\ \/ /\ rows[w] \subseteq staging[up[w]]
              /\ asm' = [asm EXCEPT ![k] = IF intact[w] THEN "full" ELSE @]
              /\ Goto(w, "assembled")
              /\ UNCHANGED intact
           \/ Remove({k}) /\ Goto(w, "failed")
        /\ UNCHANGED <<dbVars, staging, blob, requestVars, ver, seen, rows>>

\* RenewFinalizeLease.  A renewal whose answer is lost took effect and fails.
RenewLease(w) ==
    /\ Owned(w)
    /\ task' = [task EXCEPT ![up[w]] = RenewFinalizeLease(@)]
    /\ ver'  = [ver EXCEPT ![w] = task'[up[w]].version]

RenewFails(w) ==
    \/ UNCHANGED task
    \/ Owned(w) /\ task' = [task EXCEPT ![up[w]] = RenewFinalizeLease(@)]

\* The lease is renewed, then the assembled size and hash are compared with
\* the declared ones.
RenewAfterAssembly_SkipsVerification(w) ==
    /\ pc[w] = "assembled"
    /\ \/ RenewLease(w) /\ Goto(w, "lookup")
       \/ RenewFails(w) /\ Goto(w, "lost") /\ UNCHANGED ver
    /\ UNCHANGED <<chunks, quota, content, file, gc, cleanup, storeVars,
                   requestVars, seen, rows, intact>>

RenewAfterAssembly(w) ==
    /\ pc[w] = "assembled"
    /\ \/ RenewLease(w) /\ Goto(w, IF HashMatches(w) THEN "lookup" ELSE "discard")
       \/ RenewFails(w) /\ Goto(w, "lost") /\ UNCHANGED ver
    /\ UNCHANGED <<chunks, quota, content, file, gc, cleanup, storeVars,
                   requestVars, seen, rows, intact>>

\* DiscardAssembly, best effort: after a lost lease the request just ends,
\* after a failed check it records the error.
DiscardAssembly(w) ==
    /\ \E keys \in {{}, {AsmKey(w)}} :
          \/ pc[w] = "lost" /\ End(w, AsmWithout(keys), IntactWithout(keys))
          \/ /\ pc[w] = "discard"
             /\ Remove(keys)
             /\ Goto(w, "failed")
             /\ UNCHANGED <<ver, seen, rows>>
    /\ UNCHANGED <<dbVars, staging, blob, requestVars>>

RecordFinalizeErrorBestEffort(w) ==
    /\ pc[w] = "failed"
    /\ \/ UNCHANGED task
       \/ Owned(w) /\ task' = [task EXCEPT ![up[w]] = RecordFinalizeError(@)]
    /\ End(w, asm, intact)
    /\ UNCHANGED <<chunks, quota, content, file, gc, cleanup, staging, blob,
                   requestVars>>

\* Dedup lookup and name check outside the transaction.  A query that fails
\* reads as no content and a free name.
Lookup(w) ==
    /\ pc[w] = "lookup"
    /\ \/ /\ IsFilenameExists(up[w])
          /\ Goto(w, "discard")
          /\ UNCHANGED seen
       \/ \E id \in {0, content[ContentOf[up[w]]].id} :
             /\ seen' = [seen EXCEPT ![w] = id]
             /\ Goto(w, IF id # 0 THEN "prepared" ELSE "promote")
    /\ UNCHANGED <<dbVars, storeVars, requestVars, ver, rows, intact>>

\* PromoteToFinal on an existing final object: the local store hashes it, the
\* S3 store compares its size.
VerifiesExisting(b) == b = "complete" \/ (Backend = "s3" /\ b # "absent")

\* PromoteToFinal finds the final object or starts to create it.  A local
\* assembly that is being rewritten may have the expected size.
PromoteBegin(w) ==
    LET c == ContentOf[up[w]]
        a == asm[AsmKey(w)]
    IN  /\ pc[w] = "promote"
        /\ \/ /\ VerifiesExisting(blob[c])
              /\ Goto(w, "prepared")
              /\ UNCHANGED <<blob, intact>>
           \/ /\ blob[c] = "absent"
              /\ a \in {"full", "partial"}
              /\ Goto(w, "copying")
              /\ intact' = [intact EXCEPT ![w] = (a = "full")]
              /\ blob' = [blob EXCEPT ![c] = IF Backend = "local" THEN "copying" ELSE @]
           \/ /\ Goto(w, "failed")
              /\ UNCHANGED <<blob, intact>>
        /\ UNCHANGED <<dbVars, staging, asm, requestVars, ver, seen, rows>>

\* What a copy holds: the content the hash names if its source was whole and
\* verified, otherwise it may or may not.
Copied(w) ==
    IF intact[w] /\ HashMatches(w) THEN {"complete"} ELSE {"complete", "damaged"}

\* The local copy was created exclusively; an S3 object appears whole or not
\* at all, never replaces one, and needs its source to the end.
PromoteEnd(w) ==
    LET c == ContentOf[up[w]]
    IN  /\ pc[w] = "copying"
        /\ \/ /\ Backend = "local"
              /\ \E b \in Copied(w) : blob' = [blob EXCEPT ![c] = b]
              /\ Goto(w, "prepared")
           \/ /\ Backend = "local"
              /\ blob' = [blob EXCEPT ![c] = "damaged"]
              /\ Goto(w, "failed")
           \/ /\ Backend = "s3" /\ asm[w] = "full"
              /\ \E b \in Copied(w) :
                    blob' = [blob EXCEPT ![c] = IF @ = "absent" THEN b ELSE @]
              /\ Goto(w, "prepared")
           \/ /\ Backend = "s3"
              /\ UNCHANGED blob
              /\ Goto(w, "failed")
        /\ UNCHANGED <<dbVars, staging, asm, requestVars, ver, seen, rows, intact>>

\* A failed renewal ends the request; the assembled object is kept.
RenewBeforeTransaction(w) ==
    /\ pc[w] = "prepared"
    /\ \/ RenewLease(w) /\ Goto(w, "ready") /\ UNCHANGED <<seen, rows, asm, intact>>
       \/ RenewFails(w) /\ End(w, asm, intact)
    /\ UNCHANGED <<chunks, quota, content, file, gc, cleanup, staging, blob,
                   requestVars>>

\* AcquireReference: the row found before must still be there, an existing
\* row must not be condemned by a blob_gc job.
CanAcquireReference(c, expected) ==
    /\ expected # 0 => content[c].id = expected
    /\ content[c].id # 0 => ReferenceGateOpen(c)

AcquireReference(c) ==
    IF content[c].id # 0
    THEN /\ content' = [content EXCEPT ![c].refs = @ + 1]
         /\ UNCHANGED gc
    ELSE /\ content' = [content EXCEPT ![c] = [id |-> @.made + 1, refs |-> 1,
                                               made |-> @.made + 1]]
         /\ gc' = [gc EXCEPT ![c] = "none"]

\* The finalize transaction commits, or something in it fails, all of it is
\* rolled back and the promoted object is kept.
FinalizeTransaction(w) ==
    LET u == up[w]
        c == ContentOf[u]
    IN  /\ pc[w] = "ready"
        /\ \/ /\ Owned(w)
              /\ CanAcquireReference(c, seen[w])
              /\ ~IsFilenameExists(u)
              /\ HasReserved(quota[OwnerOf[u]], Bytes(u))
              /\ AcquireReference(c)
              /\ file'  = [file EXCEPT ![u] = "active"]
              /\ quota' = [quota EXCEPT ![OwnerOf[u]] = CommitReservedToUsed(@, Bytes(u))]
              /\ task'  = [task EXCEPT ![u] = MarkCompleted(RenewFinalizeLease(@))]
              /\ EnqueueStagingCleanup(u)
              /\ DeleteChunks(u)
              /\ End(w, asm, intact)
           \/ Goto(w, "failed") /\ UNCHANGED <<dbVars, asm, ver, seen, rows, intact>>
        /\ UNCHANGED <<staging, blob, requestVars>>

\* The process of a completion request exits.  A local copy in progress is
\* left as far as it got.
Crash(w) ==
    /\ pc[w] # "idle"
    /\ End(w, asm, intact)
    /\ IF pc[w] = "copying" /\ Backend = "local"
       THEN blob' = [blob EXCEPT ![ContentOf[up[w]]] = "damaged"]
       ELSE UNCHANGED blob
    /\ UNCHANGED <<dbVars, staging, requestVars>>

-----------------------------------------------------------------------------
UploadStep(u) ==
    \/ InitRead(u)
    \/ \E row \in ChunkRow : LoadChunkTask(u, row)
    \/ EvictUploadTask(u)
    \/ CancelInProgressUpload(u)
    \/ ExpireUpload(u)
    \/ AdminReleaseLease(u)
    \/ RebuildUploadCleanup(u)
    \/ CleanupSession(u)
    \/ LeaseRunsOut(u)
    \/ TaskTimesOut(u)

InitStep(r)  == InitInstant(r) \/ InitResume(r) \/ InitNew(r) \/ InitEnds(r)

ChunkStep(q) == WriteChunk(q) \/ RecordChunk(q) \/ ChunkRequestEnds(q)

WorkerStep(w) ==
    \/ \E u \in Uploads : Claim(w, u)
    \/ LoadInputs(w)
    \/ AssembleBegin(w)
    \/ AssembleEnd(w)
    \/ RenewAfterAssembly(w)
    \/ DiscardAssembly(w)
    \/ RecordFinalizeErrorBestEffort(w)
    \/ Lookup(w)
    \/ PromoteBegin(w)
    \/ PromoteEnd(w)
    \/ RenewBeforeTransaction(w)
    \/ FinalizeTransaction(w)
    \/ Crash(w)

Next ==
    \/ \E u \in Uploads : UploadStep(u)
    \/ \E r \in inits : InitStep(r)
    \/ \E q \in chunkReqs : ChunkStep(q)
    \/ \E w \in Workers : WorkerStep(w)

Spec == Init /\ [][Next]_vars

-----------------------------------------------------------------------------
(* Safety.                                                                 *)

\* Completion requests that may still write under their lease.
Holding(w, u) == pc[w] # "idle" /\ up[w] = u

\* However leases expire, are taken over, renewed or released by an operator,
\* and even when one instance serves both requests, at most one completion
\* request of an upload carries the state_version its row has: every
\* lease-conditional UPDATE is open to one request only.
OneFreshOwner ==
    \A w, x \in Workers, u \in Uploads :
        /\ Holding(w, u) /\ Holding(x, u)
        /\ ver[w] = task[u].version /\ ver[x] = task[u].version
        => w = x

\* OneFreshOwner with what makes it inductive: no request carries a version
\* its row has not reached, every claimed row exists, and an upload id whose
\* init is still undecided has no row and no second init.
LeaseFencing ==
    /\ OneFreshOwner
    /\ \A w \in Workers, u \in Uploads :
          Holding(w, u) => ver[w] <= task[u].version /\ task[u].status # "None"
    /\ \A r \in inits : task[r.up].status = "None"
    /\ \A r, s \in inits : r.up = s.up => r = s

\* Of every user: the reserved bytes are those of the uploads still active,
\* the used bytes those of the files.  No race of completion, cancellation,
\* expiry and retry releases or converts a reservation twice, or keeps one.
LedgerBalanced ==
    \A x \in Users :
        /\ quota[x].reserved =
             SumBytes({u \in Uploads : OwnerOf[u] = x /\ IsActive(task[u])})
        /\ quota[x].used =
             SumBytes({u \in Uploads : OwnerOf[u] = x /\ file[u] \in {"active", "trash"}})

\* A completed upload has its file, and no other upload task has one; a late
\* failure report of a claim that was taken over leaves no mark on it.
OneFilePerCompletion ==
    \A u \in Uploads : task[u].status # "None" =>
        /\ file[u] # "none" <=> task[u].status = "Completed"
        /\ task[u].status = "Completed" => ~task[u].error

\* What a download needs: a content row names a final object that is whole.
ReferencedBlobIntact ==
    \A c \in Contents : content[c].id # 0 => blob[c] = "complete"

\* An upload that is not terminal has every object its chunk rows name, and
\* one that is finalizing has all its rows: any instance can take it over.
ActiveUploadRecoverable ==
    \A u \in Uploads :
        /\ IsActive(task[u]) => chunks[u] \subseteq staging[u]
        /\ task[u].status = "Finalizing" => {row[1] : row \in chunks[u]} = Chunk

\* A chunk request that was admitted before the upload was cancelled, expired
\* or completed leaves no row behind.
TerminalLeavesNoRows ==
    \A u \in Uploads : IsTerminalStatus(task[u]) => chunks[u] = {}

\* At most one active upload, and so one reservation, per user and file hash.
OneActivePerHash ==
    \A u, v \in Uploads :
        SameUserAndHash(u, v) /\ IsActive(task[u]) /\ IsActive(task[v]) => u = v

\* A terminal task is never written again, whoever still holds a version.
TerminalIsFinal ==
    [][\A u \in Uploads : IsTerminalStatus(task[u]) => task'[u] = task[u]]_vars

\* Stated by the quota design: used and reserved bytes stay within the quota.
QuotaRespected ==
    \A x \in Users : quota[x].used + quota[x].reserved <= quota[x].quota

-----------------------------------------------------------------------------
(* Liveness: time passes, the expire_uploads schedule comes round and the  *)
(* job worker runs pending cleanup jobs.                                   *)

Fairness ==
    \A u \in Uploads : /\ WF_vars(TaskTimesOut(u))
                       /\ WF_vars(ExpireUpload(u))
                       /\ WF_vars(CleanupSession(u))

LiveSpec == Spec /\ Fairness

\* An upload that its client abandons does not stay in progress: it is
\* finalizing or terminal in the end, and its reservation can come back.
AbandonedUploadExpires ==
    \A u \in Uploads :
        task[u].status = "InProgress" ~> task[u].status # "InProgress"

\* The chunk objects of a terminal upload are reclaimed.
StagingReclaimed ==
    \A u \in Uploads : IsTerminalStatus(task[u]) ~> cleanup[u] = "done"

=============================================================================
