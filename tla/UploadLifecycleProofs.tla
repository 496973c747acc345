----------------------- MODULE UploadLifecycleProofs ------------------------
(***************************************************************************)
(* Theorems about UploadLifecycle, for every number of users, uploads,     *)
(* completion requests and chunks and any bounds, and for both storage     *)
(* backends where nothing else is said.                                    *)
(*                                                                         *)
(* The steps are first reduced to what they do to the rows a property is   *)
(* about (LedgerStep for quota, files and references, TaskStep for the     *)
(* rows of upload_tasks); the invariants and the refinement then follow    *)
(* from the few kinds of steps that are left.                              *)
(***************************************************************************)
EXTENDS UploadRefinement, SetSumsProofs, TLAPS

-----------------------------------------------------------------------------
(* The conditional UPDATEs keep the shape of the rows they write.          *)

\* Every UPDATE of upload_tasks yields a task row.
LEMMA TaskRows ==
    ASSUME NEW t \in UploadTask
    PROVE  /\ CreatedTask \in UploadTask
           /\ \A o \in Instances : ClaimFinalizeLease(t, o) \in UploadTask
           /\ RenewFinalizeLease(t) \in UploadTask
           /\ MarkCompleted(t) \in UploadTask
           /\ RecordFinalizeError(t) \in UploadTask
           /\ ReleaseUploadLease(t) \in UploadTask
           /\ MarkCancelled(t) \in UploadTask
           /\ MarkExpired(t) \in UploadTask
           /\ [t EXCEPT !.live = FALSE] \in UploadTask
           /\ [t EXCEPT !.expired = TRUE] \in UploadTask
<1> USE DEF UploadTask, TaskStatus, ActiveStatus, TerminalStatus
<1>0. t.version + 1 \in Nat /\ t.attempts + 1 \in Nat
  OBVIOUS
<1>1. CreatedTask \in UploadTask
  BY DEF NoTask, CreatedTask
<1>2. \A o \in Instances : ClaimFinalizeLease(t, o) \in UploadTask
  BY <1>0 DEF ClaimFinalizeLease
<1>3. RenewFinalizeLease(t) \in UploadTask
  BY <1>0 DEF RenewFinalizeLease
<1>4. MarkCompleted(t) \in UploadTask
  BY <1>0 DEF MarkCompleted
<1>5. RecordFinalizeError(t) \in UploadTask
  BY DEF RecordFinalizeError
<1>6. ReleaseUploadLease(t) \in UploadTask
  BY <1>0 DEF ReleaseUploadLease
<1>7. MarkCancelled(t) \in UploadTask
  BY <1>0 DEF MarkCancelled
<1>8. MarkExpired(t) \in UploadTask
  BY <1>0 DEF MarkExpired
<1>9. [t EXCEPT !.live = FALSE] \in UploadTask /\ [t EXCEPT !.expired = TRUE] \in UploadTask
  OBVIOUS
<1> QED
  BY <1>1, <1>2, <1>3, <1>4, <1>5, <1>6, <1>7, <1>8, <1>9

\* Every UPDATE of the storage columns of users keeps them natural numbers:
\* the two that subtract do so under their WHERE clause.
LEMMA QuotaRows ==
    ASSUME NEW q \in QuotaRow, NEW b \in Nat
    PROVE  /\ ReserveStorage(q, b) \in QuotaRow
           /\ ConsumeUsedStorage(q, b) \in QuotaRow
           /\ HasReserved(q, b) => ReleaseReservedStorage(q, b) \in QuotaRow
           /\ HasReserved(q, b) => CommitReservedToUsed(q, b) \in QuotaRow
<1> USE DEF QuotaRow
<1>1. q.reserved + b \in Nat /\ q.used + b \in Nat
  OBVIOUS
<1>2. HasReserved(q, b) => q.reserved - b \in Nat
  BY DEF HasReserved
<1>3. ReserveStorage(q, b) \in QuotaRow /\ ConsumeUsedStorage(q, b) \in QuotaRow
  BY <1>1 DEF ReserveStorage, ConsumeUsedStorage
<1>4. HasReserved(q, b) => ReleaseReservedStorage(q, b) \in QuotaRow
  BY <1>2 DEF ReleaseReservedStorage
<1>5. HasReserved(q, b) => CommitReservedToUsed(q, b) \in QuotaRow
  BY <1>1, <1>2 DEF CommitReservedToUsed
<1> QED
  BY <1>3, <1>4, <1>5

\* Sizes are natural numbers.
LEMMA BytesNat ==
    ASSUME NEW u \in Uploads
    PROVE  Bytes(u) \in Nat /\ OwnerOf[u] \in Users /\ ContentOf[u] \in Contents
BY OwnerAssumption, ContentAssumption, SizeAssumption DEF Bytes

-----------------------------------------------------------------------------
(* Type correctness.                                                       *)

\* The initial state has the declared shape.
LEMMA InitTypeOK == Init => TypeOK
<1> SUFFICES ASSUME Init PROVE TypeOK
  OBVIOUS
<1>1. NoTask \in UploadTask
  BY DEF NoTask, UploadTask, TaskStatus, ActiveStatus, TerminalStatus
<1>2. \A x \in Users : [quota |-> QuotaOf[x], used |-> 0, reserved |-> 0] \in QuotaRow
  BY QuotaAssumption DEF QuotaRow
<1>3. [id |-> 0, refs |-> 0, made |-> 0] \in ContentRow
  BY DEF ContentRow
<1> QED
  BY <1>1, <1>2, <1>3
  DEF Init, TypeOK, FileState, GcStatus, AsmState, BlobState, WorkerPc

\* The reads of InitializeUpload keep an init request that names what it found.
LEMMA InitReadType ==
    ASSUME TypeOK, NEW u \in Uploads, InitRead(u)
    PROVE  TypeOK'
BY TaskRows, QuotaRows, BytesNat DEF TypeOK, InitRead, InitRequest, InitPlan, DecideInitFlow, ActiveByUserAndHash, ContentRow, dbVars, storeVars, requestVars, workerVars

\* A chunk request is admitted and its task cached: no row changes.
LEMMA LoadChunkTaskType ==
    ASSUME TypeOK, NEW u \in Uploads, NEW row \in ChunkRow, LoadChunkTask(u, row)
    PROVE  TypeOK'
BY DEF TypeOK, LoadChunkTask, ChunkRequest, dbVars, storeVars, requestVars, workerVars

\* Dropping a cache entry keeps the shape.
LEMMA EvictType ==
    ASSUME TypeOK, NEW u \in Uploads, EvictUploadTask(u)
    PROVE  TypeOK'
BY DEF TypeOK, EvictUploadTask, dbVars, storeVars, requestVars, workerVars

\* Cancellation writes a task row and releases bytes that are reserved.
LEMMA CancelType ==
    ASSUME TypeOK, NEW u \in Uploads, CancelInProgressUpload(u)
    PROVE  TypeOK'
BY TaskRows, QuotaRows, BytesNat DEF TypeOK, CancelInProgressUpload, EnqueueStagingCleanup, DeleteChunks, dbVars, storeVars, requestVars, workerVars

\* The expire_uploads job writes a task row and releases bytes that are reserved.
LEMMA ExpireType ==
    ASSUME TypeOK, NEW u \in Uploads, ExpireUpload(u)
    PROVE  TypeOK'
BY TaskRows, QuotaRows, BytesNat DEF TypeOK, ExpireUpload, ExpireInProgressUpload, EnqueueStagingCleanup, DeleteChunks, dbVars, storeVars, requestVars, workerVars

\* An operator who ends a lease leaves a task row.
LEMMA AdminReleaseType ==
    ASSUME TypeOK, NEW u \in Uploads, AdminReleaseLease(u)
    PROVE  TypeOK'
BY TaskRows DEF TypeOK, AdminReleaseLease, dbVars, storeVars, requestVars, workerVars

\* An operator who rebuilds a cleanup job keeps the shape.
LEMMA RebuildType ==
    ASSUME TypeOK, NEW u \in Uploads, RebuildUploadCleanup(u)
    PROVE  TypeOK'
BY DEF TypeOK, RebuildUploadCleanup, dbVars, storeVars, requestVars, workerVars

\* The staging_cleanup job empties the session and removes assembled objects.
LEMMA CleanupType ==
    ASSUME TypeOK, NEW u \in Uploads, CleanupSession(u)
    PROVE  TypeOK'
BY DEF TypeOK, CleanupSession, Remove, AsmWithout, IntactWithout, AsmState, dbVars, storeVars, requestVars, workerVars

\* A lease that runs out is still the lease of a task row.
LEMMA LeaseRunsOutType ==
    ASSUME TypeOK, NEW u \in Uploads, LeaseRunsOut(u)
    PROVE  TypeOK'
BY TaskRows DEF TypeOK, LeaseRunsOut, dbVars, storeVars, requestVars, workerVars

\* A task that times out is still a task row.
LEMMA TaskTimesOutType ==
    ASSUME TypeOK, NEW u \in Uploads, TaskTimesOut(u)
    PROVE  TypeOK'
BY TaskRows DEF TypeOK, TaskTimesOut, dbVars, storeVars, requestVars, workerVars

\* The transaction of an instant upload charges bytes and counts a reference.
LEMMA InitInstantType ==
    ASSUME TypeOK, NEW r \in inits, InitInstant(r)
    PROVE  TypeOK'
<1> DEFINE u == r.up
          c == ContentOf[u]
<1>1. u \in Uploads
  BY DEF TypeOK, InitRequest
<1>2. c \in Contents /\ OwnerOf[u] \in Users /\ Bytes(u) \in Nat
  BY <1>1, BytesNat
<1>3. quota' \in [Users -> QuotaRow]
  BY <1>2, QuotaRows DEF TypeOK, InitInstant
<1>4. content[c].refs + 1 \in Nat
  BY <1>2 DEF TypeOK, ContentRow
<1>5. content' \in [Contents -> ContentRow]
  BY <1>2, <1>4 DEF TypeOK, InitInstant, ContentRow
<1> QED
  BY <1>1, <1>3, <1>5 DEF TypeOK, InitInstant, FileState, dbVars, storeVars, requestVars, workerVars

\* Resuming returns the found task or expires it, and then reserves anew.
LEMMA InitResumeType ==
    ASSUME TypeOK, NEW r \in inits, InitResume(r)
    PROVE  TypeOK'
<1>1. CASE UNCHANGED dbVars /\ inits' = inits \ {r}
  BY <1>1 DEF TypeOK, InitResume, dbVars, storeVars, requestVars, workerVars
<1>2. CASE ExpireInProgressUpload(r.found) /\ inits' = (inits \ {r}) \cup {[r EXCEPT !.plan = "new"]}
  <2>1. [r EXCEPT !.plan = "new"] \in InitRequest
    BY DEF TypeOK, InitRequest, InitPlan
  <2>2. r.found \in Uploads
    BY DEF TypeOK, InitResume
  <2> QED
    BY <1>2, <2>1, <2>2, TaskRows, QuotaRows, BytesNat
    DEF TypeOK, InitResume, InitRequest, ExpireInProgressUpload,
        EnqueueStagingCleanup, DeleteChunks, dbVars, storeVars, requestVars, workerVars
<1> QED
  BY <1>1, <1>2 DEF InitResume

\* The transaction of a new upload reserves bytes and inserts a task row.
LEMMA InitNewType ==
    ASSUME TypeOK, NEW r \in inits, InitNew(r)
    PROVE  TypeOK'
BY TaskRows, QuotaRows, BytesNat DEF TypeOK, InitNew, InitRequest, dbVars, storeVars, requestVars, workerVars

\* An init request that fails changes no row.
LEMMA InitEndsType ==
    ASSUME TypeOK, NEW r \in inits, InitEnds(r)
    PROVE  TypeOK'
BY DEF TypeOK, InitEnds, dbVars, storeVars, requestVars, workerVars

\* A written chunk object is one the upload may have.
LEMMA WriteChunkType ==
    ASSUME TypeOK, NEW q \in chunkReqs, WriteChunk(q)
    PROVE  TypeOK'
BY DEF TypeOK, WriteChunk, ChunkRequest, dbVars, storeVars, requestVars, workerVars

\* RecordChunkIfInProgress adds a chunk row or refuses it.
LEMMA RecordChunkType ==
    ASSUME TypeOK, NEW q \in chunkReqs, RecordChunk(q)
    PROVE  TypeOK'
BY DEF TypeOK, RecordChunk, ChunkRequest, dbVars, storeVars, requestVars, workerVars

\* A chunk request that fails changes no row.
LEMMA ChunkRequestEndsType ==
    ASSUME TypeOK, NEW q \in chunkReqs, ChunkRequestEnds(q)
    PROVE  TypeOK'
BY DEF TypeOK, ChunkRequestEnds, dbVars, storeVars, requestVars, workerVars

\* The end of a completion request resets its local state.
LEMMA EndTypes ==
    ASSUME TypeOK, NEW w \in Workers,
           NEW a \in [Uploads \cup Workers -> AsmState],
           NEW i \in [Workers -> BOOLEAN], End(w, a, i)
    PROVE  /\ pc'     \in [Workers -> WorkerPc]
           /\ up'     \in [Workers -> Uploads \cup {NoUpload}]
           /\ ver'    \in [Workers -> Nat]
           /\ seen'   \in [Workers -> Nat]
           /\ rows'   \in [Workers -> SUBSET ChunkRow]
           /\ asm'    \in [Uploads \cup Workers -> AsmState]
           /\ intact' \in [Workers -> BOOLEAN]
           /\ \A x \in Workers : pc'[x] # "idle" => up'[x] \in Uploads
BY DEF TypeOK, End, WorkerPc, AsmState

\* Removing assembled objects, and what it does to their writers.
LEMMA RemoveTypes ==
    ASSUME TypeOK, NEW keys
    PROVE  /\ AsmWithout(keys) \in [Uploads \cup Workers -> AsmState]
           /\ IntactWithout(keys) \in [Workers -> BOOLEAN]
<1>1. AsmWithout(keys) \in [Uploads \cup Workers -> AsmState]
  BY DEF TypeOK, AsmWithout, AsmState
<1>2. IntactWithout(keys) \in [Workers -> BOOLEAN]
  BY Zenon DEF TypeOK, IntactWithout
<1> QED
  BY <1>1, <1>2

\* A renewal, successful or not, leaves a task row and a version.
LEMMA RenewTypes ==
    ASSUME TypeOK, NEW w \in Workers, pc[w] # "idle"
    PROVE  /\ RenewLease(w) => task' \in [Uploads -> UploadTask] /\ ver' \in [Workers -> Nat]
           /\ RenewFails(w) => task' \in [Uploads -> UploadTask]
<1>1. up[w] \in Uploads /\ task[up[w]] \in UploadTask
  BY DEF TypeOK
<1>2. RenewFinalizeLease(task[up[w]]) \in UploadTask
  BY <1>1, TaskRows
<1>3. RenewLease(w) => task'[up[w]].version \in Nat
  BY <1>1, <1>2 DEF TypeOK, RenewLease, UploadTask
<1> QED
  BY <1>1, <1>2, <1>3 DEF TypeOK, RenewLease, RenewFails

\* A claim of the finalize lease gives the request the version of the row.
LEMMA ClaimType ==
    ASSUME TypeOK, NEW w \in Workers, NEW u \in Uploads, Claim(w, u)
    PROVE  TypeOK'
<1>1. ClaimFinalizeLease(task[u], InstanceOf[w]) \in UploadTask
  BY TaskRows, InstanceAssumption DEF TypeOK
<1>2. task' \in [Uploads -> UploadTask] /\ task'[u].version \in Nat
  BY <1>1 DEF TypeOK, Claim, UploadTask
<1> QED
  BY <1>2 DEF TypeOK, Claim, WorkerPc, dbVars, storeVars, requestVars, workerVars

\* A completion request loads chunk rows of its upload.
LEMMA LoadInputsType ==
    ASSUME TypeOK, NEW w \in Workers, LoadInputs(w)
    PROVE  TypeOK'
BY DEF TypeOK, LoadInputs, Goto, WorkerPc, dbVars, storeVars, requestVars, workerVars

\* Opening the assembly file disturbs those who use it and no row.
LEMMA AssembleBeginType ==
    ASSUME TypeOK, NEW w \in Workers, AssembleBegin(w)
    PROVE  TypeOK'
BY DEF TypeOK, AssembleBegin, Goto, WorkerPc, AsmKey, AsmState, dbVars, storeVars, requestVars, workerVars

\* The end of an assembly leaves an assembled object or none.
LEMMA AssembleEndType ==
    ASSUME TypeOK, NEW w \in Workers, AssembleEnd(w)
    PROVE  TypeOK'
<1>1. CASE Remove({AsmKey(w)}) /\ Goto(w, "failed")
  BY <1>1, RemoveTypes DEF TypeOK, AssembleEnd, Remove, Goto, WorkerPc, dbVars, storeVars, requestVars, workerVars
<1>2. CASE /\ asm' = [asm EXCEPT ![AsmKey(w)] = IF intact[w] THEN "full" ELSE @]
          /\ Goto(w, "assembled") /\ UNCHANGED intact
  BY <1>2 DEF TypeOK, AssembleEnd, Goto, WorkerPc, AsmKey, AsmState, dbVars, storeVars, requestVars, workerVars
<1> QED
  BY <1>1, <1>2 DEF AssembleEnd

\* The renewal after the assembly leaves a task row and a version.
LEMMA RenewAfterAssemblyType ==
    ASSUME TypeOK, NEW w \in Workers, RenewAfterAssembly(w)
    PROVE  TypeOK'
<1>1. pc[w] # "idle"
  BY DEF RenewAfterAssembly
<1>2. task' \in [Uploads -> UploadTask] /\ ver' \in [Workers -> Nat]
  BY <1>1, RenewTypes DEF TypeOK, RenewAfterAssembly
<1> QED
  BY <1>1, <1>2 DEF TypeOK, RenewAfterAssembly, Goto, WorkerPc, dbVars, storeVars, requestVars, workerVars

\* Discarding the assembly ends the request or goes on to record the error.
LEMMA DiscardAssemblyType ==
    ASSUME TypeOK, NEW w \in Workers, DiscardAssembly(w)
    PROVE  TypeOK'
<1>1. PICK keys \in {{}, {AsmKey(w)}} :
          \/ pc[w] = "lost" /\ End(w, AsmWithout(keys), IntactWithout(keys))
          \/ /\ pc[w] = "discard"
             /\ Remove(keys)
             /\ Goto(w, "failed")
             /\ UNCHANGED <<ver, seen, rows>>
  BY DEF DiscardAssembly
<1>2. CASE End(w, AsmWithout(keys), IntactWithout(keys))
  <2> DEFINE a == AsmWithout(keys)
             i == IntactWithout(keys)
  <2>1. a \in [Uploads \cup Workers -> AsmState] /\ i \in [Workers -> BOOLEAN]
    BY RemoveTypes
  <2> HIDE DEF a, i
  <2>2. End(w, a, i)
    BY <1>2 DEF a, i
  <2> QED
    BY <2>1, <2>2, EndTypes DEF TypeOK, DiscardAssembly, dbVars, storeVars, requestVars, workerVars
<1>3. CASE pc[w] = "discard" /\ Remove(keys) /\ Goto(w, "failed") /\ UNCHANGED <<ver, seen, rows>>
  BY <1>3, RemoveTypes DEF TypeOK, DiscardAssembly, Remove, Goto, WorkerPc, dbVars, storeVars, requestVars, workerVars
<1> QED
  BY <1>1, <1>2, <1>3

\* Recording a finalize error leaves a task row and ends the request.
LEMMA RecordFinalizeErrorBestEffortType ==
    ASSUME TypeOK, NEW w \in Workers, RecordFinalizeErrorBestEffort(w)
    PROVE  TypeOK'
<1>1. up[w] \in Uploads /\ task[up[w]] \in UploadTask
  BY DEF TypeOK, RecordFinalizeErrorBestEffort
<1>2. RecordFinalizeError(task[up[w]]) \in UploadTask
  BY <1>1, TaskRows
<1>3. task' \in [Uploads -> UploadTask]
  BY <1>1, <1>2 DEF TypeOK, RecordFinalizeErrorBestEffort
<1>4. End(w, asm, intact)
  BY DEF RecordFinalizeErrorBestEffort
<1> QED
  BY <1>3, <1>4, EndTypes DEF TypeOK, RecordFinalizeErrorBestEffort, dbVars, storeVars, requestVars, workerVars

\* The dedup lookup remembers a content id or none.
LEMMA LookupType ==
    ASSUME TypeOK, NEW w \in Workers, Lookup(w)
    PROVE  TypeOK'
<1>1. up[w] \in Uploads
  BY DEF TypeOK, Lookup
<1>2. content[ContentOf[up[w]]].id \in Nat
  BY <1>1, BytesNat DEF TypeOK, ContentRow
<1>3. seen' \in [Workers -> Nat]
  BY <1>2 DEF TypeOK, Lookup
<1> QED
  BY <1>1, <1>3 DEF TypeOK, Lookup, Goto, WorkerPc, dbVars, storeVars, requestVars, workerVars

\* Finding the final object, or starting to copy it, keeps the shape.
LEMMA PromoteBeginType ==
    ASSUME TypeOK, NEW w \in Workers, PromoteBegin(w)
    PROVE  TypeOK'
BY BytesNat DEF TypeOK, PromoteBegin, Goto, WorkerPc, BlobState, dbVars, storeVars, requestVars, workerVars

\* The end of a promotion leaves a final object in one of its states.
LEMMA PromoteEndType ==
    ASSUME TypeOK, NEW w \in Workers, PromoteEnd(w)
    PROVE  TypeOK'
BY BytesNat DEF TypeOK, PromoteEnd, Goto, WorkerPc, BlobState, Copied, dbVars, storeVars, requestVars, workerVars

\* The renewal before the transaction leaves a task row and a version.
LEMMA RenewBeforeTransactionType ==
    ASSUME TypeOK, NEW w \in Workers, RenewBeforeTransaction(w)
    PROVE  TypeOK'
<1>1. pc[w] # "idle"
  BY DEF RenewBeforeTransaction
<1>2. CASE RenewLease(w) /\ Goto(w, "ready") /\ UNCHANGED <<seen, rows, asm, intact>>
  BY <1>1, <1>2, RenewTypes DEF TypeOK, RenewBeforeTransaction, Goto, WorkerPc, dbVars, storeVars, requestVars, workerVars
<1>3. CASE RenewFails(w) /\ End(w, asm, intact)
  BY <1>1, <1>3, RenewTypes, EndTypes DEF TypeOK, RenewBeforeTransaction, dbVars, storeVars, requestVars, workerVars
<1> QED
  BY <1>2, <1>3 DEF RenewBeforeTransaction

\* The finalize transaction converts a reservation that is there, counts a
\* reference and completes the task, or changes nothing.
LEMMA FinalizeTransactionType ==
    ASSUME TypeOK, NEW w \in Workers, FinalizeTransaction(w)
    PROVE  TypeOK'
<1> DEFINE u == up[w]
          c == ContentOf[u]
<1>1. u \in Uploads /\ c \in Contents /\ OwnerOf[u] \in Users /\ Bytes(u) \in Nat
  BY BytesNat DEF TypeOK, FinalizeTransaction
<1>2. CASE /\ Goto(w, "failed")
          /\ UNCHANGED <<dbVars, asm, ver, seen, rows, intact>>
  BY <1>1, <1>2 DEF TypeOK, FinalizeTransaction, Goto, WorkerPc, dbVars, storeVars, requestVars, workerVars
<1>3. CASE /\ HasReserved(quota[OwnerOf[u]], Bytes(u))
          /\ AcquireReference(c)
          /\ file'  = [file EXCEPT ![u] = "active"]
          /\ quota' = [quota EXCEPT ![OwnerOf[u]] = CommitReservedToUsed(@, Bytes(u))]
          /\ task'  = [task EXCEPT ![u] = MarkCompleted(RenewFinalizeLease(@))]
          /\ EnqueueStagingCleanup(u)
          /\ DeleteChunks(u)
          /\ End(w, asm, intact)
  <2>1. MarkCompleted(RenewFinalizeLease(task[u])) \in UploadTask
    BY <1>1, TaskRows DEF TypeOK
  <2>2. task' \in [Uploads -> UploadTask]
    BY <1>1, <1>3, <2>1 DEF TypeOK
  <2>3. quota' \in [Users -> QuotaRow]
    BY <1>1, <1>3, QuotaRows DEF TypeOK
  <2>4. content[c] \in ContentRow /\ content[c].refs + 1 \in Nat /\ content[c].made + 1 \in Nat
    BY <1>1 DEF TypeOK, ContentRow
  <2>5. content' \in [Contents -> ContentRow] /\ gc' \in [Contents -> GcStatus]
    <3>1. CASE content[c].id # 0
      BY <1>1, <1>3, <2>4, <3>1 DEF TypeOK, AcquireReference, ContentRow
    <3>2. CASE content[c].id = 0
      <4>1. [id |-> content[c].made + 1, refs |-> 1, made |-> content[c].made + 1] \in ContentRow
        BY <2>4 DEF ContentRow
      <4> QED
        BY <1>1, <1>3, <3>2, <4>1 DEF TypeOK, AcquireReference, GcStatus
    <3> QED
      BY <3>1, <3>2
  <2>6. /\ file' \in [Uploads -> FileState]
        /\ cleanup' \in [Uploads -> {"none", "pending", "done"}]
        /\ chunks' \in [Uploads -> SUBSET ChunkRow]
    BY <1>1, <1>3 DEF TypeOK, FileState, EnqueueStagingCleanup, DeleteChunks
  <2> QED
    BY <1>3, <2>2, <2>3, <2>5, <2>6, EndTypes DEF TypeOK, FinalizeTransaction, dbVars, storeVars, requestVars, workerVars
<1> QED
  BY <1>2, <1>3 DEF FinalizeTransaction

\* A process that exits leaves rows and objects in a declared state.
LEMMA CrashType ==
    ASSUME TypeOK, NEW w \in Workers, Crash(w)
    PROVE  TypeOK'
BY BytesNat DEF TypeOK, Crash, End, WorkerPc, AsmState, BlobState, dbVars, storeVars, requestVars, workerVars

\* No step of any request, job or operator breaks the shape of a row: in
\* particular no conditional UPDATE takes a reservation below zero.
THEOREM TypeCorrect == Spec => []TypeOK
<1>1. Init => TypeOK
  BY InitTypeOK
<1>2. TypeOK /\ [Next]_vars => TypeOK'
  <2> SUFFICES ASSUME TypeOK, [Next]_vars PROVE TypeOK'
    OBVIOUS
  <2>1. CASE UNCHANGED vars
    BY <2>1 DEF TypeOK, vars, dbVars, storeVars, requestVars, workerVars
  <2>2. ASSUME NEW u \in Uploads, UploadStep(u) PROVE TypeOK'
    BY <2>2, InitReadType, LoadChunkTaskType, EvictType, CancelType, ExpireType,
       AdminReleaseType, RebuildType, CleanupType, LeaseRunsOutType, TaskTimesOutType
    DEF UploadStep
  <2>3. ASSUME NEW r \in inits, InitStep(r) PROVE TypeOK'
    BY <2>3, InitInstantType, InitResumeType, InitNewType, InitEndsType DEF InitStep
  <2>4. ASSUME NEW q \in chunkReqs, ChunkStep(q) PROVE TypeOK'
    BY <2>4, WriteChunkType, RecordChunkType, ChunkRequestEndsType DEF ChunkStep
  <2>5. ASSUME NEW w \in Workers, WorkerStep(w) PROVE TypeOK'
    BY <2>5, ClaimType, LoadInputsType, AssembleBeginType, AssembleEndType,
       RenewAfterAssemblyType, DiscardAssemblyType, RecordFinalizeErrorBestEffortType,
       LookupType, PromoteBeginType, PromoteEndType, RenewBeforeTransactionType,
       FinalizeTransactionType, CrashType
    DEF WorkerStep
  <2> QED
    BY <2>1, <2>2, <2>3, <2>4, <2>5 DEF Next
<1> QED
  BY <1>1, <1>2, PTL DEF Spec

-----------------------------------------------------------------------------
(* Lease fencing.                                                          *)

\* What each UPDATE of upload_tasks does to state_version and status.
LEMMA TaskVersions ==
    ASSUME NEW t \in UploadTask
    PROVE  /\ \A o \in Instances : /\ ClaimFinalizeLease(t, o).version = t.version + 1
                                  /\ ClaimFinalizeLease(t, o).status = "Finalizing"
           /\ RenewFinalizeLease(t).version = t.version + 1
           /\ RenewFinalizeLease(t).status = t.status
           /\ MarkCompleted(t).version = t.version + 1 /\ MarkCompleted(t).status = "Completed"
           /\ RecordFinalizeError(t).version = t.version
           /\ RecordFinalizeError(t).status = t.status
           /\ ReleaseUploadLease(t).version = t.version + 1
           /\ ReleaseUploadLease(t).status = t.status
           /\ MarkCancelled(t).version = t.version + 1 /\ MarkCancelled(t).status = "Cancelled"
           /\ MarkExpired(t).version = t.version + 1 /\ MarkExpired(t).status = "Expired"
           /\ [t EXCEPT !.live = FALSE].version = t.version
           /\ [t EXCEPT !.live = FALSE].status = t.status
           /\ [t EXCEPT !.expired = TRUE].version = t.version
           /\ [t EXCEPT !.expired = TRUE].status = t.status
BY DEF UploadTask, ClaimFinalizeLease, RenewFinalizeLease, MarkCompleted,
       RecordFinalizeError, ReleaseUploadLease, MarkCancelled, MarkExpired

\* A step may advance rows and end requests.  If it gives no request a new
\* version, every request that is fresh after it was fresh before it.
LEMMA FencingKept ==
    ASSUME TypeOK, TypeOK', LeaseFencing,
           \A u \in Uploads : /\ task[u].version <= task'[u].version
                              /\ task[u].status # "None" => task'[u].status # "None",
           \A w \in Workers, u \in Uploads :
               Holding(w, u)' => Holding(w, u) /\ ver'[w] = ver[w],
           \A r \in inits' : task'[r.up].status = "None",
           \A r, s \in inits' : r.up = s.up => r = s
    PROVE  LeaseFencing'
<1>1. \A u \in Uploads : task[u].version \in Nat /\ task'[u].version \in Nat
  BY DEF TypeOK, UploadTask
<1>2. \A w \in Workers : ver[w] \in Nat
  BY DEF TypeOK
<1>3. ASSUME NEW w \in Workers, NEW u \in Uploads, Holding(w, u)'
      PROVE  ver'[w] <= task'[u].version /\ task'[u].status # "None"
  BY <1>1, <1>2, <1>3 DEF LeaseFencing
<1>4. ASSUME NEW w \in Workers, NEW x \in Workers, NEW u \in Uploads,
             Holding(w, u)', Holding(x, u)',
             ver'[w] = task'[u].version, ver'[x] = task'[u].version
      PROVE  w = x
  <2>1. Holding(w, u) /\ Holding(x, u) /\ ver[w] <= task[u].version /\ ver[x] <= task[u].version
    BY <1>4 DEF LeaseFencing
  <2>2. ver[w] = task[u].version /\ ver[x] = task[u].version
    BY <1>1, <1>2, <1>4, <2>1
  <2> QED
    BY <2>1, <2>2 DEF LeaseFencing, OneFreshOwner
<1> QED
  BY <1>3, <1>4 DEF LeaseFencing, OneFreshOwner

\* The frequent case: the step updates one existing row, whoever holds it.
LEMMA FencingRowUpdate ==
    ASSUME TypeOK, TypeOK', LeaseFencing,
           NEW u \in Uploads, task[u].status # "None",
           NEW t \in UploadTask, task[u].version <= t.version, t.status # "None",
           task' = [task EXCEPT ![u] = t],
           \A w \in Workers, v \in Uploads :
               Holding(w, v)' => Holding(w, v) /\ ver'[w] = ver[w],
           inits' \subseteq inits
    PROVE  LeaseFencing'
<1>1. \A v \in Uploads : task[v].version \in Nat
  BY DEF TypeOK, UploadTask
<1>2. \A v \in Uploads : /\ task[v].version <= task'[v].version
                         /\ task[v].status # "None" => task'[v].status # "None"
  BY <1>1 DEF TypeOK
<1>3. \A r \in inits' : task'[r.up].status = "None"
  BY DEF LeaseFencing, TypeOK, InitRequest
<1>4. \A r, s \in inits' : r.up = s.up => r = s
  BY DEF LeaseFencing
<1> QED
  BY <1>2, <1>3, <1>4, FencingKept

\* A step that touches neither rows nor versions.
LEMMA FencingUntouched ==
    ASSUME TypeOK, TypeOK', LeaseFencing, UNCHANGED task,
           \A w \in Workers, v \in Uploads :
               Holding(w, v)' => Holding(w, v) /\ ver'[w] = ver[w],
           inits' \subseteq inits
    PROVE  LeaseFencing'
<1>1. \A v \in Uploads : task[v].version \in Nat /\ task[v].version <= task[v].version
  BY DEF TypeOK, UploadTask
<1>2. \A r \in inits' : task'[r.up].status = "None"
  BY DEF LeaseFencing
<1>3. \A r, s \in inits' : r.up = s.up => r = s
  BY DEF LeaseFencing
<1> QED
  BY <1>1, <1>2, <1>3, FencingKept

\* Steps that end a request or move it on give nobody a version.
LEMMA HoldersKept ==
    ASSUME TypeOK, NEW w \in Workers, pc[w] # "idle",
           NEW l, NEW a, NEW i,
           (Goto(w, l) /\ UNCHANGED ver) \/ End(w, a, i)
    PROVE  \A x \in Workers, v \in Uploads :
               Holding(x, v)' => Holding(x, v) /\ ver'[x] = ver[x]
BY DEF TypeOK, Holding, Goto, End

\* Init requests: only a fresh upload id gets a row.
LEMMA InitFencing ==
    ASSUME TypeOK, TypeOK', LeaseFencing, NEW r \in inits, InitStep(r)
    PROVE  LeaseFencing'
<1>0. r.up \in Uploads
  BY DEF TypeOK, InitRequest
<1>1. \A w \in Workers, v \in Uploads : Holding(w, v)' => Holding(w, v) /\ ver'[w] = ver[w]
  BY DEF InitStep, InitInstant, InitResume, InitNew, InitEnds, Holding, workerVars
<1>2. CASE InitInstant(r) \/ InitEnds(r)
  BY <1>1, <1>2, FencingUntouched DEF InitInstant, InitEnds, dbVars
<1>3. CASE InitResume(r)
  <2>1. CASE ExpireInProgressUpload(r.found) /\ inits' = (inits \ {r}) \cup {[r EXCEPT !.plan = "new"]}
    <3> DEFINE u == r.found
    <3>1. u \in Uploads /\ task[u] \in UploadTask
      BY <1>3 DEF TypeOK, InitResume
    <3>2. task[u].status = "InProgress" /\ task' = [task EXCEPT ![u] = MarkExpired(task[u])]
      BY <2>1, <3>1 DEF ExpireInProgressUpload, CanExpire, TypeOK
    <3>3. /\ task[u].version \in Nat
          /\ MarkExpired(task[u]).version = task[u].version + 1
          /\ MarkExpired(task[u]).status = "Expired"
      BY <3>1, TaskVersions DEF UploadTask
    <3>4. \A v \in Uploads : /\ task[v].version <= task'[v].version
                             /\ task[v].status # "None" => task'[v].status # "None"
      BY <3>1, <3>2, <3>3 DEF TypeOK, UploadTask
    <3>5. \A q \in inits' : \E p \in inits : q.up = p.up /\ (q = p \/ p = r)
      BY <2>1 DEF TypeOK, InitRequest
    <3>6. \A q \in inits' : task'[q.up].status = "None"
      BY <3>1, <3>2, <3>5 DEF LeaseFencing, TypeOK, InitRequest
    <3>7. [r EXCEPT !.plan = "new"].up = r.up
      BY DEF TypeOK, InitRequest
    <3>8. \A q, p \in inits' : q.up = p.up => q = p
      <4> DEFINE n == [r EXCEPT !.plan = "new"]
      <4>1. inits' = (inits \ {r}) \cup {n} /\ n.up = r.up
        BY <2>1, <3>7
      <4> HIDE DEF n
      <4> QED
        BY <4>1 DEF LeaseFencing
    <3> QED
      BY <1>1, <3>4, <3>6, <3>8, FencingKept
  <2>2. CASE inits' = inits \ {r} /\ UNCHANGED dbVars
    BY <1>1, <2>2, FencingUntouched DEF dbVars
  <2> QED
    BY <1>3, <2>1, <2>2 DEF InitResume
<1>4. CASE InitNew(r)
  <2>1. task' = [task EXCEPT ![r.up] = CreatedTask] /\ inits' = inits \ {r}
    BY <1>4 DEF InitNew
  <2>2. task[r.up].status = "None" /\ CreatedTask.version = 0 /\ CreatedTask.status = "InProgress"
    BY DEF LeaseFencing, CreatedTask, NoTask
  <2>3. \A q \in inits' : q.up \in Uploads /\ q.up # r.up /\ q \in inits
    BY <2>1 DEF LeaseFencing, TypeOK, InitRequest
  <2>4. \A q \in inits' : task'[q.up].status = "None"
    BY <1>0, <2>1, <2>3 DEF LeaseFencing, TypeOK
  <2>5. \A q, p \in inits' : q.up = p.up => q = p
    BY <2>3 DEF LeaseFencing
  <2>6. \A w \in Workers : ~Holding(w, r.up)
    BY <1>0, <2>2 DEF LeaseFencing
  <2>7. \A v \in Uploads : v # r.up => task'[v] = task[v]
    BY <1>0, <2>1 DEF TypeOK
  <2> QED
    BY <1>1, <2>4, <2>5, <2>6, <2>7 DEF LeaseFencing, OneFreshOwner
<1> QED
  BY <1>2, <1>3, <1>4 DEF InitStep

\* Cancellation, expiry, operators, jobs and the clock.
LEMMA UploadFencing ==
    ASSUME TypeOK, TypeOK', LeaseFencing, NEW u \in Uploads, UploadStep(u)
    PROVE  LeaseFencing'
<1>1. \A w \in Workers, v \in Uploads : Holding(w, v)' => Holding(w, v) /\ ver'[w] = ver[w]
  BY DEF UploadStep, InitRead, LoadChunkTask, EvictUploadTask, CancelInProgressUpload,
         ExpireUpload, AdminReleaseLease, RebuildUploadCleanup, CleanupSession,
         LeaseRunsOut, TaskTimesOut, Holding, workerVars
<1>2. task[u] \in UploadTask /\ task[u].version \in Nat
  BY DEF TypeOK, UploadTask
<1>3. CASE InitRead(u)
  <2> DEFINE plan == DecideInitFlow(content[ContentOf[u]].id # 0, ActiveByUserAndHash(u))
             req(v) == [up |-> u, plan |-> plan, seen |-> content[ContentOf[u]].id, found |-> v]
  <2>0. PICK f : inits' = inits \cup {req(f)}
    BY <1>3 DEF InitRead
  <2>1. PICK q : inits' = inits \cup {q} /\ q.up = u
    <3>1. req(f).up = u
      OBVIOUS
    <3> QED
      BY <2>0, <3>1
  <2>2. task' = task /\ task[u].status = "None" /\ \A r \in inits : r.up # u
    BY <1>3 DEF InitRead, dbVars, NoTask
  <2>3. \A r \in inits' : task'[r.up].status = "None"
    BY <2>1, <2>2 DEF LeaseFencing
  <2>4. \A r, s \in inits' : r.up = s.up => r = s
    BY <2>1, <2>2 DEF LeaseFencing
  <2>5. \A v \in Uploads : task[v].version \in Nat /\ task[v].version <= task[v].version
    BY DEF TypeOK, UploadTask
  <2> QED
    BY <1>1, <2>2, <2>3, <2>4, <2>5, FencingKept
<1>4. CASE \/ \E row \in ChunkRow : LoadChunkTask(u, row)
          \/ EvictUploadTask(u) \/ RebuildUploadCleanup(u) \/ CleanupSession(u)
  BY <1>1, <1>4, FencingUntouched
  DEF LoadChunkTask, EvictUploadTask, RebuildUploadCleanup, CleanupSession, dbVars, requestVars
<1>5. CASE CancelInProgressUpload(u)
  <2>1. task[u].status # "None" /\ task' = [task EXCEPT ![u] = MarkCancelled(task[u])] /\ inits' = inits
    BY <1>5 DEF CancelInProgressUpload, CanCancel, requestVars, TypeOK
  <2> DEFINE t == MarkCancelled(task[u])
  <2>2. t \in UploadTask /\ task[u].version <= t.version /\ t.status # "None"
    <3>1. t \in UploadTask
      BY <1>2, TaskRows
    <3>2. t.version = task[u].version + 1 /\ t.status = "Cancelled"
      BY <1>2, TaskVersions
    <3> QED
      BY <1>2, <2>1, <3>1, <3>2
  <2> HIDE DEF t
  <2>3. task' = [task EXCEPT ![u] = t]
    BY <2>1 DEF t
  <2> QED
    BY <1>1, <2>1, <2>2, <2>3, FencingRowUpdate
<1>6. CASE ExpireUpload(u)
  <2>1. task[u].status # "None" /\ task' = [task EXCEPT ![u] = MarkExpired(task[u])] /\ inits' = inits
    BY <1>6 DEF ExpireUpload, ExpireInProgressUpload, CanExpire, requestVars, TypeOK
  <2> DEFINE t == MarkExpired(task[u])
  <2>2. t \in UploadTask /\ task[u].version <= t.version /\ t.status # "None"
    <3>1. t \in UploadTask
      BY <1>2, TaskRows
    <3>2. t.version = task[u].version + 1 /\ t.status = "Expired"
      BY <1>2, TaskVersions
    <3> QED
      BY <1>2, <2>1, <3>1, <3>2
  <2> HIDE DEF t
  <2>3. task' = [task EXCEPT ![u] = t]
    BY <2>1 DEF t
  <2> QED
    BY <1>1, <2>1, <2>2, <2>3, FencingRowUpdate
<1>7. CASE AdminReleaseLease(u)
  <2>1. task[u].status # "None" /\ task' = [task EXCEPT ![u] = ReleaseUploadLease(task[u])] /\ inits' = inits
    BY <1>7 DEF AdminReleaseLease, requestVars, TypeOK
  <2> DEFINE t == ReleaseUploadLease(task[u])
  <2>2. t \in UploadTask /\ task[u].version <= t.version /\ t.status # "None"
    <3>1. t \in UploadTask
      BY <1>2, TaskRows
    <3>2. t.version = task[u].version + 1 /\ t.status = task[u].status
      BY <1>2, TaskVersions
    <3> QED
      BY <1>2, <2>1, <3>1, <3>2
  <2> HIDE DEF t
  <2>3. task' = [task EXCEPT ![u] = t]
    BY <2>1 DEF t
  <2> QED
    BY <1>1, <2>1, <2>2, <2>3, FencingRowUpdate
<1>8. CASE LeaseRunsOut(u)
  <2>1. task' = [task EXCEPT ![u] = [task[u] EXCEPT !.live = FALSE]] /\ inits' = inits
    BY <1>8 DEF LeaseRunsOut, requestVars, TypeOK
  <2>2. \A v \in Uploads : task'[v].version = task[v].version /\ task'[v].status = task[v].status
    BY <1>2, <2>1, TaskVersions DEF TypeOK
  <2>3. \A v \in Uploads : task[v].version \in Nat /\ task[v].version <= task[v].version
    BY DEF TypeOK, UploadTask
  <2>4. \A r \in inits' : task'[r.up].status = "None"
    BY <2>1, <2>2 DEF LeaseFencing, TypeOK, InitRequest
  <2>5. \A r, s \in inits' : r.up = s.up => r = s
    BY <2>1 DEF LeaseFencing
  <2> QED
    BY <1>1, <2>2, <2>3, <2>4, <2>5, FencingKept
<1>9. CASE TaskTimesOut(u)
  <2>1. /\ task[u].status # "None"
        /\ task' = [task EXCEPT ![u] = [task[u] EXCEPT !.expired = TRUE]]
        /\ inits' = inits
    BY <1>9 DEF TaskTimesOut, requestVars, TypeOK
  <2> DEFINE t == [task[u] EXCEPT !.expired = TRUE]
  <2>2. t \in UploadTask /\ task[u].version <= t.version /\ t.status # "None"
    <3>1. t \in UploadTask
      BY <1>2, TaskRows
    <3>2. t.version = task[u].version /\ t.status = task[u].status
      BY <1>2, TaskVersions
    <3> QED
      BY <1>2, <2>1, <3>1, <3>2
  <2> HIDE DEF t
  <2>3. task' = [task EXCEPT ![u] = t]
    BY <2>1 DEF t
  <2> QED
    BY <1>1, <2>1, <2>2, <2>3, FencingRowUpdate
<1> QED
  BY <1>3, <1>4, <1>5, <1>6, <1>7, <1>8, <1>9 DEF UploadStep

\* A request acquires a lease at a version no request has yet: Claim and the
\* successful renewals.
LEMMA FencingAcquired ==
    ASSUME TypeOK, TypeOK', LeaseFencing,
           NEW w \in Workers, NEW u \in Uploads,
           task[u].status # "None", task'[u].status # "None",
           task'[u].version = task[u].version + 1,
           \A v \in Uploads : v # u => task'[v] = task[v],
           Holding(w, u)', ver'[w] = task'[u].version,
           \A v \in Uploads : Holding(w, v)' => v = u,
           \A x \in Workers : x # w => pc'[x] = pc[x] /\ up'[x] = up[x] /\ ver'[x] = ver[x],
           inits' = inits
    PROVE  LeaseFencing'
<1>1. \A v \in Uploads : task[v].version \in Nat /\ task'[v].version \in Nat
  BY DEF TypeOK, UploadTask
<1>2. \A x \in Workers : ver[x] \in Nat
  BY DEF TypeOK
<1>3. \A x \in Workers, v \in Uploads : x # w => (Holding(x, v)' <=> Holding(x, v))
  BY DEF Holding
<1>4. \A x \in Workers : x # w /\ Holding(x, u)' => ver'[x] < task'[u].version
  BY <1>1, <1>2, <1>3 DEF LeaseFencing
<1>5. OneFreshOwner'
  <2> SUFFICES ASSUME NEW x \in Workers, NEW y \in Workers, NEW v \in Uploads,
                      Holding(x, v)', Holding(y, v)',
                      ver'[x] = task'[v].version, ver'[y] = task'[v].version
               PROVE  x = y
    BY DEF OneFreshOwner
  <2>1. CASE v = u
    BY <1>1, <1>4, <2>1
  <2>2. CASE v # u
    BY <1>3, <2>2 DEF LeaseFencing, OneFreshOwner
  <2> QED
    BY <2>1, <2>2
<1>6. \A x \in Workers, v \in Uploads :
          Holding(x, v)' => ver'[x] <= task'[v].version /\ task'[v].status # "None"
  <2> SUFFICES ASSUME NEW x \in Workers, NEW v \in Uploads, Holding(x, v)'
               PROVE  ver'[x] <= task'[v].version /\ task'[v].status # "None"
    OBVIOUS
  <2>1. CASE x = w
    BY <1>1, <2>1
  <2>2. CASE x # w /\ v = u
    BY <1>1, <1>2, <1>3, <2>2 DEF LeaseFencing
  <2>3. CASE x # w /\ v # u
    BY <1>3, <2>3 DEF LeaseFencing
  <2> QED
    BY <2>1, <2>2, <2>3
<1>7. \A r \in inits' : task'[r.up].status = "None"
  BY DEF LeaseFencing, TypeOK, InitRequest
<1>8. \A r, s \in inits' : r.up = s.up => r = s
  BY DEF LeaseFencing
<1> QED
  BY <1>5, <1>6, <1>7, <1>8 DEF LeaseFencing

\* A renewal: it needs the row's version, so its request was the fresh one.
LEMMA RenewFencing ==
    ASSUME TypeOK, TypeOK', LeaseFencing, NEW w \in Workers, pc[w] # "idle",
           inits' = inits, NEW l, NEW a, NEW i,
           \/ RenewLease(w) /\ Goto(w, l) /\ l # "idle"
           \/ RenewFails(w) /\ ((Goto(w, l) /\ UNCHANGED ver) \/ End(w, a, i))
    PROVE  LeaseFencing'
<1>0. PICK u \in Uploads : u = up[w]
  BY DEF TypeOK
<1> DEFINE t == RenewFinalizeLease(task[u])
<1>1. u \in Uploads /\ task[u] \in UploadTask /\ task[u].version \in Nat
  BY DEF TypeOK, UploadTask
<1>2. t \in UploadTask
  BY <1>1, TaskRows
<1>3. t.version = task[u].version + 1 /\ t.status = task[u].status
  BY <1>1, TaskVersions
<1> HIDE DEF t
<1>4. CASE RenewLease(w) /\ Goto(w, l) /\ l # "idle"
  <2>1. task' = [task EXCEPT ![u] = t] /\ task[u].status = "Finalizing"
    BY <1>0, <1>4 DEF RenewLease, Owned, LeaseOwned, t
  <2>2. task'[u] = t /\ \A v \in Uploads : v # u => task'[v] = task[v]
    BY <1>1, <2>1 DEF TypeOK
  <2>3. ver' = [ver EXCEPT ![w] = task'[u].version] /\ pc' = [pc EXCEPT ![w] = l] /\ up' = up
    BY <1>0, <1>4 DEF RenewLease, Goto
  <2>4. Holding(w, u)' /\ ver'[w] = task'[u].version /\ \A v \in Uploads : Holding(w, v)' => v = u
    BY <1>0, <1>4, <2>3 DEF TypeOK, Holding
  <2>5. \A x \in Workers : x # w => pc'[x] = pc[x] /\ up'[x] = up[x] /\ ver'[x] = ver[x]
    BY <2>3 DEF TypeOK
  <2>6. /\ task[u].status # "None" /\ task'[u].status # "None"
        /\ task'[u].version = task[u].version + 1
    BY <1>3, <2>1, <2>2
  <2> QED
    BY <2>2, <2>4, <2>5, <2>6, FencingAcquired
<1>5. CASE RenewFails(w) /\ ((Goto(w, l) /\ UNCHANGED ver) \/ End(w, a, i))
  <2>1. \A x \in Workers, v \in Uploads : Holding(x, v)' => Holding(x, v) /\ ver'[x] = ver[x]
    BY <1>5, HoldersKept
  <2>2. CASE UNCHANGED task
    BY <2>1, <2>2, FencingUntouched
  <2>3. CASE Owned(w) /\ task' = [task EXCEPT ![u] = t]
    <3>1. task[u].status # "None" /\ t.status # "None" /\ task[u].version <= t.version
      BY <1>0, <1>1, <1>3, <2>3 DEF Owned, LeaseOwned
    <3> QED
      BY <1>1, <1>2, <2>1, <2>3, <3>1, FencingRowUpdate
  <2> QED
    BY <1>0, <1>5, <2>2, <2>3 DEF RenewFails, t
<1> QED
  BY <1>4, <1>5

\* The steps of completion requests.
LEMMA WorkerFencing ==
    ASSUME TypeOK, TypeOK', LeaseFencing, NEW w \in Workers, WorkerStep(w)
    PROVE  LeaseFencing'
<1>0. inits' = inits
  BY DEF WorkerStep, Claim, LoadInputs, AssembleBegin, AssembleEnd, RenewAfterAssembly,
         DiscardAssembly, RecordFinalizeErrorBestEffort, Lookup, PromoteBegin,
         PromoteEnd, RenewBeforeTransaction, FinalizeTransaction, Crash, requestVars
<1>1. ASSUME NEW u \in Uploads, Claim(w, u) PROVE LeaseFencing'
  <2> DEFINE t == ClaimFinalizeLease(task[u], InstanceOf[w])
  <2>1. task[u] \in UploadTask /\ InstanceOf[w] \in Instances
    BY InstanceAssumption DEF TypeOK
  <2>2. t.version = task[u].version + 1 /\ t.status = "Finalizing"
    BY <2>1, TaskVersions
  <2> HIDE DEF t
  <2>3. task' = [task EXCEPT ![u] = t] /\ task[u].status # "None"
    BY <1>1 DEF Claim, CanClaim, t
  <2>4. task'[u] = t /\ \A v \in Uploads : v # u => task'[v] = task[v]
    BY <2>3 DEF TypeOK
  <2>5. /\ pc' = [pc EXCEPT ![w] = "claimed"] /\ up' = [up EXCEPT ![w] = u]
        /\ ver' = [ver EXCEPT ![w] = task'[u].version]
    BY <1>1 DEF Claim
  <2>6. Holding(w, u)' /\ ver'[w] = task'[u].version /\ \A v \in Uploads : Holding(w, v)' => v = u
    BY <2>5 DEF TypeOK, Holding
  <2>7. \A x \in Workers : x # w => pc'[x] = pc[x] /\ up'[x] = up[x] /\ ver'[x] = ver[x]
    BY <2>5 DEF TypeOK
  <2> QED
    BY <1>0, <2>2, <2>3, <2>4, <2>6, <2>7, FencingAcquired
<1>2. CASE \/ LoadInputs(w) \/ AssembleBegin(w) \/ AssembleEnd(w) \/ Lookup(w)
          \/ PromoteBegin(w) \/ PromoteEnd(w)
  <2>1. pc[w] # "idle" /\ UNCHANGED <<task, ver>> /\ \E l : Goto(w, l)
    BY <1>2 DEF LoadInputs, AssembleBegin, AssembleEnd, Lookup, PromoteBegin,
                PromoteEnd, dbVars
  <2> QED
    BY <1>0, <2>1, HoldersKept, FencingUntouched
<1>3. CASE DiscardAssembly(w)
  <2>1. /\ pc[w] # "idle" /\ UNCHANGED task
        /\ (\E l : Goto(w, l) /\ UNCHANGED ver) \/ (\E a, i : End(w, a, i))
    BY <1>3 DEF DiscardAssembly, dbVars
  <2> QED
    BY <1>0, <2>1, HoldersKept, FencingUntouched
<1>4. CASE Crash(w)
  <2>1. pc[w] # "idle" /\ UNCHANGED task /\ End(w, asm, intact)
    BY <1>4 DEF Crash, dbVars
  <2> QED
    BY <1>0, <2>1, HoldersKept, FencingUntouched
<1>5. CASE RecordFinalizeErrorBestEffort(w)
  <2> DEFINE u == up[w]
             t == RecordFinalizeError(task[u])
  <2>1. pc[w] # "idle" /\ End(w, asm, intact)
    BY <1>5 DEF RecordFinalizeErrorBestEffort
  <2>2. u \in Uploads /\ task[u] \in UploadTask /\ task[u].version \in Nat
    BY <2>1 DEF TypeOK, UploadTask
  <2>3. t \in UploadTask
    BY <2>2, TaskRows
  <2>4. t.version = task[u].version /\ t.status = task[u].status
    BY <2>2, TaskVersions
  <2> HIDE DEF t
  <2>5. \A x \in Workers, v \in Uploads : Holding(x, v)' => Holding(x, v) /\ ver'[x] = ver[x]
    BY <2>1, HoldersKept
  <2>6. CASE UNCHANGED task
    BY <1>0, <2>5, <2>6, FencingUntouched
  <2>7. CASE Owned(w) /\ task' = [task EXCEPT ![u] = t]
    <3>1. task[u].status # "None" /\ t.status # "None" /\ task[u].version <= t.version
      BY <2>2, <2>4, <2>7 DEF Owned, LeaseOwned
    <3> QED
      BY <1>0, <2>2, <2>3, <2>5, <2>7, <3>1, FencingRowUpdate
  <2> QED
    BY <1>5, <2>6, <2>7 DEF RecordFinalizeErrorBestEffort, t
<1>6. CASE RenewAfterAssembly(w)
  <2>1. /\ pc[w] # "idle"
        /\ \/ \E l : RenewLease(w) /\ Goto(w, l) /\ l # "idle"
           \/ \E l : RenewFails(w) /\ Goto(w, l) /\ UNCHANGED ver
    BY <1>6 DEF RenewAfterAssembly
  <2> QED
    BY <1>0, <2>1, RenewFencing
<1>7. CASE RenewBeforeTransaction(w)
  <2>1. /\ pc[w] # "idle"
        /\ \/ \E l : RenewLease(w) /\ Goto(w, l) /\ l # "idle"
           \/ RenewFails(w) /\ End(w, asm, intact)
    BY <1>7 DEF RenewBeforeTransaction
  <2> QED
    BY <1>0, <2>1, RenewFencing
<1>8. CASE FinalizeTransaction(w)
  <2> DEFINE u == up[w]
             n == RenewFinalizeLease(task[u])
             t == MarkCompleted(n)
  <2>1. pc[w] # "idle" /\ u \in Uploads /\ task[u] \in UploadTask /\ task[u].version \in Nat
    BY <1>8 DEF FinalizeTransaction, TypeOK, UploadTask
  <2>2. n \in UploadTask /\ n.version = task[u].version + 1
    BY <2>1, TaskRows, TaskVersions
  <2>3. t \in UploadTask /\ t.version = n.version + 1 /\ t.status = "Completed"
    BY <2>2, TaskRows, TaskVersions
  <2> HIDE DEF n, t
  <2>4. CASE Goto(w, "failed") /\ UNCHANGED <<dbVars, ver>>
    BY <1>0, <2>1, <2>4, HoldersKept, FencingUntouched DEF dbVars
  <2>5. CASE Owned(w) /\ task' = [task EXCEPT ![u] = t] /\ End(w, asm, intact)
    <3>1. task[u].status # "None" /\ task[u].version <= t.version
      BY <2>1, <2>2, <2>3, <2>5 DEF Owned, LeaseOwned
    <3>2. \A x \in Workers, v \in Uploads : Holding(x, v)' => Holding(x, v) /\ ver'[x] = ver[x]
      BY <2>1, <2>5, HoldersKept
    <3> QED
      BY <1>0, <2>1, <2>3, <2>5, <3>1, <3>2, FencingRowUpdate
  <2> QED
    BY <1>8, <2>4, <2>5 DEF FinalizeTransaction, n, t
<1> QED
  BY <1>1, <1>2, <1>3, <1>4, <1>5, <1>6, <1>7, <1>8 DEF WorkerStep

\* At most one completion request can pass the WHERE clause of a lease-owned
\* UPDATE, for any number of instances, requests, takeovers and renewals, and
\* with no assumption that concurrent requests have different lease owners.
THEOREM LeaseFencingHolds == Spec => []LeaseFencing
<1>1. Init => LeaseFencing
  BY DEF Init, LeaseFencing, OneFreshOwner, Holding
<1>2. TypeOK /\ TypeOK' /\ LeaseFencing /\ [Next]_vars => LeaseFencing'
  <2> SUFFICES ASSUME TypeOK, TypeOK', LeaseFencing, [Next]_vars PROVE LeaseFencing'
    OBVIOUS
  <2>1. CASE UNCHANGED vars
    BY <2>1 DEF LeaseFencing, OneFreshOwner, Holding, vars, dbVars, requestVars, workerVars
  <2>2. ASSUME NEW u \in Uploads, UploadStep(u) PROVE LeaseFencing'
    BY <2>2, UploadFencing
  <2>3. ASSUME NEW r \in inits, InitStep(r) PROVE LeaseFencing'
    BY <2>3, InitFencing
  <2>4. ASSUME NEW q \in chunkReqs, ChunkStep(q) PROVE LeaseFencing'
    <3>1. UNCHANGED <<task, inits, pc, up, ver>>
      BY <2>4 DEF ChunkStep, WriteChunk, RecordChunk, ChunkRequestEnds, dbVars, workerVars
    <3> QED
      BY <3>1 DEF LeaseFencing, OneFreshOwner, Holding
  <2>5. ASSUME NEW w \in Workers, WorkerStep(w) PROVE LeaseFencing'
    BY <2>5, WorkerFencing
  <2> QED
    BY <2>1, <2>2, <2>3, <2>4, <2>5 DEF Next
<1> QED
  BY <1>1, <1>2, TypeCorrect, PTL DEF Spec

-----------------------------------------------------------------------------
(* What a step does to the rows the ledger is read from.                   *)

\* Status and file of all uploads but u stay as they are.
OthersKept(u) ==
    \A v \in Uploads : v # u => task'[v].status = task[v].status /\ file'[v] = file[v]

\* Nothing the ledger sees changes.
QuietStep ==
    /\ UNCHANGED <<quota, file, content>>
    /\ \A u \in Uploads : task'[u].status = task[u].status

\* A new upload reserves its bytes.
OpenStep(u) ==
    /\ task[u].status = "None" /\ file[u] = "none" /\ ActiveByUserAndHash(u) = {}
    /\ CanReserve(quota[OwnerOf[u]], Bytes(u))
    /\ quota' = [quota EXCEPT ![OwnerOf[u]] = ReserveStorage(@, Bytes(u))]
    /\ task'[u].status = "InProgress" /\ file'[u] = "none"
    /\ OthersKept(u) /\ UNCHANGED content

\* An instant upload charges its bytes and takes a reference.
TakeStep(u) ==
    /\ task[u].status = "None" /\ file[u] = "none" /\ content[ContentOf[u]].id # 0
    /\ CanConsume(quota[OwnerOf[u]], Bytes(u))
    /\ quota' = [quota EXCEPT ![OwnerOf[u]] = ConsumeUsedStorage(@, Bytes(u))]
    /\ content' = [content EXCEPT ![ContentOf[u]].refs = @ + 1]
    /\ task'[u].status = "None" /\ file'[u] = "active"
    /\ OthersKept(u)

\* Cancellation or expiry gives the bytes back.
DropStep(u) ==
    /\ task[u].status = "InProgress" /\ task'[u].status \in {"Cancelled", "Expired"}
    /\ HasReserved(quota[OwnerOf[u]], Bytes(u))
    /\ quota' = [quota EXCEPT ![OwnerOf[u]] = ReleaseReservedStorage(@, Bytes(u))]
    /\ file'[u] = file[u]
    /\ OthersKept(u) /\ UNCHANGED content

\* The first claim closes the upload.
CloseStep(u) ==
    /\ task[u].status = "InProgress" /\ task'[u].status = "Finalizing"
    /\ file'[u] = file[u]
    /\ OthersKept(u) /\ UNCHANGED <<quota, content>>

\* The finalize transaction charges the reserved bytes and takes a reference.
StoreStep(u) ==
    /\ task[u].status = "Finalizing" /\ task'[u].status = "Completed"
    /\ HasReserved(quota[OwnerOf[u]], Bytes(u))
    /\ quota' = [quota EXCEPT ![OwnerOf[u]] = CommitReservedToUsed(@, Bytes(u))]
    /\ AcquireReference(ContentOf[u])
    /\ file'[u] = "active"
    /\ OthersKept(u)

LedgerStep ==
    \/ QuietStep
    \/ \E u \in Uploads : OpenStep(u) \/ TakeStep(u) \/ DropStep(u) \/ CloseStep(u) \/ StoreStep(u)

\* An init request that is not decided yet has neither a file nor a stale plan.
InitsFresh ==
    \A r \in inits : file[r.up] = "none" /\ (r.plan = "instant" => r.seen # 0)

-----------------------------------------------------------------------------
(* The inductive invariants.                                               *)

\* A file exists exactly where an upload completed or was instant, init
\* requests are undecided, at most one upload per hash is active, and the
\* columns of users and file_contents are in step.
LedgerInv ==
    /\ InitsFresh
    /\ \A u \in Uploads : task[u].status # "None" =>
          (file[u] # "none" <=> task[u].status = "Completed")
    /\ \A u \in Uploads : file[u] \in {"none", "active"}
    /\ OneActivePerHash
    /\ LedgerBalanced
    /\ \A x \in Users : quota[x].quota = QuotaOf[x]
    /\ \A c \in Contents : content[c].id = 0 <=> content[c].refs = 0

\* A lease is live only while finalizing, and the request whose version is
\* current has recorded no error: an error ends the request that records it.
LeaseInv ==
    /\ \A u \in Uploads : task[u].live => task[u].status = "Finalizing"
    /\ \A u \in Uploads : task[u].status = "Completed" => ~task[u].error
    /\ \A w \in Workers, u \in Uploads :
          Holding(w, u) /\ ver[w] = task[u].version => ~task[u].error

\* Chunk rows are backed by objects until the upload is terminal, and only
\* then may a cleanup job exist.
ChunkInv ==
    /\ \A u \in Uploads : cleanup[u] # "none" => IsTerminalStatus(task[u])
    /\ TerminalLeavesNoRows
    /\ \A u \in Uploads : ~IsTerminalStatus(task[u]) => chunks[u] \subseteq staging[u]
    /\ \A q \in chunkReqs : q.stage = "written" /\ ~IsTerminalStatus(task[q.up])
          => q.row \in staging[q.up]
    /\ \A u \in Uploads : task[u].status = "Finalizing" => ChunksComplete(u)

\* With the S3 store: what a request promotes was verified and is whole, and
\* past promotion its object is there.
PromotesWhole(w) ==
    /\ asm[w] # "partial"
    /\ pc[w] \in {"lookup", "promote", "copying"} => HashMatches(w)
    /\ pc[w] = "copying" => intact[w]
    /\ pc[w] \in {"prepared", "ready"} => blob[ContentOf[up[w]]] = "complete"

BlobInv ==
    /\ \A c \in Contents : blob[c] \in {"absent", "complete"}
    /\ ReferencedBlobIntact
    /\ \A w \in Workers : PromotesWhole(w)

-----------------------------------------------------------------------------
\* A row that is overwritten: the other rows stay.
LEMMA RowWrittenAt ==
    ASSUME TypeOK, NEW u \in Uploads, NEW t, task' = [task EXCEPT ![u] = t]
    PROVE  task'[u] = t /\ \A v \in Uploads : v # u => task'[v] = task[v]
BY DEF TypeOK

\* A row that cancellation or expiry ends: its bytes are given back.
LEMMA DropsRow ==
    ASSUME TypeOK, NEW u \in Uploads, NEW t, task' = [task EXCEPT ![u] = t],
           t.status \in {"Cancelled", "Expired"}, task[u].status = "InProgress",
           HasReserved(quota[OwnerOf[u]], Bytes(u)),
           quota' = [quota EXCEPT ![OwnerOf[u]] = ReleaseReservedStorage(@, Bytes(u))],
           UNCHANGED <<file, content>>
    PROVE  LedgerStep
<1>1. task'[u] = t /\ OthersKept(u)
  BY RowWrittenAt DEF OthersKept
<1>2. DropStep(u)
  BY <1>1 DEF DropStep
<1> QED
  BY <1>2 DEF LedgerStep

\* Init requests, seen from the ledger.
LEMMA InitLedgerStep ==
    ASSUME TypeOK, LeaseFencing, InitsFresh, NEW r \in inits, InitStep(r)
    PROVE  LedgerStep
<1>0. r.up \in Uploads /\ task[r.up].status = "None" /\ file[r.up] = "none"
  BY DEF TypeOK, InitRequest, LeaseFencing, InitsFresh
<1>1. CASE InitInstant(r)
  <2>1. content[ContentOf[r.up]].id # 0
    BY <1>1 DEF InitInstant, InitsFresh
  <2>2. UNCHANGED task /\ file' = [file EXCEPT ![r.up] = "active"]
    BY <1>1 DEF InitInstant
  <2>3. OthersKept(r.up) /\ file'[r.up] = "active" /\ task'[r.up].status = "None"
    BY <1>0, <2>2 DEF OthersKept, TypeOK
  <2>4. TakeStep(r.up)
    BY <1>0, <1>1, <2>1, <2>3 DEF TakeStep, InitInstant
  <2> QED
    BY <1>0, <2>4 DEF LedgerStep
<1>2. CASE InitResume(r)
  <2>1. CASE UNCHANGED dbVars
    BY <2>1 DEF LedgerStep, QuietStep, dbVars
  <2>2. CASE ExpireInProgressUpload(r.found)
    <3>1. r.found \in Uploads /\ task[r.found] \in UploadTask
      BY <1>2 DEF TypeOK, InitResume
    <3>2. MarkExpired(task[r.found]).status = "Expired"
      BY <3>1, TaskVersions
    <3> QED
      BY <2>2, <3>1, <3>2, DropsRow DEF ExpireInProgressUpload, CanExpire
  <2> QED
    BY <1>2, <2>1, <2>2 DEF InitResume
<1>3. CASE InitNew(r)
  <2>1. task' = [task EXCEPT ![r.up] = CreatedTask] /\ UNCHANGED <<file, content>>
    BY <1>3 DEF InitNew
  <2>2. CreatedTask.status = "InProgress"
    BY DEF CreatedTask, NoTask
  <2>3. task'[r.up].status = "InProgress" /\ OthersKept(r.up)
    BY <1>0, <2>1, <2>2, RowWrittenAt DEF OthersKept
  <2>4. OpenStep(r.up)
    BY <1>0, <1>3, <2>1, <2>3 DEF OpenStep, InitNew
  <2> QED
    BY <1>0, <2>4 DEF LedgerStep
<1>4. CASE InitEnds(r)
  BY <1>4 DEF LedgerStep, QuietStep, InitEnds, dbVars
<1> QED
  BY <1>1, <1>2, <1>3, <1>4 DEF InitStep

\* A row whose status a step keeps.
LEMMA StatusKept ==
    ASSUME TypeOK, UNCHANGED <<quota, file, content>>, NEW u \in Uploads, NEW t,
           task' = [task EXCEPT ![u] = t], t.status = task[u].status
    PROVE  LedgerStep
<1>1. \A v \in Uploads : task'[v].status = task[v].status
  BY RowWrittenAt
<1> QED
  BY <1>1 DEF LedgerStep, QuietStep

\* Cancellation, expiry, operators, jobs and the clock, seen from the ledger.
LEMMA UploadLedgerStep ==
    ASSUME TypeOK, NEW u \in Uploads, UploadStep(u)
    PROVE  LedgerStep
<1>0. task[u] \in UploadTask
  BY DEF TypeOK
<1>1. CASE \/ InitRead(u) \/ (\E row \in ChunkRow : LoadChunkTask(u, row))
          \/ EvictUploadTask(u) \/ RebuildUploadCleanup(u) \/ CleanupSession(u)
  BY <1>1 DEF LedgerStep, QuietStep, InitRead, LoadChunkTask, EvictUploadTask, RebuildUploadCleanup,
              CleanupSession, dbVars
<1>2. CASE CancelInProgressUpload(u)
  <2>1. MarkCancelled(task[u]).status = "Cancelled"
    BY <1>0, TaskVersions
  <2> QED
    BY <1>2, <2>1, DropsRow DEF CancelInProgressUpload, CanCancel
<1>3. CASE ExpireUpload(u)
  <2>1. MarkExpired(task[u]).status = "Expired"
    BY <1>0, TaskVersions
  <2> QED
    BY <1>3, <2>1, DropsRow DEF ExpireUpload, ExpireInProgressUpload, CanExpire
<1>4. CASE AdminReleaseLease(u)
  <2>1. task' = [task EXCEPT ![u] = ReleaseUploadLease(task[u])] /\ UNCHANGED <<quota, file, content>>
    BY <1>4 DEF AdminReleaseLease
  <2>2. ReleaseUploadLease(task[u]).status = task[u].status
    BY <1>0, TaskVersions
  <2> QED
    BY <2>1, <2>2, StatusKept
<1>5. CASE LeaseRunsOut(u)
  <2>1. task' = [task EXCEPT ![u] = [task[u] EXCEPT !.live = FALSE]] /\ UNCHANGED <<quota, file, content>>
    BY <1>5 DEF LeaseRunsOut, TypeOK
  <2>2. [task[u] EXCEPT !.live = FALSE].status = task[u].status
    BY <1>0, TaskVersions
  <2> QED
    BY <2>1, <2>2, StatusKept
<1>6. CASE TaskTimesOut(u)
  <2>1. task' = [task EXCEPT ![u] = [task[u] EXCEPT !.expired = TRUE]] /\ UNCHANGED <<quota, file, content>>
    BY <1>6 DEF TaskTimesOut, TypeOK
  <2>2. [task[u] EXCEPT !.expired = TRUE].status = task[u].status
    BY <1>0, TaskVersions
  <2> QED
    BY <2>1, <2>2, StatusKept
<1> QED
  BY <1>1, <1>2, <1>3, <1>4, <1>5, <1>6 DEF UploadStep

\* Completion requests, seen from the ledger: a first claim closes the upload,
\* the finalize transaction stores it, and nothing else they do is seen.
LEMMA WorkerLedgerStep ==
    ASSUME TypeOK, NEW w \in Workers, WorkerStep(w)
    PROVE  LedgerStep
<1>1. ASSUME NEW u \in Uploads, Claim(w, u) PROVE LedgerStep
  <2> DEFINE t == ClaimFinalizeLease(task[u], InstanceOf[w])
  <2>1. task[u] \in UploadTask /\ InstanceOf[w] \in Instances
    BY InstanceAssumption DEF TypeOK
  <2>2. t.status = "Finalizing"
    BY <2>1, TaskVersions
  <2>3. task' = [task EXCEPT ![u] = t] /\ UNCHANGED <<quota, file, content>>
    BY <1>1 DEF Claim
  <2>4. task[u].status \in {"InProgress", "Finalizing"}
    BY <1>1 DEF Claim, CanClaim
  <2> HIDE DEF t
  <2>5. CASE task[u].status = "Finalizing"
    BY <2>2, <2>3, <2>5, StatusKept
  <2>6. CASE task[u].status = "InProgress"
    <3>1. CloseStep(u)
      BY <2>2, <2>3, <2>6, RowWrittenAt DEF CloseStep, OthersKept
    <3> QED
      BY <3>1 DEF LedgerStep
  <2> QED
    BY <2>4, <2>5, <2>6
<1>2. CASE \/ LoadInputs(w) \/ AssembleBegin(w) \/ AssembleEnd(w) \/ Lookup(w)
          \/ PromoteBegin(w) \/ PromoteEnd(w) \/ DiscardAssembly(w) \/ Crash(w)
  BY <1>2 DEF LedgerStep, QuietStep, LoadInputs, AssembleBegin, AssembleEnd, Lookup, PromoteBegin,
              PromoteEnd, DiscardAssembly, Crash, dbVars
<1>3. ASSUME pc[w] # "idle", UNCHANGED <<quota, file, content>>,
             \/ UNCHANGED task
             \/ task' = [task EXCEPT ![up[w]] = RenewFinalizeLease(task[up[w]])]
             \/ task' = [task EXCEPT ![up[w]] = RecordFinalizeError(task[up[w]])]
      PROVE  LedgerStep
  <2>1. up[w] \in Uploads /\ task[up[w]] \in UploadTask
    BY <1>3 DEF TypeOK
  <2>2. /\ RenewFinalizeLease(task[up[w]]).status = task[up[w]].status
        /\ RecordFinalizeError(task[up[w]]).status = task[up[w]].status
    BY <2>1, TaskVersions
  <2>3. CASE UNCHANGED task
    BY <1>3, <2>3 DEF LedgerStep, QuietStep
  <2> QED
    BY <1>3, <2>1, <2>2, <2>3, StatusKept
<1>4. CASE RenewAfterAssembly(w) \/ RecordFinalizeErrorBestEffort(w) \/ RenewBeforeTransaction(w)
  BY <1>3, <1>4 DEF RenewAfterAssembly, RecordFinalizeErrorBestEffort, RenewBeforeTransaction,
                    RenewLease, RenewFails
<1>5. CASE FinalizeTransaction(w)
  <2> DEFINE u == up[w]
             n == RenewFinalizeLease(task[u])
             t == MarkCompleted(n)
  <2>1. u \in Uploads /\ task[u] \in UploadTask
    BY <1>5 DEF FinalizeTransaction, TypeOK
  <2>2. n \in UploadTask
    BY <2>1, TaskRows
  <2>3. t.status = "Completed"
    BY <2>2, TaskVersions
  <2>4. CASE UNCHANGED dbVars
    BY <2>4 DEF LedgerStep, QuietStep, dbVars
  <2>5. CASE ~UNCHANGED dbVars
    <3>1. /\ Owned(w) /\ HasReserved(quota[OwnerOf[u]], Bytes(u)) /\ AcquireReference(ContentOf[u])
          /\ file' = [file EXCEPT ![u] = "active"]
          /\ quota' = [quota EXCEPT ![OwnerOf[u]] = CommitReservedToUsed(@, Bytes(u))]
          /\ task' = [task EXCEPT ![u] = t]
      BY <1>5, <2>5 DEF FinalizeTransaction
    <3>2. task[u].status = "Finalizing"
      BY <3>1 DEF Owned, LeaseOwned
    <3> HIDE DEF t
    <3>3. task'[u].status = "Completed" /\ OthersKept(u) /\ file'[u] = "active"
      BY <2>1, <2>3, <3>1, RowWrittenAt DEF OthersKept, TypeOK
    <3>4. StoreStep(u)
      BY <3>1, <3>2, <3>3 DEF StoreStep
    <3> QED
      BY <2>1, <3>4 DEF LedgerStep
  <2> QED
    BY <2>4, <2>5
<1> QED
  BY <1>1, <1>2, <1>4, <1>5 DEF WorkerStep

\* Every step of the upload services is one step of the ledger or none.
LEMMA StepsAreLedgerSteps ==
    ASSUME TypeOK, LeaseFencing, InitsFresh, [Next]_vars
    PROVE  LedgerStep
<1>1. CASE UNCHANGED vars
  BY <1>1 DEF LedgerStep, QuietStep, vars, dbVars
<1>2. ASSUME NEW q \in chunkReqs, ChunkStep(q) PROVE LedgerStep
  BY <1>2 DEF LedgerStep, QuietStep, ChunkStep, WriteChunk, RecordChunk, ChunkRequestEnds, dbVars
<1> QED
  BY <1>1, <1>2, InitLedgerStep, UploadLedgerStep, WorkerLedgerStep DEF Next

-----------------------------------------------------------------------------
(* The sums of the ledger.                                                 *)

\* The uploads whose bytes a user has reserved, and those charged to it.
Reserving(x) == {u \in Uploads : OwnerOf[u] = x /\ IsActive(task[u])}
Charged(x)   == {u \in Uploads : OwnerOf[u] = x /\ file[u] \in {"active", "trash"}}

Balanced(x) ==
    quota[x].reserved = SumBytes(Reserving(x)) /\ quota[x].used = SumBytes(Charged(x))

\* An upload more or less in a sum of declared sizes.
LEMMA SumBytesChange ==
    ASSUME NEW S \in SUBSET Uploads, NEW u \in Uploads
    PROVE  /\ SumBytes(S) \in Nat
           /\ u \notin S => SumBytes(S \cup {u}) = SumBytes(S) + Bytes(u)
           /\ u \in S => SumBytes(S) = SumBytes(S \ {u}) + Bytes(u)
           /\ SumBytes(S \ {u}) \in Nat /\ Bytes(u) \in Nat
<1> DEFINE W == [v \in Uploads |-> Bytes(v)]
<1>1. W \in [Uploads -> Nat] /\ W[u] = Bytes(u) /\ Bytes(u) \in Nat
  BY BytesNat
<1>2. IsFiniteSet(S) /\ IsFiniteSet(S \ {u}) /\ S \ {u} \in SUBSET Uploads
  BY UploadsAssumption, FS_Subset
<1>3. SumBytes(S) = Total(W, S) /\ SumBytes(S \ {u}) = Total(W, S \ {u})
      /\ SumBytes(S \cup {u}) = Total(W, S \cup {u})
  BY DEF SumBytes
<1> HIDE DEF W
<1>4. Total(W, S) \in Nat /\ Total(W, S \ {u}) \in Nat
  BY <1>1, <1>2, TotalNat
<1>5. u \notin S => Total(W, S \cup {u}) = W[u] + Total(W, S)
  BY <1>1, <1>2, TotalAdd
<1>6. u \in S => Total(W, S) = W[u] + Total(W, S \ {u})
  BY <1>1, <1>2, TotalRemove
<1> QED
  BY <1>1, <1>3, <1>4, <1>5, <1>6

\* What each UPDATE of the storage columns does to the three columns.
LEMMA QuotaColumns ==
    ASSUME NEW q \in QuotaRow, NEW b \in Nat
    PROVE  /\ q.quota \in Nat /\ q.used \in Nat /\ q.reserved \in Nat
           /\ ReserveStorage(q, b).quota = q.quota
           /\ ReserveStorage(q, b).used = q.used
           /\ ReserveStorage(q, b).reserved = q.reserved + b
           /\ ConsumeUsedStorage(q, b).quota = q.quota
           /\ ConsumeUsedStorage(q, b).used = q.used + b
           /\ ConsumeUsedStorage(q, b).reserved = q.reserved
           /\ ReleaseReservedStorage(q, b).quota = q.quota
           /\ ReleaseReservedStorage(q, b).used = q.used
           /\ ReleaseReservedStorage(q, b).reserved = q.reserved - b
           /\ CommitReservedToUsed(q, b).quota = q.quota
           /\ CommitReservedToUsed(q, b).used = q.used + b
           /\ CommitReservedToUsed(q, b).reserved = q.reserved - b
BY DEF QuotaRow, ReserveStorage, ConsumeUsedStorage, ReleaseReservedStorage, CommitReservedToUsed

\* A step that touches one upload touches the sums of its owner by it alone.
LEMMA SetsOfOwner ==
    ASSUME NEW u \in Uploads, OthersKept(u), NEW x \in Users
    PROVE  /\ OwnerOf[u] # x => Reserving(x)' = Reserving(x) /\ Charged(x)' = Charged(x)
           /\ OwnerOf[u] = x =>
                /\ Reserving(x)' = IF IsActive(task'[u]) THEN Reserving(x) \cup {u}
                                                         ELSE Reserving(x) \ {u}
                /\ Charged(x)' = IF file'[u] \in {"active", "trash"} THEN Charged(x) \cup {u}
                                                                   ELSE Charged(x) \ {u}
                /\ u \in Reserving(x) <=> IsActive(task[u])
                /\ u \in Charged(x) <=> file[u] \in {"active", "trash"}
BY DEF OthersKept, Reserving, Charged, IsActive

\* A row of users that is overwritten: the rows of the others stay.
LEMMA QuotaWrittenAt ==
    ASSUME TypeOK, NEW y \in Users, NEW q, quota' = [quota EXCEPT ![y] = q]
    PROVE  quota'[y] = q /\ \A x \in Users : x # y => quota'[x] = quota[x]
BY DEF TypeOK

\* Opening, taking, dropping, closing and storing an upload move its bytes in
\* the columns of its owner as they move it between the two sets.
LEMMA BalanceKept ==
    ASSUME TypeOK, LedgerStep, \A x \in Users : Balanced(x),
           \A u \in Uploads : task[u].status # "None" =>
               (file[u] # "none" <=> task[u].status = "Completed"),
           \A u \in Uploads : file[u] \in {"none", "active"},
           NEW x \in Users
    PROVE  Balanced(x)' /\ quota'[x].quota = quota[x].quota
<1>1. CASE QuietStep
  <2>1. Reserving(x)' = Reserving(x) /\ Charged(x)' = Charged(x) /\ quota' = quota
    BY <1>1 DEF QuietStep, Reserving, Charged, IsActive
  <2> QED
    BY <2>1 DEF Balanced
<1>2. ASSUME NEW u \in Uploads, OthersKept(u),
             OpenStep(u) \/ TakeStep(u) \/ DropStep(u) \/ CloseStep(u) \/ StoreStep(u)
      PROVE  Balanced(x)' /\ quota'[x].quota = quota[x].quota
  <2> DEFINE y == OwnerOf[u]
             b == Bytes(u)
             q == quota[y]
  <2>1. y \in Users /\ b \in Nat /\ q \in QuotaRow
    BY BytesNat DEF TypeOK
  <2>2. \/ quota' = quota
        \/ \E r : quota' = [quota EXCEPT ![y] = r]
    BY <1>2 DEF OpenStep, TakeStep, DropStep, CloseStep, StoreStep
  <2>3. CASE x # y
    <3>1. quota'[x] = quota[x]
      BY <2>1, <2>2, <2>3, QuotaWrittenAt
    <3>2. Reserving(x)' = Reserving(x) /\ Charged(x)' = Charged(x)
      BY <1>2, <2>3, SetsOfOwner
    <3> QED
      BY <3>1, <3>2 DEF Balanced
  <2>4. CASE x = y
    <3> DEFINE R == Reserving(x)
               C == Charged(x)
    <3>0. R \in SUBSET Uploads /\ C \in SUBSET Uploads
      BY DEF Reserving, Charged
    <3>1. /\ Reserving(x)' = IF IsActive(task'[u]) THEN R \cup {u} ELSE R \ {u}
          /\ Charged(x)' = IF file'[u] \in {"active", "trash"} THEN C \cup {u} ELSE C \ {u}
          /\ u \in R <=> IsActive(task[u])
          /\ u \in C <=> file[u] \in {"active", "trash"}
      BY <1>2, <2>4, SetsOfOwner
    <3>2. q.reserved = SumBytes(R) /\ q.used = SumBytes(C)
      BY <2>4 DEF Balanced
    <3> HIDE DEF R, C, b
    <3>3. /\ SumBytes(R) \in Nat /\ SumBytes(C) \in Nat
          /\ u \notin R => SumBytes(R \cup {u}) = SumBytes(R) + b
          /\ u \in R => SumBytes(R \ {u}) = SumBytes(R) - b
          /\ u \notin C => SumBytes(C \cup {u}) = SumBytes(C) + b
          /\ u \in R => R \cup {u} = R
          /\ u \notin R => R \ {u} = R
          /\ u \notin C => C \ {u} = C
          /\ u \in C => C \cup {u} = C
      <4>1. /\ SumBytes(R) \in Nat /\ SumBytes(R \ {u}) \in Nat /\ b \in Nat
            /\ u \notin R => SumBytes(R \cup {u}) = SumBytes(R) + b
            /\ u \in R => SumBytes(R) = SumBytes(R \ {u}) + b
        BY <3>0, SumBytesChange DEF b
      <4>2. /\ SumBytes(C) \in Nat
            /\ u \notin C => SumBytes(C \cup {u}) = SumBytes(C) + b
        BY <3>0, SumBytesChange DEF b
      <4>3. /\ u \in R => R \cup {u} = R
            /\ u \notin R => R \ {u} = R
            /\ u \notin C => C \ {u} = C
            /\ u \in C => C \cup {u} = C
        OBVIOUS
      <4>4. u \in R => SumBytes(R \ {u}) = SumBytes(R) - b
        BY <4>1
      <4> QED
        BY <4>1, <4>2, <4>3, <4>4
    <3>4. SUFFICES /\ quota'[x].reserved = SumBytes(Reserving(x)')
                   /\ quota'[x].used = SumBytes(Charged(x)')
                   /\ quota'[x].quota = q.quota
      BY <2>4 DEF Balanced
    <3>5. CASE OpenStep(u)
      <4>1. u \notin R /\ u \notin C /\ Reserving(x)' = R \cup {u} /\ Charged(x)' = C
        BY <3>1, <3>3, <3>5 DEF OpenStep, IsActive, ActiveStatus
      <4>2. quota'[x] = ReserveStorage(q, b)
        BY <2>1, <2>4, <3>5 DEF OpenStep, b, TypeOK
      <4> QED
        BY <2>1, <3>2, <3>3, <4>1, <4>2, QuotaColumns
    <3>6. CASE TakeStep(u)
      <4>1. u \notin R /\ u \notin C /\ Reserving(x)' = R /\ Charged(x)' = C \cup {u}
        BY <3>1, <3>3, <3>6 DEF TakeStep, IsActive, ActiveStatus
      <4>2. quota'[x] = ConsumeUsedStorage(q, b)
        BY <2>1, <2>4, <3>6 DEF TakeStep, b, TypeOK
      <4> QED
        BY <2>1, <3>2, <3>3, <4>1, <4>2, QuotaColumns
    <3>7. CASE DropStep(u)
      <4>1. file[u] = "none"
        BY <3>7 DEF DropStep
      <4>2. u \in R /\ u \notin C /\ Reserving(x)' = R \ {u} /\ Charged(x)' = C
        BY <3>1, <3>3, <3>7, <4>1 DEF DropStep, IsActive, ActiveStatus
      <4>3. quota'[x] = ReleaseReservedStorage(q, b)
        BY <2>1, <2>4, <3>7 DEF DropStep, b, TypeOK
      <4> QED
        BY <2>1, <3>2, <3>3, <4>2, <4>3, QuotaColumns
    <3>8. CASE CloseStep(u)
      <4>1. file[u] = "none"
        BY <3>8 DEF CloseStep
      <4>2. Reserving(x)' = R /\ Charged(x)' = C /\ quota'[x] = q
        BY <2>4, <3>1, <3>3, <3>8, <4>1 DEF CloseStep, IsActive, ActiveStatus
      <4> QED
        BY <3>2, <4>2
    <3>9. CASE StoreStep(u)
      <4>1. file[u] = "none"
        BY <3>9 DEF StoreStep
      <4>2. u \in R /\ u \notin C /\ Reserving(x)' = R \ {u} /\ Charged(x)' = C \cup {u}
        BY <3>1, <3>3, <3>9, <4>1 DEF StoreStep, IsActive, ActiveStatus
      <4>3. quota'[x] = CommitReservedToUsed(q, b)
        BY <2>1, <2>4, <3>9 DEF StoreStep, b, TypeOK
      <4> QED
        BY <2>1, <3>2, <3>3, <4>2, <4>3, QuotaColumns
    <3> QED
      BY <1>2, <3>5, <3>6, <3>7, <3>8, <3>9
  <2> QED
    BY <2>3, <2>4
<1>3. CASE \E u \in Uploads : OpenStep(u) \/ TakeStep(u) \/ DropStep(u) \/ CloseStep(u) \/ StoreStep(u)
  <2>1. PICK u \in Uploads : OpenStep(u) \/ TakeStep(u) \/ DropStep(u) \/ CloseStep(u) \/ StoreStep(u)
    BY <1>3
  <2>2. OthersKept(u)
    BY <2>1 DEF OpenStep, TakeStep, DropStep, CloseStep, StoreStep
  <2> QED
    BY <1>2, <2>1, <2>2
<1> QED
  BY <1>1, <1>3 DEF LedgerStep

\* InitializeUpload decides on a name and an id nobody else stores under, and
\* nobody else gives an undecided upload its file.
LEMMA InitsFreshKept ==
    ASSUME TypeOK, LeaseFencing, InitsFresh, [Next]_vars
    PROVE  InitsFresh'
<1>1. ASSUME UNCHANGED file, inits' \subseteq inits PROVE InitsFresh'
  BY <1>1 DEF InitsFresh
<1>2. CASE UNCHANGED vars
  BY <1>1, <1>2 DEF vars, dbVars, requestVars
<1>3. ASSUME NEW u \in Uploads, UploadStep(u) PROVE InitsFresh'
  <2>1. CASE InitRead(u)
    <3> DEFINE c == ContentOf[u]
               plan == DecideInitFlow(content[c].id # 0, ActiveByUserAndHash(u))
    <3>1. PICK v : inits' = inits \cup {[up |-> u, plan |-> plan, seen |-> content[c].id, found |-> v]}
      BY <2>1 DEF InitRead
    <3>2. file[u] = "none" /\ UNCHANGED file
      BY <2>1 DEF InitRead, dbVars
    <3>3. plan = "instant" => content[c].id # 0
      BY DEF DecideInitFlow
    <3> HIDE DEF plan, c
    <3> QED
      BY <3>1, <3>2, <3>3 DEF InitsFresh
  <2>2. CASE ~InitRead(u)
    BY <1>1, <1>3, <2>2
    DEF UploadStep, LoadChunkTask, EvictUploadTask, CancelInProgressUpload, ExpireUpload,
        ExpireInProgressUpload, AdminReleaseLease, RebuildUploadCleanup, CleanupSession,
        LeaseRunsOut, TaskTimesOut, dbVars, requestVars
  <2> QED
    BY <2>1, <2>2
<1>4. ASSUME NEW r \in inits, InitStep(r) PROVE InitsFresh'
  <2>1. CASE InitInstant(r)
    <3>1. \A s \in inits' : s \in inits /\ s.up # r.up /\ s.up \in Uploads
      BY <2>1 DEF InitInstant, LeaseFencing, TypeOK, InitRequest
    <3>2. file' = [file EXCEPT ![r.up] = "active"]
      BY <2>1 DEF InitInstant
    <3> QED
      BY <3>1, <3>2 DEF InitsFresh, TypeOK
  <2>2. CASE InitResume(r)
    <3>1. UNCHANGED file
      BY <2>2 DEF InitResume, ExpireInProgressUpload, dbVars
    <3>2. inits' = inits \ {r} \/ inits' = (inits \ {r}) \cup {[r EXCEPT !.plan = "new"]}
      BY <2>2 DEF InitResume
    <3>3. [r EXCEPT !.plan = "new"].up = r.up /\ [r EXCEPT !.plan = "new"].plan = "new"
      BY DEF TypeOK, InitRequest
    <3> QED
      BY <3>1, <3>2, <3>3 DEF InitsFresh
  <2>3. CASE InitNew(r) \/ InitEnds(r)
    BY <1>1, <2>3 DEF InitNew, InitEnds, dbVars
  <2> QED
    BY <1>4, <2>1, <2>2, <2>3 DEF InitStep
<1>5. ASSUME NEW q \in chunkReqs, ChunkStep(q) PROVE InitsFresh'
  BY <1>1, <1>5 DEF ChunkStep, WriteChunk, RecordChunk, ChunkRequestEnds, dbVars
<1>6. ASSUME NEW w \in Workers, WorkerStep(w) PROVE InitsFresh'
  <2>1. CASE FinalizeTransaction(w)
    <3>1. UNCHANGED inits
      BY <2>1 DEF FinalizeTransaction, requestVars
    <3>2. CASE UNCHANGED dbVars
      BY <1>1, <3>1, <3>2 DEF dbVars
    <3>3. CASE ~UNCHANGED dbVars
      <4>1. Owned(w) /\ file' = [file EXCEPT ![up[w]] = "active"]
        BY <2>1, <3>3 DEF FinalizeTransaction
      <4>2. \A r \in inits : r.up # up[w] /\ r.up \in Uploads
        BY <4>1 DEF Owned, LeaseOwned, LeaseFencing, TypeOK, InitRequest
      <4> QED
        BY <3>1, <4>1, <4>2 DEF InitsFresh, TypeOK
    <3> QED
      BY <3>2, <3>3
  <2>2. CASE ~FinalizeTransaction(w)
    BY <1>1, <1>6, <2>2
    DEF WorkerStep, Claim, LoadInputs, AssembleBegin, AssembleEnd, RenewAfterAssembly,
        DiscardAssembly, RecordFinalizeErrorBestEffort, Lookup, PromoteBegin, PromoteEnd,
        RenewBeforeTransaction, Crash, dbVars, requestVars
  <2> QED
    BY <2>1, <2>2
<1> QED
  BY <1>2, <1>3, <1>4, <1>5, <1>6 DEF Next

\* The content row of a new reference, and of the first one.
LEMMA ContentRows ==
    ASSUME TypeOK, NEW u \in Uploads, TakeStep(u) \/ StoreStep(u),
           \A c \in Contents : content[c].id = 0 <=> content[c].refs = 0
    PROVE  /\ content'[ContentOf[u]].refs = content[ContentOf[u]].refs + 1
           /\ \A c \in Contents : c # ContentOf[u] => content'[c] = content[c]
           /\ \A c \in Contents : content'[c].id = 0 <=> content'[c].refs = 0
<1> DEFINE c == ContentOf[u]
           r == content[c]
<1>1. c \in Contents /\ r \in ContentRow /\ content \in [Contents -> ContentRow]
  BY BytesNat DEF TypeOK
<1>2. r.refs \in Nat /\ r.id \in Nat /\ r.made \in Nat
  BY <1>1 DEF ContentRow
<1>3. CASE r.id # 0
  <2>1. content' = [content EXCEPT ![c].refs = @ + 1]
    BY <1>3 DEF TakeStep, StoreStep, AcquireReference
  <2>2. content' = [content EXCEPT ![c] = [r EXCEPT !.refs = @ + 1]]
    BY <1>1, <2>1
  <2>3. [r EXCEPT !.refs = @ + 1].refs = r.refs + 1 /\ [r EXCEPT !.refs = @ + 1].id = r.id
    BY <1>1 DEF ContentRow
  <2> QED
    BY <1>1, <1>2, <1>3, <2>2, <2>3
<1>4. CASE r.id = 0
  <2>1. content' = [content EXCEPT ![c] = [id |-> r.made + 1, refs |-> 1, made |-> r.made + 1]]
    BY <1>1, <1>4 DEF TakeStep, StoreStep, AcquireReference
  <2>2. r.refs = 0
    BY <1>1, <1>4
  <2> QED
    BY <1>1, <1>2, <2>1, <2>2
<1> QED
  BY <1>3, <1>4

\* The ledger's invariant is kept by every step.
LEMMA LedgerInvStep ==
    ASSUME TypeOK, LeaseFencing, LedgerInv, [Next]_vars
    PROVE  LedgerInv'
<1>1. LedgerStep
  BY StepsAreLedgerSteps DEF LedgerInv
<1>2. InitsFresh'
  BY InitsFreshKept DEF LedgerInv
<1>3. LedgerBalanced' /\ \A x \in Users : quota'[x].quota = QuotaOf[x]
  <2>1. \A x \in Users : Balanced(x)
    BY DEF LedgerInv, LedgerBalanced, Balanced, Reserving, Charged
  <2>2. \A x \in Users : Balanced(x)' /\ quota'[x].quota = quota[x].quota
    BY <1>1, <2>1, BalanceKept DEF LedgerInv
  <2>3. \A x \in Users : quota'[x].quota = QuotaOf[x]
    BY <2>2 DEF LedgerInv
  <2>4. LedgerBalanced'
    BY <2>2 DEF LedgerBalanced, Balanced, Reserving, Charged
  <2> QED
    BY <2>3, <2>4
<1>4. CASE QuietStep
  <2>1. \A u \in Uploads : IsActive(task'[u]) <=> IsActive(task[u])
    BY <1>4 DEF QuietStep, IsActive
  <2>2. OneActivePerHash'
    BY <2>1 DEF LedgerInv, OneActivePerHash, SameUserAndHash
  <2> QED
    BY <1>2, <1>3, <1>4, <2>2 DEF LedgerInv, QuietStep
<1>5. ASSUME NEW u \in Uploads, OthersKept(u),
             OpenStep(u) \/ TakeStep(u) \/ DropStep(u) \/ CloseStep(u) \/ StoreStep(u)
      PROVE  LedgerInv'
  <2>1. /\ task'[u].status # "None" => (file'[u] # "none" <=> task'[u].status = "Completed")
        /\ file'[u] \in {"none", "active"}
    BY <1>5 DEF LedgerInv, OpenStep, TakeStep, DropStep, CloseStep, StoreStep
  <2>2. \A v \in Uploads :
          /\ task'[v].status # "None" => (file'[v] # "none" <=> task'[v].status = "Completed")
          /\ file'[v] \in {"none", "active"}
    BY <1>5, <2>1 DEF LedgerInv, OthersKept
  <2>3. \A v \in Uploads : v # u => (IsActive(task'[v]) <=> IsActive(task[v]))
    BY <1>5 DEF OthersKept, IsActive
  <2>4. IsActive(task'[u]) => IsActive(task[u]) \/ ActiveByUserAndHash(u) = {}
    BY <1>5 DEF OpenStep, TakeStep, DropStep, CloseStep, StoreStep, IsActive, ActiveStatus
  <2>5. OneActivePerHash'
    BY <2>3, <2>4 DEF LedgerInv, OneActivePerHash, SameUserAndHash, ActiveByUserAndHash
  <2>6. \A c \in Contents : content'[c].id = 0 <=> content'[c].refs = 0
    <3>1. CASE TakeStep(u) \/ StoreStep(u)
      BY <3>1, ContentRows DEF LedgerInv
    <3>2. CASE UNCHANGED content
      BY <3>2 DEF LedgerInv
    <3> QED
      BY <1>5, <3>1, <3>2 DEF OpenStep, DropStep, CloseStep
  <2> QED
    BY <1>2, <1>3, <2>2, <2>5, <2>6 DEF LedgerInv
<1> QED
  BY <1>1, <1>4, <1>5 DEF LedgerStep, OpenStep, TakeStep, DropStep, CloseStep, StoreStep

\* The empty database is balanced.
LEMMA InitLedgerInv == Init => LedgerInv
<1> SUFFICES ASSUME Init PROVE LedgerInv
  OBVIOUS
<1>1. \A u \in Uploads : task[u].status = "None" /\ ~IsActive(task[u]) /\ file[u] = "none"
  BY DEF Init, NoTask, IsActive, ActiveStatus
<1>2. \A x \in Users : Reserving(x) = {} /\ Charged(x) = {}
  BY <1>1 DEF Reserving, Charged
<1>3. SumBytes({}) = 0
  <2> DEFINE W == [u \in Uploads |-> Bytes(u)]
  <2>1. W \in [Uploads -> Nat]
    BY BytesNat
  <2> HIDE DEF W
  <2>2. Total(W, {}) = 0
    BY <2>1, TotalEmpty
  <2> QED
    BY <2>2 DEF SumBytes, W
<1>4. \A x \in Users : quota[x].quota = QuotaOf[x] /\ quota[x].used = 0 /\ quota[x].reserved = 0
  BY DEF Init
<1>5. LedgerBalanced
  BY <1>2, <1>3, <1>4 DEF LedgerBalanced, Reserving, Charged
<1>6. InitsFresh /\ OneActivePerHash
  BY <1>1 DEF Init, InitsFresh, OneActivePerHash
<1>7. \A c \in Contents : content[c].id = 0 <=> content[c].refs = 0
  BY DEF Init
<1> QED
  BY <1>1, <1>4, <1>5, <1>6, <1>7 DEF LedgerInv

\* The ledger's invariant holds of every reachable state of the upload services.
LEMMA LedgerInvHolds == Spec => []LedgerInv
<1>1. TypeOK /\ LeaseFencing /\ LedgerInv /\ [Next]_vars => LedgerInv'
  BY LedgerInvStep
<1> QED
  BY <1>1, InitLedgerInv, TypeCorrect, LeaseFencingHolds, PTL DEF Spec

\* Of every user, after any sequence of init, chunk, complete, cancel and expire
\* requests, takeovers and crashes, the reserved bytes are those of the active
\* uploads and the used bytes those of the files (the UPDATEs of QuotaService
\* and the transactions of UploadLifecycleService).
THEOREM LedgerBalancedHolds == Spec => []LedgerBalanced
<1>1. LedgerInv => LedgerBalanced
  BY DEF LedgerInv
<1> QED
  BY <1>1, LedgerInvHolds, PTL

\* CreateOrResume under the advisory lock: one active upload per user and hash.
THEOREM OneActivePerHashHolds == Spec => []OneActivePerHash
<1>1. LedgerInv => OneActivePerHash
  BY DEF LedgerInv
<1> QED
  BY <1>1, LedgerInvHolds, PTL

-----------------------------------------------------------------------------
(* Refinement: UploadLifecycle implements UploadLedger.                    *)

\* The phases of the other uploads stay, and that of u is read off its rows.
LEMMA PhaseWritten ==
    ASSUME NEW u \in Uploads, OthersKept(u), NEW p, PhaseOf(task'[u].status, file'[u]) = p
    PROVE  phaseBar' = [phaseBar EXCEPT ![u] = p]
<1>1. \A v \in Uploads : phaseBar'[v] = PhaseOf(task'[v].status, file'[v])
  BY DEF phaseBar
<1>2. \A v \in Uploads : phaseBar[v] = PhaseOf(task[v].status, file[v])
  BY DEF phaseBar
<1>3. \A v \in Uploads : v # u => phaseBar'[v] = phaseBar[v]
  BY <1>1, <1>2 DEF OthersKept
<1>4. phaseBar'[u] = p
  BY <1>1
<1>5. phaseBar = [v \in Uploads |-> phaseBar[v]] /\ phaseBar' = [v \in Uploads |-> phaseBar'[v]]
  BY DEF phaseBar
<1> QED
  BY <1>3, <1>4, <1>5

\* The three columns of the ledger as an UPDATE of one users row leaves them.
LEMMA ColumnsWritten ==
    ASSUME TypeOK, NEW y \in Users, NEW q, quota' = [quota EXCEPT ![y] = q]
    PROVE  /\ reservedBar' = [reservedBar EXCEPT ![y] = q.reserved]
           /\ usedBar' = [usedBar EXCEPT ![y] = q.used]
<1>1. quota'[y] = q /\ \A x \in Users : x # y => quota'[x] = quota[x]
  BY QuotaWrittenAt
<1>2. \A x \in Users : reservedBar'[x] = quota'[x].reserved /\ usedBar'[x] = quota'[x].used
  BY DEF reservedBar, usedBar
<1>3. \A x \in Users : reservedBar[x] = quota[x].reserved /\ usedBar[x] = quota[x].used
  BY DEF reservedBar, usedBar
<1>4. /\ reservedBar' = [x \in Users |-> reservedBar'[x]] /\ usedBar' = [x \in Users |-> usedBar'[x]]
      /\ reservedBar = [x \in Users |-> reservedBar[x]] /\ usedBar = [x \in Users |-> usedBar[x]]
  BY DEF reservedBar, usedBar
<1>5. \A x \in Users : reservedBar'[x] = IF x = y THEN q.reserved ELSE reservedBar[x]
  BY <1>1, <1>2, <1>3
<1>6. \A x \in Users : usedBar'[x] = IF x = y THEN q.used ELSE usedBar[x]
  BY <1>1, <1>2, <1>3
<1> QED
  BY <1>4, <1>5, <1>6

\* The columns before the UPDATE.
LEMMA ColumnsRead ==
    ASSUME NEW y \in Users
    PROVE  reservedBar[y] = quota[y].reserved /\ usedBar[y] = quota[y].used
BY DEF reservedBar, usedBar

\* A reference more on one content row.
LEMMA RefsWritten ==
    ASSUME TypeOK, LedgerInv, NEW u \in Uploads, TakeStep(u) \/ StoreStep(u)
    PROVE  refsBar' = [refsBar EXCEPT ![ContentOf[u]] = @ + 1]
<1>1. /\ content'[ContentOf[u]].refs = content[ContentOf[u]].refs + 1
      /\ \A c \in Contents : c # ContentOf[u] => content'[c] = content[c]
  BY ContentRows DEF LedgerInv
<1>2. ContentOf[u] \in Contents
  BY BytesNat
<1> QED
  BY <1>1, <1>2 DEF refsBar

\* Every step of the upload services is a step of the ledger or a stutter.
LEMMA LedgerStepRefines ==
    ASSUME TypeOK, LedgerInv, LedgerStep
    PROVE  [Ledger!LedgerNext]_(Ledger!ledgerVars)
<1>1. CASE QuietStep
  BY <1>1 DEF QuietStep, Ledger!ledgerVars, phaseBar, reservedBar, usedBar, refsBar
<1>2. ASSUME NEW u \in Uploads,
             OpenStep(u) \/ TakeStep(u) \/ DropStep(u) \/ CloseStep(u) \/ StoreStep(u)
      PROVE  Ledger!Open(u) \/ Ledger!Take(u) \/ Ledger!Drop(u) \/ Ledger!Close(u) \/ Ledger!Store(u)
  <2> DEFINE y == OwnerOf[u]
             b == Bytes(u)
             q == quota[y]
  <2>1. /\ y \in Users /\ b \in Nat /\ q \in QuotaRow /\ ContentOf[u] \in Contents
        /\ Ledger!UserOf(u) = y /\ Ledger!Weight(u) = b
    BY BytesNat DEF TypeOK, Ledger!UserOf, Ledger!Weight, Bytes
  <2>2. reservedBar[y] = q.reserved /\ usedBar[y] = q.used /\ q.quota = QuotaOf[y]
    BY <2>1, ColumnsRead DEF LedgerInv
  <2>3. phaseBar[u] = PhaseOf(task[u].status, file[u])
    BY DEF phaseBar
  <2>4. OthersKept(u)
    BY <1>2 DEF OpenStep, TakeStep, DropStep, CloseStep, StoreStep
  <2>5. /\ [reservedBar EXCEPT ![y] = q.reserved] = reservedBar
        /\ [usedBar EXCEPT ![y] = q.used] = usedBar
    BY <2>1 DEF reservedBar, usedBar
  <2> HIDE DEF y, b, q
  <2>6. CASE OpenStep(u)
    <3>1. phaseBar[u] = "none" /\ phaseBar' = [phaseBar EXCEPT ![u] = "open"]
      BY <2>3, <2>4, <2>6, PhaseWritten DEF OpenStep, PhaseOf
    <3>2. Ledger!Rivals(u) = {}
      <4>1. \A v \in Uploads : phaseBar[v] = PhaseOf(task[v].status, file[v])
        BY DEF phaseBar
      <4>2. \A v \in Uploads : phaseBar[v] \in Ledger!Pending => IsActive(task[v])
        BY <4>1 DEF PhaseOf, Ledger!Pending, IsActive, ActiveStatus
      <4> QED
        BY <2>6, <4>2 DEF Ledger!Rivals, OpenStep, ActiveByUserAndHash, SameUserAndHash
    <3>3. quota' = [quota EXCEPT ![y] = ReserveStorage(q, b)] /\ CanReserve(q, b) /\ UNCHANGED content
      BY <2>6 DEF OpenStep, y, q, b
    <3>4. /\ reservedBar' = [reservedBar EXCEPT ![y] = q.reserved + b]
          /\ usedBar' = [usedBar EXCEPT ![y] = q.used]
      <4>1. ReserveStorage(q, b).reserved = q.reserved + b /\ ReserveStorage(q, b).used = q.used
        BY <2>1, QuotaColumns
      <4>2. /\ reservedBar' = [reservedBar EXCEPT ![y] = ReserveStorage(q, b).reserved]
            /\ usedBar' = [usedBar EXCEPT ![y] = ReserveStorage(q, b).used]
        BY <2>1, <3>3, ColumnsWritten
      <4> QED
        BY <4>1, <4>2
    <3>5. refsBar' = refsBar
      BY <3>3 DEF refsBar
    <3>6. Ledger!Open(u)
      BY <2>1, <2>2, <2>5, <3>1, <3>2, <3>3, <3>4, <3>5 DEF Ledger!Open, CanReserve
    <3> QED
      BY <3>6
  <2>7. CASE TakeStep(u)
    <3>1. phaseBar[u] = "none" /\ phaseBar' = [phaseBar EXCEPT ![u] = "stored"]
      BY <2>3, <2>4, <2>7, PhaseWritten DEF TakeStep, PhaseOf
    <3>2. refsBar[ContentOf[u]] > 0
      <4>1. content[ContentOf[u]].refs \in Nat /\ content[ContentOf[u]].refs # 0
        BY <2>1, <2>7 DEF TakeStep, LedgerInv, TypeOK, ContentRow
      <4> QED
        BY <2>1, <4>1 DEF refsBar
    <3>3. quota' = [quota EXCEPT ![y] = ConsumeUsedStorage(q, b)] /\ CanConsume(q, b)
      BY <2>7 DEF TakeStep, y, q, b
    <3>4. /\ reservedBar' = [reservedBar EXCEPT ![y] = q.reserved]
          /\ usedBar' = [usedBar EXCEPT ![y] = q.used + b]
      <4>1. ConsumeUsedStorage(q, b).reserved = q.reserved /\ ConsumeUsedStorage(q, b).used = q.used + b
        BY <2>1, QuotaColumns
      <4>2. /\ reservedBar' = [reservedBar EXCEPT ![y] = ConsumeUsedStorage(q, b).reserved]
            /\ usedBar' = [usedBar EXCEPT ![y] = ConsumeUsedStorage(q, b).used]
        BY <2>1, <3>3, ColumnsWritten
      <4> QED
        BY <4>1, <4>2
    <3>5. refsBar' = [refsBar EXCEPT ![ContentOf[u]] = @ + 1]
      BY <2>7, RefsWritten
    <3>6. Ledger!Take(u)
      BY <2>1, <2>2, <2>5, <3>1, <3>2, <3>3, <3>4, <3>5 DEF Ledger!Take, CanConsume
    <3> QED
      BY <3>6
  <2>8. CASE DropStep(u)
    <3>1. phaseBar[u] = "open" /\ phaseBar' = [phaseBar EXCEPT ![u] = "dropped"]
      BY <2>3, <2>4, <2>8, PhaseWritten DEF DropStep, PhaseOf
    <3>2. quota' = [quota EXCEPT ![y] = ReleaseReservedStorage(q, b)] /\ HasReserved(q, b)
          /\ UNCHANGED content
      BY <2>8 DEF DropStep, y, q, b
    <3>3. /\ reservedBar' = [reservedBar EXCEPT ![y] = q.reserved - b]
          /\ usedBar' = [usedBar EXCEPT ![y] = q.used]
      <4>1. ReleaseReservedStorage(q, b).reserved = q.reserved - b /\ ReleaseReservedStorage(q, b).used = q.used
        BY <2>1, QuotaColumns
      <4>2. /\ reservedBar' = [reservedBar EXCEPT ![y] = ReleaseReservedStorage(q, b).reserved]
            /\ usedBar' = [usedBar EXCEPT ![y] = ReleaseReservedStorage(q, b).used]
        BY <2>1, <3>2, ColumnsWritten
      <4> QED
        BY <4>1, <4>2
    <3>4. refsBar' = refsBar
      BY <3>2 DEF refsBar
    <3>5. Ledger!Drop(u)
      BY <2>1, <2>2, <2>5, <3>1, <3>2, <3>3, <3>4 DEF Ledger!Drop, HasReserved
    <3> QED
      BY <3>5
  <2>9. CASE CloseStep(u)
    <3>1. phaseBar[u] = "open" /\ phaseBar' = [phaseBar EXCEPT ![u] = "closed"]
      BY <2>3, <2>4, <2>9, PhaseWritten DEF CloseStep, PhaseOf
    <3>2. UNCHANGED <<reservedBar, usedBar, refsBar>>
      BY <2>9 DEF CloseStep, reservedBar, usedBar, refsBar
    <3>3. Ledger!Close(u)
      BY <3>1, <3>2 DEF Ledger!Close
    <3> QED
      BY <3>3
  <2>10. CASE StoreStep(u)
    <3>1. phaseBar[u] = "closed" /\ phaseBar' = [phaseBar EXCEPT ![u] = "stored"]
      BY <2>3, <2>4, <2>10, PhaseWritten DEF StoreStep, PhaseOf
    <3>2. quota' = [quota EXCEPT ![y] = CommitReservedToUsed(q, b)] /\ HasReserved(q, b)
      BY <2>10 DEF StoreStep, y, q, b
    <3>3. /\ reservedBar' = [reservedBar EXCEPT ![y] = q.reserved - b]
          /\ usedBar' = [usedBar EXCEPT ![y] = q.used + b]
      <4>1. CommitReservedToUsed(q, b).reserved = q.reserved - b /\ CommitReservedToUsed(q, b).used = q.used + b
        BY <2>1, QuotaColumns
      <4>2. /\ reservedBar' = [reservedBar EXCEPT ![y] = CommitReservedToUsed(q, b).reserved]
            /\ usedBar' = [usedBar EXCEPT ![y] = CommitReservedToUsed(q, b).used]
        BY <2>1, <3>2, ColumnsWritten
      <4> QED
        BY <4>1, <4>2
    <3>4. refsBar' = [refsBar EXCEPT ![ContentOf[u]] = @ + 1]
      BY <2>10, RefsWritten
    <3>5. Ledger!Store(u)
      BY <2>1, <2>2, <3>1, <3>2, <3>3, <3>4 DEF Ledger!Store, HasReserved
    <3> QED
      BY <3>5
  <2> QED
    BY <1>2, <2>6, <2>7, <2>8, <2>9, <2>10
<1>3. CASE \E u \in Uploads : OpenStep(u) \/ TakeStep(u) \/ DropStep(u) \/ CloseStep(u) \/ StoreStep(u)
  <2>1. Ledger!LedgerNext
    BY <1>2, <1>3 DEF Ledger!LedgerNext
  <2> QED
    BY <2>1
<1> QED
  BY <1>1, <1>3 DEF LedgerStep

\* The empty database is the empty ledger.
LEMMA InitRefines == Init => Ledger!LedgerInit
<1> SUFFICES ASSUME Init PROVE Ledger!LedgerInit
  OBVIOUS
<1>1. \A u \in Uploads : PhaseOf(task[u].status, file[u]) = "none"
  BY DEF Init, NoTask, PhaseOf
<1>2. phaseBar = [u \in Uploads |-> "none"]
  BY <1>1 DEF phaseBar
<1>3. reservedBar = [x \in Users |-> 0] /\ usedBar = [x \in Users |-> 0]
  BY DEF Init, reservedBar, usedBar
<1>4. refsBar = [c \in Contents |-> 0]
  BY DEF Init, refsBar
<1> QED
  BY <1>2, <1>3, <1>4 DEF Ledger!LedgerInit

\* The upload services implement the ledger: reservation, charge, release and
\* reference happen once, with the decision about the upload that calls for
\* them, whatever requests race, are repeated or die.
THEOREM RefinesLedger == Spec => KeepsLedger
<1>1. TypeOK /\ LeaseFencing /\ LedgerInv /\ [Next]_vars => [Ledger!LedgerNext]_(Ledger!ledgerVars)
  <2> SUFFICES ASSUME TypeOK, LeaseFencing, LedgerInv, [Next]_vars
               PROVE  [Ledger!LedgerNext]_(Ledger!ledgerVars)
    OBVIOUS
  <2>1. LedgerStep
    BY StepsAreLedgerSteps DEF LedgerInv
  <2> QED
    BY <2>1, LedgerStepRefines
<1> QED
  BY <1>1, InitRefines, TypeCorrect, LeaseFencingHolds, LedgerInvHolds, PTL
  DEF Spec, KeepsLedger, Ledger!LedgerSpec

-----------------------------------------------------------------------------
(* Terminal rows and recorded errors.                                      *)

\* Nobody starts to hold an upload or changes the version it carries.
HoldersOnly ==
    \A x \in Workers, v \in Uploads : Holding(x, v)' => Holding(x, v) /\ ver'[x] = ver[x]

\* An UPDATE of the row of u: the row was not terminal, and the request that is
\* current after it has recorded no error.
RowWrite(u) ==
    /\ ~IsTerminalStatus(task[u])
    /\ \A v \in Uploads : v # u => task'[v] = task[v]
    /\ task'[u].live => task'[u].status = "Finalizing"
    /\ task'[u].status = "Completed" => ~task'[u].error
    /\ \A w \in Workers : Holding(w, u)' /\ ver'[w] = task'[u].version => ~task'[u].error
    /\ \A w \in Workers, v \in Uploads :
          v # u /\ Holding(w, v)' => Holding(w, v) /\ ver'[w] = ver[w]

TaskStep == (UNCHANGED task /\ HoldersOnly) \/ \E u \in Uploads : RowWrite(u)

\* What each UPDATE of upload_tasks does to the lease and the recorded error.
LEMMA TaskFlags ==
    ASSUME NEW t \in UploadTask
    PROVE  /\ \A o \in Instances : ClaimFinalizeLease(t, o).error = FALSE
           /\ RenewFinalizeLease(t).error = t.error
           /\ MarkCompleted(t).error = t.error /\ MarkCompleted(t).live = FALSE
           /\ RecordFinalizeError(t).live = t.live
           /\ ReleaseUploadLease(t).error = t.error /\ ReleaseUploadLease(t).live = FALSE
           /\ MarkCancelled(t).live = t.live
           /\ MarkExpired(t).live = t.live
           /\ [t EXCEPT !.live = FALSE].error = t.error /\ [t EXCEPT !.live = FALSE].live = FALSE
           /\ [t EXCEPT !.expired = TRUE].error = t.error /\ [t EXCEPT !.expired = TRUE].live = t.live
BY DEF UploadTask, ClaimFinalizeLease, RenewFinalizeLease, MarkCompleted,
       RecordFinalizeError, ReleaseUploadLease, MarkCancelled, MarkExpired

\* An UPDATE that advances state_version leaves nobody current.
LEMMA BumpsRow ==
    ASSUME TypeOK, LeaseFencing, HoldersOnly, NEW u \in Uploads, NEW t, task' = [task EXCEPT ![u] = t],
           ~IsTerminalStatus(task[u]), t.version = task[u].version + 1,
           t.live => t.status = "Finalizing", t.status = "Completed" => ~t.error
    PROVE  TaskStep
<1>1. task'[u] = t /\ \A v \in Uploads : v # u => task'[v] = task[v]
  BY RowWrittenAt
<1>2. task[u].version \in Nat /\ \A w \in Workers : ver[w] \in Nat
  BY DEF TypeOK, UploadTask
<1>3. \A w \in Workers : Holding(w, u)' => ver'[w] # task'[u].version
  BY <1>1, <1>2 DEF HoldersOnly, LeaseFencing
<1>4. RowWrite(u)
  BY <1>1, <1>3 DEF RowWrite, HoldersOnly
<1> QED
  BY <1>4 DEF TaskStep

\* An UPDATE that keeps state_version and the recorded error, or clears it.
LEMMA KeepsRow ==
    ASSUME TypeOK, LeaseInv, HoldersOnly, NEW u \in Uploads, NEW t, task' = [task EXCEPT ![u] = t],
           ~IsTerminalStatus(task[u]), t.version = task[u].version,
           t.live => t.status = "Finalizing", t.status # "Completed",
           t.error = task[u].error
    PROVE  TaskStep
<1>1. task'[u] = t /\ \A v \in Uploads : v # u => task'[v] = task[v]
  BY RowWrittenAt
<1>2. \A w \in Workers : Holding(w, u)' /\ ver'[w] = task'[u].version => ~task'[u].error
  BY <1>1 DEF HoldersOnly, LeaseInv
<1>3. RowWrite(u)
  BY <1>1, <1>2 DEF RowWrite, HoldersOnly
<1> QED
  BY <1>3 DEF TaskStep

\* Claim and the successful renewals: the request that becomes current finds no
\* error, or clears it.
LEMMA AcquiresRow ==
    ASSUME TypeOK, NEW w \in Workers, NEW u \in Uploads, NEW t, task' = [task EXCEPT ![u] = t],
           ~IsTerminalStatus(task[u]), t.status = "Finalizing", ~t.error,
           \A v \in Uploads : Holding(w, v)' => v = u,
           \A x \in Workers : x # w => pc'[x] = pc[x] /\ up'[x] = up[x] /\ ver'[x] = ver[x]
    PROVE  TaskStep
<1>1. task'[u] = t /\ \A v \in Uploads : v # u => task'[v] = task[v]
  BY RowWrittenAt
<1>2. \A x \in Workers, v \in Uploads : v # u /\ Holding(x, v)' => Holding(x, v) /\ ver'[x] = ver[x]
  BY DEF Holding
<1>3. RowWrite(u)
  BY <1>1, <1>2 DEF RowWrite
<1> QED
  BY <1>3 DEF TaskStep

\* Init requests, seen from the rows of upload_tasks.
LEMMA InitTaskStep ==
    ASSUME TypeOK, LeaseFencing, LeaseInv, NEW r \in inits, InitStep(r)
    PROVE  TaskStep
<1>1. HoldersOnly
  BY DEF InitStep, InitInstant, InitResume, InitNew, InitEnds, workerVars, HoldersOnly, Holding
<1>2. CASE InitNew(r)
  <2>1. r.up \in Uploads /\ task[r.up].status = "None" /\ task[r.up] \in UploadTask
    BY DEF TypeOK, InitRequest, LeaseFencing
  <2>2. task' = [task EXCEPT ![r.up] = CreatedTask]
    BY <1>2 DEF InitNew
  <2>3. CreatedTask.status = "InProgress" /\ ~CreatedTask.live /\ ~CreatedTask.error
    BY DEF CreatedTask, NoTask
  <2>4. ~IsTerminalStatus(task[r.up])
    BY <2>1 DEF IsTerminalStatus, TerminalStatus
  <2>5. task'[r.up] = CreatedTask /\ \A v \in Uploads : v # r.up => task'[v] = task[v]
    BY <2>1, <2>2, RowWrittenAt
  <2>6. RowWrite(r.up)
    BY <1>1, <2>1, <2>3, <2>4, <2>5 DEF RowWrite, HoldersOnly
  <2> QED
    BY <2>1, <2>6 DEF TaskStep
<1>3. CASE InitResume(r)
  <2>1. CASE ExpireInProgressUpload(r.found)
    <3> DEFINE u == r.found
               t == MarkExpired(task[u])
    <3>1. u \in Uploads /\ task[u] \in UploadTask
      BY <1>3 DEF InitResume, TypeOK
    <3>2. t.version = task[u].version + 1 /\ t.status = "Expired" /\ t.live = task[u].live
      BY <3>1, TaskVersions, TaskFlags
    <3> HIDE DEF t
    <3>3. task' = [task EXCEPT ![u] = t] /\ task[u].status = "InProgress"
      BY <2>1 DEF ExpireInProgressUpload, CanExpire, t
    <3>4. ~task[u].live /\ ~IsTerminalStatus(task[u])
      BY <3>1, <3>3 DEF LeaseInv, IsTerminalStatus, TerminalStatus
    <3> QED
      BY <1>1, <3>1, <3>2, <3>3, <3>4, BumpsRow
  <2>2. CASE UNCHANGED task
    BY <1>1, <2>2 DEF TaskStep
  <2> QED
    BY <1>3, <2>1, <2>2 DEF InitResume, dbVars
<1>4. CASE InitInstant(r) \/ InitEnds(r)
  BY <1>1, <1>4 DEF InitInstant, InitEnds, dbVars, TaskStep
<1> QED
  BY <1>2, <1>3, <1>4 DEF InitStep

\* Cancellation, expiry, operators, jobs and the clock, seen from the rows.
LEMMA UploadTaskStep ==
    ASSUME TypeOK, LeaseFencing, LeaseInv, NEW u \in Uploads, UploadStep(u)
    PROVE  TaskStep
<1>0. task[u] \in UploadTask
  BY DEF TypeOK
<1>1. HoldersOnly
  BY DEF UploadStep, InitRead, LoadChunkTask, EvictUploadTask, CancelInProgressUpload, ExpireUpload,
         AdminReleaseLease, RebuildUploadCleanup, CleanupSession, LeaseRunsOut, TaskTimesOut,
         workerVars, HoldersOnly, Holding
<1>2. CASE \/ InitRead(u) \/ (\E row \in ChunkRow : LoadChunkTask(u, row)) \/ EvictUploadTask(u)
          \/ RebuildUploadCleanup(u) \/ CleanupSession(u)
  BY <1>1, <1>2 DEF InitRead, LoadChunkTask, EvictUploadTask, RebuildUploadCleanup, CleanupSession,
                    dbVars, TaskStep
<1>3. CASE CancelInProgressUpload(u)
  <2> DEFINE t == MarkCancelled(task[u])
  <2>1. t.version = task[u].version + 1 /\ t.status = "Cancelled" /\ t.live = task[u].live
    BY <1>0, TaskVersions, TaskFlags
  <2> HIDE DEF t
  <2>2. task' = [task EXCEPT ![u] = t] /\ task[u].status = "InProgress"
    BY <1>3 DEF CancelInProgressUpload, CanCancel, t
  <2>3. ~task[u].live /\ ~IsTerminalStatus(task[u])
    BY <2>2 DEF LeaseInv, IsTerminalStatus, TerminalStatus
  <2> QED
    BY <1>1, <2>1, <2>2, <2>3, BumpsRow
<1>4. CASE ExpireUpload(u)
  <2> DEFINE t == MarkExpired(task[u])
  <2>1. t.version = task[u].version + 1 /\ t.status = "Expired" /\ t.live = task[u].live
    BY <1>0, TaskVersions, TaskFlags
  <2> HIDE DEF t
  <2>2. task' = [task EXCEPT ![u] = t] /\ task[u].status = "InProgress"
    BY <1>4 DEF ExpireUpload, ExpireInProgressUpload, CanExpire, t
  <2>3. ~task[u].live /\ ~IsTerminalStatus(task[u])
    BY <2>2 DEF LeaseInv, IsTerminalStatus, TerminalStatus
  <2> QED
    BY <1>1, <2>1, <2>2, <2>3, BumpsRow
<1>5. CASE AdminReleaseLease(u)
  <2> DEFINE t == ReleaseUploadLease(task[u])
  <2>1. t.version = task[u].version + 1 /\ t.status = task[u].status /\ t.live = FALSE
    BY <1>0, TaskVersions, TaskFlags
  <2> HIDE DEF t
  <2>2. task' = [task EXCEPT ![u] = t] /\ task[u].status = "Finalizing"
    BY <1>5 DEF AdminReleaseLease, t
  <2>3. ~IsTerminalStatus(task[u])
    BY <2>2 DEF IsTerminalStatus, TerminalStatus
  <2> QED
    BY <1>1, <2>1, <2>2, <2>3, BumpsRow
<1>6. CASE LeaseRunsOut(u)
  <2> DEFINE t == [task[u] EXCEPT !.live = FALSE]
  <2>1. /\ t.version = task[u].version /\ t.status = task[u].status /\ t.live = FALSE
        /\ t.error = task[u].error
    BY <1>0, TaskVersions, TaskFlags
  <2>2. task' = [task EXCEPT ![u] = t] /\ task[u].live
    BY <1>6 DEF LeaseRunsOut, TypeOK
  <2> HIDE DEF t
  <2>3. task[u].status = "Finalizing" /\ ~IsTerminalStatus(task[u])
    BY <2>2 DEF LeaseInv, IsTerminalStatus, TerminalStatus
  <2> QED
    BY <1>1, <2>1, <2>2, <2>3, KeepsRow
<1>7. CASE TaskTimesOut(u)
  <2> DEFINE t == [task[u] EXCEPT !.expired = TRUE]
  <2>1. /\ t.version = task[u].version /\ t.status = task[u].status /\ t.live = task[u].live
        /\ t.error = task[u].error
    BY <1>0, TaskVersions, TaskFlags
  <2>2. task' = [task EXCEPT ![u] = t] /\ task[u].status = "InProgress"
    BY <1>7 DEF TaskTimesOut, TypeOK
  <2> HIDE DEF t
  <2>3. ~task[u].live /\ ~IsTerminalStatus(task[u])
    BY <2>2 DEF LeaseInv, IsTerminalStatus, TerminalStatus
  <2> QED
    BY <1>1, <2>1, <2>2, <2>3, KeepsRow
<1> QED
  BY <1>2, <1>3, <1>4, <1>5, <1>6, <1>7 DEF UploadStep

\* A renewal, answered or not: its request was current, so the row has no error.
LEMMA RenewTaskStep ==
    ASSUME TypeOK, LeaseFencing, LeaseInv, NEW w \in Workers, pc[w] # "idle", NEW l, NEW a, NEW i,
           \/ RenewLease(w) /\ Goto(w, l)
           \/ RenewFails(w) /\ ((Goto(w, l) /\ UNCHANGED ver) \/ End(w, a, i))
    PROVE  TaskStep
<1>0. PICK u \in Uploads : u = up[w]
  BY DEF TypeOK
<1> DEFINE t == RenewFinalizeLease(task[u])
<1>1. task[u] \in UploadTask
  BY DEF TypeOK
<1>2. t.version = task[u].version + 1 /\ t.status = task[u].status /\ t.error = task[u].error
  BY <1>1, TaskVersions, TaskFlags
<1> HIDE DEF t
<1>3. Owned(w) => /\ task[u].status = "Finalizing" /\ ~IsTerminalStatus(task[u]) /\ ~task[u].error
  BY <1>0 DEF Owned, LeaseOwned, LeaseInv, Holding, IsTerminalStatus, TerminalStatus
<1>4. CASE RenewLease(w) /\ Goto(w, l)
  <2>1. /\ Owned(w) /\ task' = [task EXCEPT ![u] = t] /\ pc' = [pc EXCEPT ![w] = l] /\ up' = up
        /\ ver' = [ver EXCEPT ![w] = task'[u].version]
    BY <1>0, <1>4 DEF RenewLease, Goto, t
  <2>2. \A v \in Uploads : Holding(w, v)' => v = u
    BY <1>0, <2>1 DEF Holding
  <2>3. \A x \in Workers : x # w => pc'[x] = pc[x] /\ up'[x] = up[x] /\ ver'[x] = ver[x]
    BY <2>1 DEF TypeOK
  <2> QED
    BY <1>2, <1>3, <2>1, <2>2, <2>3, AcquiresRow
<1>5. CASE RenewFails(w) /\ ((Goto(w, l) /\ UNCHANGED ver) \/ End(w, a, i))
  <2>1. HoldersOnly
    BY <1>5, HoldersKept DEF HoldersOnly
  <2>2. CASE UNCHANGED task
    BY <2>1, <2>2 DEF TaskStep
  <2>3. CASE Owned(w) /\ task' = [task EXCEPT ![u] = t]
    BY <1>2, <1>3, <2>1, <2>3, BumpsRow
  <2> QED
    BY <1>0, <1>5, <2>2, <2>3 DEF RenewFails, t
<1> QED
  BY <1>4, <1>5

\* Completion requests, seen from the rows.
LEMMA WorkerTaskStep ==
    ASSUME TypeOK, LeaseFencing, LeaseInv, NEW w \in Workers, WorkerStep(w)
    PROVE  TaskStep
<1>1. ASSUME NEW u \in Uploads, Claim(w, u) PROVE TaskStep
  <2> DEFINE t == ClaimFinalizeLease(task[u], InstanceOf[w])
  <2>1. task[u] \in UploadTask /\ InstanceOf[w] \in Instances
    BY InstanceAssumption DEF TypeOK
  <2>2. t.status = "Finalizing" /\ t.error = FALSE
    BY <2>1, TaskVersions, TaskFlags
  <2> HIDE DEF t
  <2>3. task' = [task EXCEPT ![u] = t] /\ ~IsTerminalStatus(task[u])
    BY <1>1 DEF Claim, CanClaim, t, IsTerminalStatus, TerminalStatus
  <2>4. /\ pc' = [pc EXCEPT ![w] = "claimed"] /\ up' = [up EXCEPT ![w] = u]
        /\ ver' = [ver EXCEPT ![w] = task'[u].version]
    BY <1>1 DEF Claim
  <2>5. \A v \in Uploads : Holding(w, v)' => v = u
    BY <2>4 DEF TypeOK, Holding
  <2>6. \A x \in Workers : x # w => pc'[x] = pc[x] /\ up'[x] = up[x] /\ ver'[x] = ver[x]
    BY <2>4 DEF TypeOK
  <2> QED
    BY <2>2, <2>3, <2>5, <2>6, AcquiresRow
<1>2. CASE \/ LoadInputs(w) \/ AssembleBegin(w) \/ AssembleEnd(w) \/ Lookup(w)
          \/ PromoteBegin(w) \/ PromoteEnd(w)
  <2>1. pc[w] # "idle" /\ UNCHANGED <<task, ver>> /\ \E l : Goto(w, l)
    BY <1>2 DEF LoadInputs, AssembleBegin, AssembleEnd, Lookup, PromoteBegin, PromoteEnd, dbVars
  <2> QED
    BY <2>1, HoldersKept DEF TaskStep, HoldersOnly
<1>3. CASE DiscardAssembly(w)
  <2>1. /\ pc[w] # "idle" /\ UNCHANGED task
        /\ (\E l : Goto(w, l) /\ UNCHANGED ver) \/ (\E a, i : End(w, a, i))
    BY <1>3 DEF DiscardAssembly, dbVars
  <2> QED
    BY <2>1, HoldersKept DEF TaskStep, HoldersOnly
<1>4. CASE Crash(w)
  <2>1. pc[w] # "idle" /\ UNCHANGED task /\ End(w, asm, intact)
    BY <1>4 DEF Crash, dbVars
  <2> QED
    BY <2>1, HoldersKept DEF TaskStep, HoldersOnly
<1>5. CASE RecordFinalizeErrorBestEffort(w)
  <2>0. pc[w] # "idle" /\ End(w, asm, intact)
    BY <1>5 DEF RecordFinalizeErrorBestEffort
  <2>1. PICK u \in Uploads : u = up[w]
    BY <2>0 DEF TypeOK
  <2> DEFINE t == RecordFinalizeError(task[u])
  <2>2. task[u] \in UploadTask
    BY DEF TypeOK
  <2>3. t.version = task[u].version /\ t.status = task[u].status /\ t.live = task[u].live
    BY <2>2, TaskVersions, TaskFlags
  <2> HIDE DEF t
  <2>4. HoldersOnly
    BY <2>0, HoldersKept DEF HoldersOnly
  <2>5. CASE UNCHANGED task
    BY <2>4, <2>5 DEF TaskStep
  <2>6. CASE Owned(w) /\ task' = [task EXCEPT ![u] = t]
    <3>1. task[u].status = "Finalizing" /\ ver[w] = task[u].version /\ Holding(w, u)
      BY <2>0, <2>1, <2>6 DEF Owned, LeaseOwned, Holding
    <3>2. task'[u] = t /\ \A v \in Uploads : v # u => task'[v] = task[v]
      BY <2>6, RowWrittenAt
    <3>3. \A x \in Workers : Holding(x, u)' => ver'[x] # task'[u].version
      <4> SUFFICES ASSUME NEW x \in Workers, Holding(x, u)', ver'[x] = task'[u].version PROVE FALSE
        OBVIOUS
      <4>1. Holding(x, u) /\ ver[x] = task[u].version
        BY <2>3, <2>4, <3>2 DEF HoldersOnly
      <4>2. x = w
        BY <3>1, <4>1 DEF LeaseFencing, OneFreshOwner
      <4>3. pc'[w] = "idle"
        BY <2>0 DEF End, TypeOK
      <4> QED
        BY <4>2, <4>3 DEF Holding
    <3>4. RowWrite(u)
      BY <2>3, <2>4, <3>1, <3>2, <3>3 DEF RowWrite, HoldersOnly, IsTerminalStatus, TerminalStatus
    <3> QED
      BY <3>4 DEF TaskStep
  <2> QED
    BY <1>5, <2>1, <2>5, <2>6 DEF RecordFinalizeErrorBestEffort, t
<1>6. CASE RenewAfterAssembly(w)
  <2>1. /\ pc[w] # "idle"
        /\ \/ \E l : RenewLease(w) /\ Goto(w, l)
           \/ \E l : RenewFails(w) /\ Goto(w, l) /\ UNCHANGED ver
    BY <1>6 DEF RenewAfterAssembly
  <2> QED
    BY <2>1, RenewTaskStep
<1>7. CASE RenewBeforeTransaction(w)
  <2>1. /\ pc[w] # "idle"
        /\ \/ \E l : RenewLease(w) /\ Goto(w, l)
           \/ RenewFails(w) /\ End(w, asm, intact)
    BY <1>7 DEF RenewBeforeTransaction
  <2> QED
    BY <2>1, RenewTaskStep
<1>8. CASE FinalizeTransaction(w)
  <2>0. pc[w] # "idle"
    BY <1>8 DEF FinalizeTransaction
  <2>1. PICK u \in Uploads : u = up[w]
    BY <2>0 DEF TypeOK
  <2> DEFINE n == RenewFinalizeLease(task[u])
             t == MarkCompleted(n)
  <2>2. task[u] \in UploadTask /\ task[u].version \in Nat
    BY DEF TypeOK, UploadTask
  <2>3. n \in UploadTask /\ n.version = task[u].version + 1 /\ n.error = task[u].error
    BY <2>2, TaskRows, TaskVersions, TaskFlags
  <2> HIDE DEF n
  <2>4. t.version = n.version + 1 /\ t.status = "Completed" /\ t.error = n.error /\ t.live = FALSE
    BY <2>3, TaskRows, TaskVersions, TaskFlags
  <2> HIDE DEF t
  <2>5. CASE Goto(w, "failed") /\ UNCHANGED <<dbVars, ver>>
    BY <2>0, <2>5, HoldersKept DEF dbVars, TaskStep, HoldersOnly
  <2>6. CASE Owned(w) /\ task' = [task EXCEPT ![u] = t] /\ End(w, asm, intact)
    <3>1. task[u].status = "Finalizing" /\ ~task[u].error
      BY <2>0, <2>1, <2>6 DEF Owned, LeaseOwned, LeaseInv, Holding
    <3>2. task'[u] = t /\ \A v \in Uploads : v # u => task'[v] = task[v]
      BY <2>6, RowWrittenAt
    <3>3. HoldersOnly
      BY <2>0, <2>6, HoldersKept DEF HoldersOnly
    <3>4. RowWrite(u)
      BY <2>3, <2>4, <3>1, <3>2, <3>3 DEF RowWrite, HoldersOnly, IsTerminalStatus, TerminalStatus
    <3> QED
      BY <3>4 DEF TaskStep
  <2> QED
    BY <1>8, <2>1, <2>5, <2>6 DEF FinalizeTransaction, n, t
<1> QED
  BY <1>1, <1>2, <1>3, <1>4, <1>5, <1>6, <1>7, <1>8 DEF WorkerStep

\* Every step of the upload services writes at most one row, which was not
\* terminal, or none.
LEMMA StepsAreTaskSteps ==
    ASSUME TypeOK, LeaseFencing, LeaseInv, [Next]_vars
    PROVE  TaskStep
<1>1. CASE UNCHANGED vars
  BY <1>1 DEF TaskStep, HoldersOnly, Holding, vars, dbVars, workerVars
<1>2. ASSUME NEW q \in chunkReqs, ChunkStep(q) PROVE TaskStep
  BY <1>2 DEF TaskStep, HoldersOnly, Holding, ChunkStep, WriteChunk, RecordChunk, ChunkRequestEnds,
              dbVars, workerVars
<1> QED
  BY <1>1, <1>2, InitTaskStep, UploadTaskStep, WorkerTaskStep DEF Next

\* The invariant of leases and errors is kept by every step.
LEMMA LeaseInvStep ==
    ASSUME TypeOK, LeaseFencing, LeaseInv, [Next]_vars
    PROVE  LeaseInv'
<1>1. TaskStep
  BY StepsAreTaskSteps
<1>2. CASE UNCHANGED task /\ HoldersOnly
  BY <1>2 DEF HoldersOnly, LeaseInv
<1>3. ASSUME NEW u \in Uploads, RowWrite(u) PROVE LeaseInv'
  <2>1. \A v \in Uploads : /\ task'[v].live => task'[v].status = "Finalizing"
                           /\ task'[v].status = "Completed" => ~task'[v].error
    BY <1>3 DEF RowWrite, LeaseInv
  <2>2. \A w \in Workers, v \in Uploads : Holding(w, v)' /\ ver'[w] = task'[v].version => ~task'[v].error
    BY <1>3 DEF RowWrite, LeaseInv
  <2> QED
    BY <2>1, <2>2 DEF LeaseInv
<1> QED
  BY <1>1, <1>2, <1>3 DEF TaskStep

\* A lease is live only while finalizing; the current request has no error.
LEMMA LeaseInvHolds == Spec => []LeaseInv
<1>1. Init => LeaseInv
  BY DEF Init, LeaseInv, Holding, NoTask
<1>2. TypeOK /\ LeaseFencing /\ LeaseInv /\ [Next]_vars => LeaseInv'
  BY LeaseInvStep
<1> QED
  BY <1>1, <1>2, TypeCorrect, LeaseFencingHolds, PTL DEF Spec

\* A completed upload has its file and no recorded error, and no other task has
\* a file: the report of a request that lost its lease comes too late
\* (RecordFinalizeErrorBestEffort, FinalizeTransaction, Cancel and Expire).
THEOREM OneFilePerCompletionHolds == Spec => []OneFilePerCompletion
<1>1. LedgerInv /\ LeaseInv => OneFilePerCompletion
  BY DEF LedgerInv, LeaseInv, OneFilePerCompletion
<1> QED
  BY <1>1, LedgerInvHolds, LeaseInvHolds, PTL

\* No UPDATE of upload_tasks, whoever still holds a version of the row, touches
\* a completed, cancelled or expired task.
THEOREM TerminalIsFinalHolds == Spec => TerminalIsFinal
<1>1. TypeOK /\ LeaseFencing /\ LeaseInv /\ [Next]_vars
      => [\A u \in Uploads : IsTerminalStatus(task[u]) => task'[u] = task[u]]_vars
  <2> SUFFICES ASSUME TypeOK, LeaseFencing, LeaseInv, [Next]_vars
               PROVE  \A u \in Uploads : IsTerminalStatus(task[u]) => task'[u] = task[u]
    OBVIOUS
  <2>1. TaskStep
    BY StepsAreTaskSteps
  <2> QED
    BY <2>1 DEF TaskStep, RowWrite
<1> QED
  BY <1>1, TypeCorrect, LeaseFencingHolds, LeaseInvHolds, PTL DEF Spec, TerminalIsFinal

-----------------------------------------------------------------------------
(* Chunk rows and chunk objects.                                           *)

\* A step that touches no chunk row, object or cleanup job: what it does to the
\* status of a row keeps it on its side of the end, and a row that becomes
\* Finalizing has all its chunks.
LEMMA ChunksUntouched ==
    ASSUME ChunkInv, UNCHANGED <<chunks, cleanup, staging>>,
           \A q \in chunkReqs' : q \in chunkReqs \/ q.stage = "loaded",
           chunkReqs \subseteq ChunkRequest, \A q \in chunkReqs' : q.up \in Uploads,
           \A u \in Uploads : \/ task'[u].status = task[u].status
                              \/ task[u].status = "None" /\ task'[u].status = "InProgress"
                              \/ /\ task[u].status = "InProgress" /\ task'[u].status = "Finalizing"
                                 /\ ChunksComplete(u)
    PROVE  ChunkInv'
<1>1. \A u \in Uploads : IsTerminalStatus(task'[u]) <=> IsTerminalStatus(task[u])
  BY DEF IsTerminalStatus, TerminalStatus
<1>2. \A u \in Uploads : ChunksComplete(u)' <=> ChunksComplete(u)
  BY DEF ChunksComplete
<1>3. \A u \in Uploads : task'[u].status = "Finalizing" => ChunksComplete(u)'
  BY <1>2 DEF ChunkInv
<1>4. TerminalLeavesNoRows'
  BY <1>1 DEF ChunkInv, TerminalLeavesNoRows
<1>5. \A u \in Uploads : /\ cleanup'[u] # "none" => IsTerminalStatus(task'[u])
                         /\ ~IsTerminalStatus(task'[u]) => chunks'[u] \subseteq staging'[u]
  BY <1>1 DEF ChunkInv
<1>6. \A q \in chunkReqs' : q.stage = "written" /\ ~IsTerminalStatus(task'[q.up])
          => q.row \in staging'[q.up]
  BY <1>1 DEF ChunkInv
<1> QED
  BY <1>3, <1>4, <1>5, <1>6 DEF ChunkInv

\* Cancellation, expiry and completion delete the chunk rows and leave a job.
LEMMA ChunksDropped ==
    ASSUME TypeOK, ChunkInv, NEW u \in Uploads, NEW t, task' = [task EXCEPT ![u] = t],
           t.status \in TerminalStatus, EnqueueStagingCleanup(u), DeleteChunks(u),
           UNCHANGED <<staging, chunkReqs>>
    PROVE  ChunkInv'
<1>1. task'[u] = t /\ \A v \in Uploads : v # u => task'[v] = task[v]
  BY RowWrittenAt
<1>2. chunks'[u] = {} /\ \A v \in Uploads : v # u => chunks'[v] = chunks[v]
  BY DEF DeleteChunks, TypeOK
<1>3. \A v \in Uploads : v # u => cleanup'[v] = cleanup[v]
  BY DEF EnqueueStagingCleanup, TypeOK
<1>4. IsTerminalStatus(task'[u]) /\ task'[u].status # "Finalizing"
  BY <1>1 DEF IsTerminalStatus, TerminalStatus
<1>5. \A v \in Uploads : /\ cleanup'[v] # "none" => IsTerminalStatus(task'[v])
                         /\ ~IsTerminalStatus(task'[v]) => chunks'[v] \subseteq staging'[v]
  BY <1>1, <1>2, <1>3, <1>4 DEF ChunkInv
<1>6. TerminalLeavesNoRows'
  BY <1>1, <1>2 DEF ChunkInv, TerminalLeavesNoRows
<1>7. \A q \in chunkReqs' : q.stage = "written" /\ ~IsTerminalStatus(task'[q.up])
          => q.row \in staging'[q.up]
  <2>1. \A q \in chunkReqs' : q.up \in Uploads
    BY DEF TypeOK, ChunkRequest
  <2> QED
    BY <1>1, <1>4, <2>1 DEF ChunkInv
<1>8. \A v \in Uploads : task'[v].status = "Finalizing" => ChunksComplete(v)'
  BY <1>1, <1>2, <1>4 DEF ChunkInv, ChunksComplete
<1> QED
  BY <1>5, <1>6, <1>7, <1>8 DEF ChunkInv

\* Init requests and the chunk rows.
LEMMA InitChunks ==
    ASSUME TypeOK, LeaseFencing, ChunkInv, NEW r \in inits, InitStep(r)
    PROVE  ChunkInv'
<1>0. chunkReqs' = chunkReqs /\ staging' = staging /\ chunkReqs \subseteq ChunkRequest
      /\ \A q \in chunkReqs : q.up \in Uploads
  BY DEF InitStep, InitInstant, InitResume, InitNew, InitEnds, storeVars, TypeOK, ChunkRequest
<1>1. CASE InitInstant(r) \/ InitEnds(r)
  BY <1>0, <1>1, ChunksUntouched DEF InitInstant, InitEnds, dbVars
<1>2. CASE InitNew(r)
  <2>1. r.up \in Uploads /\ task[r.up].status = "None"
    BY DEF TypeOK, InitRequest, LeaseFencing
  <2>2. CreatedTask.status = "InProgress"
    BY DEF CreatedTask, NoTask
  <2>3. task' = [task EXCEPT ![r.up] = CreatedTask] /\ UNCHANGED <<chunks, cleanup>>
    BY <1>2 DEF InitNew
  <2>4. task'[r.up] = CreatedTask /\ \A v \in Uploads : v # r.up => task'[v] = task[v]
    BY <2>1, <2>3, RowWrittenAt
  <2> QED
    BY <1>0, <2>1, <2>2, <2>3, <2>4, ChunksUntouched
<1>3. CASE InitResume(r)
  <2>1. CASE UNCHANGED dbVars
    BY <1>0, <2>1, ChunksUntouched DEF dbVars
  <2>2. CASE ExpireInProgressUpload(r.found)
    <3>1. r.found \in Uploads /\ task[r.found] \in UploadTask
      BY <1>3 DEF InitResume, TypeOK
    <3>2. MarkExpired(task[r.found]).status \in TerminalStatus
      BY <3>1, TaskVersions DEF TerminalStatus
    <3> QED
      BY <1>0, <2>2, <3>1, <3>2, ChunksDropped DEF ExpireInProgressUpload
  <2> QED
    BY <1>3, <2>1, <2>2 DEF InitResume
<1> QED
  BY <1>1, <1>2, <1>3 DEF InitStep

\* Cancellation, expiry, operators, jobs and the clock, and the chunk rows: the
\* cleanup job removes the objects of terminal uploads only.
LEMMA UploadChunks ==
    ASSUME TypeOK, ChunkInv, NEW u \in Uploads, UploadStep(u)
    PROVE  ChunkInv'
<1>0. /\ task[u] \in UploadTask /\ chunkReqs \subseteq ChunkRequest
      /\ \A q \in chunkReqs : q.up \in Uploads
  BY DEF TypeOK, ChunkRequest
<1>1. CASE InitRead(u) \/ EvictUploadTask(u)
  BY <1>0, <1>1, ChunksUntouched DEF InitRead, EvictUploadTask, dbVars, storeVars, requestVars
<1>2. ASSUME NEW row \in ChunkRow, LoadChunkTask(u, row) PROVE ChunkInv'
  BY <1>0, <1>2, ChunksUntouched DEF LoadChunkTask, dbVars, storeVars
<1>3. CASE CancelInProgressUpload(u)
  <2>1. MarkCancelled(task[u]).status \in TerminalStatus
    BY <1>0, TaskVersions DEF TerminalStatus
  <2> QED
    BY <1>3, <2>1, ChunksDropped DEF CancelInProgressUpload, storeVars, requestVars
<1>4. CASE ExpireUpload(u)
  <2>1. MarkExpired(task[u]).status \in TerminalStatus
    BY <1>0, TaskVersions DEF TerminalStatus
  <2> QED
    BY <1>4, <2>1, ChunksDropped DEF ExpireUpload, ExpireInProgressUpload, storeVars, requestVars
<1>5. ASSUME NEW t, task' = [task EXCEPT ![u] = t], t.status = task[u].status,
             UNCHANGED <<chunks, cleanup, staging, chunkReqs>>
      PROVE  ChunkInv'
  <2>1. \A v \in Uploads : task'[v].status = task[v].status
    BY <1>5, RowWrittenAt
  <2> QED
    BY <1>0, <1>5, <2>1, ChunksUntouched
<1>6. CASE AdminReleaseLease(u)
  <2>1. ReleaseUploadLease(task[u]).status = task[u].status
    BY <1>0, TaskVersions
  <2> QED
    BY <1>5, <1>6, <2>1 DEF AdminReleaseLease, storeVars, requestVars
<1>7. CASE LeaseRunsOut(u)
  <2>1. task' = [task EXCEPT ![u] = [task[u] EXCEPT !.live = FALSE]]
    BY <1>7 DEF LeaseRunsOut, TypeOK
  <2>2. [task[u] EXCEPT !.live = FALSE].status = task[u].status
    BY <1>0, TaskVersions
  <2> QED
    BY <1>5, <1>7, <2>1, <2>2 DEF LeaseRunsOut, storeVars, requestVars
<1>8. CASE TaskTimesOut(u)
  <2>1. task' = [task EXCEPT ![u] = [task[u] EXCEPT !.expired = TRUE]]
    BY <1>8 DEF TaskTimesOut, TypeOK
  <2>2. [task[u] EXCEPT !.expired = TRUE].status = task[u].status
    BY <1>0, TaskVersions
  <2> QED
    BY <1>5, <1>8, <2>1, <2>2 DEF TaskTimesOut, storeVars, requestVars
<1>9. CASE RebuildUploadCleanup(u)
  <2>1. /\ IsTerminalStatus(task[u]) /\ cleanup' = [cleanup EXCEPT ![u] = "pending"]
        /\ UNCHANGED <<task, chunks, staging, chunkReqs>>
    BY <1>9 DEF RebuildUploadCleanup, storeVars, requestVars
  <2>2. \A v \in Uploads : v # u => cleanup'[v] = cleanup[v]
    BY <2>1 DEF TypeOK
  <2>3. \A v \in Uploads : ChunksComplete(v)' <=> ChunksComplete(v)
    BY <2>1 DEF ChunksComplete
  <2> QED
    BY <2>1, <2>2, <2>3 DEF ChunkInv, TerminalLeavesNoRows
<1>10. CASE CleanupSession(u)
  <2>1. /\ cleanup[u] = "pending" /\ cleanup' = [cleanup EXCEPT ![u] = "done"]
        /\ staging' = [staging EXCEPT ![u] = {}]
        /\ UNCHANGED <<task, chunks, chunkReqs>>
    BY <1>10 DEF CleanupSession, requestVars
  <2>2. IsTerminalStatus(task[u])
    BY <2>1 DEF ChunkInv
  <2>3. \A v \in Uploads : v # u => cleanup'[v] = cleanup[v] /\ staging'[v] = staging[v]
    BY <2>1 DEF TypeOK
  <2>4. \A v \in Uploads : ChunksComplete(v)' <=> ChunksComplete(v)
    BY <2>1 DEF ChunksComplete
  <2>5. \A v \in Uploads : /\ cleanup'[v] # "none" => IsTerminalStatus(task'[v])
                           /\ ~IsTerminalStatus(task'[v]) => chunks'[v] \subseteq staging'[v]
    BY <2>1, <2>2, <2>3 DEF ChunkInv
  <2>6. \A q \in chunkReqs' : q.stage = "written" /\ ~IsTerminalStatus(task'[q.up])
          => q.row \in staging'[q.up]
    BY <1>0, <2>1, <2>2, <2>3 DEF ChunkInv
  <2> QED
    BY <2>1, <2>4, <2>5, <2>6 DEF ChunkInv, TerminalLeavesNoRows
<1> QED
  BY <1>1, <1>2, <1>3, <1>4, <1>6, <1>7, <1>8, <1>9, <1>10 DEF UploadStep

\* Chunk requests: an object is written before its row, and the row is recorded
\* only while the task is in progress.
LEMMA RequestChunks ==
    ASSUME TypeOK, ChunkInv, NEW q \in chunkReqs, ChunkStep(q)
    PROVE  ChunkInv'
<1>0. /\ q \in ChunkRequest /\ q.up \in Uploads /\ chunkReqs \subseteq ChunkRequest
      /\ \A p \in chunkReqs : p.up \in Uploads
  BY DEF TypeOK, ChunkRequest
<1>1. CASE ChunkRequestEnds(q)
  BY <1>0, <1>1, ChunksUntouched DEF ChunkRequestEnds, dbVars, storeVars
<1>2. CASE WriteChunk(q)
  <2> DEFINE p == [q EXCEPT !.stage = "written"]
  <2>1. p.up = q.up /\ p.row = q.row
    BY <1>0 DEF ChunkRequest
  <2> HIDE DEF p
  <2>2. /\ staging' = [staging EXCEPT ![q.up] = @ \cup {q.row}]
        /\ chunkReqs' = (chunkReqs \ {q}) \cup {p} /\ UNCHANGED <<task, chunks, cleanup>>
    BY <1>2 DEF WriteChunk, dbVars, p
  <2>3. q.row \in staging'[q.up] /\ \A v \in Uploads : staging[v] \subseteq staging'[v]
    BY <1>0, <2>2 DEF TypeOK
  <2>4. \A v \in Uploads : ChunksComplete(v)' <=> ChunksComplete(v)
    BY <2>2 DEF ChunksComplete
  <2>5. \A v \in Uploads : /\ cleanup'[v] # "none" => IsTerminalStatus(task'[v])
                           /\ ~IsTerminalStatus(task'[v]) => chunks'[v] \subseteq staging'[v]
    BY <2>2, <2>3 DEF ChunkInv
  <2>6. \A s \in chunkReqs' : s.stage = "written" /\ ~IsTerminalStatus(task'[s.up])
          => s.row \in staging'[s.up]
    BY <1>0, <2>1, <2>2, <2>3 DEF ChunkInv
  <2> QED
    BY <2>2, <2>4, <2>5, <2>6 DEF ChunkInv, TerminalLeavesNoRows
<1>3. CASE RecordChunk(q)
  <2>1. /\ q.stage = "written" /\ chunkReqs' = chunkReqs \ {q}
        /\ UNCHANGED <<task, cleanup, staging>>
    BY <1>3 DEF RecordChunk, storeVars
  <2>2. CASE UNCHANGED chunks
    BY <1>0, <2>1, <2>2, ChunksUntouched
  <2>3. CASE AcceptsChunk(task[q.up]) /\ chunks' = [chunks EXCEPT ![q.up] = @ \cup {q.row}]
    <3>1. task[q.up].status = "InProgress" /\ ~IsTerminalStatus(task[q.up])
      BY <2>3 DEF AcceptsChunk, IsTerminalStatus, TerminalStatus
    <3>2. /\ chunks'[q.up] = chunks[q.up] \cup {q.row}
          /\ \A v \in Uploads : v # q.up => chunks'[v] = chunks[v]
      BY <1>0, <2>3 DEF TypeOK
    <3>3. q.row \in staging[q.up]
      BY <2>1, <3>1 DEF ChunkInv
    <3>4. \A v \in Uploads : /\ cleanup'[v] # "none" => IsTerminalStatus(task'[v])
                             /\ ~IsTerminalStatus(task'[v]) => chunks'[v] \subseteq staging'[v]
      BY <2>1, <3>2, <3>3 DEF ChunkInv
    <3>5. TerminalLeavesNoRows'
      BY <2>1, <3>1, <3>2 DEF ChunkInv, TerminalLeavesNoRows
    <3>6. \A v \in Uploads : task'[v].status = "Finalizing" => ChunksComplete(v)'
      BY <2>1, <3>1, <3>2 DEF ChunkInv, ChunksComplete
    <3> QED
      BY <2>1, <3>4, <3>5, <3>6 DEF ChunkInv
  <2> QED
    BY <1>3, <2>2, <2>3 DEF RecordChunk
<1> QED
  BY <1>1, <1>2, <1>3 DEF ChunkStep

\* Completion requests: the first claim finds all rows, and the finalize
\* transaction deletes them.
LEMMA WorkerChunks ==
    ASSUME TypeOK, ChunkInv, NEW w \in Workers, WorkerStep(w)
    PROVE  ChunkInv'
<1>0. /\ chunkReqs \subseteq ChunkRequest /\ \A q \in chunkReqs : q.up \in Uploads
      /\ UNCHANGED <<staging, chunkReqs>>
  BY DEF TypeOK, ChunkRequest, WorkerStep, Claim, LoadInputs, AssembleBegin, AssembleEnd,
         RenewAfterAssembly, DiscardAssembly, RecordFinalizeErrorBestEffort, Lookup, PromoteBegin,
         PromoteEnd, RenewBeforeTransaction, FinalizeTransaction, Crash, requestVars, storeVars
<1>1. ASSUME NEW u \in Uploads, Claim(w, u) PROVE ChunkInv'
  <2> DEFINE t == ClaimFinalizeLease(task[u], InstanceOf[w])
  <2>1. task[u] \in UploadTask /\ InstanceOf[w] \in Instances
    BY InstanceAssumption DEF TypeOK
  <2>2. t.status = "Finalizing"
    BY <2>1, TaskVersions
  <2> HIDE DEF t
  <2>3. task' = [task EXCEPT ![u] = t] /\ UNCHANGED <<chunks, cleanup>>
    BY <1>1 DEF Claim, t
  <2>4. task'[u] = t /\ \A v \in Uploads : v # u => task'[v] = task[v]
    BY <2>3, RowWrittenAt
  <2>5. task[u].status = "Finalizing" \/ (task[u].status = "InProgress" /\ ChunksComplete(u))
    BY <1>1 DEF Claim, CanClaim
  <2> QED
    BY <1>0, <2>2, <2>3, <2>4, <2>5, ChunksUntouched
<1>2. CASE \/ LoadInputs(w) \/ AssembleBegin(w) \/ AssembleEnd(w) \/ Lookup(w)
          \/ PromoteBegin(w) \/ PromoteEnd(w) \/ DiscardAssembly(w) \/ Crash(w)
  <2>1. UNCHANGED <<task, chunks, cleanup>>
    BY <1>2 DEF LoadInputs, AssembleBegin, AssembleEnd, Lookup, PromoteBegin, PromoteEnd,
                DiscardAssembly, Crash, dbVars
  <2> QED
    BY <1>0, <2>1, ChunksUntouched
<1>3. CASE RenewAfterAssembly(w) \/ RecordFinalizeErrorBestEffort(w) \/ RenewBeforeTransaction(w)
  <2>1. /\ pc[w] # "idle" /\ UNCHANGED <<chunks, cleanup>>
        /\ \/ UNCHANGED task
           \/ task' = [task EXCEPT ![up[w]] = RenewFinalizeLease(task[up[w]])]
           \/ task' = [task EXCEPT ![up[w]] = RecordFinalizeError(task[up[w]])]
    BY <1>3 DEF RenewAfterAssembly, RecordFinalizeErrorBestEffort, RenewBeforeTransaction,
                RenewLease, RenewFails
  <2>2. up[w] \in Uploads /\ task[up[w]] \in UploadTask
    BY <2>1 DEF TypeOK
  <2>3. /\ RenewFinalizeLease(task[up[w]]).status = task[up[w]].status
        /\ RecordFinalizeError(task[up[w]]).status = task[up[w]].status
    BY <2>2, TaskVersions
  <2>4. \A v \in Uploads : task'[v].status = task[v].status
    BY <2>1, <2>2, <2>3, RowWrittenAt
  <2> QED
    BY <1>0, <2>1, <2>4, ChunksUntouched
<1>4. CASE FinalizeTransaction(w)
  <2> DEFINE u == up[w]
             n == RenewFinalizeLease(task[u])
             t == MarkCompleted(n)
  <2>1. u \in Uploads /\ task[u] \in UploadTask
    BY <1>4 DEF FinalizeTransaction, TypeOK
  <2>2. n \in UploadTask
    BY <2>1, TaskRows
  <2>3. t.status \in TerminalStatus
    BY <2>2, TaskVersions DEF TerminalStatus
  <2>4. CASE UNCHANGED dbVars
    BY <1>0, <2>4, ChunksUntouched DEF dbVars
  <2>5. CASE ~UNCHANGED dbVars
    <3>1. task' = [task EXCEPT ![u] = t] /\ EnqueueStagingCleanup(u) /\ DeleteChunks(u)
      BY <1>4, <2>5 DEF FinalizeTransaction
    <3> HIDE DEF t
    <3> QED
      BY <1>0, <2>1, <2>3, <3>1, ChunksDropped
  <2> QED
    BY <2>4, <2>5
<1> QED
  BY <1>1, <1>2, <1>3, <1>4 DEF WorkerStep

\* The invariant of chunk rows and objects holds of every reachable state.
LEMMA ChunkInvHolds == Spec => []ChunkInv
<1>1. Init => ChunkInv
  BY DEF Init, ChunkInv, TerminalLeavesNoRows, NoTask, IsTerminalStatus, TerminalStatus
<1>2. TypeOK /\ LeaseFencing /\ ChunkInv /\ [Next]_vars => ChunkInv'
  <2> SUFFICES ASSUME TypeOK, LeaseFencing, ChunkInv, [Next]_vars PROVE ChunkInv'
    OBVIOUS
  <2>1. CASE UNCHANGED vars
    BY <2>1 DEF vars, dbVars, storeVars, requestVars, ChunkInv, TerminalLeavesNoRows, ChunksComplete
  <2> QED
    BY <2>1, InitChunks, UploadChunks, RequestChunks, WorkerChunks DEF Next
<1> QED
  BY <1>1, <1>2, TypeCorrect, LeaseFencingHolds, PTL DEF Spec

\* A chunk request that is admitted before an upload ends records nothing after
\* (RecordChunkIfInProgress against cancel, expire and complete).
THEOREM TerminalLeavesNoRowsHolds == Spec => []TerminalLeavesNoRows
<1>1. ChunkInv => TerminalLeavesNoRows
  BY DEF ChunkInv
<1> QED
  BY <1>1, ChunkInvHolds, PTL

\* Whoever takes over an active upload finds every object its rows name, and all
\* rows once it is finalizing: no cleanup job, chunk request or dying instance
\* takes them away (ExecuteStagingCleanup, UploadChunk, ClaimFinalizeLease).
THEOREM ActiveUploadRecoverableHolds == Spec => []ActiveUploadRecoverable
<1>1. TypeOK /\ ChunkInv => ActiveUploadRecoverable
  <2> SUFFICES ASSUME TypeOK, ChunkInv, NEW u \in Uploads
               PROVE  /\ IsActive(task[u]) => chunks[u] \subseteq staging[u]
                      /\ task[u].status = "Finalizing" => {row[1] : row \in chunks[u]} = Chunk
    BY DEF ActiveUploadRecoverable
  <2>1. IsActive(task[u]) => ~IsTerminalStatus(task[u])
    BY DEF IsActive, IsTerminalStatus, ActiveStatus, TerminalStatus
  <2>2. IsActive(task[u]) => chunks[u] \subseteq staging[u]
    BY <2>1 DEF ChunkInv
  <2>3. ASSUME task[u].status = "Finalizing" PROVE {row[1] : row \in chunks[u]} = Chunk
    <3>1. ChunksComplete(u)
      BY <2>3 DEF ChunkInv
    <3>2. \A row \in chunks[u] : row[1] \in Chunk
      BY DEF TypeOK, ChunkRow
    <3>3. \A i \in Chunk : \E row \in chunks[u] : row[1] = i
      BY <3>1 DEF ChunksComplete
    <3> QED
      BY <3>2, <3>3
  <2> QED
    BY <2>2, <2>3
<1> QED
  BY <1>1, TypeCorrect, ChunkInvHolds, PTL

-----------------------------------------------------------------------------
(* Final objects, with the S3 store.                                       *)

\* Objects only appear, and whole.
BlobsAppear ==
    \A c \in Contents : /\ blob'[c] \in {"absent", "complete"}
                        /\ blob[c] = "complete" => blob'[c] = "complete"

\* A request that a step does not touch.
Undisturbed(x) ==
    /\ pc'[x] = pc[x] /\ up'[x] = up[x] /\ rows'[x] = rows[x]
    /\ intact[x] => intact'[x]
    /\ asm'[x] # "partial"

\* What a step may do to the other requests, the objects and the content rows.
LEMMA BlobInvKept ==
    ASSUME TypeOK, BlobInv, BlobsAppear,
           \A c \in Contents : content'[c].id # 0 => content[c].id # 0 \/ blob'[c] = "complete",
           \A x \in Workers : PromotesWhole(x)' \/ Undisturbed(x)
    PROVE  BlobInv'
<1>1. ASSUME NEW x \in Workers, Undisturbed(x) PROVE PromotesWhole(x)'
  <2>1. PromotesWhole(x) /\ Undisturbed(x)
    BY <1>1 DEF BlobInv
  <2>2. HashMatches(x) => HashMatches(x)'
    BY <2>1 DEF HashMatches, Undisturbed
  <2>3. pc[x] # "idle" => ContentOf[up[x]] \in Contents
    BY BytesNat DEF TypeOK
  <2>4. pc'[x] \in {"prepared", "ready"} => blob'[ContentOf[up'[x]]] = "complete"
    BY <2>1, <2>3 DEF PromotesWhole, Undisturbed, BlobsAppear
  <2> QED
    BY <2>1, <2>2, <2>4 DEF PromotesWhole, Undisturbed
<1>2. ReferencedBlobIntact'
  BY DEF ReferencedBlobIntact, BlobInv, BlobsAppear
<1> QED
  BY <1>1, <1>2 DEF BlobInv, BlobsAppear

\* Local assembled files are shared, S3 ones are not: a claim has its own key.
LEMMA S3Keys ==
    ASSUME TypeOK, Backend = "s3"
    PROVE  /\ \A w \in Workers : AsmKey(w) = w
           /\ \A k, steps : Using(k, steps) = {}
           /\ \A keys, x : x \in Workers => IntactWithout(keys)[x] = intact[x]
           /\ \A keys, x : x \in Workers => AsmWithout(keys)[x] \in {asm[x], "absent"}
BY DEF AsmKey, Using, IntactWithout, AsmWithout, TypeOK

\* Steps of init requests, chunk requests, operators, jobs and the clock.
LEMMA QuietBlobs ==
    ASSUME TypeOK, BlobInv, Backend = "s3", UNCHANGED <<blob, pc, up, rows>>,
           \A c \in Contents : content'[c].id = content[c].id,
           UNCHANGED <<asm, intact>> \/ \E keys : Remove(keys)
    PROVE  BlobInv'
<1>1. BlobsAppear
  BY DEF BlobsAppear, BlobInv
<1>2. \A x \in Workers : Undisturbed(x)
  <2> SUFFICES ASSUME NEW x \in Workers PROVE Undisturbed(x)
    OBVIOUS
  <2>1. asm[x] # "partial"
    BY DEF BlobInv, PromotesWhole
  <2>2. intact'[x] = intact[x] /\ asm'[x] \in {asm[x], "absent"}
    BY S3Keys DEF Remove
  <2> QED
    BY <2>1, <2>2 DEF Undisturbed
<1> QED
  BY <1>1, <1>2, BlobInvKept

\* A completion request that moves on without an object or a content row.
LEMMA WorkerMoves ==
    ASSUME TypeOK, BlobInv, NEW w \in Workers, NEW l, Goto(w, l), BlobsAppear, UNCHANGED content,
           \A x \in Workers : x # w => rows'[x] = rows[x] /\ (intact[x] => intact'[x]),
           \A x \in Workers : asm'[x] # "partial",
           l \in {"lookup", "promote", "copying"} => HashMatches(w)',
           l = "copying" => intact'[w],
           l \in {"prepared", "ready"} => blob'[ContentOf[up[w]]] = "complete"
    PROVE  BlobInv'
<1>1. pc' = [pc EXCEPT ![w] = l] /\ up' = up
  BY DEF Goto
<1>2. PromotesWhole(w)'
  BY <1>1 DEF PromotesWhole, TypeOK
<1>3. \A x \in Workers : x # w => Undisturbed(x)
  BY <1>1 DEF Undisturbed, TypeOK
<1> QED
  BY <1>2, <1>3, BlobInvKept

\* A completion request that ends.
LEMMA WorkerEnds ==
    ASSUME TypeOK, BlobInv, NEW w \in Workers, NEW a, NEW i, End(w, a, i), BlobsAppear,
           \A c \in Contents : content'[c].id # 0 => content[c].id # 0 \/ blob'[c] = "complete",
           DOMAIN a = Uploads \cup Workers, DOMAIN i = Workers,
           \A x \in Workers : i[x] = intact[x] /\ a[x] \in {asm[x], "absent"}
    PROVE  BlobInv'
<1>1. PromotesWhole(w)'
  BY DEF PromotesWhole, End, TypeOK
<1>2. \A x \in Workers : x # w => Undisturbed(x)
  BY DEF Undisturbed, TypeOK, End, BlobInv, PromotesWhole
<1> QED
  BY <1>1, <1>2, BlobInvKept

\* Completion requests: only a verified, whole assembly becomes an object, and
\* a content row is created only by a request whose object is there.
LEMMA WorkerBlobs ==
    ASSUME TypeOK, BlobInv, Backend = "s3", NEW w \in Workers, WorkerStep(w)
    PROVE  BlobInv'
<1>0. /\ \A c \in Contents : blob[c] \in {"absent", "complete"}
      /\ \A x \in Workers : asm[x] # "partial" /\ PromotesWhole(x)
      /\ DOMAIN asm = Uploads \cup Workers /\ DOMAIN intact = Workers
  BY DEF BlobInv, PromotesWhole, TypeOK
<1>1. UNCHANGED blob => BlobsAppear
  BY <1>0 DEF BlobsAppear
<1>2. pc[w] # "idle" => ContentOf[up[w]] \in Contents
  BY BytesNat DEF TypeOK
<1>3. ASSUME NEW u \in Uploads, Claim(w, u) PROVE BlobInv'
  <2>1. /\ pc' = [pc EXCEPT ![w] = "claimed"] /\ up' = [up EXCEPT ![w] = u]
        /\ UNCHANGED <<content, blob, asm, rows, intact>>
    BY <1>3 DEF Claim, storeVars
  <2>2. PromotesWhole(w)'
    BY <1>0, <2>1 DEF PromotesWhole, TypeOK
  <2>3. \A x \in Workers : x # w => Undisturbed(x)
    BY <1>0, <2>1 DEF Undisturbed, TypeOK
  <2> QED
    BY <1>1, <2>1, <2>2, <2>3, BlobInvKept
<1>4. CASE LoadInputs(w)
  <2>1. /\ Goto(w, "loaded") \/ Goto(w, "failed")
        /\ UNCHANGED <<content, blob, asm, intact>>
        /\ \A x \in Workers : x # w => rows'[x] = rows[x]
    BY <1>4 DEF LoadInputs, dbVars, storeVars, TypeOK
  <2>2. CASE Goto(w, "loaded")
    BY <1>0, <1>1, <2>1, <2>2, WorkerMoves
  <2>3. CASE Goto(w, "failed")
    BY <1>0, <1>1, <2>1, <2>3, WorkerMoves
  <2> QED
    BY <2>1, <2>2, <2>3
<1>5. CASE AssembleBegin(w)
  <2>1. /\ Goto(w, "assembling") /\ UNCHANGED <<content, blob, rows>>
        /\ asm' = [asm EXCEPT ![w] = @]
        /\ \A x \in Workers : intact[x] => intact'[x]
    BY <1>5, S3Keys DEF AssembleBegin, dbVars
  <2>2. \A x \in Workers : asm'[x] # "partial"
    BY <1>0, <2>1
  <2> QED
    BY <1>1, <2>1, <2>2, WorkerMoves
<1>6. CASE AssembleEnd(w)
  <2>1. UNCHANGED <<content, blob, rows>>
    BY <1>6 DEF AssembleEnd, dbVars
  <2>2. CASE Goto(w, "assembled") /\ asm' = [asm EXCEPT ![w] = IF intact[w] THEN "full" ELSE @]
             /\ UNCHANGED intact
    <3>1. \A x \in Workers : asm'[x] # "partial"
      BY <1>0, <2>2
    <3> QED
      BY <1>1, <2>1, <2>2, <3>1, WorkerMoves
  <2>3. CASE Remove({w}) /\ Goto(w, "failed")
    <3>1. \A x \in Workers : asm'[x] # "partial" /\ intact'[x] = intact[x]
      BY <1>0, <2>3, S3Keys DEF Remove
    <3> QED
      BY <1>1, <2>1, <2>3, <3>1, WorkerMoves
  <2> QED
    BY <1>6, <2>2, <2>3, S3Keys DEF AssembleEnd
<1>7. CASE RenewAfterAssembly(w)
  <2>1. UNCHANGED <<content, blob, asm, rows, intact>>
    BY <1>7 DEF RenewAfterAssembly, storeVars
  <2>2. HashMatches(w)' <=> HashMatches(w)
    BY <2>1 DEF HashMatches
  <2>3. Goto(w, "lost") \/ Goto(w, "discard") \/ (Goto(w, "lookup") /\ HashMatches(w))
    BY <1>7 DEF RenewAfterAssembly
  <2>4. CASE Goto(w, "lost")
    BY <1>0, <1>1, <2>1, <2>4, WorkerMoves
  <2>5. CASE Goto(w, "discard")
    BY <1>0, <1>1, <2>1, <2>5, WorkerMoves
  <2>6. CASE Goto(w, "lookup") /\ HashMatches(w)
    BY <1>0, <1>1, <2>1, <2>2, <2>6, WorkerMoves
  <2> QED
    BY <2>3, <2>4, <2>5, <2>6
<1>8. CASE DiscardAssembly(w)
  <2>1. PICK keys \in {{}, {AsmKey(w)}} :
          \/ pc[w] = "lost" /\ End(w, AsmWithout(keys), IntactWithout(keys))
          \/ /\ pc[w] = "discard" /\ Remove(keys) /\ Goto(w, "failed")
             /\ UNCHANGED <<ver, seen, rows>>
    BY <1>8 DEF DiscardAssembly
  <2>2. UNCHANGED <<content, blob>>
    BY <1>8 DEF DiscardAssembly, dbVars
  <2>3. /\ DOMAIN AsmWithout(keys) = Uploads \cup Workers /\ DOMAIN IntactWithout(keys) = Workers
        /\ \A x \in Workers : /\ IntactWithout(keys)[x] = intact[x]
                              /\ AsmWithout(keys)[x] \in {asm[x], "absent"}
    <3>1. /\ DOMAIN AsmWithout(keys) = Uploads \cup Workers /\ DOMAIN IntactWithout(keys) = Workers
      BY <1>0 DEF AsmWithout, IntactWithout
    <3> QED
      BY <3>1, S3Keys
  <2>4. CASE End(w, AsmWithout(keys), IntactWithout(keys))
    BY <1>1, <2>2, <2>3, <2>4, WorkerEnds
  <2>5. CASE Remove(keys) /\ Goto(w, "failed") /\ UNCHANGED rows
    <3>1. \A x \in Workers : asm'[x] # "partial" /\ intact'[x] = intact[x]
      BY <1>0, <2>3, <2>5 DEF Remove
    <3> QED
      BY <1>1, <2>2, <2>5, <3>1, WorkerMoves
  <2> QED
    BY <2>1, <2>4, <2>5
<1>9. CASE RecordFinalizeErrorBestEffort(w) \/ Crash(w)
  <2>1. End(w, asm, intact) /\ UNCHANGED <<content, blob>>
    BY <1>9 DEF RecordFinalizeErrorBestEffort, Crash, dbVars
  <2> QED
    BY <1>0, <1>1, <2>1, WorkerEnds
<1>10. CASE Lookup(w)
  <2>1. UNCHANGED <<content, blob, asm, rows, intact>> /\ pc[w] = "lookup"
    BY <1>10 DEF Lookup, dbVars, storeVars
  <2>2. HashMatches(w)'
    BY <1>0, <2>1 DEF HashMatches, PromotesWhole
  <2>3. \/ Goto(w, "discard") \/ Goto(w, "promote")
        \/ Goto(w, "prepared") /\ content[ContentOf[up[w]]].id # 0
    BY <1>10 DEF Lookup
  <2>4. CASE Goto(w, "discard")
    BY <1>0, <1>1, <2>1, <2>4, WorkerMoves
  <2>5. CASE Goto(w, "promote")
    BY <1>0, <1>1, <2>1, <2>2, <2>5, WorkerMoves
  <2>6. CASE Goto(w, "prepared") /\ content[ContentOf[up[w]]].id # 0
    <3>1. blob'[ContentOf[up[w]]] = "complete"
      BY <1>2, <2>1, <2>6 DEF BlobInv, ReferencedBlobIntact
    <3> QED
      BY <1>0, <1>1, <2>1, <2>6, <3>1, WorkerMoves
  <2> QED
    BY <2>3, <2>4, <2>5, <2>6
<1>11. CASE PromoteBegin(w)
  <2> DEFINE c == ContentOf[up[w]]
  <2>1. UNCHANGED <<content, asm, rows>> /\ pc[w] = "promote" /\ c \in Contents
    BY <1>2, <1>11 DEF PromoteBegin, dbVars
  <2>2. HashMatches(w)'
    BY <1>0, <2>1 DEF HashMatches, PromotesWhole
  <2>3. CASE VerifiesExisting(blob[c]) /\ Goto(w, "prepared") /\ UNCHANGED <<blob, intact>>
    <3>1. blob'[c] = "complete"
      BY <1>0, <2>1, <2>3 DEF VerifiesExisting
    <3> QED
      BY <1>0, <1>1, <2>1, <2>3, <3>1, WorkerMoves
  <2>4. CASE /\ asm[w] \in {"full", "partial"} /\ Goto(w, "copying")
             /\ intact' = [intact EXCEPT ![w] = (asm[w] = "full")]
             /\ blob' = [blob EXCEPT ![c] = @]
    <3>1. intact'[w] /\ \A x \in Workers : x # w => intact'[x] = intact[x]
      BY <1>0, <2>4
    <3>2. blob' = blob
      BY <2>1, <2>4 DEF TypeOK
    <3> QED
      BY <1>0, <1>1, <2>1, <2>2, <2>4, <3>1, <3>2, WorkerMoves
  <2>5. CASE Goto(w, "failed") /\ UNCHANGED <<blob, intact>>
    BY <1>0, <1>1, <2>1, <2>5, WorkerMoves
  <2> QED
    BY <1>11, <2>3, <2>4, <2>5, S3Keys DEF PromoteBegin
<1>12. CASE PromoteEnd(w)
  <2> DEFINE c == ContentOf[up[w]]
  <2>1. UNCHANGED <<content, asm, rows, intact>> /\ pc[w] = "copying" /\ c \in Contents
    BY <1>2, <1>12 DEF PromoteEnd, dbVars
  <2>2. Copied(w) = {"complete"}
    BY <1>0, <2>1 DEF Copied, PromotesWhole
  <2>3. CASE /\ blob' = [blob EXCEPT ![c] = IF @ = "absent" THEN "complete" ELSE @]
             /\ Goto(w, "prepared")
    <3>1. BlobsAppear /\ blob'[c] = "complete"
      BY <1>0, <2>1, <2>3 DEF BlobsAppear, TypeOK
    <3> QED
      BY <1>0, <2>1, <2>3, <3>1, WorkerMoves
  <2>4. CASE UNCHANGED blob /\ Goto(w, "failed")
    BY <1>0, <1>1, <2>1, <2>4, WorkerMoves
  <2> QED
    BY <1>12, <2>2, <2>3, <2>4 DEF PromoteEnd
<1>13. CASE RenewBeforeTransaction(w)
  <2>1. UNCHANGED <<content, blob>> /\ pc[w] = "prepared"
    BY <1>13 DEF RenewBeforeTransaction
  <2>2. CASE Goto(w, "ready") /\ UNCHANGED <<seen, rows, asm, intact>>
    <3>1. blob'[ContentOf[up[w]]] = "complete"
      BY <1>0, <2>1 DEF PromotesWhole
    <3> QED
      BY <1>0, <1>1, <2>1, <2>2, <3>1, WorkerMoves
  <2>3. CASE End(w, asm, intact)
    BY <1>0, <1>1, <2>1, <2>3, WorkerEnds
  <2> QED
    BY <1>13, <2>2, <2>3 DEF RenewBeforeTransaction
<1>14. CASE FinalizeTransaction(w)
  <2> DEFINE c == ContentOf[up[w]]
  <2>1. UNCHANGED blob /\ pc[w] = "ready" /\ c \in Contents
    BY <1>2, <1>14 DEF FinalizeTransaction
  <2>2. CASE Goto(w, "failed") /\ UNCHANGED <<dbVars, asm, rows, intact>>
    BY <1>0, <1>1, <2>1, <2>2, WorkerMoves DEF dbVars
  <2>3. CASE AcquireReference(c) /\ End(w, asm, intact)
    <3>1. \A d \in Contents : d # c => content'[d] = content[d]
      BY <2>1, <2>3 DEF AcquireReference, TypeOK
    <3>2. blob'[c] = "complete"
      BY <1>0, <2>1 DEF PromotesWhole
    <3>3. \A d \in Contents : content'[d].id # 0 => content[d].id # 0 \/ blob'[d] = "complete"
      BY <3>1, <3>2
    <3> QED
      BY <1>0, <1>1, <2>1, <2>3, <3>3, WorkerEnds
  <2> QED
    BY <1>14, <2>2, <2>3 DEF FinalizeTransaction
<1> QED
  BY <1>3, <1>4, <1>5, <1>6, <1>7, <1>8, <1>9, <1>10, <1>11, <1>12, <1>13, <1>14 DEF WorkerStep

\* Every step keeps the objects whole.
LEMMA BlobInvStep ==
    ASSUME TypeOK, BlobInv, Backend = "s3", [Next]_vars
    PROVE  BlobInv'
<1>1. CASE UNCHANGED vars
  BY <1>1, QuietBlobs DEF vars, dbVars, storeVars, workerVars
<1>2. ASSUME NEW u \in Uploads, UploadStep(u) PROVE BlobInv'
  <2>1. UNCHANGED <<content, blob, pc, up, rows>>
    BY <1>2 DEF UploadStep, InitRead, LoadChunkTask, EvictUploadTask, CancelInProgressUpload,
                ExpireUpload, ExpireInProgressUpload, AdminReleaseLease, RebuildUploadCleanup,
                CleanupSession, LeaseRunsOut, TaskTimesOut, dbVars, storeVars, workerVars
  <2>2. UNCHANGED <<asm, intact>> \/ \E keys : Remove(keys)
    BY <1>2 DEF UploadStep, InitRead, LoadChunkTask, EvictUploadTask, CancelInProgressUpload,
                ExpireUpload, AdminReleaseLease, RebuildUploadCleanup,
                CleanupSession, LeaseRunsOut, TaskTimesOut, storeVars, workerVars
  <2> QED
    BY <2>1, <2>2, QuietBlobs
<1>3. ASSUME NEW r \in inits, InitStep(r) PROVE BlobInv'
  <2>1. UNCHANGED <<blob, pc, up, rows, asm, intact>>
    BY <1>3 DEF InitStep, InitInstant, InitResume, InitNew, InitEnds, storeVars, workerVars
  <2>2. \A c \in Contents : content'[c].id = content[c].id
    <3>1. CASE InitInstant(r)
      <4>1. ContentOf[r.up] \in Contents
        BY BytesNat DEF TypeOK, InitRequest
      <4>2. content' = [content EXCEPT ![ContentOf[r.up]].refs = @ + 1]
        BY <3>1 DEF InitInstant
      <4> QED
        BY <4>1, <4>2 DEF TypeOK, ContentRow
    <3>2. CASE UNCHANGED content
      BY <3>2
    <3> QED
      BY <1>3, <3>1, <3>2 DEF InitStep, InitResume, ExpireInProgressUpload, InitNew, InitEnds, dbVars
  <2> QED
    BY <2>1, <2>2, QuietBlobs
<1>4. ASSUME NEW q \in chunkReqs, ChunkStep(q) PROVE BlobInv'
  <2>1. UNCHANGED <<content, blob, pc, up, rows, asm, intact>>
    BY <1>4 DEF ChunkStep, WriteChunk, RecordChunk, ChunkRequestEnds, dbVars, storeVars, workerVars
  <2> QED
    BY <2>1, QuietBlobs
<1> QED
  BY <1>1, <1>2, <1>3, <1>4, WorkerBlobs DEF Next

\* With the S3 store a content row always names a whole object: whatever claims
\* race, are taken over or die in assembly or promotion (PromoteToFinal and the
\* finalize transaction).  The local store has no such theorem.
THEOREM ReferencedBlobIntactHolds == Spec => [](Backend = "s3" => ReferencedBlobIntact)
<1> DEFINE J == Backend = "s3" => BlobInv
<1>1. Init => J
  <2> SUFFICES ASSUME Init PROVE BlobInv
    OBVIOUS
  <2>1. \A w \in Workers : PromotesWhole(w)
    BY DEF Init, PromotesWhole
  <2> QED
    BY <2>1 DEF Init, BlobInv, ReferencedBlobIntact
<1>2. TypeOK /\ J /\ [Next]_vars => J'
  BY BlobInvStep
<1>3. J => (Backend = "s3" => ReferencedBlobIntact)
  BY DEF BlobInv
<1> QED
  BY <1>1, <1>2, <1>3, TypeCorrect, PTL DEF Spec

=============================================================================
