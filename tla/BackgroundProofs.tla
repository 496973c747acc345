-------------------------- MODULE BackgroundProofs --------------------------
(***************************************************************************)
(* Proofs about ProcessDrain, for any number of requests: the counter of   *)
(* requests and the flags of the two tasks are right between any two       *)
(* accesses to an atomic, so that a completed drain abandons nothing.      *)
(*                                                                         *)
(* Then proofs about DesktopTransfers, for files of any size, any number   *)
(* of chunks and of retries: what the desktop client shows of an upload is *)
(* what the server has, and a download it shows as completed holds bytes   *)
(* of its own remote file.                                                 *)
(***************************************************************************)
EXTENDS ProcessDrain, DesktopTransfers, SetSumsProofs, FiniteSetTheorems, TLAPS

-----------------------------------------------------------------------------
(* The inductive invariant.                                                *)

\* The requests between m_inflight++ and m_inflight--.
Counted == {r \in Requests : httpReq[r] \in {"counted", "serving", "refused"}}

\* The counter counts them, and never meets the guard against going below 0.
InflightExact == inflight = Cardinality(Counted)

\* Where the beginning advice, the signal handler and the main loop are tells
\* what they have stored.
StepsTold ==
    /\ boot \in {"load", "store", "initialize", "done"} => published
    /\ signal # "none" => draining
    /\ quit # "no" => signal = "done" /\ boot = "done"
    /\ \A t \in Tasks : task[t] \in {"entered", "running"} => busy[t]

DrainInv == DrainTypeOK /\ InflightExact /\ StepsTold /\ DrainedMeansIdle

-----------------------------------------------------------------------------
(* Lemmas about the counter.                                               *)

\* The requests that are counted form a finite set.
LEMMA CountedFinite ==
    /\ IsFiniteSet(Counted)
    /\ Cardinality(Counted) \in 0 .. Cardinality(Requests)
    /\ Cardinality(Requests) \in Nat
<1>1. Counted \subseteq Requests
  BY DEF Counted
<1>2. IsFiniteSet(Requests) /\ Cardinality(Requests) \in Nat
  BY RequestsAssumption, FS_CardinalityType
<1>3. IsFiniteSet(Counted) /\ Cardinality(Counted) <= Cardinality(Requests)
  BY <1>1, <1>2, FS_Subset
<1>4. Cardinality(Counted) \in Nat
  BY <1>3, FS_CardinalityType
<1> QED
  BY <1>2, <1>3, <1>4

\* The same of the next state.
LEMMA CountedFiniteNext ==
    Counted' \subseteq Requests /\ IsFiniteSet(Counted')
    /\ Cardinality(Counted') \in 0 .. Cardinality(Requests)
<1>1. Counted' \subseteq Requests
  BY DEF Counted
<1>2. IsFiniteSet(Requests) /\ Cardinality(Requests) \in Nat
  BY RequestsAssumption, FS_CardinalityType
<1>3. IsFiniteSet(Counted') /\ Cardinality(Counted') <= Cardinality(Requests)
  BY <1>1, <1>2, FS_Subset
<1>4. Cardinality(Counted') \in Nat
  BY <1>3, FS_CardinalityType
<1> QED
  BY <1>1, <1>2, <1>3, <1>4

-----------------------------------------------------------------------------
(* One lemma for each kind of thread.                                      *)

\* The process starts with nothing counted and nothing running.
LEMMA DrainInitInv == DrainInit => DrainInv
<1> SUFFICES ASSUME DrainInit PROVE DrainInv
  OBVIOUS
<1>1. Counted = {}
  BY DEF DrainInit, Counted
<1>2. InflightExact
  BY <1>1, FS_EmptySet DEF InflightExact, DrainInit
<1>3. DrainTypeOK
  <2>1. inflight \in 0 .. Cardinality(Requests)
    BY CountedFinite DEF DrainInit
  <2> QED
    BY <2>1 DEF DrainInit, DrainTypeOK, BootPc, Tasks
<1>4. StepsTold /\ DrainedMeansIdle
  BY DEF DrainInit, StepsTold, DrainedMeansIdle, Tasks
<1> QED
  BY <1>2, <1>3, <1>4 DEF DrainInv

\* A step that leaves the requests and the counter alone keeps the counter
\* exact.
LEMMA CounterKept ==
    ASSUME InflightExact, UNCHANGED <<inflight, httpReq>>
    PROVE  InflightExact'
BY DEF InflightExact, Counted

\* The beginning advice keeps the invariant, whenever the signal arrives.
LEMMA BootInv ==
    ASSUME DrainInv, Boot
    PROVE  DrainInv'
<1> USE DEF DrainInv
<1>1. UNCHANGED <<inflight, httpReq, draining, busy, task, timedOut, quit, signal>>
  BY DEF Boot, InitializeScheduler, StartWorker, PublishWorker, LoadDraining, StoreAccepting,
         MarkInitialized, stateVars, taskVars
<1>2. InflightExact'
  BY <1>1, CounterKept
<1>3. DrainTypeOK'
  BY <1>1 DEF DrainTypeOK, Boot, BootAt, InitializeScheduler, StartWorker, PublishWorker, LoadDraining,
         StoreAccepting, MarkInitialized, stateVars, taskVars, BootPc, Tasks
<1>4. StepsTold'
  BY <1>1 DEF StepsTold, Boot, BootAt, InitializeScheduler, StartWorker, PublishWorker, LoadDraining,
         StoreAccepting, MarkInitialized, stateVars, taskVars
<1>5. DrainedMeansIdle'
  BY <1>1 DEF DrainedMeansIdle
<1> QED
  BY <1>2, <1>3, <1>4, <1>5

\* TryAcquireBusinessRequest and ReleaseBusinessRequest on the I/O threads:
\* a request that counts itself after the drain began is refused by its second
\* look, so that nothing is served once the process has drained.
LEMMA RequestInv ==
    ASSUME DrainInv, NEW r \in Requests, RequestStep(r)
    PROVE  DrainInv'
<1> USE DEF DrainInv
<1>1. UNCHANGED <<initialized, draining, workerAccepting, published, accepting, busy, boot, signal, task,
                  timedOut, quit>>
  BY DEF RequestStep, FirstCheck, CountRequest, SecondCheck, ReleaseRequest, stateVars, taskVars, mainVars
<1>2. httpReq' \in [Requests -> {"new", "checked", "counted", "serving", "refused", "over"}]
  BY DEF DrainTypeOK, RequestStep, FirstCheck, CountRequest, SecondCheck, ReleaseRequest, ReqAt
<1>3. InflightExact'
  <2>1. CASE FirstCheck(r) \/ SecondCheck(r)
    <3>1. Counted' = Counted /\ inflight' = inflight
      BY <2>1 DEF DrainTypeOK, Counted, FirstCheck, SecondCheck, ReqAt, stateVars
    <3> QED
      BY <3>1 DEF InflightExact
  <2>2. CASE CountRequest(r)
    <3>1. Counted' = Counted \cup {r} /\ r \notin Counted /\ inflight' = inflight + 1
      BY <2>2 DEF DrainTypeOK, Counted, CountRequest, ReqAt
    <3>2. Cardinality(Counted') = Cardinality(Counted) + 1
      BY <3>1, CountedFinite, FS_AddElement
    <3> QED
      BY <3>1, <3>2 DEF InflightExact
  <2>3. CASE ReleaseRequest(r)
    <3>1. Counted' = Counted \ {r} /\ r \in Counted
      BY <2>3 DEF DrainTypeOK, Counted, ReleaseRequest, ReqAt
    <3>2. Cardinality(Counted') = Cardinality(Counted) - 1 /\ Cardinality(Counted') \in Nat
      BY <3>1, CountedFinite, CountedFiniteNext, FS_RemoveElement
    <3>3. inflight > 0 /\ inflight' = inflight - 1
      BY <2>3, <3>2, CountedFinite DEF InflightExact, ReleaseRequest
    <3> QED
      BY <3>2, <3>3 DEF InflightExact
  <2> QED
    BY <2>1, <2>2, <2>3 DEF RequestStep
<1>4. DrainTypeOK'
  <2>1. inflight' \in 0 .. Cardinality(Requests)
    BY <1>3, CountedFiniteNext DEF InflightExact
  <2> QED
    BY <1>1, <1>2, <2>1 DEF DrainTypeOK
<1>5. StepsTold'
  BY <1>1 DEF StepsTold
<1>6. DrainedMeansIdle'
  <2> SUFFICES ASSUME quit = "drained" PROVE \A q \in Requests : httpReq'[q] # "serving"
    BY <1>1 DEF DrainedMeansIdle
  <2>1. draining
    BY DEF StepsTold
  <2>2. ~CanAcceptBusinessRequest
    BY <2>1 DEF CanAcceptBusinessRequest
  <2>3. \A q \in Requests : httpReq[q] # "serving"
    BY DEF DrainedMeansIdle
  <2> QED
    BY <2>2, <2>3 DEF DrainTypeOK, RequestStep, FirstCheck, CountRequest, SecondCheck, ReleaseRequest, ReqAt
<1> QED
  BY <1>3, <1>4, <1>5, <1>6

\* PollOnce and SeedOnce set their in-flight flag before they run and clear it
\* after; neither runs once the loop has quit.
LEMMA TaskInv ==
    ASSUME DrainInv, BeginRun \/ \E t \in Tasks : TaskStep(t)
    PROVE  DrainInv'
<1> USE DEF DrainInv
<1>1. UNCHANGED <<stateVars, accepting, mainVars, signal, httpReq>> /\ quit = "no"
  BY DEF BeginRun, TaskStep, CheckAccepting, EnterTask, EndTask, LoopFree
<1>2. InflightExact'
  BY <1>1, CounterKept DEF stateVars
<1>3. DrainTypeOK' /\ StepsTold'
  <2>1. CASE BeginRun
    BY <1>1, <2>1 DEF DrainTypeOK, StepsTold, BeginRun, stateVars, mainVars, Tasks
  <2>2. ASSUME NEW t \in Tasks, CheckAccepting(t)
        PROVE  DrainTypeOK' /\ StepsTold'
    BY <1>1, <2>2 DEF DrainTypeOK, StepsTold, CheckAccepting, stateVars, mainVars
  <2>3. ASSUME NEW t \in Tasks, EnterTask(t)
        PROVE  DrainTypeOK' /\ StepsTold'
    BY <1>1, <2>3 DEF DrainTypeOK, StepsTold, EnterTask, stateVars, mainVars
  <2>4. ASSUME NEW t \in Tasks, EndTask(t)
        PROVE  DrainTypeOK' /\ StepsTold'
    BY <1>1, <2>4 DEF DrainTypeOK, StepsTold, EndTask, TaskEnds, stateVars, mainVars
  <2> QED
    BY <2>1, <2>2, <2>3, <2>4 DEF TaskStep
<1>4. DrainedMeansIdle'
  BY <1>1 DEF DrainedMeansIdle, mainVars
<1> QED
  BY <1>2, <1>3, <1>4

\* BeginShutdown keeps the invariant wherever the other threads are.
LEMMA ShutdownInv ==
    ASSUME DrainInv, Shutdown
    PROVE  DrainInv'
<1> USE DEF DrainInv
<1>1. UNCHANGED <<initialized, inflight, busy, task, mainVars, httpReq>> /\ quit = "no"
  BY DEF Shutdown, BeginDrain, ClearAccepting, DrainWorker, StopScheduler, ScheduleCheck, SignalAt,
         stateVars, taskVars
<1>2. InflightExact'
  BY <1>1, CounterKept
<1>3. DrainTypeOK'
  BY <1>1 DEF DrainTypeOK, Shutdown, BeginDrain, ClearAccepting, DrainWorker, StopScheduler,
         ScheduleCheck, SignalAt, stateVars, taskVars, mainVars, Tasks
<1>4. StepsTold'
  BY <1>1 DEF StepsTold, Shutdown, BeginDrain, ClearAccepting, DrainWorker, StopScheduler,
         ScheduleCheck, SignalAt, stateVars, taskVars, mainVars, Tasks
<1>5. DrainedMeansIdle'
  BY <1>1 DEF DrainedMeansIdle, mainVars
<1> QED
  BY <1>2, <1>3, <1>4, <1>5

\* check_drained, and the deadline it gives up at: a counter of 0 means that
\* no request is being served, and a published worker with both flags clear
\* that no task runs.
LEMMA CheckDrainedInv ==
    ASSUME DrainInv, DeadlinePasses \/ CheckDrained
    PROVE  DrainInv'
<1> USE DEF DrainInv
<1>1. UNCHANGED <<stateVars, taskVars, published, boot, signal, httpReq>>
  BY DEF DeadlinePasses, CheckDrained
<1>2. InflightExact'
  BY <1>1, CounterKept DEF stateVars
<1>3. DrainTypeOK' /\ StepsTold'
  <2>1. CASE DeadlinePasses
    BY <1>1, <2>1 DEF DrainTypeOK, StepsTold, DeadlinePasses, stateVars, taskVars
  <2>2. CASE CheckDrained
    BY <1>1, <2>2 DEF DrainTypeOK, StepsTold, CheckDrained, LoopFree, stateVars, taskVars
  <2> QED
    BY <2>1, <2>2
<1>4. DrainedMeansIdle'
  <2>1. CASE DeadlinePasses
    BY <1>1, <2>1 DEF DrainedMeansIdle, DeadlinePasses, taskVars
  <2>2. CASE CheckDrained /\ Drained
    <3>1. Counted = {}
      BY <2>2, CountedFinite, FS_EmptySet DEF Drained, InflightExact
    <3>2. \A r \in Requests : httpReq[r] # "serving"
      BY <3>1 DEF Counted
    <3>3. \A t \in Tasks : task[t] # "running"
      BY <2>2 DEF Drained, CheckDrained, LoopFree, StepsTold
    <3> QED
      BY <1>1, <3>2, <3>3 DEF DrainedMeansIdle, taskVars
  <2>3. CASE CheckDrained /\ ~Drained
    BY <1>1, <2>3 DEF DrainedMeansIdle, CheckDrained
  <2> QED
    BY <2>1, <2>2, <2>3
<1> QED
  BY <1>2, <1>3, <1>4

-----------------------------------------------------------------------------
\* A process that reports a completed drain abandons nothing, however its
\* threads interleave and whenever the signal arrives (TryAcquireBusinessRequest,
\* ReleaseBusinessRequest, PollOnce, SeedOnce, BeginShutdown, check_drained).
THEOREM DrainConsistentHolds == DrainSpec => []DrainConsistent
<1>1. DrainInit => DrainInv
  BY DrainInitInv
<1>2. DrainInv /\ [DrainNext]_drainVars => DrainInv'
  <2> SUFFICES ASSUME DrainInv, [DrainNext]_drainVars PROVE DrainInv'
    OBVIOUS
  <2>1. CASE UNCHANGED drainVars
    BY <2>1 DEF DrainInv, DrainTypeOK, InflightExact, Counted, StepsTold, DrainedMeansIdle, drainVars,
           stateVars, taskVars, mainVars
  <2>2. CASE DrainNext
    BY <2>2, BootInv, RequestInv, TaskInv, ShutdownInv, CheckDrainedInv DEF DrainNext
  <2> QED
    BY <2>1, <2>2
<1>3. DrainInv => DrainConsistent
  BY DEF DrainInv, DrainConsistent
<1> QED
  BY <1>1, <1>2, <1>3, PTL DEF DrainSpec

-----------------------------------------------------------------------------
(* The upload's invariant.                                                 *)

UploadStates == UploadEnded \cup {"queued", "hashing", "initializing", "uploading", "retrying",
                                  "completing", "cancelling"}
UploadRow ==
    [st : UploadStates, sid : 0..MaxSessions, chunks : SUBSET ChunkSet, active : BOOLEAN,
     retries : 0..MaxRetryCount, timer : BOOLEAN, cancelTimer : BOOLEAN, hashing : BOOLEAN]
RequestRow == [op : {"init", "chunk", "complete", "cancel"}, chunk : ChunkSet, sid : 0..MaxSessions]
SessionPhases == {"none", "active", "completed", "cancelled", "expired"}
UploadSession == [phase : SessionPhases, sid : 0..MaxSessions, got : SUBSET ChunkSet]

\* Which status a task has while a request of it is answered.
AskedIn(op) ==
    CASE op = "init" -> {"initializing"}
      [] op = "chunk" -> {"uploading", "retrying"}
      [] op = "complete" -> {"completing"}
      [] OTHER -> {"cancelling"}

\* The task u with the requests l: at most one, the one its status is about and
\* for its session; timers belong to a task that has no request outstanding,
\* or to one that was ended without them.
TaskSound(u, l) ==
    /\ u \in UploadRow /\ l \subseteq RequestRow
    /\ \A a, b \in l : a = b
    /\ \A q \in l : u.active /\ u.st \in AskedIn(q.op) /\ (q.op # "init" => q.sid = u.sid)
    /\ u.st \in UploadEnded \cup {"queued", "hashing"} => l = {} /\ ~u.active
    /\ u.st = "retrying" => u.active
    /\ u.timer => u.st = "cancelled" \/ (u.st = "retrying" /\ l = {})
    /\ u.cancelTimer => u.st = "cancelled" \/ (u.st = "cancelling" /\ l = {})

\* The task u and the session s: sessions are numbered as they are opened.
SessionKnows(u, s) ==
    /\ s \in UploadSession /\ (s.phase = "active" => s.sid > 0)
    /\ u.sid <= s.sid
    /\ s.phase = "active" /\ u.sid = s.sid => u.chunks \subseteq s.got
    /\ u.st = "completed" => s.phase = "completed"

UploadInv == TaskSound(up, live) /\ stray \subseteq RequestRow /\ SessionKnows(up, session)

-----------------------------------------------------------------------------
(* The download's invariant.                                               *)

DownloadStates == DownloadEnded \cup {"none", "fetching", "downloading", "paused", "retrying"}
AnyFile == RemoteFiles \cup {NoDownload.file}
DownloadRow ==
    [st : DownloadStates, file : AnyFile, owner : BOOLEAN, hash : BOOLEAN, range : BOOLEAN,
     received : Nat, active : BOOLEAN, handle : BOOLEAN, retries : 0..MaxRetryCount, timer : BOOLEAN]
StreamRow == [op : {"none", "meta", "data"}, from : Nat, code : {0, 200, 206, 416, 500}]
FileBytes(f) == {Junk} \cup {ByteAt(f, j) : j \in 1..DownloadSize}
AllBytes == UNION {FileBytes(f) : f \in AnyFile}
ResumeRow == [key : BOOLEAN \X AnyFile \X BOOLEAN, size : Nat]

\* A task reads a reply exactly while its status says so.
ReadsOwnReply(d, s) ==
    /\ s \in StreamRow
    /\ s.op = "none" => s = NoStream
    /\ s.op = "meta" => d.st = "fetching" /\ d.active
    /\ s.op = "data" => d.st = "downloading" /\ d.active /\ d.handle
    /\ d.st \in DownloadEnded \cup {"none"} => s.op = "none" /\ ~d.active /\ ~d.handle
    /\ d.timer => d.st \in {"retrying", "cancelled"}

\* The partial file has as many bytes as the task has received, and the
\* response at its head says how they got there.
InStep(d, s, f) ==
    /\ Len(f) = d.received /\ s.from <= d.received
    /\ IF d.range THEN s.from < DownloadSize ELSE s.from = 0
    /\ s.code = 0 => d.received = s.from
    /\ s.code = 206 => d.range /\ d.received <= DownloadSize
    /\ s.code = 200 => d.received - s.from <= DownloadSize
    /\ s.code = 416 => d.range
    /\ s.code \in {416, 500} => d.received - s.from <= 1
    /\ ~d.range /\ s.code = 200 => \A i \in 1..Len(f) : f[i] = ByteAt(d.file, i)

DownloadInv ==
    /\ down \in DownloadRow /\ started \in 0..MaxDownloads
    /\ disk \in Seq(AllBytes) /\ Len(disk) <= 2 * DownloadSize
    /\ ReadsOwnReply(down, stream)
    /\ saved # NoState => saved \in ResumeRow /\ \A i \in 1..Len(disk) : disk[i] \in FileBytes(saved.key[2])
    /\ stream.op = "data" => InStep(down, stream, disk) /\ saved # NoState /\ saved.key = Identity(down)
    /\ DownloadFollowsServer

-----------------------------------------------------------------------------
(* Uploads.                                                                *)

LEMMA ChunkFacts == ChunkSet \subseteq Nat /\ 0 \in ChunkSet /\ 0 \in 0..MaxSessions /\ 0 \in 0..MaxRetryCount
BY TransfersAssumption DEF ChunkSet

LEMMA NextChunkIn ==
    ASSUME NEW chunks \in SUBSET ChunkSet, chunks # ChunkSet
    PROVE  NextChunk(chunks) \in ChunkSet
<1>1. ChunkSet \ chunks # {} /\ ChunkSet \ chunks \in SUBSET Nat
  BY ChunkFacts
<1>2. \E c \in ChunkSet \ chunks : \A d \in ChunkSet \ chunks : c <= d
  BY <1>1, LeastNumber
<1> QED
  BY <1>2 DEF NextChunk

\* A task with one request outstanding.
LEMMA AsksOnce ==
    ASSUME NEW u \in UploadRow, NEW q \in RequestRow, u.active, u.st \in AskedIn(q.op),
           q.op # "init" => q.sid = u.sid, ~u.timer, ~u.cancelTimer
    PROVE  TaskSound(u, {q})
<1>1. AskedIn(q.op) \subseteq {"initializing", "uploading", "retrying", "completing", "cancelling"}
  BY DEF AskedIn, RequestRow
<1>2. u.st \notin UploadEnded \cup {"queued", "hashing"}
  BY <1>1 DEF UploadEnded
<1> QED
  BY <1>2 DEF TaskSound

\* A task with no request outstanding.
LEMMA AsksNothing ==
    ASSUME NEW u \in UploadRow, u.st \in UploadEnded \cup {"queued", "hashing"} => ~u.active,
           u.st = "retrying" => u.active, u.timer => u.st \in {"cancelled", "retrying"},
           u.cancelTimer => u.st \in {"cancelled", "cancelling"}
    PROVE  TaskSound(u, {})
BY DEF TaskSound

\* What the operations that send a request have in common: the task keeps its
\* session and its chunks and has not completed.
Sends(u) == /\ TaskSound(up', live') /\ up'.sid = u.sid /\ up'.chunks = u.chunks /\ up'.st # "completed"

LEMMA StartUploadInitSound ==
    ASSUME NEW u \in UploadRow, ~u.timer, ~u.cancelTimer, StartUploadInit(u, {})
    PROVE  Sends(u)
<1> DEFINE v == [u EXCEPT !.st = "initializing", !.active = TRUE, !.retries = 0]
           q == Request("init", 0, 0)
<1>1. up' = v /\ live' = {q}
  BY DEF StartUploadInit
<1>2. /\ v \in UploadRow /\ v.active /\ v.st = "initializing" /\ ~v.timer /\ ~v.cancelTimer
      /\ v.sid = u.sid /\ v.chunks = u.chunks
  BY ChunkFacts DEF UploadRow, UploadStates
<1>3. q \in RequestRow /\ q.op = "init"
  BY ChunkFacts DEF Request, RequestRow
<1> HIDE DEF v, q
<1>4. v.st \in AskedIn(q.op)
  BY <1>2, <1>3 DEF AskedIn
<1>5. TaskSound(v, {q})
  BY <1>2, <1>3, <1>4, AsksOnce
<1> QED
  BY <1>1, <1>2, <1>5 DEF Sends

LEMMA FailUploadSound ==
    ASSUME NEW u \in UploadRow, ~u.timer, ~u.cancelTimer
    PROVE  /\ FailUpload(u) \in UploadRow /\ TaskSound(FailUpload(u), {})
           /\ FailUpload(u).sid = u.sid /\ FailUpload(u).chunks = u.chunks /\ FailUpload(u).st = "failed"
<1> DEFINE v == FailUpload(u)
<1>1. /\ v \in UploadRow /\ v.st = "failed" /\ v.active = FALSE /\ v.sid = u.sid /\ v.chunks = u.chunks
      /\ ~v.timer /\ ~v.cancelTimer
  BY ChunkFacts DEF UploadRow, UploadStates, UploadEnded, FailUpload, RemoveUpload
<1> HIDE DEF v
<1>2. TaskSound(v, {})
  BY <1>1, AsksNothing
<1> QED
  BY <1>1, <1>2 DEF v

LEMMA StartChunkUploadSound ==
    ASSUME NEW u \in UploadRow, u.active, u.st \in {"uploading", "retrying"}, ~u.timer, ~u.cancelTimer,
           NEW c \in ChunkSet, StartChunkUpload(u, c, {})
    PROVE  Sends(u)
<1>1. CASE up' = u /\ live' = {Request("chunk", c, u.sid)}
  <2> DEFINE q == Request("chunk", c, u.sid)
  <2>1. q \in RequestRow /\ q.op = "chunk" /\ q.sid = u.sid
    BY DEF Request, RequestRow, UploadRow
  <2> HIDE DEF q
  <2>2. u.st \in AskedIn(q.op) /\ u.st # "completed"
    BY <2>1 DEF AskedIn
  <2>3. TaskSound(u, {q})
    BY <2>1, <2>2, AsksOnce
  <2> QED
    BY <1>1, <2>2, <2>3 DEF Sends, q
<1>2. CASE up' = FailUpload(u) /\ live' = {}
  BY <1>2, FailUploadSound DEF Sends
<1> QED
  BY <1>1, <1>2 DEF StartChunkUpload

LEMMA StartUploadCompleteSound ==
    ASSUME NEW u \in UploadRow, u.active, ~u.timer, ~u.cancelTimer, StartUploadComplete(u, {})
    PROVE  Sends(u)
<1> DEFINE v == [u EXCEPT !.st = "completing"]
           q == Request("complete", 0, u.sid)
<1>1. up' = v /\ live' = {q}
  BY DEF StartUploadComplete
<1>2. /\ v \in UploadRow /\ v.active /\ v.st = "completing" /\ ~v.timer /\ ~v.cancelTimer
      /\ v.sid = u.sid /\ v.chunks = u.chunks
  BY DEF UploadRow, UploadStates
<1>3. q \in RequestRow /\ q.op = "complete" /\ q.sid = u.sid
  BY ChunkFacts DEF Request, RequestRow, UploadRow
<1> HIDE DEF v, q
<1>4. v.st \in AskedIn(q.op)
  BY <1>2, <1>3 DEF AskedIn
<1>5. TaskSound(v, {q})
  BY <1>2, <1>3, <1>4, AsksOnce
<1> QED
  BY <1>1, <1>2, <1>5 DEF Sends

LEMMA AdvanceSound ==
    ASSUME NEW u \in UploadRow, u.active, u.st \in {"uploading", "retrying"}, ~u.timer, ~u.cancelTimer,
           AdvanceToNextChunk(u, {})
    PROVE  Sends(u)
<1>1. CASE u.chunks = ChunkSet
  BY <1>1, StartUploadCompleteSound DEF AdvanceToNextChunk
<1>2. CASE u.chunks # ChunkSet
  <2>1. NextChunk(u.chunks) \in ChunkSet
    BY <1>2, NextChunkIn DEF UploadRow
  <2> QED
    BY <1>2, <2>1, StartChunkUploadSound DEF AdvanceToNextChunk
<1> QED
  BY <1>1, <1>2

LEMMA StartUploadCancelSound ==
    ASSUME NEW u \in UploadRow, u.st = "cancelling", ~u.timer, ~u.cancelTimer, StartUploadCancel(u, {})
    PROVE  Sends(u)
<1> DEFINE v == [u EXCEPT !.active = TRUE]
           q == Request("cancel", 0, u.sid)
<1>1. up' = v /\ live' = {q}
  BY DEF StartUploadCancel
<1>2. /\ v \in UploadRow /\ v.active /\ v.st = "cancelling" /\ ~v.timer /\ ~v.cancelTimer
      /\ v.sid = u.sid /\ v.chunks = u.chunks
  BY DEF UploadRow, UploadStates
<1>3. q \in RequestRow /\ q.op = "cancel" /\ q.sid = u.sid
  BY ChunkFacts DEF Request, RequestRow, UploadRow
<1> HIDE DEF v, q
<1>4. v.st \in AskedIn(q.op)
  BY <1>2, <1>3 DEF AskedIn
<1>5. TaskSound(v, {q})
  BY <1>2, <1>3, <1>4, AsksOnce
<1> QED
  BY <1>1, <1>2, <1>5 DEF Sends

\* Whatever request reaches the server, what a task may rely on stays true: a
\* completed session stays completed, chunks are only added, and a session that
\* is opened has a number no task has seen.
LEMMA ServerActsSound ==
    ASSUME NEW u, u.sid \in 0..MaxSessions, SessionKnows(u, session), NEW q \in RequestRow, ServerActs(q)
    PROVE  SessionKnows(u, session')
<1>1. /\ session \in UploadSession /\ session.phase \in SessionPhases /\ session.sid \in 0..MaxSessions
      /\ session.got \subseteq ChunkSet /\ MaxSessions \in Nat
  BY TransfersAssumption DEF SessionKnows, UploadSession
<1>2. CASE session' = session
  BY <1>2
<1>3. CASE /\ session.phase \in {"none", "cancelled", "expired"} /\ session.sid < MaxSessions
           /\ session' = [phase |-> "active", sid |-> session.sid + 1, got |-> {}]
  <2>1. /\ session'.phase = "active" /\ session'.sid = session.sid + 1 /\ session' \in UploadSession
    BY <1>1, <1>3 DEF UploadSession, SessionPhases
  <2>2. u.sid < session'.sid /\ session'.sid > 0 /\ u.sid # session'.sid
    BY <2>1, <1>1 DEF SessionKnows
  <2>3. u.st # "completed"
    BY <1>3 DEF SessionKnows
  <2> QED
    BY <2>1, <2>2, <2>3, <1>1 DEF SessionKnows
<1>4. CASE session.phase = "active" /\ session' = [session EXCEPT !.got = @ \cup {q.chunk}]
  <2>1. /\ session'.phase = "active" /\ session'.sid = session.sid /\ session' \in UploadSession
        /\ session.got \subseteq session'.got
    BY <1>1, <1>4 DEF UploadSession, RequestRow
  <2>2. u.sid = session.sid => u.chunks \subseteq session'.got
    <3>1. session.phase = "active"
      BY <1>4
    <3>2. u.sid = session.sid => u.chunks \subseteq session.got
      BY <3>1, Zenon DEF SessionKnows
    <3> QED
      BY <3>2, <2>1, Zenon
  <2>3. u.st # "completed" /\ session.sid > 0 /\ u.sid <= session.sid
    BY <1>4 DEF SessionKnows
  <2> QED
    BY <2>1, <2>2, <2>3 DEF SessionKnows
<1>5. CASE \E p \in {"completed", "cancelled"} : session.phase = "active" /\ session' = [session EXCEPT !.phase = p]
  <2>1. PICK p \in {"completed", "cancelled"} : session.phase = "active" /\ session' = [session EXCEPT !.phase = p]
    BY <1>5
  <2>2. session'.phase = p /\ session'.sid = session.sid /\ session' \in UploadSession
    BY <1>1, <2>1 DEF UploadSession, SessionPhases
  <2> QED
    BY <2>1, <2>2 DEF SessionKnows
<1> QED
  BY <1>2, <1>3, <1>4, <1>5 DEF ServerActs, ServerInit, ServerChunk, ServerComplete, ServerCancel

\* What an answer tells is so on the server.
LEMMA AnsweredSound ==
    ASSUME UploadInv, NEW q \in live, NEW ans, Answered(q, ans)
    PROVE  /\ q \in RequestRow /\ SessionKnows(up, session')
           /\ ans = "instant" => session'.phase = "completed"
           /\ ans = "ok" /\ q.op = "chunk" =>
                 session'.phase = "active" /\ session'.sid = q.sid /\ q.chunk \in session'.got
           /\ ans = "ok" /\ q.op = "complete" => session'.phase = "completed"
<1>1. q \in RequestRow /\ SessionKnows(up, session) /\ up.sid \in 0..MaxSessions
  BY DEF UploadInv, TaskSound, UploadRow
<1>2. CASE ans \in {"busy", "limited", "refused"} /\ session' = session
  BY <1>1, <1>2
<1>3. CASE ServerActs(q) /\ ans \in {ReplyOutcome(q, session'), "busy"}
  <2>1. SessionKnows(up, session')
    BY <1>1, <1>3, ServerActsSound
  <2>2. session \in UploadSession
    BY <1>1 DEF SessionKnows
  <2>3. CASE q.op = "init"
    BY <1>1, <1>3, <2>1, <2>3 DEF ReplyOutcome
  <2>4. CASE q.op = "chunk"
    <3>1. ans = "ok" => session'.phase = "active" /\ session'.sid = q.sid
      BY <1>3, <2>4 DEF ReplyOutcome
    <3>2. ans # "instant"
      BY <1>3, <2>4 DEF ReplyOutcome
    <3>3. session' = IF session.phase = "active" /\ session.sid = q.sid
                     THEN [session EXCEPT !.got = @ \cup {q.chunk}] ELSE session
      BY <1>3, <2>4 DEF ServerActs, ServerChunk
    <3>4. session'.phase = "active" /\ session'.sid = q.sid => q.chunk \in session'.got
      BY <3>3, <2>2 DEF UploadSession
    <3> QED
      BY <1>1, <2>1, <2>4, <3>1, <3>2, <3>4
  <2>5. CASE q.op = "complete"
    BY <1>1, <1>3, <2>1, <2>5 DEF ReplyOutcome
  <2>6. CASE q.op = "cancel"
    BY <1>1, <1>3, <2>1, <2>6 DEF ReplyOutcome
  <2> QED
    BY <1>1, <2>3, <2>4, <2>5, <2>6 DEF RequestRow
<1> QED
  BY <1>2, <1>3 DEF Answered

\* A task that keeps its session and its chunks, or has given its session up.
LEMMA StillKnown ==
    ASSUME NEW u, NEW v, NEW s, SessionKnows(u, s), v.st # "completed",
           (v.sid = u.sid /\ v.chunks = u.chunks) \/ v.sid = 0
    PROVE  SessionKnows(v, s)
<1>1. s.sid \in Nat
  BY TransfersAssumption DEF SessionKnows, UploadSession
<1> QED
  BY <1>1 DEF SessionKnows

LEMMA NewUploadSound == NewUpload \in UploadRow /\ TaskSound(NewUpload, {})
<1>1. NewUpload \in UploadRow
  BY ChunkFacts DEF NewUpload, UploadRow, UploadStates
<1> QED
  BY <1>1, AsksNothing DEF NewUpload

\* A task that waits for nothing: hashing, or with a timer that elapses.
LEMMA NothingLive ==
    ASSUME UploadInv
    PROVE  /\ LeftByAbort = {} /\ AbortedBy(stray) = stray \cup live /\ AbortedBy(stray) \subseteq RequestRow
           /\ up \in UploadRow /\ up.sid \in 0..MaxSessions
           /\ \A q \in live : live \ {q} = {}
           /\ up.st \in UploadEnded \cup {"queued", "hashing"} => live = {} /\ ~up.active
  BY DEF UploadInv, TaskSound, LeftByAbort, AbortedBy, UploadRow

\* The steps that leave the server alone and answer nothing.
LEMMA LocalUploadSteps ==
    ASSUME UploadInv, StartUpload \/ HashFinished \/ RetryUpload \/ CancelUpload \/ CancelTimer \/ RetryTimer
                      \/ ClearCompletedUploads
    PROVE  UploadInv'
<1>1. /\ LeftByAbort = {} /\ AbortedBy(stray) \subseteq RequestRow
      /\ up \in UploadRow /\ up.sid \in 0..MaxSessions
      /\ up.st \in UploadEnded \cup {"queued", "hashing"} => live = {} /\ ~up.active
  BY NothingLive
<1>2. /\ TaskSound(up, live) /\ stray \subseteq RequestRow /\ SessionKnows(up, session)
      /\ up.timer => up.st = "cancelled" \/ (up.st = "retrying" /\ live = {})
      /\ up.cancelTimer => up.st = "cancelled" \/ (up.st = "cancelling" /\ live = {})
  BY DEF UploadInv, TaskSound
<1>3. session' = session
  BY DEF StartUpload, HashFinished, RetryUpload, CancelUpload, CancelTimer, RetryTimer, ClearCompletedUploads
<1>4. ASSUME NEW u, Sends(u), (u.sid = up.sid /\ u.chunks = up.chunks) \/ u.sid = 0, stray' \subseteq RequestRow
      PROVE  UploadInv'
  <2>1. SessionKnows(up', session)
    BY <1>2, <1>4, StillKnown DEF Sends
  <2> QED
    BY <1>3, <1>4, <2>1 DEF UploadInv, Sends
<1>5. ASSUME NEW u \in UploadRow, up' = u, live' = {}, TaskSound(u, {}), u.st # "completed",
             (u.sid = up.sid /\ u.chunks = up.chunks) \/ u.sid = 0, stray' \subseteq RequestRow
      PROVE  UploadInv'
  BY <1>4, <1>5 DEF Sends
<1>6. CASE StartUpload
  <2> DEFINE u == StartHashing(up)
  <2>1. /\ u \in UploadRow /\ u.st = "hashing" /\ u.active = up.active /\ u.sid = up.sid /\ u.chunks = up.chunks
        /\ u.timer = up.timer /\ u.cancelTimer = up.cancelTimer
    BY <1>1 DEF StartHashing, UploadRow, UploadStates
  <2>2. up.st = "queued" /\ up' = u /\ live' = live /\ stray' = stray
    BY <1>6 DEF StartUpload
  <2> HIDE DEF u
  <2>3. ~u.active /\ live = {} /\ ~u.timer /\ ~u.cancelTimer
    BY <2>1, <2>2, <1>1, <1>2
  <2>4. TaskSound(u, {})
    BY <2>1, <2>3, AsksNothing
  <2> QED
    BY <2>1, <2>2, <2>3, <2>4, <1>2, <1>5
<1>7. CASE HashFinished
  <2> DEFINE u == [up EXCEPT !.hashing = FALSE]
  <2>1. /\ u \in UploadRow /\ u.st = up.st /\ u.active = up.active /\ u.sid = up.sid /\ u.chunks = up.chunks
        /\ u.timer = up.timer /\ u.cancelTimer = up.cancelTimer
    BY <1>1 DEF UploadRow
  <2>2. stray' = stray
    BY <1>7 DEF HashFinished
  <2>3. CASE up' = u /\ live' = live
    <3>1. TaskSound(u, live)
      BY <1>2, <2>1 DEF TaskSound
    <3>2. SessionKnows(u, session)
      BY <1>2, <2>1 DEF SessionKnows
    <3> QED
      BY <2>2, <2>3, <3>1, <3>2, <1>2, <1>3 DEF UploadInv
  <2>4. CASE up.st = "hashing"
    <3>1. live = {} /\ ~u.timer /\ ~u.cancelTimer
      BY <2>1, <2>4, <1>1, <1>2
    <3>2. CASE up' = FailUpload(u) /\ live' = live
      <4>1. Sends(u)
        BY <3>1, <3>2, <2>1, FailUploadSound DEF Sends
      <4> HIDE DEF u
      <4> QED
        BY <4>1, <2>1, <2>2, <1>2, <1>4
    <3>3. CASE StartUploadInit(u, live)
      <4>1. Sends(u)
        BY <3>1, <3>3, <2>1, StartUploadInitSound
      <4> HIDE DEF u
      <4> QED
        BY <4>1, <2>1, <2>2, <1>2, <1>4
    <3>4. CASE up' = u /\ live' = live
      BY <3>4, <2>3
    <3> QED
      BY <1>7, <2>4, <3>2, <3>3, <3>4 DEF HashFinished
  <2> QED
    BY <1>7, <2>3, <2>4 DEF HashFinished
<1>8. CASE RetryUpload
  <2> DEFINE u == StartHashing([up EXCEPT !.chunks = {}, !.sid = 0, !.retries = 0])
  <2>1. /\ u \in UploadRow /\ u.st = "hashing" /\ u.active = up.active /\ u.sid = 0
        /\ u.timer = up.timer /\ u.cancelTimer = up.cancelTimer
    BY <1>1, ChunkFacts DEF StartHashing, UploadRow, UploadStates
  <2>2. up.st \in {"failed", "expired"} /\ up' = u /\ live' = live /\ stray' = stray
    BY <1>8 DEF RetryUpload
  <2> HIDE DEF u
  <2>3. ~u.active /\ live = {} /\ ~u.timer /\ ~u.cancelTimer
    BY <2>1, <2>2, <1>1, <1>2 DEF UploadEnded
  <2>4. TaskSound(u, {})
    BY <2>1, <2>3, AsksNothing
  <2> QED
    BY <2>1, <2>2, <2>3, <2>4, <1>2, <1>5
<1>9. CASE CancelUpload
  <2> DEFINE u == [up EXCEPT !.hashing = FALSE, !.st = "cancelling"]
             v == [RemoveUpload(u) EXCEPT !.st = "cancelled"]
  <2>1. /\ u \in UploadRow /\ u.st = "cancelling" /\ u.sid = up.sid /\ u.chunks = up.chunks
        /\ u.timer = up.timer /\ u.cancelTimer = up.cancelTimer
    BY <1>1 DEF UploadRow, UploadStates
  <2>2. /\ v \in UploadRow /\ v.st = "cancelled" /\ v.active = FALSE /\ v.sid = up.sid /\ v.chunks = up.chunks
    BY <1>1, ChunkFacts DEF UploadRow, UploadStates, UploadEnded, RemoveUpload
  <2>3. up.st \in {"uploading", "completing", "initializing", "hashing"} /\ stray' = AbortedBy(stray)
    BY <1>9 DEF CancelUpload
  <2>4. ~u.timer /\ ~u.cancelTimer
    BY <2>1, <2>3, <1>2
  <2>5. CASE up' = v /\ live' = LeftByAbort
    <3> HIDE DEF u, v
    <3>1. TaskSound(v, {})
      BY <2>2, AsksNothing
    <3> QED
      BY <2>2, <2>3, <2>5, <3>1, <1>1, <1>5
  <2>6. CASE StartUploadCancel(u, LeftByAbort)
    <3> HIDE DEF u
    <3>1. Sends(u)
      BY <2>1, <2>4, <2>6, <1>1, StartUploadCancelSound
    <3> QED
      BY <2>1, <2>3, <3>1, <1>1, <1>4
  <2> QED
    BY <1>9, <2>5, <2>6 DEF CancelUpload
<1>10. CASE CancelTimer
  <2> DEFINE u == [up EXCEPT !.cancelTimer = FALSE]
  <2>1. /\ u \in UploadRow /\ u.st = up.st /\ u.active = up.active /\ u.sid = up.sid /\ u.chunks = up.chunks
        /\ u.timer = up.timer /\ u.cancelTimer = FALSE
    BY <1>1 DEF UploadRow
  <2>2. stray' = stray /\ up.cancelTimer
    BY <1>10 DEF CancelTimer
  <2>3. CASE up' = u /\ live' = live
    <3>1. TaskSound(u, live)
      BY <1>2, <2>1 DEF TaskSound
    <3>2. SessionKnows(u, session)
      BY <1>2, <2>1 DEF SessionKnows
    <3> QED
      BY <2>2, <2>3, <3>1, <3>2, <1>2, <1>3 DEF UploadInv
  <2>4. CASE up.st = "cancelling" /\ StartUploadCancel(u, live)
    <3> HIDE DEF u
    <3>1. live = {} /\ ~u.timer
      BY <2>1, <2>2, <2>4, <1>2
    <3>2. Sends(u)
      BY <2>1, <2>4, <3>1, StartUploadCancelSound
    <3> QED
      BY <2>1, <2>2, <3>2, <1>2, <1>4
  <2> QED
    BY <1>10, <2>3, <2>4 DEF CancelTimer
<1>11. CASE RetryTimer
  <2> DEFINE u == [up EXCEPT !.timer = FALSE]
  <2>1. /\ u \in UploadRow /\ u.st = up.st /\ u.active = up.active /\ u.sid = up.sid /\ u.chunks = up.chunks
        /\ u.timer = FALSE /\ u.cancelTimer = up.cancelTimer
    BY <1>1 DEF UploadRow
  <2>2. stray' = stray /\ up.timer
    BY <1>11 DEF RetryTimer
  <2>3. CASE up' = u /\ live' = live
    <3>1. TaskSound(u, live)
      BY <1>2, <2>1 DEF TaskSound
    <3>2. SessionKnows(u, session)
      BY <1>2, <2>1 DEF SessionKnows
    <3> QED
      BY <2>2, <2>3, <3>1, <3>2, <1>2, <1>3 DEF UploadInv
  <2>4. CASE up.st = "retrying" /\ (StartUploadInit(u, live) \/ AdvanceToNextChunk(u, live))
    <3> HIDE DEF u
    <3>1. live = {} /\ ~u.cancelTimer /\ u.active
      BY <2>1, <2>2, <2>4, <1>2 DEF TaskSound
    <3>2. Sends(u)
      BY <2>1, <2>4, <3>1, StartUploadInitSound, AdvanceSound
    <3> QED
      BY <2>1, <2>2, <3>2, <1>2, <1>4
  <2> QED
    BY <1>11, <2>3, <2>4 DEF RetryTimer
<1>12. CASE ClearCompletedUploads
  <2>1. up' = NewUpload /\ live' = {} /\ stray' = stray
    BY <1>12, <1>1 DEF ClearCompletedUploads, UploadEnded
  <2>2. NewUpload.st # "completed" /\ NewUpload.sid = 0
    BY DEF NewUpload
  <2> QED
    BY <2>1, <2>2, <1>2, <1>5, NewUploadSound
<1> QED
  BY <1>6, <1>7, <1>8, <1>9, <1>10, <1>11, <1>12

\* The errors of the three upload requests.
LEMMA UploadErrorSound ==
    ASSUME NEW ans, up \in UploadRow, up.active, ~up.timer, ~up.cancelTimer, UploadError(ans, {}),
           SessionKnows(up, session')
    PROVE  TaskSound(up', live') /\ SessionKnows(up', session')
<1>1. CASE ans = "gone"
  <2>1. up' = ExpireUpload(up) /\ live' = {}
    BY <1>1 DEF UploadError
  <2>2. /\ up' \in UploadRow /\ up'.st = "expired" /\ up'.active = FALSE /\ up'.sid = 0
        /\ up'.timer = up.timer /\ up'.cancelTimer = up.cancelTimer
    BY <2>1, ChunkFacts DEF ExpireUpload, RemoveUpload, UploadRow, UploadStates, UploadEnded
  <2>3. TaskSound(up', {})
    BY <2>2, AsksNothing
  <2> QED
    BY <2>1, <2>2, <2>3, StillKnown
<1>2. CASE up' = FailUpload(up) /\ live' = {}
  BY <1>2, FailUploadSound, StillKnown
<1>3. CASE ans = "limited"
  <2>1. up' = [up EXCEPT !.st = "retrying", !.timer = TRUE] /\ live' = {}
    BY <1>3 DEF UploadError, RetryOrFailUpload
  <2>2. /\ up' \in UploadRow /\ up'.st = "retrying" /\ up'.active = TRUE /\ up'.sid = up.sid
        /\ up'.chunks = up.chunks /\ up'.cancelTimer = up.cancelTimer
    BY <2>1 DEF UploadRow, UploadStates
  <2>3. TaskSound(up', {})
    BY <2>2, AsksNothing DEF UploadEnded
  <2> QED
    BY <2>1, <2>2, <2>3, StillKnown
<1>4. CASE ans = "busy" /\ up.retries < MaxRetryCount
  <2>1. up' = [up EXCEPT !.st = "retrying", !.timer = TRUE, !.retries = @ + 1] /\ live' = {}
    BY <1>4 DEF UploadError, RetryOrFailUpload
  <2>2. up.retries + 1 \in 0..MaxRetryCount
    BY <1>4, TransfersAssumption DEF UploadRow
  <2>3. /\ up' \in UploadRow /\ up'.st = "retrying" /\ up'.active = TRUE /\ up'.sid = up.sid
        /\ up'.chunks = up.chunks /\ up'.cancelTimer = up.cancelTimer
    BY <2>1, <2>2 DEF UploadRow, UploadStates
  <2>4. TaskSound(up', {})
    BY <2>3, AsksNothing DEF UploadEnded
  <2> QED
    BY <2>1, <2>3, <2>4, StillKnown
<1> QED
  BY <1>1, <1>2, <1>3, <1>4 DEF UploadError, RetryOrFailUpload

\* A task that ends as completed.
LEMMA UploadDone ==
    ASSUME up \in UploadRow, up.active, ~up.timer, ~up.cancelTimer, SessionKnows(up, session'),
           session'.phase = "completed", up' = [RemoveUpload(up) EXCEPT !.st = "completed"], live' = {}
    PROVE  TaskSound(up', live') /\ SessionKnows(up', session')
<1>1. /\ up' \in UploadRow /\ up'.st = "completed" /\ up'.active = FALSE /\ up'.sid = up.sid
      /\ up'.chunks = up.chunks /\ up'.timer = up.timer /\ up'.cancelTimer = up.cancelTimer
  BY ChunkFacts DEF RemoveUpload, UploadRow, UploadStates, UploadEnded
<1>2. TaskSound(up', {})
  BY <1>1, AsksNothing
<1> QED
  BY <1>1, <1>2 DEF SessionKnows

LEMMA UploadReplyKeeps ==
    ASSUME UploadInv, UploadReply
    PROVE  UploadInv'
<1>1. PICK q \in live, ans \in {"ok", "instant", "gone", "busy", "limited", "refused"} :
          /\ Answered(q, ans)
          /\ IF ~up.active THEN up' = up /\ live' = live \ {q}
             ELSE \/ q.op = "init" /\ HandleInitResponse(q, ans)
                  \/ q.op = "chunk" /\ HandleChunkResponse(q, ans)
                  \/ q.op = "complete" /\ HandleCompleteResponse(q, ans)
                  \/ q.op = "cancel" /\ HandleCancelResponse(q, ans)
  BY DEF UploadReply
<1>2. stray' = stray /\ stray \subseteq RequestRow
  BY DEF UploadReply, UploadInv
<1>3. /\ q \in RequestRow /\ SessionKnows(up, session')
      /\ ans = "instant" => session'.phase = "completed"
      /\ ans = "ok" /\ q.op = "chunk" =>
            session'.phase = "active" /\ session'.sid = q.sid /\ q.chunk \in session'.got
      /\ ans = "ok" /\ q.op = "complete" => session'.phase = "completed"
  BY <1>1, AnsweredSound
<1>4. live \ {q} = {} /\ up \in UploadRow
  BY NothingLive
<1>5. up.active /\ up.st \in AskedIn(q.op) /\ (q.op # "init" => q.sid = up.sid)
  BY DEF UploadInv, TaskSound
<1>6. ~up.timer /\ ~up.cancelTimer
  <2>1. up.st # "cancelled"
    BY <1>3, <1>5 DEF AskedIn, RequestRow
  <2> QED
    BY <2>1 DEF UploadInv, TaskSound
<1>7. session' \in UploadSession
  BY <1>3 DEF SessionKnows
<1> SUFFICES TaskSound(up', live') /\ SessionKnows(up', session')
  BY <1>2 DEF UploadInv
<1>8. CASE UploadError(ans, live \ {q})
  BY <1>8, <1>3, <1>4, <1>5, <1>6, UploadErrorSound
<1>9. CASE q.op = "init" /\ HandleInitResponse(q, ans)
  <2>1. CASE ans = "instant" /\ up' = [RemoveUpload(up) EXCEPT !.st = "completed"] /\ live' = live \ {q}
    BY <2>1, <1>3, <1>4, <1>5, <1>6, UploadDone
  <2>2. CASE ans = "ok" /\ AdvanceToNextChunk([up EXCEPT !.st = "uploading", !.sid = session'.sid,
                                                         !.chunks = session'.got], live \ {q})
    <3> DEFINE u == [up EXCEPT !.st = "uploading", !.sid = session'.sid, !.chunks = session'.got]
    <3>1. /\ u \in UploadRow /\ u.active /\ u.st = "uploading" /\ ~u.timer /\ ~u.cancelTimer
          /\ u.sid = session'.sid /\ u.chunks = session'.got
      BY <1>4, <1>5, <1>6, <1>7 DEF UploadRow, UploadSession, UploadStates
    <3> HIDE DEF u
    <3>2. Sends(u)
      BY <2>2, <3>1, <1>4, AdvanceSound DEF u
    <3>3. SessionKnows(u, session')
      <4>1. session'.sid \in Nat
        BY <1>7 DEF UploadSession
      <4> QED
        BY <3>1, <4>1, <1>3 DEF SessionKnows
    <3> QED
      BY <3>2, <3>3, StillKnown DEF Sends
  <2> QED
    BY <1>8, <1>9, <2>1, <2>2 DEF HandleInitResponse
<1>10. CASE q.op = "chunk" /\ HandleChunkResponse(q, ans)
  <2>1. CASE ans = "ok" /\ AdvanceToNextChunk([up EXCEPT !.chunks = @ \cup {q.chunk}], live \ {q})
    <3> DEFINE u == [up EXCEPT !.chunks = @ \cup {q.chunk}]
    <3>1. /\ u \in UploadRow /\ u.active /\ u.st = up.st /\ ~u.timer /\ ~u.cancelTimer
          /\ u.sid = up.sid /\ u.chunks = up.chunks \cup {q.chunk}
      BY <1>3, <1>4, <1>5, <1>6 DEF UploadRow, RequestRow
    <3> HIDE DEF u
    <3>2. u.st \in {"uploading", "retrying"}
      BY <3>1, <1>5, <1>10 DEF AskedIn
    <3>3. Sends(u)
      BY <2>1, <3>1, <3>2, <1>4, AdvanceSound DEF u
    <3>4. SessionKnows(u, session')
      BY <2>1, <3>1, <1>3, <1>10 DEF SessionKnows
    <3> QED
      BY <3>3, <3>4, StillKnown DEF Sends
  <2> QED
    BY <1>8, <1>10, <2>1 DEF HandleChunkResponse
<1>11. CASE q.op = "complete" /\ HandleCompleteResponse(q, ans)
  <2>1. CASE ans = "ok" /\ up' = [RemoveUpload(up) EXCEPT !.st = "completed"] /\ live' = live \ {q}
    BY <2>1, <1>3, <1>4, <1>5, <1>6, <1>11, UploadDone
  <2> QED
    BY <1>8, <1>11, <2>1 DEF HandleCompleteResponse
<1>12. CASE q.op = "cancel" /\ HandleCancelResponse(q, ans)
  <2>1. up.st = "cancelling"
    BY <1>5, <1>12 DEF AskedIn
  <2>2. CASE up.retries < MaxRetryCount /\ up' = [up EXCEPT !.retries = @ + 1, !.cancelTimer = TRUE] /\ live' = live \ {q}
    <3>1. up.retries + 1 \in 0..MaxRetryCount
      BY <2>2, <1>4, TransfersAssumption DEF UploadRow
    <3>2. /\ up' \in UploadRow /\ up'.st = "cancelling" /\ up'.sid = up.sid /\ up'.chunks = up.chunks
          /\ up'.timer = up.timer
      BY <2>1, <2>2, <3>1, <1>4 DEF UploadRow
    <3>3. TaskSound(up', {})
      BY <3>2, <1>6, AsksNothing DEF UploadEnded
    <3> QED
      BY <2>2, <3>2, <3>3, <1>3, <1>4, StillKnown
  <2>3. CASE up' = [RemoveUpload(up) EXCEPT !.st = "cancelled"] /\ live' = live \ {q}
    <3>1. /\ up' \in UploadRow /\ up'.st = "cancelled" /\ up'.active = FALSE /\ up'.sid = up.sid
          /\ up'.chunks = up.chunks
      BY <2>3, <1>4, ChunkFacts DEF RemoveUpload, UploadRow, UploadStates, UploadEnded
    <3>2. TaskSound(up', {})
      BY <3>1, AsksNothing
    <3> QED
      BY <2>3, <3>1, <3>2, <1>3, <1>4, StillKnown
  <2> QED
    BY <1>12, <2>2, <2>3 DEF HandleCancelResponse
<1> QED
  BY <1>1, <1>5, <1>9, <1>10, <1>11, <1>12

\* The server acts on its own, the owner's session ends, the application dies.
LEMMA OtherUploadSteps ==
    ASSUME UploadInv, StrayArrives \/ SessionExpires \/ ShutdownOwnerTransfers \/ ApplicationDies
    PROVE  UploadInv'
<1>1. /\ LeftByAbort = {} /\ AbortedBy(stray) \subseteq RequestRow
      /\ up \in UploadRow /\ up.sid \in 0..MaxSessions
  BY NothingLive
<1>2. TaskSound(up, live) /\ stray \subseteq RequestRow /\ SessionKnows(up, session) /\ live \subseteq RequestRow
  BY DEF UploadInv, TaskSound
<1>3. CASE StrayArrives
  <2>1. PICK q \in stray : ServerActs(q) /\ stray' = stray \ {q}
    BY <1>3 DEF StrayArrives
  <2>2. SessionKnows(up, session')
    BY <2>1, <1>1, <1>2, ServerActsSound
  <2> QED
    BY <2>1, <2>2, <1>2, <1>3 DEF StrayArrives, UploadInv
<1>4. CASE SessionExpires
  <2>1. session.phase = "active" /\ session' = [session EXCEPT !.phase = "expired"]
        /\ up' = up /\ live' = live /\ stray' = stray
    BY <1>4 DEF SessionExpires
  <2>2. session'.phase = "expired" /\ session'.sid = session.sid /\ session' \in UploadSession
    BY <2>1, <1>2 DEF SessionKnows, UploadSession, SessionPhases
  <2>3. SessionKnows(up, session')
    BY <2>1, <2>2, <1>2 DEF SessionKnows
  <2> QED
    BY <2>1, <2>3, <1>2 DEF UploadInv
<1>5. CASE ShutdownOwnerTransfers
  <2>1. session' = session
    BY <1>5 DEF ShutdownOwnerTransfers
  <2>2. CASE UNCHANGED <<up, live, stray>>
    BY <2>1, <2>2, <1>2 DEF UploadInv
  <2>3. CASE /\ live' = LeftByAbort /\ stray' = AbortedBy(stray)
             /\ up' = [RemoveUpload(up) EXCEPT !.st = "cancelled", !.sid = 0, !.chunks = {}]
    <3>1. up' \in UploadRow /\ up'.st = "cancelled" /\ up'.active = FALSE /\ up'.sid = 0
      BY <2>3, <1>1, ChunkFacts DEF RemoveUpload, UploadRow, UploadStates, UploadEnded
    <3>2. TaskSound(up', {})
      BY <3>1, AsksNothing
    <3>3. SessionKnows(up', session)
      BY <3>1, <1>2, StillKnown
    <3> QED
      BY <2>1, <2>3, <3>2, <3>3, <1>1 DEF UploadInv
  <2> QED
    BY <1>5, <2>2, <2>3 DEF ShutdownOwnerTransfers
<1>6. CASE ApplicationDies
  <2>1. up' = NewUpload /\ live' = {} /\ stray' = stray \cup live /\ session' = session
    BY <1>6 DEF ApplicationDies
  <2>2. NewUpload.st # "completed" /\ NewUpload.sid = 0
    BY DEF NewUpload
  <2>3. SessionKnows(NewUpload, session)
    BY <2>2, <1>2, StillKnown
  <2> QED
    BY <2>1, <2>3, <1>2, NewUploadSound DEF UploadInv
<1> QED
  BY <1>3, <1>4, <1>5, <1>6

LEMMA UploadInitially == TransferInit => UploadInv
<1> SUFFICES ASSUME TransferInit
             PROVE  UploadInv
  OBVIOUS
<1>1. up = NewUpload /\ live = {} /\ stray = {} /\ session = [phase |-> "none", sid |-> 0, got |-> {}]
  BY DEF TransferInit
<1>2. session \in UploadSession /\ session.phase = "none" /\ session.sid = 0
  BY <1>1, ChunkFacts DEF UploadSession, SessionPhases
<1>3. SessionKnows(up, session)
  BY <1>1, <1>2 DEF SessionKnows, NewUpload
<1> QED
  BY <1>1, <1>3, NewUploadSound DEF UploadInv

-----------------------------------------------------------------------------
(* Downloads.                                                              *)

LEMMA ByteFacts ==
    /\ \A f \in AnyFile : FileBytes(f) \subseteq AllBytes
    /\ \A f : Junk \in FileBytes(f) /\ \A j \in 1..DownloadSize : ByteAt(f, j) \in FileBytes(f)
BY DEF FileBytes, AllBytes

\* The resume state of a task names the task's file.
LEMMA ResumeFacts ==
    ASSUME NEW d \in DownloadRow, NEW size \in Nat
    PROVE  /\ ResumeState(d, size) \in ResumeRow /\ ResumeState(d, size) # NoState
           /\ ResumeState(d, size).key = Identity(d) /\ ResumeState(d, size).size = size
           /\ Identity(d)[2] = d.file /\ d.file \in AnyFile
<1>1. Identity(d) \in BOOLEAN \X AnyFile \X BOOLEAN /\ Identity(d)[2] = d.file /\ d.file \in AnyFile
  BY DEF Identity, DownloadRow
<1>2. Identity(d) # <<>>
  BY DEF Identity
<1>3. ResumeState(d, size).key = Identity(d) /\ ResumeState(d, size).size = size
  BY DEF ResumeState
<1>4. ResumeState(d, size) # NoState
  BY <1>2, <1>3 DEF NoState
<1> QED
  BY <1>1, <1>3, <1>4 DEF ResumeState, ResumeRow

\* A task that does not end as completed.
LEMMA DownloadGoesOn ==
    ASSUME down' \in DownloadRow, started' \in 0..MaxDownloads, disk' \in Seq(AllBytes),
           Len(disk') <= 2 * DownloadSize, ReadsOwnReply(down', stream'),
           saved' # NoState => saved' \in ResumeRow /\ \A i \in 1..Len(disk') : disk'[i] \in FileBytes(saved'.key[2]),
           stream'.op = "data" => InStep(down', stream', disk') /\ saved' # NoState /\ saved'.key = Identity(down'),
           down'.st # "completed"
    PROVE  DownloadInv'
<1>1. DownloadFollowsServer'
  BY DEF DownloadFollowsServer, VerifiedWhole, CompletedFromOwn
<1>2. NoState' = NoState
  BY DEF NoState
<1> QED
  BY <1>1, <1>2 DEF DownloadInv, NoState

LEMMA DownloadNames ==
    /\ DownloadEnded \subseteq DownloadStates /\ "downloading" \in DownloadStates /\ "fetching" \in DownloadStates
    /\ "retrying" \in DownloadStates /\ "paused" \in DownloadStates /\ "none" \in DownloadStates
    /\ {"downloading", "fetching", "retrying", "paused"} \cap (DownloadEnded \cup {"none"}) = {}
    /\ NoStream \in StreamRow /\ NoStream.op = "none"
    /\ 0 \in 0..MaxRetryCount /\ DownloadSize \in Nat /\ DownloadSize > 0 /\ 0 <= 2 * DownloadSize
BY TransfersAssumption DEF DownloadStates, DownloadEnded, NoStream, StreamRow

\* A task that has failed.
LEMMA FailDownloadSound ==
    ASSUME NEW d \in DownloadRow, ~d.timer
    PROVE  /\ FailDownload(d) \in DownloadRow /\ FailDownload(d).st = "failed" /\ ReadsOwnReply(FailDownload(d), NoStream)
           /\ Identity(FailDownload(d)) = Identity(d)
<1> DEFINE v == FailDownload(d)
<1>1. /\ v \in DownloadRow /\ v.st = "failed" /\ v.active = FALSE /\ v.handle = FALSE /\ v.timer = FALSE
      /\ v.owner = d.owner /\ v.file = d.file /\ v.hash = d.hash
  BY DownloadNames DEF DownloadRow, FailDownload, RemoveDownload, DownloadStates, DownloadEnded
<1> HIDE DEF v
<1>2. ReadsOwnReply(v, NoStream)
  BY <1>1, DownloadNames DEF ReadsOwnReply
<1> QED
  BY <1>1, <1>2 DEF Identity, v

\* A task that starts to read the content behind the first n bytes.
LEMMA TransferStarts ==
    ASSUME NEW t \in DownloadRow, ~t.timer, started' \in 0..MaxDownloads, NEW n \in Nat,
           n = t.received, t.range => n < DownloadSize, ~t.range => n = 0,
           disk' \in Seq(AllBytes), Len(disk') = n,
           \A i \in 1..Len(disk') : disk'[i] \in FileBytes(t.file),
           saved' = ResumeState(t, n),
           \/ /\ down' = [t EXCEPT !.st = "downloading", !.active = TRUE, !.handle = TRUE]
              /\ stream' = [op |-> "data", from |-> n, code |-> 0]
           \/ down' = FailDownload(t) /\ stream' = NoStream
    PROVE  DownloadInv'
<1>1. /\ saved' \in ResumeRow /\ saved' # NoState /\ saved'.key = Identity(t) /\ Identity(t)[2] = t.file
  BY ResumeFacts
<1>2. Len(disk') <= 2 * DownloadSize
  BY DownloadNames
<1>3. CASE /\ down' = [t EXCEPT !.st = "downloading", !.active = TRUE, !.handle = TRUE]
           /\ stream' = [op |-> "data", from |-> n, code |-> 0]
  <2>1. /\ down' \in DownloadRow /\ down'.st = "downloading" /\ down'.active /\ down'.handle /\ ~down'.timer
        /\ down'.received = n /\ down'.range = t.range
        /\ down'.owner = t.owner /\ down'.file = t.file /\ down'.hash = t.hash
    BY <1>3, DownloadNames DEF DownloadRow
  <2>2. stream' \in StreamRow /\ stream'.op = "data" /\ stream'.from = n /\ stream'.code = 0
    BY <1>3 DEF StreamRow
  <2>3. ReadsOwnReply(down', stream')
    BY <2>1, <2>2, DownloadNames DEF ReadsOwnReply
  <2>4. InStep(down', stream', disk')
    BY <2>1, <2>2 DEF InStep
  <2>5. saved'.key = Identity(down')
    BY <1>1, <2>1 DEF Identity
  <2> QED
    BY <1>1, <1>2, <2>1, <2>3, <2>4, <2>5, DownloadGoesOn
<1>4. CASE down' = FailDownload(t) /\ stream' = NoStream
  <2>1. down' \in DownloadRow /\ down'.st = "failed" /\ ReadsOwnReply(down', stream')
    BY <1>4, FailDownloadSound
  <2> QED
    BY <1>1, <1>2, <1>4, <2>1, DownloadGoesOn, DownloadNames
<1> QED
  BY <1>3, <1>4

LEMMA PrepareAndStartSound ==
    ASSUME DownloadInv, NEW d \in DownloadRow, ~d.timer, started' \in 0..MaxDownloads, PrepareAndStart(d)
    PROVE  DownloadInv'
<1> DEFINE resume == CanResume(d)
           size == IF resume THEN Len(disk) ELSE 0
           t == [d EXCEPT !.range = resume, !.received = size]
<1>1. disk \in Seq(AllBytes) /\ Len(disk) \in Nat
  BY DEF DownloadInv
<1>2. size \in Nat /\ resume \in BOOLEAN
  BY <1>1 DEF CanResume
<1>3. /\ t \in DownloadRow /\ t.range = resume /\ t.received = size /\ t.file = d.file /\ t.timer = d.timer
      /\ Identity(t) = Identity(d)
  <2> HIDE DEF resume, size
  <2> QED
    BY <1>2 DEF DownloadRow, Identity
<1>4. /\ saved' = ResumeState(t, size) /\ disk' = (IF resume THEN disk ELSE <<>>)
      /\ \/ /\ down' = [t EXCEPT !.st = "downloading", !.active = TRUE, !.handle = TRUE]
            /\ stream' = [op |-> "data", from |-> size, code |-> 0]
         \/ down' = FailDownload(t) /\ stream' = NoStream
  BY DEF PrepareAndStart
<1>5. CASE resume
  <2>1. /\ Len(disk) < DownloadSize /\ saved # NoState /\ saved.key = Identity(d)
    BY <1>5 DEF CanResume, persisted_state_matches
  <2>2. \A i \in 1..Len(disk) : disk[i] \in FileBytes(d.file)
    BY <2>1, ResumeFacts DEF DownloadInv
  <2>3. disk' = disk /\ size = Len(disk)
    BY <1>4, <1>5
  <2> HIDE DEF t, size, resume
  <2>4. disk' \in Seq(AllBytes) /\ Len(disk') = size /\ size < DownloadSize
        /\ \A i \in 1..Len(disk') : disk'[i] \in FileBytes(t.file)
    BY <2>1, <2>2, <2>3, <1>1, <1>3
  <2> QED
    BY <2>4, <1>2, <1>3, <1>4, <1>5, TransferStarts
<1>6. CASE ~resume
  <2>1. disk' = <<>> /\ size = 0
    BY <1>4, <1>6
  <2>2. disk' \in Seq(AllBytes) /\ Len(disk') = 0 /\ \A i \in 1..Len(disk') : disk'[i] \in FileBytes(t.file)
    BY <2>1
  <2> HIDE DEF t, size, resume
  <2> QED
    BY <2>1, <2>2, <1>2, <1>3, <1>4, <1>6, TransferStarts
<1> QED
  BY <1>5, <1>6

LEMMA RestartDownloadSound ==
    ASSUME DownloadInv, NEW d \in DownloadRow, ~d.timer, started' \in 0..MaxDownloads, RestartDownload(d)
    PROVE  DownloadInv'
<1> DEFINE t == [d EXCEPT !.range = FALSE, !.received = 0]
<1>1. /\ t \in DownloadRow /\ t.range = FALSE /\ t.received = 0 /\ t.timer = d.timer
      /\ Identity(t) = Identity(d)
  BY DEF DownloadRow, Identity
<1>2. /\ disk' = <<>> /\ saved' = ResumeState(t, 0)
      /\ \/ /\ down' = [t EXCEPT !.st = "downloading", !.active = TRUE, !.handle = TRUE]
            /\ stream' = [op |-> "data", from |-> 0, code |-> 0]
         \/ down' = FailDownload(t) /\ stream' = NoStream
  <2>1. ResumeState(t, 0) = ResumeState(d, 0)
    BY <1>1 DEF ResumeState
  <2> QED
    BY <2>1 DEF RestartDownload, DownloadRow
<1>3. disk' \in Seq(AllBytes) /\ Len(disk') = 0 /\ \A i \in 1..Len(disk') : disk'[i] \in FileBytes(t.file)
  BY <1>2
<1> HIDE DEF t
<1> QED
  BY <1>1, <1>2, <1>3, TransferStarts

LEMMA ContinueSound ==
    ASSUME DownloadInv, NEW d \in DownloadRow, ~d.timer, started' \in 0..MaxDownloads, Continue(d)
    PROVE  DownloadInv'
<1>1. CASE PrepareAndStart(d)
  BY <1>1, PrepareAndStartSound
<1>2. CASE FetchDownloadMetadata(d)
  <2>1. /\ down' = [d EXCEPT !.st = "fetching", !.active = TRUE, !.retries = 0, !.handle = FALSE]
        /\ stream' = [op |-> "meta", from |-> 0, code |-> 0] /\ disk' = disk /\ saved' = saved
    BY <1>2 DEF FetchDownloadMetadata
  <2>2. down' \in DownloadRow /\ down'.st = "fetching" /\ down'.active /\ ~down'.timer
    BY <2>1, DownloadNames DEF DownloadRow
  <2>3. stream' \in StreamRow /\ stream'.op = "meta"
    BY <2>1 DEF StreamRow
  <2>4. ReadsOwnReply(down', stream')
    BY <2>2, <2>3, DownloadNames DEF ReadsOwnReply
  <2> QED
    BY <2>1, <2>2, <2>3, <2>4, DownloadGoesOn DEF DownloadInv
<1> QED
  BY <1>1, <1>2 DEF Continue

LEMMA NoDownloadSound ==
    /\ NoDownload \in DownloadRow /\ NoDownload.st = "none" /\ ~NoDownload.timer /\ ReadsOwnReply(NoDownload, NoStream)
<1>1. /\ NoDownload.st = "none" /\ NoDownload.timer = FALSE /\ NoDownload.active = FALSE /\ NoDownload.handle = FALSE
  BY DEF NoDownload
<1>2. NoDownload.file \in AnyFile
  BY DEF AnyFile
<1>3. NoDownload \in DownloadRow
  <2>1. NoDownload.file = CHOOSE f \in RemoteFiles : TRUE
    BY DEF NoDownload
  <2> QED
    BY <1>2, <2>1, DownloadNames DEF NoDownload, DownloadRow
<1> QED
  BY <1>1, <1>3, DownloadNames DEF ReadsOwnReply

\* A task whose reply has failed, or that is put off.
LEMMA RetryOrFailSound ==
    ASSUME DownloadInv, NEW d \in DownloadRow, ~d.timer, RetryOrFailDownload(d), stream' = NoStream,
           UNCHANGED <<disk, saved, started>>
    PROVE  DownloadInv'
<1>1. CASE d.active /\ d.retries < MaxRetryCount
           /\ down' = [d EXCEPT !.st = "retrying", !.retries = @ + 1, !.timer = TRUE, !.handle = FALSE]
  <2>1. d.retries + 1 \in 0..MaxRetryCount
    BY <1>1, TransfersAssumption DEF DownloadRow
  <2>2. down' \in DownloadRow /\ down'.st = "retrying"
    BY <1>1, <2>1, DownloadNames DEF DownloadRow
  <2>3. ReadsOwnReply(down', stream')
    BY <2>2, DownloadNames DEF ReadsOwnReply
  <2> QED
    BY <2>2, <2>3, DownloadGoesOn, DownloadNames DEF DownloadInv
<1>2. CASE down' = FailDownload(d)
  <2>1. down' \in DownloadRow /\ down'.st = "failed" /\ ReadsOwnReply(down', stream')
    BY <1>2, FailDownloadSound
  <2> QED
    BY <2>1, DownloadGoesOn, DownloadNames DEF DownloadInv
<1> QED
  BY <1>1, <1>2 DEF RetryOrFailDownload

\* The steps of the user and of the timer.
LEMMA UserDownloadSteps ==
    ASSUME DownloadInv, StartDownload \/ PauseDownload \/ ResumeDownload \/ RetryDownload \/ CancelDownload
                        \/ ClearCompletedDownloads \/ DownloadRetryTimer \/ HandleMetadataResponse
    PROVE  DownloadInv'
<1>1. /\ down \in DownloadRow /\ started \in 0..MaxDownloads /\ ReadsOwnReply(down, stream)
      /\ down.timer => down.st \in {"retrying", "cancelled"}
      /\ down.st \in DownloadEnded \cup {"none"} => stream = NoStream /\ ~down.active /\ ~down.handle
  BY DEF DownloadInv, ReadsOwnReply
<1>2. CASE StartDownload
  <2>1. PICK f \in RemoteFiles, owner \in BOOLEAN, hash \in BOOLEAN :
            Continue([NoDownload EXCEPT !.file = f, !.owner = owner, !.hash = hash])
    BY <1>2 DEF StartDownload
  <2> DEFINE d == [NoDownload EXCEPT !.file = f, !.owner = owner, !.hash = hash]
  <2>2. d \in DownloadRow /\ ~d.timer
    BY NoDownloadSound DEF DownloadRow, AnyFile
  <2>3. started' \in 0..MaxDownloads
    <3>1. started' = started + 1 /\ started < MaxDownloads
      BY <1>2, Zenon DEF StartDownload
    <3> QED
      BY <3>1, <1>1, TransfersAssumption
  <2> HIDE DEF d
  <2> QED
    BY <2>1, <2>2, <2>3, ContinueSound DEF d
<1>3. CASE PauseDownload
  <2>1. /\ down' = [down EXCEPT !.st = "paused", !.handle = FALSE] /\ stream' = NoStream
        /\ disk' = disk /\ saved' = saved /\ started' = started /\ down.st = "downloading"
    BY <1>3 DEF PauseDownload
  <2>2. down' \in DownloadRow /\ down'.st = "paused" /\ down'.timer = down.timer
    BY <2>1, <1>1, DownloadNames DEF DownloadRow
  <2>3. ReadsOwnReply(down', stream')
    BY <2>1, <2>2, <1>1, DownloadNames DEF ReadsOwnReply
  <2> QED
    BY <2>1, <2>2, <2>3, DownloadGoesOn, DownloadNames DEF DownloadInv
<1>4. CASE ResumeDownload
  BY <1>1, <1>4, ContinueSound DEF ResumeDownload
<1>5. CASE RetryDownload
  <2> DEFINE d == [down EXCEPT !.retries = 0]
  <2>1. d \in DownloadRow /\ d.timer = down.timer
    BY <1>1, DownloadNames DEF DownloadRow
  <2>2. Continue(d) /\ started' = started /\ down.st = "failed"
    BY <1>5 DEF RetryDownload
  <2> HIDE DEF d
  <2> QED
    BY <2>1, <2>2, <1>1, ContinueSound
<1>6. CASE CancelDownload
  <2>1. /\ down' = [RemoveDownload(down) EXCEPT !.st = "cancelled"]
        /\ stream' = NoStream /\ disk' = <<>> /\ saved' = NoState /\ started' = started
    BY <1>6 DEF CancelDownload
  <2>2. down' \in DownloadRow /\ down'.st = "cancelled" /\ down'.active = FALSE /\ down'.handle = FALSE
    BY <2>1, <1>1, DownloadNames DEF DownloadRow, RemoveDownload, DownloadEnded
  <2>3. ReadsOwnReply(down', stream')
    BY <2>1, <2>2, DownloadNames DEF ReadsOwnReply
  <2>4. disk' \in Seq(AllBytes) /\ Len(disk') <= 2 * DownloadSize
    BY <2>1, DownloadNames
  <2> QED
    BY <2>1, <2>2, <2>3, <2>4, <1>1, DownloadGoesOn, DownloadNames
<1>7. CASE ClearCompletedDownloads
  <2>1. /\ down' = NoDownload /\ stream' = stream /\ disk' = disk /\ saved' = saved /\ started' = started
        /\ stream = NoStream
    BY <1>1, <1>7 DEF ClearCompletedDownloads, DownloadEnded
  <2> QED
    BY <2>1, NoDownloadSound, DownloadGoesOn, DownloadNames DEF DownloadInv
<1>8. CASE DownloadRetryTimer
  <2> DEFINE d == [down EXCEPT !.timer = FALSE]
  <2>1. /\ d \in DownloadRow /\ d.timer = FALSE /\ d.st = down.st /\ d.active = down.active
        /\ d.handle = down.handle
    BY <1>1 DEF DownloadRow
  <2>2. started' = started /\ down.timer
    BY <1>8 DEF DownloadRetryTimer
  <2>3. CASE Continue(d)
    <3> HIDE DEF d
    <3> QED
      BY <2>1, <2>2, <2>3, <1>1, ContinueSound
  <2>4. CASE ~down.active /\ down' = d /\ UNCHANGED <<stream, disk, saved>>
    <3> HIDE DEF d
    <3>1. ReadsOwnReply(down', stream')
      BY <2>1, <2>4, <1>1 DEF ReadsOwnReply
    <3>2. stream.op # "data" /\ down.st # "completed"
      BY <2>2, <2>4, <1>1 DEF ReadsOwnReply
    <3> QED
      BY <2>1, <2>2, <2>4, <3>1, <3>2, DownloadGoesOn DEF DownloadInv
  <2> QED
    BY <1>8, <2>3, <2>4 DEF DownloadRetryTimer
<1>9. CASE HandleMetadataResponse
  <2>1. stream.op = "meta" /\ started' = started /\ ~down.timer
    BY <1>1, <1>9 DEF HandleMetadataResponse, ReadsOwnReply
  <2>2. CASE PrepareAndStart(down)
    BY <2>1, <2>2, <1>1, PrepareAndStartSound
  <2>3. CASE RetryOrFailDownload(down) /\ stream' = NoStream /\ UNCHANGED <<disk, saved>>
    BY <2>1, <2>3, <1>1, RetryOrFailSound
  <2> QED
    BY <1>9, <2>2, <2>3 DEF HandleMetadataResponse
<1> QED
  BY <1>2, <1>3, <1>4, <1>5, <1>6, <1>7, <1>8, <1>9

\* The head of a response.
LEMMA ResponseBeginsKeeps ==
    ASSUME DownloadInv, ResponseBegins
    PROVE  DownloadInv'
<1>1. /\ stream.op = "data" /\ stream.code = 0 /\ down' = down /\ disk' = disk /\ saved' = saved
      /\ started' = started
  BY DEF ResponseBegins
<1>2. /\ down \in DownloadRow /\ ReadsOwnReply(down, stream) /\ InStep(down, stream, disk)
      /\ stream \in StreamRow /\ down.st = "downloading"
  BY <1>1 DEF DownloadInv, ReadsOwnReply
<1>3. PICK c \in {200, 206, 416, 500} : stream' = [stream EXCEPT !.code = c] /\ (c \in {206, 416} => down.range)
  BY DEF ResponseBegins
<1>4. stream' \in StreamRow /\ stream'.op = "data" /\ stream'.from = stream.from /\ stream'.code = c
  BY <1>1, <1>2, <1>3 DEF StreamRow
<1>5. /\ Len(disk) = down.received /\ stream.from = down.received /\ down.received \in Nat
      /\ IF down.range THEN stream.from < DownloadSize ELSE stream.from = 0
  BY <1>1, <1>2 DEF InStep, DownloadRow
<1>6. InStep(down, stream', disk)
  BY <1>3, <1>4, <1>5, DownloadNames DEF InStep
<1>7. ReadsOwnReply(down, stream')
  BY <1>1, <1>2, <1>4 DEF ReadsOwnReply
<1> QED
  BY <1>1, <1>2, <1>6, <1>7, DownloadGoesOn DEF DownloadInv

\* A byte of the body.
LEMMA HandleDownloadDataKeeps ==
    ASSUME DownloadInv, HandleDownloadData
    PROVE  DownloadInv'
<1>1. /\ stream.op = "data" /\ stream.code # 0 /\ BytesToCome > 0 /\ disk' = Append(disk, NextByte)
      /\ down' = [down EXCEPT !.received = @ + 1] /\ saved' = ResumeState(down, down.received + 1)
      /\ stream' = stream /\ started' = started
  BY DEF HandleDownloadData
<1>2. /\ down \in DownloadRow /\ ReadsOwnReply(down, stream) /\ InStep(down, stream, disk)
      /\ stream \in StreamRow /\ down.st = "downloading" /\ disk \in Seq(AllBytes) /\ started \in 0..MaxDownloads
      /\ saved # NoState /\ saved.key = Identity(down)
      /\ \A i \in 1..Len(disk) : disk[i] \in FileBytes(down.file)
  <2>1. stream.op = "data" => InStep(down, stream, disk) /\ saved # NoState /\ saved.key = Identity(down)
    BY DEF DownloadInv
  <2>2. down \in DownloadRow /\ Identity(down)[2] = down.file
    BY ResumeFacts DEF DownloadInv
  <2> QED
    BY <1>1, <2>1, <2>2 DEF DownloadInv, ReadsOwnReply
<1>3. /\ down' \in DownloadRow /\ down'.received = down.received + 1 /\ down'.st = "downloading"
      /\ down'.range = down.range /\ down'.file = down.file /\ down'.owner = down.owner /\ down'.hash = down.hash
      /\ down'.active = down.active /\ down'.handle = down.handle /\ down'.timer = down.timer
      /\ down.received \in Nat /\ stream.from \in Nat /\ stream.code \in {200, 206, 416, 500}
  BY <1>1, <1>2 DEF DownloadRow, StreamRow
<1>4. /\ Len(disk) = down.received /\ stream.from <= down.received
      /\ down.range => stream.from < DownloadSize
      /\ ~down.range => stream.from = 0
  BY <1>2 DEF InStep
<1>5. /\ stream.code = 206 => down.received < DownloadSize /\ NextByte = ByteAt(down.file, down.received + 1)
      /\ stream.code = 200 => /\ down.received - stream.from < DownloadSize
                              /\ NextByte = ByteAt(down.file, down.received - stream.from + 1)
      /\ stream.code \in {416, 500} => down.received - stream.from < 1 /\ NextByte = Junk
  BY <1>1, <1>3, DownloadNames DEF BytesToCome, NextByte
<1>6. NextByte \in FileBytes(down.file)
  <2>1. CASE stream.code = 206
    <3>1. down.received + 1 \in 1..DownloadSize
      BY <2>1, <1>3, <1>5, DownloadNames
    <3> QED
      BY <2>1, <3>1, <1>5, ByteFacts
  <2>2. CASE stream.code = 200
    <3>1. down.received - stream.from + 1 \in 1..DownloadSize
      BY <2>2, <1>3, <1>4, <1>5, DownloadNames
    <3> QED
      BY <2>2, <3>1, <1>5, ByteFacts
  <2>3. CASE stream.code \in {416, 500}
    BY <2>3, <1>5, ByteFacts
  <2> QED
    BY <2>1, <2>2, <2>3, <1>3
<1>7. NextByte \in AllBytes
  BY <1>2, <1>6, ByteFacts DEF DownloadRow
<1>8. /\ disk' \in Seq(AllBytes) /\ Len(disk') = Len(disk) + 1
      /\ \A i \in 1..Len(disk) : disk'[i] = disk[i]
      /\ disk'[Len(disk) + 1] = NextByte /\ Len(disk) \in Nat
  BY <1>1, <1>2, <1>7
<1>9. \A i \in 1..Len(disk') : i \in 1..Len(disk) \/ i = Len(disk) + 1
  BY <1>8
<1>10. \A i \in 1..Len(disk') : disk'[i] \in FileBytes(down.file)
  BY <1>2, <1>6, <1>8, <1>9
<1>11. /\ saved' \in ResumeRow /\ saved' # NoState /\ saved'.key = Identity(down) /\ Identity(down)[2] = down.file
  BY <1>1, <1>2, <1>3, ResumeFacts
<1>12. saved'.key = Identity(down')
  BY <1>3, <1>11 DEF Identity
<1>13. Len(disk') <= 2 * DownloadSize
  BY <1>3, <1>4, <1>5, <1>8, DownloadNames
<1>14. ReadsOwnReply(down', stream')
  BY <1>1, <1>2, <1>3 DEF ReadsOwnReply
<1>15. InStep(down', stream', disk')
  <2>1. /\ Len(disk') = down'.received /\ stream.from <= down'.received
        /\ IF down'.range THEN stream.from < DownloadSize ELSE stream.from = 0
    BY <1>3, <1>4, <1>8
  <2>2. /\ stream.code # 0
        /\ stream.code = 206 => down'.range /\ down'.received <= DownloadSize
        /\ stream.code = 200 => down'.received - stream.from <= DownloadSize
        /\ stream.code = 416 => down'.range
        /\ stream.code \in {416, 500} => down'.received - stream.from <= 1
    BY <1>2, <1>3, <1>4, <1>5, DownloadNames DEF InStep
  <2>3. ~down'.range /\ stream.code = 200 => \A i \in 1..Len(disk') : disk'[i] = ByteAt(down'.file, i)
    <3> SUFFICES ASSUME ~down'.range, stream.code = 200, NEW i \in 1..Len(disk')
                 PROVE  disk'[i] = ByteAt(down.file, i)
      BY <1>3
    <3>1. CASE i \in 1..Len(disk)
      BY <3>1, <1>2, <1>3, <1>8 DEF InStep
    <3>2. CASE i = Len(disk) + 1
      <4>1. down.received - stream.from + 1 = i
        BY <3>2, <1>3, <1>4
      <4> QED
        BY <3>2, <4>1, <1>5, <1>8
    <3> QED
      BY <3>1, <3>2, <1>9
  <2> QED
    BY <2>1, <2>2, <2>3, <1>1 DEF InStep
<1> QED
  BY <1>1, <1>2, <1>3, <1>8, <1>10, <1>11, <1>12, <1>13, <1>14, <1>15, DownloadGoesOn

\* The reply has finished.
LEMMA HandleDownloadFinishedKeeps ==
    ASSUME DownloadInv, HandleDownloadFinished
    PROVE  DownloadInv'
<1> DEFINE d == [down EXCEPT !.handle = FALSE]
<1>1. stream.op = "data" /\ started' = started
  BY DEF HandleDownloadFinished
<1>2. /\ down \in DownloadRow /\ ReadsOwnReply(down, stream) /\ InStep(down, stream, disk)
      /\ stream \in StreamRow /\ down.st = "downloading" /\ disk \in Seq(AllBytes) /\ started \in 0..MaxDownloads
      /\ saved # NoState /\ saved.key = Identity(down) /\ ~down.timer
      /\ \A i \in 1..Len(disk) : disk[i] \in FileBytes(down.file)
  <2>1. stream.op = "data" => InStep(down, stream, disk) /\ saved # NoState /\ saved.key = Identity(down)
    BY DEF DownloadInv
  <2>2. down \in DownloadRow /\ Identity(down)[2] = down.file
    BY ResumeFacts DEF DownloadInv
  <2> QED
    BY <1>1, <2>1, <2>2 DEF DownloadInv, ReadsOwnReply
<1>3. /\ d \in DownloadRow /\ ~d.timer /\ d.file = down.file /\ d.hash = down.hash /\ d.range = down.range
  BY <1>2 DEF DownloadRow
<1>4. CASE RestartDownload(d)
  <2> HIDE DEF d
  <2> QED
    BY <1>1, <1>2, <1>3, <1>4, RestartDownloadSound
<1>5. CASE RetryOrFailDownload(d) /\ stream' = NoStream /\ UNCHANGED <<disk, saved>>
  <2> HIDE DEF d
  <2> QED
    BY <1>1, <1>3, <1>5, RetryOrFailSound
<1>6. CASE /\ ~(stream.code = 0 \/ BytesToCome > 0) /\ stream.code = (IF down.range THEN 206 ELSE 200)
           /\ IF VerifyCompletedDownload(d)
              THEN down' = [RemoveDownload(d) EXCEPT !.st = "completed"] /\ saved' = NoState
              ELSE down' = FailDownload(d) /\ saved' = saved
           /\ stream' = NoStream /\ disk' = disk
  <2>1. CASE ~VerifyCompletedDownload(d)
    <3>1. down' \in DownloadRow /\ down'.st = "failed" /\ ReadsOwnReply(down', stream')
      <4> HIDE DEF d
      <4> QED
        BY <1>3, <1>6, <2>1, FailDownloadSound
    <3> QED
      BY <3>1, <1>1, <1>6, <2>1, DownloadGoesOn, DownloadNames DEF DownloadInv
  <2>2. CASE VerifyCompletedDownload(d)
    <3>1. down' = [RemoveDownload(d) EXCEPT !.st = "completed"] /\ saved' = NoState
      BY <1>6, <2>2
    <3>2. /\ down' \in DownloadRow /\ down'.st = "completed" /\ down'.active = FALSE /\ down'.handle = FALSE
          /\ down'.timer = FALSE /\ down'.file = down.file /\ down'.hash = down.hash /\ down'.range = down.range
      BY <3>1, <1>2, <1>3, DownloadNames DEF DownloadRow, RemoveDownload, DownloadEnded
    <3>3. ReadsOwnReply(down', NoStream)
      BY <3>2, DownloadNames DEF ReadsOwnReply
    <3>4. Len(disk) = DownloadSize /\ (down.hash => disk = Whole(down.file))
      BY <1>3, <2>2 DEF VerifyCompletedDownload
    <3>5. ~down.range => disk = Whole(down.file)
      <4> SUFFICES ASSUME ~down.range
                   PROVE  disk = Whole(down.file)
        OBVIOUS
      <4>1. \A i \in 1..Len(disk) : disk[i] = ByteAt(down.file, i)
        BY <1>2, <1>6 DEF InStep
      <4>2. disk = [i \in 1..Len(disk) |-> disk[i]]
        BY <1>2
      <4> QED
        BY <4>1, <4>2, <3>4 DEF Whole
    <3>6. \A i \in DOMAIN disk : disk[i] = Junk \/ \E j \in 1..DownloadSize : disk[i] = ByteAt(down.file, j)
      <4>1. DOMAIN disk = 1..Len(disk)
        BY <1>2
      <4> QED
        BY <4>1, <1>2 DEF FileBytes
    <3>7. DownloadFollowsServer'
      <4>1. disk' = disk /\ Whole(down'.file) = Whole(down.file) /\ down'.file = down.file
        BY <3>2, <1>6
      <4>2. VerifiedWhole'
        BY <4>1, <3>2, <3>4 DEF VerifiedWhole
      <4>3. ~down'.range => disk' = Whole(down'.file)
        BY <4>1, <3>2, <3>5
      <4>4. \A i \in DOMAIN disk' : disk'[i] = Junk \/ \E j \in 1..DownloadSize : disk'[i] = ByteAt(down'.file, j)
        BY <4>1, <3>6
      <4>5. CompletedFromOwn'
        BY <4>3, <4>4 DEF CompletedFromOwn
      <4> QED
        BY <4>2, <4>5 DEF DownloadFollowsServer
    <3>8. Len(disk) <= 2 * DownloadSize
      BY DEF DownloadInv
    <3> QED
      BY <3>1, <3>2, <3>3, <3>7, <3>8, <1>1, <1>2, <1>6, DownloadNames DEF DownloadInv
  <2> QED
    BY <2>1, <2>2
<1> QED
  BY <1>4, <1>5, <1>6 DEF HandleDownloadFinished

\* The owner's session ends, the application dies.
LEMMA OtherDownloadSteps ==
    ASSUME DownloadInv, ShutdownOwnerTransfers \/ ApplicationDies
    PROVE  DownloadInv'
<1>1. down \in DownloadRow /\ started \in 0..MaxDownloads /\ disk \in Seq(AllBytes) /\ Len(disk) \in Nat
  BY DEF DownloadInv
<1>2. CASE ShutdownOwnerTransfers
  <2>1. started' = started
    BY <1>2 DEF ShutdownOwnerTransfers
  <2>2. CASE UNCHANGED <<down, stream, disk, saved>>
    BY <2>1, <2>2 DEF DownloadInv, DownloadFollowsServer, VerifiedWhole, CompletedFromOwn
  <2>3. CASE /\ down' = [RemoveDownload(down) EXCEPT !.st = "cancelled", !.range = FALSE, !.received = 0]
             /\ stream' = NoStream /\ disk' = <<>> /\ UNCHANGED saved
    <3>1. down' \in DownloadRow /\ down'.st = "cancelled" /\ down'.active = FALSE /\ down'.handle = FALSE
      BY <2>3, <1>1, DownloadNames DEF DownloadRow, RemoveDownload, DownloadEnded
    <3>2. ReadsOwnReply(down', stream')
      BY <2>3, <3>1, DownloadNames DEF ReadsOwnReply
    <3>3. disk' \in Seq(AllBytes) /\ Len(disk') <= 2 * DownloadSize
          /\ \A i \in 1..Len(disk') : disk'[i] \in FileBytes(saved.key[2])
      BY <2>3, DownloadNames
    <3>4. saved' # NoState => saved' \in ResumeRow
      BY <2>3 DEF DownloadInv
    <3> QED
      BY <2>1, <2>3, <3>1, <3>2, <3>3, <3>4, <1>1, DownloadGoesOn, DownloadNames
  <2> QED
    BY <1>2, <2>2, <2>3 DEF ShutdownOwnerTransfers
<1>3. CASE ApplicationDies
  <2>1. PICK n \in 0..Len(disk) : disk' = SubSeq(disk, 1, n)
    BY <1>3 DEF ApplicationDies
  <2>2. down' = NoDownload /\ stream' = NoStream /\ saved' = saved /\ started' = started
    BY <1>3 DEF ApplicationDies
  <2>3. disk' \in Seq(AllBytes) /\ Len(disk') = n /\ \A i \in 1..n : disk'[i] = disk[i] /\ i \in 1..Len(disk)
    BY <2>1, <1>1
  <2>4. Len(disk') <= 2 * DownloadSize
    BY <2>3, <1>1, DownloadNames DEF DownloadInv
  <2>5. saved' # NoState => saved' \in ResumeRow /\ \A i \in 1..Len(disk') : disk'[i] \in FileBytes(saved'.key[2])
    BY <2>2, <2>3 DEF DownloadInv
  <2> QED
    BY <2>2, <2>3, <2>4, <2>5, <1>1, NoDownloadSound, DownloadGoesOn, DownloadNames
<1> QED
  BY <1>2, <1>3

LEMMA DownloadInitially == TransferInit => DownloadInv
<1> SUFFICES ASSUME TransferInit
             PROVE  DownloadInv
  OBVIOUS
<1>1. down = NoDownload /\ stream = NoStream /\ disk = <<>> /\ saved = NoState /\ started = 0
  BY DEF TransferInit
<1>2. disk \in Seq(AllBytes) /\ Len(disk) <= 2 * DownloadSize /\ started \in 0..MaxDownloads
  BY <1>1, DownloadNames, TransfersAssumption
<1>3. DownloadFollowsServer
  BY <1>1, NoDownloadSound DEF DownloadFollowsServer, VerifiedWhole, CompletedFromOwn
<1> QED
  BY <1>1, <1>2, <1>3, NoDownloadSound, DownloadNames DEF DownloadInv

LEMMA UploadStep == UploadInv /\ [TransferNext]_transferVars => UploadInv'
<1> SUFFICES ASSUME UploadInv, [TransferNext]_transferVars
             PROVE  UploadInv'
  OBVIOUS
<1>1. ASSUME UNCHANGED uploadVars
      PROVE  UploadInv'
  BY <1>1 DEF uploadVars, UploadInv, TaskSound, SessionKnows
<1>2. CASE UploadNext
  BY <1>2, LocalUploadSteps, UploadReplyKeeps, OtherUploadSteps DEF UploadNext
<1>3. CASE DownloadNext
  <2>1. UNCHANGED uploadVars
    BY <1>3 DEF DownloadNext, StartDownload, PauseDownload, ResumeDownload, RetryDownload, CancelDownload,
                ClearCompletedDownloads, DownloadRetryTimer, HandleMetadataResponse, ResponseBegins,
                HandleDownloadData, HandleDownloadFinished
  <2> QED
    BY <1>1, <2>1
<1>4. CASE ShutdownOwnerTransfers \/ ApplicationDies
  BY <1>4, OtherUploadSteps
<1>5. CASE UNCHANGED transferVars
  BY <1>1, <1>5 DEF transferVars
<1> QED
  BY <1>2, <1>3, <1>4, <1>5 DEF TransferNext

LEMMA DownloadStep == DownloadInv /\ [TransferNext]_transferVars => DownloadInv'
<1> SUFFICES ASSUME DownloadInv, [TransferNext]_transferVars
             PROVE  DownloadInv'
  OBVIOUS
<1>1. ASSUME UNCHANGED downloadVars
      PROVE  DownloadInv'
  BY <1>1 DEF downloadVars, DownloadInv, DownloadFollowsServer, VerifiedWhole, CompletedFromOwn
<1>2. CASE UploadNext
  <2>1. UNCHANGED downloadVars
    BY <1>2 DEF UploadNext, StartUpload, HashFinished, RetryUpload, CancelUpload, CancelTimer, RetryTimer,
                UploadReply, ClearCompletedUploads, StrayArrives, SessionExpires
  <2> QED
    BY <1>1, <2>1
<1>3. CASE DownloadNext
  BY <1>3, UserDownloadSteps, ResponseBeginsKeeps, HandleDownloadDataKeeps, HandleDownloadFinishedKeeps
     DEF DownloadNext
<1>4. CASE ShutdownOwnerTransfers \/ ApplicationDies
  BY <1>4, OtherDownloadSteps
<1>5. CASE UNCHANGED transferVars
  BY <1>1, <1>5 DEF transferVars
<1> QED
  BY <1>2, <1>3, <1>4, <1>5 DEF TransferNext

LEMMA TransferInvSuffices == UploadInv /\ DownloadInv => UploadFollowsServer
<1> SUFFICES ASSUME UploadInv, DownloadInv
             PROVE  UploadFollowsServer
  OBVIOUS
<1>1. TaskSound(up, live) /\ SessionKnows(up, session) /\ up \in UploadRow /\ session \in UploadSession
  BY DEF UploadInv, TaskSound, SessionKnows
<1>2. TransferTypeOK
  <2>1. session.sid \in 0..MaxSessions /\ session.got \subseteq ChunkSet
    BY <1>1 DEF UploadSession
  <2>2. down \in DownloadRow /\ started \in 0..MaxDownloads /\ Len(disk) <= 2 * DownloadSize
    BY DEF DownloadInv
  <2>3. down.st \in DownloadStates /\ down.retries \in 0..MaxRetryCount
    BY <2>2 DEF DownloadRow
  <2> QED
    BY <1>1, <2>1, <2>2, <2>3 DEF TransferTypeOK, UploadRow, UploadStates, DownloadStates
<1>3. OneRequestPerUpload
  <2>1. CASE live = {}
    BY <2>1, FS_EmptySet DEF OneRequestPerUpload
  <2>2. CASE live # {}
    <3>1. PICK q : live = {q}
      BY <2>2, <1>1 DEF TaskSound
    <3> QED
      BY <3>1, FS_Singleton DEF OneRequestPerUpload
  <2> QED
    BY <2>1, <2>2
<1>4. UploadCompletedOnServer /\ RecordedChunksKept
  BY <1>1 DEF SessionKnows, UploadCompletedOnServer, RecordedChunksKept
<1>5. EndedIsQuiet
  <2>1. up.st \in UploadEnded => live = {} /\ ~up.active
    BY <1>1 DEF TaskSound
  <2>2. down.st \in DownloadEnded => stream = NoStream /\ ~down.active /\ ~down.handle
    BY DEF DownloadInv, ReadsOwnReply
  <2> QED
    BY <2>1, <2>2 DEF EndedIsQuiet
<1> QED
  BY <1>2, <1>3, <1>4, <1>5 DEF UploadFollowsServer

LEMMA TransfersSound == TransferSpec => [](UploadInv /\ DownloadInv)
BY UploadInitially, DownloadInitially, UploadStep, DownloadStep, PTL DEF TransferSpec

\* Uploads of the desktop client, for any number of chunks, retries and server
\* sessions, whatever answers are lost, late or repeated and whenever the user
\* cancels or the application dies: one request at a time, no chunk counted
\* that the session does not hold, nothing shown as completed that is not, and
\* an ended task waits for nothing (TransferManager).
THEOREM UploadFollowsServerHolds == TransferSpec => []UploadFollowsServer
BY TransfersSound, TransferInvSuffices, PTL

\* Downloads of the desktop client, for files of any size: a completed download
\* with a hash is the remote file, one that was not resumed is it in any case,
\* and no byte of another file is ever in it (PreparePartialFileForRange,
\* HandleDownloadFinished, VerifyCompletedDownload).
THEOREM DownloadFollowsServerHolds == TransferSpec => []DownloadFollowsServer
<1>1. UploadInv /\ DownloadInv => DownloadFollowsServer
  BY DEF DownloadInv
<1> QED
  BY <1>1, TransfersSound, PTL

=============================================================================
