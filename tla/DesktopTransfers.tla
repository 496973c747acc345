-------------------------- MODULE DesktopTransfers --------------------------
(***************************************************************************)
(* The desktop client's TransferManager: one upload task and one download  *)
(* task (tasks are keyed by task id and share no state), the requests they *)
(* have outstanding, and the server as the client sees it through the      *)
(* answers.  Every slot of the manager runs on the Qt event loop, so one   *)
(* action is one slot: a user's call, a finished reply or an elapsed       *)
(* timer.  A reply that has been aborted is not delivered any more, but    *)
(* the server may still act on its request.                                *)
(***************************************************************************)
EXTENDS Integers, Sequences, FiniteSets

CONSTANTS
    ChunkTotal,      \* chunks of the uploaded file
    MaxRetryCount,   \* kMaxRetryCount
    MaxSessions,     \* bound: upload sessions the server opens
    RemoteFiles,     \* files that can be downloaded, all of one size
    DownloadSize,    \* bytes of such a file
    MaxDownloads     \* bound: downloads started

ASSUME TransfersAssumption ==
    /\ ChunkTotal \in Nat \ {0} /\ MaxRetryCount \in Nat /\ MaxSessions \in Nat
    /\ DownloadSize \in Nat \ {0} /\ MaxDownloads \in Nat

VARIABLES
    up,        \* the upload task and its entry of m_active_uploads
    live,      \* the upload's requests whose reply can still be delivered
    stray,     \* requests of aborted replies that may still reach the server
    session,   \* external: the server's upload session
    down,      \* the download task and its entry of m_active_downloads
    stream,    \* the reply a download reads
    disk,      \* the target file: a sequence of bytes
    saved,     \* the resume state beside it, or NoState
    started    \* downloads started so far

uploadVars == <<up, live, stray, session>>
downloadVars == <<down, stream, disk, saved, started>>
transferVars == <<uploadVars, downloadVars>>

ChunkSet == 0..(ChunkTotal - 1)
NewUpload == [st |-> "queued", sid |-> 0, chunks |-> {}, active |-> FALSE, retries |-> 0,
              timer |-> FALSE, cancelTimer |-> FALSE, hashing |-> FALSE]
UploadEnded == {"completed", "cancelled", "expired", "failed"}

\* RemoveUpload: m_active_uploads.remove
RemoveUpload(u) == [u EXCEPT !.active = FALSE, !.retries = 0]
FailUpload(u) == [RemoveUpload(u) EXCEPT !.st = "failed"]
ExpireUpload(u) == [RemoveUpload(u) EXCEPT !.st = "expired", !.sid = 0]

-----------------------------------------------------------------------------
(* External: what the server does with a request and what it may answer.   *)
(* "busy" stands for every error that ErrorAdapter calls retryable,        *)
(* "limited" for 429, "refused" for the others (50004 included), "gone"    *)
(* for 50008 and, to a cancel, 404.                                        *)

ServerInit(q) ==
    \/ session.phase \in {"active", "completed"} /\ session' = session
    \/ /\ session.phase \in {"none", "cancelled", "expired"} /\ session.sid < MaxSessions
       /\ session' = [phase |-> "active", sid |-> session.sid + 1, got |-> {}]

ServerChunk(q) ==
    session' = IF session.phase = "active" /\ session.sid = q.sid
               THEN [session EXCEPT !.got = @ \cup {q.chunk}] ELSE session

ServerComplete(q) ==
    session' = IF session.phase = "active" /\ session.sid = q.sid /\ session.got = ChunkSet
               THEN [session EXCEPT !.phase = "completed"] ELSE session

ServerCancel(q) ==
    session' = IF session.phase = "active" /\ session.sid = q.sid
               THEN [session EXCEPT !.phase = "cancelled"] ELSE session

ServerActs(q) ==
    \/ q.op = "init" /\ ServerInit(q)
    \/ q.op = "chunk" /\ ServerChunk(q)
    \/ q.op = "complete" /\ ServerComplete(q)
    \/ q.op = "cancel" /\ ServerCancel(q)

\* What the server tells once it has acted.
ReplyOutcome(q, s) ==
    CASE q.op = "init" -> IF s.phase = "completed" THEN "instant" ELSE "ok"
      [] q.op = "chunk" -> IF s.phase = "active" /\ s.sid = q.sid THEN "ok" ELSE "gone"
      [] q.op = "complete" -> IF s.sid # q.sid \/ s.phase \in {"cancelled", "expired"} THEN "gone"
                              ELSE IF s.phase = "completed" THEN "ok" ELSE "refused"
      [] q.op = "cancel" -> IF s.sid = q.sid /\ s.phase = "completed" THEN "refused"
                            ELSE IF s.sid = q.sid /\ s.phase = "cancelled" THEN "ok" ELSE "gone"

\* A live request is answered after the server acted (or the answer is lost and Qt
\* reports a network error), or fails before it reached the server.
Answered(q, ans) ==
    /\ q \in live
    /\ \/ /\ ServerActs(q)
          /\ ans \in {ReplyOutcome(q, session'), "busy"}
       \/ ans \in {"busy", "limited", "refused"} /\ session' = session

\* The request of an aborted reply arrives after all.
StrayArrives ==
    /\ \E q \in stray : ServerActs(q) /\ stray' = stray \ {q}
    /\ UNCHANGED <<up, live, downloadVars>>

\* UploadTaskExpiry of the server.
SessionExpires ==
    /\ session.phase = "active"
    /\ session' = [session EXCEPT !.phase = "expired"]
    /\ UNCHANGED <<up, live, stray, downloadVars>>

-----------------------------------------------------------------------------
(* Uploads                                                                  *)

Request(op, chunk, sid) == [op |-> op, chunk |-> chunk, sid |-> sid]

\* AbortActiveUpload: the replies are dropped; their requests may be on the way.
LeftByAbort == IF up.active THEN {} ELSE live
AbortedBy(s) == s \cup (live \ LeftByAbort)

StartHashing(u) == [u EXCEPT !.st = "hashing", !.hashing = TRUE]

\* StartUploadInit replaces the entry of m_active_uploads, retry_count with it.
StartUploadInit(u, left) ==
    /\ up' = [u EXCEPT !.st = "initializing", !.active = TRUE, !.retries = 0]
    /\ live' = left \cup {Request("init", 0, 0)}

\* StartChunkUpload leaves the status as it is ("retrying" stays "retrying"); a file
\* that cannot be opened fails the task.
StartChunkUpload(u, c, left) ==
    \/ up' = u /\ live' = left \cup {Request("chunk", c, u.sid)}
    \/ up' = FailUpload(u) /\ live' = left

StartUploadComplete(u, left) ==
    /\ up' = [u EXCEPT !.st = "completing"]
    /\ live' = left \cup {Request("complete", 0, u.sid)}

NextChunk(chunks) == CHOOSE c \in ChunkSet \ chunks : \A d \in ChunkSet \ chunks : c <= d

AdvanceToNextChunk(u, left) ==
    IF u.chunks = ChunkSet THEN StartUploadComplete(u, left)
    ELSE StartChunkUpload(u, NextChunk(u.chunks), left)

StartUpload ==
    /\ up.st = "queued" /\ up' = StartHashing(up)
    /\ UNCHANGED <<live, stray, session, downloadVars>>

\* The hash watcher's finished slot.
HashFinished ==
    /\ up.hashing
    /\ LET u == [up EXCEPT !.hashing = FALSE]
       IN \/ up.st # "hashing" /\ up' = u /\ live' = live
          \/ up.st = "hashing" /\ up' = FailUpload(u) /\ live' = live
          \/ up.st = "hashing" /\ StartUploadInit(u, live)
    /\ UNCHANGED <<stray, session, downloadVars>>

RetryUpload ==
    /\ up.st \in {"failed", "expired"}
    /\ up' = StartHashing([up EXCEPT !.chunks = {}, !.sid = 0, !.retries = 0])
    /\ UNCHANGED <<live, stray, session, downloadVars>>

\* StartUploadCancel, with the task already "cancelling".
StartUploadCancel(u, left) ==
    /\ up' = [u EXCEPT !.active = TRUE]
    /\ live' = left \cup {Request("cancel", 0, u.sid)}

CancelUpload ==
    /\ up.st \in {"uploading", "completing", "initializing", "hashing"}
    /\ stray' = AbortedBy(stray)
    /\ LET u == [up EXCEPT !.hashing = FALSE, !.st = "cancelling"]
       IN IF up.sid = 0
          THEN up' = [RemoveUpload(u) EXCEPT !.st = "cancelled"] /\ live' = LeftByAbort
          ELSE StartUploadCancel(u, LeftByAbort)
    /\ UNCHANGED <<session, downloadVars>>

\* The timer of HandleCancelResponse.
CancelTimer ==
    /\ up.cancelTimer
    /\ LET u == [up EXCEPT !.cancelTimer = FALSE]
       IN IF up.st # "cancelling" THEN up' = u /\ live' = live ELSE StartUploadCancel(u, live)
    /\ UNCHANGED <<stray, session, downloadVars>>

\* RetryOrFailUpload: a rate-limited request is retried without being counted.
RetryOrFailUpload(u, ans) ==
    IF ans = "limited" THEN [u EXCEPT !.st = "retrying", !.timer = TRUE]
    ELSE IF ans = "busy" /\ u.retries < MaxRetryCount
    THEN [u EXCEPT !.st = "retrying", !.timer = TRUE, !.retries = @ + 1]
    ELSE FailUpload(u)

\* The errors of the three upload requests.
UploadError(ans, left) ==
    /\ ans \in {"gone", "busy", "limited", "refused"}
    /\ up' = IF ans = "gone" THEN ExpireUpload(up) ELSE RetryOrFailUpload(up, ans)
    /\ live' = left

\* The timer of RetryOrFailUpload.
RetryTimer ==
    /\ up.timer
    /\ LET u == [up EXCEPT !.timer = FALSE]
       IN IF up.st # "retrying" THEN up' = u /\ live' = live
          ELSE IF up.sid = 0 THEN StartUploadInit(u, live) ELSE AdvanceToNextChunk(u, live)
    /\ UNCHANGED <<stray, session, downloadVars>>

HandleInitResponse(q, ans) ==
    LET left == live \ {q}
    IN \/ UploadError(ans, left)
       \/ ans = "instant" /\ up' = [RemoveUpload(up) EXCEPT !.st = "completed"] /\ live' = left
       \/ ans = "ok" /\ AdvanceToNextChunk([up EXCEPT !.st = "uploading", !.sid = session'.sid,
                                                      !.chunks = session'.got], left)

HandleChunkResponse_CountsFirst(q, ans) ==
    LET left == live \ {q}
    IN IF ans = "ok" THEN AdvanceToNextChunk([up EXCEPT !.chunks = @ \cup {q.chunk}], left)
       ELSE /\ up' = RetryOrFailUpload([up EXCEPT !.chunks = @ \cup {q.chunk}], ans) /\ live' = left

HandleChunkResponse(q, ans) ==
    LET left == live \ {q}
    IN \/ UploadError(ans, left)
       \/ ans = "ok" /\ AdvanceToNextChunk([up EXCEPT !.chunks = @ \cup {q.chunk}], left)

HandleCompleteResponse(q, ans) ==
    LET left == live \ {q}
    IN \/ UploadError(ans, left)
       \/ ans = "ok" /\ up' = [RemoveUpload(up) EXCEPT !.st = "completed"] /\ live' = left

HandleCancelResponse_NeverGivesUp(q, ans) ==
    /\ up' = IF ans \in {"busy", "limited", "refused"} THEN [up EXCEPT !.cancelTimer = TRUE]
             ELSE [RemoveUpload(up) EXCEPT !.st = "cancelled"]
    /\ live' = live \ {q}

\* 404 is success; another error is retried kMaxRetryCount times, then the task is
\* shown as cancelled all the same.
HandleCancelResponse(q, ans) ==
    /\ up' = IF ans \in {"busy", "limited", "refused"} /\ up.retries < MaxRetryCount
             THEN [up EXCEPT !.retries = @ + 1, !.cancelTimer = TRUE]
             ELSE [RemoveUpload(up) EXCEPT !.st = "cancelled"]
    /\ live' = live \ {q}

\* A reply has finished: its slot runs if the task still has its entry.
UploadReply ==
    /\ \E q \in live, ans \in {"ok", "instant", "gone", "busy", "limited", "refused"} :
          /\ Answered(q, ans)
          /\ IF ~up.active THEN up' = up /\ live' = live \ {q}
             ELSE \/ q.op = "init" /\ HandleInitResponse(q, ans)
                  \/ q.op = "chunk" /\ HandleChunkResponse(q, ans)
                  \/ q.op = "complete" /\ HandleCompleteResponse(q, ans)
                  \/ q.op = "cancel" /\ HandleCancelResponse(q, ans)
    /\ UNCHANGED <<stray, downloadVars>>

\* ClearCompletedUploads drops the row (a timer or watcher of it finds no task any
\* more); the next StartUpload makes a new task, of the same file.
ClearCompletedUploads ==
    /\ up.st \in {"completed", "cancelled"}
    /\ up' = NewUpload
    /\ UNCHANGED <<live, stray, session, downloadVars>>

-----------------------------------------------------------------------------
(* Downloads                                                                *)

Junk == <<"error body", 0>>
ByteAt(f, i) == <<f, i>>
Whole(f) == [i \in 1..DownloadSize |-> ByteAt(f, i)]
NoState == [key |-> <<>>, size |-> 0]
NoStream == [op |-> "none", from |-> 0, code |-> 0]
DownloadEnded == {"completed", "cancelled", "failed"}
NoDownload == [st |-> "none", file |-> CHOOSE f \in RemoteFiles : TRUE, owner |-> TRUE, hash |-> TRUE,
               range |-> FALSE, received |-> 0, active |-> FALSE, handle |-> FALSE, retries |-> 0,
               timer |-> FALSE]

\* build_remote_identity with the size and the hash persisted_state_matches compares too.
Identity(d) == <<d.owner, d.file, d.hash>>
RemoveDownload(d) == [d EXCEPT !.active = FALSE, !.retries = 0, !.handle = FALSE]
FailDownload(d) == [RemoveDownload(d) EXCEPT !.st = "failed"]
ResumeState(d, size) == [key |-> Identity(d), size |-> size]

persisted_state_matches_SizeOnly(d) == saved # NoState /\ saved.size = Len(disk)

persisted_state_matches(d) == saved # NoState /\ saved.key = Identity(d) /\ saved.size = Len(disk)

CanResume(d) == Len(disk) > 0 /\ Len(disk) < DownloadSize /\ persisted_state_matches(d)

\* PreparePartialFileForRange, then StartDownloadTransfer: a trusted partial file is
\* continued behind its last byte, any other one is removed; the target is opened
\* (which truncates it in full mode) or, when it cannot be, the task fails.
PrepareAndStart(d) ==
    LET resume == CanResume(d)
        size == IF resume THEN Len(disk) ELSE 0
        t == [d EXCEPT !.range = resume, !.received = size]
    IN /\ saved' = ResumeState(t, size)
       /\ disk' = IF resume THEN disk ELSE <<>>
       /\ \/ /\ down' = [t EXCEPT !.st = "downloading", !.active = TRUE, !.handle = TRUE]
             /\ stream' = [op |-> "data", from |-> size, code |-> 0]
          \/ down' = FailDownload(t) /\ stream' = NoStream

\* RestartDownload and the transfer that follows it.
RestartDownload(d) ==
    /\ disk' = <<>> /\ saved' = ResumeState(d, 0)
    /\ \/ /\ down' = [d EXCEPT !.range = FALSE, !.received = 0, !.st = "downloading",
                               !.active = TRUE, !.handle = TRUE]
          /\ stream' = [op |-> "data", from |-> 0, code |-> 0]
       \/ down' = FailDownload([d EXCEPT !.range = FALSE, !.received = 0]) /\ stream' = NoStream

\* FetchDownloadMetadata replaces the entry of m_active_downloads.
FetchDownloadMetadata(d) ==
    /\ down' = [d EXCEPT !.st = "fetching", !.active = TRUE, !.retries = 0, !.handle = FALSE]
    /\ stream' = [op |-> "meta", from |-> 0, code |-> 0]
    /\ UNCHANGED <<disk, saved>>

\* What ResumeDownload, RetryDownload and the retry timer have in common.
Continue(d) == IF d.owner THEN FetchDownloadMetadata(d) ELSE PrepareAndStart(d)

\* StartDownload of an own file, StartShareDownload of a shared one; a share may not
\* tell the hash.
StartDownload ==
    /\ down.st = "none" /\ started < MaxDownloads
    /\ \E f \in RemoteFiles, owner, hash \in BOOLEAN :
          /\ owner => hash
          /\ Continue([NoDownload EXCEPT !.file = f, !.owner = owner, !.hash = hash])
    /\ started' = started + 1 /\ UNCHANGED uploadVars

PauseDownload ==
    /\ down.st = "downloading"
    /\ down' = [down EXCEPT !.st = "paused", !.handle = FALSE] /\ stream' = NoStream
    /\ UNCHANGED <<disk, saved, started, uploadVars>>

ResumeDownload ==
    /\ down.st = "paused" /\ Continue(down)
    /\ UNCHANGED <<started, uploadVars>>

RetryDownload ==
    /\ down.st = "failed" /\ Continue([down EXCEPT !.retries = 0])
    /\ UNCHANGED <<started, uploadVars>>

\* CancelDownload has no condition on the status: even a completed file is removed.
CancelDownload ==
    /\ down.st # "none"
    /\ down' = [RemoveDownload(down) EXCEPT !.st = "cancelled"]
    /\ stream' = NoStream /\ disk' = <<>> /\ saved' = NoState
    /\ UNCHANGED <<started, uploadVars>>

\* ClearCompletedDownloads drops the row; the target file stays.
ClearCompletedDownloads ==
    /\ down.st \in {"completed", "cancelled"}
    /\ down' = NoDownload
    /\ UNCHANGED <<stream, disk, saved, started, uploadVars>>

RetryOrFailDownload(d) ==
    \/ /\ d.active /\ d.retries < MaxRetryCount
       /\ down' = [d EXCEPT !.st = "retrying", !.retries = @ + 1, !.timer = TRUE, !.handle = FALSE]
    \/ down' = FailDownload(d)

DownloadRetryTimer ==
    /\ down.timer
    /\ LET d == [down EXCEPT !.timer = FALSE]
       IN IF down.active THEN Continue(d)
          ELSE down' = d /\ UNCHANGED <<stream, disk, saved>>
    /\ UNCHANGED <<started, uploadVars>>

HandleMetadataResponse ==
    /\ stream.op = "meta"
    /\ \/ PrepareAndStart(down)
       \/ RetryOrFailDownload(down) /\ stream' = NoStream /\ UNCHANGED <<disk, saved>>
    /\ UNCHANGED <<started, uploadVars>>

\* The head of a response: the content, the content although a range was asked for,
\* 416, or an error with a JSON body.
ResponseBegins ==
    /\ stream.op = "data" /\ stream.code = 0
    /\ stream' \in {[stream EXCEPT !.code = c] :
                       c \in IF down.range THEN {206, 200, 416, 500} ELSE {200, 500}}
    /\ UNCHANGED <<down, disk, saved, started, uploadVars>>

\* The bytes that are still to come: a range starts at the offset that was asked for.
BytesToCome ==
    CASE stream.code = 206 -> DownloadSize - down.received
      [] stream.code = 200 -> DownloadSize - (down.received - stream.from)
      [] OTHER -> 1 - (down.received - stream.from)

NextByte ==
    CASE stream.code = 206 -> ByteAt(down.file, down.received + 1)
      [] stream.code = 200 -> ByteAt(down.file, down.received - stream.from + 1)
      [] OTHER -> Junk

\* HandleDownloadData: whatever the status, the body is appended to the target file.
HandleDownloadData ==
    /\ stream.op = "data" /\ stream.code # 0 /\ BytesToCome > 0
    /\ disk' = Append(disk, NextByte)
    /\ down' = [down EXCEPT !.received = @ + 1]
    /\ saved' = ResumeState(down, down.received + 1)
    /\ UNCHANGED <<stream, started, uploadVars>>

VerifyCompletedDownload(d) ==
    /\ Len(disk) = DownloadSize
    /\ d.hash => disk = Whole(d.file)

\* HandleDownloadFinished, the body complete or the connection broken.
HandleDownloadFinished ==
    /\ stream.op = "data"
    /\ LET broken == stream.code = 0 \/ BytesToCome > 0
           d == [down EXCEPT !.handle = FALSE]
       IN \/ down.range /\ stream.code \in {200, 416, 500} /\ RestartDownload(d)
          \/ /\ ~down.range \/ stream.code \in {0, 206}
             /\ broken \/ stream.code = 500
             /\ RetryOrFailDownload(d) /\ stream' = NoStream /\ UNCHANGED <<disk, saved>>
          \/ /\ ~broken /\ stream.code = (IF down.range THEN 206 ELSE 200)
             /\ IF VerifyCompletedDownload(d)
                THEN down' = [RemoveDownload(d) EXCEPT !.st = "completed"] /\ saved' = NoState
                ELSE down' = FailDownload(d) /\ saved' = saved
             /\ stream' = NoStream /\ disk' = disk
    /\ UNCHANGED <<started, uploadVars>>

-----------------------------------------------------------------------------
(* Both                                                                     *)

\* ShutdownOwnerTransfers, when the owner's session ends: tasks that have not ended are
\* aborted and shown as cancelled; a partial file is removed, its resume state is not.
ShutdownOwnerTransfers ==
    /\ IF up.st \in UploadEnded THEN UNCHANGED <<up, live, stray>>
       ELSE /\ live' = LeftByAbort /\ stray' = AbortedBy(stray)
            /\ up' = [RemoveUpload(up) EXCEPT !.st = "cancelled", !.sid = 0, !.chunks = {}]
    /\ IF down.owner /\ down.st \notin DownloadEnded \cup {"none"}
       THEN /\ down' = [RemoveDownload(down) EXCEPT !.st = "cancelled", !.range = FALSE, !.received = 0]
            /\ stream' = NoStream /\ disk' = <<>> /\ UNCHANGED saved
       ELSE UNCHANGED <<down, stream, disk, saved>>
    /\ UNCHANGED <<session, started>>

\* The application dies and is started again: the tasks are gone, and of the bytes QFile
\* buffered only a prefix has reached the disk.
ApplicationDies ==
    /\ up' = NewUpload /\ live' = {} /\ stray' = stray \cup live
    /\ down' = NoDownload /\ stream' = NoStream
    /\ \E n \in 0..Len(disk) : disk' = SubSeq(disk, 1, n) /\ (~down.handle => n = Len(disk))
    /\ UNCHANGED <<session, saved, started>>

TransferInit ==
    /\ up = NewUpload /\ live = {} /\ stray = {}
    /\ session = [phase |-> "none", sid |-> 0, got |-> {}]
    /\ down = NoDownload /\ stream = NoStream /\ disk = <<>> /\ saved = NoState /\ started = 0

UploadNext ==
    \/ StartUpload \/ HashFinished \/ RetryUpload \/ CancelUpload \/ CancelTimer
    \/ RetryTimer \/ UploadReply \/ ClearCompletedUploads \/ StrayArrives \/ SessionExpires

DownloadNext ==
    \/ StartDownload \/ PauseDownload \/ ResumeDownload \/ RetryDownload \/ CancelDownload
    \/ ClearCompletedDownloads \/ DownloadRetryTimer \/ HandleMetadataResponse
    \/ ResponseBegins \/ HandleDownloadData \/ HandleDownloadFinished

TransferNext == UploadNext \/ DownloadNext \/ ShutdownOwnerTransfers \/ ApplicationDies

TransferSpec == TransferInit /\ [][TransferNext]_transferVars

\* Timers elapse, and a cancel request ends: Delete sets a transfer timeout of 15 s.
TransferFairness ==
    /\ WF_transferVars(CancelTimer)
    /\ WF_transferVars(UploadReply /\ up.st = "cancelling")

-----------------------------------------------------------------------------
(* Properties                                                               *)

\* Every field is in its range; the task's retries stay within kMaxRetryCount and the
\* target file never grows past what one response can append to a partial file.
TransferTypeOK ==
    /\ up \in [st : UploadEnded \cup {"queued", "hashing", "initializing", "uploading", "retrying",
                                      "completing", "cancelling"},
               sid : 0..MaxSessions, chunks : SUBSET ChunkSet, active : BOOLEAN,
               retries : 0..MaxRetryCount, timer : BOOLEAN, cancelTimer : BOOLEAN, hashing : BOOLEAN]
    /\ session.sid \in 0..MaxSessions /\ session.got \subseteq ChunkSet
    /\ down.st \in DownloadEnded \cup {"none", "fetching", "downloading", "paused", "retrying"}
    /\ down.retries \in 0..MaxRetryCount /\ started \in 0..MaxDownloads
    /\ Len(disk) <= 2 * DownloadSize

\* A task never has two requests whose replies are handled: every slot reads the reply
\* from the entry of m_active_uploads, so a second one would be taken for the first.
OneRequestPerUpload == Cardinality(live) <= 1

\* An upload shown as completed is a file on the server, whatever was lost or repeated.
UploadCompletedOnServer == up.st = "completed" => session.phase = "completed"

\* The chunks a task counts as uploaded are stored in the session it talks to, so the
\* completion never asks for a file with a hole.
RecordedChunksKept ==
    session.phase = "active" /\ up.sid = session.sid => up.chunks \subseteq session.got

\* A task that has ended waits for nothing: no reply will be handled for it, and its
\* entry and file handle are gone; a late timer finds that out and does nothing.
EndedIsQuiet ==
    /\ up.st \in UploadEnded => live = {} /\ ~up.active
    /\ down.st \in DownloadEnded => stream = NoStream /\ ~down.active /\ ~down.handle

\* The client's upload and the server's session never disagree about what is stored,
\* through retries, lost answers, cancellations and sessions opened anew
\* (HandleChunkResponse, HandleCompleteResponse, CancelUpload, ShutdownOwnerTransfers).
UploadFollowsServer ==
    /\ TransferTypeOK /\ OneRequestPerUpload /\ UploadCompletedOnServer
    /\ RecordedChunksKept /\ EndedIsQuiet

\* A download that was compared with a hash is the remote file, through pauses, retries,
\* broken connections, restarts of the application and targets used before.
VerifiedWhole == down.st = "completed" /\ down.hash => disk = Whole(down.file)

\* A completed file holds bytes of its own remote file and of error responses only, never
\* those of another file that was saved there before; and unless its last request resumed
\* a partial file, it is the remote file, hash or no hash.
CompletedFromOwn ==
    down.st = "completed" =>
        /\ ~down.range => disk = Whole(down.file)
        /\ \A i \in DOMAIN disk : disk[i] = Junk \/ \E j \in 1..DownloadSize : disk[i] = ByteAt(down.file, j)

\* A completed download is its own remote file as far as it can be compared
\* (PreparePartialFileForRange, HandleDownloadFinished, VerifyCompletedDownload).
DownloadFollowsServer == VerifiedWhole /\ CompletedFromOwn

\* Every download shown as completed is the remote file.
DownloadedWhole == down.st = "completed" => disk = Whole(down.file)

\* A cancelled upload does not stay "cancelling".
CancelSettles == (up.st = "cancelling") ~> (up.st # "cancelling")

=============================================================================
