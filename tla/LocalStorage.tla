---------------------------- MODULE LocalStorage ----------------------------
(***************************************************************************)
(* The local staging and blob store: files that several requests write,    *)
(* read, copy and remove on the threads of a task queue, each file-system  *)
(* call a step.  The process may die between two of them, and a delete of  *)
(* a blob is given up after a while but not undone.                        *)
(*                                                                         *)
(* One upload session with chunks 1..LastChunk and the blob of its bytes.  *)
(* A chunk's path holds its hash; a file is absent, partial or whole.      *)
(* The assembled file's path does not hold the attempt: that two attempts  *)
(* write the same file is the subject of UploadLifecycle.                  *)
(***************************************************************************)
EXTENDS Naturals, FiniteSets

CONSTANTS
    LastChunk,      \* chunks of the session
    LocalWriters,   \* requests that write a chunk
    LocalPromoters, \* requests that assemble and promote
    MaxDeaths       \* crashes of the process

ASSUME LocalAssumption == LastChunk \in Nat \ {0} /\ MaxDeaths \in Nat

VARIABLES
    dir,        \* whether the session's directory is there
    chunkFile,  \* published chunk files
    part,       \* a writer's own file "<chunk>.writing-<uuid>"
    tmpFile,    \* "<upload>.tmp": chunks written so far, and by whom
    blobFile,   \* the final file
    lwrite,     \* writers
    lpromote,   \* promoters
    ldelete,    \* the delete of the blob, and the removal it left running
    deaths

localVars == <<dir, chunkFile, part, tmpFile, blobFile, lwrite, lpromote, ldelete, deaths>>

ChunkIds == 1..LastChunk
NoTmp    == [by |-> {}, chunks |-> {}]

LocalInit ==
    /\ dir = FALSE
    /\ chunkFile = [i \in ChunkIds |-> "absent"]
    /\ part = [w \in LocalWriters |-> "absent"]
    /\ tmpFile = NoTmp /\ blobFile = "absent"
    /\ lwrite = [w \in LocalWriters |-> [pc |-> "idle", chunk |-> 1]]
    /\ lpromote = [p \in LocalPromoters |-> "idle"]
    /\ ldelete = "idle" /\ deaths = 0

-----------------------------------------------------------------------------
(* WriteChunk                                                              *)

Writer(w, pc) == lwrite' = [lwrite EXCEPT ![w].pc = pc]

\* create_directories, then exists: a chunk that is there is verified.
WriteBegin(w, i) ==
    /\ lwrite[w].pc = "idle"
    /\ dir' = TRUE
    /\ lwrite' = [lwrite EXCEPT ![w] = [chunk |-> i,
                    pc |-> CASE chunkFile[i] = "whole"   -> "ok"
                             [] chunkFile[i] = "partial" -> "failed"
                             [] OTHER                    -> "open"]]
    /\ UNCHANGED <<chunkFile, part, tmpFile, blobFile, lpromote, ldelete, deaths>>

\* Opening fails when a clean-up has removed the directory meanwhile.
WriteOpen(w) ==
    /\ lwrite[w].pc = "open"
    /\ IF dir THEN part' = [part EXCEPT ![w] = "partial"] /\ Writer(w, "data")
       ELSE Writer(w, "failed") /\ UNCHANGED part
    /\ UNCHANGED <<dir, chunkFile, tmpFile, blobFile, lpromote, ldelete, deaths>>

WriteData(w) ==
    /\ lwrite[w].pc = "data"
    /\ \/ part' = [part EXCEPT ![w] = IF @ = "partial" THEN "whole" ELSE @] /\ Writer(w, "publish")
       \/ part' = [part EXCEPT ![w] = "absent"] /\ Writer(w, "failed")
    /\ UNCHANGED <<dir, chunkFile, tmpFile, blobFile, lpromote, ldelete, deaths>>

\* rename, which replaces what another writer has published; or, after a
\* clean-up, an error.
WritePublish(w) ==
    /\ lwrite[w].pc = "publish"
    /\ IF part[w] = "absent" THEN Writer(w, "failed") /\ UNCHANGED <<chunkFile, part>>
       ELSE /\ chunkFile' = [chunkFile EXCEPT ![lwrite[w].chunk] = part[w]]
            /\ part' = [part EXCEPT ![w] = "absent"]
            /\ Writer(w, "ok")
    /\ UNCHANGED <<dir, tmpFile, blobFile, lpromote, ldelete, deaths>>

-----------------------------------------------------------------------------
(* AssembleChunks and PromoteToFinal, one promoter at a time between the   *)
(* two (the lease of the upload); copies of the same bytes run together.   *)

Promoter(p, pc) == lpromote' = [lpromote EXCEPT ![p] = pc]

\* ofstream truncates the file.
LocalAssembleStart(p) ==
    /\ lpromote[p] = "idle" /\ \A q \in LocalPromoters : lpromote[q] # "assembling"
    /\ tmpFile' = [by |-> {p}, chunks |-> {}]
    /\ Promoter(p, "assembling")
    /\ UNCHANGED <<dir, chunkFile, part, blobFile, lwrite, ldelete, deaths>>

\* The next chunk is read and its hash compared; otherwise the file is
\* removed and the assembly fails.
LocalAssembleChunk(p) ==
    /\ lpromote[p] = "assembling" /\ tmpFile.chunks # ChunkIds
    /\ LET i == Cardinality(tmpFile.chunks) + 1
       IN IF chunkFile[i] = "whole" /\ tmpFile.by = {p}
          THEN tmpFile' = [tmpFile EXCEPT !.chunks = @ \cup {i}] /\ UNCHANGED lpromote
          ELSE tmpFile' = NoTmp /\ Promoter(p, "failed")
    /\ UNCHANGED <<dir, chunkFile, part, blobFile, lwrite, ldelete, deaths>>

\* PromoteToFinal: the final file is there, and is hashed, or is copied.
VerifyExistingLocalBlob_Skipped == blobFile # "absent"
VerifyExistingLocalBlob == blobFile = "whole"

PromoteCheck(p) ==
    /\ lpromote[p] = "assembling" /\ tmpFile.chunks = ChunkIds
    /\ Promoter(p, IF blobFile = "absent" THEN "copy"
                   ELSE IF VerifyExistingLocalBlob THEN "ok" ELSE "failed")
    /\ UNCHANGED <<dir, chunkFile, part, tmpFile, blobFile, lwrite, ldelete, deaths>>

\* copy_file creates the file exclusively; file_exists is verified like above.
PromoteCopyOpen(p) ==
    /\ lpromote[p] = "copy"
    /\ IF blobFile # "absent"
       THEN Promoter(p, IF VerifyExistingLocalBlob THEN "ok" ELSE "failed") /\ UNCHANGED blobFile
       ELSE IF tmpFile.chunks # ChunkIds THEN Promoter(p, "failed") /\ UNCHANGED blobFile
       ELSE Promoter(p, "copying") /\ blobFile' = "partial"
    /\ UNCHANGED <<dir, chunkFile, part, tmpFile, lwrite, ldelete, deaths>>

\* A copy that fails leaves what it has written.
PromoteCopyEnd(p) ==
    /\ lpromote[p] = "copying"
    /\ \/ Promoter(p, "ok") /\ blobFile' = (IF blobFile = "partial" THEN "whole" ELSE blobFile)
       \/ Promoter(p, "failed") /\ UNCHANGED blobFile
    /\ UNCHANGED <<dir, chunkFile, part, tmpFile, lwrite, ldelete, deaths>>

-----------------------------------------------------------------------------
(* CleanupSession and DeleteBlob                                           *)

\* remove_all of the directory, then the assembled file; published parts and
\* the files of writers are in the directory.
LocalCleanup ==
    /\ dir
    /\ dir' = FALSE
    /\ chunkFile' = [i \in ChunkIds |-> "absent"]
    /\ part' = [w \in LocalWriters |-> "absent"]
    /\ tmpFile' = NoTmp
    /\ UNCHANGED <<blobFile, lwrite, lpromote, ldelete, deaths>>

\* Garbage collection of a blob without references: no request has been told
\* that it is there, and none is writing it.
DeleteQueued ==
    /\ ldelete = "idle" /\ \A p \in LocalPromoters : lpromote[p] \notin {"ok", "copy", "copying"}
    /\ ldelete' = "queued"
    /\ UNCHANGED <<dir, chunkFile, part, tmpFile, blobFile, lwrite, lpromote, deaths>>

\* The removal answers, or the timer of 30 seconds does; the loser's result
\* is dropped (compare_exchange on m_completed).
DeleteRun ==
    /\ ldelete = "queued"
    /\ ldelete' = "answered" /\ blobFile' = "absent"
    /\ UNCHANGED <<dir, chunkFile, part, tmpFile, lwrite, lpromote, deaths>>

DeleteTimesOut ==
    /\ ldelete = "queued"
    /\ ldelete' = "late"
    /\ UNCHANGED <<dir, chunkFile, part, tmpFile, blobFile, lwrite, lpromote, deaths>>

\* The job is retried, or the removal it left behind runs.
DeleteLate ==
    /\ ldelete = "late"
    /\ ldelete' = "answered" /\ blobFile' = "absent"
    /\ UNCHANGED <<dir, chunkFile, part, tmpFile, lwrite, lpromote, deaths>>

\* The process dies: requests end, files stay as they are.
Die ==
    /\ deaths < MaxDeaths /\ deaths' = deaths + 1
    /\ lwrite' = [w \in LocalWriters |->
                    IF lwrite[w].pc \in {"idle", "ok", "failed"} THEN lwrite[w] ELSE [lwrite[w] EXCEPT !.pc = "failed"]]
    /\ lpromote' = [p \in LocalPromoters |->
                      IF lpromote[p] \in {"idle", "ok", "failed"} THEN lpromote[p] ELSE "failed"]
    /\ ldelete' = IF ldelete \in {"queued", "late"} THEN "answered" ELSE ldelete
    /\ UNCHANGED <<dir, chunkFile, part, tmpFile, blobFile>>

LocalNext ==
    \/ \E w \in LocalWriters :
          \/ \E i \in ChunkIds : WriteBegin(w, i)
          \/ WriteOpen(w) \/ WriteData(w) \/ WritePublish(w)
    \/ \E p \in LocalPromoters :
          \/ LocalAssembleStart(p) \/ LocalAssembleChunk(p)
          \/ PromoteCheck(p) \/ PromoteCopyOpen(p) \/ PromoteCopyEnd(p)
    \/ LocalCleanup \/ DeleteQueued \/ DeleteRun \/ DeleteTimesOut \/ DeleteLate \/ Die

LocalSpec == LocalInit /\ [][LocalNext]_localVars

-----------------------------------------------------------------------------
(* Properties                                                              *)

\* A published chunk is whole: a reader, a second writer of the same chunk or
\* a restart never meets one that is being written.
PublishedChunkWhole == \A i \in ChunkIds : chunkFile[i] # "partial"

\* A request that was answered by the store with a blob has a whole one,
\* although the final file is written in place and a copy may have died; only
\* a removal that outlived its own timeout takes it away.
PromotedBlobWhole ==
    \A p \in LocalPromoters : lpromote[p] = "ok" => blobFile = "whole" \/ ldelete # "idle"

\* Removing a session leaves none of its files behind, but for a writer that
\* began afterwards or is still at work.
CleanedSessionEmpty ==
    ~dir => /\ \A i \in ChunkIds : chunkFile[i] = "absent"
            /\ \A w \in LocalWriters : part[w] = "absent"

\* The files of the local store are whole when somebody may rely on them and
\* gone when their session is (WriteChunk, PromoteToFinal, CleanupSession).
LocalConsistent == PublishedChunkWhole /\ PromotedBlobWhole /\ CleanedSessionEmpty

=============================================================================
