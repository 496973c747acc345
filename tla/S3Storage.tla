----------------------------- MODULE S3Storage -----------------------------
(***************************************************************************)
(* The S3 staging and blob store of one API process: chunk objects, the    *)
(* assembly of a session's chunks, its promotion to the final key, both by *)
(* multipart upload, the journal of multipart uploads, the worker that     *)
(* aborts the ones left behind, and the limit on concurrent assemblies.    *)
(*                                                                         *)
(* Several uploads of the same bytes share the final key.  A call of the   *)
(* S3 client fails, or has its effect and fails all the same (its answer   *)
(* is lost).  The time of a journal lease is only whether it has lapsed.   *)
(* Keys, sizes and hashes are left out: chunk keys hold the hash, so that  *)
(* an object under a chunk key is that chunk.                              *)
(***************************************************************************)
EXTENDS Naturals, FiniteSets

CONSTANTS
    Uploads,        \* upload sessions; each one assembles and promotes once
    Parts,          \* number of chunks, and of multipart parts
    MaxConcurrent,  \* AssemblyConcurrencyLimiter
    MaxFaults       \* failing S3 and journal calls, and crashes of the process

ASSUME S3Assumption ==
    /\ IsFiniteSet(Uploads) /\ "final" \notin Uploads
    /\ {Parts, MaxConcurrent} \subseteq Nat \ {0} /\ MaxFaults \in Nat

VARIABLES
    chunkObj,   \* chunk objects of a session
    object,     \* objects under assembly keys and the final key: the parts in them
    mpu,        \* multipart uploads at the provider, by session and stage
    journal,    \* storage_jobs rows of type multipart_abort
    stask,      \* what the coroutine of a session is doing
    running,    \* m_running of the limiter
    told,       \* history: sessions that were answered "created" for the final object
    faults

s3Vars == <<chunkObj, object, mpu, journal, stask, running, told, faults>>

Stages   == {"assemble", "promote"}
Final    == "final"
Keys     == Uploads \cup {Final}
KeyOf(u, stage) == IF stage = "assemble" THEN u ELSE Final
AllParts == 1..Parts

NoObject == {}
IdleTask == [pc |-> "write", stage |-> "assemble", next |-> 1, tracked |-> FALSE, created |-> FALSE,
             ok |-> FALSE]

S3Init ==
    /\ chunkObj = [u \in Uploads |-> {}]
    /\ object = [k \in Keys |-> NoObject]
    /\ mpu = [u \in Uploads |-> [s \in Stages |-> [st |-> "none", parts |-> {}]]]
    /\ journal = [u \in Uploads |-> [s \in Stages |-> "none"]]
    /\ stask = [u \in Uploads |-> IdleTask]
    /\ running = 0 /\ told = {} /\ faults = 0

Ended           == {"ok", "failed", "dead"}
At(u, pc)       == stask[u].pc = pc
Stage(u)        == stask[u].stage
Goes(u, pc)     == stask' = [stask EXCEPT ![u] = IF pc \in Ended \cup {"promote"} THEN [IdleTask EXCEPT !.pc = pc]
                                                 ELSE [@ EXCEPT !.pc = pc]]
SetMpu(u, m)    == mpu' = [mpu EXCEPT ![u][Stage(u)] = m]
SetJournal(u, s, j) == journal' = [journal EXCEPT ![u][s] = j]
Fault           == faults < MaxFaults /\ faults' = faults + 1

-----------------------------------------------------------------------------
(* Chunks.                                                                 *)

\* PutObjectIfAbsent, then HeadObject, or a check of the object that is there.
WriteChunk(u, i) ==
    /\ At(u, "write") /\ i = Cardinality(chunkObj[u]) + 1
    /\ chunkObj' = [chunkObj EXCEPT ![u] = @ \cup {i}]
    /\ UNCHANGED <<object, mpu, journal, stask, running, told, faults>>

-----------------------------------------------------------------------------
(* AssembleChunks and PromoteToFinal, up to the multipart upload.          *)

TryAcquire == running < MaxConcurrent

AssembleStart(u) ==
    /\ At(u, "write") /\ chunkObj[u] = AllParts /\ TryAcquire
    /\ running' = running + 1
    /\ Goes(u, "create")
    /\ UNCHANGED <<chunkObj, object, mpu, journal, told, faults>>

\* No slot: TooManyRequests; the client asks again.  Nothing has changed.

\* HeadObject of the final key, then of the assembled source.
PromoteStart(u) ==
    /\ At(u, "promote")
    /\ IF object[Final] # NoObject THEN Goes(u, "ok")
       ELSE IF object[u] = NoObject THEN Goes(u, "failed")
       ELSE stask' = [stask EXCEPT ![u] = [IdleTask EXCEPT !.pc = "create", !.stage = "promote"]]
    /\ UNCHANGED <<chunkObj, object, mpu, journal, running, told, faults>>

\* A slot is held as long as the coroutine of AssembleChunks runs.
SlotFreed(u, ok) == running' = IF Stage(u) = "assemble" THEN running - 1 ELSE running

-----------------------------------------------------------------------------
(* The multipart upload under its MultipartAbortGuard.                     *)

CreateMultipartUpload(u) ==
    /\ At(u, "create")
    /\ \/ SetMpu(u, [st |-> "open", parts |-> {}]) /\ Goes(u, "track") /\ UNCHANGED <<running, faults>>
       \/ \* no upload id: there is nothing to abort
          /\ Fault /\ Goes(u, "failed") /\ SlotFreed(u, FALSE)
          /\ SetMpu(u, [st |-> "open", parts |-> {}]) \/ UNCHANGED mpu
    /\ UNCHANGED <<chunkObj, object, journal, told>>

Track(u) ==
    /\ At(u, "track")
    /\ \/ /\ SetJournal(u, Stage(u), "leased")
          /\ stask' = [stask EXCEPT ![u].pc = "part", ![u].tracked = TRUE]
          /\ UNCHANGED faults
       \/ /\ Fault /\ Goes(u, "abort")
          /\ SetJournal(u, Stage(u), "leased") \/ UNCHANGED journal
    /\ UNCHANGED <<chunkObj, object, mpu, running, told>>

\* Renew: UPDATE ... WHERE status = Running AND locked_by = me AND not lapsed.
Renewable(u) == journal[u][Stage(u)] = "leased"

SourceThere(u) == IF Stage(u) = "assemble" THEN stask[u].next \in chunkObj[u] ELSE object[u] # NoObject

Renew(u) ==
    /\ At(u, "part")
    /\ Goes(u, IF Renewable(u) /\ SourceThere(u) THEN "upload" ELSE "abort")
    /\ UNCHANGED <<chunkObj, object, mpu, journal, running, told, faults>>

\* UploadPart or UploadPartCopy; refused when the upload is no longer open.
LastPart == Parts
UploadPart(u) ==
    /\ At(u, "upload")
    /\ LET m == mpu[u][Stage(u)]
       IN \/ /\ m.st = "open"
             /\ SetMpu(u, [m EXCEPT !.parts = @ \cup {stask[u].next}])
             /\ stask' = [stask EXCEPT ![u].next = @ + 1,
                                       ![u].pc = IF stask[u].next >= LastPart THEN "last" ELSE "part"]
             /\ UNCHANGED faults
          \/ m.st # "open" /\ Goes(u, "abort") /\ UNCHANGED <<mpu, faults>>
          \/ Fault /\ Goes(u, "abort") /\ UNCHANGED mpu
    /\ UNCHANGED <<chunkObj, object, journal, running, told>>

LastRenew(u) ==
    /\ At(u, "last")
    /\ Goes(u, IF Renewable(u) THEN "complete" ELSE "abort")
    /\ UNCHANGED <<chunkObj, object, mpu, journal, running, told, faults>>

\* Only the final object is written with If-None-Match.
OnlyIfAbsent(stage) == stage = "promote"

CompleteMultipartUpload(u) ==
    /\ At(u, "complete")
    /\ LET m == mpu[u][Stage(u)]
           k == KeyOf(u, Stage(u))
           absent == object[k] = NoObject
       IN \/ /\ m.st = "open" /\ (OnlyIfAbsent(Stage(u)) => absent)
             /\ object' = [object EXCEPT ![k] = m.parts]
             /\ SetMpu(u, [st |-> "completed", parts |-> {}])
             /\ told' = IF Stage(u) = "promote" THEN told \cup {u} ELSE told
             /\ \/ /\ stask' = [stask EXCEPT ![u].pc = "resolve", ![u].created = TRUE]
                   /\ UNCHANGED faults
                \/ Fault /\ Goes(u, "abort")
          \/ \* PreconditionFailed: created is false and the guard stays active
             /\ m.st = "open" /\ OnlyIfAbsent(Stage(u)) /\ ~absent
             /\ Goes(u, "verify") /\ UNCHANGED <<object, mpu, told, faults>>
          \/ /\ m.st # "open" /\ Goes(u, "abort") /\ UNCHANGED <<object, mpu, told, faults>>
          \/ /\ Fault /\ Goes(u, "abort") /\ UNCHANGED <<object, mpu, told>>
    /\ UNCHANGED <<chunkObj, journal, running>>

\* Release: Resolve, whose failure is logged.  UPDATE ... WHERE status =
\* Running AND locked_by = me; a lapsed lease is still mine.
Owned(u) == journal[u][Stage(u)] \in {"leased", "lapsed"}
Resolved(u) == SetJournal(u, Stage(u), IF Owned(u) THEN "succeeded" ELSE journal[u][Stage(u)])

Release(u) ==
    /\ At(u, "resolve")
    /\ \/ Resolved(u) /\ UNCHANGED faults
       \/ Fault /\ UNCHANGED journal
    /\ Goes(u, "verify")
    /\ UNCHANGED <<chunkObj, object, mpu, running, told>>

\* Where the task goes once this stage has ended.
After(u, ok) == IF ~ok THEN "failed" ELSE IF Stage(u) = "assemble" THEN "promote" ELSE "ok"

\* HeadObject of the new object; the guard aborts if it is still active.
Verify(u) ==
    /\ At(u, "verify")
    /\ LET ok == object[KeyOf(u, Stage(u))] # NoObject
       IN IF stask[u].created
          THEN Goes(u, After(u, ok)) /\ SlotFreed(u, ok)
          ELSE stask' = [stask EXCEPT ![u].pc = "abort", ![u].ok = ok] /\ UNCHANGED running
    /\ UNCHANGED <<chunkObj, object, mpu, journal, told, faults>>

\* ~MultipartAbortGuard: Abort, then Resolve or ReleaseForRetry, whose own
\* failures are logged.  An upload that is gone counts as aborted.
Aborted(m) == IF m.st = "open" THEN [st |-> "aborted", parts |-> {}] ELSE m

GuardAbort_ResolvesAnyway(u) ==
    /\ At(u, "abort")
    /\ \/ SetMpu(u, Aborted(mpu[u][Stage(u)])) /\ UNCHANGED faults
       \/ Fault /\ UNCHANGED mpu
    /\ IF stask[u].tracked THEN Resolved(u) ELSE UNCHANGED journal
    /\ SlotFreed(u, FALSE) /\ Goes(u, After(u, stask[u].ok))
    /\ UNCHANGED <<chunkObj, object, told>>
GuardAbort(u) ==
    /\ At(u, "abort")
    /\ \/ /\ SetMpu(u, Aborted(mpu[u][Stage(u)])) /\ UNCHANGED faults
          /\ IF stask[u].tracked THEN Resolved(u) ELSE UNCHANGED journal
       \/ /\ Fault /\ UNCHANGED mpu
          /\ IF stask[u].tracked /\ Owned(u) THEN SetJournal(u, Stage(u), "retry") ELSE UNCHANGED journal
       \/ \* aborted, and Resolve failed or the answer was lost
          /\ Fault /\ SetMpu(u, Aborted(mpu[u][Stage(u)])) /\ UNCHANGED journal
    /\ SlotFreed(u, FALSE) /\ Goes(u, After(u, stask[u].ok))
    /\ UNCHANGED <<chunkObj, object, told>>

-----------------------------------------------------------------------------
(* The worker, the provider and the process.                               *)

LeaseLapses(u, s) ==
    /\ journal[u][s] = "leased"
    /\ SetJournal(u, s, "lapsed")
    /\ UNCHANGED <<chunkObj, object, mpu, stask, running, told, faults>>

\* A worker claims a job whose lease has lapsed or that waits for a retry.
WorkerClaim_RetryOnly(u, s) ==
    /\ journal[u][s] = "retry"
    /\ SetJournal(u, s, "claimed")
    /\ UNCHANGED <<chunkObj, object, mpu, stask, running, told, faults>>
WorkerClaim(u, s) ==
    /\ journal[u][s] \in {"lapsed", "retry"}
    /\ SetJournal(u, s, "claimed")
    /\ UNCHANGED <<chunkObj, object, mpu, stask, running, told, faults>>

\* ExecuteMultipartAbort.
WorkerAbort(u, s) ==
    /\ journal[u][s] = "claimed"
    /\ \/ /\ mpu' = [mpu EXCEPT ![u][s] = Aborted(@)]
          /\ SetJournal(u, s, "succeeded") /\ UNCHANGED faults
       \/ Fault /\ SetJournal(u, s, "retry") /\ UNCHANGED mpu
    /\ UNCHANGED <<chunkObj, object, stask, running, told>>

\* CleanupSession of a session that has ended: everything under its prefix.
CleanupSession(u) ==
    /\ stask[u].pc \in Ended
    /\ chunkObj[u] # {} \/ object[u] # NoObject
    /\ \/ /\ chunkObj' = [chunkObj EXCEPT ![u] = {}]
          /\ object' = [object EXCEPT ![u] = NoObject]
          /\ UNCHANGED faults
       \/ \* the batch delete fails for some keys
          Fault /\ chunkObj' = [chunkObj EXCEPT ![u] = {}] /\ UNCHANGED object
    /\ UNCHANGED <<mpu, journal, stask, running, told>>

\* DeleteBlob, for a blob no row refers to: no promotion has ended well since.
DeleteBlob ==
    /\ object[Final] # NoObject /\ \A u \in Uploads : stask[u].pc # "ok"
    /\ object' = [object EXCEPT ![Final] = NoObject]
    /\ told' = {}
    /\ UNCHANGED <<chunkObj, mpu, journal, stask, running, faults>>

\* The process dies with every coroutine; its slots are gone with it.
S3Crash ==
    /\ Fault
    /\ stask' = [u \in Uploads |-> IF stask[u].pc \in {"write", "ok", "failed"} THEN stask[u]
                                   ELSE [IdleTask EXCEPT !.pc = "dead"]]
    /\ running' = 0
    /\ UNCHANGED <<chunkObj, object, mpu, journal, told>>

SessionStep(u) ==
    \/ AssembleStart(u) \/ PromoteStart(u)
    \/ CreateMultipartUpload(u) \/ Track(u) \/ Renew(u) \/ UploadPart(u) \/ LastRenew(u)
    \/ CompleteMultipartUpload(u) \/ Release(u) \/ Verify(u) \/ GuardAbort(u)

RecoveryStep(u, s) == LeaseLapses(u, s) \/ WorkerClaim(u, s) \/ WorkerAbort(u, s)

S3Next ==
    \/ \E u \in Uploads : SessionStep(u) \/ CleanupSession(u) \/ \E i \in AllParts : WriteChunk(u, i)
    \/ \E u \in Uploads, s \in Stages : RecoveryStep(u, s)
    \/ DeleteBlob \/ S3Crash

\* Leases run out, since a writer renews once per part, and workers run.
S3Fairness == \A u \in Uploads, s \in Stages : WF_s3Vars(RecoveryStep(u, s))

S3Spec == S3Init /\ [][S3Next]_s3Vars /\ S3Fairness

-----------------------------------------------------------------------------
(* Properties                                                              *)

S3TypeOK ==
    /\ \A u \in Uploads : chunkObj[u] \subseteq AllParts
    /\ \A k \in Keys : object[k] \subseteq AllParts
    /\ \A u \in Uploads, s \in Stages :
         /\ mpu[u][s].st \in {"none", "open", "completed", "aborted"} /\ mpu[u][s].parts \subseteq AllParts
         /\ journal[u][s] \in {"none", "leased", "lapsed", "retry", "claimed", "succeeded"}
    /\ \A u \in Uploads : stask[u].next \in 1..(Parts + 1)
    /\ running \in 0..MaxConcurrent

\* An object that readers can see holds every part of its upload, also when
\* recovery has aborted the upload under its writer.
ObjectsWhole == \A k \in Keys : object[k] \in {NoObject, AllParts}

\* A journal row is closed only once the provider has nothing left to abort:
\* neither the guard nor the worker gives up on an upload that is open.
ResolvedIsClosed ==
    \A u \in Uploads, s \in Stages : journal[u][s] = "succeeded" => mpu[u][s].st # "open"

\* The limiter counts exactly the assemblies that run, whichever way they end.
SlotsExact ==
    running = Cardinality({u \in Uploads : Stage(u) = "assemble"
                              /\ stask[u].pc \notin {"write", "promote"} \cup Ended})

\* Of several promotions of the same bytes, at most one is told that it has
\* created the blob: one that raced with it is told that it has not.
CreatedOnce == Cardinality(told) <= 1

\* An upload the journal knows of is not left open for ever, whatever crashed
\* (the S3 inventories "converge to zero").
TrackedUploadCloses ==
    \A u \in Uploads, s \in Stages :
        (mpu[u][s].st = "open" /\ journal[u][s] # "none") ~> mpu[u][s].st # "open"

\* The bucket, the journal and the limiter agree: objects are whole and made
\* once, a settled journal row hides no open upload, every slot is given back
\* (AssembleChunks, PromoteToFinal, the abort guard and the recovery worker).
S3Consistent == S3TypeOK /\ ObjectsWhole /\ ResolvedIsClosed /\ SlotsExact /\ CreatedOnce

=============================================================================
