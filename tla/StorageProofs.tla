---------------------------- MODULE StorageProofs ----------------------------
(***************************************************************************)
(* Proofs about the two storage back ends, LocalStorage and S3Storage: the *)
(* files and objects others rely on are whole, for any number of requests, *)
(* sessions, parts, failures and crashes.                                  *)
(*                                                                         *)
(* Then the scans of Reconciliation, for any number of objects, contents,  *)
(* workers, scans, changes and failures: ScansTruthful.  A page that has a *)
(* job has everything before its cursor dealt with, an attempt knows what  *)
(* has not moved as it is, and no step unsays what was written of it.      *)
(***************************************************************************)
EXTENDS LocalStorage, S3Storage, Reconciliation, SetSumsProofs, FiniteSetTheorems, TLAPS

-----------------------------------------------------------------------------
(* The local store: the inductive invariant.                               *)

LocalTypeOK ==
    /\ dir       \in BOOLEAN
    /\ chunkFile \in [ChunkIds -> {"absent", "partial", "whole"}]
    /\ part      \in [LocalWriters -> {"absent", "partial", "whole"}]
    /\ blobFile  \in {"absent", "partial", "whole"}
    /\ lwrite    \in [LocalWriters ->
                        [pc : {"idle", "open", "data", "publish", "ok", "failed"}, chunk : ChunkIds]]
    /\ lpromote  \in [LocalPromoters -> {"idle", "assembling", "copy", "copying", "ok", "failed"}]
    /\ ldelete   \in {"idle", "queued", "late", "answered"}

\* A writer renames its own file only once it has written all of it, unless a
\* clean-up has taken the file away.
WrittenBeforeRename ==
    \A w \in LocalWriters : lwrite[w].pc = "publish" => part[w] # "partial"

\* The final file stays there under a copy, unless a removal took it away.
CopyKeepsFile ==
    \A p \in LocalPromoters : lpromote[p] = "copying" => blobFile # "absent" \/ ldelete # "idle"

LocalInv == LocalTypeOK /\ WrittenBeforeRename /\ CopyKeepsFile /\ LocalConsistent

-----------------------------------------------------------------------------
\* A store without files is consistent.
LEMMA LocalInitInv == LocalInit => LocalInv
<1>1. 1 \in ChunkIds
  BY LocalAssumption DEF ChunkIds
<1> SUFFICES ASSUME LocalInit PROVE LocalInv
  OBVIOUS
<1>2. LocalTypeOK
  BY <1>1 DEF LocalInit, LocalTypeOK
<1>3. WrittenBeforeRename /\ CopyKeepsFile /\ LocalConsistent
  BY DEF LocalInit, WrittenBeforeRename, CopyKeepsFile, LocalConsistent, PublishedChunkWhole,
         PromotedBlobWhole, CleanedSessionEmpty
<1> QED
  BY <1>2, <1>3 DEF LocalInv

\* WriteChunk keeps the invariant between any two of its file-system calls:
\* what it renames is whole, and it writes nothing into a removed directory.
LEMMA WriterInv ==
    ASSUME LocalInv, NEW w \in LocalWriters,
           (\E i \in ChunkIds : WriteBegin(w, i)) \/ WriteOpen(w) \/ WriteData(w) \/ WritePublish(w)
    PROVE  LocalInv'
<1> USE DEF LocalInv, LocalConsistent
<1>1. UNCHANGED <<tmpFile, blobFile, lpromote, ldelete>>
  BY DEF WriteBegin, WriteOpen, WriteData, WritePublish
<1>2. CopyKeepsFile' /\ PromotedBlobWhole'
  BY <1>1 DEF CopyKeepsFile, PromotedBlobWhole
<1>3. ASSUME NEW i \in ChunkIds, WriteBegin(w, i)
      PROVE  LocalTypeOK' /\ WrittenBeforeRename' /\ PublishedChunkWhole' /\ CleanedSessionEmpty'
  BY <1>3 DEF WriteBegin, LocalTypeOK, WrittenBeforeRename, PublishedChunkWhole, CleanedSessionEmpty
<1>4. ASSUME WriteOpen(w)
      PROVE  LocalTypeOK' /\ WrittenBeforeRename' /\ PublishedChunkWhole' /\ CleanedSessionEmpty'
  BY <1>4 DEF WriteOpen, Writer, LocalTypeOK, WrittenBeforeRename, PublishedChunkWhole, CleanedSessionEmpty
<1>5. ASSUME WriteData(w)
      PROVE  LocalTypeOK' /\ WrittenBeforeRename' /\ PublishedChunkWhole' /\ CleanedSessionEmpty'
  BY <1>5 DEF WriteData, Writer, LocalTypeOK, WrittenBeforeRename, PublishedChunkWhole, CleanedSessionEmpty
<1>6. ASSUME WritePublish(w)
      PROVE  LocalTypeOK' /\ WrittenBeforeRename' /\ PublishedChunkWhole' /\ CleanedSessionEmpty'
  BY <1>6 DEF WritePublish, Writer, LocalTypeOK, WrittenBeforeRename, PublishedChunkWhole, CleanedSessionEmpty
<1> QED
  BY <1>2, <1>3, <1>4, <1>5, <1>6

\* AssembleChunks and PromoteToFinal keep the invariant: "ok" is answered for a
\* file that was hashed, or copied to its end.
LEMMA PromoterInv ==
    ASSUME LocalInv, NEW p \in LocalPromoters,
           \/ LocalAssembleStart(p) \/ LocalAssembleChunk(p)
           \/ PromoteCheck(p) \/ PromoteCopyOpen(p) \/ PromoteCopyEnd(p)
    PROVE  LocalInv'
<1> USE DEF LocalInv, LocalConsistent
<1>1. UNCHANGED <<dir, chunkFile, part, lwrite, ldelete>>
  BY DEF LocalAssembleStart, LocalAssembleChunk, PromoteCheck, PromoteCopyOpen, PromoteCopyEnd
<1>2. WrittenBeforeRename' /\ PublishedChunkWhole' /\ CleanedSessionEmpty'
  BY <1>1 DEF WrittenBeforeRename, PublishedChunkWhole, CleanedSessionEmpty
<1>3. ASSUME LocalAssembleStart(p) \/ LocalAssembleChunk(p) \/ PromoteCheck(p)
      PROVE  LocalTypeOK' /\ CopyKeepsFile' /\ PromotedBlobWhole'
  BY <1>3, <1>1 DEF LocalAssembleStart, LocalAssembleChunk, PromoteCheck, Promoter, VerifyExistingLocalBlob,
                    LocalTypeOK, CopyKeepsFile, PromotedBlobWhole
<1>4. ASSUME PromoteCopyOpen(p)
      PROVE  LocalTypeOK' /\ CopyKeepsFile' /\ PromotedBlobWhole'
  BY <1>4, <1>1 DEF PromoteCopyOpen, Promoter, VerifyExistingLocalBlob, LocalTypeOK, CopyKeepsFile,
                    PromotedBlobWhole
<1>5. ASSUME PromoteCopyEnd(p)
      PROVE  LocalTypeOK' /\ CopyKeepsFile' /\ PromotedBlobWhole'
  BY <1>5, <1>1 DEF PromoteCopyEnd, Promoter, LocalTypeOK, CopyKeepsFile, PromotedBlobWhole
<1> QED
  BY <1>2, <1>3, <1>4, <1>5

\* CleanupSession, DeleteBlob with its timeout, and the death of the process
\* keep the invariant, whatever they interrupt.
LEMMA RemovalInv ==
    ASSUME LocalInv,
           LocalCleanup \/ DeleteQueued \/ DeleteRun \/ DeleteTimesOut \/ DeleteLate \/ Die
    PROVE  LocalInv'
<1> USE DEF LocalInv, LocalConsistent, LocalTypeOK, WrittenBeforeRename, CopyKeepsFile,
            PublishedChunkWhole, PromotedBlobWhole, CleanedSessionEmpty
<1>1. CASE LocalCleanup
  BY <1>1 DEF LocalCleanup
<1>2. CASE DeleteQueued
  BY <1>2 DEF DeleteQueued
<1>3. CASE DeleteRun
  BY <1>3 DEF DeleteRun
<1>4. CASE DeleteTimesOut
  BY <1>4 DEF DeleteTimesOut
<1>5. CASE DeleteLate
  BY <1>5 DEF DeleteLate
<1>6. CASE Die
  BY <1>6 DEF Die
<1> QED
  BY <1>1, <1>2, <1>3, <1>4, <1>5, <1>6

\* A published chunk is whole, a blob the store has answered for is whole until
\* it is deleted, and a removed session leaves no file, through every crash
\* between two file-system calls (WriteChunk, PromoteToFinal, CleanupSession,
\* DeleteBlob).
THEOREM LocalConsistentHolds == LocalSpec => []LocalConsistent
<1>1. LocalInit => LocalInv
  BY LocalInitInv
<1>2. LocalInv /\ [LocalNext]_localVars => LocalInv'
  <2> SUFFICES ASSUME LocalInv, [LocalNext]_localVars PROVE LocalInv'
    OBVIOUS
  <2>1. CASE UNCHANGED localVars
    BY <2>1 DEF LocalInv, LocalConsistent, LocalTypeOK, WrittenBeforeRename, CopyKeepsFile,
                PublishedChunkWhole, PromotedBlobWhole, CleanedSessionEmpty, localVars
  <2>2. CASE LocalNext
    BY <2>2, WriterInv, PromoterInv, RemovalInv DEF LocalNext
  <2> QED
    BY <2>1, <2>2
<1>3. LocalInv => LocalConsistent
  BY DEF LocalInv
<1> QED
  BY <1>1, <1>2, <1>3, PTL DEF LocalSpec

-----------------------------------------------------------------------------
(* The S3 store: the inductive invariant.                                  *)

TaskPc == {"write", "create", "track", "part", "upload", "last", "complete", "resolve", "verify",
           "abort", "promote", "ok", "failed", "dead"}
TaskType == [pc : TaskPc, stage : Stages, next : 1..(Parts + 1), tracked : BOOLEAN,
             created : BOOLEAN, ok : BOOLEAN]
MpuType == [st : {"none", "open", "completed", "aborted"}, parts : SUBSET AllParts]
JournalType == {"none", "leased", "lapsed", "retry", "claimed", "succeeded"}

S3Types ==
    /\ chunkObj \in [Uploads -> SUBSET AllParts]
    /\ object   \in [Keys -> SUBSET AllParts]
    /\ mpu      \in [Uploads -> [Stages -> MpuType]]
    /\ journal  \in [Uploads -> [Stages -> JournalType]]
    /\ stask    \in [Uploads -> TaskType]
    /\ running  \in 0..MaxConcurrent
    /\ told     \in SUBSET Uploads
    /\ faults   \in Nat

\* While it is open, the multipart upload m of a session's stage holds exactly
\* the parts its coroutine t has sent.
SentBy(t, m) ==
    /\ t.pc \in {"write", "promote"} \cup Ended => t.stage = "assemble"
    /\ t.pc \in {"write", "create", "track"} => t.next = 1
    /\ t.pc = "track" => m.parts = {}
    /\ t.pc \in {"part", "upload"} => t.next <= Parts
    /\ t.pc \in {"part", "upload"} /\ m.st = "open" => m.parts = 1..(t.next - 1)
    /\ t.pc \in {"last", "complete"} /\ m.st = "open" => m.parts = AllParts
    /\ t.pc = "resolve" => m.st # "open"

PartsSent == \A u \in Uploads : SentBy(stask[u], mpu[u][stask[u].stage])

\* The journal holds no row of a stage that has not been tracked yet.
Untracked(t, rows) ==
    /\ t.pc \in {"write", "create", "track"} => rows[t.stage] = "none"
    /\ t.stage = "assemble" /\ t.pc \notin Ended => rows["promote"] = "none"

NotYetTracked == \A u \in Uploads : Untracked(stask[u], journal[u])

\* Who was told that it created the final object made the one that is there.
ToldIsThere == told # {} => object[Final] # NoObject

S3Inv == S3Types /\ PartsSent /\ NotYetTracked /\ ToldIsThere /\ ObjectsWhole /\ ResolvedIsClosed
         /\ SlotsExact /\ CreatedOnce

\* The assemblies that run.
Assembling == {u \in Uploads : stask[u].stage = "assemble"
                                 /\ stask[u].pc \notin {"write", "promote"} \cup Ended}

-----------------------------------------------------------------------------
(* Lemmas about the steps of a coroutine and the limiter.                  *)

\* Where Goes leads, and that the other coroutines stay where they are.
LEMMA GoesStep ==
    ASSUME S3Types, NEW u \in Uploads, NEW pc \in TaskPc, Goes(u, pc)
    PROVE  /\ stask' \in [Uploads -> TaskType]
           /\ \A v \in Uploads \ {u} : stask'[v] = stask[v]
           /\ stask'[u].pc = pc
           /\ pc \in Ended \cup {"promote"} => stask'[u].stage = "assemble"
           /\ pc \notin Ended \cup {"promote"} =>
                 stask'[u].stage = stask[u].stage /\ stask'[u].next = stask[u].next
<1>1. IdleTask \in TaskType /\ stask[u] \in TaskType /\ stask \in [Uploads -> TaskType]
  BY S3Assumption DEF S3Types, IdleTask, TaskType, TaskPc, Stages
<1>2. CASE pc \in Ended \cup {"promote"}
  <2>1. stask' = [stask EXCEPT ![u] = [IdleTask EXCEPT !.pc = pc]]
    BY <1>2 DEF Goes
  <2>2. [IdleTask EXCEPT !.pc = pc] \in TaskType
    BY <1>1 DEF TaskType
  <2> QED
    BY <1>1, <1>2, <2>1, <2>2 DEF IdleTask
<1>3. CASE pc \notin Ended \cup {"promote"}
  <2>1. stask' = [stask EXCEPT ![u] = [stask[u] EXCEPT !.pc = pc]]
    BY <1>1, <1>3 DEF Goes
  <2>2. [stask[u] EXCEPT !.pc = pc] \in TaskType
    BY <1>1 DEF TaskType
  <2> QED
    BY <1>1, <1>3, <2>1, <2>2 DEF TaskType
<1> QED
  BY <1>2, <1>3

\* Writing one field of a table with two keys.
LEMMA SetAt ==
    ASSUME NEW A, NEW B, NEW T, NEW f \in [A -> [B -> T]], NEW a \in A, NEW b \in B, NEW x \in T,
           NEW g, g = [f EXCEPT ![a][b] = x]
    PROVE  /\ g \in [A -> [B -> T]] /\ g[a][b] = x
           /\ \A c \in B : c # b => g[a][c] = f[a][c]
           /\ \A c \in A : c # a => g[c] = f[c]
<1>1. g = [f EXCEPT ![a] = [f[a] EXCEPT ![b] = x]]
  OBVIOUS
<1>2. f[a] \in [B -> T] /\ [f[a] EXCEPT ![b] = x] \in [B -> T]
  OBVIOUS
<1> QED
  BY <1>1, <1>2

\* The assemblies that run form a finite set.
LEMMA AssemblingFinite ==
    /\ IsFiniteSet(Assembling) /\ Cardinality(Assembling) \in Nat
    /\ IsFiniteSet(Assembling') /\ Cardinality(Assembling') \in Nat
<1>1. Assembling \subseteq Uploads /\ Assembling' \subseteq Uploads
  BY DEF Assembling
<1>2. IsFiniteSet(Assembling) /\ IsFiniteSet(Assembling')
  BY <1>1, S3Assumption, FS_Subset
<1> QED
  BY <1>2, FS_CardinalityType

\* What the limiter counts, in one word.
LEMMA SlotsAre ==
    /\ SlotsExact <=> running = Cardinality(Assembling)
    /\ SlotsExact' <=> running' = Cardinality(Assembling')
BY DEF SlotsExact, Assembling, Stage

\* A step within a stage keeps the slots.
LEMMA SlotsKept ==
    ASSUME S3Inv, NEW u \in Uploads, running' = running,
           \A v \in Uploads \ {u} : stask'[v] = stask[v],
           u \in Assembling <=> u \in Assembling'
    PROVE  SlotsExact'
<1>1. Assembling' = Assembling
  BY DEF Assembling
<1> QED
  BY <1>1, SlotsAre DEF S3Inv

\* A coroutine that ends a stage gives back the slot it holds, and no other.
LEMMA SlotGivenBack ==
    ASSUME S3Inv, NEW u \in Uploads, NEW ok, SlotFreed(u, ok),
           stask[u].pc \notin {"write", "promote"} \cup Ended,
           \A v \in Uploads \ {u} : stask'[v] = stask[v],
           stask'[u].pc \in Ended \cup {"promote"}
    PROVE  SlotsExact' /\ running' \in 0..MaxConcurrent
<1>1. running \in 0..MaxConcurrent /\ MaxConcurrent \in Nat /\ running = Cardinality(Assembling)
  BY SlotsAre, S3Assumption DEF S3Inv, S3Types
<1>2. CASE stask[u].stage = "assemble"
  <2>1. u \in Assembling /\ Assembling' = Assembling \ {u}
    BY <1>2 DEF Assembling
  <2>2. Cardinality(Assembling') = Cardinality(Assembling) - 1
    BY <2>1, AssemblingFinite, FS_RemoveElement
  <2>3. running' = running - 1
    BY <1>2 DEF SlotFreed, Stage
  <2> QED
    BY <1>1, <2>2, <2>3, AssemblingFinite, SlotsAre
<1>3. CASE stask[u].stage # "assemble"
  <2>1. Assembling' = Assembling
    BY <1>3 DEF Assembling
  <2>2. running' = running
    BY <1>3 DEF SlotFreed, Stage
  <2> QED
    BY <1>1, <2>1, <2>2, SlotsAre
<1> QED
  BY <1>2, <1>3

\* AllParts is not empty, and a record of an upload has its fields.
LEMMA Shapes ==
    ASSUME S3Types, NEW u \in Uploads
    PROVE  /\ AllParts # {} /\ Parts \in Nat \ {0}
           /\ stask[u].stage \in Stages /\ stask[u].next \in 1..(Parts + 1) /\ stask[u].pc \in TaskPc
           /\ \A s \in Stages : mpu[u][s] \in MpuType /\ journal[u][s] \in JournalType
           /\ u \in Keys /\ Final \in Keys /\ u # Final
           /\ KeyOf(u, stask[u].stage) \in Keys
BY S3Assumption DEF S3Types, TaskType, AllParts, Keys, KeyOf, Final

-----------------------------------------------------------------------------
(* One lemma for each step.                                                *)

\* The bucket and the journal start empty.
LEMMA S3InitInv == S3Init => S3Inv
<1> SUFFICES ASSUME S3Init PROVE S3Inv
  OBVIOUS
<1>1. S3Types
  <2>1. IdleTask \in TaskType
    BY S3Assumption DEF IdleTask, TaskType, TaskPc, Stages
  <2>2. [st |-> "none", parts |-> {}] \in MpuType
    BY DEF MpuType
  <2> QED
    BY <2>1, <2>2, S3Assumption DEF S3Init, S3Types, NoObject, JournalType
<1>2. PartsSent /\ NotYetTracked
  BY DEF S3Init, PartsSent, SentBy, NotYetTracked, Untracked, Ended, IdleTask, Stages
<1>3. ToldIsThere /\ ObjectsWhole /\ ResolvedIsClosed
  BY DEF S3Init, ToldIsThere, ObjectsWhole, ResolvedIsClosed
<1>4. SlotsExact
  <2>1. Assembling = {}
    BY DEF S3Init, Assembling, IdleTask
  <2> QED
    BY <2>1, FS_EmptySet, SlotsAre DEF S3Init
<1>5. CreatedOnce
  BY FS_EmptySet DEF S3Init, CreatedOnce
<1> QED
  BY <1>1, <1>2, <1>3, <1>4, <1>5 DEF S3Inv

\* A step that leaves the objects alone keeps what is said of them.
LEMMA ObjectsKept ==
    ASSUME S3Inv, UNCHANGED <<object, told>>
    PROVE  ToldIsThere' /\ ObjectsWhole' /\ CreatedOnce'
BY DEF S3Inv, ToldIsThere, ObjectsWhole, CreatedOnce

\* WriteChunk adds a chunk object.
LEMMA WriteChunkInv ==
    ASSUME S3Inv, NEW u \in Uploads, NEW i \in AllParts, WriteChunk(u, i)
    PROVE  S3Inv'
<1>1. UNCHANGED <<object, mpu, journal, stask, running, told, faults>>
  BY DEF WriteChunk
<1>2. S3Types'
  BY <1>1 DEF S3Inv, S3Types, WriteChunk
<1>3. PartsSent' /\ NotYetTracked' /\ ResolvedIsClosed' /\ SlotsExact'
  BY <1>1 DEF S3Inv, PartsSent, NotYetTracked, ResolvedIsClosed, SlotsExact, Stage
<1> QED
  BY <1>1, <1>2, <1>3, ObjectsKept DEF S3Inv

\* AssembleChunks takes a slot of the limiter only when one is free.
LEMMA AssembleStartInv ==
    ASSUME S3Inv, NEW u \in Uploads, AssembleStart(u)
    PROVE  S3Inv'
<1>1. UNCHANGED <<chunkObj, object, mpu, journal, told, faults>> /\ Goes(u, "create")
  BY DEF AssembleStart
<1>2. "create" \in TaskPc /\ "create" \notin Ended \cup {"promote"} /\ stask[u].pc = "write"
  BY DEF TaskPc, Ended, AssembleStart, At
<1>3. /\ stask' \in [Uploads -> TaskType]
      /\ \A v \in Uploads \ {u} : stask'[v] = stask[v]
      /\ stask'[u].pc = "create" /\ stask'[u].stage = stask[u].stage /\ stask'[u].next = stask[u].next
  BY <1>1, <1>2, GoesStep DEF S3Inv
<1>4. running < MaxConcurrent /\ running' = running + 1 /\ running \in 0..MaxConcurrent /\ MaxConcurrent \in Nat
  BY S3Assumption DEF AssembleStart, TryAcquire, S3Inv, S3Types
<1>5. S3Types'
  BY <1>1, <1>3, <1>4 DEF S3Inv, S3Types
<1>6. PartsSent' /\ NotYetTracked'
  BY <1>1, <1>2, <1>3 DEF S3Inv, PartsSent, SentBy, NotYetTracked, Untracked, Ended
<1>7. ResolvedIsClosed'
  BY <1>1 DEF S3Inv, ResolvedIsClosed
<1>8. SlotsExact'
  <2>1. u \notin Assembling /\ Assembling' = Assembling \cup {u}
    BY <1>2, <1>3 DEF Assembling, Ended, S3Inv, PartsSent, SentBy
  <2>2. Cardinality(Assembling') = Cardinality(Assembling) + 1
    BY <2>1, AssemblingFinite, FS_AddElement
  <2> QED
    BY <1>4, <2>2, SlotsAre DEF S3Inv
<1> QED
  BY <1>1, <1>5, <1>6, <1>7, <1>8, ObjectsKept DEF S3Inv

\* PromoteToFinal ends at once or begins the second multipart upload.
LEMMA PromoteStartInv ==
    ASSUME S3Inv, NEW u \in Uploads, PromoteStart(u)
    PROVE  S3Inv'
<1>1. UNCHANGED <<chunkObj, object, mpu, journal, running, told, faults>> /\ stask[u].pc = "promote"
  BY DEF PromoteStart, At
<1>2. /\ stask' \in [Uploads -> TaskType]
      /\ \A v \in Uploads \ {u} : stask'[v] = stask[v]
      /\ \/ stask'[u].pc \in Ended /\ stask'[u].stage = "assemble"
         \/ stask'[u].pc = "create" /\ stask'[u].stage = "promote" /\ stask'[u].next = 1
  <2>1. CASE Goes(u, "ok")
    BY <2>1, GoesStep DEF S3Inv, TaskPc, Ended
  <2>2. CASE Goes(u, "failed")
    BY <2>2, GoesStep DEF S3Inv, TaskPc, Ended
  <2>3. CASE stask' = [stask EXCEPT ![u] = [IdleTask EXCEPT !.pc = "create", !.stage = "promote"]]
    <3>1. IdleTask \in TaskType /\ IdleTask.next = 1
      BY S3Assumption DEF IdleTask, TaskType, TaskPc, Stages
    <3> QED
      BY <2>3, <3>1 DEF S3Inv, S3Types, TaskType, TaskPc, Stages
  <2> QED
    BY <2>1, <2>2, <2>3 DEF PromoteStart
<1>3. S3Types'
  BY <1>1, <1>2 DEF S3Inv, S3Types
<1>4. PartsSent' /\ NotYetTracked'
  <2>1. journal[u]["promote"] = "none"
    BY <1>1 DEF S3Inv, PartsSent, SentBy, NotYetTracked, Untracked, Ended
  <2>2. PartsSent'
    BY <1>1, <1>2 DEF S3Inv, PartsSent, SentBy, Ended
  <2>3. NotYetTracked'
    BY <1>1, <1>2, <2>1 DEF S3Inv, NotYetTracked, Untracked, Ended
  <2> QED
    BY <2>2, <2>3
<1>5. ResolvedIsClosed'
  BY <1>1 DEF S3Inv, ResolvedIsClosed
<1>6. SlotsExact'
  <2>1. u \notin Assembling /\ u \notin Assembling'
    BY <1>1, <1>2 DEF Assembling
  <2> QED
    BY <1>1, <1>2, <2>1, SlotsKept
<1> QED
  BY <1>1, <1>3, <1>4, <1>5, <1>6, ObjectsKept DEF S3Inv

\* CreateMultipartUpload, whose answer may be lost: the upload it opens has no
\* journal row yet.
LEMMA CreateInv ==
    ASSUME S3Inv, NEW u \in Uploads, CreateMultipartUpload(u)
    PROVE  S3Inv'
<1> DEFINE s == stask[u].stage
           opened == [st |-> "open", parts |-> {}]
<1>1. UNCHANGED <<chunkObj, object, journal, told>> /\ stask[u].pc = "create"
  BY DEF CreateMultipartUpload, At
<1>2. s \in Stages /\ journal[u][s] = "none" /\ stask[u].next = 1 /\ opened \in MpuType
      /\ (s = "assemble" => journal[u]["promote"] = "none")
  BY <1>1, Shapes DEF S3Inv, PartsSent, SentBy, NotYetTracked, Untracked, MpuType, Ended
<1>3. mpu' = [mpu EXCEPT ![u][s] = opened] \/ mpu' = mpu
  BY DEF CreateMultipartUpload, SetMpu, Stage
<1>4. /\ mpu' \in [Uploads -> [Stages -> MpuType]]
      /\ \A v \in Uploads : v # u => mpu'[v] = mpu[v]
      /\ \A t \in Stages : t # s => mpu'[u][t] = mpu[u][t]
  <2>1. mpu \in [Uploads -> [Stages -> MpuType]]
    BY DEF S3Inv, S3Types
  <2>2. CASE mpu' = [mpu EXCEPT ![u][s] = opened]
    BY <1>2, <2>1, <2>2, SetAt
  <2>3. CASE mpu' = mpu
    BY <2>1, <2>3
  <2> QED
    BY <1>3, <2>2, <2>3
<1>6. ResolvedIsClosed'
  BY <1>1, <1>2, <1>4 DEF S3Inv, ResolvedIsClosed
<1>7. CASE SetMpu(u, opened) /\ Goes(u, "track") /\ UNCHANGED <<running, faults>>
  <2>1. mpu'[u][s] = opened
    BY <1>2, <1>7, SetAt DEF SetMpu, Stage, S3Inv, S3Types
  <2>2. /\ stask' \in [Uploads -> TaskType]
        /\ \A v \in Uploads \ {u} : stask'[v] = stask[v]
        /\ stask'[u].pc = "track" /\ stask'[u].stage = s /\ stask'[u].next = 1
    BY <1>2, <1>7, GoesStep DEF S3Inv, TaskPc, Ended
  <2>3. PartsSent'
    <3>1. SentBy(stask'[u], mpu'[u][stask'[u].stage])
      BY <2>1, <2>2 DEF SentBy, Ended
    <3> QED
      BY <1>4, <2>2, <3>1 DEF S3Inv, PartsSent
  <2>4. NotYetTracked'
    BY <1>1, <1>2, <2>2 DEF S3Inv, NotYetTracked, Untracked, Ended
  <2>5. SlotsExact'
    <3>1. u \in Assembling <=> u \in Assembling'
      BY <1>1, <2>2 DEF Assembling, Ended
    <3> QED
      BY <1>7, <2>2, <3>1, SlotsKept
  <2>6. S3Types'
    BY <1>1, <1>4, <1>7, <2>2 DEF S3Inv, S3Types
  <2> QED
    BY <1>1, <1>6, <2>3, <2>4, <2>5, <2>6, ObjectsKept DEF S3Inv
<1>8. CASE Fault /\ Goes(u, "failed") /\ SlotFreed(u, FALSE)
  <2>1. /\ stask' \in [Uploads -> TaskType]
        /\ \A v \in Uploads \ {u} : stask'[v] = stask[v]
        /\ stask'[u].pc = "failed" /\ stask'[u].stage = "assemble"
    BY <1>8, GoesStep DEF S3Inv, TaskPc, Ended
  <2>2. PartsSent'
    <3>1. SentBy(stask'[u], mpu'[u][stask'[u].stage])
      BY <2>1 DEF SentBy
    <3> QED
      BY <1>4, <2>1, <3>1 DEF S3Inv, PartsSent
  <2>3. NotYetTracked'
    BY <1>1, <2>1 DEF S3Inv, NotYetTracked, Untracked, Ended
  <2>4. SlotsExact' /\ running' \in 0..MaxConcurrent
    BY <1>1, <1>8, <2>1, SlotGivenBack DEF Ended
  <2>5. S3Types'
    BY <1>1, <1>4, <1>8, <2>1, <2>4 DEF S3Inv, S3Types, Fault
  <2> QED
    BY <1>1, <1>6, <2>2, <2>3, <2>4, <2>5, ObjectsKept DEF S3Inv
<1> QED
  BY <1>7, <1>8 DEF CreateMultipartUpload

\* Track inserts the journal row, and may lose the answer.
LEMMA TrackInv ==
    ASSUME S3Inv, NEW u \in Uploads, Track(u)
    PROVE  S3Inv'
<1> DEFINE s == stask[u].stage
<1>1. UNCHANGED <<chunkObj, object, mpu, running, told>> /\ stask[u].pc = "track"
  BY DEF Track, At
<1>2. s \in Stages /\ stask[u].next = 1 /\ mpu[u][s].parts = {} /\ Parts \in Nat \ {0}
      /\ (s = "assemble" => journal[u]["promote"] = "none")
  BY <1>1, Shapes DEF S3Inv, PartsSent, SentBy, NotYetTracked, Untracked, Ended
<1>3. journal' = [journal EXCEPT ![u][s] = "leased"] \/ journal' = journal
  BY DEF Track, SetJournal, Stage
<1>4. /\ journal' \in [Uploads -> [Stages -> JournalType]]
      /\ \A v \in Uploads : v # u => journal'[v] = journal[v]
      /\ \A t \in Stages : t # s => journal'[u][t] = journal[u][t]
      /\ journal'[u][s] = "succeeded" => journal[u][s] = "succeeded"
  <2>1. "leased" \in JournalType /\ journal \in [Uploads -> [Stages -> JournalType]]
    BY DEF JournalType, S3Inv, S3Types
  <2>2. CASE journal' = [journal EXCEPT ![u][s] = "leased"]
    BY <1>2, <2>1, <2>2, SetAt
  <2>3. CASE journal' = journal
    BY <2>1, <2>3
  <2> QED
    BY <1>3, <2>2, <2>3
<1>5. /\ stask' \in [Uploads -> TaskType]
      /\ \A v \in Uploads \ {u} : stask'[v] = stask[v]
      /\ stask'[u].pc \in {"part", "abort"} /\ stask'[u].stage = s /\ stask'[u].next = stask[u].next
      /\ faults' \in Nat
  <2>1. CASE stask' = [stask EXCEPT ![u].pc = "part", ![u].tracked = TRUE] /\ UNCHANGED faults
    BY <2>1 DEF S3Inv, S3Types, TaskType, TaskPc
  <2>2. CASE Fault /\ Goes(u, "abort")
    BY <2>2, GoesStep DEF S3Inv, S3Types, TaskPc, Ended, Fault
  <2> QED
    BY <2>1, <2>2 DEF Track
<1>6. PartsSent'
  <2>1. 1..(stask'[u].next - 1) = {}
    BY <1>2, <1>5
  <2>2. SentBy(stask'[u], mpu'[u][stask'[u].stage])
    BY <1>1, <1>2, <1>5, <2>1 DEF SentBy, Ended
  <2> QED
    BY <1>1, <1>5, <2>2 DEF S3Inv, PartsSent
<1>7. NotYetTracked'
  <2>1. Untracked(stask'[u], journal'[u])
    BY <1>2, <1>4, <1>5 DEF Untracked, Ended, Stages
  <2> QED
    BY <1>4, <1>5, <2>1 DEF S3Inv, NotYetTracked
<1>8. ResolvedIsClosed'
  BY <1>1, <1>4 DEF S3Inv, ResolvedIsClosed
<1>9. SlotsExact'
  <2>1. u \in Assembling <=> u \in Assembling'
    BY <1>1, <1>5 DEF Assembling, Ended
  <2> QED
    BY <1>1, <1>5, <2>1, SlotsKept
<1>10. S3Types'
  BY <1>1, <1>4, <1>5 DEF S3Inv, S3Types
<1> QED
  BY <1>1, <1>6, <1>7, <1>8, <1>9, <1>10, ObjectsKept DEF S3Inv

\* The two renewals of the journal lease, and the look at the source, only
\* choose where the coroutine goes.
LEMMA RenewInv ==
    ASSUME S3Inv, NEW u \in Uploads, Renew(u) \/ LastRenew(u)
    PROVE  S3Inv'
<1>1. UNCHANGED <<chunkObj, object, mpu, journal, running, told, faults>>
  BY DEF Renew, LastRenew
<1>2. /\ stask' \in [Uploads -> TaskType]
      /\ \A v \in Uploads \ {u} : stask'[v] = stask[v]
      /\ \/ stask[u].pc = "part" /\ stask'[u].pc \in {"upload", "abort"}
         \/ stask[u].pc = "last" /\ stask'[u].pc \in {"complete", "abort"}
      /\ stask'[u].stage = stask[u].stage /\ stask'[u].next = stask[u].next
  <2>1. CASE Renew(u)
    <3>1. PICK pc \in {"upload", "abort"} : Goes(u, pc)
      BY <2>1 DEF Renew
    <3> QED
      BY <2>1, <3>1, GoesStep DEF S3Inv, TaskPc, Ended, Renew, At
  <2>2. CASE LastRenew(u)
    <3>1. PICK pc \in {"complete", "abort"} : Goes(u, pc)
      BY <2>2 DEF LastRenew
    <3> QED
      BY <2>2, <3>1, GoesStep DEF S3Inv, TaskPc, Ended, LastRenew, At
  <2> QED
    BY <2>1, <2>2
<1>3. PartsSent' /\ NotYetTracked'
  BY <1>1, <1>2 DEF S3Inv, PartsSent, SentBy, NotYetTracked, Untracked, Ended
<1>4. ResolvedIsClosed'
  BY <1>1 DEF S3Inv, ResolvedIsClosed
<1>5. SlotsExact'
  <2>1. u \in Assembling <=> u \in Assembling'
    BY <1>1, <1>2 DEF Assembling, Ended
  <2> QED
    BY <1>1, <1>2, <2>1, SlotsKept
<1>6. S3Types'
  BY <1>1, <1>2 DEF S3Inv, S3Types
<1> QED
  BY <1>1, <1>3, <1>4, <1>5, <1>6, ObjectsKept DEF S3Inv

\* A coroutine that gives up, or goes on to verify, with nothing else changed.
LEMMA TurnsAway ==
    ASSUME S3Inv, NEW u \in Uploads, NEW pc \in {"verify", "abort"}, Goes(u, pc),
           stask[u].pc \notin {"write", "promote"} \cup Ended,
           UNCHANGED <<chunkObj, object, mpu, journal, running, told>>, faults' \in Nat
    PROVE  S3Inv'
<1>1. /\ stask' \in [Uploads -> TaskType]
      /\ \A v \in Uploads \ {u} : stask'[v] = stask[v]
      /\ stask'[u].pc = pc /\ stask'[u].stage = stask[u].stage
  BY GoesStep DEF S3Inv, TaskPc, Ended
<1>2. SentBy(stask'[u], mpu'[u][stask'[u].stage])
  BY <1>1 DEF SentBy, Ended
<1>3. Untracked(stask'[u], journal'[u])
  BY <1>1 DEF Untracked, Ended, S3Inv, NotYetTracked
<1>4. PartsSent' /\ NotYetTracked'
  BY <1>1, <1>2, <1>3 DEF S3Inv, PartsSent, NotYetTracked
<1>5. ResolvedIsClosed'
  BY DEF S3Inv, ResolvedIsClosed
<1>6. SlotsExact'
  <2>1. u \in Assembling <=> u \in Assembling'
    BY <1>1 DEF Assembling, Ended
  <2> QED
    BY <1>1, <2>1, SlotsKept
<1>7. S3Types'
  BY <1>1 DEF S3Inv, S3Types
<1> QED
  BY <1>4, <1>5, <1>6, <1>7, ObjectsKept DEF S3Inv

\* UploadPart adds the next part while the upload is open, and otherwise gives
\* up: a part never enters an upload that recovery has aborted.
LEMMA UploadPartInv ==
    ASSUME S3Inv, NEW u \in Uploads, UploadPart(u)
    PROVE  S3Inv'
<1> DEFINE s == stask[u].stage
           n == stask[u].next
           sent == [mpu[u][s] EXCEPT !.parts = @ \cup {n}]
<1>1. UNCHANGED <<chunkObj, object, journal, running, told>> /\ stask[u].pc = "upload"
  BY DEF UploadPart, At
<1>2. s \in Stages /\ n \in 1..(Parts + 1) /\ n <= Parts /\ Parts \in Nat \ {0} /\ mpu[u][s] \in MpuType
  BY <1>1, Shapes DEF S3Inv, PartsSent, SentBy
<1>3. CASE Goes(u, "abort") /\ UNCHANGED mpu /\ faults' \in Nat
  BY <1>1, <1>3, TurnsAway DEF Ended
<1>4. CASE /\ mpu[u][s].st = "open" /\ mpu' = [mpu EXCEPT ![u][s] = sent] /\ UNCHANGED faults
           /\ stask' = [stask EXCEPT ![u].next = @ + 1,
                                     ![u].pc = IF stask[u].next >= LastPart THEN "last" ELSE "part"]
  <2>1. /\ stask' \in [Uploads -> TaskType]
        /\ \A v \in Uploads \ {u} : stask'[v] = stask[v]
        /\ stask'[u].pc = IF n >= Parts THEN "last" ELSE "part"
        /\ stask'[u].stage = s /\ stask'[u].next = n + 1
    <3>1. stask \in [Uploads -> TaskType] /\ n + 1 \in 1..(Parts + 1)
      BY <1>2 DEF S3Inv, S3Types
    <3>2. PICK pc \in TaskPc : pc = IF n >= Parts THEN "last" ELSE "part"
      BY DEF TaskPc
    <3>3. stask' = [stask EXCEPT ![u].next = n + 1, ![u].pc = pc]
      BY <1>4, <3>2 DEF LastPart
    <3> HIDE DEF n
    <3> QED
      BY <3>1, <3>2, <3>3 DEF TaskType
  <2>2. sent \in MpuType /\ sent.st = "open" /\ sent.parts = mpu[u][s].parts \cup {n}
    BY <1>2, <1>4 DEF MpuType, AllParts
  <2>3. mpu[u][s].parts = 1..(n - 1)
    BY <1>1, <1>4 DEF S3Inv, PartsSent, SentBy
  <2>4. sent.parts = 1..((n + 1) - 1)
    BY <1>2, <2>2, <2>3
  <2> HIDE DEF sent
  <2>5. /\ mpu' \in [Uploads -> [Stages -> MpuType]] /\ mpu'[u][s] = sent
        /\ \A v \in Uploads : v # u => mpu'[v] = mpu[v]
        /\ \A t \in Stages : t # s => mpu'[u][t] = mpu[u][t]
    BY <1>2, <1>4, <2>2, SetAt DEF S3Inv, S3Types
  <2>6. PartsSent'
    <3>1. n >= Parts => 1..((n + 1) - 1) = AllParts
      BY <1>2 DEF AllParts
    <3>2. n < Parts => n + 1 <= Parts
      BY <1>2
    <3>3. SentBy(stask'[u], mpu'[u][stask'[u].stage])
      BY <1>2, <2>1, <2>2, <2>4, <2>5, <3>1, <3>2 DEF SentBy, Ended
    <3> QED
      BY <2>1, <2>5, <3>3 DEF S3Inv, PartsSent
  <2>7. NotYetTracked'
    BY <1>1, <2>1 DEF S3Inv, NotYetTracked, Untracked, Ended
  <2>8. ResolvedIsClosed'
    BY <1>1, <1>4, <2>5 DEF S3Inv, ResolvedIsClosed
  <2>9. SlotsExact'
    <3>1. u \in Assembling <=> u \in Assembling'
      BY <1>1, <2>1 DEF Assembling, Ended
    <3> QED
      BY <1>1, <2>1, <3>1, SlotsKept
  <2>10. S3Types'
    BY <1>1, <1>4, <2>1, <2>5 DEF S3Inv, S3Types
  <2> QED
    BY <1>1, <2>6, <2>7, <2>8, <2>9, <2>10, ObjectsKept DEF S3Inv
<1>5. faults' = faults \/ Fault => faults' \in Nat
  BY DEF S3Inv, S3Types, Fault
<1> QED
  BY <1>3, <1>4, <1>5 DEF UploadPart, SetMpu, Stage

\* CompleteMultipartUpload makes a whole object or none; the final object is
\* made only where none is, so that one session is told it created it.
LEMMA CompleteInv ==
    ASSUME S3Inv, NEW u \in Uploads, CompleteMultipartUpload(u)
    PROVE  S3Inv'
<1> DEFINE s == stask[u].stage
           k == KeyOf(u, s)
           m == mpu[u][s]
           done == [st |-> "completed", parts |-> {}]
<1>1. UNCHANGED <<chunkObj, journal, running>> /\ stask[u].pc = "complete"
  BY DEF CompleteMultipartUpload, At
<1>2. s \in Stages /\ m \in MpuType /\ k \in Keys /\ AllParts # {} /\ u # Final /\ Final \in Keys
  BY Shapes DEF S3Inv
<1>3. faults' = faults \/ Fault => faults' \in Nat
  BY DEF S3Inv, S3Types, Fault
<1>4. \/ \E pc \in {"verify", "abort"} : Goes(u, pc) /\ UNCHANGED <<object, mpu, told>> /\ faults' \in Nat
      \/ /\ m.st = "open" /\ (s = "promote" => object[k] = NoObject)
         /\ object' = [object EXCEPT ![k] = m.parts]
         /\ mpu' = [mpu EXCEPT ![u][s] = done]
         /\ told' = IF s = "promote" THEN told \cup {u} ELSE told
         /\ faults' \in Nat
         /\ \/ stask' = [stask EXCEPT ![u].pc = "resolve", ![u].created = TRUE]
            \/ Goes(u, "abort")
  BY <1>3 DEF CompleteMultipartUpload, Stage, SetMpu, OnlyIfAbsent
<1>5. ASSUME NEW pc \in {"verify", "abort"}, Goes(u, pc), UNCHANGED <<object, mpu, told>>, faults' \in Nat
      PROVE  S3Inv'
  BY <1>1, <1>5, TurnsAway DEF Ended
<1>6. ASSUME m.st = "open", s = "promote" => object[k] = NoObject,
             object' = [object EXCEPT ![k] = m.parts], mpu' = [mpu EXCEPT ![u][s] = done],
             told' = IF s = "promote" THEN told \cup {u} ELSE told, faults' \in Nat,
             \/ stask' = [stask EXCEPT ![u].pc = "resolve", ![u].created = TRUE]
             \/ Goes(u, "abort")
      PROVE  S3Inv'
  <2>1. m.parts = AllParts
    BY <1>1, <1>6 DEF S3Inv, PartsSent, SentBy
  <2>2. done \in MpuType /\ done.st = "completed"
    BY DEF MpuType
  <2> HIDE DEF done
  <2>3. /\ mpu' \in [Uploads -> [Stages -> MpuType]] /\ mpu'[u][s] = done
        /\ \A v \in Uploads : v # u => mpu'[v] = mpu[v]
        /\ \A t \in Stages : t # s => mpu'[u][t] = mpu[u][t]
    BY <1>2, <1>6, <2>2, SetAt DEF S3Inv, S3Types
  <2>4. /\ stask' \in [Uploads -> TaskType]
        /\ \A v \in Uploads \ {u} : stask'[v] = stask[v]
        /\ stask'[u].pc \in {"resolve", "abort"} /\ stask'[u].stage = s
    <3>1. CASE stask' = [stask EXCEPT ![u].pc = "resolve", ![u].created = TRUE]
      BY <3>1 DEF S3Inv, S3Types, TaskType, TaskPc
    <3>2. CASE Goes(u, "abort")
      BY <3>2, GoesStep DEF S3Inv, TaskPc, Ended
    <3> QED
      BY <1>6, <3>1, <3>2
  <2>5. /\ object' \in [Keys -> SUBSET AllParts] /\ object'[k] = AllParts
        /\ \A l \in Keys : l # k => object'[l] = object[l]
    BY <1>2, <1>6, <2>1 DEF S3Inv, S3Types
  <2>6. PartsSent'
    <3>1. SentBy(stask'[u], mpu'[u][stask'[u].stage])
      BY <2>2, <2>3, <2>4 DEF SentBy, Ended
    <3> QED
      BY <2>3, <2>4, <3>1 DEF S3Inv, PartsSent
  <2>7. NotYetTracked'
    BY <1>1, <2>4 DEF S3Inv, NotYetTracked, Untracked, Ended
  <2>8. ResolvedIsClosed'
    BY <1>1, <2>2, <2>3 DEF S3Inv, ResolvedIsClosed
  <2>9. SlotsExact'
    <3>1. u \in Assembling <=> u \in Assembling'
      BY <1>1, <2>4 DEF Assembling, Ended
    <3> QED
      BY <1>1, <2>4, <3>1, SlotsKept
  <2>10. ObjectsWhole'
    BY <2>5 DEF S3Inv, ObjectsWhole
  <2>11. ToldIsThere' /\ CreatedOnce' /\ told' \in SUBSET Uploads
    <3>1. CASE s = "promote"
      <4>1. k = Final /\ told = {}
        BY <1>6, <3>1 DEF KeyOf, S3Inv, ToldIsThere
      <4>2. told' = {u}
        BY <1>6, <3>1, <4>1
      <4>3. Cardinality(told') <= 1
        BY <4>2, FS_Singleton
      <4> QED
        BY <1>2, <2>5, <4>1, <4>2, <4>3 DEF ToldIsThere, CreatedOnce, NoObject
    <3>2. CASE s # "promote"
      <4>1. k # Final /\ told' = told
        BY <1>2, <1>6, <3>2 DEF KeyOf, Stages
      <4> QED
        BY <1>2, <2>5, <4>1 DEF S3Inv, S3Types, ToldIsThere, CreatedOnce
    <3> QED
      BY <3>1, <3>2
  <2>12. S3Types'
    BY <1>1, <1>6, <2>3, <2>4, <2>5, <2>11 DEF S3Inv, S3Types
  <2> QED
    BY <2>6, <2>7, <2>8, <2>9, <2>10, <2>11, <2>12 DEF S3Inv
<1> QED
  BY <1>4, <1>5, <1>6

\* Writing the journal row of the stage a session has tracked.
LEMMA RowWritten ==
    ASSUME S3Inv, NEW u \in Uploads, NEW s \in Stages, NEW j \in JournalType, SetJournal(u, s, j)
    PROVE  /\ journal' \in [Uploads -> [Stages -> JournalType]] /\ journal'[u][s] = j
           /\ \A v \in Uploads : v # u => journal'[v] = journal[v]
           /\ \A t \in Stages : t # s => journal'[u][t] = journal[u][t]
BY SetAt DEF SetJournal, S3Inv, S3Types

\* Resolve closes the row or leaves it, and its failure leaves it.
LEMMA ResolvedRow ==
    ASSUME S3Inv, NEW u \in Uploads, Resolved(u) \/ UNCHANGED journal
    PROVE  /\ journal' \in [Uploads -> [Stages -> JournalType]]
           /\ \A v \in Uploads : v # u => journal'[v] = journal[v]
           /\ \A t \in Stages : t # stask[u].stage => journal'[u][t] = journal[u][t]
<1>1. CASE Resolved(u)
  <2>1. stask[u].stage \in Stages /\ "succeeded" \in JournalType
        /\ journal[u][stask[u].stage] \in JournalType
    BY Shapes DEF S3Inv, JournalType
  <2>2. PICK j \in JournalType : SetJournal(u, stask[u].stage, j)
    BY <1>1, <2>1 DEF Resolved, Stage
  <2> QED
    BY <2>1, <2>2, RowWritten
<1>2. CASE UNCHANGED journal
  BY <1>2 DEF S3Inv, S3Types
<1> QED
  BY <1>1, <1>2

\* The guard's Release resolves the row of an upload that was completed.
LEMMA ReleaseInv ==
    ASSUME S3Inv, NEW u \in Uploads, Release(u)
    PROVE  S3Inv'
<1> DEFINE s == stask[u].stage
<1>1. UNCHANGED <<chunkObj, object, mpu, running, told>> /\ stask[u].pc = "resolve" /\ Goes(u, "verify")
      /\ (Resolved(u) \/ UNCHANGED journal) /\ faults' \in Nat
  BY DEF Release, At, Fault, S3Inv, S3Types
<1>2. s \in Stages /\ mpu[u][s].st # "open"
  BY <1>1, Shapes DEF S3Inv, PartsSent, SentBy
<1>3. /\ stask' \in [Uploads -> TaskType]
      /\ \A v \in Uploads \ {u} : stask'[v] = stask[v]
      /\ stask'[u].pc = "verify" /\ stask'[u].stage = s
  BY <1>1, GoesStep DEF S3Inv, TaskPc, Ended
<1>4. /\ journal' \in [Uploads -> [Stages -> JournalType]]
      /\ \A v \in Uploads : v # u => journal'[v] = journal[v]
      /\ \A t \in Stages : t # s => journal'[u][t] = journal[u][t]
  BY <1>1, ResolvedRow
<1>5. PartsSent'
  <2>1. SentBy(stask'[u], mpu'[u][stask'[u].stage])
    BY <1>3 DEF SentBy, Ended
  <2> QED
    BY <1>1, <1>3, <2>1 DEF S3Inv, PartsSent
<1>6. NotYetTracked'
  <2>1. Untracked(stask'[u], journal'[u])
    BY <1>1, <1>3, <1>4 DEF Untracked, Ended, S3Inv, NotYetTracked, Stages
  <2> QED
    BY <1>3, <1>4, <2>1 DEF S3Inv, NotYetTracked
<1>7. ResolvedIsClosed'
  BY <1>1, <1>2, <1>4 DEF S3Inv, ResolvedIsClosed
<1>8. SlotsExact'
  <2>1. u \in Assembling <=> u \in Assembling'
    BY <1>1, <1>3 DEF Assembling, Ended
  <2> QED
    BY <1>1, <1>3, <2>1, SlotsKept
<1>9. S3Types'
  BY <1>1, <1>3, <1>4 DEF S3Inv, S3Types
<1> QED
  BY <1>1, <1>5, <1>6, <1>7, <1>8, <1>9, ObjectsKept DEF S3Inv

\* A coroutine that ends its stage, having closed or left its upload and the
\* row of it, keeps the invariant as long as the two agree.
LEMMA StageEnds ==
    ASSUME S3Inv, NEW u \in Uploads, NEW ok \in BOOLEAN, NEW ok2,
           stask[u].pc \notin {"write", "promote"} \cup Ended,
           Goes(u, After(u, ok)), SlotFreed(u, ok2),
           UNCHANGED <<chunkObj, object, told>>, faults' \in Nat,
           mpu' \in [Uploads -> [Stages -> MpuType]],
           \A v \in Uploads : v # u => mpu'[v] = mpu[v],
           journal' \in [Uploads -> [Stages -> JournalType]],
           \A v \in Uploads : v # u => journal'[v] = journal[v],
           \A t \in Stages : t # stask[u].stage => journal'[u][t] = journal[u][t],
           \A t \in Stages : journal'[u][t] = "succeeded" => mpu'[u][t].st # "open"
    PROVE  S3Inv'
<1> DEFINE pc == After(u, ok)
<1>1. pc \in {"failed", "promote", "ok"} /\ (pc = "promote" => stask[u].stage = "assemble")
  BY DEF After, Stage
<1> HIDE DEF pc
<1>2. /\ stask' \in [Uploads -> TaskType]
      /\ \A v \in Uploads \ {u} : stask'[v] = stask[v]
      /\ stask'[u].pc = pc /\ stask'[u].stage = "assemble"
  <2>1. pc \in TaskPc /\ pc \in Ended \cup {"promote"} /\ Goes(u, pc)
    BY <1>1 DEF TaskPc, Ended, pc
  <2> QED
    BY <2>1, GoesStep DEF S3Inv
<1>3. PartsSent'
  <2>1. SentBy(stask'[u], mpu'[u][stask'[u].stage])
    BY <1>1, <1>2 DEF SentBy, Ended
  <2> QED
    BY <1>2, <2>1 DEF S3Inv, PartsSent
<1>4. NotYetTracked'
  <2>1. Untracked(stask'[u], journal'[u])
    BY <1>1, <1>2 DEF Untracked, Ended, S3Inv, NotYetTracked, Stages
  <2> QED
    BY <1>2, <2>1 DEF S3Inv, NotYetTracked
<1>5. ResolvedIsClosed'
  BY DEF S3Inv, ResolvedIsClosed
<1>6. SlotsExact' /\ running' \in 0..MaxConcurrent
  BY <1>1, <1>2, SlotGivenBack DEF Ended
<1>7. S3Types'
  BY <1>2, <1>6 DEF S3Inv, S3Types
<1> QED
  BY <1>3, <1>4, <1>5, <1>6, <1>7, ObjectsKept DEF S3Inv

\* HeadObject of the new object ends the stage, or leaves that to the guard.
LEMMA VerifyInv ==
    ASSUME S3Inv, NEW u \in Uploads, Verify(u)
    PROVE  S3Inv'
<1>1. UNCHANGED <<chunkObj, object, mpu, journal, told, faults>> /\ stask[u].pc = "verify"
  BY DEF Verify, At
<1>2. PICK ok \in BOOLEAN : ok = (object[KeyOf(u, Stage(u))] # NoObject)
  OBVIOUS
<1>3. faults' \in Nat
  BY <1>1 DEF S3Inv, S3Types
<1>4. CASE Goes(u, After(u, ok)) /\ SlotFreed(u, ok)
  BY <1>1, <1>3, <1>4, StageEnds DEF S3Inv, S3Types, Ended, ResolvedIsClosed
<1>5. CASE stask' = [stask EXCEPT ![u].pc = "abort", ![u].ok = ok] /\ UNCHANGED running
  <2>1. /\ stask' \in [Uploads -> TaskType]
        /\ \A v \in Uploads \ {u} : stask'[v] = stask[v]
        /\ stask'[u].pc = "abort" /\ stask'[u].stage = stask[u].stage
    BY <1>5 DEF S3Inv, S3Types, TaskType, TaskPc
  <2>2. SentBy(stask'[u], mpu'[u][stask'[u].stage])
    BY <2>1 DEF SentBy, Ended
  <2>3. Untracked(stask'[u], journal'[u])
    BY <1>1, <2>1 DEF Untracked, Ended, S3Inv, NotYetTracked
  <2>4. PartsSent' /\ NotYetTracked'
    BY <1>1, <2>1, <2>2, <2>3 DEF S3Inv, PartsSent, NotYetTracked
  <2>5. ResolvedIsClosed'
    BY <1>1 DEF S3Inv, ResolvedIsClosed
  <2>6. SlotsExact'
    <3>1. u \in Assembling <=> u \in Assembling'
      BY <1>1, <2>1 DEF Assembling, Ended
    <3> QED
      BY <1>5, <2>1, <3>1, SlotsKept
  <2>7. S3Types'
    BY <1>1, <1>5, <2>1 DEF S3Inv, S3Types
  <2> QED
    BY <1>1, <2>4, <2>5, <2>6, <2>7, ObjectsKept DEF S3Inv
<1> QED
  BY <1>2, <1>4, <1>5 DEF Verify

\* An aborted upload is not open.
LEMMA AbortedClosed ==
    ASSUME NEW m \in MpuType
    PROVE  Aborted(m) \in MpuType /\ Aborted(m).st # "open"
<1>1. CASE m.st = "open"
  BY <1>1 DEF Aborted, MpuType
<1>2. CASE m.st # "open"
  BY <1>2 DEF Aborted
<1> QED
  BY <1>1, <1>2

\* Aborting the upload of one stage.
LEMMA UploadAborted ==
    ASSUME S3Inv, NEW u \in Uploads, NEW s \in Stages, mpu' = [mpu EXCEPT ![u][s] = Aborted(mpu[u][s])]
    PROVE  /\ mpu' \in [Uploads -> [Stages -> MpuType]] /\ mpu'[u][s] = Aborted(mpu[u][s])
           /\ mpu'[u][s].st # "open"
           /\ \A v \in Uploads : v # u => mpu'[v] = mpu[v]
           /\ \A t \in Stages : t # s => mpu'[u][t] = mpu[u][t]
<1>1. mpu \in [Uploads -> [Stages -> MpuType]] /\ mpu[u][s] \in MpuType
  BY Shapes DEF S3Inv, S3Types
<1>2. PICK m \in MpuType : m = Aborted(mpu[u][s]) /\ m.st # "open"
  BY <1>1, AbortedClosed
<1>3. mpu' = [mpu EXCEPT ![u][s] = m]
  BY <1>2
<1> QED
  BY <1>1, <1>2, <1>3, SetAt

\* ~MultipartAbortGuard closes the row only when it has aborted the upload.
LEMMA GuardAbortInv ==
    ASSUME S3Inv, NEW u \in Uploads, GuardAbort(u)
    PROVE  S3Inv'
<1> DEFINE s == stask[u].stage
           ok == stask[u].ok
<1>1. UNCHANGED <<chunkObj, object, told>> /\ stask[u].pc = "abort"
      /\ SlotFreed(u, FALSE) /\ Goes(u, After(u, ok))
  BY DEF GuardAbort, At
<1>2. s \in Stages /\ ok \in BOOLEAN
  BY Shapes DEF S3Inv, S3Types, TaskType
<1>3. faults' \in Nat
  BY DEF GuardAbort, Fault, S3Inv, S3Types
<1>4. \/ mpu' = [mpu EXCEPT ![u][s] = Aborted(mpu[u][s])] /\ (Resolved(u) \/ UNCHANGED journal)
      \/ UNCHANGED mpu /\ (SetJournal(u, s, "retry") \/ UNCHANGED journal)
  BY DEF GuardAbort, SetMpu, Stage
<1>5. /\ mpu' \in [Uploads -> [Stages -> MpuType]]
      /\ \A v \in Uploads : v # u => mpu'[v] = mpu[v]
      /\ journal' \in [Uploads -> [Stages -> JournalType]]
      /\ \A v \in Uploads : v # u => journal'[v] = journal[v]
      /\ \A t \in Stages : t # s => journal'[u][t] = journal[u][t]
      /\ \A t \in Stages : journal'[u][t] = "succeeded" => mpu'[u][t].st # "open"
  <2>1. CASE mpu' = [mpu EXCEPT ![u][s] = Aborted(mpu[u][s])] /\ (Resolved(u) \/ UNCHANGED journal)
    <3>1. /\ mpu' \in [Uploads -> [Stages -> MpuType]] /\ mpu'[u][s].st # "open"
          /\ \A v \in Uploads : v # u => mpu'[v] = mpu[v]
          /\ \A t \in Stages : t # s => mpu'[u][t] = mpu[u][t]
      BY <1>2, <2>1, UploadAborted
    <3>2. /\ journal' \in [Uploads -> [Stages -> JournalType]]
          /\ \A v \in Uploads : v # u => journal'[v] = journal[v]
          /\ \A t \in Stages : t # s => journal'[u][t] = journal[u][t]
      BY <2>1, ResolvedRow
    <3> QED
      BY <3>1, <3>2 DEF S3Inv, ResolvedIsClosed
  <2>2. CASE UNCHANGED mpu /\ SetJournal(u, s, "retry")
    <3>1. "retry" \in JournalType
      BY DEF JournalType
    <3>2. /\ journal' \in [Uploads -> [Stages -> JournalType]] /\ journal'[u][s] = "retry"
          /\ \A v \in Uploads : v # u => journal'[v] = journal[v]
          /\ \A t \in Stages : t # s => journal'[u][t] = journal[u][t]
      BY <1>2, <2>2, <3>1, RowWritten
    <3> QED
      BY <2>2, <3>2 DEF S3Inv, S3Types, ResolvedIsClosed
  <2>3. CASE UNCHANGED mpu /\ UNCHANGED journal
    BY <2>3 DEF S3Inv, S3Types, ResolvedIsClosed
  <2> QED
    BY <1>4, <2>1, <2>2, <2>3
<1> HIDE DEF ok
<1> QED
  BY <1>1, <1>2, <1>3, <1>5, StageEnds DEF Ended

\* The worker claims a row whose lease has lapsed or that waits for a retry,
\* aborts the upload under its writer, if there still is one, and closes the
\* row; what it has aborted takes no more parts and makes no object.
LEMMA RecoveryInv ==
    ASSUME S3Inv, NEW u \in Uploads, NEW s \in Stages, RecoveryStep(u, s)
    PROVE  S3Inv'
<1>1. UNCHANGED <<chunkObj, object, stask, running, told>>
  BY DEF RecoveryStep, LeaseLapses, WorkerClaim, WorkerAbort
<1>2. faults' \in Nat
  BY DEF RecoveryStep, LeaseLapses, WorkerClaim, WorkerAbort, Fault, S3Inv, S3Types
<1>3. journal[u][s] # "none" /\ \E j \in JournalType : SetJournal(u, s, j) /\ j # "none"
  BY DEF RecoveryStep, LeaseLapses, WorkerClaim, WorkerAbort, JournalType
<1>4. PICK j \in JournalType : SetJournal(u, s, j) /\ j # "none"
  BY <1>3
<1>5. /\ journal' \in [Uploads -> [Stages -> JournalType]] /\ journal'[u][s] = j
      /\ \A v \in Uploads : v # u => journal'[v] = journal[v]
      /\ \A t \in Stages : t # s => journal'[u][t] = journal[u][t]
  BY <1>4, RowWritten
<1>6. \/ mpu' = mpu /\ journal'[u][s] # "succeeded"
      \/ mpu' = [mpu EXCEPT ![u][s] = Aborted(mpu[u][s])]
  BY <1>5 DEF RecoveryStep, LeaseLapses, WorkerClaim, WorkerAbort, SetJournal, S3Inv, S3Types
<1>7. /\ mpu' \in [Uploads -> [Stages -> MpuType]]
      /\ \A v \in Uploads : v # u => mpu'[v] = mpu[v]
      /\ \A t \in Stages : t # s => mpu'[u][t] = mpu[u][t]
      /\ mpu'[u][s] = mpu[u][s] \/ mpu'[u][s].st # "open"
      /\ journal'[u][s] = "succeeded" => mpu'[u][s].st # "open"
  <2>1. CASE mpu' = mpu /\ journal'[u][s] # "succeeded"
    BY <2>1 DEF S3Inv, S3Types
  <2>2. CASE mpu' = [mpu EXCEPT ![u][s] = Aborted(mpu[u][s])]
    BY <2>2, UploadAborted
  <2> QED
    BY <1>6, <2>1, <2>2
<1>8. PartsSent'
  <2>1. SentBy(stask[u], mpu[u][stask[u].stage]) /\ stask[u].stage \in Stages
        /\ Untracked(stask[u], journal[u])
    BY Shapes DEF S3Inv, PartsSent, NotYetTracked
  <2>2. stask[u].pc = "track" => stask[u].stage # s
    BY <1>3, <2>1 DEF Untracked
  <2>3. SentBy(stask'[u], mpu'[u][stask'[u].stage])
    BY <1>1, <1>7, <2>1, <2>2 DEF SentBy
  <2> QED
    BY <1>1, <1>7, <2>3 DEF S3Inv, PartsSent
<1>9. NotYetTracked'
  <2>1. Untracked(stask[u], journal[u]) /\ stask[u].stage \in Stages /\ "promote" \in Stages
    BY Shapes DEF S3Inv, NotYetTracked, Stages
  <2>2. Untracked(stask'[u], journal'[u])
    BY <1>1, <1>3, <1>5, <2>1 DEF Untracked
  <2> QED
    BY <1>1, <1>5, <2>2 DEF S3Inv, NotYetTracked
<1>10. ResolvedIsClosed'
  BY <1>5, <1>7 DEF S3Inv, ResolvedIsClosed
<1>11. SlotsExact'
  BY <1>1 DEF S3Inv, SlotsExact, Stage
<1>12. S3Types'
  BY <1>1, <1>2, <1>5, <1>7 DEF S3Inv, S3Types
<1> QED
  BY <1>1, <1>8, <1>9, <1>10, <1>11, <1>12, ObjectsKept DEF S3Inv

\* CleanupSession and DeleteBlob remove whole objects, the latter the final one.
LEMMA ObjectsRemovedInv ==
    ASSUME S3Inv, DeleteBlob \/ \E u \in Uploads : CleanupSession(u)
    PROVE  S3Inv'
<1>1. UNCHANGED <<mpu, journal, stask, running>> /\ faults' \in Nat
  BY DEF DeleteBlob, CleanupSession, Fault, S3Inv, S3Types
<1>2. PartsSent' /\ NotYetTracked' /\ ResolvedIsClosed' /\ SlotsExact'
  BY <1>1 DEF S3Inv, PartsSent, NotYetTracked, ResolvedIsClosed, SlotsExact, Stage
<1>3. CASE DeleteBlob
  <2>1. object' = [object EXCEPT ![Final] = NoObject] /\ told' = {} /\ UNCHANGED chunkObj
    BY <1>3 DEF DeleteBlob
  <2>2. S3Types' /\ ObjectsWhole'
    BY <1>1, <2>1 DEF S3Inv, S3Types, ObjectsWhole, NoObject
  <2>3. ToldIsThere'
    BY <2>1 DEF ToldIsThere
  <2>4. CreatedOnce'
    BY <2>1, FS_EmptySet DEF CreatedOnce
  <2> QED
    BY <1>2, <2>2, <2>3, <2>4 DEF S3Inv
<1>4. ASSUME NEW u \in Uploads, CleanupSession(u)
      PROVE  S3Inv'
  <2>1. /\ chunkObj' = [chunkObj EXCEPT ![u] = {}] /\ told' = told
        /\ object' = object \/ object' = [object EXCEPT ![u] = NoObject]
    BY <1>4 DEF CleanupSession
  <2>2. u # Final /\ u \in Keys /\ Final \in Keys
    BY Shapes DEF S3Inv
  <2>3. S3Types' /\ ObjectsWhole'
    BY <1>1, <2>1, <2>2 DEF S3Inv, S3Types, ObjectsWhole, NoObject
  <2>4. ToldIsThere' /\ CreatedOnce'
    BY <2>1, <2>2 DEF S3Inv, S3Types, ToldIsThere, CreatedOnce
  <2> QED
    BY <1>2, <2>3, <2>4 DEF S3Inv
<1> QED
  BY <1>3, <1>4

\* A crash ends every coroutine and gives back every slot.
LEMMA S3CrashInv ==
    ASSUME S3Inv, S3Crash
    PROVE  S3Inv'
<1>1. UNCHANGED <<chunkObj, object, mpu, journal, told>> /\ running' = 0 /\ faults' \in Nat
  BY DEF S3Crash, Fault, S3Inv, S3Types
<1>2. \A u \in Uploads : \/ stask'[u] = stask[u] /\ stask[u].pc \in {"write", "ok", "failed"}
                         \/ stask'[u] = [IdleTask EXCEPT !.pc = "dead"]
  BY DEF S3Crash
<1>3. [IdleTask EXCEPT !.pc = "dead"] \in TaskType /\ [IdleTask EXCEPT !.pc = "dead"].pc = "dead"
      /\ [IdleTask EXCEPT !.pc = "dead"].stage = "assemble"
  <2>1. IdleTask \in TaskType /\ IdleTask.stage = "assemble"
    BY S3Assumption DEF IdleTask, TaskType, TaskPc, Stages
  <2> QED
    BY <2>1 DEF TaskType, TaskPc
<1>4. stask' \in [Uploads -> TaskType]
  BY <1>3 DEF S3Crash, S3Inv, S3Types
<1>5. \A u \in Uploads : \/ stask'[u] = stask[u] /\ stask[u].pc \in {"write", "ok", "failed"}
                         \/ stask'[u].pc = "dead" /\ stask'[u].stage = "assemble"
  BY <1>2, <1>3
<1>6. PartsSent' /\ NotYetTracked'
  <2> SUFFICES ASSUME NEW u \in Uploads
               PROVE  SentBy(stask'[u], mpu'[u][stask'[u].stage]) /\ Untracked(stask'[u], journal'[u])
    BY DEF PartsSent, NotYetTracked
  <2>1. CASE stask'[u] = stask[u]
    BY <1>1, <2>1 DEF S3Inv, PartsSent, NotYetTracked
  <2>2. CASE stask'[u].pc = "dead" /\ stask'[u].stage = "assemble"
    BY <2>2 DEF SentBy, Untracked, Ended
  <2> QED
    BY <1>5, <2>1, <2>2
<1>7. ResolvedIsClosed'
  BY <1>1 DEF S3Inv, ResolvedIsClosed
<1>8. SlotsExact'
  <2>1. Assembling' = {}
    BY <1>5 DEF Assembling, Ended
  <2> QED
    BY <1>1, <2>1, SlotsAre, FS_EmptySet
<1>9. S3Types'
  BY <1>1, <1>4, S3Assumption DEF S3Inv, S3Types
<1> QED
  BY <1>1, <1>6, <1>7, <1>8, <1>9, ObjectsKept DEF S3Inv

-----------------------------------------------------------------------------
\* The objects readers see are whole, a closed journal row hides no open
\* upload, the limiter counts the assemblies that run, and at most one session
\* is told that it created the blob, for any number of sessions and parts and
\* through every failure, lost answer and crash (AssembleChunks,
\* PromoteToFinal, MultipartAbortGuard, ExecuteMultipartAbort).
THEOREM S3ConsistentHolds == S3Spec => []S3Consistent
<1>1. S3Init => S3Inv
  BY S3InitInv
<1>2. S3Inv /\ [S3Next]_s3Vars => S3Inv'
  <2> SUFFICES ASSUME S3Inv, [S3Next]_s3Vars PROVE S3Inv'
    OBVIOUS
  <2>1. CASE UNCHANGED s3Vars
    BY <2>1 DEF S3Inv, S3Types, PartsSent, NotYetTracked, ToldIsThere, ObjectsWhole, ResolvedIsClosed,
                SlotsExact, CreatedOnce, Stage, s3Vars
  <2>2. CASE S3Next
    <3>1. ASSUME NEW u \in Uploads, SessionStep(u)
          PROVE  S3Inv'
      BY <3>1, AssembleStartInv, PromoteStartInv, CreateInv, TrackInv, RenewInv, UploadPartInv,
         CompleteInv, ReleaseInv, VerifyInv, GuardAbortInv DEF SessionStep
    <3> QED
      BY <2>2, <3>1, WriteChunkInv, RecoveryInv, ObjectsRemovedInv, S3CrashInv DEF S3Next
  <2> QED
    BY <2>1, <2>2
<1>3. S3Inv => S3Consistent
  <2> SUFFICES ASSUME S3Inv PROVE S3TypeOK
    BY DEF S3Inv, S3Consistent
  <2>1. \A u \in Uploads, s \in Stages : mpu[u][s] \in MpuType /\ journal[u][s] \in JournalType
    BY Shapes DEF S3Inv
  <2>2. \A u \in Uploads, s \in Stages :
           /\ mpu[u][s].st \in {"none", "open", "completed", "aborted"} /\ mpu[u][s].parts \subseteq AllParts
           /\ journal[u][s] \in {"none", "leased", "lapsed", "retry", "claimed", "succeeded"}
    BY <2>1 DEF MpuType, JournalType
  <2>3. \A u \in Uploads : stask[u].next \in 1..(Parts + 1)
    BY Shapes DEF S3Inv
  <2> QED
    BY <2>2, <2>3 DEF S3Inv, S3Types, S3TypeOK
<1> QED
  BY <1>1, <1>2, <1>3, PTL DEF S3Spec

-----------------------------------------------------------------------------
(* Scans: the inductive invariant.                                         *)

RcRows == [stored : {0, 1}, actual : {0, 1}, blob : {"whole", "gone", "short", "deleted"}]
AttemptStates ==
    {"idle", "read", "references", "apply", "row", "collect", "exists", "size", "verdict",
     "totals", "done"}
PastRead == AttemptStates \ {"idle", "read"}

Sights == RcObjects \cup RcRows \cup {"whole", "gone", "short", "deleted", "used", "reserved"}
AttemptRows ==
    [scan : Nat, cursor : RcCursors, at : AttemptStates, items : SUBSET RcCursors,
     last : RcCursors, more : BOOLEAN, saw : SUBSET Sights]

RcType ==
    /\ rcScope \in ScanScopes
    /\ rcObject \in [RcObjects -> {"absent", "orphan", "referenced"}]
    /\ rcRow \in [RcContents -> RcRows]
    /\ rcDrift \in SUBSET {"used", "reserved"}
    /\ rcFinding \in [AllFindings -> [open : BOOLEAN, seen : Nat]]
    /\ rcClock \in Nat
    /\ rcScan \in [RcScans -> [start : Nat, alone : BOOLEAN, fresh : BOOLEAN,
                               steady : SUBSET ({rcScope} \X Nat)]]
    /\ rcPage \in [RcScans \X RcCursors -> {"none", "pending", "succeeded"} \cup ScanWorkers]
    /\ rcWork \in [ScanWorkers -> AttemptRows]
    /\ rcGc \in [RcContents -> {"none", "pending", "succeeded"}]

\* The row of a deleted blob is gone; nothing was seen in the future.
RowsAndTimes ==
    /\ \A c \in RcContents : rcRow[c].blob = "deleted" => rcRow[c] = NoRow
    /\ \A f \in AllFindings : rcFinding[f].seen <= rcClock

\* Scans begin in order, each with its first page; later ones have nothing.
ScansInOrder ==
    \A s \in RcScans :
        IF s <= rcClock THEN rcScan[s].start = s /\ rcPage[<<s, 0>>] # "none"
        ELSE ~rcScan[s].alone /\ \A c \in RcCursors : rcPage[<<s, c>>] = "none"

\* What an attempt has in hand at each of its steps.
AttemptShape(w) ==
  LET a == rcWork[w] IN
    /\ a.at # "idle" => a.scan \in RcScans /\ a.scan <= rcClock /\ rcPage[<<a.scan, a.cursor>>] # "none"
    /\ a.at \in PastRead /\ a.more => a.last > a.cursor
    /\ a.at \in {"references", "apply"} => rcScope = "objects" /\ a.items \subseteq RcObjects \cap {a.last}
    /\ a.at = "references" => a.items = {a.last} \ {0}
    /\ a.at \in {"row", "collect", "exists", "size", "verdict"} =>
          rcScope = "contents" /\ a.last \in RcContents /\ a.items = {a.last} /\ a.more
    /\ a.at = "totals" => rcScope = "users"
    /\ rcScope = "users" => ~a.more /\ a.last = 0

\* What there is to list.
Present ==
    CASE rcScope = "objects" -> {o \in RcObjects : rcObject[o] # "absent"}
      [] rcScope = "contents" -> {c \in RcContents : rcRow[c] # NoRow}
      [] rcScope = "users" -> {}

Unmoved(s, r) == <<rcScope, r>> \in rcScan[s].steady

OpenFinding(type, r) == rcFinding[<<type, r>>].open

\* An orphan has been reported since scan t began.
OrphanShown(t, o) ==
    rcObject[o] = "orphan" => OpenFinding("orphan", o) /\ rcFinding[<<"orphan", o>>].seen >= t

RowJudged(c) ==
    rcRow[c] # NoRow => /\ OpenFinding("refs", c) <=> rcRow[c].stored # rcRow[c].actual
                        /\ OpenFinding("zero", c) <=> rcRow[c].stored = 0 /\ rcRow[c].actual = 0
MissingJudged(c) ==
    rcRow[c] # NoRow /\ rcRow[c].actual > 0 => (OpenFinding("missing", c) <=> rcRow[c].blob = "gone")
SizeJudged(c) ==
    rcRow[c] # NoRow /\ rcRow[c].actual > 0 => (OpenFinding("size", c) <=> rcRow[c].blob = "short")
CollectorWaits(c) == rcRow[c] # NoRow /\ OpenFinding("zero", c) => rcGc[c] = "pending"

UserJudged == \A k \in {"used", "reserved"} : OpenFinding(k, 0) <=> k \in rcDrift

\* A resource is dealt with by scan t.
Covered(t, r) ==
    /\ rcScope = "objects" /\ r \in RcObjects => OrphanShown(t, r)
    /\ rcScope = "contents" /\ r \in RcContents =>
          RowJudged(r) /\ MissingJudged(r) /\ SizeJudged(r) /\ CollectorWaits(r)

Complete(s) ==
    /\ \A r \in Nat : Unmoved(s, r) => Covered(s, r)
    /\ rcScope = "objects" =>
          \A o \in RcObjects : Unmoved(s, o) /\ rcObject[o] # "orphan" => ~OpenFinding("orphan", o)
    /\ rcScope = "users" /\ Unmoved(s, 0) => UserJudged

\* The pages behind a cursor are dealt with.
PagesCovered(s) ==
    \A t \in RcScans, c \in RcCursors :
        s <= t /\ rcPage[<<t, c>>] # "none" => \A r \in 1..c : Unmoved(s, r) => Covered(t, r)

\* A page that is over was the last, or has a next one.
PagesLinked(s) ==
    \A c \in RcCursors :
        rcPage[<<s, c>>] = "succeeded" => Complete(s) \/ \E d \in RcCursors : d > c /\ rcPage[<<s, d>>] # "none"

\* What was not an orphan since the scan began has not been reported since.
NothingInvented(s) ==
    rcScope = "objects" =>
        \A o \in RcObjects :
            Unmoved(s, o) /\ rcObject[o] # "orphan" /\ OpenFinding("orphan", o)
                => rcFinding[<<"orphan", o>>].seen < s

\* An attempt that began since knows what has not moved as it is, and has
\* written what it knew.
AttemptTrue(s, w) ==
  LET a == rcWork[w] IN
    /\ a.at \in PastRead => \A r \in Present :
          Unmoved(s, r) /\ r > a.cursor /\ r # a.last => a.more /\ r > a.last
    /\ a.at = "references" => \A o \in a.items : Unmoved(s, o) => rcObject[o] # "absent"
    /\ a.at = "apply" => \A o \in a.items :
          Unmoved(s, o) => rcObject[o] # "absent" /\ (o \in a.saw <=> rcObject[o] = "referenced")
    /\ a.at = "apply" /\ s <= a.scan /\ a.last \notin a.items /\ a.last \in RcObjects /\ Unmoved(s, a.last) =>
          OrphanShown(a.scan, a.last)
    /\ a.at = "row" /\ Unmoved(s, a.last) => a.saw = {rcRow[a.last]}
    /\ a.at \in {"collect", "exists", "size", "verdict"} /\ Unmoved(s, a.last) => RowJudged(a.last)
    /\ a.at \in {"exists", "size", "verdict"} /\ Unmoved(s, a.last) => rcRow[a.last].actual # 0
    /\ a.at = "collect" /\ Unmoved(s, a.last) => rcRow[a.last].actual = 0
    /\ a.at \in {"size", "verdict"} /\ Unmoved(s, a.last) => a.saw = {rcRow[a.last].blob}
    /\ a.at = "verdict" /\ Unmoved(s, a.last) => MissingJudged(a.last)
    /\ a.at = "totals" /\ Unmoved(s, 0) => a.saw = rcDrift
    /\ a.at = "done" /\ s <= a.scan /\ a.last # 0 /\ Unmoved(s, a.last) => Covered(a.scan, a.last)
    /\ a.at = "done" /\ ~a.more /\ a.scan = s => Complete(s)

ScanTrue(s) ==
    /\ PagesCovered(s) /\ PagesLinked(s) /\ NothingInvented(s)
    /\ \A w \in ScanWorkers : AttemptTrue(s, w)

RcInv ==
    /\ RcType /\ RowsAndTimes /\ ScansInOrder
    /\ \A w \in ScanWorkers : AttemptShape(w)
    /\ \A s \in RcScans : rcScan[s].alone => ScanTrue(s)

-----------------------------------------------------------------------------
(* Constants, findings, pages.                                             *)

LEMMA CursorFacts ==
    /\ LastObject \in Nat \ {0} /\ LastContent \in Nat \ {0} /\ MaxScans \in Nat \ {0}
    /\ Max({LastObject, LastContent}) \in Nat
    /\ 0 \in RcCursors /\ RcObjects \subseteq RcCursors /\ RcContents \subseteq RcCursors
    /\ RcCursors \subseteq Nat /\ 0 \notin RcObjects /\ 0 \notin RcContents
<1>1. LastObject \in Nat \ {0} /\ LastContent \in Nat \ {0} /\ MaxScans \in Nat \ {0}
  BY ReconciliationAssumption
<1>2. \E x \in {LastObject, LastContent} : \A y \in {LastObject, LastContent} : x >= y
  BY <1>1
<1>3. /\ Max({LastObject, LastContent}) \in {LastObject, LastContent}
      /\ \A y \in {LastObject, LastContent} : Max({LastObject, LastContent}) >= y
  BY <1>2 DEF Max
<1> QED
  BY <1>1, <1>3 DEF RcCursors, RcObjects, RcContents

LEMMA FindingKeys ==
    /\ \A o \in RcObjects : <<"orphan", o>> \in AllFindings
    /\ \A c \in RcContents, k \in {"refs", "zero", "missing", "size"} : <<k, c>> \in AllFindings
    /\ \A k \in {"used", "reserved"} : <<k, 0>> \in AllFindings
<1>1. /\ FindingTypes("contents") = {"refs", "zero", "missing", "size"} \X RcContents
      /\ FindingTypes("users") = {"used", "reserved"} \X {0}
      /\ FindingTypes("objects") = {"orphan"} \X RcObjects
  BY DEF FindingTypes
<1>2. AllFindings = FindingTypes("contents") \cup FindingTypes("users") \cup FindingTypes("objects")
  BY DEF AllFindings, ScanScopes
<1> QED
  BY <1>1, <1>2

FindingRows == [open : BOOLEAN, seen : Nat]

\* A verdict touches one finding and leaves it as it says.
LEMMA VerdictFacts ==
    ASSUME NEW find \in [AllFindings -> FindingRows], NEW f \in AllFindings, NEW holds \in BOOLEAN,
           rcClock \in Nat, \A g \in AllFindings : find[g].seen <= rcClock
    PROVE  /\ Verdict(find, f, holds) \in [AllFindings -> FindingRows]
           /\ \A g \in AllFindings : Verdict(find, f, holds)[g].seen <= rcClock
           /\ Verdict(find, f, holds)[f].open <=> holds
           /\ holds => Verdict(find, f, holds)[f].seen = rcClock
           /\ \A g \in AllFindings : g # f => Verdict(find, f, holds)[g] = find[g]
<1>1. CASE holds
  BY <1>1 DEF Verdict, RecordFinding, FindingRows
<1>2. CASE ~holds
  <2>1. CASE find[f].open
    <3> DEFINE v == [open |-> FALSE, seen |-> rcClock]
    <3>1. Verdict(find, f, holds) = [find EXCEPT ![f] = v]
      BY <1>2, <2>1 DEF Verdict, ResolveFinding
    <3>2. v \in FindingRows /\ v.open = FALSE /\ v.seen = rcClock
      BY <1>2 DEF FindingRows
    <3> HIDE DEF v
    <3>3. \A g \in AllFindings : [find EXCEPT ![f] = v][g] = IF g = f THEN v ELSE find[g]
      OBVIOUS
    <3>4. [find EXCEPT ![f] = v] \in [AllFindings -> FindingRows]
      BY <3>2
    <3>5. \A g \in AllFindings : [find EXCEPT ![f] = v][g].seen <= rcClock
      BY <3>2, <3>3
    <3>6. ~[find EXCEPT ![f] = v][f].open
      BY <3>2, <3>3
    <3> QED
      BY <3>1, <3>3, <3>4, <3>5, <3>6, <1>2
  <2>2. CASE ~find[f].open
    BY <1>2, <2>2 DEF Verdict, ResolveFinding, FindingRows
  <2> QED
    BY <2>1, <2>2
<1> QED
  BY <1>1, <1>2

\* The first resource behind the cursor, if there is one.
LEMMA PageAfterFacts ==
    ASSUME NEW ids \in SUBSET RcCursors, NEW k \in RcCursors
    PROVE  \/ PageAfter(ids, k) = {} /\ \A i \in ids : i <= k
           \/ \E i \in ids : /\ PageAfter(ids, k) = {i} /\ i > k /\ Max(PageAfter(ids, k)) = i
                             /\ \A j \in ids : j > k => i <= j
<1> DEFINE later == {i \in ids : i > k}
<1>1. RcCursors \subseteq Nat
  BY CursorFacts
<1>2. CASE later = {}
  BY <1>1, <1>2 DEF PageAfter
<1>3. CASE later # {}
  <2>1. later \in SUBSET Nat
    BY <1>1
  <2>2. \E x \in later : \A y \in later : x <= y
    BY <2>1, <1>3, LeastNumber
  <2>3. Min(later) \in later /\ \A y \in later : Min(later) <= y
    BY <2>2 DEF Min
  <2>4. PageAfter(ids, k) = {Min(later)}
    BY <1>3 DEF PageAfter
  <2>5. \A i \in Nat : Max({i}) = i
    BY DEF Max
  <2>6. Min(later) \in ids /\ Min(later) > k /\ Min(later) \in Nat
    BY <2>1, <2>3
  <2> QED
    BY <2>3, <2>4, <2>5, <2>6
<1> QED
  BY <1>2, <1>3


-----------------------------------------------------------------------------
(* What a step leaves of what is known.                                    *)

\* About what has not moved since scan s began the world stays as it is, and
\* what was written of it stays written.
Keeps(s) ==
    /\ rcScan'[s].steady \subseteq rcScan[s].steady
    /\ rcScope = "objects" =>
          \A o \in RcObjects : Unmoved(s, o)' =>
              /\ rcObject'[o] = rcObject[o]
              /\ rcObject[o] = "orphan" => \A t \in RcScans :
                    /\ s <= t /\ t <= rcClock
                    /\ OpenFinding("orphan", o) /\ rcFinding[<<"orphan", o>>].seen >= t
                    => OpenFinding("orphan", o)' /\ rcFinding'[<<"orphan", o>>].seen >= t
              /\ rcObject[o] # "orphan" /\ OpenFinding("orphan", o)' =>
                    /\ OpenFinding("orphan", o)
                    /\ rcFinding'[<<"orphan", o>>].seen = rcFinding[<<"orphan", o>>].seen
    /\ rcScope = "contents" =>
          \A c \in RcContents : Unmoved(s, c)' =>
              /\ rcRow'[c] = rcRow[c]
              /\ RowJudged(c) => RowJudged(c)'
              /\ MissingJudged(c) => MissingJudged(c)'
              /\ SizeJudged(c) => SizeJudged(c)'
              /\ RowJudged(c) /\ CollectorWaits(c) => CollectorWaits(c)'
    /\ rcScope = "users" /\ Unmoved(s, 0)' => rcDrift' = rcDrift /\ (UserJudged => UserJudged')

LEMMA StillUnmoved ==
    ASSUME NEW s \in RcScans, NEW r, rcScope' = rcScope, Keeps(s), Unmoved(s, r)'
    PROVE  Unmoved(s, r)
BY DEF Keeps, Unmoved

LEMMA KeepsShown ==
    ASSUME NEW s \in RcScans, NEW t \in RcScans, s <= t, t <= rcClock, rcScope' = rcScope,
           Keeps(s), rcScope = "objects", NEW o \in RcObjects, Unmoved(s, o)', OrphanShown(t, o)
    PROVE  OrphanShown(t, o)'
BY DEF Keeps, OrphanShown

LEMMA KeepsCovered ==
    ASSUME NEW s \in RcScans, NEW t \in RcScans, s <= t, t <= rcClock, rcScope' = rcScope,
           Keeps(s), NEW r, Unmoved(s, r)', Covered(t, r)
    PROVE  Covered(t, r)'
<1>1. CASE rcScope = "objects" /\ r \in RcObjects
  BY <1>1, KeepsShown DEF Covered
<1>2. CASE rcScope = "contents" /\ r \in RcContents
  BY <1>2 DEF Covered, Keeps
<1>3. CASE ~(rcScope = "objects" /\ r \in RcObjects) /\ ~(rcScope = "contents" /\ r \in RcContents)
  BY <1>3 DEF Covered
<1> QED
  BY <1>1, <1>2, <1>3

LEMMA KeepsComplete ==
    ASSUME NEW s \in RcScans, s <= rcClock, rcScope' = rcScope, Keeps(s), Complete(s)
    PROVE  Complete(s)'
<1>1. s <= s
  BY DEF RcScans
<1>2. \A r \in Nat : Unmoved(s, r)' => Covered(s, r)'
  BY <1>1, KeepsCovered, StillUnmoved DEF Complete
<1>3. rcScope = "objects" =>
        \A o \in RcObjects : Unmoved(s, o)' /\ rcObject'[o] # "orphan" => ~OpenFinding("orphan", o)'
  BY StillUnmoved DEF Complete, Keeps
<1>4. rcScope = "users" /\ Unmoved(s, 0)' => UserJudged'
  BY StillUnmoved DEF Complete, Keeps
<1> QED
  BY <1>2, <1>3, <1>4 DEF Complete

LEMMA KeepsInvented ==
    ASSUME NEW s \in RcScans, rcScope' = rcScope, Keeps(s), NothingInvented(s)
    PROVE  NothingInvented(s)'
BY StillUnmoved DEF NothingInvented, Keeps

LEMMA KeepsPages ==
    ASSUME NEW s \in RcScans, s <= rcClock, rcScope' = rcScope, Keeps(s), ScansInOrder,
           PagesCovered(s), PagesLinked(s),
           \A t \in RcScans, c \in RcCursors : rcPage'[<<t, c>>] # "none" <=> rcPage[<<t, c>>] # "none",
           \A c \in RcCursors : rcPage'[<<s, c>>] = "succeeded" => rcPage[<<s, c>>] = "succeeded"
    PROVE  PagesCovered(s)' /\ PagesLinked(s)'
<1>1. ASSUME NEW t \in RcScans, NEW c \in RcCursors, s <= t, rcPage'[<<t, c>>] # "none",
             NEW r \in 1..c, Unmoved(s, r)'
      PROVE  Covered(t, r)'
  <2>1. rcPage[<<t, c>>] # "none" /\ t <= rcClock
    BY <1>1 DEF ScansInOrder
  <2>2. Covered(t, r)
    BY <1>1, <2>1, StillUnmoved DEF PagesCovered
  <2> QED
    BY <1>1, <2>1, <2>2, KeepsCovered
<1>2. PagesLinked(s)'
  BY KeepsComplete DEF PagesLinked
<1> QED
  BY <1>1, <1>2 DEF PagesCovered

LEMMA KeepsPresent ==
    ASSUME NEW s \in RcScans, RcType, rcScope' = rcScope, Keeps(s), NEW r \in Present', Unmoved(s, r)'
    PROVE  r \in Present
<1>1. rcScope \in {"contents", "users", "objects"}
  BY DEF RcType, ScanScopes
<1>2. CASE rcScope = "objects"
  <2>1. r \in RcObjects /\ rcObject'[r] # "absent"
    BY <1>2 DEF Present
  <2>2. rcObject'[r] = rcObject[r]
    BY <1>2, <2>1 DEF Keeps
  <2> QED
    BY <1>2, <2>1, <2>2 DEF Present
<1>3. CASE rcScope = "contents"
  <2>1. r \in RcContents /\ rcRow'[r] # NoRow
    BY <1>3 DEF Present
  <2>2. rcRow'[r] = rcRow[r]
    BY <1>3, <2>1 DEF Keeps
  <2> QED
    BY <1>3, <2>1, <2>2 DEF Present
<1>4. CASE rcScope = "users"
  BY <1>4 DEF Present
<1> QED
  BY <1>1, <1>2, <1>3, <1>4

\* An attempt that does not move knows what it knew.
LEMMA KeepsAttempt ==
    ASSUME NEW s \in RcScans, s <= rcClock, RcType, rcScope' = rcScope, Keeps(s),
           NEW w \in ScanWorkers, rcWork'[w] = rcWork[w], AttemptShape(w), AttemptTrue(s, w)
    PROVE  AttemptTrue(s, w)'
<1> DEFINE a == rcWork[w]
<1>a. /\ a.last \in RcCursors /\ a.cursor \in RcCursors /\ a.scan \in Nat
  BY DEF RcType, AttemptRows
<1>0. \A r : Unmoved(s, r)' => Unmoved(s, r)
  BY StillUnmoved
<1>1. a.at \in PastRead => \A r \in Present' :
          Unmoved(s, r)' /\ r > a.cursor /\ r # a.last => a.more /\ r > a.last
  BY <1>0, KeepsPresent DEF AttemptTrue
<1>2. rcScope = "objects" => \A o \in RcObjects : Unmoved(s, o)' => rcObject'[o] = rcObject[o]
  BY DEF Keeps
<1>3. rcScope = "contents" => \A c \in RcContents : Unmoved(s, c)' =>
              /\ rcRow'[c] = rcRow[c]
              /\ RowJudged(c) => RowJudged(c)'
              /\ MissingJudged(c) => MissingJudged(c)'
  BY DEF Keeps
<1>4. a.at = "references" => \A o \in a.items : Unmoved(s, o)' => rcObject'[o] # "absent"
  BY <1>0, <1>2 DEF AttemptTrue, AttemptShape
<1>5. a.at = "apply" => \A o \in a.items :
          Unmoved(s, o)' => rcObject'[o] # "absent" /\ (o \in a.saw <=> rcObject'[o] = "referenced")
  BY <1>0, <1>2 DEF AttemptTrue, AttemptShape
<1>6. ASSUME a.at = "apply", s <= a.scan, a.last \notin a.items, a.last \in RcObjects, Unmoved(s, a.last)'
      PROVE  OrphanShown(a.scan, a.last)'
  <2>1. rcScope = "objects" /\ a.scan \in RcScans /\ a.scan <= rcClock
    BY <1>6 DEF AttemptShape
  <2>2. OrphanShown(a.scan, a.last)
    BY <1>6, <1>0 DEF AttemptTrue
  <2> QED
    BY <1>6, <2>1, <2>2, KeepsShown
<1>7. a.at = "row" /\ Unmoved(s, a.last)' => a.saw = {rcRow'[a.last]}
  BY <1>0, <1>3 DEF AttemptTrue, AttemptShape
<1>8. a.at \in {"collect", "exists", "size", "verdict"} /\ Unmoved(s, a.last)' => RowJudged(a.last)'
  BY <1>0, <1>3 DEF AttemptTrue, AttemptShape
<1>9. a.at \in {"exists", "size", "verdict"} /\ Unmoved(s, a.last)' => rcRow'[a.last].actual # 0
  BY <1>0, <1>3 DEF AttemptTrue, AttemptShape
<1>10. a.at = "collect" /\ Unmoved(s, a.last)' => rcRow'[a.last].actual = 0
  BY <1>0, <1>3 DEF AttemptTrue, AttemptShape
<1>11. a.at \in {"size", "verdict"} /\ Unmoved(s, a.last)' => a.saw = {rcRow'[a.last].blob}
  BY <1>0, <1>3 DEF AttemptTrue, AttemptShape
<1>12. a.at = "verdict" /\ Unmoved(s, a.last)' => MissingJudged(a.last)'
  BY <1>0, <1>3 DEF AttemptTrue, AttemptShape
<1>13. a.at = "totals" /\ Unmoved(s, 0)' => a.saw = rcDrift'
  BY <1>0 DEF AttemptTrue, AttemptShape, Keeps
<1>14. ASSUME a.at = "done", s <= a.scan, a.last # 0, Unmoved(s, a.last)'
       PROVE  Covered(a.scan, a.last)'
  <2>1. a.scan \in RcScans /\ a.scan <= rcClock
    BY <1>14 DEF AttemptShape
  <2>2. Covered(a.scan, a.last)
    BY <1>14, <1>0 DEF AttemptTrue
  <2> QED
    BY <1>14, <2>1, <2>2, KeepsCovered
<1>15. a.at = "done" /\ ~a.more /\ a.scan = s => Complete(s)'
  BY KeepsComplete DEF AttemptTrue
<1> QED
  BY <1>1, <1>4, <1>5, <1>6, <1>7, <1>8, <1>9, <1>10, <1>11, <1>12, <1>13, <1>14, <1>15
  DEF AttemptTrue


-----------------------------------------------------------------------------
(* The shape of a proof for one step.                                      *)

LEMMA AloneStarted ==
    ASSUME RcInv, NEW s \in RcScans, rcScan[s].alone
    PROVE  s <= rcClock /\ rcScan[s].start = s /\ ScanTrue(s)
<1>1. s <= rcClock
  <2>1. ~(s <= rcClock) => ~rcScan[s].alone
    BY DEF RcInv, ScansInOrder
  <2> QED
    BY <2>1
<1> QED
  BY <1>1 DEF RcInv, ScansInOrder

\* One attempt goes on and the scans, pages and the clock stay.
LEMMA OneAttemptMoves ==
    ASSUME RcInv, NEW w \in ScanWorkers, UNCHANGED <<rcScope, rcClock, rcScan, rcPage>>,
           RcType', RowsAndTimes', AttemptShape(w)',
           \A v \in ScanWorkers \ {w} : rcWork'[v] = rcWork[v],
           \A s \in RcScans : rcScan[s].alone => Keeps(s) /\ AttemptTrue(s, w)'
    PROVE  RcInv'
<1>1. ScansInOrder'
  BY DEF RcInv, ScansInOrder
<1>2. \A v \in ScanWorkers : AttemptShape(v)'
  BY DEF RcInv, AttemptShape
<1>3. ASSUME NEW s \in RcScans, rcScan'[s].alone PROVE ScanTrue(s)'
  <2>1. rcScan[s].alone /\ s <= rcClock /\ ScanTrue(s) /\ Keeps(s) /\ AttemptTrue(s, w)'
    BY <1>3, AloneStarted
  <2>2. PagesCovered(s)' /\ PagesLinked(s)'
    <3>1. PagesCovered(s) /\ PagesLinked(s) /\ ScansInOrder
      BY <2>1 DEF ScanTrue, RcInv
    <3> QED
      BY <2>1, <3>1, KeepsPages
  <2>3. NothingInvented(s)'
    BY <2>1, KeepsInvented DEF ScanTrue
  <2>4. ASSUME NEW v \in ScanWorkers PROVE AttemptTrue(s, v)'
    <3>1. CASE v = w
      BY <3>1, <2>1
    <3>2. CASE v # w
      <4>1. rcWork'[v] = rcWork[v] /\ AttemptShape(v) /\ AttemptTrue(s, v) /\ RcType
        BY <3>2, <2>1 DEF RcInv, ScanTrue
      <4> QED
        BY <2>1, <4>1, KeepsAttempt
    <3> QED
      BY <3>1, <3>2
  <2> QED
    BY <2>2, <2>3, <2>4 DEF ScanTrue
<1> QED
  BY <1>1, <1>2, <1>3 DEF RcInv

LEMMA UnwrittenKeeps ==
    ASSUME UNCHANGED <<rcScope, rcObject, rcRow, rcDrift, rcFinding, rcScan, rcGc>>,
           NEW s \in RcScans
    PROVE  Keeps(s)
BY DEF Keeps, Unmoved, OpenFinding, RowJudged, MissingJudged, SizeJudged, CollectorWaits, UserJudged

\* An attempt reads.
LEMMA AttemptReads ==
    ASSUME RcInv, NEW w \in ScanWorkers, NEW b \in AttemptRows, rcWork' = [rcWork EXCEPT ![w] = b],
           UNCHANGED <<rcScope, rcObject, rcRow, rcDrift, rcFinding, rcClock, rcScan, rcPage, rcGc>>,
           AttemptShape(w)',
           \A s \in RcScans : rcScan[s].alone => AttemptTrue(s, w)'
    PROVE  RcInv'
<1>1. RcType'
  BY DEF RcInv, RcType
<1>2. RowsAndTimes'
  BY DEF RcInv, RowsAndTimes
<1>3. \A v \in ScanWorkers \ {w} : rcWork'[v] = rcWork[v]
  BY DEF RcInv, RcType
<1>4. \A s \in RcScans : Keeps(s)
  BY UnwrittenKeeps
<1> QED
  BY <1>1, <1>2, <1>3, <1>4, OneAttemptMoves

LEMMA AttemptRow ==
    ASSUME RcInv, NEW w \in ScanWorkers
    PROVE  /\ rcWork[w] \in AttemptRows
           /\ rcWork[w].scan \in Nat /\ rcWork[w].cursor \in RcCursors /\ rcWork[w].cursor \in Nat
           /\ rcWork[w].at \in AttemptStates /\ rcWork[w].items \in SUBSET RcCursors
           /\ rcWork[w].last \in RcCursors /\ rcWork[w].last \in Nat
           /\ rcWork[w].more \in BOOLEAN /\ rcWork[w].saw \in SUBSET Sights
           /\ AttemptShape(w)
<1>1. rcWork[w] \in AttemptRows /\ AttemptShape(w)
  BY DEF RcInv, RcType
<1> QED
  BY <1>1, CursorFacts DEF AttemptRows

\* What is not there needs nothing.
LEMMA AbsentCovered ==
    ASSUME RcType, NEW t, NEW r, r \notin Present
    PROVE  Covered(t, r)
<1>1. CASE rcScope = "objects"
  BY <1>1 DEF Present, Covered, OrphanShown
<1>2. CASE rcScope = "contents"
  BY <1>2 DEF Present, Covered, RowJudged, MissingJudged, SizeJudged, CollectorWaits
<1>3. CASE rcScope \notin {"objects", "contents"}
  BY <1>3 DEF Covered
<1> QED
  BY <1>1, <1>2, <1>3

\* With the pages behind the cursor and the one in hand nothing is left out.
LEMMA NothingLeftOut ==
    ASSUME RcType, NEW s \in RcScans, NEW t \in RcScans, s <= t, PagesCovered(s),
           NEW k \in RcCursors, rcPage[<<t, k>>] # "none", NEW l \in RcCursors,
           NEW R \in SUBSET Nat,
           \A r \in Present \cap R : Unmoved(s, r) /\ r > k => r = l,
           l # 0 /\ Unmoved(s, l) => Covered(t, l)
    PROVE  \A r \in R : Unmoved(s, r) => Covered(t, r)
<1> SUFFICES ASSUME NEW r \in R, Unmoved(s, r) PROVE Covered(t, r)
  OBVIOUS
<1>1. r \in Nat /\ k \in Nat /\ 0 \notin RcObjects /\ 0 \notin RcContents
  BY CursorFacts
<1>2. CASE r = 0
  BY <1>1, <1>2 DEF Covered
<1>3. CASE r \in 1..k
  BY <1>3 DEF PagesCovered
<1>4. CASE r > k /\ r # 0
  <2>1. CASE r \in Present
    BY <1>4, <2>1
  <2>2. CASE r \notin Present
    BY <2>2, AbsentCovered
  <2> QED
    BY <2>1, <2>2
<1> QED
  BY <1>1, <1>2, <1>3, <1>4


-----------------------------------------------------------------------------
(* Attempts that read.                                                     *)

LEMMA ReadInventoryKeeps ==
    ASSUME RcInv, NEW w \in ScanWorkers, ReadInventory(w), rcScope' = rcScope
    PROVE  RcInv'
<1> DEFINE a == rcWork[w]
           listed == {o \in RcObjects : rcObject[o] # "absent"}
           page == PageAfter(listed, a.cursor)
           last == IF page = {} THEN 0 ELSE Max(page)
           more == \E o \in listed, i \in page : o > i
           b == [a EXCEPT !.items = page, !.at = "references", !.last = last, !.more = more]
<1>0. /\ rcWork' = [rcWork EXCEPT ![w] = b] /\ a.at = "read" /\ rcScope = "objects"
      /\ UNCHANGED <<rcScope, rcObject, rcRow, rcDrift, rcFinding, rcClock, rcScan, rcPage, rcGc>>
  BY DEF ReadInventory, AttemptGoes, FindingsKept
<1>1. /\ a \in AttemptRows /\ a.cursor \in RcCursors /\ a.cursor \in Nat /\ AttemptShape(w)
  BY AttemptRow
<1>2. listed \in SUBSET RcCursors /\ listed \subseteq RcObjects /\ RcCursors \subseteq Nat /\ 0 \in RcCursors
      /\ 0 \notin RcObjects
  BY CursorFacts
<1>3. \/ page = {} /\ last = 0 /\ ~more /\ \A i \in listed : i <= a.cursor
      \/ /\ last \in listed /\ page = {last} /\ last > a.cursor
         /\ \A j \in listed : j > a.cursor => last <= j
         /\ more <=> \E o \in listed : o > last
  <2>1. \/ page = {} /\ \A i \in listed : i <= a.cursor
        \/ \E i \in listed : /\ page = {i} /\ i > a.cursor /\ Max(page) = i
                              /\ \A j \in listed : j > a.cursor => i <= j
    BY <1>1, <1>2, PageAfterFacts
  <2>2. CASE page = {} /\ \A i \in listed : i <= a.cursor
    BY <2>2
  <2>3. CASE \E i \in listed : /\ page = {i} /\ i > a.cursor /\ Max(page) = i
                               /\ \A j \in listed : j > a.cursor => i <= j
    <3>1. PICK i \in listed : /\ page = {i} /\ i > a.cursor /\ Max(page) = i
                              /\ \A j \in listed : j > a.cursor => i <= j
      BY <2>3
    <3>2. last = i
      BY <3>1
    <3>3. more <=> \E o \in listed : o > i
      BY <3>1
    <3> HIDE DEF last, more, page, listed
    <3> QED
      BY <3>1, <3>2, <3>3
  <2> QED
    BY <2>1, <2>2, <2>3
<1>4. Present = listed
  BY <1>0 DEF Present
<1>5. more \in BOOLEAN /\ page \in SUBSET RcCursors /\ last \in RcCursors
  BY <1>2, <1>3
<1> HIDE DEF listed, page, last, more
<1>6. b \in AttemptRows
  BY <1>1, <1>5 DEF AttemptRows, AttemptStates
<1>7. /\ rcWork'[w] = b /\ b.at = "references" /\ b.scan = a.scan /\ b.cursor = a.cursor
      /\ b.items = page /\ b.last = last /\ (b.more <=> more)
  <2>1. rcWork \in [ScanWorkers -> AttemptRows]
    BY DEF RcInv, RcType
  <2> QED
    BY <1>0, <1>1, <2>1 DEF AttemptRows
<1> HIDE DEF b
<1>8. page = {last} \ {0} /\ page \subseteq RcObjects \cap {last} /\ (more => last > a.cursor)
  BY <1>2, <1>3
<1>9. AttemptShape(w)'
  <2>1. a.scan \in RcScans /\ a.scan <= rcClock /\ rcPage[<<a.scan, a.cursor>>] # "none"
    BY <1>0, <1>1 DEF AttemptShape
  <2> QED
    BY <1>0, <1>7, <1>8, <2>1 DEF AttemptShape
<1>10. \A r \in listed : r > a.cursor /\ r # last => more /\ r > last
  <2> SUFFICES ASSUME NEW r \in listed, r > a.cursor, r # last PROVE more /\ r > last
    OBVIOUS
  <2>1. r \in Nat /\ last \in Nat /\ a.cursor \in Nat
    BY <1>1, <1>2, <1>5
  <2>2. ~(\A i \in listed : i <= a.cursor)
    BY <2>1
  <2>3. last <= r /\ (r > last => more)
    BY <2>2, <1>3
  <2> QED
    BY <2>1, <2>3
<1>11. \A o \in page : rcObject[o] # "absent"
  BY <1>3 DEF listed
<1>12. ASSUME NEW s \in RcScans PROVE AttemptTrue(s, w)'
  <2>1. Present' = listed
    BY <1>0, <1>4 DEF Present
  <2> QED
    BY <1>0, <1>7, <1>10, <1>11, <2>1 DEF AttemptTrue
<1> QED
  BY <1>0, <1>6, <1>9, <1>12, AttemptReads

LEMMA ReadReferencesKeeps ==
    ASSUME RcInv, NEW w \in ScanWorkers, ReadReferences(w), rcScope' = rcScope
    PROVE  RcInv'
<1> DEFINE a == rcWork[w]
<1>0. /\ a.at = "references"
      /\ UNCHANGED <<rcScope, rcObject, rcRow, rcDrift, rcFinding, rcClock, rcScan, rcPage, rcGc>>
  BY DEF ReadReferences, FindingsKept
<1>1. /\ a \in AttemptRows /\ AttemptShape(w)
      /\ rcScope = "objects" /\ a.items = {a.last} \ {0} /\ a.items \subseteq RcObjects \cap {a.last}
  BY <1>0, AttemptRow DEF AttemptShape
<1>2. PICK there \in {a.items, {o \in a.items : rcObject[o] # "absent"}} :
        rcWork' = [rcWork EXCEPT ![w] =
                     [a EXCEPT !.at = "apply", !.items = there,
                               !.saw = {o \in there : rcObject[o] = "referenced"}]]
  BY DEF ReadReferences, AttemptGoes
<1> DEFINE saw == {o \in there : rcObject[o] = "referenced"}
           b == [a EXCEPT !.at = "apply", !.items = there, !.saw = saw]
<1>3. /\ there \subseteq a.items /\ \A o \in a.items : o \notin there => rcObject[o] = "absent"
      /\ saw \subseteq RcObjects /\ saw \in SUBSET Sights /\ there \in SUBSET RcCursors
  BY <1>1, CursorFacts DEF Sights
<1>s. \A o \in there : o \in saw <=> rcObject[o] = "referenced"
  OBVIOUS
<1> HIDE DEF saw
<1>4. b \in AttemptRows
  BY <1>1, <1>3 DEF AttemptRows, AttemptStates
<1>5. /\ rcWork'[w] = b /\ b.at = "apply" /\ b.scan = a.scan /\ b.cursor = a.cursor
      /\ b.items = there /\ b.last = a.last /\ b.more = a.more /\ b.saw = saw
  <2>1. rcWork \in [ScanWorkers -> AttemptRows]
    BY DEF RcInv, RcType
  <2> QED
    BY <1>1, <1>2, <2>1 DEF AttemptRows, saw
<1>6. rcWork' = [rcWork EXCEPT ![w] = b]
  BY <1>2 DEF saw
<1> HIDE DEF b
<1>7. AttemptShape(w)'
  <2>1. there \subseteq RcObjects \cap {a.last}
    BY <1>1, <1>3
  <2>2. /\ a.scan \in RcScans /\ a.scan <= rcClock /\ rcPage[<<a.scan, a.cursor>>] # "none"
        /\ (a.more => a.last > a.cursor)
    BY <1>0, <1>1 DEF AttemptShape, PastRead, AttemptStates
  <2> QED
    BY <1>0, <1>1, <1>5, <2>1, <2>2 DEF AttemptShape
<1>8. ASSUME NEW s \in RcScans, rcScan[s].alone PROVE AttemptTrue(s, w)'
  <2>1. AttemptTrue(s, w)
    BY <1>8, AloneStarted DEF ScanTrue
  <2>2. Present' = Present
    BY <1>0 DEF Present
  <2>3. \A r : Unmoved(s, r)' <=> Unmoved(s, r)
    BY <1>0 DEF Unmoved
  <2>4. \A r \in Present : Unmoved(s, r) /\ r > a.cursor /\ r # a.last => a.more /\ r > a.last
    BY <2>1, <1>0 DEF AttemptTrue, PastRead, AttemptStates
  <2>5. \A o \in there : Unmoved(s, o) => rcObject[o] # "absent"
    BY <2>1, <1>0, <1>3 DEF AttemptTrue
  <2>6. a.last \notin there /\ a.last \in RcObjects => rcObject[a.last] = "absent"
    BY <1>1, <1>3, CursorFacts
  <2>7. a.last \notin there /\ a.last \in RcObjects => OrphanShown(rcWork[w].scan, rcWork[w].last)'
    BY <2>6, <1>0, <1>5 DEF OrphanShown
  <2> QED
    BY <1>0, <1>5, <1>s, <2>2, <2>3, <2>4, <2>5, <2>7 DEF AttemptTrue
<1> QED
  BY <1>0, <1>4, <1>6, <1>7, <1>8, AttemptReads


LEMMA ReadContentsKeeps ==
    ASSUME RcInv, NEW w \in ScanWorkers, ReadContents(w), rcScope' = rcScope
    PROVE  RcInv'
<1> DEFINE a == rcWork[w]
           listed == {c \in RcContents : rcRow[c] # NoRow}
           page == PageAfter(listed, a.cursor)
<1>0. /\ a.at = "read" /\ rcScope = "contents"
      /\ rcWork' = [rcWork EXCEPT ![w] =
                      [a EXCEPT !.items = page, !.more = page # {},
                                !.last = IF page = {} THEN 0 ELSE Max(page),
                                !.at = IF page = {} THEN "done" ELSE "row",
                                !.saw = {rcRow[c] : c \in page}]]
      /\ UNCHANGED <<rcScope, rcObject, rcRow, rcDrift, rcFinding, rcClock, rcScan, rcPage, rcGc>>
  BY DEF ReadContents, AttemptGoes, FindingsKept
<1>1. /\ a \in AttemptRows /\ a.cursor \in RcCursors /\ a.cursor \in Nat /\ AttemptShape(w)
  BY AttemptRow
<1>2. listed \in SUBSET RcCursors /\ listed \subseteq RcContents /\ RcCursors \subseteq Nat /\ 0 \in RcCursors
      /\ 0 \notin RcContents
  BY CursorFacts
<1>3. \/ page = {} /\ \A i \in listed : i <= a.cursor
      \/ \E i \in listed : /\ page = {i} /\ i > a.cursor /\ Max(page) = i
                           /\ \A j \in listed : j > a.cursor => i <= j
  BY <1>1, <1>2, PageAfterFacts
<1>4. Present = listed /\ Present' = listed
  BY <1>0 DEF Present
<1>5. a.scan \in RcScans /\ a.scan <= rcClock /\ rcPage[<<a.scan, a.cursor>>] # "none"
  BY <1>0, <1>1 DEF AttemptShape
<1>6. rcWork \in [ScanWorkers -> AttemptRows] /\ RcType /\ rcRow \in [RcContents -> RcRows]
  BY DEF RcInv, RcType
<1> HIDE DEF listed, page
<1>7. CASE page = {} /\ \A i \in listed : i <= a.cursor
  <2> DEFINE b == [a EXCEPT !.items = {}, !.more = FALSE, !.last = 0, !.at = "done", !.saw = {}]
  <2>1. rcWork' = [rcWork EXCEPT ![w] = b]
    BY <1>0, <1>7
  <2>2. b \in AttemptRows
    BY <1>1, <1>2 DEF AttemptRows, AttemptStates
  <2>3. /\ rcWork'[w] = b /\ b.at = "done" /\ b.scan = a.scan /\ b.cursor = a.cursor
        /\ b.items = {} /\ b.last = 0 /\ ~b.more
    BY <1>1, <1>6, <2>1 DEF AttemptRows
  <2> HIDE DEF b
  <2>4. AttemptShape(w)'
    BY <1>0, <1>5, <2>3 DEF AttemptShape
  <2>5. ASSUME NEW s \in RcScans, rcScan[s].alone PROVE AttemptTrue(s, w)'
    <3>1. ScanTrue(s) /\ s <= s
      BY <2>5, AloneStarted DEF RcScans
    <3>2. \A r \in listed : ~(r > a.cursor)
      <4> SUFFICES ASSUME NEW r \in listed PROVE ~(r > a.cursor)
        OBVIOUS
      <4>1. r \in Nat /\ a.cursor \in Nat /\ r <= a.cursor
        BY <1>1, <1>2, <1>7
      <4> QED
        BY <4>1
    <3>3. ASSUME a.scan = s PROVE Complete(s)
      <4>1. \A r \in Present \cap Nat : Unmoved(s, r) /\ r > a.cursor => r = 0
        BY <3>2, <1>4
      <4>2. rcPage[<<s, a.cursor>>] # "none"
        BY <1>5, <3>3
      <4>3. PagesCovered(s)
        BY <3>1 DEF ScanTrue
      <4>4. \A r \in Nat : Unmoved(s, r) => Covered(s, r)
        BY <1>1, <1>2, <1>6, <3>1, <4>1, <4>2, <4>3, NothingLeftOut
      <4> QED
        BY <4>4, <1>0 DEF Complete
    <3>4. a.scan = s => Complete(s)'
      BY <3>3, UnwrittenKeeps, KeepsComplete, <1>0, <1>5
    <3> QED
      BY <1>4, <2>3, <3>2, <3>4 DEF AttemptTrue
  <2> QED
    BY <1>0, <2>1, <2>2, <2>4, <2>5, AttemptReads
<1>8. CASE \E i \in listed : /\ page = {i} /\ i > a.cursor /\ Max(page) = i
                             /\ \A j \in listed : j > a.cursor => i <= j
  <2>0. PICK i \in listed : /\ page = {i} /\ i > a.cursor /\ Max(page) = i
                            /\ \A j \in listed : j > a.cursor => i <= j
    BY <1>8
  <2> DEFINE saw == {rcRow[i]}
             b == [a EXCEPT !.items = {i}, !.more = TRUE, !.last = i, !.at = "row", !.saw = saw]
  <2>1. rcWork' = [rcWork EXCEPT ![w] = b]
    <3>1. {rcRow[c] : c \in page} = saw /\ (page # {}) = TRUE
      BY <2>0
    <3>2. (IF page = {} THEN 0 ELSE Max(page)) = i /\ (IF page = {} THEN "done" ELSE "row") = "row"
      BY <2>0
    <3> QED
      BY <1>0, <2>0, <3>1, <3>2
  <2>i. i \in RcContents /\ i \in RcCursors /\ saw \in SUBSET Sights
    BY <1>2, <1>6 DEF Sights
  <2> HIDE DEF saw
  <2>2. b \in AttemptRows
    BY <1>1, <2>i DEF AttemptRows, AttemptStates
  <2>3. /\ rcWork'[w] = b /\ b.at = "row" /\ b.scan = a.scan /\ b.cursor = a.cursor
        /\ b.items = {i} /\ b.last = i /\ b.more /\ b.saw = saw
    BY <1>1, <1>6, <2>1 DEF AttemptRows
  <2> HIDE DEF b
  <2>4. AttemptShape(w)'
    BY <1>0, <1>5, <2>0, <2>3, <2>i DEF AttemptShape
  <2>5. \A r \in listed : r > a.cursor /\ r # i => r > i
    <3> SUFFICES ASSUME NEW r \in listed, r > a.cursor, r # i PROVE r > i
      OBVIOUS
    <3>1. r \in Nat /\ i \in Nat /\ i <= r
      BY <1>2, <2>0
    <3> QED
      BY <3>1
  <2>6. ASSUME NEW s \in RcScans PROVE AttemptTrue(s, w)'
    <3>1. saw = {rcRow'[i]}
      BY <1>0 DEF saw
    <3> QED
      BY <1>4, <2>3, <2>5, <3>1 DEF AttemptTrue
  <2> QED
    BY <1>0, <2>1, <2>2, <2>4, <2>6, AttemptReads
<1> QED
  BY <1>3, <1>7, <1>8

LEMMA BlobExistsKeeps ==
    ASSUME RcInv, NEW w \in ScanWorkers, BlobExists(w), rcScope' = rcScope
    PROVE  RcInv'
<1> DEFINE a == rcWork[w]
           c == a.last
           saw == {rcRow[c].blob}
           b == [a EXCEPT !.at = "size", !.saw = saw]
<1>0. /\ a.at = "exists"
      /\ UNCHANGED <<rcScope, rcObject, rcRow, rcDrift, rcFinding, rcClock, rcScan, rcPage, rcGc>>
  BY DEF BlobExists, FindingsKept
<1>1. /\ a \in AttemptRows /\ AttemptShape(w) /\ rcScope = "contents"
      /\ c \in RcContents /\ a.items = {c} /\ a.more
  BY <1>0, AttemptRow DEF AttemptShape
<1>2. rcWork' = [rcWork EXCEPT ![w] = b]
  BY <1>1 DEF BlobExists, AttemptGoes
<1>3. rcWork \in [ScanWorkers -> AttemptRows] /\ saw \in SUBSET Sights
  <2>1. rcRow[c] \in RcRows
    BY <1>1 DEF RcInv, RcType
  <2>2. rcRow[c].blob \in {"whole", "gone", "short", "deleted"}
    BY <2>1 DEF RcRows
  <2> QED
    BY <2>2 DEF RcInv, RcType, Sights
<1>s. saw = {rcRow'[c].blob}
  BY <1>0
<1> HIDE DEF saw
<1>4. b \in AttemptRows
  BY <1>1, <1>3 DEF AttemptRows, AttemptStates
<1>5. /\ rcWork'[w] = b /\ b.at = "size" /\ b.scan = a.scan /\ b.cursor = a.cursor
      /\ b.items = a.items /\ b.last = a.last /\ b.more = a.more /\ b.saw = saw
  BY <1>1, <1>2, <1>3 DEF AttemptRows
<1> HIDE DEF b
<1>6. AttemptShape(w)'
  BY <1>0, <1>1, <1>5 DEF AttemptShape, PastRead, AttemptStates
<1>7. ASSUME NEW s \in RcScans, rcScan[s].alone PROVE AttemptTrue(s, w)'
  <2>1. AttemptTrue(s, w)
    BY <1>7, AloneStarted DEF ScanTrue
  <2>2. Present' = Present /\ \A r : Unmoved(s, r)' <=> Unmoved(s, r)
    BY <1>0 DEF Present, Unmoved
  <2>3. \A r \in Present : Unmoved(s, r) /\ r > a.cursor /\ r # a.last => a.more /\ r > a.last
    BY <2>1, <1>0 DEF AttemptTrue, PastRead, AttemptStates
  <2>4. Unmoved(s, c) => RowJudged(c) /\ rcRow[c].actual # 0
    BY <2>1, <1>0 DEF AttemptTrue
  <2>5. RowJudged(c) => RowJudged(rcWork[w].last)'
    BY <1>0, <1>5 DEF RowJudged, OpenFinding
  <2> QED
    BY <1>0, <1>5, <1>s, <2>2, <2>3, <2>4, <2>5 DEF AttemptTrue
<1> QED
  BY <1>0, <1>2, <1>4, <1>6, <1>7, AttemptReads

LEMMA ReadUsersKeeps ==
    ASSUME RcInv, NEW w \in ScanWorkers, ReadUsers(w), rcScope' = rcScope
    PROVE  RcInv'
<1> DEFINE a == rcWork[w]
           b == [a EXCEPT !.at = "totals", !.saw = rcDrift]
<1>0. /\ a.at = "read" /\ rcScope = "users" /\ rcWork' = [rcWork EXCEPT ![w] = b]
      /\ UNCHANGED <<rcScope, rcObject, rcRow, rcDrift, rcFinding, rcClock, rcScan, rcPage, rcGc>>
  BY DEF ReadUsers, AttemptGoes, FindingsKept
<1>1. a \in AttemptRows /\ AttemptShape(w)
  BY AttemptRow
<1>3. rcWork \in [ScanWorkers -> AttemptRows] /\ rcDrift \in SUBSET Sights
  BY DEF RcInv, RcType, Sights
<1>4. b \in AttemptRows
  BY <1>1, <1>3 DEF AttemptRows, AttemptStates
<1>5. /\ rcWork'[w] = b /\ b.at = "totals" /\ b.scan = a.scan /\ b.cursor = a.cursor
      /\ b.items = a.items /\ b.last = a.last /\ b.more = a.more /\ b.saw = rcDrift
  BY <1>0, <1>1, <1>3 DEF AttemptRows
<1> HIDE DEF b
<1>6. AttemptShape(w)'
  BY <1>0, <1>1, <1>5 DEF AttemptShape
<1>7. ASSUME NEW s \in RcScans PROVE AttemptTrue(s, w)'
  <2>1. Present' = {}
    BY <1>0 DEF Present
  <2> QED
    BY <1>0, <1>5, <2>1 DEF AttemptTrue
<1> QED
  BY <1>0, <1>4, <1>6, <1>7, AttemptReads

-----------------------------------------------------------------------------
(* Attempts that write.                                                    *)

\* An attempt writes findings or arms a job.
LEMMA AttemptWrites ==
    ASSUME RcInv, NEW w \in ScanWorkers, NEW b \in AttemptRows, rcWork' = [rcWork EXCEPT ![w] = b],
           UNCHANGED <<rcScope, rcObject, rcRow, rcDrift, rcClock, rcScan, rcPage>>,
           rcFinding' \in [AllFindings -> FindingRows],
           \A f \in AllFindings : rcFinding'[f].seen <= rcClock,
           rcGc' \in [RcContents -> {"none", "pending", "succeeded"}],
           AttemptShape(w)',
           \A s \in RcScans : rcScan[s].alone => Keeps(s) /\ AttemptTrue(s, w)'
    PROVE  RcInv'
<1>1. RcType'
  BY DEF RcInv, RcType, FindingRows
<1>2. RowsAndTimes'
  BY DEF RcInv, RowsAndTimes
<1>3. \A v \in ScanWorkers \ {w} : rcWork'[v] = rcWork[v]
  BY DEF RcInv, RcType
<1> QED
  BY <1>1, <1>2, <1>3, OneAttemptMoves

LEMMA FindingTable ==
    ASSUME RcInv
    PROVE  /\ rcFinding \in [AllFindings -> FindingRows] /\ rcClock \in Nat
           /\ \A f \in AllFindings : rcFinding[f].seen <= rcClock
           /\ rcGc \in [RcContents -> {"none", "pending", "succeeded"}]
           /\ rcWork \in [ScanWorkers -> AttemptRows]
           /\ rcRow \in [RcContents -> RcRows] /\ rcScope \in ScanScopes
BY DEF RcInv, RcType, RowsAndTimes, FindingRows

LEMMA ApplyObjectKeeps ==
    ASSUME RcInv, NEW w \in ScanWorkers, ApplyObject(w), rcScope' = rcScope
    PROVE  RcInv'
<1> DEFINE a == rcWork[w]
<1>0. /\ a.at = "apply"
      /\ UNCHANGED <<rcScope, rcObject, rcRow, rcDrift, rcClock, rcScan, rcPage, rcGc>>
  BY DEF ApplyObject, FindingsKept
<1>1. PICK o \in a.items : /\ rcFinding' = Verdict(rcFinding, <<"orphan", o>>, o \notin a.saw)
                           /\ rcWork' = [rcWork EXCEPT ![w] = [a EXCEPT !.items = @ \ {o}]]
  BY DEF ApplyObject, AttemptGoes
<1> DEFINE left == a.items \ {o}
           b == [a EXCEPT !.items = left]
           f == <<"orphan", o>>
           holds == o \notin a.saw
<1>2. /\ a \in AttemptRows /\ AttemptShape(w) /\ a.items \in SUBSET RcCursors
      /\ rcScope = "objects" /\ a.items \subseteq RcObjects \cap {a.last}
  BY <1>0, AttemptRow DEF AttemptShape
<1>3. o \in RcObjects /\ o = a.last /\ f \in AllFindings /\ left = {} /\ left \in SUBSET RcCursors
      /\ holds \in BOOLEAN
  BY <1>1, <1>2, FindingKeys
<1>4. /\ rcFinding' \in [AllFindings -> FindingRows]
      /\ \A g \in AllFindings : rcFinding'[g].seen <= rcClock
      /\ (rcFinding'[f].open <=> holds)
      /\ (holds => rcFinding'[f].seen = rcClock)
      /\ \A g \in AllFindings : g # f => rcFinding'[g] = rcFinding[g]
  <2>1. rcFinding' = Verdict(rcFinding, f, holds)
    BY <1>1
  <2>2. /\ rcFinding \in [AllFindings -> FindingRows] /\ rcClock \in Nat
        /\ \A g \in AllFindings : rcFinding[g].seen <= rcClock
    BY FindingTable
  <2> HIDE DEF f, holds
  <2> QED
    BY <1>3, <2>1, <2>2, VerdictFacts
<1>5. rcWork' = [rcWork EXCEPT ![w] = b]
  BY <1>1
<1> HIDE DEF left
<1>6. b \in AttemptRows
  BY <1>2, <1>3 DEF AttemptRows
<1>7. /\ rcWork'[w] = b /\ b.at = "apply" /\ b.scan = a.scan /\ b.cursor = a.cursor
      /\ b.items = left /\ b.last = a.last /\ b.more = a.more /\ b.saw = a.saw
  BY <1>0, <1>2, <1>5, FindingTable DEF AttemptRows
<1> HIDE DEF b
<1>8. AttemptShape(w)'
  BY <1>0, <1>2, <1>3, <1>7 DEF AttemptShape
<1>9. ASSUME NEW s \in RcScans, rcScan[s].alone PROVE Keeps(s) /\ AttemptTrue(s, w)'
  <2>1. AttemptTrue(s, w) /\ s <= rcClock
    BY <1>9, AloneStarted DEF ScanTrue
  <2>2. Present' = Present /\ \A r : Unmoved(s, r)' <=> Unmoved(s, r)
    BY <1>0 DEF Present, Unmoved
  <2>3. Unmoved(s, o) => rcObject[o] # "absent" /\ (o \in a.saw <=> rcObject[o] = "referenced")
    BY <2>1, <1>0, <1>1 DEF AttemptTrue
  <2>4. Unmoved(s, o) => (holds <=> rcObject[o] = "orphan")
    <3>1. rcObject[o] \in {"absent", "orphan", "referenced"}
      BY <1>3 DEF RcInv, RcType
    <3> QED
      BY <2>3, <3>1
  <2>5. ASSUME NEW q \in RcObjects, Unmoved(s, q)
        PROVE  /\ rcObject[q] = "orphan" => \A t \in RcScans :
                    /\ s <= t /\ t <= rcClock
                    /\ OpenFinding("orphan", q) /\ rcFinding[<<"orphan", q>>].seen >= t
                    => OpenFinding("orphan", q)' /\ rcFinding'[<<"orphan", q>>].seen >= t
               /\ rcObject[q] # "orphan" /\ OpenFinding("orphan", q)' =>
                    /\ OpenFinding("orphan", q)
                    /\ rcFinding'[<<"orphan", q>>].seen = rcFinding[<<"orphan", q>>].seen
    <3>1. CASE q = o
      BY <3>1, <2>5, <2>4, <1>4 DEF OpenFinding
    <3>2. CASE q # o
      <4>1. <<"orphan", q>> \in AllFindings /\ <<"orphan", q>> # f
        BY <3>2, FindingKeys
      <4>2. rcFinding'[<<"orphan", q>>] = rcFinding[<<"orphan", q>>]
        BY <4>1, <1>4
      <4> QED
        BY <4>2 DEF OpenFinding
    <3> QED
      BY <3>1, <3>2
  <2>6. Keeps(s)
    BY <1>0, <1>2, <2>2, <2>5 DEF Keeps
  <2>7. \A r \in Present : Unmoved(s, r) /\ r > a.cursor /\ r # a.last => a.more /\ r > a.last
    BY <2>1, <1>0 DEF AttemptTrue, PastRead, AttemptStates
  <2>8. ASSUME s <= a.scan, Unmoved(s, a.last) PROVE OrphanShown(rcWork[w].scan, rcWork[w].last)'
    <3>1. a.scan <= rcClock /\ a.scan \in Nat
      BY <1>0, <1>2, AttemptRow DEF AttemptShape
    <3> QED
      BY <2>8, <2>4, <3>1, <1>0, <1>3, <1>4, <1>7 DEF OrphanShown, OpenFinding
  <2> QED
    BY <1>0, <1>3, <1>7, <2>2, <2>6, <2>7, <2>8 DEF AttemptTrue
<1> QED
  BY <1>0, <1>4, <1>5, <1>6, <1>8, <1>9, FindingTable, AttemptWrites

LEMMA EndInventoryKeeps ==
    ASSUME RcInv, NEW w \in ScanWorkers, EndInventory(w), rcScope' = rcScope
    PROVE  RcInv'
<1> DEFINE a == rcWork[w]
           b == [a EXCEPT !.at = "done"]
<1>0. /\ a.at = "apply" /\ a.items = {}
      /\ rcFinding' = IF a.more THEN rcFinding ELSE ResolveStaleObjectFindings(a.scan)
      /\ rcWork' = [rcWork EXCEPT ![w] = b]
      /\ UNCHANGED <<rcScope, rcObject, rcRow, rcDrift, rcClock, rcScan, rcPage, rcGc>>
  BY DEF EndInventory, AttemptGoes, FindingsKept
<1>1. /\ a \in AttemptRows /\ AttemptShape(w) /\ rcScope = "objects"
      /\ a.scan \in RcScans /\ a.scan <= rcClock /\ rcPage[<<a.scan, a.cursor>>] # "none"
      /\ a.cursor \in RcCursors /\ a.cursor \in Nat /\ a.last \in RcCursors /\ a.more \in BOOLEAN
      /\ a.scan \in Nat
  BY <1>0, AttemptRow DEF AttemptShape
<1>2. b \in AttemptRows
  BY <1>1 DEF AttemptRows, AttemptStates
<1>3. /\ rcWork'[w] = b /\ b.at = "done" /\ b.scan = a.scan /\ b.cursor = a.cursor
      /\ b.items = a.items /\ b.last = a.last /\ b.more = a.more /\ b.saw = a.saw
  BY <1>0, <1>1, FindingTable DEF AttemptRows
<1> HIDE DEF b
<1>4. AttemptShape(w)'
  BY <1>0, <1>1, <1>3 DEF AttemptShape, PastRead, AttemptStates
<1>5. rcScan[a.scan].start = a.scan
  BY <1>1 DEF RcInv, ScansInOrder
<1> DEFINE stale(f) == f \in FindingTypes("objects") /\ rcFinding[f].open /\ rcFinding[f].seen < a.scan
<1>6. \A f \in AllFindings :
        \/ rcFinding'[f] = rcFinding[f] /\ (a.more \/ ~stale(f))
        \/ rcFinding'[f] = [open |-> FALSE, seen |-> rcClock] /\ ~a.more /\ stale(f)
  BY <1>0, <1>1, <1>5 DEF ResolveStaleObjectFindings, StaleFindings
<1>7. /\ rcFinding' \in [AllFindings -> FindingRows]
      /\ \A f \in AllFindings : rcFinding'[f].seen <= rcClock
  <2> DEFINE v == [open |-> FALSE, seen |-> rcClock]
  <2>1. v \in FindingRows /\ v.seen = rcClock /\ rcClock \in Nat
    BY FindingTable DEF FindingRows
  <2> HIDE DEF v
  <2>2. CASE a.more
    BY <2>2, <1>0, FindingTable
  <2>3. CASE ~a.more
    <3>1. rcFinding' = [f \in AllFindings |-> IF f \in StaleFindings(a.scan) THEN v ELSE rcFinding[f]]
      BY <2>3, <1>0 DEF ResolveStaleObjectFindings, v
    <3> QED
      BY <3>1, <2>1, FindingTable
  <2> QED
    BY <2>2, <2>3
<1>8. \A o \in RcObjects : /\ <<"orphan", o>> \in FindingTypes("objects") /\ <<"orphan", o>> \in AllFindings
                           /\ rcFinding[<<"orphan", o>>].seen \in Nat
                           /\ rcFinding[<<"orphan", o>>] \in FindingRows
  <2>1. \A o \in RcObjects : <<"orphan", o>> \in AllFindings
    BY FindingKeys
  <2>2. \A o \in RcObjects : <<"orphan", o>> \in FindingTypes("objects")
    BY DEF FindingTypes
  <2> QED
    BY <2>1, <2>2, FindingTable DEF FindingRows
<1>9. ASSUME NEW o \in RcObjects, OpenFinding("orphan", o)'
      PROVE  /\ rcFinding'[<<"orphan", o>>] = rcFinding[<<"orphan", o>>] /\ OpenFinding("orphan", o)
             /\ a.more \/ rcFinding[<<"orphan", o>>].seen >= a.scan
  <2>1. rcFinding'[<<"orphan", o>>] = rcFinding[<<"orphan", o>>] /\ (a.more \/ ~stale(<<"orphan", o>>))
    BY <1>6, <1>8, <1>9 DEF OpenFinding
  <2> QED
    BY <1>1, <1>8, <1>9, <2>1 DEF OpenFinding
<1> HIDE DEF stale
<1>10. ASSUME NEW s \in RcScans, rcScan[s].alone PROVE Keeps(s) /\ AttemptTrue(s, w)'
  <2>1. ScanTrue(s) /\ s <= rcClock /\ AttemptTrue(s, w) /\ PagesCovered(s) /\ NothingInvented(s) /\ s <= s
        /\ s \in Nat
    BY <1>10, AloneStarted DEF ScanTrue, RcScans
  <2>2. Present' = Present /\ \A r : Unmoved(s, r)' <=> Unmoved(s, r)
    BY <1>0 DEF Present, Unmoved
  <2>3. \A r \in Present : Unmoved(s, r) /\ r > a.cursor /\ r # a.last => a.more /\ r > a.last
    BY <2>1, <1>0 DEF AttemptTrue, PastRead, AttemptStates
  <2>4. s <= a.scan /\ Unmoved(s, a.last) => Covered(a.scan, a.last)
    <3>1. s <= a.scan /\ Unmoved(s, a.last) /\ a.last \in RcObjects => OrphanShown(a.scan, a.last)
      BY <2>1, <1>0 DEF AttemptTrue
    <3> QED
      BY <3>1, <1>1 DEF Covered
  <2>5. ASSUME ~a.more, s <= a.scan PROVE \A r \in Nat : Unmoved(s, r) => Covered(a.scan, r)
    <3>1. \A r \in Present \cap Nat : Unmoved(s, r) /\ r > a.cursor => r = a.last
      BY <2>3, <2>5
    <3>2. RcType
      BY DEF RcInv
    <3> QED
      BY <1>1, <2>1, <2>4, <2>5, <3>1, <3>2, NothingLeftOut
  <2>6. ASSUME NEW o \in RcObjects, Unmoved(s, o), rcObject[o] = "orphan", NEW t \in RcScans,
               s <= t, t <= rcClock, OpenFinding("orphan", o), rcFinding[<<"orphan", o>>].seen >= t
        PROVE  rcFinding'[<<"orphan", o>>] = rcFinding[<<"orphan", o>>]
    <3>1. CASE a.more
      BY <3>1, <1>0
    <3>2. CASE ~a.more /\ s <= a.scan
      <4>1. o \in Nat
        BY CursorFacts
      <4>2. rcFinding[<<"orphan", o>>].seen >= a.scan
        BY <2>5, <2>6, <3>2, <4>1, <1>1 DEF Covered, OrphanShown
      <4>3. ~stale(<<"orphan", o>>)
        BY <4>2, <1>1, <1>8 DEF stale
      <4> QED
        BY <1>6, <1>8, <4>3
    <3>3. CASE ~(s <= a.scan)
      <4>1. t \in Nat
        BY DEF RcScans
      <4>2. ~stale(<<"orphan", o>>)
        BY <2>1, <2>6, <3>3, <4>1, <1>1, <1>8 DEF stale
      <4> QED
        BY <1>6, <1>8, <4>2
    <3> QED
      BY <3>1, <3>2, <3>3
  <2>7. Keeps(s)
    <3>1. rcScan'[s].steady \subseteq rcScan[s].steady
      BY <1>0
    <3>2. ASSUME NEW o \in RcObjects, Unmoved(s, o)'
          PROVE  /\ rcObject'[o] = rcObject[o]
                 /\ rcObject[o] = "orphan" => \A t \in RcScans :
                      /\ s <= t /\ t <= rcClock
                      /\ OpenFinding("orphan", o) /\ rcFinding[<<"orphan", o>>].seen >= t
                      => OpenFinding("orphan", o)' /\ rcFinding'[<<"orphan", o>>].seen >= t
                 /\ rcObject[o] # "orphan" /\ OpenFinding("orphan", o)' =>
                      /\ OpenFinding("orphan", o)
                      /\ rcFinding'[<<"orphan", o>>].seen = rcFinding[<<"orphan", o>>].seen
      BY <3>2, <1>0, <1>9, <2>2, <2>6 DEF OpenFinding
    <3> QED
      BY <1>1, <3>1, <3>2 DEF Keeps
  <2>8. ASSUME s <= a.scan, Unmoved(s, a.last) PROVE Covered(rcWork[w].scan, rcWork[w].last)'
    <3>0. PICK u \in RcScans, l \in RcCursors : u = a.scan /\ l = a.last
      BY <1>1
    <3>1. Covered(u, l)'
      BY <1>0, <1>1, <2>2, <2>4, <2>7, <2>8, <3>0, KeepsCovered
    <3>2. rcWork'[w].scan = u /\ rcWork'[w].last = l
      BY <1>3, <3>0
    <3> QED
      BY <1>0, <3>1, <3>2 DEF Covered, OrphanShown, OpenFinding
  <2>9. ASSUME ~a.more, a.scan = s PROVE Complete(s)'
    <3>1. \A r \in Nat : Unmoved(s, r) => Covered(s, r)
      BY <2>1, <2>5, <2>9
    <3>2. \A r \in Nat : Unmoved(s, r)' => Covered(s, r)'
      BY <1>0, <2>1, <2>2, <2>7, <3>1, KeepsCovered
    <3>3. ASSUME NEW o \in RcObjects, Unmoved(s, o), rcObject[o] # "orphan", OpenFinding("orphan", o)' PROVE FALSE
      <4>1. OpenFinding("orphan", o) /\ rcFinding[<<"orphan", o>>].seen >= s
        BY <1>9, <2>9, <3>3
      <4>2. rcFinding[<<"orphan", o>>].seen < s
        BY <1>1, <2>1, <3>3, <4>1 DEF NothingInvented
      <4> QED
        BY <4>1, <4>2, <1>8, <2>1
    <3> QED
      BY <1>0, <1>1, <2>2, <3>2, <3>3 DEF Complete
  <2> QED
    BY <1>0, <1>3, <2>2, <2>3, <2>7, <2>8, <2>9 DEF AttemptTrue
<1> QED
  BY <1>0, <1>2, <1>4, <1>7, <1>10, FindingTable, AttemptWrites

\* What an attempt on a content has in hand.
LEMMA ContentAttempt ==
    ASSUME RcInv, NEW w \in ScanWorkers, rcWork[w].at \in {"row", "collect", "exists", "size", "verdict"}
    PROVE  /\ rcWork[w] \in AttemptRows /\ rcScope = "contents"
           /\ rcWork[w].last \in RcContents /\ rcWork[w].items = {rcWork[w].last} /\ rcWork[w].more
           /\ rcWork[w].scan \in RcScans /\ rcWork[w].scan <= rcClock
           /\ rcPage[<<rcWork[w].scan, rcWork[w].cursor>>] # "none" /\ rcWork[w].last > rcWork[w].cursor
           /\ rcWork[w].saw \in SUBSET Sights
<1>1. rcWork[w] \in AttemptRows /\ AttemptShape(w) /\ rcWork[w].saw \in SUBSET Sights
  BY AttemptRow
<1> QED
  BY <1>1 DEF AttemptShape, PastRead, AttemptStates

\* A step of an attempt on content c writes of c only; this is what it has to
\* leave behind.
LEMMA ContentAttemptWrites ==
    ASSUME RcInv, NEW w \in ScanWorkers, NEW b \in AttemptRows, rcWork' = [rcWork EXCEPT ![w] = b],
           UNCHANGED <<rcScope, rcObject, rcRow, rcDrift, rcClock, rcScan, rcPage>>,
           rcFinding' \in [AllFindings -> FindingRows],
           \A f \in AllFindings : rcFinding'[f].seen <= rcClock,
           rcGc' \in [RcContents -> {"none", "pending", "succeeded"}],
           rcWork[w].at \in {"row", "collect", "exists", "size", "verdict"},
           b.at \in {"collect", "exists", "size", "verdict", "done"},
           b.scan = rcWork[w].scan, b.cursor = rcWork[w].cursor, b.items = rcWork[w].items,
           b.last = rcWork[w].last, b.more = rcWork[w].more,
           NEW c \in RcContents, c = rcWork[w].last,
           \A d \in RcContents, k \in {"refs", "zero", "missing", "size"} :
              d # c => rcFinding'[<<k, d>>] = rcFinding[<<k, d>>],
           \A d \in RcContents : d # c => rcGc'[d] = rcGc[d],
           \A s \in RcScans : rcScan[s].alone /\ AttemptTrue(s, w) /\ Unmoved(s, c) =>
              /\ RowJudged(c) => RowJudged(c)'
              /\ MissingJudged(c) => MissingJudged(c)'
              /\ SizeJudged(c) => SizeJudged(c)'
              /\ RowJudged(c) /\ CollectorWaits(c) => CollectorWaits(c)'
              /\ RowJudged(c)'
              /\ b.at \in {"exists", "size", "verdict"} => rcRow[c].actual # 0
              /\ b.at = "collect" => rcRow[c].actual = 0
              /\ b.at \in {"size", "verdict"} => b.saw = {rcRow[c].blob}
              /\ b.at = "verdict" => MissingJudged(c)'
              /\ b.at = "done" => MissingJudged(c)' /\ SizeJudged(c)' /\ CollectorWaits(c)'
    PROVE  RcInv'
<1>0. /\ rcScope = "contents" /\ b.items = {c} /\ b.more
      /\ b.scan \in RcScans /\ b.scan <= rcClock /\ rcPage[<<b.scan, b.cursor>>] # "none" /\ c > b.cursor
  BY ContentAttempt
<1>1. rcWork'[w] = b
  BY FindingTable
<1>2. AttemptShape(w)'
  BY <1>0, <1>1 DEF AttemptShape
<1>3. ASSUME NEW s \in RcScans, rcScan[s].alone PROVE Keeps(s) /\ AttemptTrue(s, w)'
  <2>1. AttemptTrue(s, w)
    BY <1>3, AloneStarted DEF ScanTrue
  <2>2. Present' = Present /\ \A r : Unmoved(s, r)' <=> Unmoved(s, r)
    BY DEF Present, Unmoved
  <2>3. Unmoved(s, c) =>
              /\ RowJudged(c) => RowJudged(c)'
              /\ MissingJudged(c) => MissingJudged(c)'
              /\ SizeJudged(c) => SizeJudged(c)'
              /\ RowJudged(c) /\ CollectorWaits(c) => CollectorWaits(c)'
              /\ RowJudged(c)'
              /\ b.at \in {"exists", "size", "verdict"} => rcRow[c].actual # 0
              /\ b.at = "collect" => rcRow[c].actual = 0
              /\ b.at \in {"size", "verdict"} => b.saw = {rcRow[c].blob}
              /\ b.at = "verdict" => MissingJudged(c)'
              /\ b.at = "done" => MissingJudged(c)' /\ SizeJudged(c)' /\ CollectorWaits(c)'
    BY <1>3, <2>1
  <2>4. ASSUME NEW d \in RcContents, d # c
        PROVE  /\ RowJudged(d) => RowJudged(d)'
               /\ MissingJudged(d) => MissingJudged(d)'
               /\ SizeJudged(d) => SizeJudged(d)'
               /\ RowJudged(d) /\ CollectorWaits(d) => CollectorWaits(d)'
    <3>1. \A k \in {"refs", "zero", "missing", "size"} : rcFinding'[<<k, d>>] = rcFinding[<<k, d>>]
      BY <2>4
    <3> QED
      BY <2>4, <3>1 DEF RowJudged, MissingJudged, SizeJudged, CollectorWaits, OpenFinding
  <2>5. Keeps(s)
    BY <1>0, <2>2, <2>3, <2>4 DEF Keeps
  <2>6. \A r \in Present : Unmoved(s, r) /\ r > b.cursor /\ r # b.last => b.more /\ r > b.last
    BY <2>1 DEF AttemptTrue, PastRead, AttemptStates
  <2>7. Unmoved(s, c) =>
              /\ RowJudged(rcWork[w].last)'
              /\ b.at = "verdict" => MissingJudged(rcWork[w].last)'
              /\ b.at = "done" => Covered(rcWork[w].scan, rcWork[w].last)'
    <3>1. rcWork'[w].last = c
      BY <1>1
    <3> QED
      BY <1>0, <2>3, <3>1 DEF RowJudged, MissingJudged, SizeJudged, CollectorWaits, OpenFinding, Covered
  <2>8. AttemptTrue(s, w)'
    BY <1>0, <1>1, <2>2, <2>3, <2>6, <2>7 DEF AttemptTrue
  <2> QED
    BY <2>5, <2>8
<1> QED
  BY <1>2, <1>3, AttemptWrites

LEMMA EnqueueOrRearmBlobGcKeeps ==
    ASSUME RcInv, NEW w \in ScanWorkers, EnqueueOrRearmBlobGc(w), rcScope' = rcScope
    PROVE  RcInv'
<1> DEFINE a == rcWork[w]
           b == [a EXCEPT !.at = "done"]
<1>0. /\ a.at = "collect" /\ rcWork' = [rcWork EXCEPT ![w] = b]
      /\ UNCHANGED <<rcScope, rcObject, rcRow, rcDrift, rcFinding, rcClock, rcScan, rcPage>>
  BY DEF EnqueueOrRearmBlobGc, AttemptGoes, FindingsKept
<1>1. a \in AttemptRows /\ a.last \in RcContents /\ a.items = {a.last}
  BY <1>0, ContentAttempt
<1>c. PICK c \in RcContents : c = a.last
  BY <1>1
<1>2. rcGc' = [rcGc EXCEPT ![c] = IF @ \in RearmsFrom THEN "pending" ELSE @]
  BY <1>1, <1>c DEF EnqueueOrRearmBlobGc
<1>3. /\ rcGc' \in [RcContents -> {"none", "pending", "succeeded"}]
      /\ rcGc'[c] = "pending" /\ \A d \in RcContents : d # c => rcGc'[d] = rcGc[d]
  <2>1. rcGc \in [RcContents -> {"none", "pending", "succeeded"}]
    BY FindingTable
  <2> QED
    BY <1>2, <2>1 DEF RearmsFrom
<1>4. /\ b \in AttemptRows /\ b.at = "done" /\ b.scan = a.scan /\ b.cursor = a.cursor
      /\ b.items = a.items /\ b.last = a.last /\ b.more = a.more
  BY <1>1 DEF AttemptRows, AttemptStates
<1> HIDE DEF b
<1>5. ASSUME NEW s \in RcScans, AttemptTrue(s, w), Unmoved(s, c)
      PROVE  RowJudged(c) /\ rcRow[c].actual = 0
  BY <1>0, <1>5, <1>c DEF AttemptTrue
<1>6. /\ RowJudged(c) => RowJudged(c)'
      /\ MissingJudged(c) => MissingJudged(c)'
      /\ SizeJudged(c) => SizeJudged(c)'
      /\ CollectorWaits(c)'
      /\ rcRow[c].actual = 0 => MissingJudged(c)' /\ SizeJudged(c)'
  BY <1>0, <1>3 DEF RowJudged, MissingJudged, SizeJudged, CollectorWaits, OpenFinding
<1>7. /\ rcFinding' \in [AllFindings -> FindingRows]
      /\ \A f \in AllFindings : rcFinding'[f].seen <= rcClock
      /\ \A d \in RcContents, k \in {"refs", "zero", "missing", "size"} :
            d # c => rcFinding'[<<k, d>>] = rcFinding[<<k, d>>]
  BY <1>0, FindingTable
<1>8. \A s \in RcScans : rcScan[s].alone /\ AttemptTrue(s, w) /\ Unmoved(s, c) =>
              /\ RowJudged(c) => RowJudged(c)'
              /\ MissingJudged(c) => MissingJudged(c)'
              /\ SizeJudged(c) => SizeJudged(c)'
              /\ RowJudged(c) /\ CollectorWaits(c) => CollectorWaits(c)'
              /\ RowJudged(c)'
              /\ b.at \in {"exists", "size", "verdict"} => rcRow[c].actual # 0
              /\ b.at = "collect" => rcRow[c].actual = 0
              /\ b.at \in {"size", "verdict"} => b.saw = {rcRow[c].blob}
              /\ b.at = "verdict" => MissingJudged(c)'
              /\ b.at = "done" => MissingJudged(c)' /\ SizeJudged(c)' /\ CollectorWaits(c)'
  BY <1>4, <1>5, <1>6
<1> QED
  BY <1>0, <1>3, <1>4, <1>7, <1>8, <1>c, ContentAttemptWrites

\* Two verdicts on different findings of one content.
LEMMA ContentKeys ==
    ASSUME NEW c \in RcContents
    PROVE  /\ \A k \in {"refs", "zero", "missing", "size"} : <<k, c>> \in AllFindings
           /\ \A k, l \in {"refs", "zero", "missing", "size"}, d \in RcContents :
                 k # l \/ d # c => <<k, d>> \in AllFindings /\ <<k, d>> # <<l, c>>
BY FindingKeys

LEMMA ApplyRowKeeps ==
    ASSUME RcInv, NEW w \in ScanWorkers, ApplyRow(w), rcScope' = rcScope
    PROVE  RcInv'
<1> DEFINE a == rcWork[w]
<1>0. /\ a.at = "row"
      /\ UNCHANGED <<rcScope, rcObject, rcRow, rcDrift, rcClock, rcScan, rcPage, rcGc>>
  BY DEF ApplyRow, FindingsKept
<1>1. a \in AttemptRows /\ a.last \in RcContents /\ a.items = {a.last}
  BY <1>0, ContentAttempt
<1>c. PICK c \in RcContents : c = a.last
  BY <1>1
<1>2. PICK row \in a.saw :
        LET counted == RefsVerdict(rcFinding, c, row)
        IN IF row.stored = 0 /\ row.actual = 0
           THEN /\ rcFinding' = RecordFinding(counted, <<"zero", c>>)
                /\ rcWork' = [rcWork EXCEPT ![w] = [a EXCEPT !.at = "collect"]]
           ELSE /\ rcFinding' = ResolveFinding(counted, <<"zero", c>>)
                /\ rcWork' = [rcWork EXCEPT ![w] =
                                [a EXCEPT !.at = IF row.actual = 0 THEN "done" ELSE "exists"]]
  BY <1>1, <1>c DEF ApplyRow, AttemptGoes
<1> DEFINE differs == row.stored # row.actual
           unused == row.stored = 0 /\ row.actual = 0
           counted == Verdict(rcFinding, <<"refs", c>>, differs)
           at == IF unused THEN "collect" ELSE IF row.actual = 0 THEN "done" ELSE "exists"
           b == [a EXCEPT !.at = at]
<1>3. rcFinding' = Verdict(counted, <<"zero", c>>, unused) /\ rcWork' = [rcWork EXCEPT ![w] = b]
  BY <1>2 DEF RefsVerdict, Verdict
<1>4. differs \in BOOLEAN /\ unused \in BOOLEAN /\ at \in {"collect", "done", "exists"}
      /\ (at = "collect" <=> unused) /\ (at = "done" => row.actual = 0 /\ ~unused)
      /\ (at = "exists" => row.actual # 0)
  OBVIOUS
<1>t. /\ rcFinding \in [AllFindings -> FindingRows] /\ rcClock \in Nat
      /\ \A g \in AllFindings : rcFinding[g].seen <= rcClock
  BY FindingTable
<1>k. <<"refs", c>> \in AllFindings /\ <<"zero", c>> \in AllFindings
  BY ContentKeys
<1>r. row = rcRow[c] => /\ (differs <=> rcRow[c].stored # rcRow[c].actual)
                        /\ (unused <=> rcRow[c].stored = 0 /\ rcRow[c].actual = 0)
                        /\ row.actual = rcRow[c].actual
  OBVIOUS
<1> DEFINE refs == <<"refs", c>>
           zero == <<"zero", c>>
<1> HIDE DEF differs, unused, at
<1>5. /\ counted \in [AllFindings -> FindingRows]
      /\ \A g \in AllFindings : counted[g].seen <= rcClock
      /\ counted[<<"refs", c>>].open <=> differs
      /\ \A g \in AllFindings : g # <<"refs", c>> => counted[g] = rcFinding[g]
  <2>1. counted = Verdict(rcFinding, refs, differs) /\ refs \in AllFindings
    BY <1>k
  <2> HIDE DEF refs, counted
  <2>2. /\ counted \in [AllFindings -> FindingRows]
        /\ \A g \in AllFindings : counted[g].seen <= rcClock
        /\ counted[refs].open <=> differs
        /\ \A g \in AllFindings : g # refs => counted[g] = rcFinding[g]
    BY <1>4, <1>t, <2>1, VerdictFacts
  <2> QED
    BY <2>2 DEF refs
<1> HIDE DEF counted
<1>6. /\ rcFinding' \in [AllFindings -> FindingRows]
      /\ \A g \in AllFindings : rcFinding'[g].seen <= rcClock
      /\ rcFinding'[<<"zero", c>>].open <=> unused
      /\ \A g \in AllFindings : g # <<"zero", c>> => rcFinding'[g] = counted[g]
  <2>1. rcFinding' = Verdict(counted, zero, unused) /\ zero \in AllFindings
    BY <1>3, <1>k
  <2> HIDE DEF zero
  <2>2. /\ rcFinding' \in [AllFindings -> FindingRows]
        /\ \A g \in AllFindings : rcFinding'[g].seen <= rcClock
        /\ rcFinding'[zero].open <=> unused
        /\ \A g \in AllFindings : g # zero => rcFinding'[g] = counted[g]
    BY <1>4, <1>5, <1>t, <2>1, VerdictFacts
  <2> QED
    BY <2>2 DEF zero
<1>7. /\ rcFinding'[<<"refs", c>>].open <=> differs
      /\ rcFinding'[<<"missing", c>>] = rcFinding[<<"missing", c>>]
      /\ rcFinding'[<<"size", c>>] = rcFinding[<<"size", c>>]
      /\ \A d \in RcContents, k \in {"refs", "zero", "missing", "size"} :
            d # c => rcFinding'[<<k, d>>] = rcFinding[<<k, d>>]
  BY <1>5, <1>6, ContentKeys
<1>8. /\ b \in AttemptRows /\ b.at = at /\ b.scan = a.scan /\ b.cursor = a.cursor
      /\ b.items = a.items /\ b.last = a.last /\ b.more = a.more
  BY <1>1, <1>4 DEF AttemptRows, AttemptStates
<1> HIDE DEF b
<1>9. \A s \in RcScans : AttemptTrue(s, w) /\ Unmoved(s, c) => row = rcRow[c]
  BY <1>0, <1>2, <1>c DEF AttemptTrue
<1>10. /\ MissingJudged(c) => MissingJudged(c)'
       /\ SizeJudged(c) => SizeJudged(c)'
       /\ rcRow[c].actual = 0 => MissingJudged(c)' /\ SizeJudged(c)'
  BY <1>0, <1>7 DEF MissingJudged, SizeJudged, OpenFinding
<1>11. row = rcRow[c] =>
              /\ RowJudged(c)'
              /\ RowJudged(c) /\ CollectorWaits(c) => CollectorWaits(c)'
              /\ ~unused => CollectorWaits(c)'
  BY <1>0, <1>6, <1>7, <1>r DEF RowJudged, CollectorWaits, OpenFinding
<1>12. \A s \in RcScans : rcScan[s].alone /\ AttemptTrue(s, w) /\ Unmoved(s, c) =>
              /\ RowJudged(c) => RowJudged(c)'
              /\ MissingJudged(c) => MissingJudged(c)'
              /\ SizeJudged(c) => SizeJudged(c)'
              /\ RowJudged(c) /\ CollectorWaits(c) => CollectorWaits(c)'
              /\ RowJudged(c)'
              /\ b.at \in {"exists", "size", "verdict"} => rcRow[c].actual # 0
              /\ b.at = "collect" => rcRow[c].actual = 0
              /\ b.at \in {"size", "verdict"} => b.saw = {rcRow[c].blob}
              /\ b.at = "verdict" => MissingJudged(c)'
              /\ b.at = "done" => MissingJudged(c)' /\ SizeJudged(c)' /\ CollectorWaits(c)'
  BY <1>4, <1>8, <1>9, <1>10, <1>11, <1>r
<1>13. /\ rcGc' \in [RcContents -> {"none", "pending", "succeeded"}]
       /\ \A d \in RcContents : d # c => rcGc'[d] = rcGc[d]
  BY <1>0, FindingTable
<1>14. /\ b.at \in {"collect", "exists", "size", "verdict", "done"} /\ rcWork' = [rcWork EXCEPT ![w] = b]
       /\ a.at \in {"row", "collect", "exists", "size", "verdict"}
  BY <1>0, <1>3, <1>4, <1>8
<1>15. /\ rcFinding' \in [AllFindings -> FindingRows]
       /\ \A f \in AllFindings : rcFinding'[f].seen <= rcClock
       /\ \A d \in RcContents, k \in {"refs", "zero", "missing", "size"} :
             d # c => rcFinding'[<<k, d>>] = rcFinding[<<k, d>>]
  BY <1>6, <1>7
<1>16. /\ b \in AttemptRows /\ b.scan = a.scan /\ b.cursor = a.cursor
       /\ b.items = a.items /\ b.last = a.last /\ b.more = a.more
  BY <1>8
<1>17. UNCHANGED <<rcScope, rcObject, rcRow, rcDrift, rcClock, rcScan, rcPage>>
  BY <1>0
<1> QED
  BY <1>12, <1>13, <1>14, <1>15, <1>16, <1>17, <1>c, ContentAttemptWrites

LEMMA GetBlobSizeKeeps ==
    ASSUME RcInv, NEW w \in ScanWorkers, GetBlobSize(w), rcScope' = rcScope
    PROVE  RcInv'
<1> DEFINE a == rcWork[w]
<1>0. /\ a.at = "size"
      /\ UNCHANGED <<rcScope, rcObject, rcRow, rcDrift, rcClock, rcScan, rcPage, rcGc>>
  BY DEF GetBlobSize, FindingsKept
<1>1. a \in AttemptRows /\ a.last \in RcContents /\ a.items = {a.last} /\ a.saw \in SUBSET Sights
  BY <1>0, ContentAttempt
<1>c. PICK c \in RcContents : c = a.last
  BY <1>1
<1> DEFINE missing == \E x \in a.saw : IsMissing(x)
           saw == IF missing THEN a.saw ELSE {rcRow[c].blob}
           b == [a EXCEPT !.at = "verdict", !.saw = saw]
<1>3. rcFinding' = Verdict(rcFinding, <<"missing", c>>, missing) /\ rcWork' = [rcWork EXCEPT ![w] = b]
  BY <1>1, <1>c DEF GetBlobSize, AttemptGoes
<1>4. missing \in BOOLEAN /\ saw \in SUBSET Sights
      /\ (a.saw = {rcRow[c].blob} => saw = {rcRow[c].blob} /\ (missing <=> IsMissing(rcRow[c].blob)))
  <2>1. rcRow[c] \in RcRows
    BY FindingTable
  <2>2. rcRow[c].blob \in {"whole", "gone", "short", "deleted"}
    BY <2>1 DEF RcRows
  <2> QED
    BY <2>2, <1>1 DEF Sights
<1>t. /\ rcFinding \in [AllFindings -> FindingRows] /\ rcClock \in Nat
      /\ \A g \in AllFindings : rcFinding[g].seen <= rcClock
  BY FindingTable
<1>k. <<"missing", c>> \in AllFindings
  BY ContentKeys
<1> HIDE DEF missing, saw
<1>6. /\ rcFinding' \in [AllFindings -> FindingRows]
      /\ \A g \in AllFindings : rcFinding'[g].seen <= rcClock
      /\ rcFinding'[<<"missing", c>>].open <=> missing
      /\ \A g \in AllFindings : g # <<"missing", c>> => rcFinding'[g] = rcFinding[g]
  <2> DEFINE f == <<"missing", c>>
  <2>1. rcFinding' = Verdict(rcFinding, f, missing) /\ f \in AllFindings
    BY <1>3, <1>k
  <2> HIDE DEF f
  <2>2. /\ rcFinding' \in [AllFindings -> FindingRows]
        /\ \A g \in AllFindings : rcFinding'[g].seen <= rcClock
        /\ rcFinding'[f].open <=> missing
        /\ \A g \in AllFindings : g # f => rcFinding'[g] = rcFinding[g]
    BY <1>4, <1>t, <2>1, VerdictFacts
  <2> QED
    BY <2>2 DEF f
<1>7. /\ rcFinding'[<<"refs", c>>] = rcFinding[<<"refs", c>>]
      /\ rcFinding'[<<"zero", c>>] = rcFinding[<<"zero", c>>]
      /\ rcFinding'[<<"size", c>>] = rcFinding[<<"size", c>>]
      /\ \A d \in RcContents, k \in {"refs", "zero", "missing", "size"} :
            d # c => rcFinding'[<<k, d>>] = rcFinding[<<k, d>>]
  BY <1>6, ContentKeys
<1>8. /\ b \in AttemptRows /\ b.at = "verdict" /\ b.scan = a.scan /\ b.cursor = a.cursor
      /\ b.items = a.items /\ b.last = a.last /\ b.more = a.more /\ b.saw = saw
  BY <1>1, <1>4 DEF AttemptRows, AttemptStates
<1> HIDE DEF b
<1>9. \A s \in RcScans : AttemptTrue(s, w) /\ Unmoved(s, c) =>
        a.saw = {rcRow[c].blob} /\ RowJudged(c) /\ rcRow[c].actual # 0
  BY <1>0, <1>c DEF AttemptTrue
<1>10. /\ RowJudged(c) => RowJudged(c)'
       /\ SizeJudged(c) => SizeJudged(c)'
       /\ CollectorWaits(c) => CollectorWaits(c)'
  BY <1>0, <1>7 DEF RowJudged, SizeJudged, CollectorWaits, OpenFinding
<1>11. a.saw = {rcRow[c].blob} => MissingJudged(c)'
  <2>1. rcRow[c].blob = "deleted" => rcRow[c] = NoRow
    BY DEF RcInv, RowsAndTimes
  <2> QED
    BY <1>0, <1>4, <1>6, <2>1 DEF MissingJudged, OpenFinding, IsMissing
<1>12. \A s \in RcScans : rcScan[s].alone /\ AttemptTrue(s, w) /\ Unmoved(s, c) =>
              /\ RowJudged(c) => RowJudged(c)'
              /\ MissingJudged(c) => MissingJudged(c)'
              /\ SizeJudged(c) => SizeJudged(c)'
              /\ RowJudged(c) /\ CollectorWaits(c) => CollectorWaits(c)'
              /\ RowJudged(c)'
              /\ b.at \in {"exists", "size", "verdict"} => rcRow[c].actual # 0
              /\ b.at = "collect" => rcRow[c].actual = 0
              /\ b.at \in {"size", "verdict"} => b.saw = {rcRow[c].blob}
              /\ b.at = "verdict" => MissingJudged(c)'
              /\ b.at = "done" => MissingJudged(c)' /\ SizeJudged(c)' /\ CollectorWaits(c)'
  BY <1>4, <1>8, <1>9, <1>10, <1>11
<1>13. /\ rcGc' \in [RcContents -> {"none", "pending", "succeeded"}]
       /\ \A d \in RcContents : d # c => rcGc'[d] = rcGc[d]
  BY <1>0, FindingTable
<1>14. /\ b.at \in {"collect", "exists", "size", "verdict", "done"} /\ rcWork' = [rcWork EXCEPT ![w] = b]
       /\ a.at \in {"row", "collect", "exists", "size", "verdict"}
  BY <1>0, <1>3, <1>8
<1>15. /\ rcFinding' \in [AllFindings -> FindingRows]
       /\ \A f \in AllFindings : rcFinding'[f].seen <= rcClock
       /\ \A d \in RcContents, k \in {"refs", "zero", "missing", "size"} :
             d # c => rcFinding'[<<k, d>>] = rcFinding[<<k, d>>]
  BY <1>6, <1>7
<1>16. /\ b \in AttemptRows /\ b.scan = a.scan /\ b.cursor = a.cursor
       /\ b.items = a.items /\ b.last = a.last /\ b.more = a.more
  BY <1>8
<1>17. UNCHANGED <<rcScope, rcObject, rcRow, rcDrift, rcClock, rcScan, rcPage>>
  BY <1>0
<1> QED
  BY <1>12, <1>13, <1>14, <1>15, <1>16, <1>17, <1>c, ContentAttemptWrites

LEMMA ApplySizeKeeps ==
    ASSUME RcInv, NEW w \in ScanWorkers, ApplySize(w), rcScope' = rcScope
    PROVE  RcInv'
<1> DEFINE a == rcWork[w]
           b == [a EXCEPT !.at = "done"]
<1>0. /\ a.at = "verdict" /\ rcWork' = [rcWork EXCEPT ![w] = b]
      /\ UNCHANGED <<rcScope, rcObject, rcRow, rcDrift, rcClock, rcScan, rcPage, rcGc>>
  BY DEF ApplySize, AttemptGoes, FindingsKept
<1>1. a \in AttemptRows /\ a.last \in RcContents /\ a.items = {a.last} /\ a.saw \in SUBSET Sights
  BY <1>0, ContentAttempt
<1>c. PICK c \in RcContents : c = a.last
  BY <1>1
<1>2. PICK blob \in a.saw :
        LET sized == Verdict(rcFinding, <<"size", c>>, blob = "short")
        IN rcFinding' = IF IsMissing(blob) THEN RecordFinding(sized, <<"missing", c>>) ELSE sized
  BY <1>1, <1>c DEF ApplySize
<1> DEFINE short == blob = "short"
           size == <<"size", c>>
           missing == <<"missing", c>>
           sized == Verdict(rcFinding, size, short)
<1>t. /\ rcFinding \in [AllFindings -> FindingRows] /\ rcClock \in Nat
      /\ \A g \in AllFindings : rcFinding[g].seen <= rcClock
  BY FindingTable
<1>k. size \in AllFindings /\ missing \in AllFindings /\ short \in BOOLEAN
  BY ContentKeys
<1>3. rcFinding' = IF IsMissing(blob) THEN Verdict(sized, missing, TRUE) ELSE sized
  BY <1>2 DEF Verdict
<1>4. /\ sized \in [AllFindings -> FindingRows]
      /\ \A g \in AllFindings : sized[g].seen <= rcClock
      /\ sized[size].open <=> short
      /\ \A g \in AllFindings : g # size => sized[g] = rcFinding[g]
  <2> HIDE DEF size, short
  <2> QED
    BY <1>t, <1>k, VerdictFacts
<1> HIDE DEF sized
<1>5. /\ rcFinding' \in [AllFindings -> FindingRows]
      /\ \A g \in AllFindings : rcFinding'[g].seen <= rcClock
      /\ IsMissing(blob) => rcFinding'[missing].open
      /\ ~IsMissing(blob) => rcFinding'[missing] = sized[missing]
      /\ \A g \in AllFindings : g # missing => rcFinding'[g] = sized[g]
  <2> HIDE DEF size, short, missing
  <2>1. CASE IsMissing(blob)
    <3>0. PICK holds \in BOOLEAN : holds = TRUE
      OBVIOUS
    <3> DEFINE after == Verdict(sized, missing, holds)
    <3>1. rcFinding' = after
      BY <1>3, <2>1, <3>0
    <3>t. /\ sized \in [AllFindings -> FindingRows] /\ rcClock \in Nat /\ missing \in AllFindings
          /\ \A g \in AllFindings : sized[g].seen <= rcClock
      BY <1>t, <1>k, <1>4
    <3>2. /\ after \in [AllFindings -> FindingRows]
          /\ \A g \in AllFindings : after[g].seen <= rcClock
          /\ after[missing].open <=> holds
          /\ \A g \in AllFindings : g # missing => after[g] = sized[g]
      BY <3>t, VerdictFacts
    <3> HIDE DEF after
    <3> QED
      BY <2>1, <3>0, <3>1, <3>2
  <2>2. CASE ~IsMissing(blob)
    BY <1>k, <1>3, <1>4, <2>2
  <2> QED
    BY <2>1, <2>2
<1>7. /\ rcFinding'[<<"refs", c>>] = rcFinding[<<"refs", c>>]
      /\ rcFinding'[<<"zero", c>>] = rcFinding[<<"zero", c>>]
      /\ rcFinding'[<<"size", c>>].open <=> blob = "short"
      /\ IsMissing(blob) => rcFinding'[<<"missing", c>>].open
      /\ ~IsMissing(blob) => rcFinding'[<<"missing", c>>] = rcFinding[<<"missing", c>>]
      /\ \A d \in RcContents, k \in {"refs", "zero", "missing", "size"} :
            d # c => rcFinding'[<<k, d>>] = rcFinding[<<k, d>>]
  BY <1>4, <1>5, <1>k, ContentKeys
<1>8. /\ b \in AttemptRows /\ b.at = "done" /\ b.scan = a.scan /\ b.cursor = a.cursor
      /\ b.items = a.items /\ b.last = a.last /\ b.more = a.more
  BY <1>1 DEF AttemptRows, AttemptStates
<1> HIDE DEF b, size, missing, short
<1>9. \A s \in RcScans : AttemptTrue(s, w) /\ Unmoved(s, c) =>
        blob = rcRow[c].blob /\ RowJudged(c) /\ rcRow[c].actual # 0 /\ MissingJudged(c)
  <2> SUFFICES ASSUME NEW s \in RcScans, AttemptTrue(s, w), Unmoved(s, c)
               PROVE  blob = rcRow[c].blob /\ RowJudged(c) /\ rcRow[c].actual # 0 /\ MissingJudged(c)
    OBVIOUS
  <2>1. a.saw = {rcRow[c].blob}
    BY <1>0, <1>c DEF AttemptTrue
  <2>2. RowJudged(c) /\ rcRow[c].actual # 0 /\ MissingJudged(c)
    BY <1>0, <1>c DEF AttemptTrue
  <2> QED
    BY <2>1, <2>2
<1>10. /\ RowJudged(c) => RowJudged(c)'
       /\ CollectorWaits(c) => CollectorWaits(c)'
       /\ RowJudged(c) /\ rcRow[c].actual # 0 => CollectorWaits(c)'
  BY <1>0, <1>7 DEF RowJudged, CollectorWaits, OpenFinding
<1>11. blob = rcRow[c].blob => SizeJudged(c)' /\ (MissingJudged(c) => MissingJudged(c)')
  <2>1. rcRow[c].blob = "deleted" => rcRow[c] = NoRow
    BY DEF RcInv, RowsAndTimes
  <2> QED
    BY <1>0, <1>7, <2>1 DEF MissingJudged, SizeJudged, OpenFinding, IsMissing
<1>12. \A s \in RcScans : rcScan[s].alone /\ AttemptTrue(s, w) /\ Unmoved(s, c) =>
              /\ RowJudged(c) => RowJudged(c)'
              /\ MissingJudged(c) => MissingJudged(c)'
              /\ SizeJudged(c) => SizeJudged(c)'
              /\ RowJudged(c) /\ CollectorWaits(c) => CollectorWaits(c)'
              /\ RowJudged(c)'
              /\ b.at \in {"exists", "size", "verdict"} => rcRow[c].actual # 0
              /\ b.at = "collect" => rcRow[c].actual = 0
              /\ b.at \in {"size", "verdict"} => b.saw = {rcRow[c].blob}
              /\ b.at = "verdict" => MissingJudged(c)'
              /\ b.at = "done" => MissingJudged(c)' /\ SizeJudged(c)' /\ CollectorWaits(c)'
  BY <1>8, <1>9, <1>10, <1>11
<1>13. /\ rcGc' \in [RcContents -> {"none", "pending", "succeeded"}]
       /\ \A d \in RcContents : d # c => rcGc'[d] = rcGc[d]
  BY <1>0, FindingTable
<1>14. /\ b.at \in {"collect", "exists", "size", "verdict", "done"} /\ rcWork' = [rcWork EXCEPT ![w] = b]
       /\ a.at \in {"row", "collect", "exists", "size", "verdict"}
  BY <1>0, <1>8
<1>15. /\ rcFinding' \in [AllFindings -> FindingRows]
       /\ \A f \in AllFindings : rcFinding'[f].seen <= rcClock
       /\ \A d \in RcContents, k \in {"refs", "zero", "missing", "size"} :
             d # c => rcFinding'[<<k, d>>] = rcFinding[<<k, d>>]
  BY <1>5, <1>7
<1>16. /\ b \in AttemptRows /\ b.scan = a.scan /\ b.cursor = a.cursor
       /\ b.items = a.items /\ b.last = a.last /\ b.more = a.more
  BY <1>8
<1>17. UNCHANGED <<rcScope, rcObject, rcRow, rcDrift, rcClock, rcScan, rcPage>>
  BY <1>0
<1> QED
  BY <1>12, <1>13, <1>14, <1>15, <1>16, <1>17, <1>c, ContentAttemptWrites

LEMMA ApplyUserKeeps ==
    ASSUME RcInv, NEW w \in ScanWorkers, ApplyUser(w), rcScope' = rcScope
    PROVE  RcInv'
<1> DEFINE a == rcWork[w]
           b == [a EXCEPT !.at = "done"]
           usedKey == <<"used", 0>>
           reservedKey == <<"reserved", 0>>
           drifts == "used" \in a.saw
           holds == "reserved" \in a.saw
           used == Verdict(rcFinding, usedKey, drifts)
<1>0. /\ a.at = "totals" /\ rcWork' = [rcWork EXCEPT ![w] = b]
      /\ rcFinding' = Verdict(used, reservedKey, holds)
      /\ UNCHANGED <<rcScope, rcObject, rcRow, rcDrift, rcClock, rcScan, rcPage, rcGc>>
  BY DEF ApplyUser, AttemptGoes, FindingsKept
<1>1. a \in AttemptRows /\ AttemptShape(w) /\ rcScope = "users" /\ a.scan \in RcScans /\ a.scan <= rcClock
      /\ ~a.more /\ a.last = 0
  BY <1>0, AttemptRow DEF AttemptShape
<1>t. /\ rcFinding \in [AllFindings -> FindingRows] /\ rcClock \in Nat
      /\ \A g \in AllFindings : rcFinding[g].seen <= rcClock
  BY FindingTable
<1>k. usedKey \in AllFindings /\ reservedKey \in AllFindings /\ usedKey # reservedKey
      /\ drifts \in BOOLEAN /\ holds \in BOOLEAN
  BY FindingKeys
<1>2. /\ used \in [AllFindings -> FindingRows]
      /\ \A g \in AllFindings : used[g].seen <= rcClock
      /\ used[usedKey].open <=> drifts
  <2> HIDE DEF usedKey, drifts
  <2> QED
    BY <1>t, <1>k, VerdictFacts
<1> HIDE DEF used
<1>3. /\ rcFinding' \in [AllFindings -> FindingRows]
      /\ \A g \in AllFindings : rcFinding'[g].seen <= rcClock
      /\ rcFinding'[reservedKey].open <=> holds
      /\ rcFinding'[usedKey].open <=> drifts
  <2> HIDE DEF usedKey, reservedKey, holds, drifts
  <2>1. /\ rcFinding' \in [AllFindings -> FindingRows]
        /\ \A g \in AllFindings : rcFinding'[g].seen <= rcClock
        /\ rcFinding'[reservedKey].open <=> holds
        /\ \A g \in AllFindings : g # reservedKey => rcFinding'[g] = used[g]
    BY <1>0, <1>2, <1>t, <1>k, VerdictFacts
  <2> QED
    BY <2>1, <1>2, <1>k
<1>4. /\ b \in AttemptRows /\ b.at = "done" /\ b.scan = a.scan /\ b.cursor = a.cursor
      /\ b.items = a.items /\ b.last = a.last /\ b.more = a.more /\ rcWork'[w] = b
  BY <1>0, <1>1, FindingTable DEF AttemptRows, AttemptStates
<1> HIDE DEF b
<1>5. AttemptShape(w)'
  BY <1>0, <1>1, <1>4 DEF AttemptShape, PastRead, AttemptStates
<1>6. a.saw = rcDrift => UserJudged'
  BY <1>0, <1>3 DEF UserJudged, OpenFinding
<1>7. ASSUME NEW s \in RcScans, rcScan[s].alone PROVE Keeps(s) /\ AttemptTrue(s, w)'
  <2>1. AttemptTrue(s, w)
    BY <1>7, AloneStarted DEF ScanTrue
  <2>2. Unmoved(s, 0) => UserJudged'
    BY <2>1, <1>0, <1>6 DEF AttemptTrue
  <2>3. Unmoved(s, 0)' <=> Unmoved(s, 0)
    BY <1>0 DEF Unmoved
  <2>4. Keeps(s)
    BY <1>0, <1>1, <2>2, <2>3 DEF Keeps
  <2>5. Complete(s)'
    BY <1>0, <1>1, <2>2, <2>3 DEF Complete, Covered
  <2>6. Present' = {}
    BY <1>0, <1>1 DEF Present
  <2>7. AttemptTrue(s, w)'
    BY <1>1, <1>4, <2>5, <2>6 DEF AttemptTrue
  <2> QED
    BY <2>4, <2>7
<1> QED
  BY <1>0, <1>3, <1>4, <1>5, <1>7, FindingTable, AttemptWrites

-----------------------------------------------------------------------------
(* Pages are claimed, finished and failed.                                 *)

LEMMA PageTable ==
    ASSUME RcInv
    PROVE  /\ rcPage \in [RcScans \X RcCursors -> {"none", "pending", "succeeded"} \cup ScanWorkers]
           /\ \A t \in RcScans, c \in RcCursors : rcPage[<<t, c>>] # "none" => t <= rcClock
           /\ \A w \in ScanWorkers : w \notin {"none", "pending", "succeeded"}
<1>1. \A t \in RcScans, c \in RcCursors : rcPage[<<t, c>>] # "none" => t <= rcClock
  BY DEF RcInv, ScansInOrder
<1>2. \A w \in ScanWorkers : w \notin {"none", "pending", "succeeded"}
  BY ReconciliationAssumption
<1> QED
  BY <1>1, <1>2 DEF RcInv, RcType

\* The jobs of the pages and the attempts on them change, nothing else does.
LEMMA PagesMove ==
    ASSUME RcInv, NEW w \in ScanWorkers, NEW b \in AttemptRows, rcWork' = [rcWork EXCEPT ![w] = b],
           UNCHANGED <<rcScope, rcObject, rcRow, rcDrift, rcFinding, rcClock, rcScan, rcGc>>,
           rcPage' \in [RcScans \X RcCursors -> {"none", "pending", "succeeded"} \cup ScanWorkers],
           \A t \in RcScans, c \in RcCursors :
              /\ rcPage[<<t, c>>] # "none" => rcPage'[<<t, c>>] # "none"
              /\ rcPage'[<<t, c>>] # "none" => t <= rcClock,
           AttemptShape(w)',
           \A s \in RcScans : rcScan[s].alone => PagesCovered(s)' /\ PagesLinked(s)' /\ AttemptTrue(s, w)'
    PROVE  RcInv'
<1>1. RcType' /\ RowsAndTimes'
  BY DEF RcInv, RcType, RowsAndTimes
<1>2. \A v \in ScanWorkers \ {w} : rcWork'[v] = rcWork[v]
  BY DEF RcInv, RcType
<1>3. ScansInOrder'
  <2> SUFFICES ASSUME NEW s \in RcScans
               PROVE  IF s <= rcClock THEN rcScan[s].start = s /\ rcPage'[<<s, 0>>] # "none"
                      ELSE ~rcScan[s].alone /\ \A c \in RcCursors : rcPage'[<<s, c>>] = "none"
    BY DEF ScansInOrder
  <2>1. IF s <= rcClock THEN rcScan[s].start = s /\ rcPage[<<s, 0>>] # "none"
        ELSE ~rcScan[s].alone
    BY DEF RcInv, ScansInOrder
  <2> QED
    BY <2>1, CursorFacts
<1>4. ASSUME NEW v \in ScanWorkers PROVE AttemptShape(v)'
  <2>1. CASE v = w
    BY <2>1
  <2>2. CASE v # w
    <3>1. AttemptShape(v) /\ rcWork'[v] = rcWork[v] /\ rcWork[v].cursor \in RcCursors
      BY <1>2, <2>2, AttemptRow
    <3> QED
      BY <3>1 DEF AttemptShape
  <2> QED
    BY <2>1, <2>2
<1>5. ASSUME NEW s \in RcScans, rcScan'[s].alone PROVE ScanTrue(s)'
  <2>1. rcScan[s].alone /\ s <= rcClock /\ ScanTrue(s) /\ Keeps(s)
    BY <1>5, AloneStarted, UnwrittenKeeps
  <2>2. NothingInvented(s)'
    BY <2>1, KeepsInvented DEF ScanTrue
  <2>3. ASSUME NEW v \in ScanWorkers PROVE AttemptTrue(s, v)'
    <3>1. CASE v = w
      BY <3>1, <2>1
    <3>2. CASE v # w
      <4>1. rcWork'[v] = rcWork[v] /\ AttemptShape(v) /\ AttemptTrue(s, v) /\ RcType
        BY <1>2, <3>2, <2>1 DEF RcInv, ScanTrue
      <4> QED
        BY <2>1, <4>1, KeepsAttempt
    <3> QED
      BY <3>1, <3>2
  <2> QED
    BY <2>1, <2>2, <2>3 DEF ScanTrue
<1> QED
  BY <1>1, <1>3, <1>4, <1>5 DEF RcInv

\* A page waits again, or is worked on again.
LEMMA PageHeld ==
    ASSUME RcInv, NEW w \in ScanWorkers, NEW b \in AttemptRows, rcWork' = [rcWork EXCEPT ![w] = b],
           UNCHANGED <<rcScope, rcObject, rcRow, rcDrift, rcFinding, rcClock, rcScan, rcGc>>,
           NEW u \in RcScans, NEW k \in RcCursors, rcPage[<<u, k>>] # "none",
           NEW status \in {"pending"} \cup ScanWorkers, rcPage' = [rcPage EXCEPT ![<<u, k>>] = status],
           b.at = "idle" \/ (b.at = "read" /\ b.scan = u /\ b.cursor = k),
           ~b.more, b.last = 0
    PROVE  RcInv'
<1>0. status \in {"none", "pending", "succeeded"} \cup ScanWorkers /\ status # "none" /\ status # "succeeded"
  BY PageTable
<1>1. /\ rcPage' \in [RcScans \X RcCursors -> {"none", "pending", "succeeded"} \cup ScanWorkers]
      /\ \A t \in RcScans, c \in RcCursors :
            rcPage'[<<t, c>>] = IF t = u /\ c = k THEN status ELSE rcPage[<<t, c>>]
  BY <1>0, PageTable
<1>2. \A t \in RcScans, c \in RcCursors :
        /\ rcPage'[<<t, c>>] # "none" <=> rcPage[<<t, c>>] # "none"
        /\ rcPage'[<<t, c>>] = "succeeded" => rcPage[<<t, c>>] = "succeeded"
  BY <1>0, <1>1
<1>3. \A t \in RcScans, c \in RcCursors :
        /\ rcPage[<<t, c>>] # "none" => rcPage'[<<t, c>>] # "none"
        /\ rcPage'[<<t, c>>] # "none" => t <= rcClock
  BY <1>2, PageTable
<1>4. rcWork'[w] = b
  BY FindingTable
<1>5. AttemptShape(w)'
  <2>1. u <= rcClock /\ rcPage'[<<u, k>>] # "none"
    BY <1>2, PageTable
  <2> QED
    BY <1>4, <2>1 DEF AttemptShape, PastRead
<1>6. ASSUME NEW s \in RcScans, rcScan[s].alone PROVE PagesCovered(s)' /\ PagesLinked(s)' /\ AttemptTrue(s, w)'
  <2>1. s <= rcClock /\ ScanTrue(s) /\ Keeps(s) /\ ScansInOrder
    BY <1>6, AloneStarted, UnwrittenKeeps DEF RcInv
  <2>2. PagesCovered(s) /\ PagesLinked(s)
    BY <2>1 DEF ScanTrue
  <2>3. PagesCovered(s)' /\ PagesLinked(s)'
    BY <1>2, <2>1, <2>2, KeepsPages
  <2>4. AttemptTrue(s, w)'
    BY <1>4 DEF AttemptTrue, PastRead
  <2> QED
    BY <2>3, <2>4
<1> QED
  BY <1>1, <1>3, <1>5, <1>6, PagesMove

LEMMA IdleAttemptFacts ==
    IdleAttempt \in AttemptRows /\ IdleAttempt.at = "idle" /\ ~IdleAttempt.more /\ IdleAttempt.last = 0
BY CursorFacts DEF IdleAttempt, AttemptRows, AttemptStates

LEMMA ClaimPageKeeps ==
    ASSUME RcInv, NEW w \in ScanWorkers, NEW u \in RcScans, NEW k \in RcCursors, ClaimPage(w, u, k),
           rcScope' = rcScope
    PROVE  RcInv'
<1> DEFINE b == [IdleAttempt EXCEPT !.scan = u, !.cursor = k, !.at = "read"]
<1>1. /\ rcPage' = [rcPage EXCEPT ![<<u, k>>] = w] /\ rcWork' = [rcWork EXCEPT ![w] = b]
      /\ UNCHANGED <<rcScope, rcObject, rcRow, rcDrift, rcFinding, rcClock, rcScan, rcGc>>
  BY DEF ClaimPage, AttemptGoes
<1>2. rcPage[<<u, k>>] = "pending" \/ rcPage[<<u, k>>] \in ScanWorkers
  BY DEF ClaimPage
<1>3. rcPage[<<u, k>>] # "none" /\ w \in {"pending"} \cup ScanWorkers
  BY <1>2, PageTable
<1>4. b \in AttemptRows /\ b.at = "read" /\ b.scan = u /\ b.cursor = k /\ ~b.more /\ b.last = 0
  <2>1. IdleAttempt \in AttemptRows /\ ~IdleAttempt.more /\ IdleAttempt.last = 0
    BY IdleAttemptFacts
  <2>2. u \in Nat
    BY DEF RcScans
  <2> QED
    BY <2>1, <2>2 DEF AttemptRows, AttemptStates
<1> HIDE DEF b
<1>5. PICK status \in {"pending"} \cup ScanWorkers : status = w
  BY <1>3
<1>6. rcPage' = [rcPage EXCEPT ![<<u, k>>] = status]
  BY <1>1, <1>5
<1>7. b.at = "idle" \/ (b.at = "read" /\ b.scan = u /\ b.cursor = k)
  BY <1>4
<1>8. b \in AttemptRows /\ ~b.more /\ b.last = 0 /\ rcPage[<<u, k>>] # "none"
  BY <1>3, <1>4
<1>9. /\ UNCHANGED <<rcScope, rcObject, rcRow, rcDrift, rcFinding, rcClock, rcScan, rcGc>>
      /\ rcWork' = [rcWork EXCEPT ![w] = b]
  BY <1>1
<1> QED
  BY <1>6, <1>7, <1>8, <1>9, PageHeld

LEMMA FailPageKeeps ==
    ASSUME RcInv, NEW w \in ScanWorkers, FailPage(w), rcScope' = rcScope
    PROVE  RcInv'
<1> DEFINE a == rcWork[w]
<1>1. /\ rcPage' = (IF rcPage[<<a.scan, a.cursor>>] = w
                    THEN [rcPage EXCEPT ![<<a.scan, a.cursor>>] = "pending"] ELSE rcPage)
      /\ rcWork' = [rcWork EXCEPT ![w] = IdleAttempt] /\ a.at # "idle"
      /\ UNCHANGED <<rcScope, rcObject, rcRow, rcDrift, rcFinding, rcClock, rcScan, rcGc>>
  BY DEF FailPage, AttemptGoes
<1>2. PICK u \in RcScans, k \in RcCursors : u = a.scan /\ k = a.cursor /\ rcPage[<<u, k>>] # "none"
  BY <1>1, AttemptRow DEF AttemptShape
<1>3. PICK b \in AttemptRows : b = IdleAttempt /\ b.at = "idle" /\ ~b.more /\ b.last = 0
  BY <1>2, IdleAttemptFacts
<1>4. rcWork' = [rcWork EXCEPT ![w] = b]
  BY <1>1, <1>3
<1>5. CASE rcPage[<<u, k>>] = w
  <2>0. PICK status \in {"pending"} \cup ScanWorkers : status = "pending"
    OBVIOUS
  <2>1. rcPage' = [rcPage EXCEPT ![<<u, k>>] = status]
    BY <1>1, <1>2, <1>5, <2>0
  <2>2. b.at = "idle" \/ (b.at = "read" /\ b.scan = u /\ b.cursor = k)
    BY <1>3
  <2>3. rcPage[<<u, k>>] # "none"
    BY <1>2
  <2>4. UNCHANGED <<rcScope, rcObject, rcRow, rcDrift, rcFinding, rcClock, rcScan, rcGc>>
    BY <1>1
  <2> QED
    BY <1>3, <1>4, <2>1, <2>2, <2>3, <2>4, PageHeld
<1>6. CASE rcPage[<<u, k>>] # w
  <2>1. rcPage' = rcPage
    BY <1>1, <1>2, <1>6
  <2>2. rcWork'[w] = b
    BY <1>4, FindingTable
  <2>3. AttemptShape(w)'
    BY <1>3, <2>2 DEF AttemptShape, PastRead
  <2>4. \A s \in RcScans : AttemptTrue(s, w)'
    BY <1>3, <2>2 DEF AttemptTrue, PastRead
  <2> QED
    BY <1>1, <1>4, <2>1, <2>3, <2>4, AttemptReads
<1> QED
  BY <1>5, <1>6

LEMMA FinishPageKeeps ==
    ASSUME RcInv, NEW w \in ScanWorkers, FinishPage(w), rcScope' = rcScope
    PROVE  RcInv'
<1> DEFINE a == rcWork[w]
<1>0. /\ a.at = "done" /\ rcWork' = [rcWork EXCEPT ![w] = IdleAttempt]
      /\ UNCHANGED <<rcScope, rcObject, rcRow, rcDrift, rcFinding, rcClock, rcScan, rcGc>>
  BY DEF FinishPage, AttemptGoes
<1>1. /\ a.scan \in RcScans /\ a.scan <= rcClock /\ a.cursor \in RcCursors /\ a.last \in RcCursors
      /\ rcPage[<<a.scan, a.cursor>>] # "none" /\ a.more \in BOOLEAN /\ (a.more => a.last > a.cursor)
  BY <1>0, AttemptRow DEF AttemptShape, PastRead, AttemptStates
<1>p. PICK u \in RcScans, k \in RcCursors, l \in RcCursors : u = a.scan /\ k = a.cursor /\ l = a.last
  BY <1>1
<1> DEFINE marked == IF rcPage[<<u, k>>] = w THEN [rcPage EXCEPT ![<<u, k>>] = "succeeded"] ELSE rcPage
<1>2. rcPage' = IF a.more /\ marked[<<u, l>>] = "none" THEN [marked EXCEPT ![<<u, l>>] = "pending"] ELSE marked
  BY <1>p DEF FinishPage
<1> DEFINE Status == {"none", "pending", "succeeded"} \cup ScanWorkers
<1>3. /\ marked \in [RcScans \X RcCursors -> Status]
      /\ \A t \in RcScans, c \in RcCursors :
            \/ marked[<<t, c>>] = rcPage[<<t, c>>]
            \/ t = u /\ c = k /\ marked[<<t, c>>] = "succeeded"
  <2>1. rcPage \in [RcScans \X RcCursors -> Status]
    BY PageTable
  <2>2. CASE rcPage[<<u, k>>] = w
    BY <2>1, <2>2
  <2>3. CASE rcPage[<<u, k>>] # w
    BY <2>1, <2>3
  <2> QED
    BY <2>2, <2>3
<1> HIDE DEF marked
<1>4. /\ rcPage' \in [RcScans \X RcCursors -> Status]
      /\ \A t \in RcScans, c \in RcCursors :
            \/ rcPage'[<<t, c>>] = marked[<<t, c>>] /\ ~(a.more /\ t = u /\ c = l /\ marked[<<t, c>>] = "none")
            \/ a.more /\ t = u /\ c = l /\ rcPage'[<<t, c>>] = "pending" /\ marked[<<t, c>>] = "none"
  <2>1. CASE a.more /\ marked[<<u, l>>] = "none"
    <3>1. rcPage' = [marked EXCEPT ![<<u, l>>] = "pending"]
      BY <1>2, <2>1
    <3> QED
      BY <1>3, <2>1, <3>1
  <2>2. CASE ~(a.more /\ marked[<<u, l>>] = "none")
    <3>1. rcPage' = marked
      BY <1>2, <2>2
    <3> QED
      BY <1>3, <2>2, <3>1
  <2> QED
    BY <2>1, <2>2
<1>5. \A t \in RcScans, c \in RcCursors :
        /\ rcPage[<<t, c>>] # "none" => rcPage'[<<t, c>>] # "none"
        /\ rcPage'[<<t, c>>] # "none" => rcPage[<<t, c>>] # "none" \/ (a.more /\ t = u /\ c = l)
        /\ rcPage'[<<t, c>>] = "succeeded" => rcPage[<<t, c>>] = "succeeded" \/ (t = u /\ c = k)
        /\ a.more => rcPage'[<<u, l>>] # "none"
  <2>0. rcPage[<<u, k>>] # "none"
    BY <1>1, <1>p
  <2>1. ASSUME NEW t \in RcScans, NEW c \in RcCursors
        PROVE  /\ rcPage[<<t, c>>] # "none" => rcPage'[<<t, c>>] # "none"
               /\ rcPage'[<<t, c>>] # "none" => rcPage[<<t, c>>] # "none" \/ (a.more /\ t = u /\ c = l)
               /\ rcPage'[<<t, c>>] = "succeeded" => rcPage[<<t, c>>] = "succeeded" \/ (t = u /\ c = k)
    <3>1. \/ marked[<<t, c>>] = rcPage[<<t, c>>]
          \/ t = u /\ c = k /\ marked[<<t, c>>] = "succeeded"
      BY <1>3
    <3>2. \/ rcPage'[<<t, c>>] = marked[<<t, c>>]
          \/ a.more /\ t = u /\ c = l /\ rcPage'[<<t, c>>] = "pending" /\ marked[<<t, c>>] = "none"
      BY <1>4
    <3> QED
      BY <2>0, <3>1, <3>2
  <2>2. a.more => rcPage'[<<u, l>>] # "none"
    BY <1>4
  <2> QED
    BY <2>1, <2>2
<1> HIDE DEF Status
<1>6. \A t \in RcScans, c \in RcCursors :
        /\ rcPage[<<t, c>>] # "none" => rcPage'[<<t, c>>] # "none"
        /\ rcPage'[<<t, c>>] # "none" => t <= rcClock
  <2>1. \A t \in RcScans, c \in RcCursors : rcPage[<<t, c>>] # "none" => t <= rcClock
    BY PageTable
  <2>2. u <= rcClock
    BY <1>1, <1>p
  <2> QED
    BY <1>5, <2>1, <2>2
<1>7. PICK b \in AttemptRows : b = IdleAttempt /\ b.at = "idle" /\ ~b.more /\ b.last = 0
  BY IdleAttemptFacts
<1>8. rcWork' = [rcWork EXCEPT ![w] = b] /\ rcWork'[w] = b
  BY <1>0, <1>7, FindingTable
<1>9. AttemptShape(w)'
  BY <1>7, <1>8 DEF AttemptShape, PastRead
<1>10. ASSUME NEW s \in RcScans, rcScan[s].alone PROVE PagesCovered(s)' /\ PagesLinked(s)' /\ AttemptTrue(s, w)'
  <2>1. s <= rcClock /\ ScanTrue(s) /\ AttemptTrue(s, w) /\ PagesCovered(s) /\ PagesLinked(s) /\ Keeps(s)
    BY <1>0, <1>10, AloneStarted, UnwrittenKeeps DEF ScanTrue
  <2>2. AttemptTrue(s, w)'
    BY <1>7, <1>8 DEF AttemptTrue, PastRead
  <2>3. ASSUME a.more, s <= u PROVE \A r \in 1..l : Unmoved(s, r) => Covered(u, r)
    <3>1. \A r \in Present : Unmoved(s, r) /\ r > k /\ r # l => r > l
      BY <2>1, <1>0, <1>p DEF AttemptTrue, PastRead, AttemptStates
    <3>2. \A r \in Present \cap (1..l) : Unmoved(s, r) /\ r > k => r = l
      <4> SUFFICES ASSUME NEW r \in Present, r \in 1..l, Unmoved(s, r), r > k, r # l PROVE FALSE
        OBVIOUS
      <4>1. r > l /\ r <= l /\ r \in Nat /\ l \in Nat
        BY <3>1, CursorFacts
      <4> QED
        BY <4>1
    <3>3. l # 0 /\ Unmoved(s, l) => Covered(u, l)
      BY <2>1, <2>3, <1>0, <1>p DEF AttemptTrue
    <3>4. RcType /\ rcPage[<<u, k>>] # "none" /\ 1..l \in SUBSET Nat
      BY <1>1, <1>p DEF RcInv
    <3>5. PICK R \in SUBSET Nat : R = 1..l
      BY <3>4
    <3>6. \A r \in Present \cap R : Unmoved(s, r) /\ r > k => r = l
      BY <3>2, <3>5
    <3>7. \A r \in R : Unmoved(s, r) => Covered(u, r)
      BY <2>1, <2>3, <3>3, <3>4, <3>6, NothingLeftOut
    <3> QED
      BY <3>5, <3>7
  <2>4. PagesCovered(s)'
    <3> SUFFICES ASSUME NEW t \in RcScans, NEW c \in RcCursors, s <= t, rcPage'[<<t, c>>] # "none",
                        NEW r \in 1..c, Unmoved(s, r)'
                 PROVE  Covered(t, r)'
      BY DEF PagesCovered
    <3>1. Unmoved(s, r) /\ t <= rcClock
      BY <1>0, <1>6, <2>1, StillUnmoved
    <3>2. Covered(t, r)
      <4>1. CASE rcPage[<<t, c>>] # "none"
        BY <4>1, <2>1, <3>1 DEF PagesCovered
      <4>2. CASE a.more /\ t = u /\ c = l
        BY <4>2, <2>3, <3>1
      <4> QED
        BY <1>5, <4>1, <4>2
    <3> QED
      BY <1>0, <2>1, <3>1, <3>2, KeepsCovered
  <2>5. PagesLinked(s)'
    <3> SUFFICES ASSUME NEW c \in RcCursors, rcPage'[<<s, c>>] = "succeeded"
                 PROVE  Complete(s)' \/ \E d \in RcCursors : d > c /\ rcPage'[<<s, d>>] # "none"
      BY DEF PagesLinked
    <3>1. Complete(s) => Complete(s)'
      BY <1>0, <2>1, KeepsComplete
    <3>2. CASE rcPage[<<s, c>>] = "succeeded"
      BY <1>5, <2>1, <3>1, <3>2 DEF PagesLinked
    <3>3. CASE s = u /\ c = k
      <4>1. CASE a.more
        BY <4>1, <3>3, <1>1, <1>5, <1>p
      <4>2. CASE ~a.more
        BY <4>2, <3>1, <3>3, <2>1, <1>0, <1>p DEF AttemptTrue
      <4> QED
        BY <4>1, <4>2
    <3> QED
      BY <1>5, <3>2, <3>3
  <2> QED
    BY <2>2, <2>4, <2>5
<1>11. rcPage' \in [RcScans \X RcCursors -> {"none", "pending", "succeeded"} \cup ScanWorkers]
  BY <1>4 DEF Status
<1> QED
  BY <1>0, <1>6, <1>8, <1>9, <1>10, <1>11, PagesMove

-----------------------------------------------------------------------------
(* The world moves and scans are armed.                                    *)

\* A step that moves no attempt.
LEMMA BehindTheScans ==
    ASSUME RcInv, UNCHANGED <<rcScope, rcClock, rcWork>>, RcType', RowsAndTimes',
           \A s \in RcScans : rcScan'[s].start = rcScan[s].start /\ (rcScan'[s].alone => rcScan[s].alone),
           \A t \in RcScans, c \in RcCursors :
              /\ rcPage'[<<t, c>>] # "none" <=> rcPage[<<t, c>>] # "none"
              /\ rcPage'[<<t, c>>] = "succeeded" => rcPage[<<t, c>>] = "succeeded",
           \A s \in RcScans : rcScan[s].alone => Keeps(s)
    PROVE  RcInv'
<1>1. ScansInOrder'
  <2> SUFFICES ASSUME NEW s \in RcScans
               PROVE  IF s <= rcClock THEN rcScan'[s].start = s /\ rcPage'[<<s, 0>>] # "none"
                      ELSE ~rcScan'[s].alone /\ \A c \in RcCursors : rcPage'[<<s, c>>] = "none"
    BY DEF ScansInOrder
  <2>1. IF s <= rcClock THEN rcScan[s].start = s /\ rcPage[<<s, 0>>] # "none"
        ELSE ~rcScan[s].alone /\ \A c \in RcCursors : rcPage[<<s, c>>] = "none"
    BY DEF RcInv, ScansInOrder
  <2> QED
    BY <2>1, CursorFacts
<1>2. ASSUME NEW v \in ScanWorkers PROVE AttemptShape(v)'
  <2>1. AttemptShape(v) /\ rcWork[v].cursor \in RcCursors
    BY AttemptRow
  <2> QED
    BY <2>1 DEF AttemptShape
<1>3. ASSUME NEW s \in RcScans, rcScan'[s].alone PROVE ScanTrue(s)'
  <2>1. rcScan[s].alone /\ s <= rcClock /\ ScanTrue(s) /\ Keeps(s) /\ ScansInOrder /\ RcType
    BY <1>3, AloneStarted DEF RcInv
  <2>2. PagesCovered(s) /\ PagesLinked(s)
    BY <2>1 DEF ScanTrue
  <2>3. PagesCovered(s)' /\ PagesLinked(s)'
    BY <2>1, <2>2, KeepsPages
  <2>4. NothingInvented(s)'
    BY <2>1, KeepsInvented DEF ScanTrue
  <2>5. ASSUME NEW v \in ScanWorkers PROVE AttemptTrue(s, v)'
    <3>1. rcWork'[v] = rcWork[v] /\ AttemptShape(v) /\ AttemptTrue(s, v)
      BY <2>1 DEF RcInv, ScanTrue
    <3> QED
      BY <2>1, <3>1, KeepsAttempt
  <2> QED
    BY <2>3, <2>4, <2>5 DEF ScanTrue
<1> QED
  BY <1>1, <1>2, <1>3 DEF RcInv

LEMMA DisturbedFacts ==
    ASSUME RcInv, NEW kind, NEW r, rcScope' = rcScope, rcScan' = Disturbed(kind, r)
    PROVE  /\ rcScan' \in [RcScans -> [start : Nat, alone : BOOLEAN, fresh : BOOLEAN,
                                       steady : SUBSET ({rcScope} \X Nat)]]
           /\ \A s \in RcScans :
                /\ rcScan'[s].start = rcScan[s].start /\ (rcScan'[s].alone => rcScan[s].alone)
                /\ rcScan'[s].steady \subseteq rcScan[s].steady /\ <<kind, r>> \notin rcScan'[s].steady
<1> DEFINE ScanRows == [start : Nat, alone : BOOLEAN, fresh : BOOLEAN, steady : SUBSET ({rcScope} \X Nat)]
<1>1. rcScan \in [RcScans -> ScanRows]
  BY DEF RcInv, RcType
<1>2. ASSUME NEW s \in RcScans
      PROVE  LET row == [rcScan[s] EXCEPT !.steady = @ \ {<<kind, r>>}]
             IN /\ row \in ScanRows /\ row.start = rcScan[s].start /\ row.alone = rcScan[s].alone
                /\ row.steady \subseteq rcScan[s].steady /\ <<kind, r>> \notin row.steady
  <2>1. rcScan[s] \in ScanRows
    BY <1>1
  <2>2. PICK left : left = rcScan[s].steady \ {<<kind, r>>}
    OBVIOUS
  <2>3. left \in SUBSET ({rcScope} \X Nat) /\ left \subseteq rcScan[s].steady /\ <<kind, r>> \notin left
    BY <2>1, <2>2
  <2>4. LET row == [rcScan[s] EXCEPT !.steady = left]
        IN row \in ScanRows /\ row.start = rcScan[s].start /\ row.alone = rcScan[s].alone /\ row.steady = left
    BY <2>1, <2>3
  <2> QED
    BY <2>2, <2>3, <2>4
<1>3. \A s \in RcScans : rcScan'[s] = [rcScan[s] EXCEPT !.steady = @ \ {<<kind, r>>}]
  BY DEF Disturbed
<1>4. rcScan' = [s \in RcScans |-> [rcScan[s] EXCEPT !.steady = @ \ {<<kind, r>>}]]
  BY DEF Disturbed
<1>5. rcScan' \in [RcScans -> ScanRows]
  BY <1>2, <1>4
<1> QED
  BY <1>2, <1>3, <1>5

\* Nothing is written of the resources but those that were disturbed.
LEMMA ObjectMovesKeeps ==
    ASSUME RcInv, NEW o \in RcObjects, ObjectMoves(o), rcScope' = rcScope
    PROVE  RcInv'
<1>1. /\ rcScope = "objects" /\ rcScan' = Disturbed("objects", o)
      /\ UNCHANGED <<rcScope, rcRow, rcDrift, rcFinding, rcClock, rcPage, rcWork, rcGc>>
  BY DEF ObjectMoves, WorldMoves
<1>2. PICK after \in {"absent", "orphan", "referenced"} : rcObject' = [rcObject EXCEPT ![o] = after]
  <2>1. PICK after \in (CASE rcObject[o] = "orphan" -> {"absent", "referenced"} [] OTHER -> {"orphan"}) :
           rcObject' = [rcObject EXCEPT ![o] = after]
    BY DEF ObjectMoves
  <2>2. after \in {"absent", "orphan", "referenced"}
    BY <2>1
  <2> QED
    BY <2>1, <2>2
<1>3. RcType' /\ RowsAndTimes'
  BY <1>1, <1>2, DisturbedFacts DEF RcInv, RcType, RowsAndTimes
<1>4. ASSUME NEW s \in RcScans PROVE Keeps(s)
  <2>1. rcScan'[s].steady \subseteq rcScan[s].steady /\ <<"objects", o>> \notin rcScan'[s].steady
    BY <1>1, DisturbedFacts
  <2>2. \A q \in RcObjects : Unmoved(s, q)' => rcObject'[q] = rcObject[q]
    <3>1. \A q \in RcObjects : q # o => rcObject'[q] = rcObject[q]
      BY <1>2 DEF RcInv, RcType
    <3> QED
      BY <1>1, <2>1, <3>1 DEF Unmoved
  <2> QED
    BY <1>1, <2>1, <2>2 DEF Keeps, OpenFinding
<1>5. \A s \in RcScans : rcScan'[s].start = rcScan[s].start /\ (rcScan'[s].alone => rcScan[s].alone)
  BY <1>1, DisturbedFacts
<1> QED
  BY <1>1, <1>3, <1>4, <1>5, BehindTheScans

LEMMA ContentMovesKeeps ==
    ASSUME RcInv, NEW c \in RcContents, ContentMoves(c), rcScope' = rcScope
    PROVE  RcInv'
<1>1. /\ rcScope = "contents" /\ rcScan' = Disturbed("contents", c) /\ rcRow[c] # NoRow
      /\ UNCHANGED <<rcScope, rcObject, rcDrift, rcFinding, rcClock, rcPage, rcWork, rcGc>>
  BY DEF ContentMoves, WorldMoves
<1>2. rcRow[c] \in RcRows /\ rcRow[c].blob # "deleted" /\ rcRow \in [RcContents -> RcRows]
  BY <1>1 DEF RcInv, RcType, RowsAndTimes
<1>3. PICK after \in RcRows : rcRow' = [rcRow EXCEPT ![c] = after] /\ after.blob # "deleted"
  <2>1. PICK after \in {Row(0, 0, rcRow[c].blob), Row(1, 0, rcRow[c].blob)}
                    \cup {[rcRow[c] EXCEPT !.blob = b] : b \in {"gone", "short", "whole"}} :
           rcRow' = [rcRow EXCEPT ![c] = after]
    BY DEF ContentMoves
  <2>2. after \in RcRows /\ after.blob # "deleted"
    <3>1. CASE after \in {Row(0, 0, rcRow[c].blob), Row(1, 0, rcRow[c].blob)}
      BY <3>1, <1>2 DEF Row, RcRows
    <3>2. CASE after \in {[rcRow[c] EXCEPT !.blob = b] : b \in {"gone", "short", "whole"}}
      BY <3>2, <1>2 DEF RcRows
    <3> QED
      BY <2>1, <3>1, <3>2
  <2> QED
    BY <2>1, <2>2
<1>4. RcType' /\ RowsAndTimes'
  <2>1. \A d \in RcContents : rcRow'[d] = IF d = c THEN after ELSE rcRow[d]
    BY <1>2, <1>3
  <2>2. RowsAndTimes'
    BY <1>1, <1>3, <2>1 DEF RcInv, RowsAndTimes
  <2>3. RcType'
    BY <1>1, <1>3, DisturbedFacts DEF RcInv, RcType
  <2> QED
    BY <2>2, <2>3
<1>5. ASSUME NEW s \in RcScans PROVE Keeps(s)
  <2>1. rcScan'[s].steady \subseteq rcScan[s].steady /\ <<"contents", c>> \notin rcScan'[s].steady
    BY <1>1, DisturbedFacts
  <2>2. \A d \in RcContents : Unmoved(s, d)' => rcRow'[d] = rcRow[d]
    <3>1. \A d \in RcContents : d # c => rcRow'[d] = rcRow[d]
      BY <1>2, <1>3
    <3> QED
      BY <1>1, <2>1, <3>1 DEF Unmoved
  <2> QED
    BY <1>1, <2>1, <2>2 DEF Keeps, OpenFinding, RowJudged, MissingJudged, SizeJudged, CollectorWaits
<1>6. \A s \in RcScans : rcScan'[s].start = rcScan[s].start /\ (rcScan'[s].alone => rcScan[s].alone)
  BY <1>1, DisturbedFacts
<1> QED
  BY <1>1, <1>4, <1>5, <1>6, BehindTheScans

LEMMA UserMovesKeeps ==
    ASSUME RcInv, UserMoves, rcScope' = rcScope
    PROVE  RcInv'
<1>1. /\ rcScope = "users" /\ rcScan' = Disturbed("users", 0) /\ rcDrift' \in SUBSET {"used", "reserved"}
      /\ UNCHANGED <<rcScope, rcObject, rcRow, rcFinding, rcClock, rcPage, rcWork, rcGc>>
  BY DEF UserMoves, WorldMoves
<1>2. RcType' /\ RowsAndTimes'
  BY <1>1, DisturbedFacts DEF RcInv, RcType, RowsAndTimes
<1>3. ASSUME NEW s \in RcScans PROVE Keeps(s)
  <2>1. rcScan'[s].steady \subseteq rcScan[s].steady /\ <<"users", 0>> \notin rcScan'[s].steady
    BY <1>1, DisturbedFacts
  <2> QED
    BY <1>1, <2>1 DEF Keeps, Unmoved
<1>4. \A s \in RcScans : rcScan'[s].start = rcScan[s].start /\ (rcScan'[s].alone => rcScan[s].alone)
  BY <1>1, DisturbedFacts
<1> QED
  BY <1>1, <1>2, <1>3, <1>4, BehindTheScans

LEMMA ExecuteBlobGcKeeps ==
    ASSUME RcInv, NEW c \in RcContents, ExecuteBlobGc(c), rcScope' = rcScope
    PROVE  RcInv'
<1> DEFINE zero == <<"zero", c>>
           holds == FALSE
<1>1. /\ rcGc' = [rcGc EXCEPT ![c] = "succeeded"] /\ rcFinding' = ResolveFinding(rcFinding, zero)
      /\ UNCHANGED <<rcScope, rcObject, rcDrift, rcClock, rcPage, rcWork>>
  BY DEF ExecuteBlobGc
<1>t. /\ rcFinding \in [AllFindings -> FindingRows] /\ rcClock \in Nat
      /\ \A g \in AllFindings : rcFinding[g].seen <= rcClock
  BY FindingTable
<1>2. /\ rcFinding' \in [AllFindings -> FindingRows]
      /\ \A g \in AllFindings : rcFinding'[g].seen <= rcClock
      /\ ~rcFinding'[zero].open
      /\ \A g \in AllFindings : g # zero => rcFinding'[g] = rcFinding[g]
  <2>1. rcFinding' = Verdict(rcFinding, zero, holds) /\ zero \in AllFindings /\ holds \in BOOLEAN
    BY <1>1, ContentKeys DEF Verdict
  <2>h. PICK no \in BOOLEAN : no = holds /\ ~no
    BY <2>1
  <2>2. rcFinding' = Verdict(rcFinding, zero, no) /\ zero \in AllFindings
    BY <2>1, <2>h
  <2> HIDE DEF zero, holds
  <2>3. /\ rcFinding' \in [AllFindings -> FindingRows]
        /\ \A g \in AllFindings : rcFinding'[g].seen <= rcClock
        /\ rcFinding'[zero].open <=> no
        /\ \A g \in AllFindings : g # zero => rcFinding'[g] = rcFinding[g]
    BY <1>t, <2>2, VerdictFacts
  <2> QED
    BY <2>3, <2>h
<1>3. /\ rcGc' \in [RcContents -> {"none", "pending", "succeeded"}]
      /\ \A d \in RcContents : d # c => rcGc'[d] = rcGc[d]
  BY <1>1, FindingTable
<1>4. \A o \in RcObjects : rcFinding'[<<"orphan", o>>] = rcFinding[<<"orphan", o>>]
  BY <1>2, FindingKeys
<1>5. \A k \in {"used", "reserved"} : rcFinding'[<<k, 0>>] = rcFinding[<<k, 0>>]
  BY <1>2, FindingKeys
<1>6. \A d \in RcContents, k \in {"refs", "zero", "missing", "size"} :
         d # c \/ k # "zero" => rcFinding'[<<k, d>>] = rcFinding[<<k, d>>]
  BY <1>2, FindingKeys
<1>7. /\ rcRow' \in [RcContents -> RcRows]
      /\ \A d \in RcContents : rcRow'[d].blob = "deleted" => rcRow'[d] = NoRow
      /\ \A d \in RcContents : d # c => rcRow'[d] = rcRow[d]
      /\ rcScan' = Disturbed("contents", c) \/
            (rcScan' = rcScan /\ rcRow' = rcRow /\ ~(rcRow[c].stored = 0 /\ rcRow[c].actual = 0))
  <2>1. NoRow \in RcRows
    BY DEF NoRow, Row, RcRows
  <2>2. rcRow \in [RcContents -> RcRows] /\ \A d \in RcContents : rcRow[d].blob = "deleted" => rcRow[d] = NoRow
    BY DEF RcInv, RcType, RowsAndTimes
  <2>3. CASE rcRow[c].stored = 0 /\ rcRow[c].actual = 0
    <3>1. rcRow' = [rcRow EXCEPT ![c] = NoRow] /\ rcScan' = Disturbed("contents", c)
      BY <2>3 DEF ExecuteBlobGc
    <3> QED
      BY <2>1, <2>2, <3>1
  <2>4. CASE ~(rcRow[c].stored = 0 /\ rcRow[c].actual = 0)
    <3>1. UNCHANGED <<rcRow, rcScan>>
      BY <2>4 DEF ExecuteBlobGc
    <3> QED
      BY <2>2, <2>4, <3>1
  <2> QED
    BY <2>3, <2>4
<1>8. /\ rcScan' \in [RcScans -> [start : Nat, alone : BOOLEAN, fresh : BOOLEAN,
                                  steady : SUBSET ({rcScope} \X Nat)]]
      /\ \A s \in RcScans :
           /\ rcScan'[s].start = rcScan[s].start /\ (rcScan'[s].alone => rcScan[s].alone)
           /\ rcScan'[s].steady \subseteq rcScan[s].steady
           /\ <<"contents", c>> \notin rcScan'[s].steady
                \/ (rcRow' = rcRow /\ ~(rcRow[c].stored = 0 /\ rcRow[c].actual = 0))
  <2>1. CASE rcScan' = Disturbed("contents", c)
    BY <2>1, DisturbedFacts
  <2>2. CASE rcScan' = rcScan /\ rcRow' = rcRow /\ ~(rcRow[c].stored = 0 /\ rcRow[c].actual = 0)
    BY <2>2 DEF RcInv, RcType
  <2> QED
    BY <1>7, <2>1, <2>2
<1>9. RcType' /\ RowsAndTimes'
  <2>1. RcType'
    BY <1>1, <1>2, <1>3, <1>7, <1>8 DEF RcInv, RcType, FindingRows
  <2>2. RowsAndTimes'
    BY <1>1, <1>2, <1>7 DEF RcInv, RowsAndTimes
  <2> QED
    BY <2>1, <2>2
<1>10. ASSUME NEW s \in RcScans PROVE Keeps(s)
  <2>1. rcScan'[s].steady \subseteq rcScan[s].steady
    BY <1>8
  <2>2. rcScope = "objects" => \A o \in RcObjects : OpenFinding("orphan", o)' <=> OpenFinding("orphan", o)
    BY <1>4 DEF OpenFinding
  <2>3. UserJudged' <=> UserJudged
    BY <1>1, <1>5 DEF UserJudged, OpenFinding
  <2>4. ASSUME rcScope = "contents", NEW d \in RcContents, Unmoved(s, d)'
        PROVE  /\ rcRow'[d] = rcRow[d]
               /\ RowJudged(d) => RowJudged(d)'
               /\ MissingJudged(d) => MissingJudged(d)'
               /\ SizeJudged(d) => SizeJudged(d)'
               /\ RowJudged(d) /\ CollectorWaits(d) => CollectorWaits(d)'
    <3>1. CASE d # c
      <4>1. \A k \in {"refs", "zero", "missing", "size"} : rcFinding'[<<k, d>>] = rcFinding[<<k, d>>]
        BY <1>6, <3>1
      <4>2. rcRow'[d] = rcRow[d] /\ rcGc'[d] = rcGc[d]
        BY <1>3, <1>7, <3>1
      <4> QED
        BY <4>1, <4>2 DEF RowJudged, MissingJudged, SizeJudged, CollectorWaits, OpenFinding
    <3>2. CASE d = c
      <4>1. rcRow' = rcRow /\ ~(rcRow[c].stored = 0 /\ rcRow[c].actual = 0)
        BY <1>1, <1>8, <2>4, <3>2 DEF Unmoved
      <4>2. /\ rcFinding'[<<"refs", c>>] = rcFinding[<<"refs", c>>] /\ ~rcFinding'[<<"zero", c>>].open
            /\ rcFinding'[<<"missing", c>>] = rcFinding[<<"missing", c>>]
            /\ rcFinding'[<<"size", c>>] = rcFinding[<<"size", c>>]
        BY <1>2, <1>6
      <4> QED
        BY <3>2, <4>1, <4>2 DEF RowJudged, MissingJudged, SizeJudged, CollectorWaits, OpenFinding
    <3> QED
      BY <3>1, <3>2
  <2> QED
    BY <1>1, <1>4, <2>1, <2>2, <2>3, <2>4 DEF Keeps
<1>11. \A s \in RcScans : rcScan'[s].start = rcScan[s].start /\ (rcScan'[s].alone => rcScan[s].alone)
  BY <1>8
<1> QED
  BY <1>1, <1>9, <1>10, <1>11, BehindTheScans

\* Armed again: the page waits, what it wrote stays, and it no longer counts
\* as fresh.
LEMMA TriggerStagingReconciliationKeeps ==
    ASSUME RcInv, NEW u \in RcScans, TriggerStagingReconciliation(u), rcScope' = rcScope
    PROVE  RcInv'
<1> DEFINE ScanRows == [start : Nat, alone : BOOLEAN, fresh : BOOLEAN, steady : SUBSET ({rcScope} \X Nat)]
<1>1. /\ rcPage[<<u, 0>>] = "succeeded" /\ rcPage' = [rcPage EXCEPT ![<<u, 0>>] = "pending"]
      /\ rcScan' = [t \in RcScans |->
             IF t = u THEN [rcScan[t] EXCEPT !.fresh = FALSE]
             ELSE IF Running(t) THEN [rcScan[t] EXCEPT !.alone = FALSE] ELSE rcScan[t]]
      /\ UNCHANGED <<rcScope, rcObject, rcRow, rcDrift, rcFinding, rcClock, rcWork, rcGc>>
  BY DEF TriggerStagingReconciliation
<1>2. rcScan \in [RcScans -> ScanRows]
  BY DEF RcInv, RcType
<1>3. ASSUME NEW t \in RcScans
      PROVE  /\ rcScan'[t] \in ScanRows /\ rcScan'[t].start = rcScan[t].start
             /\ rcScan'[t].alone => rcScan[t].alone
             /\ rcScan'[t].steady = rcScan[t].steady
  <2>1. rcScan[t] \in ScanRows
    BY <1>2
  <2>2. \/ rcScan'[t] = [rcScan[t] EXCEPT !.fresh = FALSE]
        \/ rcScan'[t] = [rcScan[t] EXCEPT !.alone = FALSE]
        \/ rcScan'[t] = rcScan[t]
    BY <1>1
  <2> QED
    BY <2>1, <2>2
<1>4. rcScan' \in [RcScans -> ScanRows]
  <2>1. DOMAIN rcScan' = RcScans /\ rcScan' = [t \in RcScans |-> rcScan'[t]]
    BY <1>1
  <2> QED
    BY <1>3, <2>1
<1>5. /\ rcPage' \in [RcScans \X RcCursors -> {"none", "pending", "succeeded"} \cup ScanWorkers]
      /\ \A t \in RcScans, c \in RcCursors :
           /\ rcPage'[<<t, c>>] # "none" <=> rcPage[<<t, c>>] # "none"
           /\ rcPage'[<<t, c>>] = "succeeded" => rcPage[<<t, c>>] = "succeeded"
  <2>1. /\ rcPage \in [RcScans \X RcCursors -> {"none", "pending", "succeeded"} \cup ScanWorkers]
        /\ 0 \in RcCursors
    BY PageTable, CursorFacts
  <2> QED
    BY <1>1, <2>1
<1>6. RcType' /\ RowsAndTimes'
  BY <1>1, <1>4, <1>5 DEF RcInv, RcType, RowsAndTimes
<1>7. ASSUME NEW s \in RcScans PROVE Keeps(s)
  BY <1>1, <1>3 DEF Keeps, Unmoved, OpenFinding, RowJudged, MissingJudged, SizeJudged, CollectorWaits, UserJudged
<1> QED
  BY <1>1, <1>3, <1>5, <1>6, <1>7, BehindTheScans

\* A scan begins: nothing is known of it, and if nobody else is at work
\* nothing older will be written.
LEMMA EnqueueReconciliationKeeps ==
    ASSUME RcInv, EnqueueReconciliation, rcScope' = rcScope
    PROVE  RcInv'
<1> DEFINE ScanRows == [start : Nat, alone : BOOLEAN, fresh : BOOLEAN, steady : SUBSET ({rcScope} \X Nat)]
           others == {t \in RcScans : Running(t)}
<1>t. RcType /\ rcClock \in Nat /\ 0 \in RcCursors /\ RcScans \subseteq Nat
  BY CursorFacts DEF RcInv, RcType, RcScans
<1>u. PICK u \in RcScans : u = rcClock + 1
  BY DEF EnqueueReconciliation
<1> DEFINE new == [start |-> u, alone |-> others = {}, fresh |-> TRUE, steady |-> Everything]
<1>1. /\ rcClock' = u /\ rcPage' = [rcPage EXCEPT ![<<u, 0>>] = "pending"]
      /\ rcScan' = [t \in RcScans |->
             CASE t = u -> new
               [] t \in others -> [rcScan[t] EXCEPT !.alone = FALSE]
               [] OTHER -> rcScan[t]]
      /\ UNCHANGED <<rcScope, rcObject, rcRow, rcDrift, rcFinding, rcWork, rcGc>>
  BY <1>u DEF EnqueueReconciliation
<1>2. rcScan \in [RcScans -> ScanRows]
  BY DEF RcInv, RcType
<1>e. Everything \in SUBSET ({rcScope} \X Nat)
  <2>1. \A f \in FindingTypes(rcScope) : f[2] \in Nat
    <3>1. RcObjects \subseteq Nat /\ RcContents \subseteq Nat /\ rcScope \in {"contents", "users", "objects"}
      BY <1>t, CursorFacts DEF RcType, ScanScopes
    <3>2. CASE rcScope = "contents"
      BY <3>1, <3>2 DEF FindingTypes
    <3>3. CASE rcScope = "users"
      BY <3>3 DEF FindingTypes
    <3>4. CASE rcScope = "objects"
      BY <3>1, <3>4 DEF FindingTypes
    <3> QED
      BY <3>1, <3>2, <3>3, <3>4
  <2> QED
    BY <2>1 DEF Everything
<1>o. u \notin others
  <2>1. \A c \in RcCursors : rcPage[<<u, c>>] = "none"
    <3>1. ~(u <= rcClock)
      BY <1>t, <1>u
    <3> QED
      BY <3>1, PageTable
  <2>2. AttemptOf(u) = {}
    <3> SUFFICES ASSUME NEW w \in ScanWorkers, rcWork[w].scan = u, rcWork[w].at # "idle" PROVE FALSE
      BY DEF AttemptOf
    <3>1. rcWork[w].scan <= rcClock
      BY AttemptRow DEF AttemptShape
    <3> QED
      BY <3>1, <1>t, <1>u
  <2> QED
    BY <2>1, <2>2 DEF Running, Unsettled
<1>n. new \in ScanRows /\ new.start = u /\ (new.alone <=> others = {})
  BY <1>e, <1>t
<1> HIDE DEF new, others
<1>3. ASSUME NEW t \in RcScans
      PROVE  /\ rcScan'[t] \in ScanRows
             /\ t = u => rcScan'[t] = new
             /\ t # u => /\ rcScan'[t].start = rcScan[t].start
                         /\ rcScan'[t].alone => rcScan[t].alone
                         /\ rcScan'[t].steady = rcScan[t].steady
  <2>1. rcScan[t] \in ScanRows
    BY <1>2
  <2>2. \/ t = u /\ rcScan'[t] = new
        \/ t # u /\ rcScan'[t] = [rcScan[t] EXCEPT !.alone = FALSE]
        \/ t # u /\ rcScan'[t] = rcScan[t]
    <3>1. rcScan'[t] = CASE t = u -> new
                         [] t \in others -> [rcScan[t] EXCEPT !.alone = FALSE]
                         [] OTHER -> rcScan[t]
      BY <1>1
    <3>2. u \notin others
      BY <1>o
    <3>3. CASE t = u
      BY <3>1, <3>2, <3>3
    <3>4. CASE t # u /\ t \in others
      BY <3>1, <3>4
    <3>5. CASE t # u /\ t \notin others
      BY <3>1, <3>5
    <3> QED
      BY <3>3, <3>4, <3>5
  <2> QED
    BY <1>n, <2>1, <2>2
<1>4. rcScan' \in [RcScans -> ScanRows]
  <2>1. rcScan' = [t \in RcScans |-> rcScan'[t]]
    BY <1>1
  <2> QED
    BY <1>3, <2>1
<1>5. /\ rcPage' \in [RcScans \X RcCursors -> {"none", "pending", "succeeded"} \cup ScanWorkers]
      /\ \A t \in RcScans, c \in RcCursors :
           rcPage'[<<t, c>>] = IF t = u /\ c = 0 THEN "pending" ELSE rcPage[<<t, c>>]
  <2>1. rcPage \in [RcScans \X RcCursors -> {"none", "pending", "succeeded"} \cup ScanWorkers]
    BY PageTable
  <2> QED
    BY <1>1, <1>t, <2>1
<1>6. RcType' /\ RowsAndTimes'
  <2>1. RcType'
    BY <1>1, <1>4, <1>5, <1>t DEF RcType
  <2>2. \A f \in AllFindings : rcFinding[f].seen \in Nat /\ rcFinding[f].seen <= rcClock
    BY FindingTable DEF FindingRows
  <2>3. RowsAndTimes'
    BY <1>1, <1>t, <1>u, <2>2 DEF RcInv, RowsAndTimes
  <2> QED
    BY <2>1, <2>3
<1>7. \A t \in RcScans : /\ t <= rcClock => rcScan[t].start = t /\ rcPage[<<t, 0>>] # "none"
                         /\ ~(t <= rcClock) => ~rcScan[t].alone /\ \A c \in RcCursors : rcPage[<<t, c>>] = "none"
  BY DEF RcInv, ScansInOrder
<1>8. ScansInOrder'
  <2> SUFFICES ASSUME NEW t \in RcScans
               PROVE  IF t <= u THEN rcScan'[t].start = t /\ rcPage'[<<t, 0>>] # "none"
                      ELSE ~rcScan'[t].alone /\ \A c \in RcCursors : rcPage'[<<t, c>>] = "none"
    BY <1>1 DEF ScansInOrder
  <2>1. CASE t = u
    BY <2>1, <1>3, <1>5, <1>n, <1>t
  <2>2. CASE t < u
    <3>1. t <= rcClock /\ t # u
      BY <2>2, <1>u, <1>t
    <3> QED
      BY <2>2, <3>1, <1>3, <1>5, <1>7, <1>t
  <2>3. CASE t > u
    <3>1. ~(t <= rcClock) /\ t # u
      BY <2>3, <1>u, <1>t
    <3> QED
      BY <2>3, <3>1, <1>3, <1>5, <1>7, <1>t
  <2> QED
    BY <1>t, <2>1, <2>2, <2>3
<1>9. ASSUME NEW w \in ScanWorkers PROVE AttemptShape(w)'
  <2>1. AttemptShape(w) /\ rcWork[w].cursor \in RcCursors /\ rcWork[w].scan \in Nat
    BY AttemptRow
  <2>2. rcWork[w].scan <= rcClock => rcWork[w].scan <= u
    BY <2>1, <1>t, <1>u
  <2>3. \A t \in RcScans, c \in RcCursors : rcPage[<<t, c>>] # "none" => rcPage'[<<t, c>>] # "none"
    BY <1>5
  <2> QED
    BY <1>1, <2>1, <2>2, <2>3 DEF AttemptShape
<1>10. ASSUME rcScan'[u].alone PROVE ScanTrue(u)'
  <2>1. \A t \in RcScans : ~Running(t)
    BY <1>3, <1>10, <1>n DEF others
  <2>2. ASSUME NEW w \in ScanWorkers PROVE rcWork[w].at = "idle"
    <3>1. rcWork[w].at # "idle" => rcWork[w].scan \in RcScans
      BY AttemptRow DEF AttemptShape
    <3> QED
      BY <2>1, <3>1 DEF Running, AttemptOf
  <2>3. \A t \in RcScans, c \in RcCursors : u <= t /\ rcPage'[<<t, c>>] # "none" => c = 0
    <3> SUFFICES ASSUME NEW t \in RcScans, NEW c \in RcCursors, u <= t, rcPage'[<<t, c>>] # "none", c # 0
                 PROVE  FALSE
      OBVIOUS
    <3>1. ~(t <= rcClock)
      BY <1>t, <1>u
    <3>2. rcPage[<<t, c>>] = "none"
      BY <1>7, <3>1
    <3>3. rcPage'[<<t, c>>] = rcPage[<<t, c>>]
      BY <1>5
    <3> QED
      BY <3>2, <3>3
  <2>4. PagesCovered(u)'
    BY <2>3 DEF PagesCovered
  <2>5. PagesLinked(u)'
    <3>1. ~(u <= rcClock)
      BY <1>t, <1>u
    <3>2. \A c \in RcCursors : rcPage'[<<u, c>>] # "succeeded"
      BY <1>5, <1>7, <3>1
    <3> QED
      BY <3>2 DEF PagesLinked
  <2>6. NothingInvented(u)'
    <3>1. \A o \in RcObjects : rcFinding[<<"orphan", o>>].seen < u
      <4>1. \A o \in RcObjects : /\ rcFinding[<<"orphan", o>>].seen \in Nat
                                 /\ rcFinding[<<"orphan", o>>].seen <= rcClock
        BY FindingKeys, FindingTable DEF FindingRows
      <4>2. rcClock \in Nat /\ \A x \in Nat : x <= rcClock => x < u
        BY <1>t, <1>u
      <4> QED
        BY <4>1, <4>2
    <3> QED
      BY <1>1, <3>1 DEF NothingInvented
  <2>7. \A w \in ScanWorkers : AttemptTrue(u, w)'
    BY <1>1, <2>2 DEF AttemptTrue, PastRead
  <2> QED
    BY <2>4, <2>5, <2>6, <2>7 DEF ScanTrue
<1>11. ASSUME NEW s \in RcScans, s # u, rcScan'[s].alone PROVE ScanTrue(s)'
  <2>1. rcScan[s].alone /\ rcScan'[s].steady = rcScan[s].steady
    BY <1>3, <1>11
  <2>2. s <= rcClock /\ ScanTrue(s)
    BY <2>1, AloneStarted
  <2>3. Keeps(s)
    BY <1>1, <2>1 DEF Keeps, Unmoved, OpenFinding, RowJudged, MissingJudged, SizeJudged, CollectorWaits, UserJudged
  <2>4. PagesCovered(s)'
    <3> SUFFICES ASSUME NEW t \in RcScans, NEW c \in RcCursors, s <= t, rcPage'[<<t, c>>] # "none",
                        NEW r \in 1..c, Unmoved(s, r)'
                 PROVE  Covered(t, r)'
      BY DEF PagesCovered
    <3>1. rcPage[<<t, c>>] # "none"
      BY <1>5
    <3>2. t <= rcClock
      BY <1>7, <3>1
    <3>3. Covered(t, r)
      BY <1>1, <2>2, <2>3, <3>1, StillUnmoved DEF ScanTrue, PagesCovered
    <3> QED
      BY <1>1, <2>3, <3>2, <3>3, KeepsCovered
  <2>5. PagesLinked(s)'
    <3>1. \A c \in RcCursors : rcPage'[<<s, c>>] = rcPage[<<s, c>>]
      BY <1>5, <1>11
    <3>2. Complete(s) => Complete(s)'
      BY <1>1, <2>2, <2>3, KeepsComplete
    <3> QED
      BY <2>2, <3>1, <3>2 DEF ScanTrue, PagesLinked
  <2>6. NothingInvented(s)'
    BY <1>1, <2>2, <2>3, KeepsInvented DEF ScanTrue
  <2>7. ASSUME NEW v \in ScanWorkers PROVE AttemptTrue(s, v)'
    <3>1. rcWork'[v] = rcWork[v] /\ AttemptShape(v) /\ AttemptTrue(s, v)
      BY <1>1, <2>2 DEF RcInv, ScanTrue
    <3> QED
      BY <1>1, <1>t, <2>2, <2>3, <3>1, KeepsAttempt
  <2> QED
    BY <2>4, <2>5, <2>6, <2>7 DEF ScanTrue
<1> QED
  BY <1>6, <1>8, <1>9, <1>10, <1>11 DEF RcInv

-----------------------------------------------------------------------------
(* The initial states, the steps, and what the invariant says at the end.  *)

LEMMA RcInvInitially ==
    ASSUME RcInit
    PROVE  RcInv
<1>1. RcType
  <2>1. rcRow \in [RcContents -> RcRows]
    <3>1. {Row(1, 1, "whole"), Row(0, 1, "whole")} \subseteq RcRows
      BY DEF Row, RcRows
    <3> QED
      BY <3>1 DEF RcInit
  <2>2. rcFinding \in [AllFindings -> [open : BOOLEAN, seen : Nat]]
    BY DEF RcInit
  <2>3. rcScan \in [RcScans -> [start : Nat, alone : BOOLEAN, fresh : BOOLEAN,
                                steady : SUBSET ({rcScope} \X Nat)]]
    BY DEF RcInit, NoScan
  <2>4. rcWork \in [ScanWorkers -> AttemptRows]
    BY IdleAttemptFacts DEF RcInit
  <2>5. rcGc \in [RcContents -> {"none", "pending", "succeeded"}]
    BY DEF RcInit
  <2> QED
    BY <2>1, <2>2, <2>3, <2>4, <2>5 DEF RcInit, RcType
<1>2. RowsAndTimes
  <2>1. \A c \in RcContents : rcRow[c].blob # "deleted"
    <3>1. \A row \in {Row(1, 1, "whole"), Row(0, 1, "whole")} : row.blob # "deleted"
      BY DEF Row
    <3>2. \A c \in RcContents : rcRow[c] \in {Row(1, 1, "whole"), Row(0, 1, "whole")}
      BY DEF RcInit
    <3> QED
      BY <3>1, <3>2
  <2> QED
    BY <2>1 DEF RcInit, RowsAndTimes
<1>3. \A s \in RcScans : ~rcScan[s].alone
  BY DEF RcInit, NoScan
<1>4. ScansInOrder
  BY <1>3 DEF RcInit, ScansInOrder, RcScans
<1>5. \A w \in ScanWorkers : AttemptShape(w)
  <2> SUFFICES ASSUME NEW w \in ScanWorkers PROVE AttemptShape(w)
    OBVIOUS
  <2>1. rcWork[w] = IdleAttempt
    BY DEF RcInit
  <2> QED
    BY <2>1, IdleAttemptFacts DEF AttemptShape, PastRead
<1> QED
  BY <1>1, <1>2, <1>3, <1>4, <1>5 DEF RcInv

LEMMA RcInvKept ==
    ASSUME RcInv, [RcNext]_rcVars
    PROVE  RcInv'
<1>1. CASE UNCHANGED rcVars
  <2>1. UNCHANGED <<rcObject, rcRow, rcDrift, rcFinding, rcScope, rcClock, rcScan, rcPage, rcWork, rcGc>>
    BY <1>1 DEF rcVars
  <2>2. RcType' /\ RowsAndTimes'
    BY <2>1 DEF RcInv, RcType, RowsAndTimes
  <2> QED
    BY <2>1, <2>2, UnwrittenKeeps, BehindTheScans
<1>2. CASE RcNext
  <2>0. rcScope' = rcScope
    BY <1>2 DEF RcNext
  <2>1. ASSUME NEW o \in RcObjects, ObjectMoves(o) PROVE RcInv'
    BY <2>0, <2>1, ObjectMovesKeeps
  <2>2. ASSUME NEW c \in RcContents, ContentMoves(c) PROVE RcInv'
    BY <2>0, <2>2, ContentMovesKeeps
  <2>3. ASSUME NEW c \in RcContents, ExecuteBlobGc(c) PROVE RcInv'
    BY <2>0, <2>3, ExecuteBlobGcKeeps
  <2>4. CASE UserMoves
    BY <2>0, <2>4, UserMovesKeeps
  <2>5. CASE EnqueueReconciliation
    BY <2>0, <2>5, EnqueueReconciliationKeeps
  <2>6. ASSUME NEW s \in RcScans, TriggerStagingReconciliation(s) PROVE RcInv'
    BY <2>0, <2>6, TriggerStagingReconciliationKeeps
  <2>7. ASSUME NEW w \in ScanWorkers, PageStep(w) PROVE RcInv'
    <3>1. CASE ReadInventory(w)
      BY <2>0, <3>1, ReadInventoryKeeps
    <3>2. CASE ReadReferences(w)
      BY <2>0, <3>2, ReadReferencesKeeps
    <3>3. CASE ApplyObject(w)
      BY <2>0, <3>3, ApplyObjectKeeps
    <3>4. CASE EndInventory(w)
      BY <2>0, <3>4, EndInventoryKeeps
    <3>5. CASE ReadContents(w)
      BY <2>0, <3>5, ReadContentsKeeps
    <3>6. CASE ApplyRow(w)
      BY <2>0, <3>6, ApplyRowKeeps
    <3>7. CASE EnqueueOrRearmBlobGc(w)
      BY <2>0, <3>7, EnqueueOrRearmBlobGcKeeps
    <3>8. CASE BlobExists(w)
      BY <2>0, <3>8, BlobExistsKeeps
    <3>9. CASE GetBlobSize(w)
      BY <2>0, <3>9, GetBlobSizeKeeps
    <3>10. CASE ApplySize(w)
      BY <2>0, <3>10, ApplySizeKeeps
    <3>11. CASE ReadUsers(w)
      BY <2>0, <3>11, ReadUsersKeeps
    <3>12. CASE ApplyUser(w)
      BY <2>0, <3>12, ApplyUserKeeps
    <3>13. CASE FinishPage(w)
      BY <2>0, <3>13, FinishPageKeeps
    <3>14. CASE FailPage(w)
      BY <2>0, <3>14, FailPageKeeps
    <3> QED
      BY <2>7, <3>1, <3>2, <3>3, <3>4, <3>5, <3>6, <3>7, <3>8, <3>9, <3>10, <3>11, <3>12, <3>13, <3>14
      DEF PageStep
  <2>8. ASSUME NEW w \in ScanWorkers, NEW s \in RcScans, NEW c \in RcCursors, ClaimPage(w, s, c) PROVE RcInv'
    BY <2>0, <2>8, ClaimPageKeeps
  <2> QED
    BY <1>2, <2>1, <2>2, <2>3, <2>4, <2>5, <2>6, <2>7, <2>8 DEF RcNext
<1> QED
  BY <1>1, <1>2

\* The last page of a scan that is over closed it.
LEMMA OverIsComplete ==
    ASSUME RcInv, NEW s \in RcScans, rcScan[s].alone, ~Running(s)
    PROVE  Complete(s)
<1> DEFINE pages == {c \in RcCursors : rcPage[<<s, c>>] # "none"}
           bound == Max({LastObject, LastContent})
           behind == {bound - c : c \in pages}
<1>1. s <= rcClock /\ PagesLinked(s)
  BY AloneStarted DEF ScanTrue
<1>2. 0 \in pages
  BY <1>1, CursorFacts DEF RcInv, ScansInOrder
<1>3. \A c \in RcCursors : c \in Nat /\ c <= bound /\ bound - c \in Nat
  BY CursorFacts DEF RcCursors
<1>b. bound \in Nat
  BY CursorFacts
<1>4. behind \in SUBSET Nat /\ behind # {}
  BY <1>2, <1>3
<1>5. PICK n \in behind : \A m \in behind : n <= m
  BY <1>4, LeastNumber
<1>6. PICK last \in pages : n = bound - last
  BY <1>5
<1>7. \A c \in pages : c <= last
  <2> SUFFICES ASSUME NEW c \in pages PROVE c <= last
    OBVIOUS
  <2>1. bound - last <= bound - c
    BY <1>5, <1>6
  <2> QED
    BY <1>3, <1>b, <2>1
<1>8. rcPage[<<s, last>>] = "succeeded"
  BY DEF Running, Unsettled
<1>9. ~\E d \in RcCursors : d > last /\ rcPage[<<s, d>>] # "none"
  <2> SUFFICES ASSUME NEW d \in RcCursors, d > last, rcPage[<<s, d>>] # "none" PROVE FALSE
    OBVIOUS
  <2>1. d <= last /\ d \in Nat /\ last \in Nat
    BY <1>3, <1>7
  <2> QED
    BY <2>1
<1> QED
  BY <1>1, <1>8, <1>9 DEF PagesLinked

LEMMA RcInvTruthful ==
    ASSUME RcInv
    PROVE  ScansTruthful
<1>0. rcScope \in {"contents", "users", "objects"}
  BY DEF RcInv, RcType, ScanScopes
<1>1. ASSUME NEW s \in RcScans, rcScan[s].alone, ~Running(s),
             NEW f \in FindingTypes(rcScope), <<rcScope, f[2]>> \in rcScan[s].steady, Judged(f)
      PROVE  rcFinding[f].open <=> Holds(f)
  <2>1. Complete(s)
    BY <1>1, OverIsComplete
  <2>2. Unmoved(s, f[2])
    BY <1>1 DEF Unmoved
  <2>3. CASE rcScope = "objects"
    <3>1. PICK o \in RcObjects : f = <<"orphan", o>>
      BY <2>3 DEF FindingTypes
    <3>2. Holds(f) <=> rcObject[o] = "orphan"
      BY <3>1 DEF Holds
    <3>3. Covered(s, o) /\ o \in Nat
      BY <2>1, <2>2, <3>1, CursorFacts DEF Complete
    <3>4. rcObject[o] = "orphan" => rcFinding[f].open
      BY <2>3, <3>1, <3>3 DEF Covered, OrphanShown, OpenFinding
    <3>5. rcObject[o] # "orphan" => ~rcFinding[f].open
      BY <2>1, <2>2, <2>3, <3>1 DEF Complete, OpenFinding
    <3> QED
      BY <3>2, <3>4, <3>5
  <2>4. CASE rcScope = "contents"
    <3>1. PICK k \in {"refs", "zero", "missing", "size"}, c \in RcContents : f = <<k, c>>
      BY <2>4 DEF FindingTypes
    <3>2. Covered(s, c) /\ c \in Nat
      BY <2>1, <2>2, <3>1, CursorFacts DEF Complete
    <3>3. RowJudged(c) /\ MissingJudged(c) /\ SizeJudged(c)
      BY <2>4, <3>2 DEF Covered
    <3>4. rcRow[c] # NoRow /\ (k \in {"missing", "size"} => rcRow[c].actual > 0)
      BY <1>1, <3>1 DEF Judged
    <3>5. CASE k = "refs"
      BY <3>1, <3>3, <3>4, <3>5 DEF Holds, RowJudged, OpenFinding
    <3>6. CASE k = "zero"
      BY <3>1, <3>3, <3>4, <3>6 DEF Holds, RowJudged, OpenFinding
    <3>7. CASE k = "missing"
      BY <3>1, <3>3, <3>4, <3>7 DEF Holds, MissingJudged, OpenFinding
    <3>8. CASE k = "size"
      BY <3>1, <3>3, <3>4, <3>8 DEF Holds, SizeJudged, OpenFinding
    <3> QED
      BY <3>5, <3>6, <3>7, <3>8
  <2>5. CASE rcScope = "users"
    <3>1. PICK k \in {"used", "reserved"} : f = <<k, 0>>
      BY <2>5 DEF FindingTypes
    <3>2. UserJudged
      BY <2>1, <2>2, <2>5, <3>1 DEF Complete
    <3> QED
      BY <3>1, <3>2 DEF Holds, UserJudged, OpenFinding
  <2> QED
    BY <1>0, <2>3, <2>4, <2>5
<1>2. ASSUME NEW s \in RcScans, rcScan[s].alone, ~Running(s), NEW c \in RcContents,
             <<"contents", c>> \in rcScan[s].steady, rcRow[c] # NoRow, rcFinding[<<"zero", c>>].open
      PROVE  rcGc[c] = "pending"
  <2>1. rcScope = "contents"
    <3>1. rcScan[s].steady \in SUBSET ({rcScope} \X Nat)
      BY DEF RcInv, RcType
    <3> QED
      BY <1>2, <3>1
  <2>2. Complete(s) /\ Unmoved(s, c) /\ c \in Nat
    BY <1>2, <2>1, OverIsComplete, CursorFacts DEF Unmoved
  <2>3. CollectorWaits(c)
    BY <2>1, <2>2 DEF Complete, Covered
  <2> QED
    BY <1>2, <2>3 DEF CollectorWaits, OpenFinding
<1>3. FindingsTruthful
  BY <1>1 DEF FindingsTruthful
<1>4. ZeroReferenceHasRepair
  BY <1>2 DEF ZeroReferenceHasRepair
<1> QED
  BY <1>3, <1>4 DEF ScansTruthful

\* Once a storage scan that no other overlapped is over, its findings are the
\* truth about everything that has not changed since it began, and a content
\* without references has its blob_gc job waiting, however its pages were
\* retried, redone by a second worker or applied late
\* (StorageReconciliationService::RunPage, ResolveStaleObjectFindings).
THEOREM ScansTruthfulHolds == RcSpec => []ScansTruthful
<1>1. RcInit => RcInv
  BY RcInvInitially
<1>2. RcInv /\ [RcNext]_rcVars => RcInv'
  BY RcInvKept
<1>3. RcInv => ScansTruthful
  BY RcInvTruthful
<1> QED
  BY <1>1, <1>2, <1>3, PTL DEF RcSpec

=============================================================================
