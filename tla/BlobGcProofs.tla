---------------------------- MODULE BlobGcProofs ----------------------------
(***************************************************************************)
(* Proofs about BlobGc, for every set of files, contents, users, worker    *)
(* processes and deletions, with and without lost connections.             *)
(***************************************************************************)
EXTENDS BlobGc, SetSumsProofs

\* The live files of a content and of a user.
LiveOf(c)   == {f \in Files : Live(f) /\ ContentOf[f] = c}
OwnedBy(x)  == {f \in Files : Live(f) /\ OwnerOf[f] = x}

\* A row carries the latest id or none, and a row without references has its
\* reference gate shut.
RowsClosed ==
    \A c \in Contents :
        /\ row[c].id \in {0, row[c].made}
        /\ row[c].id # 0 /\ row[c].refs = 0 => ~ReferenceGateOpen(c)

\* Live files name a row; a request that creates a file has not created it.
RequestsSound ==
    /\ \A f \in Files : Live(f) => cid[f] # 0
    /\ \A f \in Files : fileReq[f].pc # "idle" => file[f] = "none"
    /\ \A f \in Files : fileReq[f].pc = "reference" => fileReq[f].seen # 0

\* A collector between its lock and its delete holds the lock; whoever holds
\* the lock of a content is at work on its row, which has no references.
LocksSound ==
    /\ \A g \in JobOwners : gpc[g] = "delete" => lock[cand[g].content] = g
    /\ \A c \in Contents, g \in JobOwners : lock[c] = g =>
          /\ cand[g].content = c /\ gpc[g] \in {"delete", "deleted"}
          /\ row[c].refs = 0 /\ row[c].id = cand[g].id

\* What the steps of files, deletions, reconciliation and collectors keep.
GcInv == GcTypeOK /\ RefsMatchFiles /\ RowsClosed /\ RequestsSound /\ LocksSound

-----------------------------------------------------------------------------
(* Rows of storage_jobs: what the statements leave.                        *)

\* Every statement of StorageJobRepository leaves a row, and only success
\* opens the reference gate of a content that has a job.
LEMMA GcJobRows ==
    ASSUME NEW j \in StorageJob
    PROVE  /\ NoJobRow \in StorageJob /\ PendingJob \in StorageJob
           /\ EnqueueOrRearmSucceeded(j) \in StorageJob
           /\ EnqueueOrRearmSucceeded(j).status \notin {"None", "Succeeded"}
           /\ \A o \in JobOwners : IsReady(j) => Claimed(j, o) \in StorageJob
           /\ \A o \in JobOwners : Claimed(j, o).status = "Running"
           /\ MarkSucceeded(j) \in StorageJob
           /\ \A b \in BOOLEAN : MarkFailed(j, b) \in StorageJob
           /\ \A b \in BOOLEAN : MarkFailed(j, b).status \in {"Retry", "DeadLetter"}
           /\ DeadLettered(j) \in StorageJob /\ DeadLettered(j).status = "DeadLetter"
           /\ [j EXCEPT !.live = FALSE] \in StorageJob
           /\ [j EXCEPT !.live = FALSE].status = j.status
           /\ [j EXCEPT !.due = TRUE] \in StorageJob
           /\ [j EXCEPT !.due = TRUE].status = j.status
<1> USE AttemptsAssumption DEF StorageJob, JobStatus, WaitingStatus
<1>0. 0 \in 0 .. MaxAttempts /\ (IsReady(j) => j.attempts + 1 \in 0 .. MaxAttempts)
  BY DEF IsReady
<1>1. NoJobRow \in StorageJob /\ PendingJob \in StorageJob
  BY <1>0 DEF NoJobRow, PendingJob
<1>2. /\ EnqueueOrRearmSucceeded(j) \in StorageJob
      /\ EnqueueOrRearmSucceeded(j).status \notin {"None", "Succeeded"}
  BY <1>1 DEF EnqueueOrRearmSucceeded, CanRearm, PendingJob
<1>3. \A o \in JobOwners : /\ IsReady(j) => Claimed(j, o) \in StorageJob
                           /\ Claimed(j, o).status = "Running"
  BY <1>0 DEF Claimed
<1>4. MarkSucceeded(j) \in StorageJob
  BY DEF MarkSucceeded
<1>5. \A b \in BOOLEAN : /\ MarkFailed(j, b) \in StorageJob
                         /\ MarkFailed(j, b).status \in {"Retry", "DeadLetter"}
  BY DEF MarkFailed
<1>6. DeadLettered(j) \in StorageJob /\ DeadLettered(j).status = "DeadLetter"
  BY DEF DeadLettered
<1>7. /\ [j EXCEPT !.live = FALSE] \in StorageJob
      /\ [j EXCEPT !.live = FALSE].status = j.status
      /\ [j EXCEPT !.due = TRUE] \in StorageJob
      /\ [j EXCEPT !.due = TRUE].status = j.status
  OBVIOUS
<1> QED
  BY <1>1, <1>2, <1>3, <1>4, <1>5, <1>6, <1>7

-----------------------------------------------------------------------------
(* Counting the files of a content and the bytes of a user.                *)

\* The sizes of files, as weights.
FileSize == [f \in Files |-> SizeOf[ContentOf[f]]]

\* Sizes are natural numbers, and every set of files is finite.
LEMMA FileSizes ==
    /\ FileSize \in [Files -> Nat]
    /\ \A fs \in SUBSET Files : /\ IsFiniteSet(fs) /\ Cardinality(fs) \in Nat
                                /\ SumBytes(fs) = Total(FileSize, fs) /\ SumBytes(fs) \in Nat
<1>1. FileSize \in [Files -> Nat]
  BY ContentAssumption, SizeAssumption DEF FileSize
<1>2. ASSUME NEW fs \in SUBSET Files
      PROVE  /\ IsFiniteSet(fs) /\ Cardinality(fs) \in Nat
             /\ SumBytes(fs) = Total(FileSize, fs) /\ SumBytes(fs) \in Nat
  <2>1. IsFiniteSet(fs) /\ Cardinality(fs) \in Nat
    BY TablesAssumption, FS_Subset, FS_CardinalityType
  <2>2. SumBytes(fs) = Total(FileSize, fs)
    BY DEF SumBytes, FileSize
  <2>3. Total(FileSize, fs) \in Nat
    BY <1>1, <2>1, TotalNat
  <2> QED
    BY <2>1, <2>2, <2>3
<1> QED
  BY <1>1, <1>2

\* RefsMatchFiles in terms of the sets of live files.
LEMMA RefsDef ==
    RefsMatchFiles <=>
        /\ \A c \in Contents : row[c].refs = Cardinality(LiveOf(c))
        /\ \A f \in Files : Live(f) => cid[f] = row[ContentOf[f]].id
        /\ \A x \in Users : used[x] = SumBytes(OwnedBy(x))
BY DEF RefsMatchFiles, LiveOf, OwnedBy

\* Nothing is counted: the live files stay, the rows they name keep their ids.
LEMMA RefsKept ==
    ASSUME RefsMatchFiles, \A f \in Files : Live(f)' <=> Live(f),
           UNCHANGED <<cid, used>>,
           \A c \in Contents : row'[c].refs = row[c].refs,
           \A f \in Files : Live(f) => row'[ContentOf[f]].id = row[ContentOf[f]].id
    PROVE  RefsMatchFiles'
<1>1. \A c \in Contents : LiveOf(c)' = LiveOf(c)
  BY DEF LiveOf
<1>2. \A x \in Users : OwnedBy(x)' = OwnedBy(x)
  BY DEF OwnedBy
<1>3. \A c \in Contents : row'[c].refs = Cardinality(LiveOf(c)')
  BY <1>1, RefsDef
<1>4. \A f \in Files : Live(f)' => cid'[f] = row'[ContentOf[f]].id
  BY RefsDef
<1>5. \A x \in Users : used'[x] = SumBytes(OwnedBy(x)')
  BY <1>2, RefsDef
<1> QED
  BY <1>3, <1>4, <1>5 DEF RefsMatchFiles, LiveOf, OwnedBy

\* One file more, with its reference and its bytes.
LEMMA RefsGained ==
    ASSUME GcTypeOK, RefsMatchFiles, NEW f \in Files, file[f] = "none",
           NEW r \in ContentRow, row' = [row EXCEPT ![ContentOf[f]] = r],
           r.refs = row[ContentOf[f]].refs + 1,
           \A g \in Files : Live(g) /\ ContentOf[g] = ContentOf[f] => r.id = row[ContentOf[f]].id,
           CreateFile(f, r.id)
    PROVE  RefsMatchFiles'
<1> DEFINE c == ContentOf[f]
           x == OwnerOf[f]
<1>0. c \in Contents /\ x \in Users /\ row[c] \in ContentRow /\ used[x] \in Nat
  BY ContentAssumption, OwnerAssumption DEF GcTypeOK
<1>1. /\ file' = [file EXCEPT ![f] = "active"] /\ cid' = [cid EXCEPT ![f] = r.id]
      /\ used' = [used EXCEPT ![x] = used[x] + SizeOf[c]]
  BY <1>0 DEF CreateFile, GcTypeOK
<1>2. ~Live(f) /\ Live(f)' /\ \A g \in Files : g # f => (Live(g)' <=> Live(g))
  BY <1>1 DEF Live, GcTypeOK
<1>3. \A d \in Contents : row'[d].refs = Cardinality(LiveOf(d)')
  <2> TAKE d \in Contents
  <2>1. CASE d # c
    <3>1. LiveOf(d)' = LiveOf(d)
      BY <1>2, <2>1 DEF LiveOf
    <3>2. row'[d] = row[d]
      BY <2>1 DEF GcTypeOK
    <3> QED
      BY <3>1, <3>2, RefsDef
  <2>2. CASE d = c
    <3>1. LiveOf(d)' = LiveOf(d) \cup {f} /\ f \notin LiveOf(d) /\ LiveOf(d) \in SUBSET Files
      BY <1>2, <2>2 DEF LiveOf
    <3>2. IsFiniteSet(LiveOf(d))
      BY <3>1, FileSizes
    <3>3. Cardinality(LiveOf(d) \cup {f}) = Cardinality(LiveOf(d)) + 1
      BY <3>1, <3>2, FS_AddElement
    <3>4. row'[d].refs = row[d].refs + 1
      BY <1>0, <2>2 DEF GcTypeOK
    <3>5. row[d].refs = Cardinality(LiveOf(d))
      BY RefsDef
    <3> QED
      BY <3>1, <3>3, <3>4, <3>5
  <2> QED
    BY <2>1, <2>2
<1>4. \A g \in Files : Live(g)' => cid'[g] = row'[ContentOf[g]].id
  <2> SUFFICES ASSUME NEW g \in Files, Live(g)' PROVE cid'[g] = row'[ContentOf[g]].id
    OBVIOUS
  <2>1. CASE g = f
    BY <1>0, <1>1, <2>1 DEF GcTypeOK
  <2>2. CASE g # f
    <3>1. Live(g) /\ cid'[g] = cid[g] /\ cid[g] = row[ContentOf[g]].id
      BY <1>1, <1>2, <2>2, RefsDef DEF GcTypeOK
    <3>2. ContentOf[g] \in Contents
      BY ContentAssumption
    <3>3. row'[ContentOf[g]].id = row[ContentOf[g]].id
      BY <1>0, <3>1, <3>2 DEF GcTypeOK
    <3> QED
      BY <3>1, <3>3
  <2> QED
    BY <2>1, <2>2
<1>5. \A y \in Users : used'[y] = SumBytes(OwnedBy(y)')
  <2> TAKE y \in Users
  <2>1. CASE y # x
    <3>1. OwnedBy(y)' = OwnedBy(y) /\ used'[y] = used[y]
      BY <1>1, <1>2, <2>1 DEF OwnedBy, GcTypeOK
    <3> QED
      BY <3>1, RefsDef
  <2>2. CASE y = x
    <3>1. OwnedBy(y)' = OwnedBy(y) \cup {f} /\ f \notin OwnedBy(y) /\ OwnedBy(y) \in SUBSET Files
      BY <1>2, <2>2 DEF OwnedBy
    <3>2. IsFiniteSet(OwnedBy(y)) /\ FileSize \in [Files -> Nat] /\ FileSize[f] = SizeOf[c]
      BY <3>1, FileSizes DEF FileSize
    <3>3. Total(FileSize, OwnedBy(y) \cup {f}) = SizeOf[c] + Total(FileSize, OwnedBy(y))
      BY <3>1, <3>2, TotalAdd
    <3>4. OwnedBy(y) \cup {f} \in SUBSET Files
      BY <3>1
    <3>5. SumBytes(OwnedBy(y)') = SizeOf[c] + SumBytes(OwnedBy(y)) /\ SumBytes(OwnedBy(y)) \in Nat
      BY <3>1, <3>3, <3>4, FileSizes
    <3>6. used'[y] = used[y] + SizeOf[c] /\ used[y] = SumBytes(OwnedBy(y))
      BY <1>0, <1>1, <2>2, RefsDef DEF GcTypeOK
    <3>7. SizeOf[c] \in Nat
      BY <1>0, SizeAssumption
    <3> QED
      BY <3>5, <3>6, <3>7
  <2> QED
    BY <2>1, <2>2
<1> QED
  BY <1>3, <1>4, <1>5 DEF RefsMatchFiles, LiveOf, OwnedBy

\* A permanent deletion takes away exactly what its files had: the counts do
\* not meet the GREATEST(..., 0) of the UPDATE.
LEMMA RefsPurged ==
    ASSUME GcTypeOK, RefsMatchFiles, NEW fs \in SUBSET Files,
           \A f \in fs : file[f] = "trash", Purge(fs), UNCHANGED cid
    PROVE  RefsMatchFiles' /\ row' \in [Contents -> ContentRow] /\ used' \in [Users -> Nat]
<1> DEFINE Gone(c) == {f \in fs : ContentOf[f] = c}
           Lost(x) == {f \in fs : OwnerOf[f] = x}
<1>0. /\ file' = [f \in Files |-> IF f \in fs THEN "purged" ELSE file[f]]
      /\ \A c \in Contents : row'[c] =
            [row[c] EXCEPT !.refs = Without(row[c].refs, Cardinality(Uses(fs, c)))]
      /\ \A x \in Users : used'[x] = Without(used[x], SumBytes(Lost(x)))
      /\ DOMAIN row' = Contents /\ DOMAIN used' = Users
      /\ row' = [c \in Contents |-> row'[c]] /\ used' = [x \in Users |-> used'[x]]
  BY DEF Purge, DecrementRefCountsAndEnqueueGc
<1>1. /\ \A f \in fs : Live(f) /\ ~Live(f)'
      /\ \A f \in Files : f \notin fs => (Live(f)' <=> Live(f))
  BY <1>0 DEF Live, GcTypeOK
<1>2. ASSUME NEW c \in Contents
      PROVE  /\ row'[c] \in ContentRow /\ row'[c].id = row[c].id
             /\ row'[c].refs = Cardinality(LiveOf(c)')
  <2>1. Uses(fs, c) = Gone(c)
    BY <1>1, RefsDef DEF Uses
  <2>2. /\ Gone(c) \in SUBSET LiveOf(c) /\ LiveOf(c) \in SUBSET Files
        /\ LiveOf(c)' = LiveOf(c) \ Gone(c)
    BY <1>1 DEF LiveOf
  <2>3. /\ IsFiniteSet(LiveOf(c)) /\ Cardinality(LiveOf(c)) \in Nat
        /\ IsFiniteSet(Gone(c)) /\ Cardinality(Gone(c)) \in Nat
    BY <2>2, FileSizes
  <2>4. Cardinality(Gone(c)) <= Cardinality(LiveOf(c))
    BY <2>2, <2>3, FS_Subset
  <2>5. LiveOf(c) \cap Gone(c) = Gone(c)
    BY <2>2
  <2>6. Cardinality(LiveOf(c) \ Gone(c)) = Cardinality(LiveOf(c)) - Cardinality(Gone(c))
    BY <2>3, <2>5, FS_Difference
  <2>7. row[c] \in ContentRow /\ row[c].refs = Cardinality(LiveOf(c))
    BY RefsDef DEF GcTypeOK
  <2>8. Without(row[c].refs, Cardinality(Uses(fs, c))) = Cardinality(LiveOf(c)')
    BY <2>1, <2>2, <2>3, <2>4, <2>6, <2>7 DEF Without
  <2>9. Cardinality(LiveOf(c)') \in Nat
    BY <2>2, <2>3, <2>4, <2>6
  <2>10. row'[c] = [row[c] EXCEPT !.refs = Cardinality(LiveOf(c)')]
    BY <1>0, <2>8
  <2> QED
    BY <2>7, <2>9, <2>10 DEF ContentRow
<1>3. ASSUME NEW x \in Users
      PROVE  used'[x] = SumBytes(OwnedBy(x)') /\ used'[x] \in Nat
  <2>1. /\ Lost(x) \in SUBSET OwnedBy(x) /\ OwnedBy(x) \in SUBSET Files
        /\ OwnedBy(x)' = OwnedBy(x) \ Lost(x)
        /\ Lost(x) \in SUBSET Files /\ OwnedBy(x) \ Lost(x) \in SUBSET Files
    BY <1>1 DEF OwnedBy
  <2>2. IsFiniteSet(OwnedBy(x)) /\ FileSize \in [Files -> Nat]
    BY <2>1, FileSizes
  <2>3. Total(FileSize, OwnedBy(x)) = Total(FileSize, Lost(x)) + Total(FileSize, OwnedBy(x) \ Lost(x))
    BY <2>1, <2>2, TotalSplit
  <2>4. /\ SumBytes(OwnedBy(x)) = SumBytes(Lost(x)) + SumBytes(OwnedBy(x)')
        /\ SumBytes(OwnedBy(x)) \in Nat /\ SumBytes(Lost(x)) \in Nat /\ SumBytes(OwnedBy(x)') \in Nat
    BY <2>1, <2>3, FileSizes
  <2>5. used[x] = SumBytes(OwnedBy(x))
    BY RefsDef
  <2> QED
    BY <1>0, <2>4, <2>5 DEF Without
<1>4. \A f \in Files : Live(f)' => cid'[f] = row'[ContentOf[f]].id
  BY <1>1, <1>2, RefsDef, ContentAssumption
<1>5. row' \in [Contents -> ContentRow] /\ used' \in [Users -> Nat]
  BY <1>0, <1>2, <1>3
<1> QED
  BY <1>2, <1>3, <1>4, <1>5 DEF RefsMatchFiles, LiveOf, OwnedBy

-----------------------------------------------------------------------------
(* Requests.                                                               *)

\* The state of a request changes, and perhaps an object appears.
LEMMA RequestChanged ==
    ASSUME GcInv, NEW f \in Files, NEW r \in [pc : ReqPc, seen : Nat],
           fileReq' = [fileReq EXCEPT ![f] = r],
           r.pc # "idle" => file[f] = "none", r.pc = "reference" => r.seen # 0,
           blob' \subseteq Contents, UNCHANGED <<dbVars, deleting, stale, gcVars>>
    PROVE  GcInv'
<1>1. GcTypeOK'
  BY DEF GcInv, GcTypeOK, dbVars, gcVars
<1>2. RefsMatchFiles'
  <2>1. UNCHANGED <<row, file, cid, used>>
    BY DEF dbVars
  <2> QED
    BY <2>1 DEF GcInv, RefsMatchFiles, Live
<1>3. RowsClosed' /\ LocksSound'
  BY DEF GcInv, RowsClosed, LocksSound, ReferenceGateOpen, dbVars, gcVars
<1>4. RequestsSound'
  BY DEF GcInv, GcTypeOK, RequestsSound, Live, dbVars
<1> QED
  BY <1>1, <1>2, <1>3, <1>4 DEF GcInv

\* Reading and promoting for a file to come counts nothing.
LEMMA RequestStepInv ==
    ASSUME GcInv, NEW f \in Files,
           Lookup(f) \/ PromoteToFinal(f) \/ FindContent(f) \/ RequestEnds(f)
    PROVE  GcInv'
<1>0. /\ ContentOf[f] \in Contents /\ row[ContentOf[f]].id \in Nat
      /\ fileReq[f] \in [pc : ReqPc, seen : Nat] /\ blob \subseteq Contents
  BY ContentAssumption DEF GcInv, GcTypeOK, ContentRow
<1>1. CASE Lookup(f)
  <2>1. PICK id \in {0, row[ContentOf[f]].id} :
          fileReq' = [fileReq EXCEPT ![f] =
                        [pc |-> IF id = 0 THEN "promote" ELSE "finalize", seen |-> id]]
    BY <1>1 DEF Lookup
  <2> DEFINE r == [pc |-> IF id = 0 THEN "promote" ELSE "finalize", seen |-> id]
  <2>2. r \in [pc : ReqPc, seen : Nat] /\ r.pc # "reference"
    BY <1>0 DEF ReqPc
  <2> HIDE DEF r
  <2>3. fileReq' = [fileReq EXCEPT ![f] = r]
    BY <2>1 DEF r
  <2> QED
    BY <1>0, <1>1, <2>2, <2>3, RequestChanged DEF Lookup
<1>2. CASE PromoteToFinal(f)
  <2> DEFINE r == [fileReq[f] EXCEPT !.pc = "finalize"]
  <2>1. r \in [pc : ReqPc, seen : Nat] /\ r.pc # "reference"
    BY <1>0 DEF ReqPc
  <2>2. fileReq' = [fileReq EXCEPT ![f] = r] /\ file[f] = "none" /\ blob' \subseteq Contents
    BY <1>0, <1>2 DEF PromoteToFinal, GcInv, GcTypeOK, RequestsSound
  <2> HIDE DEF r
  <2> QED
    BY <1>2, <2>1, <2>2, RequestChanged DEF PromoteToFinal
<1>3. CASE FindContent(f)
  <2> DEFINE r == [pc |-> "reference", seen |-> row[ContentOf[f]].id]
  <2>1. r \in [pc : ReqPc, seen : Nat] /\ (r.pc = "reference" => r.seen # 0)
    BY <1>0, <1>3 DEF ReqPc, FindContent
  <2>2. fileReq' = [fileReq EXCEPT ![f] = r]
    BY <1>3 DEF FindContent
  <2> HIDE DEF r
  <2> QED
    BY <1>0, <1>3, <2>1, <2>2, RequestChanged DEF FindContent
<1>4. CASE RequestEnds(f)
  <2>1. NoReq \in [pc : ReqPc, seen : Nat] /\ NoReq.pc = "idle"
    BY DEF NoReq, ReqPc
  <2> QED
    BY <1>0, <1>4, <2>1, RequestChanged DEF RequestEnds
<1> QED
  BY <1>1, <1>2, <1>3, <1>4

\* A reference is gained: under the row's lock, on a new row or on one whose
\* gate is open and which therefore has references already.
LEMMA ReferenceGained ==
    ASSUME GcInv, NEW f \in Files, fileReq[f].pc # "idle",
           NEW r \in ContentRow, NEW j \in StorageJob,
           row' = [row EXCEPT ![ContentOf[f]] = r],
           gcJob' = [gcJob EXCEPT ![ContentOf[f]] = j],
           RowFree(ContentOf[f]), r.refs = row[ContentOf[f]].refs + 1,
           r.id # 0, r.id = r.made,
           r.id = row[ContentOf[f]].id \/ row[ContentOf[f]].id = 0,
           CreateFile(f, r.id), fileReq' = [fileReq EXCEPT ![f] = NoReq],
           UNCHANGED <<blob, deleting, stale, gcVars>>
    PROVE  GcInv'
<1> DEFINE c == ContentOf[f]
<1>0. c \in Contents /\ OwnerOf[f] \in Users /\ SizeOf[c] \in Nat
  BY ContentAssumption, OwnerAssumption, SizeAssumption
<1>1. file[f] = "none"
  BY DEF GcInv, RequestsSound
<1>2. \A g \in Files : Live(g) /\ ContentOf[g] = c => r.id = row[c].id
  BY RefsDef DEF GcInv, RequestsSound
<1>3. RefsMatchFiles'
  BY <1>1, <1>2, RefsGained DEF GcInv
<1>4. GcTypeOK'
  <2>1. used[OwnerOf[f]] + SizeOf[c] \in Nat
    BY <1>0 DEF GcInv, GcTypeOK
  <2>2. used' \in [Users -> Nat]
    BY <1>0, <2>1 DEF GcInv, GcTypeOK, CreateFile
  <2>3. file' \in [Files -> {"none", "active", "trash", "purged"}] /\ cid' \in [Files -> Nat]
    BY DEF GcInv, GcTypeOK, CreateFile, ContentRow
  <2> QED
    BY <1>0, <2>2, <2>3 DEF GcInv, GcTypeOK, gcVars, NoReq, ReqPc
<1>5. RowsClosed'
  <2>1. row[c].refs \in Nat /\ r.refs # 0
    BY <1>0 DEF GcInv, GcTypeOK, ContentRow
  <2> QED
    BY <1>0, <2>1 DEF GcInv, GcTypeOK, RowsClosed, ReferenceGateOpen
<1>6. RequestsSound'
  BY <1>0 DEF GcInv, GcTypeOK, RequestsSound, CreateFile, Live, NoReq
<1>7. LocksSound'
  <2>1. \A g \in JobOwners : lock[c] # g
    BY NoLockAssumption DEF RowFree
  <2>2. \A d \in Contents : d # c => row'[d] = row[d]
    BY DEF GcInv, GcTypeOK
  <2> QED
    BY <2>1, <2>2 DEF GcInv, LocksSound, gcVars
<1> QED
  BY <1>3, <1>4, <1>5, <1>6, <1>7 DEF GcInv

\* Finalizing an upload, and an instant upload, a copy or a save.
LEMMA AcquireInv ==
    ASSUME GcInv, NEW f \in Files, AcquireReference(f) \/ IncrementRefCount(f)
    PROVE  GcInv'
<1> DEFINE c == ContentOf[f]
<1>0. c \in Contents /\ row[c] \in ContentRow /\ gcJob[c] \in StorageJob
  BY ContentAssumption DEF GcInv, GcTypeOK
<1>1. row[c].id \in {0, row[c].made}
  BY <1>0 DEF GcInv, RowsClosed
<1>2. CASE \/ AcquireReference(f) /\ row[c].id # 0
          \/ IncrementRefCount(f)
  <2> DEFINE r == [row[c] EXCEPT !.refs = row[c].refs + 1]
  <2>1. /\ r \in ContentRow /\ r.refs = row[c].refs + 1 /\ r.id = row[c].id
        /\ r.made = row[c].made
    BY <1>0 DEF ContentRow
  <2>2. row' = [row EXCEPT ![c] = r] /\ gcJob' = [gcJob EXCEPT ![c] = gcJob[c]]
    BY <1>0, <1>2 DEF AcquireReference, IncrementRefCount, GcInv, GcTypeOK
  <2>3. row[c].id # 0 /\ fileReq[f].pc # "idle" /\ RowFree(c)
    BY <1>2 DEF AcquireReference, IncrementRefCount, GcInv, RequestsSound
  <2> HIDE DEF r
  <2>4. /\ CreateFile(f, r.id) /\ fileReq' = [fileReq EXCEPT ![f] = NoReq]
        /\ UNCHANGED <<blob, deleting, stale, gcVars>>
    BY <1>0, <1>2, <2>1, <2>2 DEF AcquireReference, IncrementRefCount, GcInv, GcTypeOK
  <2> QED
    BY <1>0, <1>1, <2>1, <2>2, <2>3, <2>4, ReferenceGained
<1>3. CASE AcquireReference(f) /\ row[c].id = 0
  <2> DEFINE r == [id |-> row[c].made + 1, refs |-> 1, made |-> row[c].made + 1]
  <2>1. row[c].refs = 0
    <3>1. LiveOf(c) = {}
      BY <1>3, RefsDef DEF LiveOf, GcInv, RequestsSound
    <3> QED
      BY <1>0, <3>1, RefsDef, FS_EmptySet DEF GcInv
  <2>2. r \in ContentRow /\ r.refs = row[c].refs + 1 /\ r.id # 0 /\ r.id = r.made
    BY <1>0, <2>1 DEF ContentRow
  <2>3. row' = [row EXCEPT ![c] = r] /\ gcJob' = [gcJob EXCEPT ![c] = NoJobRow]
    BY <1>0, <1>3 DEF AcquireReference, GcInv, GcTypeOK
  <2>4. NoJobRow \in StorageJob
    BY <1>0, GcJobRows
  <2> HIDE DEF r
  <2>5. /\ fileReq[f].pc # "idle" /\ RowFree(c)
        /\ CreateFile(f, r.id) /\ fileReq' = [fileReq EXCEPT ![f] = NoReq]
        /\ UNCHANGED <<blob, deleting, stale, gcVars>>
    BY <1>0, <1>3, <2>3 DEF AcquireReference, GcInv, GcTypeOK
  <2> QED
    BY <1>3, <2>2, <2>3, <2>4, <2>5, ReferenceGained
<1> QED
  BY <1>2, <1>3

\* A file keeps its reference in the trash and on its way back.
LEMMA TrashInv ==
    ASSUME GcInv, NEW f \in Files, MoveToTrash(f) \/ RestoreFile(f)
    PROVE  GcInv'
<1>1. \A g \in Files : (Live(g)' <=> Live(g)) /\ (file'[g] = "none" <=> file[g] = "none")
  BY DEF MoveToTrash, RestoreFile, Live, GcInv, GcTypeOK
<1>2. UNCHANGED <<row, gcJob, cid, used, blob, fileReq, deleting, stale, gpc, cand, lock>>
  BY DEF MoveToTrash, RestoreFile, reqVars, gcVars
<1>3. GcTypeOK'
  BY <1>2 DEF MoveToTrash, RestoreFile, GcInv, GcTypeOK
<1>4. RefsMatchFiles'
  BY <1>1, <1>2, RefsKept DEF GcInv
<1>5. RowsClosed' /\ RequestsSound' /\ LocksSound'
  BY <1>1, <1>2 DEF GcInv, RowsClosed, RequestsSound, LocksSound, ReferenceGateOpen
<1> QED
  BY <1>3, <1>4, <1>5 DEF GcInv

-----------------------------------------------------------------------------
(* Deletions and reconciliation.                                           *)

\* Reading trash rows and giving up changes no row.
LEMMA DeletionReadInv ==
    ASSUME GcInv, NEW d \in Deleters, NEW fs \in SUBSET Files, ReadTrash(d, fs) \/ DeletionEnds(d)
    PROVE  GcInv'
<1>1. UNCHANGED <<row, gcJob, file, cid, used, blob, fileReq, stale, gpc, cand, lock>>
  BY DEF ReadTrash, DeletionEnds, dbVars, gcVars
<1>2. GcTypeOK'
  BY <1>1 DEF ReadTrash, DeletionEnds, GcInv, GcTypeOK
<1>3. RefsMatchFiles'
  BY <1>1 DEF GcInv, RefsMatchFiles, Live
<1>4. RowsClosed' /\ RequestsSound' /\ LocksSound'
  BY <1>1 DEF GcInv, RowsClosed, RequestsSound, LocksSound, ReferenceGateOpen, Live
<1> QED
  BY <1>2, <1>3, <1>4 DEF GcInv

\* A permanent deletion: a count that reaches zero leaves a waiting job.
LEMMA PermanentDeletionInv ==
    ASSUME GcInv, NEW d \in Deleters, PermanentlyDeleteTrashItems(d)
    PROVE  GcInv'
<1> DEFINE fs == deleting[d]
<1>0. /\ fs \in SUBSET Files /\ (\A f \in fs : file[f] = "trash") /\ Purge(fs)
      /\ UNCHANGED <<cid, blob, fileReq, stale, gpc, cand, lock>>
      /\ deleting' = [deleting EXCEPT ![d] = {}]
  BY DEF PermanentlyDeleteTrashItems, gcVars, GcInv, GcTypeOK
<1> HIDE DEF fs
<1>1. RefsMatchFiles' /\ row' \in [Contents -> ContentRow] /\ used' \in [Users -> Nat]
  BY <1>0, RefsPurged DEF GcInv
<1>2. ASSUME NEW c \in Contents
      PROVE  /\ row'[c] = [row[c] EXCEPT !.refs = Without(row[c].refs, Cardinality(Uses(fs, c)))]
             /\ row'[c].id = row[c].id /\ row'[c].made = row[c].made
             /\ gcJob'[c] = IF Uses(fs, c) # {} /\ row'[c].refs = 0
                            THEN EnqueueOrRearmSucceeded(gcJob[c]) ELSE gcJob[c]
             /\ Uses(fs, c) = {} => row'[c] = row[c]
  <2>1. /\ row'[c] = [row[c] EXCEPT !.refs = Without(row[c].refs, Cardinality(Uses(fs, c)))]
        /\ gcJob'[c] = IF Uses(fs, c) # {} /\ row'[c].refs = 0
                       THEN EnqueueOrRearmSucceeded(gcJob[c]) ELSE gcJob[c]
    BY <1>0 DEF Purge, DecrementRefCountsAndEnqueueGc
  <2>2. row[c] \in ContentRow /\ Cardinality({}) = 0
    BY FS_EmptySet DEF GcInv, GcTypeOK
  <2>3. Without(row[c].refs, 0) = row[c].refs
    BY <2>2 DEF Without, ContentRow
  <2>4. Uses(fs, c) = {} => row'[c] = row[c]
    BY <2>1, <2>2, <2>3 DEF ContentRow
  <2> QED
    BY <2>1, <2>2, <2>4 DEF ContentRow
<1>3. gcJob' \in [Contents -> StorageJob]
  <2>1. gcJob' = [c \in Contents |-> gcJob'[c]]
    BY <1>0 DEF Purge, DecrementRefCountsAndEnqueueGc
  <2>2. ASSUME NEW c \in Contents PROVE gcJob'[c] \in StorageJob
    <3>1. gcJob[c] \in StorageJob
      BY DEF GcInv, GcTypeOK
    <3>2. EnqueueOrRearmSucceeded(gcJob[c]) \in StorageJob
      BY <3>1, GcJobRows
    <3> QED
      BY <1>2, <3>1, <3>2
  <2> QED
    BY <2>1, <2>2
<1>4. file' = [f \in Files |-> IF f \in fs THEN "purged" ELSE file[f]]
  BY <1>0 DEF Purge
<1>5. GcTypeOK'
  BY <1>0, <1>1, <1>3, <1>4 DEF GcInv, GcTypeOK
<1>6. RowsClosed'
  <2> SUFFICES ASSUME NEW c \in Contents
               PROVE  /\ row'[c].id \in {0, row'[c].made}
                      /\ row'[c].id # 0 /\ row'[c].refs = 0
                            => gcJob'[c].status \notin {"None", "Succeeded"}
    BY DEF RowsClosed, ReferenceGateOpen
  <2>1. CASE Uses(fs, c) # {}
    BY <1>2, <2>1, GcJobRows DEF GcInv, GcTypeOK, RowsClosed, ReferenceGateOpen
  <2>2. CASE Uses(fs, c) = {}
    BY <1>2, <2>2 DEF GcInv, RowsClosed, ReferenceGateOpen
  <2> QED
    BY <2>1, <2>2
<1>7. RequestsSound'
  <2>1. \A f \in Files : (Live(f)' => Live(f)) /\ (file[f] = "none" => file'[f] = "none")
    BY <1>0, <1>4 DEF Live
  <2> QED
    BY <1>0, <2>1 DEF GcInv, RequestsSound
<1>8. LocksSound'
  <2>1. \A c \in Contents : lock[c] # NoLock => Uses(fs, c) = {}
    BY <1>0 DEF Purge, RowFree, Uses
  <2>2. \A c \in Contents, g \in JobOwners : lock[c] = g => row'[c] = row[c]
    BY <1>2, <2>1, NoLockAssumption
  <2> QED
    BY <1>0, <2>2 DEF GcInv, LocksSound
<1> QED
  BY <1>1, <1>5, <1>6, <1>7, <1>8 DEF GcInv

\* Jobs and collectors change and no row of a content or a file: a job of a
\* row without references is not done now.
LEMMA JobsChangedInv ==
    ASSUME GcInv, gcJob' \in [Contents -> StorageJob],
           \A c \in Contents : row[c].id # 0 /\ row[c].refs = 0
                                  => gcJob'[c].status \notin {"None", "Succeeded"},
           UNCHANGED <<row, file, cid, used, fileReq, deleting>>,
           blob' \subseteq Contents, stale' \subseteq Candidate,
           gpc' \in [JobOwners -> GcPc], cand' \in [JobOwners -> Candidate],
           lock' \in [Contents -> JobOwners \cup {NoLock}], LocksSound'
    PROVE  GcInv'
<1>1. GcTypeOK'
  BY DEF GcInv, GcTypeOK
<1>2. RefsMatchFiles'
  BY DEF GcInv, RefsMatchFiles, Live
<1>3. RowsClosed'
  BY DEF GcInv, RowsClosed, ReferenceGateOpen
<1>4. RequestsSound'
  BY DEF GcInv, RequestsSound, Live
<1> QED
  BY <1>1, <1>2, <1>3, <1>4 DEF GcInv

\* One job row is replaced by one that is not done.
LEMMA JobReplaced ==
    ASSUME GcInv, NEW c \in Contents, NEW j \in StorageJob, gcJob' = [gcJob EXCEPT ![c] = j],
           row[c].id # 0 /\ row[c].refs = 0 => j.status \notin {"None", "Succeeded"}
    PROVE  /\ gcJob' \in [Contents -> StorageJob]
           /\ \A d \in Contents : row[d].id # 0 /\ row[d].refs = 0
                                  => gcJob'[d].status \notin {"None", "Succeeded"}
BY DEF GcInv, GcTypeOK, RowsClosed, ReferenceGateOpen

\* No job row changes.
LEMMA JobsKept ==
    ASSUME GcInv, UNCHANGED gcJob
    PROVE  /\ gcJob' \in [Contents -> StorageJob]
           /\ \A d \in Contents : row[d].id # 0 /\ row[d].refs = 0
                                  => gcJob'[d].status \notin {"None", "Succeeded"}
BY DEF GcInv, GcTypeOK, RowsClosed, ReferenceGateOpen

\* Time, the sweep and the replay.
LEMMA JobTimeInv ==
    ASSUME GcInv, NEW c \in Contents,
           GcLeaseRunsOut(c) \/ GcBecomesDue(c) \/ GcSweepExhausted(c) \/ GcReplayDeadLetter(c)
    PROVE  GcInv'
<1>0. gcJob[c] \in StorageJob
  BY DEF GcInv, GcTypeOK
<1>1. ASSUME NEW j \in StorageJob, JobChanges(c, j),
             j.status = gcJob[c].status \/ j.status \in {"DeadLetter", "Pending"}
      PROVE  GcInv'
  <2>1. row[c].id # 0 /\ row[c].refs = 0 => j.status \notin {"None", "Succeeded"}
    BY <1>1 DEF GcInv, RowsClosed, ReferenceGateOpen
  <2>2. gcJob' = [gcJob EXCEPT ![c] = j] /\ UNCHANGED <<row, file, cid, used, blob, reqVars, gcVars>>
    BY <1>1 DEF JobChanges, SetJob
  <2>3. LocksSound'
    BY <2>2 DEF GcInv, LocksSound, gcVars
  <2> QED
    BY <2>1, <2>2, <2>3, JobReplaced, JobsChangedInv DEF GcInv, GcTypeOK, reqVars, gcVars
<1>2. CASE GcLeaseRunsOut(c)
  BY <1>0, <1>1, <1>2, GcJobRows DEF GcLeaseRunsOut
<1>3. CASE GcBecomesDue(c)
  BY <1>0, <1>1, <1>3, GcJobRows DEF GcBecomesDue
<1>4. CASE GcSweepExhausted(c)
  BY <1>0, <1>1, <1>4, GcJobRows DEF GcSweepExhausted
<1>5. CASE GcReplayDeadLetter(c)
  <2>1. PendingJob \in StorageJob /\ PendingJob.status = "Pending"
    BY <1>0, GcJobRows DEF PendingJob
  <2> QED
    BY <1>1, <1>5, <2>1 DEF GcReplayDeadLetter
<1> QED
  BY <1>2, <1>3, <1>4, <1>5

\* The scan reads rows, and enqueues what it has read.
LEMMA ScanInv ==
    ASSUME GcInv, (\E c \in Contents : ScanContent(c)) \/ (\E k \in stale : EnqueueBlobGc(k))
    PROVE  GcInv'
<1>1. ASSUME NEW c \in Contents, ScanContent(c) PROVE GcInv'
  <2>1. UNCHANGED <<row, gcJob, file, cid, used, blob, fileReq, deleting, gpc, cand, lock>>
    BY <1>1 DEF ScanContent, dbVars, gcVars
  <2>2. GcTypeOK'
    BY <1>1, <2>1 DEF ScanContent, GcInv, GcTypeOK, Candidate, ContentRow
  <2>3. RefsMatchFiles'
    BY <2>1 DEF GcInv, RefsMatchFiles, Live
  <2>4. RowsClosed' /\ RequestsSound' /\ LocksSound'
    BY <2>1 DEF GcInv, RowsClosed, RequestsSound, LocksSound, ReferenceGateOpen, Live
  <2> QED
    BY <2>2, <2>3, <2>4 DEF GcInv
<1>2. ASSUME NEW k \in stale, EnqueueBlobGc(k) PROVE GcInv'
  <2> DEFINE c == k.content
             j == IF row[c].made = k.id THEN EnqueueOrRearmSucceeded(gcJob[c]) ELSE gcJob[c]
  <2>1. c \in Contents /\ gcJob[c] \in StorageJob
    BY DEF GcInv, GcTypeOK, Candidate
  <2>2. j \in StorageJob /\ (row[c].id # 0 /\ row[c].refs = 0 => j.status \notin {"None", "Succeeded"})
    BY <2>1, GcJobRows DEF GcInv, RowsClosed, ReferenceGateOpen
  <2>3. gcJob' = [gcJob EXCEPT ![c] = j]
    BY <1>2, <2>1 DEF EnqueueBlobGc, GcInv, GcTypeOK
  <2>4. UNCHANGED <<row, file, cid, used, blob, fileReq, deleting, gpc, cand, lock>>
    BY <1>2 DEF EnqueueBlobGc, gcVars
  <2>5. LocksSound' /\ stale' \subseteq Candidate
    BY <1>2, <2>4 DEF EnqueueBlobGc, GcInv, GcTypeOK, LocksSound
  <2> HIDE DEF j, c
  <2> QED
    BY <2>1, <2>2, <2>3, <2>4, <2>5, JobReplaced, JobsChangedInv DEF GcInv, GcTypeOK
<1> QED
  BY <1>1, <1>2

-----------------------------------------------------------------------------
(* Collectors.                                                             *)

\* A collector that ends gives up its locks.
LEMMA IdleLocks ==
    ASSUME GcInv, NEW g \in JobOwners, GcIdle(g),
           \A d \in Contents : lock[d] # g => row'[d] = row[d]
    PROVE  /\ LocksSound'
           /\ gpc' \in [JobOwners -> GcPc] /\ cand' \in [JobOwners -> Candidate]
           /\ lock' \in [Contents -> JobOwners \cup {NoLock}]
<1>1. /\ gpc' = [gpc EXCEPT ![g] = "idle"] /\ cand' = cand
      /\ lock' = [c \in Contents |-> IF lock[c] = g THEN NoLock ELSE lock[c]]
  BY DEF GcIdle
<1>2. /\ gpc' \in [JobOwners -> GcPc] /\ cand' \in [JobOwners -> Candidate]
      /\ lock' \in [Contents -> JobOwners \cup {NoLock}]
  BY <1>1 DEF GcInv, GcTypeOK, GcPc
<1>3. \A h \in JobOwners : cand[h].content \in Contents
  BY DEF GcInv, GcTypeOK, Candidate
<1>4. \A h \in JobOwners : gpc'[h] = "delete" => lock'[cand'[h].content] = h
  BY <1>1, <1>3 DEF GcInv, GcTypeOK, LocksSound
<1>5. \A c \in Contents, h \in JobOwners : lock'[c] = h =>
          /\ cand'[h].content = c /\ gpc'[h] \in {"delete", "deleted"}
          /\ row'[c].refs = 0 /\ row'[c].id = cand'[h].id
  <2> SUFFICES ASSUME NEW c \in Contents, NEW h \in JobOwners, lock'[c] = h
               PROVE  /\ cand'[h].content = c /\ gpc'[h] \in {"delete", "deleted"}
                      /\ row'[c].refs = 0 /\ row'[c].id = cand'[h].id
    OBVIOUS
  <2>1. lock[c] = h /\ h # g
    BY <1>1, NoLockAssumption
  <2>2. row'[c] = row[c] /\ gpc'[h] = gpc[h]
    BY <1>1, <2>1 DEF GcInv, GcTypeOK
  <2> QED
    BY <1>1, <2>1, <2>2 DEF GcInv, LocksSound
<1> QED
  BY <1>2, <1>4, <1>5 DEF LocksSound

\* A worker claims the job of a content.
LEMMA GcClaimInv ==
    ASSUME GcInv, NEW g \in JobOwners, NEW c \in Contents, GcClaim(g, c)
    PROVE  GcInv'
<1> DEFINE j == Claimed(gcJob[c], g)
           k == [content |-> c, id |-> row[c].made]
<1>1. gcJob[c] \in StorageJob /\ row[c].made \in Nat
  BY DEF GcInv, GcTypeOK, ContentRow
<1>2. j \in StorageJob /\ j.status = "Running"
  BY <1>1, GcJobRows DEF GcClaim
<1>3. k \in Candidate
  BY <1>1 DEF Candidate
<1>4. /\ gpc[g] = "idle" /\ gcJob' = [gcJob EXCEPT ![c] = j]
      /\ gpc' = [gpc EXCEPT ![g] = "claimed"] /\ cand' = [cand EXCEPT ![g] = k]
      /\ UNCHANGED <<row, file, cid, used, blob, reqVars, lock>>
  BY DEF GcClaim, SetJob
<1> HIDE DEF j, k
<1>5. \A d \in Contents : lock[d] # g
  BY <1>4 DEF GcInv, LocksSound
<1>6. LocksSound'
  BY <1>4, <1>5 DEF GcInv, GcTypeOK, LocksSound
<1>7. gpc' \in [JobOwners -> GcPc] /\ cand' \in [JobOwners -> Candidate]
  BY <1>3, <1>4 DEF GcInv, GcTypeOK, GcPc
<1> QED
  BY <1>2, <1>4, <1>6, <1>7, JobReplaced, JobsChangedInv DEF GcInv, GcTypeOK, reqVars

\* The collector finds nothing to do, or locks a row without references.
LEMMA GcStartInv ==
    ASSUME GcInv, NEW g \in JobOwners, GcStart(g)
    PROVE  GcInv'
<1> DEFINE c == cand[g].content
<1>0. c \in Contents /\ gcJob[c] \in StorageJob /\ row[c] \in ContentRow
  BY DEF GcInv, GcTypeOK, Candidate
<1>1. gpc[g] = "claimed" /\ UNCHANGED <<row, file, cid, used, blob, reqVars>>
  BY DEF GcStart
<1>2. CASE /\ row[c].id # cand[g].id \/ row[c].refs > 0
          /\ OwnsJob(g) /\ SetJob(c, MarkSucceeded(gcJob[c])) /\ GcIdle(g)
  <2> DEFINE j == MarkSucceeded(gcJob[c])
  <2>1. j \in StorageJob
    BY <1>0, GcJobRows
  <2>2. ~(row[c].id # 0 /\ row[c].refs = 0)
    BY <1>0, <1>2 DEF OwnsJob, GcInv, RowsClosed, ContentRow
  <2>3. gcJob' = [gcJob EXCEPT ![c] = j]
    BY <1>2 DEF SetJob
  <2> HIDE DEF j
  <2>4. /\ LocksSound' /\ gpc' \in [JobOwners -> GcPc] /\ cand' \in [JobOwners -> Candidate]
        /\ lock' \in [Contents -> JobOwners \cup {NoLock}]
    BY <1>1, <1>2, IdleLocks
  <2> QED
    BY <1>0, <1>1, <2>1, <2>2, <2>3, <2>4, JobReplaced, JobsChangedInv DEF GcInv, GcTypeOK, reqVars
<1>3. CASE /\ row[c].id = cand[g].id /\ RowFree(c) /\ row[c].refs = 0
          /\ gpc' = [gpc EXCEPT ![g] = "delete"] /\ lock' = [lock EXCEPT ![c] = g]
          /\ UNCHANGED <<gcJob, cand>>
  <2>1. gpc' \in [JobOwners -> GcPc] /\ lock' \in [Contents -> JobOwners \cup {NoLock}]
    BY <1>0, <1>3 DEF GcInv, GcTypeOK, GcPc
  <2>2. \A d \in Contents : lock[d] # g
    BY <1>1 DEF GcInv, LocksSound
  <2>3. \A h \in JobOwners : h # g /\ gpc[h] = "delete" => cand[h].content # c
    BY <1>3, NoLockAssumption DEF GcInv, LocksSound, RowFree
  <2>4. \A h \in JobOwners : cand[h].content \in Contents
    BY DEF GcInv, GcTypeOK, Candidate
  <2>5. LocksSound'
    BY <1>0, <1>1, <1>3, <2>2, <2>3, <2>4 DEF GcInv, GcTypeOK, LocksSound
  <2> QED
    BY <1>1, <1>3, <2>1, <2>5, JobsKept, JobsChangedInv DEF GcInv, GcTypeOK, reqVars
<1> QED
  BY <1>2, <1>3 DEF GcStart

\* The object is deleted, with the lock or after it was lost.
LEMMA GcDeleteInv ==
    ASSUME GcInv, NEW g \in JobOwners, GcDeleteBlob(g)
    PROVE  GcInv'
<1>1. /\ gpc' = [gpc EXCEPT ![g] = "deleted"] /\ blob' \subseteq Contents
      /\ UNCHANGED <<row, gcJob, file, cid, used, reqVars, cand, lock>>
  BY DEF GcDeleteBlob, dbVars, GcInv, GcTypeOK
<1>2. gpc' \in [JobOwners -> GcPc]
  BY <1>1 DEF GcInv, GcTypeOK, GcPc
<1>3. LocksSound'
  BY <1>1 DEF GcInv, GcTypeOK, LocksSound
<1> QED
  BY <1>1, <1>2, <1>3, JobsKept, JobsChangedInv DEF GcInv, GcTypeOK, reqVars

\* The transaction commits: the row goes; the lock has kept it unreferenced.
LEMMA GcCommitInv ==
    ASSUME GcInv, NEW g \in JobOwners, GcCommit(g)
    PROVE  GcInv'
<1> DEFINE c == cand[g].content
           r == [row[c] EXCEPT !.id = 0]
           j == MarkSucceeded(gcJob[c])
<1>0. c \in Contents /\ gcJob[c] \in StorageJob /\ row[c] \in ContentRow
  BY DEF GcInv, GcTypeOK, Candidate
<1>1. r \in ContentRow /\ r.id = 0 /\ r.refs = row[c].refs
  BY <1>0 DEF ContentRow
<1>2. j \in StorageJob
  BY <1>0, GcJobRows
<1>3. /\ lock[c] = g /\ row' = [row EXCEPT ![c] = r] /\ gcJob' = [gcJob EXCEPT ![c] = j] /\ GcIdle(g)
      /\ UNCHANGED <<file, cid, used, blob, fileReq, deleting, stale>>
  BY <1>0 DEF GcCommit, SetJob, reqVars, GcInv, GcTypeOK
<1> HIDE DEF r, j
<1>4. row[c].refs = 0 /\ LiveOf(c) = {}
  <2>1. row[c].refs = 0 /\ Cardinality(LiveOf(c)) = 0
    BY <1>0, <1>3, RefsDef DEF GcInv, LocksSound
  <2>2. LiveOf(c) \in SUBSET Files
    BY DEF LiveOf
  <2>3. IsFiniteSet(LiveOf(c))
    BY <2>2, FileSizes
  <2> QED
    BY <2>1, <2>3, FS_EmptySet
<1>5. /\ LocksSound' /\ gpc' \in [JobOwners -> GcPc] /\ cand' \in [JobOwners -> Candidate]
      /\ lock' \in [Contents -> JobOwners \cup {NoLock}]
  BY <1>0, <1>3, IdleLocks DEF GcInv, GcTypeOK
<1>6. GcTypeOK'
  BY <1>0, <1>1, <1>2, <1>3, <1>5 DEF GcInv, GcTypeOK
<1>7. RefsMatchFiles'
  <2>1. \A d \in Contents : row'[d].refs = row[d].refs
    BY <1>0, <1>1, <1>3 DEF GcInv, GcTypeOK
  <2>2. \A f \in Files : Live(f) => ContentOf[f] # c
    BY <1>4 DEF LiveOf
  <2>3. \A f \in Files : Live(f) => row'[ContentOf[f]].id = row[ContentOf[f]].id
    BY <1>3, <2>2, ContentAssumption DEF GcInv, GcTypeOK
  <2>4. \A f \in Files : Live(f)' <=> Live(f)
    BY <1>3 DEF Live
  <2> QED
    BY <1>3, <2>1, <2>3, <2>4, RefsKept DEF GcInv
<1>8. RowsClosed'
  BY <1>0, <1>1, <1>3 DEF GcInv, GcTypeOK, RowsClosed, ReferenceGateOpen
<1>9. RequestsSound'
  BY <1>3 DEF GcInv, RequestsSound, Live
<1> QED
  BY <1>5, <1>6, <1>7, <1>8, <1>9 DEF GcInv

\* A failure rolls back; a lost connection takes the lock.
LEMMA GcFailsInv ==
    ASSUME GcInv, NEW g \in JobOwners, NEW b \in BOOLEAN, GcFails(g, b)
    PROVE  GcInv'
<1> DEFINE c == cand[g].content
           j == MarkFailed(gcJob[c], b)
<1>0. c \in Contents /\ gcJob[c] \in StorageJob
  BY DEF GcInv, GcTypeOK, Candidate
<1>1. j \in StorageJob /\ j.status \in {"Retry", "DeadLetter"}
  BY <1>0, GcJobRows
<1>2. /\ UNCHANGED <<row, file, cid, used, blob, reqVars>> /\ GcIdle(g)
      /\ gcJob' = [gcJob EXCEPT ![c] = j] \/ UNCHANGED gcJob
  BY DEF GcFails, SetJob
<1> HIDE DEF j
<1>3. /\ LocksSound' /\ gpc' \in [JobOwners -> GcPc] /\ cand' \in [JobOwners -> Candidate]
      /\ lock' \in [Contents -> JobOwners \cup {NoLock}]
  BY <1>2, IdleLocks
<1>4. /\ gcJob' \in [Contents -> StorageJob]
      /\ \A d \in Contents : row[d].id # 0 /\ row[d].refs = 0
                             => gcJob'[d].status \notin {"None", "Succeeded"}
  BY <1>0, <1>1, <1>2, JobReplaced, JobsKept
<1> QED
  BY <1>2, <1>3, <1>4, JobsChangedInv DEF GcInv, GcTypeOK, reqVars

\* A worker that loses its connection loses its row lock, and goes on.
LEMMA LoseConnectionInv ==
    ASSUME GcInv, NEW g \in JobOwners, LoseConnection(g)
    PROVE  GcInv'
<1> DEFINE c == cand[g].content
<1>0. c \in Contents /\ \A h \in JobOwners : cand[h].content \in Contents
  BY DEF GcInv, GcTypeOK, Candidate
<1>1. /\ gpc[g] = "delete" /\ gpc' = [gpc EXCEPT ![g] = "detached"]
      /\ lock' = [lock EXCEPT ![c] = NoLock]
      /\ UNCHANGED <<row, gcJob, file, cid, used, blob, reqVars, cand>>
  BY DEF LoseConnection, dbVars
<1>2. gpc' \in [JobOwners -> GcPc] /\ lock' \in [Contents -> JobOwners \cup {NoLock}]
  BY <1>1 DEF GcInv, GcTypeOK, GcPc
<1>3. lock[c] = g
  BY <1>1 DEF GcInv, LocksSound
<1>4. LocksSound'
  <2>1. \A h \in JobOwners : gpc'[h] = "delete" => lock'[cand'[h].content] = h
    BY <1>0, <1>1, <1>3 DEF GcInv, GcTypeOK, LocksSound
  <2>2. \A d \in Contents, h \in JobOwners : lock'[d] = h =>
          /\ cand'[h].content = d /\ gpc'[h] \in {"delete", "deleted"}
          /\ row'[d].refs = 0 /\ row'[d].id = cand'[h].id
    <3> SUFFICES ASSUME NEW d \in Contents, NEW h \in JobOwners, lock'[d] = h
                 PROVE  /\ cand'[h].content = d /\ gpc'[h] \in {"delete", "deleted"}
                        /\ row'[d].refs = 0 /\ row'[d].id = cand'[h].id
      OBVIOUS
    <3>1. d # c /\ lock[d] = h
      BY <1>0, <1>1, NoLockAssumption DEF GcInv, GcTypeOK
    <3>2. cand[h].content = d /\ h # g
      BY <3>1 DEF GcInv, LocksSound
    <3> QED
      BY <1>1, <3>1, <3>2 DEF GcInv, GcTypeOK, LocksSound
  <2> QED
    BY <2>1, <2>2 DEF LocksSound
<1> QED
  BY <1>1, <1>2, <1>4, JobsKept, JobsChangedInv DEF GcInv, GcTypeOK, reqVars

-----------------------------------------------------------------------------
(* The theorems.                                                           *)

\* Every step keeps the invariant.
LEMMA GcNextInv == GcInv /\ [GcNext]_blobVars => GcInv'
<1> SUFFICES ASSUME GcInv, [GcNext]_blobVars PROVE GcInv'
  OBVIOUS
<1>1. CASE UNCHANGED blobVars
  BY <1>1 DEF GcInv, GcTypeOK, RefsMatchFiles, RowsClosed, RequestsSound, LocksSound,
              ReferenceGateOpen, Live, blobVars, dbVars, reqVars, gcVars
<1>2. ASSUME NEW f \in Files, FileStep(f) PROVE GcInv'
  BY <1>2, RequestStepInv, AcquireInv, TrashInv DEF FileStep
<1>3. ASSUME NEW d \in Deleters, DeleterStep(d) PROVE GcInv'
  <2>1. {} \in SUBSET Files
    OBVIOUS
  <2> QED
    BY <1>3, <2>1, DeletionReadInv, PermanentDeletionInv DEF DeleterStep
<1>4. ASSUME NEW c \in Contents, ContentStep(c) PROVE GcInv'
  BY <1>4, ScanInv, JobTimeInv DEF ContentStep
<1>5. ASSUME NEW k \in stale, EnqueueBlobGc(k) PROVE GcInv'
  BY <1>5, ScanInv
<1>6. ASSUME NEW g \in JobOwners, CollectorStep(g) PROVE GcInv'
  BY <1>6, GcClaimInv, GcStartInv, GcDeleteInv, GcCommitInv, GcFailsInv, LoseConnectionInv
  DEF CollectorStep
<1> QED
  BY <1>1, <1>2, <1>3, <1>4, <1>5, <1>6 DEF GcNext

\* The initial state satisfies the invariant.
LEMMA GcInitInv == GcInit => GcInv
<1> SUFFICES ASSUME GcInit PROVE GcInv
  OBVIOUS
<1>1. \A f \in Files : ~Live(f)
  BY DEF GcInit, Live
<1>2. RefsMatchFiles
  <2>1. \A c \in Contents : LiveOf(c) = {}
    BY <1>1 DEF LiveOf
  <2>2. \A x \in Users : OwnedBy(x) = {}
    BY <1>1 DEF OwnedBy
  <2>3. Cardinality({}) = 0
    BY FS_EmptySet
  <2>4. SumBytes({}) = 0
    BY FileSizes, TotalEmpty
  <2>5. \A c \in Contents : row[c].refs = Cardinality(LiveOf(c))
    BY <2>1, <2>3 DEF GcInit
  <2>6. \A x \in Users : used[x] = SumBytes(OwnedBy(x))
    BY <2>2, <2>4 DEF GcInit
  <2> QED
    BY <1>1, <2>5, <2>6, RefsDef
<1>3. GcTypeOK
  <2>1. NoJobRow \in StorageJob
    BY AttemptsAssumption DEF NoJobRow, StorageJob, JobStatus
  <2>2. NoReq \in [pc : ReqPc, seen : Nat]
    BY DEF NoReq, ReqPc
  <2>3. [content |-> CHOOSE c \in Contents : TRUE, id |-> 0] \in Candidate
    BY TablesAssumption DEF Candidate
  <2>4. [id |-> 0, refs |-> 0, made |-> 0] \in ContentRow
    BY DEF ContentRow
  <2> QED
    BY <2>1, <2>2, <2>3, <2>4 DEF GcInit, GcTypeOK, GcPc
<1>4. RowsClosed /\ RequestsSound
  BY <1>1 DEF GcInit, RowsClosed, RequestsSound, NoReq
<1>5. LocksSound
  BY NoLockAssumption DEF GcInit, LocksSound
<1> QED
  BY <1>2, <1>3, <1>4, <1>5 DEF GcInv

\* The invariant holds in every reachable state.
LEMMA GcInvariant == GcSpec => []GcInv
BY GcInitInv, GcNextInv, PTL DEF GcSpec

\* Reference counts are exactly the files and trash entries of a content,
\* and a user's bytes exactly theirs, for any number of them and through any
\* race of completions, instant uploads, copies, deletions and collectors
\* (IncrementRefCount, DecrementRefCountsAndEnqueueGc, ExecuteBlobGc).
THEOREM GcConsistentHolds == GcSpec => []GcConsistent
<1>1. GcInv => GcConsistent
  BY DEF GcInv, GcConsistent
<1> QED
  BY <1>1, GcInvariant, PTL

\* A row without references only goes (CheckBlobGcReferenceGate): none of the
\* three operations that count up gets past the gate of its job.
LEMMA ZeroStep ==
    ASSUME GcInv, [GcNext]_blobVars, NEW c \in Contents, row[c].id # 0, row[c].refs = 0
    PROVE  row'[c].id = 0 \/ row'[c] = row[c]
<1>0. row[c] \in ContentRow /\ ~ReferenceGateOpen(c)
  BY DEF GcInv, GcTypeOK, RowsClosed
<1>1. CASE UNCHANGED row
  BY <1>1
<1>2. ASSUME NEW f \in Files, AcquireReference(f) \/ IncrementRefCount(f) PROVE row'[c] = row[c]
  <2>1. ContentOf[f] # c
    BY <1>0, <1>2 DEF AcquireReference, IncrementRefCount
  <2> QED
    BY <1>2, <2>1 DEF AcquireReference, IncrementRefCount, GcInv, GcTypeOK
<1>3. ASSUME NEW d \in Deleters, PermanentlyDeleteTrashItems(d) PROVE row'[c] = row[c]
  <2>1. row'[c] = [row[c] EXCEPT !.refs = Without(0, Cardinality(Uses(deleting[d], c)))]
    BY <1>3 DEF PermanentlyDeleteTrashItems, Purge, DecrementRefCountsAndEnqueueGc
  <2>2. Uses(deleting[d], c) \in SUBSET Files
    BY DEF Uses, GcInv, GcTypeOK
  <2>3. Cardinality(Uses(deleting[d], c)) \in Nat
    BY <2>2, FileSizes
  <2>4. Without(0, Cardinality(Uses(deleting[d], c))) = 0
    BY <2>3 DEF Without
  <2> QED
    BY <1>0, <2>1, <2>4 DEF ContentRow
<1>4. ASSUME NEW g \in JobOwners, GcCommit(g) PROVE row'[c].id = 0 \/ row'[c] = row[c]
  BY <1>0, <1>4 DEF GcCommit, GcInv, GcTypeOK, ContentRow
<1> QED
  BY <1>1, <1>2, <1>3, <1>4
  DEF GcNext, FileStep, DeleterStep, ContentStep, CollectorStep, Lookup, PromoteToFinal,
      FindContent, RequestEnds, MoveToTrash, RestoreFile, ReadTrash, DeletionEnds, ScanContent,
      EnqueueBlobGc, GcClaim, GcStart, GcDeleteBlob, GcFails, LoseConnection, GcLeaseRunsOut,
      GcBecomesDue, GcSweepExhausted, GcReplayDeadLetter, JobChanges, blobVars, dbVars

\* A content whose count has reached zero is never used again under its id.
THEOREM ZeroIsFinalHolds == GcSpec => ZeroIsFinal
<1>1. GcInv /\ [GcNext]_blobVars =>
        [\A c \in Contents : row[c].id # 0 /\ row[c].refs = 0
                              => row'[c].id = 0 \/ row'[c] = row[c]]_blobVars
  BY ZeroStep
<1> QED
  BY <1>1, GcInvariant, PTL DEF GcSpec, ZeroIsFinal

\* Only a collector takes an object away, and one that has its lock holds a
\* row without references.
LEMMA KeptStep ==
    ASSUME GcInv, [GcNext]_blobVars, NEW c \in blob, row[c].refs > 0, ~LockLost(c)
    PROVE  c \in blob'
<1>0. c \in Contents /\ row[c].refs # 0
  BY DEF GcInv, GcTypeOK, ContentRow
<1>1. CASE blob \subseteq blob'
  BY <1>1
<1>2. ASSUME NEW g \in JobOwners, GcDeleteBlob(g) PROVE c \in blob'
  <2>1. gpc[g] = "delete" => lock[cand[g].content] = g
    BY DEF GcInv, LocksSound
  <2>2. cand[g].content # c
    BY <1>0, <1>2, <2>1 DEF GcDeleteBlob, LockLost, GcInv, LocksSound
  <2> QED
    BY <1>2, <2>2 DEF GcDeleteBlob
<1> QED
  BY <1>1, <1>2
  DEF GcNext, FileStep, DeleterStep, ContentStep, CollectorStep, Lookup, PromoteToFinal,
      AcquireReference, IncrementRefCount, PermanentlyDeleteTrashItems, GcCommit,
      FindContent, RequestEnds, MoveToTrash, RestoreFile, ReadTrash, DeletionEnds, ScanContent,
      EnqueueBlobGc, GcClaim, GcStart, GcFails, LoseConnection, GcLeaseRunsOut,
      GcBecomesDue, GcSweepExhausted, GcReplayDeadLetter, JobChanges, blobVars

\* The collector never takes the object of a referenced content while the
\* database keeps its lock, whatever its lease (ExecuteBlobGc).
THEOREM ReferencedBlobKeptHolds == GcSpec => ReferencedBlobKept
<1>1. GcInv /\ [GcNext]_blobVars =>
        [\A c \in blob : row[c].refs > 0 /\ ~LockLost(c) => c \in blob']_blobVars
  BY KeptStep
<1> QED
  BY <1>1, GcInvariant, PTL DEF GcSpec, ReferencedBlobKept

=============================================================================
