----------------------------- MODULE FolderTree -----------------------------
(***************************************************************************)
(* The folders and files of one user and the requests that change them:    *)
(* create, rename, move, upload into a folder, move to trash, restore.     *)
(*                                                                         *)
(* Every request is one READ COMMITTED transaction (TransactionRunner).    *)
(* Its writes are applied when it commits; until then the other requests   *)
(* read the rows as they were and wait for the rows it has locked.  Reads  *)
(* that lock nothing (the recursive subtree queries, the existence check   *)
(* of an upload) are steps of their own: what they saw may be stale when   *)
(* it is used.  A request may fail at any statement, also as the victim of *)
(* a deadlock, and is then rolled back.                                    *)
(*                                                                         *)
(* Paths, depths and times are left out.  Names are unique in a folder:    *)
(* UNIQUE (user_id, parent_id, name) and the advisory name locks.          *)
(***************************************************************************)
EXTENDS Naturals, FiniteSets

CONSTANTS
    FolderIds,      \* ids of folder rows, positive numbers; 0 is the root
    FileIds,        \* ids of file rows
    Names,
    Requests,
    NoRequest,
    StartFolders,   \* [subset of FolderIds -> [parent, name]]: rows at the start
    StartFiles,     \* [subset of FileIds -> [folder, name]]
    MaxBatch        \* items of one move or delete request

Root == 0

ASSUME FolderIdAssumption == FolderIds \subseteq Nat \ {Root} /\ IsFiniteSet(FolderIds)
ASSUME FileIdAssumption   == FileIds \subseteq Nat /\ IsFiniteSet(FileIds)
ASSUME RequestAssumption  == NoRequest \notin Requests
ASSUME StartAssumption    ==
    /\ Names # {} /\ DOMAIN StartFolders \subseteq FolderIds /\ DOMAIN StartFiles \subseteq FileIds
    /\ \A d \in DOMAIN StartFolders :
          StartFolders[d].parent \in DOMAIN StartFolders \cup {Root} /\ StartFolders[d].name \in Names
    /\ \A f \in DOMAIN StartFiles :
          StartFiles[f].folder \in DOMAIN StartFolders \cup {Root} /\ StartFiles[f].name \in Names

VARIABLES
    folders,    \* table folders
    files,      \* table files
    trash,      \* table trash, with the snapshot of a folder's subtree
    rowLock,    \* the request that holds a folder row FOR UPDATE
    treq,       \* what a request is doing and what it has read
    uploaded    \* history: files an upload has inserted

treeVars == <<folders, files, trash, rowLock, treq, uploaded>>

Parents == FolderIds \cup {Root}

\* A row that was never inserted, or was deleted.  Ids are never given twice.
FolderRow == [st : {"free", "live", "gone"}, parent : Parents, name : Names, count : Nat]
FileRow   == [st : {"free", "pending", "live", "gone"}, folder : Parents, name : Names]

LiveFolders == {d \in FolderIds : folders[d].st = "live"}
LiveFiles   == {f \in FileIds : files[f].st = "live"}
FreeFolders == {d \in FolderIds : folders[d].st = "free"}
FreeFiles   == {f \in FileIds : files[f].st = "free"}

ChildFolders(d) == {c \in LiveFolders : folders[c].parent = d}
ChildFiles(d)   == {f \in LiveFiles : files[f].folder = d}

IdleRequest == [pc |-> "idle", files |-> {}, folders |-> {}, target |-> Root,
                plan |-> {}, found |-> {}]

TreeInit ==
    /\ folders = [d \in FolderIds |->
          IF d \in DOMAIN StartFolders
          THEN [st |-> "live", parent |-> StartFolders[d].parent, name |-> StartFolders[d].name,
                count |-> Cardinality({c \in DOMAIN StartFolders : StartFolders[c].parent = d})
                          + Cardinality({f \in DOMAIN StartFiles : StartFiles[f].folder = d})]
          ELSE [st |-> "free", parent |-> Root, name |-> CHOOSE n \in Names : TRUE, count |-> 0]]
    /\ files = [f \in FileIds |->
          IF f \in DOMAIN StartFiles
          THEN [st |-> "live", folder |-> StartFiles[f].folder, name |-> StartFiles[f].name]
          ELSE [st |-> "free", folder |-> Root, name |-> CHOOSE n \in Names : TRUE]]
    /\ trash = {}
    /\ rowLock = [d \in FolderIds |-> NoRequest]
    /\ treq = [r \in Requests |-> IdleRequest]
    /\ uploaded = {}

-----------------------------------------------------------------------------
(* Statements.                                                             *)

\* The recursive query under a folder: the folder and what is below it, that
\* is, what every set has that has the folder and the children of its members.
ClosedBelow(s) == \A d \in LiveFolders : folders[d].parent \in s => d \in s

FetchFolderSubtree(root) ==
    {d \in LiveFolders :
        \A s \in SUBSET LiveFolders : {root} \cap LiveFolders \subseteq s /\ ClosedBelow(s) => d \in s}

\* WITH RECURSIVE ... UNION ALL does not end on a folder that is its own ancestor.
QueryEnds(roots) ==
    \A d \in roots \cap LiveFolders : folders[d].parent \notin FetchFolderSubtree(d)

\* The requested folders that no other requested folder contains.
FilterCoveredFolderIds(ids) ==
    {d \in ids \cap LiveFolders : ~\E e \in ids \ {d} : d \in FetchFolderSubtree(e)}

FetchFilesInFolders(ds) == {f \in LiveFiles : files[f].folder \in ds}

\* FOR UPDATE and UPDATE wait while another request holds the row.
CanLock(r, ds) == \A d \in ds \cap FolderIds : rowLock[d] \in {r, NoRequest}

Exists(d) == d = Root \/ d \in LiveFolders

FolderNameTaken(p, n, except) ==
    \E d \in ChildFolders(p) \ except : folders[d].name = n
FileNameTaken(p, n, except) ==
    \/ \E f \in ChildFiles(p) \ except : files[f].name = n
    \/ \E f \in FileIds : files[f] = [st |-> "pending", folder |-> p, name |-> n]

\* item_count of the folders, each changed by delta[d] (GREATEST(.., 0)).
Counted(rows, plus, minus) ==
    [d \in FolderIds |->
        LET c == rows[d].count + plus[d]
        IN [rows[d] EXCEPT !.count = IF c > minus[d] THEN c - minus[d] ELSE 0]]
None      == [d \in FolderIds |-> 0]
One(p)    == [d \in FolderIds |-> IF d = p THEN 1 ELSE 0]

\* Commit and rollback give the locks back; a request runs once.
Ends(r) ==
    /\ rowLock' = [d \in FolderIds |-> IF rowLock[d] = r THEN NoRequest ELSE rowLock[d]]
    /\ treq' = [treq EXCEPT ![r] = [IdleRequest EXCEPT !.pc = "done"]]

Refused(r) == Ends(r) /\ UNCHANGED <<folders, files, trash, uploaded>>

-----------------------------------------------------------------------------
(* FolderService: requests whose reads are all of rows they have locked.   *)

CreateFolder(r, p, n) ==
    /\ treq[r].pc = "idle"
    /\ CanLock(r, {p})
    /\ IF ~Exists(p) \/ FolderNameTaken(p, n, {})
       THEN Refused(r)
       ELSE \E d \in FreeFolders :
              /\ \A e \in FreeFolders : d <= e
              /\ folders' = Counted([folders EXCEPT ![d] =
                    [st |-> "live", parent |-> p, name |-> n, count |-> 0]], One(p), None)
              /\ Ends(r)
              /\ UNCHANGED <<files, trash, uploaded>>

RenameFolder(r, d, n) ==
    /\ treq[r].pc = "idle"
    /\ QueryEnds({d})
    /\ CanLock(r, FetchFolderSubtree(d) \cup {d, folders[d].parent})
    /\ IF d \notin LiveFolders \/ ~Exists(folders[d].parent)
          \/ FolderNameTaken(folders[d].parent, n, {d})
       THEN Refused(r)
       ELSE /\ folders' = [folders EXCEPT ![d].name = n]
            /\ Ends(r)
            /\ UNCHANGED <<files, trash, uploaded>>

RenameFile(r, f, n) ==
    /\ treq[r].pc = "idle"
    /\ IF f \notin LiveFiles \/ FileNameTaken(files[f].folder, n, {f}) \/ ~Exists(files[f].folder)
       THEN Refused(r)
       ELSE /\ files' = [files EXCEPT ![f].name = n]
            /\ Ends(r)
            /\ UNCHANGED <<folders, trash, uploaded>>

-----------------------------------------------------------------------------
(* UploadLifecycleService: the transaction that inserts the uploaded file  *)
(* reads the folder without a lock, inserts the row, then counts it in.    *)

UploadInsert(r, p, n) ==
    /\ treq[r].pc = "idle"
    /\ IF ~Exists(p) \/ FileNameTaken(p, n, {})
       THEN Refused(r)
       ELSE \E f \in FreeFiles :
              /\ \A g \in FreeFiles : f <= g
              /\ files' = [files EXCEPT ![f] = [st |-> "pending", folder |-> p, name |-> n]]
              /\ treq' = [treq EXCEPT ![r] = [@ EXCEPT !.pc = "counting", !.files = {f}, !.target = p]]
              /\ uploaded' = uploaded \cup {f}
              /\ UNCHANGED <<folders, trash, rowLock>>

\* The result of ApplyItemCountDelta is not looked at: a folder that is gone
\* by now changes no row, and the transaction commits.
UploadCount(r) ==
    /\ treq[r].pc = "counting"
    /\ CanLock(r, {treq[r].target})
    /\ files' = [f \in FileIds |->
          IF f \in treq[r].files THEN [files[f] EXCEPT !.st = "live"] ELSE files[f]]
    /\ folders' = IF treq[r].target \in LiveFolders
                  THEN Counted(folders, One(treq[r].target), None) ELSE folders
    /\ Ends(r)
    /\ UNCHANGED <<trash, uploaded>>

-----------------------------------------------------------------------------
(* FileMutationService::Move                                               *)

\* The target is looked up before the transaction begins.
MoveStart(r, fs, ds, target) ==
    /\ treq[r].pc = "idle"
    /\ IF Exists(target)
       THEN /\ treq' = [treq EXCEPT ![r] = [@ EXCEPT !.pc = "lock", !.files = fs,
                                                      !.folders = ds, !.target = target]]
            /\ UNCHANGED <<folders, files, trash, rowLock, uploaded>>
       ELSE Refused(r)

\* Files that change folder: found, elsewhere, and the name is free; of two
\* with one name the first moves.
MovedFiles(r) ==
    LET coming == {f \in treq[r].files \cap LiveFiles : files[f].folder # treq[r].target}
    IN {f \in coming : /\ ~FileNameTaken(treq[r].target, files[f].name, {})
                       /\ \A g \in coming : files[g].name = files[f].name => f <= g}

FilesRows(r) ==
    IF MovedFiles(r) = {} THEN {}
    ELSE {treq[r].target} \cup {files[f].folder : f \in MovedFiles(r)}

\* The rows of the files with their folders' counts, then the moved folders.
MoveLock(r) ==
    /\ treq[r].pc = "lock"
    /\ LET rows == (treq[r].folders \cup FilesRows(r)) \cap LiveFolders
       IN /\ CanLock(r, rows)
          /\ rowLock' = [d \in FolderIds |-> IF d \in rows THEN r ELSE rowLock[d]]
    /\ treq' = [treq EXCEPT ![r].pc = "plan"]
    /\ UNCHANGED <<folders, files, trash, uploaded>>

\* FetchBatchFolderDeletePlans: a read of the subtrees that locks nothing.
MovePlan(r) ==
    /\ treq[r].pc = "plan"
    /\ QueryEnds(treq[r].folders)
    /\ LET tops  == FilterCoveredFolderIds(treq[r].folders)
           below == UNION {FetchFolderSubtree(d) : d \in tops}
       IN IF treq[r].target \in below
          THEN Refused(r)
          ELSE /\ treq' = [treq EXCEPT ![r].pc = "commit", ![r].folders = tops, ![r].plan = below]
               /\ UNCHANGED <<folders, files, trash, rowLock, uploaded>>

MovedFolders(r) ==
    LET coming == {d \in treq[r].folders : folders[d].parent # treq[r].target}
    IN {d \in coming : /\ ~FolderNameTaken(treq[r].target, folders[d].name, {})
                       /\ \A e \in coming : folders[e].name = folders[d].name => d <= e}

\* The updates of the planned rows and of the counts; one that finds no row
\* rolls everything back.
MoveCommit(r) ==
    LET target  == treq[r].target
        mf      == MovedFiles(r)
        md      == MovedFolders(r)
        written == (IF md = {} THEN {} ELSE treq[r].plan)
                   \cup {folders[d].parent : d \in md} \cup FilesRows(r)
                   \cup (IF md = {} THEN {} ELSE {target})
        left    == [d \in FolderIds |-> Cardinality({f \in mf : files[f].folder = d})
                                        + Cardinality({e \in md : folders[e].parent = d})]
        came    == [d \in FolderIds |-> IF d = target THEN Cardinality(mf) + Cardinality(md) ELSE 0]
    IN /\ treq[r].pc = "commit"
       /\ CanLock(r, written)
       /\ IF \E d \in written : ~Exists(d)
          THEN Refused(r)
          ELSE /\ folders' = Counted([d \in FolderIds |->
                                 IF d \in md THEN [folders[d] EXCEPT !.parent = target] ELSE folders[d]],
                                 came, left)
               /\ files' = [f \in FileIds |->
                                 IF f \in mf THEN [files[f] EXCEPT !.folder = target] ELSE files[f]]
               /\ Ends(r)
               /\ UNCHANGED <<trash, uploaded>>

-----------------------------------------------------------------------------
(* TrashService::MoveToTrash                                               *)

TrashStart(r, fs, ds) ==
    /\ treq[r].pc = "idle"
    /\ treq' = [treq EXCEPT ![r] = [@ EXCEPT !.pc = "discover", !.files = fs, !.folders = ds]]
    /\ UNCHANGED <<folders, files, trash, rowLock, uploaded>>

\* The loop: read the subtrees, lock what is not locked yet, read again,
\* until a read discovers nothing new.
TrashDiscover(r) ==
    /\ treq[r].pc = "discover"
    /\ QueryEnds(treq[r].folders)
    /\ LET below == UNION {FetchFolderSubtree(d) : d \in FilterCoveredFolderIds(treq[r].folders)}
       IN treq' = [treq EXCEPT ![r] =
              [@ EXCEPT !.plan = below, !.found = FetchFilesInFolders(below),
                        !.pc = IF \A d \in below : rowLock[d] = r THEN "delete" ELSE "stabilize"]]
    /\ UNCHANGED <<folders, files, trash, rowLock, uploaded>>

TrashStabilize_NoReread(r) ==
    /\ treq[r].pc = "stabilize"
    /\ CanLock(r, treq[r].plan)
    /\ rowLock' = [d \in FolderIds |->
                     IF d \in treq[r].plan \cap LiveFolders THEN r ELSE rowLock[d]]
    /\ treq' = [treq EXCEPT ![r].pc = "delete"]
    /\ UNCHANGED <<folders, files, trash, uploaded>>

TrashStabilize(r) ==
    /\ treq[r].pc = "stabilize"
    /\ CanLock(r, treq[r].plan)
    /\ rowLock' = [d \in FolderIds |->
                     IF d \in treq[r].plan \cap LiveFolders THEN r ELSE rowLock[d]]
    /\ treq' = [treq EXCEPT ![r].pc = "discover"]
    /\ UNCHANGED <<folders, files, trash, uploaded>>

\* BuildFolderSnapshot: the subtree of a deleted folder, with its files.
FolderSnapshot(d, ds, fs) ==
    [kind |-> "folder", parent |-> folders[d].parent, name |-> folders[d].name, root |-> d,
     folders |-> [c \in ds |-> [parent |-> folders[c].parent, name |-> folders[c].name,
                                count |-> folders[c].count]],
     files |-> [f \in fs |-> [folder |-> files[f].folder, name |-> files[f].name]]]
FileSnapshot(f) ==
    [kind |-> "file", parent |-> files[f].folder, name |-> files[f].name, root |-> f,
     folders |-> [c \in {} |-> 0], files |-> [g \in {} |-> 0]]

\* The files are locked and read again; trash rows are inserted, the parents
\* outside are counted down, the rows are deleted.
TrashDelete(r) ==
    LET tops     == FilterCoveredFolderIds(treq[r].folders)
        covered  == {f \in (treq[r].found \cup treq[r].files) \cap LiveFiles :
                        files[f].folder \in treq[r].plan}
        explicit == (treq[r].files \cap LiveFiles) \ covered
        outside  == ({files[f].folder : f \in explicit} \cup {folders[d].parent : d \in tops}) \ {Root}
        left     == [d \in FolderIds |-> Cardinality({f \in explicit : files[f].folder = d})
                                         + Cardinality({e \in tops : folders[e].parent = d})]
        inside(d) == FetchFolderSubtree(d)
    IN /\ treq[r].pc = "delete"
       /\ CanLock(r, outside)
       /\ IF tops \cup explicit = {} \/ \E d \in outside : ~Exists(d)
          THEN Refused(r)
          ELSE /\ trash' = trash \cup {FileSnapshot(f) : f \in explicit}
                             \cup {FolderSnapshot(d, inside(d),
                                        {f \in covered : files[f].folder \in inside(d)}) : d \in tops}
               /\ folders' = Counted([d \in FolderIds |->
                                 IF d \in treq[r].plan THEN [folders[d] EXCEPT !.st = "gone"] ELSE folders[d]],
                                 None, left)
               /\ files' = [f \in FileIds |->
                                 IF f \in covered \cup explicit
                                 THEN [files[f] EXCEPT !.st = "gone"] ELSE files[f]]
               /\ Ends(r)
               /\ UNCHANGED uploaded

-----------------------------------------------------------------------------
(* TrashService::RestoreFolder and RestoreFile: new rows under the original *)
(* parent, or under the root when it is gone.                               *)

\* New ids for old ones.
Renumbering(old, fresh) ==
    {m \in [old -> fresh] : \A a, b \in old : m[a] = m[b] => a = b}

\* The item's own name or, when it is taken, the first numbered one.
RestoredName(n, taken) == IF n \in taken THEN Names \ taken ELSE {n}

\* The rows of the snapshot's folders under new ids: the root below p with the
\* free name, the others below their parents' new rows.
RestoredFolders(t, p, n, md) ==
    LET old      == DOMAIN t.folders
        oldOf(d) == CHOOSE o \in old : md[o] = d
    IN [d \in FolderIds |->
          IF d \notin {md[o] : o \in old} THEN folders[d]
          ELSE [st |-> "live",
                parent |-> IF oldOf(d) = t.root THEN p ELSE md[t.folders[oldOf(d)].parent],
                name |-> IF oldOf(d) = t.root THEN n ELSE t.folders[oldOf(d)].name,
                count |-> t.folders[oldOf(d)].count]]

TrashedFiles(t) == IF t.kind = "folder" THEN DOMAIN t.files ELSE {t.root}

RestoredFiles(t, p, n, md, mf) ==
    LET old      == TrashedFiles(t)
        oldOf(f) == CHOOSE o \in old : mf[o] = f
    IN [f \in FileIds |->
          IF f \notin {mf[o] : o \in old} THEN files[f]
          ELSE IF t.kind = "file" THEN [st |-> "live", folder |-> p, name |-> n]
          ELSE [st |-> "live", folder |-> md[t.files[oldOf(f)].folder], name |-> t.files[oldOf(f)].name]]

RestoreFolder(t, p) ==
    \E md \in Renumbering(DOMAIN t.folders, FreeFolders), mf \in Renumbering(TrashedFiles(t), FreeFiles) :
        \E n \in RestoredName(t.name, {m \in Names : FolderNameTaken(p, m, {})}) :
            /\ folders' = Counted(RestoredFolders(t, p, n, md), One(p), None)
            /\ files' = RestoredFiles(t, p, n, md, mf)

RestoreFile(t, p) ==
    \E mf \in Renumbering(TrashedFiles(t), FreeFiles) :
        \E n \in RestoredName(t.name, {m \in Names : FileNameTaken(p, m, {})}) :
            /\ folders' = Counted(folders, One(p), None)
            /\ files' = RestoredFiles(t, p, n, <<>>, mf)

RestoreTrashed(r, t) ==
    LET p == IF Exists(t.parent) THEN t.parent ELSE Root
    IN /\ treq[r].pc = "idle"
       /\ CanLock(r, {t.parent})
       /\ IF t.kind = "folder" THEN RestoreFolder(t, p) ELSE RestoreFile(t, p)
       /\ trash' = trash \ {t}
       /\ Ends(r)
       /\ UNCHANGED uploaded

-----------------------------------------------------------------------------
(* A statement throws, or the database picks the request as the victim of  *)
(* a deadlock: TransactionRunner rolls it back.                            *)
RequestFails(r) ==
    /\ treq[r].pc \notin {"idle", "done"}
    /\ files' = [f \in FileIds |->
          IF treq[r].pc = "counting" /\ f \in treq[r].files
          THEN [files[f] EXCEPT !.st = "gone"] ELSE files[f]]
    /\ Ends(r)
    /\ UNCHANGED <<folders, trash, uploaded>>

Batches(fs, ds) ==
    {b \in [files : SUBSET fs, folders : SUBSET ds] :
        Cardinality(b.files) + Cardinality(b.folders) \in 1..MaxBatch}

TreeNext ==
    \E r \in Requests :
        \/ \E p \in Parents, n \in Names : CreateFolder(r, p, n) \/ UploadInsert(r, p, n)
        \/ \E d \in LiveFolders, n \in Names : RenameFolder(r, d, n)
        \/ \E f \in LiveFiles, n \in Names : RenameFile(r, f, n)
        \/ UploadCount(r)
        \/ \E b \in Batches(LiveFiles, LiveFolders), p \in Parents : MoveStart(r, b.files, b.folders, p)
        \/ MoveLock(r) \/ MovePlan(r) \/ MoveCommit(r)
        \/ \E b \in Batches(LiveFiles, LiveFolders) : TrashStart(r, b.files, b.folders)
        \/ TrashDiscover(r) \/ TrashStabilize(r) \/ TrashDelete(r)
        \/ \E t \in trash : RestoreTrashed(r, t)
        \/ RequestFails(r)

TreeSpec == TreeInit /\ [][TreeNext]_treeVars

-----------------------------------------------------------------------------
(* Properties                                                              *)

TreeTypeOK ==
    /\ folders \in [FolderIds -> FolderRow]
    /\ files \in [FileIds -> FileRow]
    /\ rowLock \in [FolderIds -> Requests \cup {NoRequest}]
    /\ \A r \in Requests :
          /\ treq[r].pc \in {"idle", "counting", "lock", "plan", "commit",
                             "discover", "stabilize", "delete", "done"}
          /\ treq[r].files \subseteq FileIds /\ treq[r].found \subseteq FileIds
          /\ treq[r].folders \subseteq FolderIds /\ treq[r].plan \subseteq FolderIds
          /\ treq[r].target \in Parents

\* item_count of a folder is the number of its live folders and files, after
\* any interleaving of the requests.
ItemCountExact ==
    \A d \in LiveFolders :
        folders[d].count = Cardinality(ChildFolders(d)) + Cardinality(ChildFiles(d))

\* No folder, created, moved or restored meanwhile, is left in a folder that
\* was deleted; nor is a file that was moved or restored there.
SubtreeDeletedWhole ==
    /\ \A d \in LiveFolders : Exists(folders[d].parent)
    /\ \A f \in LiveFiles : Exists(files[f].folder) \/ f \in uploaded

\* Deleting a folder takes everything in it along: no live folder, and no
\* live file, is left in a folder that is gone.  (Stated by the trash
\* specification; an upload into the folder breaks it.)
NoRowInRemovedFolder ==
    /\ \A d \in LiveFolders : Exists(folders[d].parent)
    /\ \A f \in LiveFiles : Exists(files[f].folder)

\* The tree a user comes back to: its rows are well formed, every folder counts
\* what is in it, and a deletion took its whole subtree along, whatever was
\* created, moved, uploaded or restored meanwhile (FolderService,
\* FileMutationService::Move, TrashService::MoveToTrash and Restore).
TreeConsistent == TreeTypeOK /\ ItemCountExact /\ SubtreeDeletedWhole

=============================================================================
