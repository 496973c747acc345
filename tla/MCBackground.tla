----------------------------- MODULE MCBackground -----------------------------
(***************************************************************************)
(* What runs for long, for TLC, side by side: the jobs of the worker       *)
(* processes, the drain of a server process, the garbage collection of     *)
(* contents, the S3 and the local store, and the transfers of the desktop  *)
(* client.  A behaviour plays one scene and leaves the variables of the    *)
(* other components alone.                                                 *)
(***************************************************************************)
EXTENDS StorageJobQueue, ProcessDrain, BlobGc, S3Storage, LocalStorage, DesktopTransfers, TLC

CONSTANTS i1, i2, p1, p2, p3, j1, j2,         \* processes, their pollers, jobs
          r1, r2,                             \* HTTP requests
          f1, f2, alice, bob, c1, d1, d2,     \* files, users, a content, deletions
          ua, ub,                             \* S3 upload sessions
          w1, w2, q1, q2,                     \* writers and promotions of the local store
          fa, fb                              \* remote files

\* The first worker process has two poll activations; the first page of the
\* scan is full.
MCProcessOf == [p \in Pollers |-> IF p = p3 THEN i2 ELSE i1]
MCPages     == (j1 :> j2) @@ (j2 :> NoJob)

\* One content with a file of either user.
MCOwnerOf   == (f1 :> alice) @@ (f2 :> bob)
MCContentOf == [f \in Files |-> c1]
MCSizeOf    == [c \in Contents |-> 1]

VARIABLE scene
backgroundVars == <<scene, vars, drainVars, blobVars, s3Vars, localVars, transferVars>>

\* The server process of the other scenes has started; nothing has arrived.
Started ==
    /\ initialized = TRUE /\ draining = FALSE /\ workerAccepting = TRUE
    /\ inflight = 0 /\ published = TRUE
    /\ accepting = [t \in Tasks |-> TRUE] /\ busy = [t \in Tasks |-> FALSE]
    /\ boot = "done" /\ signal = "none" /\ quit = "no" /\ timedOut = FALSE
    /\ httpReq = [r \in Requests |-> "new"] /\ task = [t \in Tasks |-> "idle"]

BackgroundInit ==
    /\ Init /\ GcInit /\ S3Init /\ LocalInit /\ TransferInit
    /\ \/ scene = "drain" /\ DrainInit
       \/ scene \in {"jobs", "gc", "s3", "local", "upload", "download"} /\ Started

JobScene ==
    /\ scene = "jobs" /\ Next
    /\ UNCHANGED <<scene, drainVars, blobVars, s3Vars, localVars, transferVars>>
DrainScene ==
    /\ scene = "drain" /\ DrainNext
    /\ UNCHANGED <<scene, vars, blobVars, s3Vars, localVars, transferVars>>
GcScene ==
    /\ scene = "gc" /\ GcNext
    /\ UNCHANGED <<scene, vars, drainVars, s3Vars, localVars, transferVars>>
S3Scene ==
    /\ scene = "s3" /\ S3Next
    /\ UNCHANGED <<scene, vars, drainVars, blobVars, localVars, transferVars>>
LocalScene ==
    /\ scene = "local" /\ LocalNext
    /\ UNCHANGED <<scene, vars, drainVars, blobVars, s3Vars, transferVars>>
UploadScene ==
    /\ scene = "upload" /\ (UploadNext \/ ShutdownOwnerTransfers \/ ApplicationDies)
    /\ UNCHANGED <<scene, vars, drainVars, blobVars, s3Vars, localVars>>
DownloadScene ==
    /\ scene = "download" /\ (DownloadNext \/ ShutdownOwnerTransfers \/ ApplicationDies)
    /\ UNCHANGED <<scene, vars, drainVars, blobVars, s3Vars, localVars>>

BackgroundNext ==
    \/ JobScene \/ DrainScene \/ GcScene \/ S3Scene \/ LocalScene
    \/ UploadScene \/ DownloadScene

BackgroundSpec == BackgroundInit /\ [][BackgroundNext]_backgroundVars

\* What is fair in one scene is disabled in the others, which never leave
\* the first state of its component.
ProgressSpec ==
    BackgroundSpec /\ Fairness /\ DrainFairness /\ GcFairness /\ S3Fairness /\ TransferFairness

===============================================================================
