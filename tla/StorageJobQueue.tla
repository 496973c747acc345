-------------------------- MODULE StorageJobQueue ---------------------------
(***************************************************************************)
(* The durable job queue and the worker processes that drain it:           *)
(* src/src/services/StorageJobWorker.cpp and StorageWorkerRuntime.cpp over *)
(* the rows of StorageJobRepository.  A poller is one activation of        *)
(* PollOnce, which the poll timer of a process starts; every SQL statement *)
(* is one action.  What a handler does is left open: it ends well, with a  *)
(* retryable or with a permanent failure, and a page of a scan enqueues    *)
(* the job of its next page.                                               *)
(***************************************************************************)
EXTENDS Naturals, StorageJobRepository

CONSTANTS
    Pollers,     \* activations of PollOnce
    ProcessOf,   \* the worker process of a poller; its instance id
    Jobs,        \* dedupe keys
    TxJobs,      \* blob_gc jobs: the handler persists the result in its transaction
    NextOf,      \* the job of the next page of a scan, for a page that is full
    NoJob,
    MaxArms      \* bound: how often a job is enqueued, rearmed or replayed

ASSUME ProcessAssumption == ProcessOf \in [Pollers -> JobOwners]
ASSUME JobsAssumption    == TxJobs \subseteq Jobs /\ NoJob \notin Jobs
ASSUME NextAssumption    == /\ NextOf \in [Jobs -> Jobs \cup {NoJob}]
                            /\ \A j \in TxJobs : NextOf[j] = NoJob
ASSUME ArmsAssumption    == MaxArms \in Nat

VARIABLES
    job,      \* storage_jobs
    pc,       \* the step of a poller
    cur,      \* the job it claimed
    attempt,  \* StorageJob::attempts of the claim
    outcome,  \* JobExecutionResult
    lost,     \* LeaseHeartbeatState::ownership_lost
    arms,     \* history: how often a job was enqueued, rearmed or replayed
    begun,    \* history: arms of its job when a poller claimed it
    done      \* history: an execution claimed since the last arming ended well

queueVars  == <<job, arms, done>>
pollerVars == <<pc, cur, attempt, outcome, lost, begun>>
vars       == <<queueVars, pollerVars>>

PollerPc == {"idle", "polling", "claimed", "running", "finished"}
Outcome  == {"none", "ok", "retryable", "permanent"}

\* A poller that has claimed a job.
Working(p) == pc[p] \notin {"idle", "polling"}

\* The last conjunct is the table's CHECK ck_storage_jobs_running_lease.
TypeOK ==
    /\ job     \in [Jobs -> StorageJob]
    /\ pc      \in [Pollers -> PollerPc]
    /\ cur     \in [Pollers -> Jobs \cup {NoJob}]
    /\ attempt \in [Pollers -> 0 .. MaxAttempts]
    /\ outcome \in [Pollers -> Outcome]
    /\ lost    \in [Pollers -> BOOLEAN]
    /\ arms    \in [Jobs -> Nat]
    /\ begun   \in [Pollers -> Nat]
    /\ done    \in [Jobs -> BOOLEAN]
    /\ \A p \in Pollers : Working(p) => cur[p] \in Jobs
    /\ \A j \in Jobs : job[j].status = "Running" <=> job[j].by # NoLock

Init ==
    /\ job     = [j \in Jobs |-> NoJobRow]
    /\ pc      = [p \in Pollers |-> "idle"]
    /\ cur     = [p \in Pollers |-> NoJob]
    /\ attempt = [p \in Pollers |-> 0]
    /\ outcome = [p \in Pollers |-> "none"]
    /\ lost    = [p \in Pollers |-> FALSE]
    /\ arms    = [j \in Jobs |-> 0]
    /\ begun   = [p \in Pollers |-> 0]
    /\ done    = [j \in Jobs |-> FALSE]

-----------------------------------------------------------------------------
(* Producers and operators.                                                *)

\* j becomes a fresh Pending row.
Arm(j) ==
    /\ arms[j] < MaxArms
    /\ job'  = [job EXCEPT ![j] = PendingJob]
    /\ arms' = [arms EXCEPT ![j] = @ + 1]
    /\ done' = [done EXCEPT ![j] = FALSE]

\* A business transaction, the seeder or an operator enqueues a job; the
\* rearming variant also resets one that has succeeded.
EnqueueJob(j) ==
    /\ CanRearm(job[j])
    /\ Arm(j)
    /\ UNCHANGED pollerVars

ReplayDeadLetter(j) ==
    /\ CanReplay(job[j])
    /\ Arm(j)
    /\ UNCHANGED pollerVars

-----------------------------------------------------------------------------
(* The worker.                                                             *)

Idle(p) ==
    /\ pc'      = [pc EXCEPT ![p] = "idle"]
    /\ cur'     = [cur EXCEPT ![p] = NoJob]
    /\ attempt' = [attempt EXCEPT ![p] = 0]
    /\ outcome' = [outcome EXCEPT ![p] = "none"]
    /\ lost'    = [lost EXCEPT ![p] = FALSE]
    /\ begun'   = [begun EXCEPT ![p] = 0]

\* m_poll_inflight: one PollOnce of a process at a time.
NoPollInFlight_Unchecked(p) == pc[p] = "idle"

NoPollInFlight(p) ==
    \A q \in Pollers : ProcessOf[q] = ProcessOf[p] => pc[q] = "idle"

\* The first statement of ClaimReadyBatch sweeps the exhausted jobs.
SweepExhausted(p) ==
    /\ NoPollInFlight(p)
    /\ job' = [j \in Jobs |-> IF IsExhausted(job[j]) THEN DeadLettered(job[j]) ELSE job[j]]
    /\ pc'  = [pc EXCEPT ![p] = "polling"]
    /\ UNCHANGED <<arms, done, cur, attempt, outcome, lost, begun>>

\* The second one claims a job (the effective batch size is 1), or its answer
\* is lost and the claimed job has nobody who works on it.
ClaimReady(p, j) ==
    /\ pc[p] = "polling"
    /\ IsReady(job[j])
    /\ job' = [job EXCEPT ![j] = Claimed(@, ProcessOf[p])]
    /\ \/ /\ pc'      = [pc EXCEPT ![p] = "claimed"]
          /\ cur'     = [cur EXCEPT ![p] = j]
          /\ attempt' = [attempt EXCEPT ![p] = job'[j].attempts]
          /\ begun'   = [begun EXCEPT ![p] = arms[j]]
          /\ UNCHANGED <<outcome, lost>>
       \/ Idle(p)
    /\ UNCHANGED <<arms, done>>

\* Nothing is ready, or a statement failed.
PollEnds(p) ==
    /\ pc[p] = "polling"
    /\ Idle(p)
    /\ UNCHANGED queueVars

\* The lease is renewed before the handler runs; a renewal that fails, or
\* whose answer is lost, gives the job up.
Preflight(p) ==
    LET j == cur[p]
    IN  /\ pc[p] = "claimed"
        /\ \/ /\ LeaseHeld(job[j], ProcessOf[p])
              /\ job' = [job EXCEPT ![j] = RenewLease(@)]
              /\ pc'  = [pc EXCEPT ![p] = "running"]
              /\ UNCHANGED <<cur, attempt, outcome, lost, begun>>
           \/ Idle(p) /\ UNCHANGED job
        /\ UNCHANGED <<arms, done>>

\* A heartbeat during the execution finds the lease gone.  One that renews it
\* leaves the row as it is (live stays TRUE), so does one that fails or that
\* lands after the execution.
HeartbeatLosesJob(p) ==
    /\ pc[p] = "running" /\ ~lost[p]
    /\ ~LeaseHeld(job[cur[p]], ProcessOf[p])
    /\ lost' = [lost EXCEPT ![p] = TRUE]
    /\ UNCHANGED <<queueVars, pc, cur, attempt, outcome, begun>>

\* A full page enqueues the job of the next page before its own success.
ContinueScan_Forgotten(j) == UNCHANGED <<job, arms>>

ContinueScan(j) ==
    LET n == NextOf[j]
    IN  IF n # NoJob /\ job[n].status = "None"
        THEN /\ job'  = [job EXCEPT ![n] = Enqueue(@)]
             /\ arms' = [arms EXCEPT ![n] = @ + 1]
        ELSE UNCHANGED <<job, arms>>

\* The handler has returned.  When a heartbeat has found the job lost, the
\* execution ends here and its result is not persisted.
HandlerReturns(p, o) ==
    IF lost[p]
    THEN Idle(p)
    ELSE /\ pc'      = [pc EXCEPT ![p] = "finished"]
         /\ outcome' = [outcome EXCEPT ![p] = o]
         /\ UNCHANGED <<cur, attempt, lost, begun>>

HandlerSucceeds(p) ==
    LET j == cur[p]
    IN  /\ pc[p] = "running" /\ j \notin TxJobs
        /\ ContinueScan(j)
        /\ done' = [done EXCEPT ![j] = @ \/ begun[p] = arms[j]]
        /\ HandlerReturns(p, "ok")

\* A handler that fails may have enqueued the next page.
HandlerFails(p, o) ==
    /\ pc[p] = "running" /\ o \in {"retryable", "permanent"}
    /\ HandlerReturns(p, o)
    /\ \/ UNCHANGED <<job, arms>>
       \/ o = "retryable" /\ ContinueScan(cur[p])
    /\ UNCHANGED done

\* WHERE of a result: the row is still locked by this worker.
OwnsResult_AnyOwner(p) == job[cur[p]].status = "Running"

OwnsResult(p) == LockedBy(job[cur[p]], ProcessOf[p])

\* blob_gc: the result is part of the handler's transaction, which is rolled
\* back when the job has another owner.  A commit whose answer is lost took
\* effect and reads as a failure.
HandlerCommits(p) ==
    LET j == cur[p]
    IN  /\ pc[p] = "running" /\ j \in TxJobs
        /\ \/ /\ OwnsResult(p)
              /\ job'  = [job EXCEPT ![j] = MarkSucceeded(@)]
              /\ done' = [done EXCEPT ![j] = @ \/ begun[p] = arms[j]]
              /\ Idle(p) \/ HandlerReturns(p, "retryable")
           \/ /\ ~OwnsResult(p)
              /\ HandlerReturns(p, "retryable")
              /\ UNCHANGED <<job, done>>
        /\ UNCHANGED arms

\* MarkSucceeded or MarkFailed.  When the owner does not match nothing is
\* written; when the statement fails it may have been executed or not.
PersistResult(p) ==
    LET j == cur[p]
    IN  /\ pc[p] = "finished"
        /\ \/ /\ OwnsResult(p)
              /\ job' = [job EXCEPT ![j] =
                    IF outcome[p] = "ok" THEN MarkSucceeded(@)
                    ELSE MarkFailed(@, outcome[p] = "retryable")]
           \/ UNCHANGED job
        /\ Idle(p)
        /\ UNCHANGED <<arms, done>>

\* The process exits, or its drain deadline passes; it is started again with
\* the same instance id.  Its rows stay Running until their lease runs out.
Crash(o) ==
    LET gone == {p \in Pollers : ProcessOf[p] = o /\ pc[p] # "idle"}
    IN  /\ gone # {}
        /\ pc'      = [p \in Pollers |-> IF p \in gone THEN "idle" ELSE pc[p]]
        /\ cur'     = [p \in Pollers |-> IF p \in gone THEN NoJob ELSE cur[p]]
        /\ attempt' = [p \in Pollers |-> IF p \in gone THEN 0 ELSE attempt[p]]
        /\ outcome' = [p \in Pollers |-> IF p \in gone THEN "none" ELSE outcome[p]]
        /\ lost'    = [p \in Pollers |-> lost[p] /\ p \notin gone]
        /\ begun'   = [p \in Pollers |-> IF p \in gone THEN 0 ELSE begun[p]]
        /\ UNCHANGED queueVars

-----------------------------------------------------------------------------
(* Time.                                                                   *)

BecomesDue(j) ==
    /\ job[j].status = "Retry" /\ ~job[j].due
    /\ job' = [job EXCEPT ![j].due = TRUE]
    /\ UNCHANGED <<arms, done, pollerVars>>

LeaseRunsOut(j) ==
    /\ job[j].status = "Running" /\ job[j].live
    /\ job' = [job EXCEPT ![j].live = FALSE]
    /\ UNCHANGED <<arms, done, pollerVars>>

-----------------------------------------------------------------------------
PollerStep(p) ==
    \/ SweepExhausted(p)
    \/ \E j \in Jobs : ClaimReady(p, j)
    \/ PollEnds(p)
    \/ Preflight(p)
    \/ HeartbeatLosesJob(p)
    \/ HandlerSucceeds(p)
    \/ \E o \in Outcome : HandlerFails(p, o)
    \/ HandlerCommits(p)
    \/ PersistResult(p)

JobStep(j) ==
    \/ EnqueueJob(j)
    \/ ReplayDeadLetter(j)
    \/ BecomesDue(j)
    \/ LeaseRunsOut(j)

Next ==
    \/ \E p \in Pollers : PollerStep(p)
    \/ \E j \in Jobs : JobStep(j)
    \/ \E o \in JobOwners : Crash(o)

Spec == Init /\ [][Next]_vars

-----------------------------------------------------------------------------
(* Safety.                                                                 *)

\* A result is written under the owner's name only, with no version and no
\* lease check.  It still belongs to the claim the row counts: whenever a row
\* carries the name of a worker that is busy with that job, the worker's
\* attempt is the row's attempt and began after the row was last armed.
ClaimFenced ==
    \A p \in Pollers :
        Working(p) /\ LockedBy(job[cur[p]], ProcessOf[p])
        => attempt[p] = job[cur[p]].attempts /\ begun[p] = arms[cur[p]]

\* A job that reads Succeeded was really carried out by an execution that
\* began after it was last enqueued, rearmed or replayed; a late success of
\* an earlier round never closes the new one.
NoFalseSuccess == \A j \in Jobs : job[j].status = "Succeeded" => done[j]

\* A scan is never cut short by a crash or a retry: a full page that reads
\* Succeeded has its next page in the queue.
ScanContinues ==
    \A j \in Jobs : job[j].status = "Succeeded" /\ NextOf[j] # NoJob
                     => job[NextOf[j]].status # "None"

-----------------------------------------------------------------------------
(* Liveness: the poll timer of every process keeps firing, claims take the *)
(* oldest ready job first, storage and SQL calls return, time passes and   *)
(* nobody renews the lease of a job that no worker is busy with.           *)

LeaseAbandoned(j) ==
    /\ \A p \in Pollers : ~(Working(p) /\ cur[p] = j /\ ProcessOf[p] = job[j].by)
    /\ LeaseRunsOut(j)

HandlerEnds(p) ==
    HandlerSucceeds(p) \/ HandlerCommits(p) \/ \E o \in Outcome : HandlerFails(p, o)

\* A poll that finds nothing changes nothing, so nothing is asked of it.
WorkWaits == \E j \in Jobs : IsExhausted(job[j]) \/ IsReady(job[j])

Fairness ==
    /\ \A o \in JobOwners :
          WF_vars(WorkWaits /\ \E p \in Pollers : ProcessOf[p] = o /\ SweepExhausted(p))
    /\ \A p \in Pollers :
          /\ WF_vars(PollEnds(p))
          /\ WF_vars(Preflight(p))
          /\ WF_vars(HandlerEnds(p))
          /\ WF_vars(PersistResult(p))
    /\ \A j \in Jobs :
          /\ SF_vars(\E p \in Pollers : ClaimReady(p, j))
          /\ WF_vars(BecomesDue(j))
          /\ WF_vars(LeaseAbandoned(j))

LiveSpec == Spec /\ Fairness

\* Whatever crashes, every armed job ends as Succeeded or as DeadLetter, where
\* an operator sees it; none stays Running under an owner that is gone.
JobSettles ==
    \A j \in Jobs : job[j].status \in {"Pending", "Retry", "Running"}
                     ~> job[j].status \in {"Succeeded", "DeadLetter"}

=============================================================================
