------------------------ MODULE StorageJobQueueProofs -----------------------
(***************************************************************************)
(* Proofs about StorageJobQueue for every set of worker processes, poll    *)
(* activations and jobs, every max_attempts and any number of crashes,     *)
(* rearmings and replays.                                                  *)
(***************************************************************************)
EXTENDS StorageJobQueue, TLAPS

RowOK(r) == r \in StorageJob /\ (r.status = "Running" <=> r.by # NoLock)

\* Every statement of StorageJobRepository leaves a well-formed row that the
\* table's CHECK on the lease columns accepts.
LEMMA JobRowTypes ==
    ASSUME NEW r, RowOK(r)
    PROVE  /\ RowOK(PendingJob)
           /\ RowOK(Enqueue(r))
           /\ RowOK(DeadLettered(r))
           /\ \A o \in JobOwners : IsReady(r) => RowOK(Claimed(r, o))
           /\ LeaseHeld(r, r.by) => RowOK(RenewLease(r))
           /\ RowOK(MarkSucceeded(r))
           /\ \A b \in BOOLEAN : RowOK(MarkFailed(r, b))
           /\ RowOK([r EXCEPT !.due = TRUE])
           /\ r.status = "Running" => RowOK([r EXCEPT !.live = FALSE])
<1> USE NoLockAssumption, AttemptsAssumption
        DEF RowOK, StorageJob, JobStatus, WaitingStatus
<1>0. /\ 0 \in 0 .. MaxAttempts
      /\ IsReady(r) => r.attempts + 1 \in 0 .. MaxAttempts
  BY DEF IsReady
<1>1. RowOK(PendingJob)
  BY <1>0 DEF PendingJob
<1>2. RowOK(Enqueue(r))
  BY <1>1 DEF Enqueue
<1>3. RowOK(DeadLettered(r))
  BY DEF DeadLettered
<1>4. \A o \in JobOwners : IsReady(r) => RowOK(Claimed(r, o))
  BY <1>0 DEF Claimed
<1>5. LeaseHeld(r, r.by) => RowOK(RenewLease(r))
  BY DEF RenewLease, LeaseHeld, LockedBy
<1>6. RowOK(MarkSucceeded(r))
  BY DEF MarkSucceeded
<1>7. \A b \in BOOLEAN : RowOK(MarkFailed(r, b))
  BY DEF MarkFailed
<1>8. RowOK([r EXCEPT !.due = TRUE])
  OBVIOUS
<1>9. r.status = "Running" => RowOK([r EXCEPT !.live = FALSE])
  OBVIOUS
<1> QED
  BY <1>1, <1>2, <1>3, <1>4, <1>5, <1>6, <1>7, <1>8, <1>9

-----------------------------------------------------------------------------
(* Type correctness.                                                       *)

RowsOK == job \in [Jobs -> StorageJob] /\ \A j \in Jobs : RowOK(job[j])

HistoryOK == arms \in [Jobs -> Nat] /\ done \in [Jobs -> BOOLEAN]

PollersOK ==
    /\ pc      \in [Pollers -> PollerPc]
    /\ cur     \in [Pollers -> Jobs \cup {NoJob}]
    /\ attempt \in [Pollers -> 0 .. MaxAttempts]
    /\ outcome \in [Pollers -> Outcome]
    /\ lost    \in [Pollers -> BOOLEAN]
    /\ begun   \in [Pollers -> Nat]
    /\ \A p \in Pollers : Working(p) => cur[p] \in Jobs

\* The type invariant of the queue is that of its rows, its history and its
\* pollers (storage_jobs and the locals of PollOnce).
LEMMA TypeParts == TypeOK <=> RowsOK /\ HistoryOK /\ PollersOK
BY DEF TypeOK, RowsOK, HistoryOK, PollersOK, RowOK

\* Replacing one row of storage_jobs by a well-formed row keeps the table
\* well-formed.
LEMMA RowUpdate ==
    ASSUME RowsOK, NEW j \in Jobs, NEW r, RowOK(r), job' = [job EXCEPT ![j] = r]
    PROVE  RowsOK'
BY DEF RowsOK, RowOK

\* PollOnce returning to its loop leaves a well-formed poller.
LEMMA IdleTypes ==
    ASSUME PollersOK, NEW p \in Pollers, Idle(p)
    PROVE  PollersOK'
BY AttemptsAssumption DEF PollersOK, Idle, Working, PollerPc, Outcome

\* ProcessClaimedJob after its handler: the poller stays well-formed.
LEMMA ReturnTypes ==
    ASSUME PollersOK, NEW p \in Pollers, pc[p] = "running",
           NEW o \in Outcome, HandlerReturns(p, o)
    PROVE  PollersOK'
<1>1. CASE lost[p]
  BY <1>1, IdleTypes DEF HandlerReturns
<1>2. CASE ~lost[p]
  BY <1>2 DEF HandlerReturns, PollersOK, Working, PollerPc, Outcome
<1> QED
  BY <1>1, <1>2

\* Enqueueing the next page of a scan keeps the table well-formed.
LEMMA ContinueTypes ==
    ASSUME RowsOK, HistoryOK, NEW j \in Jobs, ContinueScan(j)
    PROVE  RowsOK' /\ arms' \in [Jobs -> Nat]
<1> DEFINE n == NextOf[j]
<1>1. CASE n # NoJob /\ job[n].status = "None"
  <2>1. n \in Jobs /\ RowOK(job[n])
    BY <1>1, NextAssumption DEF RowsOK
  <2>2. RowOK(Enqueue(job[n]))
    BY <2>1, JobRowTypes
  <2>3. job' = [job EXCEPT ![n] = Enqueue(job[n])] /\ arms' = [arms EXCEPT ![n] = @ + 1]
    BY <1>1 DEF ContinueScan
  <2>4. RowsOK'
    BY <2>1, <2>2, <2>3, RowUpdate
  <2>5. arms' \in [Jobs -> Nat]
    BY <2>1, <2>3 DEF HistoryOK
  <2> QED
    BY <2>4, <2>5
<1>2. CASE ~(n # NoJob /\ job[n].status = "None")
  BY <1>2 DEF ContinueScan, RowsOK, RowOK, HistoryOK
<1> QED
  BY <1>1, <1>2

\* Every step of producers, workers, operators and time keeps the types.
LEMMA StepTypes ==
    ASSUME TypeOK, [Next]_vars
    PROVE  TypeOK'
<1> USE TypeParts
<1>0. RowsOK /\ HistoryOK /\ PollersOK
  OBVIOUS
<1>1. SUFFICES RowsOK' /\ HistoryOK' /\ PollersOK'
  BY DEF TypeOK, RowsOK, HistoryOK, PollersOK, RowOK
<1>2. ASSUME NEW p \in Pollers, SweepExhausted(p) PROVE RowsOK' /\ HistoryOK' /\ PollersOK'
  <2>1. RowsOK'
    BY <1>0, <1>2, JobRowTypes DEF SweepExhausted, RowsOK, RowOK
  <2>2. HistoryOK' /\ PollersOK'
    BY <1>0, <1>2 DEF SweepExhausted, HistoryOK, PollersOK, Working, PollerPc
  <2> QED
    BY <2>1, <2>2
<1>3. ASSUME NEW p \in Pollers, NEW j \in Jobs, ClaimReady(p, j)
      PROVE  RowsOK' /\ HistoryOK' /\ PollersOK'
  <2>1. RowOK(Claimed(job[j], ProcessOf[p]))
    BY <1>0, <1>3, JobRowTypes, ProcessAssumption DEF RowsOK, ClaimReady
  <2>2. job' = [job EXCEPT ![j] = Claimed(job[j], ProcessOf[p])]
    BY <1>3 DEF ClaimReady
  <2>3. RowsOK' /\ HistoryOK'
    BY <1>0, <1>3, <2>1, <2>2, RowUpdate DEF ClaimReady, HistoryOK
  <2>4. job'[j].attempts \in 0 .. MaxAttempts
    BY <2>3 DEF RowsOK, RowOK, StorageJob
  <2>5. PollersOK'
    BY <1>0, <1>3, <2>4, IdleTypes
       DEF ClaimReady, PollersOK, HistoryOK, Working, PollerPc
  <2> QED
    BY <2>3, <2>5
<1>4. ASSUME NEW p \in Pollers, PollEnds(p) PROVE RowsOK' /\ HistoryOK' /\ PollersOK'
  BY <1>0, <1>4, IdleTypes DEF PollEnds, queueVars, RowsOK, RowOK, HistoryOK
<1>5. ASSUME NEW p \in Pollers, Preflight(p) PROVE RowsOK' /\ HistoryOK' /\ PollersOK'
  <2>0. cur[p] \in Jobs /\ RowOK(job[cur[p]])
    BY <1>0, <1>5 DEF Preflight, PollersOK, Working, RowsOK
  <2>1. RowsOK'
    <3>1. CASE LeaseHeld(job[cur[p]], ProcessOf[p])
               /\ job' = [job EXCEPT ![cur[p]] = RenewLease(@)]
      <4>1. RowOK(RenewLease(job[cur[p]]))
        BY <2>0, <3>1, JobRowTypes DEF LeaseHeld, LockedBy
      <4> QED
        BY <1>0, <2>0, <3>1, <4>1, RowUpdate
    <3>2. CASE UNCHANGED job
      BY <1>0, <3>2 DEF RowsOK, RowOK
    <3> QED
      BY <1>5, <3>1, <3>2 DEF Preflight
  <2>2. PollersOK'
    BY <1>0, <1>5, IdleTypes DEF Preflight, PollersOK, Working, PollerPc
  <2> QED
    BY <1>0, <1>5, <2>1, <2>2 DEF Preflight, HistoryOK
<1>6. ASSUME NEW p \in Pollers, HeartbeatLosesJob(p)
      PROVE  RowsOK' /\ HistoryOK' /\ PollersOK'
  BY <1>0, <1>6 DEF HeartbeatLosesJob, queueVars, RowsOK, RowOK, HistoryOK, PollersOK, Working
<1>7. ASSUME NEW p \in Pollers, HandlerSucceeds(p)
      PROVE  RowsOK' /\ HistoryOK' /\ PollersOK'
  <2>1. cur[p] \in Jobs /\ "ok" \in Outcome
    BY <1>0, <1>7 DEF HandlerSucceeds, PollersOK, Working, Outcome
  <2>2. RowsOK' /\ arms' \in [Jobs -> Nat]
    BY <1>0, <1>7, <2>1, ContinueTypes DEF HandlerSucceeds
  <2>3. done' \in [Jobs -> BOOLEAN]
    BY <1>0, <1>7, <2>1 DEF HandlerSucceeds, HistoryOK
  <2>4. PollersOK'
    BY <1>0, <1>7, <2>1, ReturnTypes DEF HandlerSucceeds
  <2> QED
    BY <2>2, <2>3, <2>4 DEF HistoryOK
<1>8. ASSUME NEW p \in Pollers, NEW o \in Outcome, HandlerFails(p, o)
      PROVE  RowsOK' /\ HistoryOK' /\ PollersOK'
  <2>1. cur[p] \in Jobs
    BY <1>0, <1>8 DEF HandlerFails, PollersOK, Working
  <2>2. RowsOK' /\ arms' \in [Jobs -> Nat]
    BY <1>0, <1>8, <2>1, ContinueTypes DEF HandlerFails, RowsOK, RowOK, HistoryOK
  <2>3. done' \in [Jobs -> BOOLEAN] /\ PollersOK'
    BY <1>0, <1>8, ReturnTypes DEF HandlerFails, HistoryOK
  <2> QED
    BY <2>2, <2>3 DEF HistoryOK
<1>9. ASSUME NEW p \in Pollers, HandlerCommits(p)
      PROVE  RowsOK' /\ HistoryOK' /\ PollersOK'
  <2>1. cur[p] \in Jobs /\ RowOK(job[cur[p]]) /\ "retryable" \in Outcome
    BY <1>0, <1>9 DEF HandlerCommits, PollersOK, Working, RowsOK, Outcome
  <2>2. RowOK(MarkSucceeded(job[cur[p]]))
    BY <2>1, JobRowTypes
  <2>3. RowsOK' /\ HistoryOK'
    <3>1. CASE UNCHANGED <<job, done>>
      BY <1>0, <1>9, <3>1 DEF HandlerCommits, RowsOK, RowOK, HistoryOK
    <3>2. CASE /\ job' = [job EXCEPT ![cur[p]] = MarkSucceeded(@)]
               /\ done' = [done EXCEPT ![cur[p]] = @ \/ begun[p] = arms[cur[p]]]
      BY <1>0, <1>9, <2>1, <2>2, <3>2, RowUpdate DEF HandlerCommits, HistoryOK
    <3> QED
      BY <1>9, <3>1, <3>2 DEF HandlerCommits
  <2>4. PollersOK'
    BY <1>0, <1>9, <2>1, IdleTypes, ReturnTypes DEF HandlerCommits
  <2> QED
    BY <2>3, <2>4
<1>10. ASSUME NEW p \in Pollers, PersistResult(p)
       PROVE  RowsOK' /\ HistoryOK' /\ PollersOK'
  <2>1. cur[p] \in Jobs /\ RowOK(job[cur[p]])
    BY <1>0, <1>10 DEF PersistResult, PollersOK, Working, RowsOK
  <2>2. /\ RowOK(MarkSucceeded(job[cur[p]]))
        /\ RowOK(MarkFailed(job[cur[p]], outcome[p] = "retryable"))
    BY <2>1, JobRowTypes
  <2>3. RowsOK'
    <3>1. CASE UNCHANGED job
      BY <1>0, <3>1 DEF RowsOK, RowOK
    <3>2. CASE job' = [job EXCEPT ![cur[p]] = MarkSucceeded(@)]
      BY <1>0, <2>1, <2>2, <3>2, RowUpdate
    <3>3. CASE job' = [job EXCEPT ![cur[p]] = MarkFailed(@, outcome[p] = "retryable")]
      BY <1>0, <2>1, <2>2, <3>3, RowUpdate
    <3> QED
      BY <1>10, <3>1, <3>2, <3>3 DEF PersistResult
  <2> QED
    BY <1>0, <1>10, <2>3, IdleTypes DEF PersistResult, HistoryOK
<1>11. ASSUME NEW j \in Jobs, EnqueueJob(j) \/ ReplayDeadLetter(j)
       PROVE  RowsOK' /\ HistoryOK' /\ PollersOK'
  <2>1. Arm(j) /\ UNCHANGED pollerVars
    BY <1>11 DEF EnqueueJob, ReplayDeadLetter
  <2>2. RowOK(PendingJob)
    BY <1>0, JobRowTypes DEF RowsOK
  <2>3. RowsOK'
    BY <1>0, <2>1, <2>2, RowUpdate DEF Arm
  <2> QED
    BY <1>0, <2>1, <2>3 DEF Arm, pollerVars, HistoryOK, PollersOK, Working
<1>12. ASSUME NEW j \in Jobs, BecomesDue(j) \/ LeaseRunsOut(j)
       PROVE  RowsOK' /\ HistoryOK' /\ PollersOK'
  <2>1. /\ RowOK([job[j] EXCEPT !.due = TRUE])
        /\ job[j].status = "Running" => RowOK([job[j] EXCEPT !.live = FALSE])
    BY <1>0, JobRowTypes DEF RowsOK
  <2>2. RowsOK'
    <3>1. CASE BecomesDue(j)
      <4>1. job' = [job EXCEPT ![j] = [job[j] EXCEPT !.due = TRUE]]
        BY <3>1 DEF BecomesDue
      <4> QED
        BY <1>0, <2>1, <4>1, RowUpdate
    <3>2. CASE LeaseRunsOut(j)
      <4>1. job' = [job EXCEPT ![j] = [job[j] EXCEPT !.live = FALSE]]
        BY <3>2 DEF LeaseRunsOut
      <4> QED
        BY <1>0, <2>1, <3>2, <4>1, RowUpdate DEF LeaseRunsOut
    <3> QED
      BY <1>12, <3>1, <3>2
  <2> QED
    BY <1>0, <1>12, <2>2
       DEF BecomesDue, LeaseRunsOut, pollerVars, HistoryOK, PollersOK, Working
<1>13. ASSUME NEW o \in JobOwners, Crash(o)
       PROVE  RowsOK' /\ HistoryOK' /\ PollersOK'
  BY <1>0, <1>13, AttemptsAssumption
     DEF Crash, queueVars, RowsOK, RowOK, HistoryOK, PollersOK, Working, PollerPc, Outcome
<1>14. CASE UNCHANGED vars
  BY <1>0, <1>14
     DEF vars, queueVars, pollerVars, RowsOK, RowOK, HistoryOK, PollersOK, Working
<1> QED
  BY <1>2, <1>3, <1>4, <1>5, <1>6, <1>7, <1>8, <1>9, <1>10, <1>11, <1>12, <1>13, <1>14
     DEF Next, PollerStep, JobStep

\* The queue's rows, with the attempt limit and the lease CHECK, and the
\* workers' locals are well-typed in every reachable state.
THEOREM QueueTypeCorrect == Spec => []TypeOK
<1>1. Init => TypeOK
  BY NoLockAssumption, AttemptsAssumption, JobsAssumption
     DEF Init, TypeOK, NoJobRow, StorageJob, JobStatus, WaitingStatus, PollerPc, Outcome, Working
<1>2. TypeOK /\ [Next]_vars => TypeOK'
  BY StepTypes
<1> QED
  BY <1>1, <1>2, PTL DEF Spec

-----------------------------------------------------------------------------
(* A job that reads Succeeded was carried out, and a scan goes on.         *)

\* PollOnce never overlaps itself in one process.
OnePollPerProcess ==
    \A p, q \in Pollers :
        pc[p] # "idle" /\ pc[q] # "idle" /\ ProcessOf[p] = ProcessOf[q] => p = q

\* A worker that is about to write a success to a row it holds has done the
\* work of the row's present round.
ResultsEarned ==
    \A p \in Pollers :
        /\ pc[p] = "finished" /\ outcome[p] = "ok"
        /\ LockedBy(job[cur[p]], ProcessOf[p])
        => done[cur[p]]

\* A worker that is about to write a success has enqueued the next page.
PagesQueued ==
    \A p \in Pollers :
        pc[p] = "finished" /\ outcome[p] = "ok" /\ NextOf[cur[p]] # NoJob
        => job[NextOf[cur[p]]].status # "None"

QueueInv ==
    /\ OnePollPerProcess
    /\ ClaimFenced
    /\ ResultsEarned
    /\ NoFalseSuccess
    /\ PagesQueued
    /\ ScanContinues

\* What a step does to a row: it leaves its lease alone, writes a status that
\* frees it, or claims it for a worker that begins a new attempt.
RowKept(k) ==
    /\ job'[k].status = job[k].status /\ job'[k].by = job[k].by
    /\ job'[k].attempts = job[k].attempts
    /\ arms'[k] = arms[k]
    /\ done[k] => done'[k]

RowFreed(k) ==
    /\ job'[k].status \notin {"Running", "None"}
    /\ job'[k].status = "Succeeded" =>
          done'[k] /\ (NextOf[k] # NoJob => job'[NextOf[k]].status # "None")

RowTaken(k) ==
    /\ job'[k].status = "Running"
    /\ \A q \in Pollers :
          Working(q)' /\ cur'[q] = k /\ ProcessOf[q] = job'[k].by
          => pc'[q] = "claimed" /\ attempt'[q] = job'[k].attempts /\ begun'[q] = arms'[k]

\* What a step does to a poller: it ends or begins a poll, stays with its job,
\* or has just claimed one.  A result it is to write is an old one or earned now.
PollerKept(q) ==
    \/ pc'[q] \in {"idle", "polling"}
    \/ pc'[q] = "claimed" /\ RowTaken(cur'[q])
    \/ /\ Working(q)
       /\ cur'[q] = cur[q] /\ attempt'[q] = attempt[q] /\ begun'[q] = begun[q]
       /\ pc'[q] = "finished" /\ outcome'[q] = "ok" =>
             \/ pc[q] = "finished" /\ outcome[q] = "ok"
             \/ /\ LockedBy(job[cur[q]], ProcessOf[q]) => done'[cur[q]]
                /\ NextOf[cur[q]] # NoJob => job'[NextOf[cur[q]]].status # "None"

\* A step of these shapes, with at most one poll per process, keeps QueueInv:
\* the argument why ProcessClaimedJob may write results without a version.
LEMMA ShapesKeepInv ==
    ASSUME TypeOK, TypeOK', QueueInv, OnePollPerProcess',
           \A k \in Jobs : RowKept(k) \/ RowFreed(k) \/ RowTaken(k),
           \A q \in Pollers : PollerKept(q)
    PROVE  QueueInv'
<1>0. \A k \in Jobs : job[k].status # "None" => job'[k].status # "None"
  BY DEF RowKept, RowFreed, RowTaken
<1>1. ClaimFenced'
  <2> SUFFICES ASSUME NEW q \in Pollers, Working(q)',
                      LockedBy(job[cur[q]], ProcessOf[q])'
               PROVE  attempt'[q] = job'[cur'[q]].attempts /\ begun'[q] = arms'[cur'[q]]
    BY DEF ClaimFenced
  <2>1. cur'[q] \in Jobs /\ ~RowFreed(cur'[q])
    BY DEF TypeOK, RowFreed, LockedBy
  <2>2. CASE RowTaken(cur'[q])
    BY <2>2 DEF RowTaken, LockedBy
  <2>3. CASE ~RowTaken(cur'[q]) /\ RowKept(cur'[q])
    <3>1. Working(q) /\ cur'[q] = cur[q] /\ attempt'[q] = attempt[q] /\ begun'[q] = begun[q]
      BY <2>3 DEF PollerKept, Working
    <3>2. LockedBy(job[cur[q]], ProcessOf[q])
      BY <2>3, <3>1 DEF RowKept, LockedBy
    <3> QED
      BY <2>3, <3>1, <3>2 DEF QueueInv, ClaimFenced, RowKept
  <2> QED
    BY <2>1, <2>2, <2>3
<1>2. ResultsEarned'
  <2> SUFFICES ASSUME NEW q \in Pollers, pc'[q] = "finished", outcome'[q] = "ok",
                      LockedBy(job[cur[q]], ProcessOf[q])'
               PROVE  done'[cur'[q]]
    BY DEF ResultsEarned
  <2>1. Working(q) /\ cur'[q] = cur[q] /\ cur[q] \in Jobs
    BY DEF PollerKept, Working, TypeOK
  <2>2. RowKept(cur[q])
    BY <2>1 DEF RowFreed, RowTaken, LockedBy, Working
  <2>3. LockedBy(job[cur[q]], ProcessOf[q])
    BY <2>1, <2>2 DEF RowKept, LockedBy
  <2> QED
    BY <2>1, <2>2, <2>3 DEF PollerKept, RowKept, QueueInv, ResultsEarned
<1>3. NoFalseSuccess'
  BY DEF RowKept, RowFreed, RowTaken, QueueInv, NoFalseSuccess
<1>4. PagesQueued'
  <2> SUFFICES ASSUME NEW q \in Pollers, pc'[q] = "finished", outcome'[q] = "ok",
                      NextOf[cur'[q]] # NoJob
               PROVE  job'[NextOf[cur'[q]]].status # "None"
    BY DEF PagesQueued
  <2>1. Working(q) /\ cur'[q] = cur[q] /\ cur[q] \in Jobs
    BY DEF PollerKept, Working, TypeOK
  <2>2. NextOf[cur[q]] \in Jobs
    BY <2>1, NextAssumption
  <2> QED
    BY <1>0, <2>1, <2>2 DEF PollerKept, QueueInv, PagesQueued
<1>5. ScanContinues'
  <2> SUFFICES ASSUME NEW k \in Jobs, job'[k].status = "Succeeded", NextOf[k] # NoJob
               PROVE  job'[NextOf[k]].status # "None"
    BY DEF ScanContinues
  <2>1. NextOf[k] \in Jobs
    BY NextAssumption
  <2> QED
    BY <1>0, <2>1 DEF RowKept, RowFreed, RowTaken, QueueInv, ScanContinues
<1> QED
  BY <1>1, <1>2, <1>3, <1>4, <1>5 DEF QueueInv

\* The status, owner and attempts that each statement of StorageJobRepository
\* writes.
LEMMA RowResults ==
    ASSUME NEW r \in StorageJob
    PROVE  /\ PendingJob.status = "Pending"
           /\ Enqueue(r).status # "None"
           /\ r.status = "None" => Enqueue(r).status = "Pending"
           /\ DeadLettered(r).status = "DeadLetter"
           /\ \A o : Claimed(r, o).status = "Running" /\ Claimed(r, o).by = o
           /\ /\ RenewLease(r).status = r.status /\ RenewLease(r).by = r.by
              /\ RenewLease(r).attempts = r.attempts
           /\ MarkSucceeded(r).status = "Succeeded"
           /\ \A b : MarkFailed(r, b).status \in {"Retry", "DeadLetter"}
BY DEF StorageJob, JobStatus, WaitingStatus, PendingJob, Enqueue, DeadLettered, Claimed,
       RenewLease, MarkSucceeded, MarkFailed

\* Polls that only go on or end do not overlap (m_poll_inflight).
LEMMA PollsDoNotOverlap ==
    ASSUME QueueInv, \A q \in Pollers : pc'[q] # "idle" => pc[q] # "idle"
    PROVE  OnePollPerProcess'
BY DEF QueueInv, OnePollPerProcess

\* PollOnce returning to its loop: that poller is idle, the others as before.
LEMMA IdleShape ==
    ASSUME TypeOK, NEW p \in Pollers, Idle(p)
    PROVE  /\ \A q \in Pollers : pc'[q] # "idle" => pc[q] # "idle"
           /\ \A q \in Pollers : PollerKept(q)
BY DEF TypeOK, Idle, PollerKept, Working, PollerPc

\* A handler that returns: the result of the poller must be earned.
LEMMA ReturnShape ==
    ASSUME TypeOK, NEW p \in Pollers, pc[p] = "running", NEW o \in Outcome,
           HandlerReturns(p, o),
           o = "ok" => /\ LockedBy(job[cur[p]], ProcessOf[p]) => done'[cur[p]]
                       /\ NextOf[cur[p]] # NoJob => job'[NextOf[cur[p]]].status # "None"
    PROVE  /\ \A q \in Pollers : pc'[q] # "idle" => pc[q] # "idle"
           /\ \A q \in Pollers : PollerKept(q)
<1>1. CASE lost[p]
  BY <1>1, IdleShape DEF HandlerReturns
<1>2. CASE ~lost[p]
  BY <1>2 DEF HandlerReturns, TypeOK, PollerKept, Working, PollerPc
<1> QED
  BY <1>1, <1>2

\* Enqueueing the next page frees one row and keeps the others; the next page
\* is in the queue afterwards.
LEMMA ContinueShape ==
    ASSUME TypeOK, NEW j \in Jobs, ContinueScan(j),
           \A k \in Jobs : done[k] => done'[k]
    PROVE  /\ \A k \in Jobs : RowKept(k) \/ RowFreed(k)
           /\ NextOf[j] # NoJob => job'[NextOf[j]].status # "None"
           /\ \A k \in Jobs : job[k].status # "None" => job'[k] = job[k] /\ arms'[k] = arms[k]
<1> DEFINE n == NextOf[j]
<1>1. CASE n # NoJob /\ job[n].status = "None"
  <2>1. n \in Jobs /\ job[n] \in StorageJob
    BY <1>1, NextAssumption DEF TypeOK
  <2>2. job' = [job EXCEPT ![n] = Enqueue(job[n])] /\ arms' = [arms EXCEPT ![n] = @ + 1]
    BY <1>1 DEF ContinueScan
  <2>3. job'[n].status = "Pending"
    BY <1>1, <2>1, <2>2, RowResults DEF TypeOK
  <2>4. \A k \in Jobs \ {n} : job'[k] = job[k] /\ arms'[k] = arms[k]
    BY <2>2 DEF TypeOK
  <2> QED
    BY <1>1, <2>1, <2>3, <2>4 DEF RowKept, RowFreed
<1>2. CASE ~(n # NoJob /\ job[n].status = "None")
  BY <1>2 DEF ContinueScan, RowKept
<1> QED
  BY <1>1, <1>2

\* Every step keeps QueueInv.
LEMMA StepInv ==
    ASSUME TypeOK, TypeOK', QueueInv, [Next]_vars
    PROVE  QueueInv'
<1> DEFINE Rows  == \A k \in Jobs : RowKept(k) \/ RowFreed(k) \/ RowTaken(k)
           Polls == /\ OnePollPerProcess'
                    /\ \A q \in Pollers : PollerKept(q)
<1>0. job \in [Jobs -> StorageJob] /\ \A p \in Pollers : Working(p) => cur[p] \in Jobs
  BY DEF TypeOK
<1>1. SUFFICES Rows /\ Polls
  BY ShapesKeepInv
<1>2. ASSUME NEW p \in Pollers, SweepExhausted(p) PROVE Rows /\ Polls
  <2>1. Rows
    BY <1>0, <1>2, RowResults DEF SweepExhausted, RowKept, RowFreed
  <2>2. OnePollPerProcess'
    BY <1>2 DEF SweepExhausted, NoPollInFlight, QueueInv, OnePollPerProcess, TypeOK
  <2>3. \A q \in Pollers : PollerKept(q)
    BY <1>2 DEF SweepExhausted, PollerKept, TypeOK, Working, PollerPc
  <2> QED
    BY <2>1, <2>2, <2>3
<1>3. ASSUME NEW p \in Pollers, NEW j \in Jobs, ClaimReady(p, j) PROVE Rows /\ Polls
  <2>1. pc[p] = "polling" /\ job' = [job EXCEPT ![j] = Claimed(job[j], ProcessOf[p])]
        /\ UNCHANGED <<arms, done>>
    BY <1>3 DEF ClaimReady
  <2>2. job'[j].status = "Running" /\ job'[j].by = ProcessOf[p]
    BY <1>0, <2>1, RowResults
  <2>3. \A k \in Jobs \ {j} : RowKept(k)
    BY <1>0, <2>1 DEF RowKept
  <2>4. \A q \in Pollers \ {p} : Working(q) => ProcessOf[q] # ProcessOf[p]
    BY <2>1 DEF QueueInv, OnePollPerProcess, Working
  <2>5. CASE Idle(p)
    <3>1. \A q \in Pollers : Working(q)' => q # p /\ Working(q)
      BY <2>5 DEF Idle, Working, TypeOK
    <3>2. RowTaken(j)
      BY <2>2, <2>4, <3>1 DEF RowTaken
    <3> QED
      BY <2>3, <2>5, <3>2, IdleShape, PollsDoNotOverlap
  <2>6. CASE /\ pc'      = [pc EXCEPT ![p] = "claimed"]
             /\ cur'     = [cur EXCEPT ![p] = j]
             /\ attempt' = [attempt EXCEPT ![p] = job'[j].attempts]
             /\ begun'   = [begun EXCEPT ![p] = arms[j]]
             /\ UNCHANGED <<outcome, lost>>
    <3>1. \A q \in Pollers \ {p} : Working(q)' => Working(q)
      BY <2>6 DEF Working, TypeOK
    <3>2. /\ pc'[p] = "claimed" /\ cur'[p] = j
          /\ attempt'[p] = job'[j].attempts /\ begun'[p] = arms'[j]
      BY <2>1, <2>6 DEF TypeOK
    <3>3. RowTaken(j)
      BY <2>2, <2>4, <3>1, <3>2 DEF RowTaken
    <3>4. \A q \in Pollers : pc'[q] # "idle" => pc[q] # "idle"
      BY <2>1, <2>6 DEF TypeOK
    <3>5. \A q \in Pollers \ {p} : PollerKept(q)
      BY <2>6 DEF PollerKept, TypeOK, Working, PollerPc
    <3>6. PollerKept(p)
      BY <3>2, <3>3 DEF PollerKept
    <3> QED
      BY <2>3, <3>3, <3>4, <3>5, <3>6, PollsDoNotOverlap
  <2> QED
    BY <1>3, <2>5, <2>6 DEF ClaimReady
<1>4. ASSUME NEW p \in Pollers, PollEnds(p) PROVE Rows /\ Polls
  BY <1>4, IdleShape, PollsDoNotOverlap DEF PollEnds, queueVars, RowKept
<1>5. ASSUME NEW p \in Pollers, Preflight(p) PROVE Rows /\ Polls
  <2>1. cur[p] \in Jobs /\ job[cur[p]] \in StorageJob
    BY <1>0, <1>5 DEF Preflight, Working
  <2>2. Rows
    BY <1>0, <1>5, <2>1, RowResults DEF Preflight, RowKept
  <2>3. CASE Idle(p)
    BY <2>2, <2>3, IdleShape, PollsDoNotOverlap
  <2>4. CASE /\ pc' = [pc EXCEPT ![p] = "running"]
             /\ UNCHANGED <<cur, attempt, outcome, lost, begun>>
    <3>1. \A q \in Pollers : pc'[q] # "idle" => pc[q] # "idle"
      BY <1>5, <2>4 DEF Preflight, TypeOK
    <3>2. \A q \in Pollers : PollerKept(q)
      BY <1>5, <2>4 DEF Preflight, TypeOK, PollerKept, Working, PollerPc
    <3> QED
      BY <2>2, <3>1, <3>2, PollsDoNotOverlap
  <2> QED
    BY <1>5, <2>3, <2>4 DEF Preflight
<1>6. ASSUME NEW p \in Pollers, HeartbeatLosesJob(p) PROVE Rows /\ Polls
  <2>1. Rows
    BY <1>6 DEF HeartbeatLosesJob, queueVars, RowKept
  <2>2. \A q \in Pollers : PollerKept(q)
    BY <1>6 DEF HeartbeatLosesJob, PollerKept, TypeOK, Working, PollerPc
  <2> QED
    BY <1>6, <2>1, <2>2, PollsDoNotOverlap DEF HeartbeatLosesJob
<1>7. ASSUME NEW p \in Pollers, HandlerSucceeds(p) PROVE Rows /\ Polls
  <2>1. pc[p] = "running" /\ Working(p) /\ cur[p] \in Jobs /\ "ok" \in Outcome
    BY <1>0, <1>7 DEF HandlerSucceeds, Working, Outcome
  <2>2. \A k \in Jobs : done[k] => done'[k]
    BY <1>7, <2>1 DEF HandlerSucceeds, TypeOK
  <2>3. LockedBy(job[cur[p]], ProcessOf[p]) => done'[cur[p]]
    BY <1>7, <2>1 DEF HandlerSucceeds, TypeOK, QueueInv, ClaimFenced
  <2>4. /\ \A k \in Jobs : RowKept(k) \/ RowFreed(k)
        /\ NextOf[cur[p]] # NoJob => job'[NextOf[cur[p]]].status # "None"
    BY <1>7, <2>1, <2>2, ContinueShape DEF HandlerSucceeds
  <2>5. /\ \A q \in Pollers : pc'[q] # "idle" => pc[q] # "idle"
        /\ \A q \in Pollers : PollerKept(q)
    BY <1>7, <2>1, <2>3, <2>4, ReturnShape DEF HandlerSucceeds
  <2> QED
    BY <2>4, <2>5, PollsDoNotOverlap
<1>8. ASSUME NEW p \in Pollers, NEW o \in Outcome, HandlerFails(p, o) PROVE Rows /\ Polls
  <2>1. pc[p] = "running" /\ cur[p] \in Jobs /\ o # "ok" /\ UNCHANGED done
    BY <1>0, <1>8 DEF HandlerFails, Working
  <2>2. Rows
    <3>1. CASE UNCHANGED <<job, arms>>
      BY <2>1, <3>1 DEF RowKept
    <3>2. CASE ContinueScan(cur[p])
      BY <2>1, <3>2, ContinueShape
    <3> QED
      BY <1>8, <3>1, <3>2 DEF HandlerFails
  <2>3. /\ \A q \in Pollers : pc'[q] # "idle" => pc[q] # "idle"
        /\ \A q \in Pollers : PollerKept(q)
    BY <1>8, <2>1, ReturnShape DEF HandlerFails
  <2> QED
    BY <2>2, <2>3, PollsDoNotOverlap
<1>9. ASSUME NEW p \in Pollers, HandlerCommits(p) PROVE Rows /\ Polls
  <2>1. /\ pc[p] = "running" /\ Working(p) /\ cur[p] \in Jobs /\ job[cur[p]] \in StorageJob
        /\ NextOf[cur[p]] = NoJob /\ "retryable" \in Outcome /\ UNCHANGED arms
    BY <1>0, <1>9, NextAssumption DEF HandlerCommits, Working, Outcome
  <2>2. Rows
    <3>1. CASE UNCHANGED <<job, done>>
      BY <2>1, <3>1 DEF RowKept
    <3>2. CASE /\ OwnsResult(p)
               /\ job' = [job EXCEPT ![cur[p]] = MarkSucceeded(@)]
               /\ done' = [done EXCEPT ![cur[p]] = @ \/ begun[p] = arms[cur[p]]]
      <4>1. job'[cur[p]].status = "Succeeded"
        BY <1>0, <2>1, <3>2, RowResults
      <4>2. done'[cur[p]]
        BY <2>1, <3>2 DEF OwnsResult, QueueInv, ClaimFenced, TypeOK
      <4>3. \A k \in Jobs \ {cur[p]} : RowKept(k)
        BY <1>0, <2>1, <3>2 DEF RowKept, TypeOK
      <4> QED
        BY <2>1, <4>1, <4>2, <4>3 DEF RowFreed
    <3> QED
      BY <1>9, <3>1, <3>2 DEF HandlerCommits
  <2>3. /\ \A q \in Pollers : pc'[q] # "idle" => pc[q] # "idle"
        /\ \A q \in Pollers : PollerKept(q)
    BY <1>9, <2>1, IdleShape, ReturnShape DEF HandlerCommits
  <2> QED
    BY <2>2, <2>3, PollsDoNotOverlap
<1>10. ASSUME NEW p \in Pollers, PersistResult(p) PROVE Rows /\ Polls
  <2>1. /\ pc[p] = "finished" /\ cur[p] \in Jobs /\ job[cur[p]] \in StorageJob
        /\ UNCHANGED <<arms, done>>
    BY <1>0, <1>10 DEF PersistResult, Working
  <2>2. Rows
    <3>1. CASE UNCHANGED job
      BY <2>1, <3>1 DEF RowKept
    <3>2. CASE /\ OwnsResult(p) /\ outcome[p] = "ok"
               /\ job' = [job EXCEPT ![cur[p]] = MarkSucceeded(@)]
      <4>1. job'[cur[p]].status = "Succeeded"
        BY <1>0, <2>1, <3>2, RowResults
      <4>2. done'[cur[p]]
        BY <2>1, <3>2 DEF OwnsResult, QueueInv, ResultsEarned
      <4>3. \A k \in Jobs \ {cur[p]} : RowKept(k)
        BY <1>0, <2>1, <3>2 DEF RowKept
      <4>4. \A k \in Jobs : job[k].status # "None" => job'[k].status # "None"
        BY <4>1, <4>3 DEF RowKept
      <4>5. NextOf[cur[p]] # NoJob => job'[NextOf[cur[p]]].status # "None"
        BY <2>1, <3>2, <4>4, NextAssumption DEF QueueInv, PagesQueued
      <4> QED
        BY <4>1, <4>2, <4>3, <4>5 DEF RowFreed
    <3>3. CASE job' = [job EXCEPT ![cur[p]] = MarkFailed(@, outcome[p] = "retryable")]
      BY <1>0, <2>1, <3>3, RowResults DEF RowFreed, RowKept
    <3> QED
      BY <1>10, <3>1, <3>2, <3>3 DEF PersistResult
  <2> QED
    BY <1>10, <2>2, IdleShape, PollsDoNotOverlap DEF PersistResult
<1>11. ASSUME NEW j \in Jobs, EnqueueJob(j) \/ ReplayDeadLetter(j) PROVE Rows /\ Polls
  <2>1. Arm(j) /\ UNCHANGED pollerVars
    BY <1>11 DEF EnqueueJob, ReplayDeadLetter
  <2>2. Rows
    BY <1>0, <2>1, RowResults DEF Arm, RowKept, RowFreed, TypeOK
  <2>3. \A q \in Pollers : PollerKept(q)
    BY <2>1 DEF pollerVars, PollerKept, TypeOK, Working, PollerPc
  <2> QED
    BY <2>1, <2>2, <2>3, PollsDoNotOverlap DEF pollerVars
<1>12. ASSUME NEW j \in Jobs, BecomesDue(j) \/ LeaseRunsOut(j) PROVE Rows /\ Polls
  <2>1. UNCHANGED <<arms, done, pollerVars>>
    BY <1>12 DEF BecomesDue, LeaseRunsOut
  <2>2. Rows
    BY <1>0, <1>12, <2>1 DEF BecomesDue, LeaseRunsOut, RowKept, StorageJob
  <2>3. \A q \in Pollers : PollerKept(q)
    BY <2>1 DEF pollerVars, PollerKept, TypeOK, Working, PollerPc
  <2> QED
    BY <2>1, <2>2, <2>3, PollsDoNotOverlap DEF pollerVars
<1>13. ASSUME NEW o \in JobOwners, Crash(o) PROVE Rows /\ Polls
  <2>1. Rows
    BY <1>13 DEF Crash, queueVars, RowKept
  <2>2. /\ \A q \in Pollers : pc'[q] # "idle" => pc[q] # "idle"
        /\ \A q \in Pollers : PollerKept(q)
    BY <1>13 DEF Crash, PollerKept, TypeOK, Working, PollerPc
  <2> QED
    BY <2>1, <2>2, PollsDoNotOverlap
<1>14. CASE UNCHANGED vars
  <2>1. Rows
    BY <1>14 DEF vars, queueVars, RowKept
  <2>2. \A q \in Pollers : PollerKept(q)
    BY <1>14 DEF vars, pollerVars, PollerKept, TypeOK, Working, PollerPc
  <2> QED
    BY <1>14, <2>1, <2>2, PollsDoNotOverlap DEF vars, pollerVars
<1> QED
  BY <1>2, <1>3, <1>4, <1>5, <1>6, <1>7, <1>8, <1>9, <1>10, <1>11, <1>12, <1>13, <1>14
     DEF Next, PollerStep, JobStep

\* QueueInv holds in every reachable state.
LEMMA QueueInvHolds == Spec => []QueueInv
<1>1. Init => QueueInv
  BY DEF Init, QueueInv, OnePollPerProcess, ClaimFenced, ResultsEarned, NoFalseSuccess,
         PagesQueued, ScanContinues, Working, NoJobRow
<1>2. TypeOK /\ TypeOK' /\ QueueInv /\ [Next]_vars => QueueInv'
  BY StepInv
<1> QED
  BY <1>1, <1>2, QueueTypeCorrect, PTL DEF Spec

\* Results fenced by the owner's name alone belong to the current claim, for
\* any number of worker processes, crashes, takeovers and replays.
THEOREM ClaimFencedHolds == Spec => []ClaimFenced
<1>1. QueueInv => ClaimFenced
  BY DEF QueueInv
<1> QED
  BY <1>1, QueueInvHolds, PTL

\* No job reads Succeeded unless an execution of its present round did the
\* work: a late result never closes a job that was rearmed or replayed.
THEOREM NoFalseSuccessHolds == Spec => []NoFalseSuccess
<1>1. QueueInv => NoFalseSuccess
  BY DEF QueueInv
<1> QED
  BY <1>1, QueueInvHolds, PTL

\* No crash, takeover or retry drops the continuation of a scan.
THEOREM ScanContinuesHolds == Spec => []ScanContinues
<1>1. QueueInv => ScanContinues
  BY DEF QueueInv
<1> QED
  BY <1>1, QueueInvHolds, PTL

=============================================================================
