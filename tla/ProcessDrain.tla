---------------------------- MODULE ProcessDrain ----------------------------
(***************************************************************************)
(* Start, request admission and graceful drain of one server process with  *)
(* the API and the worker role: src/src/services/ProcessRuntime.cpp,       *)
(* StorageWorkerRuntime.cpp, ScheduledTasks.cpp and src/src/main.cpp.      *)
(*                                                                         *)
(* Every access to a std::atomic is one action (they are sequentially      *)
(* consistent).  Three kinds of threads run: the I/O threads that admit    *)
(* and serve requests, the main loop, which runs the beginning advice and  *)
(* then one callback at a time (poll, seed, check_drained), and the thread *)
(* that happens to receive the termination signal.                         *)
(***************************************************************************)
EXTENDS Naturals, FiniteSets

CONSTANT Requests   \* HTTP requests, each arriving once

ASSUME RequestsAssumption == IsFiniteSet(Requests)

VARIABLES
    initialized, draining, workerAccepting, inflight,  \* ProcessRuntimeState
    published,     \* RuntimeServices::worker_runtime is set
    accepting,     \* m_accepting of StorageWorkerRuntime and of ScheduledTasks
    busy,          \* m_poll_inflight and m_seed_inflight
    boot,          \* the step of the beginning advice
    signal,        \* the step of BeginShutdown
    httpReq,       \* the step of a request
    task,          \* the step of PollOnce and of SeedOnce
    timedOut,      \* shutdown_deadline has passed
    quit           \* drogon::app().quit() was called: after a drain or the deadline

stateVars == <<initialized, draining, workerAccepting, inflight>>
taskVars  == <<accepting, busy, task>>
mainVars  == <<published, boot, timedOut, quit>>
drainVars == <<stateVars, taskVars, mainVars, signal, httpReq>>

Tasks  == {"poll", "seed"}
BootPc == {"scheduler", "start", "publish", "load", "store", "initialize", "done"}

DrainTypeOK ==
    /\ initialized     \in BOOLEAN
    /\ draining        \in BOOLEAN
    /\ workerAccepting \in BOOLEAN
    /\ inflight        \in 0 .. Cardinality(Requests)
    /\ published       \in BOOLEAN
    /\ accepting       \in [Tasks -> BOOLEAN]
    /\ busy            \in [Tasks -> BOOLEAN]
    /\ boot            \in BootPc
    /\ signal          \in {"none", "accepting", "worker", "scheduler", "timer", "done"}
    /\ httpReq         \in [Requests -> {"new", "checked", "counted", "serving",
                                         "refused", "over"}]
    /\ task            \in [Tasks -> {"idle", "checked", "entered", "running"}]
    /\ timedOut        \in BOOLEAN
    /\ quit            \in {"no", "drained", "deadline"}

\* The worker runtime is created accepting; the seeder when it is initialized.
DrainInit ==
    /\ initialized = FALSE /\ draining = FALSE /\ workerAccepting = FALSE
    /\ inflight = 0
    /\ published = FALSE
    /\ accepting = [t \in Tasks |-> t = "poll"]
    /\ busy = [t \in Tasks |-> FALSE]
    /\ boot = "scheduler"
    /\ signal = "none"
    /\ httpReq = [r \in Requests |-> "new"]
    /\ task = [t \in Tasks |-> "idle"]
    /\ timedOut = FALSE
    /\ quit = "no"

-----------------------------------------------------------------------------
(* The beginning advice.                                                   *)

BootAt(here, next) ==
    /\ quit = "no"
    /\ boot = here
    /\ boot' = next

InitializeScheduler ==
    /\ BootAt("scheduler", "start")
    /\ accepting' = [accepting EXCEPT !["seed"] = TRUE]
    /\ UNCHANGED <<stateVars, busy, task, published, timedOut, quit, signal, httpReq>>

\* Register and Start queue their callbacks behind the advice.
StartWorker ==
    /\ BootAt("start", "publish")
    /\ UNCHANGED <<stateVars, taskVars, published, timedOut, quit, signal, httpReq>>

PublishWorker ==
    /\ BootAt("publish", "load")
    /\ published' = TRUE
    /\ UNCHANGED <<stateVars, taskVars, timedOut, quit, signal, httpReq>>

\* SetWorkerAccepting(true) reads m_draining and then stores the result.
LoadDraining ==
    /\ BootAt("load", IF draining THEN "initialize" ELSE "store")
    /\ UNCHANGED <<stateVars, taskVars, published, timedOut, quit, signal, httpReq>>

StoreAccepting ==
    /\ BootAt("store", "initialize")
    /\ workerAccepting' = TRUE
    /\ UNCHANGED <<initialized, draining, inflight, taskVars, published, timedOut,
                   quit, signal, httpReq>>

MarkInitialized ==
    /\ BootAt("initialize", "done")
    /\ initialized' = TRUE
    /\ UNCHANGED <<draining, workerAccepting, inflight, taskVars, published,
                   timedOut, quit, signal, httpReq>>

Boot ==
    \/ InitializeScheduler \/ StartWorker \/ PublishWorker
    \/ LoadDraining \/ StoreAccepting \/ MarkInitialized

-----------------------------------------------------------------------------
(* Requests.                                                               *)

CanAcceptBusinessRequest == initialized /\ ~draining

\* The I/O threads run on for a while after quit().
ReqAt(r, here, next) ==
    /\ httpReq[r] = here
    /\ httpReq' = [httpReq EXCEPT ![r] = next]

\* TryAcquireBusinessRequest: check, count, check again.
FirstCheck(r) ==
    /\ ReqAt(r, "new", IF CanAcceptBusinessRequest THEN "checked" ELSE "over")
    /\ UNCHANGED <<stateVars, taskVars, mainVars, signal>>

CountRequest(r) ==
    /\ ReqAt(r, "checked", "counted")
    /\ inflight' = inflight + 1
    /\ UNCHANGED <<initialized, draining, workerAccepting, taskVars, mainVars, signal>>

SecondCheck_Skipped(r) ==
    /\ ReqAt(r, "counted", "serving")
    /\ UNCHANGED <<stateVars, taskVars, mainVars, signal>>

SecondCheck(r) ==
    /\ ReqAt(r, "counted", IF CanAcceptBusinessRequest THEN "serving" ELSE "refused")
    /\ UNCHANGED <<stateVars, taskVars, mainVars, signal>>

\* ReleaseBusinessRequest, by the refusal or once before the response is sent.
ReleaseRequest(r) ==
    /\ ReqAt(r, "serving", "over") \/ ReqAt(r, "refused", "over")
    /\ inflight' = IF inflight > 0 THEN inflight - 1 ELSE 0
    /\ UNCHANGED <<initialized, draining, workerAccepting, taskVars, mainVars, signal>>

RequestStep(r) ==
    FirstCheck(r) \/ CountRequest(r) \/ SecondCheck(r) \/ ReleaseRequest(r)

-----------------------------------------------------------------------------
(* PollOnce and SeedOnce.  From its first check until it awaits, a callback *)
(* has the main loop for itself.                                            *)

LoopFree ==
    /\ quit = "no" /\ boot = "done"
    /\ \A t \in Tasks : task[t] \notin {"checked", "entered"}

\* The callback comes round, finds the task accepting and takes the in-flight
\* flag.
CheckAccepting(t) ==
    /\ LoopFree
    /\ task[t] = "idle" /\ accepting[t]
    /\ task' = [task EXCEPT ![t] = "checked"]
    /\ UNCHANGED <<stateVars, accepting, busy, mainVars, signal, httpReq>>

\* The worker looks again at m_accepting before each run; the seeder does not
\* look again.
EnterTask(t) ==
    /\ quit = "no"
    /\ task[t] = "checked"
    /\ busy' = [busy EXCEPT ![t] = TRUE]
    /\ task' = [task EXCEPT ![t] = IF t = "poll" THEN "entered" ELSE "running"]
    /\ UNCHANGED <<stateVars, accepting, mainVars, signal, httpReq>>

TaskEnds(t) ==
    /\ busy' = [busy EXCEPT ![t] = FALSE]
    /\ task' = [task EXCEPT ![t] = "idle"]

\* A run of the worker begins, the first one or one after a run that claimed.
BeginRun ==
    /\ quit = "no"
    /\ task["poll"] \in {"entered", "running"}
    /\ accepting["poll"]
    /\ task' = [task EXCEPT !["poll"] = "running"]
    /\ UNCHANGED <<stateVars, accepting, busy, mainVars, signal, httpReq>>

\* The worker stops accepting, claimed nothing or failed; the seeder is done.
EndTask(t) ==
    /\ quit = "no"
    /\ \/ task[t] = "running"
       \/ task[t] = "entered" /\ ~accepting[t]
    /\ TaskEnds(t)
    /\ UNCHANGED <<stateVars, accepting, mainVars, signal, httpReq>>

-----------------------------------------------------------------------------
(* BeginShutdown in the signal handler, and check_drained.                 *)

SignalAt(here, next) ==
    /\ quit = "no"
    /\ signal = here
    /\ signal' = next

BeginDrain ==
    /\ SignalAt("none", "accepting")
    /\ draining' = TRUE
    /\ UNCHANGED <<initialized, workerAccepting, inflight, taskVars, mainVars, httpReq>>

ClearAccepting ==
    /\ SignalAt("accepting", "worker")
    /\ workerAccepting' = FALSE
    /\ UNCHANGED <<initialized, draining, inflight, taskVars, mainVars, httpReq>>

\* Without a published worker runtime neither task is told.
DrainWorker ==
    /\ SignalAt("worker", IF published THEN "scheduler" ELSE "timer")
    /\ accepting' = [accepting EXCEPT !["poll"] = @ /\ ~published]
    /\ UNCHANGED <<stateVars, busy, task, mainVars, httpReq>>

StopScheduler ==
    /\ SignalAt("scheduler", "timer")
    /\ accepting' = [accepting EXCEPT !["seed"] = FALSE]
    /\ UNCHANGED <<stateVars, busy, task, mainVars, httpReq>>

ScheduleCheck ==
    /\ SignalAt("timer", "done")
    /\ UNCHANGED <<stateVars, taskVars, mainVars, httpReq>>

Shutdown ==
    BeginDrain \/ ClearAccepting \/ DrainWorker \/ StopScheduler \/ ScheduleCheck

DeadlinePasses ==
    /\ signal = "done" /\ quit = "no" /\ ~timedOut
    /\ timedOut' = TRUE
    /\ UNCHANGED <<stateVars, taskVars, published, boot, quit, signal, httpReq>>

Drained ==
    /\ inflight = 0
    /\ published => \A t \in Tasks : ~busy[t]

\* The timer of the main loop; until then nothing happens.
CheckDrained_NoDeadline ==
    /\ LoopFree /\ signal = "done"
    /\ Drained
    /\ quit' = "drained"
    /\ UNCHANGED <<stateVars, taskVars, published, boot, timedOut, signal, httpReq>>

CheckDrained ==
    /\ LoopFree /\ signal = "done"
    /\ Drained \/ timedOut
    /\ quit' = IF Drained THEN "drained" ELSE "deadline"
    /\ UNCHANGED <<stateVars, taskVars, published, boot, timedOut, signal, httpReq>>

-----------------------------------------------------------------------------
TaskStep(t) == CheckAccepting(t) \/ EnterTask(t) \/ EndTask(t)

DrainNext ==
    \/ Boot
    \/ \E r \in Requests : RequestStep(r)
    \/ \E t \in Tasks : TaskStep(t)
    \/ BeginRun
    \/ Shutdown
    \/ DeadlinePasses
    \/ CheckDrained

DrainSpec == DrainInit /\ [][DrainNext]_drainVars

-----------------------------------------------------------------------------
\* A process that reports a completed drain abandons nothing: no request that
\* was admitted, by whichever thread and however close to the signal, is still
\* being served, and neither a worker run nor a seed cycle is under way.
DrainedMeansIdle ==
    quit = "drained" =>
        /\ \A r \in Requests : httpReq[r] # "serving"
        /\ \A t \in Tasks : task[t] # "running"

\* The counters and flags of a process stay consistent up to its end, on
\* whichever thread the signal arrives (TryAcquireBusinessRequest,
\* ReleaseBusinessRequest, check_drained).
DrainConsistent == DrainTypeOK /\ DrainedMeansIdle

\* Stated by the deployment specification: after the drain boundary the
\* process starts no other storage job.
NoRunAfterDrain ==
    [][signal = "done" => ~BeginRun]_drainVars

-----------------------------------------------------------------------------
(* Liveness: the main loop runs, the handler of the signal runs, time      *)
(* passes.  Requests and tasks may hang.                                   *)

DrainFairness ==
    /\ WF_drainVars(Boot)
    /\ WF_drainVars(Shutdown /\ signal # "none")
    /\ WF_drainVars(DeadlinePasses)
    /\ SF_drainVars(CheckDrained)
    /\ \A t \in Tasks : WF_drainVars(EnterTask(t))
    /\ WF_drainVars(task["poll"] = "entered" /\ (BeginRun \/ EndTask("poll")))

DrainLiveSpec == DrainSpec /\ DrainFairness

\* Once it drains, the process exits, whatever hangs.
DrainEnds == draining ~> quit # "no"

=============================================================================
