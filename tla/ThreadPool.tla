----------------------------- MODULE ThreadPool -----------------------------
(***************************************************************************)
(* One domain's pool of worker threads: class ThreadPool of                *)
(* src/domain/thread-pool.js, the abort entry point of its factory, and    *)
(* the life of a worker thread (src/domain/worker.js) as far as the pool   *)
(* can observe it.                                                         *)
(*                                                                         *)
(* The main thread is a JavaScript event loop.  An action is one callback  *)
(* run to completion together with the microtasks that follow it: the      *)
(* pool is only ever observed between two callbacks.  An await whose       *)
(* promise is settled by a later event (a worker coming online, a worker   *)
(* exiting, a job running) ends an action.                                 *)
(***************************************************************************)
EXTENDS Naturals, FiniteSets, JsArray

CONSTANTS
    Jobs,        \* calls of runJob
    Threads,     \* worker ids; an id is reused once its worker is forgotten
    MaxThreads,  \* pool.maxThreads
    MinThreads,  \* pool.minThreads
    Commands,    \* the administrative operations that may be invoked
    MaxCommands, \* bound: how many of them are in progress at a time
    Faults,      \* what may go wrong with a worker: "exit", "spawn"
    None         \* no job, no thread, nobody

Loops  == {"startup", "reload"}                          \* run startThreads
Aborts == {"monitor", "rejection"}                       \* run pool.abort
Admins == {"reload", "destroy"} \cup Aborts              \* run stopThreads

ASSUME PoolAssumption ==
    /\ MaxThreads \in Nat \ {0}
    /\ MinThreads \in Nat \ {0}
    /\ Commands \subseteq Admins
    /\ MaxCommands \in Nat
    /\ Faults \subseteq {"exit", "spawn"}
    /\ None \notin Jobs \cup Threads \cup Loops
    /\ Jobs \cap Loops = {}

VARIABLES
    \* the fields of ThreadPool
    threads,      \* every started thread
    freeThreads,  \* the threads that await a job
    waitingJobs,  \* queued jobs
    closed,
    aborting,
    \* the promise runJob returned, by job
    status,
    \* worker threads
    worker,       \* "gone": no worker, "starting": not yet online, "online"
    starter,      \* who awaits newThread: a job, a loop of startThreads
    running,      \* the job whose listeners are on the thread's channel
    restarted,    \* jobs dispatched by the factory's abort
    \* the administrative operations
    toStart,      \* threads a startThreads loop will start after this one
    pc,           \* where an operation is
    cursor,       \* index of the iterator of stopThreads over pool.threads
    target        \* the thread whose exit stopThread awaits

jobVars    == <<status, waitingJobs>>
workerVars == <<worker, starter, running, restarted>>
adminVars  == <<toStart, pc, cursor, target>>
vars == <<threads, freeThreads, closed, aborting, jobVars, workerVars, adminVars>>

-----------------------------------------------------------------------------
(* Helpers                                                                 *)

poolSize == Len(threads)
noJobsRunning == Len(freeThreads) = Len(threads)

(* poolCanGrow: capacity, and no thread at all or one of three averages    *)
(* (queue rate, job duration, error rate) over its threshold.  The         *)
(* averages are abstracted: overLoad is any outcome of those comparisons.  *)
poolCanGrow(overLoad) ==
    /\ poolSize < MaxThreads
    /\ threads = <<>> \/ overLoad

(* No list, listener or operation refers to t: its id stands for a new     *)
(* Worker object.                                                          *)
Unused(t) ==
    /\ worker[t] = "gone"
    /\ running[t] = None
    /\ t \notin ToSet(threads) \cup ToSet(freeThreads)
    /\ \A p \in Admins : target[p] # t

(* newThread: the worker is created; its 'online' message comes later.     *)
newThread(t, who) ==
    /\ Unused(t)
    /\ worker'  = [worker EXCEPT ![t] = "starting"]
    /\ starter' = [starter EXCEPT ![t] = who]

(* enqueue, and a variant that forgets who waits already.                  *)
EnqueueOnly(j) == waitingJobs' = <<j>>
enqueue(j) == waitingJobs' = Append(waitingJobs, j)

(* allocate, once its new thread t is on freeThreads: run on the HEAD of   *)
(* that list.                                                              *)
allocate(j, t) ==
    /\ running' = [running EXCEPT ![Head(Append(freeThreads, t))] = j]
    /\ freeThreads' = Tail(Append(freeThreads, t))

RunNextOn(t) ==
    /\ running' = [running EXCEPT ![t] = Head(waitingJobs)]
    /\ waitingJobs' = Tail(waitingJobs)
checkin(t) ==
    /\ running' = [running EXCEPT ![t] = None]
    /\ freeThreads' = Append(freeThreads, t)

(* reallocate: the next waiting job, or back to freeThreads.  Variants:    *)
(* the thread is checked in although it got a job; the job stays in the    *)
(* queue; the last waiting job is overlooked; the thread is not checked in.*)
ReallocateAndCheckin(t) ==
    \/ waitingJobs # <<>> /\ RunNextOn(t) /\ freeThreads' = Append(freeThreads, t)
    \/ waitingJobs = <<>> /\ checkin(t) /\ UNCHANGED waitingJobs
ReallocatePeek(t) ==
    \/ /\ waitingJobs # <<>> /\ running' = [running EXCEPT ![t] = Head(waitingJobs)]
       /\ UNCHANGED <<freeThreads, waitingJobs>>
    \/ waitingJobs = <<>> /\ checkin(t) /\ UNCHANGED waitingJobs
ReallocateTwo(t) ==
    \/ Len(waitingJobs) > 1 /\ RunNextOn(t) /\ UNCHANGED freeThreads
    \/ Len(waitingJobs) <= 1 /\ checkin(t) /\ UNCHANGED waitingJobs
ReallocateDrop(t) ==
    \/ waitingJobs # <<>> /\ RunNextOn(t) /\ UNCHANGED freeThreads
    \/ /\ waitingJobs = <<>> /\ running' = [running EXCEPT ![t] = None]
       /\ UNCHANGED <<freeThreads, waitingJobs>>
reallocate(t) ==
    \/ waitingJobs # <<>> /\ RunNextOn(t) /\ UNCHANGED freeThreads
    \/ waitingJobs = <<>> /\ checkin(t) /\ UNCHANGED waitingJobs

(* What startThreads has to do after its first thread; one too many.       *)
OneMoreThread == MinThreads
laterThreads  == MinThreads - 1

-----------------------------------------------------------------------------
(* The constructor; with options.preload it calls startThreads.            *)
Init ==
    /\ threads = <<>> /\ freeThreads = <<>> /\ waitingJobs = <<>>
    /\ closed = FALSE /\ aborting = FALSE
    /\ status = [j \in Jobs |-> "new"]
    /\ running = [t \in Threads |-> None]
    /\ restarted = {}
    /\ pc = [p \in Admins |-> "idle"]
    /\ cursor = [p \in Admins |-> 1]
    /\ target = [p \in Admins |-> None]
    /\ \/ \E t \in Threads :
             /\ worker  = [u \in Threads |-> IF u = t THEN "starting" ELSE "gone"]
             /\ starter = [u \in Threads |-> IF u = t THEN "startup" ELSE None]
             /\ toStart = [l \in Loops |-> IF l = "startup" THEN laterThreads ELSE 0]
       \/ /\ worker  = [t \in Threads |-> "gone"]
          /\ starter = [t \in Threads |-> None]
          /\ toStart = [l \in Loops |-> 0]

-----------------------------------------------------------------------------
(* runJob: refuse, run on a free thread, start a thread, or queue.         *)

RunJobRefused(j) ==
    /\ status[j] = "new" /\ closed
    /\ status' = [status EXCEPT ![j] = "rejected"]
    /\ UNCHANGED <<threads, freeThreads, closed, aborting, waitingJobs,
                   workerVars, adminVars>>

Admit(j) ==
    /\ status[j] = "new" /\ ~closed
    /\ status' = [status EXCEPT ![j] = "pending"]

(* checkout took a free thread; threadsInUse then asserts that no more     *)
(* threads are free than exist.  When it throws, the thread is off the     *)
(* list and the promise runJob returned is never settled.                  *)
RunJobOnFree(j) ==
    /\ Admit(j)
    /\ poolSize < MaxThreads
    /\ freeThreads # <<>>
    /\ freeThreads' = Tail(freeThreads)
    /\ running' = IF Len(freeThreads) - 1 <= poolSize
                  THEN [running EXCEPT ![Head(freeThreads)] = j]
                  ELSE running
    /\ UNCHANGED <<threads, closed, aborting, waitingJobs, worker, starter,
                   restarted, adminVars>>

(* checkout went on to allocate, which awaits a new thread.                *)
RunJobAllocates(j, t) ==
    /\ Admit(j)
    /\ freeThreads = <<>>
    /\ \E overLoad \in BOOLEAN : poolCanGrow(overLoad)
    /\ newThread(t, j)
    /\ UNCHANGED <<threads, freeThreads, closed, aborting, waitingJobs, running,
                   restarted, adminVars>>

(* checkout returned nothing: the pool is at its maximum, whether or not a *)
(* thread is free, or no thread is free and the pool need not grow.        *)
RunJobQueued(j) ==
    /\ Admit(j)
    /\ \/ poolSize >= MaxThreads
       \/ freeThreads = <<>> /\ \E overLoad \in BOOLEAN : ~poolCanGrow(overLoad)
    /\ enqueue(j)
    /\ UNCHANGED <<threads, freeThreads, closed, aborting, workerVars, adminVars>>

-----------------------------------------------------------------------------
(* The first message of a worker: it joins both lists and newThread's      *)
(* caller goes on.                                                         *)

BringOnline(t) ==
    /\ worker[t] = "starting"
    /\ threads' = Append(threads, t)

(* ... a job, which allocate goes on to run.                               *)
OnlineForJob(t) ==
    /\ BringOnline(t)
    /\ starter[t] \in Jobs
    /\ allocate(starter[t], t)
    /\ worker'  = [worker EXCEPT ![t] = "online"]
    /\ starter' = [starter EXCEPT ![t] = None]
    /\ UNCHANGED <<closed, aborting, jobVars, restarted, adminVars>>

(* ... a startThreads loop that has more threads to start.                 *)
OnlineThenNext(t, u) ==
    /\ BringOnline(t)
    /\ u # t /\ Unused(u)
    /\ starter[t] \in Loops
    /\ toStart[starter[t]] > 0
    /\ toStart' = [toStart EXCEPT ![starter[t]] = @ - 1]
    /\ worker'  = [worker EXCEPT ![t] = "online", ![u] = "starting"]
    /\ starter' = [starter EXCEPT ![t] = None, ![u] = starter[t]]
    /\ freeThreads' = Append(freeThreads, t)
    /\ UNCHANGED <<closed, aborting, jobVars, running, restarted, pc, cursor, target>>

(* ... a startThreads loop that is done; the reload then opens the pool.   *)
OnlineLast(t) ==
    /\ BringOnline(t)
    /\ starter[t] \in Loops
    /\ toStart[starter[t]] = 0
    /\ worker'  = [worker EXCEPT ![t] = "online"]
    /\ starter' = [starter EXCEPT ![t] = None]
    /\ freeThreads' = Append(freeThreads, t)
    /\ \/ /\ starter[t] = "reload"
          /\ pc' = [pc EXCEPT !["reload"] = "idle"]
          /\ closed' = FALSE
       \/ /\ starter[t] = "startup"
          /\ UNCHANGED <<pc, closed>>
    /\ UNCHANGED <<aborting, jobVars, running, restarted, toStart, cursor, target>>

(* The worker dies before its first message: nothing listens, the promise  *)
(* of newThread stays pending.                                             *)
StartingWorkerDies(t) ==
    /\ "spawn" \in Faults
    /\ worker[t] = "starting"
    /\ worker'  = [worker EXCEPT ![t] = "gone"]
    /\ starter' = [starter EXCEPT ![t] = None]
    /\ UNCHANGED <<threads, freeThreads, closed, aborting, jobVars, running,
                   restarted, adminVars>>

-----------------------------------------------------------------------------
(* thread.run's listeners                                                  *)

Ended == {"resolved", "rejected"}

(* emit(NOJOBS) wakes whoever waits in drain.                              *)
WakeDrains ==
    pc' = [p \in Admins |-> IF pc[p] = "draining" /\ noJobsRunning
                            THEN "stopping" ELSE pc[p]]

(* messageFn: noJobsRunning is read before this thread is checked in.  A   *)
(* job in restarted never gets here: it was dispatched outside of any      *)
(* request, so messageFn throws in stopTimer, its first statement.         *)
CompleteJob(t) ==
    /\ worker[t] = "online"
    /\ running[t] \in Jobs \ restarted
    /\ \E outcome \in Ended : status' = [status EXCEPT ![running[t]] = outcome]
    /\ WakeDrains
    /\ reallocate(t)
    /\ UNCHANGED <<threads, closed, aborting, worker, starter, restarted,
                   toStart, cursor, target>>

MayExit(t) ==
    /\ worker[t] = "online"
    /\ "exit" \in Faults \/ \E p \in Admins : target[p] = t

(* errorFn and exitFn: a worker that runs a job fails, or obeys shutdown.  *)
(* Neither looks at waitingJobs.                                           *)
BusyWorkerExits(t) ==
    /\ MayExit(t)
    /\ running[t] \in Jobs \ restarted
    /\ worker'  = [worker EXCEPT ![t] = "gone"]
    /\ threads' = SpliceOut(threads, t)
    /\ status'  = [status EXCEPT ![running[t]] = "rejected"]
    /\ running' = [running EXCEPT ![t] = None]
    /\ UNCHANGED <<freeThreads, closed, aborting, waitingJobs, starter, restarted,
                   adminVars>>

(* No listener (an idle thread), or listeners that throw at once (a        *)
(* restarted job): the pool does not notice.                               *)
IdleWorkerExits(t) ==
    /\ MayExit(t)
    /\ running[t] \in restarted \cup {None}
    /\ worker' = [worker EXCEPT ![t] = "gone"]
    /\ UNCHANGED <<threads, freeThreads, closed, aborting, jobVars, starter, running,
                   restarted, adminVars>>

-----------------------------------------------------------------------------
(* reload, destroy and abort                                               *)

(* One more operation may begin (a bound of the model).                    *)
MayBegin(p) ==
    /\ p \in Commands
    /\ pc[p] = "idle"
    /\ Cardinality({q \in Admins : pc[q] # "idle"}) < MaxCommands

(* close().notify().drain(): drain returns at once if no job runs.         *)
Begin(p) ==
    /\ p \in {"reload", "destroy"}
    /\ MayBegin(p)
    /\ closed' = TRUE
    /\ pc' = [pc EXCEPT ![p] = IF noJobsRunning THEN "stopping" ELSE "draining"]
    /\ UNCHANGED <<threads, freeThreads, aborting, jobVars, workerVars, toStart,
                   cursor, target>>

(* The monitor found work waiting, no thread free and no progress.  The    *)
(* abort is a second away and nothing cancels it: the pings that should    *)
(* cannot be created outside of a request.                                 *)
MonitorArms ==
    /\ MayBegin("monitor")
    /\ ~aborting
    /\ waitingJobs # <<>> /\ freeThreads = <<>>
    /\ pc' = [pc EXCEPT !["monitor"] = "armed"]
    /\ UNCHANGED <<threads, freeThreads, closed, aborting, jobVars, workerVars,
                   toStart, cursor, target>>

(* pool.abort: by the monitor's timer, or because an async listener of the *)
(* pool or of a worker rejected.                                           *)
BeginAbort(p) ==
    /\ \/ p = "monitor" /\ pc[p] = "armed"
       \/ p = "rejection" /\ MayBegin(p)
    /\ aborting' = TRUE
    /\ closed' = TRUE
    /\ pc' = [pc EXCEPT ![p] = "stopping"]
    /\ UNCHANGED <<threads, freeThreads, jobVars, workerVars, toStart, cursor, target>>

(* stopThreads: the next thread of the live array is asked to shut down.   *)
StopNext(p) ==
    /\ pc[p] = "stopping"
    /\ cursor[p] <= poolSize
    /\ target' = [target EXCEPT ![p] = threads[cursor[p]]]
    /\ pc' = [pc EXCEPT ![p] = "awaiting"]
    /\ UNCHANGED <<threads, freeThreads, closed, aborting, jobVars, workerVars,
                   toStart, cursor>>

(* stopThread goes on once the worker is gone, and shortens both arrays    *)
(* under the iterator.                                                     *)
StopDone(p) ==
    /\ pc[p] = "awaiting"
    /\ worker[target[p]] = "gone"
    /\ freeThreads' = SpliceOut(freeThreads, target[p])
    /\ threads' = SpliceOut(threads, target[p])
    /\ target' = [target EXCEPT ![p] = None]
    /\ cursor' = [cursor EXCEPT ![p] = @ + 1]
    /\ pc' = [pc EXCEPT ![p] = "stopping"]
    /\ UNCHANGED <<closed, aborting, jobVars, workerVars, toStart>>

(* 'some threads didnt stop': the operation rejects, the pool stays closed *)
(* (and, for an abort, aborting).                                          *)
StopFails(p) ==
    /\ pc[p] = "stopping"
    /\ cursor[p] > poolSize
    /\ threads # <<>>
    /\ pc' = [pc EXCEPT ![p] = "idle"]
    /\ cursor' = [cursor EXCEPT ![p] = 1]
    /\ UNCHANGED <<threads, freeThreads, closed, aborting, jobVars, workerVars,
                   toStart, target>>

AllStopped(p) ==
    /\ pc[p] = "stopping"
    /\ cursor[p] > poolSize
    /\ threads = <<>>
    /\ cursor' = [cursor EXCEPT ![p] = 1]

(* reload: startThreads, one thread after the other.                       *)
ReloadStarts(t) ==
    /\ AllStopped("reload")
    /\ newThread(t, "reload")
    /\ toStart' = [toStart EXCEPT !["reload"] = laterThreads]
    /\ pc' = [pc EXCEPT !["reload"] = "starting"]
    /\ UNCHANGED <<threads, freeThreads, closed, aborting, jobVars, running,
                   restarted, target>>

DestroyEnds ==
    /\ AllStopped("destroy")
    /\ pc' = [pc EXCEPT !["destroy"] = "idle"]
    /\ UNCHANGED <<threads, freeThreads, closed, aborting, jobVars, workerVars,
                   toStart, target>>

Reopen(p) ==
    /\ AllStopped(p)
    /\ aborting' = FALSE
    /\ closed' = FALSE
    /\ pc' = [pc EXCEPT ![p] = "idle"]

(* The factory's abort restarts nothing unless TWO jobs wait.              *)
AbortReopens(p) ==
    /\ p \in Aborts
    /\ Reopen(p)
    /\ p = "monitor" => Len(waitingJobs) <= 1
    /\ UNCHANGED <<threads, freeThreads, jobVars, workerVars, toStart, target>>

(* The factory's abort: shift a job and allocate a thread for it; the pool *)
(* has no thread, so it can grow.                                          *)
AbortRestarts(t) ==
    /\ Reopen("monitor")
    /\ Len(waitingJobs) > 1
    /\ newThread(t, Head(waitingJobs))
    /\ restarted' = restarted \cup {Head(waitingJobs)}
    /\ waitingJobs' = Tail(waitingJobs)
    /\ UNCHANGED <<threads, freeThreads, status, running, toStart, target>>

-----------------------------------------------------------------------------
Next ==
    \/ \E j \in Jobs : RunJobRefused(j) \/ RunJobOnFree(j) \/ RunJobQueued(j)
    \/ \E j \in Jobs, t \in Threads : RunJobAllocates(j, t)
    \/ \E t \in Threads : OnlineForJob(t) \/ OnlineLast(t) \/ StartingWorkerDies(t)
    \/ \E t, u \in Threads : OnlineThenNext(t, u)
    \/ \E t \in Threads : CompleteJob(t) \/ BusyWorkerExits(t) \/ IdleWorkerExits(t)
    \/ \E p \in Admins : Begin(p) \/ BeginAbort(p)
    \/ \E p \in Admins : StopNext(p) \/ StopDone(p) \/ StopFails(p)
    \/ \E t \in Threads : ReloadStarts(t) \/ AbortRestarts(t)
    \/ DestroyEnds \/ MonitorArms
    \/ \E p \in Admins : AbortReopens(p)

Spec == Init /\ [][Next]_vars

(* The event loop handles every message a worker posts: a worker comes     *)
(* online, and a job's use case returns.  Nobody has to call runJob, and   *)
(* no worker has to fail.                                                  *)
Fairness ==
    /\ \A t \in Threads : WF_vars(OnlineForJob(t)) /\ WF_vars(OnlineLast(t))
    /\ \A t \in Threads : WF_vars(\E u \in Threads : OnlineThenNext(t, u))
    /\ \A t \in Threads : WF_vars(CompleteJob(t))
    /\ \A p \in Admins : WF_vars(StopNext(p)) /\ WF_vars(StopDone(p)) /\ WF_vars(StopFails(p))
    /\ \A t \in Threads : WF_vars(ReloadStarts(t) \/ AbortRestarts(t))
    /\ WF_vars(DestroyEnds)
    /\ \A p \in Admins : WF_vars(AbortReopens(p))

FairSpec == Spec /\ Fairness

-----------------------------------------------------------------------------
(* Properties                                                              *)

Phases == {"idle", "armed", "draining", "stopping", "awaiting", "starting"}

(* The lists hold threads and jobs, and the counters stay in range.        *)
PoolTypeOK ==
    /\ threads \in Seq(Threads) /\ freeThreads \in Seq(Threads)
    /\ waitingJobs \in Seq(Jobs)
    /\ closed \in BOOLEAN /\ aborting \in BOOLEAN
    /\ status \in [Jobs -> {"new", "pending"} \cup Ended]
    /\ worker \in [Threads -> {"gone", "starting", "online"}]
    /\ starter \in [Threads -> Jobs \cup Loops \cup {None}]
    /\ running \in [Threads -> Jobs \cup {None}]
    /\ restarted \subseteq Jobs
    /\ toStart \in [Loops -> 0..(MinThreads - 1)]
    /\ pc \in [Admins -> Phases]
    /\ cursor \in [Admins -> Nat \ {0}]
    /\ target \in [Admins -> Threads \cup {None}]
    /\ \A p \in Admins : pc[p] = "awaiting" => target[p] \in Threads

(* A thread that is on offer runs nothing and is offered once, whatever    *)
(* reloads, aborts and crashes do to the lists in between: checkout,       *)
(* allocate and reallocate never put two jobs on one worker, whose single  *)
(* reply could not be told apart.                                          *)
ThreadExclusive ==
    /\ IsInjective(threads) /\ IsInjective(freeThreads)
    /\ \A t \in ToSet(freeThreads) : running[t] = None
    /\ \A t \in Threads : worker[t] = "starting" =>
          /\ running[t] = None
          /\ t \notin ToSet(threads) \cup ToSet(freeThreads)

Queued  == ToSet(waitingJobs)
Running == {running[t] : t \in Threads} \cap Jobs
Awaited == {starter[t] : t \in Threads} \cap Jobs

(* A job is in at most one place: once in the queue, on one thread, or     *)
(* waiting for one thread to start; and only while its caller waits.  So   *)
(* no job runs twice, and no settled job is left in the queue.             *)
JobInOnePlace ==
    /\ IsInjective(waitingJobs)
    /\ \A t, u \in Threads : running[t] = running[u] /\ running[t] \in Jobs => t = u
    /\ \A t, u \in Threads : starter[t] = starter[u] /\ starter[t] \in Jobs => t = u
    /\ Queued \cap Running = {} /\ Queued \cap Awaited = {} /\ Running \cap Awaited = {}
    /\ \A j \in Queued \cup Running \cup Awaited : status[j] = "pending"

(* Once on a thread, a job stays on it until its promise is settled: no    *)
(* reallocation, stop or abort takes it away or hands its thread on.       *)
StaysPut ==
    [][\A t \in Threads : running[t] \in Jobs =>
          running'[t] = running[t] \/ status'[running[t]] \in Ended]_vars

(* To its callers the pool is one that lends threads, whatever reloads,    *)
(* aborts and crashes do to its lists: a job is lent a thread that has     *)
(* none and once only, the queue moves in order, a caller is answered once.*)
Lending == INSTANCE JobLending WITH
    accepted <- {j \in Jobs : status[j] # "new"},
    queue <- waitingJobs,
    called <- Awaited,
    lent <- running,
    settled <- {j \in Jobs : status[j] \in Ended}
LendsAsPromised == Lending!Spec

(* No worker fails to start: every caller that waits has its job           *)
(* somewhere, none is dropped between checkout, queue and thread.          *)
NoJobForgotten ==
    "spawn" \notin Faults /\ Commands = {} =>
        \A j \in Jobs : status[j] = "pending" => j \in Queued \cup Running \cup Awaited

(* As long as nobody stops threads, the lists agree with the workers: a    *)
(* live worker is listed, and a listed thread is free or has a job.        *)
ListsAgree ==
    Commands = {} =>
        /\ \A t \in Threads : worker[t] = "online" => t \in ToSet(threads)
        /\ ToSet(threads) = ToSet(freeThreads) \cup {t \in Threads : running[t] # None}

(* A queue in front of a busy thread drains: reallocate keeps the thread   *)
(* at work until nobody waits.                                             *)
QueueDrains ==
    \A j \in Jobs : j \in Queued /\ Running # {} ~> status[j] \in Ended

(* runJob's promise: "Run a job on an available thread; or queue the job   *)
(* until one becomes available".                                           *)
QueuedJobRuns ==
    \A j \in Jobs : j \in Queued ~> j \notin Queued

(* drain's promise: "for any jobs already running, wait for them to        *)
(* complete".                                                              *)
DrainCompletes ==
    \A p \in Admins : pc[p] = "draining" ~> pc[p] # "draining"

(* reload's promise: "Drain the pool, stop the pool and then start": when  *)
(* it starts its first thread, no worker from before is left.              *)
StopBeforeStart ==
    [][pc["reload"] = "stopping" /\ pc'["reload"] = "starting" =>
          \A t \in Threads : worker[t] = "gone"]_vars

(* The class's promise: "Increase pool capacity automatically as needed up *)
(* to max threads".                                                        *)
UpToMaximum == poolSize <= MaxThreads
=============================================================================
