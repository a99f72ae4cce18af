------------------------------- MODULE Cluster -------------------------------
(***************************************************************************)
(* The master process of a host: one worker process per core, and the     *)
(* rolling restart of them.  Source: services/cluster.js.                  *)
(*                                                                         *)
(* A worker has the number of its fork.  Callbacks of the cluster module   *)
(* and timers are actions; the delay of a timer is left out, so the order  *)
(* in which two timers fire is open.                                       *)
(***************************************************************************)
EXTENDS Naturals, Sequences, FiniteSets, SequencesExt

CONSTANTS
    numCores,
    MaxReloads,   \* bound: reload requests
    MaxTicks,     \* bound: interval ticks while something else is pending
    MaxCrashes    \* bound: workers that exit by themselves

ASSUME ClusterAssumption ==
    /\ numCores \in Nat \ {0}
    /\ MaxReloads \in Nat /\ MaxTicks \in Nat /\ MaxCrashes \in Nat

VARIABLES
    workers,     \* what each fork is: "starting", "online", "stopping", "exited"
    workerList, reloadList, reloading,
    starts,      \* timers that will call startWorker
    stops,       \* timers that will call stopWorker
    reloads, ticks, crashes,  \* how many there were
    forksBefore, \* history: forks when the reload was requested
    asked        \* history: was the first reload requested "never", "early",
                 \* before all cores had a worker that was up, or "ready"?

clusterVars == <<workers, workerList, reloadList, reloading, starts, stops,
                 reloads, ticks, crashes, forksBefore, asked>>
counts == <<reloads, ticks, crashes, forksBefore, asked>>
lists  == <<workerList, reloadList, reloading>>

Forks == DOMAIN workers
Running == {w \in Forks : workers[w] \in {"starting", "online"}}
Up == {w \in Forks : workers[w] = "online"}

(* startCluster has called startWorker for each core.  They come up one by *)
(* one, and the first that is up may request a reload.                     *)
ClusterInit ==
    /\ workers = [w \in 1 .. numCores |-> "starting"]
    /\ workerList = [w \in 1 .. numCores |-> w]
    /\ reloadList = <<>> /\ reloading = FALSE
    /\ starts = 0 /\ stops = 0
    /\ reloads = 0 /\ ticks = 0 /\ crashes = 0 /\ forksBefore = 0
    /\ asked = "never"

(* worker.kill: one that has exited already does not exit again.           *)
Killed(w) == [workers EXCEPT ![w] = IF w \in Running THEN "stopping" ELSE @]

startWorker ==
    /\ starts > 0
    /\ starts' = starts - 1
    /\ workers' = Append(workers, "starting")
    /\ workerList' = Append(workerList, Len(workers) + 1)
    /\ UNCHANGED <<reloadList, reloading, stops, counts>>

stopWorker ==
    /\ stops > 0
    /\ stops' = stops - 1
    /\ \/ /\ reloadList # <<>>
          /\ workers' = Killed(Last(reloadList))
          /\ reloadList' = Front(reloadList)
          /\ UNCHANGED reloading
       \/ /\ reloadList = <<>>
          /\ reloading' = FALSE
          /\ UNCHANGED <<workers, reloadList>>
    /\ UNCHANGED <<workerList, starts, counts>>

(* handleReload(startWorker) and handleReload(stopWorker).  Variant: the   *)
(* interval and the exits replace failed workers only.                     *)
failedWorker == ~reloading /\ Len(workerList) < numCores
handleReloadStartFailed == starts' = starts + (IF failedWorker THEN 1 ELSE 0)
handleReloadStart == starts' = starts + (IF reloading \/ failedWorker THEN 1 ELSE 0)
handleReloadStop == stops' = stops + (IF reloading THEN 1 ELSE 0)

(* 'exit' of a worker that was killed, or that died.                       *)
Exit(w) ==
    /\ workers[w] = "stopping"
    /\ workers' = [workers EXCEPT ![w] = "exited"]
    /\ handleReloadStart
    /\ UNCHANGED <<lists, stops, counts>>

Crash(w) ==
    /\ crashes < MaxCrashes /\ w \in Running
    /\ crashes' = crashes + 1
    /\ workers' = [workers EXCEPT ![w] = "exited"]
    /\ handleReloadStart
    /\ UNCHANGED <<lists, stops, reloads, ticks, forksBefore, asked>>

(* 'online' of a worker.                                                   *)
Online(w) ==
    /\ workers[w] = "starting"
    /\ workers' = [workers EXCEPT ![w] = "online"]
    /\ handleReloadStop
    /\ UNCHANGED <<lists, starts, counts>>

(* setInterval; ticks are counted only while something else is to come.    *)
Pending == starts + stops > 0 \/ \E w \in Forks : workers[w] \in {"starting", "stopping"}
Tick ==
    /\ reloading \/ failedWorker
    /\ IF Pending THEN ticks < MaxTicks /\ ticks' = ticks + 1 ELSE UNCHANGED ticks
    /\ handleReloadStart
    /\ UNCHANGED <<workers, lists, stops, reloads, crashes, forksBefore, asked>>

(* A worker sends the message `reload'.  Variant: a reload in progress is  *)
(* begun again.                                                            *)
Noted == asked' = IF asked # "never" THEN asked
                  ELSE IF Cardinality(Up) < numCores THEN "early" ELSE "ready"
reloadAgain ==
    /\ reloads < MaxReloads /\ Up # {}
    /\ workerList # <<>>
    /\ reloads' = reloads + 1
    /\ reloading' = TRUE
    /\ reloadList' = Front(workerList) /\ workerList' = <<>>
    /\ workers' = Killed(Last(workerList))
    /\ forksBefore' = IF reloading THEN forksBefore ELSE Len(workers)
    /\ Noted
    /\ UNCHANGED <<starts, stops, ticks, crashes>>
reload ==
    /\ reloads < MaxReloads /\ Up # {}
    /\ ~reloading /\ workerList # <<>>
    /\ reloads' = reloads + 1
    /\ reloading' = TRUE
    /\ reloadList' = Front(workerList) /\ workerList' = <<>>
    /\ workers' = Killed(Last(workerList))
    /\ forksBefore' = Len(workers)
    /\ Noted
    /\ UNCHANGED <<starts, stops, ticks, crashes>>

SomeWorkerMoves == \E w \in Forks : Exit(w) \/ Online(w)
ClusterNext ==
    \/ startWorker \/ stopWorker \/ SomeWorkerMoves
    \/ (\E w \in Forks : Crash(w)) \/ Tick \/ reload

ClusterFairness ==
    /\ WF_clusterVars(startWorker) /\ WF_clusterVars(stopWorker)
    /\ WF_clusterVars(SomeWorkerMoves) /\ WF_clusterVars(Tick)
ClusterSpec == ClusterInit /\ [][ClusterNext]_clusterVars /\ ClusterFairness

-----------------------------------------------------------------------------
(* Properties                                                              *)

(* The restart is a rolling one: whatever the interval starts in between,  *)
(* at most one core has no worker, as long as no worker crashes and the    *)
(* first reload waited for all cores.  startWorker takes the message of a  *)
(* worker that is up while others are starting: then the reload stops one  *)
(* more for each of those that comes up.                                   *)
RollsOneByOne ==
    crashes = 0 /\ asked = "ready" => Cardinality(Up) >= numCores - 1

(* When a reload is over, no worker runs that ran when it was requested.   *)
ReloadReplacesAll ==
    [][reloading /\ ~reloading' => \A w \in 1 .. forksBefore : w \notin Running']_clusterVars

(* The lists, timers and callbacks implement a rolling restart: none of    *)
(* them looks at how many workers are up, and yet one is stopped only when *)
(* all cores have theirs, unless a worker died or the first reload came    *)
(* too early; a reload ends only when all are replaced.                    *)
Restart == INSTANCE RollingRestart WITH
    cores <- numCores,
    launched <- Len(workers),
    running <- Running,
    up <- Up,
    old <- Running \cap ToSet(reloadList),
    restarting <- reloading,
    died <- crashes > 0,
    asked <- asked
RollsAsPromised == Restart!Spec

(* A reload ends, even if a worker on the list has died before its turn,   *)
(* whose exit will never be reported: then the interval goes on with it.   *)
ReloadEnds == reloading ~> ~reloading
=============================================================================
