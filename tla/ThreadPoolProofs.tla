-------------------------- MODULE ThreadPoolProofs --------------------------
(***************************************************************************)
(* Proofs about ThreadPool, for any jobs, threads, limits, administrative  *)
(* operations and faults.                                                  *)
(***************************************************************************)
EXTENDS ThreadPool, JsArrayProofs, FiniteSetTheorems

(* Every action keeps the lists, tables and counters in their ranges.      *)
LEMMA TypeStep == PoolTypeOK /\ [Next]_vars => PoolTypeOK'
<1> SUFFICES ASSUME PoolTypeOK, [Next]_vars PROVE PoolTypeOK'
  OBVIOUS
<1> USE PoolAssumption DEF PoolTypeOK, Ended, Loops, Phases
<1>1. ASSUME NEW j \in Jobs, RunJobRefused(j) PROVE PoolTypeOK'
  BY <1>1 DEF RunJobRefused, workerVars, adminVars
<1>2. ASSUME NEW j \in Jobs, RunJobOnFree(j) PROVE PoolTypeOK'
  <2>1. freeThreads' \in Seq(Threads) /\ Head(freeThreads) \in Threads
    BY <1>2, ShiftFacts DEF RunJobOnFree
  <2>2. running' \in [Threads -> Jobs \cup {None}] /\ status' \in [Jobs -> {"new", "pending"} \cup Ended]
    BY <1>2, <2>1 DEF RunJobOnFree, Admit
  <2> QED BY <1>2, <2>1, <2>2 DEF RunJobOnFree, adminVars
<1>3. ASSUME NEW j \in Jobs, RunJobQueued(j) PROVE PoolTypeOK'
  <2>1. waitingJobs' \in Seq(Jobs)
    BY <1>3, PushFacts DEF RunJobQueued, enqueue
  <2> QED BY <1>3, <2>1 DEF RunJobQueued, Admit, workerVars, adminVars
<1>4. ASSUME NEW j \in Jobs, NEW t \in Threads, RunJobAllocates(j, t) PROVE PoolTypeOK'
  BY <1>4 DEF RunJobAllocates, newThread, Admit, adminVars
<1>5. ASSUME NEW t \in Threads, OnlineForJob(t) PROVE PoolTypeOK'
  <2>1. threads' \in Seq(Threads)
    BY <1>5, PushFacts DEF OnlineForJob, BringOnline
  <2>2. Append(freeThreads, t) \in Seq(Threads) /\ Append(freeThreads, t) # <<>>
    BY PushFacts
  <2>3. freeThreads' \in Seq(Threads) /\ Head(Append(freeThreads, t)) \in Threads
    BY <1>5, <2>2, ShiftFacts DEF OnlineForJob, allocate
  <2>4. running' \in [Threads -> Jobs \cup {None}]
    BY <1>5, <2>3 DEF OnlineForJob, allocate
  <2> QED BY <1>5, <2>1, <2>3, <2>4 DEF OnlineForJob, jobVars, adminVars
<1>6. ASSUME NEW t \in Threads, NEW u \in Threads, OnlineThenNext(t, u) PROVE PoolTypeOK'
  <2>1. threads' \in Seq(Threads) /\ freeThreads' \in Seq(Threads)
    BY <1>6, PushFacts DEF OnlineThenNext, BringOnline
  <2>2. toStart' \in [Loops -> 0..(MinThreads - 1)]
    BY <1>6 DEF OnlineThenNext
  <2> QED BY <1>6, <2>1, <2>2 DEF OnlineThenNext, jobVars
<1>7. ASSUME NEW t \in Threads, OnlineLast(t) PROVE PoolTypeOK'
  <2>1. threads' \in Seq(Threads) /\ freeThreads' \in Seq(Threads)
    BY <1>7, PushFacts DEF OnlineLast, BringOnline
  <2>2. CASE starter[t] = "reload"
    <3>1. pc' = [pc EXCEPT !["reload"] = "idle"] /\ closed' = FALSE
      BY <1>7, <2>2 DEF OnlineLast
    <3> QED BY <1>7, <2>1, <3>1 DEF OnlineLast, jobVars
  <2>3. CASE starter[t] # "reload"
    <3>1. pc' = pc /\ closed' = closed
      BY <1>7, <2>3 DEF OnlineLast
    <3> QED BY <1>7, <2>1, <3>1 DEF OnlineLast, jobVars
  <2> QED BY <2>2, <2>3
<1>8. ASSUME NEW t \in Threads, StartingWorkerDies(t) PROVE PoolTypeOK'
  BY <1>8 DEF StartingWorkerDies, jobVars, adminVars
<1>9. ASSUME NEW t \in Threads, CompleteJob(t) PROVE PoolTypeOK'
  <2>1. status' \in [Jobs -> {"new", "pending"} \cup Ended]
    BY <1>9 DEF CompleteJob
  <2>2. pc' \in [Admins -> Phases] /\ \A p \in Admins : pc'[p] = "awaiting" => target'[p] \in Threads
    BY <1>9 DEF CompleteJob, WakeDrains
  <2>3. CASE waitingJobs # <<>>
    <3>1. Head(waitingJobs) \in Jobs /\ Tail(waitingJobs) \in Seq(Jobs)
      BY <2>3, ShiftFacts
    <3>2. /\ running' = [running EXCEPT ![t] = Head(waitingJobs)]
          /\ waitingJobs' = Tail(waitingJobs) /\ freeThreads' = freeThreads
      BY <1>9, <2>3 DEF CompleteJob, reallocate, RunNextOn
    <3> QED BY <1>9, <2>1, <2>2, <3>1, <3>2 DEF CompleteJob
  <2>4. CASE waitingJobs = <<>>
    <3>1. Append(freeThreads, t) \in Seq(Threads)
      BY PushFacts
    <3>2. /\ running' = [running EXCEPT ![t] = None]
          /\ waitingJobs' = waitingJobs /\ freeThreads' = Append(freeThreads, t)
      BY <1>9, <2>4 DEF CompleteJob, reallocate, checkin
    <3> QED BY <1>9, <2>1, <2>2, <3>1, <3>2 DEF CompleteJob
  <2> QED BY <2>3, <2>4
<1>10. ASSUME NEW t \in Threads, BusyWorkerExits(t) PROVE PoolTypeOK'
  <2>1. threads' \in Seq(Threads)
    BY <1>10, SpliceOutType DEF BusyWorkerExits
  <2> QED BY <1>10, <2>1 DEF BusyWorkerExits, adminVars
<1>11. ASSUME NEW t \in Threads, IdleWorkerExits(t) PROVE PoolTypeOK'
  BY <1>11 DEF IdleWorkerExits, jobVars, adminVars
<1>12. ASSUME NEW p \in Admins, Begin(p) PROVE PoolTypeOK'
  BY <1>12 DEF Begin, jobVars, workerVars
<1>13. ASSUME NEW p \in Admins, BeginAbort(p) PROVE PoolTypeOK'
  BY <1>13 DEF BeginAbort, jobVars, workerVars
<1>14. ASSUME NEW p \in Admins, StopNext(p) PROVE PoolTypeOK'
  <2>1. threads[cursor[p]] \in Threads
    BY <1>14, LenProperties, ElementOfSeq DEF StopNext, poolSize
  <2> QED BY <1>14, <2>1 DEF StopNext, jobVars, workerVars
<1>15. ASSUME NEW p \in Admins, StopDone(p) PROVE PoolTypeOK'
  <2>1. threads' \in Seq(Threads) /\ freeThreads' \in Seq(Threads)
    BY <1>15, SpliceOutType DEF StopDone
  <2> QED BY <1>15, <2>1 DEF StopDone, jobVars, workerVars
<1>16. ASSUME NEW p \in Admins, StopFails(p) PROVE PoolTypeOK'
  BY <1>16 DEF StopFails, jobVars, workerVars
<1>17. ASSUME NEW t \in Threads, ReloadStarts(t) PROVE PoolTypeOK'
  BY <1>17 DEF ReloadStarts, AllStopped, newThread, laterThreads, jobVars, Admins
<1>18. ASSUME NEW t \in Threads, AbortRestarts(t) PROVE PoolTypeOK'
  <2>1. Head(waitingJobs) \in Jobs /\ Tail(waitingJobs) \in Seq(Jobs)
    <3>1. waitingJobs # <<>>
      BY <1>18 DEF AbortRestarts
    <3> QED BY <3>1, ShiftFacts
  <2>2. starter' \in [Threads -> Jobs \cup Loops \cup {None}] /\ worker' \in [Threads -> {"gone", "starting", "online"}]
    BY <1>18, <2>1 DEF AbortRestarts, newThread
  <2>3. /\ pc' \in [Admins -> Phases] /\ cursor' \in [Admins -> Nat \ {0}]
        /\ \A p \in Admins : pc'[p] = "awaiting" => target'[p] \in Threads
    <3>1. /\ pc' = [pc EXCEPT !["monitor"] = "idle"]
          /\ cursor' = [cursor EXCEPT !["monitor"] = 1]
          /\ target' = target
      BY <1>18 DEF AbortRestarts, Reopen, AllStopped
    <3>2. pc \in [Admins -> Phases] /\ cursor \in [Admins -> Nat \ {0}]
      OBVIOUS
    <3>3. \A p \in Admins : pc[p] = "awaiting" => target[p] \in Threads
      OBVIOUS
    <3> HIDE DEF PoolTypeOK
    <3>4. pc' \in [Admins -> Phases]
      BY <3>1, <3>2
    <3>5. cursor' \in [Admins -> Nat \ {0}]
      <4>1. \A p \in Admins : cursor'[p] \in Nat \ {0}
        BY <3>1, <3>2
      <4> QED BY <3>1, <3>2, <4>1
    <3> QED BY <3>1, <3>2, <3>3, <3>4, <3>5
  <2> QED BY <1>18, <2>1, <2>2, <2>3 DEF AbortRestarts, Reopen
<1>19. CASE DestroyEnds
  BY <1>19 DEF DestroyEnds, AllStopped, jobVars, workerVars, Admins
<1>20. CASE MonitorArms
  BY <1>20 DEF MonitorArms, jobVars, workerVars, Admins, Aborts
<1>21. ASSUME NEW p \in Admins, AbortReopens(p) PROVE PoolTypeOK'
  <2>1. /\ pc' \in [Admins -> Phases] /\ cursor' \in [Admins -> Nat \ {0}]
        /\ \A q \in Admins : pc'[q] = "awaiting" => target'[q] \in Threads
    BY <1>21 DEF AbortReopens, Reopen, AllStopped
  <2> QED BY <1>21, <2>1 DEF AbortReopens, Reopen, jobVars, workerVars
<1>22. CASE UNCHANGED vars
  BY <1>22 DEF vars, jobVars, workerVars, adminVars
<1> QED
  BY <1>1, <1>2, <1>3, <1>4, <1>5, <1>6, <1>7, <1>8, <1>9, <1>10, <1>11, <1>12,
     <1>13, <1>14, <1>15, <1>16, <1>17, <1>18, <1>19, <1>20, <1>21, <1>22 DEF Next

LEMMA TypeInit == Init => PoolTypeOK
<1> SUFFICES ASSUME Init PROVE PoolTypeOK
  OBVIOUS
<1> USE PoolAssumption DEF Init
<1>1. threads \in Seq(Threads) /\ freeThreads \in Seq(Threads) /\ waitingJobs \in Seq(Jobs)
  BY EmptySeq
<1>2. /\ worker \in [Threads -> {"gone", "starting", "online"}]
      /\ starter \in [Threads -> Jobs \cup Loops \cup {None}]
      /\ toStart \in [Loops -> 0..(MinThreads - 1)]
  BY DEF Loops, laterThreads
<1>3. /\ pc \in [Admins -> Phases] /\ cursor \in [Admins -> Nat \ {0}]
      /\ target \in [Admins -> Threads \cup {None}]
      /\ \A p \in Admins : pc[p] # "awaiting"
  BY DEF Phases
<1> QED BY <1>1, <1>2, <1>3 DEF PoolTypeOK

(* The pool's lists and tables stay in their ranges in every behaviour.    *)
THEOREM TypeCorrect == Spec => []PoolTypeOK
<1>1. Init => PoolTypeOK
  BY TypeInit
<1>2. PoolTypeOK /\ [Next]_vars => PoolTypeOK'
  BY TypeStep
<1> QED BY <1>1, <1>2, PTL DEF Spec

-----------------------------------------------------------------------------
(* Thread exclusion                                                        *)

(* Steps that leave lists and listeners alone: at most a worker starts     *)
(* under an id nobody uses.                                                *)
LEMMA ExclusiveFrame ==
    ASSUME ThreadExclusive,
           UNCHANGED <<threads, freeThreads, running>>,
           \A t \in Threads : worker'[t] = "starting" => worker[t] = "starting" \/ Unused(t)
    PROVE  ThreadExclusive'
BY DEF ThreadExclusive, Unused

LEMMA ExclusiveStep == PoolTypeOK /\ ThreadExclusive /\ [Next]_vars => ThreadExclusive'
<1> SUFFICES ASSUME PoolTypeOK, ThreadExclusive, [Next]_vars PROVE ThreadExclusive'
  OBVIOUS
<1>0. /\ threads \in Seq(Threads) /\ freeThreads \in Seq(Threads)
      /\ worker \in [Threads -> {"gone", "starting", "online"}]
      /\ running \in [Threads -> Jobs \cup {None}]
      /\ ToSet(freeThreads) \subseteq Threads
  BY LenProperties, ElementOfSeq DEF PoolTypeOK, ToSet
<1>1. ASSUME NEW j \in Jobs, RunJobRefused(j) \/ RunJobQueued(j) PROVE ThreadExclusive'
  BY <1>1, ExclusiveFrame DEF RunJobRefused, RunJobQueued, workerVars
<1>2. ASSUME NEW j \in Jobs, RunJobOnFree(j) PROVE ThreadExclusive'
  <2> DEFINE h == Head(freeThreads)
  <2>1. /\ threads' = threads /\ worker' = worker /\ freeThreads' = Tail(freeThreads)
        /\ running' = running \/ running' = [running EXCEPT ![h] = j]
    BY <1>2 DEF RunJobOnFree
  <2>2. /\ h \in Threads
        /\ ToSet(freeThreads) = {h} \cup ToSet(freeThreads')
        /\ IsInjective(freeThreads') /\ h \notin ToSet(freeThreads')
    BY <1>0, <1>2, <2>1, ShiftFacts DEF RunJobOnFree, ThreadExclusive
  <2> HIDE DEF h
  <2>3. \A t \in Threads : t # h => running'[t] = running[t]
    BY <1>0, <2>1
  <2> QED BY <1>0, <2>1, <2>2, <2>3 DEF ThreadExclusive
<1>3. ASSUME NEW j \in Jobs, NEW t \in Threads, RunJobAllocates(j, t) PROVE ThreadExclusive'
  BY <1>0, <1>3, ExclusiveFrame DEF RunJobAllocates, newThread
<1>4. ASSUME NEW t \in Threads, OnlineForJob(t) PROVE ThreadExclusive'
  <2> DEFINE f == Append(freeThreads, t)
             h == Head(f)
  <2>1. /\ threads' = Append(threads, t) /\ freeThreads' = Tail(f)
        /\ running' = [running EXCEPT ![h] = starter[t]]
        /\ worker' = [worker EXCEPT ![t] = "online"] /\ worker[t] = "starting"
    BY <1>4 DEF OnlineForJob, BringOnline, allocate
  <2>2. /\ t \notin ToSet(threads) /\ t \notin ToSet(freeThreads) /\ running[t] = None
        /\ IsInjective(threads) /\ IsInjective(freeThreads)
    BY <2>1 DEF ThreadExclusive
  <2>3. IsInjective(threads') /\ ToSet(threads') = ToSet(threads) \cup {t}
    BY <1>0, <2>1, <2>2, PushFacts
  <2>4. f \in Seq(Threads) /\ f # <<>> /\ IsInjective(f) /\ ToSet(f) = ToSet(freeThreads) \cup {t}
    BY <1>0, <2>2, PushFacts
  <2> HIDE DEF f
  <2>5. /\ h \in Threads
        /\ ToSet(f) = {h} \cup ToSet(freeThreads')
        /\ IsInjective(freeThreads') /\ h \notin ToSet(freeThreads')
    BY <2>1, <2>4, ShiftFacts
  <2> HIDE DEF h
  <2>6. \A u \in ToSet(freeThreads') : running'[u] = None
    <3> SUFFICES ASSUME NEW u \in ToSet(freeThreads') PROVE running'[u] = None
      OBVIOUS
    <3>1. u # h /\ u \in Threads /\ (u = t \/ u \in ToSet(freeThreads))
      BY <1>0, <2>4, <2>5
    <3>2. running'[u] = running[u]
      BY <1>0, <2>1, <3>1
    <3> QED BY <2>2, <3>1, <3>2 DEF ThreadExclusive
  <2>7. ASSUME NEW u \in Threads, worker'[u] = "starting"
        PROVE  running'[u] = None /\ u \notin ToSet(threads') \cup ToSet(freeThreads')
    <3>1. u # t /\ worker[u] = "starting"
      BY <1>0, <2>1, <2>7
    <3>2. running[u] = None /\ u \notin ToSet(threads) \cup ToSet(freeThreads)
      BY <3>1 DEF ThreadExclusive
    <3>3. u # h
      BY <2>4, <2>5, <3>1, <3>2
    <3> QED BY <1>0, <2>1, <2>3, <2>4, <2>5, <3>1, <3>2, <3>3
  <2> QED BY <2>3, <2>5, <2>6, <2>7 DEF ThreadExclusive
<1>5. ASSUME NEW t \in Threads,
             OnlineLast(t) \/ \E u \in Threads : OnlineThenNext(t, u)
      PROVE  ThreadExclusive'
  <2>1. /\ threads' = Append(threads, t) /\ freeThreads' = Append(freeThreads, t)
        /\ running' = running /\ worker[t] = "starting"
    BY <1>5 DEF OnlineLast, OnlineThenNext, BringOnline
  <2>2. \A v \in Threads : worker'[v] = "starting" => v # t /\ (worker[v] = "starting" \/ Unused(v))
    BY <1>0, <1>5 DEF OnlineLast, OnlineThenNext
  <2>3. /\ t \notin ToSet(threads) /\ t \notin ToSet(freeThreads) /\ running[t] = None
        /\ IsInjective(threads) /\ IsInjective(freeThreads)
    BY <2>1 DEF ThreadExclusive
  <2>4. /\ IsInjective(threads') /\ ToSet(threads') = ToSet(threads) \cup {t}
        /\ IsInjective(freeThreads') /\ ToSet(freeThreads') = ToSet(freeThreads) \cup {t}
    BY <1>0, <2>1, <2>3, PushFacts
  <2> QED BY <2>1, <2>2, <2>3, <2>4 DEF ThreadExclusive, Unused
<1>6. ASSUME NEW t \in Threads, StartingWorkerDies(t) \/ IdleWorkerExits(t) PROVE ThreadExclusive'
  BY <1>0, <1>6, ExclusiveFrame DEF StartingWorkerDies, IdleWorkerExits
<1>7. ASSUME NEW t \in Threads, CompleteJob(t) PROVE ThreadExclusive'
  <2>1. /\ threads' = threads /\ worker' = worker /\ worker[t] = "online"
        /\ running[t] \in Jobs
        /\ \/ freeThreads' = freeThreads /\ \E j : running' = [running EXCEPT ![t] = j]
           \/ freeThreads' = Append(freeThreads, t) /\ running' = [running EXCEPT ![t] = None]
    BY <1>7 DEF CompleteJob, reallocate, RunNextOn, checkin
  <2>2. t \notin ToSet(freeThreads)
    BY <2>1, PoolAssumption DEF ThreadExclusive
  <2>3. \A u \in Threads : u # t => running'[u] = running[u]
    BY <1>0, <2>1
  <2>4. CASE freeThreads' = freeThreads
    BY <1>0, <2>1, <2>2, <2>3, <2>4 DEF ThreadExclusive
  <2>5. CASE freeThreads' = Append(freeThreads, t) /\ running' = [running EXCEPT ![t] = None]
    <3>1. IsInjective(freeThreads') /\ ToSet(freeThreads') = ToSet(freeThreads) \cup {t}
      BY <1>0, <2>2, <2>5, PushFacts DEF ThreadExclusive
    <3>2. running'[t] = None
      BY <1>0, <2>5
    <3> QED BY <1>0, <2>1, <2>3, <3>1, <3>2 DEF ThreadExclusive
  <2> QED BY <2>1, <2>4, <2>5
<1>8. ASSUME NEW t \in Threads, BusyWorkerExits(t) PROVE ThreadExclusive'
  <2>1. /\ threads' = SpliceOut(threads, t) /\ freeThreads' = freeThreads
        /\ worker' = [worker EXCEPT ![t] = "gone"] /\ running' = [running EXCEPT ![t] = None]
    BY <1>8 DEF BusyWorkerExits
  <2>2. IsInjective(threads') /\ ToSet(threads') \subseteq ToSet(threads)
    BY <1>0, <2>1, SpliceOutFacts DEF ThreadExclusive
  <2> QED BY <1>0, <2>1, <2>2 DEF ThreadExclusive
<1>9. ASSUME NEW p \in Admins, StopDone(p) PROVE ThreadExclusive'
  <2>1. /\ threads' = SpliceOut(threads, target[p]) /\ freeThreads' = SpliceOut(freeThreads, target[p])
        /\ running' = running /\ worker' = worker
    BY <1>9 DEF StopDone, workerVars
  <2>2. /\ IsInjective(threads') /\ ToSet(threads') \subseteq ToSet(threads)
        /\ IsInjective(freeThreads') /\ ToSet(freeThreads') \subseteq ToSet(freeThreads)
    BY <1>0, <2>1, SpliceOutFacts DEF ThreadExclusive
  <2> QED BY <2>1, <2>2 DEF ThreadExclusive
<1>10. ASSUME NEW p \in Admins,
              Begin(p) \/ BeginAbort(p) \/ StopNext(p) \/ StopFails(p) \/ AbortReopens(p)
       PROVE  ThreadExclusive'
  BY <1>10, ExclusiveFrame DEF Begin, BeginAbort, StopNext, StopFails, AbortReopens, workerVars
<1>11. ASSUME NEW t \in Threads, ReloadStarts(t) \/ AbortRestarts(t) PROVE ThreadExclusive'
  BY <1>0, <1>11, ExclusiveFrame DEF ReloadStarts, AbortRestarts, newThread
<1>12. CASE DestroyEnds \/ MonitorArms \/ UNCHANGED vars
  BY <1>12, ExclusiveFrame DEF DestroyEnds, MonitorArms, vars, workerVars
<1> QED
  BY <1>1, <1>2, <1>3, <1>4, <1>5, <1>6, <1>7, <1>8, <1>9, <1>10, <1>11, <1>12 DEF Next

(* No reload, abort, crash or interleaving of them lets the pool offer a   *)
(* thread that has a job, or offer one twice.                              *)
THEOREM ThreadsExclusive == Spec => []ThreadExclusive
<1>1. Init => ThreadExclusive
  BY DEF Init, ThreadExclusive, IsInjective, ToSet
<1>2. PoolTypeOK /\ ThreadExclusive /\ [Next]_vars => ThreadExclusive'
  BY ExclusiveStep
<1> QED BY <1>1, <1>2, TypeCorrect, PTL DEF Spec

-----------------------------------------------------------------------------
(* One place for a job                                                     *)

(* JobInOnePlace thread by thread and job by job, as the steps disturb it. *)
QueueApart ==
    /\ IsInjective(waitingJobs)
    /\ \A j \in Queued : status[j] = "pending"
RunningApart ==
    \A t \in Threads : running[t] \in Jobs =>
        /\ running[t] \notin Queued
        /\ status[running[t]] = "pending"
        /\ \A u \in Threads : running[u] = running[t] => u = t
        /\ \A u \in Threads : starter[u] # running[t]
AwaitedApart ==
    \A t \in Threads : starter[t] \in Jobs =>
        /\ starter[t] \notin Queued
        /\ status[starter[t]] = "pending"
        /\ \A u \in Threads : starter[u] = starter[t] => u = t
JobsApart == QueueApart /\ RunningApart /\ AwaitedApart

LEMMA ApartInOnePlace == PoolTypeOK /\ JobsApart => JobInOnePlace
<1> SUFFICES ASSUME PoolTypeOK, JobsApart PROVE JobInOnePlace
  OBVIOUS
<1>1. Queued \subseteq Jobs
  BY LenProperties, ElementOfSeq DEF PoolTypeOK, Queued, ToSet
<1> QED BY <1>1 DEF JobsApart, QueueApart, RunningApart, AwaitedApart, JobInOnePlace, Running, Awaited

LEMMA ApartStep == PoolTypeOK /\ ThreadExclusive /\ JobsApart /\ [Next]_vars => JobsApart'
<1> SUFFICES ASSUME PoolTypeOK, ThreadExclusive, JobsApart, [Next]_vars PROVE JobsApart'
  OBVIOUS
<1> USE DEF JobsApart, QueueApart, RunningApart, AwaitedApart
<1>0. /\ waitingJobs \in Seq(Jobs) /\ freeThreads \in Seq(Threads)
      /\ status \in [Jobs -> {"new", "pending"} \cup Ended]
      /\ running \in [Threads -> Jobs \cup {None}]
      /\ starter \in [Threads -> Jobs \cup Loops \cup {None}]
      /\ Queued \subseteq Jobs
      /\ None \notin Jobs /\ \A l \in Loops : l \notin Jobs
  BY LenProperties, ElementOfSeq, PoolAssumption DEF PoolTypeOK, Queued, ToSet
<1>1. ASSUME NEW j \in Jobs, RunJobRefused(j) PROVE JobsApart'
  <2>1. /\ status[j] = "new" /\ \A k \in Jobs \ {j} : status'[k] = status[k]
        /\ UNCHANGED <<waitingJobs, running, starter>>
    BY <1>0, <1>1 DEF RunJobRefused, workerVars
  <2> QED BY <1>0, <2>1 DEF Queued
<1>2. ASSUME NEW j \in Jobs, RunJobOnFree(j) PROVE JobsApart'
  <2> DEFINE h == Head(freeThreads)
  <2>1. /\ status[j] = "new" /\ status' = [status EXCEPT ![j] = "pending"]
        /\ UNCHANGED <<waitingJobs, starter>>
        /\ running' = running \/ running' = [running EXCEPT ![h] = j]
    BY <1>2 DEF RunJobOnFree, Admit
  <2>2. h \in Threads
    BY <1>0, <1>2, ShiftFacts DEF RunJobOnFree
  <2> HIDE DEF h
  <2>3. \A t \in Threads : running'[t] = running[t] \/ (t = h /\ running'[t] = j)
    BY <1>0, <2>1
  <2>4. \A k \in Jobs : status[k] = "pending" => k # j /\ status'[k] = "pending"
    BY <1>0, <2>1
  <2>5. status'[j] = "pending"
    BY <1>0, <2>1
  <2> QED BY <1>0, <2>1, <2>2, <2>3, <2>4, <2>5 DEF Queued
<1>3. ASSUME NEW j \in Jobs, RunJobQueued(j) PROVE JobsApart'
  <2>1. /\ status[j] = "new" /\ status' = [status EXCEPT ![j] = "pending"]
        /\ UNCHANGED <<running, starter>>
        /\ waitingJobs' = Append(waitingJobs, j)
    BY <1>3 DEF RunJobQueued, Admit, enqueue, workerVars
  <2>2. j \notin Queued
    BY <2>1
  <2>3. IsInjective(waitingJobs') /\ Queued' = Queued \cup {j}
    BY <1>0, <2>1, <2>2, PushFacts DEF Queued
  <2>4. \A k \in Jobs : status[k] = "pending" => k # j /\ status'[k] = "pending"
    BY <1>0, <2>1
  <2>5. status'[j] = "pending"
    BY <1>0, <2>1
  <2> QED BY <1>0, <2>1, <2>3, <2>4, <2>5
<1>4. ASSUME NEW j \in Jobs, NEW t \in Threads, RunJobAllocates(j, t) PROVE JobsApart'
  <2>1. /\ status[j] = "new" /\ status' = [status EXCEPT ![j] = "pending"]
        /\ UNCHANGED <<waitingJobs, running>>
        /\ starter' = [starter EXCEPT ![t] = j]
    BY <1>4 DEF RunJobAllocates, Admit, newThread
  <2>2. \A u \in Threads : starter'[u] = IF u = t THEN j ELSE starter[u]
    BY <1>0, <2>1
  <2>3. \A k \in Jobs : status[k] = "pending" => k # j /\ status'[k] = "pending"
    BY <1>0, <2>1
  <2>4. status'[j] = "pending"
    BY <1>0, <2>1
  <2> QED BY <1>0, <2>1, <2>2, <2>3, <2>4 DEF Queued
<1>5. ASSUME NEW t \in Threads, OnlineForJob(t) PROVE JobsApart'
  <2> DEFINE h == Head(Append(freeThreads, t))
             j == starter[t]
  <2>1. /\ UNCHANGED <<status, waitingJobs>>
        /\ running' = [running EXCEPT ![h] = j]
        /\ starter' = [starter EXCEPT ![t] = None]
        /\ j \in Jobs
    BY <1>5 DEF OnlineForJob, allocate, jobVars
  <2>2. \A u \in Threads : running'[u] = running[u] \/ (u = h /\ running'[u] = j)
    BY <1>0, <2>1
  <2>3. \A u \in Threads : starter'[u] = IF u = t THEN None ELSE starter[u]
    BY <1>0, <2>1
  <2>4. j \notin Queued /\ status[j] = "pending" /\ \A u \in Threads : running[u] # j /\ (starter[u] = j => u = t)
    BY <2>1
  <2> HIDE DEF h, j
  <2> QED BY <1>0, <2>1, <2>2, <2>3, <2>4 DEF Queued
<1>6. ASSUME NEW t \in Threads,
             OnlineLast(t) \/ StartingWorkerDies(t) \/ \E u \in Threads : OnlineThenNext(t, u)
      PROVE  JobsApart'
  <2>1. UNCHANGED <<status, waitingJobs, running>>
    BY <1>6 DEF OnlineLast, StartingWorkerDies, OnlineThenNext, jobVars
  <2>2. \A v \in Threads : starter'[v] \in Jobs => starter'[v] = starter[v]
    BY <1>0, <1>6 DEF OnlineLast, StartingWorkerDies, OnlineThenNext
  <2> QED BY <1>0, <2>1, <2>2 DEF Queued
<1>7. ASSUME NEW t \in Threads, CompleteJob(t) PROVE JobsApart'
  <2> DEFINE j == running[t]
  <2>1. j \in Jobs /\ UNCHANGED starter /\ reallocate(t)
    BY <1>7 DEF CompleteJob
  <2>2. \A k \in Jobs \ {j} : status'[k] = status[k]
    BY <1>0, <1>7 DEF CompleteJob
  <2>3. CASE waitingJobs # <<>>
    <3> DEFINE h == Head(waitingJobs)
    <3>1. waitingJobs' = Tail(waitingJobs) /\ running' = [running EXCEPT ![t] = h]
      BY <2>1, <2>3 DEF reallocate, RunNextOn
    <3>2. /\ h \in Jobs /\ Queued = {h} \cup Queued'
          /\ IsInjective(waitingJobs') /\ h \notin Queued'
      BY <1>0, <2>3, <3>1, ShiftFacts DEF Queued
    <3> HIDE DEF h
    <3>3. \A u \in Threads : running'[u] = IF u = t THEN h ELSE running[u]
      BY <1>0, <3>1
    <3>4. h # j /\ j \notin Queued /\ \A u \in Threads : running[u] # h /\ starter[u] # h /\ starter[u] # j
      BY <2>1, <3>2
    <3>5. \A u \in Threads : running[u] = j => u = t
      BY <2>1
    <3> HIDE DEF j
    <3> QED BY <1>0, <2>1, <2>2, <3>2, <3>3, <3>4, <3>5
  <2>4. CASE waitingJobs = <<>>
    <3>1. waitingJobs' = waitingJobs /\ running' = [running EXCEPT ![t] = None]
      BY <2>1, <2>4 DEF reallocate, checkin
    <3>2. \A u \in Threads : running'[u] = IF u = t THEN None ELSE running[u]
      BY <1>0, <3>1
    <3>3. j \notin Queued /\ \A u \in Threads : starter[u] # j /\ (running[u] = j => u = t)
      BY <2>1
    <3> HIDE DEF j
    <3> QED BY <1>0, <2>1, <2>2, <3>1, <3>2, <3>3 DEF Queued
  <2> QED BY <2>3, <2>4
<1>8. ASSUME NEW t \in Threads, BusyWorkerExits(t) PROVE JobsApart'
  <2> DEFINE j == running[t]
  <2>1. /\ j \in Jobs /\ UNCHANGED <<starter, waitingJobs>>
        /\ running' = [running EXCEPT ![t] = None]
        /\ status' = [status EXCEPT ![j] = "rejected"]
    BY <1>8 DEF BusyWorkerExits
  <2>2. \A u \in Threads : running'[u] = IF u = t THEN None ELSE running[u]
    BY <1>0, <2>1
  <2>3. \A k \in Jobs \ {j} : status'[k] = status[k]
    BY <1>0, <2>1
  <2>4. j \notin Queued /\ \A u \in Threads : starter[u] # j /\ (running[u] = j => u = t)
    BY <2>1
  <2> HIDE DEF j
  <2> QED BY <1>0, <2>1, <2>2, <2>3, <2>4 DEF Queued
<1>9. ASSUME NEW t \in Threads, AbortRestarts(t) PROVE JobsApart'
  <2> DEFINE h == Head(waitingJobs)
  <2>1. /\ waitingJobs' = Tail(waitingJobs) /\ starter' = [starter EXCEPT ![t] = h]
        /\ UNCHANGED <<status, running>> /\ waitingJobs # <<>>
    BY <1>9 DEF AbortRestarts, newThread
  <2>2. /\ h \in Jobs /\ Queued = {h} \cup Queued'
        /\ IsInjective(waitingJobs') /\ h \notin Queued'
    BY <1>0, <2>1, ShiftFacts DEF Queued
  <2> HIDE DEF h
  <2>3. \A u \in Threads : starter'[u] = IF u = t THEN h ELSE starter[u]
    BY <1>0, <2>1
  <2>4. status[h] = "pending" /\ \A u \in Threads : running[u] # h /\ starter[u] # h
    BY <2>2
  <2> QED BY <1>0, <2>1, <2>2, <2>3, <2>4
<1>10. ASSUME NEW t \in Threads, ReloadStarts(t) PROVE JobsApart'
  <2>1. UNCHANGED <<status, waitingJobs, running>> /\ starter' = [starter EXCEPT ![t] = "reload"]
    BY <1>10 DEF ReloadStarts, newThread, jobVars
  <2>2. \A u \in Threads : starter'[u] \in Jobs => starter'[u] = starter[u]
    BY <1>0, <2>1 DEF Loops
  <2> QED BY <1>0, <2>1, <2>2 DEF Queued
<1>11. ASSUME UNCHANGED <<status, waitingJobs, running, starter>> PROVE JobsApart'
  BY <1>11 DEF Queued
<1>12. ASSUME NEW t \in Threads, IdleWorkerExits(t) PROVE JobsApart'
  BY <1>11, <1>12 DEF IdleWorkerExits, jobVars
<1>13. ASSUME NEW p \in Admins,
              \/ Begin(p) \/ BeginAbort(p) \/ StopNext(p) \/ StopDone(p) \/ StopFails(p)
              \/ AbortReopens(p)
       PROVE  JobsApart'
  BY <1>11, <1>13 DEF Begin, BeginAbort, StopNext, StopDone, StopFails, AbortReopens,
                      jobVars, workerVars
<1>14. CASE DestroyEnds \/ MonitorArms \/ UNCHANGED vars
  BY <1>11, <1>14 DEF DestroyEnds, MonitorArms, vars, jobVars, workerVars
<1> QED
  BY <1>1, <1>2, <1>3, <1>4, <1>5, <1>6, <1>7, <1>8, <1>9, <1>10, <1>12, <1>13, <1>14 DEF Next

LEMMA ApartInitially == Init => JobsApart
<1> SUFFICES ASSUME Init PROVE JobsApart
  OBVIOUS
<1>1. Queued = {} /\ IsInjective(waitingJobs)
  BY DEF Init, Queued, ToSet, IsInjective
<1>2. \A t \in Threads : running[t] \notin Jobs /\ starter[t] \notin Jobs
  BY PoolAssumption DEF Init, Loops
<1> QED BY <1>1, <1>2 DEF JobsApart, QueueApart, RunningApart, AwaitedApart

(* No job is queued twice, dispatched twice, or queued and dispatched, and *)
(* none is anywhere after its promise was settled.                         *)
THEOREM JobsInOnePlace == Spec => []JobInOnePlace
<1>1. Init => JobsApart
  BY ApartInitially
<1>2. PoolTypeOK /\ ThreadExclusive /\ JobsApart /\ [Next]_vars => JobsApart'
  BY ApartStep
<1>3. PoolTypeOK /\ JobsApart => JobInOnePlace
  BY ApartInOnePlace
<1> QED BY <1>1, <1>2, <1>3, TypeCorrect, ThreadsExclusive, PTL DEF Spec

-----------------------------------------------------------------------------
(* A job stays on its thread                                               *)

(* Which thread's job a step may change: one that has none, or one whose   *)
(* job it settles.                                                         *)
Settles ==
    \E t \in Threads, k \in Jobs \cup {None} :
        /\ running' = [running EXCEPT ![t] = k]
        /\ running[t] \in Jobs => status'[running[t]] \in Ended

LEMMA RunningStep ==
    ASSUME PoolTypeOK, ThreadExclusive, Next
    PROVE  running' = running \/ Settles
<1>0. /\ waitingJobs \in Seq(Jobs) /\ freeThreads \in Seq(Threads)
      /\ status \in [Jobs -> {"new", "pending"} \cup Ended]
      /\ running \in [Threads -> Jobs \cup {None}]
      /\ None \notin Jobs
  BY PoolAssumption DEF PoolTypeOK
<1>1. ASSUME NEW j \in Jobs, RunJobOnFree(j), running' # running
      PROVE  \E t \in Threads : running[t] = None /\ running' = [running EXCEPT ![t] = j]
  <2>1. /\ freeThreads # <<>>
        /\ running' = [running EXCEPT ![Head(freeThreads)] = j]
    BY <1>1 DEF RunJobOnFree
  <2>2. Head(freeThreads) \in Threads /\ Head(freeThreads) \in ToSet(freeThreads)
    BY <1>0, <2>1, ShiftFacts
  <2> QED BY <2>1, <2>2 DEF ThreadExclusive
<1>2. ASSUME NEW t \in Threads, OnlineForJob(t)
      PROVE  \E u \in Threads, k \in Jobs : running[u] = None /\ running' = [running EXCEPT ![u] = k]
  <2> DEFINE f == Append(freeThreads, t)
  <2>1. running' = [running EXCEPT ![Head(f)] = starter[t]] /\ starter[t] \in Jobs /\ worker[t] = "starting"
    BY <1>2 DEF OnlineForJob, BringOnline, allocate
  <2>2. f \in Seq(Threads) /\ f # <<>> /\ ToSet(f) = ToSet(freeThreads) \cup {t}
    BY <1>0, PushFacts
  <2> HIDE DEF f
  <2>3. Head(f) \in Threads /\ Head(f) \in ToSet(f)
    BY <2>2, ShiftFacts
  <2>4. running[Head(f)] = None
    BY <2>1, <2>2, <2>3 DEF ThreadExclusive
  <2> QED BY <2>1, <2>3, <2>4
<1>3. ASSUME NEW t \in Threads, CompleteJob(t)
      PROVE  \E k \in Jobs \cup {None} : /\ running' = [running EXCEPT ![t] = k]
                                         /\ status'[running[t]] \in Ended
  <2>1. running[t] \in Jobs /\ status'[running[t]] \in Ended /\ reallocate(t)
    BY <1>0, <1>3 DEF CompleteJob
  <2>2. CASE waitingJobs # <<>>
    <3>1. Head(waitingJobs) \in Jobs
      BY <1>0, <2>2, ShiftFacts
    <3> QED BY <2>1, <2>2, <3>1 DEF reallocate, RunNextOn
  <2>3. CASE waitingJobs = <<>>
    BY <2>1, <2>3 DEF reallocate, checkin
  <2> QED BY <2>2, <2>3
<1>4. ASSUME NEW t \in Threads, BusyWorkerExits(t)
      PROVE  running' = [running EXCEPT ![t] = None] /\ status'[running[t]] \in Ended
  BY <1>0, <1>4 DEF BusyWorkerExits, Ended
<1>5. ASSUME NEW j \in Jobs,
             RunJobRefused(j) \/ RunJobQueued(j) \/ \E t \in Threads : RunJobAllocates(j, t)
      PROVE  running' = running
  BY <1>5 DEF RunJobRefused, RunJobQueued, RunJobAllocates, workerVars
<1>6. ASSUME NEW t \in Threads,
             \/ OnlineLast(t) \/ StartingWorkerDies(t)
             \/ \E u \in Threads : OnlineThenNext(t, u)
             \/ IdleWorkerExits(t) \/ ReloadStarts(t) \/ AbortRestarts(t)
      PROVE  running' = running
  BY <1>6 DEF OnlineLast, StartingWorkerDies, OnlineThenNext, IdleWorkerExits, ReloadStarts,
              AbortRestarts
<1>7. ASSUME NEW p \in Admins,
             \/ Begin(p) \/ BeginAbort(p) \/ StopNext(p) \/ StopDone(p) \/ StopFails(p)
             \/ AbortReopens(p)
      PROVE  running' = running
  BY <1>7 DEF Begin, BeginAbort, StopNext, StopDone, StopFails, AbortReopens, workerVars
<1>8. ASSUME DestroyEnds \/ MonitorArms PROVE running' = running
  BY <1>8 DEF DestroyEnds, MonitorArms, workerVars
<1>9. CASE \E j \in Jobs : RunJobOnFree(j)
  BY <1>0, <1>1, <1>9 DEF Settles
<1>10. CASE \E t \in Threads : OnlineForJob(t)
  BY <1>0, <1>2, <1>10 DEF Settles
<1>11. CASE \E t \in Threads : CompleteJob(t)
  BY <1>3, <1>11 DEF Settles
<1>12. CASE \E t \in Threads : BusyWorkerExits(t)
  BY <1>4, <1>12 DEF Settles
<1> QED
  BY <1>5, <1>6, <1>7, <1>8, <1>9, <1>10, <1>11, <1>12 DEF Next

(* Whatever is reallocated, stopped or aborted meanwhile, a job keeps its  *)
(* thread until its promise is settled.                                    *)
THEOREM JobsStayPut == Spec => StaysPut
<1> DEFINE Stays == \A t \in Threads : running[t] \in Jobs =>
                       running'[t] = running[t] \/ status'[running[t]] \in Ended
<1>1. PoolTypeOK /\ ThreadExclusive /\ [Next]_vars => [Stays]_vars
  <2> SUFFICES ASSUME PoolTypeOK, ThreadExclusive, Next PROVE Stays
    OBVIOUS
  <2>1. running \in [Threads -> Jobs \cup {None}]
    BY DEF PoolTypeOK
  <2> QED BY <2>1, RunningStep DEF Settles
<1> QED BY <1>1, TypeCorrect, ThreadsExclusive, PTL DEF Spec, StaysPut

-----------------------------------------------------------------------------
(* A pool that nobody stops                                                *)

(* With no administrative operation the pool's lists account for all of    *)
(* its threads, and only a worker that starts is awaited.                  *)
Idle ==
    /\ restarted = {}
    /\ \A p \in Admins : pc[p] = "idle" /\ target[p] = None
    /\ \A t \in Threads : starter[t] # "reload"
AwaitedStarts == \A t \in Threads : worker[t] # "starting" => starter[t] = None
ListsInv == Commands = {} => Idle /\ AwaitedStarts /\ ListsAgree

Busy == {t \in Threads : running[t] # None}

(* A list of distinct entries of another is not longer.                    *)
LEMMA NotLonger ==
    ASSUME NEW S, NEW s \in Seq(S), NEW r \in Seq(S), IsInjective(s), IsInjective(r),
           ToSet(r) \subseteq ToSet(s)
    PROVE  Len(r) <= Len(s)
<1>1. ASSUME NEW q \in Seq(S), IsInjective(q)
      PROVE  IsFiniteSet(ToSet(q)) /\ Cardinality(ToSet(q)) = Len(q)
  <2>1. Len(q) \in Nat /\ DOMAIN q = 1..Len(q) /\ q \in [1..Len(q) -> S]
    BY LenProperties
  <2>2. q \in [1..Len(q) -> ToSet(q)]
    BY <2>1 DEF ToSet
  <2>3. q \in Injection(1..Len(q), ToSet(q))
    BY <1>1, <2>2 DEF Injection
  <2>4. \A x \in ToSet(q) : \E i \in 1..Len(q) : q[i] = x
    BY <2>1 DEF ToSet
  <2>5. q \in Surjection(1..Len(q), ToSet(q))
    BY <2>2, <2>4 DEF Surjection
  <2>6. ExistsBijection(1..Len(q), ToSet(q))
    BY <2>3, <2>5 DEF ExistsBijection, Bijection
  <2> QED BY <2>1, <2>6, FS_CountingElements, FS_NatBijection
<1>2. IsFiniteSet(ToSet(s)) /\ Cardinality(ToSet(s)) = Len(s) /\ Cardinality(ToSet(r)) = Len(r)
  BY <1>1
<1>3. Cardinality(ToSet(r)) <= Cardinality(ToSet(s))
  BY <1>2, FS_Subset
<1> QED BY <1>2, <1>3

(* What can happen in such a pool.                                         *)
LEMMA OnlyJobs ==
    ASSUME PoolTypeOK, Commands = {}, Idle, Next
    PROVE  \/ \E j \in Jobs : RunJobRefused(j) \/ RunJobOnFree(j) \/ RunJobQueued(j)
           \/ \E j \in Jobs, t \in Threads : RunJobAllocates(j, t)
           \/ \E t \in Threads : OnlineForJob(t) \/ OnlineLast(t) \/ StartingWorkerDies(t)
           \/ \E t, u \in Threads : OnlineThenNext(t, u)
           \/ \E t \in Threads : CompleteJob(t) \/ BusyWorkerExits(t) \/ IdleWorkerExits(t)
<1>1. "reload" \in Admins /\ "destroy" \in Admins /\ "monitor" \in Admins
  BY DEF Admins, Aborts
<1>2. \A p \in Admins : ~Begin(p) /\ ~BeginAbort(p)
  BY <1>1 DEF Begin, BeginAbort, MayBegin, Idle
<1>3. \A p \in Admins : ~StopNext(p) /\ ~StopDone(p) /\ ~StopFails(p)
  BY DEF StopNext, StopDone, StopFails, Idle
<1>4. \A p \in Admins : ~AllStopped(p)
  BY DEF AllStopped, Idle
<1>5. \A t \in Threads : ~ReloadStarts(t) /\ ~AbortRestarts(t)
  BY <1>1, <1>4 DEF ReloadStarts, AbortRestarts, Reopen
<1>6. ~DestroyEnds /\ ~MonitorArms /\ \A p \in Admins : ~AbortReopens(p)
  BY <1>1, <1>4 DEF DestroyEnds, MonitorArms, MayBegin, AbortReopens, Reopen
<1> QED BY <1>2, <1>3, <1>5, <1>6 DEF Next

(* No such step stops, restarts or reloads a thread.                       *)
LEMMA IdleStep ==
    ASSUME PoolTypeOK, Commands = {}, Idle, AwaitedStarts, Next
    PROVE  Idle' /\ AwaitedStarts'
<1>0. /\ worker \in [Threads -> {"gone", "starting", "online"}]
      /\ starter \in [Threads -> Jobs \cup Loops \cup {None}]
      /\ None # "reload" /\ \A j \in Jobs : j # "reload"
  BY PoolAssumption DEF PoolTypeOK, Loops
<1>1. UNCHANGED <<restarted, target>>
  BY OnlyJobs DEF RunJobRefused, RunJobOnFree, RunJobQueued, RunJobAllocates, OnlineForJob,
     OnlineLast, StartingWorkerDies, OnlineThenNext, CompleteJob, BusyWorkerExits, IdleWorkerExits,
     workerVars, adminVars
<1>2. \A p \in Admins : pc'[p] = "idle"
  <2>1. CASE pc' = pc
    BY <2>1 DEF Idle
  <2>2. ASSUME NEW t \in Threads, OnlineLast(t) PROVE pc' = pc
    BY <2>2 DEF OnlineLast, Idle
  <2>3. ASSUME NEW t \in Threads, CompleteJob(t) PROVE \A p \in Admins : pc'[p] = "idle"
    BY <2>3 DEF CompleteJob, WakeDrains, Idle
  <2> QED
    BY <2>1, <2>2, <2>3, OnlyJobs DEF RunJobRefused, RunJobOnFree, RunJobQueued,
       RunJobAllocates, OnlineForJob, StartingWorkerDies, OnlineThenNext, BusyWorkerExits,
       IdleWorkerExits, adminVars
<1>3. ASSUME NEW t \in Threads
      PROVE  starter'[t] # "reload" /\ (worker'[t] # "starting" => starter'[t] = None)
  <2>1. starter[t] # "reload" /\ (worker[t] # "starting" => starter[t] = None)
    BY DEF Idle, AwaitedStarts
  <2>2. CASE UNCHANGED <<worker, starter>>
    BY <2>1, <2>2
  <2>3. ASSUME NEW u \in Threads, OnlineForJob(u) \/ OnlineLast(u) \/ StartingWorkerDies(u)
        PROVE  starter'[t] # "reload" /\ (worker'[t] # "starting" => starter'[t] = None)
    BY <1>0, <2>1, <2>3 DEF OnlineForJob, OnlineLast, StartingWorkerDies
  <2>4. ASSUME NEW u \in Threads, NEW v \in Threads, OnlineThenNext(u, v)
        PROVE  starter'[t] # "reload" /\ (worker'[t] # "starting" => starter'[t] = None)
    BY <1>0, <2>1, <2>4 DEF OnlineThenNext, Idle
  <2>5. ASSUME NEW j \in Jobs, NEW u \in Threads, RunJobAllocates(j, u)
        PROVE  starter'[t] # "reload" /\ (worker'[t] # "starting" => starter'[t] = None)
    BY <1>0, <2>1, <2>5 DEF RunJobAllocates, newThread
  <2>6. ASSUME NEW u \in Threads, BusyWorkerExits(u) \/ IdleWorkerExits(u)
        PROVE  starter'[t] # "reload" /\ (worker'[t] # "starting" => starter'[t] = None)
    BY <1>0, <2>1, <2>6 DEF BusyWorkerExits, IdleWorkerExits, MayExit
  <2> QED
    BY <2>2, <2>3, <2>4, <2>5, <2>6, OnlyJobs DEF RunJobRefused, RunJobOnFree, RunJobQueued,
       CompleteJob, workerVars
<1> QED BY <1>1, <1>2, <1>3 DEF Idle, AwaitedStarts

(* ... and each keeps the lists in agreement with the workers.             *)
LEMMA ListsStep ==
    ASSUME PoolTypeOK, ThreadExclusive, Commands = {}, Idle, AwaitedStarts, ListsAgree, Next
    PROVE  ListsAgree'
<1>0. /\ threads \in Seq(Threads) /\ freeThreads \in Seq(Threads) /\ waitingJobs \in Seq(Jobs)
      /\ worker \in [Threads -> {"gone", "starting", "online"}]
      /\ starter \in [Threads -> Jobs \cup Loops \cup {None}]
      /\ running \in [Threads -> Jobs \cup {None}]
      /\ ToSet(freeThreads) \subseteq Threads
      /\ None \notin Jobs
      /\ IsInjective(threads) /\ IsInjective(freeThreads)
      /\ \A t \in ToSet(freeThreads) : running[t] = None
  BY LenProperties, ElementOfSeq, PoolAssumption DEF PoolTypeOK, ToSet, ThreadExclusive
<1>1. /\ \A t \in Threads : worker[t] = "online" => t \in ToSet(threads)
      /\ ToSet(threads) = ToSet(freeThreads) \cup Busy
  BY DEF ListsAgree, Busy
<1>2. ASSUME \A t \in Threads : worker'[t] = "online" => t \in ToSet(threads'),
             ToSet(threads') = ToSet(freeThreads') \cup Busy'
      PROVE  ListsAgree'
  BY <1>2 DEF ListsAgree, Busy
<1>3. ASSUME NEW j \in Jobs, RunJobRefused(j) \/ RunJobQueued(j) \/ \E t \in Threads : RunJobAllocates(j, t)
      PROVE  ListsAgree'
  <2>1. UNCHANGED <<threads, freeThreads, running>>
    BY <1>3 DEF RunJobRefused, RunJobQueued, RunJobAllocates, workerVars
  <2>2. \A t \in Threads : worker'[t] = "online" => worker[t] = "online"
    BY <1>0, <1>3 DEF RunJobRefused, RunJobQueued, RunJobAllocates, newThread, workerVars
  <2> QED BY <1>1, <1>2, <2>1, <2>2 DEF Busy
<1>4. ASSUME NEW j \in Jobs, RunJobOnFree(j) PROVE ListsAgree'
  <2> DEFINE h == Head(freeThreads)
  <2>1. Len(freeThreads) <= Len(threads) /\ Len(freeThreads) \in Nat /\ Len(threads) \in Nat
    BY <1>0, <1>1, NotLonger, LenProperties
  <2>2. /\ threads' = threads /\ worker' = worker /\ freeThreads' = Tail(freeThreads)
        /\ running' = [running EXCEPT ![h] = j] /\ freeThreads # <<>>
    BY <1>4, <2>1 DEF RunJobOnFree, poolSize
  <2>3. /\ h \in Threads /\ ToSet(freeThreads) = {h} \cup ToSet(freeThreads')
        /\ h \notin ToSet(freeThreads')
    BY <1>0, <2>2, ShiftFacts
  <2> HIDE DEF h
  <2>4. \A t \in Threads : running'[t] = IF t = h THEN j ELSE running[t]
    BY <1>0, <2>2
  <2>5. Busy' = Busy \cup {h}
    BY <1>0, <2>3, <2>4 DEF Busy
  <2> QED BY <1>1, <1>2, <2>2, <2>3, <2>5
<1>5. ASSUME NEW t \in Threads, OnlineForJob(t) PROVE ListsAgree'
  <2> DEFINE f == Append(freeThreads, t)
             h == Head(f)
  <2>1. /\ threads' = Append(threads, t) /\ freeThreads' = Tail(f)
        /\ running' = [running EXCEPT ![h] = starter[t]] /\ starter[t] \in Jobs
        /\ worker' = [worker EXCEPT ![t] = "online"]
    BY <1>5 DEF OnlineForJob, BringOnline, allocate
  <2>2. f \in Seq(Threads) /\ f # <<>> /\ ToSet(f) = ToSet(freeThreads) \cup {t}
    BY <1>0, PushFacts
  <2>3. ToSet(threads') = ToSet(threads) \cup {t}
    BY <1>0, <2>1, PushFacts
  <2> HIDE DEF f
  <2>4. h \in Threads /\ ToSet(f) = {h} \cup ToSet(freeThreads')
    BY <2>1, <2>2, ShiftFacts
  <2> HIDE DEF h
  <2>5. \A u \in Threads : running'[u] = IF u = h THEN starter[t] ELSE running[u]
    BY <1>0, <2>1
  <2>6. Busy' = Busy \cup {h}
    BY <1>0, <2>1, <2>4, <2>5 DEF Busy
  <2>7. \A u \in Threads : worker'[u] = "online" => u = t \/ worker[u] = "online"
    BY <1>0, <2>1
  <2> QED BY <1>1, <1>2, <2>2, <2>3, <2>4, <2>6, <2>7
<1>6. ASSUME NEW t \in Threads, OnlineLast(t) \/ \E u \in Threads : OnlineThenNext(t, u)
      PROVE  ListsAgree'
  <2>1. /\ threads' = Append(threads, t) /\ freeThreads' = Append(freeThreads, t)
        /\ running' = running
        /\ \A u \in Threads : worker'[u] = "online" => u = t \/ worker[u] = "online"
    BY <1>0, <1>6 DEF OnlineLast, OnlineThenNext, BringOnline
  <2>2. ToSet(threads') = ToSet(threads) \cup {t} /\ ToSet(freeThreads') = ToSet(freeThreads) \cup {t}
    BY <1>0, <2>1, PushFacts
  <2>3. Busy' = Busy
    BY <2>1 DEF Busy
  <2> QED BY <1>1, <1>2, <2>1, <2>2, <2>3
<1>7. ASSUME NEW t \in Threads, StartingWorkerDies(t) \/ IdleWorkerExits(t) PROVE ListsAgree'
  <2>1. UNCHANGED <<threads, freeThreads, running>>
    BY <1>7 DEF StartingWorkerDies, IdleWorkerExits
  <2>2. \A u \in Threads : worker'[u] = "online" => worker[u] = "online"
    BY <1>0, <1>7 DEF StartingWorkerDies, IdleWorkerExits
  <2>3. Busy' = Busy
    BY <2>1 DEF Busy
  <2> QED BY <1>1, <1>2, <2>1, <2>2, <2>3
<1>8. ASSUME NEW t \in Threads, CompleteJob(t) PROVE ListsAgree'
  <2>1. threads' = threads /\ worker' = worker /\ running[t] \in Jobs /\ reallocate(t)
    BY <1>8 DEF CompleteJob
  <2>2. CASE waitingJobs # <<>>
    <3>1. /\ running' = [running EXCEPT ![t] = Head(waitingJobs)] /\ freeThreads' = freeThreads
          /\ Head(waitingJobs) \in Jobs
      BY <1>0, <2>1, <2>2, ShiftFacts DEF reallocate, RunNextOn
    <3>2. Busy' = Busy
      BY <1>0, <2>1, <3>1 DEF Busy
    <3> QED BY <1>1, <1>2, <2>1, <3>1, <3>2
  <2>3. CASE waitingJobs = <<>>
    <3>1. running' = [running EXCEPT ![t] = None] /\ freeThreads' = Append(freeThreads, t)
      BY <2>1, <2>3 DEF reallocate, checkin
    <3>2. ToSet(freeThreads') = ToSet(freeThreads) \cup {t}
      BY <1>0, <3>1, PushFacts
    <3>3. Busy' = Busy \ {t} /\ t \in Busy
      BY <1>0, <2>1, <3>1 DEF Busy
    <3> QED BY <1>1, <1>2, <2>1, <3>2, <3>3
  <2> QED BY <2>2, <2>3
<1>9. ASSUME NEW t \in Threads, BusyWorkerExits(t) PROVE ListsAgree'
  <2>1. /\ threads' = SpliceOut(threads, t) /\ freeThreads' = freeThreads
        /\ worker' = [worker EXCEPT ![t] = "gone"] /\ running' = [running EXCEPT ![t] = None]
        /\ running[t] \in Jobs
    BY <1>9 DEF BusyWorkerExits
  <2>2. Busy' = Busy \ {t} /\ t \in Busy
    BY <1>0, <2>1 DEF Busy
  <2>3. t \notin ToSet(freeThreads) /\ t \in ToSet(threads)
    BY <1>0, <1>1, <2>1, <2>2
  <2>4. ToSet(threads') = ToSet(threads) \ {t}
    BY <1>0, <2>1, <2>3, SpliceOutFacts
  <2>5. \A u \in Threads : worker'[u] = "online" => u # t /\ worker[u] = "online"
    BY <1>0, <2>1
  <2> QED BY <1>1, <1>2, <2>1, <2>2, <2>3, <2>4, <2>5
<1> QED
  BY <1>3, <1>4, <1>5, <1>6, <1>7, <1>8, <1>9, OnlyJobs

LEMMA ListsInitially == Init /\ Commands = {} => Idle /\ AwaitedStarts /\ ListsAgree
<1> SUFFICES ASSUME Init, Commands = {} PROVE Idle /\ AwaitedStarts /\ ListsAgree
  OBVIOUS
<1>1. ToSet(threads) = {} /\ ToSet(freeThreads) = {}
  BY DEF Init, ToSet
<1>2. \A t \in Threads : running[t] = None /\ worker[t] # "online"
  BY DEF Init
<1>3. \A t \in Threads : starter[t] # "reload" /\ (worker[t] # "starting" => starter[t] = None)
  BY PoolAssumption DEF Init, Loops
<1>4. Idle
  BY <1>3 DEF Init, Idle
<1> QED BY <1>1, <1>2, <1>3, <1>4 DEF AwaitedStarts, ListsAgree

LEMMA ListsHold == Spec => []ListsInv
<1>1. Init => ListsInv
  BY ListsInitially DEF ListsInv
<1>2. PoolTypeOK /\ ThreadExclusive /\ ListsInv /\ [Next]_vars => ListsInv'
  <2> SUFFICES ASSUME PoolTypeOK, ThreadExclusive, [Next]_vars, Commands = {},
                      Idle, AwaitedStarts, ListsAgree
               PROVE  Idle' /\ AwaitedStarts' /\ ListsAgree'
    BY DEF ListsInv
  <2>1. CASE Next
    BY <2>1, IdleStep, ListsStep
  <2>2. CASE UNCHANGED vars
    BY <2>2 DEF vars, workerVars, adminVars, Idle, AwaitedStarts, ListsAgree
  <2> QED BY <2>1, <2>2
<1> QED BY <1>1, <1>2, TypeCorrect, ThreadsExclusive, PTL DEF Spec

(* As long as nobody stops threads, whatever else fails: a live worker is  *)
(* listed, and a listed thread is free or has a job.                       *)
THEOREM ListsInAgreement == Spec => []ListsAgree
<1>1. ListsInv => ListsAgree
  BY DEF ListsInv, ListsAgree
<1> QED BY <1>1, ListsHold, PTL

-----------------------------------------------------------------------------
(* No job is forgotten                                                     *)

Known == Queued \cup Running \cup Awaited

(* A pending job stays somewhere, if all workers start: on a free thread   *)
(* (there always is one, so threadsInUse does not throw), in the queue, or *)
(* with the thread that starts for it.                                     *)
LEMMA KnownStep ==
    ASSUME PoolTypeOK, ThreadExclusive, Commands = {}, Idle, AwaitedStarts, ListsAgree,
           "spawn" \notin Faults, Next,
           NEW k \in Jobs, status'[k] = "pending", status[k] = "pending" => k \in Known
    PROVE  k \in Known'
<1>0. /\ threads \in Seq(Threads) /\ freeThreads \in Seq(Threads) /\ waitingJobs \in Seq(Jobs)
      /\ status \in [Jobs -> {"new", "pending"} \cup Ended]
      /\ worker \in [Threads -> {"gone", "starting", "online"}]
      /\ starter \in [Threads -> Jobs \cup Loops \cup {None}]
      /\ running \in [Threads -> Jobs \cup {None}]
      /\ None \notin Jobs /\ \A l \in Loops : l \notin Jobs
      /\ IsInjective(threads) /\ IsInjective(freeThreads)
      /\ \A t \in ToSet(freeThreads) : running[t] = None
      /\ \A t \in Threads : worker[t] = "starting" => running[t] = None
      /\ \A t \in Threads : worker[t] # "starting" => starter[t] = None
  BY PoolAssumption DEF PoolTypeOK, ThreadExclusive, AwaitedStarts
<1>1. k \in Known <=> k \in ToSet(waitingJobs) \/ \E t \in Threads : running[t] = k \/ starter[t] = k
  BY DEF Known, Queued, Running, Awaited
<1>2. k \in Known' <=> k \in ToSet(waitingJobs') \/ \E t \in Threads : running'[t] = k \/ starter'[t] = k
  BY DEF Known, Queued, Running, Awaited
<1>3. ASSUME UNCHANGED <<status, waitingJobs, running, starter>> PROVE k \in Known'
  BY <1>1, <1>2, <1>3
<1>4. ASSUME NEW j \in Jobs, RunJobRefused(j) PROVE k \in Known'
  <2>1. status[k] = "pending" /\ UNCHANGED <<waitingJobs, running, starter>>
    BY <1>0, <1>4 DEF RunJobRefused, workerVars
  <2> QED BY <1>1, <1>2, <2>1
<1>5. ASSUME NEW j \in Jobs, RunJobQueued(j) PROVE k \in Known'
  <2>1. /\ waitingJobs' = Append(waitingJobs, j) /\ UNCHANGED <<running, starter>>
        /\ k # j => status[k] = "pending"
    BY <1>0, <1>5 DEF RunJobQueued, enqueue, Admit, workerVars
  <2>2. ToSet(waitingJobs') = ToSet(waitingJobs) \cup {j}
    BY <1>0, <2>1, PushFacts
  <2> QED BY <1>1, <1>2, <2>1, <2>2
<1>6. ASSUME NEW j \in Jobs, RunJobOnFree(j) PROVE k \in Known'
  <2> DEFINE h == Head(freeThreads)
  <2>1. ToSet(freeThreads) \subseteq ToSet(threads)
    BY DEF ListsAgree
  <2>2. Len(freeThreads) <= Len(threads) /\ Len(freeThreads) \in Nat /\ Len(threads) \in Nat
    BY <1>0, <2>1, NotLonger, LenProperties
  <2>3. /\ UNCHANGED <<waitingJobs, starter>> /\ freeThreads # <<>>
        /\ running' = [running EXCEPT ![h] = j]
        /\ k # j => status[k] = "pending"
    BY <1>0, <1>6, <2>2 DEF RunJobOnFree, Admit, poolSize
  <2>4. h \in Threads /\ h \in ToSet(freeThreads)
    BY <1>0, <2>3, ShiftFacts
  <2>5. running[h] = None
    BY <1>0, <2>4
  <2> HIDE DEF h
  <2>6. running'[h] = j /\ \A t \in Threads : running[t] = k => running'[t] = k
    BY <1>0, <2>3, <2>4, <2>5
  <2> QED BY <1>1, <1>2, <2>3, <2>4, <2>6
<1>7. ASSUME NEW j \in Jobs, NEW t \in Threads, RunJobAllocates(j, t) PROVE k \in Known'
  <2>1. /\ UNCHANGED <<waitingJobs, running>> /\ starter' = [starter EXCEPT ![t] = j]
        /\ k # j => status[k] = "pending"
        /\ starter[t] = None
    BY <1>0, <1>7 DEF RunJobAllocates, Admit, newThread, Unused
  <2>2. starter'[t] = j /\ \A u \in Threads : starter[u] = k => starter'[u] = k
    BY <1>0, <2>1
  <2> QED BY <1>1, <1>2, <2>1, <2>2
<1>8. ASSUME NEW t \in Threads, OnlineForJob(t) PROVE k \in Known'
  <2> DEFINE f == Append(freeThreads, t)
             h == Head(f)
  <2>1. /\ UNCHANGED <<status, waitingJobs>> /\ running' = [running EXCEPT ![h] = starter[t]]
        /\ starter' = [starter EXCEPT ![t] = None] /\ worker[t] = "starting"
    BY <1>8 DEF OnlineForJob, BringOnline, allocate, jobVars
  <2>2. f \in Seq(Threads) /\ f # <<>> /\ ToSet(f) = ToSet(freeThreads) \cup {t}
    BY <1>0, PushFacts
  <2> HIDE DEF f
  <2>3. h \in Threads /\ h \in ToSet(f)
    BY <2>2, ShiftFacts
  <2>4. running[h] = None
    BY <1>0, <2>1, <2>2, <2>3
  <2> HIDE DEF h
  <2>5. /\ \A u \in Threads : running[u] = k => running'[u] = k
        /\ \A u \in Threads \ {t} : starter'[u] = starter[u]
        /\ running'[h] = starter[t]
    BY <1>0, <2>1, <2>3, <2>4
  <2> QED BY <1>1, <1>2, <2>1, <2>3, <2>5
<1>9. ASSUME NEW t \in Threads, OnlineLast(t) \/ \E u \in Threads : OnlineThenNext(t, u)
      PROVE  k \in Known'
  <2>1. UNCHANGED <<status, waitingJobs, running>> /\ starter[t] \in Loops
    BY <1>9 DEF OnlineLast, OnlineThenNext, jobVars
  <2>2. \A v \in Threads : starter[v] = k => starter'[v] = k
    <3>1. CASE OnlineLast(t)
      BY <1>0, <2>1, <3>1 DEF OnlineLast
    <3>2. ASSUME NEW u \in Threads, OnlineThenNext(t, u)
          PROVE  \A v \in Threads : starter[v] = k => starter'[v] = k
      <4>1. starter[u] = None /\ starter' = [starter EXCEPT ![t] = None, ![u] = starter[t]]
        BY <1>0, <3>2 DEF OnlineThenNext, Unused
      <4> QED BY <1>0, <2>1, <4>1
    <3> QED BY <1>9, <3>1, <3>2
  <2> QED BY <1>1, <1>2, <2>1, <2>2
<1>10. ASSUME NEW t \in Threads, StartingWorkerDies(t) PROVE FALSE
  BY <1>10 DEF StartingWorkerDies
<1>11. ASSUME NEW t \in Threads, CompleteJob(t) PROVE k \in Known'
  <2>1. /\ UNCHANGED starter /\ running[t] \in Jobs /\ reallocate(t)
        /\ status'[running[t]] \in Ended
        /\ \A j \in Jobs \ {running[t]} : status'[j] = status[j]
    BY <1>0, <1>11 DEF CompleteJob
  <2>2. k # running[t] /\ status[k] = "pending"
    BY <2>1 DEF Ended
  <2>3. CASE waitingJobs # <<>>
    <3>1. running' = [running EXCEPT ![t] = Head(waitingJobs)] /\ waitingJobs' = Tail(waitingJobs)
      BY <2>1, <2>3 DEF reallocate, RunNextOn
    <3>2. ToSet(waitingJobs) = {Head(waitingJobs)} \cup ToSet(waitingJobs')
      BY <1>0, <2>3, <3>1, ShiftFacts
    <3>3. running'[t] = Head(waitingJobs) /\ \A u \in Threads : running[u] = k => running'[u] = k
      BY <1>0, <2>2, <3>1
    <3> QED BY <1>1, <1>2, <2>1, <2>2, <3>2, <3>3
  <2>4. CASE waitingJobs = <<>>
    <3>1. running' = [running EXCEPT ![t] = None] /\ waitingJobs' = waitingJobs
      BY <2>1, <2>4 DEF reallocate, checkin
    <3>2. \A u \in Threads : running[u] = k => running'[u] = k
      BY <1>0, <2>2, <3>1
    <3> QED BY <1>1, <1>2, <2>1, <2>2, <3>1, <3>2
  <2> QED BY <2>3, <2>4
<1>12. ASSUME NEW t \in Threads, BusyWorkerExits(t) PROVE k \in Known'
  <2>1. /\ UNCHANGED <<starter, waitingJobs>> /\ running[t] \in Jobs
        /\ running' = [running EXCEPT ![t] = None]
        /\ status' = [status EXCEPT ![running[t]] = "rejected"]
    BY <1>12 DEF BusyWorkerExits
  <2>2. k # running[t] /\ status[k] = "pending"
    BY <1>0, <2>1
  <2>3. \A u \in Threads : running[u] = k => running'[u] = k
    BY <1>0, <2>1, <2>2
  <2> QED BY <1>1, <1>2, <2>1, <2>2, <2>3
<1>13. ASSUME NEW t \in Threads, IdleWorkerExits(t) PROVE k \in Known'
  BY <1>3, <1>13 DEF IdleWorkerExits, jobVars
<1> QED
  BY <1>4, <1>5, <1>6, <1>7, <1>8, <1>9, <1>10, <1>11, <1>12, <1>13, OnlyJobs

(* As long as nobody stops threads and all workers start, every caller     *)
(* that waits has its job in the queue, on a thread, or with a thread that *)
(* starts for it.                                                          *)
THEOREM NoJobIsForgotten == Spec => []NoJobForgotten
<1>1. Init => NoJobForgotten
  BY DEF Init, NoJobForgotten
<1>2. /\ PoolTypeOK /\ ThreadExclusive /\ ListsInv /\ NoJobForgotten /\ [Next]_vars
      => NoJobForgotten'
  <2> SUFFICES ASSUME PoolTypeOK, ThreadExclusive, ListsInv, NoJobForgotten, [Next]_vars,
                      "spawn" \notin Faults, Commands = {},
                      NEW k \in Jobs, status'[k] = "pending"
               PROVE  k \in Known'
    BY DEF NoJobForgotten, Known
  <2>1. status[k] = "pending" => k \in Known
    BY DEF NoJobForgotten, Known
  <2>2. CASE Next
    BY <2>1, <2>2, KnownStep DEF ListsInv
  <2>3. CASE UNCHANGED vars
    BY <2>1, <2>3 DEF vars, jobVars, workerVars, Known, Queued, Running, Awaited
  <2> QED BY <2>2, <2>3
<1> QED BY <1>1, <1>2, TypeCorrect, ThreadsExclusive, ListsHold, PTL DEF Spec

-----------------------------------------------------------------------------
(* The pool lends threads                                                  *)

(* A worker that is not starting is awaited by nobody.                     *)
LEMMA AwaitedStep == PoolTypeOK /\ AwaitedStarts /\ [Next]_vars => AwaitedStarts'
<1> SUFFICES ASSUME PoolTypeOK, AwaitedStarts, [Next]_vars PROVE AwaitedStarts'
  OBVIOUS
<1>0. /\ worker \in [Threads -> {"gone", "starting", "online"}]
      /\ starter \in [Threads -> Jobs \cup Loops \cup {None}]
      /\ \A t \in Threads : worker[t] # "starting" => starter[t] = None
  BY DEF PoolTypeOK, AwaitedStarts
<1>1. CASE UNCHANGED <<worker, starter>>
  BY <1>0, <1>1 DEF AwaitedStarts
<1>2. ASSUME NEW t \in Threads, OnlineForJob(t) \/ OnlineLast(t) \/ StartingWorkerDies(t)
      PROVE  AwaitedStarts'
  BY <1>0, <1>2 DEF OnlineForJob, OnlineLast, StartingWorkerDies, AwaitedStarts
<1>3. ASSUME NEW t \in Threads, NEW u \in Threads, OnlineThenNext(t, u) PROVE AwaitedStarts'
  BY <1>0, <1>3 DEF OnlineThenNext, AwaitedStarts
<1>4. ASSUME NEW t \in Threads, NEW who, newThread(t, who) PROVE AwaitedStarts'
  BY <1>0, <1>4 DEF newThread, AwaitedStarts
<1>5. ASSUME NEW t \in Threads, BusyWorkerExits(t) \/ IdleWorkerExits(t) PROVE AwaitedStarts'
  BY <1>0, <1>5 DEF BusyWorkerExits, IdleWorkerExits, MayExit, AwaitedStarts
<1>6. ASSUME NEW j \in Jobs, RunJobRefused(j) \/ RunJobOnFree(j) \/ RunJobQueued(j)
      PROVE  UNCHANGED <<worker, starter>>
  BY <1>6 DEF RunJobRefused, RunJobOnFree, RunJobQueued, workerVars
<1>7. ASSUME NEW t \in Threads,
             ReloadStarts(t) \/ AbortRestarts(t) \/ \E j \in Jobs : RunJobAllocates(j, t)
      PROVE  AwaitedStarts'
  BY <1>4, <1>7 DEF ReloadStarts, AbortRestarts, RunJobAllocates
<1>8. ASSUME NEW t \in Threads, CompleteJob(t) PROVE UNCHANGED <<worker, starter>>
  BY <1>8 DEF CompleteJob
<1>9. ASSUME NEW p \in Admins,
             \/ Begin(p) \/ BeginAbort(p) \/ StopNext(p) \/ StopDone(p) \/ StopFails(p)
             \/ AbortReopens(p)
      PROVE  UNCHANGED <<worker, starter>>
  BY <1>9 DEF Begin, BeginAbort, StopNext, StopDone, StopFails, AbortReopens, workerVars
<1>10. CASE DestroyEnds \/ MonitorArms \/ UNCHANGED vars
  BY <1>1, <1>10 DEF DestroyEnds, MonitorArms, vars, workerVars
<1> QED BY <1>1, <1>2, <1>3, <1>5, <1>6, <1>7, <1>8, <1>9, <1>10 DEF Next

Accepted == {j \in Jobs : status[j] # "new"}
Settled  == {j \in Jobs : status[j] \in Ended}

(* A new job is accepted and not settled, or at once.                      *)
LEMMA HandInFacts ==
    ASSUME status \in [Jobs -> {"new", "pending"} \cup Ended], NEW j \in Jobs, status[j] = "new",
           NEW s \in {"pending"} \cup Ended, status' = [status EXCEPT ![j] = s]
    PROVE  /\ j \notin Accepted /\ Accepted' = Accepted \cup {j}
           /\ Settled' = IF s = "pending" THEN Settled ELSE Settled \cup {j}
<1>1. \A k \in Jobs : status'[k] = IF k = j THEN s ELSE status[k]
  OBVIOUS
<1>2. s # "new" /\ (s \in Ended <=> s # "pending") /\ "new" \notin Ended
  BY DEF Ended
<1> QED BY <1>1, <1>2 DEF Accepted, Settled

LEMMA SettleFacts ==
    ASSUME status \in [Jobs -> {"new", "pending"} \cup Ended], NEW j \in Jobs,
           status[j] = "pending", NEW s \in Ended, status' = [status EXCEPT ![j] = s]
    PROVE  Accepted' = Accepted /\ Settled' = Settled \cup {j}
<1>1. \A k \in Jobs : status'[k] = IF k = j THEN s ELSE status[k]
  OBVIOUS
<1>2. s # "new"
  BY DEF Ended
<1> QED BY <1>1, <1>2 DEF Accepted, Settled

(* Whose thread is called, as threads are started and come up.             *)
LEMMA AwaitedFacts ==
    ASSUME starter \in [Threads -> Jobs \cup Loops \cup {None}], None \notin Jobs,
           NEW t \in Threads, NEW w, starter' = [starter EXCEPT ![t] = w]
    PROVE  /\ w \notin Jobs /\ starter[t] \notin Jobs => Awaited' = Awaited
           /\ w \in Jobs /\ starter[t] \notin Jobs => Awaited' = Awaited \cup {w}
           /\ w \notin Jobs /\ starter[t] \in Jobs
                  /\ (\A u \in Threads : starter[u] = starter[t] => u = t)
                  => Awaited' = Awaited \ {starter[t]} /\ starter[t] \in Awaited
<1>1. \A u \in Threads : starter'[u] = IF u = t THEN w ELSE starter[u]
  OBVIOUS
<1>2. \A x : x \in Awaited <=> x \in Jobs /\ \E u \in Threads : starter[u] = x
  BY DEF Awaited
<1>3. \A x : x \in Awaited' <=> x \in Jobs /\ \E u \in Threads : starter'[u] = x
  BY DEF Awaited
<1>4. CASE w \notin Jobs /\ starter[t] \notin Jobs
  <2>1. \A x : x \in Awaited' <=> x \in Awaited
    BY <1>1, <1>2, <1>3, <1>4
  <2> QED BY <1>4, <2>1
<1>5. CASE w \in Jobs /\ starter[t] \notin Jobs
  <2>1. \A x : x \in Awaited' <=> x \in Awaited \/ x = w
    BY <1>1, <1>2, <1>3, <1>5
  <2> QED BY <1>5, <2>1
<1>6. CASE w \notin Jobs /\ starter[t] \in Jobs
           /\ \A u \in Threads : starter[u] = starter[t] => u = t
  <2>1. \A x : x \in Awaited' <=> x \in Awaited /\ x # starter[t]
    BY <1>1, <1>2, <1>3, <1>6
  <2> QED BY <1>2, <1>6, <2>1
<1> QED BY <1>4, <1>5, <1>6

(* Each step of the pool is one of the abstract lending, or none.          *)
LEMMA LendingStep ==
    PoolTypeOK /\ ThreadExclusive /\ JobsApart /\ AwaitedStarts /\ [Next]_vars
        => [Lending!Next]_(Lending!vars)
<1> SUFFICES ASSUME PoolTypeOK, ThreadExclusive, JobsApart, AwaitedStarts, [Next]_vars
             PROVE  [Lending!Next]_(Lending!vars)
  OBVIOUS
<1>0. /\ waitingJobs \in Seq(Jobs) /\ freeThreads \in Seq(Threads)
      /\ status \in [Jobs -> {"new", "pending"} \cup Ended]
      /\ running \in [Threads -> Jobs \cup {None}]
      /\ starter \in [Threads -> Jobs \cup Loops \cup {None}]
      /\ None \notin Jobs /\ \A l \in Loops : l \notin Jobs
      /\ \A t \in Threads : worker[t] # "starting" => starter[t] = None
      /\ \A t \in Threads : running[t] \in Jobs => status[running[t]] = "pending"
  BY PoolAssumption DEF PoolTypeOK, AwaitedStarts, JobsApart, RunningApart
<1>1. ASSUME UNCHANGED <<status, waitingJobs, running>>, Awaited' = Awaited
      PROVE  UNCHANGED Lending!vars
  BY <1>1 DEF Lending!vars, Accepted, Settled
<1>2. ASSUME UNCHANGED <<status, waitingJobs, running, starter>> PROVE UNCHANGED Lending!vars
  BY <1>1, <1>2 DEF Awaited
<1>3. ASSUME NEW j \in Jobs, RunJobRefused(j) PROVE Lending!Next
  <2>1. /\ status[j] = "new" /\ status' = [status EXCEPT ![j] = "rejected"]
        /\ UNCHANGED <<waitingJobs, running, starter>>
    BY <1>3 DEF RunJobRefused, workerVars
  <2>0. "rejected" \in {"pending"} \cup Ended /\ "rejected" # "pending"
    BY DEF Ended
  <2>2. j \notin Accepted /\ Accepted' = Accepted \cup {j} /\ Settled' = Settled \cup {j}
    BY <1>0, <2>0, <2>1, HandInFacts
  <2>3. Awaited' = Awaited
    BY <2>1 DEF Awaited
  <2>4. Lending!Refuse(j)
    BY <2>1, <2>2, <2>3 DEF Lending!Refuse, Lending!HandIn, Accepted, Settled
  <2> QED BY <2>4 DEF Lending!Next
<1>4. ASSUME NEW j \in Jobs, Admit(j)
      PROVE  j \notin Accepted /\ Accepted' = Accepted \cup {j} /\ Settled' = Settled
  BY <1>0, <1>4, HandInFacts DEF Admit, Ended
<1>5. ASSUME NEW j \in Jobs, RunJobOnFree(j) PROVE Lending!Next
  <2>1. PICK h : h = Head(freeThreads)
    OBVIOUS
  <2>2. /\ Admit(j) /\ UNCHANGED <<waitingJobs, starter>> /\ freeThreads # <<>>
        /\ running' = running \/ running' = [running EXCEPT ![h] = j]
    BY <1>5, <2>1 DEF RunJobOnFree
  <2>3. h \in Threads /\ h \in ToSet(freeThreads)
    BY <1>0, <2>1, <2>2, ShiftFacts
  <2>4. running[h] = None
    BY <2>3 DEF ThreadExclusive
  <2>5. Awaited' = Awaited
    BY <2>2 DEF Awaited
  <2>6. j \notin Accepted /\ Accepted' = Accepted \cup {j} /\ Settled' = Settled
    BY <1>4, <2>2
  <2>7. Lending!HandIn(j)
    BY <2>6 DEF Lending!HandIn, Accepted
  <2>8. CASE running' = running
    <3>1. Lending!Forget(j)
      BY <2>2, <2>5, <2>6, <2>7, <2>8 DEF Lending!Forget, Settled
    <3> QED BY <3>1 DEF Lending!Next
  <2>9. CASE running' = [running EXCEPT ![h] = j]
    <3>1. Lending!Start(j, h)
      BY <2>2, <2>4, <2>5, <2>6, <2>7, <2>9 DEF Lending!Start, Lending!Lend, Settled
    <3> QED BY <2>3, <3>1 DEF Lending!Next
  <2> QED BY <2>2, <2>8, <2>9
<1>6. ASSUME NEW j \in Jobs, RunJobQueued(j) PROVE Lending!Next
  <2>1. /\ Admit(j) /\ waitingJobs' = Append(waitingJobs, j) /\ UNCHANGED <<running, starter>>
    BY <1>6 DEF RunJobQueued, enqueue, workerVars
  <2>2. j \notin Accepted /\ Accepted' = Accepted \cup {j} /\ Settled' = Settled
    BY <1>4, <2>1
  <2>3. Awaited' = Awaited
    BY <2>1 DEF Awaited
  <2>4. Lending!Enqueue(j)
    BY <2>1, <2>2, <2>3 DEF Lending!Enqueue, Lending!HandIn, Accepted, Settled
  <2> QED BY <2>4 DEF Lending!Next
<1>7. ASSUME NEW j \in Jobs, NEW t \in Threads, RunJobAllocates(j, t) PROVE Lending!Next
  <2>1. /\ Admit(j) /\ UNCHANGED <<running, waitingJobs>> /\ newThread(t, j)
    BY <1>7 DEF RunJobAllocates
  <2>2. j \notin Accepted /\ Accepted' = Accepted \cup {j} /\ Settled' = Settled
    BY <1>4, <2>1
  <2>3. starter' = [starter EXCEPT ![t] = j] /\ starter[t] = None
    BY <1>0, <2>1 DEF newThread, Unused
  <2>4. Awaited' = Awaited \cup {j}
    BY <1>0, <2>3, AwaitedFacts
  <2>5. Lending!Call(j)
    BY <2>1, <2>2, <2>4 DEF Lending!Call, Lending!HandIn, Accepted, Settled
  <2> QED BY <2>5 DEF Lending!Next
<1>8. ASSUME NEW t \in Threads, OnlineForJob(t) PROVE Lending!Next
  <2>1. PICK f : f = Append(freeThreads, t)
    OBVIOUS
  <2>2. PICK h : h = Head(f)
    OBVIOUS
  <2>3. /\ UNCHANGED <<status, waitingJobs>> /\ running' = [running EXCEPT ![h] = starter[t]]
        /\ starter' = [starter EXCEPT ![t] = None] /\ starter[t] \in Jobs
        /\ worker[t] = "starting"
    BY <1>8, <2>1, <2>2 DEF OnlineForJob, BringOnline, allocate, jobVars
  <2>4. f \in Seq(Threads) /\ f # <<>> /\ ToSet(f) = ToSet(freeThreads) \cup {t}
    BY <1>0, <2>1, PushFacts
  <2>5. h \in Threads /\ h \in ToSet(f)
    BY <2>2, <2>4, ShiftFacts
  <2>6. running[h] = None
    BY <2>3, <2>4, <2>5 DEF ThreadExclusive
  <2>7. \A u \in Threads : starter[u] = starter[t] => u = t
    BY <2>3 DEF JobsApart, AwaitedApart
  <2>8. Awaited' = Awaited \ {starter[t]} /\ starter[t] \in Awaited
    BY <1>0, <2>3, <2>7, AwaitedFacts
  <2>9. Accepted' = Accepted /\ Settled' = Settled
    BY <2>3 DEF Accepted, Settled
  <2>10. Lending!Arrive(starter[t], h)
    BY <2>3, <2>6, <2>8, <2>9 DEF Lending!Arrive, Lending!Lend, Accepted, Settled
  <2> QED BY <2>3, <2>5, <2>10 DEF Lending!Next
<1>9. ASSUME NEW t \in Threads, OnlineLast(t) \/ \E u \in Threads : OnlineThenNext(t, u)
      PROVE  UNCHANGED Lending!vars
  <2>1. UNCHANGED <<status, waitingJobs, running>> /\ starter[t] \in Loops
    BY <1>9 DEF OnlineLast, OnlineThenNext, jobVars
  <2>2. \A v \in Threads : starter'[v] = starter[v] \/ (starter'[v] \notin Jobs /\ starter[v] \notin Jobs)
    <3>1. CASE OnlineLast(t)
      BY <1>0, <2>1, <3>1 DEF OnlineLast
    <3>2. ASSUME NEW u \in Threads, OnlineThenNext(t, u)
          PROVE  \A v \in Threads : starter'[v] = starter[v]
                     \/ (starter'[v] \notin Jobs /\ starter[v] \notin Jobs)
      <4>1. starter[u] = None /\ starter' = [starter EXCEPT ![t] = None, ![u] = starter[t]]
        BY <1>0, <3>2 DEF OnlineThenNext, Unused
      <4> QED BY <1>0, <2>1, <4>1
    <3> QED BY <1>9, <3>1, <3>2
  <2>3. \A x \in Jobs : (\E u \in Threads : starter'[u] = x) <=> (\E u \in Threads : starter[u] = x)
    BY <2>2
  <2>4. Awaited' = Awaited
    BY <2>3 DEF Awaited
  <2> QED BY <1>1, <2>1, <2>4
<1>10. ASSUME NEW t \in Threads, StartingWorkerDies(t) PROVE [Lending!Next]_(Lending!vars)
  <2>1. UNCHANGED <<status, waitingJobs, running>> /\ starter' = [starter EXCEPT ![t] = None]
    BY <1>10 DEF StartingWorkerDies, jobVars
  <2>2. CASE starter[t] \in Jobs
    <3>1. \A u \in Threads : starter[u] = starter[t] => u = t
      BY <2>2 DEF JobsApart, AwaitedApart
    <3>2. Awaited' = Awaited \ {starter[t]} /\ starter[t] \in Awaited
      BY <1>0, <2>1, <2>2, <3>1, AwaitedFacts
    <3>3. Lending!Abandon(starter[t])
      BY <2>1, <3>2 DEF Lending!Abandon
    <3> QED BY <2>2, <3>3 DEF Lending!Next
  <2>3. CASE starter[t] \notin Jobs
    <3>1. Awaited' = Awaited
      BY <1>0, <2>1, <2>3, AwaitedFacts
    <3> QED BY <1>1, <2>1, <3>1
  <2> QED BY <2>2, <2>3
<1>11. ASSUME NEW t \in Threads, CompleteJob(t) PROVE Lending!Next
  <2>1. UNCHANGED starter /\ running[t] \in Jobs /\ reallocate(t)
    BY <1>11 DEF CompleteJob
  <2>2. Accepted' = Accepted /\ Settled' = Settled \cup {running[t]} /\ Awaited' = Awaited
    <3>1. PICK s \in Ended : status' = [status EXCEPT ![running[t]] = s]
      BY <1>11 DEF CompleteJob
    <3>2. status[running[t]] = "pending"
      BY <1>0, <2>1
    <3>3. Accepted' = Accepted /\ Settled' = Settled \cup {running[t]}
      BY <1>0, <2>1, <3>1, <3>2, SettleFacts
    <3>4. Awaited' = Awaited
      BY <2>1 DEF Awaited
    <3> QED BY <3>3, <3>4
  <2>3. \/ UNCHANGED waitingJobs /\ running' = [running EXCEPT ![t] = None]
        \/ /\ waitingJobs # <<>> /\ waitingJobs' = Tail(waitingJobs)
           /\ running' = [running EXCEPT ![t] = Head(waitingJobs)]
    BY <2>1 DEF reallocate, RunNextOn, checkin
  <2>4. running[t] \notin Settled
    BY <1>0, <2>1 DEF Settled, Ended
  <2>5. Lending!Settle(t)
    BY <1>0, <2>1, <2>2, <2>3, <2>4 DEF Lending!Settle, Accepted, Settled
  <2> QED BY <2>5 DEF Lending!Next
<1>12. ASSUME NEW t \in Threads, BusyWorkerExits(t) PROVE Lending!Next
  <2>1. /\ UNCHANGED <<starter, waitingJobs>> /\ running[t] \in Jobs
        /\ running' = [running EXCEPT ![t] = None]
        /\ status' = [status EXCEPT ![running[t]] = "rejected"]
    BY <1>12 DEF BusyWorkerExits
  <2>2. "rejected" \in Ended
    BY DEF Ended
  <2>3. Accepted' = Accepted /\ Settled' = Settled \cup {running[t]} /\ Awaited' = Awaited
    <3>1. status[running[t]] = "pending"
      BY <1>0, <2>1
    <3>2. Accepted' = Accepted /\ Settled' = Settled \cup {running[t]}
      BY <1>0, <2>1, <2>2, <3>1, SettleFacts
    <3>3. Awaited' = Awaited
      BY <2>1 DEF Awaited
    <3> QED BY <3>2, <3>3
  <2>4. running[t] \notin Settled
    BY <1>0, <2>1 DEF Settled, Ended
  <2>5. Lending!Settle(t)
    BY <1>0, <2>1, <2>3, <2>4 DEF Lending!Settle, Accepted, Settled
  <2> QED BY <2>5 DEF Lending!Next
<1>13. ASSUME NEW t \in Threads, AbortRestarts(t) PROVE Lending!Next
  <2>1. /\ waitingJobs # <<>> /\ waitingJobs' = Tail(waitingJobs) /\ UNCHANGED <<status, running>>
        /\ newThread(t, Head(waitingJobs))
    BY <1>13 DEF AbortRestarts
  <2>2. starter' = [starter EXCEPT ![t] = Head(waitingJobs)] /\ starter[t] = None
    BY <1>0, <2>1 DEF newThread, Unused
  <2>3. Head(waitingJobs) \in Jobs
    BY <1>0, <2>1, ShiftFacts
  <2>4. Awaited' = Awaited \cup {Head(waitingJobs)}
    BY <1>0, <2>2, <2>3, AwaitedFacts
  <2>5. Lending!CallFirst
    BY <2>1, <2>4 DEF Lending!CallFirst
  <2> QED BY <2>5 DEF Lending!Next
<1>14. ASSUME NEW t \in Threads, ReloadStarts(t) PROVE UNCHANGED Lending!vars
  <2>1. /\ UNCHANGED <<status, waitingJobs, running>>
        /\ starter' = [starter EXCEPT ![t] = "reload"] /\ starter[t] = None
    BY <1>0, <1>14 DEF ReloadStarts, newThread, Unused, jobVars
  <2>2. Awaited' = Awaited
    BY <1>0, <2>1, AwaitedFacts DEF Loops
  <2> QED BY <1>1, <2>1, <2>2
<1>15. ASSUME NEW t \in Threads, IdleWorkerExits(t) PROVE UNCHANGED Lending!vars
  BY <1>2, <1>15 DEF IdleWorkerExits, jobVars
<1>16. ASSUME NEW p \in Admins,
              \/ Begin(p) \/ BeginAbort(p) \/ StopNext(p) \/ StopDone(p) \/ StopFails(p)
              \/ AbortReopens(p)
       PROVE  UNCHANGED Lending!vars
  BY <1>2, <1>16 DEF Begin, BeginAbort, StopNext, StopDone, StopFails, AbortReopens,
                     jobVars, workerVars
<1>17. CASE DestroyEnds \/ MonitorArms \/ UNCHANGED vars
  BY <1>2, <1>17 DEF DestroyEnds, MonitorArms, vars, jobVars, workerVars
<1> QED
  BY <1>3, <1>5, <1>6, <1>7, <1>8, <1>9, <1>10, <1>11, <1>12, <1>13, <1>14, <1>15, <1>16,
     <1>17 DEF Next

(* The pool implements the abstract lending of threads, for any jobs,      *)
(* threads, limits, operations and faults.                                 *)
THEOREM LendingKept == Spec => LendsAsPromised
<1>1. Init => Lending!Init /\ JobsApart /\ AwaitedStarts
  <2> SUFFICES ASSUME Init PROVE Lending!Init /\ JobsApart /\ AwaitedStarts
    OBVIOUS
  <2>1. Awaited = {} /\ Queued = {}
    BY PoolAssumption DEF Init, Awaited, Loops, Queued, ToSet
  <2>2. Lending!Init
    BY <2>1 DEF Init, Lending!Init, Ended
  <2>3. AwaitedStarts
    BY PoolAssumption DEF Init, AwaitedStarts
  <2> QED BY <2>2, <2>3, ApartInitially
<1> QED BY <1>1, AwaitedStep, ApartStep, LendingStep, TypeCorrect, ThreadsExclusive, PTL
        DEF Spec, LendsAsPromised, Lending!Spec
=============================================================================
