----------------------------- MODULE HostProofs -----------------------------
(***************************************************************************)
(* Proofs about Cluster, for any number of cores, reloads, ticks and       *)
(* crashes; about RemoteImport, for any calls, models and remote entries;  *)
(* and about DistributedCache, for any workers, hosts, writes and finds.   *)
(***************************************************************************)
EXTENDS Cluster, RemoteImport, DistributedCache, JsArrayProofs, FiniteSetTheorems

-----------------------------------------------------------------------------
(* RemoteImport                                                            *)

(* What is imported after the i-th.                                        *)
LEMMA NextImportFacts ==
    /\ Len(cacheImports) = 5 /\ DOMAIN cacheImports = 1..5
    /\ \A i, j \in 1..5 : cacheImports[i] = cacheImports[j] => i = j
    /\ \A i \in 1..5 : cacheImports[i] \notin {"none", "done"}
    /\ cacheImports[5] = "worker"
    /\ \A i \in 1..5 : nextImport(cacheImports[i]) = IF i = 5 THEN "done" ELSE cacheImports[i + 1]
<1>1. Len(cacheImports) = 5 /\ DOMAIN cacheImports = 1..5 /\ cacheImports[5] = "worker"
  BY DEF cacheImports
<1>2. 1..5 = {1, 2, 3, 4, 5}
  OBVIOUS
<1>3. /\ cacheImports[1] = "model" /\ cacheImports[2] = "adapter" /\ cacheImports[3] = "service"
      /\ cacheImports[4] = "port" /\ cacheImports[5] = "worker"
  BY DEF cacheImports
<1>4. \A i, j \in 1..5 : cacheImports[i] = cacheImports[j] => i = j
  BY <1>2, <1>3
<1>5. \A i \in 1..5 : cacheImports[i] \notin {"none", "done"}
  BY <1>2, <1>3
<1>6. ASSUME NEW i \in 1..5
      PROVE  nextImport(cacheImports[i]) = IF i = 5 THEN "done" ELSE cacheImports[i + 1]
  <2>1. (CHOOSE j \in DOMAIN cacheImports : cacheImports[j] = cacheImports[i]) = i
    BY <1>1, <1>4
  <2> QED BY <1>1, <2>1 DEF nextImport
<1> QED BY <1>1, <1>4, <1>5, <1>6

(* A call imports one kind after the other: what comes before the one it   *)
(* waits for is there.  So is everything when the map of workers is, which *)
(* registration needs.                                                     *)
ImportInv ==
    /\ await \in [ImportCalls -> {"none", "done"} \cup Range(cacheImports)]
    /\ \A c \in ImportCalls : \A i, j \in 1..5 :
          await[c] = cacheImports[i] /\ j < i => cacheImports[j] \in caches
    /\ "worker" \in caches => Range(cacheImports) \subseteq caches
    /\ spec # "partial"

LEMMA RegisterFacts ==
    ASSUME NEW have, "worker" \in have => Range(cacheImports) \subseteq have,
           spec # "partial", register(have)
    PROVE  spec' # "partial"
BY DEF register, registers

LEMMA ImportStep == ImportInv /\ [ImportNext]_importVars => ImportInv'
<1> SUFFICES ASSUME ImportInv, [ImportNext]_importVars PROVE ImportInv'
  OBVIOUS
<1>1. CASE importRemotes
  BY <1>1 DEF importRemotes, ImportInv
<1>2. ASSUME NEW c \in ImportCalls, importRemoteCache(c) PROVE ImportInv'
  <2>1. caches' = caches
    BY <1>2 DEF importRemoteCache
  <2>2. spec' # "partial"
    BY <1>2, RegisterFacts DEF importRemoteCache, ImportInv
  <2>3. CASE await' = [await EXCEPT ![c] = "model"]
    <3>1. "model" \in Range(cacheImports) /\ cacheImports[1] = "model"
      BY NextImportFacts DEF Range, cacheImports
    <3>2. await' \in [ImportCalls -> {"none", "done"} \cup Range(cacheImports)]
      BY <2>3, <3>1 DEF ImportInv
    <3>3. ASSUME NEW d \in ImportCalls, NEW i \in 1..5, NEW j \in 1..5,
                 await'[d] = cacheImports[i], j < i
          PROVE  cacheImports[j] \in caches
      <4>1. CASE d = c
        <5>1. cacheImports[i] = cacheImports[1]
          BY <2>3, <3>1, <3>3, <4>1 DEF ImportInv
        <5>2. i = 1
          BY <5>1, NextImportFacts
        <5> QED BY <3>3, <5>2
      <4>2. CASE d # c
        BY <2>3, <3>3, <4>2 DEF ImportInv
      <4> QED BY <4>1, <4>2
    <3> QED BY <2>1, <2>2, <3>2, <3>3 DEF ImportInv
  <2>4. CASE await' = [await EXCEPT ![c] = "done"]
    <3>1. await' \in [ImportCalls -> {"none", "done"} \cup Range(cacheImports)]
      BY <2>4 DEF ImportInv
    <3>2. \A d \in ImportCalls : await'[d] = IF d = c THEN "done" ELSE await[d]
      BY <2>4 DEF ImportInv
    <3> QED BY <2>1, <2>2, <3>1, <3>2, NextImportFacts DEF ImportInv
  <2> QED BY <1>2, <2>3, <2>4 DEF importRemoteCache
<1>3. ASSUME NEW c \in ImportCalls, Imported(c) PROVE ImportInv'
  <2>1. PICK k \in 1..5 : await[c] = cacheImports[k]
    BY <1>3, NextImportFacts DEF Imported, Range
  <2>2. /\ caches' = caches \cup {cacheImports[k]}
        /\ await' = [await EXCEPT ![c] = nextImport(cacheImports[k])]
    BY <1>3, <2>1 DEF Imported
  <2>3. nextImport(cacheImports[k]) = IF k = 5 THEN "done" ELSE cacheImports[k + 1]
    BY NextImportFacts
  <2>4. \A j \in 1..5 : j < k => cacheImports[j] \in caches
    BY <2>1 DEF ImportInv
  <2>5. nextImport(cacheImports[k]) \in {"done"} \cup Range(cacheImports)
    BY <2>3, NextImportFacts DEF Range
  <2>6. await' \in [ImportCalls -> {"none", "done"} \cup Range(cacheImports)]
    BY <2>2, <2>5 DEF ImportInv
  <2>7. ASSUME NEW d \in ImportCalls, NEW i \in 1..5, NEW j \in 1..5,
               await'[d] = cacheImports[i], j < i
        PROVE  cacheImports[j] \in caches'
    <3>1. CASE d = c
      <4>1. cacheImports[i] = nextImport(cacheImports[k])
        BY <2>2, <2>7, <3>1 DEF ImportInv
      <4>2. k # 5 /\ cacheImports[i] = cacheImports[k + 1]
        BY <2>3, <4>1, NextImportFacts
      <4>3. i = k + 1
        BY <4>2, NextImportFacts
      <4> QED BY <2>2, <2>4, <2>7, <4>3
    <3>2. CASE d # c
      BY <2>2, <2>7, <3>2 DEF ImportInv
    <3> QED BY <3>1, <3>2
  <2>8. "worker" \in caches' => Range(cacheImports) \subseteq caches'
    <3>1. CASE "worker" \in caches
      BY <2>2, <3>1 DEF ImportInv
    <3>2. CASE "worker" = cacheImports[k]
      <4>1. k = 5
        BY <3>2, NextImportFacts
      <4>2. \A j \in 1..5 : cacheImports[j] \in caches'
        BY <2>2, <2>4, <4>1
      <4> QED BY <4>2, NextImportFacts DEF Range
    <3> QED BY <2>2, <3>1, <3>2
  <2>9. spec' # "partial"
    BY <1>3, <2>8, RegisterFacts DEF Imported, ImportInv
  <2> QED BY <2>6, <2>7, <2>8, <2>9 DEF ImportInv
<1>4. ASSUME NEW c \in ImportCalls, ImportFails(c) PROVE ImportInv'
  <2>1. await' = [await EXCEPT ![c] = "done"] /\ caches' = caches /\ spec' = spec
    BY <1>4 DEF ImportFails
  <2>2. await' \in [ImportCalls -> {"none", "done"} \cup Range(cacheImports)]
    BY <2>1 DEF ImportInv
  <2>3. \A d \in ImportCalls : await'[d] = IF d = c THEN "done" ELSE await[d]
    BY <2>1 DEF ImportInv
  <2> QED BY <2>1, <2>2, <2>3, NextImportFacts DEF ImportInv
<1>5. CASE UNCHANGED importVars
  BY <1>5 DEF importVars, ImportInv
<1> QED BY <1>1, <1>2, <1>3, <1>4, <1>5 DEF ImportNext

(* A model from the cache is registered with all it is bound to, however   *)
(* many calls import at the same time and whichever imports fail: for any  *)
(* calls, whether the model has ports and whether the entries have it.     *)
THEOREM RegisteredWithAll == ImportSpec => []RegisteredComplete
<1>1. ImportInit => ImportInv
  BY NextImportFacts DEF ImportInit, ImportInv
<1>2. ImportInv => RegisteredComplete
  BY DEF ImportInv, RegisteredComplete
<1> QED BY <1>1, <1>2, ImportStep, PTL DEF ImportSpec

-----------------------------------------------------------------------------
(* Cluster                                                                 *)

WorkerStates == {"starting", "online", "stopping", "exited"}

ClusterTyped ==
    /\ workers \in Seq(WorkerStates)
    /\ workerList \in Seq(Nat) /\ reloadList \in Seq(Nat) /\ reloading \in BOOLEAN
    /\ starts \in Nat /\ stops \in Nat /\ crashes \in Nat /\ forksBefore \in Nat
    /\ asked \in {"never", "early", "ready"}

(* Killing a worker changes no other, and leaves it not running.           *)
LEMMA KilledFacts ==
    ASSUME workers \in Seq(WorkerStates), NEW w
    PROVE  /\ Killed(w) \in Seq(WorkerStates) /\ DOMAIN Killed(w) = Forks
           /\ Len(Killed(w)) = Len(workers)
           /\ \A v \in Forks : v # w => Killed(w)[v] = workers[v]
           /\ w \in Forks => Killed(w)[w] \in {"stopping", "exited"}
<1> USE DEF Forks
<1>1. Forks = 1..Len(workers) /\ Len(workers) \in Nat
  BY LenProperties
<1>2. CASE w \in Forks
  <2> DEFINE k == IF w \in Running THEN "stopping" ELSE workers[w]
  <2>1. Killed(w) = [workers EXCEPT ![w] = k]
    BY DEF Killed
  <2>2. workers[w] \in WorkerStates
    BY <1>1, <1>2, ElementOfSeq
  <2>3. k \in {"stopping", "exited"}
    BY <1>2, <2>2 DEF Running, WorkerStates
  <2> HIDE DEF k
  <2>4. /\ Killed(w) \in Seq(WorkerStates) /\ Len(Killed(w)) = Len(workers)
        /\ \A j \in 1..Len(workers) : Killed(w)[j] = IF j = w THEN k ELSE workers[j]
    BY <1>1, <1>2, <2>1, <2>3, ExceptSeq DEF WorkerStates
  <2>5. DOMAIN Killed(w) = 1..Len(workers)
    BY <2>4, LenProperties
  <2> QED BY <1>1, <1>2, <2>3, <2>4, <2>5
<1>3. CASE w \notin Forks
  <2>1. Killed(w) = workers
    <3>1. \A v \in DOMAIN workers : Killed(w)[v] = workers[v]
      BY <1>3 DEF Killed
    <3> QED BY <1>1, <1>3, <3>1, LenProperties DEF Killed
  <2> QED BY <1>1, <1>3, <2>1
<1> QED BY <1>2, <1>3

LEMMA KilledRuns ==
    ASSUME workers \in Seq(WorkerStates), NEW w, workers' = Killed(w)
    PROVE  /\ Forks' = Forks /\ Len(workers') = Len(workers)
           /\ \A v : v \in Running' => v \in Running /\ v # w
<1>1. Forks' = Forks /\ Len(workers') = Len(workers)
  BY KilledFacts DEF Forks
<1>2. ASSUME NEW v, v \in Running' PROVE v \in Running /\ v # w
  <2>1. v \in Forks /\ Killed(w)[v] \in {"starting", "online"}
    BY <1>1, <1>2 DEF Running
  <2>2. v # w
    BY <2>1, KilledFacts
  <2>3. workers[v] \in {"starting", "online"}
    BY <2>1, <2>2, KilledFacts
  <2> QED BY <2>1, <2>2, <2>3 DEF Running
<1> QED BY <1>1, <1>2

(* What a worker becomes when it exits or comes up.                        *)
LEMMA BecomesFacts ==
    ASSUME workers \in Seq(WorkerStates), NEW w \in Forks, NEW k \in WorkerStates
    PROVE  /\ [workers EXCEPT ![w] = k] \in Seq(WorkerStates)
           /\ DOMAIN [workers EXCEPT ![w] = k] = Forks
           /\ Len([workers EXCEPT ![w] = k]) = Len(workers)
           /\ \A v \in Forks : [workers EXCEPT ![w] = k][v] = IF v = w THEN k ELSE workers[v]
<1>1. Forks = 1..Len(workers)
  BY LenProperties DEF Forks
<1>2. /\ [workers EXCEPT ![w] = k] \in Seq(WorkerStates)
      /\ Len([workers EXCEPT ![w] = k]) = Len(workers)
      /\ \A v \in 1..Len(workers) : [workers EXCEPT ![w] = k][v] = IF v = w THEN k ELSE workers[v]
  BY <1>1, ExceptSeq
<1>3. DOMAIN [workers EXCEPT ![w] = k] = 1..Len(workers)
  BY <1>2, LenProperties
<1> QED BY <1>1, <1>2, <1>3

(* A new worker has the next number.                                       *)
LEMMA ForkFacts ==
    ASSUME workers \in Seq(WorkerStates)
    PROVE  /\ Append(workers, "starting") \in Seq(WorkerStates)
           /\ DOMAIN Append(workers, "starting") = Forks \cup {Len(workers) + 1}
           /\ \A v \in Forks : Append(workers, "starting")[v] = workers[v]
           /\ Append(workers, "starting")[Len(workers) + 1] = "starting"
           /\ Len(workers) + 1 \notin Forks
<1>1. Forks = 1..Len(workers) /\ Len(workers) \in Nat
  BY LenProperties DEF Forks
<1>2. "starting" \in WorkerStates
  BY DEF WorkerStates
<1>3. /\ Append(workers, "starting") \in Seq(WorkerStates)
      /\ Len(Append(workers, "starting")) = Len(workers) + 1
      /\ \A i \in 1..Len(workers) : Append(workers, "starting")[i] = workers[i]
      /\ Append(workers, "starting")[Len(workers) + 1] = "starting"
  BY <1>2, AppendProperties
<1>4. DOMAIN Append(workers, "starting") = 1..(Len(workers) + 1)
  BY <1>3, LenProperties
<1>5. 1..(Len(workers) + 1) = 1..Len(workers) \cup {Len(workers) + 1}
  BY <1>1
<1>6. Len(workers) + 1 \notin 1..Len(workers)
  BY <1>1
<1> QED BY <1>1, <1>3, <1>4, <1>5, <1>6

LEMMA ClusterTypeStep == ClusterTyped /\ [ClusterNext]_clusterVars => ClusterTyped'
<1> SUFFICES ASSUME ClusterTyped, [ClusterNext]_clusterVars PROVE ClusterTyped'
  OBVIOUS
<1> USE DEF ClusterTyped, counts, lists
<1>1. CASE startWorker
  <2>1. Len(workers) + 1 \in Nat
    BY LenProperties
  <2>2. workerList' \in Seq(Nat)
    BY <1>1, <2>1, AppendProperties DEF startWorker
  <2> QED BY <1>1, <2>2, ForkFacts DEF startWorker
<1>2. CASE stopWorker
  <2>1. /\ stops' \in Nat /\ workerList' = workerList /\ starts' = starts
        /\ crashes' = crashes /\ forksBefore' = forksBefore /\ asked' = asked
    BY <1>2 DEF stopWorker
  <2>2. CASE reloadList # <<>>
    <3>1. workers' = Killed(Last(reloadList)) /\ reloadList' = Front(reloadList)
          /\ reloading' = reloading
      BY <1>2, <2>2 DEF stopWorker
    <3> QED BY <2>1, <2>2, <3>1, KilledFacts, PopFacts
  <2>3. CASE reloadList = <<>>
    <3>1. workers' = workers /\ reloadList' = reloadList /\ reloading' = FALSE
      BY <1>2, <2>3 DEF stopWorker
    <3> QED BY <2>1, <3>1
  <2> QED BY <2>2, <2>3
<1>3. ASSUME NEW w \in Forks, Exit(w) PROVE ClusterTyped'
  <2>1. workers' \in Seq(WorkerStates)
    BY <1>3, BecomesFacts DEF Exit, WorkerStates
  <2> QED BY <1>3, <2>1 DEF Exit, handleReloadStart
<1>4. ASSUME NEW w \in Forks, Online(w) PROVE ClusterTyped'
  <2>1. workers' \in Seq(WorkerStates)
    BY <1>4, BecomesFacts DEF Online, WorkerStates
  <2> QED BY <1>4, <2>1 DEF Online, handleReloadStop
<1>5. ASSUME NEW w \in Forks, Crash(w) PROVE ClusterTyped'
  <2>1. workers' \in Seq(WorkerStates)
    BY <1>5, BecomesFacts DEF Crash, WorkerStates
  <2> QED BY <1>5, <2>1 DEF Crash, handleReloadStart
<1>6. CASE Tick
  BY <1>6 DEF Tick, handleReloadStart
<1>7. CASE reload
  <2>1. Len(workers) \in Nat
    BY LenProperties
  <2>2. workers' \in Seq(WorkerStates)
    BY <1>7, KilledFacts DEF reload
  <2>3. reloadList' \in Seq(Nat)
    BY <1>7, PopFacts DEF reload
  <2>4. workerList' \in Seq(Nat)
    BY <1>7 DEF reload
  <2>5. asked' \in {"never", "early", "ready"}
    BY <1>7 DEF reload, Noted
  <2> QED BY <1>7, <2>1, <2>2, <2>3, <2>4, <2>5 DEF reload
<1>8. CASE UNCHANGED clusterVars
  BY <1>8 DEF clusterVars
<1> QED BY <1>1, <1>2, <1>3, <1>4, <1>5, <1>6, <1>7, <1>8 DEF ClusterNext, SomeWorkerMoves

(* While workers are replaced, every one that runs is on a list: on the    *)
(* list to be stopped, if it ran when the reload was requested.            *)
ReloadInv ==
    /\ ~reloading => reloadList = <<>>
    /\ \A w \in Forks : w \in Running => w \in ToSet(workerList) \cup ToSet(reloadList)
    /\ reloading => \A w \in 1..forksBefore : w \in Running => w \in ToSet(reloadList)
    /\ forksBefore <= Len(workers)

LEMMA ListedFrame ==
    ASSUME ClusterTyped, ClusterTyped', ReloadInv,
           workerList' = workerList, reloadList' = reloadList, reloading' = reloading,
           forksBefore' = forksBefore, Len(workers') = Len(workers), Forks' = Forks,
           \A w \in Forks : w \in Running' => w \in Running
    PROVE  ReloadInv'
<1>1. \A w : w \in Running' => w \in Forks
  BY DEF Running
<1> QED BY <1>1 DEF ReloadInv

LEMMA ReloadStep ==
    ClusterTyped /\ ClusterTyped' /\ ReloadInv /\ [ClusterNext]_clusterVars => ReloadInv'
<1> SUFFICES ASSUME ClusterTyped, ClusterTyped', ReloadInv, [ClusterNext]_clusterVars
             PROVE  ReloadInv'
  OBVIOUS
<1>0. /\ workers \in Seq(WorkerStates) /\ workerList \in Seq(Nat) /\ reloadList \in Seq(Nat)
      /\ Len(workers) \in Nat /\ Forks = 1..Len(workers) /\ forksBefore \in Nat
  BY LenProperties DEF ClusterTyped, Forks
<1>1. CASE startWorker
  <2>1. /\ workers' = Append(workers, "starting")
        /\ workerList' = Append(workerList, Len(workers) + 1)
        /\ reloadList' = reloadList /\ reloading' = reloading /\ forksBefore' = forksBefore
    BY <1>1 DEF startWorker, counts
  <2>2. ToSet(workerList') = ToSet(workerList) \cup {Len(workers) + 1}
    BY <1>0, <2>1, PushFacts
  <2>3. Forks' = Forks \cup {Len(workers) + 1} /\ \A v \in Forks : workers'[v] = workers[v]
    BY <1>0, <2>1, ForkFacts DEF Forks
  <2>4. \A w \in Running' : w \in Running \/ w = Len(workers) + 1
    BY <2>3 DEF Running
  <2>5. Running' \subseteq Forks'
    BY DEF Running
  <2>6. Len(workers') = Len(workers) + 1
    BY <1>0, <2>1, AppendProperties DEF WorkerStates
  <2>7. \A w \in 1..forksBefore : w # Len(workers) + 1
    BY <1>0 DEF ReloadInv
  <2>8. \A w \in Running' : w \in ToSet(workerList') \cup ToSet(reloadList')
    BY <2>1, <2>2, <2>4 DEF ReloadInv, Running
  <2>9. reloading' => \A w \in 1..forksBefore' : w \in Running' => w \in ToSet(reloadList')
    BY <2>1, <2>4, <2>7 DEF ReloadInv
  <2> QED BY <1>0, <2>1, <2>6, <2>8, <2>9 DEF ReloadInv
<1>2. CASE stopWorker
  <2>1. workerList' = workerList /\ forksBefore' = forksBefore
    BY <1>2 DEF stopWorker, counts
  <2>2. CASE reloadList # <<>>
    <3> DEFINE k == Last(reloadList)
    <3>1. workers' = Killed(k) /\ reloadList' = Front(reloadList) /\ reloading' = reloading
      BY <1>2, <2>2 DEF stopWorker
    <3>2. ToSet(reloadList) = ToSet(reloadList') \cup {k}
      BY <1>0, <2>2, <3>1, PopFacts
    <3>3. Len(workers') = Len(workers)
      BY <1>0, <3>1, KilledRuns
    <3>4. \A w \in Running' : w \in Running /\ w # k
      BY <1>0, <3>1, KilledRuns
    <3> HIDE DEF k
    <3>5. reloading
      BY <2>2 DEF ReloadInv
    <3>6. \A w \in Running' : w \in ToSet(workerList') \cup ToSet(reloadList')
      BY <2>1, <3>2, <3>4 DEF ReloadInv, Running
    <3>7. \A w \in 1..forksBefore' : w \in Running' => w \in ToSet(reloadList')
      BY <2>1, <3>2, <3>4, <3>5 DEF ReloadInv
    <3> QED BY <2>1, <3>1, <3>3, <3>5, <3>6, <3>7 DEF ReloadInv
  <2>3. CASE reloadList = <<>>
    <3>1. workers' = workers /\ reloadList' = reloadList /\ reloading' = FALSE
      BY <1>2, <2>3 DEF stopWorker
    <3> QED BY <2>1, <2>3, <3>1 DEF ReloadInv, Running, Forks
  <2> QED BY <2>2, <2>3
<1>3. ASSUME NEW w \in Forks, Exit(w) \/ Online(w) \/ Crash(w) PROVE ReloadInv'
  <2>1. PICK k \in {"online", "exited"} :
            workers' = [workers EXCEPT ![w] = k] /\ (k = "online" => w \in Running)
    BY <1>3 DEF Exit, Online, Crash, Running
  <2>2. Forks' = Forks /\ Len(workers') = Len(workers)
        /\ \A v \in Forks : workers'[v] = IF v = w THEN k ELSE workers[v]
    BY <1>0, <2>1, BecomesFacts DEF Forks, WorkerStates
  <2>3. \A v \in Forks : v \in Running' => v \in Running
    BY <2>1, <2>2 DEF Running
  <2>4. /\ workerList' = workerList /\ reloadList' = reloadList /\ reloading' = reloading
        /\ forksBefore' = forksBefore
    BY <1>3 DEF Exit, Online, Crash, lists, counts
  <2> QED BY <2>2, <2>3, <2>4, ListedFrame
<1>4. CASE Tick
  BY <1>4, ListedFrame DEF Tick, lists, Running, Forks
<1>5. CASE reload
  <2> DEFINE k == Last(workerList)
  <2>1. /\ ~reloading /\ workerList # <<>> /\ reloading' = TRUE
        /\ reloadList' = Front(workerList) /\ workers' = Killed(k)
        /\ forksBefore' = Len(workers)
    BY <1>5 DEF reload
  <2>2. ToSet(workerList) = ToSet(reloadList') \cup {k} /\ reloadList = <<>>
    BY <1>0, <2>1, PopFacts DEF ReloadInv
  <2>3. Len(workers') = Len(workers)
    BY <1>0, <2>1, KilledRuns
  <2>4. \A w \in Running' : w \in Running /\ w # k
    BY <1>0, <2>1, KilledRuns
  <2> HIDE DEF k
  <2>5. ToSet(reloadList) = {}
    BY <2>2 DEF ToSet
  <2>6. \A w \in Running' : w \in ToSet(reloadList')
    BY <2>2, <2>4, <2>5 DEF ReloadInv, Running
  <2> QED BY <1>0, <2>1, <2>3, <2>6 DEF ReloadInv
<1>6. CASE UNCHANGED clusterVars
  BY <1>6 DEF clusterVars, ReloadInv, Running, Forks
<1> QED BY <1>1, <1>2, <1>3, <1>4, <1>5, <1>6 DEF ClusterNext, SomeWorkerMoves

LEMMA ReloadInitially == ClusterInit => ClusterTyped /\ ReloadInv
<1> SUFFICES ASSUME ClusterInit PROVE ClusterTyped /\ ReloadInv
  OBVIOUS
<1>1. numCores \in Nat
  BY ClusterAssumption
<1>2. workers \in Seq(WorkerStates) /\ workerList \in Seq(Nat)
  BY <1>1 DEF ClusterInit, WorkerStates
<1>3. Len(workers) \in Nat
  BY <1>2, LenProperties
<1>4. DOMAIN workers = 1..numCores /\ ToSet(workerList) = 1..numCores
  BY <1>1 DEF ClusterInit, ToSet
<1>5. ClusterTyped
  <2>1. /\ reloadList = <<>> /\ reloading = FALSE /\ starts = 0 /\ stops = 0
        /\ crashes = 0 /\ forksBefore = 0 /\ asked = "never"
    BY DEF ClusterInit
  <2>2. reloadList \in Seq(Nat)
    BY <2>1, EmptySeq
  <2> QED BY <1>2, <2>1, <2>2 DEF ClusterTyped
<1>6. \A w \in Forks : w \in ToSet(workerList)
  BY <1>4 DEF Forks
<1>7. 0 <= Len(workers)
  BY <1>3
<1>8. ~reloading /\ reloadList = <<>> /\ forksBefore <= Len(workers)
  BY <1>7 DEF ClusterInit
<1> QED BY <1>5, <1>6, <1>8 DEF ReloadInv

(* When a reload is over, no worker runs that ran when it was requested,   *)
(* whatever crashes and whatever the interval starts in between: for any   *)
(* number of cores.                                                        *)
THEOREM ReloadedAll == ClusterSpec => ReloadReplacesAll
<1>1. ReloadInv /\ ClusterTyped /\ [ClusterNext]_clusterVars =>
          [reloading /\ ~reloading' => \A w \in 1..forksBefore : w \notin Running']_clusterVars
  <2> SUFFICES ASSUME ReloadInv, ClusterTyped, [ClusterNext]_clusterVars,
                      reloading, ~reloading', NEW w \in 1..forksBefore
               PROVE  w \notin Running'
    BY DEF clusterVars
  <2>1. CASE stopWorker
    <3>1. reloadList = <<>> /\ workers' = workers
      BY <2>1 DEF stopWorker
    <3>2. ToSet(reloadList) = {}
      BY <3>1 DEF ToSet
    <3>3. w \notin Running
      BY <3>2 DEF ReloadInv
    <3> QED BY <3>1, <3>3 DEF Running, Forks
  <2>2. CASE ~stopWorker
    <3>1. reloading' = reloading \/ reloading'
      BY <2>2 DEF ClusterNext, SomeWorkerMoves, startWorker, Exit, Online, Crash, Tick, reload,
                  lists, clusterVars
    <3> QED BY <3>1
  <2> QED BY <2>1, <2>2
<1> QED BY <1>1, ReloadInitially, ReloadStep, ClusterTypeStep, PTL
        DEF ClusterSpec, ReloadReplacesAll

(* Before the first reload nothing is stopped.  If that one has waited for *)
(* all cores, those that have a worker are as many as there should be, but *)
(* for the one a reload is replacing, and a spare one for every timer that *)
(* will stop a worker.                                                     *)
RollInv ==
    /\ asked = "never" => ~reloading /\ stops = 0
    /\ crashes = 0 /\ asked = "ready" =>
           Cardinality(Up) >= stops + (IF reloading THEN numCores - 1 ELSE numCores)

LEMMA OnlineFinite ==
    ASSUME NEW f \in Seq(WorkerStates)
    PROVE  LET online == {w \in DOMAIN f : f[w] = "online"}
           IN  IsFiniteSet(online) /\ Cardinality(online) \in Nat
<1> DEFINE online == {w \in DOMAIN f : f[w] = "online"}
<1>1. DOMAIN f = 1..Len(f) /\ Len(f) \in Nat
  BY LenProperties
<1>2. IsFiniteSet(DOMAIN f)
  BY <1>1, FS_Interval
<1>3. online \subseteq DOMAIN f
  OBVIOUS
<1> HIDE DEF online
<1>4. IsFiniteSet(online)
  BY <1>2, <1>3, FS_Subset
<1>5. Cardinality(online) \in Nat
  BY <1>4, FS_CardinalityType
<1> QED BY <1>4, <1>5 DEF online

(* Killing one worker costs one core at most.                              *)
LEMMA KilledCounts ==
    ASSUME workers \in Seq(WorkerStates), workers' \in Seq(WorkerStates),
           NEW w, workers' = Killed(w)
    PROVE  Cardinality(Up') >= Cardinality(Up) - 1
<1>1. IsFiniteSet(Up) /\ IsFiniteSet(Up')
  BY OnlineFinite DEF Up, Forks
<1>2. Up \ {w} \subseteq Up'
  <2>1. ASSUME NEW v \in Forks, workers[v] = "online", v # w
        PROVE  v \in Forks' /\ workers'[v] = "online"
    BY <2>1, KilledFacts, KilledRuns
  <2> QED BY <2>1 DEF Up
<1>3. Cardinality(Up \ {w}) >= Cardinality(Up) - 1
  <2>1. Cardinality(Up) \in Nat
    BY <1>1, FS_CardinalityType
  <2>2. Cardinality(Up \ {w}) =
            IF w \in Up THEN Cardinality(Up) - 1 ELSE Cardinality(Up)
    BY <1>1, FS_RemoveElement
  <2> QED BY <2>1, <2>2
<1>4. IsFiniteSet(Up \ {w})
      /\ Cardinality(Up \ {w}) <= Cardinality(Up')
  BY <1>1, <1>2, FS_Subset
<1>5. /\ Cardinality(Up) \in Nat /\ Cardinality(Up') \in Nat
      /\ Cardinality(Up \ {w}) \in Nat
  BY <1>1, <1>4, FS_CardinalityType
<1> QED BY <1>3, <1>4, <1>5

LEMMA RollStep == ClusterTyped /\ ClusterTyped' /\ RollInv /\ [ClusterNext]_clusterVars => RollInv'
<1> SUFFICES ASSUME ClusterTyped, ClusterTyped', RollInv, [ClusterNext]_clusterVars
             PROVE  RollInv'
  OBVIOUS
<1>a. asked' = "never" => ~reloading' /\ stops' = 0
  <2> SUFFICES ASSUME asked' = "never" PROVE ~reloading' /\ stops' = 0
    OBVIOUS
  <2>1. ~reload
    BY DEF reload, Noted
  <2>2. asked' = asked
    BY <2>1 DEF ClusterNext, SomeWorkerMoves, startWorker, stopWorker, Exit, Online, Crash, Tick,
                counts, lists, clusterVars
  <2>3. ~reloading /\ stops = 0
    BY <2>2 DEF RollInv
  <2>4. ~stopWorker
    BY <2>3 DEF stopWorker
  <2> QED BY <2>1, <2>3, <2>4 DEF ClusterNext, SomeWorkerMoves, startWorker, Exit, Online, Crash,
             Tick, counts, lists, clusterVars, handleReloadStop
<1> SUFFICES ASSUME crashes' = 0, asked' = "ready"
             PROVE  Cardinality(Up') >=
                        stops' + (IF reloading' THEN numCores - 1 ELSE numCores)
  BY <1>a DEF RollInv
<1> DEFINE C == Cardinality(Up)
<1> DEFINE D == Cardinality(Up')
<1>0. /\ workers \in Seq(WorkerStates) /\ workers' \in Seq(WorkerStates)
      /\ Len(workers) \in Nat /\ Forks = 1..Len(workers)
      /\ IsFiniteSet(Up) /\ C \in Nat
      /\ IsFiniteSet(Up') /\ D \in Nat
  <2>1. workers \in Seq(WorkerStates) /\ workers' \in Seq(WorkerStates)
    BY DEF ClusterTyped
  <2>2. IsFiniteSet(Up') /\ D \in Nat /\ IsFiniteSet(Up) /\ C \in Nat
    BY <2>1, OnlineFinite DEF Up, Forks
  <2> QED BY <2>1, <2>2, LenProperties DEF Forks
<1>1. /\ numCores \in Nat /\ stops \in Nat /\ stops' \in Nat /\ crashes \in Nat
      /\ reloading \in BOOLEAN /\ reloading' \in BOOLEAN
  BY ClusterAssumption DEF ClusterTyped
<1>2. crashes = 0 /\ asked = "ready" =>
          C >= stops + (IF reloading THEN numCores - 1 ELSE numCores)
  BY DEF RollInv
<1> HIDE DEF C, D
<1>3. CASE startWorker
  <2>1. /\ workers' = Append(workers, "starting")
        /\ crashes' = crashes /\ stops' = stops /\ reloading' = reloading /\ asked' = asked
    BY <1>3 DEF startWorker, counts
  <2>2. Up' = Up
    BY <1>0, <2>1, ForkFacts DEF Up, Forks
  <2> QED BY <1>1, <1>2, <2>1, <2>2 DEF C
<1>4. CASE stopWorker
  <2>1. crashes' = crashes /\ stops > 0 /\ stops' = stops - 1 /\ asked' = asked
    BY <1>4 DEF stopWorker, counts
  <2>2. CASE reloadList # <<>>
    <3>1. workers' = Killed(Last(reloadList)) /\ reloading' = reloading
      BY <1>4, <2>2 DEF stopWorker
    <3>2. D >= C - 1
      BY <1>0, <3>1, KilledCounts DEF C, D
    <3> QED BY <1>0, <1>1, <1>2, <2>1, <3>1, <3>2 DEF D
  <2>3. CASE reloadList = <<>>
    <3>1. workers' = workers /\ reloading' = FALSE
      BY <1>4, <2>3 DEF stopWorker
    <3>2. Up' = Up
      BY <3>1 DEF Up, Forks
    <3> QED BY <1>0, <1>1, <1>2, <2>1, <3>1, <3>2 DEF C
  <2> QED BY <2>2, <2>3
<1>5. ASSUME NEW w \in Forks, Exit(w) \/ Online(w)
      PROVE  D >= stops' + (IF reloading' THEN numCores - 1 ELSE numCores)
  <2>1. CASE Exit(w)
    <3>1. /\ crashes' = crashes /\ stops' = stops /\ reloading' = reloading /\ asked' = asked
          /\ workers' = [workers EXCEPT ![w] = "exited"] /\ workers[w] = "stopping"
      BY <2>1 DEF Exit, counts, lists
    <3>2. Up' = Up
      BY <1>0, <3>1, BecomesFacts DEF Up, Forks, WorkerStates
    <3> QED BY <1>0, <1>1, <1>2, <3>1, <3>2 DEF C, D
  <2>2. CASE Online(w)
    <3>1. /\ crashes' = crashes /\ reloading' = reloading /\ asked' = asked
          /\ stops' = stops + (IF reloading THEN 1 ELSE 0)
          /\ workers' = [workers EXCEPT ![w] = "online"] /\ workers[w] = "starting"
      BY <2>2 DEF Online, counts, lists, handleReloadStop
    <3>2. Up' = Up \cup {w}
      BY <1>0, <3>1, BecomesFacts DEF Up, Forks, WorkerStates
    <3>3. D = C + 1
      BY <1>0, <3>1, <3>2, FS_AddElement DEF C, D, Up
    <3> QED BY <1>0, <1>1, <1>2, <3>1, <3>3
  <2> QED BY <1>5, <2>1, <2>2
<1>6. ASSUME NEW w \in Forks, Crash(w) PROVE FALSE
  BY <1>1, <1>6 DEF Crash
<1>7. CASE Tick
  <2>1. crashes' = crashes /\ stops' = stops /\ reloading' = reloading /\ workers' = workers
        /\ asked' = asked
    BY <1>7 DEF Tick, lists
  <2>2. Up' = Up
    BY <2>1 DEF Up, Forks
  <2> QED BY <1>0, <1>1, <1>2, <2>1, <2>2 DEF C, D
<1>8. CASE reload
  <2>1. /\ crashes' = crashes /\ stops' = stops /\ ~reloading /\ reloading' = TRUE
        /\ workers' = Killed(Last(workerList))
    BY <1>8 DEF reload
  <2>2. D >= C - 1
    BY <1>0, <2>1, KilledCounts DEF C, D
  <2>3. CASE asked = "never"
    <3>1. C >= numCores /\ stops = 0
      BY <1>0, <1>1, <1>8, <2>3 DEF reload, Noted, RollInv, C
    <3> QED BY <1>0, <1>1, <2>1, <2>2, <3>1 DEF D
  <2>4. CASE asked # "never"
    <3>1. asked = "ready"
      BY <1>8, <2>4 DEF reload, Noted
    <3> QED BY <1>0, <1>1, <1>2, <2>1, <2>2, <3>1 DEF D
  <2> QED BY <2>3, <2>4
<1>9. CASE UNCHANGED clusterVars
  <2>1. crashes' = crashes /\ stops' = stops /\ reloading' = reloading /\ workers' = workers
        /\ asked' = asked
    BY <1>9 DEF clusterVars
  <2>2. Up' = Up
    BY <2>1 DEF Up, Forks
  <2> QED BY <1>0, <1>1, <1>2, <2>1, <2>2 DEF C, D
<1> QED BY <1>3, <1>4, <1>5, <1>6, <1>7, <1>8, <1>9 DEF ClusterNext, SomeWorkerMoves, D

(* The restart is a rolling one: for any number of cores, at most one core *)
(* has no worker that is up, however the timers fire, once a first reload  *)
(* has been requested with all cores up, and as long as no worker crashes  *)
(* by itself.                                                              *)
THEOREM RestartIsRolling == ClusterSpec => []RollsOneByOne
<1>1. ClusterInit => RollInv
  <2> SUFFICES ASSUME ClusterInit PROVE RollInv
    OBVIOUS
  <2> QED BY DEF RollInv, ClusterInit
<1>2. ClusterTyped /\ RollInv => RollsOneByOne
  <2> SUFFICES ASSUME ClusterTyped, RollInv, crashes = 0, asked = "ready"
               PROVE  Cardinality(Up) >= numCores - 1
    BY DEF RollsOneByOne
  <2>1. Cardinality(Up) \in Nat
    BY OnlineFinite DEF ClusterTyped, Up, Forks
  <2> QED BY <2>1, ClusterAssumption DEF RollInv, ClusterTyped
<1> QED BY <1>1, <1>2, ReloadInitially, ClusterTypeStep, RollStep, PTL DEF ClusterSpec

(* Workers on the list that may be asked to stop next run, unless some     *)
(* worker crashed: what has been stopped was on the other list.            *)
PlacedInv ==
    /\ ToSet(workerList) \cup ToSet(reloadList) \subseteq Forks
    /\ ToSet(workerList) \cap ToSet(reloadList) = {}
    /\ crashes = 0 => ToSet(workerList) \subseteq Running

LEMMA PlacedStep ==
    ClusterTyped /\ ClusterTyped' /\ ReloadInv /\ PlacedInv /\ [ClusterNext]_clusterVars
        => PlacedInv'
<1> SUFFICES ASSUME ClusterTyped, ClusterTyped', ReloadInv, PlacedInv, [ClusterNext]_clusterVars
             PROVE  PlacedInv'
  OBVIOUS
<1>0. /\ workers \in Seq(WorkerStates) /\ workerList \in Seq(Nat) /\ reloadList \in Seq(Nat)
      /\ Len(workers) \in Nat /\ Forks = 1..Len(workers) /\ crashes \in Nat
  BY LenProperties DEF ClusterTyped, Forks
<1>1. CASE startWorker
  <2>1. /\ workers' = Append(workers, "starting")
        /\ workerList' = Append(workerList, Len(workers) + 1)
        /\ reloadList' = reloadList /\ crashes' = crashes
    BY <1>1 DEF startWorker, counts
  <2>2. ToSet(workerList') = ToSet(workerList) \cup {Len(workers) + 1}
    BY <1>0, <2>1, PushFacts
  <2>3. /\ Forks' = Forks \cup {Len(workers) + 1} /\ Len(workers) + 1 \notin Forks
        /\ \A v \in Forks : workers'[v] = workers[v]
        /\ workers'[Len(workers) + 1] = "starting"
    BY <1>0, <2>1, ForkFacts DEF Forks
  <2>4. Running' = Running \cup {Len(workers) + 1}
    BY <2>3 DEF Running
  <2> QED BY <2>1, <2>2, <2>3, <2>4 DEF PlacedInv
<1>2. CASE stopWorker
  <2>1. workerList' = workerList /\ crashes' = crashes
    BY <1>2 DEF stopWorker, counts
  <2>2. CASE reloadList # <<>>
    <3> DEFINE k == Last(reloadList)
    <3>1. workers' = Killed(k) /\ reloadList' = Front(reloadList)
      BY <1>2, <2>2 DEF stopWorker
    <3>2. ToSet(reloadList) = ToSet(reloadList') \cup {k}
      BY <1>0, <2>2, <3>1, PopFacts
    <3>3. Forks' = Forks /\ \A v \in Running : v # k => v \in Running'
      <4>1. Forks' = Forks
        BY <1>0, <3>1, KilledRuns
      <4>2. \A v \in Forks : v # k => workers'[v] = workers[v]
        BY <1>0, <3>1, KilledFacts
      <4> QED BY <4>1, <4>2 DEF Running
    <3> HIDE DEF k
    <3> QED BY <2>1, <3>2, <3>3 DEF PlacedInv
  <2>3. CASE reloadList = <<>>
    <3>1. workers' = workers /\ reloadList' = reloadList
      BY <1>2, <2>3 DEF stopWorker
    <3> QED BY <2>1, <3>1 DEF PlacedInv, Running, Forks
  <2> QED BY <2>2, <2>3
<1>3. ASSUME NEW w \in Forks, Exit(w) \/ Online(w) \/ Crash(w) PROVE PlacedInv'
  <2>1. PICK k \in {"online", "exited"} :
            /\ workers' = [workers EXCEPT ![w] = k]
            /\ crashes' = 0 => (k = "online" \/ w \notin Running)
    BY <1>0, <1>3 DEF Exit, Online, Crash, Running, counts
  <2>2. Forks' = Forks /\ \A v \in Forks : workers'[v] = IF v = w THEN k ELSE workers[v]
    BY <1>0, <2>1, BecomesFacts DEF Forks, WorkerStates
  <2>3. crashes' = 0 => crashes = 0 /\ Running \subseteq Running'
    <3>1. crashes' = 0 => crashes = 0
      BY <1>0, <1>3 DEF Exit, Online, Crash, counts
    <3> QED BY <2>1, <2>2, <3>1 DEF Running
  <2>4. workerList' = workerList /\ reloadList' = reloadList
    BY <1>3 DEF Exit, Online, Crash, lists
  <2> QED BY <2>2, <2>3, <2>4 DEF PlacedInv
<1>4. CASE Tick \/ UNCHANGED clusterVars
  BY <1>4 DEF Tick, clusterVars, lists, PlacedInv, Running, Forks
<1>5. CASE reload
  <2>1. /\ ~reloading /\ workerList # <<>> /\ workerList' = <<>>
        /\ reloadList' = Front(workerList) /\ workers' = Killed(Last(workerList))
    BY <1>5 DEF reload
  <2>2. ToSet(reloadList') \subseteq ToSet(workerList) /\ ToSet(workerList') = {}
    <3>1. ToSet(workerList) = ToSet(reloadList') \cup {Last(workerList)}
      BY <1>0, <2>1, PopFacts
    <3>2. ToSet(workerList') = {}
      BY <2>1 DEF ToSet
    <3> QED BY <3>1, <3>2
  <2>3. Forks' = Forks
    BY <1>0, <2>1, KilledRuns
  <2> QED BY <2>2, <2>3 DEF PlacedInv
<1> QED BY <1>1, <1>2, <1>3, <1>4, <1>5 DEF ClusterNext, SomeWorkerMoves

LEMMA PlacedInitially == ClusterInit => PlacedInv /\ RollInv
<1> SUFFICES ASSUME ClusterInit PROVE PlacedInv /\ RollInv
  OBVIOUS
<1>1. numCores \in Nat /\ ToSet(workerList) = 1..numCores /\ ToSet(reloadList) = {}
  BY ClusterAssumption DEF ClusterInit, ToSet
<1>2. Forks = 1..numCores /\ Running = Forks
  BY DEF ClusterInit, Forks, Running
<1>3. stops = 0 /\ ~reloading /\ asked = "never"
  BY DEF ClusterInit
<1> QED BY <1>1, <1>2, <1>3 DEF PlacedInv, RollInv

LEMMA KilledSets ==
    ASSUME workers \in Seq(WorkerStates), NEW w, workers' = Killed(w)
    PROVE  Running' = Running \ {w} /\ Up' = Up \ {w}
<1>1. Forks' = Forks
  BY KilledRuns
<1>2. \A v \in Forks : v # w => workers'[v] = workers[v]
  BY KilledFacts
<1>3. w \in Forks => workers'[w] \in {"stopping", "exited"}
  BY KilledFacts
<1> QED BY <1>1, <1>2, <1>3 DEF Running, Up

(* Each step of the cluster is one of the abstract restart, or none.       *)
LEMMA RestartStep ==
    ClusterTyped /\ ClusterTyped' /\ ReloadInv /\ RollInv /\ PlacedInv
        /\ [ClusterNext]_clusterVars => [Restart!Next]_(Restart!vars)
<1> SUFFICES ASSUME ClusterTyped, ClusterTyped', ReloadInv, RollInv, PlacedInv,
                    [ClusterNext]_clusterVars
             PROVE  [Restart!Next]_(Restart!vars)
  OBVIOUS
<1> DEFINE old == Running \cap ToSet(reloadList)
           died == crashes > 0
           mayStop == died \/ asked' = "early" \/ Cardinality(Up) >= numCores
           Unmoved == /\ Len(workers') = Len(workers) /\ Running' = Running
                      /\ Up' = Up /\ old' = old
                      /\ reloading' = reloading /\ died' = died /\ asked' = asked
<1>0. /\ workers \in Seq(WorkerStates) /\ workerList \in Seq(Nat) /\ reloadList \in Seq(Nat)
      /\ Len(workers) \in Nat /\ Forks = 1..Len(workers) /\ crashes \in Nat /\ stops \in Nat
      /\ numCores \in Nat /\ Cardinality(Up) \in Nat
  <2>1. Cardinality(Up) \in Nat
    BY OnlineFinite DEF ClusterTyped, Up, Forks
  <2> QED BY <2>1, LenProperties, ClusterAssumption DEF ClusterTyped, Forks
<1>1. Running \subseteq Forks /\ Up \subseteq Running
  BY DEF Running, Up
<1>a. ASSUME NEW S PROVE Restart!Cardinality(S) = Cardinality(S)
  BY DEF Restart!Cardinality, Cardinality, Restart!IsFiniteSet, IsFiniteSet
<1>2. ASSUME Unmoved PROVE UNCHANGED Restart!vars
  BY <1>2 DEF Restart!vars, Up
<1>3. ASSUME NEW w \in Running, mayStop, workers' = Killed(w), crashes' = crashes
      PROVE  Restart!Stop(w)
  <2>1. Len(workers') = Len(workers)
    BY <1>0, <1>3, KilledRuns
  <2>2. Running' = Running \ {w} /\ Up' = Up \ {w}
    BY <1>0, <1>3, KilledSets
  <2>3. crashes > 0 \/ asked' = "early" \/ Cardinality(Up) >= numCores
    BY <1>3
  <2>4. (crashes > 0)' = (crashes > 0)
    BY <1>3
  <2> HIDE DEF mayStop
  <2> QED BY <1>3, <1>a, <2>1, <2>2, <2>3, <2>4 DEF Restart!Stop
<1>4. CASE startWorker
  <2>1. /\ workers' = Append(workers, "starting")
        /\ reloadList' = reloadList /\ reloading' = reloading /\ crashes' = crashes
        /\ asked' = asked
    BY <1>4 DEF startWorker, counts
  <2>2. /\ Forks' = Forks \cup {Len(workers) + 1} /\ Len(workers) + 1 \notin Forks
        /\ \A v \in Forks : workers'[v] = workers[v]
        /\ workers'[Len(workers) + 1] = "starting"
    BY <1>0, <2>1, ForkFacts DEF Forks
  <2>3. Len(workers') = Len(workers) + 1
    BY <1>0, <2>1, AppendProperties DEF WorkerStates
  <2>4. Running' = Running \cup {Len(workers')} /\ Up' = Up
    BY <2>2, <2>3 DEF Running, Up
  <2>5. old' = old
    BY <2>1, <2>2, <2>3, <2>4 DEF PlacedInv
  <2>6. Restart!Launch
    BY <2>1, <2>3, <2>4, <2>5 DEF Restart!Launch, Up
  <2> QED BY <2>6 DEF Restart!Next
<1>5. CASE stopWorker
  <2>1. stops > 0 /\ crashes' = crashes /\ asked' = asked
    BY <1>5 DEF stopWorker, counts
  <2>2. CASE reloadList # <<>>
    <3>1. PICK k : k = Last(reloadList)
      OBVIOUS
    <3>2. workers' = Killed(k) /\ reloadList' = Front(reloadList) /\ reloading' = reloading
      BY <1>5, <2>2, <3>1 DEF stopWorker
    <3>3. ToSet(reloadList) = ToSet(reloadList') \cup {k}
      BY <1>0, <2>2, <3>1, <3>2, PopFacts
    <3>4. reloading
      BY <2>2 DEF ReloadInv
    <3>5. Running' = Running \ {k} /\ Up' = Up \ {k}
          /\ Len(workers') = Len(workers)
      BY <1>0, <3>2, KilledSets, KilledRuns
    <3>6. old' = old \ {k}
      BY <3>3, <3>5
    <3>7. CASE k \in Running
      <4>1. mayStop
        BY <1>0, <2>1, <3>4 DEF RollInv, ClusterTyped
      <4>2. Restart!Stop(k)
        BY <1>3, <2>1, <3>2, <3>7, <4>1
      <4>3. Restart!Replace(k)
        BY <2>1, <3>2, <3>3, <3>4, <3>6, <3>7, <4>2 DEF Restart!Replace
      <4> QED BY <3>7, <4>3 DEF Restart!Next
    <3>8. CASE k \notin Running
      <4>1. Unmoved
        BY <1>1, <2>1, <3>2, <3>5, <3>6, <3>8
      <4> QED BY <1>2, <4>1
    <3> QED BY <3>7, <3>8
  <2>3. CASE reloadList = <<>>
    <3>1. workers' = workers /\ reloadList' = reloadList /\ reloading' = FALSE
      BY <1>5, <2>3 DEF stopWorker
    <3>2. Running' = Running /\ Up' = Up /\ old' = old /\ old = {}
      BY <2>3, <3>1 DEF Running, Up, Forks, ToSet
    <3>3. CASE reloading
      <4>1. Restart!End
        BY <2>1, <3>1, <3>2, <3>3 DEF Restart!End, Up
      <4> QED BY <4>1 DEF Restart!Next
    <3>4. CASE ~reloading
      <4>1. reloading = FALSE
        BY <3>4 DEF ClusterTyped
      <4>2. Unmoved
        BY <2>1, <3>1, <3>2, <4>1
      <4> QED BY <1>2, <4>2
    <3> QED BY <3>3, <3>4
  <2> QED BY <2>2, <2>3
<1>6. ASSUME NEW w \in Forks, Exit(w) \/ Online(w) \/ Crash(w)
      PROVE  [Restart!Next]_(Restart!vars)
  <2>1. PICK k \in {"online", "exited"} :
            /\ workers' = [workers EXCEPT ![w] = k]
            /\ \/ k = "exited" /\ w \notin Running /\ crashes' = crashes
               \/ k = "online" /\ w \in Running /\ crashes' = crashes
               \/ k = "exited" /\ w \in Running /\ crashes' = crashes + 1
    BY <1>6 DEF Exit, Online, Crash, Running, counts
  <2>2. /\ Forks' = Forks /\ Len(workers') = Len(workers)
        /\ \A v \in Forks : workers'[v] = IF v = w THEN k ELSE workers[v]
    BY <1>0, <2>1, BecomesFacts DEF Forks, WorkerStates
  <2>3. reloadList' = reloadList /\ reloading' = reloading /\ asked' = asked
    BY <1>6 DEF Exit, Online, Crash, lists, counts
  <2>4. CASE k = "exited" /\ w \notin Running
    <3>1. Running' = Running /\ Up' = Up
      BY <1>1, <2>2, <2>4 DEF Running, Up
    <3>2. crashes' = crashes
      BY <2>1, <2>4
    <3>3. Unmoved
      BY <2>2, <2>3, <3>1, <3>2
    <3> QED BY <1>2, <3>3
  <2>5. CASE k = "online"
    <3>1. Running' = Running /\ Up' = Up \cup {w} /\ w \in Running
      BY <2>1, <2>2, <2>5 DEF Running, Up
    <3>2. crashes' = crashes
      BY <2>1, <2>5
    <3>3. Restart!ComeUp(w)
      BY <2>2, <2>3, <3>1, <3>2 DEF Restart!ComeUp, Up
    <3> QED BY <3>1, <3>3 DEF Restart!Next
  <2>6. CASE k = "exited" /\ w \in Running
    <3>1. Running' = Running \ {w} /\ Up' = Up \ {w}
      BY <2>2, <2>6 DEF Running, Up
    <3>2. died'
      BY <1>0, <2>1, <2>6
    <3>3. old' = old \ {w}
      BY <2>3, <3>1
    <3>4. Restart!Die(w)
      BY <2>2, <2>3, <2>6, <3>1, <3>2, <3>3 DEF Restart!Die, Up
    <3> QED BY <2>6, <3>4 DEF Restart!Next
  <2> QED BY <2>1, <2>4, <2>5, <2>6
<1>7. CASE Tick \/ UNCHANGED clusterVars
  <2>1. workers' = workers /\ reloadList' = reloadList /\ reloading' = reloading
        /\ crashes' = crashes /\ asked' = asked
    BY <1>7 DEF Tick, clusterVars, lists
  <2>2. Unmoved
    BY <2>1 DEF Running, Up, Forks
  <2> QED BY <1>2, <2>2
<1>8. CASE reload
  <2>1. PICK k : k = Last(workerList)
    OBVIOUS
  <2>2. /\ ~reloading /\ workerList # <<>> /\ reloading' = TRUE
        /\ reloadList' = Front(workerList) /\ workers' = Killed(k) /\ crashes' = crashes
    BY <1>8, <2>1 DEF reload
  <2>3. ToSet(workerList) = ToSet(reloadList') \cup {k}
    BY <1>0, <2>1, <2>2, PopFacts
  <2>4. Running' = Running \ {k} /\ Up' = Up \ {k}
        /\ Len(workers') = Len(workers)
    BY <1>0, <2>2, KilledSets, KilledRuns
  <2>5. ToSet(reloadList) = {}
    BY <2>2 DEF ReloadInv, ToSet
  <2>6. Running \subseteq ToSet(workerList)
    BY <1>1, <2>5 DEF ReloadInv
  <2>7. old' = Running'
    BY <2>3, <2>4, <2>6
  <2>a. asked' = IF asked # "never" THEN asked
                 ELSE IF Restart!Cardinality(Up) < numCores THEN "early" ELSE "ready"
    BY <1>8, <1>a DEF reload, Noted
  <2>8. CASE k \in Running
    <3>1. mayStop
      BY <1>0, <1>a, <2>2, <2>a DEF RollInv, ClusterTyped
    <3>2. Restart!Stop(k)
      BY <1>3, <2>2, <2>8, <3>1
    <3>3. Restart!Begin
      BY <2>2, <2>7, <2>8, <2>a, <3>2 DEF Restart!Begin
    <3> QED BY <3>3 DEF Restart!Next
  <2>9. CASE k \notin Running
    <3>1. died
      BY <1>0, <2>3, <2>9 DEF PlacedInv
    <3>2. Running' = Running /\ Up' = Up
      BY <1>1, <2>4, <2>9
    <3>3. Restart!Begin
      BY <2>2, <2>4, <2>7, <2>a, <3>1, <3>2 DEF Restart!Begin
    <3> QED BY <3>3 DEF Restart!Next
  <2> QED BY <2>8, <2>9
<1> QED BY <1>4, <1>5, <1>6, <1>7, <1>8 DEF ClusterNext, SomeWorkerMoves

(* The lists, timers and callbacks of the master implement the abstract    *)
(* rolling restart, for any number of cores, reloads and crashes.          *)
THEOREM RollingRestartKept == ClusterSpec => RollsAsPromised
<1>1. ClusterInit => Restart!Init
  <2> SUFFICES ASSUME ClusterInit PROVE Restart!Init
    OBVIOUS
  <2>1. numCores \in Nat
    BY ClusterAssumption
  <2>2. workers \in Seq(WorkerStates) /\ DOMAIN workers = 1..numCores
    BY <2>1 DEF ClusterInit, WorkerStates
  <2>3. Len(workers) = numCores
    BY <2>1, <2>2, LenProperties
  <2>4. Running = 1..numCores /\ Up = {}
    BY <2>2 DEF Running, Up, Forks, ClusterInit
  <2>5. ToSet(reloadList) = {} /\ reloading = FALSE /\ ~(crashes > 0) /\ asked = "never"
    BY DEF ClusterInit, ToSet
  <2> QED BY <2>3, <2>4, <2>5 DEF Restart!Init
<1> QED BY <1>1, ReloadInitially, PlacedInitially, ClusterTypeStep, ReloadStep, RollStep,
           PlacedStep, RestartStep, PTL DEF ClusterSpec, RollsAsPromised, Restart!Spec

-----------------------------------------------------------------------------
(* DistributedCache                                                        *)

(* The last entry stays the last when entries are added behind or taken    *)
(* from the front.                                                         *)
LEMMA LastFacts ==
    ASSUME NEW S, NEW s \in Seq(S)
    PROVE  /\ \A e \in S : Last(Append(s, e)) = e /\ Append(s, e) # <<>>
           /\ s # <<>> /\ Tail(s) = <<>> => Last(s) = Head(s)
           /\ s # <<>> /\ Tail(s) # <<>> => Last(Tail(s)) = Last(s)
<1>1. ASSUME NEW e \in S PROVE Last(Append(s, e)) = e /\ Append(s, e) # <<>>
  BY AppendProperties DEF Last
<1>2. ASSUME s # <<>> PROVE /\ Tail(s) = <<>> => Last(s) = Head(s)
                            /\ Tail(s) # <<>> => Last(Tail(s)) = Last(s)
  <2>1. /\ Len(s) \in Nat \ {0} /\ Tail(s) \in Seq(S) /\ Len(Tail(s)) = Len(s) - 1
        /\ \A i \in 1..(Len(s) - 1) : Tail(s)[i] = s[i + 1]
    BY <1>2, EmptySeq, HeadTailProperties
  <2>2. Head(s) = s[1]
    BY <1>2
  <2>3. CASE Tail(s) = <<>>
    <3>1. Len(s) = 1
      BY <2>1, <2>3, EmptySeq
    <3> QED BY <2>2, <2>3, <3>1 DEF Last
  <2>4. CASE Tail(s) # <<>>
    <3>1. Len(s) - 1 \in 1..(Len(s) - 1)
      BY <2>1, <2>4, EmptySeq
    <3>2. Last(Tail(s)) = s[Len(s) - 1 + 1]
      BY <2>1, <3>1 DEF Last
    <3> QED BY <2>1, <2>4, <3>2 DEF Last
  <2> QED BY <2>3, <2>4
<1> QED BY <1>1, <1>2

(* A host that has not written the object is behind by what its workers    *)
(* have not handled, the last of which is what was written last.  Its      *)
(* workers have the code from the beginning, and handle it without a pause.*)
CacheTyped ==
    /\ version \in Nat /\ copy \in [Deployed -> Nat]
    /\ inbox \in [Listeners -> Seq(Nat)]
    /\ streaming \in [Listeners -> SUBSET Nat]
CodeAtHand == \A w \in Listeners : hostOf[w] \in Deployed => w \in code /\ streaming[w] = {}
LastIsToCome ==
    \A w \in Listeners : hostOf[w] \in Deployed \ writers /\ inbox[w] # <<>> =>
        Last(inbox[w]) = version
HasOthers(h) == \E w \in Listeners : hostOf[w] = h
AllHandled(h) == \A w \in Listeners : hostOf[w] = h => inbox[w] = <<>>
CopiesFollow == \A h \in Deployed \ writers : HasOthers(h) /\ AllHandled(h) => copy[h] = version
CacheInv == CacheTyped /\ CodeAtHand /\ LastIsToCome /\ CopiesFollow

LEMMA WriteStep ==
    ASSUME CacheInv, NEW w \in ofService, NEW kept \in BOOLEAN, broadcastCrudEvent(w, kept)
    PROVE  CacheInv'
<1> DEFINE g == hostOf[w]
<1>1. /\ version' = version + 1 /\ version \in Nat /\ version + 1 \in Nat
      /\ copy' = [copy EXCEPT ![g] = IF kept THEN version + 1 ELSE 0]
      /\ writers' = writers \cup {g} /\ code' = code /\ streaming' = streaming
      /\ inbox' = [u \in Listeners |-> IF hostOf[u] = g THEN inbox[u]
                                       ELSE Append(inbox[u], version + 1)]
  BY DEF CacheInv, CacheTyped, broadcastCrudEvent, publishToMesh
<1> HIDE DEF g
<1>2. \A u \in Listeners : inbox[u] \in Seq(Nat)
  BY DEF CacheInv, CacheTyped
<1>3. \A u \in Listeners : Append(inbox[u], version + 1) \in Seq(Nat)
  BY <1>1, <1>2, AppendProperties
<1>4. CacheTyped'
  <2>1. inbox' \in [Listeners -> Seq(Nat)]
    BY <1>1, <1>2, <1>3
  <2>2. copy' \in [Deployed -> Nat]
    BY <1>1 DEF CacheInv, CacheTyped
  <2> QED BY <1>1, <2>1, <2>2 DEF CacheInv, CacheTyped
<1>5. CodeAtHand'
  BY <1>1 DEF CacheInv, CodeAtHand
<1>6. ASSUME NEW u \in Listeners, hostOf[u] # g
      PROVE  inbox'[u] # <<>> /\ Last(inbox'[u]) = version'
  <2>1. inbox'[u] = Append(inbox[u], version + 1)
    BY <1>1, <1>6
  <2>2. Last(Append(inbox[u], version + 1)) = version + 1 /\ Append(inbox[u], version + 1) # <<>>
    BY <1>1, <1>2, LastFacts
  <2> QED BY <1>1, <2>1, <2>2
<1>7. LastIsToCome'
  BY <1>1, <1>6 DEF LastIsToCome
<1>8. CopiesFollow'
  BY <1>1, <1>6 DEF CopiesFollow, HasOthers, AllHandled
<1> QED BY <1>4, <1>5, <1>7, <1>8 DEF CacheInv

LEMMA UpdateStep ==
    ASSUME CacheInv, NEW w \in Listeners, updateCache(w)
    PROVE  CacheInv'
<1> DEFINE g == hostOf[w]
           v == Head(inbox[w])
<1>1. /\ inbox[w] # <<>> /\ inbox' = [inbox EXCEPT ![w] = Tail(inbox[w])]
      /\ version' = version /\ code' = code /\ writers' = writers
      /\ handleUpsert(w, v)
  BY DEF updateCache
<1>2. /\ inbox[w] \in Seq(Nat) /\ v \in Nat /\ Tail(inbox[w]) \in Seq(Nat)
      /\ version \in Nat /\ copy \in [Deployed -> Nat]
      /\ inbox \in [Listeners -> Seq(Nat)] /\ streaming \in [Listeners -> SUBSET Nat]
  BY <1>1, HeadTailProperties DEF CacheInv, CacheTyped
<1>3. /\ g \in Deployed => copy' = [copy EXCEPT ![g] = v] /\ streaming' = streaming
      /\ g \notin Deployed => copy' = copy
      /\ \A u \in Listeners : u # w => streaming'[u] = streaming[u]
      /\ copy' \in [Deployed -> Nat] /\ streaming' \in [Listeners -> SUBSET Nat]
  <2>1. CASE w \in code
    BY <1>1, <1>2, <2>1 DEF handleUpsert, save
  <2>2. CASE w \notin code
    <3>1. g \notin Deployed
      BY <2>2 DEF CacheInv, CodeAtHand
    <3>2. copy' = copy /\ streaming' = [streaming EXCEPT ![w] = @ \cup {v}]
      BY <1>1, <2>2 DEF handleUpsert
    <3> QED BY <1>2, <3>1, <3>2
  <2> QED BY <2>1, <2>2
<1>4. \A u \in Listeners : inbox'[u] = IF u = w THEN Tail(inbox[w]) ELSE inbox[u]
  BY <1>1, <1>2
<1> HIDE DEF g, v
<1>5. CacheTyped'
  BY <1>1, <1>2, <1>3 DEF CacheTyped
<1>6. CodeAtHand'
  BY <1>1, <1>3 DEF CacheInv, CodeAtHand, g
<1>7. LastIsToCome'
  <2> SUFFICES ASSUME NEW u \in Listeners, hostOf[u] \in Deployed \ writers, inbox'[u] # <<>>
               PROVE  Last(inbox'[u]) = version
    BY <1>1 DEF LastIsToCome
  <2>1. CASE u = w
    <3>1. Last(Tail(inbox[w])) = Last(inbox[w])
      BY <1>1, <1>2, <1>4, <2>1, LastFacts
    <3> QED BY <1>1, <1>4, <2>1, <3>1 DEF CacheInv, LastIsToCome
  <2>2. CASE u # w
    BY <1>4, <2>2 DEF CacheInv, LastIsToCome
  <2> QED BY <2>1, <2>2
<1>8. CopiesFollow'
  <2> SUFFICES ASSUME NEW h \in Deployed \ writers, HasOthers(h), AllHandled(h)'
               PROVE  copy'[h] = version
    BY <1>1 DEF CopiesFollow, HasOthers
  <2>1. CASE h = g
    <3>1. Tail(inbox[w]) = <<>>
      BY <1>4, <2>1 DEF AllHandled, g
    <3>2. Last(inbox[w]) = v
      BY <1>1, <1>2, <3>1, LastFacts DEF v
    <3>3. Last(inbox[w]) = version
      BY <1>1, <2>1 DEF CacheInv, LastIsToCome, g
    <3> QED BY <1>2, <1>3, <2>1, <3>2, <3>3
  <2>2. CASE h # g
    <3>1. AllHandled(h)
      BY <1>4, <2>2 DEF AllHandled, g
    <3>2. copy'[h] = copy[h]
      BY <1>2, <1>3, <2>2
    <3> QED BY <3>1, <3>2 DEF CacheInv, CopiesFollow
  <2> QED BY <2>1, <2>2
<1> QED BY <1>5, <1>6, <1>7, <1>8 DEF CacheInv

LEMMA StreamStep ==
    ASSUME CacheInv, NEW w \in Listeners, NEW v \in streaming[w], streamCode(w, v)
    PROVE  CacheInv'
<1>1. /\ version' = version /\ inbox' = inbox /\ writers' = writers
      /\ streaming' = [streaming EXCEPT ![w] = @ \ {v}] /\ code \subseteq code'
  BY DEF streamCode
<1>2. hostOf[w] \notin Deployed
  BY DEF CacheInv, CodeAtHand
<1>3. copy' = copy
  BY <1>2 DEF streamCode, save
<1>4. /\ streaming' \in [Listeners -> SUBSET Nat]
      /\ \A u \in Listeners : u # w => streaming'[u] = streaming[u]
  BY <1>1 DEF CacheInv, CacheTyped
<1>5. CodeAtHand'
  BY <1>1, <1>2, <1>4 DEF CacheInv, CodeAtHand
<1> QED BY <1>1, <1>3, <1>4, <1>5
        DEF CacheInv, CacheTyped, LastIsToCome, CopiesFollow, HasOthers, AllHandled

LEMMA CacheStep == CacheInv /\ [CacheNext]_cacheVars => CacheInv'
<1> SUFFICES ASSUME CacheInv, [CacheNext]_cacheVars PROVE CacheInv'
  OBVIOUS
<1>1. ASSUME NEW w \in ofService, Upserted(w) \/ Deleted(w) PROVE CacheInv'
  BY <1>1, WriteStep DEF Upserted, Deleted
<1>2. ASSUME NEW w \in Listeners, updateCache(w) PROVE CacheInv'
  BY <1>2, UpdateStep
<1>3. ASSUME NEW w \in Listeners, NEW v \in streaming[w], streamCode(w, v) PROVE CacheInv'
  BY <1>3, StreamStep
<1>4. ASSUME UNCHANGED <<version, copy, inbox, code, streaming, writers>>
      PROVE  CacheInv'
  BY <1>4 DEF CacheInv, CacheTyped, CodeAtHand, LastIsToCome, CopiesFollow, HasOthers, AllHandled
<1>5. ASSUME NEW w \in Listeners, relation(w) \/ requireRemoteObject(w) PROVE CacheInv'
  BY <1>4, <1>5 DEF relation, requireRemoteObject
<1>6. CASE UNCHANGED cacheVars
  BY <1>4, <1>6 DEF cacheVars
<1> QED BY <1>1, <1>2, <1>3, <1>5, <1>6 DEF CacheNext

(* Once all has been handled, a host that has the service and has not      *)
(* written the object has it as the one that has wrote it last, unless it  *)
(* deleted it last: for any workers and hosts, whatever older versions its *)
(* workers stored over newer ones in between.                              *)
THEOREM CopiesAgree == CacheSpec => []CopiesSettle
<1>1. CacheInit => CacheInv
  <2> SUFFICES ASSUME CacheInit PROVE CacheInv
    OBVIOUS
  <2>1. CacheTyped /\ CodeAtHand
    BY DEF CacheInit, CacheTyped, CodeAtHand, Listeners
  <2>2. LastIsToCome /\ CopiesFollow
    BY DEF CacheInit, LastIsToCome, CopiesFollow
  <2> QED BY <2>1, <2>2 DEF CacheInv
<1>2. CacheInv => CopiesSettle
  BY DEF CacheInv, CopiesFollow, CopiesSettle, HasOthers, AllHandled
<1> QED BY <1>1, <1>2, CacheStep, PTL DEF CacheSpec
=============================================================================
