-------------------------------- MODULE Wiring --------------------------------
(***************************************************************************)
(* How a host wires models, datasources and thread pools together, and     *)
(* reloads the pools.  Sources: domain/index.js (register),                *)
(* domain/model-factory.js, domain/use-cases/index.js,                     *)
(* domain/datasource-factory.js, domain/shared-memory.js, domain/worker.js,*)
(* domain/use-cases/hot-reload.js and the factory of domain/thread-pool.js.*)
(*                                                                         *)
(* The models of a domain share a pool of threads.  The first of them to   *)
(* be registered creates it, with the shared maps its threads may use: the *)
(* one called sharedMap, and dsRelated, found by the models' names.  For   *)
(* any other model a thread has a map of its own.                          *)
(***************************************************************************)
EXTENDS Integers, FiniteSets, Sequences, SequencesExt

CONSTANTS
    Models,     \* the names of the deployed models
    domainOf,   \* the name of each model's domain, often that of a model
    relatedTo,  \* the models in each model's relations
    ThreadIds,  \* bound: the threads ever started
    Cores,      \* os.cpus().length
    MaxReloads  \* bound: reloads requested

Main == "main"

ASSUME WiringAssumption ==
    /\ domainOf \in [Models -> STRING]
    /\ relatedTo \in [Models -> SUBSET Models]
    /\ IsFiniteSet(Models)
    /\ Main \notin ThreadIds
    /\ Cores \in Nat \ {0} /\ MaxReloads \in Nat

DEFAULT_THREADPOOL_MAX == 2

Pools == {domainOf[m] : m \in Models}
NoPool == ""

(* The shared map of m is known to main, a private one to its thread.      *)
Maps == ({Main} \cup ThreadIds) \X Models

VARIABLES
    modelFactories, \* the models, as registered
    poolOf,         \* the pool of each thread; NoPool before and after
    stopped,        \* threads that have been stopped
    content,        \* per map: the models of the objects in it
    saved,          \* history: the models whose object has been saved
    closed,         \* pools
    reloading,      \* how far reload is with each pool
    destroying,     \* pools
    inProgress,     \* a reload of "one" pool or of "all"
    disposed,       \* history: the host has disposed of its pools
    reloads         \* the number of reloads requested

poolVars == <<closed, reloading, destroying, inProgress, disposed, reloads>>
wiringVars == <<modelFactories, poolOf, stopped, content, saved, poolVars>>

-----------------------------------------------------------------------------
(* The wiring: one pass over the specifications creates it.                *)

modelsInDomain(d) == {m \in Models : domainOf[m] = d}
first(d) == modelFactories[SelectInSeq(modelFactories, LAMBDA m : domainOf[m] = d)]

(* Variant: the members of the domain are left out.                        *)
relatedByRelation(m) == relatedTo[m]
findLocalRelatedModels(m) == relatedTo[m] \cup modelsInDomain(domainOf[m])

(* The main thread has one datasource, and one shared map, per model.      *)
createSharedMap(m) == <<Main, m>>

(* The pool of d is created when the first model of d is met.              *)
getThreadPool(d) ==
    [sharedMap |-> createSharedMap(first(d)),
     dsRelated |-> findLocalRelatedModels(first(d))]

totalServices ==
    LET services == {m \in Models : domainOf[m] = m}
    IN  IF services = {} THEN 1 ELSE Cardinality(services)
calculateMaxThreads ==
    LET share == Cores \div totalServices
    IN  IF share = 0 THEN DEFAULT_THREADPOOL_MAX ELSE share

(* The map of m in thread t, a thread of the pool d: looked up by name;    *)
(* a map of its own where none is found.                                   *)
createDataSource(t, d, m) ==
    IF m = d THEN getThreadPool(d).sharedMap
    ELSE IF m \in getThreadPool(d).dsRelated THEN createSharedMap(m)
    ELSE <<t, m>>

mapOf(t, m) ==
    IF t = Main THEN createSharedMap(m) ELSE createDataSource(t, poolOf[t], m)

-----------------------------------------------------------------------------
WiringInit ==
    /\ modelFactories = <<>>
    /\ poolOf = [t \in ThreadIds |-> NoPool]
    /\ stopped = {}
    /\ content = [x \in Maps |-> {}]
    /\ saved = {}
    /\ closed = {} /\ destroying = {}
    /\ reloading = [d \in Pools |-> "no"]
    /\ inProgress = "no" /\ disposed = FALSE
    /\ reloads = 0

(* The models are registered in the order of the imports, whichever it is, *)
(* before anything else.                                                   *)
register(m) ==
    /\ m \notin Range(modelFactories)
    /\ modelFactories' = Append(modelFactories, m)
    /\ UNCHANGED <<poolOf, stopped, content, saved, poolVars>>

imported == Len(modelFactories) = Cardinality(Models)

threads(d) == {t \in ThreadIds : poolOf[t] = d}

(* A worker imports the models, makes its domain's use cases and then its  *)
(* cache: it has a datasource for every model.                             *)
startThread(t, d) ==
    /\ poolOf[t] = NoPool /\ t \notin stopped
    /\ Cardinality(threads(d)) < calculateMaxThreads
    /\ d \notin closed \/ reloading[d] = "start"
    /\ poolOf' = [poolOf EXCEPT ![t] = d]
    /\ UNCHANGED <<modelFactories, stopped, content, saved, poolVars>>

(* The use cases of a thread are those of its domain's models; related     *)
(* models are reached through its datasources.                             *)
saveObject(t, m) ==
    /\ poolOf[t] # NoPool
    /\ m \in modelsInDomain(poolOf[t]) \cup getThreadPool(poolOf[t]).dsRelated
    /\ content' = [content EXCEPT ![mapOf(t, m)] = @ \cup {m}]
    /\ saved' = saved \cup {m}
    /\ UNCHANGED <<modelFactories, poolOf, stopped, poolVars>>

deleteObject(t, m) ==
    /\ poolOf[t] # NoPool /\ m \in modelsInDomain(poolOf[t])
    /\ content' = [content EXCEPT ![mapOf(t, m)] = @ \ {m}]
    /\ saved' = saved \ {m}
    /\ UNCHANGED <<modelFactories, poolOf, stopped, poolVars>>

-----------------------------------------------------------------------------
(* Reload                                                                  *)

(* A pool by the name of a model or of a domain, one reload at a time.     *)
hotReload(d) ==
    /\ inProgress = "no" /\ reloads < MaxReloads
    /\ inProgress' = "one" /\ reloads' = reloads + 1
    /\ closed' = closed \cup {d}
    /\ reloading' = [reloading EXCEPT ![d] = "drain"]
    /\ UNCHANGED <<modelFactories, poolOf, stopped, content, saved, destroying, disposed>>

reloadPools ==
    /\ inProgress = "no" /\ reloads < MaxReloads
    /\ inProgress' = "all" /\ reloads' = reloads + 1
    /\ closed' = Pools
    /\ reloading' = [d \in Pools |-> "drain"]
    /\ UNCHANGED <<modelFactories, poolOf, stopped, content, saved, destroying, disposed>>

(* What is in a thread's own maps is lost with the thread.                 *)
stopThreads(d) ==
    /\ poolOf' = [t \in ThreadIds |-> IF poolOf[t] = d THEN NoPool ELSE poolOf[t]]
    /\ stopped' = stopped \cup threads(d)
    /\ content' = [x \in Maps |-> IF x[1] \in threads(d) THEN {} ELSE content[x]]

reloadStops(d) ==
    /\ reloading[d] = "drain"
    /\ stopThreads(d)
    /\ reloading' = [reloading EXCEPT ![d] = "start"]
    /\ UNCHANGED <<modelFactories, saved, closed, destroying, inProgress, disposed, reloads>>

(* Threads have been started; also a pool that was destroyed is open now.  *)
reloadOpens(d) ==
    /\ reloading[d] = "start"
    /\ reloading' = [reloading EXCEPT ![d] = "no"]
    /\ closed' = closed \ {d}
    /\ UNCHANGED <<modelFactories, poolOf, stopped, content, saved, destroying, inProgress,
                   disposed, reloads>>

(* The pools that no model is named like.                                  *)
removeUndeployedPools == IF inProgress = "all" THEN Pools \ Models ELSE {}

reloadEnds ==
    /\ inProgress # "no" /\ \A d \in Pools : reloading[d] = "no"
    /\ inProgress' = "no"
    /\ closed' = closed \cup removeUndeployedPools
    /\ destroying' = destroying \cup removeUndeployedPools
    /\ UNCHANGED <<modelFactories, poolOf, stopped, content, saved, reloading, disposed,
                   reloads>>

(* destroy: a pool stays in the factory's map, closed.                     *)
destroyStops(d) ==
    /\ d \in destroying
    /\ stopThreads(d)
    /\ destroying' = destroying \ {d}
    /\ UNCHANGED <<modelFactories, saved, closed, reloading, inProgress, disposed, reloads>>

(* dispose: the event 'reload'.                                            *)
destroyPools ==
    /\ ~disposed
    /\ closed' = Pools /\ destroying' = Pools /\ disposed' = TRUE
    /\ UNCHANGED <<modelFactories, poolOf, stopped, content, saved, reloading, inProgress,
                   reloads>>

-----------------------------------------------------------------------------
WiringNext ==
    \/ \E m \in Models : register(m)
    \/ /\ imported
       /\ \/ \E t \in ThreadIds, d \in Pools : startThread(t, d)
          \/ \E t \in ThreadIds, m \in Models : saveObject(t, m) \/ deleteObject(t, m)
          \/ \E d \in Pools : hotReload(d) \/ reloadStops(d) \/ reloadOpens(d) \/ destroyStops(d)
          \/ reloadPools \/ reloadEnds \/ destroyPools

WiringSpec == WiringInit /\ [][WiringNext]_wiringVars

-----------------------------------------------------------------------------
(* Properties                                                              *)

(* The domains whose pool is made by the model they are named after, or    *)
(* that are not named after a model.                                       *)
WellOrdered(d) == d \in Models => first(d) = d

Sharers(m) ==
    {t \in ThreadIds : poolOf[t] # NoPool /\ m \in findLocalRelatedModels(first(poolOf[t]))}

(* While the domains are well ordered: an object that one of the threads   *)
(* of its domain has saved is there for the main thread and for all        *)
(* threads whose pool is given its model, whichever pools have been        *)
(* reloaded since; one that was deleted is there for none of them; and no  *)
(* two models share a map.  And a pool named like a model is open again    *)
(* after each reload.                                                      *)
PoolsShareMaps ==
    imported /\ (\A d \in Pools : WellOrdered(d)) =>
        /\ \A m \in Models : \A t \in Sharers(m) \cup {Main} :
              m \in content[mapOf(t, m)] <=> m \in saved
        /\ \A x \in Maps : Cardinality(content[x]) <= 1
        /\ \A d \in closed \cap Models : disposed \/ reloading[d] # "no"
=============================================================================
