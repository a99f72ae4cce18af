-------------------------------- MODULE MCHost --------------------------------
(* Small instances of Cluster, ServiceLocator, RemoteImport,               *)
(* DistributedCache and Ports for TLC, checked in one run.  They do not    *)
(* interact: a workflow goes any way it can; when it has ended by time-outs *)
(* alone, one of the others may move, and the rest stay as they are.       *)
EXTENDS Cluster, ServiceLocator, RemoteImport, DistributedCache, MCPorts, TLC

CONSTANTS sw, n1, n2, k1, k2, k3, b1, b2, w2, w3, w4

hosts == (b1 :> "h1") @@ (b2 :> "h2") @@ (w2 :> "h2") @@ (w3 :> "h2") @@ (w4 :> "h3")

hostVars == <<clusterVars, locatorVars, importVars, cacheVars>>
allVars  == <<hostVars, workflowVars>>

WorkflowOnly ==
    /\ ClusterInit /\ LocatorInit /\ ImportInit /\ CacheInit
    /\ UNCHANGED hostVars
TimedOut == incidents = 0 /\ answered = {} /\ gaveUp /\ UNCHANGED workflowVars
ClusterOnly ==
    /\ TimedOut /\ LocatorInit /\ ImportInit /\ CacheInit
    /\ UNCHANGED <<locatorVars, importVars, cacheVars>>
LocatorOnly ==
    /\ TimedOut /\ ClusterInit /\ ImportInit /\ CacheInit
    /\ UNCHANGED <<clusterVars, importVars, cacheVars>>
ImportOnly ==
    /\ TimedOut /\ ClusterInit /\ LocatorInit /\ CacheInit
    /\ UNCHANGED <<clusterVars, locatorVars, cacheVars>>
CacheOnly ==
    /\ TimedOut /\ ClusterInit /\ LocatorInit /\ ImportInit
    /\ UNCHANGED <<clusterVars, locatorVars, importVars>>

MCInit == ClusterInit /\ LocatorInit /\ ImportInit /\ CacheInit /\ WorkflowInit
MCNext ==
    \/ WorkflowOnly /\ WorkflowNext
    \/ ClusterOnly /\ ClusterNext
    \/ LocatorOnly /\ LocatorNext
    \/ ImportOnly /\ ImportNext
    \/ CacheOnly /\ CacheNext

\* The fairness of the workflow, and that of the four others, each as long as
\* the rest has not moved.
MCFairness ==
    /\ WorkflowFairness
    /\ WF_allVars(ClusterOnly /\ startWorker) /\ WF_allVars(ClusterOnly /\ stopWorker)
    /\ WF_allVars(ClusterOnly /\ SomeWorkerMoves) /\ WF_allVars(ClusterOnly /\ Tick)
    /\ WF_allVars(LocatorOnly /\ answer) /\ SF_allVars(LocatorOnly /\ QueryArrives)
    /\ \A n \in Others :
          /\ WF_allVars(LocatorOnly /\ (listen(n) \/ AskAgain(n)))
          /\ SF_allVars(LocatorOnly /\ buildUrl(n))
    /\ \A w \in Searchers : WF_allVars(CacheOnly /\ requireRemoteObject(w))
MCSpec == MCInit /\ [][MCNext]_allVars /\ MCFairness
=============================================================================
