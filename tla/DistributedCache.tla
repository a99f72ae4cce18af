--------------------------- MODULE DistributedCache ---------------------------
(***************************************************************************)
(* Hosts of a mesh keep copies of each other's objects, and workers look   *)
(* for the objects their models are related to.  Sources: domain/          *)
(* distributed-cache.js, domain/make-relations.js, domain/use-cases/       *)
(* broker-events.js, domain/shared-memory.js.                              *)
(*                                                                         *)
(* All is about one object of one model, the related model.  Its service   *)
(* (pool) may run on several hosts; other pools have models with a         *)
(* relation to it.  The workers of a host share its map, if the service    *)
(* runs there; else they have no datasource for the model.                 *)
(*                                                                         *)
(* The mesh delivers what is published to every worker of every other host *)
(* in one order (Mesh models what it may lose).  Workers handle their      *)
(* messages one by one, at their own pace.                                 *)
(***************************************************************************)
EXTENDS Naturals, Sequences, FiniteSets, SequencesExt

CONSTANTS
    Workers,
    hostOf,     \* host of each worker
    ofService,  \* the workers of the related model's own pool
    MaxWrites,  \* bound: creations, updates and deletions
    MaxFinds    \* bound: calls of the relation function

ASSUME CacheAssumption ==
    /\ ofService \subseteq Workers /\ hostOf \in [Workers -> Range(hostOf)]
    /\ MaxWrites \in Nat /\ MaxFinds \in Nat

\* Only the others subscribe to what happens to the object elsewhere.
Listeners == Workers \ ofService
Deployed == {hostOf[w] : w \in ofService}
\* Without a datasource for the model, a relation function fails at once.
Searchers == {w \in Listeners : hostOf[w] \in Deployed}

VARIABLES
    version,    \* of the object: how often it was written
    copy,       \* in the map of each host with the service; 0 if it is not there
    inbox,      \* versions each listener was sent and has not handled yet
    code,       \* the workers that have the specification of the model
    streaming,  \* the upserts of each worker that wait for the code
    waiting,    \* the workers that wait for a remote object
    finds,      \* how many there were
    writers,    \* history: the hosts that have written
    deleted     \* history: was the last write a deletion?

cacheVars == <<version, copy, inbox, code, streaming, waiting, finds, writers, deleted>>

CacheInit ==
    /\ version = 0 /\ finds = 0 /\ writers = {} /\ waiting = {} /\ deleted = FALSE
    /\ copy = [h \in Deployed |-> 0]
    /\ inbox = [w \in Listeners |-> <<>>]
    /\ code = {w \in Workers : hostOf[w] \in Deployed}
    /\ streaming = [w \in Listeners |-> {}]

(* broker.notify('to_main'), then over the mesh, then 'to_worker': all     *)
(* workers of the other hosts.                                             *)
publishToMesh(host, v) ==
    inbox' = [w \in Listeners |-> IF hostOf[w] = host THEN inbox[w] ELSE Append(inbox[w], v)]

(* broadcastCrudEvent: a worker of the service has written the object, or  *)
(* deleted it.                                                             *)
broadcastCrudEvent(w, kept) ==
    /\ version < MaxWrites
    /\ version' = version + 1
    /\ copy' = [copy EXCEPT ![hostOf[w]] = IF kept THEN version + 1 ELSE 0]
    /\ writers' = writers \cup {hostOf[w]} /\ deleted' = ~kept
    /\ publishToMesh(hostOf[w], version + 1)
    /\ UNCHANGED <<code, streaming, waiting, finds>>
Upserted(w) == broadcastCrudEvent(w, TRUE)
Deleted(w) == copy[hostOf[w]] # 0 /\ broadcastCrudEvent(w, FALSE)

(* save: aborted by an exception if there is no datasource.                *)
save(w, v) ==
    copy' = IF hostOf[w] \in Deployed THEN [copy EXCEPT ![hostOf[w]] = v] ELSE copy

(* handleUpsert: streamCode, hydrate, save.  With the code at hand there   *)
(* is no pause; without, the code is imported first.  Variant: it always   *)
(* is.                                                                     *)
handleUpsertImports(w, v) ==
    /\ streaming' = [streaming EXCEPT ![w] = @ \cup {v}]
    /\ UNCHANGED copy
handleUpsert(w, v) ==
    IF w \in code THEN save(w, v) /\ UNCHANGED streaming
    ELSE streaming' = [streaming EXCEPT ![w] = @ \cup {v}] /\ UNCHANGED copy

(* updateCache.  A deletion is an upsert, too: handleDelete does not know  *)
(* it by the name that broadcastCrudEvent gave it.                         *)
updateCache(w) ==
    /\ inbox[w] # <<>>
    /\ inbox' = [inbox EXCEPT ![w] = Tail(@)]
    /\ handleUpsert(w, Head(inbox[w]))
    /\ UNCHANGED <<version, code, waiting, finds, writers, deleted>>

(* The import is done (or the model could not be registered).              *)
streamCode(w, v) ==
    /\ v \in streaming[w]
    /\ streaming' = [streaming EXCEPT ![w] = @ \ {v}]
    /\ \/ w \in code /\ UNCHANGED code
       \/ w \notin code /\ code' \in {code, code \cup {w}}
    /\ IF w \in code' THEN save(w, v) ELSE UNCHANGED copy
    /\ UNCHANGED <<version, inbox, waiting, finds, writers, deleted>>

(* The relation function without arguments: no datasource, an error; the   *)
(* object is in the map, it is found; else requireRemoteObject asks the    *)
(* mesh.  (The hosts that are asked search, and fail to answer: the        *)
(* requests have no effect and are left out.)                              *)
relation(w) ==
    /\ finds < MaxFinds /\ w \notin waiting
    /\ finds' = finds + 1
    /\ IF w \in Searchers /\ copy[hostOf[w]] = 0
       THEN waiting' = waiting \cup {w}
       ELSE UNCHANGED waiting
    /\ UNCHANGED <<version, copy, inbox, code, streaming, writers, deleted>>

(* maxwait is over: it looks into the map once more.  Variant: it waits    *)
(* for the answer.                                                         *)
noTimeout(w) == FALSE /\ UNCHANGED cacheVars
requireRemoteObject(w) ==
    /\ w \in waiting
    /\ waiting' = waiting \ {w}
    /\ UNCHANGED <<version, copy, inbox, code, streaming, finds, writers, deleted>>

CacheNext ==
    \/ \E w \in ofService : Upserted(w) \/ Deleted(w)
    \/ \E w \in Listeners :
          \/ updateCache(w) \/ relation(w) \/ requireRemoteObject(w)
          \/ \E v \in streaming[w] : streamCode(w, v)

CacheFairness == \A w \in Searchers : WF_cacheVars(requireRemoteObject(w))
CacheSpec == CacheInit /\ [][CacheNext]_cacheVars /\ CacheFairness

-----------------------------------------------------------------------------
(* Properties                                                              *)

(* When all has been handled, every host has the object as it was written  *)
(* last, if one host wrote it all: several workers of a host write what    *)
(* they receive into the same map at their own pace, and older versions    *)
(* over newer ones, but the last write of each is the last version.  If    *)
(* that was a deletion, nothing is claimed: handleDelete should remove the *)
(* copy, and updateCache saves it.  (What two hosts write at the same time *)
(* may pass each other on the way to the switch, which is not modelled.)   *)
CopiesSettle ==
    \A h \in Deployed :
        LET others == {w \in Listeners : hostOf[w] = h}
        IN  /\ others # {} /\ Cardinality(writers) = 1 /\ h \notin writers /\ ~deleted
            /\ \A w \in others : inbox[w] = <<>> /\ streaming[w] = {}
            => copy[h] = version

(* A relation call for an object that is nowhere returns.                  *)
RelationReturns == \A w \in Searchers : w \in waiting ~> w \notin waiting
=============================================================================
