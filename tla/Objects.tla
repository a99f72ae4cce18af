------------------------------- MODULE Objects -------------------------------
(***************************************************************************)
(* One object of a domain model: its entry in the cache that all threads   *)
(* share, its document in the store, and the requests on it.  Sources:     *)
(* domain/datasource-factory.js over adapters/datasources/                 *)
(* datasource-mongodb.js and domain/shared-memory.js, called by            *)
(* domain/use-cases/create-, edit-, remove-, find- and load-models.js.     *)
(*                                                                         *)
(* A use case begins on the main thread and goes on in a worker.  Threads  *)
(* run in parallel, so each access to the shared cache is an action, and   *)
(* so is each answer of the store.  What an object holds is the set of     *)
(* requests whose changes are merged in it: the create that made it and    *)
(* the edits since (every edit changes a property of its own).             *)
(***************************************************************************)
EXTENDS Naturals, FiniteSets

CONSTANTS
    Creates,     \* calls of createModel with one and the same idempotency key
    Edits,       \* calls of editModel
    Removes,     \* calls of removeModel
    Finds,       \* calls of findModel
    Loads,       \* runs of load-models, when a worker starts
    Missing,     \* no entry, no document
    Failing,     \* store operations that may fail: "save", "find", "delete"
    RunOffline,  \* dsOptions.runOffline: a failed save is ignored
    MaxOverlap,  \* bound: requests in progress at a time
    MaxRequests, \* bound: requests in all
    MaxCrashes   \* bound: restarts of the process

Requests == Creates \cup Edits \cup Removes \cup Finds \cup Loads

ASSUME ObjectsAssumption ==
    /\ Creates \cap (Edits \cup Removes \cup Finds \cup Loads) = {}
    /\ Edits \cap (Removes \cup Finds \cup Loads) = {}
    /\ Removes \cap (Finds \cup Loads) = {} /\ Finds \cap Loads = {}
    /\ \A S \in SUBSET Requests : S # Missing
    /\ Failing \subseteq {"save", "find", "delete"}
    /\ RunOffline \in BOOLEAN
    /\ MaxOverlap \in Nat /\ MaxRequests \in Nat /\ MaxCrashes \in Nat

VARIABLES
    cache,    \* the shared map's entry
    store,    \* the collection's document
    stage,    \* what find is called for: "main", "work", "reply"
    pc,       \* where a request is
    model,    \* what the worker found, and with an edit the model it updates
    got,      \* what the store answered
    \* history
    met,      \* the requests that were in progress together with another one
    owed,     \* creates and edits acknowledged that met no other request
    exists,   \* a create was acknowledged, and no remove was in progress
    warned,   \* the creates that began when it was
    blind,    \* the creates that went on because the lookup of a document failed
    kept,     \* the removes whose deletion failed in the store
    gone,     \* one was acknowledged that is none of these and met no other request
    refused,  \* the store has refused a save
    crashes   \* how often the process was restarted

reqVars  == <<stage, pc, model, got>>
promises == <<owed, exists, warned, blind, gone>>
history  == <<met, promises, kept, refused, crashes>>
vars == <<cache, store, reqVars, history>>

Versions ==
    {Missing} \cup {S \in SUBSET (Creates \cup Edits) : Cardinality(S \cap Creates) = 1}
Ended    == {r \in Requests : pc[r] \in {"done", "failed", "lost"}}
Waiting  == {r \in Requests : pc[r] = "new"}
Active   == Requests \ (Ended \cup Waiting)

-----------------------------------------------------------------------------
Init ==
    /\ cache = Missing /\ store = Missing
    /\ stage = [r \in Requests |-> "main"]
    /\ pc = [r \in Requests |-> "new"]
    /\ model = [r \in Requests |-> Missing]
    /\ got = [r \in Requests |-> Missing]
    /\ met = {} /\ owed = {} /\ warned = {} /\ blind = {} /\ kept = {}
    /\ exists = FALSE /\ gone = FALSE /\ refused = FALSE
    /\ crashes = 0

GoTo(r, label) == pc' = [pc EXCEPT ![r] = label]
(* The caller gets model m, or an error.  What is promised from then on.   *)
Answer(r, m) ==
    LET done == m # Missing
        solo == done /\ r \notin met
    IN  /\ GoTo(r, IF done THEN "done" ELSE "failed")
        /\ owed' = IF solo /\ (r \in Edits \/ model[r] = {r}) THEN owed \cup {r} ELSE owed
        /\ exists' = (exists \/ (done /\ r \in Creates /\ Removes \cap Active = {}))
        /\ gone' = (gone \/ (solo /\ r \in Removes \ kept))
        /\ UNCHANGED <<met, warned, blind, kept, refused, crashes>>
Goes(r, label) == GoTo(r, label) /\ UNCHANGED history

(* The request arrives.  load queries the store and does not look at the   *)
(* cache.                                                                  *)
Begin(r) ==
    /\ pc[r] = "new"
    /\ Cardinality(Active) < MaxOverlap
    /\ Cardinality(Active \cup Ended) < MaxRequests
    /\ GoTo(r, IF r \in Loads THEN "query" ELSE "find")
    /\ met' = IF Active = {} THEN met ELSE met \cup Active \cup {r}
    /\ \/ /\ r \in Removes /\ owed' = {} /\ exists' = FALSE /\ warned' = {}
          /\ UNCHANGED gone
       \/ /\ r \in Creates
          /\ warned' = IF exists THEN warned \cup {r} ELSE warned
          /\ gone' = FALSE
          /\ UNCHANGED <<owed, exists>>
       \/ /\ r \in Loads /\ owed' = IF refused THEN {} ELSE owed
          /\ UNCHANGED <<exists, warned, gone>>
       \/ r \in Edits \cup Finds /\ UNCHANGED <<owed, exists, warned, gone>>
    /\ UNCHANGED <<cache, store, stage, model, got, blind, kept, refused, crashes>>

(* What follows find, by use case, for the model m it returned.  Main: an  *)
(* existing object answers a create; the others need one.  Worker: an edit *)
(* updates it, a remove fires its event; TypeError if there is none.  An   *)
(* edit finally returns what it finds.                                     *)
Work(r) ==
    /\ stage' = [stage EXCEPT ![r] = "work"]
    /\ Goes(r, IF r \in Creates THEN "create" ELSE "find")
    /\ UNCHANGED model
(* Variant: a create does not look at what was found.                      *)
AfterAnyFind(r, m) ==
    \/ r \notin Finds /\ (m # Missing \/ r \in Creates) /\ Work(r)
    \/ /\ r \in Finds \/ (m = Missing /\ r \notin Creates)
       /\ Answer(r, m) /\ UNCHANGED <<stage, model>>
AfterMainFind(r, m) ==
    \/ (r \in Creates) = (m = Missing) /\ r \notin Finds /\ Work(r)
    \/ /\ (r \in Creates) = (m # Missing) \/ r \in Finds
       /\ Answer(r, m)
       /\ UNCHANGED <<stage, model>>
AfterWorkFind(r, m) ==
    /\ IF m = Missing THEN Answer(r, Missing)
       ELSE Goes(r, IF r \in Edits THEN "update" ELSE "delete")
    /\ model' = [model EXCEPT ![r] = m]
    /\ UNCHANGED stage

AfterFind(r, m) ==
    \/ stage[r] = "main" /\ AfterMainFind(r, m)
    \/ stage[r] = "work" /\ AfterWorkFind(r, m)
    \/ stage[r] = "reply" /\ Answer(r, m) /\ UNCHANGED <<stage, model>>

(* find: a cache hit is the answer.  Variant: the store is asked first.    *)
FindInStore(r) ==
    /\ pc[r] = "find" /\ store # Missing
    /\ AfterFind(r, store)
    /\ UNCHANGED <<cache, store, got>>
FindInCache(r) ==
    /\ pc[r] = "find" /\ cache # Missing
    /\ AfterFind(r, cache)
    /\ UNCHANGED <<cache, store, got>>

FindMisses(r) ==
    /\ pc[r] = "find" /\ cache = Missing
    /\ GoTo(r, "query")
    /\ UNCHANGED <<cache, store, stage, model, got, history>>

StoreFinds(r) ==
    /\ pc[r] = "query"
    /\ got' = [got EXCEPT ![r] = store]
    /\ GoTo(r, "fill")
    /\ UNCHANGED <<cache, store, stage, model, history>>

(* findOne rejects: DsError.  An edit that fails while it looks up its     *)
(* reply is rolled back.  Without a connection find logs and returns       *)
(* nothing, as if there were no document.                                  *)
StoreFindFails(r) ==
    /\ "find" \in Failing /\ pc[r] = "query"
    /\ \/ stage[r] = "reply" /\ Goes(r, "rollback")
       \/ stage[r] # "reply" /\ Answer(r, Missing)
       \/ /\ r \notin Loads /\ GoTo(r, "fill")
          /\ blind' = IF r \in Creates /\ store # Missing THEN blind \cup {r} ELSE blind
          /\ UNCHANGED <<met, owed, exists, warned, gone, kept, refused, crashes>>
    /\ UNCHANGED <<cache, store, stage, model, got>>

(* find writes what the store answered into the cache, whatever is there   *)
(* by now; load does so for each document of its stream.                   *)
Fill(r) ==
    /\ pc[r] = "fill"
    /\ cache' = IF got[r] = Missing THEN cache ELSE got[r]
    /\ IF r \in Loads THEN Goes(r, "done") /\ UNCHANGED <<stage, model>>
                      ELSE AfterFind(r, got[r])
    /\ got' = [got EXCEPT ![r] = Missing]
    /\ UNCHANGED store

-----------------------------------------------------------------------------
(* Worker: create, edit.                                                   *)

(* createModel makes a model; save writes the cache, then the store.       *)
CreateModel(r) ==
    /\ pc[r] = "create"
    /\ model' = [model EXCEPT ![r] = {r}]
    /\ cache' = {r}
    /\ GoTo(r, "save")
    /\ UNCHANGED <<store, stage, got, history>>

(* updateModel calls updateSync: merge with the model that was found, and  *)
(* write the cache.                                                        *)
merge(m, r) == m \cup {r}
UpdateSync(r) ==
    /\ pc[r] = "update"
    /\ cache' = merge(model[r], r)
    /\ GoTo(r, "save sync")
    /\ UNCHANGED <<store, stage, model, got, history>>

Saved(r) == IF r \in Creates THEN model[r] ELSE merge(model[r], r)

(* save writes the cache a second time.                                    *)
SaveSync(r) ==
    /\ pc[r] = "save sync"
    /\ cache' = Saved(r)
    /\ GoTo(r, "save")
    /\ UNCHANGED <<store, stage, model, got, history>>

(* The store applies the save.  Variant: it is skipped.                    *)
StoreSkips(r) ==
    /\ pc[r] = "save"
    /\ GoTo(r, "saved")
    /\ UNCHANGED <<cache, store, stage, model, got, history>>
StoreSaves(r) ==
    /\ pc[r] = "save"
    /\ store' = Saved(r)
    /\ GoTo(r, "saved")
    /\ UNCHANGED <<cache, stage, model, got, history>>

(* It fails: the adapter swallows the error if it may run offline, else    *)
(* the use case returns an AppError; the cache keeps the value.            *)
StoreSaveFails(r) ==
    /\ "save" \in Failing
    /\ pc[r] = "save"
    /\ refused' = TRUE
    /\ GoTo(r, IF RunOffline THEN "saved" ELSE "failed")
    /\ UNCHANGED <<cache, store, stage, model, got, met, promises, kept, crashes>>

(* The event is fired.  A create returns what the cache holds now; an edit *)
(* looks its object up again.                                              *)
Reply(r) ==
    /\ pc[r] = "saved"
    /\ IF r \in Creates THEN Answer(r, cache) ELSE Goes(r, "find")
    /\ stage' = [stage EXCEPT ![r] = "reply"]
    /\ UNCHANGED <<cache, store, model, got>>

(* The lookup of the reply has failed: save the model as it was found.     *)
Rollback(r) ==
    /\ pc[r] = "rollback"
    /\ cache' = model[r]
    /\ Goes(r, "restore")
    /\ UNCHANGED <<store, stage, model, got>>

StoreRestores(r) ==
    /\ pc[r] = "restore"
    /\ \/ store' = model[r] /\ UNCHANGED refused
       \/ "save" \in Failing /\ refused' = TRUE /\ UNCHANGED store
    /\ GoTo(r, "failed")
    /\ UNCHANGED <<cache, stage, model, got, met, promises, kept, crashes>>

-----------------------------------------------------------------------------
(* Worker: remove.  The event has been fired.  The adapter swallows the    *)
(* errors of the store, so the entry goes in any case.                     *)

(* Variant: the document is forgotten.                                     *)
StoreKeeps(r) ==
    /\ pc[r] = "delete"
    /\ Goes(r, "delete sync")
    /\ UNCHANGED <<cache, store, stage, model, got>>
StoreDeletes(r) ==
    /\ pc[r] = "delete"
    /\ \/ store' = Missing /\ UNCHANGED kept
       \/ "delete" \in Failing /\ kept' = kept \cup {r} /\ UNCHANGED store
    /\ GoTo(r, "delete sync")
    /\ UNCHANGED <<cache, stage, model, got, met, promises, refused, crashes>>

(* Variant: the entry is forgotten.                                        *)
DeleteNothing(r) ==
    /\ pc[r] = "delete sync"
    /\ Answer(r, model[r])
    /\ UNCHANGED <<cache, store, stage, model, got>>
DeleteSync(r) ==
    /\ pc[r] = "delete sync"
    /\ cache' = Missing
    /\ Answer(r, model[r])
    /\ UNCHANGED <<store, stage, model, got>>

(* The process is restarted: the cache is gone, and so are the requests.   *)
(* A save or delete that was on its way may have reached the store before. *)
Crash ==
    /\ crashes < MaxCrashes
    /\ crashes' = crashes + 1
    /\ cache' = Missing
    /\ pc' = [r \in Requests |-> IF r \in Active THEN "lost" ELSE pc[r]]
    /\ owed' = IF refused THEN {} ELSE owed
    /\ IF store = Missing THEN exists' = FALSE /\ warned' = {} ELSE UNCHANGED <<exists, warned>>
    /\ UNCHANGED <<store, stage, model, got, met, blind, gone, kept, refused>>

Next ==
    \/ \E r \in Requests : Begin(r) \/ FindInCache(r) \/ FindMisses(r)
    \/ \E r \in Requests : StoreFinds(r) \/ StoreFindFails(r) \/ Fill(r)
    \/ \E r \in Creates : CreateModel(r)
    \/ \E r \in Edits : UpdateSync(r) \/ SaveSync(r) \/ Rollback(r) \/ StoreRestores(r)
    \/ \E r \in Creates \cup Edits : StoreSaves(r) \/ StoreSaveFails(r) \/ Reply(r)
    \/ \E r \in Removes : StoreDeletes(r) \/ DeleteSync(r)
    \/ Crash

Spec == Init /\ [][Next]_vars

-----------------------------------------------------------------------------
(* Properties                                                              *)

Labels ==
    {"new", "find", "query", "fill", "create", "update", "save sync", "save", "saved",
     "rollback", "restore", "delete", "delete sync", "done", "failed", "lost"}

ObjectsTypeOK ==
    /\ cache \in Versions /\ store \in Versions
    /\ stage \in [Requests -> {"main", "work", "reply"}]
    /\ pc \in [Requests -> Labels]
    /\ model \in [Requests -> Versions]
    /\ got \in [Requests -> Versions]
    /\ met \subseteq Requests /\ owed \subseteq Creates \cup Edits
    /\ warned \subseteq Creates /\ blind \subseteq Creates /\ kept \subseteq Removes
    /\ exists \in BOOLEAN /\ gone \in BOOLEAN /\ refused \in BOOLEAN
    /\ crashes \in Nat

Current == IF cache # Missing THEN cache ELSE store

(* A create or edit that was acknowledged and met no other request stays   *)
(* in the object, through later edits that race each other, fills and      *)
(* loads, until a remove begins.  Overlaps lose updates, and one thing     *)
(* does without any: a create whose lookup of the stored document fails,   *)
(* which find swallows, makes the object anew over it (blind).  Where the  *)
(* store has refused a save (offline) it stays until the cache is lost or  *)
(* loaded.                                                                 *)
SoloUpdatesKept ==
    blind = {} /\ owed # {} => Current # Missing /\ owed \subseteq Current

(* What is acknowledged is stored, if the store never refused a save and   *)
(* no such create overwrote it: a restart keeps it, and a list, which asks *)
(* the store alone, shows it.                                              *)
AcknowledgedIsStored ==
    blind = {} /\ owed # {} /\ ~refused => store # Missing /\ owed \subseteq store

(* Two creates with one idempotency key both make the object only if the   *)
(* second began before the first was acknowledged; unless it was removed,  *)
(* lost in a crash before it was stored, or the second one's lookup of the *)
(* document failed and find swallowed that.                                *)
OneCreation == \A r \in warned \ blind : pc[r] # "create" /\ model[r] # {r}

(* When no two requests ever met and none is in progress, the store has    *)
(* what the cache has, unless it refused a save.                           *)
StoreCatchesUp ==
    met = {} /\ Active = {} /\ cache # Missing /\ ~refused => store = cache

(* An object that was removed from the store, too, comes back only by a    *)
(* create, or by a request that met the remove and had read the object     *)
(* before.  Not so where the deletion failed: the adapter swallows that,   *)
(* the remove is acknowledged, and the next lookup finds the document.     *)
RemovedForGood == gone => Current = Missing
=============================================================================
