----------------------------- MODULE RemoteImport -----------------------------
(***************************************************************************)
(* A worker imports the remote modules of its host when it starts, and     *)
(* later, when an event of a model comes that it has no code for, those of *)
(* the distributed cache.  Sources: domain/index.js, domain/               *)
(* import-remotes.js, domain/model-factory.js, domain/bind-adapters.js.    *)
(*                                                                         *)
(* All is about one model that only the cache may have.  The calls of      *)
(* importRemoteCache run concurrently: each await is a point at which      *)
(* another may run.                                                        *)
(***************************************************************************)
EXTENDS Naturals, Sequences, SequencesExt

CONSTANTS
    ImportCalls,  \* calls of importRemoteCache
    HasPorts,     \* the model has ports, to be bound to adapters
    InCache       \* the remote entries have the model

ASSUME ImportAssumption == HasPorts \in BOOLEAN /\ InCache \in BOOLEAN

\* What is imported, in the order of the awaits.
cacheImports  == <<"model", "adapter", "service", "port", "worker">>
remoteImports == <<"service", "adapter", "worker", "port", "model">>

VARIABLES
    startup,       \* imports of importRemotes that are done; 5 also if one was rejected
    remotesConfig, \* is set
    caches,        \* modelCache, adapterCache, ...: those that are set
    await,         \* what each call waits for; "none" before it, "done" after it
    spec           \* of the model: "none"; "complete", "partial" (what it is bound to)

importVars == <<startup, remotesConfig, caches, await, spec>>

ImportInit ==
    /\ startup = 0 /\ remotesConfig = FALSE
    /\ caches = {} /\ spec = "none"
    /\ await = [c \in ImportCalls |-> "none"]

(* importRemotes: one import after the other, then the models are          *)
(* registered.  The worker that fails here stays, without domain ports.    *)
importRemotes ==
    /\ startup \in 0 .. 4
    /\ \/ /\ startup' = startup + 1
          /\ remotesConfig' = (startup + 1 = Len(remoteImports))
       \/ startup' = 5 /\ UNCHANGED remotesConfig
    /\ UNCHANGED <<caches, await, spec>>

(* bindAdapters throws without adapters, if there is a port; registration  *)
(* throws without the map of workers.  Variant: the map may be missing, as *)
(* the other parameters may.                                               *)
registersLenient(have) == HasPorts => "adapter" \in have
registers(have) == (HasPorts => "adapter" \in have) /\ "worker" \in have
register(have) ==
    spec' = IF spec = "none" /\ InCache /\ registers(have)
            THEN IF Range(cacheImports) \subseteq have THEN "complete" ELSE "partial"
            ELSE spec

(* importRemoteCache: nothing to do, or the caches to be imported, unless  *)
(* another call has got the first of them already.                         *)
importRemoteCache(c) ==
    /\ await[c] = "none"
    /\ IF remotesConfig /\ spec = "none" /\ "model" \notin caches
       THEN await' = [await EXCEPT ![c] = "model"] /\ UNCHANGED spec
       ELSE /\ await' = [await EXCEPT ![c] = "done"]
            /\ IF remotesConfig THEN register(caches) ELSE UNCHANGED spec
    /\ UNCHANGED <<startup, remotesConfig, caches>>

(* One import is done, the next begins; after the last the model is looked *)
(* up and registered.                                                      *)
nextImport(kind) ==
    LET i == CHOOSE j \in DOMAIN cacheImports : cacheImports[j] = kind
    IN  IF i = Len(cacheImports) THEN "done" ELSE cacheImports[i + 1]
Imported(c) ==
    /\ await[c] \in Range(cacheImports)
    /\ caches' = caches \cup {await[c]}
    /\ await' = [await EXCEPT ![c] = nextImport(@)]
    /\ IF await'[c] = "done" THEN register(caches') ELSE UNCHANGED spec
    /\ UNCHANGED <<startup, remotesConfig>>

(* An import fails: logged, and the call returns.                          *)
ImportFails(c) ==
    /\ await[c] \in Range(cacheImports)
    /\ await' = [await EXCEPT ![c] = "done"]
    /\ UNCHANGED <<startup, remotesConfig, caches, spec>>

ImportNext ==
    \/ importRemotes
    \/ \E c \in ImportCalls : importRemoteCache(c) \/ Imported(c) \/ ImportFails(c)

ImportSpec == ImportInit /\ [][ImportNext]_importVars

-----------------------------------------------------------------------------
(* Properties                                                              *)

(* A model from the cache is registered with all it is bound to, though a  *)
(* call does not wait for the imports another has begun.  (It gives up     *)
(* instead, and its event is lost.)                                        *)
RegisteredComplete == spec # "partial"
=============================================================================
