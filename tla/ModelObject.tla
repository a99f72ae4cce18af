----------------------------- MODULE ModelObject -----------------------------
(***************************************************************************)
(* The representations of one model object: the instances that threads     *)
(* hold, the JSON in the cache and the JSON in the store.  Sources:        *)
(* domain/model.js, domain/mixins.js, domain/model-factory.js,             *)
(* domain/shared-memory.js, domain/datasource-factory.js.                  *)
(*                                                                         *)
(* Core properties of an instance are kept under symbols, so that user     *)
(* properties of the same name, under strings, do not conflict.  JSON has  *)
(* strings only: toJSON writes the symbols' values under their names, and  *)
(* the values are put under symbols again when an instance is made of it.  *)
(* A value is told apart by where it comes from.                           *)
(***************************************************************************)
EXTENDS Naturals

CONSTANTS
    Holders,  \* the threads that hold an instance
    UserKeys  \* core names that callers also use: in a payload, in changes

(* Four of keyMap, and one of the three that are functions.                *)
keyMap == {"id", "createTime", "updateTime", "portFlow", "validate"}
functions == {"validate"}

ASSUME ModelAssumption == UserKeys \subseteq keyMap

(* From make at creation, from the factory's object at creation, from make *)
(* when an instance is loaded, from an update's clock, from an update's    *)
(* changes.                                                                *)
Origins == {"make", "factory", "loading", "clock", "changes"}
None == "none"

VARIABLES
    held,   \* the instance each thread has, by symbols and by strings
    cached, \* the JSON in the cache
    stored, \* the JSON in the store
    born    \* history: the core properties of the object as created

modelVars == <<held, cached, stored, born>>

nothing == [k \in keyMap |-> None]
NoInstance == [symbols |-> nothing, strings |-> nothing]

ModelInit ==
    /\ held = [h \in Holders |-> NoInstance]
    /\ cached = nothing /\ stored = nothing
    /\ born = nothing

-----------------------------------------------------------------------------
(* An object from what it is made of, with the symbols of make.            *)

override(base, over) == [k \in keyMap |-> IF over[k] # None THEN over[k] ELSE base[k]]
properties(keys, origin) == [k \in keyMap |-> IF k \in keys THEN origin ELSE None]

(* make sets all symbols but the times.                                    *)
make(model, origin) ==
    [symbols |-> properties(keyMap \ {"createTime", "updateTime"}, origin), strings |-> model]

withTimestamp(m, key, origin) == [m EXCEPT !.symbols[key] = origin]

(* Whatever has a name of the map takes the symbol's place.                *)
toSymbol(m) == [m EXCEPT !.symbols = override(m.symbols, m.strings)]

(* The symbols' values replace the properties of their names, also where   *)
(* there is none; functions do not appear in JSON.  Variant: the           *)
(* properties are spread after the symbols and not before.                 *)
fromSymbolFirst(m) ==
    [override(m.symbols, m.strings) EXCEPT !["validate"] = m.strings["validate"]]
fromSymbol(m) == [k \in keyMap |-> IF k \in functions THEN None ELSE m.symbols[k]]

(* Validation calls what is under its symbol: a TypeError unless it is the *)
(* function that make has put there.                                       *)
validates(m) == m.symbols["validate"] \in {"make", "loading"}

makeModel(payload) ==
    toSymbol(withTimestamp(make(properties(payload, "factory"), "make"), "createTime", "make"))
loadModel(json) ==
    LET m == toSymbol(make(json, "loading"))
    IN  IF validates(m) THEN m ELSE NoInstance

(* Changes are merged in by name; symbols are not changed but for the time. *)
mergeChanges(m, changes) ==
    withTimestamp([m EXCEPT !.strings = override(@, properties(changes, "changes"))],
                  "updateTime", "clock")

isInstance(m) == m # NoInstance
-----------------------------------------------------------------------------
(* createModel in a worker: the object is made of a payload that may have  *)
(* core names, validated, and saved.  It is created once.                  *)
createModel(h, payload) ==
    LET m == makeModel(payload)
    IN  /\ born = nothing
        /\ validates(m)
        /\ held' = [held EXCEPT ![h] = m]
        /\ born' = m.symbols
        /\ cached' = fromSymbol(m)
        /\ stored' \in {stored, fromSymbol(m)}

(* update: the cache is written, and the store unless it fails or the      *)
(* update is updateSync.  Where changes are to be approved no update       *)
(* happens, as approveChanges, which gets one argument of two, throws.     *)
update(h, changes) ==
    LET m == mergeChanges(held[h], changes)
    IN  /\ isInstance(held[h]) /\ validates(held[h])
        /\ held' = [held EXCEPT ![h] = m]
        /\ cached' = fromSymbol(m)
        /\ stored' \in {stored, fromSymbol(m)}
        /\ UNCHANGED born

(* save: an instance is saved as it is, however old.                       *)
save(h) ==
    /\ isInstance(held[h])
    /\ cached' = fromSymbol(held[h])
    /\ stored' \in {stored, cached'}
    /\ UNCHANGED <<held, born>>

(* A worker reads the cache.  An error in loading is logged: no instance.  *)
mapGet(h) ==
    /\ cached # nothing
    /\ held' = [held EXCEPT ![h] = loadModel(cached)]
    /\ UNCHANGED <<cached, stored, born>>

(* The cache misses: what the store has is written to the cache as it is,  *)
(* and a worker makes an instance of it, the main thread none.             *)
find(h) ==
    /\ cached = nothing /\ stored # nothing
    /\ cached' = stored
    /\ held' \in {held, [held EXCEPT ![h] = loadModel(stored)]}
    /\ UNCHANGED <<stored, born>>

(* The host is restarted.                                                  *)
Restart ==
    /\ held' = [h \in Holders |-> NoInstance]
    /\ cached' = nothing
    /\ born' = IF stored = nothing THEN nothing ELSE born
    /\ UNCHANGED stored

ModelNext ==
    \/ \E h \in Holders, keys \in SUBSET UserKeys : createModel(h, keys) \/ update(h, keys)
    \/ \E h \in Holders : save(h) \/ mapGet(h) \/ find(h)
    \/ Restart

ModelSpec == ModelInit /\ [][ModelNext]_modelVars

-----------------------------------------------------------------------------
(* Properties                                                              *)

Instances == {h \in Holders : isInstance(held[h])}
Fixed == {"id", "createTime", "portFlow"}

(* Whatever names the callers' changes use, and however often the object   *)
(* goes through JSON: its identity, its creation time and its port flow    *)
(* (which ports alone write, see Ports) are those of its creation in every *)
(* instance, in the cache and in the store, the time of its update is      *)
(* never taken from the changes, and what is cached can be loaded.         *)
CoreProtected ==
    /\ \A k \in Fixed :
          /\ \A h \in Instances : held[h].symbols[k] = born[k]
          /\ cached # nothing => cached[k] = born[k]
          /\ stored # nothing => stored[k] = born[k]
    /\ \A h \in Instances : held[h].symbols["updateTime"] \in {born["updateTime"], "clock"}
    /\ cached # nothing => isInstance(loadModel(cached))
=============================================================================
