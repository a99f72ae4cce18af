------------------------------ MODULE HostEvents ------------------------------
(***************************************************************************)
(* How events travel between the workers of a host and to other hosts.     *)
(* Sources: domain/thread-pool.js (connectEventChannel, fireEvent),        *)
(* domain/worker.js, domain/use-cases/broker-events.js and emit-event.js,  *)
(* domain/event-router.js, domain/distributed-cache.js, domain/            *)
(* domain-events.js.                                                       *)
(*                                                                         *)
(* There is one model, with its own pool of owners on each host; the other *)
(* workers belong to pools with models related to it.  A worker has a      *)
(* channel to the main thread of its host, which has a link to the mesh.   *)
(* The mesh sends each host what the others publish, keeps the order, and  *)
(* may lose any of it (see Mesh).                                          *)
(*                                                                         *)
(* Nothing is sent over the broadcast channel of a pool that a worker can  *)
(* hear: publisherPorts is empty, for the router computes the remote ports *)
(* before the local ones; and broadcastEvent puts the event where its name *)
(* should be.                                                              *)
(***************************************************************************)
EXTENDS Naturals, Sequences, SequencesExt

CONSTANTS
    Threads,
    onHost,       \* host of each thread
    Owners,       \* the threads of the model's own pool
    MaxFired,     \* bound: events fired, the answers to requests not counted
    MaxRenewals   \* bound: threads stopped and links closed

Hosts == Range(onHost)
Related == Threads \ Owners

ASSUME HostEventsAssumption ==
    /\ onHost \in [Threads -> Hosts] /\ Owners \subseteq Threads
    /\ Threads \cap Hosts = {} /\ MaxFired \in Nat /\ MaxRenewals \in Nat

VARIABLES
    thread,     \* its state: "loading", "online" (told main), "connected" (has its port)
    toWorker, toMain,  \* the two directions of each event channel
    net,       \* what the mesh has yet to deliver to each host
    linked,    \* the hosts that have a link to the mesh
    answering, \* requests each owner is creating objects for
    fired,     \* events fired, which numbers them
    renewals,
    heard      \* history: the events each thread has received

eventVars == <<thread, toWorker, toMain, net, linked, answering, fired, renewals, heard>>
channels  == <<thread, linked, renewals>>

EventsInit ==
    /\ thread = [t \in Threads |-> "loading"]
    /\ toWorker = [t \in Threads |-> <<>>] /\ toMain = [t \in Threads |-> <<>>]
    /\ net = [h \in Hosts |-> <<>>] /\ linked = Hosts
    /\ answering = [t \in Threads |-> 0]
    /\ fired = 0 /\ renewals = 0
    /\ heard = [t \in Threads |-> <<>>]

event(name, sender, n) == [name |-> name, from |-> sender, n |-> n]
fires == fired < MaxFired /\ fired' = fired + 1

(* A CRUD event is published under another name.  Variant: under its own.  *)
sameName(name) == name
externalCrudEvent(name) == IF name = "crud" THEN "external" ELSE name

(* broker.notify('to_main'): nothing listens before the port has come.     *)
notifyMain(t, es) ==
    toMain' = IF thread[t] = "connected" THEN [toMain EXCEPT ![t] = @ \o es] ELSE toMain

(* What a worker publishes when its broker is notified of an event: the    *)
(* owners a CRUD event, the others a request for a remote object.          *)
onNotify(t, e) ==
    CASE e.name = "crud" /\ t \in Owners -> <<[e EXCEPT !.name = externalCrudEvent(@)]>>
      [] e.name = "internalRequest" /\ t \in Related -> <<[e EXCEPT !.name = "request"]>>
      [] OTHER -> <<>>

-----------------------------------------------------------------------------
(* The life of a channel                                                   *)

(* Main hears that the thread is online, and sends it its port; from now   *)
(* on it posts what comes to 'to_worker' to the port.                      *)
connectEventChannel(t) ==
    /\ thread[t] = "loading"
    /\ thread' = [thread EXCEPT ![t] = "online"]
    /\ UNCHANGED <<toWorker, toMain, net, linked, answering, fired, renewals, heard>>

connectSubChannels(t) ==
    /\ thread[t] = "online"
    /\ thread' = [thread EXCEPT ![t] = "connected"]
    /\ UNCHANGED <<toWorker, toMain, net, linked, answering, fired, renewals, heard>>

(* stop: the thread ends when it has handled what came before 'shutdown'   *)
(* (or 6 s later); what it has sent is received before what its successor  *)
(* sends.                                                                  *)
stop(t) ==
    /\ thread[t] # "loading" /\ renewals < MaxRenewals
    /\ renewals' = renewals + 1
    /\ toWorker' = [toWorker EXCEPT ![t] = Append(@, event("shutdown", onHost[t], 0))]
    /\ UNCHANGED <<thread, toMain, net, linked, answering, fired, heard>>

Exits(t) ==
    /\ \E i \in DOMAIN toWorker[t] : toWorker[t][i].name = "shutdown"
    /\ thread' = [thread EXCEPT ![t] = "loading"]
    /\ toWorker' = [toWorker EXCEPT ![t] = <<>>]
    /\ answering' = [answering EXCEPT ![t] = 0]
    /\ heard' = [heard EXCEPT ![t] = <<>>]
    /\ UNCHANGED <<toMain, net, linked, fired, renewals>>

(* dispose: the link is closed for good, the adapter opens no other.       *)
disposeMesh(h) ==
    /\ h \in linked /\ renewals < MaxRenewals
    /\ renewals' = renewals + 1
    /\ linked' = linked \ {h}
    /\ net' = [net EXCEPT ![h] = <<>>]
    /\ UNCHANGED <<thread, toWorker, toMain, answering, fired, heard>>

-----------------------------------------------------------------------------
(* Workers                                                                 *)

(* An event of the worker itself: an object was written, a remote object   *)
(* is missing, or a port that no local model consumes from has produced.   *)
FiresInWorker(t, name) ==
    /\ fires
    /\ notifyMain(t, onNotify(t, event(name, t, fired')))
    /\ UNCHANGED <<channels, toWorker, net, answering, heard>>
CrudEvent(t) == t \in Owners /\ FiresInWorker(t, "crud")
requireRemote(t) == t \in Related /\ FiresInWorker(t, "internalRequest")
unhandledPort(t) ==
    /\ fires
    /\ notifyMain(t, <<event("port", t, fired')>>)
    /\ UNCHANGED <<channels, toWorker, net, answering, heard>>

(* eventPort.onmessage.  A request that wants objects made is answered in  *)
(* time, any other is not: searchCache fails (see DistributedCache).       *)
receive(t, wantsNew) ==
    /\ thread[t] = "connected" /\ toWorker[t] # <<>>
    /\ LET e == Head(toWorker[t])
       IN  /\ e.name # "shutdown"
           /\ heard' = [heard EXCEPT ![t] = Append(@, e)]
           /\ notifyMain(t, onNotify(t, e))
           /\ wantsNew => e.name = "request" /\ t \in Owners
           /\ answering' = IF wantsNew THEN [answering EXCEPT ![t] = @ + 1] ELSE answering
    /\ toWorker' = [toWorker EXCEPT ![t] = Tail(@)]
    /\ UNCHANGED <<channels, net, fired>>

(* The objects are made, which fires a CRUD event, then the response goes. *)
newModels(t) ==
    /\ answering[t] > 0
    /\ answering' = [answering EXCEPT ![t] = @ - 1]
    /\ fired' = fired + 2
    /\ notifyMain(t, onNotify(t, event("crud", t, fired + 1))
                     \o <<event("response", t, fired')>>)
    /\ UNCHANGED <<channels, toWorker, net, heard>>

-----------------------------------------------------------------------------
(* The main thread                                                         *)

meshPublish(h, e) ==
    net' = IF h \in linked
           THEN [g \in Hosts |-> IF g \in linked \ {h} THEN Append(net[g], e) ELSE net[g]]
           ELSE net

(* broker.notify('to_worker'): threads that are loading are not told.      *)
notifyWorkers(h, e) ==
    toWorker' = [t \in Threads |-> IF onHost[t] = h /\ thread[t] # "loading"
                                   THEN Append(toWorker[t], e) ELSE toWorker[t]]

(* 'from_worker' goes to the mesh.                                         *)
fromWorker(t) ==
    /\ toMain[t] # <<>>
    /\ toMain' = [toMain EXCEPT ![t] = Tail(@)]
    /\ meshPublish(onHost[t], Head(toMain[t]))
    /\ UNCHANGED <<channels, toWorker, answering, fired, heard>>

fromMesh(h) ==
    /\ net[h] # <<>>
    /\ net' = [net EXCEPT ![h] = Tail(@)]
    /\ notifyWorkers(h, Head(net[h]))
    /\ UNCHANGED <<channels, toMain, answering, fired, heard>>
MeshLoses(h) ==
    /\ net[h] # <<>>
    /\ net' = [net EXCEPT ![h] = Tail(@)]
    /\ UNCHANGED <<channels, toWorker, toMain, answering, fired, heard>>

(* fireEvent, by scope.  "mesh" notifies the broker of the main thread,    *)
(* where nothing listens for it; "pool" posts what no worker can read;     *)
(* "response" runs a job, whose constructor drops the channel it is to run *)
(* on: it is rejected on the main channel, for no port has its name.  The  *)
(* three reach nobody.                                                     *)
user(h) == event("user", h, fired')
FireAtNobody(h) ==
    /\ fires
    /\ UNCHANGED <<channels, toWorker, toMain, net, answering, heard>>
FireHost(h) ==
    /\ fires /\ notifyWorkers(h, user(h))
    /\ UNCHANGED <<channels, toMain, net, answering, heard>>
FireThread(t) ==
    /\ thread[t] # "loading" /\ fires
    /\ toWorker' = [toWorker EXCEPT ![t] = Append(@, user(onHost[t]))]
    /\ UNCHANGED <<channels, toMain, net, answering, heard>>
FireNoPool(h) ==
    /\ fires /\ meshPublish(h, user(h))
    /\ UNCHANGED <<channels, toWorker, toMain, answering, heard>>

EventsNext ==
    \/ \E t \in Threads :
          \/ connectEventChannel(t) \/ connectSubChannels(t) \/ stop(t) \/ Exits(t)
          \/ CrudEvent(t) \/ requireRemote(t) \/ unhandledPort(t)
          \/ \E wantsNew \in BOOLEAN : receive(t, wantsNew)
          \/ newModels(t) \/ fromWorker(t) \/ FireThread(t)
    \/ \E h \in Hosts :
          \/ disposeMesh(h) \/ fromMesh(h) \/ MeshLoses(h)
          \/ FireAtNobody(h) \/ FireHost(h) \/ FireNoPool(h)

EventsSpec == EventsInit /\ [][EventsNext]_eventVars

-----------------------------------------------------------------------------
(* Property                                                                *)

(* However events are published again, forwarded and answered, whichever   *)
(* threads are stopped and started: a thread hears an event once at most,  *)
(* those of one sender in the order they were fired, and never an event of *)
(* a thread of its own host, whose objects it shares.                      *)
HeardOnceInOrder ==
    \A t \in Threads : \A j \in DOMAIN heard[t] :
        /\ heard[t][j].from \in Threads => onHost[heard[t][j].from] # onHost[t]
        /\ \A i \in 1..(j - 1) :
              heard[t][i].from = heard[t][j].from => heard[t][i].n < heard[t][j].n
=============================================================================
