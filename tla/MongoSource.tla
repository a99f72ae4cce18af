------------------------------ MODULE MongoSource ------------------------------
(***************************************************************************)
(* The MongoDB datasource: its pool of clients and its write stream.       *)
(* Source: adapters/datasources/datasource-mongodb.js.                     *)
(*                                                                         *)
(* The pool is shared by the datasources of a process; callers are         *)
(* operations (find, save, ...) under way.  Each await is a point at which *)
(* another runs.  Clients are numbered.                                    *)
(***************************************************************************)
EXTENDS Naturals, FiniteSets, JsArray

CONSTANTS
    Callers,
    numConns,
    HIGHWATERMARK,
    idOf,           \* of each record that is streamed, in this order
    MaxClients,     \* bound: clients created
    MaxCloses       \* bound: connections closed

ASSUME MongoAssumption ==
    /\ IsFiniteSet(Callers)
    /\ numConns \in Nat \ {0} /\ HIGHWATERMARK \in Nat \ {0}
    /\ idOf \in Seq(Range(idOf))
    /\ MaxClients \in Nat /\ MaxCloses \in Nat

VARIABLES
    (* the pool *)
    connections,
    created,      \* clients there are
    closes,       \* connections closed
    doing,        \* of each caller: "idle", "connecting", "indexing", "using"
    client,       \* it connects, or has got; 0 if none
    indexesRun,   \* indexesHaveBeenRun, or there are none
    (* the stream *)
    written,      \* records written to the stream
    objects,      \* the buffer
    batch,        \* what bulkWrite is storing; <<>> if nothing
    ended,        \* "no", "finishing" (the last upsert), "lost" (which failed), "stored"
    stored        \* the record stored last under each id, 0 if none

poolVars   == <<connections, created, closes, doing, client, indexesRun>>
streamVars == <<written, objects, batch, ended, stored>>
mongoVars  == <<poolVars, streamVars>>

Ids == Range(idOf)

PoolInit ==
    /\ connections = <<>> /\ created = 0 /\ closes = 0 /\ indexesRun \in BOOLEAN
    /\ doing = [c \in Callers |-> "idle"]
    /\ client = [c \in Callers |-> 0]
StreamInit ==
    /\ written = 0 /\ objects = <<>> /\ batch = <<>> /\ ended = "no"
    /\ stored = [id \in Ids |-> 0]
MongoInit == PoolInit /\ StreamInit

-----------------------------------------------------------------------------
(* The pool                                                                *)

(* Variant: one more than there should be.                                 *)
needsClientMore(conns) == Len(conns) <= numConns
needsClient(conns) == Len(conns) < numConns

(* connection: while the pool is short, a client is created and connected; *)
(* then the first of the pool goes to its end, and is taken.  The indexes  *)
(* are created by who finds they were not.                                 *)
connection(c, conns) ==
    IF needsClient(conns)
    THEN /\ created < MaxClients
         /\ created' = created + 1
         /\ client' = [client EXCEPT ![c] = created + 1]
         /\ doing' = [doing EXCEPT ![c] = "connecting"]
         /\ connections' = conns
    ELSE /\ connections' = Append(Tail(conns), Head(conns))
         /\ client' = [client EXCEPT ![c] = Head(conns)]
         /\ doing' = [doing EXCEPT ![c] = IF indexesRun THEN "using" ELSE "indexing"]
         /\ UNCHANGED created

Begins(c) ==
    /\ doing[c] = "idle"
    /\ connection(c, connections)
    /\ UNCHANGED <<closes, indexesRun, streamVars>>

(* The breaker has invoked connect.  It throws nothing: the client joins   *)
(* the pool whether it has connected, has not, or was not tried.           *)
Connected(c) ==
    /\ doing[c] = "connecting"
    /\ connection(c, Append(connections, client[c]))
    /\ UNCHANGED <<closes, indexesRun, streamVars>>

(* The operation is over, whatever it makes of an error.                   *)
Over(c) ==
    /\ doing' = [doing EXCEPT ![c] = "idle"]
    /\ client' = [client EXCEPT ![c] = 0]

(* createIndexes: if it fails there is no connection.                      *)
createIndexes(c) ==
    /\ doing[c] = "indexing"
    /\ \/ /\ indexesRun' = TRUE
          /\ doing' = [doing EXCEPT ![c] = "using"]
          /\ UNCHANGED client
       \/ Over(c) /\ UNCHANGED indexesRun
    /\ UNCHANGED <<connections, created, closes, streamVars>>

Ends(c) ==
    /\ doing[c] = "using"
    /\ Over(c)
    /\ UNCHANGED <<connections, created, closes, indexesRun, streamVars>>

(* 'connectionClosed' of a client that joined the pool.  It may come more  *)
(* than once: indexOf is then -1, and the last of the pool is removed.     *)
connectionClosed(x) ==
    /\ closes < MaxCloses
    /\ \A c \in Callers : ~(doing[c] = "connecting" /\ client[c] = x)
    /\ closes' = closes + 1
    /\ connections' = SpliceOut(connections, x)
    /\ UNCHANGED <<created, doing, client, indexesRun, streamVars>>

-----------------------------------------------------------------------------
(* The write stream                                                        *)

(* The stream gives the next record when next was called.  Variant: it is  *)
(* called before the batch is stored.                                      *)
calledEarly == TRUE
nextCalled == batch = <<>>

(* write: a full buffer is stored.                                         *)
write ==
    /\ ended = "no" /\ written < Len(idOf) /\ nextCalled
    /\ written' = written + 1
    /\ objects' = Append(objects, written + 1)
    /\ batch' = IF Len(objects') >= HIGHWATERMARK /\ batch = <<>> THEN objects' ELSE batch
    /\ UNCHANGED <<ended, stored, poolVars>>

(* 'finish': the rest is stored.                                           *)
finish ==
    /\ ended = "no" /\ nextCalled
    /\ ended' = IF objects = <<>> THEN "stored" ELSE "finishing"
    /\ batch' = objects
    /\ UNCHANGED <<written, objects, stored, poolVars>>

(* upsert: bulkWrite stores the batch in its order, and the buffer is      *)
(* emptied; or it fails (after some of them), and the records are kept for  *)
(* the next batch.                                                         *)
replaceOnes(records) ==
    [id \in Ids |->
        LET own == {r \in Range(records) : idOf[r] = id}
        IN  IF own = {} THEN stored[id] ELSE Max(own)]
upsert ==
    /\ batch # <<>>
    /\ batch' = <<>>
    /\ \/ /\ stored' = replaceOnes(batch)
          /\ objects' = <<>>
          /\ ended' = IF ended = "finishing" THEN "stored" ELSE ended
       \/ /\ \E n \in 0 .. Len(batch) : stored' = replaceOnes(SubSeq(batch, 1, n))
          /\ UNCHANGED objects
          /\ ended' = IF ended = "finishing" THEN "lost" ELSE ended
    /\ UNCHANGED <<written, poolVars>>

-----------------------------------------------------------------------------
PoolNext ==
    \/ \E c \in Callers : Begins(c) \/ Connected(c) \/ createIndexes(c) \/ Ends(c)
    \/ \E x \in 1 .. created : connectionClosed(x)
StreamNext == write \/ finish \/ upsert
MongoNext == PoolNext \/ StreamNext

MongoSpec == MongoInit /\ [][MongoNext]_mongoVars

-----------------------------------------------------------------------------
(* Properties                                                              *)

(* The pool grows beyond numConns only by the callers that found it short  *)
(* at the same time.                                                       *)
PoolBounded == Len(connections) < numConns + Cardinality(Callers)

(* A stream that has ended, and whose last upsert worked, has stored every *)
(* record, the last one of each id, even if batches before it failed.      *)
StreamStored ==
    ended = "stored" =>
        \A id \in Ids : stored[id] = Max({0} \cup {i \in 1 .. written : idOf[i] = id})
=============================================================================
