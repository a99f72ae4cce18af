----------------------------- MODULE MongoProofs ----------------------------
(***************************************************************************)
(* Proofs about MongoSource, for any callers, size of the pool, records    *)
(* with any ids, and size of the buffer.                                   *)
(***************************************************************************)
EXTENDS MongoSource, JsArrayProofs, FiniteSetTheorems

-----------------------------------------------------------------------------
(* The pool                                                                *)

PoolTyped ==
    /\ connections \in Seq(Nat) /\ created \in Nat /\ indexesRun \in BOOLEAN
    /\ doing \in [Callers -> {"idle", "connecting", "indexing", "using"}]
    /\ client \in [Callers -> Nat]

LEMMA ConnectionType ==
    ASSUME PoolTyped, NEW c \in Callers, NEW conns \in Seq(Nat), connection(c, conns)
    PROVE  /\ connections' \in Seq(Nat) /\ created' \in Nat
           /\ doing' \in [Callers -> {"idle", "connecting", "indexing", "using"}]
           /\ client' \in [Callers -> Nat]
<1>1. CASE needsClient(conns)
  <2>1. /\ connections' = conns /\ created' = created + 1 /\ created + 1 \in Nat
        /\ client' = [client EXCEPT ![c] = created + 1]
        /\ doing' = [doing EXCEPT ![c] = "connecting"]
    BY <1>1 DEF connection, PoolTyped
  <2> QED BY <2>1 DEF PoolTyped
<1>2. CASE ~needsClient(conns)
  <2>1. conns # <<>>
    BY <1>2, MongoAssumption, EmptySeq DEF needsClient
  <2>2. Head(conns) \in Nat /\ Append(Tail(conns), Head(conns)) \in Seq(Nat)
    BY <2>1, HeadTailProperties, AppendProperties
  <2>3. /\ connections' = Append(Tail(conns), Head(conns)) /\ created' = created
        /\ client' = [client EXCEPT ![c] = Head(conns)]
        /\ doing' = [doing EXCEPT ![c] = IF indexesRun THEN "using" ELSE "indexing"]
    BY <1>2 DEF connection
  <2> QED BY <2>2, <2>3 DEF PoolTyped
<1> QED BY <1>1, <1>2

LEMMA PoolTypeStep == PoolTyped /\ [MongoNext]_mongoVars => PoolTyped'
<1> SUFFICES ASSUME PoolTyped, [MongoNext]_mongoVars PROVE PoolTyped'
  OBVIOUS
<1>1. ASSUME NEW c \in Callers, Begins(c) PROVE PoolTyped'
  BY <1>1, ConnectionType DEF Begins, PoolTyped
<1>2. ASSUME NEW c \in Callers, Connected(c) PROVE PoolTyped'
  <2>1. Append(connections, client[c]) \in Seq(Nat)
    BY AppendProperties DEF PoolTyped
  <2> QED BY <1>2, <2>1, ConnectionType DEF Connected, PoolTyped
<1>3. ASSUME NEW c \in Callers, createIndexes(c) \/ Ends(c) PROVE PoolTyped'
  <2>1. connections' = connections /\ created' = created /\ indexesRun' \in BOOLEAN
    BY <1>3 DEF createIndexes, Ends, PoolTyped
  <2>2. \/ doing' = [doing EXCEPT ![c] = "using"] /\ client' = client
        \/ doing' = [doing EXCEPT ![c] = "idle"] /\ client' = [client EXCEPT ![c] = 0]
    BY <1>3 DEF createIndexes, Ends, Over
  <2> QED BY <2>1, <2>2 DEF PoolTyped
<1>4. ASSUME NEW x \in 1..created, connectionClosed(x) PROVE PoolTyped'
  BY <1>4, SpliceOutType DEF connectionClosed, PoolTyped
<1>5. CASE UNCHANGED poolVars
  BY <1>5 DEF poolVars, PoolTyped
<1> QED BY <1>1, <1>2, <1>3, <1>4, <1>5
        DEF MongoNext, PoolNext, StreamNext, write, finish, upsert, mongoVars

(* Who is connecting found the pool short, so that every client of the     *)
(* pool and every client to come is below the bound.                       *)
Connecting == {c \in Callers : doing[c] = "connecting"}
PoolInv == Len(connections) + Cardinality(Connecting) < numConns + Cardinality(Callers)

LEMMA ConnectingFinite ==
    ASSUME NEW f PROVE LET waits == {c \in Callers : f[c] = "connecting"}
                       IN  /\ IsFiniteSet(waits) /\ Cardinality(waits) \in Nat
                           /\ Cardinality(waits) <= Cardinality(Callers)
                           /\ Cardinality(Callers) \in Nat
<1> DEFINE waits == {c \in Callers : f[c] = "connecting"}
<1>1. IsFiniteSet(Callers)
  BY MongoAssumption
<1>2. waits \in SUBSET Callers
  OBVIOUS
<1> HIDE DEF waits
<1>3. IsFiniteSet(waits) /\ Cardinality(waits) <= Cardinality(Callers)
  BY <1>1, <1>2, FS_Subset
<1>4. Cardinality(waits) \in Nat /\ Cardinality(Callers) \in Nat
  BY <1>1, <1>3, FS_CardinalityType
<1> QED BY <1>3, <1>4 DEF waits

(* One connection more or less is taken while the pool is short; else the  *)
(* caller has one of the pool's.                                           *)
LEMMA ConnectionBound ==
    ASSUME PoolTyped, NEW c \in Callers, NEW conns \in Seq(Nat), connection(c, conns)
    PROVE  \/ /\ Len(connections') < numConns
           \/ /\ Len(connections') = Len(conns)
              /\ Connecting' = Connecting \ {c}
<1>1. CASE needsClient(conns)
  BY <1>1 DEF connection, needsClient
<1>2. CASE ~needsClient(conns)
  <2>1. conns # <<>> /\ Len(conns) \in Nat \ {0}
    BY <1>2, MongoAssumption, EmptySeq DEF needsClient
  <2>2. Len(Append(Tail(conns), Head(conns))) = Len(conns)
    BY <2>1, HeadTailProperties, AppendProperties
  <2>3. Connecting' = Connecting \ {c}
    BY <1>2 DEF connection, Connecting, PoolTyped
  <2> QED BY <1>2, <2>2, <2>3 DEF connection
<1> QED BY <1>1, <1>2

LEMMA PoolStep == PoolTyped /\ PoolTyped' /\ PoolInv /\ [MongoNext]_mongoVars => PoolInv'
<1> SUFFICES ASSUME PoolTyped, PoolTyped', PoolInv, [MongoNext]_mongoVars PROVE PoolInv'
  OBVIOUS
<1> DEFINE n == Cardinality(Connecting)
           m == Cardinality(Connecting')
           all == Cardinality(Callers)
<1>1. /\ IsFiniteSet(Connecting) /\ n \in Nat /\ m \in Nat /\ m <= all /\ all \in Nat
      /\ numConns \in Nat /\ Len(connections) \in Nat /\ Len(connections') \in Nat
      /\ connections \in Seq(Nat) /\ Len(connections) + n < numConns + all
  BY MongoAssumption, ConnectingFinite, LenProperties DEF PoolTyped, PoolInv, Connecting
<1> HIDE DEF n, m, all
<1>2. ASSUME Len(connections') < numConns PROVE PoolInv'
  BY <1>1, <1>2 DEF PoolInv, m, all
<1>3. ASSUME Len(connections') + m <= Len(connections) + n PROVE PoolInv'
  BY <1>1, <1>3 DEF PoolInv, m, all
<1>4. ASSUME NEW c \in Callers, Begins(c) PROVE PoolInv'
  <2>1. CASE Len(connections') = Len(connections) /\ Connecting' = Connecting \ {c}
    <3>1. Cardinality(Connecting \ {c}) = IF c \in Connecting THEN n - 1 ELSE n
      BY <1>1, FS_RemoveElement DEF n
    <3>2. m <= n
      BY <1>1, <2>1, <3>1 DEF m
    <3> QED BY <1>1, <1>3, <2>1, <3>2
  <2> QED BY <1>1, <1>2, <1>4, <2>1, ConnectionBound DEF Begins
<1>5. ASSUME NEW c \in Callers, Connected(c) PROVE PoolInv'
  <2> DEFINE more == Append(connections, client[c])
  <2>1. more \in Seq(Nat) /\ Len(more) = Len(connections) + 1
    BY AppendProperties DEF PoolTyped
  <2>2. c \in Connecting /\ connection(c, more)
    BY <1>5 DEF Connected, Connecting
  <2>3. CASE Len(connections') = Len(more) /\ Connecting' = Connecting \ {c}
    <3>1. m = n - 1
      BY <1>1, <2>2, <2>3, FS_RemoveElement DEF m, n
    <3> QED BY <1>1, <1>3, <2>1, <2>3, <3>1
  <2> HIDE DEF more
  <2> QED BY <1>2, <2>1, <2>2, <2>3, ConnectionBound
<1>6. ASSUME NEW c \in Callers, createIndexes(c) \/ Ends(c) PROVE PoolInv'
  <2>1. connections' = connections /\ Connecting' = Connecting
    BY <1>6 DEF createIndexes, Ends, Over, Connecting, PoolTyped
  <2> QED BY <1>1, <1>3, <2>1 DEF m, n
<1>7. ASSUME NEW x \in 1..created, connectionClosed(x) PROVE PoolInv'
  <2>1. Connecting' = Connecting /\ Len(connections') <= Len(connections)
    BY <1>1, <1>7, SpliceOutShorter DEF connectionClosed, Connecting
  <2> QED BY <1>1, <1>3, <2>1 DEF m, n
<1>8. CASE UNCHANGED poolVars
  BY <1>8 DEF poolVars, PoolInv, Connecting
<1> QED BY <1>4, <1>5, <1>6, <1>7, <1>8
        DEF MongoNext, PoolNext, StreamNext, write, finish, upsert, mongoVars

(* The pool grows beyond its size only by the callers that found it short  *)
(* at the same time: for any number of callers and size of the pool,       *)
(* however often connections close.                                        *)
THEOREM PoolIsBounded == MongoSpec => []PoolBounded
<1>1. MongoInit => PoolTyped /\ PoolInv
  <2> SUFFICES ASSUME MongoInit PROVE PoolTyped /\ PoolInv
    OBVIOUS
  <2>1. connections = <<>> /\ Len(connections) = 0 /\ connections \in Seq(Nat)
    BY EmptySeq DEF MongoInit, PoolInit
  <2>2. PoolTyped
    BY <2>1 DEF MongoInit, PoolInit, PoolTyped
  <2>3. Cardinality(Connecting) <= Cardinality(Callers) /\ Cardinality(Connecting) \in Nat
        /\ Cardinality(Callers) \in Nat
    BY ConnectingFinite DEF Connecting
  <2> QED BY <2>1, <2>2, <2>3, MongoAssumption DEF PoolInv
<1>2. PoolTyped /\ PoolInv => PoolBounded
  <2> SUFFICES ASSUME PoolTyped, PoolInv PROVE PoolBounded
    OBVIOUS
  <2>1. Cardinality(Connecting) \in Nat /\ Cardinality(Callers) \in Nat
    BY ConnectingFinite DEF Connecting
  <2>2. Len(connections) \in Nat /\ numConns \in Nat
    BY LenProperties, MongoAssumption DEF PoolTyped
  <2> QED BY <2>1, <2>2 DEF PoolInv, PoolBounded
<1> QED BY <1>1, <1>2, PoolTypeStep, PoolStep, PTL DEF MongoSpec

-----------------------------------------------------------------------------
(* The stream                                                              *)

(* The records of an id that were written; 0 for none.                     *)
WrittenOf(id) == {0} \cup {i \in 1..written : idOf[i] = id}

(* The buffer has the records written last, what is stored of the others   *)
(* is the last one of each id, and there is a last one.                    *)
StreamTyped ==
    /\ written \in 0..Len(idOf) /\ objects \in Seq(Nat) /\ Len(objects) <= written
    /\ \A i \in 1..Len(objects) : objects[i] = written - Len(objects) + i
    /\ batch \in {<<>>, objects}
    /\ ended = "stored" => objects = <<>>
LastOfEach == \A id \in Ids : \E m \in WrittenOf(id) : \A i \in WrittenOf(id) : i <= m
OthersStored ==
    \A id \in Ids : (\A r \in ToSet(objects) : idOf[r] # id) => stored[id] = Max(WrittenOf(id))
StreamInv == StreamTyped /\ LastOfEach /\ OthersStored

LEMMA MaxIs ==
    ASSUME NEW S \in SUBSET Nat, NEW m \in S, \A i \in S : i <= m
    PROVE  Max(S) = m
<1>1. ASSUME NEW x \in S, \A y \in S : x >= y PROVE x = m
  BY <1>1
<1>2. \A y \in S : m >= y
  OBVIOUS
<1> QED BY <1>1, <1>2 DEF Max

(* What the buffer has: all that was written after the first few.          *)
LEMMA BufferFacts ==
    ASSUME StreamTyped
    PROVE  /\ Len(idOf) \in Nat /\ written \in Nat /\ Len(objects) \in Nat
           /\ ToSet(objects) = (written - Len(objects) + 1)..written
           /\ ToSet(objects) \subseteq 1..written
<1>1. Len(idOf) \in Nat /\ written \in Nat /\ Len(objects) \in Nat /\ Len(objects) <= written
      /\ DOMAIN objects = 1..Len(objects)
  BY MongoAssumption, LenProperties DEF StreamTyped
<1>2. ToSet(objects) = {written - Len(objects) + i : i \in 1..Len(objects)}
  BY <1>1 DEF ToSet, StreamTyped
<1> DEFINE from == written - Len(objects)
<1>3. from \in Nat /\ from + Len(objects) = written
  BY <1>1
<1> HIDE DEF from
<1>4. {from + i : i \in 1..Len(objects)} = (from + 1)..written
  <2>1. ASSUME NEW r \in (from + 1)..written PROVE \E i \in 1..Len(objects) : r = from + i
    <3>1. r - from \in 1..Len(objects) /\ r = from + (r - from)
      BY <1>1, <1>3
    <3> QED BY <3>1
  <2>2. ASSUME NEW i \in 1..Len(objects) PROVE from + i \in (from + 1)..written
    BY <1>1, <1>3
  <2> QED BY <2>1, <2>2
<1>5. (from + 1)..written \subseteq 1..written
  BY <1>1, <1>3
<1> QED BY <1>1, <1>2, <1>4, <1>5 DEF from

LEMMA WriteStep == ASSUME StreamInv, write PROVE StreamInv'
<1>1. /\ written' = written + 1 /\ objects' = Append(objects, written + 1)
      /\ batch = <<>> /\ batch' \in {<<>>, objects'}
      /\ ended = "no" /\ ended' = ended /\ stored' = stored /\ written < Len(idOf)
  BY DEF write, nextCalled
<1>2. /\ Len(idOf) \in Nat /\ written \in Nat /\ Len(objects) \in Nat /\ objects \in Seq(Nat)
      /\ Len(objects) <= written /\ written + 1 \in Nat
      /\ \A i \in 1..Len(objects) : objects[i] = written - Len(objects) + i
  BY BufferFacts DEF StreamInv, StreamTyped
<1>3. /\ objects' \in Seq(Nat) /\ Len(objects') = Len(objects) + 1
      /\ \A i \in 1..Len(objects) : objects'[i] = objects[i]
      /\ objects'[Len(objects) + 1] = written + 1
      /\ ToSet(objects') = ToSet(objects) \cup {written + 1}
  BY <1>1, <1>2, AppendProperties, PushFacts
<1>4. StreamTyped'
  <2>1. ASSUME NEW i \in 1..(Len(objects) + 1)
        PROVE  objects'[i] = written + 1 - (Len(objects) + 1) + i
    <3>1. CASE i = Len(objects) + 1
      BY <1>2, <1>3, <3>1
    <3>2. CASE i \in 1..Len(objects)
      <4>1. objects'[i] = written - Len(objects) + i
        BY <1>2, <1>3, <3>2
      <4> QED BY <1>2, <3>2, <4>1
    <3> QED BY <1>2, <3>1, <3>2
  <2> QED BY <1>1, <1>2, <1>3, <2>1 DEF StreamTyped
<1>5. \A id \in Ids : WrittenOf(id)' = WrittenOf(id) \cup
                         (IF idOf[written + 1] = id THEN {written + 1} ELSE {})
  <2>1. 1..(written + 1) = 1..written \cup {written + 1}
    BY <1>2
  <2> QED BY <1>1, <2>1 DEF WrittenOf
<1>6. LastOfEach'
  <2> SUFFICES ASSUME NEW id \in Ids
               PROVE  \E m \in WrittenOf(id)' : \A i \in WrittenOf(id)' : i <= m
    BY DEF LastOfEach
  <2>1. PICK m \in WrittenOf(id) : \A i \in WrittenOf(id) : i <= m
    BY DEF StreamInv, LastOfEach
  <2>2. WrittenOf(id) \subseteq 0..written
    BY <1>2 DEF WrittenOf
  <2>3. CASE idOf[written + 1] = id
    <3>1. \A i \in WrittenOf(id)' : i <= written + 1
      BY <1>2, <1>5, <2>2, <2>3
    <3> QED BY <1>5, <2>3, <3>1
  <2>4. CASE idOf[written + 1] # id
    BY <1>5, <2>1, <2>4
  <2> QED BY <2>3, <2>4
<1>7. OthersStored'
  <2> SUFFICES ASSUME NEW id \in Ids, \A r \in ToSet(objects') : idOf[r] # id
               PROVE  stored'[id] = Max(WrittenOf(id)')
    BY DEF OthersStored
  <2>0. idOf[written + 1] # id
    BY <1>3
  <2>1. WrittenOf(id)' = WrittenOf(id)
    BY <1>5, <2>0
  <2>2. \A r \in ToSet(objects) : idOf[r] # id
    BY <1>3
  <2> QED BY <1>1, <2>1, <2>2 DEF StreamInv, OthersStored
<1> QED BY <1>4, <1>6, <1>7 DEF StreamInv

(* Records that are stored in the order they were written leave the last   *)
(* one of each id.                                                         *)
LEMMA ReplacedFacts ==
    ASSUME StreamInv, batch # <<>>, NEW id \in Ids
    PROVE  replaceOnes(batch)[id] = Max(WrittenOf(id))
<1> DEFINE own == {r \in Range(batch) : idOf[r] = id}
<1>1. batch = objects /\ Range(batch) = ToSet(objects)
  BY DEF StreamInv, StreamTyped, Range, ToSet
<1>2. CASE own = {}
  <2>1. stored[id] = Max(WrittenOf(id))
    BY <1>1, <1>2 DEF StreamInv, OthersStored
  <2> QED BY <1>2, <2>1 DEF replaceOnes
<1>3. CASE own # {}
  <2>1. PICK m \in WrittenOf(id) : \A i \in WrittenOf(id) : i <= m
    BY DEF StreamInv, LastOfEach
  <2>2. /\ written \in Nat /\ Len(objects) \in Nat
        /\ ToSet(objects) = (written - Len(objects) + 1)..written
        /\ ToSet(objects) \subseteq 1..written
    BY BufferFacts DEF StreamInv
  <2>3. own \subseteq WrittenOf(id) /\ WrittenOf(id) \subseteq 0..written
    BY <1>1, <2>2 DEF WrittenOf
  <2>4. PICK r \in own : TRUE
    BY <1>3
  <2>5. r <= m /\ r >= written - Len(objects) + 1 /\ r >= 1 /\ m \in 0..written /\ r \in Nat
    BY <1>1, <2>1, <2>2, <2>3, <2>4
  <2>6. m \in (written - Len(objects) + 1)..written /\ m # 0
    BY <2>2, <2>5
  <2>7. m \in own
    BY <1>1, <2>1, <2>2, <2>6 DEF WrittenOf
  <2>8. Max(WrittenOf(id)) = m
    BY <2>1, <2>2, <2>3, MaxIs
  <2>9. Max(own) = m
    BY <2>1, <2>2, <2>3, <2>7, MaxIs
  <2> QED BY <1>3, <2>8, <2>9 DEF replaceOnes
<1> QED BY <1>2, <1>3

LEMMA UpsertStep == ASSUME StreamInv, upsert PROVE StreamInv'
<1>1. batch # <<>> /\ batch' = <<>> /\ written' = written
  BY DEF upsert
<1>2. batch = objects /\ objects # <<>> /\ ended # "stored" /\ LastOfEach'
  BY <1>1 DEF StreamInv, StreamTyped, LastOfEach, WrittenOf
<1>3. ASSUME stored' = replaceOnes(batch), objects' = <<>> PROVE StreamInv'
  <2>1. Len(objects') = 0 /\ objects' \in Seq(Nat) /\ 0 <= written
    BY <1>3, EmptySeq, BufferFacts DEF StreamInv
  <2>2. StreamTyped'
    BY <1>1, <1>3, <2>1 DEF StreamInv, StreamTyped
  <2>3. OthersStored'
    BY <1>1, <1>3, ReplacedFacts DEF OthersStored, WrittenOf
  <2> QED BY <1>2, <2>2, <2>3 DEF StreamInv
<1>4. ASSUME NEW n \in 0..Len(batch), stored' = replaceOnes(SubSeq(batch, 1, n)),
             objects' = objects, ended' # "stored"
      PROVE  StreamInv'
  <2>1. StreamTyped'
    BY <1>1, <1>4 DEF StreamInv, StreamTyped
  <2>2. ASSUME NEW id \in Ids, \A r \in ToSet(objects) : idOf[r] # id
        PROVE  stored'[id] = Max(WrittenOf(id))
    <3>1. /\ objects \in Seq(Nat) /\ Len(objects) \in Nat /\ DOMAIN objects = 1..Len(objects)
          /\ \A i \in 1..n : objects[i] \in Nat
      BY <1>2, <1>4, LenProperties, ElementOfSeq DEF StreamInv, StreamTyped
    <3>2. /\ Len(SubSeq(objects, 1, n)) = n
          /\ \A i \in 1..n : SubSeq(objects, 1, n)[i] = objects[i]
          /\ SubSeq(objects, 1, n) \in Seq(Nat)
      BY <1>2, <1>4, <3>1, SubSeqProperties
    <3>3. DOMAIN SubSeq(objects, 1, n) = 1..n
      BY <3>2, LenProperties
    <3>4. Range(SubSeq(objects, 1, n)) \subseteq ToSet(objects)
      BY <1>2, <1>4, <3>1, <3>2, <3>3 DEF Range, ToSet
    <3>5. stored'[id] = stored[id]
      BY <1>2, <1>4, <2>2, <3>4 DEF replaceOnes
    <3> QED BY <2>2, <3>5 DEF StreamInv, OthersStored
  <2>3. OthersStored'
    BY <1>1, <1>4, <2>2 DEF OthersStored, WrittenOf
  <2> QED BY <1>2, <2>1, <2>3 DEF StreamInv
<1> QED BY <1>2, <1>3, <1>4 DEF upsert

LEMMA StreamStep == StreamInv /\ [MongoNext]_mongoVars => StreamInv'
<1> SUFFICES ASSUME StreamInv, [MongoNext]_mongoVars PROVE StreamInv'
  OBVIOUS
<1>1. CASE finish
  <2>1. /\ written' = written /\ objects' = objects /\ stored' = stored /\ batch' = objects
        /\ ended' = IF objects = <<>> THEN "stored" ELSE "finishing"
    BY <1>1 DEF finish
  <2> QED BY <2>1 DEF StreamInv, StreamTyped, LastOfEach, OthersStored, WrittenOf
<1>2. CASE UNCHANGED streamVars
  BY <1>2 DEF streamVars, StreamInv, StreamTyped, LastOfEach, OthersStored, WrittenOf
<1> QED BY <1>1, <1>2, WriteStep, UpsertStep
        DEF MongoNext, PoolNext, StreamNext, Begins, Connected, createIndexes, Ends,
            connectionClosed, mongoVars

(* A stream that has ended, and whose last upsert worked, has stored the   *)
(* last record of each id: for any records with any ids and any size of    *)
(* the buffer, whichever batches before failed, after any of their records.*)
THEOREM StreamIsStored == MongoSpec => []StreamStored
<1>1. MongoInit => StreamInv
  <2> SUFFICES ASSUME MongoInit PROVE StreamInv
    OBVIOUS
  <2>1. written = 0 /\ objects = <<>> /\ batch = <<>> /\ ended = "no"
        /\ \A id \in Ids : stored[id] = 0
    BY DEF MongoInit, StreamInit
  <2>2. Len(objects) = 0 /\ objects \in Seq(Nat) /\ Len(idOf) \in Nat
    BY <2>1, MongoAssumption, EmptySeq, LenProperties
  <2>3. StreamTyped
    BY <2>1, <2>2 DEF StreamTyped
  <2>4. \A id \in Ids : WrittenOf(id) = {0}
    BY <2>1 DEF WrittenOf
  <2>5. Max({0}) = 0
    BY MaxIs
  <2>6. LastOfEach
    BY <2>4 DEF LastOfEach
  <2>7. OthersStored
    BY <2>1, <2>4, <2>5 DEF OthersStored
  <2> QED BY <2>3, <2>6, <2>7 DEF StreamInv
<1>2. StreamInv => StreamStored
  <2> SUFFICES ASSUME StreamInv, ended = "stored", NEW id \in Ids
               PROVE  stored[id] = Max(WrittenOf(id))
    BY DEF StreamStored, WrittenOf
  <2>1. ToSet(objects) = {}
    BY DEF StreamInv, StreamTyped, ToSet
  <2> QED BY <2>1 DEF StreamInv, OthersStored
<1> QED BY <1>1, <1>2, StreamStep, PTL DEF MongoSpec
=============================================================================
