-------------------------------- MODULE MCMesh --------------------------------
(* Small instances of Mesh, HostEvents, MongoSource, EventBroker, Requests *)
(* and CircuitBreaker for TLC, checked in one run.  They do not interact:  *)
(* one of them moves, the others stay as they are at first.                *)
EXTENDS Mesh, HostEvents, MongoSource, EventBroker, Requests, MCCircuitBreaker

CONSTANTS n1, n2, o1, o2, r2, p1, p2, h1, h2, h3, e1, q1, q2

threeLives == [n \in Nodes |-> IF n = n1 THEN 3 ELSE 1]
twoHosts == (o1 :> "h1") @@ (o2 :> "h2") @@ (r2 :> "h2")
records == <<"x", "y", "x", "x", "y">>
allOfOne == [h \in Handlers |-> e1]

allVars == <<meshVars, eventVars, mongoVars, brokerVars, requestVars, vars>>
MCInit == MeshInit /\ EventsInit /\ MongoInit /\ BrokerInit /\ RequestsInit /\ Init

\* Only the one whose turn it is has left its initial state; of the two that
\* the pool has, the others move in one.
Others(turn) ==
    /\ turn # "mesh"     => MeshInit /\ UNCHANGED meshVars
    /\ turn # "events"   => EventsInit /\ UNCHANGED eventVars
    /\ turn # "pool"     => PoolInit /\ indexesRun /\ UNCHANGED poolVars
    /\ turn # "stream"   => StreamInit /\ UNCHANGED streamVars
    /\ turn # "broker"   => BrokerInit /\ UNCHANGED brokerVars
    /\ turn # "requests" => RequestsInit /\ UNCHANGED requestVars
    /\ turn # "breaker"  => Init /\ UNCHANGED vars
MCNext ==
    \/ Others("mesh") /\ MeshNext
    \/ Others("events") /\ EventsNext
    \/ Others("pool") /\ PoolNext
    \/ Others("stream") /\ StreamNext
    \/ Others("broker") /\ BrokerNext
    \/ Others("requests") /\ RequestsNext
    \/ Others("breaker") /\ Next
MCSpec == MCInit /\ [][MCNext]_allVars
=============================================================================
