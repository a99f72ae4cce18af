--------------------------------- MODULE Mesh ---------------------------------
(***************************************************************************)
(* The service mesh: nodes with one websocket each to a switch that        *)
(* broadcasts what they publish.  Sources: the switch is                   *)
(* services/service-mesh/web-switch/switch.js, the node                    *)
(* adapters/service-mesh/domain/webswitch.js with its socket,              *)
(* adapters/service-mesh/adapters/websocket-adapter.js.                    *)
(*                                                                         *)
(* A node's process keeps its name (host and pid) when it starts again, as *)
(* the process of a container does.  The adapter opens one socket in the   *)
(* life of a process, so a connection is named by node and life; to        *)
(* connect again, 5 s after the socket closed, has no effect.              *)
(*                                                                         *)
(* websocket-adapter.js imports no WebSocket: a node connects only where   *)
(* the environment has a global of that name, which is assumed here.  The  *)
(* errors without it or without a url, in a port that is then tried again, *)
(* are left out.                                                           *)
(*                                                                         *)
(* A link loses nothing and keeps the order, until it is cut: then neither *)
(* end is told.                                                            *)
(*                                                                         *)
(* What the switch tells a client of itself and of the others, and the     *)
(* telemetry it gets, are left out: nothing reads them.                    *)
(***************************************************************************)
EXTENDS Naturals, Sequences, FiniteSets, SequencesExt

CONSTANTS
    Nodes,
    CLIENT_MAX_ERRORS,
    MaxLives,     \* bound: processes each node has, one after the other
    MaxMsgs,      \* bound: events published
    MaxIncidents  \* bound: deaths, cuts, errors, bad and buffered messages

ASSUME MeshAssumption ==
    /\ MaxLives \in [Nodes -> Nat] /\ MaxMsgs \in Nat /\ MaxIncidents \in Nat
    /\ CLIENT_MAX_ERRORS \in Nat

VARIABLES
    (* node *)
    life,      \* number of the process, 0 before the first
    socket,    \* readyState: "none" (no process), "connecting", "open", "closed"
    pong,      \* an answer to the last ping has come
    unheard,   \* history: pings since the link was cut, at most two are counted
    timers,    \* "heartbeat", "flush" (sendQueuedMsgs)
    sendQueue,
    (* switch *)
    conn,      \* its side of each connection: "open", "closing", "terminated", "closed"
    errors,    \* of each connection
    clients,   \* by name: the life of the connection, 0 if there is none
    (* links *)
    toSwitch, toClient,
    cut,       \* the connections that are dead, unknown to both ends
    (* history *)
    published, incidents,  \* how many there were
    received,  \* what came to the node on each connection
    overlapped \* the connections accepted before all earlier ones of their name had closed

nodeVars   == <<life, socket, pong, unheard, timers, sendQueue>>
switchVars == <<conn, errors, clients>>
links      == <<toSwitch, toClient, cut>>
meshVars   == <<nodeVars, switchVars, links, published, incidents, received, overlapped>>

Conn(n) == <<n, life[n]>>
Conns == DOMAIN conn

MeshIncident == incidents < MaxIncidents /\ incidents' = incidents + 1

MeshInit ==
    /\ life = [n \in Nodes |-> 0] /\ socket = [n \in Nodes |-> "none"]
    /\ pong = [n \in Nodes |-> TRUE] /\ unheard = [n \in Nodes |-> 0]
    /\ timers = [n \in Nodes |-> {}]
    /\ sendQueue = [n \in Nodes |-> <<>>]
    /\ conn = <<>> /\ errors = <<>> /\ toSwitch = <<>> /\ toClient = <<>> /\ received = <<>>
    /\ clients = [n \in Nodes |-> 0]
    /\ cut = {} /\ overlapped = {} /\ published = 0 /\ incidents = 0

-----------------------------------------------------------------------------
(* The node                                                                *)

(* send: what cannot be sent is lost, for websocketSend is a port, so send *)
(* sees a promise, never false.  Variant: it waits for the result, and the *)
(* message is queued.                                                      *)
sendOrEnqueue(n, msg, sendable) ==
    IF sendable
    THEN toSwitch' = [toSwitch EXCEPT ![Conn(n)] = Append(@, msg)] /\ UNCHANGED sendQueue
    ELSE sendQueue' = [sendQueue EXCEPT ![n] = Append(@, msg)] /\ UNCHANGED toSwitch
send(n, msg, sendable) ==
    /\ toSwitch' = IF sendable THEN [toSwitch EXCEPT ![Conn(n)] = Append(@, msg)] ELSE toSwitch
    /\ UNCHANGED sendQueue

publishEvent(n, sendable) ==
    /\ socket[n] # "none" /\ published < MaxMsgs
    /\ published' = published + 1
    /\ send(n, published + 1, sendable)
    /\ UNCHANGED <<life, socket, pong, unheard, timers, switchVars, toClient, cut, received,
                   overlapped>>
publish(n) == publishEvent(n, socket[n] = "open") /\ UNCHANGED incidents
(* What was sent before is still in the socket's buffer.                   *)
PublishBuffered(n) == socket[n] = "open" /\ MeshIncident /\ publishEvent(n, FALSE)

(* websocketOnOpen: the heartbeat begins with a ping; queued messages will *)
(* be sent in 3 s.                                                         *)
Opens(n) ==
    /\ socket[n] = "connecting" /\ conn[Conn(n)] = "open"
    /\ socket' = [socket EXCEPT ![n] = "open"]
    /\ pong' = [pong EXCEPT ![n] = FALSE]
    /\ timers' = [timers EXCEPT ![n] = {"heartbeat", "flush"}]
    /\ UNCHANGED <<life, unheard, sendQueue, switchVars, links, published, incidents,
                   received, overlapped>>

sendQueuedMsgs(n) ==
    /\ "flush" \in timers[n]
    /\ timers' = [timers EXCEPT ![n] = @ \ {"flush"}]
    /\ IF socket[n] = "open"
       THEN /\ toSwitch' = [toSwitch EXCEPT ![Conn(n)] = @ \o sendQueue[n]]
            /\ sendQueue' = [sendQueue EXCEPT ![n] = <<>>]
       ELSE UNCHANGED <<toSwitch, sendQueue>>
    /\ UNCHANGED <<life, socket, pong, unheard, switchVars, toClient, cut, published,
                   incidents,
                   received, overlapped>>

(* websocketOnClose: the heartbeat stops, and nothing comes any more on    *)
(* this connection.  Variant: the heartbeat goes on.                       *)
SocketEnds(n, state) ==
    /\ socket' = [socket EXCEPT ![n] = state]
    /\ timers' = [timers EXCEPT ![n] = IF state = "none" THEN {} ELSE @ \ {"heartbeat"}]
    /\ toClient' = [toClient EXCEPT ![Conn(n)] = <<>>]
    /\ received' = [received EXCEPT ![Conn(n)] = <<>>]

(* heartbeat: if the last ping was not answered, timeout() ends the        *)
(* socket.  Variant: it pings again without a reset of pong.               *)
Unheard(n) == unheard' = [unheard EXCEPT ![n] = IF Conn(n) \in cut /\ @ < 2 THEN @ + 1 ELSE @]
PingKeepsPong(n) == Unheard(n) /\ UNCHANGED pong
Ping(n) == Unheard(n) /\ pong' = [pong EXCEPT ![n] = FALSE]
heartbeat(n) ==
    /\ "heartbeat" \in timers[n]
    /\ IF pong[n] THEN Ping(n) /\ UNCHANGED <<socket, timers, toClient, received>>
       ELSE SocketEnds(n, "closed") /\ UNCHANGED <<pong, unheard>>
    /\ UNCHANGED <<life, sendQueue, switchVars, toSwitch, cut, published, incidents, overlapped>>

(* The switch has answered a ping.                                         *)
websocketOnPong(n) ==
    /\ socket[n] = "open" /\ ~pong[n]
    /\ conn[Conn(n)] \in {"open", "closing"} /\ Conn(n) \notin cut
    /\ pong' = [pong EXCEPT ![n] = TRUE]
    /\ UNCHANGED <<life, socket, unheard, timers, sendQueue, switchVars, links, published,
                   incidents,
                   received, overlapped>>

(* The switch has closed, or the link is given up.                         *)
websocketOnClose(n) ==
    /\ socket[n] \in {"connecting", "open"}
    /\ conn[Conn(n)] # "open" \/ Conn(n) \in cut
    /\ SocketEnds(n, "closed")
    /\ UNCHANGED <<life, pong, unheard, sendQueue, switchVars, toSwitch, cut, published,
                   incidents, overlapped>>

websocketOnMessage(n) ==
    LET c == Conn(n)
    IN  /\ socket[n] = "open" /\ toClient[c] # <<>> /\ c \notin cut
        /\ toClient' = [toClient EXCEPT ![c] = Tail(@)]
        /\ received' = [received EXCEPT ![c] = Append(@, Head(toClient[c]))]
        /\ UNCHANGED <<nodeVars, switchVars, toSwitch, cut, published, incidents, overlapped>>

Die(n) ==
    /\ MeshIncident
    /\ socket[n] # "none"
    /\ SocketEnds(n, "none")
    /\ sendQueue' = [sendQueue EXCEPT ![n] = <<>>]
    /\ UNCHANGED <<life, pong, unheard, switchVars, toSwitch, cut, published, overlapped>>

-----------------------------------------------------------------------------
(* The switch                                                              *)

(* What is kept of each connection begins with it.                         *)
withConn(f, c, begin) == [d \in DOMAIN f \cup {c} |-> IF d = c THEN begin ELSE f[d]]

(* 'connection': a client of the same name is closed and terminated; the   *)
(* new one takes its place.  Variant: the old one stays in its place.      *)
initClientKeepsOld(c) ==
    /\ conn' = withConn(conn, c, "open")
    /\ clients' = [clients EXCEPT ![c[1]] = IF @ # 0 THEN @ ELSE c[2]]
initClient(c) ==
    /\ conn' = [d \in Conns \cup {c} |->
                    IF d = c THEN "open"
                    ELSE IF d = <<c[1], clients[c[1]]>> THEN "terminated" ELSE conn[d]]
    /\ clients' = [clients EXCEPT ![c[1]] = c[2]]

(* A node's process starts and connects, if it finds a WebSocket.          *)
connect(n) ==
    LET c == <<n, life[n] + 1>>
    IN  /\ socket[n] = "none" /\ life[n] < MaxLives[n]
        /\ life' = [life EXCEPT ![n] = @ + 1]
        /\ socket' = [socket EXCEPT ![n] = "connecting"]
        /\ pong' = [pong EXCEPT ![n] = TRUE] /\ unheard' = [unheard EXCEPT ![n] = 0]
        /\ initClient(c)
        /\ errors' = withConn(errors, c, 0)
        /\ toSwitch' = withConn(toSwitch, c, <<>>)
        /\ toClient' = withConn(toClient, c, <<>>)
        /\ received' = withConn(received, c, <<>>)
        /\ overlapped' = IF \E d \in Conns : d[1] = n /\ conn[d] # "closed"
                         THEN overlapped \cup {c} ELSE overlapped
        /\ UNCHANGED <<timers, sendQueue, cut, published, incidents>>

(* router.broadcast: publish to all clients but the sender, if their       *)
(* socket is open (it is never tried again).  What is sent to a process    *)
(* that is gone is left out.  The other routes are never taken: the route  *)
(* is looked up in the encoded message.                                    *)
broadcast(msg, sender) ==
    [c \in Conns |->
        IF clients[c[1]] = c[2] /\ c # sender /\ conn[c] = "open" /\ socket[c[1]] # "none"
        THEN Append(toClient[c], msg) ELSE toClient[c]]

(* 'message': the event is broadcast.                                      *)
handleEvent(c) ==
    /\ conn[c] \in {"open", "closing"} /\ toSwitch[c] # <<>> /\ c \notin cut
    /\ toSwitch' = [toSwitch EXCEPT ![c] = Tail(@)]
    /\ toClient' = broadcast([from |-> c, num |-> Head(toSwitch[c])], c)
    /\ UNCHANGED <<nodeVars, switchVars, cut, published, incidents, received, overlapped>>

(* 'message' that cannot be decoded.                                       *)
BadMessage(c) ==
    /\ MeshIncident
    /\ conn[c] = "open" /\ c \notin cut
    /\ conn' = [conn EXCEPT ![c] = "terminated"]
    /\ UNCHANGED <<nodeVars, errors, clients, links, published, received, overlapped>>

(* 'error': one too many, and the name is deleted and the client closed.   *)
ClientError(c) ==
    /\ MeshIncident
    /\ conn[c] # "closed"
    /\ errors' = [errors EXCEPT ![c] = @ + 1]
    /\ IF errors[c] + 1 > CLIENT_MAX_ERRORS
       THEN /\ clients' = [clients EXCEPT ![c[1]] = 0]
            /\ conn' = [conn EXCEPT ![c] = IF @ = "open" THEN "closing" ELSE @]
       ELSE UNCHANGED <<clients, conn>>
    /\ UNCHANGED <<nodeVars, links, published, received, overlapped>>

(* 'close': the name is deleted, whoever has it now; reassignBackup finds  *)
(* nobody, and the call of broadcast throws.                               *)
ClientCloses(c) ==
    /\ \/ conn[c] \in {"closing", "terminated"}
       \/ conn[c] = "open" /\ (c # Conn(c[1]) \/ socket[c[1]] \in {"none", "closed"} \/ c \in cut)
    /\ conn' = [conn EXCEPT ![c] = "closed"]
    /\ clients' = [clients EXCEPT ![c[1]] = 0]
    /\ toSwitch' = [toSwitch EXCEPT ![c] = <<>>]
    /\ UNCHANGED <<nodeVars, errors, toClient, cut, published, incidents, received, overlapped>>

(* A link goes dead.                                                       *)
Cut(c) ==
    /\ MeshIncident
    /\ conn[c] = "open" /\ c \notin cut
    /\ cut' = cut \cup {c}
    /\ UNCHANGED <<nodeVars, switchVars, toSwitch, toClient, published, received, overlapped>>

-----------------------------------------------------------------------------
MeshNext ==
    \/ \E n \in Nodes :
          \/ connect(n) \/ Opens(n) \/ publish(n) \/ PublishBuffered(n) \/ sendQueuedMsgs(n)
          \/ heartbeat(n) \/ websocketOnPong(n) \/ websocketOnClose(n)
          \/ websocketOnMessage(n) \/ Die(n)
    \/ \E c \in Conns :
          handleEvent(c) \/ BadMessage(c) \/ ClientError(c) \/ ClientCloses(c) \/ Cut(c)

MeshSpec == MeshInit /\ [][MeshNext]_meshVars

-----------------------------------------------------------------------------
(* Properties                                                              *)

MeshTypeOK ==
    /\ \A n \in Nodes :
          /\ life[n] \in Nat /\ clients[n] \in 0 .. life[n]
          /\ socket[n] \in {"none", "connecting", "open", "closed"}
          /\ timers[n] \subseteq {"heartbeat", "flush"}
          /\ "heartbeat" \in timers[n] <=> socket[n] = "open"
    /\ Conns = UNION {{<<n, l>> : l \in 1 .. life[n]} : n \in Nodes}
    /\ \A c \in Conns : conn[c] \in {"open", "closing", "terminated", "closed"}
    /\ cut \subseteq Conns

(* A connection that is open on the switch gets what is broadcast, unless  *)
(* it took the name of a connection that had not closed: the close of that *)
(* one, or its errors, take it off the list.                               *)
OnlyOverlappedUnlisted ==
    \A c \in Conns : conn[c] = "open" /\ c \notin overlapped => clients[c[1]] = c[2]

(* What a node publishes in one life comes to each other connection in the *)
(* order it was published, and nothing of it twice.                        *)
InOrder ==
    \A c \in Conns : \A i, j \in DOMAIN received[c] :
        i < j /\ received[c][i].from = received[c][j].from =>
            received[c][i].num < received[c][j].num

(* A node whose link is dead notices at the second heartbeat, whatever     *)
(* came before: it pings in vain at most once.                             *)
DeadLinkNoticed == \A n \in Nodes : unheard[n] <= 1
=============================================================================
