----------------------------- MODULE MeshProofs -----------------------------
(***************************************************************************)
(* Proofs about Mesh, for any nodes, lives, messages and incidents, and    *)
(* about HostEvents, for any threads, hosts and owners.                    *)
(***************************************************************************)
EXTENDS Mesh, HostEvents, JsArrayProofs

-----------------------------------------------------------------------------
(* Mesh: the heartbeat                                                     *)

(* A node that has pinged a dead link in vain has no answer to come, so    *)
(* its next heartbeat ends the socket.                                     *)
HeartbeatInv ==
    /\ life \in [Nodes -> Nat] /\ unheard \in [Nodes -> Nat] /\ pong \in [Nodes -> BOOLEAN]
    /\ \A n \in Nodes : unheard[n] # 0 => unheard[n] = 1 /\ Conn(n) \in cut /\ pong[n] = FALSE

LEMMA HeartbeatStep == HeartbeatInv /\ [MeshNext]_meshVars => HeartbeatInv'
<1> SUFFICES ASSUME HeartbeatInv, [MeshNext]_meshVars PROVE HeartbeatInv'
  OBVIOUS
<1>1. ASSUME life' = life, unheard' = unheard, pong' = pong, cut \subseteq cut'
      PROVE  HeartbeatInv'
  BY <1>1 DEF HeartbeatInv, Conn
<1>2. ASSUME NEW n \in Nodes, connect(n) PROVE HeartbeatInv'
  <2>1. /\ life' = [life EXCEPT ![n] = @ + 1] /\ cut' = cut
        /\ pong' = [pong EXCEPT ![n] = TRUE] /\ unheard' = [unheard EXCEPT ![n] = 0]
    BY <1>2 DEF connect
  <2>2. /\ unheard'[n] = 0
        /\ \A m \in Nodes : m # n => /\ life'[m] = life[m] /\ unheard'[m] = unheard[m]
                                    /\ pong'[m] = pong[m]
        /\ life' \in [Nodes -> Nat] /\ unheard' \in [Nodes -> Nat] /\ pong' \in [Nodes -> BOOLEAN]
    BY <2>1 DEF HeartbeatInv
  <2> QED BY <2>1, <2>2 DEF HeartbeatInv, Conn
<1>3. ASSUME NEW n \in Nodes, Opens(n) PROVE HeartbeatInv'
  BY <1>3 DEF Opens, HeartbeatInv, Conn, links
<1>4. ASSUME NEW n \in Nodes, heartbeat(n) PROVE HeartbeatInv'
  <2>1. CASE pong[n]
    <3>1. /\ pong' = [pong EXCEPT ![n] = FALSE] /\ life' = life /\ cut' = cut
          /\ unheard' = [unheard EXCEPT ![n] = IF Conn(n) \in cut /\ @ < 2 THEN @ + 1 ELSE @]
      BY <1>4, <2>1 DEF heartbeat, Ping, Unheard
    <3>2. unheard[n] = 0
      BY <2>1 DEF HeartbeatInv
    <3>3. /\ pong'[n] = FALSE
          /\ unheard'[n] = IF Conn(n) \in cut THEN 1 ELSE 0
          /\ \A m \in Nodes : m # n => unheard'[m] = unheard[m] /\ pong'[m] = pong[m]
          /\ unheard' \in [Nodes -> Nat] /\ pong' \in [Nodes -> BOOLEAN]
      BY <3>1, <3>2 DEF HeartbeatInv
    <3> QED BY <3>1, <3>3 DEF HeartbeatInv, Conn
  <2>2. CASE ~pong[n]
    BY <1>1, <1>4, <2>2 DEF heartbeat
  <2> QED BY <2>1, <2>2
<1>5. ASSUME NEW n \in Nodes, websocketOnPong(n) PROVE HeartbeatInv'
  BY <1>5 DEF websocketOnPong, HeartbeatInv, Conn, links
<1>6. ASSUME NEW n \in Nodes, publish(n) \/ PublishBuffered(n) \/ sendQueuedMsgs(n)
                              \/ websocketOnClose(n) \/ websocketOnMessage(n) \/ Die(n)
      PROVE  HeartbeatInv'
  BY <1>1, <1>6 DEF publish, PublishBuffered, publishEvent, sendQueuedMsgs, websocketOnClose,
                    websocketOnMessage, Die, nodeVars
<1>7. ASSUME NEW c \in Conns, handleEvent(c) \/ BadMessage(c) \/ ClientError(c)
                              \/ ClientCloses(c) \/ Cut(c)
      PROVE  HeartbeatInv'
  BY <1>1, <1>7 DEF handleEvent, BadMessage, ClientError, ClientCloses, Cut, nodeVars, links
<1>8. CASE UNCHANGED meshVars
  BY <1>1, <1>8 DEF meshVars, nodeVars, links
<1> QED BY <1>2, <1>3, <1>4, <1>5, <1>6, <1>7, <1>8 DEF MeshNext

(* A node whose link is dead pings in vain at most once, whatever came     *)
(* before: for any nodes, lives and incidents.                             *)
THEOREM DeadLinkIsNoticed == MeshSpec => []DeadLinkNoticed
<1>1. MeshInit => HeartbeatInv
  <2> SUFFICES ASSUME MeshInit PROVE HeartbeatInv
    OBVIOUS
  <2>1. /\ life = [n \in Nodes |-> 0] /\ unheard = [n \in Nodes |-> 0]
        /\ pong = [n \in Nodes |-> TRUE]
    BY DEF MeshInit
  <2> QED BY <2>1 DEF HeartbeatInv
<1>2. HeartbeatInv => DeadLinkNoticed
  BY DEF HeartbeatInv, DeadLinkNoticed
<1> QED BY <1>1, <1>2, HeartbeatStep, PTL DEF MeshSpec

-----------------------------------------------------------------------------
(* Mesh: the names                                                         *)

ConnStates == {"open", "closing", "terminated", "closed"}

NamesTyped ==
    /\ life \in [Nodes -> Nat] /\ clients \in [Nodes -> Nat]
    /\ conn \in [Conns -> ConnStates]
    /\ \A c \in Conns : c[1] \in Nodes /\ c[2] \in 1..life[c[1]] /\ c = <<c[1], c[2]>>

(* A name is the last connection's, if anybody's, which has not closed;    *)
(* when a connection was accepted that is not marked, the earlier ones of  *)
(* its name had closed.                                                    *)
NamesInv ==
    /\ NamesTyped
    /\ \A n \in Nodes : clients[n] # 0 =>
          /\ clients[n] = life[n] /\ <<n, clients[n]>> \in Conns
          /\ conn[<<n, clients[n]>>] # "closed"
    /\ \A c, d \in Conns : c[1] = d[1] /\ c[2] < d[2] /\ d \notin overlapped => conn[c] = "closed"
    /\ OnlyOverlappedUnlisted

LEMMA ConnectNames == ASSUME NamesInv, NEW n \in Nodes, connect(n) PROVE NamesInv'
<1> DEFINE c == <<n, life[n] + 1>>
<1>1. /\ life' = [life EXCEPT ![n] = life[n] + 1] /\ clients' = [clients EXCEPT ![n] = life[n] + 1]
      /\ conn' = [d \in Conns \cup {c} |->
                    IF d = c THEN "open"
                    ELSE IF d = <<n, clients[n]>> THEN "terminated" ELSE conn[d]]
      /\ overlapped' = IF \E d \in Conns : d[1] = n /\ conn[d] # "closed"
                       THEN overlapped \cup {c} ELSE overlapped
  BY DEF connect, initClient
<1>2. /\ life[n] \in Nat /\ life' \in [Nodes -> Nat] /\ clients' \in [Nodes -> Nat]
      /\ life'[n] = life[n] + 1 /\ clients'[n] = life[n] + 1
      /\ \A m \in Nodes : m # n => life'[m] = life[m] /\ clients'[m] = clients[m]
  BY <1>1 DEF NamesInv, NamesTyped
<1>3. \A d \in Conns : d[1] \in Nodes /\ d[2] \in 1..life[d[1]] /\ d = <<d[1], d[2]>>
  BY DEF NamesInv, NamesTyped
<1>4. c[1] = n /\ c[2] = life[n] + 1 /\ c = <<c[1], c[2]>>
  OBVIOUS
<1>5. c \notin Conns
  BY <1>2, <1>3, <1>4
<1> HIDE DEF c
<1>6. /\ Conns' = Conns \cup {c} /\ conn'[c] = "open"
      /\ \A d \in Conns : conn'[d] = IF d = <<n, clients[n]>> THEN "terminated" ELSE conn[d]
  BY <1>1, <1>5 DEF Conns
<1>7. NamesTyped'
  <2>1. conn' \in [Conns' -> ConnStates]
    <3>1. \A d \in Conns : conn[d] \in ConnStates
      BY DEF NamesInv, NamesTyped
    <3>2. \A d \in Conns' : conn'[d] \in ConnStates
      BY <1>6, <3>1 DEF ConnStates
    <3> QED BY <1>1, <1>6, <3>2
  <2>2. ASSUME NEW d \in Conns'
        PROVE  d[1] \in Nodes /\ d[2] \in 1..life'[d[1]] /\ d = <<d[1], d[2]>>
    <3>1. CASE d = c
      BY <1>2, <1>4, <3>1
    <3>2. CASE d \in Conns
      BY <1>2, <1>3, <3>2 DEF NamesInv, NamesTyped
    <3> QED BY <1>6, <3>1, <3>2
  <2> QED BY <1>2, <2>1, <2>2 DEF NamesTyped
<1>8. \A d \in Conns : conn[d] = "closed" => conn'[d] = "closed"
  BY <1>2, <1>6 DEF NamesInv, NamesTyped
<1>9. ASSUME NEW m \in Nodes, clients'[m] # 0
      PROVE  clients'[m] = life'[m] /\ <<m, clients'[m]>> \in Conns'
             /\ conn'[<<m, clients'[m]>>] # "closed"
  <2>1. CASE m = n
    <3>1. <<m, clients'[m]>> = c
      BY <1>2, <1>4, <2>1
    <3> QED BY <1>2, <1>6, <2>1, <3>1
  <2>2. CASE m # n
    <3>1. <<m, clients[m]>> \in Conns /\ conn[<<m, clients[m]>>] # "closed" /\ clients[m] = life[m]
      BY <1>2, <1>9, <2>2 DEF NamesInv
    <3>2. <<m, clients[m]>> # <<n, clients[n]>>
      BY <2>2
    <3> QED BY <1>2, <1>6, <2>2, <3>1, <3>2
  <2> QED BY <2>1, <2>2
<1>10. ASSUME NEW b \in Conns', NEW d \in Conns', b[1] = d[1], b[2] < d[2], d \notin overlapped'
       PROVE  conn'[b] = "closed"
  <2>1. CASE b = c
    <3>1. d \in Conns /\ d[1] = n /\ d[2] \in 1..life[n] /\ b[2] = life[n] + 1
      BY <1>2, <1>3, <1>4, <1>6, <1>10, <2>1
    <3> QED BY <1>2, <1>10, <3>1
  <2>2. CASE b \in Conns /\ d = c
    <3>1. conn[b] = "closed"
      BY <1>1, <1>4, <1>10, <2>2
    <3> QED BY <1>8, <2>2, <3>1
  <2>3. CASE b \in Conns /\ d \in Conns
    <3>1. d \notin overlapped
      BY <1>1, <1>10
    <3>2. conn[b] = "closed"
      BY <1>10, <2>3, <3>1 DEF NamesInv
    <3> QED BY <1>8, <2>3, <3>2
  <2> QED BY <1>6, <2>1, <2>2, <2>3
<1>11. ASSUME NEW d \in Conns', conn'[d] = "open", d \notin overlapped'
       PROVE  clients'[d[1]] = d[2]
  <2>1. CASE d = c
    BY <1>2, <1>4, <2>1
  <2>2. CASE d \in Conns
    <3>1. d # <<n, clients[n]>> /\ conn[d] = "open" /\ d \notin overlapped
      BY <1>1, <1>6, <1>11, <2>2
    <3>2. clients[d[1]] = d[2]
      BY <2>2, <3>1 DEF NamesInv, OnlyOverlappedUnlisted
    <3>3. d[1] # n
      BY <1>3, <2>2, <3>1, <3>2
    <3> QED BY <1>2, <1>3, <2>2, <3>2, <3>3
  <2> QED BY <1>6, <2>1, <2>2
<1> QED BY <1>7, <1>9, <1>10, <1>11 DEF NamesInv, OnlyOverlappedUnlisted

(* An open connection that is not marked is the last of its name, and the  *)
(* only one that has not closed.                                           *)
LEMMA OpenIsLast ==
    ASSUME NamesInv, NEW c \in Conns, NEW d \in Conns, c[1] = d[1], c # d,
           conn[d] = "open", d \notin overlapped
    PROVE  conn[c] = "closed"
<1>1. /\ d[1] \in Nodes /\ d[2] \in 1..life[d[1]] /\ d = <<d[1], d[2]>>
      /\ c[2] \in 1..life[d[1]] /\ c = <<c[1], c[2]>> /\ life[d[1]] \in Nat
  BY DEF NamesInv, NamesTyped
<1>2. clients[d[1]] = d[2]
  BY DEF NamesInv, OnlyOverlappedUnlisted
<1>3. d[2] = life[d[1]]
  BY <1>1, <1>2 DEF NamesInv
<1>4. c[2] < d[2]
  BY <1>1, <1>3
<1> QED BY <1>4 DEF NamesInv

(* What becomes of a connection that ends, or is about to.                 *)
LEMMA EndNames ==
    ASSUME NamesInv, NEW c \in Conns, NEW state \in ConnStates \ {"open"},
           conn[c] # "closed", conn' = [conn EXCEPT ![c] = state],
           life' = life, overlapped' = overlapped,
           \/ clients' = [clients EXCEPT ![c[1]] = 0]
           \/ clients' = clients /\ state # "closed"
    PROVE  NamesInv'
<1>1. /\ Conns' = Conns /\ conn' \in [Conns -> ConnStates]
      /\ \A d \in Conns : conn'[d] = IF d = c THEN state ELSE conn[d]
  BY DEF Conns, NamesInv, NamesTyped
<1>2. /\ c[1] \in Nodes /\ c = <<c[1], c[2]>> /\ clients' \in [Nodes -> Nat]
      /\ \A m \in Nodes : m # c[1] => clients'[m] = clients[m]
      /\ \/ clients'[c[1]] = 0
         \/ clients' = clients /\ state # "closed"
  <2>1. c[1] \in Nodes /\ c = <<c[1], c[2]>> /\ clients \in [Nodes -> Nat]
    BY DEF NamesInv, NamesTyped
  <2>2. CASE clients' = [clients EXCEPT ![c[1]] = 0]
    BY <2>1, <2>2
  <2>3. CASE clients' = clients /\ state # "closed"
    BY <2>1, <2>3
  <2> QED BY <2>2, <2>3
<1>3. NamesTyped'
  BY <1>1, <1>2 DEF NamesInv, NamesTyped
<1>4. ASSUME NEW n \in Nodes, clients'[n] # 0
      PROVE  clients'[n] = life'[n] /\ <<n, clients'[n]>> \in Conns'
             /\ conn'[<<n, clients'[n]>>] # "closed"
  <2>1. clients'[n] = clients[n]
    BY <1>2, <1>4
  <2>2. clients[n] = life[n] /\ <<n, clients[n]>> \in Conns /\ conn[<<n, clients[n]>>] # "closed"
    BY <1>4, <2>1 DEF NamesInv
  <2>3. <<n, clients[n]>> = c => state # "closed"
    BY <1>2, <1>4, <2>1
  <2> QED BY <1>1, <2>1, <2>2, <2>3
<1>5. ASSUME NEW b \in Conns, NEW d \in Conns, b[1] = d[1], b[2] < d[2], d \notin overlapped
      PROVE  conn'[b] = "closed"
  <2>1. conn[b] = "closed"
    BY <1>5 DEF NamesInv
  <2> QED BY <1>1, <2>1
<1>6. ASSUME NEW d \in Conns, conn'[d] = "open", d \notin overlapped
      PROVE  clients'[d[1]] = d[2]
  <2>1. d # c /\ conn[d] = "open"
    BY <1>1, <1>6
  <2>2. d[1] # c[1] \/ clients' = clients
    BY <1>2, <1>6, <2>1, OpenIsLast
  <2>3. clients[d[1]] = d[2] /\ d[1] \in Nodes
    BY <1>6, <2>1 DEF NamesInv, NamesTyped, OnlyOverlappedUnlisted
  <2> QED BY <1>2, <2>2, <2>3
<1> QED BY <1>1, <1>3, <1>4, <1>5, <1>6 DEF NamesInv, OnlyOverlappedUnlisted

LEMMA NamesStep == NamesInv /\ [MeshNext]_meshVars => NamesInv'
<1> SUFFICES ASSUME NamesInv, [MeshNext]_meshVars PROVE NamesInv'
  OBVIOUS
<1>1. ASSUME UNCHANGED <<life, clients, conn, overlapped>> PROVE NamesInv'
  BY <1>1 DEF NamesInv, NamesTyped, OnlyOverlappedUnlisted, Conns
<1>2. ASSUME NEW n \in Nodes, connect(n) PROVE NamesInv'
  BY <1>2, ConnectNames
<1>3. ASSUME NEW n \in Nodes, Opens(n) \/ publish(n) \/ PublishBuffered(n) \/ sendQueuedMsgs(n)
                              \/ heartbeat(n) \/ websocketOnPong(n) \/ websocketOnClose(n)
                              \/ websocketOnMessage(n) \/ Die(n)
      PROVE  NamesInv'
  BY <1>1, <1>3 DEF Opens, publish, PublishBuffered, publishEvent, sendQueuedMsgs, heartbeat,
                    websocketOnPong, websocketOnClose, websocketOnMessage, Die, nodeVars,
                    switchVars
<1>4. ASSUME NEW c \in Conns, handleEvent(c) \/ Cut(c) PROVE NamesInv'
  BY <1>1, <1>4 DEF handleEvent, Cut, nodeVars, switchVars
<1>5. ASSUME NEW c \in Conns, BadMessage(c) PROVE NamesInv'
  BY <1>5, EndNames DEF BadMessage, nodeVars, ConnStates
<1>6. ASSUME NEW c \in Conns, ClientCloses(c) PROVE NamesInv'
  <2>1. conn[c] # "closed"
    BY <1>6 DEF ClientCloses
  <2> QED BY <1>6, <2>1, EndNames DEF ClientCloses, nodeVars, ConnStates
<1>7. ASSUME NEW c \in Conns, ClientError(c) PROVE NamesInv'
  <2>1. CASE errors[c] + 1 > CLIENT_MAX_ERRORS
    <3> DEFINE state == IF conn[c] = "open" THEN "closing" ELSE conn[c]
    <3>1. /\ conn[c] # "closed" /\ conn' = [conn EXCEPT ![c] = state]
          /\ clients' = [clients EXCEPT ![c[1]] = 0] /\ life' = life /\ overlapped' = overlapped
      BY <1>7, <2>1 DEF ClientError, nodeVars
    <3>2. state \in ConnStates \ {"open"}
      BY DEF NamesInv, NamesTyped, ConnStates
    <3> HIDE DEF state
    <3> QED BY <3>1, <3>2, EndNames
  <2>2. CASE ~(errors[c] + 1 > CLIENT_MAX_ERRORS)
    BY <1>1, <1>7, <2>2 DEF ClientError, nodeVars
  <2> QED BY <2>1, <2>2
<1>8. CASE UNCHANGED meshVars
  BY <1>1, <1>8 DEF meshVars, nodeVars, switchVars
<1> QED BY <1>2, <1>3, <1>4, <1>5, <1>6, <1>7, <1>8 DEF MeshNext

(* An open connection gets what is broadcast unless it took the name of    *)
(* one that had not closed: for any nodes, lives, errors and incidents.    *)
THEOREM OpenIsListed == MeshSpec => []OnlyOverlappedUnlisted
<1>1. MeshInit => NamesInv
  BY DEF MeshInit, NamesInv, NamesTyped, Conns, OnlyOverlappedUnlisted
<1>2. NamesInv => OnlyOverlappedUnlisted
  BY DEF NamesInv
<1> QED BY <1>1, <1>2, NamesStep, PTL DEF MeshSpec

-----------------------------------------------------------------------------
(* Mesh: the types                                                         *)

(* What the nodes, the switch and the links hold; a heartbeat goes on as   *)
(* long as the socket is open.                                             *)
SocketStates == {"none", "connecting", "open", "closed"}
NodesTyped ==
    /\ socket \in [Nodes -> SocketStates]
    /\ timers \in [Nodes -> SUBSET {"heartbeat", "flush"}]
    /\ \A n \in Nodes : "heartbeat" \in timers[n] <=> socket[n] = "open"
LinksTyped ==
    /\ life \in [Nodes -> Nat] /\ clients \in [Nodes -> Nat]
    /\ \A n \in Nodes : clients[n] <= life[n]
    /\ \A n \in Nodes : \A l \in 1 .. life[n] : <<n, l>> \in Conns
    /\ \A c \in Conns : \E n \in Nodes : \E l \in 1 .. life[n] : c = <<n, l>>
    /\ conn \in [Conns -> ConnStates] /\ cut \subseteq Conns
MeshTyped == NodesTyped /\ LinksTyped

LEMMA NodesStep == NodesTyped /\ [MeshNext]_meshVars => NodesTyped'
<1> SUFFICES ASSUME NodesTyped, [MeshNext]_meshVars PROVE NodesTyped'
  OBVIOUS
<1>1. ASSUME UNCHANGED <<socket, timers>> PROVE NodesTyped'
  BY <1>1 DEF NodesTyped
<1>2. ASSUME NEW n \in Nodes, NEW s \in SocketStates, NEW t \in SUBSET {"heartbeat", "flush"},
             socket' = [socket EXCEPT ![n] = s], timers' = [timers EXCEPT ![n] = t],
             "heartbeat" \in t <=> s = "open"
      PROVE  NodesTyped'
  BY <1>2 DEF NodesTyped
<1>3. ASSUME NEW n \in Nodes,
             PublishBuffered(n) \/ publish(n) \/ websocketOnPong(n) \/ websocketOnMessage(n)
      PROVE  NodesTyped'
  BY <1>1, <1>3 DEF PublishBuffered, publish, publishEvent, websocketOnPong, websocketOnMessage,
                    nodeVars
<1>4. ASSUME NEW n \in Nodes, connect(n) PROVE NodesTyped'
  BY <1>4 DEF connect, NodesTyped, SocketStates
<1>5. ASSUME NEW n \in Nodes, Opens(n) PROVE NodesTyped'
  BY <1>2, <1>5 DEF Opens, SocketStates
<1>6. ASSUME NEW n \in Nodes, sendQueuedMsgs(n) PROVE NodesTyped'
  BY <1>6 DEF sendQueuedMsgs, NodesTyped
<1>7. ASSUME NEW n \in Nodes, NEW s \in {"none", "closed"}, SocketEnds(n, s) PROVE NodesTyped'
  <2>1. timers[n] \in SUBSET {"heartbeat", "flush"}
    BY DEF NodesTyped
  <2> PICK t : t = IF s = "none" THEN {} ELSE timers[n] \ {"heartbeat"}
    OBVIOUS
  <2>2. socket' = [socket EXCEPT ![n] = s] /\ timers' = [timers EXCEPT ![n] = t]
    BY <1>7 DEF SocketEnds
  <2>3. t \in SUBSET {"heartbeat", "flush"} /\ "heartbeat" \notin t /\ s # "open"
    BY <2>1
  <2> QED BY <1>2, <2>2, <2>3 DEF SocketStates
<1>8. ASSUME NEW n \in Nodes, heartbeat(n) \/ websocketOnClose(n) \/ Die(n) PROVE NodesTyped'
  BY <1>1, <1>7, <1>8 DEF heartbeat, websocketOnClose, Die
<1>9. ASSUME NEW c \in Conns,
             handleEvent(c) \/ BadMessage(c) \/ ClientError(c) \/ ClientCloses(c) \/ Cut(c)
      PROVE  NodesTyped'
  BY <1>1, <1>9 DEF handleEvent, BadMessage, ClientError, ClientCloses, Cut, nodeVars
<1>10. CASE UNCHANGED meshVars
  BY <1>1, <1>10 DEF meshVars, nodeVars
<1> QED BY <1>3, <1>4, <1>5, <1>6, <1>8, <1>9, <1>10 DEF MeshNext

LEMMA LinksStep == LinksTyped /\ [MeshNext]_meshVars => LinksTyped'
<1> SUFFICES ASSUME LinksTyped, [MeshNext]_meshVars PROVE LinksTyped'
  OBVIOUS
<1>1. ASSUME UNCHANGED <<life, clients, conn, cut>> PROVE LinksTyped'
  BY <1>1 DEF LinksTyped, Conns
<1>2. ASSUME NEW n \in Nodes, connect(n) PROVE LinksTyped'
  <2> PICK c : c = <<n, life[n] + 1>>
    OBVIOUS
  <2>1. /\ life' = [life EXCEPT ![n] = life[n] + 1]
        /\ clients' = [clients EXCEPT ![n] = life[n] + 1]
        /\ conn' = [d \in Conns \cup {c} |->
                      IF d = c THEN "open"
                      ELSE IF d = <<n, clients[n]>> THEN "terminated" ELSE conn[d]]
        /\ cut' = cut
    BY <1>2 DEF connect, initClient
  <2>2. /\ life[n] \in Nat /\ life' \in [Nodes -> Nat] /\ clients' \in [Nodes -> Nat]
        /\ \A m \in Nodes : clients'[m] <= life'[m]
    BY <2>1 DEF LinksTyped
  <2>3. Conns' = Conns \cup {c}
    BY <2>1 DEF Conns
  <2>4. life'[n] = life[n] + 1 /\ \A m \in Nodes : m # n => life'[m] = life[m]
    BY <2>1 DEF LinksTyped
  <2>5. 1 .. life'[n] = (1 .. life[n]) \cup {life[n] + 1}
    BY <2>2, <2>4
  <2>6. ASSUME NEW m \in Nodes, NEW l \in 1 .. life'[m] PROVE <<m, l>> \in Conns'
    BY <2>3, <2>4, <2>5 DEF LinksTyped
  <2>7. ASSUME NEW d \in Conns' PROVE \E m \in Nodes : \E l \in 1 .. life'[m] : d = <<m, l>>
    <3>1. CASE d = c
      BY <2>5, <3>1
    <3>2. CASE d \in Conns
      <4>1. PICK m \in Nodes : \E l \in 1 .. life[m] : d = <<m, l>>
        BY <3>2 DEF LinksTyped
      <4>2. PICK l \in 1 .. life[m] : d = <<m, l>>
        BY <4>1
      <4>3. l \in 1 .. life'[m]
        BY <2>4, <2>5
      <4> QED BY <4>2, <4>3
    <3> QED BY <2>3, <3>1, <3>2
  <2>8. conn' \in [Conns' -> ConnStates]
    <3>1. \A d \in Conns : conn[d] \in ConnStates
      BY DEF LinksTyped
    <3>2. \A d \in Conns \cup {c} : conn'[d] \in ConnStates
      BY <2>1, <3>1 DEF ConnStates
    <3>3. conn' \in [Conns \cup {c} -> ConnStates]
      BY <2>1, <3>2
    <3> QED BY <2>3, <3>3
  <2>9. cut' \subseteq Conns'
    BY <2>1, <2>3 DEF LinksTyped
  <2> QED BY <2>2, <2>6, <2>7, <2>8, <2>9 DEF LinksTyped
<1>3. ASSUME NEW n \in Nodes, Opens(n) \/ publish(n) \/ PublishBuffered(n) \/ sendQueuedMsgs(n)
                              \/ heartbeat(n) \/ websocketOnPong(n) \/ websocketOnClose(n)
                              \/ websocketOnMessage(n) \/ Die(n)
      PROVE  LinksTyped'
  BY <1>1, <1>3 DEF Opens, publish, PublishBuffered, publishEvent, sendQueuedMsgs, heartbeat,
                    websocketOnPong, websocketOnClose, websocketOnMessage, Die, nodeVars,
                    switchVars, links
<1>4. ASSUME NEW c \in Conns, NEW s \in ConnStates, conn' = [conn EXCEPT ![c] = s],
             clients' = [clients EXCEPT ![c[1]] = 0] \/ clients' = clients,
             life' = life, cut' = cut
      PROVE  LinksTyped'
  <2>1. Conns' = Conns /\ conn' \in [Conns -> ConnStates]
    BY <1>4 DEF LinksTyped, Conns
  <2>2. clients' \in [Nodes -> Nat] /\ \A m \in Nodes : clients'[m] <= life[m]
    <3>1. /\ life \in [Nodes -> Nat] /\ clients \in [Nodes -> Nat]
          /\ \A m \in Nodes : clients[m] <= life[m]
      BY DEF LinksTyped
    <3>2. CASE clients' = clients
      BY <3>1, <3>2
    <3>3. CASE clients' = [clients EXCEPT ![c[1]] = 0]
      <4>1. clients' \in [Nodes -> Nat]
        BY <3>1, <3>3
      <4>2. ASSUME NEW m \in Nodes PROVE clients'[m] <= life[m]
        <5>1. clients'[m] \in {0, clients[m]}
          BY <3>1, <3>3
        <5>2. life[m] \in Nat /\ clients[m] <= life[m]
          BY <3>1
        <5> QED BY <5>1, <5>2
      <4> QED BY <4>1, <4>2
    <3> QED BY <1>4, <3>2, <3>3
  <2> QED BY <1>4, <2>1, <2>2 DEF LinksTyped
<1>5. ASSUME NEW c \in Conns, handleEvent(c) \/ Cut(c) PROVE LinksTyped'
  <2>1. UNCHANGED <<life, clients, conn>> /\ (cut' = cut \/ cut' = cut \cup {c})
    BY <1>5 DEF handleEvent, Cut, nodeVars, switchVars
  <2>2. Conns' = Conns
    BY <2>1 DEF Conns
  <2> QED BY <2>1, <2>2 DEF LinksTyped
<1>6. ASSUME NEW c \in Conns, BadMessage(c) \/ ClientCloses(c) PROVE LinksTyped'
  BY <1>4, <1>6 DEF BadMessage, ClientCloses, nodeVars, links, ConnStates
<1>7. ASSUME NEW c \in Conns, ClientError(c) PROVE LinksTyped'
  <2> PICK s : s = IF conn[c] = "open" THEN "closing" ELSE conn[c]
    OBVIOUS
  <2>1. s \in ConnStates
    BY DEF LinksTyped, ConnStates
  <2>2. /\ life' = life /\ cut' = cut
        /\ \/ /\ clients' = [clients EXCEPT ![c[1]] = 0]
              /\ conn' = [conn EXCEPT ![c] = s]
           \/ UNCHANGED <<clients, conn>>
    BY <1>7 DEF ClientError, nodeVars, links
  <2> QED BY <1>1, <1>4, <2>1, <2>2
<1>8. CASE UNCHANGED meshVars
  BY <1>1, <1>8 DEF meshVars, nodeVars, switchVars, links
<1> QED BY <1>2, <1>3, <1>5, <1>6, <1>7, <1>8 DEF MeshNext

(* Each life of a node is one connection; and exactly while a node's       *)
(* socket is open its heartbeat goes on (webswitch.js websocketOnOpen,     *)
(* websocketOnClose), so that a dead link cannot go unnoticed.             *)
THEOREM MeshTypes == MeshSpec => []MeshTypeOK
<1>1. ASSUME MeshInit PROVE MeshTyped
  <2>1. NodesTyped
    BY <1>1 DEF MeshInit, NodesTyped, SocketStates
  <2>2. Conns = {}
    BY <1>1 DEF MeshInit, Conns
  <2>3. conn \in [Conns -> ConnStates] /\ cut \subseteq Conns
    BY <1>1, <2>2 DEF MeshInit
  <2>4. \A n \in Nodes : 1 .. life[n] = {}
    BY <1>1 DEF MeshInit
  <2> QED BY <1>1, <2>1, <2>2, <2>3, <2>4 DEF MeshInit, MeshTyped, LinksTyped
<1>2. MeshTyped /\ [MeshNext]_meshVars => MeshTyped'
  BY NodesStep, LinksStep DEF MeshTyped
<1>3. ASSUME MeshTyped PROVE MeshTypeOK
  <2>1. \A n \in Nodes : clients[n] \in 0 .. life[n] /\ life[n] \in Nat
    BY <1>3 DEF MeshTyped, LinksTyped
  <2>2. \A n \in Nodes : /\ socket[n] \in {"none", "connecting", "open", "closed"}
                         /\ timers[n] \subseteq {"heartbeat", "flush"}
                         /\ "heartbeat" \in timers[n] <=> socket[n] = "open"
    BY <1>3 DEF MeshTyped, NodesTyped, SocketStates
  <2>3. \A c \in Conns : conn[c] \in {"open", "closing", "terminated", "closed"}
    BY <1>3 DEF MeshTyped, LinksTyped, ConnStates
  <2>4. Conns = UNION {{<<n, l>> : l \in 1 .. life[n]} : n \in Nodes}
    BY <1>3 DEF MeshTyped, LinksTyped
  <2>5. cut \subseteq Conns
    BY <1>3 DEF MeshTyped, LinksTyped
  <2> QED BY <2>1, <2>2, <2>3, <2>4, <2>5 DEF MeshTypeOK
<1> QED BY <1>1, <1>2, <1>3, PTL DEF MeshSpec

-----------------------------------------------------------------------------
(* Mesh: the order                                                         *)

MeshEvents == [from : Nodes \X Nat, num : Nat]

OrderTyped ==
    /\ life \in [Nodes -> Nat] /\ published \in Nat
    /\ sendQueue = [n \in Nodes |-> <<>>]
    /\ Conns \subseteq Nodes \X Nat
    /\ toSwitch \in [Conns -> Seq(Nat)]
    /\ toClient \in [Conns -> Seq(MeshEvents)] /\ received \in [Conns -> Seq(MeshEvents)]

(* All that has come to a connection or is on its way to it.               *)
Came(c) == received[c] \o toClient[c]

(* In a sequence of events or numbers, what is of one sender is in order.  *)
EventsOrdered(q) ==
    \A i, j \in 1..Len(q) : i < j /\ q[i].from = q[j].from => q[i].num < q[j].num
NumsOrdered(q) == \A i, j \in 1..Len(q) : i < j => q[i] < q[j]

(* What a connection has got of a sender is before what the switch has yet *)
(* to get of it; all has been published.                                   *)
OrderInv ==
    /\ OrderTyped
    /\ \A c \in Conns : EventsOrdered(Came(c))
    /\ \A c \in Conns : \A i \in 1..Len(Came(c)) : Came(c)[i].num <= published
    /\ \A s \in Conns : NumsOrdered(toSwitch[s])
    /\ \A s \in Conns : \A k \in ToSet(toSwitch[s]) : k <= published
    /\ \A c, s \in Conns : \A i \in 1..Len(Came(c)), k \in ToSet(toSwitch[s]) :
          Came(c)[i].from = s => Came(c)[i].num < k

(* Nothing changes in what has come when an event is taken from the link.  *)
LEMMA TakenFacts ==
    ASSUME NEW S, NEW r \in Seq(S), NEW t \in Seq(S), t # <<>>
    PROVE  Append(r, Head(t)) \o Tail(t) = r \o t
<1>1. /\ Head(t) \in S /\ Tail(t) \in Seq(S) /\ Len(Tail(t)) = Len(t) - 1 /\ Len(t) \in Nat \ {0}
      /\ \A i \in 1..(Len(t) - 1) : Tail(t)[i] = t[i + 1]
      /\ Head(t) = t[1]
  BY HeadTailProperties, EmptySeq
<1> DEFINE l == Append(r, Head(t))
           h == Head(t)
           u == Tail(t)
<1>2. /\ l \in Seq(S) /\ Len(l) = Len(r) + 1 /\ Len(r) \in Nat
      /\ \A i \in 1..Len(r) : l[i] = r[i]
      /\ l[Len(r) + 1] = h
  BY <1>1, AppendProperties, LenProperties
<1> HIDE DEF l, h, u
<1>3. u \in Seq(S) /\ Len(u) = Len(t) - 1
  BY <1>1 DEF u
<1>4. /\ l \o u \in Seq(S) /\ Len(l \o u) = Len(l) + Len(u)
      /\ \A i \in 1..(Len(l) + Len(u)) :
            (l \o u)[i] = IF i <= Len(l) THEN l[i] ELSE u[i - Len(l)]
  BY <1>2, <1>3, ConcatProperties
<1>5. /\ r \o t \in Seq(S) /\ Len(r \o t) = Len(r) + Len(t)
      /\ \A i \in 1..(Len(r) + Len(t)) :
            (r \o t)[i] = IF i <= Len(r) THEN r[i] ELSE t[i - Len(r)]
  BY ConcatProperties
<1>6. Len(l \o u) = Len(r \o t)
  BY <1>1, <1>2, <1>3, <1>4, <1>5
<1>7. ASSUME NEW i \in 1..Len(l \o u) PROVE (l \o u)[i] = (r \o t)[i]
  <2>1. CASE i \in 1..Len(r)
    BY <1>1, <1>2, <1>3, <1>4, <1>5, <2>1
  <2>2. CASE i = Len(r) + 1
    <3>1. (l \o u)[i] = h
      BY <1>1, <1>2, <1>3, <1>4, <2>2
    <3>2. (r \o t)[i] = t[1]
      BY <1>1, <1>2, <1>5, <2>2
    <3> QED BY <1>1, <3>1, <3>2 DEF h
  <2>3. CASE i > Len(r) + 1
    <3>1. i - Len(l) \in 1..(Len(t) - 1) /\ i - Len(l) + 1 = i - Len(r)
      BY <1>1, <1>2, <1>3, <1>4, <2>3
    <3>2. (l \o u)[i] = u[i - Len(l)]
      BY <1>1, <1>2, <1>3, <1>4, <2>3
    <3>3. u[i - Len(l)] = t[i - Len(l) + 1]
      BY <1>1, <3>1 DEF u
    <3>4. (r \o t)[i] = t[i - Len(r)]
      BY <1>1, <1>2, <1>4, <1>5, <1>6, <2>3
    <3> QED BY <3>1, <3>2, <3>3, <3>4
  <2>4. i \in 1..Len(r) \/ i = Len(r) + 1 \/ i > Len(r) + 1
    BY <1>2
  <2> QED BY <2>1, <2>2, <2>3, <2>4
<1>8. l \o u = r \o t
  BY <1>4, <1>5, <1>6, <1>7, SeqEqual
<1> QED BY <1>8 DEF l, u, h

(* An event that is sent comes after what has come.                        *)
LEMMA SentFacts ==
    ASSUME NEW S, NEW r \in Seq(S), NEW t \in Seq(S), NEW e \in S
    PROVE  r \o Append(t, e) = Append(r \o t, e)
<1>1. Append(t, e) = t \o <<e>> /\ <<e>> \in Seq(S)
  BY AppendIsConcat
<1>2. r \o t \in Seq(S)
  BY ConcatProperties
<1>3. Append(r \o t, e) = (r \o t) \o <<e>>
  BY <1>2, AppendIsConcat
<1> QED BY <1>1, <1>3, ConcatAssociative

(* An event that is later than all of its sender may be appended.          *)
LEMMA LaterEvent ==
    ASSUME NEW q \in Seq(MeshEvents), NEW e \in MeshEvents, EventsOrdered(q),
           \A i \in 1..Len(q) : q[i].from = e.from => q[i].num < e.num
    PROVE  EventsOrdered(Append(q, e))
<1> DEFINE a == Append(q, e)
<1>1. /\ Len(q) \in Nat /\ Len(a) = Len(q) + 1 /\ a[Len(q) + 1] = e
      /\ \A i \in 1..Len(q) : a[i] = q[i]
  BY AppendProperties, LenProperties
<1> HIDE DEF a
<1>2. ASSUME NEW i \in 1..Len(a), NEW j \in 1..Len(a), i < j, a[i].from = a[j].from
      PROVE  a[i].num < a[j].num
  <2>1. i \in 1..Len(q)
    BY <1>1, <1>2
  <2>2. CASE j \in 1..Len(q)
    BY <1>1, <1>2, <2>1, <2>2 DEF EventsOrdered
  <2>3. CASE j = Len(q) + 1
    BY <1>1, <1>2, <2>1, <2>3
  <2> QED BY <1>1, <2>2, <2>3
<1> QED BY <1>2 DEF EventsOrdered, a

(* So may a number, and the first one is the least.                        *)
LEMMA LaterNum ==
    ASSUME NEW q \in Seq(Nat), NEW k \in Nat, NumsOrdered(q), \A x \in ToSet(q) : x < k
    PROVE  NumsOrdered(Append(q, k)) /\ ToSet(Append(q, k)) = ToSet(q) \cup {k}
<1> DEFINE a == Append(q, k)
<1>1. /\ Len(q) \in Nat /\ Len(a) = Len(q) + 1 /\ a[Len(q) + 1] = k
      /\ \A i \in 1..Len(q) : a[i] = q[i]
      /\ ToSet(a) = ToSet(q) \cup {k} /\ DOMAIN q = 1..Len(q)
  BY AppendProperties, LenProperties, PushFacts
<1> HIDE DEF a
<1>2. ASSUME NEW i \in 1..Len(a), NEW j \in 1..Len(a), i < j PROVE a[i] < a[j]
  <2>1. i \in 1..Len(q)
    BY <1>1, <1>2
  <2>2. CASE j \in 1..Len(q)
    BY <1>1, <1>2, <2>1, <2>2 DEF NumsOrdered
  <2>3. CASE j = Len(q) + 1
    <3>1. a[i] \in ToSet(q)
      BY <1>1, <2>1 DEF ToSet
    <3> QED BY <1>1, <2>3, <3>1
  <2> QED BY <1>1, <2>2, <2>3
<1> QED BY <1>1, <1>2 DEF NumsOrdered, a

LEMMA FirstNum ==
    ASSUME NEW q \in Seq(Nat), q # <<>>, NumsOrdered(q)
    PROVE  /\ Head(q) \in ToSet(q) /\ Head(q) \in Nat
           /\ Tail(q) \in Seq(Nat) /\ NumsOrdered(Tail(q)) /\ ToSet(Tail(q)) \subseteq ToSet(q)
           /\ \A k \in ToSet(Tail(q)) : Head(q) < k
<1>1. /\ Head(q) \in Nat /\ Tail(q) \in Seq(Nat) /\ Len(Tail(q)) = Len(q) - 1
      /\ \A i \in 1..(Len(q) - 1) : Tail(q)[i] = q[i + 1]
      /\ Len(q) \in Nat \ {0} /\ Head(q) = q[1]
  BY HeadTailProperties, EmptySeq
<1>2. ToSet(q) = {Head(q)} \cup ToSet(Tail(q))
  BY ShiftFacts
<1> DEFINE u == Tail(q)
<1>3. DOMAIN u = 1..(Len(q) - 1) /\ Len(u) = Len(q) - 1
      /\ \A i \in 1..(Len(q) - 1) : u[i] = q[i + 1]
  BY <1>1, LenProperties
<1> HIDE DEF u
<1>4. \A i \in 1..(Len(q) - 1) : i + 1 \in 1..Len(q) /\ i + 1 > 1
  BY <1>1
<1>5. NumsOrdered(u)
  <2>1. ASSUME NEW i \in 1..(Len(q) - 1), NEW j \in 1..(Len(q) - 1), i < j PROVE u[i] < u[j]
    <3>1. q[i + 1] < q[j + 1]
      BY <1>4, <2>1 DEF NumsOrdered
    <3> QED BY <1>3, <3>1
  <2> QED BY <1>3, <2>1 DEF NumsOrdered
<1>6. ASSUME NEW k \in ToSet(u) PROVE Head(q) < k
  <2>1. PICK i \in 1..(Len(q) - 1) : k = u[i]
    BY <1>3 DEF ToSet
  <2>2. k = q[i + 1] /\ 1 \in 1..Len(q)
    BY <1>1, <1>3, <2>1
  <2>3. q[1] < q[i + 1]
    BY <1>4, <2>2 DEF NumsOrdered
  <2> QED BY <1>1, <2>2, <2>3
<1> QED BY <1>1, <1>2, <1>5, <1>6 DEF u

LEMMA CameType ==
    ASSUME OrderTyped, NEW c \in Conns
    PROVE  /\ Came(c) \in Seq(MeshEvents) /\ Len(Came(c)) \in Nat
           /\ \A i \in 1..Len(Came(c)) : Came(c)[i] \in MeshEvents
<1>1. Came(c) \in Seq(MeshEvents)
  BY ConcatProperties DEF OrderTyped, Came
<1> QED BY <1>1, LenProperties, ElementOfSeq

(* A step in which less comes, and less is to come.                        *)
LEMMA OrderFrame ==
    ASSUME OrderInv, OrderTyped', published \in Nat, published' >= published,
           \A c \in Conns' : (c \in Conns /\ Came(c)' = Came(c)) \/ Came(c)' = <<>>,
           \A c \in Conns' : (c \in Conns /\ toSwitch'[c] = toSwitch[c]) \/ toSwitch'[c] = <<>>
    PROVE  OrderInv'
<1>1. \A c \in Conns' : \/ c \in Conns /\ Len(Came(c)') = Len(Came(c)) /\ Came(c)' = Came(c)
                        \/ Len(Came(c)') = 0
  BY EmptySeq
<1>2. ASSUME NEW c \in Conns' PROVE EventsOrdered(Came(c)')
  BY <1>1 DEF OrderInv, EventsOrdered
<1>3. ASSUME NEW c \in Conns', NEW i \in 1..Len(Came(c)') PROVE Came(c)'[i].num <= published'
  <2>1. c \in Conns /\ Came(c)' = Came(c) /\ Came(c)[i].num <= published
    BY <1>1 DEF OrderInv
  <2>2. Came(c)[i].num \in Nat
    BY <2>1, CameType DEF OrderInv, MeshEvents
  <2> QED BY <2>1, <2>2 DEF OrderTyped
<1>4. \A s \in Conns' : toSwitch'[s] # <<>> => s \in Conns /\ toSwitch'[s] = toSwitch[s]
  OBVIOUS
<1>5. \A s \in Conns' : NumsOrdered(toSwitch'[s])
  BY EmptySeq DEF OrderInv, NumsOrdered
<1>6. \A s \in Conns' : \A k \in ToSet(toSwitch'[s]) : s \in Conns /\ k \in ToSet(toSwitch[s])
  BY <1>4 DEF ToSet
<1>7. ASSUME NEW s \in Conns', NEW k \in ToSet(toSwitch'[s]) PROVE k <= published'
  <2>1. s \in Conns /\ k \in ToSet(toSwitch[s]) /\ k <= published
    BY <1>6 DEF OrderInv
  <2>2. k \in Nat
    BY <2>1, RangeOfSeq DEF OrderInv, OrderTyped, ToSet, Range
  <2> QED BY <2>1, <2>2 DEF OrderTyped
<1>8. ASSUME NEW c \in Conns', NEW s \in Conns', NEW i \in 1..Len(Came(c)'),
             NEW k \in ToSet(toSwitch'[s]), Came(c)'[i].from = s
      PROVE  Came(c)'[i].num < k
  BY <1>1, <1>6, <1>8 DEF OrderInv
<1> QED BY <1>2, <1>3, <1>5, <1>7, <1>8 DEF OrderInv

(* Publishing: the number is later than any.                               *)
LEMMA PublishOrder ==
    ASSUME OrderInv, NEW n \in Nodes, NEW sendable \in BOOLEAN, publishEvent(n, sendable)
    PROVE  OrderInv'
<1>1. /\ published' = published + 1 /\ published \in Nat
      /\ conn' = conn /\ Conns' = Conns /\ toClient' = toClient /\ received' = received
      /\ life' = life /\ sendQueue' = sendQueue
      /\ toSwitch' = IF sendable THEN [toSwitch EXCEPT ![Conn(n)] = Append(@, published + 1)]
                     ELSE toSwitch
  BY DEF publishEvent, send, switchVars, OrderInv, OrderTyped, Conns
<1>2. \A s \in Conns : toSwitch[s] \in Seq(Nat)
  BY DEF OrderInv, OrderTyped
<1>3. /\ toSwitch' \in [Conns -> Seq(Nat)]
      /\ \A s \in Conns : \/ toSwitch'[s] = toSwitch[s]
                          \/ toSwitch'[s] = Append(toSwitch[s], published + 1)
  <2>1. \A s \in Conns : Append(toSwitch[s], published + 1) \in Seq(Nat)
    BY <1>1, <1>2, AppendProperties
  <2> QED BY <1>1, <2>1 DEF OrderInv, OrderTyped
<1>4. \A c \in Conns : Came(c)' = Came(c)
  BY <1>1 DEF Came
<1>5. ASSUME NEW s \in Conns
      PROVE  /\ NumsOrdered(toSwitch'[s])
             /\ ToSet(toSwitch'[s]) \subseteq ToSet(toSwitch[s]) \cup {published + 1}
             /\ ToSet(toSwitch[s]) \subseteq Nat
  <2>1. ToSet(toSwitch[s]) \subseteq Nat
    BY <1>2, RangeOfSeq DEF ToSet, Range
  <2>2. \A k \in ToSet(toSwitch[s]) : k < published + 1
    BY <1>1, <2>1 DEF OrderInv
  <2> QED BY <1>1, <1>2, <1>3, <2>1, <2>2, LaterNum DEF OrderInv
<1>6. ASSUME NEW c \in Conns, NEW i \in 1..Len(Came(c))
      PROVE  Came(c)[i].num < published + 1 /\ Came(c)[i].num <= published + 1
  <2>1. Came(c)[i].num \in Nat
    BY CameType DEF OrderInv, MeshEvents
  <2>2. Came(c)[i].num <= published
    BY DEF OrderInv
  <2>3. \A m, p \in Nat : m <= p => m < p + 1 /\ m <= p + 1
    OBVIOUS
  <2> QED BY <1>1, <2>1, <2>2, <2>3
<1>7. ASSUME NEW s \in Conns, NEW k \in ToSet(toSwitch'[s]) PROVE k <= published + 1
  <2>1. CASE k \in ToSet(toSwitch[s])
    <3>1. k <= published /\ k \in Nat
      BY <1>5, <2>1 DEF OrderInv
    <3> QED BY <1>1, <3>1
  <2>2. CASE k = published + 1
    BY <1>1, <2>2
  <2> QED BY <1>5, <2>1, <2>2
<1>8. ASSUME NEW c \in Conns, NEW s \in Conns, NEW i \in 1..Len(Came(c)),
             NEW k \in ToSet(toSwitch'[s]), Came(c)[i].from = s
      PROVE  Came(c)[i].num < k
  BY <1>5, <1>6, <1>8 DEF OrderInv
<1>9. OrderTyped'
  BY <1>1, <1>3 DEF OrderInv, OrderTyped
<1> QED BY <1>1, <1>4, <1>5, <1>6, <1>7, <1>8, <1>9 DEF OrderInv

(* The broadcast: the number was the least that is to come of its sender.  *)
LEMMA BroadcastOrder == ASSUME OrderInv, NEW s \in Conns, handleEvent(s) PROVE OrderInv'
<1> DEFINE k == Head(toSwitch[s])
           e == [from |-> s, num |-> k]
<1>1. /\ toSwitch[s] # <<>> /\ toSwitch' = [toSwitch EXCEPT ![s] = Tail(toSwitch[s])]
      /\ toClient' = broadcast(e, s) /\ conn' = conn /\ Conns' = Conns /\ received' = received
      /\ life' = life /\ sendQueue' = sendQueue /\ published' = published
  BY DEF handleEvent, nodeVars, switchVars, Conns
<1>2. /\ \A c \in Conns : toSwitch[c] \in Seq(Nat)
      /\ \A c \in Conns : toClient[c] \in Seq(MeshEvents) /\ received[c] \in Seq(MeshEvents)
      /\ s \in Nodes \X Nat /\ published \in Nat
  BY DEF OrderInv, OrderTyped
<1>3. /\ k \in ToSet(toSwitch[s]) /\ k \in Nat /\ Tail(toSwitch[s]) \in Seq(Nat)
      /\ NumsOrdered(Tail(toSwitch[s])) /\ ToSet(Tail(toSwitch[s])) \subseteq ToSet(toSwitch[s])
      /\ \A x \in ToSet(Tail(toSwitch[s])) : k < x
  BY <1>1, <1>2, FirstNum DEF OrderInv
<1>4. e \in MeshEvents /\ e.from = s /\ e.num = k
  BY <1>2, <1>3 DEF MeshEvents
<1> HIDE DEF k, e
<1>5. k <= published
  BY <1>3 DEF OrderInv
<1>6. /\ \A c \in Conns : toClient'[c] = toClient[c] \/ toClient'[c] = Append(toClient[c], e)
      /\ toClient' \in [Conns -> Seq(MeshEvents)]
  <2>1. \A c \in Conns : Append(toClient[c], e) \in Seq(MeshEvents)
    BY <1>2, <1>4, AppendProperties
  <2> QED BY <1>1, <1>2, <2>1 DEF broadcast
<1>7. /\ \A c \in Conns : toSwitch'[c] = IF c = s THEN Tail(toSwitch[s]) ELSE toSwitch[c]
      /\ toSwitch' \in [Conns -> Seq(Nat)]
  BY <1>1, <1>3 DEF OrderInv, OrderTyped
<1>8. OrderTyped'
  BY <1>1, <1>6, <1>7 DEF OrderInv, OrderTyped
<1>9. \A c \in Conns : ToSet(toSwitch'[c]) \subseteq ToSet(toSwitch[c]) /\ NumsOrdered(toSwitch'[c])
  BY <1>3, <1>7 DEF OrderInv
<1>10. ASSUME NEW c \in Conns
       PROVE  /\ EventsOrdered(Came(c)')
              /\ \A i \in 1..Len(Came(c)') : Came(c)'[i].num <= published
              /\ \A t \in Conns : \A i \in 1..Len(Came(c)'), x \in ToSet(toSwitch'[t]) :
                    Came(c)'[i].from = t => Came(c)'[i].num < x
  <2>1. CASE toClient'[c] = toClient[c]
    <3>1. Came(c)' = Came(c)
      BY <1>1, <2>1 DEF Came
    <3> QED BY <1>9, <3>1 DEF OrderInv
  <2>2. CASE toClient'[c] = Append(toClient[c], e)
    <3>0. Came(c)' = Append(Came(c), e)
      <4> DEFINE r == received[c]
                 t == toClient[c]
      <4>1. Came(c)' = r \o Append(t, e) /\ Came(c) = r \o t
        BY <1>1, <2>2 DEF Came
      <4>2. r \in Seq(MeshEvents) /\ t \in Seq(MeshEvents) /\ e \in MeshEvents
        BY <1>2, <1>4
      <4> HIDE DEF r, t
      <4>3. r \o Append(t, e) = Append(r \o t, e)
        BY <4>2, SentFacts
      <4> QED BY <4>1, <4>3
    <3> DEFINE q == Came(c)
               a == Append(q, e)
    <3>1. Came(c)' = a
      BY <3>0
    <3>2. q \in Seq(MeshEvents) /\ Len(q) \in Nat
      BY CameType DEF OrderInv
    <3>3. \A i \in 1..Len(q) : q[i].from = e.from => q[i].num < e.num
      BY <1>3, <1>4 DEF OrderInv
    <3>4. EventsOrdered(a)
      BY <1>4, <3>2, <3>3, LaterEvent DEF OrderInv
    <3>5. Len(a) = Len(q) + 1 /\ a[Len(q) + 1] = e /\ \A i \in 1..Len(q) : a[i] = q[i]
      BY <1>4, <3>2, AppendProperties
    <3>6. /\ \A i \in 1..Len(q) : q[i].num <= published
          /\ \A t \in Conns : \A i \in 1..Len(q), x \in ToSet(toSwitch[t]) :
                q[i].from = t => q[i].num < x
      BY DEF OrderInv
    <3> HIDE DEF a, q
    <3>7. 1..Len(a) = 1..Len(q) \cup {Len(q) + 1}
      BY <3>2, <3>5
    <3>8. \A i \in 1..Len(a) : a[i].num <= published
      BY <1>4, <1>5, <3>5, <3>6, <3>7
    <3>9. ASSUME NEW t \in Conns, NEW i \in 1..Len(a), NEW x \in ToSet(toSwitch'[t]), a[i].from = t
          PROVE  a[i].num < x
      <4>1. CASE i \in 1..Len(q)
        BY <1>9, <3>5, <3>6, <3>9, <4>1
      <4>2. CASE i = Len(q) + 1
        <5>1. t = s /\ x \in ToSet(Tail(toSwitch[s]))
          BY <1>4, <1>7, <3>5, <3>9, <4>2
        <5> QED BY <1>3, <1>4, <3>5, <4>2, <5>1
      <4> QED BY <3>7, <4>1, <4>2
    <3> QED BY <3>1, <3>4, <3>8, <3>9
  <2> QED BY <1>6, <2>1, <2>2
<1>11. \A c \in Conns : \A x \in ToSet(toSwitch'[c]) : x <= published
  BY <1>9 DEF OrderInv
<1> QED BY <1>1, <1>8, <1>9, <1>10, <1>11 DEF OrderInv

(* A connection begins with nothing.                                       *)
LEMMA ConnectOrder == ASSUME OrderInv, NEW n \in Nodes, connect(n) PROVE OrderInv'
<1> DEFINE c == <<n, life[n] + 1>>
<1>1. /\ life' = [life EXCEPT ![n] = @ + 1] /\ Conns' = Conns \cup {c}
      /\ published' = published /\ sendQueue' = sendQueue
      /\ toSwitch' = withConn(toSwitch, c, <<>>) /\ toClient' = withConn(toClient, c, <<>>)
      /\ received' = withConn(received, c, <<>>)
  BY DEF connect, initClient, Conns
<1>2. c \in Nodes \X Nat /\ life' \in [Nodes -> Nat]
  BY <1>1 DEF OrderInv, OrderTyped
<1> HIDE DEF c
<1>3. /\ toSwitch' = [d \in Conns' |-> IF d = c THEN <<>> ELSE toSwitch[d]]
      /\ toClient' = [d \in Conns' |-> IF d = c THEN <<>> ELSE toClient[d]]
      /\ received' = [d \in Conns' |-> IF d = c THEN <<>> ELSE received[d]]
  BY <1>1 DEF OrderInv, OrderTyped, withConn
<1>4. OrderTyped'
  <2>1. <<>> \in Seq(Nat) /\ <<>> \in Seq(MeshEvents)
    BY EmptySeq
  <2>2. \A d \in Conns' : d # c => d \in Conns
    BY <1>1
  <2>3. toSwitch' \in [Conns' -> Seq(Nat)]
    BY <1>3, <2>1, <2>2 DEF OrderInv, OrderTyped
  <2>4. toClient' \in [Conns' -> Seq(MeshEvents)]
    BY <1>3, <2>1, <2>2 DEF OrderInv, OrderTyped
  <2>5. received' \in [Conns' -> Seq(MeshEvents)]
    BY <1>3, <2>1, <2>2 DEF OrderInv, OrderTyped
  <2>6. Conns' \subseteq Nodes \X Nat
    BY <1>1, <1>2 DEF OrderInv, OrderTyped
  <2> QED BY <1>1, <1>2, <2>3, <2>4, <2>5, <2>6 DEF OrderInv, OrderTyped
<1>5. ASSUME NEW d \in Conns'
      PROVE  (d \in Conns /\ Came(d)' = Came(d)) \/ Came(d)' = <<>>
  <2>1. CASE d = c
    <3>1. Came(d)' = <<>> \o <<>>
      BY <1>3, <2>1 DEF Came
    <3> QED BY <3>1, ConcatEmptySeq, EmptySeq
  <2>2. CASE d # c
    BY <1>1, <1>3, <2>2 DEF Came
  <2> QED BY <2>1, <2>2
<1>6. ASSUME NEW d \in Conns'
      PROVE  (d \in Conns /\ toSwitch'[d] = toSwitch[d]) \/ toSwitch'[d] = <<>>
  BY <1>1, <1>3
<1>7. published \in Nat /\ published' >= published
  BY <1>1 DEF OrderInv, OrderTyped
<1> QED BY <1>4, <1>5, <1>6, <1>7, OrderFrame

(* When a socket ends nothing has come, nor will.                          *)
LEMMA EndOrder ==
    ASSUME OrderInv, NEW n \in Nodes, NEW state, SocketEnds(n, state), UNCHANGED toSwitch,
           life' = life, Conns' = Conns, published' = published,
           sendQueue' = sendQueue \/ sendQueue' = [sendQueue EXCEPT ![n] = <<>>]
    PROVE  OrderInv'
<1>1. /\ toClient' = [toClient EXCEPT ![Conn(n)] = <<>>]
      /\ received' = [received EXCEPT ![Conn(n)] = <<>>]
  BY DEF SocketEnds
<1>2. \A d \in Conns : /\ toClient'[d] = IF d = Conn(n) THEN <<>> ELSE toClient[d]
                       /\ received'[d] = IF d = Conn(n) THEN <<>> ELSE received[d]
  BY <1>1 DEF OrderInv, OrderTyped
<1>3. sendQueue' = [m \in Nodes |-> <<>>]
  BY DEF OrderInv, OrderTyped
<1>4. OrderTyped'
  <2>1. <<>> \in Seq(MeshEvents)
    BY EmptySeq
  <2>2. toClient' \in [Conns -> Seq(MeshEvents)]
    BY <1>1, <2>1 DEF OrderInv, OrderTyped
  <2>3. received' \in [Conns -> Seq(MeshEvents)]
    BY <1>1, <2>1 DEF OrderInv, OrderTyped
  <2> QED BY <1>3, <2>2, <2>3 DEF OrderInv, OrderTyped
<1>5. ASSUME NEW d \in Conns PROVE Came(d)' = Came(d) \/ Came(d)' = <<>>
  <2>1. CASE d = Conn(n)
    <3>1. Came(d)' = <<>> \o <<>>
      BY <1>2, <2>1 DEF Came
    <3> QED BY <3>1, ConcatEmptySeq, EmptySeq
  <2>2. CASE d # Conn(n)
    BY <1>2, <2>2 DEF Came
  <2> QED BY <2>1, <2>2
<1>6. published \in Nat /\ published' >= published
  BY DEF OrderInv, OrderTyped
<1> QED BY <1>4, <1>5, <1>6, OrderFrame

(* Nothing is ever queued, so there is nothing to send out of order.       *)
LEMMA FlushOrder == ASSUME OrderInv, NEW n \in Nodes, sendQueuedMsgs(n) PROVE OrderInv'
<1>1. /\ life' = life /\ Conns' = Conns /\ published' = published
      /\ toClient' = toClient /\ received' = received
      /\ \/ /\ toSwitch' = [toSwitch EXCEPT ![Conn(n)] = toSwitch[Conn(n)] \o sendQueue[n]]
            /\ sendQueue' = [sendQueue EXCEPT ![n] = <<>>]
         \/ toSwitch' = toSwitch /\ sendQueue' = sendQueue
  BY DEF sendQueuedMsgs, switchVars, Conns
<1>2. sendQueue[n] = <<>> /\ sendQueue' = sendQueue
  BY <1>1 DEF OrderInv, OrderTyped
<1>3. toSwitch' = toSwitch
  <2>1. CASE Conn(n) \in Conns
    <3>1. toSwitch[Conn(n)] \o sendQueue[n] = toSwitch[Conn(n)]
      BY <1>2, <2>1, ConcatEmptySeq DEF OrderInv, OrderTyped
    <3> QED BY <1>1, <3>1 DEF OrderInv, OrderTyped
  <2>2. CASE Conn(n) \notin Conns
    BY <1>1, <2>2 DEF OrderInv, OrderTyped
  <2> QED BY <2>1, <2>2
<1>4. OrderTyped'
  BY <1>1, <1>2, <1>3 DEF OrderInv, OrderTyped
<1> QED BY <1>1, <1>3, <1>4, OrderFrame DEF OrderInv, OrderTyped, Came

(* What is received had come.                                              *)
LEMMA ReceiveOrder == ASSUME OrderInv, NEW n \in Nodes, websocketOnMessage(n) PROVE OrderInv'
<1> DEFINE c == Conn(n)
<1>1. /\ life' = life /\ Conns' = Conns /\ published' = published /\ toSwitch' = toSwitch
      /\ sendQueue' = sendQueue /\ toClient[c] # <<>>
      /\ toClient' = [toClient EXCEPT ![c] = Tail(@)]
      /\ received' = [received EXCEPT ![c] = Append(@, Head(toClient[c]))]
  BY DEF websocketOnMessage, nodeVars, switchVars, Conns
<1> HIDE DEF c
<1>2. \A d \in Conns : toClient[d] \in Seq(MeshEvents) /\ received[d] \in Seq(MeshEvents)
  BY DEF OrderInv, OrderTyped
<1>3. CASE c \in Conns
  <2>1. Tail(toClient[c]) \in Seq(MeshEvents) /\ Head(toClient[c]) \in MeshEvents
    BY <1>1, <1>2, <1>3, ShiftFacts
  <2>2. Append(received[c], Head(toClient[c])) \in Seq(MeshEvents)
    BY <1>2, <1>3, <2>1, AppendProperties
  <2>3. toClient' \in [Conns -> Seq(MeshEvents)] /\ received' \in [Conns -> Seq(MeshEvents)]
    BY <1>1, <2>1, <2>2 DEF OrderInv, OrderTyped
  <2>4. ASSUME NEW d \in Conns PROVE Came(d)' = Came(d)
    <3>1. CASE d = c
      <4>1. /\ toClient'[d] = Tail(toClient[d])
            /\ received'[d] = Append(received[d], Head(toClient[d]))
        BY <1>1, <3>1 DEF OrderInv, OrderTyped
      <4>2. Append(received[d], Head(toClient[d])) \o Tail(toClient[d]) = received[d] \o toClient[d]
        BY <1>1, <1>2, <3>1, TakenFacts
      <4> QED BY <4>1, <4>2 DEF Came
    <3>2. CASE d # c
      BY <1>1, <3>2 DEF OrderInv, OrderTyped, Came
    <3> QED BY <3>1, <3>2
  <2>5. OrderTyped' /\ published \in Nat /\ published' >= published
    BY <1>1, <2>3 DEF OrderInv, OrderTyped
  <2> QED BY <1>1, <2>4, <2>5, OrderFrame
<1>4. CASE c \notin Conns
  <2>1. toClient' = toClient /\ received' = received
    BY <1>1, <1>4 DEF OrderInv, OrderTyped
  <2>2. OrderTyped'
    BY <1>1, <2>1 DEF OrderInv, OrderTyped
  <2> QED BY <1>1, <2>1, <2>2, OrderFrame DEF OrderInv, OrderTyped, Came
<1> QED BY <1>3, <1>4

LEMMA OrderStep == OrderInv /\ [MeshNext]_meshVars => OrderInv'
<1> SUFFICES ASSUME OrderInv, [MeshNext]_meshVars PROVE OrderInv'
  OBVIOUS
<1>1. ASSUME UNCHANGED <<life, published, sendQueue, toSwitch, toClient, received>>, Conns' = Conns
      PROVE  OrderInv'
  <2>1. OrderTyped'
    BY <1>1 DEF OrderInv, OrderTyped
  <2> QED BY <1>1, <2>1, OrderFrame DEF OrderInv, OrderTyped, Came
<1>2. ASSUME NEW n \in Nodes, connect(n) PROVE OrderInv'
  BY <1>2, ConnectOrder
<1>3. ASSUME NEW n \in Nodes, publish(n) \/ PublishBuffered(n) PROVE OrderInv'
  BY <1>3, PublishOrder DEF publish, PublishBuffered
<1>4. ASSUME NEW n \in Nodes, sendQueuedMsgs(n) PROVE OrderInv'
  BY <1>4, FlushOrder
<1>5. ASSUME NEW n \in Nodes, websocketOnMessage(n) PROVE OrderInv'
  BY <1>5, ReceiveOrder
<1>6. ASSUME NEW n \in Nodes, heartbeat(n) PROVE OrderInv'
  <2>1. CASE pong[n]
    BY <1>1, <1>6, <2>1 DEF heartbeat, switchVars, Conns
  <2>2. CASE ~pong[n]
    BY <1>6, <2>2, EndOrder DEF heartbeat, switchVars, Conns
  <2> QED BY <2>1, <2>2
<1>7. ASSUME NEW n \in Nodes, websocketOnClose(n) \/ Die(n) PROVE OrderInv'
  BY <1>7, EndOrder DEF websocketOnClose, Die, switchVars, Conns
<1>8. ASSUME NEW n \in Nodes, Opens(n) \/ websocketOnPong(n) PROVE OrderInv'
  BY <1>1, <1>8 DEF Opens, websocketOnPong, switchVars, links, Conns
<1>9. ASSUME NEW c \in Conns, handleEvent(c) PROVE OrderInv'
  BY <1>9, BroadcastOrder
<1>10. ASSUME NEW c \in Conns, ClientCloses(c) PROVE OrderInv'
  <2>1. /\ life' = life /\ Conns' = Conns /\ published' = published /\ sendQueue' = sendQueue
        /\ toClient' = toClient /\ received' = received
        /\ toSwitch' = [toSwitch EXCEPT ![c] = <<>>]
    BY <1>10 DEF ClientCloses, nodeVars, Conns, OrderInv, OrderTyped
  <2>2. /\ toSwitch' \in [Conns -> Seq(Nat)]
        /\ \A d \in Conns : toSwitch'[d] = toSwitch[d] \/ toSwitch'[d] = <<>>
    BY <2>1, EmptySeq DEF OrderInv, OrderTyped
  <2>3. OrderTyped' /\ published \in Nat /\ published' >= published
    BY <2>1, <2>2 DEF OrderInv, OrderTyped
  <2>4. \A d \in Conns : Came(d)' = Came(d)
    BY <2>1 DEF Came
  <2> QED BY <2>1, <2>2, <2>3, <2>4, OrderFrame
<1>11. ASSUME NEW c \in Conns, BadMessage(c) \/ ClientError(c) \/ Cut(c) PROVE OrderInv'
  BY <1>1, <1>11 DEF BadMessage, ClientError, Cut, nodeVars, switchVars, links, Conns
<1>12. CASE UNCHANGED meshVars
  BY <1>1, <1>12 DEF meshVars, nodeVars, switchVars, links, Conns
<1> QED BY <1>2, <1>3, <1>4, <1>5, <1>6, <1>7, <1>8, <1>9, <1>10, <1>11, <1>12 DEF MeshNext

(* What a node publishes in one life comes to each other connection in the *)
(* order it was published, and nothing of it twice: for any nodes, lives,  *)
(* messages and incidents.                                                 *)
THEOREM PublishedInOrder == MeshSpec => []InOrder
<1>1. MeshInit => OrderInv
  <2> SUFFICES ASSUME MeshInit PROVE OrderInv
    OBVIOUS
  <2>1. /\ life = [n \in Nodes |-> 0] /\ published = 0 /\ sendQueue = [n \in Nodes |-> <<>>]
        /\ Conns = {} /\ toSwitch = <<>> /\ toClient = <<>> /\ received = <<>>
    BY DEF MeshInit, Conns
  <2> QED BY <2>1 DEF OrderInv, OrderTyped
<1>2. OrderInv => InOrder
  <2> SUFFICES ASSUME OrderInv, NEW c \in Conns, NEW i \in DOMAIN received[c],
                      NEW j \in DOMAIN received[c], i < j,
                      received[c][i].from = received[c][j].from
               PROVE  received[c][i].num < received[c][j].num
    BY DEF InOrder
  <2>1. received[c] \in Seq(MeshEvents) /\ toClient[c] \in Seq(MeshEvents)
    BY DEF OrderInv, OrderTyped
  <2>2. /\ i \in 1..Len(received[c]) /\ j \in 1..Len(received[c])
        /\ Len(received[c]) \in Nat /\ Len(toClient[c]) \in Nat
    BY <2>1, LenProperties
  <2> DEFINE r == received[c]
             t == toClient[c]
  <2>3. Came(c) = r \o t
    BY DEF Came
  <2>4. /\ r \in Seq(MeshEvents) /\ t \in Seq(MeshEvents)
        /\ Len(r) \in Nat /\ Len(t) \in Nat
    BY <2>1, <2>2
  <2> HIDE DEF r, t
  <2>5. /\ Len(Came(c)) = Len(r) + Len(t)
        /\ \A k \in 1..(Len(r) + Len(t)) :
              Came(c)[k] = IF k <= Len(r) THEN r[k] ELSE t[k - Len(r)]
    BY <2>3, <2>4, ConcatProperties
  <2>6. \A k \in 1..Len(r) : k \in 1..Len(Came(c)) /\ Came(c)[k] = r[k]
    BY <2>4, <2>5
  <2> QED BY <2>2, <2>6 DEF OrderInv, EventsOrdered, r
<1> QED BY <1>1, <1>2, OrderStep, PTL DEF MeshSpec

-----------------------------------------------------------------------------
(* HostEvents: the flow of events                                          *)

Sent == {"external", "request", "port", "response", "user"}
HostEvent == [name : Sent \cup {"shutdown"}, from : Threads \cup Hosts, n : Nat]

FlowTyped ==
    /\ fired \in Nat
    /\ heard \in [Threads -> Seq(HostEvent)] /\ toWorker \in [Threads -> Seq(HostEvent)]
    /\ toMain \in [Threads -> Seq(HostEvent)] /\ net \in [Hosts -> Seq(HostEvent)]

(* Events of A are older than those of B of the same sender.               *)
Before(A, B) ==
    \A d \in A, e \in B :
        d.name # "shutdown" /\ e.name # "shutdown" /\ d.from = e.from => d.n < e.n
InFlow(q) == \A i, j \in 1..Len(q) : i < j => Before({q[i]}, {q[j]})

CameTo(t) == ToSet(heard[t]) \cup ToSet(toWorker[t])
Foreign(e, h) == e.from \in Threads => onHost[e.from] # h

(* What each queue holds.                                                  *)
Contents ==
    /\ \A t \in Threads : \A e \in ToSet(heard[t]) : e.name # "shutdown"
    /\ \A t \in Threads : \A e \in CameTo(t) : e.n \in 0..fired /\ Foreign(e, onHost[t])
    /\ \A h \in Hosts : \A e \in ToSet(net[h]) :
          e.name \in Sent /\ e.n \in 0..fired /\ e.from # h /\ Foreign(e, h)
    /\ \A t \in Threads : \A e \in ToSet(toMain[t]) :
          e.name \in Sent /\ e.n \in 0..fired /\ e.from = t

(* From thread to main to mesh to worker, events of one sender stay in the *)
(* order in which they were fired.                                         *)
FlowInv ==
    /\ FlowTyped /\ Contents
    /\ \A t \in Threads : InFlow(heard[t]) /\ InFlow(toWorker[t]) /\ InFlow(toMain[t])
    /\ \A h \in Hosts : InFlow(net[h])
    /\ \A t \in Threads : /\ Before(ToSet(heard[t]), ToSet(toWorker[t]))
                          /\ Before(CameTo(t), ToSet(net[onHost[t]]))
    /\ \A t, s \in Threads : Before(CameTo(t), ToSet(toMain[s]))
    /\ \A h \in Hosts, s \in Threads : Before(ToSet(net[h]), ToSet(toMain[s]))

(* Events appended to a queue, each newer than any of its sender.          *)
LEMMA FlowOn ==
    ASSUME NEW S, NEW q \in Seq(S), NEW r \in Seq(S), InFlow(q), InFlow(r),
           Before(ToSet(q), ToSet(r))
    PROVE  q \o r \in Seq(S) /\ InFlow(q \o r) /\ ToSet(q \o r) = ToSet(q) \cup ToSet(r)
<1> DEFINE a == q \o r
<1>1. /\ a \in Seq(S) /\ Len(a) = Len(q) + Len(r) /\ Len(q) \in Nat /\ Len(r) \in Nat
      /\ DOMAIN a = 1..Len(a) /\ DOMAIN q = 1..Len(q) /\ DOMAIN r = 1..Len(r)
      /\ \A i \in 1..(Len(q) + Len(r)) : a[i] = IF i <= Len(q) THEN q[i] ELSE r[i - Len(q)]
  BY ConcatProperties, LenProperties
<1> HIDE DEF a
<1>2. ASSUME NEW i \in 1..Len(q) PROVE i \in 1..Len(a) /\ a[i] = q[i] /\ q[i] \in ToSet(q)
  <2>1. i \in 1..Len(a) /\ i \in 1..(Len(q) + Len(r)) /\ i <= Len(q)
    BY <1>1
  <2> QED BY <1>1, <2>1 DEF ToSet
<1>3. ASSUME NEW i \in 1..Len(r)
      PROVE  Len(q) + i \in 1..Len(a) /\ a[Len(q) + i] = r[i] /\ r[i] \in ToSet(r)
  <2>1. /\ Len(q) + i \in 1..Len(a) /\ Len(q) + i \in 1..(Len(q) + Len(r))
        /\ ~(Len(q) + i <= Len(q)) /\ (Len(q) + i) - Len(q) = i
    BY <1>1
  <2> QED BY <1>1, <2>1 DEF ToSet
<1>4. ASSUME NEW i \in 1..Len(a), i \notin 1..Len(q)
      PROVE  i - Len(q) \in 1..Len(r) /\ a[i] = r[i - Len(q)]
  BY <1>1, <1>4
<1>5. ToSet(a) = ToSet(q) \cup ToSet(r)
  <2>1. ASSUME NEW x \in ToSet(q) PROVE x \in ToSet(a)
    <3>1. PICK i \in 1..Len(q) : x = q[i]
      BY <1>1 DEF ToSet
    <3> QED BY <1>1, <1>2, <3>1 DEF ToSet
  <2>2. ASSUME NEW x \in ToSet(r) PROVE x \in ToSet(a)
    <3>1. PICK i \in 1..Len(r) : x = r[i]
      BY <1>1 DEF ToSet
    <3> QED BY <1>1, <1>3, <3>1 DEF ToSet
  <2>3. ASSUME NEW x \in ToSet(a) PROVE x \in ToSet(q) \cup ToSet(r)
    <3>1. PICK i \in 1..Len(a) : x = a[i]
      BY <1>1 DEF ToSet
    <3>2. CASE i \in 1..Len(q)
      BY <1>2, <3>1, <3>2
    <3>3. CASE i \notin 1..Len(q)
      BY <1>3, <1>4, <3>1, <3>3
    <3> QED BY <3>2, <3>3
  <2> QED BY <2>1, <2>2, <2>3
<1>6. ASSUME NEW i \in 1..Len(a), NEW j \in 1..Len(a), i < j PROVE Before({a[i]}, {a[j]})
  <2>1. CASE j \in 1..Len(q)
    <3>1. i \in 1..Len(q)
      BY <1>1, <1>6, <2>1
    <3> QED BY <1>2, <1>6, <2>1, <3>1 DEF InFlow
  <2>2. CASE i \in 1..Len(q) /\ j \notin 1..Len(q)
    <3>1. a[i] \in ToSet(q) /\ a[j] \in ToSet(r)
      BY <1>2, <1>3, <1>4, <2>2
    <3> QED BY <3>1 DEF Before
  <2>3. CASE i \notin 1..Len(q)
    <3>1. i - Len(q) \in 1..Len(r) /\ a[i] = r[i - Len(q)]
      BY <1>4, <2>3
    <3>2. j \notin 1..Len(q)
      BY <1>1, <1>6, <2>3
    <3>3. j - Len(q) \in 1..Len(r) /\ a[j] = r[j - Len(q)]
      BY <1>4, <3>2
    <3>4. i - Len(q) < j - Len(q)
      BY <1>1, <1>6
    <3> QED BY <3>1, <3>3, <3>4 DEF InFlow
  <2> QED BY <2>1, <2>2, <2>3
<1> QED BY <1>1, <1>5, <1>6 DEF InFlow, a

LEMMA FlowSingle ==
    ASSUME NEW S, NEW e \in S
    PROVE  <<e>> \in Seq(S) /\ InFlow(<<e>>) /\ ToSet(<<e>>) = {e}
<1>1. <<e>> \in Seq(S) /\ Len(<<e>>) = 1 /\ ToSet(<<e>>) = {e}
  BY DEF ToSet
<1> QED BY <1>1 DEF InFlow

(* One event appended.                                                     *)
LEMMA FlowOne ==
    ASSUME NEW S, NEW q \in Seq(S), NEW e \in S, InFlow(q), Before(ToSet(q), {e})
    PROVE  /\ Append(q, e) \in Seq(S) /\ InFlow(Append(q, e))
           /\ ToSet(Append(q, e)) = ToSet(q) \cup {e}
<1>1. /\ <<e>> \in Seq(S) /\ Len(<<e>>) = 1 /\ ToSet(<<e>>) = {e}
      /\ Append(q, e) = q \o <<e>>
  BY AppendIsConcat DEF ToSet
<1>2. InFlow(<<e>>)
  BY <1>1 DEF InFlow
<1> DEFINE r == <<e>>
<1>3. /\ r \in Seq(S) /\ InFlow(r) /\ ToSet(r) = {e} /\ Before(ToSet(q), ToSet(r))
      /\ Append(q, e) = q \o r
  BY <1>1, <1>2
<1> HIDE DEF r
<1>4. q \o r \in Seq(S) /\ InFlow(q \o r) /\ ToSet(q \o r) = ToSet(q) \cup ToSet(r)
  BY <1>3, FlowOn
<1> QED BY <1>3, <1>4

(* The first event taken from a queue.                                     *)
LEMMA FlowHead ==
    ASSUME NEW S, NEW q \in Seq(S), InFlow(q), q # <<>>
    PROVE  /\ Head(q) \in S /\ Head(q) \in ToSet(q)
           /\ Tail(q) \in Seq(S) /\ InFlow(Tail(q)) /\ ToSet(Tail(q)) \subseteq ToSet(q)
           /\ Before({Head(q)}, ToSet(Tail(q)))
<1> DEFINE u == Tail(q)
           h == Head(q)
<1>1. /\ h \in S /\ u \in Seq(S) /\ Len(u) = Len(q) - 1 /\ Len(q) \in Nat \ {0}
      /\ \A i \in 1..(Len(q) - 1) : u[i] = q[i + 1]
      /\ h = q[1]
  BY HeadTailProperties, EmptySeq
<1>2. ToSet(q) = {h} \cup ToSet(u)
  BY ShiftFacts
<1>3. DOMAIN u = 1..(Len(q) - 1)
  BY <1>1, LenProperties
<1> HIDE DEF u, h
<1>4. \A i \in 1..(Len(q) - 1) : i + 1 \in 1..Len(q) /\ i + 1 > 1
  BY <1>1
<1>5. InFlow(u)
  <2>1. ASSUME NEW i \in 1..(Len(q) - 1), NEW j \in 1..(Len(q) - 1), i < j
        PROVE  Before({u[i]}, {u[j]})
    <3>1. i + 1 < j + 1
      BY <2>1
    <3> QED BY <1>1, <1>4, <3>1 DEF InFlow
  <2> QED BY <1>1, <2>1 DEF InFlow
<1>6. ASSUME NEW e \in ToSet(u) PROVE Before({h}, {e})
  <2>1. PICK i \in 1..(Len(q) - 1) : e = u[i]
    BY <1>3 DEF ToSet
  <2>2. e = q[i + 1] /\ 1 \in 1..Len(q) /\ 1 < i + 1
    BY <1>1, <1>4, <2>1
  <2> QED BY <1>1, <1>4, <2>2 DEF InFlow
<1> QED BY <1>1, <1>2, <1>5, <1>6 DEF Before, u, h

LEMMA NoFlow == InFlow(<<>>) /\ ToSet(<<>>) = {} /\ \A S : <<>> \in Seq(S)
<1>1. Len(<<>>) = 0 /\ DOMAIN <<>> = {} /\ \A S : <<>> \in Seq(S)
  BY EmptySeq
<1> QED BY <1>1 DEF InFlow, ToSet

LEMMA FlowSets ==
    ASSUME FlowTyped
    PROVE  /\ \A t \in Threads : /\ CameTo(t) \subseteq HostEvent
                                 /\ ToSet(heard[t]) \subseteq CameTo(t)
                                 /\ ToSet(toWorker[t]) \subseteq CameTo(t)
                                 /\ ToSet(toMain[t]) \subseteq HostEvent
           /\ \A h \in Hosts : ToSet(net[h]) \subseteq HostEvent
           /\ \A t \in Threads : onHost[t] \in Hosts /\ t \notin Hosts
<1>1. ASSUME NEW q \in Seq(HostEvent) PROVE ToSet(q) \subseteq HostEvent
  BY RangeOfSeq DEF ToSet, Range
<1> QED BY <1>1, HostEventsAssumption DEF FlowTyped, CameTo

(* A step in which queues lose events and new events begin their way: to   *)
(* a worker from its main, to the mesh from a main, to a main from its     *)
(* worker.                                                                 *)
LEMMA FlowNew ==
    ASSUME FlowInv, FlowTyped', fired' >= fired,
           NEW New, \A e \in New : e.n \in 0..fired' /\ (e.name = "shutdown" \/ e.n > fired),
           \A t \in Threads :
              /\ ToSet(heard'[t]) \subseteq ToSet(heard[t])
              /\ \A e \in ToSet(toWorker'[t]) :
                    e \in ToSet(toWorker[t]) \/ (e \in New /\ e.from = onHost[t])
              /\ \A e \in ToSet(toMain'[t]) :
                    e \in ToSet(toMain[t]) \/ (e \in New /\ e.from = t /\ e.name \in Sent)
              /\ InFlow(heard'[t]) /\ InFlow(toWorker'[t]) /\ InFlow(toMain'[t]),
           \A h \in Hosts :
              /\ \A e \in ToSet(net'[h]) :
                    \/ e \in ToSet(net[h])
                    \/ e \in New /\ e.from \in Hosts \ {h} /\ e.name \in Sent
              /\ InFlow(net'[h])
    PROVE  FlowInv'
<1>1. /\ fired \in Nat /\ fired' \in Nat /\ FlowTyped
      /\ \A k \in 0..fired : k \in 0..fired'
  BY DEF FlowInv, FlowTyped
<1>2. \A h \in Hosts : h \notin Threads
  BY HostEventsAssumption
<1>3. \A t \in Threads : onHost[t] \in Hosts
  BY HostEventsAssumption
<1>4. ASSUME NEW t \in Threads, NEW e \in CameTo(t)'
      PROVE  e \in CameTo(t) \/ (e \in New /\ e.from = onHost[t])
  <2>1. e \in ToSet(heard'[t]) \/ e \in ToSet(toWorker'[t])
    BY DEF CameTo
  <2> QED BY <2>1 DEF CameTo
<1>5. Contents'
  <2>1. ASSUME NEW t \in Threads, NEW e \in CameTo(t)'
        PROVE  e.n \in 0..fired' /\ Foreign(e, onHost[t])
    BY <1>1, <1>2, <1>3, <1>4 DEF FlowInv, Contents, Foreign
  <2>2. ASSUME NEW h \in Hosts, NEW e \in ToSet(net'[h])
        PROVE  e.name \in Sent /\ e.n \in 0..fired' /\ e.from # h /\ Foreign(e, h)
    BY <1>1, <1>2 DEF FlowInv, Contents, Foreign
  <2>3. ASSUME NEW t \in Threads, NEW e \in ToSet(toMain'[t])
        PROVE  e.name \in Sent /\ e.n \in 0..fired' /\ e.from = t
    BY <1>1 DEF FlowInv, Contents
  <2>4. ASSUME NEW t \in Threads, NEW e \in ToSet(heard'[t]) PROVE e.name # "shutdown"
    BY DEF FlowInv, Contents
  <2> QED BY <2>1, <2>2, <2>3, <2>4 DEF Contents, Foreign
<1>6. ASSUME NEW A, NEW B, NEW C, Before(A, B), \A d \in A : d.n \in 0..fired,
             \A e \in C : e \in B \/ e \in New
      PROVE  Before(A, C)
  BY <1>1, <1>6 DEF Before
<1>7. ASSUME NEW t \in Threads PROVE Before(ToSet(heard'[t]), ToSet(toWorker'[t]))
  <2>1. Before(ToSet(heard[t]), ToSet(toWorker[t])) /\ \A d \in ToSet(heard[t]) : d.n \in 0..fired
    BY <1>1, FlowSets DEF FlowInv, Contents
  <2>2. Before(ToSet(heard[t]), ToSet(toWorker'[t]))
    BY <1>6, <2>1
  <2> QED BY <2>2 DEF Before
<1>8. ASSUME NEW t \in Threads PROVE Before(CameTo(t)', ToSet(net'[onHost[t]]))
  <2>1. Before(CameTo(t), ToSet(net[onHost[t]])) /\ \A d \in CameTo(t) : d.n \in 0..fired
    BY DEF FlowInv, Contents
  <2>2. Before(CameTo(t), ToSet(net'[onHost[t]]))
    BY <1>3, <1>6, <2>1
  <2>3. \A e \in ToSet(net'[onHost[t]]) : e.from # onHost[t]
    BY <1>3 DEF FlowInv, Contents
  <2> QED BY <1>4, <2>2, <2>3 DEF Before
<1>9. ASSUME NEW t \in Threads, NEW s \in Threads PROVE Before(CameTo(t)', ToSet(toMain'[s]))
  <2>1. Before(CameTo(t), ToSet(toMain[s])) /\ \A d \in CameTo(t) : d.n \in 0..fired
    BY DEF FlowInv, Contents
  <2>2. Before(CameTo(t), ToSet(toMain'[s]))
    BY <1>6, <2>1
  <2>3. \A e \in ToSet(toMain'[s]) : e.from # onHost[t]
    BY <1>2, <1>3 DEF FlowInv, Contents
  <2> QED BY <1>4, <2>2, <2>3 DEF Before
<1>10. ASSUME NEW h \in Hosts, NEW s \in Threads PROVE Before(ToSet(net'[h]), ToSet(toMain'[s]))
  <2>1. Before(ToSet(net[h]), ToSet(toMain[s])) /\ \A d \in ToSet(net[h]) : d.n \in 0..fired
    BY DEF FlowInv, Contents
  <2>2. Before(ToSet(net[h]), ToSet(toMain'[s]))
    BY <1>6, <2>1
  <2>3. \A e \in ToSet(toMain'[s]) : e.from \notin Hosts
    BY <1>2 DEF FlowInv, Contents
  <2>4. \A e \in ToSet(net'[h]) : e \in ToSet(net[h]) \/ e.from \in Hosts
    OBVIOUS
  <2> QED BY <2>2, <2>3, <2>4 DEF Before
<1> QED BY <1>5, <1>7, <1>8, <1>9, <1>10 DEF FlowInv

(* What a thread hears was told to it.                                     *)
LEMMA FlowHears ==
    ASSUME FlowInv, NEW t \in Threads, toWorker[t] # <<>>, Head(toWorker[t]).name # "shutdown",
           heard' = [heard EXCEPT ![t] = Append(@, Head(toWorker[t]))],
           toWorker' = [toWorker EXCEPT ![t] = Tail(@)],
           UNCHANGED <<toMain, net, fired>>
    PROVE  FlowInv'
<1> DEFINE e == Head(toWorker[t])
<1>1. /\ heard[t] \in Seq(HostEvent) /\ toWorker[t] \in Seq(HostEvent)
      /\ InFlow(heard[t]) /\ InFlow(toWorker[t]) /\ Before(ToSet(heard[t]), ToSet(toWorker[t]))
  BY DEF FlowInv, FlowTyped
<1>2. /\ e \in HostEvent /\ e \in ToSet(toWorker[t])
      /\ Tail(toWorker[t]) \in Seq(HostEvent) /\ InFlow(Tail(toWorker[t]))
      /\ ToSet(Tail(toWorker[t])) \subseteq ToSet(toWorker[t])
      /\ Before({e}, ToSet(Tail(toWorker[t])))
  BY <1>1, FlowHead
<1>3. Before(ToSet(heard[t]), {e})
  BY <1>1, <1>2 DEF Before
<1>4. /\ Append(heard[t], e) \in Seq(HostEvent) /\ InFlow(Append(heard[t], e))
      /\ ToSet(Append(heard[t], e)) = ToSet(heard[t]) \cup {e}
  BY <1>1, <1>2, <1>3, FlowOne
<1>5. /\ heard' = [heard EXCEPT ![t] = Append(heard[t], e)]
      /\ toWorker' = [toWorker EXCEPT ![t] = Tail(toWorker[t])]
      /\ e.name # "shutdown"
  OBVIOUS
<1> HIDE DEF e
<1>6. FlowTyped'
  BY <1>2, <1>4, <1>5 DEF FlowInv, FlowTyped
<1>7. /\ heard'[t] = Append(heard[t], e) /\ toWorker'[t] = Tail(toWorker[t])
      /\ \A u \in Threads : u # t => heard'[u] = heard[u] /\ toWorker'[u] = toWorker[u]
  BY <1>5 DEF FlowInv, FlowTyped
<1>8. \A u \in Threads : CameTo(u)' \subseteq CameTo(u)
  <2>1. CameTo(t)' \subseteq CameTo(t)
    BY <1>2, <1>4, <1>7 DEF CameTo
  <2>2. \A u \in Threads : u # t => CameTo(u)' = CameTo(u)
    BY <1>7 DEF CameTo
  <2> QED BY <2>1, <2>2
<1>9. Contents'
  <2>1. \A u \in Threads : \A d \in ToSet(heard'[u]) : d.name # "shutdown"
    BY <1>4, <1>5, <1>7 DEF FlowInv, Contents
  <2> QED BY <1>8, <2>1 DEF FlowInv, Contents, Foreign
<1>10. ASSUME NEW u \in Threads
       PROVE  /\ InFlow(heard'[u]) /\ InFlow(toWorker'[u])
              /\ Before(ToSet(heard'[u]), ToSet(toWorker'[u]))
  <2>1. CASE u = t
    BY <1>1, <1>2, <1>4, <1>7, <2>1 DEF Before
  <2>2. CASE u # t
    BY <1>7, <2>2 DEF FlowInv
  <2> QED BY <2>1, <2>2
<1>11. ASSUME NEW u \in Threads, NEW B, Before(CameTo(u), B) PROVE Before(CameTo(u)', B)
  BY <1>8, <1>11 DEF Before
<1> QED BY <1>6, <1>9, <1>10, <1>11 DEF FlowInv

(* What comes from a worker goes to the mesh, if it goes anywhere.         *)
LEMMA FlowToMesh ==
    ASSUME FlowInv, NEW t \in Threads, fromWorker(t)
    PROVE  FlowInv'
<1> DEFINE e == Head(toMain[t])
<1>1. /\ toMain[t] \in Seq(HostEvent) /\ InFlow(toMain[t]) /\ toMain[t] # <<>>
      /\ toMain' = [toMain EXCEPT ![t] = Tail(toMain[t])]
      /\ meshPublish(onHost[t], e)
      /\ heard' = heard /\ toWorker' = toWorker /\ fired' = fired
  BY DEF FlowInv, FlowTyped, fromWorker, channels
<1>2. /\ e \in HostEvent /\ e \in ToSet(toMain[t])
      /\ Tail(toMain[t]) \in Seq(HostEvent) /\ InFlow(Tail(toMain[t]))
      /\ ToSet(Tail(toMain[t])) \subseteq ToSet(toMain[t])
      /\ Before({e}, ToSet(Tail(toMain[t])))
  BY <1>1, FlowHead
<1>3. e.name \in Sent /\ e.n \in 0..fired /\ e.from = t
  BY <1>2 DEF FlowInv, Contents
<1> HIDE DEF e
<1>4. /\ \A h \in Hosts : net[h] \in Seq(HostEvent) /\ InFlow(net[h]) /\ Before(ToSet(net[h]), {e})
      /\ t \notin Hosts
  <2>1. \A h \in Hosts : Before(ToSet(net[h]), ToSet(toMain[t]))
    BY DEF FlowInv
  <2>2. \A h \in Hosts : Before(ToSet(net[h]), {e})
    BY <1>2, <2>1 DEF Before
  <2> QED BY <2>2, HostEventsAssumption DEF FlowInv, FlowTyped
<1>5. ASSUME NEW h \in Hosts
      PROVE  Append(net[h], e) \in Seq(HostEvent) /\ InFlow(Append(net[h], e))
             /\ ToSet(Append(net[h], e)) = ToSet(net[h]) \cup {e}
  BY <1>2, <1>4, FlowOne
<1>6. /\ net' \in [Hosts -> Seq(HostEvent)]
      /\ \A h \in Hosts : net'[h] = net[h] \/ (h # onHost[t] /\ net'[h] = Append(net[h], e))
  BY <1>1, <1>5 DEF meshPublish, FlowInv, FlowTyped
<1>7. ASSUME NEW h \in Hosts
      PROVE  /\ InFlow(net'[h])
             /\ \A d \in ToSet(net'[h]) : d \in ToSet(net[h]) \/ (h # onHost[t] /\ d = e)
  <2>1. CASE net'[h] = net[h]
    BY <1>4, <2>1
  <2>2. CASE h # onHost[t] /\ net'[h] = Append(net[h], e)
    BY <1>5, <2>2
  <2> QED BY <1>6, <2>1, <2>2
<1>8. /\ FlowTyped'
      /\ \A s \in Threads : /\ InFlow(toMain'[s]) /\ ToSet(toMain'[s]) \subseteq ToSet(toMain[s])
                            /\ s # t => toMain'[s] = toMain[s]
      /\ toMain'[t] = Tail(toMain[t])
  BY <1>1, <1>2, <1>6 DEF FlowInv, FlowTyped
<1>9. Contents'
  <2>1. ASSUME NEW h \in Hosts, NEW d \in ToSet(net'[h])
        PROVE  d.name \in Sent /\ d.n \in 0..fired /\ d.from # h /\ Foreign(d, h)
    BY <1>3, <1>4, <1>7 DEF FlowInv, Contents, Foreign
  <2> QED BY <1>1, <1>8, <2>1 DEF FlowInv, Contents, Foreign, CameTo
<1>10. ASSUME NEW u \in Threads PROVE Before(CameTo(u), ToSet(net'[onHost[u]]))
  <2>1. Before(CameTo(u), ToSet(net[onHost[u]])) /\ Before(CameTo(u), ToSet(toMain[t]))
    BY DEF FlowInv
  <2>2. onHost[u] \in Hosts
    BY HostEventsAssumption
  <2> QED BY <1>2, <1>7, <2>1, <2>2 DEF Before
<1>11. ASSUME NEW u \in Threads, NEW s \in Threads PROVE Before(CameTo(u), ToSet(toMain'[s]))
  <2>1. Before(CameTo(u), ToSet(toMain[s]))
    BY DEF FlowInv
  <2> QED BY <1>8, <2>1 DEF Before
<1>12. ASSUME NEW h \in Hosts, NEW s \in Threads PROVE Before(ToSet(net'[h]), ToSet(toMain'[s]))
  <2>1. Before(ToSet(net[h]), ToSet(toMain'[s]))
    BY <1>8 DEF FlowInv, Before
  <2>2. Before({e}, ToSet(toMain'[s]))
    <3>1. CASE s = t
      BY <1>2, <1>8, <3>1
    <3>2. CASE s # t
      <4>1. \A d \in ToSet(toMain'[s]) : d.from = s
        BY <1>8 DEF FlowInv, Contents
      <4> QED BY <1>3, <3>2, <4>1 DEF Before
    <3> QED BY <3>1, <3>2
  <2> QED BY <1>7, <2>1, <2>2 DEF Before
<1>13. \A u \in Threads : CameTo(u)' = CameTo(u)
  BY <1>1 DEF CameTo
<1> QED BY <1>1, <1>7, <1>8, <1>9, <1>10, <1>11, <1>12, <1>13 DEF FlowInv

(* What comes from the mesh is told to the workers of the host, or lost.   *)
LEMMA FlowFromMesh ==
    ASSUME FlowInv, NEW h \in Hosts, net[h] # <<>>, net' = [net EXCEPT ![h] = Tail(@)],
           notifyWorkers(h, Head(net[h])) \/ UNCHANGED toWorker,
           UNCHANGED <<heard, toMain, fired>>
    PROVE  FlowInv'
<1> DEFINE e == Head(net[h])
<1>1. /\ net[h] \in Seq(HostEvent) /\ InFlow(net[h])
      /\ net' = [net EXCEPT ![h] = Tail(net[h])]
      /\ notifyWorkers(h, e) \/ UNCHANGED toWorker
  BY DEF FlowInv, FlowTyped
<1>2. /\ e \in HostEvent /\ e \in ToSet(net[h])
      /\ Tail(net[h]) \in Seq(HostEvent) /\ InFlow(Tail(net[h]))
      /\ ToSet(Tail(net[h])) \subseteq ToSet(net[h])
      /\ Before({e}, ToSet(Tail(net[h])))
  BY <1>1, FlowHead
<1>3. e.name \in Sent /\ e.n \in 0..fired /\ e.from # h /\ Foreign(e, h)
  BY <1>2 DEF FlowInv, Contents
<1> HIDE DEF e
<1>4. ASSUME NEW t \in Threads, onHost[t] = h
      PROVE  /\ Before(CameTo(t), {e})
             /\ Append(toWorker[t], e) \in Seq(HostEvent) /\ InFlow(Append(toWorker[t], e))
             /\ ToSet(Append(toWorker[t], e)) = ToSet(toWorker[t]) \cup {e}
  <2>1. Before(CameTo(t), ToSet(net[h])) /\ toWorker[t] \in Seq(HostEvent) /\ InFlow(toWorker[t])
    BY <1>4 DEF FlowInv, FlowTyped
  <2>2. Before(CameTo(t), {e})
    BY <1>2, <2>1 DEF Before
  <2>3. Before(ToSet(toWorker[t]), {e})
    BY <2>2 DEF CameTo, Before
  <2> QED BY <1>2, <2>1, <2>2, <2>3, FlowOne
<1>5. /\ toWorker' \in [Threads -> Seq(HostEvent)]
      /\ \A t \in Threads : \/ toWorker'[t] = toWorker[t]
                            \/ onHost[t] = h /\ toWorker'[t] = Append(toWorker[t], e)
  <2>1. CASE notifyWorkers(h, e)
    BY <1>4, <2>1 DEF notifyWorkers, FlowInv, FlowTyped
  <2>2. CASE UNCHANGED toWorker
    BY <2>2 DEF FlowInv, FlowTyped
  <2> QED BY <1>1, <2>1, <2>2
<1>6. ASSUME NEW t \in Threads
      PROVE  /\ InFlow(toWorker'[t])
             /\ \A d \in ToSet(toWorker'[t]) : d \in ToSet(toWorker[t]) \/ (onHost[t] = h /\ d = e)
  <2>1. CASE toWorker'[t] = toWorker[t]
    BY <2>1 DEF FlowInv
  <2>2. CASE onHost[t] = h /\ toWorker'[t] = Append(toWorker[t], e)
    BY <1>4, <2>2
  <2> QED BY <1>5, <2>1, <2>2
<1>7. /\ FlowTyped' /\ net'[h] = Tail(net[h]) /\ \A g \in Hosts : g # h => net'[g] = net[g]
      /\ \A g \in Hosts : InFlow(net'[g]) /\ ToSet(net'[g]) \subseteq ToSet(net[g])
  BY <1>1, <1>2, <1>5 DEF FlowInv, FlowTyped
<1>8. ASSUME NEW t \in Threads, NEW d \in CameTo(t)'
      PROVE  d \in CameTo(t) \/ (onHost[t] = h /\ d = e)
  <2>1. d \in ToSet(heard[t]) \/ d \in ToSet(toWorker'[t])
    BY DEF CameTo
  <2> QED BY <1>6, <2>1 DEF CameTo
<1>9. Contents'
  <2>1. ASSUME NEW t \in Threads, NEW d \in CameTo(t)'
        PROVE  d.n \in 0..fired /\ Foreign(d, onHost[t])
    BY <1>3, <1>8 DEF FlowInv, Contents
  <2> QED BY <1>7, <2>1 DEF FlowInv, Contents, Foreign
<1>10. ASSUME NEW t \in Threads
       PROVE  /\ Before(ToSet(heard[t]), ToSet(toWorker'[t]))
              /\ Before(CameTo(t)', ToSet(net'[onHost[t]]))
  <2>1. Before(ToSet(heard[t]), ToSet(toWorker[t])) /\ Before(CameTo(t), ToSet(net[onHost[t]]))
    BY DEF FlowInv
  <2>2. onHost[t] \in Hosts
    BY HostEventsAssumption
  <2>3. onHost[t] = h => Before(ToSet(heard[t]), {e})
    BY <1>4 DEF Before, CameTo
  <2>4. Before(ToSet(heard[t]), ToSet(toWorker'[t]))
    BY <1>6, <2>1, <2>3 DEF Before
  <2>5. onHost[t] = h => Before({e}, ToSet(net'[onHost[t]]))
    BY <1>2, <1>7
  <2>6. Before(CameTo(t)', ToSet(net'[onHost[t]]))
    BY <1>7, <1>8, <2>1, <2>2, <2>5 DEF Before
  <2> QED BY <2>4, <2>6
<1>11. ASSUME NEW t \in Threads, NEW s \in Threads PROVE Before(CameTo(t)', ToSet(toMain[s]))
  <2>1. Before(CameTo(t), ToSet(toMain[s])) /\ Before(ToSet(net[h]), ToSet(toMain[s]))
    BY DEF FlowInv
  <2> QED BY <1>2, <1>8, <2>1 DEF Before
<1>12. ASSUME NEW g \in Hosts, NEW s \in Threads PROVE Before(ToSet(net'[g]), ToSet(toMain[s]))
  <2>1. Before(ToSet(net[g]), ToSet(toMain[s]))
    BY DEF FlowInv
  <2> QED BY <1>7, <2>1 DEF Before
<1> QED BY <1>6, <1>7, <1>9, <1>10, <1>11, <1>12 DEF FlowInv

(* A worker publishes some events, or none, which main will hear.          *)
LEMMA FlowNotify ==
    ASSUME FlowInv, NEW t \in Threads, NEW es \in Seq(HostEvent), InFlow(es), notifyMain(t, es),
           fired' \in Nat, fired' >= fired,
           \A e \in ToSet(es) : e.name \in Sent /\ e.from = t /\ e.n \in (fired + 1)..fired',
           UNCHANGED <<heard, toWorker, net>>
    PROVE  FlowInv'
<1>1. /\ toMain[t] \in Seq(HostEvent) /\ InFlow(toMain[t]) /\ fired \in Nat
      /\ \A e \in ToSet(toMain[t]) : e.n \in 0..fired
  BY DEF FlowInv, FlowTyped, Contents
<1>2. Before(ToSet(toMain[t]), ToSet(es))
  BY <1>1 DEF Before
<1>3. /\ toMain[t] \o es \in Seq(HostEvent) /\ InFlow(toMain[t] \o es)
      /\ ToSet(toMain[t] \o es) = ToSet(toMain[t]) \cup ToSet(es)
  BY <1>1, <1>2, FlowOn
<1>4. toMain' = toMain \/ toMain' = [toMain EXCEPT ![t] = toMain[t] \o es]
  BY DEF notifyMain
<1>5. /\ toMain' \in [Threads -> Seq(HostEvent)]
      /\ \A s \in Threads : toMain'[s] = toMain[s] \/ (s = t /\ toMain'[s] = toMain[t] \o es)
  BY <1>3, <1>4 DEF FlowInv, FlowTyped
<1>6. FlowTyped'
  BY <1>5 DEF FlowInv, FlowTyped
<1>7. ASSUME NEW s \in Threads
      PROVE  /\ InFlow(toMain'[s])
             /\ \A e \in ToSet(toMain'[s]) :
                   e \in ToSet(toMain[s]) \/ (e \in ToSet(es) /\ e.from = s /\ e.name \in Sent)
  <2>1. CASE toMain'[s] = toMain[s]
    BY <2>1 DEF FlowInv
  <2>2. CASE s = t /\ toMain'[s] = toMain[t] \o es
    BY <1>3, <2>2
  <2> QED BY <1>5, <2>1, <2>2
<1>8. \A e \in ToSet(es) : e.n \in 0..fired' /\ e.n > fired
  BY <1>1
<1>9. /\ \A s \in Threads : InFlow(heard[s]) /\ InFlow(toWorker[s])
      /\ \A h \in Hosts : InFlow(net[h])
  BY DEF FlowInv
<1> QED BY <1>6, <1>7, <1>8, <1>9, FlowNew

(* A main tells some of its workers of a new event.                        *)
LEMMA FlowTold ==
    ASSUME FlowInv, fired' \in Nat, fired' >= fired, NEW e \in HostEvent,
           \/ e.name = "shutdown" /\ e.n = 0
           \/ e.n \in (fired + 1)..fired',
           toWorker' \in [Threads -> Seq(HostEvent)],
           \A t \in Threads : \/ toWorker'[t] = toWorker[t]
                              \/ onHost[t] = e.from /\ toWorker'[t] = Append(toWorker[t], e),
           UNCHANGED <<heard, toMain, net>>
    PROVE  FlowInv'
<1>1. /\ \A t \in Threads : toWorker[t] \in Seq(HostEvent) /\ InFlow(toWorker[t])
      /\ \A t \in Threads : \A d \in ToSet(toWorker[t]) : d.n \in 0..fired
      /\ fired \in Nat
  BY DEF FlowInv, FlowTyped, Contents, CameTo
<1>2. \A t \in Threads : Before(ToSet(toWorker[t]), {e})
  BY <1>1 DEF Before
<1>3. ASSUME NEW t \in Threads
      PROVE  /\ InFlow(toWorker'[t])
             /\ \A d \in ToSet(toWorker'[t]) :
                   d \in ToSet(toWorker[t]) \/ (d \in {e} /\ d.from = onHost[t])
  <2>1. CASE toWorker'[t] = toWorker[t]
    BY <1>1, <2>1
  <2>2. CASE onHost[t] = e.from /\ toWorker'[t] = Append(toWorker[t], e)
    BY <1>1, <1>2, <2>2, FlowOne
  <2> QED BY <2>1, <2>2
<1>4. e.n \in 0..fired' /\ (e.name = "shutdown" \/ e.n > fired)
  BY <1>1
<1>5. FlowTyped'
  BY DEF FlowInv, FlowTyped
<1>6. /\ \A t \in Threads : InFlow(heard[t]) /\ InFlow(toMain[t])
      /\ \A h \in Hosts : InFlow(net[h])
  BY DEF FlowInv
<1> DEFINE New == {e}
<1>7. /\ \A d \in New : d.n \in 0..fired' /\ (d.name = "shutdown" \/ d.n > fired)
      /\ \A t \in Threads : \A d \in ToSet(toWorker'[t]) :
            d \in ToSet(toWorker[t]) \/ (d \in New /\ d.from = onHost[t])
  BY <1>3, <1>4
<1> HIDE DEF New
<1> QED BY <1>3, <1>5, <1>6, <1>7, FlowNew

(* Queues are emptied, threads and links come and go.                      *)
LEMMA FlowShrinks ==
    ASSUME FlowInv, fired' \in Nat, fired' >= fired, FlowTyped',
           \A t \in Threads : /\ heard'[t] = heard[t] \/ heard'[t] = <<>>
                              /\ toWorker'[t] = toWorker[t] \/ toWorker'[t] = <<>>,
           \A h \in Hosts : net'[h] = net[h] \/ net'[h] = <<>>,
           UNCHANGED toMain
    PROVE  FlowInv'
<1>1. /\ \A t \in Threads : InFlow(heard[t]) /\ InFlow(toWorker[t]) /\ InFlow(toMain[t])
      /\ \A h \in Hosts : InFlow(net[h])
  BY DEF FlowInv
<1>2. ASSUME NEW t \in Threads
      PROVE  /\ ToSet(heard'[t]) \subseteq ToSet(heard[t]) /\ InFlow(heard'[t])
             /\ ToSet(toWorker'[t]) \subseteq ToSet(toWorker[t]) /\ InFlow(toWorker'[t])
  BY <1>1, NoFlow
<1>3. ASSUME NEW h \in Hosts PROVE ToSet(net'[h]) \subseteq ToSet(net[h]) /\ InFlow(net'[h])
  BY <1>1, NoFlow
<1> DEFINE New == {}
<1>4. \A e \in New : FALSE
  OBVIOUS
<1> HIDE DEF New
<1> QED BY <1>1, <1>2, <1>3, <1>4, FlowNew

LEMMA FlowStep == FlowInv /\ [EventsNext]_eventVars => FlowInv'
<1> SUFFICES ASSUME FlowInv, [EventsNext]_eventVars PROVE FlowInv'
  OBVIOUS
<1>1. /\ fired \in Nat /\ heard \in [Threads -> Seq(HostEvent)]
      /\ toWorker \in [Threads -> Seq(HostEvent)] /\ net \in [Hosts -> Seq(HostEvent)]
  BY DEF FlowInv, FlowTyped
<1>2. ASSUME UNCHANGED <<heard, toWorker, toMain, net>>, fired' \in {fired, fired + 1}
      PROVE  FlowInv'
  <2>1. FlowTyped' /\ fired' \in Nat /\ fired' >= fired
    BY <1>1, <1>2 DEF FlowInv, FlowTyped
  <2> QED BY <1>2, <2>1, FlowShrinks
<1>3. ASSUME NEW t \in Threads, connectEventChannel(t) \/ connectSubChannels(t)
      PROVE  FlowInv'
  BY <1>2, <1>3 DEF connectEventChannel, connectSubChannels, channels
<1>4. ASSUME NEW h \in Hosts, FireAtNobody(h) PROVE FlowInv'
  BY <1>2, <1>4 DEF FireAtNobody, fires, channels
<1>5. ASSUME NEW t \in Threads, Exits(t) PROVE FlowInv'
  <2>1. /\ toWorker' = [toWorker EXCEPT ![t] = <<>>] /\ heard' = [heard EXCEPT ![t] = <<>>]
        /\ toMain' = toMain /\ net' = net /\ fired' = fired
    BY <1>5 DEF Exits
  <2>2. /\ toWorker' \in [Threads -> Seq(HostEvent)] /\ heard' \in [Threads -> Seq(HostEvent)]
        /\ \A u \in Threads : /\ heard'[u] = heard[u] \/ heard'[u] = <<>>
                              /\ toWorker'[u] = toWorker[u] \/ toWorker'[u] = <<>>
    BY <1>1, <2>1, NoFlow
  <2>3. FlowTyped'
    BY <2>1, <2>2 DEF FlowInv, FlowTyped
  <2> QED BY <1>1, <2>1, <2>2, <2>3, FlowShrinks
<1>6. ASSUME NEW h \in Hosts, disposeMesh(h) PROVE FlowInv'
  <2>1. /\ net' = [net EXCEPT ![h] = <<>>] /\ toMain' = toMain /\ heard' = heard
        /\ toWorker' = toWorker /\ fired' = fired
    BY <1>6 DEF disposeMesh
  <2>2. /\ net' \in [Hosts -> Seq(HostEvent)]
        /\ \A g \in Hosts : net'[g] = net[g] \/ net'[g] = <<>>
    BY <1>1, <2>1, NoFlow
  <2>3. FlowTyped'
    BY <2>1, <2>2 DEF FlowInv, FlowTyped
  <2> QED BY <1>1, <2>1, <2>2, <2>3, FlowShrinks
<1>7. ASSUME NEW t \in Threads, stop(t) PROVE FlowInv'
  <2> DEFINE e == event("shutdown", onHost[t], 0)
  <2>1. /\ toWorker' = [toWorker EXCEPT ![t] = Append(toWorker[t], e)] /\ toMain' = toMain
        /\ net' = net /\ heard' = heard /\ fired' = fired
    BY <1>7 DEF stop
  <2>2. e \in HostEvent /\ e.name = "shutdown" /\ e.n = 0 /\ e.from = onHost[t]
    BY HostEventsAssumption DEF event, HostEvent
  <2> HIDE DEF e
  <2>3. Append(toWorker[t], e) \in Seq(HostEvent)
    BY <1>1, <2>2, AppendProperties
  <2>4. /\ toWorker' \in [Threads -> Seq(HostEvent)]
        /\ \A u \in Threads : \/ toWorker'[u] = toWorker[u]
                              \/ onHost[u] = e.from /\ toWorker'[u] = Append(toWorker[u], e)
    BY <1>1, <2>1, <2>2, <2>3
  <2> QED BY <1>1, <2>1, <2>2, <2>4, FlowTold
<1>8. ASSUME NEW h \in Hosts,
             user(h) \in HostEvent /\ user(h).from = h /\ user(h).n \in (fired + 1)..fired',
             fired' \in Nat, fired' >= fired, UNCHANGED <<heard, toMain, net>>,
             \/ notifyWorkers(h, user(h))
             \/ \E t \in Threads :
                   h = onHost[t] /\ toWorker' = [toWorker EXCEPT ![t] = Append(@, user(h))]
      PROVE  FlowInv'
  <2> DEFINE e == user(h)
  <2>1. \A t \in Threads : Append(toWorker[t], e) \in Seq(HostEvent)
    BY <1>1, <1>8, AppendProperties
  <2>2. /\ e \in HostEvent /\ e.from = h /\ e.n \in (fired + 1)..fired'
        /\ \/ notifyWorkers(h, e)
           \/ \E t \in Threads :
                 h = onHost[t] /\ toWorker' = [toWorker EXCEPT ![t] = Append(toWorker[t], e)]
    BY <1>8
  <2> HIDE DEF e
  <2>3. /\ toWorker' \in [Threads -> Seq(HostEvent)]
        /\ \A u \in Threads : \/ toWorker'[u] = toWorker[u]
                              \/ onHost[u] = e.from /\ toWorker'[u] = Append(toWorker[u], e)
    BY <1>1, <2>1, <2>2 DEF notifyWorkers
  <2> QED BY <1>8, <2>2, <2>3, FlowTold
<1>9. ASSUME NEW h \in Hosts, fires
      PROVE  /\ user(h) \in HostEvent /\ user(h).from = h /\ user(h).n \in (fired + 1)..fired'
             /\ fired' = fired + 1 /\ fired' \in Nat /\ fired' >= fired /\ user(h).name \in Sent
  BY <1>1, <1>9 DEF fires, user, event, HostEvent, Sent
<1>10. ASSUME NEW h \in Hosts, FireHost(h) PROVE FlowInv'
  BY <1>8, <1>9, <1>10 DEF FireHost
<1>11. ASSUME NEW t \in Threads, FireThread(t) PROVE FlowInv'
  <2>1. onHost[t] \in Hosts /\ fires /\ UNCHANGED <<heard, toMain, net>>
        /\ toWorker' = [toWorker EXCEPT ![t] = Append(@, user(onHost[t]))]
    BY <1>11, HostEventsAssumption DEF FireThread
  <2> QED BY <1>8, <1>9, <2>1
<1>12. ASSUME NEW t \in Threads, receive(t, TRUE) \/ receive(t, FALSE) PROVE FlowInv'
  <2> DEFINE e == Head(toWorker[t])
  <2>1. /\ toWorker[t] # <<>> /\ e.name # "shutdown"
        /\ heard' = [heard EXCEPT ![t] = Append(@, e)]
        /\ notifyMain(t, onNotify(t, e))
        /\ toWorker' = [toWorker EXCEPT ![t] = Tail(@)]
        /\ net' = net /\ fired' = fired
    BY <1>12 DEF receive, channels
  <2>2. e.name \in Sent
    <3>1. e \in HostEvent
      BY <1>1, <2>1, ShiftFacts
    <3> QED BY <2>1, <3>1 DEF HostEvent
  <2> HIDE DEF e
  <2>3. onNotify(t, e) = <<>>
    BY <2>2 DEF onNotify, Sent
  <2>4. toMain[t] \o <<>> = toMain[t] /\ toMain \in [Threads -> Seq(HostEvent)]
    BY ConcatEmptySeq DEF FlowInv, FlowTyped
  <2>5. toMain' = toMain
    BY <2>1, <2>3, <2>4 DEF notifyMain
  <2> QED BY <2>1, <2>5, FlowHears DEF e
<1>13. ASSUME NEW t \in Threads, fromWorker(t) PROVE FlowInv'
  BY <1>13, FlowToMesh
<1>14. ASSUME NEW h \in Hosts, fromMesh(h) \/ MeshLoses(h) PROVE FlowInv'
  BY <1>14, FlowFromMesh DEF fromMesh, MeshLoses, channels
<1>15. ASSUME NEW h \in Hosts, FireNoPool(h) PROVE FlowInv'
  <2> DEFINE e == user(h)
  <2>1. /\ e \in HostEvent /\ e.from = h /\ e.n \in (fired + 1)..fired' /\ e.name \in Sent
        /\ fired' \in Nat /\ fired' >= fired /\ UNCHANGED <<heard, toWorker, toMain>>
        /\ meshPublish(h, e)
    BY <1>9, <1>15 DEF FireNoPool, channels
  <2> HIDE DEF e
  <2>2. /\ \A g \in Hosts : net[g] \in Seq(HostEvent) /\ InFlow(net[g])
        /\ \A g \in Hosts : \A d \in ToSet(net[g]) : d.n \in 0..fired
    BY DEF FlowInv, FlowTyped, Contents
  <2>3. \A g \in Hosts : Before(ToSet(net[g]), {e})
    BY <1>1, <2>1, <2>2 DEF Before
  <2>4. ASSUME NEW g \in Hosts
        PROVE  /\ Append(net[g], e) \in Seq(HostEvent) /\ InFlow(Append(net[g], e))
               /\ ToSet(Append(net[g], e)) = ToSet(net[g]) \cup {e}
    BY <2>1, <2>2, <2>3, FlowOne
  <2>5. /\ net' \in [Hosts -> Seq(HostEvent)]
        /\ \A g \in Hosts : net'[g] = net[g] \/ (g # h /\ net'[g] = Append(net[g], e))
    BY <1>1, <2>1, <2>4 DEF meshPublish
  <2> DEFINE New == {e}
  <2>6. ASSUME NEW g \in Hosts
        PROVE  /\ InFlow(net'[g])
               /\ \A d \in ToSet(net'[g]) :
                     d \in ToSet(net[g]) \/ (d \in New /\ d.from \in Hosts \ {g} /\ d.name \in Sent)
    <3>1. CASE net'[g] = net[g]
      BY <2>2, <3>1
    <3>2. CASE g # h /\ net'[g] = Append(net[g], e)
      BY <2>1, <2>4, <3>2
    <3> QED BY <2>5, <3>1, <3>2
  <2>7. \A d \in New : d.n \in 0..fired' /\ (d.name = "shutdown" \/ d.n > fired)
    BY <1>1, <2>1
  <2> HIDE DEF New
  <2>8. FlowTyped'
    BY <2>1, <2>5 DEF FlowInv, FlowTyped
  <2>9. \A t \in Threads : InFlow(heard[t]) /\ InFlow(toWorker[t]) /\ InFlow(toMain[t])
    BY DEF FlowInv
  <2> QED BY <2>1, <2>6, <2>7, <2>8, <2>9, FlowNew
<1>16. ASSUME NEW t \in Threads, NEW name \in {"crud", "internalRequest"}, FiresInWorker(t, name)
       PROVE  FlowInv'
  <2> DEFINE es == onNotify(t, event(name, t, fired'))
  <2>1. /\ notifyMain(t, es) /\ fired' = fired + 1 /\ fired' \in Nat /\ fired' >= fired
        /\ UNCHANGED <<heard, toWorker, net>>
    BY <1>1, <1>16 DEF FiresInWorker, fires, channels
  <2>2. \/ es = <<>>
        \/ es = <<event("external", t, fired')>>
        \/ es = <<event("request", t, fired')>>
    BY DEF onNotify, event, externalCrudEvent
  <2>3. \A n \in {"external", "request"} :
           /\ event(n, t, fired') \in HostEvent
           /\ event(n, t, fired').name \in Sent /\ event(n, t, fired').from = t
           /\ event(n, t, fired').n \in (fired + 1)..fired'
    BY <1>1, <2>1 DEF event, HostEvent, Sent
  <2> HIDE DEF es
  <2>4. /\ es \in Seq(HostEvent) /\ InFlow(es)
        /\ \A e \in ToSet(es) : e.name \in Sent /\ e.from = t /\ e.n \in (fired + 1)..fired'
    <3>1. CASE es = <<>>
      BY <3>1, NoFlow
    <3>2. ASSUME NEW e \in HostEvent, es = <<e>>,
                 e.name \in Sent, e.from = t, e.n \in (fired + 1)..fired'
          PROVE  /\ es \in Seq(HostEvent) /\ InFlow(es)
                 /\ \A d \in ToSet(es) : /\ d.name \in Sent /\ d.from = t
                                        /\ d.n \in (fired + 1)..fired'
      <4>1. <<e>> \in Seq(HostEvent) /\ InFlow(<<e>>) /\ ToSet(<<e>>) = {e}
        BY FlowSingle
      <4> QED BY <3>2, <4>1
    <3> QED BY <2>2, <2>3, <3>1, <3>2
  <2> QED BY <2>1, <2>4, FlowNotify
<1>17. ASSUME NEW t \in Threads, CrudEvent(t) \/ requireRemote(t) PROVE FlowInv'
  BY <1>16, <1>17 DEF CrudEvent, requireRemote
<1>18. ASSUME NEW t \in Threads, unhandledPort(t) PROVE FlowInv'
  <2> DEFINE e == event("port", t, fired')
             es == <<e>>
  <2>1. /\ notifyMain(t, es) /\ fired' = fired + 1 /\ fired' \in Nat /\ fired' >= fired
        /\ UNCHANGED <<heard, toWorker, net>>
    BY <1>1, <1>18 DEF unhandledPort, fires, channels
  <2>2. e \in HostEvent /\ e.name \in Sent /\ e.from = t /\ e.n \in (fired + 1)..fired'
    BY <1>1, <2>1 DEF event, HostEvent, Sent
  <2> HIDE DEF e
  <2>3. /\ es \in Seq(HostEvent) /\ InFlow(es)
        /\ \A d \in ToSet(es) : d.name \in Sent /\ d.from = t /\ d.n \in (fired + 1)..fired'
    BY <2>2, FlowSingle
  <2> HIDE DEF es
  <2> QED BY <2>1, <2>3, FlowNotify
<1>19. ASSUME NEW t \in Threads, newModels(t) PROVE FlowInv'
  <2> DEFINE crud == onNotify(t, event("crud", t, fired + 1))
             resp == event("response", t, fired')
             es   == crud \o <<resp>>
             ext  == event("external", t, fired + 1)
  <2>1. /\ notifyMain(t, es) /\ fired' = fired + 2 /\ fired' \in Nat /\ fired' >= fired
        /\ UNCHANGED <<heard, toWorker, net>>
    BY <1>1, <1>19 DEF newModels, channels
  <2>2. crud = <<>> \/ crud = <<ext>>
    BY DEF onNotify, event, externalCrudEvent
  <2>3. /\ resp \in HostEvent /\ ext \in HostEvent
        /\ resp.name \in Sent /\ resp.from = t
        /\ resp.n \in (fired + 1)..fired' /\ resp.n = fired + 2
        /\ ext.name \in Sent /\ ext.from = t /\ ext.n \in (fired + 1)..fired' /\ ext.n = fired + 1
    BY <1>1, <2>1 DEF event, HostEvent, Sent
  <2> HIDE DEF crud, resp, ext, es
  <2>4. crud \in Seq(HostEvent) /\ InFlow(crud) /\ ToSet(crud) \subseteq {ext}
    <3>1. <<ext>> \in Seq(HostEvent) /\ InFlow(<<ext>>) /\ ToSet(<<ext>>) = {ext}
      BY <2>3, FlowSingle
    <3>2. CASE crud = <<>>
      BY <3>2, NoFlow
    <3>3. CASE crud = <<ext>>
      BY <3>1, <3>3
    <3> QED BY <2>2, <3>2, <3>3
  <2>5. Before(ToSet(crud), {resp})
    BY <1>1, <2>3, <2>4 DEF Before
  <2>6. <<resp>> \in Seq(HostEvent) /\ InFlow(<<resp>>) /\ ToSet(<<resp>>) = {resp}
    BY <2>3, FlowSingle
  <2> DEFINE r == <<resp>>
  <2>7. /\ r \in Seq(HostEvent) /\ InFlow(r) /\ ToSet(r) = {resp} /\ Before(ToSet(crud), ToSet(r))
        /\ es = crud \o r
    BY <2>5, <2>6 DEF es
  <2> HIDE DEF r
  <2>8. es \in Seq(HostEvent) /\ InFlow(es) /\ ToSet(es) = ToSet(crud) \cup {resp}
    <3>1. ASSUME NEW p \in Seq(HostEvent), NEW q \in Seq(HostEvent), InFlow(p), InFlow(q),
                 Before(ToSet(p), ToSet(q))
          PROVE  /\ p \o q \in Seq(HostEvent) /\ InFlow(p \o q)
                 /\ ToSet(p \o q) = ToSet(p) \cup ToSet(q)
      BY <3>1, FlowOn
    <3>2. /\ crud \o r \in Seq(HostEvent) /\ InFlow(crud \o r)
          /\ ToSet(crud \o r) = ToSet(crud) \cup ToSet(r)
      BY <2>4, <2>7, <3>1
    <3> QED BY <2>7, <3>2
  <2>9. \A d \in ToSet(es) : d.name \in Sent /\ d.from = t /\ d.n \in (fired + 1)..fired'
    BY <2>3, <2>4, <2>8
  <2> QED BY <2>1, <2>8, <2>9, FlowNotify
<1>20. CASE UNCHANGED eventVars
  BY <1>2, <1>20 DEF eventVars
<1> QED
  <2>1. CASE \E t \in Threads :
                \/ connectEventChannel(t) \/ connectSubChannels(t) \/ stop(t) \/ Exits(t)
                \/ CrudEvent(t) \/ requireRemote(t) \/ unhandledPort(t)
                \/ \E wantsNew \in BOOLEAN : receive(t, wantsNew)
                \/ newModels(t) \/ fromWorker(t) \/ FireThread(t)
    BY <1>3, <1>5, <1>7, <1>11, <1>12, <1>13, <1>17, <1>18, <1>19, <2>1
  <2>2. CASE \E h \in Hosts :
                \/ disposeMesh(h) \/ fromMesh(h) \/ MeshLoses(h)
                \/ FireAtNobody(h) \/ FireHost(h) \/ FireNoPool(h)
    BY <1>4, <1>6, <1>10, <1>14, <1>15, <2>2
  <2> QED BY <1>20, <2>1, <2>2 DEF EventsNext

(* However events are published again, forwarded and answered, whichever   *)
(* threads are stopped and started: a thread hears an event once at most,  *)
(* those of one sender in order, and none of its own host's threads: for   *)
(* any threads, hosts, owners, events and renewals.                        *)
THEOREM EventsHeardInOrder == EventsSpec => []HeardOnceInOrder
<1>1. EventsInit => FlowInv
  <2> SUFFICES ASSUME EventsInit PROVE FlowInv
    OBVIOUS
  <2>1. /\ heard = [t \in Threads |-> <<>>] /\ toWorker = [t \in Threads |-> <<>>]
        /\ toMain = [t \in Threads |-> <<>>] /\ net = [h \in Hosts |-> <<>>] /\ fired = 0
    BY DEF EventsInit
  <2>2. /\ \A t \in Threads : heard[t] = <<>> /\ toWorker[t] = <<>> /\ toMain[t] = <<>>
        /\ \A h \in Hosts : net[h] = <<>>
    BY <2>1
  <2>3. FlowTyped
    BY <2>1, NoFlow DEF FlowTyped
  <2>4. /\ \A t \in Threads : CameTo(t) = {} /\ ToSet(heard[t]) = {} /\ ToSet(toMain[t]) = {}
        /\ \A h \in Hosts : ToSet(net[h]) = {}
    BY <2>2, NoFlow DEF CameTo
  <2>5. Contents
    BY <2>4 DEF Contents
  <2>6. /\ \A t \in Threads : InFlow(heard[t]) /\ InFlow(toWorker[t]) /\ InFlow(toMain[t])
        /\ \A h \in Hosts : InFlow(net[h])
    BY <2>2, NoFlow
  <2> QED BY <2>3, <2>4, <2>5, <2>6, HostEventsAssumption DEF FlowInv, Before
<1>2. FlowInv => HeardOnceInOrder
  <2> SUFFICES ASSUME FlowInv, NEW t \in Threads, NEW j \in DOMAIN heard[t]
               PROVE  /\ Foreign(heard[t][j], onHost[t])
                      /\ \A i \in 1..(j - 1) : heard[t][i].from = heard[t][j].from =>
                                                  heard[t][i].n < heard[t][j].n
    BY DEF HeardOnceInOrder, Foreign
  <2> DEFINE q == heard[t]
  <2>1. /\ q \in Seq(HostEvent) /\ DOMAIN q = 1..Len(q) /\ Len(q) \in Nat
    BY LenProperties DEF FlowInv, FlowTyped
  <2>2. \A i \in 1..Len(q) : q[i] \in ToSet(q) /\ q[i].name # "shutdown"
    BY <2>1 DEF ToSet, FlowInv, Contents
  <2>3. Foreign(q[j], onHost[t])
    BY <2>1, <2>2 DEF CameTo, FlowInv, Contents
  <2>4. ASSUME NEW i \in 1..(j - 1), q[i].from = q[j].from PROVE q[i].n < q[j].n
    <3>1. i \in 1..Len(q) /\ j \in 1..Len(q) /\ i < j
      BY <2>1
    <3>2. Before({q[i]}, {q[j]})
      BY <3>1 DEF FlowInv, InFlow
    <3> QED BY <2>2, <2>4, <3>1, <3>2 DEF Before
  <2> QED BY <2>3, <2>4
<1> QED BY <1>1, <1>2, FlowStep, PTL DEF EventsSpec
=============================================================================
