----------------------------- MODULE PortsProofs -----------------------------
(***************************************************************************)
(* Proofs about Requests, EventBroker and Ports, for any clients, handlers *)
(* and chains of ports.                                                    *)
(***************************************************************************)
EXTENDS Ports, EventBroker, Requests, JsArrayProofs, FiniteSetTheorems, TLAPS

-----------------------------------------------------------------------------
(* Requests: what the routes are once they are set                         *)

pathOf(i) == toSet[i][1]
methodOf(i) == toSet[i][2]
MadeFor(path, n) == {methodOf(i) : i \in {j \in 1..n : pathOf(j) = path}}

RoutesMade ==
    /\ made \in 0 .. Len(toSet)
    /\ \A path : find(path) = MadeFor(path, made)
    /\ made > 0 => hasPath = pathOf(made)

LEMMA RouteFacts ==
    /\ Len(toSet) = 9
    /\ \A i \in 1..9 : pathOf(i) # "nowhere"
    /\ \A i \in 1..8 : pathOf(i) # "deploy"
    /\ pathOf(9) = "deploy"
    /\ \A i \in 1..9 : toSet[i] = <<pathOf(i), methodOf(i)>>
BY DEF toSet, pathOf, methodOf

LEMMA SetMakesRoutes ==
    ASSUME RoutesMade, set PROVE RoutesMade'
<1> DEFINE path == pathOf(made + 1)
           method == methodOf(made + 1)
<1>1. /\ made < Len(toSet) /\ made' = made + 1 /\ hasPath' = path
      /\ routes' = [p \in DOMAIN routes \cup {path} |->
                       IF p = path THEN find(path) \cup {method} ELSE routes[p]]
  BY DEF set, pathOf, methodOf
<1>2. made \in Nat /\ made' \in 0 .. Len(toSet)
  BY <1>1, RouteFacts DEF RoutesMade
<1> HIDE DEF path, method
<1>3. ASSUME NEW p PROVE find(p)' = MadeFor(p, made')
  <2>1. find(p)' = IF p = path THEN find(path) \cup {method} ELSE find(p)
    BY <1>1 DEF find
  <2>2. find(p) = MadeFor(p, made) /\ find(path) = MadeFor(path, made)
    BY DEF RoutesMade
  <2>3. 1..made' = (1..made) \cup {made + 1}
    BY <1>1, <1>2
  <2>4. MadeFor(p, made') = IF p = path THEN MadeFor(p, made) \cup {method} ELSE MadeFor(p, made)
    BY <2>3 DEF MadeFor, path, method
  <2> QED BY <2>1, <2>2, <2>4
<1> QED BY <1>1, <1>2, <1>3 DEF RoutesMade, path

(* Which requests get a controller.                                        *)
LEMMA ControllerFacts ==
    ASSUME RoutesMade, made = Len(toSet), NEW k \in Kinds
    PROVE  /\ registered(k) => controllerOf(k)
           /\ controllerOf(k) => k # "stray"
<1> DEFINE path == requestOf[k][1]
           method == requestOf[k][2]
<1>1. made = 9 /\ hasPath = "deploy"
  BY RouteFacts DEF RoutesMade
<1>2. find(path) = MadeFor(path, 9)
  BY <1>1 DEF RoutesMade
<1>3. ASSUME registered(k) PROVE controllerOf(k)
  <2>1. PICK i \in 1..8 : toSet[i] = requestOf[k]
    BY <1>3, RouteFacts DEF registered
  <2>2. path = pathOf(i) /\ method = methodOf(i)
    BY <2>1 DEF pathOf, methodOf
  <2>3. method \in find(path)
    BY <1>2, <2>2 DEF MadeFor
  <2>4. get(path) = find(path)
    BY <1>1, <2>2, RouteFacts DEF get
  <2> QED BY <2>3, <2>4 DEF controllerOf
<1>4. ASSUME k = "stray" PROVE ~controllerOf(k)
  <2>1. path = "nowhere"
    BY <1>4 DEF requestOf
  <2>2. find(path) = {}
    BY <1>2, <2>1, RouteFacts DEF MadeFor
  <2> QED BY <2>1, <2>2 DEF controllerOf, literals
<1> QED BY <1>3, <1>4

-----------------------------------------------------------------------------
(* Requests: every answer is a true one                                    *)

Points == {"new", "controller", "job", "worked", "stream", "reply", "ended"}
Outcomes == {"none", "ok", "error", "Not Found", "throws"}
Codes == {NoAnswer, "200", "201", "400", "404", "500"}

(* A request of kind k that is at point p with outcome o and answer a; d   *)
(* says that its effect has taken place.  Only what has ended has a status *)
(* of its own.                                                             *)
TrueOf(k, p, o, d, a) ==
    /\ k \in Kinds /\ p \in Points /\ o \in Outcomes /\ d \in BOOLEAN /\ a \in Codes
    /\ p \notin {"new", "ended"} => k # "stray"
    /\ p = "reply" /\ o = "ok" /\ k \in Writes => d
    /\ p = "ended" => a # NoAnswer
    /\ a = "201" => p = "ended" /\ d
    /\ a = "404" => p = "ended" /\ (~registered(k) \/ o = "Not Found")

AnswersInv ==
    /\ RoutesMade
    /\ crashed = FALSE
    /\ kind = [r \in Clients |-> kind[r]] /\ at = [r \in Clients |-> at[r]]
    /\ outcome = [r \in Clients |-> outcome[r]] /\ done = [r \in Clients |-> done[r]]
    /\ answer = [r \in Clients |-> answer[r]]
    /\ \A r \in Clients : TrueOf(kind[r], at[r], outcome[r], done[r], answer[r])

(* A step of one request.                                                  *)
LEMMA ClientStep ==
    ASSUME AnswersInv, NEW r \in Clients, NEW k, NEW p, NEW o, NEW d, NEW a,
           kind' = [kind EXCEPT ![r] = k], at' = [at EXCEPT ![r] = p],
           outcome' = [outcome EXCEPT ![r] = o], done' = [done EXCEPT ![r] = d],
           answer' = [answer EXCEPT ![r] = a], UNCHANGED <<routeVars, crashed>>,
           TrueOf(k, p, o, d, a)
    PROVE  AnswersInv'
<1>1. /\ kind' = [q \in Clients |-> IF q = r THEN k ELSE kind[q]]
      /\ at' = [q \in Clients |-> IF q = r THEN p ELSE at[q]]
      /\ outcome' = [q \in Clients |-> IF q = r THEN o ELSE outcome[q]]
      /\ done' = [q \in Clients |-> IF q = r THEN d ELSE done[q]]
      /\ answer' = [q \in Clients |-> IF q = r THEN a ELSE answer[q]]
  BY DEF AnswersInv
<1>2. RoutesMade' /\ crashed' = FALSE
  BY DEF AnswersInv, RoutesMade, routeVars, find
<1>3. ASSUME NEW q \in Clients
      PROVE  TrueOf(kind'[q], at'[q], outcome'[q], done'[q], answer'[q])
  BY <1>1 DEF AnswersInv
<1>4. /\ kind' = [q \in Clients |-> kind'[q]] /\ at' = [q \in Clients |-> at'[q]]
      /\ outcome' = [q \in Clients |-> outcome'[q]] /\ done' = [q \in Clients |-> done'[q]]
      /\ answer' = [q \in Clients |-> answer'[q]]
  BY <1>1
<1>5. \A q \in Clients : TrueOf(kind[q], at[q], outcome[q], done[q], answer[q])'
  BY <1>3 DEF TrueOf, registered
<1> QED BY <1>2, <1>4, <1>5 DEF AnswersInv

(* What the controllers answer.                                            *)
LEMMA StatusFacts ==
    ASSUME NEW r \in Clients, kind[r] \in Kinds \ {"stray"}, NEW s \in statuses(r)
    PROVE  /\ s \in {"200", "201", "400", "404", "500", "invalid"}
           /\ s = "201" => outcome[r] = "ok" /\ kind[r] \in Writes
           /\ s = "404" => outcome[r] = "Not Found"
<1>1. kind[r] \in {"create", "edit", "remove", "find", "list", "port", "config", "reload", "deploy"}
  BY DEF Kinds, requestOf
<1> QED BY <1>1 DEF statuses, postModel, patchModel, deleteModel, anyInvokePort, getModelById,
                    getModels, getConfig, getContent, errorCode, Writes

LEMMA AnswersStep == AnswersInv /\ [RequestsNext]_requestVars => AnswersInv'
<1> SUFFICES ASSUME AnswersInv, [RequestsNext]_requestVars PROVE AnswersInv'
  OBVIOUS
<1>1. CASE set
  <2>1. RoutesMade' /\ UNCHANGED <<kind, at, outcome, done, answer, crashed>>
    BY <1>1, SetMakesRoutes DEF AnswersInv, set
  <2> QED BY <2>1 DEF AnswersInv, TrueOf, registered
<1>2. ASSUME NEW r \in Clients,
             \/ \E k \in Kinds : handle(r, k)
             \/ enforceIdempotency(r) \/ findModel(r) \/ invokePort(r) \/ listConfigs(r)
             \/ liveUpdate(r) \/ liveRollout(r) \/ listModels(r) \/ streamStarts(r)
             \/ rejected(r) \/ \E effect \in BOOLEAN : works(r, effect)
             \/ messageFn(r) \/ buildCallback(r) \/ uncaughtException(r)
      PROVE  AnswersInv'
  <2> PICK k, p, o, d, a :
          k = kind[r] /\ p = at[r] /\ o = outcome[r] /\ d = done[r] /\ a = answer[r]
    OBVIOUS
  <2>1. TrueOf(k, p, o, d, a)
    BY DEF AnswersInv
  <2>2. /\ kind = [kind EXCEPT ![r] = k] /\ at = [at EXCEPT ![r] = p]
        /\ outcome = [outcome EXCEPT ![r] = o] /\ done = [done EXCEPT ![r] = d]
        /\ answer = [answer EXCEPT ![r] = a]
    BY DEF AnswersInv
  <2>3. ASSUME NEW j \in Kinds, handle(r, j) PROVE AnswersInv'
    <3>1. /\ made = Len(toSet) /\ p = "new" /\ kind' = [kind EXCEPT ![r] = j]
          /\ UNCHANGED <<routeVars, outcome, done, crashed>>
      BY <2>3 DEF handle
    <3>2. RoutesMade
      BY DEF AnswersInv
    <3>3. CASE controllerOf(j)
      <4>1. at' = [at EXCEPT ![r] = "controller"] /\ answer' = [answer EXCEPT ![r] = a]
        BY <2>2, <2>3, <3>3 DEF handle, goes
      <4>2. TrueOf(j, "controller", o, d, a)
        BY <2>1, <3>1, <3>2, <3>3, ControllerFacts DEF TrueOf, Points
      <4>3. outcome' = [outcome EXCEPT ![r] = o] /\ done' = [done EXCEPT ![r] = d]
        BY <2>2, <3>1
      <4> QED BY <3>1, <4>1, <4>2, <4>3, ClientStep
    <3>4. CASE ~controllerOf(j)
      <4>1. at' = [at EXCEPT ![r] = "ended"] /\ answer' = [answer EXCEPT ![r] = "404"]
        BY <2>3, <3>4 DEF handle, goes
      <4>2. ~registered(j)
        BY <3>1, <3>2, <3>4, ControllerFacts
      <4>3. TrueOf(j, "ended", o, d, "404")
        BY <2>1, <4>2 DEF TrueOf, Points, Codes, NoAnswer
      <4>4. outcome' = [outcome EXCEPT ![r] = o] /\ done' = [done EXCEPT ![r] = d]
        BY <2>2, <3>1
      <4> QED BY <3>1, <4>1, <4>3, <4>4, ClientStep
    <3> QED BY <3>3, <3>4
  (* Steps that answer nothing. *)
  <2>4. ASSUME NEW q, NEW n, NEW e,
               at' = [at EXCEPT ![r] = q], outcome' = [outcome EXCEPT ![r] = n],
               done' = [done EXCEPT ![r] = e], UNCHANGED <<routeVars, kind, answer, crashed>>,
               p \in {"controller", "job", "worked"}, q \in {"job", "stream", "worked", "reply"},
               n \in Outcomes, e \in BOOLEAN, q = "reply" /\ n = "ok" /\ k \in Writes => e
        PROVE  AnswersInv'
    <3>1. TrueOf(k, q, n, e, a)
      BY <2>1, <2>4 DEF TrueOf, Points
    <3>2. kind' = [kind EXCEPT ![r] = k] /\ answer' = [answer EXCEPT ![r] = a]
      BY <2>2, <2>4
    <3> QED BY <2>4, <3>1, <3>2, ClientStep
  <2>5. k \in Kinds /\ o \in Outcomes /\ d \in BOOLEAN
    BY <2>1 DEF TrueOf
  <2>6. CASE enforceIdempotency(r)
    <3>1. p = "controller" /\ UNCHANGED <<routeVars, kind, answer, crashed>>
      BY <2>6 DEF enforceIdempotency, controls
    <3>2. \/ at' = [at EXCEPT ![r] = "job"] /\ UNCHANGED <<outcome, done>>
          \/ /\ at' = [at EXCEPT ![r] = "reply"] /\ outcome' = [outcome EXCEPT ![r] = "ok"]
             /\ done' = [done EXCEPT ![r] = TRUE]
          \/ /\ at' = [at EXCEPT ![r] = "reply"] /\ outcome' = [outcome EXCEPT ![r] = "error"]
             /\ UNCHANGED done
      BY <2>6 DEF enforceIdempotency, goes, replies
    <3> QED BY <2>2, <2>4, <2>5, <3>1, <3>2 DEF Outcomes
  <2>7. CASE findModel(r) \/ invokePort(r) \/ listConfigs(r) \/ liveUpdate(r) \/ liveRollout(r)
             \/ listModels(r)
    <3>1. p = "controller" /\ UNCHANGED <<routeVars, kind, done, answer, crashed>>
      BY <2>7 DEF findModel, invokePort, listConfigs, liveUpdate, liveRollout, listModels, controls
    <3>2. \/ \E q \in {"job", "stream"} : at' = [at EXCEPT ![r] = q] /\ UNCHANGED outcome
          \/ \E n \in {"ok", "error", "Not Found", "throws"} :
                /\ at' = [at EXCEPT ![r] = "reply"] /\ outcome' = [outcome EXCEPT ![r] = n]
                /\ n = "ok" => k \in {"find", "config", "reload", "deploy", "list"}
      BY <2>7 DEF findModel, invokePort, listConfigs, liveUpdate, liveRollout, listModels,
                  controls, goes, replies
    <3>3. CASE \E q \in {"job", "stream"} : at' = [at EXCEPT ![r] = q] /\ UNCHANGED outcome
      BY <2>2, <2>4, <2>5, <3>1, <3>3
    <3>4. CASE \E n \in {"ok", "error", "Not Found", "throws"} :
                  /\ at' = [at EXCEPT ![r] = "reply"] /\ outcome' = [outcome EXCEPT ![r] = n]
                  /\ n = "ok" => k \in {"find", "config", "reload", "deploy", "list"}
      BY <2>2, <2>4, <2>5, <3>1, <3>4 DEF Outcomes, Writes
    <3> QED BY <3>2, <3>3, <3>4
  <2>8. CASE streamStarts(r)
    <3>1. /\ p = "stream" /\ answer' = [answer EXCEPT ![r] = "200"]
          /\ UNCHANGED <<routeVars, kind, at, outcome, done, crashed>>
      BY <2>8 DEF streamStarts
    <3>2. TrueOf(k, p, o, d, "200")
      BY <2>1, <3>1 DEF TrueOf, Codes
    <3>3. /\ kind' = [kind EXCEPT ![r] = k] /\ at' = [at EXCEPT ![r] = p]
          /\ outcome' = [outcome EXCEPT ![r] = o] /\ done' = [done EXCEPT ![r] = d]
      BY <2>2, <3>1
    <3>4. UNCHANGED <<routeVars, crashed>> /\ answer' = [answer EXCEPT ![r] = "200"]
      BY <3>1
    <3> QED BY <3>2, <3>3, <3>4, ClientStep
  <2>9. CASE rejected(r)
    BY <2>2, <2>4, <2>5, <2>9 DEF rejected, replies, goes, Outcomes
  <2>10. ASSUME NEW effect \in BOOLEAN, works(r, effect) PROVE AnswersInv'
    BY <2>2, <2>4, <2>5, <2>10 DEF works, goes
  <2>11. CASE messageFn(r)
    <3>1. p = "worked" /\ UNCHANGED <<routeVars, kind, done, answer, crashed>>
      BY <2>11 DEF messageFn
    <3>2. PICK n \in {"ok", "error"} :
              /\ at' = [at EXCEPT ![r] = "reply"] /\ outcome' = [outcome EXCEPT ![r] = n]
              /\ n = "ok" /\ k \in Writes => d
      BY <2>5, <2>11 DEF messageFn, replies, goes, results
    <3> QED BY <2>2, <2>4, <2>5, <3>1, <3>2 DEF Outcomes
  <2>12. CASE buildCallback(r)
    <3>1. /\ p = "reply" /\ at' = [at EXCEPT ![r] = "ended"]
          /\ UNCHANGED <<routeVars, kind, outcome, done, crashed>>
      BY <2>12 DEF buildCallback, goes
    <3>2. /\ kind' = [kind EXCEPT ![r] = k] /\ outcome' = [outcome EXCEPT ![r] = o]
          /\ done' = [done EXCEPT ![r] = d] /\ at' = [at EXCEPT ![r] = "ended"]
          /\ UNCHANGED <<routeVars, crashed>>
      BY <2>2, <3>1
    <3>3. CASE headersSent(r)
      <4>1. UNCHANGED answer /\ a # NoAnswer
        BY <2>12, <3>3 DEF buildCallback, headersSent
      <4>2. TrueOf(k, "ended", o, d, a)
        BY <2>1, <3>1, <4>1 DEF TrueOf, Points
      <4>3. answer' = [answer EXCEPT ![r] = a]
        BY <2>2, <4>1
      <4> QED BY <3>2, <4>2, <4>3, ClientStep
    <3>4. CASE ~headersSent(r)
      <4>1. PICK s \in statuses(r) :
                answer' = [answer EXCEPT ![r] = IF s = "invalid" THEN "500" ELSE s]
        BY <2>12, <3>4 DEF buildCallback
      <4> PICK b : b = IF s = "invalid" THEN "500" ELSE s
        OBVIOUS
      <4>2. kind[r] \in Kinds \ {"stray"}
        BY <2>1, <3>1 DEF TrueOf
      <4>3. /\ b \in Codes /\ b # NoAnswer
            /\ b = "201" => d
            /\ b = "404" => o = "Not Found"
        BY <2>1, <3>1, <4>2, StatusFacts DEF TrueOf, Codes, NoAnswer
      <4>4. TrueOf(k, "ended", o, d, b)
        BY <2>1, <3>1, <4>3 DEF TrueOf, Points
      <4>5. answer' = [answer EXCEPT ![r] = b]
        BY <4>1
      <4> QED BY <3>2, <4>4, <4>5, ClientStep
    <3> QED BY <3>3, <3>4
  <2>13. CASE uncaughtException(r)
    <3> PICK b : b = IF a # NoAnswer THEN a ELSE "500"
      OBVIOUS
    <3>1. /\ answer' = [answer EXCEPT ![r] = b]
          /\ UNCHANGED <<routeVars, kind, at, outcome, done, crashed>>
      BY <2>13 DEF uncaughtException, answers, headersSent, AnswersInv
    <3>2. TrueOf(k, p, o, d, b)
      BY <2>1 DEF TrueOf, Codes, NoAnswer
    <3>3. /\ kind' = [kind EXCEPT ![r] = k] /\ at' = [at EXCEPT ![r] = p]
          /\ outcome' = [outcome EXCEPT ![r] = o] /\ done' = [done EXCEPT ![r] = d]
      BY <2>2, <3>1
    <3>4. UNCHANGED <<routeVars, crashed>> /\ answer' = [answer EXCEPT ![r] = b]
      BY <3>1
    <3> QED BY <3>2, <3>3, <3>4, ClientStep
  <2> QED BY <1>2, <2>3, <2>6, <2>7, <2>8, <2>9, <2>10, <2>11, <2>12, <2>13
<1>3. CASE UNCHANGED requestVars
  <2>1. UNCHANGED <<routeVars, kind, at, outcome, done, answer, crashed>>
    BY <1>3 DEF requestVars
  <2>2. RoutesMade'
    BY <2>1 DEF AnswersInv, RoutesMade, routeVars, find
  <2> QED BY <2>1, <2>2 DEF AnswersInv, TrueOf, registered
<1> QED BY <1>1, <1>2, <1>3 DEF RequestsNext

(* Whatever is thrown, rejected or left unfinished: no answer ends the     *)
(* process, and a status says what has happened (aegis.js, the controllers *)
(* and the use cases).                                                     *)
THEOREM AnswersAreTrue == RequestsSpec => []AnsweredTruly
<1>1. RequestsInit => AnswersInv
  <2> SUFFICES ASSUME RequestsInit PROVE AnswersInv
    OBVIOUS
  <2>1. RoutesMade
    <3>1. \A path : find(path) = {}
      BY DEF RequestsInit, find, NoMethods
    <3>2. \A path : MadeFor(path, 0) = {}
      BY DEF MadeFor
    <3>3. made = 0
      BY DEF RequestsInit
    <3>4. made \in 0 .. Len(toSet) /\ ~(made > 0)
      BY <3>3, RouteFacts
    <3>5. \A path : find(path) = MadeFor(path, made)
      BY <3>1, <3>2, <3>3
    <3> QED BY <3>4, <3>5 DEF RoutesMade
  <2>2. ASSUME NEW r \in Clients PROVE TrueOf("stray", "new", "none", FALSE, NoAnswer)
    BY DEF TrueOf, Kinds, requestOf, Points, Outcomes, Codes, NoAnswer
  <2> QED BY <2>1, <2>2 DEF RequestsInit, AnswersInv
<1>2. AnswersInv => AnsweredTruly
  BY DEF AnswersInv, TrueOf, AnsweredTruly
<1> QED BY <1>1, <1>2, AnswersStep, PTL DEF RequestsSpec

-----------------------------------------------------------------------------
(* EventBroker: a frame f over the array a, when the handlers in gone have *)
(* been removed.  The handlers it has still to run are in the array, and   *)
(* those that it passed over are no more than the cuts it noticed.         *)

FrameType ==
    [event : Events, arr : Nat, next : Nat, len : Nat, missed : SUBSET Handlers, cuts : Nat]
Passed(f, a, gone) == {x \in f.missed \ gone : \E j \in 1..Len(a) : j < f.next /\ a[j] = x}
Placed(f, a, gone) == \A x \in f.missed \ gone : \E j \in 1..Len(a) : j <= f.len /\ a[j] = x
FrameHolds(f, a, gone) ==
    /\ f.next \in 1 .. f.len + 1
    /\ Placed(f, a, gone)
    /\ IsFiniteSet(Passed(f, a, gone))
    /\ Cardinality(Passed(f, a, gone)) <= f.cuts

(* A set that is no larger than before stays within the bound.             *)
LEMMA SmallerPasses ==
    ASSUME NEW S, NEW T, IsFiniteSet(S), T \subseteq S, NEW n \in Nat, Cardinality(S) <= n
    PROVE  IsFiniteSet(T) /\ Cardinality(T) <= n
<1>1. IsFiniteSet(T) /\ Cardinality(T) <= Cardinality(S)
  BY FS_Subset
<1>2. Cardinality(S) \in Nat /\ Cardinality(T) \in Nat
  BY <1>1, FS_CardinalityType
<1> QED BY <1>1, <1>2

(* One more element costs one more.                                        *)
LEMMA OneMorePasses ==
    ASSUME NEW S, NEW T, NEW y, IsFiniteSet(S), T \subseteq S \cup {y}, NEW n \in Nat,
           Cardinality(S) <= n
    PROVE  IsFiniteSet(T) /\ Cardinality(T) <= n + 1
<1>1. /\ IsFiniteSet(S \cup {y})
      /\ Cardinality(S \cup {y}) = IF y \in S THEN Cardinality(S) ELSE Cardinality(S) + 1
  BY FS_AddElement
<1>2. Cardinality(S) \in Nat
  BY FS_CardinalityType
<1>3. Cardinality(S \cup {y}) <= n + 1
  BY <1>1, <1>2
<1> QED BY <1>1, <1>3, SmallerPasses

(* The handler a frame comes to is not missed any more.                    *)
LEMMA VisitHolds ==
    ASSUME NEW f \in FrameType, NEW a \in Seq(Handlers), NEW gone,
           FrameHolds(f, a, gone), f.next <= f.len, f.next <= Len(a)
    PROVE  LET g == [f EXCEPT !.next = @ + 1, !.missed = @ \ {a[f.next]}]
           IN  g \in FrameType /\ FrameHolds(g, a, gone)
<1> DEFINE g == [f EXCEPT !.next = @ + 1, !.missed = @ \ {a[f.next]}]
<1>1. /\ g \in FrameType /\ g.next = f.next + 1 /\ g.len = f.len /\ g.cuts = f.cuts
      /\ g.missed = f.missed \ {a[f.next]}
  <2> DEFINE m == f.missed \ {a[f.next]}
             k == f.next + 1
  <2>1. m \in SUBSET Handlers /\ k \in Nat
    BY DEF FrameType
  <2>2. g = [f EXCEPT !.next = k, !.missed = m]
    OBVIOUS
  <2> HIDE DEF g, m, k
  <2>3. /\ g \in FrameType /\ g.next = k /\ g.len = f.len /\ g.cuts = f.cuts
        /\ g.missed = m
    BY <2>1, <2>2 DEF FrameType
  <2> QED BY <2>3 DEF m, k
<1> HIDE DEF g
<1>2. f.next \in Nat /\ f.len \in Nat /\ f.cuts \in Nat /\ Len(a) \in Nat
  BY LenProperties DEF FrameType
<1>3. g.next \in 1 .. g.len + 1
  BY <1>1, <1>2 DEF FrameHolds
<1>4. Placed(g, a, gone)
  BY <1>1 DEF FrameHolds, Placed
<1>5. Passed(g, a, gone) \subseteq Passed(f, a, gone)
  <2> SUFFICES ASSUME NEW x \in f.missed \ gone, x # a[f.next], NEW j \in 1..Len(a),
                      j < f.next + 1, a[j] = x
               PROVE  j < f.next
    BY <1>1 DEF Passed
  <2> QED BY <1>2
<1>6. IsFiniteSet(Passed(g, a, gone)) /\ Cardinality(Passed(g, a, gone)) <= g.cuts
  BY <1>1, <1>2, <1>5, SmallerPasses DEF FrameHolds
<1> QED BY <1>1, <1>3, <1>4, <1>6 DEF FrameHolds, g

(* A handler that is added at the end was not there to be missed.          *)
LEMMA AddedHolds ==
    ASSUME NEW f \in FrameType, NEW a \in Seq(Handlers), NEW gone, NEW h \in Handlers,
           h \notin f.missed, FrameHolds(f, a, gone)
    PROVE  FrameHolds(f, Append(a, h), gone)
<1>1. /\ Len(a) \in Nat /\ Len(Append(a, h)) = Len(a) + 1 /\ Append(a, h)[Len(a) + 1] = h
      /\ \A j \in 1..Len(a) : Append(a, h)[j] = a[j]
  BY LenProperties, AppendProperties
<1>2. \A j \in 1..Len(a) : j \in 1..Len(a) + 1
  BY <1>1
<1>3. \A j \in 1..Len(a) + 1 : Append(a, h)[j] # h => j \in 1..Len(a)
  BY <1>1
<1>4. Placed(f, Append(a, h), gone)
  BY <1>1, <1>2 DEF FrameHolds, Placed
<1>5. Passed(f, Append(a, h), gone) \subseteq Passed(f, a, gone)
  BY <1>1, <1>3 DEF Passed
<1>6. f.cuts \in Nat
  BY DEF FrameType
<1> QED BY <1>4, <1>5, <1>6, SmallerPasses DEF FrameHolds

(* A handler that is removed is not missed any more.                       *)
LEMMA GoneHolds ==
    ASSUME NEW f \in FrameType, NEW a, NEW gone, NEW h, FrameHolds(f, a, gone)
    PROVE  FrameHolds(f, a, gone \cup {h})
<1>1. Passed(f, a, gone \cup {h}) \subseteq Passed(f, a, gone)
  BY DEF Passed
<1>2. Placed(f, a, gone \cup {h})
  BY DEF FrameHolds, Placed
<1>3. f.cuts \in Nat
  BY DEF FrameType
<1> QED BY <1>1, <1>2, <1>3, SmallerPasses DEF FrameHolds

(* A handler that is cut out moves at most one other, the one the frame    *)
(* would have come to, to a place that the frame has passed.               *)
LEMMA CutHolds ==
    ASSUME NEW f \in FrameType, NEW a \in Seq(Handlers), NEW gone, NEW h,
           FrameHolds(f, a, gone), Contains(a, h)
    PROVE  LET g == [f EXCEPT !.cuts = @ + 1]
           IN  g \in FrameType /\ FrameHolds(g, SpliceOut(a, h), gone \cup {h})
<1> DEFINE g == [f EXCEPT !.cuts = @ + 1]
           b == SpliceOut(a, h)
           m == f.missed \ (gone \cup {h})
<1>1. /\ f.next \in Nat /\ f.len \in Nat /\ f.cuts \in Nat /\ f.cuts + 1 \in Nat
      /\ Len(a) \in Nat
  BY LenProperties DEF FrameType
<1>2. /\ g \in FrameType /\ g.next = f.next /\ g.len = f.len /\ g.cuts = f.cuts + 1
      /\ g.missed = f.missed
  BY <1>1 DEF FrameType
<1> HIDE DEF g
<1>3. PICK i \in 1..Len(a) :
        a[i] = h /\ \A k \in 1..(Len(a) - 1) : b[k] = IF k < i THEN a[k] ELSE a[k + 1]
  BY SpliceOutPlaces
<1>4. Len(b) = Len(a) - 1
  BY SpliceOutPlaces
<1> HIDE DEF b
<1>5. Placed(g, b, gone \cup {h})
  <2> SUFFICES ASSUME NEW x \in m PROVE \E j \in 1..Len(b) : j <= f.len /\ b[j] = x
    BY <1>2 DEF Placed
  <2>1. PICK j \in 1..Len(a) : j <= f.len /\ a[j] = x
    BY DEF FrameHolds, Placed
  <2>2. j # i
    BY <1>3, <2>1
  <2>3. CASE j < i
    <3>1. j \in 1..(Len(a) - 1)
      BY <1>1, <2>3
    <3> QED BY <1>3, <1>4, <2>1, <2>3, <3>1
  <2>4. CASE j > i
    <3>1. j - 1 \in 1..(Len(a) - 1) /\ ~(j - 1 < i) /\ (j - 1) + 1 = j /\ j - 1 <= f.len
      BY <1>1, <2>1, <2>4
    <3>2. b[j - 1] = a[j]
      BY <1>3, <3>1
    <3> QED BY <1>4, <2>1, <3>1, <3>2
  <2> QED BY <1>1, <2>2, <2>3, <2>4
<1>6. Passed(g, b, gone \cup {h}) \subseteq Passed(f, a, gone) \cup {a[f.next]}
  <2> SUFFICES ASSUME NEW x \in m, NEW j \in 1..Len(b), j < f.next, b[j] = x,
                      x # a[f.next]
               PROVE  \E k \in 1..Len(a) : k < f.next /\ a[k] = x
    BY <1>2 DEF Passed
  <2>1. j \in 1..(Len(a) - 1) /\ j \in 1..Len(a) /\ j + 1 \in 1..Len(a)
    BY <1>1, <1>4
  <2>2. CASE j < i
    BY <1>3, <2>1, <2>2
  <2>3. CASE ~(j < i)
    <3>1. a[j + 1] = x
      BY <1>3, <2>1, <2>3
    <3>2. j + 1 # f.next
      BY <3>1
    <3>3. j + 1 < f.next
      BY <1>1, <3>2
    <3> QED BY <2>1, <3>1, <3>3
  <2> QED BY <2>2, <2>3
<1>7. /\ IsFiniteSet(Passed(g, b, gone \cup {h}))
      /\ Cardinality(Passed(g, b, gone \cup {h})) <= f.cuts + 1
  <2> DEFINE S == Passed(f, a, gone)
             T == Passed(g, b, gone \cup {h})
             y == a[f.next]
  <2>1. IsFiniteSet(S) /\ Cardinality(S) <= f.cuts /\ T \subseteq S \cup {y}
    BY <1>6 DEF FrameHolds
  <2> HIDE DEF S, T, y
  <2>2. IsFiniteSet(T) /\ Cardinality(T) <= f.cuts + 1
    BY <1>1, <2>1, OneMorePasses
  <2> QED BY <2>2 DEF T
<1>8. g.next \in 1 .. g.len + 1
  BY <1>2 DEF FrameHolds
<1> QED BY <1>2, <1>5, <1>7, <1>8 DEF FrameHolds, g, b

(* A frame begins before the first handler of its array.                   *)
LEMMA BeginHolds ==
    ASSUME NEW e \in Events, NEW k \in Nat, NEW a \in Seq(Handlers), NEW gone
    PROVE  LET f == [event |-> e, arr |-> k, next |-> 1, len |-> Len(a),
                     missed |-> ToSet(a), cuts |-> 0]
           IN  f \in FrameType /\ FrameHolds(f, a, gone)
<1> DEFINE f == [event |-> e, arr |-> k, next |-> 1, len |-> Len(a),
                 missed |-> ToSet(a), cuts |-> 0]
<1>1. Len(a) \in Nat /\ DOMAIN a = 1..Len(a) /\ \A i \in 1..Len(a) : a[i] \in Handlers
  BY LenProperties, ElementOfSeq
<1>2. ToSet(a) \subseteq Handlers /\ \A x \in ToSet(a) : \E j \in 1..Len(a) : a[j] = x
  BY <1>1 DEF ToSet
<1>3. f \in FrameType
  BY <1>1, <1>2 DEF FrameType
<1>4. Placed(f, a, gone)
  BY <1>1, <1>2 DEF Placed
<1>5. Passed(f, a, gone) = {}
  BY <1>1 DEF Passed
<1>6. IsFiniteSet({}) /\ Cardinality({}) = 0
  BY FS_EmptySet
<1>7. f.next \in 1 .. f.len + 1 /\ f.cuts = 0
  BY <1>1
<1> HIDE DEF f
<1>8. FrameHolds(f, a, gone)
  BY <1>4, <1>5, <1>6, <1>7 DEF FrameHolds
<1> QED BY <1>3, <1>8 DEF f

(* The arrays hs hold distinct handlers of their event that were asked     *)
(* for.                                                                    *)
ArraysIn(hs, as) ==
    /\ hs \in [Events -> Seq(Seq(Handlers))]
    /\ \A e \in Events : \A n \in 1..Len(hs[e]) :
          IsInjective(hs[e][n]) /\ ToSet(hs[e][n]) \subseteq {h \in as : eventOf[h] = e}
FrameIn(f, hs, as, gone) ==
    /\ f \in FrameType
    /\ f.arr \in 1..Len(hs[f.event])
    /\ f.missed \subseteq {h \in as : eventOf[h] = f.event}
    /\ FrameHolds(f, hs[f.event][f.arr], gone)
FramesIn(fs, hs, as, gone) ==
    /\ fs \in Seq(FrameType)
    /\ \A i \in 1..Len(fs) : FrameIn(fs[i], hs, as, gone)

(* While no array was dropped an event has one at most, without the        *)
(* removed handlers.                                                       *)
Undropped ==
    \A e \in Events :
        /\ Len(handlers[e]) = current[e] /\ current[e] <= 1
        /\ \A n \in 1..Len(handlers[e]) : ToSet(handlers[e][n]) \cap removed = {}

BrokerInv ==
    /\ asked \subseteq Handlers /\ removed \subseteq asked /\ late \subseteq removed
    /\ drops \in Nat
    /\ current \in [Events -> Nat]
    /\ \A e \in Events : current[e] <= Len(handlers[e])
    /\ ArraysIn(handlers, asked)
    /\ FramesIn(stack, handlers, asked, removed)
    /\ drops = 0 => late = {} /\ Undropped

(* The array k of the event e becomes b; the others stay.                  *)
LEMMA OneArrayChanges ==
    ASSUME NEW hs \in [Events -> Seq(Seq(Handlers))], NEW e \in Events,
           NEW k \in 1..Len(hs[e]), NEW b \in Seq(Handlers)
    PROVE  LET ns == [hs EXCEPT ![e][k] = b]
           IN  /\ ns \in [Events -> Seq(Seq(Handlers))]
               /\ \A d \in Events : Len(ns[d]) = Len(hs[d])
               /\ \A d \in Events : \A n \in 1..Len(hs[d]) :
                     ns[d][n] = IF d = e /\ n = k THEN b ELSE hs[d][n]
<1> DEFINE ns == [hs EXCEPT ![e][k] = b]
           s == [hs[e] EXCEPT ![k] = b]
<1>1. ns = [hs EXCEPT ![e] = s]
  OBVIOUS
<1>2. hs[e] \in Seq(Seq(Handlers))
  OBVIOUS
<1>3. /\ s \in Seq(Seq(Handlers)) /\ Len(s) = Len(hs[e])
      /\ \A n \in 1..Len(hs[e]) : s[n] = IF n = k THEN b ELSE hs[e][n]
  BY <1>2, ExceptSeq
<1> HIDE DEF ns, s
<1> QED BY <1>1, <1>3 DEF ns

(* What a frame knows depends on its own array alone.                      *)
LEMMA SameArrayHolds ==
    ASSUME NEW f, NEW hs, NEW ns, NEW as, NEW bs, NEW gone, FrameIn(f, hs, as, gone),
           as \subseteq bs, Len(hs[f.event]) <= Len(ns[f.event]),
           Len(hs[f.event]) \in Nat, Len(ns[f.event]) \in Nat,
           ns[f.event][f.arr] = hs[f.event][f.arr]
    PROVE  FrameIn(f, ns, bs, gone)
<1>1. f.arr \in 1..Len(ns[f.event])
  BY DEF FrameIn
<1>2. f.missed \subseteq {h \in bs : eventOf[h] = f.event}
  BY DEF FrameIn
<1> QED BY <1>1, <1>2 DEF FrameIn

(* off takes the handler out of the array in the map, if it is there, and  *)
(* the frames over this array notice.                                      *)
LEMMA OffHolds ==
    ASSUME EventBrokerAssumption, asked \subseteq Handlers, NEW h \in asked,
           current \in [Events -> Nat], \A e \in Events : current[e] <= Len(handlers[e]),
           ArraysIn(handlers, asked),
           NEW fs, FramesIn(fs, handlers, asked, removed), off(h, fs)
    PROVE  /\ ArraysIn(handlers', asked) /\ current' = current
           /\ FramesIn(stack', handlers', asked, removed')
           /\ \A e \in Events : Len(handlers'[e]) = Len(handlers[e])
           /\ Undropped => Undropped'
<1> DEFINE e == eventOf[h]
           k == current[e]
           a == handlers[e][k]
           b == IF Contains(a, h) THEN SpliceOut(a, h) ELSE a
<1>1. e \in Events /\ k \in Nat /\ k <= Len(handlers[e]) /\ h \in Handlers
  BY DEF EventBrokerAssumption
<1>2. /\ removed' = removed \cup {h} /\ stack' = Shortened(fs, h)
      /\ current' = current
      /\ k = 0 => handlers' = handlers
      /\ k # 0 => handlers' = [handlers EXCEPT ![e][k] = b]
  BY DEF off, Spliced
<1>3. /\ handlers \in [Events -> Seq(Seq(Handlers))] /\ handlers[e] \in Seq(Seq(Handlers))
      /\ Len(handlers[e]) \in Nat
  BY <1>1, LenProperties DEF ArraysIn
<1>4. ASSUME k # 0
      PROVE  /\ k \in 1..Len(handlers[e]) /\ a \in Seq(Handlers) /\ IsInjective(a)
             /\ ToSet(a) \subseteq {x \in asked : eventOf[x] = e}
  <2>1. k \in 1..Len(handlers[e])
    BY <1>1, <1>3, <1>4
  <2> QED BY <1>1, <1>3, <2>1, ElementOfSeq DEF ArraysIn
<1>5. ASSUME k # 0
      PROVE  /\ b \in Seq(Handlers) /\ IsInjective(b) /\ ToSet(b) \subseteq ToSet(a)
             /\ h \notin ToSet(b)
  <2> HIDE DEF a
  <2>1. CASE Contains(a, h)
    BY <1>4, <1>5, <2>1, SpliceOutFacts
  <2>2. CASE ~Contains(a, h)
    BY <1>4, <1>5, <2>2 DEF Contains, ToSet
  <2> QED BY <2>1, <2>2
<1> HIDE DEF b
<1>6. /\ handlers' \in [Events -> Seq(Seq(Handlers))]
      /\ \A d \in Events : Len(handlers'[d]) = Len(handlers[d])
      /\ \A d \in Events : \A n \in 1..Len(handlers[d]) :
            handlers'[d][n] = IF d = e /\ n = k THEN b ELSE handlers[d][n]
  <2>1. CASE k = 0
    BY <1>2, <1>3, <2>1
  <2>2. CASE k # 0
    <3>1. /\ e \in Events /\ k \in 1..Len(handlers[e]) /\ b \in Seq(Handlers)
          /\ handlers' = [handlers EXCEPT ![e][k] = b]
          /\ handlers \in [Events -> Seq(Seq(Handlers))]
      BY <1>1, <1>2, <1>3, <1>4, <1>5, <2>2
    <3> HIDE DEF a, k, e
    <3> QED BY <3>1, OneArrayChanges
  <2> QED BY <2>1, <2>2
<1>7. ArraysIn(handlers', asked)
  <2> SUFFICES ASSUME NEW d \in Events, NEW n \in 1..Len(handlers[d])
               PROVE  /\ IsInjective(handlers'[d][n])
                      /\ ToSet(handlers'[d][n]) \subseteq {x \in asked : eventOf[x] = d}
    BY <1>6 DEF ArraysIn
  <2>1. CASE d = e /\ n = k
    <3>1. k # 0 /\ handlers'[d][n] = b
      BY <1>6, <2>1
    <3> QED BY <1>4, <1>5, <2>1, <3>1
  <2>2. CASE ~(d = e /\ n = k)
    <3>1. handlers'[d][n] = handlers[d][n]
      BY <1>6, <2>2
    <3> QED BY <3>1 DEF ArraysIn
  <2> QED BY <2>1, <2>2
<1>8. Undropped => Undropped'
  <2> SUFFICES ASSUME Undropped, NEW d \in Events
               PROVE  /\ Len(handlers'[d]) = current[d] /\ current[d] <= 1
                      /\ \A n \in 1..Len(handlers[d]) :
                            ToSet(handlers'[d][n]) \cap (removed \cup {h}) = {}
    BY <1>2, <1>6 DEF Undropped
  <2>1. Len(handlers[d]) = current[d] /\ current[d] <= 1
    BY DEF Undropped
  <2>2. ASSUME NEW n \in 1..Len(handlers[d])
        PROVE  ToSet(handlers'[d][n]) \cap (removed \cup {h}) = {}
    <3>1. n = current[d] /\ current[d] # 0 /\ ToSet(handlers[d][n]) \cap removed = {}
      BY <2>1 DEF Undropped
    <3>2. CASE d = e
      BY <1>5, <1>6, <3>1, <3>2
    <3>3. CASE d # e
      BY <1>6, <3>1, <3>3 DEF ArraysIn
    <3> QED BY <3>2, <3>3
  <2> QED BY <1>6, <2>1, <2>2
<1>9. FramesIn(stack', handlers', asked, removed')
  <2> DEFINE hit(f) == f.event = e /\ f.arr = k /\ Contains(array(f), h)
             cut(f) == IF hit(f) THEN [f EXCEPT !.cuts = @ + 1] ELSE f
  <2>1. fs \in Seq(FrameType) /\ DOMAIN fs = 1..Len(fs) /\ Len(fs) \in Nat
    BY LenProperties DEF FramesIn
  <2>2. stack' = [i \in 1..Len(fs) |-> cut(fs[i])]
    BY <1>2, <2>1 DEF Shortened
  <2> HIDE DEF cut
  <2>3. ASSUME NEW i \in 1..Len(fs)
        PROVE  cut(fs[i]) \in FrameType /\ FrameIn(cut(fs[i]), handlers', asked, removed')
    <3> DEFINE f == fs[i]
    <3>1. FrameIn(f, handlers, asked, removed) /\ f \in FrameType
      BY <2>1, ElementOfSeq DEF FramesIn
    <3> HIDE DEF f
    <3>2. /\ f.event \in Events /\ f.arr \in 1..Len(handlers[f.event]) /\ array(f) \in Seq(Handlers)
          /\ FrameHolds(f, array(f), removed)
          /\ f.missed \subseteq {x \in asked : eventOf[x] = f.event}
      <4>1. f.event \in Events /\ f.arr \in 1..Len(handlers[f.event])
        BY <3>1 DEF FrameIn, FrameType
      <4>2. array(f) \in Seq(Handlers)
        BY <1>3, <4>1, ElementOfSeq DEF array
      <4> QED BY <3>1, <4>1, <4>2 DEF FrameIn, array
    <3>3. CASE hit(f)
      <4> DEFINE g == [f EXCEPT !.cuts = @ + 1]
      <4>1. cut(f) = g
        BY <3>3 DEF cut
      <4>2. k # 0 /\ array(f) = a
        BY <3>2, <3>3 DEF array
      <4>3. b = SpliceOut(array(f), h)
        BY <3>3, <4>2 DEF b
      <4>4. g \in FrameType /\ FrameHolds(g, b, removed \cup {h})
        BY <3>1, <3>2, <3>3, <4>3, CutHolds
      <4>5. g.event = f.event /\ g.arr = f.arr /\ g.missed = f.missed
        BY <3>1 DEF FrameType
      <4> HIDE DEF g
      <4>6. handlers'[g.event][g.arr] = b
        BY <1>6, <3>2, <3>3, <4>5
      <4>7. g.arr \in 1..Len(handlers'[g.event])
        BY <1>6, <3>2, <4>5
      <4> QED BY <1>2, <3>2, <4>1, <4>4, <4>5, <4>6, <4>7 DEF FrameIn, f
    <3>4. CASE ~hit(f)
      <4>1. cut(f) = f
        BY <3>4 DEF cut
      <4>2. FrameIn(f, handlers, asked, removed')
        BY <1>2, <3>1, <3>2, GoneHolds DEF FrameIn, array
      <4>3. handlers'[f.event][f.arr] = handlers[f.event][f.arr]
        <5>1. CASE f.event = e /\ f.arr = k
          <6>1. ~Contains(a, h)
            BY <3>4, <5>1 DEF array
          <6>2. b = a
            BY <6>1 DEF b
          <6> QED BY <1>6, <3>2, <5>1, <6>2
        <5>2. CASE ~(f.event = e /\ f.arr = k)
          BY <1>6, <3>2, <5>2
        <5> QED BY <5>1, <5>2
      <4>4. Len(handlers'[f.event]) = Len(handlers[f.event])
        BY <1>6, <3>2
      <4> QED BY <3>1, <4>1, <4>2, <4>3, <4>4 DEF FrameIn, f
    <3> QED BY <3>3, <3>4 DEF f
  <2>4. stack' \in Seq(FrameType) /\ Len(stack') = Len(fs)
        /\ \A i \in 1..Len(fs) : stack'[i] = cut(fs[i])
    <3>1. stack' \in [1..Len(fs) -> FrameType]
      BY <2>2, <2>3
    <3>2. stack' \in Seq(FrameType) /\ DOMAIN stack' = 1..Len(fs)
      BY <2>1, <3>1, SeqDef
    <3> QED BY <2>1, <2>2, <3>2, LenProperties
  <2> QED BY <2>3, <2>4 DEF FramesIn
<1> QED BY <1>2, <1>6, <1>7, <1>8, <1>9

(* One more frame in front of the others.                                  *)
LEMMA FrontFrame ==
    ASSUME NEW f, NEW fs, NEW hs, NEW as, NEW gone,
           FrameIn(f, hs, as, gone), FramesIn(fs, hs, as, gone)
    PROVE  FramesIn(<<f>> \o fs, hs, as, gone)
<1>1. f \in FrameType /\ fs \in Seq(FrameType) /\ Len(fs) \in Nat
  BY LenProperties DEF FrameIn, FramesIn
<1>2. <<f>> \in Seq(FrameType) /\ Len(<<f>>) = 1 /\ <<f>>[1] = f
  BY <1>1
<1>3. /\ <<f>> \o fs \in Seq(FrameType) /\ Len(<<f>> \o fs) = Len(fs) + 1
      /\ \A i \in 1..(Len(fs) + 1) : (<<f>> \o fs)[i] = IF i <= 1 THEN f ELSE fs[i - 1]
  BY <1>1, <1>2, ConcatProperties
<1>4. ASSUME NEW i \in 1..(Len(fs) + 1)
      PROVE  FrameIn((<<f>> \o fs)[i], hs, as, gone)
  <2>1. CASE i = 1
    BY <1>3, <2>1
  <2>2. CASE i # 1
    <3>1. i - 1 \in 1..Len(fs) /\ (<<f>> \o fs)[i] = fs[i - 1]
      BY <1>1, <1>3, <2>2
    <3> QED BY <3>1 DEF FramesIn
  <2> QED BY <2>1, <2>2
<1> QED BY <1>3, <1>4 DEF FramesIn

(* The frames below the innermost one.                                     *)
LEMMA TailFrames ==
    ASSUME NEW fs, NEW hs, NEW as, NEW gone, FramesIn(fs, hs, as, gone), fs # <<>>
    PROVE  FrameIn(Head(fs), hs, as, gone) /\ FramesIn(Tail(fs), hs, as, gone)
<1>1. /\ fs \in Seq(FrameType) /\ Len(fs) \in Nat \ {0} /\ Head(fs) = fs[1]
      /\ Tail(fs) \in Seq(FrameType) /\ Len(Tail(fs)) = Len(fs) - 1
      /\ \A i \in 1..(Len(fs) - 1) : Tail(fs)[i] = fs[i + 1]
  BY LenProperties, EmptySeq, HeadTailProperties DEF FramesIn
<1>2. 1 \in 1..Len(fs) /\ \A i \in 1..(Len(fs) - 1) : i + 1 \in 1..Len(fs)
  BY <1>1
<1> QED BY <1>1, <1>2 DEF FramesIn

(* Frames whose arrays stay as they are, while others may be added.        *)
LEMMA FramesKept ==
    ASSUME NEW fs, NEW hs, NEW ns, NEW as, NEW bs, NEW gone, FramesIn(fs, hs, as, gone),
           as \subseteq bs,
           \A e \in Events : /\ Len(hs[e]) \in Nat /\ Len(ns[e]) \in Nat
                             /\ Len(hs[e]) <= Len(ns[e])
                             /\ \A n \in 1..Len(hs[e]) : ns[e][n] = hs[e][n]
    PROVE  FramesIn(fs, ns, bs, gone)
<1> SUFFICES ASSUME NEW i \in 1..Len(fs) PROVE FrameIn(fs[i], ns, bs, gone)
  BY DEF FramesIn
<1>1. FrameIn(fs[i], hs, as, gone)
  BY DEF FramesIn
<1>2. fs[i].event \in Events /\ fs[i].arr \in 1..Len(hs[fs[i].event])
  BY <1>1 DEF FrameIn, FrameType
<1> QED BY <1>1, <1>2, SameArrayHolds

(* on appends to the array of the event, or makes one, or is refused.      *)
LEMMA OnHolds ==
    ASSUME EventBrokerAssumption, BrokerInv, NEW h \in Handlers, on(h) PROVE BrokerInv'
<1> DEFINE e == eventOf[h]
           k == current[e]
<1>1. /\ e \in Events /\ h \notin asked /\ asked' = asked \cup {h} /\ k \in Nat
      /\ k <= Len(handlers[e])
      /\ UNCHANGED <<stack, drops, removed, late>>
  BY DEF EventBrokerAssumption, on, BrokerInv
<1>2. /\ asked' \subseteq Handlers /\ removed' \subseteq asked' /\ late' \subseteq removed'
      /\ drops' \in Nat
  BY <1>1 DEF BrokerInv
<1>3. /\ handlers \in [Events -> Seq(Seq(Handlers))]
      /\ \A d \in Events : handlers[d] \in Seq(Seq(Handlers)) /\ Len(handlers[d]) \in Nat
  BY LenProperties DEF BrokerInv, ArraysIn
<1>4. FramesIn(stack, handlers, asked, removed) /\ current \in [Events -> Nat]
  BY DEF BrokerInv
<1>5. CASE k = 0
  <2> DEFINE s == Append(handlers[e], <<h>>)
             l == Len(handlers[e])
  <2>1. handlers' = [handlers EXCEPT ![e] = s] /\ current' = [current EXCEPT ![e] = l + 1]
    BY <1>5 DEF on
  <2>2. /\ <<h>> \in Seq(Handlers) /\ l \in Nat
        /\ IsInjective(<<h>>) /\ ToSet(<<h>>) = {h}
    BY <1>3, <1>1 DEF IsInjective, ToSet
  <2>3. /\ s \in Seq(Seq(Handlers)) /\ Len(s) = l + 1 /\ s[l + 1] = <<h>>
        /\ \A n \in 1..l : s[n] = handlers[e][n]
    BY <1>1, <1>3, <2>2, AppendProperties
  <2> HIDE DEF s
  <2>4. /\ handlers' \in [Events -> Seq(Seq(Handlers))] /\ handlers'[e] = s
        /\ \A d \in Events \ {e} : handlers'[d] = handlers[d]
    BY <1>1, <1>3, <2>1, <2>3
  <2>5. ArraysIn(handlers', asked')
    <3> SUFFICES ASSUME NEW d \in Events, NEW n \in 1..Len(handlers'[d])
                 PROVE  /\ IsInjective(handlers'[d][n])
                        /\ ToSet(handlers'[d][n]) \subseteq {x \in asked' : eventOf[x] = d}
      BY <2>4 DEF ArraysIn
    <3>1. CASE d = e /\ n = l + 1
      BY <1>1, <2>2, <2>3, <2>4, <3>1
    <3>2. CASE ~(d = e /\ n = l + 1)
      <4>1. n \in 1..Len(handlers[d]) /\ handlers'[d][n] = handlers[d][n]
        <5>1. CASE d = e
          <6>1. n \in 1..(l + 1) /\ n # l + 1
            BY <2>3, <2>4, <3>2, <5>1
          <6>2. n \in 1..l
            BY <2>2, <6>1
          <6> QED BY <2>3, <2>4, <5>1, <6>2
        <5>2. CASE d # e
          BY <2>4, <5>2
        <5> QED BY <5>1, <5>2
      <4> QED BY <1>1, <4>1 DEF BrokerInv, ArraysIn
    <3> QED BY <3>1, <3>2
  <2>6. FramesIn(stack', handlers', asked', removed')
    <3>1. \A d \in Events :
            /\ Len(handlers[d]) \in Nat /\ Len(handlers'[d]) \in Nat
            /\ Len(handlers[d]) <= Len(handlers'[d])
            /\ \A n \in 1..Len(handlers[d]) : handlers'[d][n] = handlers[d][n]
      <4> TAKE d \in Events
      <4>1. CASE d = e
        BY <1>3, <2>2, <2>3, <2>4, <4>1
      <4>2. CASE d # e
        BY <1>3, <2>4, <4>2
      <4> QED BY <4>1, <4>2
    <3> HIDE DEF l
    <3>2. asked \subseteq asked' /\ stack' = stack /\ removed' = removed
      BY <1>1
    <3>3. FramesIn(stack, handlers', asked', removed)
      BY <1>4, <3>1, <3>2, FramesKept
    <3> QED BY <3>2, <3>3
  <2>7. /\ current' \in [Events -> Nat]
        /\ \A d \in Events : current'[d] <= Len(handlers'[d])
    BY <1>1, <1>4, <2>1, <2>2, <2>3, <2>4 DEF BrokerInv
  <2>8. ASSUME drops = 0 PROVE late = {} /\ Undropped'
    <3>1. late = {} /\ Undropped
      BY <2>8 DEF BrokerInv
    <3>2. l = 0 /\ Len(handlers'[e]) = 1 /\ current'[e] = 1 /\ handlers'[e][1] = <<h>>
      BY <1>1, <1>4, <1>5, <2>1, <2>3, <2>4, <3>1 DEF Undropped
    <3>3. ToSet(handlers'[e][1]) \cap removed = {}
      BY <1>1, <2>2, <3>2 DEF BrokerInv
    <3>4. ASSUME NEW d \in Events \ {e}
          PROVE  handlers'[d] = handlers[d] /\ current'[d] = current[d]
      BY <1>4, <2>1, <2>4
    <3>5. \A n \in 1..Len(handlers'[e]) : n = 1
      BY <3>2
    <3>6. ASSUME NEW d \in Events
          PROVE  /\ Len(handlers'[d]) = current'[d] /\ current'[d] <= 1
                 /\ \A n \in 1..Len(handlers'[d]) : ToSet(handlers'[d][n]) \cap removed = {}
      <4>1. CASE d = e
        <5>1. \A n \in 1..Len(handlers'[e]) : ToSet(handlers'[e][n]) \cap removed = {}
          BY <3>3, <3>5
        <5>2. Len(handlers'[e]) = current'[e] /\ current'[e] <= 1
          BY <3>2
        <5> HIDE DEF e
        <5> QED BY <4>1, <5>1, <5>2, Zenon
      <4>2. CASE d # e
        BY <3>1, <3>4, <4>2 DEF Undropped
      <4> QED BY <4>1, <4>2
    <3> QED BY <1>1, <3>1, <3>6 DEF Undropped
  <2> QED BY <1>1, <1>2, <2>5, <2>6, <2>7, <2>8 DEF BrokerInv
<1>6. CASE k # 0 /\ h \notin Singletons
  <2> DEFINE a == handlers[e][k]
             b == Append(a, h)
  <2>1. k \in 1..Len(handlers[e])
    BY <1>1, <1>3, <1>6
  <2>2. /\ a \in Seq(Handlers) /\ IsInjective(a)
        /\ ToSet(a) \subseteq {x \in asked : eventOf[x] = e}
    BY <1>1, <1>3, <2>1, ElementOfSeq DEF BrokerInv, ArraysIn
  <2>3. handlers' = [handlers EXCEPT ![e][k] = b] /\ current' = current
    BY <1>6 DEF on
  <2> HIDE DEF a
  <2>4. b \in Seq(Handlers) /\ ToSet(b) = ToSet(a) \cup {h} /\ IsInjective(b)
    BY <1>1, <2>2, PushFacts
  <2> HIDE DEF b
  <2>5. /\ handlers' \in [Events -> Seq(Seq(Handlers))]
        /\ \A d \in Events : Len(handlers'[d]) = Len(handlers[d])
        /\ \A d \in Events : \A n \in 1..Len(handlers[d]) :
              handlers'[d][n] = IF d = e /\ n = k THEN b ELSE handlers[d][n]
    <3> HIDE DEF e, k
    <3> QED BY <1>1, <1>3, <2>1, <2>3, <2>4, OneArrayChanges
  <2>6. ArraysIn(handlers', asked')
    <3> SUFFICES ASSUME NEW d \in Events, NEW n \in 1..Len(handlers[d])
                 PROVE  /\ IsInjective(handlers'[d][n])
                        /\ ToSet(handlers'[d][n]) \subseteq {x \in asked' : eventOf[x] = d}
      BY <2>5 DEF ArraysIn
    <3>1. CASE d = e /\ n = k
      BY <1>1, <2>2, <2>4, <2>5, <3>1
    <3>2. CASE ~(d = e /\ n = k)
      <4>1. handlers'[d][n] = handlers[d][n]
        BY <2>5, <3>2
      <4> QED BY <1>1, <4>1 DEF BrokerInv, ArraysIn
    <3> QED BY <3>1, <3>2
  <2>7. FramesIn(stack', handlers', asked', removed')
    <3> SUFFICES ASSUME NEW i \in 1..Len(stack)
                 PROVE  FrameIn(stack[i], handlers', asked', removed)
      BY <1>1, <1>4 DEF FramesIn
    <3> DEFINE f == stack[i]
    <3>1. FrameIn(f, handlers, asked, removed)
      BY <1>4 DEF FramesIn
    <3>2. /\ f \in FrameType /\ f.event \in Events /\ f.arr \in 1..Len(handlers[f.event])
          /\ f.missed \subseteq {x \in asked : eventOf[x] = f.event}
          /\ FrameHolds(f, handlers[f.event][f.arr], removed)
      BY <3>1 DEF FrameIn, FrameType
    <3> HIDE DEF f
    <3>3. CASE f.event = e /\ f.arr = k
      <4>1. h \notin f.missed /\ FrameHolds(f, a, removed)
        BY <1>1, <3>2, <3>3 DEF a
      <4>2. FrameHolds(f, b, removed)
        BY <2>2, <3>2, <4>1, AddedHolds DEF b
      <4>3. handlers'[f.event][f.arr] = b /\ Len(handlers'[f.event]) = Len(handlers[f.event])
        BY <2>5, <3>2, <3>3
      <4> QED BY <1>1, <3>2, <4>2, <4>3 DEF FrameIn, f
    <3>4. CASE ~(f.event = e /\ f.arr = k)
      <4>1. /\ handlers'[f.event][f.arr] = handlers[f.event][f.arr]
            /\ Len(handlers'[f.event]) = Len(handlers[f.event])
        BY <2>5, <3>2, <3>4
      <4> QED BY <1>1, <3>2, <4>1 DEF FrameIn, f
    <3> QED BY <3>3, <3>4
  <2>8. /\ current' \in [Events -> Nat]
        /\ \A d \in Events : current'[d] <= Len(handlers'[d])
    BY <1>4, <2>3, <2>5 DEF BrokerInv
  <2>9. ASSUME drops = 0 PROVE late = {} /\ Undropped'
    <3>1. late = {} /\ Undropped
      BY <2>9 DEF BrokerInv
    <3>2. ASSUME NEW d \in Events
          PROVE  Len(handlers'[d]) = current'[d] /\ current'[d] <= 1
      BY <2>3, <2>5, <3>1 DEF Undropped
    <3>3. ASSUME NEW d \in Events, NEW n \in 1..Len(handlers'[d])
          PROVE  ToSet(handlers'[d][n]) \cap removed = {}
      <4>1. n \in 1..Len(handlers[d]) /\ ToSet(handlers[d][n]) \cap removed = {}
        BY <2>5, <3>1 DEF Undropped
      <4>2. h \notin removed
        BY <1>1 DEF BrokerInv
      <4>3. CASE d = e /\ n = k
        BY <2>4, <2>5, <4>1, <4>2, <4>3 DEF a
      <4>4. CASE ~(d = e /\ n = k)
        BY <2>5, <4>1, <4>4
      <4> QED BY <4>3, <4>4
    <3> QED BY <1>1, <3>1, <3>2, <3>3 DEF Undropped
  <2> QED BY <1>1, <1>2, <2>6, <2>7, <2>8, <2>9 DEF BrokerInv
<1>7. CASE k # 0 /\ h \in Singletons
  <2>1. handlers' = handlers /\ current' = current
    BY <1>7 DEF on
  <2>2. ArraysIn(handlers', asked')
    BY <1>1, <2>1 DEF BrokerInv, ArraysIn
  <2>3. FramesIn(stack', handlers', asked', removed')
    BY <1>1, <1>3, <1>4, <2>1, FramesKept
  <2> QED BY <1>1, <1>2, <2>1, <2>2, <2>3 DEF BrokerInv, Undropped
<1> QED BY <1>5, <1>6, <1>7

(* The next handler of the innermost frame: an entry of its array.         *)
LEMMA VisitFacts ==
    ASSUME BrokerInv, stack # <<>>, ~AtEnd(Head(stack))
    PROVE  /\ array(Head(stack))[Head(stack).next] \in asked
           /\ FramesIn(<<Visit>> \o Tail(stack), handlers, asked, removed)
<1> DEFINE f == Head(stack)
           a == array(f)
           h == a[f.next]
<1>1. /\ FrameIn(f, handlers, asked, removed)
      /\ FramesIn(Tail(stack), handlers, asked, removed)
  BY TailFrames DEF BrokerInv
<1>2. /\ f \in FrameType /\ f.event \in Events /\ f.arr \in 1..Len(handlers[f.event])
      /\ f.missed \subseteq {x \in asked : eventOf[x] = f.event} /\ FrameHolds(f, a, removed)
  BY <1>1 DEF FrameIn, FrameType, array
<1>3. /\ handlers[f.event] \in Seq(Seq(Handlers))
      /\ ToSet(a) \subseteq {x \in asked : eventOf[x] = f.event}
  BY <1>2 DEF BrokerInv, ArraysIn, array
<1>4. a \in Seq(Handlers)
  BY <1>2, <1>3, ElementOfSeq DEF array
<1>5. f.next <= f.len /\ f.next <= Len(a) /\ f.next \in 1..Len(a)
  <2>1. f.next \in Nat /\ f.len \in Nat /\ Len(a) \in Nat /\ f.next \in 1 .. f.len + 1
    BY <1>2, <1>4, LenProperties DEF FrameType, FrameHolds
  <2> QED BY <2>1 DEF AtEnd
<1>6. h \in asked
  BY <1>3, <1>4, <1>5, LenProperties DEF ToSet
<1> DEFINE g == [f EXCEPT !.next = @ + 1, !.missed = @ \ {a[f.next]}]
<1>7. g = Visit
  BY DEF Visit
<1>8. g \in FrameType /\ FrameHolds(g, a, removed)
  <2> HIDE DEF f, a
  <2> QED BY <1>2, <1>4, <1>5, VisitHolds
<1>9. g.event = f.event /\ g.arr = f.arr /\ g.missed = f.missed \ {a[f.next]}
  BY <1>2 DEF FrameType
<1>10. FrameIn(g, handlers, asked, removed)
  <2> HIDE DEF f, g
  <2> QED BY <1>2, <1>8, <1>9 DEF FrameIn, array
<1> QED BY <1>1, <1>6, <1>7, <1>10, FrontFrame

LEMMA BrokerStep ==
    ASSUME EventBrokerAssumption, BrokerInv, [BrokerNext]_brokerVars PROVE BrokerInv'
<1>1. ASSUME NEW h \in Handlers, on(h) PROVE BrokerInv'
  BY <1>1, OnHolds
<1>2. ASSUME NEW h \in Handlers, Unsubscribe(h) PROVE BrokerInv'
  <2>1. /\ h \in asked /\ off(h, stack) /\ removed' = removed \cup {h}
        /\ UNCHANGED <<asked, drops, late>>
    BY <1>2 DEF Unsubscribe, off
  <2>2. /\ ArraysIn(handlers', asked) /\ current' = current
        /\ FramesIn(stack', handlers', asked, removed')
        /\ \A e \in Events : Len(handlers'[e]) = Len(handlers[e])
        /\ Undropped => Undropped'
    BY <2>1, OffHolds DEF BrokerInv
  <2> QED BY <2>1, <2>2 DEF BrokerInv
<1>3. ASSUME NEW e \in Events, OffAll(e) PROVE BrokerInv'
  <2>1. /\ drops' = drops + 1 /\ current' = [current EXCEPT ![e] = 0]
        /\ UNCHANGED <<handlers, asked, stack, removed, late>>
    BY <1>3 DEF OffAll
  <2>2. current' \in [Events -> Nat] /\ drops' \in Nat /\ drops' # 0
    BY <2>1 DEF BrokerInv
  <2>3. ASSUME NEW d \in Events PROVE current'[d] <= Len(handlers'[d])
    <3>1. handlers[d] \in Seq(Seq(Handlers))
      BY DEF BrokerInv, ArraysIn
    <3>2. 0 <= Len(handlers[d])
      BY <3>1, LenProperties
    <3> QED BY <2>1, <3>2 DEF BrokerInv
  <2> QED BY <2>1, <2>2, <2>3 DEF BrokerInv
<1>4. ASSUME NEW e \in Events, notify(e) PROVE BrokerInv'
  <2> DEFINE k == current[e]
             a == handlers[e][k]
  <2>1. /\ k # 0 /\ stack' = <<Frame(e)>> \o stack
        /\ UNCHANGED <<handlers, current, asked, drops, removed, late>>
    BY <1>4 DEF notify
  <2>2. handlers[e] \in Seq(Seq(Handlers)) /\ k \in Nat /\ k <= Len(handlers[e])
    BY DEF BrokerInv, ArraysIn
  <2>3. k \in 1..Len(handlers[e]) /\ a \in Seq(Handlers)
    <3>1. k \in 1..Len(handlers[e])
      BY <2>1, <2>2, LenProperties
    <3> QED BY <2>2, <3>1, ElementOfSeq
  <2>4. ToSet(a) \subseteq {x \in asked : eventOf[x] = e}
    BY <2>3 DEF BrokerInv, ArraysIn
  <2>5. Frame(e) \in FrameType /\ FrameHolds(Frame(e), a, removed)
    <3>1. Frame(e) = [event |-> e, arr |-> k, next |-> 1, len |-> Len(a),
                      missed |-> ToSet(a), cuts |-> 0]
      BY DEF Frame
    <3> HIDE DEF a, k
    <3> QED BY <2>2, <2>3, <3>1, BeginHolds
  <2>6. Frame(e).event = e /\ Frame(e).arr = k /\ Frame(e).missed = ToSet(a)
    BY DEF Frame
  <2>7. FrameIn(Frame(e), handlers, asked, removed)
    BY <2>3, <2>4, <2>5, <2>6 DEF FrameIn
  <2>8. FramesIn(stack', handlers, asked, removed)
    BY <2>1, <2>7, FrontFrame DEF BrokerInv
  <2> QED BY <2>1, <2>8 DEF BrokerInv, Undropped
<1>5. CASE eventCallbackWrapper
  <2> DEFINE h == array(Head(stack))[Head(stack).next]
             visited == <<Visit>> \o Tail(stack)
  <2>1. stack # <<>> /\ ~AtEnd(Head(stack)) /\ UNCHANGED <<asked, drops>>
    BY <1>5 DEF eventCallbackWrapper
  <2>2. h \in asked /\ FramesIn(visited, handlers, asked, removed)
    BY <2>1, VisitFacts
  <2>3. ASSUME drops = 0 PROVE h \notin removed
    <3> DEFINE f == Head(stack)
    <3>1. Undropped /\ FrameIn(f, handlers, asked, removed)
      BY <2>1, <2>3, TailFrames DEF BrokerInv
    <3>2. f \in FrameType /\ f.event \in Events /\ f.arr \in 1..Len(handlers[f.event])
          /\ FrameHolds(f, array(f), removed)
      BY <3>1 DEF FrameIn, FrameType, array
    <3>3. array(f) \in Seq(Handlers)
      BY <3>2, ElementOfSeq DEF BrokerInv, ArraysIn, array
    <3>4. ToSet(array(f)) \cap removed = {}
      BY <3>1, <3>2 DEF Undropped, array
    <3>5. f.next \in 1..Len(array(f))
      <4>1. f.next \in Nat /\ f.len \in Nat /\ Len(array(f)) \in Nat /\ f.next \in 1 .. f.len + 1
        BY <3>2, <3>3, LenProperties DEF FrameType, FrameHolds
      <4> QED BY <2>1, <4>1 DEF AtEnd
    <3> QED BY <3>3, <3>4, <3>5, LenProperties DEF ToSet
  <2>4. CASE stack' = visited /\ UNCHANGED <<handlers, current, removed, late>>
    BY <2>1, <2>2, <2>4 DEF BrokerInv, Undropped
  <2>5. CASE late' = IF h \in removed THEN late \cup {h} ELSE late
    <3>1. removed' \in {removed, removed \cup {h}} => late' \subseteq removed'
      BY <2>5 DEF BrokerInv
    <3>2. drops = 0 => late' = {}
      BY <2>3, <2>5 DEF BrokerInv
    <3>3. CASE off(h, visited)
      <4>1. /\ ArraysIn(handlers', asked) /\ current' = current
            /\ FramesIn(stack', handlers', asked, removed')
            /\ \A e \in Events : Len(handlers'[e]) = Len(handlers[e])
            /\ Undropped => Undropped'
        <5> HIDE DEF h, visited
        <5> QED BY <2>2, <3>3, OffHolds DEF BrokerInv
      <4>2. removed' = removed \cup {h}
        BY <3>3 DEF off
      <4> QED BY <2>1, <2>2, <3>1, <3>2, <4>1, <4>2 DEF BrokerInv
    <3>4. CASE stack' = visited /\ UNCHANGED <<handlers, current, removed>>
      BY <2>1, <2>2, <3>1, <3>2, <3>4 DEF BrokerInv, Undropped
    <3> QED BY <1>5, <2>4, <3>3, <3>4 DEF eventCallbackWrapper
  <2> QED BY <1>5, <2>4, <2>5 DEF eventCallbackWrapper
<1>6. CASE Return
  <2>1. stack # <<>> /\ stack' = Tail(stack)
        /\ UNCHANGED <<handlers, current, asked, drops, removed, late>>
    BY <1>6 DEF Return
  <2>2. FramesIn(stack', handlers, asked, removed)
    BY <2>1, TailFrames DEF BrokerInv
  <2> QED BY <2>1, <2>2 DEF BrokerInv, Undropped
<1>7. CASE UNCHANGED brokerVars
  BY <1>7 DEF brokerVars, BrokerInv, Undropped
<1> QED BY <1>1, <1>2, <1>3, <1>4, <1>5, <1>6, <1>7 DEF BrokerNext

LEMMA BrokerBegins ==
    ASSUME BrokerInit PROVE BrokerInv
<1>1. /\ handlers = [e \in Events |-> <<>>] /\ current = [e \in Events |-> 0]
      /\ asked = {} /\ removed = {} /\ late = {} /\ stack = <<>> /\ drops = 0
  BY DEF BrokerInit
<1>2. <<>> \in Seq(Seq(Handlers)) /\ Len(<<>>) = 0 /\ <<>> \in Seq(FrameType) /\ 1..0 = {}
  BY EmptySeq
<1>3. \A e \in Events : handlers[e] = <<>> /\ current[e] = 0
  BY <1>1
<1>4. ArraysIn(handlers, asked)
  BY <1>1, <1>2, <1>3 DEF ArraysIn
<1>5. FramesIn(stack, handlers, asked, removed)
  BY <1>1, <1>2 DEF FramesIn
<1>6. Undropped
  BY <1>2, <1>3 DEF Undropped
<1> QED BY <1>1, <1>2, <1>3, <1>4, <1>5, <1>6 DEF BrokerInv

(* The arrays, the frames of notify under way and what they know: see      *)
(* BrokerInv.                                                              *)
THEOREM BrokerHolds == BrokerSpec => []BrokerInv
<1>1. BrokerInv /\ [BrokerNext]_brokerVars => BrokerInv'
  BY BrokerStep, EventBrokerAssumption
<1> QED BY <1>1, BrokerBegins, PTL DEF BrokerSpec

(* The values of the broker are of their types, whatever is added, fired,  *)
(* removed and dropped in handlers that are running.                       *)
THEOREM BrokerTyped == BrokerSpec => []EventBrokerTypeOK
<1>1. ASSUME BrokerInv PROVE EventBrokerTypeOK
  <2>1. ASSUME NEW e \in Events
        PROVE  handlers[e] \in Seq(Seq(Handlers)) /\ current[e] \in 0 .. Len(handlers[e])
    <3>1. handlers[e] \in Seq(Seq(Handlers)) /\ current[e] \in Nat /\ current[e] <= Len(handlers[e])
      BY <1>1 DEF BrokerInv, ArraysIn
    <3> QED BY <3>1, LenProperties
  <2>2. ASSUME NEW i \in DOMAIN stack
        PROVE  /\ stack[i].arr \in 1 .. Len(handlers[stack[i].event])
               /\ stack[i].next \in 1 .. stack[i].len + 1
               /\ stack[i].missed \subseteq {h \in asked : eventOf[h] = stack[i].event}
    <3>1. DOMAIN stack = 1..Len(stack)
      BY <1>1, LenProperties DEF BrokerInv, FramesIn
    <3> QED BY <1>1, <3>1 DEF BrokerInv, FramesIn, FrameIn, FrameHolds
  <2> QED BY <1>1, <2>1, <2>2 DEF BrokerInv, EventBrokerTypeOK
<1> QED BY <1>1, BrokerHolds, PTL

(* However many calls of notify are under way when a handler is removed:   *)
(* it is not entered any more, unless off(event) dropped the array.        *)
THEOREM SilentOnceRemoved == BrokerSpec => []RemovedStaysSilent
<1>1. BrokerInv => RemovedStaysSilent
  BY DEF BrokerInv, RemovedStaysSilent
<1> QED BY <1>1, BrokerHolds, PTL

(* A notify that ends has passed over no more handlers than were cut out   *)
(* of its array meanwhile, however deeply the handlers fire events.        *)
THEOREM CutsAreTheCost == BrokerSpec => []EachCutCostsOne
<1>1. ASSUME BrokerInv PROVE EachCutCostsOne
  <2> SUFFICES ASSUME NEW i \in DOMAIN stack, AtEnd(stack[i])
               PROVE  Cardinality(stack[i].missed \ removed) <= stack[i].cuts
    BY DEF EachCutCostsOne
  <2> DEFINE f == stack[i]
             a == array(f)
  <2>1. f \in FrameType /\ FrameIn(f, handlers, asked, removed)
    BY <1>1, LenProperties, ElementOfSeq DEF BrokerInv, FramesIn
  <2>2. FrameHolds(f, a, removed) /\ f.next \in Nat /\ f.len \in Nat
    BY <2>1 DEF FrameIn, array, FrameType
  <2>3. f.next > f.len \/ f.next > Len(a)
    BY DEF AtEnd
  <2> HIDE DEF a, f
  <2>4. \A j \in 1..Len(a) : j <= f.len => j < f.next
    BY <2>2, <2>3
  <2>5. f.missed \ removed = Passed(f, a, removed)
    BY <2>2, <2>4 DEF FrameHolds, Placed, Passed
  <2> QED BY <2>2, <2>5 DEF FrameHolds, f
<1> QED BY <1>1, BrokerHolds, PTL

-----------------------------------------------------------------------------
(* Ports: the names of calls and arrays, over the runs rs.  A name's port  *)
(* is portOf(c, rs); a call knows its cause, its array and what has answered.  *)

NameType(rs) == [run : 1..Len(rs), tries : Seq(Nat)]
portOf(c, rs) == rs[c.run] + Len(c.tries) - 1
CallType == [pc : {"adapter", "saving", "done", "failed", "lost"}, timer : BOOLEAN, wrote : BOOLEAN]

RunsOK(rs) == rs \in Seq(Chain) /\ 1 \in 1..Len(rs) /\ rs[1] = 1

(* The name c of a call among the calls C, with the arrays D and the ports *)
(* ans that have answered.                                                 *)
GoodName(c, rs, C, D, ans) ==
    /\ c \in NameType(rs) /\ c.tries # <<>>
    /\ portOf(c, rs) \in Chain /\ try(c) \in 1 .. maxRetry[portOf(c, rs)]
    /\ Len(c.tries) > 1 => cause(c) \in C
    /\ getPortFlow(c) \in D
    /\ 1 .. portOf(c, rs) - 1 \subseteq ans
GoodState(c, v, rs, D, ans) ==
    /\ v \in CallType
    /\ v.timer => v.pc \in {"adapter", "failed"}
    /\ v.pc \in {"saving", "done"} => c \in D /\ portOf(c, rs) \in ans
CallsIn(cs, rs, D, ans) ==
    \A c \in DOMAIN cs : GoodName(c, rs, DOMAIN cs, D, ans) /\ GoodState(c, cs[c], rs, D, ans)

(* A recorded flow has ports that have answered, in order, hence without   *)
(* one twice; the i-th is i at least.                                      *)
FlowOK(s, ans) ==
    /\ s \in Seq(Nat)
    /\ \A i \in 1..Len(s) : s[i] \in ans /\ i <= s[i]
    /\ \A i, j \in 1..Len(s) : i < j => s[i] < s[j]
FlowsIn(as, rs, ans) ==
    /\ \A a \in DOMAIN as :
          /\ a \in NameType(rs) /\ FlowOK(as[a], ans)
          /\ \A i \in 1..Len(as[a]) : as[a][i] <= portOf(a, rs)
    /\ \A r \in 1..Len(rs) : Name(r, <<>>) \in DOMAIN as

(* The ports that are undone so far are among those that compensate has    *)
(* passed.                                                                 *)
UndoOK ==
    /\ undo \in [pc : {"idle", "undoing", "failed", "complete", "incomplete", "lost"},
                 arr : DOMAIN arrays, ports : Seq(Nat), index : Nat, flow : Seq(Nat)]
    /\ FlowOK(undo.ports, answered) /\ FlowOK(undo.flow, answered)
    /\ undo.index <= Len(undo.ports)
    /\ undone \in Seq(Nat)
    /\ \A i, j \in 1..Len(undone) : i < j => undone[i] > undone[j]
    /\ undo.pc = "idle" => undone = <<>>
    /\ undo.pc = "undoing" =>
          ToSet(undone) \subseteq {undo.ports[i] : i \in (undo.index + 1) .. Len(undo.ports)}

PortsInv ==
    /\ RunsOK(runs)
    /\ CallsIn(calls, runs, DOMAIN arrays, answered)
    /\ FlowsIn(arrays, runs, answered)
    /\ answered \subseteq Chain /\ \A p \in answered : 1..p \subseteq answered
    /\ document \in [flow : Seq(Nat), compensate : BOOLEAN] /\ FlowOK(document.flow, answered)
    /\ UndoOK

(* What holds goes on to hold with more arrays and answers, and with one   *)
(* more run.                                                               *)
LEMMA NameKept ==
    ASSUME NEW c, NEW rs, NEW C, NEW D, NEW ans, NEW C2, NEW D2, NEW ans2,
           GoodName(c, rs, C, D, ans), C \subseteq C2, D \subseteq D2, ans \subseteq ans2
    PROVE  GoodName(c, rs, C2, D2, ans2)
BY DEF GoodName

LEMMA CallsKept ==
    ASSUME NEW cs, NEW rs, NEW D, NEW ans, NEW D2, NEW ans2,
           CallsIn(cs, rs, D, ans), D \subseteq D2, ans \subseteq ans2
    PROVE  CallsIn(cs, rs, D2, ans2)
<1> SUFFICES ASSUME NEW c \in DOMAIN cs
             PROVE  GoodName(c, rs, DOMAIN cs, D2, ans2) /\ GoodState(c, cs[c], rs, D2, ans2)
  BY DEF CallsIn
<1>1. GoodName(c, rs, DOMAIN cs, D, ans) /\ GoodState(c, cs[c], rs, D, ans)
  BY DEF CallsIn
<1>2. GoodState(c, cs[c], rs, D2, ans2)
  BY <1>1 DEF GoodState
<1> QED BY <1>1, <1>2, NameKept

LEMMA OneMoreRun ==
    ASSUME NEW rs \in Seq(Chain), NEW p \in Chain, NEW c \in NameType(rs)
    PROVE  c \in NameType(Append(rs, p)) /\ portOf(c, Append(rs, p)) = portOf(c, rs)
<1>1. /\ Len(rs) \in Nat /\ Len(Append(rs, p)) = Len(rs) + 1
      /\ \A i \in 1..Len(rs) : Append(rs, p)[i] = rs[i]
  BY LenProperties, AppendProperties
<1>2. c.run \in 1..Len(rs) /\ c.run \in 1..Len(rs) + 1
  BY <1>1 DEF NameType
<1>3. c \in NameType(Append(rs, p))
  BY <1>1, <1>2 DEF NameType
<1> QED BY <1>1, <1>2, <1>3 DEF portOf

LEMMA CallsInMoreRuns ==
    ASSUME NEW cs, NEW rs \in Seq(Chain), NEW D, NEW ans, NEW p \in Chain,
           CallsIn(cs, rs, D, ans)
    PROVE  CallsIn(cs, Append(rs, p), D, ans)
<1> SUFFICES ASSUME NEW c \in DOMAIN cs
             PROVE  /\ GoodName(c, Append(rs, p), DOMAIN cs, D, ans)
                    /\ GoodState(c, cs[c], Append(rs, p), D, ans)
  BY DEF CallsIn
<1>1. GoodName(c, rs, DOMAIN cs, D, ans) /\ GoodState(c, cs[c], rs, D, ans)
  BY DEF CallsIn
<1>2. c \in NameType(Append(rs, p)) /\ portOf(c, Append(rs, p)) = portOf(c, rs)
  BY <1>1, OneMoreRun DEF GoodName
<1>3. GoodName(c, Append(rs, p), DOMAIN cs, D, ans)
  BY <1>1, <1>2 DEF GoodName
<1>4. GoodState(c, cs[c], Append(rs, p), D, ans)
  BY <1>1, <1>2 DEF GoodState
<1> QED BY <1>3, <1>4

(* One call changes; the others stay.                                      *)
LEMMA CallChanges ==
    ASSUME NEW cs, NEW rs, NEW D, NEW ans, NEW c \in DOMAIN cs, NEW v,
           CallsIn(cs, rs, D, ans), GoodState(c, v, rs, D, ans)
    PROVE  /\ CallsIn([cs EXCEPT ![c] = v], rs, D, ans)
           /\ DOMAIN [cs EXCEPT ![c] = v] = DOMAIN cs
BY DEF CallsIn

(* portFn: one more call, unless it would be one retry too many.           *)
LEMMA PortCalled ==
    ASSUME NEW cs, NEW rs, NEW D, NEW ans, NEW c, CallsIn(cs, rs, D, ans),
           ~expired(c, portOf(c, rs)) => GoodName(c, rs, DOMAIN cs \cup {c}, D, ans)
    PROVE  CallsIn(portFn(cs, c, portOf(c, rs)), rs, D, ans)
<1>1. CASE expired(c, portOf(c, rs))
  BY <1>1 DEF portFn
<1>2. CASE ~expired(c, portOf(c, rs))
  <2> DEFINE v == [pc |-> "adapter", timer |-> TRUE, wrote |-> FALSE]
             ns == With(cs, c, v)
  <2>1. portFn(cs, c, portOf(c, rs)) = ns
    BY <1>2 DEF portFn
  <2>2. GoodState(c, v, rs, D, ans)
    BY DEF GoodState, CallType
  <2> HIDE DEF v
  <2>3. /\ DOMAIN ns = DOMAIN cs \cup {c}
        /\ \A d \in DOMAIN ns : ns[d] = IF d = c THEN v ELSE cs[d]
    BY DEF With
  <2> HIDE DEF ns
  <2>4. ASSUME NEW d \in DOMAIN ns
        PROVE  GoodName(d, rs, DOMAIN ns, D, ans) /\ GoodState(d, ns[d], rs, D, ans)
    <3>1. CASE d = c
      BY <1>2, <2>2, <2>3, <3>1
    <3>2. CASE d # c
      <4>1. d \in DOMAIN cs /\ ns[d] = cs[d]
        BY <2>3, <3>2
      <4>2. GoodName(d, rs, DOMAIN cs, D, ans) /\ GoodState(d, cs[d], rs, D, ans)
        BY <4>1 DEF CallsIn
      <4>3. GoodName(d, rs, DOMAIN ns, D, ans)
        BY <2>3, <4>2, NameKept
      <4> QED BY <4>1, <4>2, <4>3
    <3> QED BY <3>1, <3>2
  <2> QED BY <2>1, <2>4 DEF CallsIn
<1> QED BY <1>1, <1>2

(* More flows: the name c gets the flow s.                                 *)
LEMMA FlowKept ==
    ASSUME NEW s, NEW ans, NEW ans2, FlowOK(s, ans), ans \subseteq ans2
    PROVE  FlowOK(s, ans2)
BY DEF FlowOK

LEMMA FlowsSet ==
    ASSUME NEW as, NEW rs, NEW ans, NEW ans2, NEW c, NEW s, c \in NameType(rs),
           FlowsIn(as, rs, ans), ans \subseteq ans2, FlowOK(s, ans2),
           \A i \in 1..Len(s) : s[i] <= portOf(c, rs)
    PROVE  FlowsIn(With(as, c, s), rs, ans2)
<1> DEFINE ns == With(as, c, s)
<1>1. /\ DOMAIN ns = DOMAIN as \cup {c}
      /\ \A a \in DOMAIN ns : ns[a] = IF a = c THEN s ELSE as[a]
  BY DEF With
<1> HIDE DEF ns
<1>2. ASSUME NEW a \in DOMAIN ns
      PROVE  /\ a \in NameType(rs) /\ FlowOK(ns[a], ans2)
             /\ \A i \in 1..Len(ns[a]) : ns[a][i] <= portOf(a, rs)
  <2>1. CASE a = c
    BY <1>1, <2>1
  <2>2. CASE a # c
    <3>1. a \in DOMAIN as /\ ns[a] = as[a]
      BY <1>1, <2>2
    <3>2. /\ a \in NameType(rs) /\ FlowOK(as[a], ans)
          /\ \A i \in 1..Len(as[a]) : as[a][i] <= portOf(a, rs)
      BY <3>1 DEF FlowsIn
    <3> QED BY <3>1, <3>2, FlowKept
  <2> QED BY <2>1, <2>2
<1>3. \A r \in 1..Len(rs) : Name(r, <<>>) \in DOMAIN ns
  BY <1>1 DEF FlowsIn
<1> QED BY <1>1, <1>2, <1>3 DEF FlowsIn, ns

(* What updatePortFlow writes.                                             *)
LEMMA NewFlowOK ==
    ASSUME PortsAssumption, PortsInv, NEW c \in Calls
    PROVE  /\ FlowOK(newFlow(c), answered \cup {port(c)})
           /\ \A i \in 1..Len(newFlow(c)) : newFlow(c)[i] <= port(c)
           /\ FlowOK(arrays[getPortFlow(c)], answered)
<1> DEFINE g == getPortFlow(c)
           s == arrays[g]
           p == port(c)
<1>1. GoodName(c, runs, Calls, DOMAIN arrays, answered)
  BY DEF PortsInv, CallsIn, Calls
<1>2. /\ c \in NameType(runs) /\ c.run \in 1..Len(runs) /\ c.tries \in Seq(Nat) /\ c.tries # <<>>
      /\ p \in Chain /\ p = runs[c.run] + Len(c.tries) - 1 /\ g \in DOMAIN arrays
  BY <1>1 DEF GoodName, NameType, portOf, port
<1>3. /\ FlowOK(s, answered) /\ \A i \in 1..Len(s) : s[i] <= portOf(g, runs)
  BY <1>2 DEF PortsInv, FlowsIn
<1>4. runs[c.run] \in Nat /\ p \in Nat \ {0} /\ Len(c.tries) \in Nat \ {0}
  <2>1. runs \in Seq(Chain)
    BY DEF PortsInv, RunsOK
  <2>2. runs[c.run] \in Chain
    BY <1>2, <2>1, ElementOfSeq
  <2>3. Len(c.tries) \in Nat \ {0}
    BY <1>2, LenProperties, EmptySeq
  <2>4. \A k \in Chain : k \in Nat \ {0}
    BY DEF Chain, PortsAssumption
  <2> QED BY <1>2, <2>2, <2>3, <2>4
<1>5. portOf(g, runs) \in Int /\ portOf(g, runs) <= p - 1
  <2>1. CASE c.run = 1
    <3> DEFINE t == SubSeq(c.tries, 1, Len(c.tries) - 1)
    <3>1. \A i \in 1..(Len(c.tries) - 1) : c.tries[i] \in Nat
      <4>1. \A i \in 1..(Len(c.tries) - 1) : i \in 1..Len(c.tries)
        BY <1>4
      <4> QED BY <1>2, <4>1, ElementOfSeq
    <3>2. Len(t) = IF 1 <= Len(c.tries) - 1 THEN Len(c.tries) - 1 ELSE 0
      BY <1>4, <3>1, SubSeqProperties
    <3> HIDE DEF t
    <3>3. Len(t) = Len(c.tries) - 1
      BY <1>4, <3>2
    <3>4. g.run = c.run /\ g.tries = t
      BY <2>1 DEF getPortFlow, cause, Name, t
    <3> QED BY <1>2, <1>4, <3>3, <3>4 DEF portOf
  <2>2. CASE c.run # 1
    <3>1. g.run = c.run /\ g.tries = <<>>
      BY <2>2 DEF getPortFlow, Name
    <3> HIDE DEF g
    <3>2. Len(g.tries) = 0
      BY <3>1
    <3>3. portOf(g, runs) = runs[c.run] + 0 - 1
      BY <3>1, <3>2 DEF portOf
    <3> HIDE DEF p
    <3> QED BY <1>2, <1>4, <3>3
  <2> QED BY <2>1, <2>2
<1> HIDE DEF g, s, p
<1>6. /\ s \in Seq(Nat) /\ Len(s) \in Nat
      /\ Append(s, p) \in Seq(Nat) /\ Len(Append(s, p)) = Len(s) + 1
      /\ \A i \in 1..Len(s) : Append(s, p)[i] = s[i]
      /\ Append(s, p)[Len(s) + 1] = p
  BY <1>3, <1>4, LenProperties, AppendProperties DEF FlowOK
<1>7. ASSUME NEW i \in 1..Len(s) PROVE s[i] \in Nat /\ s[i] <= p - 1 /\ s[i] < p
  <2>1. s[i] \in Nat
    BY <1>6, ElementOfSeq
  <2>2. s[i] <= portOf(g, runs)
    BY <1>3
  <2> QED BY <1>4, <1>5, <2>1, <2>2
<1>8. Len(s) + 1 <= p
  <2>1. CASE Len(s) = 0
    BY <1>4, <2>1
  <2>2. CASE Len(s) # 0
    <3>1. Len(s) \in 1..Len(s)
      BY <1>6, <2>2
    <3>2. Len(s) <= s[Len(s)]
      BY <1>3, <3>1 DEF FlowOK
    <3> QED BY <1>4, <1>6, <1>7, <3>1, <3>2
  <2> QED BY <2>1, <2>2
<1>9. FlowOK(Append(s, p), answered \cup {p})
  <2>1. ASSUME NEW i \in 1..Len(s) + 1
        PROVE  Append(s, p)[i] \in answered \cup {p} /\ i <= Append(s, p)[i]
    <3>1. CASE i = Len(s) + 1
      BY <1>6, <1>8, <3>1
    <3>2. CASE i # Len(s) + 1
      <4>1. i \in 1..Len(s)
        BY <1>6, <3>2
      <4> QED BY <1>3, <1>6, <4>1 DEF FlowOK
    <3> QED BY <3>1, <3>2
  <2>2. ASSUME NEW i \in 1..Len(s) + 1, NEW j \in 1..Len(s) + 1, i < j
        PROVE  Append(s, p)[i] < Append(s, p)[j]
    <3>1. i \in 1..Len(s) /\ Append(s, p)[i] = s[i]
      BY <1>6, <2>2
    <3>2. CASE j = Len(s) + 1
      BY <1>6, <1>7, <3>1, <3>2
    <3>3. CASE j # Len(s) + 1
      <4>1. j \in 1..Len(s) /\ Append(s, p)[j] = s[j]
        BY <1>6, <3>3
      <4> QED BY <1>3, <2>2, <3>1, <4>1 DEF FlowOK
    <3> QED BY <3>2, <3>3
  <2> QED BY <1>6, <2>1, <2>2 DEF FlowOK
<1>10. ASSUME NEW i \in 1..Len(s) + 1 PROVE Append(s, p)[i] <= p
  <2>1. CASE i = Len(s) + 1
    BY <1>4, <1>6, <2>1
  <2>2. CASE i # Len(s) + 1
    <3>1. i \in 1..Len(s)
      BY <1>6, <2>2
    <3>2. s[i] <= p
      BY <1>4, <1>7, <3>1
    <3> QED BY <1>6, <3>1, <3>2
  <2> QED BY <2>1, <2>2
<1>11. newFlow(c) = Append(s, p)
  BY DEF newFlow, s, g, p
<1> QED BY <1>3, <1>6, <1>9, <1>10, <1>11 DEF s, g, p

(* The name of a call that c leads to.                                     *)
LEMMA LongerName ==
    ASSUME NEW rs \in Seq(Chain), NEW c \in NameType(rs), NEW n \in Nat
    PROVE  LET m == Name(c.run, Append(c.tries, n))
           IN  /\ m \in NameType(rs) /\ m.run = c.run /\ m.tries # <<>>
               /\ Len(m.tries) = Len(c.tries) + 1
               /\ try(m) = n /\ cause(m) = c /\ portOf(m, rs) = portOf(c, rs) + 1
<1> DEFINE t == Append(c.tries, n)
           m == Name(c.run, t)
           u == SubSeq(t, 1, Len(t) - 1)
<1>1. c.run \in 1..Len(rs) /\ c.tries \in Seq(Nat) /\ Len(c.tries) \in Nat
  BY LenProperties DEF NameType
<1>2. /\ t \in Seq(Nat) /\ Len(t) = Len(c.tries) + 1 /\ t # <<>> /\ t[Len(c.tries) + 1] = n
      /\ \A i \in 1..Len(c.tries) : t[i] = c.tries[i]
  BY <1>1, AppendProperties
<1> HIDE DEF t
<1>3. m.run = c.run /\ m.tries = t /\ m \in NameType(rs)
  BY <1>1, <1>2 DEF Name, NameType
<1>4. try(m) = n
  BY <1>1, <1>2, <1>3 DEF try
<1>5. u = c.tries
  <2>1. \A i \in 1..(Len(t) - 1) : t[i] \in Nat
    <3>1. \A i \in 1..(Len(t) - 1) : i \in 1..Len(t)
      BY <1>1, <1>2
    <3> QED BY <1>2, <3>1, ElementOfSeq
  <2>2. /\ u \in Seq(Nat) /\ \A i \in 1..(Len(t) - 1) : u[i] = t[i]
        /\ Len(u) = IF 1 <= Len(t) - 1 THEN Len(t) - 1 ELSE 0
    BY <1>1, <1>2, <2>1, SubSeqProperties
  <2> HIDE DEF u
  <2>3. Len(u) = Len(c.tries)
    BY <1>1, <1>2, <2>2
  <2>4. \A i \in 1..Len(u) : u[i] = c.tries[i]
    BY <1>1, <1>2, <2>2, <2>3
  <2> QED BY <1>1, <2>2, <2>3, <2>4, SeqEqual
<1>6. cause(m) = c
  <2>1. c = [run |-> c.run, tries |-> c.tries]
    BY DEF NameType
  <2> QED BY <1>3, <1>5, <2>1 DEF cause, Name
<1>7. rs[c.run] \in Int
  <2>1. rs[c.run] \in Chain
    BY <1>1, ElementOfSeq
  <2> QED BY <2>1 DEF Chain
<1> HIDE DEF m
<1>8. portOf(m, rs) = portOf(c, rs) + 1
  <2>1. Len(m.tries) = Len(c.tries) + 1
    BY <1>2, <1>3
  <2>2. portOf(m, rs) = rs[c.run] + (Len(c.tries) + 1) - 1
    BY <1>3, <2>1 DEF portOf
  <2> QED BY <1>1, <1>7, <2>2 DEF portOf
<1> QED BY <1>2, <1>3, <1>4, <1>6, <1>8 DEF m, t

(* The name of what led to c.                                              *)
LEMMA ShorterName ==
    ASSUME NEW rs \in Seq(Chain), NEW c \in NameType(rs), c.tries # <<>>
    PROVE  /\ cause(c) \in NameType(rs) /\ cause(c).run = c.run /\ try(c) \in Nat
           /\ Len(cause(c).tries) = Len(c.tries) - 1 /\ Len(c.tries) \in Nat \ {0}
           /\ portOf(c, rs) \in Int /\ portOf(cause(c), rs) = portOf(c, rs) - 1
           /\ c = Name(cause(c).run, Append(cause(c).tries, try(c)))
<1> DEFINE t == c.tries
           n == Len(t)
           u == SubSeq(t, 1, n - 1)
           a == Append(u, t[n])
<1>1. c.run \in 1..Len(rs) /\ t \in Seq(Nat) /\ n \in Nat \ {0}
  BY LenProperties, EmptySeq DEF NameType
<1>2. \A i \in 1..n : t[i] \in Nat
  BY <1>1, ElementOfSeq
<1>3. \A i \in 1..(n - 1) : i \in 1..n
  BY <1>1
<1>4. /\ u \in Seq(Nat) /\ \A i \in 1..(n - 1) : u[i] = t[i]
      /\ Len(u) = IF 1 <= n - 1 THEN n - 1 ELSE 0
  BY <1>1, <1>2, <1>3, SubSeqProperties
<1>5. cause(c).run = c.run /\ cause(c).tries = u /\ try(c) = t[n]
  BY DEF cause, Name, try
<1> HIDE DEF t, n, u
<1>6. Len(u) = n - 1 /\ t[n] \in Nat
  BY <1>1, <1>2, <1>4
<1>7. /\ a \in Seq(Nat) /\ Len(a) = n /\ a[n] = t[n]
      /\ \A i \in 1..(n - 1) : a[i] = t[i]
  BY <1>1, <1>4, <1>6, AppendProperties
<1>8. a = t
  <2>1. Len(t) = n
    BY DEF n
  <2>2. ASSUME NEW i \in 1..n PROVE a[i] = t[i]
    <3>1. i = n \/ i \in 1..(n - 1)
      BY <1>1
    <3> QED BY <1>7, <3>1
  <2> QED BY <1>1, <1>7, <2>1, <2>2, SeqEqual
<1>9. cause(c) \in NameType(rs)
  BY <1>1, <1>4, <1>5 DEF NameType, cause, Name
<1>10. c = Name(cause(c).run, Append(cause(c).tries, try(c)))
  <2>1. c = [run |-> c.run, tries |-> c.tries]
    BY DEF NameType
  <2> QED BY <1>5, <1>8, <2>1 DEF Name, t
<1>11. rs[c.run] \in Int
  <2>1. rs[c.run] \in Chain
    BY <1>1, ElementOfSeq
  <2> QED BY <2>1 DEF Chain
<1>12. portOf(c, rs) \in Int /\ portOf(cause(c), rs) = portOf(c, rs) - 1
  BY <1>1, <1>5, <1>6, <1>11 DEF portOf, n, t
<1> QED BY <1>1, <1>5, <1>6, <1>9, <1>10, <1>12 DEF n, t

LEMMA UndoKept ==
    ASSUME UndoOK, UNCHANGED <<undo, undone>>, DOMAIN arrays \subseteq DOMAIN arrays',
           answered \subseteq answered'
    PROVE  UndoOK'
<1>1. FlowOK(undo.ports, answered') /\ FlowOK(undo.flow, answered')
  BY FlowKept DEF UndoOK
<1>2. undo \in [pc : {"idle", "undoing", "failed", "complete", "incomplete", "lost"},
                arr : DOMAIN arrays', ports : Seq(Nat), index : Nat, flow : Seq(Nat)]
  BY DEF UndoOK
<1> QED BY <1>1, <1>2 DEF UndoOK

(* A worker begins a run after the last port that is recorded.             *)
LEMMA RunStarts ==
    ASSUME PortsAssumption, PortsInv, NEW cs, CallsIn(cs, runs, DOMAIN arrays, answered),
           startWorkflow(cs)
    PROVE  /\ RunsOK(runs') /\ FlowsIn(arrays', runs', answered)
           /\ CallsIn(calls', runs', DOMAIN arrays', answered)
           /\ DOMAIN arrays \subseteq DOMAIN arrays'
<1>1. CASE calls' = cs /\ UNCHANGED <<runs, arrays>>
  BY <1>1 DEF PortsInv
<1>2. CASE ~(calls' = cs /\ UNCHANGED <<runs, arrays>>)
  <2> DEFINE flow == document.flow
             l == Len(flow)
             p == flow[l] + 1
             rs == Append(runs, p)
             run == Len(runs) + 1
             root == Name(run, <<>>)
             c == Name(run, <<1>>)
  <2>1. /\ flow # <<>> /\ flow[l] # LastPort /\ runs' = rs
        /\ arrays' = With(arrays, root, flow) /\ calls' = portFn(cs, c, p)
    BY <1>2 DEF startWorkflow
  <2>2. /\ runs \in Seq(Chain) /\ 1 \in 1..Len(runs) /\ runs[1] = 1 /\ Len(runs) \in Nat
        /\ FlowOK(flow, answered) /\ FlowsIn(arrays, runs, answered)
        /\ answered \subseteq Chain /\ \A q \in answered : 1..q \subseteq answered
    BY LenProperties DEF PortsInv, RunsOK
  <2>3. flow \in Seq(Nat) /\ l \in Nat \ {0} /\ l \in 1..l
    BY <2>1, <2>2, LenProperties, EmptySeq DEF FlowOK
  <2>4. flow[l] \in answered /\ flow[l] \in Chain /\ 1..flow[l] \subseteq answered
    BY <2>2, <2>3 DEF FlowOK
  <2>5. p \in Chain /\ p - 1 = flow[l]
    BY <2>1, <2>4 DEF Chain, PortsAssumption
  <2> HIDE DEF p
  <2>6. /\ rs \in Seq(Chain) /\ Len(rs) = run /\ rs[run] = p
        /\ \A r \in 1..Len(runs) : rs[r] = runs[r]
    BY <2>2, <2>5, AppendProperties
  <2>7. RunsOK(rs)
    BY <2>2, <2>6 DEF RunsOK
  <2> HIDE DEF rs
  <2>8. run \in 1..Len(rs)
    BY <2>2, <2>6
  <2>9. /\ root \in NameType(rs) /\ root.run = run /\ root.tries = <<>>
        /\ c \in NameType(rs) /\ c.run = run /\ c.tries = <<1>>
    BY <2>8 DEF NameType, Name
  <2>10. Len(<<>>) = 0 /\ Len(<<1>>) = 1 /\ <<1>> # <<>> /\ <<1>>[1] = 1
    OBVIOUS
  <2>11. portOf(root, rs) = p - 1 /\ portOf(c, rs) = p
    <3> HIDE DEF root, c, run
    <3>1. Len(root.tries) = 0 /\ Len(c.tries) = 1
      BY <2>9, <2>10
    <3>2. portOf(root, rs) = p + 0 - 1 /\ portOf(c, rs) = p + 1 - 1
      BY <2>6, <2>9, <3>1 DEF portOf
    <3> QED BY <2>5, <3>2 DEF Chain
  <2>12. FlowsIn(arrays', rs, answered) /\ DOMAIN arrays' = DOMAIN arrays \cup {root}
    <3>1. ASSUME NEW a \in DOMAIN arrays
          PROVE  /\ a \in NameType(rs) /\ FlowOK(arrays[a], answered)
                 /\ \A i \in 1..Len(arrays[a]) : arrays[a][i] <= portOf(a, rs)
      <4>1. /\ a \in NameType(runs) /\ FlowOK(arrays[a], answered)
            /\ \A i \in 1..Len(arrays[a]) : arrays[a][i] <= portOf(a, runs)
        BY <2>2 DEF FlowsIn
      <4>2. a \in NameType(rs) /\ portOf(a, rs) = portOf(a, runs)
        BY <2>2, <2>5, <4>1, OneMoreRun DEF rs
      <4> QED BY <4>1, <4>2
    <3>2. \A i \in 1..l : flow[i] <= portOf(root, rs)
      <4> TAKE i \in 1..l
      <4>1. i = l \/ flow[i] < flow[l]
        <5>1. i = l \/ i < l
          BY <2>3
        <5>2. \A k, j \in 1..l : k < j => flow[k] < flow[j]
          BY <2>2 DEF FlowOK
        <5> QED BY <2>3, <5>1, <5>2
      <4>2. flow[i] \in Nat /\ flow[l] \in Nat
        BY <2>3, ElementOfSeq
      <4> QED BY <2>5, <2>11, <4>1, <4>2
    <3> DEFINE ns == With(arrays, root, flow)
    <3>3. /\ DOMAIN ns = DOMAIN arrays \cup {root}
          /\ \A a \in DOMAIN ns : ns[a] = IF a = root THEN flow ELSE arrays[a]
      BY DEF With
    <3>4. ns = arrays'
      BY <2>1
    <3> HIDE DEF ns, flow, root, l, run
    <3>5. ASSUME NEW a \in DOMAIN ns
          PROVE  /\ a \in NameType(rs) /\ FlowOK(ns[a], answered)
                 /\ \A i \in 1..Len(ns[a]) : ns[a][i] <= portOf(a, rs)
      <4>1. CASE a = root
        BY <2>2, <2>9, <3>2, <3>3, <4>1 DEF l
      <4>2. CASE a # root
        BY <3>1, <3>3, <4>2
      <4> QED BY <4>1, <4>2
    <3>6. ASSUME NEW r \in 1..Len(rs) PROVE Name(r, <<>>) \in DOMAIN ns
      <4>1. CASE r = run
        BY <3>3, <4>1 DEF root
      <4>2. CASE r # run
        <5>1. r \in 1..Len(runs)
          BY <2>2, <2>6, <4>2 DEF run
        <5> QED BY <2>2, <3>3, <5>1 DEF FlowsIn
      <4> QED BY <4>1, <4>2
    <3> QED BY <3>3, <3>4, <3>5, <3>6 DEF FlowsIn
  <2>13. CallsIn(cs, rs, DOMAIN arrays', answered)
    <3>1. CallsIn(cs, rs, DOMAIN arrays, answered)
      BY <2>2, <2>5, CallsInMoreRuns DEF rs
    <3> QED BY <2>12, <3>1, CallsKept
  <2>14. GoodName(c, rs, DOMAIN cs \cup {c}, DOMAIN arrays', answered)
    <3>1. try(c) = 1 /\ Len(c.tries) = 1 /\ c.tries # <<>>
      BY <2>9, <2>10 DEF try
    <3>2. 1 \in 1..maxRetry[p]
      BY <2>5 DEF PortsAssumption
    <3>3. getPortFlow(c) = root
      BY <2>2, <2>9 DEF getPortFlow
    <3> HIDE DEF c, root, run, flow, l
    <3> QED BY <2>4, <2>5, <2>9, <2>11, <2>12, <3>1, <3>2, <3>3 DEF GoodName
  <2>15. CallsIn(calls', rs, DOMAIN arrays', answered)
    <3> HIDE DEF c, root, run, flow, l
    <3>1. CallsIn(portFn(cs, c, portOf(c, rs)), rs, DOMAIN arrays', answered)
      BY <2>13, <2>14, PortCalled
    <3> QED BY <2>1, <2>11, <3>1
  <2> QED BY <2>1, <2>7, <2>12, <2>15
<1> QED BY <1>1, <1>2

(* A call ends, or notes that its adapter wrote, or its timer goes off.    *)
LEMMA StateSet ==
    ASSUME PortsInv, NEW c \in Calls, NEW v, GoodState(c, v, runs, DOMAIN arrays, answered)
    PROVE  CallsIn([calls EXCEPT ![c] = v], runs, DOMAIN arrays, answered)
BY CallChanges DEF PortsInv, Calls

LEMMA CallFacts ==
    ASSUME PortsAssumption, PortsInv, NEW c \in Calls
    PROVE  /\ c \in NameType(runs) /\ c.tries # <<>> /\ runs \in Seq(Chain)
           /\ port(c) = portOf(c, runs) /\ port(c) \in Chain /\ port(c) \in Nat \ {0}
           /\ GoodName(c, runs, Calls, DOMAIN arrays, answered)
           /\ GoodState(c, calls[c], runs, DOMAIN arrays, answered)
           /\ calls[c] \in CallType /\ getPortFlow(c) \in DOMAIN arrays
<1>1. /\ GoodName(c, runs, Calls, DOMAIN arrays, answered)
      /\ GoodState(c, calls[c], runs, DOMAIN arrays, answered)
      /\ runs \in Seq(Chain)
  BY DEF PortsInv, CallsIn, Calls, RunsOK
<1>2. port(c) = portOf(c, runs)
  BY DEF port, portOf
<1>3. port(c) \in Chain
  BY <1>1, <1>2 DEF GoodName
<1>4. port(c) \in Nat \ {0}
  BY <1>3 DEF Chain, PortsAssumption
<1> QED BY <1>1, <1>2, <1>3, <1>4 DEF GoodName, GoodState

(* A step that leaves undo and the arrays alone.                           *)
LEMMA OnlyCalls ==
    ASSUME PortsInv, CallsIn(calls', runs, DOMAIN arrays, answered),
           UNCHANGED <<runs, arrays, answered, undo, undone>>,
           document' \in [flow : Seq(Nat), compensate : BOOLEAN], FlowOK(document'.flow, answered)
    PROVE  PortsInv'
<1>1. UndoOK'
  BY DEF PortsInv, UndoOK
<1> QED BY <1>1 DEF PortsInv

LEMMA PortHandlerHolds ==
    ASSUME PortsAssumption, PortsInv, NEW c \in Calls, portHandler(c) PROVE PortsInv'
<1> DEFINE v == [calls[c] EXCEPT !.wrote = TRUE]
<1>1. /\ calls' = [calls EXCEPT ![c] = v]
      /\ document' = [flow |-> arrays[getPortFlow(c)], compensate |-> FALSE]
      /\ UNCHANGED <<runs, arrays, answered, undo, undone>>
  BY DEF portHandler, workflowHistory
<1>2. v \in CallType /\ v.timer = calls[c].timer /\ v.pc = calls[c].pc
  BY CallFacts DEF CallType
<1> HIDE DEF v
<1>3. GoodState(c, v, runs, DOMAIN arrays, answered)
  BY <1>2, CallFacts DEF GoodState
<1>4. FlowOK(arrays[getPortFlow(c)], answered)
  BY NewFlowOK
<1>5. /\ document' \in [flow : Seq(Nat), compensate : BOOLEAN] /\ FlowOK(document'.flow, answered)
  BY <1>1, <1>4 DEF FlowOK
<1>6. CallsIn(calls', runs, DOMAIN arrays, answered)
  BY <1>1, <1>3, StateSet
<1> QED BY <1>1, <1>5, <1>6, OnlyCalls

LEMMA AdapterReturnsHolds ==
    ASSUME PortsAssumption, PortsInv, NEW c \in Calls, AdapterReturns(c) PROVE PortsInv'
<1> DEFINE v == [pc |-> "saving", timer |-> FALSE, wrote |-> FALSE]
           p == port(c)
           s == newFlow(c)
<1>1. /\ calls' = [calls EXCEPT ![c] = v] /\ arrays' = With(arrays, c, s)
      /\ answered' = answered \cup {p} /\ UNCHANGED <<runs, document, undo, undone>>
  BY DEF AdapterReturns, Ends
<1>2. FlowOK(s, answered') /\ \A i \in 1..Len(s) : s[i] <= portOf(c, runs)
  BY <1>1, CallFacts, NewFlowOK
<1> HIDE DEF s
<1>3. FlowsIn(arrays', runs, answered') /\ DOMAIN arrays' = DOMAIN arrays \cup {c}
  <2>1. c \in NameType(runs) /\ FlowsIn(arrays, runs, answered) /\ answered \subseteq answered'
    BY <1>1, CallFacts DEF PortsInv
  <2>2. FlowsIn(With(arrays, c, s), runs, answered')
    BY <1>2, <2>1, FlowsSet
  <2>3. DOMAIN With(arrays, c, s) = DOMAIN arrays \cup {c}
    BY DEF With
  <2> QED BY <1>1, <2>2, <2>3
<1>4. CallsIn(calls', runs, DOMAIN arrays', answered')
  <2>1. CallsIn(calls, runs, DOMAIN arrays', answered')
    BY <1>1, <1>3, CallsKept DEF PortsInv
  <2>2. GoodState(c, v, runs, DOMAIN arrays', answered')
    BY <1>1, <1>3, CallFacts DEF GoodState, CallType
  <2> HIDE DEF v
  <2>3. c \in DOMAIN calls
    BY DEF Calls
  <2>4. CallsIn([calls EXCEPT ![c] = v], runs, DOMAIN arrays', answered')
    BY <2>1, <2>2, <2>3, CallChanges
  <2> QED BY <1>1, <2>4
<1>5. answered' \subseteq Chain /\ \A q \in answered' : 1..q \subseteq answered'
  <2>1. p \in Chain /\ p \in Nat /\ 1..p-1 \subseteq answered
    BY CallFacts DEF GoodName
  <2>2. 1..p \subseteq answered'
    BY <1>1, <2>1
  <2> QED BY <1>1, <2>1, <2>2 DEF PortsInv
<1>6. UndoOK'
  BY <1>1, <1>3, UndoKept DEF PortsInv
<1>7. FlowOK(document.flow, answered')
  BY <1>1, FlowKept DEF PortsInv
<1> QED BY <1>1, <1>3, <1>4, <1>5, <1>6, <1>7 DEF PortsInv

LEMMA CallFails ==
    ASSUME PortsAssumption, PortsInv, NEW c \in Calls, NEW b \in BOOLEAN, Ends(c, "failed", b),
           UNCHANGED <<runs, arrays, document, answered, undo, undone>>
    PROVE  PortsInv'
<1> DEFINE v == [pc |-> "failed", timer |-> b, wrote |-> FALSE]
<1>1. calls' = [calls EXCEPT ![c] = v]
  BY DEF Ends
<1>2. GoodState(c, v, runs, DOMAIN arrays, answered)
  BY DEF GoodState, CallType
<1> HIDE DEF v
<1>3. CallsIn(calls', runs, DOMAIN arrays, answered)
  BY <1>1, <1>2, StateSet
<1> QED BY <1>3, OnlyCalls DEF PortsInv

LEMMA SaveEndsHolds ==
    ASSUME PortsAssumption, PortsInv, NEW c \in Calls, SaveEnds(c) PROVE PortsInv'
<1> DEFINE v == [calls[c] EXCEPT !.pc = "done"]
           ended == [calls EXCEPT ![c] = v]
           next == Name(c.run, Append(c.tries, 1))
           p == port(c)
<1>1. /\ calls[c].pc = "saving" /\ document' = [flow |-> arrays[c], compensate |-> FALSE]
      /\ calls' = IF p = LastPort THEN ended ELSE portFn(ended, next, p + 1)
      /\ UNCHANGED <<runs, arrays, answered, undo, undone>>
  BY DEF SaveEnds, workflowHistory
<1>2. c \in DOMAIN arrays /\ p \in answered /\ ~calls[c].timer
  BY <1>1, CallFacts DEF GoodState
<1>3. GoodState(c, v, runs, DOMAIN arrays, answered)
  <2>1. v \in CallType /\ v.timer = calls[c].timer /\ v.pc = "done"
    BY CallFacts DEF CallType
  <2> QED BY <1>2, <2>1, CallFacts DEF GoodState
<1> HIDE DEF v
<1>4. CallsIn(ended, runs, DOMAIN arrays, answered)
  BY <1>3, StateSet
<1>5. DOMAIN ended = Calls
  BY DEF Calls
<1>6. document' \in [flow : Seq(Nat), compensate : BOOLEAN] /\ FlowOK(document'.flow, answered)
  BY <1>1, <1>2 DEF PortsInv, FlowsIn, FlowOK
<1>7. ASSUME p # LastPort PROVE CallsIn(portFn(ended, next, p + 1), runs, DOMAIN arrays, answered)
  <2>1. /\ next \in NameType(runs) /\ next.run = c.run /\ next.tries # <<>>
        /\ try(next) = 1 /\ cause(next) = c /\ portOf(next, runs) = p + 1
    BY CallFacts, LongerName
  <2>2. p + 1 \in Chain /\ (p + 1) - 1 = p
    BY <1>7, CallFacts DEF Chain, PortsAssumption
  <2>3. 1 \in 1..maxRetry[p + 1]
    BY <2>2 DEF PortsAssumption
  <2>4. getPortFlow(next) \in DOMAIN arrays
    <3>1. Name(c.run, <<>>) \in DOMAIN arrays
      BY CallFacts DEF PortsInv, FlowsIn, NameType
    <3> QED BY <1>2, <2>1, <3>1 DEF getPortFlow
  <2>5. 1..p \subseteq answered
    BY <1>2 DEF PortsInv
  <2> HIDE DEF next, p, ended
  <2>6. GoodName(next, runs, DOMAIN ended \cup {next}, DOMAIN arrays, answered)
    BY <1>5, <2>1, <2>2, <2>3, <2>4, <2>5 DEF GoodName
  <2>7. CallsIn(portFn(ended, next, portOf(next, runs)), runs, DOMAIN arrays, answered)
    BY <1>4, <2>6, PortCalled
  <2> QED BY <2>1, <2>7
<1>8. CallsIn(calls', runs, DOMAIN arrays, answered)
  BY <1>1, <1>4, <1>7
<1> QED BY <1>1, <1>6, <1>8, OnlyCalls

LEMMA TimerFiresHolds ==
    ASSUME PortsAssumption, PortsInv, NEW c \in Calls, TimerFires(c) PROVE PortsInv'
<1> DEFINE v == [calls[c] EXCEPT !.timer = FALSE]
           off1 == [calls EXCEPT ![c] = v]
           again == getRetries(c)
           p == port(c)
<1>1. /\ calls' = portFn(off1, again, p)
      /\ UNCHANGED <<runs, arrays, document, answered, undo, undone>>
  BY DEF TimerFires
<1>2. GoodState(c, v, runs, DOMAIN arrays, answered)
  <2>1. v \in CallType /\ ~v.timer /\ v.pc = calls[c].pc
    BY CallFacts DEF CallType
  <2> QED BY <2>1, CallFacts DEF GoodState
<1> HIDE DEF v
<1>3. CallsIn(off1, runs, DOMAIN arrays, answered)
  BY <1>2, StateSet
<1>4. DOMAIN off1 = Calls /\ c \in Calls
  BY DEF Calls
<1>5. /\ cause(c) \in NameType(runs) /\ cause(c).run = c.run /\ try(c) \in Nat
      /\ portOf(cause(c), runs) = p - 1 /\ Len(cause(c).tries) = Len(c.tries) - 1
      /\ Len(c.tries) \in Nat \ {0} /\ p \in Nat
  BY CallFacts, ShorterName
<1>6. /\ again \in NameType(runs) /\ again.run = c.run /\ again.tries # <<>>
      /\ Len(again.tries) = Len(c.tries) /\ try(again) = try(c) + 1
      /\ cause(again) = cause(c) /\ portOf(again, runs) = p
  <2> DEFINE d == cause(c)
             n == try(c) + 1
             m == Name(d.run, Append(d.tries, n))
  <2>1. again = m
    BY <1>5 DEF getRetries
  <2>2. n \in Nat /\ runs \in Seq(Chain) /\ d \in NameType(runs)
    BY <1>5, CallFacts
  <2> HIDE DEF d, n
  <2>3. /\ m \in NameType(runs) /\ m.run = d.run /\ m.tries # <<>>
        /\ Len(m.tries) = Len(d.tries) + 1
        /\ try(m) = n /\ cause(m) = d /\ portOf(m, runs) = portOf(d, runs) + 1
    BY <2>2, LongerName
  <2> HIDE DEF m, again
  <2>4. Len(d.tries) + 1 = Len(c.tries) /\ portOf(d, runs) + 1 = p /\ d.run = c.run
    BY <1>5 DEF d
  <2> QED BY <2>1, <2>3, <2>4 DEF d, n
<1> HIDE DEF again, off1, p
<1>7. ~expired(again, p) => GoodName(again, runs, DOMAIN off1 \cup {again}, DOMAIN arrays, answered)
  <2> SUFFICES ASSUME ~expired(again, p)
               PROVE  GoodName(again, runs, DOMAIN off1 \cup {again}, DOMAIN arrays, answered)
    OBVIOUS
  <2>1. p \in Chain /\ p = portOf(c, runs)
    BY CallFacts DEF p
  <2>2. try(again) \in 1..maxRetry[p]
    BY <1>5, <1>6, <2>1 DEF expired, PortsAssumption
  <2>3. /\ Len(c.tries) > 1 => cause(c) \in Calls
        /\ getPortFlow(c) \in DOMAIN arrays /\ 1..p-1 \subseteq answered
    BY <2>1, CallFacts DEF GoodName
  <2>4. getPortFlow(again) = getPortFlow(c)
    BY <1>6 DEF getPortFlow
  <2> QED BY <1>4, <1>6, <2>1, <2>2, <2>3, <2>4 DEF GoodName
<1>8. CallsIn(calls', runs, DOMAIN arrays, answered)
  <2>1. CallsIn(portFn(off1, again, portOf(again, runs)), runs, DOMAIN arrays, answered)
    BY <1>3, <1>6, <1>7, PortCalled
  <2> QED BY <1>1, <1>6, <2>1
<1> QED BY <1>1, <1>8, OnlyCalls DEF PortsInv

-----------------------------------------------------------------------------
(* Ports: compensation                                                     *)

(* What is cut off the front of a recorded flow is a recorded flow, and so *)
(* is what is left.                                                        *)
LEMMA CutFlows ==
    ASSUME NEW s, NEW ans, FlowOK(s, ans), NEW k \in 0..Len(s)
    PROVE  /\ FlowOK(SubSeq(s, 1, k), ans) /\ FlowOK(SubSeq(s, k + 1, Len(s)), ans)
           /\ \A i \in 1..Len(SubSeq(s, k + 1, Len(s))) :
                 \E j \in 1..Len(s) : SubSeq(s, k + 1, Len(s))[i] = s[j]
<1> DEFINE n == Len(s)
           f == SubSeq(s, 1, k)
           b == SubSeq(s, k + 1, n)
<1>1. /\ s \in Seq(Nat) /\ n \in Nat /\ k \in Nat /\ k <= n
      /\ \A i \in 1..n : s[i] \in Nat /\ s[i] \in ans /\ i <= s[i]
      /\ \A i, j \in 1..n : i < j => s[i] < s[j]
  BY LenProperties, ElementOfSeq DEF FlowOK
<1>2. \A i \in 1..k : i \in 1..n
  BY <1>1
<1>3. \A i \in (k + 1)..n : i \in 1..n
  BY <1>1
<1>4. /\ f \in Seq(Nat) /\ \A i \in 1..k : f[i] = s[i]
      /\ Len(f) = IF 1 <= k THEN k - 1 + 1 ELSE 0
  BY <1>1, <1>2, SubSeqProperties
<1>5. /\ b \in Seq(Nat) /\ Len(b) = IF k + 1 <= n THEN n - (k + 1) + 1 ELSE 0
      /\ \A i \in 1..(n - (k + 1) + 1) : b[i] = s[(k + 1) + i - 1]
  BY <1>1, <1>3, SubSeqProperties
<1> HIDE DEF n, f, b
<1>6. Len(f) = k /\ Len(b) = n - k
  BY <1>1, <1>4, <1>5
<1>7. ASSUME NEW i \in 1..(n - k) PROVE i + k \in 1..n /\ b[i] = s[i + k]
  <2>1. i \in 1..(n - (k + 1) + 1) /\ (k + 1) + i - 1 = i + k /\ i + k \in 1..n
    BY <1>1
  <2> QED BY <1>5, <2>1
<1>8. FlowOK(f, ans)
  BY <1>1, <1>2, <1>4, <1>6 DEF FlowOK
<1>9. ASSUME NEW i \in 1..(n - k) PROVE b[i] \in ans /\ i <= b[i]
  <2>1. i + k <= s[i + k] /\ s[i + k] \in Nat /\ s[i + k] \in ans
    BY <1>1, <1>7
  <2> QED BY <1>1, <1>7, <2>1
<1>10. ASSUME NEW i \in 1..(n - k), NEW j \in 1..(n - k), i < j PROVE b[i] < b[j]
  <2>1. i + k < j + k
    BY <1>1, <1>10
  <2> QED BY <1>1, <1>7, <2>1
<1>11. FlowOK(b, ans)
  BY <1>5, <1>6, <1>9, <1>10 DEF FlowOK
<1> QED BY <1>6, <1>7, <1>8, <1>11 DEF f, b, n

LEMMA UndoBeginsHolds ==
    ASSUME PortsAssumption, PortsInv, NEW c \in Calls, UndoBegins(c) PROVE PortsInv'
<1> DEFINE arr == IF calls[c].pc = "done" THEN c ELSE getPortFlow(c)
           s == arrays[arr]
<1>1. PICK saved \in BOOLEAN :
         /\ undo.pc = "idle"
         /\ undo' = [pc |-> IF saved THEN "undoing" ELSE "failed", arr |-> arr,
                     ports |-> s, index |-> Len(s), flow |-> s]
         /\ document' = IF saved THEN [flow |-> s, compensate |-> TRUE] ELSE document
         /\ UNCHANGED <<runs, calls, arrays, answered, undone>>
  BY DEF UndoBegins, workflowHistory, reduceRight
<1>2. arr \in DOMAIN arrays
  BY CallFacts DEF GoodState
<1> HIDE DEF arr
<1>3. FlowOK(s, answered) /\ s \in Seq(Nat) /\ Len(s) \in Nat
  BY <1>2, LenProperties DEF PortsInv, FlowsIn, FlowOK
<1>4. undone = <<>>
  BY <1>1 DEF PortsInv, UndoOK
<1> HIDE DEF s
<1>5. ToSet(<<>>) = {}
  BY DEF ToSet
<1>6. UndoOK'
  <2>1. undo' \in [pc : {"idle", "undoing", "failed", "complete", "incomplete", "lost"},
                   arr : DOMAIN arrays, ports : Seq(Nat), index : Nat, flow : Seq(Nat)]
    BY <1>1, <1>2, <1>3
  <2>2. /\ undo'.ports = s /\ undo'.index = Len(s) /\ undo'.flow = s /\ undo'.pc # "idle"
        /\ undone' = <<>>
    BY <1>1, <1>4
  <2>3. /\ undone' \in Seq(Nat)
        /\ \A i, j \in 1..Len(undone') : i < j => undone'[i] > undone'[j]
    BY <2>2, EmptySeq
  <2> QED BY <1>1, <1>3, <1>5, <2>1, <2>2, <2>3 DEF UndoOK
<1>7. document' \in [flow : Seq(Nat), compensate : BOOLEAN] /\ FlowOK(document'.flow, answered)
  BY <1>1, <1>3 DEF PortsInv
<1> QED BY <1>1, <1>6, <1>7 DEF PortsInv

(* The chain passes a port: those passed are one more.                     *)
LEMMA PassedGrow ==
    ASSUME NEW s \in Seq(Nat), NEW k \in 1..Len(s)
    PROVE  /\ k \in Nat /\ k - 1 \in Nat /\ k - 1 <= Len(s)
           /\ {s[i] : i \in ((k - 1) + 1)..Len(s)} = {s[i] : i \in (k + 1)..Len(s)} \cup {s[k]}
<1>1. Len(s) \in Nat
  BY LenProperties
<1>2. ((k - 1) + 1)..Len(s) = (k + 1)..Len(s) \cup {k}
  BY <1>1
<1> QED BY <1>1, <1>2

LEMMA UndoPassesHolds ==
    ASSUME PortsInv, UndoPasses PROVE PortsInv'
<1> DEFINE k == undo.index
           s == undo.ports
<1>1. /\ undo.pc = "undoing" /\ k > 0 /\ s[k] \in Chain \ Undoable
      /\ undo' = [undo EXCEPT !.index = k - 1]
      /\ UNCHANGED <<runs, calls, arrays, document, answered, undone>>
  BY DEF UndoPasses, UndoOf, workflowHistory
<1>2. s \in Seq(Nat) /\ k \in Nat /\ k <= Len(s)
  BY DEF PortsInv, UndoOK
<1>3. k \in 1..Len(s)
  BY <1>1, <1>2, LenProperties
<1>4. /\ k - 1 \in Nat /\ k - 1 <= Len(s)
      /\ {s[i] : i \in ((k - 1) + 1)..Len(s)} = {s[i] : i \in (k + 1)..Len(s)} \cup {s[k]}
  BY <1>2, <1>3, PassedGrow
<1>5. /\ undo' \in [pc : {"idle", "undoing", "failed", "complete", "incomplete", "lost"},
                    arr : DOMAIN arrays, ports : Seq(Nat), index : Nat, flow : Seq(Nat)]
      /\ undo'.ports = s /\ undo'.index = k - 1 /\ undo'.flow = undo.flow /\ undo'.pc = "undoing"
  BY <1>1, <1>4 DEF PortsInv, UndoOK
<1>6. ToSet(undone) \subseteq {s[i] : i \in ((k - 1) + 1)..Len(s)}
  <2>1. ToSet(undone) \subseteq {s[i] : i \in (k + 1)..Len(s)}
    BY <1>1 DEF PortsInv, UndoOK
  <2> QED BY <1>1, <1>4, <2>1
<1> HIDE DEF k, s
<1>7. UndoOK'
  BY <1>1, <1>4, <1>5, <1>6 DEF PortsInv, UndoOK, s
<1> QED BY <1>1, <1>7 DEF PortsInv

LEMMA UndoReturnsHolds ==
    ASSUME PortsInv, NEW ran \in BOOLEAN, NEW saved \in BOOLEAN, UndoReturns(ran, saved)
    PROVE  PortsInv'
<1> DEFINE k == undo.index
           s == undo.ports
           arr == arrays[undo.arr]
           cut == IF k < Len(arr) THEN k ELSE Len(arr)
           f == SubSeq(arr, 1, cut)
           b == SubSeq(arr, cut + 1, Len(arr))
<1>1. /\ undo.pc = "undoing" /\ k > 0 /\ s[k] \in Undoable
      /\ arrays' = [arrays EXCEPT ![undo.arr] = b]
      /\ undo' = [undo EXCEPT !.index = k - 1, !.flow = f,
                             !.pc = IF saved THEN undo.pc ELSE "failed"]
      /\ document' = IF saved THEN [flow |-> f, compensate |-> TRUE] ELSE document
      /\ undone' = IF ran THEN Append(undone, s[k]) ELSE undone
      /\ UNCHANGED <<runs, calls, answered>>
  BY DEF UndoReturns, UndoOf
<1>2. /\ s \in Seq(Nat) /\ k \in Nat /\ k <= Len(s) /\ undo.arr \in DOMAIN arrays
      /\ FlowOK(s, answered) /\ undone \in Seq(Nat)
  BY DEF PortsInv, UndoOK
<1>3. k \in 1..Len(s) /\ Len(s) \in Nat
  BY <1>1, <1>2, LenProperties
<1>4. /\ k - 1 \in Nat /\ k - 1 <= Len(s)
      /\ {s[i] : i \in ((k - 1) + 1)..Len(s)} = {s[i] : i \in (k + 1)..Len(s)} \cup {s[k]}
  BY <1>2, <1>3, PassedGrow
<1>5. /\ FlowOK(arr, answered) /\ undo.arr \in NameType(runs)
      /\ \A i \in 1..Len(arr) : arr[i] <= portOf(undo.arr, runs)
  BY <1>2 DEF PortsInv, FlowsIn
<1>6. cut \in 0..Len(arr)
  BY <1>2, <1>5, LenProperties DEF FlowOK
<1> HIDE DEF cut, arr
<1>7. /\ FlowOK(f, answered) /\ FlowOK(b, answered)
      /\ \A i \in 1..Len(b) : b[i] <= portOf(undo.arr, runs)
  BY <1>5, <1>6, CutFlows
<1> HIDE DEF f, b
<1>8. DOMAIN arrays' = DOMAIN arrays
  BY <1>1
<1>9. FlowsIn(arrays', runs, answered)
  BY <1>1, <1>2, <1>5, <1>7 DEF PortsInv, FlowsIn
<1>10. /\ undo' \in [pc : {"idle", "undoing", "failed", "complete", "incomplete", "lost"},
                     arr : DOMAIN arrays, ports : Seq(Nat), index : Nat, flow : Seq(Nat)]
       /\ undo'.ports = s /\ undo'.index = k - 1 /\ undo'.flow = f /\ undo'.pc # "idle"
  BY <1>1, <1>4, <1>7 DEF PortsInv, UndoOK, FlowOK
<1>11. s[k] \in Nat
  BY <1>2, <1>3, ElementOfSeq
<1>12. ToSet(undone) \subseteq {s[i] : i \in (k + 1)..Len(s)}
  BY <1>1 DEF PortsInv, UndoOK
<1>13. /\ undone' \in Seq(Nat)
       /\ ToSet(undone') \subseteq {s[i] : i \in ((k - 1) + 1)..Len(s)}
       /\ \A i, j \in 1..Len(undone') : i < j => undone'[i] > undone'[j]
  <2>1. CASE ~ran
    BY <1>1, <1>2, <1>4, <1>12, <2>1 DEF PortsInv, UndoOK
  <2>2. CASE ran
    <3>1. /\ undone' \in Seq(Nat) /\ Len(undone') = Len(undone) + 1 /\ Len(undone) \in Nat
          /\ undone'[Len(undone) + 1] = s[k]
          /\ \A i \in 1..Len(undone) : undone'[i] = undone[i]
      BY <1>1, <1>2, <1>11, <2>2, AppendProperties, LenProperties
    <3>2. ToSet(undone') = ToSet(undone) \cup {s[k]}
      BY <1>1, <1>2, <1>11, <2>2, PushFacts
    <3>3. ASSUME NEW i \in 1..Len(undone') , NEW j \in 1..Len(undone'), i < j
          PROVE  undone'[i] > undone'[j]
      <4>1. i \in 1..Len(undone) /\ undone'[i] = undone[i]
        BY <3>1, <3>3
      <4>2. CASE j = Len(undone) + 1
        <5>1. undone[i] \in ToSet(undone)
          BY <1>2, <4>1, LenProperties DEF ToSet
        <5>2. PICK m \in (k + 1)..Len(s) : undone[i] = s[m]
          BY <1>12, <5>1
        <5>3. m \in 1..Len(s) /\ k < m
          BY <1>3, <5>2
        <5>4. s[k] < s[m] /\ s[m] \in Nat
          BY <1>2, <1>3, <5>3, ElementOfSeq DEF FlowOK
        <5> QED BY <1>11, <3>1, <4>1, <4>2, <5>2, <5>4
      <4>3. CASE j # Len(undone) + 1
        <5>1. j \in 1..Len(undone) /\ undone'[j] = undone[j]
          BY <3>1, <4>3
        <5> QED BY <3>3, <4>1, <5>1 DEF PortsInv, UndoOK
      <4> QED BY <4>2, <4>3
    <3> QED BY <1>4, <1>12, <3>1, <3>2, <3>3
  <2> QED BY <2>1, <2>2
<1> HIDE DEF k, s
<1>14. UndoOK'
  <2>1. FlowOK(undo'.ports, answered) /\ FlowOK(undo'.flow, answered)
    BY <1>2, <1>7, <1>10
  <2>2. ToSet(undone') \subseteq {undo'.ports[i] : i \in (undo'.index + 1)..Len(undo'.ports)}
    BY <1>10, <1>13
  <2>3. undo'.index <= Len(undo'.ports)
    BY <1>4, <1>10
  <2>4. undo' \in [pc : {"idle", "undoing", "failed", "complete", "incomplete", "lost"},
                   arr : DOMAIN arrays', ports : Seq(Nat), index : Nat, flow : Seq(Nat)]
    BY <1>8, <1>10
  <2> QED BY <1>1, <1>10, <1>13, <2>1, <2>2, <2>3, <2>4 DEF UndoOK
<1>15. document' \in [flow : Seq(Nat), compensate : BOOLEAN] /\ FlowOK(document'.flow, answered)
  BY <1>1, <1>7 DEF FlowOK, PortsInv
<1> QED BY <1>1, <1>8, <1>9, <1>14, <1>15 DEF PortsInv

(* The chain ends, with its report or with the process: nothing more is    *)
(* undone.                                                                 *)
LEMMA UndoEnds ==
    ASSUME UndoOK, NEW p \in {"complete", "incomplete", "lost"}, undo.pc = "undoing",
           undo' = [undo EXCEPT !.pc = p], UNCHANGED <<undone>>,
           DOMAIN arrays \subseteq DOMAIN arrays', answered \subseteq answered'
    PROVE  UndoOK'
<1>1. /\ undo' \in [pc : {"idle", "undoing", "failed", "complete", "incomplete", "lost"},
                    arr : DOMAIN arrays', ports : Seq(Nat), index : Nat, flow : Seq(Nat)]
      /\ undo'.pc = p /\ undo'.ports = undo.ports /\ undo'.flow = undo.flow
      /\ undo'.index = undo.index
  BY DEF UndoOK
<1>2. FlowOK(undo.ports, answered') /\ FlowOK(undo.flow, answered')
  BY FlowKept DEF UndoOK
<1> QED BY <1>1, <1>2 DEF UndoOK

LEMMA PortsStep ==
    ASSUME PortsAssumption, PortsInv, [WorkflowNext]_workflowVars PROVE PortsInv'
<1>1. ASSUME NEW c \in Calls, SaveEnds(c) \/ TimerFires(c) \/ portHandler(c) \/ AdapterReturns(c)
      PROVE  PortsInv'
  BY <1>1, SaveEndsHolds, TimerFiresHolds, PortHandlerHolds, AdapterReturnsHolds
<1>2. ASSUME NEW c \in Calls, SaveFails(c) PROVE PortsInv'
  <2>1. Ends(c, "failed", FALSE) /\ UNCHANGED <<runs, arrays, document, answered, undo, undone>>
    BY <1>2 DEF SaveFails
  <2> QED BY <2>1, CallFails
<1>3. ASSUME NEW c \in Calls, AdapterThrows(c) PROVE PortsInv'
  <2>1. /\ Ends(c, "failed", calls[c].timer)
        /\ UNCHANGED <<runs, arrays, document, answered, undo, undone>>
    BY <1>3 DEF AdapterThrows, workflowHistory
  <2>2. calls[c].timer \in BOOLEAN
    BY CallFacts DEF CallType
  <2> QED BY <2>1, <2>2, CallFails
<1>4. ASSUME NEW c \in Calls, UndoBegins(c) PROVE PortsInv'
  BY <1>4, UndoBeginsHolds
<1>5. CASE UndoPasses
  BY <1>5, UndoPassesHolds
<1>6. CASE UndoWorks \/ UndoFails
  BY <1>6, UndoReturnsHolds DEF UndoWorks, UndoFails
<1>7. CASE UndoRefused
  BY <1>7, UndoReturnsHolds DEF UndoRefused
<1>8. CASE reportStatus
  <2> DEFINE p == IF undo.flow = <<>> THEN "complete" ELSE "incomplete"
  <2>1. /\ undo.pc = "undoing" /\ undo.index = 0 /\ undo' = [undo EXCEPT !.pc = p]
        /\ document' \in {document, [flow |-> undo.flow, compensate |-> TRUE]}
        /\ UNCHANGED <<runs, calls, arrays, answered, undone>>
    BY <1>8 DEF reportStatus, workflowHistory
  <2>2. p \in {"complete", "incomplete", "lost"}
    OBVIOUS
  <2> HIDE DEF p
  <2>3. UndoOK'
    BY <2>1, <2>2, UndoEnds DEF PortsInv
  <2>4. document' \in [flow : Seq(Nat), compensate : BOOLEAN] /\ FlowOK(document'.flow, answered)
    <3>1. FlowOK(undo.flow, answered) /\ undo.flow \in Seq(Nat)
      BY DEF PortsInv, UndoOK
    <3>2. document' = document \/ document' = [flow |-> undo.flow, compensate |-> TRUE]
      BY <2>1
    <3>3. CASE document' = document
      BY <3>3 DEF PortsInv
    <3>4. CASE document' = [flow |-> undo.flow, compensate |-> TRUE]
      BY <3>1, <3>4
    <3> QED BY <3>2, <3>3, <3>4
  <2> QED BY <2>1, <2>3, <2>4 DEF PortsInv
<1>9. CASE WorkerLoads
  <2>1. startWorkflow(calls) /\ UNCHANGED <<document, undo, answered, undone>>
    BY <1>9 DEF WorkerLoads, workflowHistory
  <2>2. /\ RunsOK(runs') /\ FlowsIn(arrays', runs', answered)
        /\ CallsIn(calls', runs', DOMAIN arrays', answered)
        /\ DOMAIN arrays \subseteq DOMAIN arrays'
    BY <2>1, RunStarts DEF PortsInv
  <2>3. UndoOK'
    BY <2>1, <2>2, UndoKept DEF PortsInv
  <2> QED BY <2>1, <2>2, <2>3 DEF PortsInv
<1>10. CASE WorkerDies
  <2> DEFINE v == [pc |-> "lost", timer |-> FALSE, wrote |-> FALSE]
             cs == [c \in Calls |-> v]
  <2>1. /\ startWorkflow(cs) /\ UNCHANGED <<document, answered, undone>>
        /\ undo' = [undo EXCEPT !.pc = IF undo.pc = "undoing" THEN "lost" ELSE undo.pc]
    BY <1>10 DEF WorkerDies
  <2>2. CallsIn(cs, runs, DOMAIN arrays, answered)
    <3>1. ASSUME NEW c \in Calls
          PROVE  /\ GoodName(c, runs, Calls, DOMAIN arrays, answered)
                 /\ GoodState(c, v, runs, DOMAIN arrays, answered)
      BY CallFacts DEF GoodState, CallType
    <3>2. DOMAIN cs = Calls /\ \A c \in Calls : cs[c] = v
      OBVIOUS
    <3> HIDE DEF cs, v
    <3> QED BY <3>1, <3>2 DEF CallsIn
  <2> HIDE DEF cs
  <2>3. /\ RunsOK(runs') /\ FlowsIn(arrays', runs', answered)
        /\ CallsIn(calls', runs', DOMAIN arrays', answered)
        /\ DOMAIN arrays \subseteq DOMAIN arrays'
    BY <2>1, <2>2, RunStarts
  <2>4. UndoOK'
    <3>1. CASE undo.pc = "undoing"
      <4>1. undo' = [undo EXCEPT !.pc = "lost"]
        BY <2>1, <3>1
      <4> QED BY <2>1, <2>3, <3>1, <4>1, UndoEnds DEF PortsInv
    <3>2. CASE undo.pc # "undoing"
      <4>1. undo' = undo
        BY <2>1, <3>2 DEF PortsInv, UndoOK
      <4> QED BY <2>1, <2>3, <4>1, UndoKept DEF PortsInv
    <3> QED BY <3>1, <3>2
  <2> QED BY <2>1, <2>3, <2>4 DEF PortsInv
<1>11. CASE UNCHANGED workflowVars
  BY <1>11 DEF workflowVars, workflowHistory, PortsInv, UndoOK
<1> QED BY <1>1, <1>2, <1>3, <1>4, <1>5, <1>6, <1>7, <1>8, <1>9, <1>10, <1>11
        DEF WorkflowNext, SomeSaveSettles, SomeTimerFires

LEMMA PortsBegin ==
    ASSUME PortsAssumption, WorkflowInit PROVE PortsInv
<1> DEFINE root == Name(1, <<>>)
           c1 == Name(1, <<1>>)
           v == [pc |-> "adapter", timer |-> TRUE, wrote |-> FALSE]
<1>1. /\ runs = <<1>> /\ arrays = [a \in {root} |-> <<>>] /\ calls = [c \in {c1} |-> v]
      /\ document = [flow |-> <<>>, compensate |-> FALSE]
      /\ undo = [pc |-> "idle", arr |-> root, ports |-> <<>>, index |-> 0, flow |-> <<>>]
      /\ answered = {} /\ undone = <<>>
  BY DEF WorkflowInit
<1>2. 1 \in Chain /\ 1 \in 1..maxRetry[1]
  BY DEF Chain, PortsAssumption
<1>3. RunsOK(runs) /\ Len(runs) = 1
  BY <1>1, <1>2 DEF RunsOK
<1>4. <<>> \in Seq(Nat) /\ Len(<<>>) = 0 /\ FlowOK(<<>>, answered) /\ ToSet(<<>>) = {}
  BY EmptySeq DEF FlowOK, ToSet
<1>5. /\ root.run = 1 /\ root.tries = <<>> /\ c1.run = 1 /\ c1.tries = <<1>>
      /\ Len(c1.tries) = 1 /\ c1.tries # <<>>
      /\ root \in NameType(runs) /\ c1 \in NameType(runs)
  BY <1>3, EmptySeq DEF Name, NameType
<1> HIDE DEF root, c1
<1>6. portOf(c1, runs) = 1 /\ try(c1) = 1
  <2>1. runs[1] = 1 /\ c1.tries[1] = 1
    BY <1>1, <1>5
  <2> QED BY <1>5, <2>1 DEF portOf, try
<1>7. getPortFlow(c1) = root
  <2>1. getPortFlow(c1) = cause(c1)
    BY <1>5 DEF getPortFlow
  <2>5. runs \in Seq(Chain)
    BY <1>3 DEF RunsOK
  <2>6. /\ cause(c1).run = c1.run /\ Len(cause(c1).tries) = Len(c1.tries) - 1
        /\ cause(c1) \in NameType(runs)
    BY <1>5, <2>5, ShorterName
  <2>2. cause(c1).run = 1 /\ Len(cause(c1).tries) = 0 /\ cause(c1) \in NameType(runs)
    BY <1>5, <2>6
  <2>3. cause(c1).tries = <<>>
    BY <2>2, EmptySeq DEF NameType
  <2>4. cause(c1) = [run |-> cause(c1).run, tries |-> cause(c1).tries]
    BY <2>2 DEF NameType
  <2> QED BY <2>1, <2>2, <2>3, <2>4 DEF Name, root
<1>8. /\ DOMAIN arrays = {root} /\ arrays[root] = <<>> /\ DOMAIN calls = {c1} /\ calls[c1] = v
  BY <1>1
<1>9. CallsIn(calls, runs, DOMAIN arrays, answered)
  <2>1. GoodState(c1, v, runs, DOMAIN arrays, answered)
    BY DEF GoodState, CallType
  <2>2. GoodName(c1, runs, DOMAIN calls, DOMAIN arrays, answered)
    <3>1. 1..(1 - 1) = {}
      OBVIOUS
    <3> QED BY <1>2, <1>5, <1>6, <1>7, <1>8, <3>1 DEF GoodName
  <2> HIDE DEF v
  <2> QED BY <1>8, <2>1, <2>2 DEF CallsIn
<1>10. FlowsIn(arrays, runs, answered)
  <2>1. \A r \in 1..Len(runs) : Name(r, <<>>) = root
    BY <1>3 DEF root
  <2> QED BY <1>4, <1>5, <1>8, <2>1 DEF FlowsIn
<1>11. UndoOK
  BY <1>1, <1>4, <1>8 DEF UndoOK
<1>12. document \in [flow : Seq(Nat), compensate : BOOLEAN] /\ FlowOK(document.flow, answered)
  BY <1>1, <1>4
<1> QED BY <1>1, <1>3, <1>9, <1>10, <1>11, <1>12 DEF PortsInv

(* The calls, the arrays, what is stored and what is undone: see PortsInv. *)
THEOREM PortsHold == WorkflowSpec => []PortsInv
<1>1. PortsInv /\ [WorkflowNext]_workflowVars => PortsInv'
  BY PortsStep, PortsAssumption
<1>2. WorkflowInit => PortsInv
  BY PortsBegin, PortsAssumption
<1> QED BY <1>1, <1>2, PTL DEF WorkflowSpec

(* A recorded flow has no more ports than the chain.                       *)
LEMMA FlowType ==
    ASSUME PortsAssumption, NEW ans, ans \subseteq Chain, NEW s, FlowOK(s, ans)
    PROVE  s \in Flows /\ Increasing(s)
<1>1. /\ s \in Seq(Nat) /\ DOMAIN s = 1..Len(s) /\ Len(s) \in Nat
      /\ \A i \in 1..Len(s) : s[i] \in Chain /\ i <= s[i]
  BY LenProperties DEF FlowOK
<1>2. Len(s) \in 0..LastPort
  <2>1. CASE Len(s) = 0
    BY <2>1 DEF PortsAssumption
  <2>2. CASE Len(s) # 0
    <3>1. Len(s) \in 1..Len(s)
      BY <1>1, <2>2
    <3>2. s[Len(s)] \in Chain /\ Len(s) <= s[Len(s)]
      BY <1>1, <3>1
    <3> QED BY <1>1, <3>2 DEF Chain, PortsAssumption
  <2> QED BY <2>1, <2>2
<1>3. s \in [1..Len(s) -> Chain]
  BY <1>1, SeqDef
<1>4. s \in Flows
  BY <1>2, <1>3 DEF Flows
<1>5. Increasing(s)
  BY <1>1 DEF Increasing, FlowOK
<1> QED BY <1>4, <1>5

(* The values of the workflow are of their types, whatever times out, is   *)
(* retried, answers late, is loaded again or is undone.                    *)
THEOREM WorkflowTyped == WorkflowSpec => []PortsTypeOK
<1>1. ASSUME PortsInv PROVE PortsTypeOK
  <2>1. ASSUME NEW r \in DOMAIN runs PROVE runs[r] \in Chain
    <3>1. runs \in Seq(Chain)
      BY <1>1 DEF PortsInv, RunsOK
    <3>2. r \in 1..Len(runs)
      BY <3>1, LenProperties
    <3> QED BY <3>1, <3>2, ElementOfSeq
  <2>2. ASSUME NEW c \in Calls
        PROVE  /\ port(c) \in Chain /\ try(c) \in 1 .. maxRetry[port(c)]
               /\ getPortFlow(c) \in DOMAIN arrays
               /\ calls[c].pc \in {"adapter", "saving", "done", "failed", "lost"}
               /\ calls[c].timer => calls[c].pc \in {"adapter", "failed"}
    BY <1>1, CallFacts, PortsAssumption DEF GoodName, GoodState, CallType
  <2>3. answered \subseteq Chain
    BY <1>1 DEF PortsInv
  <2>4. \A a \in DOMAIN arrays : arrays[a] \in Flows
    <3>1. \A a \in DOMAIN arrays : FlowOK(arrays[a], answered)
      BY <1>1 DEF PortsInv, FlowsIn
    <3> QED BY <2>3, <3>1, FlowType, PortsAssumption
  <2>5. document.flow \in Flows /\ document.compensate \in BOOLEAN
    <3>1. FlowOK(document.flow, answered) /\ document.compensate \in BOOLEAN
      BY <1>1 DEF PortsInv
    <3> QED BY <2>3, <3>1, FlowType, PortsAssumption
  <2>6. /\ undo.pc \in {"idle", "undoing", "failed", "complete", "incomplete", "lost"}
        /\ undo.arr \in DOMAIN arrays
    BY <1>1 DEF PortsInv, UndoOK
  <2> QED BY <2>1, <2>2, <2>3, <2>4, <2>5, <2>6 DEF PortsTypeOK
<1> QED BY <1>1, PortsHold, PTL

(* Whatever times out, is retried, answers late or is undone, no flow that *)
(* is kept or stored holds a port twice or out of order.                   *)
THEOREM FlowsKeepOrder == WorkflowSpec => []FlowInOrder
<1>1. ASSUME PortsInv PROVE FlowInOrder
  BY <1>1, FlowType, PortsAssumption DEF PortsInv, FlowsIn, FlowInOrder
<1> QED BY <1>1, PortsHold, PTL

(* No port is called before those ahead of it have answered, in any run of *)
(* the workflow, and none is recorded that has not.                        *)
THEOREM NoneIsSkipped == WorkflowSpec => []NothingSkipped
<1>1. ASSUME PortsInv PROVE NothingSkipped
  <2>1. ASSUME NEW c \in Calls PROVE 1 .. port(c) - 1 \subseteq answered
    BY <1>1, CallFacts, PortsAssumption DEF GoodName
  <2>2. \A i \in DOMAIN document.flow : document.flow[i] \in answered
    BY <1>1, LenProperties DEF PortsInv, FlowOK
  <2> QED BY <2>1, <2>2 DEF NothingSkipped
<1> QED BY <1>1, PortsHold, PTL

(* The undo functions that compensate runs and that work, work from the    *)
(* last port to the first, each once, although it splices the array it     *)
(* folds over, and whichever of them throw or are not called.              *)
THEOREM UndoneBackwards == WorkflowSpec => []UndoneInReverse
<1>1. ASSUME PortsInv PROVE UndoneInReverse
  <2>1. UndoOK /\ DOMAIN undone = 1..Len(undone)
    BY <1>1, LenProperties DEF PortsInv, UndoOK
  <2> QED BY <2>1 DEF UndoOK, UndoneInReverse
<1> QED BY <1>1, PortsHold, PTL

(* Each step of a workflow is one of the saga, or none.                    *)
LEMMA SagaStep ==
    ASSUME PortsAssumption, PortsInv, [WorkflowNext]_workflowVars PROVE [Sagas!Next]_(Sagas!vars)
<1>1. ASSUME UNCHANGED <<answered, undo, undone>> PROVE UNCHANGED Sagas!vars
  BY <1>1 DEF Sagas!vars
<1>2. ASSUME NEW c \in Calls, SaveEnds(c) \/ SaveFails(c) \/ TimerFires(c) \/ portHandler(c)
             \/ AdapterThrows(c)
      PROVE  UNCHANGED <<answered, undo, undone>>
  BY <1>2 DEF SaveEnds, SaveFails, TimerFires, portHandler, AdapterThrows, workflowHistory
<1>3. ASSUME NEW c \in Calls, AdapterReturns(c) PROVE Sagas!Next
  <2>1. answered' = answered \cup {port(c)} /\ UNCHANGED <<undo, undone>>
    BY <1>3 DEF AdapterReturns
  <2>2. 1 .. port(c) - 1 \subseteq answered /\ port(c) \in 1..LastPort
    BY CallFacts DEF GoodName, Chain
  <2>3. Sagas!Do(port(c))
    BY <2>1, <2>2 DEF Sagas!Do
  <2> QED BY <2>2, <2>3 DEF Sagas!Next
<1>4. ASSUME NEW c \in Calls, UndoBegins(c) PROVE Sagas!Next
  <2> DEFINE arr == IF calls[c].pc = "done" THEN c ELSE getPortFlow(c)
             s == arrays[arr]
  <2>1. PICK saved \in BOOLEAN :
           /\ undo.pc = "idle" /\ UNCHANGED <<answered, undone>>
           /\ undo' = [pc |-> IF saved THEN "undoing" ELSE "failed", arr |-> arr,
                       ports |-> s, index |-> Len(s), flow |-> s]
    BY <1>4 DEF UndoBegins, workflowHistory, reduceRight
  <2>2. arr \in DOMAIN arrays
    BY CallFacts DEF GoodState
  <2> HIDE DEF arr
  <2>3. FlowOK(s, answered)
    BY <2>2 DEF PortsInv, FlowsIn
  <2>4. /\ DOMAIN s = 1..Len(s)
        /\ \A i \in 1..Len(s) : s[i] \in answered
        /\ \A i, j \in 1..Len(s) : i < j => s[i] < s[j]
    BY <2>3, LenProperties DEF FlowOK
  <2> HIDE DEF s
  <2>5. Sagas!Increases(undo'.ports) /\ {undo'.ports[i] : i \in DOMAIN undo'.ports} \subseteq answered
    BY <2>1, <2>4 DEF Sagas!Increases
  <2>6. Sagas!Compensate
    BY <2>1, <2>5 DEF Sagas!Compensate
  <2> QED BY <2>6 DEF Sagas!Next
<1>5. /\ undo \in [pc : {"idle", "undoing", "failed", "complete", "incomplete", "lost"},
                   arr : DOMAIN arrays, ports : Seq(Nat), index : Nat, flow : Seq(Nat)]
  BY DEF PortsInv, UndoOK
<1>6. CASE UndoPasses
  <2>1. /\ undo.pc = "undoing" /\ undo.index > 0 /\ undo.ports[undo.index] \notin Undoable
        /\ undo' = [undo EXCEPT !.index = undo.index - 1] /\ UNCHANGED <<answered, undone>>
    BY <1>6 DEF UndoPasses, UndoOf, workflowHistory
  <2>2. undo'.pc = undo.pc /\ undo'.ports = undo.ports /\ undo'.index = undo.index - 1
    BY <1>5, <2>1
  <2>3. Sagas!TakeBack
    BY <2>1, <2>2 DEF Sagas!TakeBack
  <2> QED BY <2>3 DEF Sagas!Next
<1>7. ASSUME NEW ran \in BOOLEAN, NEW saved \in BOOLEAN, UndoReturns(ran, saved)
      PROVE  Sagas!Next
  <2>1. PICK f : undo' = [undo EXCEPT !.index = undo.index - 1, !.flow = f,
                                     !.pc = IF saved THEN undo.pc ELSE "failed"]
    BY <1>7 DEF UndoReturns
  <2>2. /\ undo.pc = "undoing" /\ undo.index > 0 /\ undo.ports[undo.index] \in Undoable
        /\ \/ undone' = Append(undone, undo.ports[undo.index])
           \/ undone' = undone
        /\ UNCHANGED answered
    BY <1>7 DEF UndoReturns, UndoOf
  <2>3. /\ undo'.pc \in {"undoing", "failed"} /\ undo'.ports = undo.ports
        /\ undo'.index = undo.index - 1
    BY <1>5, <2>1, <2>2
  <2>4. Sagas!TakeBack
    BY <2>2, <2>3 DEF Sagas!TakeBack
  <2> QED BY <2>4 DEF Sagas!Next
<1>8. ASSUME NEW p, undo.pc = "undoing", undo' = [undo EXCEPT !.pc = p],
             p = "lost" \/ (p \in {"complete", "incomplete"} /\ undo.index = 0),
             UNCHANGED <<answered, undone>>
      PROVE  Sagas!Next
  <2>1. undo'.pc = p /\ undo'.ports = undo.ports /\ undo'.index = undo.index
    BY <1>5, <1>8
  <2>2. Sagas!BreakOff \/ Sagas!Report
    BY <1>8, <2>1 DEF Sagas!BreakOff, Sagas!Report
  <2> QED BY <2>2 DEF Sagas!Next
<1>9. CASE UndoWorks \/ UndoFails \/ UndoRefused
  BY <1>7, <1>9 DEF UndoWorks, UndoFails, UndoRefused
<1>10. CASE reportStatus
  BY <1>8, <1>10 DEF reportStatus, workflowHistory
<1>11. CASE WorkerLoads
  BY <1>1, <1>11 DEF WorkerLoads, workflowHistory
<1>12. CASE WorkerDies
  <2>1. /\ undo' = [undo EXCEPT !.pc = IF undo.pc = "undoing" THEN "lost" ELSE undo.pc]
        /\ UNCHANGED <<answered, undone>>
    BY <1>12 DEF WorkerDies
  <2>2. CASE undo.pc = "undoing"
    BY <1>8, <2>1, <2>2
  <2>3. CASE undo.pc # "undoing"
    <3>1. undo' = undo
      BY <1>5, <2>1, <2>3
    <3> QED BY <1>1, <2>1, <3>1
  <2> QED BY <2>2, <2>3
<1>13. CASE UNCHANGED workflowVars
  BY <1>1, <1>13 DEF workflowVars, workflowHistory
<1> QED BY <1>1, <1>2, <1>3, <1>4, <1>6, <1>9, <1>10, <1>11, <1>12, <1>13
        DEF WorkflowNext, SomeSaveSettles, SomeTimerFires

(* A workflow is a saga: ports are done in the order of the chain, and     *)
(* compensate takes back done ports only, the last one first, each once,   *)
(* through every retry, late answer, load and crash.                       *)
THEOREM SagaKept == WorkflowSpec => RunsAsSaga
<1>1. WorkflowInit => Sagas!Init
  BY DEF WorkflowInit, Sagas!Init
<1>2. PortsInv /\ [WorkflowNext]_workflowVars => [Sagas!Next]_(Sagas!vars)
  BY SagaStep, PortsAssumption
<1> QED BY <1>1, <1>2, PortsHold, PTL DEF WorkflowSpec, RunsAsSaga, Sagas!Spec

(* Until the model is undone, the array that a call of its first run makes *)
(* holds each port up to the call's, although listeners share arrays and   *)
(* retries make new ones.                                                  *)
OwnFlows ==
    undo.pc = "idle" =>
        \A a \in DOMAIN arrays : a.run = 1 =>
            Len(arrays[a]) = Len(a.tries) /\ \A i \in 1..Len(arrays[a]) : arrays[a][i] = i

LEMMA OwnFlowStarts ==
    ASSUME PortsAssumption, PortsInv, OwnFlows, NEW cs, startWorkflow(cs),
           undo'.pc = "idle" => undo.pc = "idle"
    PROVE  OwnFlows'
<1>1. CASE UNCHANGED arrays
  BY <1>1 DEF OwnFlows
<1>2. CASE arrays' = With(arrays, Name(Len(runs) + 1, <<>>), document.flow)
  <2>1. Len(runs) + 1 # 1
    BY LenProperties DEF PortsInv, RunsOK
  <2>2. Name(Len(runs) + 1, <<>>).run = Len(runs) + 1
    BY DEF Name
  <2>3. \A a \in DOMAIN arrays' : a.run = 1 => a \in DOMAIN arrays /\ arrays'[a] = arrays[a]
    BY <1>2, <2>1, <2>2 DEF With
  <2> QED BY <2>3 DEF OwnFlows
<1> QED BY <1>1, <1>2 DEF startWorkflow

LEMMA OwnFlowsStep ==
    ASSUME PortsAssumption, PortsInv, OwnFlows, [WorkflowNext]_workflowVars PROVE OwnFlows'
<1>1. ASSUME UNCHANGED <<arrays, undo>> PROVE OwnFlows'
  BY <1>1 DEF OwnFlows
<1>2. ASSUME NEW c \in Calls, SaveEnds(c) \/ SaveFails(c) \/ TimerFires(c) \/ portHandler(c)
             \/ AdapterThrows(c)
      PROVE  UNCHANGED <<arrays, undo>>
  BY <1>2 DEF SaveEnds, SaveFails, TimerFires, portHandler, AdapterThrows
<1>3. ASSUME NEW c \in Calls, AdapterReturns(c) PROVE OwnFlows'
  <2> DEFINE s == newFlow(c)
  <2>1. arrays' = With(arrays, c, s) /\ UNCHANGED undo
    BY <1>3 DEF AdapterReturns
  <2>2. ASSUME undo.pc = "idle", c.run = 1
        PROVE  Len(s) = Len(c.tries) /\ \A i \in 1..Len(s) : s[i] = i
    <3> DEFINE f == arrays[cause(c)]
               n == Len(c.tries)
    <3>1. getPortFlow(c) = cause(c) /\ cause(c) \in DOMAIN arrays /\ c \in NameType(runs)
          /\ c.tries # <<>> /\ runs \in Seq(Chain) /\ port(c) = portOf(c, runs) /\ port(c) \in Nat
      BY <2>2, CallFacts DEF getPortFlow
    <3>2. cause(c).run = 1 /\ Len(cause(c).tries) = n - 1 /\ n \in Nat \ {0}
      BY <2>2, <3>1, ShorterName
    <3>3. Len(f) = n - 1 /\ \A i \in 1..Len(f) : f[i] = i
      BY <2>2, <3>1, <3>2 DEF OwnFlows
    <3>4. port(c) = n
      <4>1. runs[1] = 1
        BY DEF PortsInv, RunsOK
      <4> QED BY <2>2, <3>1, <3>2, <4>1 DEF portOf
    <3>5. f \in Seq(Nat)
      BY <3>1 DEF PortsInv, FlowsIn, FlowOK
    <3>6. s = Append(f, port(c))
      BY <3>1 DEF newFlow
    <3> HIDE DEF f, n, s
    <3>7. /\ Len(s) = Len(f) + 1 /\ s[Len(f) + 1] = port(c)
          /\ \A i \in 1..Len(f) : s[i] = f[i]
      BY <3>1, <3>5, <3>6, AppendProperties
    <3>8. Len(s) = n
      BY <3>2, <3>3, <3>7
    <3>9. ASSUME NEW i \in 1..Len(s) PROVE s[i] = i
      <4>1. i \in 1..Len(f) \/ i = Len(f) + 1
        BY <3>2, <3>3, <3>8
      <4> QED BY <3>2, <3>3, <3>4, <3>7, <4>1
    <3> QED BY <3>8, <3>9 DEF n
  <2> HIDE DEF s
  <2>3. \A a \in DOMAIN arrays' :
            arrays'[a] = (IF a = c THEN s ELSE arrays[a]) /\ (a # c => a \in DOMAIN arrays)
    BY <2>1 DEF With
  <2> QED BY <2>1, <2>2, <2>3 DEF OwnFlows
<1>4. undo'.pc # "idle" => OwnFlows'
  BY DEF OwnFlows
<1>5. ASSUME NEW c \in Calls, UndoBegins(c) PROVE undo'.pc # "idle"
  BY <1>5 DEF UndoBegins
<1>6. undo \in [pc : {"idle", "undoing", "failed", "complete", "incomplete", "lost"},
                arr : DOMAIN arrays, ports : Seq(Nat), index : Nat, flow : Seq(Nat)]
  BY DEF PortsInv, UndoOK
<1>7. CASE UndoPasses
  <2>1. undo.pc = "undoing" /\ undo'.pc = undo.pc
    BY <1>6, <1>7 DEF UndoPasses, UndoOf
  <2> QED BY <1>4, <2>1
<1>8. CASE UndoWorks \/ UndoFails \/ UndoRefused
  <2>1. PICK ran \in BOOLEAN, saved \in BOOLEAN : UndoReturns(ran, saved)
    BY <1>8 DEF UndoWorks, UndoFails, UndoRefused
  <2>2. undo.pc = "undoing" /\ undo'.pc = IF saved THEN undo.pc ELSE "failed"
    BY <1>6, <2>1 DEF UndoReturns, UndoOf
  <2> QED BY <1>4, <2>2
<1>9. CASE reportStatus
  BY <1>4, <1>6, <1>9 DEF reportStatus
<1>10. CASE WorkerLoads
  BY <1>10, OwnFlowStarts DEF WorkerLoads
<1>11. CASE WorkerDies
  <2>1. undo'.pc = IF undo.pc = "undoing" THEN "lost" ELSE undo.pc
    BY <1>6, <1>11 DEF WorkerDies
  <2> QED BY <1>11, <2>1, OwnFlowStarts DEF WorkerDies
<1>12. CASE UNCHANGED workflowVars
  BY <1>1, <1>12 DEF workflowVars
<1> QED BY <1>1, <1>2, <1>3, <1>4, <1>5, <1>7, <1>8, <1>9, <1>10, <1>11, <1>12
        DEF WorkflowNext, SomeSaveSettles, SomeTimerFires

(* An undo that is called in the run of the model's creation passes all    *)
(* ports before the caller's.                                              *)
THEOREM OwnRunIsBackedOut == WorkflowSpec => OwnRunBackedOut
<1>1. WorkflowInit => OwnFlows
  <2> SUFFICES ASSUME WorkflowInit PROVE OwnFlows
    OBVIOUS
  <2>1. DOMAIN arrays = {Name(1, <<>>)} /\ arrays[Name(1, <<>>)] = <<>>
    BY DEF WorkflowInit
  <2>2. Name(1, <<>>).tries = <<>> /\ Len(<<>>) = 0
    BY EmptySeq DEF Name
  <2> QED BY <2>1, <2>2 DEF OwnFlows
<1>2. PortsInv /\ OwnFlows /\ [WorkflowNext]_workflowVars => OwnFlows'
  BY OwnFlowsStep, PortsAssumption
<1>3. ASSUME PortsInv, OwnFlows, [WorkflowNext]_workflowVars, UndoIsCalled, undo'.arr.run = 1 PROVE BacksOut
  <2>1. PICK c \in Calls : UndoBegins(c)
    <3>1. undo \in [pc : {"idle", "undoing", "failed", "complete", "incomplete", "lost"},
                    arr : DOMAIN arrays, ports : Seq(Nat), index : Nat, flow : Seq(Nat)]
      BY <1>3 DEF PortsInv, UndoOK
    <3>2. undo.pc = "idle" /\ undo'.pc # "idle"
      BY <1>3 DEF UndoIsCalled
    <3>3. ASSUME NEW c \in Calls, SaveEnds(c) \/ SaveFails(c) \/ TimerFires(c) \/ portHandler(c)
                 \/ AdapterThrows(c) \/ AdapterReturns(c)
          PROVE  undo' = undo
      BY <3>3 DEF SaveEnds, SaveFails, TimerFires, portHandler, AdapterThrows, AdapterReturns
    <3>4. ~UndoPasses /\ ~UndoWorks /\ ~UndoFails /\ ~UndoRefused /\ ~reportStatus
      BY <3>2 DEF UndoPasses, UndoWorks, UndoFails, UndoRefused, UndoReturns, reportStatus, UndoOf
    <3>5. ASSUME WorkerLoads \/ WorkerDies \/ UNCHANGED workflowVars PROVE FALSE
      BY <3>1, <3>2, <3>5 DEF WorkerLoads, WorkerDies, workflowVars
    <3> QED BY <1>3, <3>2, <3>3, <3>4, <3>5 DEF WorkflowNext, SomeSaveSettles, SomeTimerFires
  <2> DEFINE arr == IF calls[c].pc = "done" THEN c ELSE getPortFlow(c)
             s == arrays[arr]
  <2>2. undo.pc = "idle" /\ undo'.arr = arr /\ undo'.ports = s
    BY <2>1 DEF UndoBegins, reduceRight
  <2>3. arr \in DOMAIN arrays
    BY <1>3, CallFacts, PortsAssumption DEF GoodState
  <2>4. /\ c \in NameType(runs) /\ c.tries # <<>> /\ runs \in Seq(Chain)
        /\ port(c) = portOf(c, runs) /\ port(c) \in Nat
    BY <1>3, CallFacts, PortsAssumption
  <2>5. /\ cause(c).run = c.run /\ Len(cause(c).tries) = Len(c.tries) - 1
        /\ Len(c.tries) \in Nat \ {0}
    BY <2>4, ShorterName
  <2>6. c.run = 1 /\ (arr = c \/ arr = cause(c))
    BY <1>3, <2>2, <2>5 DEF getPortFlow, Name
  <2>7. port(c) = Len(c.tries)
    <3>1. runs[1] = 1
      BY <1>3 DEF PortsInv, RunsOK
    <3> QED BY <2>4, <2>5, <2>6, <3>1 DEF portOf
  <2>8. arr.run = 1 /\ (Len(arr.tries) = port(c) \/ Len(arr.tries) = port(c) - 1)
    BY <2>5, <2>6, <2>7
  <2> HIDE DEF arr
  <2>9. Len(s) = Len(arr.tries) /\ \A i \in 1..Len(s) : s[i] = i
    BY <1>3, <2>2, <2>3, <2>8 DEF OwnFlows
  <2>10. s \in Seq(Nat) /\ DOMAIN s = 1..Len(s)
    BY <1>3, <2>3, LenProperties DEF PortsInv, FlowsIn, FlowOK
  <2> HIDE DEF s
  <2>11. \A i \in 1 .. port(c) - 1 : i \in DOMAIN s /\ s[i] = i
    BY <2>4, <2>8, <2>9, <2>10
  <2>12. 1 .. port(c) - 1 \subseteq Range(s)
    BY <2>11 DEF Range
  <2> QED BY <2>1, <2>2, <2>12 DEF BacksOut
<1>4. PortsInv /\ OwnFlows /\ [WorkflowNext]_workflowVars => [UndoIsCalled /\ undo'.arr.run = 1 => BacksOut]_workflowVars
  BY <1>3
<1> QED BY <1>1, <1>2, <1>4, PortsHold, PTL DEF WorkflowSpec, OwnRunBackedOut

-----------------------------------------------------------------------------
(* Ports: how often a port is called.  A call is known by its cause and its *)
(* try, so a port has at most maxRetry times the calls of the one before.   *)

(* Multiplication, one factor at a time.                                   *)
LEMMA TimesOneMore ==
    ASSUME NEW a \in Nat, NEW n \in Nat
    PROVE  a * 0 = 0 /\ (n # 0 => a * n = a * (n - 1) + a /\ a * (n - 1) \in Nat)
<1>1. a * 0 = 0
  OBVIOUS
<1>2. ASSUME n # 0 PROVE a * n = a * (n - 1) + a /\ a * (n - 1) \in Nat
  <2> PICK m \in Nat : n = m + 1
    BY <1>2, n - 1 \in Nat /\ n = (n - 1) + 1
  <2>1. a * (m + 1) = a * m + a /\ a * m \in Nat
    OBVIOUS
  <2> QED BY <2>1
<1> QED BY <1>1, <1>2
(* g is the product of the retry limits up to n, as Storm is up to LastPort. *)
StormTo(g, n) ==
    /\ g \in [0..n -> Nat \ {0}]
    /\ g[0] = 1
    /\ \A k \in 1..n : g[k] = maxRetry[k] * g[k - 1]
LEMMA StormFacts == PortsAssumption => StormTo(Storm, LastPort)
<1> SUFFICES ASSUME PortsAssumption PROVE StormTo(Storm, LastPort)
  OBVIOUS
<1>1. LastPort \in Nat \ {0} /\ \A k \in 1..LastPort : maxRetry[k] \in Nat \ {0}
  BY DEF PortsAssumption, Chain
<1> DEFINE T == {n \in 0..LastPort : ~ \E g : StormTo(g, n)}
<1>2. ASSUME T # {} PROVE FALSE
  <2>1. T \subseteq Nat
    BY <1>1
  <2> HIDE DEF T
  <2>2. PICK n \in T : \A x \in T : n <= x
    BY <1>2, <2>1, Smallest
  <2>3. n \in 0..LastPort /\ ~ \E g : StormTo(g, n)
    BY <2>2 DEF T
  <2>4. CASE n = 0
    <3>1. StormTo([k \in 0..0 |-> 1], 0)
      BY DEF StormTo
    <3> QED BY <2>3, <2>4, <3>1
  <2>5. CASE n # 0
    <3>1. n - 1 \in 0..LastPort /\ ~(n <= n - 1) /\ n \in 1..LastPort
      BY <1>1, <2>3, <2>5
    <3>2. PICK g : StormTo(g, n - 1)
      BY <2>2, <3>1 DEF T
    <3> DEFINE h == [k \in 0..n |-> IF k = n THEN maxRetry[n] * g[n - 1] ELSE g[k]]
    <3>3. maxRetry[n] \in Nat \ {0} /\ g[n - 1] \in Nat \ {0}
      BY <1>1, <3>1, <3>2 DEF StormTo
    <3>4. maxRetry[n] * g[n - 1] \in Nat \ {0}
      BY <3>3
    <3>5. h \in [0..n -> Nat \ {0}]
      <4>1. ASSUME NEW k \in 0..n PROVE h[k] \in Nat \ {0}
        <5>1. CASE k = n
          BY <3>4, <5>1
        <5>2. CASE k # n
          <6>1. k \in 0..(n - 1)
            BY <3>1, <5>2
          <6> QED BY <3>2, <5>2, <6>1 DEF StormTo
        <5> QED BY <5>1, <5>2
      <4> QED BY <4>1
    <3>6. h[0] = 1
      BY <2>5, <3>1, <3>2 DEF StormTo
    <3>7. ASSUME NEW k \in 1..n PROVE h[k] = maxRetry[k] * h[k - 1]
      <4>1. k \in 0..n /\ k - 1 \in 0..n /\ k - 1 # n
        BY <3>1
      <4>2. h[k - 1] = g[k - 1]
        BY <4>1
      <4>3. CASE k = n
        BY <4>1, <4>2, <4>3
      <4>4. CASE k # n
        <5>1. k \in 1..(n - 1)
          BY <3>1, <4>4
        <5> QED BY <3>2, <4>1, <4>2, <4>4, <5>1 DEF StormTo
      <4> QED BY <4>3, <4>4
    <3> HIDE DEF h
    <3>8. StormTo(h, n)
      BY <3>5, <3>6, <3>7 DEF StormTo
    <3> QED BY <2>3, <3>8
  <2> QED BY <2>4, <2>5
<1>3. PICK g : StormTo(g, LastPort)
  BY <1>1, <1>2
<1>4. g = [k \in 0..LastPort |-> IF k = 0 THEN 1 ELSE maxRetry[k] * g[k - 1]]
  <2>1. \A k \in 0..LastPort : g[k] = IF k = 0 THEN 1 ELSE maxRetry[k] * g[k - 1]
    BY <1>1, <1>3 DEF StormTo
  <2>2. g = [k \in 0..LastPort |-> g[k]]
    BY <1>3 DEF StormTo
  <2> QED BY <2>1, <2>2
<1>5. Storm = [k \in 0..LastPort |-> IF k = 0 THEN 1 ELSE maxRetry[k] * Storm[k - 1]]
  BY <1>4 DEF Storm
<1> HIDE DEF T
<1>6. \A k \in 0..LastPort : Storm[k] = IF k = 0 THEN 1 ELSE maxRetry[k] * Storm[k - 1]
  BY <1>5
<1> DEFINE U == {n \in 0..LastPort : Storm[n] \notin Nat \ {0}}
<1>7. ASSUME U # {} PROVE FALSE
  <2>1. U \subseteq Nat
    BY <1>1
  <2> HIDE DEF U
  <2>2. PICK n \in U : \A x \in U : n <= x
    BY <1>7, <2>1, Smallest
  <2>3. n \in 0..LastPort /\ Storm[n] \notin Nat \ {0}
    BY <2>2 DEF U
  <2>4. n # 0
    BY <1>6, <2>3
  <2>5. n - 1 \in 0..LastPort /\ ~(n <= n - 1) /\ n \in 1..LastPort
    BY <1>1, <2>3, <2>4
  <2>6. Storm[n - 1] \in Nat \ {0} /\ maxRetry[n] \in Nat \ {0}
    BY <1>1, <2>2, <2>5 DEF U
  <2>7. Storm[n] = maxRetry[n] * Storm[n - 1]
    BY <1>6, <2>3, <2>4
  <2>8. maxRetry[n] * Storm[n - 1] \in Nat \ {0}
    BY <2>6
  <2> QED BY <2>3, <2>7, <2>8
<1>8. \A n \in 0..LastPort : Storm[n] \in Nat \ {0}
  BY <1>7
<1>9. Storm = [k \in 0..LastPort |-> Storm[k]]
  BY <1>5
<1>10. Storm \in [0..LastPort -> Nat \ {0}]
  BY <1>8, <1>9
<1>11. Storm[0] = 1 /\ \A k \in 1..LastPort : Storm[k] = maxRetry[k] * Storm[k - 1]
  BY <1>1, <1>6
<1> QED BY <1>10, <1>11 DEF StormTo
(* The calls of port k in run r, and in the runs up to n.                  *)
At(r, k) == {c \in Calls : c.run = r /\ port(c) = k}
UpTo(n, k) == {c \in Calls : c.run <= n /\ port(c) = k}
Few(S, n) == IsFiniteSet(S) /\ Cardinality(S) <= n

(* What has few causes, each tried so often at most.                       *)
LEMMA FewTries ==
    ASSUME NEW S, NEW P, NEW n \in Nat, NEW m \in Nat, Few(P, n),
           \A c \in S : cause(c) \in P /\ try(c) \in 1..m,
           \A c, d \in S : cause(c) = cause(d) /\ try(c) = try(d) => c = d
    PROVE  Few(S, m * n)
<1> DEFINE f == [c \in S |-> <<cause(c), try(c)>>]
<1>1. f \in Injection(S, P \X (1..m))
  <2>1. f \in [S -> P \X (1..m)]
    OBVIOUS
  <2>2. ASSUME NEW c \in S, NEW d \in S, f[c] = f[d] PROVE c = d
    <3>1. cause(c) = cause(d) /\ try(c) = try(d)
      BY <2>2
    <3> QED BY <3>1
  <2> QED BY <2>1, <2>2 DEF Injection, IsInjective
<1>2. IsFiniteSet(1..m) /\ Cardinality(1..m) = m
  BY FS_Interval
<1>3. IsFiniteSet(P \X (1..m)) /\ Cardinality(P \X (1..m)) = Cardinality(P) * m
  BY <1>2, FS_Product DEF Few
<1> HIDE DEF f
<1>4. IsFiniteSet(S) /\ Cardinality(S) <= Cardinality(P) * m
  BY <1>1, <1>3, FS_Injection
<1>5. Cardinality(P) \in Nat /\ Cardinality(P) <= n
  BY FS_CardinalityType DEF Few
<1>6. PICK p \in Nat : p = Cardinality(P)
  BY <1>5
<1>7. PICK d \in Nat : n = p + d
  BY <1>5, <1>6, n - p \in Nat /\ n = p + (n - p)
<1>8. m * n = p * m + d * m /\ d * m \in Nat /\ p * m \in Nat
  BY <1>7
<1>9. Cardinality(S) \in Nat
  BY <1>4, FS_CardinalityType
<1> QED BY <1>4, <1>6, <1>8, <1>9 DEF Few

(* The calls of one run, port after port.                                  *)
LEMMA RunIsBounded ==
    ASSUME PortsAssumption, PortsInv, StormTo(Storm, LastPort),
           NEW r \in 1..Len(runs), NEW k \in 0..LastPort
    PROVE  Few(At(r, k), Storm[k])
<1>1. LastPort \in Nat \ {0} /\ \A p \in 1..LastPort : maxRetry[p] \in Nat \ {0}
  BY DEF PortsAssumption, Chain
<1>2. \A p \in 0..LastPort : Storm[p] \in Nat \ {0}
  BY DEF StormTo
<1>3. runs[r] \in Nat
  BY ElementOfSeq DEF PortsInv, RunsOK, Chain, PortsAssumption
<1> DEFINE T == {p \in 0..LastPort : ~Few(At(r, p), Storm[p])}
<1>4. ASSUME T # {} PROVE FALSE
  <2>1. T \subseteq Nat
    BY <1>1
  <2> HIDE DEF T
  <2>2. PICK p \in T : \A x \in T : p <= x
    BY <1>4, <2>1, Smallest
  <2>3. p \in 0..LastPort /\ ~Few(At(r, p), Storm[p])
    BY <2>2 DEF T
  <2>4. p # 0
    <3>1. ASSUME p = 0 PROVE FALSE
      <4>1. At(r, p) = {}
        BY <3>1, CallFacts DEF At
      <4> QED BY <1>2, <2>3, <4>1, FS_EmptySet DEF Few
    <3> QED BY <3>1
  <2>5. p - 1 \in 0..LastPort /\ ~(p <= p - 1) /\ p \in 1..LastPort
    BY <1>1, <2>3, <2>4
  <2>6. Few(At(r, p - 1), Storm[p - 1]) /\ Storm[p - 1] \in Nat \ {0}
    BY <1>2, <2>2, <2>5 DEF T
  <2> DEFINE P == {cause(c) : c \in At(r, p)}
  <2>7. ASSUME NEW c \in At(r, p)
        PROVE  /\ c \in NameType(runs) /\ c.tries # <<>> /\ runs \in Seq(Chain)
               /\ c \in Calls /\ c.run = r /\ port(c) = p /\ portOf(c, runs) = p
               /\ try(c) \in 1..maxRetry[p]
               /\ Len(c.tries) \in Nat \ {0} /\ p = runs[r] + Len(c.tries) - 1
               /\ cause(c).run = r /\ Len(cause(c).tries) = Len(c.tries) - 1
               /\ cause(c) \in NameType(runs) /\ portOf(cause(c), runs) = p - 1
               /\ c = Name(r, Append(cause(c).tries, try(c)))
    <3>1. c \in Calls /\ c.run = r /\ port(c) = p
      BY DEF At
    <3>2. /\ c \in NameType(runs) /\ c.tries # <<>> /\ runs \in Seq(Chain)
          /\ portOf(c, runs) = p /\ GoodName(c, runs, Calls, DOMAIN arrays, answered)
      BY <3>1, CallFacts
    <3>3. try(c) \in 1..maxRetry[p]
      BY <3>2 DEF GoodName
    <3> QED BY <3>1, <3>2, <3>3, ShorterName DEF port
  <2>8. Few(P, Storm[p - 1])
    <3>1. CASE p = runs[r]
      <4>1. P \subseteq {Name(r, <<>>)}
        <5>1. ASSUME NEW c \in At(r, p) PROVE cause(c) = Name(r, <<>>)
          <6>1. Len(cause(c).tries) = 0
            <7> PICK n \in Nat, m \in Nat : n = Len(c.tries) /\ m = runs[r]
              BY <1>3, <2>7
            <7>1. m = m + n - 1 /\ Len(cause(c).tries) = n - 1
              BY <2>7, <3>1
            <7>2. \A a, b \in Nat : a = a + b - 1 => b = 1
              OBVIOUS
            <7>3. n = 1
              BY <7>1, <7>2
            <7> QED BY <7>1, <7>3
          <6>2. cause(c).tries = <<>>
            BY <2>7, <6>1, EmptySeq DEF NameType
          <6> QED BY <2>7, <6>2 DEF NameType, Name
        <5> QED BY <5>1
      <4> HIDE DEF P
      <4>2. IsFiniteSet(P) /\ Cardinality(P) <= 1
        <5> DEFINE x == Name(r, <<>>)
        <5>1. IsFiniteSet({x}) /\ Cardinality({x}) = 1
          BY FS_Singleton
        <5>2. P \in SUBSET {x}
          BY <4>1
        <5> HIDE DEF x
        <5> QED BY <5>1, <5>2, FS_Subset
      <4>3. Cardinality(P) \in Nat
        BY <4>2, FS_CardinalityType
      <4> QED BY <2>6, <4>2, <4>3 DEF Few
    <3>2. CASE p # runs[r]
      <4>1. P \subseteq At(r, p - 1)
        <5>1. ASSUME NEW c \in At(r, p) PROVE cause(c) \in At(r, p - 1)
          <6>1. Len(c.tries) > 1
            BY <1>3, <2>5, <2>7, <3>2
          <6>2. cause(c) \in Calls
            BY <2>7, <6>1, CallFacts DEF GoodName
          <6>3. port(cause(c)) = p - 1
            BY <2>7, <6>2, CallFacts
          <6> QED BY <2>7, <6>2, <6>3 DEF At
        <5> QED BY <5>1
      <4> HIDE DEF P
      <4>2. IsFiniteSet(At(r, p - 1)) /\ Cardinality(At(r, p - 1)) <= Storm[p - 1]
        BY <2>6 DEF Few
      <4>3. IsFiniteSet(P) /\ Cardinality(P) <= Cardinality(At(r, p - 1))
        BY <4>1, <4>2, FS_Subset
      <4>4. Cardinality(P) \in Nat /\ Cardinality(At(r, p - 1)) \in Nat
        BY <4>2, <4>3, FS_CardinalityType
      <4> QED BY <2>6, <4>2, <4>3, <4>4 DEF Few
    <3> QED BY <3>1, <3>2
  <2>9. \A c \in At(r, p) : cause(c) \in P /\ try(c) \in 1..maxRetry[p]
    BY <2>7
  <2>10. \A c, d \in At(r, p) : cause(c) = cause(d) /\ try(c) = try(d) => c = d
    BY <2>7
  <2> HIDE DEF P
  <2>11. Few(At(r, p), maxRetry[p] * Storm[p - 1])
    BY <1>1, <2>5, <2>6, <2>8, <2>9, <2>10, FewTries
  <2>12. Storm[p] = maxRetry[p] * Storm[p - 1]
    BY <2>5 DEF StormTo
  <2> QED BY <2>3, <2>11, <2>12
<1> QED BY <1>4

(* The calls of all runs.                                                  *)
LEMMA StormIsBounded ==
    ASSUME PortsAssumption, PortsInv, StormTo(Storm, LastPort)
    PROVE  StormBounded
<1>1. LastPort \in Nat \ {0} /\ Len(runs) \in Nat
  BY LenProperties DEF PortsAssumption, PortsInv, RunsOK
<1>2. \A p \in 0..LastPort : Storm[p] \in Nat \ {0}
  BY DEF StormTo
<1>3. ASSUME NEW k \in Chain
      PROVE  Cardinality({c \in Calls : port(c) = k}) <= Storm[k] * Len(runs)
  <2>1. k \in 0..LastPort /\ Storm[k] \in Nat
    BY <1>1, <1>2 DEF Chain
  <2> DEFINE T == {n \in 0..Len(runs) : ~Few(UpTo(n, k), Storm[k] * n)}
  <2>2. ASSUME T # {} PROVE FALSE
    <3>1. T \subseteq Nat
      BY <1>1
    <3> HIDE DEF T
    <3>2. PICK n \in T : \A x \in T : n <= x
      BY <2>2, <3>1, Smallest
    <3>3. n \in 0..Len(runs) /\ ~Few(UpTo(n, k), Storm[k] * n)
      BY <3>2 DEF T
    <3>4. \A c \in Calls : c.run \in 1..Len(runs)
      BY CallFacts DEF NameType
    <3>5. n # 0
      <4>1. ASSUME n = 0 PROVE FALSE
        <5>1. UpTo(n, k) = {}
          BY <1>1, <3>4, <4>1 DEF UpTo
        <5>2. Storm[k] * n = 0
          BY <2>1, <4>1, TimesOneMore
        <5>3. Few(UpTo(n, k), 0)
          BY <5>1, FS_EmptySet DEF Few
        <5> QED BY <3>3, <5>2, <5>3
      <4> QED BY <4>1
    <3>6. n - 1 \in 0..Len(runs) /\ ~(n <= n - 1) /\ n \in 1..Len(runs)
      BY <1>1, <3>3, <3>5
    <3>7. Few(UpTo(n - 1, k), Storm[k] * (n - 1))
      BY <3>2, <3>6 DEF T
    <3>8. Few(At(n, k), Storm[k])
      BY <2>1, <3>6, RunIsBounded
    <3>9. UpTo(n, k) = UpTo(n - 1, k) \cup At(n, k)
      BY <1>1, <3>4, <3>6 DEF UpTo, At
    <3>10. /\ IsFiniteSet(UpTo(n, k))
           /\ Cardinality(UpTo(n, k)) <= Cardinality(UpTo(n - 1, k)) + Cardinality(At(n, k))
      <4> DEFINE A == UpTo(n - 1, k)
                 B == At(n, k)
      <4>1. IsFiniteSet(A) /\ IsFiniteSet(B)
        BY <3>7, <3>8 DEF Few
      <4> HIDE DEF A, B
      <4>2. /\ IsFiniteSet(A \cup B) /\ IsFiniteSet(A \cap B)
            /\ Cardinality(A \cup B) = Cardinality(A) + Cardinality(B) - Cardinality(A \cap B)
        BY <4>1, FS_Union, FS_Intersection
      <4>3. Cardinality(A) \in Nat /\ Cardinality(B) \in Nat /\ Cardinality(A \cap B) \in Nat
        BY <4>1, <4>2, FS_CardinalityType
      <4>4. Cardinality(A \cup B) <= Cardinality(A) + Cardinality(B)
        BY <4>2, <4>3
      <4> QED BY <3>9, <4>2, <4>4 DEF A, B
    <3>11. /\ Cardinality(UpTo(n - 1, k)) \in Nat /\ Cardinality(At(n, k)) \in Nat
           /\ Cardinality(UpTo(n, k)) \in Nat
      BY <3>7, <3>8, <3>10, FS_CardinalityType DEF Few
    <3>12. Storm[k] * n = Storm[k] * (n - 1) + Storm[k] /\ Storm[k] * (n - 1) \in Nat
      <4>1. n \in Nat /\ n # 0
        BY <1>1, <3>6
      <4> QED BY <2>1, <4>1, TimesOneMore
    <3>13. Few(UpTo(n, k), Storm[k] * n)
      BY <2>1, <3>7, <3>8, <3>10, <3>11, <3>12 DEF Few
    <3> QED BY <3>3, <3>13
  <2>3. Few(UpTo(Len(runs), k), Storm[k] * Len(runs))
    BY <1>1, <2>2
  <2>4. UpTo(Len(runs), k) = {c \in Calls : port(c) = k}
    BY <1>1, CallFacts DEF UpTo, NameType
  <2> QED BY <2>3, <2>4 DEF Few
<1> QED BY <1>3 DEF StormBounded

(* However the retries of a port and the late answers to them multiply the *)
(* calls of those after it, port k is called at most so often as the       *)
(* product of the retry limits up to k, in each run of the workflow.       *)
THEOREM StormStaysBounded == WorkflowSpec => []StormBounded
<1>1. ASSUME PortsInv PROVE StormBounded
  BY <1>1, StormFacts, StormIsBounded, PortsAssumption
<1> QED BY <1>1, PortsHold, PTL
=============================================================================
