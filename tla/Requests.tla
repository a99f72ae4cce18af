------------------------------- MODULE Requests -------------------------------
(***************************************************************************)
(* HTTP requests from the route to the answer.  Sources: aegis.js,         *)
(* adapters/controllers, the main thread's half of domain/use-cases,       *)
(* the job in domain/thread-pool.js and domain/worker.js, and lists that   *)
(* are streamed (domain/datasource-factory.js, datasource-mongodb.js).     *)
(*                                                                         *)
(* What the use cases do to objects is in Objects, which thread runs a job *)
(* in ThreadPool; here it is whether and how each request is answered when *)
(* lookups fail, threads die, pools close and work that a request has left *)
(* behind throws at any time.                                              *)
(***************************************************************************)
EXTENDS Naturals, Sequences

CONSTANTS
    Clients,     \* each makes one request
    MaxUncaught  \* bound: exceptions nobody catches

ASSUME RequestsAssumption == MaxUncaught \in Nat

(* The routes of one model, by path and method, in the order of makeRoutes *)
(* (the four methods of the port paths shown by one of them).  There are   *)
(* no user routes, and no path that is matched by the pattern of another:  *)
(* with one of the latter the host does not start.                         *)
toSet ==
    << <<"reload", "get">>, <<"models", "get">>, <<"models", "post">>, <<"model", "get">>,
       <<"model", "patch">>, <<"model", "delete">>, <<"port", "post">>, <<"config", "get">>,
       <<"deploy", "post">> >>
(* Paths without a parameter: a request's path is the route's.             *)
literals == {"reload", "models", "config", "deploy"}

requestOf ==
    [create |-> <<"models", "post">>, edit |-> <<"model", "patch">>,
     remove |-> <<"model", "delete">>, find |-> <<"model", "get">>,
     list |-> <<"models", "get">>, port |-> <<"port", "post">>,
     config |-> <<"config", "get">>, reload |-> <<"reload", "get">>,
     deploy |-> <<"deploy", "post">>, stray |-> <<"nowhere", "get">>]
Kinds == DOMAIN requestOf
Writes == {"create", "edit", "remove", "port"}

VARIABLES
    routes,    \* path -> the methods that have a controller
    hasPath,   \* the path that was set last
    routeInfo, \* what had found when it was set: methods, or none
    made,      \* the number of routes set
    kind,      \* of each client's request
    at,        \* how far it is
    outcome,   \* of its use case
    done,      \* its effect has taken place
    answer,    \* the status its client has got
    uncaught,  \* the number of uncaught exceptions
    crashed    \* the process has ended

routeVars == <<routes, hasPath, routeInfo, made>>
requestVars == <<routeVars, kind, at, outcome, done, answer, uncaught, crashed>>

NoAnswer == "no answer"
NoMethods == {}
headersSent(r) == answer[r] # NoAnswer

RequestsInit ==
    /\ routes = [p \in {} |-> NoMethods] /\ hasPath = "" /\ routeInfo = NoMethods
    /\ made = 0
    /\ kind = [r \in Clients |-> "stray"]
    /\ at = [r \in Clients |-> "new"]
    /\ outcome = [r \in Clients |-> "none"]
    /\ done = [r \in Clients |-> FALSE]
    /\ answer = [r \in Clients |-> NoAnswer]
    /\ uncaught = 0 /\ crashed = FALSE

goes(r, stage) == at' = [at EXCEPT ![r] = stage]
replies(r, o) == goes(r, "reply") /\ outcome' = [outcome EXCEPT ![r] = o]

-----------------------------------------------------------------------------
(* Routes                                                                  *)

find(path) == IF path \in DOMAIN routes THEN routes[path] ELSE NoMethods

(* The answer to has is kept, and is not renewed by what is set then.      *)
get(path) == IF path = hasPath THEN routeInfo ELSE find(path)

set ==
    /\ made < Len(toSet)
    /\ LET path == toSet[made + 1][1]
           method == toSet[made + 1][2]
       IN  /\ hasPath' = path
           /\ routeInfo' = find(path)
           /\ routes' = [p \in DOMAIN routes \cup {path} |->
                            IF p = path THEN find(path) \cup {method} ELSE routes[p]]
    /\ made' = made + 1
    /\ UNCHANGED <<kind, at, outcome, done, answer, uncaught, crashed>>

(* A request whose path has a parameter is never equal to a route's path.  *)
controllerOf(k) ==
    LET path == requestOf[k][1]
    IN  requestOf[k][2] \in (IF path \in literals THEN get(path) ELSE find(path))

handle(r, k) ==
    /\ made = Len(toSet) /\ at[r] = "new"
    /\ kind' = [kind EXCEPT ![r] = k]
    /\ IF controllerOf(k) THEN goes(r, "controller") /\ UNCHANGED answer
       ELSE goes(r, "ended") /\ answer' = [answer EXCEPT ![r] = "404"]
    /\ UNCHANGED <<routeVars, outcome, done, uncaught, crashed>>

-----------------------------------------------------------------------------
(* The main thread's half of the use cases                                 *)

controls(r, ks) == at[r] = "controller" /\ kind[r] \in ks

(* createModel: with an idempotency key it is done already, or not.        *)
enforceIdempotency(r) ==
    /\ controls(r, {"create"})
    /\ \/ goes(r, "job") /\ UNCHANGED <<outcome, done>>
       \/ replies(r, "ok") /\ done' = [done EXCEPT ![r] = TRUE]
       \/ replies(r, "error") /\ UNCHANGED done
    /\ UNCHANGED <<routeVars, kind, answer, uncaught, crashed>>

(* editModel, removeModel and findModel: repository.find finds the model,  *)
(* does not, or throws.  An object is sent to a worker only if more than   *)
(* itself is asked for.                                                    *)
findModel(r) ==
    /\ controls(r, {"edit", "remove", "find"})
    /\ \/ goes(r, "job") /\ UNCHANGED outcome
       \/ kind[r] = "find" /\ replies(r, "ok")
       \/ replies(r, "Not Found")
       \/ replies(r, "error")
    /\ UNCHANGED <<routeVars, kind, done, answer, uncaught, crashed>>

(* invokePort; listConfigs of a model's thread, or of the main thread, and *)
(* a model without a pool of its name is an error.                         *)
invokePort(r) ==
    /\ controls(r, {"port"})
    /\ goes(r, "job")
    /\ UNCHANGED <<routeVars, kind, outcome, done, answer, uncaught, crashed>>
listConfigs(r) ==
    /\ controls(r, {"config"})
    /\ \/ goes(r, "job") /\ UNCHANGED outcome
       \/ \E o \in {"ok", "error"} : replies(r, o)
    /\ UNCHANGED <<routeVars, kind, done, answer, uncaught, crashed>>

(* liveUpdate without a model's name: the handler of its TypeError throws  *)
(* a ReferenceError.  liveRollout reports its errors as a result.          *)
liveUpdate(r) ==
    /\ controls(r, {"reload"})
    /\ \E o \in {"ok", "throws"} : replies(r, o)
    /\ UNCHANGED <<routeVars, kind, done, answer, uncaught, crashed>>
liveRollout(r) ==
    /\ controls(r, {"deploy"})
    /\ replies(r, "ok")
    /\ UNCHANGED <<routeVars, kind, done, answer, uncaught, crashed>>

(* A count, a cached or an aggregated list is returned, a list from the    *)
(* store is streamed.                                                      *)
listModels(r) ==
    /\ controls(r, {"list"})
    /\ \/ goes(r, "stream") /\ UNCHANGED outcome
       \/ \E o \in {"ok", "error"} : replies(r, o)
    /\ UNCHANGED <<routeVars, kind, done, answer, uncaught, crashed>>

(* The first bracket goes out before the first record.  The end of the     *)
(* stream ends the answer; stream waits for an event of the response that  *)
(* does not happen, so that the controller never goes on.                  *)
streamStarts(r) ==
    /\ at[r] = "stream" /\ ~headersSent(r)
    /\ answer' = [answer EXCEPT ![r] = "200"]
    /\ UNCHANGED <<routeVars, kind, at, outcome, done, uncaught, crashed>>

-----------------------------------------------------------------------------
(* The job                                                                 *)

(* A closed pool, or its thread's death before or after the effect.        *)
rejected(r) ==
    /\ at[r] \in {"job", "worked"}
    /\ replies(r, "error")
    /\ UNCHANGED <<routeVars, kind, done, answer, uncaught, crashed>>

(* What the worker's half returns: the object, an AppError, nothing.  The  *)
(* effect of a write precedes what it returns; one that is not valid, or   *)
(* is taken back, returns an AppError.                                     *)
works(r, effect) ==
    /\ at[r] = "job"
    /\ done' = [done EXCEPT ![r] = effect]
    /\ goes(r, "worked")
    /\ UNCHANGED <<routeVars, kind, outcome, answer, uncaught, crashed>>

results(r) ==
    (IF done[r] \/ kind[r] \notin Writes THEN {"ok"} ELSE {})
    \cup (IF kind[r] = "port" /\ done[r] THEN {"nothing"} ELSE {})
    \cup {"AppError"}

(* The worker makes an AppError of no result, and a job whose result is an *)
(* AppError is rejected.                                                   *)
messageFn(r) ==
    /\ at[r] = "worked"
    /\ \E x \in results(r) : replies(r, IF x = "ok" THEN "ok" ELSE "error")
    /\ UNCHANGED <<routeVars, kind, done, answer, uncaught, crashed>>

-----------------------------------------------------------------------------
(* The answer                                                              *)

(* The code of an error may be any, one that is no status included.        *)
errorCode == {"400", "500", "invalid"}

(* Where it fails, which it logs, its result is missing, and taking the    *)
(* content from it is an error of the controller's own.                    *)
getContent == {"200", "400"}

(* The controllers: the statuses of an outcome.                            *)
postModel(o) == IF o = "ok" THEN {"201"} ELSE errorCode
patchModel(o) == IF o = "ok" THEN {"201"} ELSE IF o = "Not Found" THEN {"404"} ELSE errorCode
deleteModel(o) == IF o = "ok" THEN {"201"} ELSE IF o = "Not Found" THEN {"404"} ELSE errorCode
anyInvokePort(o) == IF o = "ok" THEN {"201"} ELSE errorCode
getModelById(o) == IF o = "ok" THEN getContent ELSE IF o = "Not Found" THEN {"404"} ELSE errorCode
getModels(o) == IF o = "ok" THEN getContent ELSE errorCode
getConfig(o) == IF o = "ok" THEN getContent ELSE {"400"}

statuses(r) ==
    CASE kind[r] = "create" -> postModel(outcome[r])
      [] kind[r] = "edit"   -> patchModel(outcome[r])
      [] kind[r] = "remove" -> deleteModel(outcome[r])
      [] kind[r] = "port"   -> anyInvokePort(outcome[r])
      [] kind[r] = "find"   -> getModelById(outcome[r])
      [] kind[r] = "list"   -> getModels(outcome[r])
      [] kind[r] = "config" -> getConfig(outcome[r])
      [] kind[r] \in {"reload", "deploy"} -> IF outcome[r] = "ok" THEN {"200"} ELSE {"500"}

(* The adapter: a status that is none, like a controller that throws, is   *)
(* answered by 500.  Once headers were sent it throws twice, which handle  *)
(* catches.                                                                *)
buildCallback(r) ==
    /\ at[r] = "reply"
    /\ IF headersSent(r) THEN UNCHANGED answer
       ELSE \E s \in statuses(r) :
                answer' = [answer EXCEPT ![r] = IF s = "invalid" THEN "500" ELSE s]
    /\ goes(r, "ended")
    /\ UNCHANGED <<routeVars, kind, outcome, done, uncaught, crashed>>

(* Something that runs in the context of r throws, before or after r has   *)
(* been answered: a subscriber, a stream whose source fails.  To send      *)
(* headers again would throw from the last handler there is.  Variant: it  *)
(* does not ask.                                                           *)
answersAlways(r) ==
    IF headersSent(r) THEN crashed' = TRUE /\ UNCHANGED answer
    ELSE answer' = [answer EXCEPT ![r] = "500"] /\ UNCHANGED crashed
answers(r) ==
    /\ answer' = [answer EXCEPT ![r] = IF headersSent(r) THEN @ ELSE "500"]
    /\ UNCHANGED crashed

inContext(r) == at[r] # "new" /\ requestOf[kind[r]][1] \in DOMAIN routes

uncaughtException(r) ==
    /\ inContext(r) /\ uncaught < MaxUncaught
    /\ answers(r)
    /\ uncaught' = uncaught + 1
    /\ UNCHANGED <<routeVars, kind, at, outcome, done>>

-----------------------------------------------------------------------------
RequestsNext ==
    \/ set
    \/ /\ ~crashed
       /\ \E r \in Clients :
             \/ \E k \in Kinds : handle(r, k)
             \/ enforceIdempotency(r) \/ findModel(r) \/ invokePort(r) \/ listConfigs(r)
             \/ liveUpdate(r) \/ liveRollout(r) \/ listModels(r) \/ streamStarts(r)
             \/ rejected(r) \/ \E effect \in BOOLEAN : works(r, effect)
             \/ messageFn(r) \/ buildCallback(r) \/ uncaughtException(r)

RequestsSpec == RequestsInit /\ [][RequestsNext]_requestVars

-----------------------------------------------------------------------------
(* Properties                                                              *)

(* The path that was set last, if it has no parameter, is not found.       *)
registered(k) ==
    /\ \E i \in 1..Len(toSet) : toSet[i] = requestOf[k]
    /\ requestOf[k] # toSet[Len(toSet)]

(* Whatever is thrown, and whenever: no answer ends the process, a request *)
(* that has been handled has been answered, a write is reported as done    *)
(* only if it was, and "not found" is said of a path or an object that was *)
(* not found and of nothing else.                                          *)
AnsweredTruly ==
    /\ ~crashed
    /\ \A r \in Clients :
          /\ at[r] = "ended" => answer[r] # NoAnswer
          /\ answer[r] = "201" => done[r]
          /\ answer[r] = "404" => ~registered(kind[r]) \/ outcome[r] = "Not Found"
=============================================================================
