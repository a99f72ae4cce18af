---------------------------- MODULE ServiceLocator ----------------------------
(***************************************************************************)
(* How nodes find the switch: queries and answers over multicast DNS,      *)
(* which may lose and repeat them.  Source:                                *)
(* adapters/service-mesh/adapters/service-locator.js, as resolveUrl of     *)
(* adapters/service-mesh/domain/webswitch.js uses it.                      *)
(***************************************************************************)
EXTENDS Naturals, FiniteSets

CONSTANTS
    Primary,     \* the node that is the switch
    Others,      \* the other nodes, which have no url to begin with
    Backups,     \* those that would take over
    maxRetries,  \* queries before a backup takes over
    MaxDeaths    \* bound: deaths of the primary's process

ASSUME LocatorAssumption ==
    /\ Primary \notin Others /\ Backups \subseteq Others
    /\ maxRetries \in Nat /\ MaxDeaths \in Nat

VARIABLES
    answering,  \* the primary's query handler is registered
    deaths,     \* how many there were
    asking,     \* ask()'s next call: "idle", "due"
    retries,    \* the counter passed to it, up to one more than maxRetries
    queried,    \* a query is on its way
    responded,  \* a response is on its way
    located     \* the nodes whose promise was resolved with the primary's url

locatorVars == <<answering, deaths, asking, retries, queried, responded, located>>

LocatorInit ==
    /\ answering = FALSE /\ deaths = 0
    /\ asking = [n \in Others |-> "idle"]
    /\ retries = [n \in Others |-> 0]
    /\ queried = FALSE /\ responded = FALSE
    /\ located = {}

(* The primary registers its handler, or its process dies.                 *)
answer ==
    /\ ~answering
    /\ answering' = TRUE
    /\ UNCHANGED <<deaths, asking, retries, queried, responded, located>>
PrimaryDies ==
    /\ answering /\ deaths < MaxDeaths
    /\ answering' = FALSE
    /\ deaths' = deaths + 1
    /\ UNCHANGED <<asking, retries, queried, responded, located>>

(* ask: nothing if the url is known; a backup that asked long enough       *)
(* begins to answer (with a url it does not have, so it never does) and    *)
(* asks no more; else a query is sent and a timer set.  Variant: the       *)
(* others stop asking, too.                                                *)
TakesOverAll(n) == retries[n] > maxRetries
TakesOver(n) == retries[n] > maxRetries /\ n \in Backups
ask(n, r) ==
    \/ /\ n \in located \/ TakesOver(n)
       /\ asking' = [asking EXCEPT ![n] = "done"]
       /\ UNCHANGED <<retries, queried>>
    \/ /\ n \notin located /\ ~TakesOver(n)
       /\ queried' = TRUE
       /\ asking' = [asking EXCEPT ![n] = "due"]
       /\ retries' = [retries EXCEPT ![n] = IF r > maxRetries THEN r ELSE r + 1]

(* listen: the response handler is registered and the first query sent.    *)
listen(n) ==
    /\ asking[n] = "idle"
    /\ ask(n, 0)
    /\ UNCHANGED <<answering, deaths, responded, located>>
AskAgain(n) ==
    /\ asking[n] = "due"
    /\ ask(n, retries[n])
    /\ UNCHANGED <<answering, deaths, responded, located>>

(* The query comes to the primary, which may have no handler (yet).        *)
QueryArrives ==
    /\ queried /\ answering
    /\ responded' = TRUE
    /\ UNCHANGED <<answering, deaths, asking, retries, queried, located>>

(* buildUrl: a response, to whomever, resolves all who listen and hear it. *)
buildUrl(n) ==
    /\ responded /\ asking[n] # "idle" /\ n \notin located
    /\ located' = located \cup {n}
    /\ UNCHANGED <<answering, deaths, asking, retries, queried, responded>>

(* Packets are lost.                                                       *)
Lose ==
    /\ queried \/ responded
    /\ queried' = FALSE /\ responded' = FALSE
    /\ UNCHANGED <<answering, deaths, asking, retries, located>>

SomeAsks == \E n \in Others : listen(n) \/ AskAgain(n)
LocatorNext ==
    \/ answer \/ PrimaryDies \/ SomeAsks \/ QueryArrives
    \/ (\E n \in Others : buildUrl(n)) \/ Lose

(* The primary starts again, everybody's timers fire, and of packets sent  *)
(* again and again some arrive.                                            *)
LocatorFairness ==
    /\ WF_locatorVars(answer)
    /\ \A n \in Others : WF_locatorVars(listen(n) \/ AskAgain(n)) /\ SF_locatorVars(buildUrl(n))
    /\ SF_locatorVars(QueryArrives)
LocatorSpec == LocatorInit /\ [][LocatorNext]_locatorVars /\ LocatorFairness

-----------------------------------------------------------------------------
(* Properties                                                              *)

(* A node that asks finds the switch if it is not a backup, however long   *)
(* its packets are lost, and although the switch may start later, or die   *)
(* and start again.  (A backup may not: it takes over and asks no more.)   *)
SwitchIsFound == \A n \in Others \ Backups : asking[n] # "idle" ~> n \in located
=============================================================================
