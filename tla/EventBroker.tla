----------------------------- MODULE EventBroker -----------------------------
(***************************************************************************)
(* The event broker of one thread, with handlers that subscribe,           *)
(* unsubscribe and fire events while they run.  Source:                    *)
(* domain/event-broker.js.                                                 *)
(*                                                                         *)
(* Nothing here waits, so one callback is many actions: each is what the   *)
(* broker does between the bodies of two handlers, and what a body does    *)
(* (on, off, notify) are actions in between.  The calls of notify under    *)
(* way are frames of a stack.                                              *)
(*                                                                         *)
(* A handler stands for one call of `on', that is for one wrapper.  The    *)
(* array of an event has a number, because off(event) drops it while calls *)
(* of notify may still iterate over it.                                    *)
(***************************************************************************)
EXTENDS Naturals, FiniteSets, SequencesExt, JsArray

CONSTANTS
    Events,      \* names of events
    Handlers,    \* calls of on
    eventOf,     \* the event each handler subscribes to
    Once,        \* the handlers with the option `once'
    Singletons,  \* the handlers with the option `singleton'
    MaxNotifies, \* bound: calls of notify
    MaxDrops     \* bound: calls of off without a handler

ASSUME EventBrokerAssumption ==
    /\ eventOf \in [Handlers -> Events]
    /\ Once \subseteq Handlers /\ Singletons \subseteq Handlers
    /\ MaxNotifies \in Nat /\ MaxDrops \in Nat

VARIABLES
    handlers,  \* the arrays each event had, the one in the map is `current'
    current,   \* 0 if the map has no entry
    asked,     \* the handlers that `on' was called for
    stack,     \* frames of notify; the first is the innermost
    notifies, drops,  \* how many there were
    \* history
    removed,   \* the handlers that off was called for, or that ran once
    late       \* the handlers that were entered after that

brokerVars == <<handlers, current, asked, stack, notifies, drops, removed, late>>

BrokerInit ==
    /\ handlers = [e \in Events |-> <<>>]
    /\ current = [e \in Events |-> 0]
    /\ asked = {} /\ removed = {} /\ late = {}
    /\ stack = <<>> /\ notifies = 0 /\ drops = 0

(* on: a singleton is refused as soon as there is an array.                *)
on(h) ==
    LET e == eventOf[h]
    IN  /\ h \notin asked
        /\ asked' = asked \cup {h}
        /\ \/ /\ current[e] = 0
              /\ handlers' = [handlers EXCEPT ![e] = Append(@, <<h>>)]
              /\ current' = [current EXCEPT ![e] = Len(handlers[e]) + 1]
           \/ /\ current[e] # 0 /\ h \notin Singletons
              /\ handlers' = [handlers EXCEPT ![e][current[e]] = Append(@, h)]
              /\ UNCHANGED current
           \/ /\ current[e] # 0 /\ h \in Singletons
              /\ UNCHANGED <<handlers, current>>
        /\ UNCHANGED <<stack, notifies, drops, removed, late>>

(* off looks for the handler in the array that is in the map now, and      *)
(* splices it.  Variants: the array is replaced; its tail is cut off.      *)
SplicedTail(h) ==
    LET e == eventOf[h]
        Before(a) == SubSeq(a, 1, SelectInSeq(a, LAMBDA x : x = h) - 1)
    IN  handlers' = [handlers EXCEPT ![e][current[e]] = IF Contains(@, h) THEN Before(@) ELSE @]
        /\ UNCHANGED current
Replaced(h) ==
    LET e == eventOf[h]
    IN  /\ handlers' = [handlers EXCEPT ![e] = Append(@, Remove(@[current[e]], h))]
        /\ current' = [current EXCEPT ![e] = Len(handlers[e]) + 1]
Spliced(h) ==
    /\ handlers' = [handlers EXCEPT ![eventOf[h]][current[eventOf[h]]] =
                       IF Contains(@, h) THEN SpliceOut(@, h) ELSE @]
    /\ UNCHANGED current

(* A frame iterates by index over the live array, up to the length it had. *)
Frame(e) ==
    LET a == handlers[e][current[e]]
    IN  [event |-> e, arr |-> current[e], next |-> 1, len |-> Len(a),
         missed |-> ToSet(a), cuts |-> 0]
array(f) == handlers[f.event][f.arr]
AtEnd(f) == f.next > f.len \/ f.next > Len(array(f))

(* Frames take note of a handler that is cut out of their array.           *)
Shortened(frames, h) ==
    LET e == eventOf[h]
        hit(f) == f.event = e /\ f.arr = current[e] /\ Contains(array(f), h)
    IN  [i \in DOMAIN frames |->
            IF hit(frames[i]) THEN [frames[i] EXCEPT !.cuts = @ + 1] ELSE frames[i]]

off(h, frames) ==
    /\ removed' = removed \cup {h}
    /\ stack' = Shortened(frames, h)
    /\ IF current[eventOf[h]] = 0 THEN UNCHANGED <<handlers, current>> ELSE Spliced(h)

(* unsubscribe, called in a body or from outside.                          *)
Unsubscribe(h) ==
    /\ h \in asked \ removed
    /\ off(h, stack)
    /\ UNCHANGED <<asked, notifies, drops, late>>

(* off(eventName) takes the array out of the map.                          *)
OffAll(e) ==
    /\ drops < MaxDrops /\ current[e] # 0
    /\ drops' = drops + 1
    /\ current' = [current EXCEPT ![e] = 0]
    /\ UNCHANGED <<handlers, asked, stack, notifies, removed, late>>

notify(e) ==
    /\ notifies < MaxNotifies /\ current[e] # 0
    /\ notifies' = notifies + 1
    /\ stack' = <<Frame(e)>> \o stack
    /\ UNCHANGED <<handlers, current, asked, drops, removed, late>>

(* The innermost notify comes to its next handler: its conditions may not  *)
(* hold; else its body is entered, and it is removed first if it is once.  *)
Visit ==
    [Head(stack) EXCEPT !.next = @ + 1, !.missed = @ \ {array(Head(stack))[Head(stack).next]}]
eventCallbackWrapper ==
    LET h == array(Head(stack))[Head(stack).next]
        visited == <<Visit>> \o Tail(stack)
    IN  /\ stack # <<>> /\ ~AtEnd(Head(stack))
        /\ \/ /\ stack' = visited
              /\ UNCHANGED <<handlers, current, removed, late>>
           \/ /\ late' = IF h \in removed THEN late \cup {h} ELSE late
              /\ IF h \in Once THEN off(h, visited)
                 ELSE stack' = visited /\ UNCHANGED <<handlers, current, removed>>
        /\ UNCHANGED <<asked, notifies, drops>>

Return ==
    /\ stack # <<>> /\ AtEnd(Head(stack))
    /\ stack' = Tail(stack)
    /\ UNCHANGED <<handlers, current, asked, notifies, drops, removed, late>>

BrokerNext ==
    \/ \E h \in Handlers : on(h) \/ Unsubscribe(h)
    \/ \E e \in Events : OffAll(e) \/ notify(e)
    \/ eventCallbackWrapper \/ Return

BrokerSpec == BrokerInit /\ [][BrokerNext]_brokerVars

-----------------------------------------------------------------------------
(* Properties                                                              *)

EventBrokerTypeOK ==
    /\ \A e \in Events : handlers[e] \in Seq(Seq(Handlers)) /\ current[e] \in 0 .. Len(handlers[e])
    /\ asked \subseteq Handlers /\ removed \subseteq asked
    /\ \A i \in DOMAIN stack :
          /\ stack[i].arr \in 1 .. Len(handlers[stack[i].event])
          /\ stack[i].next \in 1 .. stack[i].len + 1
          /\ stack[i].missed \subseteq {h \in asked : eventOf[h] = stack[i].event}
    /\ late \subseteq removed

(* A handler is not entered after off was called for it, not even by a     *)
(* notify that was under way; nor is a one-time handler after it was       *)
(* entered, although its body or that of another handler fires the event   *)
(* again.  Unless all handlers of the event were dropped in between.       *)
RemovedStaysSilent == drops = 0 => late = {}

(* notify passes over a handler that was there when it began, and was not  *)
(* removed, only because another one was cut out of the array meanwhile:   *)
(* each cut costs at most one handler its event.                           *)
EachCutCostsOne ==
    \A i \in DOMAIN stack :
        AtEnd(stack[i]) =>
            Cardinality(stack[i].missed \ removed) <= stack[i].cuts
=============================================================================
