-------------------------------- MODULE Ports --------------------------------
(***************************************************************************)
(* The workflow of one model: a chain of ports, each triggered by the      *)
(* event the one before produces.  Sources: domain/make-ports.js,          *)
(* domain/port-handler.js, domain/undo.js, domain/model.js (update, load)  *)
(* and domain/use-cases/load-models.js (startWorkflow).                    *)
(*                                                                         *)
(* The workflow is begun when the model is created, and once more by each  *)
(* worker that loads it: these are its runs.  A call of a port function is *)
(* known by its run and, for each port of the run up to its own, the try   *)
(* (the first call or a retry) that led to it.                             *)
(*                                                                         *)
(* A model is immutable, but its copies share one portFlow array, which    *)
(* compensate splices.  The array a call makes has the name of the call;   *)
(* the array a run begins with, that of the run without tries.             *)
(*                                                                         *)
(* An action is one callback: an adapter answers, a timer fires, a save    *)
(* ends, an undo function ends.                                            *)
(***************************************************************************)
EXTENDS Naturals, Sequences, FiniteSets, SequencesExt

CONSTANTS
    LastPort,    \* the chain of ports is 1 .. LastPort
    maxRetry,    \* portConf.maxRetry of each port
    Undoable,    \* the ports with an undo function
    MaxIncidents \* bound: callbacks that update the model, adapters that throw,
                 \* saves refused, loads by a worker, restarts, uses of undo

Chain == 1 .. LastPort

ASSUME PortsAssumption ==
    /\ LastPort \in Nat \ {0}
    /\ maxRetry \in [Chain -> Nat \ {0}]
    /\ Undoable \subseteq Chain
    /\ MaxIncidents \in Nat

VARIABLES
    runs,       \* the port each run of the workflow began with
    calls,      \* the calls of port functions by name
    arrays,     \* the contents of the portFlow arrays by name
    document,   \* the model's document: portFlow and compensate
    undo,       \* the run of compensate
    incidents,  \* how many there were
    \* history
    answered,   \* the ports whose adapter has returned
    undone,     \* the ports whose undo function succeeded, in order
    gaveUp,     \* some port reached its last retry
    halted      \* a save was refused, or nothing was recorded to resume

workflowHistory == <<answered, undone, gaveUp, halted>>
workflowVars == <<runs, calls, arrays, document, undo, incidents, workflowHistory>>

Name(run, tries) == [run |-> run, tries |-> tries]
Calls   == DOMAIN calls
port(c) == runs[c.run] + Len(c.tries) - 1
try(c)  == c.tries[Len(c.tries)]
cause(c) == Name(c.run, SubSeq(c.tries, 1, Len(c.tries) - 1))

\* calls or arrays f, with the value v for the name c
With(f, c, v) == [x \in DOMAIN f \cup {c} |-> IF x = c THEN v ELSE f[x]]

Incident == incidents < MaxIncidents /\ incidents' = incidents + 1

-----------------------------------------------------------------------------
(* portFn: setPortTimeout throws if this is one retry too many; else it    *)
(* arms a timer, and the adapter is called.  Variant: the limit counts the *)
(* retries alone, not the first call.                                      *)
expiredLater(c, p) == try(c) - 1 > maxRetry[p]
expired(c, p) == try(c) > maxRetry[p]
portFn(cs, c, p) ==
    IF expired(c, p) THEN cs
    ELSE With(cs, c, [pc |-> "adapter", timer |-> TRUE, wrote |-> FALSE])

(* The array of the model that a port is called on: the one that the call  *)
(* before made.  A model that was loaded has string keys, too, so each     *)
(* listener loads it again with the portFlow it had under those.           *)
getPortFlow(c) == IF c.run = 1 THEN cause(c) ELSE Name(c.run, <<>>)

WorkflowInit ==
    LET root == Name(1, <<>>)
    IN  /\ runs = <<1>>
        /\ arrays = [a \in {root} |-> <<>>]
        /\ calls = [c \in {Name(1, <<1>>)} |->
                       [pc |-> "adapter", timer |-> TRUE, wrote |-> FALSE]]
        /\ document = [flow |-> <<>>, compensate |-> FALSE]
        /\ undo = [pc |-> "idle", arr |-> root, ports |-> <<>>, index |-> 0, flow |-> <<>>]
        /\ incidents = 0
        /\ answered = {} /\ undone = <<>> /\ gaveUp = FALSE /\ halted = FALSE

(* The flow that updatePortFlow writes: that of the model the port was     *)
(* called on, and the port.  Variant: what is stored by now, and the port. *)
latestFlow(c) == Append(document.flow, port(c))
newFlow(c) == Append(arrays[getPortFlow(c)], port(c))

(* The default callback of an adapter updates the model it was called      *)
(* with, whatever became of it since.  Variant: it records the port.       *)
portHandlerRecords(c) ==
    /\ Incident
    /\ calls[c].pc = "adapter" /\ ~calls[c].wrote
    /\ calls' = [calls EXCEPT ![c].wrote = TRUE]
    /\ document' = [flow |-> newFlow(c), compensate |-> FALSE]
    /\ UNCHANGED <<runs, arrays, undo, workflowHistory>>
portHandler(c) ==
    /\ Incident
    /\ calls[c].pc = "adapter" /\ ~calls[c].wrote
    /\ calls' = [calls EXCEPT ![c].wrote = TRUE]
    /\ document' = [flow |-> arrays[getPortFlow(c)], compensate |-> FALSE]
    /\ UNCHANGED <<runs, arrays, undo, workflowHistory>>

Ends(c, outcome, timer) ==
    calls' = [calls EXCEPT ![c] = [pc |-> outcome, timer |-> timer, wrote |-> FALSE]]

(* The adapter returns: the timer is stopped, the port is pushed on the    *)
(* flow, and the save of the updated model begins.                         *)
AdapterReturns(c) ==
    /\ calls[c].pc = "adapter"
    /\ arrays' = With(arrays, c, newFlow(c))
    /\ Ends(c, "saving", FALSE)
    /\ answered' = answered \cup {port(c)}
    /\ UNCHANGED <<runs, document, undo, incidents, undone, gaveUp, halted>>

(* The adapter throws; its timer goes on.  Variant: it is stopped, too.    *)
AdapterThrowsStops(c) ==
    /\ Incident /\ calls[c].pc = "adapter"
    /\ Ends(c, "failed", FALSE)
    /\ UNCHANGED <<runs, arrays, document, undo, workflowHistory>>
AdapterThrows(c) ==
    /\ Incident /\ calls[c].pc = "adapter"
    /\ Ends(c, "failed", calls[c].timer)
    /\ UNCHANGED <<runs, arrays, document, undo, workflowHistory>>

(* The updated model is saved, and the event produced calls the next port. *)
SaveEnds(c) ==
    LET next == Name(c.run, Append(c.tries, 1))
        ended == [calls EXCEPT ![c].pc = "done"]
    IN  /\ calls[c].pc = "saving"
        /\ document' = [flow |-> arrays[c], compensate |-> FALSE]
        /\ calls' = IF port(c) = LastPort THEN ended ELSE portFn(ended, next, port(c) + 1)
        /\ UNCHANGED <<runs, arrays, undo, incidents, workflowHistory>>

(* The save is refused: the call fails, its timer has been stopped.        *)
SaveFails(c) ==
    /\ Incident /\ calls[c].pc = "saving"
    /\ Ends(c, "failed", FALSE)
    /\ halted' = TRUE
    /\ UNCHANGED <<runs, arrays, document, undo, answered, undone, gaveUp>>

(* A retry is passed one more argument than the call it repeats.           *)
getRetries(c) == Name(c.run, Append(cause(c).tries, try(c) + 1))

(* The timer fires while the adapter is out, or after it threw: the port   *)
(* is called again on the same model.  (The code returns if that model is  *)
(* marked for compensation, but no port is ever called on one that is.)    *)
TimerFires(c) ==
    LET off == [calls EXCEPT ![c].timer = FALSE]
        again == getRetries(c)
    IN  /\ calls[c].timer
        /\ calls' = portFn(off, again, port(c))
        /\ gaveUp' = (gaveUp \/ expired(again, port(c)))
        /\ UNCHANGED <<runs, arrays, document, undo, incidents, answered, undone, halted>>

-----------------------------------------------------------------------------
(* Compensation: model.undo(), called in an adapter on the model it got, or *)
(* by a listener on the model that a port produced.                        *)

(* The ports as the fold visits them, from the end.  Variant: reduce in    *)
(* place of reduceRight.                                                   *)
reduce(flow) == Reverse(flow)
reduceRight(flow) == flow

(* The model is marked and saved; the undo functions of its flow are       *)
(* chained at once, and none is run if that save is refused.               *)
UndoBegins(c) ==
    LET arr == IF calls[c].pc = "done" THEN c ELSE getPortFlow(c)
    IN  /\ Incident
        /\ calls[c].pc \in {"adapter", "done"} /\ undo.pc = "idle"
        /\ \E saved \in BOOLEAN :
              /\ undo' = [pc |-> IF saved THEN "undoing" ELSE "failed", arr |-> arr,
                          ports |-> reduceRight(arrays[arr]),
                          index |-> Len(arrays[arr]), flow |-> arrays[arr]]
              /\ document' = IF saved THEN [flow |-> arrays[arr], compensate |-> TRUE] ELSE document
        /\ UNCHANGED <<runs, calls, arrays, workflowHistory>>

UndoOf(ps) == undo.pc = "undoing" /\ undo.index > 0 /\ undo.ports[undo.index] \in ps

(* A port without an undo function passes the model on.                    *)
UndoPasses ==
    /\ UndoOf(Chain \ Undoable)
    /\ undo' = [undo EXCEPT !.index = @ - 1]
    /\ UNCHANGED <<runs, calls, arrays, document, incidents, workflowHistory>>

(* Its undo function ends.  It is called by a circuit breaker, whose       *)
(* invoke never rejects: an undo function that throws, or that an open     *)
(* breaker does not call, is passed over like one that works.  Then        *)
(* arr.splice(0, index + 1) removes the ports up to this one from the      *)
(* array that was the model's, and returns them; they are the flow of the  *)
(* updated model.  If the save of that is refused, the rest is not run.    *)
UndoReturns(works, saved) ==
    LET arr == arrays[undo.arr]
        cut == IF undo.index < Len(arr) THEN undo.index ELSE Len(arr)
        removed == SubSeq(arr, 1, cut)
    IN  /\ UndoOf(Undoable)
        /\ arrays' = [arrays EXCEPT ![undo.arr] = SubSeq(arr, cut + 1, Len(arr))]
        /\ undo' = [undo EXCEPT !.index = @ - 1, !.flow = removed,
                               !.pc = IF saved THEN @ ELSE "failed"]
        /\ document' = IF saved THEN [flow |-> removed, compensate |-> TRUE] ELSE document
        /\ undone' = IF works THEN Append(undone, undo.ports[undo.index]) ELSE undone
        /\ UNCHANGED <<runs, calls, answered, gaveUp, halted>>

UndoWorks   == UndoReturns(TRUE, TRUE) /\ UNCHANGED incidents
UndoFails   == UndoReturns(FALSE, TRUE) /\ UNCHANGED incidents
UndoRefused == Incident /\ \E works \in BOOLEAN : UndoReturns(works, FALSE)

(* The end: COMPLETE if nothing is left in the flow.  Nobody waits for the *)
(* save of the status, which may be refused.                               *)
reportStatus ==
    /\ undo.pc = "undoing" /\ undo.index = 0
    /\ undo' = [undo EXCEPT !.pc = IF undo.flow = <<>> THEN "complete" ELSE "incomplete"]
    /\ document' \in {document, [flow |-> undo.flow, compensate |-> TRUE]}
    /\ UNCHANGED <<runs, calls, arrays, incidents, workflowHistory>>

-----------------------------------------------------------------------------
(* A worker that starts loads the model and goes on after the last port    *)
(* that is recorded, unless the model is being undone.                     *)
startWorkflow(cs) ==
    LET flow == document.flow
        run == Len(runs) + 1
    IN  IF flow # <<>> /\ ~document.compensate /\ flow[Len(flow)] # LastPort
        THEN /\ runs' = Append(runs, flow[Len(flow)] + 1)
             /\ arrays' = With(arrays, Name(run, <<>>), flow)
             /\ calls' = portFn(cs, Name(run, <<1>>), flow[Len(flow)] + 1)
        ELSE calls' = cs /\ UNCHANGED <<runs, arrays>>

WorkerLoads ==
    /\ Incident
    /\ startWorkflow(calls)
    /\ UNCHANGED <<document, undo, workflowHistory>>

(* The process dies, with what it had in memory, and its worker starts     *)
(* again.                                                                  *)
WorkerDies ==
    /\ Incident
    /\ undo' = [undo EXCEPT !.pc = IF @ = "undoing" THEN "lost" ELSE @]
    /\ halted' = (halted \/ document.flow = <<>>)
    /\ startWorkflow([c \in Calls |-> [pc |-> "lost", timer |-> FALSE, wrote |-> FALSE]])
    /\ UNCHANGED <<document, answered, undone, gaveUp>>

SomeSaveSettles == \E c \in Calls : SaveEnds(c) \/ SaveFails(c)
SomeTimerFires  == \E c \in Calls : TimerFires(c)
WorkflowNext ==
    \/ SomeSaveSettles \/ SomeTimerFires
    \/ \E c \in Calls : portHandler(c) \/ AdapterReturns(c) \/ AdapterThrows(c) \/ UndoBegins(c)
    \/ UndoPasses \/ UndoWorks \/ UndoFails \/ UndoRefused \/ reportStatus
    \/ WorkerLoads \/ WorkerDies

(* Timers fire and saves settle; an adapter may never answer.              *)
WorkflowFairness == WF_workflowVars(SomeSaveSettles) /\ WF_workflowVars(SomeTimerFires)
WorkflowSpec == WorkflowInit /\ [][WorkflowNext]_workflowVars /\ WorkflowFairness

-----------------------------------------------------------------------------
(* Properties                                                              *)

Flows == UNION {[1 .. n -> Chain] : n \in 0 .. LastPort}
PortsTypeOK ==
    /\ \A r \in DOMAIN runs : runs[r] \in Chain
    /\ \A c \in Calls :
          /\ port(c) \in Chain
          /\ try(c) \in 1 .. maxRetry[port(c)]
          /\ getPortFlow(c) \in DOMAIN arrays
          /\ calls[c].pc \in {"adapter", "saving", "done", "failed", "lost"}
          /\ calls[c].timer => calls[c].pc \in {"adapter", "failed"}
    /\ \A a \in DOMAIN arrays : arrays[a] \in Flows
    /\ document.flow \in Flows /\ document.compensate \in BOOLEAN
    /\ undo.pc \in {"idle", "undoing", "failed", "complete", "incomplete", "lost"}
    /\ undo.arr \in DOMAIN arrays
    /\ answered \subseteq Chain

Increasing(s) == \A i, j \in DOMAIN s : i < j => s[i] < s[j]

(* However often ports time out and are called again, and however late     *)
(* their answers come, no recorded flow holds a port twice or in another   *)
(* order than the chain's.                                                 *)
FlowInOrder ==
    /\ \A a \in DOMAIN arrays : Increasing(arrays[a])
    /\ Increasing(document.flow)

(* A port is called only when all ports before it have answered, and it is *)
(* recorded only when it has, so a workflow that a worker resumes skips    *)
(* nothing.                                                                *)
NothingSkipped ==
    /\ \A c \in Calls : 1 .. port(c) - 1 \subseteq answered
    /\ \A i \in DOMAIN document.flow : document.flow[i] \in answered

(* Every answer that comes after a retry continues the chain once more, so *)
(* the calls of port k multiply: but to no more than the product of the    *)
(* retry limits up to k, for each run of the workflow.                     *)
Storm[k \in 0 .. LastPort] == IF k = 0 THEN 1 ELSE maxRetry[k] * Storm[k - 1]
StormBounded ==
    \A k \in Chain : Cardinality({c \in Calls : port(c) = k}) <= Storm[k] * Len(runs)

(* What is undone is undone in reverse and each port once, although        *)
(* compensate splices the array it folds over.                             *)
UndoneInReverse == \A i, j \in DOMAIN undone : i < j => undone[i] > undone[j]

(* A workflow is a saga, whatever is retried, answers late, is loaded      *)
(* again or dies: a port is done when those before it are, and compensate  *)
(* takes back ports that are done, the last one first, each once, passing  *)
(* over those whose undo function fails.                                   *)
Sagas == INSTANCE Saga WITH
    LastStep <- LastPort, done <- answered, phase <- undo.pc,
    plan <- undo.ports, left <- undo.index
RunsAsSaga == Sagas!Spec

(* "success: remove from list": COMPLETE is reported only if the undo      *)
(* function of each port of the flow that has one succeeded.               *)
CompleteMeansUndone ==
    undo.pc = "complete" => Range(undo.ports) \cap Undoable \subseteq Range(undone)

(* Whoever calls undo in the run that the model was created in has         *)
(* compensate go through all ports before his own, however many of them    *)
(* were retried or answered twice.  Not so in a run that a worker resumed: *)
(* its flow grows by one port only.                                        *)
UndoIsCalled == undo.pc = "idle" /\ undo'.pc # "idle"
BacksOut == \E c \in Calls : UndoBegins(c) /\ 1 .. port(c) - 1 \subseteq Range(undo'.ports)
OwnRunBackedOut == [][UndoIsCalled /\ undo'.arr.run = 1 => BacksOut]_workflowVars

(* The workflow comes to an end although adapters may never answer and     *)
(* workers die: all ports answer, or one is given up after its last retry. *)
(* Not so when a save is refused, when a restart finds nothing recorded,   *)
(* or when somebody undoes the model.                                      *)
WorkflowEnds == <>(answered = Chain \/ gaveUp \/ halted \/ undo.pc # "idle")
=============================================================================
