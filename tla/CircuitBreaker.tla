--------------------------- MODULE CircuitBreaker ---------------------------
(***************************************************************************)
(* One circuit of src/domain/circuit-breaker.js: the log of a circuit id,  *)
(* and the calls of invoke on it.                                          *)
(*                                                                         *)
(* The breaker has no state of its own.  invoke and logError read the      *)
(* state of the LAST log entry and append to the log; what a call goes on  *)
(* to log when the protected function settles is the state that this call  *)
(* read when it began.  An action is one callback of the event loop.       *)
(*                                                                         *)
(* Fallback functions, the value a call returns and the names in entries   *)
(* are left out.                                                           *)
(***************************************************************************)
EXTENDS Integers, FiniteSets, SequencesExt

CONSTANTS
    Calls,        \* calls of invoke
    Errors,       \* errors the protected function may throw
    Interval,     \* threshold.intervalMs, by error or None (the default)
    CallVolume,   \* threshold.callVolume
    ErrorRate,    \* threshold.errorRate, percent
    RetryDelay,   \* the default threshold's retryDelay; Undefined if not set
    MaxLag,       \* bound: how far Date.now() may move within one callback
    Horizon,      \* bound: the last instant
    MaxEvents,    \* bound: how many error events are detected
    None,         \* no error
    Undefined

Causes == Errors \cup {None}

ASSUME BreakerAssumption ==
    /\ None \notin Errors
    /\ Interval \in [Causes -> Nat \ {0}]
    /\ CallVolume \in [Causes -> Nat]
    /\ ErrorRate \in [Causes -> Nat]
    /\ RetryDelay \in Nat \cup {Undefined}
    /\ Undefined \notin Nat
    /\ MaxLag \in Nat /\ Horizon \in Nat /\ MaxEvents \in Nat

VARIABLES
    log,     \* the circuit's entry of logs
    phase,   \* "new", "calling" (admitted by a closed breaker), "testing", "done"
    now,     \* Date.now()
    events   \* how many error events were detected

vars == <<log, phase, now, events>>

States == {"Open", "Closed", "HalfOpen"}
Entries == [time : Nat, state : States, error : Causes]

-----------------------------------------------------------------------------
(* Helpers                                                                 *)

getState(l) == IF l = <<>> THEN "Closed" ELSE l[Len(l)].state

(* Variant: the entry bears a later time.                                  *)
appendAhead(l, s, e) == Append(l, [time |-> now + 1, state |-> s, error |-> e])
appendLog(l, s, e) == Append(l, [time |-> now, state |-> s, error |-> e])

entriesInScope(l, e) == {i \in DOMAIN l : l[i].time > now - Interval[e]}
errorsInScope(l, e)  == {i \in entriesInScope(l, e) : l[i].error # None}

(* wasThresholdBreached: entries, not calls, make up the volume.  Variant: *)
(* that volume itself is too much.                                         *)
thresholdReached(l, e) ==
    LET volume == Cardinality(entriesInScope(l, e))
        failed == Cardinality(errorsInScope(l, e))
    IN  volume >= CallVolume[e] /\ failed * 100 > ErrorRate[e] * volume
wasThresholdBreached(l, e) ==
    LET volume == Cardinality(entriesInScope(l, e))
        failed == Cardinality(errorsInScope(l, e))
    IN  volume > CallVolume[e] /\ failed * 100 > ErrorRate[e] * volume

(* wasThresholdBreached('breakerTest'), after a test: one error is enough. *)
recentError(l) == errorsInScope(l, None) # {}

(* readyToTest looks at the entry this very call has just logged, lag      *)
(* milliseconds ago; no number exceeds undefined.                          *)
readyToTest(lag) == RetryDelay # Undefined /\ lag > RetryDelay

-----------------------------------------------------------------------------
Init ==
    /\ log = <<>>
    /\ phase = [c \in Calls |-> "new"]
    /\ now = 0
    /\ events = 0

Become(c, from, to) ==
    /\ phase[c] = from
    /\ phase' = [phase EXCEPT ![c] = to]

(* invoke logs the call, then switches on the state it read before.        *)
InvokeClosed(c) ==
    /\ getState(log) = "Closed"
    /\ Become(c, "new", "calling")
    /\ log' = appendLog(log, "Closed", None)
    /\ UNCHANGED <<now, events>>

(* Variant: the call is let through.                                       *)
InvokeAnyway(c) ==
    /\ getState(log) = "Open"
    /\ Become(c, "new", "calling")
    /\ log' = appendLog(log, "Open", None)
    /\ UNCHANGED <<now, events>>
InvokeSuppressed(c) ==
    /\ getState(log) = "Open"
    /\ \E lag \in 0..MaxLag : ~readyToTest(lag)
    /\ Become(c, "new", "done")
    /\ log' = appendLog(log, "Open", None)
    /\ UNCHANGED <<now, events>>

InvokeTest(c) ==
    /\ getState(log) = "Open"
    /\ \E lag \in 0..MaxLag : readyToTest(lag)
    /\ Become(c, "new", "testing")
    /\ log' = appendLog(appendLog(log, "Open", None), "HalfOpen", None)
    /\ UNCHANGED <<now, events>>

InvokeHalfOpen(c) ==
    /\ getState(log) = "HalfOpen"
    /\ Become(c, "new", "testing")
    /\ log' = appendLog(log, "HalfOpen", None)
    /\ UNCHANGED <<now, events>>

(* The protected function returns, or throws: log the error as Closed,     *)
(* whatever the breaker is by now; then trip if that was one too many.     *)
CallReturns(c) ==
    /\ Become(c, "calling", "done")
    /\ UNCHANGED <<log, now, events>>

CallFails(c, e) ==
    /\ Become(c, "calling", "done")
    /\ LET failed == appendLog(log, "Closed", e)
       IN  log' = IF wasThresholdBreached(failed, e)
                  THEN appendLog(failed, "Open", None)
                  ELSE failed
    /\ UNCHANGED <<now, events>>

(* The test succeeded: reset, unless there was an error of late.  Variant: *)
(* the entry is logged without the new state.                              *)
verdictForgotten == IF recentError(log) THEN "Open" ELSE getState(log)
verdict == IF recentError(log) THEN "Open" ELSE "Closed"

TestReturns(c) ==
    /\ Become(c, "testing", "done")
    /\ log' = appendLog(log, verdict, None)
    /\ UNCHANGED <<now, events>>

TestFails(c, e) ==
    /\ Become(c, "testing", "done")
    /\ log' = appendLog(log, "Open", e)
    /\ UNCHANGED <<now, events>>

(* logError: an event that counts as an error.  It is judged by the log    *)
(* without its own entry, and never closes the breaker.                    *)
logError(e) ==
    /\ events < MaxEvents
    /\ events' = events + 1
    /\ log' = appendLog(log, IF \/ getState(log) = "HalfOpen"
                                \/ wasThresholdBreached(log, None)
                             THEN "Open" ELSE getState(log), e)
    /\ UNCHANGED <<phase, now>>

Tick ==
    /\ now < Horizon
    /\ now' = now + 1
    /\ UNCHANGED <<log, phase, events>>

Next ==
    \/ \E c \in Calls : InvokeClosed(c) \/ InvokeSuppressed(c)
    \/ \E c \in Calls : InvokeTest(c) \/ InvokeHalfOpen(c)
    \/ \E c \in Calls : CallReturns(c) \/ TestReturns(c)
    \/ \E c \in Calls, e \in Errors : CallFails(c, e) \/ TestFails(c, e)
    \/ \E e \in Errors : logError(e)
    \/ Tick

Spec == Init /\ [][Next]_vars

-----------------------------------------------------------------------------
(* Properties                                                              *)

(* The log is in order of time and nothing in it lies in the future.       *)
BreakerTypeOK ==
    /\ log \in Seq(Entries)
    /\ phase \in [Calls -> {"new", "calling", "testing", "done"}]
    /\ now \in Nat
    /\ events \in Nat
    /\ \A i \in DOMAIN log : log[i].time <= now

(* A half-open breaker is under test: some call is out whose end will open *)
(* or close it.  Whatever calls, late failures and error events overlap,   *)
(* it never stays half open with nobody left to decide.                    *)
HalfOpenIsTested ==
    getState(log) = "HalfOpen" => \E c \in Calls : phase[c] = "testing"

(* The breaker opens only on evidence: a call failed, or an error event    *)
(* came, when more entries than callVolume lay within the interval of that *)
(* error and more than errorRate percent of them were errors; or an error  *)
(* event came while the breaker was half open; or a test ended, and there  *)
(* was an error within the default interval.  Whatever overlaps, nothing   *)
(* else opens it.                                                          *)
Recent(l, e) == {i \in DOMAIN l : now < l[i].time + Interval[e]}
Failed(l, e) == {i \in Recent(l, e) : l[i].error # None}
Overloaded(l, e) ==
    /\ Cardinality(Recent(l, e)) > CallVolume[e]
    /\ Cardinality(Failed(l, e)) * 100 > ErrorRate[e] * Cardinality(Recent(l, e))
Trips == getState(log) # "Open" /\ getState(log') = "Open"
CallEnds == \E c \in Calls : phase[c] = "calling" /\ phase'[c] = "done"
TestEnds == \E c \in Calls : phase[c] = "testing" /\ phase'[c] = "done"
Evidence ==
    \/ CallEnds /\ Last(Front(log')).error \in Errors
                /\ Overloaded(Front(log'), Last(Front(log')).error)
    \/ TestEnds /\ Failed(log', None) # {}
    \/ events' > events /\ (getState(log) = "HalfOpen" \/ Overloaded(log, None))
OpensOnEvidence == [][Trips => Evidence]_vars

Inside(p) == {c \in Calls : phase[c] = p}
Promise == INSTANCE BreakerPromise WITH
    state <- getState(log), calling <- Inside("calling"), testing <- Inside("testing")

(* Seen from outside, the log is a switch with three positions: a closed   *)
(* breaker admits, an open one does not, and only who is inside, or an     *)
(* error event, moves it.  Nothing but the end of a test closes it, except *)
(* that a call which fails late does.                                      *)
KeepsPromise == Promise!SpecButLate

(* "It remains open until a test interval has elapsed, at which point it   *)
(* is switched to half-open": an open breaker is not closed without a test.*)
RemainsOpen == [][getState(log) = "Open" => getState(log') # "Closed"]_vars

(* "It remains open until a test interval has elapsed, at which point it   *)
(* is switched to half-open": a call is turned away only if the breaker    *)
(* has been open for no longer than the retry delay.                       *)
OpenSince == CHOOSE i \in DOMAIN log :
    /\ \A k \in i..Len(log) : log[k].state = "Open"
    /\ i = 1 \/ log[i - 1].state # "Open"
RetestsAfterDelay ==
    [][\A c \in Calls : phase[c] = "new" /\ phase'[c] = "done" =>
          now - log[OpenSince].time <= RetryDelay]_vars
=============================================================================
