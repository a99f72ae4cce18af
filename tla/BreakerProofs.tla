--------------------------- MODULE BreakerProofs ----------------------------
(***************************************************************************)
(* Proofs about CircuitBreaker, for any calls, errors, thresholds, delays  *)
(* and bounds.                                                             *)
(***************************************************************************)
EXTENDS CircuitBreaker, SequenceTheorems, FiniteSetTheorems, TLAPS

(* What appending an entry does to a log: its state is the new entry's,    *)
(* and the older entries stay.                                             *)
LEMMA AppendLogFacts ==
    ASSUME NEW l \in Seq(Entries), now \in Nat, NEW s \in States, NEW e \in Causes
    PROVE  /\ appendLog(l, s, e) \in Seq(Entries)
           /\ Len(appendLog(l, s, e)) = Len(l) + 1
           /\ DOMAIN appendLog(l, s, e) = 1..(Len(l) + 1)
           /\ \A i \in 1..Len(l) : appendLog(l, s, e)[i] = l[i]
           /\ appendLog(l, s, e)[Len(l) + 1] = [time |-> now, state |-> s, error |-> e]
           /\ getState(appendLog(l, s, e)) = s
<1> DEFINE r == [time |-> now, state |-> s, error |-> e]
<1>1. r \in Entries
  BY DEF Entries
<1>2. appendLog(l, s, e) = Append(l, r)
  BY DEF appendLog
<1> HIDE DEF r
<1>3. /\ Append(l, r) \in Seq(Entries) /\ Len(Append(l, r)) = Len(l) + 1
      /\ \A i \in 1..Len(l) : Append(l, r)[i] = l[i]
      /\ Append(l, r)[Len(l) + 1] = r
  BY <1>1, AppendProperties
<1>4. DOMAIN Append(l, r) = 1..(Len(l) + 1) /\ Append(l, r) # <<>>
  BY <1>3, LenProperties
<1>5. r.state = s
  BY DEF r
<1> QED BY <1>2, <1>3, <1>4, <1>5 DEF getState, r

(* The last entry is the state.                                            *)
LEMMA StateAfter ==
    ASSUME NEW l \in Seq(Entries), now \in Nat, NEW s \in States, NEW e \in Causes
    PROVE  getState(appendLog(l, s, e)) = s
BY AppendLogFacts

(* The entries of a log are in order of the clock.                         *)
InOrder(l) == \A i \in DOMAIN l : l[i].time <= now

LEMMA AppendInOrder ==
    ASSUME NEW l \in Seq(Entries), now \in Nat, NEW s \in States, NEW e \in Causes, InOrder(l)
    PROVE  InOrder(appendLog(l, s, e))
<1>1. DOMAIN l = 1..Len(l) /\ Len(l) \in Nat
  BY LenProperties
<1>3. \A i \in 1..Len(l) : appendLog(l, s, e)[i] = l[i]
  BY AppendLogFacts
<1>2. ASSUME NEW i \in 1..(Len(l) + 1) PROVE appendLog(l, s, e)[i].time <= now
  <2>1. CASE i = Len(l) + 1
    <3>1. appendLog(l, s, e)[i] = [time |-> now, state |-> s, error |-> e]
      BY <2>1, AppendLogFacts
    <3>2. appendLog(l, s, e)[i].time = now
      BY <3>1
    <3> QED BY <3>2
  <2>2. CASE i \in 1..Len(l)
    <3>1. appendLog(l, s, e)[i] = l[i]
      BY <1>3, <2>2
    <3> QED BY <1>1, <2>2, <3>1 DEF InOrder
  <2> QED BY <1>1, <2>1, <2>2
<1> QED BY <1>2, AppendLogFacts DEF InOrder

(* The state of a log is one of the three.                                 *)
LEMMA StateType == ASSUME NEW l \in Seq(Entries) PROVE getState(l) \in States
<1>1. CASE l = <<>>
  BY <1>1 DEF getState, States
<1>2. CASE l # <<>>
  <2>1. Len(l) \in 1..Len(l) /\ l[Len(l)] \in Entries
    BY <1>2, LenProperties, EmptySeq, ElementOfSeq
  <2> QED BY <1>2, <2>1 DEF getState, Entries
<1> QED BY <1>1, <1>2

Logs == {l \in Seq(Entries) : InOrder(l)}

(* One more entry, and a log is still one.                                 *)
LEMMA AppendType ==
    ASSUME NEW l \in Logs, now \in Nat, NEW s \in States, NEW e \in Causes
    PROVE  appendLog(l, s, e) \in Logs
BY AppendLogFacts, AppendInOrder DEF Logs

LEMMA TypeStep == BreakerTypeOK /\ [Next]_vars => BreakerTypeOK'
<1> SUFFICES ASSUME BreakerTypeOK, [Next]_vars PROVE BreakerTypeOK'
  OBVIOUS
<1> DEFINE Phases == {"new", "calling", "testing", "done"}
<1>1. /\ log \in Logs /\ phase \in [Calls -> Phases] /\ now \in Nat /\ events \in Nat
      /\ None \in Causes /\ \A e \in Errors : e \in Causes
      /\ {"Open", "Closed", "HalfOpen"} \subseteq States
      /\ getState(log) \in States
  BY StateType DEF BreakerTypeOK, Logs, InOrder, Causes, States
<1>2. ASSUME log' \in Logs, phase' \in [Calls -> Phases], now' = now, events' \in Nat
      PROVE  BreakerTypeOK'
  BY <1>1, <1>2 DEF BreakerTypeOK, Logs, InOrder
<1>3. ASSUME NEW c \in Calls, NEW p \in Phases, NEW q \in Phases, Become(c, p, q)
      PROVE  phase' \in [Calls -> Phases]
  BY <1>1, <1>3 DEF Become
<1>4. ASSUME NEW c \in Calls, InvokeClosed(c) \/ InvokeSuppressed(c) \/ InvokeHalfOpen(c)
      PROVE  BreakerTypeOK'
  <2>1. log' \in Logs
    BY <1>1, <1>4, AppendType DEF InvokeClosed, InvokeSuppressed, InvokeHalfOpen
  <2> QED BY <1>1, <1>2, <1>3, <1>4, <2>1 DEF InvokeClosed, InvokeSuppressed, InvokeHalfOpen
<1>5. ASSUME NEW c \in Calls, InvokeTest(c) PROVE BreakerTypeOK'
  <2>1. appendLog(log, "Open", None) \in Logs
    BY <1>1, AppendType
  <2>2. log' \in Logs
    BY <1>1, <1>5, <2>1, AppendType DEF InvokeTest
  <2> QED BY <1>1, <1>2, <1>3, <1>5, <2>2 DEF InvokeTest
<1>6. ASSUME NEW c \in Calls, CallReturns(c) PROVE BreakerTypeOK'
  BY <1>1, <1>2, <1>3, <1>6 DEF CallReturns
<1>7. ASSUME NEW c \in Calls, NEW e \in Errors, CallFails(c, e) PROVE BreakerTypeOK'
  <2>1. appendLog(log, "Closed", e) \in Logs
    BY <1>1, AppendType
  <2>2. appendLog(appendLog(log, "Closed", e), "Open", None) \in Logs
    BY <1>1, <2>1, AppendType
  <2>3. log' \in Logs
    BY <1>7, <2>1, <2>2 DEF CallFails
  <2> QED BY <1>1, <1>2, <1>3, <1>7, <2>3 DEF CallFails
<1>8. ASSUME NEW c \in Calls, TestReturns(c) PROVE BreakerTypeOK'
  <2>1. verdict \in States
    BY DEF verdict, States
  <2>2. log' \in Logs
    BY <1>1, <1>8, <2>1, AppendType DEF TestReturns
  <2> QED BY <1>1, <1>2, <1>3, <1>8, <2>2 DEF TestReturns
<1>9. ASSUME NEW c \in Calls, NEW e \in Errors, TestFails(c, e) PROVE BreakerTypeOK'
  <2>1. log' \in Logs
    BY <1>1, <1>9, AppendType DEF TestFails
  <2> QED BY <1>1, <1>2, <1>3, <1>9, <2>1 DEF TestFails
<1>10. ASSUME NEW e \in Errors, logError(e) PROVE BreakerTypeOK'
  <2>1. log' \in Logs
    BY <1>1, <1>10, AppendType DEF logError
  <2> QED BY <1>1, <1>2, <1>10, <2>1 DEF logError
<1>11. CASE Tick
  <2>1. now' \in Nat /\ now <= now' /\ log' = log /\ phase' = phase /\ events' = events
    BY <1>1, <1>11 DEF Tick
  <2>2. \A i \in DOMAIN log : log[i].time <= now'
    <3> SUFFICES ASSUME NEW i \in DOMAIN log PROVE log[i].time <= now'
      OBVIOUS
    <3>1. log[i] \in Entries /\ log[i].time <= now
      BY LenProperties, ElementOfSeq DEF BreakerTypeOK
    <3> QED BY <1>1, <2>1, <3>1 DEF Entries
  <2> QED BY <2>1, <2>2 DEF BreakerTypeOK
<1>12. CASE UNCHANGED vars
  BY <1>12 DEF vars, BreakerTypeOK
<1> QED
  BY <1>4, <1>5, <1>6, <1>7, <1>8, <1>9, <1>10, <1>11, <1>12 DEF Next

(* The log stays in order of time and nothing in it lies in the future,    *)
(* in every behaviour.                                                     *)
THEOREM TypeCorrect == Spec => []BreakerTypeOK
<1>1. Init => BreakerTypeOK
  BY EmptySeq, LenProperties DEF Init, BreakerTypeOK
<1>2. BreakerTypeOK /\ [Next]_vars => BreakerTypeOK'
  BY TypeStep
<1> QED BY <1>1, <1>2, PTL DEF Spec

-----------------------------------------------------------------------------
(* A half-open breaker is under test                                       *)

(* Where a step leaves the switch: half open only if it sent a call to     *)
(* test, or left switch and calls as they were.                            *)
LEMMA SwitchStep ==
    ASSUME BreakerTypeOK, Next
    PROVE  \/ \E c \in Calls : phase' = [phase EXCEPT ![c] = "testing"]
           \/ getState(log') # "HalfOpen"
           \/ getState(log') = getState(log) /\ \A c \in Calls : phase[c] = "testing" => phase'[c] = "testing"
<1>1. /\ log \in Seq(Entries) /\ now \in Nat /\ phase \in [Calls -> {"new", "calling", "testing", "done"}]
      /\ None \in Causes /\ \A e \in Errors : e \in Causes
      /\ {"Open", "Closed", "HalfOpen"} \subseteq States
  BY DEF BreakerTypeOK, Causes, States
<1>2. ASSUME NEW c \in Calls, InvokeClosed(c) PROVE getState(log') # "HalfOpen"
  BY <1>1, <1>2, AppendLogFacts DEF InvokeClosed
<1>3. ASSUME NEW c \in Calls, InvokeSuppressed(c) PROVE getState(log') # "HalfOpen"
  BY <1>1, <1>3, AppendLogFacts DEF InvokeSuppressed
<1>4. ASSUME NEW c \in Calls, InvokeTest(c) \/ InvokeHalfOpen(c)
      PROVE  phase' = [phase EXCEPT ![c] = "testing"]
  BY <1>4 DEF InvokeTest, InvokeHalfOpen, Become
<1>5. ASSUME NEW c \in Calls, CallReturns(c)
      PROVE  log' = log /\ \A d \in Calls : phase[d] = "testing" => phase'[d] = "testing"
  BY <1>1, <1>5 DEF CallReturns, Become
<1>6. ASSUME NEW c \in Calls, NEW e \in Errors, CallFails(c, e) PROVE getState(log') # "HalfOpen"
  <2>1. appendLog(log, "Closed", e) \in Seq(Entries) /\ getState(appendLog(log, "Closed", e)) = "Closed"
    BY <1>1, AppendLogFacts
  <2>2. getState(appendLog(appendLog(log, "Closed", e), "Open", None)) = "Open"
    BY <1>1, <2>1, AppendLogFacts
  <2>3. \/ log' = appendLog(log, "Closed", e)
        \/ log' = appendLog(appendLog(log, "Closed", e), "Open", None)
    BY <1>6 DEF CallFails
  <2> QED BY <2>1, <2>2, <2>3
<1>7. ASSUME NEW c \in Calls, TestReturns(c) PROVE getState(log') # "HalfOpen"
  <2>1. verdict \in States /\ verdict # "HalfOpen"
    BY DEF verdict, States
  <2>2. getState(appendLog(log, verdict, None)) = verdict
    BY <1>1, <2>1, StateAfter
  <2> QED BY <1>7, <2>1, <2>2 DEF TestReturns
<1>8. ASSUME NEW c \in Calls, NEW e \in Errors, TestFails(c, e) PROVE getState(log') # "HalfOpen"
  BY <1>1, <1>8, AppendLogFacts DEF TestFails
<1>9. ASSUME NEW e \in Errors, logError(e) PROVE getState(log') # "HalfOpen"
  <2> DEFINE s == IF getState(log) = "HalfOpen" \/ wasThresholdBreached(log, None)
                  THEN "Open" ELSE getState(log)
  <2>1. s \in States /\ s # "HalfOpen"
    BY <1>1, StateType
  <2>2. log' = appendLog(log, s, e)
    BY <1>9 DEF logError
  <2> HIDE DEF s
  <2>3. getState(appendLog(log, s, e)) = s
    BY <1>1, <2>1, StateAfter
  <2> QED BY <2>1, <2>2, <2>3
<1>10. ASSUME Tick PROVE log' = log /\ phase' = phase
  BY <1>10 DEF Tick
<1> QED
  BY <1>2, <1>3, <1>4, <1>5, <1>6, <1>7, <1>8, <1>9, <1>10 DEF Next

(* However calls, tests and error events overlap, a half-open breaker has  *)
(* a call out that will decide.                                            *)
THEOREM HalfOpenTested == Spec => []HalfOpenIsTested
<1>1. Init => HalfOpenIsTested
  BY DEF Init, HalfOpenIsTested, getState
<1>2. BreakerTypeOK /\ HalfOpenIsTested /\ [Next]_vars => HalfOpenIsTested'
  <2> SUFFICES ASSUME BreakerTypeOK, HalfOpenIsTested, [Next]_vars,
                      getState(log') = "HalfOpen"
               PROVE  \E c \in Calls : phase'[c] = "testing"
    BY DEF HalfOpenIsTested, getState
  <2>1. phase \in [Calls -> {"new", "calling", "testing", "done"}]
    BY DEF BreakerTypeOK
  <2>2. CASE Next
    BY <2>1, <2>2, SwitchStep DEF HalfOpenIsTested
  <2>3. CASE UNCHANGED vars
    BY <2>3 DEF vars, HalfOpenIsTested
  <2> QED BY <2>2, <2>3
<1> QED BY <1>1, <1>2, TypeCorrect, PTL DEF Spec

-----------------------------------------------------------------------------
(* The log implements the switch                                           *)

(* A call moves from one phase to another.                                 *)
LEMMA InsideStep ==
    ASSUME phase \in [Calls -> {"new", "calling", "testing", "done"}],
           NEW c \in Calls, NEW p, NEW q, p # q, Become(c, p, q), NEW r
    PROVE  /\ r = q => Inside(r)' = Inside(r) \cup {c}
           /\ r = p => Inside(r)' = Inside(r) \ {c} /\ c \in Inside(r)
           /\ r \notin {p, q} => Inside(r)' = Inside(r)
<1>1. phase[c] = p /\ phase'[c] = q /\ \A d \in Calls \ {c} : phase'[d] = phase[d]
  BY DEF Become
<1> QED BY <1>1 DEF Inside

LEMMA PromiseStep ==
    BreakerTypeOK /\ [Next]_vars =>
        [Promise!Next \/ \E c \in Calls : Promise!FailLate(c)]_(Promise!vars)
<1> SUFFICES ASSUME BreakerTypeOK, [Next]_vars
             PROVE  \/ [Promise!Next]_(Promise!vars)
                    \/ \E c \in Calls : Promise!FailLate(c)
  OBVIOUS
<1> DEFINE calling == Inside("calling")
           testing == Inside("testing")
<1>1. /\ log \in Seq(Entries) /\ now \in Nat /\ phase \in [Calls -> {"new", "calling", "testing", "done"}]
      /\ None \in Causes /\ \A e \in Errors : e \in Causes
      /\ {"Open", "Closed", "HalfOpen"} \subseteq States
  BY DEF BreakerTypeOK, Causes, States
<1>2. ASSUME NEW c \in Calls, InvokeClosed(c) PROVE Promise!Next
  <2>1. getState(log) = "Closed" /\ getState(log') = "Closed"
    BY <1>1, <1>2, AppendLogFacts DEF InvokeClosed
  <2>2. Become(c, "new", "calling")
    BY <1>2 DEF InvokeClosed
  <2>3. calling' = calling \cup {c} /\ testing' = testing
    BY <1>1, <2>2, InsideStep
  <2> QED BY <2>1, <2>3 DEF Promise!Next, Promise!Admit
<1>3. ASSUME NEW c \in Calls, InvokeSuppressed(c) PROVE UNCHANGED Promise!vars
  <2>1. getState(log) = "Open" /\ getState(log') = "Open"
    BY <1>1, <1>3, AppendLogFacts DEF InvokeSuppressed
  <2>2. Become(c, "new", "done")
    BY <1>3 DEF InvokeSuppressed
  <2>3. calling' = calling /\ testing' = testing
    BY <1>1, <2>2, InsideStep
  <2> QED BY <2>1, <2>3 DEF Promise!vars
<1>4. ASSUME NEW c \in Calls, InvokeTest(c) \/ InvokeHalfOpen(c) PROVE Promise!Next
  <2>1. getState(log) \in {"Open", "HalfOpen"}
    BY <1>4 DEF InvokeTest, InvokeHalfOpen
  <2>2. getState(log') = "HalfOpen"
    <3>1. CASE InvokeTest(c)
      <4>1. appendLog(log, "Open", None) \in Seq(Entries)
        BY <1>1, AppendLogFacts
      <4>2. getState(appendLog(appendLog(log, "Open", None), "HalfOpen", None)) = "HalfOpen"
        BY <1>1, <4>1, AppendLogFacts
      <4> QED BY <3>1, <4>2 DEF InvokeTest
    <3>2. CASE InvokeHalfOpen(c)
      <4>1. getState(appendLog(log, "HalfOpen", None)) = "HalfOpen"
        BY <1>1, AppendLogFacts
      <4> QED BY <3>2, <4>1 DEF InvokeHalfOpen
    <3> QED BY <1>4, <3>1, <3>2
  <2>3. Become(c, "new", "testing")
    BY <1>4 DEF InvokeTest, InvokeHalfOpen
  <2>4. calling' = calling /\ testing' = testing \cup {c}
    BY <1>1, <2>3, InsideStep
  <2> QED BY <2>1, <2>2, <2>4 DEF Promise!Next, Promise!Test
<1>5. ASSUME NEW c \in Calls, CallReturns(c) PROVE Promise!Next
  <2>1. Become(c, "calling", "done") /\ log' = log
    BY <1>5 DEF CallReturns
  <2>2. calling' = calling \ {c} /\ c \in calling /\ testing' = testing
    BY <1>1, <2>1, InsideStep
  <2> QED BY <2>1, <2>2 DEF Promise!Next, Promise!Return
<1>6. ASSUME NEW c \in Calls, NEW e \in Errors, CallFails(c, e)
      PROVE  Promise!Next \/ Promise!FailLate(c)
  <2>1. appendLog(log, "Closed", e) \in Seq(Entries) /\ getState(appendLog(log, "Closed", e)) = "Closed"
    BY <1>1, AppendLogFacts
  <2>2. getState(appendLog(appendLog(log, "Closed", e), "Open", None)) = "Open"
    BY <1>1, <2>1, AppendLogFacts
  <2>3. \/ log' = appendLog(log, "Closed", e)
        \/ log' = appendLog(appendLog(log, "Closed", e), "Open", None)
    BY <1>6 DEF CallFails
  <2>4. getState(log') \in {"Closed", "Open"}
    BY <2>1, <2>2, <2>3
  <2>5. Become(c, "calling", "done")
    BY <1>6 DEF CallFails
  <2>6. calling' = calling \ {c} /\ c \in calling /\ testing' = testing
    BY <1>1, <2>5, InsideStep
  <2>7. CASE getState(log) = "Closed" \/ getState(log') = "Open"
    BY <2>4, <2>6, <2>7 DEF Promise!Next, Promise!Fail
  <2>8. CASE getState(log) # "Closed" /\ getState(log') = "Closed"
    BY <2>6, <2>8 DEF Promise!FailLate
  <2> QED BY <2>4, <2>7, <2>8
<1>7. ASSUME NEW c \in Calls, TestReturns(c) PROVE Promise!Next
  <2>1. verdict \in {"Closed", "Open"} /\ verdict \in States
    BY DEF verdict, States
  <2>2. getState(appendLog(log, verdict, None)) = verdict
    BY <1>1, <2>1, StateAfter
  <2>3. getState(log') \in {"Closed", "Open"} /\ Become(c, "testing", "done")
    BY <1>7, <2>1, <2>2 DEF TestReturns
  <2>4. testing' = testing \ {c} /\ c \in testing /\ calling' = calling
    BY <1>1, <2>3, InsideStep
  <2> QED BY <2>3, <2>4 DEF Promise!Next, Promise!Decide
<1>8. ASSUME NEW c \in Calls, NEW e \in Errors, TestFails(c, e) PROVE Promise!Next
  <2>1. getState(appendLog(log, "Open", e)) = "Open"
    BY <1>1, AppendLogFacts
  <2>2. getState(log') = "Open" /\ Become(c, "testing", "done")
    BY <1>8, <2>1 DEF TestFails
  <2>3. testing' = testing \ {c} /\ c \in testing /\ calling' = calling
    BY <1>1, <2>2, InsideStep
  <2> QED BY <2>2, <2>3 DEF Promise!Next, Promise!Decide
<1>9. ASSUME NEW e \in Errors, logError(e) PROVE [Promise!Next]_(Promise!vars)
  <2> DEFINE s == IF getState(log) = "HalfOpen" \/ wasThresholdBreached(log, None)
                  THEN "Open" ELSE getState(log)
  <2>1. s \in States /\ (s = "Open" \/ s = getState(log))
    BY <1>1, StateType
  <2>2. log' = appendLog(log, s, e) /\ phase' = phase
    BY <1>9 DEF logError
  <2> HIDE DEF s
  <2>3. getState(appendLog(log, s, e)) = s
    BY <1>1, <2>1, StateAfter
  <2>4. getState(log') = "Open" \/ getState(log') = getState(log)
    BY <2>1, <2>2, <2>3
  <2>5. calling' = calling /\ testing' = testing
    BY <2>2 DEF Inside
  <2> QED BY <2>4, <2>5 DEF Promise!Next, Promise!Alarm, Promise!vars
<1>10. CASE Tick \/ UNCHANGED vars
  <2>1. log' = log /\ phase' = phase
    BY <1>10 DEF Tick, vars
  <2>2. calling' = calling /\ testing' = testing
    BY <2>1 DEF Inside
  <2> QED BY <2>1, <2>2 DEF Promise!vars
<1> QED
  BY <1>2, <1>3, <1>4, <1>5, <1>6, <1>7, <1>8, <1>9, <1>10 DEF Next

(* The code's breaker, whose state is spread over a log and over what the  *)
(* calls under way read when they began, implements the switch, but for    *)
(* the calls that fail late.                                               *)
THEOREM PromiseKept == Spec => KeepsPromise
<1>1. Init => Promise!Init
  BY DEF Init, Promise!Init, getState, Inside
<1>2. BreakerTypeOK /\ [Next]_vars =>
          [Promise!Next \/ \E c \in Calls : Promise!FailLate(c)]_(Promise!vars)
  BY PromiseStep
<1> QED BY <1>1, <1>2, TypeCorrect, PTL DEF Spec, KeepsPromise, Promise!SpecButLate

-----------------------------------------------------------------------------
(* The breaker opens on evidence                                           *)

(* What the code counts is what the property does.                         *)
LEMMA BreachIsOverload ==
    ASSUME NEW l \in Seq(Entries), now \in Nat, NEW x \in Causes
    PROVE  /\ wasThresholdBreached(l, x) => Overloaded(l, x)
           /\ errorsInScope(l, x) = Failed(l, x)
<1>1. ASSUME NEW i \in DOMAIN l
      PROVE  l[i].time > now - Interval[x] <=> now < l[i].time + Interval[x]
  <2>1. l[i] \in Entries
    BY LenProperties, ElementOfSeq
  <2>2. l[i].time \in Nat /\ Interval[x] \in Nat
    BY <2>1, BreakerAssumption DEF Entries
  <2> QED BY <2>2
<1>2. entriesInScope(l, x) = Recent(l, x)
  BY <1>1 DEF entriesInScope, Recent
<1>3. errorsInScope(l, x) = Failed(l, x)
  BY <1>2 DEF errorsInScope, Failed
<1> QED BY <1>2, <1>3 DEF wasThresholdBreached, Overloaded

(* The end of a log with one more entry, and what is before it.            *)
LEMMA EndOfLog ==
    ASSUME NEW l \in Seq(Entries), now \in Nat, NEW s \in States, NEW e \in Causes
    PROVE  /\ Last(appendLog(l, s, e)).error = e
           /\ Front(appendLog(l, s, e)) = l
<1> DEFINE r == [time |-> now, state |-> s, error |-> e]
<1>1. r \in Entries
  BY DEF Entries
<1>2. appendLog(l, s, e) = Append(l, r)
  BY DEF appendLog
<1>3. r.error = e
  OBVIOUS
<1> HIDE DEF r
<1>4. /\ Append(l, r) \in Seq(Entries) /\ Len(Append(l, r)) = Len(l) + 1
      /\ Append(l, r)[Len(l) + 1] = r /\ Len(l) \in Nat
      /\ \A i \in 1..Len(l) : Append(l, r)[i] = l[i]
  BY <1>1, AppendProperties, LenProperties
<1>5. Front(Append(l, r)) = SubSeq(Append(l, r), 1, Len(l)) /\ Last(Append(l, r)) = r
  BY <1>4 DEF Front, Last
<1>6. SubSeq(Append(l, r), 1, Len(l)) = l
  BY <1>4, SubSeqProperties, SeqEqual
<1> QED BY <1>2, <1>3, <1>5, <1>6

(* Errors of late are still so after one more entry, which may be one.     *)
LEMMA FailedStays ==
    ASSUME NEW l \in Seq(Entries), now \in Nat, NEW s \in States, NEW e \in Causes,
           Failed(l, None) # {} \/ e # None
    PROVE  Failed(appendLog(l, s, e), None) # {}
<1>1. /\ DOMAIN appendLog(l, s, e) = 1..(Len(l) + 1)
      /\ \A k \in 1..Len(l) : appendLog(l, s, e)[k] = l[k]
      /\ appendLog(l, s, e)[Len(l) + 1] = [time |-> now, state |-> s, error |-> e]
      /\ Len(l) \in Nat /\ DOMAIN l = 1..Len(l)
  BY AppendLogFacts, LenProperties
<1>2. CASE Failed(l, None) # {}
  <2>1. PICK i \in DOMAIN l : now < l[i].time + Interval[None] /\ l[i].error # None
    BY <1>2 DEF Failed, Recent
  <2>2. i \in DOMAIN appendLog(l, s, e) /\ appendLog(l, s, e)[i] = l[i]
    BY <1>1, <2>1
  <2> QED BY <2>1, <2>2 DEF Failed, Recent
<1>3. CASE e # None
  <2>1. Interval[None] \in Nat \ {0}
    BY BreakerAssumption DEF Causes
  <2>2. /\ Len(l) + 1 \in DOMAIN appendLog(l, s, e)
        /\ appendLog(l, s, e)[Len(l) + 1].time = now /\ appendLog(l, s, e)[Len(l) + 1].error = e
    BY <1>1
  <2> QED BY <1>3, <2>1, <2>2 DEF Failed, Recent
<1> QED BY <1>2, <1>3

LEMMA EvidenceStep == ASSUME BreakerTypeOK, Next, Trips PROVE Evidence
<1>1. /\ log \in Seq(Entries) /\ now \in Nat /\ events \in Nat
      /\ None \in Causes /\ \A e \in Errors : e \in Causes /\ e # None
      /\ {"Open", "Closed", "HalfOpen"} \subseteq States
      /\ getState(log) # "Open" /\ getState(log') = "Open"
      /\ phase \in [Calls -> {"new", "calling", "testing", "done"}]
  BY BreakerAssumption DEF BreakerTypeOK, Causes, States, Trips
<1>2. ASSUME NEW c \in Calls, InvokeClosed(c) PROVE FALSE
  BY <1>1, <1>2, AppendLogFacts DEF InvokeClosed
<1>3. ASSUME NEW c \in Calls, InvokeSuppressed(c) \/ InvokeTest(c) PROVE FALSE
  BY <1>1, <1>3 DEF InvokeSuppressed, InvokeTest
<1>4. ASSUME NEW c \in Calls, InvokeHalfOpen(c) PROVE FALSE
  BY <1>1, <1>4, AppendLogFacts DEF InvokeHalfOpen
<1>5. ASSUME NEW c \in Calls, NEW e \in Errors, CallFails(c, e) PROVE Evidence
  <2> DEFINE f == appendLog(log, "Closed", e)
  <2>1. f \in Seq(Entries) /\ getState(f) = "Closed" /\ Last(f).error = e
    <3>1. log \in Seq(Entries) /\ now \in Nat /\ e \in Causes /\ "Closed" \in States
      BY <1>1
    <3>2. f \in Seq(Entries) /\ getState(f) = "Closed"
      BY <3>1, AppendLogFacts
    <3>3. Last(f).error = e
      BY <3>1, EndOfLog
    <3> QED BY <3>2, <3>3
  <2>2. log' = IF wasThresholdBreached(f, e) THEN appendLog(f, "Open", None) ELSE f
    BY <1>5 DEF CallFails
  <2>3. CallEnds
    BY <1>1, <1>5 DEF CallFails, Become, CallEnds
  <2> HIDE DEF f
  <2>4. wasThresholdBreached(f, e) /\ log' = appendLog(f, "Open", None)
    BY <1>1, <2>1, <2>2
  <2>5. Front(log') = f /\ Overloaded(f, e)
    BY <1>1, <2>1, <2>4, BreachIsOverload, EndOfLog
  <2> QED BY <2>1, <2>3, <2>5 DEF Evidence
<1>6. ASSUME NEW c \in Calls, TestReturns(c) \/ \E e \in Errors : TestFails(c, e)
      PROVE  Evidence
  <2>1. TestEnds
    BY <1>1, <1>6 DEF TestReturns, TestFails, Become, TestEnds
  <2>2. Failed(log', None) # {}
    <3>1. CASE TestReturns(c)
      <4>1. verdict \in States /\ log' = appendLog(log, verdict, None)
        BY <3>1 DEF TestReturns, verdict, States
      <4>2. verdict = "Open"
        BY <1>1, <4>1, StateAfter
      <4>3. Failed(log, None) # {}
        BY <1>1, <4>2, BreachIsOverload DEF verdict, recentError
      <4> QED BY <1>1, <4>1, <4>3, FailedStays
    <3>2. ASSUME NEW e \in Errors, TestFails(c, e) PROVE Failed(log', None) # {}
      BY <1>1, <3>2, FailedStays DEF TestFails
    <3> QED BY <1>6, <3>1, <3>2
  <2> QED BY <2>1, <2>2 DEF Evidence
<1>7. ASSUME NEW e \in Errors, logError(e) PROVE Evidence
  <2> DEFINE s == IF getState(log) = "HalfOpen" \/ wasThresholdBreached(log, None)
                  THEN "Open" ELSE getState(log)
  <2>1. s \in States /\ log' = appendLog(log, s, e) /\ events' = events + 1
    BY <1>1, <1>7, StateType DEF logError
  <2>2. s = "Open"
    <3> HIDE DEF s
    <3> QED BY <1>1, <2>1, StateAfter
  <2>3. getState(log) = "HalfOpen" \/ Overloaded(log, None)
    BY <1>1, <2>2, BreachIsOverload
  <2>4. events' > events
    BY <1>1, <2>1
  <2> QED BY <2>3, <2>4 DEF Evidence
<1>8. ASSUME Tick \/ \E c \in Calls : CallReturns(c) PROVE FALSE
  BY <1>1, <1>8 DEF Tick, CallReturns
<1> QED BY <1>2, <1>3, <1>4, <1>5, <1>6, <1>7, <1>8 DEF Next

(* The breaker opens only when the thresholds of the error are exceeded,   *)
(* when an error event comes while it is half open, or when a test ends    *)
(* and there was an error of late, also if the test itself went well.      *)
THEOREM OpenedOnEvidence == Spec => OpensOnEvidence
<1>1. BreakerTypeOK /\ [Next]_vars => [Trips => Evidence]_vars
  BY EvidenceStep
<1> QED BY <1>1, TypeCorrect, PTL DEF Spec, OpensOnEvidence
=============================================================================
