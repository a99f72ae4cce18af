--------------------------- MODULE BreakerPromise ---------------------------
(***************************************************************************)
(* What a circuit breaker promises, whatever it counts as too many errors: *)
(* a switch, and the calls it let through.                                 *)
(***************************************************************************)
CONSTANT Calls

VARIABLES
    state,     \* "Closed", "Open", "HalfOpen"
    calling,   \* calls that a closed breaker let through
    testing    \* calls that a half-open breaker let through

vars == <<state, calling, testing>>

Init == state = "Closed" /\ calling = {} /\ testing = {}

(* A closed breaker lets a call through.                                   *)
Admit(c) ==
    /\ state = "Closed"
    /\ calling' = calling \cup {c}
    /\ UNCHANGED <<state, testing>>

(* An open breaker does so only by becoming half open.                     *)
Test(c) ==
    /\ state \in {"Open", "HalfOpen"}
    /\ state' = "HalfOpen"
    /\ testing' = testing \cup {c}
    /\ UNCHANGED calling

(* An admitted call returns, and the switch stays; or it fails, which may  *)
(* open it.                                                                *)
Return(c) ==
    /\ c \in calling
    /\ calling' = calling \ {c}
    /\ UNCHANGED <<state, testing>>

Fail(c) ==
    /\ c \in calling
    /\ calling' = calling \ {c}
    /\ state' \in {state, "Open"}
    /\ UNCHANGED testing

(* The end of a test decides.                                              *)
Decide(c) ==
    /\ c \in testing
    /\ testing' = testing \ {c}
    /\ state' \in {"Closed", "Open"}
    /\ UNCHANGED calling

(* An error from elsewhere may open it.                                    *)
Alarm == state' = "Open" /\ UNCHANGED <<calling, testing>>

Next == Alarm \/ \E c \in Calls : Admit(c) \/ Test(c) \/ Return(c) \/ Fail(c) \/ Decide(c)

Spec == Init /\ [][Next]_vars

(* Nobody promises this: a call that was admitted fails after others have  *)
(* opened the switch, and closes it.                                       *)
FailLate(c) ==
    /\ c \in calling /\ state # "Closed"
    /\ calling' = calling \ {c}
    /\ state' = "Closed"
    /\ UNCHANGED testing

SpecButLate == Init /\ [][Next \/ \E c \in Calls : FailLate(c)]_vars
=============================================================================
