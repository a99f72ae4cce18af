---------------------------- MODULE RollingRestart ----------------------------
(***************************************************************************)
(* What a rolling restart promises: the processes that run when it is     *)
(* asked for are stopped one by one, each only while enough others are    *)
(* up, and it is over when none of them is left.                          *)
(***************************************************************************)
EXTENDS Naturals, FiniteSets

CONSTANT cores  \* how many processes there should be

VARIABLES
    launched,    \* how many there have been; the next has the next number
    running,     \* those that were neither stopped nor died
    up,          \* those of them that have come up
    old,         \* those of them that are still to be replaced
    restarting,
    died,        \* has a process ever died by itself?
    asked        \* when was the first restart asked for: "never", "early",
                 \* while the processes were still coming up, or "ready"

vars == <<launched, running, up, old, restarting, died, asked>>

Init ==
    /\ launched = cores
    /\ running = 1 .. cores /\ up = {}
    /\ old = {} /\ restarting = FALSE /\ died = FALSE /\ asked = "never"

(* A process is taken away while every core has one that is up, unless    *)
(* some have died, or a restart was asked for while the first were still  *)
(* coming up: then nobody promises that.                                  *)
Stop(p) ==
    /\ p \in running
    /\ died \/ asked' = "early" \/ Cardinality(up) >= cores
    /\ running' = running \ {p} /\ up' = up \ {p}
    /\ UNCHANGED <<launched, died>>

(* A restart begins by stopping one process; all others are to follow.    *)
(* The one it wants to stop may have died.                                *)
Begin ==
    /\ ~restarting /\ restarting' = TRUE
    /\ asked' = IF asked # "never" THEN asked
                ELSE IF Cardinality(up) < cores THEN "early" ELSE "ready"
    /\ old' = running'
    /\ \/ \E p \in running : Stop(p)
       \/ died /\ UNCHANGED <<launched, running, up, died>>

Replace(p) ==
    /\ restarting /\ p \in old
    /\ Stop(p)
    /\ old' = old \ {p}
    /\ UNCHANGED <<restarting, asked>>

End ==
    /\ restarting /\ old = {}
    /\ restarting' = FALSE
    /\ UNCHANGED <<launched, running, up, old, died, asked>>

(* A process is started, one that never ran before, and comes up.         *)
Launch ==
    /\ launched' = launched + 1
    /\ running' = running \cup {launched'}
    /\ UNCHANGED <<up, old, restarting, died, asked>>

ComeUp(p) ==
    /\ p \in running
    /\ up' = up \cup {p}
    /\ UNCHANGED <<launched, running, old, restarting, died, asked>>

Die(p) ==
    /\ p \in running
    /\ running' = running \ {p} /\ up' = up \ {p} /\ old' = old \ {p}
    /\ died' = TRUE
    /\ UNCHANGED <<launched, restarting, asked>>

Next ==
    \/ Begin \/ End \/ Launch
    \/ \E p \in running : Replace(p) \/ ComeUp(p) \/ Die(p)

Spec == Init /\ [][Next]_vars
=============================================================================
