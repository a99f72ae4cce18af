--------------------------------- MODULE Saga ---------------------------------
(***************************************************************************)
(* A saga: steps that are done one after the other, and a compensation     *)
(* that may begin at any time.  It takes back steps that are done, the     *)
(* last one first and each once.  It does not notice that a step could not *)
(* be taken back, and it may break off.  Steps that are under way when it  *)
(* begins may still be done.                                               *)
(***************************************************************************)
EXTENDS Naturals, Sequences

CONSTANTS LastStep, Undoable

VARIABLES
    done,    \* the steps that are done
    phase,   \* "idle" as long as nothing is taken back, then that of the compensation
    plan,    \* the steps to take back, in the order in which they were done
    left,    \* how many of them are left
    undone   \* the steps that were taken back, as it went

vars == <<done, phase, plan, left, undone>>

Init == done = {} /\ phase = "idle" /\ plan = <<>> /\ left = 0 /\ undone = <<>>

(* A step is done when all before it are.                                  *)
Do(k) ==
    /\ 1 .. k - 1 \subseteq done
    /\ done' = done \cup {k}
    /\ UNCHANGED <<phase, plan, left, undone>>

Increases(s) == \A i, j \in DOMAIN s : i < j => s[i] < s[j]

Compensate ==
    /\ phase = "idle" /\ phase' \in {"undoing", "failed"}
    /\ Increases(plan') /\ {plan'[i] : i \in DOMAIN plan'} \subseteq done
    /\ left' = Len(plan')
    /\ UNCHANGED <<done, undone>>

(* The last step of those left is taken back, if it can be.                *)
TakeBack ==
    /\ phase = "undoing" /\ phase' \in {"undoing", "failed"}
    /\ left > 0 /\ left' = left - 1
    /\ \/ undone' = undone
       \/ plan[left] \in Undoable /\ undone' = Append(undone, plan[left])
    /\ UNCHANGED <<done, plan>>

(* The process dies.                                                       *)
BreakOff ==
    /\ phase = "undoing" /\ phase' = "lost"
    /\ UNCHANGED <<done, plan, left, undone>>

(* The result is reported when nothing is left.                            *)
Report ==
    /\ phase = "undoing" /\ left = 0
    /\ phase' \in {"complete", "incomplete"}
    /\ UNCHANGED <<done, plan, left, undone>>

Next == (\E k \in 1 .. LastStep : Do(k)) \/ Compensate \/ TakeBack \/ BreakOff \/ Report

Spec == Init /\ [][Next]_vars
=============================================================================
