------------------------------ MODULE MCObjects ------------------------------
(* Small instances of Objects, ModelObject, Wiring and Ports for TLC,      *)
(* checked in one run.  They do not interact: one of them moves, the       *)
(* others stay as they are at first.                                       *)
EXTENDS Objects, ModelObject, Wiring, MCPorts, TLC

CONSTANTS c1, c2, e1, e2, d1, f1, l1, t1, t2

\* B is a member of A's domain, Z is a domain that no model is named like.
domains == ("A" :> "A") @@ ("B" :> "A") @@ ("C" :> "Z")
relations == ("A" :> {"C"}) @@ ("B" :> {}) @@ ("C" :> {"B"})

MCInit == Init /\ ModelInit /\ WiringInit /\ WorkflowInit
allVars == <<vars, modelVars, wiringVars, workflowVars>>
MCNext ==
    \/ /\ ModelInit /\ WiringInit /\ WorkflowInit /\ Next
       /\ UNCHANGED <<modelVars, wiringVars, workflowVars>>
    \/ /\ Init /\ WiringInit /\ WorkflowInit /\ ModelNext
       /\ UNCHANGED <<vars, wiringVars, workflowVars>>
    \/ /\ Init /\ ModelInit /\ WorkflowInit /\ WiringNext
       /\ UNCHANGED <<vars, modelVars, workflowVars>>
    \/ /\ Init /\ ModelInit /\ WiringInit /\ WorkflowNext
       /\ UNCHANGED <<vars, modelVars, wiringVars>>
MCSpec == MCInit /\ [][MCNext]_allVars

\* Requests of one kind are interchangeable.
Symmetry == Permutations(Creates) \cup Permutations(Edits)
=============================================================================
