-------------------------- MODULE MCCircuitBreaker --------------------------
EXTENDS CircuitBreaker, TLC

CONSTANTS c1, c2, c3, slow, fatal

(* The default threshold, one for slow answers that needs more volume, and *)
(* one for fatal errors that looks further back.                           *)
ByCause(default, onSlow, onFatal) ==
    [e \in Causes |-> IF e = slow THEN onSlow ELSE IF e = fatal THEN onFatal ELSE default]

MCInterval   == ByCause(2, 2, 3)
MCCallVolume == ByCause(2, 3, 1)
MCErrorRate  == ByCause(30, 40, 20)

Symmetry == Permutations(Calls)
=============================================================================
