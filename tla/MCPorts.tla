------------------------------- MODULE MCPorts -------------------------------
(* A small instance of Ports for TLC.                                      *)
EXTENDS Ports

retryFirst == [p \in Chain |-> IF p = 1 THEN 2 ELSE 1]
=============================================================================
