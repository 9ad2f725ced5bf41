-------------------------- MODULE MCPvAccessServerPV --------------------------
(* Instances of PvAccessServerPV for TLC. *)
EXTENDS PvAccessServerPV

CONSTANTS u1, u2, f1, f2

OneUser == {u1}
TwoUsers == {u1, u2}
OneField == {f1}
TwoFields == {f1, f2}
Bits == {0, 1}
==============================================================================
