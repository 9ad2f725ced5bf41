-------------------------- MODULE MCPvAccessChannel --------------------------
(* Instances of PvAccessChannel for TLC. *)
EXTENDS PvAccessChannel

CONSTANTS u1, f1

OneUser == {u1}
OneField == {f1}
Bits == {0, 1}
==============================================================================
