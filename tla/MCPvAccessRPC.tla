---------------------------- MODULE MCPvAccessRPC ----------------------------
(* Instances of PvAccessRPC for TLC. *)
EXTENDS PvAccessRPC

CONSTANTS c1, c2, o1

TwoCalls == {c1, c2}
OneOther == {o1}
==============================================================================
