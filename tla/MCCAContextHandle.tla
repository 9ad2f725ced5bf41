-------------------------- MODULE MCCAContextHandle --------------------------
(* Instances of CAContextHandle for TLC. *)
EXTENDS CAContextHandle

CONSTANTS c1, c2, c3

OneCaller == {c1}
ThreeCallers == {c1, c2, c3}
==============================================================================
