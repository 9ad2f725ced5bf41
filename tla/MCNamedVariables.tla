-------------------------- MODULE MCNamedVariables --------------------------
(* An instance of NamedVariables for TLC: one variable in front of, and one   *)
(* behind, the one that was added first.                                      *)
EXTENDS NamedVariables

ThreeNames == 1..3
NoName == 0
==============================================================================
