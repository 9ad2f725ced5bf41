------------------------- MODULE MCCAChannelManager -------------------------
(* Instances of CAChannelManager for TLC. *)
EXTENDS CAChannelManager

CONSTANTS u1, u2

TwoUsers == {u1, u2}
==============================================================================
