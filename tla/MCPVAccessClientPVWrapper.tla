---------------------- MODULE MCPVAccessClientPVWrapper ----------------------
(* Instances of PVAccessClientPVWrapper for TLC. *)
EXTENDS PVAccessClientPVWrapper

CONSTANTS v1, v2, f1

TwoValues == {v1, v2}
OneForeign == {f1}
==============================================================================
