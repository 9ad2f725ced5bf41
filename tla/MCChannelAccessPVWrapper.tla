----------------------- MODULE MCChannelAccessPVWrapper ----------------------
(* Instances of ChannelAccessPVWrapper for TLC. *)
EXTENDS ChannelAccessPVWrapper

CONSTANTS w1, v1, v2, c1, c2

OneWaiter == {w1}
TwoValues == {v1, v2}
TwoCallbacks == {c1, c2}
==============================================================================
