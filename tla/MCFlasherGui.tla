---------------------------- MODULE MCFlasherGui ----------------------------
(* TLC instance of FlasherGui: an EA and an HC-800.                        *)
EXTENDS FlasherGui

MCFamily == [core |-> "ea", hall |-> "hc"]
=============================================================================
