---------------------------- MODULE MCTrafficTail ----------------------------
(* Instances of TrafficTail for TLC. *)
EXTENDS TrafficTail
=============================================================================
