---------------------------- MODULE MCBandwidth ----------------------------
(* Instances of Bandwidth for TLC. *)
EXTENDS Bandwidth, TLC

CONSTANTS m1, m2

\* Two devices, each written one way
AsWritten == m1 :> m1 @@ m2 :> m2

\* Two rates, and a limit that is switched off
TwoRates == {[down |-> 1, up |-> 1, on |-> TRUE], [down |-> 2, up |-> 1, on |-> TRUE],
             [down |-> 2, up |-> 0, on |-> FALSE]}

\* Also one without a limit for uploads
UpAndDown == {[down |-> 1, up |-> 1, on |-> TRUE], [down |-> 2, up |-> 0, on |-> TRUE],
              [down |-> 2, up |-> 0, on |-> FALSE]}
=============================================================================
