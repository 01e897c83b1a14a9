---------------------------- MODULE Enforcement ----------------------------
(***************************************************************************)
(* What applying a configuration promises, without saying how.  Changes    *)
(* are numbered as they are committed.  Each target (the packet filter,    *)
(* the DNS server) runs a configuration that reflects the changes up to    *)
(* some number; it only ever moves forward.  A change is settled when      *)
(* every target has reached it.                                            *)
(***************************************************************************)
EXTENDS Naturals

CONSTANT Targets

VARIABLES
    committed,  \* the number of the last change
    live,       \* for each target, the changes it reflects
    settled     \* every change up to here has been reported as enforced

avars == <<committed, live, settled>>

Init ==
    /\ committed \in Nat
    /\ live = [t \in Targets |-> 0]
    /\ settled = 0

Commit ==
    /\ committed' = committed + 1
    /\ UNCHANGED <<live, settled>>

\* A target moves to a configuration that is not older, and what all targets
\* have reached may be reported
Enforce ==
    /\ live' \in [Targets -> 0 .. committed]
    /\ \A t \in Targets : live[t] <= live'[t]
    /\ settled' \in settled .. committed
    /\ \A t \in Targets : settled' <= live'[t]
    /\ UNCHANGED committed

Next == Commit \/ Enforce

Spec == Init /\ [][Next]_avars

\* A change is reported as enforced only when every target enforces it.
NothingReportedEarly == \A t \in Targets : settled <= live[t] /\ live[t] <= committed
=============================================================================
