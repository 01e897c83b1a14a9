-------------------------- MODULE MCFirewallApply --------------------------
(* Instances of FirewallApply for TLC. *)
EXTENDS Forwarding, TLC

CONSTANTS r1, r2, pTesla, pGuests, xDrop, xAccept, xBad

\* Rules are listed in this order
ByPriority ==
    {<<xBad, xDrop>>, <<xBad, xAccept>>, <<xDrop, xAccept>>} \cap (Rules \X Rules)

\* What requests are interchangeable in
Symmetry == Permutations(Requests)

\* Tables with the given policies, all strict, and nothing else
With(policies) ==
    [ rules    |-> [x \in Rules |-> "none"],
      devices  |-> {},
      policies |-> [p \in Policies |-> IF p \in policies THEN "strict" ELSE NoMode],
      retired  |-> policies,
      domains  |-> [pd \in Pairs |-> "none"],
      resolved |-> {},
      assigns  |-> [m \in Devices |-> NoPolicy] ]

\* What is left when the seeded policies have been deleted
DefaultOnly == With({Default})

\* ... and a rule has been made
OneRule ==
    [DefaultOnly EXCEPT !.rules = [x \in Rules |-> IF x = xAccept THEN "on" ELSE "none"]]

\* A fresh install: the migrations seed a second policy
FreshInstall == With({Default, pTesla})
=============================================================================
