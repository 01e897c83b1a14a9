----------------------------- MODULE MCBlockList -----------------------------
(* Instances of BlockList for TLC. *)
EXTENDS BlockList, TLC

CONSTANTS r1, r2, child, parent

Symmetry == Permutations(Requests)

\* child ends in "." followed by parent
Family == {<<child, parent>>}
=============================================================================
