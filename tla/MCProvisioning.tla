--------------------------- MODULE MCProvisioning ---------------------------
(* TLC instances of Provisioning. *)
EXTENDS Provisioning, TLC

CONSTANTS t1, t2, h1, h2, s1

Symmetry == Permutations(Tabs)
=============================================================================
