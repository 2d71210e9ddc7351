------------------------------ MODULE MCLeases ------------------------------
(* Bounded instances of Leases for TLC.                                    *)
EXTENDS Leases, TLC

Symmetry == Permutations(Servers) \cup Permutations(Resources)
=============================================================================
