-------------------------- MODULE MCRegistryClients --------------------------
(* RegistryClients with two downloads, which overlap or follow each other.    *)
EXTENDS RegistryClients, TLC

CONSTANTS d1, d2

Symmetry == Permutations(Downloads)
=============================================================================
