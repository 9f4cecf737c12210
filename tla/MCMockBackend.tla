---------------------------- MODULE MCMockBackend ----------------------------
(***************************************************************************)
(* A small instance of MockBackend for TLC.                                *)
(***************************************************************************)
EXTENDS MockBackend, TLC

CONSTANTS r1, r2, r3, r4

Symmetry == Permutations(Requests)

=============================================================================
