-------------------------- MODULE MCWalCoordinator --------------------------
(* Model-checking instance of WalCoordinator.                              *)
EXTENDS WalCoordinator, TLC

ClientSymmetry == Permutations(Clients)
=============================================================================
