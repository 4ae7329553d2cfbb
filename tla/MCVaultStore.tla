---------------------------- MODULE MCVaultStore ----------------------------
(* Small instances of VaultStore. Processes and names are interchangeable,  *)
(* which the safety runs use.                                               *)
EXTENDS VaultStore, TLC

Symmetry == Permutations(Processes) \cup Permutations(Names)

=============================================================================
