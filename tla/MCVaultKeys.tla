---------------------------- MODULE MCVaultKeys -----------------------------
(* Small instances of VaultKeys.                                            *)
EXTENDS VaultKeys, TLC

Symmetry == Permutations(Procs) \cup Permutations(Vaults)

=============================================================================
