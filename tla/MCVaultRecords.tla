--------------------------- MODULE MCVaultRecords ---------------------------
(* Small instances of VaultRecords.                                         *)
EXTENDS VaultRecords, TLC

Symmetry == Permutations(Names \ LongNames) \cup Permutations(Values)

=============================================================================
