----------------------------- MODULE MCVaultGui -----------------------------
(* Small instances of VaultGui.                                             *)
EXTENDS VaultGui

=============================================================================
