---------------------------- MODULE MCVaultFile -----------------------------
(* The small instance of VaultRecords, and beside it VaultCodec's files:    *)
(* a behaviour is one of the one or of the other.                           *)
EXTENDS MCVaultRecords, VaultCodec

FileInit ==
  \/ Init /\ CodecIdle
  \/ CodecInit /\ Init /\ image = NoImage

FileNext ==
  \/ CodecIdle /\ Next /\ UNCHANGED codecVars
  \/ CodecNext /\ UNCHANGED vars

FileSpec == FileInit /\ [][FileNext]_<<vars, codecVars>>

=============================================================================
