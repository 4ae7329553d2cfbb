---------------------------- MODULE VaultPadding ----------------------------
(***************************************************************************)
(* The arithmetic that hides sizes: what is written is filled up to whole  *)
(* buckets, and to one bucket when there is nothing (vault.rs, padded_len).*)
(***************************************************************************)
EXTENDS Naturals

Ceiling(n, b) == (n + b - 1) \div b
PaddedLen(n, b) == b * (IF n = 0 THEN 1 ELSE Ceiling(n, b))

=============================================================================
