---------------------------- MODULE MCClipboard -----------------------------
(* Small instances of Clipboard.                                            *)
EXTENDS Clipboard

=============================================================================
