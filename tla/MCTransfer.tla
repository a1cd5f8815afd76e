---------------------------- MODULE MCTransfer -----------------------------
(* Instances of ValTransfer for TLC; the configurations give the sizes.     *)
EXTENDS ValTransfer
=============================================================================
