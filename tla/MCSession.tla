----------------------------- MODULE MCSession -----------------------------
(* Instances of ValSession for TLC; the configurations give the rest.       *)
EXTENDS ValSession

\* Batches of files, by their sizes
OneFile == <<2>>
TwoFiles == <<2, 1>>
EmptyFile == <<0>>
LongFiles == <<3, 2>>
=============================================================================
