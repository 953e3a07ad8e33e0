--------------------------- MODULE MCThreadPool ---------------------------
(* Two workers (the fewest that Initialize allows) for TLC.                 *)
EXTENDS ThreadPool, TLC
=============================================================================
