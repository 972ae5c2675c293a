------------------------------- MODULE MCConsole -------------------------------
(* Console for TLC: two consumers, the first with a DLT and a retry topic. *)
EXTENDS Console, TLC

CONSTANTS A, D

OneDlt == A :> D

===============================================================================
