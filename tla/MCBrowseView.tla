----------------------------- MODULE MCBrowseView -----------------------------
(* BrowseView for TLC: its topics are interchangeable. *)
EXTENDS BrowseView, TLC

Interchangeable == Permutations(Topics)

===============================================================================
