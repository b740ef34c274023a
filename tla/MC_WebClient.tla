---------------------------- MODULE MC_WebClient ----------------------------
(***************************************************************************)
(* WebClient for TLC.                                                      *)
(***************************************************************************)
EXTENDS WebClient, TLC

Symmetry == Permutations(Tabs) \union Permutations(Users) \union Permutations(Calls)
=============================================================================
