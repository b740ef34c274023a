---------------------------- MODULE MC_Products ----------------------------
(***************************************************************************)
(* Products for TLC: requests, users and fields are interchangeable.       *)
(***************************************************************************)
EXTENDS Products, TLC

Symmetry == Permutations(Requests) \union Permutations(Users) \union Permutations(Fields)
=============================================================================
