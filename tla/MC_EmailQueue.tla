--------------------------- MODULE MC_EmailQueue ---------------------------
(***************************************************************************)
(* EmailQueue for TLC: one bad body, and good ones that are interchangeable*)
(* model values, as the deliveries are.                                    *)
(***************************************************************************)
EXTENDS EmailQueue, TLC

Symmetry == Permutations(Messages \ Poison) \union Permutations(Deliveries)
=============================================================================
