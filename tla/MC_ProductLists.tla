-------------------------- MODULE MC_ProductLists --------------------------
(***************************************************************************)
(* ProductLists for TLC: three products, prices of a few cents.            *)
(***************************************************************************)
EXTENDS ProductLists

Dollars(whole, frac) == [whole |-> whole, frac |-> frac]

MCIds == 1 .. 3
MCRows == {[owner |-> "me", cents |-> 50], [owner |-> "other", cents |-> 50]}
MCPrices == {Dollars(0, <<5>>), Dollars(1, <<0, 1>>)}
=============================================================================
