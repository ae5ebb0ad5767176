----------------------------- MODULE MCListSide -----------------------------
(* Instances of ListSide small enough for TLC.                             *)
EXTENDS ListSide, TLC

MCPrices == {10, 20}
MCOnePrice == {10}
MCStackMax == [k \in Keys |-> 2]

IdSymmetry == Permutations(Ids)
=============================================================================
