---------------------------- MODULE MCCategories ----------------------------
(* A gun whose code is that of the schematics' section beside it, the      *)
(* schematic of a knife, and a shield, whose name has no confirmed code.   *)
(* The second file has a category for the hood, with names before theirs   *)
(* and the mask 0, which the first leaves without; players' hoods have the *)
(* game's code.                                                            *)
EXTENDS Categories, TLC

MCAlphabet ==
    <<"garment", "head", "heavypistol", "lightarmor", "shield", "shortblades",
      "utility", "utilitytools", "weapons">>

Items(hood) ==
    "gun" :> [path |-> <<"items", "weapons", "heavypistol">>, schematic |-> FALSE]
    @@ "knife" :> [path |-> <<"items", "weapons", "shortblades">>, schematic |-> TRUE]
    @@ "shield" :> [path |-> <<"items", "utility", "utilitytools", "shield">>,
                    schematic |-> FALSE]
    @@ "hood" :> [path |-> hood, schematic |-> FALSE]

MCFiles == {Items(NoPath), Items(<<"items", "garment", "lightarmor", "head">>)}

MCPlayerOrders ==
    {[tmpl |-> "hood", entry |-> [mask |-> <<0, 2, 1>>, depth |-> 3]]}

(* Both have every confirmed name where the menu has it.                   *)
ASSUME Sorted == CatalogsSorted
=============================================================================
