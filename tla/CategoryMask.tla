----------------------------- MODULE CategoryMask -----------------------------
(***************************************************************************)
(* The category codes of src/pricing.go: where in the menu of the exchange *)
(* the game files an item.  A category is a path of names, its mask three  *)
(* bytes, one for each level below "items", kept here as a triple.         *)
(*                                                                         *)
(* The tables are rows of names whose place, from 0, is the code; where no *)
(* code was confirmed the row has a gap.  A name no table has gets its     *)
(* place, from 1, in the alphabetical index of its level of the catalog.   *)
(***************************************************************************)
EXTENDS Integers, Sequences, FiniteSets, SequencesExt

CONSTANT
    Alphabet   \* every name of the catalogs' paths, in alphabetical order

Gap == "-"

ASSUME AlphabetAssumption ==
    /\ Alphabet \in Seq(STRING) /\ Gap \notin ToSet(Alphabet)
    /\ \A i, j \in DOMAIN Alphabet : Alphabet[i] = Alphabet[j] => i = j

Depth1 == <<"garment", "weapons", "vehicles", "utility", "augment", "misc">>

Ranged ==
    <<"pistol", "heavypistol", "heavyrifle", "smg", "spitdart", "shotgun",
      "battlerifle", "heavyshotgun", "missilelauncher", "flamethrower",
      "fireballer", "lasgun">>
Garments == <<"lightarmor", "heavyarmor", "stillsuits", "utilitywearables", "socialwearables">>
Vehicles ==
    <<"sandbike", "buggy", "lightornithopter", "mediumornithopter",
      "transportornithopter", "sandcrawler">>
Augments == <<"armor", "melee", "ranged", "misc">>

(* knownCodes                                                              *)
Rows ==
    << {Depth1},
       {Garments, <<Gap, Gap>> \o Ranged \o <<"ammunition">>, Vehicles, Augments,
        <<"buildingtools", Gap, "hydrationtools", "gatheringtools",
          "cartographytools", "utilitytools", "consumables">>,
        <<"fuel", "refinedresources", "components", "rawresources">>},
       {<<"cutteray", "compactor">>} >>

Armor == <<"head", "chest", "legs", "hands", "feet">>

Depth3Parent ==
    [lightarmor |-> Armor, heavyarmor |-> Armor,
     stillsuits |-> <<"head", "chest", "hands", "feet">>,
     socialwearables |-> <<"chest", "legs", "hands", "feet">>,
     sandbike |-> <<"chassis", "hull", "engine", "psu", "locomotion", "utility">>,
     buggy |-> <<"chassis", "hull", "rear", "engine", "psu", "locomotion", "turret", "utility">>,
     lightornithopter |-> <<"chassis", "cockpit", "hull", "engine", "psu", "locomotion", "utility">>,
     mediumornithopter |->
        <<"chassis", "cabin", "cockpit", "tail", "engine", "psu", "locomotion", "utility">>,
     transportornithopter |-> <<"chassis", "hull", "engine", "psu", "locomotion", "utility">>,
     sandcrawler |-> <<"chassis", "cabin", "engine", "psu", "locomotion", "utility">>,
     hydrationtools |-> <<"watertools", "bloodtools">>,
     utilitytools |-> <<"powerpack", "suspensor", Gap, "utility">>,
     consumables |-> <<Gap, Gap, "utility">>]

(* weaponPathRemap: the codes at depth 2 and 3.                            *)
WeaponPathRemap == [shortblades |-> <<0, 0>>, longblades |-> <<0, 1>>]

UniqueSchematicsD2 == [garment |-> 5, weapons |-> 3, vehicles |-> 6, utility |-> 7, augment |-> 4]

UniqueSchematicsD3 ==
    {Garments, <<"shortblades", "longblades">> \o Ranged, Vehicles, Augments,
     <<"deployables", "watertools", "bloodtools", "cutteray", "staticcompactor",
       "cartographytools", "shield", "suspensor", "powerpack">>}

-----------------------------------------------------------------------------
Lists(rows, name) == \E row \in rows : Contains(row, name)

CodeIn(rows, name) ==
    LET row == CHOOSE r \in rows : Contains(r, name)
    IN  SelectInSeq(row, LAMBDA x : x = name) - 1

(* Path[1] is the root, "items".                                           *)
Levels(path) == IF Len(path) > 4 THEN 4 ELSE Len(path)

ParentRows(path, i) ==
    IF i = 3 /\ path[3] \in DOMAIN Depth3Parent THEN {Depth3Parent[path[3]]} ELSE {}

(* buildSegmentIndex: the names at a level of the catalog, which are taken *)
(* in the order of the alphabet.                                           *)
SegmentIndex(paths) ==
    [i \in 1 .. 3 |-> {path[i + 1] : path \in {p \in paths : Len(p) > i}}]

PlaceOf(name) == SelectInSeq(Alphabet, LAMBDA x : x = name)

ByAlphabet(name, names) ==
    IF name \notin names THEN 0
    ELSE (1 + Cardinality({n \in names : PlaceOf(n) < PlaceOf(name)})) % 256

SegmentCodeByAlphabet(path, i, index) == ByAlphabet(path[i + 1], index[i])

SegmentCode(path, i, index) ==
    LET name == path[i + 1]
    IN  IF Lists(ParentRows(path, i), name) THEN CodeIn(ParentRows(path, i), name)
        ELSE IF Lists(Rows[i], name) THEN CodeIn(Rows[i], name)
        ELSE ByAlphabet(name, index[i])

Remapped(path) ==
    Levels(path) >= 3 /\ path[2] = "weapons" /\ path[3] \in DOMAIN WeaponPathRemap

Mask(path, index) ==
    IF Remapped(path)
    THEN LET codes == WeaponPathRemap[path[3]]
         IN  [mask |-> <<CodeIn(Rows[1], "weapons"), codes[1], codes[2]>>, depth |-> 3]
    ELSE [mask |-> [i \in 1 .. 3 |->
                       IF i < Levels(path) THEN SegmentCode(path, i, index) ELSE 0],
          depth |-> Levels(path) - 1]

(* The name that places a unique schematic, at depth 2 or else at depth 3. *)
SchematicNames(path) ==
    IF Lists(UniqueSchematicsD3, path[3]) THEN {path[3]}
    ELSE {path[i] : i \in {j \in {4} \cap DOMAIN path : Lists(UniqueSchematicsD3, path[j])}}

HasUniqueSchematics(path) ==
    /\ Len(path) >= 3
    /\ path[2] \in DOMAIN UniqueSchematicsD2
    /\ SchematicNames(path) # {}

UniqueSchematicsAtDepth2(path) ==
    [mask |-> <<CodeIn(Rows[1], path[2]), UniqueSchematicsD2[path[2]], 0>>, depth |-> 2]

UniqueSchematicsMask(path) ==
    [mask |-> <<CodeIn(Rows[1], path[2]), UniqueSchematicsD2[path[2]],
                CodeIn(UniqueSchematicsD3, CHOOSE n \in SchematicNames(path) : TRUE)>>,
     depth |-> 3]

(* Nothing of the mask depends on the rest of the catalog.                 *)
Confirmed(path) ==
    \/ Remapped(path)
    \/ \A i \in 1 .. Levels(path) - 1 :
          Lists(ParentRows(path, i) \cup Rows[i], path[i + 1])
=============================================================================
