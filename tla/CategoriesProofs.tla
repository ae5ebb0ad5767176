--------------------------- MODULE CategoriesProofs ---------------------------
(***************************************************************************)
(* Proofs about Categories for every set of catalogs: where a confirmed    *)
(* path is filed does not depend on the catalog, and no mask but those of  *)
(* a catalog that has run gets onto the market.  Every place is three      *)
(* bytes: the tables are short, and the alphabetical index is cut to one.  *)
(* A mask read level by level spells the path it was made from, so that    *)
(* two confirmed kinds never share one: for names that sit where the menu  *)
(* has them (CatalogsSorted), since the code of a name does not depend on  *)
(* the names above it, and two names may have one code in different rows.  *)
(***************************************************************************)
EXTENDS Categories, FiniteSetTheorems, TLAPS

(* What the loader leaves of a file.                                       *)
LEMMA CatalogFacts ==
    /\ \A c \in Catalogs : \A t \in DOMAIN c :
          /\ c[t].path \in Seq(STRING) /\ c[t].path # NoPath /\ t \in Templates
          /\ ToSet(Tail(c[t].path)) \subseteq ToSet(Alphabet)
          /\ c[t].schematic \in BOOLEAN
    /\ \A c, d \in Catalogs : \A t \in DOMAIN c \cap DOMAIN d : c[t] = d[t]
<1>1. ASSUME NEW f \in Files, NEW t \in DOMAIN Loaded(f)
      PROVE  t \in DOMAIN f /\ Loaded(f)[t] = f[t] /\ f[t].path # NoPath
  BY DEF Loaded
<1>2. \A f \in Files : \A t \in DOMAIN f : t \in Templates
  BY DEF Templates
<1>3. ASSUME NEW c \in Catalogs, NEW t \in DOMAIN c
      PROVE  /\ c[t].path \in Seq(STRING) /\ c[t].path # NoPath /\ t \in Templates
             /\ ToSet(Tail(c[t].path)) \subseteq ToSet(Alphabet)
             /\ c[t].schematic \in BOOLEAN
  <2>1. PICK f \in Files : c = Loaded(f)
    BY DEF Catalogs
  <2> QED
    BY <1>1, <1>2, <2>1, FilesAssumption
<1>4. ASSUME NEW c \in Catalogs, NEW d \in Catalogs, NEW t \in DOMAIN c \cap DOMAIN d
      PROVE  c[t] = d[t]
  <2>1. PICK f \in Files, g \in Files : c = Loaded(f) /\ d = Loaded(g)
    BY DEF Catalogs
  <2>2. f[t] = g[t]
    BY <2>1, FilesAssumption
  <2> QED
    BY <1>1, <2>1, <2>2
<1> QED
  BY <1>3, <1>4

LEMMA ListsEither ==
    ASSUME NEW R, NEW S, NEW name, Lists(R \cup S, name)
    PROVE  Lists(R, name) \/ Lists(S, name)
BY DEF Lists

(* A name with a confirmed code gets it whatever the index says.           *)
LEMMA ConfirmedCode ==
    ASSUME NEW path, NEW i, NEW index1, NEW index2,
           Lists(ParentRows(path, i) \cup Rows[i], path[i + 1])
    PROVE  SegmentCode(path, i, index1) = SegmentCode(path, i, index2)
BY ListsEither DEF SegmentCode

LEMMA ConfirmedMask ==
    ASSUME NEW path \in Seq(STRING), Confirmed(path), NEW index1, NEW index2
    PROVE  Mask(path, index1) = Mask(path, index2)
<1>1. CASE Remapped(path)
  BY <1>1 DEF Mask
<1>2. CASE ~Remapped(path)
  <2>1. Levels(path) \in Int
    BY DEF Levels
  <2>2. ASSUME NEW i \in 1 .. 3, i < Levels(path)
        PROVE  SegmentCode(path, i, index1) = SegmentCode(path, i, index2)
    <3>1. i \in 1 .. Levels(path) - 1
      BY <2>1, <2>2
    <3> QED
      BY <1>2, <3>1, ConfirmedCode DEF Confirmed
  <2>3. [i \in 1 .. 3 |-> IF i < Levels(path) THEN SegmentCode(path, i, index1) ELSE 0]
        = [i \in 1 .. 3 |-> IF i < Levels(path) THEN SegmentCode(path, i, index2) ELSE 0]
    BY <2>2
  <2> QED
    BY <1>2, <2>3 DEF Mask
<1> QED
  BY <1>1, <1>2

LEMMA AnchoredPlace ==
    ASSUME NEW c \in Catalogs, NEW d \in Catalogs,
           NEW t \in DOMAIN c \cap DOMAIN d, Anchored(c[t])
    PROVE  Places[c][t] = Places[d][t]
<1>1. c[t] = d[t] /\ c[t].path \in Seq(STRING)
  BY CatalogFacts
<1> DEFINE item == c[t]
           Place(x) == IF Routed(item)
                       THEN UniqueSchematicsMask(item.path)
                       ELSE Mask(item.path, SegIdx(x))
<1>2. Places[c][t] = Place(c) /\ Places[d][t] = Place(d)
  BY <1>1 DEF Places
<1>3. CASE Routed(item)
  BY <1>2, <1>3
<1>4. CASE ~Routed(item)
  <2>1. Confirmed(item.path)
    BY <1>4 DEF Anchored
  <2> QED
    BY <1>1, <1>2, <1>4, <2>1, ConfirmedMask
<1> QED
  BY <1>3, <1>4

-----------------------------------------------------------------------------
(* The first place of a name in a row.  Of finitely many numbers one is the *)
(* least: otherwise the numbers below each of them would be at least one   *)
(* and at most all but one, and as many for two of them.                   *)
LEMMA LeastIsThere ==
    ASSUME NEW S \in SUBSET Int, IsFiniteSet(S), S # {}
    PROVE  Min(S) \in S
<1> DEFINE Below(y) == {z \in S : z < y}
           Ranks == 1 .. Cardinality(S) - 1
<1>1. Cardinality(S) \in Nat
  BY FS_CardinalityType
<1>2. \A y \in S : /\ IsFiniteSet(Below(y)) /\ Cardinality(Below(y)) \in Nat
                   /\ Cardinality(Below(y)) <= Cardinality(S) - 1
  <2> TAKE y \in S
  <2>1. Below(y) \in SUBSET (S \ {y})
    OBVIOUS
  <2>2. IsFiniteSet(S \ {y}) /\ Cardinality(S \ {y}) = Cardinality(S) - 1
    BY FS_RemoveElement
  <2> HIDE DEF Below
  <2>3. IsFiniteSet(Below(y)) /\ Cardinality(Below(y)) <= Cardinality(S \ {y})
    BY <2>1, <2>2, FS_Subset
  <2> QED
    BY <2>2, <2>3, FS_CardinalityType
<1>3. \A x, y \in S : x < y => Cardinality(Below(x)) # Cardinality(Below(y))
  <2> SUFFICES ASSUME NEW x \in S, NEW y \in S, x < y
               PROVE  Cardinality(Below(x)) # Cardinality(Below(y))
    OBVIOUS
  <2>1. Below(x) \in SUBSET Below(y)
    <3>1. \A z \in S : z < x => z < y
      OBVIOUS
    <3> QED
      BY <3>1
  <2>2. x \in Below(y) /\ x \notin Below(x)
    OBVIOUS
  <2> HIDE DEF Below
  <2> QED
    BY <1>2, <2>1, <2>2, FS_Subset
<1>4. \E x \in S : Below(x) = {}
  <2> SUFFICES ASSUME \A x \in S : Below(x) # {} PROVE FALSE
    OBVIOUS
  <2> DEFINE rank == [x \in S |-> Cardinality(Below(x))]
  <2>1. rank \in [S -> Ranks]
    <3> HIDE DEF Below
    <3>1. \A x \in S : Cardinality(Below(x)) # 0
      BY <1>2, FS_EmptySet
    <3> QED
      BY <1>1, <1>2, <3>1
  <2>2. IsFiniteSet(Ranks) /\ Cardinality(Ranks) < Cardinality(S)
    <3>1. Cardinality(S) # 0
      BY FS_EmptySet
    <3>2. 1 \in Int /\ Cardinality(S) - 1 \in Int
      BY <1>1
    <3>3. /\ IsFiniteSet(Ranks)
          /\ Cardinality(Ranks)
               = IF 1 > Cardinality(S) - 1 THEN 0 ELSE Cardinality(S) - 1 - 1 + 1
      BY <3>2, FS_Interval
    <3> QED
      BY <1>1, <3>1, <3>3
  <2>3. \E x, y \in S : x # y /\ rank[x] = rank[y]
    <3> HIDE DEF rank, Ranks
    <3> QED
      BY <2>1, <2>2, FS_PigeonHole
  <2>4. PICK x \in S, y \in S : x # y /\ Cardinality(Below(x)) = Cardinality(Below(y))
    BY <2>3
  <2>5. x < y \/ y < x
    BY <2>4
  <2> HIDE DEF Below
  <2> QED
    BY <1>3, <2>4, <2>5
<1>5. PICK x \in S : Below(x) = {}
  BY <1>4
<1>6. \A y \in S : x <= y
  BY <1>5
<1> QED
  BY <1>6 DEF Min

(* A row that fits: its codes are bytes.                                   *)
Short(row) == Len(row) \in 0 .. 256

LEMMA CodeFits ==
    ASSUME NEW rows, NEW name, Lists(rows, name), \A r \in rows : Short(r)
    PROVE  CodeIn(rows, name) \in 0 .. 255
<1> DEFINE row == CHOOSE r \in rows : Contains(r, name)
           S == {i \in 1 .. Len(row) : row[i] = name}
<1>1. row \in rows /\ Contains(row, name)
  BY DEF Lists
<1> HIDE DEF row
<1>2. Len(row) \in 0 .. 256 /\ S # {}
  BY <1>1 DEF Short, Contains
<1>3. S \in SUBSET Int /\ IsFiniteSet(S)
  <2>1. 1 \in Int /\ Len(row) \in Int /\ S \in SUBSET (1 .. Len(row))
    BY <1>2
  <2> HIDE DEF S
  <2>2. IsFiniteSet(1 .. Len(row))
    BY <2>1, FS_Interval
  <2>3. IsFiniteSet(S)
    BY <2>1, <2>2, FS_Subset
  <2> QED
    BY <2>1, <2>3
<1>4. Min(S) \in 1 .. Len(row)
  <2>1. Min(S) \in S
    <3> HIDE DEF S
    <3> QED
      BY <1>2, <1>3, LeastIsThere
  <2> QED
    BY <2>1
<1>5. CodeIn(rows, name) = Min(S) - 1
  <2>1. CodeIn(rows, name) = SelectInSeq(row, LAMBDA x : x = name) - 1
    BY DEF CodeIn, row
  <2>2. SelectInSeq(row, LAMBDA x : x = name) = Min(S)
    BY <1>2 DEF SelectInSeq
  <2> QED
    BY <2>1, <2>2
<1> HIDE DEF S
<1>6. \A n \in 0 .. 256 : \A m \in 1 .. n : m - 1 \in 0 .. 255
  OBVIOUS
<1>7. Min(S) - 1 \in 0 .. 255
  BY <1>2, <1>4, <1>6, Zenon
<1> QED
  BY <1>5, <1>7, Zenon

(* The tables of the source are short.                                     *)
LEMMA RowsAreShort ==
    /\ \A i \in 1 .. 3 : \A row \in Rows[i] : Short(row)
    /\ \A name \in DOMAIN Depth3Parent : Short(Depth3Parent[name])
    /\ \A row \in UniqueSchematicsD3 : Short(row)
<1>1. Short(Depth1) /\ Short(Garments) /\ Short(Vehicles) /\ Short(Augments) /\ Short(Armor)
  BY DEF Short, Depth1, Garments, Vehicles, Augments, Armor
<1>2. /\ Short(<<Gap, Gap>> \o Ranged \o <<"ammunition">>)
      /\ Short(<<"shortblades", "longblades">> \o Ranged)
      /\ Short(<<"buildingtools", Gap, "hydrationtools", "gatheringtools",
                 "cartographytools", "utilitytools", "consumables">>)
      /\ Short(<<"fuel", "refinedresources", "components", "rawresources">>)
      /\ Short(<<"deployables", "watertools", "bloodtools", "cutteray", "staticcompactor",
                 "cartographytools", "shield", "suspensor", "powerpack">>)
  BY DEF Short, Ranged
<1>3. \A row \in Rows[1] : Short(row)
  BY <1>1 DEF Rows
<1>4. ASSUME NEW row \in Rows[2] PROVE Short(row)
  <2>1. \/ row \in {Garments, <<Gap, Gap>> \o Ranged \o <<"ammunition">>, Vehicles, Augments}
        \/ row = <<"buildingtools", Gap, "hydrationtools", "gatheringtools",
                   "cartographytools", "utilitytools", "consumables">>
        \/ row = <<"fuel", "refinedresources", "components", "rawresources">>
    BY <1>4 DEF Rows
  <2> QED
    BY <1>1, <1>2, <2>1
<1>5. ASSUME NEW row \in Rows[3] PROVE Short(row)
  BY <1>5 DEF Rows, Short
<1>6. \A name \in DOMAIN Depth3Parent : Short(Depth3Parent[name])
  BY <1>1 DEF Depth3Parent, Short
<1>7. ASSUME NEW row \in UniqueSchematicsD3 PROVE Short(row)
  <2>1. \/ row \in {Garments, <<"shortblades", "longblades">> \o Ranged, Vehicles, Augments}
        \/ row = <<"deployables", "watertools", "bloodtools", "cutteray", "staticcompactor",
                   "cartographytools", "shield", "suspensor", "powerpack">>
    BY <1>7 DEF UniqueSchematicsD3
  <2> QED
    BY <1>1, <1>2, <2>1
<1>8. \A i \in 1 .. 3 : i = 1 \/ i = 2 \/ i = 3
  OBVIOUS
<1> QED
  BY <1>3, <1>4, <1>5, <1>6, <1>7, <1>8

(* The alphabetical index is cut to a byte.                                *)
LEMMA AlphabetFits ==
    ASSUME NEW names, names \subseteq ToSet(Alphabet), NEW name
    PROVE  ByAlphabet(name, names) \in 0 .. 255
<1> DEFINE before == {n \in names : PlaceOf(n) < PlaceOf(name)}
<1>1. IsFiniteSet(ToSet(Alphabet))
  <2>1. /\ DOMAIN Alphabet = 1 .. Len(Alphabet) /\ Len(Alphabet) \in Nat
        /\ 1 \in Int /\ Len(Alphabet) \in Int
        /\ Alphabet \in [DOMAIN Alphabet -> ToSet(Alphabet)]
    BY AlphabetAssumption DEF ToSet
  <2>2. Alphabet \in Surjection(DOMAIN Alphabet, ToSet(Alphabet))
    BY <2>1 DEF Surjection, ToSet
  <2>3. IsFiniteSet(DOMAIN Alphabet)
    BY <2>1, FS_Interval
  <2> QED
    BY <2>2, <2>3, FS_Surjection
<1>2. before \in SUBSET ToSet(Alphabet)
  OBVIOUS
<1> HIDE DEF before
<1>3. Cardinality(before) \in Nat
  BY <1>1, <1>2, FS_Subset, FS_CardinalityType
<1>4. (1 + Cardinality(before)) % 256 \in 0 .. 255
  BY <1>3
<1> QED
  BY <1>4 DEF ByAlphabet, before

(* A path of a catalog.                                                    *)
CatalogPath(path) ==
    /\ path \in Seq(STRING) /\ path # <<>>
    /\ ToSet(Tail(path)) \subseteq ToSet(Alphabet)

LEMMA NamesFit ==
    ASSUME NEW paths, \A path \in paths : CatalogPath(path), NEW i \in 1 .. 3
    PROVE  SegmentIndex(paths)[i] \subseteq ToSet(Alphabet)
<1> SUFFICES ASSUME NEW path \in paths, Len(path) > i
             PROVE  path[i + 1] \in ToSet(Alphabet)
  BY DEF SegmentIndex
<1>1. path \in Seq(STRING) /\ path # <<>> /\ ToSet(Tail(path)) \subseteq ToSet(Alphabet)
  BY DEF CatalogPath
<1>2. i \in DOMAIN Tail(path) /\ Tail(path)[i] = path[i + 1]
  BY <1>1
<1> QED
  BY <1>1, <1>2 DEF ToSet

LEMMA SegmentFits ==
    ASSUME NEW path, NEW i \in 1 .. 3, NEW index, index[i] \subseteq ToSet(Alphabet)
    PROVE  SegmentCode(path, i, index) \in 0 .. 255
<1>1. \A row \in ParentRows(path, i) : Short(row)
  BY RowsAreShort DEF ParentRows
<1>2. \A row \in Rows[i] : Short(row)
  BY RowsAreShort
<1> QED
  BY <1>1, <1>2, CodeFits, AlphabetFits DEF SegmentCode

(* The first name of a path is one of the game's.                          *)
LEMMA TopFits ==
    ASSUME NEW name, name = "weapons" \/ name \in DOMAIN UniqueSchematicsD2
    PROVE  CodeIn(Rows[1], name) \in 0 .. 255
<1>1. name \in {"garment", "weapons", "vehicles", "utility", "augment"}
  BY DEF UniqueSchematicsD2
<1>2. Contains(Depth1, name)
  <2>1. /\ Len(Depth1) = 6
        /\ Depth1[1] = "garment" /\ Depth1[2] = "weapons" /\ Depth1[3] = "vehicles"
        /\ Depth1[4] = "utility" /\ Depth1[5] = "augment"
    BY DEF Depth1
  <2>2. {1, 2, 3, 4, 5} \subseteq 1 .. Len(Depth1)
    BY <2>1
  <2> QED
    BY <1>1, <2>1, <2>2 DEF Contains
<1>3. Lists(Rows[1], name)
  BY <1>2 DEF Rows, Lists
<1>4. 1 \in 1 .. 3
  OBVIOUS
<1> QED
  BY <1>3, <1>4, RowsAreShort, CodeFits

LEMMA TripleFits ==
    ASSUME NEW a \in 0 .. 255, NEW b \in 0 .. 255, NEW c \in 0 .. 255
    PROVE  <<a, b, c>> \in [1 .. 3 -> 0 .. 255]
<1>1. 1 .. 3 = {1, 2, 3}
  OBVIOUS
<1> QED
  BY <1>1

LEMMA MaskFits ==
    ASSUME NEW path, CatalogPath(path),
           NEW paths, \A p \in paths : CatalogPath(p)
    PROVE  Mask(path, SegmentIndex(paths)) \in Entries
<1>1. CASE Remapped(path)
  <2>1. CodeIn(Rows[1], "weapons") \in 0 .. 255
    BY TopFits
  <2>2. path[3] = "shortblades" \/ path[3] = "longblades"
    BY <1>1 DEF Remapped, WeaponPathRemap
  <2>3. WeaponPathRemap[path[3]] = <<0, 0>> \/ WeaponPathRemap[path[3]] = <<0, 1>>
    BY <2>2 DEF WeaponPathRemap
  <2>4. 0 \in 0 .. 255 /\ 1 \in 0 .. 255 /\ 3 \in 0 .. 3
    OBVIOUS
  <2>5. <<CodeIn(Rows[1], "weapons"), WeaponPathRemap[path[3]][1], WeaponPathRemap[path[3]][2]>>
          \in [1 .. 3 -> 0 .. 255]
    <3>1. /\ WeaponPathRemap[path[3]][1] \in 0 .. 255
          /\ WeaponPathRemap[path[3]][2] \in 0 .. 255
      BY <2>3
    <3> QED
      BY <2>1, <3>1, TripleFits
  <2> QED
    BY <1>1, <2>4, <2>5 DEF Mask, Entries
<1>2. CASE ~Remapped(path)
  <2>1. Levels(path) - 1 \in 0 .. 3
    <3>1. Len(path) \in Nat /\ Len(path) # 0
      <4>1. path \in Seq(STRING) /\ path # <<>>
        BY DEF CatalogPath
      <4> QED
        BY <4>1
    <3>2. \A n \in Nat : n # 0 => (IF n > 4 THEN 4 ELSE n) - 1 \in 0 .. 3
      OBVIOUS
    <3> QED
      BY <3>1, <3>2 DEF Levels
  <2>2. \A i \in 1 .. 3 : SegmentCode(path, i, SegmentIndex(paths)) \in 0 .. 255
    BY NamesFit, SegmentFits
  <2>3. [i \in 1 .. 3 |->
            IF i < Levels(path) THEN SegmentCode(path, i, SegmentIndex(paths)) ELSE 0]
        \in [1 .. 3 -> 0 .. 255]
    BY <2>2
  <2> QED
    BY <1>2, <2>1, <2>3 DEF Mask, Entries
<1> QED
  BY <1>1, <1>2

LEMMA SchematicFits ==
    ASSUME NEW path, HasUniqueSchematics(path)
    PROVE  UniqueSchematicsMask(path) \in Entries
<1>1. CodeIn(Rows[1], path[2]) \in 0 .. 255
  BY TopFits DEF HasUniqueSchematics
<1>2. UniqueSchematicsD2[path[2]] \in 0 .. 255
  <2>1. path[2] \in {"garment", "weapons", "vehicles", "utility", "augment"}
    BY DEF HasUniqueSchematics, UniqueSchematicsD2
  <2> QED
    BY <2>1 DEF UniqueSchematicsD2
<1> DEFINE name == CHOOSE n \in SchematicNames(path) : TRUE
<1>3. name \in SchematicNames(path)
  BY DEF HasUniqueSchematics
<1>4. Lists(UniqueSchematicsD3, name)
  <2> HIDE DEF name
  <2> QED
    BY <1>3 DEF SchematicNames
<1>5. CodeIn(UniqueSchematicsD3, name) \in 0 .. 255
  <2> HIDE DEF name
  <2> QED
    BY <1>4, RowsAreShort, CodeFits
<1> HIDE DEF name
<1>6. <<CodeIn(Rows[1], path[2]), UniqueSchematicsD2[path[2]], CodeIn(UniqueSchematicsD3, name)>>
        \in [1 .. 3 -> 0 .. 255]
  BY <1>1, <1>2, <1>5, TripleFits
<1>7. 3 \in 0 .. 3
  OBVIOUS
<1> QED
  BY <1>6, <1>7 DEF UniqueSchematicsMask, Entries, name

LEMMA PlacesFit ==
    ASSUME NEW c \in Catalogs, NEW t \in DOMAIN c
    PROVE  Places[c][t] \in Entries
<1>1. \A path \in {c[u].path : u \in DOMAIN c} : CatalogPath(path)
  BY CatalogFacts DEF CatalogPath, NoPath
<1>2. CatalogPath(c[t].path)
  BY <1>1
<1>3. Mask(c[t].path, SegIdx(c)) \in Entries
  BY <1>1, <1>2, MaskFits DEF SegIdx
<1> QED
  BY <1>3, SchematicFits DEF Places, Routed

-----------------------------------------------------------------------------
(* What the process and the file know of the masks.                        *)
Known(f) ==
    /\ DOMAIN f \subseteq Templates
    /\ \A t \in DOMAIN f : f[t] \in Entries /\ f[t].mask # NoEntry.mask

LEMMA OverKnown ==
    ASSUME NEW f, NEW g, Known(f), Known(g)
    PROVE  Known(Over(f, g))
BY DEF Known, Over

LEMMA EntriesKnown ==
    ASSUME NEW rows, \A r \in rows : r.tmpl \in Templates /\ r.entry \in Entries
                                     /\ r.entry.mask # NoEntry.mask
    PROVE  Known(EntriesOf(rows))
<1>1. ASSUME NEW t \in {r.tmpl : r \in rows}
      PROVE  t \in Templates /\ EntriesOf(rows)[t] \in Entries
             /\ EntriesOf(rows)[t].mask # NoEntry.mask
  <2> DEFINE first == CHOOSE r \in rows : r.tmpl = t
  <2>1. first \in rows /\ first.tmpl = t
    OBVIOUS
  <2>2. EntriesOf(rows)[t] = first.entry
    BY DEF EntriesOf
  <2> HIDE DEF first
  <2> QED
    BY <2>1, <2>2
<1>2. DOMAIN EntriesOf(rows) = {r.tmpl : r \in rows}
  BY DEF EntriesOf
<1> QED
  BY <1>1, <1>2, Zenon DEF Known

LEMMA RefreshTypes ==
    ASSUME TypeOK, NEW known, Known(known), Refresh(known)
    PROVE  Known(categories') /\ Known(cache')
<1>1. Known(cache) /\ \A r \in LiveRows : r.tmpl \in Templates /\ r.entry \in Entries
                                         /\ r.entry.mask # NoEntry.mask
  BY DEF TypeOK, Known, LiveRows
<1>2. PICK read \in SUBSET DOMAIN cache, new \in SUBSET LiveRows, written \in SUBSET LiveRows :
          /\ categories' = Over([t \in read |-> cache[t]], Over(known, EntriesOf(new)))
          /\ cache' = Over(EntriesOf(written), cache)
  BY Zenon DEF Refresh
<1>3. Known(EntriesOf(new)) /\ Known(EntriesOf(written))
  BY <1>1, <1>2, EntriesKnown
<1>4. Known([t \in read |-> cache[t]])
  BY <1>1, <1>2 DEF Known
<1>5. Known(Over(known, EntriesOf(new)))
  BY <1>3, OverKnown
<1> QED
  BY <1>1, <1>2, <1>3, <1>4, <1>5, OverKnown, Zenon

(* Items of a catalog have a category, so that its listings are filed by   *)
(* it and not by the cache.                                                *)
LEMMA NoCacheForItems ==
    ASSUME catalog \in Catalogs, NEW t \in DOMAIN catalog
    PROVE  CategoryFor(t) = Places[catalog][t]
BY CatalogFacts DEF CategoryFor

LEMMA InitTypes == Init => TypeOK
BY DEF Init, TypeOK, EmptyCache

LEMMA StepTypes == TypeOK /\ [Next]_vars => TypeOK'
<1> SUFFICES ASSUME TypeOK, [Next]_vars PROVE TypeOK'
  OBVIOUS
<1>0. Known(cache) /\ Known(categories) /\ Known(EmptyCache) /\ catalog \in Catalogs
  BY DEF TypeOK, Known, EmptyCache
<1> DEFINE Orders == [tmpl : Templates, entry : Entries, bot : BOOLEAN]
<1>1. CASE CreateListings
  <2>2. PICK new \in SUBSET DOMAIN catalog :
          market' = market \cup
              {[tmpl |-> t, entry |-> CategoryFor(t), bot |-> TRUE] : t \in new}
    BY <1>1 DEF CreateListings
  <2>3. \A t \in new : t \in Templates /\ CategoryFor(t) \in Entries
    BY <1>0, CatalogFacts, PlacesFit, NoCacheForItems
  <2>4. market \subseteq Orders
    BY DEF TypeOK
  <2>5. market' \subseteq Orders
    <3>1. \A t \in new : [tmpl |-> t, entry |-> CategoryFor(t), bot |-> TRUE] \in Orders
      BY <2>3
    <3> HIDE DEF Orders
    <3> QED
      BY <2>2, <2>4, <3>1
  <2> QED
    BY <1>1, <2>5 DEF TypeOK, CreateListings
<1>7. CASE ListTick
  <2>1. Known(categories') /\ Known(cache')
    BY <1>0, <1>7, RefreshTypes DEF ListTick
  <2> QED
    BY <1>7, <2>1 DEF TypeOK, Known, ListTick
<1>2. ASSUME NEW c \in Catalogs, NewProcess(c) PROVE TypeOK'
  <2>1. Known(categories') /\ Known(cache')
    BY <1>0, <1>2, RefreshTypes DEF NewProcess
  <2>2. /\ catalog' = c /\ market' = market /\ mixed' \in BOOLEAN
        /\ wiped' = wiped /\ inTick' = FALSE
    BY <1>2 DEF NewProcess, TypeOK
  <2> QED
    BY <2>1, <2>2 DEF TypeOK, Known
<1>3. CASE Restart \/ Deploy
  BY <1>0, <1>2, <1>3 DEF Restart, Deploy
<1>4. CASE Wipe \/ OrderLeaves
  <2>1. /\ market' \subseteq market /\ mixed' \in BOOLEAN /\ wiped' \in BOOLEAN
        /\ UNCHANGED <<catalog, cache, categories, inTick>>
    BY <1>4 DEF Wipe, OrderLeaves, TypeOK
  <2> QED
    BY <2>1 DEF TypeOK
<1>5. CASE PlayerLists
  <2>1. PICK o \in PlayerOrders :
            market' = market \cup {[tmpl |-> o.tmpl, entry |-> o.entry, bot |-> FALSE]}
    BY <1>5 DEF PlayerLists
  <2>2. o.tmpl \in Templates /\ o.entry \in Entries
    BY FilesAssumption
  <2>3. market \subseteq Orders
    BY DEF TypeOK
  <2>4. market' \subseteq Orders
    <3>1. [tmpl |-> o.tmpl, entry |-> o.entry, bot |-> FALSE] \in Orders
      BY <2>2
    <3> HIDE DEF Orders
    <3> QED
      BY <2>1, <2>3, <3>1
  <2> QED
    BY <1>5, <2>4 DEF TypeOK, PlayerLists
<1>6. CASE UNCHANGED vars
  BY <1>6 DEF vars, TypeOK
<1> QED
  BY <1>1, <1>3, <1>4, <1>5, <1>6, <1>7 DEF Next

(* Every mask on the market and in the caches is three bytes, whatever the *)
(* catalogs and the size of their alphabet, and the caches never keep the  *)
(* mask 0, which the code takes for a missing one.                         *)
THEOREM TypeCorrect == Spec => []TypeOK
BY InitTypes, StepTypes, PTL DEF Spec

-----------------------------------------------------------------------------
(* A listing of the bot was filed by some catalog that lists its item, and *)
(* by the running one unless another was deployed without a wipe; from a   *)
(* wipe to the next tick that lists there is none.                         *)
FiledBy(r, c) == r.tmpl \in DOMAIN c /\ r.entry = Places[c][r.tmpl]

IInv ==
    /\ catalog \in Catalogs
    /\ wiped => BotRows = {}
    /\ \A r \in BotRows : \E c \in Catalogs : FiledBy(r, c)
    /\ ~mixed => \A r \in BotRows : FiledBy(r, catalog)

LEMMA InitInv == Init => IInv
BY DEF Init, IInv, BotRows

LEMMA StepInv == IInv /\ [Next]_vars => IInv'
<1> SUFFICES ASSUME IInv, [Next]_vars PROVE IInv'
  OBVIOUS
<1> USE DEF IInv
<1>1. CASE CreateListings
  <2>1. PICK new \in SUBSET DOMAIN catalog :
          market' = market \cup
              {[tmpl |-> t, entry |-> CategoryFor(t), bot |-> TRUE] : t \in new}
    BY <1>1 DEF CreateListings
  <2>2. UNCHANGED <<catalog, mixed>> /\ wiped' = FALSE
    BY <1>1 DEF CreateListings
  <2>3. \A r \in BotRows' : r \in BotRows \/ FiledBy(r, catalog)
    BY <2>1, NoCacheForItems DEF BotRows, FiledBy
  <2> QED
    BY <2>2, <2>3 DEF FiledBy
<1>2. ASSUME NEW c \in Catalogs, NewProcess(c) PROVE IInv'
  <2>1. /\ catalog' = c /\ BotRows' = BotRows /\ wiped' = wiped
        /\ mixed' = (mixed \/ (c # catalog /\ ~wiped))
    BY <1>2 DEF NewProcess, BotRows
  <2>2. ~mixed' => \A r \in BotRows : FiledBy(r, c)
    BY <2>1
  <2> QED
    BY <2>1, <2>2 DEF FiledBy
<1>3. CASE Restart \/ Deploy
  BY <1>2, <1>3 DEF Restart, Deploy
<1>4. CASE Wipe
  BY <1>4 DEF Wipe, BotRows
<1>5. CASE OrderLeaves \/ PlayerLists
  <2>1. BotRows' \subseteq BotRows
    BY <1>5 DEF OrderLeaves, PlayerLists, BotRows
  <2> QED
    BY <1>5, <2>1 DEF OrderLeaves, PlayerLists, FiledBy
<1>6. CASE ListTick \/ UNCHANGED vars
  BY <1>6 DEF ListTick, vars, BotRows, FiledBy
<1> QED
  BY <1>1, <1>3, <1>4, <1>5, <1>6 DEF Next

(* The cache never decides where an item is listed, and a deployment that  *)
(* wipes first leaves no listing of an earlier catalog.                    *)
THEOREM NoStaleMasks == Spec => []MasksAreCurrent
<1>1. IInv => MasksAreCurrent
  BY DEF IInv, MasksAreCurrent, FiledBy
<1> QED
  BY <1>1, InitInv, StepInv, PTL DEF Spec

(* Listings in confirmed places are right for every catalog there is, so   *)
(* they need no wipe.                                                      *)
THEOREM ConfirmedPlacesNeedNoWipe == Spec => []ConfirmedPlacesStay
<1>1. IInv => ConfirmedPlacesStay
  <2> SUFFICES ASSUME IInv, NEW r \in BotRows, NEW c \in Catalogs,
                      r.tmpl \in DOMAIN c, Anchored(c[r.tmpl])
               PROVE  r.entry = Places[c][r.tmpl]
    BY DEF ConfirmedPlacesStay
  <2>1. PICK d \in Catalogs : FiledBy(r, d)
    BY DEF IInv
  <2> QED
    BY <2>1, AnchoredPlace DEF FiledBy
<1> QED
  BY <1>1, InitInv, StepInv, PTL DEF Spec
-----------------------------------------------------------------------------
(* A code names its name, in the one row that has it.                      *)
LEMMA CodeNames ==
    ASSUME NEW rows, NEW row \in rows, NEW name, Contains(row, name), Len(row) \in Nat,
           \A r \in rows : Contains(r, name) => r = row
    PROVE  /\ CodeIn(rows, name) \in 0 .. Len(row) - 1
           /\ row[CodeIn(rows, name) + 1] = name
<1> DEFINE S == {i \in 1 .. Len(row) : row[i] = name}
           chosen == CHOOSE r \in rows : Contains(r, name)
<1>1. chosen = row
  <2>1. chosen \in rows /\ Contains(chosen, name)
    OBVIOUS
  <2> HIDE DEF chosen
  <2> QED
    BY <2>1
<1>2. S # {}
  BY DEF Contains
<1>3. S \in SUBSET Int /\ IsFiniteSet(S)
  <2>1. 1 \in Int /\ Len(row) \in Int /\ S \in SUBSET (1 .. Len(row))
    OBVIOUS
  <2> HIDE DEF S
  <2>2. IsFiniteSet(1 .. Len(row))
    BY <2>1, FS_Interval
  <2>3. IsFiniteSet(S)
    BY <2>1, <2>2, FS_Subset
  <2> QED
    BY <2>1, <2>3
<1>4. Min(S) \in S
  <2> HIDE DEF S
  <2> QED
    BY <1>2, <1>3, LeastIsThere
<1>5. CodeIn(rows, name) = Min(S) - 1
  <2>1. CodeIn(rows, name) = SelectInSeq(chosen, LAMBDA x : x = name) - 1
    BY DEF CodeIn
  <2>2. SelectInSeq(row, LAMBDA x : x = name) = Min(S)
    BY <1>2 DEF SelectInSeq
  <2> HIDE DEF S, chosen
  <2> QED
    BY <1>1, <2>1, <2>2
<1>6. \A m \in S : /\ m - 1 \in 0 .. Len(row) - 1
                  /\ row[m - 1 + 1] = name
  OBVIOUS
<1> HIDE DEF S
<1> QED
  BY <1>4, <1>5, <1>6, Zenon

(* The rows of the second level, and those of the sections, have no name   *)
(* in common.                                                              *)
LEMMA RowsApart ==
    ASSUME NEW name, name # Gap, NEW top \in DOMAIN TopRow, Contains(TopRow[top], name)
    PROVE  /\ TopRow[top] \in Rows[2]
           /\ \A row \in Rows[2] : Contains(row, name) => row = TopRow[top]
<1> DEFINE G == {"lightarmor", "heavyarmor", "stillsuits", "utilitywearables", "socialwearables"}
           W == {"pistol", "heavypistol", "heavyrifle", "smg", "spitdart", "shotgun",
                 "battlerifle", "heavyshotgun", "missilelauncher", "flamethrower",
                 "fireballer", "lasgun", "ammunition"}
           V == {"sandbike", "buggy", "lightornithopter", "mediumornithopter",
                 "transportornithopter", "sandcrawler"}
           A == {"armor", "melee", "ranged", "misc"}
           U == {"buildingtools", "hydrationtools", "gatheringtools", "cartographytools",
                 "utilitytools", "consumables"}
           M == {"fuel", "refinedresources", "components", "rawresources"}
<1>1. Contains(Garments, name) => name \in G
  BY DEF Contains, Garments
<1>2. Contains(WeaponRow, name) => name \in W
  BY DEF Contains, WeaponRow, Ranged
<1>3. Contains(Vehicles, name) => name \in V
  BY DEF Contains, Vehicles
<1>4. Contains(Augments, name) => name \in A
  BY DEF Contains, Augments
<1>5. Contains(UtilityRow, name) => name \in U
  BY DEF Contains, UtilityRow
<1>6. Contains(MiscRow, name) => name \in M
  BY DEF Contains, MiscRow
<1>7. Rows[2] = {Garments, WeaponRow, Vehicles, Augments, UtilityRow, MiscRow}
  BY DEF Rows, WeaponRow, UtilityRow, MiscRow
<1>8. TopRow[top] \in {Garments, WeaponRow, Vehicles, Augments, UtilityRow, MiscRow}
  BY DEF TopRow
<1>9. /\ G \cap W = {} /\ G \cap V = {} /\ G \cap A = {} /\ G \cap U = {} /\ G \cap M = {}
      /\ W \cap V = {} /\ W \cap A = {} /\ W \cap U = {} /\ W \cap M = {}
      /\ V \cap A = {} /\ V \cap U = {} /\ V \cap M = {}
      /\ A \cap U = {} /\ A \cap M = {} /\ U \cap M = {}
  OBVIOUS
<1> HIDE DEF G, W, V, A, U, M
<1>10. ASSUME NEW r1 \in {Garments, WeaponRow, Vehicles, Augments, UtilityRow, MiscRow},
              NEW r2 \in {Garments, WeaponRow, Vehicles, Augments, UtilityRow, MiscRow},
              Contains(r1, name), Contains(r2, name)
       PROVE  r1 = r2
  BY <1>1, <1>2, <1>3, <1>4, <1>5, <1>6, <1>9, <1>10
<1> QED
  BY <1>7, <1>8, <1>10

LEMMA SectionsApart ==
    ASSUME NEW name, NEW top \in DOMAIN Section, Contains(Section[top], name)
    PROVE  /\ Section[top] \in UniqueSchematicsD3
           /\ \A row \in UniqueSchematicsD3 : Contains(row, name) => row = Section[top]
<1> DEFINE G == {"lightarmor", "heavyarmor", "stillsuits", "utilitywearables", "socialwearables"}
           W == {"shortblades", "longblades", "pistol", "heavypistol", "heavyrifle", "smg",
                 "spitdart", "shotgun", "battlerifle", "heavyshotgun", "missilelauncher",
                 "flamethrower", "fireballer", "lasgun"}
           V == {"sandbike", "buggy", "lightornithopter", "mediumornithopter",
                 "transportornithopter", "sandcrawler"}
           A == {"armor", "melee", "ranged", "misc"}
           U == {"deployables", "watertools", "bloodtools", "cutteray", "staticcompactor",
                 "cartographytools", "shield", "suspensor", "powerpack"}
<1>1. Contains(Garments, name) => name \in G
  BY DEF Contains, Garments
<1>2. Contains(WeaponSection, name) => name \in W
  BY DEF Contains, WeaponSection, Ranged
<1>3. Contains(Vehicles, name) => name \in V
  BY DEF Contains, Vehicles
<1>4. Contains(Augments, name) => name \in A
  BY DEF Contains, Augments
<1>5. Contains(UtilitySection, name) => name \in U
  BY DEF Contains, UtilitySection
<1>6. UniqueSchematicsD3 = {Garments, WeaponSection, Vehicles, Augments, UtilitySection}
  BY DEF UniqueSchematicsD3, WeaponSection, UtilitySection
<1>7. Section[top] \in {Garments, WeaponSection, Vehicles, Augments, UtilitySection}
  BY DEF Section
<1>8. /\ G \cap W = {} /\ G \cap V = {} /\ G \cap A = {} /\ G \cap U = {}
      /\ W \cap V = {} /\ W \cap A = {} /\ W \cap U = {}
      /\ V \cap A = {} /\ V \cap U = {} /\ A \cap U = {}
  OBVIOUS
<1> HIDE DEF G, W, V, A, U
<1>9. ASSUME NEW r1 \in {Garments, WeaponSection, Vehicles, Augments, UtilitySection},
             NEW r2 \in {Garments, WeaponSection, Vehicles, Augments, UtilitySection},
             Contains(r1, name), Contains(r2, name)
      PROVE  r1 = r2
  BY <1>1, <1>2, <1>3, <1>4, <1>5, <1>8, <1>9
<1> QED
  BY <1>6, <1>7, <1>9

(* The code of a name of the first level.                                  *)
LEMMA TopCode ==
    ASSUME NEW top \in DOMAIN TopRow
    PROVE  CodeIn(Rows[1], top) \in Nat /\ Depth1[CodeIn(Rows[1], top) + 1] = top
<1>1. Contains(Depth1, top) /\ Len(Depth1) = 6
  <2>1. /\ Len(Depth1) = 6
        /\ Depth1[1] = "garment" /\ Depth1[2] = "weapons" /\ Depth1[3] = "vehicles"
        /\ Depth1[4] = "utility" /\ Depth1[5] = "augment" /\ Depth1[6] = "misc"
    BY DEF Depth1
  <2>2. {1, 2, 3, 4, 5, 6} \subseteq 1 .. Len(Depth1)
    BY <2>1
  <2>3. top \in {"garment", "weapons", "vehicles", "utility", "augment", "misc"}
    BY DEF TopRow
  <2> QED
    BY <2>1, <2>2, <2>3 DEF Contains
<1>2. Rows[1] = {Depth1}
  BY DEF Rows
<1> QED
  BY <1>1, <1>2, CodeNames
(* The mask of a path of the menu spells it, level by level.               *)
LEMMA MenuMask ==
    ASSUME NEW path, CatalogPath(path), InMenu(path), ~Remapped(path), NEW index
    PROVE  /\ Mask(path, index).depth = Len(path) - 1
           /\ Depth1[Mask(path, index).mask[1] + 1] = path[2]
           /\ Mask(path, index).mask[2] \in 0 .. Len(TopRow[path[2]]) - 1
           /\ TopRow[path[2]][Mask(path, index).mask[2] + 1] = path[3]
           /\ Len(path) = 4 => SubRow(path[3])[Mask(path, index).mask[3] + 1] = path[4]
<1> DEFINE e == Mask(path, index)
<1>1. /\ path \in Seq(STRING) /\ Len(path) \in 3 .. 4 /\ path[2] \in DOMAIN TopRow
      /\ Contains(TopRow[path[2]], path[3]) /\ Levels(path) = Len(path)
      /\ Len(path) = 4 => Contains(SubRow(path[3]), path[4])
  <2>1. Len(path) \in 3 .. 4 => Levels(path) = Len(path)
    BY DEF Levels
  <2>2. Len(path) \in 3 .. 4 /\ path \in Seq(STRING)
    BY DEF InMenu, CatalogPath
  <2> QED
    BY <2>1, <2>2 DEF InMenu
<1>2. path[3] # Gap
  <2>1. Gap \notin ToSet(Alphabet) /\ ToSet(Tail(path)) \subseteq ToSet(Alphabet)
    BY AlphabetAssumption DEF CatalogPath
  <2>2. 2 \in DOMAIN Tail(path) /\ Tail(path)[2] = path[3]
    BY <1>1
  <2> QED
    BY <2>1, <2>2 DEF ToSet
<1>3. /\ e.depth = Len(path) - 1
      /\ e.mask = [i \in 1 .. 3 |->
                     IF i < Len(path) THEN SegmentCode(path, i, index) ELSE 0]
  BY <1>1 DEF Mask
<1>4. /\ e.mask[1] = SegmentCode(path, 1, index)
      /\ e.mask[2] = SegmentCode(path, 2, index)
      /\ Len(path) = 4 => e.mask[3] = SegmentCode(path, 3, index)
  BY <1>1, <1>3
<1>5. SegmentCode(path, 1, index) = CodeIn(Rows[1], path[2])
  <2>1. Contains(Depth1, path[2])
    <3>1. /\ Len(Depth1) = 6
          /\ Depth1[1] = "garment" /\ Depth1[2] = "weapons" /\ Depth1[3] = "vehicles"
          /\ Depth1[4] = "utility" /\ Depth1[5] = "augment" /\ Depth1[6] = "misc"
      BY DEF Depth1
    <3>2. {1, 2, 3, 4, 5, 6} \subseteq 1 .. Len(Depth1)
      BY <3>1
    <3>3. path[2] \in {"garment", "weapons", "vehicles", "utility", "augment", "misc"}
      BY <1>1 DEF TopRow
    <3> QED
      BY <3>1, <3>2, <3>3 DEF Contains
  <2>2. Lists(Rows[1], path[2]) /\ ParentRows(path, 1) = {}
    BY <2>1 DEF Lists, Rows, ParentRows
  <2>3. ~Lists(ParentRows(path, 1), path[2])
    BY <2>2 DEF Lists
  <2> QED
    BY <2>2, <2>3 DEF SegmentCode
<1>6. SegmentCode(path, 2, index) = CodeIn(Rows[2], path[3])
  <2>1. Lists(Rows[2], path[3]) /\ ParentRows(path, 2) = {}
    BY <1>1, <1>2, RowsApart DEF Lists, ParentRows
  <2>2. ~Lists(ParentRows(path, 2), path[3])
    BY <2>1 DEF Lists
  <2> QED
    BY <2>1, <2>2 DEF SegmentCode
<1>7. /\ CodeIn(Rows[2], path[3]) \in 0 .. Len(TopRow[path[2]]) - 1
      /\ TopRow[path[2]][CodeIn(Rows[2], path[3]) + 1] = path[3]
  <2>1. /\ TopRow[path[2]] \in Rows[2] /\ Short(TopRow[path[2]])
        /\ \A row \in Rows[2] : Contains(row, path[3]) => row = TopRow[path[2]]
    <3>1. 2 \in 1 .. 3
      OBVIOUS
    <3> QED
      BY <1>1, <1>2, <3>1, RowsApart, RowsAreShort
  <2>2. Len(TopRow[path[2]]) \in Nat
    BY <2>1 DEF Short
  <2> QED
    BY <1>1, <2>1, <2>2, CodeNames
<1>8. ASSUME Len(path) = 4
      PROVE  SubRow(path[3])[SegmentCode(path, 3, index) + 1] = path[4]
  <2>1. CASE path[3] \in DOMAIN Depth3Parent
    <3> DEFINE row == Depth3Parent[path[3]]
    <3>1. /\ SubRow(path[3]) = row /\ ParentRows(path, 3) = {row} /\ Short(row)
          /\ Contains(row, path[4])
      BY <1>1, <1>8, <2>1, RowsAreShort DEF SubRow, ParentRows
    <3> HIDE DEF row
    <3>2. Lists({row}, path[4]) /\ Len(row) \in Nat
      BY <3>1 DEF Lists, Short
    <3>3. SegmentCode(path, 3, index) = CodeIn({row}, path[4])
      <4>0. 3 + 1 = 4
        OBVIOUS
      <4>1. Lists(ParentRows(path, 3), path[3 + 1])
        BY <3>1, <3>2, <4>0, Zenon
      <4>2. SegmentCode(path, 3, index) = CodeIn(ParentRows(path, 3), path[3 + 1])
        BY <4>1, Zenon DEF SegmentCode
      <4> QED
        BY <3>1, <4>0, <4>2, Zenon
    <3>4. row[CodeIn({row}, path[4]) + 1] = path[4]
      BY <3>1, <3>2, CodeNames
    <3> QED
      BY <3>1, <3>3, <3>4
  <2>2. CASE path[3] \notin DOMAIN Depth3Parent
    <3>1. SubRow(path[3]) = GatheringRow /\ Contains(GatheringRow, path[4])
      <4>1. ~Contains(<<>>, path[4])
        BY DEF Contains
      <4> QED
        BY <1>1, <1>8, <2>2, <4>1 DEF SubRow
    <3>2. ParentRows(path, 3) = {} /\ Rows[3] = {GatheringRow} /\ Len(GatheringRow) = 2
      BY <2>2 DEF ParentRows, Rows, GatheringRow
    <3>3. SegmentCode(path, 3, index) = CodeIn({GatheringRow}, path[4])
      BY <3>1, <3>2 DEF SegmentCode, Lists
    <3>4. GatheringRow[CodeIn({GatheringRow}, path[4]) + 1] = path[4]
      <4>1. Len(GatheringRow) \in Nat /\ Contains(GatheringRow, path[4])
        BY <3>1, <3>2
      <4>2. \A r \in {GatheringRow} : Contains(r, path[4]) => r = GatheringRow
        OBVIOUS
      <4>3. GatheringRow \in {GatheringRow}
        OBVIOUS
      <4> QED
        BY <4>1, <4>2, <4>3, CodeNames, Zenon
    <3> QED
      BY <3>1, <3>3, <3>4
  <2> QED
    BY <2>1, <2>2
<1>9. Depth1[CodeIn(Rows[1], path[2]) + 1] = path[2]
  BY <1>1, TopCode
<1> QED
  BY <1>3, <1>4, <1>5, <1>6, <1>7, <1>8, <1>9

(* Blades go under a name the catalog does not have.                       *)
LEMMA BladeMask ==
    ASSUME NEW path, CatalogPath(path), InMenu(path), Remapped(path), NEW index
    PROVE  /\ Mask(path, index).depth = 3 /\ Len(path) = 3 /\ path[1] = "items" /\ path[2] = "weapons"
           /\ Depth1[Mask(path, index).mask[1] + 1] = "weapons" /\ Mask(path, index).mask[2] = 0
           /\ path[3] = IF Mask(path, index).mask[3] = 0 THEN "shortblades" ELSE "longblades"
<1> DEFINE e == Mask(path, index)
<1>1. /\ Len(path) = 3 /\ path[1] = "items" /\ path[2] = "weapons"
      /\ path[3] = "shortblades" \/ path[3] = "longblades"
  BY DEF InMenu, Remapped, WeaponPathRemap
<1>2. /\ e.depth = 3
      /\ e.mask = <<CodeIn(Rows[1], "weapons"), WeaponPathRemap[path[3]][1],
                    WeaponPathRemap[path[3]][2]>>
  BY DEF Mask
<1>3. Depth1[CodeIn(Rows[1], "weapons") + 1] = "weapons"
  BY TopCode DEF TopRow
<1> QED
  BY <1>1, <1>2, <1>3 DEF WeaponPathRemap

LEMMA RoutedMask ==
    ASSUME NEW path, HasUniqueSchematics(path),
           \A name \in SchematicNames(path) : Contains(Section[path[2]], name)
    PROVE  /\ UniqueSchematicsMask(path).depth = 3 /\ path[2] \in DOMAIN Section
           /\ Depth1[UniqueSchematicsMask(path).mask[1] + 1] = path[2]
           /\ UniqueSchematicsMask(path).mask[2] = UniqueSchematicsD2[path[2]]
           /\ SchematicNames(path) = {Section[path[2]][UniqueSchematicsMask(path).mask[3] + 1]}
<1> DEFINE e == UniqueSchematicsMask(path)
<1>1. path[2] \in DOMAIN UniqueSchematicsD2 /\ SchematicNames(path) # {}
  BY DEF HasUniqueSchematics
<1>2. path[2] \in DOMAIN Section /\ path[2] \in DOMAIN TopRow
  BY <1>1 DEF UniqueSchematicsD2, Section, TopRow
<1>3. PICK name : SchematicNames(path) = {name}
  BY <1>1 DEF SchematicNames
<1>4. /\ e.depth = 3
      /\ e.mask = <<CodeIn(Rows[1], path[2]), UniqueSchematicsD2[path[2]],
                    CodeIn(UniqueSchematicsD3, name)>>
  <2>1. (CHOOSE n \in SchematicNames(path) : TRUE) = name
    BY <1>3
  <2> QED
    BY <2>1 DEF UniqueSchematicsMask
<1>5. Section[path[2]][CodeIn(UniqueSchematicsD3, name) + 1] = name
  <2>1. /\ Contains(Section[path[2]], name) /\ Section[path[2]] \in UniqueSchematicsD3
        /\ \A row \in UniqueSchematicsD3 : Contains(row, name) => row = Section[path[2]]
    BY <1>2, <1>3, SectionsApart
  <2>2. Len(Section[path[2]]) \in Nat
    BY <2>1, RowsAreShort DEF Short
  <2> QED
    BY <2>1, <2>2, CodeNames
<1>6. Depth1[CodeIn(Rows[1], path[2]) + 1] = path[2]
  BY <1>2, TopCode
<1> QED
  BY <1>2, <1>3, <1>4, <1>5, <1>6
-----------------------------------------------------------------------------
(* Two paths of the menu with one mask are the same path.                  *)
LEMMA MenuApart ==
    ASSUME NEW p, CatalogPath(p), InMenu(p), NEW q, CatalogPath(q), InMenu(q),
           NEW index, Mask(p, index) = Mask(q, index)
    PROVE  p = q
<1> DEFINE e == Mask(p, index)
<1>1. e = Mask(p, index) /\ e = Mask(q, index)
  OBVIOUS
<1> HIDE DEF e
<1>2. /\ p \in Seq(STRING) /\ q \in Seq(STRING) /\ p[1] = "items" /\ q[1] = "items"
      /\ Len(p) \in 3 .. 4 /\ Len(q) \in 3 .. 4
  BY DEF CatalogPath, InMenu
<1>3. ASSUME NEW x, CatalogPath(x), InMenu(x), Remapped(x), e = Mask(x, index),
             NEW y, CatalogPath(y), InMenu(y), ~Remapped(y), e = Mask(y, index)
      PROVE  FALSE
  <2>1. Depth1[e.mask[1] + 1] = "weapons" /\ e.mask[2] = 0
    <3> DEFINE m == Mask(x, index)
    <3>1. CatalogPath(x) /\ InMenu(x) /\ Remapped(x)
      BY <1>3
    <3>2. Depth1[m.mask[1] + 1] = "weapons" /\ m.mask[2] = 0
      BY <3>1, BladeMask
    <3> QED
      BY <1>3, <3>2, Zenon
  <2>2. Depth1[e.mask[1] + 1] = y[2] /\ TopRow[y[2]][e.mask[2] + 1] = y[3]
    BY <1>3, MenuMask
  <2>3. y[3] = Gap
    BY <2>1, <2>2 DEF TopRow, WeaponRow, Ranged
  <2>4. Gap \notin ToSet(Alphabet) /\ ToSet(Tail(y)) \subseteq ToSet(Alphabet)
    BY <1>3, AlphabetAssumption DEF CatalogPath
  <2>5. 2 \in DOMAIN Tail(y) /\ Tail(y)[2] = y[3]
    <3>1. y \in Seq(STRING) /\ Len(y) \in 3 .. 4
      BY <1>3 DEF CatalogPath, InMenu
    <3> QED
      BY <3>1
  <2> QED
    BY <2>3, <2>4, <2>5 DEF ToSet
<1>4. CASE Remapped(p) /\ Remapped(q)
  <2>1. /\ Len(p) = 3 /\ p[2] = "weapons"
        /\ p[3] = IF e.mask[3] = 0 THEN "shortblades" ELSE "longblades"
    BY <1>1, <1>4, BladeMask
  <2>2. /\ Len(q) = 3 /\ q[2] = "weapons"
        /\ q[3] = IF e.mask[3] = 0 THEN "shortblades" ELSE "longblades"
    BY <1>1, <1>4, BladeMask
  <2>3. \A i \in 1 .. 3 : p[i] = q[i]
    <3>1. \A i \in 1 .. 3 : i = 1 \/ i = 2 \/ i = 3
      OBVIOUS
    <3> QED
      BY <1>2, <2>1, <2>2, <3>1
  <2> QED
    BY <1>2, <2>1, <2>2, <2>3
<1>5. CASE ~Remapped(p) /\ ~Remapped(q)
  <2>1. /\ e.depth = Len(p) - 1 /\ Depth1[e.mask[1] + 1] = p[2]
        /\ TopRow[p[2]][e.mask[2] + 1] = p[3]
        /\ Len(p) = 4 => SubRow(p[3])[e.mask[3] + 1] = p[4]
    BY <1>1, <1>5, MenuMask
  <2>2. /\ e.depth = Len(q) - 1 /\ Depth1[e.mask[1] + 1] = q[2]
        /\ TopRow[q[2]][e.mask[2] + 1] = q[3]
        /\ Len(q) = 4 => SubRow(q[3])[e.mask[3] + 1] = q[4]
    BY <1>1, <1>5, MenuMask
  <2>3. Len(p) = Len(q)
    BY <1>2, <2>1, <2>2
  <2>4. p[2] = q[2] /\ p[3] = q[3] /\ (Len(p) = 4 => p[4] = q[4])
    BY <2>1, <2>2, <2>3
  <2>5. \A i \in 1 .. Len(p) : p[i] = q[i]
    <3>1. \A n \in 3 .. 4 : \A i \in 1 .. n : i = 1 \/ i = 2 \/ i = 3 \/ (i = 4 /\ n = 4)
      OBVIOUS
    <3> QED
      BY <1>2, <2>4, <3>1
  <2> QED
    BY <1>2, <2>3, <2>5
<1> QED
  BY <1>1, <1>3, <1>4, <1>5

(* No item is filed among the unique schematics.                           *)
LEMMA MenuAndSections ==
    ASSUME NEW p, CatalogPath(p), InMenu(p), NEW index,
           NEW q, HasUniqueSchematics(q),
           \A name \in SchematicNames(q) : Contains(Section[q[2]], name)
    PROVE  Mask(p, index) # UniqueSchematicsMask(q)
<1>0. SUFFICES ASSUME NEW e, e = Mask(p, index), e = UniqueSchematicsMask(q) PROVE FALSE
  OBVIOUS
<1>1. /\ e.depth = 3 /\ q[2] \in DOMAIN Section
      /\ Depth1[e.mask[1] + 1] = q[2] /\ e.mask[2] = UniqueSchematicsD2[q[2]]
  <2> DEFINE m == UniqueSchematicsMask(q)
  <2>1. /\ m.depth = 3 /\ q[2] \in DOMAIN Section
        /\ Depth1[m.mask[1] + 1] = q[2] /\ m.mask[2] = UniqueSchematicsD2[q[2]]
    BY RoutedMask
  <2> QED
    BY <1>0, <2>1, Zenon
<1>2. CASE Remapped(p)
  <2>1. Depth1[e.mask[1] + 1] = "weapons" /\ e.mask[2] = 0
    <3> DEFINE m == Mask(p, index)
    <3>1. Depth1[m.mask[1] + 1] = "weapons" /\ m.mask[2] = 0
      BY <1>2, BladeMask
    <3> QED
      BY <1>0, <3>1, Zenon
  <2>2. q[2] = "weapons"
    BY <1>1, <2>1, Zenon
  <2> QED
    BY <1>1, <2>1, <2>2 DEF UniqueSchematicsD2
<1>3. CASE ~Remapped(p)
  <2>1. /\ e.depth = Len(p) - 1
        /\ Depth1[e.mask[1] + 1] = p[2]
        /\ e.mask[2] \in 0 .. Len(TopRow[p[2]]) - 1
    <3> DEFINE m == Mask(p, index)
    <3>1. /\ m.depth = Len(p) - 1
          /\ Depth1[m.mask[1] + 1] = p[2]
          /\ m.mask[2] \in 0 .. Len(TopRow[p[2]]) - 1
      BY <1>3, MenuMask
    <3> QED
      BY <1>0, <3>1, Zenon
  <2>2. Len(p) = 4 /\ Contains(TopRow[p[2]], p[3]) /\ Contains(SubRow(p[3]), p[4])
    <3>1. /\ Len(p) \in 3 .. 4 /\ Contains(TopRow[p[2]], p[3])
          /\ Len(p) = 4 => Contains(SubRow(p[3]), p[4])
      BY <1>3 DEF InMenu
    <3>2. Len(p) - 1 = 3
      BY <1>1, <2>1, Zenon
    <3> QED
      BY <3>1, <3>2
  <2>3. q[2] # "weapons"
    <3> SUFFICES ASSUME q[2] = "weapons" PROVE FALSE
      OBVIOUS
    <3>1. Contains(WeaponRow, p[3])
      <4>1. p[2] = "weapons"
        BY <1>1, <2>1, Zenon
      <4>2. TopRow["weapons"] = WeaponRow
        BY DEF TopRow
      <4> QED
        BY <2>2, <4>1, <4>2, Zenon
    <3>2. p[3] \in {Gap, "pistol", "heavypistol", "heavyrifle", "smg", "spitdart", "shotgun",
                    "battlerifle", "heavyshotgun", "missilelauncher", "flamethrower",
                    "fireballer", "lasgun", "ammunition"}
      BY <3>1 DEF Contains, WeaponRow, Ranged
    <3>3. SubRow(p[3]) = <<>>
      BY <3>2 DEF SubRow, Depth3Parent, Gap
    <3>4. ~Contains(<<>>, p[4])
      BY DEF Contains
    <3> QED
      BY <2>2, <3>3, <3>4
  <2>4. q[2] \in {"garment", "vehicles", "utility", "augment"}
    BY <1>1, <2>3 DEF Section
  <2>5. /\ Len(Garments) = 5 /\ Len(Vehicles) = 6 /\ Len(Augments) = 4 /\ Len(UtilityRow) = 7
    BY DEF Garments, Vehicles, Augments, UtilityRow
  <2>6. \A top \in {"garment", "vehicles", "utility", "augment"} :
            UniqueSchematicsD2[top] = Len(TopRow[top])
    <3>1. UniqueSchematicsD2["garment"] = Len(TopRow["garment"])
      BY <2>5 DEF UniqueSchematicsD2, TopRow
    <3>2. UniqueSchematicsD2["vehicles"] = Len(TopRow["vehicles"])
      BY <2>5 DEF UniqueSchematicsD2, TopRow
    <3>3. UniqueSchematicsD2["utility"] = Len(TopRow["utility"])
      BY <2>5 DEF UniqueSchematicsD2, TopRow
    <3>4. UniqueSchematicsD2["augment"] = Len(TopRow["augment"])
      BY <2>5 DEF UniqueSchematicsD2, TopRow
    <3> QED
      BY <3>1, <3>2, <3>3, <3>4
  <2>7. q[2] = p[2] /\ e.mask[2] = Len(TopRow[p[2]]) /\ Len(TopRow[p[2]]) \in Nat
    <3>1. q[2] = p[2]
      BY <1>1, <2>1, Zenon
    <3>2. e.mask[2] = Len(TopRow[p[2]])
      BY <1>1, <2>4, <2>6, <3>1
    <3>3. Len(TopRow[p[2]]) \in Nat
      BY <2>4, <2>5, <3>1 DEF TopRow
    <3> QED
      BY <3>1, <3>2, <3>3
  <2> QED
    BY <1>1, <2>1, <2>7
<1> QED
  BY <1>2, <1>3

(* In a sorted catalog anchored items of two kinds have two places.        *)
LEMMA KindsApart ==
    ASSUME CatalogsSorted, NEW c \in Catalogs, NEW s \in DOMAIN c, NEW t \in DOMAIN c,
           Anchored(c[s]), Anchored(c[t]), Kind(c[s]) # Kind(c[t])
    PROVE  Places[c][s] # Places[c][t]
<1> DEFINE Tidy(u) == \A name \in SchematicNames(c[u].path) :
                          Contains(Section[c[u].path[2]], name)
<1>1. /\ CatalogPath(c[s].path) /\ c[s].schematic \in BOOLEAN
      /\ CatalogPath(c[t].path) /\ c[t].schematic \in BOOLEAN
  BY CatalogFacts DEF CatalogPath, NoPath
<1>2. ASSUME NEW u \in DOMAIN c, Anchored(c[u])
      PROVE  /\ Routed(c[u]) => /\ HasUniqueSchematics(c[u].path) /\ Tidy(u)
                                 /\ Places[c][u] = UniqueSchematicsMask(c[u].path)
             /\ ~Routed(c[u]) => /\ InMenu(c[u].path)
                                  /\ Places[c][u] = Mask(c[u].path, SegIdx(c))
  BY <1>2 DEF Anchored, Routed, CatalogsSorted, Places
<1> HIDE DEF Tidy
<1>3. CASE ~Routed(c[s]) /\ ~Routed(c[t])
  <2>1. c[s].path # c[t].path
    BY <1>3 DEF Kind, Routed
  <2> QED
    BY <1>1, <1>2, <1>3, <2>1, MenuApart
<1>4. CASE Routed(c[s]) /\ ~Routed(c[t])
  BY <1>1, <1>2, <1>4, MenuAndSections DEF Tidy
<1>5. CASE ~Routed(c[s]) /\ Routed(c[t])
  BY <1>1, <1>2, <1>5, MenuAndSections DEF Tidy
<1>6. CASE Routed(c[s]) /\ Routed(c[t])
  <2>1. c[s].path # c[t].path
    BY <1>6 DEF Kind, Routed
  <2> SUFFICES ASSUME NEW e, e = UniqueSchematicsMask(c[s].path),
                      e = UniqueSchematicsMask(c[t].path)
               PROVE  FALSE
    BY <1>2, <1>6
  <2>2. /\ Depth1[e.mask[1] + 1] = c[s].path[2]
        /\ SchematicNames(c[s].path) = {Section[c[s].path[2]][e.mask[3] + 1]}
    BY <1>2, <1>6, RoutedMask DEF Tidy
  <2>3. /\ Depth1[e.mask[1] + 1] = c[t].path[2]
        /\ SchematicNames(c[t].path) = {Section[c[t].path[2]][e.mask[3] + 1]}
    BY <1>2, <1>6, RoutedMask DEF Tidy
  <2>4. c[s].path[2] = c[t].path[2]
    BY <2>2, <2>3, Zenon
  <2>5. SchematicNames(c[s].path) = SchematicNames(c[t].path)
    BY <2>2, <2>3, <2>4, Zenon
  <2> QED
    BY <1>6, <2>1, <2>4, <2>5 DEF CatalogsSorted
<1> QED
  BY <1>3, <1>4, <1>5, <1>6

(* Whatever restarts, deployments and wipes did, listings of two kinds of  *)
(* confirmed items are never filed in one place (categoryFor), provided    *)
(* the catalogs keep names where the menu has them.                        *)
THEOREM PlacesStayDistinct ==
    ASSUME CatalogsSorted
    PROVE  Spec => []PlacesAreDistinct
<1>1. IInv => PlacesAreDistinct
  <2> SUFFICES ASSUME IInv, NEW q \in BotRows, NEW r \in BotRows,
                      q.tmpl \in DOMAIN catalog, r.tmpl \in DOMAIN catalog,
                      Anchored(catalog[q.tmpl]), Anchored(catalog[r.tmpl]),
                      Kind(catalog[q.tmpl]) # Kind(catalog[r.tmpl])
               PROVE  q.entry # r.entry
    BY DEF PlacesAreDistinct
  <2>1. ASSUME NEW x \in BotRows, x.tmpl \in DOMAIN catalog, Anchored(catalog[x.tmpl])
        PROVE  x.entry = Places[catalog][x.tmpl]
    <3>1. PICK d \in Catalogs : FiledBy(x, d)
      BY DEF IInv
    <3> QED
      BY <2>1, <3>1, AnchoredPlace DEF FiledBy, IInv
  <2>2. q.entry = Places[catalog][q.tmpl] /\ r.entry = Places[catalog][r.tmpl]
    BY <2>1
  <2>3. catalog \in Catalogs
    BY DEF IInv
  <2> QED
    BY <2>2, <2>3, KindsApart
<1> QED
  BY <1>1, InitInv, StepInv, PTL DEF Spec
=============================================================================
