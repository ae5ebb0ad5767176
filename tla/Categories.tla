------------------------------ MODULE Categories ------------------------------
(***************************************************************************)
(* The masks the bot's listings carry over restarts and deployments of     *)
(* another catalog: categoryFor and refreshCategoryCache of                *)
(* src/exchange.go.  The masks of live orders are kept in a local SQLite   *)
(* file that survives the process, and with it the catalog they were made  *)
(* from; a list tick leaves a listing whose price is right as it is,       *)
(* whatever its mask; and the wipe of a deployment comes before the old    *)
(* process is stopped.                                                     *)
(***************************************************************************)
EXTENDS CategoryMask

CONSTANTS
    Files,          \* item-data files: template ids to [path, schematic]
    PlayerOrders    \* template, mask and depth of orders players may place

Templates == UNION {DOMAIN f : f \in Files}

Entries == [mask : [1 .. 3 -> 0 .. 255], depth : 0 .. 3]

NoEntry == [mask |-> <<0, 0, 0>>, depth |-> 0]

(* The path of an item without a category.                                 *)
NoPath == <<>>

(* LoadCatalog skips items without a category; players trade them still.   *)
Loaded(file) == [t \in {u \in DOMAIN file : file[u].path # NoPath} |-> file[t]]

Catalogs == {Loaded(f) : f \in Files}

ASSUME FilesAssumption ==
    /\ \A f \in Files : \A t \in DOMAIN f :
          /\ f[t].path \in Seq(STRING) /\ f[t].schematic \in BOOLEAN
          /\ f[t].path # NoPath => ToSet(Tail(f[t].path)) \subseteq ToSet(Alphabet)
    /\ \A f, g \in Files : \A t \in DOMAIN Loaded(f) \cap DOMAIN Loaded(g) : f[t] = g[t]
    /\ \A o \in PlayerOrders : o.tmpl \in Templates /\ o.entry \in Entries

VARIABLES
    catalog,     \* of the running process
    cache,       \* SQLite: an entry for some templates
    categories,  \* Exchange.categories
    market,      \* kinds of live orders: template, entry, whose
    inTick,      \* a list tick has refreshed the cache and not listed yet
    wiped,       \* the bot has listed nothing since the last wipe
    mixed        \* another catalog was deployed without one

vars == <<catalog, cache, categories, market, inTick, wiped, mixed>>

TypeOK ==
    /\ catalog \in Catalogs
    /\ \A f \in {cache, categories} :
          /\ DOMAIN f \subseteq Templates
          /\ \A t \in DOMAIN f : f[t] \in Entries /\ f[t].mask # NoEntry.mask
    /\ market \subseteq [tmpl : Templates, entry : Entries, bot : BOOLEAN]
    /\ inTick \in BOOLEAN /\ wiped \in BOOLEAN /\ mixed \in BOOLEAN

EmptyCache == [t \in {} |-> NoEntry]

Init ==
    /\ catalog \in Catalogs
    /\ cache = EmptyCache /\ categories = EmptyCache
    /\ market = {} /\ inTick = FALSE /\ wiped = TRUE /\ mixed = FALSE

SegIdx(c) == SegmentIndex({c[t].path : t \in DOMAIN c})

(* Schematics go to sections of their own, where there are any.            *)
Routed(item) == item.schematic /\ HasUniqueSchematics(item.path)

(* The place a catalog gives each of its items.                            *)
Places ==
    [c \in Catalogs |-> [t \in DOMAIN c |->
        IF Routed(c[t])
        THEN UniqueSchematicsMask(c[t].path)
        ELSE Mask(c[t].path, SegIdx(c))]]

Cached(t) == IF t \in DOMAIN categories THEN categories[t] ELSE NoEntry

CachedFirst(t) == IF t \in DOMAIN categories THEN categories[t] ELSE Places[catalog][t]

(* The cache is asked for items without a category, and for no other.      *)
CategoryFor(t) == IF catalog[t].path # NoPath THEN Places[catalog][t] ELSE Cached(t)

BotRows == {r \in market : r.bot}

-----------------------------------------------------------------------------
(* refreshCategoryCache: what it reads of the file goes over what the      *)
(* process knows, then the first live mask met of each template still      *)
(* unknown; what it writes of those to the file.                           *)
AllRows == market

LiveRows == {r \in market : r.entry.mask # NoEntry.mask}

Over(f, g) == [t \in DOMAIN f \cup DOMAIN g |-> IF t \in DOMAIN f THEN f[t] ELSE g[t]]

EntriesOf(rows) ==
    [t \in {r.tmpl : r \in rows} |-> (CHOOSE r \in rows : r.tmpl = t).entry]

OnePerTemplate(rows) == \A q, r \in rows : q.tmpl = r.tmpl => q = r

Refresh(known) == \E read \in SUBSET DOMAIN cache :
    \E new \in SUBSET {r \in LiveRows : r.tmpl \notin read \cup DOMAIN known} :
        /\ OnePerTemplate(new)
        /\ categories' = Over([t \in read |-> cache[t]], Over(known, EntriesOf(new)))
        /\ \E written \in SUBSET new : cache' = Over(EntriesOf(written), cache)

(* A list tick refreshes the cache and lists items, as far as its batches  *)
(* get; which are short of their quota is a matter of how many are left.   *)
ListTick ==
    /\ ~inTick /\ inTick' = TRUE
    /\ Refresh(categories)
    /\ UNCHANGED <<catalog, market, wiped, mixed>>

CreateListings == \E new \in SUBSET DOMAIN catalog :
    /\ inTick /\ inTick' = FALSE
    /\ market' = market \cup
          {[tmpl |-> t, entry |-> CategoryFor(t), bot |-> TRUE] : t \in new}
    /\ wiped' = FALSE
    /\ UNCHANGED <<catalog, cache, categories, mixed>>

NewProcess(c) ==
    /\ catalog' = c
    /\ Refresh(EmptyCache)
    /\ inTick' = FALSE
    /\ mixed' = (mixed \/ (c # catalog /\ ~wiped))
    /\ UNCHANGED <<market, wiped>>

(* The end of a process, and of an update that changes only its catalog.   *)
Restart == NewProcess(catalog)

Deploy == \E c \in Catalogs \ {catalog} : NewProcess(c)

(* deploy.sh, some time before the old process ends.                       *)
Wipe ==
    /\ market' = market \ BotRows
    /\ wiped' = TRUE /\ mixed' = FALSE
    /\ UNCHANGED <<catalog, cache, categories, inTick>>

(* The game: an order goes, a player's comes.                              *)
OrderLeaves == \E r \in market :
    /\ market' = market \ {r}
    /\ UNCHANGED <<catalog, cache, categories, inTick, wiped, mixed>>

PlayerLists == \E o \in PlayerOrders :
    /\ market' = market \cup {[tmpl |-> o.tmpl, entry |-> o.entry, bot |-> FALSE]}
    /\ UNCHANGED <<catalog, cache, categories, inTick, wiped, mixed>>

Next == ListTick \/ CreateListings \/ Restart \/ Deploy \/ Wipe \/ OrderLeaves \/ PlayerLists

Spec == Init /\ [][Next]_vars

-----------------------------------------------------------------------------
(* Every listing of the bot is where the running catalog has its item: the *)
(* masks of earlier catalogs and of players' orders, which the cache keeps *)
(* for ever, never get into a listing (line 367), and no listing outlives  *)
(* its catalog if every deployment of another one follows a wipe and the   *)
(* old process has listed nothing in between, as deploy.sh has it.         *)
MasksAreCurrent ==
    ~mixed => \A r \in BotRows :
        r.tmpl \in DOMAIN catalog /\ r.entry = Places[catalog][r.tmpl]

(* A category whose names all have confirmed codes, and a unique schematic *)
(* with a section, is filed in one place whatever else is in the catalog,  *)
(* so such listings need no wipe.                                          *)
Anchored(item) == Routed(item) \/ Confirmed(item.path)

ConfirmedPlacesStay ==
    \A r \in BotRows : \A c \in Catalogs :
        r.tmpl \in DOMAIN c /\ Anchored(c[r.tmpl]) => r.entry = Places[c][r.tmpl]

(* Where all codes are confirmed no two kinds of items share a place: not  *)
(* items of two categories, and not an item and a schematic of its kind.   *)
Kind(item) == <<item.path, Routed(item)>>

PlacesAreDistinct ==
    \A q, r \in {s \in BotRows : s.tmpl \in DOMAIN catalog} :
        /\ Anchored(catalog[q.tmpl]) /\ Anchored(catalog[r.tmpl])
        /\ Kind(catalog[q.tmpl]) # Kind(catalog[r.tmpl])
        => q.entry # r.entry
-----------------------------------------------------------------------------
(* The menu: the row a name of the second and of the third level belongs   *)
(* in, by the name above it, and the row of the schematics of a top level. *)
WeaponRow == <<Gap, Gap>> \o Ranged \o <<"ammunition">>
UtilityRow ==
    <<"buildingtools", Gap, "hydrationtools", "gatheringtools",
      "cartographytools", "utilitytools", "consumables">>
MiscRow == <<"fuel", "refinedresources", "components", "rawresources">>
GatheringRow == <<"cutteray", "compactor">>

TopRow ==
    [garment |-> Garments, weapons |-> WeaponRow, vehicles |-> Vehicles,
     utility |-> UtilityRow, augment |-> Augments, misc |-> MiscRow]

SubRow(name) ==
    IF name \in DOMAIN Depth3Parent THEN Depth3Parent[name]
    ELSE IF name = "gatheringtools" THEN GatheringRow ELSE <<>>

WeaponSection == <<"shortblades", "longblades">> \o Ranged
UtilitySection ==
    <<"deployables", "watertools", "bloodtools", "cutteray", "staticcompactor",
      "cartographytools", "shield", "suspensor", "powerpack">>

Section ==
    [garment |-> Garments, weapons |-> WeaponSection, vehicles |-> Vehicles,
     utility |-> UtilitySection, augment |-> Augments]

(* A path whose names sit under the names they belong to.                  *)
InMenu(path) ==
    /\ Len(path) \in 3 .. 4 /\ path[1] = "items" /\ path[2] \in DOMAIN TopRow
    /\ \/ Remapped(path) /\ Len(path) = 3
       \/ /\ ~Remapped(path)
          /\ Contains(TopRow[path[2]], path[3])
          /\ Len(path) = 4 => Contains(SubRow(path[3]), path[4])

(* What a catalog has to be like for its places to be distinct, as the one *)
(* in src/item-data.json is: confirmed names sit where the menu has them,  *)
(* and the schematics of a section come from one category.                 *)
CatalogsSorted ==
    \A c \in Catalogs :
        /\ \A t \in DOMAIN c :
              /\ Routed(c[t]) => \A name \in SchematicNames(c[t].path) :
                                    Contains(Section[c[t].path[2]], name)
              /\ Confirmed(c[t].path) /\ ~Routed(c[t]) => InMenu(c[t].path)
        /\ \A s, t \in DOMAIN c :
              /\ Routed(c[s]) /\ Routed(c[t]) /\ c[s].path[2] = c[t].path[2]
              /\ SchematicNames(c[s].path) = SchematicNames(c[t].path)
              => c[s].path = c[t].path
=============================================================================
