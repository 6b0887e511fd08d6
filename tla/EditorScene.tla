----------------------------- MODULE EditorScene -----------------------------
(***************************************************************************)
(* The editor's scene: objects with ids, the selected one, what the level  *)
(* says of its terrain, and the level file with the reader that looks for  *)
(* each key by its first quoted occurrence.  A name is a sequence of words *)
(* (<<>> is the empty string), vectors and numbers are values of small     *)
(* sets, and the objects are a set: their order in the file is left out.   *)
(***************************************************************************)
EXTENDS Integers, Sequences, FiniteSets, FiniteSetsExt, TLC

CONSTANTS
    Names,      \* what the editor writes or the user types as a name or asset
    Vectors,    \* positions, rotations and scales
    Radii

DefaultRadius == 100
ASSUME SceneAssumption == <<>> \in Names /\ {"zero", "one"} \subseteq Vectors /\ DefaultRadius \in Radii

ObjectTypes == {"static_mesh_proxy", "speedtree_proxy", "player_spawn", "loot_spawner",
                "safe_zone", "radiation_zone", "anomaly_zone", "light"}

NewObject(type, name, asset, position, radius) ==
    [id |-> 0, type |-> type, name |-> name, asset |-> asset, position |-> position,
     rotation |-> "zero", scale |-> "one", radius |-> radius, visible |-> TRUE]

\* The name of an object that has none: its type and its id.
DefaultName(type, id) == <<type, ToString(id)>>
Named(o) == IF o.name = <<>> THEN [o EXCEPT !.name = DefaultName(o.type, o.id)] ELSE o

NoTerrain == [path |-> "", width |-> 0, height |-> 0, scale |-> 0]
EmptyScene == [objects |-> {}, next |-> 1, selected |-> 0, terrain |-> NoTerrain]

Ids(s) == {o.id : o \in s.objects}

-----------------------------------------------------------------------------
Clear(s) == [objects |-> {}, next |-> 1, selected |-> 0, terrain |-> s.terrain]

\* AllocateObjectId gives the next id; an object that brings an id keeps it.
\* Mutant: the next id is the number of objects plus one.
AddObject_Counts(s, o) ==
    LET id == Cardinality(s.objects) + 1
    IN  [s EXCEPT !.objects = @ \cup {Named([o EXCEPT !.id = id])}, !.selected = id]
AddObject(s, o) ==
    LET id == IF o.id = 0 THEN s.next ELSE o.id
        next == IF id + 1 > s.next THEN id + 1 ELSE s.next
    IN  [objects |-> s.objects \cup {Named([o EXCEPT !.id = id])}, next |-> next, selected |-> id,
         terrain |-> s.terrain]

RemoveObject(s, id) ==
    [s EXCEPT !.objects = {o \in @ : o.id # id}, !.selected = IF @ = id THEN 0 ELSE @]
RemoveSelectedObject(s) == IF s.selected = 0 THEN s ELSE RemoveObject(s, s.selected)

SelectObject(s, id) == [s EXCEPT !.selected = IF id \in Ids(s) THEN id ELSE 0]

\* An edit through the pointer GetSelectedObjectMutable returns.
ChangeSelected(s, field, value) ==
    [s EXCEPT !.objects = {IF o.id = s.selected THEN [o EXCEPT ![field] = value] ELSE o : o \in @}]

SetTerrainInfo(s, path, width, height, scale) ==
    [s EXCEPT !.terrain = [path |-> path, width |-> width, height |-> height, scale |-> scale]]

-----------------------------------------------------------------------------
(***************************************************************************)
(* The level file: the terrain's block and one block for each object.      *)
(* "cut" says where a write ended early: before the first byte, within the *)
(* terrain's block, or within the array of objects.                        *)
(***************************************************************************)
Cuts == {"empty", "in terrain", "in objects"}
LevelFile(s, cut) == [terrain |-> s.terrain, objects |-> s.objects, cut |-> cut]

KeysAfter(key) ==
    CASE key = "name" -> {"asset", "position", "rotation", "scale", "radius", "visible"}
      [] key = "asset" -> {"position", "rotation", "scale", "radius", "visible"}
\* FindKeyColon takes the first place in the block where the quoted key
\* stands: a name or an asset that reads like a later key comes first, and
\* the value found is that of the pair after it.
FoundAt(o, key) ==
    IF key \in KeysAfter("name") /\ o.name = <<key>> THEN "asset"
    ELSE IF key \in KeysAfter("asset") /\ o.asset = <<key>> THEN "position" ELSE key

\* A number or a truth value elsewhere is not read: the default stays.
ReadScalar(o, key, default) == IF FoundAt(o, key) = key THEN o[key] ELSE default
\* A vector is the first one from there on.
ReadVec3Value(o, key) == IF FoundAt(o, key) = key THEN o[key] ELSE o.position

\* Mutant: the visible flag is not read.
ReadObject_Shown(o) ==
    Named([o EXCEPT !.position = ReadVec3Value(o, "position"), !.rotation = ReadVec3Value(o, "rotation"),
                    !.scale = ReadVec3Value(o, "scale"), !.radius = ReadScalar(o, "radius", DefaultRadius),
                    !.visible = TRUE])
ReadObject(o) ==
    Named([o EXCEPT !.position = ReadVec3Value(o, "position"), !.rotation = ReadVec3Value(o, "rotation"),
                    !.scale = ReadVec3Value(o, "scale"), !.radius = ReadScalar(o, "radius", DefaultRadius),
                    !.visible = ReadScalar(o, "visible", TRUE)])

\* A cut array has no end and is not read at all.
ReadObjects(f) == IF f.cut = "no" THEN {ReadObject(o) : o \in f.objects} ELSE {}

\* LoadFromFile: the objects are replaced even when the file has none.
LoadFails(f) == f.cut = "empty"
LoadFromFile(s, f) ==
    [objects |-> ReadObjects(f), next |-> Max({0} \cup {o.id : o \in ReadObjects(f)}) + 1, selected |-> 0,
     terrain |-> IF f.cut \in {"no", "in objects"} THEN f.terrain ELSE s.terrain]
==============================================================================
