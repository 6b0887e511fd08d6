-------------------------- MODULE LevelEditorProofs --------------------------
(***************************************************************************)
(* The level editor for any files, names, sizes and numbers of actions:    *)
(* the ids of its scene and of every level file it has written, what its   *)
(* frames are drawn into, what a level file brings back, what a RAW file   *)
(* keeps of a terrain, what the brush may touch, what a clean editor has   *)
(* stored, and that every vertex of a frame is uploaded once.              *)
(***************************************************************************)
EXTENDS LevelEditor, FiniteSetTheorems, SequenceTheorems, TLAPS, WellFoundedInduction

LEMMA MaxOfBounded ==
  ASSUME NEW n \in Nat, NEW S \in SUBSET (0 .. n), S # {}
  PROVE  Max(S) \in S /\ \A x \in S : x <= Max(S)
<1>. DEFINE R == OpToRel(<, Nat)
            T == {n - x : x \in S}
<1>1. IsWellFoundedOn(R, Nat)
  BY NatLessThanWellFounded
<1>2. ASSUME NEW x \in Nat, NEW y \in Nat, y < x PROVE <<y, x>> \in R
  BY <1>2 DEF OpToRel
<1>. HIDE DEF R
<1>3. T \in SUBSET Nat /\ T # {}
  <2>1. ASSUME NEW x \in S PROVE n - x \in Nat
    <3>1. x \in 0 .. n
      OBVIOUS
    <3>. QED BY <3>1
  <2>2. \A y \in T : \E x \in S : y = n - x
    OBVIOUS
  <2>3. PICK x \in S : TRUE
    OBVIOUS
  <2>4. n - x \in T
    OBVIOUS
  <2>. QED BY <2>1, <2>2, <2>4
<1>4. PICK m \in T : \A y \in T : <<y, m>> \notin R
  BY <1>1, <1>3, WFMin
<1>5. PICK top \in S : m = n - top
  OBVIOUS
<1>6. ASSUME NEW y \in S PROVE y <= top
  <2>1. n - y \in T /\ n - y \in Nat /\ m \in Nat
    BY <1>3
  <2>2. ~(n - y < m)
    BY <1>2, <1>4, <2>1
  <2>. QED BY <1>5, <2>1, <2>2
<1>. QED BY <1>6 DEF Max

LEMMA MinOfNaturals ==
  ASSUME NEW S \in SUBSET Nat, S # {}
  PROVE  Min(S) \in S /\ \A x \in S : Min(S) <= x
<1>. DEFINE R == OpToRel(<, Nat)
<1>1. IsWellFoundedOn(R, Nat)
  BY NatLessThanWellFounded
<1>2. ASSUME NEW x \in Nat, NEW y \in Nat, y < x PROVE <<y, x>> \in R
  BY <1>2 DEF OpToRel
<1>. HIDE DEF R
<1>3. PICK m \in S : \A y \in S : <<y, m>> \notin R
  BY <1>1, WFMin
<1>4. ASSUME NEW y \in S PROVE m <= y
  <2>1. y \in Nat /\ m \in Nat
    OBVIOUS
  <2>2. ~(y < m)
    BY <1>2, <1>3, <2>1
  <2>. QED BY <2>1, <2>2
<1>. QED BY <1>4 DEF Min

-----------------------------------------------------------------------------
(***************************************************************************)
(* Scenes and level files: their objects have ids, and those are unique.   *)
(***************************************************************************)
HaveIds(objects) == \A o \in objects : "id" \in DOMAIN o
GoodScene(s) ==
    /\ s = [objects |-> s.objects, next |-> s.next, selected |-> s.selected, terrain |-> s.terrain]
    /\ s.next \in Nat \ {0} /\ HaveIds(s.objects) /\ WellFormed(s)
GoodFile(f) ==
    /\ f = [terrain |-> f.terrain, objects |-> f.objects, cut |-> f.cut]
    /\ HaveIds(f.objects)
    /\ \A o, p \in f.objects : o.id = p.id => o = p
    /\ \E last \in Nat : \A o \in f.objects : o.id \in 1 .. last

LEMMA NamedKeepsId ==
  ASSUME NEW o, "id" \in DOMAIN o
  PROVE  "id" \in DOMAIN Named(o) /\ Named(o).id = o.id
  BY DEF Named

LEMMA AddKeeps ==
  ASSUME NEW s, GoodScene(s), NEW o, "id" \in DOMAIN o, o.id = 0
  PROVE  GoodScene(AddObject(s, o))
<1>. DEFINE id == s.next
            new == Named([o EXCEPT !.id = id])
<1>1. "id" \in DOMAIN new /\ new.id = id
  BY NamedKeepsId
<1>. HIDE DEF new
<1>2. s.next \in Nat \ {0} /\ s.next + 1 > s.next
  BY DEF GoodScene
<1>3. AddObject(s, o) = [objects |-> s.objects \cup {new}, next |-> id + 1, selected |-> id, terrain |-> s.terrain]
  BY <1>2 DEF AddObject, GoodScene, new
<1>4. \A p \in s.objects : p.id \in 1 .. id - 1 /\ "id" \in DOMAIN p
  BY DEF GoodScene, WellFormed, HaveIds
<1>5. \A p, q \in s.objects : p.id = q.id => p = q
  BY DEF GoodScene, WellFormed
<1>. DEFINE t == [objects |-> s.objects \cup {new}, next |-> id + 1, selected |-> id, terrain |-> s.terrain]
<1>6. HaveIds(t.objects) /\ t.next \in Nat \ {0}
  BY <1>1, <1>2, <1>4 DEF HaveIds
<1>7. \A p \in t.objects : p.id \in 1 .. t.next - 1
  BY <1>1, <1>2, <1>4
<1>8. \A p, q \in t.objects : p.id = q.id => p = q
  BY <1>1, <1>2, <1>4, <1>5
<1>9. t.selected \in Ids(t)
  BY <1>1 DEF Ids
<1>. QED BY <1>3, <1>6, <1>7, <1>8, <1>9 DEF GoodScene, WellFormed

LEMMA EmptyIsGood ==
  ASSUME NEW s, s = [objects |-> s.objects, next |-> s.next, selected |-> s.selected, terrain |-> s.terrain]
  PROVE  GoodScene(Clear(s))
<1>. DEFINE u == [objects |-> {}, next |-> 1, selected |-> 0, terrain |-> s.terrain]
<1>1. Clear(s) = u
  BY DEF Clear
<1>2. u.objects = {} /\ u.next = 1 /\ u.selected = 0
     /\ u = [objects |-> u.objects, next |-> u.next, selected |-> u.selected, terrain |-> u.terrain]
  OBVIOUS
<1>. HIDE DEF u
<1>3. HaveIds(u.objects) /\ WellFormed(u)
  BY <1>2 DEF HaveIds, WellFormed
<1>. QED BY <1>1, <1>2, <1>3 DEF GoodScene

LEMMA SyncKeeps ==
  ASSUME NEW s, GoodScene(s), NEW path, NEW t, NEW size
  PROVE  GoodScene(Synced(s, path, t, size)) /\ Synced(s, path, t, size).objects = s.objects
<1>. DEFINE u == [objects |-> s.objects, next |-> s.next, selected |-> s.selected,
                  terrain |-> [path |-> path, width |-> t.width, height |-> t.height, scale |-> size]]
<1>1. Synced(s, path, t, size) = u
  <2>1. s = [objects |-> s.objects, next |-> s.next, selected |-> s.selected, terrain |-> s.terrain]
    BY DEF GoodScene
  <2>. QED BY <2>1 DEF Synced, SetTerrainInfo
<1>2. GoodScene(u)
  <2>1. u.objects = s.objects /\ u.next = s.next /\ u.selected = s.selected
       /\ u = [objects |-> u.objects, next |-> u.next, selected |-> u.selected, terrain |-> u.terrain]
    OBVIOUS
  <2>. HIDE DEF u
  <2>2. s.next \in Nat \ {0} /\ HaveIds(s.objects) /\ WellFormed(s)
    BY DEF GoodScene
  <2>3. HaveIds(u.objects) /\ WellFormed(u)
    BY <2>1, <2>2 DEF WellFormed, Ids
  <2>. QED BY <2>1, <2>2, <2>3 DEF GoodScene
<1>. QED BY <1>1, <1>2

LEMMA SelectKeeps ==
  ASSUME NEW s, GoodScene(s), NEW id
  PROVE  GoodScene(SelectObject(s, id))
<1>. DEFINE u == [objects |-> s.objects, next |-> s.next,
                  selected |-> IF id \in Ids(s) THEN id ELSE 0, terrain |-> s.terrain]
<1>1. SelectObject(s, id) = u
  BY DEF SelectObject, GoodScene
<1>2. GoodScene(u)
  BY DEF GoodScene, HaveIds, WellFormed, Ids
<1>. QED BY <1>1, <1>2

LEMMA RemoveKeeps ==
  ASSUME NEW s, GoodScene(s)
  PROVE  GoodScene(RemoveSelectedObject(s))
<1>. DEFINE left == {o \in s.objects : o.id # s.selected}
            u == [objects |-> left, next |-> s.next, selected |-> 0, terrain |-> s.terrain]
<1>1. CASE s.selected = 0
  BY <1>1 DEF RemoveSelectedObject
<1>2. CASE s.selected # 0
  <2>1. RemoveSelectedObject(s) = u
    BY <1>2 DEF RemoveSelectedObject, RemoveObject, GoodScene
  <2>2. GoodScene(u)
    BY DEF GoodScene, HaveIds, WellFormed, Ids
  <2>. QED BY <2>1, <2>2
<1>. QED BY <1>1, <1>2

LEMMA ChangeKeeps ==
  ASSUME NEW s, GoodScene(s), NEW field, field # "id", NEW value
  PROVE  GoodScene(ChangeSelected(s, field, value))
<1>. DEFINE after(o) == IF o.id = s.selected THEN [o EXCEPT ![field] = value] ELSE o
            u == [objects |-> {after(o) : o \in s.objects}, next |-> s.next, selected |-> s.selected, terrain |-> s.terrain]
<1>1. ChangeSelected(s, field, value) = u
  BY DEF ChangeSelected, GoodScene
<1>2. \A o \in s.objects : "id" \in DOMAIN after(o) /\ after(o).id = o.id
  BY DEF GoodScene, HaveIds
<1>. HIDE DEF after
<1>3. HaveIds(u.objects) /\ \A p \in u.objects : p.id \in 1 .. u.next - 1
  BY <1>2 DEF HaveIds, GoodScene, WellFormed
<1>4. \A p, q \in u.objects : p.id = q.id => p = q
  BY <1>2 DEF GoodScene, WellFormed
<1>5. u.selected \in {0} \cup Ids(u)
  BY <1>2 DEF GoodScene, WellFormed, Ids
<1>. QED BY <1>1, <1>3, <1>4, <1>5 DEF GoodScene, WellFormed

LEMMA FileOfScene ==
  ASSUME NEW s, GoodScene(s), NEW cut
  PROVE  GoodFile(LevelFile(s, cut))
<1>1. s.next - 1 \in Nat
  BY DEF GoodScene
<1>. QED BY <1>1 DEF GoodScene, WellFormed, GoodFile, LevelFile

\* Whatever a file holds, its objects come back with their ids, and the next
\* id is above all of them.
LEMMA LoadedIsGood ==
  ASSUME NEW f, GoodFile(f)
  PROVE  WellFormed(LoadFromFile(EmptyScene, f))
<1>. DEFINE read == ReadObjects(f)
            ids == {0} \cup {o.id : o \in read}
            loaded == LoadFromFile(EmptyScene, f)
<1>1. \A o \in f.objects : ReadObject(o).id = o.id
  <2>1. ASSUME NEW o \in f.objects PROVE ReadObject(o).id = o.id
    <3>. DEFINE r == [o EXCEPT !.position = ReadVec3Value(o, "position"), !.rotation = ReadVec3Value(o, "rotation"),
                       !.scale = ReadVec3Value(o, "scale"), !.radius = ReadScalar(o, "radius", DefaultRadius),
                       !.visible = ReadScalar(o, "visible", TRUE)]
    <3>1. "id" \in DOMAIN r /\ r.id = o.id
      BY DEF GoodFile, HaveIds
    <3>2. ReadObject(o) = Named(r)
      BY DEF ReadObject
    <3>. HIDE DEF r
    <3>. QED BY <3>1, <3>2, NamedKeepsId
  <2>. QED BY <2>1
<1>2. PICK last \in Nat : \A o \in f.objects : o.id \in 1 .. last
  BY DEF GoodFile
<1>3. \A r \in read : \E o \in f.objects : r = ReadObject(o) /\ r.id = o.id
  BY <1>1 DEF ReadObjects
<1>. HIDE DEF read
<1>4. \A r \in read : r.id \in 1 .. last
  BY <1>2, <1>3
<1>5. ids \in SUBSET (0 .. last) /\ ids # {}
  BY <1>4
<1>6. Max(ids) \in ids /\ \A x \in ids : x <= Max(ids)
  <2>. HIDE DEF ids
  <2>. QED BY <1>5, MaxOfBounded
<1>7. \A r \in read : r.id \in ids
  OBVIOUS
<1>8. loaded.objects = read /\ loaded.next = Max(ids) + 1 /\ loaded.selected = 0
  BY DEF LoadFromFile, read
<1>. HIDE DEF loaded
<1>9. \A r \in read : r.id \in 1 .. (Max(ids) + 1) - 1
  <2>. HIDE DEF ids
  <2>1. Max(ids) \in 0 .. last
    BY <1>5, <1>6
  <2>2. ASSUME NEW r \in read PROVE r.id <= Max(ids) /\ r.id \in 1 .. last
    BY <1>4, <1>6, <1>7
  <2>. QED BY <2>1, <2>2
<1>10. \A p, q \in read : p.id = q.id => p = q
  BY <1>3 DEF GoodFile
<1>. QED BY <1>8, <1>9, <1>10 DEF WellFormed, loaded

-----------------------------------------------------------------------------
(***************************************************************************)
(* The inductive invariant: the scene and every level file are good.  That *)
(* no level file has two objects with one id, or an object without, is     *)
(* what makes the scene read from it consistent.                           *)
(***************************************************************************)
GoodDisk(d) ==
    /\ d = [raw |-> d.raw, level |-> d.level]
    /\ \A path \in DOMAIN d.level : GoodFile(d.level[path])
IdsInv == GoodScene(scene) /\ GoodDisk(disk)

LEMMA WritingKeeps ==
  ASSUME GoodDisk(disk), NEW kind \in {"raw", "level"}, NEW path, NEW w, WriteOf(kind, path, w),
         kind = "level" => GoodFile(w.content)
  PROVE  GoodDisk(disk')
<1>1. CASE ~w.opened
  BY <1>1 DEF WriteOf
<1>2. CASE w.opened /\ kind = "raw"
  <2>1. disk' = [raw |-> Written(disk.raw, path, w.content), level |-> disk.level]
    BY <1>2 DEF WriteOf, GoodDisk
  <2>. QED BY <2>1 DEF GoodDisk
<1>3. CASE w.opened /\ kind = "level"
  <2>. DEFINE files == Written(disk.level, path, w.content)
  <2>1. disk' = [raw |-> disk.raw, level |-> files]
    BY <1>3 DEF WriteOf, GoodDisk
  <2>2. \A p \in DOMAIN files : GoodFile(files[p])
    BY <1>3 DEF GoodDisk, Written
  <2>. QED BY <2>1, <2>2 DEF GoodDisk
<1>. QED BY <1>1, <1>2, <1>3

LEMMA IslandKeeps ==
  ASSUME GoodScene(scene), CreatePreviewIslandLevel
  PROVE  GoodScene(scene')
<1>. DEFINE tree == NewObject("speedtree_proxy", <<"Tree Proxy">>, <<>>, "zero", 90)
            spawn == NewObject("player_spawn", <<"Player Spawn">>, <<>>, "one", DefaultRadius)
            empty == Clear(scene)
            planted == AddObject(empty, tree)
<1>1. "id" \in DOMAIN tree /\ tree.id = 0 /\ "id" \in DOMAIN spawn /\ spawn.id = 0
  BY DEF NewObject
<1>2. GoodScene(empty)
  BY EmptyIsGood DEF GoodScene
<1>3. IslandScene = AddObject(planted, spawn)
  BY DEF IslandScene
<1>. HIDE DEF tree, spawn, empty
<1>4. GoodScene(planted)
  BY <1>1, <1>2, AddKeeps
<1>. HIDE DEF planted
<1>5. GoodScene(IslandScene)
  BY <1>1, <1>3, <1>4, AddKeeps
<1>. QED BY <1>5, SyncKeeps DEF CreatePreviewIslandLevel

LEMMA TerrainStepKeeps ==
  ASSUME IdsInv, TerrainEdit
  PROVE  IdsInv'
<1>1. CASE NewIsland
  BY <1>1, IslandKeeps DEF NewIsland, IdsInv, stored
<1>2. CASE CreateFlatLevel
  <2>1. PICK h \in FlatHeights :
            scene' = Synced(Clear(scene), paths.raw, Flat(options.width, options.height, h), scale)
    BY <1>2 DEF CreateFlatLevel
  <2>2. GoodScene(Clear(scene))
    BY EmptyIsGood DEF IdsInv, GoodScene
  <2>. QED BY <1>2, <2>1, <2>2, SyncKeeps DEF CreateFlatLevel, IdsInv, stored
<1>3. ASSUME NEW b \in Brushes, Sculpt(b) PROVE IdsInv'
  BY <1>3 DEF Sculpt, IdsInv, stored
<1>4. ASSUME NEW s \in Scales, TypeScale(s) PROVE IdsInv'
  BY <1>4 DEF TypeScale, IdsInv, stored
<1>5. ASSUME NEW s \in Scales, SetTerrainImportScale(s) PROVE IdsInv'
  BY <1>5, SyncKeeps DEF SetTerrainImportScale, IdsInv, stored
<1>. QED BY <1>1, <1>2, <1>3, <1>4, <1>5 DEF TerrainEdit

LEMMA SceneStepKeeps ==
  ASSUME IdsInv, SceneEdit
  PROVE  IdsInv'
<1>1. ASSUME NEW button \in Buttons, NEW asset, NEW position, AddEditorObjectAtBrush(button, asset, position)
      PROVE  IdsInv'
  <2>. DEFINE o == NewObject(button[1], button[2], asset, position, button[3])
  <2>1. "id" \in DOMAIN o /\ o.id = 0
    BY DEF NewObject
  <2>2. scene' = SelectObject(AddObject(scene, o), AddObject(scene, o).selected)
    BY <1>1 DEF AddEditorObjectAtBrush
  <2>. HIDE DEF o
  <2>3. GoodScene(AddObject(scene, o))
    BY <2>1, AddKeeps DEF IdsInv
  <2>4. GoodScene(scene')
    BY <2>2, <2>3, SelectKeeps
  <2>. QED BY <1>1, <2>4 DEF AddEditorObjectAtBrush, IdsInv, stored
<1>2. ASSUME NEW field \in DOMAIN Typed, NEW value \in Typed[field], ChangeObject(field, value)
      PROVE  IdsInv'
  <2>1. field # "id"
    BY EditorAssumption DEF DetailsFields
  <2>. QED BY <1>2, <2>1, ChangeKeeps DEF ChangeObject, IdsInv, stored
<1>3. CASE DeleteSelected
  BY <1>3, RemoveKeeps DEF DeleteSelected, IdsInv, stored
<1>4. ASSUME NEW o \in scene.objects, Select(o.id) PROVE IdsInv'
  BY <1>4, SelectKeeps DEF Select, IdsInv, stored
<1>. QED BY <1>1, <1>2, <1>3, <1>4 DEF SceneEdit

LEMMA LoadRawKeeps ==
  ASSUME IdsInv, NEW path, NEW opts, LoadRawHeightmap(path, opts)
  PROVE  IdsInv'
<1>. DEFINE read == ImportOptions(path, opts)
            t == LoadedRaw(disk.raw[path], read.width, read.height, read.format)
            size == IF read.autoText /\ ScaleText[path] # 0 THEN ScaleText[path] ELSE scale
<1>1. disk' = disk /\ (scene' = Synced(scene, path, t, size) \/ scene' = scene)
  BY DEF LoadRawHeightmap, work
<1>. HIDE DEF read, t, size
<1>. QED BY <1>1, SyncKeeps DEF IdsInv

LEMMA FileStepKeeps ==
  ASSUME IdsInv, FileStep
  PROVE  IdsInv'
<1>1. ASSUME NEW path \in RawFiles, OpenRaw(path) PROVE IdsInv'
  BY <1>1, LoadRawKeeps DEF OpenRaw
<1>2. ASSUME NEW path \in RawFiles, SaveRawMap(path) PROVE IdsInv'
  <2>1. SaveRawHeightmap(path)
    BY <1>2 DEF SaveRawMap
  <2>2. scene' = Synced(scene, path, terrain, scale) \/ scene' = scene
    BY <2>1 DEF SaveRawHeightmap
  <2>3. PICK w : WriteOf("raw", path, w)
    BY <2>1 DEF SaveRawHeightmap
  <2>4. GoodDisk(disk')
    BY <2>3, WritingKeeps DEF IdsInv
  <2>. QED BY <2>2, <2>4, SyncKeeps DEF IdsInv
<1>3. CASE ReloadRawWithManualSize
  BY <1>3, LoadRawKeeps DEF ReloadRawWithManualSize
<1>4. CASE SaveMap
  <2>. DEFINE told == Synced(scene, paths.raw, terrain, scale)
  <2>1. GoodScene(told)
    BY SyncKeeps DEF IdsInv
  <2>2. PICK path : SaveLevelFile(path)
    BY <1>4 DEF SaveMap
  <2>3. PICK w \in Writes(LevelFile(told, "no"), {LevelFile(told, cut) : cut \in Cuts}) :
            scene' = told /\ WriteOf("level", path, w)
    BY <2>2 DEF SaveLevelFile
  <2>. HIDE DEF told
  <2>4. GoodFile(w.content)
    <3>1. \E cut : w.content = LevelFile(told, cut)
      BY DEF Writes
    <3>. QED BY <2>1, <3>1, FileOfScene
  <2>. QED BY <2>1, <2>3, <2>4, WritingKeeps DEF IdsInv
<1>. QED BY <1>1, <1>2, <1>3, <1>4 DEF FileStep

LEMMA WindowStepKeeps ==
  ASSUME IdsInv, WindowStep \/ OptionEdit \/ UNCHANGED vars
  PROVE  IdsInv'
<1>1. ASSUME NEW size \in WindowSizes, ResizeWindow(size) PROVE IdsInv'
  BY <1>1 DEF ResizeWindow, IdsInv, work, stored
<1>2. CASE StartRenderer
  BY <1>2 DEF StartRenderer, IdsInv, work, stored
<1>3. CASE StartLevel
  <2>1. disk' = disk /\ (CreatePreviewIslandLevel \/ scene' = scene)
    BY <1>3 DEF StartLevel, work, stored
  <2>. QED BY <2>1, IslandKeeps DEF IdsInv
<1>4. CASE Look
  BY <1>4 DEF Look, IdsInv, work, stored
<1>5. CASE CloseWindow
  BY <1>5 DEF CloseWindow, IdsInv, work, stored
<1>6. CASE EndProgram
  BY <1>6 DEF EndProgram, IdsInv, work, stored
<1>7. ASSUME NEW field, NEW value, TypeOption(field, value) PROVE IdsInv'
  BY <1>7 DEF TypeOption, IdsInv, work, stored
<1>8. ASSUME NEW path, DetectSize \/ TypeRawPath(path) PROVE IdsInv'
  BY <1>8 DEF DetectSize, TypeRawPath, IdsInv, work, stored
<1>9. CASE UNCHANGED vars
  BY <1>9 DEF vars, IdsInv, work, stored
<1>. QED BY <1>1, <1>2, <1>3, <1>4, <1>5, <1>6, <1>7, <1>8, <1>9 DEF WindowStep, OptionEdit

LEMMA IdsAtFirst == Init => IdsInv
<1>1. Init => scene = EmptyScene /\ disk = [raw |-> StoredRaw, level |-> <<>>]
  BY DEF Init
<1>2. GoodScene(EmptyScene)
  <2>1. EmptyScene = Clear(EmptyScene)
    BY DEF EmptyScene, Clear
  <2>2. EmptyScene = [objects |-> EmptyScene.objects, next |-> EmptyScene.next,
                      selected |-> EmptyScene.selected, terrain |-> EmptyScene.terrain]
    BY DEF EmptyScene
  <2>. QED BY <2>1, <2>2, EmptyIsGood
<1>3. DOMAIN <<>> = {}
  OBVIOUS
<1>. QED BY <1>1, <1>2, <1>3 DEF IdsInv, GoodDisk

\* Whatever is added, changed, deleted, loaded or saved, and however a write
\* ends: no two objects of the scene share an id, the next id is new, and
\* the same holds of the scene LoadFromFile makes of any level file written.
THEOREM SceneStaysConsistent == Spec => []SceneIsConsistent
<1>1. Init => IdsInv
  BY IdsAtFirst
<1>2. IdsInv /\ [Next]_vars => IdsInv'
  BY TerrainStepKeeps, SceneStepKeeps, FileStepKeeps, WindowStepKeeps DEF Next
<1>3. IdsInv => SceneIsConsistent
  BY LoadedIsGood DEF IdsInv, GoodScene, GoodDisk, SceneIsConsistent
<1>. QED BY <1>1, <1>2, <1>3, PTL DEF Spec

-----------------------------------------------------------------------------
(***************************************************************************)
(* What a frame binds: a view that exists has the size the renderer draws  *)
(* at, and each phase says which of the device and the level's renderer    *)
(* there are.                                                              *)
(***************************************************************************)
GoodGpu(g) ==
    /\ g = [device |-> g.device, initialized |-> g.initialized, size |-> g.size, buffers |-> g.buffers,
            target |-> g.target, depth |-> g.depth]
    /\ g.device \in BOOLEAN /\ g.initialized \in BOOLEAN
    /\ g.target \in {0, g.size} /\ g.depth \in {0, g.size}
    /\ g.initialized = TRUE => g.device = TRUE
    /\ g.device = FALSE => g.target = 0 /\ g.depth = 0

FrameInv ==
    /\ GoodGpu(gpu)
    /\ phase \in {"start", "device", "running", "closing", "ended"}
    /\ phase \in {"device", "running", "closing"} <=> gpu.device = TRUE
    /\ phase \in {"start", "device", "ended"} => drawer = NoScene
    /\ phase = "start" => gpu.initialized = FALSE
    /\ phase = "running" => drawer.initialized

LEMMA InitializeOutcomes ==
  ASSUME NEW g, GoodGpu(g), g.device = FALSE, g.initialized = FALSE, NEW asked, NEW default,
         NEW h \in Initialize(g, asked, default)
  PROVE  GoodGpu(h) /\ h.device = h.initialized
<1>. DEFINE size == IF asked = 0 THEN default ELSE asked
            created == [device |-> TRUE, initialized |-> FALSE, size |-> size, buffers |-> size,
                        target |-> g.target, depth |-> g.depth]
            ready(t, d) == [device |-> TRUE, initialized |-> TRUE, size |-> size, buffers |-> size,
                            target |-> t, depth |-> d]
<1>2. ASSUME NEW t \in CreateRenderTarget(created), NEW d \in CreateDepthStencil(t), h.target # 0, h.depth # 0,
             h = [d EXCEPT !.initialized = TRUE]
      PROVE  GoodGpu(h) /\ h.device = h.initialized
  <2>1. PICK x \in {g.target, size} :
          t = [device |-> TRUE, initialized |-> FALSE, size |-> size, buffers |-> size, target |-> x, depth |-> g.depth]
    BY DEF CreateRenderTarget
  <2>2. PICK y \in {g.depth, size} :
          d = [device |-> TRUE, initialized |-> FALSE, size |-> size, buffers |-> size, target |-> x, depth |-> y]
    BY <1>2, <2>1 DEF CreateDepthStencil
  <2>3. h = ready(x, y)
    BY <1>2, <2>2
  <2>. QED BY <2>3 DEF GoodGpu
<1>3. ASSUME h = [g EXCEPT !.size = size]
      PROVE  GoodGpu(h) /\ h.device = h.initialized
  <2>1. h = [device |-> g.device, initialized |-> g.initialized, size |-> size, buffers |-> g.buffers,
             target |-> g.target, depth |-> g.depth]
    BY <1>3 DEF GoodGpu
  <2>. QED BY <2>1 DEF GoodGpu
<1>4. ASSUME h = Shutdown(created)
      PROVE  GoodGpu(h) /\ h.device = h.initialized
  <2>1. h = [device |-> FALSE, initialized |-> FALSE, size |-> size, buffers |-> 0, target |-> 0, depth |-> 0]
    BY <1>4 DEF Shutdown
  <2>. QED BY <2>1 DEF GoodGpu
<1>. DEFINE complete == {[d EXCEPT !.initialized = TRUE] :
                            d \in UNION {CreateDepthStencil(t) : t \in CreateRenderTarget(created)}}
<1>5. \/ h \in complete /\ h.target # 0 /\ h.depth # 0
     \/ h = [g EXCEPT !.size = size]
     \/ h = Shutdown(created)
  BY DEF Initialize
<1>6. ASSUME h \in complete PROVE \E t \in CreateRenderTarget(created) : \E d \in CreateDepthStencil(t) :
                                    h = [d EXCEPT !.initialized = TRUE]
  <2>. DEFINE views == UNION {CreateDepthStencil(t) : t \in CreateRenderTarget(created)}
  <2>1. PICK d \in views : h = [d EXCEPT !.initialized = TRUE]
    <3>. HIDE DEF views
    <3>1. h \in {[d EXCEPT !.initialized = TRUE] : d \in views}
      BY <1>6 DEF views
    <3>. QED BY <3>1
  <2>2. PICK t \in CreateRenderTarget(created) : d \in CreateDepthStencil(t)
    OBVIOUS
  <2>. QED BY <2>1, <2>2
<1>. HIDE DEF complete
<1>. QED BY <1>2, <1>3, <1>4, <1>5, <1>6

LEMMA ResizeOutcomes ==
  ASSUME NEW g, GoodGpu(g), NEW size, NEW h \in Resize(g, size)
  PROVE  GoodGpu(h) /\ h.device = g.device /\ h.initialized = g.initialized
<1>1. CASE h = g
  BY <1>1
<1>2. CASE h # g
  <2>. DEFINE told == [device |-> g.device, initialized |-> g.initialized, size |-> size, buffers |-> g.buffers,
                       target |-> 0, depth |-> 0]
              resized == [told EXCEPT !.buffers = size]
              views == UNION {CreateDepthStencil(t) : t \in CreateRenderTarget(resized)}
  <2>1. g.initialized = TRUE /\ g.device = TRUE
    BY <1>2 DEF Resize, GoodGpu
  <2>2. told = CleanupRenderTarget([g EXCEPT !.size = size])
    BY DEF CleanupRenderTarget, GoodGpu
  <2>3. h = told \/ h \in views
    <3>. DEFINE cleaned == CleanupRenderTarget([g EXCEPT !.size = size])
                seen == UNION {CreateDepthStencil(t) : t \in CreateRenderTarget([cleaned EXCEPT !.buffers = size])}
    <3>1. h \in {cleaned} \cup seen
      BY <1>2 DEF Resize
    <3>2. cleaned = told /\ seen = views
      BY <2>2
    <3>. QED BY <3>1, <3>2
  <2>4. CASE h = told
    BY <2>1, <2>4 DEF GoodGpu
  <2>5. CASE h \in views
    <3>1. PICK t \in CreateRenderTarget(resized) : h \in CreateDepthStencil(t)
      BY <2>5
    <3>2. PICK x \in {0, size} : t = [device |-> g.device, initialized |-> g.initialized, size |-> size,
                                     buffers |-> size, target |-> x, depth |-> 0]
      BY DEF CreateRenderTarget
    <3>3. PICK y \in {0, size} : h = [device |-> g.device, initialized |-> g.initialized, size |-> size,
                                     buffers |-> size, target |-> x, depth |-> y]
      BY <3>1, <3>2 DEF CreateDepthStencil
    <3>. QED BY <2>1, <3>3 DEF GoodGpu
  <2>. QED BY <2>3, <2>4, <2>5
<1>. QED BY <1>1, <1>2

LEMMA FrameStep ==
  ASSUME FrameInv, [Next]_vars
  PROVE  FrameInv'
<1>1. CASE StartRenderer
  <2>1. phase = "start" /\ gpu' \in Initialize(gpu, StartSize, 1) /\ drawer' = drawer
        /\ phase' = IF gpu'.initialized THEN "device" ELSE "ended"
    BY <1>1 DEF StartRenderer
  <2>2. GoodGpu(gpu) /\ gpu.device = FALSE /\ gpu.initialized = FALSE
    BY <2>1 DEF FrameInv, GoodGpu
  <2>3. GoodGpu(gpu') /\ gpu'.device = gpu'.initialized
    BY <2>1, <2>2, InitializeOutcomes
  <2>. QED BY <2>1, <2>3 DEF FrameInv, GoodGpu
<1>2. CASE StartLevel
  <2>1. phase = "device" /\ GoodGpu(gpu) /\ gpu.device = TRUE
    BY <1>2 DEF StartLevel, FrameInv
  <2>2. CASE phase' = "running" /\ gpu' = gpu /\ drawer'.initialized
    BY <2>1, <2>2 DEF FrameInv
  <2>3. CASE phase' = "ended" /\ drawer' = NoScene /\ gpu' = Shutdown(gpu)
    <3>1. Shutdown(gpu) = [device |-> FALSE, initialized |-> FALSE, size |-> gpu.size, buffers |-> 0,
                           target |-> 0, depth |-> 0]
      BY <2>1 DEF Shutdown
    <3>. QED BY <2>3, <3>1 DEF FrameInv, GoodGpu
  <2>. QED BY <1>2, <2>2, <2>3, Zenon DEF StartLevel
<1>3. ASSUME NEW size \in WindowSizes, ResizeWindow(size) PROVE FrameInv'
  <2>1. gpu' \in Resize(gpu, size) /\ phase' = phase /\ drawer' = drawer /\ phase # "start"
    BY <1>3 DEF ResizeWindow
  <2>2. GoodGpu(gpu') /\ gpu'.device = gpu.device
    BY <2>1, ResizeOutcomes DEF FrameInv
  <2>. QED BY <2>1, <2>2 DEF FrameInv
<1>4. CASE CloseWindow
  BY <1>4 DEF CloseWindow, Edit, Uses, Running, FrameInv
<1>5. CASE EndProgram
  <2>1. Shutdown(gpu) = [device |-> FALSE, initialized |-> FALSE, size |-> gpu.size, buffers |-> 0,
                         target |-> 0, depth |-> 0]
    BY DEF Shutdown
  <2>. QED BY <1>5, <2>1 DEF EndProgram, ShutdownScene, FrameInv, GoodGpu
<1>6. CASE UNCHANGED <<phase, gpu, drawer>>
  BY <1>6 DEF FrameInv
<1>7. TerrainEdit \/ SceneEdit \/ OptionEdit \/ FileStep \/ Look \/ UNCHANGED vars
      => UNCHANGED <<phase, gpu, drawer>>
  BY DEF TerrainEdit, SceneEdit, OptionEdit, FileStep, Look, vars, window, NewIsland, CreateFlatLevel, Sculpt,
         TypeScale, SetTerrainImportScale, AddEditorObjectAtBrush, ChangeObject, DeleteSelected, Select,
         TypeOption, TypeRawPath, DetectSize, OpenRaw, SaveRawMap, ReloadRawWithManualSize, SaveMap, LoadRawHeightmap
<1>. QED BY <1>1, <1>2, <1>3, <1>4, <1>5, <1>6, <1>7 DEF Next, WindowStep

\* Whatever resizing did and whichever call of Direct3D failed: what a frame
\* binds has the size it is drawn at, the level's renderer never outlives
\* the device, and the ended program holds neither.
THEOREM FramesAlwaysFit == Spec => []FramesFit
<1>1. Init => FrameInv
  BY DEF Init, FrameInv, GoodGpu, NoGpu
<1>2. FrameInv /\ [Next]_vars => FrameInv'
  BY FrameStep
<1>3. FrameInv => FramesFit
  <2>1. FrameInv => FitsTarget(gpu)
    BY DEF FrameInv, GoodGpu, FitsTarget, Binds
  <2>2. FrameInv => (drawer.parts # <<>> => gpu.device)
    BY DEF FrameInv, NoScene
  <2>3. FrameInv => (Running => gpu.device /\ drawer.initialized)
    BY DEF FrameInv, Running
  <2>4. FrameInv => (phase = "ended" => ~gpu.device /\ drawer = NoScene)
    BY DEF FrameInv, GoodGpu
  <2>. QED BY <2>1, <2>2, <2>3, <2>4 DEF FramesFit
<1>. QED BY <1>1, <1>2, <1>3, PTL DEF Spec

-----------------------------------------------------------------------------
(***************************************************************************)
(* What a level file brings back.  Objects are whole records in finite     *)
(* sets, and every terrain the scene was told of, and so the one that each *)
(* file names, has a size that the editor can make.                        *)
(***************************************************************************)
WholeObject(o) ==
    o = [id |-> o.id, type |-> o.type, name |-> o.name, asset |-> o.asset, position |-> o.position,
         rotation |-> o.rotation, scale |-> o.scale, radius |-> o.radius, visible |-> o.visible]
WholeObjects(objects) == IsFiniteSet(objects) /\ \A o \in objects : WholeObject(o)

LEMMA NamedIsWhole ==
  ASSUME NEW o, WholeObject(o)
  PROVE  WholeObject(Named(o))
<1>1. CASE o.name = <<>>
  <2>. DEFINE r == [id |-> o.id, type |-> o.type, name |-> DefaultName(o.type, o.id), asset |-> o.asset,
                    position |-> o.position, rotation |-> o.rotation, scale |-> o.scale, radius |-> o.radius,
                    visible |-> o.visible]
  <2>1. Named(o) = r
    BY <1>1 DEF Named, WholeObject
  <2>. QED BY <2>1 DEF WholeObject
<1>2. CASE o.name # <<>>
  BY <1>2 DEF Named
<1>. QED BY <1>1, <1>2

\* The object that ReadObject makes of what the file says, before it is named.
ReadFields(o) ==
    [id |-> o.id, type |-> o.type, name |-> o.name, asset |-> o.asset, position |-> ReadVec3Value(o, "position"),
     rotation |-> ReadVec3Value(o, "rotation"), scale |-> ReadVec3Value(o, "scale"),
     radius |-> ReadScalar(o, "radius", DefaultRadius), visible |-> ReadScalar(o, "visible", TRUE)]

LEMMA ReadIsNamed ==
  ASSUME NEW o, WholeObject(o)
  PROVE  ReadObject(o) = Named(ReadFields(o))
<1>. DEFINE a == ReadVec3Value(o, "position")
            b == ReadVec3Value(o, "rotation")
            c == ReadVec3Value(o, "scale")
            d == ReadScalar(o, "radius", DefaultRadius)
            e == ReadScalar(o, "visible", TRUE)
            r == [o EXCEPT !.position = a, !.rotation = b, !.scale = c, !.radius = d, !.visible = e]
            s == [id |-> o.id, type |-> o.type, name |-> o.name, asset |-> o.asset, position |-> a,
                  rotation |-> b, scale |-> c, radius |-> d, visible |-> e]
<1>1. ReadObject(o) = Named(r) /\ ReadFields(o) = s
  BY DEF ReadObject, ReadFields
<1>. HIDE DEF a, b, c, d, e
<1>2. DOMAIN o = {"id", "type", "name", "asset", "position", "rotation", "scale", "radius", "visible"}
  BY DEF WholeObject
<1>3. r = [k \in DOMAIN o |->
            IF k = "visible" THEN e ELSE IF k = "radius" THEN d ELSE IF k = "scale" THEN c
            ELSE IF k = "rotation" THEN b ELSE IF k = "position" THEN a ELSE o[k]]
  BY <1>2
<1>4. r = s
  BY <1>2, <1>3
<1>. QED BY <1>1, <1>4

\* The position is found whatever the name and the asset read like: where
\* the reader goes astray it finds the position itself.
LEMMA ReadKeepsMost ==
  ASSUME NEW o, WholeObject(o)
  PROVE  /\ ReadObject(o).id = o.id /\ ReadObject(o).type = o.type
         /\ ReadObject(o).position = o.position /\ ReadObject(o).name = Named(o).name
         /\ Plain(o) => ReadObject(o) = Named(o)
<1>1. ReadVec3Value(o, "position") = o.position
  BY DEF ReadVec3Value
<1>. DEFINE r == ReadFields(o)
<1>2. /\ r.id = o.id /\ r.type = o.type /\ r.name = o.name /\ r.position = o.position
      /\ "id" \in DOMAIN r /\ "type" \in DOMAIN r /\ "name" \in DOMAIN r /\ "position" \in DOMAIN r
  BY <1>1 DEF ReadFields
<1>3. "name" \in DOMAIN o
  BY DEF WholeObject
<1>4. Plain(o) => r = o
  <2>. SUFFICES ASSUME Plain(o) PROVE r = o
    OBVIOUS
  <2>1. \A key \in {"position", "rotation", "scale", "radius", "visible"} : FoundAt(o, key) = key
    BY DEF Plain, FoundAt, KeysAfter
  <2>2. /\ ReadVec3Value(o, "rotation") = o.rotation /\ ReadVec3Value(o, "scale") = o.scale
        /\ ReadScalar(o, "radius", DefaultRadius) = o.radius /\ ReadScalar(o, "visible", TRUE) = o.visible
    BY <2>1 DEF ReadVec3Value, ReadScalar
  <2>. QED BY <1>1, <2>2 DEF ReadFields, WholeObject
<1>5. ReadObject(o) = Named(r)
  BY ReadIsNamed
<1>. HIDE DEF r
<1>6. /\ Named(r).id = o.id /\ Named(r).type = o.type /\ Named(r).position = o.position
      /\ Named(r).name = IF o.name = <<>> THEN DefaultName(o.type, o.id) ELSE o.name
  BY <1>2 DEF Named
<1>7. Named(o).name = IF o.name = <<>> THEN DefaultName(o.type, o.id) ELSE o.name
  BY <1>3 DEF Named
<1>. QED BY <1>4, <1>5, <1>6, <1>7

\* No two objects of a file are read as one: their ids differ.
LEMMA ReadingLosesNone ==
  ASSUME NEW f, f.cut = "no", WholeObjects(f.objects), \A o, p \in f.objects : o.id = p.id => o = p
  PROVE  Cardinality(ReadObjects(f)) = Cardinality(f.objects)
<1>. DEFINE S == f.objects
            T == ReadObjects(f)
            g == [o \in S |-> ReadObject(o)]
<1>1. T = {ReadObject(o) : o \in S}
  BY DEF ReadObjects
<1>2. \A o \in S : ReadObject(o).id = o.id
  BY ReadKeepsMost DEF WholeObjects
<1>. HIDE DEF T
<1>3. g \in [S -> T]
  BY <1>1
<1>4. \A t \in T : \E o \in S : g[o] = t
  BY <1>1
<1>5. \A o, p \in S : g[o] = g[p] => o = p
  BY <1>2
<1>6. ExistsBijection(S, T)
  <2>. HIDE DEF g
  <2>. QED BY <1>3, <1>4, <1>5 DEF ExistsBijection, Bijection, Injection, Surjection, IsInjective
<1>7. IsFiniteSet(S)
  BY DEF WholeObjects
<1>. QED BY <1>6, <1>7, FS_Bijection DEF T

\* The length of a file tells the side of a square terrain.
LEMMA SideFromLength ==
  ASSUME NEW bytes, NEW format \in Formats, NEW side \in 2 .. MaxSide,
         Len(bytes) = BytesPerSample(format) * side * side
  PROVE  SquareSide(bytes, format) = side
<1>. DEFINE n == BytesPerSample(format)
            sides == {s \in 2 .. MaxSide : s * s * n = Len(bytes)}
<1>1. MaxSide \in Nat /\ n \in Nat /\ n > 0
  BY HeightmapAssumption DEF Formats, BytesPerSample
<1>2. SquareSide(bytes, format) = IF sides = {} THEN 0 ELSE Max(sides)
  BY DEF SquareSide
<1>3. Len(bytes) = n * side * side
  OBVIOUS
<1>. HIDE DEF n
<1>4. ASSUME NEW s \in 2 .. MaxSide, s * s * n = n * side * side PROVE s = side
  <2>1. s \in Nat /\ side \in Nat /\ s > 0 /\ side > 0
    BY <1>1
  <2>2. ASSUME NEW x \in Nat, NEW y \in Nat, x < y PROVE n * (x * x) < n * (y * y)
    <3>1. PICK d \in Nat \ {0} : y = x + d
      <4>1. y - x \in Nat \ {0} /\ y = x + (y - x)
        BY <2>2
      <4>. QED BY <4>1
    <3>2. y * y = x * x + (2 * (x * d) + d * d) /\ 2 * (x * d) + d * d > 0 /\ x * x \in Int
         /\ 2 * (x * d) + d * d \in Int
      BY <3>1
    <3>. DEFINE e == 2 * (x * d) + d * d
                z == x * x
    <3>3. e \in Int /\ e > 0 /\ z \in Int /\ y * y = z + e
      BY <3>2
    <3>. HIDE DEF e, z
    <3>4. n * (z + e) = n * z + n * e /\ n * e > 0 /\ n * z \in Int /\ n * e \in Int
      BY <1>1, <3>3
    <3>. QED BY <3>3, <3>4 DEF z
  <2>3. n * (s * s) = n * (side * side)
    BY <1>1, <1>4, <2>1
  <2>4. n * (s * s) \in Int
    BY <1>1, <2>1
  <2>5. ~(s < side) /\ ~(side < s)
    BY <2>1, <2>2, <2>3, <2>4
  <2>. QED BY <2>1, <2>5
<1>5. side * side * n = Len(bytes)
  BY <1>1, <1>3
<1>6. sides = {side}
  BY <1>3, <1>4, <1>5
<1>7. sides \in SUBSET (0 .. MaxSide) /\ sides # {}
  BY <1>1, <1>6
<1>. HIDE DEF sides
<1>8. Max(sides) \in sides
  BY <1>1, <1>7, MaxOfBounded
<1>. QED BY <1>2, <1>6, <1>7, <1>8

WholeFile(f) == GoodFile(f) /\ WholeObjects(f.objects) /\ ValidSize(f.terrain.width, f.terrain.height)

LEMMA FileReopens ==
  ASSUME NEW f, WholeFile(f)
  PROVE  Reopens(f)
<1>1. CASE f.cut # "no"
  BY <1>1 DEF Reopens, ReadObjects
<1>2. CASE f.cut = "no"
  <2>. DEFINE t == f.terrain
              bytes == BytesOf(t.path)
              opts == ImportOptions(t.path, FreshOptions)
              again == Reopened(f)
  <2>1. Cardinality(ReadObjects(f)) = Cardinality(f.objects)
    BY <1>2, ReadingLosesNone DEF WholeFile, GoodFile
  <2>2. ASSUME NEW o \in f.objects
        PROVE  \E r \in ReadObjects(f) :
                   /\ r.id = o.id /\ r.type = o.type /\ r.position = o.position /\ r.name = Named(o).name
                   /\ Plain(o) => r = Named(o)
    <3>1. ReadObject(o) \in ReadObjects(f)
      BY <1>2 DEF ReadObjects
    <3>2. WholeObject(o)
      BY DEF WholeFile, WholeObjects
    <3>. QED BY <3>1, <3>2, ReadKeepsMost
  <2>3. ASSUME t.width = t.height, Len(bytes) = 2 * t.width * t.height
        PROVE  again.imports /\ again.read.width = t.width /\ again.read.height = t.height
    <3>. DEFINE side == t.width
    <3>1. side \in 2 .. MaxSide /\ MaxSide \in Nat
      BY HeightmapAssumption DEF WholeFile, ValidSize
    <3>2. Len(bytes) = 2 * side * side
      BY <2>3
    <3>3. SquareSide(bytes, "r16") = side
      <4>1. "r16" \in Formats /\ BytesPerSample("r16") = 2
        BY DEF Formats, BytesPerSample
      <4>. QED BY <3>1, <3>2, <4>1, SideFromLength
    <3>4. opts = [width |-> side, height |-> side, format |-> "r16", auto |-> TRUE, autoText |-> TRUE]
      <4>1. FreshOptions.format = "r16" /\ FreshOptions.auto = TRUE /\ [FreshOptions EXCEPT !.format = "r16"] = FreshOptions
        <5>1. FreshOptions.format = "r16" /\ FreshOptions.auto = TRUE
          BY DEF FreshOptions
        <5>2. FreshOptions = [k \in DOMAIN FreshOptions |-> FreshOptions[k]]
          BY DEF FreshOptions
        <5>3. [FreshOptions EXCEPT !.format = "r16"] = [k \in DOMAIN FreshOptions |-> FreshOptions[k]]
          BY <5>1, <5>2
        <5>. QED BY <5>1, <5>2, <5>3
      <4>2. opts = Detected(t.path, FreshOptions)
        BY <4>1 DEF ImportOptions
      <4>3. side # 0
        BY <3>1
      <4>4. Detected(t.path, FreshOptions) = [FreshOptions EXCEPT !.width = side, !.height = side]
        BY <3>3, <4>1, <4>3 DEF Detected
      <4>. QED BY <4>2, <4>4 DEF FreshOptions
    <3>5. LoadFromFile(EmptyScene, f).terrain = t
      BY <1>2 DEF LoadFromFile
    <3>6. again.read = opts /\ (again.imports <=> Imports(t.path, opts))
      BY <3>5 DEF Reopened
    <3>7. t.path \in DOMAIN disk.raw
      <4>1. SUFFICES ASSUME t.path \notin DOMAIN disk.raw PROVE FALSE
        OBVIOUS
      <4>2. bytes = <<>> /\ Len(<<>>) = 0
        BY <4>1 DEF BytesOf
      <4>3. 2 * side * side # 0
        BY <3>1
      <4>. QED BY <3>2, <4>2, <4>3
    <3>8. disk.raw[t.path] = bytes
      BY <3>7 DEF BytesOf
    <3>9. opts.width = side /\ opts.height = side /\ opts.format = "r16"
      BY <3>4
    <3>. HIDE DEF opts, bytes
    <3>10. Imports(t.path, opts)
      <4>1. Len(bytes) = side * side * 2
        BY <3>1, <3>2
      <4>. QED BY <3>1, <3>7, <3>8, <3>9, <4>1
             DEF Imports, LoadsRaw, ValidSize, FitsSize, BytesPerSample
    <3>. QED BY <2>3, <3>6, <3>9, <3>10
  <2>. HIDE DEF bytes, opts, again
  <2>4. t.width = t.height /\ Len(bytes) = 2 * t.width * t.height
        => again.imports /\ again.read.width = t.width /\ again.read.height = t.height
    BY <2>3
  <2>. QED BY <1>2, <2>1, <2>2, <2>4 DEF Reopens, bytes, again
<1>. QED BY <1>1, <1>2

-----------------------------------------------------------------------------
SizedOptions(o) == "width" \in DOMAIN o /\ "height" \in DOMAIN o /\ ValidSize(o.width, o.height)
SizedTerrain(m) == m = [width |-> m.width, height |-> m.height, values |-> m.values] /\ ValidSize(m.width, m.height)
WholeLevels(files) == \A path \in DOMAIN files : WholeFile(files[path])
ReopenInv ==
    /\ WholeObjects(scene.objects)
    /\ SizedOptions(options)
    /\ phase = "running" => SizedTerrain(terrain)
    /\ WholeLevels(disk.level)

LEMMA DetectedIsSized ==
  ASSUME NEW path, NEW opts, SizedOptions(opts)
  PROVE  SizedOptions(Detected(path, opts))
<1>. DEFINE bytes == BytesOf(path)
            side == SquareSide(bytes, opts.format)
            sides == {s \in 2 .. MaxSide : s * s * BytesPerSample(opts.format) = Len(bytes)}
<1>1. side = IF sides = {} THEN 0 ELSE Max(sides)
  BY DEF SquareSide
<1>2. MaxSide \in Nat
  BY HeightmapAssumption
<1>3. sides \in SUBSET (0 .. MaxSide) /\ sides \subseteq 2 .. MaxSide
  BY <1>2
<1>4. Detected(path, opts) = IF side = 0 THEN opts ELSE [opts EXCEPT !.width = side, !.height = side]
  BY DEF Detected
<1>. HIDE DEF side, sides
<1>5. side = 0 \/ side \in 2 .. MaxSide
  BY <1>1, <1>2, <1>3, MaxOfBounded
<1>. QED BY <1>4, <1>5 DEF SizedOptions, ValidSize

LEMMA ImportIsSized ==
  ASSUME NEW path, NEW opts, SizedOptions(opts)
  PROVE  SizedOptions(ImportOptions(path, opts))
<1>. DEFINE named == IF path \in R16Files THEN [opts EXCEPT !.format = "r16"] ELSE opts
<1>1. SizedOptions(named)
  BY DEF SizedOptions
<1>2. ImportOptions(path, opts) = IF named.auto THEN Detected(path, named) ELSE named
  BY DEF ImportOptions
<1>. HIDE DEF named
<1>. QED BY <1>1, <1>2, DetectedIsSized

-----------------------------------------------------------------------------
LEMMA AddIsWhole ==
  ASSUME NEW s, GoodScene(s), WholeObjects(s.objects), NEW o, WholeObject(o), o.id = 0
  PROVE  WholeObjects(AddObject(s, o).objects)
<1>. DEFINE r == [id |-> s.next, type |-> o.type, name |-> o.name, asset |-> o.asset, position |-> o.position,
                  rotation |-> o.rotation, scale |-> o.scale, radius |-> o.radius, visible |-> o.visible]
<1>1. [o EXCEPT !.id = s.next] = r
  BY DEF WholeObject
<1>2. AddObject(s, o).objects = s.objects \cup {Named(r)}
  BY <1>1 DEF AddObject
<1>3. WholeObject(r)
  BY DEF WholeObject
<1>. HIDE DEF r
<1>4. WholeObject(Named(r))
  BY <1>3, NamedIsWhole
<1>5. IsFiniteSet(s.objects \cup {Named(r)})
  BY FS_AddElement DEF WholeObjects
<1>. QED BY <1>2, <1>4, <1>5 DEF WholeObjects

LEMMA ChangeIsWhole ==
  ASSUME NEW s, GoodScene(s), WholeObjects(s.objects), NEW field \in DetailsFields, NEW value
  PROVE  WholeObjects(ChangeSelected(s, field, value).objects)
<1>. DEFINE after(o) == IF o.id = s.selected THEN [o EXCEPT ![field] = value] ELSE o
            T == {after(o) : o \in s.objects}
<1>1. ChangeSelected(s, field, value).objects = T
  BY DEF ChangeSelected, GoodScene
<1>2. IsFiniteSet(T)
  <2>1. IsFiniteSet(s.objects)
    BY DEF WholeObjects
  <2>. DEFINE g == [o \in s.objects |-> after(o)]
  <2>2. g \in Surjection(s.objects, T)
    BY DEF Surjection
  <2>. HIDE DEF g, T
  <2>. QED BY <2>1, <2>2, FS_Surjection
<1>3. ASSUME NEW o \in s.objects PROVE WholeObject(after(o))
  <2>1. WholeObject(o)
    BY DEF WholeObjects
  <2>. DEFINE at(k) == IF k = field THEN value ELSE o[k]
              r == [id |-> o.id, type |-> at("type"), name |-> at("name"), asset |-> at("asset"),
                    position |-> at("position"), rotation |-> at("rotation"), scale |-> at("scale"),
                    radius |-> at("radius"), visible |-> at("visible")]
  <2>2. DOMAIN o = {"id", "type", "name", "asset", "position", "rotation", "scale", "radius", "visible"}
    BY <2>1 DEF WholeObject
  <2>3. o = [k \in DOMAIN o |-> o[k]]
    BY <2>1 DEF WholeObject
  <2>4. [o EXCEPT ![field] = value] = [k \in DOMAIN o |-> at(k)]
    BY <2>3
  <2>5. field # "id"
    BY DEF DetailsFields
  <2>6. [k \in DOMAIN o |-> at(k)] = r
    BY <2>2, <2>5
  <2>7. WholeObject(r)
    BY DEF WholeObject
  <2>. QED BY <2>1, <2>4, <2>6, <2>7
<1>. HIDE DEF after
<1>. QED BY <1>1, <1>2, <1>3 DEF WholeObjects

LEMMA RemoveIsWhole ==
  ASSUME NEW s, GoodScene(s), WholeObjects(s.objects)
  PROVE  WholeObjects(RemoveSelectedObject(s).objects)
<1>. DEFINE left == {o \in s.objects : o.id # s.selected}
<1>1. RemoveSelectedObject(s).objects \in {s.objects, left}
  BY DEF RemoveSelectedObject, RemoveObject, GoodScene
<1>2. IsFiniteSet(left)
  BY FS_Subset DEF WholeObjects
<1>. QED BY <1>1, <1>2 DEF WholeObjects

LEMMA IslandIsWhole ==
  ASSUME GoodScene(scene), SizedOptions(options), CreatePreviewIslandLevel
  PROVE  WholeObjects(scene'.objects) /\ SizedOptions(options') /\ SizedTerrain(terrain')
<1>. DEFINE tree == NewObject("speedtree_proxy", <<"Tree Proxy">>, <<>>, "zero", 90)
            spawn == NewObject("player_spawn", <<"Player Spawn">>, <<>>, "one", DefaultRadius)
            empty == Clear(scene)
            planted == AddObject(empty, tree)
<1>1. WholeObject(tree) /\ tree.id = 0 /\ WholeObject(spawn) /\ spawn.id = 0
     /\ "id" \in DOMAIN tree /\ "id" \in DOMAIN spawn
  BY DEF NewObject, WholeObject
<1>2. GoodScene(empty) /\ WholeObjects(empty.objects)
  <2>1. GoodScene(empty)
    BY EmptyIsGood DEF GoodScene
  <2>2. empty.objects = {}
    BY DEF Clear
  <2>. QED BY <2>1, <2>2, FS_EmptySet DEF WholeObjects
<1>3. IslandScene = AddObject(planted, spawn)
  BY DEF IslandScene
<1>. HIDE DEF tree, spawn, empty
<1>4. GoodScene(planted) /\ WholeObjects(planted.objects)
  BY <1>1, <1>2, AddKeeps, AddIsWhole
<1>. HIDE DEF planted
<1>5. GoodScene(IslandScene) /\ WholeObjects(IslandScene.objects)
  BY <1>1, <1>3, <1>4, AddKeeps, AddIsWhole
<1>6. scene' = Synced(IslandScene, "", Island, IslandScale)
  BY DEF CreatePreviewIslandLevel
<1>7. WholeObjects(scene'.objects)
  BY <1>5, <1>6, SyncKeeps
<1>8. IslandSide \in 2 .. MaxSide
  BY EditorAssumption
<1>9. SizedOptions(options')
  BY <1>8 DEF CreatePreviewIslandLevel, SizedOptions, ValidSize
<1>10. SizedTerrain(terrain')
  BY <1>8 DEF CreatePreviewIslandLevel, SizedTerrain, ValidSize, Island
<1>. QED BY <1>7, <1>9, <1>10

LEMMA TerrainStepReopens ==
  ASSUME IdsInv, ReopenInv, TerrainEdit
  PROVE  ReopenInv'
<1>1. CASE NewIsland
  <2>1. CreatePreviewIslandLevel /\ disk' = disk
    BY <1>1 DEF NewIsland, stored
  <2>. QED BY <2>1, IslandIsWhole DEF IdsInv, ReopenInv
<1>2. CASE CreateFlatLevel
  <2>1. PICK h \in FlatHeights :
            /\ scene' = Synced(Clear(scene), paths.raw, Flat(options.width, options.height, h), scale)
            /\ terrain' = Flat(options.width, options.height, h)
    BY <1>2 DEF CreateFlatLevel
  <2>2. GoodScene(Clear(scene)) /\ Clear(scene).objects = {}
    BY EmptyIsGood DEF IdsInv, GoodScene, Clear
  <2>3. scene'.objects = {}
    BY <2>1, <2>2, SyncKeeps
  <2>4. WholeObjects(scene'.objects)
    BY <2>3, FS_EmptySet DEF WholeObjects
  <2>5. SizedTerrain(terrain')
    BY <2>1 DEF Flat, ReopenInv, SizedOptions, SizedTerrain, ValidSize
  <2>6. UNCHANGED <<options, disk>>
    BY <1>2 DEF CreateFlatLevel, panel, stored
  <2>. QED BY <2>4, <2>5, <2>6 DEF ReopenInv
<1>3. ASSUME NEW b \in Brushes, Sculpt(b) PROVE ReopenInv'
  <2>1. UNCHANGED <<phase, scene, options, disk>> /\ phase = "running"
    BY <1>3 DEF Sculpt, window, panel, stored, Edit, Uses, Running
  <2>2. terrain' = ApplyBrush(terrain, b.centre, b.radius, b.amount, b.mode, b.flatten)
    BY <1>3 DEF Sculpt
  <2>3. SizedTerrain(terrain)
    BY <2>1 DEF ReopenInv
  <2>4. PICK heights : terrain' = terrain \/ terrain' = [terrain EXCEPT !.values = heights]
    BY <2>2 DEF ApplyBrush
  <2>5. SizedTerrain(terrain')
    BY <2>3, <2>4 DEF SizedTerrain
  <2>. QED BY <2>1, <2>5 DEF ReopenInv
<1>4. ASSUME NEW s \in Scales, TypeScale(s) PROVE ReopenInv'
  BY <1>4 DEF TypeScale, ReopenInv, stored, panel, window
<1>5. ASSUME NEW s \in Scales, SetTerrainImportScale(s) PROVE ReopenInv'
  <2>1. UNCHANGED <<phase, terrain, options, disk>> /\ scene'.objects = scene.objects
    BY <1>5, SyncKeeps DEF SetTerrainImportScale, IdsInv, stored, panel, window
  <2>. QED BY <2>1 DEF ReopenInv
<1>. QED BY <1>1, <1>2, <1>3, <1>4, <1>5 DEF TerrainEdit

LEMMA SceneStepReopens ==
  ASSUME IdsInv, ReopenInv, SceneEdit
  PROVE  ReopenInv'
<1>0. UNCHANGED <<phase, terrain, options, disk>>
  BY DEF SceneEdit, AddEditorObjectAtBrush, ChangeObject, DeleteSelected, Select, window, panel, stored
<1>. SUFFICES WholeObjects(scene'.objects)
  BY <1>0 DEF ReopenInv
<1>a. GoodScene(scene) /\ WholeObjects(scene.objects)
  BY DEF IdsInv, ReopenInv
<1>1. ASSUME NEW button \in Buttons, NEW asset, NEW position, AddEditorObjectAtBrush(button, asset, position)
      PROVE  WholeObjects(scene'.objects)
  <2>. DEFINE o == NewObject(button[1], button[2], asset, position, button[3])
              added == AddObject(scene, o)
  <2>1. WholeObject(o) /\ o.id = 0 /\ "id" \in DOMAIN o
    BY DEF NewObject, WholeObject
  <2>2. scene' = SelectObject(added, added.selected)
    BY <1>1 DEF AddEditorObjectAtBrush
  <2>. HIDE DEF o
  <2>3. GoodScene(added) /\ WholeObjects(added.objects)
    BY <1>a, <2>1, AddKeeps, AddIsWhole
  <2>. HIDE DEF added
  <2>4. scene'.objects = added.objects
    BY <2>2, <2>3 DEF SelectObject, GoodScene
  <2>. QED BY <2>3, <2>4
<1>2. ASSUME NEW field \in DOMAIN Typed, NEW value \in Typed[field], ChangeObject(field, value)
      PROVE  WholeObjects(scene'.objects)
  <2>1. field \in DetailsFields
    BY EditorAssumption
  <2>. QED BY <1>2, <1>a, <2>1, ChangeIsWhole DEF ChangeObject
<1>3. CASE DeleteSelected
  BY <1>3, <1>a, RemoveIsWhole DEF DeleteSelected
<1>4. ASSUME NEW o \in scene.objects, Select(o.id) PROVE WholeObjects(scene'.objects)
  <2>1. scene'.objects = scene.objects
    BY <1>4, <1>a DEF Select, SelectObject, GoodScene
  <2>. QED BY <1>a, <2>1
<1>. QED BY <1>1, <1>2, <1>3, <1>4 DEF SceneEdit

LEMMA LoadRawReopens ==
  ASSUME IdsInv, ReopenInv, NEW path, NEW opts, SizedOptions(opts), LoadRawHeightmap(path, opts)
  PROVE  ReopenInv'
<1>. DEFINE read == ImportOptions(path, opts)
            t == LoadedRaw(disk.raw[path], read.width, read.height, read.format)
            size == IF read.autoText /\ ScaleText[path] # 0 THEN ScaleText[path] ELSE scale
<1>1. UNCHANGED <<phase, disk>> /\ options' = read
  BY DEF LoadRawHeightmap, window
<1>2. SizedOptions(read)
  BY ImportIsSized
<1>3. CASE ~Imports(path, read)
  <2>1. UNCHANGED <<scene, terrain>>
    BY <1>3 DEF LoadRawHeightmap, work
  <2>. QED BY <1>1, <1>2, <2>1 DEF ReopenInv
<1>4. CASE Imports(path, read)
  <2>1. terrain' = t /\ scene' = Synced(scene, path, t, size)
    BY <1>4 DEF LoadRawHeightmap
  <2>2. ValidSize(read.width, read.height)
    BY <1>2 DEF SizedOptions
  <2>3. SizedTerrain(t)
    BY <2>2 DEF LoadedRaw, SizedTerrain
  <2>. HIDE DEF t, size, read
  <2>4. scene'.objects = scene.objects
    BY <2>1, SyncKeeps DEF IdsInv
  <2>. QED BY <1>1, <1>2, <2>1, <2>3, <2>4 DEF ReopenInv
<1>. QED BY <1>3, <1>4

LEMMA WritingReopens ==
  ASSUME GoodDisk(disk), WholeLevels(disk.level), NEW kind \in {"raw", "level"}, NEW path, NEW w,
         WriteOf(kind, path, w), kind = "level" => WholeFile(w.content)
  PROVE  WholeLevels(disk'.level)
<1>1. CASE ~w.opened
  BY <1>1 DEF WriteOf
<1>2. CASE w.opened /\ kind = "raw"
  <2>1. disk' = [raw |-> Written(disk.raw, path, w.content), level |-> disk.level]
    BY <1>2 DEF WriteOf, GoodDisk
  <2>. QED BY <2>1
<1>3. CASE w.opened /\ kind = "level"
  <2>. DEFINE files == Written(disk.level, path, w.content)
  <2>1. disk' = [raw |-> disk.raw, level |-> files]
    BY <1>3 DEF WriteOf, GoodDisk
  <2>2. WholeLevels(files)
    BY <1>3 DEF Written, WholeLevels
  <2>. QED BY <2>1, <2>2
<1>. QED BY <1>1, <1>2, <1>3

LEMMA FileStepReopens ==
  ASSUME IdsInv, ReopenInv, FileStep
  PROVE  ReopenInv'
<1>1. ASSUME NEW path \in RawFiles, OpenRaw(path) PROVE ReopenInv'
  BY <1>1, LoadRawReopens DEF OpenRaw, ReopenInv
<1>2. ASSUME NEW path \in RawFiles, SaveRawMap(path) PROVE ReopenInv'
  <2>1. SaveRawHeightmap(path) /\ UNCHANGED <<phase, terrain, options>>
    BY <1>2 DEF SaveRawMap, window
  <2>2. scene' = Synced(scene, path, terrain, scale) \/ scene' = scene
    BY <2>1 DEF SaveRawHeightmap
  <2>3. PICK w : WriteOf("raw", path, w)
    BY <2>1 DEF SaveRawHeightmap
  <2>4. WholeLevels(disk'.level)
    BY <2>3, WritingReopens DEF IdsInv, ReopenInv
  <2>5. scene'.objects = scene.objects
    BY <2>2, SyncKeeps DEF IdsInv
  <2>. QED BY <2>1, <2>4, <2>5 DEF ReopenInv
<1>3. CASE ReloadRawWithManualSize
  <2>1. SizedOptions([options EXCEPT !.auto = FALSE])
    BY DEF ReopenInv, SizedOptions
  <2>. QED BY <1>3, <2>1, LoadRawReopens DEF ReloadRawWithManualSize
<1>4. CASE SaveMap
  <2>. DEFINE told == Synced(scene, paths.raw, terrain, scale)
  <2>1. GoodScene(told) /\ told.objects = scene.objects
    BY SyncKeeps DEF IdsInv
  <2>2. told.terrain.width = terrain.width /\ told.terrain.height = terrain.height
    BY DEF Synced, SetTerrainInfo, IdsInv, GoodScene
  <2>3. SizedTerrain(terrain) /\ UNCHANGED <<phase, terrain, options>>
    BY <1>4 DEF SaveMap, Uses, Running, ReopenInv, window
  <2>4. PICK path : SaveLevelFile(path)
    BY <1>4 DEF SaveMap
  <2>5. PICK w \in Writes(LevelFile(told, "no"), {LevelFile(told, cut) : cut \in Cuts}) :
            scene' = told /\ WriteOf("level", path, w)
    BY <2>4 DEF SaveLevelFile
  <2>. HIDE DEF told
  <2>6. WholeFile(w.content)
    <3>1. PICK cut : w.content = LevelFile(told, cut)
      BY DEF Writes
    <3>2. GoodFile(w.content)
      BY <2>1, <3>1, FileOfScene
    <3>3. w.content.objects = scene.objects /\ w.content.terrain = told.terrain
      BY <2>1, <3>1 DEF LevelFile
    <3>. QED BY <2>2, <2>3, <3>2, <3>3 DEF WholeFile, ReopenInv, SizedTerrain
  <2>7. WholeLevels(disk'.level)
    BY <2>5, <2>6, WritingReopens DEF IdsInv, ReopenInv
  <2>. QED BY <2>1, <2>3, <2>5, <2>7 DEF ReopenInv
<1>. QED BY <1>1, <1>2, <1>3, <1>4 DEF FileStep

LEMMA WindowStepReopens ==
  ASSUME IdsInv, ReopenInv, WindowStep \/ OptionEdit \/ UNCHANGED vars
  PROVE  ReopenInv'
<1>1. ASSUME NEW size \in WindowSizes, ResizeWindow(size) PROVE ReopenInv'
  BY <1>1 DEF ResizeWindow, ReopenInv, work, panel, stored
<1>2. CASE StartRenderer
  BY <1>2 DEF StartRenderer, ReopenInv, work, panel, stored
<1>3. CASE StartLevel
  <2>1. disk' = disk
    BY <1>3 DEF StartLevel, stored
  <2>2. \/ CreatePreviewIslandLevel
        \/ phase' = "ended" /\ UNCHANGED <<scene, options>>
    BY <1>3 DEF StartLevel, work, panel
  <2>3. CASE CreatePreviewIslandLevel
    BY <2>1, <2>3, IslandIsWhole DEF IdsInv, ReopenInv
  <2>. QED BY <2>1, <2>2, <2>3 DEF ReopenInv
<1>4. CASE Look
  BY <1>4 DEF Look, ReopenInv, work, panel, stored
<1>5. CASE CloseWindow
  BY <1>5 DEF CloseWindow, ReopenInv, work, panel, stored
<1>6. CASE EndProgram
  BY <1>6 DEF EndProgram, ReopenInv, work, panel, stored
<1>7. ASSUME NEW field \in DOMAIN TypedOptions, NEW value \in TypedOptions[field], TypeOption(field, value)
      PROVE  ReopenInv'
  <2>1. options' = [options EXCEPT ![field] = value] /\ UNCHANGED <<phase, scene, terrain, disk>>
    BY <1>7 DEF TypeOption, window, work, stored
  <2>2. field \in {"width", "height"} => value \in 2 .. MaxSide
    BY EditorAssumption
  <2>3. SizedOptions(options')
    BY <2>1, <2>2 DEF ReopenInv, SizedOptions, ValidSize
  <2>. QED BY <2>1, <2>3 DEF ReopenInv
<1>8. ASSUME NEW path, TypeRawPath(path) PROVE ReopenInv'
  BY <1>8 DEF TypeRawPath, ReopenInv, window, work, stored
<1>9. CASE DetectSize
  <2>1. options' = Detected(paths.raw, options) /\ UNCHANGED <<phase, scene, terrain, disk>>
    BY <1>9 DEF DetectSize, window, work, stored
  <2>. QED BY <2>1, DetectedIsSized DEF ReopenInv
<1>10. CASE UNCHANGED vars
  BY <1>10 DEF vars, ReopenInv, window, work, panel, stored
<1>. QED BY <1>1, <1>2, <1>3, <1>4, <1>5, <1>6, <1>7, <1>8, <1>9, <1>10 DEF WindowStep, OptionEdit

LEMMA ReopensAtFirst ==
  ASSUME Init
  PROVE  ReopenInv
<1>1. scene.objects = {} /\ options.width = IslandSide /\ options.height = IslandSide /\ phase = "start"
     /\ "width" \in DOMAIN options /\ "height" \in DOMAIN options /\ disk.level = <<>>
  BY DEF Init, EmptyScene
<1>2. IslandSide \in 2 .. MaxSide
  BY EditorAssumption
<1>3. DOMAIN <<>> = {}
  OBVIOUS
<1>4. WholeObjects(scene.objects)
  BY <1>1, FS_EmptySet DEF WholeObjects
<1>5. SizedOptions(options)
  BY <1>1, <1>2 DEF SizedOptions, ValidSize
<1>. QED BY <1>1, <1>3, <1>4, <1>5 DEF ReopenInv, WholeLevels

\* Whatever was typed, renamed, sculpted and saved before, and however a
\* write ended: every level file on the disk brings back, when it is opened
\* in a freshly started editor, as many objects as it was written with, each
\* with its id, type, position and name, and all of an object whose name and
\* asset do not read like a key; a cut one brings back none; and the terrain
\* of a square sixteen-bit file is imported in the size the level names.
THEOREM LevelsReopen == Spec => []LevelReopens
<1>1. Init => IdsInv /\ ReopenInv
  BY IdsAtFirst, ReopensAtFirst
<1>2. IdsInv /\ ReopenInv /\ [Next]_vars => IdsInv' /\ ReopenInv'
  BY TerrainStepKeeps, SceneStepKeeps, FileStepKeeps, WindowStepKeeps,
     TerrainStepReopens, SceneStepReopens, FileStepReopens, WindowStepReopens DEF Next
<1>3. ReopenInv => LevelReopens
  BY FileReopens DEF ReopenInv, WholeLevels, LevelReopens
<1>. QED BY <1>1, <1>2, <1>3, PTL DEF Spec

-----------------------------------------------------------------------------
(***************************************************************************)
(* RAW files.  First what division does, and the levels of each format:    *)
(* the largest height is a multiple of the largest sample of each.         *)
(***************************************************************************)
LEMMA DivBounds ==
  ASSUME NEW a \in Int, NEW b \in Int, b > 0
  PROVE  /\ a \div b \in Int /\ a % b \in Int
         /\ b * (a \div b) <= a /\ a < b * (a \div b) + b
         /\ a % b = a - b * (a \div b)
<1>1. a \div b \in Int /\ a % b \in Int
  OBVIOUS
<1>2. b * (a \div b) <= a
  OBVIOUS
<1>3. a < b * (a \div b) + b
  OBVIOUS
<1>4. a % b = a - b * (a \div b)
  OBVIOUS
<1>. QED BY <1>1, <1>2, <1>3, <1>4

LEMMA DivIs ==
  ASSUME NEW a \in Int, NEW b \in Int, b > 0, NEW q \in Int, b * q <= a, a < b * q + b
  PROVE  a \div b = q /\ a % b = a - b * q
<1>1. a \div b = q
  OBVIOUS
<1>. QED BY <1>1, DivBounds

LEMMA ProductBounds ==
  ASSUME NEW a \in Nat, NEW b \in Nat, NEW c \in Nat, a <= b
  PROVE  a * c \in Nat /\ b * c \in Nat /\ a * c <= b * c
<1>1. PICK d \in Nat : b = a + d
  <2>1. b - a \in Nat /\ b = a + (b - a)
    OBVIOUS
  <2>. QED BY <2>1
<1>2. b * c = a * c + d * c
  BY <1>1
<1>3. a * c \in Nat /\ d * c \in Nat
  OBVIOUS
<1>. QED BY <1>2, <1>3

SampleSizes == {1, 2, 4}

LEMMA SizesOfFormats ==
  \A format \in Formats : BytesPerSample(format) \in SampleSizes
BY DEF Formats, BytesPerSample, SampleSizes

LEMMA LevelsDivideTop ==
  ASSUME NEW n \in SampleSizes
  PROVE  /\ Levels(n) \in Nat /\ Levels(n) >= 2 /\ Top \in Nat /\ Top > 0
         /\ MaxSample(n) \in Nat /\ MaxSample(n) > 0 /\ MaxSample(n) <= Levels(n) - 1
         /\ \E k \in Nat \ {0} : Top = k * MaxSample(n)
<1>. DEFINE B == Base
<1>1. B \in Nat /\ B >= 2
  BY HeightmapAssumption
<1>2. B * B \in Nat /\ B * B >= 4
  <2>1. B * B >= 2 * B
    BY <1>1, ProductBounds
  <2>. QED BY <1>1, <2>1
<1>. DEFINE S == B * B
<1>3. Levels(1) = B /\ Levels(2) = S /\ Levels(4) = S * S
  BY <1>1 DEF Levels
<1>4. Top = (S - 1) * S
  BY <1>3 DEF Top
<1>5. Top \in Nat /\ Top > 0 /\ S * S \in Nat /\ Top <= S * S - 1 /\ S * S >= 16
  <2>1. S \in Nat /\ S >= 4
    BY <1>2
  <2>. HIDE DEF S
  <2>2. (S - 1) * S = S * S - S /\ S * S \in Nat
    BY <2>1
  <2>3. S * S >= 4 * S
    BY <2>1, ProductBounds
  <2>. QED BY <1>4, <2>1, <2>2, <2>3
<1>6. CASE n = 4
  <2>1. MaxSample(4) = Top /\ Top = 1 * Top
    BY <1>5 DEF MaxSample
  <2>. QED BY <1>3, <1>5, <1>6, <2>1
<1>7. CASE n = 2
  <2>1. MaxSample(2) = S - 1
    BY <1>3 DEF MaxSample
  <2>2. S \in Nat \ {0} /\ S >= 4
    BY <1>2
  <2>. HIDE DEF S
  <2>3. Top = S * (S - 1)
    BY <1>4, <2>2
  <2>. QED BY <1>3, <1>5, <1>7, <2>1, <2>2, <2>3
<1>8. CASE n = 1
  <2>1. MaxSample(1) = B - 1
    BY <1>3 DEF MaxSample
  <2>2. Top = ((B + 1) * S) * (B - 1)
    <3>1. S - 1 = (B + 1) * (B - 1)
      BY <1>1
    <3>2. S \in Nat /\ B + 1 \in Int /\ B - 1 \in Int
      BY <1>1, <1>2
    <3>. HIDE DEF S
    <3>3. ((B + 1) * (B - 1)) * S = ((B + 1) * S) * (B - 1)
      BY <3>2
    <3>. QED BY <1>4, <3>1, <3>3
  <2>3. (B + 1) * S \in Nat \ {0}
    <3>1. S \in Nat /\ S > 0 /\ B + 1 \in Nat /\ B + 1 > 0
      BY <1>1, <1>2
    <3>. HIDE DEF S
    <3>. QED BY <3>1
  <2>. DEFINE k == (B + 1) * S
  <2>4. k \in Nat \ {0} /\ Top = k * (B - 1) /\ Levels(1) = B
    BY <1>3, <2>2, <2>3
  <2>5. Top \in Nat /\ Top > 0
    BY <1>5
  <2>. HIDE DEF k, S
  <2>6. MaxSample(n) = B - 1 /\ Levels(n) = B
    BY <1>8, <2>1, <2>4
  <2>7. \E j \in Nat \ {0} : Top = j * MaxSample(n)
    <3>1. k \in Nat \ {0} /\ Top = k * MaxSample(n)
      BY <2>4, <2>6
    <3>. QED BY <3>1, Zenon
  <2>8. B \in Nat /\ B - 1 \in Nat /\ B - 1 > 0 /\ B >= 2 /\ B - 1 <= B - 1
    BY <1>1
  <2>. QED BY <2>5, <2>6, <2>7, <2>8
<1>. QED BY <1>6, <1>7, <1>8 DEF SampleSizes

\* A sample up to that of 1.0 is exactly its share of Top, and is quantized back.
LEMMA DecodedIsQuantized ==
  ASSUME NEW n \in SampleSizes, NEW v \in 0 .. MaxSample(n)
  PROVE  LET h == (v * Top) \div MaxSample(n)
         IN  Decoded(v, n) = h /\ h \in Heights /\ Quantize(h, n) = v
<1>. DEFINE D == MaxSample(n)
<1>1. D \in Nat /\ D > 0 /\ Top \in Nat /\ Top > 0 /\ v \in 0 .. D
  BY LevelsDivideTop
<1>2. PICK k \in Nat \ {0} : Top = k * D
  BY LevelsDivideTop
<1>3. Quantize(v * k, n) = (2 * (v * k) * D + Top) \div (2 * Top)
  BY DEF Quantize
<1>. HIDE DEF D
<1>4. (v * Top) \div D = v * k
  <2>1. v * Top = D * (v * k)
    BY <1>1, <1>2
  <2>2. v * k \in Int /\ v * Top \in Int
    BY <1>1, <1>2
  <2>. QED BY <1>1, <2>1, <2>2, DivIs
<1>5. v * k \in 0 .. Top
  <2>1. v * k <= D * k /\ v * k \in Nat
    BY <1>1, <1>2, ProductBounds
  <2>2. D * k = Top
    BY <1>1, <1>2
  <2>. QED BY <1>1, <2>1, <2>2
<1>6. Quantize(v * k, n) = v
  <2>1. 2 * (v * k) * D = (2 * Top) * v
    BY <1>1, <1>2
  <2>. DEFINE a == 2 * (v * k) * D + Top
              b == 2 * Top
  <2>2. b \in Int /\ b > 0 /\ a = b * v + Top /\ b * v \in Int
    BY <1>1, <2>1
  <2>3. Quantize(v * k, n) = a \div b
    BY <1>3
  <2>4. b = 2 * Top
    OBVIOUS
  <2>. HIDE DEF a, b
  <2>5. b * v <= a /\ a < b * v + b /\ a \in Int /\ v \in Int
    BY <1>1, <2>2, <2>4
  <2>. QED BY <2>2, <2>3, <2>5, DivIs
<1>7. Decoded(v, n) = (v * Top) \div D
  <2>1. CASE n = 4
    <3>1. D = Top
      BY <2>1 DEF D, MaxSample
    <3>2. Decoded(v, n) = v
      BY <1>1, <2>1, <3>1 DEF Decoded, FloatHeight
    <3>3. v * Top = Top * v /\ v * Top \in Int /\ v \in Int
      BY <1>1, <3>1
    <3>4. (v * Top) \div Top = v
      BY <1>1, <3>3, DivIs
    <3>. QED BY <3>1, <3>2, <3>4
  <2>2. CASE n # 4
    BY <2>2 DEF Decoded, D
  <2>. QED BY <2>1, <2>2
<1>. QED BY <1>4, <1>5, <1>6, <1>7 DEF D, Heights

LEMMA ClampedIsHeight ==
  ASSUME NEW h \in Int
  PROVE  ClampHeight(h) \in Heights
BY LevelsDivideTop DEF SampleSizes, ClampHeight, Heights

\* Whatever a file holds is read as a height.
LEMMA DecodedIsHeight ==
  ASSUME NEW n \in SampleSizes, NEW v \in 0 .. Levels(n) - 1
  PROVE  Decoded(v, n) \in Heights
<1>1. CASE v <= MaxSample(n)
  <2>1. v \in 0 .. MaxSample(n)
    BY <1>1, LevelsDivideTop
  <2>. QED BY <2>1, DecodedIsQuantized
<1>2. CASE ~(v <= MaxSample(n))
  <2>1. n = 4
    BY <1>2, LevelsDivideTop DEF MaxSample
  <2>2. v \in Int /\ -v \in Int
    BY <2>1, LevelsDivideTop
  <2>3. ClampHeight(v) \in Heights /\ ClampHeight(-v) \in Heights
    BY <2>2, ClampedIsHeight
  <2>4. DefaultHeight \in Heights /\ (v <= Top => v \in Heights)
    <3>1. Top \in Nat /\ Top > 0
      BY LevelsDivideTop
    <3>. HIDE DEF Top
    <3>2. DefaultHeight \in Heights
      BY <3>1 DEF DefaultHeight, Heights
    <3>3. v <= Top => v \in Heights
      BY <2>2, <3>1 DEF Heights
    <3>. QED BY <3>2, <3>3
  <2>. QED BY <2>1, <2>3, <2>4 DEF Decoded, FloatHeight
<1>. QED BY <1>1, <1>2

\* A height becomes the nearest sample: half a level away at most.
LEMMA QuantizedIsNear ==
  ASSUME NEW n \in SampleSizes, NEW h \in Heights
  PROVE  LET q == Quantize(h, n)
             D == MaxSample(n)
         IN  q \in 0 .. D /\ 2 * D * ((q * Top) \div D - h) \in -Top .. Top
<1>. DEFINE D == MaxSample(n)
            q == Quantize(h, n)
            a == 2 * h * D + Top
            b == 2 * Top
<1>1. D \in Nat /\ D > 0 /\ Top \in Nat /\ Top > 0 /\ h \in 0 .. Top
  BY LevelsDivideTop DEF Heights
<1>2. PICK k \in Nat \ {0} : Top = k * D
  BY LevelsDivideTop
<1>3. q = a \div b
  BY DEF Quantize
<1>. HIDE DEF D, q
<1>4. h * D \in Nat /\ h * D <= Top * D
  BY <1>1, ProductBounds
<1>5. a \in Int /\ b \in Int /\ b > 0 /\ a >= 0
  BY <1>1, <1>4
<1>6. q \in Int /\ b * q <= a /\ a < b * q + b
  <2>. HIDE DEF a, b
  <2>. QED BY <1>3, <1>5, DivBounds
<1>7. q >= 0
  <2>1. SUFFICES ASSUME q <= -1 PROVE FALSE
    BY <1>6
  <2>2. b * q <= -b
    <3>1. b * (-1 - q) >= 0
      BY <1>5, <1>6, <2>1
    <3>2. b * (-1 - q) = -b - b * q
      BY <1>5, <1>6
    <3>. QED BY <1>5, <1>6, <3>1, <3>2
  <2>. QED BY <1>5, <1>6, <2>2
<1>8. q <= D
  <2>1. SUFFICES ASSUME q >= D + 1 PROVE FALSE
    BY <1>1, <1>6
  <2>2. b * q >= b * D + b
    <3>0. b \in Int /\ b > 0
      BY <1>5
    <3>. HIDE DEF b
    <3>1. b * (q - (D + 1)) >= 0
      BY <1>1, <1>6, <2>1, <3>0
    <3>2. b * (q - (D + 1)) = b * q - b * D - b
      BY <1>1, <1>6, <3>0
    <3>3. b * q \in Int /\ b * D \in Int
      BY <1>1, <1>6, <3>0
    <3>. QED BY <3>0, <3>1, <3>2, <3>3
  <2>3. a <= b * D + Top
    <3>1. 2 * h * D = 2 * (h * D) /\ b * D = 2 * (Top * D)
      BY <1>1
    <3>. QED BY <1>1, <1>4, <3>1
  <2>. QED BY <1>1, <1>5, <1>6, <2>2, <2>3
<1>9. (q * Top) \div D = q * k
  <2>1. q * Top = D * (q * k)
    BY <1>1, <1>2, <1>6
  <2>2. q * k \in Int /\ q * Top \in Int
    BY <1>1, <1>2, <1>6
  <2>. QED BY <1>1, <2>1, <2>2, DivIs
<1>10. 2 * D * (q * k - h) = b * q - 2 * h * D
  BY <1>1, <1>2, <1>6
<1>11. b * q - 2 * h * D \in -Top .. Top
  BY <1>1, <1>5, <1>6
<1>. QED BY <1>6, <1>7, <1>8, <1>9, <1>10, <1>11 DEF D, q

-----------------------------------------------------------------------------
(* A sample and its bytes. *)

Bytes == 0 .. Base - 1

LEMMA LowByte ==
  ASSUME NEW d \in Bytes, NEW r \in Nat
  PROVE  (d + Base * r) % Base = d /\ (d + Base * r) \div Base = r
<1>1. Base \in Int /\ Base > 0 /\ d \in Int /\ 0 <= d /\ d < Base
  BY HeightmapAssumption DEF Bytes
<1>. DEFINE p == Base * r
<1>2. p \in Int
  BY <1>1
<1>3. p <= d + p /\ d + p < p + Base /\ d + p \in Int
  BY <1>1, <1>2
<1>4. (d + p) \div Base = r /\ (d + p) % Base = d + p - Base * r
  BY <1>1, <1>3, DivIs
<1>. QED BY <1>1, <1>2, <1>4

LEMMA BytesOfSample ==
  ASSUME NEW a \in Bytes, NEW b \in Bytes, NEW c \in Bytes, NEW d \in Bytes
  PROVE  LET s == a + Base * (b + Base * (c + Base * d))
         IN  /\ ByteOf(s, 1) = a /\ ByteOf(s, 2) = b /\ ByteOf(s, 3) = c /\ ByteOf(s, 4) = d
             /\ s \in 0 .. Levels(4) - 1
             /\ b = 0 /\ c = 0 /\ d = 0 => s \in 0 .. Levels(1) - 1
             /\ c = 0 /\ d = 0 => s \in 0 .. Levels(2) - 1
<1>. DEFINE r1 == c + Base * d
            r2 == b + Base * r1
            s == a + Base * r2
            B == Base
<1>1. B \in Nat /\ B >= 2 /\ a \in Nat /\ b \in Nat /\ c \in Nat /\ d \in Nat
     /\ a <= B - 1 /\ b <= B - 1 /\ c <= B - 1 /\ d <= B - 1
  BY HeightmapAssumption DEF Bytes
<1>2. r1 \in Nat
  BY <1>1
<1>3. r2 \in Nat
  <2>. HIDE DEF r1
  <2>. QED BY <1>1, <1>2
<1>4. s \in Nat
  <2>. HIDE DEF r2
  <2>. QED BY <1>1, <1>3
<1>5. s % B = a /\ s \div B = r2
  BY <1>3, LowByte
<1>6. r2 % B = b /\ r2 \div B = r1
  BY <1>2, LowByte
<1>7. r1 % B = c /\ r1 \div B = d
  BY <1>1, LowByte
<1>8. d % B = d
  <2>1. (d + B * 0) % B = d
    BY LowByte
  <2>. QED BY <1>1, <2>1
<1>9. s \div 1 = s
  BY <1>4
<1>10. s \div (B * B) = r1
  <2>. DEFINE P == B * B
              low == a + B * b
  <2>1. P \in Int /\ P > 0 /\ B * b \in Nat
    BY <1>1
  <2>2. low \in Nat /\ low < P
    <3>1. B * b <= B * (B - 1)
      BY <1>1, ProductBounds
    <3>2. B * (B - 1) = P - B
      BY <1>1
    <3>. QED BY <1>1, <2>1, <3>1, <3>2
  <2>3. s = low + P * r1
    <3>. HIDE DEF r1
    <3>. QED BY <1>1, <1>2
  <2>. HIDE DEF P, low, s, r1
  <2>4. P * r1 \in Int
    BY <1>2, <2>1
  <2>5. P * r1 <= s /\ s < P * r1 + P
    BY <2>1, <2>2, <2>3, <2>4
  <2>6. s \div P = r1
    BY <1>2, <1>4, <2>1, <2>5, DivIs
  <2>. QED BY <2>6 DEF P
<1>11. s \div (B * B * B) = d /\ (B * B * B) * d <= s /\ s < (B * B * B) * d + B * B * B
  <2>. DEFINE P == B * B * B
              Q == B * B
              low == a + B * b + Q * c
  <2>1. Q \in Int /\ Q > 0 /\ B * b \in Nat /\ B * b <= Q - B
    <3>1. B * b <= B * (B - 1) /\ B * b \in Nat
      BY <1>1, ProductBounds
    <3>2. B * (B - 1) = Q - B /\ Q \in Int /\ Q > 0
      BY <1>1
    <3>. QED BY <1>1, <3>1, <3>2
  <2>2. P = Q * B
    BY <1>1
  <2>3. Q * c \in Nat /\ Q * c <= P - Q /\ P \in Int /\ P > 0
    <3>. HIDE DEF Q, P
    <3>1. Q * c <= Q * (B - 1) /\ Q * c \in Nat
      BY <1>1, <2>1, ProductBounds
    <3>2. Q * (B - 1) = P - Q /\ P \in Int /\ P > 0
      BY <1>1, <2>1, <2>2
    <3>. QED BY <2>1, <3>1, <3>2
  <2>4. s = low + P * d
    BY <1>1
  <2>5. low \in Nat /\ low < P
    <3>. HIDE DEF Q, P
    <3>. QED BY <1>1, <2>1, <2>3
  <2>. HIDE DEF P, low, s
  <2>6. P * d \in Int
    BY <1>1, <2>3
  <2>7. P * d <= s /\ s < P * d + P
    BY <2>3, <2>4, <2>5, <2>6
  <2>8. s \div P = d
    BY <1>1, <1>4, <2>3, <2>7, DivIs
  <2>. QED BY <2>7, <2>8 DEF P
<1>12. ByteOf(s, 1) = s % B /\ ByteOf(s, 2) = (s \div B) % B /\ ByteOf(s, 3) = (s \div (B * B)) % B
      /\ ByteOf(s, 4) = (s \div (B * B * B)) % B
  <2>. HIDE DEF s
  <2>. QED BY <1>9 DEF ByteOf, PlaceOf
<1>13. ByteOf(s, 1) = a /\ ByteOf(s, 2) = b /\ ByteOf(s, 3) = c /\ ByteOf(s, 4) = d
  <2>. HIDE DEF s, r1, r2
  <2>. QED BY <1>5, <1>6, <1>7, <1>8, <1>10, <1>11, <1>12
<1>14. s \in 0 .. Levels(4) - 1
  <2>. DEFINE P == B * B * B
  <2>1. P \in Nat
    BY <1>1
  <2>2. s < P * d + P
    BY <1>11
  <2>3. Levels(4) = P * B
    BY DEF Levels
  <2>. HIDE DEF P, s
  <2>4. P * d <= P * (B - 1) /\ P * d \in Nat
    BY <1>1, <2>1, ProductBounds
  <2>5. P * (B - 1) = P * B - P /\ P * B \in Nat
    BY <1>1, <2>1
  <2>. QED BY <1>4, <2>1, <2>2, <2>3, <2>4, <2>5
<1>15. b = 0 /\ c = 0 /\ d = 0 => s \in 0 .. Levels(1) - 1
  BY <1>1 DEF Levels
<1>16. c = 0 /\ d = 0 => s \in 0 .. Levels(2) - 1
  <2>. SUFFICES ASSUME c = 0, d = 0 PROVE s \in 0 .. Levels(2) - 1
    OBVIOUS
  <2>1. s = a + B * b
    BY <1>1
  <2>2. B * b <= B * (B - 1) /\ B * b \in Nat
    BY <1>1, ProductBounds
  <2>3. B * (B - 1) = B * B - B /\ B * B \in Nat
    BY <1>1
  <2>4. Levels(2) = B * B
    BY DEF Levels
  <2>. HIDE DEF s
  <2>. QED BY <1>1, <1>4, <2>1, <2>2, <2>3, <2>4
<1>. QED BY <1>13, <1>14, <1>15, <1>16

LEMMA ReadSample ==
  ASSUME NEW n \in SampleSizes, NEW bytes, NEW at \in Nat, \A i \in 1 .. n : bytes[at + i] \in Bytes
  PROVE  /\ FromBytes(bytes, at, n) \in 0 .. Levels(n) - 1
         /\ \A i \in 1 .. n : ByteOf(FromBytes(bytes, at, n), i) = bytes[at + i]
<1>. DEFINE B == Base
<1>1. B \in Nat /\ 0 \in Bytes
  BY HeightmapAssumption DEF Bytes
<1>2. CASE n = 1
  <2>1. bytes[at + 1] \in Bytes
    BY <1>2
  <2>2. FromBytes(bytes, at, 1) = bytes[at + 1]
    BY DEF FromBytes
  <2>3. bytes[at + 1] + B * (0 + B * (0 + B * 0)) = bytes[at + 1]
    BY <1>1, <2>1 DEF Bytes
  <2>. QED BY <1>1, <1>2, <2>1, <2>2, <2>3, BytesOfSample
<1>3. CASE n = 2
  <2>1. bytes[at + 1] \in Bytes /\ bytes[at + 2] \in Bytes
    BY <1>3
  <2>2. FromBytes(bytes, at, 2) = bytes[at + 1] + B * bytes[at + 2]
    BY DEF FromBytes
  <2>3. bytes[at + 1] + B * (bytes[at + 2] + B * (0 + B * 0)) = bytes[at + 1] + B * bytes[at + 2]
    BY <1>1, <2>1 DEF Bytes
  <2>4. \A i \in 1 .. 2 : i \in {1, 2}
    OBVIOUS
  <2>. QED BY <1>1, <1>3, <2>1, <2>2, <2>3, <2>4, BytesOfSample
<1>4. CASE n = 4
  <2>1. bytes[at + 1] \in Bytes /\ bytes[at + 2] \in Bytes /\ bytes[at + 3] \in Bytes /\ bytes[at + 4] \in Bytes
    BY <1>4
  <2>2. FromBytes(bytes, at, 4) = bytes[at + 1] + B * (bytes[at + 2] + B * (bytes[at + 3] + B * bytes[at + 4]))
    BY DEF FromBytes
  <2>3. \A i \in 1 .. 4 : i \in {1, 2, 3, 4}
    OBVIOUS
  <2>. QED BY <1>4, <2>1, <2>2, <2>3, BytesOfSample
<1>. QED BY <1>2, <1>3, <1>4 DEF SampleSizes

LEMMA ByteIsByte ==
  ASSUME NEW s \in Nat, NEW i \in 1 .. 4
  PROVE  ByteOf(s, i) \in Bytes
<1>. DEFINE P == PlaceOf(i)
<1>1. P \in Int /\ P > 0
  <2>1. Base \in Nat /\ Base >= 2
    BY HeightmapAssumption
  <2>2. Base * Base \in Nat /\ Base * Base > 0
    BY <2>1
  <2>3. Base * Base * Base \in Nat /\ Base * Base * Base > 0
    BY <2>1
  <2>4. i \in {1, 2, 3, 4}
    OBVIOUS
  <2>. QED BY <2>1, <2>2, <2>3, <2>4 DEF PlaceOf
<1>2. Base \in Int /\ Base > 0
  BY HeightmapAssumption
<1>. HIDE DEF P
<1>3. s \div P \in Int
  BY <1>1, DivBounds
<1>. DEFINE t == s \div P
<1>. HIDE DEF t
<1>4. t \in Int
  BY <1>3 DEF t
<1>5. t % Base \in 0 .. Base - 1
  BY <1>2, <1>4
<1>. QED BY <1>5 DEF ByteOf, Bytes, P, t

LEMMA SmallIsItsRemainder ==
  ASSUME NEW t \in Nat, t < Base
  PROVE  t % Base = t
<1>1. t \in Bytes
  BY HeightmapAssumption DEF Bytes
<1>2. (t + Base * 0) % Base = t
  BY <1>1, LowByte
<1>3. t + Base * 0 = t
  BY HeightmapAssumption
<1>. QED BY <1>2, <1>3

LEMMA NextQuotient ==
  ASSUME NEW s \in Nat, NEW P \in Nat, P > 0
  PROVE  /\ s \div P \in Nat /\ s \div (P * Base) = (s \div P) \div Base
         /\ \A L \in Nat : s < P * L => s \div P < L
<1>. DEFINE q == s \div P
            r == q \div Base
            W == P * Base
<1>1. Base \in Nat /\ Base > 0
  BY HeightmapAssumption
<1>2. q \in Int /\ P * q <= s /\ s < P * q + P
  BY DivBounds
<1>. HIDE DEF q
<1>3. q >= 0
  <2>1. SUFFICES ASSUME q <= -1 PROVE FALSE
    BY <1>2
  <2>2. P * (-1 - q) >= 0 /\ P * (-1 - q) = -P - P * q /\ P * q \in Int
    BY <1>2, <2>1
  <2>. QED BY <1>2, <2>2
<1>4. r \in Int /\ Base * r <= q /\ q < Base * r + Base
  BY <1>1, <1>2, DivBounds
<1>. HIDE DEF r
<1>5. Base * r + Base >= q + 1 /\ Base * r \in Int
  BY <1>1, <1>2, <1>4
<1>6. P * q >= P * (Base * r) /\ P * (Base * r + Base) >= P * (q + 1)
  <2>. DEFINE x == q - Base * r
              y == Base * r + Base - (q + 1)
  <2>1. x \in Nat /\ y \in Nat /\ q = Base * r + x /\ Base * r + Base = (q + 1) + y
    BY <1>1, <1>2, <1>4, <1>5
  <2>. HIDE DEF x, y
  <2>. DEFINE z == Base * r
  <2>2. z \in Int
    BY <1>5
  <2>. HIDE DEF z
  <2>3. P * (z + x) = P * z + P * x /\ P * x >= 0 /\ P * z \in Int /\ P * x \in Int
    BY <2>1, <2>2
  <2>4. P * ((q + 1) + y) = P * (q + 1) + P * y /\ P * y >= 0 /\ P * (q + 1) \in Int /\ P * y \in Int
    BY <1>2, <2>1
  <2>5. P * q >= P * z
    BY <2>1, <2>3 DEF z
  <2>6. P * (Base * r + Base) >= P * (q + 1)
    BY <2>1, <2>4
  <2>. QED BY <2>5, <2>6 DEF z
<1>7. P * (Base * r) = W * r /\ P * (Base * r + Base) = W * r + W /\ P * (q + 1) = P * q + P
     /\ W \in Int /\ W * r \in Int /\ W > 0 /\ P * q \in Int
  BY <1>1, <1>2, <1>4
<1>. HIDE DEF W
<1>8. W * r <= s /\ s < W * r + W
  BY <1>2, <1>6, <1>7
<1>9. s \div W = r
  BY <1>4, <1>7, <1>8, DivIs
<1>10. ASSUME NEW L \in Nat, s < P * L PROVE q < L
  <2>1. SUFFICES ASSUME q >= L PROVE FALSE
    BY <1>2
  <2>2. P * (q - L) >= 0 /\ P * (q - L) = P * q - P * L /\ P * L \in Int
    BY <1>2, <2>1
  <2>. QED BY <1>2, <1>7, <1>10, <2>2
<1>. QED BY <1>2, <1>3, <1>9, <1>10 DEF q, r, W

LEMMA WrittenSample ==
  ASSUME NEW n \in SampleSizes, NEW s \in 0 .. Levels(n) - 1, NEW bytes, NEW at \in Nat,
         \A i \in 1 .. n : bytes[at + i] = ByteOf(s, i)
  PROVE  FromBytes(bytes, at, n) = s
<1>. DEFINE B == Base
            s1 == s \div B
            s2 == s \div (B * B)
            s3 == s \div (B * B * B)
<1>1. B \in Nat /\ B > 0 /\ s \in Nat /\ s < Levels(n)
  BY HeightmapAssumption, LevelsDivideTop
<1>2. s \div 1 = s
  BY <1>1
<1>3. ByteOf(s, 1) = s % B /\ ByteOf(s, 2) = s1 % B /\ ByteOf(s, 3) = s2 % B /\ ByteOf(s, 4) = s3 % B
  BY <1>2 DEF ByteOf, PlaceOf
<1>4. s = (s % B) + B * s1 /\ s1 \in Nat /\ s2 = s1 \div B
  <2>1. s % B = s - B * s1 /\ s1 \in Int /\ s % B \in Int
    BY <1>1, DivBounds
  <2>2. B * s1 \in Int
    BY <1>1, <2>1
  <2>3. s1 \in Nat /\ s2 = s1 \div B
    BY <1>1, NextQuotient
  <2>. HIDE DEF s1
  <2>. QED BY <1>1, <2>1, <2>2, <2>3
<1>5. CASE n = 1
  <2>1. s % B = s
    BY <1>1, <1>5, SmallIsItsRemainder DEF Levels
  <2>2. FromBytes(bytes, at, 1) = bytes[at + 1]
    BY DEF FromBytes
  <2>. QED BY <1>3, <1>5, <2>1, <2>2
<1>6. CASE n = 2
  <2>1. s1 < B
    <3>1. Levels(2) = B * B
      BY DEF Levels
    <3>2. \A L \in Nat : s < B * L => s1 < L
      BY <1>1, NextQuotient
    <3>. HIDE DEF s1
    <3>3. s < B * B
      BY <1>1, <1>6, <3>1
    <3>. QED BY <1>1, <3>2, <3>3
  <2>2. s1 % B = s1
    BY <1>4, <2>1, SmallIsItsRemainder
  <2>3. FromBytes(bytes, at, 2) = bytes[at + 1] + B * bytes[at + 2]
    BY DEF FromBytes
  <2>. HIDE DEF s1
  <2>. QED BY <1>3, <1>4, <1>6, <2>2, <2>3
<1>7. CASE n = 4
  <2>1. s2 \in Nat /\ s3 = s2 \div B /\ B * B \in Nat /\ B * B > 0
    <3>1. B * B \in Nat /\ B * B > 0
      BY <1>1
    <3>. QED BY <1>1, <3>1, NextQuotient
  <2>2. s3 < B /\ s3 \in Nat
    <3>1. B * B * B \in Nat /\ B * B * B > 0
      BY <1>1
    <3>2. Levels(4) = (B * B * B) * B
      BY DEF Levels
    <3>. QED BY <1>1, <1>7, <3>1, <3>2, NextQuotient
  <2>3. s3 % B = s3
    BY <2>2, SmallIsItsRemainder
  <2>4. s1 = (s1 % B) + B * s2
    <3>. HIDE DEF s1
    <3>1. s1 % B = s1 - B * s2 /\ s1 % B \in Int
      BY <1>1, <1>4, DivBounds
    <3>2. B * s2 \in Int
      BY <1>1, <2>1
    <3>. HIDE DEF s2
    <3>. QED BY <1>4, <3>1, <3>2
  <2>5. s2 = (s2 % B) + B * s3
    <3>. HIDE DEF s2
    <3>1. s2 % B = s2 - B * s3 /\ s2 % B \in Int
      BY <1>1, <2>1, DivBounds
    <3>2. B * s3 \in Int
      BY <1>1, <2>2
    <3>. HIDE DEF s3
    <3>. QED BY <2>1, <3>1, <3>2
  <2>6. FromBytes(bytes, at, 4) = bytes[at + 1] + B * (bytes[at + 2] + B * (bytes[at + 3] + B * bytes[at + 4]))
    BY DEF FromBytes
  <2>7. FromBytes(bytes, at, 4) = (s % B) + B * ((s1 % B) + B * ((s2 % B) + B * (s3 % B)))
    <3>. HIDE DEF s1, s2, s3
    <3>. QED BY <1>3, <1>7, <2>6
  <2>. HIDE DEF s1, s2, s3
  <2>. QED BY <1>4, <1>7, <2>3, <2>4, <2>5, <2>7
<1>. QED BY <1>5, <1>6, <1>7 DEF SampleSizes

-----------------------------------------------------------------------------
(* The places of the cells: one row after the other, n bytes each. *)

LEMMA SplitIndex ==
  ASSUME NEW m \in Nat, m > 0, NEW w \in Nat, NEW i \in 0 .. m * w - 1
  PROVE  i \div m \in 0 .. w - 1 /\ i % m \in 0 .. m - 1 /\ i = (i \div m) * m + (i % m)
<1>. DEFINE q == i \div m
            r == i % m
<1>1. q \in Int /\ r \in Int /\ m * q <= i /\ i < m * q + m /\ r = i - m * q /\ i \in Nat
  <2>1. m * w \in Nat
    OBVIOUS
  <2>. QED BY <2>1, DivBounds
<1>. HIDE DEF q, r
<1>2. m * q \in Int /\ m * w \in Int
  BY <1>1
<1>3. q >= 0
  <2>1. SUFFICES ASSUME q <= -1 PROVE FALSE
    BY <1>1
  <2>2. m * (-1 - q) >= 0 /\ m * (-1 - q) = -m - m * q
    BY <1>1, <2>1
  <2>. QED BY <1>1, <1>2, <2>2
<1>4. q < w
  <2>1. SUFFICES ASSUME q >= w PROVE FALSE
    BY <1>1
  <2>2. m * (q - w) >= 0 /\ m * (q - w) = m * q - m * w
    BY <1>1, <2>1
  <2>3. i < m * w
    BY <1>1, <1>2
  <2>. QED BY <1>1, <1>2, <2>2, <2>3
<1>5. q * m = m * q
  BY <1>1
<1>6. q \in 0 .. w - 1 /\ r \in 0 .. m - 1 /\ i = q * m + r
  BY <1>1, <1>2, <1>3, <1>4, <1>5
<1>. QED BY <1>6 DEF q, r

LEMMA JoinIndex ==
  ASSUME NEW m \in Nat, m > 0, NEW w \in Nat, NEW q \in 0 .. w - 1, NEW r \in 0 .. m - 1
  PROVE  q * m + r \in 0 .. m * w - 1 /\ (q * m + r) \div m = q /\ (q * m + r) % m = r
<1>1. q * m = m * q /\ m * q \in Nat
  OBVIOUS
<1>2. m * q <= m * (w - 1) /\ m * (w - 1) = m * w - m /\ m * w \in Int
  <2>1. q \in Nat /\ w - 1 \in Nat /\ q <= w - 1
    OBVIOUS
  <2>2. q * m <= (w - 1) * m
    BY <2>1, ProductBounds
  <2>3. (w - 1) * m = m * (w - 1) /\ m * (w - 1) = m * w - m /\ m * w \in Int
    BY <2>1
  <2>. QED BY <1>1, <2>2, <2>3
<1>3. m * q + r \in Int /\ m * q <= m * q + r /\ m * q + r < m * q + m
  BY <1>1
<1>4. (m * q + r) \div m = q /\ (m * q + r) % m = (m * q + r) - m * q
  BY <1>3, DivIs
<1>. QED BY <1>1, <1>2, <1>3, <1>4

LEMMA PlaceOfCell ==
  ASSUME NEW width \in Nat, NEW height \in Nat, width > 0, NEW c \in Cells(width, height)
  PROVE  GetIndex(width, c) \in 0 .. width * height - 1 /\ CellAt(width, GetIndex(width, c)) = c
<1>1. c[1] \in 0 .. width - 1 /\ c[2] \in 0 .. height - 1 /\ c = <<c[1], c[2]>>
  BY DEF Cells
<1>. DEFINE i == c[2] * width + c[1]
<1>2. i \in 0 .. width * height - 1 /\ i \div width = c[2] /\ i % width = c[1]
  BY <1>1, JoinIndex
<1>. HIDE DEF i
<1>. QED BY <1>1, <1>2 DEF GetIndex, CellAt, i

LEMMA CellOfPlace ==
  ASSUME NEW width \in Nat, NEW height \in Nat, width > 0, NEW i \in 0 .. width * height - 1
  PROVE  CellAt(width, i) \in Cells(width, height) /\ GetIndex(width, CellAt(width, i)) = i
<1>1. i \div width \in 0 .. height - 1 /\ i % width \in 0 .. width - 1 /\ i = (i \div width) * width + (i % width)
  BY SplitIndex
<1>. QED BY <1>1 DEF CellAt, Cells, GetIndex

LEMMA PlaceOfByte ==
  ASSUME NEW n \in SampleSizes, NEW width \in Nat, NEW height \in Nat
  PROVE  /\ \A k \in 1 .. n * width * height :
                /\ (k - 1) \div n \in 0 .. width * height - 1 /\ ((k - 1) % n) + 1 \in 1 .. n
                /\ k = ((k - 1) \div n) * n + (((k - 1) % n) + 1)
         /\ \A i \in 0 .. width * height - 1, j \in 1 .. n :
                /\ i * n + j \in 1 .. n * width * height
                /\ ((i * n + j) - 1) \div n = i /\ (((i * n + j) - 1) % n) + 1 = j
         /\ n * width * height \in Nat
<1>. DEFINE cells == width * height
<1>1. n \in Nat /\ n > 0
  BY DEF SampleSizes
<1>2. cells \in Nat /\ n * width * height = n * cells
  BY <1>1
<1>. HIDE DEF cells
<1>3. n * cells \in Nat
  BY <1>1, <1>2
<1>4. ASSUME NEW k \in 1 .. n * cells
      PROVE  /\ (k - 1) \div n \in 0 .. cells - 1 /\ ((k - 1) % n) + 1 \in 1 .. n
             /\ k = ((k - 1) \div n) * n + (((k - 1) % n) + 1)
  <2>. DEFINE x == k - 1
  <2>1. x \in 0 .. n * cells - 1 /\ k = x + 1
    BY <1>3
  <2>. HIDE DEF x
  <2>2. x \div n \in 0 .. cells - 1 /\ x % n \in 0 .. n - 1 /\ x = (x \div n) * n + (x % n)
    BY <1>1, <1>2, <2>1, SplitIndex
  <2>. DEFINE q == x \div n
              r == x % n
              z == q * n
  <2>3. r + 1 \in 1 .. n /\ q \in 0 .. cells - 1 /\ x = z + r /\ z \in Int
    BY <1>1, <1>2, <2>2
  <2>. HIDE DEF q, r, z
  <2>4. k = z + (r + 1)
    <3>1. r \in Int
      BY <1>1, <2>2 DEF r
    <3>. QED BY <2>1, <2>3, <3>1
  <2>. QED BY <2>3, <2>4 DEF q, r, z, x
<1>5. ASSUME NEW i \in 0 .. cells - 1, NEW j \in 1 .. n
      PROVE  /\ i * n + j \in 1 .. n * cells
             /\ ((i * n + j) - 1) \div n = i /\ (((i * n + j) - 1) % n) + 1 = j
  <2>. DEFINE r == j - 1
  <2>1. r \in 0 .. n - 1 /\ j = r + 1
    BY <1>1
  <2>2. i * n + r \in 0 .. n * cells - 1 /\ (i * n + r) \div n = i /\ (i * n + r) % n = r
    <3>. HIDE DEF r
    <3>. QED BY <1>1, <1>2, <2>1, JoinIndex
  <2>3. (i * n + j) - 1 = i * n + r /\ i * n \in Int
    BY <1>1, <1>2
  <2>. HIDE DEF r
  <2>4. i * n + j = (i * n + r) + 1
    BY <1>1, <1>2, <2>1, <2>3
  <2>. QED BY <1>1, <1>3, <2>1, <2>2, <2>3, <2>4
<1>. QED BY <1>2, <1>3, <1>4, <1>5 DEF cells

LEMMA SizesAreNatural ==
  ASSUME NEW width, NEW height, ValidSize(width, height)
  PROVE  width \in Nat /\ height \in Nat /\ width > 0 /\ height > 0
BY HeightmapAssumption DEF ValidSize

LEMMA LengthOfBytes ==
  ASSUME NEW size \in Nat, NEW bytes \in [1 .. size -> Bytes]
  PROVE  bytes \in Seq(Bytes) /\ Len(bytes) = size
<1>1. bytes \in Seq(Bytes)
  BY SeqDef
<1>. DEFINE len == Len(bytes)
<1>2. len \in Nat /\ 1 .. len = 1 .. size
  BY <1>1, LenProperties
<1>. HIDE DEF len
<1>3. len = size
  <2>1. \A a, b \in Nat : 1 .. a = 1 .. b => a <= b
    <3>1. SUFFICES ASSUME NEW a \in Nat, NEW b \in Nat, 1 .. a = 1 .. b, a > b PROVE FALSE
      OBVIOUS
    <3>2. a \in 1 .. a
      BY <3>1
    <3>3. a \notin 1 .. b
      BY <3>1
    <3>. QED BY <3>1, <3>2, <3>3
  <2>2. len <= size /\ size <= len
    BY <1>2, <2>1
  <2>. QED BY <1>2, <2>2
<1>. QED BY <1>1, <1>3 DEF len

LEMMA SavedBytes ==
  ASSUME NEW m, IsHeightmap(m), NEW format \in Formats
  PROVE  LET n == BytesPerSample(format)
             bytes == RawBytes(m, format)
         IN  /\ bytes \in Seq(Bytes) /\ Len(bytes) = n * m.width * m.height
             /\ \A i \in 0 .. m.width * m.height - 1, j \in 1 .. n :
                    bytes[i * n + j] = ByteOf(Quantize(m.values[CellAt(m.width, i)], n), j)
<1>. DEFINE n == BytesPerSample(format)
            w == m.width
            h == m.height
            bytes == RawBytes(m, format)
            sample(i) == Quantize(m.values[CellAt(w, i)], n)
            byte(k) == ByteOf(sample((k - 1) \div n), ((k - 1) % n) + 1)
            size == n * w * h
<1>1. n \in SampleSizes /\ n \in 1 .. 4
  BY SizesOfFormats DEF SampleSizes
<1>2. w \in Nat /\ h \in Nat /\ w > 0
  BY SizesAreNatural DEF IsHeightmap
<1>3. bytes = [k \in 1 .. size |-> byte(k)]
  BY DEF RawBytes
<1>4. ASSUME NEW i \in 0 .. w * h - 1 PROVE sample(i) \in Nat
  <2>1. CellAt(w, i) \in Cells(w, h)
    BY <1>2, CellOfPlace
  <2>2. m.values[CellAt(w, i)] \in Heights
    BY <2>1 DEF IsHeightmap
  <2>3. MaxSample(n) \in Nat
    BY <1>1, LevelsDivideTop
  <2>. QED BY <1>1, <2>2, <2>3, QuantizedIsNear
<1>. HIDE DEF n, w, h, sample
<1>5. /\ size \in Nat
      /\ \A k \in 1 .. size : (k - 1) \div n \in 0 .. w * h - 1 /\ ((k - 1) % n) + 1 \in 1 .. n
      /\ \A i \in 0 .. w * h - 1, j \in 1 .. n :
             /\ i * n + j \in 1 .. size /\ ((i * n + j) - 1) \div n = i /\ (((i * n + j) - 1) % n) + 1 = j
  BY <1>1, <1>2, PlaceOfByte
<1>6. ASSUME NEW k \in 1 .. size PROVE byte(k) \in Bytes
  <2>1. (k - 1) \div n \in 0 .. w * h - 1 /\ ((k - 1) % n) + 1 \in 1 .. 4
    BY <1>1, <1>5
  <2>2. sample((k - 1) \div n) \in Nat
    BY <1>4, <2>1
  <2>. QED BY <2>1, <2>2, ByteIsByte
<1>7. ASSUME NEW i \in 0 .. w * h - 1, NEW j \in 1 .. n PROVE bytes[i * n + j] = ByteOf(sample(i), j)
  <2>1. i * n + j \in 1 .. size /\ ((i * n + j) - 1) \div n = i /\ (((i * n + j) - 1) % n) + 1 = j
    BY <1>5
  <2>2. bytes[i * n + j] = byte(i * n + j)
    BY <1>3, <2>1
  <2>. QED BY <2>1, <2>2
<1>. HIDE DEF bytes, byte, size
<1>8. bytes \in [1 .. size -> Bytes]
  BY <1>3, <1>6
<1>9. bytes \in Seq(Bytes) /\ Len(bytes) = size
  BY <1>5, <1>8, LengthOfBytes
<1>. QED BY <1>7, <1>9 DEF bytes, size, n, w, h, sample

\* A RAW file of the right length is a heightmap, which is saved as the same
\* bytes again when no sample of the file stands for more than 1.0.
LEMMA LoadedBytes ==
  ASSUME NEW bytes \in Seq(Bytes), NEW width, NEW height, NEW format \in Formats,
         LoadsRaw(bytes, width, height, format)
  PROVE  LET m == LoadedRaw(bytes, width, height, format)
             n == BytesPerSample(format)
         IN  /\ IsHeightmap(m)
             /\ (\A i \in 0 .. width * height - 1 : FromBytes(bytes, i * n, n) <= MaxSample(n)) =>
                    RawBytes(m, format) = bytes
<1>. DEFINE n == BytesPerSample(format)
            m == LoadedRaw(bytes, width, height, format)
            again == RawBytes(m, format)
            sample(i) == FromBytes(bytes, i * n, n)
            decode(i) == Decoded(sample(i), n)
            values == [c \in Cells(width, height) |-> decode(GetIndex(width, c))]
<1>1. n \in SampleSizes /\ n \in Nat
  BY SizesOfFormats DEF SampleSizes
<1>2. width \in Nat /\ height \in Nat /\ width > 0 /\ ValidSize(width, height)
  BY SizesAreNatural DEF LoadsRaw
<1>3. m = [width |-> width, height |-> height, values |-> values]
  BY DEF LoadedRaw
<1>4. Len(bytes) = n * width * height
  <2>1. Len(bytes) = width * height * n
    BY DEF LoadsRaw, FitsSize
  <2>. HIDE DEF n
  <2>2. width * height * n = n * width * height
    BY <1>1, <1>2
  <2>. QED BY <2>1, <2>2
<1>. HIDE DEF n
<1>5. ASSUME NEW i \in 0 .. width * height - 1
      PROVE  /\ sample(i) \in 0 .. Levels(n) - 1
             /\ \A j \in 1 .. n : ByteOf(sample(i), j) = bytes[i * n + j]
  <2>1. \A j \in 1 .. n : i * n + j \in 1 .. n * width * height
    BY <1>1, <1>2, PlaceOfByte
  <2>2. \A j \in 1 .. n : bytes[i * n + j] \in Bytes
    BY <1>4, <2>1, ElementOfSeq
  <2>3. i * n \in Nat
    <3>1. i \in Nat
      BY <1>2
    <3>. QED BY <1>1, <3>1
  <2>. QED BY <1>1, <2>2, <2>3, ReadSample
<1>. DEFINE small == \A i \in 0 .. width * height - 1 : sample(i) <= MaxSample(n)
<1>13. small <=> \A i \in 0 .. width * height - 1 : FromBytes(bytes, i * n, n) <= MaxSample(n)
  OBVIOUS
<1>. HIDE DEF sample
<1>6. ASSUME NEW i \in 0 .. width * height - 1
      PROVE  decode(i) \in Heights /\ (small => Quantize(decode(i), n) = sample(i))
  <2>1. decode(i) \in Heights
    BY <1>1, <1>5, DecodedIsHeight
  <2>2. ASSUME small PROVE Quantize(decode(i), n) = sample(i)
    <3>1. sample(i) \in 0 .. MaxSample(n)
      BY <1>1, <1>5, <2>2, LevelsDivideTop
    <3>. QED BY <1>1, <3>1, DecodedIsQuantized
  <2>. QED BY <2>1, <2>2
<1>. HIDE DEF decode
<1>7. IsHeightmap(m)
  <2>1. \A c \in Cells(width, height) : GetIndex(width, c) \in 0 .. width * height - 1
    BY <1>2, PlaceOfCell
  <2>2. values \in [Cells(width, height) -> Heights]
    BY <1>6, <2>1
  <2>. HIDE DEF values
  <2>. QED BY <1>2, <1>3, <2>2 DEF IsHeightmap
<1>8. m.width = width /\ m.height = height /\ m.values = values
  BY <1>3
<1>. HIDE DEF m
<1>9. /\ again \in Seq(Bytes) /\ Len(again) = n * width * height
      /\ \A i \in 0 .. width * height - 1, j \in 1 .. n :
             again[i * n + j] = ByteOf(Quantize(values[CellAt(width, i)], n), j)
  BY <1>7, <1>8, SavedBytes DEF n
<1>. HIDE DEF again
<1>. HIDE DEF small
<1>10. ASSUME small, NEW i \in 0 .. width * height - 1, NEW j \in 1 .. n PROVE again[i * n + j] = bytes[i * n + j]
  <2>1. CellAt(width, i) \in Cells(width, height) /\ GetIndex(width, CellAt(width, i)) = i
    BY <1>2, CellOfPlace
  <2>2. values[CellAt(width, i)] = decode(i)
    BY <2>1
  <2>3. Quantize(decode(i), n) = sample(i)
    BY <1>6, <1>10
  <2>. QED BY <1>5, <1>9, <2>2, <2>3
<1>11. ASSUME small, NEW k \in 1 .. Len(again) PROVE again[k] = bytes[k]
  <2>1. PICK i \in 0 .. width * height - 1, j \in 1 .. n : k = i * n + j
    <3>1. k \in 1 .. n * width * height
      BY <1>9
    <3>2. /\ (k - 1) \div n \in 0 .. width * height - 1 /\ ((k - 1) % n) + 1 \in 1 .. n
          /\ k = ((k - 1) \div n) * n + (((k - 1) % n) + 1)
      BY <1>1, <1>2, <3>1, PlaceOfByte
    <3>. QED BY <3>2
  <2>. QED BY <1>10, <1>11, <2>1
<1>12. small => again = bytes
  BY <1>4, <1>9, <1>11, SeqEqual
<1>. QED BY <1>7, <1>12, <1>13 DEF m, again, n

\* Every terrain is saved and loaded again in any format without moving a
\* height by more than half a level, and its square is recognised.
LEMMA TerrainRoundTrips ==
  ASSUME NEW m, IsHeightmap(m)
  PROVE  RoundTrips(m)
<1>. SUFFICES ASSUME NEW format \in Formats
              PROVE  LET n == BytesPerSample(format)
                         bytes == RawBytes(m, format)
                         again == LoadedRaw(bytes, m.width, m.height, format)
                     IN  /\ LoadsRaw(bytes, m.width, m.height, format)
                         /\ \A c \in DOMAIN m.values :
                                2 * MaxSample(n) * (again.values[c] - m.values[c]) \in -Top .. Top
                         /\ RawBytes(again, format) = bytes
                         /\ m.width = m.height => SquareSide(bytes, format) = m.width
  BY DEF RoundTrips
<1>. DEFINE n == BytesPerSample(format)
            w == m.width
            h == m.height
            bytes == RawBytes(m, format)
            again == LoadedRaw(bytes, w, h, format)
            decode(i) == Decoded(FromBytes(bytes, i * n, n), n)
<1>1. n \in SampleSizes /\ n \in Nat
  BY SizesOfFormats DEF SampleSizes
<1>2. w \in Nat /\ h \in Nat /\ w > 0 /\ ValidSize(w, h) /\ w \in 2 .. MaxSide
  BY SizesAreNatural DEF IsHeightmap, ValidSize
<1>3. /\ bytes \in Seq(Bytes) /\ Len(bytes) = n * w * h
      /\ \A i \in 0 .. w * h - 1, j \in 1 .. n :
             bytes[i * n + j] = ByteOf(Quantize(m.values[CellAt(w, i)], n), j)
  BY SavedBytes
<1>4. again.values = [c \in Cells(w, h) |-> decode(GetIndex(w, c))]
  BY DEF LoadedRaw
<1>5. w = h => SquareSide(bytes, format) = w
  BY <1>2, <1>3, SideFromLength
<1>6. LoadsRaw(bytes, w, h, format)
  <2>1. n * w * h = w * h * n
    <3>. HIDE DEF n, w, h
    <3>. QED BY <1>1, <1>2
  <2>. QED BY <1>2, <1>3, <2>1 DEF LoadsRaw, FitsSize
<1>7. ASSUME NEW i \in 0 .. w * h - 1
      PROVE  LET sample == Quantize(m.values[CellAt(w, i)], n)
             IN  /\ m.values[CellAt(w, i)] \in Heights /\ sample \in 0 .. MaxSample(n)
                 /\ FromBytes(bytes, i * n, n) = sample
  <2>. DEFINE height == m.values[CellAt(w, i)]
              sample == Quantize(height, n)
  <2>1. height \in Heights
    <3>1. CellAt(w, i) \in Cells(w, h)
      BY <1>2, CellOfPlace
    <3>. QED BY <3>1 DEF IsHeightmap
  <2>. HIDE DEF n, w, h, bytes, again, height
  <2>2. sample \in 0 .. MaxSample(n)
    BY <1>1, <2>1, QuantizedIsNear
  <2>3. \A j \in 1 .. n : bytes[i * n + j] = ByteOf(sample, j)
    BY <1>3 DEF height
  <2>4. i * n \in Nat
    <3>1. i \in Nat
      BY <1>2
    <3>. QED BY <1>1, <3>1
  <2>. HIDE DEF sample
  <2>5. sample \in 0 .. Levels(n) - 1
    BY <1>1, <2>2, LevelsDivideTop
  <2>6. FromBytes(bytes, i * n, n) = sample
    BY <1>1, <2>3, <2>4, <2>5, WrittenSample
  <2>. QED BY <2>1, <2>2, <2>6 DEF sample, height
<1>8. RawBytes(again, format) = bytes
  <2>1. \A i \in 0 .. w * h - 1 : FromBytes(bytes, i * n, n) <= MaxSample(n)
    <3>. HIDE DEF n, w, h, bytes
    <3>1. MaxSample(n) \in Nat
      BY <1>1, LevelsDivideTop
    <3>. QED BY <1>7, <3>1
  <2>. QED BY <1>3, <1>6, <2>1, LoadedBytes
<1>9. ASSUME NEW c \in DOMAIN m.values
      PROVE  2 * MaxSample(n) * (again.values[c] - m.values[c]) \in -Top .. Top
  <2>. DEFINE i == GetIndex(w, c)
              q == Quantize(m.values[c], n)
  <2>1. c \in Cells(w, h) /\ m.values[c] \in Heights
    BY DEF IsHeightmap
  <2>. HIDE DEF n, w, h, bytes, again
  <2>2. i \in 0 .. w * h - 1 /\ CellAt(w, i) = c
    BY <1>2, <2>1, PlaceOfCell
  <2>. HIDE DEF i
  <2>3. FromBytes(bytes, i * n, n) = q /\ q \in 0 .. MaxSample(n)
    BY <1>7, <2>2
  <2>4. 2 * MaxSample(n) * ((q * Top) \div MaxSample(n) - m.values[c]) \in -Top .. Top
    BY <1>1, <2>1, QuantizedIsNear
  <2>. HIDE DEF q
  <2>5. again.values[c] = Decoded(q, n)
    BY <1>4, <2>1, <2>3 DEF i
  <2>6. Decoded(q, n) = (q * Top) \div MaxSample(n)
    BY <1>1, <2>3, DecodedIsQuantized
  <2>. QED BY <2>4, <2>5, <2>6
<1>. QED BY <1>5, <1>6, <1>8, <1>9

-----------------------------------------------------------------------------
(***************************************************************************)
(* The brush.                                                              *)
(***************************************************************************)
LEMMA CancelFactor ==
  ASSUME NEW c \in Int, c > 0, NEW x \in Int, NEW y \in Int, c * x < c * y + c
  PROVE  x <= y
<1>1. SUFFICES ASSUME x >= y + 1 PROVE FALSE
  OBVIOUS
<1>2. c * (x - (y + 1)) >= 0 /\ c * (x - (y + 1)) = c * x - c * y - c /\ c * x \in Int /\ c * y \in Int
  BY <1>1
<1>. QED BY <1>2

LEMMA DistanceIsRoot ==
  ASSUME NEW c \in Int \X Int, NEW centre \in Int \X Int
  PROVE  /\ SquaredDistance(c, centre) \in Nat /\ Distance(c, centre) \in Nat
         /\ \A r \in Nat : SquaredDistance(c, centre) <= r * r => Distance(c, centre) <= 10 * r
<1>. DEFINE e == SquaredDistance(c, centre)
            s == 100 * e
            d == Distance(c, centre)
            S == {x \in 0 .. s : x * x <= s}
<1>1. e \in Nat
  <2>. DEFINE x == c[1] - centre[1]
              y == c[2] - centre[2]
  <2>1. x \in Int /\ y \in Int /\ e = x * x + y * y
    BY DEF SquaredDistance
  <2>. HIDE DEF x, y, e
  <2>2. x * x >= 0 /\ y * y >= 0 /\ x * x \in Int /\ y * y \in Int
    BY <2>1
  <2>. QED BY <2>1, <2>2
<1>2. d = CHOOSE x \in 0 .. s : x * x <= s /\ s < (x + 1) * (x + 1)
  BY DEF Distance
<1>. HIDE DEF e, d
<1>3. s \in Nat
  BY <1>1
<1>. HIDE DEF s
<1>4. \E x \in 0 .. s : x * x <= s /\ s < (x + 1) * (x + 1)
  <2>. DEFINE x == Max(S)
  <2>1. S \in SUBSET (0 .. s) /\ 0 \in S
    BY <1>3
  <2>2. x \in S /\ \A y \in S : y <= x
    <3>. HIDE DEF S
    <3>. QED BY <1>3, <2>1, MaxOfBounded
  <2>. HIDE DEF x
  <2>3. x \in 0 .. s /\ x * x <= s /\ x \in Nat
    BY <1>3, <2>2
  <2>4. s < (x + 1) * (x + 1)
    <3>1. CASE x + 1 \in 0 .. s
      <4>1. x + 1 \notin S
        BY <2>2, <2>3
      <4>2. (x + 1) * (x + 1) \in Int
        BY <2>3
      <4>. QED BY <1>3, <3>1, <4>1, <4>2
    <3>2. CASE x + 1 \notin 0 .. s
      <4>1. x = s
        BY <1>3, <2>3, <3>2
      <4>2. (s + 1) * (s + 1) = s * s + s + s + 1 /\ s * s >= 0 /\ s * s \in Int
        BY <1>3
      <4>. QED BY <1>3, <4>1, <4>2
    <3>. QED BY <3>1, <3>2
  <2>. QED BY <2>3, <2>4
<1>5. d \in 0 .. s /\ d * d <= s
  BY <1>2, <1>4
<1>6. d \in Nat
  BY <1>3, <1>5
<1>7. ASSUME NEW r \in Nat, e <= r * r PROVE d <= 10 * r
  <2>1. SUFFICES ASSUME d >= 10 * r + 1 PROVE FALSE
    BY <1>6
  <2>2. d * d >= (10 * r + 1) * (10 * r + 1)
    <3>. DEFINE t == 10 * r + 1
    <3>1. t \in Nat /\ t <= d
      BY <2>1
    <3>. HIDE DEF t
    <3>2. t * t <= d * t /\ d * t \in Nat /\ t * t \in Nat
      BY <1>6, <3>1, ProductBounds
    <3>3. t * d <= d * d /\ d * d \in Nat
      BY <1>6, <3>1, ProductBounds
    <3>4. t * d = d * t
      BY <1>6, <3>1
    <3>5. d * d >= t * t
      BY <3>2, <3>3, <3>4
    <3>. QED BY <3>5 DEF t
  <2>3. (10 * r + 1) * (10 * r + 1) = 100 * (r * r) + 20 * r + 1 /\ r * r \in Nat
    OBVIOUS
  <2>4. s <= 100 * (r * r)
    BY <1>1, <1>7, <2>3 DEF s
  <2>5. d * d \in Int
    BY <1>6
  <2>. QED BY <1>3, <1>5, <2>2, <2>3, <2>4, <2>5
<1>. QED BY <1>1, <1>6, <1>7 DEF e, d

LEMMA WeightIsNatural ==
  ASSUME NEW amount \in Nat, NEW radius \in Nat, radius > 0, NEW distance \in Nat, distance <= 10 * radius
  PROVE  Weighted(amount, distance, radius) \in Nat
<1>. DEFINE left == 10 * radius - distance
            all == amount * left
            P == 10 * radius
<1>1. left \in Nat /\ P \in Nat /\ P > 0
  OBVIOUS
<1>2. Weighted(amount, distance, radius) = all \div P
  BY DEF Weighted
<1>. HIDE DEF left, P
<1>3. all \in Nat
  BY <1>1
<1>. HIDE DEF all
<1>. QED BY <1>1, <1>2, <1>3, NextQuotient

LEMMA TowardsStaysBetween ==
  ASSUME NEW from \in Heights, NEW to \in Heights, NEW share \in Nat
  PROVE  LET h == Towards(from, to, share)
         IN  h \in Heights /\ ((from <= h /\ h <= to) \/ (to <= h /\ h <= from))
<1>1. Top \in Nat /\ Top > 0
  BY LevelsDivideTop DEF SampleSizes
<1>. DEFINE part == IF share > Top THEN Top ELSE share
<1>2. part \in Nat /\ part <= Top
  BY <1>1
<1>. HIDE DEF part
<1>3. ASSUME NEW x \in Nat PROVE (x * part) \div Top \in 0 .. x
  <2>. DEFINE y == x * part
              q == y \div Top
  <2>1. y \in Nat /\ y <= x * Top /\ x * Top = Top * x /\ Top * x \in Int
    <3>1. part * x <= Top * x
      BY <1>1, <1>2, ProductBounds
    <3>2. part * x = x * part /\ x * Top = Top * x /\ x * part \in Nat /\ Top * x \in Int
      BY <1>1, <1>2
    <3>. QED BY <3>1, <3>2
  <2>. HIDE DEF y
  <2>2. q \in Nat /\ Top * q <= y
    BY <1>1, <2>1, NextQuotient, DivBounds
  <2>. HIDE DEF q
  <2>3. Top * q < Top * x + Top
    <3>1. Top * q \in Int
      BY <1>1, <2>2
    <3>. QED BY <1>1, <2>1, <2>2, <3>1
  <2>4. q <= x
    BY <1>1, <2>2, <2>3, CancelFactor
  <2>5. q \in 0 .. x
    BY <2>2, <2>4
  <2>. QED BY <2>5 DEF q, y
<1>4. from \in Nat /\ to \in Nat /\ from <= Top /\ to <= Top
  BY <1>1 DEF Heights
<1>5. CASE to >= from
  <2>. DEFINE step == ((to - from) * part) \div Top
  <2>1. to - from \in Nat
    BY <1>4, <1>5
  <2>2. step \in 0 .. to - from
    BY <1>3, <2>1
  <2>3. Towards(from, to, share) = from + step
    BY <1>5 DEF Towards, part
  <2>. HIDE DEF step
  <2>. QED BY <1>1, <1>4, <1>5, <2>2, <2>3 DEF Heights
<1>6. CASE ~(to >= from)
  <2>. DEFINE step == ((from - to) * part) \div Top
  <2>1. from - to \in Nat
    BY <1>4, <1>6
  <2>2. step \in 0 .. from - to
    BY <1>3, <2>1
  <2>3. Towards(from, to, share) = from - step
    BY <1>6 DEF Towards, part
  <2>. HIDE DEF step
  <2>. QED BY <1>1, <1>4, <1>6, <2>2, <2>3 DEF Heights
<1>. QED BY <1>5, <1>6

\* The mean of the cells around one lies between the least and the greatest.
LEMMA AverageIsBetween ==
  ASSUME NEW m, IsHeightmap(m), NEW c \in DOMAIN m.values
  PROVE  LET near == {m.values[d] : d \in Neighbours(m, c)}
             average == CalculateNeighborAverage(m, c)
         IN  /\ Min(near) <= average /\ average <= Max(near) /\ average \in Heights
             /\ Min(near) <= m.values[c] /\ m.values[c] <= Max(near)
             /\ near \subseteq Heights /\ near # {} /\ Min(near) \in near /\ Max(near) \in near
<1>. DEFINE f == m.values
            cells == DOMAIN f
            ones == [d \in cells |-> 1]
            near == {f[d] : d \in Neighbours(m, c)}
            lo == Min(near)
            hi == Max(near)
            sum == SumAround(f, c)
            count == SumAround(ones, c)
            average == CalculateNeighborAverage(m, c)
<1>1. cells = Cells(m.width, m.height) /\ f \in [cells -> Heights]
  BY DEF IsHeightmap
<1>2. Top \in Nat /\ Heights = 0 .. Top
  BY LevelsDivideTop DEF SampleSizes, Heights
<1>3. \A d \in cells : d[1] \in Int /\ d[2] \in Int
  <2>1. m.width \in Nat /\ m.height \in Nat
    BY SizesAreNatural DEF IsHeightmap
  <2>. QED BY <1>1, <2>1 DEF Cells
<1>. DEFINE x == c[1]
            y == c[2]
<1>4. x \in Int /\ y \in Int /\ c = <<x, y>>
  <2>1. c \in Cells(m.width, m.height)
    BY <1>1
  <2>. QED BY <1>3, <2>1 DEF Cells
<1>5. \A d \in cells : d[1] - x \in -1 .. 1 /\ d[2] - y \in -1 .. 1 => f[d] \in near
  BY DEF Neighbours
<1>6. near \subseteq Heights
  BY <1>1 DEF Neighbours
<1>7. f[c] \in near
  <2>1. c[1] - x \in -1 .. 1 /\ c[2] - y \in -1 .. 1
    BY <1>4
  <2>. QED BY <1>5, <2>1
<1>8. average = sum \div count
  BY DEF CalculateNeighborAverage
<1>. HIDE DEF near, average
<1>9. lo \in near /\ \A h \in near : lo <= h
  <2>1. near \in SUBSET Nat /\ near # {}
    BY <1>2, <1>6, <1>7
  <2>. QED BY <2>1, MinOfNaturals
<1>10. hi \in near /\ \A h \in near : h <= hi
  <2>1. near \in SUBSET (0 .. Top) /\ near # {}
    BY <1>2, <1>6, <1>7
  <2>. QED BY <1>2, <2>1, MaxOfBounded
<1>. HIDE DEF lo, hi
<1>a. \A h \in near : h \in Heights /\ h \in Int /\ h \in Nat
  <2>1. \A h \in Heights : h \in Int /\ h \in Nat
    BY <1>2
  <2>. QED BY <1>6, <2>1
<1>11. lo \in Nat /\ hi \in Nat /\ lo \in Heights /\ hi \in Heights
  BY <1>9, <1>10, <1>a
<1>. DEFINE term(a, b) == IF <<a, b>> \in cells THEN f[<<a, b>>] ELSE 0
            one(a, b) == IF <<a, b>> \in cells THEN 1 ELSE 0
<1>12. ASSUME NEW a \in {x - 1, x, x + 1}, NEW b \in {y - 1, y, y + 1}
       PROVE  /\ one(a, b) \in {0, 1} /\ term(a, b) \in Int
              /\ lo * one(a, b) <= term(a, b) /\ term(a, b) <= hi * one(a, b)
              /\ lo * one(a, b) \in Int /\ hi * one(a, b) \in Int
  <2>1. CASE <<a, b>> \in cells
    <3>1. <<a, b>>[1] - x \in -1 .. 1 /\ <<a, b>>[2] - y \in -1 .. 1
      BY <1>4
    <3>2. f[<<a, b>>] \in near
      BY <1>5, <2>1, <3>1
    <3>3. lo <= f[<<a, b>>] /\ f[<<a, b>>] <= hi /\ f[<<a, b>>] \in Int
      BY <1>9, <1>10, <1>a, <3>2
    <3>4. one(a, b) = 1 /\ term(a, b) = f[<<a, b>>]
      BY <2>1
    <3>. HIDE DEF one, term
    <3>. QED BY <1>11, <3>3, <3>4
  <2>2. CASE <<a, b>> \notin cells
    <3>1. one(a, b) = 0 /\ term(a, b) = 0
      BY <2>2
    <3>. HIDE DEF one, term
    <3>. QED BY <1>11, <3>1
  <2>. QED BY <2>1, <2>2
<1>13. one(x, y) = 1
  BY <1>4
<1>14. sum = (term(x - 1, y - 1) + term(x, y - 1) + term(x + 1, y - 1))
             + (term(x - 1, y) + term(x, y) + term(x + 1, y))
             + (term(x - 1, y + 1) + term(x, y + 1) + term(x + 1, y + 1))
  BY DEF SumAround
<1>15. count = (one(x - 1, y - 1) + one(x, y - 1) + one(x + 1, y - 1))
               + (one(x - 1, y) + one(x, y) + one(x + 1, y))
               + (one(x - 1, y + 1) + one(x, y + 1) + one(x + 1, y + 1))
  <2>1. DOMAIN ones = cells /\ \A a, b : <<a, b>> \in cells => ones[<<a, b>>] = 1
    OBVIOUS
  <2>. HIDE DEF ones, cells
  <2>2. \A a, b : (IF <<a, b>> \in DOMAIN ones THEN ones[<<a, b>>] ELSE 0) = one(a, b)
    BY <2>1
  <2>. HIDE DEF one
  <2>. QED BY <2>2 DEF SumAround
<1>. HIDE DEF term, one, sum, count, x, y
<1>16. ASSUME NEW b \in {y - 1, y, y + 1}
       PROVE  LET ts == term(x - 1, b) + term(x, b) + term(x + 1, b)
                  os == one(x - 1, b) + one(x, b) + one(x + 1, b)
              IN  /\ os \in 0 .. 3 /\ ts \in Int /\ lo * os \in Int /\ hi * os \in Int
                  /\ lo * os <= ts /\ ts <= hi * os
                  /\ one(x, b) = 1 => os >= 1
  <2>. DEFINE t1 == term(x - 1, b)
              t2 == term(x, b)
              t3 == term(x + 1, b)
              o1 == one(x - 1, b)
              o2 == one(x, b)
              o3 == one(x + 1, b)
  <2>1. /\ o1 \in {0, 1} /\ t1 \in Int /\ lo * o1 <= t1 /\ t1 <= hi * o1
        /\ lo * o1 \in Int /\ hi * o1 \in Int
    BY <1>12
  <2>2. /\ o2 \in {0, 1} /\ t2 \in Int /\ lo * o2 <= t2 /\ t2 <= hi * o2
        /\ lo * o2 \in Int /\ hi * o2 \in Int
    BY <1>12
  <2>3. /\ o3 \in {0, 1} /\ t3 \in Int /\ lo * o3 <= t3 /\ t3 <= hi * o3
        /\ lo * o3 \in Int /\ hi * o3 \in Int
    BY <1>12
  <2>. HIDE DEF t1, t2, t3, o1, o2, o3
  <2>4. lo * (o1 + o2 + o3) = lo * o1 + lo * o2 + lo * o3 /\ hi * (o1 + o2 + o3) = hi * o1 + hi * o2 + hi * o3
    BY <1>11, <2>1, <2>2, <2>3
  <2>5. /\ o1 + o2 + o3 \in 0 .. 3 /\ t1 + t2 + t3 \in Int /\ lo * (o1 + o2 + o3) \in Int /\ hi * (o1 + o2 + o3) \in Int
        /\ lo * (o1 + o2 + o3) <= t1 + t2 + t3 /\ t1 + t2 + t3 <= hi * (o1 + o2 + o3)
        /\ o2 = 1 => o1 + o2 + o3 >= 1
    BY <2>1, <2>2, <2>3, <2>4
  <2>. QED BY <2>5 DEF t1, t2, t3, o1, o2, o3
<1>17. /\ count \in Int /\ count >= 1 /\ sum \in Int /\ lo * count \in Int /\ hi * count \in Int
       /\ lo * count <= sum /\ sum <= hi * count
  <2>. DEFINE t1 == term(x - 1, y - 1) + term(x, y - 1) + term(x + 1, y - 1)
              t2 == term(x - 1, y) + term(x, y) + term(x + 1, y)
              t3 == term(x - 1, y + 1) + term(x, y + 1) + term(x + 1, y + 1)
              o1 == one(x - 1, y - 1) + one(x, y - 1) + one(x + 1, y - 1)
              o2 == one(x - 1, y) + one(x, y) + one(x + 1, y)
              o3 == one(x - 1, y + 1) + one(x, y + 1) + one(x + 1, y + 1)
  <2>1. /\ o1 \in 0 .. 3 /\ t1 \in Int /\ lo * o1 <= t1 /\ t1 <= hi * o1 /\ lo * o1 \in Int /\ hi * o1 \in Int
    BY <1>16
  <2>2. /\ o2 \in 0 .. 3 /\ t2 \in Int /\ lo * o2 <= t2 /\ t2 <= hi * o2 /\ lo * o2 \in Int /\ hi * o2 \in Int
        /\ o2 >= 1
    BY <1>13, <1>16
  <2>3. /\ o3 \in 0 .. 3 /\ t3 \in Int /\ lo * o3 <= t3 /\ t3 <= hi * o3 /\ lo * o3 \in Int /\ hi * o3 \in Int
    BY <1>16
  <2>4. sum = t1 + t2 + t3 /\ count = o1 + o2 + o3
    BY <1>14, <1>15
  <2>. HIDE DEF t1, t2, t3, o1, o2, o3
  <2>5. lo * (o1 + o2 + o3) = lo * o1 + lo * o2 + lo * o3 /\ hi * (o1 + o2 + o3) = hi * o1 + hi * o2 + hi * o3
    BY <1>11, <2>1, <2>2, <2>3
  <2>. QED BY <2>1, <2>2, <2>3, <2>4, <2>5
<1>. DEFINE q == sum \div count
<1>18. q \in Int /\ count * q <= sum /\ sum < count * q + count /\ count * q \in Int
       /\ lo * count = count * lo /\ hi * count = count * hi
  <2>1. q \in Int /\ count * q <= sum /\ sum < count * q + count
    BY <1>17, DivBounds
  <2>. HIDE DEF q
  <2>. QED BY <1>11, <1>17, <2>1
<1>. HIDE DEF q
<1>19. lo <= q
  <2>1. count * lo < count * q + count
    BY <1>17, <1>18
  <2>. QED BY <1>11, <1>17, <1>18, <2>1, CancelFactor
<1>20. q <= hi
  <2>1. count * q < count * hi + count
    BY <1>17, <1>18
  <2>. QED BY <1>11, <1>17, <1>18, <2>1, CancelFactor
<1>21. q \in Heights
  BY <1>2, <1>11, <1>18, <1>19, <1>20
<1>22. average = q
  BY <1>8 DEF q
<1>23. lo <= f[c] /\ f[c] <= hi
  BY <1>7, <1>9, <1>10
<1>. QED BY <1>6, <1>7, <1>9, <1>10, <1>19, <1>20, <1>21, <1>22, <1>23 DEF near, average, lo, hi

Stroke(m, b) == ApplyBrush(m, b.centre, b.radius, b.amount, b.mode, b.flatten)
BrushTypes == [mode : BrushModes, centre : Int \X Int, radius : Int, amount : Int, flatten : Int]

\* What one stroke does to one cell.
LEMMA StrokeOnCell ==
  ASSUME NEW m, IsHeightmap(m), NEW b \in BrushTypes, b.radius > 0, b.amount > 0, NEW c \in DOMAIN m.values,
         SquaredDistance(c, b.centre) <= b.radius * b.radius
  PROVE  LET old == m.values[c]
             new == ClampHeight(Brushed(m, c, Weighted(b.amount, Distance(c, b.centre), b.radius), b.mode, b.flatten))
             near == {m.values[d] : d \in Neighbours(m, c)}
         IN  /\ new \in Heights
             /\ b.mode = "Raise" => new >= old
             /\ b.mode = "Lower" => new <= old
             /\ b.mode = "Smooth" => Min(near) <= new /\ new <= Max(near)
             /\ b.mode = "Flatten" => (old <= new /\ new <= b.flatten) \/ (b.flatten <= new /\ new <= old)
<1>. DEFINE old == m.values[c]
            weight == Weighted(b.amount, Distance(c, b.centre), b.radius)
            brushed == Brushed(m, c, weight, b.mode, b.flatten)
            new == ClampHeight(brushed)
            near == {m.values[d] : d \in Neighbours(m, c)}
            average == CalculateNeighborAverage(m, c)
            Local ==
                /\ new \in Heights
                /\ b.mode = "Raise" => new >= old
                /\ b.mode = "Lower" => new <= old
                /\ b.mode = "Smooth" => Min(near) <= new /\ new <= Max(near)
                /\ b.mode = "Flatten" => (old <= new /\ new <= b.flatten) \/ (b.flatten <= new /\ new <= old)
<1>1. Top \in Nat /\ Heights = 0 .. Top
  BY LevelsDivideTop DEF SampleSizes, Heights
<1>2. b.mode \in BrushModes /\ b.centre \in Int \X Int /\ b.radius \in Nat /\ b.amount \in Nat /\ b.flatten \in Int
  BY DEF BrushTypes
<1>3. old \in Heights
  BY DEF IsHeightmap
<1>4. c \in Int \X Int
  <2>1. m.width \in Nat /\ m.height \in Nat /\ c \in Cells(m.width, m.height)
    BY SizesAreNatural DEF IsHeightmap
  <2>. QED BY <2>1 DEF Cells
<1>5. weight \in Nat
  <2>1. Distance(c, b.centre) \in Nat /\ Distance(c, b.centre) <= 10 * b.radius
    BY <1>2, <1>4, DistanceIsRoot
  <2>. QED BY <1>2, <2>1, WeightIsNatural
<1>6. ASSUME NEW h \in Heights PROVE ClampHeight(h) = h
  BY <1>1 DEF ClampHeight
<1>7. ASSUME NEW h \in Int
      PROVE  /\ ClampHeight(h) \in Heights
             /\ h < 0 => ClampHeight(h) = 0
             /\ h > Top => ClampHeight(h) = Top
  BY <1>1 DEF ClampHeight
<1>8. /\ Min(near) <= average /\ average <= Max(near) /\ average \in Heights
      /\ near \subseteq Heights /\ Min(near) \in near /\ Max(near) \in near
      /\ Min(near) <= old /\ old <= Max(near)
  BY AverageIsBetween
<1>. HIDE DEF weight, average, near
<1>9. ASSUME b.mode = "Raise" PROVE Local
  <2>1. brushed = old + weight
    BY <1>9 DEF Brushed
  <2>. HIDE DEF brushed, old
  <2>2. brushed \in Int /\ brushed >= old
    BY <1>1, <1>3, <1>5, <2>1
  <2>3. new \in Heights /\ new >= old
    BY <1>1, <1>3, <1>6, <1>7, <2>2
  <2>. QED BY <1>9, <2>3
<1>10. ASSUME b.mode = "Lower" PROVE Local
  <2>1. brushed = old - weight
    BY <1>10 DEF Brushed
  <2>. HIDE DEF brushed, old
  <2>2. brushed \in Int /\ brushed <= old
    BY <1>1, <1>3, <1>5, <2>1
  <2>3. new \in Heights /\ new <= old
    BY <1>1, <1>3, <1>6, <1>7, <2>2
  <2>. QED BY <1>10, <2>3
<1>11. ASSUME b.mode = "Smooth" PROVE Local
  <2>1. brushed = Towards(old, average, 4 * weight)
    BY <1>11 DEF Brushed, average
  <2>2. 4 * weight \in Nat
    BY <1>5
  <2>. HIDE DEF old
  <2>3. brushed \in Heights /\ ((old <= brushed /\ brushed <= average) \/ (average <= brushed /\ brushed <= old))
    BY <1>3, <1>8, <2>1, <2>2, TowardsStaysBetween
  <2>. DEFINE lo == Min(near)
              hi == Max(near)
  <2>4. lo \in Heights /\ hi \in Heights /\ lo <= average /\ average <= hi /\ lo <= old /\ old <= hi
    BY <1>8
  <2>. HIDE DEF brushed, lo, hi
  <2>5. lo <= brushed /\ brushed <= hi
    BY <1>1, <1>3, <1>8, <2>3, <2>4
  <2>6. new = brushed
    BY <1>6, <2>3
  <2>. QED BY <1>11, <2>3, <2>5, <2>6 DEF lo, hi
<1>12. ASSUME b.mode = "Flatten" PROVE Local
  <2>. DEFINE to == ClampHeight(b.flatten)
  <2>1. brushed = Towards(old, to, 2 * weight)
    BY <1>12 DEF Brushed
  <2>2. 2 * weight \in Nat
    BY <1>5
  <2>3. /\ to \in Heights
        /\ b.flatten < 0 => to = 0
        /\ b.flatten > Top => to = Top
        /\ b.flatten \in Heights => to = b.flatten
    BY <1>2, <1>6, <1>7
  <2>. HIDE DEF to, old
  <2>4. brushed \in Heights /\ ((old <= brushed /\ brushed <= to) \/ (to <= brushed /\ brushed <= old))
    BY <1>3, <2>1, <2>2, <2>3, TowardsStaysBetween
  <2>. HIDE DEF brushed
  <2>5. (old <= brushed /\ brushed <= b.flatten) \/ (b.flatten <= brushed /\ brushed <= old)
    BY <1>1, <1>2, <1>3, <2>3, <2>4
  <2>6. new = brushed
    BY <1>6, <2>4
  <2>. QED BY <1>12, <2>4, <2>5, <2>6
<1>13. Local
  BY <1>2, <1>9, <1>10, <1>11, <1>12 DEF BrushModes
<1>. QED BY <1>13 DEF near, weight

LEMMA StrokeIsLocal ==
  ASSUME NEW m, m = [width |-> m.width, height |-> m.height, values |-> m.values], IsHeightmap(m),
         NEW b \in BrushTypes
  PROVE  LET after == Stroke(m, b)
         IN  /\ after = [width |-> after.width, height |-> after.height, values |-> after.values]
             /\ IsHeightmap(after)
             /\ \A c \in DOMAIN m.values :
                    LET old == m.values[c]
                        new == after.values[c]
                        near == {m.values[d] : d \in Neighbours(m, c)}
                    IN  /\ SquaredDistance(c, b.centre) > b.radius * b.radius => new = old
                        /\ b.mode = "Raise" => new >= old
                        /\ b.mode = "Lower" => new <= old
                        /\ b.mode = "Smooth" => Min(near) <= new /\ new <= Max(near)
                        /\ b.mode = "Flatten" => (old <= new /\ new <= b.flatten) \/ (b.flatten <= new /\ new <= old)
<1>. DEFINE reached(c) == b.radius > 0 /\ b.amount > 0 /\ SquaredDistance(c, b.centre) <= b.radius * b.radius
            brushed(c) == ClampHeight(Brushed(m, c, Weighted(b.amount, Distance(c, b.centre), b.radius), b.mode, b.flatten))
            values == [c \in DOMAIN m.values |-> IF reached(c) THEN brushed(c) ELSE m.values[c]]
            after == [width |-> m.width, height |-> m.height, values |-> values]
<1>1. b.radius \in Int /\ b.amount \in Int /\ b.flatten \in Int /\ b.centre \in Int \X Int
  BY DEF BrushTypes
<1>2. Top \in Nat /\ Heights = 0 .. Top
  BY LevelsDivideTop DEF SampleSizes, Heights
<1>3. m.values \in [Cells(m.width, m.height) -> Heights] /\ ValidSize(m.width, m.height)
  BY DEF IsHeightmap
<1>4. Stroke(m, b) = after
  <2>1. CASE b.radius <= 0 \/ b.amount <= 0
    <3>1. \A c \in DOMAIN m.values : ~reached(c)
      BY <1>1, <2>1
    <3>. HIDE DEF reached, brushed
    <3>2. values = m.values
      BY <1>3, <3>1
    <3>3. Stroke(m, b) = m
      BY <2>1 DEF Stroke, ApplyBrush
    <3>. HIDE DEF values
    <3>. QED BY <3>2, <3>3
  <2>2. CASE ~(b.radius <= 0 \/ b.amount <= 0)
    <3>. DEFINE under == [c \in DOMAIN m.values |->
                             IF c \in UnderBrush(m, b.centre, b.radius) THEN brushed(c) ELSE m.values[c]]
    <3>1. Stroke(m, b) = [m EXCEPT !.values = under]
      BY <2>2 DEF Stroke, ApplyBrush
    <3>2. \A c \in DOMAIN m.values : c \in UnderBrush(m, b.centre, b.radius) <=> reached(c)
      BY <1>1, <2>2 DEF UnderBrush
    <3>. HIDE DEF reached, brushed
    <3>3. under = values
      BY <3>2
    <3>. HIDE DEF under, values
    <3>. QED BY <3>1, <3>3
  <2>. QED BY <2>1, <2>2
<1>5. ASSUME NEW c \in DOMAIN m.values
      PROVE  LET old == m.values[c]
                 new == values[c]
                 near == {m.values[d] : d \in Neighbours(m, c)}
             IN  /\ new \in Heights
                 /\ SquaredDistance(c, b.centre) > b.radius * b.radius => new = old
                 /\ b.mode = "Raise" => new >= old
                 /\ b.mode = "Lower" => new <= old
                 /\ b.mode = "Smooth" => Min(near) <= new /\ new <= Max(near)
                 /\ b.mode = "Flatten" => (old <= new /\ new <= b.flatten) \/ (b.flatten <= new /\ new <= old)
  <2>. DEFINE near == {m.values[d] : d \in Neighbours(m, c)}
              old == m.values[c]
  <2>1. old \in Heights /\ old \in Int
    BY <1>2, <1>3
  <2>2. CASE reached(c)
    <3>1. values[c] = brushed(c)
      BY <2>2
    <3>2. ~(SquaredDistance(c, b.centre) > b.radius * b.radius)
      <4>1. SquaredDistance(c, b.centre) \in Int /\ b.radius * b.radius \in Int
        <5>1. c \in Int \X Int
          <6>1. m.width \in Nat /\ m.height \in Nat /\ c \in Cells(m.width, m.height)
            BY <1>3, SizesAreNatural
          <6>. QED BY <6>1 DEF Cells
        <5>. QED BY <1>1, <5>1, DistanceIsRoot
      <4>. QED BY <2>2, <4>1
    <3>3. /\ brushed(c) \in Heights
          /\ b.mode = "Raise" => brushed(c) >= old
          /\ b.mode = "Lower" => brushed(c) <= old
          /\ b.mode = "Smooth" => Min(near) <= brushed(c) /\ brushed(c) <= Max(near)
          /\ b.mode = "Flatten" => (old <= brushed(c) /\ brushed(c) <= b.flatten)
                                   \/ (b.flatten <= brushed(c) /\ brushed(c) <= old)
      BY <2>2, StrokeOnCell
    <3>. HIDE DEF brushed, values, reached
    <3>. QED BY <3>1, <3>2, <3>3
  <2>3. CASE ~reached(c)
    <3>1. values[c] = old
      BY <2>3
    <3>2. Min(near) <= old /\ old <= Max(near)
      BY AverageIsBetween
    <3>3. (old <= old /\ old <= b.flatten) \/ (b.flatten <= old /\ old <= old)
      BY <1>1, <2>1
    <3>. HIDE DEF brushed, values, reached
    <3>. QED BY <2>1, <3>1, <3>2, <3>3
  <2>. QED BY <2>2, <2>3
<1>6. DOMAIN values = Cells(m.width, m.height) /\ values = [c \in DOMAIN values |-> values[c]]
  BY <1>3
<1>. HIDE DEF values
<1>7. values \in [Cells(m.width, m.height) -> Heights]
  BY <1>3, <1>5, <1>6
<1>8. IsHeightmap(after)
  BY <1>3, <1>7 DEF IsHeightmap
<1>9. after.values = values /\ after = [width |-> after.width, height |-> after.height, values |-> after.values]
  OBVIOUS
<1>. HIDE DEF after
<1>. QED BY <1>4, <1>5, <1>8, <1>9

-----------------------------------------------------------------------------
(***************************************************************************)
(* What the editor holds while it runs: a terrain with heights in range,   *)
(* RAW files of bytes, and, while nothing is unsaved, what the file says.  *)
(***************************************************************************)
GoodFormat(o) == "format" \in DOMAIN o /\ o.format \in Formats
RawFilesHoldBytes(files) == \A path \in DOMAIN files : files[path] \in Seq(Bytes)
\* The bytes are those that saving would write, or the terrain is the one they
\* were opened as.
Saved(bytes, t, format) == bytes = RawBytes(t, format)
Opened(bytes, t, format) == LoadsRaw(bytes, t.width, t.height, format) /\ LoadedRaw(bytes, t.width, t.height, format) = t
CleanKept ==
    Running /\ ~dirty /\ home.file \notin damaged =>
        \/ /\ home.kind = "raw" /\ home.format \in Formats
           /\ Saved(BytesOf(home.file), terrain, home.format) \/ Opened(BytesOf(home.file), terrain, home.format)
        \/ home.kind = "level" /\ disk.level[home.file].cut = "no" /\ disk.level[home.file].objects = scene.objects
KnownHome(place, files) == place.kind = "level" => place.file \in DOMAIN files
KeptInv ==
    /\ GoodFormat(options) /\ KnownHome(home, disk.level)
    /\ RawFilesHoldBytes(disk.raw)
    /\ phase = "running" => IsHeightmap(terrain)
    /\ CleanKept

LEMMA NothingStoredChanges ==
  ASSUME KeptInv, phase' = phase \/ phase' # "running", GoodFormat(options'),
         UNCHANGED <<terrain, dirty, disk, home, damaged>>, scene'.objects = scene.objects
  PROVE  KeptInv'
<1>1. CleanKept'
  BY DEF KeptInv, CleanKept, Running, BytesOf, Saved, Opened
<1>. QED BY <1>1 DEF KeptInv

LEMMA UnsavedKeeps ==
  ASSUME KeptInv, dirty' = TRUE, GoodFormat(options'), UNCHANGED <<disk, home>>,
         phase' = "running" => IsHeightmap(terrain')
  PROVE  KeptInv'
<1>1. CleanKept'
  BY DEF CleanKept
<1>. QED BY <1>1 DEF KeptInv

LEMMA IslandIsKept ==
  ASSUME KeptInv, CreatePreviewIslandLevel, UNCHANGED <<disk, home>>
  PROVE  KeptInv'
<1>1. IslandSide \in 2 .. MaxSide
  BY EditorAssumption
<1>2. IsHeightmap(Island)
  <2>. DEFINE cells == Cells(IslandSide, IslandSide)
  <2>1. ASSUME NEW c \in cells PROVE IslandHeight(c) \in Heights
    <3>1. c[1] \in Int /\ c[2] \in Int
      BY <1>1, HeightmapAssumption DEF Cells
    <3>2. Top \div 3 \in Int
      BY LevelsDivideTop DEF SampleSizes
    <3>3. (Top \div 3) + 2 * c[1] + c[2] \in Int
      BY <3>1, <3>2
    <3>. QED BY <3>3, ClampedIsHeight DEF IslandHeight
  <2>2. [c \in cells |-> IslandHeight(c)] \in [cells -> Heights]
    BY <2>1
  <2>. QED BY <1>1, <2>2 DEF Island, IsHeightmap, ValidSize
<1>3. GoodFormat(options')
  BY DEF CreatePreviewIslandLevel, KeptInv, GoodFormat
<1>. QED BY <1>2, <1>3, UnsavedKeeps DEF CreatePreviewIslandLevel

LEMMA TerrainStepIsKept ==
  ASSUME IdsInv, ReopenInv, KeptInv, TerrainEdit
  PROVE  KeptInv'
<1>1. CASE NewIsland
  BY <1>1, IslandIsKept DEF NewIsland, stored
<1>2. CASE CreateFlatLevel
  <2>1. PICK h \in FlatHeights : terrain' = Flat(options.width, options.height, h)
    BY <1>2 DEF CreateFlatLevel
  <2>2. ClampHeight(h) \in Heights
    BY EditorAssumption, ClampedIsHeight
  <2>3. IsHeightmap(terrain')
    BY <2>1, <2>2 DEF Flat, IsHeightmap, ReopenInv, SizedOptions
  <2>4. dirty' = TRUE /\ UNCHANGED <<options, disk, home>>
    BY <1>2 DEF CreateFlatLevel, panel, stored
  <2>. QED BY <2>3, <2>4, UnsavedKeeps DEF KeptInv
<1>3. ASSUME NEW b \in Brushes, Sculpt(b) PROVE KeptInv'
  <2>1. b \in BrushTypes
    BY EditorAssumption DEF BrushTypes
  <2>2. phase = "running" /\ dirty' = TRUE /\ UNCHANGED <<options, disk, home>> /\ terrain' = Stroke(terrain, b)
    BY <1>3 DEF Sculpt, Edit, Uses, Running, panel, stored, Stroke
  <2>3. IsHeightmap(terrain')
    BY <2>1, <2>2, StrokeIsLocal DEF KeptInv, ReopenInv, SizedTerrain
  <2>. QED BY <2>2, <2>3, UnsavedKeeps DEF KeptInv
<1>4. ASSUME NEW s \in Scales, TypeScale(s) PROVE KeptInv'
  BY <1>4, NothingStoredChanges DEF TypeScale, KeptInv, window, panel, stored
<1>5. ASSUME NEW s \in Scales, SetTerrainImportScale(s) PROVE KeptInv'
  <2>1. dirty' = TRUE /\ UNCHANGED <<phase, terrain, options, disk, home>>
    BY <1>5 DEF SetTerrainImportScale, window, panel, stored
  <2>. QED BY <2>1, UnsavedKeeps DEF KeptInv
<1>. QED BY <1>1, <1>2, <1>3, <1>4, <1>5 DEF TerrainEdit

LEMMA SceneStepIsKept ==
  ASSUME IdsInv, KeptInv, SceneEdit
  PROVE  KeptInv'
<1>1. UNCHANGED <<phase, terrain, options, disk, home, damaged>>
  BY DEF SceneEdit, AddEditorObjectAtBrush, ChangeObject, DeleteSelected, Select, window, panel, stored
<1>2. CASE dirty' = TRUE
  BY <1>1, <1>2, UnsavedKeeps DEF KeptInv
<1>3. ASSUME NEW o \in scene.objects, Select(o.id) PROVE KeptInv'
  <2>1. scene'.objects = scene.objects /\ dirty' = dirty
    BY <1>3 DEF Select, SelectObject, IdsInv, GoodScene
  <2>. QED BY <1>1, <2>1, NothingStoredChanges DEF KeptInv
<1>4. dirty' = TRUE \/ \E o \in scene.objects : Select(o.id)
  BY DEF SceneEdit, AddEditorObjectAtBrush, ChangeObject, DeleteSelected
<1>. QED BY <1>2, <1>3, <1>4

LEMMA DetectedKeepsFormat ==
  ASSUME NEW path, NEW opts, GoodFormat(opts)
  PROVE  GoodFormat(Detected(path, opts)) /\ GoodFormat(ImportOptions(path, opts))
<1>1. ASSUME NEW o, GoodFormat(o) PROVE GoodFormat(Detected(path, o))
  BY <1>1 DEF Detected, GoodFormat
<1>. DEFINE named == IF path \in R16Files THEN [opts EXCEPT !.format = "r16"] ELSE opts
<1>2. GoodFormat(named)
  BY DEF GoodFormat, Formats
<1>3. ImportOptions(path, opts) = IF named.auto THEN Detected(path, named) ELSE named
  BY DEF ImportOptions
<1>. HIDE DEF named
<1>. QED BY <1>1, <1>2, <1>3

LEMMA LoadRawIsKept ==
  ASSUME IdsInv, KeptInv, NEW path, NEW opts, GoodFormat(opts), LoadRawHeightmap(path, opts)
  PROVE  KeptInv'
<1>. DEFINE read == ImportOptions(path, opts)
            bytes == disk.raw[path]
            t == LoadedRaw(bytes, read.width, read.height, read.format)
<1>1. UNCHANGED <<phase, disk, damaged>> /\ options' = read
  BY DEF LoadRawHeightmap, window
<1>2. GoodFormat(read)
  BY DetectedKeepsFormat
<1>3. CASE ~Imports(path, read)
  <2>1. UNCHANGED <<scene, terrain, dirty, home>>
    BY <1>3 DEF LoadRawHeightmap, work
  <2>. QED BY <1>1, <1>2, <2>1, NothingStoredChanges
<1>4. CASE Imports(path, read)
  <2>1. terrain' = t /\ home' = StoredIn(path, read.format)
    BY <1>4 DEF LoadRawHeightmap
  <2>. HIDE DEF read
  <2>2. path \in DOMAIN disk.raw /\ LoadsRaw(bytes, read.width, read.height, read.format) /\ bytes \in Seq(Bytes)
    BY <1>4 DEF Imports, KeptInv, RawFilesHoldBytes
  <2>. HIDE DEF bytes
  <2>3. IsHeightmap(t) /\ Opened(bytes, t, read.format) /\ read.format \in Formats
    <3>1. IsHeightmap(t) /\ read.format \in Formats
      BY <1>2, <2>2, LoadedBytes DEF GoodFormat
    <3>2. t.width = read.width /\ t.height = read.height
      BY DEF LoadedRaw
    <3>. QED BY <2>2, <3>1, <3>2 DEF Opened
  <2>. HIDE DEF t
  <2>4. home'.kind = "raw" /\ home'.file = path /\ home'.format = read.format
    BY <2>1 DEF StoredIn
  <2>5. BytesOf(path)' = bytes
    BY <1>1, <2>2 DEF BytesOf, bytes
  <2>6. CleanKept'
    BY <2>1, <2>3, <2>4, <2>5 DEF CleanKept, BytesOf, Opened
  <2>7. KnownHome(home', disk'.level)
    BY <2>4 DEF KnownHome
  <2>. QED BY <1>1, <1>2, <2>1, <2>3, <2>6, <2>7 DEF KeptInv
<1>. QED BY <1>3, <1>4

-----------------------------------------------------------------------------
(* Saving: the file is whole, untouched, or damaged. *)

LEMMA WriteKinds ==
  ASSUME NEW whole, NEW cuts, NEW w \in Writes(whole, cuts)
  PROVE  \/ w.opened = TRUE /\ w.reported = TRUE /\ w.cut = FALSE /\ w.content = whole
         \/ w.opened = FALSE /\ w.reported = FALSE /\ w.cut = FALSE
         \/ w.opened = TRUE /\ w.cut = TRUE /\ w.content \in cuts
BY DEF Writes

LEMMA WriteOutcome ==
  ASSUME GoodDisk(disk), NEW kind \in {"raw", "level"}, NEW path, NEW w, WriteOf(kind, path, w)
  PROVE  /\ ~w.opened => disk' = disk
         /\ w.opened /\ kind = "raw" => disk'.level = disk.level /\ disk'.raw = Written(disk.raw, path, w.content)
         /\ w.opened /\ kind = "level" => disk'.raw = disk.raw /\ disk'.level = Written(disk.level, path, w.content)
         /\ w.cut => damaged' = damaged \cup {path}
         /\ ~w.opened /\ ~w.cut => damaged' = damaged
<1>1. w.opened => disk' = [disk EXCEPT ![kind] = Written(disk[kind], path, w.content)]
  BY DEF WriteOf
<1>2. disk = [raw |-> disk.raw, level |-> disk.level]
  BY DEF GoodDisk
<1>3. w.opened /\ kind = "raw" => disk' = [raw |-> Written(disk.raw, path, w.content), level |-> disk.level]
  BY <1>1, <1>2
<1>4. w.opened /\ kind = "level" => disk' = [raw |-> disk.raw, level |-> Written(disk.level, path, w.content)]
  BY <1>1, <1>2
<1>. QED BY <1>3, <1>4 DEF WriteOf

LEMMA WrittenElsewhere ==
  ASSUME NEW files, NEW path, NEW content, NEW p, p # path
  PROVE  /\ p \in DOMAIN Written(files, path, content) <=> p \in DOMAIN files
         /\ p \in DOMAIN files => Written(files, path, content)[p] = files[p]
BY DEF Written

\* A write that fails or is cut leaves what is said of the other files.
LEMMA BadWriteKeeps ==
  ASSUME GoodDisk(disk), KnownHome(home, disk.level), CleanKept, NEW kind \in {"raw", "level"}, NEW path, NEW w, WriteOf(kind, path, w),
         (~w.opened /\ ~w.cut) \/ (w.opened /\ w.cut),
         home' = home \/ (w.cut /\ home'.file = path),
         UNCHANGED <<phase, terrain>>, scene'.objects = scene.objects,
         ~dirty' => ~dirty \/ (w.cut /\ home'.file = path)
  PROVE  CleanKept'
<1>1. CASE ~w.opened /\ ~w.cut
  <2>1. UNCHANGED <<disk, damaged, home>>
    BY <1>1, WriteOutcome
  <2>. QED BY <1>1, <2>1 DEF CleanKept, Running, BytesOf, Saved, Opened
<1>2. CASE w.opened /\ w.cut
  <2>1. damaged' = damaged \cup {path}
    BY <1>2, WriteOutcome
  <2>2. CASE home'.file = path
    BY <2>1, <2>2 DEF CleanKept
  <2>3. CASE home'.file # path
    <3>1. home' = home
      BY <2>3
    <3>2. /\ home.file \in DOMAIN disk'.raw <=> home.file \in DOMAIN disk.raw
          /\ home.file \in DOMAIN disk.raw => disk'.raw[home.file] = disk.raw[home.file]
      <4>1. disk'.raw = disk.raw \/ disk'.raw = Written(disk.raw, path, w.content)
        BY <1>2, WriteOutcome
      <4>. QED BY <2>3, <3>1, <4>1, WrittenElsewhere
    <3>3. home.kind = "level" => disk'.level[home.file] = disk.level[home.file]
      <4>1. disk'.level = disk.level \/ disk'.level = Written(disk.level, path, w.content)
        BY <1>2, WriteOutcome
      <4>. QED BY <2>3, <3>1, <4>1, WrittenElsewhere DEF KnownHome
    <3>. QED BY <2>1, <2>3, <3>1, <3>2, <3>3 DEF CleanKept, Running, BytesOf, Saved, Opened
  <2>. QED BY <2>2, <2>3
<1>. QED BY <1>1, <1>2

LEMMA SaveRawIsKept ==
  ASSUME IdsInv, KeptInv, NEW path, SaveRawMap(path)
  PROVE  KeptInv'
<1>. DEFINE bytes == RawBytes(terrain, options.format)
            cuts == {<<>>, SubSeq(bytes, 1, Len(bytes) - 1)}
            files == Written(disk.raw, path, bytes)
<1>1. phase = "running" /\ UNCHANGED <<phase, terrain, options>>
  BY DEF SaveRawMap, Uses, Running, window
<1>2. PICK w \in Writes(bytes, cuts) :
          /\ WriteOf("raw", path, w) /\ dirty' = DirtyAfter(w)
          /\ w.reported => scene' = Synced(scene, path, terrain, scale) /\ home' = StoredIn(path, options.format)
          /\ ~w.reported => UNCHANGED <<scene, home>>
  BY DEF SaveRawMap, SaveRawHeightmap
<1>3. IsHeightmap(terrain) /\ options.format \in Formats
  BY <1>1 DEF KeptInv, GoodFormat
<1>4. bytes \in Seq(Bytes)
  BY <1>3, SavedBytes
<1>. HIDE DEF bytes
<1>5. \A x \in cuts : x \in Seq(Bytes)
  <2>1. Len(bytes) - 1 \in Int /\ \A i \in 1 .. Len(bytes) - 1 : bytes[i] \in Bytes
    BY <1>4, LenProperties
  <2>2. SubSeq(bytes, 1, Len(bytes) - 1) \in Seq(Bytes)
    BY <2>1, SubSeqProperties
  <2>3. <<>> \in Seq(Bytes)
    BY EmptySeq
  <2>. QED BY <2>2, <2>3
<1>. HIDE DEF cuts
<1>6. GoodDisk(disk)
  BY DEF IdsInv
<1>7. scene'.objects = scene.objects
  BY <1>2, SyncKeeps DEF IdsInv
<1>8. w.content \in Seq(Bytes) \/ ~w.opened
  BY <1>2, <1>4, <1>5, WriteKinds
<1>9. disk'.level = disk.level /\ (disk'.raw = disk.raw \/ (w.opened /\ disk'.raw = Written(disk.raw, path, w.content)))
  BY <1>2, <1>6, WriteOutcome
<1>10. RawFilesHoldBytes(disk'.raw)
  BY <1>8, <1>9 DEF KeptInv, RawFilesHoldBytes, Written
<1>11. KnownHome(home', disk'.level)
  BY <1>2, <1>9 DEF KeptInv, KnownHome, StoredIn
<1>12. CleanKept'
  <2>1. CASE w.opened = TRUE /\ w.reported = TRUE /\ w.cut = FALSE /\ w.content = bytes
    <3>1. home'.kind = "raw" /\ home'.file = path /\ home'.format = options.format
      BY <1>2, <2>1 DEF StoredIn
    <3>2. disk'.raw = files
      BY <1>2, <1>6, <2>1, WriteOutcome
    <3>3. path \in DOMAIN files /\ files[path] = bytes
      BY DEF Written
    <3>. HIDE DEF files
    <3>4. BytesOf(path)' = bytes
      BY <3>2, <3>3 DEF BytesOf
    <3>5. RawBytes(terrain', home'.format) = bytes /\ home'.format \in Formats
      BY <1>1, <1>3, <3>1 DEF bytes
    <3>. QED BY <3>1, <3>4, <3>5 DEF CleanKept, BytesOf, Saved
  <2>2. CASE \/ w.opened = FALSE /\ w.reported = FALSE /\ w.cut = FALSE
             \/ w.opened = TRUE /\ w.cut = TRUE
    <3>1. home' = home \/ (w.cut /\ home'.file = path)
      BY <1>2, <2>2 DEF StoredIn
    <3>2. ~dirty' => ~dirty \/ (w.cut /\ home'.file = path)
      BY <1>2, <2>2 DEF DirtyAfter, StoredIn
    <3>3. (~w.opened /\ ~w.cut) \/ (w.opened /\ w.cut)
      BY <2>2
    <3>4. CleanKept /\ KnownHome(home, disk.level)
      BY DEF KeptInv
    <3>. QED BY <1>1, <1>2, <1>6, <1>7, <3>1, <3>2, <3>3, <3>4, BadWriteKeeps
  <2>. QED BY <1>2, <2>1, <2>2, WriteKinds
<1>. QED BY <1>1, <1>10, <1>11, <1>12 DEF KeptInv

LEMMA SaveMapIsKept ==
  ASSUME IdsInv, KeptInv, SaveMap
  PROVE  KeptInv'
<1>. DEFINE told == Synced(scene, paths.raw, terrain, scale)
            whole == LevelFile(told, "no")
            cuts == {LevelFile(told, cut) : cut \in Cuts}
<1>1. phase = "running" /\ UNCHANGED <<phase, terrain, options>>
  BY DEF SaveMap, Uses, Running, window
<1>2. PICK path : SaveLevelFile(path)
  BY DEF SaveMap
<1>3. PICK w \in Writes(whole, cuts) :
          /\ scene' = told /\ WriteOf("level", path, w) /\ dirty' = DirtyAfter(w)
          /\ w.reported => home' = [NoHome EXCEPT !.kind = "level", !.file = path]
          /\ ~w.reported => home' = home
  BY <1>2 DEF SaveLevelFile
<1>4. GoodDisk(disk) /\ told.objects = scene.objects
  BY SyncKeeps DEF IdsInv
<1>5. whole.cut = "no" /\ whole.objects = scene.objects
  BY <1>4 DEF LevelFile
<1>6. scene'.objects = scene.objects
  BY <1>3, <1>4
<1>. HIDE DEF told, whole, cuts
<1>7. w.reported => home'.kind = "level" /\ home'.file = path
  BY <1>3 DEF NoHome
<1>8. disk'.raw = disk.raw
     /\ (disk'.level = disk.level \/ (w.opened /\ disk'.level = Written(disk.level, path, w.content)))
     /\ (w.opened => disk'.level = Written(disk.level, path, w.content))
  BY <1>3, <1>4, WriteOutcome
<1>9. w.reported => w.opened
  BY <1>3, WriteKinds
<1>10. KnownHome(home', disk'.level)
  <2>1. path \in DOMAIN Written(disk.level, path, w.content)
       /\ DOMAIN disk.level \subseteq DOMAIN Written(disk.level, path, w.content)
    BY DEF Written
  <2>2. KnownHome(home, disk.level)
    BY DEF KeptInv
  <2>3. CASE w.reported
    BY <1>7, <1>8, <1>9, <2>1, <2>3 DEF KnownHome
  <2>4. CASE ~w.reported
    BY <1>3, <1>8, <2>1, <2>2, <2>4 DEF KnownHome
  <2>. QED BY <2>3, <2>4
<1>11. CleanKept'
  <2>1. CASE w.opened = TRUE /\ w.reported = TRUE /\ w.cut = FALSE /\ w.content = whole
    <3>1. disk'.level[path] = whole
      BY <1>8, <2>1 DEF Written
    <3>. QED BY <1>5, <1>6, <1>7, <2>1, <3>1 DEF CleanKept
  <2>2. CASE \/ w.opened = FALSE /\ w.reported = FALSE /\ w.cut = FALSE
             \/ w.opened = TRUE /\ w.cut = TRUE
    <3>1. home' = home \/ (w.cut /\ home'.file = path)
      BY <1>3, <1>7, <2>2
    <3>2. ~dirty' => ~dirty \/ (w.cut /\ home'.file = path)
      BY <1>3, <1>7, <2>2 DEF DirtyAfter
    <3>3. (~w.opened /\ ~w.cut) \/ (w.opened /\ w.cut)
      BY <2>2
    <3>4. CleanKept /\ KnownHome(home, disk.level)
      BY DEF KeptInv
    <3>. QED BY <1>1, <1>3, <1>4, <1>6, <3>1, <3>2, <3>3, <3>4, BadWriteKeeps
  <2>. QED BY <1>3, <2>1, <2>2, WriteKinds
<1>. QED BY <1>1, <1>8, <1>10, <1>11 DEF KeptInv

LEMMA FileStepIsKept ==
  ASSUME IdsInv, KeptInv, FileStep
  PROVE  KeptInv'
<1>1. ASSUME NEW path \in RawFiles, OpenRaw(path) PROVE KeptInv'
  BY <1>1, LoadRawIsKept DEF OpenRaw, KeptInv
<1>2. CASE ReloadRawWithManualSize
  <2>1. GoodFormat([options EXCEPT !.auto = FALSE])
    BY DEF KeptInv, GoodFormat
  <2>. QED BY <1>2, <2>1, LoadRawIsKept DEF ReloadRawWithManualSize
<1>. QED BY <1>1, <1>2, SaveRawIsKept, SaveMapIsKept DEF FileStep

LEMMA WindowStepIsKept ==
  ASSUME IdsInv, KeptInv, WindowStep \/ OptionEdit \/ UNCHANGED vars
  PROVE  KeptInv'
<1>1. ASSUME NEW size \in WindowSizes, ResizeWindow(size) PROVE KeptInv'
  BY <1>1, NothingStoredChanges DEF ResizeWindow, KeptInv, work, panel, stored
<1>2. CASE StartRenderer
  BY <1>2, NothingStoredChanges DEF StartRenderer, KeptInv, work, panel, stored
<1>3. CASE StartLevel
  <2>1. UNCHANGED <<disk, home, damaged>>
    BY <1>3 DEF StartLevel, stored
  <2>2. \/ CreatePreviewIslandLevel
        \/ phase' = "ended" /\ UNCHANGED <<scene, terrain, options, dirty>>
    BY <1>3 DEF StartLevel, work, panel
  <2>3. CASE CreatePreviewIslandLevel
    BY <2>1, <2>3, IslandIsKept
  <2>4. CASE phase' = "ended" /\ UNCHANGED <<scene, terrain, options, dirty>>
    BY <2>1, <2>4, NothingStoredChanges DEF KeptInv
  <2>. QED BY <2>2, <2>3, <2>4
<1>4. CASE Look
  BY <1>4, NothingStoredChanges DEF Look, KeptInv, work, panel, stored
<1>5. CASE CloseWindow
  BY <1>5, NothingStoredChanges DEF CloseWindow, KeptInv, work, panel, stored
<1>6. CASE EndProgram
  BY <1>6, NothingStoredChanges DEF EndProgram, KeptInv, work, panel, stored
<1>7. ASSUME NEW field \in DOMAIN TypedOptions, NEW value \in TypedOptions[field], TypeOption(field, value)
      PROVE  KeptInv'
  <2>1. options' = [options EXCEPT ![field] = value] /\ UNCHANGED <<phase, scene, terrain, dirty, disk, home, damaged>>
    BY <1>7 DEF TypeOption, window, work, stored
  <2>2. field = "format" => value \in Formats
    BY EditorAssumption
  <2>3. GoodFormat(options')
    BY <2>1, <2>2 DEF KeptInv, GoodFormat
  <2>. QED BY <2>1, <2>3, NothingStoredChanges
<1>8. ASSUME NEW path, TypeRawPath(path) PROVE KeptInv'
  BY <1>8, NothingStoredChanges DEF TypeRawPath, KeptInv, window, work, stored
<1>9. CASE DetectSize
  <2>1. options' = Detected(paths.raw, options) /\ UNCHANGED <<phase, scene, terrain, dirty, disk, home, damaged>>
    BY <1>9 DEF DetectSize, window, work, stored
  <2>2. GoodFormat(options')
    BY <2>1, DetectedKeepsFormat DEF KeptInv
  <2>. QED BY <2>1, <2>2, NothingStoredChanges
<1>10. CASE UNCHANGED vars
  BY <1>10, NothingStoredChanges DEF vars, KeptInv, window, work, panel, stored
<1>. QED BY <1>1, <1>2, <1>3, <1>4, <1>5, <1>6, <1>7, <1>8, <1>9, <1>10 DEF WindowStep, OptionEdit

EditorInv == IdsInv /\ ReopenInv /\ KeptInv

LEMMA EditorInvariant == Spec => []EditorInv
<1>1. Init => EditorInv
  <2>. SUFFICES ASSUME Init PROVE EditorInv
    OBVIOUS
  <2>1. GoodFormat(options)
    BY DEF Init, GoodFormat, Formats
  <2>2. RawFilesHoldBytes(disk.raw)
    BY EditorAssumption DEF Init, RawFilesHoldBytes, Bytes
  <2>3. KnownHome(home, disk.level) /\ phase # "running"
    BY DEF Init, NoHome, KnownHome
  <2>. QED BY <2>1, <2>2, <2>3, IdsAtFirst, ReopensAtFirst DEF EditorInv, KeptInv, CleanKept, Running
<1>2. EditorInv /\ [Next]_vars => EditorInv'
  <2>1. IdsInv /\ [Next]_vars => IdsInv'
    BY TerrainStepKeeps, SceneStepKeeps, FileStepKeeps, WindowStepKeeps DEF Next
  <2>2. IdsInv /\ ReopenInv /\ [Next]_vars => ReopenInv'
    BY TerrainStepReopens, SceneStepReopens, FileStepReopens, WindowStepReopens DEF Next
  <2>3. IdsInv /\ ReopenInv /\ KeptInv /\ [Next]_vars => KeptInv'
    BY TerrainStepIsKept, SceneStepIsKept, FileStepIsKept, WindowStepIsKept DEF Next
  <2>. QED BY <2>1, <2>2, <2>3 DEF EditorInv
<1>. QED BY <1>1, <1>2, PTL DEF Spec

\* A step after which the terrain is another one leaves the editor running.
LEMMA TerrainStaysWhole ==
  ASSUME EditorInv', [Next]_vars, terrain' # terrain
  PROVE  IsHeightmap(terrain')
<1>1. phase' = "running"
  <2>1. TerrainEdit \/ SceneEdit \/ OptionEdit \/ FileStep => phase = "running"
    BY DEF TerrainEdit, SceneEdit, OptionEdit, FileStep, NewIsland, CreateFlatLevel, Sculpt, TypeScale,
           SetTerrainImportScale, AddEditorObjectAtBrush, ChangeObject, DeleteSelected, Select, TypeOption,
           TypeRawPath, DetectSize, OpenRaw, SaveRawMap, ReloadRawWithManualSize, SaveMap, Edit, Uses, Running
  <2>2. TerrainEdit \/ SceneEdit \/ OptionEdit \/ FileStep => phase' = phase
    BY DEF TerrainEdit, SceneEdit, OptionEdit, FileStep, NewIsland, CreateFlatLevel, Sculpt, TypeScale,
           SetTerrainImportScale, AddEditorObjectAtBrush, ChangeObject, DeleteSelected, Select, TypeOption,
           TypeRawPath, DetectSize, OpenRaw, SaveRawMap, ReloadRawWithManualSize, SaveMap, LoadRawHeightmap, window
  <2>3. WindowStep => phase' = "running"
    BY DEF WindowStep, ResizeWindow, StartRenderer, StartLevel, Look, CloseWindow, EndProgram, work
  <2>. QED BY <2>1, <2>2, <2>3 DEF Next, vars, work
<1>. QED BY <1>1 DEF EditorInv, KeptInv

\* However often a write fails, is cut or is wrongly reported, and whatever
\* was edited, loaded or saved before: while the editor shows "Dirty:no",
\* opening the file of the last save or load gives the terrain as its format
\* can tell it, whatever its samples are, or the file holds every object as
\* it is, unless its own last write was cut (LevelEditor.cpp:925-1030,
\* Heightmap.cpp:80-250).
THEOREM CleanIsStored == Spec => []CleanMeansStored
<1>1. EditorInv => CleanMeansStored
  <2>. SUFFICES ASSUME EditorInv, Running, ~dirty, home.file \notin damaged, home.kind = "raw"
                PROVE  Gives(BytesOf(home.file), terrain, home.format)
    BY DEF EditorInv, KeptInv, CleanKept, CleanMeansStored
  <2>. DEFINE bytes == BytesOf(home.file)
              format == home.format
  <2>1. format \in Formats /\ (Saved(bytes, terrain, format) \/ Opened(bytes, terrain, format))
    BY DEF EditorInv, KeptInv, CleanKept
  <2>2. IsHeightmap(terrain)
    BY DEF EditorInv, KeptInv, Running
  <2>. HIDE DEF bytes, format
  <2>3. CASE Opened(bytes, terrain, format)
    BY <2>3 DEF Opened, Gives, bytes, format
  <2>4. CASE Saved(bytes, terrain, format)
    <3>1. RoundTrips(terrain)
      BY <2>2, TerrainRoundTrips
    <3>2. bytes = RawBytes(terrain, format)
      BY <2>4 DEF Saved
    <3>3. /\ LoadsRaw(bytes, terrain.width, terrain.height, format)
          /\ RawBytes(LoadedRaw(bytes, terrain.width, terrain.height, format), format) = bytes
      BY <2>1, <3>1, <3>2 DEF RoundTrips
    <3>. QED BY <3>2, <3>3 DEF Gives, bytes, format
  <2>. QED BY <2>1, <2>3, <2>4
<1>. QED BY <1>1, EditorInvariant, PTL

\* Every terrain the editor comes to hold can be saved in each of the four
\* formats and loaded again without a height moving by more than half a
\* level of the format, gives the same bytes when it is saved once more, and
\* a square one is recognised from the length of its file.
THEOREM TerrainsRoundTrip == Spec => RawRoundTrip
<1>1. EditorInv /\ EditorInv' /\ [Next]_vars => [terrain' # terrain => RoundTrips(terrain')]_vars
  <2>. SUFFICES ASSUME EditorInv, EditorInv', Next, terrain' # terrain PROVE RoundTrips(terrain')
    OBVIOUS
  <2>1. IsHeightmap(terrain')
    BY TerrainStaysWhole
  <2>. QED BY <2>1, TerrainRoundTrips
<1>. QED BY <1>1, EditorInvariant, PTL DEF Spec, RawRoundTrip

\* One stroke of the brush changes no height outside its circle, keeps every
\* height in range, moves heights only the way its mode says, and goes no
\* further than what it smooths or flattens towards, for a brush of any
\* size, strength and place and a terrain of any size.
THEOREM StrokesAreLocal == Spec => BrushIsLocal
<1>. DEFINE Shaped ==
        \A b \in Brushes : Sculpt(b) =>
            \A c \in DOMAIN terrain.values :
                LET old == terrain.values[c]
                    new == terrain'.values[c]
                    near == {terrain.values[d] : d \in Neighbours(terrain, c)}
                IN  /\ SquaredDistance(c, b.centre) > b.radius * b.radius => new = old
                    /\ b.mode = "Raise" => new >= old
                    /\ b.mode = "Lower" => new <= old
                    /\ b.mode = "Smooth" => Min(near) <= new /\ new <= Max(near)
                    /\ b.mode = "Flatten" => (old <= new /\ new <= b.flatten) \/ (b.flatten <= new /\ new <= old)
<1>1. EditorInv => Shaped
  <2>. SUFFICES ASSUME EditorInv, NEW b \in Brushes, Sculpt(b), NEW c \in DOMAIN terrain.values
                PROVE  LET old == terrain.values[c]
                           new == terrain'.values[c]
                           near == {terrain.values[d] : d \in Neighbours(terrain, c)}
                       IN  /\ SquaredDistance(c, b.centre) > b.radius * b.radius => new = old
                           /\ b.mode = "Raise" => new >= old
                           /\ b.mode = "Lower" => new <= old
                           /\ b.mode = "Smooth" => Min(near) <= new /\ new <= Max(near)
                           /\ b.mode = "Flatten" => (old <= new /\ new <= b.flatten)
                                                    \/ (b.flatten <= new /\ new <= old)
    OBVIOUS
  <2>1. b \in BrushTypes
    BY EditorAssumption DEF BrushTypes
  <2>2. phase = "running" /\ terrain' = Stroke(terrain, b)
    BY DEF Sculpt, Edit, Uses, Running, Stroke
  <2>3. SizedTerrain(terrain) /\ IsHeightmap(terrain)
    BY <2>2 DEF EditorInv, ReopenInv, KeptInv
  <2>. QED BY <2>1, <2>2, <2>3, StrokeIsLocal DEF SizedTerrain
<1>2. EditorInv' /\ [Next]_vars /\ terrain' # terrain => IsHeightmap(terrain')
  BY TerrainStaysWhole
<1>. QED BY <1>1, <1>2, EditorInvariant, PTL DEF Spec, BrushIsLocal
-----------------------------------------------------------------------------
(***************************************************************************)
(* Drawing: the batches of a list of vertices are the multiples of the     *)
(* buffer's whole primitives, which the loop's recursion cannot say for    *)
(* itself; a function that is given in closed form solves its equation,    *)
(* and the last offset at which another one differed would contradict it.  *)
(***************************************************************************)

\* As many vertices as a full batch has.
Full(primitive) == MaxDynamicVertices - (MaxDynamicVertices % primitive)

\* A batch is full while enough is left, and else as many whole primitives as
\* are left (Dx11LevelEditorRenderer.cpp:1333-1337).
LEMMA BatchIs ==
  ASSUME NEW p \in {2, 3}, NEW left \in Nat
  PROVE  /\ Full(p) \in Nat \ {0} /\ Full(p) <= MaxDynamicVertices /\ p <= Full(p) /\ Full(p) % p = 0
         /\ left >= Full(p) => BatchOf(left, p) = Full(p)
         /\ left < Full(p) => BatchOf(left, p) = left - (left % p)
         /\ BatchOf(left, p) \in 0 .. left /\ BatchOf(left, p) <= Full(p) /\ BatchOf(left, p) % p = 0
<1>1. MaxDynamicVertices \in Nat \ {0, 1, 2}
  BY DrawingAssumption
<1>2. CASE p = 2
  BY <1>1, <1>2 DEF Full, BatchOf
<1>3. CASE p = 3
  BY <1>1, <1>3 DEF Full, BatchOf
<1>. QED BY <1>2, <1>3

\* Multiples of a positive number: the difference of two is one, the next is
\* that much further, and below it there is only 0.
LEMMA Multiples ==
  ASSUME NEW b \in Nat \ {0}, NEW x \in Nat, x % b = 0
  PROVE  /\ (x + b) % b = 0
         /\ x # 0 => x >= b /\ (x - b) % b = 0
         /\ \A y \in Nat : y % b = 0 /\ x < y => x + b <= y /\ (y - x) % b = 0
<1>. b \in Int /\ b > 0 /\ x \in Int
  OBVIOUS
<1>1. PICK i \in Nat : x = b * i
  <2>1. PICK q \in Int : x = b * q
    <3>1. x \div b \in Int /\ x % b = x - b * (x \div b)
      BY DivBounds
    <3>. DEFINE q == x \div b
    <3>2. q \in Int /\ 0 = x - b * q
      BY <3>1
    <3>. HIDE DEF q
    <3>3. b * q \in Int
      BY <3>2
    <3>. QED BY <3>2, <3>3
  <2>2. q >= 0
    <3>1. CASE q < 0
      <4>1. b * q < 0
        BY <2>1, <3>1
      <4>. QED BY <2>1, <4>1
    <3>. QED BY <3>1
  <2>. QED BY <2>1, <2>2
<1>2. (x + b) % b = 0
  <2>1. x + b = b * (i + 1)
    BY <1>1
  <2>2. b * (i + 1) <= x + b /\ x + b < b * (i + 1) + b
    BY <2>1
  <2>3. (x + b) % b = (x + b) - b * (i + 1)
    <3>1. x + b \in Int /\ i + 1 \in Int
      OBVIOUS
    <3>. QED BY <2>2, <3>1, DivIs
  <2>. QED BY <2>1, <2>3
<1>3. ASSUME NEW y \in Nat, y % b = 0, x < y PROVE x + b <= y /\ (y - x) % b = 0
  <2>1. PICK j \in Int : y = b * j
    <3>1. y \div b \in Int /\ y = b * (y \div b)
      BY <1>3, DivBounds
    <3>. QED BY <3>1
  <2>2. j >= i + 1
    <3>1. CASE j <= i
      <4>1. PICK d \in Nat : i = j + d
        <5>1. i - j \in Nat /\ i = j + (i - j)
          BY <3>1
        <5>. QED BY <5>1
      <4>2. x = b * j + b * d /\ b * d \in Nat
        BY <1>1, <4>1
      <4>. QED BY <1>3, <2>1, <4>2
    <3>. QED BY <3>1
  <2>3. PICK e \in Nat : j = i + 1 + e
    <3>1. j - (i + 1) \in Nat /\ j = i + 1 + (j - (i + 1))
      BY <2>2
    <3>. QED BY <3>1
  <2>4. y = x + b + b * e /\ b * e \in Nat /\ y - x = b * (e + 1)
    BY <1>1, <2>1, <2>3
  <2>5. b * (e + 1) <= y - x /\ y - x < b * (e + 1) + b /\ y - x \in Int
    BY <2>4
  <2>6. (y - x) % b = (y - x) - b * (e + 1)
    <3>1. e + 1 \in Int
      OBVIOUS
    <3>. QED BY <2>5, <3>1, DivIs
  <2>. QED BY <2>4, <2>6
<1>4. 0 % b = 0
  <2>1. 0 % b = 0 - b * 0
    <3>1. b * 0 <= 0 /\ 0 < b * 0 + b /\ 0 \in Int
      OBVIOUS
    <3>. QED BY <3>1, DivIs
  <2>. QED BY <2>1
<1>5. x # 0 => x >= b /\ (x - b) % b = 0
  <2>1. SUFFICES ASSUME x # 0 PROVE x >= b /\ (x - b) % b = 0
    OBVIOUS
  <2>2. PICK k \in Nat : i = k + 1
    <3>1. i # 0
      BY <1>1, <2>1
    <3>2. i - 1 \in Nat /\ i = (i - 1) + 1
      BY <3>1
    <3>. QED BY <3>2
  <2>3. x - b = b * k /\ b * k \in Nat
    BY <1>1, <2>2
  <2>4. b * k <= x - b /\ x - b < b * k + b /\ x - b \in Int
    BY <2>3
  <2>5. (x - b) % b = (x - b) - b * k
    <3>1. k \in Int
      OBVIOUS
    <3>. QED BY <2>4, <3>1, DivIs
  <2>. QED BY <2>3, <2>5
<1>. QED BY <1>2, <1>3, <1>5

\* The batch that begins at x, and those that begin whole full batches after o.
Batch(n, p, x) == [first |-> x, count |-> BatchOf(n - x, p)]
Beginnings(n, p, o) == {x \in o .. n : (x - o) % Full(p) = 0 /\ BatchOf(n - x, p) # 0}
Sent(n, p, o) == {Batch(n, p, x) : x \in Beginnings(n, p, o)}

\* Nothing begins once fewer vertices than a primitive are left.
LEMMA NoneLeft ==
  ASSUME NEW p \in {2, 3}, NEW n \in Nat, NEW o \in 0 .. n, BatchOf(n - o, p) = 0
  PROVE  Beginnings(n, p, o) = {}
<1>1. n - o < Full(p)
  <2>1. n - o \in Nat
    OBVIOUS
  <2>2. Full(p) \in Nat \ {0}
    BY BatchIs
  <2>3. n - o >= Full(p) => BatchOf(n - o, p) = Full(p)
    BY <2>1, BatchIs
  <2>. QED BY <2>1, <2>2, <2>3
<1>2. ASSUME NEW x \in o .. n, (x - o) % Full(p) = 0 PROVE x = o
  <2>1. Full(p) \in Nat \ {0}
    BY BatchIs
  <2>2. x - o \in Nat /\ x - o < Full(p)
    BY <1>1, <2>1
  <2>3. 0 \in Nat /\ 0 % Full(p) = 0
    BY <2>1
  <2>4. 0 < x - o => 0 + Full(p) <= x - o
    BY <1>2, <2>1, <2>2, <2>3, Multiples
  <2>. QED BY <2>1, <2>2, <2>4
<1>. QED BY <1>2 DEF Beginnings

\* A full batch is followed by what begins where it ends.
LEMMA FullFirst ==
  ASSUME NEW p \in {2, 3}, NEW n \in Nat, NEW o \in 0 .. n, n - o >= Full(p)
  PROVE  /\ BatchOf(n - o, p) = Full(p) /\ o + Full(p) \in 0 .. n
         /\ Beginnings(n, p, o) = {o} \cup Beginnings(n, p, o + Full(p))
<1>. DEFINE B == Full(p)
<1>1. B \in Nat \ {0} /\ BatchOf(n - o, p) = B
  BY BatchIs
<1>. HIDE DEF B
<1>2. n - o >= B
  BY DEF B
<1>3. o + B \in 0 .. n /\ 0 % B = 0
  BY <1>1, <1>2
<1>4. ASSUME NEW x \in o .. n, (x - o) % B = 0, x # o
      PROVE  x \in o + B .. n /\ (x - (o + B)) % B = 0
  <2>1. x - o \in Nat /\ x - o # 0
    BY <1>4
  <2>2. x - o >= B /\ (x - o - B) % B = 0
    BY <1>1, <1>4, <2>1, Multiples
  <2>3. x - (o + B) = x - o - B
    BY <1>1
  <2>. QED BY <1>1, <2>2, <2>3
<1>5. ASSUME NEW x \in o + B .. n, (x - (o + B)) % B = 0
      PROVE  x \in o .. n /\ (x - o) % B = 0
  <2>1. x - (o + B) \in Nat
    BY <1>1
  <2>2. (x - (o + B) + B) % B = 0
    BY <1>1, <1>5, <2>1, Multiples
  <2>3. x - (o + B) + B = x - o
    BY <1>1
  <2>. QED BY <1>1, <2>2, <2>3
<1>6. o \in o .. n /\ (o - o) % B = 0 /\ BatchOf(n - o, p) # 0
  <2>1. o - o = 0
    OBVIOUS
  <2>. QED BY <1>1, <1>3, <2>1
<1>7. Beginnings(n, p, o) = {o} \cup Beginnings(n, p, o + B)
  <2>1. Beginnings(n, p, o) = {x \in o .. n : (x - o) % B = 0 /\ BatchOf(n - x, p) # 0}
    BY DEF Beginnings, B
  <2>2. Beginnings(n, p, o + B) = {x \in o + B .. n : (x - (o + B)) % B = 0 /\ BatchOf(n - x, p) # 0}
    BY DEF Beginnings, B
  <2>. QED BY <1>4, <1>5, <1>6, <2>1, <2>2
<1>. QED BY <1>1, <1>3, <1>7 DEF B

\* A batch that is not full is the last one.
LEMMA LastAlone ==
  ASSUME NEW p \in {2, 3}, NEW n \in Nat, NEW o \in 0 .. n, n - o < Full(p), BatchOf(n - o, p) # 0
  PROVE  /\ o + BatchOf(n - o, p) \in 0 .. n
         /\ Beginnings(n, p, o) = {o} /\ Beginnings(n, p, o + BatchOf(n - o, p)) = {}
<1>. DEFINE c == BatchOf(n - o, p)
<1>1. n - o \in Nat /\ c = (n - o) - ((n - o) % p) /\ c \in 0 .. n - o
  <2>1. n - o \in Nat
    OBVIOUS
  <2>. QED BY <2>1, BatchIs
<1>2. n - (o + c) = (n - o) % p /\ o + c \in 0 .. n /\ n - (o + c) \in 0 .. p - 1
  <2>1. CASE p = 2
    BY <1>1, <2>1
  <2>2. CASE p = 3
    BY <1>1, <2>2
  <2>. QED BY <2>1, <2>2
<1>3. BatchOf(n - (o + c), p) = 0
  <2>. DEFINE l == n - (o + c)
  <2>1. p <= Full(p) /\ Full(p) \in Nat
    BY BatchIs
  <2>2. l \in Nat /\ l < p /\ l < Full(p)
    BY <1>2, <2>1
  <2>3. BatchOf(l, p) = l - (l % p)
    BY <2>2, BatchIs
  <2>. HIDE DEF l
  <2>4. l % p = l
    <3>1. CASE p = 2
      BY <2>2, <3>1
    <3>2. CASE p = 3
      BY <2>2, <3>2
    <3>. QED BY <3>1, <3>2
  <2>5. BatchOf(l, p) = 0
    BY <2>2, <2>3, <2>4
  <2>. QED BY <2>5 DEF l
<1>4. Beginnings(n, p, o + c) = {}
  BY <1>2, <1>3, NoneLeft
<1>5. Full(p) \in Nat \ {0}
  BY BatchIs
<1>6. ASSUME NEW x \in o .. n, (x - o) % Full(p) = 0 PROVE x = o
  <2>1. x - o \in Nat /\ x - o < Full(p)
    BY <1>5
  <2>2. 0 \in Nat /\ 0 % Full(p) = 0
    BY <1>5
  <2>3. 0 < x - o => 0 + Full(p) <= x - o
    BY <1>5, <1>6, <2>1, <2>2, Multiples
  <2>. QED BY <1>5, <2>1, <2>3
<1>7. o \in o .. n /\ (o - o) % Full(p) = 0
  <2>1. o - o = 0 /\ 0 % Full(p) = 0
    BY <1>5
  <2>. QED BY <2>1
<1>8. Beginnings(n, p, o) = {o}
  BY <1>6, <1>7 DEF Beginnings
<1>. QED BY <1>2, <1>4, <1>8

\* What is sent from an offset on solves the loop's equation.
LEMMA SentSolves ==
  ASSUME NEW p \in {2, 3}, NEW n \in Nat, NEW o \in 0 .. n
  PROVE  /\ o + BatchOf(n - o, p) \in 0 .. n
         /\ BatchOf(n - o, p) = 0 => Sent(n, p, o) = {}
         /\ BatchOf(n - o, p) # 0
            => Sent(n, p, o) = {Batch(n, p, o)} \cup Sent(n, p, o + BatchOf(n - o, p))
<1>1. n - o \in Nat /\ Full(p) \in Nat
  BY BatchIs
<1>2. CASE BatchOf(n - o, p) = 0
  <2>1. Beginnings(n, p, o) = {}
    BY <1>2, NoneLeft
  <2>. QED BY <1>2, <2>1 DEF Sent
<1>3. CASE n - o >= Full(p)
  <2>1. /\ BatchOf(n - o, p) = Full(p) /\ o + Full(p) \in 0 .. n /\ Full(p) # 0
        /\ Beginnings(n, p, o) = {o} \cup Beginnings(n, p, o + Full(p))
    BY ZenonT(60), <1>3, FullFirst, BatchIs
  <2>2. Sent(n, p, o) = {Batch(n, p, x) : x \in {o} \cup Beginnings(n, p, o + Full(p))}
    BY <2>1 DEF Sent
  <2>3. Sent(n, p, o) = {Batch(n, p, o)} \cup Sent(n, p, o + Full(p))
    BY <2>2 DEF Sent
  <2>. QED BY <2>1, <2>3
<1>4. CASE n - o < Full(p) /\ BatchOf(n - o, p) # 0
  BY <1>4, LastAlone DEF Sent
<1>. QED BY <1>1, <1>2, <1>3, <1>4

\* UploadAndDraw's loop goes through exactly that (Dx11LevelEditorRenderer.cpp:1330-1378).
LEMMA BatchesAre ==
  ASSUME NEW p \in {2, 3}, NEW n \in Nat
  PROVE  Batches(n, p) = Sent(n, p, 0)
<1>. DEFINE Solves(f) == f = [o \in 0 .. n |-> IF Batch(n, p, o).count = 0 THEN {}
                                               ELSE {Batch(n, p, o)} \cup f[o + Batch(n, p, o).count]]
            g == [o \in 0 .. n |-> Sent(n, p, o)]
            h == CHOOSE f : Solves(f)
<1>1. Batches(n, p) = h[0]
  BY DEF Batches, Batch
<1>2. \A o \in 0 .. n : Batch(n, p, o).count = BatchOf(n - o, p)
  BY DEF Batch
<1>3. Solves(g)
  <2>1. ASSUME NEW o \in 0 .. n
        PROVE  g[o] = IF Batch(n, p, o).count = 0 THEN {} ELSE {Batch(n, p, o)} \cup g[o + Batch(n, p, o).count]
    <3>1. g[o] = Sent(n, p, o) /\ g[o + BatchOf(n - o, p)] = Sent(n, p, o + BatchOf(n - o, p))
      BY SentSolves
    <3>2. Batch(n, p, o).count = BatchOf(n - o, p)
      BY <1>2
    <3>3. /\ BatchOf(n - o, p) = 0 => Sent(n, p, o) = {}
          /\ BatchOf(n - o, p) # 0
             => Sent(n, p, o) = {Batch(n, p, o)} \cup Sent(n, p, o + BatchOf(n - o, p))
      BY SentSolves
    <3>. HIDE DEF g
    <3>. QED BY <3>1, <3>2, <3>3
  <2>. QED BY <2>1
<1>4. Solves(h)
  BY <1>3
<1>. HIDE DEF g, h
<1>5. ASSUME NEW o \in 0 .. n
      PROVE  /\ BatchOf(n - o, p) = 0 => g[o] = {} /\ h[o] = {}
             /\ BatchOf(n - o, p) # 0
                => /\ g[o] = {Batch(n, p, o)} \cup g[o + BatchOf(n - o, p)]
                   /\ h[o] = {Batch(n, p, o)} \cup h[o + BatchOf(n - o, p)]
  BY ZenonT(60), <1>2, <1>3, <1>4
<1>. DEFINE D == {o \in 0 .. n : g[o] # h[o]}
<1>6. D = {}
  <2>1. SUFFICES ASSUME D # {} PROVE FALSE
    OBVIOUS
  <2>2. PICK o \in D : \A x \in D : x <= o
    BY <2>1, MaxOfBounded
  <2>3. o \in 0 .. n /\ g[o] # h[o]
    OBVIOUS
  <2>4. BatchOf(n - o, p) # 0
    BY <1>5, <2>3
  <2>5. o \in 0 .. n
    BY <2>3
  <2>. HIDE DEF D
  <2>6. n - o \in Nat
    BY <2>5
  <2>7. o + BatchOf(n - o, p) \in 0 .. n
    BY <2>5, SentSolves
  <2>8. n - o \in Nat /\ o + BatchOf(n - o, p) \in 0 .. n
    BY <2>6, <2>7
  <2>9. BatchOf(n - o, p) \in 0 .. n - o
    BY <2>8, BatchIs
  <2>10. o + BatchOf(n - o, p) \notin D
    BY <2>2, <2>3, <2>4, <2>9
  <2>11. g[o + BatchOf(n - o, p)] = h[o + BatchOf(n - o, p)]
    BY <2>8, <2>10 DEF D
  <2>. QED BY ZenonT(60), <1>5, <2>3, <2>4, <2>11
<1>7. g[0] = h[0]
  BY <1>6
<1>. QED BY <1>1, <1>7 DEF g

\* A multiple of a full batch is a multiple of a primitive.
LEMMA WholePrimitives ==
  ASSUME NEW p \in {2, 3}, NEW x \in Nat, x % Full(p) = 0
  PROVE  x % p = 0
<1>1. Full(p) \in Nat \ {0} /\ Full(p) % p = 0
  BY BatchIs
<1>. DEFINE b == Full(p)
<1>2. PICK i \in Int : x = b * i
  <2>1. x \div b \in Int /\ x % b = x - b * (x \div b)
    BY <1>1, DivBounds
  <2>. DEFINE q == x \div b
  <2>2. q \in Int /\ 0 = x - b * q
    BY <2>1
  <2>. HIDE DEF q
  <2>. HIDE DEF b
  <2>3. b * q \in Int
    BY <1>1, <2>2 DEF b
  <2>. QED BY <2>2, <2>3
<1>. HIDE DEF b
<1>3. b \in Nat /\ b % p = 0
  BY <1>1 DEF b
<1>4. PICK c \in Int : b = p * c
  <2>1. CASE p = 2
    BY <1>3, <2>1
  <2>2. CASE p = 3
    BY <1>3, <2>2
  <2>. QED BY <2>1, <2>2
<1>5. PICK d \in Int : d = c * i
  OBVIOUS
<1>6. x = p * d
  <2>1. CASE p = 2
    BY <1>2, <1>4, <1>5, <2>1
  <2>2. CASE p = 3
    BY <1>2, <1>4, <1>5, <2>2
  <2>. QED BY <2>1, <2>2
<1>7. CASE p = 2
  BY <1>6, <1>7
<1>8. CASE p = 3
  BY <1>6, <1>8
<1>. QED BY <1>7, <1>8

\* Where a list of whole primitives is uploaded, every batch but the last is
\* full, and each begins where another ends; so it is with those before the
\* batch whose upload fails.
LEMMA WholeListIsSent ==
  ASSUME NEW p \in {2, 3}, NEW list, list.vertices \in Nat, list.vertices % p = 0, list.primitive = p
  PROVE  \A upload \in UploadAndDraw(list) : UploadsOnce(upload, list)
<1>. DEFINE n == list.vertices
            b == Full(p)
            X == {x \in 0 .. n : x % b = 0 /\ x # n}
            count(x) == BatchOf(n - x, p)
            sent == Batches(n, p)
<1>1. b \in Nat \ {0} /\ b % p = 0 /\ b <= MaxDynamicVertices /\ n \in Nat /\ n % p = 0
  BY BatchIs
<1>2. ASSUME NEW x \in 0 .. n, x % b = 0
      PROVE  /\ n - x >= b => count(x) = b
             /\ n - x < b => count(x) = n - x
             /\ x # n <=> count(x) # 0
  <2>1. x % p = 0 /\ n - x \in Nat
    BY <1>2, WholePrimitives
  <2>2. (n - x) % p = 0
    <3>. HIDE DEF n
    <3>1. n \in Nat /\ x \in Nat /\ n % p = 0 /\ x % p = 0
      BY <1>1, <1>2, <2>1
    <3>2. CASE p = 2
      BY <3>1, <3>2
    <3>3. CASE p = 3
      BY <3>1, <3>3
    <3>. QED BY <3>2, <3>3
  <2>3. /\ n - x >= b => count(x) = b
        /\ n - x < b => count(x) = (n - x) - ((n - x) % p)
    BY <2>1, BatchIs
  <2>4. x \in 0 .. n
    OBVIOUS
  <2>. HIDE DEF n, b, count
  <2>5. /\ n - x >= b => count(x) = b
        /\ n - x < b => count(x) = n - x
    <3>1. n - x \in Nat /\ (n - x) - 0 = n - x
      BY <2>1
    <3>. QED BY <2>2, <2>3, <3>1
  <2>6. b \in Nat \ {0} /\ n \in Nat
    BY <1>1
  <2>. QED BY <2>4, <2>5, <2>6
<1>3. sent = {Batch(n, p, x) : x \in X}
  <2>1. sent = Sent(n, p, 0)
    BY BatchesAre
  <2>2. Beginnings(n, p, 0) = {x \in 0 .. n : x % b = 0 /\ count(x) # 0}
    <3>1. \A x \in 0 .. n : x - 0 = x
      OBVIOUS
    <3>. QED BY <3>1 DEF Beginnings
  <2>3. Beginnings(n, p, 0) = X
    BY <1>2, <2>2
  <2>. QED BY <2>1, <2>3 DEF Sent
<1>4. \A x \in X : Batch(n, p, x).first = x /\ Batch(n, p, x).count = count(x)
  BY DEF Batch
<1>5. \A x \in X : /\ x \in 0 .. n - 1 /\ x % b = 0 /\ count(x) \in Nat
                   /\ n - x >= b => count(x) = b
                   /\ n - x < b => count(x) = n - x
                   /\ count(x) <= b /\ count(x) % p = 0
  <2>. SUFFICES ASSUME NEW x \in X
                PROVE  /\ x \in 0 .. n - 1 /\ x % b = 0 /\ count(x) \in Nat
                       /\ n - x >= b => count(x) = b
                       /\ n - x < b => count(x) = n - x
                       /\ count(x) <= b /\ count(x) % p = 0
    OBVIOUS
  <2>1. x \in 0 .. n /\ x % b = 0 /\ x # n
    OBVIOUS
  <2>2. n - x \in Nat
    BY <2>1
  <2>3. count(x) \in 0 .. n - x /\ count(x) <= b /\ count(x) % p = 0
    BY <2>2, BatchIs
  <2>4. /\ n - x >= b => count(x) = b
        /\ n - x < b => count(x) = n - x
    BY <1>2, <2>1
  <2>5. x \in 0 .. n - 1
    BY <1>1, <2>1
  <2>. QED BY <2>1, <2>2, <2>3, <2>4, <2>5
<1>6. {c.first : c \in sent} = X /\ {End(c) : c \in sent} = {x + count(x) : x \in X}
  BY <1>3, <1>4 DEF End
<1>7. ASSUME NEW x \in X PROVE x + b \in X \/ x + count(x) = n
  <2>1. (x + b) % b = 0
    BY <1>1, <1>5, Multiples
  <2>2. /\ x \in 0 .. n - 1 /\ n \in Nat /\ b \in Nat \ {0}
        /\ n - x >= b => count(x) = b
        /\ n - x < b => count(x) = n - x
    BY <1>1, <1>5
  <2>. HIDE DEF n, b, count
  <2>3. CASE n - x <= b
    <3>1. count(x) = n - x
      BY <2>2, <2>3
    <3>. QED BY <2>2, <3>1
  <2>4. CASE n - x > b
    <3>1. x + b \in 0 .. n /\ x + b # n
      BY <2>2, <2>4
    <3>. QED BY <2>1, <3>1
  <2>. QED BY <2>2, <2>3, <2>4
<1>8. ASSUME NEW x \in X, x # 0 PROVE x - b \in X /\ (x - b) + count(x - b) = x
  <2>1. x \in Nat /\ x % b = 0
    BY <1>5
  <2>2. x >= b /\ (x - b) % b = 0
    BY <1>1, <1>8, <2>1, Multiples
  <2>3. x - b \in X
    BY <1>1, <1>5, <2>2
  <2>4. n - (x - b) >= b
    BY <1>1, <1>5
  <2>. QED BY <1>1, <1>5, <2>1, <2>3, <2>4
<1>9. n # 0 => 0 \in X
  BY <1>1
<1>10. n # 0 => \E x \in X : x + count(x) = n
  <2>1. SUFFICES ASSUME n # 0 PROVE \E x \in X : x + count(x) = n
    OBVIOUS
  <2>2. PICK x \in X : \A y \in X : y <= x
    <3>1. X \in SUBSET (0 .. n) /\ X # {}
      BY <1>9, <2>1
    <3>. HIDE DEF X
    <3>. QED BY <1>1, <3>1, MaxOfBounded
  <2>3. x + b \notin X
    BY <1>1, <1>5, <2>2
  <2>. QED BY <1>7, <2>3
<1>11. ASSUME NEW x \in X PROVE x + count(x) \in X \cup {n}
  <2>1. /\ x \in 0 .. n - 1 /\ n \in Nat /\ b \in Nat \ {0}
        /\ n - x >= b => count(x) = b
        /\ n - x < b => count(x) = n - x
    BY <1>1, <1>5
  <2>2. x + b \in X \/ x + count(x) = n
    BY <1>7
  <2>. HIDE DEF X, n, b, count
  <2>. QED BY <2>1, <2>2
<1>12. ASSUME NEW x \in X, NEW y \in X, x < y PROVE x + count(x) <= y
  <2>1. x \in Nat /\ y \in Nat /\ x % b = 0 /\ y % b = 0
    BY <1>5
  <2>2. x + b <= y
    BY <1>1, <1>12, <2>1, Multiples
  <2>. QED BY <1>1, <1>5, <2>2
<1>. HIDE DEF X, count, sent, b
<1>13. X \cup {n} = {0} \cup {x + count(x) : x \in X}
  BY <1>8, <1>9, <1>10, <1>11
<1>14. ASSUME NEW c \in sent, NEW d \in sent PROVE c = d \/ End(c) <= d.first \/ End(d) <= c.first
  <2>1. PICK x \in X : c = Batch(n, p, x)
    BY <1>3
  <2>2. PICK y \in X : d = Batch(n, p, y)
    BY <1>3
  <2>3. c.first = x /\ End(c) = x + count(x) /\ d.first = y /\ End(d) = y + count(y)
    BY <1>4, <2>1, <2>2 DEF End
  <2>4. x = y \/ x < y \/ y < x
    BY <1>5
  <2>. QED BY <1>12, <2>1, <2>2, <2>3, <2>4
<1>15. ASSUME NEW c \in sent PROVE c.count <= MaxDynamicVertices /\ c.count % p = 0
  <2>1. PICK x \in X : c = Batch(n, p, x)
    BY <1>3
  <2>2. c.count = count(x)
    BY <1>4, <2>1
  <2>3. count(x) \in Nat /\ count(x) <= b /\ count(x) % p = 0
    BY <1>5
  <2>4. b \in Nat /\ b <= MaxDynamicVertices /\ MaxDynamicVertices \in Nat
    BY <1>1, DrawingAssumption
  <2>. QED BY <2>2, <2>3, <2>4
<1>16. UploadsOnce([sent |-> sent, failed |-> FALSE], list)
  <2>1. n \in {0} \cup {End(c) : c \in sent}
    BY <1>6, <1>13
  <2>2. {c.first : c \in sent} \cup {n} = {0} \cup {End(c) : c \in sent}
    BY <1>6, <1>13
  <2>. QED BY <1>14, <1>15, <2>1, <2>2 DEF UploadsOnce
<1>17. ASSUME NEW c \in sent
       PROVE  UploadsOnce([sent |-> {d \in sent : d.first < c.first}, failed |-> TRUE], list)
  <2>. DEFINE P == {d \in sent : d.first < c.first}
              y == c.first
              Y == {x \in X : x < y}
  <2>1. y \in X
    BY <1>3, <1>4
  <2>2. {d.first : d \in P} = Y /\ {End(d) : d \in P} = {x + count(x) : x \in Y}
    BY <1>3, <1>4 DEF End
  <2>. HIDE DEF y, P
  <2>3. y \in 0 .. n - 1 /\ n \in Nat /\ n # 0
    BY <1>1, <1>5, <2>1
  <2>4. ASSUME NEW z \in Y \cup {y}, z # 0 PROVE z \in {x + count(x) : x \in Y}
    <3>1. z \in X /\ z <= y /\ z \in Nat
      BY <1>5, <2>1, <2>3
    <3>2. z - b \in X /\ (z - b) + count(z - b) = z
      BY <1>8, <2>4, <3>1
    <3>3. z - b < y
      BY <1>1, <2>3, <3>1
    <3>. QED BY <3>2, <3>3
  <2>5. ASSUME NEW x \in Y PROVE x + count(x) \in Y \cup {y}
    <3>1. x + count(x) \in X \cup {n} /\ x + count(x) <= y
      BY <1>11, <1>12, <2>1
    <3>2. x + count(x) \in X
      BY <2>3, <3>1
    <3>3. x + count(x) \in Nat
      BY <1>5, <3>2
    <3>. QED BY <2>3, <3>1, <3>2, <3>3
  <2>6. 0 \in Y \cup {y}
    BY <1>9, <2>3
  <2>7. Y \cup {y} = {0} \cup {x + count(x) : x \in Y}
    BY <2>4, <2>5, <2>6
  <2>. HIDE DEF Y
  <2>8. {d.first : d \in P} \cup {y} = {0} \cup {End(d) : d \in P} /\ y \in {0} \cup {End(d) : d \in P}
    BY <2>2, <2>7
  <2>9. \A d \in P : d \in sent
    BY DEF P
  <2>10. UploadsOnce([sent |-> P, failed |-> TRUE], list)
    BY <1>14, <1>15, <2>8, <2>9 DEF UploadsOnce
  <2>. QED BY <2>10 DEF P
<1>. QED BY <1>16, <1>17 DEF UploadAndDraw, sent

\* The terrain is drawn to within a step of its far edge
\* (Dx11LevelEditorRenderer.cpp:325-383).
LEMMA EdgeIsReached ==
  ASSUME NEW side \in Nat \ {0}, NEW step \in Nat \ {0}
  PROVE  side - 1 - DrawnEdge(side, step) \in 0 .. step - 1
<1>. DEFINE T == {0} \cup {x + step : x \in Starts(side, step)}
            m == Max(T)
<1>1. T \in SUBSET (0 .. side - 1) /\ T # {}
  BY DEF Starts
<1>2. m \in T /\ \A x \in T : x <= m
  <2>1. side - 1 \in Nat
    OBVIOUS
  <2>. HIDE DEF T
  <2>. QED BY <1>1, <2>1, MaxOfBounded
<1>3. m \in 0 .. side - 1
  BY <1>1, <1>2
<1>4. \A x \in T : x % step = 0
  <2>1. 0 % step = 0
    OBVIOUS
  <2>2. ASSUME NEW x \in Starts(side, step) PROVE (x + step) % step = 0
    <3>1. x \in Nat /\ x % step = 0
      BY DEF Starts
    <3>. QED BY <3>1, Multiples
  <2>. QED BY <2>1, <2>2
<1>. HIDE DEF m
<1>5. side - 1 - m < step
  <2>1. SUFFICES ASSUME side - 1 - m >= step PROVE FALSE
    BY <1>3
  <2>2. m \in Starts(side, step)
    <3>1. m % step = 0
      BY <1>2, <1>4
    <3>2. m \in 0 .. side - step - 1
      BY <1>3, <2>1
    <3>. QED BY <3>1, <3>2 DEF Starts
  <2>3. m + step \in T
    BY <2>2
  <2>4. m + step <= m
    BY <1>2, <2>3
  <2>. QED BY <1>3, <2>4
<1>6. DrawnEdge(side, step) = m
  BY DEF DrawnEdge, m
<1>. QED BY <1>3, <1>5, <1>6

\* A step is at least one cell (Dx11LevelEditorRenderer.cpp:317-323).
LEMMA StepIsPositive ==
  ASSUME NEW width \in Nat, NEW height \in Nat, NEW cells \in Nat
  PROVE  CalculateRenderStep(width, height, cells) \in Nat \ {0}
<1>1. Clamped(cells) \in Nat \ {0}
  BY DrawingAssumption DEF Clamped
<1>2. Larger(width, height) \in Nat
  BY DEF Larger
<1>. DEFINE a == Larger(width, height)
            b == Clamped(cells)
<1>. HIDE DEF a, b
<1>3. a \in Nat /\ b \in Nat \ {0}
  BY <1>1, <1>2 DEF a, b
<1>4. a \div b \in Int
  BY <1>3
<1>. QED BY <1>4 DEF CalculateRenderStep, Larger, a, b

\* The lists of a frame hold whole primitives: triangles of three vertices,
\* lines of two (Dx11LevelEditorRenderer.cpp:325-953).
LEMMA ListsAreWhole ==
  ASSUME NEW m, NEW objects, NEW step \in Nat \ {0}, NEW shown,
         m.width \in Nat, m.height \in Nat, IsFiniteSet(objects),
         NEW list \in Render(m, objects, step, shown)
  PROVE  list.primitive \in {2, 3} /\ list.vertices \in Nat /\ list.vertices % list.primitive = 0
<1>1. ASSUME NEW side \in Nat PROVE Cardinality(Starts(side, step)) \in Nat
  <2>1. IsFiniteSet(0 .. side - step - 1)
    BY FS_Interval
  <2>2. IsFiniteSet(Starts(side, step))
    BY <2>1, FS_Subset DEF Starts
  <2>. QED BY <2>2, FS_CardinalityType
<1>2. PICK cells \in Nat : cells = TerrainCells(m.width, m.height, step)
  <2>. DEFINE i == Cardinality(Starts(m.width, step))
              j == Cardinality(Starts(m.height, step))
  <2>1. i \in Nat /\ j \in Nat
    BY <1>1
  <2>. HIDE DEF i, j
  <2>2. i * j \in Nat
    BY <2>1
  <2>. QED BY <2>2 DEF TerrainCells, i, j
<1>3. PICK water \in Nat : water = Cardinality(WaterCells(m))
  <2>1. IsFiniteSet(0 .. WaterGrid - 1)
    BY DrawingAssumption, FS_Interval
  <2>2. IsFiniteSet((0 .. WaterGrid - 1) \X (0 .. WaterGrid - 1))
    BY <2>1, FS_Product
  <2>3. IsFiniteSet(WaterCells(m))
    BY <2>2, FS_Subset DEF WaterCells
  <2>. QED BY <2>3, FS_CardinalityType
<1>4. PICK trees \in Nat, boxes \in Nat : SolidVertices(objects) = 54 * trees + 36 * boxes
  <2>. DEFINE s == {o \in Solids(objects) : o.type = "speedtree_proxy"}
  <2>1. IsFiniteSet(s) /\ IsFiniteSet(Solids(objects) \ s)
    BY FS_Subset DEF Solids
  <2>2. Cardinality(s) \in Nat /\ Cardinality(Solids(objects) \ s) \in Nat
    BY <2>1, FS_CardinalityType
  <2>. QED BY <2>2 DEF SolidVertices, TreeVertices, BoxVertices
<1>5. PICK seen \in Nat : seen = Cardinality({o \in objects : o.visible})
  <2>1. IsFiniteSet({o \in objects : o.visible})
    BY FS_Subset
  <2>. QED BY <2>1, FS_CardinalityType
<1>6. PICK t \in Nat : TerrainTriangles(m.width, m.height, step) = 6 * t
  BY <1>2 DEF TerrainTriangles
<1>7. PICK w \in Nat : WaterTriangles(m, shown.water) = 6 * w
  BY <1>3 DEF WaterTriangles
<1>8. PICK l \in Nat : TerrainLines(m.width, m.height, step, shown.wireframe) = 4 * l
  BY <1>2 DEF TerrainLines
<1>9. PICK g \in Nat : GridLines(shown.grid) = 2 * g
  BY DEF GridLines
<1>10. PICK r \in Nat : BrushLines(shown.brush) = 2 * r
  BY DEF BrushLines
<1>11. PICK x \in Nat : BoxLines(objects, shown.boxes) = 26 * x
  BY <1>5 DEF BoxLines
<1>12. CASE list = [vertices |-> TerrainTriangles(m.width, m.height, step) + WaterTriangles(m, shown.water)
                                 + SolidVertices(objects),
                    primitive |-> 3]
  <2>1. list.vertices = 6 * t + 6 * w + (54 * trees + 36 * boxes) /\ list.primitive = 3
    BY <1>4, <1>6, <1>7, <1>12
  <2>. QED BY <2>1
<1>13. CASE list = [vertices |-> TerrainLines(m.width, m.height, step, shown.wireframe) + GridLines(shown.grid)
                                 + BrushLines(shown.brush) + BoxLines(objects, shown.boxes),
                    primitive |-> 2]
  <2>1. list.vertices = 4 * l + 2 * g + 2 * r + 26 * x /\ list.primitive = 2
    BY <1>8, <1>9, <1>10, <1>11, <1>13
  <2>. QED BY <2>1
<1>. QED BY <1>12, <1>13 DEF Render

\* Whatever the window is asked to show of a terrain of any size and of any
\* set of objects, the ground is drawn to within a step of its far edges, and
\* the buffer of the card is given every vertex once, or those before the
\* batch whose upload fails, in batches that fit and cut no triangle and no
\* line (Dx11LevelEditorRenderer.cpp:317-383, 1125-1153, 1317-1378).
THEOREM EverythingIsDrawn == Spec => []DrawsEverything
<1>1. EditorInv => DrawsEverything
  <2>1. ASSUME EditorInv, Running, NEW cells \in MinCells .. MaxCells, NEW step,
               step = CalculateRenderStep(terrain.width, terrain.height, cells)
        PROVE  /\ \A side \in {terrain.width, terrain.height} : side - 1 - DrawnEdge(side, step) \in 0 .. step - 1
               /\ \A shown \in Views : \A list \in Render(terrain, scene.objects, step, shown) :
                      \A upload \in UploadAndDraw(list) : UploadsOnce(upload, list)
    <3>1. terrain.width \in Nat \ {0} /\ terrain.height \in Nat \ {0} /\ IsFiniteSet(scene.objects)
      BY <2>1 DEF EditorInv, ReopenInv, KeptInv, Running, IsHeightmap, ValidSize, WholeObjects
    <3>2. cells \in Nat
      BY DrawingAssumption
    <3>3. step \in Nat \ {0}
      BY <2>1, <3>1, <3>2, StepIsPositive
    <3>4. \A side \in {terrain.width, terrain.height} : side - 1 - DrawnEdge(side, step) \in 0 .. step - 1
      BY <3>1, <3>3, EdgeIsReached
    <3>5. ASSUME NEW shown, NEW list \in Render(terrain, scene.objects, step, shown)
          PROVE  \A upload \in UploadAndDraw(list) : UploadsOnce(upload, list)
      <4>1. list.primitive \in {2, 3} /\ list.vertices \in Nat /\ list.vertices % list.primitive = 0
        BY <3>1, <3>3, ListsAreWhole
      <4>. QED BY <4>1, WholeListIsSent
    <3>. QED BY <3>4, <3>5
  <2>. QED BY <2>1 DEF DrawsEverything
<1>. QED BY <1>1, EditorInvariant, PTL
===============================================================================
