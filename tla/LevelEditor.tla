----------------------------- MODULE LevelEditor -----------------------------
(***************************************************************************)
(* The level editor: one window, one thread.  The user sculpts a terrain,  *)
(* places and changes objects, types sizes and scales, imports and saves   *)
(* RAW files and saves levels; writes may fail or end early.  Tabs and     *)
(* panels only decide where a button is: every button is an action, and    *)
(* what a slider holds is chosen when it is used.                          *)
(***************************************************************************)
EXTENDS Heightmap, EditorScene, SceneDrawing, Dx11Renderer

CONSTANTS
    RawFiles, R16Files,     \* RAW files the dialogs offer, and those named .r16
    LevelFiles,
    StoredRaw,              \* the RAW files there are at first, with their bytes
    ScaleText,              \* the scale the text beside a RAW file gives, 0 for none
    IslandSide,             \* the preview island's side (513)
    FlatHeights,
    Scales, IslandScale,    \* a cell's size and the height range, as one value
    Brushes,                \* [mode, centre, radius, amount, flatten]
    Buttons,                \* the "Add" buttons that are pressed
    StartSize, WindowSizes, \* the window's size at first (1600 x 900), and those it is dragged to
    Typed, TypedOptions,    \* for each field, the values the user gives it
    MaxActs, MaxFaults      \* bounds: what the user does, calls that fail

\* The "Add" buttons: what they add, its name and its radius.
ToolbarButtons ==
    {<<"static_mesh_proxy", <<"Static Mesh Proxy">>, 100>>, <<"player_spawn", <<"Player Spawn">>, 100>>,
     <<"loot_spawner", <<"Loot Spawner">>, 100>>, <<"speedtree_proxy", <<"SpeedTree Proxy">>, 100>>,
     <<"safe_zone", <<"Safe Zone">>, 600>>, <<"radiation_zone", <<"Radiation Zone">>, 600>>,
     <<"anomaly_zone", <<"Anomaly Zone">>, 250>>, <<"light", <<"Light">>, 100>>}

\* What the details panel shows of the selected object and lets one change.
DetailsFields == {"name", "type", "asset", "position", "rotation", "scale", "radius", "visible"}

ASSUME EditorAssumption ==
    /\ R16Files \subseteq RawFiles /\ DOMAIN StoredRaw \subseteq RawFiles /\ "" \notin RawFiles \cup LevelFiles
    /\ TypedOptions.width \cup TypedOptions.height \cup {IslandSide} \subseteq 2 .. MaxSide
    /\ TypedOptions.format \subseteq Formats /\ FlatHeights \subseteq Int
    /\ \A path \in DOMAIN StoredRaw : StoredRaw[path] \in Seq(0 .. Base - 1)
    /\ Brushes \subseteq [mode : BrushModes, centre : Int \X Int, radius : Int, amount : Int, flatten : Int]
    /\ DOMAIN Typed = DetailsFields
    /\ Typed.name \cup Typed.asset \subseteq Names /\ Typed.type \subseteq ObjectTypes
    /\ Buttons \subseteq ToolbarButtons
    /\ \A b \in ToolbarButtons : b[1] \in ObjectTypes
    /\ \A b \in Buttons : b[2] \in Names /\ b[3] \in Radii

VARIABLES
    phase,      \* start, device, running, closing, ended
    gpu, drawer,
    looking,    \* the right button is down and the cursor hidden
    terrain, scene, scale,
    options,    \* what the import panel holds
    paths,      \* the RAW, save and level paths
    dirty,
    disk,       \* the RAW and level files
    home,       \* (history) the file that last made the work count as saved
    damaged,    \* (history) files whose last write ended early
    acts, faults

window == <<phase, gpu, drawer, looking>>
work == <<terrain, scene, scale>>
panel == <<options, paths>>
stored == <<disk, home, damaged>>
vars == <<window, work, panel, dirty, stored, acts, faults>>

NoPaths == [raw |-> "", save |-> "", level |-> ""]
NoHome == [kind |-> "none", file |-> "", format |-> "r16"]

\* The editor's globals before the first level is made.
Init ==
    /\ phase = "start" /\ gpu = NoGpu /\ drawer = NoScene /\ looking = FALSE
    /\ terrain = [width |-> 0, height |-> 0, values |-> <<>>]
    /\ scene = EmptyScene /\ scale = IslandScale
    /\ options = [width |-> IslandSide, height |-> IslandSide, format |-> "r16", auto |-> TRUE, autoText |-> TRUE]
    /\ paths = NoPaths /\ dirty = FALSE
    /\ disk = [raw |-> StoredRaw, level |-> <<>>] /\ home = NoHome /\ damaged = {}
    /\ acts = 0 /\ faults = 0

Running == phase = "running"
Act == acts < MaxActs /\ acts' = acts + 1
Uses == Running /\ Act
Edit == Uses /\ UNCHANGED faults

\* SyncSceneTerrainInfo.
Synced(s, path, t, size) == SetTerrainInfo(s, path, t.width, t.height, size)

-----------------------------------------------------------------------------
(* New levels. *)

\* The island's hills: heights between those a 16-bit file can hold.
IslandHeight(c) == ClampHeight((Top \div 3) + 2 * c[1] + c[2])
Island == [width |-> IslandSide, height |-> IslandSide,
           values |-> [c \in Cells(IslandSide, IslandSide) |-> IslandHeight(c)]]

\* Two of the sixty objects the island gets.
IslandScene ==
    LET tree == NewObject("speedtree_proxy", <<"Tree Proxy">>, <<>>, "zero", 90)
        spawn == NewObject("player_spawn", <<"Player Spawn">>, <<>>, "one", DefaultRadius)
    IN  AddObject(AddObject(Clear(scene), tree), spawn)

CreatePreviewIslandLevel ==
    /\ terrain' = Island /\ scale' = IslandScale
    /\ options' = [options EXCEPT !.width = IslandSide, !.height = IslandSide]
    /\ paths' = NoPaths /\ dirty' = TRUE
    /\ scene' = Synced(IslandScene, "", Island, IslandScale)

\* F5, New Island or TEST MAP, whatever is unsaved.
NewIsland == Edit /\ CreatePreviewIslandLevel /\ UNCHANGED <<window, stored>>

\* The paths stay those of the level before.
CreateFlatLevel ==
    \E h \in FlatHeights :
        LET t == Flat(options.width, options.height, h)
        IN  /\ Edit
            /\ terrain' = t /\ dirty' = TRUE
            /\ scene' = Synced(Clear(scene), paths.raw, t, scale)
            /\ UNCHANGED <<window, scale, panel, stored>>

-----------------------------------------------------------------------------
(* The terrain: the brush, its import panel, RAW files. *)

Sculpt(b) ==
    /\ Edit /\ ~looking /\ b.centre \in DOMAIN terrain.values
    /\ terrain' = ApplyBrush(terrain, b.centre, b.radius, b.amount, b.mode, b.flatten)
    /\ dirty' = TRUE
    /\ UNCHANGED <<window, scene, scale, panel, stored>>

\* A scale typed into the panel is used at once, and told to the scene later.
TypeScale(s) == Edit /\ scale' = s /\ UNCHANGED <<window, terrain, scene, panel, dirty, stored>>

\* Apply Scale, a chosen scale text, or a world size in metres.
SetTerrainImportScale(s) ==
    /\ Edit
    /\ scale' = s /\ scene' = Synced(scene, paths.raw, terrain, s) /\ dirty' = TRUE
    /\ UNCHANGED <<window, terrain, panel, stored>>

TypeOption(field, value) ==
    Edit /\ options' = [options EXCEPT ![field] = value] /\ UNCHANGED <<window, work, paths, dirty, stored>>

\* The RAW path is a text field too.
TypeRawPath(path) ==
    Edit /\ paths' = [paths EXCEPT !.raw = path] /\ UNCHANGED <<window, work, options, dirty, stored>>

BytesOf(path) == IF path \in DOMAIN disk.raw THEN disk.raw[path] ELSE <<>>

\* AutoDetectRawDimensions: the options with the side found, if there is one.
Detected(path, opts) ==
    LET side == SquareSide(BytesOf(path), opts.format)
    IN  IF side = 0 THEN opts ELSE [opts EXCEPT !.width = side, !.height = side]

DetectSize ==
    /\ Edit /\ options' = Detected(paths.raw, options)
    /\ UNCHANGED <<window, work, paths, dirty, stored>>

\* The options with which LoadRawHeightmap reads a file.
ImportOptions(path, opts) ==
    LET named == IF path \in R16Files THEN [opts EXCEPT !.format = "r16"] ELSE opts
    IN  IF named.auto THEN Detected(path, named) ELSE named
Imports(path, opts) == path \in DOMAIN disk.raw /\ LoadsRaw(disk.raw[path], opts.width, opts.height, opts.format)

\* What SaveRaw's and LoadRaw's success leave: nothing is unsaved.
StoredIn(path, format) == [kind |-> "raw", file |-> path, format |-> format]

\* A file that does not fit is not loaded; the options stay as detected.
LoadRawHeightmap(path, opts) ==
    LET read == ImportOptions(path, opts)
    IN  /\ options' = read
        /\ IF Imports(path, read)
           THEN LET t == LoadedRaw(disk.raw[path], read.width, read.height, read.format)
                    size == IF read.autoText /\ ScaleText[path] # 0 THEN ScaleText[path] ELSE scale
                IN  /\ terrain' = t /\ scale' = size /\ scene' = Synced(scene, path, t, size)
                    /\ paths' = [paths EXCEPT !.raw = path, !.save = path]
                    /\ dirty' = FALSE /\ home' = StoredIn(path, read.format)
           ELSE UNCHANGED <<work, paths, dirty, home>>
        /\ UNCHANGED <<window, disk, damaged, faults>>

OpenRaw(path) == Uses /\ LoadRawHeightmap(path, options)
ReloadRawWithManualSize ==
    /\ Uses /\ paths.raw # ""
    /\ LoadRawHeightmap(paths.raw, [options EXCEPT !.auto = FALSE])

-----------------------------------------------------------------------------
(***************************************************************************)
(* Saving.  The file is truncated when it is opened; the stream is asked   *)
(* before its last flush, so a write that ends early may go unnoticed.     *)
(***************************************************************************)
Writes(whole, cuts) ==
    {[opened |-> TRUE, reported |-> TRUE, content |-> whole, cut |-> FALSE]}
    \cup IF faults = MaxFaults THEN {}
         ELSE {[opened |-> FALSE, reported |-> FALSE, content |-> whole, cut |-> FALSE]}
              \cup {[opened |-> TRUE, reported |-> r, content |-> c, cut |-> TRUE] : r \in BOOLEAN, c \in cuts}

Written(files, path, content) ==
    [p \in DOMAIN files \cup {path} |-> IF p = path THEN content ELSE files[p]]
WriteOf(kind, path, w) ==
    /\ disk' = IF w.opened THEN [disk EXCEPT ![kind] = Written(disk[kind], path, w.content)] ELSE disk
    /\ damaged' = IF w.cut THEN damaged \cup {path} ELSE IF w.opened THEN damaged \ {path} ELSE damaged
    /\ faults' = IF w.reported /\ ~w.cut THEN faults ELSE faults + 1

\* A failed save changes nothing in memory: the flag too stays as it was.
\* Mutant: the flag is cleared whatever the save says.
DirtyAfter_Always(w) == FALSE
DirtyAfter(w) == IF w.reported THEN FALSE ELSE dirty

SaveRawHeightmap(path) ==
    LET bytes == RawBytes(terrain, options.format)
    IN  \E w \in Writes(bytes, {<<>>, SubSeq(bytes, 1, Len(bytes) - 1)}) :
            /\ WriteOf("raw", path, w)
            /\ dirty' = DirtyAfter(w)
            /\ IF w.reported
               THEN /\ paths' = [paths EXCEPT !.raw = path, !.save = path]
                    /\ scene' = Synced(scene, path, terrain, scale)
                    /\ home' = StoredIn(path, options.format)
               ELSE UNCHANGED <<paths, scene, home>>

\* Save RAW: to the save path, which the user may also type.
SaveRawMap(path) ==
    /\ Uses /\ path \in RawFiles
    /\ SaveRawHeightmap(path)
    /\ UNCHANGED <<window, terrain, scale, options>>

\* SAVE MAP and SAVE GLOBAL: the scene is told of the terrain in any case.
SaveLevelFile(path) ==
    LET told == Synced(scene, paths.raw, terrain, scale)
    IN  \E w \in Writes(LevelFile(told, "no"), {LevelFile(told, cut) : cut \in Cuts}) :
            /\ scene' = told
            /\ WriteOf("level", path, w)
            /\ dirty' = DirtyAfter(w)
            /\ IF w.reported
               THEN paths' = [paths EXCEPT !.level = path] /\ home' = [NoHome EXCEPT !.kind = "level", !.file = path]
               ELSE UNCHANGED <<paths, home>>

SaveMap ==
    /\ Uses
    /\ \E path \in IF paths.level # "" THEN {paths.level} ELSE LevelFiles : SaveLevelFile(path)
    /\ UNCHANGED <<window, terrain, scale, options>>

\* LoadLevelFile, with the options of a freshly started editor: the
\* terrain's size in the file is not used to read the RAW file.
FreshOptions == [width |-> IslandSide, height |-> IslandSide, format |-> "r16", auto |-> TRUE, autoText |-> TRUE]
Reopened(f) ==
    LET loaded == LoadFromFile(EmptyScene, f)
        read == ImportOptions(loaded.terrain.path, FreshOptions)
    IN  [scene |-> loaded, read |-> read, imports |-> Imports(loaded.terrain.path, read)]

-----------------------------------------------------------------------------
(* Objects. *)

AddEditorObjectAtBrush(button, asset, position) ==
    LET added == AddObject(scene, NewObject(button[1], button[2], asset, position, button[3]))
    IN  /\ Edit
        /\ button[1] = "speedtree_proxy" \/ asset = <<>>
        /\ scene' = SelectObject(added, added.selected) /\ dirty' = TRUE
        /\ UNCHANGED <<window, terrain, scale, panel, stored>>

\* DrawDetailsPanel.
ChangeObject(field, value) ==
    /\ Edit /\ scene.selected # 0
    /\ scene' = ChangeSelected(scene, field, value) /\ dirty' = TRUE
    /\ UNCHANGED <<window, terrain, scale, panel, stored>>

DeleteSelected ==
    /\ Edit /\ scene.selected # 0
    /\ scene' = RemoveSelectedObject(scene) /\ dirty' = TRUE
    /\ UNCHANGED <<window, terrain, scale, panel, stored>>

Select(id) ==
    /\ Edit /\ id \in Ids(scene)
    /\ scene' = SelectObject(scene, id)
    /\ UNCHANGED <<window, terrain, scale, panel, dirty, stored>>

-----------------------------------------------------------------------------
(* The window. *)

StartRenderer ==
    /\ phase = "start"
    /\ gpu' \in Initialize(gpu, StartSize, 1)
    /\ phase' = IF gpu'.initialized THEN "device" ELSE "ended"
    /\ UNCHANGED <<drawer, looking, work, panel, dirty, stored, acts, faults>>

\* The level's renderer; then the first island.
StartLevel ==
    /\ phase = "device"
    /\ \E d \in InitializeScene(drawer, gpu.device) :
        IF d.initialized
        THEN phase' = "running" /\ drawer' = d /\ gpu' = gpu /\ CreatePreviewIslandLevel
        ELSE phase' = "ended" /\ drawer' = NoScene /\ gpu' = Shutdown(gpu) /\ UNCHANGED <<work, panel, dirty>>
    /\ UNCHANGED <<looking, stored, acts, faults>>

\* WM_SIZE.
ResizeWindow(size) ==
    /\ phase \in {"device", "running"} /\ Act
    /\ gpu' \in Resize(gpu, size)
    /\ IF Complete(gpu') THEN UNCHANGED faults ELSE faults < MaxFaults /\ faults' = faults + 1
    /\ UNCHANGED <<phase, drawer, looking, work, panel, dirty, stored>>

\* BeginCameraLook and EndCameraLook (the button, a text field, a lost focus).
Look ==
    /\ Edit /\ looking' = ~looking
    /\ UNCHANGED <<phase, gpu, drawer, work, panel, dirty, stored>>

\* WM_DESTROY: nothing asks whether the work is saved.
CloseWindow == Edit /\ phase' = "closing" /\ UNCHANGED <<gpu, drawer, looking, work, panel, dirty, stored>>

EndProgram ==
    /\ phase = "closing" /\ phase' = "ended"
    /\ drawer' = ShutdownScene(drawer) /\ gpu' = Shutdown(gpu)
    /\ UNCHANGED <<looking, work, panel, dirty, stored, acts, faults>>

-----------------------------------------------------------------------------
TerrainEdit ==
    \/ NewIsland \/ CreateFlatLevel \/ \E b \in Brushes : Sculpt(b)
    \/ \E s \in Scales : TypeScale(s) \/ SetTerrainImportScale(s)
SceneEdit ==
    \/ \E button \in Buttons, asset \in {<<>>} \cup Typed.asset, position \in Typed.position :
           AddEditorObjectAtBrush(button, asset, position)
    \/ \E field \in DOMAIN Typed : \E value \in Typed[field] : ChangeObject(field, value)
    \/ DeleteSelected \/ \E o \in scene.objects : Select(o.id)
OptionEdit ==
    \/ \E field \in DOMAIN TypedOptions : \E value \in TypedOptions[field] : TypeOption(field, value)
    \/ (\E path \in RawFiles : TypeRawPath(path)) \/ DetectSize
FileStep ==
    \/ \E path \in RawFiles : OpenRaw(path) \/ SaveRawMap(path)
    \/ ReloadRawWithManualSize \/ SaveMap
WindowStep ==
    \/ \E size \in WindowSizes : ResizeWindow(size)
    \/ StartRenderer \/ StartLevel \/ Look \/ CloseWindow \/ EndProgram

Next == TerrainEdit \/ SceneEdit \/ OptionEdit \/ FileStep \/ WindowStep
Spec == Init /\ [][Next]_vars

-----------------------------------------------------------------------------
(* Properties. *)

WellFormed(s) ==
    /\ \A o, p \in s.objects : o.id = p.id => o = p
    /\ \A o \in s.objects : o.id \in 1 .. s.next - 1
    /\ s.selected \in {0} \cup Ids(s)

\* No two objects ever share an id, no object has an id that AddObject could
\* give again, and what is selected exists: in the scene being edited, and
\* in the scene that LoadFromFile makes of each level file on the disk,
\* however its write ended.
SceneIsConsistent ==
    /\ WellFormed(scene)
    /\ \A path \in DOMAIN disk.level :
           ~LoadFails(disk.level[path]) => WellFormed(LoadFromFile(EmptyScene, disk.level[path]))

\* The terrain is, as the format can tell it, what opening the file gives.
Gives(bytes, t, format) ==
    /\ LoadsRaw(bytes, t.width, t.height, format)
    /\ RawBytes(LoadedRaw(bytes, t.width, t.height, format), format) = RawBytes(t, format)

\* While the editor says "Dirty:no", opening the file that was saved or
\* loaded last gives the terrain, as that format can tell it, or the file
\* holds all the objects as they are, unless its last write ended early.  A
\* file of floats need not hold the heights themselves: its samples are
\* clamped when it is opened, and that does not count as a change.
CleanMeansStored ==
    Running /\ ~dirty /\ home.file \notin damaged =>
        \/ home.kind = "raw" /\ Gives(BytesOf(home.file), terrain, home.format)
        \/ home.kind = "level" /\ disk.level[home.file].cut = "no" /\ disk.level[home.file].objects = scene.objects

\* Names and assets that the reader does not take for a key.
Plain(o) == \A key \in KeysAfter("name") : o.name # <<key>> /\ o.asset # <<key>>

\* A whole level file brings every object back: its id, type, name and
\* position always, the rest unless its name or asset reads like a key; a
\* cut one brings none or all of them, and never a terrain of its own.  A
\* square 16-bit RAW file comes back in the size the level names.
Reopens(f) ==
    LET t == f.terrain
        again == Reopened(f)
    IN  IF f.cut # "no" THEN ReadObjects(f) = {}
        ELSE /\ Cardinality(ReadObjects(f)) = Cardinality(f.objects)
             /\ \A o \in f.objects : \E r \in ReadObjects(f) :
                    /\ r.id = o.id /\ r.type = o.type /\ r.position = o.position /\ r.name = Named(o).name
                    /\ Plain(o) => r = Named(o)
             /\ t.width = t.height /\ Len(BytesOf(t.path)) = 2 * t.width * t.height =>
                    again.imports /\ again.read.width = t.width /\ again.read.height = t.height
LevelReopens == \A path \in DOMAIN disk.level : Reopens(disk.level[path])

\* Saving the terrain at hand in any format and loading it again changes no
\* height by more than half a level, gives the same file when saved again,
\* and a square terrain is recognised from the file's size.
RoundTrips(m) ==
    \A format \in Formats :
        LET n == BytesPerSample(format)
            bytes == RawBytes(m, format)
            again == LoadedRaw(bytes, m.width, m.height, format)
        IN  /\ LoadsRaw(bytes, m.width, m.height, format)
            /\ \A c \in DOMAIN m.values : 2 * MaxSample(n) * (again.values[c] - m.values[c]) \in -Top .. Top
            /\ RawBytes(again, format) = bytes
            /\ m.width = m.height => SquareSide(bytes, format) = m.width
RawRoundTrip == [][terrain' # terrain => RoundTrips(terrain')]_vars

\* The cells that touch one, and itself.
Neighbours(m, c) == {d \in DOMAIN m.values : d[1] - c[1] \in -1 .. 1 /\ d[2] - c[2] \in -1 .. 1}

\* One stroke changes no height outside its circle, keeps every height in
\* range, moves heights only the way its mode says, and neither smoothing
\* nor flattening goes past what it moves towards.
BrushIsLocal ==
    [][terrain' # terrain => IsHeightmap(terrain') /\ \A b \in Brushes : Sculpt(b) =>
        \A c \in DOMAIN terrain.values :
            LET old == terrain.values[c]
                new == terrain'.values[c]
                near == {terrain.values[d] : d \in Neighbours(terrain, c)}
            IN  /\ SquaredDistance(c, b.centre) > b.radius * b.radius => new = old
                /\ b.mode = "Raise" => new >= old
                /\ b.mode = "Lower" => new <= old
                /\ b.mode = "Smooth" => Min(near) <= new /\ new <= Max(near)
                /\ b.mode = "Flatten" => (old <= new /\ new <= b.flatten) \/ (b.flatten <= new /\ new <= old)]_vars

\* The views that a frame binds fit the size it is drawn at, whatever resizing
\* did; the level's renderer lives no longer than the device, and an ended
\* program holds neither.
FramesFit ==
    /\ FitsTarget(gpu)
    /\ drawer.parts # <<>> => gpu.device
    /\ Running => gpu.device /\ drawer.initialized
    /\ phase = "ended" => ~gpu.device /\ drawer = NoScene

\* What a frame may be asked to show: the window's boxes all checked or none,
\* the mouse on the terrain or not.
Views == {[water |-> checked, wireframe |-> checked, grid |-> checked, boxes |-> checked, brush |-> pointed] :
          checked, pointed \in BOOLEAN}

\* Every cell of the terrain is drawn up to the last whole step; every vertex
\* of a frame is uploaded once, or those before the batch whose upload fails;
\* and no batch overflows the buffer or cuts a primitive.
DrawsEverything ==
    Running =>
        \A step \in {CalculateRenderStep(terrain.width, terrain.height, cells) : cells \in MinCells .. MaxCells} :
            /\ \A side \in {terrain.width, terrain.height} : side - 1 - DrawnEdge(side, step) \in 0 .. step - 1
            /\ \A shown \in Views : \A list \in Render(terrain, scene.objects, step, shown) :
                   \A upload \in UploadAndDraw(list) : UploadsOnce(upload, list)
==============================================================================
