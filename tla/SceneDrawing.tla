----------------------------- MODULE SceneDrawing -----------------------------
(***************************************************************************)
(* How the vertices of an editor's frame reach the card: the terrain is    *)
(* drawn in steps, the water around it, the objects as boxes and trees,    *)
(* and every list is uploaded in batches.  Colours and light are left out. *)
(***************************************************************************)
EXTENDS Integers, FiniteSets, FiniteSetsExt

CONSTANTS
    MinCells, MaxCells,     \* the least and the most cells drawn per axis (32 and 1024)
    MaxDynamicVertices,     \* the vertex buffer of the editor (98304)
    WaterGrid,              \* the water's cells per side (96)
    WaterLevel              \* the height up to which ground is under water (0.292)

ASSUME DrawingAssumption ==
    /\ MinCells \in Nat \ {0} /\ MaxCells \in Nat /\ MinCells <= MaxCells
    /\ MaxDynamicVertices \in Nat \ {0, 1, 2} /\ WaterGrid \in Nat \ {0} /\ WaterLevel \in Nat

Larger(a, b) == IF a >= b THEN a ELSE b
Clamped(n) == IF n < MinCells THEN MinCells ELSE IF n > MaxCells THEN MaxCells ELSE n

\* Cells of the heightmap per cell drawn.
CalculateRenderStep(width, height, cells) == Larger(1, Larger(width, height) \div Clamped(cells))

\* Where the cells drawn along one side start.
Starts(side, step) == {x \in 0 .. side - step - 1 : x % step = 0}

\* The sample at which the terrain drawn ends.
DrawnEdge(side, step) == Max({0} \cup {x + step : x \in Starts(side, step)})

TerrainCells(width, height, step) == Cardinality(Starts(width, step)) * Cardinality(Starts(height, step))
TerrainTriangles(width, height, step) == 6 * TerrainCells(width, height, step)
TerrainLines(width, height, step, shown) == IF shown THEN 4 * TerrainCells(width, height, step) ELSE 0

(***************************************************************************)
(* The water: a grid that reaches over each edge of the terrain by 55 of   *)
(* 100 parts of its longer side, of which the cells are drawn whose centre *)
(* is outside the terrain or over a sample below the level.  Places are    *)
(* counted in 20 * WaterGrid parts of a sample, from the first one.        *)
(***************************************************************************)
WaterUnit == 20 * WaterGrid
WaterCentre(i, side, longest) == 10 * WaterGrid * (side - 1) + (10 * (side - 1) + 11 * (longest - 1)) * (2 * i + 1 - WaterGrid)
WaterCells(m) ==
    LET longest == Larger(m.width, m.height)
        x(i) == WaterCentre(i, m.width, longest)
        y(j) == WaterCentre(j, m.height, longest)
        outside(at, side) == at < 0 \/ at > WaterUnit * (side - 1)
        sample(at) == (at + WaterUnit \div 2) \div WaterUnit
    IN  {c \in (0 .. WaterGrid - 1) \X (0 .. WaterGrid - 1) :
            \/ outside(x(c[1]), m.width) \/ outside(y(c[2]), m.height)
            \/ m.values[<<sample(x(c[1])), sample(y(c[2]))>>] <= WaterLevel}
WaterTriangles(m, shown) == IF shown THEN 6 * Cardinality(WaterCells(m)) ELSE 0

\* Vertices of the solid bodies of the objects, and of their boxes of lines.
BoxVertices == 36
TreeVertices == 54
Solids(objects) == {o \in objects : o.visible /\ o.type \notin {"safe_zone", "radiation_zone", "anomaly_zone"}}
SolidVertices(objects) ==
    LET trees == {o \in Solids(objects) : o.type = "speedtree_proxy"}
    IN  TreeVertices * Cardinality(trees) + BoxVertices * Cardinality(Solids(objects) \ trees)
BoxLines(objects, shown) == IF shown THEN 26 * Cardinality({o \in objects : o.visible}) ELSE 0
GridLines(shown) == IF shown THEN 2 * (2 * 17 + 2) ELSE 0
BrushLines(shown) == IF shown THEN 2 * 96 ELSE 0

\* Render: how many vertices go into each list, and into a primitive of it;
\* "shown" is what the check boxes say, and whether the mouse is over the terrain.
Render(m, objects, step, shown) ==
    {[vertices |-> TerrainTriangles(m.width, m.height, step) + WaterTriangles(m, shown.water)
                   + SolidVertices(objects),
      primitive |-> 3],
     [vertices |-> TerrainLines(m.width, m.height, step, shown.wireframe) + GridLines(shown.grid)
                   + BrushLines(shown.brush) + BoxLines(objects, shown.boxes),
      primitive |-> 2]}

-----------------------------------------------------------------------------
\* UploadAndDraw: a batch is as many whole primitives as fit into the buffer;
\* the last one leaves fewer vertices than a primitive has.
\* Mutant: only what fills the buffer is sent.
BatchOf_Full(left, primitive) == IF left < MaxDynamicVertices THEN 0 ELSE MaxDynamicVertices - (MaxDynamicVertices % primitive)
BatchOf(left, primitive) ==
    LET count == IF left < MaxDynamicVertices THEN left ELSE MaxDynamicVertices
    IN  count - (count % primitive)
Batches(vertices, primitive) ==
    LET batch(offset) == [first |-> offset, count |-> BatchOf(vertices - offset, primitive)]
        from[offset \in 0 .. vertices] ==
            IF batch(offset).count = 0 THEN {}
            ELSE {batch(offset)} \cup from[offset + batch(offset).count]
    IN  from[0]

\* Mapping the buffer may fail for any batch, which ends the list; Render
\* goes on with the next list.
UploadAndDraw(list) ==
    LET all == Batches(list.vertices, list.primitive)
    IN  {[sent |-> all, failed |-> FALSE]}
        \cup {[sent |-> {b \in all : b.first < c.first}, failed |-> TRUE] : c \in all}

\* The vertices sent are those up to some point, which is the end of the list
\* unless mapping failed, and each of them once: a batch begins at the first
\* vertex or where another ends, and no two overlap.  None is too large for
\* the buffer or cuts a primitive.
End(batch) == batch.first + batch.count
UploadsOnce(upload, list) ==
    /\ \E end \in {0} \cup {End(b) : b \in upload.sent} :
           /\ upload.failed \/ end = list.vertices
           /\ {b.first : b \in upload.sent} \cup {end} = {0} \cup {End(b) : b \in upload.sent}
    /\ \A b, c \in upload.sent : b = c \/ End(b) <= c.first \/ End(c) <= b.first
    /\ \A b \in upload.sent : b.count <= MaxDynamicVertices /\ b.count % list.primitive = 0
==============================================================================
