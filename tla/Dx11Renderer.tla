----------------------------- MODULE Dx11Renderer -----------------------------
(***************************************************************************)
(* The Direct3D device, its swap chain and the targets a frame is drawn    *)
(* into.  A size stands for a width and a height, 0 for "none": a view     *)
(* that does not exist, or a side that is zero.  Every call of Direct3D    *)
(* may fail, so an operation has a set of outcomes.                        *)
(***************************************************************************)
EXTENDS Integers, Sequences

\* The swap chain and the context live and die with the device; "buffers"
\* is the size of the swap chain's buffers.
NoGpu == [device |-> FALSE, initialized |-> FALSE, size |-> 0, buffers |-> 0, target |-> 0, depth |-> 0]

CleanupRenderTarget(g) ==
    [device |-> g.device, initialized |-> g.initialized, size |-> g.size, buffers |-> g.buffers,
     target |-> 0, depth |-> 0]

\* Everything is released; the size stays.
Shutdown(g) == [device |-> FALSE, initialized |-> FALSE, size |-> g.size, buffers |-> 0, target |-> 0, depth |-> 0]

\* A view of the first buffer, or a failure.
CreateRenderTarget(g) == {g, [g EXCEPT !.target = g.buffers]}
\* A texture of the size the renderer was told, and its view.
CreateDepthStencil(g) == {g, [g EXCEPT !.depth = g.size]}

\* A window without an inside gets the default size.
Initialize(g, window, default) ==
    LET size == IF window = 0 THEN default ELSE window
        created == [device |-> TRUE, initialized |-> FALSE, size |-> size, buffers |-> size,
                    target |-> g.target, depth |-> g.depth]
        complete == {[d EXCEPT !.initialized = TRUE] :
                        d \in UNION {CreateDepthStencil(t) : t \in CreateRenderTarget(created)}}
    IN  IF g.initialized THEN {g}
        ELSE {d \in complete : d.target # 0 /\ d.depth # 0}
             \cup {[g EXCEPT !.size = size], Shutdown(created)}

\* ResizeBuffers may fail and leave the buffers as they are; whether the
\* views could be created is not looked at.
\* Mutant: the old views are kept until the new ones exist.
Resize_KeepsViews(g, size) ==
    IF ~g.initialized \/ size = 0 THEN {g}
    ELSE LET told == [g EXCEPT !.size = size]
             resized == [told EXCEPT !.buffers = size]
         IN  {told} \cup UNION {CreateDepthStencil(t) : t \in CreateRenderTarget(resized)}
Resize(g, size) ==
    IF ~g.initialized \/ size = 0 THEN {g}
    ELSE LET told == CleanupRenderTarget([g EXCEPT !.size = size])
             resized == [told EXCEPT !.buffers = size]
         IN  {told} \cup UNION {CreateDepthStencil(t) : t \in CreateRenderTarget(resized)}

\* The views and the buffers are those of the size asked for.
Complete(g) == g.buffers = g.size /\ g.target = g.size /\ g.depth = g.size

\* BeginFrame binds the views, or returns when there is no target: then the
\* frame is drawn with what the driver has kept of an earlier one, of which
\* nothing is known here.
Binds(g) == g.initialized /\ g.target # 0

\* Everything drawn in a frame uses a viewport of the renderer's size.
FitsTarget(g) == Binds(g) => g.target = g.size /\ g.depth \in {0, g.target}

-----------------------------------------------------------------------------
(***************************************************************************)
(* The renderer of the world, and in the same way the level's: shaders,    *)
(* buffers and states, made in this order.  A failure keeps what was made  *)
(* before, and Shutdown releases all of it.                                *)
(***************************************************************************)
NoScene == [parts |-> <<>>, initialized |-> FALSE]

\* The outcomes of creating these things one after the other.
Creates(r, things) == {[r EXCEPT !.parts = @ \o SubSeq(things, 1, n)] : n \in 0 .. Len(things)}

ShaderParts == <<"vertex shader", "pixel shader", "input layout">>
BufferParts == <<"vertices", "camera">>
StateParts == <<"rasterizer", "depth">>
CreateShaders(r) == Creates(r, ShaderParts)
CreateBuffers(r) == Creates(r, BufferParts)
CreateStates(r) == Creates(r, StateParts)

\* Each part only when the one before is complete.
After(outcomes, complete, Create(_)) ==
    UNION {IF Len(r.parts) = complete THEN Create(r) ELSE {r} : r \in outcomes}

InitializeScene(r, device) ==
    LET shaders == CreateShaders(r)
        buffers == After(shaders, Len(ShaderParts), CreateBuffers)
        states == After(buffers, Len(ShaderParts \o BufferParts), CreateStates)
    IN  IF r.initialized \/ ~device THEN {r}
        ELSE {[d EXCEPT !.initialized = d.parts = ShaderParts \o BufferParts \o StateParts] : d \in states}
ShutdownScene(r) == NoScene
==============================================================================
