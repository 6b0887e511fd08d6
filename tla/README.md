# StalkerOnline: TLA+ models and proofs

StalkerOnline is a small online game: a C# server (`src/StalkerOnline.Server`), a C# library that
holds the game objects and the packet protocol (`src/StalkerOnline.Shared`), and a C++ client with
a level editor (`src/StalkerOnline.GameClient`). This directory holds TLA+ models of the parts
that keep state, the TLC configurations that check them on small instances, and TLAPS proofs of
the properties that matter most. The repository has no tests; the models are written from the
code, and every definition that stands for code is listed in `PROJECT.json` with the lines it
stands for. In what follows `GameServer.cs:674` and the like name files by their last component.

Contents: 1 the system, 2 the modules, 3 the runs, 4 bounds, 5 fairness, 6 proofs, 7 where the
code does not do what it promises, 8 what is not modelled, 9 the plan.

## 1. The system

### 1.1 Components

| Component | State | Operations | What makes it correct |
|---|---|---|---|
| `PlayerInventory`, `InventoryItem` | stacks by slot, under one lock | AddItem, CanFullyAddItem, TakeItemFromSlot, TryAddItemToSlot, Clear, CreateSnapshot | no stack beyond its limit; AddItem adds all that fits and says how much; the check predicts the add |
| `GameWorld`, `WorldItem`, `WorldPlayer` | players by session, objects by id, quantity and active flag of an item | AddPlayer, RemovePlayer, TryPickupWorldItem, TryDropItem, SpawnWorldItem, ApplyMovement, queries of the neighbourhood | an item goes to one player; no unit is lost or duplicated |
| `InterestManager` | four tables of who is told about whom and about which item | Refresh, Add, Remove, RemoveFromAll, Unregister, GetObservers | a client has been told exactly what its table holds |
| `GameServer` | sessions; the accept, monitor and autosave loops | start, broadcasts, the autosave round, Stop | joins, moves and leaves reach those near; silent clients are closed; everybody is saved |
| `ClientSession` | flags of a connection, the send lock | receive loop, a handler per packet type, the clean-up | one clean-up; an error leaves nothing half done that the next packet relies on |
| `PacketRateLimiter` | counters per packet type, one for all packets, violations | Check | bounded bursts, polite clients undisturbed, abusers disconnected |
| `InventoryService`, `InventoryRepository` | rows of `inventories` and `inventory_items` | load, give starter items, save | what is loaded is what was saved last |
| `AccountService`, `CharacterService`, repositories | rows of `accounts` and `characters` | register, log in, load or create a character, save its state | an account per login and email, a character per account, truthful answers |
| `DatabaseInitializer` | tables and rows of `schema_migrations` | one list of statements at every start | a recorded migration is complete; every start succeeds in the end |
| `PacketProtocol` | the byte stream | SendAsync, ReceiveAsync | packets arrive whole and in order |
| Serializers | none | a pair of encode and decode per packet | decode inverts encode |
| `NetworkClient` (C++) | connection flags, a receive thread, snapshots of what the server sent | Connect, Login, Register, sends, receive loop, Stop | one receive thread; the snapshots follow the packets |
| `main.cpp` (C++, the game) | authenticated and busy flags, server status, the client object | start, frames, LOGIN, CREATE, DISCONNECT, the status check, the end | attempts end, a lost connection is noticed, nothing is left behind |
| `EditorScene`, `Heightmap` (C++) | scene objects with ids, a selection, terrain samples | add, remove, select, save, load, brushes | ids unique, selection valid, files load back |
| `LevelEditor.cpp` (C++, the editor) | terrain, scene, import options, paths, the dirty flag | buttons, fields and keys of the panels, RAW and level files | "clean" means stored; what is saved can be reopened |
| `Dx11Renderer`, `Dx11WorldRenderer`, `Dx11LevelEditorRenderer` | device, swap chain, views; shaders, buffers, states | create, resize, draw, release, any call may fail | what a frame binds fits; every vertex is drawn |
| Screens (`UiStyle`), SpeedTree | none | drawing, a look at files | |

### 1.2 How they interact

The server runs one task per connection (`ClientSession.RunAsync`), one monitor task, one autosave
task and the accept loop; continuations run on pool threads, so handlers of different sessions run
in parallel and interleave at every await and at every lock. Inside one session packets are handled
one after the other. Handlers share the `GameWorld`, the `InterestManager`, the dictionary of
sessions and the database; each of the first two takes a lock per call and never across calls. A
handler writes to other sessions' sockets (broadcasts), each socket protected by its session's
`_sendLock`. A session cleans itself up after its last packet; until it is out of all tables, other
sessions' handlers still find it there. MySQL statements commit one by one: no code uses a
transaction.

The game client has a main thread (window, frames, Stop at the end), a receive thread that
`StartReceiveLoop` starts after a login, and a detached thread per press of LOGIN or CREATE and per
status check. They share the socket and three flags of `NetworkClient`, atomics that are read and
written one at a time, and the snapshots, under a mutex. The level editor has one thread; what it
shares is the disk and the graphics device.

### 1.3 What is hard about it

* Lists are read under a lock and used after it is released: the nearby players of an interest
  update, the world item of a pick-up, the snapshots of an autosave round.
* Packets about one player or item are sent by several handlers, in no common order.
* A save is a delete and one insert per stack; two saves of one character, or a crash, cut it.
* The login authorizes first and loads afterwards; unique keys are the only protection of
  find-then-insert.
* The monitor awaits each ping, so one client can hold up everybody's timeouts.
* A stop closes sessions whose tasks then go on by themselves, while the process ends.
* A migration may be cut between any two statements, and two servers may run it at once.
* Stop is called by the window, by a login that fails and, after a kick, by the receive thread, in
  four steps between which the others go on; the thread it joins may wait in `recv`.
* A frame reads the connection, then acts on the answer, while a login thread connects.
* A level file is read back by a search for each quoted key, which names and assets may contain; a
  write may end early after the stream was asked whether it is good.
* Resizing releases the views before it makes new ones, and does not look whether it could.

`PROJECT.json` lists each of these as hazards, with the line at which it bites and the properties
that would catch it.

## 2. The modules

| Module | Extends / uses | What it models |
|---|---|---|
| `InventoryOps` | | the methods of `PlayerInventory` as operators on an inventory value |
| `PlayerInventory` | `InventoryOps` | `AddItem` iteration by iteration, the other methods in one step |
| `LootLedger` | | abstract: items on the ground and units owned, every operation atomic |
| `LootWorld` | `InventoryOps`, instantiates `LootLedger` | joining, leaving, picking up and dropping, access by access |
| `PlayerVisibility` | | the player tables of `InterestManager` and the broadcasts about players |
| `LootVisibility` | | its item tables and the broadcasts about items |
| `InventoryStore` | | loading and saving, statement by statement, by sessions, autosave and Stop |
| `PacketRateLimiter` | | the limiter of one session |
| `SessionMonitor` | | the ping and timeout loop over all sessions |
| `SessionGuards` | `SessionMonitor`, instantiates `PacketRateLimiter` | the receive loop that joins the two |
| `SessionLogin` | | registration and login over the tables with unique keys |
| `SchemaMigrations` | | `DatabaseInitializer.Initialize` by several servers |
| `ServerLife` | `SessionLogin`, instantiates `SchemaMigrations` | starts, serving, crashes, starts again |
| `PacketFraming` | | send lock, byte stream, receive loop of one direction of a connection |
| `NetworkClient` | | the client's connection, its threads at their blocking points, packets and snapshots, Stop; the server's end |
| `GameClient` | `NetworkClient`, `Dx11Renderer` | the game's start, frames, login threads, status check and end |
| `Heightmap` | | terrain, RAW formats byte by byte, size detection, brushes |
| `EditorScene` | | objects, ids, selection, the level file and its reader |
| `SceneDrawing` | | how many vertices a frame of the editor has, and in which batches they are drawn |
| `Dx11Renderer` | | device, views, resizing; creation and release of a renderer's parts |
| `LevelEditor` | `Heightmap`, `EditorScene`, `SceneDrawing`, `Dx11Renderer` | the editor's window, panels and files |
| `PlayerVisibilityProofs`, `LootVisibilityProofs`, `InventoryStoreProofs`, `SessionGuardsProofs`, `ServerLifeProofs`, `LevelEditorProofs` | the module named, TLAPS | proofs |
| `LootWorldProofs` | `LootWorld`, `PlayerInventory`, TLAPS | proofs about both |
| `ConnectionProofs` | `GameClient`, `PacketFraming`, TLAPS | proofs about both |
| `MC...` | the module named | constants for TLC |

### PlayerInventory and InventoryOps

`InventoryOps` defines the methods without loops. A unit place `<<slot, u>>` is room for the u-th
unit of a slot; adding n units of a kind fills the first n free places in the order the code visits
them: matching stacks by slot, then free slots by number. Counting places instead of looping keeps
the module without recursion, so theorems can use it. `PlayerInventory` runs `AddItem` as the code
does (`MergeStep` is one iteration of the `foreach`, `OpenStack` one of the `while`), and the run
checks that the loops compute the operator. A *kind* is a template with its stack limit, since
`CanStackWith` compares both; weight and names decide nothing and are left out.

### LootWorld and LootLedger

A session is a process. `TryPickupWorldItem` is split where it touches something shared:
`PickupFind` (the dictionaries), `PickupSeeActive` (the flag, read without a lock), `PickupFits`
(the quantity under the item's lock, then the inventory), `TryTakeAll` (the item's lock),
`PickupStore` (the inventory), `PickupFinish` (the object leaves the dictionary, or the undo puts
the quantity back); `PickupFail` gathers the early returns. `TryDropItem` is `DropTake` and
`SpawnWorldItem`. Distances are a free choice: a player may always be too far. `LootLedger` says
what all this amounts to: picking up moves a whole item from the ground to one player, dropping
turns units into a new item. The refinement mapping leaves an item on the ground until its units
are in an inventory, and counts a stack between `DropTake` and `SpawnWorldItem` as owned.

### PlayerVisibility

Players stand on a line; `Radius` decides who is near. `Look`, `RefreshVisiblePlayers`, `SendSpawn`,
`SendDespawn` are the update of the mover's own table; `TellNear` and `ForgetFar` update the others'
tables; the position broadcast follows; `BeginLeave`, `UnregisterPlayer`, `RemovePlayer`,
`RemoveSession` are the clean-up of a closed session. A started `SendPacketAsync` is a member of
`tasks` and may end at any time after; a handler waits for its own. A send to a session of `Stalled`,
whose client stops reading at some time, need not end before that session is closed (`MustEnd`): the
code has no timeout for a write. `shown` is what a client draws,
`sent` counts spawns minus despawns written. `alone` records that no other handler ran since this
one began: it states what an undisturbed update achieves.

### LootVisibility

The same for items, where one table can have several updates at once: a drop updates the tables of
all sessions from the dropper's handler (`upd[s][o]` is the update of o's table that s's handler
runs). Picking up and dropping are one step here, what `LootWorld` details; the inventory save
between a pick-up or drop and its broadcast is the moment between two steps, and may throw
(`SaveFails`).

### InventoryStore

A *saver* is a session or one of the two threads that run `SaveOnlinePlayers` (the autosave, and
the main thread in Stop). `SaveWith`, `ClearInventory`, `InsertItem`, `FindItemById` are the
statements of a save; any of them may throw. A session loads, gives starter items and saves them,
saves after each pick-up or drop, and saves state and inventory on leaving. A round copies the
states of everybody, saves them one by one, copies the inventories, saves them one by one. Stop is
five steps from Ctrl+C to the end of the process, which cuts every save that runs. A session of
`Guests` (a bound) logs in while no autosave round runs, and stays until the stop, before which no other
round begins: it is the second connection of the character, and the second session on the list of
Stop's round. The position and
the rest of a `PlayerState` are one value, "start" or "moved". `mine` says that the row a save has
just inserted is still there, which is all that ids of rows are needed for; `alone` that no other
save of the character has run at the same time.

### PacketRateLimiter, SessionMonitor, SessionGuards

Times are ticks and relative: ages of windows, silences of sessions, the monitor's remaining sleep.
The limiter checks the global counter, then the type's; a refusal is a violation, and the
`MaxViolations`-th ends the session. `packets` is a history: the packets of the longest window, with
type, age and verdict, numbered within their tick; the properties compare the counters with it. The
monitor wakes up, reads the clock and the sessions, and goes through them: times out the idle ones,
pings the others and *waits for each ping*. A client may answer, be silent, or stop reading; a ping
to one that stopped reading does not return before its session is closed. `SessionGuards` lets a
packet count as activity only when the limiter accepts it (the receive loop), closes the session
after the last error message, and holds the receive loop of a client that does not read.

### SessionLogin, SchemaMigrations, ServerLife

`SessionLogin` is `HandleRegisterRequestAsync` and `HandleLoginRequestAsync` with one step per
statement. Tables are sets of records, unique keys the guards of inserts; a statement may throw, a
session may be closed under its handler, the server may crash. The starter items of a login may meet
the key of a slot that somebody else's save has filled: that of a session on the same account
(`overlapped`), or that of a round which copied an earlier session of the character and writes it
late (`played`: the characters that were in the world since the server's start). `SchemaMigrations`
runs the list of statements of `Initialize`, each with what must exist for it to succeed.
`ServerLife` composes them: sessions are served while all servers are up, a crash sends the server
back to the migrations, on the tables as they are.

### PacketFraming

One direction of a connection: calls of `SendPacketAsync` compete for the send lock and write bytes
one at a time into a stream of limited capacity; a write may throw half-way; the receiver reads any
number of bytes at a time, a header, then its body.

### NetworkClient and GameClient

`at[t]` is where a thread is. Login, Register and the receive loop go through `Loop` (the flags),
`Recv` (which socket), then wait in "blocked" until the server sends (`Deliver`) or the socket is
closed (`RecvFails`), then `HandlePacket`. Stop is "flags", "close", "join", "clear" for whichever
thread called it, and `return` says where that thread goes on. `peer[s]` is the server's end of
socket s: what has been asked on it, whom it logged in, whom and what it has spawned. It may answer,
send snapshots in their order, spawn, move and despawn, kick, or close, at any time.
`BeginFrame` and `NoticeLoss` are the two halves of `UpdateGameScreenStateFromNetwork`; `Connect`,
`Request`, `Fails`, `Registered`, `LoggedIn`, `Frees`, `Listens` are `RunLogin` and `RunRegister`.

Four things are known to go wrong from time to time, and are recorded in the history variable
`mishaps`; a behaviour ends there, and the properties are about what comes before. "hasty": LOGIN or
CREATE is pressed while the thread of an earlier press is still at work, which `g_busy` does not
prevent, since that thread clears it before it calls Stop or starts the receive loop
(`main.cpp:554, 562, 642`), and so does DISCONNECT (`main.cpp:665`). "late": a login
thread connects after Stop was called for the program's end. "misread": a frame that asked for the
connection before a login connected takes the login screen back after it succeeded. "raced": a
login connects before the old receive thread has noticed its end, so two threads read one socket.

### Heightmap, EditorScene and LevelEditor

A height is an integer of 0 .. Top, a sample a number in base `Base` of as many digits as the format
has bytes. A float has as many bits as four bytes, and those above `Top` stand for numbers out of
range or for none, which a load replaces (`FloatHeight`). `Quantize`, `ByteOf`, `FromBytes` are the
conversions of `SaveRaw` and `LoadRaw`, `SquareSide` is `TryDetectSquareRawDimensions`, `SumAround`
the loop over a cell's neighbours. A name is a sequence of words, and the level file keeps the
blocks as records: `FoundAt` says where the reader's search for a quoted key ends, which is an
earlier string when that reads like the key. `Cuts` are the places where a write may end early. In
`LevelEditor` every reachable button, field and key is an action; tabs only decide where a button
is. `Writes` are the outcomes of a save (not opened; all written; cut and reported or not), `home`
records which file last made the work count as saved, `damaged` which files were cut. `Reopened` is
`LoadLevelFile` with the options of a fresh editor, which the properties use: no button leads to it
(section 8).

### SceneDrawing and Dx11Renderer

`Render` counts the vertices of terrain, water, objects and lines as functions of the terrain's size
and heights and the panels' check boxes; `Batches` is the loop of `UploadAndDraw`, which ends early
when mapping the buffer fails. A view has the size of the buffer it was made from, 0 when there is
none; `Initialize` and `Resize` return every state the failing calls may leave, `Binds` says whether
`BeginFrame` binds the views or returns early. Both renderers make shaders, buffers and states in
that order (`Creates`, `After`), and stop where one fails.

## 3. The runs

| Run | Distinct states | What it asks and shows |
|---|---|---|
| `inventory` | 11 300 | On every inventory of three slots and two kinds: AddItem stores what fits and disturbs no other stack (`AddStoresWhatFits`), computes the operator (`LoopsMatchOperator`), and does what `CanFullyAddItem` predicted (`CheckPredictsAdd`) |
| `loot` | 391 189 | Two sessions pick up, drop, join and leave: one taker per item, the undo branch is never reached (it would duplicate units), and the world implements the ledger |
| `player_visibility` | 88 568 | Two players join, move, close at any step: announcements balance the tables (`PacketsBalanceTables`), an undisturbed update repairs whatever was wrong (`UndisturbedUpdateRepairs`), closed sessions leave unless a client that never reads holds them up (`ClosedSessionLeaves`) |
| `loot_visibility` | 1 790 721 | The same for items, with overlapping updates of one table and failing saves |
| `store` | 526 063 | Two sessions of one character, the autosave and the server's stop, two errors or crashes: an undisturbed save is exact, only overlapped saves fail, a round tries everybody, a session that leaves gets out of the world though its saves throw |
| `session_guards` | 2 259 212 | Limiter and monitor together: bursts are bounded by twice the limit, polite clients are not refused, abusers end, only silent clients are timed out, those that answer pings stay |
| `server_life` | 464 551 | Two servers and two sessions, crashes at any statement: truthful answers, an accepted login plays its own character alone or its session ends, recorded migrations are complete, everybody listens in the end |
| `framing` | 2 470 | Three sends, one of them too large, cut anywhere: packets arrive whole, sends return |
| `game_client` | 721 294 | The client from start to end with logins, registrations, kicks and lost connections: nobody is shown after Stop (`StoppedShowsNobody`), what is shown is what the server says (`Mirrors`), the program ends without a connection or a device (`EndsClean`), attempts end, Stop returns, a lost connection is noticed |
| `level_editor` | 440 894 | Any four acts of the user with one failure: unique ids in scene and files (`SceneIsConsistent`), whole files come back (`LevelReopens`), "clean" means that the file gives the work back (`CleanMeansStored`), heights survive a file (`RawRoundTrip`), brushes stay in their circle and direction (`BrushIsLocal`), frames fit (`FramesFit`) and are complete up to a failing upload (`DrawsEverything`) |
| `lost_save` | violated | `SavedOnStopOrDisconnect`, section 7 |
| `relogin` | violated | `NeverTerminates`, section 7 |

Every property of a passing run has a mutant: a named variant of one definition (`Takeable_Always`,
`LeftAfter_SkipsOne`, `FarObservers_Mutual`, ...) that makes a plausible mistake and violates it.
The variants stand next to the definitions they vary.

Deadlock is checked in `inventory`. The other systems really stop: a session is used once, counters
of operations are bounded, a server that is down stays down.

## 4. Bounds

* `inventory`: three slots, limits 3 and 1, requests up to 7, so that a request can top up a stack,
  open one and two new ones and still not fit. A limit of 1 is the kind that never merges.
* `loot`: two slots, two items on the ground, ids up to 6 (two items, two players, two drops). Two
  sessions are enough for a conflict over one item; the theorems of section 6 cover any number.
* Visibility: two players on two positions with radius 0, so that one move makes them meet or part
  and each handler can overlap the other's at every step; the properties are about pairs of a
  table's owner and a player or item. Two items: one spawned by the server, one dropped. One of the two
  clients may stop reading, so that each of its neighbour's sends, and none of its own handler's, may
  hang.
* `store`, `lost_save`: a session, the autosave and the stop, so three saves of one character may
  overlap, and in `store` a guest with the same character, whose login may save starter items and
  who may be next on the list when the first save of Stop's round throws; two slots, one change,
  which tells an old snapshot from a new one; two errors or crashes in `store`, so that both last
  saves of a session can throw. The theorems cover any number of sessions.
* `session_guards`: ping interval 2, timeout 4, answers within 2 ticks: the smallest values for which
  the interval is less than the timeout and a client just has the time to answer. One session may
  stop reading and is the one the limiter guards, the other answers. Silences beyond timeout plus
  interval are not told apart. Limits 1 and 2 in windows of 1 and 2, three packets in all, two
  violations: refusals by either counter happen, with and without ending the session.
* `server_life`: two servers on one database with two errors in every start, two sessions, two
  registrations, one fault while serving.
* `framing`: headers of two bytes, bodies of one and two bytes and one beyond the limit, buffers
  of three: a header, a body and a gap can each be cut.
* `game_client`: two characters, two sockets, two logins and a registration, a status check and two
  packets besides answers and snapshots: a spawn and its despawn. Two threads of buttons, so that
  one can be pressed while the other's thread is still at work (the mishap "hasty").
* `level_editor`: terrains of up to 4 x 4 samples in base 2, an island of 3 x 3; a RAW file that is
  4 x 4 in eight bits, 2 x 4 in sixteen and, with three of four samples out of range, 2 x 2 floats;
  two names that read like keys; a vertex buffer of 96, so that lists need several batches (a
  multiple of 2 and of 3, like the code's 98304); four acts: enough to place, change, save and then
  damage or reload.
* `MaxActs`, `MaxSockets`, `MaxPackets`, `MaxChecks`, `Logs`, `Registers`, `MaxObjectId`,
  `MaxItems`, `MaxFaults`, `MaxStartFaults`, `MaxChanges`, `MaxRegisters` and `MaxRequest` bound
  counters in guards, and stand for nothing in the code.

Symmetry is not used: some runs check liveness, and the others are small enough.

## 5. Fairness

* `PlayerVisibility!FairSpec`: a handler that can take a step takes one, and its sends to clients that
  read or to closed sessions end. Handlers are tasks on the thread pool, which runs every ready task;
  closing a session closes its stream, under which a write throws. A send to an open session whose
  client does not read has no fairness: there is no write timeout. Nobody has to move or to close.
* `InventoryStore!FairSpec`: a statement returns or throws, and a session that leaves goes on.
* `ServerSpec`: a starting process goes on, and one that died is started again. Crashes are bounded
  for each start, not forbidden.
* `GameClient!FairSpec`: the main, login and receive threads run when they can. A thread waiting in
  `recv` can run when its socket is closed or the server sends, and the server does one of these in
  the end: a machine that vanishes without either is found by the operating system's keep-alive or
  not at all, and is left out. Nobody has to press a button or to close the window.
* `PacketFraming!FramingFairSpec`: the tasks run, the peer reads, a write on a closed socket throws.

## 6. Proofs

The proofs hold for every value of the constants that satisfies the named assumptions
(`InventoryAssumption`, `LootAssumption`, `StoreAssumption`, `MonitorAssumption`, ...): at least one
slot, stack limits of at least one, an initial loot of legal stacks, times that add up as
`ServerConfig.Validate` demands, no session whose id is a word the monitor's model uses for itself,
files of bytes, brushes with whole numbers, and so on. TLC evaluates the assumptions in the runs,
and the inductive invariants below were checked on the runs before they were proved.

**LootWorld** (`LootWorldProofs`, after the part on the inventory's operators): `TypeCorrect`,
`ExactlyOneTaker`, `TakenItemsStayTaken`, `PickupNeverUndone`. The invariant `IInv` adds to the
properties what the handlers remember: an item that a session works on exists (`TargetsAreItems`), a
session that emptied an item knows how much (`HoldersEmptiedTheItem`), a session outside the world
handles nothing (`IdleOutside`), and, for the undo, `CheckStillHolds`: between the check of the room
and the store, nobody but the session itself changes its inventory, so the room is still there for
the quantity the item had; and because an item's quantity is either 0 or the quantity it was made
with, the quantity taken is the one that was checked. What remains is arithmetic on the operators,
proved in the first part of the module: a request that `CanFullyAddItem` accepts has as many free
places as units (`RoundedUp` is the ceiling division), so `AddedQuantity` is the whole request.

`LootImplementsLedger` states the refinement: under the mapping of section 2 (an item is on the
ground until its units are in an inventory, units in a handler's hand are owned), the initial state
maps to the ledger's, and every step is a step of the ledger or changes nothing in it. There is a
lemma per kind of step: `AddPlayer` is the ledger's join; `PickupStore` its pickup of a whole item,
because the quantity stored is the quantity taken and `AddItem` raises the units of the kind by exactly
the added quantity; `SpawnWorldItem` its drop; all other steps are stutters, among them `DropTake`,
which moves units from a slot to the hand. The invariant gains two parts (`LInv`): idle sessions hold
nothing, and who has not joined owns nothing. What a change of one slot does to `Units` is proved by
counting unit places (`AddItemUnits`, `TakeUnits`).

**PlayerInventory** (first part of `LootWorldProofs`): `AddStoresExactlyWhatFits`, `LoopsComputeAddItem`,
`CheckAlwaysPredicts`. The loop invariant `AInv` compares the inventory of an `AddItem` that is under
way with the one it started on, unit place by unit place: what was added fills the first free places
in the order the operator says, up to the cursor, and nothing else changed. At the end of the first
loop no stack of the kind has room; the second opens the lowest free slot each time, so that the
places filled stay an initial segment of `PlacesInOrder`. That the check agrees with the add is then
`RoundedUp` against the number of free places, in both directions.

**PlayerVisibility** (`PlayerVisibilityProofs`): `VisibilityInvariant`, `BroadcastsBalanceTables`,
`LoneUpdatesRepair`. `VInv` consists of `Roles` (who is in the world and on the server follows from
where handlers are), `Lists` (which list may hold something at which place, and nobody is in his own
lists), `Tasks` (which packets a handler can have started at each place, and that none of them is
also still on its list), `Balance` and `Alone`. `Tasks` is what makes the balance inductive: a
packet enters a set of started packets only when it is not in it yet, so a set counts it like a bag
would; a spawn or a despawn about a pair can be in two handlers' tasks only, those of its receiver
and of its subject (`PendingIsDue`), so each action's effect is one lemma about four memberships.
Leaving subjects are excepted, and a session never stops leaving (`LeavingStays`). `Alone` follows
an update nobody overlaps: what it read is still true at each place, after "tell" all near see it,
on "forget" everybody who sees it without being near is on its list, so at the end the tables agree
in both directions. The others can only close, or start handlers of their own, which ends the claim.

**LootVisibility** (`LootVisibilityProofs`): `ItemVisibilityInvariant`, `ItemPacketsBalance`,
`LoneItemUpdatesRepair`, assuming only that there are finitely many sessions (`Pending` counts
them). Here any number of updates of one table may run at once, so nothing can be said of the list
one of them holds; the argument is that each step of an update changes what was sent, what it still
owes and the table by amounts that cancel (`BalanceTable`: `Shift` against `Gain`).
`RefreshVisibleWorldItems` owes exactly the difference it makes to the table, however old the list
it writes; a skipped spawn is of an item that is gone, where only "not too many" is claimed; a
pickup takes the item out of each table and owes that table's owner one despawn. Two parts of the
invariant `VInv` carry this: `Shapes`, which items an update can hold at each place (an item is to
be sent or being sent, never both), and `OnlySpawned`, that nobody has heard of an item before it
exists, which makes a dropped item start at zero. `DueChange` reduces the two counts over all
handlers to the one that moved. `Alone` follows the updates of a handler nobody overlaps: what it
has read is still what is nearby, and after its refresh so is the table (`Follows`).

**SessionGuards** (`SessionGuardsProofs`): `GuardsInvariant`, `MonitorEndsOnlySilentSessions`,
`ResponsiveClientsStay`, `PoliteClientsAreNotRefused`, `BurstsAreBounded`, `OffendersAreEnded`, for any
sessions, packet types, limits, windows and times. The monitor's part of `GuardsInv`: while every
client reads, the monitor's sleep and its last look bound every silence (`InTime`), and what a client
that answers in time still has to do bounds its own (`Answering`, `ResponsiveStay`). The limiter's part:
the packets a counter claims are exactly those of the last window it accepted or looked at
(`Counting`), whatever their number; a burst that straddles two windows is split at the younger one's
start, and each half is at most the limit (`BurstsAreBounded`). Violations only grow, and the one that
reaches `MaxViolations` is the last (`Ended`).

**ServerLife** (`ServerLifeProofs`): `SchemaStaysComplete`, `AnswersStayTrue`, `AcceptedLoginsAlwaysPlay`,
for any number of servers on one database, sessions and faults. The schema's invariant says, for each
of the twelve statements a server can be at, which tables and rows must exist; it survives crashes
because a start begins again at the first. The login's invariant relates what a handler has found (an
account, a character, that there is none) to the tables, which only grow and hold one row per login,
email and account: what was found stays true, what was not found may have come since, and then the
unique key refuses the insert. A login that failed names its cause (`FailuresHaveCauses`): a fault, a
shared account, or a character that has played since the start and may be on a round's list.

**InventoryStore** (`InventoryStoreProofs`): `TypeCorrect`, `UndisturbedSavesAreExact`,
`OnlyOverlappedSavesFail`, `RoundsTryEverybody`. Neither of the first two is inductive. `IInv` says,
of every save: while it is marked alone, no other save of its character runs (`AloneIsAlone`); after
its delete the table holds its snapshot except for the slots still to be inserted (`RowsFollow`);
and the row it looks for is there. The step that needs them all is another save's delete or insert:
it could only change the rows of an alone save if both were of one character, which `AloneIsAlone`
excludes. That the slot to insert is one of those left rests on `MinOfSlots`, a minimum of a
non-empty set of numbers, from well-foundedness. From `RowsFollow`, with nothing left to insert,
follows exactness; and since the slot is empty in the table the unique key does not refuse, so only
an error of the database fails an undisturbed save. `RoundsTryEverybody` has an invariant of its
own, `RoundInv`: while a round runs, whoever was in the world when it began and still is has been
tried or is still on one of the round's lists; it needs that a list is only shortened by trying.
Crashes and the end of the process cut all saves, and leave the invariant without anything to say.

**LevelEditor** (`LevelEditorProofs`): `SceneStaysConsistent`, `FramesAlwaysFit`, `LevelsReopen`,
`CleanIsStored`, `TerrainsRoundTrip`, `StrokesAreLocal`, `EverythingIsDrawn`, under
`EditorAssumption`, `HeightmapAssumption` and `DrawingAssumption`. `IdsInv` adds to
`SceneIsConsistent` that the objects of every level file on the disk have unique, bounded ids,
whatever the cut, since the reader takes any of them over: only then is the scene read from a file
consistent. There is one lemma per operation of `EditorScene`, one for saving (`WritingKeeps`), one
for loading (`LoadedIsGood`, which needs the maximum of a bounded set, `MaxOfBounded`), and one step
per action. `FrameInv` says of every phase whether device and renderer exist, and of every view that
it has the renderer's size: a failed `ResizeBuffers` leaves no view, so a view is never older than
the size.

The other five share `EditorInv`, which is `IdsInv` with two more parts. `ReopenInv`: every level
file on the disk was written whole from objects with their fields in place, or is cut, and names a
size the import accepts; what the reader finds after each key of a whole file is then read off,
object by object (`LevelsReopen`). `KeptInv`: RAW files hold bytes, the terrain of a running editor
is a heightmap, the file the work was saved to exists, and clean means stored. A load leaves the
editor rightly clean because the terrain is what the file gives, also where the file's floats were
out of range and the file is not what a save would write. A save does because what it writes,
loaded, gives the terrain as the format can tell it: quotients and remainders put a sample together
from its bytes and take it apart (`PlaceOf`, up to four of them), and the height of a sample is
exactly its share of the largest height, which is a multiple of each format's largest sample
(`DecodedIsQuantized`). The way from heights to bytes and back loses at most half a level by the
same division. Both hold for terrains of any size, as sample n of a file, from 0, is the cell at (n
% width, n \div width), a bijection (`TerrainsRoundTrip`). A write that fails or is cut is the case
that `CleanIsStored` turns on: it keeps the flag, or leaves a file in `damaged`. `StrokesAreLocal`
weighs old and new height: a step of `Towards` stays between them, and the average of up to nine
cells between their smallest and largest.

`EverythingIsDrawn` is about a function of the state, for a terrain of any size, any objects and any
buffer that holds a primitive. The loop of `UploadAndDraw` is a recursive function of the offset;
what it computes is found without induction, by giving a function in closed form (`Sent`: the
batches that begin at the multiples of a full one), showing that it solves the loop's equation
(`SentSolves`), and that two solutions cannot differ, because the last offset at which they did
would have a successor at which they do not (`BatchesAre`). Each batch but the last is full, so each
begins where another ends (`WholeListIsSent`), also when mapping the buffer fails for one of them
and those after it are not sent, provided the list holds whole primitives, which every part of a
frame adds (`ListsAreWhole`). `EdgeIsReached` says that the terrain stops less than a step before
its edge.

**GameClient** (first part of `ConnectionProofs`): `StopClearsTheScreen`, `ShowsWhatTheServerSays`,
`ProgramEndsClean`, for any characters, threads of buttons, sockets, packets and presses, under
`ClientAssumption`. None of the three is inductive alone. The invariant is `Inv == TypeInv /\
OneReader /\ EndsClean /\ (Going => Strong)`: until a mishap or a crash, `Strong` relates the
threads' places to the three variables of `NetworkClient` and to the server's end of the socket. One
thread of a button works at a time (`Alone`), and while it is past `Connect` the thread that
receives is not (`Rests`): Connect refuses while a connection is up, and while one is up its
receiver belongs to a login (`Reads`), whose player has no button to press (`Login`). So one thread
reads, as long as the model follows the code: the behaviours in which two do are the mishaps
"hasty", "raced" and "misread", at which the model stops, and `OneReader` is a step of the argument
and no result. Where a thread has found or made the end of the connection there is none (`Cut`),
only the socket at hand is open (`Line`), and how far Stop has come on the main thread says what is
left (`Stopped`, `Before`): that gives the clean end. Others are shown only while a receive thread
has not been joined or a Stop is about to clear (`Tidy`), which is `StoppedShowsNobody`. `Following`
is the mirror, also with a packet in hand: what will be shown once it is handled is what the server
has told; at a login it starts from an empty screen and from a server that has told nothing of the
world yet (`Serving`, `Asked`). There is one lemma per action, and within it one step per part of
`Strong`.

**PacketFraming** (second part of `ConnectionProofs`): `WholePackets`, for any number of senders,
lengths, buffers and ways to cut the stream, under `FramingAssumption`. `FramingInv` follows the
bytes from the lock to the receiver: packets are begun one after the other by the holder of the
lock, and one that failed half-way is the last, as it closes the session (`Serialised`, `Finished`);
the receiver is a number of bytes into the packet after those it has received (`InStep`), the stream
goes on where its buffer ends (`Continues`), in the stream each byte is followed by the next of its
packet, or by the first of the next packet (`Runs`), and the last byte is the last one written
(`LastByte`). Neighbouring bytes are all that is said of the stream: a write adds a byte at its end
and a read takes some from its front, which leaves the neighbours of the others as they were.

**Only model-checked**: liveness (`ClosedSessionLeaves`, `LeavingEnds`, `EverybodyListens`,
`SendsReturn`, `AttemptsEnd`, `StopReturns`, `LossIsNoticed`), since fairness and ENABLED are out of
the prover's reach. Every safety property of the runs that pass is also a theorem.

## 7. Where the code does not do what it promises

Two runs end in a counterexample, each against a line of the repository's README.

* **Lost saves** (`lost_save`). `README.md:94` lists "Save on server stop / disconnect". The autosave
  copies states and inventories first (`GameServer.cs:188, 211`) and writes them one by one; a
  session that moves, leaves and saves itself in between is overwritten by the older copy. A second
  way leads to the same property's violation: Stop closes the sessions (`GameServer.cs:691-694`),
  their own last saves begin with a delete, and the process ends without waiting for them
  (`Program.cs:31`), so an inventory that Stop had just saved may be left empty. With
  `MaxChanges = 0` the run shows this second way.
* **A second login ends the client** (`relogin`). `README.md:13` says that the client "can connect,
  login/register, receive player/world state". When the server closes the connection, the receive
  thread returns and the player is taken back to the login screen; nobody joins the thread. The next
  successful login assigns a new thread to `_receiveThread` (`NetworkClient.cpp:300`), which is still
  joinable, and C++ calls `std::terminate`. After DISCONNECT all is well, since Stop joins.

The models have more behaviours that a reader should know of; no run states their absence:

* A leaving session is unregistered from the tables at the end of `BroadcastPlayerDespawnAsync`
  (`GameServer.cs:674`) and removed from the world after it (`ClientSession.cs:658-660`). A neighbour
  that moves in between is sent its spawn again, and no despawn follows: a ghost (`PlayerVisibility`).
* The monitor awaits `SendPingAsync` (`GameServer.cs:149`); a client that stops reading fills its
  socket's buffers, the await does not return, and nobody is pinged or timed out any more.
  `OnlySilentAreTimedOut` says that this is the only obstacle.
* A send to a client that stops reading lasts until its session is closed (`ClientSession.cs:606`), and
  a handler waits for all its sends (`GameServer.cs:278, 668`): a mover, or a session that leaves, near
  such a client goes on only when somebody closes that client's session, which the monitor, held up by
  its ping to the same client, may never do. `ClosedSessionLeaves` says that this is the only obstacle.
* A login may fail without an error of the database: a round of saves that copied the inventory of the
  character's last session may still write it (`GameServer.cs:211-219`) when the next login finds the
  inventory empty and saves starter items (`InventoryService.cs:57-60`); one of the two meets the key of
  a slot. `AcceptedLoginsPlay` names the case.
* The four `mishaps` of `GameClient` (section 2). After a "hasty" press two logins overlap: both may
  read one socket, and the Stop of the first one's failure, late, closes the connection that the
  second has made and clears its screen, or leaves a socket that nobody closes (`main.cpp:554,
  563`). After the others the receiver of an old connection reads the new one, or the program ends
  connected. And a login thread that is still at work when the window closes and uses the destroyed
  client (`UsesFreed`).
* Saving a level clears the dirty flag though a sculpted terrain is only stored by Save RAW; F5 and
  New Island replace unsaved work without asking; closing the window does not ask either.
* A name or asset that reads like a key ("scale") makes the reader take a neighbour's value or the
  default (`EditorScene.cpp:146`): `LevelReopens` promises the other fields only for plain names.
* An item that was picked up stays on the screens of others when the save between the pick-up and
  the broadcast throws (`ClientSession.cs:418`), until their next update; and, since packets of two
  handlers have no common order, also when a spawn that was under way (`GameServer.cs:530`) is written
  after the despawn.
* A character with an empty inventory, by dropping everything or by a save cut after its delete,
  gets the starter items at the next login (`InventoryService.cs:57`).

## 8. What is not modelled

* Serializers, `Packet.h`: encodings without state, fields in the same order on both sides.
* `ItemRepository`: find, insert, find again, like the character rows.
* Movement: the floating-point integration of `WorldPlayer.ApplyMovement` is out of TLC's reach; a
  move is a new position, or a new state to save. In the client, turning with the keyboard sends a
  rotation that the next frame overwrites with the snapshot's.
* Overflow of `int` quantities in `CanFullyAddItem`: stack limits in the seeded templates are far
  from the largest `int`.
* float32: heights, scales and positions are integers or names of values. A height range and a cell
  size are one value.
* `LoadLevelFile` and `DrawTopToolbar` of the editor: nothing calls them, since the tabs replaced the
  toolbar. Reading a level back is what `LevelReopens` evaluates, not an action.
* The camera's flight, the mapping from the mouse to a sample, the SpeedTree asset panel; the files
  beside a RAW file that give a scale are a function `ScaleText`.
* What `Dx11WorldRenderer` draws; it draws nothing at all when the scene has more vertices than its
  buffer (`Dx11WorldRenderer.cpp:1274`).
* `UiStyle.cpp` but for the buttons of the login screen, `Dx11DebugTriangle` (unused),
  `SpeedTreeIntegration`, Dear ImGui; the remembered login's file.
* Password hashing, JSON configuration, console output: no protocol.
* The order in which several broadcasts get one send lock: in `PlayerVisibility` sends to one client end
  in any order, and one that does not read may hold up any of them. In `LootVisibility` a send to an open
  session may take as long as it likes, but nothing there is claimed to happen in the end.
* In `InventoryStore` the despawn broadcast between the saves of a leaving session and its removal is no
  step: `LeavingEnds` is about the saves, `ClosedSessionLeaves` about the sends.
* A frame whose `BeginFrame` returns early is drawn with the views an earlier frame bound and the driver
  kept; nothing is known or claimed of it.
* The client's packets have sizes the server chose: `ReceivePacket` throws on an invalid one
  (`NetworkClient.cpp:426`), which ends the receive loop like a lost connection, or a login thread by
  `std::terminate`; the server never sends one. The client's own sends are blocking and are taken as one
  step that may fail.

## 9. The plan

Done, in this order: inventory and loot with its ledger; visibility; persistence; guards, login,
migrations and framing; the client's network layer and program; the editor's scene, terrain, drawing
and program; the proofs of section 6.

Left, models: `SendLocks`, the order in which broadcasts get each other's send locks while a peer does
not read, with the monitor's ping among them; `NetworkClient` composed with
`PacketFraming`'s receiver; item templates as a further table of `SessionLogin`.

Left, proofs: the models to come, each with its invariant; and, should the provers learn to use an
induction rule with an operator parameter, what the recursive functions of `Heightmap` compute.
