# barock in TLA+

barock is a Wayland compositor: a main thread that serves the requests of
clients and the events of input devices, and one render thread per output. This
directory models the parts of it where threads, requests and object lifetimes
meet, checks them with TLC on small instances and proves the central invariants
with TLAPS. Paths below are relative to the repository.

## The system

Each component with its state, its operations, what makes it hard, and what
makes it correct.

| component | source | state | operations | hard because | correct if |
|---|---|---|---|---|---|
| Reference counting | `include/barock/resource.hpp` | control blocks: `strong`, `weak`, `data` | constructors, assignments, destructors, `lock`, casts | shared by the main and the render threads; a destructor runs listeners and destroys members | counts are the handles, an owned object lives, it dies once, its block goes with its last handle |
| Output painting | `src/core/output.cpp`, `src/main.cpp`, `include/barock/core/animation.hpp` | `force_render_`, `damage_`, `pan_`, a mutex and a condition variable per output | `damage`, `force_render`, `pan`, `paint`, the render thread | a wait without a predicate; damage arrives while layers draw; the pan is changed while a frame uses it | no wake-up lost, only seen damage reset, all damage painted; a frame shows one pan |
| Surfaces | `src/core/surface.cpp`, `src/render/opengl.cpp` | `state`, `staging`, `wl_buffer` and `wl_callback` resources | attach, frame, set_*, commit, destroy; `draw` | `state` is shared without a lock; the callback is stored twice | nothing that is gone is used, every callback and buffer is answered once |
| Signals | `include/barock/core/signal.hpp` | listeners by token | connect, disconnect, emit | listeners change while emit walks them; tokens are reused | each listener that stays is called once per emit; a token names one listener |
| Window management | `src/shell/*.cpp` | position, size, pending size and serial, window list, activated window | get_toplevel, move, resize, ack_configure, raise, activate | drags span many events, clients leave in between, acknowledgements come late | the size is one the client acknowledged; a drag ends with its button; the list holds each window once |
| Seat and focus | `src/core/wl_seat.cpp` | seats by client, weak pointer and keyboard, two focuses | bind, get_pointer, get_keyboard, mouse and keyboard events | resources go in any order; the focus search repeats until two tests agree | events go to the focused client's own devices; the search ends |
| Surface tree | `src/core/wl_subcompositor.cpp`, walks in `src/core/surface.cpp` | `children`, `subsurface` | get_subsurface, set_position, root, position, lookup | the parent may be a descendant; children go first or last | the walks end and agree |
| Shared memory | `src/core/shm.cpp`, `src/core/shm_pool.cpp` | mapping and buffers of a pool | create_buffer, resize, destroy | resized while a render thread uploads | a buffer's bytes are mapped when they are read |
| Geometry | `src/core/region.cpp`, `include/barock/core/quad_tree.hpp` | rectangles, tree of points | sum, difference, union; insert, query, clear | half-open against closed bounds | the tree holds what was inserted; queries find it |
| Outputs, CRTCs, cursor | `src/core/output.cpp`, `output_manager.cpp`, `cursor_manager.cpp`, `src/script/output.cpp` | plan of CRTCs, modes, neighbours, the output of the cursor and its listener | adopt, mode_set, configure, set_adjacent, adjacent, set_output, transfer, motion | greedy choice; render threads set modes and emit to the cursor | one CRTC each; the cursor is painted by the output it is on |
| Page flips | `include/drm/minidrm.hpp` | event data per flip, buffers locked, `last_bo` | construct, mode_set, swap_buffers | threads read each other's events from one descriptor | each flip completes for its waiter; what is on display is not drawn into |
| Hotkeys | `src/hotkey.cpp`, `src/script/hotkey.cpp` | the chord, sequences by length | set-key, add, feed | sequences overlap | the longest match fires, its keys are consumed once |
| Scripting | `src/script/`, `include/barock/script/` | hook lists | add-hook, remove-hook, dispatch | hooks change while dispatched | each hook that stays is run, and is rooted while listed |

The interactions: a client's request changes a surface and wakes a render thread
through the shell's `on_damage` listener and the output's condition variable;
the render thread reads the surface, answers its callback and releases its
buffer, under no lock that the client's requests take, but that of the output in
`damage`; both hold everything through the handles of `resource.hpp`; input events
reach cursor, seat, hotkeys and running drags through signals in the order those
connected; a script, on the main thread, registers hotkeys and hooks, configures
outputs and pans them, and its hooks on motion and clicks are listeners of those
same signals, which may move windows and the cursor while an event is emitted. `PROJECT.json` lists every component with its status, and every
hazard at its line, those no property covers yet included.

## What is modelled

**`RefCount`**: `shared_t` and `weak_t`. `sh` and `wk` say which control block a
handle holds, `strong`, `weak` and `block` are the block, `data` the object. A
step is one access to an atomic counter with the thread's private accesses that
follow it, so any two threads interleave as two atomic accesses do. An operation
of two accesses to counters (assignments, `lock`) leaves its rest in `op[t]`;
destruction in progress is on `stack[t]`, because the destructor of an object
releases its members (`Home`) and runs listeners before `~shared_t` continues.
The program is built with `-fsanitize=address`, so a use of a freed block ends
it; `fault` records that. The load of the other counter and the `delete` after
it are one step (`FreeIf`). A handle is used by one operation at a time
(`Busy`), as the code does; assignments go between handles that are not
members. `MinWeak` bounds how far the weak count may fall, which the code does
not bound. `Ops` says whether a program uses `lock()`, a listener that releases
a weak handle, and the copy assignment of `weak_t`.

**`Ownership`** is what `RefCount` implements: sets of owners and observers
instead of counters, and a life from unborn to reclaimed.

**`RenderLoop`**: `pc[o]` is the render thread of an output: before its first
wait, waiting, woken, painting, drawn. It holds the mutex whenever it does not
wait, so the main thread's locked sections are single steps with the guard
`Unlocked`; the notification of `output_t::damage` comes after the unlock and is
a step of its own (`Notify`), that of `force_render` is inside. `DrawLayers`
reads the surface's committed version and the damage, `Present` flips and
resets. Condition variables may wake spuriously. Damage is a set of rectangles,
not the tree that stores it (that is `DamageTree`); `MaxVersion` bounds a client's
commits. A client's `wl_surface.damage` reaches the output through the shell's
listener (`SurfaceDamage`), which forces a frame of the whole output.

**`Surface`**: one `wl_surface`, its two states, the client's buffers and
callbacks, and `draw` in the steps in which it reads `state` again. Requests come
between any two of those steps. `Ops` names what a client or the schedule may do
beyond attaching a buffer and asking for a callback with every commit; the run and
the proofs have all of it. `Attr` are the members a request only stores;
`state.damage` is left out because nothing reads it, and the flush of events
and the recursion into children are left out. `asked` and `held` are the
client's side: a frame request without its commit, and buffers not given back.
`due` says that damage has notified the render thread; a commit does not.
`disturbed` is a history variable: it records the steps after which the code
keeps no promise, so that the properties need not exclude them.

**`Signal`** is `signal_t` as a value: a function from tokens to listeners,
`Connect`, `Disconnect`, and what `emit` goes on to (`Later`). The loop of `emit`
belongs to the module that uses it.

**`Shell`**: the windows of one output, the drags, and the focus of the seat, on
the main thread. `moves` and `clicks` are the two signals of the input manager;
`emission` is the event being emitted and the token `emit` is at. A request is a
step between two emissions; in an emission, a step is one call of a listener
(`MoveCursor`, `FindFocus` .. `KeepFocus`, `ClickWindow`, and the two listeners
of each drag), so listeners disconnect while `emit` walks the map they are in.
The search of `wl_seat_t::on_mouse_move` is a step for each of its rounds. `xdg`
holds the members of `xdg_surface_t`, `drag` the `_data` that the listeners of a
move or resize share, `sent` the configure events, `told` what clients were last
told about their state. The listeners of a resize own the `wl_surface`, those of
a move do not, which decides what survives its client (`HasSurface`, `Lock`);
`fault` records a null pointer that is used. Positions have one coordinate, a
window has no offset and no subsurface, and there is one output. A client may at
any time leave with a window, unmap it, and acknowledge late.
Positions and the cursor are floats in the code and count grains here, `Grain` to
a pixel; `Whole` is the conversion to `int`, toward zero, that the listeners of a
drag make of offsets and of the position they begin with, and that
`get_workspace_position` makes of the position of a window. So the seat has two
tests for a window under the cursor, as in the code: `Contains`, of
`by_position`, compares floats, and `StaysIn`, of `on_mouse_move`, uses the
truncated position.
Scripts act in three places. A listener of each signal (`"script"`, connected
after the cursor's and the seat's, before any drag) runs the hooks of
`mouse-move-hook` and `mouse-button-hook`; between events the hooks of hotkeys run. Either
may put a window at any of `Places` (`ScriptPlaces`), raise one (`ScriptRaises`) and
put the cursor anywhere (`ScriptPoints`), as often as it likes, before the listener
returns (`ScriptReturns`). `emission.scripted` records that a hook of this event
did.

**`Seat`**: which objects of a client hear of the focus. `seats` is the map of
`wl_seat_t`, `clientOf` and `device` are the resources that live, `stored` the weak
handles of each `seat_t`, `entered` what a `wl_pointer` or `wl_keyboard` was last
told. Each call of `set_mouse_focus` or `set_keyboard_focus` is one step, and a
drag makes two in one step. `Shell` models which surface is chosen; here any may
be, of any client, under the conditions of `on_mouse_move` and `on_mouse_click`.
A client binds the seat and asks for devices as often as it likes, and releases
them in any order. A weak handle whose object is gone is `Null`, as `lock` answers. A client that
disconnects takes the steps of its releases in some order, as libwayland
destroys its resources one by one. A surface that its client
destroys is gone at once; a resize keeps it a little longer, which is in `Shell`.

The last seven modules, with `Seat`, model parts that share no state with each
other; they are checked together (`MCDesk`, `MCProgress`).

**`DamageTree`**: `damage_`, the quad tree of an output. `objects` maps the cells
that are not divided to the nodes they hold. A call of `insert` is a step; those
that a division still has to make are in `todo`, and the output's mutex keeps
everything else out until it is empty. `inserted` is what a query is judged by.

**`Script`**: `chord`, `actions` and `maxActionSize` of `hotkey_t`, the hook lists
and the roots of the interpreter's collector. `calling` says why the script runs
now: a function that is called may itself add and remove hooks and set keys, so
`dispatch` keeps where the loop that called it is. Tokens of a hotkey string are
model values; `OccursIn` says which is part of which, because the parser finds a
token by where its text first occurs.

**`Outputs`**: the plan of CRTCs that `output_manager_t` makes, modes and
adjacency as a configuration sets them, and the listener that paints the cursor.
Each render thread sets the mode of its output and calls the cursor's one-shot
listener in two steps (`ListenerLeaves`, `ListenerEnters`), and the main thread
moves the cursor in two (`MoveBeyond`, `MoveEnds`): nothing locks them, and they
interleave. `overlapped` records that two threads were in `set_output` at once. The
position of the cursor is left out: any motion may leave its output in any
direction.

**`PageFlip`**: a render thread from the construction of its framebuffer on, with
the buffers its GBM surface may hand out. The DRM file is shared: `ReadEvents`
takes all the events, whosever they are, and `HandleEvent` sets the flag of the
flip an event is of. The display (`VBlank`) and the choice of a free buffer are
external. Any call may fail (`Throws`) and end the program.

**`Panning`**: one coordinate of the pan of an output. The main thread stores the
fields of a new animation one by one, in any order and without a lock, while the
render thread samples them for each window and for the cursor and adds the time
of the frame in a read and a write. Easing is a table; places are parts of a
pixel, because `is_visible` compares whole pixels. `asked`, `target` and
`disturbed` record what the property compares with.

**`SurfaceTree`**: the two links of the tree, `children` and `sub`, each in both
copies of the state, and the walks `root`, `position`, `full_extent`, `lookup` and
`draw` as recursive functions. Of a buffer its size is kept. A client may make any
surface a subsurface of any other, again and of its own descendant included.

**`ShmPool`**: `regions` is what is mapped, `data` what each pool points to; pools
and buffers live by their owners (`PoolOwned`, `BufferOwned`). A resize unmaps and
maps in two steps, and the mapping may fail (`Failed`). An upload begins and ends
between any two steps of the requests.

## Runs

| run | module | question | states |
|---|---|---|---|
| `MCRefCountOne` | `RefCount` | one thread, two objects, a member handle, `lock()`: does the implementation keep its counts, use nothing that is freed, leak nothing, and implement `Ownership`? | passes |
| `MCRefCountTwo` | `RefCount` | two threads, listeners, and assignments that miscount observers: are the strong counts exact, owned objects alive, deaths single? | passes, 160k |
| `MCRefCountListener` | `RefCount` | may a listener release the last weak handle of the object being destroyed? | no: the block is freed under `~shared_t` |
| `MCProgress` | `RenderLoop`, `PageFlip`, `Shell` | what must get on, each part by itself. Two outputs: are wake-ups kept, only seen damage reset, all damage painted, the screen at most one request behind? Their flips: is what is on display held, does each flip return to its thread? One window, two drags, hooks: is each event of the pointer dealt with? | passes, 150k |
| `MCRenderLoopCommit` | `RenderLoop` | does what is committed with damage get on the screen? | no: `damage` wakes, `commit` does not |
| `MCSurface` | `Surface` | a client that does anything between any two steps of `draw`: does a fault need a step of those recorded, and until one, are callbacks and buffers answered once, and after damage at last? | passes, 124k |
| `MCSurfaceMidBatch` | `Surface` | is a draw between `frame` and `commit` safe? | no: `staging` keeps the destroyed callback |
| `MCShell` | `Shell` | two windows, a move, hooks, fractions of a pixel: does the list keep its windows, the clients their state, the focus its window? | passes, 1.7M |
| `MCShellResize` | `Shell` | one window, two drags that move and resize it, hooks, late acknowledgements: do drags keep their listeners, does a release end them, is the acknowledged size the one sent, does a moved window stay at the cursor? | passes, 1.6M |
| `MCShellLeave` | `Shell` | is the list safe when a client with a window leaves? | no: `by_position` uses a surface that is gone |
| `MCSeatAnyOrder` | `Seat` | does a seat take its devices with it, in whatever order a client destroys them? | no: a keyboard that goes first makes the seat forget its pointer |
| `MCDesk` | `Seat`, `DamageTree`, `Script`, `Outputs`, `Panning`, `SurfaceTree`, `ShmPool` | each by itself: do events go to objects that live and are the client's own, who are told to leave what they entered; is damage found again, each hook called and rooted, each CRTC given once and the cursor painted where it is, each frame of one pan, the pointer only on what is drawn, and memory mapped while somebody owns it? | passes, 584k |

In `MCDesk` and `MCProgress`, `part` is chosen at the start and only that part takes
steps. This is sound because no action of one of these modules reads or writes a
variable of another; interleaving them would only multiply the states. In
`MCProgress` the fairness of a part is what its own module asks for, with `part` in
it where the others would be enabled.

Bounds. Two strong variables and a member, two weak ones: an assignment needs
two, a chain of destruction needs a member, and a release that races a copy
needs a second owner. Two threads give every pair of racing operations. Two
outputs show that a notification of one does not serve the other. Two buffers
and two callbacks are double buffering and a callback superseded by another.
Two windows are needed to raise one above the other and to activate one
after the other, two drags for a listener that disconnects between two others.
`Grain` parts of a pixel are told apart: two or three, so that a position lies off
the pixels and the truncation cuts a part of it. `Reach` is where the cursor may be
(in a window, in the part that is cut off, and out of it), `Places` where scripts
put windows (at a fraction, so that a drag that begins there has something to
truncate), `Far` how far from the origin a drag may begin, which keeps the
positions finite, `MaxSerial` the resizes, and `Extent` the buffers, a pixel
or two wide. Windows and resizes are in two runs because together they have too
many states: the first has two windows and a move, the second one window that is
moved and resized twice, by two drags at once or by one after the other. Its
constraint `DragsMeetEarly` lets the drags meet, as two moves, two resizes or one of
each, until a release has sent a size; a resize that begins later, when the size
sent last may not be acknowledged yet, is the only drag. The theorems have no such
bound. In the first a drag from the one end of `Reach` to the other puts a window where
the cursor is on its edge, and the place of a script puts one where the two tests
of the seat disagree. Two seats and two devices let two clients have a seat each,
one client have both kinds, or bind and ask again; two surfaces of one client and
one of another show a focus that moves within a client and between clients. But for that
constraint the runs explore their whole state spaces.

In `MCDesk`: an output of 27 by 15 divides twice, has cells of
odd sizes and damage on their borders, outside, and between them, and eight nodes
are four damages between two frames. Four registrations let a callback add and
remove others under the loop that calls it. Four connectors on three CRTCs have
one that is only served by its second encoder and one that finds none. Two
threads read each other's events, and three buffers are what a surface needs
with one on display and one to come. Two places to pan to, in half pixels, and
an animation of two frames show a frame before, during and after a pan, with a
window that leaves the screen at a fraction of a pixel. Three surfaces with
`MaxSubsurfaces` = 2 requests of `get_subsurface` make a chain, siblings, a cycle of two,
a surface that is its own parent, and one that is asked for twice. Two pools, two buffers and three mappings let a pool be
resized and destroyed before or after its buffers.

Deadlock is not checked in `RefCount` (a program ends when its objects are
gone, or with a fault) and `Surface` (a client stops when its callbacks are
used up), in `Shell` and `MCProgress` (a null pointer ends the program, once a
client has left) and in `MCDesk` (an exception ends the program, clients and scripts
use up what they may create).

Each property of a passing run has a mutant in `PROJECT.json`: a definition
changed as a bug would change it (`CommitKeepsPending`, `DamageOutputUnlocked`,
`AcquireUncounted`, ...), kept beside the definition and used by no run. With
it, the run finds the property violated.

## Fairness

`RenderLoop` asks for weak fairness of `Notify` (the main thread does not stop
between an unlock and the next line) and of each render thread's own steps: it
runs when it can, and nobody keeps the mutex from it, because the main thread's
locked sections are finite and end in the same step. `Surface` asks for weak
fairness of a thread that damage has notified (`due`), which paints as
`RenderLoop` shows (`DamageIsPainted`), and of a draw that has begun. It asks for no
draw after a commit alone, because a commit wakes nobody (`MCRenderLoopCommit`): a
client that commits without damage afterwards may wait for its callback and its
buffer for ever, and `FrameAnswered` and `BufferReturns` begin with `due`. `Shell`
asks for weak fairness of `Listener`: once `emit` has called a handler, the thread
runs it to its end, and a hook returns. Clients owe nothing: no request is fair, and
no event of a device.
`PageFlip` asks for weak fairness of a thread that waits for its flip (its loop
polls until the flag is set) and of the display (`VBlank`: it keeps blanking).

## What is proved

`RefCountProofs`, for all sets of handles, objects and threads:

* `TypeCorrect`.
* `StrongCountExact`: the strong count is the number of owners, with every
  operation in use. The invariant alone is not inductive: an assignment that
  has dropped its old block is about to bind a handle, and must find it empty
  and be alone in using it. `CountInv` adds this (`TargetsEmpty`,
  `TargetsPrivate`) and that a block not made yet is not counted
  (`FreshUncounted`).
* `OwnedIsNeverDestroyed` and `NeverDestroyedTwice`, assuming that `lock()` is
  not used: a handle is then only filled from one that owns the object, so what
  is being taken down has no owner and finds none (`LiveInv`).
* `WeakCountIsExact`: the weak count is the number of observers, assuming that
  no `weak_t` is assigned by copy, which does not count. `WeakInv` is to weak
  handles what `CountInv` is to strong ones.
* `PlainNeverTouchesFreed`, `PlainNeverLeaks` and `PlainImplementsOwnership`,
  assuming `Plain`: either no `weak_t` at all, on any number of threads, or one
  thread, with of the optional operations at most `lock()` and no `weak_t` that is
  a member of an object. The run has such a program of one thread. Each condition
  is needed: two threads that release the last strong and the last weak handle
  together both free the block; a listener, or a weak member, that is the last
  observer of the object whose destructor runs frees the block under `~shared_t`
  (`MCRefCountListener`); a copy assignment miscounts. The counts alone say nothing
  of the block, so `PlainInv` ties its life to that of the object (`Phases`), and
  describes the nests of destructors: they run one inside the other (`Nested`),
  each for another object, on whichever thread (`Apart`), and the frame of each
  says how far its object is (`Stages`). A promotion is between its test and its
  increment only while nothing is being destroyed (`Promotes`). The refinement
  follows from `PlainInv`: each step of a counter is a step of the sets of owners
  and observers, or changes none of them.

`RenderThreadProofs` has three modules of what a render thread does.

* Of `RenderLoop`, for all outputs and rectangles: `TypeCorrect`, `WakeupsAreKept`
  and `OnlySeenDamageIsReset`, from `WakeInv`: damage and flags change under the
  mutex, which a painting thread holds, so a thread that goes to sleep with work
  to do is one whose notifier has not notified yet. And `SleepsOnNothingOld`: once
  a client has posted damage for its next version, a thread that sleeps after a
  frame has the committed one on the screen.
* Of `DamageTree`, for outputs, thresholds and damages of any size, from `TreeInv`:
  `TreeTypeCorrect`; `OneCellForEachPoint` (the leaves tile the output, so
  `insert` always finds a leaf, as its assertion at `quad_tree.hpp:73` says);
  `QueryIsComplete`. A query is complete only while nothing is to be placed, so
  the invariant says where every node is meanwhile: in `todo` or in one leaf.
* Of `PageFlip`, for all outputs and buffers, assuming `LastIsForeign` (`last_bo`,
  which nothing initialises, does not start as a buffer of the output):
  `FlipTypeCorrect`, `ScanoutIsHeld`, `FlipDataIsThere`, and `NoFlipIsLost`: while a
  thread waits its event is to come, in the file or in somebody's hands. `FlipInv` adds that the
  event of a flip is in one place (`OneEvent`), that a thread has events in hand
  only while it waits (`WaitsForFlip`), and which of its two locked buffers the
  display shows (`BackIsHeld`, `ShowsBackOrLast`).

`SurfaceProofs`, for all buffers, callbacks and attributes, every `Ops`, and requests
between any two steps of a draw:

* `TypeCorrect`, and `FaultsAreDisturbances`: a fault needs one of the steps that
  `disturbed` records: the buffer is exchanged during a draw (a commit, a detach), a
  callback is asked for before a draw has answered the last, a draw begins between a
  frame request and its commit, or a `wl_buffer` is destroyed that the client has not
  got back. Until one of them, `NoCallbackDangles`, `ReleasesAreOwed` and
  `AnsweredBeforeDestroyed`. All follow from `SurfaceInv`: what each step of a draw
  relies on of the step before (`DrawInv`), and that what is shown or about to be
  is a buffer with a resource (`BuffersLive`, `AwaitedIsHeld`), each as long as
  nothing is disturbed.
* `DrawsAnswer`: a draw takes a callback out of the state only when it answered it or
  when it is yet to be committed, ends with none left, and the buffer it released is
  back.

`ShellProofs`, for all windows, drags and bounds, from `ShellInv`:

* `TypeCorrect`, `EachWindowListedOnce` (raising is a permutation of the list)
  and `OneIsActivated`.
* `TokensAreOwn`. A new token is one more than the largest, so this needs that
  there is a largest (`Bounded`, an invariant of its own: no signal has
  unboundedly many listeners) and that `emit` is at a listener that is still
  connected (`EmissionInv`), without which a handler might run for a drag that
  has ended.
* `ReleaseEndsDrags`, which follows with one invariant more, `DragsAreAhead`:
  while a release is emitted, the drags that are left come later. A listener
  that disconnects itself leaves the later ones in place, and `emit` skips none.
* `MovedWindowsFollow`: with `Follows`, which says it of the drags that the
  emission of a motion has passed; the others still have the position of the
  motion before. It is the order of the tokens that makes it true, because the
  cursor and the hooks connect before any drag: what a hook does to the window or the
  cursor, the drag corrects. It holds to within a pixel, which is what `Whole` may
  cut off (`WholeIsNear`).
* `PointerIsOnItsWindow`. The search of the seat ends with a window that `StaysIn`
  or, through the list, with none that `Contains` the cursor, whether or not windows
  lie at fractions of a pixel. The list holds the windows with a role only, so a
  window without one must have no extent that the cursor could be in (`Roleless`).
  `Sought` carries it over the listeners that follow.
* `EventsAreWorkedOff`: finitely many listeners are ahead of `emit`, also while
  drags begin and end, and each step of an emission that is not the call of a hook
  passes one of them or brings the search of the seat nearer to its end (`Search`):
  the window it finds is one that its next round keeps, so it takes two rounds at
  most. The exception is `SearchRestarts`, a window that `Contains` the cursor and that it
  is not in by `StaysIn`. `OnlyFractionsRestart`: this is a window that a script put at a
  fraction of a pixel, for clients and drags only put windows at whole ones
  (`ScriptsPlaceFractions`).
* `AcknowledgedIsSent`, whenever clients acknowledge: `Answerable` says that the
  pending size is the one last sent unless the window is being resized, which is the
  one case that the property excepts.
* `OnlyLeavingFaults`: a null pointer is used only after a client left while it had a
  window (`Gone`), so that `MCShellLeave` shows the only way there. Until then, by
  `Staying`, whatever the seat, the shell and the drags refer to has its role and
  its client.

`SeatProofs`, for all clients, surfaces, seats and devices:

* `TypeCorrect`, `MapIsTrue` and `StoredIsTrue`: from `SeatInv`, their conjunction,
  which is inductive.
* `LeaveIsTold`, in whatever order clients bind, ask and release. A leave goes to
  whatever the owner of the surface has stored at that time, so the property is of
  the devices that `find` and `lock()` give, and `ToldInv` says that such a device, if
  it entered a surface, entered the one in focus, and that the surface is its
  client's. That no device outlives its seat is false (`MCSeatAnyOrder`).

`OutputsProofs`, for all connectors, encoders and neighbours: `CrtcPlanIsSound`,
from the order in which connectors are adopted; `OutputsTypeCorrect` and
`CursorIsPaintedOnce`, however render threads and the main thread overlap in
`set_output`, from `OutputsInv`: while nobody is half-way through it, the output the
cursor is on paints it, and until two were in it at once nothing else does
(`PaintedUnlessMoving`, `OneMovesAtATime`). After such an overlap a listener may stay
on an output that the cursor left, so only the first half is promised.

Also in `OutputsProofs`, of `Panning`, for all windows, sizes, easings and frame
times: `OnePanPerFrame`, from `PanInv`. It says where a sample may lie: between two
places that were asked for (`Aims`), and how what a frame has painted so far was
computed from it (`Painted`), with the truncation to whole pixels bounded by a
lemma. It holds however the stores of the main thread and the read and write of
the render thread overlap.

`ScriptProofs`, for all functions, events, keys and strings, from `ScriptInv`:
`RootedWhileRegistered` and `WalkRunsEveryHook`. Registrations are told apart by
their numbers (`Numbered`), and a function called from a list may change that
list, so `Walk` says that what has run is before the place of the loop unless a
hook at or before it was removed, and what is after it has not run. Also
`ScriptTypeCorrect`, `ChordGrows` and `ChordIsBounded`. A press forgets one key at
most and a hit only those it consumed; a hotkey string without a key that is found
hits without consuming any, and then nothing is forgotten. So `ChordGrows` says that
the chord exceeds the longest sequence only by a press that hits such a hotkey, and
`ChordIsBounded` that it does not before one is set.

`ClientProofs` has two modules of what a client builds with its requests.

* Of `ShmPool`, for all pools, buffers and surfaces, whatever overlaps an upload and
  whichever mappings fail: `ShmTypeCorrect` and `ShmMappedWhileOwned`, from `ShmInv`.
  It adds that a mapping belongs to one pool (`OwnRegion`) and that during the two
  steps of a resize the old one is gone (`MapsOwned`). What is read under an upload is
  then mapped because the surface that shows it owns its buffer, and that its pool,
  unless the pool is the one being resized.
* Of `SurfaceTree`, for all surfaces, places and sizes and whatever the client asks
  for: `SceneTypeCorrect`; `TreeIsWhatWasAsked`, that both copies of both links are
  exactly the requests so far (`LinksFollowRequests`); and `PointerMeetsDrawn`. Its
  premise is on the requests, not on the code: no surface was made a subsurface twice
  (`AskedOnceEach`) and none of one below it (`NoneBelowItself`), which the comments in
  `get_subsurface` demand and nothing tests. Then the links name each other (`Linked`)
  and the surfaces have levels, each parent's above its children's (`Forest`). Each
  walk is a recursive function, defined by an equation; that the
  equation has a solution, and only one, on a forest is proved from its levels
  (they have a least element, so the first surface where two solutions differ, or
  where none exists, contradicts its equation). This is the proof that the walks
  end. What they compute is then compared level by level: what `draw` reaches from
  a root are the surfaces whose `root` it is, each at its `position`.

The assumptions on constants are in the modules that declare them: that handles,
events and objects are told apart from each other and from the value for none,
that handles and events are finite in number, that bounds and sizes are numbers,
and what is needed of the easing (from 0 to its full scale, never outside).

The type invariants of all modules with a state are proved, and are in no run.

Only model-checked are the liveness properties (`DamageIsPainted`,
`LagsOneRequest`, `FrameAnswered`, `BufferReturns`, `EmissionEnds`,
`EveryFlipReturns`): temporal reasoning from fairness is out of the prover's reach.
What they need beyond fairness is proved: that nothing is waited for in vain
(`WakeupsAreKept`, `SleepsOnNothingOld`, `NoFlipIsLost`), that a draw ends what it
begins (`DrawsAnswer`), and that an emission gets on (`EventsAreWorkedOff`). With
`lock()`, `OwnedIsLive` is part of `PlainInv` and so proved of one thread; of two it
is false.

## Where the code does something else than it says

Runs show five of these (the findings). The models show more. Where an option is
named, a run does without it and TLC finds the behaviour when it is added; where
none is, the model has the behaviour, and the properties except it by name or
promise only what is left:

* `lock()` (`resource.hpp:647`) tests and increments in two accesses; with two
  threads and `"lock"`, an object is destroyed under its new owner
  (`OwnedIsLive`), against `resource.hpp:629`.
* the last `shared_t` and the last `weak_t` released together both delete the
  block (`resource.hpp:192`, `NoUseAfterFree` with two threads).
* copy assignment of `weak_t` (`resource.hpp:617`) does not count
  (`WeakCountsObservers` with `"weakCopyAssign"`), against `resource.hpp:39`.
* a notification before the render thread first waits, and the `force_render_`
  an output starts with, are lost (`main.cpp:96`): nothing is painted until the
  next request. This is why `NoLostWakeup` and the liveness properties speak of
  outputs that have shown a frame.
* `draw` destroys a callback it has not answered when another is asked for between
  its `done` and its destruction (`opengl.cpp:316` reads `state.pending` again), and
  releases a null buffer, or one not owed, when a commit or a detach falls into it.
  `FiredFirst` and `ReleaseIsOwed` hold until such a step (`disturbed`).
* when a client destroys a `wl_buffer` that is shown, `draw` releases a null resource
  (`opengl.cpp:317`), although `wayland.xml:1516` allows it; another `disturbed` step.
* a commit notifies no render thread (`surface.cpp:191`), so that callback and buffer
  wait for the next damage (`MCRenderLoopCommit`); `FrameAnswered` and `BufferReturns`
  begin with it.
* a repaint uploads a buffer that was given back (`opengl.cpp:296`).
* `attach` with NULL acts at once (`surface.cpp:269`); a commit without attach
  removes the content (`surface.cpp:196`), and every commit resets the pending
  attributes (`surface.cpp:205`), against `wayland.xml:1621`.
* a NULL input region goes to the opaque region (`surface.cpp:300`).
* a callback that a later request supersedes is never answered
  (`surface.cpp:254`), and a buffer committed without a callback is never
  released (`opengl.cpp:314`). This is why `FrameAnswered` and `BufferReturns`
  speak of what is awaited, damaged and not superseded.
* an acknowledgement takes the pending size of now (`xdg_surface.cpp:81`), which the
  next resize may already have changed: the exception in `AckGetsWhatWasSent`.
* the seat adds positions into an `ipoint_t` (`wl_seat.cpp:277`) and `by_position`
  compares floats (`xdg_wm_base.cpp:163`). Of a window that a script put at a fraction
  of a pixel, the last part of a pixel is in it by the second test and not by the
  first: the seat finds the window, loses it and starts again for ever
  (`wl_seat.cpp:518`). `EmissionEnds` fails without the exception `SearchRestarts`.
* a moved window follows the cursor in whole pixels (`xdg_toplevel.cpp:195`), so
  `WindowFollowsCursor` speaks of less than a pixel.
* a resize that returns to the size it started from keeps the pending size it
  had before (`xdg_toplevel.cpp:297`), and sends that.
* a resize from the left edge that reaches the least size still moves the
  window (`xdg_toplevel.cpp:288`), so its right edge moves.
* a drag takes the focus away (`xdg_toplevel.cpp:178`), and the next motion
  gives it back (`wl_seat.cpp:496`), as the seat knows of no drag; so
  `FocusFollowsPointer` speaks of motions without one.
* the release of a resize tells the active window that it has no state
  (`xdg_toplevel.cpp:322`); this is why `OneActivated` is an inclusion.
* the release of a keyboard clears the pointer of its seat (`wl_seat.cpp:195`): the
  pointer is not told to leave, hears of nothing more, and stays when its seat is
  released (`MCSeatAnyOrder`), against `wl_seat.cpp:108`, "this handler automatically
  destroys the resource of any stored pointer".
* the devices of a second seat of a client are never found, and of two devices of a
  kind only the last is told (`wl_seat.cpp:136`, `177`). This and the former are why
  `NobodyStaysEntered` speaks of the devices that `find` and `lock()` give.
* a device that is made while a surface of its client has the focus is not told
  enter until the focus changes (`wl_seat.cpp:177`); this is why
  `NobodyStaysEntered` is an implication.

In the parts of `MCDesk`:

* a surface may become its own ancestor (`wl_subcompositor.cpp:125`), and `root`,
  `position` and `draw` do not end, or get two objects and be drawn twice;
  `wl_subsurface.destroy` does nothing, so a client that recreates its subsurface
  gets there in good faith. `PointerMeetsWhatIsDrawn` is about the requests that the
  comments in `get_subsurface` allow.
* `lookup` takes the first child that is hit and `draw` paints the last on top;
  its tests that skip a child miss grandchildren at negative offsets. So
  `PointerMeetsWhatIsDrawn` says that what is found is there, not that it is what
  the user sees, nor that all that is drawn is found.
* an upload reads a pool that a resize has unmapped (`shm_pool.cpp:104`), a buffer that
  a commit has taken off its surface and whose pool has gone, or a pool that points to
  `MAP_FAILED` (`shm_pool.cpp:110`). `MappingOutlivesBuffers` promises that nothing else
  takes the memory away: not the destruction of pools and buffers, nor the resize of
  another pool.
* the sum of two regions has its far corner as its size (`region.cpp:21`) and the
  difference is the intersection (`region.cpp:32`); nothing reads either.
* a motion, or another thread's mode set, between the halves of `set_output` leaves a
  listener behind and the cursor is painted twice (`cursor_manager.cpp:140`): why
  `CursorPaintedWhereItIs` promises "once" only until the first such overlap. A motion
  before the first mode set uses `output_` before anything is assigned to it.
* `configure` after the mode is set changes `mode_` without setting it; `damage_`
  has the size of the first mode, so that damage beyond it is ignored
  (`output.cpp:69`). A connector without a CRTC ends the program with an
  exception of its thread.
* the vertical position is clamped with the width (`cursor_manager.cpp:317`),
  against the comment at `cursor_manager.cpp:306`.
* `last_bo` is not initialised (`minidrm.hpp:229`); the buffer that `mode_set`
  shows has been released, so the first frame may be drawn into what is on
  display: `ScannedOutIsHeld` speaks of flips. EGL refuses the one context on a
  second thread, and with `SharedContext` false one output alone gets a frame.
* the third argument of `output/pan`, "skip-animation", is inverted
  (`script/output.cpp:230`). A pan wakes no render thread and asks for no next
  frame, so an animation proceeds with frames that others request. Frames in
  which the pan changes mix two animations, and an update that is lost may undo a
  skip (`output.cpp:268`): `FrameShowsOnePan` speaks of frames without a pan in them,
  and of the end of the animation whatever was lost. Visibility is tested in
  whole pixels, so up to two pixels of a window may be missing.
* a key of a hotkey string is only found if its text does not occur earlier in
  the string, as in "Super+p"; the action then fires on every press with any
  modifier latched (`script/hotkey.cpp:39`, `hotkey.cpp:40`, `hotkey.cpp:60`).
  Such a hit consumes no key and skips the trim of the chord, which then grows
  without a bound (`hotkey.cpp:62`): the exception in `ChordGrows`.
* a hook that removes itself, or one before it, has the last hook skipped for
  that event (`janet.hpp:80`), which is the exception in `EveryHookRuns`.

## Plan

Done: `RefCount` with `Ownership`, `RenderLoop`, `Surface`, `Signal` with `Shell`,
and the parts that share nothing (`Seat`, `DamageTree`, `Script`, `Outputs`, `PageFlip`,
`Panning`, `SurfaceTree`, `ShmPool`). What is left, in this order:

1. The destruction of single objects of a client in `Shell` (a toplevel, an
   `xdg_surface`), with the listener that a toplevel leaves on its surface.
2. The image of the cursor (`xcursor`, `set_cursor`), which a render thread may
   paint while it is replaced.

Not modelled and not planned: EGL, OpenGL, libdrm and libinput calls beyond what
`PageFlip` and `Outputs` keep of them; floating point (`Panning` has easing as a
table and coordinates as fractions, `Shell` counts positions in grains of a pixel); `region_t`'s operators, whose results are
not read; logging; `jsl` (value types without a protocol; their uses here are
sequential); the conversions between Janet and C++ values; the Janet interpreter;
start-up beyond its order; the stubs of `wl_data_device` and `linux-dmabuf`.
