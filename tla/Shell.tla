-------------------------------- MODULE Shell --------------------------------
(***************************************************************************)
(* The windows of one output: the requests of xdg_surface and xdg_toplevel *)
(* (src/shell), interactive moves and resizes, the focus of the seat       *)
(* (src/core/wl_seat.cpp), and what scripts do to windows and the pointer  *)
(* (src/script/xdg_shell.cpp, src/script/cursor.cpp), driven by the two    *)
(* signals of the pointer.                                                 *)
(*                                                                         *)
(* Everything here runs on the main thread: a request comes when no signal *)
(* is being emitted, and a step of an emission is one call of a listener.  *)
(* Positions have one coordinate; windows have no subsurfaces and no       *)
(* offset.  Positions and the cursor are floats in the code: they are      *)
(* whole numbers of grains here, Grain of which make a pixel.  Sizes and   *)
(* extents are whole pixels.                                               *)
(***************************************************************************)
EXTENDS Integers, Sequences, FiniteSets, Signal

CONSTANTS
  Window,     \* the xdg_surface_t of the clients
  Drag,       \* the _data of interactive moves and resizes
  Extent,     \* the widths of the clients' buffers
  Grain,      \* how many parts of a pixel are told apart
  Reach,      \* where the cursor may go, in grains
  Places,     \* where scripts put windows, in grains
  Far,        \* how far from the origin a drag may start, in grains
  MaxSerial,  \* how many resizes there may be
  Null

ASSUME BoundsAreNat == Grain \in Nat \ {0} /\ Far \in Nat /\ MaxSerial \in Nat
ASSUME PlacesAreInt == Reach \subseteq Int /\ 0 \in Reach /\ Places \subseteq Int
ASSUME ExtentsAreWidths == Extent \subseteq Nat \ {0}
ASSUME NamesDiffer ==
  Null \notin Window \cup Drag /\ {"cursor", "seat", "script"} \cap Drag = {}

VARIABLES
  cursor,     \* cursor_manager_t::position_
  moves,      \* input_manager_t::on_mouse_move
  clicks,     \* input_manager_t::on_mouse_click
  emission,   \* the event being emitted, and the token emit is at
  windows,    \* xdg_window_list_t of the output, the top window first
  xdg,        \* xdg[w] : members of xdg_surface_t, and the width of its buffer
  drag,       \* drag[d] : the state the two listeners of a drag share
  sent,       \* the xdg_surface.configure events of resizes
  pointer,    \* wl_seat_t::focus_
  keyboard,
  activated,  \* xdg_shell_t::activated_
  told,       \* windows last told that they are activated
  live,       \* windows whose client is connected
  fault       \* a null pointer was used

input == <<cursor, moves, clicks, emission>>
focus == <<pointer, keyboard, activated, told>>
shellVars == <<input, focus, windows, xdg, drag, sent, live, fault>>

Emission == [signal : {"none", "move", "press", "release"},
             at : Nat, to : Reach,
             scripted : BOOLEAN]     \* history: a hook moved something
Idle == [signal |-> "none", at |-> 0, to |-> 0, scripted |-> FALSE]

XdgSurface == [role : {"none", "toplevel"},
               fresh : BOOLEAN,        \* it still listens to on_buffer_attach
               position : Int, size : Int, extent : Extent \cup {0},
               pending : Int,          \* pending.size
               serial : Nat]           \* pending.serial, an index of sent or 0

DragData == [kind : {"move", "left", "right"}, window : Window,
             start : Reach, position : Int, size : Int,
             onMove : Nat, onClick : Nat]
ASSUME NullIsNoDrag == Null \notin DragData

TypeOK ==
  /\ cursor \in Reach /\ emission \in Emission
  /\ DOMAIN moves \subseteq Nat /\ DOMAIN clicks \subseteq Nat
  /\ \A t \in DOMAIN moves : moves[t] \in {"cursor", "seat", "script"} \cup Drag
  /\ \A t \in DOMAIN clicks : clicks[t] \in {"seat", "script"} \cup Drag
  /\ windows \in Seq(Window)
  /\ xdg \in [Window -> XdgSurface]
  /\ drag \in [Drag -> DragData \cup {Null}]
  /\ sent \in Seq([window : Window, size : Int])
  /\ {pointer, keyboard, activated} \subseteq Window \cup {Null}
  /\ told \subseteq Window /\ live \subseteq Window
  /\ fault \in BOOLEAN

ShellInit ==
  /\ cursor = 0 /\ emission = Idle
  /\ moves = [t \in 0..2 |-> CASE t = 0 -> "cursor" [] t = 1 -> "seat" [] t = 2 -> "script"]
  /\ clicks = [t \in 0..1 |-> IF t = 0 THEN "seat" ELSE "script"]
  /\ windows = <<>>
  /\ xdg = [w \in Window |-> [role |-> "none", fresh |-> FALSE, position |-> 0,
                              size |-> 0, extent |-> 0, pending |-> 0, serial |-> 0]]
  /\ drag = [d \in Drag |-> Null]
  /\ sent = <<>>
  /\ pointer = Null /\ keyboard = Null /\ activated = Null /\ told = {}
  /\ live = Window
  /\ fault = FALSE

Dragging == {d \in Drag : drag[d] # Null}
Resizing == {d \in Dragging : drag[d].kind # "move"}

\* The listeners of a resize own the wl_surface, those of a move do not.
HasSurface(w) == w \in live \/ \E d \in Resizing : drag[d].window = w
Lock(w) == IF w # Null /\ HasSurface(w) THEN w ELSE Null

\* resource() of an object whose client is gone is null.
HaveResource(S) == S \ {Null} \subseteq live

\* A float of grains as an int of pixels: the conversion truncates toward zero.
Whole(x) == IF x < 0 THEN -((-x) \div Grain) ELSE x \div Grain

Stop == fault' = TRUE /\ UNCHANGED <<input, focus, windows, xdg, drag, sent, live>>

-----------------------------------------------------------------------------
(* Requests.                                                               *)

Request(w) == ~fault /\ emission = Idle /\ w \in live

\* xdg_surface.get_toplevel; a second one is a protocol error.
GetToplevel(w) ==
  /\ Request(w) /\ xdg[w].role = "none"
  /\ xdg' = [xdg EXCEPT ![w].role = "toplevel", ![w].fresh = TRUE]
  /\ windows' = <<w>> \o windows
  /\ told' = told \ {w}
  /\ UNCHANGED <<input, pointer, keyboard, activated, drag, sent, live, fault>>

\* wl_surface.commit with a buffer of width e, or without one (e = 0).  The
\* first buffer calls the listener of the toplevel, which deletes itself.
CommitBuffer(w, e) ==
  /\ Request(w) /\ xdg[w].role = "toplevel"
  /\ xdg' = [xdg EXCEPT
       ![w].extent = e,
       ![w].size = IF xdg[w].fresh /\ e # 0 THEN e ELSE @,
       ![w].fresh = @ /\ e = 0]
  /\ UNCHANGED <<input, focus, windows, drag, sent, live, fault>>

SetWindowGeometry(w, e) ==
  /\ Request(w)
  /\ xdg' = [xdg EXCEPT ![w].size = e]
  /\ UNCHANGED <<input, focus, windows, drag, sent, live, fault>>

\* Mutant: any acknowledgement applies the pending size.
AckUnchecked(w, n) ==
  /\ Request(w) /\ n \in 1..Len(sent) /\ sent[n].window = w
  /\ xdg[w].serial # 0
  /\ xdg' = [xdg EXCEPT ![w].size = xdg[w].pending, ![w].serial = 0]
  /\ UNCHANGED <<input, focus, windows, drag, sent, live, fault>>

\* xdg_surface.ack_configure; only the serial of the last configure counts.
AckConfigure(w, n) ==
  /\ Request(w) /\ n \in 1..Len(sent) /\ sent[n].window = w
  /\ xdg[w].serial = n
  /\ xdg' = [xdg EXCEPT ![w].size = xdg[w].pending, ![w].serial = 0]
  /\ UNCHANGED <<input, focus, windows, drag, sent, live, fault>>

\* The client disconnects: its resources go, the window stays in the list.
Leave(w) ==
  /\ Request(w)
  /\ live' = live \ {w}
  /\ UNCHANGED <<input, focus, windows, xdg, drag, sent, fault>>

\* xdg_toplevel.move and resize: the seat loses its focus, and two listeners
\* follow the pointer until the button goes up.
BeginDrag(w, d, kind) ==
  /\ Request(w) /\ xdg[w].role = "toplevel" /\ drag[d] = Null
  /\ xdg[w].position \in -Far..Far
  /\ IF HaveResource({Lock(pointer), Lock(keyboard)})
     THEN /\ drag' = [drag EXCEPT ![d] =
                [kind |-> kind, window |-> w, start |-> cursor,
                 position |-> Whole(xdg[w].position), size |-> xdg[w].size,
                 onMove |-> NextToken(moves), onClick |-> NextToken(clicks)]]
          /\ moves' = Connect(moves, d) /\ clicks' = Connect(clicks, d)
          /\ pointer' = Null /\ keyboard' = Null
          /\ UNCHANGED <<cursor, emission, activated, told, windows, xdg, sent,
                         live, fault>>
     ELSE Stop

Move(w, d) == BeginDrag(w, d, "move")

Resize(w, d) ==
  /\ Len(sent) + Cardinality(Resizing) < MaxSerial
  /\ \E edge \in {"left", "right"} : BeginDrag(w, d, edge)

-----------------------------------------------------------------------------
(* Events of the pointer, and the listeners they call.                     *)

Emit(signal, to) ==
  /\ ~fault /\ emission = Idle
  /\ emission' = [signal |-> signal, to |-> to, scripted |-> FALSE, at |->
                    Earliest(DOMAIN (IF signal = "move" THEN moves ELSE clicks))]
  /\ UNCHANGED <<cursor, moves, clicks, focus, windows, xdg, drag, sent, live, fault>>

PointerMotion(to) == Emit("move", to)
PointerButton(signal) == Emit(signal, 0)

Emitted == IF emission.signal = "move" THEN moves ELSE clicks

Calls(signals, listener) ==
  /\ ~fault /\ emission.signal \in signals
  /\ Emitted[emission.at] = listener

\* emit goes on to the next of the listeners l.
Resume(l) ==
  emission' = IF Later(l, emission.at) = {} THEN Idle
              ELSE [emission EXCEPT !.at = Earliest(Later(l, emission.at))]

\* cursor_manager_t::on_mouse_move, on the only output.
MoveCursor ==
  /\ Calls({"move"}, "cursor")
  /\ cursor' = emission.to
  /\ Resume(moves)
  /\ UNCHANGED <<moves, clicks, focus, windows, xdg, drag, sent, live, fault>>

\* The test of by_position compares floats.
Contains(w) ==
  /\ xdg[w].position <= cursor
  /\ cursor < xdg[w].position + Grain * xdg[w].extent

\* get_workspace_position of a window, whose root surface it is, adds into an
\* ipoint_t; the test of on_mouse_move for the focused window uses that.
WorkspacePosition(w) == Grain * Whole(xdg[w].position)
StaysIn(w) == cursor - WorkspacePosition(w) \in 0..Grain * xdg[w].extent

\* Where the loop of by_position stops: at the top window under the cursor, or
\* at one that has no surface.
Stops == {i \in 1..Len(windows) : HasSurface(windows[i]) => Contains(windows[i])}

SeatMove == Calls({"move"}, "seat")

\* wl_seat_t::on_mouse_move: without a focus, query one; the test follows.
FindFocus ==
  /\ SeatMove /\ Lock(pointer) = Null /\ Stops # {}
  /\ LET w == windows[Earliest(Stops)] IN
     IF w \in live
     THEN /\ pointer' = w
          /\ UNCHANGED <<input, keyboard, activated, told, windows, xdg, drag, sent,
                         live, fault>>
     ELSE Stop

FindNoFocus ==
  /\ SeatMove /\ Lock(pointer) = Null /\ Stops = {}
  /\ pointer' = Null
  /\ Resume(moves)
  /\ UNCHANGED <<cursor, moves, clicks, keyboard, activated, told, windows, xdg,
                 drag, sent, live, fault>>

\* Mutant: the seat does not look for the window the pointer went to.
LoseFocusOnly ==
  /\ SeatMove /\ Lock(pointer) # Null /\ ~StaysIn(pointer)
  /\ pointer' = Null
  /\ Resume(moves)
  /\ UNCHANGED <<cursor, moves, clicks, keyboard, activated, told, windows, xdg,
                 drag, sent, live, fault>>

\* Out of the window: goto start.
LoseFocus ==
  /\ SeatMove /\ Lock(pointer) # Null /\ ~StaysIn(pointer)
  /\ IF pointer \in live
     THEN /\ pointer' = Null
          /\ UNCHANGED <<input, keyboard, activated, told, windows, xdg, drag, sent,
                         live, fault>>
     ELSE Stop

KeepFocus ==
  /\ SeatMove /\ Lock(pointer) # Null /\ StaysIn(pointer)
  /\ IF pointer \in live
     THEN /\ Resume(moves)
          /\ UNCHANGED <<cursor, moves, clicks, focus, windows, xdg, drag, sent, live,
                         fault>>
     ELSE Stop

SeatClick == Calls({"press", "release"}, "seat")

ClickNothing ==
  /\ SeatClick /\ Lock(pointer) = Null
  /\ Resume(clicks)
  /\ UNCHANGED <<cursor, moves, clicks, focus, windows, xdg, drag, sent, live, fault>>

Place(w) == {i \in 1..Len(windows) : windows[i] = w}

\* Mutant: the window is inserted on top and not erased below.
RaisedTwice(w) ==
  IF Place(w) = {} THEN windows ELSE <<w>> \o windows

\* raise_to_top: the window goes to the front, the others keep their order.
Raised(w) ==
  IF Place(w) = {} THEN windows
  ELSE [i \in 1..Len(windows) |->
          IF i = 1 THEN w
          ELSE windows[IF i <= Earliest(Place(w)) THEN i - 1 ELSE i]]

\* Mutant: activate does not deactivate the window that was active.
ToldByActivate(w) == told \cup {w}

\* xdg_shell_t::activate: the last window is told that it is not active.
Told(w) == (told \ {activated}) \cup {w}

\* wl_seat_t::on_mouse_click: keyboard focus, raise_to_top and activate.
ClickWindow ==
  /\ SeatClick /\ Lock(pointer) # Null
  /\ IF HaveResource({pointer, Lock(keyboard), activated})
     THEN /\ keyboard' = pointer
          /\ windows' = Raised(pointer)
          /\ told' = Told(pointer) /\ activated' = pointer
          /\ Resume(clicks)
          /\ UNCHANGED <<cursor, moves, clicks, pointer, xdg, drag, sent, live, fault>>
     ELSE Stop

\* Mutant: the window moves on from where it is.
MoveWindowOn(d) ==
  /\ Calls({"move"}, d) /\ d \notin Resizing
  /\ xdg' = [xdg EXCEPT ![drag[d].window].position =
               @ + Grain * Whole(cursor - drag[d].start)]
  /\ Resume(moves)
  /\ UNCHANGED <<cursor, moves, clicks, focus, windows, drag, sent, live, fault>>

\* xdg_toplevel.move: the window follows the cursor.
MoveWindow(d) ==
  /\ Calls({"move"}, d) /\ d \notin Resizing
  /\ xdg' = [xdg EXCEPT ![drag[d].window].position =
               Grain * (drag[d].position + Whole(cursor - drag[d].start))]
  /\ Resume(moves)
  /\ UNCHANGED <<cursor, moves, clicks, focus, windows, drag, sent, live, fault>>

\* xdg_toplevel.resize: the size waits for the release, the position does not.
NewSize(d) ==
  LET dx == Whole(cursor - drag[d].start)
      size == IF drag[d].kind = "left" THEN drag[d].size - dx ELSE drag[d].size + dx
  IN IF size < 1 THEN 1 ELSE size

NewPosition(d) ==
  Grain * IF drag[d].kind = "left"
          THEN drag[d].position + Whole(cursor - drag[d].start)
          ELSE drag[d].position

ResizeWindow(d) ==
  /\ Calls({"move"}, d) /\ d \in Resizing
  /\ LET w == drag[d].window IN
       xdg' = IF NewSize(d) = xdg[w].size THEN xdg
              ELSE [xdg EXCEPT ![w].position = NewPosition(d),
                               ![w].pending = NewSize(d)]
  /\ Resume(moves)
  /\ UNCHANGED <<cursor, moves, clicks, focus, windows, drag, sent, live, fault>>

\* The listener of a drag does nothing when a button goes down.
HoldDrag(d) ==
  /\ Calls({"press"}, d)
  /\ Resume(clicks)
  /\ UNCHANGED <<cursor, moves, clicks, focus, windows, xdg, drag, sent, live, fault>>

\* Both listeners go, and emit erases the second again (eDelete).
Ends(d) ==
  /\ moves' = Disconnect(moves, drag[d].onMove)
  /\ clicks' = Disconnect(clicks, drag[d].onClick)
  /\ drag' = [drag EXCEPT ![d] = Null]
  /\ Resume(clicks')

\* The release after a move gives the focus to the window.
EndMove(d) ==
  /\ Calls({"release"}, d) /\ d \notin Resizing
  /\ LET w == Lock(drag[d].window) IN
     IF HaveResource({Lock(pointer), Lock(keyboard), w})
     THEN /\ pointer' = w /\ keyboard' = w
          /\ Ends(d)
          /\ UNCHANGED <<cursor, activated, told, windows, xdg, sent, live, fault>>
     ELSE Stop

\* The release after a resize configures the window, with no state.
EndResize(d) ==
  /\ Calls({"release"}, d) /\ d \in Resizing
  /\ LET w == drag[d].window IN
     IF w \in live
     THEN /\ sent' = Append(sent, [window |-> w, size |-> xdg[w].pending])
          /\ xdg' = [xdg EXCEPT ![w].serial = Len(sent) + 1]
          /\ told' = told \ {w}
          /\ Ends(d)
          /\ UNCHANGED <<cursor, pointer, keyboard, activated, windows, live, fault>>
     ELSE Stop

-----------------------------------------------------------------------------
(* Scripts: the hooks that the listeners of the script module call, and    *)
(* those of hotkeys and new windows, which run when no signal of the       *)
(* pointer is emitted.                                                     *)

ScriptRuns == ~fault /\ (emission = Idle \/ Emitted[emission.at] = "script")
Scripted == emission' = IF emission = Idle THEN Idle ELSE [emission EXCEPT !.scripted = TRUE]

\* xdg/set-position of a window that is found in the list.
ScriptPlaces(w, x) ==
  /\ ScriptRuns /\ Place(w) # {}
  /\ xdg' = [xdg EXCEPT ![w].position = x]
  /\ Scripted
  /\ UNCHANGED <<cursor, moves, clicks, focus, windows, drag, sent, live, fault>>

\* xdg/raise-to-top
ScriptRaises(w) ==
  /\ ScriptRuns /\ Place(w) # {}
  /\ windows' = Raised(w)
  /\ Scripted
  /\ UNCHANGED <<cursor, moves, clicks, focus, xdg, drag, sent, live, fault>>

\* input/mouse-set-position assigns the position of the cursor.
ScriptPoints(to) ==
  /\ ScriptRuns
  /\ cursor' = to
  /\ Scripted
  /\ UNCHANGED <<moves, clicks, focus, windows, xdg, drag, sent, live, fault>>

ScriptCalls ==
  \/ \E w \in Window : ScriptRaises(w) \/ \E x \in Places : ScriptPlaces(w, x)
  \/ \E to \in Reach : ScriptPoints(to)

\* dispatch_mouse_move and dispatch_mouse_click return.
ScriptReturns ==
  /\ Calls({"move", "press", "release"}, "script")
  /\ Resume(Emitted)
  /\ UNCHANGED <<cursor, moves, clicks, focus, windows, xdg, drag, sent, live, fault>>

-----------------------------------------------------------------------------
Listener ==
  \/ MoveCursor \/ FindFocus \/ FindNoFocus \/ LoseFocus \/ KeepFocus
  \/ ClickNothing \/ ClickWindow \/ ScriptReturns
  \/ \E d \in Drag : MoveWindow(d) \/ ResizeWindow(d) \/ HoldDrag(d)
                     \/ EndMove(d) \/ EndResize(d)

Requests ==
  \E w \in Window :
    \/ GetToplevel(w) \/ Leave(w)
    \/ \E e \in Extent \cup {0} : CommitBuffer(w, e)
    \/ \E e \in Extent : SetWindowGeometry(w, e)
    \/ \E n \in 1..MaxSerial : AckConfigure(w, n)
    \/ \E d \in Drag : Move(w, d) \/ Resize(w, d)

ShellNext ==
  \/ Requests \/ Listener \/ ScriptCalls
  \/ \E to \in Reach : PointerMotion(to)
  \/ \E signal \in {"press", "release"} : PointerButton(signal)

ShellSpec == ShellInit /\ [][ShellNext]_shellVars

\* A handler and the hooks it calls run to their end; nobody owes a request or an event.
ShellLiveSpec == ShellSpec /\ WF_shellVars(Listener)

-----------------------------------------------------------------------------
(* Correctness.                                                            *)

\* No null pointer is used.
NoFault == ~fault

\* A null pointer is used only after a client left while it had a window, and
\* the window stayed in the list.
FaultNeedsLeaver ==
  fault => \E w \in Window : w \notin live /\ xdg[w].role = "toplevel"

\* Each drag has a listener of its own in both signals, and the permanent ones
\* are never disconnected: what a drag disconnects by its tokens is what it
\* connected.
TokensNameDrags ==
  /\ DOMAIN moves = {0, 1, 2} \cup {drag[d].onMove : d \in Dragging}
  /\ DOMAIN clicks = {0, 1} \cup {drag[d].onClick : d \in Dragging}
  /\ moves[0] = "cursor" /\ moves[1] = "seat" /\ moves[2] = "script"
  /\ clicks[0] = "seat" /\ clicks[1] = "script"
  /\ \A d \in Dragging : moves[drag[d].onMove] = d /\ clicks[drag[d].onClick] = d

\* The list holds each window once, from its first role on.
EachWindowOnce ==
  /\ \A i, j \in 1..Len(windows) : windows[i] = windows[j] => i = j
  /\ \A w \in Window :
       xdg[w].role = "toplevel" <=> \E i \in 1..Len(windows) : windows[i] = w

\* At most one client believes that it has the active window, and it does.
OneActivated == told \subseteq {activated}

\* What makes these inductive: emit is at a listener that is connected, and no
\* signal has unboundedly many.
Bounded(l) == \E b \in Nat : \A t \in DOMAIN l : t <= b

EmissionInv ==
  /\ Bounded(moves) /\ Bounded(clicks)
  /\ emission.signal # "none" => emission.at \in DOMAIN Emitted

ShellInv ==
  TypeOK /\ EmissionInv /\ TokensNameDrags /\ EachWindowOnce /\ OneActivated

\* While a release is emitted, the drags that are left come later.
DragsAreAhead ==
  emission.signal = "release" => \A d \in Dragging : emission.at <= drag[d].onClick

\* When all listeners have seen a release, no drag is left: each was called,
\* although those before it disconnected themselves.
DragsEndWithButton ==
  [][emission.signal = "release" /\ emission' = Idle => Dragging' = {}]_shellVars

\* The size a client acknowledges is the size it was sent, unless the next
\* resize of its window has begun, which writes the same pending size.
AckGetsWhatWasSent ==
  [][\A w \in Window, n \in 1..MaxSerial :
       AckConfigure(w, n) =>
         \/ xdg'[w].size = sent[n].size
         \/ \E d \in Resizing : drag[d].window = w]_shellVars

Moved == emission.signal = "move" /\ emission' = Idle

\* When nothing is dragged and the hooks of the motion move nothing, every
\* motion leaves the focus on a window that the cursor is in, or on none if
\* there is none.
FocusFollowsPointer ==
  [][Moved /\ Dragging = {} /\ ~emission.scripted =>
       /\ pointer' = Null => \A w \in Window : ~Contains(w)'
       /\ pointer' # Null => StaysIn(pointer)']_shellVars

\* A window that only one drag moves keeps its distance to the cursor, to
\* within the pixel that the conversion to int cuts off: the listener of the
\* drag runs after the one that moves the cursor, and after the hooks.
WindowFollowsCursor ==
  [][Moved => \A d \in Dragging \ Resizing :
       \/ \E c \in Dragging \ {d} : drag[c].window = drag[d].window
       \/ LET now   == xdg'[drag[d].window].position - cursor'
              begun == Grain * drag[d].position - drag[d].start
          IN  now - begun \in (1 - Grain)..(Grain - 1)]_shellVars

\* The two tests of the seat disagree about a window: the cursor is in the last
\* part of a pixel that get_workspace_position cut off its position.
SearchRestarts == \E w \in Window : Contains(w) /\ ~StaysIn(w)

\* Every event is dealt with, unless a null pointer is used or the seat finds
\* and loses a window for ever: otherwise its search ends, and emit comes to
\* the last listener.
EmissionEnds == emission # Idle ~> emission = Idle \/ fault \/ SearchRestarts

=============================================================================
