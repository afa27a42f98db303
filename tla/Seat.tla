-------------------------------- MODULE Seat --------------------------------
(***************************************************************************)
(* The seats of the clients (src/core/wl_seat.cpp): which wl_pointer and   *)
(* which wl_keyboard is told that a surface has the focus.                 *)
(*                                                                         *)
(* A client binds the seat and asks for its devices as often as it likes,  *)
(* and releases what it has in any order; when it disconnects, all of it   *)
(* is released one by one.  The surfaces that get the focus are chosen by  *)
(* the module Shell; here any surface may.                                 *)
(***************************************************************************)
CONSTANTS
  Client, Surface,
  Owner,      \* Owner[w] : the client of the surface w
  Seat,       \* the wl_seat objects of the clients
  Device,     \* their wl_pointer and wl_keyboard objects
  Null

ASSUME OwnersAreClients == Owner \in [Surface -> Client]
ASSUME NullIsNobody == Null \notin Client \cup Surface \cup Seat \cup Device

VARIABLES
  seats,      \* wl_seat_t::seats
  clientOf,   \* clientOf[s] : the client of the wl_seat s, while its resource lives
  stored,     \* stored[s][k] : the device of kind k that seat_t has stored
  device,     \* device[d] : while its resource lives, its kind and its seat
  surfaces,   \* those that exist
  focus,      \* wl_seat_t::focus_
  entered     \* entered[d] : the surface the device was last told to be in

seatVars == <<seats, clientOf, stored, device, surfaces, focus, entered>>

Kind == {"pointer", "keyboard"}

ASSUME NullIsNoDevice == Null \notin [kind : Kind, seat : Seat]

\* The weak handles stored and focus are Null when what they name is gone.
NoDevices == [k \in Kind |-> Null]

SeatTypeOK ==
  /\ seats \in [Client -> Seat \cup {Null}]
  /\ clientOf \in [Seat -> Client \cup {Null}]
  /\ stored \in [Seat -> [Kind -> Device \cup {Null}]]
  /\ device \in [Device -> [kind : Kind, seat : Seat] \cup {Null}]
  /\ surfaces \subseteq Surface
  /\ focus \in [Kind -> surfaces \cup {Null}]
  /\ entered \in [Device -> surfaces \cup {Null}]

SeatInit ==
  /\ seats = [c \in Client |-> Null]
  /\ clientOf = [s \in Seat |-> Null]
  /\ stored = [s \in Seat |-> NoDevices]
  /\ device = [d \in Device |-> Null]
  /\ surfaces = {}
  /\ focus = [k \in Kind |-> Null]
  /\ entered = [d \in Device |-> Null]

Live(s) == clientOf[s] # Null
DevicesOf(s) == {d \in Device : device[d] # Null /\ device[d].seat = s}

-----------------------------------------------------------------------------
(* Requests.                                                               *)

\* wl_registry.bind; insert keeps the seat that the client has in the map.
Bind(c, s) ==
  /\ ~Live(s) /\ DevicesOf(s) = {}
  /\ clientOf' = [clientOf EXCEPT ![s] = c]
  /\ stored' = [stored EXCEPT ![s] = NoDevices]
  /\ seats' = [seats EXCEPT ![c] = IF @ = Null THEN s ELSE @]
  /\ UNCHANGED <<device, surfaces, focus, entered>>

\* Mutant: a keyboard is stored as the pointer.
GetDeviceAsPointer(s, d, kind) ==
  /\ Live(s) /\ device[d] = Null
  /\ device' = [device EXCEPT ![d] = [kind |-> kind, seat |-> s]]
  /\ stored' = [stored EXCEPT ![s]["pointer"] = d]
  /\ UNCHANGED <<seats, clientOf, surfaces, focus, entered>>

\* get_pointer and get_keyboard; nothing is sent, whoever has the focus.
GetDevice(s, d, kind) ==
  /\ Live(s) /\ device[d] = Null
  /\ device' = [device EXCEPT ![d] = [kind |-> kind, seat |-> s]]
  /\ stored' = [stored EXCEPT ![s][kind] = d]
  /\ UNCHANGED <<seats, clientOf, surfaces, focus, entered>>

GetPointer(s, d) == GetDevice(s, d, "pointer")
GetKeyboard(s, d) == GetDevice(s, d, "keyboard")

\* The devices D are destroyed: on_destruct of either kind clears the pointer of
\* its seat, and no weak handle locks them any more.
Destroyed(D) ==
  /\ device' = [d \in Device |-> IF d \in D THEN Null ELSE device[d]]
  /\ entered' = [d \in Device |-> IF d \in D THEN Null ELSE entered[d]]
  /\ stored' = [s \in Seat |-> [k \in Kind |->
       IF stored[s][k] \in D \/ (k = "pointer" /\ D \cap DevicesOf(s) # {})
       THEN Null ELSE stored[s][k]]]

\* wl_pointer.release and wl_keyboard.release.
ReleaseDevice(d) ==
  /\ device[d] # Null
  /\ Destroyed({d})
  /\ UNCHANGED <<seats, clientOf, surfaces, focus>>

Stored(s) == {stored[s][k] : k \in Kind} \ {Null}

\* Mutant: the seat stays in the map.
ReleaseSeatStays(s) ==
  /\ Live(s)
  /\ Destroyed(Stored(s))
  /\ clientOf' = [clientOf EXCEPT ![s] = Null]
  /\ UNCHANGED <<seats, surfaces, focus>>

\* wl_seat.release: the listener of on_destroy destroys the devices that the
\* seat has stored, and erases whichever seat of the client is in the map.
ReleaseSeat(s) ==
  /\ Live(s)
  /\ Destroyed(Stored(s))
  /\ clientOf' = [clientOf EXCEPT ![s] = Null]
  /\ seats' = [seats EXCEPT ![clientOf[s]] = Null]
  /\ UNCHANGED <<surfaces, focus>>

CreateSurface(w) ==
  /\ w \notin surfaces
  /\ surfaces' = surfaces \cup {w}
  /\ UNCHANGED <<seats, clientOf, stored, device, focus, entered>>

\* The client destroys its surface: the focus, a weak handle, is lost, and no
\* device is told.
DestroySurface(w) ==
  /\ w \in surfaces
  /\ surfaces' = surfaces \ {w}
  /\ focus' = [k \in Kind |-> IF focus[k] = w THEN Null ELSE focus[k]]
  /\ entered' = [d \in Device |-> IF entered[d] = w THEN Null ELSE entered[d]]
  /\ UNCHANGED <<seats, clientOf, stored, device>>

-----------------------------------------------------------------------------
(* The focus.                                                              *)

\* The device that hears of the surface w: find(owner) and lock().
Listening(w, kind) ==
  IF w = Null \/ seats[Owner[w]] = Null THEN Null ELSE stored[seats[Owner[w]]][kind]

\* Mutant: the surface that loses the focus is not told.
FocusedUntold(kind, w, told) ==
  [d \in Device |-> IF d = Listening(w, kind) THEN w ELSE told[d]]

\* What devices are told by set_mouse_focus and set_keyboard_focus: leave goes
\* to the client of the old surface, then enter to that of the new one.
Focused(kind, w, told) ==
  [d \in Device |->
     IF d = Listening(w, kind) THEN w
     ELSE IF d = Listening(focus[kind], kind) THEN Null ELSE told[d]]

SetFocus(kind, w) ==
  /\ focus' = [focus EXCEPT ![kind] = w]
  /\ entered' = Focused(kind, w, entered)
  /\ UNCHANGED <<seats, clientOf, stored, device, surfaces>>

\* on_mouse_move, a round of its search: nothing has the focus, and a surface
\* is found; the pointer is out of the window; or another surface of the same
\* window is a better one.
FindFocus(w) == focus["pointer"] = Null /\ SetFocus("pointer", w)
LoseFocus == focus["pointer"] # Null /\ SetFocus("pointer", Null)
RefineFocus(w) ==
  /\ focus["pointer"] \notin {Null, w} /\ Owner[w] = Owner[focus["pointer"]]
  /\ SetFocus("pointer", w)

\* on_mouse_click: the keyboard follows the pointer.
Click == focus["pointer"] # Null /\ SetFocus("keyboard", focus["pointer"])

\* xdg_toplevel.move and resize take the focus away, and the release after a
\* move gives it to the window, if it still has a surface.
SetBoth(w) ==
  /\ focus' = [k \in Kind |-> w]
  /\ entered' = Focused("keyboard", w, Focused("pointer", w, entered))
  /\ UNCHANGED <<seats, clientOf, stored, device, surfaces>>

BeginDrag == SetBoth(Null)
EndMove(w) == SetBoth(w)

SeatNext ==
  \/ \E s \in Seat :
       \/ ReleaseSeat(s)
       \/ \E c \in Client : Bind(c, s)
       \/ \E d \in Device : GetPointer(s, d) \/ GetKeyboard(s, d)
  \/ \E d \in Device : ReleaseDevice(d)
  \/ \E w \in Surface : CreateSurface(w) \/ DestroySurface(w)
  \/ \E w \in surfaces : FindFocus(w) \/ RefineFocus(w) \/ EndMove(w)
  \/ LoseFocus \/ Click \/ BeginDrag

SeatSpec == SeatInit /\ [][SeatNext]_seatVars

-----------------------------------------------------------------------------
(* Correctness.                                                            *)

\* The map has no seat that is gone, nor one of another client: find returns
\* an object of the client that asks, after any sequence of binds, releases and
\* disconnections.
MapFindsOwnSeat == \A c \in Client : seats[c] # Null => clientOf[seats[c]] = c

\* What a seat has stored is a device of its own, whose resource lives: an
\* event goes to a resource that is there, of the right client and kind.
StoredIsOwn ==
  \A s \in Seat, kind \in Kind :
    stored[s][kind] # Null => device[stored[s][kind]] = [kind |-> kind, seat |-> s]

\* A device that was told that it entered a surface is told when the surface no
\* longer has the focus, as long as events reach it: find and lock() give no
\* device that goes on believing it is in focus.  One that they do not give any
\* more, because its seat has stored another, or forgotten it with a keyboard,
\* or is not the one in the map, is told nothing.
NobodyStaysEntered ==
  \A c \in Client, kind \in Kind :
    seats[c] # Null =>
      LET d == stored[seats[c]][kind]
      IN d # Null => entered[d] \in {Null, focus[kind]}

\* No device outlives the seat it was made from, in whatever order a client
\* destroys its resources, as the comment of the listener has it.
DevicesGoWithSeat == \A d \in Device : device[d] # Null => Live(device[d].seat)

=============================================================================
