------------------------------- MODULE MCDesk -------------------------------
(* Instances for TLC of the parts of the compositor that share no state and *)
(* owe nothing: the seats, the damage of an output, the script, the outputs *)
(* and the cursor, the pan of an output, the tree of subsurfaces, and       *)
(* shared memory.  No step of one part reads or writes another, so that     *)
(* each is checked by itself: a behaviour is one of a single part, chosen   *)
(* at the start, while the others rest.                                     *)
EXTENDS Seat, DamageTree, Script, Outputs, Panning, SurfaceTree, ShmPool

CONSTANTS c1, c2, w3

VARIABLE part

deskVars == <<part, seatVars, treeVars, scriptVars, outVars, panVars, sceneVars, shmVars>>

-----------------------------------------------------------------------------
Rect(x, y, w, h) == [x |-> x, y |-> y, w |-> w, h |-> h]
XY(x, y) == [x |-> x, y |-> y]
ModeLine(s, r, p) == [size |-> s, rate |-> r, preferred |-> p]

(* One client with two surfaces, one with one.                              *)
MCOwner == [w \in Surface |-> IF w = w3 THEN c2 ELSE c1]

(* The whole output; corners on the borders of cells; outside; between.     *)
MCDamages == {Rect(0, 0, 27, 15), Rect(13, 7, 1, 1), Rect(12, 6, 14, 8),
              Rect(-3, -3, 5, 5), Rect(14, 9, 2, 3)}

(* The second string contains the text of its key before the key.           *)
MCStrings == {<<"Super", "b">>, <<"Super", "p">>, <<"b">>}
MCOccursIn == {<<"p", "Super">>}

(* The third connector needs the CRTC its second encoder alone can reach,   *)
(* and the fourth finds none.                                               *)
MCConnectors == <<"A", "B", "C", "D">>
MCEncoders == [A |-> <<{1, 2}>>, B |-> <<{2}, {1}>>, C |-> <<{1}, {2, 3}>>,
               D |-> <<{1}>>]
MCModes == [A |-> <<ModeLine(2, 60, FALSE), ModeLine(1, 60, TRUE), ModeLine(1, 75, FALSE)>>,
            B |-> <<ModeLine(1, 60, TRUE)>>,
            C |-> <<ModeLine(3, 60, FALSE)>>,
            D |-> <<ModeLine(1, 60, FALSE)>>]
MCLines == {[size |-> 1, rate |-> 60], [size |-> 1, rate |-> 0]}
MCNeighbours == {<<"A", "east", "B">>, <<"B", "north", "C">>,
                 <<"A", "north", "C">>, <<"C", "west", "C">>}

(* Places are in half pixels.  The window has its right edge on that of a  *)
(* pixel when the pan lies between two.                                     *)
MCPans == {-4, 0}
MCEased == [t \in 0 .. 2 |-> 4 * t]
Window(x, w, o) == [position |-> x, size |-> w, offset |-> o]
MCWindows == <<Window(-4, 5, 2)>>

MCOffsets == {XY(-1, 1), XY(2, 0)}
MCSizes == {XY(2, 2)}
MCPlaces == {XY(x, y) : x \in -1 .. 5, y \in -1 .. 4}

-----------------------------------------------------------------------------
Parts == {"seats", "damage", "script", "outputs", "pan", "scene", "memory"}

DeskInit ==
  /\ part \in Parts
  /\ SeatInit /\ TreeInit /\ ScriptInit /\ OutputsInit /\ PanInit /\ SceneInit /\ ShmInit

(* All parts but p rest.                                                    *)
Only(p) ==
  /\ part = p /\ UNCHANGED part
  /\ p # "seats"   => UNCHANGED seatVars
  /\ p # "damage"  => UNCHANGED treeVars
  /\ p # "script"  => UNCHANGED scriptVars
  /\ p # "outputs" => UNCHANGED outVars
  /\ p # "pan"     => UNCHANGED panVars
  /\ p # "scene"   => UNCHANGED sceneVars
  /\ p # "memory"  => UNCHANGED shmVars

DeskNext ==
  \/ Only("seats") /\ SeatNext
  \/ Only("damage") /\ TreeNext
  \/ Only("script") /\ ScriptNext
  \/ Only("outputs") /\ OutputsNext
  \/ Only("pan") /\ PanNext
  \/ Only("scene") /\ SceneNext
  \/ Only("memory") /\ ShmNext

DeskSpec == DeskInit /\ [][DeskNext]_deskVars

=============================================================================
