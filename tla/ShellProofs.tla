----------------------------- MODULE ShellProofs -----------------------------
(***************************************************************************)
(* Proofs about Shell, for every set of windows and drags: the tokens of a *)
(* drag name its own listeners, the list holds every window once, at most  *)
(* one client was told that it is active, a release ends every drag, a     *)
(* motion leaves moved windows at the cursor and the seat on the window    *)
(* that it is in, a client gets the size it acknowledges, a null pointer   *)
(* is used only after a client left, and every event is worked off unless  *)
(* the two tests of the seat disagree.                                     *)
(***************************************************************************)
EXTENDS Shell, WellFoundedInduction, FiniteSetTheorems, TLAPS

-----------------------------------------------------------------------------
(* What emit and connect compute.                                          *)

\* emit finds the next listener whenever there is one.
LEMMA EarliestIsLeast ==
  ASSUME NEW S \in SUBSET Nat, S # {}
  PROVE  Earliest(S) \in S /\ \A t \in S : Earliest(S) <= t
<1>. DEFINE less == {p \in Nat \X Nat : p[1] < p[2]}
<1>1. IsWellFoundedOn(less, Nat)
  BY NatLessThanWellFounded DEF OpToRel
<1>2. PICK x \in S : \A y \in S : ~(<<y, x>> \in less)
  <2>. HIDE DEF less
  <2>. QED
    BY <1>1, WFMin
<1>3. \A y \in S : x <= y
  <2>1. SUFFICES ASSUME NEW y \in S, y < x PROVE FALSE
    OBVIOUS
  <2>2. <<y, x>> \in Nat \X Nat /\ <<y, x>>[1] = y /\ <<y, x>>[2] = x
    OBVIOUS
  <2>. QED
    BY <1>2, <2>1, <2>2
<1>4. \E t \in S : \A u \in S : t <= u
  BY <1>3
<1>. QED
  BY Zenon, <1>4 DEF Earliest

\* The largest token of a signal with boundedly many.
LEMMA LatestIsLargest ==
  ASSUME NEW S \in SUBSET Nat, S # {}, NEW b \in Nat, \A t \in S : t <= b
  PROVE  Latest(S) \in S /\ \A t \in S : t <= Latest(S)
<1>. DEFINE bounds == {n \in Nat : \A t \in S : t <= n}
<1>1. bounds # {} /\ bounds \subseteq Nat
  OBVIOUS
<1>2. PICK m \in bounds : \A n \in bounds : m <= n
  <2>. HIDE DEF bounds
  <2>. QED
    BY <1>1, EarliestIsLeast
<1>3. m \in S
  <2>1. SUFFICES ASSUME m \notin S PROVE FALSE
    OBVIOUS
  <2>2. \A t \in S : t < m
    BY <1>2, <2>1
  <2>3. m # 0
    <3>1. PICK t \in S : TRUE
      OBVIOUS
    <3>. QED
      BY <2>2, <3>1
  <2>4. m - 1 \in bounds
    BY <2>2, <2>3, <1>2
  <2>. QED
    BY <2>4, <1>2
<1>4. \E t \in S : \A u \in S : u <= t
  BY <1>2, <1>3
<1>. QED
  BY Zenon, <1>4 DEF Latest

\* What static_cast<int> cuts off is less than a pixel.
LEMMA WholeIsNear ==
  ASSUME NEW x \in Int
  PROVE  /\ Whole(x) \in Int /\ Grain * Whole(x) \in Int
         /\ x - Grain * Whole(x) \in (1 - Grain)..(Grain - 1)
<1>1. Grain \in Nat /\ Grain > 0 /\ Grain \in Int
  BY BoundsAreNat
<1>2. ASSUME NEW y \in Nat
      PROVE  y \div Grain \in Int /\ Grain * (y \div Grain) <= y
             /\ y < Grain * (y \div Grain) + Grain
  BY <1>1
<1>3. \A n \in Int : Grain * n \in Int /\ Grain * (-n) = -(Grain * n)
  BY <1>1
<1>4. CASE x < 0
  <2>. DEFINE n == (-x) \div Grain
  <2>1. n \in Int /\ Grain * n <= -x /\ -x < Grain * n + Grain
    BY <1>2, <1>4
  <2>2. Whole(x) = -n
    BY <1>4 DEF Whole
  <2>. HIDE DEF n
  <2>3. Grain * Whole(x) = -(Grain * n) /\ Grain * n \in Int
    BY <1>3, <2>1, <2>2
  <2>4. Whole(x) \in Int /\ Grain * Whole(x) \in Int
    BY <2>1, <2>2, <2>3
  <2>5. x - Grain * Whole(x) >= 1 - Grain /\ x - Grain * Whole(x) <= 0
    BY <1>1, <2>1, <2>3
  <2>. QED
    BY <1>1, <2>3, <2>4, <2>5
<1>5. CASE ~(x < 0)
  <2>. DEFINE n == x \div Grain
  <2>1. n \in Int /\ Grain * n <= x /\ x < Grain * n + Grain
    BY <1>2, <1>5
  <2>2. Whole(x) = n
    BY <1>5 DEF Whole
  <2>. HIDE DEF n
  <2>3. Grain * Whole(x) = Grain * n /\ Grain * n \in Int
    BY <1>3, <2>1, <2>2
  <2>4. x - Grain * Whole(x) >= 0 /\ x - Grain * Whole(x) <= Grain - 1
    BY <1>1, <2>1, <2>3
  <2>. QED
    BY <1>1, <2>1, <2>2, <2>3, <2>4
<1>. QED
  BY <1>4, <1>5

\* connect hands out a token that no listener has.
LEMMA FreshToken ==
  ASSUME NEW l, DOMAIN l \subseteq Nat, Bounded(l)
  PROVE  /\ NextToken(l) \in Nat
         /\ \A t \in DOMAIN l : t < NextToken(l)
<1>1. CASE DOMAIN l = {}
  BY <1>1 DEF NextToken
<1>2. CASE DOMAIN l # {}
  <2>1. Latest(DOMAIN l) \in DOMAIN l /\ \A t \in DOMAIN l : t <= Latest(DOMAIN l)
    BY <1>2, LatestIsLargest DEF Bounded
  <2>. QED
    BY <1>2, <2>1 DEF NextToken
<1>. QED
  BY <1>1, <1>2

LEMMA ConnectAdds ==
  ASSUME NEW l, NEW x, DOMAIN l \subseteq Nat, Bounded(l)
  PROVE  /\ DOMAIN Connect(l, x) = DOMAIN l \cup {NextToken(l)}
         /\ Connect(l, x)[NextToken(l)] = x
         /\ \A t \in DOMAIN l : Connect(l, x)[t] = l[t]
         /\ Bounded(Connect(l, x))
<1>1. NextToken(l) \in Nat /\ \A t \in DOMAIN l : t < NextToken(l)
  BY FreshToken
<1>2. \A t \in DOMAIN Connect(l, x) : t <= NextToken(l)
  BY <1>1 DEF Connect
<1>3. Bounded(Connect(l, x))
  BY <1>1, <1>2 DEF Bounded
<1>. QED
  BY <1>1, <1>3 DEF Connect

LEMMA DisconnectRemoves ==
  ASSUME NEW l, NEW u, Bounded(l)
  PROVE  /\ DOMAIN Disconnect(l, u) = DOMAIN l \ {u}
         /\ \A t \in DOMAIN l \ {u} : Disconnect(l, u)[t] = l[t]
         /\ Bounded(Disconnect(l, u))
BY DEF Disconnect, Bounded

-----------------------------------------------------------------------------
(* One step of an emission.                                                *)

\* emit ends, or is at the next listener that is connected.
LEMMA ResumeGoesOn ==
  ASSUME TypeOK, NEW l, DOMAIN l \subseteq Nat, Resume(l)
  PROVE  /\ emission' \in Emission
         /\ emission'.signal # "none" =>
              emission'.signal = emission.signal /\ emission'.at \in DOMAIN l
<1>. DEFINE later == Later(l, emission.at)
<1>1. emission \in Emission
  BY DEF TypeOK
<1>2. later \in SUBSET Nat /\ later \subseteq DOMAIN l
  BY DEF Later
<1>3. CASE later = {}
  <2>1. emission' = Idle
    BY <1>3 DEF Resume
  <2>2. Idle \in Emission /\ Idle.signal = "none"
    BY PlacesAreInt DEF Idle, Emission
  <2>. QED
    BY <2>1, <2>2
<1>4. CASE later # {}
  <2>1. emission' = [emission EXCEPT !.at = Earliest(later)]
    BY <1>4 DEF Resume
  <2>2. Earliest(later) \in later
    BY <1>2, <1>4, EarliestIsLeast
  <2>. QED
    BY <1>1, <1>2, <2>1, <2>2 DEF Emission
<1>. QED
  BY <1>3, <1>4

\* A drag whose listener is called has not ended.
LEMMA CalledDragIsOn ==
  ASSUME ShellInv, NEW d \in Drag, NEW signals, "none" \notin signals,
         Calls(signals, d)
  PROVE  d \in Dragging
<1>1. emission.at \in DOMAIN Emitted /\ Emitted[emission.at] = d
  BY DEF ShellInv, EmissionInv, Calls
<1>2. d \notin {"cursor", "seat", "script"}
  BY NamesDiffer
<1>3. CASE emission.signal = "move"
  <2>1. emission.at \in DOMAIN moves /\ moves[emission.at] = d
    BY <1>1, <1>3 DEF Emitted
  <2>2. PICK c \in Dragging : emission.at = drag[c].onMove
    BY <1>2, <2>1 DEF ShellInv, TokensNameDrags
  <2>. QED
    BY <2>1, <2>2 DEF ShellInv, TokensNameDrags
<1>4. CASE emission.signal # "move"
  <2>1. emission.at \in DOMAIN clicks /\ clicks[emission.at] = d
    BY <1>1, <1>4 DEF Emitted
  <2>2. PICK c \in Dragging : emission.at = drag[c].onClick
    BY <1>2, <2>1 DEF ShellInv, TokensNameDrags
  <2>. QED
    BY <2>1, <2>2 DEF ShellInv, TokensNameDrags
<1>. QED
  BY <1>3, <1>4

-----------------------------------------------------------------------------
(* The list of windows.                                                    *)

\* A window that is raised is found where it was.
LEMMA RaisedKeepsWindows ==
  ASSUME NEW w \in Window, windows \in Seq(Window)
  PROVE  /\ Raised(w) \in Seq(Window) /\ Len(Raised(w)) = Len(windows)
         /\ Place(w) # {} =>
              /\ Earliest(Place(w)) \in 1..Len(windows)
              /\ windows[Earliest(Place(w))] = w
              /\ Len(windows) >= 1 /\ Raised(w)[1] = w
              /\ \A i \in 2..Len(windows) :
                   Raised(w)[i] = windows[IF i <= Earliest(Place(w)) THEN i - 1 ELSE i]
<1>1. CASE Place(w) = {}
  BY <1>1 DEF Raised
<1>2. CASE Place(w) # {}
  <2>. DEFINE n == Len(windows)
              p == Earliest(Place(w))
              f == [i \in 1..n |->
                      IF i = 1 THEN w ELSE windows[IF i <= p THEN i - 1 ELSE i]]
  <2>1. p \in Place(w) /\ Place(w) \subseteq 1..n /\ n \in Nat
    <3>1. Place(w) \in SUBSET Nat /\ Place(w) \subseteq 1..n
      BY DEF Place
    <3>. QED
      BY <1>2, <3>1, EarliestIsLeast
  <2>2. p \in 1..n /\ windows[p] = w
    BY <2>1 DEF Place
  <2>3. Raised(w) = f
    BY <1>2 DEF Raised
  <2>4. \A i \in 1..n : f[i] \in Window
    BY <2>2
  <2>5. f \in [1..n -> Window]
    BY <2>4
  <2>6. f \in Seq(Window) /\ Len(f) = n
    BY <2>1, <2>5
  <2>. QED
    BY <2>1, <2>2, <2>3, <2>6
<1>. QED
  BY <1>1, <1>2

-----------------------------------------------------------------------------
(* The invariants.                                                         *)

LEMMA InitInv == ShellInit => ShellInv
<1>. SUFFICES ASSUME ShellInit PROVE ShellInv
  OBVIOUS
<1>1. Dragging = {}
  BY DEF ShellInit, Dragging
<1>2. DOMAIN moves = {0, 1, 2} /\ DOMAIN clicks = {0, 1}
  BY DEF ShellInit
<1>3. /\ moves[0] = "cursor" /\ moves[1] = "seat" /\ moves[2] = "script"
      /\ clicks[0] = "seat" /\ clicks[1] = "script"
  BY DEF ShellInit
<1>4. TypeOK
  <2>1. xdg \in [Window -> XdgSurface]
    BY DEF ShellInit, XdgSurface
  <2>2. emission \in Emission /\ cursor \in Reach
    BY PlacesAreInt DEF ShellInit, Emission, Idle
  <2>3. windows \in Seq(Window) /\ sent \in Seq([window : Window, size : Int])
    BY DEF ShellInit
  <2>4. \A t \in DOMAIN moves : moves[t] \in {"cursor", "seat", "script"} \cup Drag
    BY <1>2, <1>3
  <2>5. \A t \in DOMAIN clicks : clicks[t] \in {"seat", "script"} \cup Drag
    BY <1>2, <1>3
  <2>6. DOMAIN moves \subseteq Nat /\ DOMAIN clicks \subseteq Nat
    BY <1>2
  <2>7. /\ drag \in [Drag -> DragData \cup {Null}] /\ fault \in BOOLEAN
        /\ {pointer, keyboard, activated} \subseteq Window \cup {Null}
        /\ told \subseteq Window /\ live \subseteq Window
    BY DEF ShellInit
  <2>. QED
    BY <2>1, <2>2, <2>3, <2>4, <2>5, <2>6, <2>7 DEF TypeOK
<1>5. EmissionInv
  <2>1. \A t \in DOMAIN moves \cup DOMAIN clicks : t <= 2
    BY <1>2
  <2>2. Bounded(moves) /\ Bounded(clicks)
    BY <2>1 DEF Bounded
  <2>3. emission.signal = "none"
    BY DEF ShellInit, Idle
  <2>. QED
    BY <2>2, <2>3 DEF EmissionInv
<1>6. TokensNameDrags
  BY <1>1, <1>2, <1>3 DEF TokensNameDrags
<1>7. EachWindowOnce
  <2>1. Len(windows) = 0 /\ \A w \in Window : xdg[w].role = "none"
    BY DEF ShellInit
  <2>. QED
    BY <2>1 DEF EachWindowOnce
<1>8. OneActivated
  BY DEF ShellInit, OneActivated
<1>. QED
  BY <1>4, <1>5, <1>6, <1>7, <1>8 DEF ShellInv

\* A drag that begins connects its two listeners.
LEMMA BeginDragConnects ==
  ASSUME ShellInv, NEW w \in Window, NEW d \in Drag,
         NEW kind \in {"move", "left", "right"}, BeginDrag(w, d, kind), ~fault'
  PROVE  /\ drag' = [drag EXCEPT ![d] = drag'[d]]
         /\ drag'[d] \in DragData /\ drag[d] = Null
         /\ drag'[d].onMove = NextToken(moves)
         /\ drag'[d].onClick = NextToken(clicks)
         /\ moves' = Connect(moves, d) /\ clicks' = Connect(clicks, d)
         /\ emission = Idle
         /\ UNCHANGED <<cursor, emission, activated, told, windows, xdg, sent, live>>
         /\ pointer' = Null /\ keyboard' = Null
<1>1. ~fault /\ w \in live /\ emission = Idle /\ drag[d] = Null
  BY DEF BeginDrag, Request
<1>2. ~Stop
  BY DEF Stop
<1>3. /\ drag' = [drag EXCEPT ![d] =
                [kind |-> kind, window |-> w, start |-> cursor,
                 position |-> Whole(xdg[w].position), size |-> xdg[w].size,
                 onMove |-> NextToken(moves), onClick |-> NextToken(clicks)]]
      /\ moves' = Connect(moves, d) /\ clicks' = Connect(clicks, d)
      /\ pointer' = Null /\ keyboard' = Null
      /\ UNCHANGED <<cursor, emission, activated, told, windows, xdg, sent, live>>
  BY <1>2 DEF BeginDrag
<1>4. drag \in [Drag -> DragData \cup {Null}] /\ xdg[w] \in XdgSurface /\ cursor \in Reach
  BY DEF ShellInv, TypeOK
<1>5. NextToken(moves) \in Nat /\ NextToken(clicks) \in Nat
  BY FreshToken DEF ShellInv, TypeOK, EmissionInv
<1>6. drag'[d] \in DragData
  BY <1>3, <1>4, <1>5, WholeIsNear DEF DragData, XdgSurface
<1>. QED
  BY <1>1, <1>3, <1>4, <1>6

\* A drag that ends disconnects them.
LEMMA EndsDisconnects ==
  ASSUME ShellInv, NEW d \in Drag, Calls({"release"}, d), Ends(d)
  PROVE  /\ moves' = Disconnect(moves, drag[d].onMove)
         /\ clicks' = Disconnect(clicks, drag[d].onClick)
         /\ drag' = [drag EXCEPT ![d] = Null] /\ d \in Dragging
         /\ DOMAIN clicks' \subseteq Nat /\ Resume(clicks')
         /\ emission.signal = "release"
<1>1. d \in Dragging
  BY CalledDragIsOn
<1>2. DOMAIN clicks' \subseteq DOMAIN clicks
  BY DEF Ends, Disconnect
<1>. QED
  BY <1>1, <1>2 DEF Ends, Calls, ShellInv, TypeOK

\* What Stop leaves alone is everything but the fault.
LEMMA StopStep ==
  ASSUME ShellInv, Stop
  PROVE  ShellInv'
BY DEF Stop, input, focus, ShellInv, TypeOK, EmissionInv, Emitted, TokensNameDrags,
       Dragging, EachWindowOnce, OneActivated

\* Requests leave the seat's events alone, and listeners the requests' state.
LEMMA TypeStep == ShellInv /\ ShellNext => TypeOK'
<1>. SUFFICES ASSUME ShellInv, ShellNext PROVE TypeOK'
  OBVIOUS
<1>. USE DEF input, focus
<1>1. TypeOK /\ windows \in Seq(Window) /\ sent \in Seq([window : Window, size : Int])
  BY DEF ShellInv, TypeOK
<1>0. xdg \in [Window -> XdgSurface] /\ \A w \in Window : xdg[w] \in XdgSurface
  BY DEF ShellInv, TypeOK
<1>2. CASE Stop
  BY <1>2, StopStep DEF ShellInv
<1>3. ASSUME NEW w \in Window, GetToplevel(w) PROVE TypeOK'
  <2>1. windows' \in Seq(Window)
    BY <1>1, <1>3 DEF GetToplevel
  <2>2. xdg' \in [Window -> XdgSurface]
    BY <1>0, <1>3 DEF GetToplevel, XdgSurface
  <2>. QED
    BY <1>1, <1>3, <2>1, <2>2 DEF GetToplevel, TypeOK
<1>4. ASSUME NEW w \in Window, NEW e \in Extent \cup {0}, CommitBuffer(w, e) PROVE TypeOK'
  <2>. DEFINE size == IF xdg[w].fresh /\ e # 0 THEN e ELSE xdg[w].size
              fresh == xdg[w].fresh /\ e = 0
              r == [xdg[w] EXCEPT !.extent = e, !.size = size, !.fresh = fresh]
  <2>1. xdg' \in [Window -> XdgSurface]
    <3>1. xdg' = [xdg EXCEPT ![w] = r]
      BY <1>0, <1>4 DEF CommitBuffer
    <3>2. size \in Int
      BY <1>0, ExtentsAreWidths DEF XdgSurface
    <3>3. fresh \in BOOLEAN
      OBVIOUS
    <3>4. r \in XdgSurface
      <4>. HIDE DEF size, fresh
      <4>. QED
        BY <1>0, <3>2, <3>3 DEF XdgSurface
    <3>. QED
      BY <1>0, <3>1, <3>4
  <2>. QED
    BY <1>1, <1>4, <2>1 DEF CommitBuffer, TypeOK
<1>5. ASSUME NEW w \in Window, NEW e \in Extent, SetWindowGeometry(w, e) PROVE TypeOK'
  <2>1. xdg' \in [Window -> XdgSurface]
    BY <1>0, <1>5, ExtentsAreWidths DEF SetWindowGeometry, XdgSurface
  <2>. QED
    BY <1>1, <1>5, <2>1 DEF SetWindowGeometry, TypeOK
<1>6. ASSUME NEW w \in Window, NEW n \in 1..MaxSerial, AckConfigure(w, n) PROVE TypeOK'
  <2>1. xdg' \in [Window -> XdgSurface]
    <3>1. [xdg[w] EXCEPT !.size = xdg[w].pending, !.serial = 0] \in XdgSurface
      BY <1>0 DEF XdgSurface
    <3>2. xdg' = [xdg EXCEPT ![w] = [xdg[w] EXCEPT !.size = xdg[w].pending, !.serial = 0]]
      BY <1>0, <1>6 DEF AckConfigure
    <3>. QED
      BY <1>0, <3>1, <3>2
  <2>. QED
    BY <1>1, <1>6, <2>1 DEF AckConfigure, TypeOK
<1>7. ASSUME NEW w \in Window, Leave(w) PROVE TypeOK'
  BY <1>1, <1>7 DEF Leave, TypeOK
<1>8. ASSUME NEW w \in Window, NEW d \in Drag, NEW kind \in {"move", "left", "right"},
             BeginDrag(w, d, kind), ~Stop
      PROVE  TypeOK'
  <2>1. fault' = fault /\ ~fault
    BY <1>8 DEF BeginDrag, Request
  <2>2. ~fault'
    BY <2>1
  <2>3. /\ drag' = [drag EXCEPT ![d] = drag'[d]] /\ drag'[d] \in DragData
        /\ moves' = Connect(moves, d) /\ clicks' = Connect(clicks, d)
        /\ pointer' = Null /\ keyboard' = Null
        /\ UNCHANGED <<cursor, emission, activated, told, windows, xdg, sent, live>>
    BY <1>8, <2>2, BeginDragConnects
  <2>4. DOMAIN moves \subseteq Nat /\ Bounded(moves) /\ DOMAIN clicks \subseteq Nat
        /\ Bounded(clicks)
    BY DEF ShellInv, TypeOK, EmissionInv
  <2>5. DOMAIN moves' \subseteq Nat
        /\ \A t \in DOMAIN moves' : moves'[t] \in {"cursor", "seat", "script"} \cup Drag
    <3>1. NextToken(moves) \in Nat
      BY <2>4, FreshToken
    <3>2. /\ DOMAIN moves' = DOMAIN moves \cup {NextToken(moves)}
          /\ moves'[NextToken(moves)] = d
          /\ \A t \in DOMAIN moves : moves'[t] = moves[t]
      <4>1. moves' = Connect(moves, d)
        BY <2>3
      <4>2. /\ DOMAIN Connect(moves, d) = DOMAIN moves \cup {NextToken(moves)}
            /\ Connect(moves, d)[NextToken(moves)] = d
            /\ \A t \in DOMAIN moves : Connect(moves, d)[t] = moves[t]
        BY <2>4, ConnectAdds
      <4>. QED
        BY <4>1, <4>2
    <3>3. \A t \in DOMAIN moves : moves[t] \in {"cursor", "seat", "script"} \cup Drag
      BY <1>1 DEF TypeOK
    <3>. QED
      BY <2>4, <3>1, <3>2, <3>3
  <2>6. DOMAIN clicks' \subseteq Nat
        /\ \A t \in DOMAIN clicks' : clicks'[t] \in {"seat", "script"} \cup Drag
    <3>1. NextToken(clicks) \in Nat
      BY <2>4, FreshToken
    <3>2. /\ DOMAIN clicks' = DOMAIN clicks \cup {NextToken(clicks)}
          /\ clicks'[NextToken(clicks)] = d
          /\ \A t \in DOMAIN clicks : clicks'[t] = clicks[t]
      <4>1. clicks' = Connect(clicks, d)
        BY <2>3
      <4>2. /\ DOMAIN Connect(clicks, d) = DOMAIN clicks \cup {NextToken(clicks)}
            /\ Connect(clicks, d)[NextToken(clicks)] = d
            /\ \A t \in DOMAIN clicks : Connect(clicks, d)[t] = clicks[t]
        BY <2>4, ConnectAdds
      <4>. QED
        BY <4>1, <4>2
    <3>3. \A t \in DOMAIN clicks : clicks[t] \in {"seat", "script"} \cup Drag
      BY <1>1 DEF TypeOK
    <3>. QED
      BY <2>4, <3>1, <3>2, <3>3
  <2>7. drag' \in [Drag -> DragData \cup {Null}]
    BY <1>1, <2>3 DEF TypeOK
  <2>. QED
    BY <1>1, <2>1, <2>3, <2>5, <2>6, <2>7 DEF TypeOK
<1>9. ASSUME NEW signal \in {"move", "press", "release"}, NEW to \in Reach,
             Emit(signal, to)
      PROVE  TypeOK'
  <2>. DEFINE l == IF signal = "move" THEN moves ELSE clicks
  <2>1. DOMAIN l \in SUBSET Nat /\ DOMAIN l # {}
    BY DEF ShellInv, TypeOK, TokensNameDrags
  <2>2. Earliest(DOMAIN l) \in Nat
    <3>. HIDE DEF l
    <3>. QED
      BY <2>1, EarliestIsLeast
  <2>3. emission' = [signal |-> signal, to |-> to, scripted |-> FALSE,
                    at |-> Earliest(DOMAIN l)]
    BY <1>9 DEF Emit
  <2>4. emission' \in Emission
    <3>. HIDE DEF l
    <3>. QED
      BY <2>2, <2>3 DEF Emission
  <2>. QED
    BY <1>1, <1>9, <2>4 DEF Emit, TypeOK
<1>10. Resume(moves) => emission' \in Emission
  BY <1>1, ResumeGoesOn DEF TypeOK
<1>11. Resume(clicks) => emission' \in Emission
  BY <1>1, ResumeGoesOn DEF TypeOK
<1>12. CASE MoveCursor
  BY <1>1, <1>10, <1>12 DEF MoveCursor, TypeOK, Emission
<1>13. CASE FindFocus /\ ~Stop
  <2>1. PICK w \in live : pointer' = w
    BY <1>13 DEF FindFocus
  <2>2. UNCHANGED <<input, keyboard, activated, told, windows, xdg, drag, sent, live, fault>>
    BY <1>13 DEF FindFocus
  <2>. QED
    BY <1>1, <2>1, <2>2 DEF TypeOK
<1>14. CASE FindNoFocus
  BY <1>1, <1>10, <1>14 DEF FindNoFocus, TypeOK
<1>15. CASE LoseFocus /\ ~Stop
  BY <1>1, <1>15 DEF LoseFocus, TypeOK
<1>16. CASE KeepFocus /\ ~Stop
  BY <1>1, <1>10, <1>16 DEF KeepFocus, TypeOK
<1>17. CASE ClickNothing
  BY <1>1, <1>11, <1>17 DEF ClickNothing, TypeOK
<1>18. CASE ClickWindow /\ ~Stop
  <2>1. pointer \in Window
    BY <1>1, <1>18 DEF ClickWindow, Lock, TypeOK
  <2>2. windows' \in Seq(Window)
    BY <1>1, <1>18, <2>1, RaisedKeepsWindows DEF ClickWindow
  <2>. QED
    BY <1>1, <1>11, <1>18, <2>1, <2>2 DEF ClickWindow, Told, TypeOK
<1>19. ASSUME NEW d \in Drag, MoveWindow(d) \/ ResizeWindow(d)
       PROVE  TypeOK'
  <2>1. d \in Dragging
    BY <1>19, CalledDragIsOn DEF MoveWindow, ResizeWindow
  <2>2. drag[d] \in DragData /\ cursor \in Reach
    BY <1>1, <2>1 DEF Dragging, TypeOK
  <2>3. drag[d].window \in Window /\ drag[d].position \in Int /\ drag[d].size \in Int
        /\ drag[d].start \in Int /\ cursor \in Int
    BY <2>2, PlacesAreInt DEF DragData
  <2>. DEFINE dx == Whole(cursor - drag[d].start)
  <2>7. dx \in Int
    <3>1. cursor - drag[d].start \in Int
      BY <2>3
    <3>. QED
      BY <3>1, WholeIsNear
  <2>8. \A n \in Int : Grain * n \in Int
    BY BoundsAreNat
  <2>4. /\ NewSize(d) \in Int /\ NewPosition(d) \in Int
        /\ Grain * (drag[d].position + dx) \in Int
    <3>. HIDE DEF dx
    <3>1. /\ drag[d].position + dx \in Int
          /\ drag[d].size - dx \in Int /\ drag[d].size + dx \in Int
      BY <2>3, <2>7
    <3>2. NewPosition(d) \in Int
      BY <2>3, <2>8, <3>1 DEF NewPosition, dx
    <3>3. NewSize(d) \in Int
      BY <3>1 DEF NewSize, dx
    <3>. QED
      BY <2>8, <3>1, <3>2, <3>3
  <2>5. xdg' \in [Window -> XdgSurface]
    BY <1>0, <1>19, <2>3, <2>4 DEF MoveWindow, ResizeWindow, XdgSurface
  <2>6. Resume(moves) /\ UNCHANGED <<cursor, moves, clicks, focus, windows, drag, sent, live, fault>>
    BY <1>19 DEF MoveWindow, ResizeWindow
  <2>. QED
    BY <1>1, <1>10, <2>5, <2>6 DEF TypeOK
<1>20. ASSUME NEW d \in Drag, HoldDrag(d) PROVE TypeOK'
  BY <1>1, <1>11, <1>20 DEF HoldDrag, TypeOK
<1>21. ASSUME NEW d \in Drag, Calls({"release"}, d), Ends(d)
       PROVE  /\ emission' \in Emission /\ drag' \in [Drag -> DragData \cup {Null}]
              /\ DOMAIN moves' \subseteq Nat /\ DOMAIN clicks' \subseteq Nat
              /\ \A t \in DOMAIN moves' : moves'[t] \in {"cursor", "seat", "script"} \cup Drag
              /\ \A t \in DOMAIN clicks' : clicks'[t] \in {"seat", "script"} \cup Drag
  <2>1. /\ moves' = Disconnect(moves, drag[d].onMove)
        /\ clicks' = Disconnect(clicks, drag[d].onClick)
        /\ drag' = [drag EXCEPT ![d] = Null]
        /\ DOMAIN clicks' \subseteq Nat /\ Resume(clicks')
    BY <1>21, EndsDisconnects
  <2>2. emission' \in Emission
    BY <1>1, <2>1, ResumeGoesOn
  <2>. QED
    BY <1>1, <2>1, <2>2 DEF Disconnect, TypeOK
<1>22. ASSUME NEW d \in Drag, EndMove(d), ~Stop PROVE TypeOK'
  <2>1. Ends(d) /\ Calls({"release"}, d)
    BY <1>22 DEF EndMove
  <2>2. pointer' = Lock(drag[d].window) /\ keyboard' = Lock(drag[d].window)
        /\ UNCHANGED <<cursor, activated, told, windows, xdg, sent, live, fault>>
    BY <1>22 DEF EndMove
  <2>3. Lock(drag[d].window) \in Window \cup {Null}
    <3>1. d \in Dragging
      BY <2>1, CalledDragIsOn
    <3>2. drag[d].window \in Window
      BY <1>1, <3>1 DEF Dragging, TypeOK, DragData
    <3>. QED
      BY <3>2 DEF Lock
  <2>. QED
    BY <1>1, <1>21, <2>1, <2>2, <2>3 DEF TypeOK
<1>23. ASSUME NEW d \in Drag, EndResize(d), ~Stop PROVE TypeOK'
  <2>. DEFINE w == drag[d].window
  <2>1. Ends(d) /\ Calls({"release"}, d)
    BY <1>23 DEF EndResize
  <2>2. d \in Dragging
    BY <2>1, CalledDragIsOn
  <2>3. w \in Window
    BY <1>1, <2>2 DEF Dragging, TypeOK, DragData
  <2>4. /\ sent' = Append(sent, [window |-> w, size |-> xdg[w].pending])
        /\ xdg' = [xdg EXCEPT ![w].serial = Len(sent) + 1]
        /\ told' = told \ {w}
        /\ UNCHANGED <<cursor, pointer, keyboard, activated, windows, live, fault>>
    BY <1>23 DEF EndResize
  <2>5. xdg[w].pending \in Int /\ Len(sent) \in Nat
    BY <1>0, <1>1, <2>3 DEF XdgSurface
  <2>6. sent' \in Seq([window : Window, size : Int])
    BY <1>1, <2>3, <2>4, <2>5
  <2>7. xdg' \in [Window -> XdgSurface]
    <3>. DEFINE r == [xdg[w] EXCEPT !.serial = Len(sent) + 1]
    <3>1. xdg[w] \in XdgSurface
      BY <1>0, <2>3
    <3>2. r \in XdgSurface
      <4>. HIDE DEF w
      <4>. QED
        BY <2>5, <3>1 DEF XdgSurface
    <3>3. xdg' = [xdg EXCEPT ![w] = r]
      BY <2>4
    <3>. QED
      BY <1>0, <3>2, <3>3
  <2>. QED
    BY <1>1, <1>21, <2>1, <2>4, <2>6, <2>7 DEF TypeOK
<1>24. CASE Requests
  BY <1>2, <1>3, <1>4, <1>5, <1>6, <1>7, <1>8, <1>24 DEF Requests, Move, Resize
<1>26. CASE ScriptReturns
  BY <1>1, <1>10, <1>11, <1>26 DEF ScriptReturns, Emitted, TypeOK
<1>25. CASE Listener
  BY <1>2, <1>12, <1>13, <1>14, <1>15, <1>16, <1>17, <1>18, <1>19, <1>20, <1>22, <1>23, <1>25,
     <1>26 DEF Listener
<1>27. Scripted => emission' \in Emission
  BY <1>1 DEF Scripted, TypeOK, Emission
<1>28. ASSUME NEW w \in Window, NEW x \in Places, ScriptPlaces(w, x) PROVE TypeOK'
  <2>1. xdg' \in [Window -> XdgSurface]
    BY <1>0, <1>28, PlacesAreInt DEF ScriptPlaces, XdgSurface
  <2>. QED
    BY <1>1, <1>27, <1>28, <2>1 DEF ScriptPlaces, TypeOK
<1>29. ASSUME NEW w \in Window, ScriptRaises(w) PROVE TypeOK'
  <2>1. windows' \in Seq(Window)
    BY <1>1, <1>29, RaisedKeepsWindows DEF ScriptRaises
  <2>. QED
    BY <1>1, <1>27, <1>29, <2>1 DEF ScriptRaises, TypeOK
<1>30. ASSUME NEW to \in Reach, ScriptPoints(to) PROVE TypeOK'
  BY <1>1, <1>27, <1>30 DEF ScriptPoints, TypeOK
<1>31. CASE ScriptCalls
  BY <1>28, <1>29, <1>30, <1>31 DEF ScriptCalls
<1>. QED
  BY <1>9, <1>24, <1>25, <1>31, PlacesAreInt DEF ShellNext, PointerMotion, PointerButton

\* Who leaves the signals and the drags alone leaves the tokens alone.
LEMMA QuietTokens ==
  ASSUME ShellInv, UNCHANGED <<moves, clicks, drag>>
  PROVE  TokensNameDrags' /\ Bounded(moves)' /\ Bounded(clicks)'
<1>1. Dragging' = Dragging
  BY DEF Dragging
<1>2. Bounded(moves)' /\ Bounded(clicks)'
  BY DEF ShellInv, EmissionInv, Bounded
<1>. QED
  BY <1>1, <1>2 DEF ShellInv, TokensNameDrags

\* A listener that returns leaves emit at one that is connected.
LEMMA ResumedInv ==
  ASSUME ShellInv, UNCHANGED <<moves, clicks, drag>>,
         \/ emission.signal = "move" /\ Resume(moves)
         \/ emission.signal \in {"press", "release"} /\ Resume(clicks)
  PROVE  EmissionInv' /\ TokensNameDrags'
<1>1. TokensNameDrags' /\ Bounded(moves)' /\ Bounded(clicks)'
  BY QuietTokens
<1>2. TypeOK /\ DOMAIN moves \subseteq Nat /\ DOMAIN clicks \subseteq Nat
  BY DEF ShellInv, TypeOK
<1>3. emission'.signal # "none" => emission'.at \in DOMAIN Emitted'
  <2>1. CASE emission.signal = "move" /\ Resume(moves)
    <3>1. emission'.signal # "none" =>
            emission'.signal = "move" /\ emission'.at \in DOMAIN moves
      BY <1>2, <2>1, ResumeGoesOn
    <3>. QED
      BY <3>1 DEF Emitted
  <2>2. CASE emission.signal \in {"press", "release"} /\ Resume(clicks)
    <3>1. emission'.signal # "none" =>
            emission'.signal \in {"press", "release"} /\ emission'.at \in DOMAIN clicks
      BY <1>2, <2>2, ResumeGoesOn
    <3>. QED
      BY <3>1 DEF Emitted
  <2>. QED
    BY <2>1, <2>2
<1>. QED
  BY <1>1, <1>3 DEF EmissionInv

\* So does one that ends its drag, and it takes its own two tokens away.
LEMMA EndedInv ==
  ASSUME ShellInv, NEW d \in Drag, Calls({"release"}, d), Ends(d)
  PROVE  EmissionInv' /\ TokensNameDrags'
<1>1. /\ moves' = Disconnect(moves, drag[d].onMove)
      /\ clicks' = Disconnect(clicks, drag[d].onClick)
      /\ drag' = [drag EXCEPT ![d] = Null] /\ d \in Dragging
      /\ DOMAIN clicks' \subseteq Nat /\ Resume(clicks')
      /\ emission.signal = "release"
  BY EndsDisconnects
<1>2. TypeOK /\ Bounded(moves) /\ Bounded(clicks) /\ TokensNameDrags
  BY DEF ShellInv, EmissionInv
<1>3. /\ DOMAIN moves' = DOMAIN moves \ {drag[d].onMove} /\ Bounded(moves')
      /\ \A t \in DOMAIN moves' : moves'[t] = moves[t]
  <2>. DEFINE u == drag[d].onMove
  <2>1. /\ DOMAIN Disconnect(moves, u) = DOMAIN moves \ {u}
        /\ Bounded(Disconnect(moves, u))
        /\ \A t \in DOMAIN moves \ {u} : Disconnect(moves, u)[t] = moves[t]
    BY <1>2, DisconnectRemoves
  <2>. QED
    BY <1>1, <2>1
<1>4. /\ DOMAIN clicks' = DOMAIN clicks \ {drag[d].onClick} /\ Bounded(clicks')
      /\ \A t \in DOMAIN clicks' : clicks'[t] = clicks[t]
  <2>. DEFINE u == drag[d].onClick
  <2>1. /\ DOMAIN Disconnect(clicks, u) = DOMAIN clicks \ {u}
        /\ Bounded(Disconnect(clicks, u))
        /\ \A t \in DOMAIN clicks \ {u} : Disconnect(clicks, u)[t] = clicks[t]
    BY <1>2, DisconnectRemoves
  <2>. QED
    BY <1>1, <2>1
<1>5. Dragging' = Dragging \ {d} /\ \A c \in Dragging' : drag'[c] = drag[c]
  BY <1>1, <1>2 DEF Dragging, TypeOK
<1>6. d \notin {"cursor", "seat", "script"}
  BY NamesDiffer
<1>7. drag[d].onMove \notin {0, 1, 2} /\ drag[d].onClick \notin {0, 1}
  BY <1>1, <1>2, <1>6 DEF TokensNameDrags
<1>8. \A c \in Dragging' : drag[c].onMove # drag[d].onMove /\ drag[c].onClick # drag[d].onClick
  BY <1>1, <1>2, <1>5 DEF TokensNameDrags
<1>9. DOMAIN moves' = {0, 1, 2} \cup {drag'[c].onMove : c \in Dragging'}
  BY <1>2, <1>3, <1>5, <1>7, <1>8 DEF TokensNameDrags
<1>10. DOMAIN clicks' = {0, 1} \cup {drag'[c].onClick : c \in Dragging'}
  BY <1>2, <1>4, <1>5, <1>7, <1>8 DEF TokensNameDrags
<1>11. /\ moves'[0] = "cursor" /\ moves'[1] = "seat" /\ moves'[2] = "script"
       /\ clicks'[0] = "seat" /\ clicks'[1] = "script"
  BY <1>2, <1>3, <1>4, <1>9, <1>10 DEF TokensNameDrags
<1>12. \A c \in Dragging' : moves'[drag'[c].onMove] = c /\ clicks'[drag'[c].onClick] = c
  <2>1. SUFFICES ASSUME NEW c \in Dragging'
                 PROVE  moves'[drag'[c].onMove] = c /\ clicks'[drag'[c].onClick] = c
    OBVIOUS
  <2>2. c \in Dragging /\ drag'[c] = drag[c]
    BY <1>5, <2>1
  <2>3. drag'[c].onMove \in DOMAIN moves' /\ drag'[c].onClick \in DOMAIN clicks'
    BY <1>9, <1>10
  <2>4. moves[drag[c].onMove] = c /\ clicks[drag[c].onClick] = c
    BY <1>2, <2>2 DEF TokensNameDrags
  <2>. QED
    BY <1>3, <1>4, <2>2, <2>3, <2>4
<1>13. emission'.signal # "none" => emission'.at \in DOMAIN Emitted'
  <2>1. emission'.signal # "none" =>
          emission'.signal = "release" /\ emission'.at \in DOMAIN clicks'
    BY <1>1, <1>2, ResumeGoesOn
  <2>. QED
    BY <2>1 DEF Emitted
<1>. QED
  BY <1>3, <1>4, <1>9, <1>10, <1>11, <1>12, <1>13 DEF EmissionInv, TokensNameDrags

\* A drag that begins gets two tokens that no listener has.
LEMMA BegunInv ==
  ASSUME ShellInv, NEW w \in Window, NEW d \in Drag,
         NEW kind \in {"move", "left", "right"}, BeginDrag(w, d, kind), ~fault'
  PROVE  EmissionInv' /\ TokensNameDrags'
<1>1. /\ drag' = [drag EXCEPT ![d] = drag'[d]] /\ drag'[d] \in DragData /\ drag[d] = Null
      /\ drag'[d].onMove = NextToken(moves) /\ drag'[d].onClick = NextToken(clicks)
      /\ moves' = Connect(moves, d) /\ clicks' = Connect(clicks, d)
      /\ emission = Idle /\ emission' = emission
  BY BeginDragConnects
<1>2. /\ TypeOK /\ Bounded(moves) /\ Bounded(clicks) /\ TokensNameDrags
      /\ DOMAIN moves \subseteq Nat /\ DOMAIN clicks \subseteq Nat
  BY DEF ShellInv, EmissionInv, TypeOK
<1>3. /\ DOMAIN moves' = DOMAIN moves \cup {NextToken(moves)} /\ Bounded(moves')
      /\ moves'[NextToken(moves)] = d
      /\ \A t \in DOMAIN moves : moves'[t] = moves[t]
  <2>1. /\ DOMAIN Connect(moves, d) = DOMAIN moves \cup {NextToken(moves)}
        /\ Bounded(Connect(moves, d)) /\ Connect(moves, d)[NextToken(moves)] = d
        /\ \A t \in DOMAIN moves : Connect(moves, d)[t] = moves[t]
    BY <1>2, ConnectAdds
  <2>. QED
    BY <1>1, <2>1
<1>4. /\ DOMAIN clicks' = DOMAIN clicks \cup {NextToken(clicks)} /\ Bounded(clicks')
      /\ clicks'[NextToken(clicks)] = d
      /\ \A t \in DOMAIN clicks : clicks'[t] = clicks[t]
  <2>1. /\ DOMAIN Connect(clicks, d) = DOMAIN clicks \cup {NextToken(clicks)}
        /\ Bounded(Connect(clicks, d)) /\ Connect(clicks, d)[NextToken(clicks)] = d
        /\ \A t \in DOMAIN clicks : Connect(clicks, d)[t] = clicks[t]
    BY <1>2, ConnectAdds
  <2>. QED
    BY <1>1, <2>1
<1>5. drag'[d] # Null
  BY <1>1, NullIsNoDrag
<1>6. Dragging' = Dragging \cup {d} /\ \A c \in Dragging : c # d /\ drag'[c] = drag[c]
  BY <1>1, <1>2, <1>5 DEF Dragging, TypeOK
<1>7. \A c \in Dragging : drag[c].onMove \in DOMAIN moves /\ drag[c].onClick \in DOMAIN clicks
  BY <1>2 DEF TokensNameDrags
<1>8. DOMAIN moves' = {0, 1, 2} \cup {drag'[c].onMove : c \in Dragging'}
  BY <1>1, <1>2, <1>3, <1>6 DEF TokensNameDrags
<1>9. DOMAIN clicks' = {0, 1} \cup {drag'[c].onClick : c \in Dragging'}
  BY <1>1, <1>2, <1>4, <1>6 DEF TokensNameDrags
<1>10. /\ moves'[0] = "cursor" /\ moves'[1] = "seat" /\ moves'[2] = "script"
       /\ clicks'[0] = "seat" /\ clicks'[1] = "script"
  BY <1>2, <1>3, <1>4 DEF TokensNameDrags
<1>11. \A c \in Dragging' : moves'[drag'[c].onMove] = c /\ clicks'[drag'[c].onClick] = c
  BY <1>1, <1>2, <1>3, <1>4, <1>6, <1>7 DEF TokensNameDrags
<1>12. emission'.signal = "none"
  BY <1>1 DEF Idle
<1>. QED
  BY <1>3, <1>4, <1>8, <1>9, <1>10, <1>11, <1>12 DEF EmissionInv, TokensNameDrags

\* Every step leaves emit at a listener that is connected, and the drags with
\* their listeners.
LEMMA TokenStep == ShellInv /\ ShellNext => EmissionInv' /\ TokensNameDrags'
<1>. SUFFICES ASSUME ShellInv, ShellNext PROVE EmissionInv' /\ TokensNameDrags'
  OBVIOUS
<1>. USE DEF input, focus
<1>1. CASE Stop
  BY <1>1, StopStep DEF ShellInv
<1>2. ASSUME UNCHANGED <<moves, clicks, drag, emission>>
      PROVE  EmissionInv' /\ TokensNameDrags'
  <2>1. TokensNameDrags' /\ Bounded(moves)' /\ Bounded(clicks)'
    BY <1>2, QuietTokens
  <2>2. emission'.signal # "none" => emission'.at \in DOMAIN Emitted'
    BY <1>2 DEF ShellInv, EmissionInv, Emitted
  <2>. QED
    BY <2>1, <2>2 DEF EmissionInv
<1>3. ASSUME NEW w \in Window, NEW d \in Drag, NEW kind \in {"move", "left", "right"},
             BeginDrag(w, d, kind)
      PROVE  EmissionInv' /\ TokensNameDrags'
  <2>1. CASE ~Stop
    <3>1. ~fault'
      BY <1>3, <2>1 DEF BeginDrag, Request
    <3>. QED
      BY <1>3, <3>1, BegunInv
  <2>. QED
    BY <1>1, <2>1
<1>4. ASSUME NEW w \in Window, NEW n,
             \/ GetToplevel(w) \/ Leave(w) \/ CommitBuffer(w, n)
             \/ SetWindowGeometry(w, n) \/ AckConfigure(w, n)
      PROVE  EmissionInv' /\ TokensNameDrags'
  <2>1. UNCHANGED <<moves, clicks, drag, emission>>
    BY <1>4 DEF GetToplevel, Leave, CommitBuffer, SetWindowGeometry, AckConfigure
  <2>. QED
    BY <1>2, <2>1
<1>5. CASE Requests
  BY <1>3, <1>4, <1>5 DEF Requests, Move, Resize
<1>6. ASSUME NEW signal \in {"move", "press", "release"}, NEW to, Emit(signal, to)
      PROVE  EmissionInv' /\ TokensNameDrags'
  <2>. DEFINE l == IF signal = "move" THEN moves ELSE clicks
  <2>1. UNCHANGED <<moves, clicks, drag>>
    BY <1>6 DEF Emit
  <2>2. DOMAIN l \in SUBSET Nat /\ DOMAIN l # {}
    BY DEF ShellInv, TypeOK, TokensNameDrags
  <2>3. Earliest(DOMAIN l) \in DOMAIN l
    <3>. HIDE DEF l
    <3>. QED
      BY <2>2, EarliestIsLeast
  <2>4. emission' = [signal |-> signal, to |-> to, scripted |-> FALSE,
                    at |-> Earliest(DOMAIN l)]
    BY <1>6 DEF Emit
  <2>5. emission'.signal = signal /\ emission'.at \in DOMAIN l
    <3>. HIDE DEF l
    <3>. QED
      BY <2>3, <2>4
  <2>6. emission'.at \in DOMAIN Emitted'
    BY <2>1, <2>5 DEF Emitted
  <2>. QED
    BY <2>1, <2>6, QuietTokens DEF EmissionInv
<1>7. CASE MoveCursor \/ FindNoFocus \/ (KeepFocus /\ ~Stop)
  <2>1. UNCHANGED <<moves, clicks, drag>> /\ emission.signal = "move" /\ Resume(moves)
    BY <1>7 DEF MoveCursor, FindNoFocus, KeepFocus, SeatMove, Calls
  <2>. QED
    BY <2>1, ResumedInv
<1>8. CASE (FindFocus \/ LoseFocus) /\ ~Stop
  BY <1>2, <1>8 DEF FindFocus, LoseFocus
<1>9. CASE ClickNothing \/ (ClickWindow /\ ~Stop)
  <2>1. /\ UNCHANGED <<moves, clicks, drag>>
        /\ emission.signal \in {"press", "release"} /\ Resume(clicks)
    BY <1>9 DEF ClickNothing, ClickWindow, SeatClick, Calls
  <2>. QED
    BY <2>1, ResumedInv
<1>10. ASSUME NEW d \in Drag, MoveWindow(d) \/ ResizeWindow(d)
       PROVE  EmissionInv' /\ TokensNameDrags'
  <2>1. UNCHANGED <<moves, clicks, drag>> /\ emission.signal = "move" /\ Resume(moves)
    BY <1>10 DEF MoveWindow, ResizeWindow, Calls
  <2>. QED
    BY <2>1, ResumedInv
<1>11. ASSUME NEW d \in Drag, HoldDrag(d) PROVE EmissionInv' /\ TokensNameDrags'
  <2>1. UNCHANGED <<moves, clicks, drag>> /\ emission.signal = "press" /\ Resume(clicks)
    BY <1>11 DEF HoldDrag, Calls
  <2>. QED
    BY <2>1, ResumedInv
<1>12. ASSUME NEW d \in Drag, EndMove(d) \/ EndResize(d), ~Stop
       PROVE  EmissionInv' /\ TokensNameDrags'
  <2>1. Calls({"release"}, d) /\ Ends(d)
    BY <1>12 DEF EndMove, EndResize
  <2>. QED
    BY <2>1, EndedInv
<1>14. CASE ScriptReturns
  <2>1. /\ UNCHANGED <<moves, clicks, drag>>
        /\ \/ emission.signal = "move" /\ Resume(moves)
           \/ emission.signal \in {"press", "release"} /\ Resume(clicks)
    BY <1>14 DEF ScriptReturns, Calls, Emitted
  <2>. QED
    BY <2>1, ResumedInv
<1>13. CASE Listener
  BY <1>1, <1>7, <1>8, <1>9, <1>10, <1>11, <1>12, <1>13, <1>14 DEF Listener
<1>15. CASE ScriptCalls
  <2>1. UNCHANGED <<moves, clicks, drag>> /\ Scripted
    BY <1>15 DEF ScriptCalls, ScriptPlaces, ScriptRaises, ScriptPoints
  <2>2. TokensNameDrags' /\ Bounded(moves)' /\ Bounded(clicks)'
    BY <2>1, QuietTokens
  <2>3. emission'.signal = emission.signal /\ emission'.at = emission.at
    BY <2>1 DEF Scripted, ShellInv, TypeOK, Emission
  <2>4. emission'.signal # "none" => emission'.at \in DOMAIN Emitted'
    BY <2>1, <2>3 DEF ShellInv, EmissionInv, Emitted
  <2>. QED
    BY <2>2, <2>4 DEF EmissionInv
<1>. QED
  BY <1>5, <1>6, <1>13, <1>15 DEF ShellNext, PointerMotion, PointerButton

\* A window enters the list with its first role, and is only moved in it.
LEMMA ListStep == ShellInv /\ ShellNext => EachWindowOnce'
<1>. SUFFICES ASSUME ShellInv, ShellNext PROVE EachWindowOnce'
  OBVIOUS
<1>. USE DEF input, focus
<1>1. CASE Stop
  BY <1>1, StopStep DEF ShellInv
<1>2. /\ EachWindowOnce /\ windows \in Seq(Window) /\ Len(windows) \in Nat
      /\ xdg \in [Window -> XdgSurface]
  BY DEF ShellInv, TypeOK
<1>3. ASSUME UNCHANGED windows, \A w \in Window : xdg'[w].role = xdg[w].role
      PROVE  EachWindowOnce'
  BY <1>2, <1>3 DEF EachWindowOnce
<1>4. ASSUME NEW w \in Window, GetToplevel(w) PROVE EachWindowOnce'
  <2>1. /\ windows' = <<w>> \o windows /\ xdg[w].role = "none"
        /\ xdg' = [xdg EXCEPT ![w].role = "toplevel", ![w].fresh = TRUE]
    BY <1>4 DEF GetToplevel
  <2>2. /\ Len(windows') = Len(windows) + 1 /\ windows'[1] = w
        /\ \A i \in 2..Len(windows) + 1 : windows'[i] = windows[i - 1]
    BY <1>2, <2>1
  <2>3. \A i \in 1..Len(windows) : windows[i] # w /\ windows'[i + 1] = windows[i]
    <3>1. \A i \in 1..Len(windows) : windows[i] # w
      BY <1>2, <2>1 DEF EachWindowOnce
    <3>2. ASSUME NEW i \in 1..Len(windows) PROVE windows'[i + 1] = windows[i]
      <4>1. i + 1 \in 2..Len(windows) + 1 /\ (i + 1) - 1 = i
        BY <1>2
      <4>. QED
        BY <2>2, <4>1
    <3>. QED
      BY <3>1, <3>2
  <2>4. ASSUME NEW i \in 1..Len(windows'), NEW j \in 1..Len(windows'),
               windows'[i] = windows'[j]
        PROVE  i = j
    <3>1. CASE i = 1 \/ j = 1
      <4>1. \A k \in 2..Len(windows) + 1 : windows'[k] # w
        BY <1>2, <2>2, <2>3
      <4>. QED
        BY <1>2, <2>2, <2>4, <3>1, <4>1
    <3>2. CASE i # 1 /\ j # 1
      <4>1. /\ i - 1 \in 1..Len(windows) /\ j - 1 \in 1..Len(windows)
            /\ windows[i - 1] = windows[j - 1]
        BY <1>2, <2>2, <2>4, <3>2
      <4>2. i - 1 = j - 1
        BY <1>2, <4>1 DEF EachWindowOnce
      <4>. QED
        BY <1>2, <2>2, <4>2
    <3>. QED
      BY <3>1, <3>2
  <2>5. \A v \in Window : xdg'[v].role = IF v = w THEN "toplevel" ELSE xdg[v].role
    BY <1>2, <2>1 DEF XdgSurface
  <2>6. ASSUME NEW v \in Window
        PROVE  (\E i \in 1..Len(windows') : windows'[i] = v) <=>
                 v = w \/ \E i \in 1..Len(windows) : windows[i] = v
    <3>1. \A i \in 1..Len(windows') : i = 1 \/ i - 1 \in 1..Len(windows)
      BY <1>2, <2>2
    <3>2. \A i \in 1..Len(windows) : i + 1 \in 1..Len(windows')
      BY <1>2, <2>2
    <3>3. 1 \in 1..Len(windows')
      BY <1>2, <2>2
    <3>4. ASSUME NEW i \in 1..Len(windows'), windows'[i] = v
          PROVE  v = w \/ \E k \in 1..Len(windows) : windows[k] = v
      <4>1. CASE i = 1
        BY <2>2, <3>4, <4>1
      <4>2. CASE i # 1
        <5>1. i - 1 \in 1..Len(windows) /\ windows[i - 1] = v
          BY <1>2, <2>2, <3>1, <3>4, <4>2
        <5>. QED
          BY <5>1
      <4>. QED
        BY <4>1, <4>2
    <3>5. ASSUME NEW k \in 1..Len(windows), windows[k] = v
          PROVE  \E i \in 1..Len(windows') : windows'[i] = v
      BY <2>3, <3>2, <3>5
    <3>. QED
      BY <2>2, <3>3, <3>4, <3>5
  <2>. QED
    BY <1>2, <2>4, <2>5, <2>6 DEF EachWindowOnce
<1>5. ASSUME NEW w \in Window, windows' = Raised(w),
             \A v \in Window : xdg'[v].role = xdg[v].role
      PROVE  EachWindowOnce'
  <2>. DEFINE p == Earliest(Place(w))
              n == Len(windows)
  <2>1. windows' = Raised(w)
    BY <1>5
  <2>2. w \in Window
    BY <1>5
  <2>3. CASE Place(w) = {}
    BY <1>3, <1>5, <2>3 DEF Raised
  <2>4. CASE Place(w) # {}
    <3>1. /\ Raised(w) \in Seq(Window) /\ Len(Raised(w)) = n
          /\ p \in 1..n /\ windows[p] = w /\ n >= 1 /\ Raised(w)[1] = w
          /\ \A i \in 2..n : Raised(w)[i] = windows[IF i <= p THEN i - 1 ELSE i]
      BY <1>2, <2>2, <2>4, RaisedKeepsWindows
    <3>2. Len(windows') = n /\ windows'[1] = w
      BY <2>1, <3>1
    <3>. DEFINE from(i) == IF i = 1 THEN p ELSE IF i <= p THEN i - 1 ELSE i
    <3>3. \A i \in 1..n : from(i) \in 1..n /\ windows'[i] = windows[from(i)]
      BY <1>2, <2>1, <3>1
    <3>4. \A i, j \in 1..n : from(i) = from(j) => i = j
      BY <1>2, <3>1
    <3>5. \A k \in 1..n : \E i \in 1..n : from(i) = k
      <4>1. SUFFICES ASSUME NEW k \in 1..n PROVE \E i \in 1..n : from(i) = k
        OBVIOUS
      <4>2. CASE k = p
        BY <1>2, <3>1, <4>2
      <4>3. CASE k < p
        <5>1. k + 1 \in 1..n /\ from(k + 1) = k
          BY <1>2, <3>1, <4>3
        <5>. QED
          BY <5>1
      <4>4. CASE k > p
        <5>1. from(k) = k
          BY <1>2, <3>1, <4>4
        <5>. QED
          BY <5>1
      <4>. QED
        BY <1>2, <3>1, <4>2, <4>3, <4>4
    <3>. HIDE DEF from
    <3>8. \A i, j \in 1..n : windows[i] = windows[j] => i = j
      BY <1>2 DEF EachWindowOnce
    <3>. HIDE DEF n, p
    <3>6. \A i, j \in 1..n : windows'[i] = windows'[j] => i = j
      <4>1. SUFFICES ASSUME NEW i \in 1..n, NEW j \in 1..n, windows'[i] = windows'[j]
                     PROVE  i = j
        OBVIOUS
      <4>2. from(i) = from(j)
        BY <3>3, <3>8, <4>1
      <4>. QED
        BY <3>4, <4>2
    <3>7. \A v \in Window : (\E i \in 1..n : windows'[i] = v) <=>
                              \E i \in 1..n : windows[i] = v
      BY <3>3, <3>5
    <3>9. \A v \in Window : xdg[v].role = "toplevel" <=> \E i \in 1..n : windows[i] = v
      BY <1>2 DEF EachWindowOnce, n
    <3>10. \A v \in Window : xdg'[v].role = "toplevel" <=> \E i \in 1..n : windows'[i] = v
      BY <1>5, <3>7, <3>9
    <3>. QED
      BY <3>2, <3>6, <3>10 DEF EachWindowOnce
  <2>. QED
    BY <2>3, <2>4
<1>6. ASSUME NEW w \in Window, NEW n,
             CommitBuffer(w, n) \/ SetWindowGeometry(w, n) \/ AckConfigure(w, n)
      PROVE  EachWindowOnce'
  <2>1. UNCHANGED windows
    BY <1>6 DEF CommitBuffer, SetWindowGeometry, AckConfigure
  <2>2. CASE CommitBuffer(w, n)
    <3>. DEFINE size == IF xdg[w].fresh /\ n # 0 THEN n ELSE xdg[w].size
                fresh == xdg[w].fresh /\ n = 0
                s == [xdg[w] EXCEPT !.extent = n, !.size = size, !.fresh = fresh]
    <3>1. xdg' = [xdg EXCEPT ![w] = s]
      BY <1>2, <2>2 DEF CommitBuffer
    <3>2. s.role = xdg[w].role
      <4>1. xdg[w] \in XdgSurface
        BY <1>2
      <4>. HIDE DEF size, fresh
      <4>. QED
        BY <4>1 DEF XdgSurface
    <3>. HIDE DEF s
    <3>3. \A v \in Window : xdg'[v].role = xdg[v].role
      BY <1>2, <3>1, <3>2
    <3>. QED
      BY <1>3, <2>1, <3>3
  <2>3. CASE SetWindowGeometry(w, n)
    <3>1. \A v \in Window : xdg'[v].role = xdg[v].role
      BY <1>2, <2>3 DEF SetWindowGeometry, XdgSurface
    <3>. QED
      BY <1>3, <2>1, <3>1
  <2>4. CASE AckConfigure(w, n)
    <3>1. \A v \in Window : xdg'[v].role = xdg[v].role
      BY <1>2, <2>4 DEF AckConfigure, XdgSurface
    <3>. QED
      BY <1>3, <2>1, <3>1
  <2>. QED
    BY <1>6, <2>2, <2>3, <2>4
<1>7. ASSUME NEW w \in Window, NEW d \in Drag, NEW kind, BeginDrag(w, d, kind), ~Stop
      PROVE  EachWindowOnce'
  BY <1>3, <1>7 DEF BeginDrag
<1>8. ASSUME NEW w \in Window, Leave(w) PROVE EachWindowOnce'
  BY <1>3, <1>8 DEF Leave
<1>9. CASE Requests
  BY <1>1, <1>4, <1>6, <1>7, <1>8, <1>9 DEF Requests, Move, Resize
<1>10. CASE \E signal, to : Emit(signal, to)
  BY <1>3, <1>10 DEF Emit
<1>11. CASE MoveCursor \/ FindNoFocus \/ ClickNothing
            \/ ((FindFocus \/ LoseFocus \/ KeepFocus) /\ ~Stop)
  BY <1>3, <1>11 DEF MoveCursor, FindNoFocus, ClickNothing, FindFocus, LoseFocus, KeepFocus
<1>12. ASSUME NEW d \in Drag, MoveWindow(d) \/ ResizeWindow(d)
       PROVE  EachWindowOnce'
  <2>1. UNCHANGED windows
    BY <1>12 DEF MoveWindow, ResizeWindow
  <2>2. CASE MoveWindow(d)
    BY <1>2, <1>3, <2>1, <2>2 DEF MoveWindow, XdgSurface
  <2>3. CASE ResizeWindow(d)
    BY <1>2, <1>3, <2>1, <2>3 DEF ResizeWindow, XdgSurface
  <2>. QED
    BY <1>12, <2>2, <2>3
<1>13. ASSUME NEW d \in Drag, HoldDrag(d) PROVE EachWindowOnce'
  BY <1>3, <1>13 DEF HoldDrag
<1>14. ASSUME NEW d \in Drag, EndMove(d), ~Stop PROVE EachWindowOnce'
  BY <1>3, <1>14 DEF EndMove
<1>15. ASSUME NEW d \in Drag, EndResize(d), ~Stop PROVE EachWindowOnce'
  <2>1. UNCHANGED windows
        /\ xdg' = [xdg EXCEPT ![drag[d].window].serial = Len(sent) + 1]
    BY <1>15 DEF EndResize
  <2>. QED
    BY <1>2, <1>3, <2>1 DEF XdgSurface
<1>17. CASE ClickWindow /\ ~Stop
  <2>1. windows' = Raised(pointer) /\ UNCHANGED xdg
    BY <1>17 DEF ClickWindow
  <2>2. pointer \in Window
    BY <1>17 DEF ClickWindow, Lock, ShellInv, TypeOK
  <2>. QED
    BY <1>5, <2>1, <2>2
<1>16. CASE Listener
  BY <1>1, <1>3, <1>17, <1>11, <1>12, <1>13, <1>14, <1>15, <1>16 DEF Listener, ScriptReturns
<1>18. CASE ScriptCalls
  <2>1. ASSUME NEW w \in Window, ScriptRaises(w) PROVE EachWindowOnce'
    <3>1. windows' = Raised(w) /\ UNCHANGED xdg
      BY <2>1 DEF ScriptRaises
    <3>. QED
      BY <1>5, <3>1
  <2>2. ASSUME NEW w \in Window, NEW x \in Places, ScriptPlaces(w, x) PROVE EachWindowOnce'
    <3>1. UNCHANGED windows /\ xdg' = [xdg EXCEPT ![w].position = x]
      BY <2>2 DEF ScriptPlaces
    <3>2. \A v \in Window : xdg'[v].role = xdg[v].role
      BY <1>2, <3>1 DEF XdgSurface
    <3>. QED
      BY <1>3, <3>1, <3>2
  <2>3. ASSUME NEW to \in Reach, ScriptPoints(to) PROVE EachWindowOnce'
    BY <1>3, <2>3 DEF ScriptPoints
  <2>. QED
    BY <1>18, <2>1, <2>2, <2>3 DEF ScriptCalls
<1>. QED
  BY <1>9, <1>10, <1>16, <1>18 DEF ShellNext, PointerMotion, PointerButton

\* Only activate tells a window that it is active, and tells the last one that
\* it no longer is.
LEMMA ActiveStep == ShellInv /\ ShellNext => OneActivated'
<1>. SUFFICES ASSUME ShellInv, ShellNext PROVE OneActivated'
  OBVIOUS
<1>. USE DEF input, focus
<1>1. OneActivated
  BY DEF ShellInv
<1>2. CASE Stop
  BY <1>2, StopStep DEF ShellInv
<1>3. ASSUME told' \subseteq told, UNCHANGED activated PROVE OneActivated'
  BY <1>1, <1>3 DEF OneActivated
<1>4. CASE ClickWindow /\ ~Stop
  BY <1>1, <1>4 DEF ClickWindow, Told, OneActivated
<1>5. CASE Requests
  BY <1>2, <1>3, <1>5 DEF Requests, GetToplevel, Leave, CommitBuffer, SetWindowGeometry,
                          AckConfigure, Move, Resize, BeginDrag
<1>6. CASE \E signal, to : Emit(signal, to)
  BY <1>3, <1>6 DEF Emit
<1>7. CASE Listener
  <2>1. CASE MoveCursor \/ FindFocus \/ FindNoFocus \/ LoseFocus \/ KeepFocus \/ ClickNothing
    BY <1>2, <1>3, <2>1 DEF MoveCursor, FindFocus, FindNoFocus, LoseFocus, KeepFocus,
                            ClickNothing
  <2>2. ASSUME NEW d \in Drag, MoveWindow(d) \/ ResizeWindow(d) \/ HoldDrag(d)
        PROVE  OneActivated'
    BY <1>3, <2>2 DEF MoveWindow, ResizeWindow, HoldDrag
  <2>3. ASSUME NEW d \in Drag, EndMove(d) \/ EndResize(d)
        PROVE  OneActivated'
    BY <1>2, <1>3, <2>3 DEF EndMove, EndResize
  <2>. QED
    BY <1>2, <1>3, <1>4, <1>7, <2>1, <2>2, <2>3 DEF Listener, ScriptReturns
<1>8. CASE ScriptCalls
  BY <1>3, <1>8 DEF ScriptCalls, ScriptPlaces, ScriptRaises, ScriptPoints
<1>. QED
  BY <1>5, <1>6, <1>7, <1>8 DEF ShellNext, PointerMotion, PointerButton

LEMMA Step == ShellInv /\ [ShellNext]_shellVars => ShellInv'
<1>1. ShellInv /\ ShellNext => ShellInv'
  BY TypeStep, TokenStep, ListStep, ActiveStep DEF ShellInv
<1>2. ASSUME ShellInv, UNCHANGED shellVars PROVE ShellInv'
  <2>. USE DEF shellVars, input, focus
  <2>1. TypeOK'
    BY <1>2 DEF ShellInv, TypeOK
  <2>2. EmissionInv' /\ TokensNameDrags'
    <3>1. TokensNameDrags' /\ Bounded(moves)' /\ Bounded(clicks)'
      BY <1>2, QuietTokens
    <3>. QED
      BY <1>2, <3>1 DEF ShellInv, EmissionInv, Emitted
  <2>3. EachWindowOnce' /\ OneActivated'
    BY <1>2 DEF ShellInv, EachWindowOnce, OneActivated
  <2>. QED
    BY <2>1, <2>2, <2>3 DEF ShellInv
<1>. QED
  BY <1>1, <1>2

LEMMA Invariance == ShellSpec => []ShellInv
BY InitInv, Step, PTL DEF ShellSpec

-----------------------------------------------------------------------------
(* The end of the drags.                                                   *)

\* What the hooks of scripts leave alone; emit waits for them to return.
LEMMA ScriptStep ==
  ASSUME ScriptCalls
  PROVE  /\ UNCHANGED <<moves, clicks, focus, drag, sent, live, fault>> /\ ~fault
         /\ \/ emission = Idle /\ emission' = Idle
            \/ /\ emission # Idle /\ Emitted[emission.at] = "script"
               /\ emission' = [emission EXCEPT !.scripted = TRUE]
<1>1. UNCHANGED <<moves, clicks, focus, drag, sent, live, fault>> /\ ScriptRuns /\ Scripted
  BY DEF ScriptCalls, ScriptPlaces, ScriptRaises, ScriptPoints
<1>. QED
  BY <1>1 DEF ScriptRuns, Scripted

\* The hooks change the positions of windows, and nothing else of them.
LEMMA ScriptKeepsWindows ==
  ASSUME TypeOK, ScriptCalls, NEW w \in Window
  PROVE  /\ xdg'[w].role = xdg[w].role /\ xdg'[w].extent = xdg[w].extent
         /\ xdg'[w].serial = xdg[w].serial /\ xdg'[w].pending = xdg[w].pending
<1>1. xdg \in [Window -> XdgSurface]
  BY DEF TypeOK
<1>2. ASSUME NEW v \in Window, NEW x \in Places, ScriptPlaces(v, x)
      PROVE  /\ xdg'[w].role = xdg[w].role /\ xdg'[w].extent = xdg[w].extent
             /\ xdg'[w].serial = xdg[w].serial /\ xdg'[w].pending = xdg[w].pending
  BY <1>1, <1>2 DEF ScriptPlaces, XdgSurface
<1>. QED
  BY <1>2 DEF ScriptCalls, ScriptRaises, ScriptPoints

\* While a signal is emitted, nothing runs but its listeners and their hooks.
LEMMA EmissionStep ==
  ASSUME ShellInv, ShellNext, emission # Idle
  PROVE  Listener \/ (ScriptCalls /\ emission' # Idle /\ emission'.signal = emission.signal
                                  /\ emission'.at = emission.at)
<1>1. CASE ScriptCalls
  <2>1. emission \in Emission
    BY DEF ShellInv, TypeOK
  <2>2. emission' = [emission EXCEPT !.scripted = TRUE]
    BY <1>1, ScriptStep
  <2>3. emission'.scripted = TRUE /\ emission'.signal = emission.signal
        /\ emission'.at = emission.at
    BY <2>1, <2>2 DEF Emission
  <2>4. Idle.scripted # TRUE
    BY DEF Idle
  <2>. QED
    BY <1>1, <2>3, <2>4
<1>2. CASE ~ScriptCalls
  BY <1>2 DEF ShellNext, Requests, Request, GetToplevel, Leave, CommitBuffer,
     SetWindowGeometry, AckConfigure, Move, Resize, BeginDrag, PointerMotion,
     PointerButton, Emit
<1>. QED
  BY <1>1, <1>2

\* emit passes over no listener that comes later.
LEMMA ResumeSkipsNone ==
  ASSUME TypeOK, NEW l, DOMAIN l \subseteq Nat, Resume(l),
         NEW t \in DOMAIN l, emission.at < t
  PROVE  emission'.signal = emission.signal /\ emission'.at <= t
<1>. DEFINE later == Later(l, emission.at)
<1>1. later \in SUBSET Nat /\ t \in later
  BY DEF Later
<1>2. emission' = [emission EXCEPT !.at = Earliest(later)]
  BY <1>1 DEF Resume
<1>3. Earliest(later) <= t
  <2>. HIDE DEF later
  <2>. QED
    BY <1>1, EarliestIsLeast
<1>4. emission \in Emission
  BY DEF TypeOK
<1>. QED
  BY <1>2, <1>3, <1>4 DEF Emission

\* A listener that is called at the release leaves no drag behind: those that
\* go on have a later listener, which emit comes to.
LEMMA ReleaseStep ==
  ASSUME ShellInv, DragsAreAhead, Listener, emission.signal = "release",
         NEW c \in Dragging'
  PROVE  emission'.signal = "release" /\ emission'.at <= drag'[c].onClick
<1>. USE DEF input, focus
<1>1. TypeOK /\ TokensNameDrags /\ emission.at \in Nat
  BY DEF ShellInv, TypeOK, Emission
<1>2. CASE UNCHANGED <<emission, drag>>
  BY <1>2 DEF DragsAreAhead, Dragging
<1>3. CASE (ClickNothing \/ ClickWindow \/ ScriptReturns) /\ ~Stop
  <2>1. /\ UNCHANGED <<drag, clicks>> /\ Resume(clicks)
        /\ clicks[emission.at] \in {"seat", "script"}
    BY <1>3 DEF ClickNothing, ClickWindow, ScriptReturns, SeatClick, Calls, Emitted
  <2>2. c \in Dragging /\ drag'[c] = drag[c]
    BY <2>1 DEF Dragging
  <2>3. drag[c].onClick \in DOMAIN clicks /\ clicks[drag[c].onClick] = c
    BY <1>1, <2>2 DEF TokensNameDrags
  <2>4. c \notin {"seat", "script"}
    BY <2>2, NamesDiffer DEF Dragging
  <2>5. emission.at < drag[c].onClick
    BY <1>1, <2>1, <2>2, <2>3, <2>4 DEF DragsAreAhead, TypeOK
  <2>6. DOMAIN clicks \subseteq Nat
    BY <1>1 DEF TypeOK
  <2>. QED
    BY <1>1, <2>1, <2>2, <2>3, <2>5, <2>6, ResumeSkipsNone
<1>4. ASSUME NEW d \in Drag, EndMove(d) \/ EndResize(d), ~Stop
      PROVE  emission'.signal = "release" /\ emission'.at <= drag'[c].onClick
  <2>1. Calls({"release"}, d) /\ Ends(d)
    BY <1>4 DEF EndMove, EndResize
  <2>2. /\ drag' = [drag EXCEPT ![d] = Null] /\ DOMAIN clicks' \subseteq Nat
        /\ Resume(clicks')
    BY <2>1, EndsDisconnects
  <2>3. c \in Dragging /\ c # d /\ drag'[c] = drag[c]
    BY <1>1, <2>2 DEF Dragging, TypeOK
  <2>4. clicks[emission.at] = d
    BY <2>1 DEF Calls, Emitted
  <2>5. clicks[drag[c].onClick] = c /\ drag[c].onClick \in DOMAIN clicks
    BY <1>1, <2>3 DEF TokensNameDrags
  <2>6. emission.at < drag[c].onClick
    BY <1>1, <2>3, <2>4, <2>5 DEF DragsAreAhead, TypeOK
  <2>7. drag'[c].onClick \in DOMAIN clicks'
    BY <2>1, EndedInv DEF TokensNameDrags
  <2>. QED
    BY <1>1, <2>2, <2>3, <2>6, <2>7, ResumeSkipsNone
<1>. QED
  BY <1>2, <1>3, <1>4 DEF Listener, Stop, MoveCursor, FindFocus, FindNoFocus, LoseFocus,
     KeepFocus, SeatMove, MoveWindow, ResizeWindow, HoldDrag, Calls

LEMMA AheadStep == ShellInv /\ DragsAreAhead /\ [ShellNext]_shellVars => DragsAreAhead'
<1>. SUFFICES ASSUME ShellInv, DragsAreAhead, [ShellNext]_shellVars PROVE DragsAreAhead'
  OBVIOUS
<1>. USE DEF input, focus
<1>1. CASE UNCHANGED <<emission, drag>>
  BY <1>1 DEF DragsAreAhead, Dragging
<1>2. CASE emission' = Idle
  BY <1>2 DEF DragsAreAhead, Idle
<1>3. CASE Requests
  BY <1>1, <1>2, <1>3 DEF Requests, Request, GetToplevel, Leave, CommitBuffer, SetWindowGeometry,
                          AckConfigure, Move, Resize, BeginDrag, Stop
<1>4. ASSUME NEW signal, NEW to, Emit(signal, to) PROVE DragsAreAhead'
  <2>1. CASE signal = "release"
    <3>1. UNCHANGED drag /\ emission'.at = Earliest(DOMAIN clicks)
      BY <1>4, <2>1 DEF Emit
    <3>2. DOMAIN clicks \in SUBSET Nat /\ TokensNameDrags
      BY DEF ShellInv, TypeOK
    <3>3. \A t \in DOMAIN clicks : Earliest(DOMAIN clicks) <= t
      BY <3>2, EarliestIsLeast
    <3>. QED
      BY <3>1, <3>2, <3>3 DEF DragsAreAhead, Dragging, TokensNameDrags
  <2>2. CASE signal # "release"
    BY <1>4, <2>2 DEF Emit, DragsAreAhead
  <2>. QED
    BY <2>1, <2>2
<1>5. CASE Listener
  <2>1. CASE emission.signal = "release"
    BY <1>5, <2>1, ReleaseStep DEF DragsAreAhead
  <2>2. CASE emission.signal # "release"
    <3>1. CASE emission' = emission
      BY <2>2, <3>1 DEF DragsAreAhead
    <3>2. CASE Resume(moves) \/ Resume(clicks) \/ Resume(Emitted)
      <4>1. DOMAIN moves \subseteq Nat /\ DOMAIN clicks \subseteq Nat /\ TypeOK
        BY DEF ShellInv, TypeOK
      <4>2. emission'.signal # "none" => emission'.signal = emission.signal
        BY <3>2, <4>1, ResumeGoesOn DEF Emitted
      <4>. QED
        BY <2>2, <4>2 DEF DragsAreAhead
    <3>. QED
      BY <1>5, <2>2, <3>1, <3>2 DEF Listener, MoveCursor, FindFocus, FindNoFocus, LoseFocus,
         KeepFocus, ClickNothing, ClickWindow, ScriptReturns, MoveWindow, ResizeWindow,
         HoldDrag, EndMove, EndResize, Calls, Stop
  <2>. QED
    BY <2>1, <2>2
<1>6. CASE ScriptCalls
  <2>1. drag' = drag /\ (emission' = emission \/ emission' = [emission EXCEPT !.scripted = TRUE])
    BY <1>6, ScriptStep
  <2>2. emission \in Emission
    BY DEF ShellInv, TypeOK
  <2>3. emission'.signal = emission.signal /\ emission'.at = emission.at
    BY <2>1, <2>2 DEF Emission
  <2>. QED
    BY <2>1, <2>3 DEF DragsAreAhead, Dragging
<1>. QED
  BY <1>1, <1>3, <1>4, <1>5, <1>6 DEF ShellNext, PointerMotion, PointerButton, shellVars

-----------------------------------------------------------------------------
(* What a move keeps.                                                      *)

Sole(d) == \A c \in Dragging \ {d} : drag[c].window # drag[d].window

\* A window at x is as far from the cursor at c as when d began, to within a pixel.
Near(d, x, c) ==
  (x - c) - (Grain * drag[d].position - drag[d].start) \in (1 - Grain)..(Grain - 1)

Keeps(d) == Near(d, xdg[drag[d].window].position, cursor)

\* While a motion is emitted, the windows whose listener was called are where
\* the cursor is.
Follows ==
  emission.signal = "move" =>
    \A d \in Dragging \ Resizing :
      drag[d].onMove < emission.at /\ Sole(d) => Keeps(d)

LEMMA DragTyped ==
  ASSUME TypeOK, NEW d \in Dragging
  PROVE  /\ d \in Drag /\ drag[d] \in DragData
         /\ drag[d].window \in Window /\ drag[d].position \in Int
         /\ drag[d].size \in Int /\ drag[d].start \in Reach
         /\ drag[d].onMove \in Nat /\ drag[d].onClick \in Nat
<1>1. d \in Drag /\ drag[d] \in DragData
  BY DEF TypeOK, Dragging
<1>. QED
  BY <1>1 DEF DragData

\* Where the listener of a drag puts its window.
LEMMA MovedIsNear ==
  ASSUME TypeOK, NEW d \in Dragging
  PROVE  Near(d, Grain * (drag[d].position + Whole(cursor - drag[d].start)), cursor)
<1>. DEFINE dx == cursor - drag[d].start
            n == Whole(dx)
            p == drag[d].position
<1>1. p \in Int /\ drag[d].start \in Int /\ cursor \in Int /\ dx \in Int
  BY DragTyped, PlacesAreInt DEF TypeOK
<1>2. n \in Int /\ Grain * n \in Int /\ dx - Grain * n \in (1 - Grain)..(Grain - 1)
  BY <1>1, WholeIsNear
<1>3. Grain \in Int
  BY BoundsAreNat
<1>4. cursor = dx + drag[d].start
  BY <1>1
<1>. HIDE DEF n, dx, p
<1>5. Grain * p \in Int /\ Grain * (p + n) = Grain * p + Grain * n
  BY <1>1, <1>2, <1>3
<1>6. (Grain * (p + n) - cursor) - (Grain * p - drag[d].start) = Grain * n - dx
  BY <1>1, <1>2, <1>4, <1>5
<1>7. Grain * n - dx \in (1 - Grain)..(Grain - 1)
  BY <1>1, <1>2, <1>3
<1>. QED
  BY <1>6, <1>7 DEF Near, n, dx, p

\* The listeners of the cursor, the seat and the scripts come before the drags.
LEMMA MoveListener ==
  ASSUME ShellInv, emission.signal = "move", NEW d \in Dragging
  PROVE  /\ drag[d].onMove \in DOMAIN moves /\ moves[drag[d].onMove] = d
         /\ emission.at \in DOMAIN moves
         /\ moves[emission.at] \in {"cursor", "seat", "script"} => emission.at < drag[d].onMove
<1>1. /\ drag[d].onMove \in DOMAIN moves /\ moves[drag[d].onMove] = d
      /\ d \notin {"cursor", "seat", "script"} /\ emission.at \in DOMAIN moves
  BY NamesDiffer DEF ShellInv, TokensNameDrags, EmissionInv, Emitted, Dragging
<1>2. ASSUME moves[emission.at] \in {"cursor", "seat", "script"}
      PROVE  emission.at < drag[d].onMove
  <2>1. drag[d].onMove \notin {0, 1, 2} /\ drag[d].onMove \in Nat
    BY <1>1, DragTyped DEF ShellInv, TokensNameDrags
  <2>2. ASSUME NEW c \in Dragging PROVE emission.at # drag[c].onMove
    BY <1>2, NamesDiffer DEF ShellInv, TokensNameDrags, Dragging
  <2>3. emission.at \in {0, 1, 2}
    BY <1>1, <2>2 DEF ShellInv, TokensNameDrags
  <2>. QED
    BY <2>1, <2>3
<1>. QED
  BY <1>1, <1>2

\* The listener that is called leaves every window that it or one before it
\* moved where the cursor is.
LEMMA CalledKeeps ==
  ASSUME ShellInv, Follows, Listener, ~Stop, emission.signal = "move",
         NEW d \in Dragging \ Resizing, drag[d].onMove <= emission.at, Sole(d)
  PROVE  /\ drag' = drag /\ moves' = moves
         /\ Near(d, xdg'[drag[d].window].position, cursor')
<1>. USE DEF input, focus
<1>1. /\ TypeOK /\ emission.at \in Nat /\ drag[d].onMove \in Nat
      /\ drag[d].window \in Window /\ drag[d].position \in Int /\ drag[d].start \in Int
      /\ cursor \in Int /\ d \in Drag
  BY DragTyped, PlacesAreInt DEF ShellInv, TypeOK, Emission
<1>2. /\ moves[drag[d].onMove] = d
      /\ moves[emission.at] \notin {"cursor", "seat", "script"}
  BY <1>1, MoveListener
<1>3. ASSUME moves[emission.at] # d
      PROVE  Keeps(d)
  <2>1. drag[d].onMove < emission.at
    BY <1>1, <1>2, <1>3
  <2>. QED
    BY <2>1 DEF Follows
<1>4. ~(MoveCursor \/ SeatMove \/ ScriptReturns)
  BY <1>2 DEF MoveCursor, SeatMove, ScriptReturns, Calls, Emitted
<1>6. ASSUME NEW c \in Drag, MoveWindow(c)
      PROVE  /\ drag' = drag /\ moves' = moves
             /\ Near(d, xdg'[drag[d].window].position, cursor')
  <2>1. /\ drag' = drag /\ moves' = moves /\ cursor' = cursor
        /\ moves[emission.at] = c
        /\ xdg' = [xdg EXCEPT ![drag[c].window].position =
                     Grain * (drag[c].position + Whole(cursor - drag[c].start))]
    BY <1>6 DEF MoveWindow, Calls, Emitted
  <2>2. xdg \in [Window -> XdgSurface]
    BY <1>1 DEF TypeOK
  <2>3. CASE c = d
    <3>1. xdg'[drag[d].window].position =
            Grain * (drag[d].position + Whole(cursor - drag[d].start))
      BY <1>1, <2>1, <2>2, <2>3 DEF XdgSurface
    <3>. QED
      BY <1>1, <2>1, <3>1, MovedIsNear
  <2>4. CASE c # d
    <3>1. c \in Dragging
      BY <1>6, CalledDragIsOn DEF MoveWindow
    <3>2. drag[c].window # drag[d].window
      BY <2>4, <3>1 DEF Sole
    <3>3. xdg'[drag[d].window] = xdg[drag[d].window]
      BY <1>1, <2>1, <2>2, <3>2
    <3>. QED
      BY <1>3, <2>1, <2>4, <3>3 DEF Keeps
  <2>. QED
    BY <2>3, <2>4
<1>7. ASSUME NEW c \in Drag, ResizeWindow(c)
      PROVE  /\ drag' = drag /\ moves' = moves
             /\ Near(d, xdg'[drag[d].window].position, cursor')
  <2>1. /\ drag' = drag /\ moves' = moves /\ cursor' = cursor
        /\ moves[emission.at] = c /\ c \in Resizing
        /\ \/ xdg' = xdg
           \/ xdg' = [xdg EXCEPT ![drag[c].window].position = NewPosition(c),
                                 ![drag[c].window].pending = NewSize(c)]
    BY <1>7 DEF ResizeWindow, Calls, Emitted
  <2>2. xdg \in [Window -> XdgSurface]
    BY <1>1 DEF TypeOK
  <2>3. c # d /\ c \in Dragging
    BY <2>1 DEF Resizing
  <2>4. drag[c].window # drag[d].window
    BY <2>3 DEF Sole
  <2>5. xdg'[drag[d].window] = xdg[drag[d].window]
    BY <1>1, <2>1, <2>2, <2>4
  <2>. QED
    BY <1>3, <2>1, <2>3, <2>5 DEF Keeps
<1>. QED
  BY <1>4, <1>6, <1>7 DEF Listener, FindFocus, FindNoFocus, LoseFocus, KeepFocus, ClickNothing,
     ClickWindow, SeatClick, HoldDrag, EndMove, EndResize, Calls

\* The listeners of a motion: one that goes on to the next, or stays.
LEMMA MotionStep ==
  ASSUME ShellInv, Listener, emission.signal = "move"
  PROVE  \/ Resume(moves) /\ ~Stop
         \/ UNCHANGED <<emission, xdg, cursor, drag>>
BY DEF Listener, MoveCursor, FindFocus, FindNoFocus, LoseFocus, KeepFocus, ClickNothing,
   ClickWindow, ScriptReturns, Emitted, SeatMove, SeatClick, MoveWindow, ResizeWindow, HoldDrag, EndMove, EndResize,
   Calls, Stop, input, focus

LEMMA FollowsStep == ShellInv /\ Follows /\ [ShellNext]_shellVars => Follows'
<1>. SUFFICES ASSUME ShellInv, Follows, [ShellNext]_shellVars PROVE Follows'
  OBVIOUS
<1>. USE DEF input, focus
<1>0. TypeOK /\ DOMAIN moves \in SUBSET Nat /\ emission.at \in Nat
  BY DEF ShellInv, TypeOK, Emission
<1>1. CASE UNCHANGED <<emission, xdg, cursor, drag>>
  BY <1>1 DEF Follows, Dragging, Resizing, Sole, Keeps, Near
<1>2. CASE emission'.signal # "move"
  BY <1>2 DEF Follows
<1>3. CASE Requests
  <2>1. (emission = Idle /\ emission' = Idle) \/ Stop
    BY <1>3 DEF Requests, Request, GetToplevel, Leave, CommitBuffer, SetWindowGeometry,
                AckConfigure, Move, Resize, BeginDrag
  <2>. QED
    BY <1>1, <1>2, <2>1 DEF Idle, Stop
<1>4. ASSUME NEW signal, NEW to, Emit(signal, to) PROVE Follows'
  <2>1. CASE signal = "move"
    <3>1. UNCHANGED drag /\ emission'.at = Earliest(DOMAIN moves)
      BY <1>4, <2>1 DEF Emit
    <3>2. \A t \in DOMAIN moves : Earliest(DOMAIN moves) <= t
      BY <1>0, EarliestIsLeast
    <3>3. \A d \in Dragging : drag[d].onMove \in DOMAIN moves /\ drag[d].onMove \in Nat
      BY <1>0, DragTyped DEF ShellInv, TokensNameDrags
    <3>4. Earliest(DOMAIN moves) \in Nat
      BY <1>0, EarliestIsLeast DEF ShellInv, TokensNameDrags
    <3>5. \A d \in Dragging : ~(drag[d].onMove < emission'.at)
      BY <3>1, <3>2, <3>3, <3>4
    <3>. QED
      BY <3>1, <3>5 DEF Follows, Dragging
  <2>2. CASE signal # "move"
    BY <1>4, <2>2 DEF Emit, Follows
  <2>. QED
    BY <2>1, <2>2
<1>5. CASE Listener
  <2>1. CASE emission.signal = "move" /\ Resume(moves) /\ ~Stop
    <3>1. SUFFICES ASSUME emission'.signal = "move",
                          NEW d \in Dragging' \ Resizing', drag'[d].onMove < emission'.at, Sole(d)'
                   PROVE  Keeps(d)'
      BY DEF Follows
    <3>2. drag' = drag
      BY <1>5, <2>1 DEF Listener, MoveCursor, FindFocus, FindNoFocus, LoseFocus, KeepFocus,
         ClickNothing, ClickWindow, ScriptReturns, MoveWindow, ResizeWindow, HoldDrag, EndMove, EndResize,
         SeatClick, Calls, Stop
    <3>3. d \in Dragging \ Resizing /\ Sole(d)
      BY <3>1, <3>2 DEF Dragging, Resizing, Sole
    <3>4. drag[d].onMove \in Nat /\ drag[d].onMove \in DOMAIN moves
      BY <1>0, <3>3, DragTyped DEF ShellInv, TokensNameDrags
    <3>5. emission'.at \in Nat
      BY <1>0, <2>1, ResumeGoesOn DEF Emission
    <3>6. drag[d].onMove <= emission.at
      <4>1. SUFFICES ASSUME emission.at < drag[d].onMove PROVE FALSE
        BY <1>0, <3>4
      <4>2. emission'.at <= drag[d].onMove
        BY <1>0, <2>1, <3>4, <4>1, ResumeSkipsNone
      <4>. QED
        BY <3>1, <3>2, <3>4, <3>5, <4>2
    <3>7. Near(d, xdg'[drag[d].window].position, cursor')
      BY <1>5, <2>1, <3>3, <3>6, CalledKeeps
    <3>. QED
      BY <3>2, <3>7 DEF Keeps, Near
  <2>2. CASE emission.signal # "move"
    <3>1. CASE emission' = emission
      BY <1>2, <2>2, <3>1
    <3>2. CASE Resume(moves) \/ Resume(clicks) \/ Resume(clicks') \/ Resume(Emitted)
      <4>1. emission' = Idle \/ emission'.signal = emission.signal
        BY <1>0, <3>2 DEF Resume, TypeOK, Emission
      <4>. QED
        BY <1>2, <2>2, <4>1 DEF Idle
    <3>. QED
      BY <1>5, <3>1, <3>2 DEF Listener, MoveCursor, FindFocus, FindNoFocus, LoseFocus,
         KeepFocus, ClickNothing, ClickWindow, ScriptReturns, MoveWindow, ResizeWindow, HoldDrag, EndMove,
         EndResize, Ends, Calls, Stop
  <2>. QED
    BY <1>1, <1>5, <2>1, <2>2, MotionStep
<1>6. CASE ScriptCalls
  <2>1. CASE emission.signal # "move" \/ emission = Idle
    <3>1. emission'.signal = emission.signal \/ emission' = Idle
      BY <1>0, <1>6, ScriptStep DEF TypeOK, Emission
    <3>. QED
      BY <1>2, <2>1, <3>1 DEF Idle
  <2>2. CASE emission.signal = "move" /\ emission # Idle
    <3>1. /\ UNCHANGED <<moves, drag>> /\ moves[emission.at] = "script"
          /\ emission' = [emission EXCEPT !.scripted = TRUE]
      BY <1>6, <2>2, ScriptStep DEF Emitted
    <3>2. emission'.at = emission.at
      BY <1>0, <3>1 DEF TypeOK, Emission
    <3>3. ASSUME NEW d \in Dragging PROVE ~(drag[d].onMove < emission.at)
      <4>1. emission.at < drag[d].onMove /\ drag[d].onMove \in Nat
        BY <1>0, <2>2, <3>1, MoveListener, DragTyped
      <4>. QED
        BY <1>0, <4>1
    <3>. QED
      BY <3>1, <3>2, <3>3 DEF Follows, Dragging
  <2>. QED
    BY <2>1, <2>2
<1>. QED
  BY <1>1, <1>3, <1>4, <1>5, <1>6 DEF ShellNext, PointerMotion, PointerButton, shellVars

-----------------------------------------------------------------------------
(* Windows and their clients.                                              *)

\* What has no role has no buffer.
Roleless == \A w \in Window : xdg[w].role = "none" => xdg[w].extent = 0

\* Only get_toplevel gives a role, and only a toplevel is given a buffer.
LEMMA RoleStep ==
  ASSUME TypeOK, [ShellNext]_shellVars, NEW w \in Window
  PROVE  /\ xdg[w].role = "toplevel" => xdg'[w].role = "toplevel"
         /\ xdg[w].role = "none" => xdg'[w].extent = xdg[w].extent
         /\ xdg'[w].role = xdg[w].role \/ GetToplevel(w)
<1>. USE DEF input, focus
<1>1. xdg \in [Window -> XdgSurface] /\ xdg[w] \in XdgSurface
  BY DEF TypeOK
<1>2. CASE xdg' = xdg
  BY <1>2
<1>3. ASSUME NEW v \in Window, GetToplevel(v)
      PROVE  /\ xdg[w].role = "toplevel" => xdg'[w].role = "toplevel"
             /\ xdg[w].role = "none" => xdg'[w].extent = xdg[w].extent
             /\ xdg'[w].role = xdg[w].role \/ GetToplevel(w)
  <2>1. xdg' = [xdg EXCEPT ![v].role = "toplevel", ![v].fresh = TRUE]
    BY <1>3 DEF GetToplevel
  <2>2. CASE v = w
    BY <1>1, <1>3, <2>1, <2>2 DEF XdgSurface
  <2>3. CASE v # w
    BY <1>1, <2>1, <2>3
  <2>. QED
    BY <2>2, <2>3
<1>4. ASSUME NEW v \in Window, NEW e \in Extent \cup {0}, CommitBuffer(v, e)
      PROVE  xdg'[w].role = xdg[w].role /\ (xdg[w].role = "none" => xdg'[w].extent = xdg[w].extent)
  <2>1. /\ xdg[v].role = "toplevel"
        /\ xdg' = [xdg EXCEPT ![v].extent = e,
                              ![v].size = IF xdg[v].fresh /\ e # 0 THEN e ELSE @,
                              ![v].fresh = @ /\ e = 0]
    BY <1>4 DEF CommitBuffer
  <2>2. CASE v = w
    BY <1>1, <2>1, <2>2 DEF XdgSurface
  <2>3. CASE v # w
    BY <1>1, <2>1, <2>3
  <2>. QED
    BY <2>2, <2>3
<1>5. ASSUME NEW v \in Window, NEW e, SetWindowGeometry(v, e)
      PROVE  xdg'[w].role = xdg[w].role /\ xdg'[w].extent = xdg[w].extent
  BY <1>1, <1>5 DEF SetWindowGeometry, XdgSurface
<1>6. ASSUME NEW v \in Window, NEW n, AckConfigure(v, n)
      PROVE  xdg'[w].role = xdg[w].role /\ xdg'[w].extent = xdg[w].extent
  BY <1>1, <1>6 DEF AckConfigure, XdgSurface
<1>7. ASSUME NEW d \in Drag, MoveWindow(d) \/ ResizeWindow(d) \/ EndResize(d)
      PROVE  xdg'[w].role = xdg[w].role /\ xdg'[w].extent = xdg[w].extent
  <2>1. CASE MoveWindow(d)
    <3>1. xdg' = [xdg EXCEPT ![drag[d].window].position =
                   Grain * (drag[d].position + Whole(cursor - drag[d].start))]
      BY <2>1 DEF MoveWindow
    <3>. QED
      BY <1>1, <3>1 DEF XdgSurface
  <2>2. CASE ResizeWindow(d)
    <3>1. \/ xdg' = xdg
          \/ xdg' = [xdg EXCEPT ![drag[d].window].position = NewPosition(d),
                                ![drag[d].window].pending = NewSize(d)]
      BY <2>2 DEF ResizeWindow
    <3>2. CASE drag[d].window = w
      BY <1>1, <3>1, <3>2 DEF XdgSurface
    <3>3. CASE drag[d].window # w
      BY <1>1, <3>1, <3>3
    <3>. QED
      BY <3>2, <3>3
  <2>3. CASE EndResize(d)
    <3>1. xdg' = xdg \/ xdg' = [xdg EXCEPT ![drag[d].window].serial = Len(sent) + 1]
      BY <2>3 DEF EndResize, Stop
    <3>. QED
      BY <1>1, <3>1 DEF XdgSurface
  <2>. QED
    BY <1>7, <2>1, <2>2, <2>3
<1>8. CASE ScriptCalls
  BY <1>8, ScriptKeepsWindows
<1>. QED
  BY <1>2, <1>3, <1>4, <1>5, <1>6, <1>7, <1>8 DEF ShellNext, Requests, Listener, Leave, Move, Resize, BeginDrag,
     MoveCursor, FindFocus, FindNoFocus, LoseFocus, KeepFocus, ClickNothing, ClickWindow, ScriptReturns,
     HoldDrag, EndMove, PointerMotion, PointerButton, Emit, Stop, shellVars

LEMMA RolelessStep == ShellInv /\ Roleless /\ [ShellNext]_shellVars => Roleless'
<1>. SUFFICES ASSUME ShellInv, Roleless, [ShellNext]_shellVars, NEW w \in Window, xdg'[w].role = "none"
              PROVE  xdg'[w].extent = 0
  BY DEF Roleless
<1>1. xdg[w] \in XdgSurface
  BY DEF ShellInv, TypeOK
<1>2. xdg[w].role = "none"
  BY <1>1, RoleStep DEF ShellInv, XdgSurface
<1>. QED
  BY <1>2, RoleStep DEF ShellInv, Roleless

\* An acknowledgement that waits for its client is of the size that was sent,
\* unless the next resize of the window has begun.
Answerable ==
  \A w \in Window :
    /\ xdg[w].serial \in 0 .. Len(sent)
    /\ xdg[w].serial # 0 /\ (\A d \in Resizing : drag[d].window # w) =>
         sent[xdg[w].serial].size = xdg[w].pending

\* Whatever leaves the serials, the pending sizes and the resizes alone.
LEMMA AnswerableStays ==
  ASSUME Answerable, sent' = sent, Resizing \subseteq Resizing',
         \A d \in Resizing : drag'[d].window = drag[d].window,
         \A w \in Window : /\ xdg'[w].serial \in {0, xdg[w].serial}
                           /\ xdg'[w].serial # 0 => xdg'[w].pending = xdg[w].pending
  PROVE  Answerable'
<1>. SUFFICES ASSUME NEW w \in Window
              PROVE  /\ xdg'[w].serial \in 0 .. Len(sent)
                     /\ xdg'[w].serial # 0 /\ (\A d \in Resizing' : drag'[d].window # w) =>
                          sent[xdg'[w].serial].size = xdg'[w].pending
  BY DEF Answerable
<1>1. xdg[w].serial \in 0 .. Len(sent)
  BY DEF Answerable
<1>2. xdg'[w].serial \in 0 .. Len(sent)
  BY <1>1
<1>3. ASSUME xdg'[w].serial # 0, \A d \in Resizing' : drag'[d].window # w
      PROVE  sent[xdg'[w].serial].size = xdg'[w].pending
  <2>1. \A d \in Resizing : drag[d].window # w
    BY <1>3
  <2>2. xdg'[w].serial = xdg[w].serial /\ xdg'[w].pending = xdg[w].pending
    BY <1>3
  <2>. QED
    BY <1>3, <2>1, <2>2 DEF Answerable
<1>. QED
  BY <1>2, <1>3

LEMMA AnswerableStep == ShellInv /\ Answerable /\ [ShellNext]_shellVars => Answerable'
<1>. SUFFICES ASSUME ShellInv, Answerable, [ShellNext]_shellVars PROVE Answerable'
  OBVIOUS
<1>. USE DEF input, focus
<1>1. TypeOK /\ xdg \in [Window -> XdgSurface] /\ drag \in [Drag -> DragData \cup {Null}]
  BY DEF ShellInv, TypeOK
<1>2. CASE UNCHANGED <<xdg, drag, sent>>
  BY <1>2, AnswerableStays DEF Resizing, Dragging
<1>3. ASSUME UNCHANGED <<drag, sent>>,
             \A w \in Window : /\ xdg'[w].serial \in {0, xdg[w].serial}
                               /\ xdg'[w].serial # 0 => xdg'[w].pending = xdg[w].pending
      PROVE  Answerable'
  <2>1. Resizing' = Resizing
    BY <1>3 DEF Resizing, Dragging
  <2>. QED
    BY <1>3, <2>1, AnswerableStays
<1>4. ASSUME NEW w \in Window, GetToplevel(w) PROVE Answerable'
  <2>1. xdg' = [xdg EXCEPT ![w].role = "toplevel", ![w].fresh = TRUE] /\ UNCHANGED <<drag, sent>>
    BY <1>4 DEF GetToplevel
  <2>2. ASSUME NEW v \in Window
        PROVE  xdg'[v].serial = xdg[v].serial /\ xdg'[v].pending = xdg[v].pending
    <3>1. CASE v = w
      BY <1>1, <2>1, <3>1 DEF XdgSurface
    <3>2. CASE v # w
      BY <1>1, <2>1, <3>2
    <3>. QED
      BY <3>1, <3>2
  <2>. QED
    BY <1>3, <2>1, <2>2
<1>5. ASSUME NEW w \in Window, NEW e, CommitBuffer(w, e) PROVE Answerable'
  <2>1. /\ xdg' = [xdg EXCEPT ![w].extent = e,
                              ![w].size = IF xdg[w].fresh /\ e # 0 THEN e ELSE @,
                              ![w].fresh = @ /\ e = 0]
        /\ UNCHANGED <<drag, sent>>
    BY <1>5 DEF CommitBuffer
  <2>2. ASSUME NEW v \in Window
        PROVE  xdg'[v].serial = xdg[v].serial /\ xdg'[v].pending = xdg[v].pending
    <3>1. CASE v = w
      BY <1>1, <2>1, <3>1 DEF XdgSurface
    <3>2. CASE v # w
      BY <1>1, <2>1, <3>2
    <3>. QED
      BY <3>1, <3>2
  <2>. QED
    BY <1>3, <2>1, <2>2
<1>6. ASSUME NEW w \in Window, NEW e, SetWindowGeometry(w, e) PROVE Answerable'
  <2>1. xdg' = [xdg EXCEPT ![w].size = e] /\ UNCHANGED <<drag, sent>>
    BY <1>6 DEF SetWindowGeometry
  <2>2. \A v \in Window : xdg'[v].serial = xdg[v].serial /\ xdg'[v].pending = xdg[v].pending
    BY <1>1, <2>1 DEF XdgSurface
  <2>. QED
    BY <1>3, <2>1, <2>2
<1>7. ASSUME NEW w \in Window, NEW n, AckConfigure(w, n) PROVE Answerable'
  <2>1. xdg' = [xdg EXCEPT ![w].size = xdg[w].pending, ![w].serial = 0] /\ UNCHANGED <<drag, sent>>
    BY <1>7 DEF AckConfigure
  <2>2. ASSUME NEW v \in Window
        PROVE  xdg'[v].serial \in {0, xdg[v].serial} /\ xdg'[v].pending = xdg[v].pending
    <3>1. CASE v = w
      BY <1>1, <2>1, <3>1 DEF XdgSurface
    <3>2. CASE v # w
      BY <1>1, <2>1, <3>2
    <3>. QED
      BY <3>1, <3>2
  <2>. QED
    BY <1>3, <2>1, <2>2
<1>8. ASSUME NEW w \in Window, NEW d \in Drag, NEW kind, BeginDrag(w, d, kind) PROVE Answerable'
  <2>1. CASE ~Stop
    <3>1. /\ drag[d] = Null /\ UNCHANGED <<xdg, sent>>
          /\ \A c \in Drag \ {d} : drag'[c] = drag[c]
      BY <1>1, <1>8, <2>1 DEF BeginDrag
    <3>2. \A c \in Resizing : c \in Drag \ {d}
      BY <3>1 DEF Resizing, Dragging
    <3>3. Resizing \subseteq Resizing' /\ \A c \in Resizing : drag'[c].window = drag[c].window
      BY <3>1, <3>2 DEF Resizing, Dragging
    <3>. QED
      BY <3>1, <3>3, AnswerableStays
  <2>. QED
    BY <1>2, <2>1 DEF Stop
<1>9. ASSUME NEW d \in Drag, MoveWindow(d) PROVE Answerable'
  <2>1. xdg' = [xdg EXCEPT ![drag[d].window].position =
                 Grain * (drag[d].position + Whole(cursor - drag[d].start))]
        /\ UNCHANGED <<drag, sent>>
    BY <1>9 DEF MoveWindow
  <2>2. \A v \in Window : xdg'[v].serial = xdg[v].serial /\ xdg'[v].pending = xdg[v].pending
    BY <1>1, <2>1 DEF XdgSurface
  <2>. QED
    BY <1>3, <2>1, <2>2
<1>10. ASSUME NEW d \in Drag, ResizeWindow(d) PROVE Answerable'
  <2>1. /\ d \in Resizing /\ UNCHANGED <<drag, sent>>
        /\ \/ xdg' = xdg
           \/ xdg' = [xdg EXCEPT ![drag[d].window].position = NewPosition(d),
                                 ![drag[d].window].pending = NewSize(d)]
    BY <1>10 DEF ResizeWindow
  <2>2. \A v \in Window \ {drag[d].window} : xdg'[v] = xdg[v]
    BY <1>1, <2>1
  <2>3. \A v \in Window : xdg'[v].serial = xdg[v].serial
    <3>1. ASSUME NEW v \in Window, v = drag[d].window PROVE xdg'[v].serial = xdg[v].serial
      BY <1>1, <2>1, <3>1 DEF XdgSurface
    <3>. QED
      BY <2>2, <3>1
  <2>4. Resizing' = Resizing
    BY <2>1 DEF Resizing, Dragging
  <2>. QED
    BY <2>1, <2>2, <2>3, <2>4 DEF Answerable
<1>11. ASSUME NEW d \in Drag, EndMove(d) PROVE Answerable'
  <2>1. CASE ~Stop
    <3>1. d \notin Resizing /\ UNCHANGED <<xdg, sent>> /\ drag' = [drag EXCEPT ![d] = Null]
      BY <1>11, <2>1 DEF EndMove, Ends
    <3>2. \A c \in Resizing : c \in Drag /\ c # d /\ drag'[c] = drag[c]
      BY <1>1, <3>1 DEF Resizing, Dragging
    <3>3. Resizing \subseteq Resizing' /\ \A c \in Resizing : drag'[c].window = drag[c].window
      BY <3>1, <3>2 DEF Resizing, Dragging
    <3>. QED
      BY <3>1, <3>3, AnswerableStays
  <2>. QED
    BY <1>2, <2>1 DEF Stop
<1>12. ASSUME NEW d \in Drag, EndResize(d) PROVE Answerable'
  <2>1. CASE ~Stop
    <3> DEFINE w == drag[d].window
    <3> DEFINE event == [window |-> w, size |-> xdg[w].pending]
    <3>1. /\ sent' = Append(sent, event)
          /\ xdg' = [xdg EXCEPT ![w].serial = Len(sent) + 1]
          /\ drag' = [drag EXCEPT ![d] = Null]
      BY <1>12, <2>1 DEF EndResize, Ends
    <3>2. /\ d \in Resizing /\ d \in Dragging
      BY <1>12 DEF EndResize, Resizing
    <3>3. w \in Window
      BY <1>1, <3>2, DragTyped
    <3>4. sent \in Seq([window : Window, size : Int]) /\ Len(sent) \in Nat
          /\ event \in [window : Window, size : Int] /\ event.size = xdg[w].pending
      BY <1>1, <3>3 DEF TypeOK, XdgSurface
    <3>. HIDE DEF event
    <3>5. /\ Len(sent') = Len(sent) + 1 /\ sent'[Len(sent) + 1] = event
          /\ \A i \in 1 .. Len(sent) : sent'[i] = sent[i]
      BY <3>1, <3>4
    <3>6. ASSUME NEW v \in Window, v = w
          PROVE  xdg'[v].serial = Len(sent) + 1 /\ xdg'[v].pending = xdg[w].pending
      BY <1>1, <3>1, <3>6 DEF XdgSurface
    <3>7. ASSUME NEW v \in Window, v # w PROVE xdg'[v] = xdg[v]
      BY <1>1, <3>1, <3>7
    <3>8. ASSUME NEW v \in Window, v # w, \A c \in Resizing' : drag'[c].window # v
          PROVE  \A c \in Resizing : drag[c].window # v
      <4>1. \A c \in Resizing \ {d} : c \in Resizing' /\ drag'[c] = drag[c]
        BY <1>1, <3>1 DEF Resizing, Dragging
      <4>. QED
        BY <3>8, <4>1
    <3>. HIDE DEF w
    <3>9. ASSUME NEW v \in Window
          PROVE  /\ xdg'[v].serial \in 0 .. Len(sent')
                 /\ xdg'[v].serial # 0 /\ (\A c \in Resizing' : drag'[c].window # v) =>
                      sent'[xdg'[v].serial].size = xdg'[v].pending
      <4>1. CASE v = w
        BY <3>4, <3>5, <3>6, <4>1
      <4>2. CASE v # w
        <5>1. xdg[v].serial \in 0 .. Len(sent)
          BY DEF Answerable
        <5>2. xdg'[v].serial \in 0 .. Len(sent')
          BY <3>4, <3>5, <3>7, <4>2, <5>1
        <5>3. ASSUME xdg'[v].serial # 0, \A c \in Resizing' : drag'[c].window # v
              PROVE  sent'[xdg'[v].serial].size = xdg'[v].pending
          <6>1. \A c \in Resizing : drag[c].window # v
            BY <3>8, <4>2, <5>3
          <6>2. xdg[v].serial # 0 /\ xdg[v].serial \in 1 .. Len(sent)
            BY <3>4, <3>7, <4>2, <5>1, <5>3
          <6>3. sent[xdg[v].serial].size = xdg[v].pending
            BY <6>1, <6>2 DEF Answerable
          <6>. QED
            BY <3>5, <3>7, <4>2, <6>2, <6>3
        <5>. QED
          BY <5>2, <5>3
      <4>. QED
        BY <4>1, <4>2
    <3>. QED
      BY <3>9 DEF Answerable
  <2>. QED
    BY <1>2, <2>1 DEF Stop
<1>13. CASE ScriptCalls
  <2>1. UNCHANGED <<drag, sent>>
    BY <1>13, ScriptStep
  <2>. QED
    BY <1>1, <1>3, <1>13, <2>1, ScriptKeepsWindows
<1>. QED
  BY <1>2, <1>4, <1>5, <1>6, <1>7, <1>8, <1>9, <1>10, <1>11, <1>12, <1>13 DEF ShellNext, Requests,
     Listener, Leave, Move, Resize, MoveCursor, FindFocus, FindNoFocus, LoseFocus, KeepFocus,
     ClickNothing, ClickWindow, ScriptReturns, HoldDrag, PointerMotion, PointerButton, Emit, Stop, shellVars

\* A client left and its window stayed, which is never undone.
Gone == \E w \in Window : w \notin live /\ xdg[w].role = "toplevel"

\* Nobody left: who has a window is there, and everything that the seat, the
\* shell and the drags point at has one.
Staying ==
  /\ ~fault
  /\ \A w \in Window : xdg[w].role = "toplevel" => w \in live
  /\ \A w \in {pointer, keyboard, activated} \ {Null} : xdg[w].role = "toplevel"
  /\ \A d \in Dragging : xdg[drag[d].window].role = "toplevel"

LEMMA StayingHaveResource ==
  ASSUME TypeOK, Staying, NEW S, \A w \in S \ {Null} : w \in Window /\ xdg[w].role = "toplevel"
  PROVE  HaveResource(S)
BY DEF Staying, HaveResource

LEMMA NobodyStops ==
  ASSUME ShellInv, Staying, ShellNext
  PROVE  ~fault'
<1>. USE DEF input, focus
<1>1. TypeOK
  BY DEF ShellInv
<1>2. /\ pointer \in Window \cup {Null} /\ keyboard \in Window \cup {Null}
      /\ activated \in Window \cup {Null}
  BY <1>1 DEF TypeOK
<1>3. \A w \in {pointer, keyboard, activated} \ {Null} :
        w \in Window /\ xdg[w].role = "toplevel" /\ w \in live
  BY <1>2 DEF Staying
<1>4. HaveResource({pointer, Lock(pointer), Lock(keyboard), activated})
  BY <1>3 DEF Lock, HaveResource
<1>5. HaveResource({Lock(pointer), Lock(keyboard)}) /\ HaveResource({pointer, Lock(keyboard), activated})
  BY <1>4 DEF HaveResource
<1>6. \A d \in Dragging : drag[d].window \in live
  BY <1>1, DragTyped DEF Staying
<1>7. ASSUME NEW w \in Window, NEW d \in Drag, NEW kind, BeginDrag(w, d, kind) PROVE ~fault'
  BY <1>5, <1>7 DEF BeginDrag, Staying
<1>8. ASSUME FindFocus PROVE ~fault'
  <2>1. Stops # {} /\ Stops \in SUBSET Nat
    BY <1>8 DEF FindFocus, Stops
  <2>2. Earliest(Stops) \in Stops
    BY <2>1, EarliestIsLeast
  <2>3. Earliest(Stops) \in 1 .. Len(windows)
    BY <2>2 DEF Stops
  <2>4. windows[Earliest(Stops)] \in Window
    BY <1>1, <2>3 DEF TypeOK
  <2>5. windows[Earliest(Stops)] \in live
    BY <2>3, <2>4 DEF ShellInv, EachWindowOnce, Staying
  <2>. QED
    BY <1>8, <2>5 DEF FindFocus, Staying
<1>9. ASSUME LoseFocus \/ KeepFocus PROVE ~fault'
  <2>1. pointer # Null
    BY <1>9 DEF LoseFocus, KeepFocus, Lock
  <2>2. pointer \in live
    BY <1>3, <2>1
  <2>. QED
    BY <1>9, <2>2 DEF LoseFocus, KeepFocus, Staying
<1>10. ASSUME ClickWindow PROVE ~fault'
  BY <1>5, <1>10 DEF ClickWindow, Staying
<1>11. ASSUME NEW d \in Drag, EndMove(d) PROVE ~fault'
  <2>1. d \in Dragging
    BY <1>11, CalledDragIsOn DEF EndMove
  <2>2. HaveResource({Lock(pointer), Lock(keyboard), Lock(drag[d].window)})
    BY <1>3, <1>6, <2>1 DEF Lock, HaveResource
  <2>. QED
    BY <1>11, <2>2 DEF EndMove, Staying
<1>12. ASSUME NEW d \in Drag, EndResize(d) PROVE ~fault'
  <2>1. drag[d].window \in live
    BY <1>6, <1>12 DEF EndResize, Resizing
  <2>. QED
    BY <1>12, <2>1 DEF EndResize, Staying
<1>. QED
  BY <1>7, <1>8, <1>9, <1>10, <1>11, <1>12 DEF ShellNext, Requests, Listener, GetToplevel, Leave, CommitBuffer,
     SetWindowGeometry, AckConfigure, Move, Resize, MoveCursor, FindNoFocus, ClickNothing, MoveWindow,
     ResizeWindow, HoldDrag, PointerMotion, PointerButton, Emit, Staying, ScriptReturns,
     ScriptCalls, ScriptPlaces, ScriptRaises, ScriptPoints

LEMMA GoneStep == ShellInv /\ Gone /\ [ShellNext]_shellVars => Gone'
<1>. SUFFICES ASSUME ShellInv, Gone, [ShellNext]_shellVars PROVE Gone'
  OBVIOUS
<1>1. PICK w \in Window : w \notin live /\ xdg[w].role = "toplevel"
  BY DEF Gone
<1>2. xdg'[w].role = "toplevel"
  BY <1>1, RoleStep DEF ShellInv
<1>3. live' \subseteq live
  BY DEF input, focus, shellVars, ShellNext, Requests, Listener, GetToplevel, Leave, CommitBuffer,
     SetWindowGeometry, AckConfigure, Move, Resize, BeginDrag, MoveCursor, FindFocus, FindNoFocus,
     LoseFocus, KeepFocus, ClickNothing, ClickWindow, MoveWindow, ResizeWindow, HoldDrag, EndMove,
     EndResize, PointerMotion, PointerButton, Emit, Stop, ScriptReturns, ScriptCalls,
     ScriptPlaces, ScriptRaises, ScriptPoints
<1>. QED
  BY <1>1, <1>2, <1>3 DEF Gone

LEMMA StayingStep == ShellInv /\ Staying /\ [ShellNext]_shellVars => Gone' \/ Staying'
<1>. SUFFICES ASSUME ShellInv, Staying, [ShellNext]_shellVars, ~Gone' PROVE Staying'
  OBVIOUS
<1>. USE DEF input, focus
<1>1. TypeOK /\ xdg \in [Window -> XdgSurface]
  BY DEF ShellInv, TypeOK
<1>2. CASE UNCHANGED shellVars
  BY <1>2 DEF shellVars, Staying, Dragging
<1>3. CASE ShellNext
  <2>1. ~fault'
    BY <1>3, NobodyStops
  <2>2. \A w \in Window : xdg[w].role = "toplevel" => xdg'[w].role = "toplevel"
    BY <1>1, <1>3, RoleStep
  <2>3. ASSUME NEW w \in Window, xdg'[w].role = "toplevel" PROVE w \in live'
    <3>1. CASE GetToplevel(w)
      BY <3>1 DEF GetToplevel, Request
    <3>2. CASE ~GetToplevel(w)
      <4>1. xdg[w].role = "toplevel"
        BY <1>1, <1>3, <2>3, <3>2, RoleStep
      <4>2. w \in live
        BY <4>1 DEF Staying
      <4>3. ASSUME NEW v \in Window, Leave(v) PROVE w \in live'
        <5>1. live' = live \ {v}
          BY <4>3 DEF Leave
        <5>2. v # w
          BY <2>3, <5>1 DEF Gone
        <5>. QED
          BY <4>2, <5>1, <5>2
      <4>4. CASE ~\E v \in Window : Leave(v)
        <5>1. live' = live
          BY <1>3, <4>4 DEF ShellNext, Requests, Listener, GetToplevel, CommitBuffer, SetWindowGeometry,
             AckConfigure, Move, Resize, BeginDrag, MoveCursor, FindFocus, FindNoFocus, LoseFocus,
             KeepFocus, ClickNothing, ClickWindow, MoveWindow, ResizeWindow, HoldDrag, EndMove,
             EndResize, PointerMotion, PointerButton, Emit, Stop, ScriptReturns, ScriptCalls,
             ScriptPlaces, ScriptRaises, ScriptPoints
        <5>. QED
          BY <4>2, <5>1
      <4>. QED
        BY <4>3, <4>4
    <3>. QED
      BY <3>1, <3>2
  <2>4. {pointer', keyboard', activated'} \subseteq
          {pointer, keyboard, activated, Null} \cup {w \in Window : xdg[w].role = "toplevel"}
    <3>1. CASE UNCHANGED <<keyboard, activated>> /\ FindFocus
      <4>1. Stops # {} /\ Stops \in SUBSET Nat
        BY <3>1 DEF FindFocus, Stops
      <4>2. Earliest(Stops) \in Stops
        BY <4>1, EarliestIsLeast
      <4>3. Earliest(Stops) \in 1 .. Len(windows)
        BY <4>2 DEF Stops
      <4>4. windows[Earliest(Stops)] \in Window
        BY <1>1, <4>3 DEF TypeOK
      <4>5. xdg[windows[Earliest(Stops)]].role = "toplevel"
        BY <4>3, <4>4 DEF ShellInv, EachWindowOnce
      <4>6. pointer' = windows[Earliest(Stops)]
        BY <2>1, <3>1 DEF FindFocus, Stop
      <4>. QED
        BY <3>1, <4>4, <4>5, <4>6
    <3>2. ASSUME NEW d \in Drag, EndMove(d)
          PROVE  {pointer', keyboard', activated'} \subseteq
                   {pointer, keyboard, activated, Null} \cup {w \in Window : xdg[w].role = "toplevel"}
      <4>1. d \in Dragging
        BY <3>2, CalledDragIsOn DEF EndMove
      <4>2. drag[d].window \in Window /\ xdg[drag[d].window].role = "toplevel"
        BY <1>1, <4>1, DragTyped DEF Staying
      <4>3. /\ pointer' = Lock(drag[d].window) /\ keyboard' = Lock(drag[d].window)
            /\ activated' = activated
        BY <2>1, <3>2 DEF EndMove, Stop
      <4>. QED
        BY <4>2, <4>3 DEF Lock
    <3>3. CASE ClickWindow
      BY <2>1, <3>3 DEF ClickWindow, Stop
    <3>4. ASSUME NEW w \in Window, NEW d \in Drag, NEW kind, BeginDrag(w, d, kind)
          PROVE  {pointer', keyboard', activated'} \subseteq {pointer, keyboard, activated, Null}
      BY <2>1, <3>4 DEF BeginDrag, Stop
    <3>5. CASE FindNoFocus \/ LoseFocus
      BY <2>1, <3>5 DEF FindNoFocus, LoseFocus, Stop
    <3>6. CASE UNCHANGED <<pointer, keyboard, activated>>
      BY <3>6
    <3>. QED
      BY <1>3, <2>1, <3>1, <3>2, <3>3, <3>4, <3>5, <3>6 DEF ShellNext, Requests, Listener, GetToplevel, Leave,
         CommitBuffer, SetWindowGeometry, AckConfigure, Move, Resize, MoveCursor, FindFocus, KeepFocus,
         ClickNothing, MoveWindow, ResizeWindow, HoldDrag, EndResize, PointerMotion,
         PointerButton, Emit, Stop, ScriptReturns, ScriptCalls, ScriptPlaces, ScriptRaises,
         ScriptPoints
  <2>5. \A w \in {pointer', keyboard', activated'} \ {Null} : xdg'[w].role = "toplevel"
    <3>1. pointer \in Window \cup {Null} /\ keyboard \in Window \cup {Null}
          /\ activated \in Window \cup {Null}
      BY <1>1 DEF TypeOK
    <3>2. \A w \in {pointer, keyboard, activated, Null} \ {Null} :
            w \in Window /\ xdg[w].role = "toplevel"
      BY <3>1 DEF Staying
    <3>. QED
      BY <2>2, <2>4, <3>2
  <2>6. ASSUME NEW d \in Dragging' PROVE xdg'[drag'[d].window].role = "toplevel"
    <3>1. CASE d \in Dragging /\ drag'[d] = drag[d]
      <4>1. drag[d].window \in Window
        BY <1>1, <3>1, DragTyped
      <4>. QED
        BY <2>2, <3>1, <4>1 DEF Staying
    <3>2. ASSUME NEW w \in Window, NEW c \in Drag, NEW kind, BeginDrag(w, c, kind)
          PROVE  xdg'[drag'[d].window].role = "toplevel"
      <4>1. /\ xdg[w].role = "toplevel" /\ xdg' = xdg
            /\ drag' = [drag EXCEPT ![c] =
                 [kind |-> kind, window |-> w, start |-> cursor,
                  position |-> Whole(xdg[w].position), size |-> xdg[w].size,
                  onMove |-> NextToken(moves), onClick |-> NextToken(clicks)]]
        BY <2>1, <3>2 DEF BeginDrag, Stop
      <4>2. drag \in [Drag -> DragData \cup {Null}] /\ d \in Drag
        BY <1>1 DEF TypeOK, Dragging
      <4>3. CASE d = c
        BY <4>1, <4>2, <4>3
      <4>4. CASE d # c
        <5>1. drag'[d] = drag[d]
          BY <4>1, <4>2, <4>4
        <5>. QED
          BY <3>1, <4>2, <5>1 DEF Dragging
      <4>. QED
        BY <4>3, <4>4
    <3>3. ASSUME NEW c \in Drag, EndMove(c) \/ EndResize(c)
          PROVE  xdg'[drag'[d].window].role = "toplevel"
      <4>1. drag' = [drag EXCEPT ![c] = Null]
        BY <2>1, <3>3 DEF EndMove, EndResize, Ends, Stop
      <4>2. drag \in [Drag -> DragData \cup {Null}] /\ d \in Drag /\ drag'[d] # Null
        BY <1>1 DEF TypeOK, Dragging
      <4>3. drag'[d] = drag[d] /\ d \in Dragging
        BY <4>1, <4>2 DEF Dragging
      <4>. QED
        BY <3>1, <4>3
    <3>4. CASE drag' = drag
      BY <3>1, <3>4 DEF Dragging
    <3>. QED
      BY <1>3, <2>1, <3>2, <3>3, <3>4 DEF ShellNext, Requests, Listener, GetToplevel, Leave,
         CommitBuffer, SetWindowGeometry, AckConfigure, Move, Resize, MoveCursor, FindFocus, FindNoFocus,
         LoseFocus, KeepFocus, ClickNothing, ClickWindow, MoveWindow, ResizeWindow, HoldDrag,
         PointerMotion, PointerButton, Emit, Stop, ScriptReturns, ScriptCalls, ScriptPlaces,
         ScriptRaises, ScriptPoints
  <2>. QED
    BY <2>1, <2>3, <2>5, <2>6 DEF Staying
<1>. QED
  BY <1>2, <1>3

-----------------------------------------------------------------------------
(* The theorems.                                                           *)

\* Every variable keeps its type: in particular, the tokens the signals hand
\* out are numbers, and a null drag is never followed.
THEOREM TypeCorrect == ShellSpec => []TypeOK
<1>1. ShellInv => TypeOK
  BY DEF ShellInv
<1>. QED
  BY <1>1, Invariance, PTL

\* However many drags begin and end, also in the middle of an emission, each has
\* its own listener in both signals, and those of the cursor, the seat and the
\* scripts stay.
THEOREM TokensAreOwn == ShellSpec => []TokensNameDrags
<1>1. ShellInv => TokensNameDrags
  BY DEF ShellInv
<1>. QED
  BY <1>1, Invariance, PTL

\* raise_to_top loses no window and doubles none.
THEOREM EachWindowListedOnce == ShellSpec => []EachWindowOnce
<1>1. ShellInv => EachWindowOnce
  BY DEF ShellInv
<1>. QED
  BY <1>1, Invariance, PTL

\* No two windows were last told that they are activated.
THEOREM OneIsActivated == ShellSpec => []OneActivated
<1>1. ShellInv => OneActivated
  BY DEF ShellInv
<1>. QED
  BY <1>1, Invariance, PTL

\* A release ends every drag, whatever listeners disconnect while it is emitted.
THEOREM ReleaseEndsDrags == ShellSpec => DragsEndWithButton
<1>1. ShellInit => DragsAreAhead
  BY DEF ShellInit, Idle, DragsAreAhead
<1>2. ShellInv /\ DragsAreAhead /\ [ShellNext]_shellVars =>
        [emission.signal = "release" /\ emission' = Idle => Dragging' = {}]_shellVars
  <2>1. SUFFICES ASSUME ShellInv, DragsAreAhead, ShellNext,
                        emission.signal = "release", emission' = Idle
                 PROVE  Dragging' = {}
    OBVIOUS
  <2>2. emission # Idle
    BY <2>1 DEF Idle
  <2>3. Listener
    BY <2>1, <2>2, EmissionStep
  <2>4. emission'.signal = "none"
    BY <2>1 DEF Idle
  <2>. QED
    BY <2>1, <2>3, <2>4, ReleaseStep
<1>. QED
  BY <1>1, <1>2, AheadStep, Invariance, PTL DEF ShellSpec, DragsEndWithButton

\* When a motion is over, a window that one drag alone moves has kept its
\* distance to the cursor, to within a pixel, in whatever order the drags were
\* begun and wherever hooks put the window and the cursor meanwhile.
THEOREM MovedWindowsFollow == ShellSpec => WindowFollowsCursor
<1>1. ShellInit => Follows
  BY DEF ShellInit, Idle, Follows
<1>2. ShellInv /\ Follows /\ [ShellNext]_shellVars =>
        [Moved => \A d \in Dragging \ Resizing :
           \/ \E c \in Dragging \ {d} : drag[c].window = drag[d].window
           \/ LET now   == xdg'[drag[d].window].position - cursor'
                  begun == Grain * drag[d].position - drag[d].start
              IN  now - begun \in (1 - Grain)..(Grain - 1)]_shellVars
  <2>1. SUFFICES ASSUME ShellInv, Follows, ShellNext, Moved, NEW d \in Dragging \ Resizing, Sole(d)
                 PROVE  Near(d, xdg'[drag[d].window].position, cursor')
    BY DEF Sole, Near
  <2>2. emission.signal = "move" /\ emission'.signal = "none" /\ emission # Idle
    BY <2>1 DEF Moved, Idle
  <2>3. Listener
    BY <2>1, <2>2, EmissionStep
  <2>4. Resume(moves) /\ ~Stop
    BY <2>1, <2>2, <2>3, MotionStep
  <2>5. TypeOK /\ DOMAIN moves \subseteq Nat /\ emission.at \in Nat
        /\ drag[d].onMove \in DOMAIN moves /\ drag[d].onMove \in Nat
    BY <2>1, DragTyped DEF ShellInv, TypeOK, Emission, TokensNameDrags
  <2>6. drag[d].onMove <= emission.at
    <3>1. SUFFICES ASSUME emission.at < drag[d].onMove PROVE FALSE
      BY <2>5
    <3>2. emission'.signal = emission.signal
      BY <2>4, <2>5, <3>1, ResumeSkipsNone
    <3>. QED
      BY <2>2, <3>2
  <2>. QED
    BY <2>1, <2>2, <2>3, <2>4, <2>6, CalledKeeps
<1>. QED
  BY <1>1, <1>2, FollowsStep, Invariance, PTL DEF ShellSpec, WindowFollowsCursor

\* Where the seat looked for a window, before the hooks run: its focus is on a
\* window that the cursor is in, or on none because there is none.
Sought ==
  emission.signal = "move" /\ emission.at = 2 /\ ~emission.scripted =>
    /\ pointer = Null => \A w \in Window : ~Contains(w)
    /\ pointer # Null => StaysIn(pointer)

\* emit comes to the hooks of the motion from the seat.
LEMMA HooksFollowSeat ==
  ASSUME ShellInv, emission.signal = "move", Resume(moves), emission'.signal = "move"
  PROVE  emission'.at = 2 => emission.at = 1
<1>1. /\ TypeOK /\ DOMAIN moves \subseteq Nat /\ 1 \in DOMAIN moves
      /\ emission \in Emission /\ emission.at \in Nat
  BY DEF ShellInv, TokensNameDrags, TypeOK, Emission
<1>2. emission.at < 1 => emission'.at <= 1
  BY <1>1, ResumeSkipsNone
<1>3. emission'.at > emission.at
  <2>. DEFINE later == Later(moves, emission.at)
  <2>1. later # {} /\ emission' = [emission EXCEPT !.at = Earliest(later)]
    BY DEF Resume, Idle
  <2>2. later \in SUBSET Nat
    BY <1>1 DEF Later
  <2>3. Earliest(later) \in later
    <3>. HIDE DEF later
    <3>. QED
      BY <2>1, <2>2, EarliestIsLeast
  <2>. QED
    BY <1>1, <2>1, <2>3 DEF Later, Emission
<1>. QED
  BY <1>1, <1>2, <1>3

LEMMA SoughtStep == ShellInv /\ Roleless /\ Sought /\ [ShellNext]_shellVars => Sought'
<1>. SUFFICES ASSUME ShellInv, Roleless, Sought, [ShellNext]_shellVars,
                     emission'.signal = "move", emission'.at = 2, ~emission'.scripted
              PROVE  /\ pointer' = Null => \A w \in Window : ~Contains(w)'
                     /\ pointer' # Null => StaysIn(pointer)'
  BY DEF Sought
<1>. USE DEF input, focus
<1>1. /\ TypeOK /\ DOMAIN moves \subseteq Nat /\ {0, 1, 2} \subseteq DOMAIN moves
      /\ emission \in Emission /\ moves[1] = "seat"
  BY DEF ShellInv, TokensNameDrags, TypeOK
<1>2. CASE UNCHANGED <<emission, xdg, cursor, pointer>>
  BY <1>2 DEF Sought, Contains, StaysIn, WorkspacePosition, Whole
<1>3. CASE ShellNext /\ emission = Idle
  <2>1. ASSUME NEW signal, NEW to, Emit(signal, to) PROVE FALSE
    <3>1. signal = "move" /\ emission'.at = Earliest(DOMAIN moves)
      BY <2>1 DEF Emit
    <3>2. Earliest(DOMAIN moves) \in Nat /\ Earliest(DOMAIN moves) <= 0
      BY <1>1, EarliestIsLeast
    <3>. QED
      BY <3>1, <3>2
  <2>2. CASE ScriptCalls
    BY <1>3, <2>2, ScriptStep DEF Idle
  <2>3. CASE Listener
    BY <1>3, <2>3 DEF Idle, Listener, MoveCursor, FindFocus, FindNoFocus, LoseFocus, KeepFocus,
       ClickNothing, ClickWindow, SeatMove, SeatClick, ScriptReturns, MoveWindow, ResizeWindow,
       HoldDrag, EndMove, EndResize, Calls
  <2>4. CASE Requests
    <3>1. emission' = emission
      BY <2>4 DEF Requests, Request, GetToplevel, Leave, CommitBuffer, SetWindowGeometry,
         AckConfigure, Move, Resize, BeginDrag, Stop
    <3>. QED
      BY <1>3, <3>1 DEF Idle
  <2>. QED
    BY <1>3, <2>1, <2>2, <2>3, <2>4 DEF ShellNext, PointerMotion, PointerButton
<1>4. CASE ScriptCalls /\ emission # Idle
  <2>1. emission' = [emission EXCEPT !.scripted = TRUE]
    BY <1>4, ScriptStep
  <2>2. emission'.scripted = TRUE
    BY <1>1, <2>1 DEF Emission
  <2>. QED
    BY <2>2
<1>5. CASE Listener /\ emission # Idle
  <2>1. CASE UNCHANGED emission /\ (FindFocus \/ LoseFocus) /\ ~Stop
    <3>1. moves[2] = "seat"
      BY <2>1 DEF FindFocus, LoseFocus, SeatMove, Calls, Emitted
    <3>. QED
      BY <3>1 DEF ShellInv, TokensNameDrags
  <2>2. CASE Stop
    BY <1>2, <2>2 DEF Stop
  <2>3. CASE emission.signal # "move" /\ ~Stop
    <3>1. Resume(moves) \/ Resume(clicks) \/ Resume(clicks') \/ Resume(Emitted)
      BY <1>5, <2>3 DEF Listener, MoveCursor, FindFocus, FindNoFocus, LoseFocus,
         KeepFocus, ClickNothing, ClickWindow, ScriptReturns, SeatMove, SeatClick, MoveWindow,
         ResizeWindow, HoldDrag, EndMove, EndResize, Ends, Calls
    <3>2. emission' = Idle \/ emission'.signal = emission.signal
      BY <1>1, <3>1 DEF Resume, Emission
    <3>. QED
      BY <2>3, <3>2 DEF Idle
  <2>4. CASE emission.signal = "move" /\ ~Stop /\ ~FindFocus /\ ~LoseFocus
    <3>1. Resume(moves)
      BY <1>5, <2>4 DEF Listener, MoveCursor, FindNoFocus, KeepFocus, ClickNothing, ClickWindow,
         ScriptReturns, Emitted, SeatMove, SeatClick, MoveWindow, ResizeWindow, HoldDrag,
         EndMove, EndResize, Calls
    <3>2. moves[emission.at] = "seat"
      BY <1>1, <2>4, <3>1, HooksFollowSeat
    <3>3. FindNoFocus \/ KeepFocus
      BY <1>5, <2>4, <3>2, NamesDiffer DEF Listener, MoveCursor, ClickNothing, ClickWindow,
         ScriptReturns, Emitted, SeatClick, MoveWindow, ResizeWindow, HoldDrag, EndMove,
         EndResize, Calls
    <3>4. xdg' = xdg /\ cursor' = cursor
      BY <2>4, <3>3 DEF FindNoFocus, KeepFocus
    <3>5. CASE FindNoFocus
      <4>1. pointer' = Null /\ Stops = {}
        BY <3>5 DEF FindNoFocus
      <4>2. ASSUME NEW w \in Window PROVE ~Contains(w)
        <5>1. xdg[w] \in XdgSurface /\ cursor \in Int /\ Grain * 0 = 0
          BY <1>1, PlacesAreInt, BoundsAreNat DEF TypeOK
        <5>2. CASE xdg[w].role = "none"
          <6>1. xdg[w].extent = 0
            BY <5>2 DEF Roleless
          <6>. QED
            BY <5>1, <6>1 DEF Contains, XdgSurface
        <5>3. CASE xdg[w].role = "toplevel"
          <6>1. PICK k \in 1 .. Len(windows) : windows[k] = w
            BY <5>3 DEF ShellInv, EachWindowOnce
          <6>. QED
            BY <4>1, <6>1 DEF Stops
        <5>. QED
          BY <5>1, <5>2, <5>3 DEF XdgSurface
      <4>. QED
        BY <3>4, <4>1, <4>2 DEF Contains
    <3>6. CASE KeepFocus
      <4>1. pointer' = pointer /\ pointer # Null /\ StaysIn(pointer)
        BY <2>4, <3>6 DEF KeepFocus, Lock
      <4>. QED
        BY <3>4, <4>1 DEF StaysIn, WorkspacePosition, Whole
    <3>. QED
      BY <3>3, <3>5, <3>6
  <2>5. (FindFocus \/ LoseFocus) /\ ~Stop => UNCHANGED emission
    BY DEF FindFocus, LoseFocus
  <2>. QED
    BY <2>1, <2>2, <2>3, <2>4, <2>5
<1>. QED
  BY <1>2, <1>3, <1>4, <1>5, EmissionStep DEF shellVars

\* When a motion is over, nothing is dragged and no hook moved anything, the
\* seat points at a window that the cursor is in, or at none because there is
\* none: also when windows are at fractions of a pixel.
THEOREM PointerIsOnItsWindow == ShellSpec => FocusFollowsPointer
<1>1. ShellInit => Roleless /\ Sought
  BY DEF ShellInit, Idle, Roleless, Sought
<1>2. ASSUME ShellInv, Sought, ShellNext, Moved, Dragging = {}, ~emission.scripted
      PROVE  /\ pointer' = Null => \A w \in Window : ~Contains(w)'
             /\ pointer' # Null => StaysIn(pointer)'
  <2>. USE DEF input, focus
  <2>1. emission.signal = "move" /\ emission'.signal = "none" /\ emission # Idle
        /\ emission' = Idle
    BY <1>2 DEF Moved, Idle
  <2>2. Listener
    BY <1>2, <2>1, EmissionStep
  <2>3. Resume(moves) /\ ~Stop
    BY <1>2, <2>1, <2>2, MotionStep
  <2>4. /\ TypeOK /\ DOMAIN moves = {0, 1, 2} /\ moves[2] = "script"
        /\ emission.at \in DOMAIN moves
    BY <1>2, <2>1 DEF ShellInv, TokensNameDrags, EmissionInv, Emitted
  <2>5. emission.at = 2
    <3>1. SUFFICES ASSUME emission.at < 2 PROVE FALSE
      BY <2>4
    <3>2. emission'.signal = emission.signal
      BY <2>3, <2>4, <3>1, ResumeSkipsNone
    <3>. QED
      BY <2>1, <3>2
  <2>6. ScriptReturns
    BY <2>1, <2>2, <2>4, <2>5, NamesDiffer DEF Listener, MoveCursor, FindFocus, FindNoFocus,
       LoseFocus, KeepFocus, ClickNothing, ClickWindow, SeatMove, SeatClick, Emitted, MoveWindow,
       ResizeWindow, HoldDrag, EndMove, EndResize, Calls
  <2>7. UNCHANGED <<xdg, cursor, pointer>>
    BY <2>6 DEF ScriptReturns
  <2>8. /\ pointer = Null => \A w \in Window : ~Contains(w)
        /\ pointer # Null => StaysIn(pointer)
    BY <1>2, <2>1, <2>5 DEF Sought
  <2>. QED
    BY <2>7, <2>8 DEF Contains, StaysIn, WorkspacePosition, Whole
<1>3. ShellInv /\ Sought /\ [ShellNext]_shellVars =>
        [Moved /\ Dragging = {} /\ ~emission.scripted =>
           /\ pointer' = Null => \A w \in Window : ~Contains(w)'
           /\ pointer' # Null => StaysIn(pointer)']_shellVars
  BY <1>2
<1>4. ShellInv /\ Roleless /\ Sought /\ [ShellNext]_shellVars => (Roleless /\ Sought)'
  BY RolelessStep, SoughtStep
<1>. QED
  BY <1>1, <1>3, <1>4, Invariance, PTL DEF ShellSpec, FocusFollowsPointer

\* The size a client acknowledges is the one it was sent, whatever it and other
\* clients request in between and whenever it answers, as long as its window is
\* not being resized again: that resize has put its own size where the first
\* waits for the answer.
THEOREM AcknowledgedIsSent == ShellSpec => AckGetsWhatWasSent
<1>1. ShellInit => Answerable
  <2>. SUFFICES ASSUME ShellInit PROVE Answerable
    OBVIOUS
  <2>1. Len(sent) = 0 /\ \A w \in Window : xdg[w].serial = 0
    BY DEF ShellInit
  <2>. QED
    BY <2>1 DEF Answerable
<1>2. ASSUME ShellInv, Answerable, NEW w \in Window, NEW n \in 1 .. MaxSerial, AckConfigure(w, n)
      PROVE  xdg'[w].size = sent[n].size \/ \E d \in Resizing : drag[d].window = w
  <2>1. /\ xdg[w].serial = n /\ n # 0
        /\ xdg' = [xdg EXCEPT ![w].size = xdg[w].pending, ![w].serial = 0]
    BY <1>2 DEF AckConfigure
  <2>2. sent[n].size = xdg[w].pending \/ \E d \in Resizing : drag[d].window = w
    BY <1>2, <2>1 DEF Answerable
  <2>3. xdg \in [Window -> XdgSurface]
    BY <1>2 DEF ShellInv, TypeOK
  <2>4. xdg'[w].size = xdg[w].pending
    BY <2>1, <2>3 DEF XdgSurface
  <2>. QED
    BY <2>2, <2>4
<1>3. ShellInv /\ Answerable /\ [ShellNext]_shellVars =>
        [\A w \in Window, n \in 1 .. MaxSerial :
           AckConfigure(w, n) =>
             \/ xdg'[w].size = sent[n].size
             \/ \E d \in Resizing : drag[d].window = w]_shellVars
  BY <1>2
<1>. QED
  BY <1>1, <1>3, AnswerableStep, Invariance, PTL DEF ShellSpec, AckGetsWhatWasSent

\* A null pointer is used only when a client left and its window stayed, however
\* clients, hooks and the pointer interleave: a client that leaves is the only
\* way to the faults of the shell.
THEOREM OnlyLeavingFaults == ShellSpec => []FaultNeedsLeaver
<1>1. ShellInit => Staying
  BY DEF ShellInit, Staying, Dragging
<1>2. Gone \/ Staying => FaultNeedsLeaver
  BY DEF Staying, Gone, FaultNeedsLeaver
<1>3. ShellInv /\ (Gone \/ Staying) /\ [ShellNext]_shellVars => (Gone \/ Staying)'
  BY GoneStep, StayingStep
<1>. QED
  BY <1>1, <1>2, <1>3, Invariance, PTL DEF ShellSpec

-----------------------------------------------------------------------------
\* The listeners that emit has yet to call, the one it is at included, and how
\* far the search of the seat is from its end: it loses a window that the cursor
\* has left, then finds one that the cursor is in.
Ahead == {t \in DOMAIN Emitted : emission.at <= t}

Search == IF Lock(pointer) = Null THEN 1 ELSE IF StaysIn(pointer) THEN 0 ELSE 2

\* A step of an emission ends it, or passes a listener, or gets on with the
\* search, unless it uses a null pointer, is a call of a hook, or the two tests of
\* the seat disagree about a window.
EventProceeds ==
  [][emission # Idle =>
       \/ emission' = Idle \/ fault'
       \/ SearchRestarts
       \/ ScriptCalls /\ Ahead' = Ahead
       \/ emission.at \in Ahead /\ Ahead' \subseteq Ahead \ {emission.at}
       \/ UNCHANGED <<moves, clicks, emission>> /\ Search' < Search]_shellVars

LEMMA ResumePasses ==
  ASSUME ShellInv, NEW l, Resume(l), emission.signal # "none",
         DOMAIN l \subseteq DOMAIN Emitted,
         \/ emission.signal = "move" /\ moves' = l
         \/ emission.signal # "move" /\ clicks' = l
  PROVE  \/ emission' = Idle
         \/ emission.at \in Ahead /\ Ahead' \subseteq Ahead \ {emission.at}
<1>. DEFINE later == Later(l, emission.at)
<1>1. /\ emission \in Emission /\ emission.at \in DOMAIN Emitted
      /\ DOMAIN Emitted \subseteq Nat
  BY DEF ShellInv, TypeOK, EmissionInv, Emitted
<1>2. CASE later = {}
  BY <1>2 DEF Resume
<1>3. CASE later # {}
  <2>1. emission' = [emission EXCEPT !.at = Earliest(later)]
    BY <1>3 DEF Resume
  <2>2. Earliest(later) \in later
    <3>1. later \in SUBSET Nat
      BY <1>1 DEF Later
    <3>. HIDE DEF later
    <3>. QED
      BY <1>3, <3>1, EarliestIsLeast
  <2>3. emission'.signal = emission.signal /\ emission'.at > emission.at
    BY <1>1, <2>1, <2>2 DEF Later, Emission
  <2>4. Emitted' = l
    BY <2>3 DEF Emitted
  <2>5. emission.at \in Nat /\ emission'.at \in Nat
    BY <1>1, <2>1, <2>2 DEF Later, Emission
  <2>. QED
    BY <1>1, <2>3, <2>4, <2>5 DEF Ahead
<1>. QED
  BY <1>2, <1>3

\* The window that is found is one that the next round keeps.
LEMMA SearchProceeds ==
  ASSUME ShellInv, FindFocus \/ LoseFocus, ~Stop, ~SearchRestarts
  PROVE  UNCHANGED <<moves, clicks, emission>> /\ Search' < Search
<1>1. CASE FindFocus
  <2>. DEFINE i == Earliest(Stops)
  <2>1. /\ Lock(pointer) = Null /\ pointer' = windows[i] /\ windows[i] \in live
        /\ UNCHANGED <<input, xdg, drag, live>> /\ Stops # {}
    BY <1>1 DEF FindFocus
  <2>2. i \in Stops /\ windows[i] \in Window
    <3>1. Stops \in SUBSET Nat /\ windows \in Seq(Window)
      BY DEF Stops, ShellInv, TypeOK
    <3>2. i \in Stops
      BY <2>1, <3>1, EarliestIsLeast
    <3>. QED
      BY <3>1, <3>2 DEF Stops
  <2>3. Contains(windows[i])
    BY <2>1, <2>2 DEF Stops, HasSurface
  <2>. HIDE DEF i
  <2>4. Lock(pointer)' = pointer' /\ pointer' # Null
    BY <2>1, <2>2, NamesDiffer DEF Lock, HasSurface
  <2>5. StaysIn(pointer)'
    <3>1. PICK w \in Window : w = windows[i]
      BY <2>2
    <3>3. StaysIn(w)
      BY <2>3, <3>1 DEF SearchRestarts
    <3>4. xdg' = xdg /\ cursor' = cursor /\ pointer' = w
      BY <2>1, <3>1 DEF input
    <3>. QED
      BY <3>3, <3>4 DEF StaysIn, WorkspacePosition, Whole
  <2>. QED
    BY <2>1, <2>4, <2>5 DEF Search, input
<1>2. CASE LoseFocus
  <2>1. /\ Lock(pointer) # Null /\ ~StaysIn(pointer) /\ pointer' = Null
        /\ UNCHANGED input
    BY <1>2 DEF LoseFocus
  <2>2. Lock(pointer)' = Null
    BY <2>1 DEF Lock
  <2>. QED
    BY <2>1, <2>2 DEF Search, input
<1>. QED
  BY <1>1, <1>2

LEMMA ListenerProceeds ==
  ASSUME ShellInv, Listener, ~fault', ~SearchRestarts
  PROVE  \/ emission' = Idle
         \/ emission.at \in Ahead /\ Ahead' \subseteq Ahead \ {emission.at}
         \/ UNCHANGED <<moves, clicks, emission>> /\ Search' < Search
<1>1. ~Stop
  BY DEF Stop
<1>2. CASE FindFocus \/ LoseFocus
  BY <1>1, <1>2, SearchProceeds
<1>3. CASE \/ MoveCursor \/ FindNoFocus \/ KeepFocus
           \/ ScriptReturns /\ emission.signal = "move"
           \/ \E d \in Drag : MoveWindow(d) \/ ResizeWindow(d)
  <2>1. emission.signal = "move" /\ Resume(moves) /\ moves' = moves
    BY <1>1, <1>3 DEF MoveCursor, FindNoFocus, KeepFocus, ScriptReturns, MoveWindow, ResizeWindow,
       SeatMove, Calls, Emitted
  <2>2. DOMAIN moves \subseteq DOMAIN Emitted
    BY <2>1 DEF Emitted
  <2>. QED
    BY <2>1, <2>2, ResumePasses
<1>4. CASE \/ ClickNothing \/ ClickWindow
           \/ ScriptReturns /\ emission.signal # "move"
           \/ \E d \in Drag : HoldDrag(d)
  <2>1. /\ emission.signal \in {"press", "release"} /\ Resume(clicks)
        /\ clicks' = clicks
    BY <1>1, <1>4 DEF ClickNothing, ClickWindow, ScriptReturns, HoldDrag, SeatClick, Calls, Emitted
  <2>2. DOMAIN clicks \subseteq DOMAIN Emitted
    BY <2>1 DEF Emitted
  <2>. QED
    BY <2>1, <2>2, ResumePasses
<1>5. ASSUME NEW d \in Drag, EndMove(d) \/ EndResize(d)
      PROVE  \/ emission' = Idle
             \/ emission.at \in Ahead /\ Ahead' \subseteq Ahead \ {emission.at}
  <2>1. emission.signal = "release" /\ Ends(d)
    BY <1>1, <1>5 DEF EndMove, EndResize, Calls
  <2>2. Resume(clicks') /\ DOMAIN clicks' \subseteq DOMAIN Emitted
    BY <2>1 DEF Ends, Emitted, Disconnect
  <2>. QED
    BY <2>1, <2>2, ResumePasses
<1>. QED
  BY <1>2, <1>3, <1>4, <1>5 DEF Listener

\* Every event is worked off: only finitely many listeners are ahead of emit,
\* also when drags begin and end, each step of an emission that is not the call
\* of a hook leaves fewer of them, and while the seat searches for a window it
\* takes two rounds at most before its tests agree, unless they disagree about
\* one. With handlers and hooks that return this is why an emission ends.
THEOREM EventsAreWorkedOff == ShellSpec => EventProceeds /\ []IsFiniteSet(Ahead)
<1>1. ASSUME ShellInv, ShellNext, emission # Idle
      PROVE  \/ emission' = Idle \/ fault'
             \/ SearchRestarts
             \/ ScriptCalls /\ Ahead' = Ahead
             \/ emission.at \in Ahead /\ Ahead' \subseteq Ahead \ {emission.at}
             \/ UNCHANGED <<moves, clicks, emission>> /\ Search' < Search
  <2>1. CASE Listener
    BY <1>1, <2>1, ListenerProceeds
  <2>2. CASE ScriptCalls /\ emission'.signal = emission.signal /\ emission'.at = emission.at
    <3>1. UNCHANGED <<moves, clicks>>
      BY <2>2, ScriptStep
    <3>. QED
      BY <2>2, <3>1 DEF Ahead, Emitted
  <2>. QED
    BY <1>1, <2>1, <2>2, EmissionStep
<1>2. ShellInv /\ [ShellNext]_shellVars =>
        [emission # Idle =>
           \/ emission' = Idle \/ fault'
           \/ SearchRestarts
           \/ ScriptCalls /\ Ahead' = Ahead
           \/ emission.at \in Ahead /\ Ahead' \subseteq Ahead \ {emission.at}
           \/ UNCHANGED <<moves, clicks, emission>> /\ Search' < Search]_shellVars
  BY <1>1
<1>3. ASSUME ShellInv PROVE IsFiniteSet(Ahead)
  <2>1. /\ Bounded(Emitted) /\ DOMAIN Emitted \subseteq Nat
    BY <1>3 DEF ShellInv, EmissionInv, TypeOK, Emitted
  <2>2. PICK b \in Nat : \A t \in DOMAIN Emitted : t <= b
    BY <2>1 DEF Bounded
  <2>3. Ahead \subseteq 0 .. b
    BY <2>1, <2>2 DEF Ahead
  <2>4. IsFiniteSet(0 .. b)
    BY FS_Interval
  <2>. QED
    BY <2>3, <2>4, FS_Subset
<1>. QED
  BY <1>2, <1>3, Invariance, PTL DEF ShellSpec, EventProceeds

\* Whole pixels are converted to themselves.
LEMMA WholeOfPixels ==
  ASSUME NEW n \in Int
  PROVE  Grain * n \in Int /\ Grain * Whole(Grain * n) = Grain * n
<1>1. Grain \in Nat /\ Grain > 0 /\ Grain \in Int
  BY BoundsAreNat
<1>2. Grain * n \in Int
  BY <1>1
<1>. DEFINE m == Whole(Grain * n)
<1>3. m \in Int /\ Grain * n - Grain * m \in (1 - Grain)..(Grain - 1)
  BY <1>2, WholeIsNear
<1>. HIDE DEF m
<1>4. ASSUME NEW k \in Int, k >= 1 PROVE Grain * k \in Int /\ Grain * k >= Grain
  BY <1>1, <1>4
<1>5. Grain * n - Grain * m = Grain * (n - m) /\ Grain * (m - n) = -(Grain * (n - m))
      /\ n - m \in Int /\ m - n \in Int /\ Grain * (n - m) \in Int
  BY <1>1, <1>3
<1>6. ~(n - m >= 1)
  BY <1>1, <1>3, <1>4, <1>5
<1>7. ~(m - n >= 1)
  BY <1>1, <1>3, <1>4, <1>5
<1>8. m = n
  BY <1>3, <1>6, <1>7
<1>. QED
  BY <1>2, <1>8 DEF m

\* What is not at whole pixels is where a script put it.
ScriptsPlaceFractions ==
  \A w \in Window : xdg[w].position \in Places \/ WorkspacePosition(w) = xdg[w].position

LEMMA FractionsStep ==
  ShellInv /\ ScriptsPlaceFractions /\ [ShellNext]_shellVars => ScriptsPlaceFractions'
<1>. USE DEF input, focus
<1>. SUFFICES ASSUME ShellInv, ScriptsPlaceFractions, [ShellNext]_shellVars, NEW w \in Window
              PROVE  \/ xdg'[w].position \in Places
                     \/ WorkspacePosition(w)' = xdg'[w].position
  BY DEF ScriptsPlaceFractions
<1>1. TypeOK /\ xdg \in [Window -> XdgSurface] /\ xdg[w] \in XdgSurface
  BY DEF ShellInv, TypeOK
<1>2. ASSUME xdg'[w].position = xdg[w].position
      PROVE  \/ xdg'[w].position \in Places
             \/ WorkspacePosition(w)' = xdg'[w].position
  BY <1>2 DEF ScriptsPlaceFractions, WorkspacePosition
<1>3. ASSUME NEW n \in Int, xdg'[w].position = Grain * n
      PROVE  WorkspacePosition(w)' = xdg'[w].position
  BY <1>3, WholeOfPixels DEF WorkspacePosition
<1>4. ASSUME NEW d \in Drag, MoveWindow(d) \/ ResizeWindow(d)
      PROVE  \/ xdg'[w].position = xdg[w].position
             \/ \E n \in Int : xdg'[w].position = Grain * n
  <2>1. drag[d] \in DragData /\ cursor \in Int /\ drag[d].start \in Int
        /\ drag[d].position \in Int /\ drag[d].window \in Window
    <3>1. d \in Dragging
      BY <1>4, CalledDragIsOn DEF MoveWindow, ResizeWindow
    <3>2. drag[d] \in DragData /\ cursor \in Reach
      BY <1>1, <3>1 DEF TypeOK, Dragging
    <3>. QED
      BY <3>2, PlacesAreInt DEF DragData
  <2>2. Whole(cursor - drag[d].start) \in Int
    BY <2>1, WholeIsNear
  <2>3. drag[d].position + Whole(cursor - drag[d].start) \in Int
    BY <2>1, <2>2
  <2>4. CASE drag[d].window # w
    BY <1>1, <1>4, <2>4 DEF MoveWindow, ResizeWindow
  <2>5. CASE MoveWindow(d) /\ drag[d].window = w
    BY <1>1, <2>3, <2>5 DEF MoveWindow, XdgSurface
  <2>6. CASE ResizeWindow(d) /\ drag[d].window = w
    <3>1. xdg' = xdg \/ xdg' = [xdg EXCEPT ![w].position = NewPosition(d),
                                           ![w].pending = NewSize(d)]
      BY <2>6 DEF ResizeWindow
    <3>2. \E n \in Int : NewPosition(d) = Grain * n
      BY <2>1, <2>3 DEF NewPosition
    <3>. QED
      BY <1>1, <3>1, <3>2 DEF XdgSurface
  <2>. QED
    BY <1>4, <2>4, <2>5, <2>6
<1>5. ASSUME NEW d \in Drag, EndResize(d)
      PROVE  xdg'[w].position = xdg[w].position
  <2>1. xdg' = xdg \/ xdg' = [xdg EXCEPT ![drag[d].window].serial = Len(sent) + 1]
    BY <1>5 DEF EndResize, Stop
  <2>2. ASSUME NEW v, NEW n, xdg' = [xdg EXCEPT ![v].serial = n]
        PROVE  xdg'[w].position = xdg[w].position
    <3>1. xdg'[w] \in {xdg[w], [xdg[w] EXCEPT !.serial = n]}
      BY <1>1, <2>2
    <3>2. [xdg[w] EXCEPT !.serial = n].position = xdg[w].position
      BY <1>1 DEF XdgSurface
    <3>. QED
      BY <3>1, <3>2
  <2>. QED
    BY <2>1, <2>2
<1>6. ASSUME NEW v \in Window,
             \/ GetToplevel(v)
             \/ \E e \in Extent \cup {0} : CommitBuffer(v, e)
             \/ \E e \in Extent : SetWindowGeometry(v, e)
             \/ \E n \in 1..MaxSerial : AckConfigure(v, n)
      PROVE  xdg'[w].position = xdg[w].position
  <2>1. CASE v # w
    BY <1>1, <1>6, <2>1 DEF GetToplevel, CommitBuffer, SetWindowGeometry, AckConfigure
  <2>2. CASE GetToplevel(w)
    BY <1>1, <2>2 DEF GetToplevel, XdgSurface
  <2>3. ASSUME NEW e, CommitBuffer(w, e) PROVE xdg'[w].position = xdg[w].position
    BY <1>1, <2>3 DEF CommitBuffer, XdgSurface
  <2>4. ASSUME NEW e, SetWindowGeometry(w, e) PROVE xdg'[w].position = xdg[w].position
    BY <1>1, <2>4 DEF SetWindowGeometry, XdgSurface
  <2>5. ASSUME NEW n, AckConfigure(w, n) PROVE xdg'[w].position = xdg[w].position
    BY <1>1, <2>5 DEF AckConfigure, XdgSurface
  <2>. QED
    BY <1>6, <2>1, <2>2, <2>3, <2>4, <2>5
<1>7. ASSUME NEW v \in Window, NEW x \in Places, ScriptPlaces(v, x)
      PROVE  xdg'[w].position \in {x, xdg[w].position}
  BY <1>1, <1>7 DEF ScriptPlaces, XdgSurface
<1>8. \/ xdg' = xdg
      \/ \E d \in Drag : MoveWindow(d) \/ ResizeWindow(d) \/ EndResize(d)
      \/ \E v \in Window : \/ GetToplevel(v)
                           \/ \E e \in Extent \cup {0} : CommitBuffer(v, e)
                           \/ \E e \in Extent : SetWindowGeometry(v, e)
                           \/ \E n \in 1..MaxSerial : AckConfigure(v, n)
                           \/ \E x \in Places : ScriptPlaces(v, x)
  BY DEF ShellNext, Requests, Listener, Leave, Move, Resize, BeginDrag, MoveCursor, FindFocus,
     FindNoFocus, LoseFocus, KeepFocus, ClickNothing, ClickWindow, ScriptReturns, HoldDrag,
     EndMove, PointerMotion, PointerButton, Emit, Stop, ScriptCalls, ScriptRaises, ScriptPoints,
     shellVars
<1>. QED
  BY <1>2, <1>3, <1>4, <1>5, <1>6, <1>7, <1>8

\* The tests of the seat disagree only about a window at a fraction of a pixel,
\* where only xdg/set-position of a script puts one: the requests of clients and
\* their drags leave windows at whole pixels, and make no motion search for ever.
THEOREM OnlyFractionsRestart ==
  ShellSpec => [](SearchRestarts =>
                    \E w \in Window : /\ xdg[w].position \in Places
                                      /\ WorkspacePosition(w) # xdg[w].position)
<1>1. ASSUME ShellInv, ScriptsPlaceFractions, SearchRestarts
      PROVE  \E w \in Window : /\ xdg[w].position \in Places
                               /\ WorkspacePosition(w) # xdg[w].position
  <2>1. PICK w \in Window : Contains(w) /\ ~StaysIn(w)
    BY <1>1 DEF SearchRestarts
  <2>2. xdg[w] \in XdgSurface /\ cursor \in Int
    BY <1>1, PlacesAreInt DEF ShellInv, TypeOK
  <2>3. xdg[w].position \in Int /\ xdg[w].extent \in Int /\ Grain \in Int
    <3>1. xdg[w].position \in Int /\ xdg[w].extent \in Extent \cup {0}
      BY <2>2 DEF XdgSurface
    <3>2. \A e \in Extent \cup {0} : e \in Int
      BY ExtentsAreWidths
    <3>. QED
      BY <3>1, <3>2, BoundsAreNat
  <2>4. Grain * xdg[w].extent \in Int
    BY <2>3
  <2>5. cursor - xdg[w].position \in 0 .. Grain * xdg[w].extent
    BY <2>1, <2>2, <2>3, <2>4 DEF Contains
  <2>6. WorkspacePosition(w) # xdg[w].position
    BY <2>1, <2>5 DEF StaysIn
  <2>. QED
    BY <1>1, <2>6 DEF ScriptsPlaceFractions
<1>2. ShellInit => ScriptsPlaceFractions
  <2>1. Grain * 0 = 0 /\ Whole(Grain * 0) = Whole(0)
    BY BoundsAreNat
  <2>. QED
    BY <2>1, WholeOfPixels DEF ShellInit, ScriptsPlaceFractions, WorkspacePosition
<1>. QED
  BY <1>1, <1>2, FractionsStep, Invariance, PTL DEF ShellSpec

=============================================================================
