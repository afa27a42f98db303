------------------------- MODULE RenderThreadProofs -------------------------
(* What the render thread of an output promises, whatever the outputs,      *)
(* regions, buffers and sizes: that no wake-up is lost between frames and   *)
(* no damage reset unseen (RenderLoop), that the cells of the damage tree   *)
(* tile the output and a query finds all the damage of its rectangle        *)
(* (DamageTree), and that no buffer on display is drawn to and no event     *)
(* finds the data of its flip gone (PageFlip).                              *)
EXTENDS RenderLoop, DamageTree, PageFlip, FiniteSetTheorems, TLAPS

-----------------------------------------------------------------------------
(* Wake-ups and damage.                                                     *)

LEMMA WakeInit == LoopInit => WakeInv
<1> SUFFICES ASSUME LoopInit PROVE WakeInv
  OBVIOUS
<1>1. 0 \in Version /\ 1 \in Version
  BY BoundIsNat DEF Version
<1>2. posted \in BOOLEAN
  BY DEF LoopInit
<1>3. LoopTypeOK
  BY <1>1, <1>2 DEF LoopInit, LoopTypeOK
<1> QED
  BY <1>3 DEF LoopInit, WakeInv, NoLostWakeup, NothingShownYet, PaintCoversDamage

LEMMA WakeStep == WakeInv /\ [LoopNext]_loopVars => WakeInv'
<1> SUFFICES ASSUME WakeInv, [LoopNext]_loopVars PROVE WakeInv'
  OBVIOUS
<1> USE DEF WakeInv, LoopTypeOK, NoLostWakeup, NothingShownYet,
            PaintCoversDamage, request, client, picture
<1>1. CASE RequestDamage
  <2>1. /\ toNotify = NoOutput /\ toNotify' = NoOutput
        /\ pc[Home] \in {"start", "waiting", "woken"}
        /\ pc' = IF pc[Home] = "waiting" THEN [pc EXCEPT ![Home] = "woken"] ELSE pc
        /\ force' = [force EXCEPT ![Home] = TRUE]
        /\ posted' = TRUE
        /\ UNCHANGED <<damage, content, seen, backBuffer, shown>>
    BY <1>1 DEF RequestDamage, SurfaceDamage, ForceRender, NotifyAll, MainIdle, Unlocked
  <2>2. LoopTypeOK'
    <3>1. posted' \in BOOLEAN
      BY <2>1
    <3> QED
      BY <2>1, <3>1, HomeIsOutput
  <2>3. ASSUME NEW o \in Output PROVE /\ pc'[o] = "waiting" => pc[o] = "waiting" /\ o # Home
                                      /\ pc'[o] \in {"start", "drawn"} => pc[o] = pc'[o]
                                      /\ pc[o] = "start" => pc'[o] = "start"
                                      /\ o # Home => force'[o] = force[o]
    BY <2>1, HomeIsOutput
  <2>4. NoLostWakeup'
    BY <2>1, <2>3
  <2>5. NothingShownYet' /\ PaintCoversDamage'
    BY <2>1, <2>3
  <2> QED
    BY <2>2, <2>4, <2>5
<1>2. CASE Commit
  <2>1. content' \in Version
    BY <1>2, BoundIsNat DEF Commit, Version
  <2>2. posted' \in BOOLEAN
    BY <1>2 DEF Commit
  <2> QED
    BY <1>2, <2>1, <2>2 DEF Commit, MainIdle
<1>3. ASSUME NEW o \in Output, NEW d \in Damage, DamageOutput(o, d) PROVE WakeInv'
  BY <1>3, NoOutputIsNone DEF DamageOutput, MainIdle, Unlocked
<1>4. CASE Notify
  BY <1>4, NoOutputIsNone DEF Notify, NotifyAll
<1>5. ASSUME NEW o \in Output, Start(o) PROVE WakeInv'
  BY <1>5 DEF Start
<1>6. ASSUME NEW o \in Output, SpuriousWake(o) PROVE WakeInv'
  BY <1>6 DEF SpuriousWake
<1>7. ASSUME NEW o \in Output, BeginPaint(o) PROVE WakeInv'
  BY <1>7 DEF BeginPaint
<1>8. ASSUME NEW o \in Output, DrawLayers(o) PROVE WakeInv'
  BY <1>8 DEF DrawLayers
<1>9. ASSUME NEW o \in Output, Present(o) PROVE WakeInv'
  BY <1>9 DEF Present
<1>10. CASE UNCHANGED loopVars
  BY <1>10 DEF loopVars
<1> QED
  BY <1>1, <1>2, <1>3, <1>4, <1>5, <1>6, <1>7, <1>8, <1>9, <1>10
     DEF LoopNext, Main, Render

LEMMA WakeAlways == LoopSpec => []WakeInv
  BY WakeInit, WakeStep, PTL DEF LoopSpec

\* The variables keep their types.
THEOREM TypeCorrect == LoopSpec => []LoopTypeOK
  BY WakeAlways, PTL DEF WakeInv

\* A render thread that sleeps after a frame while its output is damaged or
\* forced is about to be notified: output_t::damage and force_render lose no
\* wake-up against the wait in main.cpp.
THEOREM WakeupsAreKept == LoopSpec => []NoLostWakeup
  BY WakeAlways, PTL DEF WakeInv

\* What paint() resets is what its layers could see, because it is painted
\* and reset with the mutex held.
THEOREM OnlySeenDamageIsReset == LoopSpec => []PaintCoversDamage
  BY WakeAlways, PTL DEF WakeInv

(* A thread that sleeps, or has a frame ready, has no older version of a    *)
(* surface whose client has posted damage for its next one.                 *)
SleepsUpToDate ==
  posted /\ pc[Home] = "waiting" /\ shown[Home] # 0 => shown[Home] = content

DrawnUpToDate == posted /\ pc[Home] = "drawn" => backBuffer[Home] = content

LEMMA UpToDateStep ==
  ASSUME WakeInv, SleepsUpToDate, DrawnUpToDate, [LoopNext]_loopVars
  PROVE  SleepsUpToDate' /\ DrawnUpToDate'
<1> USE HomeIsOutput DEF WakeInv, LoopTypeOK, SleepsUpToDate, DrawnUpToDate, client, picture
<1>1. CASE RequestDamage
  <2>1. /\ pc[Home] \in {"start", "waiting", "woken"}
        /\ pc' = IF pc[Home] = "waiting" THEN [pc EXCEPT ![Home] = "woken"] ELSE pc
    BY <1>1 DEF RequestDamage, SurfaceDamage, ForceRender, NotifyAll, Unlocked
  <2>2. pc'[Home] \in {"start", "woken"}
    BY <2>1
  <2> QED
    BY <2>2
<1>2. CASE Commit
  BY <1>2 DEF Commit
<1>3. ASSUME NEW o \in Output, NEW d \in Damage, DamageOutput(o, d)
      PROVE  SleepsUpToDate' /\ DrawnUpToDate'
  BY <1>3 DEF DamageOutput
<1>4. CASE Notify
  BY <1>4, NoOutputIsNone DEF Notify, NotifyAll
<1>5. ASSUME NEW o \in Output, Start(o) PROVE SleepsUpToDate' /\ DrawnUpToDate'
  BY <1>5 DEF Start, NothingShownYet
<1>6. ASSUME NEW o \in Output, SpuriousWake(o) \/ BeginPaint(o)
      PROVE  SleepsUpToDate' /\ DrawnUpToDate'
  BY <1>6 DEF SpuriousWake, BeginPaint
<1>7. ASSUME NEW o \in Output, DrawLayers(o) PROVE SleepsUpToDate' /\ DrawnUpToDate'
  BY <1>7 DEF DrawLayers
<1>8. ASSUME NEW o \in Output, Present(o) PROVE SleepsUpToDate' /\ DrawnUpToDate'
  BY <1>8 DEF Present
<1>9. CASE UNCHANGED loopVars
  BY <1>9 DEF loopVars
<1> QED
  BY <1>1, <1>2, <1>3, <1>4, <1>5, <1>6, <1>7, <1>8, <1>9 DEF LoopNext, Main, Render

(* The render thread does not go to sleep on an old version: between the    *)
(* damage of a client and its next commit, a thread that sleeps after a     *)
(* frame has the committed version on the screen. This is why the screen    *)
(* lags by one request at most, provided that threads which can run do.     *)
THEOREM SleepsOnNothingOld == LoopSpec => []SleepsUpToDate
<1>1. LoopInit => SleepsUpToDate /\ DrawnUpToDate
  BY DEF LoopInit, SleepsUpToDate, DrawnUpToDate
<1>2. WakeInv /\ SleepsUpToDate /\ DrawnUpToDate /\ [LoopNext]_loopVars =>
        SleepsUpToDate' /\ DrawnUpToDate'
  BY UpToDateStep
<1> QED
  BY <1>1, <1>2, WakeAlways, PTL DEF LoopSpec

-----------------------------------------------------------------------------
(* The tree.                                                                *)

(* The cells cover the root, and no two of them the same point.             *)
Covered ==
  \A p \in Point : Responsible(Root, p) => \E c \in DOMAIN objects : Responsible(c, p)

Disjoint ==
  \A c, d \in DOMAIN objects, p \in Point : Responsible(c, p) /\ Responsible(d, p) => c = d

(* Every node is in the cell responsible for it, or is to be placed.        *)
InPlace == \A c \in DOMAIN objects, v \in Node : v \in objects[c] => Responsible(c, v.at)

Kept == \A v \in Node : v \in inserted <=> v \in todo \/ \E c \in DOMAIN objects : v \in objects[c]

Small ==
  \A c \in DOMAIN objects : Cardinality(objects[c]) < SPLIT_THRESHOLD \/ ~Divisible(c)

TreeInv == TreeTypeOK /\ Covered /\ Disjoint /\ InPlace /\ Kept /\ Small

-----------------------------------------------------------------------------
LEMMA RootIsCell == Root \in Cell
  BY TreeAssumption DEF Root, Cell

LEMMA NothingIsSmall == Cardinality({}) < SPLIT_THRESHOLD
  BY FS_EmptySet, TreeAssumption

LEMMA CornersAreNodes ==
  ASSUME IsFiniteSet(inserted), NEW r \in Damages
  PROVE  Corners(r) \subseteq Node /\ IsFiniteSet(Corners(r))
<1>1. Cardinality(inserted) \in Nat
  BY FS_CardinalityType
<1>2. r.x \in Int /\ r.y \in Int /\ r.w \in Int /\ r.h \in Int
  BY TreeAssumption
<1> DEFINE near == [n |-> Cardinality(inserted) + 1, at |-> [x |-> r.x, y |-> r.y]]
           far == [n |-> Cardinality(inserted) + 2, at |-> [x |-> r.x + r.w, y |-> r.y + r.h]]
<1>3. near \in Node /\ far \in Node
  BY <1>1, <1>2 DEF Node, Point
<1>4. Corners(r) = {near} \cup {far}
  BY DEF Corners
<1>5. IsFiniteSet({near}) /\ IsFiniteSet({far})
  BY FS_Singleton
<1> HIDE DEF near, far
<1>6. IsFiniteSet({near} \cup {far})
  BY <1>5, FS_Union
<1> QED
  BY <1>3, <1>4, <1>6

(* The leaves of a divided cell tile it.                                    *)
LEMMA QuartersTile ==
  ASSUME NEW c \in Cell, Divisible(c)
  PROVE  /\ Quarters(c) \subseteq Cell
         /\ \A p \in Point : Responsible(c, p) <=> \E q \in Quarters(c) : Responsible(q, p)
         /\ \A q, r \in Quarters(c), p \in Point :
              Responsible(q, p) /\ Responsible(r, p) => q = r
<1> DEFINE x == c.x1 + (c.x2 - c.x1) \div 2
           y == c.y1 + (c.y2 - c.y1) \div 2
<1>1. \A w \in Nat : w \div 2 \in Nat /\ w \div 2 <= w
  OBVIOUS
<1>2. /\ c.x1 \in Int /\ c.x2 \in Int /\ c.y1 \in Int /\ c.y2 \in Int
      /\ c.x2 - c.x1 \in Nat /\ c.y2 - c.y1 \in Nat
  BY TreeAssumption DEF Cell, Divisible
<1>3. x \in Int /\ y \in Int /\ c.x1 <= x /\ x <= c.x2 /\ c.y1 <= y /\ y <= c.y2
  BY <1>1, <1>2
<1>4. Quarters(c) = {[x1 |-> c.x1, y1 |-> c.y1, x2 |-> x,    y2 |-> y],
                     [x1 |-> x,    y1 |-> c.y1, x2 |-> c.x2, y2 |-> y],
                     [x1 |-> x,    y1 |-> y,    x2 |-> c.x2, y2 |-> c.y2],
                     [x1 |-> c.x1, y1 |-> y,    x2 |-> x,    y2 |-> c.y2]}
  BY DEF Quarters
<1> HIDE DEF x, y
<1>5. Quarters(c) \subseteq Cell
  BY <1>2, <1>3, <1>4 DEF Cell
<1>6. ASSUME NEW p \in Point
      PROVE  Responsible(c, p) <=> \E q \in Quarters(c) : Responsible(q, p)
  BY <1>2, <1>3, <1>4 DEF Responsible, Point
<1>7. ASSUME NEW q \in Quarters(c), NEW r \in Quarters(c), NEW p \in Point,
             Responsible(q, p), Responsible(r, p)
      PROVE  q = r
  BY <1>2, <1>3, <1>4, <1>7 DEF Responsible, Point
<1> QED
  BY <1>5, <1>6, <1>7

LEMMA TreeInvInit == TreeInit => TreeInv
<1> SUFFICES ASSUME TreeInit PROVE TreeInv
  OBVIOUS
<1>1. DOMAIN objects = {Root} /\ objects[Root] = {} /\ todo = {} /\ inserted = {}
  BY DEF TreeInit
<1>2. TreeTypeOK
  BY <1>1, RootIsCell, FS_EmptySet DEF TreeInit, TreeTypeOK
<1> QED
  BY <1>1, <1>2, NothingIsSmall DEF TreeInv, Covered, Disjoint, InPlace, Kept, Small

LEMMA DamageStep == ASSUME TreeInv, NEW r \in Damages, DamageRegion(r) PROVE TreeInv'
<1>1. /\ todo = {} /\ objects' = objects
      /\ todo' \subseteq Corners(r) /\ inserted' = inserted \cup todo'
  BY DEF DamageRegion
<1>2. todo' \subseteq Node /\ IsFiniteSet(todo')
  BY <1>1, CornersAreNodes, FS_Subset DEF TreeInv, TreeTypeOK
<1>3. TreeTypeOK'
  BY <1>1, <1>2, FS_Union DEF TreeInv, TreeTypeOK
<1> QED
  BY <1>1, <1>3 DEF TreeInv, Covered, Disjoint, InPlace, Kept, Small

LEMMA InsertStep ==
  ASSUME TreeInv, NEW v \in todo, NEW c \in DOMAIN objects, Insert(v, c)
  PROVE  TreeInv'
<1>1. /\ objects' = [objects EXCEPT ![c] = objects[c] \cup {v}]
      /\ todo' = todo \ {v} /\ inserted' = inserted
      /\ Responsible(c, v.at) /\ Stays(c, v) /\ v \in Node
  BY DEF Insert, TreeInv, TreeTypeOK
<1>2. /\ DOMAIN objects' = DOMAIN objects /\ objects'[c] = objects[c] \cup {v}
      /\ \A d \in DOMAIN objects : d # c => objects'[d] = objects[d]
  BY <1>1
<1>3. TreeTypeOK'
  BY <1>1 DEF TreeInv, TreeTypeOK
<1>4. Covered' /\ Disjoint'
  BY <1>2 DEF TreeInv, Covered, Disjoint
<1>5. InPlace' /\ Kept'
  BY <1>1, <1>2 DEF TreeInv, InPlace, Kept
<1>6. Small'
  BY <1>1, <1>2 DEF TreeInv, Small, Stays
<1> QED
  BY <1>3, <1>4, <1>5, <1>6 DEF TreeInv

LEMMA DivideStep ==
  ASSUME TreeInv, NEW v \in todo, NEW c \in DOMAIN objects, Divide(v, c)
  PROVE  TreeInv'
<1>1. /\ DOMAIN objects' = (DOMAIN objects \ {c}) \cup Quarters(c)
      /\ \A d \in DOMAIN objects' :
           objects'[d] = IF d \in Quarters(c) THEN {} ELSE objects[d]
      /\ todo' = todo \cup objects[c] /\ inserted' = inserted
      /\ c \in Cell /\ Divisible(c)
  BY DEF Divide, Stays, TreeInv, TreeTypeOK
<1>2. /\ Quarters(c) \subseteq Cell
      /\ \A p \in Point : Responsible(c, p) <=> \E q \in Quarters(c) : Responsible(q, p)
      /\ \A q, r \in Quarters(c), p \in Point :
           Responsible(q, p) /\ Responsible(r, p) => q = r
  BY <1>1, QuartersTile
<1>3. TreeTypeOK'
  <2>1. objects' \in [DOMAIN objects' -> SUBSET Node]
    BY DEF Divide, TreeInv, TreeTypeOK
  <2> QED
    BY <1>1, <1>2, <2>1 DEF TreeInv, TreeTypeOK
<1>4. Covered'
  BY <1>1, <1>2 DEF TreeInv, Covered
<1>5. Disjoint'
  BY <1>1, <1>2 DEF TreeInv, Disjoint
<1>6. InPlace'
  BY <1>1 DEF TreeInv, InPlace
<1>7. ASSUME NEW d \in Quarters(c), d \in DOMAIN objects, d # c PROVE objects[d] = {}
  <2>1. ASSUME NEW u \in objects[d] PROVE FALSE
    <3>1. u \in Node /\ u.at \in Point /\ Responsible(d, u.at)
      BY <1>7 DEF TreeInv, TreeTypeOK, InPlace, Node
    <3> QED
      BY <1>2, <1>7, <3>1 DEF TreeInv, Disjoint
  <2> QED
    BY <2>1
<1>8. Kept'
  BY <1>1, <1>7 DEF TreeInv, Kept
<1>9. Small'
  BY <1>1, NothingIsSmall DEF TreeInv, Small
<1> QED
  BY <1>3, <1>4, <1>5, <1>6, <1>8, <1>9 DEF TreeInv

LEMMA ClearStep == ASSUME TreeInv, Clear PROVE TreeInv'
<1>1. /\ DOMAIN objects' = DOMAIN objects /\ \A c \in DOMAIN objects : objects'[c] = {}
      /\ todo = {} /\ todo' = {} /\ inserted' = {}
  BY DEF Clear
<1>2. TreeTypeOK'
  BY <1>1, FS_EmptySet DEF Clear, TreeInv, TreeTypeOK
<1> QED
  BY <1>1, <1>2, NothingIsSmall DEF TreeInv, Covered, Disjoint, InPlace, Kept, Small

LEMMA TreeInvStep == TreeInv /\ [TreeNext]_treeVars => TreeInv'
<1> SUFFICES ASSUME TreeInv, [TreeNext]_treeVars PROVE TreeInv'
  OBVIOUS
<1>1. CASE UNCHANGED treeVars
  BY <1>1 DEF treeVars, TreeInv, TreeTypeOK, Covered, Disjoint, InPlace, Kept, Small
<1> QED
  BY <1>1, DamageStep, InsertStep, DivideStep, ClearStep DEF TreeNext, Foremost

LEMMA TreeAlways == TreeSpec => []TreeInv
  BY TreeInvInit, TreeInvStep, PTL DEF TreeSpec

-----------------------------------------------------------------------------
(* The variables keep their types.                                          *)
THEOREM TreeTypeCorrect == TreeSpec => []TreeTypeOK
<1>1. TreeInv => TreeTypeOK
  BY DEF TreeInv
<1> QED
  BY <1>1, TreeAlways, PTL

(* insert() always finds the one leaf responsible for a point of the        *)
(* output: its assertion that the nodes were distributed holds.             *)
THEOREM OneCellForEachPoint == TreeSpec => []CellsTile
<1>1. TreeInv => CellsTile
  <2> SUFFICES ASSUME TreeInv, NEW x \in 0 .. Width - 1, NEW y \in 0 .. Height - 1
               PROVE  LET here == {c \in DOMAIN objects : Responsible(c, [x |-> x, y |-> y])}
                      IN \E c \in here : here = {c}
    BY DEF CellsTile
  <2> DEFINE p == [x |-> x, y |-> y]
  <2>1. p \in Point /\ Responsible(Root, p)
    BY TreeAssumption DEF Point, Responsible, Root
  <2> HIDE DEF p
  <2>2. PICK c \in DOMAIN objects : Responsible(c, p)
    BY <2>1 DEF TreeInv, Covered
  <2>3. {d \in DOMAIN objects : Responsible(d, p)} = {c}
    BY <2>1, <2>2 DEF TreeInv, Disjoint
  <2> QED
    BY <2>3 DEF p
<1> QED
  BY <1>1, TreeAlways, PTL

(* Damage is never lost in the tree, and never found twice: query() returns *)
(* what was inserted since the last frame and lies in its rectangle.        *)
THEOREM QueryIsComplete == TreeSpec => []QueryFindsDamage
<1>1. TreeInv => QueryFindsDamage
  <2> SUFFICES ASSUME TreeInv, todo = {}
               PROVE  /\ \A r \in Damages : Query(r) = {v \in inserted : Within(v.at, r)}
                      /\ \A c, d \in DOMAIN objects : c # d => objects[c] \cap objects[d] = {}
                      /\ \A c \in DOMAIN objects :
                           /\ \A v \in objects[c] : Responsible(c, v.at)
                           /\ Cardinality(objects[c]) < SPLIT_THRESHOLD \/ ~Divisible(c)
    BY DEF QueryFindsDamage
  <2>1. \A c \in DOMAIN objects : objects[c] \subseteq Node
    BY DEF TreeInv, TreeTypeOK
  <2>2. \A v \in Node : v.at \in Point
    BY DEF Node
  <2>3. UNION {objects[c] : c \in DOMAIN objects} = inserted
    BY <2>1 DEF TreeInv, TreeTypeOK, Kept
  <2>4. \A c \in DOMAIN objects : \A v \in objects[c] : Responsible(c, v.at)
    BY <2>1 DEF TreeInv, InPlace
  <2>5. \A c, d \in DOMAIN objects : c # d => objects[c] \cap objects[d] = {}
    BY <2>1, <2>2, <2>4 DEF TreeInv, Disjoint
  <2> QED
    BY <2>3, <2>4, <2>5 DEF TreeInv, Small, Query
<1> QED
  BY <1>1, TreeAlways, PTL

-----------------------------------------------------------------------------
(* Page flips.                                                              *)

(* What last_bo holds before the first flip names no buffer of the surface. *)
LastIsForeign == LastBos \cap Bos = {}

LEMMA FlipInvInit == LastIsForeign /\ FlipInit => FlipInv
<1> SUFFICES ASSUME LastIsForeign, FlipInit PROVE FlipInv
  OBVIOUS
<1>1. FlipTypeOK
  BY DEF FlipInit, Dark, FlipTypeOK
<1>2. NoDanglingFlip /\ OneEvent /\ WaitsForFlip
  BY DEF FlipInit, NoDanglingFlip, OnItsWay, OneEvent, WaitsForFlip
<1>3. BackIsHeld /\ ShowsBackOrLast
  BY DEF FlipInit, Dark, LastIsForeign, BackIsHeld, ShowsBackOrLast
<1> QED
  BY <1>1, <1>2, <1>3 DEF FlipInv

LEMMA FlipInvStep == LastIsForeign /\ FlipInv /\ [FlipNext]_flipVars => FlipInv'
<1> SUFFICES ASSUME LastIsForeign, FlipInv, [FlipNext]_flipVars PROVE FlipInv'
  OBVIOUS
<1> USE FlipAssumption DEF FlipInv, FlipTypeOK, Goes, Free, NoDanglingFlip, OnItsWay,
                           OneEvent, WaitsForFlip
<1>1. ASSUME NEW s \in Screens, Construct(s) PROVE FlipInv'
  <2>1. FlipTypeOK'
    BY <1>1 DEF Construct
  <2>2. NoDanglingFlip' /\ OneEvent' /\ WaitsForFlip'
    BY <1>1 DEF Construct
  <2>3. BackIsHeld'
    BY <1>1 DEF Construct, BackIsHeld
  <2>4. ShowsBackOrLast'
    BY <1>1 DEF Construct, BackIsHeld, ShowsBackOrLast
  <2> QED
    BY <2>1, <2>2, <2>3, <2>4
<1>2. ASSUME NEW s \in Screens, SetCrtc(s) PROVE FlipInv'
  <2>1. FlipTypeOK'
    BY <1>2 DEF SetCrtc
  <2>2. NoDanglingFlip' /\ OneEvent' /\ WaitsForFlip'
    BY <1>2 DEF SetCrtc
  <2>3. BackIsHeld'
    BY <1>2 DEF SetCrtc, BackIsHeld
  <2>4. ShowsBackOrLast'
    BY <1>2 DEF SetCrtc, BackIsHeld, ShowsBackOrLast
  <2> QED
    BY <2>1, <2>2, <2>3, <2>4
<1>3. ASSUME NEW s \in Screens, Draw(s) PROVE FlipInv'
  <2>1. FlipTypeOK'
    BY <1>3 DEF Draw
  <2>2. NoDanglingFlip' /\ OneEvent' /\ WaitsForFlip'
    BY <1>3 DEF Draw
  <2>3. BackIsHeld'
    BY <1>3 DEF Draw, BackIsHeld, LastIsForeign
  <2>4. ShowsBackOrLast'
    BY <1>3 DEF Draw, BackIsHeld, ShowsBackOrLast
  <2> QED
    BY <2>1, <2>2, <2>3, <2>4
<1>4. ASSUME NEW s \in Screens, SwapBuffers(s) PROVE FlipInv'
  <2>1. FlipTypeOK'
    BY <1>4 DEF SwapBuffers, BackIsHeld
  <2>2. NoDanglingFlip' /\ OneEvent' /\ WaitsForFlip'
    BY <1>4 DEF SwapBuffers
  <2>3. BackIsHeld'
    BY <1>4 DEF SwapBuffers, BackIsHeld
  <2>4. ShowsBackOrLast'
    BY <1>4 DEF SwapBuffers, BackIsHeld, ShowsBackOrLast
  <2> QED
    BY <2>1, <2>2, <2>3, <2>4
<1>5. ASSUME NEW s \in Screens, RequestFlip(s) PROVE FlipInv'
  <2>1. FlipTypeOK'
    BY <1>5 DEF RequestFlip
  <2>2. NoDanglingFlip' /\ OneEvent' /\ WaitsForFlip'
    BY <1>5 DEF RequestFlip
  <2>3. BackIsHeld'
    BY <1>5 DEF RequestFlip, BackIsHeld
  <2>4. ShowsBackOrLast'
    BY <1>5 DEF RequestFlip, BackIsHeld, ShowsBackOrLast
  <2> QED
    BY <2>1, <2>2, <2>3, <2>4
<1>6. ASSUME NEW s \in Screens, Throws(s) PROVE FlipInv'
  <2>1. FlipTypeOK'
    BY <1>6 DEF Throws
  <2>2. NoDanglingFlip' /\ OneEvent' /\ WaitsForFlip'
    BY <1>6 DEF Throws
  <2>3. BackIsHeld'
    BY <1>6 DEF Throws, BackIsHeld
  <2>4. ShowsBackOrLast'
    BY <1>6 DEF Throws, BackIsHeld, ShowsBackOrLast
  <2> QED
    BY <2>1, <2>2, <2>3, <2>4
<1>7. ASSUME NEW s \in Screens, ReadEvents(s) PROVE FlipInv'
  <2>1. FlipTypeOK'
    BY <1>7 DEF ReadEvents
  <2>2. NoDanglingFlip' /\ OneEvent' /\ WaitsForFlip'
    BY <1>7 DEF ReadEvents
  <2>3. BackIsHeld'
    BY <1>7 DEF ReadEvents, BackIsHeld
  <2>4. ShowsBackOrLast'
    BY <1>7 DEF ReadEvents, BackIsHeld, ShowsBackOrLast
  <2> QED
    BY <2>1, <2>2, <2>3, <2>4
<1>8. ASSUME NEW s \in Screens, HandleEvent(s) PROVE FlipInv'
  <2>1. FlipTypeOK'
    BY <1>8 DEF HandleEvent
  <2>2. NoDanglingFlip' /\ OneEvent' /\ WaitsForFlip'
    BY <1>8 DEF HandleEvent
  <2>3. BackIsHeld'
    BY <1>8 DEF HandleEvent, BackIsHeld
  <2>4. ShowsBackOrLast'
    BY <1>8 DEF HandleEvent, BackIsHeld, ShowsBackOrLast
  <2> QED
    BY <2>1, <2>2, <2>3, <2>4
<1>9. ASSUME NEW s \in Screens, HandledAll(s) PROVE FlipInv'
  <2>1. FlipTypeOK'
    BY <1>9 DEF HandledAll
  <2>2. NoDanglingFlip' /\ OneEvent' /\ WaitsForFlip'
    BY <1>9 DEF HandledAll
  <2>3. BackIsHeld'
    BY <1>9 DEF HandledAll, BackIsHeld
  <2>4. ShowsBackOrLast'
    BY <1>9 DEF HandledAll, BackIsHeld, ShowsBackOrLast
  <2> QED
    BY <2>1, <2>2, <2>3, <2>4
<1>10. ASSUME NEW s \in Screens, FlipReturns(s) PROVE FlipInv'
  <2>1. FlipTypeOK'
    BY <1>10 DEF FlipReturns, BackIsHeld
  <2>2. NoDanglingFlip' /\ OneEvent' /\ WaitsForFlip'
    BY <1>10 DEF FlipReturns
  <2>3. BackIsHeld'
    BY <1>10 DEF FlipReturns, BackIsHeld
  <2>4. ShowsBackOrLast'
    BY <1>10 DEF FlipReturns, BackIsHeld, ShowsBackOrLast
  <2> QED
    BY <2>1, <2>2, <2>3, <2>4
<1>11. ASSUME NEW s \in Screens, VBlank(s) PROVE FlipInv'
  <2>1. FlipTypeOK'
    BY <1>11 DEF VBlank
  <2>2. NoDanglingFlip' /\ OneEvent' /\ WaitsForFlip'
    BY <1>11 DEF VBlank
  <2>3. BackIsHeld'
    BY <1>11 DEF VBlank, BackIsHeld
  <2>4. ShowsBackOrLast'
    BY <1>11 DEF VBlank, BackIsHeld, ShowsBackOrLast
  <2> QED
    BY <2>1, <2>2, <2>3, <2>4
<1>12. CASE UNCHANGED flipVars
  BY <1>12 DEF flipVars, BackIsHeld, ShowsBackOrLast
<1> QED
  BY <1>1, <1>2, <1>3, <1>4, <1>5, <1>6, <1>7, <1>8, <1>9, <1>10, <1>11, <1>12
     DEF FlipNext, Wait

LEMMA FlipAlways == ASSUME LastIsForeign PROVE FlipSpec => []FlipInv
<1>1. FlipInit => FlipInv
  BY FlipInvInit
<1>2. FlipInv /\ [FlipNext]_flipVars => FlipInv'
  BY FlipInvStep
<1> QED
  BY <1>1, <1>2, PTL DEF FlipSpec

(* The variables keep their types.                                          *)
THEOREM FlipTypeCorrect == ASSUME LastIsForeign PROVE FlipSpec => []FlipTypeOK
<1>1. FlipInv => FlipTypeOK
  BY DEF FlipInv
<1> QED
  BY <1>1, FlipAlways, PTL

(* A buffer that a flip put on display, or is about to, is locked: present()*)
(* releases the one before it only when the event of the flip has come.     *)
THEOREM ScanoutIsHeld == ASSUME LastIsForeign PROVE FlipSpec => []ScannedOutIsHeld
<1>1. FlipInv => ScannedOutIsHeld
  <2> SUFFICES ASSUME FlipInv, NEW s \in Screens
               PROVE  /\ flips[s] # NoBo => flips[s] \in locked[s]
                      /\ scanout[s].flip => scanout[s].bo \in locked[s]
    BY DEF ScannedOutIsHeld
  <2> QED
    BY DEF FlipInv, FlipTypeOK, NoDanglingFlip, OnItsWay, WaitsForFlip, BackIsHeld,
           ShowsBackOrLast
<1> QED
  BY <1>1, FlipAlways, PTL

(* The handler of an event finds the data of its flip, whichever thread has *)
(* read the event.                                                          *)
THEOREM FlipDataIsThere == ASSUME LastIsForeign PROVE FlipSpec => []NoDanglingFlip
<1>1. FlipInv => NoDanglingFlip
  BY DEF FlipInv
<1> QED
  BY <1>1, FlipAlways, PTL

(* What a thread waits for has come or is on its way.                       *)
FlipsAccounted ==
  \A s \in Screens :
    /\ stage[s] \in {"waiting", "handling"} => evData[s] # "none"
    /\ evData[s] = "waiting" => OnItsWay(s)

NoFlipLost ==
  \A s \in Screens :
    stage[s] \in {"waiting", "handling"} => evData[s] = "done" \/ OnItsWay(s)

LEMMA FlipsAccountedStep ==
  ASSUME FlipInv, FlipsAccounted, [FlipNext]_flipVars
  PROVE  FlipsAccounted'
<1> USE FlipAssumption DEF FlipInv, FlipTypeOK, Goes, OnItsWay, WaitsForFlip,
                           FlipsAccounted
<1>1. ASSUME NEW s \in Screens,
             Construct(s) \/ SetCrtc(s) \/ Draw(s) \/ SwapBuffers(s) \/ Throws(s)
      PROVE  FlipsAccounted'
  BY <1>1 DEF Construct, SetCrtc, Draw, SwapBuffers, Throws
<1>2. ASSUME NEW s \in Screens, RequestFlip(s) PROVE FlipsAccounted'
  BY <1>2 DEF RequestFlip, BackIsHeld
<1>3. ASSUME NEW s \in Screens, ReadEvents(s) PROVE FlipsAccounted'
  BY <1>3 DEF ReadEvents
<1>4. ASSUME NEW s \in Screens, HandleEvent(s) PROVE FlipsAccounted'
  BY <1>4 DEF HandleEvent
<1>5. ASSUME NEW s \in Screens, HandledAll(s) PROVE FlipsAccounted'
  BY <1>5 DEF HandledAll
<1>6. ASSUME NEW s \in Screens, FlipReturns(s) PROVE FlipsAccounted'
  BY <1>6 DEF FlipReturns
<1>7. ASSUME NEW s \in Screens, VBlank(s) PROVE FlipsAccounted'
  BY <1>7 DEF VBlank
<1>8. CASE UNCHANGED flipVars
  BY <1>8 DEF flipVars
<1> QED
  BY <1>1, <1>2, <1>3, <1>4, <1>5, <1>6, <1>7, <1>8 DEF FlipNext, Wait

(* No thread waits for an event that nobody will hand it: until its flag is *)
(* set, the flip is still to come, or its event is in the file or with a    *)
(* thread that is handling events, whichever thread reads it. What keeps    *)
(* swap_buffers() from waiting for ever, short of fairness.                 *)
THEOREM NoFlipIsLost == ASSUME LastIsForeign PROVE FlipSpec => []NoFlipLost
<1>1. FlipInit => FlipsAccounted
  BY DEF FlipInit, FlipsAccounted
<1>2. FlipInv /\ FlipsAccounted /\ [FlipNext]_flipVars => FlipsAccounted'
  BY FlipsAccountedStep
<1>3. FlipInv /\ FlipsAccounted => NoFlipLost
  BY DEF FlipInv, FlipTypeOK, FlipsAccounted, NoFlipLost
<1> QED
  BY <1>1, <1>2, <1>3, FlipAlways, PTL DEF FlipSpec

=============================================================================
