----------------------------- MODULE SurfaceTree ----------------------------
(* Subsurfaces (wl_subcompositor.cpp) and the walks over the tree they make *)
(* of a client's surfaces (surface.cpp, render/opengl.cpp): up by           *)
(* `subsurface', down by `children', two links that every commit copies.    *)
(* Of a buffer only its size is kept.  A surface lives as long as its       *)
(* client, for neither wl_surface.destroy nor wl_subsurface.destroy frees   *)
(* anything, so that the weak handles of the walks always lock.             *)
EXTENDS Integers, Sequences, FiniteSets, FiniteSetsExt

CONSTANTS
  Surfaces,       \* the surfaces of one client
  Offsets,        \* where set_position may put a subsurface, [x, y]
  Sizes,          \* sizes of buffers, [x, y]
  Places,         \* points that are looked up, [x, y]
  NoSurface,
  MaxSubsurfaces  \* bound: get_subsurface requests of the client

(* What a client sends and a user points at: points with two coordinates.  *)
Location == [x : Int, y : Int]

ASSUME SceneAssumption ==
  /\ NoSurface \notin Surfaces
  /\ MaxSubsurfaces \in Nat
  /\ Offsets \cup Sizes \cup Places \subseteq Location

VARIABLES
  subs,                       \* the subsurface objects, [surface, parent, at]
  children, stagedChildren,   \* surface -> list of subsurface objects
  sub, stagedSub,             \* surface -> its subsurface object, 0 for none
  size, stagedSize            \* surface -> size of its buffer, Nowhere for none

sceneVars == <<subs, children, stagedChildren, sub, stagedSub, size, stagedSize>>

Origin == [x |-> 0, y |-> 0]
Nowhere == [x |-> 0, y |-> 0]   \* the extent of a surface without a buffer

Plus(p, q) == [x |-> p.x + q.x, y |-> p.y + q.y]
Minus(p, q) == [x |-> p.x - q.x, y |-> p.y - q.y]

(* Points compare by both coordinates: one may be neither above nor below.  *)
AllLess(p, q) == p.x < q.x /\ p.y < q.y
AllAtMost(p, q) == p.x <= q.x /\ p.y <= q.y

SceneInit ==
  /\ subs = <<>>
  /\ children = [s \in Surfaces |-> <<>>] /\ stagedChildren = children
  /\ sub = [s \in Surfaces |-> 0] /\ stagedSub = sub
  /\ size = [s \in Surfaces |-> Nowhere] /\ stagedSize = size

-----------------------------------------------------------------------------
(* root(): up the tree until a surface is nobody's subsurface.              *)
RootOf[s \in Surfaces] == IF sub[s] = 0 THEN s ELSE RootOf[subs[sub[s]].parent]

(* position(): the sum of the positions on that way.                        *)
PositionOf[s \in Surfaces] ==
  IF sub[s] = 0 THEN Origin
  ELSE Plus(subs[sub[s]].at, PositionOf[subs[sub[s]].parent])

(* Every surface that draw() reaches from s, and where it draws it.         *)
DrawnFrom[s \in Surfaces] == [at \in Location |->
  {<<s, at>>} \cup
  UNION {DrawnFrom[subs[children[s][i]].surface][Plus(at, subs[children[s][i]].at)] :
           i \in DOMAIN children[s]}]

(* full_extent(): the sides of the box around all of them.                  *)
FullExtent(s) ==
  LET below == DrawnFrom[s][Origin]
      Side(near, far) == Max({0} \cup far) - Min({0} \cup near)
  IN [x |-> Side({d[2].x : d \in below}, {d[2].x + size[d[1]].x : d \in below}),
      y |-> Side({d[2].y : d \in below}, {d[2].y + size[d[1]].y : d \in below})]

(* lookup(): the first child that finds something at the point, else s      *)
(* itself if it is a subsurface and the point is on it.  The tests that     *)
(* skip a child are those of the code, not a test whether it could be hit.  *)
Lookup[s \in Surfaces] == [p \in Location |->
  LET Child(i) == subs[children[s][i]].surface
      at(i) == subs[sub[Child(i)]].at
      In(i) == Lookup[Child(i)][Minus(p, at(i))]
      found == {i \in DOMAIN children[s] :
                  /\ ~AllAtMost(p, at(i))
                  /\ ~AllLess(Plus(FullExtent(Child(i)), at(i)), p)
                  /\ In(i) # NoSurface}
      onIt == sub[s] # 0 /\ AllAtMost(Origin, p) /\ AllAtMost(p, size[s])
  IN IF found # {} THEN In(Min(found))
     ELSE IF onIt THEN subs[sub[s]].surface
     ELSE NoSurface]

-----------------------------------------------------------------------------
(* get_subsurface puts the new object into the parent's children and the    *)
(* child's place in both copies of the state; it tests neither whether the  *)
(* surface is a subsurface already nor whether the parent is below it.      *)
GetSubsurface(c, p) ==
  LET n == Len(subs) + 1
  IN /\ n <= MaxSubsurfaces
     /\ subs' = Append(subs, [surface |-> c, parent |-> p, at |-> Origin])
     /\ children' = [children EXCEPT ![p] = Append(@, n)]
     /\ stagedChildren' = [stagedChildren EXCEPT ![p] = Append(@, n)]
     /\ sub' = [sub EXCEPT ![c] = n]
     /\ stagedSub' = [stagedSub EXCEPT ![c] = n]
     /\ UNCHANGED <<size, stagedSize>>

(* set_position takes effect at once.                                       *)
SetSubsurfacePosition(n, p) ==
  /\ subs' = [subs EXCEPT ![n].at = p]
  /\ UNCHANGED <<children, stagedChildren, sub, stagedSub, size, stagedSize>>

AttachSize(s, z) ==
  /\ stagedSize' = [stagedSize EXCEPT ![s] = z]
  /\ UNCHANGED <<subs, children, stagedChildren, sub, stagedSub, size>>

(* Mutant: the subsurfaces are not copied back into the staged state.       *)
CommitForgets(s) ==
  /\ size' = [size EXCEPT ![s] = stagedSize[s]]
  /\ children' = [children EXCEPT ![s] = stagedChildren[s]]
  /\ sub' = [sub EXCEPT ![s] = stagedSub[s]]
  /\ stagedSize' = [stagedSize EXCEPT ![s] = Nowhere]
  /\ stagedChildren' = [stagedChildren EXCEPT ![s] = <<>>]
  /\ stagedSub' = stagedSub
  /\ UNCHANGED subs

(* A commit makes the staged state the state, and stages its subsurfaces,   *)
(* but not its buffer, again.                                               *)
CommitTree(s) ==
  /\ size' = [size EXCEPT ![s] = stagedSize[s]]
  /\ children' = [children EXCEPT ![s] = stagedChildren[s]]
  /\ sub' = [sub EXCEPT ![s] = stagedSub[s]]
  /\ stagedSize' = [stagedSize EXCEPT ![s] = Nowhere]
  /\ stagedChildren' = [stagedChildren EXCEPT ![s] = children'[s]]
  /\ stagedSub' = [stagedSub EXCEPT ![s] = sub'[s]]
  /\ UNCHANGED subs

(* wl_surface.destroy takes the buffer off, and no more.                    *)
DestroyContent(s) ==
  /\ size' = [size EXCEPT ![s] = Nowhere]
  /\ UNCHANGED <<subs, children, stagedChildren, sub, stagedSub, stagedSize>>

SceneNext ==
  \/ \E c, p \in Surfaces : GetSubsurface(c, p)
  \/ \E n \in DOMAIN subs, p \in Offsets : SetSubsurfacePosition(n, p)
  \/ \E s \in Surfaces : CommitTree(s) \/ DestroyContent(s)
  \/ \E s \in Surfaces, z \in Sizes : AttachSize(s, z)

SceneSpec == SceneInit /\ [][SceneNext]_sceneVars

-----------------------------------------------------------------------------
SceneTypeOK ==
  LET Extents == Sizes \cup {Nowhere}
      Ids == 1 .. Len(subs)
  IN /\ subs \in Seq([surface : Surfaces, parent : Surfaces, at : Offsets \cup {Origin}])
     /\ children \in [Surfaces -> Seq(Ids)]
     /\ stagedChildren \in [Surfaces -> Seq(Ids)]
     /\ sub \in [Surfaces -> Ids \cup {0}]
     /\ stagedSub \in [Surfaces -> Ids \cup {0}]
     /\ size \in [Surfaces -> Extents] /\ stagedSize \in [Surfaces -> Extents]

(* The links are what the client asked for, whatever was committed in       *)
(* between: each surface's children are the subsurfaces requested of it, in *)
(* the order of the requests, and its own place is the last one it got.     *)
LinksFollowRequests ==
  /\ stagedChildren = children /\ stagedSub = sub
  /\ \A s \in Surfaces :
       /\ {children[s][k] : k \in DOMAIN children[s]} = {i \in DOMAIN subs : subs[i].parent = s}
       /\ \A j, k \in DOMAIN children[s] : j < k => children[s][j] < children[s][k]
       /\ sub[s] # 0 => subs[sub[s]].surface = s
       /\ \A i \in DOMAIN subs : subs[i].surface = s => i <= sub[s]

(* What the comments in get_subsurface demand and nothing tests, lines      *)
(* 93-95 and 129-131: no surface gets a second subsurface object, and none  *)
(* becomes a subsurface of itself or of one of its descendants.             *)
AskedOnceEach ==
  \A i, j \in DOMAIN subs : subs[i].surface = subs[j].surface => i = j

NoneBelowItself ==
  \E level \in [Surfaces -> 0 .. Len(subs)] :
    \A i \in DOMAIN subs : level[subs[i].surface] < level[subs[i].parent]

(* The two ways through the tree agree, whatever was committed in between:  *)
(* each surface is drawn once with its root, at its position(); and what    *)
(* lookup() finds under the pointer is there, so that the coordinates the   *)
(* seat computes from position() are coordinates on that surface.  A client *)
(* that has asked for something else is drawn twice or without end.         *)
PointerMeetsWhatIsDrawn ==
  AskedOnceEach /\ NoneBelowItself =>
  \A r \in {s \in Surfaces : sub[s] = 0} :
    /\ DrawnFrom[r][Origin] =
         {<<s, PositionOf[s]>> : s \in {t \in Surfaces : RootOf[t] = r}}
    /\ \A p \in Places :
         LET s == Lookup[r][p]
             local == Minus(p, PositionOf[s])
         IN s # NoSurface =>
              /\ RootOf[s] = r
              /\ AllAtMost(Origin, local) /\ AllAtMost(local, size[s])

=============================================================================
