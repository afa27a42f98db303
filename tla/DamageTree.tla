----------------------------- MODULE DamageTree -----------------------------
(* The quad tree in which an output keeps its damage                        *)
(* (include/barock/core/quad_tree.hpp, output_t::damage_ in output.cpp).    *)
(* `objects' maps every cell that is not divided to the nodes it holds; the *)
(* cells that are divided hold nothing and need no place in the state.      *)
(* insert() calls itself for the nodes of a cell that it divides: `todo'    *)
(* holds the nodes its calls still have to place, and each call is a step.  *)
(* The caller holds the output's lock until the last of them returns, so    *)
(* that nothing else of the tree happens while todo has a node.             *)
(* A node is the point with a number of its own, because the tree keeps     *)
(* equal points apart; `inserted' is what the queries are judged against.   *)
EXTENDS Integers, FiniteSets

CONSTANTS
  Width, Height,      \* size of the mode the output is constructed with
  SPLIT_THRESHOLD, MIN_CELL_SIZE,
  Damages,            \* the regions that may be damaged, [x, y, w, h]
  MaxNodes            \* bound: nodes between two frames

ASSUME TreeAssumption ==
  /\ Width \in Nat /\ Height \in Nat
  /\ SPLIT_THRESHOLD \in Nat \ {0} /\ MIN_CELL_SIZE \in Nat
  /\ Damages \subseteq [x : Int, y : Int, w : Int, h : Int]
  /\ MaxNodes \in Nat

VARIABLES objects, todo, inserted

treeVars == <<objects, todo, inserted>>

Point == [x : Int, y : Int]
Cell == [x1 : Int, y1 : Int, x2 : Int, y2 : Int]
Node == [n : Nat, at : Point]

Root == [x1 |-> 0, y1 |-> 0, x2 |-> Width, y2 |-> Height]

(* The points a cell takes: its left and top edge, not its right and bottom. *)
Responsible(c, p) ==
  /\ c.x1 <= p.x /\ c.y1 <= p.y
  /\ p.x < c.x2  /\ p.y < c.y2

Divisible(c) ==
  /\ c.x2 - c.x1 > MIN_CELL_SIZE
  /\ c.y2 - c.y1 > MIN_CELL_SIZE

(* The four leaves of a cell; of an odd size the right and the bottom ones  *)
(* get the odd pixel.                                                       *)
Quarters(c) ==
  LET x == c.x1 + (c.x2 - c.x1) \div 2
      y == c.y1 + (c.y2 - c.y1) \div 2
  IN {[x1 |-> c.x1, y1 |-> c.y1, x2 |-> x,    y2 |-> y],
      [x1 |-> x,    y1 |-> c.y1, x2 |-> c.x2, y2 |-> y],
      [x1 |-> x,    y1 |-> y,    x2 |-> c.x2, y2 |-> c.y2],
      [x1 |-> c.x1, y1 |-> y,    x2 |-> x,    y2 |-> c.y2]}

TreeInit ==
  /\ objects = [c \in {Root} |-> {}]
  /\ todo = {}
  /\ inserted = {}

(* The two nodes of a damaged region: its near and its far corner.          *)
Corners(r) ==
  LET n == Cardinality(inserted)
  IN {[n |-> n + 1, at |-> [x |-> r.x, y |-> r.y]],
      [n |-> n + 2, at |-> [x |-> r.x + r.w, y |-> r.y + r.h]]}

(* damage() inserts both; insert() ignores a point outside the tree.        *)
DamageRegion(r) ==
  /\ todo = {}
  /\ Cardinality(inserted) + 2 <= MaxNodes
  /\ todo' = {v \in Corners(r) : Responsible(Root, v.at)}
  /\ inserted' = inserted \cup todo'
  /\ UNCHANGED objects

(* The node inserted next: those of a divided cell in the order in which    *)
(* they came to it, and the far corner of a region after the near one.      *)
Foremost == {v \in todo : \A u \in todo : v.n <= u.n}

Stays(c, v) == Cardinality(objects[c] \cup {v}) < SPLIT_THRESHOLD \/ ~Divisible(c)

(* A call of insert() that ends in the cell responsible for the node.       *)
Insert(v, c) ==
  /\ Responsible(c, v.at)
  /\ Stays(c, v)
  /\ objects' = [objects EXCEPT ![c] = @ \cup {v}]
  /\ todo' = todo \ {v}
  /\ UNCHANGED inserted

(* Mutant: the nodes of the divided cell are not inserted again.            *)
DivideLoses(v, c) ==
  /\ Responsible(c, v.at)
  /\ ~Stays(c, v)
  /\ objects' = [d \in (DOMAIN objects \ {c}) \cup Quarters(c) |->
                   IF d \in Quarters(c) THEN {} ELSE objects[d]]
  /\ UNCHANGED <<todo, inserted>>

(* One that reaches the threshold: the cell is divided, and its nodes are   *)
(* inserted again, each into the leaf responsible for it.                   *)
Divide(v, c) ==
  /\ Responsible(c, v.at)
  /\ ~Stays(c, v)
  /\ objects' = [d \in (DOMAIN objects \ {c}) \cup Quarters(c) |->
                   IF d \in Quarters(c) THEN {} ELSE objects[d]]
  /\ todo' = todo \cup objects[c]
  /\ UNCHANGED inserted

(* clear() at the end of a frame: the nodes go, the cells stay divided.     *)
Clear ==
  /\ todo = {}
  /\ inserted # {}
  /\ objects' = [c \in DOMAIN objects |-> {}]
  /\ inserted' = {}
  /\ UNCHANGED todo

Within(p, r) ==
  /\ r.x <= p.x /\ p.x <= r.x + r.w
  /\ r.y <= p.y /\ p.y <= r.y + r.h

(* query(): the nodes of all leaves that lie in the closed rectangle.       *)
Query(r) == {v \in UNION {objects[c] : c \in DOMAIN objects} : Within(v.at, r)}

TreeNext ==
  \/ \E r \in Damages : DamageRegion(r)
  \/ \E v \in Foremost, c \in DOMAIN objects : Insert(v, c) \/ Divide(v, c)
  \/ Clear

TreeSpec == TreeInit /\ [][TreeNext]_treeVars

-----------------------------------------------------------------------------
TreeTypeOK ==
  /\ DOMAIN objects \subseteq Cell
  /\ objects \in [DOMAIN objects -> SUBSET Node]
  /\ todo \subseteq Node
  /\ inserted \subseteq Node
  /\ IsFiniteSet(inserted)

(* Every point of the output has one cell that is responsible for it, so    *)
(* that insert() never fails to distribute a node on the leaves, as its     *)
(* assertion says (quad_tree.hpp:73).                                       *)
CellsTile ==
  \A x \in 0 .. Width - 1, y \in 0 .. Height - 1 :
    LET here == {c \in DOMAIN objects : Responsible(c, [x |-> x, y |-> y])}
    IN \E c \in here : here = {c}

(* While nobody inserts, a query returns all the damage of its rectangle    *)
(* and no other, whatever was divided meanwhile: each node inserted since   *)
(* the last frame is in one leaf, one that is responsible for its point,    *)
(* and a leaf that could be divided holds fewer nodes than the threshold.   *)
QueryFindsDamage ==
  todo = {} =>
    /\ \A r \in Damages : Query(r) = {v \in inserted : Within(v.at, r)}
    /\ \A c, d \in DOMAIN objects : c # d => objects[c] \cap objects[d] = {}
    /\ \A c \in DOMAIN objects : 
         /\ \A v \in objects[c] : Responsible(c, v.at)
         /\ Cardinality(objects[c]) < SPLIT_THRESHOLD \/ ~Divisible(c)

=============================================================================
