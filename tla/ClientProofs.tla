---------------------------- MODULE ClientProofs ----------------------------
(* Of two things a client builds with its requests: that the memory of a    *)
(* pool is mapped exactly as long as somebody owns the pool, and that its   *)
(* tree of surfaces is one for whoever walks it, drawing or looking for     *)
(* what is under the pointer.                                               *)
EXTENDS ShmPool, SurfaceTree, WellFoundedInduction, TLAPS

-----------------------------------------------------------------------------
(* Shared memory.                                                           *)

(* What is alive was created, in the pool it names.                         *)
Created ==
  /\ bound \subseteq created /\ created \subseteq Pools \cup Buffers
  /\ \A b \in Buffers : b \in created => poolOf[b] \in Pools \cap created
  /\ \A s \in Shown : {staged[s], attached[s]} \subseteq created \cup {Nothing}

(* A mapping is the region of one pool only, and has its own number, which  *)
(* MAP_FAILED does not.                                                     *)
OwnRegion ==
  /\ \A p \in Pools : p \in created => data[p] \in Region /\ data[p].id <= made
  /\ \A p, q \in Pools :
       p \in created /\ q \in created /\ data[p] = data[q] => p = q \/ data[p] = Failed
  /\ \A r \in regions : r \in Region /\ r.id <= made

(* While a pool is resized its old memory is unmapped.                      *)
Mapped(q) == PoolOwned(q) /\ (resizing # Nothing => q # resizing.pool)

MapsOwned ==
  /\ regions = {data[q] : q \in {p \in Pools : Mapped(p)}} \ {Failed}
  /\ resizing # Nothing => resizing.pool \in bound

ShmInv == ShmTypeOK /\ Created /\ OwnRegion /\ MapsOwned

-----------------------------------------------------------------------------
LEMMA OwnedIsCreated ==
  ASSUME ShmInv
  PROVE  /\ \A b \in Buffers : BufferOwned(b) => b \in created
         /\ \A p \in Pools : PoolOwned(p) => p \in created
<1>1. ASSUME NEW b \in Buffers, BufferOwned(b)
      PROVE  b \in created
  BY <1>1, ShmAssumption DEF ShmInv, Created, BufferOwned
<1>2. ASSUME NEW p \in Pools, PoolOwned(p)
      PROVE  p \in created
  BY <1>1, <1>2 DEF ShmInv, Created, PoolOwned
<1> QED
  BY <1>1, <1>2

LEMMA ShmInvInit == ShmInit => ShmInv
<1> SUFFICES ASSUME ShmInit PROVE ShmInv
  OBVIOUS
<1>1. ShmTypeOK
  BY DEF ShmInit, ShmTypeOK
<1>2. Created /\ OwnRegion
  BY DEF ShmInit, Created, OwnRegion
<1>3. \A p \in Pools : ~PoolOwned(p)
  BY ShmAssumption DEF ShmInit, PoolOwned, BufferOwned
<1>4. MapsOwned
  BY <1>3 DEF ShmInit, MapsOwned, Mapped
<1> QED
  BY <1>1, <1>2, <1>4 DEF ShmInv

(* Letting go of handles unmaps the pools that lost their last owner, and   *)
(* no other: two pools do not share a region.                               *)
LEMMA UnmapKeeps ==
  ASSUME ShmInv, ShmTypeOK', Created', UNCHANGED <<created, data, made>>,
         resizing = Nothing, resizing' = Nothing, Unmap, UNCHANGED reading,
         \A p \in Pools : PoolOwned(p)' => PoolOwned(p)
  PROVE  ShmInv'
<1> DEFINE lost == {q \in Pools : PoolOwned(q) /\ ~PoolOwned(q)'}
<1>1. regions' = regions \ {data[p] : p \in lost}
  BY DEF Unmap
<1>2. regions = {data[q] : q \in {p \in Pools : PoolOwned(p)}} \ {Failed}
  BY DEF ShmInv, MapsOwned, Mapped
<1>3. \A p, q \in Pools : PoolOwned(p) /\ PoolOwned(q) /\ data[p] = data[q]
                          => p = q \/ data[p] = Failed
  BY OwnedIsCreated DEF ShmInv, OwnRegion
<1>4. regions' = {data[q] : q \in {p \in Pools : PoolOwned(p)'}} \ {Failed}
  <2>1. ASSUME NEW r \in regions'
        PROVE  r # Failed /\ \E q \in Pools : PoolOwned(q)' /\ r = data[q]
    BY <1>1, <1>2, <2>1
  <2>2. ASSUME NEW q \in Pools, PoolOwned(q)', data[q] # Failed
        PROVE  data[q] \in regions'
    <3>1. PoolOwned(q) /\ data[q] \in regions
      BY <1>2, <2>2
    <3>2. data[q] \notin {data[p] : p \in lost}
      BY <1>3, <2>2, <3>1
    <3> QED
      BY <1>1, <3>1, <3>2
  <2> QED
    BY <2>1, <2>2
<1>5. OwnRegion'
  BY <1>1 DEF ShmInv, OwnRegion
<1>6. MapsOwned'
  <2>1. \A q \in Pools : Mapped(q)' <=> PoolOwned(q)'
    BY DEF Mapped
  <2>2. regions' = {data'[q] : q \in {p \in Pools : Mapped(p)'}} \ {Failed}
    BY <1>4, <2>1
  <2> QED
    BY <2>2 DEF MapsOwned
<1> QED
  BY <1>5, <1>6 DEF ShmInv

LEMMA ShmStep ==
  ASSUME ShmInv, ShmNext
  PROVE  ShmInv'
<1> USE DEF ShmInv
<1>1. ASSUME NEW p \in Pools, NEW z \in PoolSizes, CreatePool(p, z)
      PROVE  ShmInv'
  <2> DEFINE r == [id |-> made + 1, size |-> z]
  <2>1. /\ resizing = Nothing /\ p \notin created /\ made' = made + 1
        /\ data' = [data EXCEPT ![p] = r] /\ regions' = regions \cup {r}
        /\ created' = created \cup {p} /\ bound' = bound \cup {p}
        /\ UNCHANGED <<poolOf, staged, attached, resizing, reading>>
    BY <1>1 DEF CreatePool, MainThread, ShmTypeOK
  <2>2. r \in Region /\ r # Failed
    BY ShmAssumption DEF Region, Failed, ShmTypeOK
  <2>3. ShmTypeOK'
    BY <2>1, <2>2 DEF ShmTypeOK
  <2>4. Created'
    BY <2>1, ShmAssumption DEF Created
  <2>5. /\ data'[p] = r /\ \A q \in Pools : q # p => data'[q] = data[q]
        /\ \A q \in Pools : q \in created => data[q] # r
    BY <2>1 DEF ShmTypeOK, OwnRegion
  <2>6. OwnRegion'
    <3>1. made \in Nat
      BY DEF ShmTypeOK
    <3>2. ASSUME NEW q \in Pools, q \in created'
          PROVE  data'[q] \in Region /\ data'[q].id <= made'
      <4>1. CASE q = p
        BY <2>1, <2>2, <2>5, <3>1, <4>1
      <4>2. CASE q # p
        <5>1. data'[q] = data[q] /\ data[q] \in Region /\ data[q].id <= made
          BY <2>1, <2>5, <3>2, <4>2 DEF OwnRegion
        <5> QED
          BY <2>1, <3>1, <5>1 DEF Region
      <4> QED
        BY <4>1, <4>2
    <3>3. ASSUME NEW x \in regions'
          PROVE  x \in Region /\ x.id <= made'
      <4>1. CASE x \in regions
        BY <2>1, <3>1, <4>1 DEF OwnRegion, Region
      <4>2. CASE x = r
        BY <2>1, <2>2, <3>1, <4>2
      <4> QED
        BY <2>1, <4>1, <4>2
    <3>4. \A x, y \in Pools :
            x \in created' /\ y \in created' /\ data'[x] = data'[y]
              => x = y \/ data'[x] = Failed
      BY <2>1, <2>5 DEF OwnRegion
    <3> QED
      BY <3>2, <3>3, <3>4 DEF OwnRegion
  <2>7. \A q \in Pools : Mapped(q)' <=> Mapped(q) \/ q = p
    <3>1. \A b \in Buffers : BufferOwned(b)' <=> BufferOwned(b)
      BY <2>1, ShmAssumption DEF BufferOwned
    <3> QED
      BY <2>1, <3>1 DEF Mapped, PoolOwned
  <2>8. regions' = {data'[q] : q \in {x \in Pools : Mapped(x)'}} \ {Failed}
    <3>1. ~Mapped(p)
      BY <2>1, OwnedIsCreated DEF Mapped
    <3> QED
      BY <2>1, <2>2, <2>5, <2>7, <3>1 DEF MapsOwned
  <2> QED
    BY <2>1, <2>3, <2>4, <2>6, <2>8 DEF MapsOwned
<1>2. ASSUME NEW p \in Pools, NEW b \in Buffers, CreateBuffer(p, b)
      PROVE  ShmInv'
  <2>1. /\ resizing = Nothing /\ p \in bound /\ b \notin created
        /\ poolOf' = [poolOf EXCEPT ![b] = p]
        /\ created' = created \cup {b} /\ bound' = bound \cup {b}
        /\ UNCHANGED <<data, staged, attached, regions, made, resizing, reading>>
    BY <1>2 DEF CreateBuffer, MainThread
  <2>2. ShmTypeOK'
    BY <2>1 DEF ShmTypeOK
  <2>3. Created'
    BY <2>1 DEF Created, ShmTypeOK
  <2>4. OwnRegion'
    BY <2>1, ShmAssumption DEF OwnRegion
  <2>5. /\ poolOf'[b] = p /\ \A x \in Buffers : x # b => poolOf'[x] = poolOf[x]
        /\ ~BufferOwned(b) /\ b \notin Pools
    BY <2>1, OwnedIsCreated, ShmAssumption DEF ShmTypeOK
  <2>6. \A x \in Buffers : BufferOwned(x)' <=> BufferOwned(x) \/ x = b
    BY <2>1 DEF BufferOwned
  <2>7. \A q \in Pools : Mapped(q)' <=> Mapped(q)
    <3>1. \A q \in Pools : PoolOwned(q)' <=> PoolOwned(q)
      <4>1. PoolOwned(p) /\ PoolOwned(p)'
        BY <2>1 DEF PoolOwned
      <4>2. ASSUME NEW q \in Pools, q # p
            PROVE  PoolOwned(q)' <=> PoolOwned(q)
        BY <2>1, <2>5, <2>6, <4>2 DEF PoolOwned
      <4> QED
        BY <4>1, <4>2
    <3> QED
      BY <2>1, <3>1 DEF Mapped
  <2>8. MapsOwned'
    BY <2>1, <2>7 DEF MapsOwned
  <2> QED
    BY <2>2, <2>3, <2>4, <2>8
<1>3. ASSUME NEW r \in Pools \cup Buffers, DestroyResource(r)
      PROVE  ShmInv'
  <2>1. /\ resizing = Nothing
        /\ bound' = bound \ {r} /\ Unmap
        /\ UNCHANGED <<created, data, poolOf, staged, attached, made, resizing,
                       reading>>
    BY <1>3 DEF DestroyResource, MainThread
  <2>2. ShmTypeOK' /\ Created'
    BY <2>1 DEF ShmTypeOK, Created, Unmap
  <2>3. \A q \in Pools : PoolOwned(q)' => PoolOwned(q)
    BY <2>1 DEF PoolOwned, BufferOwned
  <2> QED
    BY <2>1, <2>2, <2>3, UnmapKeeps
<1>4. ASSUME NEW s \in Shown, NEW b \in Buffers, AttachBuffer(s, b)
      PROVE  ShmInv'
  <2>1. /\ resizing = Nothing
        /\ b \in bound /\ staged' = [staged EXCEPT ![s] = b] /\ Unmap
        /\ UNCHANGED <<bound, created, data, poolOf, attached, made, resizing,
                       reading>>
    BY <1>4 DEF AttachBuffer, MainThread
  <2>2. ShmTypeOK' /\ Created'
    BY <2>1 DEF ShmTypeOK, Created, Unmap
  <2>3. \A x \in Buffers : BufferOwned(x)' => BufferOwned(x)
    BY <2>1 DEF BufferOwned, ShmTypeOK
  <2>4. \A q \in Pools : PoolOwned(q)' => PoolOwned(q)
    BY <2>1, <2>3 DEF PoolOwned
  <2> QED
    BY <2>1, <2>2, <2>4, UnmapKeeps
<1>5. ASSUME NEW s \in Shown, CommitBuffer(s)
      PROVE  ShmInv'
  <2>1. /\ resizing = Nothing
        /\ attached' = [attached EXCEPT ![s] = staged[s]]
        /\ staged' = [staged EXCEPT ![s] = Nothing] /\ Unmap
        /\ UNCHANGED <<bound, created, data, poolOf, made, resizing, reading>>
    BY <1>5 DEF CommitBuffer, MainThread
  <2>2. ShmTypeOK' /\ Created'
    BY <2>1 DEF ShmTypeOK, Created, Unmap
  <2>3. \A x \in Buffers : BufferOwned(x)' => BufferOwned(x)
    BY <2>1, ShmAssumption DEF BufferOwned, ShmTypeOK
  <2>4. \A q \in Pools : PoolOwned(q)' => PoolOwned(q)
    BY <2>1, <2>3 DEF PoolOwned
  <2> QED
    BY <2>1, <2>2, <2>4, UnmapKeeps
<1>6. ASSUME NEW p \in Pools, NEW z \in PoolSizes, ResizeUnmaps(p, z)
      PROVE  ShmInv'
  <2>1. /\ resizing = Nothing
        /\ p \in bound /\ data[p] \in regions /\ regions' = regions \ {data[p]}
        /\ resizing' = [pool |-> p, size |-> z]
        /\ UNCHANGED <<bound, created, data, poolOf, staged, attached, made,
                       reading>>
    BY <1>6 DEF ResizeUnmaps, MainThread
  <2>2. resizing' \in [pool : Pools, size : Nat] /\ resizing' # Nothing
    BY <2>1, ShmAssumption
  <2>3. ShmTypeOK' /\ Created' /\ OwnRegion'
    BY <2>1, <2>2 DEF ShmTypeOK, Created, OwnRegion
  <2>4. \A q \in Pools : /\ PoolOwned(q)' <=> PoolOwned(q)
                         /\ Mapped(q) <=> PoolOwned(q)
                         /\ Mapped(q)' <=> PoolOwned(q) /\ q # p
    BY <2>1, <2>2 DEF Mapped, PoolOwned, BufferOwned
  <2>5. \A q \in Pools : PoolOwned(q) /\ data[q] = data[p] => q = p
    BY <2>1, OwnedIsCreated DEF OwnRegion, Created, MapsOwned
  <2>6. regions' = {data'[q] : q \in {x \in Pools : Mapped(x)'}} \ {Failed}
    BY <2>1, <2>4, <2>5 DEF MapsOwned
  <2> QED
    BY <2>1, <2>2, <2>3, <2>6 DEF MapsOwned
<1>7. CASE ResizeMaps
  <2> DEFINE p == resizing.pool
             r == [id |-> made + 1, size |-> resizing.size]
  <2>1. p \in Pools /\ p \in bound /\ r \in Region /\ r # Failed /\ resizing # Nothing
        /\ Failed \in Region
    BY <1>7 DEF ResizeMaps, ShmTypeOK, MapsOwned, Region, Failed
  <2>2. PICK x \in {r, Failed} :
             /\ made' = made + 1 /\ data' = [data EXCEPT ![p] = x]
             /\ regions' = regions \cup ({x} \ {Failed}) /\ resizing' = Nothing
             /\ UNCHANGED <<bound, created, poolOf, staged, attached, reading>>
    BY <1>7 DEF ResizeMaps
  <2>3. ShmTypeOK' /\ Created'
    BY <2>1, <2>2 DEF ShmTypeOK, Created
  <2>4. /\ data'[p] = x /\ \A q \in Pools : q # p => data'[q] = data[q]
        /\ \A q \in Pools : q \in created => data[q] # x \/ x = Failed
        /\ made \in Nat /\ x \in Region /\ x.id <= made + 1
    BY <2>1, <2>2 DEF ShmTypeOK, OwnRegion, Failed
  <2>5. OwnRegion'
    <3>1. ASSUME NEW q \in Pools, q \in created'
          PROVE  data'[q] \in Region /\ data'[q].id <= made'
      <4>1. CASE q = p
        BY <2>2, <2>4, <4>1
      <4>2. CASE q # p
        <5>1. data'[q] = data[q] /\ data[q] \in Region /\ data[q].id <= made
          BY <2>2, <2>4, <3>1, <4>2 DEF OwnRegion
        <5> QED
          BY <2>2, <2>4, <5>1 DEF Region
      <4> QED
        BY <4>1, <4>2
    <3>2. ASSUME NEW y \in regions'
          PROVE  y \in Region /\ y.id <= made'
      <4>1. CASE y \in regions
        BY <2>2, <2>4, <4>1 DEF OwnRegion, Region
      <4>2. CASE y = x
        BY <2>2, <2>4, <4>2
      <4> QED
        BY <2>2, <4>1, <4>2
    <3>3. \A y, z \in Pools :
            y \in created' /\ z \in created' /\ data'[y] = data'[z]
              => y = z \/ data'[y] = Failed
      BY <2>1, <2>2, <2>4 DEF OwnRegion
    <3> QED
      BY <3>1, <3>2, <3>3 DEF OwnRegion
  <2>6. \A q \in Pools : Mapped(q)' <=> Mapped(q) \/ q = p
    BY <2>1, <2>2 DEF Mapped, PoolOwned, BufferOwned
  <2>7. ~Mapped(p)
    BY <2>1 DEF Mapped
  <2>8. regions' = {data'[q] : q \in {y \in Pools : Mapped(y)'}} \ {Failed}
    BY <2>1, <2>2, <2>4, <2>6, <2>7 DEF MapsOwned
  <2> QED
    BY <2>1, <2>2, <2>3, <2>5, <2>8 DEF MapsOwned
<1>8. ASSUME NEW s \in Shown, BeginUpload(s) \/ EndUpload(s)
      PROVE  ShmInv'
  <2>1. UNCHANGED <<bound, created, data, poolOf, staged, attached, regions, made,
                    resizing>>
    BY <1>8 DEF BeginUpload, EndUpload
  <2>2. reading' \in [Shown -> Region \cup {Nothing}]
    <3>1. CASE EndUpload(s)
      BY <3>1 DEF EndUpload, ShmTypeOK
    <3>2. CASE BeginUpload(s)
      <4>1. attached[s] \in Buffers \cap created
        BY <3>2 DEF BeginUpload, ShmTypeOK, Created
      <4>2. data[poolOf[attached[s]]] \in Region \cup {Nothing}
        BY <4>1 DEF ShmTypeOK, Created
      <4> QED
        BY <3>2, <4>2 DEF BeginUpload, ShmTypeOK
    <3> QED
      BY <1>8, <3>1, <3>2
  <2>3. ShmTypeOK' /\ Created' /\ OwnRegion'
    BY <2>1, <2>2 DEF ShmTypeOK, Created, OwnRegion
  <2>4. \A q \in Pools : Mapped(q)' <=> Mapped(q)
    BY <2>1 DEF Mapped, PoolOwned, BufferOwned
  <2>5. MapsOwned'
    BY <2>1, <2>4 DEF MapsOwned
  <2> QED
    BY <2>3, <2>5
<1> QED
  BY <1>1, <1>2, <1>3, <1>4, <1>5, <1>6, <1>7, <1>8 DEF ShmNext

LEMMA ShmAlways == ShmSpec => []ShmInv
<1>1. ASSUME ShmInv, UNCHANGED shmVars
      PROVE  ShmInv'
  BY <1>1 DEF shmVars, ShmInv, ShmTypeOK, Created, OwnRegion, MapsOwned, Mapped,
              PoolOwned, BufferOwned
<1>2. ShmInv /\ [ShmNext]_shmVars => ShmInv'
  BY <1>1, ShmStep
<1> QED
  BY <1>2, ShmInvInit, PTL DEF ShmSpec

(* The type invariant, with overlapping uploads and failing mappings.       *)
THEOREM ShmTypeCorrect == ShmSpec => []ShmTypeOK
<1>1. ShmInv => ShmTypeOK
  BY DEF ShmInv
<1> QED
  BY <1>1, ShmAlways, PTL

(* Whatever the order in which a client destroys pools and buffers, resizes *)
(* pools and shows buffers, whichever mappings the system refuses and       *)
(* whatever overlaps an upload, the memory that is mapped is that of the    *)
(* pools which are still owned, and what a surface still shows stays mapped *)
(* under an upload unless its pool is resized.                              *)
THEOREM ShmMappedWhileOwned == ShmSpec => []MappingOutlivesBuffers
<1>1. ASSUME ShmInv PROVE MappingOutlivesBuffers
  <2>1. resizing = Nothing =>
          regions = {data[p] : p \in {q \in Pools : PoolOwned(q)}} \ {Failed}
    BY <1>1 DEF ShmInv, MapsOwned, Mapped
  <2>2. ASSUME NEW s \in Shown, NEW b \in Buffers,
               reading[s] \notin {Nothing, Failed},
               attached[s] = b, reading[s] = data[poolOf[b]],
               resizing # Nothing => resizing.pool # poolOf[b]
        PROVE  reading[s] \in regions
    <3>1. poolOf[b] \in Pools
      BY <1>1, <2>2, ShmAssumption DEF ShmInv, Created
    <3>2. Mapped(poolOf[b])
      BY <2>2, <3>1 DEF Mapped, PoolOwned, BufferOwned
    <3> QED
      BY <1>1, <2>2, <3>1, <3>2 DEF ShmInv, MapsOwned
  <2> QED
    BY <2>1, <2>2 DEF MappingOutlivesBuffers
<1> QED
  BY <1>1, ShmAlways, PTL


-----------------------------------------------------------------------------
(* The tree of surfaces.                                                    *)

(* Of levels that are natural numbers one is the least.                     *)
LEMMA LeastLevel ==
  ASSUME NEW S, NEW level \in [S -> Nat], NEW T \in SUBSET S, T # {}
  PROVE  \E s \in T : \A t \in T : level[s] <= level[t]
<1> DEFINE less == {p \in Nat \X Nat : p[1] < p[2]}
<1> DEFINE L == {level[s] : s \in T}
<1>1. IsWellFoundedOn(less, Nat)
  BY NatLessThanWellFounded DEF OpToRel
<1>2. L \subseteq Nat /\ L # {}
  OBVIOUS
<1>3. PICK x \in L : \A y \in L : ~(<<y, x>> \in less)
  <2> HIDE DEF less, L
  <2> QED
    BY <1>1, <1>2, WFMin
<1>4. ASSUME NEW y \in L PROVE x <= y
  <2>1. ~(y < x)
    <3>1. <<y, x>> \in Nat \X Nat /\ <<y, x>>[1] = y /\ <<y, x>>[2] = x
      BY <1>2
    <3> QED
      BY <1>3, <3>1
  <2> QED
    BY <1>2, <2>1
<1>5. PICK s \in T : level[s] = x
  OBVIOUS
<1> QED
  BY <1>4, <1>5

(* Two functions that agree wherever they agree below are the same.         *)
LEMMA LevelUnique ==
  ASSUME NEW S, NEW level \in [S -> Nat], NEW F, NEW H,
         F = [s \in S |-> F[s]], H = [s \in S |-> H[s]],
         \A s \in S : (\A t \in S : level[t] < level[s] => F[t] = H[t]) => F[s] = H[s]
  PROVE  F = H
<1> DEFINE T == {s \in S : F[s] # H[s]}
<1>1. T = {}
  <2> SUFFICES ASSUME T # {} PROVE FALSE
    OBVIOUS
  <2>1. PICK s \in T : \A t \in T : level[s] <= level[t]
    <3>1. T \in SUBSET S
      OBVIOUS
    <3> HIDE DEF T
    <3> QED
      BY <3>1, LeastLevel
  <2>2. \A t \in S : level[t] < level[s] => F[t] = H[t]
    BY <2>1
  <2> QED
    BY <2>1, <2>2
<1>2. \A s \in S : F[s] = H[s]
  BY <1>1
<1>3. [s \in S |-> F[s]] = [s \in S |-> H[s]]
  BY <1>2
<1> QED
  BY <1>3

(* A definition by recursion over levels: G says what the value at s is     *)
(* once the function is known below s.                                      *)
Steps(S, V, N, level, G) ==
  /\ V # {} /\ N \in Nat /\ level \in [S -> 0 .. N]
  /\ G \in [S -> [[S -> V] -> V]]
  /\ \A s \in S : \A f, g \in [S -> V] :
       (\A t \in S : level[t] < level[s] => f[t] = g[t]) => G[s][f] = G[s][g]

Solution(S, V, G, F) == F \in [S -> V] /\ \A s \in S : F[s] = G[s][F]

(* There is a function that satisfies it.                                   *)
LEMMA LevelRecursion ==
  ASSUME NEW S, NEW V, NEW N, NEW level, NEW G, Steps(S, V, N, level, G)
  PROVE  \E F : Solution(S, V, G, F)
<1> USE DEF Steps
<1> DEFINE Solves(F, n) == \A s \in S : level[s] < n => F[s] = G[s][F]
<1> DEFINE Solved(n) == \E F \in [S -> V] : Solves(F, n)
<1> DEFINE bad == {n \in 0 .. N + 1 : ~Solved(n)}
<1>1. Solved(0)
  <2>1. PICK v : v \in V
    OBVIOUS
  <2>2. [s \in S |-> v] \in [S -> V] /\ Solves([s \in S |-> v], 0)
    BY <2>1
  <2> HIDE DEF Solves
  <2> QED
    BY <2>2
<1>2. ASSUME NEW n \in Nat, Solved(n) PROVE Solved(n + 1)
  <2>1. PICK F \in [S -> V] : Solves(F, n)
    BY <1>2
  <2> DEFINE H == [s \in S |-> IF level[s] < n THEN F[s] ELSE G[s][F]]
  <2>2. H \in [S -> V] /\ \A s \in S : H[s] = IF level[s] < n THEN F[s] ELSE G[s][F]
    OBVIOUS
  <2>3. ASSUME NEW s \in S, level[s] < n + 1 PROVE H[s] = G[s][H]
    <3>1. \A t \in S : level[t] < level[s] => F[t] = H[t]
      BY <2>2, <2>3
    <3>2. G[s][F] = G[s][H]
      <4> HIDE DEF H, Solves
      <4> QED
        BY <2>2, <3>1
    <3>3. H[s] = G[s][F]
      BY <2>1, <2>2
    <3> QED
      BY <3>2, <3>3
  <2> QED
    BY <2>2, <2>3
<1>3. bad = {}
  <2> SUFFICES ASSUME bad # {} PROVE FALSE
    OBVIOUS
  <2>1. PICK n \in bad : \A k \in bad : n <= k
    <3>1. [k \in bad |-> k] \in [bad -> Nat]
      OBVIOUS
    <3>2. PICK n \in bad : \A k \in bad : [j \in bad |-> j][n] <= [j \in bad |-> j][k]
      <4> HIDE DEF bad
      <4> QED
        BY <3>1, LeastLevel
    <3> QED
      BY <3>2
  <2>2. n \in Nat /\ n # 0 /\ n - 1 \in Nat /\ n - 1 \notin bad /\ n - 1 \in 0 .. N + 1
    <3>1. n \in 0 .. N + 1 /\ ~Solved(n)
      OBVIOUS
    <3> HIDE DEF Solved
    <3>2. n # 0
      BY <1>1, <3>1
    <3>3. n - 1 \notin bad
      <4> HIDE DEF bad
      <4> QED
        BY <2>1, <3>1, <3>2
    <3> QED
      BY <3>1, <3>2, <3>3
  <2>3. Solved(n - 1)
    BY <2>2
  <2>4. Solved((n - 1) + 1)
    <3> HIDE DEF Solved
    <3> QED
      BY <1>2, <2>2, <2>3
  <2>5. (n - 1) + 1 = n
    BY <2>2
  <2> HIDE DEF Solved
  <2> QED
    BY <2>1, <2>4, <2>5
<1>4. Solved(N + 1)
  <2>1. N + 1 \in 0 .. N + 1
    OBVIOUS
  <2> HIDE DEF Solved
  <2> QED
    BY <1>3, <2>1
<1>5. \A s \in S : level[s] < N + 1
  OBVIOUS
<1> QED
  BY <1>4, <1>5 DEF Solution

Kept == [surface : Surfaces, parent : Surfaces, at : Location]

(* What a state of the tree has to be for the walks to end.                 *)
Linked ==
  /\ subs \in Seq(Kept)
  /\ children \in [Surfaces -> Seq(1 .. Len(subs))]
  /\ sub \in [Surfaces -> 0 .. Len(subs)]
  /\ size \in [Surfaces -> Location]
  /\ \A i \in DOMAIN subs, s \in Surfaces :
       /\ sub[s] = i <=> subs[i].surface = s
       /\ (\E k \in DOMAIN children[s] : children[s][k] = i) <=> subs[i].parent = s

(* A child is on a lower level than its parent: no surface is above itself. *)
Levels(N, level) ==
  /\ level \in [Surfaces -> 0 .. N]
  /\ \A i \in DOMAIN subs : level[subs[i].surface] < level[subs[i].parent]

Forest == \E N \in Nat : \E level : Levels(N, level)

ParentOf(s) == subs[sub[s]].parent
PlaceOf(s) == subs[sub[s]].at
ChildAt(s, i) == subs[children[s][i]].surface
PlaceAt(s, i) == subs[children[s][i]].at

(* Where the links of a surface lead, up and down.                          *)
LEMMA UpLink ==
  ASSUME Linked, NEW s \in Surfaces, sub[s] # 0
  PROVE  /\ ParentOf(s) \in Surfaces /\ PlaceOf(s) \in Location
         /\ sub[s] \in DOMAIN subs /\ subs[sub[s]].surface = s
         /\ \A N \in Nat : \A level : Levels(N, level) => level[s] < level[ParentOf(s)]
<1>1. sub[s] \in DOMAIN subs /\ subs[sub[s]] \in Kept
  BY DEF Linked
<1>2. subs[sub[s]].surface = s
  BY <1>1 DEF Linked
<1> QED
  BY <1>1, <1>2 DEF Kept, ParentOf, PlaceOf, Levels

LEMMA DownLink ==
  ASSUME Linked, NEW s \in Surfaces, NEW i \in DOMAIN children[s]
  PROVE  /\ ChildAt(s, i) \in Surfaces /\ PlaceAt(s, i) \in Location
         /\ sub[ChildAt(s, i)] # 0 /\ sub[ChildAt(s, i)] = children[s][i]
         /\ ParentOf(ChildAt(s, i)) = s /\ PlaceOf(ChildAt(s, i)) = PlaceAt(s, i)
         /\ \A N \in Nat : \A level : Levels(N, level) => level[ChildAt(s, i)] < level[s]
<1>1. children[s][i] \in DOMAIN subs /\ subs[children[s][i]] \in Kept
  BY DEF Linked
<1>2. subs[children[s][i]].parent = s
  BY <1>1 DEF Linked
<1>3. sub[ChildAt(s, i)] = children[s][i]
  BY <1>1 DEF Linked, ChildAt, Kept
<1>4. children[s][i] # 0
  BY DEF Linked
<1>5. ChildAt(s, i) \in Surfaces /\ PlaceAt(s, i) \in Location
  BY <1>1 DEF Kept, ChildAt, PlaceAt
<1>6. ParentOf(ChildAt(s, i)) = s /\ PlaceOf(ChildAt(s, i)) = PlaceAt(s, i)
  BY <1>2, <1>3 DEF PlaceAt, ParentOf, PlaceOf
<1>7. ASSUME NEW N \in Nat, NEW level, Levels(N, level) PROVE level[ChildAt(s, i)] < level[s]
  BY <1>1, <1>2, <1>7 DEF Levels, ChildAt
<1> QED
  BY <1>3, <1>4, <1>5, <1>6, <1>7

(* In any set of surfaces there is one with none of its children in the set, *)
(* and one whose parent is not in it: where an argument along it starts.    *)
LEMMA LowestOf ==
  ASSUME Linked, Forest, NEW T \in SUBSET Surfaces, T # {}
  PROVE  \E s \in T : \A i \in DOMAIN children[s] : ChildAt(s, i) \notin T
<1>0. PICK N \in Nat : \E level : Levels(N, level)
  BY DEF Forest
<1>1. PICK level : Levels(N, level)
  BY <1>0
<1>2. level \in [Surfaces -> Nat]
  BY <1>1 DEF Levels
<1>3. PICK s \in T : \A t \in T : level[s] <= level[t]
  BY <1>2, LeastLevel
<1>4. ASSUME NEW i \in DOMAIN children[s] PROVE ChildAt(s, i) \notin T
  <2>1. ChildAt(s, i) \in Surfaces /\ level[ChildAt(s, i)] < level[s]
    BY <1>1, DownLink
  <2>2. level[s] \in Nat /\ level[ChildAt(s, i)] \in Nat
    BY <1>2, <2>1
  <2> QED
    BY <1>3, <2>1, <2>2
<1> QED
  BY <1>4

LEMMA HighestOf ==
  ASSUME Linked, Forest, NEW T \in SUBSET Surfaces, T # {}
  PROVE  \E s \in T : sub[s] # 0 => ParentOf(s) \notin T
<1>0. PICK N \in Nat : \E level : Levels(N, level)
  BY DEF Forest
<1>1. PICK level : Levels(N, level)
  BY <1>0
<1> DEFINE up == [s \in Surfaces |-> N - level[s]]
<1>2. up \in [Surfaces -> Nat]
  BY <1>1 DEF Levels
<1>3. PICK s \in T : \A t \in T : up[s] <= up[t]
  <2> HIDE DEF up
  <2> QED
    BY <1>2, LeastLevel
<1>4. ASSUME sub[s] # 0 PROVE ParentOf(s) \notin T
  <2>1. ParentOf(s) \in Surfaces /\ up[ParentOf(s)] < up[s]
    BY <1>1, <1>4, UpLink DEF Levels
  <2> HIDE DEF up
  <2>2. up[s] \in Nat /\ up[ParentOf(s)] \in Nat
    BY <1>2, <2>1
  <2> QED
    BY <1>3, <2>1, <2>2
<1> QED
  BY <1>4

LEMMA IsChild ==
  ASSUME Linked, NEW s \in Surfaces, sub[s] # 0
  PROVE  \E i \in DOMAIN children[ParentOf(s)] :
           ChildAt(ParentOf(s), i) = s /\ PlaceAt(ParentOf(s), i) = PlaceOf(s)
<1>1. /\ ParentOf(s) \in Surfaces /\ sub[s] \in DOMAIN subs /\ subs[sub[s]].surface = s
  BY UpLink
<1>2. PICK i \in DOMAIN children[ParentOf(s)] : children[ParentOf(s)][i] = sub[s]
  BY <1>1 DEF Linked, ParentOf
<1> QED
  BY <1>1, <1>2 DEF ChildAt, PlaceAt, PlaceOf

(* root() ends, in a surface, whatever the number of surfaces.              *)
LEMMA RootEquation ==
  ASSUME Linked, Forest
  PROVE  /\ RootOf \in [Surfaces -> Surfaces]
         /\ \A s \in Surfaces : RootOf[s] = IF sub[s] = 0 THEN s ELSE RootOf[ParentOf(s)]
<1>0. PICK N \in Nat : \E level : Levels(N, level)
  BY DEF Forest
<1>1. PICK level : Levels(N, level)
  BY <1>0
<1> DEFINE up == [s \in Surfaces |-> N - level[s]]
<1> DEFINE G == [s \in Surfaces |-> [f \in [Surfaces -> Surfaces] |->
                   IF sub[s] = 0 THEN s ELSE f[ParentOf(s)]]]
<1>2. up \in [Surfaces -> 0 .. N]
  BY <1>1 DEF Levels
<1>3. G \in [Surfaces -> [[Surfaces -> Surfaces] -> Surfaces]]
  BY UpLink
<1>4. ASSUME NEW s \in Surfaces, NEW f \in [Surfaces -> Surfaces],
             NEW g \in [Surfaces -> Surfaces],
             \A t \in Surfaces : up[t] < up[s] => f[t] = g[t]
      PROVE  G[s][f] = G[s][g]
  <2>1. CASE sub[s] = 0
    BY <2>1
  <2>2. CASE sub[s] # 0
    <3>1. ParentOf(s) \in Surfaces /\ level[s] < level[ParentOf(s)]
      BY <1>1, <2>2, UpLink
    <3>2. up[ParentOf(s)] < up[s]
      BY <1>1, <3>1 DEF Levels
    <3>3. f[ParentOf(s)] = g[ParentOf(s)]
      BY <1>4, <3>1, <3>2
    <3> QED
      BY <2>2, <3>3
  <2> QED
    BY <2>1, <2>2
<1>5. CASE Surfaces = {}
  <2>1. \E H : H = [s \in Surfaces |-> IF sub[s] = 0 THEN s ELSE H[subs[sub[s]].parent]]
    BY <1>5
  <2>2. RootOf = [s \in Surfaces |-> IF sub[s] = 0 THEN s ELSE RootOf[subs[sub[s]].parent]]
    BY <2>1, Zenon DEF RootOf
  <2> QED
    BY <1>5, <2>2
<1>6. CASE Surfaces # {}
  <2>1. PICK F : Solution(Surfaces, Surfaces, G, F)
    <3>1. Steps(Surfaces, Surfaces, N, up, G)
      <4> HIDE DEF G, up
      <4> QED
        BY <1>2, <1>3, <1>4, <1>6 DEF Steps
    <3> HIDE DEF G, up
    <3> QED
      BY <3>1, LevelRecursion
  <2>2. F = [s \in Surfaces |-> IF sub[s] = 0 THEN s ELSE F[ParentOf(s)]]
    BY <2>1 DEF Solution
  <2>3. \E H : H = [s \in Surfaces |-> IF sub[s] = 0 THEN s ELSE H[subs[sub[s]].parent]]
    BY <2>2 DEF ParentOf
  <2>4. RootOf = [s \in Surfaces |-> IF sub[s] = 0 THEN s ELSE RootOf[subs[sub[s]].parent]]
    BY <2>3, Zenon DEF RootOf
  <2>5. /\ RootOf = [s \in Surfaces |-> RootOf[s]] /\ F = [s \in Surfaces |-> F[s]]
        /\ \A s \in Surfaces : RootOf[s] = IF sub[s] = 0 THEN s ELSE RootOf[ParentOf(s)]
    <3> DEFINE R == RootOf
    <3>1. R = [s \in Surfaces |-> IF sub[s] = 0 THEN s ELSE R[subs[sub[s]].parent]]
      BY <2>4
    <3> HIDE DEF R
    <3>2. R = [s \in Surfaces |-> R[s]]
      BY <3>1
    <3>3. \A s \in Surfaces : R[s] = IF sub[s] = 0 THEN s ELSE R[ParentOf(s)]
      BY <3>1 DEF ParentOf
    <3>4. F = [s \in Surfaces |-> F[s]]
      BY <2>1 DEF Solution
    <3> QED
      BY <3>2, <3>3, <3>4 DEF R
  <2>6. RootOf = F
    <3>1. ASSUME NEW s \in Surfaces, \A t \in Surfaces : up[t] < up[s] => RootOf[t] = F[t]
          PROVE  RootOf[s] = F[s]
      <4>1. CASE sub[s] = 0
        BY <2>2, <2>5, <4>1
      <4>2. CASE sub[s] # 0
        <5>1. ParentOf(s) \in Surfaces /\ up[ParentOf(s)] < up[s]
          BY <1>1, <4>2, UpLink DEF Levels
        <5> QED
          BY <2>2, <2>5, <3>1, <4>2, <5>1
      <4> QED
        BY <4>1, <4>2
    <3>2. up \in [Surfaces -> Nat]
      BY <1>2
    <3> HIDE DEF up
    <3> QED
      BY <2>5, <3>1, <3>2, LevelUnique
  <2> QED
    BY <2>1, <2>5, <2>6 DEF Solution
<1> QED
  BY <1>5, <1>6

LEMMA SameLocation ==
  ASSUME NEW p \in Location, NEW q \in Location, p.x = q.x, p.y = q.y
  PROVE  p = q
BY DEF Location

LEMMA Sums ==
  ASSUME NEW p \in Location, NEW q \in Location
  PROVE  /\ Plus(p, q) \in Location /\ Minus(p, q) \in Location
         /\ Plus(p, q).x = p.x + q.x /\ Plus(p, q).y = p.y + q.y
         /\ Minus(p, q).x = p.x - q.x /\ Minus(p, q).y = p.y - q.y
BY DEF Location, Plus, Minus

LEMMA OriginIsThere == Origin \in Location /\ Origin.x = 0 /\ Origin.y = 0
BY DEF Origin, Location

(* position() ends, in a point.                                             *)
LEMMA PositionEquation ==
  ASSUME Linked, Forest
  PROVE  /\ PositionOf \in [Surfaces -> Location]
         /\ \A s \in Surfaces :
              PositionOf[s] = IF sub[s] = 0 THEN Origin
                              ELSE Plus(PlaceOf(s), PositionOf[ParentOf(s)])
<1>0. PICK N \in Nat : \E level : Levels(N, level)
  BY DEF Forest
<1>1. PICK level : Levels(N, level)
  BY <1>0
<1> DEFINE up == [s \in Surfaces |-> N - level[s]]
<1> DEFINE G == [s \in Surfaces |-> [f \in [Surfaces -> Location] |->
                   IF sub[s] = 0 THEN Origin ELSE Plus(PlaceOf(s), f[ParentOf(s)])]]
<1>2. up \in [Surfaces -> 0 .. N] /\ up \in [Surfaces -> Nat]
  BY <1>1 DEF Levels
<1>3. ASSUME NEW s \in Surfaces, sub[s] # 0
      PROVE  ParentOf(s) \in Surfaces /\ up[ParentOf(s)] < up[s]
  BY <1>1, <1>3, UpLink DEF Levels
<1>4. G \in [Surfaces -> [[Surfaces -> Location] -> Location]]
  <2>1. ASSUME NEW s \in Surfaces, NEW f \in [Surfaces -> Location]
        PROVE  (IF sub[s] = 0 THEN Origin ELSE Plus(PlaceOf(s), f[ParentOf(s)])) \in Location
    BY OriginIsThere, UpLink, Sums
  <2> QED
    BY <2>1
<1>5. ASSUME NEW s \in Surfaces, NEW f \in [Surfaces -> Location],
             NEW g \in [Surfaces -> Location],
             \A t \in Surfaces : up[t] < up[s] => f[t] = g[t]
      PROVE  G[s][f] = G[s][g]
  <2>1. CASE sub[s] = 0
    BY <2>1
  <2>2. CASE sub[s] # 0
    <3>1. f[ParentOf(s)] = g[ParentOf(s)]
      BY <1>3, <1>5, <2>2
    <3> QED
      BY <2>2, <3>1
  <2> QED
    BY <2>1, <2>2
<1>6. PICK F : Solution(Surfaces, Location, G, F)
  <2>1. Steps(Surfaces, Location, N, up, G)
    <3> HIDE DEF G, up
    <3> QED
      BY <1>2, <1>4, <1>5, OriginIsThere DEF Steps
  <2> HIDE DEF G, up
  <2> QED
    BY <2>1, LevelRecursion
<1>7. F = [s \in Surfaces |-> IF sub[s] = 0 THEN Origin
                              ELSE Plus(subs[sub[s]].at, F[subs[sub[s]].parent])]
  BY <1>6 DEF Solution, ParentOf, PlaceOf
<1>8. PositionOf = [s \in Surfaces |-> IF sub[s] = 0 THEN Origin
                      ELSE Plus(subs[sub[s]].at, PositionOf[subs[sub[s]].parent])]
  BY <1>7, Zenon DEF PositionOf
<1> DEFINE P == PositionOf
<1>9. P = [s \in Surfaces |-> IF sub[s] = 0 THEN Origin
             ELSE Plus(subs[sub[s]].at, P[subs[sub[s]].parent])]
  BY <1>8
<1> HIDE DEF P
<1>10. /\ P = [s \in Surfaces |-> P[s]]
       /\ \A s \in Surfaces : P[s] = IF sub[s] = 0 THEN Origin
                                     ELSE Plus(PlaceOf(s), P[ParentOf(s)])
  BY <1>9 DEF ParentOf, PlaceOf
<1>11. P = F
  <2>1. ASSUME NEW s \in Surfaces, \A t \in Surfaces : up[t] < up[s] => P[t] = F[t]
        PROVE  P[s] = F[s]
    <3>1. F[s] = IF sub[s] = 0 THEN Origin ELSE Plus(PlaceOf(s), F[ParentOf(s)])
      BY <1>6 DEF Solution
    <3>2. CASE sub[s] = 0
      BY <1>10, <3>1, <3>2
    <3>3. CASE sub[s] # 0
      <4>1. P[ParentOf(s)] = F[ParentOf(s)]
        BY <1>3, <2>1, <3>3
      <4> QED
        BY <1>10, <3>1, <3>3, <4>1
    <3> QED
      BY <3>2, <3>3
  <2>2. F = [s \in Surfaces |-> F[s]]
    BY <1>6 DEF Solution
  <2> HIDE DEF up
  <2> QED
    BY <1>2, <1>10, <2>1, <2>2, LevelUnique
<1> QED
  BY <1>6, <1>10, <1>11 DEF Solution, P

Drawings == [Location -> SUBSET (Surfaces \X Location)]

(* draw() ends.                                                             *)
LEMMA DrawnEquation ==
  ASSUME Linked, Forest
  PROVE  /\ DrawnFrom \in [Surfaces -> Drawings]
         /\ \A s \in Surfaces, at \in Location :
              DrawnFrom[s][at] = {<<s, at>>} \cup
                UNION {DrawnFrom[ChildAt(s, i)][Plus(at, PlaceAt(s, i))] :
                         i \in DOMAIN children[s]}
<1>0. PICK N \in Nat : \E level : Levels(N, level)
  BY DEF Forest
<1>1. PICK level : Levels(N, level)
  BY <1>0
<1> DEFINE B(f, s, at) == {<<s, at>>} \cup
             UNION {f[ChildAt(s, i)][Plus(at, PlaceAt(s, i))] : i \in DOMAIN children[s]}
<1> DEFINE G == [s \in Surfaces |-> [f \in [Surfaces -> Drawings] |->
                   [at \in Location |-> B(f, s, at)]]]
<1>2. level \in [Surfaces -> 0 .. N] /\ level \in [Surfaces -> Nat]
  BY <1>1 DEF Levels
<1>3. ASSUME NEW s \in Surfaces, NEW i \in DOMAIN children[s]
      PROVE  /\ ChildAt(s, i) \in Surfaces /\ level[ChildAt(s, i)] < level[s]
             /\ PlaceAt(s, i) \in Location
  BY <1>1, DownLink
<1>4. G \in [Surfaces -> [[Surfaces -> Drawings] -> Drawings]]
  <2>1. ASSUME NEW s \in Surfaces, NEW f \in [Surfaces -> Drawings], NEW at \in Location
        PROVE  B(f, s, at) \in SUBSET (Surfaces \X Location)
    <3>1. ASSUME NEW i \in DOMAIN children[s]
          PROVE  f[ChildAt(s, i)][Plus(at, PlaceAt(s, i))] \in SUBSET (Surfaces \X Location)
      BY <1>3, Sums DEF Drawings
    <3> QED
      BY <3>1
  <2>2. ASSUME NEW s \in Surfaces, NEW f \in [Surfaces -> Drawings]
        PROVE  [at \in Location |-> B(f, s, at)] \in Drawings
    <3> HIDE DEF B
    <3> QED
      BY <2>1 DEF Drawings
  <2> HIDE DEF B
  <2> QED
    BY <2>2
<1>5. ASSUME NEW s \in Surfaces, NEW f, NEW g,
             \A t \in Surfaces : level[t] < level[s] => f[t] = g[t]
      PROVE  \A at \in Location : B(f, s, at) = B(g, s, at)
  BY <1>3, <1>5
<1>6. ASSUME NEW s \in Surfaces, NEW f \in [Surfaces -> Drawings],
             NEW g \in [Surfaces -> Drawings],
             \A t \in Surfaces : level[t] < level[s] => f[t] = g[t]
      PROVE  G[s][f] = G[s][g]
  <2> HIDE DEF B
  <2> QED
    BY <1>5, <1>6
<1>7. PICK F : Solution(Surfaces, Drawings, G, F)
  <2>1. Steps(Surfaces, Drawings, N, level, G)
    <3>1. [at \in Location |-> {}] \in Drawings
      BY DEF Drawings
    <3> HIDE DEF G
    <3> QED
      BY <1>2, <1>4, <1>6, <3>1 DEF Steps
  <2> HIDE DEF G
  <2> QED
    BY <2>1, LevelRecursion
<1>8. F = [s \in Surfaces |-> [at \in Location |->
             {<<s, at>>} \cup
             UNION {F[subs[children[s][i]].surface][Plus(at, subs[children[s][i]].at)] :
                      i \in DOMAIN children[s]}]]
  BY <1>7 DEF Solution, ChildAt, PlaceAt
<1>9. DrawnFrom = [s \in Surfaces |-> [at \in Location |->
        {<<s, at>>} \cup
        UNION {DrawnFrom[subs[children[s][i]].surface][Plus(at, subs[children[s][i]].at)] :
                 i \in DOMAIN children[s]}]]
  BY <1>8, Zenon DEF DrawnFrom
<1> DEFINE D == DrawnFrom
<1>10. D = [s \in Surfaces |-> [at \in Location |-> B(D, s, at)]]
  BY <1>9 DEF ChildAt, PlaceAt
<1> HIDE DEF D
<1>11. D = F
  <2>1. ASSUME NEW s \in Surfaces, \A t \in Surfaces : level[t] < level[s] => D[t] = F[t]
        PROVE  D[s] = F[s]
    <3>1. F[s] = [at \in Location |-> B(F, s, at)]
      BY <1>7 DEF Solution
    <3>2. D[s] = [at \in Location |-> B(D, s, at)]
      <4> HIDE DEF B
      <4> QED
        BY <1>10
    <3>3. \A at \in Location : B(D, s, at) = B(F, s, at)
      BY <1>5, <2>1
    <3> HIDE DEF B
    <3> QED
      BY <3>1, <3>2, <3>3
  <2>2. F = [s \in Surfaces |-> F[s]]
    BY <1>7 DEF Solution
  <2>3. D = [s \in Surfaces |-> D[s]]
    <3> HIDE DEF B
    <3> QED
      BY <1>10
  <2> QED
    BY <1>2, <2>1, <2>2, <2>3, LevelUnique
<1>12. D \in [Surfaces -> Drawings]
  BY <1>7, <1>11 DEF Solution
<1>13. ASSUME NEW s \in Surfaces, NEW at \in Location PROVE D[s][at] = B(D, s, at)
  <2> HIDE DEF B
  <2> QED
    BY <1>10
<1> QED
  BY <1>12, <1>13 DEF D

Finders == [Location -> Surfaces \cup {NoSurface}]

(* The body of lookup() at s, when f is what it answers below s.            *)
Within(f, s, p, i) == f[ChildAt(s, i)][Minus(p, subs[sub[ChildAt(s, i)]].at)]

Found(f, s, p) ==
  {i \in DOMAIN children[s] :
     /\ ~AllAtMost(p, subs[sub[ChildAt(s, i)]].at)
     /\ ~AllLess(Plus(FullExtent(ChildAt(s, i)), subs[sub[ChildAt(s, i)]].at), p)
     /\ Within(f, s, p, i) # NoSurface}

OnIt(s, p) == sub[s] # 0 /\ AllAtMost(Origin, p) /\ AllAtMost(p, size[s])

Answer(f, s, p) ==
  IF Found(f, s, p) # {} THEN Within(f, s, p, Min(Found(f, s, p)))
  ELSE IF OnIt(s, p) THEN subs[sub[s]].surface
  ELSE NoSurface

LEMMA LeastIsThere ==
  ASSUME NEW K \in SUBSET Nat, K # {}
  PROVE  Min(K) \in K
<1>1. [k \in K |-> k] \in [K -> Nat]
  OBVIOUS
<1>2. PICK n \in K : \A k \in K : [j \in K |-> j][n] <= [j \in K |-> j][k]
  BY <1>1, LeastLevel
<1>3. \E m \in K : \A k \in K : m <= k
  BY <1>2
<1> QED
  BY <1>3 DEF Min

LEMMA FirstFound ==
  ASSUME Linked, NEW s \in Surfaces, NEW p, NEW f, Found(f, s, p) # {}
  PROVE  /\ Min(Found(f, s, p)) \in DOMAIN children[s]
         /\ Within(f, s, p, Min(Found(f, s, p))) # NoSurface
<1>1. Found(f, s, p) \subseteq DOMAIN children[s] /\ Found(f, s, p) \subseteq Nat
  BY DEF Linked, Found
<1>2. Min(Found(f, s, p)) \in Found(f, s, p)
  BY <1>1, LeastIsThere
<1> QED
  BY <1>1, <1>2 DEF Found

(* lookup() ends, with a surface or none.                                   *)
LEMMA LookupEquation ==
  ASSUME Linked, Forest
  PROVE  /\ Lookup \in [Surfaces -> Finders]
         /\ \A s \in Surfaces, p \in Location : Lookup[s][p] = Answer(Lookup, s, p)
<1>0. PICK N \in Nat : \E level : Levels(N, level)
  BY DEF Forest
<1>1. PICK level : Levels(N, level)
  BY <1>0
<1> DEFINE G == [s \in Surfaces |-> [f \in [Surfaces -> Finders] |->
                   [p \in Location |-> Answer(f, s, p)]]]
<1>2. level \in [Surfaces -> 0 .. N] /\ level \in [Surfaces -> Nat]
  BY <1>1 DEF Levels
<1>3. ASSUME NEW s \in Surfaces, NEW i \in DOMAIN children[s]
      PROVE  /\ ChildAt(s, i) \in Surfaces /\ level[ChildAt(s, i)] < level[s]
             /\ subs[sub[ChildAt(s, i)]].at \in Location
  BY <1>1, DownLink DEF PlaceOf
<1>4. G \in [Surfaces -> [[Surfaces -> Finders] -> Finders]]
  <2>1. ASSUME NEW s \in Surfaces, NEW f \in [Surfaces -> Finders], NEW p \in Location
        PROVE  Answer(f, s, p) \in Surfaces \cup {NoSurface}
    <3>1. CASE Found(f, s, p) # {}
      <4>1. Min(Found(f, s, p)) \in DOMAIN children[s]
        BY <3>1, FirstFound
      <4>2. ASSUME NEW i \in DOMAIN children[s]
            PROVE  Within(f, s, p, i) \in Surfaces \cup {NoSurface}
        BY <1>3, Sums DEF Within, Finders
      <4> QED
        BY <3>1, <4>1, <4>2 DEF Answer
    <3>2. CASE Found(f, s, p) = {}
      <4>1. OnIt(s, p) => subs[sub[s]].surface = s
        BY UpLink DEF OnIt
      <4> QED
        BY <3>2, <4>1 DEF Answer
    <3> QED
      BY <3>1, <3>2
  <2>2. ASSUME NEW s \in Surfaces, NEW f \in [Surfaces -> Finders]
        PROVE  [p \in Location |-> Answer(f, s, p)] \in Finders
    BY <2>1 DEF Finders
  <2> QED
    BY <2>2
<1>5. ASSUME NEW s \in Surfaces, NEW f, NEW g, NEW p,
             \A t \in Surfaces : level[t] < level[s] => f[t] = g[t]
      PROVE  Answer(f, s, p) = Answer(g, s, p)
  <2>1. \A i \in DOMAIN children[s] : Within(f, s, p, i) = Within(g, s, p, i)
    BY <1>3, <1>5 DEF Within
  <2>2. Found(f, s, p) = Found(g, s, p)
    BY <2>1 DEF Found
  <2>3. CASE Found(f, s, p) # {}
    <3>1. Min(Found(f, s, p)) \in DOMAIN children[s]
      BY <2>3, FirstFound
    <3> QED
      BY <2>1, <2>2, <2>3, <3>1 DEF Answer
  <2>4. CASE Found(f, s, p) = {}
    BY <2>2, <2>4 DEF Answer
  <2> QED
    BY <2>3, <2>4
<1>6. ASSUME NEW s \in Surfaces, NEW f \in [Surfaces -> Finders],
             NEW g \in [Surfaces -> Finders],
             \A t \in Surfaces : level[t] < level[s] => f[t] = g[t]
      PROVE  G[s][f] = G[s][g]
  BY <1>5, <1>6
<1>7. PICK F : Solution(Surfaces, Finders, G, F)
  <2>1. Steps(Surfaces, Finders, N, level, G)
    <3>1. [p \in Location |-> NoSurface] \in Finders
      BY DEF Finders
    <3> HIDE DEF G
    <3> QED
      BY <1>2, <1>4, <1>6, <3>1 DEF Steps
  <2> HIDE DEF G
  <2> QED
    BY <2>1, LevelRecursion
<1>8. F = [s \in Surfaces |-> [p \in Location |-> Answer(F, s, p)]]
  BY <1>7 DEF Solution
<1>9. Lookup = CHOOSE H : H = [s \in Surfaces |-> [p \in Location |-> Answer(H, s, p)]]
  BY Zenon DEF Lookup, Answer, Found, Within, OnIt, ChildAt
<1>10. Lookup = [s \in Surfaces |-> [p \in Location |-> Answer(Lookup, s, p)]]
  BY <1>8, <1>9, Zenon
<1> DEFINE L == Lookup
<1>11. L = [s \in Surfaces |-> [p \in Location |-> Answer(L, s, p)]]
  BY <1>10
<1> HIDE DEF L
<1>12. L = F
  <2>1. ASSUME NEW s \in Surfaces, \A t \in Surfaces : level[t] < level[s] => L[t] = F[t]
        PROVE  L[s] = F[s]
    <3>1. F[s] = [p \in Location |-> Answer(F, s, p)]
      BY <1>8
    <3>2. L[s] = [p \in Location |-> Answer(L, s, p)]
      BY <1>11
    <3>3. \A p \in Location : Answer(L, s, p) = Answer(F, s, p)
      BY <1>5, <2>1
    <3> QED
      BY <3>1, <3>2, <3>3
  <2>2. F = [s \in Surfaces |-> F[s]]
    BY <1>7 DEF Solution
  <2>3. L = [s \in Surfaces |-> L[s]]
    BY <1>11
  <2> QED
    BY <1>2, <2>1, <2>2, <2>3, LevelUnique
<1>13. L \in [Surfaces -> Finders]
  BY <1>7, <1>12 DEF Solution
<1>14. ASSUME NEW s \in Surfaces, NEW p \in Location PROVE L[s][p] = Answer(L, s, p)
  BY <1>11
<1> QED
  BY <1>13, <1>14 DEF L

LEMMA PathsBelow ==
  ASSUME Linked, Forest, NEW s \in Surfaces, NEW i \in DOMAIN children[s]
  PROVE  /\ RootOf[ChildAt(s, i)] = RootOf[s]
         /\ PositionOf[ChildAt(s, i)] = Plus(PlaceAt(s, i), PositionOf[s])
BY DownLink, RootEquation, PositionEquation

(* What draw() reaches from s is of the tree of s, as far from where s is    *)
(* drawn as position() says.                                                 *)
LEMMA DrawnIsBelow ==
  ASSUME Linked, Forest
  PROVE  \A s \in Surfaces : \A at \in Location : \A d \in DrawnFrom[s][at] :
           /\ d \in Surfaces \X Location
           /\ RootOf[d[1]] = RootOf[s]
           /\ Minus(d[2], at) = Minus(PositionOf[d[1]], PositionOf[s])
<1> DEFINE Good(s) == \A at \in Location : \A d \in DrawnFrom[s][at] :
             /\ d \in Surfaces \X Location
             /\ RootOf[d[1]] = RootOf[s]
             /\ Minus(d[2], at) = Minus(PositionOf[d[1]], PositionOf[s])
<1> DEFINE bad == {s \in Surfaces : ~Good(s)}
<1>2. ASSUME NEW s \in Surfaces,
             \A i \in DOMAIN children[s] : Good(ChildAt(s, i))
      PROVE  Good(s)
  <2> SUFFICES ASSUME NEW at \in Location, NEW d \in DrawnFrom[s][at]
               PROVE  /\ d \in Surfaces \X Location
                      /\ RootOf[d[1]] = RootOf[s]
                      /\ Minus(d[2], at) = Minus(PositionOf[d[1]], PositionOf[s])
    OBVIOUS
  <2>1. CASE d = <<s, at>>
    <3>1. PositionOf[s] \in Location
      BY PositionEquation
    <3>2. Minus(at, at) = Minus(PositionOf[s], PositionOf[s])
      BY <3>1 DEF Minus, Location
    <3> QED
      BY <2>1, <3>2
  <2>2. ASSUME NEW i \in DOMAIN children[s],
               d \in DrawnFrom[ChildAt(s, i)][Plus(at, PlaceAt(s, i))]
        PROVE  /\ d \in Surfaces \X Location
               /\ RootOf[d[1]] = RootOf[s]
               /\ Minus(d[2], at) = Minus(PositionOf[d[1]], PositionOf[s])
    <3> DEFINE c == ChildAt(s, i)
    <3> DEFINE pl == PlaceAt(s, i)
    <3>1. c \in Surfaces /\ pl \in Location
      BY DownLink
    <3>2. Plus(at, pl) \in Location
      BY <3>1, Sums
    <3>3. /\ d \in Surfaces \X Location
          /\ RootOf[d[1]] = RootOf[c]
          /\ Minus(d[2], Plus(at, pl)) = Minus(PositionOf[d[1]], PositionOf[c])
      BY <1>2, <2>2, <3>2
    <3>4. RootOf[c] = RootOf[s] /\ PositionOf[c] = Plus(pl, PositionOf[s])
      BY PathsBelow
    <3>5. /\ d[1] \in Surfaces /\ d[2] \in Location
          /\ PositionOf[d[1]] \in Location /\ PositionOf[s] \in Location
      BY <3>3, PositionEquation
    <3> HIDE DEF c, pl
    <3>6. Minus(d[2], at) = Minus(PositionOf[d[1]], PositionOf[s])
      <4> DEFINE q == PositionOf[d[1]]
      <4> DEFINE r == PositionOf[s]
      <4> DEFINE e == d[2]
      <4>1. q \in Location /\ r \in Location /\ e \in Location
        BY <3>5
      <4>2. Minus(e, Plus(at, pl)) = Minus(q, Plus(pl, r))
        BY <3>3, <3>4
      <4> HIDE DEF q, r, e
      <4>3. /\ e.x - (at.x + pl.x) = q.x - (pl.x + r.x)
            /\ e.y - (at.y + pl.y) = q.y - (pl.y + r.y)
        BY <3>1, <4>1, <4>2 DEF Minus, Plus
      <4>4. Minus(e, at) = Minus(q, r)
        BY <3>1, <4>1, <4>3 DEF Minus, Location
      <4> QED
        BY <4>4 DEF q, r, e
    <3> QED
      BY <3>3, <3>4, <3>6
  <2>3. d = <<s, at>> \/ \E i \in DOMAIN children[s] :
                           d \in DrawnFrom[ChildAt(s, i)][Plus(at, PlaceAt(s, i))]
    <3> DEFINE D == DrawnFrom
    <3>1. D[s][at] = {<<s, at>>} \cup
                UNION {D[ChildAt(s, i)][Plus(at, PlaceAt(s, i))] : i \in DOMAIN children[s]}
      BY DrawnEquation
    <3>2. d \in D[s][at]
      OBVIOUS
    <3> HIDE DEF D
    <3>3. d = <<s, at>> \/ \E i \in DOMAIN children[s] :
                              d \in D[ChildAt(s, i)][Plus(at, PlaceAt(s, i))]
      BY <3>1, <3>2
    <3> QED
      BY <3>3 DEF D
  <2> QED
    BY <2>1, <2>2, <2>3
<1>3. bad = {}
  <2> SUFFICES ASSUME bad # {} PROVE FALSE
    OBVIOUS
  <2>1. PICK s \in bad : \A i \in DOMAIN children[s] : ChildAt(s, i) \notin bad
    <3>1. bad \in SUBSET Surfaces
      OBVIOUS
    <3> HIDE DEF bad
    <3> QED
      BY <3>1, LowestOf
  <2>2. s \in Surfaces /\ ~Good(s)
    OBVIOUS
  <2> HIDE DEF Good
  <2>3. \A i \in DOMAIN children[s] : Good(ChildAt(s, i))
    BY <2>1, <2>2, DownLink
  <2> QED
    BY <1>2, <2>2, <2>3
<1> QED
  BY <1>3

LEMMA DrawnMembers ==
  ASSUME Linked, Forest, NEW s \in Surfaces, NEW at \in Location, NEW d
  PROVE  d \in DrawnFrom[s][at] <=>
           \/ d = <<s, at>>
           \/ \E i \in DOMAIN children[s] :
                d \in DrawnFrom[ChildAt(s, i)][Plus(at, PlaceAt(s, i))]
<1> DEFINE D == DrawnFrom
<1>1. D[s][at] = {<<s, at>>} \cup
            UNION {D[ChildAt(s, i)][Plus(at, PlaceAt(s, i))] : i \in DOMAIN children[s]}
  BY DrawnEquation
<1> HIDE DEF D
<1>2. d \in D[s][at] <=>
        \/ d = <<s, at>>
        \/ \E i \in DOMAIN children[s] : d \in D[ChildAt(s, i)][Plus(at, PlaceAt(s, i))]
  BY <1>1
<1> QED
  BY <1>2 DEF D

(* With a surface, draw() reaches its children.                             *)
LEMMA DrawnWithChildren ==
  ASSUME Linked, Forest
  PROVE  \A s \in Surfaces : \A at \in Location : \A d \in DrawnFrom[s][at] :
           \A k \in DOMAIN children[d[1]] :
             <<ChildAt(d[1], k), Plus(d[2], PlaceAt(d[1], k))>> \in DrawnFrom[s][at]
<1> DEFINE Good(s) == \A at \in Location : \A d \in DrawnFrom[s][at] :
           \A k \in DOMAIN children[d[1]] :
             <<ChildAt(d[1], k), Plus(d[2], PlaceAt(d[1], k))>> \in DrawnFrom[s][at]
<1> DEFINE bad == {s \in Surfaces : ~Good(s)}
<1>2. ASSUME NEW s \in Surfaces,
             \A i \in DOMAIN children[s] : Good(ChildAt(s, i))
      PROVE  Good(s)
  <2> SUFFICES ASSUME NEW at \in Location, NEW d \in DrawnFrom[s][at],
                      NEW k \in DOMAIN children[d[1]]
               PROVE  <<ChildAt(d[1], k), Plus(d[2], PlaceAt(d[1], k))>> \in DrawnFrom[s][at]
    OBVIOUS
  <2>1. CASE d = <<s, at>>
    <3>1. /\ ChildAt(s, k) \in Surfaces /\ Plus(at, PlaceAt(s, k)) \in Location
          /\ k \in DOMAIN children[s]
      BY <2>1, DownLink, Sums
    <3>2. <<ChildAt(s, k), Plus(at, PlaceAt(s, k))>>
            \in DrawnFrom[ChildAt(s, k)][Plus(at, PlaceAt(s, k))]
      BY <3>1, DrawnMembers
    <3>3. <<ChildAt(s, k), Plus(at, PlaceAt(s, k))>> \in DrawnFrom[s][at]
      BY <3>1, <3>2, DrawnMembers
    <3> QED
      BY <2>1, <3>3
  <2>2. ASSUME NEW i \in DOMAIN children[s],
               d \in DrawnFrom[ChildAt(s, i)][Plus(at, PlaceAt(s, i))]
        PROVE  <<ChildAt(d[1], k), Plus(d[2], PlaceAt(d[1], k))>> \in DrawnFrom[s][at]
    <3>1. Plus(at, PlaceAt(s, i)) \in Location
      BY DownLink, Sums
    <3>2. <<ChildAt(d[1], k), Plus(d[2], PlaceAt(d[1], k))>>
            \in DrawnFrom[ChildAt(s, i)][Plus(at, PlaceAt(s, i))]
      BY <1>2, <2>2, <3>1
    <3> QED
      BY <3>2, DrawnMembers
  <2>3. d = <<s, at>> \/ \E i \in DOMAIN children[s] :
                           d \in DrawnFrom[ChildAt(s, i)][Plus(at, PlaceAt(s, i))]
    BY DrawnMembers
  <2> QED
    BY <2>1, <2>2, <2>3
<1>3. bad = {}
  <2> SUFFICES ASSUME bad # {} PROVE FALSE
    OBVIOUS
  <2>1. PICK s \in bad : \A i \in DOMAIN children[s] : ChildAt(s, i) \notin bad
    <3>1. bad \in SUBSET Surfaces
      OBVIOUS
    <3> HIDE DEF bad
    <3> QED
      BY <3>1, LowestOf
  <2>2. s \in Surfaces /\ ~Good(s)
    OBVIOUS
  <2> HIDE DEF Good
  <2>3. \A i \in DOMAIN children[s] : Good(ChildAt(s, i))
    BY <2>1, <2>2, DownLink
  <2> QED
    BY <1>2, <2>2, <2>3
<1> QED
  BY <1>3

(* Every surface is drawn with its root, where position() says.             *)
LEMMA TreeIsDrawn ==
  ASSUME Linked, Forest
  PROVE  \A s \in Surfaces : <<s, PositionOf[s]>> \in DrawnFrom[RootOf[s]][Origin]
<1> DEFINE Good(s) == <<s, PositionOf[s]>> \in DrawnFrom[RootOf[s]][Origin]
<1> DEFINE bad == {s \in Surfaces : ~Good(s)}
<1>3. ASSUME NEW s \in Surfaces, sub[s] = 0 PROVE Good(s)
  <2>1. RootOf[s] = s /\ PositionOf[s] = Origin
    BY <1>3, RootEquation, PositionEquation
  <2> QED
    BY <2>1, OriginIsThere, DrawnMembers
<1>4. ASSUME NEW s \in Surfaces, sub[s] # 0, Good(ParentOf(s)) PROVE Good(s)
  <2> DEFINE p == ParentOf(s)
  <2>1. p \in Surfaces /\ PlaceOf(s) \in Location
    BY <1>4, UpLink
  <2>2. PICK i \in DOMAIN children[p] : ChildAt(p, i) = s /\ PlaceAt(p, i) = PlaceOf(s)
    BY <1>4, IsChild
  <2>3. RootOf[s] = RootOf[p] /\ PositionOf[s] = Plus(PlaceOf(s), PositionOf[p])
    BY <1>4, RootEquation, PositionEquation
  <2>4. /\ RootOf[p] \in Surfaces /\ PositionOf[p] \in Location
    BY <2>1, RootEquation, PositionEquation
  <2>5. <<s, Plus(PositionOf[p], PlaceOf(s))>> \in DrawnFrom[RootOf[p]][Origin]
    <3>1. <<p, PositionOf[p]>> \in DrawnFrom[RootOf[p]][Origin]
      BY <1>4
    <3> DEFINE d == <<p, PositionOf[p]>>
    <3>2. d[1] = p /\ d[2] = PositionOf[p]
      OBVIOUS
    <3>3. <<ChildAt(d[1], i), Plus(d[2], PlaceAt(d[1], i))>> \in DrawnFrom[RootOf[p]][Origin]
      <4>1. i \in DOMAIN children[d[1]]
        BY <2>2, <3>2
      <4>2. d \in DrawnFrom[RootOf[p]][Origin]
        BY <3>1
      <4> HIDE DEF d, p
      <4> QED
        BY <2>4, <4>1, <4>2, OriginIsThere, DrawnWithChildren
    <3> HIDE DEF d
    <3> QED
      BY <2>2, <3>2, <3>3
  <2>6. Plus(PositionOf[p], PlaceOf(s)) = Plus(PlaceOf(s), PositionOf[p])
    BY <2>1, <2>4 DEF Plus, Location
  <2> QED
    BY <2>3, <2>5, <2>6
<1>5. bad = {}
  <2> SUFFICES ASSUME bad # {} PROVE FALSE
    OBVIOUS
  <2>1. PICK s \in bad : sub[s] # 0 => ParentOf(s) \notin bad
    <3>1. bad \in SUBSET Surfaces
      OBVIOUS
    <3> HIDE DEF bad
    <3> QED
      BY <3>1, HighestOf
  <2>2. s \in Surfaces /\ ~Good(s)
    OBVIOUS
  <2>3. sub[s] # 0
    BY <1>3, <2>2
  <2>6. Good(ParentOf(s))
    BY <2>1, <2>2, <2>3, UpLink
  <2> HIDE DEF Good
  <2> QED
    BY <1>4, <2>2, <2>3, <2>6
<1> QED
  BY <1>5

(* What lookup() finds from s is of the tree of s, and the point is on it.  *)
Hits(s, p, t) ==
  /\ t \in Surfaces /\ RootOf[t] = RootOf[s]
  /\ LET local == Minus(Plus(p, PositionOf[s]), PositionOf[t])
     IN AllAtMost(Origin, local) /\ AllAtMost(local, size[t])

LEMMA LookupHits ==
  ASSUME Linked, Forest
  PROVE  \A s \in Surfaces : \A p \in Location :
           Lookup[s][p] # NoSurface => Hits(s, p, Lookup[s][p])
<1> DEFINE Good(s) == \A p \in Location :
             Lookup[s][p] # NoSurface => Hits(s, p, Lookup[s][p])
<1> DEFINE bad == {s \in Surfaces : ~Good(s)}
<1>2. ASSUME NEW s \in Surfaces,
             \A i \in DOMAIN children[s] : Good(ChildAt(s, i))
      PROVE  Good(s)
  <2> SUFFICES ASSUME NEW p \in Location, Lookup[s][p] # NoSurface
               PROVE  Hits(s, p, Lookup[s][p])
    OBVIOUS
  <2>1. Lookup[s][p] = Answer(Lookup, s, p)
    BY LookupEquation
  <2>2. CASE Found(Lookup, s, p) # {}
    <3> DEFINE i == Min(Found(Lookup, s, p))
    <3>1. i \in DOMAIN children[s] /\ Within(Lookup, s, p, i) # NoSurface
      BY <2>2, FirstFound
    <3>2. Lookup[s][p] = Within(Lookup, s, p, i)
      BY <2>1, <2>2 DEF Answer
    <3> HIDE DEF i
    <3> DEFINE c == ChildAt(s, i)
    <3> DEFINE pl == PlaceAt(s, i)
    <3>3. c \in Surfaces /\ pl \in Location /\ subs[sub[c]].at = pl
      BY <3>1, DownLink DEF PlaceOf
    <3>4. Lookup[s][p] = Lookup[c][Minus(p, pl)] /\ Minus(p, pl) \in Location
      BY <3>2, <3>3, Sums DEF Within
    <3>5. Hits(c, Minus(p, pl), Lookup[s][p])
      BY <1>2, <3>1, <3>4
    <3>6. RootOf[c] = RootOf[s] /\ PositionOf[c] = Plus(pl, PositionOf[s])
      BY <3>1, PathsBelow
    <3>7. Plus(Minus(p, pl), PositionOf[c]) = Plus(p, PositionOf[s])
      <4>1. PositionOf[s] \in Location
        BY PositionEquation
      <4> HIDE DEF c, pl
      <4> QED
        BY <3>3, <3>6, <4>1 DEF Plus, Minus, Location
    <3> HIDE DEF c, pl
    <3> QED
      BY <3>5, <3>6, <3>7 DEF Hits
  <2>3. CASE Found(Lookup, s, p) = {}
    <3>1. OnIt(s, p) /\ Lookup[s][p] = subs[sub[s]].surface
      BY <2>1, <2>3 DEF Answer
    <3>2. Lookup[s][p] = s
      BY <3>1, UpLink DEF OnIt
    <3>3. PositionOf[s] \in Location
      BY PositionEquation
    <3>4. Minus(Plus(p, PositionOf[s]), PositionOf[s]) = p
      BY <3>3 DEF Plus, Minus, Location
    <3> QED
      BY <3>1, <3>2, <3>4 DEF Hits, OnIt
  <2> QED
    BY <2>2, <2>3
<1>3. bad = {}
  <2> SUFFICES ASSUME bad # {} PROVE FALSE
    OBVIOUS
  <2>1. PICK s \in bad : \A i \in DOMAIN children[s] : ChildAt(s, i) \notin bad
    <3>1. bad \in SUBSET Surfaces
      OBVIOUS
    <3> HIDE DEF bad
    <3> QED
      BY <3>1, LowestOf
  <2>2. s \in Surfaces /\ ~Good(s)
    OBVIOUS
  <2> HIDE DEF Good
  <2>3. \A i \in DOMAIN children[s] : Good(ChildAt(s, i))
    BY <2>1, <2>2, DownLink
  <2> QED
    BY <1>2, <2>2, <2>3
<1> QED
  BY <1>3

-----------------------------------------------------------------------------
SceneInv == SceneTypeOK /\ LinksFollowRequests

(* Requests as the comments demand them leave one link for each end.        *)
LEMMA SceneInvLinked == SceneInv /\ AskedOnceEach => Linked
<1> SUFFICES ASSUME SceneInv, AskedOnceEach PROVE Linked
  OBVIOUS
<1>1. SceneTypeOK /\ LinksFollowRequests
  BY DEF SceneInv
<1>2. Offsets \cup {Origin} \subseteq Location /\ Sizes \cup {Nowhere} \subseteq Location
  BY SceneAssumption DEF Origin, Nowhere, Location
<1>3. subs \in Seq(Kept)
  <2> DEFINE Sub == [surface : Surfaces, parent : Surfaces, at : Offsets \cup {Origin}]
  <2>1. ASSUME NEW o \in Sub PROVE o \in Kept
    BY <1>2 DEF Kept
  <2>2. subs \in Seq(Sub)
    BY <1>1 DEF SceneTypeOK
  <2> HIDE DEF Sub
  <2>3. /\ Len(subs) \in Nat /\ subs \in [1 .. Len(subs) -> Sub]
    BY <2>2
  <2>4. subs \in [1 .. Len(subs) -> Kept]
    BY <2>1, <2>3
  <2> QED
    BY <2>3, <2>4
<1>4. size \in [Surfaces -> Location]
  BY <1>1, <1>2 DEF SceneTypeOK
<1>5. children \in [Surfaces -> Seq(1 .. Len(subs))] /\ sub \in [Surfaces -> 0 .. Len(subs)]
  BY <1>1 DEF SceneTypeOK
<1>6. ASSUME NEW i \in DOMAIN subs, NEW s \in Surfaces
      PROVE  sub[s] = i <=> subs[i].surface = s
  <2>1. DOMAIN subs = 1 .. Len(subs) /\ Len(subs) \in Nat /\ sub[s] \in 0 .. Len(subs)
    BY <1>3, <1>5
  <2>2. sub[s] # 0 => subs[sub[s]].surface = s
    BY <1>1 DEF LinksFollowRequests
  <2>3. subs[i].surface = s => i <= sub[s]
    BY <1>1 DEF LinksFollowRequests
  <2>4. i # 0 /\ (i <= sub[s] => sub[s] # 0 /\ sub[s] \in DOMAIN subs)
    BY <2>1
  <2> QED
    BY <2>2, <2>3, <2>4 DEF AskedOnceEach
<1>7. ASSUME NEW i \in DOMAIN subs, NEW s \in Surfaces
      PROVE  (\E k \in DOMAIN children[s] : children[s][k] = i) <=> subs[i].parent = s
  <2>1. {children[s][k] : k \in DOMAIN children[s]} = {j \in DOMAIN subs : subs[j].parent = s}
    BY <1>1 DEF LinksFollowRequests
  <2> QED
    BY <2>1
<1> QED
  BY <1>3, <1>4, <1>5, <1>6, <1>7 DEF Linked

(* And they make a forest.                                                  *)
LEMMA NoneBelowItselfIsForest == SceneTypeOK /\ NoneBelowItself => Forest
<1> SUFFICES ASSUME SceneTypeOK, NoneBelowItself PROVE Forest
  OBVIOUS
<1>1. Len(subs) \in Nat
  BY DEF SceneTypeOK
<1>2. PICK level \in [Surfaces -> 0 .. Len(subs)] :
        \A i \in DOMAIN subs : level[subs[i].surface] < level[subs[i].parent]
  BY DEF NoneBelowItself
<1> QED
  BY <1>1, <1>2 DEF Forest, Levels

(* In a forest whose links agree, so do the walks.                          *)
LEMMA WalksAgree ==
  ASSUME Linked, Forest
  PROVE  PointerMeetsWhatIsDrawn
<1> SUFFICES ASSUME NEW r \in Surfaces, sub[r] = 0
             PROVE  /\ DrawnFrom[r][Origin] =
                         {<<s, PositionOf[s]>> : s \in {t \in Surfaces : RootOf[t] = r}}
                    /\ \A p \in Places :
                         LET s == Lookup[r][p]
                             local == Minus(p, PositionOf[s])
                         IN s # NoSurface =>
                              /\ RootOf[s] = r
                              /\ AllAtMost(Origin, local) /\ AllAtMost(local, size[s])
  BY DEF PointerMeetsWhatIsDrawn
<1>1. RootOf[r] = r /\ PositionOf[r] = Origin
  BY RootEquation, PositionEquation
<1>2. DrawnFrom[r][Origin] =
        {<<s, PositionOf[s]>> : s \in {t \in Surfaces : RootOf[t] = r}}
  <2>1. ASSUME NEW d \in DrawnFrom[r][Origin]
        PROVE  \E s \in Surfaces : RootOf[s] = r /\ d = <<s, PositionOf[s]>>
    <3>1. /\ d \in Surfaces \X Location /\ RootOf[d[1]] = r
          /\ Minus(d[2], Origin) = Minus(PositionOf[d[1]], Origin)
      BY <1>1, OriginIsThere, DrawnIsBelow
    <3>2. d[1] \in Surfaces /\ d[2] \in Location /\ PositionOf[d[1]] \in Location
      BY <3>1, PositionEquation
    <3>3. d[2] = PositionOf[d[1]]
      <4> DEFINE e == d[2]
      <4> DEFINE q == PositionOf[d[1]]
      <4>1. e \in Location /\ q \in Location /\ Minus(e, Origin) = Minus(q, Origin)
        BY <3>1, <3>2
      <4> HIDE DEF e, q
      <4>2. e = q
        BY <4>1, OriginIsThere, Sums, SameLocation DEF Location
      <4> QED
        BY <4>2 DEF e, q
    <3> QED
      BY <3>1, <3>2, <3>3
  <2>2. ASSUME NEW s \in Surfaces, RootOf[s] = r
        PROVE  <<s, PositionOf[s]>> \in DrawnFrom[r][Origin]
    BY <2>2, TreeIsDrawn
  <2> QED
    BY <2>1, <2>2
<1>3. ASSUME NEW p \in Places, Lookup[r][p] # NoSurface
      PROVE  /\ RootOf[Lookup[r][p]] = r
             /\ AllAtMost(Origin, Minus(p, PositionOf[Lookup[r][p]]))
             /\ AllAtMost(Minus(p, PositionOf[Lookup[r][p]]), size[Lookup[r][p]])
  <2>1. p \in Location
    BY SceneAssumption
  <2>2. Hits(r, p, Lookup[r][p])
    BY <1>3, <2>1, LookupHits
  <2>3. Plus(p, Origin) = p
    BY <2>1, OriginIsThere, Sums, SameLocation DEF Location
  <2> QED
    BY <1>1, <2>2, <2>3 DEF Hits
<1> QED
  BY <1>2, <1>3

-----------------------------------------------------------------------------
LEMMA SceneInvInit == SceneInit => SceneInv
<1> SUFFICES ASSUME SceneInit PROVE SceneInv
  OBVIOUS
<1>1. subs = <<>> /\ DOMAIN subs = {} /\ Len(subs) = 0
  BY DEF SceneInit
<1>2. SceneTypeOK
  BY <1>1 DEF SceneInit, SceneTypeOK
<1>3. LinksFollowRequests
  BY <1>1 DEF SceneInit, LinksFollowRequests
<1> QED
  BY <1>2, <1>3 DEF SceneInv

(* Types are kept whatever a client sends.                                  *)
LEMMA SceneTypeStep ==
  ASSUME SceneTypeOK, [SceneNext]_sceneVars
  PROVE  SceneTypeOK'
<1> DEFINE Sub == [surface : Surfaces, parent : Surfaces, at : Offsets \cup {Origin}]
<1>0. subs \in Seq(Sub)
  BY DEF SceneTypeOK
<1>1. ASSUME NEW c \in Surfaces, NEW p \in Surfaces, GetSubsurface(c, p)
      PROVE  SceneTypeOK'
  <2> DEFINE n == Len(subs) + 1
  <2> DEFINE o == [surface |-> c, parent |-> p, at |-> Origin]
  <2>1. o \in Sub /\ subs' = Append(subs, o)
    BY <1>1 DEF GetSubsurface
  <2>2. subs' \in Seq(Sub) /\ Len(subs') = n /\ Len(subs) \in Nat
    <3> HIDE DEF Sub, o
    <3> QED
      BY <1>0, <2>1
  <2>3. 1 .. Len(subs) \subseteq 1 .. Len(subs') /\ n \in 1 .. Len(subs')
    BY <2>2
  <2>4. /\ children \in [Surfaces -> Seq(1 .. Len(subs'))]
        /\ stagedChildren \in [Surfaces -> Seq(1 .. Len(subs'))]
    BY <2>3 DEF SceneTypeOK
  <2>5. /\ children' = [children EXCEPT ![p] = Append(@, n)]
        /\ stagedChildren' = [stagedChildren EXCEPT ![p] = Append(@, n)]
        /\ sub' = [sub EXCEPT ![c] = n] /\ stagedSub' = [stagedSub EXCEPT ![c] = n]
        /\ UNCHANGED <<size, stagedSize>>
    BY <1>1 DEF GetSubsurface
  <2> HIDE DEF n
  <2>6. /\ children' \in [Surfaces -> Seq(1 .. Len(subs'))]
        /\ stagedChildren' \in [Surfaces -> Seq(1 .. Len(subs'))]
    BY <2>3, <2>4, <2>5
  <2>7. /\ sub' \in [Surfaces -> 1 .. Len(subs') \cup {0}]
        /\ stagedSub' \in [Surfaces -> 1 .. Len(subs') \cup {0}]
    BY <2>3, <2>5 DEF SceneTypeOK
  <2> QED
    BY <2>2, <2>5, <2>6, <2>7 DEF SceneTypeOK
<1>2. ASSUME NEW n \in DOMAIN subs, NEW p \in Offsets, SetSubsurfacePosition(n, p)
      PROVE  SceneTypeOK'
  <2>1. subs' = [subs EXCEPT ![n] = [subs[n] EXCEPT !.at = p]]
    BY <1>2 DEF SetSubsurfacePosition
  <2>2. [subs[n] EXCEPT !.at = p] \in Sub
    <3>1. subs[n] \in Sub
      <4> HIDE DEF Sub
      <4> QED
        BY <1>0
    <3> QED
      BY <3>1
  <2>3. subs' \in Seq(Sub) /\ Len(subs') = Len(subs)
    <3> HIDE DEF Sub
    <3> QED
      BY <1>0, <2>1, <2>2
  <2> QED
    BY <1>2, <2>3 DEF SetSubsurfacePosition, SceneTypeOK
<1>3. ASSUME NEW s \in Surfaces, CommitTree(s)
      PROVE  SceneTypeOK'
  BY <1>3 DEF CommitTree, SceneTypeOK
<1>4. ASSUME NEW s \in Surfaces, DestroyContent(s)
      PROVE  SceneTypeOK'
  BY <1>4 DEF DestroyContent, SceneTypeOK
<1>5. ASSUME NEW s \in Surfaces, NEW z \in Sizes, AttachSize(s, z)
      PROVE  SceneTypeOK'
  BY <1>5 DEF AttachSize, SceneTypeOK
<1>6. CASE UNCHANGED sceneVars
  BY <1>6 DEF sceneVars, SceneTypeOK
<1> QED
  BY <1>1, <1>2, <1>3, <1>4, <1>5, <1>6 DEF SceneNext

(* The links of a new subsurface, whether or not they make sense.           *)
LEMMA RequestIsFollowed ==
  ASSUME SceneInv, NEW c \in Surfaces, NEW p \in Surfaces, GetSubsurface(c, p)
  PROVE  LinksFollowRequests'
<1> DEFINE n == Len(subs) + 1
<1> DEFINE o == [surface |-> c, parent |-> p, at |-> Origin]
<1>1. SceneTypeOK /\ LinksFollowRequests
  BY DEF SceneInv
<1>2. /\ subs' = Append(subs, o)
      /\ children' = [children EXCEPT ![p] = Append(@, n)]
      /\ stagedChildren' = [stagedChildren EXCEPT ![p] = Append(@, n)]
      /\ sub' = [sub EXCEPT ![c] = n] /\ stagedSub' = [stagedSub EXCEPT ![c] = n]
  BY DEF GetSubsurface
<1>3. stagedChildren' = children' /\ stagedSub' = sub'
  BY <1>1, <1>2 DEF LinksFollowRequests
<1>4. /\ subs \in Seq([surface : Surfaces, parent : Surfaces, at : Offsets \cup {Origin}])
      /\ Len(subs) \in Nat /\ DOMAIN subs = 1 .. Len(subs)
      /\ n \notin DOMAIN subs /\ n # 0 /\ n \in Nat /\ \A i \in DOMAIN subs : i < n
  BY <1>1 DEF SceneTypeOK
<1>5. /\ DOMAIN subs' = DOMAIN subs \cup {n} /\ subs'[n] = o
      /\ \A i \in DOMAIN subs : subs'[i] = subs[i]
  <2> HIDE DEF o
  <2> QED
    BY <1>2, <1>4
<1>6. /\ children \in [Surfaces -> Seq(DOMAIN subs)]
      /\ sub \in [Surfaces -> DOMAIN subs \cup {0}]
  BY <1>1, <1>4 DEF SceneTypeOK
<1>7. ASSUME NEW s \in Surfaces
      PROVE  /\ {children'[s][k] : k \in DOMAIN children'[s]} =
                   {i \in DOMAIN subs' : subs'[i].parent = s}
             /\ \A j, k \in DOMAIN children'[s] : j < k => children'[s][j] < children'[s][k]
  <2> DEFINE q == children[s]
  <2>1. /\ q \in Seq(DOMAIN subs) /\ {q[k] : k \in DOMAIN q} = {i \in DOMAIN subs : subs[i].parent = s}
        /\ \A j, k \in DOMAIN q : j < k => q[j] < q[k]
    BY <1>1, <1>6 DEF LinksFollowRequests
  <2>2. CASE s # p
    <3>1. children'[s] = q
      BY <1>2, <1>6, <2>2
    <3>2. {i \in DOMAIN subs' : subs'[i].parent = s} = {i \in DOMAIN subs : subs[i].parent = s}
      BY <1>5, <2>2
    <3> QED
      BY <2>1, <3>1, <3>2
  <2>3. CASE s = p
    <3>1. children'[s] = Append(q, n)
      BY <1>2, <1>6, <2>3
    <3> HIDE DEF q, n
    <3>2. /\ DOMAIN q = 1 .. Len(q) /\ Len(q) \in Nat
          /\ DOMAIN Append(q, n) = DOMAIN q \cup {Len(q) + 1}
          /\ Append(q, n)[Len(q) + 1] = n
          /\ \A k \in DOMAIN q : Append(q, n)[k] = q[k] /\ q[k] \in DOMAIN subs
      BY <2>1
    <3>3. {i \in DOMAIN subs' : subs'[i].parent = s} =
            {i \in DOMAIN subs : subs[i].parent = s} \cup {n}
      BY <1>5, <2>3
    <3>4. {Append(q, n)[k] : k \in DOMAIN Append(q, n)} = {q[k] : k \in DOMAIN q} \cup {n}
      BY <3>2
    <3>5. ASSUME NEW j \in DOMAIN Append(q, n), NEW k \in DOMAIN Append(q, n), j < k
          PROVE  Append(q, n)[j] < Append(q, n)[k]
      <4>1. j \in DOMAIN q
        BY <3>2, <3>5
      <4>2. CASE k \in DOMAIN q
        BY <2>1, <3>2, <3>5, <4>1, <4>2
      <4>3. CASE k = Len(q) + 1
        BY <1>4, <3>2, <4>1, <4>3
      <4> QED
        BY <3>2, <4>2, <4>3
    <3> QED
      BY <2>1, <3>1, <3>3, <3>4, <3>5
  <2> QED
    BY <2>2, <2>3
<1>8. ASSUME NEW s \in Surfaces
      PROVE  /\ sub'[s] # 0 => subs'[sub'[s]].surface = s
             /\ \A i \in DOMAIN subs' : subs'[i].surface = s => i <= sub'[s]
  <2>1. /\ sub[s] # 0 => subs[sub[s]].surface = s
        /\ \A i \in DOMAIN subs : subs[i].surface = s => i <= sub[s]
    BY <1>1 DEF LinksFollowRequests
  <2> HIDE DEF n
  <2>2. CASE s = c
    <3>1. sub'[s] = n
      BY <1>2, <1>6, <2>2
    <3>2. \A i \in DOMAIN subs' : i <= n
      BY <1>4, <1>5
    <3> QED
      BY <1>5, <2>2, <3>1, <3>2
  <2>3. CASE s # c
    <3>1. sub'[s] = sub[s] /\ sub[s] \in DOMAIN subs \cup {0}
      BY <1>2, <1>6, <2>3
    <3>2. 0 \notin DOMAIN subs
      BY <1>4
    <3> QED
      BY <1>5, <2>1, <2>3, <3>1, <3>2
  <2> QED
    BY <2>2, <2>3
<1> QED
  BY <1>3, <1>7, <1>8 DEF LinksFollowRequests

LEMMA SceneStep ==
  ASSUME SceneInv, [SceneNext]_sceneVars
  PROVE  SceneInv'
<1>1. SceneTypeOK'
  BY SceneTypeStep DEF SceneInv
<1>2. ASSUME NEW c \in Surfaces, NEW p \in Surfaces, GetSubsurface(c, p)
      PROVE  LinksFollowRequests'
  BY <1>2, RequestIsFollowed
<1>3. ASSUME NEW n \in DOMAIN subs, NEW p \in Offsets, SetSubsurfacePosition(n, p)
      PROVE  LinksFollowRequests'
  <2>1. /\ subs' = [subs EXCEPT ![n].at = p]
        /\ UNCHANGED <<children, stagedChildren, sub, stagedSub>>
    BY <1>3 DEF SetSubsurfacePosition
  <2> DEFINE Sub == [surface : Surfaces, parent : Surfaces, at : Offsets \cup {Origin}]
  <2>2. subs \in Seq(Sub)
    BY DEF SceneInv, SceneTypeOK
  <2>3. /\ DOMAIN subs' = DOMAIN subs
        /\ \A i \in DOMAIN subs : /\ subs'[i].surface = subs[i].surface
                                  /\ subs'[i].parent = subs[i].parent
    <3>1. subs[n] \in Sub
      <4> HIDE DEF Sub
      <4> QED
        BY <2>2
    <3>2. /\ [subs[n] EXCEPT !.at = p].surface = subs[n].surface
          /\ [subs[n] EXCEPT !.at = p].parent = subs[n].parent
      BY <3>1
    <3>3. /\ DOMAIN subs' = DOMAIN subs /\ subs'[n] = [subs[n] EXCEPT !.at = p]
          /\ \A i \in DOMAIN subs : i # n => subs'[i] = subs[i]
      <4> HIDE DEF Sub
      <4> QED
        BY <2>1, <2>2
    <3> QED
      BY <3>2, <3>3
  <2>4. ASSUME NEW s \in Surfaces
        PROVE  sub[s] # 0 => sub[s] \in DOMAIN subs
    BY <2>2 DEF SceneInv, SceneTypeOK
  <2>5. \A s \in Surfaces : {i \in DOMAIN subs' : subs'[i].parent = s} =
                             {i \in DOMAIN subs : subs[i].parent = s}
    BY <2>3
  <2> QED
    BY <2>1, <2>3, <2>4, <2>5 DEF SceneInv, LinksFollowRequests
<1>4. ASSUME NEW s \in Surfaces, CommitTree(s)
      PROVE  LinksFollowRequests'
  <2>1. UNCHANGED <<subs, children, stagedChildren, sub, stagedSub>>
    BY <1>4 DEF CommitTree, SceneInv, LinksFollowRequests, SceneTypeOK
  <2> QED
    BY <2>1 DEF SceneInv, LinksFollowRequests
<1>5. ASSUME UNCHANGED <<subs, children, stagedChildren, sub, stagedSub>>
      PROVE  LinksFollowRequests'
  BY <1>5 DEF SceneInv, LinksFollowRequests
<1>6. LinksFollowRequests'
  BY <1>2, <1>3, <1>4, <1>5 DEF SceneNext, DestroyContent, AttachSize, sceneVars
<1> QED
  BY <1>1, <1>6 DEF SceneInv

(* The type invariant, whatever a client sends.                             *)
THEOREM SceneTypeCorrect == SceneSpec => []SceneTypeOK
<1>1. SceneInit => SceneTypeOK
  BY SceneInvInit DEF SceneInv
<1> QED
  BY <1>1, SceneTypeStep, PTL DEF SceneSpec

(* Whatever a client asks for, again or in a circle, and commits in         *)
(* between: both copies of the links up and down hold exactly its requests, *)
(* so that what goes wrong with them is what was asked for.                 *)
THEOREM TreeIsWhatWasAsked == SceneSpec => []LinksFollowRequests
<1>1. SceneInv => LinksFollowRequests
  BY DEF SceneInv
<1> QED
  BY <1>1, SceneInvInit, SceneStep, PTL DEF SceneSpec

(* However many surfaces a client has, whatever it commits in between and   *)
(* wherever it puts its subsurfaces: as long as its requests so far are     *)
(* those the comments of get_subsurface demand, a surface is drawn once     *)
(* with its root, at its position(), and what lookup() finds is there.      *)
THEOREM PointerMeetsDrawn == SceneSpec => []PointerMeetsWhatIsDrawn
<1>1. SceneInv => PointerMeetsWhatIsDrawn
  <2>1. CASE AskedOnceEach /\ NoneBelowItself
    BY <2>1, SceneInvLinked, NoneBelowItselfIsForest, WalksAgree DEF SceneInv
  <2>2. CASE ~(AskedOnceEach /\ NoneBelowItself)
    BY <2>2 DEF PointerMeetsWhatIsDrawn
  <2> QED
    BY <2>1, <2>2
<1> QED
  BY <1>1, SceneInvInit, SceneStep, PTL DEF SceneSpec

=============================================================================
