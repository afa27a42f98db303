------------------------------ MODULE ShmPool -------------------------------
(* Shared memory (shm.cpp, shm_pool.cpp): pools a client maps, the buffers  *)
(* in them, the surfaces that show those, and the upload that reads one.    *)
(* The pool is owned by its resource and by every buffer of it, a buffer by *)
(* its resource and by the surfaces that hold it; when nobody owns the pool *)
(* any more its destructor unmaps the memory.                               *)
(* `regions' is what is mapped; no two mappings are the same region.        *)
(* Uploads are the render threads'; they lock nothing that requests lock.   *)
(* The list `buffers' of a pool is left out: nothing reads it.              *)
EXTENDS Naturals

CONSTANTS
  Pools, Buffers,     \* resources the client may create
  Shown,              \* surfaces
  PoolSizes,
  Nothing,            \* no buffer, region, pool or thread
  MaxRegions          \* bound: mappings ever made

ASSUME ShmAssumption ==
  /\ Nothing \notin Pools \cup Buffers \cup [pool : Pools, size : Nat]
  /\ Pools \cap Buffers = {}
  /\ PoolSizes \subseteq Nat /\ MaxRegions \in Nat

VARIABLES
  bound,              \* pools and buffers whose resource is alive
  created,            \* pools and buffers ever created
  data,               \* pool -> the region it points to
  poolOf,             \* buffer -> its pool
  staged, attached,   \* surface -> the buffer in staging and in state
  regions,            \* the regions that are mapped
  made,               \* number of mappings so far
  resizing,           \* the pool between munmap and mmap, and its new size
  reading             \* surface -> the region the render thread reads

shmVars == <<bound, created, data, poolOf, staged, attached, regions, made,
             resizing, reading>>

Region == [id : Nat, size : Nat]

(* MAP_FAILED, where nothing is ever mapped.                                *)
Failed == [id |-> 0, size |-> 0]

ShmInit ==
  /\ bound = {} /\ created = {}
  /\ data = [p \in Pools |-> Nothing]
  /\ poolOf = [b \in Buffers |-> Nothing]
  /\ staged = [s \in Shown |-> Nothing] /\ attached = staged
  /\ regions = {} /\ made = 0
  /\ resizing = Nothing
  /\ reading = [s \in Shown |-> Nothing]

BufferOwned(b) == b \in bound \/ \E s \in Shown : b \in {staged[s], attached[s]}

PoolOwned(p) == p \in bound \/ \E b \in Buffers : poolOf[b] = p /\ BufferOwned(b)

(* ~shm_pool_t() of the pool that an action took its last owner from.  The  *)
(* descriptor stays open.                                                   *)
Unmap ==
  regions' = regions \ {data[p] : p \in {q \in Pools : PoolOwned(q) /\ ~PoolOwned(q)'}}

-----------------------------------------------------------------------------
(* Requests, on the main thread.                                            *)
MainThread == resizing = Nothing

(* A pool is only made of a mapping that succeeded.                         *)
CreatePool(p, z) ==
  /\ MainThread
  /\ p \notin created /\ made < MaxRegions
  /\ made' = made + 1
  /\ data' = [data EXCEPT ![p] = [id |-> made', size |-> z]]
  /\ regions' = regions \cup {data'[p]}
  /\ created' = created \cup {p} /\ bound' = bound \cup {p}
  /\ UNCHANGED <<poolOf, staged, attached, resizing, reading>>

CreateBuffer(p, b) ==
  /\ MainThread
  /\ p \in bound /\ b \notin created
  /\ poolOf' = [poolOf EXCEPT ![b] = p]
  /\ created' = created \cup {b} /\ bound' = bound \cup {b}
  /\ UNCHANGED <<data, staged, attached, regions, made, resizing, reading>>

(* Mutant: the pool is unmapped with its resource.                          *)
DestroyAndUnmap(r) ==
  /\ MainThread
  /\ r \in bound
  /\ bound' = bound \ {r}
  /\ regions' = IF r \in Pools THEN regions \ {data[r]} ELSE regions
  /\ UNCHANGED <<created, data, poolOf, staged, attached, made, resizing, reading>>

(* wl_shm_pool.destroy, wl_buffer.destroy, or the client is gone.           *)
DestroyResource(r) ==
  /\ MainThread
  /\ r \in bound
  /\ bound' = bound \ {r}
  /\ UNCHANGED <<created, data, poolOf, staged, attached>>
  /\ Unmap
  /\ UNCHANGED <<made, resizing, reading>>

AttachBuffer(s, b) ==
  /\ MainThread
  /\ b \in bound
  /\ staged' = [staged EXCEPT ![s] = b]
  /\ UNCHANGED <<bound, created, data, poolOf, attached>>
  /\ Unmap
  /\ UNCHANGED <<made, resizing, reading>>

CommitBuffer(s) ==
  /\ MainThread
  /\ attached' = [attached EXCEPT ![s] = staged[s]]
  /\ staged' = [staged EXCEPT ![s] = Nothing]
  /\ UNCHANGED <<bound, created, data, poolOf>>
  /\ Unmap
  /\ UNCHANGED <<made, resizing, reading>>

(* resize: a smaller size is an error of the client, and a pool whose last  *)
(* mapping failed cannot be unmapped; neither changes anything.             *)
ResizeUnmaps(p, z) ==
  /\ MainThread
  /\ p \in bound /\ data[p] \in regions
  /\ z >= data[p].size /\ made < MaxRegions
  /\ regions' = regions \ {data[p]}
  /\ resizing' = [pool |-> p, size |-> z]
  /\ UNCHANGED <<bound, created, data, poolOf, staged, attached, made, reading>>

(* The system may refuse the mapping.                                       *)
ResizeMaps ==
  /\ resizing # Nothing
  /\ made' = made + 1
  /\ \E r \in {[id |-> made', size |-> resizing.size], Failed} :
       /\ data' = [data EXCEPT ![resizing.pool] = r]
       /\ regions' = regions \cup ({r} \ {Failed})
  /\ resizing' = Nothing
  /\ UNCHANGED <<bound, created, poolOf, staged, attached, reading>>

(* draw() uploads the buffer of a surface, and owns no part of it meanwhile.*)
BeginUpload(s) ==
  /\ reading[s] = Nothing /\ attached[s] # Nothing
  /\ reading' = [reading EXCEPT ![s] = data[poolOf[attached[s]]]]
  /\ UNCHANGED <<bound, created, data, poolOf, staged, attached, regions, made,
                 resizing>>

EndUpload(s) ==
  /\ reading[s] # Nothing
  /\ reading' = [reading EXCEPT ![s] = Nothing]
  /\ UNCHANGED <<bound, created, data, poolOf, staged, attached, regions, made,
                 resizing>>

ShmNext ==
  \/ \E p \in Pools, z \in PoolSizes : CreatePool(p, z) \/ ResizeUnmaps(p, z)
  \/ \E p \in Pools, b \in Buffers : CreateBuffer(p, b)
  \/ \E r \in Pools \cup Buffers : DestroyResource(r)
  \/ \E s \in Shown, b \in Buffers : AttachBuffer(s, b)
  \/ \E s \in Shown : CommitBuffer(s) \/ BeginUpload(s) \/ EndUpload(s)
  \/ ResizeMaps

ShmSpec == ShmInit /\ [][ShmNext]_shmVars

-----------------------------------------------------------------------------
ShmTypeOK ==
  /\ bound \subseteq created /\ created \subseteq Pools \cup Buffers
  /\ data \in [Pools -> Region \cup {Nothing}]
  /\ poolOf \in [Buffers -> Pools \cup {Nothing}]
  /\ staged \in [Shown -> Buffers \cup {Nothing}]
  /\ attached \in [Shown -> Buffers \cup {Nothing}]
  /\ regions \subseteq Region /\ made \in Nat
  /\ resizing \in [pool : Pools, size : Nat] \cup {Nothing}
  /\ reading \in [Shown -> Region \cup {Nothing}]

(* "The mmaped memory will be released when all buffers that have been      *)
(* created from this pool are gone" (shm_pool.cpp:78), and no sooner and no *)
(* later: in whatever order resources are destroyed and surfaces let go of  *)
(* them, what is mapped is the memory of the pools that are still owned,    *)
(* but where a mapping failed.  An upload loses its memory only to a commit *)
(* that takes the buffer off its surface or to a resize of its pool, never  *)
(* because the client destroys what it has.                                 *)
MappingOutlivesBuffers ==
  /\ resizing = Nothing =>
       regions = {data[p] : p \in {q \in Pools : PoolOwned(q)}} \ {Failed}
  /\ \A s \in Shown, b \in Buffers :
       /\ reading[s] \notin {Nothing, Failed}
       /\ attached[s] = b /\ reading[s] = data[poolOf[b]]
       /\ resizing # Nothing => resizing.pool # poolOf[b]
       => reading[s] \in regions

=============================================================================
