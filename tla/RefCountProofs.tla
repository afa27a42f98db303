--------------------------- MODULE RefCountProofs ---------------------------
(***************************************************************************)
(* Theorems about RefCount for every number of objects, handles and        *)
(* threads.  The strong count is exact under every operation, and the weak *)
(* count under every one but the copy assignment of weak_t.  That an       *)
(* owned object is never destroyed needs that no program promotes a        *)
(* weak_t, whose lock() is a test followed by an increment.  A program of  *)
(* one thread, which may promote, and one of any number of threads that    *)
(* have no weak_t use no freed block, leak none, and implement Ownership.  *)
(***************************************************************************)
EXTENDS RefCount, FiniteSetTheorems, TLAPS

-----------------------------------------------------------------------------
(* The type invariant.                                                     *)

LEMMA TopIsFrame ==
  ASSUME TypeOK, NEW t \in Thread, stack[t] # <<>>
  PROVE  /\ Head(stack[t]) \in Frame
         /\ Tail(stack[t]) \in Seq(Frame)
BY DEF TypeOK

LEMMA PushType ==
  ASSUME TypeOK, NEW t \in Thread, NEW do \in {"destroy", "checkStrong"},
         NEW o \in Object, Push(t, do, o)
  PROVE  stack' \in [Thread -> Seq(Frame)]
<1>1. [do |-> do, obj |-> o] \in Frame
  BY DEF Frame
<1>2. <<[do |-> do, obj |-> o]>> \o stack[t] \in Seq(Frame)
  BY <1>1 DEF TypeOK
<1>3. QED BY <1>2 DEF TypeOK, Push

LEMMA DropType ==
  ASSUME TypeOK, NEW t \in Thread, NEW h \in Strong, NEW rest \in Pending,
         Drop(t, h, rest)
  PROVE  TypeOK'
<1>1. CASE sh[h] = Null
  BY <1>1 DEF TypeOK, Drop
<1>2. CASE sh[h] # Null /\ ~Touches(sh[h])
  BY <1>2 DEF TypeOK, Drop, Stop
<1>3. CASE sh[h] # Null /\ Touches(sh[h])
  <2>1. sh[h] \in Object
    BY <1>3 DEF TypeOK
  <2>2. stack' \in [Thread -> Seq(Frame)]
    BY <1>3, <2>1, PushType DEF Drop, TypeOK
  <2>3. sh' \in [Strong -> Object \cup {Null}] /\ strong' \in [Object -> Int]
    <3>1. /\ sh' = [sh EXCEPT ![h] = Null]
          /\ strong' = [strong EXCEPT ![sh[h]] = @ - 1]
      BY <1>3 DEF Drop
    <3>2. QED BY <2>1, <3>1 DEF TypeOK
  <2>4. data' \in [Object -> {"none", "live", "dying", "deleted"}]
    BY <1>3, <2>1 DEF Drop, TypeOK
  <2>5. op' \in [Thread -> Pending]
    BY <1>3, <2>1 DEF Drop, TypeOK
  <2>6. UNCHANGED <<wk, weak, block, fault>>
    BY <1>3 DEF Drop
  <2>7. QED BY <2>2, <2>3, <2>4, <2>5, <2>6 DEF TypeOK
<1>4. QED BY <1>1, <1>2, <1>3

LEMMA WeakDropType ==
  ASSUME TypeOK, NEW t \in Thread, NEW w \in Weak, NEW rest \in Pending,
         WeakDrop(t, w, rest)
  PROVE  TypeOK'
<1>1. CASE wk[w] = Null
  BY <1>1 DEF TypeOK, WeakDrop
<1>2. CASE wk[w] # Null /\ ~Touches(wk[w])
  BY <1>2 DEF TypeOK, WeakDrop, Stop
<1>3. CASE wk[w] # Null /\ Touches(wk[w])
  <2>1. wk[w] \in Object
    BY <1>3 DEF TypeOK
  <2>2. stack' \in [Thread -> Seq(Frame)]
    BY <1>3, <2>1, PushType DEF WeakDrop, TypeOK
  <2>3. wk' \in [Weak -> Object \cup {Null}] /\ weak' \in [Object -> Int]
    <3>1. /\ wk' = [wk EXCEPT ![w] = Null]
          /\ weak' = [weak EXCEPT ![wk[w]] = @ - 1]
      BY <1>3 DEF WeakDrop
    <3>2. QED BY <2>1, <3>1 DEF TypeOK
  <2>4. op' \in [Thread -> Pending]
    <3>1. op' = [op EXCEPT ![t] = rest]
      BY <1>3 DEF WeakDrop
    <3>2. QED BY <3>1 DEF TypeOK
  <2>5. UNCHANGED <<sh, strong, data, block, fault>>
    BY <1>3 DEF WeakDrop
  <2>6. QED BY <2>2, <2>3, <2>4, <2>5 DEF TypeOK
<1>4. QED BY <1>1, <1>2, <1>3

LEMMA AcquireType ==
  ASSUME TypeOK, NEW h \in Strong, NEW o \in Object, Acquire(h, o),
         op' \in [Thread -> Pending]
  PROVE  TypeOK'
BY DEF TypeOK, Acquire

LEMMA ObserveType ==
  ASSUME TypeOK, NEW w \in Weak, NEW o \in Object, Observe(w, o),
         op' \in [Thread -> Pending]
  PROVE  TypeOK'
BY DEF TypeOK, Observe

LEMMA FinishType ==
  ASSUME TypeOK, NEW t \in Thread, Finish(t)
  PROVE  op' \in [Thread -> Pending]
<1>1. None \in Pending
  BY DEF Pending
<1>2. QED BY <1>1 DEF TypeOK, Finish

LEMMA StopType ==
  ASSUME TypeOK, Stop
  PROVE  TypeOK'
BY DEF TypeOK, Stop

\* What an unfinished operation names is of the kinds its steps need.
LEMMA Operands ==
  ASSUME TypeOK, NEW t \in Thread
  PROVE  /\ op[t].do \in {"take", "moveTo"} =>
              op[t].to \in Strong /\ op[t].from \in Strong
         /\ op[t].do = "weakTake" => op[t].to \in Weak /\ op[t].from \in Strong
         /\ op[t].do \in {"weakMoveTo", "weakCopyTo"} =>
              op[t].to \in Weak /\ op[t].from \in Weak
         /\ op[t].do = "lockTake" =>
              /\ op[t].obj \in Object
              /\ op[t].to \in Strong /\ op[t].from \in Weak
<1>1. op[t] \in Pending
  BY DEF TypeOK
<1>2. CASE op[t] = None
  BY <1>2 DEF None
<1>3. CASE op[t] # None
  BY <1>1, <1>3 DEF Pending
<1>4. QED BY <1>2, <1>3

LEMMA FreeIfType ==
  ASSUME TypeOK, NEW t \in Thread, stack[t] # <<>>, NEW o \in Object,
         NEW other, FreeIf(t, o, other)
  PROVE  TypeOK'
<1>1. Tail(stack[t]) \in Seq(Frame)
  BY TopIsFrame
<1>2. QED BY <1>1 DEF TypeOK, FreeIf, Stop, Pop

LEMMA StrongStepType ==
  ASSUME TypeOK, NEW t \in Thread, StrongStep(t)
  PROVE  TypeOK'
<1>1. ASSUME NEW h \in Strong, NEW o \in Object, Make(t, h, o)
      PROVE  TypeOK'
  BY <1>1 DEF TypeOK, Make
<1>2. ASSUME NEW h \in Strong, NEW g \in Strong, Copy(t, h, g)
      PROVE  TypeOK'
  <2>1. sh[g] \in Object
    BY <1>2 DEF TypeOK, Copy
  <2>2. CASE Touches(sh[g])
    <3>1. Acquire(h, sh[g]) /\ UNCHANGED op
      BY <1>2, <2>2 DEF Copy
    <3>2. op' \in [Thread -> Pending]
      BY <3>1 DEF TypeOK
    <3>3. QED BY <2>1, <3>1, <3>2, AcquireType
  <2>3. CASE ~Touches(sh[g])
    BY <1>2, <2>3, StopType DEF Copy
  <2>4. QED BY <2>2, <2>3
<1>3. ASSUME NEW h \in Strong, NEW g \in Strong, Assign(t, h, g)
      PROVE  TypeOK'
  <2>1. Doing("take", Null, h, g) \in Pending
    BY DEF Pending, Doing
  <2>2. QED BY <1>3, <2>1, DropType DEF Assign
<1>4. ASSUME NEW h \in Strong, NEW g \in Strong, Move(t, h, g)
      PROVE  TypeOK'
  <2>1. Doing("moveTo", Null, h, g) \in Pending
    BY DEF Pending, Doing
  <2>2. QED BY <1>4, <2>1, DropType DEF Move
<1>5. ASSUME NEW h \in Strong, Release(t, h)
      PROVE  TypeOK'
  <2>1. op[t] \in Pending
    BY DEF TypeOK
  <2>2. QED BY <1>5, <2>1, DropType DEF Release
<1>6. CASE DestroyEnds(t)
  <2>1. stack[t] # <<>>
    BY <1>6 DEF DestroyEnds, At
  <2> DEFINE o == Head(stack[t]).obj
  <2>2. o \in Object /\ Tail(stack[t]) \in Seq(Frame)
    BY <2>1, TopIsFrame DEF Frame
  <2>3. [do |-> "checkWeak", obj |-> o] \in Frame
    BY <2>2 DEF Frame
  <2>4. <<[do |-> "checkWeak", obj |-> o]>> \o Tail(stack[t]) \in Seq(Frame)
    BY <2>2, <2>3
  <2>5. CASE Touches(o)
    BY <1>6, <2>2, <2>4, <2>5 DEF TypeOK, DestroyEnds
  <2>6. CASE ~Touches(o)
    BY <1>6, <2>6, StopType DEF DestroyEnds
  <2>7. QED BY <2>5, <2>6
<1>7. CASE CheckWeak(t)
  <2>1. stack[t] # <<>> /\ Head(stack[t]).obj \in Object
    BY <1>7, TopIsFrame DEF CheckWeak, At, Frame
  <2>2. QED BY <1>7, <2>1, FreeIfType DEF CheckWeak
<1>8. CASE AssignTakes(t)
  <2> DEFINE o == sh[op[t].from]
  <2>1. op[t].to \in Strong /\ op[t].from \in Strong
    BY <1>8, Operands DEF AssignTakes, Resumes
  <2>2. CASE o = Null
    <3>1. /\ Finish(t)
          /\ UNCHANGED <<sh, wk, strong, weak, data, block, stack, fault>>
      BY <1>8, <2>2 DEF AssignTakes
    <3>2. QED BY <3>1, FinishType DEF TypeOK
  <2>3. CASE o # Null /\ Touches(o)
    <3>1. Acquire(op[t].to, o) /\ Finish(t)
      BY <1>8, <2>3 DEF AssignTakes
    <3>2. o \in Object
      BY <2>1, <2>3 DEF TypeOK
    <3>3. QED BY <2>1, <3>1, <3>2, FinishType, AcquireType
  <2>4. CASE o # Null /\ ~Touches(o)
    BY <1>8, <2>4, StopType DEF AssignTakes
  <2>5. QED BY <2>2, <2>3, <2>4
<1>9. CASE MoveTakes(t)
  <2>1. op[t].to \in Strong /\ op[t].from \in Strong
    BY <1>9, Operands DEF MoveTakes, Resumes
  <2>2. op' \in [Thread -> Pending]
    BY <1>9, FinishType DEF MoveTakes
  <2>3. QED BY <1>9, <2>1, <2>2 DEF TypeOK, MoveTakes
<1>10. QED
  BY <1>1, <1>2, <1>3, <1>4, <1>5, <1>6, <1>7, <1>8, <1>9 DEF StrongStep


LEMMA WeakStepType ==
  ASSUME TypeOK, NEW t \in Thread, WeakStep(t)
  PROVE  TypeOK'
<1>1. ASSUME NEW w \in Weak, NEW h \in Strong, WeakMake(t, w, h)
      PROVE  TypeOK'
  <2>1. sh[h] \in Object
    BY <1>1 DEF TypeOK, WeakMake
  <2>2. CASE Touches(sh[h])
    <3>1. Observe(w, sh[h]) /\ UNCHANGED op
      BY <1>1, <2>2 DEF WeakMake
    <3>2. op' \in [Thread -> Pending]
      BY <3>1 DEF TypeOK
    <3>3. QED BY <2>1, <3>1, <3>2, ObserveType
  <2>3. CASE ~Touches(sh[h])
    BY <1>1, <2>3, StopType DEF WeakMake
  <2>4. QED BY <2>2, <2>3
<1>2. ASSUME NEW w \in Weak, NEW v \in Weak, WeakCopy(t, w, v)
      PROVE  TypeOK'
  <2>1. wk[v] \in Object
    BY <1>2 DEF TypeOK, WeakCopy
  <2>2. CASE Touches(wk[v])
    <3>1. Observe(w, wk[v]) /\ UNCHANGED op
      BY <1>2, <2>2 DEF WeakCopy
    <3>2. op' \in [Thread -> Pending]
      BY <3>1 DEF TypeOK
    <3>3. QED BY <2>1, <3>1, <3>2, ObserveType
  <2>3. CASE ~Touches(wk[v])
    BY <1>2, <2>3, StopType DEF WeakCopy
  <2>4. QED BY <2>2, <2>3
<1>3. ASSUME NEW w \in Weak, NEW h \in Strong, WeakAssign(t, w, h)
      PROVE  TypeOK'
  <2>1. Doing("weakTake", Null, w, h) \in Pending
    BY DEF Pending, Doing
  <2>2. QED BY <1>3, <2>1, WeakDropType DEF WeakAssign
<1>4. ASSUME NEW w \in Weak, NEW v \in Weak, WeakMove(t, w, v)
      PROVE  TypeOK'
  <2>1. Doing("weakMoveTo", Null, w, v) \in Pending
    BY DEF Pending, Doing
  <2>2. QED BY <1>4, <2>1, WeakDropType DEF WeakMove
<1>5. ASSUME NEW w \in Weak, NEW v \in Weak, WeakCopyAssign(t, w, v)
      PROVE  TypeOK'
  <2>1. Doing("weakCopyTo", Null, w, v) \in Pending
    BY DEF Pending, Doing
  <2>2. QED BY <1>5, <2>1, WeakDropType DEF WeakCopyAssign
<1>6. ASSUME NEW w \in Weak, WeakRelease(t, w) \/ Listener(t, w)
      PROVE  TypeOK'
  <2>1. op[t] \in Pending
    BY DEF TypeOK
  <2>2. QED BY <1>6, <2>1, WeakDropType DEF WeakRelease, Listener
<1>7. ASSUME NEW h \in Strong, NEW w \in Weak, Lock(t, h, w)
      PROVE  TypeOK'
  <2>1. wk[w] \in Object
    BY <1>7 DEF TypeOK, Lock
  <2>2. Doing("lockTake", wk[w], h, w) \in Pending
    BY <2>1 DEF Pending, Doing
  <2>3. CASE Touches(wk[w])
    BY <1>7, <2>2, <2>3 DEF TypeOK, Lock
  <2>4. CASE ~Touches(wk[w])
    BY <1>7, <2>4, StopType DEF Lock
  <2>5. QED BY <2>3, <2>4
<1>8. CASE CheckStrong(t)
  <2>1. stack[t] # <<>> /\ Head(stack[t]).obj \in Object
    BY <1>8, TopIsFrame DEF CheckStrong, At, Frame
  <2>2. QED BY <1>8, <2>1, FreeIfType DEF CheckStrong
<1>9. CASE WeakAssignTakes(t)
  <2> DEFINE o == sh[op[t].from]
  <2>1. op[t].to \in Weak /\ op[t].from \in Strong
    BY <1>9, Operands DEF WeakAssignTakes, Resumes
  <2>2. CASE o = Null
    <3>1. /\ Finish(t)
          /\ UNCHANGED <<sh, wk, strong, weak, data, block, stack, fault>>
      BY <1>9, <2>2 DEF WeakAssignTakes
    <3>2. QED BY <3>1, FinishType DEF TypeOK
  <2>3. CASE o # Null /\ Touches(o)
    <3>1. Observe(op[t].to, o) /\ Finish(t)
      BY <1>9, <2>3 DEF WeakAssignTakes
    <3>2. o \in Object
      BY <2>1, <2>3 DEF TypeOK
    <3>3. QED BY <2>1, <3>1, <3>2, FinishType, ObserveType
  <2>4. CASE o # Null /\ ~Touches(o)
    BY <1>9, <2>4, StopType DEF WeakAssignTakes
  <2>5. QED BY <2>2, <2>3, <2>4
<1>10. CASE WeakMoveTakes(t)
  <2>1. op[t].to \in Weak /\ op[t].from \in Weak
    BY <1>10, Operands DEF WeakMoveTakes, Resumes
  <2>2. op' \in [Thread -> Pending]
    BY <1>10, FinishType DEF WeakMoveTakes
  <2>3. QED BY <1>10, <2>1, <2>2 DEF TypeOK, WeakMoveTakes
<1>11. CASE WeakCopyTakes(t)
  <2>1. op[t].to \in Weak /\ op[t].from \in Weak
    BY <1>11, Operands DEF WeakCopyTakes, Resumes
  <2>2. op' \in [Thread -> Pending]
    BY <1>11, FinishType DEF WeakCopyTakes
  <2>3. QED BY <1>11, <2>1, <2>2 DEF TypeOK, WeakCopyTakes
<1>12. CASE LockTakes(t)
  <2>1. op[t].to \in Strong /\ op[t].obj \in Object
    BY <1>12, Operands DEF LockTakes, Resumes
  <2>2. CASE Touches(op[t].obj)
    <3>1. Acquire(op[t].to, op[t].obj) /\ Finish(t)
      BY <1>12, <2>2 DEF LockTakes
    <3>2. QED BY <2>1, <3>1, FinishType, AcquireType
  <2>3. CASE ~Touches(op[t].obj)
    BY <1>12, <2>3, StopType DEF LockTakes
  <2>4. QED BY <2>2, <2>3
<1>13. QED
  BY <1>1, <1>2, <1>3, <1>4, <1>5, <1>6, <1>7, <1>8, <1>9, <1>10, <1>11,
     <1>12 DEF WeakStep

LEMMA InitType == Init => TypeOK
<1>1. None \in Pending
  BY DEF Pending
<1>2. <<>> \in Seq(Frame)
  OBVIOUS
<1>3. [t \in Thread |-> <<>>] \in [Thread -> Seq(Frame)]
  BY <1>2
<1>4. Init => op \in [Thread -> Pending] /\ stack \in [Thread -> Seq(Frame)]
  BY <1>1, <1>3 DEF Init
<1>5. Init => fault \in BOOLEAN
  BY DEF Init
<1>6. Init => /\ sh \in [Strong -> Object \cup {Null}]
              /\ wk \in [Weak -> Object \cup {Null}]
              /\ strong \in [Object -> Int] /\ weak \in [Object -> Int]
              /\ data \in [Object -> {"none", "live", "dying", "deleted"}]
              /\ block \in [Object -> {"none", "live", "freed"}]
  BY DEF Init
<1>7. QED BY <1>4, <1>5, <1>6 DEF TypeOK

\* Every variable of resource.hpp's model keeps its type.
THEOREM TypeCorrect == Spec => []TypeOK
<1>1. Init => TypeOK
  BY InitType
<1>2. TypeOK /\ [Next]_vars => TypeOK'
  <2>1. CASE Next
    BY <2>1, StrongStepType, WeakStepType DEF Next
  <2>2. CASE UNCHANGED vars
    BY <2>2 DEF TypeOK, vars
  <2>3. QED BY <2>1, <2>2
<1>3. QED BY <1>1, <1>2, PTL DEF Spec

-----------------------------------------------------------------------------
(* The strong count is the number of owners.                               *)

\* What makes the strong count inductive: an operation that is going to fill a
\* handle finds it empty and is alone in using it, and nobody counts on a
\* control block that does not exist.
Fills == {"take", "moveTo", "lockTake"}

TargetsEmpty ==
  \A t \in Thread : op[t].do \in Fills =>
    /\ sh[op[t].to] = Null
    /\ op[t].do = "moveTo" => op[t].to # op[t].from

TargetsPrivate ==
  \A t, u \in Thread : t # u /\ op[t].do \in Fills =>
    op[t].to \notin {op[u].to, op[u].from}

FreshUncounted ==
  /\ \A o \in Object : block[o] = "none" => strong[o] = 0
  /\ \A t \in Thread : op[t].do = "lockTake" => block[op[t].obj] # "none"

CountInv == /\ TypeOK /\ StrongCountsOwners
            /\ TargetsEmpty /\ TargetsPrivate /\ FreshUncounted

LEMMA OwnersFinite ==
  ASSUME NEW o
  PROVE  IsFiniteSet(Owners(o))
BY FiniteHandles, FS_Subset DEF Owners

\* One handle joins the owners of o.
LEMMA CountGains ==
  ASSUME TypeOK, StrongCountsOwners, NEW h \in Strong, NEW o \in Object,
         sh[h] = Null, sh' = [sh EXCEPT ![h] = o],
         strong' = [strong EXCEPT ![o] = strong[o] + 1]
  PROVE  StrongCountsOwners'
<1>1. SUFFICES ASSUME NEW p \in Object
               PROVE  strong'[p] = Cardinality(Owners(p)')
  BY DEF StrongCountsOwners
<1>2. strong[p] = Cardinality(Owners(p))
  BY DEF StrongCountsOwners
<1>3. CASE p = o
  <2>1. Owners(p)' = Owners(p) \cup {h} /\ h \notin Owners(p)
    BY <1>3, NullFresh DEF Owners, TypeOK
  <2>2. Cardinality(Owners(p)') = Cardinality(Owners(p)) + 1
    BY <2>1, OwnersFinite, FS_AddElement
  <2>3. QED BY <1>2, <1>3, <2>2 DEF TypeOK
<1>4. CASE p # o
  <2>1. Owners(p)' = Owners(p)
    BY <1>4, NullFresh DEF Owners, TypeOK
  <2>2. QED BY <1>2, <1>4, <2>1 DEF TypeOK
<1>5. QED BY <1>3, <1>4

\* One handle leaves the owners of o.
LEMMA CountLoses ==
  ASSUME TypeOK, StrongCountsOwners, NEW h \in Strong, NEW o \in Object,
         sh[h] = o, sh' = [sh EXCEPT ![h] = Null],
         strong' = [strong EXCEPT ![o] = strong[o] - 1]
  PROVE  StrongCountsOwners'
<1>1. SUFFICES ASSUME NEW p \in Object
               PROVE  strong'[p] = Cardinality(Owners(p)')
  BY DEF StrongCountsOwners
<1>2. strong[p] = Cardinality(Owners(p))
  BY DEF StrongCountsOwners
<1>3. CASE p = o
  <2>1. Owners(p)' = Owners(p) \ {h} /\ h \in Owners(p)
    BY <1>3, NullFresh DEF Owners, TypeOK
  <2>2. Cardinality(Owners(p)') = Cardinality(Owners(p)) - 1
    BY <2>1, OwnersFinite, FS_RemoveElement
  <2>3. QED BY <1>2, <1>3, <2>2 DEF TypeOK
<1>4. CASE p # o
  <2>1. Owners(p)' = Owners(p)
    BY <1>4, NullFresh DEF Owners, TypeOK
  <2>2. QED BY <1>2, <1>4, <2>1 DEF TypeOK
<1>5. QED BY <1>3, <1>4

\* One handle takes over the block of another one.
LEMMA CountMoves ==
  ASSUME TypeOK, StrongCountsOwners, NEW h \in Strong, NEW g \in Strong,
         h # g, sh[h] = Null, strong' = strong,
         sh' = [sh EXCEPT ![h] = sh[g], ![g] = Null]
  PROVE  StrongCountsOwners'
<1>1. SUFFICES ASSUME NEW p \in Object
               PROVE  strong'[p] = Cardinality(Owners(p)')
  BY DEF StrongCountsOwners
<1>2. strong[p] = Cardinality(Owners(p))
  BY DEF StrongCountsOwners
<1>3. CASE p = sh[g]
  <2> DEFINE rest == Owners(p) \ {g}
  <2>1. /\ Owners(p)' = rest \cup {h} /\ h \notin rest
        /\ g \in Owners(p)
    BY <1>3, NullFresh DEF Owners, TypeOK
  <2>2. IsFiniteSet(rest) /\ Cardinality(rest) = Cardinality(Owners(p)) - 1
    BY <2>1, OwnersFinite, FS_RemoveElement
  <2>3. Cardinality(Owners(p)') = Cardinality(rest) + 1
    BY <2>1, <2>2, FS_AddElement
  <2>4. Cardinality(Owners(p)) \in Nat
    BY OwnersFinite, FS_CardinalityType
  <2>5. QED BY <1>2, <2>2, <2>3, <2>4
<1>4. CASE p # sh[g]
  <2>1. Owners(p)' = Owners(p)
    BY <1>4, NullFresh DEF Owners, TypeOK
  <2>2. QED BY <1>2, <2>1
<1>5. QED BY <1>3, <1>4

\* An object with an owner has a positive count, hence a control block.
LEMMA OwnedHasBlock ==
  ASSUME CountInv, NEW h \in Strong, sh[h] # Null
  PROVE  sh[h] \in Object /\ strong[sh[h]] > 0 /\ block[sh[h]] # "none"
<1>1. sh[h] \in Object
  BY DEF CountInv, TypeOK
<1>2. h \in Owners(sh[h])
  BY DEF Owners
<1>3. Cardinality(Owners(sh[h])) \in Nat \ {0}
  BY <1>2, OwnersFinite, FS_CardinalityType, FS_EmptySet
<1>4. strong[sh[h]] = Cardinality(Owners(sh[h]))
  BY <1>1 DEF CountInv, StrongCountsOwners
<1>5. QED BY <1>1, <1>3, <1>4 DEF CountInv, FreshUncounted

\* The empty targets stay empty and private if a step fills or empties only
\* handles that no other thread uses.
LEMMA TargetsKept ==
  ASSUME CountInv, NEW t \in Thread, NEW new \in Pending,
         op' = [op EXCEPT ![t] = new],
         \A h \in Strong : sh'[h] # sh[h] =>
           ~Busy(h) \/ h \in {op[t].to, op[t].from},
         \/ new \in {None, op[t]}
         \/ ~Busy(new.to) /\ ~Busy(new.from),
         new.do \in Fills => /\ sh'[new.to] = Null
                             /\ new.do = "moveTo" => new.to # new.from
  PROVE  TargetsEmpty' /\ TargetsPrivate'
<1>1. op'[t] = new /\ \A u \in Thread : u # t => op'[u] = op[u]
  BY DEF CountInv, TypeOK
<1>2. ASSUME NEW u \in Thread, u # t, op[u].do \in Fills
      PROVE  /\ op[u].to \notin {op[t].to, op[t].from}
             /\ Busy(op[u].to) /\ op[u].to \in Strong
             /\ op[u].to # Null
  <2>1. op[u].to \notin {op[t].to, op[t].from}
    BY <1>2 DEF CountInv, TargetsPrivate
  <2>2. op[u].to \in Strong
    BY <1>2, Operands DEF CountInv, Fills
  <2>3. QED BY <2>1, <2>2, NullFresh DEF Busy
<1>3. TargetsEmpty'
  <2>1. ASSUME NEW u \in Thread, u # t, op[u].do \in Fills
        PROVE  sh'[op[u].to] = Null
    BY <1>2, <2>1 DEF CountInv, TargetsEmpty
  <2>2. ASSUME NEW u \in Thread, op'[u].do \in Fills
        PROVE  /\ sh'[op'[u].to] = Null
               /\ op'[u].do = "moveTo" => op'[u].to # op'[u].from
    BY <1>1, <2>1, <2>2 DEF CountInv, TargetsEmpty
  <2>3. QED BY <2>2 DEF TargetsEmpty
<1>4. TargetsPrivate'
  <2>1. SUFFICES ASSUME NEW u \in Thread, NEW v \in Thread, u # v,
                        op'[u].do \in Fills
                 PROVE  op'[u].to \notin {op'[v].to, op'[v].from}
    BY DEF TargetsPrivate
  <2>2. CASE u # t /\ v # t
    BY <1>1, <2>1, <2>2 DEF CountInv, TargetsPrivate
  <2>3. CASE u # t /\ v = t
    BY <1>1, <1>2, <2>1, <2>3 DEF None
  <2>4. CASE u = t
    <3>1. op'[v] = op[v] /\ op'[u] = new /\ v # t
      BY <1>1, <2>1, <2>4
    <3>2. new # None
      BY <2>1, <3>1 DEF None, Fills
    <3>3. CASE new = op[t]
      BY <2>1, <2>4, <3>1, <3>3 DEF CountInv, TargetsPrivate
    <3>4. CASE ~Busy(new.to)
      BY <3>1, <3>4 DEF Busy
    <3>5. QED BY <3>2, <3>3, <3>4
  <2>5. QED BY <2>2, <2>3, <2>4
<1>5. QED BY <1>3, <1>4

\* A step that leaves the owners, their counts and the operations alone.
LEMMA SameCounts ==
  ASSUME CountInv, TypeOK', UNCHANGED <<sh, strong, op>>,
         \A o \in Object : block'[o] \in {block[o], "freed"}
  PROVE  CountInv'
<1>1. StrongCountsOwners'
  BY DEF CountInv, StrongCountsOwners, Owners
<1>2. TargetsEmpty' /\ TargetsPrivate'
  BY DEF CountInv, TargetsEmpty, TargetsPrivate
<1>3. FreshUncounted'
  <2>1. \A t \in Thread : op[t].do = "lockTake" => op[t].obj \in Object
    BY Operands DEF CountInv
  <2>2. QED BY <2>1 DEF CountInv, FreshUncounted
<1>4. QED BY <1>1, <1>2, <1>3 DEF CountInv

\* A step that only finishes the operation of t.
LEMMA NoOperation ==
  ASSUME CountInv, TypeOK', NEW t \in Thread,
         op' = [op EXCEPT ![t] = None], UNCHANGED <<sh, strong, block>>
  PROVE  CountInv'
<1>1. StrongCountsOwners'
  BY DEF CountInv, StrongCountsOwners, Owners
<1>2. None \in Pending /\ None.do \notin Fills
  BY DEF Pending, None, Fills
<1>3. TargetsEmpty' /\ TargetsPrivate'
  BY <1>2, TargetsKept
<1>4. FreshUncounted'
  BY DEF CountInv, FreshUncounted, TypeOK, None
<1>5. QED BY <1>1, <1>3, <1>4 DEF CountInv

\* A step that changes only the operation of t, to one that fills nothing.
LEMMA OtherOperation ==
  ASSUME CountInv, TypeOK', NEW t \in Thread, NEW new \in Pending,
         op' = [op EXCEPT ![t] = new], UNCHANGED <<sh, strong, block>>,
         new.do \notin Fills, ~Busy(new.to), ~Busy(new.from)
  PROVE  CountInv'
<1>1. StrongCountsOwners'
  BY DEF CountInv, StrongCountsOwners, Owners
<1>2. TargetsEmpty' /\ TargetsPrivate'
  BY TargetsKept
<1>3. FreshUncounted'
  BY DEF CountInv, FreshUncounted, TypeOK, Fills
<1>4. QED BY <1>1, <1>2, <1>3 DEF CountInv

LEMMA DropCounts ==
  ASSUME CountInv, TypeOK', NEW t \in Thread, NEW h \in Strong,
         NEW rest \in Pending, Drop(t, h, rest), ~Busy(h),
         \/ rest = op[t]
         \/ /\ rest.do \in {"take", "moveTo"} /\ rest.to = h /\ rest.from # h
            /\ ~Busy(rest.from)
  PROVE  CountInv'
<1>1. CASE sh[h] # Null /\ ~Touches(sh[h])
  <2>1. Stop
    BY <1>1 DEF Drop
  <2>2. QED BY <2>1, SameCounts DEF Stop
<1>2. CASE sh[h] = Null \/ Touches(sh[h])
  <2>1. /\ op' = [op EXCEPT ![t] = rest] /\ UNCHANGED block
        /\ \/ sh[h] = Null /\ UNCHANGED <<sh, strong>>
           \/ /\ sh[h] # Null /\ sh' = [sh EXCEPT ![h] = Null]
              /\ strong' = [strong EXCEPT ![sh[h]] = strong[sh[h]] - 1]
    BY <1>2 DEF Drop
  <2>2. /\ sh'[h] = Null /\ \A g \in Strong : g # h => sh'[g] = sh[g]
    BY <2>1 DEF CountInv, TypeOK
  <2>3. StrongCountsOwners'
    <3>1. CASE sh[h] = Null
      BY <2>1, <3>1 DEF CountInv, StrongCountsOwners, Owners
    <3>2. CASE sh[h] # Null
      BY <2>1, <3>2, CountLoses, OwnedHasBlock DEF CountInv
    <3>3. QED BY <3>1, <3>2
  <2>4. rest.do \in Fills => /\ sh'[rest.to] = Null
                             /\ rest.do = "moveTo" => rest.to # rest.from
    <3>1. CASE rest = op[t] /\ rest.do \in Fills
      <4>1. /\ sh[op[t].to] = Null /\ op[t].to \in Strong
            /\ op[t].do = "moveTo" => op[t].to # op[t].from
        BY <3>1, Operands DEF CountInv, TargetsEmpty, Fills
      <4>2. QED BY <2>2, <3>1, <4>1
    <3>2. CASE rest # op[t]
      BY <2>2, <3>2
    <3>3. QED BY <3>1, <3>2
  <2>5. TargetsEmpty' /\ TargetsPrivate'
    <3>1. \A g \in Strong : sh'[g] # sh[g] => ~Busy(g)
      BY <2>2
    <3>2. QED BY <2>1, <2>4, <3>1, TargetsKept
  <2>6. FreshUncounted'
    <3>1. \A o \in Object : block[o] = "none" => strong'[o] = strong[o]
      BY <2>1, OwnedHasBlock DEF CountInv, TypeOK
    <3>2. \A u \in Thread : op'[u].do = "lockTake" => op'[u] = op[u]
      BY <2>1 DEF CountInv, TypeOK
    <3>3. QED BY <2>1, <3>1, <3>2 DEF CountInv, FreshUncounted
  <2>7. QED BY <2>3, <2>5, <2>6 DEF CountInv
<1>3. QED BY <1>1, <1>2

\* Filling the empty handle h with o, and finishing the operation of t if it
\* was the one that fills h.
LEMMA AcquireCounts ==
  ASSUME CountInv, TypeOK', NEW t \in Thread, NEW h \in Strong,
         NEW o \in Object, Acquire(h, o), sh[h] = Null, block[o] # "none",
         \/ ~Busy(h) /\ UNCHANGED op /\ op[t] = None
         \/ h = op[t].to /\ Finish(t)
  PROVE  CountInv'
<1>1. StrongCountsOwners'
  BY CountGains DEF CountInv, Acquire
<1>2. op' = [op EXCEPT ![t] = None] /\ None \in Pending
  BY DEF Finish, CountInv, TypeOK, Pending
<1>3. \A g \in Strong : sh'[g] # sh[g] => g = h
  BY DEF Acquire, CountInv, TypeOK
<1>4. TargetsEmpty' /\ TargetsPrivate'
  <2>1. None.do \notin Fills
    BY DEF None, Fills
  <2>2. \A g \in Strong : sh'[g] # sh[g] =>
          ~Busy(g) \/ g \in {op[t].to, op[t].from}
    BY <1>3
  <2>3. QED BY <1>2, <2>1, <2>2, TargetsKept
<1>5. FreshUncounted'
  <2>1. \A p \in Object : block'[p] = "none" => strong'[p] = 0
    BY DEF Acquire, CountInv, TypeOK, FreshUncounted
  <2>2. \A u \in Thread : op'[u].do = "lockTake" => op'[u] = op[u]
    BY <1>2 DEF None, CountInv, TypeOK
  <2>3. QED BY <2>1, <2>2 DEF CountInv, FreshUncounted, Acquire
<1>6. QED BY <1>1, <1>4, <1>5 DEF CountInv

LEMMA FreeIfCounts ==
  ASSUME CountInv, TypeOK', NEW t, NEW o, NEW other, FreeIf(t, o, other)
  PROVE  CountInv'
<1>1. UNCHANGED <<sh, strong, op>>
  BY DEF FreeIf, Stop
<1>2. \A p \in Object : block'[p] \in {block[p], "freed"}
  BY DEF FreeIf, Stop, CountInv, TypeOK
<1>3. QED BY <1>1, <1>2, SameCounts

LEMMA StrongStepCounts ==
  ASSUME CountInv, NEW t \in Thread, StrongStep(t)
  PROVE  CountInv'
<1>0. TypeOK'
  BY StrongStepType DEF CountInv
<1>1. ASSUME NEW h \in Strong, NEW o \in Object, Make(t, h, o)
      PROVE  CountInv'
  <2>1. sh[h] = Null /\ block[o] = "none" /\ strong[o] = 0 /\ ~Busy(h)
    BY <1>1 DEF Make, CountInv, FreshUncounted, Usable
  <2>2. StrongCountsOwners'
    <3>1. /\ sh' = [sh EXCEPT ![h] = o]
          /\ strong' = [strong EXCEPT ![o] = strong[o] + 1]
      BY <1>1, <2>1 DEF Make
    <3>2. QED BY <2>1, <3>1, CountGains DEF CountInv
  <2>3. op' = [op EXCEPT ![t] = op[t]] /\ op[t] = None /\ op[t] \in Pending
    BY <1>1 DEF Make, Idle, CountInv, TypeOK
  <2>4. \A g \in Strong : sh'[g] # sh[g] => ~Busy(g)
    BY <1>1, <2>1 DEF Make, CountInv, TypeOK
  <2>5. TargetsEmpty' /\ TargetsPrivate'
    <3>1. op[t].do \notin Fills
      BY <2>3 DEF None, Fills
    <3>2. QED BY <2>3, <2>4, <3>1, TargetsKept
  <2>6. FreshUncounted'
    <3>1. \A u \in Thread : op[u].do = "lockTake" => op[u].obj \in Object
      BY Operands DEF CountInv
    <3>2. QED BY <1>1, <3>1 DEF Make, CountInv, TypeOK, FreshUncounted
  <2>7. QED BY <1>0, <2>2, <2>5, <2>6 DEF CountInv
<1>2. ASSUME NEW h \in Strong, NEW g \in Strong, Copy(t, h, g)
      PROVE  CountInv'
  <2>1. /\ sh[h] = Null /\ ~Busy(h) /\ op[t] = None
        /\ sh[g] \in Object /\ block[sh[g]] # "none"
    BY <1>2, OwnedHasBlock DEF Copy, Usable, Idle
  <2>2. CASE Touches(sh[g])
    <3>1. Acquire(h, sh[g]) /\ UNCHANGED op
      BY <1>2, <2>2 DEF Copy
    <3>2. QED BY <1>0, <2>1, <3>1, AcquireCounts
  <2>3. CASE ~Touches(sh[g])
    <3>1. Stop
      BY <1>2, <2>3 DEF Copy
    <3>2. QED BY <1>0, <3>1, SameCounts DEF Stop
  <2>4. QED BY <2>2, <2>3
<1>3. ASSUME NEW h \in Strong, NEW g \in Strong, Assign(t, h, g)
      PROVE  CountInv'
  <2> DEFINE rest == Doing("take", Null, h, g)
  <2>1. /\ rest \in Pending /\ rest.do = "take" /\ rest.to = h /\ rest.from = g
    BY DEF Pending, Doing
  <2>2. Drop(t, h, rest) /\ ~Busy(h) /\ ~Busy(g) /\ h # g
    BY <1>3 DEF Assign, Variable, Usable
  <2>3. QED BY <1>0, <2>1, <2>2, DropCounts
<1>4. ASSUME NEW h \in Strong, NEW g \in Strong, Move(t, h, g)
      PROVE  CountInv'
  <2> DEFINE rest == Doing("moveTo", Null, h, g)
  <2>1. /\ rest \in Pending /\ rest.do = "moveTo" /\ rest.to = h /\ rest.from = g
    BY DEF Pending, Doing
  <2>2. Drop(t, h, rest) /\ ~Busy(h) /\ ~Busy(g) /\ h # g
    BY <1>4 DEF Move, Variable, Usable
  <2>3. QED BY <1>0, <2>1, <2>2, DropCounts
<1>5. ASSUME NEW h \in Strong, Release(t, h)
      PROVE  CountInv'
  <2>1. op[t] \in Pending
    BY DEF CountInv, TypeOK
  <2>2. Drop(t, h, op[t]) /\ ~Busy(h)
    BY <1>5 DEF Release, MayDestroy, Usable
  <2>3. QED BY <1>0, <2>1, <2>2, DropCounts
<1>6. CASE DestroyEnds(t)
  <2>1. UNCHANGED <<sh, strong, op, block>>
    BY <1>6 DEF DestroyEnds, Stop
  <2>2. QED BY <1>0, <2>1, SameCounts
<1>7. CASE CheckWeak(t)
  BY <1>0, <1>7, FreeIfCounts DEF CheckWeak
<1>8. CASE AssignTakes(t)
  <2> DEFINE o == sh[op[t].from]
  <2>1. op[t].to \in Strong /\ op[t].from \in Strong /\ sh[op[t].to] = Null
    BY <1>8, Operands DEF AssignTakes, Resumes, CountInv, TargetsEmpty, Fills
  <2>2. CASE o = Null
    <3>1. op' = [op EXCEPT ![t] = None] /\ UNCHANGED <<sh, strong, block>>
      BY <1>8, <2>2 DEF AssignTakes, Finish
    <3>2. QED BY <1>0, <3>1, NoOperation
  <2>3. CASE o # Null /\ Touches(o)
    <3>1. Acquire(op[t].to, o) /\ Finish(t)
      BY <1>8, <2>3 DEF AssignTakes
    <3>2. o \in Object /\ block[o] # "none"
      BY <2>1, <2>3, OwnedHasBlock
    <3>3. QED BY <1>0, <2>1, <3>1, <3>2, AcquireCounts
  <2>4. CASE o # Null /\ ~Touches(o)
    <3>1. Stop
      BY <1>8, <2>4 DEF AssignTakes
    <3>2. QED BY <1>0, <3>1, SameCounts DEF Stop
  <2>5. QED BY <2>2, <2>3, <2>4
<1>9. CASE MoveTakes(t)
  <2> DEFINE h == op[t].to
             g == op[t].from
  <2>1. /\ h \in Strong /\ g \in Strong /\ sh[h] = Null /\ h # g
    BY <1>9, Operands DEF MoveTakes, Resumes, CountInv, TargetsEmpty, Fills
  <2>2. /\ sh' = [sh EXCEPT ![h] = sh[g], ![g] = Null]
        /\ op' = [op EXCEPT ![t] = None] /\ UNCHANGED <<strong, block>>
    BY <1>9 DEF MoveTakes, Finish
  <2>3. StrongCountsOwners'
    BY <2>1, <2>2, CountMoves DEF CountInv
  <2>4. TargetsEmpty' /\ TargetsPrivate'
    <3>1. None \in Pending /\ None.do \notin Fills
      BY DEF Pending, None, Fills
    <3>2. \A f \in Strong : sh'[f] # sh[f] => f \in {h, g}
      BY <2>2 DEF CountInv, TypeOK
    <3>3. QED BY <2>2, <3>1, <3>2, TargetsKept
  <2>5. FreshUncounted'
    <3>1. \A u \in Thread : op'[u].do = "lockTake" => op'[u] = op[u]
      BY <2>2 DEF None, CountInv, TypeOK
    <3>2. QED BY <2>2, <3>1 DEF CountInv, FreshUncounted
  <2>6. QED BY <1>0, <2>3, <2>4, <2>5 DEF CountInv
<1>10. QED
  BY <1>1, <1>2, <1>3, <1>4, <1>5, <1>6, <1>7, <1>8, <1>9 DEF StrongStep

LEMMA WeakDropCounts ==
  ASSUME CountInv, TypeOK', NEW t \in Thread, NEW w \in Weak,
         NEW rest \in Pending, WeakDrop(t, w, rest),
         \/ rest = op[t]
         \/ rest.do \notin Fills /\ ~Busy(rest.to) /\ ~Busy(rest.from)
  PROVE  CountInv'
<1>1. CASE Stop
  BY <1>1, SameCounts DEF Stop
<1>2. CASE ~Stop
  <2>1. op' = [op EXCEPT ![t] = rest] /\ UNCHANGED <<sh, strong, block>>
    BY <1>2 DEF WeakDrop
  <2>2. CASE rest = op[t]
    <3>1. UNCHANGED op
      BY <2>1, <2>2 DEF CountInv, TypeOK
    <3>2. QED BY <2>1, <3>1, SameCounts
  <2>3. CASE rest # op[t]
    BY <2>1, <2>3, OtherOperation
  <2>4. QED BY <2>2, <2>3
<1>3. QED BY <1>1, <1>2

LEMMA WeakStepCounts ==
  ASSUME CountInv, NEW t \in Thread, WeakStep(t)
  PROVE  CountInv'
<1>0. TypeOK'
  BY WeakStepType DEF CountInv
<1> USE <1>0
<1>1. ASSUME NEW w \in Weak, NEW h \in Strong, WeakMake(t, w, h)
      PROVE  CountInv'
  BY <1>1, SameCounts DEF WeakMake, Observe, Stop
<1>2. ASSUME NEW w \in Weak, NEW v \in Weak, WeakCopy(t, w, v)
      PROVE  CountInv'
  BY <1>2, SameCounts DEF WeakCopy, Observe, Stop
<1>3. ASSUME NEW w \in Weak, NEW h \in Strong, WeakAssign(t, w, h)
      PROVE  CountInv'
  <2> DEFINE rest == Doing("weakTake", Null, w, h)
  <2>1. /\ rest \in Pending /\ rest.do \notin Fills
        /\ rest.to = w /\ rest.from = h
    BY DEF Pending, Doing, Fills
  <2>2. WeakDrop(t, w, rest) /\ ~Busy(w) /\ ~Busy(h)
    BY <1>3 DEF WeakAssign, Variable, Usable
  <2>3. QED BY <2>1, <2>2, WeakDropCounts
<1>4. ASSUME NEW w \in Weak, NEW v \in Weak, WeakMove(t, w, v)
      PROVE  CountInv'
  <2> DEFINE rest == Doing("weakMoveTo", Null, w, v)
  <2>1. /\ rest \in Pending /\ rest.do \notin Fills
        /\ rest.to = w /\ rest.from = v
    BY DEF Pending, Doing, Fills
  <2>2. WeakDrop(t, w, rest) /\ ~Busy(w) /\ ~Busy(v)
    BY <1>4 DEF WeakMove, Variable, Usable
  <2>3. QED BY <2>1, <2>2, WeakDropCounts
<1>5. ASSUME NEW w \in Weak, NEW v \in Weak, WeakCopyAssign(t, w, v)
      PROVE  CountInv'
  <2> DEFINE rest == Doing("weakCopyTo", Null, w, v)
  <2>1. /\ rest \in Pending /\ rest.do \notin Fills
        /\ rest.to = w /\ rest.from = v
    BY DEF Pending, Doing, Fills
  <2>2. WeakDrop(t, w, rest) /\ ~Busy(w) /\ ~Busy(v)
    BY <1>5 DEF WeakCopyAssign, Variable, Usable
  <2>3. QED BY <2>1, <2>2, WeakDropCounts
<1>6. ASSUME NEW w \in Weak, WeakRelease(t, w) \/ Listener(t, w)
      PROVE  CountInv'
  <2>1. op[t] \in Pending
    BY DEF CountInv, TypeOK
  <2>2. WeakDrop(t, w, op[t])
    BY <1>6 DEF WeakRelease, Listener
  <2>3. QED BY <2>1, <2>2, WeakDropCounts
<1>7. ASSUME NEW h \in Strong, NEW w \in Weak, Lock(t, h, w)
      PROVE  CountInv'
  <2> DEFINE new == Doing("lockTake", wk[w], h, w)
  <2>1. /\ sh[h] = Null /\ ~Busy(h) /\ ~Busy(w) /\ wk[w] \in Object
    BY <1>7 DEF Lock, Usable, CountInv, TypeOK
  <2>2. /\ new \in Pending /\ new.do = "lockTake" /\ new.obj = wk[w]
        /\ new.to = h /\ new.from = w
    BY <2>1 DEF Pending, Doing
  <2>3. CASE Touches(wk[w])
    <3>1. /\ op' = [op EXCEPT ![t] = new] /\ UNCHANGED <<sh, strong, block>>
          /\ strong[wk[w]] > 0
      BY <1>7, <2>3 DEF Lock
    <3>2. StrongCountsOwners'
      BY <3>1 DEF CountInv, StrongCountsOwners, Owners
    <3>3. TargetsEmpty' /\ TargetsPrivate'
      BY <2>1, <2>2, <3>1, TargetsKept
    <3>4. block[wk[w]] # "none"
      BY <2>1, <3>1 DEF CountInv, FreshUncounted
    <3>5. FreshUncounted'
      BY <2>2, <3>1, <3>4 DEF CountInv, FreshUncounted, TypeOK
    <3>6. QED BY <3>2, <3>3, <3>5 DEF CountInv
  <2>4. CASE ~Touches(wk[w])
    BY <1>7, <2>4, SameCounts DEF Lock, Stop
  <2>5. QED BY <2>3, <2>4
<1>8. CASE CheckStrong(t)
  BY <1>8, FreeIfCounts DEF CheckStrong
<1> DEFINE Settled == /\ op' = [op EXCEPT ![t] = None]
                      /\ UNCHANGED <<sh, strong, block>>
<1>9. CASE Settled
  BY <1>9, NoOperation
<1>10. ASSUME WeakAssignTakes(t) \/ WeakMoveTakes(t) \/ WeakCopyTakes(t)
       PROVE  CountInv'
  <2>1. Stop \/ Settled
    BY <1>10 DEF WeakAssignTakes, WeakMoveTakes, WeakCopyTakes, Observe, Finish
  <2>2. QED BY <1>9, <2>1, SameCounts DEF Stop
<1>11. CASE LockTakes(t)
  <2> DEFINE o == op[t].obj
  <2>1. /\ op[t].to \in Strong /\ o \in Object /\ sh[op[t].to] = Null
        /\ block[o] # "none"
    BY <1>11, Operands
       DEF LockTakes, Resumes, CountInv, TargetsEmpty, FreshUncounted, Fills
  <2>2. CASE Touches(o)
    <3>1. Acquire(op[t].to, o) /\ Finish(t)
      BY <1>11, <2>2 DEF LockTakes
    <3>2. QED BY <2>1, <3>1, AcquireCounts
  <2>3. CASE ~Touches(o)
    BY <1>11, <2>3, SameCounts DEF LockTakes, Stop
  <2>4. QED BY <2>2, <2>3
<1>12. QED
  BY <1>1, <1>2, <1>3, <1>4, <1>5, <1>6, <1>7, <1>8, <1>10, <1>11 DEF WeakStep

LEMMA CountInvInductive == CountInv /\ [Next]_vars => CountInv'
<1>1. ASSUME CountInv, NEW t \in Thread, StrongStep(t) \/ WeakStep(t)
      PROVE  CountInv'
  BY <1>1, StrongStepCounts, WeakStepCounts
<1>2. ASSUME CountInv, UNCHANGED vars
      PROVE  CountInv'
  <2>1. TypeOK'
    BY <1>2 DEF CountInv, TypeOK, vars
  <2>2. QED BY <1>2, <2>1, SameCounts DEF vars
<1>3. QED BY <1>1, <1>2 DEF Next

LEMMA CountInvInitially == Init => CountInv
<1>1. SUFFICES ASSUME Init PROVE CountInv
  OBVIOUS
<1>2. TypeOK
  BY <1>1, InitType
<1>3. StrongCountsOwners
  <2>1. ASSUME NEW o \in Object PROVE Owners(o) = {}
    BY <1>1, NullFresh DEF Init, Owners
  <2>2. QED BY <1>1, <2>1, FS_EmptySet DEF Init, StrongCountsOwners
<1>4. TargetsEmpty /\ TargetsPrivate /\ FreshUncounted
  BY <1>1 DEF Init, None, Fills, TargetsEmpty, TargetsPrivate, FreshUncounted
<1>5. QED BY <1>2, <1>3, <1>4 DEF CountInv

\* Whatever the threads do, the strong count of a control block is the number
\* of shared_t that share it: this covers every operation of resource.hpp, the
\* faulty ones included, because none of them miscounts owners.
THEOREM StrongCountExact == Spec => []StrongCountsOwners
<1>1. CountInv => StrongCountsOwners
  BY DEF CountInv
<1>2. QED BY <1>1, CountInvInitially, CountInvInductive, PTL DEF Spec

-----------------------------------------------------------------------------
(* Owned objects are alive and die once, in programs that do not promote.  *)

\* Without lock(), a handle is only ever filled from one that owns the object:
\* what is being taken down has no owner and finds none.
NoPromotion == \A t \in Thread : op[t].do # "lockTake"

Dead == {"dying", "deleted"}

TakenDownIsDead ==
  \A t \in Thread : \A i \in 1..Len(stack[t]) :
    stack[t][i].do # "checkStrong" => data[stack[t][i].obj] \in Dead

FreshHasNoData == \A o \in Object : block[o] = "none" => data[o] = "none"

LiveInv == /\ CountInv /\ OwnedIsLive
           /\ NoPromotion /\ TakenDownIsDead /\ FreshHasNoData

\* The blocks being taken down stay dead if the one that is pushed is.
LEMMA TakenDownKept ==
  ASSUME LiveInv, NEW t \in Thread, NEW f \in Frame,
         f.do # "checkStrong" => data'[f.obj] \in Dead,
         \A o \in Object : data[o] \in Dead => data'[o] \in Dead,
         \/ UNCHANGED stack
         \/ stack' = [stack EXCEPT ![t] = <<f>> \o @]
         \/ stack[t] # <<>> /\ stack' = [stack EXCEPT ![t] = Tail(@)]
         \/ stack[t] # <<>> /\ stack' = [stack EXCEPT ![t] = <<f>> \o Tail(@)]
  PROVE  TakenDownIsDead'
<1>1. SUFFICES ASSUME NEW u \in Thread, NEW i \in 1..Len(stack'[u]),
                      stack'[u][i].do # "checkStrong"
               PROVE  data'[stack'[u][i].obj] \in Dead
  BY DEF TakenDownIsDead
<1>2. stack[u] \in Seq(Frame) /\ stack[t] \in Seq(Frame)
  BY DEF LiveInv, CountInv, TypeOK
<1>3. ASSUME NEW j \in 1..Len(stack[u]), stack[u][j] = stack'[u][i]
      PROVE  data'[stack'[u][i].obj] \in Dead
  <2>1. stack[u][j].obj \in Object
    <3>1. stack[u][j] \in Frame
      BY <1>2
    <3>2. QED BY <3>1 DEF Frame
  <2>2. data[stack[u][j].obj] \in Dead
    BY <1>1, <1>3 DEF LiveInv, TakenDownIsDead
  <2>3. QED BY <1>3, <2>1, <2>2
<1>4. CASE UNCHANGED stack \/ u # t
  <2>1. stack'[u] = stack[u]
    BY <1>4 DEF LiveInv, CountInv, TypeOK
  <2>2. QED BY <1>3, <2>1
<1>5. CASE u = t /\ stack' = [stack EXCEPT ![t] = <<f>> \o @]
  <2>1. stack'[u] = <<f>> \o stack[u]
    BY <1>5 DEF LiveInv, CountInv, TypeOK
  <2>2. CASE i = 1
    <3>1. stack'[u][1] = f
      BY <1>2, <2>1
    <3>2. QED BY <1>1, <2>2, <3>1
  <2>3. CASE i # 1
    <3>1. i - 1 \in 1..Len(stack[u]) /\ stack'[u][i] = stack[u][i - 1]
      BY <1>2, <2>1, <2>3
    <3>2. QED BY <1>3, <3>1
  <2>4. QED BY <2>2, <2>3
<1>6. CASE u = t /\ stack[t] # <<>> /\ stack' = [stack EXCEPT ![t] = Tail(@)]
  <2>1. stack'[u] = Tail(stack[u])
    BY <1>6 DEF LiveInv, CountInv, TypeOK
  <2>2. i + 1 \in 1..Len(stack[u]) /\ stack'[u][i] = stack[u][i + 1]
    <3> DEFINE s == stack[u]
    <3>1. s \in Seq(Frame) /\ s # <<>>
      BY <1>2, <1>6
    <3>2. Len(Tail(s)) = Len(s) - 1 /\ Len(s) \in Nat
      BY <3>1
    <3>3. i + 1 \in 1..Len(s)
      BY <2>1, <3>2
    <3>4. QED BY <2>1, <3>1, <3>3
  <2>3. QED BY <1>3, <2>2
<1>7. CASE /\ u = t /\ stack[t] # <<>>
           /\ stack' = [stack EXCEPT ![t] = <<f>> \o Tail(@)]
  <2>1. stack'[u] = <<f>> \o Tail(stack[u])
    BY <1>7 DEF LiveInv, CountInv, TypeOK
  <2>2. CASE i = 1
    <3>1. stack'[u][1] = f
      BY <1>2, <1>7, <2>1
    <3>2. QED BY <1>1, <2>2, <3>1
  <2>3. CASE i # 1
    <3>1. i \in 1..Len(stack[u]) /\ stack'[u][i] = stack[u][i]
      BY <1>2, <1>7, <2>1, <2>3
    <3>2. QED BY <1>3, <3>1
  <2>4. QED BY <2>2, <2>3
<1>8. QED BY <1>4, <1>5, <1>6, <1>7

\* What the steps have in common: an object goes from nothing to alive to dying
\* to deleted, and what the handles are bound to after the step is alive.
LEMMA LiveKept ==
  ASSUME LiveInv, CountInv', NEW t \in Thread, NEW f \in Frame,
         \A o \in Object :
           \/ data'[o] = data[o]
           \/ data[o] = "none" /\ data'[o] = "live" /\ block'[o] # "none"
           \/ data[o] = "live" /\ data'[o] = "dying"
           \/ data[o] \in Dead /\ data'[o] = "deleted",
         \A o \in Object : block'[o] = "none" => block[o] = "none",
         \A h \in Strong : sh'[h] # Null => data'[sh'[h]] = "live",
         \A u \in Thread : op'[u].do = "lockTake" => op[u].do = "lockTake",
         f.do # "checkStrong" => data'[f.obj] \in Dead,
         \/ UNCHANGED stack
         \/ stack' = [stack EXCEPT ![t] = <<f>> \o @]
         \/ stack[t] # <<>> /\ stack' = [stack EXCEPT ![t] = Tail(@)]
         \/ stack[t] # <<>> /\ stack' = [stack EXCEPT ![t] = <<f>> \o Tail(@)]
  PROVE  LiveInv' /\ DiesOnce
<1>1. OwnedIsLive'
  BY DEF OwnedIsLive
<1>2. NoPromotion'
  BY DEF LiveInv, NoPromotion
<1>3. FreshHasNoData'
  BY DEF LiveInv, FreshHasNoData, Dead
<1>4. TakenDownIsDead'
  <2>1. \A o \in Object : data[o] \in Dead => data'[o] \in Dead
    BY DEF Dead
  <2>2. QED BY <2>1, TakenDownKept
<1>5. DiesOnce
  BY DEF DiesOnce, Dead
<1>6. QED BY <1>1, <1>2, <1>3, <1>4, <1>5 DEF LiveInv

\* A step that lets no object live or die and binds a handle, if at all, to
\* what another one owns.
LEMMA QuietLive ==
  ASSUME LiveInv, CountInv', NEW t \in Thread, NEW f \in Frame,
         UNCHANGED data, f.do = "checkStrong",
         \A o \in Object : block'[o] = "none" => block[o] = "none",
         \A h \in Strong : sh'[h] = Null \/ \E g \in Strong : sh'[h] = sh[g],
         \A u \in Thread : op'[u].do = "lockTake" => op[u].do = "lockTake",
         \/ UNCHANGED stack
         \/ stack' = [stack EXCEPT ![t] = <<f>> \o @]
         \/ stack[t] # <<>> /\ stack' = [stack EXCEPT ![t] = Tail(@)]
  PROVE  LiveInv' /\ DiesOnce
<1>1. \A h \in Strong : sh'[h] # Null => data'[sh'[h]] = "live"
  BY DEF LiveInv, OwnedIsLive
<1>2. QED BY <1>1, LiveKept

LEMMA StopLive ==
  ASSUME LiveInv, CountInv', NEW o \in Object, NEW t \in Thread, Stop
  PROVE  LiveInv' /\ DiesOnce
<1> DEFINE f == [do |-> "checkStrong", obj |-> o]
<1>1. f \in Frame /\ f.do = "checkStrong"
  BY DEF Frame
<1>2. UNCHANGED <<sh, data, block, op, stack>>
  BY DEF Stop
<1>3. \A h \in Strong : sh'[h] = Null \/ \E g \in Strong : sh'[h] = sh[g]
  BY <1>2
<1>4. QED BY <1>1, <1>2, <1>3, QuietLive

\* The last owner goes: nobody is bound to the object whose destructor starts.
LEMMA DropLive ==
  ASSUME LiveInv, CountInv', NEW t \in Thread, NEW h \in Strong,
         NEW rest \in Pending, Drop(t, h, rest),
         rest.do = "lockTake" => rest = op[t],
         NEW x \in Object
  PROVE  LiveInv' /\ DiesOnce
<1> USE DEF LiveInv, CountInv
<1>1. CASE sh[h] # Null /\ ~Touches(sh[h])
  <2>1. Stop
    BY <1>1 DEF Drop
  <2>2. QED BY <2>1, StopLive
<1>2. CASE sh[h] = Null \/ Touches(sh[h])
  <2> DEFINE o == IF sh[h] = Null THEN x ELSE sh[h]
             last == sh[h] # Null /\ strong[o] = 1
             f == [do |-> IF last THEN "destroy" ELSE "checkStrong", obj |-> o]
  <2>1. o \in Object /\ f \in Frame
    BY DEF TypeOK, Frame
  <2>2. /\ op' = [op EXCEPT ![t] = rest] /\ UNCHANGED block
        /\ \A g \in Strong : sh'[g] = Null \/ sh'[g] = sh[g]
    BY <1>2 DEF Drop, TypeOK
  <2>3. \A u \in Thread : op'[u].do = "lockTake" => op[u].do = "lockTake"
    BY <2>2 DEF TypeOK
  <2>4. CASE ~last
    <3>1. UNCHANGED <<data, stack>>
      BY <1>2, <2>4 DEF Drop
    <3>2. f.do = "checkStrong"
      BY <2>4
    <3>3. QED BY <2>1, <2>2, <2>3, <3>1, <3>2, QuietLive
  <2>5. CASE last
    <3>1. /\ data' = [data EXCEPT ![o] = "dying"]
          /\ stack' = [stack EXCEPT ![t] = <<f>> \o @]
          /\ strong' = [strong EXCEPT ![o] = strong[o] - 1]
      BY <1>2, <2>5 DEF Drop, Push
    <3>2. data[o] = "live" /\ data'[o] = "dying"
      BY <2>1, <2>5, <3>1 DEF OwnedIsLive, TypeOK
    <3>3. ASSUME NEW p \in Object, p = o
          PROVE  Owners(p)' = {}
      <4>1. strong'[p] = 0
        BY <2>5, <3>1, <3>3 DEF TypeOK
      <4>2. Cardinality(Owners(p)') = 0
        BY <4>1 DEF StrongCountsOwners
      <4>3. IsFiniteSet(Owners(p)')
        BY FiniteHandles, FS_Subset DEF Owners
      <4>4. QED BY <4>2, <4>3, FS_EmptySet
    <3>4. \A g \in Strong : sh'[g] # Null => data'[sh'[g]] = "live"
      <4>1. SUFFICES ASSUME NEW g \in Strong, sh'[g] # Null
                     PROVE  data'[sh'[g]] = "live"
        OBVIOUS
      <4>2. sh'[g] = sh[g] /\ sh[g] \in Object /\ data[sh[g]] = "live"
        BY <2>2, <4>1 DEF OwnedIsLive, TypeOK
      <4>3. sh'[g] # o
        BY <3>3, <4>2 DEF Owners
      <4>4. QED BY <3>1, <4>2, <4>3 DEF TypeOK
    <3>5. \A p \in Object : \/ data'[p] = data[p]
                            \/ data[p] = "live" /\ data'[p] = "dying"
      BY <3>1, <3>2 DEF TypeOK
    <3>6. data'[f.obj] \in Dead
      BY <3>2 DEF Dead
    <3>7. QED BY <2>1, <2>2, <2>3, <3>1, <3>4, <3>5, <3>6, LiveKept
  <2>6. QED BY <2>4, <2>5
<1>3. QED BY <1>1, <1>2

\* A step that keeps the stacks and lets no object live or die.
LEMMA SteadyLive ==
  ASSUME LiveInv, CountInv', UNCHANGED <<data, block, stack>>, NEW t \in Thread,
         \A h \in Strong : sh'[h] = Null \/ \E g \in Strong : sh'[h] = sh[g],
         op' = [op EXCEPT ![t] = None] \/ UNCHANGED op
  PROVE  LiveInv' /\ DiesOnce
<1>1. PICK x \in Object : TRUE
  BY SomeObject
<1> DEFINE f == [do |-> "checkStrong", obj |-> x]
<1>2. f \in Frame /\ f.do = "checkStrong"
  BY DEF Frame
<1>3. ASSUME NEW u \in Thread, op'[u].do = "lockTake"
      PROVE  op[u].do = "lockTake"
  <2>1. None.do # "lockTake"
    BY DEF None
  <2>2. op'[u] \in {None, op[u]}
    BY DEF LiveInv, CountInv, TypeOK
  <2>3. QED BY <1>3, <2>1, <2>2
<1>4. \A h \in Strong : sh'[h] # Null => data'[sh'[h]] = "live"
  BY DEF LiveInv, OwnedIsLive
<1>5. QED BY <1>2, <1>3, <1>4, LiveKept

LEMMA FreeIfLive ==
  ASSUME LiveInv, CountInv', NEW t \in Thread, NEW o, NEW other,
         stack[t] # <<>>, FreeIf(t, o, other)
  PROVE  LiveInv' /\ DiesOnce
<1>1. PICK x \in Object : TRUE
  BY SomeObject
<1>2. CASE Stop
  BY <1>1, <1>2, StopLive
<1>3. CASE ~Stop
  <2> DEFINE f == [do |-> "checkStrong", obj |-> x]
  <2>1. f \in Frame /\ f.do = "checkStrong"
    BY DEF Frame
  <2>2. /\ stack' = [stack EXCEPT ![t] = Tail(@)] /\ UNCHANGED <<sh, data, op>>
        /\ \A p \in Object : block'[p] = "none" => block[p] = "none"
    BY <1>3 DEF FreeIf, Pop, LiveInv, CountInv, TypeOK
  <2>3. \A h \in Strong : sh'[h] = Null \/ \E g \in Strong : sh'[h] = sh[g]
    BY <2>2
  <2>4. QED BY <2>1, <2>2, <2>3, QuietLive
<1>4. QED BY <1>2, <1>3

LEMMA StrongStepLive ==
  ASSUME LiveInv, NEW t \in Thread, StrongStep(t)
  PROVE  LiveInv' /\ DiesOnce
<1> USE DEF LiveInv
<1>0. CountInv' /\ TypeOK /\ TypeOK'
  BY StrongStepCounts DEF CountInv
<1>1. PICK x \in Object : TRUE
  BY SomeObject
<1>2. ASSUME NEW h \in Strong, NEW o \in Object, Make(t, h, o)
      PROVE  LiveInv' /\ DiesOnce
  <2> DEFINE f == [do |-> "checkStrong", obj |-> o]
  <2>1. f \in Frame /\ f.do = "checkStrong"
    BY DEF Frame
  <2>2. /\ sh' = [sh EXCEPT ![h] = o] /\ data' = [data EXCEPT ![o] = "live"]
        /\ block' = [block EXCEPT ![o] = "live"] /\ UNCHANGED <<op, stack>>
        /\ block[o] = "none" /\ data[o] = "none"
    BY <1>2 DEF Make, FreshHasNoData
  <2>3. \A p \in Object :
          \/ data'[p] = data[p]
          \/ data[p] = "none" /\ data'[p] = "live" /\ block'[p] # "none"
    BY <1>0, <2>2 DEF TypeOK
  <2>4. \A p \in Object : block'[p] = "none" => block[p] = "none"
    BY <1>0, <2>2 DEF TypeOK
  <2>5. \A g \in Strong : sh'[g] # Null => data'[sh'[g]] = "live"
    BY <1>0, <2>2 DEF TypeOK, OwnedIsLive
  <2>6. QED BY <1>0, <2>1, <2>2, <2>3, <2>4, <2>5, LiveKept
<1>3. ASSUME NEW h \in Strong, NEW g \in Strong, Copy(t, h, g)
      PROVE  LiveInv' /\ DiesOnce
  <2>1. CASE Touches(sh[g])
    <3>1. UNCHANGED <<data, block, stack, op>> /\ sh' = [sh EXCEPT ![h] = sh[g]]
      BY <1>3, <2>1 DEF Copy, Acquire
    <3>2. \A k \in Strong : sh'[k] = Null \/ \E m \in Strong : sh'[k] = sh[m]
      BY <1>0, <3>1 DEF TypeOK
    <3>3. QED BY <1>0, <3>1, <3>2, SteadyLive
  <2>2. CASE ~Touches(sh[g])
    BY <1>0, <1>1, <1>3, <2>2, StopLive DEF Copy
  <2>3. QED BY <2>1, <2>2
<1>4. ASSUME NEW h \in Strong, NEW g \in Strong, Assign(t, h, g) \/ Move(t, h, g)
      PROVE  LiveInv' /\ DiesOnce
  <2>1. PICK do \in {"take", "moveTo"} : Drop(t, h, Doing(do, Null, h, g))
    BY <1>4 DEF Assign, Move
  <2>2. /\ Doing(do, Null, h, g) \in Pending
        /\ Doing(do, Null, h, g).do # "lockTake"
    BY DEF Pending, Doing
  <2>3. QED BY <1>0, <1>1, <2>1, <2>2, DropLive
<1>5. ASSUME NEW h \in Strong, Release(t, h)
      PROVE  LiveInv' /\ DiesOnce
  <2>1. Drop(t, h, op[t]) /\ op[t] \in Pending
    BY <1>0, <1>5 DEF Release, TypeOK
  <2>2. QED BY <1>0, <1>1, <2>1, DropLive
<1>6. CASE DestroyEnds(t)
  <2> DEFINE o == Head(stack[t]).obj
             f == [do |-> "checkWeak", obj |-> o]
  <2>1. stack[t] # <<>> /\ o \in Object /\ Head(stack[t]).do = "destroy"
    BY <1>0, <1>6, TopIsFrame DEF DestroyEnds, At, Frame
  <2>2. CASE Touches(o)
    <3>1. /\ data' = [data EXCEPT ![o] = "deleted"]
          /\ stack' = [stack EXCEPT ![t] = <<f>> \o Tail(@)]
          /\ UNCHANGED <<sh, block, op>>
      BY <1>6, <2>2 DEF DestroyEnds
    <3>2. f \in Frame
      BY <2>1 DEF Frame
    <3>3. data[o] \in Dead
      <4>1. /\ stack[t][1].do # "checkStrong" /\ stack[t][1].obj = o
            /\ 1 \in 1..Len(stack[t])
        BY <1>0, <2>1 DEF TypeOK
      <4>2. QED BY <4>1 DEF TakenDownIsDead
    <3>4. \A p \in Object : \/ data'[p] = data[p]
                            \/ data[p] \in Dead /\ data'[p] = "deleted"
      BY <1>0, <3>1, <3>3 DEF TypeOK
    <3>5. data'[f.obj] \in Dead
      BY <1>0, <2>1, <3>1 DEF TypeOK, Dead
    <3>6. \A g \in Strong : sh'[g] # Null => data'[sh'[g]] = "live"
      BY <1>0, <3>1, <3>3 DEF TypeOK, OwnedIsLive, Dead
    <3>7. QED BY <1>0, <2>1, <3>1, <3>2, <3>4, <3>5, <3>6, LiveKept
  <2>3. CASE ~Touches(o)
    BY <1>0, <1>1, <1>6, <2>3, StopLive DEF DestroyEnds
  <2>4. QED BY <2>2, <2>3
<1>7. CASE CheckWeak(t)
  BY <1>0, <1>7, FreeIfLive DEF CheckWeak, At
<1>8. CASE AssignTakes(t)
  <2> DEFINE g == op[t].from
  <2>1. op[t].to \in Strong /\ g \in Strong
    BY <1>0, <1>8, Operands DEF AssignTakes, Resumes
  <2>2. CASE Stop
    BY <1>0, <1>1, <2>2, StopLive
  <2>3. CASE ~Stop
    <3>1. /\ UNCHANGED <<data, block, stack>> /\ op' = [op EXCEPT ![t] = None]
          /\ UNCHANGED sh \/ sh' = [sh EXCEPT ![op[t].to] = sh[g]]
      BY <1>8, <2>3 DEF AssignTakes, Acquire, Finish
    <3>2. \A k \in Strong : sh'[k] = Null \/ \E m \in Strong : sh'[k] = sh[m]
      BY <1>0, <2>1, <3>1 DEF TypeOK
    <3>3. QED BY <1>0, <3>1, <3>2, SteadyLive
  <2>4. QED BY <2>2, <2>3
<1>9. CASE MoveTakes(t)
  <2>1. op[t].to \in Strong /\ op[t].from \in Strong
    BY <1>0, <1>9, Operands DEF MoveTakes, Resumes
  <2>2. /\ UNCHANGED <<data, block, stack>> /\ op' = [op EXCEPT ![t] = None]
        /\ sh' = [sh EXCEPT ![op[t].to] = sh[op[t].from], ![op[t].from] = Null]
    BY <1>9 DEF MoveTakes, Finish
  <2>3. \A k \in Strong : sh'[k] = Null \/ \E m \in Strong : sh'[k] = sh[m]
    BY <1>0, <2>1, <2>2 DEF TypeOK
  <2>4. QED BY <1>0, <2>2, <2>3, SteadyLive
<1>10. QED
  BY <1>2, <1>3, <1>4, <1>5, <1>6, <1>7, <1>8, <1>9 DEF StrongStep

LEMMA WeakDropLive ==
  ASSUME LiveInv, CountInv', NEW t \in Thread, NEW w \in Weak,
         NEW rest \in Pending, WeakDrop(t, w, rest),
         rest = op[t] \/ rest.do # "lockTake"
  PROVE  LiveInv' /\ DiesOnce
<1>1. PICK x \in Object : TRUE
  BY SomeObject
<1>2. CASE Stop
  BY <1>1, <1>2, StopLive
<1>3. CASE ~Stop
  <2> DEFINE o == IF wk[w] = Null THEN x ELSE wk[w]
             f == [do |-> "checkStrong", obj |-> o]
  <2>1. f \in Frame /\ f.do = "checkStrong"
    BY DEF Frame, LiveInv, CountInv, TypeOK
  <2>2. /\ UNCHANGED <<sh, data, block>> /\ op' = [op EXCEPT ![t] = rest]
        /\ UNCHANGED stack \/ stack' = [stack EXCEPT ![t] = <<f>> \o @]
    BY <1>3 DEF WeakDrop, Push
  <2>3. \A u \in Thread : op'[u].do = "lockTake" => op[u].do = "lockTake"
    BY <2>2 DEF LiveInv, CountInv, TypeOK
  <2>4. \A h \in Strong : sh'[h] # Null => data'[sh'[h]] = "live"
    BY <2>2 DEF LiveInv, OwnedIsLive
  <2>5. QED BY <2>1, <2>2, <2>3, <2>4, LiveKept
<1>4. QED BY <1>2, <1>3

LEMMA WeakStepLive ==
  ASSUME "lock" \notin Ops, LiveInv, NEW t \in Thread, WeakStep(t)
  PROVE  LiveInv' /\ DiesOnce
<1> USE DEF LiveInv
<1>0. CountInv' /\ TypeOK
  BY WeakStepCounts DEF CountInv
<1>1. PICK x \in Object : TRUE
  BY SomeObject
<1>2. ASSUME NEW w \in Weak, NEW h \in Strong, WeakAssign(t, w, h)
      PROVE  LiveInv' /\ DiesOnce
  <2>1. /\ Doing("weakTake", Null, w, h) \in Pending
        /\ Doing("weakTake", Null, w, h).do # "lockTake"
    BY DEF Pending, Doing
  <2>2. QED BY <1>0, <1>2, <2>1, WeakDropLive DEF WeakAssign
<1>3. ASSUME NEW w \in Weak, NEW v \in Weak,
             WeakMove(t, w, v) \/ WeakCopyAssign(t, w, v)
      PROVE  LiveInv' /\ DiesOnce
  <2>1. PICK do \in {"weakMoveTo", "weakCopyTo"} :
          WeakDrop(t, w, Doing(do, Null, w, v))
    BY <1>3 DEF WeakMove, WeakCopyAssign
  <2>2. /\ Doing(do, Null, w, v) \in Pending
        /\ Doing(do, Null, w, v).do # "lockTake"
    BY DEF Pending, Doing
  <2>3. QED BY <1>0, <2>1, <2>2, WeakDropLive
<1>4. ASSUME NEW w \in Weak, WeakRelease(t, w) \/ Listener(t, w)
      PROVE  LiveInv' /\ DiesOnce
  <2>1. WeakDrop(t, w, op[t]) /\ op[t] \in Pending
    BY <1>0, <1>4 DEF WeakRelease, Listener, TypeOK
  <2>2. QED BY <1>0, <2>1, WeakDropLive
<1>5. CASE CheckStrong(t)
  BY <1>0, <1>5, FreeIfLive DEF CheckStrong, At
<1> DEFINE Steady == /\ UNCHANGED <<sh, data, block, stack>>
                     /\ op' = [op EXCEPT ![t] = None] \/ UNCHANGED op
<1>6. CASE Steady
  <2>1. \A h \in Strong : sh'[h] = Null \/ \E g \in Strong : sh'[h] = sh[g]
    BY <1>6
  <2>2. QED BY <1>0, <1>6, <2>1, SteadyLive
<1>7. ASSUME \/ \E w \in Weak, h \in Strong : WeakMake(t, w, h)
             \/ \E w, v \in Weak : WeakCopy(t, w, v)
             \/ WeakAssignTakes(t) \/ WeakMoveTakes(t) \/ WeakCopyTakes(t)
      PROVE  LiveInv' /\ DiesOnce
  <2>1. Stop \/ Steady
    BY <1>7 DEF WeakMake, WeakCopy, WeakAssignTakes, WeakMoveTakes,
                WeakCopyTakes, Observe, Finish
  <2>2. QED BY <1>0, <1>1, <1>6, <2>1, StopLive
<1>8. ~LockTakes(t) /\ \A h \in Strong, w \in Weak : ~Lock(t, h, w)
  BY DEF LockTakes, Resumes, Lock, NoPromotion
<1>9. QED
  BY <1>2, <1>3, <1>4, <1>5, <1>7, <1>8 DEF WeakStep

LEMMA LiveInvInductive ==
  ASSUME "lock" \notin Ops
  PROVE  LiveInv /\ [Next]_vars => LiveInv' /\ [DiesOnce]_vars
<1>1. ASSUME LiveInv, NEW t \in Thread, StrongStep(t) \/ WeakStep(t)
      PROVE  LiveInv' /\ DiesOnce
  BY <1>1, StrongStepLive, WeakStepLive
<1>2. ASSUME LiveInv, UNCHANGED vars
      PROVE  LiveInv'
  <2>1. CountInv'
    BY <1>2, CountInvInductive DEF LiveInv
  <2>2. OwnedIsLive' /\ NoPromotion' /\ TakenDownIsDead' /\ FreshHasNoData'
    BY <1>2 DEF LiveInv, vars, OwnedIsLive, NoPromotion, TakenDownIsDead,
                FreshHasNoData
  <2>3. QED BY <2>1, <2>2 DEF LiveInv
<1>3. QED BY <1>1, <1>2 DEF Next

LEMMA LiveInvInitially == Init => LiveInv
<1>1. SUFFICES ASSUME Init PROVE LiveInv
  OBVIOUS
<1>2. CountInv
  BY <1>1, CountInvInitially
<1>3. OwnedIsLive /\ NoPromotion /\ FreshHasNoData
  BY <1>1 DEF Init, OwnedIsLive, NoPromotion, FreshHasNoData, None
<1>4. TakenDownIsDead
  BY <1>1 DEF Init, TakenDownIsDead
<1>5. QED BY <1>2, <1>3, <1>4 DEF LiveInv

\* As long as no program promotes a weak_t, no interleaving of the threads
\* starts the destructor of an object that somebody still owns.
THEOREM OwnedIsNeverDestroyed ==
  ASSUME "lock" \notin Ops
  PROVE  Spec => []OwnedIsLive
<1>1. LiveInv /\ [Next]_vars => LiveInv'
  BY LiveInvInductive
<1>2. LiveInv => OwnedIsLive
  BY DEF LiveInv
<1>3. QED BY <1>1, <1>2, LiveInvInitially, PTL DEF Spec

\* Under the same condition an object is destroyed at most once.
THEOREM NeverDestroyedTwice ==
  ASSUME "lock" \notin Ops
  PROVE  Spec => DestroyedOnce
<1>1. LiveInv /\ [Next]_vars => LiveInv'
  BY LiveInvInductive
<1>2. LiveInv /\ [Next]_vars => [DiesOnce]_vars
  BY LiveInvInductive
<1>3. QED BY <1>1, <1>2, LiveInvInitially, PTL DEF Spec, DestroyedOnce

-----------------------------------------------------------------------------
(* The weak count is the number of observers.                              *)

\* The same for the weak count, when no program assigns a weak_t by copy.
WeakFills == {"weakTake", "weakMoveTo"}

WeakTargetsEmpty ==
  \A t \in Thread : op[t].do \in WeakFills =>
    /\ wk[op[t].to] = Null
    /\ op[t].do = "weakMoveTo" => op[t].to # op[t].from

WeakTargetsPrivate ==
  \A t, u \in Thread : t # u /\ op[t].do \in WeakFills =>
    op[t].to \notin {op[u].to, op[u].from}

FreshUnobserved == \A o \in Object : block[o] = "none" => weak[o] = 0

NoCopyAssign == \A t \in Thread : op[t].do # "weakCopyTo"

WeakInv == /\ CountInv /\ WeakCountsObservers /\ WeakTargetsEmpty
           /\ WeakTargetsPrivate /\ FreshUnobserved /\ NoCopyAssign

LEMMA ObserversFinite ==
  ASSUME NEW o
  PROVE  IsFiniteSet(Observers(o))
BY FiniteHandles, FS_Subset DEF Observers

\* One handle joins the observers of o.
LEMMA WeakGains ==
  ASSUME TypeOK, WeakCountsObservers, NEW w \in Weak, NEW o \in Object,
         wk[w] = Null, wk' = [wk EXCEPT ![w] = o],
         weak' = [weak EXCEPT ![o] = weak[o] + 1]
  PROVE  WeakCountsObservers'
<1>1. SUFFICES ASSUME NEW p \in Object
               PROVE  weak'[p] = Cardinality(Observers(p)')
  BY DEF WeakCountsObservers
<1>2. weak[p] = Cardinality(Observers(p))
  BY DEF WeakCountsObservers
<1>3. CASE p = o
  <2>1. Observers(p)' = Observers(p) \cup {w} /\ w \notin Observers(p)
    BY <1>3, NullFresh DEF Observers, TypeOK
  <2>2. Cardinality(Observers(p)') = Cardinality(Observers(p)) + 1
    BY <2>1, ObserversFinite, FS_AddElement
  <2>3. QED BY <1>2, <1>3, <2>2 DEF TypeOK
<1>4. CASE p # o
  <2>1. Observers(p)' = Observers(p)
    BY <1>4, NullFresh DEF Observers, TypeOK
  <2>2. QED BY <1>2, <1>4, <2>1 DEF TypeOK
<1>5. QED BY <1>3, <1>4

\* One handle leaves the observers of o.
LEMMA WeakLoses ==
  ASSUME TypeOK, WeakCountsObservers, NEW w \in Weak, NEW o \in Object,
         wk[w] = o, wk' = [wk EXCEPT ![w] = Null],
         weak' = [weak EXCEPT ![o] = weak[o] - 1]
  PROVE  WeakCountsObservers'
<1>1. SUFFICES ASSUME NEW p \in Object
               PROVE  weak'[p] = Cardinality(Observers(p)')
  BY DEF WeakCountsObservers
<1>2. weak[p] = Cardinality(Observers(p))
  BY DEF WeakCountsObservers
<1>3. CASE p = o
  <2>1. Observers(p)' = Observers(p) \ {w} /\ w \in Observers(p)
    BY <1>3, NullFresh DEF Observers, TypeOK
  <2>2. Cardinality(Observers(p)') = Cardinality(Observers(p)) - 1
    BY <2>1, ObserversFinite, FS_RemoveElement
  <2>3. QED BY <1>2, <1>3, <2>2 DEF TypeOK
<1>4. CASE p # o
  <2>1. Observers(p)' = Observers(p)
    BY <1>4, NullFresh DEF Observers, TypeOK
  <2>2. QED BY <1>2, <1>4, <2>1 DEF TypeOK
<1>5. QED BY <1>3, <1>4

\* One handle takes over the block of another one.
LEMMA WeakMoves ==
  ASSUME TypeOK, WeakCountsObservers, NEW w \in Weak, NEW v \in Weak,
         w # v, wk[w] = Null, weak' = weak,
         wk' = [wk EXCEPT ![w] = wk[v], ![v] = Null]
  PROVE  WeakCountsObservers'
<1>1. SUFFICES ASSUME NEW p \in Object
               PROVE  weak'[p] = Cardinality(Observers(p)')
  BY DEF WeakCountsObservers
<1>2. weak[p] = Cardinality(Observers(p))
  BY DEF WeakCountsObservers
<1>3. CASE p = wk[v]
  <2> DEFINE rest == Observers(p) \ {v}
  <2>1. /\ Observers(p)' = rest \cup {w} /\ w \notin rest
        /\ v \in Observers(p)
    BY <1>3, NullFresh DEF Observers, TypeOK
  <2>2. IsFiniteSet(rest) /\ Cardinality(rest) = Cardinality(Observers(p)) - 1
    BY <2>1, ObserversFinite, FS_RemoveElement
  <2>3. Cardinality(Observers(p)') = Cardinality(rest) + 1
    BY <2>1, <2>2, FS_AddElement
  <2>4. Cardinality(Observers(p)) \in Nat
    BY ObserversFinite, FS_CardinalityType
  <2>5. QED BY <1>2, <2>2, <2>3, <2>4
<1>4. CASE p # wk[v]
  <2>1. Observers(p)' = Observers(p)
    BY <1>4, NullFresh DEF Observers, TypeOK
  <2>2. QED BY <1>2, <2>1
<1>5. QED BY <1>3, <1>4

\* An observed object has a positive weak count, hence a control block.
LEMMA ObservedHasBlock ==
  ASSUME WeakInv, NEW w \in Weak, wk[w] # Null
  PROVE  wk[w] \in Object /\ weak[wk[w]] > 0 /\ block[wk[w]] # "none"
<1>1. wk[w] \in Object
  BY DEF WeakInv, CountInv, TypeOK
<1>2. w \in Observers(wk[w])
  BY DEF Observers
<1>3. Cardinality(Observers(wk[w])) \in Nat \ {0}
  BY <1>2, ObserversFinite, FS_CardinalityType, FS_EmptySet
<1>4. weak[wk[w]] = Cardinality(Observers(wk[w]))
  BY <1>1 DEF WeakInv, WeakCountsObservers
<1>5. QED BY <1>1, <1>3, <1>4 DEF WeakInv, FreshUnobserved

\* The counterpart of TargetsKept.
LEMMA WeakTargetsKept ==
  ASSUME WeakInv, NEW t \in Thread, NEW new \in Pending,
         op' = [op EXCEPT ![t] = new],
         \A w \in Weak : wk'[w] # wk[w] =>
           ~Busy(w) \/ w \in {op[t].to, op[t].from},
         \/ new \in {None, op[t]}
         \/ ~Busy(new.to) /\ ~Busy(new.from),
         new.do \in WeakFills => /\ wk'[new.to] = Null
                                 /\ new.do = "weakMoveTo" => new.to # new.from
  PROVE  WeakTargetsEmpty' /\ WeakTargetsPrivate'
<1>0. TypeOK
  BY DEF WeakInv, CountInv
<1>1. op'[t] = new /\ \A u \in Thread : u # t => op'[u] = op[u]
  BY <1>0 DEF TypeOK
<1>2. ASSUME NEW u \in Thread, u # t, op[u].do \in WeakFills
      PROVE  /\ op[u].to \notin {op[t].to, op[t].from}
             /\ Busy(op[u].to) /\ op[u].to \in Weak
             /\ op[u].to # Null
  <2>1. op[u].to \notin {op[t].to, op[t].from}
    BY <1>2 DEF WeakInv, WeakTargetsPrivate
  <2>2. op[u].to \in Weak
    BY <1>0, <1>2, Operands DEF WeakFills
  <2>3. QED BY <2>1, <2>2, NullFresh DEF Busy
<1>3. WeakTargetsEmpty'
  <2>1. ASSUME NEW u \in Thread, u # t, op[u].do \in WeakFills
        PROVE  wk'[op[u].to] = Null
    BY <1>2, <2>1 DEF WeakInv, WeakTargetsEmpty
  <2>2. ASSUME NEW u \in Thread, op'[u].do \in WeakFills
        PROVE  /\ wk'[op'[u].to] = Null
               /\ op'[u].do = "weakMoveTo" => op'[u].to # op'[u].from
    BY <1>1, <2>1, <2>2 DEF WeakInv, WeakTargetsEmpty
  <2>3. QED BY <2>2 DEF WeakTargetsEmpty
<1>4. WeakTargetsPrivate'
  <2>1. SUFFICES ASSUME NEW u \in Thread, NEW v \in Thread, u # v,
                        op'[u].do \in WeakFills
                 PROVE  op'[u].to \notin {op'[v].to, op'[v].from}
    BY DEF WeakTargetsPrivate
  <2>2. CASE u # t /\ v # t
    BY <1>1, <2>1, <2>2 DEF WeakInv, WeakTargetsPrivate
  <2>3. CASE u # t /\ v = t
    BY <1>1, <1>2, <2>1, <2>3 DEF None
  <2>4. CASE u = t
    <3>1. op'[v] = op[v] /\ op'[u] = new /\ v # t
      BY <1>1, <2>1, <2>4
    <3>2. new # None
      BY <2>1, <3>1 DEF None, WeakFills
    <3>3. CASE new = op[t]
      BY <2>1, <2>4, <3>1, <3>3 DEF WeakInv, WeakTargetsPrivate
    <3>4. CASE ~Busy(new.to)
      BY <3>1, <3>4 DEF Busy
    <3>5. QED BY <3>2, <3>3, <3>4
  <2>5. QED BY <2>2, <2>3, <2>4
<1>5. QED BY <1>3, <1>4

\* What is left of the invariant when the counts are right after a step.
LEMMA WeakRestKept ==
  ASSUME WeakInv, CountInv', WeakCountsObservers',
         NEW t \in Thread, NEW new \in Pending,
         op' = [op EXCEPT ![t] = new],
         \A w \in Weak : wk'[w] # wk[w] =>
           ~Busy(w) \/ w \in {op[t].to, op[t].from},
         \/ new \in {None, op[t]}
         \/ ~Busy(new.to) /\ ~Busy(new.from) /\ new.do # "weakCopyTo",
         new.do \in WeakFills => /\ wk'[new.to] = Null
                                 /\ new.do = "weakMoveTo" => new.to # new.from,
         \A o \in Object : block'[o] = "none" =>
           block[o] = "none" /\ weak'[o] = weak[o]
  PROVE  WeakInv'
<1>1. WeakTargetsEmpty' /\ WeakTargetsPrivate'
  BY WeakTargetsKept
<1>2. FreshUnobserved'
  BY DEF WeakInv, FreshUnobserved
<1>3. NoCopyAssign'
  <2>1. new.do # "weakCopyTo"
    BY DEF WeakInv, NoCopyAssign, None
  <2>2. QED BY <2>1 DEF WeakInv, CountInv, TypeOK, NoCopyAssign
<1>4. QED BY <1>1, <1>2, <1>3 DEF WeakInv

\* A step that leaves the weak handles and their counts alone, and that starts
\* no operation on them.
LEMMA SameWeakCounts ==
  ASSUME WeakInv, CountInv', UNCHANGED <<wk, weak>>,
         NEW t \in Thread, NEW new \in Pending,
         op' = [op EXCEPT ![t] = new],
         \/ new \in {None, op[t]}
         \/ /\ ~Busy(new.to) /\ ~Busy(new.from)
            /\ new.do \notin WeakFills \cup {"weakCopyTo"},
         \A o \in Object : block'[o] = "none" => block[o] = "none"
  PROVE  WeakInv'
<1>1. WeakCountsObservers'
  BY DEF WeakInv, WeakCountsObservers, Observers
<1>2. new.do \in WeakFills => /\ wk'[new.to] = Null
                              /\ new.do = "weakMoveTo" => new.to # new.from
  BY DEF WeakInv, WeakTargetsEmpty, WeakFills, None
<1>3. QED BY <1>1, <1>2, WeakRestKept

\* The program is stopped.
LEMMA StopWeakCounts ==
  ASSUME WeakInv, CountInv', NEW t \in Thread, Stop
  PROVE  WeakInv'
<1>1. op' = [op EXCEPT ![t] = op[t]] /\ op[t] \in Pending
  BY DEF Stop, WeakInv, CountInv, TypeOK
<1>2. UNCHANGED <<wk, weak, block>>
  BY DEF Stop
<1>3. QED BY <1>1, <1>2, SameWeakCounts

\* What a step of shared_t does to what WeakInv is about.
LEMMA StrongStepWeakCounts ==
  ASSUME WeakInv, CountInv', NEW t \in Thread, StrongStep(t)
  PROVE  WeakInv'
<1>0. TypeOK /\ op[t] \in Pending /\ op = [op EXCEPT ![t] = op[t]]
  BY DEF WeakInv, CountInv, TypeOK
<1>1. CASE Stop
  BY <1>1, StopWeakCounts
<1>2. UNCHANGED <<wk, weak>>
  <2>1. ASSUME NEW h \in Strong, NEW rest, Drop(t, h, rest)
        PROVE  UNCHANGED <<wk, weak>>
    BY <2>1 DEF Drop, Stop
  <2>2. QED
    BY <2>1 DEF StrongStep, Make, Copy, Assign, Move, Release, DestroyEnds,
                CheckWeak, FreeIf, AssignTakes, MoveTakes, Acquire, Stop
<1>3. ASSUME NEW o \in Object, block'[o] = "none"
      PROVE  block[o] = "none"
  <2>1. ASSUME NEW h \in Strong, NEW rest, Drop(t, h, rest)
        PROVE  UNCHANGED block
    BY <2>1 DEF Drop, Stop
  <2>2. ASSUME NEW h \in Strong, NEW p \in Object, Make(t, h, p)
        PROVE  block[o] = "none"
    BY <1>0, <1>3, <2>2 DEF Make, TypeOK
  <2>3. ASSUME CheckWeak(t)
        PROVE  block[o] = "none"
    BY <1>0, <1>3, <2>3 DEF CheckWeak, FreeIf, Stop, TypeOK
  <2>4. QED
    BY <1>3, <2>1, <2>2, <2>3
       DEF StrongStep, Copy, Assign, Move, Release, DestroyEnds, AssignTakes,
           MoveTakes, Acquire, Stop
<1>4. ASSUME ~Stop, NEW h \in Strong, NEW rest \in Pending, Drop(t, h, rest)
      PROVE  op' = [op EXCEPT ![t] = rest]
  BY <1>4 DEF Drop
<1>5. ASSUME ~Stop, NEW h \in Strong, NEW g \in Strong,
             Assign(t, h, g) \/ Move(t, h, g)
      PROVE  WeakInv'
  <2>1. PICK do \in {"take", "moveTo"} : Drop(t, h, Doing(do, Null, h, g))
    BY <1>5 DEF Assign, Move
  <2> DEFINE rest == Doing(do, Null, h, g)
  <2>2. /\ rest \in Pending /\ rest.do \notin WeakFills \cup {"weakCopyTo"}
        /\ rest.to = h /\ rest.from = g
    BY DEF Pending, Doing, WeakFills
  <2>3. ~Busy(h) /\ ~Busy(g)
    BY <1>5 DEF Assign, Move, Variable, Usable
  <2>4. op' = [op EXCEPT ![t] = rest]
    BY <1>4, <1>5, <2>1, <2>2
  <2>5. QED BY <1>2, <1>3, <2>2, <2>3, <2>4, SameWeakCounts
<1>6. ASSUME ~Stop, \E h \in Strong : Release(t, h)
      PROVE  WeakInv'
  <2>1. op' = [op EXCEPT ![t] = op[t]]
    BY <1>0, <1>4, <1>6 DEF Release
  <2>2. QED BY <1>0, <1>2, <1>3, <2>1, SameWeakCounts
<1>7. ASSUME AssignTakes(t) \/ MoveTakes(t), ~Stop
      PROVE  WeakInv'
  <2>1. op' = [op EXCEPT ![t] = None] /\ None \in Pending
    BY <1>7 DEF AssignTakes, MoveTakes, Finish, Pending
  <2>2. QED BY <1>2, <1>3, <2>1, SameWeakCounts
<1>8. ASSUME \/ \E h \in Strong, o \in Object : Make(t, h, o)
             \/ \E h, g \in Strong : Copy(t, h, g)
             \/ DestroyEnds(t) \/ CheckWeak(t), ~Stop
      PROVE  WeakInv'
  <2>1. op' = [op EXCEPT ![t] = op[t]]
    BY <1>0, <1>8 DEF Make, Copy, DestroyEnds, CheckWeak, FreeIf
  <2>2. QED BY <1>0, <1>2, <1>3, <2>1, SameWeakCounts
<1>9. QED BY <1>1, <1>5, <1>6, <1>7, <1>8 DEF StrongStep

LEMMA WeakDropWeakCounts ==
  ASSUME WeakInv, CountInv', NEW t \in Thread, NEW w \in Weak,
         NEW rest \in Pending, WeakDrop(t, w, rest), ~Busy(w),
         \/ rest = op[t]
         \/ /\ rest.do \in WeakFills /\ rest.to = w /\ rest.from # w
            /\ ~Busy(rest.from)
  PROVE  WeakInv'
<1>0. TypeOK
  BY DEF WeakInv, CountInv
<1>1. CASE Stop
  BY <1>1, StopWeakCounts
<1>2. CASE ~Stop
  <2>1. /\ op' = [op EXCEPT ![t] = rest] /\ UNCHANGED block
        /\ \/ wk[w] = Null /\ UNCHANGED <<wk, weak>>
           \/ /\ wk[w] # Null /\ wk' = [wk EXCEPT ![w] = Null]
              /\ weak' = [weak EXCEPT ![wk[w]] = weak[wk[w]] - 1]
    BY <1>2 DEF WeakDrop
  <2>2. wk'[w] = Null /\ \A v \in Weak : v # w => wk'[v] = wk[v]
    BY <1>0, <2>1 DEF TypeOK
  <2>3. WeakCountsObservers'
    <3>1. CASE wk[w] = Null
      BY <2>1, <3>1 DEF WeakInv, WeakCountsObservers, Observers
    <3>2. CASE wk[w] # Null
      BY <1>0, <2>1, <3>2, WeakLoses, ObservedHasBlock DEF WeakInv
    <3>3. QED BY <3>1, <3>2
  <2>4. rest.do \in WeakFills =>
          /\ wk'[rest.to] = Null
          /\ rest.do = "weakMoveTo" => rest.to # rest.from
    <3>1. CASE rest = op[t] /\ rest.do \in WeakFills
      <4>1. /\ wk[op[t].to] = Null /\ op[t].to \in Weak
            /\ op[t].do = "weakMoveTo" => op[t].to # op[t].from
        BY <1>0, <3>1, Operands DEF WeakInv, WeakTargetsEmpty, WeakFills
      <4>2. QED BY <2>2, <3>1, <4>1
    <3>2. CASE rest # op[t]
      BY <2>2, <3>2
    <3>3. QED BY <3>1, <3>2
  <2>5. \A o \in Object : block'[o] = "none" =>
          block[o] = "none" /\ weak'[o] = weak[o]
    BY <1>0, <2>1, ObservedHasBlock DEF TypeOK
  <2>6. \/ rest = op[t]
        \/ ~Busy(rest.to) /\ ~Busy(rest.from) /\ rest.do # "weakCopyTo"
    BY DEF WeakFills
  <2>7. QED BY <2>1, <2>2, <2>3, <2>4, <2>5, <2>6, WeakRestKept
<1>3. QED BY <1>1, <1>2

\* Filling the empty handle w with o, and finishing the operation of t if it
\* was the one that fills w.
LEMMA ObserveWeakCounts ==
  ASSUME WeakInv, CountInv', NEW t \in Thread, NEW w \in Weak,
         NEW o \in Object, Observe(w, o), wk[w] = Null, block[o] # "none",
         \/ ~Busy(w) /\ UNCHANGED op /\ op[t] = None
         \/ w = op[t].to /\ Finish(t)
  PROVE  WeakInv'
<1>0. TypeOK
  BY DEF WeakInv, CountInv
<1>1. WeakCountsObservers'
  BY <1>0, WeakGains DEF WeakInv, Observe
<1>2. op' = [op EXCEPT ![t] = None] /\ None \in Pending
  BY <1>0 DEF Finish, TypeOK, Pending
<1>3. \A v \in Weak : wk'[v] # wk[v] => ~Busy(v) \/ v \in {op[t].to, op[t].from}
  BY <1>0 DEF Observe, TypeOK
<1>4. None.do \notin WeakFills
  BY DEF None, WeakFills
<1>5. \A p \in Object : block'[p] = "none" => block[p] = "none" /\ weak'[p] = weak[p]
  BY <1>0 DEF Observe, TypeOK
<1>6. QED BY <1>1, <1>2, <1>3, <1>4, <1>5, WeakRestKept

LEMMA WeakStepWeakCounts ==
  ASSUME "weakCopyAssign" \notin Ops, WeakInv, CountInv', NEW t \in Thread,
         WeakStep(t)
  PROVE  WeakInv'
<1>0. TypeOK /\ CountInv /\ op[t] \in Pending /\ op = [op EXCEPT ![t] = op[t]]
  BY DEF WeakInv, CountInv, TypeOK
<1>1. CASE Stop
  BY <1>1, StopWeakCounts
<1>2. ASSUME NEW w \in Weak, NEW h \in Strong, WeakMake(t, w, h), ~Stop
      PROVE  WeakInv'
  <2>1. /\ wk[w] = Null /\ ~Busy(w) /\ op[t] = None
        /\ sh[h] \in Object /\ block[sh[h]] # "none"
    BY <1>0, <1>2, OwnedHasBlock DEF WeakMake, Usable, Idle
  <2>2. Observe(w, sh[h]) /\ UNCHANGED op
    BY <1>2 DEF WeakMake
  <2>3. QED BY <2>1, <2>2, ObserveWeakCounts
<1>3. ASSUME NEW w \in Weak, NEW v \in Weak, WeakCopy(t, w, v), ~Stop
      PROVE  WeakInv'
  <2>1. /\ wk[w] = Null /\ ~Busy(w) /\ op[t] = None
        /\ wk[v] \in Object /\ block[wk[v]] # "none"
    BY <1>3, ObservedHasBlock DEF WeakCopy, Usable, Idle
  <2>2. Observe(w, wk[v]) /\ UNCHANGED op
    BY <1>3 DEF WeakCopy
  <2>3. QED BY <2>1, <2>2, ObserveWeakCounts
<1>4. ASSUME NEW w \in Weak, NEW h \in Strong, WeakAssign(t, w, h)
      PROVE  WeakInv'
  <2> DEFINE rest == Doing("weakTake", Null, w, h)
  <2>1. /\ rest \in Pending /\ rest.do \in WeakFills
        /\ rest.to = w /\ rest.from = h
    BY DEF Pending, Doing, WeakFills
  <2>2. WeakDrop(t, w, rest) /\ ~Busy(w) /\ ~Busy(h)
    BY <1>4 DEF WeakAssign, Variable, Usable
  <2>3. h # w
    BY HandleKinds
  <2>4. QED BY <2>1, <2>2, <2>3, WeakDropWeakCounts
<1>5. ASSUME NEW w \in Weak, NEW v \in Weak, WeakMove(t, w, v)
      PROVE  WeakInv'
  <2> DEFINE rest == Doing("weakMoveTo", Null, w, v)
  <2>1. /\ rest \in Pending /\ rest.do \in WeakFills
        /\ rest.to = w /\ rest.from = v
    BY DEF Pending, Doing, WeakFills
  <2>2. WeakDrop(t, w, rest) /\ ~Busy(w) /\ ~Busy(v) /\ v # w
    BY <1>5 DEF WeakMove, Variable, Usable
  <2>3. QED BY <2>1, <2>2, WeakDropWeakCounts
<1>6. ASSUME NEW w \in Weak, WeakRelease(t, w) \/ Listener(t, w)
      PROVE  WeakInv'
  <2>1. WeakDrop(t, w, op[t]) /\ ~Busy(w)
    BY <1>6 DEF WeakRelease, Listener, MayDestroy, Usable
  <2>2. QED BY <1>0, <2>1, WeakDropWeakCounts
<1>7. ASSUME NEW h \in Strong, NEW w \in Weak, Lock(t, h, w), ~Stop
      PROVE  WeakInv'
  <2> DEFINE new == Doing("lockTake", wk[w], h, w)
  <2>1. UNCHANGED <<wk, weak, block>> /\ op' = [op EXCEPT ![t] = new]
    BY <1>7 DEF Lock
  <2>2. wk[w] \in Object
    BY <1>0, <1>7 DEF Lock, TypeOK
  <2>3. /\ new \in Pending /\ new.do \notin WeakFills \cup {"weakCopyTo"}
        /\ new.to = h /\ new.from = w
    BY <2>2 DEF Pending, Doing, WeakFills
  <2>4. ~Busy(h) /\ ~Busy(w)
    BY <1>7 DEF Lock, Usable
  <2>5. QED BY <2>1, <2>3, <2>4, SameWeakCounts
<1>8. ASSUME CheckStrong(t), ~Stop
      PROVE  WeakInv'
  <2>1. UNCHANGED <<wk, weak>> /\ op' = [op EXCEPT ![t] = op[t]]
    BY <1>0, <1>8 DEF CheckStrong, FreeIf
  <2>2. \A o \in Object : block'[o] = "none" => block[o] = "none"
    BY <1>0, <1>8 DEF CheckStrong, FreeIf, TypeOK
  <2>3. QED BY <1>0, <2>1, <2>2, SameWeakCounts
<1>9. ASSUME WeakAssignTakes(t), ~Stop
      PROVE  WeakInv'
  <2> DEFINE o == sh[op[t].from]
  <2>1. op[t].to \in Weak /\ op[t].from \in Strong /\ wk[op[t].to] = Null
    BY <1>0, <1>9, Operands
       DEF WeakAssignTakes, Resumes, WeakInv, WeakTargetsEmpty, WeakFills
  <2>2. CASE o = Null
    <3>1. /\ op' = [op EXCEPT ![t] = None] /\ None \in Pending
          /\ UNCHANGED <<wk, weak, block>>
      BY <1>9, <2>2 DEF WeakAssignTakes, Finish, Pending
    <3>2. QED BY <3>1, SameWeakCounts
  <2>3. CASE o # Null
    <3>1. Observe(op[t].to, o) /\ Finish(t)
      BY <1>9, <2>3 DEF WeakAssignTakes
    <3>2. o \in Object /\ block[o] # "none"
      BY <1>0, <2>1, <2>3, OwnedHasBlock
    <3>3. QED BY <2>1, <3>1, <3>2, ObserveWeakCounts
  <2>4. QED BY <2>2, <2>3
<1>10. CASE WeakMoveTakes(t)
  <2> DEFINE w == op[t].to
             v == op[t].from
  <2>1. w \in Weak /\ v \in Weak /\ wk[w] = Null /\ w # v
    BY <1>0, <1>10, Operands
       DEF WeakMoveTakes, Resumes, WeakInv, WeakTargetsEmpty, WeakFills
  <2>2. /\ wk' = [wk EXCEPT ![w] = wk[v], ![v] = Null]
        /\ op' = [op EXCEPT ![t] = None] /\ UNCHANGED <<weak, block>>
    BY <1>10 DEF WeakMoveTakes, Finish
  <2>3. WeakCountsObservers'
    BY <1>0, <2>1, <2>2, WeakMoves DEF WeakInv
  <2>4. None \in Pending /\ None.do \notin WeakFills
    BY DEF Pending, None, WeakFills
  <2>5. \A x \in Weak : wk'[x] # wk[x] => x \in {w, v}
    BY <1>0, <2>2 DEF TypeOK
  <2>6. QED BY <2>2, <2>3, <2>4, <2>5, WeakRestKept
<1>11. ASSUME LockTakes(t), ~Stop
       PROVE  WeakInv'
  <2>1. /\ op' = [op EXCEPT ![t] = None] /\ None \in Pending
        /\ UNCHANGED <<wk, weak, block>>
    BY <1>11 DEF LockTakes, Acquire, Finish, Pending
  <2>2. QED BY <2>1, SameWeakCounts
<1>12. ~WeakCopyTakes(t) /\ \A w, v \in Weak : ~WeakCopyAssign(t, w, v)
  BY DEF WeakCopyTakes, Resumes, WeakCopyAssign, WeakInv, NoCopyAssign
<1>13. QED
  BY <1>1, <1>2, <1>3, <1>4, <1>5, <1>6, <1>7, <1>8, <1>9, <1>10, <1>11,
     <1>12 DEF WeakStep

LEMMA WeakInvInductive ==
  ASSUME "weakCopyAssign" \notin Ops
  PROVE  WeakInv /\ [Next]_vars => WeakInv'
<1>1. WeakInv /\ [Next]_vars => CountInv'
  BY CountInvInductive DEF WeakInv
<1>2. ASSUME WeakInv, NEW t \in Thread, StrongStep(t) \/ WeakStep(t), CountInv'
      PROVE  WeakInv'
  BY <1>2, StrongStepWeakCounts, WeakStepWeakCounts
<1>3. ASSUME WeakInv, UNCHANGED vars, CountInv'
      PROVE  WeakInv'
  BY <1>3 DEF WeakInv, vars, WeakCountsObservers, Observers, WeakTargetsEmpty,
              WeakTargetsPrivate, FreshUnobserved, NoCopyAssign
<1>4. QED BY <1>1, <1>2, <1>3 DEF Next

LEMMA WeakInvInitially == Init => WeakInv
<1>1. SUFFICES ASSUME Init PROVE WeakInv
  OBVIOUS
<1>2. CountInv
  BY <1>1, CountInvInitially
<1>3. \A o \in Object : Observers(o) = {}
  BY <1>1, NullFresh DEF Init, Observers
<1>4. WeakCountsObservers
  BY <1>1, <1>3, FS_EmptySet DEF Init, WeakCountsObservers
<1>5. /\ WeakTargetsEmpty /\ WeakTargetsPrivate /\ FreshUnobserved
      /\ NoCopyAssign
  BY <1>1 DEF Init, None, WeakTargetsEmpty, WeakTargetsPrivate,
              FreshUnobserved, NoCopyAssign, WeakFills
<1>6. QED BY <1>2, <1>4, <1>5 DEF WeakInv

\* As long as no program assigns one weak_t to another by copy, the weak count
\* of a control block is the number of weak_t that observe it, whatever the
\* threads interleave and whatever the listeners of a destructor clear.
THEOREM WeakCountIsExact ==
  ASSUME "weakCopyAssign" \notin Ops
  PROVE  Spec => []WeakCountsObservers
<1>1. WeakInv /\ [Next]_vars => WeakInv'
  BY WeakInvInductive
<1>2. WeakInv => WeakCountsObservers
  BY DEF WeakInv
<1>3. QED BY <1>1, <1>2, WeakInvInitially, PTL DEF Spec

-----------------------------------------------------------------------------
(* One thread, or no weak_t: the life of a control block.                  *)

\* A program of one thread whose objects hold no weak_t that their own
\* destructor could release as the last observer, and that neither copies a
\* weak_t by assignment nor clears one from an on_destruct listener.
Alone == /\ \A t, u \in Thread : t = u
         /\ Ops \subseteq {"lock"}
         /\ \A w \in Weak : Home[w] = Null

\* Either that, or any number of threads that use no weak_t.
Plain == Alone \/ Weak = {}

\* What makes the life of a control block inductive for such a program: the
\* destructors that a thread runs are nested, below the innermost step of
\* taking a block down there are only destructors, and all are of different
\* objects, whoever runs them.
Nested ==
  \A t \in Thread :
    /\ \A i \in 1..Len(stack[t]) : i > 1 => stack[t][i].do = "destroy"
    /\ \A i \in 1..Len(stack[t]) : stack[t][i].do = "checkStrong" =>
         Weak # {} /\ Len(stack[t]) = 1 /\ weak[stack[t][i].obj] = 0

Apart ==
  \A t, u \in Thread : \A i \in 1..Len(stack[t]), j \in 1..Len(stack[u]) :
    stack[t][i].obj = stack[u][j].obj => t = u /\ i = j

Stages ==
  \A t \in Thread : \A i \in 1..Len(stack[t]) :
    /\ block[stack[t][i].obj] = "live"
    /\ stack[t][i].do = "destroy" => data[stack[t][i].obj] = "dying"
    /\ stack[t][i].do = "checkWeak" => data[stack[t][i].obj] = "deleted"
    /\ stack[t][i].do = "checkStrong" => data[stack[t][i].obj] # "dying"

Promotes ==
  \A t \in Thread : op[t].do = "lockTake" =>
    stack[t] = <<>> /\ data[op[t].obj] = "live"

\* Some thread is taking down o or its block.
TakenDown(o) ==
  \E t \in Thread : \E i \in 1..Len(stack[t]) : stack[t][i].obj = o

\* The object and its block go together, and a block that nobody counts on is
\* freed or about to be.
Phases ==
  \A o \in Object :
    /\ block[o] = "none" <=> data[o] = "none"
    /\ data[o] = "live" => block[o] = "live" /\ Owners(o) # {}
    /\ data[o] = "dying" => block[o] = "live" /\ TakenDown(o)
    /\ data[o] = "deleted" /\ block[o] = "live" => Observers(o) # {} \/ TakenDown(o)
    /\ block[o] = "freed" => data[o] = "deleted" /\ Observers(o) = {}

PlainInv == /\ WeakInv /\ OwnedIsLive /\ NoUseAfterFree
            /\ Promotes /\ Nested /\ Apart /\ Stages /\ Phases

\* The three things a step does to the stack of its thread.
LEMMA Pushed ==
  ASSUME TypeOK, NEW t \in Thread, NEW f \in Frame,
         stack' = [stack EXCEPT ![t] = <<f>> \o @]
  PROVE  /\ Len(stack'[t]) = Len(stack[t]) + 1 /\ stack'[t][1] = f
         /\ \A i \in 1..Len(stack[t]) : stack'[t][i + 1] = stack[t][i]
         /\ \A i \in 2..Len(stack'[t]) :
              i - 1 \in 1..Len(stack[t]) /\ stack'[t][i] = stack[t][i - 1]
BY DEF TypeOK

LEMMA Popped ==
  ASSUME TypeOK, NEW t \in Thread, stack[t] # <<>>,
         stack' = [stack EXCEPT ![t] = Tail(@)]
  PROVE  /\ Len(stack[t]) = Len(stack'[t]) + 1 /\ Head(stack[t]) = stack[t][1]
         /\ Len(stack'[t]) \in Nat
         /\ \A i \in 1..Len(stack[t]) : i # 1 =>
              i - 1 \in 1..Len(stack'[t]) /\ stack'[t][i - 1] = stack[t][i]
         /\ \A i \in 1..Len(stack'[t]) :
              i + 1 \in 1..Len(stack[t]) /\ stack'[t][i] = stack[t][i + 1]
BY DEF TypeOK

LEMMA Replaced ==
  ASSUME TypeOK, NEW t \in Thread, NEW f \in Frame, stack[t] # <<>>,
         stack' = [stack EXCEPT ![t] = <<f>> \o Tail(@)]
  PROVE  /\ Len(stack[t]) = Len(stack'[t]) /\ Head(stack[t]) = stack[t][1]
         /\ Len(stack[t]) \in Nat \ {0} /\ stack'[t][1] = f
         /\ \A i \in 1..Len(stack[t]) : i # 1 => stack'[t][i] = stack[t][i]
BY DEF TypeOK

LEMMA FrameAt ==
  ASSUME TypeOK, NEW t \in Thread, NEW i \in 1..Len(stack[t])
  PROVE  stack[t][i] \in Frame /\ stack[t][i].obj \in Object
<1>1. stack[t] \in Seq(Frame)
  BY DEF TypeOK
<1>2. stack[t][i] \in Frame
  BY <1>1
<1>3. QED BY <1>2 DEF Frame

\* A count is zero exactly when nobody is counted, before and after a step.
LEMMA ZeroOwners ==
  /\ CountInv => \A o \in Object : strong[o] = 0 <=> Owners(o) = {}
  /\ CountInv' => \A o \in Object : strong'[o] = 0 <=> Owners(o)' = {}
<1>1. \A o : IsFiniteSet(Owners(o)) /\ IsFiniteSet(Owners(o)')
  BY FiniteHandles, FS_Subset DEF Owners
<1>2. QED BY <1>1, FS_EmptySet DEF CountInv, StrongCountsOwners

LEMMA ZeroObservers ==
  /\ WeakInv => \A o \in Object : weak[o] = 0 <=> Observers(o) = {}
  /\ WeakInv' => \A o \in Object : weak'[o] = 0 <=> Observers(o)' = {}
<1>1. \A o : IsFiniteSet(Observers(o)) /\ IsFiniteSet(Observers(o)')
  BY FiniteHandles, FS_Subset DEF Observers
<1>2. QED BY <1>1, FS_EmptySet DEF WeakInv, WeakCountsObservers

\* What a handle is bound to has its control block.
LEMMA BoundBlocks ==
  ASSUME PlainInv
  PROVE  /\ \A h \in Strong : sh[h] # Null =>
              sh[h] \in Object /\ data[sh[h]] = "live" /\ block[sh[h]] = "live"
         /\ \A w \in Weak : wk[w] # Null =>
              wk[w] \in Object /\ block[wk[w]] = "live"
<1>0. TypeOK /\ WeakInv
  BY DEF PlainInv, WeakInv, CountInv
<1>1. ASSUME NEW h \in Strong, sh[h] # Null
      PROVE  sh[h] \in Object /\ data[sh[h]] = "live" /\ block[sh[h]] = "live"
  BY <1>0, <1>1 DEF TypeOK, PlainInv, OwnedIsLive, Phases
<1>2. ASSUME NEW w \in Weak, wk[w] # Null
      PROVE  wk[w] \in Object /\ block[wk[w]] = "live"
  <2>1. wk[w] \in Object /\ block[wk[w]] # "none" /\ w \in Observers(wk[w])
    BY <1>0, <1>2, ObservedHasBlock DEF Observers
  <2>2. block[wk[w]] # "freed"
    BY <2>1 DEF PlainInv, Phases
  <2>3. QED BY <1>0, <2>1, <2>2 DEF TypeOK
<1>3. QED BY <1>1, <1>2

\* Of the other threads, if there are any, none promotes a weak handle, and
\* what they take down has no owner.
LEMMA OtherThreads ==
  ASSUME Plain, PlainInv, NEW t \in Thread, NEW u \in Thread, u # t
  PROVE  /\ op[u].do # "lockTake"
         /\ \A i \in 1..Len(stack[u]) : data[stack[u][i].obj] # "live"
<1>0. TypeOK /\ Weak = {}
  BY DEF Plain, Alone, PlainInv, WeakInv, CountInv
<1>1. op[u].do # "lockTake"
  BY <1>0, Operands
<1>2. ASSUME NEW i \in 1..Len(stack[u])
      PROVE  data[stack[u][i].obj] # "live"
  <2>1. stack[u][i].do # "checkStrong" /\ stack[u][i] \in Frame
    BY <1>0, FrameAt DEF PlainInv, Nested
  <2>2. QED BY <2>1 DEF PlainInv, Stages, Frame
<1>3. QED BY <1>1, <1>2

\* A step that takes nothing down and frees nothing.
LEMMA SteadyPlain ==
  ASSUME PlainInv, WeakInv', UNCHANGED <<data, block, stack, fault>>,
         OwnedIsLive', Promotes',
         UNCHANGED weak \/ \A t \in Thread : stack[t] = <<>>,
         \A o \in Object :
           /\ data[o] = "live" => Owners(o)' # {}
           /\ data[o] = "deleted" /\ block[o] = "live" /\ ~TakenDown(o) =>
                Observers(o)' # {}
           /\ block[o] = "freed" => Observers(o)' = {}
  PROVE  PlainInv'
<1>1. Nested' /\ Apart'
  BY DEF PlainInv, Nested, Apart
<1>2. Stages'
  BY DEF PlainInv, Stages
<1>3. Phases'
  BY DEF PlainInv, Phases, TakenDown
<1>4. QED BY <1>1, <1>2, <1>3 DEF PlainInv, NoUseAfterFree

\* The steps that only bind, rebind or unbind handles, by what they do to the
\* sets of the objects.
LEMMA BindsPlain ==
  ASSUME PlainInv, WeakInv', UNCHANGED <<data, block, stack, fault>>,
         UNCHANGED weak \/ \A t \in Thread : stack[t] = <<>>,
         \A t \in Thread : op'[t].do = "lockTake" =>
           stack[t] = <<>> /\ data[op'[t].obj] = "live",
         \A h \in Strong : sh'[h] # Null => data[sh'[h]] = "live",
         \A w \in Weak : wk'[w] # Null => block[wk'[w]] = "live",
         \A o \in Object : Owners(o) # {} => Owners(o)' # {},
         \A o \in Object : Observers(o) # {} => Observers(o)' # {}
  PROVE  PlainInv'
<1>0. TypeOK'
  BY DEF WeakInv, CountInv
<1>1. OwnedIsLive' /\ Promotes'
  BY DEF OwnedIsLive, Promotes
<1>2. ASSUME NEW o \in Object
      PROVE  /\ data[o] = "live" => Owners(o)' # {}
             /\ data[o] = "deleted" /\ block[o] = "live" /\ ~TakenDown(o) =>
                  Observers(o)' # {}
             /\ block[o] = "freed" => Observers(o)' = {}
  BY NullFresh DEF PlainInv, Phases, Observers
<1>3. QED BY <1>1, <1>2, SteadyPlain

\* strong.fetch_sub: an owner is left, or the destructor starts on top of the
\* destructors that run already.
LEMMA DropPlain ==
  ASSUME Plain, PlainInv, WeakInv', NEW t \in Thread, NEW h \in Strong,
         NEW rest \in Pending, Drop(t, h, rest),
         rest.do # "lockTake",
         stack[t] = <<>> \/ Head(stack[t]).do = "destroy"
  PROVE  PlainInv'
<1>0. TypeOK /\ TypeOK' /\ CountInv /\ CountInv'
  BY DEF PlainInv, WeakInv, CountInv
<1> DEFINE o == sh[h]
<1>1. o # Null => o \in Object /\ data[o] = "live" /\ block[o] = "live"
  BY BoundBlocks
<1>2. /\ op' = [op EXCEPT ![t] = rest] /\ UNCHANGED <<wk, weak, block, fault>>
      /\ o = Null => UNCHANGED <<sh, strong, data, stack>>
      /\ o # Null => /\ sh' = [sh EXCEPT ![h] = Null]
                     /\ strong' = [strong EXCEPT ![o] = strong[o] - 1]
                     /\ strong[o] # 1 => UNCHANGED <<data, stack>>
                     /\ strong[o] = 1 =>
                          data' = [data EXCEPT ![o] = "dying"]
                          /\ Push(t, "destroy", o)
  BY <1>1 DEF Drop, Touches
<1>3. /\ \A g \in Strong : sh'[g] # Null => sh'[g] = sh[g]
      /\ \A p \in Object : p # o => Owners(p)' = Owners(p)
      /\ \A p \in Object : Observers(p)' = Observers(p)
  BY <1>0, <1>2, NullFresh DEF TypeOK, Owners, Observers
<1>4. \A u \in Thread : op'[u].do # "lockTake"
  BY <1>0, <1>2, OtherThreads DEF TypeOK
<1>5. CASE o = Null \/ strong[o] # 1
  <2>1. UNCHANGED <<data, stack>>
    BY <1>2, <1>5
  <2>2. \A g \in Strong : sh'[g] # Null => data[sh'[g]] = "live"
    BY <1>0, <1>3 DEF PlainInv, OwnedIsLive
  <2>3. \A w \in Weak : wk'[w] # Null => block[wk'[w]] = "live"
    BY <1>2, BoundBlocks
  <2>4. ASSUME NEW p \in Object, Owners(p) # {}
        PROVE  Owners(p)' # {}
    <3>1. CASE p # o
      BY <1>3, <2>4, <3>1
    <3>2. CASE p = o
      <4>1. strong'[p] = strong[p] - 1 /\ strong[p] # 1 /\ strong[p] \in Int
        BY <1>0, <1>2, <1>5, <3>2, NullFresh DEF TypeOK
      <4>2. strong'[p] # 0
        BY <4>1
      <4>3. QED BY <1>0, <4>2, ZeroOwners
    <3>3. QED BY <3>1, <3>2
  <2>5. \A p \in Object : Observers(p) # {} => Observers(p)' # {}
    BY <1>3
  <2>6. QED BY <1>0, <1>2, <1>4, <2>1, <2>2, <2>3, <2>4, <2>5, BindsPlain
<1>6. CASE o # Null /\ strong[o] = 1
  <2> DEFINE f == [do |-> "destroy", obj |-> o]
  <2>1. /\ o \in Object /\ data[o] = "live" /\ block[o] = "live" /\ f \in Frame
        /\ data' = [data EXCEPT ![o] = "dying"]
        /\ stack' = [stack EXCEPT ![t] = <<f>> \o @]
    BY <1>1, <1>2, <1>6 DEF Push, Frame
  <2>2. /\ Len(stack'[t]) = Len(stack[t]) + 1 /\ stack'[t][1] = f
        /\ Len(stack[t]) \in Nat
        /\ \A i \in 1..Len(stack[t]) : stack'[t][i + 1] = stack[t][i]
        /\ \A i \in 2..Len(stack'[t]) :
             i - 1 \in 1..Len(stack[t]) /\ stack'[t][i] = stack[t][i - 1]
    BY <1>0, <2>1, Pushed DEF TypeOK
  <2>others. \A u \in Thread : u # t =>
           /\ stack'[u] = stack[u]
           /\ \A i \in 1..Len(stack[u]) : stack[u][i].obj \in Object \ {o}
    BY <1>0, <2>1, FrameAt, OtherThreads DEF TypeOK
  <2>3. \A i \in 1..Len(stack[t]) :
          /\ stack[t][i].do = "destroy" /\ stack[t][i].obj # o
          /\ stack[t][i].obj \in Object
    <3>1. ASSUME NEW i \in 1..Len(stack[t])
          PROVE  stack[t][i].do = "destroy" /\ stack[t][i].obj \in Object
      <4>1. stack[t][i] \in Frame /\ stack[t] # <<>> /\ Head(stack[t]) = stack[t][1]
        BY <1>0 DEF TypeOK
      <4>2. i = 1 \/ i > 1
        OBVIOUS
      <4>3. QED BY <4>1, <4>2 DEF PlainInv, Nested, Frame
    <3>2. QED BY <2>1, <3>1 DEF PlainInv, Stages
  <2>4. ASSUME NEW p \in Object, p = o
        PROVE  Owners(p)' = {}
    <3>1. strong'[p] = 0
      BY <1>0, <1>2, <1>6, <2>1, <2>4 DEF TypeOK
    <3>2. QED BY <1>0, <3>1, ZeroOwners
  <2>5. OwnedIsLive'
    <3>1. ASSUME NEW g \in Strong, sh'[g] # Null
          PROVE  data'[sh'[g]] = "live"
      <4>1. sh'[g] # o /\ sh'[g] = sh[g] /\ data[sh[g]] = "live" /\ sh[g] \in Object
        BY <1>3, <2>1, <2>4, <3>1, BoundBlocks DEF Owners
      <4>2. QED BY <1>0, <2>1, <4>1 DEF TypeOK
    <3>2. QED BY <3>1 DEF OwnedIsLive
  <2>6. Promotes'
    BY <1>4 DEF Promotes
  <2>7. Nested' /\ Apart' /\ Stages'
    <3>1. ASSUME NEW i \in 1..Len(stack'[t])
          PROVE  /\ stack'[t][i].do = "destroy"
                 /\ stack'[t][i].obj \in Object
                 /\ block'[stack'[t][i].obj] = "live"
                 /\ data'[stack'[t][i].obj] = "dying"
                 /\ stack'[t][i].obj = o => i = 1
      <4>1. CASE i = 1
        BY <1>0, <1>2, <2>1, <2>2, <4>1 DEF TypeOK
      <4>2. CASE i # 1
        <5>1. i - 1 \in 1..Len(stack[t]) /\ stack'[t][i] = stack[t][i - 1]
          BY <2>2, <4>2
        <5>2. /\ stack[t][i - 1].do = "destroy" /\ stack[t][i - 1].obj # o
              /\ stack[t][i - 1].obj \in Object
          BY <2>3, <5>1
        <5>3. /\ block[stack[t][i - 1].obj] = "live"
              /\ data[stack[t][i - 1].obj] = "dying"
          BY <5>1, <5>2 DEF PlainInv, Stages
        <5>4. QED BY <1>0, <1>2, <2>1, <5>1, <5>2, <5>3 DEF TypeOK
      <4>3. QED BY <4>1, <4>2
    <3>2. ASSUME NEW i \in 1..Len(stack'[t]), NEW j \in 1..Len(stack'[t]),
                 stack'[t][i].obj = stack'[t][j].obj
          PROVE  i = j
      <4>1. CASE i = 1 \/ j = 1
        BY <2>2, <3>1, <3>2, <4>1
      <4>2. CASE i # 1 /\ j # 1
        <5>1. /\ i - 1 \in 1..Len(stack[t]) /\ stack'[t][i] = stack[t][i - 1]
              /\ j - 1 \in 1..Len(stack[t]) /\ stack'[t][j] = stack[t][j - 1]
          BY <2>2, <4>2
        <5>2. i - 1 = j - 1
          BY <3>2, <5>1 DEF PlainInv, Apart
        <5>3. QED BY <5>2
      <4>3. QED BY <4>1, <4>2
    <3>3. ASSUME NEW u \in Thread, u # t, NEW i \in 1..Len(stack[u])
          PROVE  /\ stack'[u] = stack[u]
                 /\ \A j \in 1..Len(stack'[t]) : stack'[t][j].obj # stack[u][i].obj
                 /\ data'[stack[u][i].obj] = data[stack[u][i].obj]
      <4>1. stack'[u] = stack[u] /\ stack[u][i].obj \in Object \ {o}
        BY <2>others, <3>3
      <4>2. ASSUME NEW j \in 1..Len(stack'[t])
            PROVE  stack'[t][j].obj # stack[u][i].obj
        <5>1. CASE j = 1
          BY <2>2, <4>1, <5>1
        <5>2. CASE j # 1
          <6>1. j - 1 \in 1..Len(stack[t]) /\ stack'[t][j] = stack[t][j - 1]
            BY <2>2, <5>2
          <6>2. stack[t][j - 1].obj # stack[u][i].obj
            BY <3>3, <6>1 DEF PlainInv, Apart
          <6>3. QED BY <6>1, <6>2
        <5>3. QED BY <5>1, <5>2
      <4>3. QED BY <1>0, <2>1, <4>1, <4>2 DEF TypeOK
    <3>4. Nested'
      BY <1>2, <2>others, <3>1 DEF Nested, PlainInv
    <3>5. Apart'
      <4>1. SUFFICES ASSUME NEW u \in Thread, NEW v \in Thread,
                            NEW i \in 1..Len(stack'[u]), NEW j \in 1..Len(stack'[v]),
                            stack'[u][i].obj = stack'[v][j].obj
                     PROVE  u = v /\ i = j
        BY DEF Apart
      <4>2. CASE u = t /\ v = t
        BY <3>2, <4>1, <4>2
      <4>3. CASE u = t /\ v # t
        BY <2>others, <3>3, <4>1, <4>3
      <4>4. CASE u # t /\ v = t
        BY <2>others, <3>3, <4>1, <4>4
      <4>5. CASE u # t /\ v # t
        BY <2>others, <4>1, <4>5 DEF PlainInv, Apart
      <4>6. QED BY <4>2, <4>3, <4>4, <4>5
    <3>6. Stages'
      <4>1. ASSUME NEW u \in Thread, u # t, NEW i \in 1..Len(stack'[u])
            PROVE  /\ stack'[u][i] = stack[u][i] /\ i \in 1..Len(stack[u])
                   /\ data'[stack[u][i].obj] = data[stack[u][i].obj]
        BY <2>others, <3>3, <4>1
      <4>2. QED BY <1>2, <3>1, <4>1 DEF Stages, PlainInv
    <3>7. QED BY <3>4, <3>5, <3>6
  <2>8. Phases'
    <3>1. ASSUME NEW p \in Object, TakenDown(p) \/ p = o
          PROVE  TakenDown(p)'
      <4>1. CASE p = o
        <5>1. 1 \in 1..Len(stack'[t]) /\ stack'[t][1].obj = p
          BY <2>2, <4>1
        <5>2. QED BY <5>1 DEF TakenDown
      <4>2. CASE p # o
        <5>1. PICK u \in Thread : \E i \in 1..Len(stack[u]) : stack[u][i].obj = p
          BY <3>1, <4>2 DEF TakenDown
        <5>2. CASE u = t
          <6>1. PICK i \in 1..Len(stack[t]) : stack[t][i].obj = p
            BY <5>1, <5>2
          <6>2. i + 1 \in 1..Len(stack'[t]) /\ stack'[t][i + 1].obj = p
            BY <2>2, <6>1
          <6>3. QED BY <6>2 DEF TakenDown
        <5>3. CASE u # t
          BY <2>others, <5>1, <5>3 DEF TakenDown
        <5>4. QED BY <5>2, <5>3
      <4>3. QED BY <4>1, <4>2
    <3>2. \A p \in Object : p # o => data'[p] = data[p]
      BY <1>0, <2>1 DEF TypeOK
    <3>3. data'[o] = "dying" /\ block'[o] = "live"
      BY <1>0, <1>2, <2>1 DEF TypeOK
    <3>4. QED BY <1>2, <1>3, <3>1, <3>2, <3>3 DEF PlainInv, Phases
  <2>9. QED BY <1>2, <2>5, <2>6, <2>7, <2>8 DEF PlainInv, NoUseAfterFree
<1>7. QED BY <1>5, <1>6

\* weak.fetch_sub, which only runs between two destructors: an observer is
\* left, or the thread goes on to look at the strong count.
LEMMA WeakDropPlain ==
  ASSUME Alone, PlainInv, WeakInv', NEW t \in Thread, NEW w \in Weak,
         NEW rest \in Pending, WeakDrop(t, w, rest),
         rest.do # "lockTake", stack[t] = <<>>
  PROVE  PlainInv'
<1>0. /\ TypeOK /\ TypeOK' /\ WeakInv
      /\ \A u \in Thread : u = t
  BY DEF PlainInv, WeakInv, CountInv, Alone
<1> DEFINE o == wk[w]
<1>1. o # Null => o \in Object /\ block[o] = "live"
  BY BoundBlocks
<1>2. /\ op' = [op EXCEPT ![t] = rest]
      /\ UNCHANGED <<sh, strong, data, block, fault>>
      /\ o = Null => UNCHANGED <<wk, weak, stack>>
      /\ o # Null => /\ wk' = [wk EXCEPT ![w] = Null]
                     /\ weak' = [weak EXCEPT ![o] = weak[o] - 1]
                     /\ weak[o] # 1 => UNCHANGED stack
                     /\ weak[o] = 1 => Push(t, "checkStrong", o)
  BY <1>1 DEF WeakDrop, Touches
<1>3. /\ \A v \in Weak : wk'[v] # Null => wk'[v] = wk[v]
      /\ \A p \in Object : p # o => Observers(p)' = Observers(p)
      /\ \A p \in Object : Owners(p)' = Owners(p)
  BY <1>0, <1>2, NullFresh DEF TypeOK, Owners, Observers
<1>4. op'[t].do # "lockTake"
  BY <1>0, <1>2 DEF TypeOK
<1>5. OwnedIsLive' /\ Promotes'
  BY <1>0, <1>2, <1>4 DEF PlainInv, OwnedIsLive, Promotes
<1>6. CASE o = Null \/ weak[o] # 1
  <2>1. UNCHANGED stack
    BY <1>2, <1>6
  <2>2. \A g \in Strong : sh'[g] # Null => data[sh'[g]] = "live"
    BY <1>2 DEF PlainInv, OwnedIsLive
  <2>3. \A v \in Weak : wk'[v] # Null => block[wk'[v]] = "live"
    BY <1>3, BoundBlocks
  <2>4. ASSUME NEW p \in Object, Observers(p) # {}
        PROVE  Observers(p)' # {}
    <3>1. CASE p # o
      BY <1>3, <2>4, <3>1
    <3>2. CASE p = o
      <4>1. weak'[p] = weak[p] - 1 /\ weak[p] # 1 /\ weak[p] \in Int
        BY <1>0, <1>2, <1>6, <3>2, NullFresh DEF TypeOK
      <4>2. weak'[p] # 0
        BY <4>1
      <4>3. QED BY <4>2, ZeroObservers
    <3>3. QED BY <3>1, <3>2
  <2>5. \A p \in Object : Owners(p) # {} => Owners(p)' # {}
    BY <1>3
  <2>6. \A u \in Thread : op'[u].do = "lockTake" =>
          stack[u] = <<>> /\ data[op'[u].obj] = "live"
    BY <1>0, <1>4
  <2>7. UNCHANGED weak \/ \A u \in Thread : stack[u] = <<>>
    BY <1>0
  <2>8. UNCHANGED <<data, block, stack, fault>>
    BY <1>2, <2>1
  <2>9. QED BY <2>2, <2>3, <2>4, <2>5, <2>6, <2>7, <2>8, BindsPlain
<1>7. CASE o # Null /\ weak[o] = 1
  <2> DEFINE f == [do |-> "checkStrong", obj |-> o]
  <2>1. /\ o \in Object /\ f \in Frame /\ block[o] = "live"
        /\ stack' = [stack EXCEPT ![t] = <<f>> \o @]
    BY <1>1, <1>2, <1>7 DEF Push, Frame
  <2>2. /\ Len(stack'[t]) = 1 /\ stack'[t][1] = f /\ Len(stack[t]) = 0
    <3>1. Len(stack[t]) = 0
      OBVIOUS
    <3>2. Len(stack'[t]) = Len(stack[t]) + 1 /\ stack'[t][1] = f
      BY <1>0, <2>1, Pushed
    <3>3. QED BY <3>1, <3>2
  <2>3. weak'[o] = 0
    BY <1>0, <1>2, <1>7, <2>1 DEF TypeOK
  <2>4. \A p \in Object : ~TakenDown(p) /\ data[p] # "dying"
    <3>1. \A p \in Object : ~TakenDown(p)
      BY <1>0, <2>2 DEF TakenDown
    <3>2. QED BY <3>1 DEF PlainInv, Phases
  <2>5. Nested' /\ Apart' /\ Stages'
    <3>1. \A i \in 1..Len(stack'[t]) : i = 1
      BY <2>2
    <3>2. Nested' /\ Apart'
      BY <1>0, <2>2, <2>3, <3>1 DEF Nested, Apart
    <3>3. block'[o] = "live" /\ data'[o] # "dying"
      BY <1>2, <2>1, <2>4
    <3>4. QED BY <1>0, <2>2, <3>1, <3>2, <3>3 DEF Stages
  <2>6. ASSUME NEW p \in Object, p = o
        PROVE  TakenDown(p)'
    <3>1. 1 \in 1..Len(stack'[t]) /\ stack'[t][1].obj = p
      BY <2>2, <2>6
    <3>2. QED BY <3>1 DEF TakenDown
  <2>7. Phases'
    BY <1>2, <1>3, <2>1, <2>4, <2>6 DEF PlainInv, Phases
  <2>8. QED BY <1>2, <1>5, <2>5, <2>7 DEF PlainInv, NoUseAfterFree
<1>8. QED BY <1>6, <1>7

\* The destructor of the innermost object is over.
LEMMA DestroyEndsPlain ==
  ASSUME PlainInv, WeakInv', NEW t \in Thread, DestroyEnds(t)
  PROVE  PlainInv'
<1>0. TypeOK /\ TypeOK'
  BY DEF PlainInv, WeakInv, CountInv
<1>1. PICK o \in Object : o = Head(stack[t]).obj
  BY <1>0, TopIsFrame DEF DestroyEnds, At, Frame
<1> DEFINE f == [do |-> "checkWeak", obj |-> o]
<1>2. /\ stack[t] # <<>> /\ Head(stack[t]) = stack[t][1]
      /\ stack[t][1].do = "destroy" /\ stack[t][1].obj = o
      /\ 1 \in 1..Len(stack[t]) /\ f \in Frame
  BY <1>0, <1>1 DEF DestroyEnds, At, TypeOK, Frame
<1>3. data[o] = "dying" /\ block[o] = "live"
  BY <1>2 DEF PlainInv, Stages
<1>4. /\ data' = [data EXCEPT ![o] = "deleted"]
      /\ stack' = [stack EXCEPT ![t] = <<f>> \o Tail(@)]
      /\ UNCHANGED <<sh, wk, strong, weak, block, op, fault>>
  BY <1>1, <1>3 DEF DestroyEnds, Touches
<1>5. /\ Len(stack[t]) = Len(stack'[t]) /\ stack'[t][1] = f
      /\ \A i \in 1..Len(stack[t]) : i # 1 => stack'[t][i] = stack[t][i]
  BY <1>0, <1>2, <1>4, Replaced
<1>6. \A i \in 1..Len(stack[t]) : /\ stack'[t][i].obj = stack[t][i].obj
                                  /\ stack[t][i].obj \in Object
                                  /\ i # 1 => stack[t][i].obj # o
  <2>1. \A i \in 1..Len(stack[t]) : stack[t][i].obj \in Object
    BY <1>0, FrameAt
  <2>2. \A i \in 1..Len(stack[t]) : i # 1 => stack[t][i].obj # o
    BY <1>2 DEF PlainInv, Apart
  <2>3. \A i \in 1..Len(stack[t]) : stack'[t][i].obj = stack[t][i].obj
    BY <1>2, <1>5
  <2>4. QED BY <2>1, <2>2, <2>3
<1>others. \A u \in Thread : u # t =>
             /\ stack'[u] = stack[u]
             /\ \A i \in 1..Len(stack[u]) : stack[u][i].obj \in Object \ {o}
  <2>1. \A u \in Thread : u # t => stack'[u] = stack[u]
    BY <1>0, <1>4 DEF TypeOK
  <2>2. \A u \in Thread : u # t =>
          \A i \in 1..Len(stack[u]) : stack[u][i].obj \in Object \ {o}
    BY <1>0, <1>2, FrameAt DEF PlainInv, Apart
  <2>3. QED BY <2>1, <2>2
<1>7. OwnedIsLive'
  BY <1>0, <1>3, <1>4 DEF PlainInv, OwnedIsLive, TypeOK
<1>8. Promotes'
  <2>1. ASSUME NEW u \in Thread, op[u].do = "lockTake"
        PROVE  u # t /\ stack[u] = <<>> /\ data[op[u].obj] = "live"
    BY <1>2, <2>1 DEF PlainInv, Promotes
  <2>2. ASSUME NEW u \in Thread, op[u].do = "lockTake"
        PROVE  stack'[u] = <<>> /\ data'[op[u].obj] = "live"
    <3>1. op[u].obj \in Object /\ op[u].obj # o
      BY <1>0, <1>3, <2>1, <2>2, Operands
    <3>2. QED BY <1>0, <1>4, <1>others, <2>1, <2>2, <3>1 DEF TypeOK
  <2>3. QED BY <1>4, <2>2 DEF Promotes
<1>9. Nested' /\ Apart'
  <2>1. \A i \in 1..Len(stack'[t]) : i > 1 => stack'[t][i].do = "destroy"
    BY <1>5 DEF PlainInv, Nested
  <2>2. \A i, j \in 1..Len(stack'[t]) :
          stack'[t][i].obj = stack'[t][j].obj => i = j
    BY <1>5, <1>6 DEF PlainInv, Apart
  <2>3. \A i \in 1..Len(stack'[t]) : stack'[t][i].do # "checkStrong"
    <3>1. SUFFICES ASSUME NEW i \in 1..Len(stack'[t])
                   PROVE  stack'[t][i].do # "checkStrong"
      OBVIOUS
    <3>2. i = 1 \/ i > 1
      OBVIOUS
    <3>3. QED BY <1>5, <2>1, <3>2
  <2>4. Nested'
    BY <1>4, <1>others, <2>1, <2>3 DEF PlainInv, Nested
  <2>5. Apart'
    <3>1. \A u \in Thread : /\ Len(stack'[u]) = Len(stack[u])
                            /\ \A i \in 1..Len(stack[u]) :
                                 stack'[u][i].obj = stack[u][i].obj
      BY <1>5, <1>6, <1>others
    <3>2. QED BY <3>1 DEF PlainInv, Apart
  <2>6. QED BY <2>4, <2>5
<1>10. Stages'
  <2>1. ASSUME NEW i \in 1..Len(stack'[t])
        PROVE  /\ block'[stack'[t][i].obj] = "live"
               /\ stack'[t][i].do = "destroy" => data'[stack'[t][i].obj] = "dying"
               /\ stack'[t][i].do = "checkWeak" =>
                    data'[stack'[t][i].obj] = "deleted"
               /\ stack'[t][i].do = "checkStrong" =>
                    data'[stack'[t][i].obj] # "dying"
    <3>1. CASE i = 1
      BY <1>0, <1>3, <1>4, <1>5, <3>1 DEF TypeOK
    <3>2. CASE i # 1
      <4>1. stack'[t][i] = stack[t][i] /\ data'[stack[t][i].obj] = data[stack[t][i].obj]
        BY <1>0, <1>4, <1>5, <1>6, <3>2 DEF TypeOK
      <4>2. QED BY <1>4, <1>5, <4>1 DEF PlainInv, Stages
    <3>3. QED BY <3>1, <3>2
  <2>2. ASSUME NEW u \in Thread, u # t, NEW i \in 1..Len(stack'[u])
        PROVE  /\ stack'[u][i] = stack[u][i] /\ i \in 1..Len(stack[u])
               /\ data'[stack[u][i].obj] = data[stack[u][i].obj]
    BY <1>0, <1>4, <1>others, <2>2 DEF TypeOK
  <2>3. QED BY <1>4, <2>1, <2>2 DEF Stages, PlainInv
<1>11. Phases'
  <2>1. \A p \in Object : TakenDown(p)' <=> TakenDown(p)
    BY <1>5, <1>6, <1>others DEF TakenDown
  <2>2. TakenDown(o)
    BY <1>2 DEF TakenDown
  <2>3. \A p \in Object : data'[p] = IF p = o THEN "deleted" ELSE data[p]
    BY <1>0, <1>4 DEF TypeOK
  <2>4. \A p \in Object : Owners(p)' = Owners(p) /\ Observers(p)' = Observers(p)
    BY <1>4 DEF Owners, Observers
  <2>5. QED BY <1>3, <1>4, <2>1, <2>2, <2>3, <2>4 DEF PlainInv, Phases
<1>12. QED BY <1>4, <1>7, <1>8, <1>9, <1>10, <1>11 DEF PlainInv, NoUseAfterFree

\* The last look at the other counter: the block is freed, or the object is
\* gone and somebody observes it, or somebody owns it.
LEMMA FreeIfPlain ==
  ASSUME PlainInv, WeakInv', NEW t \in Thread,
         CheckWeak(t) \/ CheckStrong(t)
  PROVE  PlainInv'
<1>0. TypeOK /\ TypeOK' /\ CountInv /\ WeakInv
  BY DEF PlainInv, WeakInv, CountInv
<1>1. PICK o \in Object : o = Head(stack[t]).obj
  BY <1>0, TopIsFrame DEF CheckWeak, CheckStrong, At, Frame
<1>2. /\ stack[t] # <<>> /\ Head(stack[t]) = stack[t][1]
      /\ stack[t][1].do \in {"checkWeak", "checkStrong"} /\ stack[t][1].obj = o
      /\ 1 \in 1..Len(stack[t]) /\ 1 <= Len(stack[t])
      /\ CheckWeak(t) => stack[t][1].do = "checkWeak"
      /\ CheckStrong(t) => stack[t][1].do = "checkStrong"
  BY <1>0, <1>1 DEF CheckWeak, CheckStrong, At, TypeOK
<1>3. block[o] = "live"
  BY <1>2 DEF PlainInv, Stages
<1> DEFINE frees == \/ CheckWeak(t) /\ weak[o] = 0
                    \/ CheckStrong(t) /\ strong[o] = 0
<1>4. /\ \/ frees /\ block' = [block EXCEPT ![o] = "freed"]
         \/ ~frees /\ UNCHANGED block
      /\ stack' = [stack EXCEPT ![t] = Tail(@)]
      /\ UNCHANGED <<sh, wk, strong, weak, data, op, fault>>
  <2>1. CASE CheckWeak(t)
    <3>1. ~CheckStrong(t)
      BY <1>2, <2>1
    <3>2. QED BY <1>1, <1>3, <2>1, <3>1 DEF CheckWeak, FreeIf, Touches, Pop
  <2>2. CASE CheckStrong(t)
    <3>1. ~CheckWeak(t)
      BY <1>2, <2>2
    <3>2. QED BY <1>1, <1>3, <2>2, <3>1 DEF CheckStrong, FreeIf, Touches, Pop
  <2>3. QED BY <2>1, <2>2
<1>5. /\ Len(stack[t]) = Len(stack'[t]) + 1 /\ Len(stack'[t]) \in Nat
      /\ \A i \in 1..Len(stack[t]) : i # 1 =>
           i - 1 \in 1..Len(stack'[t]) /\ stack'[t][i - 1] = stack[t][i]
      /\ \A i \in 1..Len(stack'[t]) :
           i + 1 \in 1..Len(stack[t]) /\ stack'[t][i] = stack[t][i + 1]
  BY <1>0, <1>2, <1>4, Popped
<1>others. \A u \in Thread : u # t =>
             /\ stack'[u] = stack[u]
             /\ \A i \in 1..Len(stack[u]) : stack[u][i].obj \in Object \ {o}
  <2>1. \A u \in Thread : u # t => stack'[u] = stack[u]
    BY <1>0, <1>4 DEF TypeOK
  <2>2. \A u \in Thread : u # t =>
          \A i \in 1..Len(stack[u]) : stack[u][i].obj \in Object \ {o}
    BY <1>0, <1>2, FrameAt DEF PlainInv, Apart
  <2>3. QED BY <2>1, <2>2
<1>6. CASE CheckWeak(t) \/ CheckStrong(t)
  <2>1. data[o] \in {"live", "deleted"}
    <3>1. data[o] # "none"
      BY <1>3 DEF PlainInv, Phases
    <3>2. data[o] # "dying"
      BY <1>2 DEF PlainInv, Stages
    <3>3. QED BY <1>0, <3>1, <3>2 DEF TypeOK
  <2>2. frees => data[o] = "deleted" /\ Observers(o) = {}
    <3>1. CASE CheckWeak(t) /\ weak[o] = 0
      BY <1>0, <1>2, <3>1, ZeroObservers DEF PlainInv, Stages
    <3>2. CASE CheckStrong(t) /\ strong[o] = 0
      <4>1. Owners(o) = {}
        BY <1>0, <3>2, ZeroOwners
      <4>2. weak[o] = 0
        BY <1>2, <3>2 DEF PlainInv, Nested
      <4>3. data[o] # "live"
        BY <4>1 DEF PlainInv, Phases
      <4>4. QED BY <1>0, <2>1, <4>2, <4>3, ZeroObservers
    <3>3. QED BY <3>1, <3>2
  <2>3. ~frees /\ data[o] = "deleted" => Observers(o) # {}
    <3>1. CASE CheckWeak(t) /\ weak[o] # 0
      BY <1>0, <3>1, ZeroObservers
    <3>2. CASE CheckStrong(t) /\ strong[o] # 0
      <4>1. Owners(o) # {}
        BY <1>0, <3>2, ZeroOwners
      <4>2. data[o] = "live"
        BY <1>1, <4>1, NullFresh DEF PlainInv, OwnedIsLive, Owners
      <4>3. QED BY <4>2
    <3>3. QED BY <1>6, <3>1, <3>2
  <2>4. \A p \in Object : p # o => (TakenDown(p)' <=> TakenDown(p))
    <3>1. ASSUME NEW p \in Object, p # o, TakenDown(p)
          PROVE  TakenDown(p)'
      <4>1. PICK u \in Thread : \E i \in 1..Len(stack[u]) : stack[u][i].obj = p
        BY <3>1 DEF TakenDown
      <4>2. CASE u = t
        <5>1. PICK i \in 1..Len(stack[t]) : stack[t][i].obj = p
          BY <4>1, <4>2
        <5>2. i - 1 \in 1..Len(stack'[t]) /\ stack'[t][i - 1].obj = p
          BY <1>2, <1>5, <3>1, <5>1
        <5>3. QED BY <5>2 DEF TakenDown
      <4>3. CASE u # t
        BY <1>others, <4>1, <4>3 DEF TakenDown
      <4>4. QED BY <4>2, <4>3
    <3>2. ASSUME NEW p \in Object, TakenDown(p)'
          PROVE  TakenDown(p)
      <4>1. PICK u \in Thread : \E i \in 1..Len(stack'[u]) : stack'[u][i].obj = p
        BY <3>2 DEF TakenDown
      <4>2. CASE u = t
        <5>1. PICK i \in 1..Len(stack'[t]) : stack'[t][i].obj = p
          BY <4>1, <4>2
        <5>2. i + 1 \in 1..Len(stack[t]) /\ stack[t][i + 1].obj = p
          BY <1>5, <5>1
        <5>3. QED BY <5>2 DEF TakenDown
      <4>3. CASE u # t
        BY <1>others, <4>1, <4>3 DEF TakenDown
      <4>4. QED BY <4>2, <4>3
    <3>3. QED BY <3>1, <3>2
  <2>5. \A p \in Object : Owners(p)' = Owners(p) /\ Observers(p)' = Observers(p)
    BY <1>4 DEF Owners, Observers
  <2>6. \A p \in Object : block'[p] = IF p = o /\ frees THEN "freed" ELSE block[p]
    BY <1>0, <1>4 DEF TypeOK
  <2>7. Phases'
    <3>1. ASSUME NEW p \in Object, p # o
          PROVE  block'[p] = block[p]
      BY <2>6, <3>1
    <3>2. /\ frees => block'[o] = "freed" /\ data[o] = "deleted" /\ Observers(o) = {}
          /\ ~frees => block'[o] = "live"
      BY <1>3, <2>2, <2>6
    <3>3. QED BY <1>4, <2>1, <2>3, <2>4, <2>5, <3>1, <3>2 DEF PlainInv, Phases
  <2>8. Nested' /\ Apart' /\ Stages'
    <3>1. ASSUME NEW i \in 1..Len(stack'[t])
          PROVE  /\ stack'[t][i].do = "destroy"
                 /\ stack'[t][i].obj \in Object \ {o}
                 /\ block'[stack'[t][i].obj] = "live"
                 /\ data'[stack'[t][i].obj] = "dying"
      <4>1. i + 1 \in 1..Len(stack[t]) /\ stack'[t][i] = stack[t][i + 1] /\ i + 1 > 1
        BY <1>5
      <4>2. stack[t][i + 1].do = "destroy"
        BY <4>1 DEF PlainInv, Nested
      <4>3. stack[t][i + 1].obj # o
        BY <1>2, <4>1 DEF PlainInv, Apart
      <4>4. stack[t][i + 1].obj \in Object
        BY <1>0, <4>1, FrameAt
      <4>5. /\ block[stack[t][i + 1].obj] = "live"
            /\ data[stack[t][i + 1].obj] = "dying"
        BY <4>1, <4>2 DEF PlainInv, Stages
      <4>6. QED BY <1>4, <2>6, <4>1, <4>2, <4>3, <4>4, <4>5
    <3>2. ASSUME NEW i \in 1..Len(stack'[t]), NEW j \in 1..Len(stack'[t]),
                 stack'[t][i].obj = stack'[t][j].obj
          PROVE  i = j
      <4>1. /\ i + 1 \in 1..Len(stack[t]) /\ stack'[t][i] = stack[t][i + 1]
            /\ j + 1 \in 1..Len(stack[t]) /\ stack'[t][j] = stack[t][j + 1]
        BY <1>5
      <4>2. i + 1 = j + 1
        BY <3>2, <4>1 DEF PlainInv, Apart
      <4>3. QED BY <4>2
    <3>3. Nested'
      BY <1>4, <1>others, <3>1 DEF PlainInv, Nested
    <3>4. Apart'
      <4>1. SUFFICES ASSUME NEW u \in Thread, NEW v \in Thread,
                            NEW i \in 1..Len(stack'[u]), NEW j \in 1..Len(stack'[v]),
                            stack'[u][i].obj = stack'[v][j].obj
                     PROVE  u = v /\ i = j
        BY DEF Apart
      <4>2. ASSUME NEW w \in Thread, w # t,
                   NEW k \in 1..Len(stack'[w]), NEW l \in 1..Len(stack'[t])
            PROVE  stack'[w][k].obj # stack'[t][l].obj
        <5>1. l + 1 \in 1..Len(stack[t]) /\ stack'[t][l] = stack[t][l + 1]
          BY <1>5
        <5>2. k \in 1..Len(stack[w]) /\ stack'[w][k] = stack[w][k]
          BY <1>others, <4>2
        <5>3. QED BY <4>2, <5>1, <5>2 DEF PlainInv, Apart
      <4>3. CASE u = t /\ v = t
        BY <3>2, <4>1, <4>3
      <4>4. CASE (u # t /\ v = t) \/ (u = t /\ v # t)
        BY <4>1, <4>2, <4>4
      <4>5. CASE u # t /\ v # t
        BY <1>others, <4>1, <4>5 DEF PlainInv, Apart
      <4>6. QED BY <4>3, <4>4, <4>5
    <3>5. Stages'
      <4>1. ASSUME NEW u \in Thread, u # t, NEW i \in 1..Len(stack'[u])
            PROVE  /\ stack'[u][i] = stack[u][i] /\ i \in 1..Len(stack[u])
                   /\ block'[stack[u][i].obj] = block[stack[u][i].obj]
        BY <1>others, <2>6, <4>1
      <4>2. QED BY <1>4, <3>1, <4>1 DEF Stages, PlainInv
    <3>6. QED BY <3>3, <3>4, <3>5
  <2>9. OwnedIsLive' /\ Promotes'
    <3>1. op[t].do # "lockTake"
      BY <1>0, <1>2 DEF PlainInv, Promotes
    <3>2. QED BY <1>4, <1>others, <3>1 DEF PlainInv, OwnedIsLive, Promotes
  <2>10. QED BY <1>4, <2>7, <2>8, <2>9 DEF PlainInv, NoUseAfterFree
<1>7. QED BY <1>6

LEMMA MakePlain ==
  ASSUME PlainInv, WeakInv', NEW t \in Thread, NEW h \in Strong,
         NEW o \in Object, Make(t, h, o)
  PROVE  PlainInv'
<1>0. TypeOK /\ TypeOK' /\ CountInv /\ WeakInv
  BY DEF PlainInv, WeakInv, CountInv
<1>1. /\ block[o] = "none" /\ data[o] = "none" /\ stack[t] = <<>>
      /\ sh[h] = Null /\ op[t] = None
      /\ sh' = [sh EXCEPT ![h] = o]
      /\ data' = [data EXCEPT ![o] = "live"]
      /\ block' = [block EXCEPT ![o] = "live"]
      /\ UNCHANGED <<wk, weak, op, stack, fault>>
  BY DEF Make, Idle, PlainInv, Phases
<1>3. Nested' /\ Apart' /\ Stages' /\ Promotes'
  <2>1. Nested' /\ Apart'
    BY <1>1 DEF PlainInv, Nested, Apart
  <2>2. \A q \in Object : /\ data[q] # "none" => data'[q] = data[q]
                          /\ block[q] # "none" => block'[q] = block[q]
    BY <1>0, <1>1 DEF TypeOK
  <2>3. Stages'
    <3>1. ASSUME NEW u \in Thread, NEW i \in 1..Len(stack[u])
          PROVE  /\ block'[stack[u][i].obj] = block[stack[u][i].obj]
                 /\ data'[stack[u][i].obj] = data[stack[u][i].obj]
      <4>1. stack[u][i].obj \in Object /\ block[stack[u][i].obj] = "live"
        BY <1>0, FrameAt DEF PlainInv, Stages
      <4>2. data[stack[u][i].obj] # "none"
        BY <4>1 DEF PlainInv, Phases
      <4>3. QED BY <2>2, <4>1, <4>2
    <3>2. QED BY <1>1, <3>1 DEF PlainInv, Stages
  <2>4. Promotes'
    <3>1. ASSUME NEW u \in Thread, op[u].do = "lockTake"
          PROVE  stack[u] = <<>> /\ data'[op[u].obj] = "live"
      <4>1. op[u].obj \in Object
        BY <1>0, <3>1, Operands
      <4>2. stack[u] = <<>> /\ data[op[u].obj] = "live"
        BY <3>1 DEF PlainInv, Promotes
      <4>3. QED BY <2>2, <4>1, <4>2
    <3>2. QED BY <1>1, <3>1 DEF Promotes
  <2>5. QED BY <2>1, <2>3, <2>4
<1>4. OwnedIsLive'
  BY <1>0, <1>1 DEF PlainInv, OwnedIsLive, TypeOK
<1>5. \A p \in Object : TakenDown(p)' <=> TakenDown(p)
  BY <1>1 DEF TakenDown
<1>6. /\ \A p \in Object : p # o => Owners(p)' = Owners(p)
      /\ \A p \in Object : Observers(p)' = Observers(p)
      /\ Owners(o)' # {}
  BY <1>0, <1>1, NullFresh DEF Owners, Observers, TypeOK
<1>7. \A p \in Object : /\ data'[p] = IF p = o THEN "live" ELSE data[p]
                        /\ block'[p] = IF p = o THEN "live" ELSE block[p]
  BY <1>0, <1>1 DEF TypeOK
<1>8. Phases'
  BY <1>5, <1>6, <1>7 DEF PlainInv, Phases
<1>9. QED BY <1>1, <1>3, <1>4, <1>8 DEF PlainInv, NoUseAfterFree

LEMMA StrongStepPlain ==
  ASSUME Plain, PlainInv, WeakInv', NEW t \in Thread, StrongStep(t)
  PROVE  PlainInv'
<1>0. TypeOK /\ CountInv /\ WeakInv /\ op[t] \in Pending
  BY DEF PlainInv, WeakInv, CountInv, TypeOK
<1>1. ASSUME NEW h \in Strong, NEW o \in Object, Make(t, h, o)
      PROVE  PlainInv'
  BY <1>1, MakePlain
<1>2. ASSUME NEW h \in Strong, NEW g \in Strong, Assign(t, h, g) \/ Move(t, h, g)
      PROVE  PlainInv'
  <2>1. PICK do \in {"take", "moveTo"} : Drop(t, h, Doing(do, Null, h, g))
    BY <1>2 DEF Assign, Move
  <2>2. /\ Doing(do, Null, h, g) \in Pending
        /\ Doing(do, Null, h, g).do # "lockTake"
    BY DEF Pending, Doing
  <2>3. stack[t] = <<>>
    BY <1>2 DEF Assign, Move, Idle
  <2>4. QED BY <2>1, <2>2, <2>3, DropPlain
<1>3. ASSUME NEW h \in Strong, Release(t, h)
      PROVE  PlainInv'
  <2>1. Drop(t, h, op[t])
    BY <1>3 DEF Release
  <2>2. CASE Idle(t)
    BY <1>0, <2>1, <2>2, DropPlain DEF Idle, None
  <2>3. CASE At(t, "destroy")
    <3>1. op[t].do # "lockTake"
      BY <2>3 DEF At, PlainInv, Promotes
    <3>2. QED BY <1>0, <2>1, <2>3, <3>1, DropPlain DEF At
  <2>4. QED BY <1>3, <2>2, <2>3 DEF Release, MayDestroy
<1>4. ASSUME NEW h \in Strong, NEW g \in Strong, sh[g] # Null, sh[h] = Null,
             Acquire(h, sh[g]), UNCHANGED op \/ Finish(t), op[t].do # "lockTake"
      PROVE  PlainInv'
  <2>1. data[sh[g]] = "live" /\ sh[g] \in Object
    BY <1>4, BoundBlocks
  <2>2. /\ UNCHANGED <<data, block, stack, fault, weak, wk>>
        /\ sh' = [sh EXCEPT ![h] = sh[g]]
    BY <1>4 DEF Acquire
  <2>3. \A u \in Thread : op'[u].do # "lockTake"
    BY <1>0, <1>4, OtherThreads DEF Finish, TypeOK, None
  <2>4. \A k \in Strong : sh'[k] # Null => data[sh'[k]] = "live"
    BY <1>0, <2>1, <2>2, BoundBlocks DEF TypeOK
  <2>5. \A p \in Object : Owners(p) # {} => Owners(p)' # {}
    BY <1>0, <1>4, <2>2, NullFresh DEF Owners, TypeOK
  <2>6. \A p \in Object : Observers(p) # {} => Observers(p)' # {}
    BY <2>2 DEF Observers
  <2>7. \A w \in Weak : wk'[w] # Null => block[wk'[w]] = "live"
    BY <2>2, BoundBlocks
  <2>8. QED BY <2>2, <2>3, <2>4, <2>5, <2>6, <2>7, BindsPlain
<1>5. ASSUME NEW h \in Strong, NEW g \in Strong, Copy(t, h, g)
      PROVE  PlainInv'
  <2>1. block[sh[g]] = "live"
    BY <1>5, BoundBlocks DEF Copy
  <2>2. Acquire(h, sh[g]) /\ UNCHANGED op /\ op[t].do # "lockTake"
    BY <1>5, <2>1 DEF Copy, Touches, Idle, None
  <2>3. QED BY <1>4, <1>5, <2>2 DEF Copy
<1>6. CASE AssignTakes(t)
  <2>1. /\ op[t].to \in Strong /\ op[t].from \in Strong /\ op[t].do = "take"
        /\ sh[op[t].to] = Null
    BY <1>0, <1>6, Operands DEF AssignTakes, Resumes, CountInv, TargetsEmpty, Fills
  <2>2. CASE sh[op[t].from] # Null
    <3>1. block[sh[op[t].from]] = "live"
      BY <2>1, <2>2, BoundBlocks
    <3>2. Acquire(op[t].to, sh[op[t].from]) /\ Finish(t)
      BY <1>6, <2>2, <3>1 DEF AssignTakes, Touches
    <3>3. QED BY <1>4, <2>1, <2>2, <3>2
  <2>3. CASE sh[op[t].from] = Null
    <3>1. /\ Finish(t)
          /\ UNCHANGED <<sh, wk, strong, weak, data, block, stack, fault>>
      BY <1>6, <2>3 DEF AssignTakes
    <3>2. \A u \in Thread : op'[u].do # "lockTake"
      BY <1>0, <3>1, OtherThreads DEF Finish, TypeOK, None
    <3>3. \A p \in Object : Owners(p)' = Owners(p) /\ Observers(p)' = Observers(p)
      BY <3>1 DEF Owners, Observers
    <3>4. /\ \A h \in Strong : sh'[h] # Null => data[sh'[h]] = "live"
          /\ \A w \in Weak : wk'[w] # Null => block[wk'[w]] = "live"
      BY <3>1, BoundBlocks
    <3>5. QED BY <3>1, <3>2, <3>3, <3>4, BindsPlain
  <2>4. QED BY <2>2, <2>3
<1>7. CASE MoveTakes(t)
  <2> DEFINE h == op[t].to
             g == op[t].from
  <2>1. h \in Strong /\ g \in Strong /\ sh[h] = Null /\ h # g
    BY <1>0, <1>7, Operands DEF MoveTakes, Resumes, CountInv, TargetsEmpty, Fills
  <2>2. /\ sh' = [sh EXCEPT ![h] = sh[g], ![g] = Null] /\ Finish(t)
        /\ UNCHANGED <<wk, strong, weak, data, block, stack, fault>>
    BY <1>7 DEF MoveTakes
  <2>3. \A u \in Thread : op'[u].do # "lockTake"
    BY <1>0, <2>2, OtherThreads DEF Finish, TypeOK, None
  <2>4. /\ sh'[h] = sh[g] /\ sh'[g] = Null
        /\ \A k \in Strong : k \notin {h, g} => sh'[k] = sh[k]
    BY <1>0, <2>1, <2>2 DEF TypeOK
  <2>5. \A k \in Strong : sh'[k] # Null => data[sh'[k]] = "live"
    BY <2>1, <2>4, BoundBlocks
  <2>6. \A w \in Weak : wk'[w] # Null => block[wk'[w]] = "live"
    BY <2>2, BoundBlocks
  <2>7. ASSUME NEW p \in Object, NEW k \in Strong, sh[k] = p
        PROVE  \E l \in Strong : sh'[l] = p
    BY <2>1, <2>4, <2>7, NullFresh
  <2>8. \A p \in Object : Owners(p) # {} => Owners(p)' # {}
    BY <2>7 DEF Owners
  <2>9. \A p \in Object : Observers(p) # {} => Observers(p)' # {}
    BY <2>2 DEF Observers
  <2>10. QED BY <2>2, <2>3, <2>5, <2>6, <2>8, <2>9, BindsPlain
<1>8. CASE DestroyEnds(t)
  BY <1>8, DestroyEndsPlain
<1>9. CASE CheckWeak(t)
  BY <1>9, FreeIfPlain
<1>10. QED
  BY <1>1, <1>2, <1>3, <1>5, <1>6, <1>7, <1>8, <1>9 DEF StrongStep

LEMMA WeakStepPlain ==
  ASSUME Alone, PlainInv, WeakInv', NEW t \in Thread, WeakStep(t)
  PROVE  PlainInv'
<1>0. /\ TypeOK /\ CountInv /\ WeakInv /\ \A u \in Thread : u = t
      /\ op[t] \in Pending
  BY DEF PlainInv, WeakInv, CountInv, Alone, TypeOK
<1>1. ASSUME NEW w \in Weak, NEW rest \in Pending, WeakDrop(t, w, rest),
             Idle(t), rest.do # "lockTake"
      PROVE  PlainInv'
  BY <1>1, WeakDropPlain DEF Idle
<1>2. ASSUME NEW w \in Weak, NEW h \in Strong, WeakAssign(t, w, h)
      PROVE  PlainInv'
  <2>1. /\ Doing("weakTake", Null, w, h) \in Pending
        /\ Doing("weakTake", Null, w, h).do # "lockTake"
    BY DEF Pending, Doing
  <2>2. QED BY <1>1, <1>2, <2>1 DEF WeakAssign
<1>3. ASSUME NEW w \in Weak, NEW v \in Weak, WeakMove(t, w, v)
      PROVE  PlainInv'
  <2>1. /\ Doing("weakMoveTo", Null, w, v) \in Pending
        /\ Doing("weakMoveTo", Null, w, v).do # "lockTake"
    BY DEF Pending, Doing
  <2>2. QED BY <1>1, <1>3, <2>1 DEF WeakMove
<1>4. ASSUME NEW w \in Weak, WeakRelease(t, w)
      PROVE  PlainInv'
  <2>1. Idle(t)
    <3>1. At(t, "destroy") => Home[w] # Head(stack[t]).obj
      BY <1>0, TopIsFrame, NullFresh DEF Alone, At, Frame
    <3>2. QED BY <1>4, <3>1 DEF WeakRelease, MayDestroy
  <2>2. QED BY <1>0, <1>1, <1>4, <2>1 DEF WeakRelease, Idle, None
<1>5. CASE CheckStrong(t)
  BY <1>5, FreeIfPlain
<1>6. ASSUME UNCHANGED <<data, block, stack, fault>>, stack[t] = <<>>,
             op'[t].do = "lockTake" => data[op'[t].obj] = "live",
             \A h \in Strong : sh'[h] # Null => data[sh'[h]] = "live",
             \A w \in Weak : wk'[w] # Null => block[wk'[w]] = "live",
             \A o \in Object, h \in Strong :
               sh[h] = o => \E g \in Strong : sh'[g] = o,
             \A o \in Object, w \in Weak :
               wk[w] = o => \E v \in Weak : wk'[v] = o
      PROVE  PlainInv'
  <2>1. /\ \A o \in Object : Owners(o) # {} => Owners(o)' # {}
        /\ \A o \in Object : Observers(o) # {} => Observers(o)' # {}
    BY <1>6 DEF Owners, Observers
  <2>2. QED BY <1>0, <1>6, <2>1, BindsPlain
<1>7. ASSUME NEW w \in Weak, NEW o \in Object, wk[w] = Null, block[o] = "live",
             Observe(w, o), UNCHANGED op \/ Finish(t), stack[t] = <<>>,
             op[t].do # "lockTake"
      PROVE  PlainInv'
  <2>1. op'[t].do # "lockTake"
    BY <1>0, <1>7 DEF Finish, TypeOK, None
  <2>2. /\ wk'[w] = o /\ \A v \in Weak : v # w => wk'[v] = wk[v]
        /\ UNCHANGED <<sh, data, block, stack, fault>>
    BY <1>0, <1>7 DEF Observe, TypeOK
  <2>3. \A v \in Weak : wk'[v] # Null => block[wk'[v]] = "live"
    BY <1>7, <2>2, BoundBlocks
  <2>4. \A h \in Strong : sh'[h] # Null => data[sh'[h]] = "live"
    BY <2>2, BoundBlocks
  <2>5. \A p \in Object, v \in Weak : wk[v] = p => \E u \in Weak : wk'[u] = p
    BY <1>7, <2>2, NullFresh
  <2>6. \A p \in Object, h \in Strong : sh[h] = p => \E g \in Strong : sh'[g] = p
    BY <2>2
  <2>7. QED BY <1>6, <1>7, <2>1, <2>2, <2>3, <2>4, <2>5, <2>6
<1>8. ASSUME NEW w \in Weak, NEW h \in Strong, WeakMake(t, w, h)
      PROVE  PlainInv'
  <2>1. sh[h] \in Object /\ block[sh[h]] = "live"
    BY <1>8, BoundBlocks DEF WeakMake
  <2>2. /\ Observe(w, sh[h]) /\ UNCHANGED op /\ stack[t] = <<>>
        /\ op[t].do # "lockTake" /\ wk[w] = Null
    BY <1>8, <2>1 DEF WeakMake, Idle, Touches, None
  <2>3. QED BY <1>7, <2>1, <2>2
<1>9. ASSUME NEW w \in Weak, NEW v \in Weak, WeakCopy(t, w, v)
      PROVE  PlainInv'
  <2>1. wk[v] \in Object /\ block[wk[v]] = "live"
    BY <1>9, BoundBlocks DEF WeakCopy
  <2>2. /\ Observe(w, wk[v]) /\ UNCHANGED op /\ stack[t] = <<>>
        /\ op[t].do # "lockTake" /\ wk[w] = Null
    BY <1>9, <2>1 DEF WeakCopy, Idle, Touches, None
  <2>3. QED BY <1>7, <2>1, <2>2
<1>10. CASE WeakAssignTakes(t)
  <2>1. /\ op[t].to \in Weak /\ op[t].from \in Strong /\ wk[op[t].to] = Null
        /\ stack[t] = <<>> /\ op[t].do # "lockTake"
    BY <1>0, <1>10, Operands
       DEF WeakAssignTakes, Resumes, WeakInv, WeakTargetsEmpty, WeakFills
  <2>2. CASE sh[op[t].from] # Null
    <3>1. sh[op[t].from] \in Object /\ block[sh[op[t].from]] = "live"
      BY <2>1, <2>2, BoundBlocks
    <3>2. Observe(op[t].to, sh[op[t].from]) /\ Finish(t)
      BY <1>10, <2>2, <3>1 DEF WeakAssignTakes, Touches
    <3>3. QED BY <1>7, <2>1, <3>1, <3>2
  <2>3. CASE sh[op[t].from] = Null
    <3>1. /\ Finish(t)
          /\ UNCHANGED <<sh, wk, strong, weak, data, block, stack, fault>>
      BY <1>10, <2>3 DEF WeakAssignTakes
    <3>2. op'[t].do # "lockTake"
      BY <1>0, <3>1 DEF Finish, TypeOK, None
    <3>3. QED BY <1>6, <2>1, <3>1, <3>2, BoundBlocks
  <2>4. QED BY <2>2, <2>3
<1>11. CASE WeakMoveTakes(t)
  <2> DEFINE w == op[t].to
             v == op[t].from
  <2>1. w \in Weak /\ v \in Weak /\ wk[w] = Null /\ w # v /\ stack[t] = <<>>
    BY <1>0, <1>11, Operands
       DEF WeakMoveTakes, Resumes, WeakInv, WeakTargetsEmpty, WeakFills
  <2>2. /\ wk' = [wk EXCEPT ![w] = wk[v], ![v] = Null] /\ Finish(t)
        /\ UNCHANGED <<sh, strong, weak, data, block, stack, fault>>
    BY <1>11 DEF WeakMoveTakes
  <2>3. op'[t].do # "lockTake"
    BY <1>0, <2>2 DEF Finish, TypeOK, None
  <2>4. /\ wk'[w] = wk[v] /\ wk'[v] = Null
        /\ \A x \in Weak : x \notin {w, v} => wk'[x] = wk[x]
    BY <1>0, <2>1, <2>2 DEF TypeOK
  <2>5. \A x \in Weak : wk'[x] # Null => block[wk'[x]] = "live"
    BY <2>1, <2>4, BoundBlocks
  <2>6. \A h \in Strong : sh'[h] # Null => data[sh'[h]] = "live"
    BY <2>2, BoundBlocks
  <2>7. \A p \in Object, x \in Weak : wk[x] = p => \E y \in Weak : wk'[y] = p
    BY <2>1, <2>4, NullFresh
  <2>8. \A p \in Object, h \in Strong : sh[h] = p => \E g \in Strong : sh'[g] = p
    BY <2>2
  <2>9. QED BY <1>6, <2>1, <2>2, <2>3, <2>5, <2>6, <2>7, <2>8
<1>12. ASSUME NEW h \in Strong, NEW w \in Weak, Lock(t, h, w)
       PROVE  PlainInv'
  <2>1. wk[w] \in Object /\ block[wk[w]] = "live" /\ stack[t] = <<>>
    BY <1>12, BoundBlocks DEF Lock, Idle
  <2>2. /\ strong[wk[w]] > 0
        /\ op' = [op EXCEPT ![t] = Doing("lockTake", wk[w], h, w)]
        /\ UNCHANGED <<sh, wk, strong, weak, data, block, stack, fault>>
    BY <1>12, <2>1 DEF Lock, Touches
  <2>3. op'[t].obj = wk[w]
    BY <1>0, <2>2 DEF TypeOK, Doing
  <2>4. data[wk[w]] = "live"
    <3>1. Owners(wk[w]) # {}
      BY <1>0, <2>1, <2>2, ZeroOwners
    <3>2. QED BY <2>1, <3>1, NullFresh DEF PlainInv, OwnedIsLive, Owners
  <2>5. QED BY <1>6, <2>1, <2>2, <2>3, <2>4, BoundBlocks
<1>13. CASE LockTakes(t)
  <2> DEFINE h == op[t].to
             o == op[t].obj
  <2>1. /\ h \in Strong /\ o \in Object /\ sh[h] = Null /\ stack[t] = <<>>
        /\ op[t].do = "lockTake"
    BY <1>0, <1>13, Operands DEF LockTakes, Resumes, CountInv, TargetsEmpty, Fills
  <2>2. data[o] = "live" /\ block[o] = "live"
    BY <2>1 DEF PlainInv, Promotes, Phases
  <2>3. Acquire(h, o) /\ Finish(t)
    BY <1>13, <2>2 DEF LockTakes, Touches
  <2>4. /\ sh'[h] = o /\ \A g \in Strong : g # h => sh'[g] = sh[g]
        /\ UNCHANGED <<wk, weak, data, block, stack, fault>>
    BY <1>0, <2>1, <2>3 DEF Acquire, TypeOK
  <2>5. op'[t].do # "lockTake"
    BY <1>0, <2>3 DEF Finish, TypeOK, None
  <2>6. \A g \in Strong : sh'[g] # Null => data[sh'[g]] = "live"
    BY <2>2, <2>4, BoundBlocks
  <2>7. \A w \in Weak : wk'[w] # Null => block[wk'[w]] = "live"
    BY <2>4, BoundBlocks
  <2>8. \A p \in Object, g \in Strong : sh[g] = p => \E k \in Strong : sh'[k] = p
    BY <2>1, <2>4, NullFresh
  <2>9. \A p \in Object, w \in Weak : wk[w] = p => \E v \in Weak : wk'[v] = p
    BY <2>4
  <2>10. QED BY <1>6, <2>1, <2>4, <2>5, <2>6, <2>7, <2>8, <2>9
<1>14. ~WeakCopyTakes(t) /\ \A w, v \in Weak : ~WeakCopyAssign(t, w, v)
  BY <1>0 DEF WeakCopyTakes, Resumes, WeakCopyAssign, WeakInv, NoCopyAssign, Alone
<1>15. \A w \in Weak : ~Listener(t, w)
  BY DEF Listener, Alone
<1>16. QED
  BY <1>2, <1>3, <1>4, <1>5, <1>8, <1>9, <1>10, <1>11, <1>12, <1>13, <1>14,
     <1>15 DEF WeakStep

\* Without a weak_t there is no step of one.
LEMMA NoWeakStep ==
  ASSUME Weak = {}, PlainInv, NEW t \in Thread
  PROVE  ~WeakStep(t)
<1>0. TypeOK
  BY DEF PlainInv, WeakInv, CountInv
<1>1. op[t].do \notin {"weakTake", "weakMoveTo", "weakCopyTo", "lockTake"}
  BY <1>0, Operands
<1>2. ~CheckStrong(t)
  <2>1. SUFFICES ASSUME CheckStrong(t) PROVE FALSE
    OBVIOUS
  <2>2. stack[t] # <<>> /\ Head(stack[t]).do = "checkStrong"
    BY <2>1 DEF CheckStrong, At
  <2>3. 1 \in 1..Len(stack[t]) /\ Head(stack[t]) = stack[t][1]
    BY <1>0, <2>2 DEF TypeOK
  <2>4. QED BY <2>2, <2>3 DEF PlainInv, Nested
<1>3. QED
  BY <1>1, <1>2
     DEF WeakStep, WeakAssignTakes, WeakMoveTakes, WeakCopyTakes, LockTakes, Resumes

LEMMA PlainInvInductive ==
  ASSUME Plain
  PROVE  PlainInv /\ [Next]_vars => PlainInv'
<1>2. PlainInv /\ [Next]_vars => WeakInv'
  <2>1. CASE Alone
    <3>1. "weakCopyAssign" \notin Ops
      BY <2>1 DEF Alone
    <3>2. QED BY <3>1, WeakInvInductive DEF PlainInv
  <2>2. ASSUME Weak = {}, PlainInv, [Next]_vars
        PROVE  WeakInv'
    <3>1. CountInv'
      BY <2>2, CountInvInductive DEF PlainInv, WeakInv
    <3>2. ASSUME NEW t \in Thread, StrongStep(t)
          PROVE  WeakInv'
      BY <2>2, <3>1, <3>2, StrongStepWeakCounts DEF PlainInv
    <3>3. CASE UNCHANGED vars
      BY <2>2, <3>1, <3>3 DEF PlainInv, WeakInv, WeakCountsObservers, Observers,
         WeakTargetsEmpty, WeakTargetsPrivate, FreshUnobserved, NoCopyAssign, vars
    <3>4. QED BY <2>2, <3>2, <3>3, NoWeakStep DEF Next
  <2>3. QED BY <2>1, <2>2 DEF Plain
<1>3. ASSUME PlainInv, NEW t \in Thread, StrongStep(t) \/ WeakStep(t), WeakInv'
      PROVE  PlainInv'
  BY <1>3, StrongStepPlain, WeakStepPlain, NoWeakStep DEF Plain
<1>4. ASSUME PlainInv, UNCHANGED vars, WeakInv'
      PROVE  PlainInv'
  BY <1>4 DEF PlainInv, vars, OwnedIsLive, NoUseAfterFree, Promotes, Nested,
              Apart, Stages, Phases, TakenDown, Owners, Observers
<1>5. QED BY <1>2, <1>3, <1>4 DEF Next

LEMMA PlainInvInitially == Init => PlainInv
<1>1. SUFFICES ASSUME Init PROVE PlainInv
  OBVIOUS
<1>2. WeakInv
  BY <1>1, WeakInvInitially
<1>3. OwnedIsLive /\ NoUseAfterFree /\ Promotes
  BY <1>1 DEF Init, OwnedIsLive, NoUseAfterFree, Promotes, None
<1>4. Nested /\ Apart /\ Stages
  BY <1>1 DEF Init, Nested, Apart, Stages
<1>5. Phases
  BY <1>1 DEF Init, Phases
<1>6. QED BY <1>2, <1>3, <1>4, <1>5 DEF PlainInv

\* A program of one thread, or of any number that use no weak_t, never
\* touches a control block that is freed: the block goes when the last observer
\* leaves after the destructor, or with the object when nobody observes it, and
\* no operation of any thread refers to it afterwards.
THEOREM PlainNeverTouchesFreed ==
  ASSUME Plain
  PROVE  Spec => []NoUseAfterFree
<1>1. PlainInv /\ [Next]_vars => PlainInv'
  BY PlainInvInductive
<1>2. PlainInv => NoUseAfterFree
  BY DEF PlainInv
<1>3. QED BY <1>1, <1>2, PlainInvInitially, PTL DEF Spec

\* Nor does it leak: between operations every control block is freed or has a
\* handle, and an object without an owner has been destroyed.
THEOREM PlainNeverLeaks ==
  ASSUME Plain
  PROVE  Spec => []NothingLeaks
<1>1. PlainInv /\ [Next]_vars => PlainInv'
  BY PlainInvInductive
<1>2. ASSUME PlainInv
      PROVE  NothingLeaks
  <2>1. SUFFICES ASSUME \A t \in Thread : stack[t] = <<>> /\ op[t] = None,
                        NEW o \in Object, block[o] = "live"
                 PROVE  /\ Owners(o) \cup Observers(o) # {}
                        /\ Owners(o) = {} => data[o] = "deleted"
    BY DEF NothingLeaks
  <2>2. ~TakenDown(o)
    BY <2>1 DEF TakenDown
  <2>3. data[o] \in {"none", "live", "dying", "deleted"}
    BY <1>2 DEF PlainInv, WeakInv, CountInv, TypeOK
  <2>4. QED BY <1>2, <2>1, <2>2, <2>3 DEF PlainInv, Phases
<1>3. QED BY <1>1, <1>2, PlainInvInitially, PTL DEF Spec

-----------------------------------------------------------------------------
(* Such a program's counters implement Ownership.                          *)

\* What a step does to the owners, the observers and the life of the objects
\* says which action of Ownership it is.
LEMMA Stutters ==
  ASSUME \A p \in Object : /\ Owners(p)' = Owners(p)
                           /\ Observers(p)' = Observers(p)
                           /\ Life(p)' = Life(p)
  PROVE  UNCHANGED Lives!vars
BY DEF Lives!vars

LEMMA Creates ==
  ASSUME NEW o \in Object, NEW h \in Strong, Life(o) = "unborn",
         \A p \in Object : /\ h \notin Owners(p) \cup Observers(p)
                           /\ Owners(p)' = IF p = o THEN {h} ELSE Owners(p)
                           /\ Observers(p)' = Observers(p)
                           /\ Life(p)' = IF p = o THEN "alive" ELSE Life(p)
  PROVE  Lives!Next
<1>1. Lives!Create(o, h)
  BY DEF Lives!Create, Lives!FreeHandle
<1>2. QED BY <1>1 DEF Lives!Next

LEMMA Shares ==
  ASSUME NEW o \in Object, NEW h \in Strong, Life(o) = "alive",
         \A p \in Object :
           /\ h \notin Owners(p) \cup Observers(p)
           /\ Owners(p)' = IF p = o THEN Owners(o) \cup {h} ELSE Owners(p)
           /\ Observers(p)' = Observers(p)
           /\ Life(p)' = Life(p)
  PROVE  Lives!Next
<1>1. Lives!Share(o, h)
  BY DEF Lives!Share, Lives!FreeHandle
<1>2. QED BY <1>1 DEF Lives!Next

LEMMA HandsOver ==
  ASSUME NEW o \in Object, NEW g \in Owners(o), NEW h \in Strong,
         Life(o) = "alive",
         \A p \in Object :
           /\ h \notin Owners(p) \cup Observers(p)
           /\ Owners(p)' = IF p = o THEN (Owners(o) \ {g}) \cup {h} ELSE Owners(p)
           /\ Observers(p)' = Observers(p)
           /\ Life(p)' = Life(p)
  PROVE  Lives!Next
<1>1. Lives!HandOver(o, g, h) /\ g \in Strong
  BY DEF Lives!HandOver, Lives!FreeHandle, Owners
<1>2. QED BY <1>1 DEF Lives!Next

LEMMA Abandons ==
  ASSUME NEW o \in Object, NEW h \in Owners(o), Life(o) = "alive",
         \A p \in Object :
           /\ Owners(p)' = IF p = o THEN Owners(o) \ {h} ELSE Owners(p)
           /\ Observers(p)' = Observers(p)
           /\ Life(p)' = IF p = o /\ Owners(o) = {h} THEN "dying" ELSE Life(p)
  PROVE  Lives!Next
<1>1. Lives!Abandon(o, h) /\ h \in Strong
  BY DEF Lives!Abandon, Owners
<1>2. QED BY <1>1 DEF Lives!Next

LEMMA Dies ==
  ASSUME NEW o \in Object, Life(o) = "dying",
         \A p \in Object : /\ Owners(p)' = Owners(p)
                           /\ Observers(p)' = Observers(p)
                           /\ Life(p)' = IF p = o THEN "dead" ELSE Life(p)
  PROVE  Lives!Next
<1>1. Lives!Die(o)
  BY DEF Lives!Die
<1>2. QED BY <1>1 DEF Lives!Next

LEMMA Watches ==
  ASSUME NEW o \in Object, NEW w \in Weak,
         Life(o) \in {"alive", "dying", "dead"},
         \A p \in Object :
           /\ w \notin Owners(p) \cup Observers(p)
           /\ Owners(p)' = Owners(p)
           /\ Observers(p)' = IF p = o THEN Observers(o) \cup {w} ELSE Observers(p)
           /\ Life(p)' = Life(p)
  PROVE  Lives!Next
<1>1. Lives!Watch(o, w)
  BY DEF Lives!Watch, Lives!FreeHandle
<1>2. QED BY <1>1 DEF Lives!Next

LEMMA WatchesInstead ==
  ASSUME NEW o \in Object, NEW v \in Observers(o), NEW w \in Weak,
         \A p \in Object :
           /\ w \notin Owners(p) \cup Observers(p)
           /\ Owners(p)' = Owners(p)
           /\ Observers(p)' = IF p = o THEN (Observers(o) \ {v}) \cup {w}
                              ELSE Observers(p)
           /\ Life(p)' = Life(p)
  PROVE  Lives!Next
<1>1. Lives!WatchInstead(o, v, w) /\ v \in Weak
  BY DEF Lives!WatchInstead, Lives!FreeHandle, Observers
<1>2. QED BY <1>1 DEF Lives!Next

LEMMA Ignores ==
  ASSUME NEW o \in Object, NEW w \in Observers(o),
         \A p \in Object :
           /\ Owners(p)' = Owners(p)
           /\ Observers(p)' = IF p = o THEN Observers(o) \ {w} ELSE Observers(p)
           /\ Life(p)' = Life(p)
  PROVE  Lives!Next
<1>1. Lives!Ignore(o, w) /\ w \in Weak
  BY DEF Lives!Ignore, Observers
<1>2. QED BY <1>1 DEF Lives!Next

LEMMA Reclaims ==
  ASSUME NEW o \in Object, Life(o) = "dead", Owners(o) \cup Observers(o) = {},
         \A p \in Object : /\ Owners(p)' = Owners(p)
                           /\ Observers(p)' = Observers(p)
                           /\ Life(p)' = IF p = o THEN "reclaimed" ELSE Life(p)
  PROVE  Lives!Next
<1>1. Lives!Reclaim(o)
  BY DEF Lives!Reclaim
<1>2. QED BY <1>1 DEF Lives!Next

\* An empty handle is free, whichever its class.
LEMMA EmptyIsFree ==
  ASSUME TypeOK, NEW p \in Object
  PROVE  /\ \A h \in Strong : sh[h] = Null => h \notin Owners(p) \cup Observers(p)
         /\ \A w \in Weak : wk[w] = Null => w \notin Owners(p) \cup Observers(p)
BY NullFresh, HandleKinds DEF Owners, Observers

LEMMA AcquireMaps ==
  ASSUME PlainInv, NEW h \in Strong, NEW o \in Object, Acquire(h, o),
         sh[h] = Null, data[o] = "live"
  PROVE  Lives!Next
<1>0. TypeOK
  BY DEF PlainInv, WeakInv, CountInv
<1>1. Life(o) = "alive"
  BY DEF PlainInv, Phases, Life
<1>2. ASSUME NEW p \in Object
      PROVE  /\ h \notin Owners(p) \cup Observers(p)
             /\ Owners(p)' = IF p = o THEN Owners(o) \cup {h} ELSE Owners(p)
             /\ Observers(p)' = Observers(p)
             /\ Life(p)' = Life(p)
  <2>1. UNCHANGED <<wk, data, block>> /\ sh' = [sh EXCEPT ![h] = o]
    BY DEF Acquire
  <2>2. Observers(p)' = Observers(p) /\ Life(p)' = Life(p)
    BY <2>1 DEF Observers, Life
  <2>3. Owners(p)' = IF p = o THEN Owners(o) \cup {h} ELSE Owners(p)
    BY <1>0, <2>1, NullFresh DEF Owners, TypeOK
  <2>4. QED BY <1>0, <2>2, <2>3, EmptyIsFree
<1>3. QED BY <1>1, <1>2, Shares

LEMMA ObserveMaps ==
  ASSUME PlainInv, NEW w \in Weak, NEW o \in Object, Observe(w, o),
         wk[w] = Null, block[o] = "live"
  PROVE  Lives!Next
<1>0. TypeOK
  BY DEF PlainInv, WeakInv, CountInv
<1>1. Life(o) \in {"alive", "dying", "dead"}
  BY <1>0 DEF PlainInv, Phases, Life, TypeOK
<1>2. ASSUME NEW p \in Object
      PROVE  /\ w \notin Owners(p) \cup Observers(p)
             /\ Owners(p)' = Owners(p)
             /\ Observers(p)' = IF p = o THEN Observers(o) \cup {w}
                                ELSE Observers(p)
             /\ Life(p)' = Life(p)
  <2>1. UNCHANGED <<sh, data, block>> /\ wk' = [wk EXCEPT ![w] = o]
    BY DEF Observe
  <2>2. Owners(p)' = Owners(p) /\ Life(p)' = Life(p)
    BY <2>1 DEF Owners, Life
  <2>3. Observers(p)' = IF p = o THEN Observers(o) \cup {w} ELSE Observers(p)
    BY <1>0, <2>1, NullFresh DEF Observers, TypeOK
  <2>4. QED BY <1>0, <2>2, <2>3, EmptyIsFree
<1>3. QED BY <1>1, <1>2, Watches

\* The last owner is the one whose decrement saw the count at one.
LEMMA DropMaps ==
  ASSUME PlainInv, CountInv', NEW t \in Thread, NEW h \in Strong, NEW rest,
         Drop(t, h, rest)
  PROVE  Lives!Next \/ UNCHANGED Lives!vars
<1>0. TypeOK /\ CountInv
  BY DEF PlainInv, WeakInv, CountInv
<1>1. CASE sh[h] = Null
  <2>1. UNCHANGED <<sh, wk, data, block>>
    BY <1>1 DEF Drop
  <2>2. QED BY <2>1, Stutters DEF Owners, Observers, Life
<1>2. CASE sh[h] # Null
  <2>1. PICK o \in Object : o = sh[h] /\ data[o] = "live" /\ block[o] = "live"
    BY <1>2, BoundBlocks
  <2>2. /\ sh' = [sh EXCEPT ![h] = Null] /\ UNCHANGED <<wk, block>>
        /\ strong' = [strong EXCEPT ![o] = strong[o] - 1]
        /\ data' = IF strong[o] = 1 THEN [data EXCEPT ![o] = "dying"] ELSE data
    BY <1>2, <2>1 DEF Drop, Touches
  <2>3. h \in Owners(o) /\ Life(o) = "alive"
    BY <2>1 DEF Owners, Life
  <2>4. \A p \in Object : Owners(p)' = IF p = o THEN Owners(o) \ {h} ELSE Owners(p)
    BY <1>0, <2>1, <2>2, NullFresh DEF Owners, TypeOK
  <2>5. strong[o] = 1 <=> Owners(o) = {h}
    <3>1. strong'[o] = strong[o] - 1 /\ strong[o] \in Int
      BY <1>0, <2>2 DEF TypeOK
    <3>2. strong'[o] = 0 <=> Owners(o)' = {}
      BY ZeroOwners
    <3>3. Owners(o)' = {} <=> Owners(o) = {h}
      BY <2>3, <2>4
    <3>4. QED BY <3>1, <3>2, <3>3
  <2>6. ASSUME NEW p \in Object
        PROVE  /\ Observers(p)' = Observers(p)
               /\ Life(p)' = IF p = o /\ Owners(o) = {h} THEN "dying" ELSE Life(p)
    <3>1. data'[p] = IF p = o /\ strong[o] = 1 THEN "dying" ELSE data[p]
      BY <1>0, <2>2 DEF TypeOK
    <3>2. QED BY <2>1, <2>2, <2>5, <3>1 DEF Observers, Life
  <2>7. QED BY <2>3, <2>4, <2>6, Abandons
<1>3. QED BY <1>1, <1>2

LEMMA WeakDropMaps ==
  ASSUME PlainInv, NEW t \in Thread, NEW w \in Weak, NEW rest,
         WeakDrop(t, w, rest)
  PROVE  Lives!Next \/ UNCHANGED Lives!vars
<1>0. TypeOK
  BY DEF PlainInv, WeakInv, CountInv
<1>1. CASE wk[w] = Null
  <2>1. UNCHANGED <<sh, wk, data, block>>
    BY <1>1 DEF WeakDrop
  <2>2. QED BY <2>1, Stutters DEF Owners, Observers, Life
<1>2. CASE wk[w] # Null
  <2>1. PICK o \in Object : o = wk[w] /\ block[o] = "live"
    BY <1>2, BoundBlocks
  <2>2. wk' = [wk EXCEPT ![w] = Null] /\ UNCHANGED <<sh, data, block>>
    BY <1>2, <2>1 DEF WeakDrop, Touches
  <2>3. w \in Observers(o)
    BY <2>1 DEF Observers
  <2>4. \A p \in Object :
          Observers(p)' = IF p = o THEN Observers(o) \ {w} ELSE Observers(p)
    BY <1>0, <2>1, <2>2, NullFresh DEF Observers, TypeOK
  <2>5. \A p \in Object : Owners(p)' = Owners(p) /\ Life(p)' = Life(p)
    BY <2>2 DEF Owners, Life
  <2>6. QED BY <2>3, <2>4, <2>5, Ignores
<1>3. QED BY <1>1, <1>2

LEMMA MoveMaps ==
  ASSUME PlainInv, NEW t \in Thread, MoveTakes(t)
  PROVE  Lives!Next \/ UNCHANGED Lives!vars
<1>0. TypeOK /\ CountInv
  BY DEF PlainInv, WeakInv, CountInv
<1>1. PICK h \in Strong, g \in Strong :
        /\ sh[h] = Null /\ h # g /\ sh' = [sh EXCEPT ![h] = sh[g], ![g] = Null]
  BY <1>0, Operands DEF MoveTakes, Resumes, CountInv, TargetsEmpty, Fills
<1>2. UNCHANGED <<wk, data, block>>
  BY DEF MoveTakes
<1>3. \A p \in Object : Observers(p)' = Observers(p) /\ Life(p)' = Life(p)
  BY <1>2 DEF Observers, Life
<1>4. /\ sh'[h] = sh[g] /\ sh'[g] = Null
      /\ \A k \in Strong : k \notin {h, g} => sh'[k] = sh[k]
  BY <1>0, <1>1 DEF TypeOK
<1>5. CASE sh[g] = Null
  <2>1. \A k \in Strong : sh'[k] = sh[k]
    BY <1>1, <1>4, <1>5
  <2>2. \A p \in Object : Owners(p)' = Owners(p)
    BY <2>1 DEF Owners
  <2>3. QED BY <1>3, <2>2, Stutters
<1>6. CASE sh[g] # Null
  <2>1. PICK o \in Object : o = sh[g] /\ data[o] = "live" /\ block[o] = "live"
    BY <1>6, BoundBlocks
  <2>2. g \in Owners(o) /\ Life(o) = "alive"
    BY <2>1 DEF Owners, Life
  <2>3. \A p \in Object :
          Owners(p)' = IF p = o THEN (Owners(o) \ {g}) \cup {h} ELSE Owners(p)
    BY <1>1, <1>4, <2>1, NullFresh DEF Owners
  <2>4. \A p \in Object : h \notin Owners(p) \cup Observers(p)
    BY <1>0, <1>1, EmptyIsFree
  <2>5. QED BY <1>3, <2>2, <2>3, <2>4, HandsOver
<1>7. QED BY <1>5, <1>6

LEMMA WeakMoveMaps ==
  ASSUME PlainInv, NEW t \in Thread, WeakMoveTakes(t)
  PROVE  Lives!Next \/ UNCHANGED Lives!vars
<1>0. TypeOK /\ WeakInv
  BY DEF PlainInv, WeakInv, CountInv
<1>1. PICK w \in Weak, v \in Weak :
        /\ wk[w] = Null /\ w # v /\ wk' = [wk EXCEPT ![w] = wk[v], ![v] = Null]
  BY <1>0, Operands
     DEF WeakMoveTakes, Resumes, WeakInv, WeakTargetsEmpty, WeakFills
<1>2. UNCHANGED <<sh, data, block>>
  BY DEF WeakMoveTakes
<1>3. \A p \in Object : Owners(p)' = Owners(p) /\ Life(p)' = Life(p)
  BY <1>2 DEF Owners, Life
<1>4. /\ wk'[w] = wk[v] /\ wk'[v] = Null
      /\ \A x \in Weak : x \notin {w, v} => wk'[x] = wk[x]
  BY <1>0, <1>1 DEF TypeOK
<1>5. CASE wk[v] = Null
  <2>1. \A x \in Weak : wk'[x] = wk[x]
    BY <1>1, <1>4, <1>5
  <2>2. \A p \in Object : Observers(p)' = Observers(p)
    BY <2>1 DEF Observers
  <2>3. QED BY <1>3, <2>2, Stutters
<1>6. CASE wk[v] # Null
  <2>1. PICK o \in Object : o = wk[v]
    BY <1>6, BoundBlocks
  <2>2. v \in Observers(o)
    BY <2>1 DEF Observers
  <2>3. \A p \in Object :
          Observers(p)' = IF p = o THEN (Observers(o) \ {v}) \cup {w}
                          ELSE Observers(p)
    BY <1>1, <1>4, <2>1, NullFresh DEF Observers
  <2>4. \A p \in Object : w \notin Owners(p) \cup Observers(p)
    BY <1>0, <1>1, EmptyIsFree
  <2>5. QED BY <1>3, <2>2, <2>3, <2>4, WatchesInstead
<1>7. QED BY <1>5, <1>6

\* The invariant after the step says what it freed: an object that is gone and
\* that nobody refers to.
LEMMA FreeIfMaps ==
  ASSUME PlainInv, PlainInv', NEW t \in Thread, CheckWeak(t) \/ CheckStrong(t)
  PROVE  Lives!Next \/ UNCHANGED Lives!vars
<1>0. TypeOK
  BY DEF PlainInv, WeakInv, CountInv
<1>1. PICK o \in Object : o = Head(stack[t]).obj
  BY <1>0, TopIsFrame DEF CheckWeak, CheckStrong, At, Frame
<1>2. block[o] = "live"
  <2>1. stack[t] # <<>> /\ Head(stack[t]) = stack[t][1] /\ 1 \in 1..Len(stack[t])
    BY <1>0 DEF CheckWeak, CheckStrong, At, TypeOK
  <2>2. QED BY <1>1, <2>1 DEF PlainInv, Stages
<1>3. /\ UNCHANGED <<sh, wk, data>>
      /\ UNCHANGED block \/ block' = [block EXCEPT ![o] = "freed"]
  BY <1>1, <1>2 DEF CheckWeak, CheckStrong, FreeIf, Touches
<1>4. \A p \in Object : Owners(p)' = Owners(p) /\ Observers(p)' = Observers(p)
  BY <1>3 DEF Owners, Observers
<1>5. CASE UNCHANGED block
  BY <1>3, <1>4, <1>5, Stutters DEF Life
<1>6. CASE block' = [block EXCEPT ![o] = "freed"]
  <2>1. \A p \in Object : block'[p] = IF p = o THEN "freed" ELSE block[p]
    BY <1>0, <1>6 DEF TypeOK
  <2>2. data[o] = "deleted" /\ Observers(o) = {}
    BY <1>3, <1>4, <2>1 DEF PlainInv, Phases
  <2>3. Owners(o) = {}
    BY <2>2, NullFresh DEF PlainInv, OwnedIsLive, Owners
  <2>4. Life(o) = "dead"
    BY <1>2, <2>2 DEF Life
  <2>5. \A p \in Object : Life(p)' = IF p = o THEN "reclaimed" ELSE Life(p)
    BY <1>3, <2>1 DEF Life
  <2>6. QED BY <1>4, <2>2, <2>3, <2>4, <2>5, Reclaims
<1>7. QED BY <1>3, <1>5, <1>6

LEMMA StrongStepMaps ==
  ASSUME PlainInv, PlainInv', NEW t \in Thread, StrongStep(t)
  PROVE  Lives!Next \/ UNCHANGED Lives!vars
<1>0. TypeOK /\ CountInv /\ CountInv'
  BY DEF PlainInv, WeakInv, CountInv
<1>1. ASSUME NEW h \in Strong, NEW o \in Object, Make(t, h, o)
      PROVE  Lives!Next
  <2>1. /\ sh[h] = Null /\ block[o] = "none" /\ data[o] = "none"
        /\ sh' = [sh EXCEPT ![h] = o] /\ UNCHANGED wk
        /\ data' = [data EXCEPT ![o] = "live"]
        /\ block' = [block EXCEPT ![o] = "live"]
    BY <1>1 DEF Make, PlainInv, Phases
  <2>2. Life(o) = "unborn" /\ Owners(o) = {}
    BY <2>1, NullFresh DEF Life, PlainInv, OwnedIsLive, Owners
  <2>3. ASSUME NEW p \in Object
        PROVE  /\ h \notin Owners(p) \cup Observers(p)
               /\ Owners(p)' = IF p = o THEN {h} ELSE Owners(p)
               /\ Observers(p)' = Observers(p)
               /\ Life(p)' = IF p = o THEN "alive" ELSE Life(p)
    <3>1. h \notin Owners(p) \cup Observers(p)
      BY <1>0, <2>1, EmptyIsFree
    <3>2. Owners(p)' = IF p = o THEN {h} ELSE Owners(p)
      BY <1>0, <2>1, <2>2, NullFresh DEF Owners, TypeOK
    <3>3. Observers(p)' = Observers(p)
      BY <2>1 DEF Observers
    <3>4. Life(p)' = IF p = o THEN "alive" ELSE Life(p)
      BY <1>0, <2>1 DEF Life, TypeOK
    <3>5. QED BY <3>1, <3>2, <3>3, <3>4
  <2>4. QED BY <2>2, <2>3, Creates
<1>2. ASSUME NEW h \in Strong, NEW g \in Strong, Copy(t, h, g)
      PROVE  Lives!Next
  <2>1. sh[g] \in Object /\ data[sh[g]] = "live" /\ block[sh[g]] = "live"
    BY <1>2, BoundBlocks DEF Copy
  <2>2. Acquire(h, sh[g]) /\ sh[h] = Null
    BY <1>2, <2>1 DEF Copy, Touches
  <2>3. QED BY <2>1, <2>2, AcquireMaps
<1>3. ASSUME NEW h \in Strong, NEW g \in Strong,
             Assign(t, h, g) \/ Move(t, h, g) \/ Release(t, h)
      PROVE  Lives!Next \/ UNCHANGED Lives!vars
  BY <1>0, <1>3, DropMaps DEF Assign, Move, Release
<1>4. CASE AssignTakes(t)
  <2>1. op[t].to \in Strong /\ op[t].from \in Strong /\ sh[op[t].to] = Null
    BY <1>0, <1>4, Operands DEF AssignTakes, Resumes, CountInv, TargetsEmpty, Fills
  <2>2. CASE sh[op[t].from] = Null
    <3>1. UNCHANGED <<sh, wk, data, block>>
      BY <1>4, <2>2 DEF AssignTakes
    <3>2. QED BY <3>1, Stutters DEF Owners, Observers, Life
  <2>3. CASE sh[op[t].from] # Null
    <3>1. /\ sh[op[t].from] \in Object /\ data[sh[op[t].from]] = "live"
          /\ block[sh[op[t].from]] = "live"
      BY <2>1, <2>3, BoundBlocks
    <3>2. Acquire(op[t].to, sh[op[t].from])
      BY <1>4, <2>3, <3>1 DEF AssignTakes, Touches
    <3>3. QED BY <2>1, <3>1, <3>2, AcquireMaps
  <2>4. QED BY <2>2, <2>3
<1>5. CASE DestroyEnds(t)
  <2>1. PICK o \in Object : o = Head(stack[t]).obj
    BY <1>0, <1>5, TopIsFrame DEF DestroyEnds, At, Frame
  <2>2. data[o] = "dying" /\ block[o] = "live"
    <3>1. /\ stack[t] # <<>> /\ Head(stack[t]) = stack[t][1]
          /\ 1 \in 1..Len(stack[t]) /\ stack[t][1].do = "destroy"
      BY <1>0, <1>5 DEF DestroyEnds, At, TypeOK
    <3>2. QED BY <2>1, <3>1 DEF PlainInv, Stages
  <2>3. data' = [data EXCEPT ![o] = "deleted"] /\ UNCHANGED <<sh, wk, block>>
    BY <1>5, <2>1, <2>2 DEF DestroyEnds, Touches
  <2>4. Life(o) = "dying"
    BY <2>2 DEF Life
  <2>5. ASSUME NEW p \in Object
        PROVE  /\ Owners(p)' = Owners(p) /\ Observers(p)' = Observers(p)
               /\ Life(p)' = IF p = o THEN "dead" ELSE Life(p)
    <3>1. Life(p)' = IF p = o THEN "dead" ELSE Life(p)
      BY <1>0, <2>2, <2>3 DEF Life, TypeOK
    <3>2. QED BY <2>3, <3>1 DEF Owners, Observers
  <2>6. QED BY <2>4, <2>5, Dies
<1>6. CASE CheckWeak(t)
  BY <1>6, FreeIfMaps
<1>7. CASE MoveTakes(t)
  BY <1>7, MoveMaps
<1>8. QED BY <1>1, <1>2, <1>3, <1>4, <1>5, <1>6, <1>7 DEF StrongStep

LEMMA WeakStepMaps ==
  ASSUME PlainInv, PlainInv', NEW t \in Thread, WeakStep(t)
  PROVE  Lives!Next \/ UNCHANGED Lives!vars
<1>0. TypeOK /\ CountInv /\ WeakInv
  BY DEF PlainInv, WeakInv, CountInv
<1>1. ASSUME NEW w \in Weak, NEW h \in Strong, WeakMake(t, w, h)
      PROVE  Lives!Next
  <2>1. sh[h] \in Object /\ block[sh[h]] = "live"
    BY <1>1, BoundBlocks DEF WeakMake
  <2>2. Observe(w, sh[h]) /\ wk[w] = Null
    BY <1>1, <2>1 DEF WeakMake, Touches
  <2>3. QED BY <2>1, <2>2, ObserveMaps
<1>2. ASSUME NEW w \in Weak, NEW v \in Weak, WeakCopy(t, w, v)
      PROVE  Lives!Next
  <2>1. wk[v] \in Object /\ block[wk[v]] = "live"
    BY <1>2, BoundBlocks DEF WeakCopy
  <2>2. Observe(w, wk[v]) /\ wk[w] = Null
    BY <1>2, <2>1 DEF WeakCopy, Touches
  <2>3. QED BY <2>1, <2>2, ObserveMaps
<1>3. ASSUME NEW w \in Weak,
             \/ \E h \in Strong : WeakAssign(t, w, h)
             \/ \E v \in Weak : WeakMove(t, w, v) \/ WeakCopyAssign(t, w, v)
             \/ WeakRelease(t, w) \/ Listener(t, w)
      PROVE  Lives!Next \/ UNCHANGED Lives!vars
  BY <1>3, WeakDropMaps
     DEF WeakAssign, WeakMove, WeakCopyAssign, WeakRelease, Listener
<1>4. CASE CheckStrong(t)
  BY <1>4, FreeIfMaps
<1>5. CASE WeakAssignTakes(t)
  <2>1. op[t].to \in Weak /\ op[t].from \in Strong /\ wk[op[t].to] = Null
    BY <1>0, <1>5, Operands
       DEF WeakAssignTakes, Resumes, WeakInv, WeakTargetsEmpty, WeakFills
  <2>2. CASE sh[op[t].from] = Null
    <3>1. UNCHANGED <<sh, wk, data, block>>
      BY <1>5, <2>2 DEF WeakAssignTakes
    <3>2. QED BY <3>1, Stutters DEF Owners, Observers, Life
  <2>3. CASE sh[op[t].from] # Null
    <3>1. sh[op[t].from] \in Object /\ block[sh[op[t].from]] = "live"
      BY <2>1, <2>3, BoundBlocks
    <3>2. Observe(op[t].to, sh[op[t].from])
      BY <1>5, <2>3, <3>1 DEF WeakAssignTakes, Touches
    <3>3. QED BY <2>1, <3>1, <3>2, ObserveMaps
  <2>4. QED BY <2>2, <2>3
<1>6. CASE WeakMoveTakes(t)
  BY <1>6, WeakMoveMaps
<1>7. ASSUME NEW h \in Strong, NEW w \in Weak, Lock(t, h, w)
      PROVE  UNCHANGED Lives!vars
  <2>1. UNCHANGED <<sh, wk, data, block>>
    BY <1>7 DEF Lock, Stop
  <2>2. QED BY <2>1, Stutters DEF Owners, Observers, Life
<1>8. CASE LockTakes(t)
  <2>1. /\ op[t].to \in Strong /\ op[t].obj \in Object /\ sh[op[t].to] = Null
        /\ op[t].do = "lockTake"
    BY <1>0, <1>8, Operands DEF LockTakes, Resumes, CountInv, TargetsEmpty, Fills
  <2>2. data[op[t].obj] = "live" /\ block[op[t].obj] = "live"
    BY <2>1 DEF PlainInv, Promotes, Phases
  <2>3. Acquire(op[t].to, op[t].obj)
    BY <1>8, <2>2 DEF LockTakes, Touches
  <2>4. QED BY <2>1, <2>2, <2>3, AcquireMaps
<1>9. ~WeakCopyTakes(t)
  BY <1>0 DEF WeakCopyTakes, Resumes, WeakInv, NoCopyAssign
<1>10. QED
  BY <1>1, <1>2, <1>3, <1>4, <1>5, <1>6, <1>7, <1>8, <1>9 DEF WeakStep

\* Such a program gets from the counters what Ownership promises:
\* every step of resource.hpp is a step of the sets of owners and observers
\* or leaves them as they are.
THEOREM PlainImplementsOwnership ==
  ASSUME Plain
  PROVE  Spec => ImplementsOwnership
<1>1. Init => Lives!Init
  <2>1. Init => \A o \in Object : /\ Owners(o) = {} /\ Observers(o) = {}
                                  /\ Life(o) = "unborn"
    BY NullFresh DEF Init, Owners, Observers, Life
  <2>2. QED BY <2>1 DEF Lives!Init
<1>2. PlainInv /\ [Next]_vars => PlainInv'
  BY PlainInvInductive
<1>3. PlainInv /\ PlainInv' /\ [Next]_vars => [Lives!Next]_(Lives!vars)
  <2>1. ASSUME PlainInv, PlainInv', NEW t \in Thread, StrongStep(t) \/ WeakStep(t)
        PROVE  Lives!Next \/ UNCHANGED Lives!vars
    BY <2>1, StrongStepMaps, WeakStepMaps
  <2>2. ASSUME UNCHANGED vars
        PROVE  UNCHANGED Lives!vars
    BY <2>2, Stutters DEF vars, Owners, Observers, Life
  <2>3. QED BY <2>1, <2>2 DEF Next
<1>4. QED
  BY <1>1, <1>2, <1>3, PlainInvInitially, PTL
     DEF Spec, ImplementsOwnership, Lives!Spec

=============================================================================
