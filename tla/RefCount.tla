------------------------------ MODULE RefCount ------------------------------
(***************************************************************************)
(* The reference counts of include/barock/resource.hpp: shared_t, weak_t   *)
(* and the control block they share.                                       *)
(*                                                                         *)
(* A handle is a C++ variable of type shared_t or weak_t.  Threads run     *)
(* programs made of the operations of the two classes; one step is one     *)
(* access to an atomic counter, with the accesses private to the thread    *)
(* that follow it.  What is left of an operation of more than one step is  *)
(* in op, and the control blocks it is taking down are on a stack, because *)
(* the destructor of an object runs operations of its own before the       *)
(* operation that destroyed it goes on.  The program is built with         *)
(* -fsanitize=address, so that touching a freed control block stops it:    *)
(* that is what `fault' records.                                           *)
(***************************************************************************)
EXTENDS Integers, Sequences, FiniteSets

CONSTANTS
  Object,   \* managed objects, each with the control block made for it
  Strong,   \* variables of type shared_t
  Weak,     \* variables of type weak_t
  Thread,   \* the main thread and the render threads
  Home,     \* the object a handle is a member of, or Null
  Ops,      \* which of the operations of OptionalOps the programs use
  Null

\* The operations whose use decides which of the properties below hold.
OptionalOps == {"weakCopyAssign", "lock", "listener"}

ASSUME FiniteHandles == IsFiniteSet(Strong) /\ IsFiniteSet(Weak)
ASSUME SomeObject    == Object # {}
ASSUME NullFresh     == Null \notin Object \cup Strong \cup Weak
ASSUME HandleKinds   == Strong \cap Weak = {}
ASSUME OpsKnown      == Ops \subseteq OptionalOps
ASSUME HomeType      == Home \in [Strong \cup Weak -> Object \cup {Null}]

VARIABLES
  sh,      \* sh[h] : the control block of strong handle h
  wk,      \* wk[w] : the control block of weak handle w
  strong,  \* control_t::strong
  weak,    \* control_t::weak
  data,    \* the managed object: "none", "live", "dying" or "deleted"
  block,   \* the control block: "none", "live" or "freed"
  op,      \* op[t] : what thread t has left to do of its operation
  stack,   \* stack[t] : the blocks thread t is taking down, innermost first
  fault    \* the program touched a freed control block and was stopped

vars == <<sh, wk, strong, weak, data, block, op, stack, fault>>

Frame == [do : {"destroy", "checkWeak", "checkStrong"}, obj : Object]

None == [do |-> "none", obj |-> Null, to |-> Null, from |-> Null]

Pending ==
  {None}
  \cup [do : {"take", "moveTo"}, obj : {Null}, to : Strong, from : Strong]
  \cup [do : {"weakTake"}, obj : {Null}, to : Weak, from : Strong]
  \cup [do : {"weakMoveTo", "weakCopyTo"}, obj : {Null}, to : Weak, from : Weak]
  \cup [do : {"lockTake"}, obj : Object, to : Strong, from : Weak]

TypeOK ==
  /\ sh \in [Strong -> Object \cup {Null}]
  /\ wk \in [Weak -> Object \cup {Null}]
  /\ strong \in [Object -> Int]
  /\ weak \in [Object -> Int]
  /\ data \in [Object -> {"none", "live", "dying", "deleted"}]
  /\ block \in [Object -> {"none", "live", "freed"}]
  /\ op \in [Thread -> Pending]
  /\ stack \in [Thread -> Seq(Frame)]
  /\ fault \in BOOLEAN

Init ==
  /\ sh = [h \in Strong |-> Null]
  /\ wk = [w \in Weak |-> Null]
  /\ strong = [o \in Object |-> 0]
  /\ weak = [o \in Object |-> 0]
  /\ data = [o \in Object |-> "none"]
  /\ block = [o \in Object |-> "none"]
  /\ op = [t \in Thread |-> None]
  /\ stack = [t \in Thread |-> <<>>]
  /\ fault = FALSE

-----------------------------------------------------------------------------
(* Handles and pending work.                                               *)

Doing(do, o, to, from) == [do |-> do, obj |-> o, to |-> to, from |-> from]

\* A handle named by an unfinished operation belongs to that operation.
Busy(h) == \E t \in Thread : h \in {op[t].to, op[t].from}

\* The memory of the handle is a variable of the program or a member of an
\* object that is still there, and no other operation is using it.
Usable(h) == ~Busy(h) /\ Home[h] \in {Null} \cup {o \in Object : data[o] = "live"}

\* Assignments go between variables that are not members of an object.
Variable(h) == Usable(h) /\ Home[h] = Null

\* Thread t starts an operation of its program, or goes on with it.
Idle(t) == ~fault /\ stack[t] = <<>> /\ op[t] = None
Resumes(t, do) == ~fault /\ stack[t] = <<>> /\ op[t].do = do

\* Thread t is at this point of taking down the innermost block.
At(t, do) == ~fault /\ stack[t] # <<>> /\ Head(stack[t]).do = do

\* A handle goes out of scope, or is a member of the object whose destructor
\* thread t is running.
MayDestroy(t, h) ==
  \/ Idle(t) /\ Usable(h)
  \/ At(t, "destroy") /\ ~Busy(h) /\ Home[h] = Head(stack[t]).obj

Push(t, do, o) == stack' = [stack EXCEPT ![t] = <<[do |-> do, obj |-> o]>> \o @]
Pop(t) == stack' = [stack EXCEPT ![t] = Tail(@)]
Finish(t) == op' = [op EXCEPT ![t] = None]

\* A thread reads or writes the control block of o, or is stopped doing it.
Touches(o) == block[o] # "freed"
Stop == /\ fault' = TRUE
        /\ UNCHANGED <<sh, wk, strong, weak, data, block, op, stack>>

-----------------------------------------------------------------------------
(* shared_t.                                                               *)

\* shared_t(_Ty *): a new object and its control block, { strong = 1, weak = 0 }.
Make(t, h, o) ==
  /\ Idle(t) /\ Usable(h) /\ sh[h] = Null /\ block[o] = "none"
  /\ sh' = [sh EXCEPT ![h] = o]
  /\ strong' = [strong EXCEPT ![o] = 1]
  /\ data' = [data EXCEPT ![o] = "live"]
  /\ block' = [block EXCEPT ![o] = "live"]
  /\ UNCHANGED <<wk, weak, op, stack, fault>>

\* Mutants: the copy constructor does not count itself; it stores 1 in the
\* counter.
AcquireUncounted(h, o) ==
  /\ sh' = [sh EXCEPT ![h] = o]
  /\ UNCHANGED <<wk, strong, weak, data, block, stack, fault>>

AcquireStores(h, o) ==
  /\ sh' = [sh EXCEPT ![h] = o]
  /\ strong' = [strong EXCEPT ![o] = 1]
  /\ UNCHANGED <<wk, weak, data, block, stack, fault>>

\* The handle h joins the owners of o.
Acquire(h, o) ==
  /\ sh' = [sh EXCEPT ![h] = o]
  /\ strong' = [strong EXCEPT ![o] = @ + 1]
  /\ UNCHANGED <<wk, weak, data, block, stack, fault>>

\* The copy constructors, the aliasing one of shared_cast included.
Copy(t, h, g) ==
  /\ Idle(t) /\ Usable(h) /\ Usable(g) /\ sh[h] = Null /\ sh[g] # Null
  /\ IF Touches(sh[g]) THEN Acquire(h, sh[g]) /\ UNCHANGED op ELSE Stop

\* strong.fetch_sub(1) on the block of h, if it has one, with `rest' left to
\* do; the thread that sees the count go from 1 to 0 runs the object's
\* destructor first.
Drop(t, h, rest) ==
  LET o == sh[h] IN
  IF o = Null
  THEN op' = [op EXCEPT ![t] = rest]
       /\ UNCHANGED <<sh, wk, strong, weak, data, block, stack, fault>>
  ELSE IF ~Touches(o) THEN Stop
  ELSE /\ sh' = [sh EXCEPT ![h] = Null]
       /\ strong' = [strong EXCEPT ![o] = @ - 1]
       /\ IF strong[o] = 1
          THEN data' = [data EXCEPT ![o] = "dying"] /\ Push(t, "destroy", o)
          ELSE UNCHANGED <<data, stack>>
       /\ op' = [op EXCEPT ![t] = rest]
       /\ UNCHANGED <<wk, weak, block, fault>>

\* ~shared_t
Release(t, h) ==
  /\ MayDestroy(t, h) /\ sh[h] # Null
  /\ Drop(t, h, op[t])

\* The destructor of the object has run: control->data = nullptr.
DestroyEnds(t) ==
  /\ At(t, "destroy")
  /\ LET o == Head(stack[t]).obj IN
     /\ \A h \in Strong : Home[h] = o => sh[h] = Null
     /\ \A w \in Weak : Home[w] = o => wk[w] = Null
     /\ IF ~Touches(o) THEN Stop
        ELSE /\ data' = [data EXCEPT ![o] = "deleted"]
             /\ stack' = [stack EXCEPT ![t] =
                           <<[do |-> "checkWeak", obj |-> o]>> \o Tail(@)]
             /\ UNCHANGED <<sh, wk, strong, weak, block, op, fault>>

\* Free the block of o if the other counter is zero.
FreeIf(t, o, other) ==
  IF ~Touches(o) THEN Stop
  ELSE /\ block' = IF other[o] = 0 THEN [block EXCEPT ![o] = "freed"] ELSE block
       /\ Pop(t)
       /\ UNCHANGED <<sh, wk, strong, weak, data, op, fault>>

\* Mutants: the block goes with the object whoever observes it; the last
\* observer leaves the block to an owner that is already gone.
CheckWeakSkipped(t) ==
  /\ At(t, "checkWeak")
  /\ FreeIf(t, Head(stack[t]).obj, strong)

CheckStrongKeeps(t) ==
  /\ At(t, "checkStrong")
  /\ Pop(t) /\ UNCHANGED <<sh, wk, strong, weak, data, block, op, fault>>

\* weak.load() == 0: the control block goes with the object.
CheckWeak(t) ==
  /\ At(t, "checkWeak")
  /\ FreeIf(t, Head(stack[t]).obj, weak)

\* operator=(const shared_t &): drop what h holds, then copy g.
Assign(t, h, g) ==
  /\ Idle(t) /\ h # g /\ Variable(h) /\ Variable(g)
  /\ Drop(t, h, Doing("take", Null, h, g))

AssignTakes(t) ==
  /\ Resumes(t, "take")
  /\ LET f == op[t]  o == sh[f.from] IN
     IF o = Null
     THEN Finish(t) /\ UNCHANGED <<sh, wk, strong, weak, data, block, stack, fault>>
     ELSE IF Touches(o) THEN Acquire(f.to, o) /\ Finish(t) ELSE Stop

\* operator=(shared_t &&): ~shared_t on h, then h takes over what g holds.
Move(t, h, g) ==
  /\ Idle(t) /\ h # g /\ Variable(h) /\ Variable(g)
  /\ Drop(t, h, Doing("moveTo", Null, h, g))

\* Mutant: the source of the move keeps its pointer.
MoveTakesShared(t) ==
  /\ Resumes(t, "moveTo")
  /\ sh' = [sh EXCEPT ![op[t].to] = sh[op[t].from]]
  /\ Finish(t)
  /\ UNCHANGED <<wk, strong, weak, data, block, stack, fault>>

MoveTakes(t) ==
  /\ Resumes(t, "moveTo")
  /\ LET f == op[t] IN
     sh' = [sh EXCEPT ![f.to] = sh[f.from], ![f.from] = Null]
  /\ Finish(t)
  /\ UNCHANGED <<wk, strong, weak, data, block, stack, fault>>

-----------------------------------------------------------------------------
(* weak_t.                                                                 *)

Observe(w, o) ==
  /\ wk' = [wk EXCEPT ![w] = o]
  /\ weak' = [weak EXCEPT ![o] = @ + 1]
  /\ UNCHANGED <<sh, strong, data, block, stack, fault>>

\* weak_t(const shared_t &)
WeakMake(t, w, h) ==
  /\ Idle(t) /\ Usable(w) /\ Usable(h)
  /\ wk[w] = Null /\ sh[h] # Null
  /\ IF Touches(sh[h]) THEN Observe(w, sh[h]) /\ UNCHANGED op ELSE Stop

\* weak_t(const weak_t &)
WeakCopy(t, w, v) ==
  /\ Idle(t) /\ Usable(w) /\ Usable(v)
  /\ wk[w] = Null /\ wk[v] # Null
  /\ IF Touches(wk[v]) THEN Observe(w, wk[v]) /\ UNCHANGED op ELSE Stop

\* weak.fetch_sub(1) on the block of w, if it has one, with `rest' left to
\* do; the thread that sees the count go from 1 to 0 looks at the strong
\* count first.
WeakDrop(t, w, rest) ==
  LET o == wk[w] IN
  IF o = Null
  THEN op' = [op EXCEPT ![t] = rest]
       /\ UNCHANGED <<sh, wk, strong, weak, data, block, stack, fault>>
  ELSE IF ~Touches(o) THEN Stop
  ELSE /\ wk' = [wk EXCEPT ![w] = Null]
       /\ weak' = [weak EXCEPT ![o] = @ - 1]
       /\ IF weak[o] = 1 THEN Push(t, "checkStrong", o) ELSE UNCHANGED stack
       /\ op' = [op EXCEPT ![t] = rest]
       /\ UNCHANGED <<sh, strong, data, block, fault>>

\* ~weak_t, and the assignment of nullptr
WeakRelease(t, w) ==
  /\ MayDestroy(t, w) /\ wk[w] # Null
  /\ WeakDrop(t, w, op[t])

\* An on_destruct listener, run by ~resource_t, assigns nullptr to a weak
\* handle outside the object: seat->pointer = nullptr.
Listener(t, w) ==
  /\ "listener" \in Ops /\ At(t, "destroy")
  /\ Usable(w) /\ wk[w] # Null
  /\ WeakDrop(t, w, op[t])

\* strong.load() == 0: nobody is left to free the control block.
CheckStrong(t) ==
  /\ At(t, "checkStrong")
  /\ FreeIf(t, Head(stack[t]).obj, strong)

\* The three assignments: drop the old block, then bind to the new one.
WeakAssign(t, w, h) ==
  /\ Idle(t) /\ Variable(w) /\ Variable(h) /\ wk[w] # sh[h]
  /\ WeakDrop(t, w, Doing("weakTake", Null, w, h))

WeakAssignTakes(t) ==
  /\ Resumes(t, "weakTake")
  /\ LET f == op[t]  o == sh[f.from] IN
     IF o = Null
     THEN Finish(t) /\ UNCHANGED <<sh, wk, strong, weak, data, block, stack, fault>>
     ELSE IF Touches(o) THEN Observe(f.to, o) /\ Finish(t) ELSE Stop

WeakMove(t, w, v) ==
  /\ Idle(t) /\ w # v /\ Variable(w) /\ Variable(v)
  /\ WeakDrop(t, w, Doing("weakMoveTo", Null, w, v))

\* Mutant: the source of the move keeps its pointer.
WeakMoveTakesShared(t) ==
  /\ Resumes(t, "weakMoveTo")
  /\ wk' = [wk EXCEPT ![op[t].to] = wk[op[t].from]]
  /\ Finish(t)
  /\ UNCHANGED <<sh, strong, weak, data, block, stack, fault>>

WeakMoveTakes(t) ==
  /\ Resumes(t, "weakMoveTo")
  /\ LET f == op[t] IN
     wk' = [wk EXCEPT ![f.to] = wk[f.from], ![f.from] = Null]
  /\ Finish(t)
  /\ UNCHANGED <<sh, strong, weak, data, block, stack, fault>>

\* operator=(const weak_t &) takes the block of v without counting itself.
\* Nothing in the code keeps the count from falling below zero; MinWeak does.
MinWeak == -1

WeakCopyAssign(t, w, v) ==
  /\ "weakCopyAssign" \in Ops /\ Idle(t) /\ w # v /\ Variable(w) /\ Variable(v)
  /\ wk[v] \in {Null} \cup {o \in Object : weak[o] > MinWeak}
  /\ WeakDrop(t, w, Doing("weakCopyTo", Null, w, v))

WeakCopyTakes(t) ==
  /\ Resumes(t, "weakCopyTo")
  /\ LET f == op[t] IN wk' = [wk EXCEPT ![f.to] = wk[f.from]]
  /\ Finish(t)
  /\ UNCHANGED <<sh, strong, weak, data, block, stack, fault>>

\* Mutant: a weak handle is promoted without looking at the strong count.
LockAnyway(t, h, w) ==
  /\ "lock" \in Ops /\ Idle(t) /\ Usable(h) /\ Usable(w)
  /\ sh[h] = Null /\ wk[w] # Null /\ Touches(wk[w])
  /\ op' = [op EXCEPT ![t] = Doing("lockTake", wk[w], h, w)]
  /\ UNCHANGED <<sh, wk, strong, weak, data, block, stack, fault>>

\* lock(): the test of the strong count and its increment are two accesses.
Lock(t, h, w) ==
  /\ "lock" \in Ops /\ Idle(t) /\ Usable(h) /\ Usable(w)
  /\ sh[h] = Null /\ wk[w] # Null
  /\ IF ~Touches(wk[w]) THEN Stop
     ELSE /\ strong[wk[w]] > 0
          /\ op' = [op EXCEPT ![t] = Doing("lockTake", wk[w], h, w)]
          /\ UNCHANGED <<sh, wk, strong, weak, data, block, stack, fault>>

LockTakes(t) ==
  /\ Resumes(t, "lockTake")
  /\ LET f == op[t] IN
     IF Touches(f.obj) THEN Acquire(f.to, f.obj) /\ Finish(t) ELSE Stop

-----------------------------------------------------------------------------

StrongStep(t) ==
  \/ \E h \in Strong, o \in Object : Make(t, h, o)
  \/ \E h, g \in Strong : Copy(t, h, g) \/ Assign(t, h, g) \/ Move(t, h, g)
  \/ \E h \in Strong : Release(t, h)
  \/ DestroyEnds(t) \/ CheckWeak(t) \/ AssignTakes(t) \/ MoveTakes(t)

WeakStep(t) ==
  \/ \E w \in Weak, h \in Strong :
       WeakMake(t, w, h) \/ WeakAssign(t, w, h) \/ Lock(t, h, w)
  \/ \E w, v \in Weak :
       WeakCopy(t, w, v) \/ WeakMove(t, w, v) \/ WeakCopyAssign(t, w, v)
  \/ \E w \in Weak : WeakRelease(t, w) \/ Listener(t, w)
  \/ CheckStrong(t) \/ WeakAssignTakes(t) \/ WeakMoveTakes(t)
  \/ WeakCopyTakes(t) \/ LockTakes(t)

Next == \E t \in Thread : StrongStep(t) \/ WeakStep(t)

Spec == Init /\ [][Next]_vars

-----------------------------------------------------------------------------
(* Correctness.                                                            *)

Owners(o) == {h \in Strong : sh[h] = o}
Observers(o) == {w \in Weak : wk[w] = o}

\* The strong count of a control block is the number of shared_t that share
\* it, between any two steps of any threads: every copy, move, assignment,
\* cast and promotion counts itself once and uncounts itself once.
StrongCountsOwners == \A o \in Object : strong[o] = Cardinality(Owners(o))

\* A shared_t always refers to an object whose destructor has not started:
\* no interleaving of releases and copies destroys what someone still owns.
OwnedIsLive == \A h \in Strong : sh[h] # Null => data[sh[h]] = "live"

\* The weak count is the number of weak_t that observe the object.
WeakCountsObservers == \A o \in Object : weak[o] = Cardinality(Observers(o))

\* The program never reads, writes or frees a control block that is freed.
NoUseAfterFree == ~fault

\* Once no operation is running, a control block without handles is freed
\* and one with only observers has lost its object.
NothingLeaks ==
  (\A t \in Thread : stack[t] = <<>> /\ op[t] = None) =>
    \A o \in Object : block[o] = "live" =>
      /\ Owners(o) \cup Observers(o) # {}
      /\ Owners(o) = {} => data[o] = "deleted"

\* The object is destroyed once: a destructor that started is not started
\* again, and an object that is gone stays gone.
DiesOnce ==
  \A o \in Object :
    /\ data[o] = "dying" => data'[o] \in {"dying", "deleted"}
    /\ data[o] = "deleted" => data'[o] = "deleted"
    /\ data'[o] = "dying" /\ data[o] # "dying" => data[o] = "live"

DestroyedOnce == [][DiesOnce]_vars

\* The counters implement the ownership of Ownership: what a control block
\* counts is the set of handles that are bound to it.
Life(o) ==
  IF block[o] = "freed" THEN "reclaimed"
  ELSE CASE data[o] = "none" -> "unborn"
         [] data[o] = "live" -> "alive"
         [] data[o] = "dying" -> "dying"
         [] OTHER -> "dead"

Lives == INSTANCE Ownership WITH
  owners <- [o \in Object |-> Owners(o)],
  observers <- [o \in Object |-> Observers(o)],
  life <- [o \in Object |-> Life(o)]

ImplementsOwnership == Lives!Spec

=============================================================================
