----------------------------- MODULE Ownership -----------------------------
(***************************************************************************)
(* What shared_t and weak_t promise: an object lives exactly as long as    *)
(* somebody owns it, and the memory its handles refer to is reclaimed      *)
(* after its destructor has run and its last observer is gone.  There are  *)
(* no counters here, only the sets of handles they stand for.              *)
(***************************************************************************)
EXTENDS FiniteSets

CONSTANTS Object, Strong, Weak

VARIABLES
  owners,     \* owners[o] : the strong handles that own o
  observers,  \* observers[o] : the weak handles that observe o
  life        \* life[o] : "unborn", "alive", "dying", "dead" or "reclaimed"

vars == <<owners, observers, life>>

Init ==
  /\ owners = [o \in Object |-> {}]
  /\ observers = [o \in Object |-> {}]
  /\ life = [o \in Object |-> "unborn"]

FreeHandle(h) == \A o \in Object : h \notin owners[o] \cup observers[o]

\* Somebody creates o and is its first owner.
Create(o, h) ==
  /\ life[o] = "unborn" /\ FreeHandle(h)
  /\ life' = [life EXCEPT ![o] = "alive"]
  /\ owners' = [owners EXCEPT ![o] = {h}]
  /\ UNCHANGED observers

\* Only an object that is alive finds new owners.
Share(o, h) ==
  /\ life[o] = "alive" /\ FreeHandle(h)
  /\ owners' = [owners EXCEPT ![o] = @ \cup {h}]
  /\ UNCHANGED <<observers, life>>

HandOver(o, g, h) ==
  /\ life[o] = "alive" /\ g \in owners[o] /\ FreeHandle(h)
  /\ owners' = [owners EXCEPT ![o] = (@ \ {g}) \cup {h}]
  /\ UNCHANGED <<observers, life>>

\* The last owner that lets go starts the destructor.
Abandon(o, h) ==
  /\ life[o] = "alive" /\ h \in owners[o]
  /\ owners' = [owners EXCEPT ![o] = @ \ {h}]
  /\ life' = IF owners[o] = {h} THEN [life EXCEPT ![o] = "dying"] ELSE life
  /\ UNCHANGED observers

Die(o) ==
  /\ life[o] = "dying"
  /\ life' = [life EXCEPT ![o] = "dead"]
  /\ UNCHANGED <<owners, observers>>

Watch(o, w) ==
  /\ life[o] \in {"alive", "dying", "dead"} /\ FreeHandle(w)
  /\ observers' = [observers EXCEPT ![o] = @ \cup {w}]
  /\ UNCHANGED <<owners, life>>

WatchInstead(o, v, w) ==
  /\ v \in observers[o] /\ FreeHandle(w)
  /\ observers' = [observers EXCEPT ![o] = (@ \ {v}) \cup {w}]
  /\ UNCHANGED <<owners, life>>

Ignore(o, w) ==
  /\ w \in observers[o]
  /\ observers' = [observers EXCEPT ![o] = @ \ {w}]
  /\ UNCHANGED <<owners, life>>

\* Nobody can reach the memory of o any more.
Reclaim(o) ==
  /\ life[o] = "dead" /\ owners[o] \cup observers[o] = {}
  /\ life' = [life EXCEPT ![o] = "reclaimed"]
  /\ UNCHANGED <<owners, observers>>

Next == \E o \in Object :
  \/ Die(o) \/ Reclaim(o)
  \/ \E h \in Strong : Create(o, h) \/ Share(o, h) \/ Abandon(o, h)
  \/ \E g, h \in Strong : HandOver(o, g, h)
  \/ \E w \in Weak : Watch(o, w) \/ Ignore(o, w)
  \/ \E v, w \in Weak : WatchInstead(o, v, w)

Spec == Init /\ [][Next]_vars

=============================================================================
