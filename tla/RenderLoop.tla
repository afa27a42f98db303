----------------------------- MODULE RenderLoop -----------------------------
(***************************************************************************)
(* How the main thread gets an output repainted: the render thread of      *)
(* main.cpp, one per output, that sleeps on the condition variable of its  *)
(* output, and output_t::damage, output_t::force_render and                *)
(* output_t::paint.                                                        *)
(*                                                                         *)
(* The mutex of an output is held by its render thread whenever that       *)
(* thread does not sleep.  The main thread keeps it for the length of one  *)
(* of its own steps, so it is enough to know when it is free.              *)
(***************************************************************************)
EXTENDS Naturals

CONSTANTS
  Output,      \* the outputs, each with a render thread of its own
  Damage,      \* rectangles of the screen
  Home,        \* the output whose window list holds the surface
  MaxVersion,  \* how many times the client commits new content
  NoOutput

ASSUME HomeIsOutput == Home \in Output
ASSUME NoOutputIsNone  == NoOutput \notin Output
ASSUME BoundIsNat   == MaxVersion \in Nat

VARIABLES
  pc,       \* pc[o] : where the render thread of o is
  force,    \* output_t::force_render_
  damage,   \* output_t::damage_
  toNotify, \* the output whose condition variable the main thread is about to notify
  content,  \* the version of the surface that is committed
  posted,   \* the client has posted damage for its next version
  seen,     \* seen[o] : the damage there was when the layers of o were drawn
  backBuffer,    \* backBuffer[o] : the version in it
  shown     \* shown[o] : the version on the screen, 0 before the first frame

request == <<force, damage, toNotify>>
client == <<content, posted>>
picture == <<seen, backBuffer, shown>>
loopVars == <<pc, request, client, picture>>

Version == 0..(MaxVersion + 1)

LoopTypeOK ==
  /\ pc \in [Output -> {"start", "waiting", "woken", "painting", "drawn"}]
  /\ force \in [Output -> BOOLEAN]
  /\ damage \in [Output -> SUBSET Damage]
  /\ toNotify \in Output \cup {NoOutput}
  /\ content \in Version /\ posted \in BOOLEAN
  /\ seen \in [Output -> SUBSET Damage]
  /\ backBuffer \in [Output -> Version] /\ shown \in [Output -> Version]

LoopInit ==
  /\ pc = [o \in Output |-> "start"]
  /\ force = [o \in Output |-> TRUE]
  /\ damage = [o \in Output |-> {}]
  /\ toNotify = NoOutput
  /\ content = 1 /\ posted = FALSE
  /\ seen = [o \in Output |-> {}]
  /\ backBuffer = [o \in Output |-> 0]
  /\ shown = [o \in Output |-> 0]

\* std::recursive_mutex: the main thread can lock the mutex of o.
Unlocked(o) == pc[o] \in {"start", "waiting", "woken"}

\* std::condition_variable_any::notify_all: nobody remembers it who does not
\* sleep.
NotifyAll(o) ==
  pc' = IF pc[o] = "waiting" THEN [pc EXCEPT ![o] = "woken"] ELSE pc

-----------------------------------------------------------------------------
(* The main thread.                                                        *)

MainIdle == toNotify = NoOutput

\* Mutant of ForceRender: without the notification.
ForceRenderQuiet(o) ==
  /\ Unlocked(o)
  /\ force' = [force EXCEPT ![o] = TRUE]
  /\ UNCHANGED <<pc, damage, toNotify>>

\* output_t::force_render, which notifies with the mutex held.
ForceRender(o) ==
  /\ Unlocked(o)
  /\ force' = [force EXCEPT ![o] = TRUE]
  /\ NotifyAll(o)
  /\ UNCHANGED <<damage, toNotify>>

\* Mutants of DamageOutput: without the mutex; without the notification.
DamageOutputUnlocked(o, d) ==
  /\ MainIdle
  /\ damage' = [damage EXCEPT ![o] = @ \cup {d}]
  /\ toNotify' = o
  /\ UNCHANGED <<pc, force, client, picture>>

DamageOutputQuiet(o, d) ==
  /\ MainIdle /\ Unlocked(o)
  /\ damage' = [damage EXCEPT ![o] = @ \cup {d}]
  /\ UNCHANGED <<pc, force, toNotify, client, picture>>

\* output_t::damage as the cursor uses it when it moves; it notifies after it
\* has given the mutex back.
DamageOutput(o, d) ==
  /\ MainIdle /\ Unlocked(o)
  /\ damage' = [damage EXCEPT ![o] = @ \cup {d}]
  /\ toNotify' = o
  /\ UNCHANGED <<pc, force, client, picture>>

Notify ==
  /\ toNotify # NoOutput
  /\ NotifyAll(toNotify)
  /\ toNotify' = NoOutput
  /\ UNCHANGED <<force, damage, client, picture>>

\* The on_damage listener of the shell forces the output of the window to
\* render; which part of it is damaged is not passed on.
SurfaceDamage == ForceRender(Home)

\* wl_surface.damage and wl_surface.damage_buffer: the listener runs at once;
\* the region that the latter stages is read by nobody.
RequestDamage ==
  /\ MainIdle
  /\ SurfaceDamage
  /\ posted' = TRUE
  /\ UNCHANGED <<content, picture>>

\* wl_surface.commit wakes nobody.
Commit ==
  /\ MainIdle /\ posted /\ content <= MaxVersion
  /\ content' = content + 1
  /\ posted' = FALSE
  /\ UNCHANGED <<pc, request, picture>>

-----------------------------------------------------------------------------
(* The render thread of output o.                                          *)

\* Lock the mutex, set the mode, which gives the output its renderer, and
\* sleep, which unlocks the mutex.
Start(o) ==
  /\ pc[o] = "start"
  /\ pc' = [pc EXCEPT ![o] = "waiting"]
  /\ UNCHANGED <<request, client, picture>>

\* A condition variable may wake without a notification.
SpuriousWake(o) ==
  /\ pc[o] = "waiting"
  /\ pc' = [pc EXCEPT ![o] = "woken"]
  /\ UNCHANGED <<request, client, picture>>

\* cv.wait returns with the mutex locked; paint() binds and clears.
BeginPaint(o) ==
  /\ pc[o] = "woken"
  /\ pc' = [pc EXCEPT ![o] = "painting"]
  /\ UNCHANGED <<request, client, picture>>

\* The on_repaint layers draw the surface as it is now.
DrawLayers(o) ==
  /\ pc[o] = "painting"
  /\ backBuffer' = [backBuffer EXCEPT ![o] = content]
  /\ seen' = [seen EXCEPT ![o] = damage[o]]
  /\ pc' = [pc EXCEPT ![o] = "drawn"]
  /\ UNCHANGED <<request, client, shown>>

\* Mutant: paint() does not reset what asked for the frame.
PresentKeeps(o) ==
  /\ pc[o] = "drawn"
  /\ shown' = [shown EXCEPT ![o] = backBuffer[o]]
  /\ pc' = [pc EXCEPT ![o] = "waiting"]
  /\ UNCHANGED <<request, client, seen, backBuffer>>

\* renderer_->commit() flips the page, paint() resets what asked for it, and
\* the thread goes back to sleep.
Present(o) ==
  /\ pc[o] = "drawn"
  /\ shown' = [shown EXCEPT ![o] = backBuffer[o]]
  /\ force' = [force EXCEPT ![o] = FALSE]
  /\ damage' = [damage EXCEPT ![o] = {}]
  /\ pc' = [pc EXCEPT ![o] = "waiting"]
  /\ UNCHANGED <<toNotify, client, seen, backBuffer>>

Render(o) == Start(o) \/ BeginPaint(o) \/ DrawLayers(o) \/ Present(o)

Main == RequestDamage \/ Commit \/ \E o \in Output, d \in Damage : DamageOutput(o, d)

LoopNext == \/ Main \/ Notify
        \/ \E o \in Output : Render(o) \/ SpuriousWake(o)

\* A thread that can run runs, the mutex is never kept by a thread that
\* sleeps, and a page flip completes; clients and devices owe nothing.
LoopFairness == WF_loopVars(Notify) /\ \A o \in Output : WF_loopVars(Render(o))

LoopSpec == LoopInit /\ [][LoopNext]_loopVars
LoopLiveSpec == LoopSpec /\ LoopFairness

-----------------------------------------------------------------------------
(* Correctness.                                                            *)

\* No wake-up is lost between frames: when the render thread sleeps after a
\* frame while something asks for another, the main thread is on its way to
\* notify it.
NoLostWakeup ==
  \A o \in Output :
    pc[o] = "waiting" /\ shown[o] # 0 /\ (force[o] \/ damage[o] # {}) => toNotify = o

\* paint() resets only damage that the layers it painted could see.
PaintCoversDamage == \A o \in Output : pc[o] = "drawn" => damage[o] = seen[o]

\* Damage posted on an output that has shown a frame is painted.
DamageIsPainted ==
  \A o \in Output, d \in Damage :
    (d \in damage[o] /\ shown[o] # 0) ~> d \notin damage[o]

\* What a client has committed with damage gets on the screen of its window.
CommittedIsShown ==
  \A v \in 1..MaxVersion :
    (content = v + 1 /\ shown[Home] # 0) ~> shown[Home] > v

\* The screen lags the client by one request at most: posting damage for the
\* next version gets the committed one on the screen.
LagsOneRequest ==
  \A v \in 1..(MaxVersion + 1) :
    (posted /\ content = v /\ shown[Home] # 0) ~> shown[Home] >= v

\* What makes these inductive: a thread that never slept has shown nothing.
NothingShownYet ==
  \A o \in Output : shown[o] # 0 => pc[o] # "start"

WakeInv == LoopTypeOK /\ NoLostWakeup /\ NothingShownYet /\ PaintCoversDamage

=============================================================================
