------------------------------ MODULE Surface ------------------------------
(***************************************************************************)
(* One wl_surface: the double-buffered state the requests of its client    *)
(* change on the main thread (src/core/surface.cpp), and the draw of the   *)
(* render thread that reads it, answers frame callbacks and gives buffers  *)
(* back (gl_renderer_t::draw in src/render/opengl.cpp).                    *)
(*                                                                         *)
(* The two threads share no lock but that of the output, which damage      *)
(* takes.  Ops says which of the following a run allows; without any of    *)
(* them a client attaches a buffer and asks for a frame callback with      *)
(* every commit, waits for the callback before it asks for the next, and   *)
(* the surface is drawn between its requests:                              *)
(*   overlap        requests are handled while the surface is drawn;       *)
(*   midBatch       it is drawn between a frame request and the commit;    *)
(*   earlyFrame     a callback is requested before the last is answered;   *)
(*   noFrame        a commit without a frame request;                      *)
(*   noAttach       a commit without an attach;                            *)
(*   detach         attach with a NULL buffer, or wl_surface.destroy;      *)
(*   destroyBuffer  the client destroys a wl_buffer before it gets it back. *)
(* What of this is too much for the code is recorded in `disturbed'.       *)
(*                                                                         *)
(* The surface is that of a visible window, whose output has shown a frame *)
(* (RenderLoop is about the frames before).                                *)
(***************************************************************************)
EXTENDS FiniteSets

CONSTANTS
  Buffer,    \* the wl_buffers of the client
  Callback,  \* the wl_callbacks it can create
  Attr,      \* the members of surface_state_t a request only stores in
  Region,    \* regions, and values of the other attributes
  Ops,
  Null

AllOps == {"overlap", "midBatch", "earlyFrame", "noFrame", "noAttach",
           "detach", "destroyBuffer"}

ASSUME OpsAreKnown  == Ops \subseteq AllOps
ASSUME AttrsAreKnown ==
  Attr \subseteq {"opaque", "input", "transform", "scale", "offset"}
ASSUME NullIsNothing == Null \notin Buffer \cup Callback

VARIABLES
  state,     \* surface_t::state
  staging,   \* surface_t::staging
  wlBuffer,  \* wlBuffer[b] : the wl_buffer resource, "live" or "destroyed"
  held,      \* buffers the client has committed and not been given back
  callback,  \* callback[c] : the wl_callback resource
  asked,     \* a frame request has been handled and its commit has not
  due,       \* the render thread was notified and has not drawn the surface since
  pc,        \* where the render thread is in draw
  texture,   \* the buffer draw uploads
  fault,     \* a freed or null object was used
  disturbed  \* history: a step took away what a draw or a commit relies on

threads == <<pc, texture, fault>>
vars == <<state, staging, wlBuffer, held, callback, asked, due, threads, disturbed>>

Value == Region \cup {"zero", "infinite"}

SurfaceState == [buffer : Buffer \cup {Null}, pending : Callback \cup {Null},
                 attr : [Attr -> Value]]

TypeOK ==
  /\ state \in SurfaceState /\ staging \in SurfaceState
  /\ wlBuffer \in [Buffer -> {"live", "destroyed"}]
  /\ held \subseteq Buffer
  /\ callback \in [Callback -> {"unused", "live", "done", "gone", "dropped"}]
  /\ asked \in BOOLEAN
  /\ pc \in {"idle", "upload", "sendDone", "destroy", "release", "clear"}
  /\ texture \in Buffer \cup {Null}
  /\ due \in BOOLEAN /\ fault \in BOOLEAN /\ disturbed \in BOOLEAN

Zero == [a \in Attr |-> "zero"]

Init ==
  /\ state = [buffer |-> Null, pending |-> Null,
              attr |-> [a \in Attr |-> IF a = "input" THEN "infinite" ELSE "zero"]]
  /\ staging = [buffer |-> Null, pending |-> Null, attr |-> Zero]
  /\ wlBuffer = [b \in Buffer |-> "live"]
  /\ held = {}
  /\ callback = [c \in Callback |-> "unused"]
  /\ asked = FALSE /\ due = FALSE
  /\ pc = "idle" /\ texture = Null /\ fault = FALSE
  /\ disturbed = FALSE

\* The shm_buffer_t is there as long as its resource or the surface owns it.
Exists(b) == wlBuffer[b] = "live" \/ b \in {state.buffer, staging.buffer}

\* The wl_callback is there until draw destroys it.
Answerable(c) == callback[c] \in {"live", "done"}

Stop == /\ fault' = TRUE
        /\ UNCHANGED <<state, staging, wlBuffer, held, callback, asked, due, pc,
                       texture, disturbed>>

\* The step is recorded if it is one of those.
Disturbs(harm) == disturbed' = IF harm THEN TRUE ELSE disturbed

-----------------------------------------------------------------------------
(* Requests, on the main thread.                                           *)

Handles == ~fault /\ (pc = "idle" \/ "overlap" \in Ops)

\* A draw that may still answer a callback.
Answering == pc \in {"upload", "sendDone", "destroy"}

\* wl_surface.attach; the client does not attach a buffer it has not got back.
Attach(b) ==
  /\ Handles /\ b \notin held /\ wlBuffer[b] = "live"
  /\ staging' = [staging EXCEPT !.buffer = b]
  /\ UNCHANGED <<state, wlBuffer, held, callback, asked, due, threads, disturbed>>

\* wl_surface.attach with NULL.
Detach ==
  /\ Handles /\ "detach" \in Ops
  /\ staging' = [staging EXCEPT !.buffer = Null]
  /\ state' = [state EXCEPT !.buffer = Null]
  /\ Disturbs(pc # "idle")
  /\ UNCHANGED <<wlBuffer, held, callback, asked, due, threads>>

\* wl_surface.destroy of a surface without a role keeps the resource.
Destroy ==
  /\ Handles /\ "detach" \in Ops
  /\ state' = [state EXCEPT !.buffer = Null]
  /\ Disturbs(pc # "idle")
  /\ UNCHANGED <<staging, wlBuffer, held, callback, asked, due, threads>>

\* Mutant: a superseded callback is destroyed on the spot.
FrameSupersedes(c) ==
  /\ Handles /\ callback[c] = "unused"
  /\ "earlyFrame" \in Ops \/ \A d \in Callback : callback[d] # "live"
  /\ callback' = [d \in Callback |->
                    CASE d = c -> "live"
                      [] d # c /\ d = state.pending -> "dropped"
                      [] OTHER -> callback[d]]
  /\ state' = [state EXCEPT !.pending = c]
  /\ staging' = [staging EXCEPT !.pending = c]
  /\ asked' = TRUE
  /\ Disturbs(Answering)
  /\ UNCHANGED <<wlBuffer, held, due, threads>>

\* wl_surface.frame stores the callback in both states.
Frame(c) ==
  /\ Handles /\ callback[c] = "unused"
  /\ "earlyFrame" \in Ops \/ \A d \in Callback : callback[d] # "live"
  /\ callback' = [callback EXCEPT ![c] = "live"]
  /\ state' = [state EXCEPT !.pending = c]
  /\ staging' = [staging EXCEPT !.pending = c]
  /\ asked' = TRUE
  /\ Disturbs(Answering)
  /\ UNCHANGED <<wlBuffer, held, due, threads>>

\* wl_surface.set_opaque_region, set_input_region, set_buffer_transform,
\* set_buffer_scale and offset.
Set(a, v) ==
  /\ Handles
  /\ staging' = [staging EXCEPT !.attr[a] = v]
  /\ UNCHANGED <<state, wlBuffer, held, callback, asked, due, threads, disturbed>>

\* set_input_region with NULL stores in the opaque region.
SetInputNull ==
  /\ Handles /\ {"input", "opaque"} \subseteq Attr
  /\ staging' = [staging EXCEPT !.attr["opaque"] = "infinite"]
  /\ UNCHANGED <<state, wlBuffer, held, callback, asked, due, threads, disturbed>>

CommitAllowed ==
  /\ Handles
  /\ "noAttach" \in Ops \/ staging.buffer # Null
  /\ "noFrame" \in Ops \/ staging.pending # Null

\* Mutants of Commit: staging keeps the callback; staging keeps the buffer.
CommitKeepsPending ==
  /\ CommitAllowed
  /\ state' = staging
  /\ staging' = [staging EXCEPT !.buffer = Null, !.attr = Zero]
  /\ held' = held \cup ({staging.buffer} \ {Null})
  /\ asked' = FALSE
  /\ Disturbs(pc # "idle")
  /\ UNCHANGED <<wlBuffer, callback, due, threads>>

CommitKeepsBuffer ==
  /\ CommitAllowed
  /\ state' = staging
  /\ staging' = [staging EXCEPT !.pending = Null]
  /\ held' = held \cup ({staging.buffer} \ {Null, state.buffer})
  /\ asked' = FALSE
  /\ Disturbs(pc # "idle")
  /\ UNCHANGED <<wlBuffer, callback, due, threads>>

\* wl_surface.commit: the staging state becomes the state, and nothing of it
\* but the subsurfaces is kept.
Commit ==
  /\ CommitAllowed
  /\ state' = staging
  /\ staging' = [buffer |-> Null, pending |-> Null, attr |-> Zero]
  /\ held' = held \cup ({staging.buffer} \ {Null})
  /\ asked' = FALSE
  /\ Disturbs(pc # "idle")
  /\ UNCHANGED <<wlBuffer, callback, due, threads>>

\* wl_buffer.destroy: the resource goes and the surface may still own the
\* buffer.  A client does it to a buffer it has got back, unless Ops says that
\* it may do it at any time.
DestroyBuffer(b) ==
  /\ Handles /\ wlBuffer[b] = "live"
  /\ "destroyBuffer" \in Ops \/ b \notin held \cup {staging.buffer}
  /\ wlBuffer' = [wlBuffer EXCEPT ![b] = "destroyed"]
  /\ Disturbs(b \in held \cup {staging.buffer})
  /\ UNCHANGED <<state, staging, held, callback, asked, due, threads>>

\* wl_surface.damage and damage_buffer: the listener of the shell notifies the
\* render thread, with the mutex that this one holds while it paints.
Damage ==
  /\ Handles /\ pc = "idle"
  /\ due' = TRUE
  /\ UNCHANGED <<state, staging, wlBuffer, held, callback, asked, threads, disturbed>>

-----------------------------------------------------------------------------
(* gl_renderer_t::draw, on the render thread.  It reads state anew in every *)
(* step.                                                                   *)

At(place) == ~fault /\ pc = place
Goto(place) == pc' = place

\* A frame without content for this surface.
PaintNothing ==
  /\ At("idle") /\ due /\ state.buffer = Null
  /\ due' = FALSE
  /\ UNCHANGED <<state, staging, wlBuffer, held, callback, asked, threads, disturbed>>

\* The output is painted, because the surface was damaged or for another reason.
BeginDraw ==
  /\ At("idle") /\ state.buffer # Null
  /\ "midBatch" \in Ops \/ ~asked
  /\ texture' = state.buffer
  /\ due' = FALSE
  /\ Goto("upload")
  /\ Disturbs(asked /\ state.pending # Null)
  /\ UNCHANGED <<state, staging, wlBuffer, held, callback, asked, fault>>

Upload ==
  /\ At("upload")
  /\ IF Exists(texture)
     THEN /\ Goto("sendDone")
          /\ UNCHANGED <<state, staging, wlBuffer, held, callback, asked, due, texture, fault, disturbed>>
     ELSE Stop

\* Mutant: draw looks at the pending callback of the staging state.
NothingStaged ==
  /\ At("sendDone") /\ staging.pending = Null
  /\ Goto("idle")
  /\ UNCHANGED <<state, staging, wlBuffer, held, callback, asked, due, texture, fault, disturbed>>

NothingPending ==
  /\ At("sendDone") /\ state.pending = Null
  /\ Goto("idle")
  /\ UNCHANGED <<state, staging, wlBuffer, held, callback, asked, due, texture, fault, disturbed>>

SendDone ==
  /\ At("sendDone") /\ state.pending # Null
  /\ IF Answerable(state.pending)
     THEN /\ callback' = [callback EXCEPT ![state.pending] = "done"]
          /\ Goto("destroy")
          /\ UNCHANGED <<state, staging, wlBuffer, held, asked, due, texture, fault, disturbed>>
     ELSE Stop

\* wl_resource_destroy, and the handler that keeps state.pending from dangling.
DestroyCallback ==
  /\ At("destroy")
  /\ IF state.pending \in {c \in Callback : Answerable(c)}
     THEN /\ callback' = [callback EXCEPT ![state.pending] =
                            IF @ = "done" THEN "gone" ELSE "dropped"]
          /\ state' = [state EXCEPT !.pending = Null]
          /\ Goto("release")
          /\ UNCHANGED <<staging, wlBuffer, held, asked, due, texture, fault, disturbed>>
     ELSE Stop

\* Mutant: the release is not sent.
ReleaseForgotten ==
  /\ At("release")
  /\ Goto("clear")
  /\ UNCHANGED <<state, staging, wlBuffer, held, callback, asked, due, texture, fault, disturbed>>

\* wl_buffer_send_release.
Release ==
  /\ At("release")
  /\ IF state.buffer \in {b \in Buffer : wlBuffer[b] = "live"}
     THEN /\ held' = held \ {state.buffer}
          /\ Goto("clear")
          /\ UNCHANGED <<state, staging, wlBuffer, callback, asked, due, texture, fault, disturbed>>
     ELSE Stop

Clear ==
  /\ At("clear")
  /\ state' = [state EXCEPT !.pending = Null]
  /\ Goto("idle")
  /\ UNCHANGED <<staging, wlBuffer, held, callback, asked, due, texture, fault, disturbed>>

Drawing == Upload \/ NothingPending \/ SendDone \/ DestroyCallback
           \/ Release \/ Clear

Draw == PaintNothing \/ BeginDraw \/ Drawing

Request ==
  \/ \E b \in Buffer : Attach(b) \/ DestroyBuffer(b)
  \/ \E c \in Callback : Frame(c)
  \/ \E a \in Attr, v \in Region \cup {"zero"} : Set(a, v)
  \/ Detach \/ Destroy \/ SetInputNull \/ Commit \/ Damage

Next == Request \/ Draw

Spec == Init /\ [][Next]_vars

\* A thread that was notified paints, and a draw that has begun goes on.  What
\* is committed alone need never be drawn, and a client owes no request.
LiveSpec == Spec /\ WF_vars(PaintNothing \/ (due /\ BeginDraw) \/ Drawing)

-----------------------------------------------------------------------------
(* Correctness.                                                            *)

\* No freed callback, freed buffer or destroyed wl_buffer is ever used.
NoFault == ~fault

\* However the threads overlap and whatever the client does, a fault is the
\* work of one of the steps that are recorded: the buffer is exchanged during a
\* draw, a callback is requested before the draw has answered the last one, the
\* surface is drawn between a frame request and its commit, or a wl_buffer is
\* destroyed that the client has not got back.  All else may overlap.
FaultNeedsDisturbance == fault => disturbed

\* Until then, between two draws, neither copy of the state refers to a callback
\* that was destroyed: no later draw can answer it twice.
NoStaleCallback ==
  pc = "idle" /\ ~disturbed =>
    {state.pending, staging.pending} \subseteq
      {Null} \cup {c \in Callback : callback[c] = "live"}

\* A wl_callback is destroyed only after its done event.
FiredFirst == ~disturbed => \A c \in Callback : callback[c] # "dropped"

Awaited(c) == state.pending = c /\ state.buffer # Null

\* A buffer is released only to give it back, once for every commit of it.
ReleaseIsOwed ==
  pc = "release" /\ ~disturbed => state.buffer \in held \cup {Null}

\* A frame callback that is committed with content is answered once damage has
\* notified the render thread, unless the client supersedes the callback or
\* removes the content first.
FrameAnswered ==
  \A c \in Callback :
    (Awaited(c) /\ ~asked /\ due /\ ~disturbed)
      ~> (callback[c] # "live" \/ ~Awaited(c) \/ disturbed)

\* So is the buffer it was committed with: it is given back, unless the
\* client commits or detaches before it has the callback.
BufferReturns ==
  \A b \in Buffer, c \in Callback :
    (Awaited(c) /\ state.buffer = b /\ ~asked /\ due /\ ~disturbed)
      ~> \/ b \notin held \/ disturbed
         \/ callback[c] = "live" /\ (state.buffer # b \/ state.pending # c)

-----------------------------------------------------------------------------
(* What makes the safety inductive, until something is disturbed.          *)

\* While the surface is drawn, nothing it may answer is waiting to be committed
\* and every step finds what the former one left.
DrawInv ==
  /\ ~asked => staging.pending = Null
  /\ staging.pending \in {Null} \cup {c \in Callback : callback[c] = "live"}
  /\ asked => state.pending \in {Null, staging.pending}
  /\ Answering => state.pending = Null \/ ~asked
  /\ Answering \/ pc = "release" => state.buffer \in Buffer
  /\ pc = "upload" => texture = state.buffer
  /\ pc \in {"upload", "sendDone"} =>
       state.pending \in {Null} \cup {c \in Callback : callback[c] = "live"}
  /\ pc = "destroy" =>
       state.pending \in {c \in Callback : callback[c] = "done"}
  /\ pc \in {"release", "clear"} => state.pending = Null \/ asked

\* What the client has not got back, and what it is about to commit, has its
\* resource.
BuffersLive ==
  \A b \in Buffer : b \in held \cup {staging.buffer} => wlBuffer[b] = "live"

\* Who waits for a callback that is committed waits for its buffer too.
AwaitedIsHeld ==
  /\ state.pending # Null /\ ~asked => state.buffer \in held \cup {Null}
  /\ pc = "release" => state.buffer \in held

UndisturbedInv == NoFault /\ DrawInv /\ BuffersLive /\ AwaitedIsHeld

SurfaceInv ==
  TypeOK /\ (~disturbed => UndisturbedInv) /\ NoStaleCallback /\ FiredFirst

=============================================================================
