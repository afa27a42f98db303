------------------------------ MODULE PageFlip ------------------------------
(* How a finished frame gets on its screen (include/drm/minidrm.hpp,        *)
(* render/opengl.cpp).  Every screen has a render thread with a surface of  *)
(* its own, whose buffers it locks while the display may read them; all     *)
(* threads share one DRM file, from which each reads whatever events are    *)
(* there, those of other screens too.                                       *)
(* The display (vblank) and the surface, which hands out the buffers that   *)
(* are not locked, are not of this program and modelled as it uses them.    *)
(* An output has one flip at a time, so that its event is named by it.      *)
EXTENDS Naturals, FiniteSets

CONSTANTS
  Screens,        \* outputs with a render thread
  Bos,            \* the buffers of a surface
  NoBo,
  LastBos,        \* what last_bo, which nothing initialises, may hold
  SharedContext   \* whether EGL lets several threads use the one context

ASSUME FlipAssumption == NoBo \notin Bos

VARIABLES
  stage,      \* screen -> what its thread does
  back,       \* screen -> the buffer drawn to, and then presented
  locked,     \* screen -> the buffers its surface may not hand out
  lastBo,     \* screen -> the buffer to release after the next flip
  evData,     \* screen -> the data of its flip: "none" when there is none
  batch,      \* screen -> events its thread has read and not handled
  flips,      \* screen -> the buffer whose flip the display has to do
  scanout,    \* screen -> the buffer on display, and what put it there
  events,     \* the events in the DRM file
  aborted     \* whether an exception has left a thread

flipVars == <<stage, back, locked, lastBo, evData, batch, flips, scanout,
              events, aborted>>

Dark == [bo |-> NoBo, flip |-> FALSE]

FlipInit ==
  /\ stage = [s \in Screens |-> "none"]
  /\ back = [s \in Screens |-> NoBo]
  /\ locked = [s \in Screens |-> {}]
  /\ lastBo \in [Screens -> LastBos]
  /\ evData = [s \in Screens |-> "none"]
  /\ batch = [s \in Screens |-> {}]
  /\ flips = [s \in Screens |-> NoBo]
  /\ scanout = [s \in Screens |-> Dark]
  /\ events = {}
  /\ aborted = FALSE

Goes(s, from, to) ==
  /\ ~aborted
  /\ stage[s] = from
  /\ stage' = [stage EXCEPT ![s] = to]

Free(s) == Bos \ locked[s]

-----------------------------------------------------------------------------
(* egl_t's constructor: the context is made current on this thread, and the *)
(* first buffer is swapped, locked, given a framebuffer, and released again.*)
MayMakeCurrent(s) ==
  SharedContext \/ \A r \in Screens \ {s} : stage[r] = "none"

Construct(s) ==
  /\ Goes(s, "none", "constructed")
  /\ MayMakeCurrent(s)
  /\ \E b \in Free(s) : back' = [back EXCEPT ![s] = b]
  /\ UNCHANGED <<locked, lastBo, evData, batch, flips, scanout, events, aborted>>

(* mode_set(): the display shows the buffer just released.                  *)
SetCrtc(s) ==
  /\ Goes(s, "constructed", "idle")
  /\ scanout' = [scanout EXCEPT ![s] = [bo |-> back[s], flip |-> FALSE]]
  /\ UNCHANGED <<back, locked, lastBo, evData, batch, flips, events, aborted>>

(* A frame is drawn to some buffer that is not locked.                      *)
Draw(s) ==
  /\ Goes(s, "idle", "drawn")
  /\ \E b \in Free(s) : back' = [back EXCEPT ![s] = b]
  /\ UNCHANGED <<locked, lastBo, evData, batch, flips, scanout, events, aborted>>

(* present(): it is swapped to the front and locked.  Its framebuffer is    *)
(* found by the buffer, or made when there is none, and adds no state.      *)
SwapBuffers(s) ==
  /\ Goes(s, "drawn", "swapped")
  /\ locked' = [locked EXCEPT ![s] = @ \cup {back[s]}]
  /\ UNCHANGED <<back, lastBo, evData, batch, flips, scanout, events, aborted>>

RequestFlip(s) ==
  /\ Goes(s, "swapped", "waiting")
  /\ flips[s] = NoBo
  /\ flips' = [flips EXCEPT ![s] = back[s]]
  /\ evData' = [evData EXCEPT ![s] = "waiting"]
  /\ UNCHANGED <<back, locked, lastBo, batch, scanout, events, aborted>>

(* EGL, GBM or DRM may fail any of these calls, and EGL refuses a context   *)
(* that is current on another thread: the exception ends the program.       *)
Throws(s) ==
  /\ ~aborted
  /\ stage[s] \in {"none", "constructed", "idle", "drawn", "swapped"}
  /\ aborted' = TRUE
  /\ UNCHANGED <<stage, back, locked, lastBo, evData, batch, flips,
                 scanout, events>>

-----------------------------------------------------------------------------
(* The wait.  While its flag is not set, the thread asks for events: all    *)
(* that are in the file, or none, for the file does not block.              *)
ReadEvents(s) ==
  /\ Goes(s, "waiting", "handling")
  /\ evData[s] # "done"
  /\ batch' = [batch EXCEPT ![s] = events]
  /\ events' = {}
  /\ UNCHANGED <<back, locked, lastBo, evData, flips, scanout, aborted>>

(* Mutant: it sets the flag of the thread that read the event.              *)
SetsOwnFlag(s) ==
  /\ ~aborted
  /\ stage[s] = "handling"
  /\ \E r \in batch[s] :
       /\ evData' = [evData EXCEPT ![s] = "done"]
       /\ batch' = [batch EXCEPT ![s] = @ \ {r}]
  /\ UNCHANGED <<stage, back, locked, lastBo, flips, scanout, events, aborted>>

(* The handler sets the flag of whatever flip the event is of.              *)
HandleEvent(s) ==
  /\ ~aborted
  /\ stage[s] = "handling"
  /\ \E r \in batch[s] :
       /\ evData' = [evData EXCEPT ![r] = "done"]
       /\ batch' = [batch EXCEPT ![s] = @ \ {r}]
  /\ UNCHANGED <<stage, back, locked, lastBo, flips, scanout, events, aborted>>

HandledAll(s) ==
  /\ Goes(s, "handling", "waiting")
  /\ batch[s] = {}
  /\ UNCHANGED <<back, locked, lastBo, evData, batch, flips, scanout,
                 events, aborted>>

(* Mutant: the events are read once, whosever they are.                     *)
ReturnsUnasked(s) ==
  /\ Goes(s, "waiting", "idle")
  /\ evData' = [evData EXCEPT ![s] = "none"]
  /\ locked' = [locked EXCEPT ![s] = @ \ {lastBo[s]}]
  /\ lastBo' = [lastBo EXCEPT ![s] = back[s]]
  /\ UNCHANGED <<back, batch, flips, scanout, events, aborted>>

(* Mutant: the new buffer goes back to the surface.                         *)
ReleasesTheNew(s) ==
  /\ Goes(s, "waiting", "idle")
  /\ evData[s] = "done"
  /\ evData' = [evData EXCEPT ![s] = "none"]
  /\ locked' = [locked EXCEPT ![s] = @ \ {back[s]}]
  /\ lastBo' = [lastBo EXCEPT ![s] = back[s]]
  /\ UNCHANGED <<back, batch, flips, scanout, events, aborted>>

(* The flip is done: its data is deleted, and the buffer that was on screen *)
(* before goes back to the surface.                                         *)
FlipReturns(s) ==
  /\ Goes(s, "waiting", "idle")
  /\ evData[s] = "done"
  /\ evData' = [evData EXCEPT ![s] = "none"]
  /\ locked' = [locked EXCEPT ![s] = @ \ {lastBo[s]}]
  /\ lastBo' = [lastBo EXCEPT ![s] = back[s]]
  /\ UNCHANGED <<back, batch, flips, scanout, events, aborted>>

(* The display does the flip at its next blank, and says so in the file.    *)
VBlank(s) ==
  /\ ~aborted
  /\ flips[s] # NoBo
  /\ scanout' = [scanout EXCEPT ![s] = [bo |-> flips[s], flip |-> TRUE]]
  /\ flips' = [flips EXCEPT ![s] = NoBo]
  /\ events' = events \cup {s}
  /\ UNCHANGED <<stage, back, locked, lastBo, evData, batch, aborted>>

Wait(s) == ReadEvents(s) \/ HandleEvent(s) \/ HandledAll(s) \/ FlipReturns(s)

FlipNext ==
  \E s \in Screens :
    \/ Construct(s) \/ SetCrtc(s) \/ Draw(s) \/ SwapBuffers(s)
    \/ RequestFlip(s) \/ Throws(s) \/ Wait(s) \/ VBlank(s)

(* The loop of a thread that waits goes on, and the display keeps blanking. *)
FlipFairness ==
  \A s \in Screens : WF_flipVars(Wait(s)) /\ WF_flipVars(VBlank(s))

FlipSpec == FlipInit /\ [][FlipNext]_flipVars /\ FlipFairness

-----------------------------------------------------------------------------
FlipTypeOK ==
  /\ stage \in [Screens -> {"none", "constructed", "idle", "drawn", "swapped",
                            "waiting", "handling"}]
  /\ back \in [Screens -> Bos \cup {NoBo}]
  /\ locked \in [Screens -> SUBSET Bos]
  /\ lastBo \in [Screens -> Bos \cup LastBos]
  /\ evData \in [Screens -> {"none", "waiting", "done"}]
  /\ batch \in [Screens -> SUBSET Screens]
  /\ flips \in [Screens -> Bos \cup {NoBo}]
  /\ scanout \in [Screens -> [bo : Bos \cup {NoBo}, flip : BOOLEAN]]
  /\ events \subseteq Screens
  /\ aborted \in BOOLEAN

(* A buffer that a flip put on display, or that one is about to, is locked, *)
(* so that the thread draws no frame into it.  The buffer of mode_set() is  *)
(* not: the first frame may be drawn into what is on display.               *)
ScannedOutIsHeld ==
  \A s \in Screens :
    /\ flips[s] # NoBo => flips[s] \in locked[s]
    /\ scanout[s].flip => scanout[s].bo \in locked[s]

(* Wherever the event of a flip is, still to come, in the file, or read by  *)
(* a thread that waits for another flip, the data its handler writes to is  *)
(* there and not yet written.                                               *)
OnItsWay(s) ==
  \/ flips[s] # NoBo
  \/ s \in events
  \/ \E r \in Screens : s \in batch[r]

NoDanglingFlip == \A s \in Screens : OnItsWay(s) => evData[s] = "waiting"

(* Every flip ends, though the event that ends it may be read by any thread *)
(* that waits.                                                              *)
EveryFlipReturns ==
  \A s \in Screens : stage[s] = "waiting" ~> (stage[s] = "idle" \/ aborted)

-----------------------------------------------------------------------------
(* What makes these inductive.                                              *)

(* The event of a flip is in one place.                                     *)
OneEvent ==
  \A s \in Screens :
    /\ flips[s] # NoBo => s \notin events
    /\ \A r \in Screens : s \in batch[r] => flips[s] = NoBo /\ s \notin events
    /\ \A q, r \in Screens : s \in batch[q] /\ s \in batch[r] => q = r

(* A thread has events in hand, and a flip has data, only while it waits.   *)
WaitsForFlip ==
  \A s \in Screens :
    /\ stage[s] # "handling" => batch[s] = {}
    /\ stage[s] \notin {"waiting", "handling"} => evData[s] = "none"

(* The buffer presented and the one to release are locked, and different.   *)
BackIsHeld ==
  \A s \in Screens :
    /\ stage[s] = "drawn" => back[s] \in Bos \ locked[s]
    /\ stage[s] \in {"swapped", "waiting", "handling"} =>
         back[s] \in locked[s] \ {lastBo[s]}
    /\ lastBo[s] \in Bos => lastBo[s] \in locked[s]
    /\ flips[s] # NoBo => flips[s] = back[s]

(* The display shows the buffer presented from the flip on, and the one to  *)
(* release until then.                                                      *)
ShowsBackOrLast ==
  \A s \in Screens :
    IF evData[s] # "none" /\ flips[s] = NoBo
    THEN scanout[s].bo = back[s]
    ELSE scanout[s].flip => scanout[s].bo = lastBo[s] /\ lastBo[s] \in Bos

FlipInv == /\ FlipTypeOK /\ NoDanglingFlip /\ OneEvent /\ WaitsForFlip
           /\ BackIsHeld /\ ShowsBackOrLast

=============================================================================
