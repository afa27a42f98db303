------------------------------ MODULE Panning -------------------------------
(* How the workspace slides under an output: the animation that a script    *)
(* starts (script/output.cpp, animation.hpp) and the frames that the render *)
(* thread of the output paints meanwhile (output.cpp, xdg_wm_base.cpp,      *)
(* cursor_manager.cpp).  One coordinate is kept.                            *)
(* Nothing locks the animation: the main thread stores its fields one by    *)
(* one, in the order the compiler likes, while the render thread samples    *)
(* it and adds the time a frame took to its progress.                       *)
(* Places are counted in parts of a pixel, Pixel to each; regions are made  *)
(* of whole pixels.                                                         *)
EXTENDS Integers, Sequences, FiniteSets

CONSTANTS
  Pans,        \* where a script pans to
  Duration,    \* ticks of the 0.3 s that an animation takes
  FrameTimes,  \* ticks that a frame may take to paint
  Eased,       \* Eased[t]: how far, in parts of Scale, an animation is after t ticks
  Scale,
  Pixel,
  ScreenWidth, \* in pixels
  Windows,     \* windows of the output, bottom first: [position, size, offset]
  Pointer      \* where the cursor is, in the workspace

ASSUME PanningAssumption ==
  /\ Pans \subseteq Int /\ Pointer \in Int /\ ScreenWidth \in Nat
  /\ {Duration, Scale, Pixel} \subseteq Nat \ {0} /\ FrameTimes \subseteq Nat
  /\ Eased \in [0 .. Duration -> 0 .. Scale]
  /\ Eased[0] = 0 /\ Eased[Duration] = Scale
  /\ Windows \in Seq([position : Int, size : Nat, offset : Int])

VARIABLES
  anim,       \* pan_, an animation_t
  unstored,   \* the fields that the main thread is still to store in it
  skip,       \* whether the main thread is to skip to the end of it
  asked,      \* the places that were ever asked for
  target,     \* the last of them
  frame,      \* what the render thread does
  layers,     \* where the frame has put the windows so far, or Culled
  disturbed   \* whether a pan was under way in this frame

panVars == <<anim, unstored, skip, asked, target, frame, layers, disturbed>>

Fields == {"start", "end", "progress"}
Culled == <<>>
NoField == [field \in {} |-> 0]
Asleep == [pc |-> "asleep", took |-> 0, progress |-> 0]

(* The first animation leads from nowhere to nowhere, and how long it takes *)
(* does not matter.                                                         *)
PanInit ==
  /\ anim = [start |-> 0, end |-> 0, progress |-> 0]
  /\ unstored = NoField /\ skip = FALSE
  /\ asked = {0} /\ target = 0
  /\ frame = Asleep /\ layers = <<>> /\ disturbed = FALSE

-----------------------------------------------------------------------------
(* easing(), of a time that sample() has clamped.                           *)
Ease(t) == Eased[IF t > Duration THEN Duration ELSE t]

(* animation_t::sample.  A frame in which the main thread panned may mix    *)
(* fields of two animations; nothing is claimed of such a frame.            *)
Sample == anim.start + ((anim.end - anim.start) * Ease(anim.progress)) \div Scale

(* to<eWorkspace, eScreenspace>                                             *)
ToScreen(x) == x - Sample

(* update(): the time of a frame counts until the animation is over.        *)
Advanced(progress, time) == IF progress < Duration THEN progress + time ELSE progress

-----------------------------------------------------------------------------
(* The main thread.                                                         *)

PanIdle == unstored = NoField /\ ~skip

(* output_t::pan: the animation starts from what it has come to.            *)
Pan(place, skipAnimation) ==
  /\ unstored' = [start |-> Sample, end |-> place, progress |-> 0]
  /\ skip' = skipAnimation
  /\ asked' = asked \cup {place} /\ target' = place
  /\ disturbed' = (frame.pc # "asleep")
  /\ UNCHANGED <<anim, frame, layers>>

(* output/pan: its third argument, by default true, animates; false skips.  *)
ScriptPan ==
  /\ PanIdle
  /\ \E place \in Pans, animation \in BOOLEAN : Pan(place, ~animation)

(* operator=(animation_t &&), a field of it.                                *)
Store(field) ==
  /\ field \in DOMAIN unstored
  /\ anim' = [anim EXCEPT ![field] = unstored[field]]
  /\ unstored' = [f \in DOMAIN unstored \ {field} |-> unstored[f]]
  /\ UNCHANGED <<skip, asked, target, frame, layers, disturbed>>

(* pan_.update(0.3f)                                                        *)
SkipToDone ==
  /\ unstored = NoField /\ skip
  /\ anim' = [anim EXCEPT !.progress = Advanced(@, Duration)]
  /\ skip' = FALSE
  /\ UNCHANGED <<unstored, asked, target, frame, layers, disturbed>>

-----------------------------------------------------------------------------
(* The render thread.                                                       *)

(* Conversion of a coordinate to int.                                       *)
Trunc(x) == IF x >= 0 THEN x \div Pixel ELSE -((-x) \div Pixel)

Overlaps(x, w, y, v) == (x >= y /\ x < y + v) \/ (y >= x /\ y < x + w)

(* Mutant: what will be visible in the end.                                 *)
WillBeVisible(win) ==
  Overlaps(Trunc(anim.end), ScreenWidth, Trunc(win.position), Trunc(win.size))

(* is_visible(), of regions in whole pixels.                                *)
IsVisible(win) ==
  Overlaps(Trunc(Sample), ScreenWidth, Trunc(win.position), Trunc(win.size))

BeginFrame ==
  /\ frame.pc = "asleep"
  /\ frame' = [frame EXCEPT !.pc = "windows"]
  /\ disturbed' = ~PanIdle
  /\ UNCHANGED <<anim, unstored, skip, asked, target, layers>>

(* xdg_shell_t::paint, one window of it.                                    *)
PaintWindow ==
  /\ frame.pc = "windows" /\ Len(layers) < Len(Windows)
  /\ LET win == Windows[Len(layers) + 1]
     IN layers' = Append(layers, IF IsVisible(win)
                                 THEN <<ToScreen(win.position - win.offset)>>
                                 ELSE Culled)
  /\ UNCHANGED <<anim, unstored, skip, asked, target, frame, disturbed>>

(* cursor_manager_t::paint                                                  *)
PaintCursor ==
  /\ frame.pc = "windows" /\ Len(layers) = Len(Windows)
  /\ layers' = Append(layers, <<ToScreen(Pointer)>>)
  /\ frame' = [frame EXCEPT !.pc = "painted"]
  /\ UNCHANGED <<anim, unstored, skip, asked, target, disturbed>>

(* update() with the time the frame took: it reads the progress ...         *)
ReadProgress ==
  /\ frame.pc = "painted"
  /\ \E time \in FrameTimes :
       frame' = [pc |-> "updating", took |-> time, progress |-> anim.progress]
  /\ UNCHANGED <<anim, unstored, skip, asked, target, layers, disturbed>>

(* ... and stores the sum, over what another pan may have stored since.     *)
WriteProgress ==
  /\ frame.pc = "updating"
  /\ anim' = IF frame.progress < Duration
             THEN [anim EXCEPT !.progress = Advanced(frame.progress, frame.took)]
             ELSE anim
  /\ frame' = Asleep /\ layers' = <<>> /\ disturbed' = FALSE
  /\ UNCHANGED <<unstored, skip, asked, target>>

PanNext ==
  \/ ScriptPan \/ SkipToDone \/ \E field \in Fields : Store(field)
  \/ BeginFrame \/ PaintWindow \/ PaintCursor \/ ReadProgress \/ WriteProgress

PanSpec == PanInit /\ [][PanNext]_panVars

-----------------------------------------------------------------------------
(* How much of a window is on the screen at this pan.                       *)
Showing(win, pan) ==
  LET left  == IF win.position > pan THEN win.position ELSE pan
      right == IF win.position + win.size < pan + ScreenWidth * Pixel
               THEN win.position + win.size ELSE pan + ScreenWidth * Pixel
  IN right - left

(* A frame that no pan came into shows the workspace as it is at one pan,   *)
(* the cursor over what it points at, and leaves out no window of which two *)
(* pixels could be seen.  The pan lies between places that were asked for,  *)
(* and once the animation is over it is the last of them, whatever updates  *)
(* were lost between the threads.                                           *)
FrameShowsOnePan ==
  frame.pc = "painted" /\ ~disturbed =>
    LET pan == Sample
    IN /\ \E low, high \in asked : low <= pan /\ pan <= high
       /\ anim.progress >= Duration => pan = target
       /\ layers[Len(layers)] = <<Pointer - pan>>
       /\ \A i \in DOMAIN Windows :
            LET win == Windows[i]
            IN IF layers[i] = Culled THEN Showing(win, pan) < 2 * Pixel
               ELSE layers[i] = <<win.position - win.offset - pan>>

=============================================================================
