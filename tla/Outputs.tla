------------------------------ MODULE Outputs -------------------------------
(* The outputs, the CRTCs they get (output.cpp, output_manager.cpp), how a  *)
(* configuration arranges them (script/output.cpp), and the cursor that     *)
(* moves from one to the next (cursor_manager.cpp).                         *)
(* Where on its output the cursor is, is left out: a motion may be as long  *)
(* as it likes, and a script may put the cursor anywhere, so that any       *)
(* motion may leave the output in any direction; what is kept is the output *)
(* it ends on and the listener that paints it there.                        *)
(* The main thread configures and moves; each output's render thread sets   *)
(* its mode and emits on_mode_set, which nothing locks: threads overlap in  *)
(* the cursor's listener, and with the main thread that moves the cursor.   *)
EXTENDS Naturals, Sequences, FiniteSets, Functions, Signal

CONSTANTS
  Connectors,      \* the connected connectors, in the order of the kernel
  CrtcCount,       \* number of CRTCs, which are 1 .. CrtcCount
  Encoders,        \* connector -> its encoders, each the set of its CRTCs
  Modes,           \* connector -> its modes, [size, rate, preferred]
  Lines,           \* what the "mode" of a configuration may say, [size, rate]; rate 0: none
  Neighbours,      \* what its "top", "right", ... may say: <<output, direction, other>>
  NoOutput

Outs == Range(Connectors)
Crtcs == 1 .. CrtcCount

ASSUME OutputsAssumption ==
  /\ Connectors \in Seq(Outs) /\ IsInjective(Connectors)
  /\ CrtcCount \in Nat
  /\ \A c \in Outs :
       /\ DOMAIN Encoders[c] \subseteq Nat
       /\ \A k \in DOMAIN Encoders[c] : Encoders[c][k] \subseteq Crtcs
       /\ 1 \in DOMAIN Modes[c]
  /\ NoOutput \notin Outs \cup Nat

(* The render thread of each output; NoOutput stands for the main thread.   *)
Threads == Outs \cup {NoOutput}

Directions == {"north", "east", "south", "west"}

VARIABLES
  plan,        \* connector -> CRTC, for those that found one
  outputs,     \* the outputs constructed so far, a prefix of Connectors
  mode,        \* output -> its mode
  link,        \* <<output, direction>> -> the adjacent output
  modeSet,     \* outputs whose thread has set the mode
  ended,       \* whether a thread's exception has ended the program
  oneShot,     \* whether the cursor still listens to on_mode_set
  setting,     \* thread -> how far it is in set_output()
  cursorOn,    \* output_: NoOutput stands for a pointer that was never assigned
  paintToken,
  painters,    \* output -> the listeners of its cursor layer, by token
  overlapped   \* history: set_output() began while another thread was within it

outVars == <<plan, outputs, mode, link, modeSet, ended, oneShot, setting,
             cursorOn, paintToken, painters, overlapped>>

OutputsInit ==
  /\ plan = <<>>
  /\ outputs = <<>>
  /\ mode = [c \in Outs |-> 1]
  /\ link = [side \in Outs \X Directions |-> NoOutput]
  /\ modeSet = {} /\ ended = FALSE
  /\ oneShot = TRUE
  /\ setting = [t \in Threads |-> "no"]
  /\ cursorOn = NoOutput /\ paintToken = NoOutput
  /\ painters = [o \in Outs |-> <<>>]
  /\ overlapped = FALSE

Started == Len(outputs) = Len(Connectors)

-----------------------------------------------------------------------------
(* Mutant: whether a CRTC is taken is not looked at.                        *)
AnyCrtcs(c, k) == Encoders[c][k]

(* The CRTCs that an encoder can drive and that are not taken.              *)
FreeCrtcs(c, k) == {i \in Crtcs : i \in Encoders[c][k] \ Range(plan)}

(* A connector gets the first one of the first encoder that has any.        *)
Drivable(c) == {k \in DOMAIN Encoders[c] : FreeCrtcs(c, k) # {}}

FirstFree(c) == Earliest(FreeCrtcs(c, Earliest(Drivable(c))))

(* The constructor of the output manager adopts each connector in turn and  *)
(* constructs its output with its first mode, planned or not.               *)
Adopt ==
  /\ ~Started
  /\ LET c == Connectors[Len(outputs) + 1]
     IN /\ plan' = IF Drivable(c) = {} THEN plan
                   ELSE [d \in DOMAIN plan \cup {c} |->
                           IF d = c THEN FirstFree(c) ELSE plan[d]]
        /\ outputs' = Append(outputs, c)
  /\ UNCHANGED <<mode, link, modeSet, ended, oneShot, setting, cursorOn,
                 paintToken, painters, overlapped>>

(* The mode for a line: the last one that fits it, else the first that the  *)
(* monitor prefers, else none.                                              *)
BestMode(c, line) ==
  LET fit == {i \in DOMAIN Modes[c] : /\ Modes[c][i].size = line.size
                                      /\ line.rate \in {0, Modes[c][i].rate}}
      preferred == {i \in DOMAIN Modes[c] : Modes[c][i].preferred}
  IN IF fit # {} THEN {i \in fit : \A j \in fit : j <= i}
     ELSE {i \in preferred : \A j \in preferred : i <= j}

Back(d) == CASE d = "north" -> "south" [] d = "south" -> "north"
             [] d = "east"  -> "west"  [] d = "west"  -> "east"

(* set_adjacent() links both ways, and unlinks neither old neighbour.       *)
SetAdjacent(o, d, p) ==
  link' = [link EXCEPT ![<<o, d>>] = p, ![<<p, Back(d)>>] = o]

(* output/configure with a mode and at most one neighbour: a table that     *)
(* names several is as good as a call for each.  Without a mode to match,   *)
(* the neighbours are not looked at.                                        *)
Configure(o, line) ==
  /\ Started /\ ~ended /\ setting[NoOutput] = "no"
  /\ \E i \in BestMode(o, line) : mode' = [mode EXCEPT ![o] = i]
  /\ \/ UNCHANGED link
     \/ \E d \in Directions, p \in Outs :
          <<o, d, p>> \in Neighbours /\ SetAdjacent(o, d, p)
  /\ UNCHANGED <<plan, outputs, modeSet, ended, oneShot, setting, cursorOn,
                 paintToken, painters, overlapped>>

-----------------------------------------------------------------------------
(* Mutant: the listener stays on the output the cursor leaves.              *)
LeftBehind == painters

(* set_output() in the two steps that another thread can come between: it   *)
(* takes its listener from the output it is on, and connects to the new one.*)
Left == IF paintToken = NoOutput THEN painters
        ELSE [painters EXCEPT ![cursorOn] = Disconnect(@, paintToken)]

(* Whether a thread is between the two.                                     *)
Moving == \E t \in Threads : setting[t] = "left"

Leave(t, to) ==
  /\ painters' = Left
  /\ cursorOn' = to
  /\ setting' = [setting EXCEPT ![t] = "left"]
  /\ overlapped' = (overlapped \/ Moving)

Enter(t) ==
  /\ setting[t] = "left" /\ ~ended
  /\ painters' = [painters EXCEPT ![cursorOn] = Connect(@, "paint")]
  /\ paintToken' = NextToken(painters[cursorOn])
  /\ setting' = [setting EXCEPT ![t] = "no"]

(* A thread sets the mode of its output and emits on_mode_set.              *)
ModeSet(o) ==
  /\ Started /\ ~ended
  /\ o \notin modeSet /\ o \in DOMAIN plan
  /\ modeSet' = modeSet \cup {o}
  /\ setting' = IF oneShot THEN [setting EXCEPT ![o] = "heard"] ELSE setting
  /\ UNCHANGED <<plan, outputs, mode, link, ended, oneShot, cursorOn,
                 paintToken, painters, overlapped>>

(* The connector found no CRTC: the exception leaves the thread.            *)
ModeSetThrows(o) ==
  /\ Started /\ ~ended
  /\ o \notin DOMAIN plan
  /\ ended' = TRUE
  /\ UNCHANGED <<plan, outputs, mode, link, modeSet, oneShot, setting,
                 cursorOn, paintToken, painters, overlapped>>

ListenerLeaves(o) ==
  /\ setting[o] = "heard" /\ ~ended
  /\ Leave(o, o)
  /\ UNCHANGED <<plan, outputs, mode, link, modeSet, ended, oneShot, paintToken>>

(* It asks to be deleted, and listens no more.                              *)
ListenerEnters(o) ==
  /\ Enter(o)
  /\ oneShot' = FALSE
  /\ UNCHANGED <<plan, outputs, mode, link, modeSet, ended, cursorOn, overlapped>>

-----------------------------------------------------------------------------
(* adjacent() takes the directions of a diagonal in this order, and gives   *)
(* up when one of them leads nowhere.                                       *)
Follow(o, d, dirs) == IF o = NoOutput \/ d \notin dirs THEN o ELSE link[<<o, d>>]

Adjacent(o, dirs) ==
  Follow(Follow(Follow(Follow(o, "north", dirs), "east", dirs),
                "south", dirs), "west", dirs)

(* A motion past the edges of the output: transfer() moves the cursor to    *)
(* the adjacent one, if there is one and it is another; else the position   *)
(* is clamped.                                                              *)
MoveBeyond(dirs) ==
  LET to == Adjacent(cursorOn, dirs)
  IN /\ cursorOn # NoOutput /\ ~ended /\ setting[NoOutput] = "no"
     /\ to \notin {NoOutput, cursorOn}
     /\ Leave(NoOutput, to)
     /\ UNCHANGED <<plan, outputs, mode, link, modeSet, ended, oneShot, paintToken>>

(* The other output paints it from now on.                                  *)
MoveEnds ==
  /\ Enter(NoOutput)
  /\ UNCHANGED <<plan, outputs, mode, link, modeSet, ended, oneShot, cursorOn,
                 overlapped>>

OutputsNext ==
  \/ Adopt
  \/ \E o \in Outs, line \in Lines : Configure(o, line)
  \/ \E o \in Outs : ModeSet(o) \/ ModeSetThrows(o)
                     \/ ListenerLeaves(o) \/ ListenerEnters(o)
  \/ \E dirs \in SUBSET Directions : MoveBeyond(dirs)
  \/ MoveEnds

OutputsSpec == OutputsInit /\ [][OutputsNext]_outVars

-----------------------------------------------------------------------------
PlanTypeOK ==
  /\ DOMAIN plan \subseteq Range(outputs) /\ plan \in [DOMAIN plan -> Crtcs]
  /\ outputs \in Seq(Outs) /\ Len(outputs) <= Len(Connectors)
  /\ \A i \in DOMAIN outputs : outputs[i] = Connectors[i]

OutputsTypeOK ==
  /\ PlanTypeOK
  /\ DOMAIN mode = Outs /\ \A o \in Outs : mode[o] \in DOMAIN Modes[o]
  /\ link \in [Outs \X Directions -> Outs \cup {NoOutput}]
  /\ modeSet \subseteq Outs
  /\ ended \in BOOLEAN /\ oneShot \in BOOLEAN /\ overlapped \in BOOLEAN
  /\ setting \in [Threads -> {"no", "heard", "left"}]
  /\ cursorOn \in Outs \cup {NoOutput}
  /\ paintToken \in Nat \cup {NoOutput}
  /\ DOMAIN painters = Outs /\ \A o \in Outs : DOMAIN painters[o] \subseteq Nat

(* No two connectors share a CRTC, each has one that one of its encoders    *)
(* can drive, and one that found none had none left to find.                *)
PlanIsSound ==
  /\ IsInjective(plan)
  /\ \A c \in DOMAIN plan : \E k \in DOMAIN Encoders[c] : plan[c] \in Encoders[c][k]
  /\ \A c \in Range(outputs) \ DOMAIN plan :
       \A k \in DOMAIN Encoders[c] : Encoders[c][k] \subseteq Range(plan)

(* While no thread is half-way through set_output(), the output the cursor  *)
(* is on paints it, wherever the cursor went and however the threads        *)
(* overlapped; and where they did not, it is painted once, and by no other. *)
CursorPaintedWhereItIs ==
  ~Moving /\ cursorOn # NoOutput =>
    /\ paintToken \in DOMAIN painters[cursorOn]
    /\ overlapped \/ \A o \in Outs : DOMAIN painters[o] =
                         IF o = cursorOn THEN {paintToken} ELSE {}

-----------------------------------------------------------------------------
(* What makes these inductive.                                              *)

(* An output that is painted on or being moved to is one.                   *)
CursorIsSomewhere == Moving \/ paintToken # NoOutput => cursorOn \in Outs

OneMovesAtATime ==
  ~overlapped => \A t, u \in Threads : setting[t] = "left" /\ setting[u] = "left" => t = u

(* Between the two halves of set_output() nobody paints the cursor.         *)
PaintedUnlessMoving ==
  /\ ~Moving => /\ cursorOn # NoOutput => paintToken \in DOMAIN painters[cursorOn]
                /\ cursorOn = NoOutput => paintToken = NoOutput
  /\ ~overlapped =>
       \A o \in Outs : DOMAIN painters[o] =
         IF ~Moving /\ o = cursorOn THEN {paintToken} ELSE {}

(* A thread emits on_mode_set once.                                         *)
EmittedOnce == \A o \in Outs : setting[o] # "no" => o \in modeSet

OutputsInv ==
  /\ OutputsTypeOK /\ EmittedOnce
  /\ CursorIsSomewhere /\ OneMovesAtATime /\ PaintedUnlessMoving

=============================================================================
