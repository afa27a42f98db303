----------------------------- MODULE MCProgress -----------------------------
(* Instances for TLC of the parts that must get on: the render threads,     *)
(* which paint when they are notified and flip pages, and the signals of    *)
(* the pointer.  The three share no state, so that a behaviour is one of a  *)
(* single part, chosen at the start, while the others rest.                 *)
EXTENDS RenderLoop, PageFlip, Shell

CONSTANT o1

VARIABLE part

MCHome == o1

ProgressInit ==
  /\ part \in {"loop", "flips", "windows"}
  /\ LoopInit /\ FlipInit /\ ShellInit

ProgressNext ==
  /\ UNCHANGED part
  /\ \/ part = "loop" /\ LoopNext /\ UNCHANGED <<flipVars, shellVars>>
     \/ part = "flips" /\ FlipNext /\ UNCHANGED <<loopVars, shellVars>>
     \/ part = "windows" /\ ShellNext /\ UNCHANGED <<loopVars, flipVars>>

(* The fairness of each part.  What rests is never enabled: no page flips,  *)
(* no signal is emitted, and a render thread runs only in its own part.     *)
ProgressFairness ==
  /\ WF_loopVars(part = "loop" /\ Notify)
  /\ \A o \in Output : WF_loopVars(part = "loop" /\ Render(o))
  /\ FlipFairness
  /\ WF_shellVars(Listener)

ProgressSpec ==
  /\ ProgressInit /\ [][ProgressNext]_<<part, loopVars, flipVars, shellVars>>
  /\ ProgressFairness

=============================================================================
