------------------------------ MODULE MCShell ------------------------------
(* Instances of Shell for TLC.                                             *)
EXTENDS Shell, TLC

LikeWindows == Permutations(Window)
LikeDrags == Permutations(Drag)

\* A bound of MCShellResize: two drags meet before a resize has been released;
\* later ones come one at a time.
DragsMeetEarly == Cardinality(Dragging) > 1 => sent = <<>>

============================================================================
