--------------------------- MODULE MCRenderLoop ---------------------------
(* Instances of RenderLoop for TLC.                                        *)
EXTENDS RenderLoop, TLC

CONSTANTS o1

MCHome == o1

===========================================================================
