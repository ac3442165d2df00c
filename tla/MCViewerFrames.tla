---------------------------- MODULE MCViewerFrames ----------------------------
(* Two fingers, every way to render, a handful of events from outside.     *)
EXTENDS ViewerFrames

CONSTANTS p1, p2
=============================================================================
