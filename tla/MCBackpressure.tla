--------------------------- MODULE MCBackpressure ---------------------------
(* Two nodes that call each other, over connections that hold one frame and a *)
(* channel of two places, with enough calls to fill everything.               *)
EXTENDS Backpressure
=============================================================================
