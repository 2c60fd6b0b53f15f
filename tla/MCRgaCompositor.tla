--------------------------- MODULE MCRgaCompositor ---------------------------
(* Two pads over an output three pixels wide, one with dma-buf frames. An
   opaque rectangle, a translucent one, and one that leaves the output.  *)
EXTENDS RgaCompositor

MCScenes == {[x |-> 1, w |-> 2, alpha |-> 100], [x |-> 0, w |-> 2, alpha |-> 50],
             [x |-> 2, w |-> 2, alpha |-> 100]}
=============================================================================
