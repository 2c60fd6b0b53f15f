----------------------------- MODULE MCPipeline -----------------------------
(* The inputs of MediaMatrix::init, for TLC. *)
EXTENDS Pipeline

MCConfig == <<"hdmi", "uridb", "uridb">>

MCMayLack ==
  {"v4l2src", "uridecodebin", "mppjpegdec", "videoscale", "videorate", "queue",
   "input-selector", "compositor", "glvideomixer", "glcolorconvert", "kmssink"}
=============================================================================
