--------------------------- MODULE MCInputModule ---------------------------
(* The input module with a URI decoder and a capture; init() of the capture   *)
(* may fail where the run says so.                                            *)
EXTENDS InputModule

CONSTANTS u1, h1

MCUridb == {u1}
MCHdmi == {h1}
MCNone == {}
=============================================================================
