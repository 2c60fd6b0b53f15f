------------------------------ MODULE InputBins ------------------------------
(***************************************************************************)
(* The bins of the inputs (matrix/media_input_impl_*.cpp): the elements    *)
(* init() makes for a source and those get_request_pad makes for a branch  *)
(* behind the source's tee.  gst_element_factory_make returns NULL for a   *)
(* kind of element whose plugin is missing; the code makes the elements    *)
(* one by one, stops at the first NULL and forgets those it has made.      *)
(***************************************************************************)
EXTENDS Naturals, Sequences, FiniteSets

InputTypes == {"hdmi", "uridb", "image"}

\* init() of MediaInputImplHdmi, MediaInputImplUridb and MediaInputImplImage.
SourceElements(type) ==
  CASE type = "hdmi"  -> <<"v4l2src", "videoconvert", "capsfilter", "tee">>
    [] type = "uridb" -> <<"uridecodebin", "videoconvert", "videoscale", "capsfilter", "tee">>
    [] type = "image" -> <<"filesrc", "jpegparse", "mppjpegdec", "videoconvert",
                           "videorate", "capsfilter", "imagefreeze", "tee">>

\* inter_get_video_pad of the URI input, create_video_src_pad of the other two.
BranchElements(type) ==
  IF type = "uridb" THEN <<"queue">> ELSE <<"queue", "videoscale", "videorate", "capsfilter">>

Kinds(elements) == {elements[n] : n \in DOMAIN elements}

Available(elements, missing) == Kinds(elements) \cap missing = {}

\* How many elements are made before the first that is missing.
Made(elements, missing) ==
  IF Available(elements, missing) THEN Len(elements)
  ELSE CHOOSE n \in 0..Len(elements) - 1 :
         /\ elements[n + 1] \in missing
         /\ \A m \in 1..n : elements[m] \notin missing

\* The elements that init() or a branch leaves in no bin.
Forgotten(elements, missing) ==
  IF Available(elements, missing) THEN 0 ELSE Made(elements, missing)

\* state_ after init(): a URI input is not ready before its decoder has a pad.
StateAfterInit(type, ok) == IF ok /\ type # "uridb" THEN "Ready" ELSE "Invalid"
=============================================================================
