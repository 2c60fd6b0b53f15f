----------------------------- MODULE VideoMixer -----------------------------
(***************************************************************************)
(* VideoMixer and its two implementations, VideoMixerRgac and              *)
(* VideoMixerGlvm (matrix/video_mixer*.cpp): the regions of a layout, the  *)
(* elements each mixer needs, and connect(), which gives a stream a branch *)
(* of the mixer's bin and a pad of its compositor.                         *)
(*                                                                         *)
(* A mixer is a record:                                                    *)
(*   ghosts   its sink ghost pads "video_sink_<n-1>", each with the module *)
(*            pad linked to it (0 none) and the compositor pad behind it;  *)
(*   pads     the pads requested from the compositor: their region, Unset  *)
(*            until connect() sets it;                                     *)
(*   streams  srcpad_umap_: the module pads recorded;                      *)
(*   cut      the branches whose elements could not be linked together.    *)
(***************************************************************************)
EXTENDS Integers, Sequences, FiniteSets

ScreenWidth == 1920
ScreenHeight == 1080
MaxStream == 8   \* kVideomixMaxStream
Unset == [x |-> 0, y |-> 0, w |-> 0, h |-> 0]

\* get_style_from_layout, for the layout of three screens by index from 0.
ThreeScreenStacked(index) ==
  [x |-> 0, y |-> 180 * (index + 1), w |-> ScreenWidth \div 3, h |-> ScreenHeight \div 3]

ThreeScreen(index) ==
  IF index = 0
  THEN [x |-> 0, y |-> 180, w |-> (ScreenWidth * 2) \div 3, h |-> (ScreenHeight * 2) \div 3]
  ELSE [x |-> (ScreenWidth * 2) \div 3, y |-> IF index = 1 THEN 180 ELSE 180 + 360,
        w |-> ScreenWidth \div 3, h |-> ScreenHeight \div 3]

Usages == {"rgac", "glvm"}

\* The elements init() makes, in this order, and those of a branch.
MixerElements(usage) ==
  <<IF usage = "rgac" THEN "compositor" ELSE "glvideomixer",
    "videoconvert", "capsfilter", "tee", "queue">>

MixerBranch(usage) ==
  IF usage = "rgac" THEN <<"queue">> ELSE <<"queue", "glupload", "glcolorconvert">>

NewMixer == [ghosts |-> <<>>, pads |-> <<>>, streams |-> {}, cut |-> 0]

\* connect() goes on: there is room, and the module pad is not recorded.
AcceptsFirst(mixer, pad) == mixer.streams = {}

Accepts(mixer, pad) == Cardinality(mixer.streams) < MaxStream /\ pad \notin mixer.streams

\* Only VideoMixerGlvm has elements to link in its branch: when that fails there
\* is no ghost pad.
ConnectCut(mixer) == [mixer EXCEPT !.cut = @ + 1]

\* The branch, its ghost pad and a compositor pad; unless their link is refused,
\* the pad gets its region and the stream is recorded.
ConnectUnrecorded(mixer, pad, style, refused) ==
  [mixer EXCEPT
     !.ghosts = Append(@, [peer |-> 0, behind |-> IF refused THEN 0 ELSE Len(mixer.pads) + 1]),
     !.pads = Append(@, style)]

Connect(mixer, pad, style, refused) ==
  [mixer EXCEPT
     !.ghosts = Append(@, [peer |-> 0, behind |-> IF refused THEN 0 ELSE Len(mixer.pads) + 1]),
     !.pads = Append(@, IF refused THEN Unset ELSE style),
     !.streams = IF refused THEN @ ELSE @ \cup {pad}]

\* gst_pad_link of the module pad to the newest ghost pad.
LinkGhost(mixer, pad) == [mixer EXCEPT !.ghosts[Len(mixer.ghosts)].peer = pad]
=============================================================================
