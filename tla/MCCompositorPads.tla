-------------------------- MODULE MCCompositorPads --------------------------
(* Two pads, frames of several shapes and pixel ratios, sizes around them. *)
EXTENDS CompositorPads, TLC

Video(w, h, par, alpha) == [w |-> w, h |-> h, par |-> par, alpha |-> alpha]

MCInfos     == {Video(4, 3, <<1, 1>>, FALSE), Video(2, 3, <<3, 2>>, TRUE)}
MCPositions == {-2, 3}
MCWidths    == {0, 6}
MCHeights   == {2, 7}
MCOutSizes  == {<<4, 3>>}
MCOutPars   == {<<1, 1>>, <<3, 2>>}
MCSymmetry  == Permutations(PadIds)
=============================================================================
