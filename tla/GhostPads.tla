------------------------------ MODULE GhostPads ------------------------------
(***************************************************************************)
(* IGhostPadManager (matrix/ighost_pad_manager.cpp): the ghost pads of a   *)
(* bin, one for each target pad.  A manager is the sequence pad_vec_: the  *)
(* pad of the target in place n is "<prefix>_<n-1>", and the two maps are  *)
(* its inverses.  del_pad has no caller, so that no place is freed.        *)
(***************************************************************************)
EXTENDS Naturals, Sequences

\* add_pad: a target that has a pad keeps it, another one gets the next name.
AddPad(mngr, tgt) ==
  IF \E n \in DOMAIN mngr : mngr[n] = tgt THEN mngr ELSE Append(mngr, tgt)

\* The pad of a target, by its place.
PadOf(mngr, tgt) == CHOOSE n \in DOMAIN mngr : mngr[n] = tgt
=============================================================================
