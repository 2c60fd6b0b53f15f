--------------------------- MODULE CompositorPads ---------------------------
(***************************************************************************)
(* The sink pads of rgacompositor as the application sees them: requested, *)
(* given caps by the streams, their properties set one g_object_set at a   *)
(* time, and an output size negotiated from them or imposed by downstream. *)
(* The properties relate what the geometry computes for hiding, clamping,  *)
(* negotiation and pointer events to what the RGA is told to draw.         *)
(***************************************************************************)
EXTENDS CompositorGeometry

CONSTANTS
  PadIds,
  Absent,       \* stands for a pad that does not exist
  Infos,        \* video infos a stream may announce
  Positions,    \* values the application gives to xpos
  Widths,
  Heights,
  OutSizes,     \* outputs <<w, h>> that downstream may impose
  OutPars,      \* pixel aspect ratios of the output
  MaxChanges    \* bound on the application's changes

Positive == Nat \ {0}

Ratios == Positive \X Positive

ASSUME PadsAssumption ==
  /\ IsFiniteSet(PadIds)
  /\ Infos \subseteq [w : Positive, h : Positive, par : Ratios, alpha : BOOLEAN]
  /\ NoInfo \notin Infos
  /\ Positions \subseteq Int /\ Widths \subseteq Int /\ Heights \subseteq Int
  /\ OutSizes \subseteq Positive \X Positive
  /\ OutPars \subseteq Ratios
  /\ MaxChanges \in Nat

VARIABLES
  pads,         \* PadIds -> Absent or the record of CompositorGeometry
  zero,         \* the property zero-size-is-unscaled
  out,          \* negotiated output [w, h, par]
  changes

vars == << pads, zero, out, changes >>

Present == {p \in PadIds : pads[p] # Absent}

\* gst_rga_compositor_pad_init
DefaultPad ==
  [xpos |-> 0, ypos |-> 0, width |-> -1, height |-> -1,
   alpha |-> 100, policy |-> "none", info |-> NoInfo]

TypeOK ==
  /\ \A p \in Present :
       pads[p] \in [xpos : Int, ypos : Int, width : Int, height : Int, alpha : {50, 100},
                    policy : Policies, info : Infos \cup {NoInfo}]
  /\ zero \in BOOLEAN
  /\ out \in [w : Positive, h : Positive, par : OutPars]
  /\ changes \in 0 .. MaxChanges

Init ==
  /\ pads = [p \in PadIds |-> Absent]
  /\ zero = TRUE
  /\ \E s \in OutSizes, par \in OutPars : out = [w |-> s[1], h |-> s[2], par |-> par]
  /\ changes = 0

Change == changes < MaxChanges /\ changes' = changes + 1

-----------------------------------------------------------------------------
\* gst_compositor_request_new_pad, and the caps of the stream behind it
RequestPad(p, info) ==
  /\ pads[p] = Absent
  /\ pads' = [pads EXCEPT ![p] = [DefaultPad EXCEPT !.info = info]]
  /\ UNCHANGED << zero, out, changes >>

ReleasePad(p) ==
  /\ p \in Present
  /\ Change
  /\ pads' = [pads EXCEPT ![p] = Absent]
  /\ UNCHANGED << zero, out >>

SetCaps(p, info) ==
  /\ p \in Present
  /\ Change
  /\ pads' = [pads EXCEPT ![p].info = info]
  /\ UNCHANGED << zero, out >>

\* gst_compositor_pad_set_property: one property, no lock
SetPadProperty(p) ==
  /\ p \in Present
  /\ Change
  /\ \/ \E v \in Positions : pads' = [pads EXCEPT ![p].xpos = v]
     \/ \E v \in Widths    : pads' = [pads EXCEPT ![p].width = v]
     \/ \E v \in Heights   : pads' = [pads EXCEPT ![p].height = v]
     \/ \E v \in Policies  : pads' = [pads EXCEPT ![p].policy = v]
     \/ \E v \in {50}      : pads' = [pads EXCEPT ![p].alpha = v]
  /\ UNCHANGED << zero, out >>

\* gst_compositor_set_property
SetZeroSizeIsUnscaled ==
  /\ Change
  /\ zero' = ~zero
  /\ UNCHANGED << pads, out >>

\* mutant: no lower bound on what the pads ask for
FixateUnbounded(par) ==
  LET known == {pads[p] : p \in Present}
  IN  [w |-> FixatedWidth(known, par, zero), h |-> FixatedHeight(known, par, zero), par |-> par]

(***************************************************************************)
(* _fixate_caps when downstream leaves the size open (the nearest allowed  *)
(* to -1 is 1), else the size downstream asks for                          *)
(***************************************************************************)
Fixate(par) ==
  LET known == {pads[p] : p \in Present}
  IN  [w |-> Max({1, FixatedWidth(known, par, zero)}),
       h |-> Max({1, FixatedHeight(known, par, zero)}), par |-> par]

Negotiate(par) ==
  /\ \/ out' = Fixate(par)
     \/ \E s \in OutSizes : out' = [w |-> s[1], h |-> s[2], par |-> par]
  /\ UNCHANGED << pads, zero, changes >>

Next ==
  \/ \E p \in PadIds, info \in Infos \cup {NoInfo} : RequestPad(p, info) \/ SetCaps(p, info)
  \/ \E p \in PadIds : ReleasePad(p) \/ SetPadProperty(p)
  \/ SetZeroSizeIsUnscaled
  \/ \E par \in OutPars : Negotiate(par)

Spec == Init /\ [][Next]_vars

-----------------------------------------------------------------------------
Size(p)       == OutputSize(pads[p], out.par, zero)
Placed(p)     == PlacedRect(pads[p], Size(p))
Blit(p)       == BlitRect(pads[p], out.par, zero)
Drawable      == {p \in Present : Size(p).w # 0 /\ Size(p).h # 0}
SquarePixels(p) == pads[p].info.par = out.par

Pixels(r) == (r.x .. r.x + r.w - 1) \X (r.y .. r.y + r.h - 1)

Output == Rect(0, 0, out.w, out.h)

(***************************************************************************)
(* The clamped rectangle that decides whether a frame is skipped or hidden *)
(* is exactly the part of the image inside the output, and empty exactly   *)
(* when nothing of it is visible (clamp_rectangle: negative positions,     *)
(* images larger than the output, positions beyond it).                    *)
(***************************************************************************)
ClampIsIntersection ==
  \A p \in Drawable :
    Pixels(ClampRectangle(Placed(p), out.w, out.h)) = Pixels(Placed(p)) \cap Pixels(Output)

(***************************************************************************)
(* An image never leaves the rectangle the application configured: with    *)
(* keep-aspect-ratio it touches two opposite sides and is centred to one   *)
(* pixel; with policy none and the pixel aspect ratio of the output it     *)
(* fills the rectangle, whatever rounding the ratio went through.          *)
(***************************************************************************)
SizeHonoursPolicy ==
  \A p \in Drawable :
    LET s == Size(p)
        w == ConfiguredWidth(pads[p], zero)
        h == ConfiguredHeight(pads[p], zero)
    IN  IF pads[p].policy = "keep-aspect-ratio"
          THEN /\ s.w = w \/ s.h = h
               /\ s.xo >= 0 /\ w - s.w - 2 * s.xo \in 0 .. 1
               /\ s.yo >= 0 /\ h - s.h - 2 * s.yo \in 0 .. 1
          ELSE SquarePixels(p) => s = Unpadded(w, h)

(***************************************************************************)
(* The output chosen by _fixate_caps holds every image where the geometry  *)
(* places it, also at negative positions. What the RGA draws is the        *)
(* configured rectangle: it overhangs by the pixel that halving an odd     *)
(* padding loses, and by no more.                                          *)
(***************************************************************************)
FixatedHoldsPads ==
  \A p \in Drawable :
    LET o == Fixate(out.par)
        b == Blit(p)
    IN  /\ Placed(p).x + Placed(p).w <= o.w
        /\ Placed(p).y + Placed(p).h <= o.h
        /\ (pads[p].policy = "keep-aspect-ratio" \/ SquarePixels(p)) =>
             /\ b.x + b.w <= o.w + 1
             /\ b.x + b.w = o.w + 1 => (b.w - Size(p).w) % 2 = 1
             /\ b.y + b.h <= o.h + 1
             /\ b.y + b.h = o.h + 1 => (b.h - Size(p).h) % 2 = 1

(***************************************************************************)
(* A rectangle is taken for hidden only behind pixels the hiding pad is    *)
(* really drawn on: the test uses size and offsets of OutputSize, the RGA  *)
(* the properties. It holds when the geometry moves nothing (no offsets,   *)
(* the pixel aspect ratio of the output) or the application set both sizes *)
(* of a keep-aspect-ratio pad; an offset beside a size left to the frame   *)
(* shows the image beside the place the test takes for covered.            *)
(***************************************************************************)
ObscuringIsDrawn ==
  \A p, q \in Drawable :
    LET rect == ClampRectangle(Placed(p), out.w, out.h)
    IN  /\ PadObscuresRectangle(pads[q], TRUE, rect, out.par, zero)
        /\ IF pads[q].policy = "keep-aspect-ratio"
             THEN pads[q].width > 0 /\ pads[q].height > 0
             ELSE SquarePixels(q)
        => IsRectangleContained(rect, Blit(q))

(***************************************************************************)
(* A pointer event that reaches a pad with an image is translated to a     *)
(* point of that pad's frame (its borders included, so that a point on the *)
(* common border of two pads reaches both).                                *)
(***************************************************************************)
PointerInFrame ==
  \A p \in Drawable, px \in 0 .. out.w :
    LET x == PointerX(pads[p], px, out.par, zero)
    IN  PointerReaches(pads[p], px, pads[p].ypos + Size(p).yo, out.par, zero)
          => 0 <= x[1] /\ x[1] <= pads[p].info.w * x[2]
=============================================================================
