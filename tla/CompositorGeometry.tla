------------------------- MODULE CompositorGeometry -------------------------
(***************************************************************************)
(* The arithmetic of rgacompositor.cpp: the size a pad's image takes in    *)
(* the output, the rectangle left of it inside the output, what hides      *)
(* what, the size an output gets when nobody fixes it, the rectangle the   *)
(* RGA is told to draw, and where a pointer event falls in a pad.          *)
(*                                                                         *)
(* A pad is a record of its properties, the format of its frames included: *)
(*   xpos, ypos, width, height   as set by the application                 *)
(*   alpha                       in percent                                *)
(*   policy                      "none" or "keep-aspect-ratio"             *)
(*   info                        NoInfo before caps, or [w, h, par, alpha] *)
(* A ratio is a pair <<numerator, denominator>>.                           *)
(***************************************************************************)
EXTENDS Integers, FiniteSets, FiniteSetsExt

CONSTANT NoInfo     \* the video info of a pad that has no caps yet

Policies == {"none", "keep-aspect-ratio"}

(***************************************************************************)
(* What the code takes from GStreamer's libraries.                         *)
(***************************************************************************)
Gcd(a, b) == Max({d \in 1 .. Min({a, b}) : a % d = 0 /\ b % d = 0})

\* gst_util_fraction_multiply and gst_video_calculate_display_ratio
Reduced(n, d) == << n \div Gcd(n, d), d \div Gcd(n, d) >>

\* gst_util_uint64_scale_int
Scaled(v, n, d) == (v * n) \div d

\* gst_video_center_rect with scaling: the largest rectangle of the shape
\* sw x sh inside dw x dh, and where it starts
CenterRect(sw, sh, dw, dh) ==
  LET w == IF sw * dh < dw * sh THEN Scaled(dh, sw, sh) ELSE dw
      h == IF sw * dh > dw * sh THEN Scaled(dw, sh, sw) ELSE dh
  IN  [w |-> w, h |-> h, xo |-> (dw - w) \div 2, yo |-> (dh - h) \div 2]

-----------------------------------------------------------------------------
(***************************************************************************)
(* _mixer_pad_get_output_size                                              *)
(***************************************************************************)
NoSize == [w |-> 0, h |-> 0, xo |-> 0, yo |-> 0]

Unpadded(w, h) == [w |-> w, h |-> h, xo |-> 0, yo |-> 0]

\* a property that leaves the dimension to the frame
Unset(v, zeroIsUnscaled) == IF zeroIsUnscaled THEN v <= 0 ELSE v < 0

ConfiguredWidth(pad, zero)  == IF Unset(pad.width, zero)  THEN pad.info.w ELSE pad.width
ConfiguredHeight(pad, zero) == IF Unset(pad.height, zero) THEN pad.info.h ELSE pad.height

\* mutant: the display ratio upside down
DisplaySizeInverted(w, h, par, outPar) ==
  LET dar == Reduced(h * par[2] * outPar[1], w * par[1] * outPar[2])
  IN  Unpadded(Scaled(h, dar[1], dar[2]), h)

\* sizing policy none: keep the height if the display ratio allows it
DisplaySize(w, h, par, outPar) ==
  LET dar == Reduced(w * par[1] * outPar[2], h * par[2] * outPar[1])
  IN  IF h % dar[1] # 0 /\ w % dar[2] = 0
        THEN Unpadded(w, Scaled(w, dar[2], dar[1]))
        ELSE Unpadded(Scaled(h, dar[1], dar[2]), h)

\* sizing policy keep-aspect-ratio
AspectSize(w, h, info, outPar) ==
  LET from == Reduced(info.w * info.par[1], info.h * info.par[2])
      to   == Reduced(w * outPar[1], h * outPar[2])
      r    == Reduced(from[1] * outPar[2], from[2] * outPar[1])
      srcH == Scaled(w, r[2], r[1])
  IN  CASE from = to              -> Unpadded(w, h)
        [] from # to /\ srcH = 0  -> NoSize
        [] OTHER                  -> CenterRect(w, srcH, w, h)

OutputSize(pad, outPar, zero) ==
  IF pad.info = NoInfo THEN NoSize
  ELSE LET w == ConfiguredWidth(pad, zero)
           h == ConfiguredHeight(pad, zero)
       IN  IF w = 0 \/ h = 0 THEN NoSize
           ELSE IF pad.policy = "none" THEN DisplaySize(w, h, pad.info.par, outPar)
           ELSE AspectSize(w, h, pad.info, outPar)

-----------------------------------------------------------------------------
(***************************************************************************)
(* Rectangles.                                                             *)
(***************************************************************************)
Rect(x, y, w, h) == [x |-> x, y |-> y, w |-> w, h |-> h]

\* where an image of that size and offset lies in the output
PlacedRect(pad, size) ==
  Rect(pad.xpos + size.xo, pad.ypos + size.yo, size.w, size.h)

Clamp(v, low, high) == IF v > high THEN high ELSE IF v < low THEN low ELSE v

\* mutant: clamps the size instead of the far corner
ClampRectangleSize(r, outW, outH) ==
  Rect(Clamp(r.x, 0, outW), Clamp(r.y, 0, outH), Clamp(r.w, 0, outW), Clamp(r.h, 0, outH))

ClampRectangle(r, outW, outH) ==
  LET x == Clamp(r.x, 0, outW)
      y == Clamp(r.y, 0, outH)
  IN  Rect(x, y, Clamp(r.x + r.w, 0, outW) - x, Clamp(r.y + r.h, 0, outH) - y)

\* is_rectangle_contained: r2 contains r1
IsRectangleContained(r1, r2) ==
  /\ r2.x <= r1.x /\ r2.y <= r1.y
  /\ r2.x + r2.w >= r1.x + r1.w
  /\ r2.y + r2.h >= r1.y + r1.h

\* is_point_contained: the right and bottom edges belong to the rectangle
IsPointContained(r, px, py) ==
  /\ px >= r.x /\ px <= r.x + r.w
  /\ py >= r.y /\ py <= r.y + r.h

-----------------------------------------------------------------------------
(***************************************************************************)
(* _pad_obscures_rectangle, without a converter-config (the programs of    *)
(* this repository set none)                                               *)
(***************************************************************************)
PadObscuresRectangle(pad, hasBuffer, rect, outPar, zero) ==
  /\ hasBuffer
  /\ pad.alpha = 100 /\ ~pad.info.alpha
  /\ IsRectangleContained(rect, PlacedRect(pad, OutputSize(pad, outPar, zero)))

(***************************************************************************)
(* The rectangle handed to improcess: the position and size properties as  *)
(* they are, or the size of the prepared frame, which the parent class has *)
(* converted to OutputSize (create_conversion_info).                       *)
(***************************************************************************)
ConversionSize(pad, outPar, zero) == OutputSize(pad, outPar, zero)

\* mutant: the size of the converted frame, whatever the properties say
BlitRectOfFrame(pad, outPar, zero) ==
  LET frame == ConversionSize(pad, outPar, zero)
  IN  Rect(pad.xpos, pad.ypos, frame.w, frame.h)

BlitRect(pad, outPar, zero) ==
  LET frame == ConversionSize(pad, outPar, zero)
  IN  Rect(pad.xpos, pad.ypos,
           IF pad.width  > 0 THEN pad.width  ELSE frame.w,
           IF pad.height > 0 THEN pad.height ELSE frame.h)

\* imcheck: the RGA refuses a rectangle that leaves the destination
BlitAccepted(r, outW, outH) ==
  r.x >= 0 /\ r.y >= 0 /\ r.x + r.w <= outW /\ r.y + r.h <= outH

-----------------------------------------------------------------------------
(***************************************************************************)
(* _fixate_caps: the output that holds every active pad. -1 stands for no  *)
(* pad at all, as in the code.                                             *)
(***************************************************************************)
PositiveSized(pads, outPar, zero) ==
  {p \in pads : LET s == OutputSize(p, outPar, zero) IN s.w # 0 /\ s.h # 0}

\* mutant: counts the padding on the left only
FixatedWidthLeft(pads, outPar, zero) ==
  Max({-1} \cup {LET s == OutputSize(p, outPar, zero)
                 IN  s.w + Max({p.xpos + s.xo, 0})
                   : p \in PositiveSized(pads, outPar, zero)})

FixatedWidth(pads, outPar, zero) ==
  Max({-1} \cup {LET s == OutputSize(p, outPar, zero)
                 IN  s.w + Max({p.xpos + 2 * s.xo, 0})
                   : p \in PositiveSized(pads, outPar, zero)})

FixatedHeight(pads, outPar, zero) ==
  Max({-1} \cup {LET s == OutputSize(p, outPar, zero)
                 IN  s.h + Max({p.ypos + 2 * s.yo, 0})
                   : p \in PositiveSized(pads, outPar, zero)})

(***************************************************************************)
(* src_pad_mouse_event: whether the event goes to the pad, and where in    *)
(* its frame; the quotient is exact in the code (doubles)                  *)
(***************************************************************************)
PointerRect(pad, outPar, zero) == PlacedRect(pad, OutputSize(pad, outPar, zero))

PointerReaches(pad, px, py, outPar, zero) ==
  IsPointContained(PointerRect(pad, outPar, zero), px, py)

\* mutant: forgets where the image starts
PointerXUnshifted(pad, px, outPar, zero) ==
  << px * pad.info.w, PointerRect(pad, outPar, zero).w >>

PointerX(pad, px, outPar, zero) ==
  LET r == PointerRect(pad, outPar, zero)
  IN  << (px - r.x) * pad.info.w, r.w >>
=============================================================================
