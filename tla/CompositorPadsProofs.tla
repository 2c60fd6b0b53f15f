------------------------ MODULE CompositorPadsProofs ------------------------
(***************************************************************************)
(* What the arithmetic of rgacompositor.cpp does for any number of pads,   *)
(* of any size at any place, where the run looks at small ones.            *)
(*                                                                         *)
(* Everything follows from the types, kept by every action (PadsInv), and  *)
(* from what OutputSize returns for a pad of these types: natural numbers, *)
(* and a padding split in two halves that differ by one pixel at most. For *)
(* that the divisions it makes have to be by positive numbers and exact    *)
(* where the code takes them for exact (DivExact, ReducedRatio).           *)
(***************************************************************************)
EXTENDS CompositorPads, FiniteSetTheorems, WellFoundedInduction, TLAPS

Rects == [x : Int, y : Int, w : Int, h : Int]

-----------------------------------------------------------------------------
\* One dimension of clamp_rectangle: the interval left of [x, x + w) in [0, max)
LEMMA ClampInterval ==
  ASSUME NEW x \in Int, NEW w \in Int, NEW max \in Nat, NEW i \in Int
  PROVE  LET low  == Clamp(x, 0, max)
             size == Clamp(x + w, 0, max) - low
         IN  /\ low \in Int /\ size \in Int
             /\ (low <= i /\ i <= low + size - 1) <=> (x <= i /\ i <= x + w - 1 /\ 0 <= i /\ i <= max - 1)
  BY DEF Clamp

\* The pixels of a rectangle, by their coordinates
LEMMA PixelsOf ==
  ASSUME NEW r \in Rects, NEW p
  PROVE  p \in Pixels(r) <=>
           \E i, j \in Int : /\ p = <<i, j>>
                             /\ r.x <= i /\ i <= r.x + r.w - 1
                             /\ r.y <= j /\ j <= r.y + r.h - 1
<1>1. r.x \in Int /\ r.y \in Int /\ r.w \in Int /\ r.h \in Int
  BY DEF Rects
<1> QED
  BY <1>1 DEF Pixels

(***************************************************************************)
(* clamp_rectangle computes the part of a rectangle inside the output, for *)
(* every rectangle, also one of no or negative size, and every output.     *)
(***************************************************************************)
THEOREM ClampRectangleIntersects ==
  ASSUME NEW r \in Rects, NEW outW \in Nat, NEW outH \in Nat
  PROVE  Pixels(ClampRectangle(r, outW, outH)) = Pixels(r) \cap Pixels(Rect(0, 0, outW, outH))
<1> DEFINE c == ClampRectangle(r, outW, outH)
           o == Rect(0, 0, outW, outH)
<1>1. r.x \in Int /\ r.y \in Int /\ r.w \in Int /\ r.h \in Int
  BY DEF Rects
<1>2. c \in Rects /\ o \in Rects
  BY <1>1 DEF ClampRectangle, Rect, Clamp, Rects
<1>3. /\ c.x = Clamp(r.x, 0, outW) /\ c.w = Clamp(r.x + r.w, 0, outW) - c.x
      /\ c.y = Clamp(r.y, 0, outH) /\ c.h = Clamp(r.y + r.h, 0, outH) - c.y
      /\ o.x = 0 /\ o.y = 0 /\ o.w = outW /\ o.h = outH
  BY DEF ClampRectangle, Rect
<1> HIDE DEF c, o
<1>4. ASSUME NEW i \in Int, NEW j \in Int
      PROVE  (/\ c.x <= i /\ i <= c.x + c.w - 1
              /\ c.y <= j /\ j <= c.y + c.h - 1)
             <=> (/\ r.x <= i /\ i <= r.x + r.w - 1 /\ r.y <= j /\ j <= r.y + r.h - 1
                  /\ o.x <= i /\ i <= o.x + o.w - 1 /\ o.y <= j /\ j <= o.y + o.h - 1)
  <2>1. (c.x <= i /\ i <= c.x + c.w - 1) <=>
          (r.x <= i /\ i <= r.x + r.w - 1 /\ 0 <= i /\ i <= outW - 1)
    BY <1>1, <1>3, ClampInterval
  <2>2. (c.y <= j /\ j <= c.y + c.h - 1) <=>
          (r.y <= j /\ j <= r.y + r.h - 1 /\ 0 <= j /\ j <= outH - 1)
    BY <1>1, <1>3, ClampInterval
  <2> QED
    BY <1>3, <2>1, <2>2
<1>5. ASSUME NEW p PROVE p \in Pixels(c) <=> p \in Pixels(r) /\ p \in Pixels(o)
  BY <1>2, <1>4, PixelsOf
<1> QED
  BY <1>5 DEF c, o
-----------------------------------------------------------------------------
\* Integer division below a bound
LEMMA DivBounds ==
  ASSUME NEW a \in Nat, NEW b \in Nat \ {0}, NEW c \in Nat
  PROVE  a \div b \in Nat /\ (a < c * b => a \div b < c)
<1>1. a \div b \in Int /\ b * (a \div b) <= a /\ a < b * (a \div b) + b
  OBVIOUS
<1> DEFINE q == a \div b
<1> HIDE DEF q
<1>2. q \in Int /\ b * q <= a /\ a < b * q + b
  BY <1>1 DEF q
<1>3. q >= 0
  <2>1. SUFFICES ASSUME q <= -1 PROVE FALSE
    BY <1>2
  <2>2. b * q <= b * (-1)
    BY <1>2, <2>1
  <2> QED
    BY <1>2, <2>2
<1>4. ASSUME a < c * b PROVE q < c
  <2>1. SUFFICES ASSUME c <= q PROVE FALSE
    BY <1>2
  <2>2. b * c <= b * q
    BY <1>2, <2>1
  <2> QED
    BY <1>2, <1>4, <2>2
<1> QED
  BY <1>2, <1>3, <1>4 DEF q

(***************************************************************************)
(* gst_video_center_rect, as _mixer_pad_get_output_size uses it for        *)
(* keep-aspect-ratio: the image lies inside the rectangle it was asked to  *)
(* fill, touches two opposite sides of it and is centred to one pixel.     *)
(***************************************************************************)
THEOREM CenterRectInside ==
  ASSUME NEW sw \in Nat \ {0}, NEW sh \in Nat \ {0}, NEW dw \in Nat \ {0}, NEW dh \in Nat \ {0}
  PROVE  LET c == CenterRect(sw, sh, dw, dh)
         IN  /\ c.w \in 0 .. dw /\ c.h \in 0 .. dh
             /\ c.w = dw \/ c.h = dh
             /\ c.xo >= 0 /\ dw - c.w - 2 * c.xo \in 0 .. 1
             /\ c.yo >= 0 /\ dh - c.h - 2 * c.yo \in 0 .. 1
<1> DEFINE w == IF sw * dh < dw * sh THEN Scaled(dh, sw, sh) ELSE dw
           h == IF sw * dh > dw * sh THEN Scaled(dw, sh, sw) ELSE dh
<1>1. w \in 0 .. dw
  <2>1. CASE sw * dh < dw * sh
    <3>1. dh * sw \in Nat /\ dh * sw < dw * sh
      BY <2>1
    <3>2. (dh * sw) \div sh \in Nat /\ (dh * sw) \div sh < dw
      BY <3>1, DivBounds
    <3> QED
      BY <2>1, <3>2 DEF Scaled
  <2>2. CASE ~(sw * dh < dw * sh)
    BY <2>2
  <2> QED
    BY <2>1, <2>2
<1>2. h \in 0 .. dh
  <2>1. CASE sw * dh > dw * sh
    <3>1. dw * sh \in Nat /\ dw * sh < dh * sw
      BY <2>1
    <3>2. (dw * sh) \div sw \in Nat /\ (dw * sh) \div sw < dh
      BY <3>1, DivBounds
    <3> QED
      BY <2>1, <3>2 DEF Scaled
  <2>2. CASE ~(sw * dh > dw * sh)
    BY <2>2
  <2> QED
    BY <2>1, <2>2
<1>3. w = dw \/ h = dh
  <2>1. sw * dh \in Int /\ dw * sh \in Int
    OBVIOUS
  <2> QED
    BY <2>1
<1>4. \A n \in Nat : n \div 2 >= 0 /\ n - 2 * (n \div 2) \in 0 .. 1
  OBVIOUS
<1> HIDE DEF w, h
<1>5. /\ (dw - w) \div 2 >= 0 /\ (dw - w) - 2 * ((dw - w) \div 2) \in 0 .. 1
      /\ (dh - h) \div 2 >= 0 /\ (dh - h) - 2 * ((dh - h) \div 2) \in 0 .. 1
  <2>1. dw - w \in Nat /\ dh - h \in Nat
    BY <1>1, <1>2
  <2> QED
    BY <1>4, <2>1
<1>6. CenterRect(sw, sh, dw, dh) =
        [w |-> w, h |-> h, xo |-> (dw - w) \div 2, yo |-> (dh - h) \div 2]
  BY DEF CenterRect, w, h
<1> QED
  BY <1>1, <1>2, <1>3, <1>5, <1>6
-----------------------------------------------------------------------------
(* Greatest elements and greatest common divisors *)

\* A nonempty set of naturals has a least element.
LEMMA LeastNat ==
  ASSUME NEW S, S \subseteq Nat, S # {}
  PROVE  \E x \in S : \A y \in S : x <= y
<1> DEFINE R == OpToRel(<, Nat)
<1>1. IsWellFoundedOn(R, Nat)
  BY NatLessThanWellFounded
<1>2. \A x, y \in Nat : <<y, x>> \in R <=> y < x
  BY DEF OpToRel
<1> HIDE DEF R
<1>3. PICK x \in S : \A y \in S : <<y, x>> \notin R
  BY <1>1, WFMin
<1>4. ASSUME NEW y \in S PROVE x <= y
  <2>1. x \in Nat /\ y \in Nat /\ ~(y < x)
    BY <1>2, <1>3
  <2> QED
    BY <2>1
<1> QED
  BY <1>4

\* A finite set of integers that is not empty has a greatest element: the one
\* with the fewest elements above it.
LEMMA MaxOfFinite ==
  ASSUME NEW S, S \subseteq Int, IsFiniteSet(S), S # {}
  PROVE  Max(S) \in S /\ \A y \in S : Max(S) >= y
<1> DEFINE above[x \in S] == {y \in S : y > x}
           counts == {Cardinality(above[x]) : x \in S}
<1>1. \A x \in S : IsFiniteSet(above[x]) /\ Cardinality(above[x]) \in Nat
  <2>1. TAKE x \in S
  <2>2. above[x] \in SUBSET S
    OBVIOUS
  <2> QED
    BY <2>2, FS_Subset, FS_CardinalityType
<1>2. counts \subseteq Nat /\ counts # {}
  BY <1>1
<1>3. PICK c \in counts : \A d \in counts : c <= d
  BY <1>2, LeastNat
<1>4. PICK x \in S : c = Cardinality(above[x])
  OBVIOUS
<1>5. \A y \in S : x >= y
  <2>1. SUFFICES ASSUME NEW y \in S, y > x PROVE FALSE
    OBVIOUS
  <2>2. above[y] \in SUBSET above[x] /\ above[y] # above[x]
    <3>1. /\ above[x] = {z \in S : z > x} /\ above[y] = {z \in S : z > y}
          /\ x \in Int /\ y \in Int
      BY <1>4
    <3> HIDE DEF above, counts
    <3>2. ASSUME NEW z \in S, z > y PROVE z > x
      <4>1. z \in Int
        OBVIOUS
      <4> QED
        BY <2>1, <3>1, <3>2, <4>1
    <3>3. y \in above[x] /\ y \notin above[y]
      BY <2>1, <3>1
    <3> QED
      BY <3>1, <3>2, <3>3
  <2>3. Cardinality(above[y]) <= Cardinality(above[x]) /\ Cardinality(above[y]) # Cardinality(above[x])
    BY <1>1, <2>2, FS_Subset
  <2>4. c <= Cardinality(above[y])
    BY <1>3
  <2> QED
    BY <1>1, <1>4, <2>3, <2>4
<1> QED
  BY <1>5 DEF Max

LEMMA MinOfTwo ==
  ASSUME NEW a \in Int, NEW b \in Int
  PROVE  Min({a, b}) \in {a, b} /\ Min({a, b}) <= a /\ Min({a, b}) <= b
<1>1. \E x \in {a, b} : \A y \in {a, b} : x <= y
  <2>1. a <= b \/ b <= a
    OBVIOUS
  <2> QED
    BY <2>1
<1> QED
  BY <1>1 DEF Min

LEMMA MaxOfTwo ==
  ASSUME NEW a \in Int, NEW b \in Int
  PROVE  Max({a, b}) \in {a, b} /\ Max({a, b}) >= a /\ Max({a, b}) >= b
<1>1. \E x \in {a, b} : \A y \in {a, b} : x >= y
  <2>1. a >= b \/ b >= a
    OBVIOUS
  <2> QED
    BY <2>1
<1> QED
  BY <1>1 DEF Max

\* gcd divides both
LEMMA GcdDivides ==
  ASSUME NEW a \in Positive, NEW b \in Positive
  PROVE  /\ Gcd(a, b) \in Positive
         /\ a % Gcd(a, b) = 0 /\ b % Gcd(a, b) = 0
<1> DEFINE m == Min({a, b})
           D == {d \in 1 .. m : a % d = 0 /\ b % d = 0}
<1>1. a \in Int /\ b \in Int /\ m \in Positive
  <2>1. a \in Int /\ b \in Int
    BY DEF Positive
  <2>2. m \in {a, b}
    BY <2>1, MinOfTwo
  <2> QED
    BY <2>1, <2>2 DEF Positive
<1> HIDE DEF m
<1>2. 1 \in D
  BY <1>1 DEF Positive
<1>3. IsFiniteSet(D) /\ D \subseteq Int
  <2>1. IsFiniteSet(1 .. m)
    BY <1>1, FS_Interval DEF Positive
  <2>2. D \in SUBSET (1 .. m)
    OBVIOUS
  <2> QED
    BY <1>1, <2>1, <2>2, FS_Subset DEF Positive
<1> HIDE DEF D
<1>4. Max(D) \in D
  BY <1>2, <1>3, MaxOfFinite
<1>5. Gcd(a, b) = Max(D)
  BY DEF Gcd, D, m
<1> QED
  BY <1>1, <1>4, <1>5 DEF D, Positive

-----------------------------------------------------------------------------
(* Division and ratios *)

LEMMA TimesPositive ==
  ASSUME NEW a \in Positive, NEW b \in Positive
  PROVE  a * b \in Positive
<1>1. a \in Nat /\ b \in Nat /\ a >= 1 /\ b >= 1
  BY DEF Positive
<1>2. a * b \in Int /\ a * b >= a * 1
  BY <1>1
<1> QED
  BY <1>1, <1>2 DEF Positive

LEMMA Cancel ==
  ASSUME NEW k \in Positive, NEW a \in Int, NEW b \in Int
  PROVE  /\ k * a = k * b => a = b
         /\ k * a < k * b => a < b
<1>1. k \in Int /\ k >= 1
  BY DEF Positive
<1>2. ASSUME a < b PROVE k * a < k * b
  <2>1. b - a >= 1 /\ b - a \in Int
    BY <1>2
  <2>2. k * (b - a) >= k * 1
    BY <1>1, <2>1
  <2>3. k * (b - a) = k * b - k * a
    BY <1>1
  <2>4. k * a \in Int /\ k * b \in Int
    BY <1>1
  <2> QED
    BY <1>1, <2>2, <2>3, <2>4
<1>3. ASSUME b < a PROVE k * b < k * a
  <2>1. a - b >= 1 /\ a - b \in Int
    BY <1>3
  <2>2. k * (a - b) >= k * 1
    BY <1>1, <2>1
  <2>3. k * (a - b) = k * a - k * b
    BY <1>1
  <2>4. k * a \in Int /\ k * b \in Int
    BY <1>1
  <2> QED
    BY <1>1, <2>2, <2>3, <2>4
<1>4. k * a \in Int /\ k * b \in Int
  BY <1>1
<1> QED
  BY <1>2, <1>3, <1>4

\* An exact quotient
LEMMA DivExact ==
  ASSUME NEW a \in Int, NEW b \in Positive
  PROVE  (b * a) \div b = a
<1> DEFINE q == (b * a) \div b
<1>1. b \in Nat \ {0} /\ b * a \in Int
  BY DEF Positive
<1>2. q \in Int /\ b * q <= b * a /\ b * a < b * q + b
  BY <1>1
<1>3. b * (q + 1) = b * q + b
  BY <1>1, <1>2
<1> HIDE DEF q
<1>4. a < q + 1
  BY <1>1, <1>2, <1>3, Cancel
<1>5. ~(a < q)
  <2>1. SUFFICES ASSUME a < q PROVE FALSE
    OBVIOUS
  <2>2. q - a >= 1 /\ q - a \in Int
    BY <1>2, <2>1
  <2>3. b * (q - a) >= b * 1
    BY <1>1, <2>2
  <2>4. b * (q - a) = b * q - b * a
    BY <1>1, <1>2
  <2> QED
    BY <1>1, <1>2, <2>3, <2>4
<1>6. q = a
  BY <1>2, <1>4, <1>5
<1> QED
  BY <1>6 DEF q

LEMMA DivOfMultiple ==
  ASSUME NEW n \in Positive, NEW d \in Positive, n % d = 0
  PROVE  n \div d \in Positive /\ n = d * (n \div d)
<1>1. d \in Nat \ {0} /\ n \in Nat \ {0}
  BY DEF Positive
<1>2. n \div d \in Int /\ n = d * (n \div d)
  BY <1>1
<1>3. n \div d \in Nat
  BY <1>1, DivBounds
<1>4. n \div d # 0
  BY <1>1, <1>2
<1> QED
  BY <1>2, <1>3, <1>4 DEF Positive

\* A reduced ratio is the ratio.
LEMMA ReducedRatio ==
  ASSUME NEW n \in Positive, NEW d \in Positive
  PROVE  /\ Reduced(n, d) \in Ratios
         /\ Reduced(n, d)[1] \in Positive /\ Reduced(n, d)[2] \in Positive
         /\ \E g \in Positive : n = g * Reduced(n, d)[1] /\ d = g * Reduced(n, d)[2]
<1> DEFINE g == Gcd(n, d)
<1>1. g \in Positive /\ n % g = 0 /\ d % g = 0
  BY GcdDivides
<1> HIDE DEF g
<1>2. n \div g \in Positive /\ n = g * (n \div g) /\ d \div g \in Positive /\ d = g * (d \div g)
  BY <1>1, DivOfMultiple
<1>3. Reduced(n, d) = << n \div g, d \div g >>
  BY DEF Reduced, g
<1> QED
  BY <1>1, <1>2, <1>3 DEF Ratios

\* gst_util_uint64_scale_int of a natural number
LEMMA ScaledType ==
  ASSUME NEW v \in Nat, NEW n \in Nat, NEW d \in Positive
  PROVE  Scaled(v, n, d) \in Nat
<1>1. v * n \in Nat /\ d \in Nat \ {0}
  BY DEF Positive
<1> QED
  BY <1>1, DivBounds DEF Scaled

\* Two pairs in proportion to a third are in proportion to each other.
LEMMA Proportion ==
  ASSUME NEW w \in Positive, NEW h \in Positive, NEW k \in Positive, NEW g \in Positive,
         NEW a \in Positive, NEW b \in Positive, w * k = g * a, h * k = g * b
  PROVE  w * b = h * a
<1>1. /\ w \in Int /\ h \in Int /\ k \in Int /\ g \in Int /\ a \in Int /\ b \in Int
  BY DEF Positive
<1>2. k * (w * b) = (w * k) * b
  BY <1>1
<1>3. (w * k) * b = (g * a) * b
  OBVIOUS
<1>4. (g * a) * b = (g * b) * a
  BY <1>1
<1>5. (g * b) * a = (h * k) * a
  OBVIOUS
<1>6. (h * k) * a = k * (h * a)
  BY <1>1
<1>7. w * b \in Int /\ h * a \in Int /\ k * (w * b) = k * (h * a)
  BY <1>1, <1>2, <1>3, <1>4, <1>5, <1>6
<1> QED
  BY <1>7, Cancel

-----------------------------------------------------------------------------
(* The sizes *)

Info == [w : Positive, h : Positive, par : Ratios, alpha : BOOLEAN]

Pad == [xpos : Int, ypos : Int, width : Int, height : Int, alpha : {50, 100},
        policy : Policies, info : Infos \cup {NoInfo}]

Size4 == [w : Nat, h : Nat, xo : Nat, yo : Nat]

LEMMA RatioParts ==
  ASSUME NEW r \in Ratios
  PROVE  r[1] \in Positive /\ r[2] \in Positive /\ r = <<r[1], r[2]>>
BY DEF Ratios

\* A pad with caps has a size configured, by the application or by its frames.
LEMMA ConfiguredType ==
  ASSUME NEW pad \in Pad, pad.info # NoInfo, NEW z \in BOOLEAN
  PROVE  /\ pad.info \in Info
         /\ ConfiguredWidth(pad, z) \in Nat /\ ConfiguredHeight(pad, z) \in Nat
         /\ pad.width > 0 => ConfiguredWidth(pad, z) = pad.width
         /\ pad.height > 0 => ConfiguredHeight(pad, z) = pad.height
<1>1. pad.info \in Info /\ pad.width \in Int /\ pad.height \in Int
  BY PadsAssumption DEF PadsAssumption, Pad, Info
<1>2. pad.info.w \in Nat /\ pad.info.h \in Nat
  BY <1>1 DEF Info, Positive
<1> QED
  BY <1>1, <1>2 DEF ConfiguredWidth, ConfiguredHeight, Unset

\* Policy none: the ratio of the frame, and for square pixels the size configured.
LEMMA DisplaySizeFacts ==
  ASSUME NEW w \in Positive, NEW h \in Positive, NEW par \in Ratios, NEW outPar \in Ratios
  PROVE  /\ DisplaySize(w, h, par, outPar) \in Size4
         /\ par = outPar => DisplaySize(w, h, par, outPar) = Unpadded(w, h)
<1> DEFINE n == w * par[1] * outPar[2]
           d == h * par[2] * outPar[1]
           dar == Reduced(n, d)
<1>1. /\ par[1] \in Positive /\ par[2] \in Positive
      /\ outPar[1] \in Positive /\ outPar[2] \in Positive
  BY RatioParts
<1>2. n \in Positive /\ d \in Positive
  BY <1>1, TimesPositive
<1>3. PICK g \in Positive : n = g * dar[1] /\ d = g * dar[2]
  BY <1>2, ReducedRatio
<1>4. dar[1] \in Positive /\ dar[2] \in Positive
  BY <1>2, ReducedRatio
<1>5. DisplaySize(w, h, par, outPar) =
        IF h % dar[1] # 0 /\ w % dar[2] = 0
          THEN Unpadded(w, Scaled(w, dar[2], dar[1]))
          ELSE Unpadded(Scaled(h, dar[1], dar[2]), h)
  BY DEF DisplaySize
<1>6. Scaled(w, dar[2], dar[1]) \in Nat /\ Scaled(h, dar[1], dar[2]) \in Nat
  <2> HIDE DEF dar
  <2>1. w \in Nat /\ h \in Nat /\ dar[1] \in Nat /\ dar[2] \in Nat
    BY <1>4 DEF Positive
  <2> QED
    BY <1>4, <2>1, ScaledType
<1>7. DisplaySize(w, h, par, outPar) \in Size4
  <2>1. \A a, b \in Nat : Unpadded(a, b) \in Size4
    BY DEF Unpadded, Size4
  <2>2. w \in Nat /\ h \in Nat
    BY DEF Positive
  <2> HIDE DEF dar
  <2> QED
    BY <1>5, <1>6, <2>1, <2>2
<1>8. ASSUME par = outPar PROVE DisplaySize(w, h, par, outPar) = Unpadded(w, h)
  <2> DEFINE k == par[1] * par[2]
  <2>1. k \in Positive /\ w \in Int /\ h \in Int /\ par[1] \in Int /\ par[2] \in Int
    BY <1>1, TimesPositive DEF Positive
  <2>2. n = w * k /\ d = h * k
    BY <1>8, <2>1
  <2> HIDE DEF n, d, k, dar
  <2>3. w * k = g * dar[1] /\ h * k = g * dar[2]
    BY <1>3, <2>2
  <2>4. w * dar[2] = h * dar[1]
    <3> DEFINE a == dar[1]
               b == dar[2]
    <3>1. a \in Positive /\ b \in Positive /\ w * k = g * a /\ h * k = g * b
      BY <1>4, <2>3
    <3> HIDE DEF a, b
    <3>2. w * b = h * a
      BY <2>1, <3>1, Proportion
    <3> QED
      BY <3>2 DEF a, b
  <2>5. dar[1] \in Int /\ dar[2] \in Int
    BY <1>4 DEF Positive
  <2>6. Scaled(w, dar[2], dar[1]) = h
    <3>1. w * dar[2] = dar[1] * h
      BY <2>1, <2>4, <2>5
    <3>2. (dar[1] * h) \div dar[1] = h
      BY <1>4, <2>1, DivExact
    <3> QED
      BY <3>1, <3>2 DEF Scaled
  <2>7. Scaled(h, dar[1], dar[2]) = w
    <3>1. h * dar[1] = dar[2] * w
      BY <2>1, <2>4, <2>5
    <3>2. (dar[2] * w) \div dar[2] = w
      BY <1>4, <2>1, DivExact
    <3> QED
      BY <3>1, <3>2 DEF Scaled
  <2> QED
    BY <1>5, <2>6, <2>7
<1> QED
  BY <1>7, <1>8

\* Policy keep-aspect-ratio: no size, or one inside the size configured that touches
\* two opposite sides of it and is centred to one pixel.
LEMMA AspectSizeFacts ==
  ASSUME NEW w \in Positive, NEW h \in Positive, NEW info \in Info, NEW outPar \in Ratios,
         NEW s, s = AspectSize(w, h, info, outPar)
  PROVE  /\ s \in Size4
         /\ s.w # 0 => /\ s.w = w \/ s.h = h
                       /\ w - s.w - 2 * s.xo \in 0 .. 1
                       /\ h - s.h - 2 * s.yo \in 0 .. 1
<1> DEFINE from == Reduced(info.w * info.par[1], info.h * info.par[2])
           to   == Reduced(w * outPar[1], h * outPar[2])
           r    == Reduced(from[1] * outPar[2], from[2] * outPar[1])
           srcH == Scaled(w, r[2], r[1])
<1>1. /\ info.w \in Positive /\ info.h \in Positive
      /\ info.par[1] \in Positive /\ info.par[2] \in Positive
      /\ outPar[1] \in Positive /\ outPar[2] \in Positive
  BY RatioParts DEF Info
<1>2. from[1] \in Positive /\ from[2] \in Positive
  <2>1. info.w * info.par[1] \in Positive /\ info.h * info.par[2] \in Positive
    BY <1>1, TimesPositive
  <2> QED
    BY <2>1, ReducedRatio
<1>3. srcH \in Nat
  <2> HIDE DEF from
  <2>1. from[1] * outPar[2] \in Positive /\ from[2] * outPar[1] \in Positive
    BY <1>1, <1>2, TimesPositive
  <2>2. r[1] \in Positive /\ r[2] \in Positive
    BY <2>1, ReducedRatio
  <2> HIDE DEF r
  <2>3. w \in Nat /\ r[2] \in Nat
    BY <2>2 DEF Positive
  <2> QED
    BY <2>2, <2>3, ScaledType
<1>4. s = CASE from = to              -> Unpadded(w, h)
            [] from # to /\ srcH = 0  -> NoSize
            [] OTHER                  -> CenterRect(w, srcH, w, h)
  BY DEF AspectSize
<1> HIDE DEF from, to, r, srcH
<1>5. w \in Nat /\ h \in Nat
  BY DEF Positive
<1>6. CASE from = to
  <2>1. s = [w |-> w, h |-> h, xo |-> 0, yo |-> 0]
    BY <1>4, <1>6 DEF Unpadded
  <2> QED
    BY <1>5, <2>1 DEF Size4
<1>7. CASE from # to /\ srcH = 0
  <2>1. s = [w |-> 0, h |-> 0, xo |-> 0, yo |-> 0]
    BY <1>4, <1>7 DEF NoSize
  <2> QED
    BY <2>1 DEF Size4
<1>8. CASE from # to /\ srcH # 0
  <2>1. s = CenterRect(w, srcH, w, h)
    BY <1>4, <1>8
  <2>2. srcH \in Nat \ {0} /\ w \in Nat \ {0} /\ h \in Nat \ {0}
    BY <1>3, <1>8 DEF Positive
  <2>3. /\ s.w \in 0 .. w /\ s.h \in 0 .. h
        /\ s.w = w \/ s.h = h
        /\ s.xo >= 0 /\ w - s.w - 2 * s.xo \in 0 .. 1
        /\ s.yo >= 0 /\ h - s.h - 2 * s.yo \in 0 .. 1
    <3> DEFINE c == CenterRect(w, srcH, w, h)
    <3>1. /\ c.w \in 0 .. w /\ c.h \in 0 .. h
          /\ c.w = w \/ c.h = h
          /\ c.xo >= 0 /\ w - c.w - 2 * c.xo \in 0 .. 1
          /\ c.yo >= 0 /\ h - c.h - 2 * c.yo \in 0 .. 1
      BY <2>2, CenterRectInside, ZenonT(30)
    <3> QED
      BY <2>1, <3>1
  <2>4. s.xo \in Int /\ s.yo \in Int
    <3> DEFINE cw == IF w * h < w * srcH THEN Scaled(h, w, srcH) ELSE w
               ch == IF w * h > w * srcH THEN Scaled(w, srcH, w) ELSE h
    <3>1. s = [w |-> cw, h |-> ch, xo |-> (w - cw) \div 2, yo |-> (h - ch) \div 2]
      BY <2>1 DEF CenterRect
    <3> HIDE DEF cw, ch
    <3>2. cw \in Int /\ ch \in Int
      BY <1>5, <2>3, <3>1
    <3> QED
      BY <1>5, <3>1, <3>2
  <2>5. s \in Size4
    <3>1. DOMAIN s = {"w", "h", "xo", "yo"} /\ s = [w |-> s.w, h |-> s.h, xo |-> s.xo, yo |-> s.yo]
      BY <2>1 DEF CenterRect
    <3>2. s.w \in Nat /\ s.h \in Nat /\ s.xo \in Nat /\ s.yo \in Nat
      BY <1>5, <2>3, <2>4
    <3> QED
      BY <3>1, <3>2 DEF Size4
  <2> QED
    BY <2>3, <2>5
<1> QED
  BY <1>6, <1>7, <1>8

\* The size of any pad, and what it has to do with the size configured.
LEMMA OutputSizeFacts ==
  ASSUME NEW pad \in Pad, NEW outPar \in Ratios, NEW z \in BOOLEAN,
         NEW s, s = OutputSize(pad, outPar, z),
         NEW w, w = ConfiguredWidth(pad, z), NEW h, h = ConfiguredHeight(pad, z)
  PROVE  /\ s \in Size4
         /\ s.w # 0 /\ s.h # 0 =>
              /\ pad.info # NoInfo
              /\ IF pad.policy = "keep-aspect-ratio"
                 THEN /\ s.w = w \/ s.h = h
                      /\ w - s.w - 2 * s.xo \in 0 .. 1
                      /\ h - s.h - 2 * s.yo \in 0 .. 1
                 ELSE pad.info.par = outPar => s = Unpadded(w, h)
<1>0. NoSize \in Size4 /\ NoSize.w = 0
  BY DEF NoSize, Size4
<1>1. CASE pad.info = NoInfo
  <2>1. s = NoSize
    BY <1>1 DEF OutputSize
  <2> QED
    BY <1>0, <2>1
<1>2. CASE pad.info # NoInfo /\ (w = 0 \/ h = 0)
  <2>1. s = NoSize
    BY <1>2 DEF OutputSize
  <2> QED
    BY <1>0, <2>1
<1>3. CASE pad.info # NoInfo /\ w # 0 /\ h # 0
  <2>1. w \in Positive /\ h \in Positive /\ pad.info \in Info /\ pad.info.par \in Ratios
    BY <1>3, ConfiguredType DEF Positive, Info
  <2>2. pad.policy \in {"none", "keep-aspect-ratio"}
    BY DEF Pad, Policies
  <2>3. CASE pad.policy = "none"
    <3>1. s = DisplaySize(w, h, pad.info.par, outPar)
      BY <1>3, <2>3 DEF OutputSize
    <3> QED
      BY <1>3, <2>1, <2>3, <3>1, DisplaySizeFacts
  <2>4. CASE pad.policy = "keep-aspect-ratio"
    <3>1. s = AspectSize(w, h, pad.info, outPar)
      BY <1>3, <2>4 DEF OutputSize
    <3> QED
      BY <1>3, <2>1, <2>4, <3>1, AspectSizeFacts
  <2> QED
    BY <2>2, <2>3, <2>4
<1> QED
  BY <1>1, <1>2, <1>3

-----------------------------------------------------------------------------
(* The output chosen for the pads *)

LEMMA ImageFinite ==
  ASSUME NEW S, IsFiniteSet(S), NEW f, f = [x \in S |-> f[x]]
  PROVE  IsFiniteSet({f[x] : x \in S})
<1> DEFINE T == {f[x] : x \in S}
<1>1. f \in [S -> T]
  OBVIOUS
<1>2. f \in Surjection(S, T)
  BY <1>1 DEF Surjection
<1> QED
  BY <1>2, FS_Surjection

\* The greatest of -1 and what each pad asks for.
LEMMA Asked ==
  ASSUME NEW S, IsFiniteSet(S), NEW f, f = [y \in S |-> f[y]], (\A x \in S : f[x] \in Int)
  PROVE  /\ Max({-1} \cup {f[y] : y \in S}) \in Int
         /\ \A x \in S : Max({-1} \cup {f[y] : y \in S}) >= f[x]
<1> DEFINE T == {f[x] : x \in S}
           U == {-1} \cup T
<1>1. IsFiniteSet(T)
  BY ImageFinite
<1>2. T \subseteq Int
  OBVIOUS
<1> HIDE DEF T
<1>3. U = T \cup {-1}
  OBVIOUS
<1>4. IsFiniteSet(U) /\ U \subseteq Int /\ U # {}
  <2>1. IsFiniteSet(T \cup {-1})
    BY <1>1, FS_AddElement
  <2> QED
    BY <1>2, <1>3, <2>1
<1> HIDE DEF U
<1>5. Max(U) \in U /\ \A y \in U : Max(U) >= y
  BY <1>4, MaxOfFinite
<1>6. \A x \in S : f[x] \in U
  BY DEF U, T
<1>7. Max(U) \in Int /\ \A x \in S : Max(U) >= f[x]
  BY <1>4, <1>5, <1>6
<1> QED
  BY <1>7 DEF U, T

LEMMA FixatedBounds ==
  ASSUME NEW known \in SUBSET Pad, IsFiniteSet(known), NEW outPar \in Ratios, NEW z \in BOOLEAN
  PROVE  /\ FixatedWidth(known, outPar, z) \in Int
         /\ FixatedHeight(known, outPar, z) \in Int
         /\ \A p \in PositiveSized(known, outPar, z) :
              LET s == OutputSize(p, outPar, z)
              IN  /\ FixatedWidth(known, outPar, z) >= s.w + Max({p.xpos + 2 * s.xo, 0})
                  /\ FixatedHeight(known, outPar, z) >= s.h + Max({p.ypos + 2 * s.yo, 0})
<1> DEFINE S == PositiveSized(known, outPar, z)
           size(p) == OutputSize(p, outPar, z)
           f == [p \in S |-> size(p).w + Max({p.xpos + 2 * size(p).xo, 0})]
           g == [p \in S |-> size(p).h + Max({p.ypos + 2 * size(p).yo, 0})]
<1>1. S \in SUBSET known
  BY DEF PositiveSized
<1>2. IsFiniteSet(S)
  BY <1>1, FS_Subset
<1>3. \A p \in S : f[p] \in Int /\ g[p] \in Int
  <2>1. TAKE p \in S
  <2>2. p \in Pad /\ size(p) \in Size4
    BY <1>1, OutputSizeFacts
  <2>3. p.xpos + 2 * size(p).xo \in Int /\ p.ypos + 2 * size(p).yo \in Int
    BY <2>2 DEF Pad, Size4
  <2>4. \A x \in Int : Max({x, 0}) \in Int
    <3>1. TAKE x \in Int
    <3>2. Max({x, 0}) \in {x, 0}
      BY MaxOfTwo
    <3> QED
      BY <3>2
  <2>5. size(p).w \in Int /\ size(p).h \in Int
    BY <2>2 DEF Size4
  <2> QED
    BY <2>3, <2>4, <2>5
<1>4. /\ FixatedWidth(known, outPar, z) = Max({-1} \cup {f[p] : p \in S})
      /\ FixatedHeight(known, outPar, z) = Max({-1} \cup {g[p] : p \in S})
  <2>1. /\ {f[p] : p \in S} = {size(p).w + Max({p.xpos + 2 * size(p).xo, 0}) : p \in S}
        /\ {g[p] : p \in S} = {size(p).h + Max({p.ypos + 2 * size(p).yo, 0}) : p \in S}
    OBVIOUS
  <2> QED
    BY <2>1, Zenon DEF FixatedWidth, FixatedHeight
<1>5. /\ \A p \in S : f[p] = size(p).w + Max({p.xpos + 2 * size(p).xo, 0})
      /\ \A p \in S : g[p] = size(p).h + Max({p.ypos + 2 * size(p).yo, 0})
      /\ f = [p \in S |-> f[p]] /\ g = [p \in S |-> g[p]]
  OBVIOUS
<1> HIDE DEF S, f, g
<1>6. /\ FixatedWidth(known, outPar, z) \in Int
      /\ \A p \in S : FixatedWidth(known, outPar, z) >= f[p]
  BY <1>2, <1>3, <1>4, <1>5, Asked
<1>7. /\ FixatedHeight(known, outPar, z) \in Int
      /\ \A p \in S : FixatedHeight(known, outPar, z) >= g[p]
  BY <1>2, <1>3, <1>4, <1>5, Asked
<1> QED
  BY <1>5, <1>6, <1>7 DEF S

-----------------------------------------------------------------------------
(* The types *)

PadsInv ==
  /\ pads \in [PadIds -> Pad \cup {Absent}]
  /\ TypeOK

LEMMA PresentPad ==
  ASSUME PadsInv, NEW p \in Present
  PROVE  pads[p] \in Pad /\ p \in PadIds
BY DEF PadsInv, TypeOK, Present, Pad

\* The pads that exist, as _fixate_caps counts them
LEMMA KnownFinite ==
  ASSUME PadsInv
  PROVE  {pads[p] : p \in Present} \in SUBSET Pad /\ IsFiniteSet({pads[p] : p \in Present})
<1>1. IsFiniteSet(Present)
  <2>1. Present \in SUBSET PadIds
    BY DEF Present
  <2> QED
    BY <2>1, FS_Subset, PadsAssumption DEF PadsAssumption
<1> DEFINE f == [p \in Present |-> pads[p]]
<1>2. IsFiniteSet({f[p] : p \in Present})
  <2>1. f = [p \in Present |-> f[p]]
    OBVIOUS
  <2> HIDE DEF f
  <2> QED
    BY <1>1, <2>1, ImageFinite
<1>3. {f[p] : p \in Present} = {pads[p] : p \in Present}
  OBVIOUS
<1> QED
  BY <1>2, <1>3, PresentPad

LEMMA FixateType ==
  ASSUME PadsInv, NEW par \in OutPars
  PROVE  /\ Fixate(par) \in [w : Positive, h : Positive, par : OutPars]
         /\ Fixate(par).w >= FixatedWidth({pads[p] : p \in Present}, par, zero)
         /\ Fixate(par).h >= FixatedHeight({pads[p] : p \in Present}, par, zero)
<1> DEFINE known == {pads[p] : p \in Present}
           w == FixatedWidth(known, par, zero)
           h == FixatedHeight(known, par, zero)
<1>1. w \in Int /\ h \in Int
  <2>1. known \in SUBSET Pad /\ IsFiniteSet(known) /\ par \in Ratios /\ zero \in BOOLEAN
    BY KnownFinite, PadsAssumption DEF PadsAssumption, PadsInv, TypeOK
  <2> HIDE DEF known
  <2> QED
    BY <2>1, FixatedBounds
<1>2. Fixate(par) = [w |-> Max({1, w}), h |-> Max({1, h}), par |-> par]
  BY DEF Fixate
<1> HIDE DEF w, h
<1>3. \A x \in Int : Max({1, x}) \in Positive /\ Max({1, x}) >= x
  <2>1. TAKE x \in Int
  <2>2. Max({1, x}) \in {1, x} /\ Max({1, x}) >= 1 /\ Max({1, x}) >= x
    <3>1. 1 \in Int
      OBVIOUS
    <3> QED
      BY <3>1, MaxOfTwo, Zenon
  <2> QED
    BY <2>2 DEF Positive
<1>4. Fixate(par).w >= w /\ Fixate(par).h >= h
  BY <1>1, <1>2, <1>3
<1>5. Fixate(par) \in [w : Positive, h : Positive, par : OutPars]
  BY <1>1, <1>2, <1>3
<1> QED
  BY <1>4, <1>5 DEF w, h

LEMMA PadsInit == Init => PadsInv
<1> SUFFICES ASSUME Init PROVE PadsInv
  OBVIOUS
<1>1. pads \in [PadIds -> Pad \cup {Absent}] /\ Present = {}
  BY DEF Init, Present
<1>2. out \in [w : Positive, h : Positive, par : OutPars]
  <2>1. PICK s \in OutSizes, par \in OutPars : out = [w |-> s[1], h |-> s[2], par |-> par]
    BY DEF Init
  <2>2. s[1] \in Positive /\ s[2] \in Positive
    BY PadsAssumption DEF PadsAssumption
  <2> QED
    BY <2>1, <2>2
<1>3. changes \in 0 .. MaxChanges /\ zero \in BOOLEAN
  BY PadsAssumption DEF PadsAssumption, Init
<1> QED
  BY <1>1, <1>2, <1>3 DEF PadsInv, TypeOK

\* Replacing the record of one pad by another
LEMMA PadReplaced ==
  ASSUME PadsInv, NEW p \in PadIds, NEW new \in Pad \cup {Absent},
         pads' = [pads EXCEPT ![p] = new], UNCHANGED << zero, out >>,
         changes' \in 0 .. MaxChanges
  PROVE  PadsInv'
<1>1. pads' \in [PadIds -> Pad \cup {Absent}]
  BY DEF PadsInv
<1>2. \A q \in Present' : pads'[q] \in Pad
  BY <1>1 DEF Present
<1> QED
  BY <1>1, <1>2 DEF PadsInv, TypeOK, Pad

LEMMA PadsStep == PadsInv /\ [Next]_vars => PadsInv'
<1> SUFFICES ASSUME PadsInv, [Next]_vars PROVE PadsInv'
  OBVIOUS
<1>0. /\ changes \in 0 .. MaxChanges
      /\ Change => changes' \in 0 .. MaxChanges
  BY PadsAssumption DEF PadsAssumption, PadsInv, TypeOK, Change
<1>1. ASSUME NEW p \in PadIds, NEW info \in Infos \cup {NoInfo}, RequestPad(p, info)
      PROVE  PadsInv'
  <2> DEFINE new == [DefaultPad EXCEPT !.info = info]
  <2>1. new \in Pad
    BY DEF DefaultPad, Pad, Policies
  <2>2. pads' = [pads EXCEPT ![p] = new] /\ UNCHANGED << zero, out, changes >>
    BY <1>1 DEF RequestPad
  <2> HIDE DEF new
  <2> QED
    BY <1>0, <2>1, <2>2, PadReplaced
<1>2. ASSUME NEW p \in PadIds, NEW info \in Infos \cup {NoInfo}, SetCaps(p, info)
      PROVE  PadsInv'
  <2> DEFINE new == [pads[p] EXCEPT !.info = info]
  <2>1. pads[p] \in Pad
    BY <1>2, PresentPad DEF SetCaps
  <2>2. new \in Pad
    BY <2>1 DEF Pad
  <2>3. pads' = [pads EXCEPT ![p] = new] /\ UNCHANGED << zero, out >>
    BY <1>2 DEF SetCaps
  <2> HIDE DEF new
  <2> QED
    BY <1>0, <1>2, <2>2, <2>3, PadReplaced DEF SetCaps
<1>3. ASSUME NEW p \in PadIds, ReleasePad(p) PROVE PadsInv'
  BY <1>0, <1>3, PadReplaced DEF ReleasePad
<1>4. ASSUME NEW p \in PadIds, SetPadProperty(p) PROVE PadsInv'
  <2>1. pads[p] \in Pad
    BY <1>4, PresentPad DEF SetPadProperty
  <2>2. PICK new \in Pad : pads' = [pads EXCEPT ![p] = new]
    <3>1. CASE \E v \in Positions : pads' = [pads EXCEPT ![p].xpos = v]
      <4>1. PICK v \in Positions : pads' = [pads EXCEPT ![p] = [pads[p] EXCEPT !.xpos = v]]
        BY <3>1
      <4>2. [pads[p] EXCEPT !.xpos = v] \in Pad
        BY <2>1, PadsAssumption DEF PadsAssumption, Pad
      <4> QED
        BY <4>1, <4>2
    <3>2. CASE \E v \in Widths : pads' = [pads EXCEPT ![p].width = v]
      <4>1. PICK v \in Widths : pads' = [pads EXCEPT ![p] = [pads[p] EXCEPT !.width = v]]
        BY <3>2
      <4>2. [pads[p] EXCEPT !.width = v] \in Pad
        BY <2>1, PadsAssumption DEF PadsAssumption, Pad
      <4> QED
        BY <4>1, <4>2
    <3>3. CASE \E v \in Heights : pads' = [pads EXCEPT ![p].height = v]
      <4>1. PICK v \in Heights : pads' = [pads EXCEPT ![p] = [pads[p] EXCEPT !.height = v]]
        BY <3>3
      <4>2. [pads[p] EXCEPT !.height = v] \in Pad
        BY <2>1, PadsAssumption DEF PadsAssumption, Pad
      <4> QED
        BY <4>1, <4>2
    <3>4. CASE \E v \in Policies : pads' = [pads EXCEPT ![p].policy = v]
      <4>1. PICK v \in Policies : pads' = [pads EXCEPT ![p] = [pads[p] EXCEPT !.policy = v]]
        BY <3>4
      <4>2. [pads[p] EXCEPT !.policy = v] \in Pad
        BY <2>1 DEF Pad
      <4> QED
        BY <4>1, <4>2
    <3>5. CASE \E v \in {50} : pads' = [pads EXCEPT ![p].alpha = v]
      <4>1. pads' = [pads EXCEPT ![p] = [pads[p] EXCEPT !.alpha = 50]]
        BY <3>5
      <4>2. [pads[p] EXCEPT !.alpha = 50] \in Pad
        BY <2>1 DEF Pad
      <4> QED
        BY <4>1, <4>2
    <3> QED
      BY <1>4, <3>1, <3>2, <3>3, <3>4, <3>5 DEF SetPadProperty
  <2>3. UNCHANGED << zero, out >> /\ changes' \in 0 .. MaxChanges
    BY <1>0, <1>4 DEF SetPadProperty
  <2> QED
    BY <2>2, <2>3, PadReplaced
<1>5. ASSUME SetZeroSizeIsUnscaled PROVE PadsInv'
  BY <1>0, <1>5 DEF SetZeroSizeIsUnscaled, PadsInv, TypeOK, Present
<1>6. ASSUME NEW par \in OutPars, Negotiate(par) PROVE PadsInv'
  <2>1. out' \in [w : Positive, h : Positive, par : OutPars]
    <3>1. CASE out' = Fixate(par)
      BY <3>1, FixateType
    <3>2. ASSUME NEW s \in OutSizes, out' = [w |-> s[1], h |-> s[2], par |-> par]
          PROVE  out' \in [w : Positive, h : Positive, par : OutPars]
      <4>1. s[1] \in Positive /\ s[2] \in Positive
        BY PadsAssumption DEF PadsAssumption
      <4> QED
        BY <3>2, <4>1
    <3> QED
      BY <1>6, <3>1, <3>2 DEF Negotiate
  <2> QED
    BY <1>6, <2>1 DEF Negotiate, PadsInv, TypeOK, Present
<1>7. CASE UNCHANGED vars
  BY <1>7 DEF vars, PadsInv, TypeOK, Present
<1> QED
  BY <1>1, <1>2, <1>3, <1>4, <1>5, <1>6, <1>7 DEF Next

LEMMA PadsInvariant == Spec => []PadsInv
BY PadsInit, PadsStep, PTL DEF Spec

(***************************************************************************)
(* Whatever the application sets, the output negotiated has a size, also   *)
(* without pads, with pads that have no caps and with pads of size zero.   *)
(***************************************************************************)
THEOREM TypeCorrect == Spec => []TypeOK
<1>1. PadsInv => TypeOK
  BY DEF PadsInv
<1> QED
  BY <1>1, PadsInvariant, PTL

(***************************************************************************)
(* The properties: each follows from the types and from the lemmas about   *)
(* the size, so that they hold for any number of pads, any properties and  *)
(* any sizes.                                                              *)
(***************************************************************************)

\* A pad that has a size, and where it is placed
LEMMA DrawableFacts ==
  ASSUME PadsInv, NEW p \in Drawable
  PROVE  /\ pads[p] \in Pad /\ pads[p].info \in Info /\ pads[p].info # NoInfo
         /\ Size(p) \in Size4 /\ Size(p).w # 0 /\ Size(p).h # 0
         /\ out.par \in Ratios /\ out.par \in OutPars /\ zero \in BOOLEAN
         /\ out.w \in Nat /\ out.h \in Nat
         /\ IF pads[p].policy = "keep-aspect-ratio"
            THEN /\ Size(p).w = ConfiguredWidth(pads[p], zero) \/ Size(p).h = ConfiguredHeight(pads[p], zero)
                 /\ ConfiguredWidth(pads[p], zero) - Size(p).w - 2 * Size(p).xo \in 0 .. 1
                 /\ ConfiguredHeight(pads[p], zero) - Size(p).h - 2 * Size(p).yo \in 0 .. 1
            ELSE SquarePixels(p) =>
                   Size(p) = Unpadded(ConfiguredWidth(pads[p], zero), ConfiguredHeight(pads[p], zero))
         /\ Placed(p) = Rect(pads[p].xpos + Size(p).xo, pads[p].ypos + Size(p).yo, Size(p).w, Size(p).h)
<1>1. /\ p \in Present /\ Size(p).w # 0 /\ Size(p).h # 0
  BY DEF Drawable
<1>2. pads[p] \in Pad
  BY <1>1, PresentPad
<1>3. /\ out.par \in Ratios /\ out.par \in OutPars /\ zero \in BOOLEAN
      /\ out.w \in Nat /\ out.h \in Nat
  BY PadsAssumption DEF PadsAssumption, PadsInv, TypeOK, Positive
<1>4. Size(p) = OutputSize(pads[p], out.par, zero)
  BY DEF Size
<1> DEFINE s == Size(p)
           w == ConfiguredWidth(pads[p], zero)
           h == ConfiguredHeight(pads[p], zero)
<1>5. /\ s \in Size4
      /\ pads[p].info # NoInfo
      /\ IF pads[p].policy = "keep-aspect-ratio"
         THEN /\ s.w = w \/ s.h = h
              /\ w - s.w - 2 * s.xo \in 0 .. 1
              /\ h - s.h - 2 * s.yo \in 0 .. 1
         ELSE pads[p].info.par = out.par => s = Unpadded(w, h)
  BY <1>1, <1>2, <1>3, <1>4, OutputSizeFacts
<1>6. pads[p].info \in Info
  BY <1>2, <1>3, <1>5, ConfiguredType
<1> QED
  BY <1>1, <1>2, <1>3, <1>5, <1>6 DEF SquarePixels, Placed, PlacedRect

(***************************************************************************)
(* The clamped rectangle is the visible part of the image.                 *)
(***************************************************************************)
THEOREM ClampShowsVisible == Spec => []ClampIsIntersection
<1>1. ASSUME PadsInv PROVE ClampIsIntersection
  <2> SUFFICES ASSUME NEW p \in Drawable
               PROVE  Pixels(ClampRectangle(Placed(p), out.w, out.h))
                        = Pixels(Placed(p)) \cap Pixels(Output)
    BY DEF ClampIsIntersection
  <2>1. Placed(p) \in Rects /\ out.w \in Nat /\ out.h \in Nat
    BY <1>1, DrawableFacts DEF Rect, Rects, Pad, Size4
  <2> QED
    BY <2>1, ClampRectangleIntersects DEF Output
<1> QED
  BY <1>1, PadsInvariant, PTL

(***************************************************************************)
(* An image stays inside the rectangle configured, for every aspect ratio  *)
(* and every rounding of it.                                               *)
(***************************************************************************)
THEOREM PolicyHonoured == Spec => []SizeHonoursPolicy
<1>1. ASSUME PadsInv PROVE SizeHonoursPolicy
  <2> SUFFICES ASSUME NEW p \in Drawable
               PROVE  IF pads[p].policy = "keep-aspect-ratio"
                      THEN /\ \/ Size(p).w = ConfiguredWidth(pads[p], zero)
                              \/ Size(p).h = ConfiguredHeight(pads[p], zero)
                           /\ Size(p).xo >= 0
                           /\ ConfiguredWidth(pads[p], zero) - Size(p).w - 2 * Size(p).xo \in 0 .. 1
                           /\ Size(p).yo >= 0
                           /\ ConfiguredHeight(pads[p], zero) - Size(p).h - 2 * Size(p).yo \in 0 .. 1
                      ELSE SquarePixels(p) =>
                             Size(p) = Unpadded(ConfiguredWidth(pads[p], zero),
                                                ConfiguredHeight(pads[p], zero))
    BY DEF SizeHonoursPolicy
  <2>1. Size(p).xo >= 0 /\ Size(p).yo >= 0
    BY <1>1, DrawableFacts DEF Size4
  <2> QED
    BY <1>1, <2>1, DrawableFacts
<1> QED
  BY <1>1, PadsInvariant, PTL

\* The rectangle drawn is the rectangle configured, or as large as the image.
LEMMA BlitFacts ==
  ASSUME PadsInv, NEW p \in Drawable
  PROVE  /\ Blit(p) = Rect(pads[p].xpos, pads[p].ypos,
                           IF pads[p].width > 0 THEN pads[p].width ELSE Size(p).w,
                           IF pads[p].height > 0 THEN pads[p].height ELSE Size(p).h)
         /\ pads[p].width > 0 => ConfiguredWidth(pads[p], zero) = pads[p].width
         /\ pads[p].height > 0 => ConfiguredHeight(pads[p], zero) = pads[p].height
<1>1. pads[p] \in Pad /\ pads[p].info # NoInfo /\ zero \in BOOLEAN
  BY DrawableFacts
<1>2. /\ pads[p].width > 0 => ConfiguredWidth(pads[p], zero) = pads[p].width
      /\ pads[p].height > 0 => ConfiguredHeight(pads[p], zero) = pads[p].height
  BY <1>1, ConfiguredType
<1> QED
  BY <1>2 DEF Blit, BlitRect, ConversionSize, Size

(***************************************************************************)
(* What is taken for hidden is behind pixels the hiding pad is drawn on.   *)
(***************************************************************************)
THEOREM HidingIsDrawn == Spec => []ObscuringIsDrawn
<1>1. ASSUME PadsInv PROVE ObscuringIsDrawn
  <2> SUFFICES ASSUME NEW p \in Drawable, NEW q \in Drawable,
                      NEW rect, rect = ClampRectangle(Placed(p), out.w, out.h),
                      PadObscuresRectangle(pads[q], TRUE, rect, out.par, zero),
                      IF pads[q].policy = "keep-aspect-ratio"
                      THEN pads[q].width > 0 /\ pads[q].height > 0
                      ELSE SquarePixels(q)
               PROVE  IsRectangleContained(rect, Blit(q))
    BY DEF ObscuringIsDrawn
  <2> DEFINE s == Size(q)
             w == ConfiguredWidth(pads[q], zero)
             h == ConfiguredHeight(pads[q], zero)
             b == Blit(q)
  <2>1. IsRectangleContained(rect, Placed(q))
    BY DEF PadObscuresRectangle, Placed, Size
  <2>2. /\ s \in Size4 /\ pads[q] \in Pad
        /\ Placed(q) = Rect(pads[q].xpos + s.xo, pads[q].ypos + s.yo, s.w, s.h)
    BY <1>1, DrawableFacts
  <2>3. /\ s.w \in Int /\ s.h \in Int /\ s.xo \in Nat /\ s.yo \in Nat
        /\ pads[q].xpos \in Int /\ pads[q].ypos \in Int
        /\ pads[q].width \in Int /\ pads[q].height \in Int
    BY <2>2 DEF Size4, Pad
  <2>4. rect.x \in Int /\ rect.y \in Int /\ rect.w \in Int /\ rect.h \in Int
    <3>1. Placed(p) \in Rects /\ out.w \in Nat /\ out.h \in Nat
      BY <1>1, DrawableFacts DEF Rect, Rects, Pad, Size4
    <3> QED
      BY <3>1 DEF ClampRectangle, Clamp, Rect, Rects
  <2>5. /\ b.x = pads[q].xpos /\ b.y = pads[q].ypos
        /\ b.w = (IF pads[q].width > 0 THEN pads[q].width ELSE s.w)
        /\ b.h = (IF pads[q].height > 0 THEN pads[q].height ELSE s.h)
        /\ pads[q].width > 0 => w = pads[q].width
        /\ pads[q].height > 0 => h = pads[q].height
    BY <1>1, BlitFacts DEF Rect
  <2>6. /\ pads[q].xpos + s.xo <= rect.x /\ pads[q].ypos + s.yo <= rect.y
        /\ pads[q].xpos + s.xo + s.w >= rect.x + rect.w
        /\ pads[q].ypos + s.yo + s.h >= rect.y + rect.h
    BY <2>1, <2>2 DEF IsRectangleContained, Rect
  <2>7. /\ b.x <= pads[q].xpos + s.xo /\ b.y <= pads[q].ypos + s.yo
        /\ b.x + b.w >= pads[q].xpos + s.xo + s.w
        /\ b.y + b.h >= pads[q].ypos + s.yo + s.h
        /\ b.x \in Int /\ b.y \in Int /\ b.w \in Int /\ b.h \in Int
    <3>1. CASE pads[q].policy = "keep-aspect-ratio"
      <4>1. w - s.w - 2 * s.xo \in 0 .. 1 /\ h - s.h - 2 * s.yo \in 0 .. 1
        BY <1>1, <3>1, DrawableFacts
      <4>2. b.w = w /\ b.h = h /\ w \in Int /\ h \in Int
        BY <2>3, <2>5, <3>1
      <4> HIDE DEF s, w, h, b
      <4> QED
        BY <2>3, <2>5, <4>1, <4>2
    <3>2. CASE pads[q].policy # "keep-aspect-ratio"
      <4>1. s = Unpadded(w, h)
        BY <1>1, <3>2, DrawableFacts
      <4>2. s.xo = 0 /\ s.yo = 0 /\ s.w = w /\ s.h = h
        BY <4>1 DEF Unpadded
      <4>3. b.w = s.w /\ b.h = s.h
        BY <2>5, <4>2
      <4> HIDE DEF s, w, h, b
      <4> QED
        BY <2>3, <2>5, <4>2, <4>3
    <3> QED
      BY <3>1, <3>2
  <2> HIDE DEF s, w, h, b
  <2>8. IsRectangleContained(rect, b)
    BY <2>3, <2>4, <2>6, <2>7 DEF IsRectangleContained
  <2> QED
    BY <2>8 DEF b
<1> QED
  BY <1>1, PadsInvariant, PTL

\* One side of a rectangle in an output that holds the image and its padding
LEMMA OneSide ==
  ASSUME NEW x \in Int, NEW offset \in Nat, NEW size \in Int, NEW drawn \in Int, NEW output \in Int,
         output >= size + (x + 2 * offset)
  PROVE  /\ x + offset + size <= output
         /\ drawn = size \/ drawn - size - 2 * offset \in 0 .. 1 =>
              /\ x + drawn <= output + 1
              /\ x + drawn = output + 1 => (drawn - size) % 2 = 1
<1>1. ASSUME drawn - size - 2 * offset = 1
      PROVE  (drawn - size) % 2 = 1
  <2>1. drawn - size = 2 * offset + 1
    BY <1>1
  <2> QED
    BY <2>1
<1> QED
  BY <1>1

(***************************************************************************)
(* The output _fixate_caps chooses holds the images, for any number of     *)
(* pads; what the RGA draws overhangs by the pixel of an odd padding only. *)
(***************************************************************************)
THEOREM OutputHoldsPads == Spec => []FixatedHoldsPads
<1>1. ASSUME PadsInv PROVE FixatedHoldsPads
  <2> SUFFICES ASSUME NEW p \in Drawable,
                      NEW o, o = Fixate(out.par), NEW b, b = Blit(p)
               PROVE  /\ Placed(p).x + Placed(p).w <= o.w
                      /\ Placed(p).y + Placed(p).h <= o.h
                      /\ (pads[p].policy = "keep-aspect-ratio" \/ SquarePixels(p)) =>
                           /\ b.x + b.w <= o.w + 1
                           /\ b.x + b.w = o.w + 1 => (b.w - Size(p).w) % 2 = 1
                           /\ b.y + b.h <= o.h + 1
                           /\ b.y + b.h = o.h + 1 => (b.h - Size(p).h) % 2 = 1
    BY DEF FixatedHoldsPads
  <2> DEFINE known == {pads[q] : q \in Present}
             s == Size(p)
             w == ConfiguredWidth(pads[p], zero)
             h == ConfiguredHeight(pads[p], zero)
             px == pads[p].xpos
             py == pads[p].ypos
  <2>1. /\ s \in Size4 /\ pads[p] \in Pad /\ out.par \in OutPars /\ out.par \in Ratios
        /\ zero \in BOOLEAN /\ s.w # 0 /\ s.h # 0
        /\ Placed(p) = Rect(px + s.xo, py + s.yo, s.w, s.h)
    BY <1>1, DrawableFacts
  <2>2. /\ s.w \in Int /\ s.h \in Int /\ s.xo \in Nat /\ s.yo \in Nat
        /\ px \in Int /\ py \in Int /\ pads[p].width \in Int /\ pads[p].height \in Int
    BY <2>1 DEF Size4, Pad
  <2>3. s = OutputSize(pads[p], out.par, zero)
    BY DEF Size
  <2>4. pads[p] \in PositiveSized(known, out.par, zero)
    <3>1. pads[p] \in known
      BY DEF Drawable
    <3> QED
      BY <2>1, <2>3, <3>1 DEF PositiveSized
  <2>5. /\ o.w \in Int /\ o.h \in Int
        /\ o.w >= s.w + (px + 2 * s.xo) /\ o.h >= s.h + (py + 2 * s.yo)
    <3> DEFINE fw == FixatedWidth(known, out.par, zero)
               fh == FixatedHeight(known, out.par, zero)
               mw == Max({px + 2 * s.xo, 0})
               mh == Max({py + 2 * s.yo, 0})
    <3>1. o \in [w : Positive, h : Positive, par : OutPars] /\ o.w >= fw /\ o.h >= fh
      BY <1>1, <2>1, FixateType
    <3>2. fw \in Int /\ fh \in Int /\ fw >= s.w + mw /\ fh >= s.h + mh
      <4>1. known \in SUBSET Pad /\ IsFiniteSet(known)
        BY <1>1, KnownFinite
      <4> HIDE DEF known
      <4> QED
        BY <2>1, <2>3, <2>4, <4>1, FixatedBounds
    <3>3. /\ mw \in Int /\ mw >= px + 2 * s.xo
          /\ mh \in Int /\ mh >= py + 2 * s.yo
      <4>1. px + 2 * s.xo \in Int /\ py + 2 * s.yo \in Int /\ 0 \in Int
        BY <2>2
      <4> DEFINE a == px + 2 * s.xo
                 c == py + 2 * s.yo
      <4> HIDE DEF a, c
      <4>2. /\ Max({a, 0}) \in Int /\ Max({a, 0}) >= a
            /\ Max({c, 0}) \in Int /\ Max({c, 0}) >= c
        <5>1. a \in Int /\ c \in Int /\ 0 \in Int
          BY <4>1 DEF a, c
        <5>2. /\ Max({a, 0}) \in {a, 0} /\ Max({a, 0}) >= a
              /\ Max({c, 0}) \in {c, 0} /\ Max({c, 0}) >= c
          BY <5>1, MaxOfTwo, Zenon
        <5> QED
          BY <5>1, <5>2
      <4> QED
        BY <4>2 DEF a, c
    <3>4. o.w \in Int /\ o.h \in Int
      BY <3>1 DEF Positive
    <3> HIDE DEF fw, fh, mw, mh, s, px, py
    <3> QED
      BY <2>2, <3>1, <3>2, <3>3, <3>4
  <2>6. /\ b.x = px /\ b.y = py
        /\ b.w = (IF pads[p].width > 0 THEN pads[p].width ELSE s.w)
        /\ b.h = (IF pads[p].height > 0 THEN pads[p].height ELSE s.h)
        /\ pads[p].width > 0 => w = pads[p].width
        /\ pads[p].height > 0 => h = pads[p].height
    BY <1>1, BlitFacts DEF Rect
  <2>7. b.w \in Int /\ b.h \in Int
    BY <2>2, <2>6
  <2>8. ASSUME pads[p].policy = "keep-aspect-ratio" \/ SquarePixels(p)
        PROVE  /\ b.w = s.w \/ b.w - s.w - 2 * s.xo \in 0 .. 1
               /\ b.h = s.h \/ b.h - s.h - 2 * s.yo \in 0 .. 1
    <3>1. CASE pads[p].policy = "keep-aspect-ratio"
      <4>1. w - s.w - 2 * s.xo \in 0 .. 1 /\ h - s.h - 2 * s.yo \in 0 .. 1
        BY <1>1, <3>1, DrawableFacts
      <4>2. (b.w = s.w \/ b.w = w) /\ (b.h = s.h \/ b.h = h)
        BY <2>6
      <4> HIDE DEF s, w, h
      <4> QED
        BY <4>1, <4>2
    <3>2. CASE pads[p].policy # "keep-aspect-ratio"
      <4>1. s = Unpadded(w, h)
        BY <1>1, <2>8, <3>2, DrawableFacts
      <4>2. s.w = w /\ s.h = h
        BY <4>1 DEF Unpadded
      <4> HIDE DEF s, w, h
      <4> QED
        BY <2>6, <4>2
    <3> QED
      BY <3>1, <3>2
  <2>9. Placed(p).x = px + s.xo /\ Placed(p).w = s.w /\ Placed(p).y = py + s.yo /\ Placed(p).h = s.h
    BY <2>1 DEF Rect
  <2>10. /\ px + s.xo + s.w <= o.w
         /\ b.w = s.w \/ b.w - s.w - 2 * s.xo \in 0 .. 1 =>
              /\ px + b.w <= o.w + 1
              /\ px + b.w = o.w + 1 => (b.w - s.w) % 2 = 1
    BY <2>2, <2>5, <2>7, OneSide
  <2>11. /\ py + s.yo + s.h <= o.h
         /\ b.h = s.h \/ b.h - s.h - 2 * s.yo \in 0 .. 1 =>
              /\ py + b.h <= o.h + 1
              /\ py + b.h = o.h + 1 => (b.h - s.h) % 2 = 1
    BY <2>2, <2>5, <2>7, OneSide
  <2> QED
    BY <2>6, <2>8, <2>9, <2>10, <2>11
<1> QED
  BY <1>1, PadsInvariant, PTL

\* Multiplication keeps the order.
LEMMA TimesMonotone ==
  ASSUME NEW a \in Nat, NEW b \in Nat, NEW c \in Nat, a <= b
  PROVE  0 <= a * c /\ a * c <= c * b
<1>1. PICK d \in Nat : b = a + d
  <2>1. b - a \in Nat /\ b = a + (b - a)
    OBVIOUS
  <2> QED
    BY <2>1
<1>2. c * b = a * c + d * c
  BY <1>1
<1>3. a * c \in Nat /\ d * c \in Nat
  OBVIOUS
<1> QED
  BY <1>2, <1>3

(***************************************************************************)
(* A pointer event on an image is translated into its frame, for every     *)
(* scale between the two.                                                  *)
(***************************************************************************)
THEOREM PointerTranslated == Spec => []PointerInFrame
<1>1. ASSUME PadsInv PROVE PointerInFrame
  <2> SUFFICES ASSUME NEW p \in Drawable, NEW px \in 0 .. out.w,
                      NEW x, x = PointerX(pads[p], px, out.par, zero),
                      PointerReaches(pads[p], px, pads[p].ypos + Size(p).yo, out.par, zero)
               PROVE  0 <= x[1] /\ x[1] <= pads[p].info.w * x[2]
    BY DEF PointerInFrame
  <2> DEFINE r == Placed(p)
             fw == pads[p].info.w
  <2>1. /\ pads[p] \in Pad /\ pads[p].info \in Info /\ out.w \in Nat
        /\ Size(p) \in Size4
        /\ r = Rect(pads[p].xpos + Size(p).xo, pads[p].ypos + Size(p).yo, Size(p).w, Size(p).h)
    BY <1>1, DrawableFacts
  <2>2. r = PointerRect(pads[p], out.par, zero)
    BY DEF PointerRect, Placed, Size
  <2>3. x[1] = (px - r.x) * fw /\ x[2] = r.w
    BY <2>2 DEF PointerX
  <2>4. px >= r.x /\ px <= r.x + r.w
    BY <2>2 DEF PointerReaches, IsPointContained
  <2>5. r.x \in Int /\ r.w \in Nat /\ fw \in Nat /\ px \in Int
    BY <2>1 DEF Rect, Pad, Size4, Info, Positive
  <2> HIDE DEF r, fw
  <2>6. px - r.x \in Nat /\ px - r.x <= r.w
    BY <2>4, <2>5
  <2>7. 0 <= (px - r.x) * fw /\ (px - r.x) * fw <= fw * r.w
    BY <2>5, <2>6, TimesMonotone
  <2> QED
    BY <2>3, <2>7 DEF fw
<1> QED
  BY <1>1, PadsInvariant, PTL
=============================================================================
