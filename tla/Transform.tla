------------------------------ MODULE Transform ------------------------------
(***************************************************************************)
(* The sizes of image transforms: which presets a catalog accepts, which   *)
(* images `render` decodes, and how an image is cropped and scaled to a    *)
(* preset.  Pixels, formats and quality are left out.  No name is one of   *)
(* Variants: ImageProofs extends both modules.                             *)
(***************************************************************************)
EXTENDS Naturals

CONSTANTS
  Images,           \* what a file's header may say: [w, h], sides of 0 included
  Presets,          \* what an application may register: [w, h, fit], a side may be None
  MaxInputPixels, MaxInputDim, MaxOutputDim,
  None

ASSUME ImagesAssumption == Images \subseteq [w : Nat, h : Nat]
ASSUME PresetsAssumption ==
  Presets \subseteq [w : Nat \cup {None}, h : Nat \cup {None}, fit : {"cover", "inside", "fill"}]
ASSUME MaxOutputDimAssumption == MaxOutputDim \in Nat \ {0}
ASSUME MaxInputAssumption == MaxInputPixels \in Nat /\ MaxInputDim \in Nat
ASSUME NoSizeAssumption ==
  None \notin Nat \cup Presets \cup [w : Nat, h : Nat] \cup [x : Nat, y : Nat, w : Nat, h : Nat]

VARIABLES
  registered,  \* the preset in the policy
  stage,       \* how far `render` is
  image,       \* the image it renders
  crop,        \* the part of the image that is scaled, None for all of it
  out          \* the size of the rendering

renderVars == <<registered, stage, image, crop, out>>

Sides == 1..MaxOutputDim

-----------------------------------------------------------------------------
(* `Preset::validate` *)
Valid(p) ==
  /\ p.w # None \/ p.h # None
  /\ p.w \in Sides \cup {None}
  /\ p.h \in Sides \cup {None}
  /\ p.fit = "fill" => p.w # None /\ p.h # None

AtLeastOne(n) == IF n = 0 THEN 1 ELSE n

Clamp(n, low, high) == IF n < low THEN low ELSE IF n > high THEN high ELSE n

Rounded(n, d) == (2 * n + d) \div (2 * d)

(* `resize` of the image library: the largest size within the box that has the
   image's aspect, a pixel wide or high at least. *)
Within(i, w, h) ==
  IF i.w = 0 \/ i.h = 0
  THEN [w |-> IF i.w = 0 THEN 1 ELSE w, h |-> IF i.h = 0 THEN 1 ELSE h]
  ELSE IF w * i.h <= h * i.w
       THEN [w |-> w, h |-> AtLeastOne(Rounded(i.h * w, i.w))]
       ELSE [w |-> AtLeastOne(Rounded(i.w * h, i.h)), h |-> h]

(* A seeded fault: a preset's free side is left to the image's aspect. *)
SizeUnbounded(i, p) ==
  LET any == MaxOutputDim * (i.w + i.h + 1)
  IN  IF p.w = None THEN Within(i, any, p.h)
      ELSE IF p.h = None THEN Within(i, p.w, any)
      ELSE IF p.fit = "inside" THEN Within(i, p.w, p.h)
      ELSE [w |-> p.w, h |-> p.h]

(* `apply_fit` *)
Size(i, p) ==
  IF p.w = None THEN Within(i, MaxOutputDim, p.h)
  ELSE IF p.h = None THEN Within(i, p.w, MaxOutputDim)
  ELSE IF p.fit = "inside" THEN Within(i, p.w, p.h)
  ELSE [w |-> p.w, h |-> p.h]

(* A seeded fault: the axis that falls short is cropped. *)
CroppedSizeSwapped(i, w, h) ==
  IF i.w * h <= i.h * w
  THEN [w |-> Clamp((i.h * w) \div h, 1, i.w), h |-> i.h]
  ELSE [w |-> i.w, h |-> Clamp((i.w * h) \div w, 1, i.h)]

(* `cover`: the axis that overshoots the preset's aspect is cropped. *)
CroppedSize(i, w, h) ==
  IF i.w * h >= i.h * w
  THEN [w |-> Clamp((i.h * w) \div h, 1, i.w), h |-> i.h]
  ELSE [w |-> i.w, h |-> Clamp((i.w * h) \div w, 1, i.h)]

Centred(i, c) == [x |-> (i.w - c.w) \div 2, y |-> (i.h - c.h) \div 2, w |-> c.w, h |-> c.h]

Covers(p) == p.w # None /\ p.h # None /\ p.fit = "cover"

Crop(i, p) ==
  IF Covers(p) /\ i.w # 0 /\ i.h # 0
  THEN Centred(i, CroppedSize(i, p.w, p.h))
  ELSE None

-----------------------------------------------------------------------------
RenderTypeOK ==
  /\ registered \in Presets \cup {None}
  /\ registered # None => Valid(registered)
  /\ stage \in {"idle", "header", "decode", "fit", "encode"}
  /\ image \in Images \cup {None}
  /\ crop \in [x : Nat, y : Nat, w : Nat, h : Nat] \cup {None}
  /\ out \in [w : Sides, h : Sides] \cup {None}
  /\ stage # "idle" => registered # None /\ image # None
  /\ stage \in {"fit", "encode"} => image.w <= MaxInputDim /\ image.h <= MaxInputDim
  /\ stage # "encode" => crop = None /\ out = None
  /\ stage = "encode" => out # None

RenderInit ==
  /\ registered = None /\ stage = "idle"
  /\ image = None /\ crop = None /\ out = None

(* `register_catalog` with a policy that has this preset. *)
Register(p) ==
  /\ stage = "idle" /\ Valid(p)
  /\ registered' = p
  /\ UNCHANGED <<stage, image, crop, out>>

BeginRender(i) ==
  /\ stage = "idle" /\ registered # None
  /\ stage' = "header"
  /\ image' = i
  /\ UNCHANGED <<registered, crop, out>>

(* The end of `render`, with an image or an error. *)
EndRender ==
  /\ stage' = "idle"
  /\ image' = None /\ crop' = None /\ out' = None
  /\ UNCHANGED registered

ReadHeader ==
  /\ stage = "header"
  /\ image.w * image.h <= MaxInputPixels
  /\ stage' = "decode"
  /\ UNCHANGED <<registered, image, crop, out>>

Decode ==
  /\ stage = "decode"
  /\ image.w <= MaxInputDim /\ image.h <= MaxInputDim
  /\ stage' = "fit"
  /\ UNCHANGED <<registered, image, crop, out>>

ApplyFit ==
  /\ stage = "fit"
  /\ stage' = "encode"
  /\ crop' = Crop(image, registered)
  /\ out' = Size(image, registered)
  /\ UNCHANGED <<registered, image>>

Encode == stage = "encode" /\ EndRender

(* An unreadable or oversized image, or one that does not decode or encode. *)
Refuse == stage \in {"header", "decode", "encode"} /\ EndRender

RenderNext ==
  \/ \E p \in Presets : Register(p)
  \/ \E i \in Images : BeginRender(i)
  \/ ReadHeader \/ Decode \/ ApplyFit \/ Encode \/ Refuse

RenderSpec == RenderInit /\ [][RenderNext]_renderVars

-----------------------------------------------------------------------------
(* Properties.  RenderTypeOK bounds every rendering, on both sides and also    *)
(* for presets that give only one of them.                                     *)

Larger(m, n) == IF m >= n THEN m ELSE n
Apart(m, n) == IF m >= n THEN m - n ELSE n - m

(* The crop lies within the image, with equal margins up to a pixel. *)
CropFits ==
  /\ crop.w \in 1..image.w /\ crop.h \in 1..image.h
  /\ crop.x + crop.w <= image.w /\ Apart(crop.x, image.w - crop.w - crop.x) <= 1
  /\ crop.y + crop.h <= image.h /\ Apart(crop.y, image.h - crop.h - crop.y) <= 1

(* It spans the image along one axis, and along the other it is less than a
   pixel from the aspect of the preset. *)
CropKeepsAspect ==
  \/ crop.h = image.h /\ Apart(crop.w * out.h, crop.h * out.w) < out.h
  \/ crop.w = image.w /\ Apart(crop.w * out.h, crop.h * out.w) < out.w

(* Whichever axis is scaled first, what is allocated between the two is no
   larger than the input or the output. *)
ScaleStaysBounded ==
  LET bound == Larger(crop.w * crop.h, out.w * out.h)
  IN  crop.w * out.h <= bound /\ out.w * crop.h <= bound

(* What `cover` promises: a centred crop of the target's aspect, never empty   *)
(* and never out of the image, and allocations bounded by input and output     *)
(* however extreme the image's aspect.                                         *)
CoverIsSound == crop # None => CropFits /\ CropKeepsAspect /\ ScaleStaysBounded
=============================================================================
