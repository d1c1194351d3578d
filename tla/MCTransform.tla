----------------------------- MODULE MCTransform -----------------------------
(* A small instance of Transform: every image of up to MaxSide pixels a side   *)
(* and every preset, the sides on either side of each limit included.          *)
EXTENDS Transform

CONSTANT MaxSide

SmallImages == [w : 0..MaxSide, h : 0..MaxSide]
SmallPresets ==
  [w : 0..(MaxOutputDim + 1) \cup {None}, h : 0..(MaxOutputDim + 1) \cup {None},
   fit : {"cover", "inside", "fill"}]
=============================================================================
