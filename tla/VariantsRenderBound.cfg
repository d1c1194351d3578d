\* Two requests for two files with the same bytes, one content of the preset,
\* one permit.
SPECIFICATION Spec
CONSTANTS
  k1 = k1
  Requests = {r1, r2}
  Files = {f1, f2}
  Keys = {k1}
  Key <- SameKey
  Specs = {s1}
  NoSpec = NoSpec
  NoFile = NoFile
  NoBlob = NoBlob
  Permits = 1
  Assumed = {}
INVARIANT
  RendersBounded
\* Once every file is purged there is nothing left to ask for.
CHECK_DEADLOCK FALSE
