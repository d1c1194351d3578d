\* Two requests for two files with the same bytes, two contents of the preset,
\* one permit.
SPECIFICATION Spec
CONSTANTS
  k1 = k1
  Requests = {r1, r2}
  Files = {f1, f2}
  Keys = {k1}
  Key <- SameKey
  Specs = {s1, s2}
  NoSpec = NoSpec
  NoFile = NoFile
  NoBlob = NoBlob
  Permits = 1
  Assumed = {"QuietCatalog", "PromptUpserts", "LoneCleaner"}
SYMMETRY Symmetry
INVARIANTS
  TypeOK
  HealSuffices
  NothingLeaks
