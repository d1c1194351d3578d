\* Images of up to 16 pixels a side of which 15 are accepted, renderings of up to 7.
SPECIFICATION RenderSpec
CONSTANTS
  MaxSide = 16
  Images <- SmallImages
  Presets <- SmallPresets
  MaxInputPixels = 180
  MaxInputDim = 15
  MaxOutputDim = 7
  None = None
INVARIANTS
  RenderTypeOK
  CoverIsSound
