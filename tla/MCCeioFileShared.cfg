SPECIFICATION Spec
CONSTANTS
  Editor = {e1, e2}
  Missing = Missing
  Key = {k1, k2}
  Text <- SameSize
  CompressedSize <- SameSizeCompressed
  BlockSize = 8
  CrcSize = 4
  Uint32 = 64
  MaxSaves = 2
SYMMETRY Symmetry
INVARIANTS
  LoadedTextWasSaved
