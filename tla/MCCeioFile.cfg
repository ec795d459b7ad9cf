SPECIFICATION Spec
CONSTANTS
  Editor = {e1}
  Missing = Missing
  Key = {k1, k2}
  Text <- DifferentSizes
  CompressedSize <- DifferentSizesCompressed
  BlockSize = 8
  CrcSize = 4
  Uint32 = 64
  MaxSaves = 3
INVARIANTS
  TypeOK
PROPERTIES
  ImplementsTextStore
