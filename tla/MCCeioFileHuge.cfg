SPECIFICATION Spec
CONSTANTS
  Editor = {e1}
  Missing = Missing
  Key = {k1}
  Text <- Huge
  CompressedSize <- HugeCompressed
  BlockSize = 8
  CrcSize = 4
  Uint32 = 16
  MaxSaves = 1
INVARIANTS
  OriginalSizeIsTextSize
