SPECIFICATION FairSpec
CONSTANTS
  Editor = {e1, e2}
  Missing = Missing
  Key = {k1}
  Text <- OneText
  CompressedSize <- OneTextCompressed
  BlockSize = 8
  CrcSize = 4
  Uint32 = 64
  MaxSaves = 2
PROPERTIES
  CallsReturn
