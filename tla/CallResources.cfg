SPECIFICATION Spec
CONSTANTS
  Block = {1, 2, 3, 4, 5}
  NoBlock = 0
  IvSize = 5
  Junk = Junk
INVARIANTS
  MemoryIsOwned
  NothingIsLeft
  SuccessIsRandom
  DescriptorClosed
PROPERTIES
  OperationsReturn
