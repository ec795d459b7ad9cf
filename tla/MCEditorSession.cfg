SPECIFICATION Spec
CONSTANTS
  Byte = {a, NL}
  Newline = NL
  Key = {k1, k2}
  NoKey = NoKey
  Attempts = 3
  MaxLength = 2
INVARIANTS
  TypeOK
  KeyOnlyDuringOperation
  UnreadIsKept
  StatusIsTrue
  CleanIsStored
SYMMETRY Symmetry
