SPECIFICATION Spec
CONSTANTS
  Byte <- Bytes
  ByteValues = 8
  WordBytes = 2
  Rounds = 4
  Delta = 39
  Left = 4
  Right = 8
  IndexShift = 8
  BlockSize = 4
  CrcSize = 2
  UintMax = 6
  Text <- Texts
  Key <- SomeKeys
  Iv <- SomeIvs
  Forged <- OneBlock
  XorByte <- XorNumbers
  XorWord <- XorNumbers
  Crc <- CheckSum
  Derive <- Words
  Encrypt <- XteaEncrypt
  Decrypt <- XteaDecrypt
INVARIANTS
  TypeOK
  RoundTrip
  BlocksComeBack
  NothingLeft
PROPERTIES
  OnlyWhatIsWritten
