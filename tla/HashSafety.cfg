SPECIFICATION Spec
CONSTANTS
  BlkSize = 8
  FieldSize = 2
  Modulus = 32
  Mark = 128
  ZeroByte = 0
  Field <- BigEndianField
  Slots = {s1, s2}
  Byte <- MCByte
  Data <- MCData
  MaxMessages = 2
  MaxCalls = 3
INVARIANTS
  TypeOK
  LengthCounted
PROPERTIES
  KeepsPromise
SYMMETRY Symmetry
CHECK_DEADLOCK FALSE
