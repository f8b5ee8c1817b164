SPECIFICATION Spec
CONSTANTS
  Table <- MCTable
  Slots = {s1, s2}
  Families <- MCFamilies
  Pieces <- MCPieces
  FastPieces <- MCFastPieces
  Modulus = 16777216
  MaxContexts <- MCMaxContexts
  MaxCalls = 3
INVARIANTS
  TypeOK
  OneDigest
  LastByteCounts
SYMMETRY Symmetry
CHECK_DEADLOCK FALSE
