SPECIFICATION Spec
CONSTANTS
  Table <- MCTable
  Slots = {s1, s2}
  Families <- MCFamilies
  Keys <- MCKeys
  Flags <- MCFlags
  Text <- MCText
  MaxKeys <- MCMaxKeys
  MaxBook = 2
INVARIANTS
  TypeOK
  OnePermutation
SYMMETRY Symmetry
CHECK_DEADLOCK FALSE
