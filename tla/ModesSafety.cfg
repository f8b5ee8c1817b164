\* The five modes and the stream ciphers, with plain and fast calls of every length.
SPECIFICATION Spec
CONSTANTS
  NByte = 4
  XorByte <- MCXor
  Enc <- MCEnc
  Dec <- MCDec
  MulBlock <- MCMul
  Product <- MCTimes
  LenBlock <- MCLenBlock
  CtrBytes = 1
  AadBytes <- MCAadBytes
  MaxAad = 3
  Core <- MCCore
  NCtr = 8
  GenStates <- MCGenStates
  Expand <- MCExpand
  KeyState = 6
  Mix <- MCMix
  Advance <- MCAdvance
  Yield <- MCYield
  Rc4KeySize = 2
  Rc4Key <- MCRc4Key
  Align = 2
  FastBuf = 4
  Configs <- MCConfigs
  Dirs = {"enc", "dec"}
  IVs <- MCIVs
  IvLens <- MCIvLens
  NewIVs <- MCNewIVs
  Messages <- MCMessages
  MaxLen = 9
  MaxWrong = 2
  MaxCall = 6
  MaxFast = 8
INVARIANTS
  TypeOK
  StreamCorrect
  Resumable
  TagCorrect
CHECK_DEADLOCK FALSE
