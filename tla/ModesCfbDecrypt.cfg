\* Decryption in CFB mode, cut into calls of any length.
SPECIFICATION Spec
CONSTANTS
  NByte = 4
  XorByte <- MCXor
  Enc <- MCEnc
  Dec <- MCDec
  MulBlock <- MCMul
  Product <- MCTimes
  LenBlock <- MCLenBlock
  CtrBytes = 1
  AadBytes <- MCAadBytes
  MaxAad = 0
  Core <- MCCore
  NCtr = 8
  GenStates <- MCGenStates
  Expand <- MCExpand
  KeyState = 6
  Mix <- MCMix
  Advance <- MCAdvance
  Yield <- MCYield
  Rc4KeySize = 2
  Rc4Key <- MCRc4Key
  Align = 2
  FastBuf = 4
  Configs <- CfbConfigs
  Dirs = {"dec"}
  IVs <- MCIVs
  IvLens <- MCIvLens
  NewIVs <- NoIVs
  Messages <- MCMessages
  MaxLen = 6
  MaxWrong = 9
  MaxCall = 3
  MaxFast = 0
INVARIANTS
  CfbDecryptCorrect
CHECK_DEADLOCK FALSE
