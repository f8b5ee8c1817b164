SPECIFICATION Spec
CONSTANTS
  BlkSize = 8
  DigestSize = 4
  Hashed <- MCHashed
  Enciphered <- MCEnciphered
  CipherTakes <- MCCipherTakes
  Slots = {s1, s2}
  Kinds = {"HMAC", "HMAC-KDF", "CMAC8", "CMAC16", "PBKDF2", "TLS"}
  TagLengths <- MCTagLengths
  Keys <- MCKeys
  Data <- MCData
  Salts <- MCSalts
  Counts = {0, 2}
  OutLengths = {0, 3, 5}
  MaxCalls <- MCMaxCalls
INVARIANTS
  TypeOK
  MacCorrect
  KdfCorrect
SYMMETRY Symmetry
CHECK_DEADLOCK FALSE
