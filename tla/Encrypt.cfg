SPECIFICATION FairSpec
CONSTANTS
  Byte <- Bit
  Xor <- BitXor
  KeyLen = 2
  Tea <- Scramble
  MaxSent = 3
INVARIANTS TypeOK ReadsIVUnlessEarly
PROPERTIES ImplementsStream AllDecrypted
CHECK_DEADLOCK FALSE
