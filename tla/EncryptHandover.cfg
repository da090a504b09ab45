SPECIFICATION Spec
CONSTANTS
  Byte <- Bit
  Xor <- BitXor
  KeyLen = 2
  Tea <- Scramble
  MaxSent = 1
INVARIANT ReadsIV
CHECK_DEADLOCK FALSE
