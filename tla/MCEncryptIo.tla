---------------------------- MODULE MCEncryptIo -----------------------------
(* Small instances of EncryptIo: one-bit bytes, blocks of two bytes. *)
EXTENDS EncryptIo

Bit == {0, 1}

BitXor(a, b) == (a + b) % 2

\* A permutation of the blocks in which every bit of the block matters
Scramble(c) == <<(1 + c[2]) % 2, (c[1] + c[2]) % 2>>
=============================================================================
