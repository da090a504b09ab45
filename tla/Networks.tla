------------------------------ MODULE Networks ------------------------------
(***************************************************************************)
(* IPv4 addresses and networks as the listeners' options write them        *)
(* (network.cpp, network.h).  An address is a number of Bits bits; a mask  *)
(* is given by how many of its leading bits are ones.                      *)
(***************************************************************************)
EXTENDS Integers, Sequences

CONSTANT Bits   \* 32: the bits of an address, a multiple of 4

ASSUME NetworkConstants == Bits \in 1 .. 32 /\ Bits % 4 = 0

Quarter == Bits \div 4
Address == 0 .. 2^Bits - 1
NoAddress == -1

\* The texts of the options: one to four numbers with dots between them, and
\* perhaps a slash and the length of a prefix
Text == [parts : {p \in Seq(Nat) : Len(p) \in 1 .. 4}, slash : BOOLEAN, len : Int]

\* As operator>> reads the numbers, each but the last is one byte, and the last
\* fills the bytes that remain
Fits(parts) ==
  \A i \in DOMAIN parts :
    parts[i] < 2^(IF i < Len(parts) THEN Quarter ELSE Bits - (i - 1) * Quarter)

\* What the i-th number adds: the last as it is, the others shifted
Part(parts, i) ==
  CASE i < Len(parts) -> parts[i] * 2^(Bits - i * Quarter)
    [] i = Len(parts) -> parts[i]
    [] OTHER -> 0

ParseAddress(parts) ==
  IF Fits(parts)
  THEN Part(parts, 1) + Part(parts, 2) + Part(parts, 3) + Part(parts, 4)
  ELSE NoAddress

\* masksz is a short
Short(n) == ((n + 32768) % 65536) - 32768

\* Mutant: one bit too few
MaskShort(len) == {IF len \in 1 .. Bits THEN len - 1 ELSE 0}

\* mask(): a shift by a negative count when len is more than Bits; processors
\* take it modulo Bits, or shift everything out
Mask(len) ==
  CASE len <= 0 -> {0}
    [] len \in 1 .. Bits -> {len}
    [] OTHER -> {Bits - ((Bits - len) % Bits), 0}

\* a & mask
Masked(a, ones) == a - (a % 2^(Bits - ones))

\* has()
Has(net, a) == Masked(a, net.mask) = net.addr

\* network::network(text): "/" and a number, or the mask of the address's
\* class; net, which should be the address, is 0, and 0 is in class A
Parse(text) ==
  LET addr == ParseAddress(text.parts)
      len == IF text.slash THEN Short(text.len) ELSE Quarter
  IN IF addr = NoAddress \/ len < 0
     THEN {}
     ELSE {[addr |-> Masked(addr, ones), mask |-> ones] : ones \in Mask(len)}

\* listen_info::allow_connection
AllowConnection(allow, a) ==
  allow = {} \/ \E net \in allow : Has(net, a)

-----------------------------------------------------------------------------
(***************************************************************************)
(* What the texts mean: the addresses that share their first len bits with *)
(* the one written.                                                        *)
(***************************************************************************)
SharePrefix(a, b, len) == a \div 2^(Bits - len) = b \div 2^(Bits - len)

Meant(text, a) ==
  SharePrefix(a, ParseAddress(text.parts), IF text.slash THEN text.len ELSE Quarter)
=============================================================================
