----------------------------- MODULE Addresses -----------------------------
(***************************************************************************)
(* Target addresses as SOCKS5 writes them (socks5.cpp): a type (1 IPv4,    *)
(* 3 name, 4 IPv6), the address, and a port in two bytes; how an address   *)
(* travels in a NEW_CONNECTION frame, and what connect() is given.         *)
(***************************************************************************)
EXTENDS Integers, Sequences

Lesser(a, b) == IF a <= b THEN a ELSE b

\* s5addr::s5addr: how many of the len bytes at p are kept.  The type is looked
\* for in the second byte, which is the first of the address
Kept(p, len) ==
  CASE len > 2 /\ p[2] = 1 -> Lesser(len, 7)
    [] len > 2 /\ p[2] = 3 -> Lesser(len, p[2] + 4)
    [] len > 2 /\ p[2] = 4 -> Lesser(len, 19)
    [] OTHER -> len

S5Addr(p) == SubSeq(p, 1, Kept(p, Len(p)))

\* s5addr::valid
Valid(a) ==
  /\ Len(a) >= 2
  /\ \/ a[1] = 1 /\ Len(a) = 7
     \/ a[1] = 3 /\ Len(a) = a[2] + 4
     \/ a[1] = 4 /\ Len(a) = 19

-----------------------------------------------------------------------------
(***************************************************************************)
(* The NEW_CONNECTION frame: channel 0, length, command 0, the channel     *)
(* asked for, the address.                                                 *)
(***************************************************************************)

\* (char)(addr.len + 2)
LengthByte(a) == (Len(a) + 2) % 256

\* peer_info::connect_peer
RequestFrame(c, a) == <<0, LengthByte(a), 0, c>> \o a

\* peer_info::ready: the address in the frame at the front of ibuf
FrameAddress(f) == S5Addr(SubSeq(f, 5, f[2] + 2))

-----------------------------------------------------------------------------
\* get_address: where connect() goes.  A name is left to getaddrinfo.  For IPv6
\* the family is set to AF_INET, and what the kernel takes for the host are the
\* four bytes of the flow label, which are 0
GetAddress(a) ==
  CASE a[1] = 1 -> [type |-> 1,
                    host |-> SubSeq(a, 2, 5),
                    port |-> SubSeq(a, 6, 7)]
    [] a[1] = 3 -> [type |-> 3,
                    host |-> SubSeq(a, 3, 2 + a[2]),
                    port |-> SubSeq(a, 3 + a[2], 4 + a[2])]
    [] a[1] = 4 -> [type |-> 1,
                    host |-> <<0, 0, 0, 0>>,
                    port |-> SubSeq(a, 18, 19)]

Nowhere == [type |-> 0, host |-> <<>>, port |-> <<>>]

\* connect_to(s5addr, ...): an address that is not valid fails
ConnectTo(a) == IF Valid(a) THEN GetAddress(a) ELSE Nowhere

-----------------------------------------------------------------------------
(***************************************************************************)
(* What the addresses mean.                                                *)
(***************************************************************************)

\* The host and port that a valid address names: the port is at its end
Named(a) ==
  [type |-> a[1],
   host |-> SubSeq(a, IF a[1] = 3 THEN 3 ELSE 2, Len(a) - 2),
   port |-> SubSeq(a, Len(a) - 1, Len(a))]

\* The length byte of its frame does not wrap: a name has at most 249 bytes
Crosses(a) == Len(a) + 2 <= 255

\* Where a request for a ends, when it is sent over the tunnel
Reached(a) == ConnectTo(FrameAddress(RequestFrame(1, a)))
=============================================================================
