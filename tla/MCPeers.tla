------------------------------ MODULE MCPeers -------------------------------
(* A small instance of Peers: addresses of eight bits, bytes of two. *)
EXTENDS Peers, TLC

CONSTANTS c1, c2, p1, p2

Slashed(parts, len) == [parts |-> parts, slash |-> TRUE, len |-> len]
Bare(parts) == [parts |-> parts, slash |-> FALSE, len |-> 0]

\* 1.2.3.0, 3.2.3.0, 1.2.0.3
Addresses == (c1 :> 108) @@ (c2 :> 236) @@ (p1 :> 99) @@ (p2 :> 0)

\* No list; prefixes at and off a byte's end, with and without host bits; a
\* network without a mask; all addresses; several; a prefix that is too long, one
\* that is negative, an address out of range
AllowTexts ==
  { {}, {Slashed(<<1, 2, 3, 1>>, 5)}, {Slashed(<<1, 44>>, 7), Bare(<<3, 2, 0, 0>>)},
    {Slashed(<<0>>, 0)}, {Slashed(<<1, 2, 3, 0>>, 12)}, {Slashed(<<1, 2, 3, 0>>, -1)}, {Slashed(<<1, 4, 3, 0>>, 4)} }
=============================================================================
