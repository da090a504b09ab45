------------------------------ MODULE MCTunnel ------------------------------
(* Small instances of Tunnel. *)
EXTENDS Tunnel, TLC

CONSTANTS k1, k2, k3

\* Two or three sessions accepted at A
BothFromA == k1 :> "A" @@ k2 :> "A"
AllFromA == BothFromA @@ k3 :> "A"
\* One session accepted at each end: channel numbers can collide
FromBoth == k1 :> "A" @@ k2 :> "B"
=============================================================================
