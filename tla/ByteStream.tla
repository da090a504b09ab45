----------------------------- MODULE ByteStream -----------------------------
(***************************************************************************)
(* What encrypt_io promises peer_info: the bytes appended to obuf at one   *)
(* end appear in ibuf at the other, unchanged, in order, each once.        *)
(***************************************************************************)
EXTENDS Naturals, Sequences

CONSTANT Byte

VARIABLES sent, received

Init == sent = <<>> /\ received = <<>>

Send ==
  /\ \E b \in Byte : sent' = Append(sent, b)
  /\ UNCHANGED received

Receive ==
  /\ Len(received) < Len(sent)
  /\ received' = Append(received, sent[Len(received) + 1])
  /\ UNCHANGED sent

Next == Send \/ Receive

Spec == Init /\ [][Next]_<<sent, received>>
=============================================================================
