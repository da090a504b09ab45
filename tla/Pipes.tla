-------------------------------- MODULE Pipes --------------------------------
(***************************************************************************)
(* What ptunnel promises to its users: each SOCKS session is a pair of     *)
(* first-in first-out pipes of its own between the process that accepted   *)
(* it and the one that connects to its target.  No pipe carries bytes of   *)
(* another session, loses bytes, or changes their order, until an end of   *)
(* it shuts.  There are no channels, frames or peers here.                 *)
(***************************************************************************)
EXTENDS Integers, Sequences

CONSTANTS
  Conn,     \* the sessions
  End,      \* the two processes
  Origin,   \* the process that accepted each session
  MaxSend   \* bound: data units one end sends on a session

VARIABLES
  fresh,    \* the sessions whose target was not asked for yet
  asked,    \* the sessions whose target was asked for and has not answered
  opened,   \* the sessions whose target answered
  shut,     \* the <<end, session>> that are closed
  sent,     \* sent[e][k]: data units the party outside e has sent
  rcvd      \* rcvd[e][k]: the items that party was handed

vars == <<fresh, asked, opened, shut, sent, rcvd>>

\* The i-th item a party may be handed: data units in order; at the end that
\* accepted the session the SOCKS reply (0) comes before them
ItemAt(e, k, i) == [conn |-> k, n |-> IF e = Origin[k] THEN i - 1 ELSE i]

Init ==
  /\ fresh = Conn
  /\ asked = {}
  /\ opened = {}
  /\ shut = {}
  /\ sent = [e \in End |-> [k \in Conn |-> 0]]
  /\ rcvd = [e \in End |-> [k \in Conn |-> <<>>]]

\* The request may be lost at once, over a broken link
Ask(k) ==
  /\ k \in fresh
  /\ fresh' = fresh \ {k}
  /\ asked' \in {asked \cup {k}, asked}
  /\ UNCHANGED <<opened, shut, sent, rcvd>>

Open(k) ==
  /\ k \in asked
  /\ asked' = asked \ {k}
  /\ opened' = opened \cup {k}
  /\ UNCHANGED <<fresh, shut, sent, rcvd>>

Refuse(k) ==
  /\ k \in asked
  /\ asked' = asked \ {k}
  /\ UNCHANGED <<fresh, opened, shut, sent, rcvd>>

Send(e, k) ==
  /\ k \in opened
  /\ <<e, k>> \notin shut
  /\ sent[e][k] < MaxSend
  /\ sent' = [sent EXCEPT ![e][k] = @ + 1]
  /\ UNCHANGED <<fresh, asked, opened, shut, rcvd>>

\* The next item, and no other
Deliver(e, k) ==
  /\ k \in opened
  /\ <<e, k>> \notin shut
  /\ LET next == ItemAt(e, k, Len(rcvd[e][k]) + 1) IN
       /\ \E d \in End \ {e} : next.n <= sent[d][k]
       /\ rcvd' = [rcvd EXCEPT ![e][k] = Append(@, next)]
  /\ UNCHANGED <<fresh, asked, opened, shut, sent>>

\* Any number of ends may shut together (they share a process), and a request
\* may be lost with them
Shut ==
  /\ shut \subseteq shut' /\ shut' \subseteq End \X Conn
  /\ fresh' = {k \in fresh : <<Origin[k], k>> \notin shut'}
  /\ asked' \subseteq asked
  /\ UNCHANGED <<opened, sent, rcvd>>

Next ==
  \/ \E k \in Conn : Ask(k) \/ Open(k) \/ Refuse(k)
  \/ \E e \in End, k \in Conn : Send(e, k) \/ Deliver(e, k)
  \/ Shut

Spec == Init /\ [][Next]_vars
=============================================================================
