------------------------------- MODULE Peers --------------------------------
(***************************************************************************)
(* One ptunnel process and all that connect to it: its two listeners       *)
(* (listen_info), the clients that the SOCKS listener accepts, and its     *)
(* peers, among which connect_peer chooses one for each request.           *)
(*                                                                         *)
(* Of a peer's channels only their number is of interest here: what        *)
(* happens on them is module Tunnel, whose steps appear as those that take *)
(* or free a slot of peer_info::clients or change num_clients.             *)
(***************************************************************************)
EXTENDS Networks, FiniteSets

CONSTANTS
  Client,      \* the SOCKS clients of the run
  Tunnel,      \* the other processes of the run
  Dialled,     \* those that this one connects to (-C)
  From,        \* the address each connection comes from
  Options,     \* the allow lists that the listeners may be given: sets of texts
  MaxChannel,  \* 255: the largest channel number
  MaxSlot,     \* bound: the length a dynvec of clients may grow to
  MaxDrift     \* bound: how far num_clients may drift from the table

Listener == {"socks", "tunnel"}

ASSUME PeersConstants ==
  /\ Client \cap Tunnel = {}
  /\ Dialled \subseteq Tunnel
  /\ From \in [Client \cup Tunnel -> Address]
  /\ \A texts \in Options : texts \subseteq Text
  /\ MaxChannel \in Nat \ {0}
  /\ MaxSlot \in Nat /\ MaxSlot >= MaxChannel
  /\ MaxDrift \in Nat

VARIABLES
  option,     \* the texts of the listeners' allow list
  allow,      \* the networks made of them
  listener,   \* listener[l]: "open" or "closed"
  place,      \* place[x]: how far the connection x is
  all_peers,  \* the processes with a peer_info
  occupied,   \* occupied[p]: the slots of p's clients that are not null
  num         \* num[p]: num_clients

vars == <<option, allow, listener, place, all_peers, occupied, num>>

Channel == 1 .. MaxChannel

\* Where RENUMBER may move a client: a channel cut to a byte may be 0 too
Slot == 0 .. MaxSlot

\* The places of those that a listener let in: a client is "quiet" until its whole
\* request has arrived, and then "asking" if the request's address is valid and
\* "misaddressed" if not
LetIn == {"quiet", "asking", "misaddressed", "served", "refused", "peer"}

Places == LetIn \cup {"out", "waiting", "reset", "rejected", "gone"}

\* The listener that x connects to
At(x) == IF x \in Client THEN "socks" ELSE "tunnel"

\* What listen_on makes of the texts of an option; nothing if one is wrong (the
\* process exits)
AllowLists(texts) ==
  {{net[t] : t \in texts} :
     net \in {f \in [texts -> UNION {Parse(t) : t \in texts}] :
                \A t \in texts : f[t] \in Parse(t)}}

Init ==
  /\ option \in Options
  /\ allow \in AllowLists(option)
  /\ listener = [l \in Listener |-> "open"]
  /\ place = [x \in Client \cup Tunnel |-> "out"]
  /\ all_peers = {}
  /\ occupied = [p \in Tunnel |-> {}]
  /\ num = [p \in Tunnel |-> 0]

-----------------------------------------------------------------------------
(***************************************************************************)
(* Listeners, and connections that are made.                               *)
(***************************************************************************)
Table == <<occupied, num>>

\* A connection to a listener: the kernel keeps it until accept()
Arrive(x) ==
  /\ x \notin Dialled
  /\ place[x] = "out"
  /\ listener[At(x)] = "open"
  /\ place' = [place EXCEPT ![x] = "waiting"]
  /\ UNCHANGED <<option, allow, listener, all_peers, Table>>

Waiting(l) == {x \in Client \cup Tunnel : place[x] = "waiting" /\ At(x) = l}

\* What accept() and allow_connection make of x
Accepted(x) ==
  CASE ~AllowConnection(allow, From[x]) -> "rejected"
    [] AllowConnection(allow, From[x]) /\ x \in Client -> "quiet"
    [] AllowConnection(allow, From[x]) /\ x \in Tunnel -> "peer"

\* Mutant: a connection that is not allowed is left where it is
ListenReadyLeaves(l) ==
  /\ listener[l] = "open"
  /\ Waiting(l) # {}
  /\ place' = [x \in DOMAIN place |->
                 IF x \in Waiting(l) /\ Accepted(x) # "rejected" THEN Accepted(x) ELSE place[x]]
  /\ all_peers' = all_peers \cup {x \in Waiting(l) \cap Tunnel : Accepted(x) = "peer"}
  /\ UNCHANGED <<option, allow, listener, Table>>

\* listen_info::ready: accept() until there is nothing more to accept, or until
\* it fails, which closes the listener and resets those that still wait
ListenReady(l) ==
  /\ listener[l] = "open"
  /\ Waiting(l) # {}
  /\ \E some \in SUBSET Waiting(l), closes \in BOOLEAN :
       /\ closes \/ some = Waiting(l)
       /\ listener' = [listener EXCEPT ![l] = IF closes THEN "closed" ELSE "open"]
       /\ place' = [x \in DOMAIN place |->
                      CASE x \in some -> Accepted(x)
                        [] x \in Waiting(l) \ some -> "reset"
                        [] OTHER -> place[x]]
       /\ all_peers' = all_peers \cup {x \in some \cap Tunnel : Accepted(x) = "peer"}
  /\ UNCHANGED <<option, allow, Table>>

\* connect_peer(addr, key): the connection to a peer of -C is there
Dial(p) ==
  /\ p \in Dialled
  /\ place[p] = "out"
  /\ place' = [place EXCEPT ![p] = "peer"]
  /\ all_peers' = all_peers \cup {p}
  /\ UNCHANGED <<option, allow, listener, Table>>

\* Mutant: all_peers keeps the deleted peer_info
PeerLostStays(p) ==
  /\ p \in all_peers
  /\ place' = [place EXCEPT ![p] = "gone"]
  /\ occupied' = [occupied EXCEPT ![p] = {}]
  /\ num' = [num EXCEPT ![p] = 0]
  /\ UNCHANGED <<option, allow, listener, all_peers>>

\* peer_info::~peer_info
PeerLost(p) ==
  /\ p \in all_peers
  /\ place' = [place EXCEPT ![p] = "gone"]
  /\ all_peers' = all_peers \ {p}
  /\ occupied' = [occupied EXCEPT ![p] = {}]
  /\ num' = [num EXCEPT ![p] = 0]
  /\ UNCHANGED <<option, allow, listener>>

-----------------------------------------------------------------------------
(***************************************************************************)
(* A client's request, and peer_info::connect_peer.                        *)
(***************************************************************************)

\* The last byte of a client's request arrives.  Its address may be one that
\* connect_peer calls invalid: of an unsupported type, or cut short by s5addr
RequestArrives(x) ==
  /\ place[x] = "quiet"
  /\ \E q \in {"asking", "misaddressed"} : place' = [place EXCEPT ![x] = q]
  /\ UNCHANGED <<option, allow, listener, all_peers, Table>>

\* client_info::ready closes a client that hangs up before connect_peer is called
\* for it, or sends what is no greeting or no CONNECT
Leaves(x) ==
  /\ place[x] \in {"quiet", "asking", "misaddressed"}
  /\ place' = [place EXCEPT ![x] = "gone"]
  /\ UNCHANGED <<option, allow, listener, all_peers, Table>>

\* Mutant: the first peer
AnyPeer(p) == p \in all_peers

\* The peer that the loop over all_peers chooses: all_peers is ordered by the
\* objects' addresses, so that any of those with the smallest count may be first
LeastBusy(p) == p \in all_peers /\ \A q \in all_peers : num[p] <= num[q]

\* while (clients[++channel])
FreeChannels(p) == Channel \ occupied[p]

\* p's count and table when a client takes the slot c
Takes(p, c) ==
  /\ occupied' = [occupied EXCEPT ![p] = @ \cup {c}]
  /\ num' = [num EXCEPT ![p] = @ + 1]

Request(x) ==
  /\ place[x] = "asking"
  /\ \E p \in all_peers :
       /\ LeastBusy(p)
       /\ \E c \in FreeChannels(p) :
            /\ \A d \in FreeChannels(p) : c <= d
            /\ Takes(p, c)
  /\ place' = [place EXCEPT ![x] = "served"]
  /\ UNCHANGED <<option, allow, listener, all_peers>>

\* No valid address, no peer, or no channel
RequestRefused(x) ==
  /\ \/ place[x] = "misaddressed"
     \/ place[x] = "asking" /\ all_peers = {}
     \/ place[x] = "asking" /\ \E p \in all_peers : LeastBusy(p) /\ FreeChannels(p) = {}
  /\ place' = [place EXCEPT ![x] = "refused"]
  /\ UNCHANGED <<option, allow, listener, all_peers, Table>>

-----------------------------------------------------------------------------
(***************************************************************************)
(* What Tunnel's steps do to the table of p.                               *)
(***************************************************************************)

\* How many clients p counts and has no longer
Drift(p) == num[p] - Cardinality(occupied[p])

\* A connection made for p is stored at a slot that was free when it was asked
\* for; by now another client may be there, and is lost from the table
Connected(p) ==
  /\ p \in all_peers
  /\ \E c \in Channel :
       /\ c \in occupied[p] => Drift(p) < MaxDrift
       /\ Takes(p, c)
  /\ UNCHANGED <<option, allow, listener, place, all_peers>>

\* CONNECTION_FAILED, or an end of file on the channel
Ends(p) ==
  /\ p \in all_peers
  /\ \E c \in occupied[p] : occupied' = [occupied EXCEPT ![p] = @ \ {c}]
  /\ num' = [num EXCEPT ![p] = @ - 1]
  /\ UNCHANGED <<option, allow, listener, place, all_peers>>

\* client_info::ready closes the client, and ~client_info empties its slot:
\* num_clients still counts it
HangsUp(p) ==
  /\ p \in all_peers
  /\ Drift(p) < MaxDrift
  /\ \E c \in occupied[p] : occupied' = [occupied EXCEPT ![p] = @ \ {c}]
  /\ UNCHANGED <<option, allow, listener, place, all_peers, num>>

\* RENUMBER_CONNECTION: to the slot that was asked for, or to the next one that is
\* free
Renumbered(p) ==
  /\ p \in all_peers
  /\ \E c \in occupied[p], d \in Slot \ occupied[p] :
       occupied' = [occupied EXCEPT ![p] = (@ \ {c}) \cup {d}]
  /\ UNCHANGED <<option, allow, listener, place, all_peers, num>>

-----------------------------------------------------------------------------
Next ==
  \/ \E l \in Listener : ListenReady(l)
  \/ \E x \in Client \cup Tunnel : Arrive(x)
  \/ \E x \in Client :
       RequestArrives(x) \/ Leaves(x) \/ Request(x) \/ RequestRefused(x)
  \/ \E p \in Tunnel :
       Dial(p) \/ PeerLost(p) \/ Connected(p) \/ Ends(p) \/ HangsUp(p) \/ Renumbered(p)

Spec == Init /\ [][Next]_vars

\* run() calls the handler of a descriptor that can be read (InputServed of
\* IoManage): a listener's at which somebody waits, and a client's whose request
\* has arrived.  No client need send one, nor stay
Fairness ==
  /\ \A l \in Listener : WF_vars(ListenReady(l))
  /\ \A x \in Client : WF_vars(Request(x) \/ RequestRefused(x))

FairSpec == Spec /\ Fairness

-----------------------------------------------------------------------------
(***************************************************************************)
(* Properties.                                                             *)
(***************************************************************************)

\* Every variable stays in its domain; a process has a peer_info while it is
\* connected, and nothing is left of those that are not.
TypeOK ==
  /\ option \in Options
  /\ listener \in [Listener -> {"open", "closed"}]
  /\ place \in [Client \cup Tunnel -> Places]
  /\ all_peers = {p \in Tunnel : place[p] = "peer"}
  /\ occupied \in [Tunnel -> SUBSET Slot]
  /\ num \in [Tunnel -> Nat]
  /\ \A p \in Tunnel \ all_peers : occupied[p] = {} /\ num[p] = 0

\* Who is let in: exactly those whose address shares the written prefix with a
\* network of the list, whatever host bits are written too, or everybody when
\* there is no list.  A prefix that no address has says nothing.
AllowedExactly ==
  (\A t \in option : t.slash => t.len \in 0 .. Bits) =>
    \A x \in (Client \cup Tunnel) \ Dialled :
      LET may == option = {} \/ \E t \in option : Meant(t, From[x]) IN
      /\ place[x] \in LetIn => may
      /\ place[x] = "rejected" => ~may

\* A request with a valid address is refused, while there is a peer, only when
\* every peer counts as many clients as it has channels: it is never refused for
\* the sake of a full peer while another counts room.
RefusedWhenFull ==
  [][\A x \in Client : place[x] = "asking" /\ place'[x] = "refused" =>
       \A p \in all_peers : num[p] >= MaxChannel]_vars

\* A connection that waits at a listener is let in or turned away: no other
\* connection, allowed or not, silent or not, keeps it waiting; and a client whose
\* request has arrived is served or refused, unless it hangs up.
WaitingAnswered ==
  LET Unanswered == {"waiting", "asking", "misaddressed"} IN
  \A x \in Client \cup Tunnel : place[x] \in Unanswered ~> place[x] \notin Unanswered
=============================================================================
