------------------------------- MODULE Tunnel -------------------------------
(***************************************************************************)
(* The channel protocol of proxy.cpp: two ptunnel processes, each with one *)
(* peer_info (the connection to the other process) and the client_info     *)
(* objects multiplexed over it.                                            *)
(*                                                                         *)
(* A connection k stands for one SOCKS session.  It has two client_info    *)
(* objects: client[Origin[k]][k], made when the session was accepted, and  *)
(* client[Other(Origin[k])][k], made by the callback of connect_to when    *)
(* the target answered.  A frame is one [channel, length, bytes] unit of   *)
(* the stream between the peers; TCP delivers them in order.               *)
(***************************************************************************)
EXTENDS Integers, Sequences, FiniteSets

CONSTANTS
  Conn,        \* the SOCKS sessions of the run
  Origin,      \* the process whose SOCKS listener accepted each session
  None,        \* nullptr
  MaxChannel,  \* 255: the largest channel number a frame can carry
  MaxSlot,     \* bound: the length a dynvec of clients may grow to
  MaxSend,     \* bound: data frames one end sends on one connection
  HangUp,      \* bound: the ends whose outside party may close first
  Immediate,   \* may connect() succeed before it returns?
  LinkFails    \* may the connection between the peers break?

End == {"A", "B"}
Other(e) == IF e = "A" THEN "B" ELSE "A"

Slot == 0 .. MaxSlot
Byte == 0 .. MaxChannel

\* (char)channel, read back with & 0xff
AsByte(c) == c % (MaxChannel + 1)

ASSUME TunnelConstants ==
  /\ Origin \in [Conn -> End]
  /\ None \notin Conn
  /\ MaxChannel \in Nat \ {0}
  /\ MaxSlot \in Nat /\ MaxSlot >= MaxChannel
  /\ MaxSend \in Nat
  /\ HangUp \subseteq End
  /\ Immediate \in BOOLEAN
  /\ LinkFails \in BOOLEAN

VARIABLES
  peer,      \* peer[e]: "up", "closed" (deleted), or "crashed" (used after)
  clients,   \* clients[e]: peer_info::clients, channel -> connection or None
  num,       \* num[e]: peer_info::num_clients
  client,    \* client[e][k]: the client_info of k at e
  pending,   \* pending[e]: the connect_to calls whose callback has not run
  timers,    \* timers[e]: the RENUMBER retries waiting in the timer queue
  obuf,      \* obuf[e]: frames appended to the peer's obuf but not written
  wire,      \* wire[e]: frames on the way to e
  sent,      \* sent[e][k]: data units the party outside e has sent on k
  rcvd       \* rcvd[e][k]: what client[e][k] has handed to that party

vars == <<peer, clients, num, client, pending, timers, obuf, wire, sent, rcvd>>

ClientStates ==
  {"NONE", "REQUEST", "CONNECTING", "NEED_RENUMBER", "CONNECTED", "CLOSED"}

Client == [state : ClientStates, channel : Slot \cup {-1}, ignored : BOOLEAN]

Unborn == [state |-> "NONE", channel |-> -1, ignored |-> FALSE]
Asking == [state |-> "REQUEST", channel |-> -1, ignored |-> FALSE]
Closed == [state |-> "CLOSED", channel |-> -1, ignored |-> FALSE]

\* Mutant: the client is not read again
StaysIgnored(cl) == [state |-> "CONNECTED", channel |-> cl.channel, ignored |-> cl.ignored]

\* What CONNECTION_ESTABLISHED, or the first bytes, make of a client
Connected(cl) == [state |-> "CONNECTED", channel |-> cl.channel, ignored |-> FALSE]
MovedTo(cl, c) == [state |-> cl.state, channel |-> c, ignored |-> cl.ignored]

\* A client_info with a peer and a channel
Attached(e, k) ==
  client[e][k].state \in {"CONNECTING", "NEED_RENUMBER", "CONNECTED"}

(***************************************************************************)
(* Frames.  conn and n say what the bytes are: the target address of k in  *)
(* a NEW_CONNECTION, the n-th data unit of k in a DATA (0 is the SOCKS     *)
(* reply made by send_s5reply).  The program never looks at them.          *)
(***************************************************************************)
Commands ==
  {"NEW_CONNECTION", "CONNECTION_ESTABLISHED", "RENUMBER_CONNECTION",
   "CONNECTION_FAILED", "DATA", "EOF"}

Item == [conn : Conn, n : 0 .. MaxSend]

Frame ==
  {m \in [cmd : Commands, ch : Byte, to : Byte,
           conn : Conn \cup {None}, n : 0 .. MaxSend] :
     m.cmd \in {"NEW_CONNECTION", "DATA"} => m.conn \in Conn}

Msg(cmd, ch, to, k, n) ==
  [cmd |-> cmd, ch |-> ch, to |-> to, conn |-> k, n |-> n]

\* Mutant: the channels are written as they are
WideRenumber(c, d) == Msg("RENUMBER_CONNECTION", c, d, None, 0)

NewConnection(c, k) == Msg("NEW_CONNECTION", AsByte(c), 0, k, 0)
Established(c)      == Msg("CONNECTION_ESTABLISHED", AsByte(c), 0, None, 0)
Failed(c)           == Msg("CONNECTION_FAILED", AsByte(c), 0, None, 0)
Renumber(c, d)      == Msg("RENUMBER_CONNECTION", AsByte(c), AsByte(d), None, 0)
Data(c, k, n)       == Msg("DATA", AsByte(c), 0, k, n)
Eof(c)              == Msg("EOF", AsByte(c), 0, None, 0)

S5Reply(c, k) == Data(c, k, 0)

\* while (clients[c]) ++c: the channel the search from c ends at
FirstFree(table, from, c) ==
  /\ c >= from
  /\ table[c] = None
  /\ \A d \in Slot : from <= d /\ d < c => table[d] # None

\* Mutant: new frames overtake those that waited in obuf
WriteNewFirst(e, w, frames) ==
  /\ wire' = [w EXCEPT ![Other(e)] =
                IF peer[Other(e)] = "up" THEN @ \o frames \o obuf[e] ELSE <<>>]
  /\ obuf' = [obuf EXCEPT ![e] = <<>>]

\* peer->write(): the whole obuf goes out, behind what was left there
Write(e, w, frames) ==
  /\ wire' = [w EXCEPT ![Other(e)] =
                IF peer[Other(e)] = "up" THEN @ \o obuf[e] \o frames ELSE <<>>]
  /\ obuf' = [obuf EXCEPT ![e] = <<>>]

\* append to peer->obuf with no write()
AppendObuf(e, frames) == obuf' = [obuf EXCEPT ![e] = @ \o frames]

-----------------------------------------------------------------------------
Init ==
  /\ peer = [e \in End |-> "up"]
  /\ clients = [e \in End |-> [c \in Slot |-> None]]
  /\ num = [e \in End |-> 0]
  /\ client = [e \in End |->
                [k \in Conn |-> IF Origin[k] = e THEN Asking ELSE Unborn]]
  /\ pending = [e \in End |-> {}]
  /\ timers = [e \in End |-> <<>>]
  /\ obuf = [e \in End |-> <<>>]
  /\ wire = [e \in End |-> <<>>]
  /\ sent = [e \in End |-> [k \in Conn |-> 0]]
  /\ rcvd = [e \in End |-> [k \in Conn |-> <<>>]]

-----------------------------------------------------------------------------
(***************************************************************************)
(* client_info::ready                                                      *)
(***************************************************************************)

\* REQUEST, peer_info::connect_peer: take the first free channel, ask the
\* other process to connect, stop reading the client until it answers
RequestConnect(k) ==
  LET e == Origin[k] IN
  /\ peer[e] = "up"
  /\ client[e][k].state = "REQUEST"
  /\ \E c \in Slot :
       /\ FirstFree(clients[e], 1, c)
       /\ c <= MaxChannel
       /\ Write(e, wire, <<NewConnection(c, k)>>)
       /\ clients' = [clients EXCEPT ![e][c] = k]
       /\ client' = [client EXCEPT ![e][k] =
             [state |-> "CONNECTING", channel |-> c, ignored |-> TRUE]]
  /\ num' = [num EXCEPT ![e] = @ + 1]
  /\ UNCHANGED <<peer, pending, timers, sent, rcvd>>

\* REQUEST when the client hangs up, asks for something else or for an address
\* that is not valid, or connect_peer finds no peer or no channel: it is closed.
\* That may be any request (module Peers has when connect_peer refuses one)
RequestRefused(k) ==
  LET e == Origin[k] IN
  /\ peer[e] # "crashed"
  /\ client[e][k].state = "REQUEST"
  /\ client' = [client EXCEPT ![e][k] = Closed]
  /\ UNCHANGED <<peer, clients, num, pending, timers, obuf, wire, sent, rcvd>>

\* CONNECTED: bytes read from the client go out on its channel
ClientData(e, k) ==
  /\ peer[e] = "up"
  /\ client[e][k].state = "CONNECTED"
  /\ ~client[e][k].ignored
  /\ sent[e][k] < MaxSend
  /\ sent' = [sent EXCEPT ![e][k] = @ + 1]
  /\ Write(e, wire, <<Data(client[e][k].channel, k, sent[e][k] + 1)>>)
  /\ UNCHANGED <<peer, clients, num, client, pending, timers, rcvd>>

\* CONNECTED, read() returns end of file or an error: close().  The
\* destructor clears the slot when it holds this client; num_clients stays,
\* and the other process is not told
ClientEof(e, k) ==
  /\ e \in HangUp
  /\ peer[e] = "up"
  /\ client[e][k].state = "CONNECTED"
  /\ ~client[e][k].ignored
  /\ LET c == client[e][k].channel IN
       clients' = IF clients[e][c] = k THEN [clients EXCEPT ![e][c] = None]
                                       ELSE clients
  /\ client' = [client EXCEPT ![e][k] = Closed]
  /\ UNCHANGED <<peer, num, pending, timers, obuf, wire, sent, rcvd>>

-----------------------------------------------------------------------------
(***************************************************************************)
(* The callback that peer_info::ready gives to connect_to.  It captured    *)
(* the channel found when the NEW_CONNECTION arrived, and uses it as is.   *)
(***************************************************************************)

\* What a successful callback does to the tables
Attach(e, k, req, c, watched) ==
  /\ clients' = [clients EXCEPT ![e][c] = k]
  /\ client' = [client EXCEPT ![e][k] =
        [state   |-> IF c = req THEN "CONNECTED" ELSE "NEED_RENUMBER",
         channel |-> c,
         ignored |-> c # req \/ ~watched]]
  /\ num' = [num EXCEPT ![e] = @ + 1]

\* ... and what it tells the other process
Answer(k, req, c) ==
  IF c = req THEN <<Established(c), S5Reply(c, k)>>
             ELSE <<Renumber(req, c)>>

\* connect_info::write with SO_ERROR = 0: the fd was made readable again
\* before the callback
ConnectSucceeds(e, p) ==
  /\ peer[e] = "up"
  /\ p \in pending[e]
  /\ pending' = [pending EXCEPT ![e] = @ \ {p}]
  /\ Attach(e, p.conn, p.req, p.ch, TRUE)
  /\ Write(e, wire, Answer(p.conn, p.req, p.ch))
  /\ UNCHANGED <<peer, timers, sent, rcvd>>

\* Mutant: a failure is not reported
ConnectFailsSilently(e, p) ==
  /\ peer[e] = "up"
  /\ p \in pending[e]
  /\ pending' = [pending EXCEPT ![e] = @ \ {p}]
  /\ UNCHANGED <<peer, clients, num, client, timers, obuf, wire, sent, rcvd>>

ConnectFails(e, p) ==
  /\ peer[e] = "up"
  /\ p \in pending[e]
  /\ pending' = [pending EXCEPT ![e] = @ \ {p}]
  /\ Write(e, wire, <<Failed(p.req)>>)
  /\ UNCHANGED <<peer, clients, num, client, timers, sent, rcvd>>

\* The timer of a renumber that found its channel taken
RetryRenumber(e, i) ==
  /\ peer[e] = "up"
  /\ i \in DOMAIN timers[e]
  /\ Write(e, wire, <<Renumber(timers[e][i].from, timers[e][i].to)>>)
  /\ timers' = [timers EXCEPT ![e] = SubSeq(@, 1, i - 1) \o
                                     SubSeq(@, i + 1, Len(@))]
  /\ UNCHANGED <<peer, clients, num, client, pending, sent, rcvd>>

-----------------------------------------------------------------------------
(***************************************************************************)
(* peer_info::ready, one frame per step: the loop handles the frames of    *)
(* one read in order, and TCP may deliver them one read each.              *)
(***************************************************************************)
Arrived(e, cmd) ==
  /\ peer[e] = "up"
  /\ wire[e] # <<>>
  /\ Head(wire[e]).cmd = cmd

\* Mutant: the rest of the input is thrown away with the frame
ConsumedAll(e) == [wire EXCEPT ![e] = <<>>]

Consumed(e) == [wire EXCEPT ![e] = Tail(@)]

\* The frame is used up and nothing is written
Consume(e) == wire' = Consumed(e) /\ UNCHANGED obuf

Frame1(e) == Head(wire[e])

\* Mutant: the frame stays in ibuf
RecvNewConnectionAgain(e) ==
  /\ Arrived(e, "NEW_CONNECTION")
  /\ \E c \in Slot :
       /\ FirstFree(clients[e], Frame1(e).ch, c)
       /\ c <= MaxChannel
       /\ pending' = [pending EXCEPT ![e] = @ \cup
             {[conn |-> Frame1(e).conn, req |-> Frame1(e).ch, ch |-> c]}]
  /\ UNCHANGED <<peer, clients, num, client, timers, obuf, wire, sent, rcvd>>

\* NEW_CONNECTION: search upwards from the requested channel and start to
\* connect.  The channel stays free in the table until the callback runs
RecvNewConnection(e) ==
  /\ Arrived(e, "NEW_CONNECTION")
  /\ \E c \in Slot :
       /\ FirstFree(clients[e], Frame1(e).ch, c)
       /\ c <= MaxChannel
       /\ pending' = [pending EXCEPT ![e] = @ \cup
             {[conn |-> Frame1(e).conn, req |-> Frame1(e).ch, ch |-> c]}]
  /\ Consume(e)
  /\ UNCHANGED <<peer, clients, num, client, timers, sent, rcvd>>

\* ... connect() succeeds at once: the callback runs before connect_info
\* has made the fd readable again
RecvNewConnectionImmediate(e) ==
  /\ Immediate
  /\ Arrived(e, "NEW_CONNECTION")
  /\ LET m == Frame1(e) IN
     \E c \in Slot :
       /\ FirstFree(clients[e], m.ch, c)
       /\ c <= MaxChannel
       /\ Attach(e, m.conn, m.ch, c, FALSE)
       /\ Write(e, Consumed(e), Answer(m.conn, m.ch, c))
  /\ UNCHANGED <<peer, pending, timers, sent, rcvd>>

\* ... no channel up to MaxChannel, no such target, or connect() fails at
\* once
RecvNewConnectionRefused(e) ==
  /\ Arrived(e, "NEW_CONNECTION")
  /\ Write(e, Consumed(e), <<Failed(Frame1(e).ch)>>)
  /\ UNCHANGED <<peer, clients, num, client, pending, timers, sent, rcvd>>

\* CONNECTION_ESTABLISHED; the reply of a renumbered client is appended to
\* obuf, and not written
RecvEstablished(e) ==
  /\ Arrived(e, "CONNECTION_ESTABLISHED")
  /\ LET c == Frame1(e).ch
         k == clients[e][c] IN
       IF k = None
       THEN UNCHANGED <<client, obuf>>
       ELSE /\ IF client[e][k].state = "NEED_RENUMBER"
               THEN AppendObuf(e, <<S5Reply(client[e][k].channel, k)>>)
               ELSE UNCHANGED obuf
            /\ client' = [client EXCEPT ![e][k] = Connected(@)]
  /\ wire' = Consumed(e)
  /\ UNCHANGED <<peer, clients, num, pending, timers, sent, rcvd>>

\* Mutant: the slot keeps its pointer
DropKeepsSlot(e, c) ==
  IF clients[e][c] = None
  THEN UNCHANGED <<clients, num, client>>
  ELSE /\ client' = [client EXCEPT ![e][clients[e][c]] = Closed]
       /\ num' = [num EXCEPT ![e] = @ - 1]
       /\ UNCHANGED clients

\* Mutant: num_clients goes down for an empty slot too
DropMiscounts(e, c) ==
  /\ num' = [num EXCEPT ![e] = @ - 1]
  /\ IF clients[e][c] = None
     THEN UNCHANGED <<clients, client>>
     ELSE /\ client' = [client EXCEPT ![e][clients[e][c]] = Closed]
          /\ clients' = [clients EXCEPT ![e][c] = None]

\* The end of the client in slot c: closed, slot cleared, one client less
Drop(e, c) ==
  IF clients[e][c] = None
  THEN UNCHANGED <<clients, num, client>>
  ELSE /\ client' = [client EXCEPT ![e][clients[e][c]] = Closed]
       /\ clients' = [clients EXCEPT ![e][c] = None]
       /\ num' = [num EXCEPT ![e] = @ - 1]

\* CONNECTION_FAILED (the client is sent the error first) and end of file on
\* a channel
RecvFailedOrEof(e) ==
  /\ Arrived(e, "CONNECTION_FAILED") \/ Arrived(e, "EOF")
  /\ Drop(e, Frame1(e).ch)
  /\ Consume(e)
  /\ UNCHANGED <<peer, pending, timers, sent, rcvd>>

\* RENUMBER_CONNECTION for a channel with no client
RecvRenumberInvalid(e) ==
  /\ Arrived(e, "RENUMBER_CONNECTION")
  /\ clients[e][Frame1(e).ch] = None
  /\ Consume(e)
  /\ UNCHANGED <<peer, clients, num, client, pending, timers, sent, rcvd>>

\* Mutant: the client that moves is counted again
MoveCounted(e) ==
  /\ Arrived(e, "RENUMBER_CONNECTION")
  /\ LET c == Frame1(e).ch
         d == Frame1(e).to
         k == clients[e][c] IN
     /\ k # None
     /\ d = c \/ clients[e][d] = None
     /\ clients' = [clients EXCEPT ![e] = [[@ EXCEPT ![c] = None] EXCEPT ![d] = k]]
     /\ client' = [client EXCEPT ![e][k] =
           [state |-> "CONNECTED", channel |-> d, ignored |-> FALSE]]
     /\ Write(e, Consumed(e), <<Established(d)>>)
  /\ num' = [num EXCEPT ![e] = @ + 1]
  /\ UNCHANGED <<peer, pending, timers, sent, rcvd>>

\* ... the new channel is free: move the client there and confirm
RecvRenumberMove(e) ==
  /\ Arrived(e, "RENUMBER_CONNECTION")
  /\ LET c == Frame1(e).ch
         d == Frame1(e).to
         k == clients[e][c] IN
     /\ k # None
     /\ d = c \/ clients[e][d] = None
     /\ clients' = [clients EXCEPT ![e] = [[@ EXCEPT ![c] = None] EXCEPT ![d] = k]]
     /\ client' = [client EXCEPT ![e][k] =
           [state |-> "CONNECTED", channel |-> d, ignored |-> FALSE]]
     /\ Write(e, Consumed(e),
              IF client[e][k].state = "NEED_RENUMBER"
              THEN <<Established(d), S5Reply(d, k)>> ELSE <<Established(d)>>)
  /\ UNCHANGED <<peer, num, pending, timers, sent, rcvd>>

\* ... the new channel is taken: move the client up to the next free channel
\* and, after a while, ask the other process to renumber in turn
RecvRenumberTaken(e) ==
  /\ Arrived(e, "RENUMBER_CONNECTION")
  /\ LET c == Frame1(e).ch
         d == Frame1(e).to
         k == clients[e][c]
         table == [clients[e] EXCEPT ![c] = None] IN
     /\ k # None
     /\ d # c /\ clients[e][d] # None
     /\ \E g \in Slot :
          /\ FirstFree(table, c + 1, g)
          /\ clients' = [clients EXCEPT ![e] = [table EXCEPT ![g] = k]]
          /\ client' = [client EXCEPT ![e][k] = MovedTo(@, g)]
          /\ timers' = [timers EXCEPT ![e] = Append(@, [from |-> d, to |-> g])]
  /\ Consume(e)
  /\ UNCHANGED <<peer, num, pending, sent, rcvd>>

\* Bytes for a channel: to its client, or answered with end of file
RecvData(e) ==
  /\ Arrived(e, "DATA")
  /\ Frame1(e).ch # 0
  /\ LET m == Frame1(e)
         k == clients[e][m.ch] IN
       IF k = None
       THEN /\ Write(e, Consumed(e), <<Eof(m.ch)>>)
            /\ UNCHANGED <<client, rcvd>>
       ELSE /\ client' = IF client[e][k].state = "CONNECTING"
                         THEN [client EXCEPT ![e][k] = Connected(@)]
                         ELSE client
            /\ rcvd' = [rcvd EXCEPT ![e][k] =
                          Append(@, [conn |-> m.conn, n |-> m.n])]
            /\ Consume(e)
  /\ UNCHANGED <<peer, clients, num, pending, timers, sent>>

\* A channel number that was cut to 0 makes the bytes a control message; the
\* bytes of the run are no valid command
RecvGarbage(e) ==
  /\ Arrived(e, "DATA")
  /\ Frame1(e).ch = 0
  /\ Consume(e)
  /\ UNCHANGED <<peer, clients, num, client, pending, timers, sent, rcvd>>

-----------------------------------------------------------------------------
(***************************************************************************)
(* Loss of the peer connection.                                            *)
(***************************************************************************)

\* Mutant: the destructor of the peer forgets its clients
PeerLostForgets(e) ==
  /\ LinkFails
  /\ peer[e] = "up"
  /\ peer' = [peer EXCEPT ![e] = "closed"]
  /\ clients' = [clients EXCEPT ![e] = [c \in Slot |-> None]]
  /\ num' = [num EXCEPT ![e] = 0]
  /\ obuf' = [obuf EXCEPT ![e] = <<>>]
  /\ wire' = [wire EXCEPT ![e] = <<>>]
  /\ UNCHANGED <<client, pending, timers, sent, rcvd>>

\* peer_info::ready reads end of file or an error: close(), and the
\* destructor closes every client in the table
PeerLost(e) ==
  /\ LinkFails
  /\ peer[e] = "up"
  /\ peer' = [peer EXCEPT ![e] = "closed"]
  /\ client' = [client EXCEPT ![e] =
        [k \in Conn |-> IF \E c \in Slot : clients[e][c] = k
                        THEN Closed ELSE client[e][k]]]
  /\ clients' = [clients EXCEPT ![e] = [c \in Slot |-> None]]
  /\ num' = [num EXCEPT ![e] = 0]
  /\ obuf' = [obuf EXCEPT ![e] = <<>>]
  /\ wire' = [wire EXCEPT ![e] = <<>>]
  /\ UNCHANGED <<pending, timers, sent, rcvd>>

\* Code that still holds the deleted peer_info runs: the callback of a
\* connect_to, a renumber timer, or a client the destructor did not find
UseAfterDelete(e) ==
  /\ peer[e] = "closed"
  /\ \/ pending[e] # {}
     \/ timers[e] # <<>>
     \/ \E k \in Conn : Attached(e, k)
  /\ peer' = [peer EXCEPT ![e] = "crashed"]
  /\ UNCHANGED <<clients, num, client, pending, timers, obuf, wire, sent, rcvd>>

-----------------------------------------------------------------------------
\* The steps of the event loop of e when a frame has come from its peer
Receive(e) ==
  \/ RecvNewConnection(e)
  \/ RecvNewConnectionImmediate(e)
  \/ RecvNewConnectionRefused(e)
  \/ RecvEstablished(e)
  \/ RecvFailedOrEof(e)
  \/ RecvRenumberInvalid(e)
  \/ RecvRenumberMove(e)
  \/ RecvRenumberTaken(e)
  \/ RecvData(e)
  \/ RecvGarbage(e)

Callback(e) ==
  \/ \E p \in pending[e] : ConnectSucceeds(e, p) \/ ConnectFails(e, p)
  \/ \E i \in DOMAIN timers[e] : RetryRenumber(e, i)

Next ==
  \/ \E k \in Conn : RequestConnect(k) \/ RequestRefused(k)
  \/ \E e \in End, k \in Conn : ClientData(e, k) \/ ClientEof(e, k)
  \/ \E e \in End : Receive(e) \/ Callback(e) \/ PeerLost(e) \/ UseAfterDelete(e)

Spec == Init /\ [][Next]_vars

\* The peer's socket was closed, by the other ptunnel or with its process
LinkEnds(e) == peer[Other(e)] # "up" /\ PeerLost(e)

(***************************************************************************)
(* Every frame that has arrived makes the peer's fd readable, as does the  *)
(* end of the connection when the other process has closed it; every       *)
(* connect() ends (at the latest when TCP gives up) and every timer        *)
(* expires.  The event loop then runs the handler.  The parties outside    *)
(* promise nothing, and the connection need not fail.                      *)
(***************************************************************************)
Fairness ==
  \A e \in End : WF_vars(Receive(e)) /\ WF_vars(Callback(e)) /\ WF_vars(LinkEnds(e))

FairSpec == Spec /\ Fairness

-----------------------------------------------------------------------------
(***************************************************************************)
(* Properties.                                                             *)
(***************************************************************************)
Occupied(e) == {c \in Slot : clients[e][c] # None}

\* Every variable stays in its domain.
TypeOK ==
  /\ peer \in [End -> {"up", "closed", "crashed"}]
  /\ clients \in [End -> [Slot -> Conn \cup {None}]]
  /\ num \in [End -> Int]
  /\ client \in [End -> [Conn -> Client]]
  /\ pending \in [End -> SUBSET [conn : Conn, req : Byte, ch : Byte]]
  /\ timers \in [End -> Seq([from : Byte, to : Slot])]
  /\ obuf \in [End -> Seq(Frame)]
  /\ wire \in [End -> Seq(Frame)]
  /\ sent \in [End -> [Conn -> 0 .. MaxSend]]
  /\ rcvd \in [End -> [Conn -> Seq(Item)]]

\* peer_info::clients never points at a client_info that was closed (deleted),
\* and a client in a slot knows that slot as its channel: whatever order the
\* requests, callbacks, renumberings and closings of the two processes take.
TableConsistent ==
  \A e \in End, c \in Slot :
    clients[e][c] # None =>
      /\ Attached(e, clients[e][c])
      /\ client[e][clients[e][c]].channel = c

IsRequest(m, k) == m.cmd = "NEW_CONNECTION" /\ m.conn = k

\* The target of k is asked for, and the callback at e has not run
Requested(e, k) ==
  \/ \E i \in DOMAIN wire[e] : IsRequest(wire[e][i], k)
  \/ \E p \in pending[e] : p.conn = k

\* A session is connected to its target at most once: there is one request or
\* one running connect() for it at a time, only at the other process, and only
\* between the client's own request and the birth of the second client.
RequestsOnce ==
  \A e \in End :
    /\ \A i \in DOMAIN obuf[e] : obuf[e][i].cmd # "NEW_CONNECTION"
    /\ \A p, q \in pending[e] : p.conn = q.conn => p = q
    /\ \A i, j \in DOMAIN wire[e], k \in Conn :
         IsRequest(wire[e][i], k) /\ IsRequest(wire[e][j], k) => i = j
    /\ \A i \in DOMAIN wire[e], p \in pending[e] : ~IsRequest(wire[e][i], p.conn)
    /\ \A k \in Conn :
         Requested(e, k) => /\ e # Origin[k]
                            /\ client[e][k].state = "NONE"
                            /\ client[Origin[k]][k].state # "REQUEST"
    /\ \A k \in Conn :
         client[Origin[k]][k].state = "REQUEST" /\ e # Origin[k] =>
           client[e][k].state = "NONE"

\* A client is not read before its channel is agreed (ignore(true)), and is read
\* once its connection is complete (ignore(false)).  The exception is a client
\* that a connect() made before it returned: connect_to leaves it ignored.
ReadWhenConnected ==
  \A e \in End, k \in Conn :
    Attached(e, k) =>
      /\ client[e][k].state # "CONNECTED" => client[e][k].ignored
      /\ client[e][k].state = "CONNECTED" /\ client[e][k].ignored =>
           Immediate /\ e # Origin[k]

\* What the process that connected to the target has written for k and its
\* peer has not read yet
InFlight(k) == LET o == Origin[k] IN wire[o] \o obuf[Other(o)]

IsItem(m, k) == m.cmd = "DATA" /\ m.conn = k

\* The SOCKS reply of a session (item 0) is made at most once, by a client that
\* is connected, and no byte from the target is ahead of it or out of order,
\* however often the channel is renumbered, however long the reply waits in
\* obuf, and whatever frames of other sessions are between.
ReplyOnceAndFirst ==
  \A k \in Conn :
    LET e == Other(Origin[k])
        q == InFlight(k)
    IN \A i \in DOMAIN q : IsItem(q[i], k) =>
         /\ client[e][k].state \notin {"NONE", "NEED_RENUMBER"}
         /\ q[i].n <= sent[e][k]
         /\ \A j \in DOMAIN q : IsItem(q[j], k) /\ i < j => q[i].n < q[j].n

\* num_clients, by which connect_peer chooses the least busy peer, never says
\* less than the clients in the table, and never goes below 0.
CountCoversTable ==
  \A e \in End : Cardinality(Occupied(e)) <= num[e]

Drift(e) == num[e] - Cardinality(Occupied(e))

HasSlot(e, k) == \E c \in Slot : clients[e][c] = k

\* The clients that leave the table of e in this step with no frame that says so:
\* overwritten, or closed by the party outside
LeaveUncounted(e) ==
  {k \in Conn :
     /\ HasSlot(e, k) /\ ~HasSlot(e, k)'
     /\ client'[e][k].state # "CLOSED" \/ wire'[e] = wire[e]}

\* num_clients is counted up and down with the table, through every attach,
\* renumbering and closing: what it says too much of a peer is exactly the clients
\* that were overwritten or hung up since the peer connected.  (Nothing counts
\* those down, so the excess never goes away.)
DriftsByLossOnly ==
  [][\A e \in End :
       peer'[e] = "up" => Drift(e)' = Drift(e) + Cardinality(LeaveUncounted(e))]_vars

\* A client_info that has a peer is in that peer's table at its channel: the
\* other case is the ERROR of ~client_info.
ClientOwnsSlot ==
  \A e \in End, k \in Conn :
    Attached(e, k) => clients[e][client[e][k].channel] = k

\* No callback, timer or client uses a peer_info that was deleted.
NoUseAfterDelete == \A e \in End : peer[e] # "crashed"

\* What is appended to a peer's obuf is written.
ObufWritten == \A e \in End : obuf[e] # <<>> ~> obuf[e] = <<>>

\* A session whose target was asked for is answered: its client is connected,
\* or closed.
RequestAnswered ==
  \A k \in Conn :
    client[Origin[k]][k].state = "CONNECTING" ~>
      client[Origin[k]][k].state \in {"CONNECTED", "CLOSED"}

\* Every data unit sent to client[e][k] was handed to the party there, unless
\* that client is gone
AllArrived(e, k) ==
  \/ \A n \in 1 .. sent[Other(e)][k] :
       [conn |-> k, n |-> n] \in {rcvd[e][k][i] : i \in DOMAIN rcvd[e][k]}
  \/ client[e][k].state = "CLOSED"

\* No data unit stays under way: again and again, everything that was sent has
\* reached the party at the other end, or its session has been closed there,
\* also when the link fails while data are on it.  (The data units of a run are
\* bounded, so that the parties pause.)
DataArrives == []<>(\A e \in End, k \in Conn : AllArrived(e, k))

(***************************************************************************)
(* The sessions of Tunnel as the pipes of Pipes.  A session is asked for   *)
(* while its NEW_CONNECTION or its connect() is on the way, and opened     *)
(* when the callback of connect_to makes its second client.                *)
(***************************************************************************)
Sessions ==
  INSTANCE Pipes WITH
    fresh  <- {k \in Conn : client[Origin[k]][k].state = "REQUEST"},
    asked  <- {k \in Conn : Requested(Other(Origin[k]), k)},
    opened <- {k \in Conn : client[Other(Origin[k])][k].state # "NONE"},
    shut   <- {s \in End \X Conn : client[s[1]][s[2]].state = "CLOSED"}

\* The channels, frames and callbacks implement independent pipes.
ImplementsPipes == Sessions!Spec
=============================================================================
