------------------------------- MODULE Socks5 -------------------------------
(***************************************************************************)
(* One SOCKS5 session from its first byte: a client, and the client_info   *)
(* that serves it (client_info::ready in proxy.cpp).  The client is either *)
(* a program outside, or the socks5_connect_info with which ptunnel makes  *)
(* its tunnel through a SOCKS server (connect.cpp).  The channel protocol  *)
(* behind client_info is module Tunnel; here it only connects or fails.    *)
(*                                                                         *)
(* What an end has sent is fixed by its script.  ibuf always holds the     *)
(* part of it that was read and not erased: it is the window (off, read]   *)
(* of the other end's bytes.  A read() moves any number of bytes; then the *)
(* loop of ready() runs, one action per turn, until it returns.            *)
(***************************************************************************)
EXTENDS Addresses

CONSTANTS
  Scripts,   \* the clients of the run: what each of them sends
  Replies,   \* the replies a server may give for a connection that was made
  Down,      \* what the target sends
  MaxFrame   \* 255: the most bytes a frame carries

ByteValue == 0 .. 255

Script == [kind : {"outside", "ptunnel"}, greeting : Seq(ByteValue),
           request : Seq(ByteValue), payload : Seq(ByteValue)]

ASSUME SocksConstants ==
  /\ Scripts \subseteq Script
  /\ Replies \subseteq Seq(ByteValue)
  /\ Down \in Seq(ByteValue)
  /\ MaxFrame \in Nat \ {0}

VARIABLES
  script,    \* the client's script
  step,      \* how many of its three messages the client has sent
  server,    \* the client_info, with its window of the client's bytes
  asked,     \* the addresses given to connect_peer and accepted by it
  frames,    \* the frames appended to the peer's obuf, as windows (from, upto]
  target,    \* how far the other process is: "none", "replied", "data"
  written,   \* what client_info wrote to its client
  client,    \* the socks5_connect_info, with its window of written
  early      \* which messages were judged before they had arrived

vars == <<script, step, server, asked, frames, target, written, client, early>>

ServerStates == {"START", "REQUEST", "CONNECTING", "CONNECTED", "CLOSED"}
ClientStates == {"OUTSIDE", "GONE", "START", "CONNECTING", "CONNECTED", "FAILED"}

\* All that the client ever sends, and how much of it is sent
Stream == script.greeting \o script.request \o script.payload
SentLen ==
  (IF step >= 1 THEN Len(script.greeting) ELSE 0) +
  (IF step >= 2 THEN Len(script.request) ELSE 0) +
  (IF step >= 3 THEN Len(script.payload) ELSE 0)

\* ibuf.size() and ibuf[i - 1] for the window w of s: a std::string has a 0 at
\* its end
Size(w) == w.read - w.off
At(s, w, i) == IF w.off + i <= w.read THEN s[w.off + i] ELSE 0

\* Mutant: as if the bytes were there
ErasedPast(w, n) == w.off + n

\* ibuf.erase(0, n): where the window starts then
Erased(w, n) == Lesser(w.off + n, w.read)

End(state, off, read, busy) ==
  [state |-> state, off |-> off, read |-> read, busy |-> busy]

\* What connect_info's greeting and request for a name and a port are:
\* inet_aton looks at buf+4, which is 0, so that every address goes as a name
PtunnelScript(name, port, payload) ==
  [kind |-> "ptunnel", greeting |-> <<5, 1, 0>>,
   request |-> <<5, 1, 0, 3, Len(name)>> \o name \o
               <<(port \div 256) % 256, port % 256>>,
   payload |-> payload]

\* addrlen: the length of an address and its port behind the type
AddrLen(type, name) ==
  CASE type = 1 -> 6 [] type = 4 -> 18 [] type = 3 -> name + 3 [] OTHER -> 0

\* The messages have the lengths they announce: where a client's bytes are cut
\* into messages is its own affair
WellFormed(s) ==
  /\ Len(s.greeting) >= 2 /\ Len(s.greeting) = s.greeting[2] + 2
  /\ Len(s.request) >= 6
  /\ s.request[4] \in {1, 3, 4} =>
       Len(s.request) = AddrLen(s.request[4], s.request[5]) + 4
  /\ s.kind = "ptunnel" => Len(s.greeting) = 3 /\ s.request[4] = 3

ASSUME ScriptsWellFormed == \A s \in Scripts : WellFormed(s)

\* A server's reply for a connection that was made: version 5, success, and an
\* address of the length it announces
ASSUME RepliesWellFormed ==
  \A r \in Replies :
    /\ Len(r) >= 5 /\ r[1] = 5 /\ r[2] = 0
    /\ r[4] \in {1, 3, 4} /\ Len(r) = AddrLen(r[4], r[5]) + 4

-----------------------------------------------------------------------------
Init ==
  /\ script \in Scripts
  /\ step = IF script.kind = "ptunnel" THEN 1 ELSE 0
  /\ server = End("START", 0, 0, FALSE)
  /\ asked = <<>>
  /\ frames = <<>>
  /\ target = "none"
  /\ written = <<>>
  /\ client = End(IF script.kind = "ptunnel" THEN "START" ELSE "OUTSIDE", 0, 0, FALSE)
  /\ early = {}

-----------------------------------------------------------------------------
(***************************************************************************)
(* client_info::ready: read(), then the loop.                              *)
(***************************************************************************)

\* Mutant: ignore(false) is forgotten
WatchedToRequest == server.state \in {"START", "REQUEST"} /\ ~server.busy

\* Not while ignore(true) holds
Watched == server.state \in {"START", "REQUEST", "CONNECTED"} /\ ~server.busy

ServerRead ==
  /\ Watched
  /\ \E n \in server.read + 1 .. SentLen :
       server' = End(server.state, server.off, n, TRUE)
  /\ UNCHANGED <<script, step, asked, frames, target, written, client, early>>

\* read() returns end of file or an error: what is left in ibuf goes with it
ServerEof ==
  /\ Watched
  /\ server.read = SentLen
  /\ client.state \in {"GONE", "FAILED"}
  /\ server' = [server EXCEPT !.state = "CLOSED"]
  /\ UNCHANGED <<script, step, asked, frames, target, written, client, early>>

Ibuf(i) == At(Stream, server, i)

\* The loop goes on in this state
Looping(state) == server.busy /\ server.state = state /\ Size(server) > 0

Closes == server' = [server EXCEPT !.state = "CLOSED", !.busy = FALSE]

\* START returns for more when this holds; it was meant to be ||
GreetingCut == Size(server) <= 2 /\ Size(server) < Ibuf(2) + 2

\* Mutant: the methods are not looked at
MethodsIgnored == FALSE

\* memchr over as many bytes as the client said it offers; the 0 behind the
\* end of ibuf counts
NoneOffered == \A i \in 1 .. Ibuf(2) : Ibuf(2 + i) # 0

\* The greeting is erased, as far as it is there
GreetingUsed(state) ==
  /\ server' = End(state, Erased(server, Ibuf(2) + 2), server.read, state # "CLOSED")
  /\ early' = IF Size(server) < Ibuf(2) + 2 THEN early \cup {"greeting"} ELSE early

BadGreeting ==
  /\ Looping("START") /\ ~GreetingCut
  /\ Ibuf(1) # 5
  /\ GreetingUsed("CLOSED")
  /\ UNCHANGED <<script, step, asked, frames, target, written, client>>

NeedsAuthentication ==
  /\ Looping("START") /\ ~GreetingCut
  /\ Ibuf(1) = 5 /\ NoneOffered
  /\ written' = written \o <<5, 255>>
  /\ GreetingUsed("CLOSED")
  /\ UNCHANGED <<script, step, asked, frames, target, client>>

Greeted ==
  /\ Looping("START") /\ ~GreetingCut
  /\ Ibuf(1) = 5 /\ ~NoneOffered
  /\ written' = written \o <<5, 0>>
  /\ GreetingUsed("REQUEST")
  /\ UNCHANGED <<script, step, asked, frames, target, client>>

\* Version or command of the request are not 5 and 1
BadRequest ==
  /\ Looping("REQUEST") /\ Size(server) >= 6
  /\ Ibuf(1) # 5 \/ Ibuf(2) # 1
  /\ Closes
  /\ UNCHANGED <<script, step, asked, frames, target, written, client, early>>

GoodRequest ==
  Looping("REQUEST") /\ Size(server) >= 6 /\ Ibuf(1) = 5 /\ Ibuf(2) = 1

RequestLen == AddrLen(Ibuf(4), Ibuf(5)) + 4

\* Mutant: short requests wait for more
RequestCutAtTen == Size(server) <= 10 \/ Size(server) < RequestLen

RequestCut == Size(server) < 6 \/ Size(server) < RequestLen

\* The address in ibuf
Address == S5Addr(SubSeq(Stream, server.off + 4, server.off + RequestLen))

\* An address type that is not supported is answered, and then again when
\* connect_peer is given an address of length 0
BadType ==
  /\ GoodRequest /\ Ibuf(4) \notin {1, 3, 4}
  /\ written' = written \o <<5, 8, 0, 0>> \o <<5, 1, 0, 0>>
  /\ Closes
  /\ UNCHANGED <<script, step, asked, frames, target, client, early>>

\* connect_peer returns nullptr: the address is not valid, or there is no peer
\* or no channel (any of them at any time)
RequestRefused ==
  /\ GoodRequest /\ ~RequestCut /\ Ibuf(4) \in {1, 3, 4}
  /\ written' = written \o <<5, 1, 0, 0>>
  /\ Closes
  /\ UNCHANGED <<script, step, asked, frames, target, client, early>>

RequestMade ==
  /\ GoodRequest /\ ~RequestCut /\ Ibuf(4) \in {1, 3, 4}
  /\ Valid(Address)
  /\ asked' = Append(asked, Address)
  /\ server' = End("CONNECTING", Erased(server, RequestLen), server.read, TRUE)
  /\ UNCHANGED <<script, step, frames, target, written, client, early>>

\* Mutant: a frame is one byte longer than it can say
LongFrame == Lesser(Size(server), MaxFrame + 1)

FrameSize == Lesser(Size(server), MaxFrame)

\* Mutant: one frame for each read()
CopyOnce ==
  /\ Looping("CONNECTED")
  /\ LET upto == server.off + FrameSize IN
       /\ frames' = Append(frames, <<server.off, upto>>)
       /\ server' = End("CONNECTED", upto, server.read, FALSE)
  /\ UNCHANGED <<script, step, asked, target, written, client, early>>

Copy ==
  /\ Looping("CONNECTED")
  /\ LET upto == server.off + FrameSize IN
       /\ frames' = Append(frames, <<server.off, upto>>)
       /\ server' = End("CONNECTED", upto, server.read, TRUE)
  /\ UNCHANGED <<script, step, asked, target, written, client, early>>

\* ibuf is empty, a message is not complete, or the connection is in progress
ServerReturns ==
  /\ server.busy
  /\ \/ Size(server) = 0
     \/ server.state = "START" /\ GreetingCut
     \/ server.state = "REQUEST" /\ Size(server) < 6
     \/ GoodRequest /\ RequestCut
     \/ server.state = "CONNECTING"
  /\ server' = [server EXCEPT !.busy = FALSE]
  /\ UNCHANGED <<script, step, asked, frames, target, written, client, early>>

-----------------------------------------------------------------------------
(***************************************************************************)
(* What peer_info does to the client_info, between its own handlers.       *)
(***************************************************************************)

\* CONNECTION_ESTABLISHED, or the first bytes: read the client again
Established ==
  /\ server.state = "CONNECTING" /\ ~server.busy
  /\ server' = [server EXCEPT !.state = "CONNECTED"]
  /\ UNCHANGED <<script, step, asked, frames, target, written, client, early>>

\* The reply that the other process makes (send_s5reply)
Reply ==
  /\ server.state \in {"CONNECTING", "CONNECTED"} /\ ~server.busy
  /\ target = "none"
  /\ target' = "replied"
  /\ \E r \in Replies : written' = written \o r
  /\ server' = [server EXCEPT !.state = "CONNECTED"]
  /\ UNCHANGED <<script, step, asked, frames, client, early>>

TargetData ==
  /\ server.state = "CONNECTED" /\ ~server.busy
  /\ target = "replied"
  /\ target' = "data"
  /\ written' = written \o Down
  /\ UNCHANGED <<script, step, server, asked, frames, client, early>>

\* Mutant: the client is told, and not closed
FailedStaysOpen ==
  /\ server.state = "CONNECTING" /\ ~server.busy
  /\ written' = written \o <<5, 1, 0, 0>>
  /\ UNCHANGED <<script, step, server, asked, frames, target, client, early>>

\* CONNECTION_FAILED
Failed ==
  /\ server.state = "CONNECTING" /\ ~server.busy
  /\ written' = written \o <<5, 1, 0, 0>>
  /\ Closes
  /\ UNCHANGED <<script, step, asked, frames, target, client, early>>

\* End of file on the channel, or the peer is lost
PeerGone ==
  /\ server.state \in {"CONNECTING", "CONNECTED"} /\ ~server.busy
  /\ Closes
  /\ UNCHANGED <<script, step, asked, frames, target, written, client, early>>

-----------------------------------------------------------------------------
(***************************************************************************)
(* A client outside: it may send at any time, answered or not, and hang    *)
(* up at any time.                                                         *)
(***************************************************************************)
OutsideSends ==
  /\ client.state = "OUTSIDE" /\ step < 3
  /\ step' = step + 1
  /\ UNCHANGED <<script, server, asked, frames, target, written, client, early>>

OutsideHangsUp ==
  /\ client.state = "OUTSIDE"
  /\ client' = [client EXCEPT !.state = "GONE"]
  /\ UNCHANGED <<script, step, server, asked, frames, target, written, early>>

-----------------------------------------------------------------------------
(***************************************************************************)
(* socks5_connect_info::ready.                                             *)
(***************************************************************************)
ClientWatched == client.state \in {"START", "CONNECTING"} /\ ~client.busy

ClientRead ==
  /\ ClientWatched
  /\ \E n \in client.read + 1 .. Len(written) :
       client' = End(client.state, client.off, n, TRUE)
  /\ UNCHANGED <<script, step, server, asked, frames, target, written, early>>

ClientEof ==
  /\ ClientWatched
  /\ client.read = Len(written) /\ server.state = "CLOSED"
  /\ client' = [client EXCEPT !.state = "FAILED"]
  /\ UNCHANGED <<script, step, server, asked, frames, target, written, early>>

Answer(i) == At(written, client, i)

ClientLooping(state) == client.busy /\ client.state = state /\ Size(client) >= 2

\* The server takes the method: send the request
ClientMethod ==
  /\ ClientLooping("START")
  /\ Answer(1) = 5 /\ Answer(2) = 0
  /\ step' = 2
  /\ client' = End("CONNECTING", Erased(client, 2), client.read, TRUE)
  /\ UNCHANGED <<script, server, asked, frames, target, written, early>>

\* Wrong version, an error, or an address type that is not known (0 when it
\* has not arrived)
ClientFails ==
  /\ client.busy /\ Size(client) >= 2
  /\ \/ Answer(1) # 5 \/ Answer(2) # 0
     \/ client.state = "CONNECTING" /\ Answer(4) \notin {1, 3, 4}
  /\ client' = [client EXCEPT !.state = "FAILED", !.busy = FALSE]
  /\ early' = IF client.state = "CONNECTING" /\ Answer(2) = 0 /\ Size(client) < 4
              THEN early \cup {"reply"} ELSE early
  /\ UNCHANGED <<script, step, server, asked, frames, target, written>>

\* Mutant: the port of a reply with a name is left
ReplyLenNoPort(type, name) ==
  CASE type = 1 -> 10 [] type = 3 -> name + 5 [] type = 4 -> 22

ReplyLen(type, name) ==
  CASE type = 1 -> 10 [] type = 3 -> name + 7 [] type = 4 -> 22

\* The connection is there: what is behind the reply is handed over in ibuf
ClientConnected ==
  /\ ClientLooping("CONNECTING")
  /\ Answer(1) = 5 /\ Answer(2) = 0 /\ Answer(4) \in {1, 3, 4}
  /\ LET len == ReplyLen(Answer(4), Answer(5)) IN
       /\ client' = End("CONNECTED", Erased(client, len), client.read, FALSE)
       /\ early' = IF Size(client) < len THEN early \cup {"reply"} ELSE early
  /\ UNCHANGED <<script, step, server, asked, frames, target, written>>

ClientReturns ==
  /\ client.busy /\ Size(client) < 2
  /\ client' = [client EXCEPT !.busy = FALSE]
  /\ UNCHANGED <<script, step, server, asked, frames, target, written, early>>

\* The peer_info that took over writes its first bytes
TunnelSends ==
  /\ client.state = "CONNECTED" /\ step = 2
  /\ step' = 3
  /\ UNCHANGED <<script, server, asked, frames, target, written, client, early>>

-----------------------------------------------------------------------------
ServerStep ==
  \/ ServerRead \/ ServerEof \/ ServerReturns
  \/ BadGreeting \/ NeedsAuthentication \/ Greeted
  \/ BadRequest \/ BadType \/ RequestRefused \/ RequestMade
  \/ Copy

ClientStep ==
  ClientRead \/ ClientEof \/ ClientMethod \/ ClientFails \/ ClientConnected \/ ClientReturns

PeerStep == Established \/ Reply \/ TargetData \/ Failed \/ PeerGone

Next ==
  \/ ServerStep \/ ClientStep \/ PeerStep
  \/ OutsideSends \/ OutsideHangsUp \/ TunnelSends

Spec == Init /\ [][Next]_vars

\* The request is answered over the tunnel, or the tunnel is lost
Outcome == target = "none" /\ (Reply \/ Failed \/ PeerGone)

(***************************************************************************)
(* run() calls the handler of a descriptor that can be read (InputServed   *)
(* of IoManage), a handler returns, and a request has an outcome             *)
(* (RequestAnswered of Tunnel).  Clients and targets promise nothing.      *)
(***************************************************************************)
Fairness == WF_vars(ServerStep) /\ WF_vars(ClientStep) /\ WF_vars(Outcome)

FairSpec == Spec /\ Fairness

-----------------------------------------------------------------------------
(***************************************************************************)
(* Properties.  A greeting, or a server's reply, may be judged before it   *)
(* has arrived: early.                                                     *)
(***************************************************************************)

\* Every variable stays in its domain, and no window leaves what was sent.
TypeOK ==
  /\ script \in Scripts
  /\ step \in 0 .. 3
  /\ server \in [state : ServerStates, off : Nat, read : Nat, busy : BOOLEAN]
  /\ server.off <= server.read /\ server.read <= SentLen
  /\ asked \in Seq(Seq(ByteValue))
  /\ frames \in Seq(Nat \X Nat)
  /\ target \in {"none", "replied", "data"}
  /\ written \in Seq(ByteValue)
  /\ client \in [state : ClientStates, off : Nat, read : Nat, busy : BOOLEAN]
  /\ client.off <= client.read /\ client.read <= Len(written)
  /\ early \subseteq {"greeting", "reply"}

\* The bytes before the payload
HeadLen == Len(script.greeting) + Len(script.request)

\* However the client's bytes are cut, and however many messages one read()
\* brings, the tunnel is given exactly the payload: the first frame starts
\* where the request ends, each goes on where the one before it ended, none is
\* empty (that is an end of file) or longer than its length byte can say.
FramesExact ==
  "greeting" \notin early =>
    /\ \A i \in DOMAIN frames :
         /\ frames[i][1] = IF i = 1 THEN HeadLen ELSE frames[i - 1][2]
         /\ frames[i][2] - frames[i][1] \in 1 .. MaxFrame
    /\ frames # <<>> => frames[Len(frames)][2] = server.off

\* Once connected, what a read() brings does not stay in ibuf: only bytes that
\* came before the connection was complete do, until the next read(); an end of
\* file drops no others.
OnlyEarlyBytesWait ==
  server.state \in {"CONNECTED", "CLOSED"} /\ ~server.busy /\ frames # <<>> =>
    server.off = server.read

\* The client offers to go without authentication
OffersNone ==
  \E i \in 3 .. Len(script.greeting) : script.greeting[i] = 0

\* A request is made at most once, only for a client that offered the method
\* it was given, for the address that the client named, and the other process
\* connects there.  Two kinds of address do not get there: IPv6 addresses, which
\* get_address gives the wrong family, and names of more than 249 bytes, for
\* which the length byte of the frame wraps.
AskedRight ==
  "greeting" \notin early /\ asked # <<>> =>
    LET named == SubSeq(script.request, 4, Len(script.request)) IN
    /\ OffersNone
    /\ asked = <<named>>
    /\ named[1] # 4 /\ Crosses(named) => Reached(named) = Named(named)

\* The answers that a client may see: one for its greeting, then at most one
\* for its request, a success only after the request was made, and nothing
\* after a failure.  (An address type that is not supported is answered twice.)
AnswersRight ==
  "greeting" \notin early /\ script.request[4] \in {1, 3, 4} =>
    \/ written = <<>>
    \/ written = <<5, 255>> /\ ~OffersNone /\ server.state = "CLOSED"
    \/ /\ OffersNone
       /\ \/ written = <<5, 0>> /\ target = "none"
          \/ written = <<5, 0, 5, 1, 0, 0>> /\ server.state = "CLOSED"
          \/ /\ asked # <<>> /\ target # "none"
             /\ \E r \in Replies :
                  written = <<5, 0>> \o r \o (IF target = "data" THEN Down ELSE <<>>)

\* A tunnel is made through a SOCKS server only when the server really connected,
\* and no byte behind the server's reply is lost to it.  When the reply had
\* arrived, what is handed over starts with the first byte behind it; when it was
\* cut but for its first bytes, ibuf is handed over empty, and the rest of the
\* reply comes after it.  The connection is given up only when the server failed,
\* or when less than four bytes of its reply had arrived.
UpstreamRight ==
  script.kind = "ptunnel" =>
    /\ client.state = "CONNECTED" =>
         /\ target # "none"
         /\ \E r \in Replies :
              LET end == 2 + Len(r) IN
              /\ written = <<5, 0>> \o r \o (IF target = "data" THEN Down ELSE <<>>)
              /\ client.off <= end
              /\ client.off = IF "reply" \in early THEN client.read ELSE end
    /\ client.state = "FAILED" => server.state = "CLOSED" \/ "reply" \in early

\* Bytes that reach a connected client_info are copied into the tunnel, with
\* all that waited before them, or the connection ends.
PayloadCopied ==
  server.state = "CONNECTED" /\ server.read < SentLen ~>
    server.off = SentLen \/ server.state = "CLOSED"

\* A client that has sent its request gets an answer to it or is closed, and
\* socks5_connect_info calls its callback.
SocksAnswered ==
  /\ step >= 2 ~> target # "none" \/ server.state = "CLOSED"
  /\ script.kind = "ptunnel" ~> client.state \in {"CONNECTED", "FAILED"}
=============================================================================
