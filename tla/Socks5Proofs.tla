---------------------------- MODULE Socks5Proofs ----------------------------
(***************************************************************************)
(* Theorems about Socks5, for any clients, replies and frame size.         *)
(***************************************************************************)
EXTENDS Socks5, SequenceTheorems, TLAPS

-----------------------------------------------------------------------------
(***************************************************************************)
(* The stream of a client, and windows of it.                              *)
(***************************************************************************)
LEMMA StreamParts ==
  ASSUME TypeOK
  PROVE  /\ script.greeting \in Seq(ByteValue) /\ script.request \in Seq(ByteValue)
         /\ script.payload \in Seq(ByteValue)
         /\ Len(script.greeting) \in Nat /\ Len(script.request) \in Nat
         /\ Len(script.payload) \in Nat
         /\ Stream \in Seq(ByteValue)
         /\ Len(Stream) = Len(script.greeting) + Len(script.request) + Len(script.payload)
         /\ \A i \in 1 .. Len(script.greeting) : Stream[i] = script.greeting[i]
         /\ \A i \in 1 .. Len(script.request) :
              Stream[Len(script.greeting) + i] = script.request[i]
<1> DEFINE g == script.greeting
           r == script.request
           p == script.payload
<1>1. g \in Seq(ByteValue) /\ r \in Seq(ByteValue) /\ p \in Seq(ByteValue)
  BY SocksConstants DEF TypeOK, Script
<1>2. Len(g) \in Nat /\ Len(r) \in Nat /\ Len(p) \in Nat
  BY <1>1, LenProperties
<1> HIDE DEF g, r, p
<1>3. /\ g \o r \in Seq(ByteValue) /\ Len(g \o r) = Len(g) + Len(r)
      /\ \A i \in 1 .. Len(g) + Len(r) :
           (g \o r)[i] = IF i <= Len(g) THEN g[i] ELSE r[i - Len(g)]
  BY <1>1, ConcatProperties
<1>4. /\ g \o r \o p \in Seq(ByteValue) /\ Len(g \o r \o p) = Len(g \o r) + Len(p)
      /\ \A i \in 1 .. Len(g \o r) + Len(p) :
           (g \o r \o p)[i] = IF i <= Len(g \o r) THEN (g \o r)[i] ELSE p[i - Len(g \o r)]
  BY <1>1, <1>3, ConcatProperties
<1>5. \A i \in 1 .. Len(g) : (g \o r \o p)[i] = g[i]
  BY <1>2, <1>3, <1>4
<1>6. ASSUME NEW i \in 1 .. Len(r) PROVE (g \o r \o p)[Len(g) + i] = r[i]
  <2>1. (g \o r \o p)[Len(g) + i] = (g \o r)[Len(g) + i]
    BY <1>2, <1>3, <1>4
  <2>2. (g \o r)[Len(g) + i] = r[(Len(g) + i) - Len(g)]
    BY <1>2, <1>3
  <2>3. (Len(g) + i) - Len(g) = i
    BY <1>2
  <2>4. QED
    BY <2>1, <2>2, <2>3
<1>7. QED
  BY <1>1, <1>2, <1>3, <1>4, <1>5, <1>6 DEF Stream, g, r, p

\* What has been sent, and the windows.
LEMMA Windows ==
  ASSUME TypeOK
  PROVE  /\ SentLen \in Nat /\ SentLen <= Len(Stream) /\ Len(Stream) \in Nat
         /\ server.off \in Nat /\ server.read \in Nat /\ Size(server) \in Nat
         /\ server.off <= server.read /\ server.read <= SentLen
         /\ server.state \in ServerStates /\ server.busy \in BOOLEAN
         /\ client.off \in Nat /\ client.read \in Nat /\ Size(client) \in Nat
         /\ client.off <= client.read /\ client.read <= Len(written)
<1> DEFINE g == Len(script.greeting)
           r == Len(script.request)
           p == Len(script.payload)
<1>a. g \in Nat /\ r \in Nat /\ p \in Nat /\ Len(Stream) = g + r + p
  BY StreamParts
<1>b. step \in 0 .. 3
  BY DEF TypeOK
<1>c. SentLen = (IF step >= 1 THEN g ELSE 0) + (IF step >= 2 THEN r ELSE 0)
                  + (IF step >= 3 THEN p ELSE 0)
  BY DEF SentLen
<1> HIDE DEF g, r, p
<1>1. SentLen \in Nat /\ SentLen <= Len(Stream) /\ Len(Stream) \in Nat
  BY <1>a, <1>b, <1>c
<1>2. QED
  BY <1>1 DEF TypeOK, Size

LEMMA WellFormedScript ==
  ASSUME TypeOK
  PROVE  /\ Len(script.greeting) >= 2 /\ Len(script.greeting) = script.greeting[2] + 2
         /\ Len(script.request) >= 6
         /\ script.request[4] \in {1, 3, 4} =>
              Len(script.request) = AddrLen(script.request[4], script.request[5]) + 4
BY ScriptsWellFormed DEF TypeOK, WellFormed

LEMMA IbufIsByte ==
  ASSUME TypeOK, NEW i \in Nat \ {0}
  PROVE  Ibuf(i) \in ByteValue
<1>1. CASE server.off + i <= server.read
  <2>1. server.off + i \in 1 .. Len(Stream)
    BY <1>1, Windows
  <2>2. Stream[server.off + i] \in ByteValue
    BY <2>1, StreamParts, ElementOfSeq
  <2>3. QED
    BY <1>1, <2>2 DEF Ibuf, At
<1>2. CASE ~(server.off + i <= server.read)
  BY <1>2 DEF Ibuf, At, ByteValue
<1>3. QED
  BY <1>1, <1>2

LEMMA RequestLenIsNat == ASSUME TypeOK PROVE RequestLen \in Nat /\ RequestLen >= 4
<1>1. Ibuf(5) \in Nat
  BY IbufIsByte DEF ByteValue
<1>2. QED
  BY <1>1 DEF RequestLen, AddrLen

\* Erasing bytes moves the start of a window, not past its end.
LEMMA ErasedInside ==
  ASSUME NEW w, w.off \in Nat, w.read \in Nat, w.off <= w.read, NEW n \in Nat
  PROVE  /\ Erased(w, n) \in Nat /\ w.off <= Erased(w, n) /\ Erased(w, n) <= w.read
         /\ w.read - w.off >= n => Erased(w, n) = w.off + n
BY DEF Erased, Lesser

\* What a client has sent does not shrink.
LEMMA SentGrows ==
  ASSUME TypeOK, script' = script, step' \in 0 .. 3, step <= step'
  PROVE  SentLen' \in Nat /\ SentLen <= SentLen'
<1> DEFINE g == Len(script.greeting)
           r == Len(script.request)
           p == Len(script.payload)
           len(n) == (IF n >= 1 THEN g ELSE 0) + (IF n >= 2 THEN r ELSE 0)
                       + (IF n >= 3 THEN p ELSE 0)
<1>1. g \in Nat /\ r \in Nat /\ p \in Nat
  BY StreamParts
<1>2. SentLen = len(step) /\ SentLen' = len(step')
  BY DEF SentLen
<1>3. step \in 0 .. 3
  BY DEF TypeOK
<1> HIDE DEF g, r, p
<1>4. QED
  BY <1>1, <1>2, <1>3

-----------------------------------------------------------------------------
(***************************************************************************)
(* The invariant behind the theorems.                                      *)
(***************************************************************************)
Behind(t) ==
  \E r \in Replies : written = <<5, 0>> \o r \o (IF t = "data" THEN Down ELSE <<>>)

\* The states that client_info goes through, and what it has done in each
Progress ==
  /\ server.state = "START" =>
       /\ server.off = 0 /\ written = <<>> /\ frames = <<>> /\ target = "none"
       /\ "greeting" \notin early
  /\ server.state = "REQUEST" => frames = <<>> /\ target = "none"
  /\ server.state = "CONNECTING" => frames = <<>> /\ target = "none" /\ asked # <<>>
  /\ server.state = "CONNECTED" => asked # <<>>
  /\ server.state = "CLOSED" => ~server.busy

\* ... and where it is in a greeting and a request that had arrived
Exact ==
  "greeting" \notin early =>
    /\ server.state = "REQUEST" =>
         server.off = Len(script.greeting) /\ written = <<5, 0>> /\ OffersNone
    /\ server.state \in {"CONNECTING", "CONNECTED"} =>
         /\ OffersNone
         /\ script.request[4] \in {1, 3, 4}
         /\ frames = <<>> => server.off = HeadLen
         /\ target = "none" => written = <<5, 0>>
         /\ target # "none" => Behind(target)

\* The tunnel's own client has not sent its request
NotAsked == client.state = "START" => step <= 1

\* client_info has not asked connect_peer
NotYetAsked == server.state \in {"START", "REQUEST"} => asked = <<>>

\* Where socks5_connect_info is in what the server wrote: until it has judged the
\* reply; its own greeting is never judged before it has arrived
Upstream ==
  /\ client.busy => client.state \in {"START", "CONNECTING"}
  /\ client.state = "START" => client.off = 0
  /\ client.state = "CONNECTING" => client.off = 2
  /\ client.state \in {"START", "CONNECTING"} => "reply" \notin early
  /\ script.kind = "ptunnel" => "greeting" \notin early
  /\ UpstreamRight

SInv ==
  /\ TypeOK /\ NotAsked /\ NotYetAsked /\ Progress /\ Exact
  /\ FramesExact /\ OnlyEarlyBytesWait /\ AnswersRight /\ AskedRight /\ Upstream

\* What the client does, and the world outside
ClientSide ==
  ClientStep \/ OutsideSends \/ OutsideHangsUp \/ TunnelSends \/ UNCHANGED vars

\* It leaves client_info alone.
LEMMA ClientSideKeeps ==
  ASSUME ClientSide
  PROVE  /\ script' = script /\ server' = server /\ asked' = asked /\ frames' = frames
         /\ target' = target /\ written' = written
         /\ "greeting" \in early' <=> "greeting" \in early
BY DEF ClientSide, ClientStep, ClientRead, ClientEof, ClientMethod, ClientFails,
       ClientConnected, ClientReturns, OutsideSends, OutsideHangsUp, TunnelSends, vars

\* Every other step leaves the client alone.
LEMMA ServerSideKeeps ==
  ASSUME ServerStep \/ PeerStep
  PROVE  script' = script /\ step' = step /\ client' = client
BY DEF ServerStep, PeerStep, ServerRead, ServerEof, ServerReturns, BadGreeting,
       NeedsAuthentication, Greeted, BadRequest, BadType, RequestRefused, RequestMade, Copy,
       Established, Reply, TargetData, Failed, PeerGone

-----------------------------------------------------------------------------
(***************************************************************************)
(* Types.                                                                  *)
(***************************************************************************)

\* The address of a request that was read as a whole.
LEMMA AddressIsBytes ==
  ASSUME TypeOK, RequestLen <= Size(server)
  PROVE  Address \in Seq(ByteValue)
<1> DEFINE a == SubSeq(Stream, server.off + 4, server.off + RequestLen)
<1>1. /\ server.off \in Nat /\ server.off + RequestLen <= Len(Stream)
      /\ Len(Stream) \in Nat /\ RequestLen \in Nat
  BY Windows, RequestLenIsNat DEF Size
<1>2. \A i \in server.off + 4 .. server.off + RequestLen : Stream[i] \in ByteValue
  <2>1. \A i \in 1 .. Len(Stream) : Stream[i] \in ByteValue
    BY StreamParts, ElementOfSeq
  <2>2. QED
    BY <1>1, <2>1
<1>3. a \in Seq(ByteValue)
  BY <1>1, <1>2, SubSeqProperties
<1> HIDE DEF a
<1>4. Len(a) \in Nat /\ \A i \in 1 .. Len(a) : a[i] \in ByteValue
  BY <1>3, LenProperties, ElementOfSeq
<1>5. Kept(a, Len(a)) \in Int /\ Kept(a, Len(a)) <= Len(a)
  BY <1>4 DEF Kept, Lesser, ByteValue
<1>6. SubSeq(a, 1, Kept(a, Len(a))) \in Seq(ByteValue)
  <2>1. \A i \in 1 .. Kept(a, Len(a)) : a[i] \in ByteValue
    BY <1>4, <1>5
  <2>2. QED
    BY <1>5, <2>1, SubSeqProperties
<1>7. QED
  BY <1>6 DEF Address, S5Addr, a

LEMMA InitTypeOK == Init => TypeOK /\ NotAsked
<1> SUFFICES ASSUME Init PROVE TypeOK /\ NotAsked
  OBVIOUS
<1>1. script \in Scripts /\ step \in 0 .. 1
  BY DEF Init
<1>2. server \in [state : ServerStates, off : Nat, read : Nat, busy : BOOLEAN]
      /\ server.off = 0 /\ server.read = 0
  BY DEF Init, End, ServerStates
<1>3. client \in [state : ClientStates, off : Nat, read : Nat, busy : BOOLEAN]
      /\ client.off = 0 /\ client.read = 0
  BY DEF Init, End, ClientStates
<1>4. asked \in Seq(Seq(ByteValue)) /\ frames \in Seq(Nat \X Nat) /\ written \in Seq(ByteValue)
      /\ Len(written) = 0
  BY DEF Init
<1>5. SentLen \in Nat
  <2>1. script.greeting \in Seq(ByteValue)
    BY <1>1, SocksConstants DEF Script
  <2>2. Len(script.greeting) \in Nat
    BY <2>1, LenProperties
  <2>3. ~(step >= 2) /\ ~(step >= 3)
    BY <1>1
  <2>4. QED
    BY <2>2, <2>3 DEF SentLen
<1>6. target = "none" /\ early = {}
  BY DEF Init
<1>7. QED
  BY <1>1, <1>2, <1>3, <1>4, <1>5, <1>6 DEF TypeOK, NotAsked

\* Steps of the client: its window, and what it has sent.
LEMMA ClientTypes ==
  ASSUME TypeOK, NotAsked, ClientSide
  PROVE  /\ client' \in [state : ClientStates, off : Nat, read : Nat, busy : BOOLEAN]
         /\ client'.off <= client'.read /\ client'.read <= Len(written)
         /\ step' \in 0 .. 3 /\ step <= step'
         /\ client'.state = "START" => step' <= 1
         /\ early' \subseteq {"greeting", "reply"}
<1>0. /\ client \in [state : ClientStates, off : Nat, read : Nat, busy : BOOLEAN]
      /\ client.off <= client.read /\ client.read <= Len(written) /\ Len(written) \in Nat
      /\ step \in 0 .. 3 /\ early \subseteq {"greeting", "reply"}
      /\ client.state = "START" => step <= 1
  BY LenProperties DEF TypeOK, NotAsked
<1>1. CASE ClientRead
  <2>1. PICK n \in client.read + 1 .. Len(written) :
          client' = End(client.state, client.off, n, TRUE)
    BY <1>1 DEF ClientRead
  <2>2. step' = step /\ early' = early
    BY <1>1 DEF ClientRead
  <2>3. QED
    BY <1>0, <2>1, <2>2 DEF End
<1>2. CASE ClientEof \/ ClientReturns \/ OutsideHangsUp
  <2>1. step' = step /\ early' = early
    BY <1>2 DEF ClientEof, ClientReturns, OutsideHangsUp
  <2>2. \/ client' = [client EXCEPT !.state = "FAILED"]
        \/ client' = [client EXCEPT !.state = "GONE"]
        \/ client' = [client EXCEPT !.busy = FALSE]
    BY <1>2 DEF ClientEof, ClientReturns, OutsideHangsUp
  <2>3. /\ client' \in [state : ClientStates, off : Nat, read : Nat, busy : BOOLEAN]
        /\ client'.off = client.off /\ client'.read = client.read
        /\ client'.state = "START" => client.state = "START"
    BY <1>0, <2>2 DEF ClientStates
  <2>4. QED
    BY <1>0, <2>1, <2>3
<1>3. CASE ClientMethod
  <2>1. Erased(client, 2) \in Nat /\ Erased(client, 2) <= client.read
    BY <1>0, ErasedInside
  <2>2. client' = End("CONNECTING", Erased(client, 2), client.read, TRUE)
        /\ step' = 2 /\ early' = early /\ client.state = "START"
    BY <1>3 DEF ClientMethod, ClientLooping
  <2>3. QED
    BY <1>0, <2>1, <2>2 DEF End, ClientStates
<1>4. CASE ClientFails
  <2>1. client' = [client EXCEPT !.state = "FAILED", !.busy = FALSE] /\ step' = step
    BY <1>4 DEF ClientFails
  <2>2. early' \subseteq {"greeting", "reply"}
    BY <1>0, <1>4 DEF ClientFails
  <2>3. /\ client' \in [state : ClientStates, off : Nat, read : Nat, busy : BOOLEAN]
        /\ client'.off = client.off /\ client'.read = client.read
        /\ client'.state = "FAILED"
    BY <1>0, <2>1 DEF ClientStates
  <2>4. QED
    BY <1>0, <2>1, <2>2, <2>3
<1>5. CASE ClientConnected
  <2> DEFINE len == ReplyLen(Answer(4), Answer(5))
  <2>1. Answer(5) \in Nat
    <3>1. CASE client.off + 5 <= client.read
      <4>1. client.off + 5 \in 1 .. Len(written)
        BY <1>0, <3>1
      <4>2. written[client.off + 5] \in ByteValue
        BY <4>1, ElementOfSeq DEF TypeOK
      <4>3. QED
        BY <3>1, <4>2 DEF Answer, At, ByteValue
    <3>2. CASE ~(client.off + 5 <= client.read)
      BY <3>2 DEF Answer, At
    <3>3. QED
      BY <3>1, <3>2
  <2>2. len \in Nat
    BY <1>5, <2>1 DEF ReplyLen, ClientConnected
  <2>3. Erased(client, len) \in Nat /\ Erased(client, len) <= client.read
    BY <1>0, <2>2, ErasedInside
  <2>4. client' = End("CONNECTED", Erased(client, len), client.read, FALSE) /\ step' = step
        /\ early' \subseteq {"greeting", "reply"}
    BY <1>0, <1>5 DEF ClientConnected
  <2> HIDE DEF len
  <2>5. QED
    BY <1>0, <2>3, <2>4 DEF End, ClientStates
<1>6. CASE OutsideSends \/ TunnelSends
  <2>1. step' = step + 1 /\ step < 3
    BY <1>0, <1>6 DEF OutsideSends, TunnelSends
  <2>2. client' = client /\ early' = early /\ client.state # "START"
    BY <1>6 DEF OutsideSends, TunnelSends
  <2>3. QED
    BY <1>0, <2>1, <2>2
<1>7. CASE UNCHANGED vars
  BY <1>0, <1>7 DEF vars
<1>8. QED
  BY <1>1, <1>2, <1>3, <1>4, <1>5, <1>6, <1>7 DEF ClientSide, ClientStep

\* Steps of client_info: its window.
LEMMA ServerTypes ==
  ASSUME TypeOK, ServerStep \/ PeerStep
  PROVE  /\ server' \in [state : ServerStates, off : Nat, read : Nat, busy : BOOLEAN]
         /\ server'.off <= server'.read /\ server'.read <= SentLen
<1>0. /\ server \in [state : ServerStates, off : Nat, read : Nat, busy : BOOLEAN]
      /\ server.off <= server.read /\ server.read <= SentLen /\ SentLen \in Nat
  BY Windows DEF TypeOK
<1>1. CASE ServerRead
  <2>1. PICK n \in server.read + 1 .. SentLen :
          server' = End(server.state, server.off, n, TRUE)
    BY <1>1 DEF ServerRead
  <2>2. QED
    BY <1>0, <2>1 DEF End
<1>2. CASE ServerEof \/ ServerReturns \/ BadRequest \/ BadType \/ RequestRefused
           \/ Established \/ Reply \/ TargetData \/ Failed \/ PeerGone
  BY <1>0, <1>2 DEF ServerEof, ServerReturns, BadRequest, BadType, RequestRefused,
       Established, Reply, TargetData, Failed, PeerGone, Closes, ServerStates
<1>3. CASE BadGreeting \/ NeedsAuthentication \/ Greeted
  <2>1. Ibuf(2) + 2 \in Nat
    BY IbufIsByte DEF ByteValue
  <2>2. Erased(server, Ibuf(2) + 2) \in Nat /\ Erased(server, Ibuf(2) + 2) <= server.read
    BY <1>0, <2>1, ErasedInside
  <2>3. \E st \in {"CLOSED", "REQUEST"} :
          server' = End(st, Erased(server, Ibuf(2) + 2), server.read, st # "CLOSED")
    BY <1>3 DEF BadGreeting, NeedsAuthentication, Greeted, GreetingUsed
  <2>4. QED
    BY <1>0, <2>2, <2>3 DEF End, ServerStates
<1>4. CASE RequestMade
  <2>1. Erased(server, RequestLen) \in Nat /\ Erased(server, RequestLen) <= server.read
    BY <1>0, RequestLenIsNat, ErasedInside
  <2>2. server' = End("CONNECTING", Erased(server, RequestLen), server.read, TRUE)
    BY <1>4 DEF RequestMade
  <2>3. QED
    BY <1>0, <2>1, <2>2 DEF End, ServerStates
<1>5. CASE Copy
  <2>1. server.off + FrameSize \in Nat /\ server.off + FrameSize <= server.read
    BY <1>0, SocksConstants DEF FrameSize, Lesser, Size
  <2>2. server' = End("CONNECTED", server.off + FrameSize, server.read, TRUE)
    BY <1>5 DEF Copy
  <2>3. QED
    BY <1>0, <2>1, <2>2 DEF End, ServerStates
<1>6. QED
  BY <1>1, <1>2, <1>3, <1>4, <1>5 DEF ServerStep, PeerStep

\* A frame holds what is in ibuf, and no more than MaxFrame of it.
LEMMA FrameFits ==
  ASSUME TypeOK, Looping("CONNECTED")
  PROVE  /\ FrameSize \in 1 .. MaxFrame /\ MaxFrame \in Nat
         /\ server.off + FrameSize <= server.read
BY Windows, SocksConstants DEF FrameSize, Lesser, Size, Looping

\* Steps of client_info: what it has written, asked and sent.
LEMMA ServerOutputs ==
  ASSUME TypeOK, ServerStep \/ PeerStep
  PROVE  /\ asked' \in Seq(Seq(ByteValue)) /\ frames' \in Seq(Nat \X Nat)
         /\ target' \in {"none", "replied", "data"}
         /\ written' \in Seq(ByteValue) /\ Len(written) <= Len(written')
         /\ early' \subseteq {"greeting", "reply"}
<1>0. /\ asked \in Seq(Seq(ByteValue)) /\ frames \in Seq(Nat \X Nat)
      /\ target \in {"none", "replied", "data"}
      /\ written \in Seq(ByteValue) /\ Len(written) \in Nat
      /\ early \subseteq {"greeting", "reply"}
  BY LenProperties DEF TypeOK
<1>1. ASSUME NEW s \in Seq(ByteValue)
      PROVE  written \o s \in Seq(ByteValue) /\ Len(written) <= Len(written \o s)
             /\ Len(written \o s) \in Nat
  BY <1>0, ConcatProperties, LenProperties
<1>2. CASE ServerRead \/ ServerEof \/ ServerReturns \/ BadGreeting \/ BadRequest
           \/ Established \/ PeerGone
  <2>1. asked' = asked /\ frames' = frames /\ target' = target /\ written' = written
    BY <1>2 DEF ServerRead, ServerEof, ServerReturns, BadGreeting, BadRequest,
         Established, PeerGone
  <2>2. early' = early \/ early' = early \cup {"greeting"}
    BY <1>2 DEF ServerRead, ServerEof, ServerReturns, BadGreeting, BadRequest,
         Established, PeerGone, GreetingUsed
  <2>3. early' \subseteq {"greeting", "reply"}
    BY <1>0, <2>2
  <2>4. Len(written) <= Len(written')
    BY <1>0, <2>1
  <2>5. QED
    BY <1>0, <2>1, <2>3, <2>4
<1>3. CASE NeedsAuthentication \/ Greeted \/ RequestRefused \/ Failed
  <2>1. \E s \in Seq(ByteValue) : written' = written \o s
    <3>1. <<5, 255>> \in Seq(ByteValue) /\ <<5, 0>> \in Seq(ByteValue)
          /\ <<5, 1, 0, 0>> \in Seq(ByteValue)
      BY DEF ByteValue
    <3>2. \/ written' = written \o <<5, 255>> \/ written' = written \o <<5, 0>>
          \/ written' = written \o <<5, 1, 0, 0>>
      BY <1>3 DEF NeedsAuthentication, Greeted, RequestRefused, Failed
    <3>3. QED
      BY <3>1, <3>2
  <2>2. asked' = asked /\ frames' = frames /\ target' = target
        /\ early' \subseteq {"greeting", "reply"}
    BY <1>0, <1>3 DEF NeedsAuthentication, Greeted, RequestRefused, Failed, GreetingUsed
  <2>3. QED
    BY <1>0, <1>1, <2>1, <2>2
<1>4. CASE BadType
  <2>1. <<5, 8, 0, 0>> \in Seq(ByteValue) /\ <<5, 1, 0, 0>> \in Seq(ByteValue)
    BY DEF ByteValue
  <2>2. written' = written \o <<5, 8, 0, 0>> \o <<5, 1, 0, 0>>
    BY <1>4 DEF BadType
  <2> DEFINE w == written \o <<5, 8, 0, 0>>
  <2>3. w \in Seq(ByteValue) /\ Len(written) <= Len(w) /\ Len(w) \in Nat
    BY <1>1, <2>1
  <2> HIDE DEF w
  <2>4. w \o <<5, 1, 0, 0>> \in Seq(ByteValue)
        /\ Len(w \o <<5, 1, 0, 0>>) = Len(w) + Len(<<5, 1, 0, 0>>)
        /\ Len(<<5, 1, 0, 0>>) \in Nat
    BY <2>1, <2>3, ConcatProperties, LenProperties
  <2>5. written' \in Seq(ByteValue) /\ Len(written) <= Len(written')
    BY <1>0, <2>2, <2>3, <2>4 DEF w
  <2>6. QED
    BY <1>0, <1>4, <2>5 DEF BadType
<1>5. CASE RequestMade
  <2>1. RequestLen <= Size(server)
    BY <1>5, Windows, RequestLenIsNat DEF RequestMade, RequestCut
  <2>2. Address \in Seq(ByteValue)
    BY <2>1, AddressIsBytes
  <2>3. Append(asked, Address) \in Seq(Seq(ByteValue))
    BY <1>0, <2>2, AppendProperties
  <2>4. QED
    BY <1>0, <1>5, <2>3 DEF RequestMade
<1>6. CASE Copy
  <2>1. Looping("CONNECTED")
    BY <1>6 DEF Copy
  <2>2. server.off \in Nat /\ server.off + FrameSize \in Nat
    BY <2>1, FrameFits, Windows
  <2>3. Append(frames, <<server.off, server.off + FrameSize>>) \in Seq(Nat \X Nat)
    BY <1>0, <2>2, AppendProperties
  <2>4. QED
    BY <1>0, <1>6, <2>3 DEF Copy
<1>7. CASE Reply
  <2>1. PICK r \in Replies : written' = written \o r
    BY <1>7 DEF Reply
  <2>2. r \in Seq(ByteValue)
    BY SocksConstants
  <2>3. QED
    BY <1>0, <1>1, <1>7, <2>1, <2>2 DEF Reply
<1>8. CASE TargetData
  BY <1>0, <1>1, <1>8, SocksConstants DEF TargetData
<1>9. QED
  BY <1>2, <1>3, <1>4, <1>5, <1>6, <1>7, <1>8 DEF ServerStep, PeerStep

LEMMA StepTypeOK ==
  ASSUME TypeOK, NotAsked, [Next]_vars PROVE TypeOK' /\ NotAsked'
<1>1. CASE ClientSide
  <2>1. /\ script' = script /\ server' = server /\ asked' = asked /\ frames' = frames
        /\ target' = target /\ written' = written
    BY <1>1, ClientSideKeeps
  <2>2. step' \in 0 .. 3 /\ step <= step'
    BY <1>1, ClientTypes
  <2>3. SentLen' \in Nat /\ SentLen <= SentLen'
    BY <2>1, <2>2, SentGrows
  <2>4. server'.off <= server'.read /\ server'.read <= SentLen'
    BY <2>1, <2>3, Windows
  <2>5. QED
    BY <1>1, <2>1, <2>2, <2>4, ClientTypes DEF TypeOK, NotAsked
<1>2. CASE ServerStep \/ PeerStep
  <2>1. script' = script /\ step' = step /\ client' = client
    BY <1>2, ServerSideKeeps
  <2>2. SentLen' = SentLen
    BY <2>1 DEF SentLen
  <2>3. /\ server' \in [state : ServerStates, off : Nat, read : Nat, busy : BOOLEAN]
        /\ server'.off <= server'.read /\ server'.read <= SentLen
    BY <1>2, ServerTypes
  <2>4. /\ asked' \in Seq(Seq(ByteValue)) /\ frames' \in Seq(Nat \X Nat)
        /\ target' \in {"none", "replied", "data"}
        /\ written' \in Seq(ByteValue) /\ Len(written) <= Len(written')
        /\ early' \subseteq {"greeting", "reply"}
    BY <1>2, ServerOutputs
  <2>5. client.read <= Len(written')
    BY <2>4, Windows, LenProperties DEF TypeOK
  <2>6. QED
    BY <2>1, <2>2, <2>3, <2>4, <2>5 DEF TypeOK, NotAsked
<1>3. QED
  BY <1>1, <1>2 DEF Next, ClientSide

-----------------------------------------------------------------------------
(***************************************************************************)
(* A greeting and a request that have arrived are read as they were sent.  *)
(***************************************************************************)
LEMMA GreetingRead ==
  ASSUME TypeOK, server.off = 0, Size(server) >= Ibuf(2) + 2
  PROVE  /\ Erased(server, Ibuf(2) + 2) = Len(script.greeting)
         /\ NoneOffered <=> ~OffersNone
<1> DEFINE g == script.greeting
<1>1. Ibuf(2) \in Nat
  BY IbufIsByte DEF ByteValue
<1>2. server.read \in Nat /\ Ibuf(2) + 2 <= server.read
  BY <1>1, Windows DEF Size
<1>3. Len(g) \in Nat /\ Len(g) >= 2 /\ Len(g) = g[2] + 2
      /\ \A i \in 1 .. Len(g) : Stream[i] = g[i]
  BY StreamParts, WellFormedScript
<1>4. \A i \in 1 .. Ibuf(2) + 2 : Ibuf(i) = Stream[i]
  <2>1. \A i \in 1 .. Ibuf(2) + 2 : 0 + i <= server.read /\ 0 + i = i
    BY <1>1, <1>2
  <2>2. QED
    BY <2>1 DEF Ibuf, At
<1> HIDE DEF g
<1>5. Ibuf(2) = g[2]
  BY <1>1, <1>3, <1>4
<1>6. Ibuf(2) + 2 = Len(g)
  BY <1>3, <1>5
<1>7. ASSUME NEW i \in 1 .. Ibuf(2) PROVE Ibuf(2 + i) = g[2 + i]
  <2>1. 2 + i \in 1 .. Ibuf(2) + 2
    BY <1>1
  <2>2. 2 + i \in 1 .. Len(g)
    BY <1>6, <2>1
  <2>3. QED
    BY <1>3, <1>4, <2>1, <2>2
<1>8. NoneOffered <=> ~(\E i \in 3 .. Len(g) : g[i] = 0)
  <2>1. ASSUME NEW i \in 3 .. Len(g), g[i] = 0 PROVE ~NoneOffered
    <3>1. i - 2 \in 1 .. Ibuf(2) /\ 2 + (i - 2) = i
      BY <1>1, <1>6
    <3>2. Ibuf(2 + (i - 2)) = 0
      BY <1>7, <2>1, <3>1
    <3>3. QED
      BY <3>1, <3>2 DEF NoneOffered
  <2>2. ASSUME ~NoneOffered PROVE \E i \in 3 .. Len(g) : g[i] = 0
    <3>1. PICK i \in 1 .. Ibuf(2) : Ibuf(2 + i) = 0
      BY <2>2 DEF NoneOffered
    <3>2. 2 + i \in 3 .. Len(g) /\ g[2 + i] = 0
      BY <1>1, <1>6, <1>7, <3>1
    <3>3. QED
      BY <3>2
  <2>3. QED
    BY <2>1, <2>2
<1>9. Erased(server, Ibuf(2) + 2) = Len(g)
  <2>1. Erased(server, Ibuf(2) + 2) = server.off + (Ibuf(2) + 2)
    <3>1. Ibuf(2) + 2 \in Nat /\ server.read - server.off >= Ibuf(2) + 2
      BY <1>1 DEF Size
    <3>2. QED
      BY <3>1, Windows, ErasedInside
  <2>2. QED
    BY <1>3, <1>6, <2>1
<1>10. QED
  BY <1>8, <1>9 DEF g, OffersNone

LEMMA RequestRead ==
  ASSUME TypeOK, server.off = Len(script.greeting), Size(server) >= 6
  PROVE  /\ Ibuf(4) = script.request[4]
         /\ script.request[4] \in {1, 3, 4} => RequestLen = Len(script.request)
<1>1. \A i \in 1 .. 6 : Ibuf(i) = Stream[Len(script.greeting) + i]
  <2>1. \A i \in 1 .. 6 : server.off + i <= server.read
    BY Windows DEF Size
  <2>2. QED
    BY <2>1 DEF Ibuf, At
<1>2. Len(script.request) >= 6 /\ Len(script.request) \in Nat
  BY WellFormedScript, StreamParts
<1>3. ASSUME NEW i \in 1 .. 6 PROVE Ibuf(i) = script.request[i]
  <2>1. i \in 1 .. Len(script.request)
    BY <1>2
  <2>2. Stream[Len(script.greeting) + i] = script.request[i]
    BY <2>1, StreamParts
  <2>3. QED
    BY <1>1, <2>2
<1>4. QED
  BY <1>3, WellFormedScript DEF RequestLen

-----------------------------------------------------------------------------
(***************************************************************************)
(* The states of client_info.                                              *)
(***************************************************************************)
LEMMA StepProgress ==
  ASSUME TypeOK, Progress, [Next]_vars PROVE Progress'
<1>0. server \in [state : ServerStates, off : Nat, read : Nat, busy : BOOLEAN]
  BY DEF TypeOK
<1>1. CASE ClientSide
  BY <1>1, ClientSideKeeps DEF Progress
<1>2. CASE ServerRead
  <2>1. server'.state = server.state /\ server'.off = server.off
        /\ server.state # "CLOSED"
    BY <1>2 DEF ServerRead, End, Watched
  <2>2. QED
    BY <1>2, <2>1 DEF Progress, ServerRead
<1>3. CASE ServerEof
  <2>1. server'.state = "CLOSED" /\ server'.busy = FALSE
    BY <1>0, <1>3 DEF ServerEof, Watched
  <2>2. QED
    BY <2>1 DEF Progress
<1>4. CASE ServerReturns
  <2>1. server'.state = server.state /\ server'.off = server.off /\ server'.busy = FALSE
    BY <1>0, <1>4 DEF ServerReturns
  <2>2. QED
    BY <1>4, <2>1 DEF Progress, ServerReturns
<1>5. CASE BadGreeting \/ NeedsAuthentication
  <2>1. server'.state = "CLOSED" /\ ~server'.busy
    <3>1. server' = End("CLOSED", Erased(server, Ibuf(2) + 2), server.read, "CLOSED" # "CLOSED")
      BY <1>5 DEF BadGreeting, NeedsAuthentication, GreetingUsed
    <3>2. server'.state = "CLOSED" /\ server'.busy = ("CLOSED" # "CLOSED")
      BY <3>1, Zenon DEF End
    <3>3. QED
      BY <3>2
  <2>2. QED
    BY <2>1 DEF Progress
<1>6. CASE Greeted
  <2>1. server'.state = "REQUEST" /\ server.state = "START"
        /\ frames' = frames /\ target' = target
    BY <1>6 DEF Greeted, GreetingUsed, End, Looping
  <2>2. QED
    BY <2>1 DEF Progress
<1>7. CASE BadRequest \/ BadType \/ RequestRefused \/ Failed \/ PeerGone
  <2>1. server'.state = "CLOSED" /\ server'.busy = FALSE
    BY <1>0, <1>7 DEF BadRequest, BadType, RequestRefused, Failed, PeerGone, Closes
  <2>2. QED
    BY <2>1 DEF Progress
<1>8. CASE RequestMade
  <2>1. server'.state = "CONNECTING" /\ server.state = "REQUEST"
        /\ frames' = frames /\ target' = target /\ asked' = Append(asked, Address)
    BY <1>8 DEF RequestMade, GoodRequest, End, Looping
  <2>2. asked' # <<>>
    <3>1. asked \in Seq(Seq(ByteValue))
      BY DEF TypeOK
    <3>2. Len(asked) \in Nat /\ Len(asked') = Len(asked) + 1
      BY <2>1, <3>1, LenProperties
    <3>3. QED
      BY <3>2
  <2>3. QED
    BY <2>1, <2>2 DEF Progress
<1>9. CASE Copy
  <2>1. server'.state = "CONNECTED" /\ server.state = "CONNECTED" /\ asked' = asked
    BY <1>9 DEF Copy, Looping, End
  <2>2. QED
    BY <2>1 DEF Progress
<1>10. CASE Established \/ Reply
  <2>1. server'.state = "CONNECTED" /\ server.state \in {"CONNECTING", "CONNECTED"}
        /\ asked' = asked
    BY <1>0, <1>10 DEF Established, Reply
  <2>2. QED
    BY <2>1 DEF Progress
<1>11. CASE TargetData
  <2>1. server' = server /\ server.state = "CONNECTED" /\ asked' = asked
    BY <1>11 DEF TargetData
  <2>2. QED
    BY <2>1 DEF Progress
<1>12. QED
  BY <1>1, <1>2, <1>3, <1>4, <1>5, <1>6, <1>7, <1>8, <1>9, <1>10, <1>11
  DEF Next, ClientSide, ServerStep, PeerStep

-----------------------------------------------------------------------------
(***************************************************************************)
(* Where client_info is in a greeting and a request that had arrived.      *)
(***************************************************************************)
LEMMA EmptyFirst == ASSUME NEW s \in Seq(ByteValue) PROVE <<>> \o s = s
BY ConcatEmptySeq

LEMMA Refusal == <<5, 0>> \o <<5, 1, 0, 0>> = <<5, 0, 5, 1, 0, 0>>
<1> DEFINE s == <<5, 0>>
           t == <<5, 1, 0, 0>>
           w == <<5, 0, 5, 1, 0, 0>>
           st == s \o t
<1>1. s \in Seq(Nat) /\ t \in Seq(Nat) /\ w \in Seq(Nat)
  OBVIOUS
<1>2. /\ Len(s) = 2 /\ s[1] = 5 /\ s[2] = 0
      /\ Len(t) = 4 /\ t[1] = 5 /\ t[2] = 1 /\ t[3] = 0 /\ t[4] = 0
      /\ Len(w) = 6 /\ w[1] = 5 /\ w[2] = 0 /\ w[3] = 5 /\ w[4] = 1 /\ w[5] = 0 /\ w[6] = 0
  OBVIOUS
<1> HIDE DEF s, t, w
<1>3. /\ st \in Seq(Nat) /\ Len(st) = Len(s) + Len(t)
      /\ \A i \in 1 .. Len(s) + Len(t) : st[i] = IF i <= Len(s) THEN s[i] ELSE t[i - Len(s)]
  BY <1>1, ConcatProperties
<1> HIDE DEF st
<1>4. Len(st) = 6 /\ \A i \in 1 .. 6 : st[i] = IF i <= 2 THEN s[i] ELSE t[i - 2]
  BY <1>2, <1>3
<1>5. /\ st[1] = s[1] /\ st[2] = s[2]
      /\ st[3] = t[1] /\ st[4] = t[2] /\ st[5] = t[3] /\ st[6] = t[4]
  BY <1>4
<1>6. \A i \in 1 .. 6 : st[i] = w[i]
  <2>1. \A i \in 1 .. 6 : i = 1 \/ i = 2 \/ i = 3 \/ i = 4 \/ i = 5 \/ i = 6
    OBVIOUS
  <2>2. QED
    BY <1>2, <1>5, <2>1
<1>7. st = w
  BY <1>1, <1>2, <1>3, <1>4, <1>6, SeqEqual
<1>8. QED
  BY <1>7 DEF s, t, w, st

\* The answer to a greeting that had arrived.
LEMMA GreetingAnswered ==
  ASSUME TypeOK, Progress, "greeting" \notin early', NeedsAuthentication \/ Greeted
  PROVE  /\ server'.off = Len(script.greeting)
         /\ NeedsAuthentication => written' = <<5, 255>> /\ ~OffersNone
         /\ Greeted => written' = <<5, 0>> /\ OffersNone
<1>1. server.state = "START" /\ server.off = 0 /\ written = <<>>
  BY DEF NeedsAuthentication, Greeted, Looping, Progress
<1>2. Size(server) >= Ibuf(2) + 2
  <2>1. Ibuf(2) \in Nat
    BY IbufIsByte DEF ByteValue
  <2>3. Size(server) \in Nat
    BY Windows
  <2>2. ~(Size(server) < Ibuf(2) + 2)
    BY DEF NeedsAuthentication, Greeted, GreetingUsed
  <2>4. QED
    BY <2>1, <2>2, <2>3
<1>3. server'.off = Erased(server, Ibuf(2) + 2)
  BY DEF NeedsAuthentication, Greeted, GreetingUsed, End
<1>4. <<5, 0>> \in Seq(ByteValue) /\ <<5, 255>> \in Seq(ByteValue)
  BY DEF ByteValue
<1>5. /\ NeedsAuthentication => written' = <<5, 255>> /\ NoneOffered
      /\ Greeted => written' = <<5, 0>> /\ ~NoneOffered
  BY <1>1, <1>4, EmptyFirst DEF NeedsAuthentication, Greeted
<1>6. QED
  BY <1>1, <1>2, <1>3, <1>5, GreetingRead

\* A reply of the other process.
LEMMA RepliedBehind ==
  ASSUME TypeOK, Reply, written = <<5, 0>> PROVE target' = "replied" /\ Behind("replied")'
<1>1. PICK r \in Replies : written' = <<5, 0>> \o r
  BY DEF Reply
<1>2. r \in Seq(ByteValue) /\ <<5, 0>> \in Seq(ByteValue)
  BY SocksConstants DEF ByteValue
<1>3. <<5, 0>> \o r \in Seq(ByteValue)
  BY <1>2, ConcatProperties
<1>4. <<5, 0>> \o r \o <<>> = <<5, 0>> \o r
  BY <1>3, ConcatEmptySeq
<1>5. QED
  BY <1>1, <1>4 DEF Behind, Reply

\* The first bytes of the target.
LEMMA DataBehind ==
  ASSUME TypeOK, TargetData, Behind("replied") PROVE target' = "data" /\ Behind("data")'
<1>1. PICK r \in Replies : written = <<5, 0>> \o r \o <<>>
  BY DEF Behind
<1>2. r \in Seq(ByteValue) /\ <<5, 0>> \in Seq(ByteValue)
  BY SocksConstants DEF ByteValue
<1>3. <<5, 0>> \o r \in Seq(ByteValue)
  BY <1>2, ConcatProperties
<1>4. written = <<5, 0>> \o r
  BY <1>1, <1>3, ConcatEmptySeq
<1>5. QED
  BY <1>4 DEF Behind, TargetData

LEMMA StepExact ==
  ASSUME TypeOK, Progress, Exact, [Next]_vars PROVE Exact'
<1> SUFFICES ASSUME "greeting" \notin early' PROVE Exact'
  BY DEF Exact
<1>0. server \in [state : ServerStates, off : Nat, read : Nat, busy : BOOLEAN]
  BY DEF TypeOK
<1>1. CASE ClientSide
  <2>1. OffersNone' = OffersNone /\ HeadLen' = HeadLen
        /\ (\A t : Behind(t)' = Behind(t))
    BY <1>1, ClientSideKeeps DEF OffersNone, HeadLen, Behind
  <2>2. QED
    BY <1>1, <2>1, ClientSideKeeps DEF Exact
<1>2. CASE ServerStep \/ PeerStep
  <2>0. script' = script /\ OffersNone' = OffersNone /\ HeadLen' = HeadLen
    BY <1>2, ServerSideKeeps DEF OffersNone, HeadLen
  <2>1. CASE ServerRead \/ ServerReturns
    <3>1. server'.state = server.state /\ server'.off = server.off
      BY <1>0, <2>1 DEF ServerRead, ServerReturns, End
    <3>2. early' = early /\ frames' = frames /\ target' = target /\ written' = written
      BY <2>1 DEF ServerRead, ServerReturns
    <3>3. \A t : Behind(t)' = Behind(t)
      BY <3>2 DEF Behind
    <3>4. QED
      BY <2>0, <3>1, <3>2, <3>3 DEF Exact
  <2>2. CASE \/ ServerEof \/ BadGreeting \/ NeedsAuthentication \/ BadRequest \/ BadType
             \/ RequestRefused \/ Failed \/ PeerGone
    <3>1. CASE BadGreeting \/ NeedsAuthentication
      <4>1. server'.state = "CLOSED"
        BY <3>1 DEF BadGreeting, NeedsAuthentication, GreetingUsed, End
      <4>2. QED
        BY <4>1 DEF Exact
    <3>2. CASE ServerEof \/ BadRequest \/ BadType \/ RequestRefused \/ Failed \/ PeerGone
      <4>1. server'.state = "CLOSED"
        BY <1>0, <3>2 DEF ServerEof, BadRequest, BadType, RequestRefused, Failed, PeerGone,
             Closes
      <4>2. QED
        BY <4>1 DEF Exact
    <3>3. QED
      BY <2>2, <3>1, <3>2
  <2>3. CASE Greeted
    <3>1. server'.state = "REQUEST"
      BY <2>3 DEF Greeted, GreetingUsed, End
    <3>2. server'.off = Len(script.greeting) /\ written' = <<5, 0>> /\ OffersNone
      BY <2>3, GreetingAnswered
    <3>3. QED
      BY <2>0, <3>1, <3>2 DEF Exact
  <2>4. CASE RequestMade
    <3>1. /\ server.state = "REQUEST" /\ Size(server) >= 6 /\ ~RequestCut
          /\ Ibuf(4) \in {1, 3, 4} /\ "greeting" \notin early
          /\ server' = End("CONNECTING", Erased(server, RequestLen), server.read, TRUE)
          /\ frames' = frames /\ target' = target /\ written' = written
      BY <2>4 DEF RequestMade, GoodRequest, Looping
    <3>2. /\ server.off = Len(script.greeting) /\ written = <<5, 0>> /\ OffersNone
          /\ target = "none"
      BY <3>1 DEF Exact, Progress
    <3>3. script.request[4] \in {1, 3, 4} /\ RequestLen = Len(script.request)
      BY <3>1, <3>2, RequestRead
    <3>4. server.read - server.off >= RequestLen
      BY <3>1, Windows, RequestLenIsNat DEF RequestCut, Size
    <3>5. Erased(server, RequestLen) = HeadLen
      BY <3>2, <3>3, <3>4, Windows, RequestLenIsNat, ErasedInside DEF HeadLen
    <3>6. server'.state = "CONNECTING" /\ server'.off = HeadLen
      BY <3>1, <3>5 DEF End
    <3>7. QED
      BY <2>0, <3>1, <3>2, <3>3, <3>6 DEF Exact
  <2>5. CASE Copy
    <3>1. /\ server.state = "CONNECTED" /\ server'.state = "CONNECTED"
          /\ early' = early /\ target' = target /\ written' = written
          /\ frames' = Append(frames, <<server.off, server.off + FrameSize>>)
      BY <2>5 DEF Copy, Looping, End
    <3>2. frames' # <<>>
      <4>1. Len(frames') = Len(frames) + 1 /\ Len(frames) \in Nat
        BY <3>1, LenProperties DEF TypeOK
      <4>2. QED
        BY <4>1
    <3>3. \A t : Behind(t)' = Behind(t)
      BY <3>1 DEF Behind
    <3>4. QED
      BY <2>0, <3>1, <3>2, <3>3 DEF Exact
  <2>6. CASE Established
    <3>1. /\ server.state = "CONNECTING" /\ server'.state = "CONNECTED"
          /\ server'.off = server.off
          /\ early' = early /\ frames' = frames /\ target' = target /\ written' = written
      BY <1>0, <2>6 DEF Established
    <3>2. \A t : Behind(t)' = Behind(t)
      BY <3>1 DEF Behind
    <3>3. QED
      BY <2>0, <3>1, <3>2 DEF Exact
  <2>7. CASE Reply
    <3>1. /\ server.state \in {"CONNECTING", "CONNECTED"} /\ server'.state = "CONNECTED"
          /\ server'.off = server.off
          /\ early' = early /\ frames' = frames /\ target = "none"
      BY <1>0, <2>7 DEF Reply
    <3>2. target' = "replied" /\ Behind("replied")'
      BY <2>7, <3>1, RepliedBehind DEF Exact
    <3>3. QED
      BY <2>0, <3>1, <3>2 DEF Exact
  <2>8. CASE TargetData
    <3>1. /\ server.state = "CONNECTED" /\ server' = server
          /\ early' = early /\ frames' = frames /\ target = "replied"
      BY <2>8 DEF TargetData
    <3>2. target' = "data" /\ Behind("data")'
      BY <2>8, <3>1, DataBehind DEF Exact
    <3>3. QED
      BY <2>0, <3>1, <3>2 DEF Exact
  <2>9. QED
    BY <1>2, <2>1, <2>2, <2>3, <2>4, <2>5, <2>6, <2>7, <2>8 DEF ServerStep, PeerStep
<1>3. QED
  BY <1>1, <1>2 DEF Next, ClientSide

-----------------------------------------------------------------------------
(***************************************************************************)
(* What the tunnel is given.                                               *)
(***************************************************************************)

\* The frames fs cover what is between head and off
FramesAre(fs, head, off) ==
  /\ \A i \in DOMAIN fs :
       /\ fs[i][1] = IF i = 1 THEN head ELSE fs[i - 1][2]
       /\ fs[i][2] - fs[i][1] \in 1 .. MaxFrame
  /\ fs # <<>> => fs[Len(fs)][2] = off

\* One more frame.
LEMMA FramesExtended ==
  ASSUME NEW fs \in Seq(Nat \X Nat), NEW head \in Nat, NEW off \in Nat,
         NEW n \in 1 .. MaxFrame, MaxFrame \in Nat,
         FramesAre(fs, head, off), fs = <<>> => off = head
  PROVE  FramesAre(Append(fs, <<off, off + n>>), head, off + n)
<1> DEFINE k == Len(fs)
           f == <<off, off + n>>
           gs == Append(fs, f)
<1>1. k \in Nat /\ DOMAIN fs = 1 .. k
  BY LenProperties
<1>2. f \in Nat \X Nat /\ f[1] = off /\ f[2] = off + n
  OBVIOUS
<1> HIDE DEF f
<1>3. /\ gs \in Seq(Nat \X Nat) /\ Len(gs) = k + 1 /\ gs[k + 1] = f
      /\ \A i \in 1 .. k : gs[i] = fs[i]
  BY <1>1, <1>2, AppendProperties
<1>4. DOMAIN gs = 1 .. k + 1
  BY <1>3, LenProperties
<1>5. k = 0 => fs = <<>>
  BY EmptySeq
<1>6. k # 0 => k \in 1 .. k /\ fs[k][2] = off
  BY <1>1 DEF FramesAre
<1> HIDE DEF gs, k
<1>7. ASSUME NEW i \in 1 .. k
      PROVE  /\ gs[i][1] = IF i = 1 THEN head ELSE gs[i - 1][2]
             /\ gs[i][2] - gs[i][1] \in 1 .. MaxFrame
  <2>1. i # 1 => i - 1 \in 1 .. k
    BY <1>1
  <2>2. /\ fs[i][1] = IF i = 1 THEN head ELSE fs[i - 1][2]
        /\ fs[i][2] - fs[i][1] \in 1 .. MaxFrame
    BY <1>1 DEF FramesAre
  <2>3. QED
    BY <1>3, <2>1, <2>2
<1>8. /\ gs[k + 1][1] = IF k + 1 = 1 THEN head ELSE gs[(k + 1) - 1][2]
      /\ gs[k + 1][2] - gs[k + 1][1] \in 1 .. MaxFrame
  <2>1. (k + 1) - 1 = k /\ (k + 1 = 1 <=> k = 0)
    BY <1>1
  <2>2. k # 0 => gs[k][2] = off
    BY <1>3, <1>6
  <2>3. (off + n) - off = n
    OBVIOUS
  <2>4. QED
    BY <1>2, <1>3, <1>5, <2>1, <2>2, <2>3
<1>9. \A i \in 1 .. k + 1 : i \in 1 .. k \/ i = k + 1
  BY <1>1
<1>10. gs[Len(gs)][2] = off + n
  BY <1>2, <1>3
<1>11. \A i \in DOMAIN gs :
         /\ gs[i][1] = IF i = 1 THEN head ELSE gs[i - 1][2]
         /\ gs[i][2] - gs[i][1] \in 1 .. MaxFrame
  BY <1>4, <1>7, <1>8, <1>9
<1>12. FramesAre(gs, head, off + n)
  BY <1>10, <1>11 DEF FramesAre
<1>13. QED
  BY <1>12 DEF gs, f

\* A step that adds no frame.
LEMMA FramesKept ==
  ASSUME Progress, ServerStep \/ PeerStep, ~Copy, TypeOK
  PROVE  frames' = frames /\ (frames # <<>> => server'.off = server.off)
<1>0. server \in [state : ServerStates, off : Nat, read : Nat, busy : BOOLEAN]
  BY DEF TypeOK
<1>1. CASE BadGreeting \/ NeedsAuthentication \/ Greeted \/ RequestMade
  <2>1. server.state \in {"START", "REQUEST"} /\ frames' = frames
    BY <1>1 DEF BadGreeting, NeedsAuthentication, Greeted, RequestMade, GoodRequest, Looping
  <2>2. QED
    BY <2>1 DEF Progress
<1>2. CASE \/ ServerEof \/ ServerReturns \/ BadRequest \/ BadType \/ RequestRefused
           \/ Established \/ Reply \/ TargetData \/ Failed \/ PeerGone
  BY <1>0, <1>2 DEF ServerEof, ServerReturns, BadRequest, BadType, RequestRefused,
       Established, Reply, TargetData, Failed, PeerGone, Closes
<1>3. CASE ServerRead
  BY <1>3 DEF ServerRead, End
<1>4. QED
  BY <1>1, <1>2, <1>3 DEF ServerStep, PeerStep

LEMMA StepFramesExact ==
  ASSUME TypeOK, Progress, Exact, FramesExact, [Next]_vars PROVE FramesExact'
<1> SUFFICES ASSUME "greeting" \notin early' PROVE FramesAre(frames, HeadLen, server.off)'
  BY DEF FramesExact, FramesAre
<1>1. CASE ClientSide
  BY <1>1, ClientSideKeeps DEF FramesExact, FramesAre, HeadLen
<1>2. CASE Copy
  <2>1. /\ Looping("CONNECTED") /\ server.state = "CONNECTED" /\ early' = early
        /\ script' = script
        /\ frames' = Append(frames, <<server.off, server.off + FrameSize>>)
        /\ server'.off = server.off + FrameSize
    BY <1>2 DEF Copy, Looping, End
  <2>2. HeadLen' = HeadLen
    BY <2>1 DEF HeadLen
  <2>3. HeadLen \in Nat /\ server.off \in Nat /\ frames \in Seq(Nat \X Nat)
    <3>1. HeadLen \in Nat
      <4> DEFINE g == Len(script.greeting)
                 r == Len(script.request)
      <4>1. g \in Nat /\ r \in Nat /\ HeadLen = g + r
        BY StreamParts DEF HeadLen
      <4> HIDE DEF g, r
      <4>2. QED
        BY <4>1
    <3>2. server.off \in Nat /\ frames \in Seq(Nat \X Nat)
      BY DEF TypeOK
    <3>3. QED
      BY <3>1, <3>2
  <2>4. FramesAre(frames, HeadLen, server.off) /\ (frames = <<>> => server.off = HeadLen)
    BY <2>1 DEF FramesExact, FramesAre, Exact
  <2>5. FrameSize \in 1 .. MaxFrame /\ MaxFrame \in Nat
    BY <2>1, FrameFits
  <2>6. FramesAre(frames', HeadLen, server'.off)
    BY <2>1, <2>3, <2>4, <2>5, FramesExtended
  <2>7. QED
    BY <2>2, <2>6 DEF FramesAre
<1>3. CASE (ServerStep \/ PeerStep) /\ ~Copy
  <2>1. script' = script /\ frames' = frames /\ (frames # <<>> => server'.off = server.off)
    BY <1>3, ServerSideKeeps, FramesKept
  <2>2. "greeting" \notin early
    BY <1>3 DEF ServerStep, PeerStep, ServerRead, ServerEof, ServerReturns, BadGreeting,
         NeedsAuthentication, Greeted, BadRequest, BadType, RequestRefused, RequestMade,
         Established, Reply, TargetData, Failed, PeerGone, GreetingUsed
  <2>3. QED
    BY <2>1, <2>2 DEF FramesExact, FramesAre, HeadLen
<1>4. QED
  BY <1>1, <1>2, <1>3 DEF Next, ClientSide

LEMMA StepOnlyEarlyBytesWait ==
  ASSUME TypeOK, Progress, OnlyEarlyBytesWait, [Next]_vars PROVE OnlyEarlyBytesWait'
<1>0. server \in [state : ServerStates, off : Nat, read : Nat, busy : BOOLEAN]
  BY DEF TypeOK
<1>1. CASE ClientSide
  BY <1>1, ClientSideKeeps DEF OnlyEarlyBytesWait
<1>2. CASE ServerRead
  <2>1. server'.busy = TRUE
    BY <1>2 DEF ServerRead, End
  <2>2. QED
    BY <2>1 DEF OnlyEarlyBytesWait
<1>3. CASE Copy
  <2>1. server'.busy = TRUE
    BY <1>3 DEF Copy, End
  <2>2. QED
    BY <2>1 DEF OnlyEarlyBytesWait
<1>4. CASE ServerReturns
  <2>1. server'.state = server.state /\ server'.off = server.off /\ server'.read = server.read
        /\ frames' = frames /\ server.busy
    BY <1>0, <1>4 DEF ServerReturns
  <2>2. CASE Size(server) = 0
    <3>1. server.off = server.read
      BY <1>0, <2>2 DEF Size
    <3>2. QED
      BY <2>1, <3>1 DEF OnlyEarlyBytesWait
  <2>3. CASE server.state \notin {"CONNECTED", "CLOSED"}
    BY <2>1, <2>3 DEF OnlyEarlyBytesWait
  <2>4. server.state # "CLOSED"
    BY <2>1 DEF Progress
  <2>5. QED
    BY <1>4, <2>2, <2>3, <2>4 DEF ServerReturns, GoodRequest, Looping
<1>5. CASE ServerStep /\ ~ServerRead /\ ~Copy /\ ~ServerReturns /\ ~ServerEof
  <2>1. server.state \in {"START", "REQUEST"} /\ frames' = frames
    BY <1>5 DEF ServerStep, BadGreeting, NeedsAuthentication, Greeted, BadRequest, BadType,
         RequestRefused, RequestMade, GoodRequest, Looping
  <2>2. frames' = <<>>
    BY <2>1 DEF Progress
  <2>3. QED
    BY <2>2 DEF OnlyEarlyBytesWait
<1>6. CASE PeerStep \/ ServerEof
  <2>1. ~server.busy /\ frames' = frames
        /\ server'.off = server.off /\ server'.read = server.read
    BY <1>0, <1>6 DEF PeerStep, ServerEof, Watched, Established, Reply, TargetData, Failed,
         PeerGone, Closes
  <2>2. server.state \in {"START", "REQUEST", "CONNECTING", "CONNECTED"}
    BY <1>6 DEF PeerStep, ServerEof, Watched, Established, Reply, TargetData, Failed, PeerGone
  <2>3. frames # <<>> => server.state = "CONNECTED"
    BY <2>2 DEF Progress
  <2>4. QED
    BY <2>1, <2>3 DEF OnlyEarlyBytesWait
<1>7. QED
  BY <1>1, <1>2, <1>3, <1>4, <1>5, <1>6 DEF Next, ClientSide

-----------------------------------------------------------------------------
(***************************************************************************)
(* What the client is told.                                                *)
(***************************************************************************)
LEMMA StepAnswersRight ==
  ASSUME TypeOK, Progress, Exact, AnswersRight, [Next]_vars PROVE AnswersRight'
<1> SUFFICES ASSUME "greeting" \notin early', script'.request[4] \in {1, 3, 4}
             PROVE  \/ written' = <<>>
                    \/ written' = <<5, 255>> /\ ~OffersNone' /\ server'.state = "CLOSED"
                    \/ /\ OffersNone'
                       /\ \/ written' = <<5, 0>> /\ target' = "none"
                          \/ written' = <<5, 0, 5, 1, 0, 0>> /\ server'.state = "CLOSED"
                          \/ asked' # <<>> /\ target' # "none" /\ Behind(target)'
  BY DEF AnswersRight, Behind
<1>0. server \in [state : ServerStates, off : Nat, read : Nat, busy : BOOLEAN]
  BY DEF TypeOK
<1>1. "greeting" \notin early /\ script' = script /\ OffersNone' = OffersNone
  <2>1. CASE ClientSide
    BY <2>1, ClientSideKeeps DEF OffersNone
  <2>2. CASE ServerStep \/ PeerStep
    <3>1. early' = early \/ early' = early \cup {"greeting"}
      BY <2>2 DEF ServerStep, PeerStep, ServerRead, ServerEof, ServerReturns, BadGreeting,
           NeedsAuthentication, Greeted, BadRequest, BadType, RequestRefused, RequestMade,
           Copy, Established, Reply, TargetData, Failed, PeerGone, GreetingUsed
    <3>2. QED
      BY <2>2, <3>1, ServerSideKeeps DEF OffersNone
  <2>3. QED
    BY <2>1, <2>2 DEF Next, ClientSide
<1>2. \/ written = <<>>
      \/ written = <<5, 255>> /\ ~OffersNone /\ server.state = "CLOSED"
      \/ /\ OffersNone
         /\ \/ written = <<5, 0>> /\ target = "none"
            \/ written = <<5, 0, 5, 1, 0, 0>> /\ server.state = "CLOSED"
            \/ asked # <<>> /\ target # "none" /\ Behind(target)
  BY <1>1 DEF AnswersRight, Behind
<1>3. CASE ClientSide
  <2>1. Behind(target)' = Behind(target)
    BY <1>3, ClientSideKeeps DEF Behind
  <2>2. QED
    BY <1>1, <1>2, <1>3, <2>1, ClientSideKeeps
<1>4. CASE \/ ServerRead \/ ServerEof \/ ServerReturns \/ BadGreeting \/ BadRequest
           \/ RequestMade \/ Copy \/ Established \/ PeerGone
  <2>1. written' = written /\ target' = target
    BY <1>4 DEF ServerRead, ServerEof, ServerReturns, BadGreeting, BadRequest,
         RequestMade, Copy, Established, PeerGone
  <2>2. Behind(target)' = Behind(target)
    BY <2>1 DEF Behind
  <2>3. asked # <<>> => asked' # <<>>
    <3>1. asked' = asked \/ asked' = Append(asked, Address)
      BY <1>4 DEF ServerRead, ServerEof, ServerReturns, BadGreeting, BadRequest,
           RequestMade, Copy, Established, PeerGone
    <3>2. Len(Append(asked, Address)) = Len(asked) + 1 /\ Len(asked) \in Nat
      BY LenProperties DEF TypeOK
    <3>3. Append(asked, Address) # <<>>
      BY <3>2
    <3>4. QED
      BY <3>1, <3>3
  <2>4. server.state # "CLOSED"
    <3>1. \/ server.busy
          \/ server.state \in {"START", "REQUEST", "CONNECTING", "CONNECTED"}
      BY <1>4 DEF ServerRead, ServerEof, ServerReturns, BadGreeting, BadRequest,
           RequestMade, Copy, Established, PeerGone, Watched, Looping, GoodRequest
    <3>2. QED
      BY <3>1 DEF Progress
  <2>5. QED
    BY <1>1, <1>2, <2>1, <2>2, <2>3, <2>4
<1>5. CASE NeedsAuthentication
  <2>1. server'.state = "CLOSED"
    BY <1>5 DEF NeedsAuthentication, GreetingUsed, End
  <2>2. QED
    BY <1>1, <1>5, <2>1, GreetingAnswered
<1>6. CASE Greeted
  <2>1. target' = "none"
    BY <1>6 DEF Greeted, Looping, Progress
  <2>2. QED
    BY <1>1, <1>6, <2>1, GreetingAnswered
<1>7. CASE BadType
  <2>1. server.state = "REQUEST" /\ Size(server) >= 6 /\ Ibuf(4) \notin {1, 3, 4}
    BY <1>7 DEF BadType, GoodRequest, Looping
  <2>2. server.off = Len(script.greeting)
    BY <1>1, <2>1 DEF Exact
  <2>3. QED
    BY <1>1, <2>1, <2>2, RequestRead
<1>8. CASE RequestRefused \/ Failed
  <2>1. /\ server.state \in {"REQUEST", "CONNECTING"} /\ server'.state = "CLOSED"
        /\ written' = written \o <<5, 1, 0, 0>>
    BY <1>0, <1>8 DEF RequestRefused, Failed, GoodRequest, Looping, Closes
  <2>2. written = <<5, 0>> /\ OffersNone
    BY <1>1, <2>1 DEF Exact, Progress
  <2>3. QED
    BY <1>1, <2>1, <2>2, Refusal
<1>9. CASE Reply
  <2>1. server.state \in {"CONNECTING", "CONNECTED"} /\ target = "none" /\ asked' = asked
    BY <1>9 DEF Reply
  <2>2. written = <<5, 0>> /\ OffersNone /\ asked # <<>>
    BY <1>1, <2>1 DEF Exact, Progress
  <2>3. target' = "replied" /\ Behind("replied")'
    BY <1>9, <2>2, RepliedBehind
  <2>4. QED
    BY <1>1, <2>1, <2>2, <2>3
<1>10. CASE TargetData
  <2>1. server.state = "CONNECTED" /\ target = "replied" /\ asked' = asked
    BY <1>10 DEF TargetData
  <2>2. Behind("replied") /\ OffersNone /\ asked # <<>>
    BY <1>1, <2>1 DEF Exact, Progress
  <2>3. target' = "data" /\ Behind("data")'
    BY <1>10, <2>2, DataBehind
  <2>4. QED
    BY <1>1, <2>1, <2>2, <2>3
<1>11. QED
  BY <1>3, <1>4, <1>5, <1>6, <1>7, <1>8, <1>9, <1>10
  DEF Next, ClientSide, ServerStep, PeerStep

-----------------------------------------------------------------------------
(***************************************************************************)
(* Addresses.                                                              *)
(***************************************************************************)

LEMMA Bytes ==
  /\ \A b \in ByteValue : b \in Nat /\ b <= 255
  /\ \A n \in Nat : n <= 255 => n \in ByteValue
BY DEF ByteValue

\* What the constructor of s5addr keeps is the front of what it was given.
LEMMA KeptIsFront ==
  ASSUME NEW a \in Seq(ByteValue), Len(a) >= 3
  PROVE  /\ Kept(a, Len(a)) \in Nat /\ Kept(a, Len(a)) >= 3 /\ Kept(a, Len(a)) <= Len(a)
         /\ S5Addr(a) \in Seq(ByteValue) /\ Len(S5Addr(a)) = Kept(a, Len(a))
         /\ S5Addr(a)[1] = a[1] /\ S5Addr(a)[2] = a[2]
<1>1. Len(a) \in Nat /\ \A i \in 1 .. Len(a) : a[i] \in ByteValue
  BY LenProperties, ElementOfSeq
<1>2. a[2] \in Nat
  <2>1. 2 \in 1 .. Len(a)
    BY <1>1
  <2>2. a[2] \in ByteValue
    BY <1>1, <2>1
  <2>3. QED
    BY <2>2, Bytes
<1>3. Kept(a, Len(a)) \in Nat /\ Kept(a, Len(a)) >= 3 /\ Kept(a, Len(a)) <= Len(a)
  BY <1>1, <1>2 DEF Kept, Lesser
<1> DEFINE n == Kept(a, Len(a))
<1> HIDE DEF n
<1>4. n \in Int /\ n >= 3 /\ n <= Len(a) /\ 1 \in Int
  BY <1>3 DEF n
<1>5. \A i \in 1 .. n : a[i] \in ByteValue
  BY <1>1, <1>4
<1>6. /\ SubSeq(a, 1, n) \in Seq(ByteValue)
      /\ Len(SubSeq(a, 1, n)) = n
      /\ \A i \in 1 .. n : SubSeq(a, 1, n)[i] = a[i]
  <2>1. /\ SubSeq(a, 1, n) \in Seq(ByteValue)
        /\ Len(SubSeq(a, 1, n)) = IF 1 <= n THEN n - 1 + 1 ELSE 0
        /\ \A i \in 1 .. n - 1 + 1 : SubSeq(a, 1, n)[i] = a[1 + i - 1]
    BY <1>4, <1>5, SubSeqProperties
  <2>2. n - 1 + 1 = n /\ \A i \in 1 .. n : 1 + i - 1 = i
    BY <1>4
  <2>3. QED
    BY <1>4, <2>1, <2>2
<1>7. S5Addr(a) = SubSeq(a, 1, n)
  BY DEF S5Addr, n
<1>8. 1 \in 1 .. n /\ 2 \in 1 .. n
  BY <1>4
<1>9. QED
  BY <1>3, <1>6, <1>7, <1>8 DEF n

\* An address of the length its type calls for is kept as a whole, or what is
\* kept of it is not valid.
LEMMA WholeAddress ==
  ASSUME NEW a \in Seq(ByteValue), Len(a) >= 3, a[1] \in {1, 3, 4},
         Len(a) = AddrLen(a[1], a[2]) + 1, Valid(S5Addr(a))
  PROVE  S5Addr(a) = a
<1>1. Len(a) \in Nat /\ a[2] \in Nat
  <2>1. Len(a) \in Nat /\ \A i \in 1 .. Len(a) : a[i] \in ByteValue
    BY LenProperties, ElementOfSeq
  <2>2. a[2] \in ByteValue
    BY <2>1
  <2>3. QED
    BY <2>1, <2>2, Bytes
<1>2. Len(S5Addr(a)) = Kept(a, Len(a)) /\ S5Addr(a)[1] = a[1] /\ S5Addr(a)[2] = a[2]
  BY KeptIsFront
<1>3. Kept(a, Len(a)) = Len(a)
  BY <1>1, <1>2 DEF Valid, AddrLen
<1>4. QED
  BY <1>3, SubSeqFull DEF S5Addr

\* The other process connects to the host and port that the address names.
LEMMA AddressReached ==
  ASSUME NEW a \in Seq(ByteValue), S5Addr(a) = a, Valid(a), a[1] # 4, Crosses(a)
  PROVE  Reached(a) = Named(a)
<1> DEFINE h == <<0, LengthByte(a), 0, 1>>
           f == h \o a
<1>1. Len(a) \in Nat /\ Len(a) + 2 \in Nat /\ \A i \in 1 .. Len(a) : a[i] \in ByteValue
  BY LenProperties, ElementOfSeq
<1>2. LengthByte(a) = Len(a) + 2
  BY <1>1 DEF LengthByte, Crosses
<1>3. Len(h) = 4 /\ h[2] = Len(a) + 2
  BY <1>2
<1>4. h \in Seq(ByteValue)
  <2>1. LengthByte(a) \in ByteValue /\ 0 \in ByteValue /\ 1 \in ByteValue
    BY <1>1, <1>2, Bytes DEF Crosses
  <2>2. QED
    BY <2>1
<1> HIDE DEF h
<1>5. f[2] = h[2]
  <2>1. \A i \in 1 .. Len(h) + Len(a) : (h \o a)[i] = IF i <= Len(h) THEN h[i] ELSE a[i - Len(h)]
    BY <1>4, ConcatProperties
  <2>2. 2 \in 1 .. Len(h) + Len(a) /\ 2 <= Len(h)
    BY <1>1, <1>3
  <2>3. QED
    BY <2>1, <2>2
<1>6. f[2] + 2 = Len(a) + 4
  BY <1>1, <1>3, <1>5
<1>7. Len(a) >= 2
  BY DEF Valid
<1>8. SubSeq(f, 5, Len(a) + 4) = a
  <2>1. 5 \in Len(h) + 1 .. Len(h) + Len(a) /\ Len(a) + 4 \in Len(h) + 1 .. Len(h) + Len(a)
    BY <1>1, <1>3, <1>7
  <2>2. SubSeq(h \o a, 5, Len(a) + 4) = SubSeq(a, 5 - Len(h), (Len(a) + 4) - Len(h))
    BY <1>4, <2>1, SubSeqOfConcat2
  <2>3. 5 - Len(h) = 1 /\ (Len(a) + 4) - Len(h) = Len(a)
    BY <1>1, <1>3
  <2>4. QED
    BY <2>2, <2>3, SubSeqFull
<1>9. RequestFrame(1, a) = f
  BY DEF RequestFrame, h
<1>10. FrameAddress(RequestFrame(1, a)) = a
  BY <1>6, <1>8, <1>9 DEF FrameAddress
<1>11. Reached(a) = GetAddress(a)
  BY <1>10 DEF Reached, ConnectTo
<1>12. a[1] \in {1, 3} /\ (a[1] = 1 => Len(a) = 7) /\ (a[1] = 3 => Len(a) = a[2] + 4)
  BY DEF Valid
<1>13. GetAddress(a) = Named(a)
  <2>1. CASE a[1] = 1
    <3>1. Len(a) - 2 = 5 /\ Len(a) - 1 = 6 /\ Len(a) = 7
      BY <1>12, <2>1
    <3>2. GetAddress(a) = [type |-> 1, host |-> SubSeq(a, 2, 5), port |-> SubSeq(a, 6, 7)]
      BY <2>1 DEF GetAddress
    <3>3. Named(a) = [type |-> 1, host |-> SubSeq(a, 2, 5), port |-> SubSeq(a, 6, 7)]
      BY <2>1, <3>1 DEF Named
    <3>4. QED
      BY <3>2, <3>3
  <2>2. CASE a[1] = 3
    <3>1. a[2] \in Nat
      <4>1. a[2] \in ByteValue
        BY <1>1, <1>7
      <4>2. QED
        BY <4>1, Bytes
    <3>2. Len(a) - 2 = 2 + a[2] /\ Len(a) - 1 = 3 + a[2] /\ Len(a) = 4 + a[2]
      BY <1>12, <2>2, <3>1
    <3>3. GetAddress(a) = [type |-> 3, host |-> SubSeq(a, 3, 2 + a[2]),
                           port |-> SubSeq(a, 3 + a[2], 4 + a[2])]
      BY <2>2 DEF GetAddress
    <3>4. Named(a) = [type |-> 3, host |-> SubSeq(a, 3, 2 + a[2]),
                      port |-> SubSeq(a, 3 + a[2], 4 + a[2])]
      BY <2>2, <3>2 DEF Named
    <3>5. QED
      BY <3>3, <3>4
  <2>3. QED
    BY <1>12, <2>1, <2>2
<1>14. QED
  BY <1>11, <1>13

\* The address that a request names.
NamedAddress == SubSeq(script.request, 4, Len(script.request))

\* A request that was read as a whole gives connect_peer the address it names.
LEMMA NamedRead ==
  ASSUME TypeOK, server.off = Len(script.greeting), Size(server) >= 6,
         script.request[4] \in {1, 3, 4}, RequestLen <= Size(server)
  PROVE  /\ NamedAddress \in Seq(ByteValue) /\ Len(NamedAddress) >= 3
         /\ NamedAddress[1] \in {1, 3, 4}
         /\ Len(NamedAddress) = AddrLen(NamedAddress[1], NamedAddress[2]) + 1
         /\ Address = S5Addr(NamedAddress)
<1> DEFINE g == script.greeting
           q == script.request
           p == script.payload
<1>1. /\ g \in Seq(ByteValue) /\ q \in Seq(ByteValue) /\ p \in Seq(ByteValue)
      /\ Len(g) \in Nat /\ Len(q) \in Nat /\ Len(p) \in Nat
      /\ Stream = (g \o q) \o p
  BY StreamParts DEF Stream
<1>2. Len(q) >= 6 /\ Len(q) = AddrLen(q[4], q[5]) + 4 /\ q[4] \in {1, 3, 4}
  BY WellFormedScript
<1>3. RequestLen = Len(q) /\ server.off = Len(g)
  BY RequestRead
<1>4. \A i \in 1 .. Len(q) : q[i] \in ByteValue
  BY <1>1, ElementOfSeq
<1>a. q[5] \in Nat
  <2>1. q[5] \in ByteValue
    BY <1>1, <1>2, <1>4
  <2>2. QED
    BY <2>1, Bytes
<1>5. NamedAddress = SubSeq(q, 4, Len(q))
  BY DEF NamedAddress
<1>6. Address = S5Addr(SubSeq((g \o q) \o p, Len(g) + 4, Len(g) + Len(q)))
  BY <1>1, <1>3 DEF Address
<1> HIDE DEF g, q, p
<1>7. /\ g \o q \in Seq(ByteValue) /\ Len(g \o q) = Len(g) + Len(q)
  BY <1>1, ConcatProperties
<1>8. SubSeq((g \o q) \o p, Len(g) + 4, Len(g) + Len(q)) = SubSeq(g \o q, Len(g) + 4, Len(g) + Len(q))
  <2>1. Len(g) + 4 \in 1 .. Len(g \o q) /\ Len(g) + Len(q) \in 1 .. Len(g \o q)
    BY <1>1, <1>2, <1>7
  <2>2. QED
    BY <1>1, <1>7, <2>1, SubSeqOfConcat1
<1>9. SubSeq(g \o q, Len(g) + 4, Len(g) + Len(q)) = SubSeq(q, 4, Len(q))
  <2>1. /\ Len(g) + 4 \in Len(g) + 1 .. Len(g) + Len(q)
        /\ Len(g) + Len(q) \in Len(g) + 1 .. Len(g) + Len(q)
    BY <1>1, <1>2
  <2>2. SubSeq(g \o q, Len(g) + 4, Len(g) + Len(q))
          = SubSeq(q, (Len(g) + 4) - Len(g), (Len(g) + Len(q)) - Len(g))
    BY <1>1, <2>1, SubSeqOfConcat2
  <2>3. (Len(g) + 4) - Len(g) = 4 /\ (Len(g) + Len(q)) - Len(g) = Len(q)
    BY <1>1
  <2>4. QED
    BY <2>2, <2>3
<1>10. /\ SubSeq(q, 4, Len(q)) \in Seq(ByteValue)
       /\ Len(SubSeq(q, 4, Len(q))) = Len(q) - 3
       /\ SubSeq(q, 4, Len(q))[1] = q[4] /\ SubSeq(q, 4, Len(q))[2] = q[5]
  <2>1. 4 \in Int /\ Len(q) \in Int /\ \A i \in 4 .. Len(q) : q[i] \in ByteValue
    BY <1>1, <1>4
  <2>2. /\ SubSeq(q, 4, Len(q)) \in Seq(ByteValue)
        /\ Len(SubSeq(q, 4, Len(q))) = IF 4 <= Len(q) THEN Len(q) - 4 + 1 ELSE 0
        /\ \A i \in 1 .. Len(q) - 4 + 1 : SubSeq(q, 4, Len(q))[i] = q[4 + i - 1]
    BY <2>1, SubSeqProperties
  <2>3. Len(q) - 4 + 1 = Len(q) - 3 /\ 1 \in 1 .. Len(q) - 4 + 1 /\ 2 \in 1 .. Len(q) - 4 + 1
        /\ 4 + 1 - 1 = 4 /\ 4 + 2 - 1 = 5
    BY <1>1, <1>2
  <2>4. QED
    BY <1>2, <2>2, <2>3
<1>11. Len(NamedAddress) >= 3 /\ Len(NamedAddress) = AddrLen(q[4], q[5]) + 1
  <2>1. Len(q) - 3 >= 3
    BY <1>1, <1>2
  <2>2. AddrLen(q[4], q[5]) \in Nat
    BY <1>2, <1>a DEF AddrLen
  <2>3. Len(q) - 3 = AddrLen(q[4], q[5]) + 1
    BY <1>2, <2>2
  <2>4. QED
    BY <1>5, <1>10, <2>1, <2>3
<1>12. QED
  BY <1>2, <1>5, <1>6, <1>8, <1>9, <1>10, <1>11

\* A request is the only one of its session.
LEMMA StepAsked ==
  ASSUME TypeOK, Exact, NotYetAsked, AskedRight, [Next]_vars
  PROVE  NotYetAsked' /\ AskedRight'
<1>0. server \in [state : ServerStates, off : Nat, read : Nat, busy : BOOLEAN]
  BY DEF TypeOK
<1>1. CASE RequestMade
  <2>1. /\ server.state = "REQUEST" /\ Size(server) >= 6 /\ ~RequestCut
        /\ Ibuf(4) \in {1, 3, 4} /\ Valid(Address)
        /\ asked' = Append(asked, Address) /\ server'.state = "CONNECTING"
        /\ script' = script /\ early' = early
    BY <1>1 DEF RequestMade, GoodRequest, Looping, End
  <2>2. NotYetAsked'
    BY <2>1 DEF NotYetAsked
  <2>3. asked' = <<Address>>
    BY <2>1 DEF NotYetAsked
  <2>4. ASSUME "greeting" \notin early PROVE AskedRight'
    <3>1. server.off = Len(script.greeting) /\ OffersNone
      BY <2>1, <2>4 DEF Exact
    <3>2. script.request[4] \in {1, 3, 4}
      BY <2>1, <3>1, RequestRead
    <3>3. RequestLen <= Size(server)
      <4>1. Size(server) \in Nat /\ RequestLen \in Nat
        BY Windows, RequestLenIsNat
      <4>2. QED
        BY <2>1, <4>1 DEF RequestCut
    <3> DEFINE a == NamedAddress
    <3>4. /\ a \in Seq(ByteValue) /\ Len(a) >= 3 /\ a[1] \in {1, 3, 4}
          /\ Len(a) = AddrLen(a[1], a[2]) + 1 /\ Address = S5Addr(a)
      BY <2>1, <3>1, <3>2, <3>3, NamedRead
    <3> HIDE DEF a
    <3>5. S5Addr(a) = a /\ Valid(a)
      BY <2>1, <3>4, WholeAddress
    <3>6. a[1] # 4 /\ Crosses(a) => Reached(a) = Named(a)
      BY <3>4, <3>5, AddressReached
    <3>7. OffersNone'
      BY <2>1, <3>1 DEF OffersNone
    <3>8. a = SubSeq(script'.request, 4, Len(script'.request))
      BY <2>1 DEF a, NamedAddress
    <3>9. asked' = <<a>>
      BY <2>3, <3>4, <3>5
    <3>10. QED
      BY <3>6, <3>7, <3>8, <3>9 DEF AskedRight
  <2>5. QED
    BY <2>1, <2>2, <2>4 DEF AskedRight
<1>2. CASE ~RequestMade
  <2>1. asked' = asked /\ script' = script /\ early \subseteq early'
    BY <1>2 DEF Next, ClientStep, ClientRead, ClientEof, ClientMethod, ClientFails,
       ClientConnected, ClientReturns, OutsideSends, OutsideHangsUp, TunnelSends, vars,
       ServerStep, PeerStep, ServerRead, ServerEof, ServerReturns, BadGreeting,
       NeedsAuthentication, Greeted, GreetingUsed, BadRequest, BadType, RequestRefused, Copy,
       Established, Reply, TargetData, Failed, PeerGone
  <2>2. server'.state \in {"START", "REQUEST"} => server.state \in {"START", "REQUEST"}
    <3>1. CASE ClientSide
      BY <3>1, ClientSideKeeps
    <3>2. CASE ServerRead \/ ServerEof \/ ServerReturns \/ Copy
      BY <1>0, <3>2 DEF ServerRead, ServerEof, ServerReturns, Copy, Looping, End
    <3>3. CASE BadGreeting \/ NeedsAuthentication \/ Greeted
      BY <3>3 DEF BadGreeting, NeedsAuthentication, Greeted, Looping
    <3>4. CASE BadRequest \/ BadType \/ RequestRefused \/ Failed \/ PeerGone
      BY <1>0, <3>4 DEF BadRequest, BadType, RequestRefused, Failed, PeerGone, Closes
    <3>5. CASE Established \/ Reply \/ TargetData
      BY <1>0, <3>5 DEF Established, Reply, TargetData
    <3>6. QED
      BY <1>2, <3>1, <3>2, <3>3, <3>4, <3>5 DEF Next, ClientSide, ServerStep, PeerStep
  <2>3. NotYetAsked'
    BY <2>1, <2>2 DEF NotYetAsked
  <2>4. AskedRight'
    BY <2>1 DEF AskedRight, OffersNone
  <2>5. QED
    BY <2>3, <2>4
<1>3. QED
  BY <1>1, <1>2

-----------------------------------------------------------------------------
(***************************************************************************)
(* The client of a SOCKS server.                                           *)
(***************************************************************************)

\* A reply in what the server wrote, and what is behind it.
LEMMA ReplyParts ==
  ASSUME NEW r \in Replies, NEW d \in Seq(ByteValue), NEW w, w = <<5, 0>> \o r \o d
  PROVE  /\ Len(r) \in Nat /\ Len(r) >= 7 /\ Len(r) = ReplyLen(r[4], r[5])
         /\ r[4] \in {1, 3, 4} /\ Len(w) \in Nat /\ Len(w) >= 2 + Len(r)
         /\ w[1] = 5 /\ w[2] = 0 /\ w[3] = 5 /\ w[4] = 0 /\ w[6] = r[4] /\ w[7] = r[5]
<1> DEFINE h == <<5, 0>>
           v == h \o r
<1>1. r \in Seq(ByteValue) /\ Len(r) \in Nat /\ Len(d) \in Nat
  BY SocksConstants, LenProperties
<1>2. Len(r) >= 5 /\ r[1] = 5 /\ r[2] = 0 /\ r[4] \in {1, 3, 4} /\ Len(r) = AddrLen(r[4], r[5]) + 4
  BY RepliesWellFormed
<1>3. r[5] \in Nat
  <2>1. r[5] \in ByteValue
    BY <1>1, <1>2, ElementOfSeq
  <2>2. QED
    BY <2>1, Bytes
<1>4. Len(r) >= 7 /\ Len(r) = ReplyLen(r[4], r[5])
  BY <1>2, <1>3 DEF AddrLen, ReplyLen
<1>5. h \in Seq(ByteValue) /\ Len(h) = 2 /\ h[1] = 5 /\ h[2] = 0
  <2>1. 5 \in ByteValue /\ 0 \in ByteValue
    BY Bytes
  <2>2. QED
    BY <2>1
<1> HIDE DEF h
<1>6. /\ v \in Seq(ByteValue) /\ Len(v) = 2 + Len(r)
      /\ \A i \in 1 .. 2 + Len(r) : v[i] = IF i <= 2 THEN h[i] ELSE r[i - 2]
  <2>1. /\ h \o r \in Seq(ByteValue) /\ Len(h \o r) = Len(h) + Len(r)
        /\ \A i \in 1 .. Len(h) + Len(r) : (h \o r)[i] = IF i <= Len(h) THEN h[i] ELSE r[i - Len(h)]
    BY <1>1, <1>5, ConcatProperties
  <2>2. QED
    BY <1>5, <2>1
<1>7. v[1] = 5 /\ v[2] = 0 /\ v[3] = 5 /\ v[4] = 0 /\ v[6] = r[4] /\ v[7] = r[5]
  BY <1>1, <1>2, <1>4, <1>5, <1>6
<1>8. w = v \o d
  BY DEF h
<1> HIDE DEF v
<1>9. /\ Len(w) = (2 + Len(r)) + Len(d)
      /\ \A i \in 1 .. (2 + Len(r)) + Len(d) : w[i] = IF i <= 2 + Len(r) THEN v[i] ELSE d[i - (2 + Len(r))]
  BY <1>6, <1>8, ConcatProperties
<1>10. \A i \in {1, 2, 3, 4, 6, 7} : w[i] = v[i]
  BY <1>1, <1>4, <1>9
<1>11. Len(w) \in Nat /\ Len(w) >= 2 + Len(r)
  BY <1>1, <1>9
<1>12. w[1] = 5 /\ w[2] = 0 /\ w[3] = 5 /\ w[4] = 0 /\ w[6] = r[4] /\ w[7] = r[5]
  <2>1. w[1] = v[1] /\ w[2] = v[2] /\ w[3] = v[3] /\ w[4] = v[4]
    BY <1>10
  <2>2. w[6] = v[6] /\ w[7] = v[7]
    BY <1>10
  <2>3. QED
    BY <1>7, <2>1, <2>2
<1>13. Len(r) \in Nat /\ Len(r) >= 7 /\ Len(r) = ReplyLen(r[4], r[5]) /\ r[4] \in {1, 3, 4}
  BY <1>1, <1>2, <1>4
<1>14. QED
  BY <1>11, <1>12, <1>13

\* The same of what this server wrote.
LEMMA ReplyWritten ==
  ASSUME NEW r \in Replies,
         written = <<5, 0>> \o r \o (IF target = "data" THEN Down ELSE <<>>)
  PROVE  /\ r[4] \in {1, 3, 4} /\ Len(r) = ReplyLen(r[4], r[5])
         /\ Len(r) \in Nat /\ Len(r) >= 7
         /\ written[1] = 5 /\ written[2] = 0 /\ written[3] = 5 /\ written[4] = 0
         /\ written[6] = r[4] /\ written[7] = r[5]
<1> DEFINE d == IF target = "data" THEN Down ELSE <<>>
<1>1. d \in Seq(ByteValue)
  BY SocksConstants
<1>2. written = <<5, 0>> \o r \o d
  OBVIOUS
<1> HIDE DEF d
<1>3. r[4] \in {1, 3, 4} /\ Len(r) = ReplyLen(r[4], r[5])
  BY <1>1, <1>2, ReplyParts
<1>a. Len(r) \in Nat /\ Len(r) >= 7
  BY <1>1, <1>2, ReplyParts
<1>4. written[1] = 5 /\ written[2] = 0
  BY <1>1, <1>2, ReplyParts
<1>5. written[3] = 5 /\ written[4] = 0
  BY <1>1, <1>2, ReplyParts
<1>6. written[6] = r[4] /\ written[7] = r[5]
  BY <1>1, <1>2, ReplyParts
<1>7. QED
  BY <1>3, <1>a, <1>4, <1>5, <1>6

\* The answers that a client of ptunnel's own sees, byte by byte.
LEMMA AnswersSeen ==
  ASSUME TypeOK, AnswersRight, "greeting" \notin early, script.kind = "ptunnel"
  PROVE  \/ Len(written) = 0
         \/ server.state = "CLOSED" /\ Len(written) = 2
         \/ /\ server.state = "CLOSED" /\ Len(written) = 6
            /\ written[1] = 5 /\ written[2] = 0 /\ written[4] = 1
         \/ Len(written) = 2 /\ written[1] = 5 /\ written[2] = 0
         \/ target # "none" /\ Behind(target)
<1>1. script.request[4] = 3
  BY ScriptsWellFormed DEF TypeOK, WellFormed
<1>2. \/ written = <<>>
      \/ written = <<5, 255>> /\ server.state = "CLOSED"
      \/ written = <<5, 0>>
      \/ written = <<5, 0, 5, 1, 0, 0>> /\ server.state = "CLOSED"
      \/ target # "none" /\ Behind(target)
  BY <1>1 DEF AnswersRight, Behind
<1>3. CASE written = <<>>
  BY <1>3
<1>4. CASE written = <<5, 255>> /\ server.state = "CLOSED"
  BY <1>4
<1>5. CASE written = <<5, 0>>
  BY <1>5
<1>6. CASE written = <<5, 0, 5, 1, 0, 0>> /\ server.state = "CLOSED"
  BY <1>6
<1>7. CASE target # "none" /\ Behind(target)
  BY <1>7
<1>8. QED
  BY <1>2, <1>3, <1>4, <1>5, <1>6, <1>7

\* The steps of socks5_connect_info.
LEMMA ClientUpstream ==
  ASSUME TypeOK, AnswersRight, Upstream, ClientStep
  PROVE  Upstream'
<1>0. /\ client \in [state : ClientStates, off : Nat, read : Nat, busy : BOOLEAN]
      /\ client.off \in Nat /\ client.read \in Nat /\ Len(written) \in Nat
      /\ client.read <= Len(written)
  BY LenProperties DEF TypeOK
<1>1. CASE ClientRead
  <2>1. /\ client'.state = client.state /\ client'.off = client.off
        /\ client.state \in {"START", "CONNECTING"}
        /\ UNCHANGED <<script, server, target, written, early>>
    BY <1>1 DEF ClientRead, ClientWatched, End
  <2>2. QED
    BY <2>1 DEF Upstream, UpstreamRight
<1>2. CASE ClientEof
  <2>1. /\ client'.state = "FAILED" /\ client'.busy = FALSE /\ server.state = "CLOSED"
        /\ UNCHANGED <<script, server, early>>
    BY <1>0, <1>2 DEF ClientEof, ClientWatched
  <2>2. QED
    BY <2>1 DEF Upstream, UpstreamRight
<1>3. CASE ClientReturns
  <2>1. /\ client'.state = client.state /\ client'.off = client.off /\ client'.busy = FALSE
        /\ client'.read = client.read
        /\ UNCHANGED <<script, server, target, written, early>>
    BY <1>0, <1>3 DEF ClientReturns
  <2>2. QED
    BY <2>1 DEF Upstream, UpstreamRight
<1>4. CASE ClientMethod
  <2>1. client.off = 0 /\ client.read - client.off >= 2
    BY <1>4 DEF ClientMethod, ClientLooping, Upstream, Size
  <2>2. Erased(client, 2) = 2
    BY <1>0, <2>1, ErasedInside
  <2>3. client'.state = "CONNECTING" /\ client'.off = 2
    BY <1>4, <2>2 DEF ClientMethod, End
  <2>4. client.state = "START" /\ UNCHANGED <<script, early>>
    BY <1>4 DEF ClientMethod, ClientLooping
  <2>5. QED
    BY <2>3, <2>4 DEF Upstream, UpstreamRight
<1>5. CASE ClientFails
  <2>1. /\ client'.state = "FAILED" /\ client'.busy = FALSE
        /\ UNCHANGED <<script, server, target, written>>
        /\ early \subseteq early' /\ early' \subseteq early \cup {"reply"}
    BY <1>0, <1>5 DEF ClientFails
  <2>2. ASSUME script.kind = "ptunnel", "reply" \notin early' PROVE server.state = "CLOSED"
    <3>1. "greeting" \notin early /\ client.busy /\ client.read - client.off >= 2
      BY <1>5, <2>2 DEF ClientFails, Size, Upstream
    <3>2. CASE client.state = "START"
      <4>1. client.off = 0
        BY <3>2 DEF Upstream
      <4>2. Answer(1) = written[1] /\ Answer(2) = written[2]
        BY <1>0, <3>1, <4>1 DEF Answer, At
      <4>3. ~(written[1] = 5 /\ written[2] = 0)
        BY <1>5, <3>2, <4>2 DEF ClientFails
      <4>4. ASSUME target # "none", Behind(target) PROVE FALSE
        <5>1. PICK r \in Replies : written = <<5, 0>> \o r \o (IF target = "data" THEN Down ELSE <<>>)
          BY <4>4 DEF Behind
        <5>3. written[1] = 5 /\ written[2] = 0
          BY <5>1, ReplyWritten
        <5>4. QED
          BY <4>3, <5>3
      <4>5. Len(written) # 0
        BY <1>0, <3>1, <4>1
      <4>6. QED
        <5>1. script.kind = "ptunnel" /\ "greeting" \notin early
          BY <2>2, <3>1
        <5>2. \/ Len(written) = 0
              \/ server.state = "CLOSED"
              \/ written[1] = 5 /\ written[2] = 0
              \/ target # "none" /\ Behind(target)
          BY <5>1, AnswersSeen
        <5>3. QED
          BY <4>3, <4>4, <4>5, <5>2
    <3>3. CASE client.state = "CONNECTING"
      <4>1. client.off = 2 /\ client.read >= 4 /\ Len(written) >= 4
        BY <1>0, <3>1, <3>3 DEF Upstream
      <4>2. Answer(1) = written[3] /\ Answer(2) = written[4]
        BY <1>0, <4>1 DEF Answer, At
      <4>3. ASSUME target # "none", Behind(target) PROVE FALSE
        <5>1. PICK r \in Replies : written = <<5, 0>> \o r \o (IF target = "data" THEN Down ELSE <<>>)
          BY <4>3 DEF Behind
        <5>3. written[3] = 5 /\ written[4] = 0 /\ written[6] = r[4] /\ r[4] \in {1, 3, 4}
          BY <5>1, ReplyWritten
        <5>4. Answer(4) \notin {1, 3, 4}
          BY <1>5, <4>2, <5>3 DEF ClientFails
        <5>5. ~(Size(client) < 4)
          BY <1>5, <2>2, <3>3, <4>2, <5>3 DEF ClientFails
        <5>6. Answer(4) = written[6]
          BY <1>0, <4>1, <5>5 DEF Answer, At, Size
        <5>7. QED
          BY <5>3, <5>4, <5>6
      <4>4. QED
        <5>1. script.kind = "ptunnel" /\ "greeting" \notin early
          BY <2>2, <3>1
        <5>2. \/ Len(written) = 0
              \/ server.state = "CLOSED"
              \/ Len(written) = 2
              \/ target # "none" /\ Behind(target)
          BY <5>1, AnswersSeen
        <5>3. Len(written) # 0 /\ Len(written) # 2
          BY <1>0, <4>1
        <5>4. QED
          BY <4>3, <5>2, <5>3
    <3>4. QED
      BY <3>1, <3>2, <3>3 DEF Upstream
  <2>3. QED
    BY <2>1, <2>2 DEF Upstream, UpstreamRight
<1>6. CASE ClientConnected
  <2> DEFINE len == ReplyLen(Answer(4), Answer(5))
  <2>1. /\ client'.state = "CONNECTED" /\ client'.busy = FALSE
        /\ client'.off = Erased(client, len) /\ client'.read = client.read
        /\ UNCHANGED <<script, server, target, written>>
    BY <1>6 DEF ClientConnected, End
  <2>2. early' = IF Size(client) < len THEN early \cup {"reply"} ELSE early
    BY <1>6 DEF ClientConnected
  <2>3. ASSUME script.kind = "ptunnel"
        PROVE  /\ target # "none"
               /\ \E r \in Replies :
                    /\ written = <<5, 0>> \o r \o (IF target = "data" THEN Down ELSE <<>>)
                    /\ client'.off <= 2 + Len(r)
                    /\ client'.off = IF "reply" \in early' THEN client.read ELSE 2 + Len(r)
    <3>1. /\ "greeting" \notin early /\ "reply" \notin early /\ client.off = 2
          /\ Answer(2) = 0 /\ Answer(4) \in {1, 3, 4}
      BY <1>6, <2>3 DEF ClientConnected, ClientLooping, Upstream
    <3>2. Answer(5) \in Nat
      <4>1. CASE client.off + 5 <= client.read
        <5>1. written \in Seq(ByteValue)
          BY DEF TypeOK
        <5>2. 7 \in 1 .. Len(written)
          BY <1>0, <3>1, <4>1
        <5>3. written[7] \in ByteValue
          BY <5>1, <5>2, ElementOfSeq
        <5>4. Answer(5) = written[7]
          BY <3>1, <4>1 DEF Answer, At
        <5>5. QED
          BY <5>3, <5>4, Bytes
      <4>2. CASE ~(client.off + 5 <= client.read)
        BY <4>2 DEF Answer, At
      <4>3. QED
        BY <4>1, <4>2
    <3>3. len \in Nat /\ len >= 7
      BY <3>1, <3>2 DEF ReplyLen
    <3> HIDE DEF len
    <3>4. client.read >= 6 /\ Len(written) >= 6
      <4>1. client.off + 4 <= client.read
        BY <3>1 DEF Answer, At
      <4>2. QED
        BY <1>0, <3>1, <4>1
    <3>5. Answer(2) = written[4] /\ Answer(4) = written[6]
      BY <1>0, <3>1, <3>4 DEF Answer, At
    <3>6. target # "none" /\ Behind(target)
      <4>1. \/ Len(written) = 0
            \/ Len(written) = 2
            \/ written[4] = 1
            \/ target # "none" /\ Behind(target)
        BY <2>3, <3>1, AnswersSeen
      <4>2. Len(written) # 0 /\ Len(written) # 2
        BY <1>0, <3>4
      <4>3. written[4] # 1
        BY <3>1, <3>5
      <4>4. QED
        BY <4>1, <4>2, <4>3
    <3>7. PICK r \in Replies : written = <<5, 0>> \o r \o (IF target = "data" THEN Down ELSE <<>>)
      BY <3>6 DEF Behind
    <3>8. /\ written[6] = r[4] /\ written[7] = r[5] /\ Len(r) = ReplyLen(r[4], r[5])
          /\ Len(r) \in Nat /\ Len(r) >= 7
      BY <3>7, ReplyWritten
    <3>9. client.read >= 7 => len = Len(r)
      <4>1. client.read >= 7 => Answer(5) = written[7]
        BY <1>0, <3>1 DEF Answer, At
      <4>2. QED
        BY <3>5, <3>8, <4>1 DEF len
    <3>10. CASE Size(client) < len
      <4>1. client.read - 2 < len /\ "reply" \in early'
        BY <2>2, <3>1, <3>10 DEF Size
      <4>2. Erased(client, len) = client.read
        BY <1>0, <3>1, <3>3, <4>1 DEF Erased, Lesser
      <4>3. client.read <= 2 + Len(r)
        <5>1. CASE client.read >= 7
          BY <1>0, <3>8, <3>9, <4>1, <5>1
        <5>2. CASE ~(client.read >= 7)
          BY <1>0, <3>8, <5>2
        <5>3. QED
          BY <5>1, <5>2
      <4>4. QED
        BY <2>1, <3>6, <3>7, <4>1, <4>2, <4>3
    <3>11. CASE ~(Size(client) < len)
      <4>1. client.read - client.off >= len /\ client.read >= 7 /\ "reply" \notin early'
        BY <1>0, <2>2, <3>1, <3>3, <3>11 DEF Size
      <4>2. Erased(client, len) = 2 + len
        BY <1>0, <3>1, <3>3, <4>1, ErasedInside
      <4>3. client'.off = 2 + Len(r)
        BY <2>1, <3>9, <4>1, <4>2
      <4>4. client'.off <= 2 + Len(r)
        BY <3>8, <4>3
      <4>5. client'.off = IF "reply" \in early' THEN client.read ELSE 2 + Len(r)
        BY <4>1, <4>3
      <4>6. QED
        BY <3>6, <3>7, <4>4, <4>5
    <3>12. QED
      BY <3>10, <3>11
  <2>4. "greeting" \in early' <=> "greeting" \in early
    BY <2>2
  <2>5. QED
    BY <2>1, <2>3, <2>4 DEF Upstream, UpstreamRight
<1>7. QED
  BY <1>1, <1>2, <1>3, <1>4, <1>5, <1>6 DEF ClientStep

\* The greeting of ptunnel's own client has three bytes, and client_info waits for
\* all of them.
LEMMA OwnGreetingArrives ==
  ASSUME TypeOK, Progress, script.kind = "ptunnel", server.state = "START", ~GreetingCut
  PROVE  Size(server) >= Ibuf(2) + 2
<1>1. Len(script.greeting) = 3 /\ script.greeting[2] = 1
  <2>1. Len(script.greeting) = 3 /\ Len(script.greeting) = script.greeting[2] + 2
    BY ScriptsWellFormed DEF TypeOK, WellFormed
  <2>2. 2 \in 1 .. Len(script.greeting) /\ script.greeting \in Seq(ByteValue)
    BY <2>1, StreamParts
  <2>3. script.greeting[2] \in Nat
    BY <2>2, ElementOfSeq, Bytes
  <2>4. script.greeting[2] + 2 = 3
    BY <2>1
  <2>5. \A n \in Nat : n + 2 = 3 => n = 1
    OBVIOUS
  <2>6. QED
    BY <2>1, <2>3, <2>4, <2>5
<1>2. server.off = 0 /\ server.read \in Nat
  BY Windows DEF Progress
<1>3. Stream[2] = 1
  <2>1. \A i \in 1 .. Len(script.greeting) : Stream[i] = script.greeting[i]
    BY StreamParts
  <2>2. 2 \in 1 .. Len(script.greeting)
    BY <1>1
  <2>3. QED
    BY <1>1, <2>1, <2>2
<1>4. Ibuf(2) = (IF server.read >= 2 THEN 1 ELSE 0) /\ Size(server) = server.read
  BY <1>2, <1>3 DEF Ibuf, At, Size
<1>5. ~(server.read <= 2 /\ server.read < Ibuf(2) + 2)
  BY <1>4 DEF GreetingCut
<1>6. QED
  BY <1>2, <1>4, <1>5

LEMMA StepUpstream ==
  ASSUME TypeOK, Progress, AnswersRight, Upstream, [Next]_vars
  PROVE  Upstream'
<1>0. /\ server \in [state : ServerStates, off : Nat, read : Nat, busy : BOOLEAN]
      /\ client \in [state : ClientStates, off : Nat, read : Nat, busy : BOOLEAN]
  BY DEF TypeOK
<1>1. CASE ClientStep
  BY <1>1, ClientUpstream
<1>2. CASE OutsideSends \/ TunnelSends \/ UNCHANGED vars
  BY <1>2 DEF OutsideSends, TunnelSends, vars, Upstream, UpstreamRight
<1>3. CASE OutsideHangsUp
  <2>1. client'.state = "GONE" /\ client'.busy = client.busy /\ client.state = "OUTSIDE"
        /\ UNCHANGED <<script, early>>
    BY <1>0, <1>3 DEF OutsideHangsUp
  <2>2. QED
    BY <2>1 DEF Upstream, UpstreamRight
<1>4. CASE ServerStep \/ PeerStep
  <2>1. script' = script /\ client' = client
    BY <1>4, ServerSideKeeps
  <2>2. /\ "reply" \in early' <=> "reply" \in early
        /\ script.kind = "ptunnel" => "greeting" \notin early'
    <3>1. CASE BadGreeting \/ NeedsAuthentication \/ Greeted
      <4>1. server.state = "START" /\ ~GreetingCut
        BY <3>1 DEF BadGreeting, NeedsAuthentication, Greeted, Looping
      <4>2. early' = IF Size(server) < Ibuf(2) + 2 THEN early \cup {"greeting"} ELSE early
        BY <3>1 DEF BadGreeting, NeedsAuthentication, Greeted, GreetingUsed
      <4>3. script.kind = "ptunnel" => ~(Size(server) < Ibuf(2) + 2)
        <5>1. Size(server) \in Nat /\ Ibuf(2) \in Nat
          BY Windows, IbufIsByte, Bytes
        <5>2. QED
          BY <4>1, <5>1, OwnGreetingArrives
      <4>4. QED
        BY <4>2, <4>3 DEF Upstream
    <3>2. CASE ~(BadGreeting \/ NeedsAuthentication \/ Greeted)
      <4>1. early' = early
        BY <1>4, <3>2 DEF ServerStep, PeerStep, ServerRead, ServerEof, ServerReturns,
           BadRequest, BadType, RequestRefused, RequestMade, Copy, Established, Reply,
           TargetData, Failed, PeerGone
      <4>2. QED
        BY <4>1 DEF Upstream
    <3>3. QED
      BY <3>1, <3>2
  <2>3. server.state = "CLOSED" => server'.state = "CLOSED"
    BY <1>0, <1>4 DEF ServerStep, PeerStep, ServerRead, ServerEof, ServerReturns, BadGreeting,
       NeedsAuthentication, Greeted, BadRequest, BadType, RequestRefused,
       RequestMade, Copy, Established, Reply, TargetData, Failed, PeerGone, Watched,
       GoodRequest, Looping, Progress
  <2>4. ASSUME target # "none",
               NEW r \in Replies,
               written = <<5, 0>> \o r \o (IF target = "data" THEN Down ELSE <<>>)
        PROVE  /\ target' # "none"
               /\ written' = <<5, 0>> \o r \o (IF target' = "data" THEN Down ELSE <<>>)
    <3>1. CASE TargetData
      <4>1. target = "replied" /\ target' = "data" /\ written' = written \o Down
        BY <3>1 DEF TargetData
      <4>2. <<5, 0>> \o r \in Seq(ByteValue)
        <5>1. 5 \in ByteValue /\ 0 \in ByteValue
          BY Bytes
        <5>2. <<5, 0>> \in Seq(ByteValue) /\ r \in Seq(ByteValue)
          BY <5>1, SocksConstants
        <5>3. QED
          BY <5>2, ConcatProperties
      <4>3. written = <<5, 0>> \o r
        BY <2>4, <4>1, <4>2, ConcatEmptySeq
      <4>4. QED
        BY <4>1, <4>3
    <3>2. CASE ~TargetData
      <4>1. ~Reply /\ ~Failed /\ ~BadType /\ ~RequestRefused /\ ~NeedsAuthentication /\ ~Greeted
        BY <2>4 DEF Reply, Failed, BadType, RequestRefused, NeedsAuthentication, Greeted,
           GoodRequest, Looping, Progress
      <4>2. target' = target /\ written' = written
        BY <1>4, <3>2, <4>1 DEF ServerStep, PeerStep, ServerRead, ServerEof, ServerReturns,
           BadGreeting, BadRequest, RequestMade, Copy, Established, PeerGone
      <4>3. QED
        BY <2>4, <4>2
    <3>3. QED
      BY <3>1, <3>2
  <2>5. QED
    BY <2>1, <2>2, <2>3, <2>4 DEF Upstream, UpstreamRight
<1>5. QED
  BY <1>1, <1>2, <1>3, <1>4 DEF Next

-----------------------------------------------------------------------------
(***************************************************************************)
(* The theorems.                                                           *)
(***************************************************************************)
LEMMA InitSInv == Init => SInv
<1> SUFFICES ASSUME Init PROVE SInv
  OBVIOUS
<1>1. TypeOK /\ NotAsked
  BY InitTypeOK
<1>2. server.state = "START" /\ server.off = 0 /\ server.busy = FALSE
  BY DEF Init, End
<1>3. written = <<>> /\ frames = <<>> /\ target = "none" /\ early = {}
  BY DEF Init
<1>a. asked = <<>>
  BY DEF Init
<1>4. Progress /\ Exact /\ OnlyEarlyBytesWait /\ AnswersRight
  BY <1>2, <1>3 DEF Progress, Exact, OnlyEarlyBytesWait, AnswersRight
<1>b. NotYetAsked /\ AskedRight
  BY <1>a DEF NotYetAsked, AskedRight
<1>5. FramesExact
  BY <1>3 DEF FramesExact
<1>c. client.state \in {"START", "OUTSIDE"} /\ client.off = 0 /\ client.busy = FALSE
  BY DEF Init, End
<1>d. Upstream
  BY <1>3, <1>c DEF Upstream, UpstreamRight
<1>6. QED
  BY <1>1, <1>4, <1>5, <1>b, <1>d DEF SInv

LEMMA SInvHolds == Spec => []SInv
<1>1. Init => SInv
  BY InitSInv
<1>2. SInv /\ [Next]_vars => SInv'
  BY StepTypeOK, StepProgress, StepExact, StepFramesExact, StepOnlyEarlyBytesWait,
     StepAnswersRight, StepAsked, StepUpstream DEF SInv
<1>3. QED
  BY <1>1, <1>2, PTL DEF Spec

\* Every variable stays in its domain, and no window of ready() leaves what was sent.
THEOREM SocksTypes == Spec => []TypeOK
<1>1. SInv => TypeOK
  BY DEF SInv
<1>2. QED
  BY <1>1, SInvHolds, PTL

\* The loop of client_info::ready gives the tunnel exactly the payload, however
\* its bytes are cut, unless the greeting was judged before it had arrived.
THEOREM TunnelGetsThePayload == Spec => []FramesExact
<1>1. SInv => FramesExact
  BY DEF SInv
<1>2. QED
  BY <1>1, SInvHolds, PTL

\* Only bytes that came before the connection was complete stay in ibuf.
THEOREM LaterBytesAreCopied == Spec => []OnlyEarlyBytesWait
<1>1. SInv => OnlyEarlyBytesWait
  BY DEF SInv
<1>2. QED
  BY <1>1, SInvHolds, PTL

\* A client sees one answer for its greeting, one for its request, and a success
\* only after the request was made.
THEOREM AnswersAreRight == Spec => []AnswersRight
<1>1. SInv => AnswersRight
  BY DEF SInv
<1>2. QED
  BY <1>1, SInvHolds, PTL

\* A request is made at most once, for the client that was told so, and the other
\* process connects where the client asked, for the addresses that cross the tunnel.
THEOREM RequestsAreRight == Spec => []AskedRight
<1>1. SInv => AskedRight
  BY DEF SInv
<1>2. QED
  BY <1>1, SInvHolds, PTL

\* The tunnel made through a SOCKS server is made only when the server connected,
\* and no byte behind the server's reply is lost to it.  It starts with the first of
\* them when the reply had arrived; when the reply was cut, what is missing of it
\* comes first.  It is given up only when the server failed or when less than four
\* bytes of the reply had arrived.
THEOREM UpstreamIsHandedOver == Spec => []UpstreamRight
<1>1. SInv => UpstreamRight
  BY DEF SInv, Upstream
<1>2. QED
  BY <1>1, SInvHolds, PTL
=============================================================================
