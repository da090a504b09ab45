----------------------------- MODULE TunnelProofs -----------------------------
(* Theorems about Tunnel, for every value of its constants. *)
EXTENDS Tunnel, SequenceTheorems, FiniteSetTheorems, TLAPS

-----------------------------------------------------------------------------
(***************************************************************************)
(* Lemmas about the operators of Tunnel.                                   *)
(***************************************************************************)

\* There are two ends, and each is the other's other.
LEMMA TwoEnds ==
  ASSUME NEW e \in End
  PROVE  /\ Other(e) \in End
         /\ Other(e) # e
         /\ Other(Other(e)) = e
         /\ \A d \in End : d # e => d = Other(e)
BY DEF End, Other

\* A channel number cut to a byte is a byte.
LEMMA AsByteIsByte == ASSUME NEW c \in Int PROVE AsByte(c) \in Byte
BY TunnelConstants DEF AsByte, Byte

\* The frames the program builds are frames.
LEMMA FramesAreFrames ==
  /\ \A c \in Int : /\ Established(c) \in Frame
                    /\ Failed(c) \in Frame
                    /\ Eof(c) \in Frame
  /\ \A c, d \in Int : Renumber(c, d) \in Frame
  /\ \A c \in Int, k \in Conn : /\ NewConnection(c, k) \in Frame
                               /\ S5Reply(c, k) \in Frame
  /\ \A c \in Int, k \in Conn, n \in 0 .. MaxSend : Data(c, k, n) \in Frame
<1>1. 0 \in Byte /\ 0 \in 0 .. MaxSend
  BY TunnelConstants DEF Byte
<1>2. QED
  BY <1>1, AsByteIsByte
     DEF NewConnection, Established, Failed, Renumber, Data, Eof, S5Reply, Msg, Frame, Commands

\* A write leaves sequences of frames.
LEMMA WriteType ==
  ASSUME obuf \in [End -> Seq(Frame)], NEW w \in [End -> Seq(Frame)],
         NEW e \in End, NEW frames \in Seq(Frame), Write(e, w, frames)
  PROVE  /\ wire' \in [End -> Seq(Frame)]
         /\ obuf' \in [End -> Seq(Frame)]
<1>1. Other(e) \in End
  BY TwoEnds
<1>2. w[Other(e)] \o obuf[e] \o frames \in Seq(Frame)
  BY <1>1
<1>3. <<>> \in Seq(Frame)
  OBVIOUS
<1>4. QED
  BY <1>1, <1>2, <1>3 DEF Write

\* Taking the first frame leaves sequences of frames.
LEMMA ConsumedType ==
  ASSUME wire \in [End -> Seq(Frame)], NEW e \in End, wire[e] # <<>>
  PROVE  /\ Frame1(e) \in Frame
         /\ Consumed(e) \in [End -> Seq(Frame)]
BY HeadTailProperties DEF Frame1, Consumed

-----------------------------------------------------------------------------
(***************************************************************************)
(* Type correctness.                                                       *)
(***************************************************************************)

LEMMA InitType == Init => TypeOK
<1>1. ASSUME NEW S PROVE <<>> \in Seq(S)
  OBVIOUS
<1>2. Asking \in Client /\ Unborn \in Client
  BY DEF Asking, Unborn, Client, ClientStates
<1>3. 0 \in 0 .. MaxSend
  BY TunnelConstants
<1>4. QED
  BY <1>1, <1>2, <1>3, TunnelConstants DEF Init, TypeOK, End

LEMMA NextType == TypeOK /\ [Next]_vars => TypeOK'
<1> SUFFICES ASSUME TypeOK, [Next]_vars PROVE TypeOK'
  OBVIOUS
<1> USE TunnelConstants
<1>a. Origin \in [Conn -> End] /\ Slot \subseteq Int /\ Byte \subseteq Slot /\ Closed \in Client
  BY DEF Slot, Byte, Closed, Client, ClientStates
<1>b. ASSUME NEW e \in End, NEW k \in Conn
      PROVE  /\ client[e][k] \in Client
             /\ client[e][k].channel \in Int
  BY DEF TypeOK, Client, Slot
<1>1. ASSUME NEW k \in Conn, RequestConnect(k) PROVE TypeOK'
  <2> DEFINE e == Origin[k]
  <2>1. e \in End
    BY <1>a
  <2>2. PICK c \in Slot :
          /\ c <= MaxChannel
          /\ Write(e, wire, <<NewConnection(c, k)>>)
          /\ clients' = [clients EXCEPT ![e][c] = k]
          /\ client' = [client EXCEPT ![e][k] =
                [state |-> "CONNECTING", channel |-> c, ignored |-> TRUE]]
    BY <1>1 DEF RequestConnect
  <2>3. <<NewConnection(c, k)>> \in Seq(Frame)
    BY <1>a, FramesAreFrames
  <2>4. wire' \in [End -> Seq(Frame)] /\ obuf' \in [End -> Seq(Frame)]
    BY <2>1, <2>2, <2>3, WriteType DEF TypeOK
  <2>5. client' \in [End -> [Conn -> Client]]
    BY <2>1, <2>2 DEF TypeOK, Client, ClientStates
  <2>6. clients' \in [End -> [Slot -> Conn \cup {None}]] /\ num' \in [End -> Int]
    BY <1>1, <2>1, <2>2 DEF TypeOK, RequestConnect
  <2>7. QED
    BY <1>1, <2>4, <2>5, <2>6 DEF TypeOK, RequestConnect
<1>2. ASSUME NEW k \in Conn, RequestRefused(k) PROVE TypeOK'
  BY <1>2, <1>a DEF RequestRefused, TypeOK
<1>3. ASSUME NEW e \in End, NEW k \in Conn, ClientData(e, k) PROVE TypeOK'
  <2>1. sent[e][k] + 1 \in 0 .. MaxSend
    BY <1>3 DEF ClientData, TypeOK
  <2>2. <<Data(client[e][k].channel, k, sent[e][k] + 1)>> \in Seq(Frame)
    BY <1>b, <2>1, FramesAreFrames
  <2>3. wire' \in [End -> Seq(Frame)] /\ obuf' \in [End -> Seq(Frame)]
    BY <1>3, <2>2, WriteType DEF TypeOK, ClientData
  <2>4. QED
    BY <1>3, <2>1, <2>3 DEF ClientData, TypeOK
<1>4. ASSUME NEW e \in End, NEW k \in Conn, ClientEof(e, k) PROVE TypeOK'
  <2>1. clients' \in [End -> [Slot -> Conn \cup {None}]]
    BY <1>4 DEF ClientEof, TypeOK
  <2>2. client' \in [End -> [Conn -> Client]]
    BY <1>4, <1>a DEF ClientEof, TypeOK
  <2>3. QED
    BY <1>4, <2>1, <2>2 DEF ClientEof, TypeOK
<1>j. ASSUME NEW e \in End, NEW k \in Conn
      PROVE  /\ Connected(client[e][k]) \in Client
             /\ \A c \in Slot : MovedTo(client[e][k], c) \in Client
             /\ \A cl \in Client :
                  [client EXCEPT ![e][k] = cl] \in [End -> [Conn -> Client]]
  BY DEF TypeOK, Connected, MovedTo, Client, ClientStates
<1>i. 0 \in 0 .. MaxSend
  OBVIOUS
<1>c. ASSUME NEW e \in End, NEW k \in Conn, NEW req \in Byte, NEW c \in Byte,
             NEW watched \in BOOLEAN, Attach(e, k, req, c, watched)
      PROVE  /\ clients' \in [End -> [Slot -> Conn \cup {None}]]
             /\ client' \in [End -> [Conn -> Client]]
             /\ num' \in [End -> Int]
  <2>1. [state   |-> IF c = req THEN "CONNECTED" ELSE "NEED_RENUMBER",
         channel |-> c, ignored |-> c # req \/ ~watched] \in Client
    BY <1>a DEF Client, ClientStates
  <2>2. QED
    BY <1>c, <1>a, <2>1 DEF Attach, TypeOK
<1>d. ASSUME NEW k \in Conn, NEW req \in Byte, NEW c \in Byte
      PROVE  Answer(k, req, c) \in Seq(Frame)
  BY <1>a, FramesAreFrames DEF Answer
<1>5. ASSUME NEW e \in End, NEW p \in pending[e], ConnectSucceeds(e, p) PROVE TypeOK'
  <2>1. p.conn \in Conn /\ p.req \in Byte /\ p.ch \in Byte
    BY DEF TypeOK
  <2>2. Attach(e, p.conn, p.req, p.ch, TRUE) /\ Write(e, wire, Answer(p.conn, p.req, p.ch))
    BY <1>5 DEF ConnectSucceeds
  <2>3. wire' \in [End -> Seq(Frame)] /\ obuf' \in [End -> Seq(Frame)]
    BY <2>1, <2>2, <1>d, WriteType DEF TypeOK
  <2>4. /\ clients' \in [End -> [Slot -> Conn \cup {None}]]
        /\ client' \in [End -> [Conn -> Client]]
        /\ num' \in [End -> Int]
    BY <2>1, <2>2, <1>c
  <2>5. QED
    BY <1>5, <2>3, <2>4 DEF ConnectSucceeds, TypeOK
<1>6. ASSUME NEW e \in End, NEW p \in pending[e], ConnectFails(e, p) PROVE TypeOK'
  <2>1. p.conn \in Conn /\ p.req \in Int
    BY DEF TypeOK, Byte
  <2>2. <<Failed(p.req)>> \in Seq(Frame)
    BY <2>1, <1>i, FramesAreFrames
  <2>3. QED
    BY <1>6, <2>2, WriteType DEF ConnectFails, TypeOK
<1>7. ASSUME NEW e \in End, NEW i \in DOMAIN timers[e], RetryRenumber(e, i) PROVE TypeOK'
  <2> DEFINE t == timers[e]
             Timer == [from : Byte, to : Slot]
  <2>1. t \in Seq(Timer)
    BY DEF TypeOK
  <2>a. i \in 1 .. Len(t) /\ t[i] \in Timer
    BY <2>1, LenProperties, ElementOfSeq
  <2>2. timers[e][i].from \in Int /\ timers[e][i].to \in Int
    BY <2>a DEF Byte, Slot
  <2>3. <<Renumber(timers[e][i].from, timers[e][i].to)>> \in Seq(Frame)
    BY <2>2, AsByteIsByte DEF Renumber, Msg, Frame, Commands, Byte
  <2>4. wire' \in [End -> Seq(Frame)] /\ obuf' \in [End -> Seq(Frame)]
    BY <1>7, <2>3, WriteType DEF RetryRenumber, TypeOK
  <2>5. SubSeq(t, 1, i - 1) \o SubSeq(t, i + 1, Len(t)) \in Seq(Timer)
    <3> HIDE DEF t, Timer
    <3>1. Len(t) \in Nat /\ \A j \in 1 .. Len(t) : t[j] \in Timer
      BY <2>1, LenProperties, ElementOfSeq
    <3>2. /\ i - 1 \in Int /\ 1 \in Int /\ \A j \in 1 .. i - 1 : t[j] \in Timer
          /\ i + 1 \in Int /\ Len(t) \in Int /\ \A j \in i + 1 .. Len(t) : t[j] \in Timer
      BY <2>a, <3>1
    <3>3. SubSeq(t, 1, i - 1) \in Seq(Timer)
      BY <3>2, SubSeqProperties
    <3>4. SubSeq(t, i + 1, Len(t)) \in Seq(Timer)
      BY <3>2, SubSeqProperties
    <3>5. QED
      BY <3>3, <3>4
  <2>6. QED
    BY <1>7, <2>4, <2>5 DEF RetryRenumber, TypeOK
<1>e. ASSUME NEW e \in End, NEW cmd, Arrived(e, cmd)
      PROVE  /\ Frame1(e) \in Frame
             /\ Frame1(e).cmd = cmd
             /\ Frame1(e).ch \in Byte /\ Frame1(e).to \in Byte
             /\ Consumed(e) \in [End -> Seq(Frame)]
  BY <1>e, ConsumedType DEF Arrived, Frame1, Frame, TypeOK
<1>f. ASSUME NEW e \in End, NEW cmd, Arrived(e, cmd), Consume(e)
      PROVE  wire' \in [End -> Seq(Frame)] /\ obuf' \in [End -> Seq(Frame)]
  BY <1>e, <1>f DEF Consume, TypeOK
<1>g. ASSUME NEW e \in End, NEW cmd, Arrived(e, cmd), NEW q \in Seq(Frame),
             Write(e, Consumed(e), q)
      PROVE  wire' \in [End -> Seq(Frame)] /\ obuf' \in [End -> Seq(Frame)]
  BY <1>e, <1>g, WriteType DEF TypeOK
<1>8. ASSUME NEW e \in End, RecvNewConnection(e) PROVE TypeOK'
  <2>1. PICK c \in Slot :
          /\ c <= MaxChannel
          /\ pending' = [pending EXCEPT ![e] = @ \cup
               {[conn |-> Frame1(e).conn, req |-> Frame1(e).ch, ch |-> c]}]
    BY <1>8 DEF RecvNewConnection
  <2>2. c \in Byte /\ Frame1(e).conn \in Conn /\ Frame1(e).ch \in Byte
    BY <1>8, <1>e, <2>1 DEF RecvNewConnection, Frame, Slot, Byte
  <2> DEFINE p == [conn |-> Frame1(e).conn, req |-> Frame1(e).ch, ch |-> c]
  <2>a. p \in [conn : Conn, req : Byte, ch : Byte]
    BY <2>2
  <2>b. pending[e] \cup {p} \in SUBSET [conn : Conn, req : Byte, ch : Byte]
    BY <2>a DEF TypeOK
  <2>3. pending' \in [End -> SUBSET [conn : Conn, req : Byte, ch : Byte]]
    BY <2>1, <2>b DEF TypeOK
  <2>4. wire' \in [End -> Seq(Frame)] /\ obuf' \in [End -> Seq(Frame)]
    BY <1>8, <1>f DEF RecvNewConnection
  <2>5. QED
    BY <1>8, <2>3, <2>4 DEF RecvNewConnection, TypeOK
<1>9. ASSUME NEW e \in End, RecvNewConnectionImmediate(e) PROVE TypeOK'
  <2> DEFINE m == Frame1(e)
  <2>1. Arrived(e, "NEW_CONNECTION")
    BY <1>9 DEF RecvNewConnectionImmediate
  <2>2. PICK c \in Slot :
          /\ c <= MaxChannel
          /\ Attach(e, m.conn, m.ch, c, FALSE)
          /\ Write(e, Consumed(e), Answer(m.conn, m.ch, c))
    BY <1>9 DEF RecvNewConnectionImmediate
  <2>3. c \in Byte /\ m.conn \in Conn /\ m.ch \in Byte
    BY <1>e, <2>1, <2>2 DEF Frame, Slot, Byte
  <2>4. wire' \in [End -> Seq(Frame)] /\ obuf' \in [End -> Seq(Frame)]
    BY <1>d, <1>g, <2>1, <2>2, <2>3
  <2>5. /\ clients' \in [End -> [Slot -> Conn \cup {None}]]
        /\ client' \in [End -> [Conn -> Client]]
        /\ num' \in [End -> Int]
    BY <1>c, <2>2, <2>3
  <2>6. QED
    BY <1>9, <2>4, <2>5 DEF RecvNewConnectionImmediate, TypeOK
<1>10. ASSUME NEW e \in End, RecvNewConnectionRefused(e) PROVE TypeOK'
  <2>1. Arrived(e, "NEW_CONNECTION")
    BY <1>10 DEF RecvNewConnectionRefused
  <2>2. Frame1(e).conn \in Conn /\ Frame1(e).ch \in Int
    BY <1>e, <2>1 DEF Frame, Byte
  <2>a. <<Failed(Frame1(e).ch)>> \in Seq(Frame)
    BY <1>i, <2>2, FramesAreFrames
  <2>3. QED
    BY <1>10, <1>g, <2>1, <2>a DEF RecvNewConnectionRefused, TypeOK
<1>h. ASSUME NEW e \in End, NEW c \in Slot, clients[e][c] # None
      PROVE  clients[e][c] \in Conn
  BY <1>h DEF TypeOK
<1>11. ASSUME NEW e \in End, RecvEstablished(e) PROVE TypeOK'
  <2> DEFINE c == Frame1(e).ch
             k == clients[e][c]
  <2>1. Arrived(e, "CONNECTION_ESTABLISHED") /\ wire' = Consumed(e)
    BY <1>11 DEF RecvEstablished
  <2>2. c \in Slot /\ Consumed(e) \in [End -> Seq(Frame)]
    BY <1>a, <1>e, <2>1
  <2>3. client' \in [End -> [Conn -> Client]] /\ obuf' \in [End -> Seq(Frame)]
    <3>1. CASE k = None
      BY <1>11, <3>1 DEF RecvEstablished, TypeOK
    <3>2. CASE k # None
      <4>1. k \in Conn
        BY <1>h, <2>2, <3>2
      <4>2. client' = [client EXCEPT ![e][k] = Connected(@)]
        BY <1>11, <3>2 DEF RecvEstablished
      <4>3. client' \in [End -> [Conn -> Client]]
        BY <4>1, <4>2, <1>j
      <4>4. <<S5Reply(client[e][k].channel, k)>> \in Seq(Frame)
        BY <1>b, <4>1, FramesAreFrames, TunnelConstants
      <4>a. obuf[e] \o <<S5Reply(client[e][k].channel, k)>> \in Seq(Frame)
        BY <4>4 DEF TypeOK
      <4>5. obuf' \in [End -> Seq(Frame)]
        BY <1>11, <3>2, <4>a DEF RecvEstablished, AppendObuf, TypeOK
      <4>6. QED
        BY <4>3, <4>5
    <3>3. QED
      BY <3>1, <3>2
  <2>4. QED
    BY <1>11, <2>1, <2>2, <2>3 DEF RecvEstablished, TypeOK
<1>12. ASSUME NEW e \in End, RecvFailedOrEof(e) PROVE TypeOK'
  <2> DEFINE c == Frame1(e).ch
  <2>1. c \in Slot /\ wire' \in [End -> Seq(Frame)] /\ obuf' \in [End -> Seq(Frame)]
    BY <1>12, <1>a, <1>e, <1>f DEF RecvFailedOrEof
  <2>2. Drop(e, c)
    BY <1>12 DEF RecvFailedOrEof
  <2>3. /\ clients' \in [End -> [Slot -> Conn \cup {None}]]
        /\ client' \in [End -> [Conn -> Client]]
        /\ num' \in [End -> Int]
    <3>1. CASE clients[e][c] = None
      BY <2>2, <3>1 DEF Drop, TypeOK
    <3>2. CASE clients[e][c] # None
      <4>1. clients[e][c] \in Conn
        BY <1>h, <2>1, <3>2
      <4>a. /\ client' = [client EXCEPT ![e][clients[e][c]] = Closed]
            /\ clients' = [clients EXCEPT ![e][c] = None]
            /\ num' = [num EXCEPT ![e] = @ - 1]
        BY <2>2, <3>2 DEF Drop
      <4> HIDE DEF c
      <4>2. client' \in [End -> [Conn -> Client]]
        BY <1>a, <1>j, <4>1, <4>a
      <4>3. clients' \in [End -> [Slot -> Conn \cup {None}]] /\ num' \in [End -> Int]
        BY <2>1, <4>a DEF TypeOK
      <4>4. QED
        BY <4>2, <4>3
    <3>3. QED
      BY <3>1, <3>2
  <2>4. QED
    BY <1>12, <2>1, <2>3 DEF RecvFailedOrEof, TypeOK
<1>13. ASSUME NEW e \in End, RecvRenumberInvalid(e) PROVE TypeOK'
  BY <1>13, <1>f DEF RecvRenumberInvalid, TypeOK
<1>14. ASSUME NEW e \in End, RecvRenumberMove(e) PROVE TypeOK'
  <2> DEFINE c == Frame1(e).ch
             d == Frame1(e).to
             k == clients[e][c]
             q == IF client[e][k].state = "NEED_RENUMBER"
                  THEN <<Established(d), S5Reply(d, k)>> ELSE <<Established(d)>>
  <2>1. /\ Arrived(e, "RENUMBER_CONNECTION") /\ k # None
        /\ clients' = [clients EXCEPT ![e] = [[@ EXCEPT ![c] = None] EXCEPT ![d] = k]]
        /\ client' = [client EXCEPT ![e][k] =
              [state |-> "CONNECTED", channel |-> d, ignored |-> FALSE]]
        /\ Write(e, Consumed(e), q)
    BY <1>14 DEF RecvRenumberMove
  <2>2. c \in Slot /\ d \in Slot /\ d \in Int
    BY <1>a, <1>e, <2>1
  <2>3. k \in Conn
    BY <1>h, <2>1, <2>2
  <2>4. q \in Seq(Frame)
    BY <2>2, <2>3, FramesAreFrames
  <2>5. wire' \in [End -> Seq(Frame)] /\ obuf' \in [End -> Seq(Frame)]
    BY <1>g, <2>1, <2>4
  <2>6. client' \in [End -> [Conn -> Client]]
    BY <2>1, <2>2, <2>3 DEF TypeOK, Client, ClientStates
  <2>7. clients' \in [End -> [Slot -> Conn \cup {None}]]
    BY <2>1, <2>2, <2>3 DEF TypeOK
  <2>8. QED
    BY <1>14, <2>5, <2>6, <2>7 DEF RecvRenumberMove, TypeOK
<1>15. ASSUME NEW e \in End, RecvRenumberTaken(e) PROVE TypeOK'
  <2> DEFINE c == Frame1(e).ch
             d == Frame1(e).to
             k == clients[e][c]
             table == [clients[e] EXCEPT ![c] = None]
  <2>1. Arrived(e, "RENUMBER_CONNECTION") /\ k # None /\ Consume(e)
    BY <1>15 DEF RecvRenumberTaken
  <2>2. PICK g \in Slot :
          /\ clients' = [clients EXCEPT ![e] = [table EXCEPT ![g] = k]]
          /\ client' = [client EXCEPT ![e][k] = MovedTo(@, g)]
          /\ timers' = [timers EXCEPT ![e] = Append(@, [from |-> d, to |-> g])]
    BY <1>15 DEF RecvRenumberTaken
  <2>3. c \in Slot /\ d \in Byte
    BY <1>a, <1>e, <2>1
  <2>4. k \in Conn
    BY <1>h, <2>1, <2>3
  <2>5. client' \in [End -> [Conn -> Client]]
    BY <2>2, <2>4, <1>j
  <2>6. clients' \in [End -> [Slot -> Conn \cup {None}]]
    BY <2>2, <2>4 DEF TypeOK
  <2>7. timers' \in [End -> Seq([from : Byte, to : Slot])]
    <3>1. [from |-> d, to |-> g] \in [from : Byte, to : Slot]
      BY <2>3
    <3>a. timers[e] \in Seq([from : Byte, to : Slot])
      BY DEF TypeOK
    <3>2. Append(timers[e], [from |-> d, to |-> g]) \in Seq([from : Byte, to : Slot])
      BY <3>1, <3>a, AppendProperties
    <3>3. QED
      BY <2>2, <3>2 DEF TypeOK
  <2>8. QED
    BY <1>15, <1>f, <2>1, <2>5, <2>6, <2>7 DEF RecvRenumberTaken, TypeOK
<1>16. ASSUME NEW e \in End, RecvData(e) PROVE TypeOK'
  <2> DEFINE m == Frame1(e)
             k == clients[e][m.ch]
  <2>1. Arrived(e, "DATA")
    BY <1>16 DEF RecvData
  <2>2. m.ch \in Slot /\ m.ch \in Int /\ m.conn \in Conn /\ m.n \in 0 .. MaxSend
    BY <1>a, <1>e, <2>1 DEF Frame
  <2>3. CASE k = None
    <3>1. <<Eof(m.ch)>> \in Seq(Frame)
      BY <2>2, FramesAreFrames
    <3>2. QED
      BY <1>16, <1>g, <2>1, <2>3, <3>1 DEF RecvData, TypeOK
  <2>4. CASE k # None
    <3>1. k \in Conn
      BY <1>h, <2>2, <2>4
    <3>2. /\ client' = IF client[e][k].state = "CONNECTING"
                       THEN [client EXCEPT ![e][k] = Connected(@)]
                       ELSE client
          /\ rcvd' = [rcvd EXCEPT ![e][k] = Append(@, [conn |-> m.conn, n |-> m.n])]
          /\ Consume(e)
      BY <1>16, <2>4 DEF RecvData
    <3>3. client' \in [End -> [Conn -> Client]]
      BY <3>1, <3>2, <1>j DEF TypeOK
    <3>4. rcvd' \in [End -> [Conn -> Seq(Item)]]
      <4>1. [conn |-> m.conn, n |-> m.n] \in Item
        BY <2>2 DEF Item
      <4>2. Append(rcvd[e][k], [conn |-> m.conn, n |-> m.n]) \in Seq(Item)
        BY <3>1, <4>1 DEF TypeOK
      <4>3. QED
        BY <3>1, <3>2, <4>2 DEF TypeOK
    <3>5. QED
      BY <1>16, <1>f, <2>1, <3>2, <3>3, <3>4 DEF RecvData, TypeOK
  <2>5. QED
    BY <2>3, <2>4
<1>17. ASSUME NEW e \in End, RecvGarbage(e) PROVE TypeOK'
  BY <1>17, <1>f DEF RecvGarbage, TypeOK
<1>18. ASSUME NEW e \in End, PeerLost(e) PROVE TypeOK'
  <2>1. client' \in [End -> [Conn -> Client]]
    BY <1>18, <1>a DEF PeerLost, TypeOK
  <2>2. obuf' \in [End -> Seq(Frame)] /\ wire' \in [End -> Seq(Frame)]
    BY <1>18 DEF PeerLost, TypeOK
  <2>3. clients' \in [End -> [Slot -> Conn \cup {None}]] /\ num' \in [End -> Int]
    BY <1>18 DEF PeerLost, TypeOK
  <2>4. QED
    BY <1>18, <2>1, <2>2, <2>3 DEF PeerLost, TypeOK
<1>19. ASSUME NEW e \in End, UseAfterDelete(e) PROVE TypeOK'
  BY <1>19 DEF UseAfterDelete, TypeOK
<1>20. CASE UNCHANGED vars
  BY <1>20 DEF vars, TypeOK
<1>21. QED
  BY <1>1, <1>2, <1>3, <1>4, <1>5, <1>6, <1>7, <1>8, <1>9, <1>10, <1>11, <1>12, <1>13,
     <1>14, <1>15, <1>16, <1>17, <1>18, <1>19, <1>20
     DEF Next, Receive, Callback

\* Every variable of Tunnel stays in its domain.
THEOREM TypeCorrect == Spec => []TypeOK
BY InitType, NextType, PTL DEF Spec
-----------------------------------------------------------------------------
(***************************************************************************)
(* Requests.  Most steps only take NEW_CONNECTION frames away.             *)
(***************************************************************************)

\* Every request of r is one of q, at the same place or one further on
Shrinks(q, r) ==
  \E s \in {0, 1} : \A i \in DOMAIN r :
    r[i].cmd = "NEW_CONNECTION" => i + s \in DOMAIN q /\ q[i + s] = r[i]

NoRequests(q) == \A i \in DOMAIN q : q[i].cmd # "NEW_CONNECTION"

\* Appending frames that are no requests.
LEMMA ConcatNoRequests ==
  ASSUME NEW q \in Seq(Frame), NEW r \in Seq(Frame), NoRequests(r)
  PROVE  /\ Shrinks(q, q \o r)
         /\ NoRequests(q) => NoRequests(q \o r)
<1>1. /\ Len(q) \in Nat /\ Len(r) \in Nat
      /\ DOMAIN q = 1 .. Len(q) /\ DOMAIN r = 1 .. Len(r)
      /\ DOMAIN (q \o r) = 1 .. Len(q) + Len(r)
  BY ConcatProperties, LenProperties
<1>2. ASSUME NEW i \in DOMAIN (q \o r), (q \o r)[i].cmd = "NEW_CONNECTION"
      PROVE  i \in DOMAIN q /\ q[i] = (q \o r)[i]
  <2>1. (q \o r)[i] = IF i <= Len(q) THEN q[i] ELSE r[i - Len(q)]
    BY <1>1, ConcatProperties
  <2>2. CASE i <= Len(q)
    BY <1>1, <2>1, <2>2
  <2>3. CASE ~(i <= Len(q))
    <3>1. i - Len(q) \in DOMAIN r
      BY <1>1, <2>3
    <3>2. QED
      BY <1>2, <2>1, <2>3, <3>1 DEF NoRequests
  <2>4. QED
    BY <2>2, <2>3
<1>3. \A i \in DOMAIN (q \o r) : (q \o r)[i].cmd = "NEW_CONNECTION" =>
        i + 0 \in DOMAIN q /\ q[i + 0] = (q \o r)[i]
  BY <1>1, <1>2
<1>4. QED
  BY <1>2, <1>3 DEF Shrinks, NoRequests

\* Writing frames that are no requests.
LEMMA WriteNoRequests ==
  ASSUME TypeOK, RequestsOnce, NEW w \in [End -> Seq(Frame)], NEW e \in End,
         NEW q \in Seq(Frame), NoRequests(q), Write(e, w, q)
  PROVE  /\ \A d \in End : NoRequests(obuf'[d])
         /\ wire'[e] = w[e]
         /\ Shrinks(w[Other(e)], wire'[Other(e)])
<1>1. obuf[e] \in Seq(Frame) /\ \A d \in End : NoRequests(obuf[d])
  BY DEF TypeOK, RequestsOnce, NoRequests
<1>2. obuf' = [obuf EXCEPT ![e] = <<>>] /\ obuf \in [End -> Seq(Frame)]
  BY DEF Write, TypeOK
<1>3. \A d \in End : NoRequests(obuf'[d])
  BY <1>1, <1>2 DEF NoRequests
<1>4. Other(e) \in End /\ Other(e) # e
  BY TwoEnds
<1>5. wire'[e] = w[e]
  BY <1>4 DEF Write
<1>a. w[Other(e)] \in Seq(Frame)
  BY <1>4
<1>6. (w[Other(e)] \o obuf[e]) \o q = w[Other(e)] \o (obuf[e] \o q)
  <2> DEFINE a == w[Other(e)]
             b == obuf[e]
  <2> HIDE DEF a, b
  <2>1. a \in Seq(Frame) /\ b \in Seq(Frame)
    BY <1>1, <1>a DEF a, b
  <2>2. (a \o b) \o q = a \o (b \o q)
    BY <2>1, ConcatAssociative
  <2>3. QED
    BY <2>2 DEF a, b
<1>7. NoRequests(obuf[e] \o q) /\ obuf[e] \o q \in Seq(Frame)
  BY <1>1, ConcatNoRequests
<1>8. Shrinks(w[Other(e)], (w[Other(e)] \o obuf[e]) \o q)
  BY <1>4, <1>6, <1>7, ConcatNoRequests
<1>9. Shrinks(w[Other(e)], <<>>)
  BY DEF Shrinks
<1>10. wire'[Other(e)] = IF peer[Other(e)] = "up"
                         THEN (w[Other(e)] \o obuf[e]) \o q ELSE <<>>
  BY <1>4 DEF Write
<1>11. QED
  BY <1>3, <1>5, <1>8, <1>9, <1>10

\* Taking the first frame.
LEMMA ConsumedShrinks ==
  ASSUME TypeOK, NEW e \in End, wire[e] # <<>>
  PROVE  /\ Shrinks(wire[e], Consumed(e)[e])
         /\ Consumed(e)[Other(e)] = wire[Other(e)]
         /\ Len(wire[e]) \in Nat /\ DOMAIN wire[e] = 1 .. Len(wire[e]) /\ 1 \in DOMAIN wire[e]
         /\ Frame1(e) = wire[e][1]
         /\ \A i \in DOMAIN Consumed(e)[e] :
              i \in Nat \ {0} /\ i + 1 \in DOMAIN wire[e] /\ Consumed(e)[e][i] = wire[e][i + 1]
<1>1. wire \in [End -> Seq(Frame)] /\ wire[e] \in Seq(Frame) /\ Other(e) \in End /\ Other(e) # e
  BY TwoEnds DEF TypeOK
<1>2. Consumed(e)[e] = Tail(wire[e]) /\ Consumed(e)[Other(e)] = wire[Other(e)]
  BY <1>1 DEF Consumed
<1> DEFINE q == wire[e]
<1>3. q \in Seq(Frame) /\ q # <<>>
  BY <1>1
<1> HIDE DEF q
<1>4. Len(q) \in Nat /\ DOMAIN q = 1 .. Len(q) /\ 1 \in DOMAIN q /\ Head(q) = q[1]
  BY <1>3, LenProperties, EmptySeq
<1>5. /\ Tail(q) \in Seq(Frame) /\ Len(Tail(q)) = Len(q) - 1
      /\ DOMAIN Tail(q) = 1 .. Len(Tail(q))
      /\ \A i \in 1 .. Len(Tail(q)) : Tail(q)[i] = q[i + 1]
  BY <1>3, HeadTailProperties, LenProperties
<1>6. \A i \in DOMAIN Tail(q) : i \in Nat \ {0} /\ i + 1 \in DOMAIN q /\ Tail(q)[i] = q[i + 1]
  BY <1>4, <1>5
<1>7. Shrinks(q, Tail(q))
  BY <1>6 DEF Shrinks
<1>8. QED
  BY <1>2, <1>4, <1>6, <1>7 DEF q, Frame1

\* A step that makes no request, and attaches only clients that are not
\* requested any more.
LEMMA RequestsShrink ==
  ASSUME TypeOK, TypeOK', RequestsOnce,
         \A d \in End : Shrinks(wire[d], wire'[d]),
         \A d \in End : NoRequests(obuf'[d]),
         \A d \in End : pending'[d] \subseteq pending[d],
         \A d \in End, k \in Conn :
           client'[d][k].state = "REQUEST" => client[d][k].state = "REQUEST",
         \A d \in End, k \in Conn :
           client[d][k].state = "NONE" /\ client'[d][k].state # "NONE" =>
             /\ ~Requested(d, k)'
             /\ client'[Origin[k]][k].state # "REQUEST"
  PROVE  RequestsOnce'
<1> SUFFICES ASSUME NEW e \in End
    PROVE  /\ \A p, q \in pending'[e] : p.conn = q.conn => p = q
           /\ \A i, j \in DOMAIN wire'[e], k \in Conn :
                IsRequest(wire'[e][i], k) /\ IsRequest(wire'[e][j], k) => i = j
           /\ \A i \in DOMAIN wire'[e], p \in pending'[e] : ~IsRequest(wire'[e][i], p.conn)
           /\ \A k \in Conn :
                Requested(e, k)' => /\ e # Origin[k]
                                    /\ client'[e][k].state = "NONE"
                                    /\ client'[Origin[k]][k].state # "REQUEST"
           /\ \A k \in Conn :
                client'[Origin[k]][k].state = "REQUEST" /\ e # Origin[k] =>
                  client'[e][k].state = "NONE"
  BY DEF RequestsOnce, NoRequests
<1>1. PICK s \in {0, 1} : \A i \in DOMAIN wire'[e] :
        wire'[e][i].cmd = "NEW_CONNECTION" =>
          i + s \in DOMAIN wire[e] /\ wire[e][i + s] = wire'[e][i]
  BY DEF Shrinks
<1>2. \A i \in DOMAIN wire'[e], k \in Conn : IsRequest(wire'[e][i], k) =>
        i + s \in DOMAIN wire[e] /\ IsRequest(wire[e][i + s], k)
  BY <1>1 DEF IsRequest
<1>3. \A k \in Conn : Requested(e, k)' => Requested(e, k)
  BY <1>2 DEF Requested
<1>4. \A p \in pending[e] : p.conn \in Conn
  BY DEF TypeOK
<1>5. \A p, q \in pending'[e] : p.conn = q.conn => p = q
  BY DEF RequestsOnce
<1>6. \A i \in DOMAIN wire'[e], p \in pending'[e] : ~IsRequest(wire'[e][i], p.conn)
  BY <1>2, <1>4 DEF RequestsOnce
<1>7. ASSUME NEW i \in DOMAIN wire'[e], NEW j \in DOMAIN wire'[e], NEW k \in Conn,
             IsRequest(wire'[e][i], k), IsRequest(wire'[e][j], k)
      PROVE  i = j
  <2>1. i + s = j + s
    BY <1>2, <1>7 DEF RequestsOnce
  <2>2. i \in Int /\ j \in Int
    <3>1. wire'[e] \in Seq(Frame)
      BY DEF TypeOK
    <3>2. DOMAIN wire'[e] = 1 .. Len(wire'[e])
      BY <3>1, LenProperties
    <3>3. QED
      BY <3>2
  <2>3. QED
    BY <2>1, <2>2
<1>8. \A k \in Conn : Origin[k] \in End
  BY TunnelConstants
<1>9. ASSUME NEW k \in Conn, Requested(e, k)'
      PROVE  /\ e # Origin[k]
             /\ client'[e][k].state = "NONE"
             /\ client'[Origin[k]][k].state # "REQUEST"
  BY <1>3, <1>8, <1>9 DEF RequestsOnce
<1>10. ASSUME NEW k \in Conn, client'[Origin[k]][k].state = "REQUEST", e # Origin[k]
       PROVE  client'[e][k].state = "NONE"
  BY <1>8, <1>10 DEF RequestsOnce
<1>11. QED
  BY <1>5, <1>6, <1>7, <1>9, <1>10
-----------------------------------------------------------------------------
(***************************************************************************)
(* The table and the requests, together with the types, are inductive.     *)
(***************************************************************************)
IInv == TypeOK /\ TableConsistent /\ RequestsOnce

IsAttached(cl) == cl.state \in {"CONNECTING", "NEED_RENUMBER", "CONNECTED"}

\* At most client k at end e and the table of e change
OnlyAt(e, k) ==
  /\ \A d \in End : d # e => clients'[d] = clients[d] /\ client'[d] = client[d]
  /\ \A j \in Conn : j # k => client'[e][j] = client[e][j]

\* ... and the table of e still fits its clients.
LEMMA TableChange ==
  ASSUME TypeOK, TypeOK', TableConsistent,
         NEW e \in End, NEW k \in Conn, OnlyAt(e, k),
         \A c \in Slot : clients'[e][c] = k =>
           IsAttached(client'[e][k]) /\ client'[e][k].channel = c,
         \A c \in Slot : clients'[e][c] \notin {k, None} => clients'[e][c] = clients[e][c]
  PROVE  TableConsistent'
<1> SUFFICES ASSUME NEW d \in End, NEW c \in Slot, clients'[d][c] # None
    PROVE  /\ IsAttached(client'[d][clients'[d][c]])
           /\ client'[d][clients'[d][c]].channel = c
  BY DEF TableConsistent, Attached, IsAttached
<1>1. ASSUME NEW j \in Conn, clients[d][c] = j
      PROVE  IsAttached(client[d][j]) /\ client[d][j].channel = c
  BY <1>1, TunnelConstants DEF TableConsistent, Attached, IsAttached
<1>2. clients'[d][c] \in Conn
  BY DEF TypeOK
<1>3. CASE d # e
  BY <1>1, <1>2, <1>3 DEF OnlyAt
<1>4. CASE d = e
  BY <1>1, <1>2, <1>4 DEF OnlyAt
<1>5. QED
  BY <1>3, <1>4

\* A session is in its table only while attached, and then in one slot.
LEMMA InTable ==
  ASSUME TypeOK, TableConsistent, NEW e \in End, NEW k \in Conn, NEW c \in Slot,
         clients[e][c] = k
  PROVE  /\ IsAttached(client[e][k])
         /\ client[e][k].channel = c
         /\ \A d \in Slot : clients[e][d] = k => d = c
BY TunnelConstants DEF TableConsistent, Attached, IsAttached

\* The requests, when one client that is not NONE changes to one that is neither
\* NONE nor REQUEST, and no request is made.
LEMMA RequestsKept ==
  ASSUME TypeOK, TypeOK', RequestsOnce,
         \A d \in End : Shrinks(wire[d], wire'[d]),
         \A d \in End : NoRequests(obuf'[d]),
         UNCHANGED pending,
         \A d \in End, k \in Conn :
           \/ client'[d][k] = client[d][k]
           \/ client[d][k].state # "NONE" /\ client'[d][k].state # "REQUEST"
  PROVE  RequestsOnce'
BY RequestsShrink

LEMMA TableStep == IInv /\ TypeOK' /\ [Next]_vars => TableConsistent'
<1> SUFFICES ASSUME TypeOK, TableConsistent, RequestsOnce, TypeOK', [Next]_vars
             PROVE  TableConsistent'
  BY DEF IInv
<1> USE TunnelConstants
<1>a. Origin \in [Conn -> End] /\ Byte \subseteq Slot
  BY DEF Slot, Byte
<1>b. ASSUME clients' = clients, client' = client PROVE TableConsistent'
  BY <1>b DEF TableConsistent, Attached
<1>c. ASSUME NEW e \in End, NEW k \in Conn, ~IsAttached(client[e][k])
      PROVE  \A c \in Slot : clients[e][c] # k
  BY <1>c, InTable
<1>d. \A e \in End : clients[e] \in [Slot -> Conn \cup {None}]
  BY DEF TypeOK
<1>1. ASSUME NEW k \in Conn, RequestConnect(k) PROVE TableConsistent'
  <2> DEFINE e == Origin[k]
  <2>1. e \in End /\ client[e][k].state = "REQUEST"
    BY <1>1, <1>a DEF RequestConnect
  <2>2. \A d \in Slot : clients[e][d] # k
    BY <1>c, <2>1 DEF IsAttached
  <2>3. PICK c \in Slot :
          /\ clients' = [clients EXCEPT ![e][c] = k]
          /\ client' = [client EXCEPT ![e][k] =
                [state |-> "CONNECTING", channel |-> c, ignored |-> TRUE]]
    BY <1>1 DEF RequestConnect
  <2> HIDE DEF e
  <2>4. OnlyAt(e, k)
    BY <2>1, <2>3 DEF OnlyAt, TypeOK
  <2>5. IsAttached(client'[e][k]) /\ client'[e][k].channel = c
    BY <2>1, <2>3 DEF IsAttached, TypeOK
  <2>6. \A d \in Slot : clients'[e][d] = IF d = c THEN k ELSE clients[e][d]
    BY <2>1, <2>3 DEF TypeOK
  <2>7. QED
    BY <2>1, <2>2, <2>4, <2>5, <2>6, TableChange
<1>e. ASSUME NEW e \in End, NEW k \in Conn, NEW req, NEW c \in Slot, NEW watched,
             Attach(e, k, req, c, watched), client[e][k].state = "NONE"
      PROVE  TableConsistent'
  <2>1. \A d \in Slot : clients[e][d] # k
    BY <1>c, <1>e DEF IsAttached
  <2>2. OnlyAt(e, k)
    BY <1>e DEF OnlyAt, Attach, TypeOK
  <2>3. IsAttached(client'[e][k]) /\ client'[e][k].channel = c
    BY <1>e DEF IsAttached, Attach, TypeOK
  <2>4. \A d \in Slot : clients'[e][d] = IF d = c THEN k ELSE clients[e][d]
    BY <1>e DEF Attach, TypeOK
  <2>5. QED
    BY <2>1, <2>2, <2>3, <2>4, TableChange
<1>2. ASSUME NEW k \in Conn, RequestRefused(k) PROVE TableConsistent'
  <2> DEFINE e == Origin[k]
  <2>1. e \in End /\ client[e][k].state = "REQUEST"
    BY <1>2, <1>a DEF RequestRefused
  <2>2. \A d \in Slot : clients[e][d] # k
    BY <1>c, <2>1 DEF IsAttached
  <2>3. clients' = clients /\ client' = [client EXCEPT ![e][k] = Closed]
    BY <1>2 DEF RequestRefused
  <2> HIDE DEF e
  <2>4. OnlyAt(e, k)
    BY <2>1, <2>3 DEF OnlyAt, TypeOK
  <2>5. QED
    BY <2>1, <2>2, <2>3, <2>4, TableChange
<1>4. ASSUME NEW e \in End, NEW k \in Conn, ClientEof(e, k) PROVE TableConsistent'
  <2> DEFINE c == client[e][k].channel
  <2>1. /\ client' = [client EXCEPT ![e][k] = Closed]
        /\ clients' = IF clients[e][c] = k THEN [clients EXCEPT ![e][c] = None] ELSE clients
    BY <1>4 DEF ClientEof
  <2>2. \A d \in Slot : clients[e][d] = k => d = c
    BY InTable
  <2> HIDE DEF c
  <2>3. OnlyAt(e, k)
    BY <2>1 DEF OnlyAt, TypeOK
  <2>4. \A d \in Slot : clients'[e][d] = IF clients[e][d] = k THEN None ELSE clients[e][d]
    BY <2>1, <2>2 DEF TypeOK
  <2>5. QED
    BY <2>3, <2>4, TableChange
<1>f. ASSUME NEW e \in End, NEW p \in pending[e]
      PROVE  p.conn \in Conn /\ p.ch \in Slot /\ client[e][p.conn].state = "NONE"
  <2>1. pending[e] \in SUBSET [conn : Conn, req : Byte, ch : Byte]
    BY DEF TypeOK
  <2>2. p.conn \in Conn /\ p.ch \in Byte
    BY <2>1
  <2>3. QED
    BY <1>a, <2>2 DEF RequestsOnce, Requested
<1>5. ASSUME NEW e \in End, NEW p \in pending[e], ConnectSucceeds(e, p) PROVE TableConsistent'
  BY <1>5, <1>e, <1>f DEF ConnectSucceeds
<1>g. ASSUME NEW e \in End, NEW cmd, Arrived(e, cmd)
      PROVE  /\ Frame1(e) \in Frame
             /\ Frame1(e).cmd = cmd
             /\ Frame1(e).ch \in Slot /\ Frame1(e).to \in Slot
             /\ 1 \in DOMAIN wire[e] /\ Frame1(e) = wire[e][1]
  BY <1>a, <1>g, ConsumedType, ConsumedShrinks DEF Arrived, Frame1, Frame, TypeOK
<1>9. ASSUME NEW e \in End, RecvNewConnectionImmediate(e) PROVE TableConsistent'
  <2> DEFINE m == Frame1(e)
  <2>1. Arrived(e, "NEW_CONNECTION")
    BY <1>9 DEF RecvNewConnectionImmediate
  <2>2. PICK c \in Slot : Attach(e, m.conn, m.ch, c, FALSE)
    BY <1>9 DEF RecvNewConnectionImmediate
  <2>3. m.conn \in Conn
    BY <1>g, <2>1 DEF Frame
  <2>4. IsRequest(wire[e][1], m.conn) /\ 1 \in DOMAIN wire[e]
    BY <1>g, <2>1 DEF IsRequest
  <2>5. client[e][m.conn].state = "NONE"
    BY <2>3, <2>4 DEF RequestsOnce, Requested
  <2>6. QED
    BY <1>e, <2>2, <2>3, <2>5
<1>h. ASSUME NEW e \in End, NEW c \in Slot, clients[e][c] # None
      PROVE  clients[e][c] \in Conn
  BY <1>h DEF TypeOK
<1>i. ASSUME NEW e \in End, NEW c \in Slot, NEW k \in Conn, clients[e][c] = k,
             clients' = clients, client' = [client EXCEPT ![e][k] = Connected(@)]
      PROVE  TableConsistent'
  <2>1. IsAttached(client'[e][k]) /\ client'[e][k].channel = c
    <3>1. client'[e][k] = Connected(client[e][k])
      BY <1>i DEF TypeOK
    <3>2. client[e][k].channel = c
      BY <1>i, InTable
    <3>3. QED
      BY <3>1, <3>2 DEF Connected, IsAttached
  <2>2. \A d \in Slot : clients[e][d] = k => d = c
    BY <1>i, InTable
  <2>3. OnlyAt(e, k)
    BY <1>i DEF OnlyAt, TypeOK
  <2>4. QED
    BY <1>i, <2>1, <2>2, <2>3, TableChange
<1>11. ASSUME NEW e \in End, RecvEstablished(e) PROVE TableConsistent'
  <2> DEFINE k == clients[e][Frame1(e).ch]
  <2>1. Frame1(e).ch \in Slot /\ clients' = clients
    BY <1>11, <1>g DEF RecvEstablished
  <2>2. CASE k = None
    BY <1>11, <1>b, <2>2 DEF RecvEstablished
  <2>3. CASE k # None
    BY <1>11, <1>h, <1>i, <2>1, <2>3 DEF RecvEstablished
  <2>4. QED
    BY <2>2, <2>3
<1>12. ASSUME NEW e \in End, RecvFailedOrEof(e) PROVE TableConsistent'
  <2> DEFINE c == Frame1(e).ch
             k == clients[e][c]
  <2>1. c \in Slot /\ Drop(e, c)
    BY <1>12, <1>g DEF RecvFailedOrEof
  <2> HIDE DEF c
  <2>2. CASE k = None
    BY <1>b, <2>1, <2>2 DEF Drop
  <2>3. CASE k # None
    <3>1. k \in Conn
      BY <1>h, <2>1, <2>3
    <3>2. client' = [client EXCEPT ![e][k] = Closed] /\ clients' = [clients EXCEPT ![e][c] = None]
      BY <2>1, <2>3 DEF Drop
    <3>3. \A d \in Slot : clients[e][d] = k => d = c
      BY <2>1, <3>1, InTable
    <3> HIDE DEF k
    <3>4. OnlyAt(e, k)
      BY <3>2 DEF OnlyAt, TypeOK
    <3>5. \A d \in Slot : clients'[e][d] = IF d = c THEN None ELSE clients[e][d]
      BY <2>1, <3>2 DEF TypeOK
    <3>6. QED
      BY <3>1, <3>3, <3>4, <3>5, TableChange
  <2>4. QED
    BY <2>2, <2>3
<1>j. ASSUME NEW e \in End, NEW c \in Slot, NEW d \in Slot, NEW k \in Conn, NEW cl,
             clients[e][c] = k, IsAttached(cl), cl.channel = d,
             clients' = [clients EXCEPT ![e] = [[clients[e] EXCEPT ![c] = None] EXCEPT ![d] = k]],
             client' = [client EXCEPT ![e][k] = cl]
      PROVE  TableConsistent'
  <2>1. \A g \in Slot : clients[e][g] = k => g = c
    BY <1>j, InTable
  <2>2. OnlyAt(e, k)
    BY <1>j DEF OnlyAt, TypeOK
  <2>3. IsAttached(client'[e][k]) /\ client'[e][k].channel = d
    BY <1>j DEF TypeOK
  <2>4. \A g \in Slot : clients'[e][g] = IF g = d THEN k
                                         ELSE IF g = c THEN None ELSE clients[e][g]
    BY <1>j DEF TypeOK
  <2>5. QED
    BY <2>1, <2>2, <2>3, <2>4, TableChange
<1>14. ASSUME NEW e \in End, RecvRenumberMove(e) PROVE TableConsistent'
  <2> DEFINE c == Frame1(e).ch
             d == Frame1(e).to
             k == clients[e][c]
             cl == [state |-> "CONNECTED", channel |-> d, ignored |-> FALSE]
  <2>1. c \in Slot /\ d \in Slot
    BY <1>14, <1>g DEF RecvRenumberMove
  <2>2. /\ k # None
        /\ clients' = [clients EXCEPT ![e] = [[@ EXCEPT ![c] = None] EXCEPT ![d] = k]]
        /\ client' = [client EXCEPT ![e][k] = cl]
    BY <1>14 DEF RecvRenumberMove
  <2> HIDE DEF c, d
  <2>3. k \in Conn /\ IsAttached(cl) /\ cl.channel = d
    BY <1>h, <2>1, <2>2 DEF IsAttached
  <2>4. QED
    BY <1>j, <2>1, <2>2, <2>3
<1>15. ASSUME NEW e \in End, RecvRenumberTaken(e) PROVE TableConsistent'
  <2> DEFINE c == Frame1(e).ch
             k == clients[e][c]
             table == [clients[e] EXCEPT ![c] = None]
  <2>1. c \in Slot /\ k # None
    BY <1>15, <1>g DEF RecvRenumberTaken
  <2>2. PICK g \in Slot :
          /\ clients' = [clients EXCEPT ![e] = [table EXCEPT ![g] = k]]
          /\ client' = [client EXCEPT ![e][k] = MovedTo(@, g)]
    BY <1>15 DEF RecvRenumberTaken
  <2> HIDE DEF c
  <2> DEFINE cl == MovedTo(client[e][k], g)
  <2>3. k \in Conn
    BY <1>h, <2>1
  <2>4. cl.channel = g /\ cl.state = client[e][k].state
    BY DEF MovedTo
  <2>5. IsAttached(cl)
    BY <2>1, <2>3, <2>4, InTable DEF IsAttached
  <2>6. client' = [client EXCEPT ![e][k] = cl]
    BY <2>2
  <2> HIDE DEF cl
  <2>7. QED
    BY <1>j, <2>1, <2>2, <2>3, <2>4, <2>5, <2>6
<1>16. ASSUME NEW e \in End, RecvData(e) PROVE TableConsistent'
  <2> DEFINE k == clients[e][Frame1(e).ch]
  <2>1. Frame1(e).ch \in Slot /\ clients' = clients
    BY <1>16, <1>g DEF RecvData
  <2>2. CASE client' = client
    BY <1>b, <2>1, <2>2
  <2>3. CASE k # None /\ client' = [client EXCEPT ![e][k] = Connected(@)]
    BY <1>h, <1>i, <2>1, <2>3
  <2>4. QED
    BY <1>16, <2>2, <2>3 DEF RecvData
<1>18. ASSUME NEW e \in End, PeerLost(e) PROVE TableConsistent'
  <2> SUFFICES ASSUME NEW d \in End, NEW c \in Slot, clients'[d][c] # None
      PROVE  /\ IsAttached(client'[d][clients'[d][c]])
             /\ client'[d][clients'[d][c]].channel = c
    BY DEF TableConsistent, Attached, IsAttached
  <2>1. /\ clients'[e] = [g \in Slot |-> None]
        /\ d # e => clients'[d] = clients[d] /\ client'[d] = client[d]
    BY <1>18 DEF PeerLost, TypeOK
  <2>2. d # e
    BY <2>1
  <2>3. QED
    BY <2>1, <2>2 DEF TableConsistent, Attached, IsAttached
<1>20. CASE UNCHANGED vars
  BY <1>20, <1>b DEF vars
<1>21. ASSUME NEW e \in End, NEW k \in Conn, ClientData(e, k) PROVE TableConsistent'
  BY <1>21, <1>b DEF ClientData
<1>22. ASSUME NEW e \in End, NEW p \in pending[e], ConnectFails(e, p) PROVE TableConsistent'
  BY <1>22, <1>b DEF ConnectFails
<1>23. ASSUME NEW e \in End, NEW i \in DOMAIN timers[e], RetryRenumber(e, i) PROVE TableConsistent'
  BY <1>23, <1>b DEF RetryRenumber
<1>24. ASSUME NEW e \in End,
              \/ RecvNewConnection(e) \/ RecvNewConnectionRefused(e)
              \/ RecvRenumberInvalid(e) \/ RecvGarbage(e) \/ UseAfterDelete(e)
       PROVE  TableConsistent'
  BY <1>24, <1>b DEF RecvNewConnection, RecvNewConnectionRefused, RecvRenumberInvalid,
                     RecvGarbage, UseAfterDelete
<1>25. QED
  BY <1>1, <1>2, <1>4, <1>5, <1>9, <1>11, <1>12, <1>14, <1>15, <1>16, <1>18, <1>20,
     <1>21, <1>22, <1>23, <1>24
     DEF Next, Receive, Callback
LEMMA RequestsStep == IInv /\ TypeOK' /\ [Next]_vars => RequestsOnce'
<1> SUFFICES ASSUME TypeOK, TableConsistent, RequestsOnce, TypeOK', [Next]_vars
             PROVE  RequestsOnce'
  BY DEF IInv
<1> USE TunnelConstants
<1>a. Origin \in [Conn -> End] /\ Byte \subseteq Slot /\ Byte \subseteq Int
  BY DEF Slot, Byte
<1>b. \A d \in End : Shrinks(wire[d], wire[d]) /\ NoRequests(obuf[d])
  <2>1. \A d \in End : wire[d] \in Seq(Frame)
    BY DEF TypeOK
  <2>2. \A d \in End : \A i \in DOMAIN wire[d] : i + 0 = i
    BY <2>1, LenProperties
  <2>3. QED
    BY <2>2 DEF Shrinks, NoRequests, RequestsOnce
<1>c. ASSUME NEW e \in End, NEW q \in Seq(Frame), NoRequests(q), Write(e, wire, q)
      PROVE  \A d \in End : Shrinks(wire[d], wire'[d]) /\ NoRequests(obuf'[d])
  <2>1. /\ \A d \in End : NoRequests(obuf'[d])
        /\ wire'[e] = wire[e]
        /\ Shrinks(wire[Other(e)], wire'[Other(e)])
    BY <1>c, WriteNoRequests DEF TypeOK
  <2>2. QED
    BY <1>b, <2>1, TwoEnds
<1>d. ASSUME NEW e \in End, NEW cmd, Arrived(e, cmd)
      PROVE  /\ Frame1(e) \in Frame /\ Frame1(e).cmd = cmd
             /\ Frame1(e).ch \in Slot /\ Frame1(e).ch \in Int
             /\ Frame1(e).to \in Slot /\ Frame1(e).to \in Int
             /\ Consumed(e) \in [End -> Seq(Frame)]
             /\ wire[e] # <<>>
             /\ Shrinks(wire[e], Consumed(e)[e])
             /\ Consumed(e)[Other(e)] = wire[Other(e)]
             /\ Frame1(e) = wire[e][1] /\ 1 \in DOMAIN wire[e]
             /\ \A i \in DOMAIN Consumed(e)[e] :
                  i + 1 \in DOMAIN wire[e] /\ i + 1 # 1 /\ Consumed(e)[e][i] = wire[e][i + 1]
  <2>1. wire[e] # <<>> /\ Head(wire[e]).cmd = cmd
    BY <1>d DEF Arrived
  <2>2. Frame1(e) \in Frame /\ Consumed(e) \in [End -> Seq(Frame)] /\ Frame1(e).cmd = cmd
    BY <2>1, ConsumedType DEF TypeOK, Frame1
  <2>3. Frame1(e).ch \in Byte /\ Frame1(e).to \in Byte
    BY <2>2 DEF Frame
  <2>4. /\ Frame1(e).ch \in Slot /\ Frame1(e).ch \in Int
        /\ Frame1(e).to \in Slot /\ Frame1(e).to \in Int
    BY <2>3 DEF Byte, Slot
  <2>5. /\ Shrinks(wire[e], Consumed(e)[e])
        /\ Consumed(e)[Other(e)] = wire[Other(e)]
        /\ Frame1(e) = wire[e][1] /\ 1 \in DOMAIN wire[e]
        /\ \A i \in DOMAIN Consumed(e)[e] :
             i \in Nat \ {0} /\ i + 1 \in DOMAIN wire[e] /\ Consumed(e)[e][i] = wire[e][i + 1]
    BY <2>1, ConsumedShrinks
  <2>6. \A i \in Nat \ {0} : i + 1 # 1
    OBVIOUS
  <2>7. QED
    BY <2>1, <2>2, <2>4, <2>5, <2>6
<1>e. ASSUME NEW e \in End, NEW cmd, Arrived(e, cmd), wire' = Consumed(e)
      PROVE  \A d \in End : Shrinks(wire[d], wire'[d])
  <2>1. Shrinks(wire[e], wire'[e]) /\ wire'[Other(e)] = wire[Other(e)]
    BY <1>d, <1>e
  <2>2. QED
    BY <1>b, <2>1, TwoEnds
<1>f. ASSUME NEW e \in End, NEW cmd, Arrived(e, cmd), NEW q \in Seq(Frame), NoRequests(q),
             Write(e, Consumed(e), q)
      PROVE  \A d \in End : Shrinks(wire[d], wire'[d]) /\ NoRequests(obuf'[d])
  <2>1. /\ \A d \in End : NoRequests(obuf'[d])
        /\ wire'[e] = Consumed(e)[e]
        /\ Shrinks(Consumed(e)[Other(e)], wire'[Other(e)])
    BY <1>d, <1>f, WriteNoRequests
  <2>2. /\ Shrinks(wire[e], Consumed(e)[e])
        /\ Consumed(e)[Other(e)] = wire[Other(e)]
    BY <1>d, <1>f
  <2>3. Shrinks(wire[e], wire'[e]) /\ Shrinks(wire[Other(e)], wire'[Other(e)])
    BY <2>1, <2>2
  <2>4. QED
    BY <2>1, <2>3, TwoEnds
<1>g. \A c, d \in Int :
        /\ <<Established(c)>> \in Seq(Frame) /\ NoRequests(<<Established(c)>>)
        /\ <<Failed(c)>> \in Seq(Frame) /\ NoRequests(<<Failed(c)>>)
        /\ <<Eof(c)>> \in Seq(Frame) /\ NoRequests(<<Eof(c)>>)
        /\ <<Renumber(c, d)>> \in Seq(Frame) /\ NoRequests(<<Renumber(c, d)>>)
  BY FramesAreFrames DEF NoRequests, Established, Failed, Eof, Renumber, Msg
<1>h. \A c \in Int, k \in Conn, n \in 0 .. MaxSend :
        <<Data(c, k, n)>> \in Seq(Frame) /\ NoRequests(<<Data(c, k, n)>>)
  BY FramesAreFrames DEF NoRequests, Data, Msg
<1>i. \A c \in Int, k \in Conn :
        /\ <<S5Reply(c, k)>> \in Seq(Frame) /\ NoRequests(<<S5Reply(c, k)>>)
        /\ <<Established(c), S5Reply(c, k)>> \in Seq(Frame)
        /\ NoRequests(<<Established(c), S5Reply(c, k)>>)
  BY FramesAreFrames DEF NoRequests, Established, S5Reply, Data, Msg
<1>j. ASSUME NEW k \in Conn, NEW req \in Int, NEW c \in Int
      PROVE  Answer(k, req, c) \in Seq(Frame) /\ NoRequests(Answer(k, req, c))
  BY <1>g, <1>i DEF Answer
<1>k. ASSUME \A d \in End : Shrinks(wire[d], wire'[d]),
             \A d \in End : NoRequests(obuf'[d]),
             pending' = pending,
             client' = client
      PROVE  RequestsOnce'
  BY <1>k, RequestsKept
<1>l. ASSUME NEW e \in End, NEW k \in Conn, NEW cl,
             \A d \in End : Shrinks(wire[d], wire'[d]),
             \A d \in End : NoRequests(obuf'[d]),
             pending' = pending,
             client' = [client EXCEPT ![e][k] = cl],
             client[e][k].state # "NONE", cl.state # "REQUEST"
      PROVE  RequestsOnce'
  <2>1. \A d \in End, j \in Conn :
          client'[d][j] = IF d = e /\ j = k THEN cl ELSE client[d][j]
    BY <1>l DEF TypeOK
  <2>2. QED
    BY <1>l, <2>1, RequestsKept
<1>m. ASSUME NEW e \in End, NEW c \in Slot, clients[e][c] # None
      PROVE  clients[e][c] \in Conn /\ client[e][clients[e][c]].state \notin {"NONE", "REQUEST"}
  <2>1. clients[e][c] \in Conn
    BY <1>m DEF TypeOK
  <2>2. QED
    BY <2>1, InTable DEF IsAttached
<1>1. ASSUME NEW k \in Conn, RequestConnect(k) PROVE RequestsOnce'
  <2> DEFINE e == Origin[k]
             o == Other(e)
  <2>1. e \in End /\ o \in End /\ o # e /\ \A d \in End : d # e => d = o
    BY <1>a, TwoEnds
  <2>2. PICK c \in Slot :
          /\ Write(e, wire, <<NewConnection(c, k)>>)
          /\ client' = [client EXCEPT ![e][k] =
                [state |-> "CONNECTING", channel |-> c, ignored |-> TRUE]]
    BY <1>1 DEF RequestConnect
  <2>3. client[e][k].state = "REQUEST" /\ client[o][k].state = "NONE" /\ pending' = pending
    BY <1>1, <2>1 DEF RequestConnect, RequestsOnce
  <2>4. \A d \in End : ~Requested(d, k)
    BY <2>3 DEF RequestsOnce
  <2>5. NewConnection(c, k).cmd = "NEW_CONNECTION" /\ NewConnection(c, k).conn = k
        /\ NewConnection(c, k) \in Frame
    BY FramesAreFrames DEF NewConnection, Msg, Slot
  <2> DEFINE m == NewConnection(c, k)
             q == wire[o] \o obuf[e]
  <2> HIDE DEF e, o, m
  <2>6. wire[o] \in Seq(Frame) /\ obuf[e] \in Seq(Frame) /\ NoRequests(obuf[e])
    BY <1>b, <2>1 DEF TypeOK
  <2>7. q \in Seq(Frame) /\ Shrinks(wire[o], q)
    BY <2>6, ConcatNoRequests
  <2>8. /\ wire' = [wire EXCEPT ![o] = IF peer[o] = "up" THEN q \o <<m>> ELSE <<>>]
        /\ obuf' = [obuf EXCEPT ![e] = <<>>]
    BY <2>2 DEF Write, e, o, m
  <2> HIDE DEF q
  <2>9. \A d \in End : NoRequests(obuf'[d])
    BY <1>b, <2>1, <2>8 DEF NoRequests, TypeOK
  <2>10. wire'[e] = wire[e] /\ wire'[o] = IF peer[o] = "up" THEN q \o <<m>> ELSE <<>>
    BY <2>1, <2>8 DEF TypeOK
  <2>11. \A d \in End, j \in Conn :
           client'[d][j] = IF d = e /\ j = k
                           THEN [state |-> "CONNECTING", channel |-> c, ignored |-> TRUE]
                           ELSE client[d][j]
    BY <2>1, <2>2 DEF TypeOK, e
  <2>12. CASE peer[o] # "up"
    <3>1. Shrinks(wire[o], wire'[o])
      BY <2>10, <2>12 DEF Shrinks
    <3>2. \A d \in End : Shrinks(wire[d], wire'[d])
      BY <1>b, <2>1, <2>10, <3>1
    <3>3. QED
      BY <2>3, <2>9, <2>11, <3>2, RequestsKept
  <2>13. CASE peer[o] = "up"
    <3>1. PICK s \in {0, 1} : \A i \in DOMAIN q :
            q[i].cmd = "NEW_CONNECTION" => i + s \in DOMAIN wire[o] /\ wire[o][i + s] = q[i]
      BY <2>7 DEF Shrinks
    <3>2. /\ Len(q) \in Nat /\ DOMAIN q = 1 .. Len(q)
          /\ DOMAIN wire'[o] = 1 .. Len(q) + 1
          /\ \A i \in 1 .. Len(q) : wire'[o][i] = q[i]
          /\ wire'[o][Len(q) + 1] = m
      <4>1. m \in Frame
        BY <2>5 DEF m
      <4>2. wire'[o] = Append(q, m)
        BY <2>7, <2>10, <2>13, <4>1
      <4>3. QED
        BY <2>7, <4>1, <4>2, AppendProperties, LenProperties
    <3>3. \A i \in DOMAIN wire'[o], j \in Conn : IsRequest(wire'[o][i], j) =>
            \/ i = Len(q) + 1 /\ j = k
            \/ i \in Int /\ i + s \in DOMAIN wire[o] /\ IsRequest(wire[o][i + s], j) /\ j # k
      <4>1. ASSUME NEW i \in DOMAIN wire'[o], NEW j \in Conn, IsRequest(wire'[o][i], j),
                   i # Len(q) + 1
            PROVE  i \in Int /\ i + s \in DOMAIN wire[o] /\ IsRequest(wire[o][i + s], j) /\ j # k
        <5>1. i \in DOMAIN q /\ i \in Int /\ wire'[o][i] = q[i]
          BY <3>2, <4>1
        <5>2. i + s \in DOMAIN wire[o] /\ IsRequest(wire[o][i + s], j)
          BY <3>1, <4>1, <5>1 DEF IsRequest
        <5>3. Requested(o, j)
          BY <5>2 DEF Requested
        <5>4. QED
          BY <2>1, <2>4, <5>1, <5>2, <5>3
      <4>2. ASSUME NEW j \in Conn, IsRequest(wire'[o][Len(q) + 1], j) PROVE j = k
        BY <2>5, <3>2, <4>2 DEF IsRequest, m
      <4>3. QED
        BY <4>1, <4>2
    <3>4. ASSUME NEW j \in Conn, Requested(o, j)' PROVE j = k \/ Requested(o, j)
      BY <2>3, <3>3, <3>4 DEF Requested
    <3>5. ASSUME NEW j \in Conn, Requested(e, j)' PROVE Requested(e, j) /\ j # k
      BY <2>1, <2>3, <2>4, <2>10, <3>5 DEF Requested
    <3>6. \A i, j \in DOMAIN wire'[o], l \in Conn :
            IsRequest(wire'[o][i], l) /\ IsRequest(wire'[o][j], l) => i = j
      <4>1. ASSUME NEW i \in DOMAIN wire'[o], NEW j \in DOMAIN wire'[o], NEW l \in Conn,
                   IsRequest(wire'[o][i], l), IsRequest(wire'[o][j], l)
            PROVE  i = j
        <5>1. CASE l = k
          BY <3>3, <4>1, <5>1
        <5>2. CASE l # k
          <6>1. /\ i \in Int /\ i + s \in DOMAIN wire[o] /\ IsRequest(wire[o][i + s], l)
                /\ j \in Int /\ j + s \in DOMAIN wire[o] /\ IsRequest(wire[o][j + s], l)
            BY <3>3, <4>1, <5>2
          <6>2. i + s = j + s
            BY <2>1, <6>1 DEF RequestsOnce
          <6>3. QED
            BY <6>1, <6>2
        <5>3. QED
          BY <5>1, <5>2
      <4>2. QED
        BY <4>1
    <3>7. \A d \in End : \A p \in pending[d] : p.conn \in Conn /\ p.conn # k
      BY <2>4 DEF TypeOK, Requested
    <3>8. \A i \in DOMAIN wire'[o], p \in pending'[o] : ~IsRequest(wire'[o][i], p.conn)
      BY <2>1, <2>3, <3>3, <3>7 DEF RequestsOnce
    <3>9. ASSUME NEW d \in End, NEW j \in Conn, Requested(d, j)'
          PROVE  /\ d # Origin[j]
                 /\ client'[d][j].state = "NONE"
                 /\ client'[Origin[j]][j].state # "REQUEST"
      <4>1. CASE j = k
        <5>1. d = o
          BY <2>1, <3>5, <3>9, <4>1
        <5>2. QED
          BY <2>1, <2>3, <2>11, <4>1, <5>1 DEF e
      <4>2. CASE j # k
        <5>1. Requested(d, j)
          BY <2>1, <3>4, <3>5, <3>9, <4>2
        <5>2. QED
          BY <1>a, <2>11, <4>2, <5>1 DEF RequestsOnce
      <4>3. QED
        BY <4>1, <4>2
    <3>10. \A d \in End, j \in Conn :
             client'[Origin[j]][j].state = "REQUEST" /\ d # Origin[j] => client'[d][j].state = "NONE"
      <4>1. ASSUME NEW d \in End, NEW j \in Conn,
                   client'[Origin[j]][j].state = "REQUEST", d # Origin[j]
            PROVE  client'[d][j].state = "NONE"
        <5>1. j # k
          BY <2>1, <2>11, <4>1 DEF e
        <5>2. QED
          BY <1>a, <2>11, <4>1, <5>1 DEF RequestsOnce
      <4>2. QED
        BY <4>1
    <3>11. /\ \A i, j \in DOMAIN wire'[e], l \in Conn :
               IsRequest(wire'[e][i], l) /\ IsRequest(wire'[e][j], l) => i = j
           /\ \A i \in DOMAIN wire'[e], p \in pending'[e] : ~IsRequest(wire'[e][i], p.conn)
      BY <2>1, <2>3, <2>10 DEF RequestsOnce
    <3>12. \A d \in End : \A p, q1 \in pending'[d] : p.conn = q1.conn => p = q1
      BY <2>3 DEF RequestsOnce
    <3>13. \A d \in End : \A i \in DOMAIN obuf'[d] : obuf'[d][i].cmd # "NEW_CONNECTION"
      BY <2>9 DEF NoRequests
    <3>14. QED
      BY <2>1, <3>6, <3>8, <3>9, <3>10, <3>11, <3>12, <3>13 DEF RequestsOnce
  <2>14. QED
    BY <2>12, <2>13
<1>2. ASSUME NEW k \in Conn, RequestRefused(k) PROVE RequestsOnce'
  <2>1. /\ Origin[k] \in End /\ client[Origin[k]][k].state # "NONE"
        /\ client' = [client EXCEPT ![Origin[k]][k] = Closed]
        /\ wire' = wire /\ obuf' = obuf /\ pending' = pending
    BY <1>2, <1>a DEF RequestRefused
  <2>2. Closed.state # "REQUEST"
    BY DEF Closed
  <2>3. QED
    BY <1>b, <1>l, <2>1, <2>2
<1>3. ASSUME NEW e \in End, NEW k \in Conn, ClientData(e, k) PROVE RequestsOnce'
  <2> DEFINE q == <<Data(client[e][k].channel, k, sent[e][k] + 1)>>
  <2>1. client[e][k].channel \in Int /\ sent[e][k] + 1 \in 0 .. MaxSend
    <3>1. client[e][k] \in Client /\ sent[e][k] \in 0 .. MaxSend
      BY DEF TypeOK
    <3>2. QED
      BY <1>3, <3>1 DEF ClientData, Client, Slot
  <2>2. q \in Seq(Frame) /\ NoRequests(q)
    BY <1>h, <2>1
  <2>3. Write(e, wire, q) /\ pending' = pending /\ client' = client
    BY <1>3 DEF ClientData
  <2> HIDE DEF q
  <2>4. QED
    BY <1>c, <1>k, <2>2, <2>3
<1>4. ASSUME NEW e \in End, NEW k \in Conn, ClientEof(e, k) PROVE RequestsOnce'
  <2>1. /\ client[e][k].state # "NONE"
        /\ client' = [client EXCEPT ![e][k] = Closed]
        /\ wire' = wire /\ obuf' = obuf /\ pending' = pending
    BY <1>4 DEF ClientEof
  <2>2. Closed.state # "REQUEST"
    BY DEF Closed
  <2>3. QED
    BY <1>b, <1>l, <2>1, <2>2
<1>n. ASSUME NEW e \in End, NEW p \in pending[e]
      PROVE  /\ p.conn \in Conn /\ p.req \in Int /\ p.ch \in Int
             /\ Requested(e, p.conn)
  <2>1. pending[e] \in SUBSET [conn : Conn, req : Byte, ch : Byte]
    BY DEF TypeOK
  <2>2. QED
    BY <1>a, <2>1 DEF Requested
<1>o. ASSUME NEW e \in End, NEW k \in Conn, NEW req, NEW c, NEW watched,
             Attach(e, k, req, c, watched)
      PROVE  /\ client'[e][k].state \notin {"NONE", "REQUEST"}
             /\ \A d \in End, j \in Conn : d # e \/ j # k => client'[d][j] = client[d][j]
  BY <1>o DEF Attach, TypeOK
<1>5. ASSUME NEW e \in End, NEW p \in pending[e], ConnectSucceeds(e, p) PROVE RequestsOnce'
  <2> DEFINE k == p.conn
             q == Answer(k, p.req, p.ch)
  <2>1. k \in Conn /\ Requested(e, k) /\ q \in Seq(Frame) /\ NoRequests(q)
    BY <1>j, <1>n
  <2>2. /\ Attach(e, k, p.req, p.ch, TRUE) /\ Write(e, wire, q)
        /\ pending' = [pending EXCEPT ![e] = @ \ {p}]
    BY <1>5 DEF ConnectSucceeds
  <2>3. /\ \A i \in DOMAIN wire[e] : ~IsRequest(wire[e][i], k)
        /\ \A r \in pending[e] : r.conn = k => r = p
        /\ client[Origin[k]][k].state # "REQUEST" /\ e # Origin[k]
    BY <2>1 DEF RequestsOnce
  <2> HIDE DEF k, q
  <2>4. wire'[e] = wire[e]
    BY <2>1, <2>2, WriteNoRequests DEF TypeOK
  <2>5. /\ pending'[e] = pending[e] \ {p}
        /\ \A d \in End : pending'[d] \subseteq pending[d]
    BY <2>2 DEF TypeOK
  <2>6. ~Requested(e, k)'
    BY <2>3, <2>4, <2>5 DEF Requested
  <2>7. client'[Origin[k]][k].state # "REQUEST"
    BY <1>a, <1>o, <2>1, <2>2, <2>3
  <2>8. \A d \in End : Shrinks(wire[d], wire'[d]) /\ NoRequests(obuf'[d])
    BY <1>c, <2>1, <2>2
  <2>9. \A d \in End, j \in Conn :
           \/ client'[d][j] = client[d][j]
           \/ d = e /\ j = k /\ client'[d][j].state # "REQUEST"
    <3>1. /\ client'[e][k].state \notin {"NONE", "REQUEST"}
          /\ \A d \in End, j \in Conn : d # e \/ j # k => client'[d][j] = client[d][j]
      BY <1>o, <2>1, <2>2
    <3>2. QED
      BY <3>1
  <2>10. QED
    BY <2>5, <2>6, <2>7, <2>8, <2>9, RequestsShrink
<1>6. ASSUME NEW e \in End, NEW p \in pending[e], ConnectFails(e, p) PROVE RequestsOnce'
  <2>1. /\ Write(e, wire, <<Failed(p.req)>>) /\ client' = client
        /\ \A d \in End : pending'[d] \subseteq pending[d]
    BY <1>6 DEF ConnectFails, TypeOK
  <2>2. <<Failed(p.req)>> \in Seq(Frame) /\ NoRequests(<<Failed(p.req)>>)
    BY <1>g, <1>n
  <2>3. QED
    BY <1>c, <2>1, <2>2, RequestsShrink
<1>7. ASSUME NEW e \in End, NEW i \in DOMAIN timers[e], RetryRenumber(e, i) PROVE RequestsOnce'
  <2> DEFINE q == <<Renumber(timers[e][i].from, timers[e][i].to)>>
  <2>1. timers[e][i] \in [from : Byte, to : Slot]
    <3>1. timers[e] \in Seq([from : Byte, to : Slot])
      BY DEF TypeOK
    <3>2. QED
      BY <3>1, ElementOfSeq, LenProperties
  <2>2. timers[e][i].from \in Int /\ timers[e][i].to \in Int
    BY <2>1 DEF Byte, Slot
  <2>3. q \in Seq(Frame) /\ NoRequests(q)
    BY <1>g, <2>2
  <2>4. Write(e, wire, q) /\ client' = client /\ pending' = pending
    BY <1>7 DEF RetryRenumber
  <2> HIDE DEF q
  <2>5. QED
    BY <1>c, <1>k, <2>3, <2>4
<1>p. ASSUME NEW e \in End, Arrived(e, "NEW_CONNECTION")
      PROVE  /\ Frame1(e).conn \in Conn
             /\ Requested(e, Frame1(e).conn)
             /\ \A r \in pending[e] : r.conn # Frame1(e).conn
             /\ \A i \in DOMAIN Consumed(e)[e] : ~IsRequest(Consumed(e)[e][i], Frame1(e).conn)
  <2>1. Frame1(e).conn \in Conn
    BY <1>d, <1>p DEF Frame
  <2>2. IsRequest(wire[e][1], Frame1(e).conn) /\ 1 \in DOMAIN wire[e]
    BY <1>d, <1>p DEF IsRequest
  <2>3. \A i \in DOMAIN Consumed(e)[e] :
          i + 1 \in DOMAIN wire[e] /\ i + 1 # 1 /\ Consumed(e)[e][i] = wire[e][i + 1]
    BY <1>d, <1>p
  <2>4. \A i \in DOMAIN wire[e] : i # 1 => ~IsRequest(wire[e][i], Frame1(e).conn)
    BY <2>1, <2>2 DEF RequestsOnce
  <2>5. \A r \in pending[e] : r.conn # Frame1(e).conn
    BY <2>2 DEF RequestsOnce
  <2>6. QED
    BY <2>1, <2>2, <2>3, <2>4, <2>5 DEF Requested
<1>8. ASSUME NEW e \in End, RecvNewConnection(e) PROVE RequestsOnce'
  <2> DEFINE k == Frame1(e).conn
  <2>1. Arrived(e, "NEW_CONNECTION") /\ wire' = Consumed(e) /\ obuf' = obuf /\ client' = client
    BY <1>8 DEF RecvNewConnection, Consume
  <2>2. PICK r : r.conn = k /\ pending' = [pending EXCEPT ![e] = @ \cup {r}]
    BY <1>8 DEF RecvNewConnection
  <2>3. /\ k \in Conn /\ Requested(e, k)
        /\ \A p \in pending[e] : p.conn # k
        /\ \A i \in DOMAIN wire'[e] : ~IsRequest(wire'[e][i], k)
    BY <1>p, <2>1
  <2> HIDE DEF k
  <2>4. \A d \in End : Shrinks(wire[d], wire'[d])
    BY <1>e, <2>1
  <2>5. \A d \in End : pending'[d] = IF d = e THEN pending[e] \cup {r} ELSE pending[d]
    BY <2>2 DEF TypeOK
  <2>6. ASSUME NEW d \in End
        PROVE  /\ \A j \in Conn : Requested(d, j)' => Requested(d, j)
               /\ \A p, q \in pending'[d] : p.conn = q.conn => p = q
               /\ \A i, j \in DOMAIN wire'[d], l \in Conn :
                    IsRequest(wire'[d][i], l) /\ IsRequest(wire'[d][j], l) => i = j
               /\ \A i \in DOMAIN wire'[d], p \in pending'[d] : ~IsRequest(wire'[d][i], p.conn)
    <3>1. PICK s \in {0, 1} : \A i \in DOMAIN wire'[d] :
            wire'[d][i].cmd = "NEW_CONNECTION" =>
              i + s \in DOMAIN wire[d] /\ wire[d][i + s] = wire'[d][i]
      BY <2>4 DEF Shrinks
    <3>2. \A i \in DOMAIN wire'[d], j \in Conn : IsRequest(wire'[d][i], j) =>
            i + s \in DOMAIN wire[d] /\ IsRequest(wire[d][i + s], j)
      BY <3>1 DEF IsRequest
    <3>3. \A j \in Conn : Requested(d, j)' => Requested(d, j)
      BY <2>2, <2>3, <2>5, <3>2 DEF Requested
    <3>4. \A p, q \in pending'[d] : p.conn = q.conn => p = q
      BY <2>2, <2>3, <2>5 DEF RequestsOnce
    <3>5. \A p \in pending[d] : p.conn \in Conn
      BY <1>n
    <3>6. \A i \in DOMAIN wire'[d], p \in pending'[d] : ~IsRequest(wire'[d][i], p.conn)
      BY <2>2, <2>3, <2>5, <3>2, <3>5 DEF RequestsOnce
    <3>7. ASSUME NEW i \in DOMAIN wire'[d], NEW j \in DOMAIN wire'[d], NEW l \in Conn,
                 IsRequest(wire'[d][i], l), IsRequest(wire'[d][j], l)
          PROVE  i = j
      <4>1. i + s = j + s
        BY <3>2, <3>7 DEF RequestsOnce
      <4>2. wire'[d] \in Seq(Frame)
        BY DEF TypeOK
      <4>3. i \in Int /\ j \in Int
        BY <4>2, LenProperties
      <4>4. QED
        BY <4>1, <4>3
    <3>8. QED
      BY <3>3, <3>4, <3>6, <3>7
  <2>7. QED
    BY <2>1, <2>6 DEF RequestsOnce
<1>9. ASSUME NEW e \in End, RecvNewConnectionImmediate(e) PROVE RequestsOnce'
  <2> DEFINE m == Frame1(e)
  <2>1. Arrived(e, "NEW_CONNECTION") /\ pending' = pending
    BY <1>9 DEF RecvNewConnectionImmediate
  <2>a. PICK k \in Conn : k = m.conn
    BY <1>p, <2>1
  <2>2. PICK c \in Slot : Attach(e, k, m.ch, c, FALSE) /\ Write(e, Consumed(e), Answer(k, m.ch, c))
    BY <1>9, <2>a DEF RecvNewConnectionImmediate
  <2>3. /\ Requested(e, k)
        /\ \A r \in pending[e] : r.conn # k
        /\ \A i \in DOMAIN Consumed(e)[e] : ~IsRequest(Consumed(e)[e][i], k)
    BY <1>p, <2>1, <2>a
  <2>4. client[Origin[k]][k].state # "REQUEST" /\ e # Origin[k]
    BY <2>3 DEF RequestsOnce
  <2> DEFINE q == Answer(k, m.ch, c)
  <2>5. q \in Seq(Frame) /\ NoRequests(q)
    <3>1. m.ch \in Int /\ c \in Int
      BY <1>d, <2>1 DEF Slot
    <3>2. QED
      BY <1>j, <2>3, <3>1
  <2> HIDE DEF q
  <2>6. wire'[e] = Consumed(e)[e]
    BY <1>d, <2>1, <2>2, <2>5, WriteNoRequests DEF q
  <2>7. ~Requested(e, k)'
    BY <2>1, <2>3, <2>6 DEF Requested
  <2>8. client'[Origin[k]][k].state # "REQUEST"
    BY <1>a, <1>o, <2>2, <2>3, <2>4
  <2>9. \A d \in End : Shrinks(wire[d], wire'[d]) /\ NoRequests(obuf'[d])
    BY <1>f, <2>1, <2>2, <2>5 DEF q
  <2>10. \A d \in End, j \in Conn :
           \/ client'[d][j] = client[d][j]
           \/ d = e /\ j = k /\ client'[d][j].state # "REQUEST"
    <3>1. /\ client'[e][k].state \notin {"NONE", "REQUEST"}
          /\ \A d \in End, j \in Conn : d # e \/ j # k => client'[d][j] = client[d][j]
      BY <1>o, <2>2, <2>3
    <3>2. QED
      BY <3>1
  <2>11. QED
    BY <2>1, <2>7, <2>8, <2>9, <2>10, RequestsShrink
<1>10. ASSUME NEW e \in End, RecvNewConnectionRefused(e) PROVE RequestsOnce'
  <2>1. /\ Arrived(e, "NEW_CONNECTION") /\ pending' = pending /\ client' = client
        /\ Write(e, Consumed(e), <<Failed(Frame1(e).ch)>>)
    BY <1>10 DEF RecvNewConnectionRefused
  <2>2. <<Failed(Frame1(e).ch)>> \in Seq(Frame) /\ NoRequests(<<Failed(Frame1(e).ch)>>)
    BY <1>d, <1>g, <2>1
  <2>3. QED
    BY <1>f, <1>k, <2>1, <2>2
<1>11. ASSUME NEW e \in End, RecvEstablished(e) PROVE RequestsOnce'
  <2> DEFINE c == Frame1(e).ch
             k == clients[e][c]
  <2>1. Arrived(e, "CONNECTION_ESTABLISHED") /\ wire' = Consumed(e) /\ pending' = pending
    BY <1>11 DEF RecvEstablished
  <2>2. c \in Slot /\ \A d \in End : Shrinks(wire[d], wire'[d])
    BY <1>d, <1>e, <2>1
  <2>3. CASE k = None
    <3>1. client' = client /\ obuf' = obuf
      BY <1>11, <2>3 DEF RecvEstablished
    <3>2. QED
      BY <1>b, <1>k, <2>1, <2>2, <3>1
  <2>4. CASE k # None
    <3>1. k \in Conn /\ client[e][k].state # "NONE"
      BY <1>m, <2>2, <2>4
    <3>2. /\ client' = [client EXCEPT ![e][k] = Connected(client[e][k])]
          /\ obuf' = obuf \/ AppendObuf(e, <<S5Reply(client[e][k].channel, k)>>)
      BY <1>11, <2>4 DEF RecvEstablished
    <3>3. client[e][k].channel \in Int
      <4>1. \A j \in Conn : client[e][j] \in Client
        BY DEF TypeOK
      <4>2. client[e][k] \in Client
        BY <3>1, <4>1
      <4>3. QED
        BY <4>2 DEF Client, Slot
    <3> DEFINE q == <<S5Reply(client[e][k].channel, k)>>
    <3>4. q \in Seq(Frame) /\ NoRequests(q)
      BY <1>i, <3>1, <3>3
    <3> HIDE DEF q
    <3>5. obuf[e] \in Seq(Frame) /\ NoRequests(obuf[e] \o q)
      BY <1>b, <3>4, ConcatNoRequests DEF TypeOK
    <3>6. AppendObuf(e, q) => \A d \in End : NoRequests(obuf'[d])
      BY <1>b, <3>5 DEF AppendObuf, TypeOK
    <3>7. \A d \in End : NoRequests(obuf'[d])
      BY <1>b, <3>2, <3>6 DEF q
    <3>8. Connected(client[e][k]).state # "REQUEST"
      BY DEF Connected
    <3>9. QED
      BY <1>l, <2>1, <2>2, <3>1, <3>2, <3>7, <3>8
  <2>5. QED
    BY <2>3, <2>4
<1>12. ASSUME NEW e \in End, RecvFailedOrEof(e) PROVE RequestsOnce'
  <2> DEFINE c == Frame1(e).ch
             k == clients[e][c]
  <2>1. PICK cmd : Arrived(e, cmd)
    BY <1>12 DEF RecvFailedOrEof
  <2>2. /\ wire' = Consumed(e) /\ pending' = pending /\ obuf' = obuf
        /\ c \in Slot
    BY <1>12, <1>d, <2>1 DEF RecvFailedOrEof, Consume
  <2>3. \A d \in End : Shrinks(wire[d], wire'[d])
    BY <1>e, <2>1, <2>2
  <2>4. CASE k = None
    <3>1. client' = client
      BY <1>12, <2>4 DEF RecvFailedOrEof, Drop
    <3>2. QED
      BY <1>b, <1>k, <2>2, <2>3, <3>1
  <2>5. CASE k # None
    <3>1. client' = [client EXCEPT ![e][k] = Closed] /\ Closed.state # "REQUEST"
      BY <1>12, <2>5 DEF RecvFailedOrEof, Drop, Closed
    <3>2. k \in Conn /\ client[e][k].state # "NONE"
      BY <1>m, <2>2, <2>5
    <3>3. QED
      BY <1>b, <1>l, <2>2, <2>3, <3>1, <3>2
  <2>6. QED
    BY <2>4, <2>5
<1>13. ASSUME NEW e \in End, RecvRenumberInvalid(e) \/ RecvGarbage(e) PROVE RequestsOnce'
  <2>1. PICK cmd : Arrived(e, cmd)
    BY <1>13 DEF RecvRenumberInvalid, RecvGarbage
  <2>2. wire' = Consumed(e) /\ pending' = pending /\ obuf' = obuf /\ client' = client
    BY <1>13 DEF RecvRenumberInvalid, RecvGarbage, Consume
  <2>3. QED
    BY <1>b, <1>e, <1>k, <2>1, <2>2
<1>14. ASSUME NEW e \in End, RecvRenumberMove(e) PROVE RequestsOnce'
  <2> DEFINE c == Frame1(e).ch
             d == Frame1(e).to
             k == clients[e][c]
             q == IF client[e][k].state = "NEED_RENUMBER"
                  THEN <<Established(d), S5Reply(d, k)>> ELSE <<Established(d)>>
             cl == [state |-> "CONNECTED", channel |-> d, ignored |-> FALSE]
  <2>1. Arrived(e, "RENUMBER_CONNECTION") /\ pending' = pending
    BY <1>14 DEF RecvRenumberMove
  <2>2. c \in Slot /\ d \in Int
    BY <1>d, <2>1
  <2>3. k # None /\ client' = [client EXCEPT ![e][k] = cl] /\ Write(e, Consumed(e), q)
    BY <1>14 DEF RecvRenumberMove
  <2>4. k \in Conn /\ client[e][k].state # "NONE"
    BY <1>m, <2>2, <2>3
  <2>5. q \in Seq(Frame) /\ NoRequests(q)
    BY <1>g, <1>i, <2>2, <2>4
  <2>6. cl.state # "REQUEST"
    OBVIOUS
  <2> HIDE DEF q, cl
  <2>7. \A f \in End : Shrinks(wire[f], wire'[f]) /\ NoRequests(obuf'[f])
    BY <1>f, <2>1, <2>3, <2>5
  <2>8. QED
    BY <1>l, <2>1, <2>3, <2>4, <2>6, <2>7
<1>15. ASSUME NEW e \in End, RecvRenumberTaken(e) PROVE RequestsOnce'
  <2> DEFINE c == Frame1(e).ch
             k == clients[e][c]
  <2>1. Arrived(e, "RENUMBER_CONNECTION") /\ pending' = pending /\ wire' = Consumed(e) /\ obuf' = obuf
    BY <1>15 DEF RecvRenumberTaken, Consume
  <2>2. PICK g \in Slot : client' = [client EXCEPT ![e][k] = MovedTo(@, g)]
    BY <1>15 DEF RecvRenumberTaken
  <2>3. c \in Slot /\ k # None
    BY <1>15, <1>d, <2>1 DEF RecvRenumberTaken
  <2>4. k \in Conn /\ client[e][k].state \notin {"NONE", "REQUEST"}
    BY <1>m, <2>3
  <2> HIDE DEF c
  <2> DEFINE cl == MovedTo(client[e][k], g)
  <2>5. client' = [client EXCEPT ![e][k] = cl] /\ cl.state # "REQUEST"
    BY <2>2, <2>4 DEF MovedTo
  <2> HIDE DEF cl
  <2>6. \A d \in End : Shrinks(wire[d], wire'[d]) /\ NoRequests(obuf'[d])
    BY <1>b, <1>e, <2>1
  <2>7. QED
    BY <1>l, <2>1, <2>4, <2>5, <2>6
<1>16. ASSUME NEW e \in End, RecvData(e) PROVE RequestsOnce'
  <2> DEFINE c == Frame1(e).ch
             k == clients[e][c]
  <2>1. Arrived(e, "DATA") /\ pending' = pending /\ c \in Slot /\ c \in Int
    BY <1>16, <1>d DEF RecvData
  <2>2. CASE k = None
    <3>1. Write(e, Consumed(e), <<Eof(c)>>) /\ client' = client
      BY <1>16, <2>2 DEF RecvData
    <3>2. QED
      BY <1>f, <1>g, <1>k, <2>1, <3>1
  <2>3. CASE k # None
    <3>1. /\ wire' = Consumed(e) /\ obuf' = obuf
          /\ client' = client \/ client' = [client EXCEPT ![e][k] = Connected(client[e][k])]
      BY <1>16, <2>3 DEF RecvData, Consume
    <3>2. k \in Conn /\ client[e][k].state # "NONE"
      BY <1>m, <2>1, <2>3
    <3>3. \A d \in End : Shrinks(wire[d], wire'[d]) /\ NoRequests(obuf'[d])
      BY <1>b, <1>e, <2>1, <3>1
    <3>4. Connected(client[e][k]).state # "REQUEST"
      BY DEF Connected
    <3>5. QED
      BY <1>k, <1>l, <2>1, <3>1, <3>2, <3>3, <3>4
  <2>4. QED
    BY <2>2, <2>3
<1>17. ASSUME NEW e \in End, PeerLost(e) PROVE RequestsOnce'
  <2>1. /\ wire' = [wire EXCEPT ![e] = <<>>] /\ obuf' = [obuf EXCEPT ![e] = <<>>]
        /\ pending' = pending
        /\ client' = [client EXCEPT ![e] =
              [k \in Conn |-> IF \E c \in Slot : clients[e][c] = k
                              THEN Closed ELSE client[e][k]]]
    BY <1>17 DEF PeerLost
  <2>2. Shrinks(wire[e], <<>>) /\ NoRequests(<<>>)
    BY DEF Shrinks, NoRequests
  <2>3. \A d \in End : Shrinks(wire[d], wire'[d]) /\ NoRequests(obuf'[d])
    BY <1>b, <2>1, <2>2 DEF TypeOK
  <2>4. \A d \in End, k \in Conn :
          \/ client'[d][k] = client[d][k]
          \/ /\ client'[d][k].state # "REQUEST"
             /\ \E c \in Slot : clients[d][c] = k
    BY <2>1 DEF TypeOK, Closed
  <2>5. \A d \in End, k \in Conn :
          (\E c \in Slot : clients[d][c] = k) => client[d][k].state # "NONE"
    BY InTable DEF IsAttached
  <2>6. QED
    BY <2>1, <2>3, <2>4, <2>5, RequestsKept
<1>18. ASSUME NEW e \in End, UseAfterDelete(e) PROVE RequestsOnce'
  BY <1>18, <1>b, <1>k DEF UseAfterDelete
<1>19. CASE UNCHANGED vars
  BY <1>19, <1>b, <1>k DEF vars
<1>20. QED
  BY <1>1, <1>2, <1>3, <1>4, <1>5, <1>6, <1>7, <1>8, <1>9, <1>10, <1>11, <1>12, <1>13,
     <1>14, <1>15, <1>16, <1>17, <1>18, <1>19
     DEF Next, Receive, Callback
-----------------------------------------------------------------------------
LEMMA InitIInv == Init => IInv
<1> SUFFICES ASSUME Init PROVE TableConsistent /\ RequestsOnce
  BY InitType DEF IInv
<1> USE TunnelConstants
<1>1. TableConsistent
  BY DEF Init, TableConsistent
<1>2. \A e \in End : wire[e] = <<>> /\ obuf[e] = <<>> /\ pending[e] = {}
  BY DEF Init
<1>3. \A e \in End, k \in Conn :
        client[e][k].state = IF Origin[k] = e THEN "REQUEST" ELSE "NONE"
  BY DEF Init, Asking, Unborn
<1>4. \A e \in End, k \in Conn : ~Requested(e, k)
  BY <1>2 DEF Requested
<1>5. QED
  BY <1>1, <1>2, <1>3, <1>4 DEF RequestsOnce

\* The inductive invariant: types, table and requests rest on each other.
LEMMA Inductive == Spec => []IInv
<1>1. Init => IInv
  BY InitIInv
<1>2. IInv /\ [Next]_vars => IInv'
  <2>1. IInv /\ [Next]_vars => TypeOK'
    BY NextType DEF IInv
  <2>2. QED
    BY <2>1, TableStep, RequestsStep DEF IInv
<1>3. QED
  BY <1>1, <1>2, PTL DEF Spec

\* For any number of sessions and channels, peer_info::clients holds no client
\* that was deleted, and every client in it knows its slot as its channel
\* (proxy.cpp: ~client_info, connect_peer, peer_info::ready).
THEOREM TableIsConsistent == Spec => []TableConsistent
BY Inductive, PTL DEF IInv

\* For any number of sessions and channels, each session is connected to its
\* target at most once, by one NEW_CONNECTION frame and one connect_to call.
THEOREM RequestsAreMadeOnce == Spec => []RequestsOnce
BY Inductive, PTL DEF IInv

-----------------------------------------------------------------------------
(***************************************************************************)
(* Reading of clients.                                                     *)
(***************************************************************************)
ReadRight(e, k, cl) ==
  IsAttached(cl) =>
    /\ cl.state # "CONNECTED" => cl.ignored
    /\ cl.state = "CONNECTED" /\ cl.ignored => Immediate /\ e # Origin[k]

LEMMA ReadStep ==
  ASSUME TypeOK, RequestsOnce, ReadWhenConnected, [Next]_vars
  PROVE  ReadWhenConnected'
<1> USE TunnelConstants
<1>a. \A e \in End, k \in Conn : ReadRight(e, k, client[e][k]) /\ client[e][k] \in Client
  BY DEF ReadWhenConnected, ReadRight, IsAttached, Attached, TypeOK
<1>b. ASSUME NEW e \in End, NEW k, NEW cl, ReadRight(e, k, cl),
             client' = [client EXCEPT ![e][k] = cl]
      PROVE  ReadWhenConnected'
  <2>1. \A d \in End, j \in Conn :
          client'[d][j] = IF d = e /\ j = k THEN cl ELSE client[d][j]
    BY <1>b DEF TypeOK
  <2>2. \A d \in End, j \in Conn : ReadRight(d, j, client'[d][j])
    BY <1>a, <1>b, <2>1
  <2>3. QED
    BY <2>2 DEF ReadWhenConnected, ReadRight, IsAttached, Attached
<1>c. ASSUME client' = client PROVE ReadWhenConnected'
  BY <1>c DEF ReadWhenConnected, Attached
<1>d. \A e, k : ReadRight(e, k, Closed) /\ \A cl : ReadRight(e, k, Connected(cl))
  BY DEF ReadRight, IsAttached, Closed, Connected
<1>e. \A e \in End : Origin \in [Conn -> End]
  OBVIOUS
<1>1. ASSUME NEW k \in Conn, RequestConnect(k) PROVE ReadWhenConnected'
  <2>1. PICK c \in Slot : client' = [client EXCEPT ![Origin[k]][k] =
                [state |-> "CONNECTING", channel |-> c, ignored |-> TRUE]]
    BY <1>1 DEF RequestConnect
  <2>2. ReadRight(Origin[k], k, [state |-> "CONNECTING", channel |-> c, ignored |-> TRUE])
    BY DEF ReadRight, IsAttached
  <2>3. Origin[k] \in End
    BY <1>e, TwoEnds
  <2>4. QED
    BY <1>b, <2>1, <2>2, <2>3
<1>2. ASSUME NEW k \in Conn, RequestRefused(k) PROVE ReadWhenConnected'
  <2>1. Origin[k] \in End /\ client' = [client EXCEPT ![Origin[k]][k] = Closed]
    BY <1>2 DEF RequestRefused
  <2>2. QED
    BY <1>b, <1>d, <2>1
<1>3. ASSUME NEW e \in End, NEW k \in Conn, ClientEof(e, k) PROVE ReadWhenConnected'
  <2>1. client' = [client EXCEPT ![e][k] = Closed]
    BY <1>3 DEF ClientEof
  <2>2. QED
    BY <1>b, <1>d, <2>1
<1>4. ASSUME NEW e \in End, NEW p \in pending[e], ConnectSucceeds(e, p) PROVE ReadWhenConnected'
  <2> DEFINE cl == [state   |-> IF p.ch = p.req THEN "CONNECTED" ELSE "NEED_RENUMBER",
                    channel |-> p.ch,
                    ignored |-> p.ch # p.req \/ ~TRUE]
  <2>1. client' = [client EXCEPT ![e][p.conn] = cl]
    BY <1>4 DEF ConnectSucceeds, Attach
  <2>2. ReadRight(e, p.conn, cl)
    <3>1. CASE p.ch = p.req
      BY <3>1 DEF ReadRight, IsAttached
    <3>2. CASE p.ch # p.req
      BY <3>2 DEF ReadRight, IsAttached
    <3>3. QED
      BY <3>1, <3>2
  <2>3. QED
    BY <1>b, <2>1, <2>2
<1>5. ASSUME NEW e \in End, RecvNewConnectionImmediate(e) PROVE ReadWhenConnected'
  <2> DEFINE k == Frame1(e).conn
             cl(c) == [state   |-> IF c = Frame1(e).ch THEN "CONNECTED" ELSE "NEED_RENUMBER",
                       channel |-> c,
                       ignored |-> c # Frame1(e).ch \/ ~FALSE]
  <2>1. Immediate /\ wire[e] # <<>> /\ Frame1(e).cmd = "NEW_CONNECTION"
    BY <1>5 DEF RecvNewConnectionImmediate, Arrived, Frame1
  <2>2. Frame1(e) \in Frame
    BY <2>1, ConsumedType DEF TypeOK, Frame1
  <2>3. k \in Conn
    BY <2>1, <2>2 DEF Frame
  <2>4. wire[e] \in Seq(Frame)
    BY DEF TypeOK
  <2>5. 1 \in DOMAIN wire[e] /\ wire[e][1] = Frame1(e)
    BY <2>1, <2>4 DEF Frame1
  <2>6. Requested(e, k)
    BY <2>1, <2>5 DEF Requested, IsRequest
  <2>7. e # Origin[k]
    BY <2>3, <2>6 DEF RequestsOnce
  <2>8. PICK c \in Slot : client' = [client EXCEPT ![e][k] = cl(c)]
    BY <1>5 DEF RecvNewConnectionImmediate, Attach
  <2>9. cl(c).ignored = TRUE
    OBVIOUS
  <2>10. ReadRight(e, k, cl(c))
    BY <2>1, <2>7, <2>9 DEF ReadRight
  <2>11. QED
    BY <1>b, <2>8, <2>10
<1>6. ASSUME NEW e \in End, RecvEstablished(e) PROVE ReadWhenConnected'
  <2> DEFINE k == clients[e][Frame1(e).ch]
  <2>1. client' = client \/ client' = [client EXCEPT ![e][k] = Connected(client[e][k])]
    BY <1>6 DEF RecvEstablished
  <2>2. QED
    BY <1>b, <1>c, <1>d, <2>1
<1>7. ASSUME NEW e \in End, RecvFailedOrEof(e) PROVE ReadWhenConnected'
  <2> DEFINE k == clients[e][Frame1(e).ch]
  <2>1. client' = client \/ client' = [client EXCEPT ![e][k] = Closed]
    BY <1>7 DEF RecvFailedOrEof, Drop
  <2>2. QED
    BY <1>b, <1>c, <1>d, <2>1
<1>8. ASSUME NEW e \in End, RecvRenumberMove(e) PROVE ReadWhenConnected'
  <2> DEFINE k == clients[e][Frame1(e).ch]
             cl == [state |-> "CONNECTED", channel |-> Frame1(e).to, ignored |-> FALSE]
  <2>1. client' = [client EXCEPT ![e][k] = cl]
    BY <1>8 DEF RecvRenumberMove
  <2>2. ReadRight(e, k, cl)
    BY DEF ReadRight, IsAttached
  <2>3. QED
    BY <1>b, <2>1, <2>2
<1>9. ASSUME NEW e \in End, RecvRenumberTaken(e) PROVE ReadWhenConnected'
  <2> DEFINE k == clients[e][Frame1(e).ch]
  <2>1. PICK g \in Slot : client' = [client EXCEPT ![e][k] = MovedTo(client[e][k], g)]
    BY <1>9 DEF RecvRenumberTaken
  <2>2. k # None /\ Frame1(e).ch \in Slot
    <3>1. wire[e] # <<>> /\ k # None
      BY <1>9 DEF RecvRenumberTaken, Arrived
    <3>2. Frame1(e) \in Frame
      BY <3>1, ConsumedType DEF TypeOK, Frame1
    <3>3. QED
      BY <3>1, <3>2 DEF Frame, Byte, Slot
  <2>3. k \in Conn
    BY <2>2 DEF TypeOK
  <2>4. ReadRight(e, k, MovedTo(client[e][k], g))
    <3>1. /\ MovedTo(client[e][k], g).state = client[e][k].state
          /\ MovedTo(client[e][k], g).ignored = client[e][k].ignored
      BY DEF MovedTo
    <3>2. ReadRight(e, k, client[e][k])
      BY <1>a, <2>3
    <3>3. QED
      BY <3>1, <3>2 DEF ReadRight, IsAttached
  <2>5. QED
    BY <1>b, <2>1, <2>4
<1>10. ASSUME NEW e \in End, RecvData(e) PROVE ReadWhenConnected'
  <2> DEFINE k == clients[e][Frame1(e).ch]
  <2>1. client' = client \/ client' = [client EXCEPT ![e][k] = Connected(client[e][k])]
    BY <1>10 DEF RecvData
  <2>2. QED
    BY <1>b, <1>c, <1>d, <2>1
<1>11. ASSUME NEW e \in End, PeerLost(e) PROVE ReadWhenConnected'
  <2>1. client' = [client EXCEPT ![e] =
            [k \in Conn |-> IF \E c \in Slot : clients[e][c] = k
                            THEN Closed ELSE client[e][k]]]
    BY <1>11 DEF PeerLost
  <2>2. \A d \in End, k \in Conn : client'[d][k] \in {Closed, client[d][k]}
    BY <2>1 DEF TypeOK
  <2>3. \A d \in End, k \in Conn : ReadRight(d, k, client'[d][k])
    BY <1>a, <1>d, <2>2
  <2>4. QED
    BY <2>3 DEF ReadWhenConnected, ReadRight, IsAttached, Attached
<1>12. ASSUME NEW e \in End, NEW k \in Conn, ClientData(e, k) PROVE ReadWhenConnected'
  BY <1>12, <1>c DEF ClientData
<1>13. ASSUME NEW e \in End, NEW p \in pending[e], ConnectFails(e, p) PROVE ReadWhenConnected'
  BY <1>13, <1>c DEF ConnectFails
<1>14. ASSUME NEW e \in End, NEW i \in DOMAIN timers[e], RetryRenumber(e, i)
       PROVE  ReadWhenConnected'
  BY <1>14, <1>c DEF RetryRenumber
<1>15. ASSUME NEW e \in End,
              \/ RecvNewConnection(e) \/ RecvNewConnectionRefused(e)
              \/ RecvRenumberInvalid(e) \/ RecvGarbage(e) \/ UseAfterDelete(e)
       PROVE  ReadWhenConnected'
  BY <1>15, <1>c DEF RecvNewConnection, RecvNewConnectionRefused, RecvRenumberInvalid,
                     RecvGarbage, UseAfterDelete
<1>16. CASE UNCHANGED vars
  BY <1>16, <1>c DEF vars
<1>17. QED
  BY <1>1, <1>2, <1>3, <1>4, <1>5, <1>6, <1>7, <1>8, <1>9, <1>10, <1>11, <1>12, <1>13,
     <1>14, <1>15, <1>16
     DEF Next, Receive, Callback

\* A client is read exactly while its connection is complete, but for those
\* that a connect() made before it returned, for any number of sessions and
\* channels (proxy.cpp: ignore() in connect_peer and peer_info::ready).
THEOREM ReadExactlyWhenConnected == Spec => []ReadWhenConnected
<1>1. Init => ReadWhenConnected
  <2>1. Init => \A e \in End, k \in Conn : ~IsAttached(client[e][k])
    BY DEF Init, IsAttached, Asking, Unborn
  <2>2. QED
    BY <2>1 DEF ReadWhenConnected, Attached, IsAttached
<1>2. TypeOK /\ RequestsOnce /\ ReadWhenConnected /\ [Next]_vars => ReadWhenConnected'
  BY ReadStep
<1>3. Spec => [](TypeOK /\ RequestsOnce)
  BY TypeCorrect, RequestsAreMadeOnce, PTL
<1>4. QED
  BY <1>1, <1>2, <1>3, PTL DEF Spec

-----------------------------------------------------------------------------
(***************************************************************************)
(* num_clients covers the table of clients, for any number of sessions and *)
(* channels.                                                               *)
(***************************************************************************)

\* The slots of a table that hold a client
Held(table) == {c \in Slot : table[c] # None}

Tables == [Slot -> Conn \cup {None}]

LEMMA HeldFinite ==
  ASSUME NEW t \in Tables
  PROVE  IsFiniteSet(Held(t)) /\ Cardinality(Held(t)) \in Nat
<1>1. IsFiniteSet(Slot)
  BY TunnelConstants, FS_Interval DEF Slot
<1>2. Held(t) \in SUBSET Slot
  BY DEF Held
<1>3. IsFiniteSet(Held(t))
  BY <1>1, <1>2, FS_Subset
<1>4. QED
  BY <1>3, FS_CardinalityType

LEMMA HeldSet ==
  ASSUME NEW t \in Tables, NEW c \in Slot, NEW k \in Conn
  PROVE  Cardinality(Held([t EXCEPT ![c] = k])) <= Cardinality(Held(t)) + 1
<1>1. Held([t EXCEPT ![c] = k]) = Held(t) \cup {c}
  BY TunnelConstants DEF Held, Tables
<1>2. IsFiniteSet(Held(t)) /\ Cardinality(Held(t)) \in Nat
  BY HeldFinite
<1>3. Cardinality(Held(t) \cup {c}) =
        IF c \in Held(t) THEN Cardinality(Held(t)) ELSE Cardinality(Held(t)) + 1
  BY <1>2, FS_AddElement
<1>4. Cardinality(Held(t) \cup {c}) <= Cardinality(Held(t)) + 1
  BY <1>2, <1>3
<1>5. QED
  BY <1>1, <1>4

LEMMA HeldCleared ==
  ASSUME NEW t \in Tables, NEW c \in Slot
  PROVE  Cardinality(Held([t EXCEPT ![c] = None])) =
           IF t[c] = None THEN Cardinality(Held(t)) ELSE Cardinality(Held(t)) - 1
<1>1. Held([t EXCEPT ![c] = None]) = Held(t) \ {c}
  BY DEF Held, Tables
<1>2. c \in Held(t) <=> t[c] # None
  BY DEF Held
<1>3. QED
  BY <1>1, <1>2, HeldFinite, FS_RemoveElement

LEMMA HeldMoved ==
  ASSUME NEW t \in Tables, NEW c \in Slot, t[c] # None, NEW g \in Slot, NEW k \in Conn
  PROVE  Cardinality(Held([[t EXCEPT ![c] = None] EXCEPT ![g] = k])) <= Cardinality(Held(t))
<1> DEFINE u == [t EXCEPT ![c] = None]
<1>1. u \in Tables
  BY DEF Tables
<1>2. Cardinality(Held(u)) = Cardinality(Held(t)) - 1
  BY HeldCleared
<1> HIDE DEF u
<1>3. Cardinality(Held([u EXCEPT ![g] = k])) <= Cardinality(Held(u)) + 1
  BY <1>1, HeldSet
<1>4. /\ Cardinality(Held(t)) \in Nat /\ Cardinality(Held(u)) \in Nat
      /\ [u EXCEPT ![g] = k] \in Tables
  BY <1>1, HeldFinite DEF Tables
<1>5. Cardinality(Held([u EXCEPT ![g] = k])) \in Nat
  BY <1>4, HeldFinite
<1>6. Cardinality(Held([u EXCEPT ![g] = k])) <= Cardinality(Held(t))
  BY <1>2, <1>3, <1>4, <1>5
<1>7. QED
  BY <1>6 DEF u

-----------------------------------------------------------------------------
Covers(n, table) == Cardinality(Held(table)) <= n

LEMMA CountIsCovers == CountCoversTable <=> \A e \in End : Covers(num[e], clients[e])
BY DEF CountCoversTable, Covers, Held, Occupied

\* A step that changes the table t and the count n of one end to u and m
LEMMA CountChange ==
  ASSUME TypeOK, CountCoversTable, NEW e \in End,
         NEW u, clients' = [clients EXCEPT ![e] = u],
         NEW m, num' = [num EXCEPT ![e] = m],
         Covers(m, u)
  PROVE  CountCoversTable'
<1>1. clients \in [End -> [Slot -> Conn \cup {None}]] /\ num \in [End -> Int]
  BY DEF TypeOK
<1>2. \A f \in End : Covers(num[f], clients[f])
  BY CountIsCovers
<1>3. ASSUME NEW f \in End PROVE Covers(num'[f], clients'[f])
  <2>1. CASE f = e
    BY <1>1, <2>1
  <2>2. CASE f # e
    BY <1>1, <1>2, <2>2
  <2>3. QED
    BY <2>1, <2>2
<1>4. CountCoversTable' <=> \A f \in End : Covers(num'[f], clients'[f])
  BY DEF CountCoversTable, Covers, Held, Occupied
<1>5. QED
  BY <1>3, <1>4

\* What is known of one end
LEMMA OfEnd ==
  ASSUME TypeOK, CountCoversTable, NEW e \in End
  PROVE  /\ clients[e] \in Tables /\ num[e] \in Int
         /\ Cardinality(Held(clients[e])) <= num[e]
         /\ Cardinality(Held(clients[e])) \in Nat
         /\ clients = [clients EXCEPT ![e] = clients[e]]
         /\ num = [num EXCEPT ![e] = num[e]]
<1>1. clients[e] \in Tables /\ num[e] \in Int
  BY DEF TypeOK, Tables
<1>2. Covers(num[e], clients[e])
  BY CountIsCovers
<1>3. clients = [clients EXCEPT ![e] = clients[e]] /\ num = [num EXCEPT ![e] = num[e]]
  BY DEF TypeOK
<1>4. QED
  BY <1>1, <1>2, <1>3, HeldFinite DEF Covers

\* A slot is given to k, and the count goes up
LEMMA CountTakes ==
  ASSUME TypeOK, CountCoversTable, NEW e \in End, NEW c \in Slot, NEW k \in Conn,
         clients' = [clients EXCEPT ![e][c] = k],
         num' = [num EXCEPT ![e] = @ + 1]
  PROVE  CountCoversTable'
<1> DEFINE u == [clients[e] EXCEPT ![c] = k]
<1>1. /\ clients[e] \in Tables /\ num[e] \in Int
      /\ Cardinality(Held(clients[e])) <= num[e] /\ Cardinality(Held(clients[e])) \in Nat
  BY OfEnd
<1>2. clients' = [clients EXCEPT ![e] = u] /\ num' = [num EXCEPT ![e] = num[e] + 1]
  OBVIOUS
<1>3. u \in Tables /\ Cardinality(Held(u)) <= Cardinality(Held(clients[e])) + 1
  BY <1>1, HeldSet DEF Tables
<1> HIDE DEF u
<1>4. Cardinality(Held(u)) \in Nat
  BY <1>3, HeldFinite
<1>5. Covers(num[e] + 1, u)
  BY <1>1, <1>3, <1>4 DEF Covers
<1>6. QED
  BY <1>2, <1>5, CountChange

\* A slot is cleared, and the count goes down if it was taken
LEMMA CountDrops ==
  ASSUME TypeOK, CountCoversTable, NEW e \in End, NEW c \in Slot, clients[e][c] # None,
         clients' = [clients EXCEPT ![e][c] = None],
         num' = [num EXCEPT ![e] = @ - 1] \/ UNCHANGED num
  PROVE  CountCoversTable'
<1> DEFINE u == [clients[e] EXCEPT ![c] = None]
<1>1. /\ clients[e] \in Tables /\ num[e] \in Int
      /\ Cardinality(Held(clients[e])) <= num[e] /\ Cardinality(Held(clients[e])) \in Nat
      /\ num = [num EXCEPT ![e] = num[e]]
  BY OfEnd
<1>2. clients' = [clients EXCEPT ![e] = u]
  OBVIOUS
<1>3. Cardinality(Held(u)) = Cardinality(Held(clients[e])) - 1
  BY <1>1, HeldCleared
<1> HIDE DEF u
<1>4. Covers(num[e] - 1, u) /\ Covers(num[e], u)
  BY <1>1, <1>3 DEF Covers
<1>5. CASE num' = [num EXCEPT ![e] = @ - 1]
  <2>1. num' = [num EXCEPT ![e] = num[e] - 1]
    BY <1>5
  <2>2. QED
    BY <1>2, <1>4, <2>1, CountChange
<1>6. CASE UNCHANGED num
  <2>1. num' = [num EXCEPT ![e] = num[e]]
    BY <1>1, <1>6
  <2>2. QED
    BY <1>2, <1>4, <2>1, CountChange
<1>7. QED
  BY <1>5, <1>6

\* A client moves to another slot
LEMMA CountMoves ==
  ASSUME TypeOK, CountCoversTable, NEW e \in End, NEW c \in Slot, clients[e][c] # None,
         NEW g \in Slot, NEW k \in Conn,
         clients' = [clients EXCEPT ![e] = [[clients[e] EXCEPT ![c] = None] EXCEPT ![g] = k]],
         UNCHANGED num
  PROVE  CountCoversTable'
<1> DEFINE u == [[clients[e] EXCEPT ![c] = None] EXCEPT ![g] = k]
<1>1. /\ clients[e] \in Tables /\ num[e] \in Int
      /\ Cardinality(Held(clients[e])) <= num[e] /\ Cardinality(Held(clients[e])) \in Nat
      /\ num = [num EXCEPT ![e] = num[e]]
  BY OfEnd
<1>2. u \in Tables
  BY <1>1 DEF Tables
<1>3. Cardinality(Held(u)) <= Cardinality(Held(clients[e]))
  BY <1>1, HeldMoved
<1>4. clients' = [clients EXCEPT ![e] = u] /\ num' = [num EXCEPT ![e] = num[e]]
  BY <1>1
<1> HIDE DEF u
<1>5. Cardinality(Held(u)) \in Nat
  BY <1>2, HeldFinite
<1>6. Covers(num[e], u)
  BY <1>1, <1>3, <1>5 DEF Covers
<1>7. QED
  BY <1>4, <1>6, CountChange

-----------------------------------------------------------------------------
LEMMA CountInit == Init => CountCoversTable
<1>1. SUFFICES ASSUME Init, NEW e \in End PROVE Cardinality(Occupied(e)) <= num[e]
  BY DEF CountCoversTable
<1>2. Occupied(e) = {} /\ num[e] = 0
  BY <1>1 DEF Init, Occupied
<1>3. QED
  BY <1>2, FS_EmptySet

LEMMA CountStep == TypeOK /\ CountCoversTable /\ [Next]_vars => CountCoversTable'
<1>1. SUFFICES ASSUME TypeOK, CountCoversTable, [Next]_vars PROVE CountCoversTable'
  OBVIOUS
<1>2. CASE UNCHANGED <<clients, num>>
  BY <1>1, <1>2 DEF CountCoversTable, Occupied
<1>3. CASE UNCHANGED vars
  BY <1>2, <1>3 DEF vars
<1>4. ASSUME NEW k \in Conn, RequestConnect(k) PROVE CountCoversTable'
  <2>1. PICK c \in Slot : clients' = [clients EXCEPT ![Origin[k]][c] = k]
    BY <1>4 DEF RequestConnect
  <2>2. num' = [num EXCEPT ![Origin[k]] = @ + 1]
    BY <1>4 DEF RequestConnect
  <2>3. Origin[k] \in End
    BY TunnelConstants
  <2>4. QED
    BY <1>1, <2>1, <2>2, <2>3, CountTakes
<1>5. ASSUME NEW k \in Conn, RequestRefused(k) PROVE CountCoversTable'
  BY <1>2, <1>5 DEF RequestRefused
<1>6. ASSUME NEW e \in End, NEW k \in Conn, ClientData(e, k) PROVE CountCoversTable'
  BY <1>2, <1>6 DEF ClientData
<1>7. ASSUME NEW e \in End, NEW k \in Conn, ClientEof(e, k) PROVE CountCoversTable'
  <2> DEFINE c == client[e][k].channel
  <2>1. /\ clients' = IF clients[e][c] = k THEN [clients EXCEPT ![e][c] = None] ELSE clients
        /\ UNCHANGED num
    BY <1>7 DEF ClientEof
  <2>2. CASE clients[e][c] # k
    BY <1>2, <2>1, <2>2
  <2>3. CASE clients[e][c] = k /\ c \in Slot
    <3>1. clients[e][c] # None
      BY <2>3, TunnelConstants
    <3>2. clients' = [clients EXCEPT ![e][c] = None]
      BY <2>1, <2>3
    <3> HIDE DEF c
    <3>3. QED
      BY <1>1, <2>1, <2>3, <3>1, <3>2, CountDrops
  <2>4. CASE c \notin Slot
    <3>1. [clients EXCEPT ![e][c] = None] = clients
      BY <1>1, <2>4 DEF TypeOK
    <3>2. QED
      BY <1>2, <2>1, <3>1
  <2>5. QED
    BY <2>2, <2>3, <2>4
<1>8. ASSUME NEW e \in End, NEW p \in pending[e], ConnectSucceeds(e, p) PROVE CountCoversTable'
  <2>1. p \in [conn : Conn, req : Byte, ch : Byte]
    BY <1>1 DEF TypeOK
  <2>2. p.ch \in Slot /\ p.conn \in Conn
    BY <2>1, TunnelConstants DEF Byte, Slot
  <2>3. /\ clients' = [clients EXCEPT ![e][p.ch] = p.conn]
        /\ num' = [num EXCEPT ![e] = @ + 1]
    BY <1>8 DEF ConnectSucceeds, Attach
  <2>4. QED
    BY <1>1, <2>2, <2>3, CountTakes
<1>9. ASSUME NEW e \in End, NEW p \in pending[e], ConnectFails(e, p) PROVE CountCoversTable'
  BY <1>2, <1>9 DEF ConnectFails
<1>10. ASSUME NEW e \in End, NEW i \in DOMAIN timers[e], RetryRenumber(e, i) PROVE CountCoversTable'
  BY <1>2, <1>10 DEF RetryRenumber
<1>11. ASSUME NEW e \in End, wire[e] # <<>> PROVE Head(wire[e]) \in Frame
  <2>1. wire[e] \in Seq(Frame)
    BY <1>1 DEF TypeOK
  <2>2. QED
    BY <1>11, <2>1
<1>12. ASSUME NEW e \in End, RecvNewConnectionImmediate(e) PROVE CountCoversTable'
  <2> DEFINE m == Head(wire[e])
  <2>1. m \in Frame /\ m.cmd = "NEW_CONNECTION"
    BY <1>11, <1>12 DEF RecvNewConnectionImmediate, Arrived
  <2>2. m.conn \in Conn
    BY <2>1 DEF Frame
  <2>3. PICK c \in Slot : Attach(e, m.conn, m.ch, c, FALSE)
    BY <1>12 DEF RecvNewConnectionImmediate, Frame1
  <2>4. clients' = [clients EXCEPT ![e][c] = m.conn] /\ num' = [num EXCEPT ![e] = @ + 1]
    BY <2>3 DEF Attach
  <2> HIDE DEF m
  <2>5. QED
    BY <1>1, <2>2, <2>4, CountTakes
<1>13. ASSUME NEW e \in End, RecvFailedOrEof(e) PROVE CountCoversTable'
  <2> DEFINE c == Head(wire[e]).ch
  <2>1. Drop(e, c)
    BY <1>13 DEF RecvFailedOrEof, Frame1
  <2>2. Head(wire[e]) \in Frame
    BY <1>11, <1>13 DEF RecvFailedOrEof, Arrived
  <2>3. c \in Slot
    BY <2>2, TunnelConstants DEF Frame, Byte, Slot
  <2> HIDE DEF c
  <2>4. CASE clients[e][c] = None
    BY <1>2, <2>1, <2>4 DEF Drop
  <2>5. CASE clients[e][c] # None
    <3>1. /\ clients' = [clients EXCEPT ![e][c] = None]
          /\ num' = [num EXCEPT ![e] = @ - 1]
      BY <2>1, <2>5 DEF Drop
    <3>2. QED
      BY <1>1, <2>3, <2>5, <3>1, CountDrops
  <2>6. QED
    BY <2>4, <2>5
<1>14. ASSUME NEW e \in End, RecvRenumberMove(e) PROVE CountCoversTable'
  <2> DEFINE c == Head(wire[e]).ch
             g == Head(wire[e]).to
             k == clients[e][c]
  <2>1. Head(wire[e]) \in Frame
    BY <1>11, <1>14 DEF RecvRenumberMove, Arrived
  <2>2. c \in Slot /\ g \in Slot
    BY <2>1, TunnelConstants DEF Frame, Byte, Slot
  <2>3. k # None /\ k \in Conn
    <3>1. k # None
      BY <1>14 DEF RecvRenumberMove, Frame1
    <3>2. k \in Conn \cup {None}
      BY <1>1, <2>2 DEF TypeOK
    <3>3. QED
      BY <3>1, <3>2
  <2>4. clients' = [clients EXCEPT ![e] = [[clients[e] EXCEPT ![c] = None] EXCEPT ![g] = k]]
    BY <1>14 DEF RecvRenumberMove, Frame1
  <2>5. UNCHANGED num
    BY <1>14 DEF RecvRenumberMove
  <2> HIDE DEF c, g
  <2>6. QED
    BY <1>1, <2>2, <2>3, <2>4, <2>5, CountMoves
<1>15. ASSUME NEW e \in End, RecvRenumberTaken(e) PROVE CountCoversTable'
  <2> DEFINE c == Head(wire[e]).ch
             k == clients[e][c]
  <2>1. Head(wire[e]) \in Frame
    BY <1>11, <1>15 DEF RecvRenumberTaken, Arrived
  <2>2. c \in Slot
    BY <2>1, TunnelConstants DEF Frame, Byte, Slot
  <2>3. k # None /\ k \in Conn
    <3>1. k # None
      BY <1>15 DEF RecvRenumberTaken, Frame1
    <3>2. k \in Conn \cup {None}
      BY <1>1, <2>2 DEF TypeOK
    <3>3. QED
      BY <3>1, <3>2
  <2>4. PICK g \in Slot :
          clients' = [clients EXCEPT ![e] = [[clients[e] EXCEPT ![c] = None] EXCEPT ![g] = k]]
    BY <1>15 DEF RecvRenumberTaken, Frame1
  <2>5. UNCHANGED num
    BY <1>15 DEF RecvRenumberTaken
  <2> HIDE DEF c
  <2>6. QED
    BY <1>1, <2>2, <2>3, <2>4, <2>5, CountMoves
<1>16. ASSUME NEW e \in End,
              RecvNewConnection(e) \/ RecvNewConnectionRefused(e) \/ RecvEstablished(e)
              \/ RecvRenumberInvalid(e) \/ RecvData(e) \/ RecvGarbage(e)
       PROVE  CountCoversTable'
  BY <1>2, <1>16 DEF RecvNewConnection, RecvNewConnectionRefused, RecvEstablished,
     RecvRenumberInvalid, RecvData, RecvGarbage
<1>17. ASSUME NEW e \in End, PeerLost(e) PROVE CountCoversTable'
  <2>1. /\ clients' = [clients EXCEPT ![e] = [c \in Slot |-> None]]
        /\ num' = [num EXCEPT ![e] = 0]
    BY <1>17 DEF PeerLost
  <2>2. Held([c \in Slot |-> None]) = {}
    BY DEF Held
  <2>3. Covers(0, [c \in Slot |-> None])
    BY <2>2, FS_EmptySet DEF Covers
  <2>4. QED
    BY <1>1, <2>1, <2>3, CountChange
<1>18. ASSUME NEW e \in End, UseAfterDelete(e) PROVE CountCoversTable'
  BY <1>2, <1>18 DEF UseAfterDelete
<1>19. QED
  BY <1>1, <1>3, <1>4, <1>5, <1>6, <1>7, <1>8, <1>9, <1>10, <1>12, <1>13, <1>14, <1>15,
     <1>16, <1>17, <1>18 DEF Next, Receive, Callback

\* num_clients never says less than the clients in the table, whatever both
\* processes do, and so never falls below 0.
THEOREM CountCovers == Spec => []CountCoversTable
<1>1. TypeOK /\ CountCoversTable /\ [Next]_vars => CountCoversTable'
  BY CountStep
<1>2. QED
  BY <1>1, CountInit, TypeCorrect, PTL DEF Spec
-----------------------------------------------------------------------------
(***************************************************************************)
(* What num_clients says too much.                                         *)
(***************************************************************************)
Excess(n, table) == n - Cardinality(Held(table))

\* DriftsByLossOnly, of one end
Accounted(e) ==
  peer'[e] = "up" =>
    Excess(num'[e], clients'[e]) =
      Excess(num[e], clients[e]) + Cardinality(LeaveUncounted(e))

LEMMA AllAccounted ==
  ASSUME \A e \in End : Accounted(e)
  PROVE  \A e \in End :
           peer'[e] = "up" => Drift(e)' = Drift(e) + Cardinality(LeaveUncounted(e))
BY DEF Accounted, Excess, Held, Drift, Occupied

\* An end whose table and count stay
LEMMA AccountedSame ==
  ASSUME TypeOK, NEW e \in End, clients'[e] = clients[e], num'[e] = num[e]
  PROVE  Accounted(e)
<1>1. LeaveUncounted(e) = {}
  BY DEF LeaveUncounted, HasSlot
<1>2. Cardinality({}) = 0
  BY FS_EmptySet
<1>3. clients[e] \in Tables /\ num[e] \in Int
  BY DEF TypeOK, Tables
<1>4. Cardinality(Held(clients[e])) \in Nat
  BY <1>3, HeldFinite
<1>5. Excess(num[e], clients[e]) \in Int
  BY <1>3, <1>4 DEF Excess
<1>6. QED
  BY <1>1, <1>2, <1>5 DEF Accounted

LEMMA AccountedUnchanged ==
  ASSUME TypeOK, UNCHANGED <<clients, num>>
  PROVE  \A e \in End : Accounted(e)
BY AccountedSame

\* A step that changes the table and the count of one end
LEMMA AccountedChange ==
  ASSUME TypeOK, NEW e \in End,
         NEW u, clients' = [clients EXCEPT ![e] = u],
         NEW m, num' = [num EXCEPT ![e] = m],
         Excess(m, u) = Excess(num[e], clients[e]) + Cardinality(LeaveUncounted(e))
  PROVE  \A f \in End : Accounted(f)
<1>1. clients \in [End -> [Slot -> Conn \cup {None}]] /\ num \in [End -> Int]
  BY DEF TypeOK
<1>2. SUFFICES ASSUME NEW f \in End PROVE Accounted(f)
  OBVIOUS
<1>3. CASE f = e
  <2>1. clients'[e] = u /\ num'[e] = m
    BY <1>1
  <2>2. QED
    BY <1>3, <2>1 DEF Accounted
<1>4. CASE f # e
  <2>1. clients'[f] = clients[f] /\ num'[f] = num[f]
    BY <1>1, <1>4
  <2>2. QED
    BY <2>1, AccountedSame
<1>5. QED
  BY <1>3, <1>4

\* The clients of a table that stay in some slot do not leave
LEMMA NoneLeave ==
  ASSUME NEW e \in End,
         \A c \in Slot : clients[e][c] \in Conn =>
           \/ \E d \in Slot : clients'[e][d] = clients[e][c]
           \/ client'[e][clients[e][c]].state = "CLOSED" /\ wire'[e] # wire[e]
  PROVE  LeaveUncounted(e) = {}
BY DEF LeaveUncounted, HasSlot

\* A free slot is given to k
LEMMA AccountedTakes ==
  ASSUME TypeOK, NEW e \in End, NEW c \in Slot, NEW k \in Conn, clients[e][c] = None,
         clients' = [clients EXCEPT ![e][c] = k],
         num' = [num EXCEPT ![e] = @ + 1]
  PROVE  \A f \in End : Accounted(f)
<1> DEFINE u == [clients[e] EXCEPT ![c] = k]
<1>1. clients[e] \in Tables /\ num[e] \in Int
  BY DEF TypeOK, Tables
<1>2. IsFiniteSet(Held(clients[e])) /\ Cardinality(Held(clients[e])) \in Nat
  BY <1>1, HeldFinite
<1>3. clients' = [clients EXCEPT ![e] = u] /\ num' = [num EXCEPT ![e] = num[e] + 1]
  OBVIOUS
<1>4. LeaveUncounted(e) = {}
  <2>1. clients'[e] = u
    BY <1>3 DEF TypeOK
  <2>2. \A d \in Slot : clients[e][d] \in Conn => u[d] = clients[e][d]
    BY <1>1, TunnelConstants DEF Tables
  <2>3. QED
    BY <2>1, <2>2, NoneLeave
<1>5. Held(u) = Held(clients[e]) \cup {c} /\ c \notin Held(clients[e])
  BY <1>1, TunnelConstants DEF Held, Tables
<1> HIDE DEF u
<1>6. Cardinality(Held(u)) = Cardinality(Held(clients[e])) + 1
  BY <1>2, <1>5, FS_AddElement
<1>7. Cardinality({}) = 0
  BY FS_EmptySet
<1>8. Excess(num[e] + 1, u) = Excess(num[e], clients[e]) + Cardinality(LeaveUncounted(e))
  BY <1>1, <1>2, <1>4, <1>6, <1>7 DEF Excess
<1>9. QED
  BY <1>3, <1>8, AccountedChange

\* The slot of another client is given to k: the overwritten client is not counted off
LEMMA AccountedOverwrites ==
  ASSUME TypeOK, TableConsistent, NEW e \in End, NEW c \in Slot, NEW k \in Conn,
         clients[e][c] # None, clients[e][c] # k,
         client'[e][clients[e][c]] = client[e][clients[e][c]],
         clients' = [clients EXCEPT ![e][c] = k],
         num' = [num EXCEPT ![e] = @ + 1]
  PROVE  \A f \in End : Accounted(f)
<1> DEFINE u == [clients[e] EXCEPT ![c] = k]
           j == clients[e][c]
<1>1. clients[e] \in Tables /\ num[e] \in Int
  BY DEF TypeOK, Tables
<1>2. Cardinality(Held(clients[e])) \in Nat
  BY <1>1, HeldFinite
<1>3. clients' = [clients EXCEPT ![e] = u] /\ num' = [num EXCEPT ![e] = num[e] + 1]
  OBVIOUS
<1>4. clients'[e] = u
  BY <1>3 DEF TypeOK
<1>5. j \in Conn /\ j # k /\ clients[e][c] = j
  BY <1>1 DEF Tables
<1>6. \A d \in Slot : u[d] = IF d = c THEN k ELSE clients[e][d]
  BY <1>1 DEF Tables
<1>7. Held(u) = Held(clients[e])
  BY <1>5, <1>6, TunnelConstants DEF Held
<1>8. client'[e][j].state # "CLOSED"
  <2>1. IsAttached(client[e][j])
    BY <1>5, InTable
  <2>2. QED
    BY <2>1 DEF IsAttached
<1>9. \A d \in Slot : clients[e][d] = j => d = c
  BY <1>5, InTable
<1> HIDE DEF u, j
<1>10. LeaveUncounted(e) = {j}
  <2>1. ASSUME NEW i \in Conn PROVE HasSlot(e, i) /\ ~HasSlot(e, i)' <=> i = j
    <3>1. CASE i = j
      <4>1. HasSlot(e, i)
        BY <1>5, <3>1 DEF HasSlot
      <4>2. \A d \in Slot : u[d] # i
        BY <1>5, <1>6, <1>9, <3>1
      <4>3. QED
        BY <1>4, <3>1, <4>1, <4>2 DEF HasSlot
    <3>2. CASE i # j
      BY <1>4, <1>5, <1>6, <3>2 DEF HasSlot
    <3>3. QED
      BY <3>1, <3>2
  <2>2. QED
    BY <1>5, <1>8, <2>1 DEF LeaveUncounted
<1>11. Cardinality({j}) = 1
  BY FS_Singleton
<1>12. Excess(num[e] + 1, u) = Excess(num[e], clients[e]) + Cardinality(LeaveUncounted(e))
  BY <1>1, <1>2, <1>7, <1>10, <1>11 DEF Excess
<1>13. QED
  BY <1>3, <1>12, AccountedChange

\* A slot is cleared: by a frame, and counted, or by the party outside, and not
LEMMA AccountedCleared ==
  ASSUME TypeOK, TableConsistent, NEW e \in End, NEW c \in Slot, clients[e][c] # None,
         client'[e][clients[e][c]].state = "CLOSED",
         clients' = [clients EXCEPT ![e][c] = None],
         \/ num' = [num EXCEPT ![e] = @ - 1] /\ wire'[e] # wire[e]
         \/ UNCHANGED num /\ wire'[e] = wire[e]
  PROVE  \A f \in End : Accounted(f)
<1> DEFINE u == [clients[e] EXCEPT ![c] = None]
           j == clients[e][c]
<1>1. clients[e] \in Tables /\ num[e] \in Int /\ num = [num EXCEPT ![e] = num[e]]
  BY DEF TypeOK, Tables
<1>2. Cardinality(Held(clients[e])) \in Nat
  BY <1>1, HeldFinite
<1>3. clients' = [clients EXCEPT ![e] = u]
  OBVIOUS
<1>4. clients'[e] = u
  BY <1>3 DEF TypeOK
<1>5. j \in Conn /\ clients[e][c] = j /\ client'[e][j].state = "CLOSED"
  BY <1>1 DEF Tables
<1>6. \A d \in Slot : u[d] = IF d = c THEN None ELSE clients[e][d]
  BY <1>1 DEF Tables
<1>7. Cardinality(Held(u)) = Cardinality(Held(clients[e])) - 1
  BY <1>1, HeldCleared
<1>8. \A d \in Slot : clients[e][d] = j => d = c
  BY <1>5, InTable
<1> HIDE DEF u, j
<1>9. CASE num' = [num EXCEPT ![e] = @ - 1] /\ wire'[e] # wire[e]
  <2>1. LeaveUncounted(e) = {}
    BY <1>4, <1>5, <1>6, <1>9, NoneLeave
  <2>2. Cardinality({}) = 0
    BY FS_EmptySet
  <2>3. num' = [num EXCEPT ![e] = num[e] - 1]
    BY <1>9
  <2>4. Excess(num[e] - 1, u) = Excess(num[e], clients[e]) + Cardinality(LeaveUncounted(e))
    BY <1>1, <1>2, <1>7, <2>1, <2>2 DEF Excess
  <2>5. QED
    BY <1>3, <2>3, <2>4, AccountedChange
<1>10. CASE UNCHANGED num /\ wire'[e] = wire[e]
  <2>1. ASSUME NEW i \in Conn PROVE HasSlot(e, i) /\ ~HasSlot(e, i)' <=> i = j
    <3>1. CASE i = j
      <4>1. HasSlot(e, i)
        BY <1>5, <3>1 DEF HasSlot
      <4>2. \A d \in Slot : u[d] # i
        BY <1>5, <1>6, <1>8, <3>1, TunnelConstants
      <4>3. QED
        BY <1>4, <3>1, <4>1, <4>2 DEF HasSlot
    <3>2. CASE i # j
      BY <1>4, <1>5, <1>6, <3>2, TunnelConstants DEF HasSlot
    <3>3. QED
      BY <3>1, <3>2
  <2>2. LeaveUncounted(e) = {j}
    BY <1>5, <1>10, <2>1 DEF LeaveUncounted
  <2>3. Cardinality({j}) = 1
    BY FS_Singleton
  <2>4. num' = [num EXCEPT ![e] = num[e]]
    BY <1>1, <1>10
  <2>5. Excess(num[e], u) = Excess(num[e], clients[e]) + Cardinality(LeaveUncounted(e))
    BY <1>1, <1>2, <1>7, <2>2, <2>3 DEF Excess
  <2>6. QED
    BY <1>3, <2>4, <2>5, AccountedChange
<1>11. QED
  BY <1>9, <1>10

\* A client moves to another slot that is free, or stays in its own
LEMMA AccountedMoves ==
  ASSUME TypeOK, NEW e \in End, NEW c \in Slot, clients[e][c] # None,
         NEW g \in Slot, g = c \/ clients[e][g] = None,
         clients' = [clients EXCEPT ![e] =
                       [[clients[e] EXCEPT ![c] = None] EXCEPT ![g] = clients[e][c]]],
         UNCHANGED num
  PROVE  \A f \in End : Accounted(f)
<1> DEFINE v == [clients[e] EXCEPT ![c] = None]
           u == [v EXCEPT ![g] = clients[e][c]]
<1>1. clients[e] \in Tables /\ num[e] \in Int /\ num = [num EXCEPT ![e] = num[e]]
  BY DEF TypeOK, Tables
<1>2. Cardinality(Held(clients[e])) \in Nat
  BY <1>1, HeldFinite
<1>3. clients' = [clients EXCEPT ![e] = u] /\ num' = [num EXCEPT ![e] = num[e]]
  BY <1>1
<1>4. clients'[e] = u
  BY <1>3 DEF TypeOK
<1>5. v \in Tables /\ u \in Tables
  BY <1>1 DEF Tables
<1>6. \A d \in Slot : v[d] = IF d = c THEN None ELSE clients[e][d]
  BY <1>1 DEF Tables
<1>7. \A d \in Slot : u[d] = IF d = g THEN clients[e][c] ELSE v[d]
  BY <1>5 DEF Tables
<1>8. Cardinality(Held(v)) = Cardinality(Held(clients[e])) - 1
  BY <1>1, HeldCleared
<1> HIDE DEF v, u
<1>9. Held(u) = Held(v) \cup {g} /\ g \notin Held(v)
  BY <1>6, <1>7 DEF Held
<1>10. IsFiniteSet(Held(v)) /\ Cardinality(Held(v)) \in Nat
  BY <1>5, HeldFinite
<1>11. Cardinality(Held(u)) = Cardinality(Held(v)) + 1
  BY <1>9, <1>10, FS_AddElement
<1>12. LeaveUncounted(e) = {}
  <2>1. ASSUME NEW d \in Slot, clients[e][d] \in Conn
        PROVE  \E h \in Slot : u[h] = clients[e][d]
    <3>1. CASE d = c
      BY <1>7, <3>1
    <3>2. CASE d # c
      <4>1. d # g
        BY <2>1, <3>2, TunnelConstants
      <4>2. QED
        BY <1>6, <1>7, <3>2, <4>1
    <3>3. QED
      BY <3>1, <3>2
  <2>2. QED
    BY <1>4, <2>1, NoneLeave
<1>13. Cardinality({}) = 0
  BY FS_EmptySet
<1>14. Excess(num[e], u) = Excess(num[e], clients[e]) + Cardinality(LeaveUncounted(e))
  BY <1>1, <1>2, <1>8, <1>10, <1>11, <1>12, <1>13 DEF Excess
<1>15. QED
  BY <1>3, <1>14, AccountedChange

LEMMA DriftStep ==
  ASSUME TypeOK, TableConsistent, RequestsOnce, [Next]_vars
  PROVE  \A e \in End : Accounted(e)
<1>1. CASE UNCHANGED <<clients, num>>
  BY <1>1, AccountedUnchanged
<1>2. CASE UNCHANGED vars
  BY <1>1, <1>2 DEF vars
<1>3. ASSUME NEW k \in Conn, RequestConnect(k) PROVE \A e \in End : Accounted(e)
  <2>1. PICK c \in Slot :
          /\ clients' = [clients EXCEPT ![Origin[k]][c] = k]
          /\ clients[Origin[k]][c] = None
    BY <1>3 DEF RequestConnect, FirstFree
  <2>2. num' = [num EXCEPT ![Origin[k]] = @ + 1]
    BY <1>3 DEF RequestConnect
  <2>3. Origin[k] \in End
    BY TunnelConstants
  <2>4. QED
    BY <2>1, <2>2, <2>3, AccountedTakes
<1>4. ASSUME NEW e \in End, NEW k \in Conn, ClientEof(e, k)
      PROVE  \A f \in End : Accounted(f)
  <2> DEFINE c == client[e][k].channel
  <2>1. /\ clients' = IF clients[e][c] = k THEN [clients EXCEPT ![e][c] = None] ELSE clients
        /\ UNCHANGED <<num, wire>> /\ client' = [client EXCEPT ![e][k] = Closed]
    BY <1>4 DEF ClientEof
  <2>2. client'[e][k].state = "CLOSED"
    BY <2>1 DEF TypeOK, Closed
  <2>3. CASE clients[e][c] # k
    BY <1>1, <2>1, <2>3
  <2>4. CASE clients[e][c] = k /\ c \in Slot
    <3>1. clients[e][c] # None
      BY <2>4, TunnelConstants
    <3>2. clients' = [clients EXCEPT ![e][c] = None]
      BY <2>1, <2>4
    <3>3. client'[e][clients[e][c]].state = "CLOSED"
      BY <2>2, <2>4
    <3> HIDE DEF c
    <3>4. QED
      BY <2>1, <2>4, <3>1, <3>2, <3>3, AccountedCleared
  <2>5. CASE c \notin Slot
    <3>1. [clients EXCEPT ![e][c] = None] = clients
      BY <2>5 DEF TypeOK
    <3>2. QED
      BY <1>1, <2>1, <3>1
  <2>6. QED
    BY <2>3, <2>4, <2>5
<1>5. ASSUME NEW e \in End, NEW p \in pending[e], ConnectSucceeds(e, p)
      PROVE  \A f \in End : Accounted(f)
  <2>1. p \in [conn : Conn, req : Byte, ch : Byte]
    BY DEF TypeOK
  <2>2. p.ch \in Slot /\ p.conn \in Conn
    BY <2>1, TunnelConstants DEF Byte, Slot
  <2> DEFINE c == p.ch
             k == p.conn
  <2>3. /\ clients' = [clients EXCEPT ![e][c] = k]
        /\ num' = [num EXCEPT ![e] = @ + 1]
        /\ \A j \in Conn : j # k => client'[e][j] = client[e][j]
    BY <1>5 DEF ConnectSucceeds, Attach, TypeOK
  <2>4. client[e][k].state = "NONE"
    BY <2>2 DEF RequestsOnce, Requested
  <2> HIDE DEF c, k
  <2>5. CASE clients[e][c] = None
    BY <2>2, <2>3, <2>5, AccountedTakes DEF c, k
  <2>6. CASE clients[e][c] # None
    <3>1. clients[e][c] # k
      <4>1. ASSUME clients[e][c] = k PROVE FALSE
        <5>1. IsAttached(client[e][k])
          BY <2>2, <4>1, InTable DEF c, k
        <5>2. QED
          BY <2>4, <5>1 DEF IsAttached
      <4>2. QED
        BY <4>1
    <3>2. clients[e][c] \in Conn
      BY <2>2, <2>6 DEF TypeOK, c
    <3>3. client'[e][clients[e][c]] = client[e][clients[e][c]]
      BY <2>3, <3>1, <3>2
    <3>4. c \in Slot /\ k \in Conn
      BY <2>2 DEF c, k
    <3>5. QED
      BY <2>3, <2>6, <3>1, <3>3, <3>4, AccountedOverwrites
  <2>7. QED
    BY <2>5, <2>6
<1>6. ASSUME NEW e \in End, wire[e] # <<>> PROVE Head(wire[e]) \in Frame
  <2>1. wire[e] \in Seq(Frame)
    BY DEF TypeOK
  <2>2. QED
    BY <1>6, <2>1
<1>7. ASSUME NEW e \in End, RecvNewConnectionImmediate(e)
      PROVE  \A f \in End : Accounted(f)
  <2> DEFINE m == Head(wire[e])
  <2>1. m \in Frame /\ m.cmd = "NEW_CONNECTION"
    BY <1>6, <1>7 DEF RecvNewConnectionImmediate, Arrived
  <2>2. m.conn \in Conn
    BY <2>1 DEF Frame
  <2>3. PICK c \in Slot : Attach(e, m.conn, m.ch, c, FALSE) /\ clients[e][c] = None
    BY <1>7 DEF RecvNewConnectionImmediate, Frame1, FirstFree
  <2>4. clients' = [clients EXCEPT ![e][c] = m.conn] /\ num' = [num EXCEPT ![e] = @ + 1]
    BY <2>3 DEF Attach
  <2> HIDE DEF m
  <2>5. QED
    BY <2>2, <2>3, <2>4, AccountedTakes
<1>8. ASSUME NEW e \in End, RecvFailedOrEof(e) PROVE \A f \in End : Accounted(f)
  <2> DEFINE c == Head(wire[e]).ch
  <2>1. Drop(e, c) /\ wire[e] # <<>> /\ wire' = [wire EXCEPT ![e] = Tail(@)]
    BY <1>8 DEF RecvFailedOrEof, Frame1, Arrived, Consume, Consumed
  <2>2. Head(wire[e]) \in Frame
    BY <1>6, <2>1
  <2>3. c \in Slot
    BY <2>2, TunnelConstants DEF Frame, Byte, Slot
  <2>4. wire'[e] # wire[e]
    <3>1. wire[e] \in Seq(Frame) /\ wire'[e] = Tail(wire[e])
      BY <2>1 DEF TypeOK
    <3>2. Len(Tail(wire[e])) = Len(wire[e]) - 1 /\ Len(wire[e]) \in Nat
      BY <2>1, <3>1, HeadTailProperties, LenProperties
    <3>3. Len(Tail(wire[e])) # Len(wire[e])
      BY <3>2
    <3>4. QED
      BY <3>1, <3>3
  <2> HIDE DEF c
  <2>5. CASE clients[e][c] = None
    BY <1>1, <2>1, <2>5 DEF Drop
  <2>6. CASE clients[e][c] # None
    <3>1. /\ clients' = [clients EXCEPT ![e][c] = None]
          /\ num' = [num EXCEPT ![e] = @ - 1]
          /\ client' = [client EXCEPT ![e][clients[e][c]] = Closed]
      BY <2>1, <2>6 DEF Drop
    <3>2. clients[e][c] \in Conn
      BY <2>3, <2>6 DEF TypeOK
    <3>3. client'[e][clients[e][c]].state = "CLOSED"
      BY <3>1, <3>2 DEF TypeOK, Closed
    <3>4. QED
      BY <2>3, <2>4, <2>6, <3>1, <3>3, AccountedCleared
  <2>7. QED
    BY <2>5, <2>6
<1>9. ASSUME NEW e \in End, RecvRenumberMove(e) PROVE \A f \in End : Accounted(f)
  <2> DEFINE c == Head(wire[e]).ch
             g == Head(wire[e]).to
  <2>1. Head(wire[e]) \in Frame
    BY <1>6, <1>9 DEF RecvRenumberMove, Arrived
  <2>2. c \in Slot /\ g \in Slot
    BY <2>1, TunnelConstants DEF Frame, Byte, Slot
  <2>3. clients[e][c] # None /\ (g = c \/ clients[e][g] = None)
    BY <1>9 DEF RecvRenumberMove, Frame1
  <2>4. clients' = [clients EXCEPT ![e] =
                      [[clients[e] EXCEPT ![c] = None] EXCEPT ![g] = clients[e][c]]]
    BY <1>9 DEF RecvRenumberMove, Frame1
  <2>5. UNCHANGED num
    BY <1>9 DEF RecvRenumberMove
  <2> HIDE DEF c, g
  <2>6. QED
    BY <2>2, <2>3, <2>4, <2>5, AccountedMoves
<1>10. ASSUME NEW e \in End, RecvRenumberTaken(e) PROVE \A f \in End : Accounted(f)
  <2> DEFINE c == Head(wire[e]).ch
  <2>1. Head(wire[e]) \in Frame
    BY <1>6, <1>10 DEF RecvRenumberTaken, Arrived
  <2>2. c \in Slot
    BY <2>1, TunnelConstants DEF Frame, Byte, Slot
  <2>3. clients[e][c] # None /\ UNCHANGED num
    BY <1>10 DEF RecvRenumberTaken, Frame1
  <2>4. PICK g \in Slot :
          /\ FirstFree([clients[e] EXCEPT ![c] = None], c + 1, g)
          /\ clients' = [clients EXCEPT ![e] =
                          [[clients[e] EXCEPT ![c] = None] EXCEPT ![g] = clients[e][c]]]
    BY <1>10 DEF RecvRenumberTaken, Frame1
  <2> HIDE DEF c
  <2>5. [clients[e] EXCEPT ![c] = None][g] = None
    BY <2>4 DEF FirstFree
  <2>6. g = c \/ clients[e][g] = None
    BY <2>2, <2>5 DEF TypeOK
  <2>7. QED
    BY <2>2, <2>3, <2>4, <2>6, AccountedMoves
<1>11. ASSUME NEW e \in End, PeerLost(e) PROVE \A f \in End : Accounted(f)
  <2>1. SUFFICES ASSUME NEW f \in End PROVE Accounted(f)
    OBVIOUS
  <2>2. peer'[e] = "closed"
    BY <1>11 DEF PeerLost, TypeOK
  <2>3. f # e => clients'[f] = clients[f] /\ num'[f] = num[f]
    BY <1>11 DEF PeerLost, TypeOK
  <2>4. CASE f = e
    BY <2>2, <2>4 DEF Accounted
  <2>5. CASE f # e
    BY <2>3, <2>5, AccountedSame
  <2>6. QED
    BY <2>4, <2>5
<1>12. ASSUME NEW k \in Conn, RequestRefused(k) PROVE \A e \in End : Accounted(e)
  BY <1>1, <1>12 DEF RequestRefused
<1>13. ASSUME NEW e \in End, NEW k \in Conn, ClientData(e, k)
       PROVE  \A f \in End : Accounted(f)
  BY <1>1, <1>13 DEF ClientData
<1>14. ASSUME NEW e \in End, NEW p \in pending[e], ConnectFails(e, p)
       PROVE  \A f \in End : Accounted(f)
  BY <1>1, <1>14 DEF ConnectFails
<1>15. ASSUME NEW e \in End, NEW i \in DOMAIN timers[e], RetryRenumber(e, i)
       PROVE  \A f \in End : Accounted(f)
  BY <1>1, <1>15 DEF RetryRenumber
<1>16. ASSUME NEW e \in End,
              RecvNewConnection(e) \/ RecvNewConnectionRefused(e) \/ RecvEstablished(e)
              \/ RecvRenumberInvalid(e) \/ RecvData(e) \/ RecvGarbage(e)
              \/ UseAfterDelete(e)
       PROVE  \A f \in End : Accounted(f)
  BY <1>1, <1>16 DEF RecvNewConnection, RecvNewConnectionRefused, RecvEstablished,
     RecvRenumberInvalid, RecvData, RecvGarbage, UseAfterDelete
<1>17. QED
  BY <1>2, <1>3, <1>4, <1>5, <1>7, <1>8, <1>9, <1>10, <1>11, <1>12, <1>13, <1>14, <1>15,
     <1>16 DEF Next, Receive, Callback

\* num_clients exceeds the table by the clients that were overwritten or hung up since
\* the peer connected, and by nothing else: renumberings and the closings that a frame
\* asks for are counted as they should be.
THEOREM CountDriftsByLossOnly == Spec => DriftsByLossOnly
<1>1. ASSUME TypeOK, TableConsistent, RequestsOnce, [Next]_vars
      PROVE  [\A e \in End :
                peer'[e] = "up" => Drift(e)' = Drift(e) + Cardinality(LeaveUncounted(e))]_vars
  BY <1>1, DriftStep, AllAccounted
<1>2. QED
  BY <1>1, TypeCorrect, TableIsConsistent, RequestsAreMadeOnce, PTL DEF Spec, DriftsByLossOnly
=============================================================================
