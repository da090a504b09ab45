-------------------------- MODULE TunnelPipesProofs --------------------------
(***************************************************************************)
(* A tunnel whose sessions all start at one process, and whose parties do  *)
(* not hang up, implements the pipes of Pipes: for any number of sessions, *)
(* channels and data units, and with a link that may break at any time.    *)
(***************************************************************************)
EXTENDS TunnelProofs

\* Every session was accepted at o, and no outside party closes first
OneWay(o) == HangUp = {} /\ \A k \in Conn : Origin[k] = o

-----------------------------------------------------------------------------
(***************************************************************************)
(* The inductive invariant.  o accepts the sessions, t connects to the     *)
(* targets.                                                                *)
(***************************************************************************)
FramesOf(q) == {q[i] : i \in DOMAIN q}

\* The channel c is used for k by the process that connects to its target:
\* k is asked for, its connect() runs, or it is connected
Uses(t, k, c) ==
  \/ \E m \in FramesOf(wire[t]) : IsRequest(m, k) /\ m.ch = c
  \/ \E p \in pending[t] : p.conn = k /\ p.req = c
  \/ client[t][k].state = "CONNECTED" /\ client[t][k].channel = c

\* There is nothing to renumber: no frame waits in obuf, no timer runs
Idle(o, t) ==
  /\ \A e \in End : obuf[e] = <<>> /\ timers[e] = <<>>
  /\ pending[o] = {}
  /\ \A p \in pending[t] : p.ch = p.req /\ p.ch # 0

LostIsEmpty ==
  \A e \in End : peer[e] # "up" =>
    wire[e] = <<>> /\ \A c \in Slot : clients[e][c] = None

StatesOf(o, t) ==
  \A k \in Conn :
    /\ client[o][k].state \in {"REQUEST", "CONNECTING", "CONNECTED", "CLOSED"}
    /\ client[t][k].state \in {"NONE", "CONNECTED", "CLOSED"}
    /\ client[t][k].state = "CLOSED" => peer[t] # "up"
    /\ client[o][k].state = "CONNECTED" => client[t][k].state # "NONE"
    /\ client[t][k].state = "NONE" => sent[o][k] = 0 /\ sent[t][k] = 0

ChannelsFit ==
  \A e \in End, k \in Conn : Attached(e, k) =>
    client[e][k].channel # 0 /\ client[e][k].channel \in Byte

\* No two sessions use a channel, and while o has its peer the session that
\* uses a channel holds it there
UsesAlone(o, t) ==
  \A k \in Conn, c \in Byte : Uses(t, k, c) =>
    /\ \A j \in Conn : Uses(t, j, c) => j = k
    /\ peer[o] = "up" => clients[o][c] = k

\* What t has written is for clients that o still has; behind a failure comes
\* nothing more on its channel
IsAnswer(o, t, m) ==
  /\ m.cmd \in {"CONNECTION_ESTABLISHED", "DATA", "CONNECTION_FAILED"}
  /\ m.ch # 0
  /\ clients[o][m.ch] # None
  /\ m.cmd = "DATA" => m.conn = clients[o][m.ch]
  /\ m.cmd # "CONNECTION_FAILED" => client[t][clients[o][m.ch]].state # "NONE"
  /\ m.cmd = "CONNECTION_FAILED" => \A k \in Conn : ~Uses(t, k, m.ch)

FailsAlone(q) ==
  \A i, j \in DOMAIN q :
    q[i].cmd = "CONNECTION_FAILED" /\ q[j].ch = q[i].ch => j = i

Answers(o, t) ==
  /\ \A m \in FramesOf(wire[o]) : IsAnswer(o, t, m)
  /\ FailsAlone(wire[o])

\* What o has written is a request, or data for the client that t has
Asks(t) ==
  \A m \in FramesOf(wire[t]) :
    /\ m.cmd \in {"NEW_CONNECTION", "DATA"}
    /\ m.ch # 0
    /\ m.cmd = "DATA" => clients[t][m.ch] = m.conn

\* The items of k in q are first .. last, in this order
Carries(q, k, first, last) ==
  /\ first <= last + 1
  /\ \A i \in DOMAIN q : IsItem(q[i], k) => first <= q[i].n /\ q[i].n <= last
  /\ \A i, j \in DOMAIN q :
       IsItem(q[i], k) /\ IsItem(q[j], k) /\ i < j => q[i].n < q[j].n
  /\ \A n \in first .. last : \E i \in DOMAIN q : IsItem(q[i], k) /\ q[i].n = n

\* The item the party at e is to be handed next, and the last one written to it
First(o, e, k) == Len(rcvd[e][k]) + (IF e = o THEN 0 ELSE 1)
Last(o, e, k) ==
  IF e = o /\ client[Other(o)][k].state = "NONE" THEN -1 ELSE sent[Other(e)][k]

\* The wire carries what was sent and not yet handed over, and nothing else
InOrder(o) ==
  \A e \in End, k \in Conn : peer[e] = "up" =>
    Carries(wire[e], k, First(o, e, k), Last(o, e, k))

Paired(o, t) ==
  /\ ClientOwnsSlot
  /\ Idle(o, t)
  /\ LostIsEmpty
  /\ StatesOf(o, t)
  /\ ChannelsFit
  /\ UsesAlone(o, t)
  /\ Answers(o, t)
  /\ Asks(t)
  /\ InOrder(o)

OneWayInv(o, t) == IInv /\ Paired(o, t)

-----------------------------------------------------------------------------
(***************************************************************************)
(* Lemmas about sequences of frames.                                       *)
(***************************************************************************)
LEMMA SeqFacts ==
  ASSUME NEW q \in Seq(Frame)
  PROVE  /\ Len(q) \in Nat /\ DOMAIN q = 1 .. Len(q)
         /\ \A m \in FramesOf(q) : m \in Frame
         /\ \A i \in DOMAIN q : q[i] \in FramesOf(q)
<1>1. Len(q) \in Nat /\ DOMAIN q = 1 .. Len(q)
  BY LenProperties
<1>2. \A i \in DOMAIN q : q[i] \in Frame
  BY <1>1, ElementOfSeq
<1>3. QED
  BY <1>1, <1>2 DEF FramesOf

LEMMA TailFacts ==
  ASSUME NEW q \in Seq(Frame), q # <<>>
  PROVE  /\ Tail(q) \in Seq(Frame)
         /\ 1 \in DOMAIN q /\ q[1] = Head(q)
         /\ \A i \in DOMAIN Tail(q) :
              /\ i \in Nat /\ i # 0 /\ i + 1 \in DOMAIN q
              /\ Tail(q)[i] = q[i + 1]
         /\ \A i \in DOMAIN q : i = 1 \/ i - 1 \in DOMAIN Tail(q)
<1>1. /\ Tail(q) \in Seq(Frame) /\ Len(Tail(q)) = Len(q) - 1
      /\ \A i \in 1 .. Len(Tail(q)) : Tail(q)[i] = q[i + 1]
      /\ Head(q) = q[1]
  BY HeadTailProperties
<1>2. Len(q) \in Nat /\ Len(q) # 0 /\ DOMAIN q = 1 .. Len(q)
  BY LenProperties, EmptySeq
<1>3. DOMAIN Tail(q) = 1 .. Len(q) - 1
  BY <1>1, LenProperties
<1> HIDE DEF FramesOf
<1>4. QED
  BY <1>1, <1>2, <1>3

LEMMA TailFrames ==
  ASSUME NEW q \in Seq(Frame), q # <<>>
  PROVE  /\ Head(q) \in FramesOf(q)
         /\ FramesOf(Tail(q)) \subseteq FramesOf(q)
         /\ \A m \in FramesOf(q) : m = Head(q) \/ m \in FramesOf(Tail(q))
<1>1. Head(q) \in FramesOf(q)
  BY TailFacts DEF FramesOf
<1>2. ASSUME NEW m \in FramesOf(Tail(q)) PROVE m \in FramesOf(q)
  BY TailFacts DEF FramesOf
<1>3. ASSUME NEW m \in FramesOf(q) PROVE m = Head(q) \/ m \in FramesOf(Tail(q))
  <2>1. PICK i \in DOMAIN q : m = q[i]
    BY DEF FramesOf
  <2>2. CASE i = 1
    BY <2>1, <2>2, TailFacts
  <2>3. CASE i # 1
    <3>1. i - 1 \in DOMAIN Tail(q)
      BY <2>3, TailFacts
    <3>2. i \in Nat
      BY SeqFacts
    <3>3. Tail(q)[i - 1] = q[(i - 1) + 1] /\ (i - 1) + 1 = i
      BY <3>1, <3>2, TailFacts
    <3>4. QED
      BY <2>1, <3>1, <3>3 DEF FramesOf
  <2>4. QED
    BY <2>2, <2>3
<1>4. QED
  BY <1>1, <1>2, <1>3

LEMMA ConcatFacts ==
  ASSUME NEW q \in Seq(Frame), NEW f \in Seq(Frame)
  PROVE  /\ q \o f \in Seq(Frame)
         /\ \A i \in DOMAIN q : i \in DOMAIN (q \o f) /\ (q \o f)[i] = q[i]
         /\ \A j \in DOMAIN f :
              /\ Len(q) + j \in DOMAIN (q \o f)
              /\ (q \o f)[Len(q) + j] = f[j]
         /\ \A i \in DOMAIN (q \o f) :
              \/ i \in DOMAIN q
              \/ \E j \in DOMAIN f : i = Len(q) + j
<1>1. /\ Len(q) \in Nat /\ Len(f) \in Nat
      /\ DOMAIN q = 1 .. Len(q) /\ DOMAIN f = 1 .. Len(f)
  BY LenProperties
<1>2. /\ q \o f \in Seq(Frame) /\ Len(q \o f) = Len(q) + Len(f)
      /\ \A i \in 1 .. Len(q) + Len(f) :
           (q \o f)[i] = IF i <= Len(q) THEN q[i] ELSE f[i - Len(q)]
  BY ConcatProperties
<1>3. DOMAIN (q \o f) = 1 .. Len(q) + Len(f)
  BY <1>2, LenProperties
<1> DEFINE a == Len(q)
           b == Len(f)
           r == q \o f
<1>4. a \in Nat /\ b \in Nat /\ DOMAIN q = 1 .. a /\ DOMAIN f = 1 .. b /\ DOMAIN r = 1 .. a + b
  BY <1>1, <1>3
<1>5. \A i \in 1 .. a + b : r[i] = IF i <= a THEN q[i] ELSE f[i - a]
  BY <1>2
<1> HIDE DEF a, b, r
<1>6. \A i \in DOMAIN q : i \in DOMAIN r /\ r[i] = q[i]
  BY <1>4, <1>5
<1>7. ASSUME NEW j \in DOMAIN f PROVE a + j \in DOMAIN r /\ r[a + j] = f[j]
  <2>1. a + j \in 1 .. a + b /\ ~(a + j <= a) /\ (a + j) - a = j
    BY <1>4
  <2>2. QED
    BY <1>4, <1>5, <2>1
<1>8. ASSUME NEW i \in DOMAIN r, i \notin DOMAIN q PROVE \E j \in DOMAIN f : i = a + j
  <2>1. i - a \in DOMAIN f /\ i = a + (i - a)
    BY <1>4, <1>8
  <2>2. QED
    BY <2>1
<1>9. QED
  BY <1>2, <1>6, <1>7, <1>8 DEF a, b, r

LEMMA ConcatFrames ==
  ASSUME NEW q \in Seq(Frame), NEW f \in Seq(Frame)
  PROVE  FramesOf(q \o f) = FramesOf(q) \cup FramesOf(f)
<1>1. ASSUME NEW m \in FramesOf(q \o f) PROVE m \in FramesOf(q) \cup FramesOf(f)
  <2>1. PICK i \in DOMAIN (q \o f) : m = (q \o f)[i]
    BY DEF FramesOf
  <2>2. QED
    BY <2>1, ConcatFacts DEF FramesOf
<1>2. ASSUME NEW m \in FramesOf(q) \cup FramesOf(f) PROVE m \in FramesOf(q \o f)
  <2>1. CASE m \in FramesOf(q)
    <3>1. PICK i \in DOMAIN q : m = q[i]
      BY <2>1 DEF FramesOf
    <3>2. QED
      BY <3>1, ConcatFacts DEF FramesOf
  <2>2. CASE m \in FramesOf(f)
    <3>1. PICK j \in DOMAIN f : m = f[j]
      BY <2>2 DEF FramesOf
    <3>2. Len(q) + j \in DOMAIN (q \o f) /\ (q \o f)[Len(q) + j] = m
      BY <3>1, ConcatFacts
    <3>3. QED
      BY <3>2 DEF FramesOf
  <2>3. QED
    BY <2>1, <2>2
<1>3. QED
  BY <1>1, <1>2

LEMMA ConcatThree ==
  ASSUME NEW q \in Seq(Frame), NEW f \in Seq(Frame), NEW g \in Seq(Frame)
  PROVE  (q \o f) \o g = q \o (f \o g)
BY ConcatAssociative

LEMMA FewFrames ==
  /\ FramesOf(<<>>) = {}
  /\ \A a : FramesOf(<<a>>) = {a}
  /\ \A a, b : FramesOf(<<a, b>>) = {a, b}
BY DEF FramesOf

\* Behind a failure nothing more comes on its channel: kept by a read ...
LEMMA TailFails ==
  ASSUME NEW q \in Seq(Frame), q # <<>>, FailsAlone(q)
  PROVE  /\ FailsAlone(Tail(q))
         /\ Head(q).cmd = "CONNECTION_FAILED" =>
              \A m \in FramesOf(Tail(q)) : m.ch # Head(q).ch
<1>1. ASSUME NEW i \in DOMAIN Tail(q), NEW j \in DOMAIN Tail(q),
             Tail(q)[i].cmd = "CONNECTION_FAILED", Tail(q)[j].ch = Tail(q)[i].ch
      PROVE  j = i
  <2>1. /\ i + 1 \in DOMAIN q /\ Tail(q)[i] = q[i + 1] /\ i \in Nat
        /\ j + 1 \in DOMAIN q /\ Tail(q)[j] = q[j + 1] /\ j \in Nat
    BY TailFacts
  <2>2. j + 1 = i + 1
    BY <1>1, <2>1 DEF FailsAlone
  <2>3. QED
    BY <2>1, <2>2
<1>2. ASSUME Head(q).cmd = "CONNECTION_FAILED", NEW m \in FramesOf(Tail(q)), m.ch = Head(q).ch
      PROVE  FALSE
  <2>1. PICK j \in DOMAIN Tail(q) : m = Tail(q)[j]
    BY DEF FramesOf
  <2>2. j + 1 \in DOMAIN q /\ m = q[j + 1] /\ j \in Nat /\ j # 0
    BY <2>1, TailFacts
  <2>3. 1 \in DOMAIN q /\ q[1] = Head(q)
    BY TailFacts
  <2>4. j + 1 = 1
    BY <1>2, <2>2, <2>3 DEF FailsAlone
  <2>5. QED
    BY <2>2, <2>4
<1>3. QED
  BY <1>1, <1>2 DEF FailsAlone

\* ... and by a write that takes no channel of a failure.
LEMMA ConcatFails ==
  ASSUME NEW q \in Seq(Frame), NEW f \in Seq(Frame), FailsAlone(q), FailsAlone(f),
         \A m \in FramesOf(q), r \in FramesOf(f) :
           m.ch = r.ch => m.cmd # "CONNECTION_FAILED" /\ r.cmd # "CONNECTION_FAILED"
  PROVE  FailsAlone(q \o f)
<1> DEFINE s == q \o f
<1>1. ASSUME NEW i \in DOMAIN s, NEW j \in DOMAIN s,
             s[i].cmd = "CONNECTION_FAILED", s[j].ch = s[i].ch
      PROVE  j = i
  <2>1. CASE i \in DOMAIN q /\ j \in DOMAIN q
    BY <1>1, <2>1, ConcatFacts DEF FailsAlone
  <2>2. ASSUME NEW a \in DOMAIN f, i = Len(q) + a, NEW b \in DOMAIN f, j = Len(q) + b
        PROVE  j = i
    <3>1. s[i] = f[a] /\ s[j] = f[b]
      BY <2>2, ConcatFacts
    <3>2. b = a
      BY <1>1, <3>1 DEF FailsAlone
    <3>3. QED
      BY <2>2, <3>2
  <2>3. ASSUME i \in DOMAIN q, NEW b \in DOMAIN f, j = Len(q) + b
        PROVE  FALSE
    <3>1. s[i] = q[i] /\ s[j] = f[b]
      BY <2>3, ConcatFacts
    <3>2. QED
      BY <1>1, <2>3, <3>1 DEF FramesOf
  <2>4. ASSUME j \in DOMAIN q, NEW a \in DOMAIN f, i = Len(q) + a
        PROVE  FALSE
    <3>1. s[j] = q[j] /\ s[i] = f[a]
      BY <2>4, ConcatFacts
    <3>2. QED
      BY <1>1, <2>4, <3>1 DEF FramesOf
  <2>5. QED
    BY <2>1, <2>2, <2>3, <2>4, ConcatFacts
<1>2. QED
  BY <1>1 DEF FailsAlone

\* An empty wire carries nothing.
LEMMA CarriesNothing ==
  ASSUME NEW k, NEW first \in Int
  PROVE  Carries(<<>>, k, first, first - 1)
BY DEF Carries

\* A frame that is no item of k is read.
LEMMA CarriesTail ==
  ASSUME NEW q \in Seq(Frame), q # <<>>, NEW k, ~IsItem(Head(q), k),
         NEW first \in Int, NEW last \in Int, Carries(q, k, first, last)
  PROVE  Carries(Tail(q), k, first, last)
<1> DEFINE r == Tail(q)
<1>1. \A i \in DOMAIN r : i \in Nat /\ i + 1 \in DOMAIN q /\ r[i] = q[i + 1]
  BY TailFacts
<1>2. ASSUME NEW n \in first .. last
      PROVE  \E i \in DOMAIN r : IsItem(r[i], k) /\ r[i].n = n
  <2>1. PICK i \in DOMAIN q : IsItem(q[i], k) /\ q[i].n = n
    BY DEF Carries
  <2>2. i # 1 /\ i \in Nat
    BY <2>1, TailFacts, SeqFacts
  <2>3. i - 1 \in DOMAIN r
    BY <2>2, TailFacts
  <2>4. r[i - 1] = q[(i - 1) + 1] /\ (i - 1) + 1 = i
    BY <1>1, <2>2, <2>3
  <2>5. QED
    BY <2>1, <2>3, <2>4
<1>3. ASSUME NEW i \in DOMAIN r, NEW j \in DOMAIN r, IsItem(r[i], k), IsItem(r[j], k), i < j
      PROVE  r[i].n < r[j].n
  <2>1. i + 1 < j + 1
    BY <1>1, <1>3
  <2>2. QED
    BY <1>1, <1>3, <2>1 DEF Carries
<1>4. ASSUME NEW i \in DOMAIN r, IsItem(r[i], k)
      PROVE  first <= r[i].n /\ r[i].n <= last
  BY <1>1, <1>4 DEF Carries
<1> HIDE DEF r
<1>5. QED
  BY <1>2, <1>3, <1>4 DEF Carries, r

\* The item of k that is read is the first, and leaves the next.
LEMMA CarriesHead ==
  ASSUME NEW q \in Seq(Frame), q # <<>>, NEW k, IsItem(Head(q), k),
         NEW first \in Int, NEW last \in Int, Carries(q, k, first, last)
  PROVE  /\ Head(q).n = first /\ first <= last
         /\ Carries(Tail(q), k, first + 1, last)
<1> DEFINE r == Tail(q)
<1>0. \A i \in DOMAIN q : i \in Nat /\ i >= 1 /\ q[i].n \in Int
  <2>1. \A i \in DOMAIN q : i \in Nat /\ i >= 1 /\ q[i] \in Frame
    BY SeqFacts
  <2>2. QED
    BY <2>1 DEF Frame
<1>1. \A i \in DOMAIN r : i \in Nat /\ i # 0 /\ i + 1 \in DOMAIN q /\ r[i] = q[i + 1]
  BY TailFacts
<1>2. 1 \in DOMAIN q /\ q[1] = Head(q)
  BY TailFacts
<1>3. first <= q[1].n /\ q[1].n <= last /\ q[1].n \in Int
  BY <1>0, <1>2 DEF Carries
<1>4. first \in first .. last /\ first <= last
  BY <1>3
<1>5. PICK i0 \in DOMAIN q : IsItem(q[i0], k) /\ q[i0].n = first
  BY <1>4 DEF Carries
<1>6. i0 = 1
  <2>1. i0 # 1 => 1 < i0
    BY <1>0
  <2>2. 1 < i0 => q[1].n < q[i0].n
    BY <1>2, <1>5 DEF Carries
  <2>3. QED
    BY <1>3, <1>5, <2>1, <2>2
<1>7. ASSUME NEW n \in first + 1 .. last
      PROVE  \E i \in DOMAIN r : IsItem(r[i], k) /\ r[i].n = n
  <2>0. n \in first .. last /\ n # first
    BY <1>7
  <2>1. PICK i \in DOMAIN q : IsItem(q[i], k) /\ q[i].n = n
    BY <2>0 DEF Carries
  <2>2. i # 1 /\ i \in Nat
    BY <2>0, <2>1, <1>5, <1>6, <1>0
  <2>3. i - 1 \in DOMAIN r
    BY <2>2, TailFacts
  <2>4. r[i - 1] = q[(i - 1) + 1] /\ (i - 1) + 1 = i
    BY <1>1, <2>2, <2>3
  <2>5. QED
    BY <2>1, <2>3, <2>4
<1>8. ASSUME NEW i \in DOMAIN r, NEW j \in DOMAIN r, IsItem(r[i], k), IsItem(r[j], k), i < j
      PROVE  r[i].n < r[j].n
  <2>1. i + 1 < j + 1
    BY <1>1, <1>8
  <2>2. QED
    BY <1>1, <1>8, <2>1 DEF Carries
<1>9. ASSUME NEW i \in DOMAIN r, IsItem(r[i], k)
      PROVE  first + 1 <= r[i].n /\ r[i].n <= last
  <2>1. i + 1 \in DOMAIN q /\ r[i] = q[i + 1] /\ 1 < i + 1
    BY <1>1
  <2>2. q[1].n < q[i + 1].n
    BY <1>2, <1>9, <2>1 DEF Carries
  <2>3. q[i + 1].n <= last
    BY <1>9, <2>1 DEF Carries
  <2>4. q[i + 1].n \in Int /\ q[1].n = first
    BY <1>0, <1>5, <1>6, <2>1
  <2>5. QED
    BY <2>1, <2>2, <2>3, <2>4
<1>a. first + 1 <= last + 1
  BY <1>4
<1> HIDE DEF r
<1>10. Carries(r, k, first + 1, last)
  BY <1>7, <1>8, <1>9, <1>a DEF Carries
<1>11. QED
  BY <1>2, <1>4, <1>5, <1>6, <1>10 DEF r

\* Frames that are no items of k are written.
LEMMA CarriesMore ==
  ASSUME NEW q \in Seq(Frame), NEW f \in Seq(Frame), NEW k,
         \A m \in FramesOf(f) : ~IsItem(m, k),
         NEW first \in Int, NEW last \in Int, Carries(q, k, first, last)
  PROVE  Carries(q \o f, k, first, last)
<1> DEFINE r == q \o f
<1>1. \A i \in DOMAIN q : i \in DOMAIN r /\ r[i] = q[i]
  BY ConcatFacts
<1>2. ASSUME NEW i \in DOMAIN r, IsItem(r[i], k) PROVE i \in DOMAIN q
  <2>1. \A j \in DOMAIN f : i # Len(q) + j
    BY <1>2, ConcatFacts DEF FramesOf
  <2>2. QED
    BY <2>1, ConcatFacts
<1> HIDE DEF r
<1>3. QED
  BY <1>1, <1>2 DEF Carries, r

\* The next item of k is written.
LEMMA CarriesItem ==
  ASSUME NEW q \in Seq(Frame), NEW k, NEW m \in Frame, IsItem(m, k),
         NEW first \in Int, NEW last \in Int, Carries(q, k, first, last), m.n = last + 1
  PROVE  Carries(q \o <<m>>, k, first, last + 1)
<1> DEFINE r == q \o <<m>>
           a == Len(q) + 1
<1>0. <<m>> \in Seq(Frame) /\ DOMAIN <<m>> = {1} /\ <<m>>[1] = m
  OBVIOUS
<1>1. \A i \in DOMAIN q : i \in DOMAIN r /\ r[i] = q[i] /\ i \in Int /\ i < a
  BY <1>0, ConcatFacts, SeqFacts
<1>2. a \in DOMAIN r /\ r[a] = m /\ a \in Int
  BY <1>0, ConcatFacts, SeqFacts
<1>3. \A i \in DOMAIN r : i \in DOMAIN q \/ i = a
  BY <1>0, ConcatFacts
<1>4. \A i \in DOMAIN q : q[i].n \in Int
  <2>1. \A i \in DOMAIN q : q[i] \in Frame
    BY SeqFacts
  <2>2. QED
    BY <2>1 DEF Frame
<1> HIDE DEF r, a
<1>5. first <= last + 1
  BY DEF Carries
<1>6. ASSUME NEW i \in DOMAIN r, IsItem(r[i], k)
      PROVE  first <= r[i].n /\ r[i].n <= last + 1
  <2>1. CASE i = a
    BY <1>2, <1>5, <2>1
  <2>2. CASE i \in DOMAIN q
    <3>1. first <= q[i].n /\ q[i].n <= last /\ q[i].n \in Int
      BY <1>1, <1>4, <1>6, <2>2 DEF Carries
    <3>2. QED
      BY <1>1, <2>2, <3>1
  <2>3. QED
    BY <1>3, <2>1, <2>2
<1>7. ASSUME NEW i \in DOMAIN r, NEW j \in DOMAIN r, IsItem(r[i], k), IsItem(r[j], k), i < j
      PROVE  r[i].n < r[j].n
  <2>1. i \in DOMAIN q
    BY <1>1, <1>2, <1>3, <1>7
  <2>2. CASE j \in DOMAIN q
    BY <1>1, <1>7, <2>1, <2>2 DEF Carries
  <2>3. CASE j = a
    <3>1. q[i].n <= last /\ q[i].n \in Int
      BY <1>1, <1>4, <1>7, <2>1 DEF Carries
    <3>2. QED
      BY <1>1, <1>2, <2>1, <2>3, <3>1
  <2>4. QED
    BY <1>3, <2>2, <2>3
<1>8. ASSUME NEW n \in first .. last + 1
      PROVE  \E i \in DOMAIN r : IsItem(r[i], k) /\ r[i].n = n
  <2>1. CASE n = last + 1
    BY <1>2, <2>1
  <2>2. CASE n # last + 1
    <3>1. n \in first .. last
      BY <1>8, <2>2
    <3>2. PICK i \in DOMAIN q : IsItem(q[i], k) /\ q[i].n = n
      BY <3>1 DEF Carries
    <3>3. QED
      BY <1>1, <3>2
  <2>3. QED
    BY <2>1, <2>2
<1>9. first <= (last + 1) + 1
  BY <1>5
<1>10. Carries(r, k, first, last + 1)
  BY <1>6, <1>7, <1>8, <1>9 DEF Carries
<1>11. QED
  BY <1>10 DEF r

-----------------------------------------------------------------------------
(***************************************************************************)
(* What the invariant says of the steps.                                   *)
(***************************************************************************)

\* What a wire carries, it carries after the step
StillCarries(q, r) ==
  \A k \in Conn, first, last \in Int : Carries(q, k, first, last) => Carries(r, k, first, last)

LEMMA Ends ==
  ASSUME NEW o \in End, NEW t \in End, t = Other(o)
  PROVE  /\ o # t /\ o = Other(t)
         /\ \A e \in End : e = o \/ e = t
BY TwoEnds

\* The requests on the wire, whatever their place.
LEMMA RequestedIs ==
  ASSUME NEW e \in End, NEW k
  PROVE  /\ Requested(e, k) <=> \/ \E m \in FramesOf(wire[e]) : IsRequest(m, k)
                               \/ \E p \in pending[e] : p.conn = k
         /\ Requested(e, k)' <=> \/ \E m \in FramesOf(wire'[e]) : IsRequest(m, k)
                                \/ \E p \in pending'[e] : p.conn = k
BY DEF Requested, FramesOf

\* With no frame in obuf, a write puts the new frames on the wire.
LEMMA WriteIdle ==
  ASSUME TypeOK, \A d \in End : obuf[d] = <<>>,
         NEW w \in [End -> Seq(Frame)], NEW q \in Seq(Frame),
         NEW e \in End, Write(e, w, q)
  PROVE  /\ obuf' = obuf
         /\ wire'[e] = w[e]
         /\ wire'[Other(e)] = IF peer[Other(e)] = "up" THEN w[Other(e)] \o q ELSE <<>>
         /\ \A r \in FramesOf(wire'[Other(e)]) : r \in FramesOf(w[Other(e)]) \cup FramesOf(q)
<1> DEFINE f == Other(e)
<1>1. f \in End /\ f # e
  BY TwoEnds
<1>2. obuf' = [obuf EXCEPT ![e] = <<>>] /\ obuf \in [End -> Seq(Frame)]
  BY DEF Write, TypeOK
<1>3. obuf' = obuf
  BY <1>2
<1>4. w[f] \o obuf[e] \o q = w[f] \o q
  BY <1>1, ConcatEmptySeq
<1>5. wire' = [w EXCEPT ![f] =
                IF peer[f] = "up" THEN w[f] \o obuf[e] \o q ELSE <<>>]
  BY DEF Write
<1>6. FramesOf(w[f] \o q) = FramesOf(w[f]) \cup FramesOf(q)
  BY <1>1, ConcatFrames
<1> HIDE DEF f
<1>7. /\ wire'[e] = w[e]
      /\ wire'[f] = IF peer[f] = "up" THEN w[f] \o q ELSE <<>>
  BY <1>1, <1>4, <1>5
<1>8. FramesOf(<<>>) = {}
  BY FewFrames
<1>9. \A r \in FramesOf(wire'[f]) : r \in FramesOf(w[f]) \cup FramesOf(q)
  BY <1>6, <1>7, <1>8
<1>10. QED
  BY <1>3, <1>7, <1>9 DEF f

LEMMA ArrivedFacts ==
  ASSUME TypeOK, NEW e \in End, NEW cmd, Arrived(e, cmd)
  PROVE  /\ peer[e] = "up" /\ wire[e] \in Seq(Frame) /\ wire[e] # <<>>
         /\ Frame1(e) \in Frame /\ Frame1(e) \in FramesOf(wire[e])
         /\ Frame1(e) = Head(wire[e])
         /\ Frame1(e).cmd = cmd
         /\ Frame1(e).ch \in Byte /\ Frame1(e).ch \in Slot
         /\ Consumed(e) \in [End -> Seq(Frame)]
         /\ Consumed(e)[e] = Tail(wire[e])
         /\ FramesOf(Tail(wire[e])) \subseteq FramesOf(wire[e])
         /\ \A d \in End : d # e => Consumed(e)[d] = wire[d]
<1>1. peer[e] = "up" /\ wire[e] \in Seq(Frame) /\ wire[e] # <<>> /\ Frame1(e).cmd = cmd
  BY DEF Arrived, Frame1, TypeOK
<1>2. Frame1(e) \in Frame /\ Consumed(e) \in [End -> Seq(Frame)]
  BY <1>1, ConsumedType DEF TypeOK
<1>3. Frame1(e).ch \in Byte /\ Frame1(e).ch \in Slot
  BY <1>2, TunnelConstants DEF Frame, Byte, Slot
<1>4. Consumed(e)[e] = Tail(wire[e]) /\ \A d \in End : d # e => Consumed(e)[d] = wire[d]
  BY DEF Consumed, TypeOK
<1>5. Frame1(e) \in FramesOf(wire[e]) /\ FramesOf(Tail(wire[e])) \subseteq FramesOf(wire[e])
  BY <1>1, TailFrames DEF Frame1
<1>6. QED
  BY <1>1, <1>2, <1>3, <1>4, <1>5 DEF Frame1

LEMMA ByteAsByte == ASSUME NEW c \in Byte PROVE AsByte(c) = c
BY TunnelConstants DEF AsByte, Byte

LEMMA FrameFields ==
  /\ \A c, k : /\ NewConnection(c, k).cmd = "NEW_CONNECTION"
               /\ NewConnection(c, k).ch = AsByte(c)
               /\ NewConnection(c, k).conn = k
  /\ \A c : /\ Established(c).cmd = "CONNECTION_ESTABLISHED"
            /\ Established(c).ch = AsByte(c)
  /\ \A c : Failed(c).cmd = "CONNECTION_FAILED" /\ Failed(c).ch = AsByte(c)
  /\ \A c, k, n : /\ Data(c, k, n).cmd = "DATA" /\ Data(c, k, n).ch = AsByte(c)
                  /\ Data(c, k, n).conn = k /\ Data(c, k, n).n = n
BY DEF NewConnection, Established, Failed, Data, Msg

\* Sessions that use a channel at t: asked for, connecting, or connected.
LEMMA SlotFree ==
  ASSUME NEW o \in End, NEW t \in End, t = Other(o), OneWayInv(o, t),
         NEW k \in Conn, client[t][k].state = "NONE", NEW c \in Byte, Uses(t, k, c)
  PROVE  clients[t][c] = None
<1>0. c \in Slot
  BY TunnelConstants DEF Byte, Slot
<1> SUFFICES ASSUME clients[t][c] # None PROVE FALSE
  OBVIOUS
<1> DEFINE j == clients[t][c]
<1>1. j \in Conn /\ Attached(t, j) /\ client[t][j].channel = c
  BY <1>0 DEF OneWayInv, IInv, TypeOK, TableConsistent
<1> HIDE DEF j
<1>2. client[t][j].state = "CONNECTED"
  BY <1>1 DEF OneWayInv, Paired, StatesOf, Attached
<1>3. Uses(t, j, c)
  BY <1>1, <1>2 DEF Uses
<1>4. j = k
  BY <1>1, <1>3 DEF OneWayInv, Paired, UsesAlone
<1>5. QED
  BY <1>2, <1>4

\* With both peers up, the two clients of a connected session are on one channel.
LEMMA SameChannel ==
  ASSUME NEW o \in End, NEW t \in End, t = Other(o), OneWayInv(o, t),
         NEW k \in Conn, client[t][k].state # "NONE", peer[t] = "up"
  PROVE  /\ client[t][k].state = "CONNECTED"
         /\ client[t][k].channel \in Byte /\ client[t][k].channel # 0
         /\ Uses(t, k, client[t][k].channel)
         /\ clients[t][client[t][k].channel] = k
         /\ peer[o] = "up" => /\ clients[o][client[t][k].channel] = k
                              /\ Attached(o, k)
                              /\ client[o][k].channel = client[t][k].channel
<1> DEFINE c == client[t][k].channel
<1>1. client[t][k].state = "CONNECTED"
  BY DEF OneWayInv, Paired, StatesOf
<1>2. Attached(t, k)
  BY <1>1 DEF Attached
<1>3. c \in Byte /\ c # 0 /\ clients[t][c] = k
  BY <1>2 DEF OneWayInv, Paired, ChannelsFit, ClientOwnsSlot
<1>4. Uses(t, k, c)
  BY <1>1 DEF Uses
<1>5. peer[o] = "up" => clients[o][c] = k
  BY <1>3, <1>4 DEF OneWayInv, Paired, UsesAlone
<1>6. c \in Slot /\ k # None
  BY <1>3, TunnelConstants DEF Byte, Slot
<1>7. peer[o] = "up" => Attached(o, k) /\ client[o][k].channel = c
  BY <1>5, <1>6 DEF OneWayInv, IInv, TableConsistent
<1>8. QED
  BY <1>1, <1>3, <1>4, <1>5, <1>7

\* The order of the items survives a step that hands nothing over.
LEMMA OrderKept ==
  ASSUME NEW o \in End, NEW t \in End, t = Other(o), TypeOK, InOrder(o),
         rcvd' = rcvd, sent' = sent,
         \A e \in End : peer'[e] = "up" => peer[e] = "up" /\ StillCarries(wire[e], wire'[e]),
         \A k \in Conn : client'[t][k].state = "NONE" <=> client[t][k].state = "NONE"
  PROVE  InOrder(o)'
<1> SUFFICES ASSUME NEW e \in End, NEW k \in Conn, peer'[e] = "up"
             PROVE  Carries(wire'[e], k, First(o, e, k)', Last(o, e, k)')
  BY DEF InOrder
<1>1. First(o, e, k)' = First(o, e, k) /\ Last(o, e, k)' = Last(o, e, k)
  BY DEF First, Last
<1>2. First(o, e, k) \in Int /\ Last(o, e, k) \in Int
  <2>1. Len(rcvd[e][k]) \in Int
    BY LenProperties DEF TypeOK
  <2>2. sent[Other(e)][k] \in Int
    BY TwoEnds DEF TypeOK
  <2>3. QED
    BY <2>1, <2>2 DEF First, Last
<1>3. Carries(wire[e], k, First(o, e, k), Last(o, e, k))
  BY DEF InOrder
<1>4. QED
  BY <1>1, <1>2, <1>3 DEF StillCarries

LEMMA StillSame == ASSUME NEW q PROVE StillCarries(q, q)
BY DEF StillCarries

LEMMA StillTail ==
  ASSUME NEW q \in Seq(Frame), q # <<>>, Head(q).cmd # "DATA"
  PROVE  StillCarries(q, Tail(q))
BY CarriesTail DEF StillCarries, IsItem

LEMMA StillMore ==
  ASSUME NEW q \in Seq(Frame), NEW m \in Frame, m.cmd # "DATA"
  PROVE  StillCarries(q, q \o <<m>>)
<1>1. <<m>> \in Seq(Frame)
  OBVIOUS
<1>2. \A k \in Conn, r \in FramesOf(<<m>>) : ~IsItem(r, k)
  BY FewFrames DEF IsItem
<1>3. QED
  BY <1>1, <1>2, CarriesMore DEF StillCarries

-----------------------------------------------------------------------------
(***************************************************************************)
(* The steps, one lemma each.                                              *)
(***************************************************************************)

\* connect_peer: a channel that no session uses is taken at o.
LEMMA RequestKeeps ==
  ASSUME NEW o \in End, NEW t \in End, t = Other(o), OneWay(o), OneWayInv(o, t),
         NEW k \in Conn, RequestConnect(k)
  PROVE  /\ Paired(o, t)' /\ client'[t] = client[t] /\ client'[o][k].state = "CONNECTING"
         /\ \A j \in Conn : j # k => client'[o][j] = client[o][j]
         /\ \A j : Requested(t, j)' <=> Requested(t, j) \/ (j = k /\ peer[t] = "up")
<1> USE TunnelConstants
<1>1. Origin[k] = o /\ TypeOK /\ Paired(o, t)
  BY DEF OneWay, OneWayInv, IInv
<1>2. PICK c \in Slot :
        /\ FirstFree(clients[o], 1, c) /\ c <= MaxChannel
        /\ Write(o, wire, <<NewConnection(c, k)>>)
        /\ clients' = [clients EXCEPT ![o][c] = k]
        /\ client' = [client EXCEPT ![o][k] =
              [state |-> "CONNECTING", channel |-> c, ignored |-> TRUE]]
  BY <1>1 DEF RequestConnect
<1>3. peer[o] = "up" /\ peer' = peer /\ pending' = pending /\ timers' = timers
      /\ sent' = sent /\ rcvd' = rcvd
  BY <1>1 DEF RequestConnect
<1>4. c \in Byte /\ c # 0 /\ clients[o][c] = None /\ AsByte(c) = c
  BY <1>2, ByteAsByte DEF FirstFree, Slot, Byte
<1> DEFINE m == NewConnection(c, k)
<1>5. m \in Frame /\ m.cmd = "NEW_CONNECTION" /\ m.conn = k /\ m.ch = c
  <2>1. c \in Int
    BY DEF Slot
  <2>2. m \in Frame
    BY <2>1, FramesAreFrames
  <2>3. QED
    BY <1>4, <2>2, FrameFields
<1> HIDE DEF m
<1>6. o # t /\ o = Other(t) /\ \A e \in End : e = o \/ e = t
  BY Ends
<1>7. /\ obuf' = obuf /\ wire'[o] = wire[o]
      /\ wire'[t] = IF peer[t] = "up" THEN wire[t] \o <<m>> ELSE <<>>
      /\ \A r \in FramesOf(wire'[t]) : r \in FramesOf(wire[t]) \/ r = m
  <2> DEFINE q == <<m>>
  <2>1. Write(o, wire, q) /\ q \in Seq(Frame) /\ FramesOf(q) = {m}
    BY <1>2, <1>5, FewFrames DEF m
  <2> HIDE DEF q
  <2>2. TypeOK /\ wire \in [End -> Seq(Frame)] /\ \A d \in End : obuf[d] = <<>>
    BY <1>1 DEF TypeOK, Paired, Idle
  <2>3. /\ obuf' = obuf /\ wire'[o] = wire[o]
        /\ wire'[t] = IF peer[t] = "up" THEN wire[t] \o q ELSE <<>>
        /\ \A r \in FramesOf(wire'[t]) : r \in FramesOf(wire[t]) \cup FramesOf(q)
    BY <2>1, <2>2, WriteIdle
  <2>4. QED
    BY <2>1, <2>3 DEF q
<1>8. wire[t] \in Seq(Frame)
  BY <1>1 DEF TypeOK
<1>9. \A r \in FramesOf(wire'[t]) : r \in FramesOf(wire[t]) \/ r = m
  BY <1>7
<1>10. /\ clients'[t] = clients[t] /\ clients'[o][c] = k
       /\ \A d \in Slot : d # c => clients'[o][d] = clients[o][d]
  BY <1>1, <1>2, <1>6 DEF TypeOK
<1>11. /\ client'[t] = client[t]
       /\ client'[o][k].state = "CONNECTING" /\ client'[o][k].channel = c
       /\ \A j \in Conn : j # k => client'[o][j] = client[o][j]
  BY <1>1, <1>2, <1>6 DEF TypeOK
<1>12. \A j \in Conn : ~Uses(t, j, c)
  BY <1>1, <1>3, <1>4 DEF Paired, UsesAlone
<1>13. \A j, d : Uses(t, j, d)' => Uses(t, j, d) \/ (j = k /\ d = c)
  BY <1>3, <1>5, <1>9, <1>11 DEF Uses, IsRequest
<1>14. ClientOwnsSlot'
  <2> SUFFICES ASSUME NEW e \in End, NEW j \in Conn, Attached(e, j)'
               PROVE  clients'[e][client'[e][j].channel] = j
    BY DEF ClientOwnsSlot
  <2>1. CASE e = o /\ j = k
    BY <1>10, <1>11, <2>1
  <2>2. CASE ~(e = o /\ j = k)
    <3>1. client'[e][j] = client[e][j]
      BY <1>6, <1>11, <2>2
    <3>2. Attached(e, j) /\ clients[e][client[e][j].channel] = j /\ client[e][j].channel \in Slot
      BY <1>1, <3>1 DEF Attached, Paired, ClientOwnsSlot, ChannelsFit, Slot, Byte
    <3>3. j # None
      OBVIOUS
    <3>4. QED
      BY <1>4, <1>6, <1>10, <3>1, <3>2, <3>3
  <2>3. QED
    BY <2>1, <2>2
<1>15. Idle(o, t)'
  BY <1>1, <1>3, <1>7 DEF Paired, Idle
<1>16. LostIsEmpty'
  BY <1>1, <1>3, <1>6, <1>7, <1>10 DEF Paired, LostIsEmpty
<1>17. StatesOf(o, t)'
  BY <1>1, <1>3, <1>11 DEF Paired, StatesOf
<1>18. ChannelsFit'
  BY <1>1, <1>4, <1>6, <1>11 DEF Paired, ChannelsFit, Attached
<1>19. UsesAlone(o, t)'
  <2> SUFFICES ASSUME NEW j \in Conn, NEW d \in Byte, Uses(t, j, d)'
               PROVE  /\ \A i \in Conn : Uses(t, i, d)' => i = j
                      /\ clients'[o][d] = j
    BY DEF UsesAlone
  <2>1. d \in Slot
    BY DEF Byte, Slot
  <2>2. CASE d = c
    BY <1>10, <1>12, <1>13, <2>2
  <2>3. CASE d # c
    BY <1>1, <1>3, <1>10, <1>13, <2>1, <2>3 DEF Paired, UsesAlone
  <2>4. QED
    BY <2>2, <2>3
<1>20. Answers(o, t)'
  <2>1. FailsAlone(wire'[o])
    BY <1>1, <1>7 DEF Paired, Answers
  <2>2. ASSUME NEW r \in FramesOf(wire'[o]) PROVE IsAnswer(o, t, r)'
    <3>1. IsAnswer(o, t, r) /\ r.ch \in Slot
      <4>1. r \in FramesOf(wire[o]) /\ wire[o] \in Seq(Frame)
        BY <1>1, <1>7 DEF TypeOK
      <4>2. r \in Frame
        BY <4>1, SeqFacts
      <4>3. QED
        BY <1>1, <4>1, <4>2 DEF Paired, Answers, Frame, Byte, Slot
    <3>2. r.ch # c
      BY <1>4, <3>1 DEF IsAnswer
    <3>3. clients'[o][r.ch] = clients[o][r.ch]
      BY <1>10, <3>1, <3>2
    <3>4. \A j \in Conn : Uses(t, j, r.ch)' => Uses(t, j, r.ch)
      BY <1>13, <3>2
    <3>5. QED
      BY <1>11, <3>1, <3>3, <3>4 DEF IsAnswer
  <2>3. QED
    BY <2>1, <2>2 DEF Answers
<1>21. Asks(t)'
  BY <1>1, <1>4, <1>5, <1>9, <1>10 DEF Paired, Asks
<1>22. InOrder(o)'
  <2>1. m.cmd # "DATA"
    BY <1>5
  <2>2. StillCarries(wire[t], wire[t] \o <<m>>)
    BY <1>5, <1>8, <2>1, StillMore
  <2>3. \A e \in End : peer'[e] = "up" => peer[e] = "up" /\ StillCarries(wire[e], wire'[e])
    BY <1>3, <1>6, <1>7, <2>2, StillSame
  <2>4. \A j \in Conn : client'[t][j].state = "NONE" <=> client[t][j].state = "NONE"
    BY <1>11
  <2>5. InOrder(o)
    BY <1>1 DEF Paired
  <2>6. QED
    BY <1>1, <1>3, <2>3, <2>4, <2>5, OrderKept
<1>23. \A j : Requested(t, j)' <=> Requested(t, j) \/ (j = k /\ peer[t] = "up")
  <2>1. CASE peer[t] = "up"
    <3>1. FramesOf(wire'[t]) = FramesOf(wire[t]) \cup {m}
      <4> DEFINE q == <<m>>
      <4>1. q \in Seq(Frame) /\ FramesOf(q) = {m} /\ wire'[t] = wire[t] \o q
        BY <1>5, <1>7, <2>1, FewFrames
      <4> HIDE DEF q
      <4>2. QED
        BY <1>8, <4>1, ConcatFrames
    <3>2. \A j : IsRequest(m, j) <=> j = k
      BY <1>5 DEF IsRequest
    <3>3. QED
      BY <1>3, <2>1, <3>1, <3>2, RequestedIs
  <2>2. CASE peer[t] # "up"
    <3>1. wire'[t] = wire[t]
      BY <1>1, <1>7, <2>2 DEF Paired, LostIsEmpty
    <3>2. QED
      BY <1>3, <2>2, <3>1 DEF Requested
  <2>3. QED
    BY <2>1, <2>2
<1>24. QED
  BY <1>11, <1>23, <1>14, <1>15, <1>16, <1>17, <1>18, <1>19, <1>20, <1>21, <1>22 DEF Paired

\* A request that connect_peer cannot pass on: only that client changes.
LEMMA RefusedKeeps ==
  ASSUME NEW o \in End, NEW t \in End, t = Other(o), OneWay(o), OneWayInv(o, t),
         NEW k \in Conn, RequestRefused(k)
  PROVE  Paired(o, t)'
<1>1. Origin[k] = o /\ TypeOK /\ Paired(o, t)
  BY DEF OneWay, OneWayInv, IInv
<1>2. o # t /\ \A e \in End : e = o \/ e = t
  BY Ends
<1>3. /\ client' = [client EXCEPT ![o][k] = Closed]
      /\ UNCHANGED <<peer, clients, num, pending, timers, obuf, wire, sent, rcvd>>
  BY <1>1 DEF RequestRefused
<1>4. /\ client'[t] = client[t]
      /\ client'[o][k].state = "CLOSED"
      /\ \A j \in Conn : j # k => client'[o][j] = client[o][j]
  BY <1>1, <1>2, <1>3 DEF TypeOK, Closed
<1>5. \A j, d : Uses(t, j, d)' <=> Uses(t, j, d)
  BY <1>3, <1>4 DEF Uses
<1>6. \A e \in End, j \in Conn :
        Attached(e, j)' => Attached(e, j) /\ client'[e][j] = client[e][j]
  BY <1>2, <1>4 DEF Attached
<1>7. ClientOwnsSlot' /\ ChannelsFit'
  BY <1>1, <1>3, <1>6 DEF Paired, ClientOwnsSlot, ChannelsFit
<1>8. Idle(o, t)' /\ LostIsEmpty'
  BY <1>1, <1>3 DEF Paired, Idle, LostIsEmpty
<1>9. StatesOf(o, t)'
  BY <1>1, <1>3, <1>4 DEF Paired, StatesOf
<1>10. UsesAlone(o, t)'
  BY <1>1, <1>3, <1>5 DEF Paired, UsesAlone
<1>11. Answers(o, t)' /\ Asks(t)'
  BY <1>1, <1>3, <1>4, <1>5 DEF Paired, Answers, IsAnswer, Asks
<1>12. InOrder(o)'
  <2>1. InOrder(o)
    BY <1>1 DEF Paired
  <2>2. QED
    BY <1>1, <1>3, <1>4, <2>1, OrderKept, StillSame
<1>13. QED
  BY <1>7, <1>8, <1>9, <1>10, <1>11, <1>12 DEF Paired

\* Bytes from a client: the next item on a channel that both ends agree on.
LEMMA DataKeeps ==
  ASSUME NEW o \in End, NEW t \in End, t = Other(o), OneWay(o), OneWayInv(o, t),
         NEW e \in End, NEW k \in Conn, ClientData(e, k)
  PROVE  /\ Paired(o, t)' /\ client[t][k].state # "NONE"
         /\ \A j : Requested(t, j)' <=> Requested(t, j)
<1> USE TunnelConstants
<1> DEFINE f == Other(e)
           c == client[e][k].channel
           n == sent[e][k] + 1
           m == Data(c, k, n)
           q == <<m>>
<1>1. TypeOK /\ Paired(o, t)
  BY DEF OneWayInv, IInv
<1>2. /\ o # t /\ o = Other(t) /\ \A d \in End : d = o \/ d = t
      /\ f \in End /\ f # e /\ Other(f) = e /\ \A d \in End : d = e \/ d = f
  BY Ends, TwoEnds
<1>3. /\ peer[e] = "up" /\ client[e][k].state = "CONNECTED" /\ sent[e][k] < MaxSend
      /\ sent' = [sent EXCEPT ![e][k] = n] /\ Write(e, wire, q) /\ q = <<m>>
      /\ UNCHANGED <<peer, clients, num, client, pending, timers, rcvd>>
  BY DEF ClientData
<1>4. /\ n \in 0 .. MaxSend /\ n # 0 /\ sent'[e][k] = n
      /\ \A d \in End, j \in Conn : ~(d = e /\ j = k) => sent'[d][j] = sent[d][j]
  <2>1. sent[e][k] \in 0 .. MaxSend
    BY <1>1 DEF TypeOK
  <2>2. n \in 0 .. MaxSend /\ n # 0
    BY <1>3, <2>1
  <2> HIDE DEF n
  <2>3. QED
    BY <1>1, <1>3, <2>2 DEF TypeOK
<1>5. /\ client[t][k].state # "NONE" /\ Attached(e, k)
      /\ c \in Byte /\ c # 0 /\ AsByte(c) = c
  BY <1>1, <1>2, <1>3, ByteAsByte DEF Paired, StatesOf, ChannelsFit, Attached
<1>6. m \in Frame /\ m.cmd = "DATA" /\ m.ch = c /\ m.conn = k /\ m.n = n
  <2>1. c \in Int
    BY <1>5 DEF Byte
  <2>2. QED
    BY <1>4, <1>5, <2>1, FramesAreFrames, FrameFields
<1> HIDE DEF f, c, n, m, q
<1>b. wire[f] \in Seq(Frame) /\ q \in Seq(Frame) /\ FramesOf(q) = {m}
  <2>1. <<m>> \in Seq(Frame) /\ FramesOf(<<m>>) = {m}
    BY <1>6, FewFrames
  <2>2. QED
    BY <1>1, <1>2, <1>3, <2>1 DEF TypeOK
<1>7. /\ obuf' = obuf /\ wire'[e] = wire[e]
      /\ wire'[f] = IF peer[f] = "up" THEN wire[f] \o q ELSE <<>>
      /\ \A r \in FramesOf(wire'[f]) : r \in FramesOf(wire[f]) \/ r = m
  <2>1. TypeOK /\ wire \in [End -> Seq(Frame)] /\ \A d \in End : obuf[d] = <<>>
    BY <1>1 DEF TypeOK, Paired, Idle
  <2>2. Write(e, wire, q) /\ q \in Seq(Frame) /\ f = Other(e)
    BY <1>3, <1>b DEF f
  <2>3. /\ obuf' = obuf /\ wire'[e] = wire[e]
        /\ wire'[f] = IF peer[f] = "up" THEN wire[f] \o q ELSE <<>>
        /\ \A r \in FramesOf(wire'[f]) : r \in FramesOf(wire[f]) \cup FramesOf(q)
    BY <2>1, <2>2, WriteIdle
  <2>4. QED
    BY <1>b, <2>3
<1>a. peer[f] # "up" => wire'[f] = wire[f]
  BY <1>1, <1>2, <1>7 DEF Paired, LostIsEmpty
<1>8. \A j, d : Uses(t, j, d)' => Uses(t, j, d)
  <2>1. \A r \in FramesOf(wire'[t]) : r \in FramesOf(wire[t]) \/ r = m
    BY <1>2, <1>7
  <2>2. \A j : ~IsRequest(m, j)
    BY <1>6 DEF IsRequest
  <2>3. QED
    BY <1>3, <2>1, <2>2 DEF Uses
<1>9. ClientOwnsSlot' /\ ChannelsFit'
  BY <1>1, <1>3 DEF Paired, ClientOwnsSlot, ChannelsFit, Attached
<1>10. Idle(o, t)'
  BY <1>1, <1>3, <1>7 DEF Paired, Idle
<1>11. LostIsEmpty'
  BY <1>1, <1>2, <1>3, <1>7, <1>a DEF Paired, LostIsEmpty
<1>12. StatesOf(o, t)'
  BY <1>1, <1>2, <1>3, <1>4, <1>5 DEF Paired, StatesOf
<1>13. UsesAlone(o, t)'
  BY <1>1, <1>3, <1>8 DEF Paired, UsesAlone
<1>14. e = t => /\ Uses(t, k, c) /\ (peer[o] = "up" => clients[o][c] = k)
  BY <1>1, <1>3, <1>5 DEF Uses, Paired, UsesAlone, c
<1>15. e = o /\ peer[t] = "up" => clients[t][c] = k
  BY <1>3, <1>5, SameChannel DEF c
<1>16. Answers(o, t)'
  <2>1. CASE e = o
    <3>1. wire'[o] = wire[o]
      BY <1>7, <2>1
    <3>2. QED
      BY <1>1, <1>3, <1>8, <3>1 DEF Paired, Answers, IsAnswer
  <2>2. CASE e = t /\ peer[o] # "up"
    <3>1. wire'[o] = wire[o]
      BY <1>2, <1>a, <2>2
    <3>2. QED
      BY <1>1, <1>3, <1>8, <3>1 DEF Paired, Answers, IsAnswer
  <2>3. CASE e = t /\ peer[o] = "up"
    <3>1. f = o /\ wire'[o] = wire[o] \o q
      BY <1>2, <1>7, <2>3
    <3>2. IsAnswer(o, t, m)
      <4>1. clients[o][c] = k /\ k # None
        BY <1>14, <2>3
      <4>2. QED
        BY <1>5, <1>6, <4>1 DEF IsAnswer
    <3>3. \A r \in FramesOf(wire[o]) : IsAnswer(o, t, r)
      BY <1>1 DEF Paired, Answers
    <3>4. \A r \in FramesOf(wire'[o]) : IsAnswer(o, t, r)'
      BY <1>3, <1>7, <1>8, <3>1, <3>2, <3>3 DEF IsAnswer
    <3>5. \A r \in FramesOf(wire[o]) : r.ch = c => r.cmd # "CONNECTION_FAILED"
      BY <1>14, <2>3, <3>3 DEF IsAnswer
    <3>6. FailsAlone(wire[o])
      BY <1>1 DEF Paired, Answers
    <3>7. FailsAlone(q)
      BY <1>3, <1>6 DEF FailsAlone
    <3>8. FailsAlone(wire[o] \o q)
      BY <1>6, <1>b, <3>1, <3>5, <3>6, <3>7, ConcatFails
    <3>9. QED
      BY <3>1, <3>4, <3>8 DEF Answers
  <2>4. QED
    BY <1>2, <2>1, <2>2, <2>3
<1>17. Asks(t)'
  <2>1. CASE e = t
    BY <1>1, <1>3, <1>7, <2>1 DEF Paired, Asks
  <2>2. CASE e = o /\ peer[t] # "up"
    BY <1>1, <1>2, <1>3, <1>a, <2>2 DEF Paired, Asks
  <2>3. CASE e = o /\ peer[t] = "up"
    <3>1. \A r \in FramesOf(wire'[t]) : r \in FramesOf(wire[t]) \/ r = m
      BY <1>2, <1>7, <2>3
    <3>2. clients[t][m.ch] = m.conn /\ m.ch # 0 /\ m.cmd = "DATA"
      BY <1>5, <1>6, <1>15, <2>3
    <3>3. QED
      BY <1>1, <1>3, <3>1, <3>2 DEF Paired, Asks
  <2>4. QED
    BY <1>2, <2>1, <2>2, <2>3
<1>18. InOrder(o)'
  <2> SUFFICES ASSUME NEW d \in End, NEW j \in Conn, peer'[d] = "up"
               PROVE  Carries(wire'[d], j, First(o, d, j)', Last(o, d, j)')
    BY DEF InOrder
  <2>1. Carries(wire[d], j, First(o, d, j), Last(o, d, j)) /\ peer[d] = "up"
    BY <1>1, <1>3 DEF Paired, InOrder
  <2>2. First(o, d, j)' = First(o, d, j)
    BY <1>3 DEF First
  <2>3. First(o, d, j) \in Int /\ Last(o, d, j) \in Int
    <3>1. Len(rcvd[d][j]) \in Int
      BY <1>1, LenProperties DEF TypeOK
    <3>2. sent[Other(d)][j] \in Int
      BY <1>1, TwoEnds DEF TypeOK
    <3>3. QED
      BY <3>1, <3>2 DEF First, Last
  <2>4. CASE d = e
    <3>1. Last(o, d, j)' = Last(o, d, j)
      BY <1>2, <1>3, <1>4, <2>4 DEF Last, f
    <3>2. QED
      BY <1>7, <2>1, <2>2, <2>4, <3>1
  <2>5. CASE d = f /\ j # k
    <3>1. Last(o, d, j)' = Last(o, d, j)
      BY <1>2, <1>3, <1>4, <2>5 DEF Last
    <3>2. \A r \in FramesOf(q) : ~IsItem(r, j)
      BY <1>6, <1>b, <2>5 DEF IsItem
    <3>3. Carries(wire[d] \o q, j, First(o, d, j), Last(o, d, j))
      BY <1>b, <2>1, <2>3, <2>5, <3>2, CarriesMore
    <3>4. QED
      BY <1>7, <2>1, <2>2, <2>5, <3>1, <3>3
  <2>6. CASE d = f /\ j = k
    <3>1. Last(o, d, j)' = n /\ Last(o, d, j) = sent[e][k]
      BY <1>2, <1>3, <1>4, <1>5, <2>6 DEF Last
    <3>2. sent[e][k] \in Int /\ n = sent[e][k] + 1
      BY <2>3, <3>1 DEF n
    <3>3. m.n = Last(o, d, j) + 1 /\ IsItem(m, k)
      BY <1>6, <3>1, <3>2 DEF IsItem
    <3>4. Carries(wire[d] \o <<m>>, k, First(o, d, j), Last(o, d, j) + 1)
      BY <1>6, <1>b, <2>1, <2>3, <2>6, <3>3, CarriesItem
    <3>5. QED
      BY <1>3, <1>7, <2>1, <2>2, <2>6, <3>1, <3>2, <3>4
  <2>7. QED
    BY <1>2, <2>4, <2>5, <2>6
<1>19. \A j : Requested(t, j)' <=> Requested(t, j)
  <2>1. CASE wire'[t] = wire[t]
    BY <1>3, <2>1 DEF Requested
  <2>2. CASE wire'[t] = wire[t] \o q
    <3>1. FramesOf(wire'[t]) = FramesOf(wire[t]) \cup {m}
      <4>1. wire[t] \in Seq(Frame)
        BY <1>1 DEF TypeOK
      <4>2. QED
        BY <1>b, <2>2, <4>1, ConcatFrames
    <3>2. \A j : ~IsRequest(m, j)
      BY <1>6 DEF IsRequest
    <3>3. QED
      BY <1>3, <3>1, <3>2, RequestedIs
  <2>3. QED
    BY <1>2, <1>7, <1>a, <2>1, <2>2
<1>20. QED
  BY <1>5, <1>19, <1>9, <1>10, <1>11, <1>12, <1>13, <1>16, <1>17, <1>18 DEF Paired

\* The callback of connect_to: the session keeps the channel it was asked on.
LEMMA OpenKeeps ==
  ASSUME NEW o \in End, NEW t \in End, t = Other(o), OneWayInv(o, t),
         NEW k \in Conn, NEW c \in Byte, c # 0, Uses(t, k, c),
         client[t][k].state = "NONE", peer[t] = "up",
         NEW cl, cl.state = "CONNECTED", cl.channel = c,
         client' = [client EXCEPT ![t][k] = cl],
         clients' = [clients EXCEPT ![t][c] = k],
         NEW w \in [End -> Seq(Frame)], w[o] = wire[o],
         FramesOf(w[t]) \subseteq FramesOf(wire[t]), StillCarries(wire[t], w[t]),
         Write(t, w, <<Established(c), S5Reply(c, k)>>),
         pending'[t] \subseteq pending[t], pending'[o] = pending[o],
         UNCHANGED <<peer, timers, sent, rcvd>>
  PROVE  Paired(o, t)'
<1> USE TunnelConstants
<1> DEFINE m == Established(c)
           r == S5Reply(c, k)
           q == <<m, r>>
<1>1. TypeOK /\ Paired(o, t)
  BY DEF OneWayInv, IInv
<1>2. o # t /\ o = Other(t) /\ \A d \in End : d = o \/ d = t
  BY Ends
<1>3. AsByte(c) = c /\ c \in Int /\ c \in Slot
  BY ByteAsByte DEF Byte, Slot
<1>4. /\ m \in Frame /\ m.cmd = "CONNECTION_ESTABLISHED" /\ m.ch = c
      /\ r \in Frame /\ r.cmd = "DATA" /\ r.ch = c /\ r.conn = k /\ r.n = 0
  BY <1>3, FramesAreFrames, FrameFields DEF S5Reply
<1>5. q \in Seq(Frame) /\ FramesOf(q) = {m, r} /\ q = <<m>> \o <<r>> /\ Write(t, w, q)
  BY <1>4, FewFrames
<1>6. q[1] = m /\ q[2] = r /\ DOMAIN q = 1 .. 2
  OBVIOUS
<1> HIDE DEF m, r, q
<1>7. /\ obuf' = obuf /\ wire'[t] = w[t]
      /\ wire'[o] = IF peer[o] = "up" THEN wire[o] \o q ELSE <<>>
      /\ \A s \in FramesOf(wire'[o]) : s \in FramesOf(wire[o]) \cup {m, r}
  <2>1. TypeOK /\ w \in [End -> Seq(Frame)] /\ \A d \in End : obuf[d] = <<>>
    BY <1>1 DEF Paired, Idle
  <2>a. Write(t, w, q) /\ q \in Seq(Frame) /\ t \in End
    BY <1>5
  <2>2. /\ obuf' = obuf /\ wire'[t] = w[t]
        /\ wire'[Other(t)] = IF peer[Other(t)] = "up" THEN w[Other(t)] \o q ELSE <<>>
        /\ \A s \in FramesOf(wire'[Other(t)]) : s \in FramesOf(w[Other(t)]) \cup FramesOf(q)
    BY <2>1, <2>a, WriteIdle
  <2>3. QED
    BY <1>2, <1>5, <2>2
<1>8. /\ client'[o] = client[o] /\ client'[t][k] = cl
      /\ \A j \in Conn : j # k => client'[t][j] = client[t][j]
  BY <1>1, <1>2 DEF TypeOK
<1>9. /\ clients'[o] = clients[o] /\ clients'[t][c] = k
      /\ \A d \in Slot : d # c => clients'[t][d] = clients[t][d]
  BY <1>1, <1>2, <1>3 DEF TypeOK
<1>10. clients[t][c] = None
  BY SlotFree
<1>11. \A j, d : Uses(t, j, d)' => Uses(t, j, d)
  BY <1>7, <1>8 DEF Uses
<1>12. \A d \in End, j \in Conn :
         \/ d = t /\ j = k
         \/ client'[d][j] = client[d][j]
  BY <1>2, <1>8
<1>13. ClientOwnsSlot'
  <2> SUFFICES ASSUME NEW e \in End, NEW j \in Conn, Attached(e, j)'
               PROVE  clients'[e][client'[e][j].channel] = j
    BY DEF ClientOwnsSlot
  <2>1. CASE e = t /\ j = k
    BY <1>8, <1>9, <2>1
  <2>2. CASE ~(e = t /\ j = k)
    <3>1. client'[e][j] = client[e][j]
      BY <1>12, <2>2
    <3>2. Attached(e, j) /\ clients[e][client[e][j].channel] = j /\ client[e][j].channel \in Slot
      BY <1>1, <3>1 DEF Attached, Paired, ClientOwnsSlot, ChannelsFit, Slot, Byte
    <3>3. j # None
      OBVIOUS
    <3>4. QED
      BY <1>2, <1>9, <1>10, <3>1, <3>2, <3>3
  <2>3. QED
    BY <2>1, <2>2
<1>14. Idle(o, t)'
  BY <1>1, <1>7 DEF Paired, Idle
<1>15. LostIsEmpty'
  <2>1. peer[o] # "up" => wire'[o] = <<>> /\ \A d \in Slot : clients'[o][d] = None
    BY <1>1, <1>7, <1>9 DEF Paired, LostIsEmpty
  <2>2. QED
    BY <1>2, <2>1 DEF LostIsEmpty
<1>16. StatesOf(o, t)'
  BY <1>1, <1>8 DEF Paired, StatesOf
<1>17. ChannelsFit'
  BY <1>1, <1>8, <1>12 DEF Paired, ChannelsFit, Attached
<1>18. UsesAlone(o, t)'
  BY <1>1, <1>9, <1>11 DEF Paired, UsesAlone
<1>19. peer[o] = "up" => clients[o][c] = k
  BY <1>1 DEF Paired, UsesAlone
<1>20. Answers(o, t)'
  <2>1. \A s \in FramesOf(wire[o]) : IsAnswer(o, t, s)
    BY <1>1 DEF Paired, Answers
  <2>a. \A s : clients[o][s.ch] \in Conn =>
                 (client[t][clients[o][s.ch]].state # "NONE"
                    => client'[t][clients[o][s.ch]].state # "NONE")
    BY <1>8
  <2>b. \A s \in FramesOf(wire[o]) : clients[o][s.ch] \in Conn
    <3>1. \A s \in FramesOf(wire[o]) : s \in Frame
      BY <1>1, SeqFacts DEF TypeOK
    <3>2. \A s \in FramesOf(wire[o]) : s.ch \in Slot
      BY <3>1 DEF Frame, Byte, Slot
    <3>3. clients[o] \in [Slot -> Conn \cup {None}]
      BY <1>1 DEF TypeOK
    <3>4. QED
      BY <2>1, <3>2, <3>3 DEF IsAnswer
  <2>2. \A s \in FramesOf(wire[o]) : IsAnswer(o, t, s)'
    BY <1>9, <1>11, <2>1, <2>a, <2>b DEF IsAnswer
  <2>3. CASE peer[o] # "up"
    <3>1. wire'[o] = wire[o]
      BY <1>1, <1>7, <2>3 DEF Paired, LostIsEmpty
    <3>2. QED
      BY <1>1, <2>2, <3>1 DEF Paired, Answers
  <2>4. CASE peer[o] = "up"
    <3>1. clients[o][c] = k /\ k # None
      BY <1>19, <2>4
    <3>2. IsAnswer(o, t, m)'
      BY <1>4, <1>8, <1>9, <3>1 DEF IsAnswer
    <3>3. IsAnswer(o, t, r)'
      BY <1>4, <1>8, <1>9, <3>1 DEF IsAnswer
    <3>4. \A s \in FramesOf(wire'[o]) : IsAnswer(o, t, s)'
      BY <1>7, <2>2, <3>2, <3>3
    <3>5. \A s \in FramesOf(wire[o]) : s.ch = c => s.cmd # "CONNECTION_FAILED"
      BY <2>1 DEF IsAnswer
    <3>6. FailsAlone(q)
      BY <1>4, <1>6 DEF FailsAlone
    <3>7. FailsAlone(wire[o]) /\ wire[o] \in Seq(Frame)
      BY <1>1 DEF Paired, Answers, TypeOK
    <3>8. FailsAlone(wire[o] \o q)
      BY <1>4, <1>5, <3>5, <3>6, <3>7, ConcatFails
    <3>9. QED
      BY <1>7, <2>4, <3>4, <3>8 DEF Answers
  <2>5. QED
    BY <2>3, <2>4
<1>21. Asks(t)'
  <2>1. \A s \in FramesOf(wire[t]) : s \in Frame
    BY <1>1, SeqFacts DEF TypeOK
  <2>2. \A s \in FramesOf(wire[t]) : s.ch \in Slot /\ (s.cmd = "DATA" => s.conn \in Conn)
    BY <2>1 DEF Frame, Byte, Slot
  <2>3. QED
    BY <1>1, <1>7, <1>9, <1>10, <2>2 DEF Paired, Asks
<1>22. InOrder(o)'
  <2> SUFFICES ASSUME NEW d \in End, NEW j \in Conn, peer'[d] = "up"
               PROVE  Carries(wire'[d], j, First(o, d, j)', Last(o, d, j)')
    BY DEF InOrder
  <2>1. Carries(wire[d], j, First(o, d, j), Last(o, d, j)) /\ peer[d] = "up"
    BY <1>1 DEF Paired, InOrder
  <2>2. First(o, d, j)' = First(o, d, j)
    BY DEF First
  <2>3. First(o, d, j) \in Int /\ Last(o, d, j) \in Int
    <3>1. Len(rcvd[d][j]) \in Int
      BY <1>1, LenProperties DEF TypeOK
    <3>2. sent[Other(d)][j] \in Int
      BY <1>1, TwoEnds DEF TypeOK
    <3>3. QED
      BY <3>1, <3>2 DEF First, Last
  <2>a. wire[o] \in Seq(Frame) /\ <<m>> \in Seq(Frame) /\ <<r>> \in Seq(Frame)
    BY <1>1, <1>4 DEF TypeOK
  <2>4. CASE d = t
    <3>1. Last(o, d, j)' = Last(o, d, j)
      BY <1>2, <2>4 DEF Last
    <3>2. QED
      BY <1>7, <2>1, <2>2, <2>3, <2>4, <3>1 DEF StillCarries
  <2>5. CASE d = o /\ j # k
    <3>1. Last(o, d, j)' = Last(o, d, j)
      BY <1>8, <2>5 DEF Last
    <3>2. \A s \in FramesOf(q) : ~IsItem(s, j)
      BY <1>4, <1>5, <2>5 DEF IsItem
    <3>3. Carries(wire[d] \o q, j, First(o, d, j), Last(o, d, j))
      BY <1>5, <2>1, <2>3, <2>5, <2>a, <3>2, CarriesMore
    <3>4. QED
      BY <1>7, <2>1, <2>2, <2>5, <3>1, <3>3
  <2>6. CASE d = o /\ j = k
    <3>1. sent[t][k] = 0
      BY <1>1 DEF Paired, StatesOf
    <3>2. Last(o, d, j) = -1 /\ Last(o, d, j)' = 0
      BY <1>2, <1>8, <2>6, <3>1 DEF Last
    <3>3. \A s \in FramesOf(<<m>>) : ~IsItem(s, k)
      BY <1>4, FewFrames DEF IsItem
    <3> DEFINE x == wire[o] \o <<m>>
    <3> DEFINE y == <<m>>
               z == <<r>>
               v == wire[o]
    <3>y. v \in Seq(Frame) /\ y \in Seq(Frame) /\ z \in Seq(Frame) /\ q = y \o z
      BY <1>5, <2>a
    <3>4. Carries(x, k, First(o, d, j), -1) /\ x \in Seq(Frame)
      <4>1. Carries(v, k, First(o, d, j), -1) /\ First(o, d, j) \in Int /\ -1 \in Int
        BY <2>1, <2>3, <2>6, <3>2
      <4>2. \A s \in FramesOf(y) : ~IsItem(s, k)
        BY <3>3
      <4> HIDE DEF y, v
      <4>3. Carries(v \o y, k, First(o, d, j), -1)
        BY <3>y, <4>1, <4>2, CarriesMore
      <4>4. v \o y \in Seq(Frame)
        BY <3>y, ConcatFacts
      <4>5. QED
        BY <4>3, <4>4 DEF v, y, x
    <3>5. IsItem(r, k) /\ r.n = -1 + 1 /\ -1 \in Int /\ -1 + 1 = 0
      BY <1>4 DEF IsItem
    <3> HIDE DEF x
    <3>6. Carries(x \o <<r>>, k, First(o, d, j), -1 + 1)
      BY <1>4, <2>3, <3>4, <3>5, CarriesItem
    <3>7. x \o <<r>> = wire[o] \o q
      <4> HIDE DEF y, z, v
      <4>1. (v \o y) \o z = v \o (y \o z)
        BY <3>y, ConcatThree
      <4>2. QED
        BY <3>y, <4>1 DEF x, y, z, v
    <3>8. QED
      BY <1>7, <2>1, <2>2, <2>6, <3>2, <3>5, <3>6, <3>7
  <2>7. QED
    BY <1>2, <2>4, <2>5, <2>6
<1>23. QED
  BY <1>7, <1>8, <1>13, <1>14, <1>15, <1>16, <1>17, <1>18, <1>20, <1>21, <1>22 DEF Paired

\* A connect() that fails frees the channel when the answer is read.
LEMMA RefuseKeeps ==
  ASSUME NEW o \in End, NEW t \in End, t = Other(o), OneWayInv(o, t),
         NEW k \in Conn, NEW c \in Byte, c # 0, Uses(t, k, c), ~Uses(t, k, c)',
         client[t][k].state = "NONE", peer[t] = "up",
         NEW w \in [End -> Seq(Frame)], w[o] = wire[o],
         FramesOf(w[t]) \subseteq FramesOf(wire[t]), StillCarries(wire[t], w[t]),
         Write(t, w, <<Failed(c)>>),
         pending'[t] \subseteq pending[t], pending'[o] = pending[o],
         UNCHANGED <<peer, clients, client, timers, sent, rcvd>>
  PROVE  Paired(o, t)' /\ wire'[t] = w[t]
<1> USE TunnelConstants
<1> DEFINE m == Failed(c)
           q == <<m>>
<1>1. TypeOK /\ Paired(o, t)
  BY DEF OneWayInv, IInv
<1>2. o # t /\ o = Other(t) /\ \A d \in End : d = o \/ d = t
  BY Ends
<1>3. AsByte(c) = c /\ c \in Int /\ c \in Slot
  BY ByteAsByte DEF Byte, Slot
<1>4. m \in Frame /\ m.cmd = "CONNECTION_FAILED" /\ m.ch = c
  BY <1>3, FramesAreFrames, FrameFields
<1>5. q \in Seq(Frame) /\ FramesOf(q) = {m} /\ q = <<m>> /\ Write(t, w, q)
  BY <1>4, FewFrames
<1> HIDE DEF m, q
<1>6. /\ obuf' = obuf /\ wire'[t] = w[t]
      /\ wire'[o] = IF peer[o] = "up" THEN wire[o] \o q ELSE <<>>
      /\ \A s \in FramesOf(wire'[o]) : s \in FramesOf(wire[o]) \cup {m}
  <2>1. TypeOK /\ w \in [End -> Seq(Frame)] /\ \A d \in End : obuf[d] = <<>>
    BY <1>1 DEF Paired, Idle
  <2>a. Write(t, w, q) /\ q \in Seq(Frame) /\ t \in End
    BY <1>5
  <2>2. /\ obuf' = obuf /\ wire'[t] = w[t]
        /\ wire'[Other(t)] = IF peer[Other(t)] = "up" THEN w[Other(t)] \o q ELSE <<>>
        /\ \A s \in FramesOf(wire'[Other(t)]) : s \in FramesOf(w[Other(t)]) \cup FramesOf(q)
    BY <2>1, <2>a, WriteIdle
  <2>3. QED
    BY <1>2, <1>5, <2>2
<1>7. \A j, d : Uses(t, j, d)' => Uses(t, j, d)
  BY <1>6 DEF Uses
<1>8. ClientOwnsSlot' /\ ChannelsFit'
  BY <1>1 DEF Paired, ClientOwnsSlot, ChannelsFit, Attached
<1>9. Idle(o, t)'
  BY <1>1, <1>6 DEF Paired, Idle
<1>10. LostIsEmpty'
  BY <1>1, <1>2, <1>6 DEF Paired, LostIsEmpty
<1>11. StatesOf(o, t)'
  BY <1>1 DEF Paired, StatesOf
<1>12. UsesAlone(o, t)'
  BY <1>1, <1>7 DEF Paired, UsesAlone
<1>13. \A j \in Conn : ~Uses(t, j, c)'
  BY <1>1, <1>7 DEF Paired, UsesAlone
<1>14. Answers(o, t)'
  <2>1. \A s \in FramesOf(wire[o]) : IsAnswer(o, t, s)
    BY <1>1 DEF Paired, Answers
  <2>2. \A s \in FramesOf(wire[o]) : IsAnswer(o, t, s)'
    BY <1>7, <2>1 DEF IsAnswer
  <2>3. CASE peer[o] # "up"
    <3>1. wire'[o] = wire[o]
      BY <1>1, <1>6, <2>3 DEF Paired, LostIsEmpty
    <3>2. QED
      BY <1>1, <2>2, <3>1 DEF Paired, Answers
  <2>4. CASE peer[o] = "up"
    <3>1. clients[o][c] = k /\ k # None
      BY <1>1, <2>4 DEF Paired, UsesAlone
    <3>2. IsAnswer(o, t, m)'
      BY <1>4, <1>13, <3>1 DEF IsAnswer
    <3>3. \A s \in FramesOf(wire'[o]) : IsAnswer(o, t, s)'
      BY <1>6, <2>2, <3>2
    <3>4. \A s \in FramesOf(wire[o]) : s.ch # c
      BY <2>1, <3>1 DEF IsAnswer
    <3>5. FailsAlone(q)
      BY <1>5 DEF FailsAlone
    <3>6. FailsAlone(wire[o]) /\ wire[o] \in Seq(Frame)
      BY <1>1 DEF Paired, Answers, TypeOK
    <3>7. FailsAlone(wire[o] \o q)
      BY <1>4, <1>5, <3>4, <3>5, <3>6, ConcatFails
    <3>8. QED
      BY <1>6, <2>4, <3>3, <3>7 DEF Answers
  <2>5. QED
    BY <2>3, <2>4
<1>15. Asks(t)'
  BY <1>1, <1>6 DEF Paired, Asks
<1>16. InOrder(o)'
  <2>1. m.cmd # "DATA" /\ wire[o] \in Seq(Frame)
    BY <1>1, <1>4 DEF TypeOK
  <2>2. StillCarries(wire[o], wire[o] \o q)
    BY <1>4, <1>5, <2>1, StillMore
  <2>3. \A e \in End : peer'[e] = "up" => peer[e] = "up" /\ StillCarries(wire[e], wire'[e])
    BY <1>2, <1>6, <2>2
  <2>4. InOrder(o)
    BY <1>1 DEF Paired
  <2>5. QED
    BY <1>1, <2>3, <2>4, OrderKept
<1>17. QED
  BY <1>6, <1>8, <1>9, <1>10, <1>11, <1>12, <1>14, <1>15, <1>16 DEF Paired

\* What is asked for at t is not connected, and its channel is right.
LEMMA AskedFor ==
  ASSUME NEW o \in End, NEW t \in End, t = Other(o), OneWayInv(o, t)
  PROVE  /\ \A p \in pending[t] :
              /\ p.conn \in Conn /\ p.req \in Byte /\ p.req # 0 /\ p.ch = p.req
              /\ client[t][p.conn].state = "NONE" /\ Uses(t, p.conn, p.req)
         /\ \A m \in FramesOf(wire[t]) : m.cmd = "NEW_CONNECTION" =>
              /\ m.conn \in Conn /\ m.ch \in Byte /\ m.ch # 0
              /\ client[t][m.conn].state = "NONE" /\ Uses(t, m.conn, m.ch)
<1>1. TypeOK /\ RequestsOnce /\ Idle(o, t) /\ Asks(t)
  BY DEF OneWayInv, IInv, Paired
<1>2. ASSUME NEW p \in pending[t]
      PROVE  /\ p.conn \in Conn /\ p.req \in Byte /\ p.req # 0 /\ p.ch = p.req
             /\ client[t][p.conn].state = "NONE" /\ Uses(t, p.conn, p.req)
  <2>1. p.conn \in Conn /\ p.req \in Byte
    BY <1>1 DEF TypeOK
  <2>2. p.req # 0 /\ p.ch = p.req
    BY <1>1 DEF Idle
  <2>3. Requested(t, p.conn) /\ Uses(t, p.conn, p.req)
    BY DEF Requested, Uses
  <2>4. QED
    BY <1>1, <2>1, <2>2, <2>3 DEF RequestsOnce
<1>3. ASSUME NEW m \in FramesOf(wire[t]), m.cmd = "NEW_CONNECTION"
      PROVE  /\ m.conn \in Conn /\ m.ch \in Byte /\ m.ch # 0
             /\ client[t][m.conn].state = "NONE" /\ Uses(t, m.conn, m.ch)
  <2>1. m \in Frame
    BY <1>1, SeqFacts DEF TypeOK
  <2>2. m.conn \in Conn /\ m.ch \in Byte
    BY <1>3, <2>1 DEF Frame
  <2>3. m.ch # 0
    BY <1>1 DEF Asks
  <2>4. Requested(t, m.conn) /\ Uses(t, m.conn, m.ch)
    BY <1>3 DEF Requested, Uses, IsRequest, FramesOf
  <2>5. QED
    BY <1>1, <2>2, <2>3, <2>4 DEF RequestsOnce
<1>4. QED
  BY <1>2, <1>3

LEMMA SucceedsKeeps ==
  ASSUME NEW o \in End, NEW t \in End, t = Other(o), OneWayInv(o, t),
         NEW e \in End, NEW p \in pending[e], ConnectSucceeds(e, p)
  PROVE  /\ Paired(o, t)' /\ e = t /\ wire'[t] = wire[t] /\ client'[o] = client[o]
         /\ pending'[t] = pending[t] \ {p}
         /\ client'[t][p.conn].state = "CONNECTED"
         /\ \A j \in Conn : j # p.conn => client'[t][j] = client[t][j]
<1>1. TypeOK /\ Idle(o, t)
  BY DEF OneWayInv, IInv, Paired
<1>2. e = t
  BY <1>1, Ends DEF Idle
<1> DEFINE k == p.conn
           c == p.req
           cl == [state   |-> IF c = c THEN "CONNECTED" ELSE "NEED_RENUMBER",
                  channel |-> c,
                  ignored |-> c # c \/ ~TRUE]
<1>3. /\ k \in Conn /\ c \in Byte /\ c # 0 /\ p.ch = c
      /\ client[t][k].state = "NONE" /\ Uses(t, k, c)
  BY <1>2, AskedFor
<1>4. /\ client' = [client EXCEPT ![t][k] = cl]
      /\ clients' = [clients EXCEPT ![t][c] = k]
  BY <1>2, <1>3 DEF ConnectSucceeds, Attach
<1>5. cl.state = "CONNECTED" /\ cl.channel = c
  OBVIOUS
<1>6. Write(t, wire, <<Established(c), S5Reply(c, k)>>)
  BY <1>2, <1>3 DEF ConnectSucceeds, Answer
<1>7. peer[t] = "up" /\ pending'[t] = pending[t] \ {p} /\ pending'[o] = pending[o]
  BY <1>1, <1>2, Ends DEF ConnectSucceeds, TypeOK
<1>a. pending'[t] \subseteq pending[t]
  BY <1>7
<1>8. UNCHANGED <<peer, timers, sent, rcvd>>
  BY DEF ConnectSucceeds
<1>9. wire \in [End -> Seq(Frame)]
  BY <1>1 DEF TypeOK
<1>10. StillCarries(wire[t], wire[t])
  BY StillSame
<1> HIDE DEF k, c, cl
<1>11. Paired(o, t)'
  BY <1>3, <1>4, <1>5, <1>6, <1>7, <1>8, <1>9, <1>10, <1>a, OpenKeeps
<1>b. wire'[t] = wire[t]
  BY <1>6, <1>9, Ends DEF Write
<1>c. /\ client'[o] = client[o] /\ client'[t][k].state = "CONNECTED"
      /\ \A j \in Conn : j # k => client'[t][j] = client[t][j]
  BY <1>1, <1>3, <1>4, <1>5, Ends DEF TypeOK
<1>12. QED
  BY <1>2, <1>7, <1>11, <1>b, <1>c DEF k

\* A request that was not at the other end of the tunnel cannot arrive.
LEMMA RequestsArriveAt ==
  ASSUME NEW o \in End, NEW t \in End, t = Other(o), OneWayInv(o, t),
         NEW e \in End, NEW cmd, Arrived(e, cmd)
  PROVE  /\ e = t => cmd \in {"NEW_CONNECTION", "DATA"}
         /\ e = o => cmd \in {"CONNECTION_ESTABLISHED", "DATA", "CONNECTION_FAILED"}
         /\ Frame1(e).ch # 0
<1>1. TypeOK /\ Answers(o, t) /\ Asks(t)
  BY DEF OneWayInv, IInv, Paired
<1>2. Frame1(e) \in FramesOf(wire[e]) /\ Frame1(e).cmd = cmd
  BY <1>1, ArrivedFacts
<1>3. QED
  BY <1>1, <1>2, Ends DEF Answers, IsAnswer, Asks

\* The first free channel from the one asked for is the one asked for.
LEMMA SearchEndsAtOnce ==
  ASSUME NEW o \in End, NEW t \in End, t = Other(o), OneWayInv(o, t),
         Arrived(t, "NEW_CONNECTION"), NEW c \in Slot, FirstFree(clients[t], Frame1(t).ch, c)
  PROVE  c = Frame1(t).ch
<1> DEFINE m == Frame1(t)
<1>1. m \in FramesOf(wire[t]) /\ m.cmd = "NEW_CONNECTION" /\ m.ch \in Slot /\ m.ch \in Byte
  BY ArrivedFacts DEF OneWayInv, IInv
<1>2. m.conn \in Conn /\ client[t][m.conn].state = "NONE" /\ Uses(t, m.conn, m.ch)
  BY <1>1, AskedFor
<1>3. clients[t][m.ch] = None
  BY <1>1, <1>2, SlotFree
<1>4. m.ch \in Int /\ c \in Int
  BY <1>1 DEF Slot
<1> HIDE DEF m
<1>5. c >= m.ch /\ ~(m.ch < c)
  BY <1>1, <1>3, <1>4 DEF FirstFree, m
<1>6. QED
  BY <1>4, <1>5 DEF m

LEMMA ImmediateKeeps ==
  ASSUME NEW o \in End, NEW t \in End, t = Other(o), OneWayInv(o, t),
         NEW e \in End, RecvNewConnectionImmediate(e)
  PROVE  /\ Paired(o, t)' /\ e = t /\ wire'[t] = Tail(wire[t]) /\ client'[o] = client[o]
         /\ \E k \in Conn :
              /\ k = Frame1(t).conn /\ client'[t][k].state = "CONNECTED"
              /\ \A j \in Conn : j # k => client'[t][j] = client[t][j]
<1>1. TypeOK /\ Arrived(e, "NEW_CONNECTION")
  BY DEF OneWayInv, IInv, RecvNewConnectionImmediate
<1>2. e = t
  BY <1>1, RequestsArriveAt, Ends
<1>k. PICK k, c : k = Frame1(t).conn /\ c = Frame1(t).ch
  OBVIOUS
<1> DEFINE w == Consumed(t)
           cl == [state   |-> IF c = c THEN "CONNECTED" ELSE "NEED_RENUMBER",
                  channel |-> c,
                  ignored |-> c # c \/ ~FALSE]
<1>3. /\ peer[t] = "up" /\ wire[t] \in Seq(Frame) /\ wire[t] # <<>>
      /\ Frame1(t) \in FramesOf(wire[t]) /\ Frame1(t).cmd = "NEW_CONNECTION"
      /\ Frame1(t) = Head(wire[t])
      /\ w \in [End -> Seq(Frame)] /\ w[t] = Tail(wire[t])
      /\ FramesOf(w[t]) \subseteq FramesOf(wire[t])
      /\ w[o] = wire[o]
  BY <1>1, <1>2, ArrivedFacts, Ends
<1>4. /\ k \in Conn /\ c \in Byte /\ c # 0
      /\ client[t][k].state = "NONE" /\ Uses(t, k, c)
  BY <1>3, <1>k, AskedFor
<1>5. PICK d \in Slot :
        /\ FirstFree(clients[t], c, d)
        /\ Attach(t, k, c, d, FALSE)
        /\ Write(t, w, Answer(k, c, d))
  BY <1>2, <1>k DEF RecvNewConnectionImmediate
<1>6. d = c
  BY <1>1, <1>2, <1>5, <1>k, SearchEndsAtOnce
<1>7. /\ client' = [client EXCEPT ![t][k] = cl]
      /\ clients' = [clients EXCEPT ![t][c] = k]
  BY <1>5, <1>6 DEF Attach
<1>8. cl.state = "CONNECTED" /\ cl.channel = c
  OBVIOUS
<1>9. Write(t, w, <<Established(c), S5Reply(c, k)>>)
  BY <1>5, <1>6 DEF Answer
<1>10. UNCHANGED <<peer, pending, timers, sent, rcvd>>
  BY DEF RecvNewConnectionImmediate
<1>11. pending'[t] \subseteq pending[t] /\ pending'[o] = pending[o]
  BY <1>10
<1>12. StillCarries(wire[t], w[t])
  BY <1>3, StillTail
<1> HIDE DEF w, cl
<1>13. Paired(o, t)'
  BY <1>3, <1>4, <1>7, <1>8, <1>9, <1>10, <1>11, <1>12, OpenKeeps
<1>14. wire'[t] = w[t]
  BY <1>3, <1>9, Ends DEF Write
<1>15. /\ client'[o] = client[o] /\ client'[t][k].state = "CONNECTED"
       /\ \A j \in Conn : j # k => client'[t][j] = client[t][j]
  BY <1>1, <1>4, <1>7, <1>8, Ends DEF TypeOK
<1>16. QED
  BY <1>2, <1>3, <1>4, <1>k, <1>13, <1>14, <1>15

\* There is one request, or one connect(), of a session.
LEMMA OneRequest ==
  ASSUME NEW o \in End, NEW t \in End, t = Other(o), OneWayInv(o, t)
  PROVE  /\ \A p \in pending[t] :
              /\ \A q \in pending[t] : q.conn = p.conn => q = p
              /\ \A m \in FramesOf(wire[t]) : ~IsRequest(m, p.conn)
         /\ Arrived(t, "NEW_CONNECTION") =>
              \A m \in FramesOf(Tail(wire[t])) : ~IsRequest(m, Frame1(t).conn)
<1>1. TypeOK /\ RequestsOnce
  BY DEF OneWayInv, IInv
<1>2. ASSUME NEW p \in pending[t]
      PROVE  /\ \A q \in pending[t] : q.conn = p.conn => q = p
             /\ \A m \in FramesOf(wire[t]) : ~IsRequest(m, p.conn)
  BY <1>1 DEF RequestsOnce, FramesOf
<1>3. ASSUME Arrived(t, "NEW_CONNECTION"), NEW m \in FramesOf(Tail(wire[t])),
             IsRequest(m, Frame1(t).conn)
      PROVE  FALSE
  <2>1. /\ wire[t] \in Seq(Frame) /\ wire[t] # <<>>
        /\ Frame1(t) = Head(wire[t]) /\ Frame1(t).cmd = "NEW_CONNECTION"
        /\ Frame1(t) \in Frame
    BY <1>1, <1>3, ArrivedFacts
  <2>2. PICK i \in DOMAIN Tail(wire[t]) : m = Tail(wire[t])[i]
    BY DEF FramesOf
  <2>3. /\ i \in Nat /\ i # 0 /\ i + 1 \in DOMAIN wire[t] /\ m = wire[t][i + 1]
        /\ 1 \in DOMAIN wire[t] /\ wire[t][1] = Frame1(t)
    BY <2>1, <2>2, TailFacts
  <2>4. Frame1(t).conn \in Conn
    BY <2>1 DEF Frame
  <2>5. IsRequest(wire[t][i + 1], Frame1(t).conn) /\ IsRequest(wire[t][1], Frame1(t).conn)
    BY <1>3, <2>1, <2>3 DEF IsRequest
  <2>6. i + 1 = 1
    BY <1>1, <2>3, <2>4, <2>5 DEF RequestsOnce
  <2>7. QED
    BY <2>3, <2>6
<1>4. QED
  BY <1>2, <1>3

LEMMA FailsKeeps ==
  ASSUME NEW o \in End, NEW t \in End, t = Other(o), OneWayInv(o, t),
         NEW e \in End, NEW p \in pending[e], ConnectFails(e, p)
  PROVE  /\ Paired(o, t)' /\ e = t /\ wire'[t] = wire[t]
         /\ pending'[t] = pending[t] \ {p}
<1>1. TypeOK /\ Idle(o, t)
  BY DEF OneWayInv, IInv, Paired
<1>2. e = t
  BY <1>1, Ends DEF Idle
<1> DEFINE k == p.conn
           c == p.req
           q == <<Failed(c)>>
<1>3. /\ k \in Conn /\ c \in Byte /\ c # 0
      /\ client[t][k].state = "NONE" /\ Uses(t, k, c)
  BY <1>2, AskedFor
<1>4. peer[t] = "up" /\ pending' = [pending EXCEPT ![t] = @ \ {p}] /\ Write(t, wire, q)
  BY <1>2 DEF ConnectFails
<1>5. UNCHANGED <<peer, clients, client, timers, sent, rcvd>>
  BY DEF ConnectFails
<1>6. pending'[t] = pending[t] \ {p} /\ pending'[o] = pending[o]
  BY <1>1, <1>4, Ends DEF TypeOK
<1>7. wire \in [End -> Seq(Frame)] /\ StillCarries(wire[t], wire[t])
  BY <1>1, StillSame DEF TypeOK
<1>8. wire'[t] = wire[t]
  <2>1. c \in Int
    BY <1>3 DEF Byte
  <2>2. Failed(c) \in Frame
    BY <2>1, FramesAreFrames
  <2>3. q \in Seq(Frame) /\ Write(t, wire, q)
    BY <1>4, <2>2
  <2>4. TypeOK /\ \A d \in End : obuf[d] = <<>>
    BY <1>1 DEF Idle
  <2> HIDE DEF q
  <2>5. QED
    BY <1>7, <2>3, <2>4, WriteIdle
<1>9. ~Uses(t, k, c)'
  <2>1. \A m \in FramesOf(wire'[t]) : ~IsRequest(m, k)
    BY <1>2, <1>8, OneRequest
  <2>2. \A r \in pending'[t] : r.conn # k
    BY <1>2, <1>6, OneRequest
  <2>3. client'[t][k].state # "CONNECTED"
    BY <1>3, <1>5
  <2>4. QED
    BY <2>1, <2>2, <2>3 DEF Uses
<1>10. pending'[t] \subseteq pending[t]
  BY <1>6
<1>11. Write(t, wire, <<Failed(c)>>)
  BY <1>4
<1> HIDE DEF k, c, q
<1>12. Paired(o, t)'
  BY <1>3, <1>4, <1>5, <1>6, <1>7, <1>9, <1>10, <1>11, RefuseKeeps
<1>13. QED
  BY <1>2, <1>6, <1>8, <1>12

LEMMA NewRefusedKeeps ==
  ASSUME NEW o \in End, NEW t \in End, t = Other(o), OneWayInv(o, t),
         NEW e \in End, RecvNewConnectionRefused(e)
  PROVE  Paired(o, t)' /\ e = t /\ wire'[t] = Tail(wire[t])
<1>1. TypeOK /\ Idle(o, t) /\ Arrived(e, "NEW_CONNECTION")
  BY DEF OneWayInv, IInv, Paired, RecvNewConnectionRefused
<1>2. e = t
  BY <1>1, RequestsArriveAt, Ends
<1>k. PICK k, c : k = Frame1(t).conn /\ c = Frame1(t).ch
  OBVIOUS
<1> DEFINE q == <<Failed(c)>>
           w == Consumed(t)
<1>3. /\ peer[t] = "up" /\ wire[t] \in Seq(Frame) /\ wire[t] # <<>>
      /\ Frame1(t) \in FramesOf(wire[t]) /\ Frame1(t).cmd = "NEW_CONNECTION"
      /\ Frame1(t) = Head(wire[t])
      /\ w \in [End -> Seq(Frame)] /\ w[t] = Tail(wire[t])
      /\ FramesOf(w[t]) \subseteq FramesOf(wire[t])
      /\ w[o] = wire[o]
  BY <1>1, <1>2, ArrivedFacts, Ends
<1>4. /\ k \in Conn /\ c \in Byte /\ c # 0
      /\ client[t][k].state = "NONE" /\ Uses(t, k, c)
  BY <1>3, <1>k, AskedFor
<1>5. Write(t, w, q)
  BY <1>2, <1>k DEF RecvNewConnectionRefused
<1>6. UNCHANGED <<peer, clients, client, pending, timers, sent, rcvd>>
  BY DEF RecvNewConnectionRefused
<1>7. pending'[t] \subseteq pending[t] /\ pending'[o] = pending[o]
  BY <1>6
<1>8. StillCarries(wire[t], w[t])
  BY <1>3, StillTail
<1>9. wire'[t] = w[t]
  <2>1. c \in Int
    BY <1>4 DEF Byte
  <2>2. Failed(c) \in Frame
    BY <2>1, FramesAreFrames
  <2>3. q \in Seq(Frame) /\ Write(t, w, q) /\ w \in [End -> Seq(Frame)]
    BY <1>3, <1>5, <2>2
  <2>4. TypeOK /\ \A d \in End : obuf[d] = <<>>
    BY <1>1 DEF Idle
  <2> HIDE DEF q, w
  <2>5. QED
    BY <2>3, <2>4, WriteIdle
<1>10. ~Uses(t, k, c)'
  <2>1. \A m \in FramesOf(wire'[t]) : ~IsRequest(m, k)
    BY <1>1, <1>2, <1>3, <1>9, <1>k, OneRequest
  <2>2. \A r \in pending'[t] : r.conn # k
    <3>1. IsRequest(Frame1(t), k)
      BY <1>3, <1>k DEF IsRequest
    <3>2. ASSUME NEW r \in pending[t], r.conn = k PROVE FALSE
      <4>1. ~IsRequest(Frame1(t), r.conn)
        BY <1>3, OneRequest
      <4>2. QED
        BY <3>1, <3>2, <4>1
    <3>3. QED
      BY <1>6, <3>2
  <2>3. client'[t][k].state # "CONNECTED"
    BY <1>4, <1>6
  <2>4. QED
    BY <2>1, <2>2, <2>3 DEF Uses
<1>11. Write(t, w, <<Failed(c)>>)
  BY <1>5
<1>12. wire'[t] = Tail(wire[t])
  BY <1>3, <1>9
<1> HIDE DEF q, w
<1>13. Paired(o, t)'
  BY <1>3, <1>4, <1>6, <1>7, <1>8, <1>10, <1>11, RefuseKeeps
<1>14. QED
  BY <1>2, <1>12, <1>13

\* A connect() that has not ended: the request goes on as a pending call.
LEMMA NewKeeps ==
  ASSUME NEW o \in End, NEW t \in End, t = Other(o), OneWayInv(o, t),
         NEW e \in End, RecvNewConnection(e)
  PROVE  /\ Paired(o, t)' /\ e = t /\ wire'[t] = Tail(wire[t])
         /\ \E p : p.conn = Frame1(t).conn /\ pending'[t] = pending[t] \cup {p}
<1>1. TypeOK /\ Paired(o, t) /\ Arrived(e, "NEW_CONNECTION")
  BY DEF OneWayInv, IInv, RecvNewConnection
<1>2. e = t /\ o # t /\ \A d \in End : d = o \/ d = t
  BY <1>1, RequestsArriveAt, Ends
<1> DEFINE m == Frame1(t)
           k == m.conn
           c == m.ch
           p == [conn |-> k, req |-> c, ch |-> c]
<1>3. /\ peer[t] = "up" /\ wire[t] \in Seq(Frame) /\ wire[t] # <<>>
      /\ m \in FramesOf(wire[t]) /\ m.cmd = "NEW_CONNECTION" /\ m = Head(wire[t])
      /\ FramesOf(Tail(wire[t])) \subseteq FramesOf(wire[t])
      /\ Consumed(t)[t] = Tail(wire[t]) /\ Consumed(t)[o] = wire[o]
  BY <1>1, <1>2, ArrivedFacts
<1>4. k \in Conn /\ c \in Byte /\ c # 0 /\ Uses(t, k, c)
  BY <1>3, AskedFor
<1>5. PICK d \in Slot :
        /\ FirstFree(clients[t], c, d)
        /\ pending' = [pending EXCEPT ![t] = @ \cup
             {[conn |-> k, req |-> c, ch |-> d]}]
  BY <1>2 DEF RecvNewConnection
<1>6. d = c
  BY <1>1, <1>2, <1>5, SearchEndsAtOnce
<1>7. pending'[t] = pending[t] \cup {p} /\ pending'[o] = pending[o]
  BY <1>1, <1>2, <1>5, <1>6 DEF TypeOK
<1>8. /\ wire'[t] = Tail(wire[t]) /\ wire'[o] = wire[o]
      /\ UNCHANGED <<peer, clients, client, obuf, timers, sent, rcvd>>
  BY <1>2, <1>3 DEF RecvNewConnection, Consume
<1>9. p.conn = k /\ p.req = c /\ p.ch = c
  OBVIOUS
<1> HIDE DEF m, k, c, p
<1>10. \A j, f : Uses(t, j, f)' => Uses(t, j, f)
  BY <1>3, <1>4, <1>7, <1>8, <1>9 DEF Uses
<1>11. ClientOwnsSlot' /\ ChannelsFit' /\ StatesOf(o, t)'
  BY <1>1, <1>8 DEF Paired, ClientOwnsSlot, ChannelsFit, Attached, StatesOf
<1>12. Idle(o, t)'
  BY <1>1, <1>4, <1>7, <1>8, <1>9 DEF Paired, Idle
<1>13. LostIsEmpty'
  BY <1>1, <1>2, <1>3, <1>8 DEF Paired, LostIsEmpty
<1>14. UsesAlone(o, t)'
  BY <1>1, <1>8, <1>10 DEF Paired, UsesAlone
<1>15. Answers(o, t)'
  BY <1>1, <1>8, <1>10 DEF Paired, Answers, IsAnswer
<1>16. Asks(t)'
  BY <1>1, <1>3, <1>8 DEF Paired, Asks
<1>17. InOrder(o)'
  <2>1. StillCarries(wire[t], wire'[t])
    BY <1>3, <1>8, StillTail
  <2>2. \A f \in End : peer'[f] = "up" => peer[f] = "up" /\ StillCarries(wire[f], wire'[f])
    BY <1>2, <1>8, <2>1, StillSame
  <2>3. InOrder(o)
    BY <1>1 DEF Paired
  <2>4. QED
    BY <1>1, <1>8, <2>2, <2>3, OrderKept
<1>18. Paired(o, t)'
  BY <1>11, <1>12, <1>13, <1>14, <1>15, <1>16, <1>17 DEF Paired
<1>19. QED
  BY <1>2, <1>7, <1>8, <1>9, <1>18 DEF m, k

\* The client changes at most from waiting for its connection to having it
OnlyConnects(o, k) ==
  \/ client'[o][k] = client[o][k]
  \/ Attached(o, k) /\ client'[o][k].state = "CONNECTED"

\* An answer or bytes read at o: its client becomes connected.
LEMMA AnswerKeeps ==
  ASSUME NEW o \in End, NEW t \in End, t = Other(o), OneWayInv(o, t),
         NEW cmd, Arrived(o, cmd), cmd # "CONNECTION_FAILED",
         NEW k, k = clients[o][Frame1(o).ch],
         \/ client' = client
         \/ client' = [client EXCEPT ![o][k] = Connected(@)],
         wire' = Consumed(o), sent' = sent,
         UNCHANGED <<peer, clients, pending, timers, obuf>>
  PROVE  /\ InOrder(o)' => Paired(o, t)'
         /\ client'[t] = client[t]
         /\ k \in Conn /\ Attached(o, k) /\ client[t][k].state # "NONE"
<1>1. TypeOK /\ Paired(o, t) /\ TableConsistent
  BY DEF OneWayInv, IInv
<1>2. o # t /\ \A d \in End : d = o \/ d = t
  BY Ends
<1> DEFINE c == Frame1(o).ch
<1>3. /\ peer[o] = "up" /\ wire[o] \in Seq(Frame) /\ wire[o] # <<>>
      /\ Frame1(o) \in FramesOf(wire[o]) /\ Frame1(o).cmd = cmd /\ c \in Slot
      /\ FramesOf(Tail(wire[o])) \subseteq FramesOf(wire[o])
      /\ wire'[o] = Tail(wire[o]) /\ wire'[t] = wire[t]
  BY <1>1, <1>2, ArrivedFacts
<1>4. IsAnswer(o, t, Frame1(o))
  BY <1>1, <1>3 DEF Paired, Answers
<1>5. k \in Conn /\ k # None /\ Attached(o, k) /\ client[t][k].state # "NONE"
  <2>1. k # None /\ client[t][k].state # "NONE"
    BY <1>3, <1>4 DEF IsAnswer
  <2>2. clients[o] \in [Slot -> Conn \cup {None}]
    BY <1>1 DEF TypeOK
  <2>3. QED
    BY <1>1, <1>3, <2>1, <2>2 DEF TableConsistent
<1>6. client \in [End -> [Conn -> Client]]
  BY <1>1 DEF TypeOK
<1>7. /\ client'[t] = client[t]
      /\ \A j \in Conn : j # k => client'[o][j] = client[o][j]
      /\ client'[o][k].channel = client[o][k].channel
      /\ client'[o][k].state \in {client[o][k].state, "CONNECTED"}
  BY <1>2, <1>5, <1>6 DEF Connected
<1>8. \A e \in End, j \in Conn :
        Attached(e, j)' => Attached(e, j) /\ client'[e][j].channel = client[e][j].channel
  BY <1>2, <1>5, <1>7 DEF Attached
<1>9. \A j, d : Uses(t, j, d)' <=> Uses(t, j, d)
  BY <1>3, <1>7 DEF Uses
<1> HIDE DEF c
<1>10. ClientOwnsSlot' /\ ChannelsFit'
  BY <1>1, <1>8 DEF Paired, ClientOwnsSlot, ChannelsFit
<1>11. Idle(o, t)'
  BY <1>1 DEF Paired, Idle
<1>12. LostIsEmpty'
  BY <1>1, <1>2, <1>3 DEF Paired, LostIsEmpty
<1>13. StatesOf(o, t)'
  BY <1>1, <1>5, <1>7 DEF Paired, StatesOf
<1>14. UsesAlone(o, t)'
  BY <1>1, <1>9 DEF Paired, UsesAlone
<1>15. Answers(o, t)'
  <2>1. FailsAlone(Tail(wire[o]))
    BY <1>1, <1>3, TailFails DEF Paired, Answers
  <2>2. \A m \in FramesOf(wire'[o]) : IsAnswer(o, t, m)'
    BY <1>1, <1>3, <1>7, <1>9 DEF Paired, Answers, IsAnswer
  <2>3. QED
    BY <1>3, <2>1, <2>2 DEF Answers
<1>16. Asks(t)'
  BY <1>1, <1>3 DEF Paired, Asks
<1>17. InOrder(o)' => Paired(o, t)'
  BY <1>10, <1>11, <1>12, <1>13, <1>14, <1>15, <1>16 DEF Paired
<1>18. QED
  BY <1>5, <1>7, <1>17

LEMMA EstablishedKeeps ==
  ASSUME NEW o \in End, NEW t \in End, t = Other(o), OneWayInv(o, t),
         NEW e \in End, RecvEstablished(e)
  PROVE  /\ Paired(o, t)' /\ e = o
         /\ wire'[t] = wire[t] /\ client'[t] = client[t]
         /\ \A k \in Conn : OnlyConnects(o, k)
<1>1. TypeOK /\ TableConsistent /\ Paired(o, t) /\ Arrived(e, "CONNECTION_ESTABLISHED")
  BY DEF OneWayInv, IInv, RecvEstablished
<1>2. e = o /\ o # t /\ \A d \in End : d = o \/ d = t
  BY <1>1, RequestsArriveAt, Ends
<1> DEFINE c == Frame1(o).ch
           k == clients[o][c]
<1>3. /\ peer[o] = "up" /\ wire[o] \in Seq(Frame) /\ wire[o] # <<>>
      /\ Frame1(o) \in FramesOf(wire[o]) /\ Frame1(o) = Head(wire[o])
      /\ Frame1(o).cmd = "CONNECTION_ESTABLISHED" /\ c \in Slot
      /\ Consumed(o)[o] = Tail(wire[o]) /\ Consumed(o)[t] = wire[t]
  BY <1>1, <1>2, ArrivedFacts
<1>4. k # None
  BY <1>1, <1>3 DEF Paired, Answers, IsAnswer
<1>5. k \in Conn
  BY <1>1, <1>3, <1>4 DEF TypeOK
<1>6. client[o][k].state # "NEED_RENUMBER"
  BY <1>1, <1>5 DEF Paired, StatesOf
<1>7. /\ client' = [client EXCEPT ![o][k] = Connected(@)]
      /\ obuf' = obuf /\ wire' = Consumed(o)
      /\ UNCHANGED <<peer, clients, pending, timers, sent, rcvd>>
  BY <1>2, <1>4, <1>6 DEF RecvEstablished
<1>8. InOrder(o)' => Paired(o, t)'
  BY <1>1, <1>2, <1>7, AnswerKeeps
<1>9. client'[t] = client[t] /\ \A j \in Conn : OnlyConnects(o, j)
  <2>1. Attached(o, k)
    BY <1>1, <1>3, <1>4 DEF TableConsistent
  <2>2. QED
    BY <1>1, <1>2, <1>7, <2>1 DEF TypeOK, Connected, OnlyConnects
<1>10. InOrder(o)'
  <2>1. StillCarries(wire[o], wire'[o])
    BY <1>3, <1>7, StillTail
  <2>2. \A f \in End : peer'[f] = "up" => peer[f] = "up" /\ StillCarries(wire[f], wire'[f])
    BY <1>2, <1>3, <1>7, <2>1, StillSame
  <2>3. InOrder(o)
    BY <1>1 DEF Paired
  <2>4. QED
    BY <1>1, <1>7, <1>9, <2>2, <2>3, OrderKept
<1>11. QED
  BY <1>2, <1>3, <1>7, <1>8, <1>9, <1>10

\* CONNECTION_FAILED: the client goes, and with it the last that was said of
\* its channel.
LEMMA FailedKeeps ==
  ASSUME NEW o \in End, NEW t \in End, t = Other(o), OneWayInv(o, t),
         NEW e \in End, RecvFailedOrEof(e)
  PROVE  /\ Paired(o, t)' /\ e = o
         /\ wire'[t] = wire[t] /\ client'[t] = client[t]
         /\ \A k \in Conn : client'[o][k] \in {client[o][k], Closed}
<1>1. TypeOK /\ Paired(o, t) /\ TableConsistent
  BY DEF OneWayInv, IInv
<1>2. e = o /\ o # t /\ (\A d \in End : d = o \/ d = t) /\ Arrived(o, "CONNECTION_FAILED")
  <2>1. Arrived(e, "CONNECTION_FAILED") \/ Arrived(e, "EOF")
    BY DEF RecvFailedOrEof
  <2>2. ~Arrived(e, "EOF") /\ (Arrived(e, "CONNECTION_FAILED") => e = o)
    BY RequestsArriveAt, Ends
  <2>3. QED
    BY <2>1, <2>2, Ends
<1> DEFINE c == Frame1(o).ch
           k == clients[o][c]
<1>3. /\ peer[o] = "up" /\ wire[o] \in Seq(Frame) /\ wire[o] # <<>>
      /\ Frame1(o) \in FramesOf(wire[o]) /\ Frame1(o) = Head(wire[o])
      /\ Frame1(o).cmd = "CONNECTION_FAILED" /\ c \in Slot
      /\ FramesOf(Tail(wire[o])) \subseteq FramesOf(wire[o])
      /\ Consumed(o)[o] = Tail(wire[o]) /\ Consumed(o)[t] = wire[t]
  BY <1>1, <1>2, ArrivedFacts
<1>4. IsAnswer(o, t, Frame1(o))
  BY <1>1, <1>3 DEF Paired, Answers
<1>5. k # None /\ \A j \in Conn : ~Uses(t, j, c)
  BY <1>3, <1>4 DEF IsAnswer
<1>6. k \in Conn /\ client[o][k].channel = c
  <2>1. clients[o] \in [Slot -> Conn \cup {None}]
    BY <1>1 DEF TypeOK
  <2>2. QED
    BY <1>1, <1>3, <1>5, <2>1 DEF TableConsistent
<1>7. /\ client' = [client EXCEPT ![o][k] = Closed]
      /\ clients' = [clients EXCEPT ![o][c] = None]
      /\ obuf' = obuf /\ wire' = Consumed(o)
      /\ UNCHANGED <<peer, pending, timers, sent, rcvd>>
  BY <1>2, <1>5 DEF RecvFailedOrEof, Drop, Consume
<1>8. /\ client'[t] = client[t] /\ client'[o][k] = Closed
      /\ \A j \in Conn : j # k => client'[o][j] = client[o][j]
  BY <1>1, <1>2, <1>6, <1>7 DEF TypeOK
<1>9. /\ clients'[t] = clients[t] /\ clients'[o][c] = None
      /\ \A d \in Slot : d # c => clients'[o][d] = clients[o][d]
  BY <1>1, <1>2, <1>3, <1>7 DEF TypeOK
<1>10. wire'[o] = Tail(wire[o]) /\ wire'[t] = wire[t]
  BY <1>3, <1>7
<1> HIDE DEF c, k
<1>11. \A j, d : Uses(t, j, d)' <=> Uses(t, j, d)
  BY <1>7, <1>8, <1>10 DEF Uses
<1>12. \A d \in End, j \in Conn :
         Attached(d, j)' => Attached(d, j) /\ client'[d][j] = client[d][j] /\ ~(d = o /\ j = k)
  <2>1. Closed.state = "CLOSED"
    BY DEF Closed
  <2>2. QED
    BY <1>2, <1>8, <2>1 DEF Attached
<1>13. ChannelsFit'
  BY <1>1, <1>12 DEF Paired, ChannelsFit
<1>14. ClientOwnsSlot'
  <2> SUFFICES ASSUME NEW d \in End, NEW j \in Conn, Attached(d, j)'
               PROVE  clients'[d][client'[d][j].channel] = j
    BY DEF ClientOwnsSlot
  <2>1. Attached(d, j) /\ client'[d][j] = client[d][j] /\ ~(d = o /\ j = k)
    BY <1>12
  <2>2. clients[d][client[d][j].channel] = j /\ client[d][j].channel \in Slot
    BY <1>1, <2>1, TunnelConstants DEF Paired, ClientOwnsSlot, ChannelsFit, Slot, Byte
  <2>3. d = o => client[d][j].channel # c
    BY <2>1, <2>2 DEF k
  <2>4. QED
    BY <1>2, <1>9, <2>1, <2>2, <2>3
<1>15. Idle(o, t)'
  BY <1>1, <1>7 DEF Paired, Idle
<1>16. LostIsEmpty'
  BY <1>1, <1>2, <1>3, <1>7, <1>9, <1>10 DEF Paired, LostIsEmpty
<1>17. StatesOf(o, t)'
  <2>1. Closed.state = "CLOSED"
    BY DEF Closed
  <2>2. QED
    BY <1>1, <1>7, <1>8, <2>1 DEF Paired, StatesOf
<1>18. UsesAlone(o, t)'
  <2> SUFFICES ASSUME NEW j \in Conn, NEW d \in Byte, Uses(t, j, d)'
               PROVE  /\ \A i \in Conn : Uses(t, i, d)' => i = j
                      /\ clients'[o][d] = j
    BY DEF UsesAlone
  <2>1. Uses(t, j, d) /\ d # c /\ d \in Slot
    BY <1>5, <1>11, TunnelConstants DEF Byte, Slot
  <2>2. QED
    BY <1>1, <1>3, <1>9, <1>11, <2>1 DEF Paired, UsesAlone
<1>19. Answers(o, t)'
  <2>1. FailsAlone(Tail(wire[o])) /\ \A m \in FramesOf(Tail(wire[o])) : m.ch # c
    BY <1>1, <1>3, TailFails DEF Paired, Answers, c
  <2>2. \A m \in FramesOf(Tail(wire[o])) : m.ch \in Slot
    <3>1. \A m \in FramesOf(Tail(wire[o])) : m \in Frame
      BY <1>3, SeqFacts
    <3>2. QED
      BY <3>1, TunnelConstants DEF Frame, Byte, Slot
  <2>3. ASSUME NEW m \in FramesOf(Tail(wire[o])) PROVE IsAnswer(o, t, m)'
    <3>1. clients'[o][m.ch] = clients[o][m.ch]
      BY <1>9, <2>1, <2>2
    <3>2. IsAnswer(o, t, m)
      BY <1>1, <1>3 DEF Paired, Answers
    <3>3. QED
      BY <1>8, <1>11, <3>1, <3>2 DEF IsAnswer
  <2>4. QED
    BY <1>10, <2>1, <2>3 DEF Answers
<1>20. Asks(t)'
  BY <1>1, <1>9, <1>10 DEF Paired, Asks
<1>21. InOrder(o)'
  <2>1. StillCarries(wire[o], wire'[o])
    BY <1>3, <1>10, StillTail
  <2>2. \A f \in End : peer'[f] = "up" => peer[f] = "up" /\ StillCarries(wire[f], wire'[f])
    BY <1>2, <1>7, <1>10, <2>1, StillSame
  <2>3. InOrder(o)
    BY <1>1 DEF Paired
  <2>4. QED
    BY <1>1, <1>7, <1>8, <2>2, <2>3, OrderKept
<1>22. QED
  BY <1>2, <1>8, <1>10, <1>13, <1>14, <1>15, <1>16, <1>17, <1>18, <1>19, <1>20, <1>21 DEF Paired

\* Bytes read at e are the next item of the client in the slot.
LEMMA DataOrder ==
  ASSUME NEW o \in End, NEW t \in End, t = Other(o), OneWayInv(o, t),
         NEW e \in End, Arrived(e, "DATA"),
         NEW k \in Conn, k = Frame1(e).conn, NEW n, n = Frame1(e).n,
         rcvd' = [rcvd EXCEPT ![e][k] = Append(@, [conn |-> k, n |-> n])],
         wire' = Consumed(e), peer' = peer, sent' = sent, client'[t] = client[t]
  PROVE  /\ InOrder(o)'
         /\ n \in {First(o, e, k)} /\ n <= Last(o, e, k)
<1> DEFINE q == wire[e]
           m == Frame1(e)
<1>1. TypeOK /\ Paired(o, t)
  BY DEF OneWayInv, IInv
<1>2. o # t /\ o = Other(t) /\ \A d \in End : d = o \/ d = t
  BY Ends
<1>3. /\ peer[e] = "up" /\ q \in Seq(Frame) /\ q # <<>> /\ m = Head(q)
      /\ m.cmd = "DATA" /\ wire'[e] = Tail(q)
      /\ \A d \in End : d # e => wire'[d] = wire[d]
  BY <1>1, ArrivedFacts
<1>4. \A d \in End, j \in Conn : First(o, d, j) \in Int /\ Last(o, d, j) \in Int
  <2> SUFFICES ASSUME NEW d \in End, NEW j \in Conn
               PROVE  First(o, d, j) \in Int /\ Last(o, d, j) \in Int
    OBVIOUS
  <2>1. Len(rcvd[d][j]) \in Int
    BY <1>1, LenProperties DEF TypeOK
  <2>2. sent[Other(d)][j] \in Int
    BY <1>1, TwoEnds DEF TypeOK
  <2>3. QED
    BY <2>1, <2>2 DEF First, Last
<1>5. Carries(q, k, First(o, e, k), Last(o, e, k))
  BY <1>1, <1>3 DEF Paired, InOrder
<1>6. IsItem(m, k) /\ m.n = n
  BY <1>3 DEF IsItem
<1> HIDE DEF q, m
<1>7. /\ n = First(o, e, k) /\ First(o, e, k) <= Last(o, e, k)
      /\ Carries(Tail(q), k, First(o, e, k) + 1, Last(o, e, k))
  <2>1. First(o, e, k) \in Int /\ Last(o, e, k) \in Int /\ IsItem(Head(q), k)
    BY <1>3, <1>4, <1>6
  <2>2. QED
    BY <1>3, <1>5, <1>6, <2>1, CarriesHead
<1>8. /\ Len(rcvd'[e][k]) = Len(rcvd[e][k]) + 1
      /\ \A d \in End, j \in Conn : ~(d = e /\ j = k) => rcvd'[d][j] = rcvd[d][j]
  <2> DEFINE s == rcvd[e][k]
             x == [conn |-> k, n |-> n]
  <2>1. s \in Seq(Item)
    BY <1>1 DEF TypeOK
  <2>2. rcvd'[e][k] = Append(s, x)
    BY <1>1 DEF TypeOK
  <2>3. m \in Frame
    BY <1>1, ArrivedFacts DEF m
  <2>4. x \in Item
    BY <1>6, <2>3 DEF Item, Frame
  <2> HIDE DEF s, x
  <2>5. Len(Append(s, x)) = Len(s) + 1
    BY <2>1, <2>4, AppendProperties
  <2>6. \A d \in End, j \in Conn : ~(d = e /\ j = k) => rcvd'[d][j] = rcvd[d][j]
    BY <1>1 DEF TypeOK
  <2>7. QED
    BY <2>2, <2>5, <2>6 DEF s
<1>9. ASSUME NEW d \in End, NEW j \in Conn, peer'[d] = "up"
      PROVE  Carries(wire'[d], j, First(o, d, j)', Last(o, d, j)')
  <2>1. Last(o, d, j)' = Last(o, d, j)
    BY DEF Last
  <2>2. Carries(wire[d], j, First(o, d, j), Last(o, d, j))
    BY <1>1, <1>9 DEF Paired, InOrder
  <2>3. CASE d = e /\ j = k
    <3> DEFINE l == Len(rcvd[e][k])
    <3>1. l \in Int /\ Len(rcvd'[e][k]) = l + 1
      BY <1>1, <1>8, LenProperties DEF TypeOK
    <3> DEFINE z == IF e = o THEN 0 ELSE 1
    <3>a. z \in Int
      OBVIOUS
    <3>b. First(o, e, k) = l + z /\ First(o, e, k)' = Len(rcvd'[e][k]) + z
      BY DEF First
    <3> HIDE DEF l, z
    <3>2. First(o, e, k)' = First(o, e, k) + 1
      BY <3>1, <3>a, <3>b
    <3>3. QED
      BY <1>3, <1>7, <2>1, <2>3, <3>2
  <2>4. CASE ~(d = e /\ j = k)
    <3>1. First(o, d, j)' = First(o, d, j)
      BY <1>8, <2>4 DEF First
    <3>2. CASE d # e
      BY <1>3, <2>1, <2>2, <3>1, <3>2
    <3>3. CASE d = e
      <4>1. ~IsItem(Head(q), j)
        BY <1>3, <1>6, <2>4, <3>3 DEF IsItem
      <4>2. First(o, d, j) \in Int /\ Last(o, d, j) \in Int
        BY <1>4
      <4>3. Carries(q, j, First(o, d, j), Last(o, d, j))
        BY <2>2, <3>3 DEF q
      <4>4. Carries(Tail(q), j, First(o, d, j), Last(o, d, j))
        BY <1>3, <4>1, <4>2, <4>3, CarriesTail
      <4>5. QED
        BY <1>3, <2>1, <3>1, <3>3, <4>4
    <3>4. QED
      BY <3>2, <3>3
  <2>5. QED
    BY <2>3, <2>4
<1>10. QED
  BY <1>7, <1>9 DEF InOrder

\* What RecvData does here: the bytes are the next item of a client that
\* stays, or becomes, connected.
Delivers(o, t, e, k, n) ==
  /\ k \in Conn /\ k = Frame1(e).conn /\ n = Frame1(e).n
  /\ Arrived(e, "DATA") /\ Attached(e, k) /\ client[t][k].state # "NONE"
  /\ rcvd' = [rcvd EXCEPT ![e][k] = Append(@, [conn |-> k, n |-> n])]
  /\ client'[t] = client[t]
  /\ \A j \in Conn : OnlyConnects(o, j)
  /\ n = First(o, e, k) /\ n <= Last(o, e, k)
  /\ wire'[e] = Tail(wire[e]) /\ wire'[Other(e)] = wire[Other(e)]
  /\ UNCHANGED <<peer, clients, pending, timers, sent, obuf>>

LEMMA RecvDataKeeps ==
  ASSUME NEW o \in End, NEW t \in End, t = Other(o), OneWayInv(o, t),
         NEW e \in End, RecvData(e)
  PROVE  Paired(o, t)' /\ \E k, n : Delivers(o, t, e, k, n)
<1>1. TypeOK /\ Paired(o, t) /\ TableConsistent /\ Arrived(e, "DATA")
  BY DEF OneWayInv, IInv, RecvData
<1>2. /\ o # t /\ o = Other(t) /\ (\A d \in End : d = o \/ d = t)
      /\ Other(e) \in End /\ Other(e) # e
  BY Ends, TwoEnds
<1> DEFINE m == Frame1(e)
           c == m.ch
<1>k. PICK k, n : k = m.conn /\ n = m.n
  OBVIOUS
<1>3. /\ peer[e] = "up" /\ wire[e] \in Seq(Frame) /\ wire[e] # <<>>
      /\ m \in FramesOf(wire[e]) /\ m = Head(wire[e]) /\ m.cmd = "DATA" /\ m \in Frame
      /\ FramesOf(Tail(wire[e])) \subseteq FramesOf(wire[e])
      /\ c \in Slot
      /\ Consumed(e)[e] = Tail(wire[e]) /\ \A d \in End : d # e => Consumed(e)[d] = wire[d]
  BY <1>1, ArrivedFacts
<1>4. clients[e][c] = k /\ k \in Conn /\ k # None
  <2>1. k \in Conn
    BY <1>3, <1>k DEF Frame
  <2>2. e = t => clients[e][c] = k
    BY <1>1, <1>3, <1>k DEF Paired, Asks
  <2>3. e = o => clients[e][c] = k
    BY <1>1, <1>3, <1>k DEF Paired, Answers, IsAnswer
  <2>4. QED
    BY <1>2, <2>1, <2>2, <2>3, TunnelConstants
<1>5. Attached(e, k) /\ client[t][k].state # "NONE"
  <2>1. Attached(e, k)
    BY <1>1, <1>3, <1>4 DEF TableConsistent
  <2>2. e = o => client[t][k].state # "NONE"
    BY <1>1, <1>3, <1>4 DEF Paired, Answers, IsAnswer
  <2>3. QED
    BY <1>2, <2>1, <2>2 DEF Attached
<1>6. /\ client' = IF client[e][k].state = "CONNECTING"
                   THEN [client EXCEPT ![e][k] = Connected(@)] ELSE client
      /\ rcvd' = [rcvd EXCEPT ![e][k] = Append(@, [conn |-> m.conn, n |-> m.n])]
      /\ wire' = Consumed(e) /\ obuf' = obuf
      /\ UNCHANGED <<peer, clients, pending, timers, sent>>
  BY <1>4 DEF RecvData, Consume
<1>7. e = t => client' = client
  BY <1>1, <1>4, <1>6 DEF Paired, StatesOf
<1>8. /\ client'[t] = client[t]
      /\ \A j \in Conn : OnlyConnects(o, j)
  <2>1. CASE e = t
    BY <1>7, <2>1 DEF OnlyConnects
  <2>2. CASE e = o
    BY <1>1, <1>2, <1>4, <1>5, <1>6, <2>2 DEF TypeOK, Connected, OnlyConnects
  <2>3. QED
    BY <1>2, <2>1, <2>2
<1>9. wire'[e] = Tail(wire[e]) /\ wire'[Other(e)] = wire[Other(e)]
  BY <1>2, <1>3, <1>6
<1>10. rcvd' = [rcvd EXCEPT ![e][k] = Append(@, [conn |-> k, n |-> n])]
  BY <1>6, <1>k
<1>11. InOrder(o)' /\ n = First(o, e, k) /\ n <= Last(o, e, k)
  <2>1. k = Frame1(e).conn /\ n = Frame1(e).n
    BY <1>k
  <2>2. wire' = Consumed(e) /\ peer' = peer /\ sent' = sent /\ client'[t] = client[t]
    BY <1>6, <1>8
  <2>3. Arrived(e, "DATA") /\ k \in Conn
    BY <1>1, <1>4
  <2> HIDE DEF m, c
  <2>4. InOrder(o)'
    BY <1>10, <2>1, <2>2, <2>3, DataOrder
  <2>5. n \in {First(o, e, k)}
    BY <1>10, <2>1, <2>2, <2>3, DataOrder
  <2>6. n <= Last(o, e, k)
    BY <1>10, <2>1, <2>2, <2>3, DataOrder
  <2>7. QED
    BY <2>4, <2>5, <2>6
<1>12. \E j, i : Delivers(o, t, e, j, i)
  <2>1. Delivers(o, t, e, k, n)
    BY <1>1, <1>4, <1>5, <1>6, <1>8, <1>9, <1>10, <1>11, <1>k DEF Delivers
  <2>2. QED
    BY <2>1
<1>13. Paired(o, t)'
  <2>1. CASE e = o
    <3>1. \/ client' = client
          \/ client' = [client EXCEPT ![o][k] = Connected(@)]
      BY <1>6, <2>1
    <3>2. k = clients[o][Frame1(o).ch] /\ Arrived(o, "DATA") /\ wire' = Consumed(o)
      BY <1>1, <1>4, <1>6, <2>1
    <3>3. UNCHANGED <<peer, clients, pending, timers, obuf>> /\ sent' = sent
      BY <1>6
    <3>4. QED
      BY <1>11, <3>1, <3>2, <3>3, AnswerKeeps
  <2>2. CASE e = t
    <3>1. wire'[t] = Tail(wire[t]) /\ wire'[o] = wire[o] /\ client' = client
      BY <1>2, <1>7, <1>9, <2>2
    <3>2. FramesOf(Tail(wire[t])) \subseteq FramesOf(wire[t])
      BY <1>3, <2>2
    <3> HIDE DEF m, c
    <3>3. \A j, d : Uses(t, j, d)' => Uses(t, j, d)
      BY <1>6, <3>1, <3>2 DEF Uses
    <3>4. ClientOwnsSlot' /\ ChannelsFit' /\ StatesOf(o, t)'
      BY <1>1, <1>6, <3>1 DEF Paired, ClientOwnsSlot, ChannelsFit, Attached, StatesOf
    <3>5. Idle(o, t)' /\ Answers(o, t)' /\ UsesAlone(o, t)'
      BY <1>1, <1>6, <3>1, <3>3 DEF Paired, Idle, Answers, IsAnswer, UsesAlone
    <3>6. Asks(t)'
      BY <1>1, <1>6, <3>1, <3>2 DEF Paired, Asks
    <3>7. LostIsEmpty'
      BY <1>1, <1>2, <1>3, <1>6, <2>2, <3>1 DEF Paired, LostIsEmpty
    <3>8. QED
      BY <1>11, <3>4, <3>5, <3>6, <3>7 DEF Paired
  <2>3. QED
    BY <1>2, <2>1, <2>2
<1>14. QED
  BY <1>12, <1>13

\* The loss of a peer: its clients close, and the wire to it empties.
LEMMA LostKeeps ==
  ASSUME NEW o \in End, NEW t \in End, t = Other(o), OneWayInv(o, t),
         NEW e \in End, PeerLost(e)
  PROVE  /\ Paired(o, t)'
         /\ \A d \in End, k \in Conn :
              \/ client'[d][k] = client[d][k]
              \/ client[d][k].state # "NONE" /\ client'[d][k].state = "CLOSED"
<1>1. TypeOK /\ Paired(o, t) /\ TableConsistent
  BY DEF OneWayInv, IInv
<1>2. o # t /\ \A d \in End : d = o \/ d = t
  BY Ends
<1>3. /\ peer[e] = "up" /\ peer' = [peer EXCEPT ![e] = "closed"]
      /\ client' = [client EXCEPT ![e] =
            [k \in Conn |-> IF \E c \in Slot : clients[e][c] = k
                            THEN Closed ELSE client[e][k]]]
      /\ clients' = [clients EXCEPT ![e] = [c \in Slot |-> None]]
      /\ obuf' = [obuf EXCEPT ![e] = <<>>]
      /\ wire' = [wire EXCEPT ![e] = <<>>]
      /\ UNCHANGED <<pending, timers, sent, rcvd>>
  BY DEF PeerLost
<1>4. /\ peer'[e] = "closed" /\ wire'[e] = <<>> /\ obuf'[e] = <<>>
      /\ \A c \in Slot : clients'[e][c] = None
      /\ \A d \in End : d # e => /\ peer'[d] = peer[d] /\ wire'[d] = wire[d]
                                /\ obuf'[d] = obuf[d] /\ clients'[d] = clients[d]
                                /\ client'[d] = client[d]
  BY <1>1, <1>3 DEF TypeOK
<1>5. \A k \in Conn : client'[e][k] =
        IF \E c \in Slot : clients[e][c] = k THEN Closed ELSE client[e][k]
  BY <1>1, <1>3 DEF TypeOK
<1>6. \A k \in Conn : (\E c \in Slot : clients[e][c] = k) <=> Attached(e, k)
  <2>1. ASSUME NEW k \in Conn, NEW c \in Slot, clients[e][c] = k PROVE Attached(e, k)
    BY <1>1, <2>1, TunnelConstants DEF TableConsistent
  <2>2. ASSUME NEW k \in Conn, Attached(e, k) PROVE \E c \in Slot : clients[e][c] = k
    BY <1>1, <2>2, TunnelConstants DEF Paired, ClientOwnsSlot, ChannelsFit, Slot, Byte
  <2>3. QED
    BY <2>1, <2>2
<1>7. Closed.state = "CLOSED"
  BY DEF Closed
<1>8. \A k \in Conn : client'[e][k] = IF Attached(e, k) THEN Closed ELSE client[e][k]
  BY <1>5, <1>6
<1>9. \A k \in Conn : ~Attached(e, k)'
  BY <1>7, <1>8 DEF Attached
<1>10. \A d \in End, k \in Conn :
         \/ client'[d][k] = client[d][k]
         \/ /\ d = e /\ client[d][k].state # "NONE" /\ client'[d][k].state = "CLOSED"
            /\ Attached(d, k)
  BY <1>4, <1>7, <1>8 DEF Attached
<1>11. \A d \in End : FramesOf(wire'[d]) \subseteq FramesOf(wire[d])
  <2>1. FramesOf(wire'[e]) = {}
    BY <1>4, FewFrames
  <2>2. QED
    BY <1>4, <2>1
<1>12. \A d : \A k \in Conn : Uses(t, k, d)' => Uses(t, k, d)
  BY <1>3, <1>10, <1>11 DEF Uses
<1>13. ClientOwnsSlot' /\ ChannelsFit'
  <2>1. \A d \in End, k \in Conn : Attached(d, k)' =>
          d # e /\ Attached(d, k) /\ client'[d][k] = client[d][k] /\ clients'[d] = clients[d]
    BY <1>4, <1>9 DEF Attached
  <2>2. QED
    BY <1>1, <2>1 DEF Paired, ClientOwnsSlot, ChannelsFit
<1>14. Idle(o, t)'
  BY <1>1, <1>3, <1>4 DEF Paired, Idle
<1>15. LostIsEmpty'
  BY <1>1, <1>4 DEF Paired, LostIsEmpty
<1>16. StatesOf(o, t)'
  <2>1. \A k \in Conn :
          client'[t][k] = client[t][k] \/ (e = t /\ client[t][k].state # "NONE" /\ client'[t][k].state = "CLOSED")
    BY <1>10
  <2>2. \A k \in Conn :
          client'[o][k] = client[o][k] \/ client'[o][k].state = "CLOSED"
    BY <1>10
  <2>3. peer[t] # "up" => peer'[t] # "up"
    BY <1>3, <1>4
  <2>4. e = t => peer'[t] # "up"
    BY <1>4
  <2>5. QED
    BY <1>1, <1>3, <2>1, <2>2, <2>3, <2>4 DEF Paired, StatesOf
<1>17. UsesAlone(o, t)'
  <2>1. peer'[o] = "up" => peer[o] = "up" /\ clients'[o] = clients[o]
    BY <1>4
  <2>2. QED
    BY <1>1, <1>12, <2>1 DEF Paired, UsesAlone
<1>18. Answers(o, t)'
  <2>1. CASE e = o
    BY <1>4, <2>1, FewFrames DEF Answers, FailsAlone
  <2>2. CASE e = t
    <3>1. wire'[o] = wire[o] /\ clients'[o] = clients[o]
      BY <1>2, <1>4, <2>2
    <3>2. ASSUME NEW m \in FramesOf(wire[o]) PROVE IsAnswer(o, t, m)'
      <4>1. IsAnswer(o, t, m)
        BY <1>1 DEF Paired, Answers
      <4>2. m \in Frame
        BY <1>1, SeqFacts DEF TypeOK
      <4>3. m.ch \in Slot
        BY <4>2, TunnelConstants DEF Frame, Byte, Slot
      <4>4. clients[o] \in [Slot -> Conn \cup {None}]
        BY <1>1 DEF TypeOK
      <4>5. clients[o][m.ch] \in Conn
        BY <4>1, <4>3, <4>4 DEF IsAnswer
      <4>6. client[t][clients[o][m.ch]].state # "NONE" => client'[t][clients[o][m.ch]].state # "NONE"
        BY <1>10, <4>5
      <4>7. QED
        BY <1>12, <3>1, <4>1, <4>6 DEF IsAnswer
    <3>3. QED
      BY <1>1, <3>1, <3>2 DEF Paired, Answers
  <2>3. QED
    BY <1>2, <2>1, <2>2
<1>19. Asks(t)'
  <2>1. CASE e = t
    BY <1>4, <2>1, FewFrames DEF Asks
  <2>2. CASE e # t
    BY <1>1, <1>4, <2>2 DEF Paired, Asks
  <2>3. QED
    BY <2>1, <2>2
<1>20. InOrder(o)'
  <2>1. \A f \in End : peer'[f] = "up" => peer[f] = "up" /\ StillCarries(wire[f], wire'[f])
    BY <1>4, StillSame
  <2>2. \A k \in Conn : client'[t][k].state = "NONE" <=> client[t][k].state = "NONE"
    BY <1>10
  <2>3. InOrder(o)
    BY <1>1 DEF Paired
  <2>4. QED
    BY <1>1, <1>3, <2>1, <2>2, <2>3, OrderKept
<1>21. QED
  BY <1>10, <1>13, <1>14, <1>15, <1>16, <1>17, <1>18, <1>19, <1>20 DEF Paired

\* A crash, or nothing: what the invariant speaks of stays.
LEMMA NothingKeeps ==
  ASSUME NEW o \in End, NEW t \in End, t = Other(o), OneWayInv(o, t),
         UNCHANGED <<clients, client, pending, timers, obuf, wire, sent, rcvd>>,
         \A e \in End : peer'[e] = "up" <=> peer[e] = "up"
  PROVE  Paired(o, t)'
<1>1. TypeOK /\ Paired(o, t)
  BY DEF OneWayInv, IInv
<1>2. \A j, d : Uses(t, j, d)' <=> Uses(t, j, d)
  BY DEF Uses
<1>3. ClientOwnsSlot' /\ ChannelsFit' /\ StatesOf(o, t)'
  BY <1>1 DEF Paired, ClientOwnsSlot, ChannelsFit, Attached, StatesOf
<1>4. Idle(o, t)' /\ LostIsEmpty' /\ UsesAlone(o, t)'
  BY <1>1, <1>2 DEF Paired, Idle, LostIsEmpty, UsesAlone
<1>5. Answers(o, t)' /\ Asks(t)'
  BY <1>1, <1>2 DEF Paired, Answers, IsAnswer, Asks
<1>6. InOrder(o)'
  <2>1. InOrder(o)
    BY <1>1 DEF Paired
  <2>2. QED
    BY <1>1, <2>1, OrderKept, StillSame
<1>7. QED
  BY <1>3, <1>4, <1>5, <1>6 DEF Paired

-----------------------------------------------------------------------------
(***************************************************************************)
(* The invariant is inductive.                                             *)
(***************************************************************************)
LEMMA PairedInit ==
  ASSUME NEW o \in End, NEW t \in End, t = Other(o), OneWay(o), Init
  PROVE  Paired(o, t)
<1> USE TunnelConstants
<1>1. o # t /\ \A d \in End : d = o \/ d = t
  BY Ends
<1>2. \A k \in Conn : /\ client[o][k].state = "REQUEST"
                      /\ client[t][k].state = "NONE"
                      /\ sent[o][k] = 0 /\ sent[t][k] = 0
                      /\ rcvd[o][k] = <<>> /\ rcvd[t][k] = <<>>
  BY <1>1 DEF Init, OneWay, Asking, Unborn
<1>3. \A e \in End : /\ peer[e] = "up" /\ wire[e] = <<>> /\ obuf[e] = <<>> /\ timers[e] = <<>>
                     /\ pending[e] = {} /\ FramesOf(wire[e]) = {}
  BY FewFrames DEF Init
<1>4. \A e \in End, k \in Conn : ~Attached(e, k)
  BY <1>1, <1>2 DEF Attached
<1>5. ClientOwnsSlot /\ ChannelsFit
  BY <1>4 DEF ClientOwnsSlot, ChannelsFit
<1>6. Idle(o, t) /\ LostIsEmpty
  BY <1>3 DEF Idle, LostIsEmpty
<1>7. StatesOf(o, t)
  BY <1>2 DEF StatesOf
<1>8. UsesAlone(o, t)
  BY <1>2, <1>3 DEF UsesAlone, Uses
<1>9. Answers(o, t) /\ Asks(t)
  BY <1>3 DEF Answers, Asks, FailsAlone
<1>10. InOrder(o)
  <2> SUFFICES ASSUME NEW e \in End, NEW k \in Conn
               PROVE  Carries(wire[e], k, First(o, e, k), Last(o, e, k))
    BY DEF InOrder
  <2>1. Len(rcvd[e][k]) = 0
    BY <1>1, <1>2
  <2>2. Last(o, e, k) = First(o, e, k) - 1 /\ First(o, e, k) \in Int
    <3>1. CASE e = o
      BY <1>2, <2>1, <3>1 DEF First, Last
    <3>2. CASE e = t
      BY <1>1, <1>2, <2>1, <3>2, Ends DEF First, Last
    <3>3. QED
      BY <1>1, <3>1, <3>2
  <2>3. Carries(<<>>, k, First(o, e, k), First(o, e, k) - 1)
    BY <2>2, CarriesNothing
  <2>4. QED
    BY <1>3, <2>2, <2>3
<1>11. QED
  BY <1>5, <1>6, <1>7, <1>8, <1>9, <1>10 DEF Paired

\* The steps a one-way tunnel does not take.
LEMMA NeverOneWay ==
  ASSUME NEW o \in End, NEW t \in End, t = Other(o), OneWay(o), OneWayInv(o, t)
  PROVE  /\ \A e \in End, k \in Conn : ~ClientEof(e, k)
         /\ \A e \in End : /\ timers[e] = <<>>
                          /\ \A i \in DOMAIN timers[e] : ~RetryRenumber(e, i)
         /\ \A e \in End : /\ ~RecvRenumberInvalid(e) /\ ~RecvRenumberMove(e)
                          /\ ~RecvRenumberTaken(e) /\ ~RecvGarbage(e)
<1>1. \A e \in End, k \in Conn : ~ClientEof(e, k)
  BY DEF OneWay, ClientEof
<1>2. \A e \in End : timers[e] = <<>>
  BY DEF OneWayInv, Paired, Idle
<1>3. \A e \in End : ~Arrived(e, "RENUMBER_CONNECTION")
  BY RequestsArriveAt, Ends
<1>4. \A e \in End : ~RecvRenumberInvalid(e) /\ ~RecvRenumberMove(e) /\ ~RecvRenumberTaken(e)
  BY <1>3 DEF RecvRenumberInvalid, RecvRenumberMove, RecvRenumberTaken
<1>5. \A e \in End : ~RecvGarbage(e)
  BY RequestsArriveAt DEF RecvGarbage
<1>6. \A e \in End : DOMAIN timers[e] = {}
  BY <1>2
<1>7. QED
  BY <1>1, <1>2, <1>4, <1>5, <1>6

LEMMA PairedStep ==
  ASSUME NEW o \in End, NEW t \in End, t = Other(o), OneWay(o), OneWayInv(o, t), [Next]_vars
  PROVE  Paired(o, t)'
<1>1. ASSUME NEW k \in Conn, RequestConnect(k) \/ RequestRefused(k) PROVE Paired(o, t)'
  BY <1>1, RequestKeeps, RefusedKeeps
<1>2. ASSUME NEW e \in End, NEW k \in Conn, ClientData(e, k) \/ ClientEof(e, k)
      PROVE  Paired(o, t)'
  BY <1>2, DataKeeps, NeverOneWay
<1>3. ASSUME NEW e \in End, Receive(e) PROVE Paired(o, t)'
  <2>1. CASE RecvNewConnection(e)
    BY <2>1, NewKeeps
  <2>2. CASE RecvNewConnectionImmediate(e)
    BY <2>2, ImmediateKeeps
  <2>3. CASE RecvNewConnectionRefused(e)
    BY <2>3, NewRefusedKeeps
  <2>4. CASE RecvEstablished(e)
    BY <2>4, EstablishedKeeps
  <2>5. CASE RecvFailedOrEof(e)
    BY <2>5, FailedKeeps
  <2>6. CASE RecvData(e)
    BY <2>6, RecvDataKeeps
  <2>7. QED
    BY <1>3, <2>1, <2>2, <2>3, <2>4, <2>5, <2>6, NeverOneWay DEF Receive
<1>4. ASSUME NEW e \in End, Callback(e) PROVE Paired(o, t)'
  <2>1. ASSUME NEW p \in pending[e], ConnectSucceeds(e, p) \/ ConnectFails(e, p)
        PROVE  Paired(o, t)'
    BY <2>1, SucceedsKeeps, FailsKeeps
  <2>2. QED
    BY <1>4, <2>1, NeverOneWay DEF Callback
<1>5. ASSUME NEW e \in End, PeerLost(e) PROVE Paired(o, t)'
  BY <1>5, LostKeeps
<1>6. ASSUME NEW e \in End, UseAfterDelete(e) PROVE Paired(o, t)'
  <2>1. peer \in [End -> {"up", "closed", "crashed"}]
    BY DEF OneWayInv, IInv, TypeOK
  <2>2. \A d \in End : peer'[d] = "up" <=> peer[d] = "up"
    BY <1>6, <2>1 DEF UseAfterDelete
  <2>3. UNCHANGED <<clients, client, pending, timers, obuf, wire, sent, rcvd>>
    BY <1>6 DEF UseAfterDelete
  <2>4. QED
    BY <2>2, <2>3, NothingKeeps
<1>7. CASE UNCHANGED vars
  BY <1>7, NothingKeeps DEF vars
<1>8. QED
  BY <1>1, <1>2, <1>3, <1>4, <1>5, <1>6, <1>7 DEF Next

\* The inductive invariant of a one-way tunnel.
LEMMA OneWayInductive ==
  ASSUME NEW o \in End, OneWay(o)
  PROVE  Spec => []OneWayInv(o, Other(o))
<1>1. Other(o) \in End
  BY TwoEnds
<1>2. Init => Paired(o, Other(o))
  BY <1>1, PairedInit
<1>3. IInv /\ Paired(o, Other(o)) /\ [Next]_vars => Paired(o, Other(o))'
  BY <1>1, PairedStep DEF OneWayInv
<1>4. Spec => []IInv
  BY Inductive
<1>5. IInv /\ Paired(o, Other(o)) => OneWayInv(o, Other(o))
  BY DEF OneWayInv
<1>6. QED
  BY <1>2, <1>3, <1>4, <1>5, PTL DEF Spec

\* A client_info that has a peer is in that peer's table at its channel (the
\* ERROR of ~client_info, proxy.cpp, cannot occur), for any number of sessions
\* and channels and with a link that may break, when all sessions start at one
\* process and no party hangs up first.
THEOREM OneWayOwnsSlots ==
  ASSUME NEW o \in End, OneWay(o)
  PROVE  Spec => []ClientOwnsSlot
<1>1. OneWayInv(o, Other(o)) => ClientOwnsSlot
  BY DEF OneWayInv, Paired
<1>2. QED
  BY <1>1, OneWayInductive, PTL

-----------------------------------------------------------------------------
(***************************************************************************)
(* The refinement.  The sets of Pipes, and what leaves each of them alone. *)
(***************************************************************************)
Fresh  == {k \in Conn : client[Origin[k]][k].state = "REQUEST"}
Asked  == {k \in Conn : Requested(Other(Origin[k]), k)}
Opened == {k \in Conn : client[Other(Origin[k])][k].state # "NONE"}
ShutAt == {s \in End \X Conn : client[s[1]][s[2]].state = "CLOSED"}

StillFresh(o) ==
  \A k \in Conn : client'[o][k].state = "REQUEST" <=> client[o][k].state = "REQUEST"
StillAsked(t) ==
  \A k \in Conn : Requested(t, k)' <=> Requested(t, k)
StillOpened(t) ==
  \A k \in Conn : client'[t][k].state = "NONE" <=> client[t][k].state = "NONE"
StillShut ==
  \A e \in End, k \in Conn : client'[e][k].state = "CLOSED" <=> client[e][k].state = "CLOSED"

LEMMA SetsOneWay ==
  ASSUME NEW o \in End, NEW t \in End, t = Other(o), OneWay(o)
  PROVE  /\ Fresh = {k \in Conn : client[o][k].state = "REQUEST"}
         /\ Fresh' = {k \in Conn : client'[o][k].state = "REQUEST"}
         /\ Asked = {k \in Conn : Requested(t, k)}
         /\ Asked' = {k \in Conn : Requested(t, k)'}
         /\ Opened = {k \in Conn : client[t][k].state # "NONE"}
         /\ Opened' = {k \in Conn : client'[t][k].state # "NONE"}
         /\ \A e \in End, k \in Conn :
              /\ <<e, k>> \in ShutAt <=> client[e][k].state = "CLOSED"
              /\ <<e, k>> \in ShutAt' <=> client'[e][k].state = "CLOSED"
<1>1. \A k \in Conn : Origin[k] = o /\ Other(Origin[k]) = t
  BY DEF OneWay
<1>2. Fresh = {k \in Conn : client[o][k].state = "REQUEST"}
  BY <1>1 DEF Fresh
<1>3. Fresh' = {k \in Conn : client'[o][k].state = "REQUEST"}
  BY <1>1 DEF Fresh
<1>4. Asked = {k \in Conn : Requested(t, k)}
  BY <1>1 DEF Asked
<1>5. Asked' = {k \in Conn : Requested(t, k)'}
  BY <1>1 DEF Asked, Requested
<1>6. Opened = {k \in Conn : client[t][k].state # "NONE"}
  BY <1>1 DEF Opened
<1>7. Opened' = {k \in Conn : client'[t][k].state # "NONE"}
  BY <1>1 DEF Opened
<1>8. \A e \in End, k \in Conn :
        /\ <<e, k>> \in ShutAt <=> client[e][k].state = "CLOSED"
        /\ <<e, k>> \in ShutAt' <=> client'[e][k].state = "CLOSED"
  BY DEF ShutAt
<1>9. QED
  BY <1>2, <1>3, <1>4, <1>5, <1>6, <1>7, <1>8

LEMMA StillSets ==
  ASSUME NEW o \in End, NEW t \in End, t = Other(o), OneWay(o)
  PROVE  /\ StillFresh(o) => Fresh' = Fresh
         /\ StillAsked(t) => Asked' = Asked
         /\ StillOpened(t) => Opened' = Opened
         /\ StillShut => ShutAt' = ShutAt
<1>1. ASSUME StillFresh(o) PROVE Fresh' = Fresh
  <2>1. {k \in Conn : client'[o][k].state = "REQUEST"} = {k \in Conn : client[o][k].state = "REQUEST"}
    BY <1>1 DEF StillFresh
  <2>2. /\ Fresh = {k \in Conn : client[o][k].state = "REQUEST"}
        /\ Fresh' = {k \in Conn : client'[o][k].state = "REQUEST"}
    BY SetsOneWay
  <2>3. QED
    BY <2>1, <2>2
<1>2. ASSUME StillAsked(t) PROVE Asked' = Asked
  <2>1. {k \in Conn : Requested(t, k)'} = {k \in Conn : Requested(t, k)}
    BY <1>2 DEF StillAsked
  <2>2. /\ Asked = {k \in Conn : Requested(t, k)}
        /\ Asked' = {k \in Conn : Requested(t, k)'}
    BY SetsOneWay
  <2>3. QED
    BY <2>1, <2>2
<1>3. ASSUME StillOpened(t) PROVE Opened' = Opened
  <2>1. {k \in Conn : client'[t][k].state # "NONE"} = {k \in Conn : client[t][k].state # "NONE"}
    BY <1>3 DEF StillOpened
  <2>2. /\ Opened = {k \in Conn : client[t][k].state # "NONE"}
        /\ Opened' = {k \in Conn : client'[t][k].state # "NONE"}
    BY SetsOneWay
  <2>3. QED
    BY <2>1, <2>2
<1>4. StillShut => ShutAt' = ShutAt
  BY DEF StillShut, ShutAt
<1>5. QED
  BY <1>1, <1>2, <1>3, <1>4

\* The steps of Pipes, over these sets.
LEMMA AskStep ==
  ASSUME NEW k \in Conn,
         k \in Fresh, Fresh' = Fresh \ {k}, Asked' \in {Asked \cup {k}, Asked},
         Opened' = Opened, ShutAt' = ShutAt, sent' = sent, rcvd' = rcvd
  PROVE  Sessions!Ask(k)
BY DEF Sessions!Ask, Fresh, Asked, Opened, ShutAt

LEMMA OpenStep ==
  ASSUME NEW k \in Conn,
         k \in Asked, Asked' = Asked \ {k}, Opened' = Opened \cup {k},
         Fresh' = Fresh, ShutAt' = ShutAt, sent' = sent, rcvd' = rcvd
  PROVE  Sessions!Open(k)
BY DEF Sessions!Open, Fresh, Asked, Opened, ShutAt

LEMMA RefuseStep ==
  ASSUME NEW k \in Conn,
         k \in Asked, Asked' = Asked \ {k}, Opened' = Opened,
         Fresh' = Fresh, ShutAt' = ShutAt, sent' = sent, rcvd' = rcvd
  PROVE  Sessions!Refuse(k)
BY DEF Sessions!Refuse, Fresh, Asked, Opened, ShutAt

LEMMA SendStep ==
  ASSUME NEW e \in End, NEW k \in Conn,
         k \in Opened, <<e, k>> \notin ShutAt, sent[e][k] < MaxSend,
         sent' = [sent EXCEPT ![e][k] = @ + 1],
         Fresh' = Fresh, Asked' = Asked, Opened' = Opened, ShutAt' = ShutAt, rcvd' = rcvd
  PROVE  Sessions!Send(e, k)
BY DEF Sessions!Send, Fresh, Asked, Opened, ShutAt

LEMMA DeliverStep ==
  ASSUME NEW e \in End, NEW k \in Conn, NEW x,
         x = Sessions!ItemAt(e, k, Len(rcvd[e][k]) + 1),
         k \in Opened, <<e, k>> \notin ShutAt,
         \E d \in End \ {e} : x.n <= sent[d][k],
         rcvd' = [rcvd EXCEPT ![e][k] = Append(@, x)],
         Fresh' = Fresh, Asked' = Asked, Opened' = Opened, ShutAt' = ShutAt, sent' = sent
  PROVE  Sessions!Deliver(e, k)
BY DEF Sessions!Deliver, Fresh, Asked, Opened, ShutAt

LEMMA ShutStep ==
  ASSUME ShutAt \subseteq ShutAt',
         Fresh' = {k \in Fresh : <<Origin[k], k>> \notin ShutAt'},
         Asked' \subseteq Asked, Opened' = Opened, sent' = sent, rcvd' = rcvd
  PROVE  Sessions!Shut
<1>1. ShutAt' \subseteq End \X Conn
  BY DEF ShutAt
<1>2. QED
  BY <1>1 DEF Sessions!Shut, Fresh, Asked, Opened, ShutAt

LEMMA StutterStep ==
  ASSUME Fresh' = Fresh, Asked' = Asked, Opened' = Opened, ShutAt' = ShutAt,
         sent' = sent, rcvd' = rcvd
  PROVE  UNCHANGED Sessions!vars
BY DEF Sessions!vars, Fresh, Asked, Opened, ShutAt

-----------------------------------------------------------------------------
(***************************************************************************)
(* Each step of a one-way tunnel is a step of Pipes, or a stutter.         *)
(***************************************************************************)
LEMMA RequestMaps ==
  ASSUME NEW o \in End, NEW t \in End, t = Other(o), OneWay(o), OneWayInv(o, t),
         NEW k \in Conn, RequestConnect(k)
  PROVE  Sessions!Ask(k)
<1>1. Origin[k] = o /\ \A d \in End : d = o \/ d = t
  BY Ends DEF OneWay
<1>2. client[o][k].state = "REQUEST" /\ sent' = sent /\ rcvd' = rcvd
  BY <1>1 DEF RequestConnect
<1>3. /\ client'[t] = client[t] /\ client'[o][k].state = "CONNECTING"
      /\ \A j \in Conn : j # k => client'[o][j] = client[o][j]
  BY RequestKeeps
<1>4. \A j : Requested(t, j)' <=> Requested(t, j) \/ (j = k /\ peer[t] = "up")
  BY RequestKeeps
<1>5. StillOpened(t) /\ StillShut
  BY <1>1, <1>2, <1>3 DEF StillOpened, StillShut
<1>6. Opened' = Opened /\ ShutAt' = ShutAt
  BY <1>5, StillSets
<1>7. k \in Fresh /\ Fresh' = Fresh \ {k}
  <2>1. /\ Fresh = {j \in Conn : client[o][j].state = "REQUEST"}
        /\ Fresh' = {j \in Conn : client'[o][j].state = "REQUEST"}
    BY SetsOneWay
  <2>2. QED
    BY <1>2, <1>3, <2>1
<1>8. Asked' \in {Asked \cup {k}, Asked}
  <2>1. /\ Asked = {j \in Conn : Requested(t, j)}
        /\ Asked' = {j \in Conn : Requested(t, j)'}
    BY SetsOneWay
  <2>2. CASE peer[t] = "up"
    BY <1>4, <2>1, <2>2
  <2>3. CASE peer[t] # "up"
    BY <1>4, <2>1, <2>3
  <2>4. QED
    BY <2>2, <2>3
<1>9. QED
  BY <1>2, <1>6, <1>7, <1>8, AskStep

LEMMA RefusedMaps ==
  ASSUME NEW o \in End, NEW t \in End, t = Other(o), OneWay(o), OneWayInv(o, t),
         NEW k \in Conn, RequestRefused(k)
  PROVE  Sessions!Shut
<1>1. \A j \in Conn : Origin[j] = o
  BY DEF OneWay
<1>2. o # t /\ \A d \in End : d = o \/ d = t
  BY Ends
<1>3. /\ client[o][k].state = "REQUEST" /\ client' = [client EXCEPT ![o][k] = Closed]
      /\ UNCHANGED <<pending, wire, sent, rcvd>>
  BY <1>1 DEF RequestRefused
<1>4. /\ client'[t] = client[t] /\ client'[o][k].state = "CLOSED"
      /\ \A j \in Conn : j # k => client'[o][j] = client[o][j]
  BY <1>2, <1>3 DEF OneWayInv, IInv, TypeOK, Closed
<1>5. StillOpened(t) /\ StillAsked(t)
  BY <1>3, <1>4 DEF StillOpened, StillAsked, Requested
<1>6. Opened' = Opened /\ Asked' = Asked
  BY <1>5, StillSets
<1>7. \A d \in End, j \in Conn : client[d][j].state = "CLOSED" => client'[d][j].state = "CLOSED"
  BY <1>2, <1>4
<1>8. ShutAt \subseteq ShutAt'
  BY <1>7 DEF ShutAt
<1>9. Fresh' = {j \in Fresh : <<Origin[j], j>> \notin ShutAt'}
  <2>1. /\ Fresh = {j \in Conn : client[o][j].state = "REQUEST"}
        /\ Fresh' = {j \in Conn : client'[o][j].state = "REQUEST"}
        /\ \A j \in Conn : <<o, j>> \in ShutAt' <=> client'[o][j].state = "CLOSED"
    BY SetsOneWay
  <2>2. \A j \in Conn : <<Origin[j], j>> \in ShutAt' <=> client'[o][j].state = "CLOSED"
    BY <1>1, <2>1
  <2>3. QED
    BY <1>3, <1>4, <2>1, <2>2
<1>10. QED
  BY <1>3, <1>6, <1>8, <1>9, ShutStep

LEMMA DataMaps ==
  ASSUME NEW o \in End, NEW t \in End, t = Other(o), OneWay(o), OneWayInv(o, t),
         NEW e \in End, NEW k \in Conn, ClientData(e, k)
  PROVE  Sessions!Send(e, k)
<1>1. /\ client[e][k].state = "CONNECTED" /\ sent[e][k] < MaxSend
      /\ sent' = [sent EXCEPT ![e][k] = @ + 1]
      /\ client' = client /\ rcvd' = rcvd
  BY DEF ClientData
<1>2. client[t][k].state # "NONE"
  BY DataKeeps
<1>3. \A j : Requested(t, j)' <=> Requested(t, j)
  BY DataKeeps
<1>4. StillFresh(o) /\ StillOpened(t) /\ StillShut /\ StillAsked(t)
  BY <1>1, <1>3 DEF StillFresh, StillOpened, StillShut, StillAsked
<1>5. Fresh' = Fresh /\ Asked' = Asked /\ Opened' = Opened /\ ShutAt' = ShutAt
  BY <1>4, StillSets
<1>6. k \in Opened
  BY <1>2, SetsOneWay
<1>7. <<e, k>> \notin ShutAt
  BY <1>1 DEF ShutAt
<1>8. QED
  BY <1>1, <1>5, <1>6, <1>7, SendStep

\* The frame, or the call, of a request is gone after the step that reads it.
LEMMA RequestGone ==
  ASSUME NEW o \in End, NEW t \in End, t = Other(o), OneWayInv(o, t)
  PROVE  /\ \A p \in pending[t] : wire'[t] = wire[t] /\ pending'[t] = pending[t] \ {p} =>
              /\ Requested(t, p.conn)
              /\ \A j : Requested(t, j)' <=> Requested(t, j) /\ j # p.conn
         /\ Arrived(t, "NEW_CONNECTION") /\ wire'[t] = Tail(wire[t]) /\ pending'[t] = pending[t] =>
              /\ Requested(t, Frame1(t).conn)
              /\ \A j : Requested(t, j)' <=> Requested(t, j) /\ j # Frame1(t).conn
<1>1. TypeOK
  BY DEF OneWayInv, IInv
<1>2. ASSUME NEW p \in pending[t], wire'[t] = wire[t], pending'[t] = pending[t] \ {p}
      PROVE  /\ Requested(t, p.conn)
             /\ \A j : Requested(t, j)' <=> Requested(t, j) /\ j # p.conn
  <2>1. /\ \A q \in pending[t] : q.conn = p.conn => q = p
        /\ \A m \in FramesOf(wire[t]) : ~IsRequest(m, p.conn)
    BY OneRequest
  <2>2. Requested(t, p.conn)
    BY RequestedIs
  <2>3. \A j : Requested(t, j)' => Requested(t, j) /\ j # p.conn
    BY <1>2, <2>1, RequestedIs
  <2>4. \A j : Requested(t, j) /\ j # p.conn => Requested(t, j)'
    BY <1>2, RequestedIs
  <2>5. QED
    BY <2>2, <2>3, <2>4
<1>3. ASSUME Arrived(t, "NEW_CONNECTION"), wire'[t] = Tail(wire[t]), pending'[t] = pending[t]
      PROVE  /\ Requested(t, Frame1(t).conn)
             /\ \A j : Requested(t, j)' <=> Requested(t, j) /\ j # Frame1(t).conn
  <2> DEFINE m == Frame1(t)
             k == m.conn
  <2>1. /\ wire[t] \in Seq(Frame) /\ wire[t] # <<>> /\ m = Head(wire[t])
        /\ m \in FramesOf(wire[t]) /\ m.cmd = "NEW_CONNECTION"
    BY <1>1, <1>3, ArrivedFacts
  <2>2. /\ FramesOf(Tail(wire[t])) \subseteq FramesOf(wire[t])
        /\ \A f \in FramesOf(wire[t]) : f = m \/ f \in FramesOf(Tail(wire[t]))
    BY <2>1, TailFrames
  <2>3. IsRequest(m, k) /\ \A j : IsRequest(m, j) => j = k
    BY <2>1 DEF IsRequest
  <2>4. \A f \in FramesOf(Tail(wire[t])) : ~IsRequest(f, k)
    BY <1>3, OneRequest
  <2>5. \A p \in pending[t] : p.conn # k
    <3> SUFFICES ASSUME NEW p \in pending[t], p.conn = k PROVE FALSE
      OBVIOUS
    <3>1. ~IsRequest(m, p.conn)
      BY <2>1, OneRequest
    <3>2. QED
      BY <2>3, <3>1
  <2> HIDE DEF m, k
  <2>6. Requested(t, k)
    BY <2>1, <2>3, RequestedIs
  <2>7. \A j : Requested(t, j)' => Requested(t, j) /\ j # k
    BY <1>3, <2>2, <2>4, <2>5, RequestedIs
  <2>8. \A j : Requested(t, j) /\ j # k => Requested(t, j)'
    BY <1>3, <2>2, <2>3, RequestedIs
  <2>9. QED
    BY <2>6, <2>7, <2>8 DEF k, m
<1>4. QED
  BY <1>2, <1>3

\* The birth of the second client opens the session.
LEMMA BornMaps ==
  ASSUME NEW o \in End, NEW t \in End, t = Other(o), OneWay(o), NEW k \in Conn,
         client[t][k].state = "NONE", client'[t][k].state = "CONNECTED",
         client'[o] = client[o], \A j \in Conn : j # k => client'[t][j] = client[t][j],
         Requested(t, k), \A j : Requested(t, j)' <=> Requested(t, j) /\ j # k,
         sent' = sent, rcvd' = rcvd
  PROVE  Sessions!Open(k)
<1>1. \A d \in End : d = o \/ d = t
  BY Ends
<1>2. StillFresh(o) /\ StillShut
  BY <1>1 DEF StillFresh, StillShut
<1>3. Fresh' = Fresh /\ ShutAt' = ShutAt
  BY <1>2, StillSets
<1>4. k \in Asked /\ Asked' = Asked \ {k}
  <2>1. /\ Asked = {j \in Conn : Requested(t, j)}
        /\ Asked' = {j \in Conn : Requested(t, j)'}
    BY SetsOneWay
  <2>2. QED
    BY <2>1
<1>5. Opened' = Opened \cup {k}
  <2>1. /\ Opened = {j \in Conn : client[t][j].state # "NONE"}
        /\ Opened' = {j \in Conn : client'[t][j].state # "NONE"}
    BY SetsOneWay
  <2>2. QED
    BY <2>1
<1>6. QED
  BY <1>3, <1>4, <1>5, OpenStep

LEMMA SucceedsMaps ==
  ASSUME NEW o \in End, NEW t \in End, t = Other(o), OneWay(o), OneWayInv(o, t),
         NEW e \in End, NEW p \in pending[e], ConnectSucceeds(e, p)
  PROVE  p.conn \in Conn /\ Sessions!Open(p.conn)
<1>1. /\ e = t /\ wire'[t] = wire[t] /\ client'[o] = client[o]
      /\ pending'[t] = pending[t] \ {p}
      /\ client'[t][p.conn].state = "CONNECTED"
      /\ \A j \in Conn : j # p.conn => client'[t][j] = client[t][j]
  BY SucceedsKeeps
<1>2. p.conn \in Conn /\ client[t][p.conn].state = "NONE"
  BY <1>1, AskedFor
<1>3. /\ Requested(t, p.conn)
      /\ \A j : Requested(t, j)' <=> Requested(t, j) /\ j # p.conn
  BY <1>1, RequestGone
<1>4. sent' = sent /\ rcvd' = rcvd
  BY DEF ConnectSucceeds
<1>5. QED
  BY <1>1, <1>2, <1>3, <1>4, BornMaps

LEMMA ImmediateMaps ==
  ASSUME NEW o \in End, NEW t \in End, t = Other(o), OneWay(o), OneWayInv(o, t),
         NEW e \in End, RecvNewConnectionImmediate(e)
  PROVE  \E k \in Conn : Sessions!Open(k)
<1>1. e = t /\ wire'[t] = Tail(wire[t]) /\ client'[o] = client[o]
  BY ImmediateKeeps
<1>2. PICK k \in Conn :
        /\ k = Frame1(t).conn /\ client'[t][k].state = "CONNECTED"
        /\ \A j \in Conn : j # k => client'[t][j] = client[t][j]
  BY ImmediateKeeps
<1>3. /\ Arrived(t, "NEW_CONNECTION")
      /\ pending' = pending /\ sent' = sent /\ rcvd' = rcvd
  BY <1>1 DEF RecvNewConnectionImmediate
<1>4. client[t][k].state = "NONE"
  <2>1. Frame1(t) \in FramesOf(wire[t]) /\ Frame1(t).cmd = "NEW_CONNECTION"
    BY <1>3, ArrivedFacts DEF OneWayInv, IInv
  <2>2. QED
    BY <1>2, <2>1, AskedFor
<1>5. Requested(t, k) /\ \A j : Requested(t, j)' <=> Requested(t, j) /\ j # k
  BY <1>1, <1>2, <1>3, RequestGone
<1>6. Sessions!Open(k)
  BY <1>1, <1>2, <1>3, <1>4, <1>5, BornMaps
<1>7. QED
  BY <1>6

\* The request goes, and no client is born.
LEMMA UnbornMaps ==
  ASSUME NEW o \in End, NEW t \in End, t = Other(o), OneWay(o), NEW k \in Conn,
         client' = client,
         Requested(t, k), \A j : Requested(t, j)' <=> Requested(t, j) /\ j # k,
         sent' = sent, rcvd' = rcvd
  PROVE  Sessions!Refuse(k)
<1>1. StillFresh(o) /\ StillOpened(t) /\ StillShut
  BY DEF StillFresh, StillOpened, StillShut
<1>2. Fresh' = Fresh /\ Opened' = Opened /\ ShutAt' = ShutAt
  BY <1>1, StillSets
<1>3. k \in Asked /\ Asked' = Asked \ {k}
  <2>1. /\ Asked = {j \in Conn : Requested(t, j)}
        /\ Asked' = {j \in Conn : Requested(t, j)'}
    BY SetsOneWay
  <2>2. QED
    BY <2>1
<1>4. QED
  BY <1>2, <1>3, RefuseStep

LEMMA FailsMaps ==
  ASSUME NEW o \in End, NEW t \in End, t = Other(o), OneWay(o), OneWayInv(o, t),
         NEW e \in End, NEW p \in pending[e], ConnectFails(e, p)
  PROVE  p.conn \in Conn /\ Sessions!Refuse(p.conn)
<1>1. e = t /\ wire'[t] = wire[t] /\ pending'[t] = pending[t] \ {p}
  BY FailsKeeps
<1>2. p.conn \in Conn
  BY <1>1, AskedFor
<1>3. /\ Requested(t, p.conn)
      /\ \A j : Requested(t, j)' <=> Requested(t, j) /\ j # p.conn
  BY <1>1, RequestGone
<1>4. client' = client /\ sent' = sent /\ rcvd' = rcvd
  BY DEF ConnectFails
<1>5. QED
  BY <1>2, <1>3, <1>4, UnbornMaps

LEMMA NewRefusedMaps ==
  ASSUME NEW o \in End, NEW t \in End, t = Other(o), OneWay(o), OneWayInv(o, t),
         NEW e \in End, RecvNewConnectionRefused(e)
  PROVE  \E k \in Conn : Sessions!Refuse(k)
<1>1. e = t /\ wire'[t] = Tail(wire[t])
  BY NewRefusedKeeps
<1>2. /\ Arrived(t, "NEW_CONNECTION")
      /\ client' = client /\ pending' = pending /\ sent' = sent /\ rcvd' = rcvd
  BY <1>1 DEF RecvNewConnectionRefused
<1>3. PICK k : k = Frame1(t).conn
  OBVIOUS
<1>4. k \in Conn
  <2>1. Frame1(t) \in FramesOf(wire[t]) /\ Frame1(t).cmd = "NEW_CONNECTION"
    BY <1>2, ArrivedFacts DEF OneWayInv, IInv
  <2>2. QED
    BY <1>3, <2>1, AskedFor
<1>5. Requested(t, k) /\ \A j : Requested(t, j)' <=> Requested(t, j) /\ j # k
  BY <1>1, <1>2, <1>3, RequestGone
<1>6. Sessions!Refuse(k)
  BY <1>2, <1>4, <1>5, UnbornMaps
<1>7. QED
  BY <1>4, <1>6

\* A connect() under way is still a request.
LEMMA NewMaps ==
  ASSUME NEW o \in End, NEW t \in End, t = Other(o), OneWay(o), OneWayInv(o, t),
         NEW e \in End, RecvNewConnection(e)
  PROVE  UNCHANGED Sessions!vars
<1>1. TypeOK /\ e = t /\ wire'[t] = Tail(wire[t])
  BY NewKeeps DEF OneWayInv, IInv
<1>2. PICK p : p.conn = Frame1(t).conn /\ pending'[t] = pending[t] \cup {p}
  BY NewKeeps
<1>3. Arrived(t, "NEW_CONNECTION") /\ client' = client /\ sent' = sent /\ rcvd' = rcvd
  BY <1>1 DEF RecvNewConnection
<1> DEFINE m == Frame1(t)
<1>4. /\ wire[t] \in Seq(Frame) /\ wire[t] # <<>> /\ m = Head(wire[t])
      /\ m \in FramesOf(wire[t]) /\ m.cmd = "NEW_CONNECTION"
  BY <1>1, <1>3, ArrivedFacts
<1>5. /\ FramesOf(Tail(wire[t])) \subseteq FramesOf(wire[t])
      /\ \A f \in FramesOf(wire[t]) : f = m \/ f \in FramesOf(Tail(wire[t]))
  BY <1>4, TailFrames
<1>6. \A j : IsRequest(m, j) <=> j = p.conn
  BY <1>2, <1>4 DEF IsRequest
<1> HIDE DEF m
<1>7. \A j : Requested(t, j)' => Requested(t, j)
  BY <1>1, <1>2, <1>4, <1>5, <1>6, RequestedIs
<1>8. \A j : Requested(t, j) => Requested(t, j)'
  BY <1>1, <1>2, <1>5, <1>6, RequestedIs
<1>9. StillFresh(o) /\ StillOpened(t) /\ StillShut /\ StillAsked(t)
  BY <1>3, <1>7, <1>8 DEF StillFresh, StillOpened, StillShut, StillAsked
<1>10. Fresh' = Fresh /\ Asked' = Asked /\ Opened' = Opened /\ ShutAt' = ShutAt
  BY <1>9, StillSets
<1>11. QED
  BY <1>3, <1>10, StutterStep

\* A client that gets its connection was asked for, and not closed.
LEMMA ConnectsMaps ==
  ASSUME NEW o \in End, NEW t \in End, t = Other(o), OneWay(o),
         client'[t] = client[t], \A k \in Conn : OnlyConnects(o, k),
         wire'[t] = wire[t], pending' = pending
  PROVE  Fresh' = Fresh /\ Asked' = Asked /\ Opened' = Opened /\ ShutAt' = ShutAt
<1>1. \A d \in End : d = o \/ d = t
  BY Ends
<1>2. \A k \in Conn :
        \/ client'[o][k] = client[o][k]
        \/ /\ client[o][k].state \notin {"REQUEST", "CLOSED"}
           /\ client'[o][k].state = "CONNECTED"
  BY DEF OnlyConnects, Attached
<1>3. StillFresh(o)
  BY <1>2 DEF StillFresh
<1>4. StillShut
  BY <1>1, <1>2 DEF StillShut
<1>5. StillOpened(t) /\ StillAsked(t)
  BY DEF StillOpened, StillAsked, Requested
<1>6. QED
  BY <1>3, <1>4, <1>5, StillSets

LEMMA EstablishedMaps ==
  ASSUME NEW o \in End, NEW t \in End, t = Other(o), OneWay(o), OneWayInv(o, t),
         NEW e \in End, RecvEstablished(e)
  PROVE  UNCHANGED Sessions!vars
<1>1. wire'[t] = wire[t] /\ client'[t] = client[t] /\ \A k \in Conn : OnlyConnects(o, k)
  BY EstablishedKeeps
<1>2. pending' = pending /\ sent' = sent /\ rcvd' = rcvd
  BY DEF RecvEstablished
<1>3. Fresh' = Fresh /\ Asked' = Asked /\ Opened' = Opened /\ ShutAt' = ShutAt
  BY <1>1, <1>2, ConnectsMaps
<1>4. QED
  BY <1>2, <1>3, StutterStep

\* Clients close, and nothing else happens to a session.
LEMMA ClosesMaps ==
  ASSUME NEW o \in End, NEW t \in End, t = Other(o), OneWay(o),
         \A d \in End, k \in Conn :
           \/ client'[d][k] = client[d][k]
           \/ client[d][k].state # "NONE" /\ client'[d][k].state = "CLOSED",
         \A k \in Conn : Requested(t, k)' => Requested(t, k),
         sent' = sent, rcvd' = rcvd
  PROVE  Sessions!Shut
<1>1. \A j \in Conn : Origin[j] = o
  BY DEF OneWay
<1>2. ShutAt \subseteq ShutAt'
  <2>1. \A d \in End, k \in Conn : client[d][k].state = "CLOSED" => client'[d][k].state = "CLOSED"
    OBVIOUS
  <2>2. QED
    BY <2>1 DEF ShutAt
<1>3. Fresh' = {j \in Fresh : <<Origin[j], j>> \notin ShutAt'}
  <2>1. /\ Fresh = {j \in Conn : client[o][j].state = "REQUEST"}
        /\ Fresh' = {j \in Conn : client'[o][j].state = "REQUEST"}
        /\ \A j \in Conn : <<o, j>> \in ShutAt' <=> client'[o][j].state = "CLOSED"
    BY SetsOneWay
  <2>2. \A j \in Conn : <<Origin[j], j>> \in ShutAt' <=> client'[o][j].state = "CLOSED"
    BY <1>1, <2>1
  <2>3. \A j \in Conn : client'[o][j].state = "REQUEST" <=>
          client[o][j].state = "REQUEST" /\ client'[o][j].state # "CLOSED"
    OBVIOUS
  <2>4. QED
    BY <2>1, <2>2, <2>3
<1>4. Asked' \subseteq Asked
  <2>1. /\ Asked = {j \in Conn : Requested(t, j)}
        /\ Asked' = {j \in Conn : Requested(t, j)'}
    BY SetsOneWay
  <2>2. QED
    BY <2>1
<1>5. Opened' = Opened
  <2>1. StillOpened(t)
    BY DEF StillOpened
  <2>2. QED
    BY <2>1, StillSets
<1>6. QED
  BY <1>2, <1>3, <1>4, <1>5, ShutStep

LEMMA FailedMaps ==
  ASSUME NEW o \in End, NEW t \in End, t = Other(o), OneWay(o), OneWayInv(o, t),
         NEW e \in End, RecvFailedOrEof(e)
  PROVE  Sessions!Shut
<1>1. /\ wire'[t] = wire[t] /\ client'[t] = client[t]
      /\ \A k \in Conn : client'[o][k] \in {client[o][k], Closed}
  BY FailedKeeps
<1>2. pending' = pending /\ sent' = sent /\ rcvd' = rcvd
  BY DEF RecvFailedOrEof
<1>3. \A k \in Conn : client[o][k].state # "NONE"
  BY DEF OneWayInv, Paired, StatesOf
<1>4. \A d \in End, k \in Conn :
        \/ client'[d][k] = client[d][k]
        \/ client[d][k].state # "NONE" /\ client'[d][k].state = "CLOSED"
  BY <1>1, <1>3, Ends DEF Closed
<1>5. \A k \in Conn : Requested(t, k)' => Requested(t, k)
  BY <1>1, <1>2 DEF Requested
<1>6. QED
  BY <1>2, <1>4, <1>5, ClosesMaps

LEMMA LostMaps ==
  ASSUME NEW o \in End, NEW t \in End, t = Other(o), OneWay(o), OneWayInv(o, t),
         NEW e \in End, PeerLost(e)
  PROVE  Sessions!Shut
<1>1. \A d \in End, k \in Conn :
        \/ client'[d][k] = client[d][k]
        \/ client[d][k].state # "NONE" /\ client'[d][k].state = "CLOSED"
  BY LostKeeps
<1>2. wire' = [wire EXCEPT ![e] = <<>>] /\ pending' = pending /\ sent' = sent /\ rcvd' = rcvd
  BY DEF PeerLost
<1>3. FramesOf(wire'[t]) \subseteq FramesOf(wire[t])
  BY <1>2, FewFrames DEF OneWayInv, IInv, TypeOK
<1>4. \A k \in Conn : Requested(t, k)' => Requested(t, k)
  BY <1>2, <1>3, RequestedIs
<1>5. QED
  BY <1>1, <1>2, <1>4, ClosesMaps

\* The item handed over is the next one, and was sent.
LEMMA RecvDataMaps ==
  ASSUME NEW o \in End, NEW t \in End, t = Other(o), OneWay(o), OneWayInv(o, t),
         NEW e \in End, RecvData(e)
  PROVE  \E k \in Conn : Sessions!Deliver(e, k)
<1>1. PICK k, n : Delivers(o, t, e, k, n)
  BY RecvDataKeeps
<1>2. /\ k \in Conn /\ Attached(e, k) /\ client[t][k].state # "NONE"
      /\ rcvd' = [rcvd EXCEPT ![e][k] = Append(@, [conn |-> k, n |-> n])]
      /\ client'[t] = client[t] /\ \A j \in Conn : OnlyConnects(o, j)
      /\ n = First(o, e, k) /\ n <= Last(o, e, k)
      /\ wire'[e] = Tail(wire[e]) /\ wire'[Other(e)] = wire[Other(e)]
      /\ pending' = pending /\ sent' = sent
  BY <1>1 DEF Delivers
<1>3. TypeOK /\ Arrived(e, "DATA")
  BY DEF RecvData, OneWayInv, IInv
<1>4. o # t /\ o = Other(t) /\ \A d \in End : d = o \/ d = t
  BY Ends
<1> DEFINE x == [conn |-> k, n |-> n]
<1>5. x = Sessions!ItemAt(e, k, Len(rcvd[e][k]) + 1)
  <2> DEFINE l == Len(rcvd[e][k])
  <2>1. l \in Nat
    BY <1>2, <1>3, LenProperties DEF TypeOK
  <2>2. n = IF e = o THEN l ELSE l + 1
    <3>1. n = l + (IF e = o THEN 0 ELSE 1)
      BY <1>2 DEF First
    <3> HIDE DEF l
    <3>2. QED
      BY <2>1, <3>1
  <2>3. Origin[k] = o
    BY <1>2 DEF OneWay
  <2>4. Sessions!ItemAt(e, k, l + 1) = [conn |-> k, n |-> IF e = o THEN (l + 1) - 1 ELSE l + 1]
    BY <2>3 DEF Sessions!ItemAt
  <2> HIDE DEF l
  <2>5. (l + 1) - 1 = l
    BY <2>1
  <2>6. QED
    BY <2>2, <2>4, <2>5 DEF l
<1>6. \E d \in End \ {e} : x.n <= sent[d][k]
  <2>1. Other(e) \in End \ {e}
    BY <1>4
  <2>2. n <= sent[Other(e)][k]
    BY <1>2, <1>4 DEF Last
  <2>3. QED
    BY <2>1, <2>2
<1>7. <<e, k>> \notin ShutAt /\ k \in Opened
  BY <1>2, SetsOneWay DEF Attached
<1>8. StillAsked(t)
  <2>1. CASE e = o
    BY <1>2, <1>4, <2>1 DEF StillAsked, Requested
  <2>2. CASE e = t
    <3>1. /\ wire[t] \in Seq(Frame) /\ wire[t] # <<>> /\ Frame1(t) = Head(wire[t])
          /\ Frame1(t).cmd = "DATA"
      BY <1>3, <2>2, ArrivedFacts
    <3>2. /\ FramesOf(Tail(wire[t])) \subseteq FramesOf(wire[t])
          /\ \A f \in FramesOf(wire[t]) : f = Frame1(t) \/ f \in FramesOf(Tail(wire[t]))
      BY <3>1, TailFrames
    <3>3. \A j : ~IsRequest(Frame1(t), j)
      BY <3>1 DEF IsRequest
    <3>4. \A j : (\E f \in FramesOf(wire'[t]) : IsRequest(f, j))
                  <=> (\E f \in FramesOf(wire[t]) : IsRequest(f, j))
      BY <1>2, <2>2, <3>2, <3>3
    <3>5. QED
      BY <1>2, <3>4, RequestedIs DEF StillAsked
  <2>3. QED
    BY <1>4, <2>1, <2>2
<1>9. StillFresh(o) /\ StillShut /\ StillOpened(t)
  <2>1. \A j \in Conn :
          \/ client'[o][j] = client[o][j]
          \/ /\ client[o][j].state \notin {"REQUEST", "CLOSED"}
             /\ client'[o][j].state = "CONNECTED"
    BY <1>2 DEF OnlyConnects, Attached
  <2>2. StillShut
    BY <1>2, <1>4, <2>1 DEF StillShut
  <2>3. QED
    BY <1>2, <2>1, <2>2 DEF StillFresh, StillOpened
<1>10. Fresh' = Fresh /\ Asked' = Asked /\ Opened' = Opened /\ ShutAt' = ShutAt
  BY <1>8, <1>9, StillSets
<1>11. rcvd' = [rcvd EXCEPT ![e][k] = Append(@, x)]
  BY <1>2
<1> HIDE DEF x
<1>12. Sessions!Deliver(e, k)
  BY <1>2, <1>5, <1>6, <1>7, <1>10, <1>11, DeliverStep
<1>13. QED
  BY <1>2, <1>12

\* A step that leaves the clients, the requests and the bytes alone.
LEMMA NothingMaps ==
  ASSUME UNCHANGED <<client, pending, wire, sent, rcvd>>
  PROVE  UNCHANGED Sessions!vars
<1>1. Fresh' = Fresh /\ Asked' = Asked /\ Opened' = Opened /\ ShutAt' = ShutAt
  BY DEF Fresh, Asked, Opened, ShutAt, Requested
<1>2. QED
  BY <1>1, StutterStep

LEMMA InitMaps ==
  ASSUME NEW o \in End, OneWay(o), Init
  PROVE  Sessions!Init
<1> DEFINE t == Other(o)
<1>1. t \in End /\ o # t /\ \A d \in End : d = o \/ d = t
  BY TwoEnds
<1>2. \A k \in Conn : /\ client[o][k].state = "REQUEST"
                      /\ client[t][k].state = "NONE"
  BY <1>1 DEF Init, OneWay, Asking, Unborn
<1>3. \A k \in Conn : Origin[k] = o /\ Other(Origin[k]) = t
  BY DEF OneWay
<1> HIDE DEF t
<1>4. Fresh = Conn
  BY <1>2, <1>3 DEF Fresh
<1>5. Opened = {}
  BY <1>2, <1>3 DEF Opened
<1>6. Asked = {}
  <2>1. \A k \in Conn : ~Requested(t, k)
    BY <1>1 DEF Init, Requested
  <2>2. QED
    BY <1>3, <2>1 DEF Asked
<1>7. ShutAt = {}
  <2>1. \A d \in End, k \in Conn : client[d][k].state # "CLOSED"
    BY <1>1, <1>2
  <2>2. QED
    BY <2>1 DEF ShutAt
<1>8. QED
  BY <1>4, <1>5, <1>6, <1>7 DEF Sessions!Init, Init, Fresh, Opened, Asked, ShutAt

LEMMA StepMaps ==
  ASSUME NEW o \in End, NEW t \in End, t = Other(o), OneWay(o), OneWayInv(o, t), [Next]_vars
  PROVE  [Sessions!Next]_(Sessions!vars)
<1>1. ASSUME NEW k \in Conn, RequestConnect(k) \/ RequestRefused(k)
      PROVE  Sessions!Next
  BY <1>1, RequestMaps, RefusedMaps DEF Sessions!Next
<1>2. ASSUME NEW e \in End, NEW k \in Conn, ClientData(e, k) \/ ClientEof(e, k)
      PROVE  Sessions!Next
  BY <1>2, DataMaps, NeverOneWay DEF Sessions!Next
<1>3. ASSUME NEW e \in End, Receive(e)
      PROVE  Sessions!Next \/ UNCHANGED Sessions!vars
  <2>1. CASE RecvNewConnection(e)
    BY <2>1, NewMaps
  <2>2. CASE RecvNewConnectionImmediate(e)
    BY <2>2, ImmediateMaps DEF Sessions!Next
  <2>3. CASE RecvNewConnectionRefused(e)
    BY <2>3, NewRefusedMaps DEF Sessions!Next
  <2>4. CASE RecvEstablished(e)
    BY <2>4, EstablishedMaps
  <2>5. CASE RecvFailedOrEof(e)
    BY <2>5, FailedMaps DEF Sessions!Next
  <2>6. CASE RecvData(e)
    BY <2>6, RecvDataMaps DEF Sessions!Next
  <2>7. QED
    BY <1>3, <2>1, <2>2, <2>3, <2>4, <2>5, <2>6, NeverOneWay DEF Receive
<1>4. ASSUME NEW e \in End, Callback(e)
      PROVE  Sessions!Next
  <2>1. ASSUME NEW p \in pending[e], ConnectSucceeds(e, p) \/ ConnectFails(e, p)
        PROVE  Sessions!Next
    BY <2>1, SucceedsMaps, FailsMaps DEF Sessions!Next
  <2>2. QED
    BY <1>4, <2>1, NeverOneWay DEF Callback
<1>5. ASSUME NEW e \in End, PeerLost(e) PROVE Sessions!Next
  BY <1>5, LostMaps DEF Sessions!Next
<1>6. ASSUME NEW e \in End, UseAfterDelete(e) PROVE UNCHANGED Sessions!vars
  <2>1. UNCHANGED <<client, pending, wire, sent, rcvd>>
    BY <1>6 DEF UseAfterDelete
  <2>2. QED
    BY <2>1, NothingMaps
<1>7. CASE UNCHANGED vars
  BY <1>7, NothingMaps DEF vars
<1>8. QED
  BY <1>1, <1>2, <1>3, <1>4, <1>5, <1>6, <1>7 DEF Next

\* A tunnel whose sessions all start at one process, and whose parties do not
\* hang up first, is a set of independent pipes: whatever the order of
\* requests, connect() callbacks, frames and failures, and wherever the link
\* breaks, no byte is lost, repeated, reordered or handed to another session
\* before an end of its session shuts.  (The channels and callbacks of
\* proxy.cpp implement Pipes, for any number of sessions, channels and data.)
THEOREM OneWayImplementsPipes ==
  ASSUME NEW o \in End, OneWay(o)
  PROVE  Spec => ImplementsPipes
<1>1. Other(o) \in End
  BY TwoEnds
<1>2. Init => Sessions!Init
  BY InitMaps
<1>3. OneWayInv(o, Other(o)) /\ [Next]_vars => [Sessions!Next]_(Sessions!vars)
  BY <1>1, StepMaps
<1>4. Spec => []OneWayInv(o, Other(o))
  BY OneWayInductive
<1>5. QED
  BY <1>2, <1>3, <1>4, PTL DEF Spec, Sessions!Spec, ImplementsPipes
=============================================================================
