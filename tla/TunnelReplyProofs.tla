------------------------- MODULE TunnelReplyProofs --------------------------
(***************************************************************************)
(* The SOCKS reply of a session is made once and stays in front of the     *)
(* target's bytes, for any number of sessions, channels and data units.    *)
(***************************************************************************)
EXTENDS TunnelProofs

-----------------------------------------------------------------------------
(***************************************************************************)
(* Sequences of frames.                                                    *)
(***************************************************************************)
NoItems(q, k) == \A i \in DOMAIN q : ~IsItem(q[i], k)

\* The items of k in q are in order, and no later than s
Ordered(q, k, s) ==
  \A i \in DOMAIN q : IsItem(q[i], k) =>
    /\ q[i].n <= s
    /\ \A j \in DOMAIN q : IsItem(q[j], k) /\ i < j => q[i].n < q[j].n

Unconnected == {"NONE", "NEED_RENUMBER"}

Replies(q, k, state, s) ==
  /\ state \in Unconnected => NoItems(q, k)
  /\ Ordered(q, k, s)

\* r is a part of q
Part(r, q) ==
  \E d \in Nat : \A i \in DOMAIN r : i + d \in DOMAIN q /\ r[i] = q[i + d]

LEMMA PartReplies ==
  ASSUME NEW q \in Seq(Frame), NEW r \in Seq(Frame), Part(r, q),
         NEW k, NEW state, NEW s, Replies(q, k, state, s)
  PROVE  Replies(r, k, state, s)
<1>1. PICK d \in Nat : \A i \in DOMAIN r : i + d \in DOMAIN q /\ r[i] = q[i + d]
  BY DEF Part
<1>2. DOMAIN r = 1 .. Len(r) /\ Len(r) \in Nat
  BY LenProperties
<1>3. state \in Unconnected => NoItems(r, k)
  BY <1>1 DEF Replies, NoItems
<1>4. ASSUME NEW i \in DOMAIN r, IsItem(r[i], k)
      PROVE  r[i].n <= s
  BY <1>1, <1>4 DEF Replies, Ordered
<1>5. ASSUME NEW i \in DOMAIN r, NEW j \in DOMAIN r, IsItem(r[i], k), IsItem(r[j], k), i < j
      PROVE  r[i].n < r[j].n
  <2>1. /\ i + d \in DOMAIN q /\ r[i] = q[i + d]
        /\ j + d \in DOMAIN q /\ r[j] = q[j + d]
    BY <1>1
  <2>2. i + d < j + d
    BY <1>2, <1>5
  <2>3. QED
    BY <1>5, <2>1, <2>2 DEF Replies, Ordered
<1>6. QED
  BY <1>3, <1>4, <1>5 DEF Replies, Ordered

\* Ordered items behind ordered items.
LEMMA AppendOrdered ==
  ASSUME NEW q \in Seq(Frame), NEW f \in Seq(Frame), NEW k, NEW s \in Nat,
         Ordered(q, k, s), Ordered(f, k, s),
         \A i \in DOMAIN q, j \in DOMAIN f :
           IsItem(q[i], k) /\ IsItem(f[j], k) => q[i].n < f[j].n
  PROVE  Ordered(q \o f, k, s)
<1>1. /\ Len(q) \in Nat /\ Len(f) \in Nat
      /\ DOMAIN q = 1 .. Len(q) /\ DOMAIN f = 1 .. Len(f)
      /\ DOMAIN (q \o f) = 1 .. Len(q) + Len(f)
  BY ConcatProperties, LenProperties
<1>2. ASSUME NEW i \in DOMAIN (q \o f)
      PROVE  \/ i \in DOMAIN q /\ (q \o f)[i] = q[i]
             \/ ~(i <= Len(q)) /\ i - Len(q) \in DOMAIN f /\ (q \o f)[i] = f[i - Len(q)]
  <2>1. (q \o f)[i] = IF i <= Len(q) THEN q[i] ELSE f[i - Len(q)]
    BY <1>1, ConcatProperties
  <2>2. CASE i <= Len(q)
    BY <1>1, <2>1, <2>2
  <2>3. CASE ~(i <= Len(q))
    BY <1>1, <2>1, <2>3
  <2>4. QED
    BY <2>2, <2>3
<1>3. ASSUME NEW i \in DOMAIN (q \o f), IsItem((q \o f)[i], k)
      PROVE  (q \o f)[i].n <= s
  BY <1>2, <1>3 DEF Ordered
<1>4. ASSUME NEW i \in DOMAIN (q \o f), NEW j \in DOMAIN (q \o f),
             IsItem((q \o f)[i], k), IsItem((q \o f)[j], k), i < j
      PROVE  (q \o f)[i].n < (q \o f)[j].n
  <2>1. CASE i \in DOMAIN q /\ (q \o f)[i] = q[i] /\ j \in DOMAIN q /\ (q \o f)[j] = q[j]
    BY <1>4, <2>1 DEF Ordered
  <2>2. CASE /\ i \in DOMAIN q /\ (q \o f)[i] = q[i]
             /\ j - Len(q) \in DOMAIN f /\ (q \o f)[j] = f[j - Len(q)]
    BY <1>4, <2>2
  <2>3. CASE /\ i - Len(q) \in DOMAIN f /\ (q \o f)[i] = f[i - Len(q)]
             /\ j - Len(q) \in DOMAIN f /\ (q \o f)[j] = f[j - Len(q)]
    <3>1. i - Len(q) < j - Len(q)
      BY <1>1, <1>4
    <3>2. QED
      BY <1>4, <2>3, <3>1 DEF Ordered
  <2>4. ~(~(i <= Len(q)) /\ j \in DOMAIN q)
    BY <1>1, <1>4
  <2>5. QED
    BY <1>2, <2>1, <2>2, <2>3, <2>4
<1>5. QED
  BY <1>3, <1>4 DEF Ordered

LEMMA AppendNoItems ==
  ASSUME NEW q \in Seq(Frame), NEW f \in Seq(Frame), NEW k, NoItems(q, k), NoItems(f, k)
  PROVE  NoItems(q \o f, k)
<1>1. /\ Len(q) \in Nat /\ Len(f) \in Nat
      /\ DOMAIN q = 1 .. Len(q) /\ DOMAIN f = 1 .. Len(f)
      /\ DOMAIN (q \o f) = 1 .. Len(q) + Len(f)
  BY ConcatProperties, LenProperties
<1>2. ASSUME NEW i \in DOMAIN (q \o f) PROVE ~IsItem((q \o f)[i], k)
  <2>1. (q \o f)[i] = IF i <= Len(q) THEN q[i] ELSE f[i - Len(q)]
    BY <1>1, ConcatProperties
  <2>2. CASE i <= Len(q)
    BY <1>1, <2>1, <2>2 DEF NoItems
  <2>3. CASE ~(i <= Len(q))
    <3>1. i - Len(q) \in DOMAIN f
      BY <1>1, <2>3
    <3>2. QED
      BY <2>1, <2>3, <3>1 DEF NoItems
  <2>4. QED
    BY <2>2, <2>3
<1>3. QED
  BY <1>2 DEF NoItems

\* Frames that are no items of k.
LEMMA AppendQuiet ==
  ASSUME NEW q \in Seq(Frame), NEW f \in Seq(Frame), NEW k, NoItems(f, k),
         NEW state, NEW s \in Nat, Replies(q, k, state, s)
  PROVE  Replies(q \o f, k, state, s)
<1>1. Ordered(f, k, s)
  BY DEF NoItems, Ordered
<1>2. Ordered(q \o f, k, s)
  BY <1>1, AppendOrdered DEF Replies, NoItems
<1>3. QED
  BY <1>2, AppendNoItems DEF Replies

\* The reply, and nothing was there before.
LEMMA AppendReply ==
  ASSUME NEW q \in Seq(Frame), NEW f \in Seq(Frame), NEW k, NoItems(q, k),
         \A i \in DOMAIN f : IsItem(f[i], k) => f[i].n = 0,
         \A i, j \in DOMAIN f : IsItem(f[i], k) /\ IsItem(f[j], k) => i = j,
         NEW state, state \notin Unconnected, NEW s \in Nat
  PROVE  Replies(q \o f, k, state, s)
<1>0. DOMAIN f = 1 .. Len(f) /\ Len(f) \in Nat
  BY LenProperties
<1>1. Ordered(f, k, s)
  BY <1>0 DEF Ordered
<1>2. Ordered(q, k, s)
  BY DEF NoItems, Ordered
<1>3. Ordered(q \o f, k, s)
  BY <1>1, <1>2, AppendOrdered DEF NoItems
<1>4. QED
  BY <1>3 DEF Replies

-----------------------------------------------------------------------------
(***************************************************************************)
(* What is in flight, when a frame is used or frames are written.          *)
(***************************************************************************)
LEMMA RepliesIsProperty ==
  ReplyOnceAndFirst <=>
    \A k \in Conn : Replies(InFlight(k), k, client[Other(Origin[k])][k].state,
                            sent[Other(Origin[k])][k])
BY DEF ReplyOnceAndFirst, Replies, Ordered, NoItems, Unconnected

LEMMA EndsOf ==
  ASSUME NEW k \in Conn
  PROVE  /\ Origin[k] \in End /\ Other(Origin[k]) \in End /\ Other(Origin[k]) # Origin[k]
         /\ \A e \in End : e # Origin[k] => e = Other(Origin[k]) /\ Other(e) = Origin[k]
         /\ \A e \in End : e = Origin[k] => Other(e) = Other(Origin[k])
BY TwoEnds, TunnelConstants

LEMMA PartOfConcat ==
  ASSUME NEW a \in Seq(Frame), NEW b \in Seq(Frame)
  PROVE  /\ Part(a, a \o b) /\ Part(b, a \o b) /\ Part(a \o b, a \o b) /\ Part(<<>>, a \o b)
         /\ a # <<>> => Part(Tail(a) \o b, a \o b)
<1>1. /\ Len(a) \in Nat /\ Len(b) \in Nat
      /\ DOMAIN a = 1 .. Len(a) /\ DOMAIN b = 1 .. Len(b)
      /\ a \o b \in Seq(Frame)
      /\ DOMAIN (a \o b) = 1 .. Len(a) + Len(b)
      /\ \A i \in 1 .. Len(a) + Len(b) :
           (a \o b)[i] = IF i <= Len(a) THEN a[i] ELSE b[i - Len(a)]
  BY ConcatProperties, LenProperties
<1>2. Part(a, a \o b)
  <2>1. \A i \in DOMAIN a : i + 0 \in DOMAIN (a \o b) /\ a[i] = (a \o b)[i + 0]
    BY <1>1
  <2>2. QED
    BY <2>1 DEF Part
<1>3. Part(b, a \o b)
  <2>1. \A i \in DOMAIN b : i + Len(a) \in DOMAIN (a \o b) /\ b[i] = (a \o b)[i + Len(a)]
    BY <1>1
  <2>2. QED
    BY <1>1, <2>1 DEF Part
<1>4. Part(a \o b, a \o b)
  <2>1. \A i \in DOMAIN (a \o b) : i + 0 \in DOMAIN (a \o b) /\ (a \o b)[i] = (a \o b)[i + 0]
    BY <1>1
  <2>2. QED
    BY <2>1 DEF Part
<1>5. Part(<<>>, a \o b)
  BY DEF Part
<1>6. ASSUME a # <<>> PROVE Part(Tail(a) \o b, a \o b)
  <2> DEFINE t == Tail(a)
  <2>1. /\ t \in Seq(Frame) /\ Len(t) = Len(a) - 1
        /\ \A i \in 1 .. Len(t) : t[i] = a[i + 1]
    BY <1>6, HeadTailProperties
  <2> HIDE DEF t
  <2>2. /\ DOMAIN (t \o b) = 1 .. Len(t) + Len(b)
        /\ \A i \in 1 .. Len(t) + Len(b) : (t \o b)[i] = IF i <= Len(t) THEN t[i] ELSE b[i - Len(t)]
    BY <2>1, ConcatProperties, LenProperties
  <2>3. ASSUME NEW i \in DOMAIN (t \o b)
        PROVE  i + 1 \in DOMAIN (a \o b) /\ (t \o b)[i] = (a \o b)[i + 1]
    <3>1. i + 1 \in 1 .. Len(a) + Len(b) /\ i \in 1 .. Len(t) + Len(b)
      BY <1>1, <2>1, <2>2
    <3>2. CASE i <= Len(t)
      BY <1>1, <2>1, <2>2, <3>1, <3>2
    <3>3. CASE ~(i <= Len(t))
      <4>1. i - Len(t) = (i + 1) - Len(a)
        BY <1>1, <2>1, <3>1
      <4>2. QED
        BY <1>1, <2>1, <2>2, <3>1, <3>3, <4>1
    <3>4. QED
      BY <3>2, <3>3
  <2>4. Part(t \o b, a \o b)
    BY <2>3 DEF Part
  <2>5. QED
    BY <2>4 DEF t
<1>7. QED
  BY <1>2, <1>3, <1>4, <1>5, <1>6

LEMMA InFlightType ==
  ASSUME TypeOK, NEW k \in Conn
  PROVE  /\ InFlight(k) \in Seq(Frame)
         /\ InFlight(k) = wire[Origin[k]] \o obuf[Other(Origin[k])]
         /\ wire[Origin[k]] \in Seq(Frame) /\ obuf[Other(Origin[k])] \in Seq(Frame)
<1>1. wire[Origin[k]] \in Seq(Frame) /\ obuf[Other(Origin[k])] \in Seq(Frame)
  BY EndsOf DEF TypeOK
<1>2. InFlight(k) = wire[Origin[k]] \o obuf[Other(Origin[k])]
  BY DEF InFlight
<1>3. QED
  BY <1>1, <1>2, ConcatProperties

\* The client of k that makes its items sends none, and does not become one
\* that is not connected
Calm(k) ==
  LET e == Other(Origin[k]) IN
  /\ sent'[e][k] = sent[e][k]
  /\ client'[e][k].state \in Unconnected => client[e][k].state \in Unconnected

RepliesNext(q, k) ==
  Replies(q, k, client'[Other(Origin[k])][k].state, sent'[Other(Origin[k])][k])

\* What is in flight for k is less, or more of other sessions.
LEMMA CalmReplies ==
  ASSUME TypeOK, ReplyOnceAndFirst, NEW k \in Conn, Calm(k)
  PROVE  /\ \A r \in Seq(Frame) : Part(r, InFlight(k)) => RepliesNext(r, k)
         /\ \A f \in Seq(Frame) : NoItems(f, k) => RepliesNext(InFlight(k) \o f, k)
         /\ RepliesNext(<<>>, k)
<1> DEFINE e == Other(Origin[k])
           q == InFlight(k)
<1>1. e \in End /\ q \in Seq(Frame) /\ sent[e][k] \in Nat
  <2>0. e \in End
    BY EndsOf
  <2>1. sent[e][k] \in 0 .. MaxSend
    BY <2>0 DEF TypeOK
  <2>2. sent[e][k] \in Nat
    BY <2>1, TunnelConstants
  <2>3. q \in Seq(Frame)
    BY InFlightType
  <2>4. QED
    BY <2>0, <2>2, <2>3
<1>2. Replies(q, k, client[e][k].state, sent[e][k])
  BY RepliesIsProperty
<1>3. Replies(q, k, client'[e][k].state, sent'[e][k])
  BY <1>2 DEF Calm, Replies
<1>4. ASSUME NEW r \in Seq(Frame), Part(r, q) PROVE RepliesNext(r, k)
  BY <1>1, <1>3, <1>4, PartReplies DEF RepliesNext
<1>5. ASSUME NEW f \in Seq(Frame), NoItems(f, k) PROVE RepliesNext(q \o f, k)
  <2>1. sent'[e][k] \in Nat
    BY <1>1 DEF Calm
  <2>2. QED
    BY <1>1, <1>3, <1>5, <2>1, AppendQuiet DEF RepliesNext
<1>6. RepliesNext(<<>>, k)
  BY DEF RepliesNext, Replies, NoItems, Ordered
<1>7. QED
  BY <1>4, <1>5, <1>6

LEMMA RepliesAfter ==
  ASSUME \A k \in Conn :
           RepliesNext(wire'[Origin[k]] \o obuf'[Other(Origin[k])], k)
  PROVE  ReplyOnceAndFirst'
<1>1. \A k \in Conn : InFlight(k)' = wire'[Origin[k]] \o obuf'[Other(Origin[k])]
  BY DEF InFlight
<1>2. \A k \in Conn : RepliesNext(InFlight(k)', k)
  BY <1>1
<1>3. QED
  BY <1>2 DEF ReplyOnceAndFirst, RepliesNext, Replies, Ordered, NoItems, Unconnected

\* Nothing was written.
LEMMA LessInFlight ==
  ASSUME TypeOK, ReplyOnceAndFirst, NEW k \in Conn, Calm(k),
         \/ /\ wire'[Origin[k]] = wire[Origin[k]]
            /\ obuf'[Other(Origin[k])] \in {obuf[Other(Origin[k])], <<>>}
         \/ /\ obuf'[Other(Origin[k])] = obuf[Other(Origin[k])]
            /\ \/ wire'[Origin[k]] = <<>>
               \/ wire[Origin[k]] # <<>> /\ wire'[Origin[k]] = Tail(wire[Origin[k]])
  PROVE  RepliesNext(wire'[Origin[k]] \o obuf'[Other(Origin[k])], k)
<1> DEFINE a == wire[Origin[k]]
           b == obuf[Other(Origin[k])]
           r == wire'[Origin[k]] \o obuf'[Other(Origin[k])]
<1>1. a \in Seq(Frame) /\ b \in Seq(Frame) /\ InFlight(k) = a \o b
  BY InFlightType
<1>2. a \o b \in Seq(Frame) /\ a \o <<>> = a /\ <<>> \o b = b
  BY <1>1, ConcatProperties, ConcatEmptySeq
<1>3. \A q \in Seq(Frame) : Part(q, a \o b) => RepliesNext(q, k)
  BY <1>1, CalmReplies
<1>4. CASE r = a \o b
  BY <1>1, <1>2, <1>3, <1>4, PartOfConcat
<1>5. CASE r = a \o <<>>
  BY <1>1, <1>2, <1>3, <1>5, PartOfConcat
<1>6. CASE r = <<>> \o b
  BY <1>1, <1>2, <1>3, <1>6, PartOfConcat
<1>7. CASE a # <<>> /\ r = Tail(a) \o b
  <2>1. Tail(a) \in Seq(Frame)
    BY <1>1, <1>7, HeadTailProperties
  <2>2. Tail(a) \o b \in Seq(Frame)
    BY <1>1, <2>1, ConcatProperties
  <2>3. Part(Tail(a) \o b, a \o b)
    BY <1>1, <1>7, PartOfConcat
  <2>4. QED
    BY <1>3, <1>7, <2>2, <2>3
<1>8. QED
  BY <1>4, <1>5, <1>6, <1>7

\* Frames were written by e.
LEMMA WriteReplies ==
  ASSUME TypeOK, ReplyOnceAndFirst, NEW e \in End, NEW w, NEW f \in Seq(Frame),
         \/ w = wire
         \/ w = Consumed(e) /\ wire[e] # <<>>,
         Write(e, w, f),
         \A k \in Conn : Origin[k] = e => Calm(k),
         \A k \in Conn : Origin[k] # e => RepliesNext(InFlight(k) \o f, k)
  PROVE  ReplyOnceAndFirst'
<1>1. /\ Other(e) \in End /\ Other(e) # e
      /\ wire \in [End -> Seq(Frame)] /\ obuf \in [End -> Seq(Frame)]
  BY TwoEnds DEF TypeOK
<1>2. w[Other(e)] = wire[Other(e)] /\ w \in [End -> Seq(Frame)]
  BY <1>1, ConsumedType DEF Consumed
<1>3. /\ wire'[Other(e)] = IF peer[Other(e)] = "up"
                           THEN wire[Other(e)] \o obuf[e] \o f ELSE <<>>
      /\ wire'[e] = w[e]
      /\ obuf'[e] = <<>> /\ obuf'[Other(e)] = obuf[Other(e)]
  BY <1>1, <1>2 DEF Write
<1>4. ASSUME NEW k \in Conn, Origin[k] = e
      PROVE  RepliesNext(wire'[Origin[k]] \o obuf'[Other(Origin[k])], k)
  <2>0. Consumed(e)[e] = Tail(wire[e])
    BY <1>1 DEF Consumed
  <2>1. wire'[e] = wire[e] \/ (wire[e] # <<>> /\ wire'[e] = Tail(wire[e]))
    <3>0. wire'[e] = w[e]
      BY <1>3
    <3>1. CASE w = wire
      BY ONLY <3>0, <3>1
    <3>2. CASE w = Consumed(e) /\ wire[e] # <<>>
      BY <2>0, <3>0, <3>2
    <3>3. QED
      BY <3>1, <3>2
  <2>2. QED
    BY <1>3, <1>4, <2>1, LessInFlight
<1>5. ASSUME NEW k \in Conn, Origin[k] # e
      PROVE  RepliesNext(wire'[Origin[k]] \o obuf'[Other(Origin[k])], k)
  <2>1. Origin[k] = Other(e) /\ Other(Origin[k]) = e
    BY <1>5, EndsOf, TwoEnds
  <2>2. InFlight(k) = wire[Other(e)] \o obuf[e]
    BY <2>1, InFlightType
  <2>3. CASE peer[Other(e)] = "up"
    <3> DEFINE a == wire[Other(e)] \o obuf[e] \o f
    <3>1. wire[Other(e)] \in Seq(Frame) /\ obuf[e] \in Seq(Frame) /\ a \in Seq(Frame)
      BY <1>1, ConcatProperties
    <3>2. a \o <<>> = a
      BY <3>1, ConcatEmptySeq
    <3>3. wire'[Origin[k]] \o obuf'[Other(Origin[k])] = InFlight(k) \o f
      BY <1>3, <2>1, <2>2, <2>3, <3>2
    <3>4. QED
      BY <1>5, <3>3
  <2>4. CASE peer[Other(e)] # "up"
    <3>1. wire'[Origin[k]] \o obuf'[Other(Origin[k])] = <<>>
      BY <1>3, <2>1, <2>4, ConcatEmptySeq
    <3>2. RepliesNext(<<>>, k)
      BY DEF RepliesNext, Replies, NoItems, Ordered
    <3>3. QED
      BY <3>1, <3>2
  <2>5. QED
    BY <2>3, <2>4
<1>6. QED
  BY <1>4, <1>5, RepliesAfter

\* A write that is no reply.
LEMMA QuietWrite ==
  ASSUME TypeOK, ReplyOnceAndFirst, NEW e \in End, NEW w, NEW f \in Seq(Frame),
         \/ w = wire
         \/ w = Consumed(e) /\ wire[e] # <<>>,
         Write(e, w, f),
         \A k \in Conn : Calm(k) /\ NoItems(f, k)
  PROVE  ReplyOnceAndFirst'
BY CalmReplies, WriteReplies

\* A frame is used up, or nothing happens on the wire.
LEMMA QuietRead ==
  ASSUME TypeOK, ReplyOnceAndFirst, NEW e \in End,
         \/ wire' = wire
         \/ wire' = Consumed(e) /\ wire[e] # <<>>,
         obuf' = obuf,
         \A k \in Conn : Calm(k)
  PROVE  ReplyOnceAndFirst'
<1>1. ASSUME NEW k \in Conn
      PROVE  RepliesNext(wire'[Origin[k]] \o obuf'[Other(Origin[k])], k)
  <2>1. wire \in [End -> Seq(Frame)] /\ Origin[k] \in End
    BY EndsOf DEF TypeOK
  <2>2. \/ wire'[Origin[k]] = wire[Origin[k]]
        \/ wire[Origin[k]] # <<>> /\ wire'[Origin[k]] = Tail(wire[Origin[k]])
    BY <2>1 DEF Consumed
  <2>3. QED
    BY <2>2, LessInFlight
<1>2. QED
  BY <1>1, RepliesAfter

-----------------------------------------------------------------------------
(***************************************************************************)
(* The steps of the program.                                               *)
(***************************************************************************)

\* What these frames carry.
LEMMA ItemsOfFrames ==
  /\ \A c, k, x : ~IsItem(Established(c), x) /\ ~IsItem(Failed(c), x) /\ ~IsItem(Eof(c), x)
                 /\ ~IsItem(NewConnection(c, k), x)
  /\ \A c, d, x : ~IsItem(Renumber(c, d), x)
  /\ \A c, k, n, x : IsItem(Data(c, k, n), x) <=> x = k
  /\ \A c, k, n : Data(c, k, n).n = n
BY DEF IsItem, Established, Failed, Eof, NewConnection, Renumber, Data, Msg

LEMMA OneFrame == ASSUME NEW m, NEW k, ~IsItem(m, k) PROVE NoItems(<<m>>, k)
BY DEF NoItems

\* A client changes as a connected one does, and sends nothing.
LEMMA CalmStep ==
  ASSUME TypeOK, sent' = sent,
         \A d \in End, k \in Conn :
           client'[d][k].state \in Unconnected => client[d][k].state \in Unconnected
  PROVE  \A k \in Conn : Calm(k)
BY EndsOf DEF Calm

\* The reply of k0, made by a client that was not connected and now is.
LEMMA ReplyWrite ==
  ASSUME TypeOK, ReplyOnceAndFirst, NEW e \in End, NEW k0 \in Conn,
         NEW f \in Seq(Frame), \A k \in Conn : k # k0 => NoItems(f, k),
         \A i \in DOMAIN f : IsItem(f[i], k0) => f[i].n = 0,
         \A i, j \in DOMAIN f : IsItem(f[i], k0) /\ IsItem(f[j], k0) => i = j,
         client[e][k0].state \in Unconnected,
         client'[e][k0].state \notin Unconnected,
         \A k \in Conn : Calm(k)
  PROVE  \A k \in Conn : Origin[k] # e => RepliesNext(InFlight(k) \o f, k)
<1> SUFFICES ASSUME NEW k \in Conn, Origin[k] # e
             PROVE  RepliesNext(InFlight(k) \o f, k)
  OBVIOUS
<1>1. Other(Origin[k]) = e
  BY EndsOf
<1>2. CASE k # k0
  BY <1>2, CalmReplies
<1>3. CASE k = k0
  <2>1. InFlight(k) \in Seq(Frame)
    BY InFlightType
  <2>2. NoItems(InFlight(k), k)
    BY <1>1, <1>3, RepliesIsProperty DEF Replies
  <2>3. sent[e][k] \in Nat
    <3>1. sent[e][k] \in 0 .. MaxSend
      BY DEF TypeOK
    <3>2. QED
      BY <3>1, TunnelConstants
  <2>4. sent'[e][k] \in Nat
    BY <1>1, <2>3 DEF Calm
  <2>5. Replies(InFlight(k) \o f, k, client'[e][k].state, sent'[e][k])
    BY <1>3, <2>1, <2>2, <2>4, AppendReply
  <2>6. QED
    BY <1>1, <2>5 DEF RepliesNext
<1>4. QED
  BY <1>2, <1>3

\* The reply, alone or behind CONNECTION_ESTABLISHED.
IsReplyOf(f, k) ==
  /\ f \in Seq(Frame)
  /\ \A j \in Conn : j # k => NoItems(f, j)
  /\ \A i \in DOMAIN f : IsItem(f[i], k) => f[i].n = 0
  /\ \A i, j \in DOMAIN f : IsItem(f[i], k) /\ IsItem(f[j], k) => i = j

LEMMA RepliesAreReplies ==
  ASSUME NEW c \in Int, NEW k \in Conn
  PROVE  /\ IsReplyOf(<<S5Reply(c, k)>>, k)
         /\ IsReplyOf(<<Established(c), S5Reply(c, k)>>, k)
<1> DEFINE a == Established(c)
           b == S5Reply(c, k)
<1>1. a \in Frame /\ b \in Frame
  BY FramesAreFrames
<1>2. /\ \A j : ~IsItem(a, j)
      /\ \A j : IsItem(b, j) <=> j = k
      /\ b.n = 0
  BY ItemsOfFrames DEF S5Reply
<1> HIDE DEF a, b
<1>3. IsReplyOf(<<b>>, k)
  BY <1>1, <1>2 DEF IsReplyOf, NoItems
<1>4. <<a, b>> \in Seq(Frame) /\ DOMAIN <<a, b>> = {1, 2} /\ <<a, b>>[1] = a /\ <<a, b>>[2] = b
  BY <1>1
<1>5. IsReplyOf(<<a, b>>, k)
  BY <1>2, <1>4 DEF IsReplyOf, NoItems
<1>6. QED
  BY <1>3, <1>5 DEF a, b

LEMMA AttachReplies ==
  ASSUME TypeOK, ReplyOnceAndFirst, NEW e \in End, NEW k \in Conn,
         NEW req \in Byte, NEW c \in Byte, NEW watched, NEW w,
         Attach(e, k, req, c, watched), sent' = sent, client[e][k].state = "NONE",
         w = wire \/ (w = Consumed(e) /\ wire[e] # <<>>),
         Write(e, w, Answer(k, req, c))
  PROVE  ReplyOnceAndFirst'
<1>1. /\ client'[e][k].state = IF c = req THEN "CONNECTED" ELSE "NEED_RENUMBER"
      /\ \A d \in End, j \in Conn : d # e \/ j # k => client'[d][j] = client[d][j]
  BY DEF Attach, TypeOK
<1>2. \A j \in Conn : Calm(j)
  <2>1. \A d \in End, j \in Conn :
          client'[d][j].state \in Unconnected => client[d][j].state \in Unconnected
    BY <1>1 DEF Unconnected
  <2>2. QED
    BY <2>1, CalmStep
<1>3. c \in Int /\ req \in Int
  BY DEF Byte
<1>4. CASE c = req
  <2> DEFINE f == <<Established(c), S5Reply(c, k)>>
  <2>1. IsReplyOf(f, k) /\ Write(e, w, f)
    BY <1>3, <1>4, RepliesAreReplies DEF Answer
  <2>2. client[e][k].state \in Unconnected /\ client'[e][k].state \notin Unconnected
    BY <1>1, <1>4 DEF Unconnected
  <2> HIDE DEF f
  <2>3. f \in Seq(Frame)
    BY <2>1 DEF IsReplyOf
  <2>4. \A j \in Conn : Origin[j] # e => RepliesNext(InFlight(j) \o f, j)
    BY <1>2, <2>1, <2>2, <2>3, ReplyWrite DEF IsReplyOf
  <2>5. QED
    BY <1>2, <2>1, <2>3, <2>4, WriteReplies
<1>5. CASE c # req
  <2> DEFINE m == Renumber(req, c)
  <2>1. m \in Frame /\ Write(e, w, <<m>>) /\ \A j : ~IsItem(m, j)
    BY <1>3, <1>5, FramesAreFrames, ItemsOfFrames DEF Answer
  <2> HIDE DEF m
  <2>2. <<m>> \in Seq(Frame) /\ \A j : NoItems(<<m>>, j)
    BY <2>1, OneFrame
  <2>3. QED
    BY <1>2, <2>1, <2>2, QuietWrite
<1>6. QED
  BY <1>4, <1>5

LEMMA ReplyStep ==
  ASSUME TypeOK, TableConsistent, RequestsOnce, ReplyOnceAndFirst, [Next]_vars
  PROVE  ReplyOnceAndFirst'
<1> USE TunnelConstants
<1>a. ASSUME sent' = sent, NEW e \in End, NEW k, NEW cl,
             client' = [client EXCEPT ![e][k] = cl],
             k \in Conn => (cl.state \in Unconnected => client[e][k].state \in Unconnected)
      PROVE  \A j \in Conn : Calm(j)
  <2>1. \A d \in End, j \in Conn :
          client'[d][j] = IF d = e /\ j = k THEN cl ELSE client[d][j]
    BY <1>a DEF TypeOK
  <2>2. QED
    BY <1>a, <2>1, CalmStep
<1>b. ASSUME sent' = sent, client' = client PROVE \A j \in Conn : Calm(j)
  BY <1>b, CalmStep
<1>c. Closed.state \notin Unconnected /\ \A cl : Connected(cl).state \notin Unconnected
  BY DEF Closed, Connected, Unconnected
<1>d. ASSUME NEW e \in End, NEW cmd, Arrived(e, cmd)
      PROVE  /\ wire[e] # <<>> /\ Frame1(e) \in Frame /\ Frame1(e).cmd = cmd
             /\ Frame1(e).ch \in Byte /\ Frame1(e).to \in Byte
             /\ Frame1(e).ch \in Int /\ Frame1(e).to \in Int
             /\ Frame1(e).ch \in Slot
  BY <1>d, ConsumedType DEF Arrived, Frame1, Frame, TypeOK, Byte, Slot
<1>e. ASSUME NEW e \in End, NEW cmd, Arrived(e, cmd), Consume(e),
             \A k \in Conn : Calm(k)
      PROVE  ReplyOnceAndFirst'
  BY <1>d, <1>e, QuietRead DEF Consume
<1>f. ASSUME NEW e \in End, NEW w, NEW m \in Frame,
             w = wire \/ (w = Consumed(e) /\ wire[e] # <<>>),
             Write(e, w, <<m>>), \A k \in Conn : Calm(k) /\ ~IsItem(m, k)
      PROVE  ReplyOnceAndFirst'
  <2>1. <<m>> \in Seq(Frame)
    OBVIOUS
  <2>2. \A k \in Conn : NoItems(<<m>>, k)
    BY <1>f, OneFrame
  <2>3. QED
    BY <1>f, <2>1, <2>2, QuietWrite
<1>1. ASSUME NEW k \in Conn, RequestConnect(k) PROVE ReplyOnceAndFirst'
  <2>1. PICK c \in Slot :
          /\ Write(Origin[k], wire, <<NewConnection(c, k)>>)
          /\ client' = [client EXCEPT ![Origin[k]][k] =
                [state |-> "CONNECTING", channel |-> c, ignored |-> TRUE]]
    BY <1>1 DEF RequestConnect
  <2>2. NewConnection(c, k) \in Frame /\ Origin[k] \in End
    <3>1. c \in Int
      BY DEF Slot
    <3>2. QED
      BY <3>1, FramesAreFrames
  <2>3. \A j \in Conn : Calm(j)
    <3>1. sent' = sent /\ "CONNECTING" \notin Unconnected
      BY <1>1 DEF RequestConnect, Unconnected
    <3>2. QED
      BY <1>a, <2>1, <2>2, <3>1
  <2>4. QED
    BY <1>f, <2>1, <2>2, <2>3, ItemsOfFrames
<1>2. ASSUME NEW k \in Conn, RequestRefused(k) PROVE ReplyOnceAndFirst'
  <2>1. /\ Origin[k] \in End /\ client' = [client EXCEPT ![Origin[k]][k] = Closed]
        /\ sent' = sent /\ wire' = wire /\ obuf' = obuf
    BY <1>2 DEF RequestRefused
  <2>2. \A j \in Conn : Calm(j)
    BY <1>a, <1>c, <2>1
  <2>3. QED
    BY <2>1, <2>2, QuietRead
<1>4. ASSUME NEW e \in End, NEW k \in Conn, ClientEof(e, k) PROVE ReplyOnceAndFirst'
  <2>1. /\ client' = [client EXCEPT ![e][k] = Closed]
        /\ sent' = sent /\ wire' = wire /\ obuf' = obuf
    BY <1>4 DEF ClientEof
  <2>2. \A j \in Conn : Calm(j)
    BY <1>a, <1>c, <2>1
  <2>3. QED
    BY <2>1, <2>2, QuietRead
<1>6. ASSUME NEW e \in End, NEW p \in pending[e], ConnectFails(e, p) PROVE ReplyOnceAndFirst'
  <2>1. p.req \in Int
    BY DEF TypeOK, Byte
  <2>2. Failed(p.req) \in Frame
    BY <2>1, FramesAreFrames
  <2>3. \A j \in Conn : Calm(j)
    BY <1>6, <1>b DEF ConnectFails
  <2>4. QED
    BY <1>6, <1>f, <2>2, <2>3, ItemsOfFrames DEF ConnectFails
<1>7. ASSUME NEW e \in End, NEW i \in DOMAIN timers[e], RetryRenumber(e, i)
      PROVE  ReplyOnceAndFirst'
  <2> DEFINE t == timers[e]
  <2>1. t \in Seq([from : Byte, to : Slot])
    BY DEF TypeOK
  <2>2. t[i] \in [from : Byte, to : Slot]
    BY <2>1, LenProperties, ElementOfSeq
  <2>3. t[i].from \in Int /\ t[i].to \in Int
    BY <2>2 DEF Byte, Slot
  <2>4. Renumber(t[i].from, t[i].to) \in Frame
    BY <2>3, FramesAreFrames
  <2>5. \A j \in Conn : Calm(j)
    BY <1>7, <1>b DEF RetryRenumber
  <2>6. QED
    BY <1>7, <1>f, <2>4, <2>5, ItemsOfFrames DEF RetryRenumber
<1>8. ASSUME NEW e \in End, RecvNewConnection(e) PROVE ReplyOnceAndFirst'
  BY <1>8, <1>b, <1>e DEF RecvNewConnection
<1>10. ASSUME NEW e \in End, RecvNewConnectionRefused(e) PROVE ReplyOnceAndFirst'
  <2>1. wire[e] # <<>> /\ Frame1(e).ch \in Int /\ Write(e, Consumed(e), <<Failed(Frame1(e).ch)>>)
    BY <1>10, <1>d DEF RecvNewConnectionRefused
  <2>2. Failed(Frame1(e).ch) \in Frame
    BY <2>1, FramesAreFrames
  <2>3. \A j \in Conn : Calm(j)
    BY <1>10, <1>b DEF RecvNewConnectionRefused
  <2>4. QED
    BY <1>f, <2>1, <2>2, <2>3, ItemsOfFrames
<1>12. ASSUME NEW e \in End, RecvFailedOrEof(e) PROVE ReplyOnceAndFirst'
  <2>1. /\ \/ client' = client
           \/ client' = [client EXCEPT ![e][clients[e][Frame1(e).ch]] = Closed]
        /\ sent' = sent /\ Consume(e)
        /\ Arrived(e, "CONNECTION_FAILED") \/ Arrived(e, "EOF")
    BY <1>12 DEF RecvFailedOrEof, Drop
  <2>2. \A j \in Conn : Calm(j)
    BY <1>a, <1>b, <1>c, <2>1
  <2>3. QED
    BY <1>e, <2>1, <2>2
<1>13. ASSUME NEW e \in End, RecvRenumberInvalid(e) \/ RecvGarbage(e)
       PROVE  ReplyOnceAndFirst'
  BY <1>13, <1>b, <1>e DEF RecvRenumberInvalid, RecvGarbage
<1>15. ASSUME NEW e \in End, RecvRenumberTaken(e) PROVE ReplyOnceAndFirst'
  <2> DEFINE k == clients[e][Frame1(e).ch]
  <2>1. PICK g \in Slot : client' = [client EXCEPT ![e][k] = MovedTo(client[e][k], g)]
    BY <1>15 DEF RecvRenumberTaken
  <2>2. Arrived(e, "RENUMBER_CONNECTION") /\ Consume(e) /\ sent' = sent
    BY <1>15 DEF RecvRenumberTaken
  <2>3. MovedTo(client[e][k], g).state = client[e][k].state
    BY DEF MovedTo
  <2>4. \A j \in Conn : Calm(j)
    BY <1>a, <2>1, <2>2, <2>3
  <2>5. QED
    BY <1>e, <2>2, <2>4
<1>16. ASSUME NEW e \in End, RecvData(e) PROVE ReplyOnceAndFirst'
  <2> DEFINE c == Frame1(e).ch
             k == clients[e][c]
  <2>1. /\ Arrived(e, "DATA") /\ sent' = sent
        /\ \/ client' = client
           \/ client' = [client EXCEPT ![e][k] = Connected(client[e][k])]
        /\ Consume(e) \/ Write(e, Consumed(e), <<Eof(c)>>)
    BY <1>16 DEF RecvData
  <2>2. \A j \in Conn : Calm(j)
    BY <1>a, <1>b, <1>c, <2>1
  <2>3. wire[e] # <<>> /\ c \in Int
    BY <1>d, <2>1
  <2>4. Eof(c) \in Frame
    BY <2>3, FramesAreFrames
  <2>5. CASE Consume(e)
    BY <1>e, <2>1, <2>2, <2>5
  <2>6. CASE Write(e, Consumed(e), <<Eof(c)>>)
    BY <1>f, <2>2, <2>3, <2>4, <2>6, ItemsOfFrames
  <2>7. QED
    BY <2>1, <2>5, <2>6
<1>17. ASSUME NEW e \in End, PeerLost(e) PROVE ReplyOnceAndFirst'
  <2>1. \A d \in End, k \in Conn : client'[d][k] \in {Closed, client[d][k]}
    <3>1. client' = [client EXCEPT ![e] =
              [k \in Conn |-> IF \E c \in Slot : clients[e][c] = k
                              THEN Closed ELSE client[e][k]]]
      BY <1>17 DEF PeerLost
    <3>2. QED
      BY <3>1 DEF TypeOK
  <2>2. \A j \in Conn : Calm(j)
    BY <1>17, <1>c, <2>1, CalmStep DEF PeerLost
  <2>3. /\ \A d \in End : wire'[d] = IF d = e THEN <<>> ELSE wire[d]
        /\ \A d \in End : obuf'[d] = IF d = e THEN <<>> ELSE obuf[d]
    BY <1>17 DEF PeerLost, TypeOK
  <2>4. ASSUME NEW k \in Conn
        PROVE  RepliesNext(wire'[Origin[k]] \o obuf'[Other(Origin[k])], k)
    <3>1. Origin[k] \in End /\ Other(Origin[k]) \in End /\ Other(Origin[k]) # Origin[k]
      BY EndsOf
    <3>2. CASE Origin[k] = e
      <4>1. wire'[Origin[k]] = <<>> /\ obuf'[Other(Origin[k])] = obuf[Other(Origin[k])]
        BY <2>3, <3>1, <3>2
      <4>2. QED
        BY <2>2, <4>1, LessInFlight
    <3>3. CASE Origin[k] # e
      <4>1. /\ wire'[Origin[k]] = wire[Origin[k]]
            /\ obuf'[Other(Origin[k])] \in {obuf[Other(Origin[k])], <<>>}
        BY <2>3, <3>1, <3>3
      <4>2. QED
        BY <2>2, <4>1, LessInFlight
    <3>4. QED
      BY <3>2, <3>3
  <2>5. QED
    BY <2>4, RepliesAfter
<1>18. ASSUME NEW e \in End, UseAfterDelete(e) PROVE ReplyOnceAndFirst'
  BY <1>18, <1>b, QuietRead DEF UseAfterDelete
<1>19. CASE UNCHANGED vars
  <2>1. "A" \in End
    BY DEF End
  <2>2. QED
    BY <1>19, <1>b, <2>1, QuietRead DEF vars
<1>3. ASSUME NEW e \in End, NEW k \in Conn, ClientData(e, k) PROVE ReplyOnceAndFirst'
  <2> DEFINE m == Data(client[e][k].channel, k, sent[e][k] + 1)
  <2>1. /\ client[e][k].state = "CONNECTED" /\ client' = client
        /\ sent' = [sent EXCEPT ![e][k] = @ + 1]
        /\ Write(e, wire, <<m>>)
    BY <1>3 DEF ClientData
  <2>2. sent[e][k] \in Nat /\ sent[e][k] + 1 \in 0 .. MaxSend
    BY <1>3 DEF ClientData, TypeOK
  <2>3. m \in Frame
    <3>1. client[e][k].channel \in Int
      BY DEF TypeOK, Client, Slot
    <3>2. QED
      BY <2>2, <3>1, FramesAreFrames
  <2>4. (\A j : IsItem(m, j) <=> j = k) /\ m.n = sent[e][k] + 1
    BY ItemsOfFrames
  <2> HIDE DEF m
  <2>5. <<m>> \in Seq(Frame) /\ DOMAIN <<m>> = {1} /\ <<m>>[1] = m
    BY <2>3
  <2>6. /\ \A j \in Conn : j # k => Calm(j)
        /\ \A j \in Conn : Origin[j] = e => Calm(j)
        /\ Origin[k] # e => sent'[Other(Origin[k])][k] = sent[e][k] + 1
    <3>1. \A d \in End, j \in Conn :
            sent'[d][j] = IF d = e /\ j = k THEN sent[d][j] + 1 ELSE sent[d][j]
      BY <2>1 DEF TypeOK
    <3>2. QED
      BY <2>1, <3>1, EndsOf DEF Calm
  <2>7. ASSUME NEW j \in Conn, Origin[j] # e PROVE RepliesNext(InFlight(j) \o <<m>>, j)
    <3>1. CASE j # k
      BY <2>4, <2>5, <2>6, <3>1, OneFrame, CalmReplies
    <3>2. CASE j = k
      <4> DEFINE q == InFlight(k)
                 s == sent[e][k] + 1
      <4>1. Other(Origin[k]) = e /\ q \in Seq(Frame) /\ s \in Nat
        <5>1. Other(Origin[k]) = e
          BY <2>7, <3>2, EndsOf
        <5>2. q \in Seq(Frame)
          BY InFlightType
        <5>3. s \in Nat
          BY <2>2
        <5>4. QED
          BY <5>1, <5>2, <5>3
      <4>2. Ordered(q, k, sent[e][k])
        BY <4>1, RepliesIsProperty DEF Replies
      <4> HIDE DEF q
      <4>3. ASSUME NEW i \in DOMAIN q, IsItem(q[i], k) PROVE q[i].n < s
        <5>1. q[i].n <= sent[e][k]
          BY <4>2, <4>3 DEF Ordered
        <5>2. q[i].n \in 0 .. MaxSend
          <6>1. q[i] \in Frame
            BY <4>1, ElementOfSeq
          <6>2. QED
            BY <6>1 DEF Frame
        <5>3. QED
          BY <2>2, <5>1, <5>2
      <4>4. Ordered(q, k, s)
        <5>1. \A i \in DOMAIN q : IsItem(q[i], k) => q[i].n <= s
          <6>1. ASSUME NEW i \in DOMAIN q, IsItem(q[i], k) PROVE q[i].n <= s
            <7>1. q[i] \in Frame
              BY <4>1, ElementOfSeq
            <7>2. q[i].n \in 0 .. MaxSend
              BY <7>1 DEF Frame
            <7>3. q[i].n < s
              BY <4>3, <6>1
            <7>4. QED
              BY <4>1, <7>2, <7>3
          <6>2. QED
            BY <6>1
        <5>2. QED
          BY <4>2, <5>1 DEF Ordered
      <4>5. Ordered(<<m>>, k, s)
        <5>1. m.n <= s
          BY <2>2, <2>4
        <5>2. QED
          BY <2>5, <5>1 DEF Ordered
      <4>6. Ordered(q \o <<m>>, k, s)
        <5>1. \A i \in DOMAIN q, l \in DOMAIN <<m>> :
                IsItem(q[i], k) /\ IsItem(<<m>>[l], k) => q[i].n < <<m>>[l].n
          BY <2>4, <2>5, <4>3
        <5>2. QED
          BY <2>5, <4>1, <4>4, <4>5, <5>1, AppendOrdered
      <4>7. Replies(q \o <<m>>, k, client'[e][k].state, s)
        BY <2>1, <4>6 DEF Replies, Unconnected
      <4>8. sent'[Other(Origin[k])][k] = s
        BY <2>6, <2>7, <3>2
      <4>9. RepliesNext(q \o <<m>>, k)
        BY <4>1, <4>7, <4>8 DEF RepliesNext
      <4>10. QED
        BY <3>2, <4>9 DEF q
    <3>3. QED
      BY <3>1, <3>2
  <2>8. QED
    BY <2>1, <2>5, <2>6, <2>7, WriteReplies
<1>5. ASSUME NEW e \in End, NEW p \in pending[e], ConnectSucceeds(e, p)
      PROVE  ReplyOnceAndFirst'
  <2>1. p.conn \in Conn /\ p.req \in Byte /\ p.ch \in Byte
    BY DEF TypeOK
  <2>2. client[e][p.conn].state = "NONE"
    <3>1. Requested(e, p.conn)
      BY DEF Requested
    <3>2. QED
      BY <2>1, <3>1 DEF RequestsOnce
  <2>3. /\ Attach(e, p.conn, p.req, p.ch, TRUE) /\ sent' = sent
        /\ Write(e, wire, Answer(p.conn, p.req, p.ch))
    BY <1>5 DEF ConnectSucceeds
  <2>4. QED
    BY <2>1, <2>2, <2>3, AttachReplies
<1>9. ASSUME NEW e \in End, RecvNewConnectionImmediate(e) PROVE ReplyOnceAndFirst'
  <2> DEFINE m == Frame1(e)
  <2>1. Arrived(e, "NEW_CONNECTION") /\ sent' = sent
    BY <1>9 DEF RecvNewConnectionImmediate
  <2>2. PICK c \in Slot : /\ c <= MaxChannel
                          /\ Attach(e, m.conn, m.ch, c, FALSE)
                          /\ Write(e, Consumed(e), Answer(m.conn, m.ch, c))
    BY <1>9 DEF RecvNewConnectionImmediate
  <2>3. wire[e] # <<>> /\ m \in Frame /\ m.cmd = "NEW_CONNECTION" /\ m.ch \in Byte /\ c \in Byte
    BY <1>d, <2>1, <2>2 DEF Byte, Slot
  <2>4. m.conn \in Conn
    BY <2>3 DEF Frame
  <2>5. client[e][m.conn].state = "NONE"
    <3>1. wire[e] \in Seq(Frame)
      BY DEF TypeOK
    <3>2. 1 \in DOMAIN wire[e] /\ wire[e][1] = m
      BY <2>3, <3>1 DEF Frame1
    <3>3. Requested(e, m.conn)
      BY <2>3, <3>2 DEF Requested, IsRequest
    <3>4. QED
      BY <2>4, <3>3 DEF RequestsOnce
  <2> HIDE DEF m
  <2>6. QED
    BY <2>1, <2>2, <2>3, <2>4, <2>5, AttachReplies
<1>g. ASSUME NEW e \in End, NEW c \in Slot, clients[e][c] # None
      PROVE  clients[e][c] \in Conn
  BY <1>g DEF TypeOK
<1>11. ASSUME NEW e \in End, RecvEstablished(e) PROVE ReplyOnceAndFirst'
  <2> DEFINE c == Frame1(e).ch
             k == clients[e][c]
             cl == client[e][k]
             f == <<S5Reply(cl.channel, k)>>
  <2>1. Arrived(e, "CONNECTION_ESTABLISHED") /\ wire' = Consumed(e) /\ sent' = sent
    BY <1>11 DEF RecvEstablished
  <2>2. wire[e] # <<>> /\ c \in Slot
    BY <1>d, <2>1
  <2>3. \A j \in Conn : Calm(j)
    <3>1. client' = client \/ client' = [client EXCEPT ![e][k] = Connected(cl)]
      BY <1>11 DEF RecvEstablished
    <3>2. QED
      BY <1>a, <1>b, <1>c, <2>1, <3>1
  <2>4. CASE UNCHANGED obuf
    BY <2>1, <2>2, <2>3, <2>4, QuietRead
  <2>5. CASE k # None /\ cl.state = "NEED_RENUMBER" /\ AppendObuf(e, f)
    <3>1. k \in Conn /\ client' = [client EXCEPT ![e][k] = Connected(cl)]
      BY <1>11, <1>g, <2>2, <2>5 DEF RecvEstablished
    <3>2. IsReplyOf(f, k)
      <4>1. cl.channel \in Int
        BY <3>1 DEF TypeOK, Client, Slot
      <4>2. QED
        BY <3>1, <4>1, RepliesAreReplies
    <3>3. client[e][k].state \in Unconnected /\ client'[e][k].state \notin Unconnected
      <4>1. client'[e][k] = Connected(cl)
        BY <3>1 DEF TypeOK
      <4>2. QED
        BY <1>c, <2>5, <4>1 DEF Unconnected
    <3>4. obuf' = [obuf EXCEPT ![e] = @ \o f]
      BY <2>5 DEF AppendObuf
    <3> HIDE DEF c, k, cl, f
    <3>5. f \in Seq(Frame)
      BY <3>2 DEF IsReplyOf
    <3>6. \A j \in Conn : Origin[j] # e => RepliesNext(InFlight(j) \o f, j)
      BY <2>3, <3>1, <3>2, <3>3, <3>5, ReplyWrite DEF IsReplyOf
    <3>7. /\ wire \in [End -> Seq(Frame)] /\ obuf \in [End -> Seq(Frame)]
          /\ Other(e) \in End /\ Other(e) # e
      BY TwoEnds DEF TypeOK
    <3>8. /\ wire'[e] = Tail(wire[e]) /\ wire'[Other(e)] = wire[Other(e)]
          /\ obuf'[e] = obuf[e] \o f /\ obuf'[Other(e)] = obuf[Other(e)]
      BY <2>1, <3>4, <3>7 DEF Consumed
    <3>9. ASSUME NEW j \in Conn
          PROVE  RepliesNext(wire'[Origin[j]] \o obuf'[Other(Origin[j])], j)
      <4>1. CASE Origin[j] = e
        BY <2>2, <2>3, <3>8, <4>1, LessInFlight
      <4>2. CASE Origin[j] # e
        <5>1. Origin[j] = Other(e) /\ Other(Origin[j]) = e
          BY <4>2, EndsOf, TwoEnds
        <5>2. InFlight(j) = wire[Other(e)] \o obuf[e]
          BY <5>1, InFlightType
        <5>3. wire[Other(e)] \in Seq(Frame) /\ obuf[e] \in Seq(Frame)
          BY <3>7
        <5>4. wire[Other(e)] \o (obuf[e] \o f) = (wire[Other(e)] \o obuf[e]) \o f
          <6> DEFINE a == wire[Other(e)]
                     b == obuf[e]
          <6> HIDE DEF a, b
          <6>1. a \in Seq(Frame) /\ b \in Seq(Frame)
            BY <5>3 DEF a, b
          <6>2. a \o (b \o f) = (a \o b) \o f
            BY <3>5, <6>1, ConcatAssociative
          <6>3. QED
            BY <6>2 DEF a, b
        <5>5. wire'[Origin[j]] \o obuf'[Other(Origin[j])] = InFlight(j) \o f
          BY <3>8, <5>1, <5>2, <5>4
        <5>6. QED
          BY <3>6, <4>2, <5>5
      <4>3. QED
        BY <4>1, <4>2
    <3>10. QED
      BY <3>9, RepliesAfter
  <2>6. QED
    BY <1>11, <2>4, <2>5 DEF RecvEstablished
<1>14. ASSUME NEW e \in End, RecvRenumberMove(e) PROVE ReplyOnceAndFirst'
  <2> DEFINE d == Frame1(e).to
             k == clients[e][Frame1(e).ch]
             cl == [state |-> "CONNECTED", channel |-> d, ignored |-> FALSE]
  <2>1. /\ Arrived(e, "RENUMBER_CONNECTION") /\ sent' = sent /\ k # None
        /\ client' = [client EXCEPT ![e][k] = cl]
        /\ Write(e, Consumed(e), IF client[e][k].state = "NEED_RENUMBER"
                                 THEN <<Established(d), S5Reply(d, k)>> ELSE <<Established(d)>>)
    BY <1>14 DEF RecvRenumberMove
  <2>2. wire[e] # <<>> /\ d \in Int /\ k \in Conn
    BY <1>d, <1>g, <2>1
  <2>3. cl.state \notin Unconnected
    BY DEF Unconnected
  <2>4. \A j \in Conn : Calm(j)
    BY <1>a, <2>1, <2>3
  <2>5. CASE client[e][k].state # "NEED_RENUMBER"
    <3>1. Established(d) \in Frame
      BY <2>2, FramesAreFrames
    <3>2. QED
      BY <1>f, <2>1, <2>2, <2>4, <2>5, <3>1, ItemsOfFrames
  <2>6. CASE client[e][k].state = "NEED_RENUMBER"
    <3> DEFINE f == <<Established(d), S5Reply(d, k)>>
    <3>1. IsReplyOf(f, k) /\ Write(e, Consumed(e), f)
      BY <2>1, <2>2, <2>6, RepliesAreReplies
    <3>2. client[e][k].state \in Unconnected /\ client'[e][k].state \notin Unconnected
      <4>1. client'[e][k] = cl
        BY <2>1, <2>2 DEF TypeOK
      <4>2. QED
        BY <2>3, <2>6, <4>1 DEF Unconnected
    <3> HIDE DEF f, k
    <3>3. f \in Seq(Frame)
      BY <3>1 DEF IsReplyOf
    <3>4. \A j \in Conn : Origin[j] # e => RepliesNext(InFlight(j) \o f, j)
      BY <2>2, <2>4, <3>1, <3>2, <3>3, ReplyWrite DEF IsReplyOf
    <3>5. QED
      BY <2>2, <2>4, <3>1, <3>3, <3>4, WriteReplies
  <2>7. QED
    BY <2>5, <2>6
<1>20. QED
  BY <1>1, <1>2, <1>3, <1>4, <1>5, <1>6, <1>7, <1>8, <1>9, <1>10, <1>11, <1>12, <1>13,
     <1>14, <1>15, <1>16, <1>17, <1>18, <1>19
     DEF Next, Receive, Callback

\* The SOCKS reply of a session is made once, by a connected client, and no byte
\* of the target is ahead of it, for any number of sessions, channels and data
\* units (proxy.cpp: send_s5reply and where it is called; the appends to
\* peer->obuf, in the order in which write() sends them).
THEOREM ReplyIsOnceAndFirst == Spec => []ReplyOnceAndFirst
<1>1. Init => ReplyOnceAndFirst
  <2>1. Init => \A k \in Conn : wire[Origin[k]] = <<>> /\ obuf[Other(Origin[k])] = <<>>
    BY EndsOf DEF Init
  <2>2. Init => \A k \in Conn : InFlight(k) = <<>>
    BY <2>1, ConcatEmptySeq DEF InFlight
  <2>3. QED
    BY <2>2 DEF ReplyOnceAndFirst
<1>2. IInv /\ ReplyOnceAndFirst /\ [Next]_vars => ReplyOnceAndFirst'
  BY ReplyStep DEF IInv
<1>3. QED
  BY <1>1, <1>2, Inductive, PTL DEF Spec
=============================================================================
