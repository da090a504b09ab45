---------------------------- MODULE EncryptProofs ----------------------------
(***************************************************************************)
(* encrypt_io implements the byte stream, proved for every length of the   *)
(* block, every tea_encode() and every way of cutting the stream.          *)
(*                                                                         *)
(* The argument: log keeps the stream of cipher text and the value of out  *)
(* before each byte.  What is under way is always the end of log (obuf up  *)
(* to out_off the very end, wire before it, what read() has still to       *)
(* decrypt before that), and in, at the byte to which the reader has come, *)
(* equals what out was at that byte; so xor with the same key gives back   *)
(* the byte of sent.                                                       *)
(***************************************************************************)
EXTENDS EncryptIo, SequenceTheorems, TLAPS

OutState == [cipher : Block, key : Seq(Byte)]

\* out after a byte of cipher text
Advanced(s, b) == [cipher |-> Shift(s.cipher, b), key |-> Tail(KeyOf(s))]

\* out when n bytes had been encrypted
OutAt(n) == IF n = Len(log) THEN out ELSE log[n + 1].out

\* The bytes of the stream the reader has used, and those in ibuf it has not
Used == KeyLen - in.missing + Len(received)
Raw == IF reader \in {"iv", "decrypt"} THEN Len(ibuf) - off ELSE 0

-----------------------------------------------------------------------------
(***************************************************************************)
(* Sequences and key bytes.                                                *)
(***************************************************************************)
LEMMA CutSeq ==
  ASSUME NEW s \in Seq(Byte), NEW n \in 0 .. Len(s)
  PROVE  /\ First(n, s) \in Seq(Byte) /\ Len(First(n, s)) = n
         /\ \A i \in 1 .. n : First(n, s)[i] = s[i]
         /\ After(n, s) \in Seq(Byte) /\ Len(After(n, s)) = Len(s) - n
         /\ \A i \in 1 .. Len(s) - n : After(n, s)[i] = s[n + i]
BY DEF First, After

LEMMA JoinSeq ==
  ASSUME NEW s \in Seq(Byte), NEW t \in Seq(Byte)
  PROVE  /\ s \o t \in Seq(Byte) /\ Len(s \o t) = Len(s) + Len(t)
         /\ \A i \in 1 .. Len(s) : (s \o t)[i] = s[i]
         /\ \A i \in 1 .. Len(t) : (s \o t)[Len(s) + i] = t[i]
OBVIOUS

LEMMA BlockIsSeq == ASSUME NEW c \in Block PROVE c \in Seq(Byte) /\ Len(c) = KeyLen
<1>1. KeyLen \in Nat
  BY EncryptConstants
<1>2. DOMAIN c = 1 .. KeyLen /\ \A i \in 1 .. KeyLen : c[i] \in Byte
  BY DEF Block
<1>3. QED
  BY <1>1, <1>2 DEF Block

LEMMA BlockEqual ==
  ASSUME NEW c \in Block, NEW d \in Block, \A i \in 1 .. KeyLen : c[i] = d[i]
  PROVE  c = d
<1>1. /\ c = [i \in 1 .. KeyLen |-> c[i]] /\ d = [i \in 1 .. KeyLen |-> d[i]]
  BY DEF Block
<1>2. [i \in 1 .. KeyLen |-> c[i]] = [i \in 1 .. KeyLen |-> d[i]]
  BY Zenon
<1>3. QED
  BY <1>1, <1>2

LEMMA ShiftType ==
  ASSUME NEW c \in Block, NEW b \in Byte PROVE Shift(c, b) \in Block
<1>1. KeyLen \in Nat \ {0}
  BY EncryptConstants
<1>2. \A i \in 1 .. KeyLen : i # KeyLen => i + 1 \in 1 .. KeyLen
  BY <1>1
<1>3. \A i \in 1 .. KeyLen : (IF i = KeyLen THEN b ELSE c[i + 1]) \in Byte
  BY <1>2 DEF Block
<1>4. QED
  BY <1>3 DEF Shift, Block

LEMMA KeyType ==
  ASSUME NEW s, s.cipher \in Block, s.key \in Seq(Byte)
  PROVE  /\ KeyOf(s) \in Seq(Byte) /\ KeyOf(s) # <<>>
         /\ Head(KeyOf(s)) \in Byte /\ Tail(KeyOf(s)) \in Seq(Byte)
<1>1. KeyOf(s) \in Seq(Byte) /\ KeyOf(s) # <<>>
  BY EncryptConstants DEF KeyOf
<1> HIDE DEF KeyOf
<1>2. QED
  BY <1>1

LEMMA XorType ==
  ASSUME NEW a \in Byte, NEW k \in Byte
  PROVE  Xor(a, k) \in Byte /\ Xor(Xor(a, k), k) = a
BY EncryptConstants
-----------------------------------------------------------------------------
LEMMA InitTypeOK == Init => TypeOK
<1> SUFFICES ASSUME Init PROVE TypeOK
  OBVIOUS
<1>1. KeyLen \in 0 .. KeyLen
  BY EncryptConstants
<1>2. out \in [cipher : Block, key : Seq(Byte)]
  BY DEF Init
<1>3. in \in [cipher : Block, key : Seq(Byte), missing : 0 .. KeyLen]
  BY <1>1 DEF Init
<1>4. QED
  BY <1>2, <1>3 DEF Init, TypeOK

LEMMA StepTypeOK == TypeOK /\ [Next]_vars => TypeOK'
<1> SUFFICES ASSUME TypeOK, [Next]_vars PROVE TypeOK'
  OBVIOUS
<1>k. KeyLen \in Nat \ {0}
  BY EncryptConstants
<1>a. ASSUME NEW o \in Seq(Byte), Sent(o)
      PROVE  wire' \in Seq(Byte) /\ obuf' \in Seq(Byte) /\ out_off' = Len(obuf') /\ out_off' \in Nat
  <2>1. PICK n \in 0 .. Len(o) :
          wire' = wire \o First(n, o) /\ obuf' = After(n, o) /\ out_off' = Len(o) - n
    BY <1>a DEF Sent
  <2>2. First(n, o) \in Seq(Byte) /\ After(n, o) \in Seq(Byte) /\ Len(After(n, o)) = Len(o) - n
    BY CutSeq
  <2>3. wire \in Seq(Byte) /\ Len(o) - n \in Nat
    BY DEF TypeOK
  <2>4. wire \o First(n, o) \in Seq(Byte)
    BY <2>2, <2>3, JoinSeq
  <2>5. QED
    BY <2>1, <2>2, <2>3, <2>4
<1>1. ASSUME SendIV PROVE TypeOK'
  <2>1. PICK iv \in Block :
          /\ Sent(iv)
          /\ out' = [cipher |-> iv, key |-> <<>>]
          /\ log' = [i \in 1 .. KeyLen |-> [out |-> out', byte |-> iv[i]]]
    BY <1>1 DEF SendIV
  <2>2. wire' \in Seq(Byte) /\ obuf' \in Seq(Byte) /\ out_off' \in 0 .. Len(obuf')
    BY <1>a, <2>1, BlockIsSeq
  <2>3. out' \in OutState
    BY <2>1 DEF OutState
  <2>4. log' \in Seq([out : OutState, byte : Byte])
    BY <2>1, <2>3, <1>k DEF Block
  <2>5. QED
    BY <1>1, <2>2, <2>3, <2>4 DEF SendIV, reading, TypeOK, OutState
<1>2. ASSUME NEW b \in Byte, AppendObuf(b) PROVE TypeOK'
  BY <1>2 DEF AppendObuf, reading, TypeOK
<1>3. ASSUME Write PROVE TypeOK'
  BY <1>3 DEF Write, reading, TypeOK
<1>4. ASSUME EncryptByte PROVE TypeOK'
  <2> DEFINE key == KeyOf(out)
             byte == Xor(obuf[out_off + 1], Head(key))
  <2>1. key \in Seq(Byte) /\ Head(key) \in Byte /\ Tail(key) \in Seq(Byte)
    BY KeyType DEF TypeOK
  <2>a. obuf[out_off + 1] \in Byte
    BY <1>4 DEF EncryptByte, TypeOK
  <2>2. byte \in Byte
    BY <2>1, <2>a, XorType
  <2>3. Shift(out.cipher, byte) \in Block
    BY <2>2, ShiftType DEF TypeOK
  <2>4. /\ obuf' = [obuf EXCEPT ![out_off + 1] = byte]
        /\ out' = [cipher |-> Shift(out.cipher, byte), key |-> Tail(key)]
        /\ log' = Append(log, [out |-> out, byte |-> byte])
        /\ out_off' = out_off + 1 /\ out_off < Len(obuf)
        /\ UNCHANGED <<writer, wire, sent, reading>>
    BY <1>4 DEF EncryptByte
  <2> HIDE DEF key, byte
  <2>5. obuf' \in Seq(Byte) /\ Len(obuf') = Len(obuf)
    BY <2>2, <2>4 DEF TypeOK
  <2>6. log' \in Seq([out : [cipher : Block, key : Seq(Byte)], byte : Byte])
    BY <2>2, <2>4 DEF TypeOK
  <2>7. QED
    BY <2>1, <2>3, <2>4, <2>5, <2>6 DEF TypeOK, reading
<1>5. ASSUME WriteOut PROVE TypeOK'
  <2>1. wire' \in Seq(Byte) /\ obuf' \in Seq(Byte) /\ out_off' \in 0 .. Len(obuf')
    BY <1>5, <1>a DEF WriteOut, TypeOK
  <2>2. QED
    BY <1>5, <2>1 DEF WriteOut, reading, TypeOK
<1>6. ASSUME SocksRead PROVE TypeOK'
  <2>1. PICK n \in 0 .. Len(wire) : ibuf' = First(n, wire) /\ wire' = After(n, wire) /\ early' = n
    BY <1>6 DEF SocksRead
  <2>a. wire \in Seq(Byte) /\ n \in Nat
    BY DEF TypeOK
  <2>2. ibuf' \in Seq(Byte) /\ wire' \in Seq(Byte) /\ early' \in Nat
    BY <2>1, <2>a, CutSeq
  <2>3. QED
    BY <1>6, <2>2 DEF SocksRead, writing, TypeOK
<1>7. ASSUME Read PROVE TypeOK'
  <2>1. PICK n \in 1 .. Len(wire) : ibuf' = ibuf \o First(n, wire) /\ wire' = After(n, wire)
    BY <1>7 DEF Read
  <2>a. ibuf \in Seq(Byte) /\ wire \in Seq(Byte) /\ n \in 0 .. Len(wire)
    BY DEF TypeOK
  <2>b. First(n, wire) \in Seq(Byte) /\ After(n, wire) \in Seq(Byte)
    BY <2>a, CutSeq
  <2>2. ibuf' \in Seq(Byte) /\ wire' \in Seq(Byte)
    BY <2>1, <2>a, <2>b, JoinSeq
  <2>3. QED
    BY <1>7, <2>2 DEF Read, writing, TypeOK
<1>8. ASSUME IvByte PROVE TypeOK'
  <2>1. Shift(in.cipher, ibuf[off + 1]) \in Block
    BY <1>8, ShiftType DEF IvByte, TypeOK
  <2>2. in' = [in EXCEPT !.cipher = Shift(in.cipher, ibuf[off + 1]), !.missing = in.missing - 1]
    BY <1>8 DEF IvByte
  <2>3. in' \in [cipher : Block, key : Seq(Byte), missing : 0 .. KeyLen]
    <3>1. in.missing - 1 \in 0 .. KeyLen
      BY <1>8, <1>k DEF IvByte, TypeOK
    <3>2. QED
      BY <2>1, <2>2, <3>1 DEF TypeOK
  <2>4. QED
    BY <1>8, <2>3 DEF IvByte, writing, TypeOK
<1>9. ASSUME IvEnd PROVE TypeOK'
  <2>1. After(off, ibuf) \in Seq(Byte)
    BY DEF After, TypeOK
  <2>2. QED
    BY <1>9, <2>1 DEF IvEnd, writing, TypeOK
<1>10. ASSUME DecryptByte PROVE TypeOK'
  <2> DEFINE key == KeyOf(in)
             byte == ibuf[off + 1]
             plain == Xor(byte, Head(key))
  <2>1. key \in Seq(Byte) /\ Head(key) \in Byte /\ Tail(key) \in Seq(Byte)
    BY KeyType DEF TypeOK
  <2>2. byte \in Byte
    BY <1>10 DEF DecryptByte, TypeOK
  <2>3. plain \in Byte /\ Shift(in.cipher, byte) \in Block
    BY <2>1, <2>2, XorType, ShiftType DEF TypeOK
  <2>4. /\ ibuf' = [ibuf EXCEPT ![off + 1] = plain]
        /\ in' = [cipher |-> Shift(in.cipher, byte), key |-> Tail(key), missing |-> 0]
        /\ received' = Append(received, plain)
        /\ off' = off + 1 /\ off < Len(ibuf)
        /\ UNCHANGED <<reader, early, wire, writing>>
    BY <1>10 DEF DecryptByte
  <2> HIDE DEF key, byte, plain
  <2>5. ibuf' \in Seq(Byte) /\ received' \in Seq(Byte)
    BY <2>3, <2>4 DEF TypeOK
  <2>6. QED
    BY <1>k, <2>1, <2>3, <2>4, <2>5 DEF TypeOK, writing
<1>11. ASSUME ReadEnd PROVE TypeOK'
  BY <1>11 DEF ReadEnd, writing, TypeOK
<1>12. ASSUME Consume PROVE TypeOK'
  <2>1. PICK n \in 1 .. Len(ibuf) : ibuf' = After(n, ibuf)
    BY <1>12 DEF Consume
  <2>a. ibuf \in Seq(Byte) /\ n \in 0 .. Len(ibuf)
    BY DEF TypeOK
  <2>2. ibuf' \in Seq(Byte)
    BY <2>1, <2>a, CutSeq
  <2>3. QED
    BY <1>12, <2>2 DEF Consume, writing, TypeOK
<1>13. CASE UNCHANGED vars
  BY <1>13 DEF vars, TypeOK
<1>14. QED
  BY <1>1, <1>2, <1>3, <1>4, <1>5, <1>6, <1>7, <1>8, <1>9, <1>10, <1>11, <1>12, <1>13
     DEF Next, WriterLoop, ReaderLoop

\* Every variable of encrypt_io stays in its domain: in particular the indices
\* into obuf stay inside it, and in_keybytes comes up to 0 and no further.
THEOREM TypeCorrect == Spec => []TypeOK
BY InitTypeOK, StepTypeOK, PTL DEF Spec

LEMMA LenTypes ==
  ASSUME TypeOK
  PROVE  /\ obuf \in Seq(Byte) /\ wire \in Seq(Byte) /\ ibuf \in Seq(Byte)
         /\ Len(obuf) \in Nat /\ Len(wire) \in Nat /\ Len(ibuf) \in Nat
         /\ sent \in Seq(Byte) /\ received \in Seq(Byte)
         /\ Len(sent) \in Nat /\ Len(received) \in Nat /\ Len(log) \in Nat
         /\ out_off \in 0 .. Len(obuf) /\ out_off \in Nat
         /\ KeyLen \in Nat \ {0}
<1>1. Len(log) \in Nat
  BY DEF TypeOK
<1>2. KeyLen \in Nat \ {0}
  BY EncryptConstants
<1>3. QED
  BY <1>1, <1>2 DEF TypeOK
-----------------------------------------------------------------------------
(***************************************************************************)
(* The writer: what obuf and wire hold, and what log records.              *)
(***************************************************************************)
Lengths ==
  /\ KeyLen <= Len(log)
  /\ Len(wire) + out_off <= Len(log)
  /\ Len(sent) + KeyLen + out_off = Len(log) + Len(obuf)

\* wire and the first part of obuf are the end of log, the rest of obuf that
\* of sent
WireIsLog ==
  \A i \in 1 .. Len(wire) : wire[i] = log[(Len(log) - out_off - Len(wire)) + i].byte

ObufIsLog == \A i \in 1 .. out_off : obuf[i] = log[(Len(log) - out_off) + i].byte

ObufIsSent ==
  \A i \in 1 .. Len(obuf) - out_off : obuf[out_off + i] = sent[(Len(log) - KeyLen) + i]

\* log is what CFB makes of sent
LogStarts ==
  /\ \A i \in 1 .. KeyLen : log[i].byte = log[1].out.cipher[i]
  /\ log[1].out = OutAt(KeyLen) /\ log[1].out.key = <<>>

LogGoesOn ==
  \A n \in KeyLen + 1 .. Len(log) :
    /\ sent[n - KeyLen] = Xor(log[n].byte, Head(KeyOf(log[n].out)))
    /\ OutAt(n) = Advanced(log[n].out, log[n].byte)

WriterInv ==
  IF writer = "new"
  THEN obuf = <<>> /\ out_off = 0 /\ wire = <<>> /\ sent = <<>> /\ log = <<>>
  ELSE Lengths /\ WireIsLog /\ ObufIsLog /\ ObufIsSent /\ LogStarts /\ LogGoesOn

LEMMA InitWriter == Init => WriterInv
BY DEF Init, WriterInv

\* The reader takes bytes from the front of wire.
LEMMA TakeWriter ==
  ASSUME TypeOK, WriterInv, NEW n \in 0 .. Len(wire), wire' = After(n, wire), UNCHANGED writing
  PROVE  WriterInv'
<1>1. /\ obuf' = obuf /\ out_off' = out_off /\ out' = out /\ writer' = writer
      /\ sent' = sent /\ log' = log
  BY DEF writing
<1>2. /\ wire \in Seq(Byte) /\ Len(wire') = Len(wire) - n
      /\ \A i \in 1 .. Len(wire) - n : wire'[i] = wire[n + i]
  BY CutSeq DEF TypeOK
<1>3. out_off \in Nat /\ Len(log) \in Nat /\ Len(wire) \in Nat /\ Len(wire') \in Nat
  BY <1>2 DEF TypeOK
<1>4. CASE writer = "new"
  <2>1. wire = <<>> /\ n = 0
    BY <1>4 DEF WriterInv
  <2>2. wire' = <<>>
    BY <2>1 DEF After
  <2>3. QED
    BY <1>1, <1>4, <2>2 DEF WriterInv
<1>5. CASE writer # "new"
  <2>1. Lengths' /\ ObufIsLog' /\ ObufIsSent' /\ LogStarts' /\ LogGoesOn'
    BY <1>1, <1>2, <1>3, <1>5
       DEF WriterInv, Lengths, ObufIsLog, ObufIsSent, LogStarts, LogGoesOn, OutAt
  <2>2. WireIsLog'
    <3> SUFFICES ASSUME NEW i \in 1 .. Len(wire')
                 PROVE  wire'[i] = log'[(Len(log') - out_off' - Len(wire')) + i].byte
      BY DEF WireIsLog
    <3>1. n + i \in 1 .. Len(wire) /\ wire'[i] = wire[n + i]
      BY <1>2, <1>3
    <3>2. wire[n + i] = log[(Len(log) - out_off - Len(wire)) + (n + i)].byte
      BY <1>5, <3>1 DEF WriterInv, WireIsLog
    <3>3. (Len(log) - out_off - Len(wire)) + (n + i) = (Len(log') - out_off' - Len(wire')) + i
      BY <1>1, <1>2, <1>3
    <3>4. QED
      BY <1>1, <3>1, <3>2, <3>3
  <2>3. QED
    BY <1>1, <1>5, <2>1, <2>2 DEF WriterInv
<1>6. QED
  BY <1>4, <1>5

\* IO::write takes bytes from the front of obuf, all of them cipher text.
LEMMA SentWriter ==
  ASSUME NEW o \in Seq(Byte), Sent(o), wire \in Seq(Byte), log' \in Seq([out : OutState, byte : Byte]),
         Len(wire) + Len(o) <= Len(log'),
         \A i \in 1 .. Len(wire) : wire[i] = log'[(Len(log') - Len(o) - Len(wire)) + i].byte,
         \A i \in 1 .. Len(o) : o[i] = log'[(Len(log') - Len(o)) + i].byte
  PROVE  /\ out_off' \in Nat /\ obuf' \in Seq(Byte) /\ out_off' = Len(obuf')
         /\ Len(wire') \in Nat /\ Len(wire') + out_off' = Len(wire) + Len(o)
         /\ WireIsLog' /\ ObufIsLog'
<1>1. PICK n \in 0 .. Len(o) :
        wire' = wire \o First(n, o) /\ obuf' = After(n, o) /\ out_off' = Len(o) - n
  BY DEF Sent
<1>2. /\ First(n, o) \in Seq(Byte) /\ Len(First(n, o)) = n
      /\ \A i \in 1 .. n : First(n, o)[i] = o[i]
      /\ obuf' \in Seq(Byte) /\ Len(obuf') = Len(o) - n
      /\ \A i \in 1 .. Len(o) - n : obuf'[i] = o[n + i]
  BY <1>1, CutSeq
<1>3. /\ Len(wire') = Len(wire) + n
      /\ \A i \in 1 .. Len(wire) : wire'[i] = wire[i]
      /\ \A i \in 1 .. n : wire'[Len(wire) + i] = o[i]
  BY <1>1, <1>2, JoinSeq
<1>4. Len(log') \in Nat /\ Len(wire) \in Nat /\ Len(o) \in Nat /\ n \in Nat
  OBVIOUS
<1>5. ObufIsLog'
  <2> SUFFICES ASSUME NEW i \in 1 .. out_off'
               PROVE  obuf'[i] = log'[(Len(log') - out_off') + i].byte
    BY DEF ObufIsLog
  <2>1. n + i \in 1 .. Len(o) /\ obuf'[i] = o[n + i]
    BY <1>1, <1>2, <1>4
  <2>2. o[n + i] = log'[(Len(log') - Len(o)) + (n + i)].byte
    BY <2>1
  <2>3. (Len(log') - Len(o)) + (n + i) = (Len(log') - out_off') + i
    BY <1>1, <1>4
  <2>4. QED
    BY <2>1, <2>2, <2>3
<1>6. WireIsLog'
  <2> SUFFICES ASSUME NEW i \in 1 .. Len(wire')
               PROVE  wire'[i] = log'[(Len(log') - out_off' - Len(wire')) + i].byte
    BY DEF WireIsLog
  <2>1. Len(log') - out_off' - Len(wire') = Len(log') - Len(o) - Len(wire)
    BY <1>1, <1>3, <1>4
  <2>2. CASE i <= Len(wire)
    <3>1. i \in 1 .. Len(wire) /\ wire'[i] = wire[i]
      BY <1>3, <1>4, <2>2
    <3>2. QED
      BY <2>1, <3>1
  <2>3. CASE i > Len(wire)
    <3>1. PICK j \in 1 .. n : i = Len(wire) + j
      <4>1. i - Len(wire) \in 1 .. n /\ i = Len(wire) + (i - Len(wire))
        BY <1>3, <1>4, <2>3
      <4>2. QED
        BY <4>1
    <3>2. wire'[i] = o[j] /\ j \in 1 .. Len(o)
      BY <1>3, <1>4, <3>1
    <3>3. o[j] = log'[(Len(log') - Len(o)) + j].byte
      BY <3>2
    <3>4. (Len(log') - Len(o)) + j = (Len(log') - out_off' - Len(wire')) + i
      BY <1>4, <2>1, <3>1
    <3>5. QED
      BY <3>2, <3>3, <3>4
  <2>4. QED
    BY <1>3, <1>4, <2>2, <2>3
<1>7. QED
  BY <1>1, <1>2, <1>3, <1>4, <1>5, <1>6

\* The constructor: log and out begin with the IV.
LEMMA SendIVWriter ==
  ASSUME TypeOK, TypeOK', WriterInv, SendIV
  PROVE  /\ WriterInv' /\ UNCHANGED <<sent, reading>>
         /\ log = <<>> /\ wire = <<>> /\ out_off = 0
         /\ Len(log') = KeyLen /\ Len(wire') + out_off' = KeyLen
<1>1. PICK iv \in Block :
        /\ Sent(iv)
        /\ out' = [cipher |-> iv, key |-> <<>>]
        /\ log' = [i \in 1 .. KeyLen |-> [out |-> out', byte |-> iv[i]]]
  BY DEF SendIV
<1>2. /\ writer = "new" /\ writer' = "idle" /\ sent = <<>> /\ sent' = <<>>
      /\ wire = <<>> /\ log = <<>> /\ out_off = 0 /\ UNCHANGED <<sent, reading>>
  BY DEF SendIV, WriterInv
<1>3. KeyLen \in Nat \ {0} /\ iv \in Seq(Byte) /\ Len(iv) = KeyLen
  BY EncryptConstants, BlockIsSeq
<1>4. log' \in Seq([out : OutState, byte : Byte])
  BY DEF TypeOK, OutState
<1>5. Len(log') = KeyLen /\ \A i \in 1 .. KeyLen : log'[i].byte = iv[i] /\ log'[i].out = out'
  BY <1>1, <1>3
<1>6. /\ out_off' \in Nat /\ obuf' \in Seq(Byte) /\ out_off' = Len(obuf')
      /\ Len(wire') \in Nat /\ Len(wire') + out_off' = KeyLen
      /\ WireIsLog' /\ ObufIsLog'
  <2>1. /\ wire \in Seq(Byte) /\ Len(wire) + Len(iv) <= Len(log')
        /\ \A i \in 1 .. Len(wire) :
             wire[i] = log'[(Len(log') - Len(iv) - Len(wire)) + i].byte
        /\ \A i \in 1 .. Len(iv) : iv[i] = log'[(Len(log') - Len(iv)) + i].byte
    BY <1>2, <1>3, <1>5
  <2>2. QED
    BY <1>1, <1>2, <1>3, <1>4, <2>1, SentWriter
<1>a. Len(sent') = 0 /\ Len(obuf') - out_off' = 0
  <2>1. Len(sent') = 0
    BY <1>2
  <2>0. out_off' = Len(obuf') /\ out_off' \in Nat
    BY <1>6
  <2>2. Len(obuf') - out_off' = 0
    BY <2>0
  <2>3. QED
    BY <2>1, <2>2
<1>7. Lengths' /\ ObufIsSent'
  <2>1. Lengths'
    BY <1>3, <1>5, <1>6, <1>a DEF Lengths
  <2>2. ObufIsSent'
    BY <1>a DEF ObufIsSent
  <2>3. QED
    BY <2>1, <2>2
<1>8. LogStarts'
  BY <1>1, <1>3, <1>5 DEF LogStarts, OutAt
<1>9. LogGoesOn'
  BY <1>3, <1>5 DEF LogGoesOn
<1>10. QED
  BY <1>2, <1>5, <1>6, <1>7, <1>8, <1>9 DEF WriterInv

LEMMA AppendWriter ==
  ASSUME TypeOK, WriterInv, NEW b \in Byte, AppendObuf(b)
  PROVE  WriterInv'
<1>1. /\ writer = "idle" /\ writer' = "idle"
      /\ obuf' = Append(obuf, b) /\ sent' = Append(sent, b)
      /\ out_off' = out_off /\ out' = out /\ wire' = wire /\ log' = log
  BY DEF AppendObuf
<1>2. Lengths /\ WireIsLog /\ ObufIsLog /\ ObufIsSent /\ LogStarts /\ LogGoesOn
  BY <1>1 DEF WriterInv
<1>3. /\ obuf \in Seq(Byte) /\ sent \in Seq(Byte) /\ out_off \in 0 .. Len(obuf)
      /\ Len(log) \in Nat /\ Len(wire) \in Nat /\ KeyLen \in Nat /\ Len(sent) \in Nat
      /\ Len(obuf) \in Nat
  BY LenTypes
<1>4. /\ Len(obuf') = Len(obuf) + 1 /\ Len(sent') = Len(sent) + 1
      /\ \A i \in 1 .. Len(obuf) : obuf'[i] = obuf[i]
      /\ \A i \in 1 .. Len(sent) : sent'[i] = sent[i]
      /\ obuf'[Len(obuf) + 1] = b /\ sent'[Len(sent) + 1] = b
  BY <1>1, <1>3
<1>a. out_off' = out_off /\ wire' = wire /\ log' = log /\ out' = out
  BY <1>1
<1>5. Lengths' /\ WireIsLog' /\ LogStarts'
  <2>1. Lengths'
    <3>1. Len(sent') + KeyLen + out_off' = Len(log') + Len(obuf')
      BY <1>a, <1>2, <1>3, <1>4 DEF Lengths
    <3>2. QED
      BY <1>a, <1>2, <3>1 DEF Lengths
  <2>2. WireIsLog' /\ LogStarts'
    BY <1>a, <1>2 DEF WireIsLog, LogStarts, OutAt
  <2>3. QED
    BY <2>1, <2>2
<1>6. ObufIsLog'
  <2> SUFFICES ASSUME NEW i \in 1 .. out_off PROVE obuf'[i] = log[(Len(log) - out_off) + i].byte
    BY <1>a DEF ObufIsLog
  <2>1. i \in 1 .. Len(obuf)
    BY <1>3
  <2>2. QED
    BY <1>2, <1>4, <2>1 DEF ObufIsLog
<1>7. ObufIsSent'
  <2> SUFFICES ASSUME NEW i \in 1 .. Len(obuf') - out_off'
               PROVE  obuf'[out_off' + i] = sent'[(Len(log') - KeyLen) + i]
    BY DEF ObufIsSent
  <2>1. CASE i = Len(obuf') - out_off'
    <3>1. out_off' + i = Len(obuf) + 1 /\ (Len(log') - KeyLen) + i = Len(sent) + 1
      BY <1>1, <1>2, <1>3, <1>4, <2>1 DEF Lengths
    <3>2. QED
      BY <1>4, <3>1
  <2>2. CASE i # Len(obuf') - out_off'
    <3>1. /\ i \in 1 .. Len(obuf) - out_off
          /\ out_off + i \in 1 .. Len(obuf) /\ (Len(log) - KeyLen) + i \in 1 .. Len(sent)
      BY <1>1, <1>2, <1>3, <1>4, <2>2 DEF Lengths
    <3>2. QED
      BY <1>1, <1>2, <1>4, <3>1 DEF ObufIsSent
  <2>3. QED
    BY <2>1, <2>2
<1>8. LogGoesOn'
  <2> SUFFICES ASSUME NEW n \in KeyLen + 1 .. Len(log')
               PROVE  /\ sent'[n - KeyLen] = Xor(log'[n].byte, Head(KeyOf(log'[n].out)))
                      /\ OutAt(n)' = Advanced(log'[n].out, log'[n].byte)
    BY DEF LogGoesOn
  <2>1. n - KeyLen \in 1 .. Len(sent)
    BY <1>1, <1>2, <1>3 DEF Lengths
  <2>2. sent'[n - KeyLen] = sent[n - KeyLen]
    BY <1>4, <2>1
  <2>3. QED
    BY <1>1, <1>2, <2>2 DEF LogGoesOn, OutAt
<1>9. QED
  BY <1>1, <1>5, <1>6, <1>7, <1>8 DEF WriterInv

\* A byte of obuf is encrypted: one more in log, which takes it from sent.
LEMMA EncryptWriter ==
  ASSUME TypeOK, TypeOK', WriterInv, EncryptByte
  PROVE  /\ WriterInv' /\ KeyLen <= Len(log) /\ Len(log') = Len(log) + 1
         /\ out_off' = out_off + 1 /\ UNCHANGED <<wire, sent, reading>>
         /\ \A n \in 1 .. Len(log) : log'[n] = log[n]
         /\ \A n \in 0 .. Len(log) : OutAt(n)' = OutAt(n)
<1> DEFINE key == KeyOf(out)
           byte == Xor(obuf[out_off + 1], Head(key))
<1>1. /\ writer = "encrypt" /\ writer' = "encrypt" /\ out_off < Len(obuf)
      /\ obuf' = [obuf EXCEPT ![out_off + 1] = byte]
      /\ out' = Advanced(out, byte)
      /\ log' = Append(log, [out |-> out, byte |-> byte])
      /\ out_off' = out_off + 1 /\ UNCHANGED <<wire, sent, reading>>
  BY DEF EncryptByte, Advanced
<1>2. Lengths /\ WireIsLog /\ ObufIsLog /\ ObufIsSent /\ LogStarts /\ LogGoesOn
  BY <1>1 DEF WriterInv
<1>3. /\ obuf \in Seq(Byte) /\ sent \in Seq(Byte) /\ out_off \in 0 .. Len(obuf)
      /\ Len(log) \in Nat /\ Len(wire) \in Nat /\ KeyLen \in Nat \ {0} /\ Len(sent) \in Nat
      /\ Len(obuf) \in Nat
  BY LenTypes
<1>a. obuf[out_off + 1] \in Byte
  BY <1>1, <1>3
<1>b. out_off' = out_off + 1 /\ wire' = wire /\ sent' = sent
  BY <1>1
<1>4. Head(key) \in Byte
  BY KeyType DEF TypeOK
<1>5. Xor(byte, Head(key)) = obuf[out_off + 1]
  BY <1>a, <1>4, XorType
<1>6. obuf[out_off + 1] = sent[Len(log) + 1 - KeyLen]
  <2>1. 1 \in 1 .. Len(obuf) - out_off
    BY <1>1, <1>3
  <2>2. obuf[out_off + 1] = sent[(Len(log) - KeyLen) + 1]
    BY <1>2, <2>1 DEF ObufIsSent
  <2>3. (Len(log) - KeyLen) + 1 = Len(log) + 1 - KeyLen
    BY <1>3
  <2>4. QED
    BY <2>2, <2>3
<1> HIDE DEF byte
<1>7. /\ Len(log') = Len(log) + 1
      /\ \A n \in 1 .. Len(log) : log'[n] = log[n]
      /\ log'[Len(log) + 1] = [out |-> out, byte |-> byte]
  BY <1>1 DEF TypeOK
<1>8. /\ Len(obuf') = Len(obuf)
      /\ \A i \in 1 .. Len(obuf) : i # out_off + 1 => obuf'[i] = obuf[i]
      /\ obuf'[out_off + 1] = byte
  BY <1>1, <1>3
<1>9. \A n \in 0 .. Len(log) : OutAt(n)' = OutAt(n)
  BY <1>3, <1>7 DEF OutAt
<1>c. Len(log') = Len(log) + 1 /\ Len(obuf') = Len(obuf)
  BY <1>7, <1>8
<1>10. Lengths'
  BY <1>b, <1>c, <1>2, <1>3 DEF Lengths
<1>11. WireIsLog'
  <2> SUFFICES ASSUME NEW i \in 1 .. Len(wire)
               PROVE  wire[i] = log'[(Len(log') - out_off' - Len(wire)) + i].byte
    BY <1>1 DEF WireIsLog
  <2>1. /\ (Len(log') - out_off' - Len(wire)) + i = (Len(log) - out_off - Len(wire)) + i
        /\ (Len(log) - out_off - Len(wire)) + i \in 1 .. Len(log)
    BY <1>b, <1>c, <1>2, <1>3 DEF Lengths
  <2>2. QED
    BY <1>2, <1>7, <2>1 DEF WireIsLog
<1>12. ObufIsLog'
  <2> SUFFICES ASSUME NEW i \in 1 .. out_off'
               PROVE  obuf'[i] = log'[(Len(log') - out_off') + i].byte
    BY DEF ObufIsLog
  <2>1. (Len(log') - out_off') + i = (Len(log) - out_off) + i
    BY <1>1, <1>3, <1>7
  <2>2. CASE i = out_off + 1
    <3>1. (Len(log) - out_off) + i = Len(log) + 1
      BY <1>3, <2>2
    <3>2. QED
      BY <1>7, <1>8, <2>1, <2>2, <3>1
  <2>3. CASE i # out_off + 1
    <3>1. i \in 1 .. out_off /\ i \in 1 .. Len(obuf) /\ (Len(log) - out_off) + i \in 1 .. Len(log)
      BY <1>1, <1>2, <1>3, <2>3 DEF Lengths
    <3>2. QED
      BY <1>2, <1>7, <1>8, <2>1, <2>3, <3>1 DEF ObufIsLog
  <2>4. QED
    BY <2>2, <2>3
<1>13. ObufIsSent'
  <2> SUFFICES ASSUME NEW i \in 1 .. Len(obuf') - out_off'
               PROVE  obuf'[out_off' + i] = sent[(Len(log') - KeyLen) + i]
    BY <1>1 DEF ObufIsSent
  <2>1. /\ i + 1 \in 1 .. Len(obuf) - out_off /\ out_off' + i = out_off + (i + 1)
        /\ (Len(log') - KeyLen) + i = (Len(log) - KeyLen) + (i + 1)
        /\ out_off + (i + 1) \in 1 .. Len(obuf) /\ out_off + (i + 1) # out_off + 1
    BY <1>1, <1>3, <1>7, <1>8
  <2>2. obuf[out_off + (i + 1)] = sent[(Len(log) - KeyLen) + (i + 1)]
    BY <1>2, <2>1 DEF ObufIsSent
  <2>3. QED
    BY <1>8, <2>1, <2>2
<1>14. LogStarts'
  <2>1. 1 \in 1 .. Len(log) /\ \A i \in 1 .. KeyLen : i \in 1 .. Len(log)
    BY <1>2, <1>3 DEF Lengths
  <2>2. OutAt(KeyLen)' = OutAt(KeyLen)
    BY <1>2, <1>3, <1>9 DEF Lengths
  <2>3. QED
    BY <1>2, <1>7, <2>1, <2>2 DEF LogStarts
<1>15. LogGoesOn'
  <2> SUFFICES ASSUME NEW n \in KeyLen + 1 .. Len(log')
               PROVE  /\ sent[n - KeyLen] = Xor(log'[n].byte, Head(KeyOf(log'[n].out)))
                      /\ OutAt(n)' = Advanced(log'[n].out, log'[n].byte)
    BY <1>1 DEF LogGoesOn
  <2>1. CASE n = Len(log) + 1
    <3>1. log'[n].out = out /\ log'[n].byte = byte
      BY <1>7, <2>1
    <3>2. OutAt(n)' = out'
      BY <1>7, <2>1 DEF OutAt
    <3>3. sent[n - KeyLen] = Xor(byte, Head(KeyOf(out)))
      <4>0. n - KeyLen = Len(log) + 1 - KeyLen
        BY <2>1, <1>3
      <4>1. sent[n - KeyLen] = obuf[out_off + 1]
        BY <1>6, <4>0
      <4>2. QED
        BY <1>5, <4>1
    <3>4. out' = Advanced(out, byte)
      BY <1>1
    <3>5. QED
      BY <3>1, <3>2, <3>3, <3>4
  <2>2. CASE n # Len(log) + 1
    <3>1. n \in KeyLen + 1 .. Len(log) /\ n \in 1 .. Len(log) /\ n \in 0 .. Len(log)
      BY <1>3, <1>7, <2>2
    <3>2. log'[n] = log[n] /\ OutAt(n)' = OutAt(n)
      BY <1>7, <1>9, <3>1
    <3>3. QED
      BY <1>2, <3>1, <3>2 DEF LogGoesOn
  <2>3. QED
    BY <2>1, <2>2
<1>16. QED
  BY <1>1, <1>2, <1>7, <1>9, <1>10, <1>11, <1>12, <1>13, <1>14, <1>15 DEF WriterInv, Lengths

LEMMA WriteOutWriter ==
  ASSUME TypeOK, TypeOK', WriterInv, WriteOut
  PROVE  /\ WriterInv' /\ UNCHANGED <<out, sent, log, reading>>
         /\ Len(wire') + out_off' = Len(wire) + out_off
<1>1. /\ writer = "encrypt" /\ writer' = "idle" /\ out_off = Len(obuf) /\ Sent(obuf)
      /\ UNCHANGED <<out, sent, log, reading>>
  BY DEF WriteOut
<1>2. Lengths /\ WireIsLog /\ ObufIsLog /\ ObufIsSent /\ LogStarts /\ LogGoesOn
  BY <1>1 DEF WriterInv
<1>3. /\ obuf \in Seq(Byte) /\ wire \in Seq(Byte)
      /\ log' \in Seq([out : OutState, byte : Byte])
  BY DEF TypeOK, OutState
<1>4. /\ Len(wire) + Len(obuf) <= Len(log')
      /\ \A i \in 1 .. Len(wire) :
           wire[i] = log'[(Len(log') - Len(obuf) - Len(wire)) + i].byte
      /\ \A i \in 1 .. Len(obuf) : obuf[i] = log'[(Len(log') - Len(obuf)) + i].byte
  BY <1>1, <1>2 DEF Lengths, WireIsLog, ObufIsLog
<1>5. /\ out_off' \in Nat /\ obuf' \in Seq(Byte) /\ out_off' = Len(obuf')
      /\ Len(wire') \in Nat /\ Len(wire') + out_off' = Len(wire) + Len(obuf)
      /\ WireIsLog' /\ ObufIsLog'
  BY <1>1, <1>3, <1>4, SentWriter
<1>a. /\ sent' = sent /\ log' = log /\ Len(log) \in Nat /\ Len(sent) \in Nat
      /\ KeyLen \in Nat /\ Len(wire) \in Nat /\ Len(obuf) \in Nat
      /\ Len(obuf') - out_off' = 0
  <2>0. out_off' = Len(obuf') /\ out_off' \in Nat
    BY <1>5
  <2>1. Len(obuf') - out_off' = 0
    BY <2>0
  <2>2. QED
    BY <1>1, <2>1, LenTypes
<1>6. Lengths' /\ ObufIsSent'
  <2>1. Lengths'
    <3>1. Len(wire') + out_off' = Len(wire) + out_off
      BY <1>1, <1>5
    <3>2. Len(sent) + KeyLen = Len(log)
      BY <1>1, <1>2, <1>a DEF Lengths
    <3>3. QED
      BY <1>2, <1>5, <1>a, <3>1, <3>2 DEF Lengths
  <2>2. ObufIsSent'
    BY <1>a DEF ObufIsSent
  <2>3. QED
    BY <2>1, <2>2
<1>7. LogStarts' /\ LogGoesOn'
  BY <1>1, <1>2 DEF LogStarts, LogGoesOn, OutAt
<1>8. QED
  BY <1>1, <1>5, <1>6, <1>7 DEF WriterInv
-----------------------------------------------------------------------------
(***************************************************************************)
(* The reader, as long as no byte of the stream was read before encrypt_io *)
(* took over.                                                              *)
(***************************************************************************)
\* What is under way is the end of log: used, in ibuf, in wire, in obuf
InPlace ==
  /\ Used + Raw + Len(wire) + out_off = Len(log)
  /\ reader \in {"iv", "decrypt"} => off <= Len(ibuf)
  /\ reader = "decrypt" /\ in.missing > 0 => off = Len(ibuf)

RawIsLog == \A i \in 1 .. Raw : ibuf[off + i] = log[Used + i].byte

\* in_cipher takes in the IV, and then is what out_cipher was
InIsIV ==
  in.missing > 0 =>
    /\ received = <<>> /\ in.key = <<>>
    /\ \A i \in 1 .. KeyLen - in.missing : in.cipher[in.missing + i] = log[i].byte

InIsOut ==
  in.missing = 0 => in.cipher = OutAt(Used).cipher /\ in.key = OutAt(Used).key

ReceivedIsSent ==
  /\ Len(received) <= Len(sent)
  /\ \A i \in 1 .. Len(received) : received[i] = sent[i]

ReaderInv == InPlace /\ RawIsLog /\ InIsIV /\ InIsOut /\ ReceivedIsSent

EarlyInv == reader = "connecting" => early = 0 /\ ibuf = <<>> /\ received = <<>>

IInv == TypeOK /\ WriterInv /\ EarlyInv /\ (early = 0 => ReaderInv)

LEMMA ReaderTypes ==
  ASSUME TypeOK, ReaderInv
  PROVE  /\ Used \in Nat /\ Raw \in Nat /\ in.missing \in 0 .. KeyLen /\ off \in Nat
         /\ Used <= Len(log) /\ Used + Raw <= Len(log)
         /\ in.missing = 0 => Used = KeyLen + Len(received)
<1>1. in.missing \in 0 .. KeyLen /\ off \in Nat
  BY DEF TypeOK
<1>2. Used \in Nat /\ (in.missing = 0 => Used = KeyLen + Len(received))
  BY <1>1, LenTypes DEF Used
<1>3. Raw \in Nat
  BY <1>1, LenTypes DEF Raw, ReaderInv, InPlace
<1>4. QED
  BY <1>1, <1>2, <1>3, LenTypes DEF ReaderInv, InPlace

LEMMA InitIInv == Init => IInv
<1> SUFFICES ASSUME Init PROVE IInv
  OBVIOUS
<1>1. TypeOK /\ WriterInv
  BY InitTypeOK, InitWriter
<1>2. /\ ibuf = <<>> /\ wire = <<>> /\ out_off = 0 /\ log = <<>> /\ received = <<>>
      /\ sent = <<>> /\ in.missing = KeyLen /\ in.key = <<>>
      /\ reader \in {"connecting", "idle"} /\ early = 0
  BY DEF Init
<1>3. KeyLen \in Nat \ {0}
  BY EncryptConstants
<1>4. Raw = 0 /\ Used = 0
  BY <1>2, <1>3 DEF Raw, Used
<1>5. InPlace /\ RawIsLog /\ InIsIV /\ InIsOut /\ ReceivedIsSent
  BY <1>2, <1>3, <1>4 DEF InPlace, RawIsLog, InIsIV, InIsOut, ReceivedIsSent
<1>6. QED
  BY <1>1, <1>2, <1>5 DEF IInv, EarlyInv, ReaderInv

\* The writer adds to log, sent and wire, and takes nothing back.
LEMMA WriterStepReader ==
  ASSUME TypeOK, TypeOK', ReaderInv, UNCHANGED reading,
         Len(log) <= Len(log'),
         \A n \in 1 .. Len(log) : log'[n] = log[n],
         \A n \in KeyLen .. Len(log) : OutAt(n)' = OutAt(n),
         Len(log') - (Len(wire') + out_off') = Len(log) - (Len(wire) + out_off),
         Len(sent) <= Len(sent'),
         \A i \in 1 .. Len(sent) : sent'[i] = sent[i]
  PROVE  ReaderInv'
<1>1. /\ ibuf' = ibuf /\ off' = off /\ in' = in /\ reader' = reader /\ received' = received
  BY DEF reading
<1>2. Used' = Used /\ Raw' = Raw
  BY <1>1 DEF Used, Raw
<1>3. /\ Used \in Nat /\ Raw \in Nat /\ in.missing \in 0 .. KeyLen
      /\ Used <= Len(log) /\ Used + Raw <= Len(log)
      /\ in.missing = 0 => Used = KeyLen + Len(received)
  BY ReaderTypes
<1>4. /\ Len(log) \in Nat /\ Len(wire) \in Nat /\ out_off \in Nat /\ KeyLen \in Nat
      /\ Len(received) \in Nat /\ Len(sent) \in Nat
  BY LenTypes
<1>5. Len(log') \in Nat /\ Len(wire') \in Nat /\ out_off' \in Nat /\ Len(sent') \in Nat
  <2>1. /\ log' \in Seq([out : [cipher : Block, key : Seq(Byte)], byte : Byte])
        /\ wire' \in Seq(Byte) /\ sent' \in Seq(Byte) /\ out_off' \in 0 .. Len(obuf')
    BY DEF TypeOK
  <2>2. QED
    BY <2>1
<1>6. InPlace'
  <2>1. Used + Raw + Len(wire') + out_off' = Len(log')
    <3>1. Used + Raw + Len(wire) + out_off = Len(log)
      BY DEF ReaderInv, InPlace
    <3>2. Len(log') - (Len(wire') + out_off') = Len(log) - (Len(wire) + out_off)
      OBVIOUS
    <3>3. /\ Len(log) \in Nat /\ Len(wire) \in Nat /\ out_off \in Nat /\ Len(log') \in Nat
          /\ Len(wire') \in Nat /\ out_off' \in Nat /\ Used \in Nat /\ Raw \in Nat
      BY <1>3, <1>4, <1>5
    <3>4. QED
      BY <3>1, <3>2, <3>3
  <2>2. QED
    BY <1>1, <1>2, <2>1 DEF ReaderInv, InPlace
<1>7. RawIsLog'
  <2>1. \A i \in 1 .. Raw : Used + i \in 1 .. Len(log)
    BY <1>3, <1>4
  <2>2. QED
    BY <1>1, <1>2, <2>1 DEF ReaderInv, RawIsLog
<1>8. InIsIV'
  <2>1. in.missing > 0 => \A i \in 1 .. KeyLen - in.missing : i \in 1 .. Len(log)
    <3>1. in.missing > 0 => Len(received) = 0
      BY DEF ReaderInv, InIsIV
    <3>2. in.missing > 0 => Used = KeyLen - in.missing
      BY <1>3, <1>4, <3>1 DEF Used
    <3>3. QED
      BY <1>3, <1>4, <3>2
  <2>2. QED
    BY <1>1, <2>1 DEF ReaderInv, InIsIV
<1>9. InIsOut'
  <2>1. in.missing = 0 => Used \in KeyLen .. Len(log)
    BY <1>3, <1>4
  <2>2. in.missing = 0 => OutAt(Used)' = OutAt(Used)
    <3>1. in.missing = 0 => \A n \in {Used} : OutAt(n)' = OutAt(n)
      BY <2>1
    <3>2. QED
      BY <1>2, <3>1 DEF OutAt
  <2>3. QED
    BY <1>1, <2>2 DEF ReaderInv, InIsOut
<1>10. ReceivedIsSent'
  <2>1. \A i \in 1 .. Len(received) : i \in 1 .. Len(sent)
    BY <1>4 DEF ReaderInv, ReceivedIsSent
  <2>2. QED
    BY <1>1, <1>4, <1>5, <2>1 DEF ReaderInv, ReceivedIsSent
<1>11. QED
  BY <1>6, <1>7, <1>8, <1>9, <1>10 DEF ReaderInv

\* The steps of the reader that take bytes from wire.
LEMMA ReadReader ==
  ASSUME TypeOK, WriterInv, ReaderInv, Read
  PROVE  ReaderInv'
<1>1. PICK n \in 1 .. Len(wire) : ibuf' = ibuf \o First(n, wire) /\ wire' = After(n, wire)
  BY DEF Read
<1>2. /\ reader = "idle" /\ off' = Len(ibuf) /\ in' = in /\ received' = received
      /\ reader' = IF in.missing > 0 THEN "iv" ELSE "decrypt"
      /\ out_off' = out_off /\ out' = out /\ sent' = sent /\ log' = log
  BY DEF Read, writing
<1>3. /\ Used \in Nat /\ in.missing \in 0 .. KeyLen
      /\ Len(log) \in Nat /\ Len(wire) \in Nat /\ out_off \in Nat /\ Len(ibuf) \in Nat
      /\ ibuf \in Seq(Byte) /\ wire \in Seq(Byte) /\ n \in 0 .. Len(wire) /\ n \in Nat
  BY ReaderTypes, LenTypes
<1>4. /\ First(n, wire) \in Seq(Byte) /\ Len(First(n, wire)) = n
      /\ \A i \in 1 .. n : First(n, wire)[i] = wire[i]
      /\ Len(wire') = Len(wire) - n
  BY <1>1, <1>3, CutSeq
<1>5. /\ Len(ibuf') = Len(ibuf) + n
      /\ \A i \in 1 .. n : ibuf'[Len(ibuf) + i] = wire[i]
  <2> DEFINE t == First(n, wire)
  <2>1. t \in Seq(Byte) /\ Len(t) = n /\ \A i \in 1 .. n : t[i] = wire[i]
    BY <1>4
  <2>2. ibuf' = ibuf \o t
    BY <1>1
  <2> HIDE DEF t
  <2>3. /\ Len(ibuf \o t) = Len(ibuf) + Len(t)
        /\ \A i \in 1 .. Len(t) : (ibuf \o t)[Len(ibuf) + i] = t[i]
    BY <1>3, <2>1, JoinSeq
  <2>4. QED
    BY <2>1, <2>2, <2>3
<1>6. Raw = 0 /\ Raw' = n /\ Used' = Used
  <2>1. reader' \in {"iv", "decrypt"}
    BY <1>2
  <2>2. Raw' = Len(ibuf') - off'
    BY <2>1 DEF Raw
  <2>3. QED
    BY <1>2, <1>3, <1>5, <2>2 DEF Raw, Used
<1>7. Used + Len(wire) + out_off = Len(log)
  BY <1>3, <1>6 DEF ReaderInv, InPlace
<1>8. InPlace'
  <2>1. Used + n + Len(wire') + out_off' = Len(log')
    BY <1>2, <1>3, <1>4, <1>7
  <2>2. off' <= Len(ibuf')
    BY <1>2, <1>3, <1>5
  <2>3. ~(reader' = "decrypt" /\ in'.missing > 0)
    BY <1>2
  <2>4. QED
    BY <1>6, <2>1, <2>2, <2>3 DEF InPlace
<1>9. RawIsLog'
  <2> SUFFICES ASSUME NEW i \in 1 .. n PROVE ibuf'[off' + i] = log'[Used + i].byte
    BY <1>6 DEF RawIsLog
  <2>1. ibuf'[off' + i] = wire[i]
    BY <1>2, <1>5
  <2>2. i \in 1 .. Len(wire) /\ writer # "new"
    <3>1. i \in 1 .. Len(wire)
      BY <1>3
    <3>2. QED
      BY <3>1 DEF WriterInv
  <2>3. wire[i] = log[(Len(log) - out_off - Len(wire)) + i].byte
    BY <2>2 DEF WriterInv, WireIsLog
  <2>4. (Len(log) - out_off - Len(wire)) + i = Used + i
    BY <1>3, <1>7
  <2>5. QED
    BY <1>2, <2>1, <2>3, <2>4
<1>10. InIsIV' /\ InIsOut' /\ ReceivedIsSent'
  BY <1>2, <1>6 DEF ReaderInv, InIsIV, InIsOut, ReceivedIsSent, OutAt
<1>11. QED
  BY <1>8, <1>9, <1>10 DEF ReaderInv

LEMMA SocksReader ==
  ASSUME TypeOK, ReaderInv, EarlyInv, SocksRead, early' = 0
  PROVE  ReaderInv'
<1>1. /\ ibuf' = First(0, wire) /\ wire' = After(0, wire)
      /\ reader = "connecting" /\ reader' = "idle"
      /\ in' = in /\ received' = received
      /\ out_off' = out_off /\ out' = out /\ sent' = sent /\ log' = log
  BY DEF SocksRead, writing
<1>2. /\ wire \in Seq(Byte) /\ Len(wire) \in Nat /\ 0 \in 0 .. Len(wire)
  BY LenTypes
<1>3. Len(wire') = Len(wire)
  BY <1>1, <1>2, CutSeq
<1>4. Raw = 0 /\ Raw' = 0 /\ Used' = Used
  BY <1>1 DEF Raw, Used
<1>5. InPlace' /\ RawIsLog'
  BY <1>1, <1>3, <1>4 DEF ReaderInv, InPlace, RawIsLog
<1>6. InIsIV' /\ InIsOut' /\ ReceivedIsSent'
  BY <1>1, <1>4 DEF ReaderInv, InIsIV, InIsOut, ReceivedIsSent, OutAt
<1>7. QED
  BY <1>5, <1>6 DEF ReaderInv

\* One more byte of the IV is shifted into in_cipher.
LEMMA IvReader ==
  ASSUME TypeOK, WriterInv, ReaderInv, IvByte
  PROVE  ReaderInv'
<1> DEFINE byte == ibuf[off + 1]
<1>1. /\ reader = "iv" /\ reader' = "iv" /\ in.missing > 0 /\ off < Len(ibuf)
      /\ in' = [in EXCEPT !.cipher = Shift(in.cipher, byte), !.missing = in.missing - 1]
      /\ off' = off + 1 /\ ibuf' = ibuf /\ received' = received /\ wire' = wire
      /\ out_off' = out_off /\ out' = out /\ sent' = sent /\ log' = log
  BY DEF IvByte, writing
<1>2. /\ Used \in Nat /\ Raw \in Nat /\ in.missing \in 0 .. KeyLen /\ off \in Nat
      /\ Used + Raw <= Len(log)
      /\ Len(log) \in Nat /\ Len(ibuf) \in Nat /\ KeyLen \in Nat \ {0} /\ in.cipher \in Block
      /\ byte \in Byte
  <2>1. byte \in Byte /\ in.cipher \in Block
    BY <1>1 DEF TypeOK
  <2>2. QED
    BY <2>1, ReaderTypes, LenTypes
<1>3. /\ in'.cipher = Shift(in.cipher, byte) /\ in'.missing = in.missing - 1
      /\ in'.key = in.key
  BY <1>1 DEF TypeOK
<1>4. received = <<>> /\ in.key = <<>> /\ Used = KeyLen - in.missing
  <2>1. received = <<>> /\ in.key = <<>> /\ Len(received) = 0
    BY <1>1 DEF ReaderInv, InIsIV
  <2>2. QED
    BY <1>2, <2>1 DEF Used
<1> HIDE DEF byte
<1>5. Raw = Len(ibuf) - off /\ Raw' = Raw - 1 /\ Used' = Used + 1
  <2>1. Raw = Len(ibuf) - off /\ Raw' = Len(ibuf) - (off + 1)
    BY <1>1 DEF Raw
  <2>2. Used' = KeyLen - (in.missing - 1)
    BY <1>1, <1>2, <1>3, <1>4 DEF Used
  <2>3. QED
    BY <1>2, <1>4, <2>1, <2>2
<1>6. byte = log[Used + 1].byte /\ Used + 1 <= Len(log)
  <2>1. 1 \in 1 .. Raw
    BY <1>1, <1>2, <1>5
  <2>2. QED
    BY <1>2, <2>1 DEF ReaderInv, RawIsLog, byte
<1>7. InPlace'
  <2>1. Used' + Raw' = Used + Raw
    BY <1>2, <1>5
  <2>2. off' <= Len(ibuf')
    BY <1>1, <1>2
  <2>3. QED
    BY <1>1, <2>1, <2>2 DEF ReaderInv, InPlace
<1>8. RawIsLog'
  <2> SUFFICES ASSUME NEW i \in 1 .. Raw - 1 PROVE ibuf[off + 1 + i] = log[Used + 1 + i].byte
    BY <1>1, <1>5 DEF RawIsLog
  <2>1. i + 1 \in 1 .. Raw /\ off + 1 + i = off + (i + 1) /\ Used + 1 + i = Used + (i + 1)
    BY <1>2
  <2>2. QED
    BY <2>1 DEF ReaderInv, RawIsLog
<1>9. \A i \in 1 .. KeyLen - in'.missing : in'.cipher[in'.missing + i] = log[i].byte
  <2> SUFFICES ASSUME NEW i \in 1 .. Used + 1
               PROVE  Shift(in.cipher, byte)[(in.missing - 1) + i] = log[i].byte
    <3>1. KeyLen - in'.missing = Used + 1
      BY <1>2, <1>3, <1>4
    <3>2. QED
      BY <1>3, <3>1
  <2>a. \A m, k, u \in Nat :
          m > 0 /\ u = k - m /\ i <= u + 1 =>
            /\ (m - 1) + i \in 1 .. k /\ (i = u + 1 => (m - 1) + i = k)
            /\ (i # u + 1 =>
                  (m - 1) + i # k /\ (m - 1) + i + 1 = m + i /\ i \in 1 .. k - m)
    BY <1>2
  <2>b. in.missing \in Nat /\ KeyLen \in Nat /\ Used \in Nat /\ i <= Used + 1
    BY <1>2
  <2>1. (in.missing - 1) + i \in 1 .. KeyLen
    BY <1>1, <1>4, <2>a, <2>b
  <2>2. CASE i = Used + 1
    <3>1. (in.missing - 1) + i = KeyLen
      BY <1>2, <1>4, <2>2
    <3>2. QED
      BY <1>6, <2>1, <2>2, <3>1 DEF Shift
  <2>3. CASE i # Used + 1
    <3>1. /\ (in.missing - 1) + i # KeyLen /\ (in.missing - 1) + i + 1 = in.missing + i
          /\ i \in 1 .. KeyLen - in.missing
      BY <1>1, <1>4, <2>3, <2>a, <2>b
    <3>2. in.cipher[in.missing + i] = log[i].byte
      BY <1>1, <3>1 DEF ReaderInv, InIsIV
    <3>3. QED
      BY <2>1, <3>1, <3>2 DEF Shift
  <2>4. QED
    BY <2>2, <2>3
<1>10. InIsIV'
  BY <1>1, <1>3, <1>4, <1>9 DEF InIsIV
<1>11. InIsOut'
  <2> SUFFICES ASSUME in.missing - 1 = 0
               PROVE  in'.cipher = OutAt(KeyLen).cipher /\ in'.key = OutAt(KeyLen).key
    <3>1. in.missing - 1 = 0 => Used' = KeyLen
      BY <1>2, <1>4, <1>5
    <3>2. QED
      BY <1>1, <1>3, <3>1 DEF InIsOut, OutAt
  <2>1. /\ log[1].out = OutAt(KeyLen) /\ log[1].out.key = <<>>
        /\ \A i \in 1 .. KeyLen : log[i].byte = log[1].out.cipher[i]
    <3>1. writer # "new"
      <4>1. Len(log) # 0
        BY <1>2, <1>6
      <4>2. QED
        BY <4>1 DEF WriterInv
    <3>2. QED
      BY <3>1 DEF WriterInv, LogStarts
  <2>2. \A i \in 1 .. KeyLen : in'.cipher[i] = log[1].out.cipher[i]
    <3>1. \A i \in 1 .. KeyLen : in'.cipher[i] = log[i].byte
      BY <1>2, <1>3, <1>9
    <3>2. QED
      BY <2>1, <3>1
  <2>3. in'.cipher \in Block /\ log[1].out.cipher \in Block
    <3>1. 1 \in 1 .. Len(log)
      BY <1>2, <1>6
    <3>2. log[1].out.cipher \in Block
      <4>1. log[1] \in [out : [cipher : Block, key : Seq(Byte)], byte : Byte]
        <5>1. log \in Seq([out : [cipher : Block, key : Seq(Byte)], byte : Byte])
          BY DEF TypeOK
        <5>2. QED
          BY <3>1, <5>1, ElementOfSeq
      <4>2. QED
        BY <4>1
    <3>3. QED
      BY <1>2, <1>3, <3>2, ShiftType
  <2>4. in'.cipher = log[1].out.cipher
    BY <2>2, <2>3, BlockEqual
  <2>5. QED
    BY <1>3, <1>4, <2>1, <2>4
<1>12. ReceivedIsSent'
  BY <1>1 DEF ReaderInv, ReceivedIsSent
<1>13. QED
  BY <1>7, <1>8, <1>10, <1>11, <1>12 DEF ReaderInv

\* The IV, and what was before it in ibuf, is erased.
LEMMA IvEndReader ==
  ASSUME TypeOK, ReaderInv, IvEnd
  PROVE  ReaderInv'
<1>1. /\ reader = "iv" /\ reader' = "decrypt" /\ (in.missing = 0 \/ off = Len(ibuf))
      /\ ibuf' = After(off, ibuf) /\ off' = 0
      /\ in' = in /\ received' = received /\ wire' = wire
      /\ out_off' = out_off /\ out' = out /\ sent' = sent /\ log' = log
  BY DEF IvEnd, writing
<1>2. /\ ibuf \in Seq(Byte) /\ Len(ibuf) \in Nat /\ off \in 0 .. Len(ibuf)
      /\ Raw = Len(ibuf) - off /\ in.missing \in 0 .. KeyLen
  <2>1. off <= Len(ibuf) /\ Raw = Len(ibuf) - off
    BY <1>1 DEF ReaderInv, InPlace, Raw
  <2>2. QED
    BY <2>1, ReaderTypes, LenTypes
<1>3. /\ Len(ibuf') = Len(ibuf) - off
      /\ \A i \in 1 .. Len(ibuf) - off : ibuf'[i] = ibuf[off + i]
  BY <1>1, <1>2, CutSeq
<1>4. Raw' = Raw /\ Used' = Used
  <2>1. Raw' = Len(ibuf') - 0
    BY <1>1 DEF Raw
  <2>2. QED
    BY <1>1, <1>2, <1>3, <2>1 DEF Used
<1>5. InPlace'
  <2>1. off' <= Len(ibuf') /\ (in.missing > 0 => off' = Len(ibuf'))
    BY <1>1, <1>2, <1>3
  <2>2. QED
    BY <1>1, <1>4, <2>1 DEF ReaderInv, InPlace
<1>6. RawIsLog'
  <2> SUFFICES ASSUME NEW i \in 1 .. Raw PROVE ibuf'[0 + i] = log[Used + i].byte
    BY <1>1, <1>4 DEF RawIsLog
  <2>1. 0 + i = i /\ ibuf'[i] = ibuf[off + i]
    BY <1>2, <1>3
  <2>2. QED
    BY <2>1 DEF ReaderInv, RawIsLog
<1>7. InIsIV' /\ InIsOut' /\ ReceivedIsSent'
  BY <1>1, <1>4 DEF ReaderInv, InIsIV, InIsOut, ReceivedIsSent, OutAt
<1>8. QED
  BY <1>5, <1>6, <1>7 DEF ReaderInv

\* A byte is decrypted, with the key byte that encrypted it.
LEMMA DecryptReader ==
  ASSUME TypeOK, WriterInv, ReaderInv, DecryptByte
  PROVE  /\ ReaderInv' /\ sent' = sent
         /\ Len(received) < Len(sent)
         /\ received' = Append(received, sent[Len(received) + 1])
<1> DEFINE key == KeyOf(in)
           byte == ibuf[off + 1]
           plain == Xor(byte, Head(key))
<1>1. /\ reader = "decrypt" /\ reader' = "decrypt" /\ off < Len(ibuf)
      /\ ibuf' = [ibuf EXCEPT ![off + 1] = plain]
      /\ in' = [cipher |-> Shift(in.cipher, byte), key |-> Tail(key), missing |-> 0]
      /\ received' = Append(received, plain)
      /\ off' = off + 1 /\ wire' = wire
      /\ out_off' = out_off /\ out' = out /\ sent' = sent /\ log' = log
  BY DEF DecryptByte, writing
<1>2. /\ Used \in Nat /\ Raw \in Nat /\ in.missing \in 0 .. KeyLen /\ off \in Nat
      /\ Used + Raw <= Len(log) /\ (in.missing = 0 => Used = KeyLen + Len(received))
      /\ Len(log) \in Nat /\ Len(ibuf) \in Nat /\ KeyLen \in Nat \ {0}
      /\ Len(received) \in Nat /\ Len(sent) \in Nat /\ out_off \in 0 .. Len(obuf)
      /\ Len(obuf) \in Nat
  BY ReaderTypes, LenTypes
<1>3. in.missing = 0 /\ Used = KeyLen + Len(received)
  <2>1. ~(in.missing > 0)
    BY <1>1, <1>2 DEF ReaderInv, InPlace
  <2>2. QED
    BY <1>2, <2>1
<1>4. Raw = Len(ibuf) - off /\ 1 \in 1 .. Raw
  BY <1>1, <1>2 DEF Raw
<1> DEFINE n == Used + 1
<1>5. byte = log[n].byte /\ n \in KeyLen + 1 .. Len(log)
  <2>1. byte = log[n].byte
    BY <1>4 DEF ReaderInv, RawIsLog
  <2>2. QED
    BY <1>2, <1>3, <1>4, <2>1
<1>6. Lengths /\ LogGoesOn
  <2>1. writer # "new"
    <3>1. Len(log) # 0
      BY <1>2, <1>5
    <3>2. QED
      BY <3>1 DEF WriterInv
  <2>2. QED
    BY <2>1 DEF WriterInv
<1>7. in.cipher = log[n].out.cipher /\ in.key = log[n].out.key
  <2>1. OutAt(Used) = log[n].out
    BY <1>2, <1>5 DEF OutAt
  <2>2. QED
    BY <1>3, <2>1 DEF ReaderInv, InIsOut
<1>8. key = KeyOf(log[n].out)
  BY <1>7 DEF KeyOf
<1>9. plain = sent[Len(received) + 1]
  <2>1. plain = sent[n - KeyLen]
    BY <1>5, <1>6, <1>8 DEF LogGoesOn
  <2>2. n - KeyLen = Len(received) + 1
    BY <1>2, <1>3
  <2>3. QED
    BY <2>1, <2>2
<1>10. Len(received) + 1 <= Len(sent)
  <2>1. Len(sent) + KeyLen + out_off = Len(log) + Len(obuf) /\ n <= Len(log)
    BY <1>5, <1>6 DEF Lengths
  <2>2. Used <= Len(log) - 1
    BY <1>2, <2>1
  <2> HIDE DEF n
  <2>3. QED
    BY <1>2, <1>3, <2>1, <2>2
<1>11. OutAt(n) = Advanced(log[n].out, byte)
  BY <1>5, <1>6 DEF LogGoesOn
<1>12. in'.cipher = OutAt(n).cipher /\ in'.key = OutAt(n).key /\ in'.missing = 0
  BY <1>1, <1>7, <1>8, <1>11 DEF Advanced
<1>13. /\ Len(received') = Len(received) + 1
       /\ \A i \in 1 .. Len(received) : received'[i] = received[i]
       /\ received'[Len(received) + 1] = plain
  <2> HIDE DEF plain
  <2>1. received \in Seq(Byte) /\ received' = Append(received, plain)
    BY <1>1, LenTypes
  <2>2. QED
    BY <2>1
<1>14. /\ Len(ibuf') = Len(ibuf)
       /\ \A i \in 1 .. Len(ibuf) : i # off + 1 => ibuf'[i] = ibuf[i]
  <2> HIDE DEF plain
  <2>1. ibuf \in Seq(Byte) /\ ibuf' = [ibuf EXCEPT ![off + 1] = plain]
    BY <1>1, LenTypes
  <2>2. QED
    BY <2>1
<1> HIDE DEF key, byte, plain
<1>15. Raw' = Raw - 1 /\ Used' = n
  <2>1. Raw' = Len(ibuf') - off'
    BY <1>1 DEF Raw
  <2>2. Raw' = Len(ibuf) - (off + 1)
    BY <1>1, <1>14, <2>1
  <2>3. Used' = KeyLen - 0 + (Len(received) + 1)
    BY <1>12, <1>13 DEF Used
  <2>4. QED
    BY <1>2, <1>3, <1>4, <2>2, <2>3
<1>16. InPlace'
  <2>1. Used' + Raw' = Used + Raw
    BY <1>2, <1>15
  <2>2. off' <= Len(ibuf')
    BY <1>1, <1>2, <1>14
  <2>3. ~(in'.missing > 0)
    BY <1>12
  <2>4. QED
    BY <1>1, <2>1, <2>2, <2>3 DEF ReaderInv, InPlace
<1>17. RawIsLog'
  <2> SUFFICES ASSUME NEW i \in 1 .. Raw - 1 PROVE ibuf'[off + 1 + i] = log[n + i].byte
    BY <1>1, <1>15 DEF RawIsLog
  <2>1. /\ i + 1 \in 1 .. Raw /\ off + 1 + i = off + (i + 1) /\ n + i = Used + (i + 1)
        /\ off + 1 + i \in 1 .. Len(ibuf) /\ off + 1 + i # off + 1
    BY <1>2, <1>4
  <2>2. ibuf[off + (i + 1)] = log[Used + (i + 1)].byte
    BY <2>1 DEF ReaderInv, RawIsLog
  <2>3. ibuf'[off + 1 + i] = ibuf[off + 1 + i]
    BY <1>14, <2>1
  <2>4. QED
    BY <2>1, <2>2, <2>3
<1>18. InIsIV'
  BY <1>12 DEF InIsIV
<1>19. InIsOut'
  <2>1. OutAt(Used)' = OutAt(n)
    BY <1>1, <1>15 DEF OutAt
  <2>2. QED
    BY <1>12, <2>1 DEF InIsOut
<1>20. ReceivedIsSent'
  <2> SUFFICES ASSUME NEW i \in 1 .. Len(received) + 1 PROVE received'[i] = sent[i]
    BY <1>1, <1>10, <1>13 DEF ReceivedIsSent
  <2>1. CASE i = Len(received) + 1
    BY <1>9, <1>13, <2>1
  <2>2. CASE i # Len(received) + 1
    <3>1. i \in 1 .. Len(received)
      BY <1>2, <2>2
    <3>2. QED
      BY <1>13, <3>1 DEF ReaderInv, ReceivedIsSent
  <2>3. QED
    BY <2>1, <2>2
<1>21. Len(received) < Len(sent)
  BY <1>2, <1>10
<1>22. QED
  BY <1>1, <1>9, <1>16, <1>17, <1>18, <1>19, <1>20, <1>21 DEF ReaderInv

LEMMA IdleReader ==
  ASSUME TypeOK, ReaderInv, ReadEnd \/ Consume
  PROVE  ReaderInv'
<1>1. /\ reader' = "idle" /\ in' = in /\ received' = received /\ wire' = wire
      /\ out_off' = out_off /\ out' = out /\ sent' = sent /\ log' = log
  BY DEF ReadEnd, Consume, writing
<1>2. Raw = 0 /\ Raw' = 0 /\ Used' = Used
  <2>1. Raw = 0
    <3>1. CASE ReadEnd
      BY <3>1, LenTypes DEF ReadEnd, Raw
    <3>2. CASE Consume
      BY <3>2 DEF Consume, Raw
    <3>3. QED
      BY <3>1, <3>2
  <2>2. QED
    BY <1>1, <2>1 DEF Raw, Used
<1>3. InPlace' /\ RawIsLog'
  BY <1>1, <1>2 DEF ReaderInv, InPlace, RawIsLog
<1>4. InIsIV' /\ InIsOut' /\ ReceivedIsSent'
  BY <1>1, <1>2 DEF ReaderInv, InIsIV, InIsOut, ReceivedIsSent, OutAt
<1>5. QED
  BY <1>3, <1>4 DEF ReaderInv
-----------------------------------------------------------------------------
\* Each step, by the process that takes it.
WriterStep == SendIV \/ (\E b \in Byte : AppendObuf(b)) \/ Write \/ WriterLoop

LEMMA WriterSteps ==
  ASSUME IInv, WriterStep
  PROVE  IInv' /\ UNCHANGED <<received, early>>
<1>1. TypeOK /\ WriterInv /\ EarlyInv /\ (early = 0 => ReaderInv)
  BY DEF IInv
<1>2. TypeOK'
  BY <1>1, StepTypeOK DEF Next, WriterStep
<1>3. UNCHANGED reading
  BY DEF WriterStep, WriterLoop, SendIV, AppendObuf, Write, EncryptByte, WriteOut
<1>4. EarlyInv' /\ UNCHANGED <<received, early>> /\ early' = early
  BY <1>1, <1>3 DEF EarlyInv, reading
<1>5. SUFFICES WriterInv' /\ (ReaderInv => ReaderInv')
  BY <1>1, <1>2, <1>4 DEF IInv
<1>t. KeyLen \in Nat \ {0} /\ Len(log) \in Nat /\ Len(wire) \in Nat /\ out_off \in Nat
      /\ sent \in Seq(Byte) /\ Len(sent) \in Nat
  BY <1>1, LenTypes
<1>6. CASE SendIV
  <2>1. /\ WriterInv' /\ UNCHANGED sent /\ log = <<>> /\ wire = <<>> /\ out_off = 0
        /\ Len(log') = KeyLen /\ Len(wire') + out_off' = KeyLen
    BY <1>1, <1>2, <1>6, SendIVWriter
  <2>2. Len(log) = 0 /\ Len(wire) = 0
    BY <2>1
  <2>3. ReaderInv => ReaderInv'
    <3>1. /\ Len(log) <= Len(log')
          /\ \A n \in 1 .. Len(log) : log'[n] = log[n]
          /\ \A n \in KeyLen .. Len(log) : OutAt(n)' = OutAt(n)
          /\ Len(sent) <= Len(sent')
          /\ \A i \in 1 .. Len(sent) : sent'[i] = sent[i]
      BY <1>t, <2>1, <2>2
    <3>2. Len(log') - (Len(wire') + out_off') = Len(log) - (Len(wire) + out_off)
      BY <1>t, <2>1, <2>2
    <3>3. QED
      BY <1>1, <1>2, <1>3, <3>1, <3>2, WriterStepReader
  <2>4. QED
    BY <2>1, <2>3
<1>7. CASE \E b \in Byte : AppendObuf(b)
  <2>1. PICK b \in Byte : AppendObuf(b)
    BY <1>7
  <2>2. /\ WriterInv' /\ sent' = Append(sent, b)
        /\ out_off' = out_off /\ wire' = wire /\ log' = log /\ out' = out
    BY <1>1, <2>1, AppendWriter DEF AppendObuf
  <2>3. Len(sent) <= Len(sent') /\ \A i \in 1 .. Len(sent) : sent'[i] = sent[i]
    BY <1>t, <2>2
  <2>4. ReaderInv => ReaderInv'
    <3>1. /\ Len(log) <= Len(log')
          /\ \A n \in 1 .. Len(log) : log'[n] = log[n]
          /\ \A n \in KeyLen .. Len(log) : OutAt(n)' = OutAt(n)
          /\ Len(log') - (Len(wire') + out_off') = Len(log) - (Len(wire) + out_off)
      BY <1>t, <2>2 DEF OutAt
    <3>2. QED
      BY <1>1, <1>2, <1>3, <2>3, <3>1, WriterStepReader
  <2>5. QED
    BY <2>2, <2>4
<1>8. CASE Write
  <2>1. /\ UNCHANGED <<obuf, out_off, out, wire, sent, log>>
        /\ writer = "idle" /\ writer' = "encrypt"
    BY <1>8 DEF Write
  <2>2. WriterInv'
    BY <1>1, <2>1
       DEF WriterInv, Lengths, WireIsLog, ObufIsLog, ObufIsSent, LogStarts, LogGoesOn, OutAt
  <2>3. ReaderInv => ReaderInv'
    BY <1>3, <2>1
       DEF ReaderInv, InPlace, RawIsLog, InIsIV, InIsOut, ReceivedIsSent, OutAt, Used, Raw,
           reading
  <2>4. QED
    BY <2>2, <2>3
<1>9. CASE EncryptByte
  <2>1. /\ WriterInv' /\ KeyLen <= Len(log) /\ Len(log') = Len(log) + 1
        /\ out_off' = out_off + 1 /\ wire' = wire /\ sent' = sent
        /\ \A n \in 1 .. Len(log) : log'[n] = log[n]
        /\ \A n \in 0 .. Len(log) : OutAt(n)' = OutAt(n)
    BY <1>1, <1>2, <1>9, EncryptWriter
  <2>2. ReaderInv => ReaderInv'
    <3>1. /\ Len(log) <= Len(log') /\ Len(sent) <= Len(sent')
          /\ \A i \in 1 .. Len(sent) : sent'[i] = sent[i]
          /\ Len(log') - (Len(wire') + out_off') = Len(log) - (Len(wire) + out_off)
      BY <1>t, <2>1
    <3>2. \A n \in KeyLen .. Len(log) : OutAt(n)' = OutAt(n)
      <4>1. \A n \in KeyLen .. Len(log) : n \in 0 .. Len(log)
        BY <1>t
      <4>2. QED
        BY <2>1, <4>1
    <3>3. QED
      BY <1>1, <1>2, <1>3, <2>1, <3>1, <3>2, WriterStepReader
  <2>3. QED
    BY <2>1, <2>2
<1>10. CASE WriteOut
  <2>1. /\ WriterInv' /\ out' = out /\ sent' = sent /\ log' = log
        /\ Len(wire') + out_off' = Len(wire) + out_off
    BY <1>1, <1>2, <1>10, WriteOutWriter
  <2>2. ReaderInv => ReaderInv'
    <3>1. /\ Len(log) <= Len(log') /\ Len(sent) <= Len(sent')
          /\ \A n \in 1 .. Len(log) : log'[n] = log[n]
          /\ \A i \in 1 .. Len(sent) : sent'[i] = sent[i]
          /\ \A n \in KeyLen .. Len(log) : OutAt(n)' = OutAt(n)
          /\ Len(log') - (Len(wire') + out_off') = Len(log) - (Len(wire) + out_off)
      BY <1>t, <2>1 DEF OutAt
    <3>2. QED
      BY <1>1, <1>2, <1>3, <3>1, WriterStepReader
  <2>3. QED
    BY <2>1, <2>2
<1>11. QED
  BY <1>6, <1>7, <1>8, <1>9, <1>10 DEF WriterStep, WriterLoop

ReaderStep == SocksRead \/ Read \/ ReaderLoop \/ Consume

LEMMA ReaderSteps ==
  ASSUME IInv, ReaderStep
  PROVE  IInv'
<1>1. TypeOK /\ WriterInv /\ EarlyInv /\ (early = 0 => ReaderInv)
  BY DEF IInv
<1>2. TypeOK'
  BY <1>1, StepTypeOK DEF Next, ReaderStep
<1>3. UNCHANGED writing
  BY DEF ReaderStep, ReaderLoop, SocksRead, Read, IvByte, IvEnd, DecryptByte, ReadEnd, Consume
<1>4. WriterInv'
  <2>1. CASE wire' = wire
    BY <1>1, <1>3, <2>1
       DEF WriterInv, Lengths, WireIsLog, ObufIsLog, ObufIsSent, LogStarts, LogGoesOn, OutAt,
           writing
  <2>2. CASE \E n \in 0 .. Len(wire) : wire' = After(n, wire)
    <3>1. PICK n \in 0 .. Len(wire) : wire' = After(n, wire)
      BY <2>2
    <3>2. QED
      BY <1>1, <1>3, <3>1, TakeWriter
  <2>3. SocksRead \/ Read => \E n \in 0 .. Len(wire) : wire' = After(n, wire)
    BY <1>1, LenTypes DEF SocksRead, Read
  <2>4. ReaderLoop \/ Consume => wire' = wire
    BY DEF ReaderLoop, IvByte, IvEnd, DecryptByte, ReadEnd, Consume
  <2>5. QED
    BY <2>1, <2>2, <2>3, <2>4 DEF ReaderStep
<1>5. EarlyInv'
  BY DEF EarlyInv, ReaderStep, ReaderLoop, SocksRead, Read, IvByte, IvEnd, DecryptByte,
         ReadEnd, Consume
<1>6. ASSUME early' = 0 PROVE ReaderInv'
  <2>1. early = 0
    BY <1>1, <1>6 DEF EarlyInv, ReaderStep, ReaderLoop, SocksRead, Read, IvByte, IvEnd,
                      DecryptByte, ReadEnd, Consume
  <2>2. ReaderInv
    BY <1>1, <2>1
  <2>3. CASE SocksRead
    BY <1>1, <1>6, <2>2, <2>3, SocksReader
  <2>4. CASE Read
    BY <1>1, <2>2, <2>4, ReadReader
  <2>5. CASE IvByte
    BY <1>1, <2>2, <2>5, IvReader
  <2>6. CASE IvEnd
    BY <1>1, <2>2, <2>6, IvEndReader
  <2>7. CASE DecryptByte
    BY <1>1, <2>2, <2>7, DecryptReader
  <2>8. CASE ReadEnd \/ Consume
    BY <1>1, <2>2, <2>8, IdleReader
  <2>9. QED
    BY <2>3, <2>4, <2>5, <2>6, <2>7, <2>8 DEF ReaderStep, ReaderLoop
<1>7. QED
  BY <1>1, <1>2, <1>4, <1>5, <1>6 DEF IInv

LEMMA StepIInv == IInv /\ [Next]_vars => IInv'
<1> SUFFICES ASSUME IInv, [Next]_vars PROVE IInv'
  OBVIOUS
<1>1. CASE Next
  <2>1. WriterStep \/ ReaderStep
    BY <1>1 DEF Next, WriterStep, ReaderStep
  <2>2. QED
    BY <2>1, WriterSteps, ReaderSteps
<1>2. CASE UNCHANGED vars
  <2>1. TypeOK'
    BY <1>2 DEF IInv, TypeOK, vars
  <2>2. WriterInv'
    BY <1>2 DEF IInv, vars, WriterInv, Lengths, WireIsLog, ObufIsLog, ObufIsSent, LogStarts,
                LogGoesOn, OutAt
  <2>3. EarlyInv' /\ (early' = 0 => ReaderInv')
    BY <1>2 DEF IInv, vars, EarlyInv, ReaderInv, InPlace, RawIsLog, InIsIV, InIsOut,
                ReceivedIsSent, OutAt, Used, Raw
  <2>4. QED
    BY <2>1, <2>2, <2>3 DEF IInv
<1>3. QED
  BY <1>1, <1>2

LEMMA Inductive == Spec => []IInv
BY InitIInv, StepIInv, PTL DEF Spec

\* The reader starts from the block from which the writer started, when
\* socks5_connect_info has read nothing of the stream.
THEOREM IVIsRead == Spec => []ReadsIVUnlessEarly
<1>1. IInv => ReadsIVUnlessEarly
  <2> SUFFICES ASSUME IInv, early = 0, in.missing = 0, received = <<>>
               PROVE  in.cipher = log[1].out.cipher
    BY DEF ReadsIVUnlessEarly, ReadsIV
  <2>1. TypeOK /\ WriterInv /\ ReaderInv
    BY DEF IInv
  <2>2. /\ Used \in Nat /\ Used = KeyLen + Len(received) /\ Used <= Len(log)
        /\ KeyLen \in Nat \ {0} /\ Len(received) = 0
    BY <2>1, ReaderTypes, LenTypes
  <2>3. Used = KeyLen /\ log # <<>>
    BY <2>2
  <2>4. log[1].out = OutAt(KeyLen)
    BY <2>1, <2>3 DEF WriterInv, LogStarts
  <2>5. QED
    BY <2>1, <2>3, <2>4 DEF ReaderInv, InIsOut
<1>2. QED
  BY <1>1, Inductive, PTL

\* encrypt_io implements the byte stream that peer_info relies on, for every block
\* length, key and cutting of the stream into reads and writes.
THEOREM ImplementsByteStream == Spec => ImplementsStream
<1>1. Init => Stream!Init
  BY DEF Init, Stream!Init, decrypted
<1>2. IInv /\ [Next]_vars => [Stream!Next]_<<sent, decrypted>>
  <2> SUFFICES ASSUME IInv, [Next]_vars
               PROVE  Stream!Next \/ UNCHANGED <<sent, decrypted>>
    OBVIOUS
  <2>1. TypeOK /\ WriterInv /\ EarlyInv /\ (early = 0 => ReaderInv)
    BY DEF IInv
  <2>2. ASSUME NEW b \in Byte, AppendObuf(b) PROVE Stream!Send
    BY <2>2 DEF AppendObuf, reading, Stream!Send, decrypted
  <2>3. CASE SendIV \/ Write \/ WriterLoop
    BY <2>3 DEF SendIV, Write, WriterLoop, EncryptByte, WriteOut, reading, decrypted
  <2>4. CASE SocksRead
    BY <2>1, <2>4 DEF SocksRead, EarlyInv, writing, decrypted
  <2>5. CASE Read \/ IvByte \/ IvEnd \/ ReadEnd \/ Consume
    BY <2>5 DEF Read, IvByte, IvEnd, ReadEnd, Consume, writing, decrypted
  <2>6. CASE DecryptByte
    <3>1. CASE early = 0
      <4>1. /\ sent' = sent /\ Len(received) < Len(sent)
            /\ received' = Append(received, sent[Len(received) + 1])
        BY <2>1, <2>6, <3>1, DecryptReader
      <4>2. early' = early
        BY <2>6 DEF DecryptByte
      <4>3. Stream!Receive
        BY <3>1, <4>1, <4>2 DEF Stream!Receive, decrypted
      <4>4. QED
        BY <4>3 DEF Stream!Next
    <3>2. CASE early # 0
      BY <2>6, <3>2 DEF DecryptByte, writing, decrypted
    <3>3. QED
      BY <3>1, <3>2
  <2>7. CASE UNCHANGED vars
    BY <2>7 DEF vars, decrypted
  <2>8. QED
    BY <2>2, <2>3, <2>4, <2>5, <2>6, <2>7 DEF Next, ReaderLoop, Stream!Next
<1>3. QED
  BY <1>1, <1>2, Inductive, PTL DEF Spec, ImplementsStream, Stream!Spec
=============================================================================
