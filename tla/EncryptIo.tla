----------------------------- MODULE EncryptIo ------------------------------
(***************************************************************************)
(* encrypt_io of encrypt.h, one direction of an encrypted tunnel: the out_ *)
(* half at one process, the in_ half at the other, and the connection      *)
(* between them.  Every byte is xored with a key byte; eight key bytes at  *)
(* a time come from the cipher text before them (CFB), starting from a     *)
(* random IV that is sent first.  read() and write() move any number of    *)
(* bytes, so a block may be cut anywhere.  The loops over obuf and ibuf    *)
(* take one step for each byte; they run while the other process goes on.  *)
(***************************************************************************)
EXTENDS Integers, Sequences

CONSTANTS
  Byte,       \* the values of a byte
  Xor(_, _),  \* ^ on bytes
  KeyLen,     \* the bytes of a block: 8 in the code
  Tea(_),     \* tea_encode() under the shared key: a block to its key bytes
  MaxSent     \* bound: the bytes appended to obuf

Block == [1 .. KeyLen -> Byte]

ASSUME EncryptConstants ==
  /\ KeyLen \in Nat \ {0}
  /\ \A a, k \in Byte : Xor(a, k) \in Byte /\ Xor(Xor(a, k), k) = a
  /\ \A c \in Block : Tea(c) \in Seq(Byte) /\ Len(Tea(c)) = KeyLen
  /\ MaxSent \in Nat

VARIABLES
  obuf, out_off,  \* bytes to write; those up to out_off are cipher text
  out,            \* out_cipher, and the bytes of out_key not used yet
  writer,         \* where the writer is
  wire,           \* the cipher text between the two kernels
  ibuf, off,      \* bytes read; in read(), those from off on are cipher text
  in,             \* in_cipher, the bytes of in_key not used yet, and how many
                  \* bytes of the IV are missing (in_keybytes below 0)
  reader,         \* where the reader is
  early,          \* history: the bytes read before encrypt_io took over
  sent,           \* history: the bytes appended to obuf
  received,       \* history: the bytes decrypted
  log             \* history: every byte of cipher text, with the value of out
                  \* before it (for the bytes of the IV, after it)

vars == <<obuf, out_off, out, writer, wire, ibuf, off, in, reader, early, sent, received, log>>

Init ==
  /\ obuf = <<>> /\ out_off = 0
  /\ \E c \in Block : out = [cipher |-> c, key |-> <<>>]
  /\ writer = "new"
  /\ wire = <<>>
  /\ ibuf = <<>> /\ off = 0
  /\ \E c \in Block : in = [cipher |-> c, key |-> <<>>, missing |-> KeyLen]
  /\ reader \in {"connecting", "idle"} /\ early = 0
  /\ sent = <<>> /\ received = <<>> /\ log = <<>>

writing == <<obuf, out_off, out, writer, sent, log>>
reading == <<ibuf, off, in, reader, early, received>>

\* cipher = (cipher << 8) + byte
Shift(c, b) == [i \in 1 .. KeyLen |-> IF i = KeyLen THEN b ELSE c[i + 1]]

\* The key bytes at hand: the next block's when the last one is used up
KeyOf(s) == IF s.key = <<>> THEN Tea(s.cipher) ELSE s.key

First(n, s) == SubSeq(s, 1, n)
After(n, s) == SubSeq(s, n + 1, Len(s))

-----------------------------------------------------------------------------
\* IO::write sends the first n of the bytes of o, none when the kernel has no
\* room, and write() and sendIV then set out_off
Sent(o) ==
  \E n \in 0 .. Len(o) :
    /\ wire' = wire \o First(n, o)
    /\ obuf' = After(n, o)
    /\ out_off' = Len(o) - n

\* Mutant: the lowest byte goes first
SendIVLowFirst ==
  /\ writer = "new"
  /\ \E iv \in Block :
       LET bytes == [i \in 1 .. KeyLen |-> iv[KeyLen + 1 - i]] IN
       /\ Sent(bytes)
       /\ out' = [cipher |-> iv, key |-> <<>>]
       /\ log' = [i \in 1 .. KeyLen |-> [out |-> out', byte |-> bytes[i]]]
  /\ writer' = "idle"
  /\ UNCHANGED <<sent, reading>>

\* The constructor: sendIV
SendIV ==
  /\ writer = "new"
  /\ \E iv \in Block :
       /\ Sent(iv)
       /\ out' = [cipher |-> iv, key |-> <<>>]
       /\ log' = [i \in 1 .. KeyLen |-> [out |-> out', byte |-> iv[i]]]
  /\ writer' = "idle"
  /\ UNCHANGED <<sent, reading>>

\* peer_info and client_info append to obuf
AppendObuf(b) ==
  /\ writer = "idle" /\ Len(sent) < MaxSent
  /\ obuf' = Append(obuf, b) /\ sent' = Append(sent, b)
  /\ UNCHANGED <<out_off, out, writer, wire, log, reading>>

\* write()
Write ==
  /\ writer = "idle" /\ obuf # <<>>
  /\ writer' = "encrypt"
  /\ UNCHANGED <<obuf, out_off, out, wire, sent, log, reading>>

EncryptByte ==
  /\ writer = "encrypt" /\ out_off < Len(obuf)
  /\ LET key == KeyOf(out)
         byte == Xor(obuf[out_off + 1], Head(key)) IN
       /\ obuf' = [obuf EXCEPT ![out_off + 1] = byte]
       /\ out' = [cipher |-> Shift(out.cipher, byte), key |-> Tail(key)]
       /\ log' = Append(log, [out |-> out, byte |-> byte])
  /\ out_off' = out_off + 1
  /\ UNCHANGED <<writer, wire, sent, reading>>

\* Mutant: out_off is left where the loop ended
WriteOutKeepsOff ==
  /\ writer = "encrypt" /\ out_off = Len(obuf)
  /\ \E n \in 0 .. Len(obuf) :
       /\ wire' = wire \o First(n, obuf)
       /\ obuf' = After(n, obuf)
       /\ out_off' = out_off
  /\ writer' = "idle"
  /\ UNCHANGED <<out, sent, log, reading>>

WriteOut ==
  /\ writer = "encrypt" /\ out_off = Len(obuf)
  /\ Sent(obuf)
  /\ writer' = "idle"
  /\ UNCHANGED <<out, sent, log, reading>>

-----------------------------------------------------------------------------
\* The reader connected through a SOCKS server: socks5_connect_info::ready may
\* have read bytes that follow the server's reply, and hands them over in ibuf
SocksRead ==
  /\ reader = "connecting"
  /\ \E n \in 0 .. Len(wire) :
       /\ ibuf' = First(n, wire) /\ wire' = After(n, wire)
       /\ early' = n
  /\ reader' = "idle"
  /\ UNCHANGED <<off, in, received, writing>>

\* read(): IO::read takes n bytes
Read ==
  /\ reader = "idle"
  /\ \E n \in 1 .. Len(wire) :
       ibuf' = ibuf \o First(n, wire) /\ wire' = After(n, wire)
  /\ off' = Len(ibuf)
  /\ reader' = IF in.missing > 0 THEN "iv" ELSE "decrypt"
  /\ UNCHANGED <<in, early, received, writing>>

\* Mutant: the loop reads every byte there is into the IV
IvByteForever ==
  /\ reader = "iv" /\ off < Len(ibuf)
  /\ in' = [in EXCEPT !.cipher = Shift(in.cipher, ibuf[off + 1]), !.missing = @ - 1]
  /\ off' = off + 1
  /\ UNCHANGED <<ibuf, reader, early, received, wire, writing>>

IvByte ==
  /\ reader = "iv" /\ in.missing > 0 /\ off < Len(ibuf)
  /\ in' = [in EXCEPT !.cipher = Shift(in.cipher, ibuf[off + 1]), !.missing = @ - 1]
  /\ off' = off + 1
  /\ UNCHANGED <<ibuf, reader, early, received, wire, writing>>

\* Mutant: what follows the IV is erased with it
IvEndErasesAll ==
  /\ reader = "iv" /\ (in.missing = 0 \/ off = Len(ibuf))
  /\ ibuf' = <<>>
  /\ off' = 0
  /\ reader' = "decrypt"
  /\ UNCHANGED <<in, early, received, wire, writing>>

IvEnd ==
  /\ reader = "iv" /\ (in.missing = 0 \/ off = Len(ibuf))
  /\ ibuf' = After(off, ibuf)
  /\ off' = 0
  /\ reader' = "decrypt"
  /\ UNCHANGED <<in, early, received, wire, writing>>

DecryptByte ==
  /\ reader = "decrypt" /\ off < Len(ibuf)
  /\ LET key == KeyOf(in)
         byte == ibuf[off + 1]
         plain == Xor(byte, Head(key)) IN
       /\ ibuf' = [ibuf EXCEPT ![off + 1] = plain]
       /\ in' = [cipher |-> Shift(in.cipher, byte), key |-> Tail(key), missing |-> 0]
       /\ received' = Append(received, plain)
  /\ off' = off + 1
  /\ UNCHANGED <<reader, early, wire, writing>>

ReadEnd ==
  /\ reader = "decrypt" /\ off = Len(ibuf)
  /\ reader' = "idle"
  /\ UNCHANGED <<ibuf, off, in, early, received, wire, writing>>

\* peer_info::ready erases the frames it has handled
Consume ==
  /\ reader = "idle" /\ in.missing = 0
  /\ \E n \in 1 .. Len(ibuf) : ibuf' = After(n, ibuf)
  /\ UNCHANGED <<off, in, reader, early, received, wire, writing>>

-----------------------------------------------------------------------------
WriterLoop == EncryptByte \/ WriteOut
ReaderLoop == IvByte \/ IvEnd \/ DecryptByte \/ ReadEnd

Next ==
  \/ SendIV \/ (\E b \in Byte : AppendObuf(b)) \/ Write \/ WriterLoop
  \/ SocksRead \/ Read \/ ReaderLoop \/ Consume

Spec == Init /\ [][Next]_vars

\* Both loops end; iomanage::write leaves wait_for_output on while it has not sent
\* all, and run() then calls write() again; the kernel has room again and again;
\* run() calls ready() for what has arrived
FairSpec ==
  /\ Spec
  /\ WF_vars(EncryptByte) /\ WF_vars(WriteOut)
  /\ WF_vars(Write /\ out_off > 0) /\ SF_vars(WriteOut /\ out_off' < out_off)
  /\ WF_vars(SocksRead) /\ WF_vars(Read) /\ WF_vars(ReaderLoop)

-----------------------------------------------------------------------------
TypeOK ==
  /\ obuf \in Seq(Byte) /\ wire \in Seq(Byte) /\ ibuf \in Seq(Byte)
  /\ out_off \in 0 .. Len(obuf)
  /\ off \in Nat
  /\ out \in [cipher : Block, key : Seq(Byte)]
  /\ in \in [cipher : Block, key : Seq(Byte), missing : 0 .. KeyLen]
  /\ writer \in {"new", "idle", "encrypt"}
  /\ reader \in {"connecting", "idle", "iv", "decrypt"}
  /\ early \in Nat
  /\ sent \in Seq(Byte) /\ received \in Seq(Byte)
  /\ log \in Seq([out : [cipher : Block, key : Seq(Byte)], byte : Byte])

\* Once bytes of the stream have been read as if they were plain, nothing is
\* promised of what is decrypted
decrypted == IF early = 0 THEN received ELSE <<>>

Stream == INSTANCE ByteStream WITH received <- decrypted

\* Whatever the pieces in which read() and write() move the bytes, and wherever
\* they cut the IV and the blocks, the peer decrypts what was appended: every
\* step of encrypt_io is one of the byte stream it promises.
ImplementsStream == Stream!Spec

\* Every byte that write() has encrypted is decrypted at the other end.
AllDecrypted ==
  \A n \in 1 .. MaxSent :
    Len(log) >= KeyLen + n ~> Len(received) >= n \/ early > 0

\* "reading IV": the reader starts from the block from which the writer started.
ReadsIV == in.missing = 0 /\ received = <<>> => in.cipher = log[1].out.cipher

\* It does, when socks5_connect_info has read nothing of the stream.
ReadsIVUnlessEarly == early = 0 => ReadsIV
=============================================================================
