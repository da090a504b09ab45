------------------------------ MODULE MCSocks5 ------------------------------
(* Small instances of Socks5. *)
EXTENDS Socks5

Outside(greeting, request, payload) ==
  [kind |-> "outside", greeting |-> greeting, request |-> request, payload |-> payload]

IPv4 == <<5, 1, 0, 1, 10, 0, 0, 3, 0, 80>>
IPv6 == <<5, 1, 0, 4, 32, 1, 0, 0, 0, 0, 0, 0, 0, 0, 0, 0, 0, 0, 0, 9, 0, 80>>
\* 0100::9, of which s5addr keeps seven bytes
IPv6Cut == <<5, 1, 0, 4, 1, 0, 0, 0, 0, 0, 0, 0, 0, 0, 0, 0, 0, 0, 0, 9, 0, 80>>
NameOf(n) == <<5, 1, 0, 3>> \o n \o <<0, 80>>
Bytes == <<7, 8, 9>>

\* One method and several; methods that ask for authentication only; every
\* address type; and messages of other versions, commands and types
AllScripts ==
  { Outside(<<5, 1, 0>>, IPv4, Bytes),
    Outside(<<5, 1, 0>>, IPv6, Bytes),
    Outside(<<5, 1, 0>>, IPv6Cut, Bytes),
    Outside(<<5, 2, 2, 0>>, NameOf(<<1, 120>>), Bytes),
    Outside(<<5, 1, 0>>, NameOf(<<0>>), Bytes),
    Outside(<<5, 1, 2>>, IPv4, Bytes),
    Outside(<<5, 0>>, IPv4, Bytes),
    Outside(<<5, 2, 2, 1>>, IPv4, Bytes),
    Outside(<<4, 1, 0>>, IPv4, Bytes),
    Outside(<<5, 1, 0>>, <<4, 1, 0, 1, 10, 0, 0, 3, 0, 80>>, Bytes),
    Outside(<<5, 1, 0>>, <<5, 2, 0, 1, 10, 0, 0, 3, 0, 80>>, Bytes),
    Outside(<<5, 1, 0>>, <<5, 1, 0, 2, 10, 0, 0, 3, 0, 80>>, Bytes),
    PtunnelScript(<<97, 98, 99>>, 258, Bytes) }

\* The shapes of a reply: with an IPv4 address, a name, an IPv6 address
AllReplies ==
  { <<5, 0, 0, 1, 10, 0, 0, 1, 1, 2>>,
    <<5, 0, 0, 3, 2, 97, 98, 1, 2>>,
    <<5, 0, 0, 4, 32, 1, 0, 0, 0, 0, 0, 0, 0, 0, 0, 0, 0, 0, 0, 1, 1, 2>> }

TwoBytes == <<21, 22>>

\* A request for a name is connected to that name, at its port, exactly when
\* the name has at most 249 bytes: with more, the length byte wraps
ASSUME NamesCross ==
  \A n \in 0 .. 255 :
    LET a == <<3, n>> \o [i \in 1 .. n + 2 |-> i % 256]
    IN (Reached(a) = Named(a) <=> Crosses(a)) /\ (Crosses(a) <=> n <= 249)
=============================================================================
