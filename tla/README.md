# A verification project for ptunnel

ptunnel carries SOCKS5 sessions over one TCP connection, the tunnel, between two
processes. These TLA+ modules model its channel protocol, the SOCKS sessions at its
ends, its listeners and peers, its event loop, its timers and its encryption. TLC
checks them on small instances; TLAPS proves the main safety properties for every
value of the constants. Paths below are relative to `src/`.

## 1. Inventory

| Part | State | Operations | Hard behaviour | What makes it right |
|---|---|---|---|---|
| Channel protocol (`proxy.cpp` 111-453, `dynvec.h`) | `peer_info::clients`, `num_clients`, each `client_info`'s state and channel, `obuf`, `ibuf` | `client_info::ready`, `connect_peer`, `peer_info::ready`, the `connect_to` callback, the renumber timer, both destructors | both sides choose channels; a channel found free is used in a later callback; renumbering; hang-ups and loss of the tunnel | a session's bytes stay its own, in order; requests are made once and answered; the table holds living clients at their channels |
| SOCKS5 greeting and request (`proxy.cpp` 159-233) | `client_info`: START, REQUEST, ..., `ibuf` | the loop of `client_info::ready` | messages cut anywhere, several in one read | one answer for each message, the address that was named, no byte lost or used twice |
| Client of an upstream SOCKS server (`connect.cpp` 80-152) | `socks5_connect_info`: state, `ibuf` | `start`, `ready` | answers cut anywhere; bytes behind the answer | hands over exactly what is not its own |
| Addresses (`socks5.cpp`) | none | `s5addr`, `valid`, `get_address`, `connect_to` | lengths, the type's place | the address that was sent is used |
| Listeners (`proxy.cpp` 41-109), networks (`network.cpp`) | `listen_info`, its allow list | `ready`, `allow_connection`, `listen_on` | errors of `accept()`, masks | those in the list and no others get an object; nobody waits for ever |
| Several peers (`proxy.cpp` 426-453) | `all_peers`, `num_clients` | the choice in `connect_peer` | counts drift, peers come and go | a request is refused only when there is no room |
| Event loop (`iomanage.cpp/h`) | `fds`, `active`, `output_wait`, `active_count`, timer queue, the answer of `select()` | constructor, move, destructor, `close`, `ignore`, `wait_for_output`, `read`, `write`, `run` | handlers delete and create objects while `run()` scans; descriptors are reused | the count is the number of watched descriptors, the table owns them, `run()` ends only when idle and starves nobody |
| Outgoing connections (`connect.cpp`) | `connect_info` | `connect_to`, `connect_info::write` | `connect()` may answer at once, later, or never | one callback for each call, the descriptor handed over |
| Timers, time (`iomanage.h`, `timeval.h`) | priority queue | `timer`, the arithmetic of times | carries, order, seconds on either side | earliest first, never early, no rounding |
| Tunnel encryption (`encrypt.h`) | `in_*`, `out_*`, `out_off` | `sendIV`, `read`, `write` | partial reads and writes; IV cut; bytes read earlier | the other side decrypts what was written |
| Block cipher (`tea.c`) | none | `tea_encode` | | a function |
| Command line (`ptunnel.cpp`), logging, text, build files | | | | |

Parts interact by calls inside one thread: `run()` calls `ready()` and `write()`
of the objects in `fds`; these create, move and close other objects, and set
callbacks and timers. Two processes interact only through the tunnel's bytes.

## 2. Modules

| Module | Models |
|---|---|
| `Tunnel` | the channel protocol of two processes |
| `Pipes` | what it promises: a pair of FIFO pipes for each session |
| `TunnelProofs`, `TunnelReplyProofs` | theorems about `Tunnel` |
| `TunnelPipesProofs` | theorem: a one-way `Tunnel` implements `Pipes` |
| `Socks5` | one SOCKS session from its first byte, at both ends |
| `Addresses` | target addresses: their bytes, their frame, where `connect()` goes |
| `Socks5Proofs` | theorems about `Socks5` |
| `Peers` | the listeners, the clients and the peers of one process |
| `Networks` | IPv4 addresses, networks and masks |
| `PeersProofs` | theorems about `Peers` |
| `TimeVal`, `TimeValProofs` | the arithmetic of times and the order of timers; theorems |
| `IoManage`, `IoManageProofs` | the event loop, with all its kinds of objects |
| `EncryptIo` | the two halves of `encrypt_io` and the connection between them |
| `ByteStream` | what they promise |
| `EncryptProofs` | theorems about `EncryptIo` |
| `MCTunnel`, `MCSocks5`, `MCPeers`, `MCIoManage`, `MCEncryptIo` | values of the constants for TLC |

How they fit: a request that `Socks5` makes (`RequestMade`) is a `RequestConnect` of
`Tunnel`, and `Tunnel`'s answers are `Socks5`'s steps `Established`, `Reply`, `TargetData`,
`Failed` and `PeerGone`. A slot that `Peers` takes or frees is one that `Tunnel` does. The fairness
that each of the three assumes of handlers is what `IoManage` shows (`InputServed`).

### Tunnel

Process `e` is "A" or "B". A session `k` has a client at `Origin[k]`, made when it
was accepted, and one at the other process, made by the callback.

| Code | Model |
|---|---|
| `peer_info::clients`, `num_clients` | `clients[e]`, `num[e]` |
| `client_info` (state, channel, and whether it is ignored) | `client[e][k]` |
| a `connect_to` in progress, with what its callback captured | a record of `pending[e]` |
| the renumber timers | `timers[e]` |
| `peer->obuf`; bytes sent, not yet handled | `obuf[e]`, `wire[e]`: frames |
| the outside parties | `sent`, `rcvd` |
| `client_info::ready` REQUEST with `connect_peer`; CONNECTED; end of file | `RequestConnect`, `RequestRefused`; `ClientData`; `ClientEof` |
| `peer_info::ready`, one iteration of its loop | `RecvNewConnection…`, `RecvEstablished`, `RecvFailedOrEof`, `RecvRenumber…`, `RecvData`, `RecvGarbage` |
| the callback; the timer | `ConnectSucceeds`, `ConnectFails`; `RetryRenumber` |
| `peer_info::ready` when `read()` fails, with `~peer_info` | `PeerLost` |

A frame names the session its bytes belong to, which the program never looks at:
this is how the model sees bytes reach the wrong client. Channels are integers in
the tables and are cut to a byte (`AsByte`) on the wire. A peer that was deleted and
is used again becomes "crashed": what the program does then is undefined.
Requested names, ports and the bytes of replies are left out.
`write()` sends the whole `obuf`: keeping a part back is `EncryptIo`'s and
`IoManage`'s subject, and only delays frames.

One process sees the link end in `PeerLost`, at any time; then the other does
(`LinkEnds`), and what was on the way may be lost.

`Pipes` has no channels. `Sessions` in `Tunnel` is the refinement mapping: a
session is *asked* while its NEW_CONNECTION or its `connect()` is under way, *opened*
when its second client is made, *shut* at an end whose client is closed.

### Socks5

One client and the `client_info` that serves it. The client is a program outside, which
sends its messages whenever it likes, answered or not, or the `socks5_connect_info` with which
ptunnel itself goes through a SOCKS server. What it sends is fixed by a *script*; `ibuf` is
always a window `(off, read]` of that, so that the model is about positions and still
knows every byte. `ServerRead` moves any number of bytes into the window; then each turn of the
loop in `client_info::ready` is one action, until `ServerReturns`.

| Code | Model |
|---|---|
| `ibuf`, `ibuf.erase` | `server.off`, `server.read`; `Erased` |
| START: the test for a whole greeting, the version, `memchr` over the methods | `GreetingCut`; `BadGreeting`, `NeedsAuthentication`, `Greeted` |
| REQUEST: version and command, the length by address type, `connect_peer` | `BadRequest`, `BadType`, `RequestCut`, `RequestRefused`, `RequestMade` |
| CONNECTED: frames of at most 255 bytes | `Copy`, `frames` |
| `socks5_connect_info::ready` | `ClientMethod`, `ClientFails`, `ClientConnected` |
| a frame's way to `connect()` on the other side | `Reached` of `Addresses` |

`early` remembers that a greeting, or a server's reply, was judged before it had arrived
(the `&&` in `proxy.cpp` 164; the reply's length in `connect.cpp` 135-138). What the program makes of
such messages is in the model, wrong as it may be. The properties about a client's bytes are about greetings
that had arrived. `UpstreamRight` is about every reply: it says where the handed-over bytes start when the reply
had arrived, and that only the rest of the reply comes before the tunnel's bytes when it was cut.

### Peers

`ListenReady` is the whole loop of `listen_info::ready`: it accepts what waits, up to an error
that closes the listener. `place[x]` says how far a connection is: a client that was let in is "quiet" until the
last byte of its request has come (`RequestArrives`), which may be never, and it may hang up or be closed
for what it sends instead (`Leaves`). A request whose address `connect_peer` calls invalid (`proxy.cpp` 427) makes it
"misaddressed", and it is refused whatever the peers are. For the others `Request` chooses a least busy
peer and its first free channel. Of a channel only its slot is kept; `Connected`, `Ends`,
`HangsUp` and `Renumbered` are what `Tunnel`'s steps do to the slots and to `num_clients`. `Drift(p)` is what
`num_clients` says too much.
`listen_on`'s allow list is parsed from numbers (`Parse` of `Networks`), as the code does it:
the mask length is cut to a short, and a network without one is always a /8, because
the class is taken of `net`, which is still 0.

### TimeVal

The operators of `timeval.h`, each with seconds on either side, `timer()`, the order of the
queue, and what `run()` gives `select()`. There is no state: the theorems say that each is exact.
`IoManage` has timers that fire in any order, which includes these.

### IoManage

`fds` and `obj` are the table and the objects; `sel` is `active`, `output_wait` and
`active_count`; `rd` and `wr` are `read_fds` and `write_fds` of one `select()`.
`run()` is split into its steps: timers, `select()`, and the two tests for each
descriptor. A handler is the sequence of actions between the step that calls it and
`Return` (or the `CloseSelf` that ends it): any of the calls that handlers of its class
make, in any order. This allows more than the code does, which is sound for what is
checked. Objects are told apart by class: listeners, clients, peers, `connect_info` and `socks5_connect_info`. Only a
peer's handler closes others, and only clients; clients and peers write to each other. Which
clients are in which peer's table, and what a `connect_info` becomes, is left open. Whether one `read()` empties the input is
nondeterministic.

### EncryptIo

One direction, since the two do not share state. The reader and the writer take one
step for each byte; `read()` and `write()` move any number of bytes. `tea_encode` and xor
are constants (`Tea`, `Xor`): nothing is assumed of the cipher, and of xor only that it
undoes itself. `out.key` and `in.key` are the key bytes still to be used, in the order
they are used. The values that memory holds before the constructor sets them are arbitrary.
`log` records, for each byte of cipher text, the writer's state before it.

## 3. Runs

| Run | Instance | Shows |
|---|---|---|
| `TunnelAny` | 2 sessions from opposite ends, channels 0-2, everything may fail or hang up, `connect()` at once or later | types, `TableConsistent`, `RequestsOnce`, `ReadWhenConnected`, `ReplyOnceAndFirst`, `CountCoversTable`, `DriftsByLossOnly` |
| `TunnelOneWay` | 3 sessions from A, channels 0-2, a data unit each way, nobody hangs up, the tunnel breaks, `connect()` at once or later | `ClientOwnsSlot`, `ImplementsPipes`, `RequestAnswered`, `DataArrives` |
| `Socks5` | 13 clients (methods, address types, wrong versions and commands, ptunnel itself), 3 replies, bytes cut anywhere | types, `FramesExact`, `OnlyEarlyBytesWait`, `AskedRight`, `AnswersRight`, `UpstreamRight`, `PayloadCopied`, `SocksAnswered` |
| `Peers` | 2 clients and 2 other processes, one of them dialled, 7 allow lists, channels 1-2 | types, `AllowedExactly`, `RefusedWhenFull`, `WaitingAnswered` |
| `IoLoop` | 3 descriptors, 4 objects, 1 timer | types, `CountIsRight`, `FdsOwned`, `RunEndsIdle`, `HandlerAlive` |
| `IoServed` | 2 descriptors, 3 objects, 1 timer | `InputServed` |
| `Encrypt` | 1-bit bytes, 2-byte blocks, 3 bytes sent | types, `ReadsIVUnlessEarly`, `ImplementsStream`, `AllDecrypted` |

### Findings

Five runs end in a violation that the code really has:

- `TunnelOverwrite`: requests from both ends. The channel that NEW_CONNECTION found free
  is taken by the time the callback stores its client there (`proxy.cpp` 306, 327); the
  client of another session is overwritten, and stays with a channel it does not own.
- `TunnelDangling`: the callback, or the renumber timer, uses a `peer_info` that was deleted
  (`proxy.cpp` 314, 398), as the FIXME in the code fears.
- `TunnelReply`: the SOCKS reply that CONNECTION_ESTABLISHED appends for a renumbered client
  is never written if nothing else is (`proxy.cpp` 361).
- `IoStale`: within one scan a descriptor is closed and reused; the new `connect_info` is
  called with the old one's bit (`iomanage.cpp` 219-223).
- `EncryptHandover`: a tunnel through an upstream SOCKS server, with a key.
  `socks5_connect_info` may read bytes of the IV, and `encrypt_io::read` takes the bytes after
  them for the IV (`encrypt.h` 19, 26).

### Bounds

`Tunnel`: two sessions are the least that compete for a channel, and with channels up to 2
(`MaxChannel`, 255 in the code) both the renumbering and the exhaustion of channels
happen. `MaxSlot` stands for how far `dynvec` may grow past 255: a search that
would end above it is not taken, two more than `MaxChannel` so that the wrap of a channel
to 0 happens. `MaxSend` bounds data units; with the SOCKS reply in front of it one is
enough to tell a reordering. `HangUp` names the ends
whose outside party may close first, and `LinkFails` lets the tunnel break.
`TunnelOneWay` takes requests from one end because with requests from
both the first finding breaks what it checks, and has nobody hang up for the reason given under
"Not claimed". It has three sessions, one more than channels: one is refused, or
gets the channel of one that ended.

`Socks5`: messages have their real bytes. `MaxFrame` is 2 (255 in the code) for three bytes of
payload, so that full, partial and several frames happen, and a `read()` may end at every byte.

`Peers`: addresses have 8 bits and their bytes 2 (`Bits`, 32 in the code), so that the lists can
have prefixes at and off a byte's end, host bits, several networks, a bare network,
a length that is too long or negative, and an address out of range. Two channels and
two clients fill a peer once one client was lost (`MaxDrift` = 1, which bounds how often `Connected` and `HangsUp`
lose one). `MaxSlot` is 2 as well: with slot 0, where a channel that was cut to a byte may go, a client can be moved out
of the channels.

`MaxFd` = 2 gives a scan a descriptor before and one after the current one; four
objects are one more than descriptors, for the source of a move. Objects are symmetric in
`IoLoop` and `IoStale`; the liveness runs have no symmetry. Two-byte blocks and three bytes make
one block end and another start, with every cut of them; one-bit bytes make
each wrong key byte show.

`CHECK_DEADLOCK FALSE`: sessions end, the tunnel breaks for good, `run()` returns, and the
bounded bytes are all sent.

### Fairness

- `Tunnel` (`FairSpec`): weak fairness of `Receive(e)`, `Callback(e)` and `LinkEnds(e)`. A frame that
  has arrived, or the end of a connection that the other process closed, makes the peer's descriptor
  readable; a `connect()` ends, a timer expires, and `run()` (see `InputServed`) gets to it. The
  outside parties promise nothing, and the link need not fail.
- `Socks5`: weak fairness of the handlers (`ServerStep`, `ClientStep`), which run when there is
  something to read, and of the outcome of a request (`Outcome`), which is `Tunnel`'s
  `RequestAnswered`. A client outside need not send anything.
- `Peers`: weak fairness of each listener's handler and of `client_info::ready` for each client whose request
  has arrived. No client need send one, or stay, and no other process need ever come, stay, or answer.
- `IoManage`: weak fairness of `run()`'s steps and of `Return`: no handler runs for ever.
  The kernel promises nothing: input may never come, and may stay for ever.
- `EncryptIo`: both loops end; `IoManage`'s `write()` leaves `wait_for_output` on while bytes are
  left, so that `run()` calls `write()` again (weak, `out_off > 0`), and the kernel has room for
  some bytes again and again (strong). Nothing makes the writer start for bytes that were
  appended with no `write()`: that is its callers' business (`TunnelReply`).

### Not claimed

- `RequestAnswered` with requests from both ends: two renumberings onto taken channels can answer
  each other for ever; only the random delay of the timers ends this, with probability one.
- `ClientOwnsSlot` and `ImplementsPipes` when somebody hangs up. `client_info::close` tells nobody; its channel is
  used again, and data of the old session reach the new one. That holds for targets too: each frame
  that is on the way to a target that hung up is answered with an end of file of its own
  (`proxy.cpp` 298), the first of them frees the channel, and the second closes the channel's next
  owner. TLC finds it with three sessions from A, two data units and `HangUp` = {"B"}; two
  sessions are too few.
- `ReadWhenConnected` for a client made by a `connect()` that succeeds at once: the callback runs before
  `ignore(false)`, and the client is never read (`connect.cpp` 164-169). The property names
  this one exception.
- Greetings that are judged early: the rest is taken for a request. What becomes of the rest of a SOCKS
  server's cut reply: it is the first that the tunnel reads (`UpstreamRight`), and `peer_info` takes it for frames.
- That a request is made whenever some peer has a free channel. The choice looks at `num_clients`, which counts clients
  that hung up or were overwritten, for ever (`DriftsByLossOnly`): a peer with free channels may lose to one that has
  none, and the request is refused.
- Bytes that a client sends before its connection is complete are copied only when more arrive
  (`proxy.cpp` 216): `OnlyEarlyBytesWait` says that no others wait.
- An address type that is not supported is answered twice (`proxy.cpp` 199-213); IPv6 targets are given
  the family AF_INET, and some addresses are cut short by `s5addr` and refused; a name of more than 249 bytes
  wraps the length of its frame (`Crosses`; `NamesCross` in `MCSocks5`). `AnswersRight` and `AskedRight` name these.
- Prefixes longer than an address, whose shift is undefined, and negative ones, which become small positive ones if they
  are out of a short's range, are left out of `AllowedExactly`.

## 4. Proofs

All for any number of sessions, channels, data units, clients, processes, scripts, texts, descriptors, objects,
timers, bytes, block lengths and ciphers. The assumptions are `TunnelConstants`, `SocksConstants`,
`ScriptsWellFormed`, `RepliesWellFormed`, `NetworkConstants`, `PeersConstants`, `IoConstants` and `EncryptConstants`, next to
the constants they are about; TLC evaluates them on every run. `ScriptsWellFormed` is of the clients: their
messages have the lengths that they announce, and ptunnel's own client offers one method and asks for a name, as
`socks5_connect_info` does. `RepliesWellFormed` is of the successes of a SOCKS server: they have the length of their
address, which is of a known type.

- **TunnelProofs.** `TypeCorrect`; `TableIsConsistent` and `RequestsAreMadeOnce` from
  `IInv == TypeOK /\ TableConsistent /\ RequestsOnce`. `RequestsOnce` is needed for
  `TableConsistent`: a callback makes a new client because no client for its session exists
  yet, so the client it stores is in no other slot. Each action is reduced to one of a
  few changes of one table and one client (`TableChange`), and the queues to three facts about
  where requests can be (`ConcatNoRequests`, `ConsumedShrinks`, `RequestsShrink`).
  `ReadExactlyWhenConnected` is inductive with the table's invariant.
  `CountCovers`: `num_clients` is never less than the clients in the table. Each
  action adds at most as many slots as it counts and counts off no more than it frees.
  `CountDriftsByLossOnly` is the exact account: a lemma for each way in which a table changes (`AccountedTakes`,
  `AccountedOverwrites`, `AccountedCleared`, `AccountedMoves`); an overwritten client is another than the
  one that is stored, since `RequestsOnce` says that the latter has no slot yet.
- **TunnelReplyProofs.** `ReplyIsOnceAndFirst`. All that is under way to an end, in the order it will
  be read, is one sequence (`InFlight`). A step leaves a part of it, or adds at its end either
  the reply of a client that was not connected, which had no items, or the client's next data unit.
- **TunnelPipesProofs.** `OneWayOwnsSlots` and `OneWayImplementsPipes`, for an end `o` at which all sessions
  start and no hang-ups (`OneWay(o)`). Neither is inductive: that the slot a callback writes is
  still free depends on what is on the wire. The invariant, `Paired`, is about both ends together:
  no two sessions use a channel, be it asked for, in a `connect()` or connected, and the session that uses it
  holds it at `o` (`UsesAlone`); so no number is found taken and nothing is ever renumbered (`Idle`). What
  is on the wire to `o` is for clients that `o` still has, and nothing follows a failure on its channel
  (`Answers`, `FailsAlone`), since otherwise the channel's next owner would get it. `InOrder` says that the
  wire carries, for each session, exactly the items sent and not yet handed over, in order: with it each
  delivery is the next item of `Pipes`. Every action of `Tunnel` is then a step of `Pipes` or a stutter
  (`StepMaps`).
- **Socks5Proofs.** `SocksTypes`, `TunnelGetsThePayload`, `LaterBytesAreCopied`, `AnswersAreRight`,
  `RequestsAreRight` and `UpstreamIsHandedOver`
  from one invariant, `SInv`: next to what they state it has `Progress`, what `client_info` has done in each of its
  states, `Exact`, where in the client's bytes it then is, and `Upstream`, where
  `socks5_connect_info` is in what the server wrote. `Exact` is what makes `FramesExact`
  inductive: the first frame starts where the request ended because greeting and request were
  erased by the lengths that they announced (`GreetingRead`, `RequestRead`). For `AskedRight` the
  address is followed through `s5addr`, the frame, `s5addr` again and `get_address` (`WholeAddress`,
  `AddressReached`): an address that `s5addr` leaves whole on one side is left whole on the other.
  For `UpstreamRight` the two ends are tied together: the greeting of ptunnel's own client is never judged early
  (`OwnGreetingArrives`), so that `AnswersRight` holds; the bytes that the client takes for a success, cut
  or not, are a success (`AnswersSeen`, `ReplyWritten`), and it erases what had arrived of it and no more.
- **PeersProofs.** `TypeCorrect` and `RefusedOnlyWhenFull`: from the invariant that a peer never counts
  less than its table (`Counted`), a least busy peer with no free channel counts all its channels, and the
  others count no less. `LetInAsMeant`: the list that
  `listen_on` made judges everybody who connects (`Judged`), and to compare masked addresses is to
  compare prefixes (`SameQuotient`, `ParsedMeans`). The powers of two it needs are cardinalities of
  power sets (`PowerPositive`), since the provers know nothing of `2^n`.
- **TimeValProofs.** `ArithmeticExact`, `SecondsExact`, `OrderExact`, and from them `TimersInOrder` and
  `RetryOnTime`: times behave like their microseconds. `MCIoManage` has the same on
  small numbers for TLC (`TimesExact`).
- **IoManageProofs.** `CountIsAlwaysRight`, `FdsAreOwned`, `RunEndsOnlyIdle`, `HandlerIsAlive` from their
  conjunction with `NoHandlerOutsideRun`. Lemmas say of each method that it keeps the
  count right (`StartedGood` … `WaitGood`) and of `Create`, `Close` and `Move` that
  they keep the table one to one; the handlers are compositions of these.
- **EncryptProofs.** `IVIsRead` and `ImplementsByteStream`. `WriterInv` says that `wire` and the
  encrypted part of `obuf` are the end of `log`, and that `log` is what the cipher makes of `sent`;
  `ReaderInv` says which part of `log` the reader has used (`Used`) and holds (`Raw`), and that its
  state is the one the writer had there (`InIsOut`). Both are needed because the bytes
  under way carry no trace of the key they were made with.

Every safety property of a passing run is stated by a theorem. Only model-checked is all
liveness (`RequestAnswered`, `DataArrives`, `PayloadCopied`, `SocksAnswered`, `WaitingAnswered`,
`InputServed`, `AllDecrypted`), which is out of the prover's reach.

## 5. Not modelled

- `tea_encode`'s rounds: a function with no state. Logging, text, `hex.h`, `chars_ref.h`: no effect on state.
- Name resolution, the text of endpoints, usage messages and exit codes.
- Errors of `write()`, which no caller looks at, and SIGPIPE, which ends the process; how large a slow client's
  `obuf` grows.
- `set_async(false)`, `closeAll`, `start`, `lineout`, `listen_socket`, and the printing and parsing of times:
  called by nothing but logging.

## 6. Plan

What is left, in this order:

1. The frames that arrive behind a SOCKS server's reply: `Socks5` ends at the hand-over, and `peer_info`'s loop
   does not run before the next `read()` (`proxy.cpp` 460).
2. Theorems about the violated properties: under which weaker condition each holds (`ObufWritten` without
   renumbering, `ReadsIV` without bytes read early).
3. The grammar of endpoints (`-L`, `-C`), whose errors end the process.
