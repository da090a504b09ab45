------------------------------ MODULE IoManage ------------------------------
(***************************************************************************)
(* The event loop of iomanage.cpp and the objects that live in it: the     *)
(* table fds, the select() sets, active_count, and run(), which calls      *)
(* write() and ready() of the objects whose descriptors select() reported. *)
(*                                                                         *)
(* A handler is a call made by run() or by a timer.  It is modelled by the *)
(* operations of iomanage that the handlers of ptunnel perform, one action *)
(* each, between the call and its return; nothing else runs meanwhile.     *)
(***************************************************************************)
EXTENDS Integers, FiniteSets

CONSTANTS
  Obj,        \* the iomanage objects that may exist at one time
  Null,       \* nullptr
  MaxFd,      \* bound: the largest file descriptor
  MaxTimers   \* bound: timers that wait at one time

Fd == 0 .. MaxFd

ASSUME IoConstants ==
  /\ Null \notin Obj
  /\ MaxFd \in Nat
  /\ MaxTimers \in Nat

VARIABLES
  fds,      \* fds[f]: iomanage::fds, the object registered for f
  obj,      \* obj[o]: class and descriptor of o; "none" when o does not exist
  sel,      \* the sets given to select(), and active_count
  input,    \* the open descriptors on which read() or accept() would succeed
  timers,   \* how many timers wait
  phase,    \* where main() is
  at,       \* run(): the descriptor its loop over fds has come to,
  part,     \* ... and which of the two tests is next for it
  rd, wr,   \* run(): read_fds and write_fds as select() left them, without the
            \* bits already tested, which run() does not look at again
  call      \* the handler that runs

vars == <<fds, obj, sel, input, timers, phase, at, part, rd, wr, call>>

\* listen_info, client_info, peer_info, connect_info, socks5_connect_info
Class == {"listen", "client", "peer", "connect", "socks"}
NoObject == [class |-> "none", fd |-> -1]
Idle == [op |-> "idle", obj |-> Null]

Open == {f \in Fd : fds[f] # Null}

\* The kernel hands out the lowest descriptor that is not open
FreshFd(f) == f \in Fd \ Open /\ \A g \in Fd \ Open : f <= g

-----------------------------------------------------------------------------
(***************************************************************************)
(* The methods of iomanage, as functions of the select sets.               *)
(***************************************************************************)
Watched(s) == s.active \cup s.output_wait

Sets(a, w, n) == [active |-> a, output_wait |-> w, active_count |-> n]

Started(s, f) ==
  Sets(s.active \cup {f}, s.output_wait,
       IF f \in Watched(s) THEN s.active_count ELSE s.active_count + 1)

Stopped(s, f) ==
  Sets(s.active \ {f}, s.output_wait \ {f},
       IF f \in Watched(s) THEN s.active_count - 1 ELSE s.active_count)

\* Mutant: output_wait is not looked at
IgnoreMiscounts(s, f, on) ==
  IF on
  THEN Sets(s.active \ {f}, s.output_wait,
            IF f \in s.active THEN s.active_count - 1 ELSE s.active_count)
  ELSE Sets(s.active \cup {f}, s.output_wait,
            IF f \in Watched(s) THEN s.active_count ELSE s.active_count + 1)

Ignore(s, f, on) ==
  IF on
  THEN Sets(s.active \ {f}, s.output_wait,
            IF f \in s.active /\ f \notin s.output_wait
            THEN s.active_count - 1 ELSE s.active_count)
  ELSE Sets(s.active \cup {f}, s.output_wait,
            IF f \in Watched(s) THEN s.active_count ELSE s.active_count + 1)

WaitForOutput(s, f, on) ==
  IF on
  THEN Sets(s.active, s.output_wait \cup {f},
            IF f \in Watched(s) THEN s.active_count ELSE s.active_count + 1)
  ELSE Sets(s.active, s.output_wait \ {f},
            IF f \notin s.active /\ f \in s.output_wait
            THEN s.active_count - 1 ELSE s.active_count)

\* The connect_info constructor
StartedConnect(s, f) == Ignore(WaitForOutput(Started(s, f), f, TRUE), f, TRUE)

\* connect() succeeds at once: the callback takes the descriptor as the
\* constructor left it, and may write to it
ConnectedAtOnce(s, f) ==
  LET c == StartedConnect(s, f) IN {c, WaitForOutput(c, f, FALSE)}

\* A new object for a new descriptor
Create(o, f, class, s) ==
  /\ obj[o].class = "none"
  /\ FreshFd(f)
  /\ obj' = [obj EXCEPT ![o] = [class |-> class, fd |-> f]]
  /\ fds' = [fds EXCEPT ![f] = o]
  /\ sel' = s

\* close(): the descriptor goes with the object
Close(o) ==
  LET f == obj[o].fd IN
  /\ obj' = [obj EXCEPT ![o] = NoObject]
  /\ fds' = [fds EXCEPT ![f] = Null]
  /\ sel' = Stopped(sel, f)
  /\ input' = input \ {f}

\* Mutant: the source of a move keeps its descriptor
MoveKeepsFd(o, n, class, s) ==
  LET f == obj[o].fd IN
  /\ obj[n].class = "none"
  /\ obj' = [obj EXCEPT ![n] = [class |-> class, fd |-> f], ![o] = NoObject]
  /\ fds' = [fds EXCEPT ![f] = Null]
  /\ sel' = Stopped(s, f)

\* The move constructor: n takes over the descriptor of o.  Every caller then
\* deletes o, whose descriptor is -1
Move(o, n, class, s) ==
  LET f == obj[o].fd IN
  /\ obj[n].class = "none"
  /\ obj' = [obj EXCEPT ![n] = [class |-> class, fd |-> f], ![o] = NoObject]
  /\ fds' = [fds EXCEPT ![f] = n]
  /\ sel' = s

-----------------------------------------------------------------------------
Init ==
  /\ fds = [f \in Fd |-> Null]
  /\ obj = [o \in Obj |-> NoObject]
  /\ sel = Sets({}, {}, 0)
  /\ input = {}
  /\ timers = 0
  /\ phase = "args"
  /\ at = 0 /\ part = "write" /\ rd = {} /\ wr = {}
  /\ call = Idle

loop == <<at, part, rd, wr>>

\* main(): -5 and -L listen, -C connects, and run() is entered at the end
ArgListen(o) ==
  /\ phase = "args"
  /\ \E f \in Fd : Create(o, f, "listen", Started(sel, f))
  /\ UNCHANGED <<input, timers, phase, loop, call>>

ArgConnect(o) ==
  /\ phase = "args"
  /\ \E f \in Fd : Create(o, f, "connect", StartedConnect(sel, f))
  /\ UNCHANGED <<input, timers, phase, loop, call>>

ArgConnectAtOnce(o) ==
  /\ phase = "args"
  /\ \E f \in Fd, class \in {"peer", "socks"} :
       \E s \in ConnectedAtOnce(sel, f) : Create(o, f, class, s)
  /\ UNCHANGED <<input, timers, phase, loop, call>>

ArgsEnd ==
  /\ phase = "args"
  /\ phase' = "top"
  /\ UNCHANGED <<fds, obj, sel, input, timers, loop, call>>

\* The kernel: bytes, an end of file or a connection arrive
Arrive(f) ==
  /\ f \in Open \ input
  /\ obj[fds[f]].class # "connect"
  /\ input' = input \cup {f}
  /\ UNCHANGED <<fds, obj, sel, timers, phase, loop, call>>

-----------------------------------------------------------------------------
(***************************************************************************)
(* run()                                                                   *)
(***************************************************************************)
\* Mutant: the timers are not looked at
WorkInFds == sel.active_count > 0

\* No timer of ptunnel is an ignored one, so ignore_count is 0
Work == sel.active_count > 0 \/ timers > 0

RunEnds ==
  /\ phase = "top" /\ call = Idle
  /\ ~Work
  /\ phase' = "done"
  /\ UNCHANGED <<fds, obj, sel, input, timers, loop, call>>

\* Mutant: a timer fires though none waits
FireTimerAnyway ==
  /\ phase = "top" /\ call = Idle
  /\ timers' = timers - 1
  /\ call' = [op |-> "timer", obj |-> Null]
  /\ UNCHANGED <<fds, obj, sel, input, phase, loop>>

\* The first timer is due
FireTimer ==
  /\ phase = "top" /\ call = Idle
  /\ timers > 0
  /\ timers' = timers - 1
  /\ call' = [op |-> "timer", obj |-> Null]
  /\ UNCHANGED <<fds, obj, sel, input, phase, loop>>

\* select() reports every descriptor with input, and some with room for output
Select ==
  /\ phase = "top" /\ call = Idle
  /\ Work
  /\ rd' = sel.active \cap input
  /\ wr' \in SUBSET sel.output_wait
  /\ rd' \cup wr' # {}
  /\ phase' = "scan" /\ at' = 0 /\ part' = "write"
  /\ UNCHANGED <<fds, obj, sel, input, timers, call>>

\* if (FD_ISSET(fd, &write_fds) && fds[fd]) fds[fd]->write()
Scanning(p) == phase = "scan" /\ call = Idle /\ at \in Fd /\ part = p

ScanNoWrite ==
  /\ Scanning("write")
  /\ at \notin wr \/ fds[at] = Null
  /\ wr' = wr \ {at} /\ part' = "ready"
  /\ UNCHANGED <<fds, obj, sel, input, timers, phase, at, rd, call>>

\* iomanage::write: more to send, or all sent, or an error
ScanWrite ==
  /\ Scanning("write")
  /\ at \in wr /\ fds[at] # Null
  /\ obj[fds[at]].class # "connect"
  /\ \E more \in BOOLEAN : sel' = WaitForOutput(sel, at, more)
  /\ wr' = wr \ {at} /\ part' = "ready"
  /\ UNCHANGED <<fds, obj, input, timers, phase, at, rd, call>>

\* connect_info::write, connected: the callback moves the descriptor to an
\* object of its own
ConnectSucceeds(n) ==
  /\ Scanning("write")
  /\ at \in wr /\ fds[at] # Null
  /\ obj[fds[at]].class = "connect"
  /\ \E class \in {"client", "peer", "socks"} :
       Move(fds[at], n, class, Ignore(WaitForOutput(sel, at, FALSE), at, FALSE))
  /\ call' = [op |-> "callback", obj |-> n]
  /\ wr' = wr \ {at} /\ part' = "ready"
  /\ UNCHANGED <<input, timers, phase, at, rd>>

\* ... not connected: the callback reports it, and the object is closed
ConnectFails ==
  /\ Scanning("write")
  /\ at \in wr /\ fds[at] # Null
  /\ obj[fds[at]].class = "connect"
  /\ Close(fds[at])
  /\ call' = [op |-> "callback", obj |-> Null]
  /\ wr' = wr \ {at} /\ part' = "ready"
  /\ UNCHANGED <<timers, phase, at, rd>>

\* if (FD_ISSET(fd, &read_fds) && fds[fd]) fds[fd]->ready()
ScanNoReady ==
  /\ Scanning("ready")
  /\ at \notin rd \/ fds[at] = Null
  /\ at' = at + 1 /\ rd' = rd \ {at} /\ part' = "write"
  /\ UNCHANGED <<fds, obj, sel, input, timers, phase, wr, call>>

\* Mutant: one handler for each select()
ScanReadyOnce ==
  /\ Scanning("ready")
  /\ at \in rd /\ fds[at] # Null
  /\ call' = [op |-> "ready", obj |-> fds[at]]
  /\ input' \in IF obj[fds[at]].class = "connect" THEN {input}
                                                  ELSE {input, input \ {at}}
  /\ at' = MaxFd + 1 /\ rd' = rd \ {at} /\ part' = "write"
  /\ UNCHANGED <<fds, obj, sel, timers, phase, wr>>

\* A handler reads all there is, or leaves some; connect_info reads nothing
ScanReady ==
  /\ Scanning("ready")
  /\ at \in rd /\ fds[at] # Null
  /\ call' = [op |-> "ready", obj |-> fds[at]]
  /\ input' \in IF obj[fds[at]].class = "connect" THEN {input}
                                                  ELSE {input, input \ {at}}
  /\ at' = at + 1 /\ rd' = rd \ {at} /\ part' = "write"
  /\ UNCHANGED <<fds, obj, sel, timers, phase, wr>>

ScanEnds ==
  /\ phase = "scan" /\ call = Idle /\ at \notin Fd
  /\ phase' = "top" /\ at' = 0 /\ rd' = {} /\ wr' = {}
  /\ UNCHANGED <<fds, obj, sel, input, timers, part, call>>

Return ==
  /\ call # Idle
  /\ call' = Idle
  /\ UNCHANGED <<fds, obj, sel, input, timers, phase, loop>>

-----------------------------------------------------------------------------
(***************************************************************************)
(* What the handlers of ptunnel do to iomanage objects.                    *)
(***************************************************************************)
ReadyOf(class) ==
  call.op = "ready" /\ obj[call.obj].class = class

\* listen_info::ready: accept, and make a client_info, or a peer_info, which
\* writes its IV when it is encrypted
Accept(o) ==
  /\ ReadyOf("listen")
  /\ \E f \in Fd, class \in {"client", "peer"}, more \in BOOLEAN :
       /\ more => class = "peer"
       /\ Create(o, f, class, WaitForOutput(Started(sel, f), f, more))
  /\ UNCHANGED <<input, timers, phase, loop, call>>

\* Mutant: the handler goes on after its close()
CloseSelfGoesOn ==
  /\ \E class \in Class \ {"connect"} : ReadyOf(class)
  /\ Close(call.obj)
  /\ UNCHANGED <<timers, phase, loop, call>>

\* close() of the object whose ready() runs: accept() failed, read() failed or
\* ended, or the SOCKS server refused.  Its handler does nothing more
CloseSelf ==
  /\ \E class \in Class \ {"connect"} : ReadyOf(class)
  /\ Close(call.obj)
  /\ call' = Idle
  /\ UNCHANGED <<timers, phase, loop>>

\* peer_info closes a client of its table: an error, end of file, or the peer
\* itself ends.  Which clients are in which table is module Tunnel's
CloseOther(o) ==
  /\ ReadyOf("peer") /\ obj[o].class = "client"
  /\ Close(o)
  /\ UNCHANGED <<timers, phase, loop, call>>

\* write(): a client's handler writes its answer or to a peer, a peer's to itself
\* or to a client; timers and callbacks write to a peer.  A socks5_connect_info is
\* written by its own handler and by the constructor
WriteTo(o) ==
  /\ \/ call.op \in {"timer", "callback"} /\ obj[o].class = "peer"
     \/ ReadyOf("client") /\ (o = call.obj \/ obj[o].class = "peer")
     \/ ReadyOf("peer") /\ (o = call.obj \/ obj[o].class = "client")
     \/ call # Idle /\ o = call.obj /\ obj[o].class = "socks"
  /\ \E more \in BOOLEAN : sel' = WaitForOutput(sel, obj[o].fd, more)
  /\ UNCHANGED <<fds, obj, input, timers, phase, loop, call>>

\* A client is not read while its connection is in progress: connect_peer and the
\* callback ignore it, the peer's frames end that
IgnoreClient(o, on) ==
  /\ obj[o].class = "client"
  /\ \/ ReadyOf("client") /\ o = call.obj /\ on
     \/ call.op = "callback" /\ o = call.obj /\ on
     \/ ReadyOf("peer") /\ ~on
  /\ sel' = Ignore(sel, obj[o].fd, on)
  /\ UNCHANGED <<fds, obj, input, timers, phase, loop, call>>

\* peer_info::ready, NEW_CONNECTION: connect() is in progress
ConnectTo(o) ==
  /\ ReadyOf("peer")
  /\ \E f \in Fd : Create(o, f, "connect", StartedConnect(sel, f))
  /\ UNCHANGED <<input, timers, phase, loop, call>>

\* ... connect() succeeds at once
ConnectToAtOnce(o) ==
  /\ ReadyOf("peer")
  /\ \E f \in Fd :
       \E s \in ConnectedAtOnce(sel, f) : Create(o, f, "client", s)
  /\ UNCHANGED <<input, timers, phase, loop, call>>

\* socks5_connect_info::ready, CONNECTED: the callback of -C takes the descriptor
HandOver(n) ==
  /\ ReadyOf("socks")
  /\ Move(call.obj, n, "peer", sel)
  /\ call' = [op |-> "callback", obj |-> n]
  /\ UNCHANGED <<input, timers, phase, loop>>

\* RENUMBER_CONNECTION, the channel is taken
AddTimer ==
  /\ ReadyOf("peer")
  /\ timers < MaxTimers
  /\ timers' = timers + 1
  /\ UNCHANGED <<fds, obj, sel, input, phase, loop, call>>

Handler ==
  \/ CloseSelf \/ AddTimer
  \/ \E o \in Obj :
       \/ Accept(o) \/ CloseOther(o) \/ WriteTo(o)
       \/ \E on \in BOOLEAN : IgnoreClient(o, on)
       \/ ConnectTo(o) \/ ConnectToAtOnce(o) \/ HandOver(o)

Run ==
  \/ RunEnds \/ FireTimer \/ Select
  \/ ScanNoWrite \/ ScanWrite \/ ConnectFails
  \/ \E n \in Obj : ConnectSucceeds(n)
  \/ ScanNoReady \/ ScanReady \/ ScanEnds

Next ==
  \/ ArgsEnd
  \/ \E o \in Obj : ArgListen(o) \/ ArgConnect(o) \/ ArgConnectAtOnce(o)
  \/ \E f \in Fd : Arrive(f)
  \/ Run \/ Handler \/ Return

Spec == Init /\ [][Next]_vars

\* main() and run() go on, and no handler runs for ever
FairSpec == Spec /\ WF_vars(ArgsEnd) /\ WF_vars(Run) /\ WF_vars(Return)

-----------------------------------------------------------------------------
(***************************************************************************)
(* Properties.                                                             *)
(***************************************************************************)
TypeOK ==
  /\ fds \in [Fd -> Obj \cup {Null}]
  /\ obj \in [Obj -> [class : Class \cup {"none"}, fd : Fd \cup {-1}]]
  /\ sel \in [active : SUBSET Fd, output_wait : SUBSET Fd, active_count : Int]
  /\ input \in SUBSET Fd
  /\ timers \in 0 .. MaxTimers
  /\ phase \in {"args", "top", "scan", "done"}
  /\ at \in 0 .. MaxFd + 1
  /\ part \in {"write", "ready"}
  /\ rd \in SUBSET Fd /\ wr \in SUBSET Fd
  /\ call \in [op : {"idle", "timer", "callback", "ready"}, obj : Obj \cup {Null}]

\* active_count, on which run() decides to end, is the number of descriptors in
\* active or output_wait, whatever sequence of constructions, moves, closings,
\* ignore() and wait_for_output() calls came before.
CountIsRight == sel.active_count = Cardinality(Watched(sel))

\* The objects and the entries of fds are one to one through the descriptors
\* (the constructor never finds its slot taken, the "will leak" ERROR; fds never
\* holds a deleted object), and select() is only given descriptors of theirs.
FdsOwned ==
  /\ \A f \in Fd : fds[f] # Null => obj[fds[f]].class # "none" /\ obj[fds[f]].fd = f
  /\ \A o \in Obj : obj[o].class # "none" => obj[o].fd \in Fd /\ fds[obj[o].fd] = o
  /\ Watched(sel) \subseteq Open

\* run() returns only when no descriptor can wake it and no timer waits.
RunEndsIdle == phase = "done" => Watched(sel) = {} /\ timers = 0

\* The handler that runs belongs to an object that exists.
HandlerAlive ==
  call.op = "ready" => call.obj \in Obj /\ obj[call.obj].class # "none"

\* A descriptor with input that is not ignored gets its ready() called: no other
\* descriptor, timer or closing can starve it.
InputServed ==
  \A f \in Fd :
    f \in sel.active \cap input ~>
      \/ f \notin sel.active
      \/ call.op = "ready" /\ obj[call.obj].fd = f

\* A connect_info is never told that it is readable.
NotReadyConnecting == ~ReadyOf("connect")
=============================================================================
