--------------------------- MODULE IoManageProofs ---------------------------
(***************************************************************************)
(* active_count, the ownership of descriptors and the end of run(), proved *)
(* for every number of descriptors, objects and timers.                    *)
(***************************************************************************)
EXTENDS IoManage, FiniteSetTheorems, TLAPS

SelectSets == [active : SUBSET Fd, output_wait : SUBSET Fd, active_count : Int]

Counted(s) == s.active_count = Cardinality(Watched(s))

\* s is a state of the select sets that counts its descriptors
Good(s) == s \in SelectSets /\ Counted(s)

\* Sets of descriptors: adding and removing one.
LEMMA WatchedFinite ==
  ASSUME NEW W \in SUBSET Fd
  PROVE  /\ Cardinality(W) \in Nat
         /\ \A f \in Fd :
              /\ f \notin W => Cardinality(W \cup {f}) = Cardinality(W) + 1
              /\ f \in W => W \cup {f} = W
              /\ f \in W => Cardinality(W \ {f}) = Cardinality(W) - 1
              /\ f \notin W => W \ {f} = W
<1>1. IsFiniteSet(Fd)
  BY IoConstants, FS_Interval DEF Fd
<1>2. IsFiniteSet(W)
  BY <1>1, FS_Subset
<1>3. QED
  BY <1>2, FS_CardinalityType, FS_AddElement, FS_RemoveElement

\* The constructor registers one more descriptor, and the destructor one less.
LEMMA StartedGood ==
  ASSUME NEW s, Good(s), NEW f \in Fd
  PROVE  Good(Started(s, f)) /\ Watched(Started(s, f)) = Watched(s) \cup {f}
<1>1. Watched(s) \in SUBSET Fd
  BY DEF Good, SelectSets, Watched
<1>2. Watched(Started(s, f)) = Watched(s) \cup {f}
  BY DEF Started, Sets, Watched
<1>3. Started(s, f) \in SelectSets
  BY DEF Good, SelectSets, Started, Sets
<1>4. Started(s, f).active_count = Cardinality(Watched(s) \cup {f})
  <2> DEFINE W == Watched(s)
  <2>1. s.active_count = Cardinality(W) /\ W \in SUBSET Fd
    BY <1>1 DEF Good, Counted
  <2>2. Started(s, f).active_count = IF f \in W THEN s.active_count ELSE s.active_count + 1
    BY DEF Started, Sets
  <2> HIDE DEF W
  <2>3. CASE f \in W
    BY <2>1, <2>2, <2>3, WatchedFinite DEF W
  <2>4. CASE f \notin W
    <3>1. Cardinality(W \cup {f}) = Cardinality(W) + 1
      BY <2>1, <2>4, WatchedFinite
    <3>2. QED
      BY <2>1, <2>2, <2>4, <3>1 DEF W
  <2>5. QED
    BY <2>3, <2>4
<1>5. QED
  BY <1>2, <1>3, <1>4 DEF Good, Counted

LEMMA StoppedGood ==
  ASSUME NEW s, Good(s), NEW f \in Fd
  PROVE  Good(Stopped(s, f)) /\ Watched(Stopped(s, f)) = Watched(s) \ {f}
<1>1. Watched(s) \in SUBSET Fd
  BY DEF Good, SelectSets, Watched
<1>2. Watched(Stopped(s, f)) = Watched(s) \ {f}
  BY DEF Stopped, Sets, Watched
<1>3. Stopped(s, f) \in SelectSets
  BY DEF Good, SelectSets, Stopped, Sets
<1>4. Stopped(s, f).active_count = Cardinality(Watched(s) \ {f})
  BY <1>1, WatchedFinite DEF Good, Counted, Stopped, Sets
<1>5. QED
  BY <1>2, <1>3, <1>4 DEF Good, Counted

\* ignore() and wait_for_output() keep the count, and watch nothing but f anew.
LEMMA IgnoreGood ==
  ASSUME NEW s, Good(s), NEW f \in Fd, NEW on \in BOOLEAN
  PROVE  Good(Ignore(s, f, on)) /\ Watched(Ignore(s, f, on)) \subseteq Watched(s) \cup {f}
<1> DEFINE W == Watched(s)
<1>1. W \in SUBSET Fd /\ s.active_count = Cardinality(W)
  BY DEF Good, SelectSets, Watched, Counted
<1>2. Ignore(s, f, on) \in SelectSets
  BY DEF Good, SelectSets, Ignore, Sets
<1>3. Watched(Ignore(s, f, on)) =
        IF on THEN IF f \in s.active /\ f \notin s.output_wait THEN W \ {f} ELSE W
              ELSE W \cup {f}
  BY DEF Ignore, Sets, Watched
<1>4. f \in s.active => f \in W
  BY DEF Watched
<1>5. Ignore(s, f, on).active_count = Cardinality(Watched(Ignore(s, f, on)))
  <2> HIDE DEF W
  <2>1. Ignore(s, f, on).active_count =
          IF on THEN IF f \in s.active /\ f \notin s.output_wait
                     THEN s.active_count - 1 ELSE s.active_count
                ELSE IF f \in W THEN s.active_count ELSE s.active_count + 1
    BY DEF Ignore, Sets, W
  <2>2. QED
    <3>1. /\ f \notin W => Cardinality(W \cup {f}) = Cardinality(W) + 1
          /\ f \in W => W \cup {f} = W
          /\ f \in W => Cardinality(W \ {f}) = Cardinality(W) - 1
      BY <1>1, WatchedFinite
    <3>2. QED
      BY <1>1, <1>3, <1>4, <2>1, <3>1
<1>6. QED
  BY <1>2, <1>3, <1>5 DEF Good, Counted

LEMMA WaitGood ==
  ASSUME NEW s, Good(s), NEW f \in Fd, NEW on \in BOOLEAN
  PROVE  /\ Good(WaitForOutput(s, f, on))
         /\ Watched(WaitForOutput(s, f, on)) \subseteq Watched(s) \cup {f}
<1> DEFINE W == Watched(s)
<1>1. W \in SUBSET Fd /\ s.active_count = Cardinality(W)
  BY DEF Good, SelectSets, Watched, Counted
<1>2. WaitForOutput(s, f, on) \in SelectSets
  BY DEF Good, SelectSets, WaitForOutput, Sets
<1>3. Watched(WaitForOutput(s, f, on)) =
        IF on THEN W \cup {f}
        ELSE IF f \notin s.active /\ f \in s.output_wait THEN W \ {f} ELSE W
  BY DEF WaitForOutput, Sets, Watched
<1>4. f \in s.output_wait => f \in W
  BY DEF Watched
<1>5. WaitForOutput(s, f, on).active_count = Cardinality(Watched(WaitForOutput(s, f, on)))
  <2> HIDE DEF W
  <2>1. WaitForOutput(s, f, on).active_count =
          IF on THEN IF f \in W THEN s.active_count ELSE s.active_count + 1
          ELSE IF f \notin s.active /\ f \in s.output_wait
               THEN s.active_count - 1 ELSE s.active_count
    BY DEF WaitForOutput, Sets, W
  <2>2. QED
    <3>1. /\ f \notin W => Cardinality(W \cup {f}) = Cardinality(W) + 1
          /\ f \in W => W \cup {f} = W
          /\ f \in W => Cardinality(W \ {f}) = Cardinality(W) - 1
      BY <1>1, WatchedFinite
    <3>2. QED
      BY <1>1, <1>3, <1>4, <2>1, <3>1
<1>6. QED
  BY <1>2, <1>3, <1>5 DEF Good, Counted

LEMMA StartedConnectGood ==
  ASSUME NEW s, Good(s), NEW f \in Fd
  PROVE  Good(StartedConnect(s, f)) /\ Watched(StartedConnect(s, f)) \subseteq Watched(s) \cup {f}
<1> DEFINE a == Started(s, f)
           b == WaitForOutput(a, f, TRUE)
<1>1. Good(a) /\ Watched(a) = Watched(s) \cup {f}
  BY StartedGood
<1> HIDE DEF a
<1>2. Good(b) /\ Watched(b) \subseteq Watched(a) \cup {f}
  BY <1>1, WaitGood
<1> HIDE DEF b
<1>3. Good(Ignore(b, f, TRUE)) /\ Watched(Ignore(b, f, TRUE)) \subseteq Watched(b) \cup {f}
  BY <1>2, IgnoreGood
<1>4. QED
  BY <1>1, <1>2, <1>3 DEF StartedConnect, a, b

LEMMA ConnectedAtOnceGood ==
  ASSUME NEW t, Good(t), NEW f \in Fd, NEW s \in ConnectedAtOnce(t, f)
  PROVE  Good(s) /\ Watched(s) \subseteq Watched(t) \cup {f}
<1> DEFINE c == StartedConnect(t, f)
<1>1. Good(c) /\ Watched(c) \subseteq Watched(t) \cup {f}
  BY StartedConnectGood
<1>2. s = c \/ s = WaitForOutput(c, f, FALSE)
  BY DEF ConnectedAtOnce
<1> HIDE DEF c
<1>3. /\ Good(WaitForOutput(c, f, FALSE))
      /\ Watched(WaitForOutput(c, f, FALSE)) \subseteq Watched(c) \cup {f}
  BY <1>1, WaitGood
<1>4. QED
  BY <1>1, <1>2, <1>3

\* connect_info::write makes its descriptor readable again.
LEMMA AnsweredGood ==
  ASSUME NEW s, Good(s), NEW f \in Fd
  PROVE  LET t == Ignore(WaitForOutput(s, f, FALSE), f, FALSE)
         IN  Good(t) /\ Watched(t) \subseteq Watched(s) \cup {f}
<1> DEFINE b == WaitForOutput(s, f, FALSE)
<1>1. Good(b) /\ Watched(b) \subseteq Watched(s) \cup {f}
  BY WaitGood
<1> HIDE DEF b
<1>2. Good(Ignore(b, f, FALSE)) /\ Watched(Ignore(b, f, FALSE)) \subseteq Watched(b) \cup {f}
  BY <1>1, IgnoreGood
<1>3. QED
  BY <1>1, <1>2 DEF b
-----------------------------------------------------------------------------
(***************************************************************************)
(* The inductive invariant: a handler that runs has an object, so its      *)
(* descriptor is one that is open, and the select sets only lose it when   *)
(* it is closed.                                                           *)
(***************************************************************************)
NoHandlerOutsideRun == phase \in {"args", "done"} => call = Idle

IInv ==
  /\ TypeOK /\ CountIsRight /\ FdsOwned /\ RunEndsIdle /\ HandlerAlive
  /\ NoHandlerOutsideRun

\* The part of the state that is not objects and select sets
LoopOK ==
  /\ input \in SUBSET Fd
  /\ timers \in 0 .. MaxTimers
  /\ phase \in {"args", "top", "scan", "done"}
  /\ at \in 0 .. MaxFd + 1
  /\ part \in {"write", "ready"}
  /\ rd \in SUBSET Fd /\ wr \in SUBSET Fd
  /\ call \in [op : {"idle", "timer", "callback", "ready"}, obj : Obj \cup {Null}]

TablesOK ==
  /\ fds \in [Fd -> Obj \cup {Null}]
  /\ obj \in [Obj -> [class : Class \cup {"none"}, fd : Fd \cup {-1}]]

LEMMA SelIsGood ==
  ASSUME TypeOK, CountIsRight
  PROVE  Good(sel)
BY DEF TypeOK, CountIsRight, Good, SelectSets, Counted

\* The constructor, close() and the move constructor keep objects and
\* descriptors one to one.
LEMMA CreateOwned ==
  ASSUME TypeOK, FdsOwned, NEW o \in Obj, NEW f \in Fd, NEW class \in Class, NEW s,
         Create(o, f, class, s), Good(s), Watched(s) \subseteq Watched(sel) \cup {f}
  PROVE  /\ fds' \in [Fd -> Obj \cup {Null}]
         /\ obj' \in [Obj -> [class : Class \cup {"none"}, fd : Fd \cup {-1}]]
         /\ FdsOwned' /\ Good(sel')
         /\ \A p \in Obj : obj[p].class # "none" => obj'[p] = obj[p]
<1>1. /\ fds \in [Fd -> Obj \cup {Null}]
      /\ obj \in [Obj -> [class : Class \cup {"none"}, fd : Fd \cup {-1}]]
  BY DEF TypeOK
<1>2. /\ \A g \in Fd : fds'[g] = IF g = f THEN o ELSE fds[g]
      /\ \A p \in Obj : obj'[p] = IF p = o THEN [class |-> class, fd |-> f] ELSE obj[p]
      /\ sel' = s /\ obj[o].class = "none" /\ fds[f] = Null
  BY <1>1 DEF Create, FreshFd, Open
<1>3. /\ fds' \in [Fd -> Obj \cup {Null}]
      /\ obj' \in [Obj -> [class : Class \cup {"none"}, fd : Fd \cup {-1}]]
  BY <1>1 DEF Create
<1>4. class # "none"
  BY DEF Class
<1>5. \A g \in Fd : fds'[g] # Null => obj'[fds'[g]].class # "none" /\ obj'[fds'[g]].fd = g
  BY <1>1, <1>2, <1>4 DEF FdsOwned
<1>6. \A p \in Obj : obj'[p].class # "none" => obj'[p].fd \in Fd /\ fds'[obj'[p].fd] = p
  BY <1>1, <1>2, IoConstants DEF FdsOwned
<1>7. Watched(sel') \subseteq Open'
  BY <1>2, IoConstants DEF FdsOwned, Open
<1>8. QED
  BY <1>2, <1>3, <1>5, <1>6, <1>7 DEF FdsOwned

LEMMA CloseOwned ==
  ASSUME TypeOK, CountIsRight, FdsOwned, NEW o \in Obj, obj[o].class # "none", Close(o)
  PROVE  /\ fds' \in [Fd -> Obj \cup {Null}]
         /\ obj' \in [Obj -> [class : Class \cup {"none"}, fd : Fd \cup {-1}]]
         /\ input' \in SUBSET Fd
         /\ FdsOwned' /\ Good(sel')
         /\ \A p \in Obj : p # o => obj'[p] = obj[p]
<1> DEFINE f == obj[o].fd
<1>1. /\ fds \in [Fd -> Obj \cup {Null}]
      /\ obj \in [Obj -> [class : Class \cup {"none"}, fd : Fd \cup {-1}]]
  BY DEF TypeOK
<1>2. f \in Fd /\ fds[f] = o
  BY DEF FdsOwned
<1> HIDE DEF f
<1>3. /\ \A g \in Fd : fds'[g] = IF g = f THEN Null ELSE fds[g]
      /\ \A p \in Obj : obj'[p] = IF p = o THEN NoObject ELSE obj[p]
      /\ sel' = Stopped(sel, f)
  BY <1>1, <1>2 DEF Close, f
<1>4. fds' \in [Fd -> Obj \cup {Null}] /\ input' \in SUBSET Fd
  BY <1>1 DEF Close, TypeOK
<1>5. obj' \in [Obj -> [class : Class \cup {"none"}, fd : Fd \cup {-1}]]
  BY <1>1 DEF Close, NoObject
<1>6. Good(sel') /\ Watched(sel') = Watched(sel) \ {f}
  BY <1>2, <1>3, SelIsGood, StoppedGood
<1>7. \A g \in Fd : fds'[g] # Null => obj'[fds'[g]].class # "none" /\ obj'[fds'[g]].fd = g
  BY <1>1, <1>2, <1>3 DEF FdsOwned
<1>8. \A p \in Obj : obj'[p].class # "none" => obj'[p].fd \in Fd /\ fds'[obj'[p].fd] = p
  BY <1>1, <1>2, <1>3 DEF FdsOwned, NoObject
<1>9. Watched(sel') \subseteq Open'
  BY <1>3, <1>6 DEF FdsOwned, Open
<1>10. QED
  BY <1>3, <1>4, <1>5, <1>6, <1>7, <1>8, <1>9 DEF FdsOwned

LEMMA MoveOwned ==
  ASSUME TypeOK, FdsOwned, NEW o \in Obj, NEW n \in Obj, NEW class \in Class, NEW s,
         obj[o].class # "none", Move(o, n, class, s), Good(s),
         Watched(s) \subseteq Watched(sel) \cup {obj[o].fd}
  PROVE  /\ fds' \in [Fd -> Obj \cup {Null}]
         /\ obj' \in [Obj -> [class : Class \cup {"none"}, fd : Fd \cup {-1}]]
         /\ FdsOwned' /\ Good(sel')
<1> DEFINE f == obj[o].fd
<1>1. /\ fds \in [Fd -> Obj \cup {Null}]
      /\ obj \in [Obj -> [class : Class \cup {"none"}, fd : Fd \cup {-1}]]
  BY DEF TypeOK
<1>2. f \in Fd /\ fds[f] = o
  BY DEF FdsOwned
<1>a. Watched(s) \subseteq Open
  BY <1>2, IoConstants DEF FdsOwned, Open
<1>3. obj[n].class = "none" /\ n # o /\ sel' = s
  BY DEF Move
<1> HIDE DEF f
<1>4. /\ \A g \in Fd : fds'[g] = IF g = f THEN n ELSE fds[g]
      /\ \A p \in Obj : obj'[p] = IF p = n THEN [class |-> class, fd |-> f]
                                  ELSE IF p = o THEN NoObject ELSE obj[p]
  BY <1>1, <1>2, <1>3 DEF Move, f
<1>5. fds' \in [Fd -> Obj \cup {Null}]
  BY <1>1 DEF Move
<1>6. obj' \in [Obj -> [class : Class \cup {"none"}, fd : Fd \cup {-1}]]
  BY <1>1, <1>2 DEF Move, NoObject, f
<1>7. class # "none"
  BY DEF Class
<1>8. \A g \in Fd : fds'[g] # Null => obj'[fds'[g]].class # "none" /\ obj'[fds'[g]].fd = g
  BY <1>1, <1>2, <1>3, <1>4, <1>7 DEF FdsOwned
<1>9. \A p \in Obj : obj'[p].class # "none" => obj'[p].fd \in Fd /\ fds'[obj'[p].fd] = p
  BY <1>1, <1>2, <1>4 DEF FdsOwned, NoObject
<1>10. Watched(sel') \subseteq Open'
  BY <1>3, <1>4, <1>a, IoConstants DEF Open
<1>11. QED
  BY <1>3, <1>5, <1>6, <1>8, <1>9, <1>10 DEF FdsOwned

\* When no object changes, watching one more open descriptor keeps FdsOwned.
LEMMA WatchOwned ==
  ASSUME FdsOwned, fds' = fds, obj' = obj, NEW f \in Open, NEW s,
         Watched(s) \subseteq Watched(sel) \cup {f}, sel' = s
  PROVE  FdsOwned'
BY DEF FdsOwned, Open

\* The parts of the next state, put together.
LEMMA Together ==
  ASSUME TablesOK', FdsOwned', Good(sel'), LoopOK',
         HandlerAlive', NoHandlerOutsideRun',
         phase' = "done" => Watched(sel') = {} /\ timers' = 0
  PROVE  IInv'
<1>1. CountIsRight' /\ sel' \in SelectSets
  BY DEF Good, Counted, CountIsRight
<1>2. TypeOK'
  BY <1>1 DEF TypeOK, TablesOK, LoopOK, SelectSets
<1>3. RunEndsIdle'
  BY DEF RunEndsIdle
<1>4. QED
  BY <1>1, <1>2, <1>3 DEF IInv

LEMMA InitIInv == Init => IInv
<1> SUFFICES ASSUME Init PROVE IInv
  OBVIOUS
<1>1. Watched(sel) = {} /\ sel.active_count = 0
  BY DEF Init, Sets, Watched
<1>2. CountIsRight
  BY <1>1, FS_EmptySet DEF CountIsRight
<1>3. TypeOK
  BY IoConstants DEF Init, TypeOK, Sets, NoObject, Idle, Fd
<1>4. FdsOwned
  BY <1>1 DEF Init, FdsOwned, NoObject
<1>5. QED
  BY <1>2, <1>3, <1>4 DEF Init, IInv, RunEndsIdle, HandlerAlive, NoHandlerOutsideRun, Idle

LEMMA StepIInv == IInv /\ [Next]_vars => IInv'
<1> SUFFICES ASSUME TypeOK, CountIsRight, FdsOwned, RunEndsIdle, HandlerAlive,
                    NoHandlerOutsideRun, [Next]_vars
             PROVE  IInv'
  BY DEF IInv
<1> USE IoConstants
<1>a. TablesOK /\ LoopOK /\ Good(sel)
  BY SelIsGood DEF TypeOK, TablesOK, LoopOK
<1>b. ASSUME fds' = fds, obj' = obj, sel' = sel, LoopOK',
             HandlerAlive', NoHandlerOutsideRun',
             phase' = "done" => phase = "done" /\ timers' = timers
      PROVE  IInv'
  <2>1. TablesOK' /\ FdsOwned' /\ Good(sel')
    BY <1>a, <1>b DEF TablesOK, FdsOwned, Open
  <2>2. phase' = "done" => Watched(sel') = {} /\ timers' = 0
    BY <1>b DEF RunEndsIdle
  <2>3. QED
    BY <1>b, <2>1, <2>2, Together
<1>c. ASSUME NEW o \in Obj, NEW f \in Fd, NEW class \in Class, NEW s,
             Create(o, f, class, s), Good(s), Watched(s) \subseteq Watched(sel) \cup {f},
             UNCHANGED <<input, timers, phase, loop, call>>, phase # "done"
      PROVE  IInv'
  <2>1. TablesOK' /\ FdsOwned' /\ Good(sel')
        /\ \A p \in Obj : obj[p].class # "none" => obj'[p] = obj[p]
    BY <1>c, CreateOwned DEF TablesOK
  <2>2. LoopOK' /\ HandlerAlive' /\ NoHandlerOutsideRun'
    BY <1>a, <1>c, <2>1 DEF LoopOK, loop, HandlerAlive, NoHandlerOutsideRun
  <2>3. QED
    BY <1>c, <2>1, <2>2, Together
<1>d. ASSUME NEW f \in Fd, fds[f] # Null, NEW s, Good(s), sel' = s,
             Watched(s) \subseteq Watched(sel) \cup {f},
             fds' = fds, obj' = obj, LoopOK',
             HandlerAlive', NoHandlerOutsideRun', phase' # "done"
      PROVE  IInv'
  <2>1. TablesOK' /\ FdsOwned'
    BY <1>a, <1>d DEF TablesOK, FdsOwned, Open
  <2>2. QED
    BY <1>d, <2>1, Together
<1>e. \A f \in Fd : /\ Good(Started(sel, f)) /\ Watched(Started(sel, f)) \subseteq Watched(sel) \cup {f}
                    /\ Good(StartedConnect(sel, f))
                    /\ Watched(StartedConnect(sel, f)) \subseteq Watched(sel) \cup {f}
  BY <1>a, StartedGood, StartedConnectGood
<1>f. ASSUME NEW class, ReadyOf(class)
      PROVE  /\ call.obj \in Obj /\ obj[call.obj].class = class
             /\ phase \notin {"args", "done"}
  BY <1>f DEF ReadyOf, HandlerAlive, NoHandlerOutsideRun, Idle
<1>g. /\ "listen" \in Class /\ "client" \in Class /\ "peer" \in Class
      /\ "connect" \in Class /\ "socks" \in Class
  BY DEF Class
<1>1. ASSUME ArgsEnd PROVE IInv'
  BY <1>1, <1>a, <1>b DEF ArgsEnd, LoopOK, loop, HandlerAlive, NoHandlerOutsideRun
<1>2. ASSUME NEW o \in Obj, ArgListen(o) PROVE IInv'
  BY <1>2, <1>c, <1>e, <1>g DEF ArgListen
<1>3. ASSUME NEW o \in Obj, ArgConnect(o) PROVE IInv'
  BY <1>3, <1>c, <1>e, <1>g DEF ArgConnect
<1>k. \A f \in Fd : \A s \in ConnectedAtOnce(sel, f) :
        Good(s) /\ Watched(s) \subseteq Watched(sel) \cup {f}
  BY <1>a, ConnectedAtOnceGood
<1>l. ASSUME NEW o \in Obj, ArgConnectAtOnce(o) PROVE IInv'
  <2>1. PICK f \in Fd, class \in {"peer", "socks"} :
          \E s \in ConnectedAtOnce(sel, f) : Create(o, f, class, s)
    BY <1>l DEF ArgConnectAtOnce
  <2>2. PICK s \in ConnectedAtOnce(sel, f) : Create(o, f, class, s)
    BY <2>1
  <2>3. QED
    BY <1>l, <1>c, <1>g, <1>k, <2>2 DEF ArgConnectAtOnce
<1>4. ASSUME NEW f \in Fd, Arrive(f) PROVE IInv'
  BY <1>4, <1>a, <1>b DEF Arrive, LoopOK, loop, HandlerAlive, NoHandlerOutsideRun
<1>5. ASSUME RunEnds PROVE IInv'
  <2>1. sel.active_count \in Int /\ timers \in Nat /\ ~Work
    BY <1>5 DEF TypeOK, RunEnds
  <2>2. IsFiniteSet(Watched(sel)) /\ Cardinality(Watched(sel)) \in Nat
    <3>1. IsFiniteSet(Fd)
      BY FS_Interval DEF Fd
    <3>2. Watched(sel) \in SUBSET Fd
      BY DEF TypeOK, Watched
    <3>3. QED
      BY <3>1, <3>2, FS_Subset, FS_CardinalityType
  <2>3. Cardinality(Watched(sel)) = 0 /\ timers = 0
    BY <2>1, <2>2 DEF Work, CountIsRight
  <2>4. Watched(sel) = {}
    BY <2>2, <2>3, FS_EmptySet
  <2>5. TablesOK' /\ LoopOK' /\ FdsOwned' /\ HandlerAlive' /\ NoHandlerOutsideRun' /\ Good(sel')
    BY <1>5, <1>a
       DEF RunEnds, TablesOK, LoopOK, loop, FdsOwned, Open, HandlerAlive, NoHandlerOutsideRun
  <2>6. sel' = sel /\ timers' = timers
    BY <1>5 DEF RunEnds
  <2>7. QED
    BY <2>3, <2>4, <2>5, <2>6, Together
<1>6. ASSUME FireTimer PROVE IInv'
  <2>1. timers' \in 0 .. MaxTimers
    BY <1>6 DEF FireTimer, TypeOK
  <2>2. LoopOK' /\ HandlerAlive' /\ NoHandlerOutsideRun' /\ phase' # "done"
    BY <1>6, <1>a, <2>1 DEF FireTimer, LoopOK, loop, HandlerAlive, NoHandlerOutsideRun
  <2>3. QED
    BY <1>6, <1>b, <2>2 DEF FireTimer
<1>7. ASSUME Select PROVE IInv'
  <2>1. rd' \in SUBSET Fd /\ wr' \in SUBSET Fd
    BY <1>7 DEF Select, TypeOK
  <2>2. LoopOK' /\ HandlerAlive' /\ NoHandlerOutsideRun' /\ phase' # "done"
    BY <1>7, <1>a, <2>1 DEF Select, LoopOK, HandlerAlive, NoHandlerOutsideRun
  <2>3. QED
    BY <1>7, <1>b, <2>2 DEF Select
<1>h. ASSUME NEW p, Scanning(p) PROVE phase = "scan" /\ at \in Fd /\ at + 1 \in 0 .. MaxFd + 1
  BY <1>h DEF Scanning, Fd
<1>8. ASSUME ScanNoWrite PROVE IInv'
  BY <1>8, <1>a, <1>b, <1>h DEF ScanNoWrite, LoopOK, HandlerAlive, NoHandlerOutsideRun
<1>9. ASSUME ScanNoReady PROVE IInv'
  BY <1>9, <1>a, <1>b, <1>h DEF ScanNoReady, LoopOK, HandlerAlive, NoHandlerOutsideRun
<1>10. ASSUME ScanEnds PROVE IInv'
  BY <1>10, <1>a, <1>b DEF ScanEnds, LoopOK, HandlerAlive, NoHandlerOutsideRun
<1>11. ASSUME Return PROVE IInv'
  BY <1>11, <1>a, <1>b DEF Return, LoopOK, loop, HandlerAlive, NoHandlerOutsideRun, Idle
<1>12. ASSUME ScanReady PROVE IInv'
  <2>1. at \in Fd /\ at + 1 \in 0 .. MaxFd + 1 /\ phase = "scan"
    BY <1>12, <1>h DEF ScanReady
  <2>2. fds[at] \in Obj /\ obj[fds[at]].class # "none"
    BY <1>12, <2>1 DEF ScanReady, TypeOK, FdsOwned
  <2>3. LoopOK'
    BY <1>12, <1>a, <2>1, <2>2 DEF ScanReady, LoopOK
  <2>4. HandlerAlive' /\ NoHandlerOutsideRun' /\ phase' # "done"
    BY <1>12, <2>1, <2>2 DEF ScanReady, HandlerAlive, NoHandlerOutsideRun
  <2>5. QED
    BY <1>12, <1>b, <2>3, <2>4 DEF ScanReady
<1>13. ASSUME ScanWrite PROVE IInv'
  <2>1. at \in Fd /\ phase = "scan" /\ fds[at] # Null
    BY <1>13, <1>h DEF ScanWrite
  <2>2. PICK more \in BOOLEAN : sel' = WaitForOutput(sel, at, more)
    BY <1>13 DEF ScanWrite
  <2>3. LoopOK' /\ HandlerAlive' /\ NoHandlerOutsideRun' /\ phase' # "done"
    BY <1>13, <1>a, <2>1 DEF ScanWrite, LoopOK, HandlerAlive, NoHandlerOutsideRun
  <2>4. fds' = fds /\ obj' = obj
    BY <1>13 DEF ScanWrite
  <2>5. /\ Good(WaitForOutput(sel, at, more))
        /\ Watched(WaitForOutput(sel, at, more)) \subseteq Watched(sel) \cup {at}
    BY <1>a, <2>1, WaitGood
  <2>6. QED
    BY <1>d, <2>1, <2>2, <2>3, <2>4, <2>5
<1>14. ASSUME NEW n \in Obj, ConnectSucceeds(n) PROVE IInv'
  <2> DEFINE s == Ignore(WaitForOutput(sel, at, FALSE), at, FALSE)
             o == fds[at]
  <2>1. at \in Fd /\ phase = "scan" /\ o # Null
    BY <1>14, <1>h DEF ConnectSucceeds
  <2>2. o \in Obj /\ obj[o].class # "none" /\ obj[o].fd = at
    BY <2>1 DEF TypeOK, FdsOwned
  <2>3. PICK class \in Class : Move(o, n, class, s)
    BY <1>14, <1>g DEF ConnectSucceeds
  <2>4. Good(s) /\ Watched(s) \subseteq Watched(sel) \cup {at}
    BY <1>a, <2>1, AnsweredGood
  <2> HIDE DEF s, o
  <2>5. TablesOK' /\ FdsOwned' /\ Good(sel')
    BY <2>2, <2>3, <2>4, MoveOwned DEF TablesOK
  <2>6. LoopOK' /\ HandlerAlive' /\ NoHandlerOutsideRun' /\ phase' # "done"
    BY <1>14, <1>a, <2>1 DEF ConnectSucceeds, LoopOK, HandlerAlive, NoHandlerOutsideRun
  <2>7. QED
    BY <2>5, <2>6, Together
<1>15. ASSUME ConnectFails PROVE IInv'
  <2>1. at \in Fd /\ phase = "scan" /\ fds[at] # Null
    BY <1>15, <1>h DEF ConnectFails
  <2>2. fds[at] \in Obj /\ obj[fds[at]].class # "none" /\ Close(fds[at])
    BY <1>15, <2>1 DEF TypeOK, FdsOwned, ConnectFails
  <2>3. TablesOK' /\ FdsOwned' /\ Good(sel') /\ input' \in SUBSET Fd
    BY <2>2, CloseOwned DEF TablesOK
  <2>4. LoopOK' /\ HandlerAlive' /\ NoHandlerOutsideRun' /\ phase' # "done"
    BY <1>15, <1>a, <2>1, <2>3 DEF ConnectFails, LoopOK, HandlerAlive, NoHandlerOutsideRun
  <2>5. QED
    BY <2>3, <2>4, Together
<1>16. ASSUME NEW o \in Obj, Accept(o) PROVE IInv'
  <2>1. PICK f \in Fd, class \in {"client", "peer"}, more \in BOOLEAN :
          Create(o, f, class, WaitForOutput(Started(sel, f), f, more))
    BY <1>16 DEF Accept
  <2> DEFINE a == Started(sel, f)
             s == WaitForOutput(a, f, more)
  <2>2. Good(a) /\ Watched(a) \subseteq Watched(sel) \cup {f}
    BY <1>e
  <2> HIDE DEF a
  <2>3. Good(s) /\ Watched(s) \subseteq Watched(a) \cup {f}
    BY <2>2, WaitGood
  <2>4. Create(o, f, class, s)
    BY <2>1 DEF a
  <2> HIDE DEF s
  <2>5. UNCHANGED <<input, timers, phase, loop, call>> /\ phase # "done"
    BY <1>16, <1>f DEF Accept
  <2>6. QED
    BY <1>c, <1>g, <2>2, <2>3, <2>4, <2>5
<1>17. ASSUME NEW o \in Obj, ConnectTo(o) PROVE IInv'
  BY <1>17, <1>c, <1>e, <1>f, <1>g DEF ConnectTo
<1>18. ASSUME NEW o \in Obj, ConnectToAtOnce(o) PROVE IInv'
  <2>1. PICK f \in Fd : \E s \in ConnectedAtOnce(sel, f) : Create(o, f, "client", s)
    BY <1>18 DEF ConnectToAtOnce
  <2>2. PICK s \in ConnectedAtOnce(sel, f) : Create(o, f, "client", s)
    BY <2>1
  <2>3. QED
    BY <1>18, <1>c, <1>f, <1>g, <1>k, <2>2 DEF ConnectToAtOnce
<1>19. ASSUME CloseSelf PROVE IInv'
  <2>a. PICK class \in Class : ReadyOf(class)
    BY <1>19 DEF CloseSelf
  <2>1. call.obj \in Obj /\ obj[call.obj].class # "none" /\ phase \notin {"args", "done"}
    BY <2>a, <1>f DEF Class
  <2>2. Close(call.obj) /\ call' = Idle /\ UNCHANGED <<timers, phase, loop>>
    BY <1>19 DEF CloseSelf
  <2>3. TablesOK' /\ FdsOwned' /\ Good(sel') /\ input' \in SUBSET Fd
    BY <2>1, <2>2, CloseOwned DEF TablesOK
  <2>4. LoopOK' /\ HandlerAlive' /\ NoHandlerOutsideRun' /\ phase' # "done"
    BY <1>a, <2>1, <2>2, <2>3 DEF LoopOK, loop, HandlerAlive, NoHandlerOutsideRun, Idle
  <2>5. QED
    BY <2>3, <2>4, Together
<1>20. ASSUME NEW o \in Obj, CloseOther(o) PROVE IInv'
  <2>1. call.obj \in Obj /\ obj[call.obj].class = "peer" /\ phase \notin {"args", "done"}
    BY <1>20, <1>f DEF CloseOther
  <2>2. /\ o # call.obj /\ obj[o].class = "client" /\ Close(o)
        /\ UNCHANGED <<timers, phase, loop, call>>
    BY <1>20, <2>1 DEF CloseOther
  <2>3. /\ TablesOK' /\ FdsOwned' /\ Good(sel') /\ input' \in SUBSET Fd
        /\ obj'[call.obj] = obj[call.obj]
    BY <2>1, <2>2, CloseOwned DEF TablesOK
  <2>4. LoopOK' /\ HandlerAlive' /\ NoHandlerOutsideRun' /\ phase' # "done"
    BY <1>a, <2>1, <2>2, <2>3 DEF LoopOK, loop, HandlerAlive, NoHandlerOutsideRun
  <2>5. QED
    BY <2>3, <2>4, Together
<1>i. ASSUME NEW o \in Obj, obj[o].class # "none"
      PROVE  obj[o].fd \in Fd /\ fds[obj[o].fd] # Null
  BY <1>i DEF FdsOwned
<1>j. call # Idle => phase \notin {"args", "done"}
  BY DEF NoHandlerOutsideRun
<1>21. ASSUME NEW o \in Obj, WriteTo(o) PROVE IInv'
  <2> DEFINE f == obj[o].fd
  <2>1. call # Idle /\ obj[o].class # "none"
    BY <1>21, <1>f DEF WriteTo, ReadyOf, Idle
  <2>2. PICK more \in BOOLEAN : sel' = WaitForOutput(sel, f, more)
    BY <1>21 DEF WriteTo
  <2>3. /\ fds' = fds /\ obj' = obj /\ phase' # "done"
        /\ LoopOK' /\ HandlerAlive' /\ NoHandlerOutsideRun'
    BY <1>21, <1>a, <1>j, <2>1 DEF WriteTo, LoopOK, loop, HandlerAlive, NoHandlerOutsideRun
  <2>4. f \in Fd /\ fds[f] # Null
    BY <1>i, <2>1
  <2> HIDE DEF f
  <2>5. /\ Good(WaitForOutput(sel, f, more))
        /\ Watched(WaitForOutput(sel, f, more)) \subseteq Watched(sel) \cup {f}
    BY <1>a, <2>4, WaitGood
  <2>6. QED
    BY <1>d, <2>2, <2>3, <2>4, <2>5
<1>22. ASSUME NEW o \in Obj, NEW on \in BOOLEAN, IgnoreClient(o, on) PROVE IInv'
  <2> DEFINE f == obj[o].fd
  <2>1. call # Idle /\ obj[o].class # "none"
    BY <1>22, <1>f DEF IgnoreClient, ReadyOf, Idle
  <2>2. sel' = Ignore(sel, f, on)
    BY <1>22 DEF IgnoreClient
  <2>3. /\ fds' = fds /\ obj' = obj /\ phase' # "done"
        /\ LoopOK' /\ HandlerAlive' /\ NoHandlerOutsideRun'
    BY <1>22, <1>a, <1>j, <2>1 DEF IgnoreClient, LoopOK, loop, HandlerAlive, NoHandlerOutsideRun
  <2>4. f \in Fd /\ fds[f] # Null
    BY <1>i, <2>1
  <2> HIDE DEF f
  <2>5. Good(Ignore(sel, f, on)) /\ Watched(Ignore(sel, f, on)) \subseteq Watched(sel) \cup {f}
    BY <1>a, <2>4, IgnoreGood
  <2>6. QED
    BY <1>d, <2>2, <2>3, <2>4, <2>5
<1>23. ASSUME NEW n \in Obj, HandOver(n) PROVE IInv'
  <2>1. call.obj \in Obj /\ obj[call.obj].class # "none" /\ phase \notin {"args", "done"}
    BY <1>23, <1>f DEF HandOver
  <2>2. Move(call.obj, n, "peer", sel)
    BY <1>23 DEF HandOver
  <2>3. TablesOK' /\ FdsOwned' /\ Good(sel')
    BY <1>a, <1>g, <2>1, <2>2, MoveOwned DEF TablesOK
  <2>4. LoopOK' /\ HandlerAlive' /\ NoHandlerOutsideRun' /\ phase' # "done"
    BY <1>23, <1>a, <2>1 DEF HandOver, LoopOK, loop, HandlerAlive, NoHandlerOutsideRun
  <2>5. QED
    BY <2>3, <2>4, Together
<1>24. ASSUME AddTimer PROVE IInv'
  <2>1. phase \notin {"args", "done"} /\ timers' \in 0 .. MaxTimers
    BY <1>24, <1>f DEF AddTimer, TypeOK
  <2>2. LoopOK' /\ HandlerAlive' /\ NoHandlerOutsideRun' /\ phase' # "done"
    BY <1>24, <1>a, <2>1 DEF AddTimer, LoopOK, loop, HandlerAlive, NoHandlerOutsideRun
  <2>3. QED
    BY <1>24, <1>b, <2>2 DEF AddTimer
<1>25. CASE UNCHANGED vars
  BY <1>25, <1>a, <1>b DEF vars, LoopOK, HandlerAlive, NoHandlerOutsideRun
<1>26. QED
  BY <1>1, <1>2, <1>3, <1>l, <1>4, <1>5, <1>6, <1>7, <1>8, <1>9, <1>10, <1>11, <1>12, <1>13,
     <1>14, <1>15, <1>16, <1>17, <1>18, <1>19, <1>20, <1>21, <1>22, <1>23, <1>24, <1>25
     DEF Next, Run, Handler

LEMMA Inductive == Spec => []IInv
BY InitIInv, StepIInv, PTL DEF Spec

\* Every variable of the event loop stays in its domain.
THEOREM TypeCorrect == Spec => []TypeOK
BY Inductive, PTL DEF IInv

\* iomanage::active_count counts the descriptors in active or output_wait, for
\* every number of descriptors and every sequence of handler operations.
THEOREM CountIsAlwaysRight == Spec => []CountIsRight
BY Inductive, PTL DEF IInv

\* iomanage::fds and the objects are one to one: no constructor finds its slot
\* taken, no entry points at a deleted object, and select() is given descriptors
\* of live objects only.
THEOREM FdsAreOwned == Spec => []FdsOwned
BY Inductive, PTL DEF IInv

\* run() does not return while a descriptor is watched or a timer waits.
THEOREM RunEndsOnlyIdle == Spec => []RunEndsIdle
BY Inductive, PTL DEF IInv

\* The object whose ready() runs exists until the handler closes it itself.
THEOREM HandlerIsAlive == Spec => []HandlerAlive
BY Inductive, PTL DEF IInv
=============================================================================
