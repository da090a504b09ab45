---------------------------- MODULE PeersProofs -----------------------------
(***************************************************************************)
(* For any number of clients, peers and channels: what it means that a     *)
(* request is refused, and whom a list lets in.                            *)
(***************************************************************************)
EXTENDS Peers, FiniteSetTheorems, SequenceTheorems, TLAPS

\* num_clients may drift from the table, but never below it
Counted == \A p \in Tunnel : num[p] >= Cardinality(occupied[p])

Inv == TypeOK /\ Counted

-----------------------------------------------------------------------------
(***************************************************************************)
(* Tables: a slot that is taken or freed.                                  *)
(***************************************************************************)
LEMMA TableFinite ==
  ASSUME NEW S \in SUBSET Slot
  PROVE  IsFiniteSet(S) /\ Cardinality(S) \in Nat
<1>1. IsFiniteSet(Slot)
  BY PeersConstants, FS_Interval DEF Slot
<1>2. IsFiniteSet(S)
  BY <1>1, FS_Subset
<1>3. QED
  BY <1>2, FS_CardinalityType

LEMMA SlotTaken ==
  ASSUME NEW S \in SUBSET Slot, NEW c \in Slot
  PROVE  /\ S \cup {c} \in SUBSET Slot
         /\ c \notin S => Cardinality(S \cup {c}) = Cardinality(S) + 1
         /\ c \in S => Cardinality(S \cup {c}) = Cardinality(S)
BY TableFinite, FS_AddElement

LEMMA SlotFreed ==
  ASSUME NEW S \in SUBSET Slot, NEW c \in S
  PROVE  /\ S \ {c} \in SUBSET Slot
         /\ Cardinality(S \ {c}) = Cardinality(S) - 1
BY TableFinite, FS_RemoveElement

LEMMA ChannelIsSlot == Channel \subseteq Slot
BY PeersConstants DEF Channel, Slot

\* A change of one peer's table and count keeps the invariant when it counts all
\* that are in the table.
LEMMA PeerChanges ==
  ASSUME Inv, NEW p \in all_peers,
         NEW S \in SUBSET Slot, NEW n \in Nat,
         n >= Cardinality(S),
         occupied' = [occupied EXCEPT ![p] = S],
         num' = [num EXCEPT ![p] = n],
         place' \in [Client \cup Tunnel -> Places],
         \A q \in Tunnel : place'[q] = place[q],
         UNCHANGED <<option, listener, all_peers>>
  PROVE  Inv'
<1>1. occupied \in [Tunnel -> SUBSET Slot] /\ num \in [Tunnel -> Nat] /\ p \in Tunnel
  BY DEF Inv, TypeOK
<1>2. all_peers' = {q \in Tunnel : place'[q] = "peer"}
  BY DEF Inv, TypeOK
<1>3. occupied' \in [Tunnel -> SUBSET Slot] /\ num' \in [Tunnel -> Nat]
  BY <1>1
<1>4. ASSUME NEW q \in Tunnel \ all_peers'
      PROVE  occupied'[q] = {} /\ num'[q] = 0
  BY <1>1, <1>4 DEF Inv, TypeOK
<1>5. TypeOK'
  BY <1>2, <1>3, <1>4 DEF Inv, TypeOK
<1>6. Counted'
  <2>1. SUFFICES ASSUME NEW q \in Tunnel
                 PROVE  num'[q] >= Cardinality(occupied'[q])
    BY DEF Counted
  <2>2. CASE q = p
    BY <1>1, <2>2
  <2>3. CASE q # p
    BY <1>1, <2>3 DEF Inv, Counted
  <2>4. QED
    BY <2>2, <2>3
<1>7. QED
  BY <1>5, <1>6 DEF Inv

\* A step that leaves the tables alone keeps the invariant when it keeps
\* all_peers what it is.
LEMMA TablesKept ==
  ASSUME Inv, UNCHANGED <<option, occupied, num>>,
         listener' \in [Listener -> {"open", "closed"}],
         place' \in [Client \cup Tunnel -> Places],
         all_peers' = {q \in Tunnel : place'[q] = "peer"},
         all_peers \subseteq all_peers'
  PROVE  Inv'
<1>1. TypeOK'
  BY DEF Inv, TypeOK
<1>2. Counted'
  BY DEF Inv, Counted
<1>3. QED
  BY <1>1, <1>2 DEF Inv

\* ... and so does one that only moves a client on from where it was let in.
LEMMA ClientMoves ==
  ASSUME Inv, NEW x \in Client, NEW q \in Places \ {"peer"},
         place' = [place EXCEPT ![x] = q],
         UNCHANGED <<option, listener, all_peers, occupied, num>>
  PROVE  Inv'
<1>1. x \notin Tunnel
  BY PeersConstants
<1>2. place' \in [Client \cup Tunnel -> Places] /\ \A p \in Tunnel : place'[p] = place[p]
  BY <1>1 DEF Inv, TypeOK
<1>3. all_peers' = {p \in Tunnel : place'[p] = "peer"}
  BY <1>2 DEF Inv, TypeOK
<1>4. listener' \in [Listener -> {"open", "closed"}]
  BY DEF Inv, TypeOK
<1>5. QED
  BY <1>2, <1>3, <1>4, TablesKept

-----------------------------------------------------------------------------
LEMMA InitInv == Init => Inv
<1>1. SUFFICES ASSUME Init PROVE Inv
  OBVIOUS
<1>2. Cardinality({}) = 0
  BY FS_EmptySet
<1>3. TypeOK
  BY <1>1 DEF Init, TypeOK, Places, LetIn
<1>4. Counted
  BY <1>1, <1>2 DEF Init, Counted
<1>5. QED
  BY <1>3, <1>4 DEF Inv

LEMMA ArriveInv == ASSUME Inv, NEW x \in Client \cup Tunnel, Arrive(x) PROVE Inv'
<1>1. place' \in [Client \cup Tunnel -> Places]
  BY DEF Inv, TypeOK, Arrive, Places, LetIn
<1>2. all_peers' = {q \in Tunnel : place'[q] = "peer"} /\ all_peers \subseteq all_peers'
  BY DEF Inv, TypeOK, Arrive
<1>3. listener' \in [Listener -> {"open", "closed"}]
  BY DEF Inv, TypeOK, Arrive
<1>4. UNCHANGED <<option, occupied, num>>
  BY DEF Arrive, Table
<1>5. QED
  BY <1>1, <1>2, <1>3, <1>4, TablesKept

LEMMA AcceptedPlace ==
  ASSUME NEW x \in Client \cup Tunnel
  PROVE  /\ Accepted(x) \in {"rejected", "quiet", "peer"}
         /\ Accepted(x) = "peer" => x \in Tunnel
BY PeersConstants DEF Accepted

LEMMA ListenReadyInv == ASSUME Inv, NEW l \in Listener, ListenReady(l) PROVE Inv'
<1>1. PICK some \in SUBSET Waiting(l), closes \in BOOLEAN :
        /\ listener' = [listener EXCEPT ![l] = IF closes THEN "closed" ELSE "open"]
        /\ place' = [x \in DOMAIN place |->
                       CASE x \in some -> Accepted(x)
                         [] x \in Waiting(l) \ some -> "reset"
                         [] OTHER -> place[x]]
        /\ all_peers' = all_peers \cup {x \in some \cap Tunnel : Accepted(x) = "peer"}
  BY DEF ListenReady
<1>2. /\ some \subseteq Client \cup Tunnel /\ Waiting(l) \subseteq Client \cup Tunnel
      /\ \A x \in Waiting(l) : place[x] = "waiting"
  BY DEF Waiting
<1>3. place \in [Client \cup Tunnel -> Places] /\ all_peers = {q \in Tunnel : place[q] = "peer"}
  BY DEF Inv, TypeOK
<1>4. place' = [x \in Client \cup Tunnel |->
                  IF x \in some THEN Accepted(x)
                  ELSE IF x \in Waiting(l) THEN "reset" ELSE place[x]]
  BY <1>1, <1>3
<1>5. place' \in [Client \cup Tunnel -> Places]
  BY <1>2, <1>3, <1>4, AcceptedPlace DEF Places, LetIn
<1>6. ASSUME NEW q \in Tunnel PROVE q \in all_peers' <=> place'[q] = "peer"
  <2>1. CASE q \in some
    BY <1>1, <1>2, <1>3, <1>4, <2>1
  <2>2. CASE q \in Waiting(l) \ some
    BY <1>1, <1>2, <1>3, <1>4, <2>2
  <2>3. CASE q \notin Waiting(l)
    BY <1>1, <1>2, <1>3, <1>4, <2>3
  <2>4. QED
    BY <2>1, <2>2, <2>3
<1>7. all_peers' \subseteq Tunnel
  BY <1>1, <1>3
<1>8. all_peers' = {q \in Tunnel : place'[q] = "peer"}
  BY <1>6, <1>7
<1>9. listener' \in [Listener -> {"open", "closed"}] /\ all_peers \subseteq all_peers'
  BY <1>1 DEF Inv, TypeOK
<1>10. UNCHANGED <<option, occupied, num>>
  BY DEF ListenReady, Table
<1>11. QED
  BY <1>5, <1>8, <1>9, <1>10, TablesKept

LEMMA DialInv == ASSUME Inv, NEW p \in Tunnel, Dial(p) PROVE Inv'
<1>1. place' \in [Client \cup Tunnel -> Places]
  BY DEF Inv, TypeOK, Dial, Places, LetIn
<1>2. all_peers' = {q \in Tunnel : place'[q] = "peer"} /\ all_peers \subseteq all_peers'
  BY DEF Inv, TypeOK, Dial
<1>3. listener' \in [Listener -> {"open", "closed"}]
  BY DEF Inv, TypeOK, Dial
<1>4. UNCHANGED <<option, occupied, num>>
  BY DEF Dial, Table
<1>5. QED
  BY <1>1, <1>2, <1>3, <1>4, TablesKept

LEMMA PeerLostInv == ASSUME Inv, NEW p \in Tunnel, PeerLost(p) PROVE Inv'
<1>1. /\ occupied \in [Tunnel -> SUBSET Slot] /\ num \in [Tunnel -> Nat]
      /\ place \in [Client \cup Tunnel -> Places]
      /\ all_peers = {q \in Tunnel : place[q] = "peer"}
  BY DEF Inv, TypeOK
<1>2. /\ occupied' = [occupied EXCEPT ![p] = {}] /\ num' = [num EXCEPT ![p] = 0]
      /\ place' = [place EXCEPT ![p] = "gone"]
      /\ all_peers' = all_peers \ {p} /\ UNCHANGED <<option, listener>>
  BY DEF PeerLost
<1>3. place' \in [Client \cup Tunnel -> Places] /\ all_peers' = {q \in Tunnel : place'[q] = "peer"}
  BY <1>1, <1>2 DEF Places, LetIn
<1>4. occupied' \in [Tunnel -> SUBSET Slot] /\ num' \in [Tunnel -> Nat]
  BY <1>1, <1>2
<1>5. ASSUME NEW q \in Tunnel \ all_peers'
      PROVE  occupied'[q] = {} /\ num'[q] = 0
  BY <1>1, <1>2, <1>5 DEF Inv, TypeOK
<1>6. TypeOK'
  BY <1>2, <1>3, <1>4, <1>5 DEF Inv, TypeOK
<1>7. Counted'
  BY <1>1, <1>2, FS_EmptySet DEF Inv, Counted
<1>8. QED
  BY <1>6, <1>7 DEF Inv

LEMMA RequestInv == ASSUME Inv, NEW x \in Client, Request(x) PROVE Inv'
<1>1. PICK p \in all_peers : \E c \in FreeChannels(p) : Takes(p, c)
  BY DEF Request
<1>2. PICK c \in FreeChannels(p) : Takes(p, c)
  BY <1>1
<1>3. p \in Tunnel /\ occupied[p] \in SUBSET Slot /\ num[p] \in Nat
  BY DEF Inv, TypeOK
<1>4. c \in Slot /\ c \notin occupied[p]
  BY <1>2, ChannelIsSlot DEF FreeChannels
<1>5. /\ occupied[p] \cup {c} \in SUBSET Slot
      /\ Cardinality(occupied[p] \cup {c}) = Cardinality(occupied[p]) + 1
  BY <1>3, <1>4, SlotTaken
<1>6. num[p] + 1 >= Cardinality(occupied[p] \cup {c})
  BY <1>3, <1>5, TableFinite DEF Inv, Counted
<1>7. /\ occupied' = [occupied EXCEPT ![p] = occupied[p] \cup {c}]
      /\ num' = [num EXCEPT ![p] = num[p] + 1]
  BY <1>2, <1>3 DEF Takes, Request, Inv, TypeOK
<1>8. place' \in [Client \cup Tunnel -> Places] /\ \A q \in Tunnel : place'[q] = place[q]
  BY PeersConstants DEF Request, Inv, TypeOK, Places, LetIn
<1>9. UNCHANGED <<option, listener, all_peers>>
  BY DEF Request
<1>10. num[p] + 1 \in Nat
  BY <1>3
<1>11. QED
  BY <1>3, <1>5, <1>6, <1>7, <1>8, <1>9, <1>10, PeerChanges

LEMMA RequestRefusedInv == ASSUME Inv, NEW x \in Client, RequestRefused(x) PROVE Inv'
BY ClientMoves DEF RequestRefused, Table, Places, LetIn

LEMMA RequestArrivesInv == ASSUME Inv, NEW x \in Client, RequestArrives(x) PROVE Inv'
<1>1. PICK q \in {"asking", "misaddressed"} : place' = [place EXCEPT ![x] = q]
  BY DEF RequestArrives
<1>2. q \in Places \ {"peer"}
  BY DEF Places, LetIn
<1>3. UNCHANGED <<option, listener, all_peers, occupied, num>>
  BY DEF RequestArrives, Table
<1>4. QED
  BY <1>1, <1>2, <1>3, ClientMoves

LEMMA LeavesInv == ASSUME Inv, NEW x \in Client, Leaves(x) PROVE Inv'
BY ClientMoves DEF Leaves, Table, Places, LetIn

LEMMA ConnectedInv == ASSUME Inv, NEW p \in Tunnel, Connected(p) PROVE Inv'
<1>1. PICK c \in Channel : Takes(p, c)
  BY DEF Connected
<1>2. p \in all_peers /\ occupied[p] \in SUBSET Slot /\ num[p] \in Nat
  BY DEF Inv, TypeOK, Connected
<1>3. c \in Slot /\ occupied[p] \cup {c} \in SUBSET Slot
  BY <1>2, ChannelIsSlot
<1>4. /\ occupied' = [occupied EXCEPT ![p] = occupied[p] \cup {c}]
      /\ num' = [num EXCEPT ![p] = num[p] + 1]
  BY <1>1 DEF Takes
<1>5. /\ place' \in [Client \cup Tunnel -> Places]
      /\ \A q \in Tunnel : place'[q] = place[q]
      /\ UNCHANGED <<option, listener, all_peers>>
  BY DEF Connected, Inv, TypeOK
<1>6. num[p] >= Cardinality(occupied[p]) /\ Cardinality(occupied[p]) \in Nat
  BY <1>2, TableFinite DEF Inv, Counted
<1>7. num[p] + 1 \in Nat
  BY <1>2
<1>8. num[p] + 1 >= Cardinality(occupied[p] \cup {c})
  BY <1>2, <1>3, <1>6, SlotTaken
<1>9. QED
  BY <1>2, <1>3, <1>4, <1>5, <1>7, <1>8, PeerChanges

LEMMA EndsInv == ASSUME Inv, NEW p \in Tunnel, Ends(p) PROVE Inv'
<1>1. PICK c \in occupied[p] : occupied' = [occupied EXCEPT ![p] = @ \ {c}]
  BY DEF Ends
<1>2. p \in all_peers /\ occupied[p] \in SUBSET Slot /\ num[p] \in Nat
  BY DEF Inv, TypeOK, Ends
<1>3. /\ occupied[p] \ {c} \in SUBSET Slot
      /\ Cardinality(occupied[p] \ {c}) = Cardinality(occupied[p]) - 1
      /\ Cardinality(occupied[p] \ {c}) \in Nat
  BY <1>2, SlotFreed, TableFinite
<1>4. num[p] >= Cardinality(occupied[p]) /\ Cardinality(occupied[p]) \in Nat
  BY <1>2, TableFinite DEF Inv, Counted
<1>5. num[p] - 1 >= Cardinality(occupied[p] \ {c}) /\ num[p] - 1 \in Nat
  BY <1>2, <1>3, <1>4
<1>6. /\ occupied' = [occupied EXCEPT ![p] = occupied[p] \ {c}]
      /\ num' = [num EXCEPT ![p] = num[p] - 1]
  BY <1>1 DEF Ends, Inv, TypeOK
<1>7. /\ place' \in [Client \cup Tunnel -> Places]
      /\ \A q \in Tunnel : place'[q] = place[q]
      /\ UNCHANGED <<option, listener, all_peers>>
  BY DEF Ends, Inv, TypeOK
<1>8. QED
  BY <1>2, <1>3, <1>5, <1>6, <1>7, PeerChanges

LEMMA HangsUpInv == ASSUME Inv, NEW p \in Tunnel, HangsUp(p) PROVE Inv'
<1>1. PICK c \in occupied[p] : occupied' = [occupied EXCEPT ![p] = @ \ {c}]
  BY DEF HangsUp
<1>2. p \in all_peers /\ occupied[p] \in SUBSET Slot /\ num[p] \in Nat
  BY DEF Inv, TypeOK, HangsUp
<1>3. /\ occupied[p] \ {c} \in SUBSET Slot
      /\ Cardinality(occupied[p] \ {c}) = Cardinality(occupied[p]) - 1
  BY <1>2, SlotFreed
<1>4. num[p] >= Cardinality(occupied[p]) /\ Cardinality(occupied[p]) \in Nat
  BY <1>2, TableFinite DEF Inv, Counted
<1>5. num[p] >= Cardinality(occupied[p] \ {c})
  BY <1>2, <1>3, <1>4
<1>6. /\ occupied' = [occupied EXCEPT ![p] = occupied[p] \ {c}]
      /\ num' = [num EXCEPT ![p] = num[p]]
  BY <1>1 DEF HangsUp, Inv, TypeOK
<1>7. /\ place' \in [Client \cup Tunnel -> Places]
      /\ \A q \in Tunnel : place'[q] = place[q]
      /\ UNCHANGED <<option, listener, all_peers>>
  BY DEF HangsUp, Inv, TypeOK
<1>8. QED
  BY <1>2, <1>3, <1>5, <1>6, <1>7, PeerChanges

LEMMA RenumberedInv == ASSUME Inv, NEW p \in Tunnel, Renumbered(p) PROVE Inv'
<1>1. PICK c \in occupied[p], e \in Slot \ occupied[p] :
        occupied' = [occupied EXCEPT ![p] = (@ \ {c}) \cup {e}]
  BY DEF Renumbered
<1>2. p \in all_peers /\ occupied[p] \in SUBSET Slot /\ num[p] \in Nat
  BY DEF Inv, TypeOK, Renumbered
<1>3. /\ occupied[p] \ {c} \in SUBSET Slot
      /\ Cardinality(occupied[p] \ {c}) = Cardinality(occupied[p]) - 1
  BY <1>2, SlotFreed
<1>4. /\ (occupied[p] \ {c}) \cup {e} \in SUBSET Slot
      /\ Cardinality((occupied[p] \ {c}) \cup {e}) = Cardinality(occupied[p] \ {c}) + 1
  BY <1>3, SlotTaken
<1>5. num[p] >= Cardinality(occupied[p]) /\ Cardinality(occupied[p]) \in Nat
  BY <1>2, TableFinite DEF Inv, Counted
<1>6. num[p] >= Cardinality((occupied[p] \ {c}) \cup {e})
  BY <1>2, <1>3, <1>4, <1>5
<1>7. /\ occupied' = [occupied EXCEPT ![p] = (occupied[p] \ {c}) \cup {e}]
      /\ num' = [num EXCEPT ![p] = num[p]]
  BY <1>1 DEF Renumbered, Inv, TypeOK
<1>8. /\ place' \in [Client \cup Tunnel -> Places]
      /\ \A q \in Tunnel : place'[q] = place[q]
      /\ UNCHANGED <<option, listener, all_peers>>
  BY DEF Renumbered, Inv, TypeOK
<1>9. QED
  BY <1>2, <1>4, <1>6, <1>7, <1>8, PeerChanges

LEMMA NextInv == ASSUME Inv, [Next]_vars PROVE Inv'
<1>1. CASE UNCHANGED vars
  <2>1. UNCHANGED <<option, allow, listener, place, all_peers, occupied, num>>
    BY <1>1 DEF vars
  <2>2. QED
    BY <2>1 DEF Inv, TypeOK, Counted
<1>2. CASE \E l \in Listener : ListenReady(l)
  BY <1>2, ListenReadyInv
<1>3. CASE \E x \in Client \cup Tunnel : Arrive(x)
  BY <1>3, ArriveInv
<1>4. CASE \E x \in Client :
             RequestArrives(x) \/ Leaves(x) \/ Request(x) \/ RequestRefused(x)
  BY <1>4, RequestArrivesInv, LeavesInv, RequestInv, RequestRefusedInv
<1>5. CASE \E p \in Tunnel :
             Dial(p) \/ PeerLost(p) \/ Connected(p) \/ Ends(p) \/ HangsUp(p) \/ Renumbered(p)
  BY <1>5, DialInv, PeerLostInv, ConnectedInv, EndsInv, HangsUpInv, RenumberedInv
<1>6. QED
  BY <1>1, <1>2, <1>3, <1>4, <1>5 DEF Next

THEOREM Invariance == Spec => []Inv
<1>1. Inv /\ [Next]_vars => Inv'
  BY NextInv
<1>2. QED
  BY <1>1, InitInv, PTL DEF Spec

-----------------------------------------------------------------------------
\* Every variable of Peers keeps its type (peer_info::all_peers is exactly the
\* connected peers).
THEOREM TypeCorrect == Spec => []TypeOK
<1>1. Inv => TypeOK
  BY DEF Inv
<1>2. QED
  BY <1>1, Invariance, PTL

LEMMA FullTable ==
  ASSUME NEW S \in SUBSET Slot, Channel \subseteq S
  PROVE  Cardinality(S) >= MaxChannel
<1>1. IsFiniteSet(S) /\ Cardinality(S) \in Nat
  BY TableFinite
<1>2. Cardinality(Channel) = MaxChannel
  BY PeersConstants, FS_Interval DEF Channel
<1>3. Cardinality(Channel) <= Cardinality(S)
  BY <1>1, FS_Subset
<1>4. QED
  BY <1>1, <1>2, <1>3, PeersConstants

LEMMA RefusedStep ==
  ASSUME Inv, Next, NEW x \in Client, place[x] = "asking", place'[x] = "refused",
         NEW p \in all_peers
  PROVE  num[p] >= MaxChannel
<1>1. place \in [Client \cup Tunnel -> Places] /\ x \in Client \cup Tunnel /\ x \notin Tunnel
  BY PeersConstants DEF Inv, TypeOK
<1>2. ASSUME NEW l \in Listener, ListenReady(l) PROVE FALSE
  <2>1. x \notin Waiting(l)
    BY DEF Waiting
  <2>2. place'[x] = place[x]
    BY <1>1, <1>2, <2>1 DEF ListenReady
  <2>3. QED
    BY <2>2
<1>3. ASSUME NEW y \in Client \cup Tunnel, Arrive(y) PROVE FALSE
  BY <1>1, <1>3 DEF Arrive
<1>4. ASSUME NEW y \in Client, RequestArrives(y) \/ Leaves(y) \/ Request(y) PROVE FALSE
  BY <1>1, <1>4 DEF RequestArrives, Leaves, Request
<1>5. ASSUME NEW q \in Tunnel,
             Dial(q) \/ PeerLost(q) \/ Connected(q) \/ Ends(q) \/ HangsUp(q) \/ Renumbered(q)
      PROVE  FALSE
  BY <1>1, <1>5 DEF Dial, PeerLost, Connected, Ends, HangsUp, Renumbered
<1>6. PICK y \in Client : RequestRefused(y)
  BY <1>2, <1>3, <1>4, <1>5 DEF Next
<1>7. y = x /\ place[y] = "asking"
  BY <1>1, <1>6 DEF RequestRefused
<1>8. PICK q \in all_peers : LeastBusy(q) /\ FreeChannels(q) = {}
  BY <1>6, <1>7 DEF RequestRefused
<1>9. Channel \subseteq occupied[q] /\ num[q] <= num[p]
  BY <1>8 DEF FreeChannels, LeastBusy
<1>10. /\ p \in Tunnel /\ q \in Tunnel /\ occupied[q] \in SUBSET Slot
       /\ num[p] \in Nat /\ num[q] \in Nat
  BY DEF Inv, TypeOK
<1>11. Cardinality(occupied[q]) >= MaxChannel /\ Cardinality(occupied[q]) \in Nat
  BY <1>9, <1>10, FullTable, TableFinite
<1>12. num[q] >= Cardinality(occupied[q])
  BY <1>10 DEF Inv, Counted
<1>13. QED
  BY <1>9, <1>10, <1>11, <1>12, PeersConstants

\* connect_peer refuses a valid address, when there is a peer, only when every peer
\* counts as many clients as it has channels: a least busy peer that has no channel
\* left counts at least the clients in its table (Counted), and the others no less.
THEOREM RefusedOnlyWhenFull == Spec => RefusedWhenFull
<1>1. Inv /\ [Next]_vars =>
        [\A x \in Client : place[x] = "asking" /\ place'[x] = "refused" =>
           \A p \in all_peers : num[p] >= MaxChannel]_vars
  BY RefusedStep
<1>2. QED
  BY <1>1, Invariance, PTL DEF Spec, RefusedWhenFull

-----------------------------------------------------------------------------
(***************************************************************************)
(* Addresses and networks.                                                 *)
(***************************************************************************)

\* 2^n counts the subsets of 1 .. n.
LEMMA PowerPositive == ASSUME NEW n \in Nat PROVE 2^n \in Nat \ {0}
<1>1. IsFiniteSet(1 .. n) /\ Cardinality(1 .. n) = n
  BY FS_Interval
<1>2. IsFiniteSet(SUBSET (1 .. n)) /\ Cardinality(SUBSET (1 .. n)) = 2^n
  BY <1>1, FS_SUBSET
<1>3. Cardinality(SUBSET (1 .. n)) \in Nat
  BY <1>2, FS_CardinalityType
<1>4. Cardinality(SUBSET (1 .. n)) # 0
  <2>1. SUBSET (1 .. n) # {}
    OBVIOUS
  <2>2. QED
    BY <1>2, <2>1, FS_EmptySet
<1>5. QED
  BY <1>2, <1>3, <1>4

LEMMA QuotientAndRest ==
  ASSUME NEW a \in Int, NEW k \in Nat \ {0}
  PROVE  a \div k \in Int /\ a % k \in Int /\ a = k * (a \div k) + (a % k)
OBVIOUS

LEMMA Cancelled ==
  ASSUME NEW k \in Nat \ {0}, NEW q \in Int, NEW r \in Int, k * q = k * r
  PROVE  q = r
OBVIOUS

\* To lose the rest is to keep the quotient.
LEMMA SameQuotient ==
  ASSUME NEW a \in Int, NEW b \in Int, NEW k \in Nat \ {0}
  PROVE  a - (a % k) = b - (b % k) <=> a \div k = b \div k
<1>1. a \div k \in Int /\ a % k \in Int /\ a = k * (a \div k) + (a % k)
  BY QuotientAndRest
<1>2. b \div k \in Int /\ b % k \in Int /\ b = k * (b \div k) + (b % k)
  BY QuotientAndRest
<1>3. a - (a % k) = k * (a \div k) /\ b - (b % k) = k * (b \div k)
  BY <1>1, <1>2
<1>4. k * (a \div k) = k * (b \div k) => a \div k = b \div k
  BY <1>1, <1>2, Cancelled
<1>5. QED
  BY <1>3, <1>4

LEMMA QuarterOfBits == Bits \in Nat /\ Bits <= 32 /\ Quarter \in Nat /\ 4 * Quarter = Bits
BY NetworkConstants DEF Quarter

\* What an address's number adds is a number.
LEMMA PartIsNat ==
  ASSUME NEW parts \in Seq(Nat), Len(parts) \in 1 .. 4, NEW i \in 1 .. 4
  PROVE  Part(parts, i) \in Nat
<1>1. CASE i < Len(parts)
  <2>1. parts[i] \in Nat
    BY <1>1, ElementOfSeq
  <2>2. Bits - i * Quarter \in Nat
    BY <1>1, QuarterOfBits
  <2>3. 2^(Bits - i * Quarter) \in Nat
    BY <2>2, PowerPositive
  <2>4. Part(parts, i) = parts[i] * 2^(Bits - i * Quarter)
    BY <1>1 DEF Part
  <2>5. QED
    BY <2>1, <2>3, <2>4
<1>2. CASE i = Len(parts)
  <2>1. parts[i] \in Nat
    BY <1>2, ElementOfSeq
  <2>2. Part(parts, i) = parts[i]
    BY <1>2 DEF Part
  <2>3. QED
    BY <2>1, <2>2
<1>3. CASE i > Len(parts)
  BY <1>3 DEF Part
<1>4. QED
  BY <1>1, <1>2, <1>3

LEMMA AddressIsInt == ASSUME NEW t \in Text PROVE ParseAddress(t.parts) \in Int
<1>1. t.parts \in Seq(Nat) /\ Len(t.parts) \in 1 .. 4
  BY DEF Text
<1>2. /\ Part(t.parts, 1) \in Nat /\ Part(t.parts, 2) \in Nat
      /\ Part(t.parts, 3) \in Nat /\ Part(t.parts, 4) \in Nat
  BY <1>1, PartIsNat
<1>3. QED
  BY <1>2 DEF ParseAddress, NoAddress

\* A network made of a text whose prefix is one of an address has the addresses
\* that the text means.
LEMMA ParsedMeans ==
  ASSUME NEW t \in Text, t.slash => t.len \in 0 .. Bits,
         NEW net \in Parse(t), NEW a \in Int
  PROVE  Has(net, a) <=> Meant(t, a)
<1> DEFINE len == IF t.slash THEN t.len ELSE Quarter
           A == ParseAddress(t.parts)
<1>1. len \in 0 .. Bits
  BY QuarterOfBits
<1>2. (IF t.slash THEN Short(t.len) ELSE Quarter) = len
  BY QuarterOfBits DEF Short
<1>3. Mask(len) = {len}
  BY <1>1, QuarterOfBits DEF Mask
<1>4. net = [addr |-> Masked(A, len), mask |-> len]
  BY <1>2, <1>3 DEF Parse
<1>5. A \in Int
  BY AddressIsInt
<1>6. Meant(t, a) <=> SharePrefix(a, A, len)
  BY DEF Meant
<1>7. Has(net, a) <=> Masked(a, len) = Masked(A, len)
  BY <1>4 DEF Has
<1> HIDE DEF len, A
<1>8. Bits - len \in Nat
  BY <1>1, QuarterOfBits
<1>9. 2^(Bits - len) \in Nat \ {0}
  BY <1>8, PowerPositive
<1>10. QED
  BY <1>5, <1>6, <1>7, <1>9, SameQuotient DEF Masked, SharePrefix

\* ... and so has a list what its texts mean.
LEMMA ListMeans ==
  ASSUME NEW texts \in Options, \A t \in texts : t.slash => t.len \in 0 .. Bits,
         NEW list \in AllowLists(texts), NEW a \in Int
  PROVE  AllowConnection(list, a) <=> texts = {} \/ \E t \in texts : Meant(t, a)
<1>1. texts \subseteq Text
  BY PeersConstants
<1>2. PICK net \in {f \in [texts -> UNION {Parse(t) : t \in texts}] :
                      \A t \in texts : f[t] \in Parse(t)} :
             list = {net[t] : t \in texts}
  BY DEF AllowLists
<1>3. \A t \in texts : net[t] \in Parse(t)
  BY <1>2
<1>4. \A t \in texts : Has(net[t], a) <=> Meant(t, a)
  BY <1>1, <1>3, ParsedMeans
<1>5. list = {} <=> texts = {}
  BY <1>2
<1>6. (\E n \in list : Has(n, a)) <=> \E t \in texts : Has(net[t], a)
  BY <1>2
<1>7. QED
  BY <1>4, <1>5, <1>6 DEF AllowConnection

-----------------------------------------------------------------------------
(***************************************************************************)
(* Who is let in.                                                          *)
(***************************************************************************)

\* The listeners' list is made of their option, and judges who connects.
Judged ==
  /\ allow \in AllowLists(option)
  /\ \A x \in (Client \cup Tunnel) \ Dialled :
       /\ place[x] \in LetIn => AllowConnection(allow, From[x])
       /\ place[x] = "rejected" => ~AllowConnection(allow, From[x])

LEMMA InitJudged == Init => Judged
BY DEF Init, Judged, LetIn

LEMMA AcceptedJudged ==
  ASSUME NEW x \in Client \cup Tunnel
  PROVE  /\ Accepted(x) \in {"quiet", "peer"} => AllowConnection(allow, From[x])
         /\ Accepted(x) = "rejected" => ~AllowConnection(allow, From[x])
         /\ Accepted(x) \in {"quiet", "peer", "rejected"}
BY DEF Accepted

\* A step that moves one connection on moves nobody past the list.
LEMMA OneMoves ==
  ASSUME Inv, Judged, UNCHANGED <<option, allow>>,
         NEW y \in Client \cup Tunnel, NEW q,
         place' = [place EXCEPT ![y] = q],
         \/ y \in Dialled
         \/ q \in {"waiting", "gone"}
         \/ place[y] \in LetIn /\ q \in LetIn
  PROVE  Judged'
<1>1. \A x \in Client \cup Tunnel : place'[x] = IF x = y THEN q ELSE place[x]
  BY DEF Inv, TypeOK
<1>2. allow' \in AllowLists(option')
  BY DEF Judged, AllowLists
<1>3. ASSUME NEW x \in (Client \cup Tunnel) \ Dialled
      PROVE  /\ place'[x] \in LetIn => AllowConnection(allow, From[x])
             /\ place'[x] = "rejected" => ~AllowConnection(allow, From[x])
  BY <1>1, <1>3 DEF Judged, LetIn
<1>4. QED
  BY <1>2, <1>3 DEF Judged

LEMMA StepJudged == ASSUME Inv, Judged, [Next]_vars PROVE Judged'
<1>1. ASSUME NEW l \in Listener, ListenReady(l) PROVE Judged'
  <2>1. option' = option /\ allow' = allow
    BY <1>1 DEF ListenReady
  <2>2. PICK some \in SUBSET Waiting(l) :
          place' = [x \in DOMAIN place |->
                      CASE x \in some -> Accepted(x)
                        [] x \in Waiting(l) \ some -> "reset"
                        [] OTHER -> place[x]]
    BY <1>1 DEF ListenReady
  <2>3. DOMAIN place = Client \cup Tunnel
    BY DEF Inv, TypeOK
  <2>4. ASSUME NEW x \in (Client \cup Tunnel) \ Dialled
        PROVE  /\ place'[x] \in LetIn => AllowConnection(allow, From[x])
               /\ place'[x] = "rejected" => ~AllowConnection(allow, From[x])
    <3>1. CASE x \in some
      <4>1. place'[x] = Accepted(x)
        BY <2>2, <2>3, <3>1
      <4>2. QED
        BY <4>1, AcceptedJudged DEF LetIn
    <3>2. CASE x \in Waiting(l) \ some
      <4>1. place'[x] = "reset"
        BY <2>2, <2>3, <3>2
      <4>2. QED
        BY <4>1 DEF LetIn
    <3>3. CASE x \notin Waiting(l) /\ x \notin some
      <4>1. place'[x] = place[x]
        BY <2>2, <2>3, <3>3
      <4>2. QED
        BY <4>1 DEF Judged
    <3>4. QED
      BY <3>1, <3>2, <3>3
  <2>5. QED
    BY <2>1, <2>4 DEF Judged
<1>2. ASSUME NEW x \in Client \cup Tunnel, Arrive(x) PROVE Judged'
  BY <1>2, OneMoves DEF Arrive
<1>3. ASSUME NEW x \in Client, Request(x) PROVE Judged'
  BY <1>3, OneMoves DEF Request, LetIn
<1>4. ASSUME NEW x \in Client, RequestRefused(x) PROVE Judged'
  BY <1>4, OneMoves DEF RequestRefused, LetIn
<1>5. ASSUME NEW p \in Tunnel, Dial(p) PROVE Judged'
  BY <1>5, OneMoves DEF Dial
<1>6. ASSUME NEW p \in Tunnel, PeerLost(p) PROVE Judged'
  <2>1. p \in Tunnel
    OBVIOUS
  <2>2. QED
    BY <1>6, <2>1, OneMoves DEF PeerLost
<1>7. ASSUME NEW p \in Tunnel, Connected(p) \/ Ends(p) \/ HangsUp(p) \/ Renumbered(p)
      PROVE  Judged'
  <2>1. UNCHANGED <<option, allow, place>>
    BY <1>7 DEF Connected, Ends, HangsUp, Renumbered
  <2>2. QED
    BY <2>1 DEF Judged
<1>8. ASSUME NEW x \in Client, RequestArrives(x) PROVE Judged'
  BY <1>8, OneMoves DEF RequestArrives, LetIn
<1>9. ASSUME NEW x \in Client, Leaves(x) PROVE Judged'
  BY <1>9, OneMoves DEF Leaves
<1>10. CASE UNCHANGED vars
  BY <1>10 DEF vars, Judged
<1>11. QED
  BY <1>1, <1>2, <1>3, <1>4, <1>5, <1>6, <1>7, <1>8, <1>9, <1>10 DEF Next

\* Exactly those are let in who are meant by a text of the option, whatever the
\* number of addresses, texts and connections, and whoever waits beside them.
THEOREM LetInAsMeant == Spec => []AllowedExactly
<1>1. Init => Judged
  BY InitJudged
<1>2. Inv /\ Judged /\ [Next]_vars => Judged'
  BY StepJudged
<1>3. ASSUME Inv, Judged PROVE AllowedExactly
  <2> DEFINE may(x) == option = {} \/ \E t \in option : Meant(t, From[x])
  <2> SUFFICES ASSUME \A t \in option : t.slash => t.len \in 0 .. Bits
               PROVE  \A x \in (Client \cup Tunnel) \ Dialled :
                        /\ place[x] \in LetIn => may(x)
                        /\ place[x] = "rejected" => ~may(x)
    BY DEF AllowedExactly
  <2> TAKE x \in (Client \cup Tunnel) \ Dialled
  <2>1. option \in Options /\ allow \in AllowLists(option)
    BY <1>3 DEF Inv, TypeOK, Judged
  <2>2. From[x] \in Int
    <3>1. 2^Bits \in Int
      BY PowerPositive, QuarterOfBits
    <3>2. From[x] \in 0 .. 2^Bits - 1
      BY PeersConstants DEF Address
    <3>3. QED
      BY <3>1, <3>2
  <2>3. AllowConnection(allow, From[x]) <=> option = {} \/ \E t \in option : Meant(t, From[x])
    BY <2>1, <2>2, ListMeans
  <2>4. QED
    BY <1>3, <2>3 DEF Judged
<1>4. QED
  BY <1>1, <1>2, <1>3, Invariance, PTL DEF Spec
=============================================================================
