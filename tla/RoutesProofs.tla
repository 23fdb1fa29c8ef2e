----------------------------- MODULE RoutesProofs -----------------------------
(* Routes for every set of peers.  OneNetwork needs a tracker that lists    *)
(* everybody, and SettledReach room for all but two of the peers at each.   *)
EXTENDS Routes, FiniteSetTheorems, TLAPS

USE RoutesAssumption

ListsAll == Cardinality(Peer) <= Fanout
RoomForMost == Cardinality(Peer) <= max_incoming_connections + 2

-----------------------------------------------------------------------------
(* Types.                                                                   *)

LEMMA TypeInit == Init => TypeOK
BY DEF Init, TypeOK

\* A peer that dials has joined and dials another one that is known.
LEMMA DialTyped ==
    ASSUME TypeOK, NEW p \in Peer, NEW q \in Peer, Dial(q, p)
    PROVE  TypeOK'
<1>1. /\ known_peers' = known_peers /\ joined' = joined /\ offered' = offered
      /\ links' = links \cup {<<q, p>>}
      /\ q \in joined /\ p \in joined /\ p # q
  BY DEF Dial
<1>2. <<q, p>> \in joined \X known_peers
  BY <1>1 DEF TypeOK
<1> QED BY <1>1, <1>2 DEF TypeOK

LEMMA JoinTyped ==
    ASSUME TypeOK, NEW p \in Peer, Join(p)
    PROVE  TypeOK'
<1>1. PICK T \in SUBSET Peer :
          Listed(T) /\ links' = links \cup {<<p, q>> : q \in T \ {p}}
  BY DEF Join
<1>2. /\ known_peers' = known_peers /\ offered' = offered
      /\ joined' = joined \cup {p} /\ p \in known_peers
  BY DEF Join
<1>3. T \subseteq known_peers
  BY <1>1 DEF Listed
<1>4. links' \subseteq joined' \X known_peers'
  BY <1>1, <1>2, <1>3 DEF TypeOK
<1>5. \A q \in Peer : <<q, q>> \notin links'
  BY <1>1 DEF TypeOK
<1> QED BY <1>2, <1>4, <1>5 DEF TypeOK

LEMMA TypeStep == TypeOK /\ [Next]_vars => TypeOK'
<1> SUFFICES ASSUME TypeOK, [Next]_vars PROVE TypeOK'
  OBVIOUS
<1>1. ASSUME NEW p \in Peer, Register(p) PROVE TypeOK'
  BY <1>1 DEF TypeOK, Register
<1>2. ASSUME NEW p \in Peer, Announce(p) PROVE TypeOK'
  BY <1>2 DEF TypeOK, Announce
<1>3. ASSUME NEW p \in Peer, NEW q \in Peer, HearLate(q, p) \/ HearNow(q, p) PROVE TypeOK'
  BY <1>3, DialTyped DEF HearLate, HearNow
<1>4. CASE UNCHANGED vars
  BY <1>4 DEF TypeOK, vars
<1> QED BY <1>1, <1>2, <1>3, <1>4, JoinTyped DEF Next

\* Links are opened by peers that have joined, to other peers the tracker knows.
THEOREM TypeCorrect == Spec => []TypeOK
BY TypeInit, TypeStep, PTL DEF Spec

-----------------------------------------------------------------------------
(* Who is told of whom.                                                     *)

\* A tracker that lists everybody lists all it knows.
LEMMA ListIsAll ==
    ASSUME TypeOK, ListsAll, NEW T \in SUBSET Peer, Listed(T)
    PROVE  joined \subseteq T
<1>1. IsFiniteSet(Peer) /\ joined \subseteq Peer /\ joined \subseteq known_peers
  BY DEF TypeOK
<1>2. CASE T = known_peers
  BY <1>1, <1>2
<1>3. CASE Cardinality(T) = Fanout
  <2>1. Cardinality(T) <= Cardinality(Peer) /\ (Cardinality(T) = Cardinality(Peer) => T = Peer)
    BY <1>1, FS_Subset
  <2>2. Cardinality(T) \in Nat /\ Cardinality(Peer) \in Nat
    BY <1>1, FS_Subset, FS_CardinalityType
  <2>3. T = Peer
    BY <1>3, <2>1, <2>2 DEF ListsAll
  <2> QED BY <1>1, <2>3
<1> QED BY <1>2, <1>3 DEF Listed

\* So who joins is linked to all who have joined before.
LEMMA JoinAcquainted ==
    ASSUME IInv, ListsAll, NEW p \in Peer, Join(p)
    PROVE  Acquainted'
<1>1. PICK T \in SUBSET Peer :
          Listed(T) /\ links' = links \cup {<<p, q>> : q \in T \ {p}}
  BY DEF Join
<1>2. joined \subseteq T /\ joined' = joined \cup {p}
  BY <1>1, ListIsAll DEF Join, IInv
<1>3. ASSUME NEW q \in joined, q # p PROVE <<p, q>> \in links'
  BY <1>1, <1>2, <1>3
<1>4. SUFFICES ASSUME NEW q \in joined', NEW r \in joined', q # r
               PROVE  <<q, r>> \in links' \/ <<r, q>> \in links'
  BY DEF Acquainted
<1>5. CASE q = p \/ r = p
  BY <1>2, <1>3, <1>4, <1>5
<1>6. CASE q # p /\ r # p
  <2>1. <<q, r>> \in links \/ <<r, q>> \in links
    BY <1>2, <1>4, <1>6 DEF IInv, Acquainted
  <2> QED BY <1>1, <2>1
<1> QED BY <1>5, <1>6

LEMMA InvStep ==
    ASSUME ListsAll
    PROVE  IInv /\ [Next]_vars => IInv'
<1> SUFFICES ASSUME IInv, [Next]_vars PROVE IInv'
  OBVIOUS
<1>1. TypeOK'
  BY TypeStep DEF IInv
<1>2. ASSUME joined' = joined, links \subseteq links' PROVE Acquainted'
  BY <1>2 DEF IInv, Acquainted
<1>3. ASSUME NEW p \in Peer, Register(p) \/ Announce(p) PROVE Acquainted'
  BY <1>2, <1>3 DEF Register, Announce
<1>4. ASSUME NEW p \in Peer, NEW q \in Peer, HearLate(q, p) \/ HearNow(q, p)
      PROVE  Acquainted'
  BY <1>2, <1>4 DEF HearLate, HearNow, Dial
<1>5. ASSUME UNCHANGED vars PROVE Acquainted'
  BY <1>2, <1>5 DEF vars
<1>6. Acquainted'
  BY <1>3, <1>4, <1>5, JoinAcquainted DEF Next
<1> QED BY <1>1, <1>6 DEF IInv

\* Of two peers in the network one was told of the other and dialled it, however their
\* registrations and first connections interleave.
THEOREM Invariance == ASSUME ListsAll PROVE Spec => []IInv
<1>1. Init => IInv
  BY TypeInit DEF Init, IInv, Acquainted
<1> QED BY <1>1, InvStep, PTL DEF Spec

-----------------------------------------------------------------------------
(* The network.                                                             *)

LEMMA AcquaintedIsOne == IInv => OneNetwork
<1> SUFFICES ASSUME IInv, NEW S \in SUBSET joined, S # {}, S # joined
             PROVE  \E p \in S : \E q \in joined \ S :
                        <<p, q>> \in links \/ <<q, p>> \in links
  BY DEF OneNetwork
<1>1. PICK p \in S, q \in joined \ S : TRUE
  OBVIOUS
<1>2. <<p, q>> \in links \/ <<q, p>> \in links
  BY <1>1 DEF IInv, Acquainted
<1> QED BY <1>1, <1>2

\* No part of the network is ever without a link to the rest.
THEOREM NeverSplit == ASSUME ListsAll PROVE Spec => []OneNetwork
BY Invariance, AcquaintedIsOne, PTL

\* Three peers of which none is connected to q leave room at q.
LEMMA RoomLeft ==
    ASSUME RoomForMost, NEW p \in Peer, NEW q \in Peer, NEW x \in Peer,
           p # q, x # q, x # p, {p, q, x} \cap Incoming(q) = {}
    PROVE  HasRoom(q)
<1> DEFINE R == Peer \ {p}
           Q == R \ {q}
<1>1. IsFiniteSet(Peer) /\ Cardinality(Peer) \in Nat
  BY FS_CardinalityType
<1>2. IsFiniteSet(R) /\ Cardinality(R) = Cardinality(Peer) - 1
  BY <1>1, FS_RemoveElement
<1>3. IsFiniteSet(Q) /\ Cardinality(Q) = Cardinality(R) - 1
  <2>1. q \in R
    OBVIOUS
  <2> HIDE DEF R
  <2> QED BY <1>2, <2>1, FS_RemoveElement
<1>4. IsFiniteSet(Q \ {x}) /\ Cardinality(Q \ {x}) = Cardinality(Q) - 1
  <2>1. x \in Q
    OBVIOUS
  <2> HIDE DEF Q
  <2> QED BY <1>3, <2>1, FS_RemoveElement
<1>5. Incoming(q) \subseteq Q \ {x}
  BY DEF Incoming
<1> HIDE DEF R, Q
<1>6. IsFiniteSet(Incoming(q)) /\ Cardinality(Incoming(q)) <= Cardinality(Q \ {x})
  BY <1>4, <1>5, FS_Subset
<1>7. Cardinality(Incoming(q)) \in Nat
  BY <1>6, FS_CardinalityType
<1>8. Cardinality(Incoming(q)) <= Cardinality(Peer) - 3
  BY <1>1, <1>2, <1>3, <1>4, <1>6, <1>7
<1> QED BY <1>1, <1>7, <1>8 DEF HasRoom, RoomForMost

\* A peer q that was told of p and is not dialled by it has been refused for want of room,
\* which all but p, q and whoever p leads to are too few to take up.
LEMMA SettledIsConnected == ASSUME RoomForMost PROVE IInv => SettledReach
<1> SUFFICES ASSUME IInv, Settled, NEW p \in joined, NEW q \in joined
             PROVE  Route(p, q)
  BY DEF SettledReach
<1>1. SUFFICES ASSUME NEW S \in SUBSET Peer, p \in S, Closed(S), q \notin S
               PROVE  FALSE
  BY DEF Route
<1>2. p \in Peer /\ q \in Peer /\ p # q
  BY <1>1 DEF IInv, TypeOK
<1>3. ASSUME NEW y \in S PROVE <<y, q>> \notin links
  BY <1>1, <1>3 DEF Closed
<1>4. <<q, p>> \in links
  BY <1>1, <1>2, <1>3 DEF IInv, Acquainted
<1>5. Route(q, p)
  BY <1>4 DEF Route, Closed
<1>6. ~ Empty(p) /\ ~ HasRoom(q)
  BY <1>1, <1>2, <1>3, <1>5 DEF Settled
<1>7. PICK x \in Peer : <<p, x>> \in links
  BY <1>6 DEF Empty
<1>8. x \in S /\ x # p /\ x # q
  BY <1>1, <1>2, <1>7 DEF Closed, IInv, TypeOK
<1>9. {p, q, x} \cap Incoming(q) = {}
  <2>1. <<q, q>> \notin links
    BY <1>2 DEF IInv, TypeOK
  <2> QED BY <1>1, <1>3, <1>8, <2>1 DEF Incoming
<1>10. HasRoom(q)
  BY <1>2, <1>7, <1>8, <1>9, RoomLeft
<1> QED BY <1>6, <1>10

\* A network at rest has a route from everyone to everyone, however its peers came in and
\* whatever announcements they heard, if a peer takes as many connections as there are
\* others but one.
THEOREM RestHasRoutes ==
    ASSUME ListsAll, RoomForMost PROVE Spec => []SettledReach
BY Invariance, SettledIsConnected, PTL
=============================================================================
