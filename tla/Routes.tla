-------------------------------- MODULE Routes --------------------------------
(***************************************************************************)
(* How the network of bing2bing grows while nobody leaves it: peers        *)
(* register (Tracker), dial those they are told of, and dial those whose   *)
(* announcements they hear (Links), which travel along the links (Relay).  *)
(*                                                                         *)
(* Each of those modules has the steps of one component.  Here dialling is  *)
(* one step, from the decision to the entry, the connection and its count, *)
(* so that the graph of all links can be looked at: the comment of         *)
(* Announce::apply promises a route to every peer.                         *)
(***************************************************************************)
EXTENDS Integers, FiniteSets

CONSTANTS
    Peer,
    Fanout,                     \* how many peers the tracker lists: 5
    max_incoming_connections    \* what every peer was started with

ASSUME RoutesAssumption ==
    /\ IsFiniteSet(Peer)
    /\ Fanout \in Nat
    /\ max_incoming_connections \in Nat

VARIABLES
    known_peers,    \* the peers the tracker knows
    joined,         \* those it has answered, which listen and announce
    links,          \* the links, as pairs <<from, to>>: the entries of the PeerMaps
    offered         \* peers that have ever announced room for another link

vars == <<known_peers, joined, links, offered>>

Init == known_peers = {} /\ joined = {} /\ links = {} /\ offered = {}

-----------------------------------------------------------------------------
\* No set of peers that has p and all its links lead to is without q.
Closed(S)   == \A l \in links : l[1] \in S => l[2] \in S
Route(p, q) == \A S \in SUBSET Peer : p \in S /\ Closed(S) => q \in S

\* num_incoming_conns.
Incoming(p) == {q \in Peer : <<q, p>> \in links}

\* PeerMap::is_empty.
Empty(p) == \A q \in Peer : <<p, q>> \notin links

\* available_incoming is more than 0.  (Mutant: one is kept in reserve.)
RoomReserved(p) == Cardinality(Incoming(p)) + 1 < max_incoming_connections
HasRoom(p) == Cardinality(Incoming(p)) < max_incoming_connections

-----------------------------------------------------------------------------
\* The tracker sets the name ...
Register(p) ==
    /\ p \notin known_peers
    /\ known_peers' = known_peers \cup {p}
    /\ UNCHANGED <<joined, links, offered>>

\* ... and lists as many as it lists, or all it knows.  (Mutant: one too few.)
OneShort(T) == T \subseteq known_peers /\ (Cardinality(T) = Fanout - 1 \/ T = known_peers)
Listed(T) ==
    /\ T \subseteq known_peers
    /\ Cardinality(T) = Fanout \/ (T = known_peers /\ Cardinality(T) < Fanout)

\* The peer dials all on the list but itself, and starts to listen.
Join(p) ==
    /\ p \in known_peers \ joined
    /\ \E T \in SUBSET Peer :
          /\ Listed(T)
          /\ links' = links \cup {<<p, q>> : q \in T \ {p}}
    /\ joined' = joined \cup {p}
    /\ UNCHANGED <<known_peers, offered>>

\* start_announce.
Announce(p) ==
    /\ p \in joined
    /\ HasRoom(p)
    /\ offered' = offered \cup {p}
    /\ UNCHANGED <<known_peers, joined, links>>

\* What p announces comes to q, which has no entry of p, and rolls a 0.
Dial(q, p) ==
    /\ {p, q} \subseteq joined /\ p # q
    /\ Route(p, q)
    /\ <<q, p>> \notin links
    /\ links' = links \cup {<<q, p>>}
    /\ UNCHANGED <<known_peers, joined, offered>>

\* A late announcement may offer room that has gone since.
HearLate(q, p) == p \in offered /\ Dial(q, p)

\* The next one says what there is; a peer without entries dials whatever it says.
HearNow(q, p) == (Empty(q) \/ HasRoom(p)) /\ Dial(q, p)

Next ==
    \/ \E p \in Peer : Register(p) \/ Join(p) \/ Announce(p)
    \/ \E p, q \in Peer : HearLate(q, p) \/ HearNow(q, p)

Spec == Init /\ [][Next]_vars

\* The tracker answers who has registered (Answered of Tracker).  A peer hears of another
\* every 5 seconds, and each time rolls 0 with a probability that has a lower bound.
\* Nobody has to register.
Fairness == /\ \A p \in Peer : WF_vars(Join(p))
            /\ \A p, q \in Peer : WF_vars(HearNow(q, p))

FairSpec == Spec /\ Fairness

-----------------------------------------------------------------------------
(* What must hold.                                                         *)

\* Every variable holds a value of its type; a link was opened by a peer that has joined,
\* to another one the tracker knows.
TypeOK ==
    /\ joined \subseteq known_peers /\ known_peers \subseteq Peer
    /\ links \subseteq joined \X known_peers
    /\ \A p \in Peer : <<p, p>> \notin links
    /\ offered \subseteq joined

\* The peers are one network, as far as links in either direction go, although each is told
\* of only some and they register in any order: no peers are without a link, one way or the
\* other, to the rest.
OneNetwork ==
    \A S \in SUBSET joined : S # {} /\ S # joined =>
        \E p \in S : \E q \in joined \ S : <<p, q>> \in links \/ <<q, p>> \in links

\* Nobody dials anybody any more, whatever is announced.
Settled ==
    \A p, q \in joined :
        p # q /\ Route(p, q) /\ <<q, p>> \notin links => ~ Empty(q) /\ ~ HasRoom(p)

\* When the peers have come to rest there is a route from each to each: the limit on incoming
\* connections, which makes peers refuse those who would have to connect to them, has cut
\* nobody off.
SettledReach == Settled => \A p, q \in joined : Route(p, q)

\* "There will always be a route to every peer in the network."
AlwaysRoute == \A p, q \in Peer : {p, q} \subseteq joined ~> Route(p, q)

-----------------------------------------------------------------------------
(* Why it holds, when the tracker lists everybody.                         *)

\* Of two peers one was told of the other.
Acquainted ==
    \A p, q \in joined : p # q => <<p, q>> \in links \/ <<q, p>> \in links

IInv == TypeOK /\ Acquainted
=============================================================================
