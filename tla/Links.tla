-------------------------------- MODULE Links --------------------------------
(***************************************************************************)
(* How the links that Relay takes for granted come and go: connect_to_peer *)
(* and start of server.rs, Announce::apply, PeerMap, listen with its       *)
(* ConnectionCounter, Peer::start.                                         *)
(*                                                                         *)
(* Every connect_to_peer spawns a task, which inserts its channel into the *)
(* PeerMap under the peer's name, connects, writes what is broadcast, and  *)
(* removes the name when a write fails.  At the far end listen spawns a    *)
(* task per connection.  Announcements travel as commands do in Relay: any *)
(* may be heard by any other peer, late, again, or never.                  *)
(***************************************************************************)
EXTENDS Integers, FiniteSets

CONSTANTS
    Peer,
    None,                       \* the PeerMap has no such entry
    Dead,                       \* it has one whose task is gone
    Pair,                       \* bound: who may ever dial whom
    Slot,                       \* bound: tasks of a peer for the same other peer
    max_incoming_connections,
    MayCrash,                   \* bound: the peers that crash, once each
    MayErr                      \* bound: the peers whose connection tasks meet errors

\* <<p, q, i>>: a task that p spawned for q, with its connection.
Task == {t \in Peer \X Peer \X Slot : <<t[1], t[2]>> \in Pair}

ASSUME ConstantAssumption ==
    /\ Pair \subseteq {e \in Peer \X Peer : e[1] # e[2]}
    /\ None \notin Slot /\ Dead \notin Slot /\ None # Dead
    /\ max_incoming_connections \in Nat
    /\ MayCrash \subseteq Peer /\ MayErr \subseteq Peer

VARIABLES
    proc,                \* [Peer -> "off", "bound", "up", "down"]
    peers,               \* [Peer -> PeerMap]: whose channel the entry of a name has
    task,                \* [Task -> "none", "spawned", "connect", "open"]
    conn,                \* [Task -> "none", "accept", "serve", "end"]: the far end
    num_incoming_conns,  \* [Peer -> Nat]
    announced,           \* set of <<source, available_incoming>> ever announced
    crashed              \* peers that have crashed (history)

vars == <<proc, peers, task, conn, num_incoming_conns, announced, crashed>>

Init ==
    /\ proc = [p \in Peer |-> "off"]
    /\ peers = [p \in Peer |-> [q \in Peer |-> None]]
    /\ task = [t \in Task |-> "none"]
    /\ conn = [t \in Task |-> "none"]
    /\ num_incoming_conns = [p \in Peer |-> 0]
    /\ announced = {}
    /\ crashed = {}

-----------------------------------------------------------------------------
Idle(t) == task[t] = "none" /\ conn[t] = "none"

\* The entry holds this task's channel; the task of another channel was replaced.
Entered(t) == peers[t[1]][t[2]] = t[3]

contains_peer(p, q) == peers[p][q] # None
is_empty(p) == \A q \in Peer : peers[p][q] = None

\* A process has its address: connections to it succeed, although it accepts none until
\* the tracker has answered.
Bound(p) == proc[p] \in {"bound", "up"}

\* A peer starts, or starts again: it takes its address and registers.
Bind(p) ==
    /\ ~ Bound(p)
    /\ proc' = [proc EXCEPT ![p] = "bound"]
    /\ UNCHANGED <<peers, task, conn, num_incoming_conns, announced, crashed>>

\* It dials those the tracker lists, who have all registered at some time, and listens.
Start(p) ==
    /\ proc[p] = "bound"
    /\ proc' = [proc EXCEPT ![p] = "up"]
    /\ \E D \in SUBSET {t \in Task : t[1] = p /\ proc[t[2]] # "off" /\ Idle(t)} :
          /\ \A t, u \in D : t[2] = u[2] => t = u
          /\ task' = [t \in Task |-> IF t \in D THEN "spawned" ELSE task[t]]
    /\ UNCHANGED <<peers, conn, num_incoming_conns, announced, crashed>>

\* Its tasks, its PeerMap and its ends of all connections are gone.
Crash(p) ==
    /\ Bound(p)
    /\ p \in MayCrash \ crashed
    /\ proc' = [proc EXCEPT ![p] = "down"]
    /\ crashed' = crashed \cup {p}
    /\ peers' = [peers EXCEPT ![p] = [q \in Peer |-> None]]
    /\ task' = [t \in Task |-> IF t[1] = p THEN "none" ELSE task[t]]
    /\ conn' = [t \in Task |-> IF t[2] = p THEN "none" ELSE conn[t]]
    /\ num_incoming_conns' = [num_incoming_conns EXCEPT ![p] = 0]
    /\ UNCHANGED announced

-----------------------------------------------------------------------------
(* connect_to_peer, in the dialling peer.                                   *)

\* insert replaces the entry of the name, and drops the channel that was there.
Insert(t) ==
    /\ task[t] = "spawned"
    /\ peers' = [peers EXCEPT ![t[1]][t[2]] = t[3]]
    /\ task' = [task EXCEPT ![t] = "connect"]
    /\ UNCHANGED <<proc, conn, num_incoming_conns, announced, crashed>>

Connect(t) ==
    /\ task[t] = "connect"
    /\ Bound(t[2])
    /\ task' = [task EXCEPT ![t] = "open"]
    /\ conn' = [conn EXCEPT ![t] = "accept"]
    /\ UNCHANGED <<proc, peers, num_incoming_conns, announced, crashed>>

\* Nobody listens there: start panics, so that the entry is not removed.
Refused(t) ==
    /\ task[t] = "connect"
    /\ ~ Bound(t[2])
    /\ task' = [task EXCEPT ![t] = "none"]
    /\ peers' = IF Entered(t) THEN [peers EXCEPT ![t[1]][t[2]] = Dead] ELSE peers
    /\ UNCHANGED <<proc, conn, num_incoming_conns, announced, crashed>>

\* The far end is gone and a write fails: the entry of the name is removed, whoever's
\* it is by now.  (Mutant: it is left.)
WriteFailsOnly(t) ==
    /\ task[t] = "open"
    /\ conn[t] \in {"none", "end"}
    /\ task' = [task EXCEPT ![t] = "none"]
    /\ UNCHANGED <<proc, peers, conn, num_incoming_conns, announced, crashed>>
WriteFails(t) ==
    /\ task[t] = "open"
    /\ conn[t] \in {"none", "end"}
    /\ task' = [task EXCEPT ![t] = "none"]
    /\ peers' = [peers EXCEPT ![t[1]][t[2]] = None]
    /\ UNCHANGED <<proc, conn, num_incoming_conns, announced, crashed>>

\* Its channel was replaced, or removed: the select has no branch left and panics.
Orphan(t) ==
    /\ task[t] = "open"
    /\ ~ Entered(t)
    /\ task' = [task EXCEPT ![t] = "none"]
    /\ UNCHANGED <<proc, peers, conn, num_incoming_conns, announced, crashed>>

-----------------------------------------------------------------------------
(* listen, in the dialled peer.                                             *)

Accept(t) ==
    /\ conn[t] = "accept"
    /\ proc[t[2]] = "up"
    /\ conn' = [conn EXCEPT ![t] = "serve"]
    /\ num_incoming_conns' = [num_incoming_conns EXCEPT ![t[2]] = @ + 1]
    /\ UNCHANGED <<proc, peers, task, announced, crashed>>

\* handle_connection returns: the other end is closed, or there was an error.
ReadEnd(t) ==
    /\ conn[t] = "serve"
    /\ task[t] = "none"
    /\ conn' = [conn EXCEPT ![t] = "end"]
    /\ UNCHANGED <<proc, peers, task, num_incoming_conns, announced, crashed>>

Error(t) ==
    /\ conn[t] = "serve"
    /\ t[2] \in MayErr
    /\ conn' = [conn EXCEPT ![t] = "end"]
    /\ UNCHANGED <<proc, peers, task, num_incoming_conns, announced, crashed>>

\* (Mutant: the counter is left.)
DoneUncounted(t) ==
    /\ conn[t] = "end"
    /\ conn' = [conn EXCEPT ![t] = "none"]
    /\ UNCHANGED <<proc, peers, task, num_incoming_conns, announced, crashed>>
Done(t) ==
    /\ conn[t] = "end"
    /\ conn' = [conn EXCEPT ![t] = "none"]
    /\ num_incoming_conns' = [num_incoming_conns EXCEPT ![t[2]] = @ - 1]
    /\ UNCHANGED <<proc, peers, task, announced, crashed>>

-----------------------------------------------------------------------------
(* Announcements.                                                           *)

Available(n) == IF n < max_incoming_connections THEN max_incoming_connections - n ELSE 0

\* start_announce, every 5 seconds; with no entry that leads anywhere nobody hears it.
Announce(p) ==
    /\ proc[p] = "up"
    /\ \E q \in Peer : peers[p][q] \in Slot
    /\ announced' = announced \cup {<<p, Available(num_incoming_conns[p])>>}
    /\ UNCHANGED <<proc, peers, task, conn, num_incoming_conns, crashed>>

\* Announce::apply, in the task of connection t: no entry yet, and the roll of
\* available_incoming, or of 10 when the PeerMap is empty, is 0.  The other rolls only
\* pass the announcement on.
Hear(t, a) ==
    LET q == t[2]
    IN  /\ conn[t] = "serve"
        /\ a[1] # q
        /\ ~ contains_peer(q, a[1])
        /\ is_empty(q) \/ a[2] > 0
        /\ \E u \in Task : /\ u[1] = q /\ u[2] = a[1] /\ Idle(u)
                           /\ task' = [task EXCEPT ![u] = "spawned"]
        /\ UNCHANGED <<proc, peers, conn, num_incoming_conns, announced, crashed>>

-----------------------------------------------------------------------------
Dial(t)  == Insert(t) \/ Connect(t) \/ Refused(t) \/ WriteFails(t) \/ Orphan(t)
Serve(t) == Accept(t) \/ ReadEnd(t) \/ Done(t)

Next ==
    \/ \E p \in Peer : Bind(p) \/ Start(p) \/ Crash(p) \/ Announce(p)
    \/ \E t \in Task : Dial(t) \/ Serve(t) \/ Error(t) \/ \E a \in announced : Hear(t, a)

Spec == Init /\ [][Next]_vars

\* Tasks run, and peers announce, which also makes the writes that fail.  A peer hears
\* what is announced over a link from its source again and again, and some time the roll
\* is 0.  Nobody must start, crash or meet an error.
HearSource(t) ==
    LET now == <<t[1], Available(num_incoming_conns[t[1]])>>
    IN  now \in announced /\ Hear(t, now)
Fairness ==
    /\ \A t \in Task : WF_vars(Dial(t)) /\ WF_vars(Serve(t)) /\ SF_vars(HearSource(t))
    /\ \A p \in Peer : WF_vars(Announce(p))

FairSpec == Spec /\ Fairness

-----------------------------------------------------------------------------
(* What must hold.                                                         *)

\* Every variable holds a value of its type.
TypeOK ==
    /\ proc \in [Peer -> {"off", "bound", "up", "down"}]
    /\ peers \in [Peer -> [Peer -> Slot \cup {None, Dead}]]
    /\ task \in [Task -> {"none", "spawned", "connect", "open"}]
    /\ conn \in [Task -> {"none", "accept", "serve", "end"}]
    /\ num_incoming_conns \in [Peer -> Nat]
    /\ announced \in SUBSET (Peer \X Nat)
    /\ crashed \in SUBSET Peer

\* What is broadcast to an entry has somebody to write it: the entry's own task is
\* there, whatever other tasks there were for the name and however they ended.
EntryServed ==
    \A p, q \in Peer : peers[p][q] \in Slot =>
        <<p, q>> \in Pair /\ task[<<p, q, peers[p][q]>>] \in {"connect", "open"}

\* Only an entry of a peer that has crashed is ever dead.
DeadExplained == \A p, q \in Peer : peers[p][q] = Dead => q \in crashed

\* The counter a peer advertises by is the number of connections its tasks serve, or are
\* about to leave.
Incoming(q) == {t \in Task : t[2] = q /\ conn[t] \in {"serve", "end"}}
CountsIncoming ==
    \A q \in Peer : /\ IsFiniteSet(Incoming(q))
                    /\ num_incoming_conns[q] = Cardinality(Incoming(q))

\* "As long as we have at least one outgoing connection, ... we should eventually get at
\* least one incoming connection too."
HasOutgoing(p) == \E t \in Task : t[1] = p /\ task[t] = "open" /\ conn[t] = "serve"
HasIncoming(p) == \E t \in Task : t[2] = p /\ conn[t] = "serve"
GetsIncoming == \A p \in Peer : HasOutgoing(p) ~> HasIncoming(p) \/ ~ HasOutgoing(p)

\* While nobody has crashed a peer does get one: an entry for it that already exists leads
\* to it, and while it has none it announces that it has room.  (The runs give it some.)
ReachedBack ==
    \A p \in Peer : HasOutgoing(p) ~> HasIncoming(p) \/ ~ HasOutgoing(p) \/ crashed # {}

\* Why they hold: only what runs has tasks and connections, a task that has yet to connect
\* has none, and only who has been started is dialled or heard of.
Known ==
    /\ \A t \in Task : task[t] # "none" => proc[t[1]] = "up" /\ proc[t[2]] # "off"
    /\ \A t \in Task : task[t] \in {"spawned", "connect"} => conn[t] = "none"
    /\ \A t \in Task : /\ conn[t] # "none" => Bound(t[2])
                       /\ conn[t] \in {"serve", "end"} => proc[t[2]] = "up"
    /\ \A p \in Peer : proc[p] = "down" => p \in crashed
    /\ \A a \in announced : proc[a[1]] # "off"
IInv == TypeOK /\ Known /\ EntryServed /\ DeadExplained /\ CountsIncoming
=============================================================================
