-------------------------------- MODULE Restart --------------------------------
(***************************************************************************)
(* Relay with peers that crash, or are quit, and are started again: a new   *)
(* Server numbers its commands from 0, knows none of those it has           *)
(* processed, and has new connections.  The others go on, and remember the  *)
(* numbers of the run before for as long as their entries last.             *)
(*                                                                         *)
(* The connections are there again at once; how peers find each other anew  *)
(* is Links and Tracker.  A connection's far end is done with what it had   *)
(* read before it takes a frame of the next run.                            *)
(***************************************************************************)
EXTENDS Relay

CONSTANT MaxRestarts    \* bound: restarts in a behaviour

ASSUME RestartAssumption == MaxRestarts \in Nat

VARIABLES
    restarts,    \* used up of MaxRestarts
    before       \* the commands issued before the last restart (history)

restartVars == <<vars, restarts, before>>

RestartInit == Init /\ restarts = 0 /\ before = {}

\* The far end of a connection p has opened goes on with what has reached it, n frames,
\* unless it has dropped the connection or is stuck writing to it: then p dials anew.
Cut(l, n) == IF task[l].pc \in {"back", "closed"} THEN <<>> ELSE SubSeq(wire[l], 1, n)

Left(l) == IF task[l].pc \in {"back", "closed"} THEN Idle ELSE task[l]

Longest == CHOOSE n \in {Len(wire[l]) : l \in Link} : \A l \in Link : Len(wire[l]) <= n

\* Server::new: the numbers begin again, the first going to Register, and no command is
\* known.
Restart(p) ==
    LET out == {l \in Link : l[1] = p}
        in  == {l \in Link : l[2] = p}
    IN  /\ restarts < MaxRestarts
        /\ restarts' = restarts + 1
        /\ before' = issued
        /\ sequence_numbers' = [sequence_numbers EXCEPT ![p] = 1]
        /\ processed_commands' = [processed_commands EXCEPT ![p] = {}]
        /\ peers' = [q \in Peer |-> IF q = p THEN {r \in Peer : <<p, r>> \in Link}
                                    ELSE peers[q] \cup {r \in {p} : <<q, p>> \in Link}]
        /\ \E n \in [out -> 0..Longest] :
              /\ \A l \in out : n[l] <= Len(wire[l])
              /\ wire' = [l \in Link |-> CASE l \in in  -> <<>>
                                           [] l \in out -> Cut(l, n[l])
                                           [] OTHER     -> wire[l]]
        /\ task' = [l \in Link |-> CASE l \in in  -> Idle
                                     [] l \in out -> Left(l)
                                     [] OTHER     -> task[l]]
        /\ backlog' = [l \in Link |-> IF l \in in \cup out THEN 0 ELSE backlog[l]]
        /\ UNCHANGED <<client_tx, taken, issued, asks, expiries>>

RestartNext == \/ Next /\ UNCHANGED <<restarts, before>>
               \/ \E p \in Peer : Restart(p)

RestartSpec == RestartInit /\ [][RestartNext]_restartVars

\* As in Relay.
RestartFairSpec ==
    /\ RestartSpec
    /\ \A l \in Link : WF_restartVars(HandleConnection(l) /\ UNCHANGED <<restarts, before>>)

-----------------------------------------------------------------------------
(* What must hold.                                                         *)

\* A peer skips a command it has not taken only for one that the same source made under
\* the same number in another run.
SwallowedForOlder ==
    \A l \in Link : wire[l] # <<>> =>
        LET f == Head(wire[l])
        IN  f # Text /\ CheckDuplicate(l[2], f) /\ f \notin taken[l[2]]
              => \E g \in taken[l[2]] : /\ g # f /\ g.source = f.source /\ g.seq = f.seq
                                       /\ restarts > 0

\* A restart, which forgets what was processed, and an entry that expires each show a user
\* at most as much again of a message as its incoming connections do anyway: once each.
RepeatsBounded ==
    \A q \in Peer : \A f \in issued :
        Cardinality(Places(client_tx[q], f)) <= Cardinality(Into(q)) * (1 + expiries + restarts)

\* A restart costs a user no more than the numbers of the run before: what is said, or
\* broadcast, after the last restart under a number that was not given before is
\* eventually shown to every user the links lead to.
New(s, n) == \E f \in issued \ before : Is(f, s, n) /\ f.kind \in Open
Given(s, n) == \E f \in before : Is(f, s, n)

Speakers == {r.source : r \in {x \in Request : x.kind \in Open}}

HeardAgain ==
    \A s \in Speakers : \A n \in Number : \A q \in Reach(s) :
        (restarts = MaxRestarts /\ New(s, n) /\ ~ Given(s, n)) ~> Shown(q, s, n)

-----------------------------------------------------------------------------
(* Why it holds: the part of Relay's invariant that has nothing to do with  *)
(* numbers outlives a restart, and until the first one the numbers tell any *)
(* two commands apart.                                                      *)
RestartInv ==
    /\ TypeOK /\ Accounted
    /\ restarts \in Nat
    /\ restarts = 0 => NumbersBelow /\ NumbersIdentify
=============================================================================
