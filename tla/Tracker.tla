------------------------------- MODULE Tracker -------------------------------
(***************************************************************************)
(* How a peer gets into the network: the tracker of tracker.rs, with the   *)
(* Register command it serves, and the part of Server::start that talks to *)
(* it.                                                                     *)
(*                                                                         *)
(* The tracker runs a task for each connection.  Tasks share known_peers   *)
(* and lock it for one get, set, remove or random_keys_vals at a time, so  *)
(* what a Register does is several steps.  A peer registers once, and its  *)
(* connection lasts until it goes or its registration is refused.          *)
(*                                                                         *)
(* A Proc is one run of the program: it goes for good, and the same name   *)
(* started again is another Proc.  What happens between the peers once     *)
(* they are in is in Relay.                                                *)
(***************************************************************************)
EXTENDS Integers, FiniteSets

CONSTANTS
    Proc,       \* runs of the peer program
    Name,       \* peer names
    Addr,       \* addresses peers listen on
    NameOf,     \* [Proc -> Name]: the --name it runs with
    AddrOf,     \* [Proc -> Addr]: its --host and --port
    NoAddr,     \* the name is not in known_peers
    Fanout      \* how many peers a reply lists: 5

Entry == Name \X Addr

ASSUME RunAssumption ==
    /\ NameOf \in [Proc -> Name] /\ AddrOf \in [Proc -> Addr]
    /\ NoAddr \notin Addr
    /\ IsFiniteSet(Name)
    /\ Fanout \in Nat

VARIABLES
    known_peers,  \* [Name -> Addr \cup {NoAddr}]: the TtlMap, whose entries are untimed
    task,         \* [Proc -> what the tracker's task for its connection is about to do]
    proc,         \* [Proc -> how far Server::start has come]
    reply,        \* [Proc -> what the tracker wrote to it: "none", "error", "peers"]
    peers         \* [Proc -> the entries the reply it read lists]

vars == <<known_peers, task, proc, reply, peers>>

Init ==
    /\ known_peers = [n \in Name |-> NoAddr]
    /\ task = [p \in Proc |-> "none"]
    /\ proc = [p \in Proc |-> "off"]
    /\ reply = [p \in Proc |-> "none"]
    /\ peers = [p \in Proc |-> {}]

Listed == {e \in Entry : known_peers[e[1]] = e[2]}

\* It holds its end of the connection.
Connected(p) == proc[p] \in {"registering", "joined"}

-----------------------------------------------------------------------------
(* The peer.                                                               *)

\* Server::new binds the address, which no other run may hold; start connects and
\* writes Register, and the tracker's task reads it.
Start(p) ==
    /\ proc[p] = "off"
    /\ \A q \in Proc : AddrOf[q] = AddrOf[p] => ~ Connected(q)
    /\ proc' = [proc EXCEPT ![p] = "registering"]
    /\ task' = [task EXCEPT ![p] = "check"]
    /\ UNCHANGED <<known_peers, reply, peers>>

\* The reply parses as a list: the peer connects to all it names but itself.
Join(p) ==
    /\ proc[p] = "registering"
    /\ reply[p] = "peers"
    /\ proc' = [proc EXCEPT ![p] = "joined"]
    /\ UNCHANGED <<known_peers, task, reply, peers>>

\* It does not: start returns the error and drops the connection.
GiveUp(p) ==
    /\ proc[p] = "registering"
    /\ reply[p] = "error"
    /\ proc' = [proc EXCEPT ![p] = "refused"]
    /\ UNCHANGED <<known_peers, task, reply, peers>>

\* The peers it dials: those the reply lists under another name.
Dials(p) == {e \in peers[p] : e[1] # NameOf[p]}

\* It quits or crashes, at any time, and what it knew goes with it.
Go(p) ==
    /\ Connected(p)
    /\ proc' = [proc EXCEPT ![p] = "gone"]
    /\ peers' = [peers EXCEPT ![p] = {}]
    /\ UNCHANGED <<known_peers, task, reply>>

-----------------------------------------------------------------------------
(* The tracker's task for the connection of p.                             *)

\* get: is the name known?  (Mutant: a new name is answered and not set.)
CheckOnly(p) ==
    /\ task[p] = "check"
    /\ task' = [task EXCEPT ![p] = IF known_peers[NameOf[p]] \in {NoAddr, AddrOf[p]}
                                   THEN "list" ELSE "refuse"]
    /\ UNCHANGED <<known_peers, proc, reply, peers>>
Check(p) ==
    /\ task[p] = "check"
    /\ task' = [task EXCEPT ![p] =
                  IF known_peers[NameOf[p]] = NoAddr THEN "set"
                  ELSE IF known_peers[NameOf[p]] = AddrOf[p] THEN "list"
                  ELSE "refuse"]
    /\ UNCHANGED <<known_peers, proc, reply, peers>>

\* set, whatever has become of the name since.
Set(p) ==
    /\ task[p] = "set"
    /\ known_peers' = [known_peers EXCEPT ![NameOf[p]] = AddrOf[p]]
    /\ task' = [task EXCEPT ![p] = "list"]
    /\ UNCHANGED <<proc, reply, peers>>

\* random_keys_vals: n of the entries, or all when there are not as many.  (Mutant: one
\* too few.)
OneShort(S) == {T \in SUBSET S : /\ Cardinality(T) < Fanout
                                 /\ Cardinality(T) = Fanout - 1 \/ T = S}
Choices(S) == {T \in SUBSET S : /\ Cardinality(T) <= Fanout
                                /\ Cardinality(T) = Fanout \/ T = S}

\* The list is written, and read by a peer that is still there.
List(p) ==
    /\ task[p] = "list"
    /\ \E T \in Choices(Listed) :
          peers' = [peers EXCEPT ![p] = IF Connected(p) THEN T ELSE {}]
    /\ reply' = [reply EXCEPT ![p] = "peers"]
    /\ task' = [task EXCEPT ![p] = "serve"]
    /\ UNCHANGED <<known_peers, proc>>

\* The name belongs to another address.  (Mutant: the connection is left unanswered.)
RefuseSilently(p) ==
    /\ task[p] = "refuse"
    /\ task' = [task EXCEPT ![p] = "serve"]
    /\ UNCHANGED <<known_peers, proc, reply, peers>>
Refuse(p) ==
    /\ task[p] = "refuse"
    /\ reply' = [reply EXCEPT ![p] = "error"]
    /\ task' = [task EXCEPT ![p] = "serve"]
    /\ UNCHANGED <<known_peers, proc, peers>>

\* Either write fails, which it may once the peer is gone: handle_connection returns the
\* error and its task panics on it.
WriteFails(p) ==
    /\ task[p] \in {"list", "refuse"}
    /\ ~ Connected(p)
    /\ task' = [task EXCEPT ![p] = "panicked"]
    /\ UNCHANGED <<known_peers, proc, reply, peers>>

\* The connection ends: the name that it registered first is removed, even if
\* its registration was refused.  (Mutant: the entry is left.)
JustEnd(p) ==
    /\ task[p] = "serve"
    /\ ~ Connected(p)
    /\ task' = [task EXCEPT ![p] = "done"]
    /\ UNCHANGED <<known_peers, proc, reply, peers>>
End(p) ==
    /\ task[p] = "serve"
    /\ ~ Connected(p)
    /\ known_peers' = [known_peers EXCEPT ![NameOf[p]] = NoAddr]
    /\ task' = [task EXCEPT ![p] = "done"]
    /\ UNCHANGED <<proc, reply, peers>>

HandleConnection(p) ==
    Check(p) \/ Set(p) \/ List(p) \/ Refuse(p) \/ WriteFails(p) \/ End(p)

-----------------------------------------------------------------------------
Next == \E p \in Proc : Start(p) \/ Join(p) \/ GiveUp(p) \/ Go(p) \/ HandleConnection(p)

Spec == Init /\ [][Next]_vars

\* Tasks run, and a peer reads the reply it awaits; nobody has to start or to go.
Fairness == \A p \in Proc : WF_vars(HandleConnection(p)) /\ WF_vars(Join(p) \/ GiveUp(p))

FairSpec == Spec /\ Fairness

-----------------------------------------------------------------------------
(* What must hold.                                                         *)

TaskState == {"none", "check", "set", "list", "refuse", "serve", "done", "panicked"}
ProcState == {"off", "registering", "joined", "refused", "gone"}

\* Every variable holds a value of its type.
TypeOK ==
    /\ known_peers \in [Name -> Addr \cup {NoAddr}]
    /\ task \in [Proc -> TaskState]
    /\ proc \in [Proc -> ProcState]
    /\ reply \in [Proc -> {"none", "error", "peers"}]
    /\ peers \in [Proc -> SUBSET Entry]

\* No entry outlives its reason: whatever names collide, and whoever is refused,
\* restarted or gone, an entry in the map was put there by a connection that has yet to
\* end, and will remove it, unless its task has panicked.
EntryHeld ==
    \A n \in Name : known_peers[n] # NoAddr =>
        \E p \in Proc : /\ NameOf[p] = n /\ AddrOf[p] = known_peers[n]
                        /\ task[p] \in {"list", "refuse", "serve", "panicked"}

\* Nobody else has been started under its name so far.
Alone(p) == \A q \in Proc : NameOf[q] = NameOf[p] => q = p \/ proc[q] = "off"

\* Whoever else fights over other names, a peer that is in the network under a name that
\* nobody else has claimed is listed with its own address, so that those who come after it
\* can find it.
JoinedListed ==
    \A p \in Proc : Alone(p) /\ proc[p] = "joined" => known_peers[NameOf[p]] = AddrOf[p]

\* Of two such peers one dials the other, whatever the order in which the tracker served
\* them: none of them is missed by the others.  Holds when a reply has room for all.
Reaches(p, q) == <<NameOf[q], AddrOf[q]>> \in Dials(p)
Bootstraps ==
    \A p, q \in Proc :
        /\ p # q
        /\ Alone(p) /\ proc[p] = "joined"
        /\ Alone(q) /\ proc[q] = "joined"
        => Reaches(p, q) \/ Reaches(q, p)

\* Why they hold.  A run that has not started has left nothing behind; one that is alone
\* with its name is not refused, and when it is connected and has been answered, or is
\* about to be, it is in the map.
Fresh == \A p \in Proc : proc[p] = "off" => task[p] = "none" /\ reply[p] = "none"
NoneRefused == \A p \in Proc : Alone(p) => task[p] # "refuse"
Held(p) == task[p] = "list" \/ (task[p] = "serve" /\ Connected(p))
HeldListed == \A p \in Proc : Alone(p) /\ Held(p) => known_peers[NameOf[p]] = AddrOf[p]
ServedOnce ==
    \A p \in Proc : Alone(p) /\ Connected(p) /\ (reply[p] # "none" \/ proc[p] = "joined")
                      => task[p] = "serve" /\ reply[p] = "peers"
ServedReach ==
    \A p, q \in Proc :
        /\ p # q
        /\ Alone(p) /\ task[p] = "serve" /\ Connected(p)
        /\ Alone(q) /\ task[q] = "serve" /\ Connected(q)
        => Reaches(p, q) \/ Reaches(q, p)

IInv == TypeOK /\ Fresh /\ EntryHeld
DInv == IInv /\ NoneRefused /\ HeldListed /\ ServedOnce
BInv == DInv /\ ServedReach

\* The name of a peer in the network is in the map.
StaysKnown == \A p \in Proc : proc[p] = "joined" => known_peers[NameOf[p]] # NoAddr

\* A registration is answered, accepted or not, unless the peer goes.
Answered == \A p \in Proc : proc[p] = "registering" ~> proc[p] # "registering"

\* Once a peer that is alone with its name and had its reply is gone, so is its entry, until
\* somebody else starts under that name.
LeaversForgotten ==
    \A p \in Proc : (Alone(p) /\ proc[p] = "gone" /\ reply[p] # "none")
                      ~> [](Alone(p) => known_peers[NameOf[p]] = NoAddr)
=============================================================================
