-------------------------------- MODULE Relay --------------------------------
(***************************************************************************)
(* How the peers of bing2bing pass commands on (server.rs, cmd.rs, cmd/,   *)
(* peer.rs, peer_map.rs), over links that are already established.  A link *)
(* <<p, q>> is a connection p opened: p's PeerMap has an entry for q, a    *)
(* Peer task writes p's frames to it, and a task of q's server runs        *)
(* handle_connection on it.  Commands flow from p to q only.               *)
(*                                                                         *)
(* One action per step another task can get in between of: the look-up of  *)
(* processed_commands, the marking, the effect of the command, the write   *)
(* of a whisper, the end of an entry's 30 seconds, a failed write.         *)
(***************************************************************************)
EXTENDS Integers, Sequences, FiniteSets

CONSTANTS
    Peer,          \* the peers, by name
    NoPeer,        \* the destination of a command that has none
    Link,          \* the established connections, as pairs <<from, to>>
    Body,          \* what a command carries: a text, bytes, a time
    Request,       \* what the users may ask for, a set of Requests
    Matches,       \* <<id, body>>: the body passes the filter of extension id
    MaxAsks,       \* bound: user requests in a behaviour
    MaxExpiries,   \* bound: processed_commands entries that outlive their TTL
    BackCap,       \* frames a connection buffers towards the peer that opened it
    DiskMayFail    \* TRUE when opening or writing an extension's log may fail

Open     == {"say", "broadcast"}
Directed == {"ping", "pong", "deliver", "whisper"}
Kind     == Open \cup Directed \cup {"extension"}

\* What a client can ask its server (client.rs); a pong is never asked for.
Requests == [kind : Kind \ {"pong"}, source : Peer, dest : Peer \cup {NoPeer},
             ext : Nat, body : Body]

Command == [kind : Kind, source : Peer, seq : Nat, dest : Peer \cup {NoPeer},
            ext : Nat, body : Body]

\* A bare Bing2BingFrame::Text, which no receiver can parse as a command.
Text  == [kind |-> "text"]
Frame == Command \cup {Text}

ASSUME LinkAssumption ==
    /\ NoPeer \notin Peer
    /\ Link \subseteq {l \in Peer \X Peer : l[1] # l[2]}

ASSUME InputAssumption == Request \subseteq Requests

ASSUME BoundAssumption ==
    /\ MaxAsks \in Nat /\ MaxExpiries \in Nat /\ BackCap \in Nat
    /\ DiskMayFail \in BOOLEAN

VARIABLES
    sequence_numbers,    \* [Peer -> Nat] the number a peer's generator gives next
    peers,               \* [Peer -> SUBSET Peer] the entries of a peer's PeerMap
    wire,                \* [Link -> Seq(Frame)] a Peer task's channel and its TCP stream
    task,                \* [Link -> pc and command of handle_connection at the far end]
    backlog,             \* [Link -> Nat] frames written back to the opener, which reads none
    processed_commands,  \* [Peer -> set of keys] the TtlMap shared by a peer's tasks
    client_tx,           \* [Peer -> Seq(Command)] what its user has been shown (history)
    taken,               \* [Peer -> SUBSET Command] what it has marked processed (history)
    issued,              \* SUBSET Command: every command any peer has made (history)
    asks, expiries       \* used up of MaxAsks and MaxExpiries

vars == <<sequence_numbers, peers, wire, task, backlog, processed_commands,
          client_tx, taken, issued, asks, expiries>>

Idle == [pc |-> "read", cmd |-> Text]

\* A server's first number, 0, went to its Register command.
Init ==
    /\ sequence_numbers = [p \in Peer |-> 1]
    /\ peers = [p \in Peer |-> {q \in Peer : <<p, q>> \in Link}]
    /\ wire = [l \in Link |-> <<>>]
    /\ task = [l \in Link |-> Idle]
    /\ backlog = [l \in Link |-> 0]
    /\ processed_commands = [p \in Peer |-> {}]
    /\ client_tx = [p \in Peer |-> <<>>]
    /\ taken = [p \in Peer |-> {}]
    /\ issued = {}
    /\ asks = 0
    /\ expiries = 0

-----------------------------------------------------------------------------
(* The pieces the actions are made of.                                     *)

\* The "source-number" string processed_commands is indexed by.  (Mutant: the source
\* left out.)
KeyByNumber(f) == <<NoPeer, f.seq>>
Key(f) == <<f.source, f.seq>>

\* (Mutant: nothing is ever found.)
NeverDuplicate(q, f) == FALSE
CheckDuplicate(q, f) == Key(f) \in processed_commands[q]

\* PeerMap::broadcast: a copy to every entry but the one named sender.  (Mutants: the
\* sender gets one too; a stack in place of the queue.)
BroadcastToAll(p, sender, f) ==
    wire' = [l \in Link |-> IF l[1] = p /\ l[2] \in peers[p]
                            THEN Append(wire[l], f) ELSE wire[l]]
BroadcastInFront(p, sender, f) ==
    wire' = [l \in Link |-> IF l[1] = p /\ l[2] \in peers[p] \ {sender}
                            THEN <<f>> \o wire[l] ELSE wire[l]]
Broadcast(p, sender, f) ==
    wire' = [l \in Link |-> IF l[1] = p /\ l[2] \in peers[p] \ {sender}
                            THEN Append(wire[l], f) ELSE wire[l]]

\* A new command of p takes p's next number.  (Mutant: the counter is read only.)
KeepNumber(p) == UNCHANGED sequence_numbers
NextNumber(p) == sequence_numbers' = [sequence_numbers EXCEPT ![p] = @ + 1]

Stamp(r, n) == [kind |-> r.kind, source |-> r.source, seq |-> n, dest |-> r.dest,
                ext |-> r.ext, body |-> r.body]

\* The answer of q to the ping f.  (Mutant: it goes out under the ping's number.)
PongReusing(f, q) == [kind |-> "pong", source |-> q, seq |-> f.seq, dest |-> f.source,
                      ext |-> 0, body |-> f.body]
PongFor(f, q) == [kind |-> "pong", source |-> q, seq |-> sequence_numbers[q],
                  dest |-> f.source, ext |-> 0, body |-> f.body]

\* Is q the destination?  (Mutants: not asked; the wrong name compared.)
AnyAddressee(q, f) == TRUE
SourceAddressee(q, f) == f.source = q
Addressed(q, f) == f.dest = q

Show(q, f) == client_tx' = [client_tx EXCEPT ![q] = Append(@, f)]

\* handle_connection returns to read_frame.
Resume(l) == task' = [task EXCEPT ![l] = Idle]

\* handle_connection returned an error: the connection is dropped.
Close(l) == task' = [task EXCEPT ![l] = [pc |-> "closed", cmd |-> Text]]

\* What is left alone while the task of link l applies its command.
Applying(l, kinds) ==
    /\ task[l].pc = "apply"
    /\ task[l].cmd.kind \in kinds
    /\ UNCHANGED <<peers, backlog, processed_commands, taken, asks, expiries>>

-----------------------------------------------------------------------------
(* The user's side: client_message_handler takes a request of the client,  *)
(* numbers it and broadcasts it to every outgoing link.                     *)

ClientMessage(r) ==
    LET f == Stamp(r, sequence_numbers[r.source])
    IN  /\ asks < MaxAsks
        /\ asks' = asks + 1
        /\ NextNumber(r.source)
        /\ issued' = issued \cup {f}
        /\ Broadcast(r.source, r.source, f)
        /\ UNCHANGED <<peers, task, backlog, processed_commands, client_tx, taken,
                       expiries>>

-----------------------------------------------------------------------------
(* handle_connection, at the far end of link l = <<p, q>>.                  *)

\* Reads a frame.  One that is no command ends the connection; a command whose
\* key is found is skipped; for any other one the task goes on to mark it.
ReadFrame(l) ==
    LET f == Head(wire[l])
    IN  /\ task[l].pc = "read"
        /\ wire[l] # <<>>
        /\ wire' = [wire EXCEPT ![l] = Tail(@)]
        /\ \/ f = Text /\ Close(l)
           \/ f # Text /\ CheckDuplicate(l[2], f) /\ Resume(l)
           \/ /\ f # Text /\ ~ CheckDuplicate(l[2], f)
              /\ task' = [task EXCEPT ![l] = [pc |-> "mark", cmd |-> f]]
        /\ UNCHANGED <<sequence_numbers, peers, backlog, processed_commands,
                       client_tx, taken, issued, asks, expiries>>

\* set_processed takes the lock a second time: other tasks ran in between.
SetProcessed(l) ==
    LET f == task[l].cmd
    IN  /\ task[l].pc = "mark"
        /\ processed_commands' = [processed_commands EXCEPT ![l[2]] = @ \cup {Key(f)}]
        /\ taken' = [taken EXCEPT ![l[2]] = @ \cup {f}]
        /\ task' = [task EXCEPT ![l].pc = "apply"]
        /\ UNCHANGED <<sequence_numbers, peers, wire, backlog, client_tx, issued, asks,
                       expiries>>

\* Say and Broadcast are shown and passed on by every peer.
ApplyOpen(l) ==
    LET f == task[l].cmd
    IN  /\ Applying(l, Open)
        /\ Show(l[2], f)
        /\ Broadcast(l[2], f.source, f)
        /\ Resume(l)
        /\ UNCHANGED <<sequence_numbers, issued>>

\* Pong and Deliver are shown by their destination and passed on by the others.
ApplyDirected(l) ==
    LET f == task[l].cmd
    IN  /\ Applying(l, {"pong", "deliver"})
        /\ \/ Addressed(l[2], f) /\ Show(l[2], f) /\ UNCHANGED wire
           \/ ~ Addressed(l[2], f) /\ Broadcast(l[2], f.source, f) /\ UNCHANGED client_tx
        /\ Resume(l)
        /\ UNCHANGED <<sequence_numbers, issued>>

\* The destination of a ping answers with a pong numbered by itself.
ApplyPing(l) ==
    LET f == task[l].cmd
        q == l[2]
    IN  /\ Applying(l, {"ping"})
        /\ \/ /\ Addressed(q, f)
              /\ NextNumber(q)
              /\ issued' = issued \cup {PongFor(f, q)}
              /\ Broadcast(q, q, PongFor(f, q))
           \/ /\ ~ Addressed(q, f)
              /\ Broadcast(q, f.source, f)
              /\ UNCHANGED <<sequence_numbers, issued>>
        /\ Resume(l)
        /\ UNCHANGED client_tx

\* A whisper for someone else is not passed on to q's peers: when adjacency_list
\* has an announcement of the destination (known), q writes it to the connection
\* it came from.
ApplyWhisper(l) ==
    LET f == task[l].cmd
    IN  /\ Applying(l, {"whisper"})
        /\ \/ Addressed(l[2], f) /\ Show(l[2], f) /\ Resume(l)
           \/ /\ ~ Addressed(l[2], f)
              /\ \E known \in BOOLEAN :
                    \/ known /\ task' = [task EXCEPT ![l].pc = "back"]
                    \/ ~ known /\ Resume(l)
              /\ UNCHANGED client_tx
        /\ UNCHANGED <<sequence_numbers, wire, issued>>

\* The write completes only while there is room, for the Peer task at the other
\* end never reads; the task of link l waits here and reads nothing else.
\* (Mutant: as if the buffer had no end.)
WriteBackAlways(l) ==
    /\ task[l].pc = "back"
    /\ backlog' = [backlog EXCEPT ![l] = @ + 1]
    /\ Resume(l)
    /\ UNCHANGED <<sequence_numbers, peers, wire, processed_commands, client_tx, taken,
                   issued, asks, expiries>>
WriteBack(l) ==
    /\ task[l].pc = "back"
    /\ backlog[l] < BackCap
    /\ backlog' = [backlog EXCEPT ![l] = @ + 1]
    /\ Resume(l)
    /\ UNCHANGED <<sequence_numbers, peers, wire, processed_commands, client_tx, taken,
                   issued, asks, expiries>>

\* The extensions that broadcast a Text frame, log to a file, pass themselves on.
Passes(f)   == <<f.ext, f.body>> \in Matches
Echoes(f)   == f.ext = 4 \/ (f.ext \in {2, 5} /\ Passes(f))
Logs(f)     == f.ext \in {1, 3, 4} \/ (f.ext \in {2, 5, 6} /\ Passes(f))
Forwards(f) == f.ext \notin 2..6

\* An extension whose number equals the receiver's next one is shown and stops
\* there; comparing uses the receiver's number up.  Any other one runs: 1 logs
\* before it forwards, 2, 4 and 5 log after they broadcast, and a failed log is an
\* error of the command.
ApplyExtension(l) ==
    LET f == task[l].cmd
        q == l[2]
    IN  /\ Applying(l, {"extension"})
        /\ NextNumber(q)
        /\ \/ /\ f.seq = sequence_numbers[q]
              /\ Show(q, f)
              /\ Resume(l)
              /\ UNCHANGED wire
           \/ /\ f.seq # sequence_numbers[q]
              /\ \E failed \in {b \in BOOLEAN : b => Logs(f) /\ DiskMayFail} :
                    /\ \/ Echoes(f) /\ Broadcast(q, f.source, Text)
                       \/ Forwards(f) /\ ~ failed /\ Broadcast(q, f.source, f)
                       \/ ~ Echoes(f) /\ ~ (Forwards(f) /\ ~ failed) /\ UNCHANGED wire
                    /\ IF failed THEN Close(l) ELSE Resume(l)
              /\ UNCHANGED client_tx
        /\ UNCHANGED issued

-----------------------------------------------------------------------------
(* The Peer task that writes to a connection the far end has dropped: TCP   *)
(* may accept the write and lose it, or fail it.  A failure ends the task,  *)
(* connect_to_peer removes the entry, and the channel goes with it.         *)

WriteLost(l) ==
    /\ task[l].pc = "closed"
    /\ wire[l] # <<>>
    /\ wire' = [wire EXCEPT ![l] = Tail(@)]
    /\ UNCHANGED <<sequence_numbers, peers, task, backlog, processed_commands, client_tx,
                   taken, issued, asks, expiries>>

WriteFails(l) ==
    /\ task[l].pc = "closed"
    /\ wire[l] # <<>>
    /\ peers' = [peers EXCEPT ![l[1]] = @ \ {l[2]}]
    /\ wire' = [wire EXCEPT ![l] = <<>>]
    /\ UNCHANGED <<sequence_numbers, task, backlog, processed_commands, client_tx, taken,
                   issued, asks, expiries>>

\* TtlMap purges an entry 30 seconds after it was set, whatever is still in flight.
Expire(q) ==
    /\ expiries < MaxExpiries
    /\ \E k \in processed_commands[q] :
          processed_commands' = [processed_commands EXCEPT ![q] = @ \ {k}]
    /\ expiries' = expiries + 1
    /\ UNCHANGED <<sequence_numbers, peers, wire, task, backlog, client_tx, taken, issued,
                   asks>>

-----------------------------------------------------------------------------
Apply(l) == \/ ApplyOpen(l) \/ ApplyDirected(l) \/ ApplyPing(l)
            \/ ApplyWhisper(l) \/ ApplyExtension(l)

\* Everything the task of link l does on its own.
HandleConnection(l) == ReadFrame(l) \/ SetProcessed(l) \/ Apply(l) \/ WriteBack(l)

Next ==
    \/ \E r \in Request : ClientMessage(r)
    \/ \E l \in Link : HandleConnection(l) \/ WriteLost(l) \/ WriteFails(l)
    \/ \E q \in Peer : Expire(q)

Spec == Init /\ [][Next]_vars

\* The runtime keeps polling every connection task that can make progress; users
\* owe no requests and a TTL need not pass.
Fairness == \A l \in Link : WF_vars(HandleConnection(l))

FairSpec == Spec /\ Fairness
-----------------------------------------------------------------------------
(* What must hold.                                                         *)

\* A connection task holds a command from when it took it until it is done with it.
TaskOK ==
    /\ task \in [Link -> [pc : {"read", "mark", "apply", "back", "closed"}, cmd : Frame]]
    /\ \A l \in Link : task[l].pc \in {"mark", "apply", "back"} => task[l].cmd # Text

\* Every variable holds a value of its type.
TypeOK ==
    /\ sequence_numbers \in [Peer -> Nat]
    /\ peers \in [Peer -> SUBSET Peer]
    /\ wire \in [Link -> Seq(Frame)]
    /\ TaskOK
    /\ backlog \in [Link -> 0..BackCap]
    /\ processed_commands \in [Peer -> SUBSET (Peer \X Nat)]
    /\ client_tx \in [Peer -> Seq(Command)]
    /\ taken \in [Peer -> SUBSET Command]
    /\ issued \in SUBSET Command
    /\ asks \in 0..MaxAsks
    /\ expiries \in 0..MaxExpiries

\* The key of a command names it: no peer ever makes two commands with one number,
\* although its client handler, the pongs its connection tasks answer with and the
\* numbers its tasks use up on extensions all draw on one generator.
NumbersIdentify == \A f, g \in issued : Key(f) = Key(g) => f = g

\* A command is only ever skipped as a duplicate by a peer that has taken that very
\* command before (check_duplicate knows keys, not commands).
NothingSwallowed ==
    \A l \in Link : wire[l] # <<>> =>
        LET f == Head(wire[l])
        IN  f # Text /\ CheckDuplicate(l[2], f) => f \in taken[l[2]]

\* Users see what others really sent, and of directed commands only those that
\* name them; nobody is shown an own command, however it travels round.
ShownToTheRight ==
    \A q \in Peer : \A i \in 1..Len(client_tx[q]) :
        LET f == client_tx[q][i]
        IN  f \in issued /\ f.source # q /\ (f.kind \in Directed => f.dest = q)

\* A pong a user is shown answers a ping this user sent to that peer, and carries
\* its time: a latency is never computed from another ping's time.
PongAnswersPing ==
    \A q \in Peer : \A i \in 1..Len(client_tx[q]) :
        LET f == client_tx[q][i]
        IN  f.kind = "pong" =>
              \E g \in issued : /\ g.kind = "ping" /\ g.source = q
                               /\ g.dest = f.source /\ g.body = f.body

\* The look-up and the marking are two steps, so connection tasks of one peer may
\* take a command each; but one connection never takes it twice while its entry
\* lasts, so a user is shown it at most once per incoming connection, and as often
\* again for every entry that has expired.
Into(q) == {l \in Link : l[2] = q}
Places(s, f) == {i \in 1..Len(s) : s[i] = f}
DuplicatesBounded ==
    \A q \in Peer : \A f \in issued :
        Cardinality(Places(client_tx[q], f)) <= Cardinality(Into(q)) * (1 + expiries)

\* A peer's incoming connection is only ever dropped on account of an extension some
\* other peer sent: one that echoes, or one whose log could not be written.  No
\* user can cut off connections into the own peer.
Blamed(q) ==
    \E f \in issued : /\ f.kind = "extension" /\ f.source # q
                      /\ Echoes(f) \/ (Logs(f) /\ DiskMayFail)
DropsExplained == \A l \in Link : task[l].pc = "closed" => Blamed(l[2])

\* To each peer leads one path from s: there is one connection, from up, over which it can
\* hear s first, and any other comes from a peer that hears s through it.
Hears(s, up) ==
    \A l \in Link : \/ l[2] = s \/ up[l[2]] = l[1]
                    \/ l[1] # s /\ up[l[1]] = l[2]
OnePath == \A s \in Peer : \E up \in [Peer -> Peer] : Hears(s, up)

\* Where there is one path, a user first sees what a sender said, or broadcast, in the
\* order it was sent: one shown after a later one has been shown before.
InOrder ==
    \A q \in Peer : \A i, j \in 1..Len(client_tx[q]) :
        LET f == client_tx[q][i]
            g == client_tx[q][j]
        IN  /\ i < j
            /\ f.source = g.source /\ {f.kind, g.kind} \subseteq Open
            /\ f.seq > g.seq
            => \E h \in 1..i : client_tx[q][h] = g

\* The peers a flood of s gets to.
Reach(s) ==
    LET R[n \in 0..Cardinality(Peer)] ==
          IF n = 0 THEN {s}
          ELSE R[n-1] \cup {q \in Peer : \E p \in R[n-1] : <<p, q>> \in Link}
    IN  R[Cardinality(Peer)] \ {s}

Number == 1..(2 * MaxAsks)
Is(f, s, n) == f.source = s /\ f.seq = n
Sent(s, n, kinds) == \E f \in issued : Is(f, s, n) /\ f.kind \in kinds
SentTo(s, n, kind, d) == \E f \in issued : Is(f, s, n) /\ f.kind = kind /\ f.dest = d
Shown(q, s, n) == \E i \in 1..Len(client_tx[q]) : Is(client_tx[q][i], s, n)

\* What a user says, or broadcasts, is eventually shown to every user the links
\* lead to.
SayReaches ==
    \A s \in Peer : \A n \in Number : \A q \in Reach(s) :
        Sent(s, n, Open) ~> Shown(q, s, n)

\* A delivery to a peer the links lead to is eventually shown there.
DeliverReaches ==
    \A s \in Peer : \A n \in Number : \A q \in Reach(s) :
        SentTo(s, n, "deliver", q) ~> Shown(q, s, n)

\* A ping between peers that reach each other is eventually answered: the sender is
\* shown a pong of the peer it pinged with the time it sent.
PingAnswered ==
    \A s \in Peer : \A n \in Number : \A q \in {p \in Reach(s) : s \in Reach(p)} :
        SentTo(s, n, "ping", q) ~>
          \E f \in issued : \E i \in 1..Len(client_tx[s]) :
              /\ Is(f, s, n)
              /\ client_tx[s][i].kind = "pong"
              /\ client_tx[s][i].source = q /\ client_tx[s][i].body = f.body

\* A whisper to a peer its sender has a link to is eventually shown there.  (One for a peer
\* further away is written back to where it came from.)
WhisperNextDoor ==
    \A s \in Peer : \A n \in Number : \A q \in {p \in Peer : <<s, p>> \in Link} :
        SentTo(s, n, "whisper", q) ~> Shown(q, s, n)

\* check_duplicate keeps floods from going round for ever: with finitely many commands
\* asked for, every connection task eventually has nothing left to do, but for those
\* that wait to write a whisper back.
Wedged(l) == task[l].pc = "back" /\ backlog[l] = BackCap
FloodEnds == <>[](\A l \in Link : (wire[l] = <<>> /\ task[l] = Idle) \/ Wedged(l))

\* Relay implements the network its users may count on (Chat).
Network == INSTANCE Chat WITH made <- issued, shown <- client_tx
ImplementsChat == Network!Spec

-----------------------------------------------------------------------------
(* Why it holds: the invariant that every step preserves.                  *)

\* Numbers already given are below the next one.
NumbersBelow == \A f \in issued : f.seq < sequence_numbers[f.source]

\* A command on its way over link l was really made, and not by the peer at its end; a
\* Text frame stems from an extension.
MayCarry(l, f) == f # Text => f \in issued /\ f.source # l[2]

MayQueue(l, f) == MayCarry(l, f) /\ (f = Text => Blamed(l[2]))

WireCarries == \A l \in Link : \A i \in 1..Len(wire[l]) : MayQueue(l, wire[l][i])
TaskCarries == \A l \in Link : MayCarry(l, task[l].cmd)

\* A key found in processed_commands was put there for a command that was taken.
MarkedTaken ==
    \A q \in Peer : /\ taken[q] \subseteq issued
                    /\ \A k \in processed_commands[q] : \E f \in taken[q] : Key(f) = k

\* Every pong was made in answer to a ping.
PongsAnswer ==
    \A f \in issued : f.kind = "pong" => \E g \in issued : Network!Answers(f, g)

\* What every connection, task and user has is made, taken and shown for a reason, whatever
\* the numbers of the commands.
Accounted == /\ WireCarries /\ TaskCarries /\ MarkedTaken
             /\ ShownToTheRight /\ PongsAnswer /\ DropsExplained

IInv == TypeOK /\ Accounted /\ NumbersBelow /\ NumbersIdentify

\* Why duplicates are bounded: while f is marked at q, each showing to come is of a task that
\* holds it already; while it is not, only those past the marking count, which the marks lost
\* so far, n of them, have paid for.
Holding(q, f, pcs) == {l \in Into(q) : task[l].pc \in pcs /\ task[l].cmd = f}
Copies(q, f, pcs) == Cardinality(Places(client_tx[q], f)) + Cardinality(Holding(q, f, pcs))
Counted(q, f, n) ==
    IF Key(f) \in processed_commands[q]
    THEN Copies(q, f, {"mark", "apply"}) <= Cardinality(Into(q)) * (1 + n)
    ELSE Copies(q, f, {"apply"}) <= Cardinality(Into(q)) * n

\* Why the messages of s arrive in order where there is one path: what a peer shows it has
\* from the one before it, and before a message it has, holds or waits for, it has, holds
\* or waits for all earlier ones.
SaidBy(s) == {f \in issued : f.source = s /\ f.kind \in Open}

Has(q, s, f)  == q = s \/ \E i \in 1..Len(client_tx[q]) : client_tx[q][i] = f
Held(l, f)    == task[l].pc \in {"mark", "apply"} /\ task[l].cmd = f
Waits(l, f)   == \E i \in 1..Len(wire[l]) : wire[l][i] = f
Earlier(g, f) == g.seq < f.seq

ShownInOrder(s) ==
    \A q \in Peer \ {s} : \A i \in 1..Len(client_tx[q]) : \A g \in SaidBy(s) :
        (client_tx[q][i] \in SaidBy(s) /\ Earlier(g, client_tx[q][i]))
          => \E h \in 1..i : client_tx[q][h] = g

ShownOnTheWay(s, up) ==
    \A q \in Peer \ {s} : \A f \in SaidBy(s) : Has(q, s, f) => Has(up[q], s, f)

TakenInOrder(s, up) ==
    \A q \in Peer \ {s} : \A f \in SaidBy(s) \cap taken[q] :
        Has(q, s, f) \/ \E l \in Into(q) : up[q] = l[1] /\ task[l].pc = "apply" /\ Held(l, f)

\* A connection that is not the one over which its far end hears s brings back what this
\* end has shown.
Returns(l, s, up) ==
    \A f \in SaidBy(s) : Held(l, f) \/ Waits(l, f) =>
        Has(IF up[l[2]] = l[1] THEN l[1] ELSE l[2], s, f)

HeldInOrder(l, s) ==
    \A f, g \in SaidBy(s) : Earlier(g, f) /\ Held(l, f) => Has(l[2], s, g)

WaitsInOrder(l, s) ==
    \A f, g \in SaidBy(s) : \A i \in 1..Len(wire[l]) :
        Earlier(g, f) /\ wire[l][i] = f =>
          \/ Has(l[2], s, g) \/ Held(l, g)
          \/ \E j \in 1..Len(wire[l]) : j < i /\ wire[l][j] = g

NoneMissing(l, s) ==
    \A g \in SaidBy(s) : Has(l[1], s, g) => Has(l[2], s, g) \/ Held(l, g) \/ Waits(l, g)

OrderInv(s, up) ==
    /\ ShownInOrder(s) /\ ShownOnTheWay(s, up) /\ TakenInOrder(s, up)
    /\ \A l \in Link :
          /\ task[l].pc # "closed" => l[2] \in peers[l[1]]
          /\ l[2] # s => Returns(l, s, up)
          /\ l[2] # s /\ up[l[2]] = l[1] => HeldInOrder(l, s)
          /\ l[2] # s /\ up[l[2]] = l[1] /\ task[l].pc # "closed" =>
               WaitsInOrder(l, s) /\ NoneMissing(l, s)
=============================================================================
