----------------------------- MODULE RelayProofs -----------------------------
(* What Relay guarantees for every network, every set of requests and every *)
(* bound: the invariants of its runs, and that it implements Chat.          *)
EXTENDS Relay, SequenceTheorems, FiniteSetTheorems, TLAPS

USE LinkAssumption, InputAssumption, BoundAssumption

-----------------------------------------------------------------------------
(* The operators the actions are made of.                                  *)

\* A command is no Text frame, and a frame is one or the other.
LEMMA CommandOrText ==
    /\ Text \in Frame /\ Command \subseteq Frame
    /\ \A f \in Frame : (f \in Command) <=> (f # Text)
BY DEF Frame, Command, Text, Kind, Open, Directed

\* The fields of a command, and its key.
LEMMA CommandFields ==
    ASSUME NEW f \in Command
    PROVE  /\ f.source \in Peer /\ f.seq \in Nat /\ f.dest \in Peer \cup {NoPeer}
           /\ f.body \in Body /\ f.kind \in Kind
           /\ Key(f) = <<f.source, f.seq>> /\ Key(f) \in Peer \X Nat
BY DEF Command, Key

\* Appending to a queue adds one item at its end.
LEMMA AppendItems ==
    ASSUME NEW S, NEW s \in Seq(S), NEW x \in S
    PROVE  /\ Append(s, x) \in Seq(S)
           /\ \A i \in 1..Len(Append(s, x)) :
                 \/ i \in 1..Len(s) /\ Append(s, x)[i] = s[i]
                 \/ Append(s, x)[i] = x
BY AppendProperties

\* Taking the head off a queue leaves items it held.
LEMMA TailItems ==
    ASSUME NEW S, NEW s \in Seq(S), s # <<>>
    PROVE  /\ Head(s) \in S
           /\ Head(s) = s[1] /\ 1 \in 1..Len(s)
           /\ Tail(s) \in Seq(S)
           /\ \A i \in 1..Len(Tail(s)) : i + 1 \in 1..Len(s) /\ Tail(s)[i] = s[i + 1]
BY EmptySeq, HeadTailProperties, LenProperties

\* A broadcast adds at most its frame to a wire, and to none that leads to its sender.
LEMMA BroadcastItems ==
    ASSUME wire \in [Link -> Seq(Frame)],
           NEW p, NEW sender, NEW f \in Frame, Broadcast(p, sender, f)
    PROVE  /\ wire' \in [Link -> Seq(Frame)]
           /\ \A l \in Link : \A i \in 1..Len(wire'[l]) :
                 \/ i \in 1..Len(wire[l]) /\ wire'[l][i] = wire[l][i]
                 \/ wire'[l][i] = f /\ l[2] # sender
<1> DEFINE onto(l) == l[1] = p /\ l[2] \in peers[p] \ {sender}
<1>1. \A l \in Link : wire'[l] = IF onto(l) THEN Append(wire[l], f) ELSE wire[l]
  BY DEF Broadcast
<1>2. wire' = [l \in Link |-> wire'[l]]
  BY DEF Broadcast
<1>3. ASSUME NEW l \in Link
      PROVE  /\ wire'[l] \in Seq(Frame)
             /\ \A i \in 1..Len(wire'[l]) :
                 \/ i \in 1..Len(wire[l]) /\ wire'[l][i] = wire[l][i]
                 \/ wire'[l][i] = f /\ l[2] # sender
  <2>1. wire[l] \in Seq(Frame)
    OBVIOUS
  <2>2. CASE onto(l)
    <3>1. wire'[l] = Append(wire[l], f)
      BY <1>1, <2>2
    <3>2. /\ Append(wire[l], f) \in Seq(Frame)
          /\ \A i \in 1..Len(Append(wire[l], f)) :
                \/ i \in 1..Len(wire[l]) /\ Append(wire[l], f)[i] = wire[l][i]
                \/ Append(wire[l], f)[i] = f
      BY <2>1, AppendItems
    <3> QED BY <2>2, <3>1, <3>2
  <2>3. CASE ~ onto(l)
    BY <2>1, <2>3, <1>1
  <2> QED BY <2>2, <2>3
<1> QED BY <1>2, <1>3

\* What a peer stamps on a request makes a command of its own.
LEMMA StampType ==
    ASSUME NEW r \in Request, NEW n \in Nat
    PROVE  /\ Stamp(r, n) \in Command
           /\ Stamp(r, n).source = r.source /\ r.source \in Peer
           /\ Stamp(r, n).seq = n /\ Stamp(r, n).kind # "pong"
BY DEF Stamp, Command, Requests, Kind, Open, Directed

-----------------------------------------------------------------------------
(* Type correctness.                                                       *)

\* Where a connection task may go next.
LEMMA TaskMoves ==
    ASSUME TaskOK, NEW l \in Link
    PROVE  /\ Resume(l) => TaskOK'
           /\ Close(l) => TaskOK'
           /\ \A f \in Command : \A pc \in {"mark", "apply", "back"} :
                task' = [task EXCEPT ![l] = [pc |-> pc, cmd |-> f]] => TaskOK'
           /\ \A pc \in {"apply", "back"} :
                task[l].cmd # Text /\ task' = [task EXCEPT ![l].pc = pc] => TaskOK'
BY CommandOrText DEF TaskOK, Resume, Close, Idle

\* A command shown is one more item of its user's list.
LEMMA ShowItems ==
    ASSUME client_tx \in [Peer -> Seq(Command)],
           NEW q \in Peer, NEW f \in Command, Show(q, f)
    PROVE  /\ client_tx' \in [Peer -> Seq(Command)]
           /\ \A p \in Peer : \A i \in 1..Len(client_tx'[p]) :
                 \/ i \in 1..Len(client_tx[p]) /\ client_tx'[p][i] = client_tx[p][i]
                 \/ client_tx'[p][i] = f /\ p = q
<1>1. client_tx[q] \in Seq(Command)
  OBVIOUS
<1>2. /\ Append(client_tx[q], f) \in Seq(Command)
      /\ \A i \in 1..Len(Append(client_tx[q], f)) :
            \/ i \in 1..Len(client_tx[q]) /\ Append(client_tx[q], f)[i] = client_tx[q][i]
            \/ Append(client_tx[q], f)[i] = f
  BY <1>1, AppendItems
<1> QED BY <1>1, <1>2 DEF Show

\* The generator moves on by one.
LEMMA NumberMoves ==
    ASSUME sequence_numbers \in [Peer -> Nat], NEW p \in Peer, NextNumber(p)
    PROVE  /\ sequence_numbers' \in [Peer -> Nat]
           /\ sequence_numbers'[p] = sequence_numbers[p] + 1
           /\ \A q \in Peer : sequence_numbers'[q] >= sequence_numbers[q]
BY DEF NextNumber

\* The network starts out well typed.
LEMMA TypeInit == Init => TypeOK
BY CommandOrText DEF Init, TypeOK, TaskOK, Idle

\* Every step keeps every variable in its type.
LEMMA TypeStep == TypeOK /\ [Next]_vars => TypeOK'
<1> SUFFICES ASSUME TypeOK, [Next]_vars PROVE TypeOK'
  OBVIOUS
<1> USE CommandOrText DEF TypeOK
<1>1. ASSUME NEW r \in Request, ClientMessage(r) PROVE TypeOK'
  <2> DEFINE f == Stamp(r, sequence_numbers[r.source])
  <2>1. f \in Command /\ r.source \in Peer /\ sequence_numbers[r.source] \in Nat
    BY StampType DEF Requests
  <2>2. wire' \in [Link -> Seq(Frame)]
    BY <1>1, <2>1, BroadcastItems DEF ClientMessage
  <2> QED BY <1>1, <2>1, <2>2, NumberMoves DEF ClientMessage, TaskOK
<1>2. ASSUME NEW l \in Link, ReadFrame(l) PROVE TypeOK'
  <2>1. /\ Head(wire[l]) \in Frame
        /\ Tail(wire[l]) \in Seq(Frame)
    BY <1>2, TailItems DEF ReadFrame
  <2>2. TaskOK'
    BY <1>2, <2>1, TaskMoves DEF ReadFrame
  <2> QED BY <1>2, <2>1, <2>2 DEF ReadFrame
<1>3. ASSUME NEW l \in Link, SetProcessed(l) PROVE TypeOK'
  <2>1. task[l].cmd \in Command /\ l[2] \in Peer
    BY <1>3 DEF SetProcessed, TaskOK
  <2>2. Key(task[l].cmd) \in Peer \X Nat
    BY <2>1, CommandFields
  <2>3. TaskOK'
    BY <1>3, <2>1, TaskMoves DEF SetProcessed
  <2> QED BY <1>3, <2>1, <2>2, <2>3 DEF SetProcessed
<1>4. ASSUME NEW l \in Link, Apply(l) PROVE TypeOK'
  <2> DEFINE f == task[l].cmd
  <2>1. f \in Command /\ f \in Frame /\ l[2] \in Peer
    BY <1>4 DEF Apply, ApplyOpen, ApplyDirected, ApplyPing, ApplyWhisper, ApplyExtension,
                Applying, TaskOK
  <2>2. \A g \in Frame : \A s : Broadcast(l[2], s, g) => wire' \in [Link -> Seq(Frame)]
    BY BroadcastItems
  <2>3. Show(l[2], f) => client_tx' \in [Peer -> Seq(Command)]
    BY <2>1, ShowItems
  <2>4. UNCHANGED <<peers, backlog, processed_commands, taken, asks, expiries>>
    BY <1>4 DEF Apply, ApplyOpen, ApplyDirected, ApplyPing, ApplyWhisper, ApplyExtension,
                Applying
  <2>5. SUFFICES /\ sequence_numbers' \in [Peer -> Nat]
                 /\ wire' \in [Link -> Seq(Frame)]
                 /\ TaskOK'
                 /\ client_tx' \in [Peer -> Seq(Command)]
                 /\ issued' \in SUBSET Command
    BY <2>4
  <2>6. CASE ApplyOpen(l)
    BY <2>1, <2>2, <2>3, <2>6, TaskMoves DEF ApplyOpen
  <2>7. CASE ApplyDirected(l)
    BY <2>1, <2>2, <2>3, <2>7, TaskMoves DEF ApplyDirected
  <2>8. CASE ApplyPing(l)
    <3> DEFINE pong == PongFor(f, l[2])
    <3>1. pong \in Command
      BY <2>1, CommandFields DEF PongFor, Command, Kind, Open, Directed
    <3> QED BY <2>1, <2>2, <2>8, <3>1, TaskMoves, NumberMoves DEF ApplyPing
  <2>9. CASE ApplyWhisper(l)
    BY <2>1, <2>3, <2>9, TaskMoves DEF ApplyWhisper
  <2>10. CASE ApplyExtension(l)
    BY <2>1, <2>2, <2>3, <2>10, TaskMoves, NumberMoves DEF ApplyExtension
  <2> QED BY <1>4, <2>6, <2>7, <2>8, <2>9, <2>10 DEF Apply
<1>5. ASSUME NEW l \in Link, WriteBack(l) PROVE TypeOK'
  BY <1>5, TaskMoves DEF WriteBack
<1>6. ASSUME NEW l \in Link, WriteLost(l) PROVE TypeOK'
  <2>1. Tail(wire[l]) \in Seq(Frame)
    BY <1>6, TailItems DEF WriteLost
  <2> QED BY <1>6, <2>1 DEF WriteLost, TaskOK
<1>7. ASSUME NEW l \in Link, WriteFails(l) PROVE TypeOK'
  BY <1>7 DEF WriteFails, TaskOK
<1>8. ASSUME NEW q \in Peer, Expire(q) PROVE TypeOK'
  BY <1>8 DEF Expire, TaskOK
<1>9. CASE UNCHANGED vars
  BY <1>9 DEF vars, TaskOK
<1> QED
  BY <1>1, <1>2, <1>3, <1>4, <1>5, <1>6, <1>7, <1>8, <1>9 DEF Next, HandleConnection

\* Every variable of the network always holds a value of its type.
THEOREM TypeCorrect == Spec => []TypeOK
BY TypeInit, TypeStep, PTL DEF Spec

-----------------------------------------------------------------------------
(* The inductive invariant.                                                *)

\* A peer's next number is fresh, so a command made with it can be told from all
\* the others.
LEMMA MadeFresh ==
    ASSUME TypeOK, NumbersBelow, NumbersIdentify,
           NEW f \in Command, f.seq = sequence_numbers[f.source],
           NextNumber(f.source), issued' = issued \cup {f}
    PROVE  NumbersBelow' /\ NumbersIdentify' /\ Network!Fresh(f)
<1>1. \A g \in issued : g \in Command /\ g.source \in Peer /\ g.seq \in Nat
  BY CommandFields DEF TypeOK
<1>2. f.source \in Peer /\ f.seq \in Nat
  BY CommandFields
<1>3. /\ sequence_numbers'[f.source] = sequence_numbers[f.source] + 1
      /\ sequence_numbers \in [Peer -> Nat] /\ sequence_numbers' \in [Peer -> Nat]
      /\ \A q \in Peer : sequence_numbers'[q] >= sequence_numbers[q]
  BY <1>2, NumberMoves DEF TypeOK
<1>4. NumbersBelow'
  BY <1>1, <1>2, <1>3 DEF NumbersBelow
<1>5. \A g \in issued : ~ (g.source = f.source /\ g.seq = f.seq)
  BY <1>1, <1>2, <1>3 DEF NumbersBelow
<1>6. NumbersIdentify'
  BY <1>5 DEF NumbersIdentify, Key
<1> QED BY <1>4, <1>5, <1>6 DEF Network!Fresh

\* A step that makes no command, whether or not it uses a number up.
LEMMA NothingMade ==
    ASSUME TypeOK, NumbersBelow, NumbersIdentify, UNCHANGED issued,
           \/ UNCHANGED sequence_numbers
           \/ \E p \in Peer : NextNumber(p)
    PROVE  NumbersBelow' /\ NumbersIdentify'
<1>1. \A g \in issued : g.source \in Peer /\ g.seq \in Nat
  BY CommandFields DEF TypeOK
<1>2. \A q \in Peer : sequence_numbers'[q] >= sequence_numbers[q]
                      /\ sequence_numbers[q] \in Nat /\ sequence_numbers'[q] \in Nat
  BY NumberMoves DEF TypeOK
<1>3. NumbersBelow'
  BY <1>1, <1>2 DEF NumbersBelow
<1> QED BY <1>3 DEF NumbersIdentify

\* What has been sent stays sent.
LEMMA BlameStays ==
    ASSUME NEW q, issued \subseteq issued'
    PROVE  Blamed(q) => Blamed(q)'
BY DEF Blamed, Echoes, Logs, Passes

\* A connection that was dropped before stays explained.
LEMMA NoneDropped ==
    ASSUME DropsExplained, issued \subseteq issued',
           \A l \in Link : task'[l].pc = "closed" => task[l].pc = "closed"
    PROVE  DropsExplained'
BY BlameStays DEF DropsExplained

\* A broadcast that skips its command's source keeps the wires in order.
LEMMA BroadcastCarries ==
    ASSUME TypeOK, WireCarries, issued \subseteq issued',
           NEW p, NEW sender, NEW f \in Frame, Broadcast(p, sender, f),
           f # Text => f \in issued' /\ f.source = sender,
           f = Text => \A q \in Peer \ {sender} : Blamed(q)'
    PROVE  WireCarries'
<1> SUFFICES ASSUME NEW l \in Link, NEW i \in 1..Len(wire'[l])
             PROVE  /\ wire'[l][i] # Text =>
                          wire'[l][i] \in issued' /\ wire'[l][i].source # l[2]
                    /\ wire'[l][i] = Text => Blamed(l[2])'
  BY DEF WireCarries, MayCarry, MayQueue
<1>1. \/ i \in 1..Len(wire[l]) /\ wire'[l][i] = wire[l][i]
      \/ wire'[l][i] = f /\ l[2] # sender
  BY BroadcastItems DEF TypeOK
<1>2. Blamed(l[2]) => Blamed(l[2])'
  BY BlameStays
<1> QED BY <1>1, <1>2 DEF WireCarries, MayCarry, MayQueue

\* Wires left alone stay in order.
LEMMA WireSame ==
    ASSUME WireCarries, issued \subseteq issued', UNCHANGED wire
    PROVE  WireCarries'
BY BlameStays DEF WireCarries, MayCarry, MayQueue

\* Taking the head off a wire: what is left, and what was taken, may be there.
LEMMA TailCarries ==
    ASSUME TypeOK, WireCarries, UNCHANGED issued,
           NEW l \in Link, wire[l] # <<>>, wire' = [wire EXCEPT ![l] = Tail(@)]
    PROVE  WireCarries' /\ MayQueue(l, Head(wire[l]))
<1>1. /\ Head(wire[l]) = wire[l][1] /\ 1 \in 1..Len(wire[l])
      /\ \A i \in 1..Len(Tail(wire[l])) :
            i + 1 \in 1..Len(wire[l]) /\ Tail(wire[l])[i] = wire[l][i + 1]
  BY TailItems DEF TypeOK
<1>2. MayQueue(l, Head(wire[l]))
  BY <1>1 DEF WireCarries
<1>3. ASSUME NEW k \in Link, NEW i \in 1..Len(wire'[k])
      PROVE  \E j \in 1..Len(wire[k]) : wire'[k][i] = wire[k][j]
  <2>1. CASE k = l
    BY <1>1, <2>1 DEF TypeOK
  <2>2. CASE k # l
    BY <2>2 DEF TypeOK
  <2> QED BY <2>1, <2>2
<1>4. \A k \in Link : Blamed(k[2]) => Blamed(k[2])'
  BY BlameStays
<1> QED BY <1>2, <1>3, <1>4 DEF WireCarries, MayCarry, MayQueue

\* A task that lets its command go, keeps it, or takes one that may be there.
LEMMA TaskTakes ==
    ASSUME TaskOK, TaskCarries, issued \subseteq issued', NEW l \in Link
    PROVE  /\ Resume(l) => TaskCarries'
           /\ Close(l) => TaskCarries'
           /\ \A pc \in {"apply", "back"} :
                task' = [task EXCEPT ![l].pc = pc] => TaskCarries'
           /\ \A f : MayCarry(l, f) /\ task' = [task EXCEPT ![l] = [pc |-> "mark", cmd |-> f]]
                => TaskCarries'
<1>1. ASSUME \A k \in Link : \/ task'[k].cmd = task[k].cmd
                             \/ task'[k].cmd = Text
                             \/ k = l /\ MayCarry(l, task'[k].cmd)
      PROVE  TaskCarries'
  BY <1>1 DEF TaskCarries, MayCarry
<1>2. Resume(l) => TaskCarries'
  BY <1>1 DEF Resume, Idle, TaskOK
<1>3. Close(l) => TaskCarries'
  BY <1>1 DEF Close, TaskOK
<1>4. ASSUME NEW pc \in {"apply", "back"}, task' = [task EXCEPT ![l].pc = pc]
      PROVE  TaskCarries'
  BY <1>1, <1>4 DEF TaskOK
<1>5. ASSUME NEW f, MayCarry(l, f), task' = [task EXCEPT ![l] = [pc |-> "mark", cmd |-> f]]
      PROVE  TaskCarries'
  BY <1>1, <1>5 DEF TaskOK
<1> QED BY <1>2, <1>3, <1>4, <1>5

\* Showing a command to someone it is meant for.
LEMMA ShowRight ==
    ASSUME TypeOK, ShownToTheRight, issued \subseteq issued',
           NEW q \in Peer, NEW f \in Command, Show(q, f),
           f \in issued, f.source # q, f.kind \in Directed => f.dest = q
    PROVE  ShownToTheRight'
<1> SUFFICES ASSUME NEW p \in Peer, NEW i \in 1..Len(client_tx'[p])
             PROVE  LET g == client_tx'[p][i]
                    IN  /\ g \in issued' /\ g.source # p
                        /\ g.kind \in Directed => g.dest = p
  BY DEF ShownToTheRight
<1>1. \/ i \in 1..Len(client_tx[p]) /\ client_tx'[p][i] = client_tx[p][i]
      \/ client_tx'[p][i] = f /\ p = q
  BY ShowItems DEF TypeOK
<1> QED BY <1>1 DEF ShownToTheRight

\* The invariant holds at the start.
LEMMA InvInit == Init => IInv
<1> SUFFICES ASSUME Init PROVE IInv
  OBVIOUS
<1>1. TypeOK
  BY TypeInit
<1>2. NumbersBelow /\ NumbersIdentify /\ PongsAnswer
  BY DEF Init, NumbersBelow, NumbersIdentify, PongsAnswer
<1>3. WireCarries /\ TaskCarries
  BY DEF Init, WireCarries, TaskCarries, MayQueue, MayCarry, Idle
<1>4. MarkedTaken /\ ShownToTheRight /\ DropsExplained
  BY DEF Init, MarkedTaken, ShownToTheRight, DropsExplained, Idle
<1> QED BY <1>1, <1>2, <1>3, <1>4 DEF IInv, Accounted

\* Every step accounts for what it changes, whatever numbers the commands have.
LEMMA AccountStep ==
    ASSUME TypeOK, Accounted, [Next]_vars
    PROVE  Accounted'
<1> USE DEF Accounted
<1>1. ASSUME NEW r \in Request, ClientMessage(r) PROVE Accounted'
  <2> DEFINE f == Stamp(r, sequence_numbers[r.source])
  <2>1. f \in Command /\ f \in Frame /\ f.source = r.source /\ f.kind # "pong"
    BY StampType, CommandOrText DEF Requests, TypeOK
  <2>2. issued' = issued \cup {f}
    BY <1>1 DEF ClientMessage
  <2>4. WireCarries'
    BY <1>1, <2>1, <2>2, BroadcastCarries, CommandOrText DEF ClientMessage
  <2>5. PongsAnswer'
    BY <2>1, <2>2 DEF PongsAnswer
  <2>6. TaskCarries' /\ MarkedTaken' /\ ShownToTheRight'
    BY <1>1, <2>2 DEF ClientMessage, TaskCarries, MayCarry, MarkedTaken, ShownToTheRight
  <2>7. DropsExplained'
    BY <1>1, <2>2, NoneDropped DEF ClientMessage
  <2> QED BY <2>4, <2>5, <2>6, <2>7
<1>2. ASSUME NEW l \in Link, ReadFrame(l) PROVE Accounted'
  <2>1. WireCarries' /\ MayQueue(l, Head(wire[l]))
    BY <1>2, TailCarries DEF ReadFrame
  <2>2. TaskCarries'
    BY <1>2, <2>1, TaskTakes DEF ReadFrame, TypeOK, MayQueue
  <2>3. PongsAnswer'
    BY <1>2 DEF ReadFrame, PongsAnswer
  <2>4. MarkedTaken' /\ ShownToTheRight'
    BY <1>2 DEF ReadFrame, MarkedTaken, ShownToTheRight
  <2>5. DropsExplained'
    <3>1. CASE Head(wire[l]) = Text /\ Close(l)
      <4>1. Blamed(l[2])'
        BY <1>2, <2>1, <3>1, BlameStays DEF ReadFrame, MayQueue
      <4>2. \A k \in Link : task'[k].pc = "closed" => k = l \/ task[k].pc = "closed"
        BY <3>1 DEF Close, TypeOK, TaskOK
      <4> QED BY <1>2, <4>1, <4>2, BlameStays DEF ReadFrame, DropsExplained
    <3>2. CASE ~ (Head(wire[l]) = Text /\ Close(l))
      <4>1. \A k \in Link : task'[k].pc = "closed" => task[k].pc = "closed"
        <5>1. CASE Resume(l)
          BY <5>1 DEF Resume, Idle, TypeOK, TaskOK
        <5>2. CASE task' = [task EXCEPT ![l] = [pc |-> "mark", cmd |-> Head(wire[l])]]
          BY <5>2 DEF TypeOK, TaskOK
        <5> QED BY <1>2, <3>2, <5>1, <5>2 DEF ReadFrame
      <4> QED BY <1>2, <4>1, NoneDropped DEF ReadFrame
    <3> QED BY <3>1, <3>2
  <2> QED BY <2>1, <2>2, <2>3, <2>4, <2>5
<1>3. ASSUME NEW l \in Link, SetProcessed(l) PROVE Accounted'
  <2>1. task[l].cmd \in issued /\ l[2] \in Peer
    BY <1>3 DEF SetProcessed, TaskCarries, MayCarry, TypeOK, TaskOK
  <2>2. MarkedTaken'
    BY <1>3, <2>1 DEF SetProcessed, MarkedTaken, TypeOK
  <2>3. TaskCarries'
    BY <1>3, TaskTakes DEF SetProcessed, TypeOK
  <2>4. PongsAnswer'
    BY <1>3 DEF SetProcessed, PongsAnswer
  <2>5. WireCarries' /\ ShownToTheRight'
    BY <1>3, WireSame DEF SetProcessed, ShownToTheRight
  <2>6. DropsExplained'
    BY <1>3, NoneDropped DEF SetProcessed, TypeOK, TaskOK
  <2> QED BY <2>2, <2>3, <2>4, <2>5, <2>6
<1>4. ASSUME NEW l \in Link, Apply(l) PROVE Accounted'
  <2> DEFINE f == task[l].cmd
  <2>1. /\ f \in Command /\ f \in Frame /\ f # Text /\ l[2] \in Peer
        /\ f \in issued /\ f.source # l[2]
    BY <1>4, CommandOrText
       DEF Apply, ApplyOpen, ApplyDirected, ApplyPing, ApplyWhisper, ApplyExtension,
           Applying, TypeOK, TaskOK, TaskCarries, MayCarry
  <2>2. issued \subseteq issued'
    BY <1>4 DEF Apply, ApplyOpen, ApplyDirected, ApplyPing, ApplyWhisper, ApplyExtension
  <2>3. /\ Broadcast(l[2], f.source, f) => WireCarries'
        /\ UNCHANGED wire => WireCarries'
    <3>1. Broadcast(l[2], f.source, f) => WireCarries'
      BY <2>1, <2>2, BroadcastCarries
    <3>2. UNCHANGED wire => WireCarries'
      BY <2>2, WireSame
    <3> QED BY <3>1, <3>2
  <2>4. /\ Show(l[2], f) /\ (f.kind \in Directed => f.dest = l[2]) => ShownToTheRight'
        /\ UNCHANGED client_tx => ShownToTheRight'
    <3>1. Show(l[2], f) /\ (f.kind \in Directed => f.dest = l[2]) => ShownToTheRight'
      BY <2>1, <2>2, ShowRight
    <3>2. UNCHANGED client_tx => ShownToTheRight'
      BY <2>2 DEF ShownToTheRight
    <3> QED BY <3>1, <3>2
  <2>5. /\ Resume(l) => TaskCarries'
        /\ Close(l) => TaskCarries'
        /\ task' = [task EXCEPT ![l].pc = "back"] => TaskCarries'
    BY <2>2, TaskTakes DEF TypeOK
  <2>6. MarkedTaken'
    BY <1>4, <2>2 DEF Apply, ApplyOpen, ApplyDirected, ApplyPing, ApplyWhisper,
                      ApplyExtension, Applying, MarkedTaken
  <2>D. Resume(l) \/ task' = [task EXCEPT ![l].pc = "back"] => DropsExplained'
    <3>1. ASSUME Resume(l) \/ task' = [task EXCEPT ![l].pc = "back"]
          PROVE  \A k \in Link : task'[k].pc = "closed" => task[k].pc = "closed"
      <4>1. CASE Resume(l)
        BY <4>1 DEF Resume, Idle, TypeOK, TaskOK
      <4>2. CASE task' = [task EXCEPT ![l].pc = "back"]
        BY <4>2 DEF TypeOK, TaskOK
      <4> QED BY <3>1, <4>1, <4>2
    <3> QED BY <2>2, <3>1, NoneDropped
  <2>P. UNCHANGED issued => PongsAnswer'
    BY DEF PongsAnswer
  <2>7. CASE ApplyOpen(l)
    <3>1. ShownToTheRight' /\ WireCarries' /\ TaskCarries' /\ DropsExplained'
      BY <2>3, <2>4, <2>5, <2>D, <2>7 DEF ApplyOpen, Applying, Open, Directed
    <3>2. PongsAnswer'
      BY <2>P, <2>7 DEF ApplyOpen
    <3> QED BY <2>6, <3>1, <3>2
  <2>8. CASE ApplyDirected(l)
    <3>1. ShownToTheRight' /\ WireCarries' /\ TaskCarries' /\ DropsExplained'
      BY <2>3, <2>4, <2>5, <2>D, <2>8 DEF ApplyDirected, Addressed
    <3>2. PongsAnswer'
      BY <2>P, <2>8 DEF ApplyDirected
    <3> QED BY <2>6, <3>1, <3>2
  <2>9. CASE ApplyPing(l)
    <3> DEFINE pong == PongFor(f, l[2])
    <3>1. ShownToTheRight' /\ TaskCarries' /\ DropsExplained'
      BY <2>4, <2>5, <2>D, <2>9 DEF ApplyPing
    <3>2. CASE f.dest = l[2]
      <4>1. /\ issued' = issued \cup {pong}
            /\ Broadcast(l[2], l[2], pong) /\ f.kind = "ping"
        BY <2>9, <3>2 DEF ApplyPing, Applying, Addressed
      <4>2. pong \in Command /\ pong \in Frame /\ pong.source = l[2]
        BY <2>1, CommandFields, CommandOrText
           DEF PongFor, Command, Kind, Open, Directed, TypeOK
      <4>4. PongsAnswer'
        BY <2>1, <3>2, <4>1 DEF PongFor, PongsAnswer, Network!Answers
      <4>5. WireCarries'
        BY <2>2, <4>1, <4>2, BroadcastCarries, CommandOrText
      <4> QED BY <2>6, <3>1, <4>4, <4>5
    <3>3. CASE f.dest # l[2]
      <4>1. WireCarries'
        BY <2>3, <2>9, <3>3 DEF ApplyPing, Addressed
      <4>2. PongsAnswer'
        BY <2>P, <2>9, <3>3 DEF ApplyPing, Addressed
      <4> QED BY <2>6, <3>1, <4>1, <4>2
    <3> QED BY <3>2, <3>3
  <2>10. CASE ApplyWhisper(l)
    <3>1. ShownToTheRight' /\ WireCarries' /\ TaskCarries' /\ DropsExplained'
      BY <2>3, <2>4, <2>5, <2>D, <2>10 DEF ApplyWhisper, Addressed
    <3>2. PongsAnswer'
      BY <2>P, <2>10 DEF ApplyWhisper
    <3> QED BY <2>6, <3>1, <3>2
  <2>11. CASE ApplyExtension(l)
    <3>1. f.kind = "extension"
      BY <2>11 DEF ApplyExtension, Applying
    <3>2. ShownToTheRight' /\ TaskCarries'
      BY <2>4, <2>5, <2>11, <3>1 DEF ApplyExtension, Directed
    <3>3. PongsAnswer'
      BY <2>P, <2>11 DEF ApplyExtension
    <3>4. Broadcast(l[2], f.source, Text) /\ Echoes(f) => WireCarries'
      <4>1. ASSUME Echoes(f) PROVE \A q \in Peer \ {f.source} : Blamed(q)'
        BY <2>1, <2>2, <3>1, <4>1, BlameStays DEF Blamed
      <4> QED BY <2>2, <4>1, BroadcastCarries, CommandOrText
    <3>5. WireCarries'
      BY <2>3, <2>11, <3>4 DEF ApplyExtension
    <3>6. DropsExplained'
      <4>1. CASE Resume(l)
        BY <2>D, <4>1
      <4>2. CASE Close(l) /\ Logs(f) /\ DiskMayFail
        <5>1. Blamed(l[2])'
          BY <2>1, <2>2, <3>1, <4>2, BlameStays DEF Blamed
        <5>2. \A k \in Link : task'[k].pc = "closed" => k = l \/ task[k].pc = "closed"
          BY <4>2 DEF Close, TypeOK, TaskOK
        <5> QED BY <2>2, <5>1, <5>2, BlameStays DEF DropsExplained
      <4> QED BY <2>11, <4>1, <4>2 DEF ApplyExtension
    <3> QED BY <2>6, <3>2, <3>3, <3>5, <3>6
  <2> QED BY <1>4, <2>7, <2>8, <2>9, <2>10, <2>11 DEF Apply
<1>5. ASSUME NEW l \in Link, WriteBack(l) PROVE Accounted'
  <2>1. TaskCarries'
    BY <1>5, TaskTakes DEF WriteBack, TypeOK
  <2>2. PongsAnswer'
    BY <1>5 DEF WriteBack, PongsAnswer
  <2>3. WireCarries' /\ MarkedTaken' /\ ShownToTheRight'
    BY <1>5, WireSame DEF WriteBack, MarkedTaken, ShownToTheRight
  <2>4. DropsExplained'
    BY <1>5, NoneDropped DEF WriteBack, Resume, Idle, TypeOK, TaskOK
  <2> QED BY <2>1, <2>2, <2>3, <2>4
<1>6. ASSUME NEW l \in Link, WriteLost(l) \/ WriteFails(l) PROVE Accounted'
  <2>1. WireCarries'
    <3>1. CASE WriteLost(l)
      BY <3>1, TailCarries DEF WriteLost
    <3>2. CASE WriteFails(l)
      <4>1. \A k \in Link : \A i \in 1..Len(wire'[k]) : wire'[k][i] = wire[k][i] /\ k # l
        BY <3>2 DEF WriteFails, TypeOK
      <4>2. \A k \in Link : \A i \in 1..Len(wire'[k]) : i \in 1..Len(wire[k])
        BY <3>2 DEF WriteFails, TypeOK
      <4>3. UNCHANGED issued
        BY <3>2 DEF WriteFails
      <4> QED BY <4>1, <4>2, <4>3, BlameStays DEF WireCarries, MayCarry, MayQueue
    <3> QED BY <1>6, <3>1, <3>2
  <2>2. PongsAnswer'
    BY <1>6 DEF WriteLost, WriteFails, PongsAnswer
  <2>3. TaskCarries' /\ MarkedTaken' /\ ShownToTheRight'
    BY <1>6 DEF WriteLost, WriteFails, TaskCarries, MayCarry, MarkedTaken, ShownToTheRight
  <2>4. DropsExplained'
    BY <1>6, NoneDropped DEF WriteLost, WriteFails
  <2> QED BY <2>1, <2>2, <2>3, <2>4
<1>7. ASSUME NEW q \in Peer, Expire(q) PROVE Accounted'
  <2>1. MarkedTaken'
    BY <1>7 DEF Expire, MarkedTaken, TypeOK
  <2>2. PongsAnswer'
    BY <1>7 DEF Expire, PongsAnswer
  <2>3. WireCarries' /\ TaskCarries' /\ ShownToTheRight'
    BY <1>7, WireSame DEF Expire, TaskCarries, MayCarry, ShownToTheRight
  <2>4. DropsExplained'
    BY <1>7, NoneDropped DEF Expire
  <2> QED BY <2>1, <2>2, <2>3, <2>4
<1>8. CASE UNCHANGED vars
  <2>1. PongsAnswer'
    BY <1>8 DEF vars, PongsAnswer
  <2>2. WireCarries' /\ TaskCarries' /\ MarkedTaken' /\ ShownToTheRight'
    BY <1>8, WireSame DEF vars, TaskCarries, MayCarry, MarkedTaken, ShownToTheRight
  <2>3. DropsExplained'
    BY <1>8, NoneDropped DEF vars
  <2> QED BY <2>1, <2>2, <2>3
<1> QED BY <1>1, <1>2, <1>3, <1>4, <1>5, <1>6, <1>7, <1>8 DEF Next, HandleConnection

\* Every step gives a new command a number of its own.
LEMMA NumberStep ==
    ASSUME TypeOK, NumbersBelow, NumbersIdentify, [Next]_vars
    PROVE  NumbersBelow' /\ NumbersIdentify'
<1>1. ASSUME NEW r \in Request, ClientMessage(r) PROVE NumbersBelow' /\ NumbersIdentify'
  <2> DEFINE f == Stamp(r, sequence_numbers[r.source])
  <2>1. f \in Command /\ f.source = r.source /\ f.seq = sequence_numbers[f.source]
    BY StampType DEF Requests, TypeOK
  <2> QED BY <1>1, <2>1, MadeFresh DEF ClientMessage
<1>2. ASSUME NEW l \in Link, ApplyPing(l), Addressed(l[2], task[l].cmd)
      PROVE  NumbersBelow' /\ NumbersIdentify'
  <2> DEFINE pong == PongFor(task[l].cmd, l[2])
  <2>1. task[l].cmd \in Command /\ l[2] \in Peer
    BY <1>2, CommandOrText DEF ApplyPing, Applying, TypeOK, TaskOK
  <2>2. pong \in Command /\ pong.source = l[2] /\ pong.seq = sequence_numbers[l[2]]
    BY <2>1, CommandFields DEF PongFor, Command, Kind, Open, Directed, TypeOK
  <2> QED BY <1>2, <2>2, MadeFresh DEF ApplyPing
<1>3. ASSUME UNCHANGED issued,
             UNCHANGED sequence_numbers \/ \E p \in Peer : NextNumber(p)
      PROVE  NumbersBelow' /\ NumbersIdentify'
  BY <1>3, NothingMade
<1>4. ASSUME NEW l \in Link, Apply(l), ~ (ApplyPing(l) /\ Addressed(l[2], task[l].cmd))
      PROVE  NumbersBelow' /\ NumbersIdentify'
  BY <1>3, <1>4 DEF Apply, ApplyOpen, ApplyDirected, ApplyPing, ApplyWhisper, ApplyExtension
<1>5. ASSUME NEW l \in Link,
             ReadFrame(l) \/ SetProcessed(l) \/ WriteBack(l) \/ WriteLost(l) \/ WriteFails(l)
      PROVE  NumbersBelow' /\ NumbersIdentify'
  BY <1>3, <1>5 DEF ReadFrame, SetProcessed, WriteBack, WriteLost, WriteFails
<1>6. ASSUME NEW q \in Peer, Expire(q) PROVE NumbersBelow' /\ NumbersIdentify'
  BY <1>3, <1>6 DEF Expire
<1>7. CASE UNCHANGED vars
  BY <1>3, <1>7 DEF vars
<1> QED BY <1>1, <1>2, <1>4, <1>5, <1>6, <1>7 DEF Next, HandleConnection

\* Every step preserves the invariant.
LEMMA InvStep == IInv /\ [Next]_vars => IInv'
BY TypeStep, AccountStep, NumberStep DEF IInv

\* The invariant always holds.
THEOREM Invariance == Spec => []IInv
BY InvInit, InvStep, PTL DEF Spec

-----------------------------------------------------------------------------
(* What follows.                                                           *)

\* No two commands ever carry the same key, so check_duplicate can tell any two apart.
THEOREM KeysIdentify == Spec => []NumbersIdentify
BY Invariance, PTL DEF IInv

\* No command is ever dropped as a duplicate by a peer that has not taken it.
THEOREM NoneSwallowed == Spec => []NothingSwallowed
<1>1. IInv => NothingSwallowed
  <2> SUFFICES ASSUME IInv, NEW l \in Link, wire[l] # <<>>, Head(wire[l]) # Text,
                      CheckDuplicate(l[2], Head(wire[l]))
               PROVE  Head(wire[l]) \in taken[l[2]]
    BY DEF NothingSwallowed
  <2> DEFINE f == Head(wire[l])
  <2>1. f \in issued /\ l[2] \in Peer
    <3>1. f = wire[l][1] /\ 1 \in 1..Len(wire[l])
      BY TailItems DEF IInv, TypeOK
    <3> QED BY <3>1 DEF IInv, Accounted, WireCarries, MayQueue, MayCarry
  <2>2. PICK g \in taken[l[2]] : Key(g) = Key(f)
    BY <2>1 DEF IInv, Accounted, MarkedTaken, CheckDuplicate
  <2>3. g \in issued
    BY <2>1 DEF IInv, Accounted, MarkedTaken
  <2> QED BY <2>1, <2>2, <2>3 DEF IInv, NumbersIdentify
<1> QED BY <1>1, Invariance, PTL

\* Users are shown real commands of others, and directed ones only if addressed.
THEOREM OnlyTheRight == Spec => []ShownToTheRight
BY Invariance, PTL DEF IInv, Accounted

\* Connections are dropped only on account of other peers' extensions.
THEOREM OnlyExplainedDrops == Spec => []DropsExplained
BY Invariance, PTL DEF IInv, Accounted

\* A pong a user has been shown is accounted for by a ping of that user.
LEMMA AnswersShown == Accounted => PongAnswersPing
<1> SUFFICES ASSUME Accounted, NEW q \in Peer, NEW i \in 1..Len(client_tx[q]),
                    client_tx[q][i].kind = "pong"
             PROVE  \E g \in issued : /\ g.kind = "ping" /\ g.source = q
                                      /\ g.dest = client_tx[q][i].source
                                      /\ g.body = client_tx[q][i].body
  BY DEF PongAnswersPing
<1>1. client_tx[q][i] \in issued /\ client_tx[q][i].dest = q
  BY DEF Accounted, ShownToTheRight, Directed
<1> QED BY <1>1 DEF Accounted, PongsAnswer, Network!Answers

\* Every pong a user sees answers a ping of that user, with its time.
THEOREM PongsMatch == Spec => []PongAnswersPing
BY AnswersShown, Invariance, PTL DEF IInv

-----------------------------------------------------------------------------
(* How often a user is shown a command.                                     *)

\* The places of an item in a list can be counted.
LEMMA PlacesFinite ==
    ASSUME NEW S, NEW s \in Seq(S), NEW f
    PROVE  IsFiniteSet(Places(s, f)) /\ Cardinality(Places(s, f)) \in Nat
<1>1. IsFiniteSet(1..Len(s))
  BY LenProperties, FS_Interval
<1>2. Places(s, f) \subseteq 1..Len(s)
  BY DEF Places
<1> QED BY <1>1, <1>2, FS_Subset, FS_CardinalityType

\* One more item is one more place of it, and of no other.
LEMMA PlacesAppended ==
    ASSUME NEW S, NEW s \in Seq(S), NEW f, NEW g \in S
    PROVE  Cardinality(Places(Append(s, g), f))
             = Cardinality(Places(s, f)) + (IF g = f THEN 1 ELSE 0)
<1>1. /\ Len(s) \in Nat /\ Len(Append(s, g)) = Len(s) + 1
      /\ Append(s, g)[Len(s) + 1] = g
      /\ \A i \in 1..Len(s) : Append(s, g)[i] = s[i]
  BY LenProperties, AppendProperties
<1>2. CASE g = f
  <2>1. Places(Append(s, g), f) = Places(s, f) \cup {Len(s) + 1}
    BY <1>1, <1>2 DEF Places
  <2>2. Len(s) + 1 \notin Places(s, f)
    BY <1>1 DEF Places
  <2> QED BY <1>2, <2>1, <2>2, PlacesFinite, FS_AddElement
<1>3. CASE g # f
  <2>1. Places(Append(s, g), f) = Places(s, f)
    BY <1>1, <1>3 DEF Places
  <2> QED BY <1>3, <2>1, PlacesFinite
<1> QED BY <1>2, <1>3

\* Links into a peer can be counted, and fewer links count less.
LEMMA LinksCounted ==
    ASSUME IsFiniteSet(Link), NEW q, NEW H \in SUBSET Into(q), NEW J \in SUBSET H
    PROVE  /\ Cardinality(H) \in Nat /\ Cardinality(J) \in Nat /\ Cardinality(Into(q)) \in Nat
           /\ Cardinality(J) <= Cardinality(H)
           /\ Cardinality(H) <= Cardinality(Into(q))
           /\ \A l \in H \ J : Cardinality(J) + 1 <= Cardinality(H)
<1>1. IsFiniteSet(Into(q))
  <2>1. Into(q) \subseteq Link
    BY DEF Into
  <2> QED BY <2>1, FS_Subset
<1>2. IsFiniteSet(H) /\ IsFiniteSet(J)
  BY <1>1, FS_Subset
<1>3. ASSUME NEW l \in H \ J PROVE Cardinality(J) + 1 <= Cardinality(H)
  <2>1. Cardinality(J \cup {l}) = Cardinality(J) + 1
    BY <1>2, <1>3, FS_AddElement
  <2>2. J \cup {l} \subseteq H
    BY <1>3
  <2> QED BY <1>2, <2>1, <2>2, FS_Subset
<1> QED BY <1>1, <1>2, <1>3, FS_Subset, FS_CardinalityType

\* What the bound is made of, before a step and after it.
LEMMA Counts ==
    ASSUME TypeOK, TypeOK', IsFiniteSet(Link), NEW q \in Peer, NEW f,
           NEW pcs
    PROVE  /\ Holding(q, f, pcs) \in SUBSET Into(q)
           /\ Holding(q, f, pcs)' \in SUBSET Into(q)
           /\ Cardinality(Into(q)) \in Nat
           /\ Cardinality(Holding(q, f, pcs)) \in Nat
           /\ Cardinality(Holding(q, f, pcs)') \in Nat
           /\ Cardinality(Holding(q, f, pcs)') <= Cardinality(Into(q))
           /\ Cardinality(Places(client_tx[q], f)) \in Nat
           /\ Cardinality(Places(client_tx[q], f)') \in Nat
<1>1. /\ Holding(q, f, pcs) \in SUBSET Into(q)
      /\ Holding(q, f, pcs)' \in SUBSET Into(q)
  BY DEF Holding
<1>2. client_tx[q] \in Seq(Command) /\ client_tx'[q] \in Seq(Command)
  BY DEF TypeOK
<1> QED BY <1>1, <1>2, LinksCounted, PlacesFinite

\* The two numbers that are compared with the bound are naturals, and so is the bound.
LEMMA CopiesNat ==
    ASSUME TypeOK, TypeOK', IsFiniteSet(Link), NEW q \in Peer, NEW f, NEW pcs, NEW n \in Nat
    PROVE  /\ Copies(q, f, pcs) \in Nat /\ Copies(q, f, pcs)' \in Nat
           /\ Cardinality(Into(q)) * (1 + n) \in Nat
           /\ Cardinality(Into(q)) * n \in Nat
BY Counts DEF Copies

\* A step that lets nobody new hold the command, and shows it only to the user of a task
\* that then lets it go.
LEMMA CountKept ==
    ASSUME TypeOK, TypeOK', IsFiniteSet(Link), NEW q \in Peer, NEW f,
           NEW n \in Nat, Counted(q, f, n),
           (Key(f) \in processed_commands[q])' <=> Key(f) \in processed_commands[q],
           NEW pcs,
           pcs = IF Key(f) \in processed_commands[q] THEN {"mark", "apply"} ELSE {"apply"},
           Holding(q, f, pcs)' \subseteq Holding(q, f, pcs),
           \/ UNCHANGED client_tx[q]
           \/ \E g \in Command : client_tx'[q] = Append(client_tx[q], g) /\ g # f
           \/ /\ f \in Command /\ client_tx'[q] = Append(client_tx[q], f)
              /\ \E l \in Holding(q, f, pcs) : l \notin Holding(q, f, pcs)'
    PROVE  Counted(q, f, n)'
<1>1. Copies(q, f, pcs)' <= Copies(q, f, pcs)
  <2> DEFINE H == Holding(q, f, pcs)
             J == Holding(q, f, pcs)'
             shown == Cardinality(Places(client_tx[q], f))
             later == Cardinality(Places(client_tx[q], f)')
  <2>1. H \in SUBSET Into(q) /\ J \in SUBSET H
    BY Counts
  <2>2. /\ Cardinality(J) <= Cardinality(H)
        /\ \A l \in H \ J : Cardinality(J) + 1 <= Cardinality(H)
    <3> HIDE DEF H, J
    <3> QED BY <2>1, LinksCounted
  <2>3. /\ shown \in Nat /\ later \in Nat
        /\ Cardinality(H) \in Nat /\ Cardinality(J) \in Nat
    BY Counts
  <2>4. \/ later = shown
        \/ later = shown + 1 /\ \E l \in H : l \notin J
    <3>1. client_tx[q] \in Seq(Command)
      BY DEF TypeOK
    <3>2. CASE UNCHANGED client_tx[q]
      BY <3>2
    <3>3. CASE \E g \in Command : client_tx'[q] = Append(client_tx[q], g) /\ g # f
      BY <2>3, <3>1, <3>3, PlacesAppended
    <3>4. CASE /\ f \in Command /\ client_tx'[q] = Append(client_tx[q], f)
               /\ \E l \in H : l \notin J
      BY <2>3, <3>1, <3>4, PlacesAppended
    <3> QED BY <3>2, <3>3, <3>4
  <2> HIDE DEF H, J, shown, later
  <2>5. later + Cardinality(J) <= shown + Cardinality(H)
    BY <2>2, <2>3, <2>4
  <2> QED BY <2>5 DEF Copies, H, J, shown, later
<1>2. Key(f)' = Key(f)
  BY DEF Key
<1>3. \A k \in Nat : Copies(q, f, pcs) <= k => Copies(q, f, pcs)' <= k
  <2>1. Copies(q, f, pcs) \in Nat /\ Copies(q, f, pcs)' \in Nat
    BY CopiesNat
  <2> QED BY <1>1, <2>1
<1>4. /\ Cardinality(Into(q)) * (1 + n) \in Nat
      /\ Cardinality(Into(q)) * n \in Nat
  BY CopiesNat
<1> QED BY <1>2, <1>3, <1>4 DEF Counted

\* A peer that loses marks, n of them so far, but no task, and shows nothing meanwhile.
LEMMA MarksLost ==
    ASSUME TypeOK, TypeOK', IsFiniteSet(Link), NEW q \in Peer, NEW f,
           NEW n \in Nat, Counted(q, f, n),
           UNCHANGED client_tx, processed_commands'[q] \subseteq processed_commands[q],
           \A l \in Into(q) : task'[l] = task[l] \/ task'[l].pc \notin {"mark", "apply"}
    PROVE  Counted(q, f, n + 1)'
<1> DEFINE N == Cardinality(Into(q))
<1>1. ASSUME NEW pcs, pcs \subseteq {"mark", "apply"}
      PROVE  Copies(q, f, pcs)' <= Copies(q, f, {"mark", "apply"})
  <2>1. Holding(q, f, pcs)' \subseteq Holding(q, f, {"mark", "apply"})
    BY <1>1 DEF Holding
  <2> QED BY <2>1, Counts, LinksCounted DEF Copies
<1>2. Copies(q, f, {"apply"})' <= Copies(q, f, {"apply"})
  <2>1. Holding(q, f, {"apply"})' \subseteq Holding(q, f, {"apply"})
    BY DEF Holding
  <2> QED BY <2>1, Counts, LinksCounted DEF Copies
<1>3. N \in Nat
  BY Counts
<1>4. /\ N * (1 + n) = N * n + N
      /\ N * (1 + (n + 1)) = N * n + N + N
      /\ N * (n + 1) = N * n + N
      /\ N * n \in Nat
  BY <1>3
<1>5. /\ Copies(q, f, {"apply"}) \in Nat /\ Copies(q, f, {"mark", "apply"}) \in Nat
      /\ Copies(q, f, {"apply"})' \in Nat /\ Copies(q, f, {"mark", "apply"})' \in Nat
  BY CopiesNat
<1> HIDE DEF N
<1>6. IF Key(f) \in processed_commands[q]
      THEN Copies(q, f, {"mark", "apply"}) <= N * n + N
      ELSE Copies(q, f, {"apply"}) <= N * n
  BY <1>4 DEF Counted, N
<1>7. /\ Key(f) \in processed_commands[q]
           => Copies(q, f, {"mark", "apply"})' <= N * n + N + N
      /\ Copies(q, f, {"apply"})' <= N * n + N
  BY <1>1, <1>2, <1>3, <1>4, <1>5, <1>6
<1>8. Key(f)' = Key(f) /\ (Key(f)' \in processed_commands'[q] => Key(f) \in processed_commands[q])
  BY DEF Key
<1> QED BY <1>4, <1>7, <1>8 DEF Counted, N

\* Every step keeps the count of every command at every peer; an expiry costs a mark.
LEMMA CountStep ==
    ASSUME TypeOK, TypeOK', [Next]_vars, IsFiniteSet(Link),
           NEW q \in Peer, NEW f \in Command, NEW n \in Nat, Counted(q, f, n)
    PROVE  \/ UNCHANGED expiries /\ Counted(q, f, n)'
           \/ expiries' = expiries + 1 /\ Counted(q, f, n + 1)'
<1> DEFINE pcs == IF Key(f) \in processed_commands[q] THEN {"mark", "apply"} ELSE {"apply"}
           held == Holding(q, f, pcs)
           Same == UNCHANGED expiries /\ Counted(q, f, n)'
<1>K. Key(f)' = Key(f)
  BY DEF Key
<1>1. ASSUME UNCHANGED <<client_tx, processed_commands, expiries>>,
             \A l \in Into(q) :
                \/ task'[l] = task[l]
                \/ task'[l].pc \notin pcs
                \/ task'[l].cmd # f
      PROVE  Same
  <2>1. held' \subseteq held
    BY <1>K, <1>1 DEF Holding
  <2> QED BY <1>1, <1>K, <2>1, CountKept
<1>2. ASSUME NEW r \in Request, ClientMessage(r) PROVE Same
  BY <1>1, <1>2 DEF ClientMessage
<1>3. ASSUME NEW l \in Link, ReadFrame(l) PROVE Same
  <2> DEFINE g == Head(wire[l])
  <2>1. CASE Resume(l) \/ Close(l)
    <3>1. \A k \in Link : task'[k] = task[k] \/ task'[k].pc \notin {"mark", "apply"}
      <4>1. CASE Resume(l)
        BY <4>1 DEF Resume, Idle, TypeOK, TaskOK
      <4>2. CASE Close(l)
        BY <4>2 DEF Close, TypeOK, TaskOK
      <4> QED BY <2>1, <4>1, <4>2
    <3> QED BY <1>1, <1>3, <3>1 DEF ReadFrame, Into
  <2>2. CASE /\ task' = [task EXCEPT ![l] = [pc |-> "mark", cmd |-> g]]
             /\ ~ CheckDuplicate(l[2], g)
    <3>1. /\ task'[l].pc = "mark" /\ task'[l].cmd = g
          /\ \A k \in Link \ {l} : task'[k] = task[k]
      BY <2>2 DEF TypeOK, TaskOK
    <3>2. l \in Into(q) /\ g = f => "mark" \notin pcs
      BY <2>2 DEF Into, CheckDuplicate
    <3> QED BY <1>1, <1>3, <3>1, <3>2 DEF ReadFrame, Into
  <2> QED BY <1>3, <2>1, <2>2 DEF ReadFrame
<1>4. ASSUME NEW l \in Link, SetProcessed(l) PROVE Same
  <2> DEFINE g == task[l].cmd
  <2>1. /\ task[l].pc = "mark" /\ task'[l].pc = "apply" /\ task'[l].cmd = g
        /\ \A k \in Link \ {l} : task'[k] = task[k]
        /\ UNCHANGED <<client_tx, expiries>>
    BY <1>4 DEF SetProcessed, TypeOK, TaskOK
  <2>2. /\ l[2] # q => UNCHANGED processed_commands[q]
        /\ l[2] = q => processed_commands'[q] = processed_commands[q] \cup {Key(g)}
    BY <1>4 DEF SetProcessed, TypeOK
  <2>3. CASE Key(f) \in processed_commands[q]
    <3>1. held' \subseteq held
      BY <1>K, <2>1, <2>2, <2>3 DEF Holding, Into
    <3> QED BY <1>K, <2>1, <2>2, <2>3, <3>1, CountKept
  <2>4. CASE Key(f) \notin processed_commands[q] /\ Key(f) \notin processed_commands'[q]
    <3>1. ~ (l \in Into(q) /\ g = f)
      BY <2>2, <2>4 DEF Into
    <3>2. Holding(q, f, {"apply"})' \subseteq Holding(q, f, {"apply"})
      BY <2>1, <3>1 DEF Holding, Into
    <3> QED BY <1>K, <2>1, <2>4, <3>2, CountKept
  <2>5. CASE Key(f) \notin processed_commands[q] /\ Key(f) \in processed_commands'[q]
    <3> DEFINE N == Cardinality(Into(q))
               shown == Cardinality(Places(client_tx[q], f))
    <3>1. /\ N \in Nat /\ shown \in Nat
          /\ Cardinality(Holding(q, f, {"apply"})) \in Nat
          /\ Cardinality(Holding(q, f, {"mark", "apply"})') \in Nat
          /\ Cardinality(Holding(q, f, {"mark", "apply"})') <= N
      BY Counts
    <3>2. shown + Cardinality(Holding(q, f, {"apply"})) <= N * n
      BY <2>5 DEF Counted, Copies
    <3>3. Copies(q, f, {"mark", "apply"})'
            = shown + Cardinality(Holding(q, f, {"mark", "apply"})')
      BY <2>1 DEF Copies
    <3>4. N * (1 + n) = N * n + N /\ N * n \in Nat
      BY <3>1
    <3> HIDE DEF N, shown
    <3>5. Copies(q, f, {"mark", "apply"})' <= N * (1 + n)
      BY <3>1, <3>2, <3>3, <3>4
    <3> QED BY <1>K, <2>1, <2>5, <3>5 DEF Counted, N
  <2> QED BY <2>3, <2>4, <2>5
<1>5. ASSUME NEW l \in Link, Apply(l) PROVE Same
  <2> DEFINE g == task[l].cmd
  <2>1. /\ task[l].pc = "apply" /\ g \in Command /\ l[2] \in Peer
        /\ UNCHANGED <<processed_commands, expiries>>
    BY <1>5, CommandOrText
       DEF Apply, ApplyOpen, ApplyDirected, ApplyPing, ApplyWhisper, ApplyExtension,
           Applying, TypeOK, TaskOK
  <2>2. /\ task'[l].pc \notin {"mark", "apply"}
        /\ \A k \in Link \ {l} : task'[k] = task[k]
    <3>1. Resume(l) \/ Close(l) \/ task' = [task EXCEPT ![l].pc = "back"]
      BY <1>5 DEF Apply, ApplyOpen, ApplyDirected, ApplyPing, ApplyWhisper, ApplyExtension
    <3>2. CASE Resume(l)
      BY <3>2 DEF Resume, Idle, TypeOK, TaskOK
    <3>3. CASE Close(l)
      BY <3>3 DEF Close, TypeOK, TaskOK
    <3>4. CASE task' = [task EXCEPT ![l].pc = "back"]
      BY <3>4 DEF TypeOK, TaskOK
    <3> QED BY <3>1, <3>2, <3>3, <3>4
  <2>3. held' \subseteq held /\ l \notin held'
    <3>1. pcs' = pcs /\ pcs \subseteq {"mark", "apply"}
      BY <1>K, <2>1
    <3> HIDE DEF pcs
    <3> QED BY <2>1, <2>2, <3>1 DEF Holding, Into
  <2>4. CASE UNCHANGED client_tx
    BY <1>K, <2>1, <2>3, <2>4, CountKept
  <2>5. CASE Show(l[2], g)
    <3>1. /\ l[2] = q => client_tx'[q] = Append(client_tx[q], g)
          /\ l[2] # q => UNCHANGED client_tx[q]
      BY <2>5 DEF Show, TypeOK
    <3>2. l[2] = q /\ g = f => l \in held
      BY <2>1 DEF Holding, Into
    <3> QED BY <1>K, <2>1, <2>3, <3>1, <3>2, CountKept
  <2> QED BY <1>5, <2>4, <2>5
          DEF Apply, ApplyOpen, ApplyDirected, ApplyPing, ApplyWhisper, ApplyExtension
<1>6. ASSUME NEW l \in Link, WriteBack(l) PROVE Same
  <2>1. \A k \in Link : task'[k] = task[k] \/ task'[k].pc \notin pcs
    BY <1>6 DEF WriteBack, Resume, Idle, TypeOK, TaskOK
  <2> QED BY <1>1, <1>6, <2>1 DEF WriteBack, Into
<1>7. ASSUME NEW l \in Link, WriteLost(l) \/ WriteFails(l) PROVE Same
  BY <1>1, <1>7 DEF WriteLost, WriteFails
<1>8. ASSUME NEW p \in Peer, Expire(p) PROVE expiries' = expiries + 1 /\ Counted(q, f, n + 1)'
  <2>1. /\ expiries' = expiries + 1 /\ UNCHANGED <<client_tx, task>>
        /\ processed_commands'[q] \subseteq processed_commands[q]
    BY <1>8 DEF Expire, TypeOK
  <2> QED BY <2>1, MarksLost
<1>9. CASE UNCHANGED vars
  BY <1>1, <1>9 DEF vars
<1> QED
  BY <1>2, <1>3, <1>4, <1>5, <1>6, <1>7, <1>8, <1>9 DEF Next, HandleConnection

\* At first nobody has shown anything, or holds anything to show.
LEMMA CountInit ==
    ASSUME IsFiniteSet(Link), Init, NEW q \in Peer, NEW f \in Command
    PROVE  Counted(q, f, 0)
<1>1. Places(client_tx[q], f) = {} /\ Holding(q, f, {"apply"}) = {}
  <2>1. Len(client_tx[q]) = 0
    BY DEF Init
  <2> QED BY <2>1 DEF Init, Places, Holding, Idle, Into
<1>2. Key(f) \notin processed_commands[q]
  BY DEF Init
<1>3. Cardinality(Into(q)) \in Nat
  BY LinksCounted
<1>4. Copies(q, f, {"apply"}) = 0
  BY <1>1, FS_EmptySet DEF Copies
<1> QED BY <1>2, <1>3, <1>4 DEF Counted

\* Who has lost n marks has shown it once per incoming connection and n times as often again.
LEMMA CountedShown ==
    ASSUME TypeOK, IsFiniteSet(Link), NEW q \in Peer, NEW f, NEW n \in Nat, Counted(q, f, n)
    PROVE  Cardinality(Places(client_tx[q], f)) <= Cardinality(Into(q)) * (1 + n)
<1> DEFINE N == Cardinality(Into(q))
<1>1. N \in Nat /\ Cardinality(Places(client_tx[q], f)) \in Nat
  BY LinksCounted, PlacesFinite DEF TypeOK
<1>2. \A pcs : Cardinality(Holding(q, f, pcs)) \in Nat
  BY LinksCounted DEF Holding
<1>3. N * (1 + n) = N * n + N /\ N * n \in Nat
  BY <1>1
<1> HIDE DEF N
<1>4. \E pcs : Copies(q, f, pcs) <= N * n + N
  BY <1>1, <1>2, <1>3 DEF Counted, Copies, N
<1> QED BY <1>1, <1>2, <1>3, <1>4 DEF Copies, N

\* Copies of a command racing each other, and entries that expire, show it to a user at most
\* once per incoming connection and as often again per expired entry.
THEOREM DuplicatesAreBounded ==
    ASSUME IsFiniteSet(Link)
    PROVE  Spec => []DuplicatesBounded
<1> DEFINE AllCounted == \A q \in Peer : \A f \in Command : Counted(q, f, expiries)
<1>1. Init => AllCounted
  BY CountInit DEF Init
<1>2. TypeOK /\ AllCounted /\ [Next]_vars => AllCounted'
  <2> SUFFICES ASSUME TypeOK, AllCounted, [Next]_vars, NEW q \in Peer, NEW f \in Command
               PROVE  Counted(q, f, expiries)'
    OBVIOUS
  <2>1. PICK n \in Nat : n = expiries
    BY DEF TypeOK
  <2>2. \/ expiries' = n /\ Counted(q, f, n)'
        \/ expiries' = n + 1 /\ Counted(q, f, n + 1)'
    BY <2>1, TypeStep, CountStep
  <2> QED BY <2>2 DEF Counted
<1>3. TypeOK /\ AllCounted => DuplicatesBounded
  BY CountedShown DEF DuplicatesBounded, TypeOK
<1> QED BY <1>1, <1>2, <1>3, TypeCorrect, PTL DEF Spec

-----------------------------------------------------------------------------
(* In which order a user is shown what a sender says.                       *)

\* A queue that has taken one more item: what waits in it, and where.
LEMMA OneMore ==
    ASSUME NEW S, NEW s \in Seq(S), NEW x \in S
    PROVE  /\ Len(s) \in Nat /\ Len(Append(s, x)) = Len(s) + 1
           /\ Append(s, x)[Len(s) + 1] = x
           /\ \A i \in 1..Len(s) : Append(s, x)[i] = s[i]
BY LenProperties, AppendProperties

\* What s has said is a set of commands, which it shows to itself in no way.
LEMMA SaidFacts ==
    ASSUME IInv, NEW s
    PROVE  /\ SaidBy(s) \subseteq Command /\ SaidBy(s) \subseteq issued
           /\ \A f \in SaidBy(s) : f.source = s /\ f.kind \in Open /\ f.seq \in Nat
           /\ Text \notin SaidBy(s)
BY CommandOrText, CommandFields DEF IInv, TypeOK, SaidBy

\* What a connection task holds, or a wire carries, of s is not on its way to s.
LEMMA NotToItself ==
    ASSUME IInv, NEW s, NEW l \in Link, NEW f \in SaidBy(s), Held(l, f) \/ Waits(l, f)
    PROVE  l[2] # s
<1>1. f # Text /\ f.source = s
  BY SaidFacts
<1>2. CASE Held(l, f)
  BY <1>1, <1>2 DEF Held, IInv, Accounted, TaskCarries, MayCarry
<1>3. CASE Waits(l, f)
  BY <1>1, <1>3 DEF Waits, IInv, Accounted, WireCarries, MayQueue, MayCarry
<1> QED BY <1>2, <1>3

\* A step that does nothing with what s has said, but for dropping what waits on a
\* connection that is dropped already.
LEMMA QuietStep ==
    ASSUME IInv, IInv', NEW s \in Peer, NEW up \in [Peer -> Peer], OrderInv(s, up),
           SaidBy(s)' = SaidBy(s), UNCHANGED taken,
           \A q \in Peer : \/ UNCHANGED client_tx[q]
                           \/ \E g \in Command \ SaidBy(s) :
                                 client_tx'[q] = Append(client_tx[q], g),
           \A l \in Link : \/ UNCHANGED task[l]
                           \/ \A f \in SaidBy(s) : ~ Held(l, f) /\ ~ Held(l, f)',
           \A l \in Link :
              task'[l].pc # "closed" =>
                 /\ task[l].pc # "closed"
                 /\ l[2] \in peers[l[1]] => l[2] \in peers'[l[1]]
                 /\ \/ UNCHANGED wire[l]
                    \/ \E g \in Frame \ SaidBy(s) : wire'[l] = Append(wire[l], g),
           \A l \in Link : \A f \in SaidBy(s) : Waits(l, f)' => Waits(l, f)
    PROVE  OrderInv(s, up)'
<1> USE SaidFacts
<1>1. ASSUME NEW q \in Peer
      PROVE  /\ client_tx[q] \in Seq(Command)
             /\ \A f \in SaidBy(s) : Has(q, s, f)' <=> Has(q, s, f)
             /\ \A i \in 1..Len(client_tx'[q]) : client_tx'[q][i] \in SaidBy(s) =>
                   i \in 1..Len(client_tx[q]) /\ client_tx'[q][i] = client_tx[q][i]
             /\ \A i \in 1..Len(client_tx[q]) :
                   i \in 1..Len(client_tx'[q]) /\ client_tx'[q][i] = client_tx[q][i]
  <2>1. client_tx[q] \in Seq(Command)
    BY DEF IInv, TypeOK
  <2>2. CASE UNCHANGED client_tx[q]
    BY <2>1, <2>2 DEF Has
  <2>3. CASE \E g \in Command \ SaidBy(s) : client_tx'[q] = Append(client_tx[q], g)
    BY <2>1, <2>3, OneMore DEF Has
  <2> QED BY <2>1, <2>2, <2>3
<1>2. ASSUME NEW l \in Link
      PROVE  /\ l[1] \in Peer /\ l[2] \in Peer
             /\ \A f \in SaidBy(s) : Held(l, f)' <=> Held(l, f)
             /\ \A f \in SaidBy(s) : Held(l, f) => UNCHANGED task[l]
  BY DEF Held
<1>3. ASSUME NEW l \in Link, task'[l].pc # "closed"
      PROVE  /\ \A f \in SaidBy(s) : Waits(l, f) => Waits(l, f)'
             /\ \A i \in 1..Len(wire'[l]) : wire'[l][i] \in SaidBy(s) =>
                   i \in 1..Len(wire[l]) /\ wire'[l][i] = wire[l][i]
             /\ \A i \in 1..Len(wire[l]) :
                   i \in 1..Len(wire'[l]) /\ wire'[l][i] = wire[l][i]
  <2>1. wire[l] \in Seq(Frame)
    BY DEF IInv, TypeOK
  <2>2. CASE UNCHANGED wire[l]
    BY <2>1, <2>2 DEF Waits
  <2>3. CASE \E g \in Frame \ SaidBy(s) : wire'[l] = Append(wire[l], g)
    BY <2>1, <2>3, OneMore DEF Waits
  <2> QED BY <1>3, <2>1, <2>2, <2>3
<1>4. ShownInOrder(s)'
  <2> SUFFICES ASSUME NEW q \in Peer \ {s}, NEW i \in 1..Len(client_tx'[q]),
                      NEW g \in SaidBy(s), client_tx'[q][i] \in SaidBy(s),
                      g.seq < client_tx'[q][i].seq
               PROVE  \E h \in 1..i : client_tx'[q][h] = g
    BY DEF ShownInOrder, Earlier
  <2>1. i \in 1..Len(client_tx[q]) /\ client_tx'[q][i] = client_tx[q][i]
    BY <1>1
  <2>2. PICK h \in 1..i : client_tx[q][h] = g
    BY <2>1 DEF OrderInv, ShownInOrder, Earlier
  <2>3. h \in 1..Len(client_tx[q])
    BY <1>1, <2>1, LenProperties
  <2> QED BY <1>1, <2>2, <2>3
<1>5. ShownOnTheWay(s, up)'
  BY <1>1 DEF OrderInv, ShownOnTheWay
<1>6. TakenInOrder(s, up)'
  BY <1>1, <1>2 DEF OrderInv, TakenInOrder, Into
<1>7. ASSUME NEW l \in Link, task'[l].pc # "closed"
      PROVE  l[2] \in peers'[l[1]]
  BY <1>7 DEF OrderInv
<1>8. ASSUME NEW l \in Link, l[2] # s PROVE Returns(l, s, up)'
  BY <1>1, <1>2, <1>8 DEF OrderInv, Returns
<1>9. ASSUME NEW l \in Link, l[2] # s, up[l[2]] = l[1] PROVE HeldInOrder(l, s)'
  BY <1>1, <1>2, <1>9 DEF OrderInv, HeldInOrder, Earlier
<1>10. ASSUME NEW l \in Link, l[2] # s, up[l[2]] = l[1], task'[l].pc # "closed"
       PROVE  WaitsInOrder(l, s)' /\ NoneMissing(l, s)'
  <2>1. WaitsInOrder(l, s) /\ NoneMissing(l, s)
    BY <1>10 DEF OrderInv
  <2>2. WaitsInOrder(l, s)'
    <3> SUFFICES ASSUME NEW f \in SaidBy(s), NEW g \in SaidBy(s), g.seq < f.seq,
                        NEW i \in 1..Len(wire'[l]), wire'[l][i] = f
                 PROVE  \/ Has(l[2], s, g)' \/ Held(l, g)'
                        \/ \E j \in 1..Len(wire'[l]) : j < i /\ wire'[l][j] = g
      BY DEF WaitsInOrder, Earlier
    <3>1. i \in 1..Len(wire[l]) /\ wire[l][i] = f
      BY <1>3, <1>10
    <3>2. \/ Has(l[2], s, g) \/ Held(l, g)
          \/ \E j \in 1..Len(wire[l]) : j < i /\ wire[l][j] = g
      BY <2>1, <3>1 DEF WaitsInOrder, Earlier
    <3> QED BY <1>1, <1>2, <1>3, <1>10, <3>2
  <2>3. NoneMissing(l, s)'
    BY <1>1, <1>2, <1>3, <1>10, <2>1 DEF NoneMissing
  <2> QED BY <2>2, <2>3
<1> QED BY <1>4, <1>5, <1>6, <1>7, <1>8, <1>9, <1>10 DEF OrderInv

\* What is in a queue that has taken one more item.
LEMMA OneMoreIn ==
    ASSUME NEW S, NEW s \in Seq(S), NEW x \in S, NEW g
    PROVE  (\E i \in 1..Len(Append(s, x)) : Append(s, x)[i] = g)
             <=> (\E i \in 1..Len(s) : s[i] = g) \/ g = x
<1>1. /\ Len(s) \in Nat /\ Len(Append(s, x)) = Len(s) + 1
      /\ Append(s, x)[Len(s) + 1] = x
      /\ \A i \in 1..Len(s) : Append(s, x)[i] = s[i]
  BY OneMore
<1>2. /\ \A i \in 1..Len(Append(s, x)) : i \in 1..Len(s) \/ i = Len(s) + 1
      /\ \A i \in 1..Len(s) : i \in 1..Len(Append(s, x))
      /\ Len(s) + 1 \in 1..Len(Append(s, x))
  BY <1>1
<1> QED BY <1>1, <1>2

\* A message of s that comes over a connection, and is taken from it, is followed in no
\* list by one the receiver lacks: it has all earlier ones, and so has the peer before it.
LEMMA EarlierThere ==
    ASSUME IInv, NEW s \in Peer, NEW up \in [Peer -> Peer], OrderInv(s, up),
           NEW l \in Link, NEW f \in SaidBy(s), Held(l, f)
    PROVE  /\ l[2] # s
           /\ \A g \in SaidBy(s) : Earlier(g, f) => Has(l[2], s, g)
           /\ Has(up[l[2]], s, f)
<1>1. l[2] # s /\ l[1] \in Peer /\ l[2] \in Peer
  BY NotToItself
<1>2. Returns(l, s, up)
  BY <1>1 DEF OrderInv
<1>3. CASE up[l[2]] = l[1]
  <2>1. HeldInOrder(l, s)
    BY <1>1, <1>3 DEF OrderInv
  <2> QED BY <1>1, <1>2, <1>3, <2>1 DEF HeldInOrder, Returns
<1>4. CASE up[l[2]] # l[1]
  <2>1. Has(l[2], s, f)
    BY <1>2, <1>4 DEF Returns
  <2>2. Has(up[l[2]], s, f)
    BY <1>1, <2>1 DEF OrderInv, ShownOnTheWay
  <2>3. PICK i \in 1..Len(client_tx[l[2]]) : client_tx[l[2]][i] = f
    BY <1>1, <2>1 DEF Has
  <2>4. ASSUME NEW g \in SaidBy(s), Earlier(g, f) PROVE Has(l[2], s, g)
    <3>1. PICK h \in 1..i : client_tx[l[2]][h] = g
      BY <1>1, <2>3, <2>4 DEF OrderInv, ShownInOrder
    <3>2. h \in 1..Len(client_tx[l[2]])
      <4>1. Len(client_tx[l[2]]) \in Nat
        BY <1>1, LenProperties DEF IInv, TypeOK
      <4> QED BY <2>3, <3>1, <4>1
    <3> QED BY <3>1, <3>2 DEF Has
  <2> QED BY <1>1, <2>2, <2>4
<1> QED BY <1>3, <1>4

\* A message of s is shown and passed on.
LEMMA AppliedInOrder ==
    ASSUME IInv, IInv', NEW s \in Peer, NEW up \in [Peer -> Peer], Hears(s, up),
           OrderInv(s, up), NEW l \in Link, ApplyOpen(l), task[l].cmd \in SaidBy(s)
    PROVE  OrderInv(s, up)'
<1> DEFINE f == task[l].cmd
           p == l[2]
<1> USE SaidFacts
<1>1. /\ f \in Command /\ f \in Frame /\ f.source = s /\ Held(l, f)
      /\ p \in Peer /\ l[1] \in Peer
      /\ UNCHANGED <<peers, taken, issued>>
      /\ SaidBy(s)' = SaidBy(s)
      /\ Show(p, f) /\ Broadcast(p, s, f) /\ Resume(l)
  BY CommandOrText DEF ApplyOpen, Applying, Held, SaidBy
<1>2. /\ p # s
      /\ \A g \in SaidBy(s) : Earlier(g, f) => Has(p, s, g)
      /\ Has(up[p], s, f)
  BY <1>1, EarlierThere
<1>3. /\ client_tx[p] \in Seq(Command)
      /\ client_tx'[p] = Append(client_tx[p], f)
      /\ \A q \in Peer \ {p} : client_tx'[q] = client_tx[q]
  BY <1>1 DEF Show, IInv, TypeOK
<1>4. \A q \in Peer : \A g : Has(q, s, g)' <=> Has(q, s, g) \/ (q = p /\ g = f)
  <2>1. ASSUME NEW g PROVE Has(p, s, g)' <=> Has(p, s, g) \/ g = f
    <3>1. (\E i \in 1..Len(client_tx'[p]) : client_tx'[p][i] = g)
            <=> (\E i \in 1..Len(client_tx[p]) : client_tx[p][i] = g) \/ g = f
      BY <1>1, <1>3, OneMoreIn
    <3> QED BY <1>2, <3>1 DEF Has
  <2>2. ASSUME NEW q \in Peer \ {p}, NEW g PROVE Has(q, s, g)' <=> Has(q, s, g)
    BY <1>3, <2>2 DEF Has
  <2> QED BY <1>2, <2>1, <2>2
<1>5. /\ \A g : Held(l, g) => g = f
      /\ \A g : ~ Held(l, g)'
      /\ \A k \in Link \ {l} : task'[k] = task[k] /\ \A g : Held(k, g)' <=> Held(k, g)
      /\ \A k \in Link : task'[k].pc = "closed" <=> task[k].pc = "closed"
  BY <1>1 DEF Resume, Idle, Held, IInv, TypeOK, TaskOK
<1>6. \A k \in Link : /\ k[1] \in Peer /\ k[2] \in Peer /\ k[1] # k[2]
                      /\ wire[k] \in Seq(Frame)
  BY DEF IInv, TypeOK
<1>7. \A k \in Link :
         /\ UNCHANGED wire[k] \/ (k[1] = p /\ k[2] # s /\ wire'[k] = Append(wire[k], f))
         /\ \A g : Waits(k, g) => Waits(k, g)'
         /\ \A g : Waits(k, g)' => Waits(k, g) \/ (g = f /\ k[1] = p /\ k[2] # s)
         /\ \A g : g = f /\ k[1] = p /\ k[2] # s /\ k[2] \in peers[p] => Waits(k, g)'
  <2> SUFFICES ASSUME NEW k \in Link
               PROVE  /\ \/ UNCHANGED wire[k]
                         \/ k[1] = p /\ k[2] # s /\ wire'[k] = Append(wire[k], f)
                      /\ k[1] = p /\ k[2] # s /\ k[2] \in peers[p]
                           => wire'[k] = Append(wire[k], f)
                      /\ UNCHANGED wire[k] =>
                           \A g : Waits(k, g)' <=> Waits(k, g)
                      /\ wire'[k] = Append(wire[k], f) =>
                           \A g : Waits(k, g)' <=> Waits(k, g) \/ g = f
    OBVIOUS
  <2>1. /\ \/ UNCHANGED wire[k]
           \/ k[1] = p /\ k[2] # s /\ wire'[k] = Append(wire[k], f)
        /\ k[1] = p /\ k[2] # s /\ k[2] \in peers[p] => wire'[k] = Append(wire[k], f)
    BY <1>1 DEF Broadcast
  <2>2. UNCHANGED wire[k] => \A g : Waits(k, g)' <=> Waits(k, g)
    BY DEF Waits
  <2>3. wire'[k] = Append(wire[k], f) => \A g : Waits(k, g)' <=> Waits(k, g) \/ g = f
    BY <1>1, <1>6, OneMoreIn DEF Waits
  <2> QED BY <2>1, <2>2, <2>3
<1>8. ShownInOrder(s)'
  <2> SUFFICES ASSUME NEW q \in Peer \ {s}, NEW i \in 1..Len(client_tx'[q]),
                      NEW g \in SaidBy(s), client_tx'[q][i] \in SaidBy(s),
                      Earlier(g, client_tx'[q][i])
               PROVE  \E h \in 1..i : client_tx'[q][h] = g
    BY <1>1 DEF ShownInOrder, Earlier
  <2>1. client_tx[q] \in Seq(Command) /\ Len(client_tx[q]) \in Nat
    BY LenProperties DEF IInv, TypeOK
  <2>2. CASE i \in 1..Len(client_tx[q]) /\ \A h \in 1..Len(client_tx[q]) : client_tx'[q][h] = client_tx[q][h]
    <3>1. PICK h \in 1..i : client_tx[q][h] = g
      BY <2>2 DEF OrderInv, ShownInOrder
    <3> QED BY <2>1, <2>2, <3>1
  <2>3. CASE q = p
    <3>1. /\ Len(client_tx'[p]) = Len(client_tx[p]) + 1
          /\ client_tx'[p][Len(client_tx[p]) + 1] = f
          /\ \A h \in 1..Len(client_tx[p]) : client_tx'[p][h] = client_tx[p][h]
      BY <1>1, <1>3, OneMore
    <3>2. CASE i = Len(client_tx[p]) + 1
      <4>1. Has(p, s, g)
        BY <1>2, <2>3, <3>1, <3>2
      <4>2. PICK h \in 1..Len(client_tx[p]) : client_tx[p][h] = g
        BY <1>2, <4>1 DEF Has
      <4> QED BY <2>1, <2>3, <3>1, <3>2, <4>2
    <3>3. CASE i # Len(client_tx[p]) + 1
      <4>1. i \in 1..Len(client_tx[p])
        BY <2>1, <2>3, <3>1, <3>3
      <4> QED BY <2>2, <2>3, <3>1, <4>1
    <3> QED BY <3>2, <3>3
  <2>4. CASE q # p
    BY <1>3, <2>2, <2>4
  <2> QED BY <2>3, <2>4
<1>9. ShownOnTheWay(s, up)'
  BY <1>1, <1>2, <1>4 DEF OrderInv, ShownOnTheWay
<1>10. TakenInOrder(s, up)'
  <2> SUFFICES ASSUME NEW q \in Peer \ {s}, NEW g \in SaidBy(s) \cap taken[q]
               PROVE  \/ Has(q, s, g)'
                      \/ \E k \in Into(q) : /\ up[q] = k[1] /\ task'[k].pc = "apply"
                                            /\ Held(k, g)'
    BY <1>1 DEF TakenInOrder, Into
  <2>1. \/ Has(q, s, g)
        \/ \E k \in Into(q) : up[q] = k[1] /\ task[k].pc = "apply" /\ Held(k, g)
    BY DEF OrderInv, TakenInOrder
  <2> QED BY <1>4, <1>5, <2>1 DEF Into
<1>11. ASSUME NEW k \in Link, task'[k].pc # "closed" PROVE k[2] \in peers'[k[1]]
  BY <1>1, <1>5, <1>11 DEF OrderInv
<1>12. ASSUME NEW k \in Link, k[2] # s PROVE Returns(k, s, up)'
  <2>1. Returns(k, s, up)
    BY <1>12 DEF OrderInv
  <2> SUFFICES ASSUME NEW g \in SaidBy(s), Held(k, g)' \/ Waits(k, g)'
               PROVE  Has(IF up[k[2]] = k[1] THEN k[1] ELSE k[2], s, g)'
    BY <1>1 DEF Returns
  <2>2. CASE Held(k, g) \/ Waits(k, g)
    BY <1>4, <1>6, <2>1, <2>2 DEF Returns
  <2>3. CASE g = f /\ k[1] = p
    <3>1. up[k[2]] = k[1] \/ (k[1] # s /\ up[k[1]] = k[2])
      BY <1>12 DEF Hears
    <3> QED BY <1>2, <1>4, <1>6, <2>3, <3>1
  <2> QED BY <1>5, <1>7, <2>2, <2>3
<1>13. ASSUME NEW k \in Link, k[2] # s, up[k[2]] = k[1] PROVE HeldInOrder(k, s)'
  <2>1. HeldInOrder(k, s)
    BY <1>13 DEF OrderInv
  <2> QED BY <1>1, <1>4, <1>5, <1>6, <2>1 DEF HeldInOrder, Earlier
<1>14. ASSUME NEW k \in Link, k[2] # s, up[k[2]] = k[1], task'[k].pc # "closed"
       PROVE  WaitsInOrder(k, s)' /\ NoneMissing(k, s)'
  <2>1. WaitsInOrder(k, s) /\ NoneMissing(k, s) /\ k[2] \in peers[k[1]]
    BY <1>5, <1>14 DEF OrderInv
  <2>2. \A g : Has(k[2], s, g) \/ Held(k, g) => Has(k[2], s, g)' \/ Held(k, g)'
    BY <1>4, <1>5, <1>6
  <2>3. WaitsInOrder(k, s)'
    <3> SUFFICES ASSUME NEW e \in SaidBy(s), NEW g \in SaidBy(s), Earlier(g, e),
                        NEW i \in 1..Len(wire'[k]), wire'[k][i] = e
                 PROVE  \/ Has(k[2], s, g)' \/ Held(k, g)'
                        \/ \E j \in 1..Len(wire'[k]) : j < i /\ wire'[k][j] = g
      BY <1>1 DEF WaitsInOrder, Earlier
    <3>1. Len(wire[k]) \in Nat
      BY <1>6, LenProperties
    <3>2. CASE UNCHANGED wire[k]
      BY <2>1, <2>2, <3>2 DEF WaitsInOrder
    <3>3. CASE k[1] = p /\ wire'[k] = Append(wire[k], f)
      <4>1. /\ Len(wire'[k]) = Len(wire[k]) + 1
            /\ wire'[k][Len(wire[k]) + 1] = f
            /\ \A j \in 1..Len(wire[k]) : wire'[k][j] = wire[k][j]
        BY <1>1, <1>6, <3>3, OneMore
      <4>2. CASE i \in 1..Len(wire[k])
        <5>1. \/ Has(k[2], s, g) \/ Held(k, g)
              \/ \E j \in 1..Len(wire[k]) : j < i /\ wire[k][j] = g
          BY <2>1, <4>1, <4>2 DEF WaitsInOrder
        <5>2. ASSUME NEW j \in 1..Len(wire[k]), j < i, wire[k][j] = g
              PROVE  j \in 1..Len(wire'[k]) /\ wire'[k][j] = g
          BY <3>1, <4>1, <5>2
        <5> QED BY <2>2, <5>1, <5>2
      <4>3. CASE i = Len(wire[k]) + 1
        <5>1. Has(k[1], s, g)
          BY <1>2, <3>3, <4>1, <4>3
        <5>2. Has(k[2], s, g) \/ Held(k, g) \/ Waits(k, g)
          BY <2>1, <5>1 DEF NoneMissing
        <5>3. ASSUME Waits(k, g)
              PROVE  \E j \in 1..Len(wire'[k]) : j < i /\ wire'[k][j] = g
          BY <3>1, <4>1, <4>3, <5>3 DEF Waits
        <5> QED BY <2>2, <5>2, <5>3
      <4> QED BY <3>1, <4>1, <4>2, <4>3
    <3> QED BY <1>7, <3>2, <3>3
  <2>4. NoneMissing(k, s)'
    <3> SUFFICES ASSUME NEW g \in SaidBy(s), Has(k[1], s, g)'
                 PROVE  Has(k[2], s, g)' \/ Held(k, g)' \/ Waits(k, g)'
      BY <1>1 DEF NoneMissing
    <3>1. CASE Has(k[1], s, g)
      BY <1>7, <2>1, <2>2, <3>1 DEF NoneMissing
    <3>2. CASE k[1] = p /\ g = f
      BY <1>7, <1>14, <2>1, <3>2
    <3> QED BY <1>4, <1>6, <3>1, <3>2
  <2> QED BY <2>3, <2>4
<1> QED BY <1>8, <1>9, <1>10, <1>11, <1>12, <1>13, <1>14 DEF OrderInv

\* s says something: it is later than all it has said, and nobody has it yet.
LEMMA SaidInOrder ==
    ASSUME IInv, IInv', NEW s \in Peer, NEW up \in [Peer -> Peer], Hears(s, up),
           OrderInv(s, up), NEW r \in Request, ClientMessage(r), r.source = s, r.kind \in Open
    PROVE  OrderInv(s, up)'
<1> DEFINE f == Stamp(r, sequence_numbers[s])
<1> USE SaidFacts
<1>1. /\ f \in Command /\ f \in Frame /\ f.source = s /\ f.kind \in Open
      /\ f.seq = sequence_numbers[s] /\ f # Text
      /\ UNCHANGED <<peers, taken, task, client_tx>>
      /\ issued' = issued \cup {f}
      /\ SaidBy(s)' = SaidBy(s) \cup {f}
      /\ Broadcast(s, s, f)
  <2>1. f \in Command /\ f.source = s /\ f.seq = sequence_numbers[s] /\ f.kind = r.kind
    BY StampType DEF IInv, TypeOK, Stamp
  <2> QED BY <2>1, CommandOrText DEF ClientMessage, SaidBy
<1>2. /\ f \notin issued
      /\ \A g \in issued : g.source = s => g.seq < f.seq
      /\ \A g \in SaidBy(s) : ~ Earlier(f, g)
  <2>1. \A g \in issued : g.source = s => g.seq < f.seq /\ g.seq \in Nat
    BY <1>1, CommandFields DEF IInv, TypeOK, NumbersBelow
  <2>2. f.seq \in Nat
    BY <1>1, CommandFields
  <2> QED BY <1>1, <2>1, <2>2 DEF Earlier
<1>3. ~ Earlier(f, f)
  BY <1>1, CommandFields DEF Earlier
<1>4. /\ \A q \in Peer \ {s} : ~ Has(q, s, f) /\ f \notin taken[q]
      /\ \A l \in Link : ~ Held(l, f) /\ ~ Waits(l, f)
  <2>1. \A q \in Peer : \A i \in 1..Len(client_tx[q]) : client_tx[q][i] # f
    BY <1>2 DEF IInv, Accounted, ShownToTheRight
  <2>2. \A q \in Peer : f \notin taken[q]
    BY <1>2 DEF IInv, Accounted, MarkedTaken
  <2>3. \A l \in Link : ~ Held(l, f)
    BY <1>1, <1>2 DEF Held, IInv, Accounted, TaskCarries, MayCarry
  <2>4. \A l \in Link : ~ Waits(l, f)
    BY <1>1, <1>2 DEF Waits, IInv, Accounted, WireCarries, MayQueue, MayCarry
  <2> QED BY <2>1, <2>2, <2>3, <2>4 DEF Has
<1>5. /\ \A q \in Peer : \A g : Has(q, s, g)' <=> Has(q, s, g)
      /\ \A l \in Link : \A g : Held(l, g)' <=> Held(l, g)
  BY <1>1 DEF Has, Held
<1>6. \A k \in Link : /\ k[1] \in Peer /\ k[2] \in Peer /\ k[1] # k[2]
                      /\ wire[k] \in Seq(Frame) /\ Len(wire[k]) \in Nat
  BY LenProperties DEF IInv, TypeOK
<1>7. ASSUME NEW k \in Link
      PROVE  /\ UNCHANGED wire[k] \/ (k[1] = s /\ wire'[k] = Append(wire[k], f))
             /\ \A g : Waits(k, g) => Waits(k, g)'
             /\ \A g : Waits(k, g)' => Waits(k, g) \/ (g = f /\ k[1] = s /\ k[2] # s)
             /\ \A g : g = f /\ k[1] = s /\ k[2] # s /\ k[2] \in peers[s] => Waits(k, g)'
  <2>1. /\ \/ UNCHANGED wire[k]
           \/ k[1] = s /\ k[2] # s /\ wire'[k] = Append(wire[k], f)
        /\ k[1] = s /\ k[2] # s /\ k[2] \in peers[s] => wire'[k] = Append(wire[k], f)
    BY <1>1 DEF Broadcast
  <2>2. UNCHANGED wire[k] => \A g : Waits(k, g)' <=> Waits(k, g)
    BY DEF Waits
  <2>3. wire'[k] = Append(wire[k], f) => \A g : Waits(k, g)' <=> Waits(k, g) \/ g = f
    BY <1>1, <1>6, OneMoreIn DEF Waits
  <2> QED BY <2>1, <2>2, <2>3
<1>8. ShownInOrder(s)'
  <2> SUFFICES ASSUME NEW q \in Peer \ {s}, NEW i \in 1..Len(client_tx[q]),
                      NEW g \in SaidBy(s) \cup {f}, client_tx[q][i] \in SaidBy(s) \cup {f},
                      Earlier(g, client_tx[q][i])
               PROVE  \E h \in 1..i : client_tx[q][h] = g
    BY <1>1 DEF ShownInOrder, Earlier
  <2>1. client_tx[q][i] \in SaidBy(s)
    BY <1>4 DEF Has
  <2>2. g \in SaidBy(s)
    BY <1>2, <2>1
  <2> QED BY <2>1, <2>2 DEF OrderInv, ShownInOrder
<1>9. ShownOnTheWay(s, up)'
  BY <1>1, <1>4, <1>5 DEF OrderInv, ShownOnTheWay
<1>10. TakenInOrder(s, up)'
  <2> SUFFICES ASSUME NEW q \in Peer \ {s}, NEW g \in (SaidBy(s) \cup {f}) \cap taken[q]
               PROVE  \/ Has(q, s, g)'
                      \/ \E k \in Into(q) : up[q] = k[1] /\ task[k].pc = "apply" /\ Held(k, g)'
    BY <1>1 DEF TakenInOrder, Into
  <2>1. \/ Has(q, s, g)
        \/ \E k \in Into(q) : up[q] = k[1] /\ task[k].pc = "apply" /\ Held(k, g)
    BY <1>4 DEF OrderInv, TakenInOrder
  <2> QED BY <1>5, <2>1 DEF Into
<1>11. ASSUME NEW k \in Link, task'[k].pc # "closed" PROVE k[2] \in peers'[k[1]]
  BY <1>1, <1>11 DEF OrderInv
<1>12. ASSUME NEW k \in Link, k[2] # s PROVE Returns(k, s, up)'
  <2>1. Returns(k, s, up)
    BY <1>12 DEF OrderInv
  <2> SUFFICES ASSUME NEW g \in SaidBy(s) \cup {f}, Held(k, g)' \/ Waits(k, g)'
               PROVE  Has(IF up[k[2]] = k[1] THEN k[1] ELSE k[2], s, g)'
    BY <1>1 DEF Returns
  <2>2. CASE Held(k, g) \/ Waits(k, g)
    <3>1. g \in SaidBy(s)
      BY <1>4, <2>2
    <3> QED BY <1>5, <1>6, <2>1, <2>2, <3>1 DEF Returns
  <2>3. CASE g = f /\ k[1] = s
    <3>1. up[k[2]] = k[1]
      BY <1>12, <2>3 DEF Hears
    <3>2. \A e : Has(s, s, e)'
      BY DEF Has
    <3> QED BY <2>3, <3>1, <3>2
  <2> QED BY <1>5, <1>7, <2>2, <2>3
<1>13. ASSUME NEW k \in Link, k[2] # s, up[k[2]] = k[1] PROVE HeldInOrder(k, s)'
  <2>1. HeldInOrder(k, s)
    BY <1>13 DEF OrderInv
  <2> SUFFICES ASSUME NEW e \in SaidBy(s) \cup {f}, NEW g \in SaidBy(s) \cup {f},
                      Earlier(g, e), Held(k, e)'
               PROVE  Has(k[2], s, g)'
    BY <1>1 DEF HeldInOrder, Earlier
  <2>2. e \in SaidBy(s) /\ g \in SaidBy(s)
    BY <1>2, <1>4, <1>5
  <2> QED BY <1>5, <1>6, <2>1, <2>2 DEF HeldInOrder
<1>14. ASSUME NEW k \in Link, k[2] # s, up[k[2]] = k[1], task'[k].pc # "closed"
       PROVE  WaitsInOrder(k, s)' /\ NoneMissing(k, s)'
  <2>1. WaitsInOrder(k, s) /\ NoneMissing(k, s) /\ k[2] \in peers[k[1]]
    BY <1>1, <1>14 DEF OrderInv
  <2>2. \A g : Has(k[2], s, g) \/ Held(k, g) => Has(k[2], s, g)' \/ Held(k, g)'
    BY <1>5, <1>6
  <2>3. WaitsInOrder(k, s)'
    <3> SUFFICES ASSUME NEW e \in SaidBy(s) \cup {f}, NEW g \in SaidBy(s) \cup {f},
                        Earlier(g, e), NEW i \in 1..Len(wire'[k]), wire'[k][i] = e
                 PROVE  \/ Has(k[2], s, g)' \/ Held(k, g)'
                        \/ \E j \in 1..Len(wire'[k]) : j < i /\ wire'[k][j] = g
      BY <1>1 DEF WaitsInOrder, Earlier
    <3>0. g \in SaidBy(s)
      BY <1>2, <1>3
    <3>1. ASSUME i \in 1..Len(wire[k]), wire[k][i] = e
          PROVE  \/ Has(k[2], s, g) \/ Held(k, g)
                 \/ \E j \in 1..Len(wire[k]) : j < i /\ wire[k][j] = g
      <4>1. e \in SaidBy(s)
        BY <1>4, <3>1 DEF Waits
      <4> QED BY <2>1, <3>0, <3>1, <4>1 DEF WaitsInOrder
    <3>2. CASE UNCHANGED wire[k]
      BY <2>2, <3>1, <3>2
    <3>3. CASE k[1] = s /\ wire'[k] = Append(wire[k], f)
      <4>1. /\ Len(wire'[k]) = Len(wire[k]) + 1
            /\ wire'[k][Len(wire[k]) + 1] = f
            /\ \A j \in 1..Len(wire[k]) : wire'[k][j] = wire[k][j]
        BY <1>1, <1>6, <3>3, OneMore
      <4>2. CASE i \in 1..Len(wire[k])
        <5>1. \/ Has(k[2], s, g) \/ Held(k, g)
              \/ \E j \in 1..Len(wire[k]) : j < i /\ wire[k][j] = g
          BY <3>1, <4>1, <4>2
        <5> QED BY <1>6, <2>2, <4>1, <5>1
      <4>3. CASE i = Len(wire[k]) + 1
        <5>1. Has(k[1], s, g)
          BY <3>3 DEF Has
        <5>2. Has(k[2], s, g) \/ Held(k, g) \/ Waits(k, g)
          BY <2>1, <3>0, <5>1 DEF NoneMissing
        <5>3. ASSUME Waits(k, g)
              PROVE  \E j \in 1..Len(wire'[k]) : j < i /\ wire'[k][j] = g
          BY <1>6, <4>1, <4>3, <5>3 DEF Waits
        <5> QED BY <2>2, <5>2, <5>3
      <4> QED BY <1>6, <4>1, <4>2, <4>3
    <3> QED BY <1>7, <3>2, <3>3
  <2>4. NoneMissing(k, s)'
    <3> SUFFICES ASSUME NEW g \in SaidBy(s) \cup {f}, Has(k[1], s, g)'
                 PROVE  Has(k[2], s, g)' \/ Held(k, g)' \/ Waits(k, g)'
      BY <1>1 DEF NoneMissing
    <3>1. CASE g \in SaidBy(s)
      <4>1. Has(k[1], s, g)
        BY <1>5, <1>6
      <4> QED BY <1>7, <2>1, <2>2, <3>1, <4>1 DEF NoneMissing
    <3>2. CASE g = f
      <4>1. k[1] = s
        BY <1>4, <1>5, <1>6, <3>2
      <4> QED BY <1>7, <1>14, <2>1, <3>2, <4>1
    <3> QED BY <3>1, <3>2
  <2> QED BY <2>3, <2>4
<1> QED BY <1>8, <1>9, <1>10, <1>11, <1>12, <1>13, <1>14 DEF OrderInv

\* The head of a queue, and what is left, is what was in it.
LEMMA OneLess ==
    ASSUME NEW S, NEW s \in Seq(S), s # <<>>
    PROVE  /\ Head(s) \in S /\ Len(s) \in Nat /\ Len(Tail(s)) = Len(s) - 1
           /\ Head(s) = s[1] /\ 1 \in 1..Len(s)
           /\ \A i \in 1..Len(Tail(s)) : Tail(s)[i] = s[i + 1]
           /\ \A i \in 1..Len(s) : i = 1 \/ (i - 1 \in 1..Len(Tail(s)) /\ Tail(s)[i - 1] = s[i])
BY EmptySeq, HeadTailProperties, LenProperties

\* A connection task takes the next frame, if its peer does not know it.
LEMMA ReadInOrder ==
    ASSUME IInv, IInv', NEW s \in Peer, NEW up \in [Peer -> Peer], OrderInv(s, up),
           NEW l \in Link, ReadFrame(l)
    PROVE  OrderInv(s, up)'
<1> DEFINE h == Head(wire[l])
           p == l[2]
<1> USE SaidFacts
<1>1. /\ task[l].pc = "read" /\ wire[l] # <<>> /\ wire[l] \in Seq(Frame)
      /\ wire' = [wire EXCEPT ![l] = Tail(@)]
      /\ p \in Peer /\ l[1] \in Peer
      /\ SaidBy(s)' = SaidBy(s)
      /\ UNCHANGED <<peers, taken, client_tx, issued, processed_commands>>
  BY DEF ReadFrame, IInv, TypeOK, SaidBy
<1>2. /\ h = wire[l][1] /\ 1 \in 1..Len(wire[l]) /\ Len(wire[l]) \in Nat
      /\ Len(Tail(wire[l])) = Len(wire[l]) - 1
      /\ \A i \in 1..Len(Tail(wire[l])) : Tail(wire[l])[i] = wire[l][i + 1]
      /\ \A i \in 1..Len(wire[l]) :
            i = 1 \/ (i - 1 \in 1..Len(Tail(wire[l])) /\ Tail(wire[l])[i - 1] = wire[l][i])
  BY <1>1, OneLess
<1>3. /\ wire'[l] = Tail(wire[l])
      /\ \A k \in Link \ {l} : wire'[k] = wire[k]
  BY <1>1 DEF IInv, TypeOK
<1>4. /\ \A k \in Link \ {l} : task'[k] = task[k]
      /\ \/ h = Text /\ task'[l].pc = "closed"
         \/ h # Text /\ CheckDuplicate(p, h) /\ task'[l].pc = "read"
         \/ h # Text /\ task'[l].pc = "mark" /\ task'[l].cmd = h
  BY DEF ReadFrame, Close, Resume, Idle, IInv, TypeOK, TaskOK
<1>5. /\ \A q : \A g : Has(q, s, g)' <=> Has(q, s, g)
      /\ \A k \in Link \ {l} : \A g : Held(k, g)' <=> Held(k, g)
      /\ \A k \in Link \ {l} : \A g : Waits(k, g)' <=> Waits(k, g)
      /\ \A g : ~ Held(l, g) /\ (Held(l, g)' => g = h)
  BY <1>1, <1>3, <1>4 DEF Has, Held, Waits
<1>6. /\ \A g : Waits(l, g)' => Waits(l, g)
      /\ \A g : Waits(l, g) => g = h \/ Waits(l, g)'
      /\ Waits(l, h)
  <2>1. ASSUME NEW g, NEW i \in 1..Len(Tail(wire[l])), Tail(wire[l])[i] = g PROVE Waits(l, g)
    <3>1. i + 1 \in 1..Len(wire[l]) /\ wire[l][i + 1] = g
      BY <1>2, <2>1
    <3> QED BY <3>1 DEF Waits
  <2>2. ASSUME NEW g, NEW i \in 1..Len(wire[l]), wire[l][i] = g, g # h
        PROVE  \E j \in 1..Len(Tail(wire[l])) : Tail(wire[l])[j] = g
    BY <1>2, <2>2
  <2> QED BY <1>2, <1>3, <2>1, <2>2 DEF Waits
<1>7. ASSUME h \in SaidBy(s), up[p] = l[1]
      PROVE  \/ task'[l].pc = "closed"
             \/ \A g : g = h => Has(p, s, g) \/ Held(l, g)'
  <2>1. CASE CheckDuplicate(p, h)
    <3>1. p # s
      BY <1>6, <1>7, NotToItself
    <3>2. h \in taken[p]
      <4>1. PICK g \in taken[p] : Key(g) = Key(h)
        BY <1>1, <2>1 DEF IInv, Accounted, MarkedTaken, CheckDuplicate
      <4>2. g \in issued
        BY <1>1 DEF IInv, Accounted, MarkedTaken
      <4> QED BY <1>7, <4>1, <4>2 DEF IInv, NumbersIdentify
    <3>3. ASSUME NEW k \in Into(p), up[p] = k[1], task[k].pc = "apply" PROVE FALSE
      <4>1. k = l
        <5>1. k \in Peer \X Peer /\ l \in Peer \X Peer /\ k[2] = l[2]
          BY DEF Into
        <5>2. k = <<k[1], k[2]>> /\ l = <<l[1], l[2]>>
          BY <5>1
        <5> QED BY <1>7, <3>3, <5>1, <5>2
      <4> QED BY <1>1, <3>3, <4>1
    <3> QED BY <1>1, <1>7, <3>1, <3>2, <3>3 DEF OrderInv, TakenInOrder
  <2>2. CASE task'[l].pc = "mark" /\ task'[l].cmd = h
    BY <2>2 DEF Held
  <2> QED BY <1>4, <2>1, <2>2
<1>8. ShownInOrder(s)'
  <2>1. ShownInOrder(s)
    BY DEF OrderInv
  <2> QED BY <1>1, <2>1 DEF ShownInOrder, Earlier
<1>9. ShownOnTheWay(s, up)'
  BY <1>1, <1>5 DEF OrderInv, ShownOnTheWay
<1>10. TakenInOrder(s, up)'
  <2> SUFFICES ASSUME NEW q \in Peer \ {s}, NEW g \in SaidBy(s) \cap taken[q]
               PROVE  \/ Has(q, s, g)'
                      \/ \E k \in Into(q) : /\ up[q] = k[1] /\ task'[k].pc = "apply"
                                            /\ Held(k, g)'
    BY <1>1 DEF TakenInOrder, Into
  <2>1. \/ Has(q, s, g)
        \/ \E k \in Into(q) : up[q] = k[1] /\ task[k].pc = "apply" /\ Held(k, g)
    BY DEF OrderInv, TakenInOrder
  <2> QED BY <1>4, <1>5, <2>1 DEF Into
<1>11. ASSUME NEW k \in Link, task'[k].pc # "closed" PROVE k[2] \in peers'[k[1]]
  <2>1. task[k].pc # "closed"
    BY <1>1, <1>4, <1>11
  <2> QED BY <1>1, <2>1 DEF OrderInv
<1>12. ASSUME NEW k \in Link, k[2] # s PROVE Returns(k, s, up)'
  <2>1. Returns(k, s, up)
    BY <1>12 DEF OrderInv
  <2>2. \A g \in SaidBy(s) : Held(k, g)' \/ Waits(k, g)' => Held(k, g) \/ Waits(k, g)
    BY <1>5, <1>6
  <2> QED BY <1>1, <1>5, <2>1, <2>2 DEF Returns
<1>13. ASSUME NEW k \in Link, k[2] # s, up[k[2]] = k[1] PROVE HeldInOrder(k, s)'
  <2>1. HeldInOrder(k, s)
    BY <1>13 DEF OrderInv
  <2>2. CASE k # l
    BY <1>1, <1>5, <2>1, <2>2 DEF HeldInOrder, Earlier
  <2>3. CASE k = l
    <3>1. WaitsInOrder(l, s)
      BY <1>1, <1>13, <2>3 DEF OrderInv
    <3>2. ASSUME NEW g \in SaidBy(s), h \in SaidBy(s), Earlier(g, h) PROVE Has(p, s, g)
      BY <1>2, <1>5, <3>1, <3>2 DEF WaitsInOrder
    <3> QED BY <1>1, <1>5, <2>3, <3>2 DEF HeldInOrder, Earlier
  <2> QED BY <2>2, <2>3
<1>14. ASSUME NEW k \in Link, k[2] # s, up[k[2]] = k[1], task'[k].pc # "closed"
       PROVE  WaitsInOrder(k, s)' /\ NoneMissing(k, s)'
  <2>1. WaitsInOrder(k, s) /\ NoneMissing(k, s)
    BY <1>1, <1>4, <1>14 DEF OrderInv
  <2>2. CASE k # l
    <3>1. WaitsInOrder(k, s)'
      BY <1>1, <1>3, <1>5, <2>1, <2>2 DEF WaitsInOrder, Earlier
    <3>2. NoneMissing(k, s)'
      BY <1>1, <1>5, <2>1, <2>2 DEF NoneMissing
    <3> QED BY <3>1, <3>2
  <2>3. CASE k = l
    <3>1. h \in SaidBy(s) => \A g : g = h => Has(p, s, g)' \/ Held(l, g)'
      BY <1>5, <1>7, <1>14, <2>3
    <3>2. ASSUME NEW e \in SaidBy(s), NEW g \in SaidBy(s), Earlier(g, e),
                 NEW i \in 1..Len(wire'[l]), wire'[l][i] = e
          PROVE  \/ Has(p, s, g)' \/ Held(l, g)'
                 \/ \E j \in 1..Len(wire'[l]) : j < i /\ wire'[l][j] = g
      <4>1. i + 1 \in 1..Len(wire[l]) /\ wire[l][i + 1] = e
        BY <1>2, <1>3, <3>2
      <4>2. \/ Has(p, s, g)
            \/ \E j \in 1..Len(wire[l]) : j < i + 1 /\ wire[l][j] = g
        BY <1>5, <2>1, <2>3, <3>2, <4>1 DEF WaitsInOrder
      <4>3. ASSUME NEW j \in 1..Len(wire[l]), j < i + 1, wire[l][j] = g
            PROVE  g = h \/ \E n \in 1..Len(wire'[l]) : n < i /\ wire'[l][n] = g
        <5>1. CASE j = 1
          BY <1>2, <4>3, <5>1
        <5>2. CASE j # 1
          <6>1. /\ j - 1 \in 1..Len(wire'[l]) /\ wire'[l][j - 1] = g
            BY <1>2, <1>3, <4>3, <5>2
          <6>2. j - 1 < i
            BY <4>3, <1>2, <1>3
          <6> QED BY <6>1, <6>2
        <5> QED BY <5>1, <5>2
      <4> QED BY <1>5, <3>1, <4>2, <4>3
    <3>3. WaitsInOrder(l, s)'
      <4>1. SaidBy(s)' = SaidBy(s)
        BY <1>1
      <4> QED BY ONLY <3>2, <4>1 DEF WaitsInOrder, Earlier
    <3>4. NoneMissing(l, s)'
      <4> SUFFICES ASSUME NEW g \in SaidBy(s), Has(l[1], s, g)'
                   PROVE  Has(p, s, g)' \/ Held(l, g)' \/ Waits(l, g)'
        BY <1>1 DEF NoneMissing
      <4> QED BY <1>5, <1>6, <2>1, <2>3, <3>1 DEF NoneMissing
    <3> QED BY <2>3, <3>3, <3>4
  <2> QED BY <2>2, <2>3
<1> QED BY <1>8, <1>9, <1>10, <1>11, <1>12, <1>13, <1>14 DEF OrderInv

\* A connection task marks its command.
LEMMA MarkedInOrder ==
    ASSUME IInv, IInv', NEW s \in Peer, NEW up \in [Peer -> Peer], OrderInv(s, up),
           NEW l \in Link, SetProcessed(l)
    PROVE  OrderInv(s, up)'
<1> DEFINE f == task[l].cmd
           p == l[2]
<1> USE SaidFacts
<1>1. /\ task[l].pc = "mark" /\ task'[l].pc = "apply" /\ task'[l].cmd = f
      /\ \A k \in Link \ {l} : task'[k] = task[k]
      /\ p \in Peer /\ l[1] \in Peer
      /\ SaidBy(s)' = SaidBy(s)
      /\ UNCHANGED <<peers, wire, client_tx>>
      /\ taken'[p] = taken[p] \cup {f}
      /\ \A q \in Peer \ {p} : taken'[q] = taken[q]
  BY DEF SetProcessed, IInv, TypeOK, TaskOK, SaidBy
<1>2. /\ \A q : \A g : Has(q, s, g)' <=> Has(q, s, g)
      /\ \A k \in Link : \A g : Held(k, g)' <=> Held(k, g)
      /\ \A k \in Link : \A g : Waits(k, g)' <=> Waits(k, g)
      /\ Held(l, f)
  BY <1>1 DEF Has, Held, Waits
<1>3. ShownInOrder(s)'
  BY <1>1 DEF OrderInv, ShownInOrder, Earlier
<1>4. ShownOnTheWay(s, up)'
  BY <1>1, <1>2 DEF OrderInv, ShownOnTheWay
<1>5. TakenInOrder(s, up)'
  <2> SUFFICES ASSUME NEW q \in Peer \ {s}, NEW g \in SaidBy(s) \cap taken'[q]
               PROVE  \/ Has(q, s, g)'
                      \/ \E k \in Into(q) : /\ up[q] = k[1] /\ task'[k].pc = "apply"
                                            /\ Held(k, g)'
    BY <1>1 DEF TakenInOrder, Into
  <2>1. CASE g \in taken[q]
    <3>1. \/ Has(q, s, g)
          \/ \E k \in Into(q) : up[q] = k[1] /\ task[k].pc = "apply" /\ Held(k, g)
      BY <2>1 DEF OrderInv, TakenInOrder
    <3> QED BY <1>1, <1>2, <3>1 DEF Into
  <2>2. CASE q = p /\ g = f
    <3>1. CASE up[p] = l[1]
      BY <1>1, <1>2, <2>2, <3>1 DEF Into, Held
    <3>2. CASE up[p] # l[1]
      <4>1. Returns(l, s, up)
        BY <2>2 DEF OrderInv
      <4>2. Has(p, s, f)
        BY <1>2, <2>2, <3>2, <4>1 DEF Returns
      <4> QED BY <1>2, <2>2, <4>2
    <3> QED BY <3>1, <3>2
  <2> QED BY <1>1, <2>1, <2>2
<1>6. ASSUME NEW k \in Link
      PROVE  /\ task'[k].pc # "closed" => task[k].pc # "closed" /\ k[2] \in peers'[k[1]]
             /\ Returns(k, s, up) => Returns(k, s, up)'
             /\ HeldInOrder(k, s) => HeldInOrder(k, s)'
             /\ WaitsInOrder(k, s) => WaitsInOrder(k, s)'
             /\ NoneMissing(k, s) => NoneMissing(k, s)'
  <2>1. task'[k].pc # "closed" => task[k].pc # "closed" /\ k[2] \in peers'[k[1]]
    BY <1>1 DEF OrderInv
  <2>2. Returns(k, s, up) => Returns(k, s, up)'
    BY <1>1, <1>2 DEF Returns
  <2>3. HeldInOrder(k, s) => HeldInOrder(k, s)'
    BY <1>1, <1>2 DEF HeldInOrder, Earlier
  <2>4. WaitsInOrder(k, s) => WaitsInOrder(k, s)'
    BY <1>1, <1>2 DEF WaitsInOrder, Earlier
  <2>5. NoneMissing(k, s) => NoneMissing(k, s)'
    BY <1>1, <1>2 DEF NoneMissing
  <2> QED BY <2>1, <2>2, <2>3, <2>4, <2>5
<1> QED BY <1>3, <1>4, <1>5, <1>6 DEF OrderInv

\* Every step keeps the messages of s in order.
LEMMA OrderStep ==
    ASSUME IInv, IInv', [Next]_vars, NEW s \in Peer, NEW up \in [Peer -> Peer],
           Hears(s, up), OrderInv(s, up)
    PROVE  OrderInv(s, up)'
<1> USE SaidFacts
<1>T. /\ TypeOK
      /\ client_tx \in [Peer -> Seq(Command)]
      /\ wire \in [Link -> Seq(Frame)]
      /\ TaskOK
  BY DEF IInv, TypeOK
<1>1. ASSUME NEW r \in Request, ClientMessage(r) PROVE OrderInv(s, up)'
  <2> DEFINE f == Stamp(r, sequence_numbers[r.source])
  <2>1. CASE r.source = s /\ r.kind \in Open
    BY <1>1, <2>1, SaidInOrder
  <2>2. CASE ~ (r.source = s /\ r.kind \in Open)
    <3>1. f \in Command /\ f.source = r.source /\ f.kind = r.kind
      BY StampType DEF TypeOK, IInv, Stamp, Requests
    <3>2. SaidBy(s)' = SaidBy(s) /\ f \notin SaidBy(s)
      BY <1>1, <2>2, <3>1 DEF ClientMessage, SaidBy
    <3>3. f \in Frame \ SaidBy(s)
      BY <3>1, <3>2, CommandOrText
    <3>4. \A l \in Link : UNCHANGED wire[l] \/ wire'[l] = Append(wire[l], f)
      BY <1>1 DEF ClientMessage, Broadcast
    <3>5. \A l \in Link : \A g \in SaidBy(s) : Waits(l, g)' => Waits(l, g)
      <4> SUFFICES ASSUME NEW l \in Link PROVE \A g \in SaidBy(s) : Waits(l, g)' => Waits(l, g)
        OBVIOUS
      <4>1. CASE UNCHANGED wire[l]
        BY <4>1 DEF Waits
      <4>2. CASE wire'[l] = Append(wire[l], f)
        <5>1. wire[l] \in Seq(Frame) /\ f \in Frame
          BY <1>T, <3>3
        <5>2. \A g : Waits(l, g)' <=> Waits(l, g) \/ g = f
          BY <4>2, <5>1, OneMoreIn DEF Waits
        <5> QED BY <3>3, <5>2
      <4> QED BY <3>4, <4>1, <4>2
    <3> QED BY <1>1, <3>2, <3>3, <3>4, <3>5, QuietStep DEF ClientMessage
  <2> QED BY <2>1, <2>2
<1>2. ASSUME NEW l \in Link, Apply(l) PROVE OrderInv(s, up)'
  <2> DEFINE f == task[l].cmd
  <2>1. /\ task[l].pc = "apply" /\ f \in Command /\ f \in issued /\ l[2] \in Peer
        /\ UNCHANGED <<peers, taken>>
    BY <1>2, <1>T, CommandOrText
       DEF Apply, ApplyOpen, ApplyDirected, ApplyPing, ApplyWhisper, ApplyExtension,
           Applying, TaskOK, IInv, Accounted, TaskCarries, MayCarry
  <2>2. CASE f \in SaidBy(s)
    <3>1. ApplyOpen(l)
      BY <1>2, <2>2
         DEF Apply, ApplyDirected, ApplyPing, ApplyWhisper, ApplyExtension, Applying, Open
    <3> QED BY <2>2, <3>1, AppliedInOrder
  <2>3. CASE f \notin SaidBy(s)
    <3>1. SaidBy(s)' = SaidBy(s)
      <4>1. UNCHANGED issued \/ issued' = issued \cup {PongFor(f, l[2])}
        BY <1>2
           DEF Apply, ApplyOpen, ApplyDirected, ApplyPing, ApplyWhisper, ApplyExtension
      <4>2. PongFor(f, l[2]).kind = "pong"
        BY DEF PongFor
      <4> QED BY <4>1, <4>2 DEF SaidBy, Open
    <3>2. \A q \in Peer : \/ UNCHANGED client_tx[q]
                          \/ \E g \in Command \ SaidBy(s) :
                                client_tx'[q] = Append(client_tx[q], g)
      <4>1. UNCHANGED client_tx \/ Show(l[2], f)
        BY <1>2
           DEF Apply, ApplyOpen, ApplyDirected, ApplyPing, ApplyWhisper, ApplyExtension
      <4>2. ASSUME Show(l[2], f), NEW q \in Peer
            PROVE  UNCHANGED client_tx[q] \/ client_tx'[q] = Append(client_tx[q], f)
        BY <1>T, <4>2 DEF Show
      <4> QED BY <2>1, <2>3, <4>1, <4>2
    <3>3. /\ \A k \in Link \ {l} : task'[k] = task[k]
          /\ task'[l].pc \notin {"mark", "apply"}
      <4>1. Resume(l) \/ Close(l) \/ task' = [task EXCEPT ![l].pc = "back"]
        BY <1>2
           DEF Apply, ApplyOpen, ApplyDirected, ApplyPing, ApplyWhisper, ApplyExtension
      <4>2. CASE Resume(l)
        BY <1>T, <4>2 DEF Resume, Idle, TaskOK
      <4>3. CASE Close(l)
        BY <1>T, <4>3 DEF Close, TaskOK
      <4>4. CASE task' = [task EXCEPT ![l].pc = "back"]
        BY <1>T, <4>4 DEF TaskOK
      <4> QED BY <4>1, <4>2, <4>3, <4>4
    <3>4. \A k \in Link : \/ UNCHANGED task[k]
                          \/ \A g \in SaidBy(s) : ~ Held(k, g) /\ ~ Held(k, g)'
      BY <2>3, <3>3 DEF Held
    <3>5. \/ UNCHANGED wire
          \/ \E g \in Frame \ SaidBy(s) : \E t : Broadcast(l[2], t, g)
      <4>1. PongFor(f, l[2]) \in Frame \ SaidBy(s)
        <5>1. PongFor(f, l[2]) \in Command
          BY <1>T, <2>1, CommandFields DEF PongFor, Command, Kind, Open, Directed, TypeOK
        <5>2. PongFor(f, l[2]) \notin SaidBy(s)
          BY DEF PongFor, SaidBy, Open
        <5> QED BY <5>1, <5>2, CommandOrText
      <4>2. f \in Frame \ SaidBy(s) /\ Text \in Frame \ SaidBy(s)
        BY <2>1, <2>3, CommandOrText
      <4> QED BY <1>2, <4>1, <4>2
           DEF Apply, ApplyOpen, ApplyDirected, ApplyPing, ApplyWhisper, ApplyExtension
    <3>6. ASSUME NEW k \in Link
          PROVE  /\ \/ UNCHANGED wire[k]
                    \/ \E g \in Frame \ SaidBy(s) : wire'[k] = Append(wire[k], g)
                 /\ \A g \in SaidBy(s) : Waits(k, g)' => Waits(k, g)
      <4>1. \/ UNCHANGED wire[k]
            \/ \E g \in Frame \ SaidBy(s) : wire'[k] = Append(wire[k], g)
        BY <3>5 DEF Broadcast
      <4> QED BY <1>T, <4>1, OneMoreIn DEF Waits
    <3>7. \A k \in Link : task'[k].pc # "closed" => task[k].pc # "closed"
      BY <2>1, <3>3
    <3> QED BY <2>1, <3>1, <3>2, <3>4, <3>6, <3>7, QuietStep
  <2> QED BY <2>2, <2>3
<1>3. ASSUME NEW l \in Link, WriteBack(l) PROVE OrderInv(s, up)'
  <2>1. /\ \A k \in Link : task'[k].pc # "closed" => task[k].pc # "closed"
        /\ \A k \in Link : \/ UNCHANGED task[k]
                           \/ \A g : ~ Held(k, g) /\ ~ Held(k, g)'
    BY <1>3, <1>T DEF WriteBack, Resume, Idle, TaskOK, Held
  <2>2. /\ SaidBy(s)' = SaidBy(s)
        /\ UNCHANGED <<peers, wire, taken, client_tx>>
        /\ \A k \in Link : \A g : Waits(k, g)' <=> Waits(k, g)
    BY <1>3 DEF WriteBack, SaidBy, Waits
  <2> QED BY <2>1, <2>2, QuietStep
<1>4. ASSUME NEW l \in Link, WriteLost(l) \/ WriteFails(l) PROVE OrderInv(s, up)'
  <2>1. /\ task[l].pc = "closed" /\ wire[l] # <<>> /\ wire[l] \in Seq(Frame)
        /\ SaidBy(s)' = SaidBy(s)
        /\ UNCHANGED <<task, taken, client_tx>>
        /\ \A k \in Link \ {l} : wire'[k] = wire[k]
        /\ wire'[l] = Tail(wire[l]) \/ wire'[l] = <<>>
    BY <1>4, <1>T DEF WriteLost, WriteFails, SaidBy
  <2>2. \A k \in Link \ {l} : k[2] \in peers[k[1]] => k[2] \in peers'[k[1]]
    <3>1. ASSUME NEW k \in Link \ {l} PROVE ~ (k[1] = l[1] /\ k[2] = l[2])
      <4>1. k \in Peer \X Peer /\ l \in Peer \X Peer
        OBVIOUS
      <4> QED BY <3>1, <4>1
    <3>2. CASE WriteLost(l)
      BY <3>2 DEF WriteLost
    <3>3. CASE WriteFails(l)
      <4>1. peers' = [peers EXCEPT ![l[1]] = @ \ {l[2]}]
        BY <3>3 DEF WriteFails
      <4> SUFFICES ASSUME NEW k \in Link \ {l}, k[2] \in peers[k[1]]
                   PROVE  k[2] \in peers'[k[1]]
        OBVIOUS
      <4>2. k[1] \in Peer /\ peers \in [Peer -> SUBSET Peer]
        BY <1>T DEF TypeOK
      <4>3. CASE k[1] = l[1]
        BY <3>1, <4>1, <4>2, <4>3
      <4>4. CASE k[1] # l[1]
        BY <4>1, <4>2, <4>4
      <4> QED BY <4>3, <4>4
    <3> QED BY <1>4, <3>2, <3>3
  <2>3. ASSUME NEW g, Waits(l, g)' PROVE Waits(l, g)
    <3>1. CASE wire'[l] = <<>>
      BY <2>3, <3>1 DEF Waits
    <3>2. CASE wire'[l] = Tail(wire[l])
      <4>1. \A i \in 1..Len(Tail(wire[l])) :
               i + 1 \in 1..Len(wire[l]) /\ Tail(wire[l])[i] = wire[l][i + 1]
        BY <2>1, TailItems
      <4> QED BY <2>3, <3>2, <4>1 DEF Waits
    <3> QED BY <2>1, <3>1, <3>2
  <2>4. \A k \in Link : \A g \in SaidBy(s) : Waits(k, g)' => Waits(k, g)
    BY <2>1, <2>3 DEF Waits
  <2> QED BY <2>1, <2>2, <2>4, QuietStep
<1>5. ASSUME UNCHANGED <<peers, wire, task, client_tx, taken, issued>>
      PROVE  OrderInv(s, up)'
  BY <1>5, QuietStep DEF SaidBy, Waits
<1>6. ASSUME NEW q \in Peer, Expire(q) PROVE OrderInv(s, up)'
  BY <1>5, <1>6 DEF Expire
<1>7. CASE UNCHANGED vars
  BY <1>5, <1>7 DEF vars
<1> QED BY <1>1, <1>2, <1>3, <1>4, <1>6, <1>7, ReadInOrder, MarkedInOrder
        DEF Next, HandleConnection

\* Over links with one path to each peer, however long, and whatever entries expire,
\* connections drop and frames are lost: of what a sender says, or broadcasts, nobody is
\* shown a message before all the sender's earlier ones.
THEOREM MessagesInOrder ==
    ASSUME OnePath
    PROVE  Spec => []InOrder
<1> DEFINE up(s) == CHOOSE u \in [Peer -> Peer] : Hears(s, u)
           AllOrdered == \A s \in Peer : OrderInv(s, up(s))
<1>1. \A s \in Peer : up(s) \in [Peer -> Peer] /\ Hears(s, up(s))
  BY DEF OnePath
<1> HIDE DEF up
<1>2. Init => AllOrdered
  <2> SUFFICES ASSUME Init, NEW s \in Peer PROVE OrderInv(s, up(s))
    OBVIOUS
  <2>1. /\ SaidBy(s) = {}
        /\ \A l \in Link : l[2] \in peers[l[1]]
    BY DEF Init, SaidBy
  <2> QED BY <2>1 DEF OrderInv, ShownInOrder, ShownOnTheWay, TakenInOrder, Returns,
                      HeldInOrder, WaitsInOrder, NoneMissing
<1>3. IInv /\ AllOrdered /\ [Next]_vars => AllOrdered'
  <2> SUFFICES ASSUME IInv, AllOrdered, [Next]_vars, NEW s \in Peer
               PROVE  OrderInv(s, up(s))'
    OBVIOUS
  <2>1. IInv'
    BY InvStep
  <2> QED BY <1>1, <2>1, OrderStep
<1>4. IInv /\ AllOrdered => InOrder
  <2> SUFFICES ASSUME IInv, AllOrdered,
                      NEW q \in Peer, NEW i \in 1..Len(client_tx[q]),
                      NEW j \in 1..Len(client_tx[q]),
                      client_tx[q][i].source = client_tx[q][j].source,
                      {client_tx[q][i].kind, client_tx[q][j].kind} \subseteq Open,
                      client_tx[q][i].seq > client_tx[q][j].seq
               PROVE  \E h \in 1..i : client_tx[q][h] = client_tx[q][j]
    BY DEF InOrder
  <2> DEFINE f == client_tx[q][i]
             g == client_tx[q][j]
             s == f.source
  <2>1. f \in issued /\ g \in issued /\ f.source # q
    BY DEF IInv, Accounted, ShownToTheRight
  <2>2. /\ s \in Peer /\ q \in Peer \ {s} /\ f \in SaidBy(s) /\ g \in SaidBy(s)
        /\ f.seq \in Nat /\ g.seq \in Nat
    BY <2>1, CommandFields DEF IInv, TypeOK, SaidBy
  <2>3. ShownInOrder(s)
    BY <2>2 DEF OrderInv
  <2> QED BY <2>2, <2>3 DEF ShownInOrder, Earlier
<1> QED BY <1>2, <1>3, <1>4, Invariance, PTL DEF Spec

-----------------------------------------------------------------------------
(* Relay implements Chat.                                                  *)

\* Every step of a relay makes one command, shows one, or does neither.
LEMMA StepRefines == IInv /\ [Next]_vars => [Network!Next]_(Network!chatVars)
<1> SUFFICES ASSUME IInv, [Next]_vars
             PROVE  Network!Next \/ UNCHANGED <<issued, client_tx>>
  BY DEF Network!chatVars
<1> USE DEF IInv, Accounted
<1>1. ASSUME NEW r \in Request, ClientMessage(r) PROVE Network!Next
  <2> DEFINE f == Stamp(r, sequence_numbers[r.source])
  <2>1. /\ f \in Command /\ f.source = r.source /\ f.kind # "pong"
        /\ f.seq = sequence_numbers[f.source]
    BY StampType DEF Requests, TypeOK
  <2>2. /\ issued' = issued \cup {f} /\ NextNumber(f.source) /\ UNCHANGED client_tx
    BY <1>1, <2>1 DEF ClientMessage
  <2>3. Network!Fresh(f)
    BY <2>1, <2>2, MadeFresh
  <2> QED BY <2>1, <2>2, <2>3 DEF Network!Next, Network!Make
<1>2. ASSUME NEW l \in Link, Apply(l)
      PROVE  Network!Next \/ UNCHANGED <<issued, client_tx>>
  <2> DEFINE f == task[l].cmd
  <2>1. f \in Command /\ f # Text /\ l[2] \in Peer /\ f \in issued /\ f.source # l[2]
    BY <1>2, CommandOrText
       DEF Apply, ApplyOpen, ApplyDirected, ApplyPing, ApplyWhisper, ApplyExtension,
           Applying, TypeOK, TaskOK, TaskCarries, MayCarry
  <2>2. ASSUME Show(l[2], f), UNCHANGED issued, f.kind \in Directed => f.dest = l[2]
        PROVE  Network!Next
    BY <2>1, <2>2 DEF Show, Network!Next, Network!Show
  <2>3. CASE ApplyOpen(l)
    BY <2>2, <2>3 DEF ApplyOpen, Applying, Open, Directed
  <2>4. CASE ApplyDirected(l)
    BY <2>2, <2>4 DEF ApplyDirected, Addressed
  <2>5. CASE ApplyPing(l)
    <3> DEFINE pong == PongFor(f, l[2])
    <3>1. CASE f.dest = l[2]
      <4>1. /\ NextNumber(l[2]) /\ issued' = issued \cup {pong}
            /\ UNCHANGED client_tx /\ f.kind = "ping"
        BY <2>5, <3>1 DEF ApplyPing, Applying, Addressed
      <4>2. /\ pong \in Command /\ pong.source = l[2]
            /\ pong.seq = sequence_numbers[l[2]]
        BY <2>1, CommandFields DEF PongFor, Command, Kind, Open, Directed, TypeOK
      <4>3. Network!Fresh(pong)
        BY <4>1, <4>2, MadeFresh
      <4>4. \E g \in issued : Network!Answers(pong, g)
        BY <2>1, <3>1, <4>1 DEF PongFor, Network!Answers
      <4> QED BY <4>1, <4>2, <4>3, <4>4 DEF Network!Next, Network!Make
    <3>2. CASE f.dest # l[2]
      BY <2>5, <3>2 DEF ApplyPing, Addressed
    <3> QED BY <3>1, <3>2
  <2>6. CASE ApplyWhisper(l)
    BY <2>2, <2>6 DEF ApplyWhisper, Addressed
  <2>7. CASE ApplyExtension(l)
    BY <2>2, <2>7 DEF ApplyExtension, Applying, Directed
  <2> QED BY <1>2, <2>3, <2>4, <2>5, <2>6, <2>7 DEF Apply
<1>3. ASSUME NEW l \in Link,
             ReadFrame(l) \/ SetProcessed(l) \/ WriteBack(l) \/ WriteLost(l) \/ WriteFails(l)
      PROVE  UNCHANGED <<issued, client_tx>>
  BY <1>3 DEF ReadFrame, SetProcessed, WriteBack, WriteLost, WriteFails
<1>4. ASSUME NEW q \in Peer, Expire(q) PROVE UNCHANGED <<issued, client_tx>>
  BY <1>4 DEF Expire
<1>5. CASE UNCHANGED vars
  BY <1>5 DEF vars
<1> QED BY <1>1, <1>2, <1>3, <1>4, <1>5 DEF Next, HandleConnection

\* For its users the flooding network is the Chat of the abstract specification.
THEOREM Refinement == Spec => ImplementsChat
<1>1. Init => Network!Init
  BY DEF Init, Network!Init
<1> QED BY <1>1, StepRefines, Invariance, PTL DEF Spec, ImplementsChat, Network!Spec
=============================================================================
