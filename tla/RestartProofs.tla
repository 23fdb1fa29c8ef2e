---------------------------- MODULE RestartProofs ----------------------------
(* What Restart guarantees for every network, every set of requests and any *)
(* number of restarts: of Relay's invariant, all that does not rest on the  *)
(* numbers being fresh.                                                     *)
EXTENDS Restart, RelayProofs

USE LinkAssumption, InputAssumption, BoundAssumption, RestartAssumption

-----------------------------------------------------------------------------
(* What a restart leaves of the connections.                               *)

\* The frames that have reached the far end are the first ones sent.
LEMMA CutItems ==
    ASSUME wire \in [Link -> Seq(Frame)], NEW l \in Link, NEW n \in Nat, n <= Len(wire[l])
    PROVE  /\ Cut(l, n) \in Seq(Frame)
           /\ \A i \in 1..Len(Cut(l, n)) :
                 i \in 1..Len(wire[l]) /\ Cut(l, n)[i] = wire[l][i]
<1>1. wire[l] \in Seq(Frame) /\ Len(wire[l]) \in Nat
  BY LenProperties
<1>2. <<>> \in Seq(Frame) /\ Len(<<>>) = 0
  BY EmptySeq
<1>3. /\ SubSeq(wire[l], 1, n) \in Seq(Frame)
      /\ \A i \in 1..Len(SubSeq(wire[l], 1, n)) :
            i \in 1..Len(wire[l]) /\ SubSeq(wire[l], 1, n)[i] = wire[l][i]
  <2>1. \A i \in 1..n : wire[l][i] \in Frame
    BY <1>1
  <2>2. SubSeq(wire[l], 1, n) = [i \in 1..n |-> wire[l][i]]
    BY <1>1
  <2>3. SubSeq(wire[l], 1, n) \in Seq(Frame) /\ Len(SubSeq(wire[l], 1, n)) = n
    BY <2>1, <2>2
  <2> QED BY <1>1, <2>2, <2>3
<1> QED BY <1>2, <1>3 DEF Cut

\* What each connection has after a restart it had before.
LEMMA RestartKeeps ==
    ASSUME TypeOK, NEW p \in Peer, Restart(p), NEW l \in Link
    PROVE  /\ wire'[l] \in Seq(Frame)
           /\ \A i \in 1..Len(wire'[l]) : i \in 1..Len(wire[l]) /\ wire'[l][i] = wire[l][i]
           /\ task'[l] = Idle \/ task'[l] = task[l]
<1>1. PICK n \in [{k \in Link : k[1] = p} -> 0..Longest] :
         /\ \A k \in {k \in Link : k[1] = p} : n[k] <= Len(wire[k])
         /\ wire' = [k \in Link |-> CASE k \in {j \in Link : j[2] = p} -> <<>>
                                      [] k \in {j \in Link : j[1] = p} -> Cut(k, n[k])
                                      [] OTHER -> wire[k]]
  BY DEF Restart
<1>2. /\ l \in Peer \X Peer /\ l[1] # l[2]
      /\ wire[l] \in Seq(Frame)
  BY DEF TypeOK
<1> DEFINE kept == /\ wire'[l] \in Seq(Frame)
                   /\ \A i \in 1..Len(wire'[l]) :
                         i \in 1..Len(wire[l]) /\ wire'[l][i] = wire[l][i]
<1>3. ASSUME l[2] = p PROVE kept
  <2>1. wire'[l] = <<>>
    BY <1>1, <1>3
  <2> QED BY <2>1, EmptySeq
<1>4. ASSUME l[1] = p PROVE kept
  <2>1. wire'[l] = Cut(l, n[l]) /\ n[l] <= Len(wire[l])
    BY <1>1, <1>2, <1>4
  <2>2. n[l] \in Nat
    BY <1>1, <1>4
  <2>3. kept
    BY <2>1, <2>2, CutItems DEF TypeOK
  <2> QED BY <2>3
<1>5. ASSUME l[1] # p, l[2] # p PROVE kept
  <2>1. wire'[l] = wire[l]
    BY <1>1, <1>5
  <2> QED BY <1>2, <2>1
<1>6. kept
  BY <1>3, <1>4, <1>5
<1>7. task'[l] = Idle \/ task'[l] = task[l]
  BY <1>2 DEF Restart, Left
<1> QED BY <1>6, <1>7

-----------------------------------------------------------------------------
(* The invariant.                                                          *)

\* A restart keeps every variable in its type.
LEMMA RestartType ==
    ASSUME TypeOK, NEW p \in Peer, Restart(p)
    PROVE  TypeOK'
<1> USE DEF TypeOK
<1>1. \A l \in Link : wire'[l] \in Seq(Frame) /\ (task'[l] = Idle \/ task'[l] = task[l])
  BY RestartKeeps
<1>2. wire' = [l \in Link |-> wire'[l]] /\ task' = [l \in Link |-> task'[l]]
  BY DEF Restart
<1>3. wire' \in [Link -> Seq(Frame)]
  BY <1>1, <1>2
<1>4. TaskOK'
  <2>1. \A l \in Link :
           /\ task'[l] \in [pc : {"read", "mark", "apply", "back", "closed"}, cmd : Frame]
           /\ task'[l].pc \in {"mark", "apply", "back"} => task'[l].cmd # Text
    <3> TAKE l \in Link
    <3>1. CASE task'[l] = Idle
      BY <3>1, CommandOrText DEF Idle
    <3>2. CASE task'[l] = task[l]
      BY <3>2 DEF TaskOK
    <3> QED BY <1>1, <3>1, <3>2
  <2> QED BY <1>2, <2>1 DEF TaskOK
<1>5. /\ sequence_numbers' \in [Peer -> Nat]
      /\ processed_commands' \in [Peer -> SUBSET (Peer \X Nat)]
      /\ backlog' \in [Link -> 0..BackCap]
  BY DEF Restart
<1>6. peers' \in [Peer -> SUBSET Peer]
  BY DEF Restart
<1> QED BY <1>3, <1>4, <1>5, <1>6 DEF Restart

\* What a restart leaves is accounted for as it was before.
LEMMA RestartAccounts ==
    ASSUME TypeOK, Accounted, NEW p \in Peer, Restart(p)
    PROVE  Accounted'
<1> USE DEF Accounted
<1>1. UNCHANGED <<client_tx, taken, issued>>
  BY DEF Restart
<1>2. \A q : Blamed(q)' <=> Blamed(q)
  BY <1>1 DEF Blamed
<1>3. \A l \in Link :
         /\ \A i \in 1..Len(wire'[l]) : i \in 1..Len(wire[l]) /\ wire'[l][i] = wire[l][i]
         /\ task'[l] = Idle \/ task'[l] = task[l]
  BY RestartKeeps
<1>4. WireCarries'
  BY <1>1, <1>2, <1>3 DEF WireCarries, MayQueue, MayCarry
<1>5. TaskCarries' /\ DropsExplained'
  BY <1>1, <1>2, <1>3 DEF TaskCarries, MayCarry, DropsExplained, Idle
<1>6. MarkedTaken'
  <2>1. \A q \in Peer : processed_commands'[q] \subseteq processed_commands[q]
    BY DEF Restart, TypeOK
  <2> QED BY <1>1, <2>1 DEF MarkedTaken
<1>7. ShownToTheRight' /\ PongsAnswer'
  BY <1>1 DEF ShownToTheRight, PongsAnswer
<1> QED BY <1>4, <1>5, <1>6, <1>7

\* Every step, and every restart, preserves what does not rest on the numbers.
LEMMA RestartStep == RestartInv /\ [RestartNext]_restartVars => RestartInv'
<1> SUFFICES ASSUME RestartInv, [RestartNext]_restartVars PROVE RestartInv'
  OBVIOUS
<1> USE DEF RestartInv
<1>1. CASE [Next]_vars /\ UNCHANGED restarts
  <2>1. TypeOK' /\ Accounted'
    BY <1>1, TypeStep, AccountStep
  <2>2. restarts' = 0 => NumbersBelow' /\ NumbersIdentify'
    BY <1>1, NumberStep
  <2> QED BY <1>1, <2>1, <2>2
<1>2. ASSUME NEW p \in Peer, Restart(p) PROVE RestartInv'
  <2>1. restarts' \in Nat /\ restarts' # 0
    BY <1>2 DEF Restart
  <2> QED BY <1>2, <2>1, RestartType, RestartAccounts
<1> QED BY <1>1, <1>2 DEF RestartNext, restartVars

\* Whatever peers crash, and however often, the invariant holds.
THEOREM RestartInvariance == RestartSpec => []RestartInv
<1>1. RestartInit => RestartInv
  BY InvInit DEF RestartInit, RestartInv, IInv
<1> QED BY <1>1, RestartStep, PTL DEF RestartSpec

-----------------------------------------------------------------------------
(* What follows.                                                           *)

\* A command is skipped without having been taken only for an older one of the same
\* source and number, and only once someone has restarted.
THEOREM OnlyForOlder == RestartSpec => []SwallowedForOlder
<1>1. RestartInv => SwallowedForOlder
  <2> SUFFICES ASSUME RestartInv, NEW l \in Link, wire[l] # <<>>, Head(wire[l]) # Text,
                      CheckDuplicate(l[2], Head(wire[l])), Head(wire[l]) \notin taken[l[2]]
               PROVE  \E g \in taken[l[2]] :
                         /\ g # Head(wire[l]) /\ g.source = Head(wire[l]).source
                         /\ g.seq = Head(wire[l]).seq /\ restarts > 0
    BY DEF SwallowedForOlder
  <2> DEFINE f == Head(wire[l])
  <2>1. f \in issued /\ l[2] \in Peer
    <3>1. f = wire[l][1] /\ 1 \in 1..Len(wire[l])
      BY TailItems DEF RestartInv, TypeOK
    <3> QED BY <3>1 DEF RestartInv, Accounted, WireCarries, MayQueue, MayCarry
  <2>2. PICK g \in taken[l[2]] : Key(g) = Key(f)
    BY <2>1 DEF RestartInv, Accounted, MarkedTaken, CheckDuplicate
  <2>3. g \in issued /\ g # f
    BY <2>1 DEF RestartInv, Accounted, MarkedTaken
  <2>4. restarts > 0
    BY <2>1, <2>2, <2>3 DEF RestartInv, NumbersIdentify
  <2> QED BY <2>2, <2>3, <2>4 DEF Key
<1> QED BY <1>1, RestartInvariance, PTL

\* Across restarts too, a pong a user sees answers a ping of that user, with its time.
THEOREM PongsMatchAcrossRestarts == RestartSpec => []PongAnswersPing
<1>1. RestartInv => PongAnswersPing
  BY AnswersShown DEF RestartInv
<1> QED BY <1>1, RestartInvariance, PTL

\* A peer that has forgotten what it sent is still not shown it when it comes round, and
\* nobody is shown what is for somebody else.
THEOREM OnlyTheRightAcrossRestarts == RestartSpec => []ShownToTheRight
<1>1. RestartInv => ShownToTheRight
  BY DEF RestartInv, Accounted
<1> QED BY <1>1, RestartInvariance, PTL

\* A restart makes nobody drop a connection who would not have dropped it anyway.
THEOREM OnlyExplainedDropsAcrossRestarts == RestartSpec => []DropsExplained
<1>1. RestartInv => DropsExplained
  BY DEF RestartInv, Accounted
<1> QED BY <1>1, RestartInvariance, PTL

-----------------------------------------------------------------------------
(* How often a user is shown a message: the marks lost so far, to the clock *)
(* and to restarts, pay for its copies.                                     *)

\* A restart loses marks, but of the tasks it only ends some.
LEMMA RestartCount ==
    ASSUME TypeOK, IsFiniteSet(Link), NEW p \in Peer, Restart(p),
           NEW q \in Peer, NEW f \in Command, NEW n \in Nat, Counted(q, f, n)
    PROVE  Counted(q, f, n + 1)'
<1>1. TypeOK'
  BY RestartType
<1>2. UNCHANGED client_tx /\ processed_commands'[q] \subseteq processed_commands[q]
  BY DEF Restart, TypeOK
<1>3. \A l \in Into(q) : task'[l] = task[l] \/ task'[l].pc \notin {"mark", "apply"}
  BY RestartKeeps DEF Into, Idle
<1> QED BY <1>1, <1>2, <1>3, MarksLost

\* Whatever peers crash, and whatever expires, a message is shown to a user at most once per
\* incoming connection, and as often again per restart and per expired entry.
THEOREM RepeatsAreBounded ==
    ASSUME IsFiniteSet(Link)
    PROVE  RestartSpec => []RepeatsBounded
<1> DEFINE AllCounted == \A q \in Peer : \A f \in Command : Counted(q, f, expiries + restarts)
<1>1. RestartInit => AllCounted
  BY CountInit DEF RestartInit, Init
<1>2. RestartInv /\ AllCounted /\ [RestartNext]_restartVars => AllCounted'
  <2> SUFFICES ASSUME RestartInv, AllCounted, [RestartNext]_restartVars,
                      NEW q \in Peer, NEW f \in Command
               PROVE  Counted(q, f, expiries + restarts)'
    OBVIOUS
  <2>1. PICK n \in Nat : n = expiries + restarts
    BY DEF RestartInv, TypeOK
  <2>2. Counted(q, f, n) /\ TypeOK /\ expiries \in Nat /\ restarts \in Nat
    BY <2>1 DEF RestartInv, TypeOK
  <2>3. \/ expiries' + restarts' = n /\ Counted(q, f, n)'
        \/ expiries' + restarts' = n + 1 /\ Counted(q, f, n + 1)'
    <3>1. CASE [Next]_vars /\ UNCHANGED restarts
      BY <2>1, <2>2, <3>1, TypeStep, CountStep
    <3>2. ASSUME NEW p \in Peer, Restart(p)
          PROVE  expiries' + restarts' = n + 1 /\ Counted(q, f, n + 1)'
      <4>1. expiries' + restarts' = n + 1
        BY <2>1, <2>2, <3>2 DEF Restart
      <4> QED BY <2>2, <3>2, <4>1, RestartCount
    <3> QED BY <3>1, <3>2 DEF RestartNext, restartVars
  <2> QED BY <2>3 DEF Counted
<1>3. RestartInv /\ AllCounted => RepeatsBounded
  <2> SUFFICES ASSUME RestartInv, AllCounted, NEW q \in Peer, NEW f \in issued
               PROVE  Cardinality(Places(client_tx[q], f))
                        <= Cardinality(Into(q)) * (1 + expiries + restarts)
    BY DEF RepeatsBounded
  <2>1. TypeOK /\ f \in Command /\ expiries \in Nat /\ restarts \in Nat
    BY DEF RestartInv, TypeOK
  <2>2. PICK n \in Nat : n = expiries + restarts
    BY <2>1
  <2>3. Counted(q, f, n) /\ 1 + expiries + restarts = 1 + n
    BY <2>1, <2>2
  <2> QED BY <2>1, <2>3, CountedShown
<1> QED BY <1>1, <1>2, <1>3, RestartInvariance, PTL DEF RestartSpec
=============================================================================
