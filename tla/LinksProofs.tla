----------------------------- MODULE LinksProofs ------------------------------
(* Links for every set of peers: entries have a task behind them, dead ones *)
(* are explained by a crash, and the counter is exact.                      *)
EXTENDS Links, FiniteSetTheorems, TLAPS

USE ConstantAssumption

\* The parts of a task.
LEMMA Parts ==
    /\ \A t \in Task : /\ t[1] \in Peer /\ t[2] \in Peer /\ t[3] \in Slot
                       /\ <<t[1], t[2]>> \in Pair /\ t[1] # t[2]
                       /\ t = <<t[1], t[2], t[3]>>
    /\ \A p, q \in Peer : \A i \in Slot : <<p, q>> \in Pair => <<p, q, i>> \in Task
BY DEF Task

\* No peer is started, nothing is counted.
LEMMA InvInit == Init => IInv
<1> SUFFICES ASSUME Init PROVE IInv
  OBVIOUS
<1>1. TypeOK
  BY DEF Init, TypeOK
<1>2. Known /\ EntryServed /\ DeadExplained
  BY DEF Init, Known, Bound, EntryServed, DeadExplained
<1>3. ASSUME NEW q \in Peer
      PROVE  IsFiniteSet(Incoming(q)) /\ num_incoming_conns[q] = Cardinality(Incoming(q))
  <2>1. Incoming(q) = {}
    BY DEF Init, Incoming
  <2>2. num_incoming_conns[q] = 0
    BY DEF Init
  <2> QED BY <2>1, <2>2, FS_EmptySet
<1> QED BY <1>1, <1>2, <1>3 DEF IInv, CountsIncoming

-----------------------------------------------------------------------------
(* The counter.                                                             *)

\* A step that lets nobody in or out, and leaves the counters, keeps them exact.
LEMMA CountKept ==
    ASSUME CountsIncoming, UNCHANGED num_incoming_conns,
           \A t \in Task : conn'[t] \in {"serve", "end"} <=> conn[t] \in {"serve", "end"}
    PROVE  CountsIncoming'
<1>1. ASSUME NEW q \in Peer PROVE Incoming(q)' = Incoming(q)
  BY DEF Incoming
<1> QED BY <1>1 DEF CountsIncoming

\* A connection that begins to be served is counted.
LEMMA AcceptCounts ==
    ASSUME IInv, NEW t \in Task, Accept(t)
    PROVE  CountsIncoming' /\ num_incoming_conns' \in [Peer -> Nat]
<1>1. /\ t[2] \in Peer /\ t \notin Incoming(t[2])
      /\ num_incoming_conns' = [num_incoming_conns EXCEPT ![t[2]] = @ + 1]
      /\ conn' = [conn EXCEPT ![t] = "serve"]
      /\ num_incoming_conns \in [Peer -> Nat] /\ conn \in [Task -> {"none", "accept", "serve", "end"}]
  BY Parts DEF Accept, Incoming, IInv, TypeOK
<1>2. ASSUME NEW q \in Peer, q # t[2]
      PROVE  Incoming(q)' = Incoming(q) /\ num_incoming_conns'[q] = num_incoming_conns[q]
  BY <1>1, <1>2 DEF Incoming
<1>3. /\ Incoming(t[2])' = Incoming(t[2]) \cup {t}
      /\ num_incoming_conns'[t[2]] = num_incoming_conns[t[2]] + 1
  BY <1>1 DEF Incoming
<1>4. /\ IsFiniteSet(Incoming(t[2]) \cup {t})
      /\ Cardinality(Incoming(t[2]) \cup {t}) = Cardinality(Incoming(t[2])) + 1
  BY <1>1, FS_AddElement DEF IInv, CountsIncoming
<1>5. ASSUME NEW q \in Peer
      PROVE  /\ IsFiniteSet(Incoming(q)')
             /\ num_incoming_conns'[q] = Cardinality(Incoming(q)')
  BY <1>1, <1>2, <1>3, <1>4 DEF IInv, CountsIncoming
<1> QED BY <1>1, <1>5 DEF CountsIncoming

\* One that is left no longer is; the counter was not 0.
LEMMA DoneCounts ==
    ASSUME IInv, NEW t \in Task, Done(t)
    PROVE  CountsIncoming' /\ num_incoming_conns' \in [Peer -> Nat]
<1>1. /\ t[2] \in Peer /\ t \in Incoming(t[2])
      /\ num_incoming_conns' = [num_incoming_conns EXCEPT ![t[2]] = @ - 1]
      /\ conn' = [conn EXCEPT ![t] = "none"]
      /\ num_incoming_conns \in [Peer -> Nat] /\ conn \in [Task -> {"none", "accept", "serve", "end"}]
  BY Parts DEF Done, Incoming, IInv, TypeOK
<1>2. ASSUME NEW q \in Peer, q # t[2]
      PROVE  Incoming(q)' = Incoming(q) /\ num_incoming_conns'[q] = num_incoming_conns[q]
  BY <1>1, <1>2 DEF Incoming
<1>3. /\ Incoming(t[2])' = Incoming(t[2]) \ {t}
      /\ num_incoming_conns'[t[2]] = num_incoming_conns[t[2]] - 1
  BY <1>1 DEF Incoming
<1>4. /\ IsFiniteSet(Incoming(t[2]) \ {t})
      /\ Cardinality(Incoming(t[2]) \ {t}) = Cardinality(Incoming(t[2])) - 1
  BY <1>1, FS_RemoveElement DEF IInv, CountsIncoming
<1>5. Cardinality(Incoming(t[2]) \ {t}) \in Nat
  BY <1>4, FS_CardinalityType
<1>6. num_incoming_conns[t[2]] - 1 \in Nat
  BY <1>1, <1>4, <1>5 DEF IInv, CountsIncoming
<1>7. ASSUME NEW q \in Peer
      PROVE  /\ IsFiniteSet(Incoming(q)')
             /\ num_incoming_conns'[q] = Cardinality(Incoming(q)')
  BY <1>1, <1>2, <1>3, <1>4 DEF IInv, CountsIncoming
<1> QED BY <1>1, <1>6, <1>7 DEF CountsIncoming

\* A crash ends all its connections, and the count of them.
LEMMA CrashCounts == ASSUME IInv, NEW p \in Peer, Crash(p) PROVE CountsIncoming'
<1>1. /\ num_incoming_conns' = [num_incoming_conns EXCEPT ![p] = 0]
      /\ conn' = [t \in Task |-> IF t[2] = p THEN "none" ELSE conn[t]]
      /\ num_incoming_conns \in [Peer -> Nat]
  BY DEF Crash, IInv, TypeOK
<1>2. Incoming(p)' = {} /\ num_incoming_conns'[p] = 0
  BY <1>1 DEF Incoming
<1>3. ASSUME NEW q \in Peer, q # p
      PROVE  Incoming(q)' = Incoming(q) /\ num_incoming_conns'[q] = num_incoming_conns[q]
  BY <1>1, <1>3 DEF Incoming
<1>4. ASSUME NEW q \in Peer
      PROVE  /\ IsFiniteSet(Incoming(q)')
             /\ num_incoming_conns'[q] = Cardinality(Incoming(q)')
  BY <1>2, <1>3, FS_EmptySet DEF IInv, CountsIncoming
<1> QED BY <1>4 DEF CountsIncoming

-----------------------------------------------------------------------------
\* A task that ends without leaving an entry behind disturbs no other.
LEMMA EntriesKept ==
    ASSUME EntryServed, NEW t \in Task, task' = [task EXCEPT ![t] = "none"],
           \A p, q \in Peer : peers'[p][q] \in Slot =>
               peers'[p][q] = peers[p][q] /\ <<p, q, peers[p][q]>> # t
    PROVE  EntryServed'
<1> SUFFICES ASSUME NEW p \in Peer, NEW q \in Peer, peers'[p][q] \in Slot
             PROVE  <<p, q>> \in Pair /\ task'[<<p, q, peers'[p][q]>>] \in {"connect", "open"}
  BY DEF EntryServed
<1>1. peers'[p][q] = peers[p][q] /\ <<p, q, peers[p][q]>> # t
  OBVIOUS
<1>2. <<p, q>> \in Pair /\ task[<<p, q, peers[p][q]>>] \in {"connect", "open"}
  BY <1>1 DEF EntryServed
<1>3. <<p, q, peers[p][q]>> \in Task
  BY <1>1, <1>2, Parts
<1> QED BY <1>1, <1>2, <1>3

\* Every step keeps it all.
LEMMA InvStep == IInv /\ [Next]_vars => IInv'
<1> SUFFICES ASSUME IInv, [Next]_vars PROVE IInv'
  OBVIOUS
<1> USE Parts
<1>0. TypeOK /\ Known /\ EntryServed /\ DeadExplained /\ CountsIncoming
  BY DEF IInv
<1>1. ASSUME NEW p \in Peer, Start(p) PROVE IInv'
  <2>1. PICK D \in SUBSET {t \in Task : t[1] = p /\ proc[t[2]] # "off" /\ Idle(t)} :
           task' = [t \in Task |-> IF t \in D THEN "spawned" ELSE task[t]]
    BY <1>1 DEF Start
  <2>2. proc' = [proc EXCEPT ![p] = "up"]
        /\ UNCHANGED <<peers, conn, num_incoming_conns, announced, crashed>>
    BY <1>1 DEF Start
  <2>3. TypeOK'
    BY <1>0, <2>1, <2>2 DEF TypeOK
  <2>4. Known'
    BY <1>0, <2>1, <2>2 DEF Known, Bound, TypeOK, Idle
  <2>5. EntryServed'
    <3> SUFFICES ASSUME NEW q \in Peer, NEW r \in Peer, peers[q][r] \in Slot
                 PROVE  <<q, r>> \in Pair /\ task'[<<q, r, peers[q][r]>>] \in {"connect", "open"}
      BY <2>2 DEF EntryServed
    <3>1. <<q, r>> \in Pair /\ task[<<q, r, peers[q][r]>>] \in {"connect", "open"}
      BY <1>0 DEF EntryServed
    <3> QED BY <2>1, <3>1 DEF Idle
  <2>6. DeadExplained' /\ CountsIncoming'
    BY <1>0, <2>2, CountKept DEF DeadExplained
  <2> QED BY <2>3, <2>4, <2>5, <2>6 DEF IInv
<1>14. ASSUME NEW p \in Peer, Bind(p) PROVE IInv'
  <2>1. TypeOK'
    BY <1>0, <1>14 DEF Bind, TypeOK
  <2>2. Known'
    BY <1>0, <1>14 DEF Bind, Bound, Known, TypeOK
  <2>3. EntryServed' /\ DeadExplained'
    BY <1>0, <1>14 DEF Bind, EntryServed, DeadExplained
  <2>4. CountsIncoming'
    BY <1>0, <1>14, CountKept DEF Bind
  <2> QED BY <2>1, <2>2, <2>3, <2>4 DEF IInv
<1>2. ASSUME NEW p \in Peer, Crash(p) PROVE IInv'
  <2>1. TypeOK' /\ DeadExplained'
    BY <1>0, <1>2 DEF Crash, TypeOK, DeadExplained
  <2>2. Known'
    BY <1>0, <1>2 DEF Crash, Known, Bound, TypeOK
  <2>3. EntryServed'
    <3> SUFFICES ASSUME NEW q \in Peer, NEW r \in Peer, peers'[q][r] \in Slot
                 PROVE  <<q, r>> \in Pair /\ task'[<<q, r, peers'[q][r]>>] \in {"connect", "open"}
      BY DEF EntryServed
    <3>1. q # p /\ peers'[q][r] = peers[q][r]
      BY <1>0, <1>2 DEF Crash, TypeOK
    <3>2. <<q, r>> \in Pair /\ task[<<q, r, peers[q][r]>>] \in {"connect", "open"}
      BY <1>0, <3>1 DEF EntryServed
    <3>3. task'[<<q, r, peers[q][r]>>] = task[<<q, r, peers[q][r]>>]
      BY <1>2, <3>1, <3>2 DEF Crash
    <3> QED BY <3>1, <3>2, <3>3
  <2> QED BY <1>2, <2>1, <2>2, <2>3, CrashCounts DEF IInv
<1>3. ASSUME NEW p \in Peer, Announce(p) PROVE IInv'
  <2>1. Available(num_incoming_conns[p]) \in Nat
    BY <1>0 DEF Available, TypeOK
  <2>2. TypeOK'
    BY <1>0, <1>3, <2>1 DEF Announce, TypeOK
  <2>3. Known'
    BY <1>0, <1>3 DEF Announce, Known, Bound
  <2>4. EntryServed' /\ DeadExplained'
    BY <1>0, <1>3 DEF Announce, EntryServed, DeadExplained
  <2>5. CountsIncoming'
    BY <1>0, <1>3, CountKept DEF Announce
  <2> QED BY <2>2, <2>3, <2>4, <2>5 DEF IInv
<1>4. ASSUME NEW t \in Task, Insert(t) PROVE IInv'
  <2>1. TypeOK' /\ DeadExplained'
    BY <1>0, <1>4 DEF Insert, TypeOK, DeadExplained
  <2>2. Known'
    BY <1>0, <1>4 DEF Insert, Known, Bound, TypeOK
  <2>3. EntryServed'
    BY <1>0, <1>4 DEF Insert, EntryServed, TypeOK
  <2>4. CountsIncoming'
    BY <1>0, <1>4, CountKept DEF Insert
  <2> QED BY <2>1, <2>2, <2>3, <2>4 DEF IInv
<1>5. ASSUME NEW t \in Task, Connect(t) PROVE IInv'
  <2>1. TypeOK' /\ DeadExplained'
    BY <1>0, <1>5 DEF Connect, TypeOK, DeadExplained
  <2>2. Known'
    BY <1>0, <1>5 DEF Connect, Known, Bound, TypeOK
  <2>3. EntryServed'
    BY <1>0, <1>5 DEF Connect, EntryServed, TypeOK
  <2>4. CountsIncoming'
    <3>1. conn[t] = "none" /\ conn' = [conn EXCEPT ![t] = "accept"]
      BY <1>0, <1>5 DEF Connect, Known
    <3>2. \A u \in Task : conn'[u] \in {"serve", "end"} <=> conn[u] \in {"serve", "end"}
      BY <1>0, <3>1 DEF TypeOK
    <3> QED BY <1>0, <1>5, <3>2, CountKept DEF Connect
  <2> QED BY <2>1, <2>2, <2>3, <2>4 DEF IInv
<1>6. ASSUME NEW t \in Task, Refused(t) PROVE IInv'
  <2>1. proc[t[2]] = "down" /\ t[2] \in crashed
    BY <1>0, <1>6 DEF Refused, Bound, Known, TypeOK
  <2>2. TypeOK' /\ DeadExplained'
    BY <1>0, <1>6, <2>1 DEF Refused, TypeOK, DeadExplained
  <2>3. Known'
    BY <1>0, <1>6 DEF Refused, Bound, Known, TypeOK
  <2>4. EntryServed'
    <3>1. \A p, q \in Peer : peers'[p][q] \in Slot =>
             peers'[p][q] = peers[p][q] /\ <<p, q, peers[p][q]>> # t
      BY <1>0, <1>6 DEF Refused, Entered, TypeOK
    <3> QED BY <1>0, <1>6, <3>1, EntriesKept DEF Refused
  <2>5. CountsIncoming'
    BY <1>0, <1>6, CountKept DEF Refused
  <2> QED BY <2>2, <2>3, <2>4, <2>5 DEF IInv
<1>7. ASSUME NEW t \in Task, WriteFails(t) PROVE IInv'
  <2>1. TypeOK' /\ DeadExplained'
    BY <1>0, <1>7 DEF WriteFails, TypeOK, DeadExplained
  <2>2. Known'
    BY <1>0, <1>7 DEF WriteFails, Known, Bound, TypeOK
  <2>3. EntryServed'
    <3>1. \A p, q \in Peer : peers'[p][q] \in Slot =>
             peers'[p][q] = peers[p][q] /\ <<p, q, peers[p][q]>> # t
      BY <1>0, <1>7 DEF WriteFails, Entered, TypeOK
    <3> QED BY <1>0, <1>7, <3>1, EntriesKept DEF WriteFails
  <2>4. CountsIncoming'
    BY <1>0, <1>7, CountKept DEF WriteFails
  <2> QED BY <2>1, <2>2, <2>3, <2>4 DEF IInv
<1>8. ASSUME NEW t \in Task, Orphan(t) PROVE IInv'
  <2>1. TypeOK' /\ DeadExplained'
    BY <1>0, <1>8 DEF Orphan, TypeOK, DeadExplained
  <2>2. Known'
    BY <1>0, <1>8 DEF Orphan, Known, Bound, TypeOK
  <2>3. EntryServed'
    <3>1. \A p, q \in Peer : peers'[p][q] \in Slot =>
             peers'[p][q] = peers[p][q] /\ <<p, q, peers[p][q]>> # t
      BY <1>0, <1>8 DEF Orphan, Entered, TypeOK
    <3> QED BY <1>0, <1>8, <3>1, EntriesKept DEF Orphan
  <2>4. CountsIncoming'
    BY <1>0, <1>8, CountKept DEF Orphan
  <2> QED BY <2>1, <2>2, <2>3, <2>4 DEF IInv
<1>9. ASSUME NEW t \in Task, Accept(t) PROVE IInv'
  <2>1. Known' /\ EntryServed' /\ DeadExplained'
    BY <1>0, <1>9 DEF Accept, Known, Bound, EntryServed, DeadExplained, TypeOK
  <2>2. TypeOK' /\ CountsIncoming'
    BY <1>0, <1>9, AcceptCounts DEF Accept, TypeOK
  <2> QED BY <2>1, <2>2 DEF IInv
<1>10. ASSUME NEW t \in Task, ReadEnd(t) \/ Error(t) PROVE IInv'
  <2>1. /\ conn[t] = "serve" /\ conn' = [conn EXCEPT ![t] = "end"]
        /\ UNCHANGED <<proc, peers, task, num_incoming_conns, announced, crashed>>
    BY <1>10 DEF ReadEnd, Error
  <2>2. TypeOK' /\ Known' /\ EntryServed' /\ DeadExplained'
    BY <1>0, <2>1 DEF TypeOK, Known, Bound, EntryServed, DeadExplained
  <2>3. \A u \in Task : conn'[u] \in {"serve", "end"} <=> conn[u] \in {"serve", "end"}
    BY <1>0, <2>1 DEF TypeOK
  <2> QED BY <1>0, <2>1, <2>2, <2>3, CountKept DEF IInv
<1>11. ASSUME NEW t \in Task, Done(t) PROVE IInv'
  <2>1. Known' /\ EntryServed' /\ DeadExplained'
    BY <1>0, <1>11 DEF Done, Known, Bound, EntryServed, DeadExplained, TypeOK
  <2>2. TypeOK' /\ CountsIncoming'
    BY <1>0, <1>11, DoneCounts DEF Done, TypeOK
  <2> QED BY <2>1, <2>2 DEF IInv
<1>12. ASSUME NEW t \in Task, NEW a \in announced, Hear(t, a) PROVE IInv'
  <2>1. PICK u \in Task : /\ u[1] = t[2] /\ u[2] = a[1] /\ Idle(u)
                          /\ task' = [task EXCEPT ![u] = "spawned"]
    BY <1>12 DEF Hear
  <2>2. /\ conn[t] = "serve"
        /\ UNCHANGED <<proc, peers, conn, num_incoming_conns, announced, crashed>>
    BY <1>12 DEF Hear
  <2>3. proc[u[1]] = "up" /\ proc[u[2]] # "off"
    BY <1>0, <2>1, <2>2 DEF Known
  <2>4. TypeOK' /\ Known' /\ DeadExplained'
    BY <1>0, <2>1, <2>2, <2>3 DEF TypeOK, Known, Bound, DeadExplained, Idle
  <2>5. EntryServed'
    BY <1>0, <2>1, <2>2 DEF EntryServed, Idle, TypeOK
  <2> QED BY <1>0, <2>2, <2>4, <2>5, CountKept DEF IInv
<1>13. CASE UNCHANGED vars
  <2>1. TypeOK' /\ Known' /\ EntryServed' /\ DeadExplained'
    BY <1>0, <1>13 DEF vars, TypeOK, Known, Bound, EntryServed, DeadExplained
  <2> QED BY <1>0, <1>13, <2>1, CountKept DEF vars, IInv
<1> QED BY <1>1, <1>2, <1>3, <1>4, <1>5, <1>6, <1>7, <1>8, <1>9, <1>10, <1>11, <1>12, <1>13, <1>14
        DEF Next, Dial, Serve

\* All of it holds always.
THEOREM Invariance == Spec => []IInv
BY InvInit, InvStep, PTL DEF Spec

\* Whatever tasks there are for a name, the entry's own task is there to write.
THEOREM EntriesServed == Spec => []EntryServed
BY Invariance, PTL DEF IInv

\* An entry is only dead when the peer it names has crashed.
THEOREM DeadHaveCrashed == Spec => []DeadExplained
BY Invariance, PTL DEF IInv

\* The counter of incoming connections is exact, and so never goes below 0.
THEOREM CounterExact == Spec => []CountsIncoming
BY Invariance, PTL DEF IInv
=============================================================================
