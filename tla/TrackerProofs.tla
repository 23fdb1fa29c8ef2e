---------------------------- MODULE TrackerProofs ----------------------------
(* Tracker for any number of runs, names and addresses: no entry is         *)
(* orphaned; whoever is in the network under a name that nobody else has    *)
(* claimed is listed and, while replies have room for all, of two such      *)
(* peers one dials the other, whatever names others claim at a time.        *)
EXTENDS Tracker, FiniteSetTheorems, TLAPS

USE RunAssumption

-----------------------------------------------------------------------------
(* Whatever the names.                                                      *)

\* A step keeps every variable in its type.
LEMMA TypeStep == TypeOK /\ [Next]_vars => TypeOK'
<1> SUFFICES ASSUME TypeOK, [Next]_vars PROVE TypeOK'
  OBVIOUS
<1> USE DEF TypeOK, TaskState, ProcState
<1>1. ASSUME NEW p \in Proc, Start(p) PROVE TypeOK'
  BY <1>1 DEF Start
<1>2. ASSUME NEW p \in Proc, Join(p) \/ GiveUp(p) \/ Go(p) PROVE TypeOK'
  BY <1>2 DEF Join, GiveUp, Go
<1>3. ASSUME NEW p \in Proc, Check(p) PROVE TypeOK'
  BY <1>3 DEF Check
<1>4. ASSUME NEW p \in Proc, Set(p) PROVE TypeOK'
  BY <1>4 DEF Set
<1>5. ASSUME NEW p \in Proc, List(p) PROVE TypeOK'
  <2>1. PICK T \in Choices(Listed) :
               peers' = [peers EXCEPT ![p] = IF Connected(p) THEN T ELSE {}]
    BY <1>5 DEF List
  <2>2. T \in SUBSET Entry
    BY DEF Choices, Listed
  <2> QED BY <1>5, <2>1, <2>2 DEF List
<1>6. ASSUME NEW p \in Proc, Refuse(p) \/ WriteFails(p) PROVE TypeOK'
  BY <1>6 DEF Refuse, WriteFails
<1>7. ASSUME NEW p \in Proc, End(p) PROVE TypeOK'
  BY <1>7 DEF End
<1>8. CASE UNCHANGED vars
  BY <1>8 DEF vars
<1> QED BY <1>1, <1>2, <1>3, <1>4, <1>5, <1>6, <1>7, <1>8 DEF Next, HandleConnection

\* A run leaves something behind only once it has started.
LEMMA FreshStep == TypeOK /\ Fresh /\ [Next]_vars => Fresh'
<1> SUFFICES ASSUME TypeOK, Fresh, [Next]_vars PROVE Fresh'
  OBVIOUS
<1> USE DEF TypeOK, TaskState, ProcState, Fresh
<1>1. ASSUME NEW p \in Proc, Start(p) PROVE Fresh'
  BY <1>1 DEF Start
<1>2. ASSUME NEW p \in Proc, Join(p) \/ GiveUp(p) \/ Go(p) PROVE Fresh'
  BY <1>2 DEF Join, GiveUp, Go, Connected
<1>3. ASSUME NEW p \in Proc, HandleConnection(p) PROVE Fresh'
  <2>1. task[p] # "none" /\ proc' = proc
    BY <1>3 DEF HandleConnection, Check, Set, List, Refuse, WriteFails, End
  <2>2. \A q \in Proc : q # p => task'[q] = task[q] /\ reply'[q] = reply[q]
    BY <1>3 DEF HandleConnection, Check, Set, List, Refuse, WriteFails, End
  <2> QED BY <2>1, <2>2
<1>4. CASE UNCHANGED vars
  BY <1>4 DEF vars
<1> QED BY <1>1, <1>2, <1>3, <1>4 DEF Next

\* The connection that holds an entry goes on holding it until it removes it.
LEMMA HeldStep == IInv /\ [Next]_vars => EntryHeld'
<1> SUFFICES ASSUME IInv, [Next]_vars,
                    NEW n \in Name, known_peers'[n] # NoAddr
             PROVE  \E h \in Proc : /\ NameOf[h] = n /\ AddrOf[h] = known_peers'[n]
                                    /\ task'[h] \in {"list", "refuse", "serve", "panicked"}
  BY DEF EntryHeld
<1> DEFINE Holder == \E h \in Proc :
                        /\ NameOf[h] = n /\ AddrOf[h] = known_peers'[n]
                        /\ task'[h] \in {"list", "refuse", "serve", "panicked"}
<1> USE DEF IInv, TypeOK
<1>0. known_peers[n] # NoAddr =>
        \E h \in Proc : /\ NameOf[h] = n /\ AddrOf[h] = known_peers[n]
                        /\ task[h] \in {"list", "refuse", "serve", "panicked"}
  BY DEF EntryHeld
<1>1. ASSUME NEW p \in Proc, Start(p) PROVE Holder
  <2>1. task[p] = "none"
    BY <1>1 DEF Start, Fresh
  <2> QED BY <1>0, <1>1, <2>1 DEF Start
<1>2. ASSUME NEW p \in Proc, Join(p) \/ GiveUp(p) \/ Go(p) PROVE Holder
  BY <1>0, <1>2 DEF Join, GiveUp, Go
<1>3. ASSUME NEW p \in Proc, Check(p) PROVE Holder
  BY <1>0, <1>3 DEF Check
<1>4. ASSUME NEW p \in Proc, Set(p) PROVE Holder
  <2>1. CASE n = NameOf[p]
    <3>1. known_peers'[n] = AddrOf[p] /\ task'[p] = "list"
      BY <1>4, <2>1 DEF Set
    <3> QED BY <2>1, <3>1
  <2>2. CASE n # NameOf[p]
    BY <1>0, <1>4, <2>2 DEF Set
  <2> QED BY <2>1, <2>2
<1>5. ASSUME NEW p \in Proc, List(p) \/ Refuse(p) \/ WriteFails(p) PROVE Holder
  BY <1>0, <1>5 DEF List, Refuse, WriteFails
<1>6. ASSUME NEW p \in Proc, End(p) PROVE Holder
  <2>1. n # NameOf[p] /\ known_peers'[n] = known_peers[n]
    BY <1>6 DEF End
  <2> QED BY <1>0, <1>6, <2>1 DEF End
<1>7. CASE UNCHANGED vars
  BY <1>0, <1>7 DEF vars
<1> QED BY <1>1, <1>2, <1>3, <1>4, <1>5, <1>6, <1>7 DEF Next, HandleConnection

\* What holds whatever the names, holds always.
THEOREM Invariance == Spec => []IInv
<1>1. Init => IInv
  BY DEF Init, IInv, TypeOK, TaskState, ProcState, Fresh, EntryHeld
<1>2. IInv /\ [Next]_vars => IInv'
  BY TypeStep, FreshStep, HeldStep DEF IInv
<1> QED BY <1>1, <1>2, PTL DEF Spec

\* Every variable always holds a value of its type.
THEOREM TypeCorrect == Spec => []TypeOK
BY Invariance, PTL DEF IInv

\* No entry of the tracker's map is ever orphaned: the connection that put it there has
\* not ended, or its task has panicked.
THEOREM NoneOrphaned == Spec => []EntryHeld
BY Invariance, PTL DEF IInv

-----------------------------------------------------------------------------
(* Runs whose name nobody else has claimed.                                 *)

\* A run that was not alone is not alone later.
LEMMA AloneBefore ==
    ASSUME TypeOK, [Next]_vars, NEW q \in Proc, Alone(q)'
    PROVE  Alone(q)
<1> SUFFICES ASSUME NEW p \in Proc, proc'[p] = "off" PROVE proc[p] = "off"
  BY DEF Alone
<1> USE DEF TypeOK
<1>1. ASSUME NEW r \in Proc, Start(r) \/ Join(r) \/ GiveUp(r) \/ Go(r) PROVE proc[p] = "off"
  BY <1>1 DEF Start, Join, GiveUp, Go
<1>2. ASSUME NEW r \in Proc, HandleConnection(r) PROVE proc' = proc
  BY <1>2 DEF HandleConnection, Check, Set, List, Refuse, WriteFails, End
<1> QED BY <1>1, <1>2 DEF Next, vars

\* A name in the map is there with the address of the only run that has claimed it.
LEMMA OwnEntry ==
    ASSUME IInv, NEW p \in Proc, Alone(p), known_peers[NameOf[p]] # NoAddr
    PROVE  /\ known_peers[NameOf[p]] = AddrOf[p]
           /\ task[p] \in {"list", "refuse", "serve", "panicked"}
BY DEF Alone, IInv, EntryHeld, Fresh

\* A step of one run, or of its connection, leaves the others as they are, and the entry of
\* a name that is another's alone.
LEMMA Others ==
    ASSUME IInv, NEW p \in Proc, NEW q \in Proc, q # p,
           Start(p) \/ Join(p) \/ GiveUp(p) \/ Go(p) \/ HandleConnection(p)
    PROVE  /\ task'[q] = task[q] /\ proc'[q] = proc[q]
           /\ reply'[q] = reply[q] /\ peers'[q] = peers[q]
           /\ Alone(q) => known_peers'[NameOf[q]] = known_peers[NameOf[q]]
<1> USE DEF IInv, TypeOK
<1>1. CASE Start(p) \/ Join(p) \/ GiveUp(p) \/ Go(p)
  BY <1>1 DEF Start, Join, GiveUp, Go
<1>2. CASE Check(p) \/ List(p) \/ Refuse(p) \/ WriteFails(p)
  BY <1>2 DEF Check, List, Refuse, WriteFails
<1>3. CASE Set(p) \/ End(p)
  BY <1>3 DEF Set, End, Alone, Fresh
<1> QED BY <1>1, <1>2, <1>3 DEF HandleConnection

\* What DInv says of one run.
RunOK(p) ==
    /\ task[p] # "refuse"
    /\ Held(p) => known_peers[NameOf[p]] = AddrOf[p]
    /\ Connected(p) /\ (reply[p] # "none" \/ proc[p] = "joined")
         => task[p] = "serve" /\ reply[p] = "peers"

\* Its own steps keep it so.
LEMMA OwnStep ==
    ASSUME DInv, NEW p \in Proc, Alone(p),
           Start(p) \/ Join(p) \/ GiveUp(p) \/ Go(p) \/ HandleConnection(p)
    PROVE  RunOK(p)'
<1> USE DEF DInv, IInv, TypeOK, RunOK, Held, Connected
<1>0. RunOK(p)
  BY DEF NoneRefused, HeldListed, ServedOnce
<1>1. CASE Start(p)
  <2>1. task[p] = "none" /\ reply[p] = "none"
    BY <1>1 DEF Start, Fresh
  <2> QED BY <1>1, <2>1 DEF Start
<1>2. CASE Join(p)
  BY <1>0, <1>2 DEF Join
<1>3. CASE GiveUp(p) \/ Go(p)
  BY <1>0, <1>3 DEF GiveUp, Go
<1>4. CASE Check(p)
  <2>1. task[p] = "check" /\ known_peers[NameOf[p]] = NoAddr
    BY <1>4, OwnEntry DEF Check
  <2> QED BY <1>0, <1>4, <2>1 DEF Check
<1>5. CASE Set(p)
  BY <1>0, <1>5 DEF Set
<1>6. CASE List(p)
  BY <1>0, <1>6 DEF List
<1>7. CASE Refuse(p) \/ WriteFails(p)
  BY <1>0, <1>7 DEF Refuse, WriteFails
<1>8. CASE End(p)
  BY <1>0, <1>8 DEF End
<1> QED BY <1>1, <1>2, <1>3, <1>4, <1>5, <1>6, <1>7, <1>8 DEF HandleConnection

\* Every step keeps all of it.
LEMMA AloneStep == DInv /\ [Next]_vars => DInv'
<1> SUFFICES ASSUME DInv, [Next]_vars PROVE DInv'
  OBVIOUS
<1>1. IInv'
  BY TypeStep, FreshStep, HeldStep DEF DInv, IInv
<1>2. ASSUME NEW q \in Proc, Alone(q) PROVE RunOK(q)'
  <2>0. RunOK(q) /\ IInv
    BY <1>2 DEF DInv, IInv, RunOK, NoneRefused, HeldListed, ServedOnce
  <2>1. CASE UNCHANGED vars
    BY <2>0, <2>1 DEF vars, RunOK, Held, Connected
  <2>2. ASSUME NEW p \in Proc,
               Start(p) \/ Join(p) \/ GiveUp(p) \/ Go(p) \/ HandleConnection(p)
        PROVE  RunOK(q)'
    <3>1. CASE p = q
      BY <1>2, <2>2, <3>1, OwnStep
    <3>2. CASE p # q
      <4>1. /\ task'[q] = task[q] /\ proc'[q] = proc[q] /\ reply'[q] = reply[q]
            /\ known_peers'[NameOf[q]] = known_peers[NameOf[q]]
        BY <1>2, <2>0, <2>2, <3>2, Others
      <4> QED BY <2>0, <4>1 DEF RunOK, Held, Connected
    <3> QED BY <3>1, <3>2
  <2> QED BY <2>1, <2>2 DEF Next
<1>3. \A q \in Proc : Alone(q)' => Alone(q)
  BY AloneBefore DEF DInv, IInv
<1> QED BY <1>1, <1>2, <1>3 DEF DInv, RunOK, NoneRefused, HeldListed, ServedOnce

\* It holds to begin with.
LEMMA AloneInit == Init => BInv
BY DEF Init, BInv, DInv, IInv, TypeOK, TaskState, ProcState, Fresh, EntryHeld, NoneRefused,
       HeldListed, Held, ServedOnce, ServedReach, Connected

\* Whoever is in the network under a name that nobody else has claimed is listed with its
\* own address.
THEOREM JoinedAlwaysListed == Spec => []JoinedListed
<1>1. DInv => JoinedListed
  BY DEF DInv, JoinedListed, HeldListed, ServedOnce, Held, Connected
<1>2. Init => DInv
  BY AloneInit DEF BInv
<1> QED BY <1>1, <1>2, AloneStep, PTL DEF Spec

-----------------------------------------------------------------------------
(* And replies have room for all.                                           *)

\* Then a reply lists every entry of the map.
LEMMA ListsAll ==
    ASSUME TypeOK, Cardinality(Name) <= Fanout, NEW T \in Choices(Listed)
    PROVE  T = Listed
<1> DEFINE name == [e \in Listed |-> e[1]]
<1>1. name \in Injection(Listed, Name)
  BY DEF Listed, Entry, Injection, IsInjective, TypeOK
<1>2. IsFiniteSet(Listed) /\ Cardinality(Listed) <= Cardinality(Name)
  BY <1>1, FS_Injection
<1>3. T \in SUBSET Listed /\ (Cardinality(T) = Fanout \/ T = Listed)
  BY DEF Choices
<1>4. /\ Cardinality(T) <= Cardinality(Listed)
      /\ Cardinality(Listed) = Cardinality(T) => Listed = T
  BY <1>2, <1>3, FS_Subset
<1>5. Cardinality(T) \in Nat /\ Cardinality(Listed) \in Nat /\ Cardinality(Name) \in Nat
  BY <1>2, <1>3, FS_CardinalityType, FS_Subset
<1> QED BY <1>2, <1>3, <1>4, <1>5

\* Of two connected peers alone with their names that have been served, the one served
\* last was told of the other.
LEMMA ReachStep ==
    ASSUME Cardinality(Name) <= Fanout
    PROVE  BInv /\ [Next]_vars => BInv'
<1> SUFFICES ASSUME BInv, [Next]_vars PROVE ServedReach'
  BY AloneStep DEF BInv
<1>0. DInv /\ IInv /\ TypeOK /\ ServedReach
  BY DEF BInv, DInv, IInv
<1> DEFINE Served(p) == Alone(p) /\ task[p] = "serve" /\ Connected(p)
<1>A. \A p \in Proc : Alone(p)' => Alone(p)
  BY <1>0, AloneBefore
<1>1. CASE UNCHANGED vars
  BY <1>0, <1>1, <1>A DEF vars, ServedReach, Connected, Reaches, Dials
<1>2. ASSUME NEW r \in Proc,
             Start(r) \/ Join(r) \/ GiveUp(r) \/ Go(r) \/ HandleConnection(r)
      PROVE  ServedReach'
  <2>1. CASE ~ List(r)
    <3>1. ASSUME NEW p \in Proc, Served(p)' PROVE Served(p) /\ peers'[p] = peers[p]
      <4>1. CASE p # r
        BY <1>0, <1>2, <1>A, <3>1, <4>1, Others DEF Connected
      <4>2. CASE p = r
        BY <1>0, <1>2, <1>A, <2>1, <3>1, <4>2
           DEF Start, Join, GiveUp, Go, HandleConnection, Check, Set, Refuse, WriteFails, End,
               Connected, TypeOK, DInv, IInv, Fresh, NoneRefused
      <4> QED BY <4>1, <4>2
    <3> QED BY <1>0, <3>1 DEF ServedReach, Reaches, Dials
  <2>2. CASE List(r)
    <3>1. /\ peers' = [peers EXCEPT ![r] = IF Connected(r) THEN Listed ELSE {}]
          /\ UNCHANGED proc /\ task[r] = "list"
      BY <1>0, <2>2, ListsAll DEF List
    <3>2. ASSUME NEW p \in Proc, p # r, Served(p)' PROVE Served(p) /\ peers'[p] = peers[p]
      BY <1>0, <1>2, <1>A, <3>2, Others DEF Connected
    <3>3. ASSUME NEW p \in Proc, p # r, Served(p)', Served(r)' PROVE Reaches(r, p)'
      <4>1. known_peers[NameOf[p]] = AddrOf[p]
        BY <1>0, <3>2, <3>3 DEF DInv, HeldListed, Held
      <4>2. <<NameOf[p], AddrOf[p]>> \in Listed
        BY <4>1 DEF Listed, Entry
      <4>3. NameOf[p] # NameOf[r]
        BY <1>0, <3>1, <3>2, <3>3 DEF Alone, IInv, Fresh
      <4>4. peers'[r] = Listed
        BY <1>0, <3>1, <3>3 DEF TypeOK, Connected
      <4> QED BY <4>2, <4>3, <4>4 DEF Reaches, Dials
    <3>4. ASSUME NEW p \in Proc, NEW q \in Proc, p # q, Served(p)', Served(q)'
          PROVE  Reaches(p, q)' \/ Reaches(q, p)'
      <4>1. CASE p = r \/ q = r
        BY <3>3, <3>4, <4>1
      <4>2. CASE p # r /\ q # r
        BY <1>0, <3>2, <3>4, <4>2 DEF ServedReach, Reaches, Dials
      <4> QED BY <4>1, <4>2
    <3> QED BY <3>4 DEF ServedReach
  <2> QED BY <2>1, <2>2
<1> QED BY <1>1, <1>2 DEF Next

\* When a reply has room for all, of two peers in the network under names that nobody else
\* has claimed one dials the other, in whatever order registrations interleave.
THEOREM AllBootstrap ==
    ASSUME Cardinality(Name) <= Fanout
    PROVE  Spec => []Bootstraps
<1>1. BInv => Bootstraps
  BY DEF BInv, DInv, Bootstraps, ServedOnce, ServedReach, Connected
<1> QED BY <1>1, AloneInit, ReachStep, PTL DEF Spec
=============================================================================
