---------------------------- MODULE TtlMapProofs -----------------------------
(* TtlMap for every set of keys and durations: its index matches its        *)
(* entries, its background task misses no expiration, and it implements     *)
(* ExpiringMap.                                                             *)
EXTENDS TtlMap, TLAPS

USE ValueAssumption

\* The fields of entries and of their places in the index.
LEMMA Fields ==
    /\ NoEntry \notin Entry
    /\ \A e \in Entry : e.id \in Nat /\ e.at \in Nat \cup {Never}
    /\ \A k \in Key : \A e \in Entry :
          /\ Index(k, e).when = e.at /\ Index(k, e).id = e.id /\ Index(k, e).key = k
          /\ e.at # Never => Index(k, e) \in [when : Nat, id : Nat, key : Key]
BY DEF Entry, Index

\* The map starts out in order.
LEMMA InvInit == Init => IInv
<1> SUFFICES ASSUME Init PROVE IInv
  OBVIOUS
<1>1. /\ entries = [k \in Key |-> NoEntry] /\ expirations = {}
      /\ \A k \in Key : entries[k] = NoEntry
  BY DEF Init
<1>2. TypeOK
  BY <1>1 DEF Init, TypeOK
<1>3. IdsBelow /\ OnlyTimed /\ IndexMatches /\ NoLostWakeup
  BY <1>1 DEF IdsBelow, OnlyTimed, IndexMatches, NoLostWakeup
<1> QED BY <1>2, <1>3 DEF IInv

\* An entry set with, or without, an expiration takes its key's place in the index.
LEMMA SetKeepsIndex ==
    ASSUME IInv, NEW k \in Key, NEW e \in Entry, e.id = next_id, next_id' = next_id + 1,
           entries' = [entries EXCEPT ![k] = e],
           expirations' = (expirations \cup (IF e.at = Never THEN {} ELSE {Index(k, e)}))
                            \ Replaced(k)
    PROVE  /\ entries' \in [Key -> Entry \cup {NoEntry}]
           /\ expirations' \in SUBSET [when : Nat, id : Nat, key : Key]
           /\ IdsBelow' /\ IndexMatches'
<1> USE Fields DEF IInv
<1>1. /\ entries' \in [Key -> Entry \cup {NoEntry}]
      /\ expirations' \in SUBSET [when : Nat, id : Nat, key : Key]
  BY DEF TypeOK
<1>2. /\ entries'[k] = e /\ \A j \in Key : j # k => entries'[j] = entries[j]
      /\ next_id \in Nat
      /\ \A j \in Key : entries[j] \in Entry \cup {NoEntry}
  BY DEF TypeOK
<1>3. \A x \in Replaced(k) : x \in expirations /\ x.key = k /\ x.id < next_id
  BY <1>2 DEF Replaced, IndexMatches, IdsBelow
<1>4. IdsBelow'
  <2>1. ASSUME NEW j \in Key, entries'[j] # NoEntry PROVE entries'[j].id < next_id'
    BY <1>2, <2>1 DEF IdsBelow
  <2>2. ASSUME NEW x \in expirations' PROVE x.id < next_id'
    <3>1. CASE x \in expirations
      BY <1>2, <3>1 DEF IdsBelow, TypeOK
    <3>2. CASE x = Index(k, e)
      BY <1>2, <3>2
    <3> QED BY <2>2, <3>1, <3>2
  <2> QED BY <2>1, <2>2 DEF IdsBelow
<1>5. ASSUME NEW j \in Key, entries'[j] # NoEntry, entries'[j].at # Never
      PROVE  Index(j, entries'[j]) \in expirations'
  <2>1. CASE j = k
    <3>1. Index(k, e) \notin Replaced(k)
      BY <1>2, <1>3
    <3> QED BY <1>2, <1>5, <2>1, <3>1
  <2>2. CASE j # k
    <3>1. Index(j, entries[j]) \in expirations /\ entries[j] \in Entry
      BY <1>2, <1>5, <2>2 DEF IndexMatches
    <3>2. Index(j, entries[j]) \notin Replaced(k)
      BY <1>3, <2>2, <3>1
    <3> QED BY <1>2, <2>2, <3>1, <3>2
  <2> QED BY <2>1, <2>2
<1>6. ASSUME NEW x \in expirations'
      PROVE  entries'[x.key] # NoEntry /\ Index(x.key, entries'[x.key]) = x
  <2>1. CASE x \in expirations
    <3>1. /\ entries[x.key] # NoEntry /\ Index(x.key, entries[x.key]) = x
          /\ x.key \in Key /\ x.when \in Nat
      BY <2>1 DEF IndexMatches, TypeOK
    <3>2. x.key # k
      <4>1. ASSUME x.key = k PROVE x \in Replaced(k)
        BY <1>2, <3>1, <4>1 DEF Replaced
      <4> QED BY <1>6, <4>1
    <3> QED BY <1>2, <3>1, <3>2
  <2>2. CASE x = Index(k, e)
    BY <1>2, <2>2
  <2> QED BY <1>6, <2>1, <2>2
<1> QED BY <1>1, <1>4, <1>5, <1>6 DEF IndexMatches

\* Every step keeps it in order.
LEMMA InvStep == IInv /\ [Next]_vars => IInv'
<1> SUFFICES ASSUME IInv, [Next]_vars PROVE IInv'
  OBVIOUS
<1> USE Fields DEF IInv
<1>1. ASSUME NEW k \in Timed, NEW ttl \in Ttl, Set(k, ttl) PROVE IInv'
  <2> DEFINE e == [id |-> next_id, at |-> now + ttl]
  <2>1. e \in Entry /\ e.id = next_id /\ e.at = now + ttl /\ e.at \in Nat /\ e.at # Never
    BY DEF Entry, TypeOK
  <2>2. /\ entries' \in [Key -> Entry \cup {NoEntry}]
        /\ expirations' \in SUBSET [when : Nat, id : Nat, key : Key]
        /\ IdsBelow' /\ IndexMatches'
    <3>1. /\ next_id' = next_id + 1
          /\ entries' = [entries EXCEPT ![k] = e]
          /\ expirations' = (expirations \cup (IF e.at = Never THEN {} ELSE {Index(k, e)}))
                              \ Replaced(k)
      BY <1>1, <2>1 DEF Set
    <3> QED BY <2>1, <3>1, SetKeepsIndex
  <2>3. TypeOK'
    BY <1>1, <2>2 DEF Set, TypeOK
  <2>4. NoLostWakeup'
    <3> SUFFICES ASSUME NEW x \in expirations'
                 PROVE  \/ background' = "purge" \/ permit' \/ notifying' > 0
                        \/ background' = "sleep" /\ wake_at' <= x.when
      BY DEF NoLostWakeup
    <3>1. CASE x \in expirations
      BY <1>1, <3>1 DEF Set, NoLostWakeup, TypeOK
    <3>2. CASE x = Index(k, e) /\ MustNotify(e.at)
      BY <1>1, <3>2 DEF Set, TypeOK
    <3>3. CASE x = Index(k, e) /\ ~ MustNotify(e.at)
      <4>1. PICK y \in expirations : ~ (y.when > e.at)
        BY <3>3 DEF MustNotify
      <4>2. \/ background = "purge" \/ permit \/ notifying > 0
            \/ background = "sleep" /\ wake_at <= y.when
        BY DEF NoLostWakeup
      <4>3. y.when \in Nat /\ wake_at \in Nat /\ x.when = e.at
        BY <2>1, <3>3 DEF TypeOK
      <4> QED BY <1>1, <2>1, <3>3, <4>1, <4>2, <4>3 DEF Set, TypeOK
    <3> QED BY <1>1, <3>1, <3>2, <3>3 DEF Set
  <2>5. OnlyTimed'
    <3>1. expirations' \subseteq expirations \cup {Index(k, e)}
      BY <1>1 DEF Set
    <3>2. Index(k, e).key = k /\ k \in Timed
      BY <2>1
    <3> QED BY <3>1, <3>2 DEF OnlyTimed
  <2> QED BY <2>2, <2>3, <2>4, <2>5
<1>2. ASSUME NEW k \in Key, SetUntimed(k) PROVE IInv'
  <2> DEFINE e == [id |-> next_id, at |-> Never]
  <2>1. e \in Entry /\ e.id = next_id /\ e.at = Never
    BY DEF Entry, TypeOK
  <2>2. /\ entries' \in [Key -> Entry \cup {NoEntry}]
        /\ expirations' \in SUBSET [when : Nat, id : Nat, key : Key]
        /\ IdsBelow' /\ IndexMatches'
    <3>1. /\ next_id' = next_id + 1
          /\ entries' = [entries EXCEPT ![k] = e]
          /\ expirations' = (expirations \cup (IF e.at = Never THEN {} ELSE {Index(k, e)}))
                              \ Replaced(k)
      BY <1>2, <2>1 DEF SetUntimed
    <3> QED BY <2>1, <3>1, SetKeepsIndex
  <2>3. TypeOK'
    BY <1>2, <2>2 DEF SetUntimed, TypeOK
  <2>4. NoLostWakeup' /\ OnlyTimed'
    BY <1>2 DEF SetUntimed, NoLostWakeup, OnlyTimed
  <2> QED BY <2>2, <2>3, <2>4
<1>3. ASSUME NEW k \in Key, Remove(k) PROVE IInv'
  <2>1. \A x \in expirations : x.key # k
    BY <1>3 DEF Remove, OnlyTimed
  <2>2. entries'[k] = NoEntry /\ \A j \in Key : j # k => entries'[j] = entries[j]
    BY <1>3 DEF Remove, TypeOK
  <2>3. TypeOK' /\ IdsBelow'
    BY <1>3, <2>2 DEF Remove, TypeOK, IdsBelow
  <2>4. IndexMatches'
    BY <1>3, <2>1, <2>2 DEF Remove, TypeOK, IndexMatches
  <2> QED BY <1>3, <2>3, <2>4 DEF Remove, NoLostWakeup, OnlyTimed
<1>4. CASE Notify
  BY <1>4 DEF Notify, TypeOK, IdsBelow, OnlyTimed, IndexMatches, NoLostWakeup
<1>5. CASE Purge
  <2> DEFINE due  == {x \in expirations : Due(x)}
             left == expirations \ due
  <2>1. /\ entries' = [k \in Key |-> IF \E x \in due : x.key = k THEN NoEntry ELSE entries[k]]
        /\ expirations' = left
        /\ UNCHANGED <<next_id, now, notifying, permit>>
    BY <1>5 DEF Purge
  <2>2. \/ left = {} /\ background' = "wait" /\ UNCHANGED wake_at
        \/ \E x \in Earliest(left) : background' = "sleep" /\ wake_at' = x.when
    BY <1>5 DEF Purge
  <2>3. TypeOK'
    <3>1. background' \in {"sleep", "wait"} /\ wake_at' \in Nat
      BY <2>2 DEF Earliest, TypeOK
    <3> QED BY <2>1, <3>1 DEF TypeOK
  <2>4. IdsBelow' /\ OnlyTimed'
    BY <2>1 DEF IdsBelow, OnlyTimed
  <2>5. IndexMatches'
    <3>1. ASSUME NEW k \in Key, entries'[k] # NoEntry, entries'[k].at # Never
          PROVE  Index(k, entries'[k]) \in expirations'
      <4>1. entries'[k] = entries[k] /\ ~ \E x \in due : x.key = k
        BY <2>1, <3>1
      <4>2. Index(k, entries[k]) \in expirations /\ Index(k, entries[k]).key = k
        BY <3>1, <4>1 DEF IndexMatches, TypeOK
      <4> QED BY <2>1, <4>1, <4>2
    <3>2. ASSUME NEW x \in expirations'
          PROVE  entries'[x.key] # NoEntry /\ Index(x.key, entries'[x.key]) = x
      <4>1. /\ x \in expirations /\ x \notin due /\ x.key \in Key
            /\ entries[x.key] # NoEntry /\ Index(x.key, entries[x.key]) = x
        BY <2>1, <3>2 DEF IndexMatches, TypeOK
      <4>2. ~ \E y \in due : y.key = x.key
        <5>1. ASSUME NEW y \in due, y.key = x.key PROVE FALSE
          BY <4>1, <5>1 DEF IndexMatches
        <5> QED BY <5>1
      <4> QED BY <2>1, <4>1, <4>2
    <3> QED BY <3>1, <3>2 DEF IndexMatches
  <2>6. NoLostWakeup'
    BY <2>1, <2>2 DEF Earliest, NoLostWakeup, TypeOK
  <2> QED BY <2>3, <2>4, <2>5, <2>6
<1>6. CASE WakeByNotify \/ WakeByTimer
  <2>1. /\ background' = "purge" /\ permit' \in BOOLEAN
        /\ UNCHANGED <<entries, expirations, next_id, now, wake_at, notifying>>
    BY <1>6 DEF WakeByNotify, WakeByTimer, TypeOK
  <2>2. TypeOK'
    BY <2>1 DEF TypeOK
  <2>3. IdsBelow' /\ OnlyTimed' /\ IndexMatches' /\ NoLostWakeup'
    BY <2>1 DEF IdsBelow, OnlyTimed, IndexMatches, NoLostWakeup
  <2> QED BY <2>2, <2>3
<1>7. CASE Tick
  BY <1>7 DEF Tick, TypeOK, IdsBelow, OnlyTimed, IndexMatches, NoLostWakeup
<1>8. CASE UNCHANGED vars
  BY <1>8 DEF vars, TypeOK, IdsBelow, OnlyTimed, IndexMatches, NoLostWakeup
<1> QED BY <1>1, <1>2, <1>3, <1>4, <1>5, <1>6, <1>7, <1>8 DEF Next

\* The map is always in order.
THEOREM Invariance == Spec => []IInv
BY InvInit, InvStep, PTL DEF Spec

\* The index always holds exactly the expirations of the entries in the map.
THEOREM IndexAlwaysMatches == Spec => []IndexMatches
BY Invariance, PTL DEF IInv

\* The background task never sleeps through an expiration, whenever sets slip in.
THEOREM NoneSleptThrough == Spec => []NoLostWakeup
BY Invariance, PTL DEF IInv

-----------------------------------------------------------------------------
\* Setting an entry sets the deadline of its key.
LEMMA SetMapped ==
    ASSUME TypeOK, NEW k \in Key, NEW e \in Entry, entries' = [entries EXCEPT ![k] = e]
    PROVE  [j \in Key |-> IF entries'[j] = NoEntry THEN NoEntry ELSE entries'[j].at]
             = [[j \in Key |-> IF entries[j] = NoEntry THEN NoEntry ELSE entries[j].at]
                   EXCEPT ![k] = e.at]
<1>1. entries'[k] = e /\ e # NoEntry /\ \A j \in Key : j # k => entries'[j] = entries[j]
  BY Fields DEF TypeOK
<1> DEFINE D(j)  == IF entries[j] = NoEntry THEN NoEntry ELSE entries[j].at
           DD(j) == IF entries'[j] = NoEntry THEN NoEntry ELSE entries'[j].at
<1>2. DD(k) = e.at /\ \A j \in Key : j # k => DD(j) = D(j)
  BY <1>1
<1> HIDE DEF D, DD
<1>3. [j \in Key |-> DD(j)] = [[j \in Key |-> D(j)] EXCEPT ![k] = e.at]
  BY <1>2
<1> QED BY <1>3 DEF D, DD

\* Every step of the map is one of the map with deadlines, or changes nothing there.
LEMMA StepRefines == IInv /\ [Next]_vars => [Map!Next]_(Map!mapVars)
<1> DEFINE dl == [k \in Key |-> IF entries[k] = NoEntry THEN NoEntry ELSE entries[k].at]
<1> SUFFICES ASSUME IInv, [Next]_vars PROVE Map!Next \/ UNCHANGED <<dl, now>>
  BY DEF Map!mapVars
<1> USE Fields DEF IInv
<1>0. \A k \in Key : entries[k] \in Entry \cup {NoEntry} /\ now \in Nat
  BY DEF TypeOK
<1>1. ASSUME NEW k \in Timed, NEW ttl \in Ttl, Set(k, ttl) PROVE Map!Next
  <2> DEFINE e == [id |-> next_id, at |-> now + ttl]
  <2>1. entries' = [entries EXCEPT ![k] = e] /\ UNCHANGED now
    BY <1>1 DEF Set
  <2>2. e \in Entry /\ e.at \in {now + t : t \in Ttl} \cup {Never}
    BY DEF Entry, TypeOK
  <2> HIDE DEF e
  <2>3. dl' = [dl EXCEPT ![k] = e.at]
    BY <2>1, <2>2, SetMapped
  <2>4. dl'[k] = e.at
    BY <2>3
  <2>5. Map!Set(k, dl'[k])
    BY <2>1, <2>2, <2>3, <2>4 DEF Map!Set
  <2> QED BY <2>5 DEF Map!Next
<1>2. ASSUME NEW k \in Key, SetUntimed(k) PROVE Map!Next
  <2> DEFINE e == [id |-> next_id, at |-> Never]
  <2>1. entries' = [entries EXCEPT ![k] = e] /\ UNCHANGED now
    BY <1>2 DEF SetUntimed
  <2>2. e \in Entry /\ e.at \in {now + t : t \in Ttl} \cup {Never}
    BY DEF Entry, TypeOK
  <2> HIDE DEF e
  <2>3. dl' = [dl EXCEPT ![k] = e.at]
    BY <2>1, <2>2, SetMapped
  <2>4. dl'[k] = e.at
    BY <2>3
  <2>5. Map!Set(k, dl'[k])
    BY <2>1, <2>2, <2>3, <2>4 DEF Map!Set
  <2> QED BY <2>5 DEF Map!Next
<1>3. ASSUME NEW k \in Key, Remove(k) PROVE Map!Next
  <2>1. dl' = [dl EXCEPT ![k] = NoEntry] /\ UNCHANGED now
    BY <1>0, <1>3 DEF Remove, TypeOK
  <2>2. dl[k] \in {Never, NoEntry}
    BY <1>0, <1>3 DEF Remove, OnlyTimed, IndexMatches
  <2>3. Map!Remove(k)
    BY <2>1, <2>2 DEF Map!Remove
  <2> QED BY <2>3 DEF Map!Next
<1>4. CASE Purge
  <2>1. /\ entries' = [k \in Key |-> IF \E x \in expirations : Due(x) /\ x.key = k
                                     THEN NoEntry ELSE entries[k]]
        /\ UNCHANGED now
    BY <1>4 DEF Purge
  <2>2. \A k \in Key : dl'[k] = dl[k] \/ dl'[k] = NoEntry
    BY <2>1
  <2>3. ASSUME NEW k \in Key, dl'[k] # dl[k] PROVE Map!Overdue(k)
    <3>1. PICK x \in expirations : Due(x) /\ x.key = k
      BY <2>1, <2>3
    <3>2. entries[k] # NoEntry /\ Index(k, entries[k]) = x /\ x.when \in Nat
      BY <3>1 DEF IndexMatches, TypeOK
    <3>3. entries[k].at = x.when
      BY <1>0, <3>2
    <3> QED BY <3>1, <3>2, <3>3 DEF Map!Overdue, Due
  <2>4. Map!Expire
    BY <2>1, <2>2, <2>3 DEF Map!Expire
  <2> QED BY <2>4 DEF Map!Next
<1>5. CASE Tick
  BY <1>5 DEF Tick, Map!Next, Map!Tick
<1>6. CASE Notify \/ WakeByNotify \/ WakeByTimer
  BY <1>6 DEF Notify, WakeByNotify, WakeByTimer
<1>7. CASE UNCHANGED vars
  BY <1>7 DEF vars
<1> QED BY <1>1, <1>2, <1>3, <1>4, <1>5, <1>6, <1>7 DEF Next

\* The map only ever loses an entry that is removed, replaced, or past its own time.
THEOREM Refinement == Spec => ImplementsExpiringMap
<1>1. Init => Map!Init
  BY DEF Init, Map!Init
<1> QED BY <1>1, StepRefines, Invariance, PTL DEF Spec, ImplementsExpiringMap, Map!Spec
=============================================================================
