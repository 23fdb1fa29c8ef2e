------------------------------- MODULE TtlMap --------------------------------
(***************************************************************************)
(* The TtlMap of util/ttl_map.rs: a HashMap whose entries expire.  State   *)
(* behind one lock: the entries, and an index of expirations ordered by    *)
(* time.  A background task purges what is due, sleeps until the next      *)
(* expiration or waits to be notified; a set that comes first in the index *)
(* notifies it, after it has let go of the lock.                           *)
(*                                                                         *)
(* get and random_keys_vals only read and are left out.  What an entry     *)
(* holds is left out too.                                                  *)
(***************************************************************************)
EXTENDS Integers, FiniteSets

CONSTANTS
    Key,
    Ttl,        \* durations a caller may set an entry with, in ticks
    Never,      \* expires_at of an entry set without one
    NoEntry,    \* the key is not in the map
    Timed,      \* the keys that are ever set with an expiration
    MaxSets,    \* bound: calls of set in a behaviour
    MaxTime     \* bound: ticks of the clock

Entry == [id : Nat, at : Nat \cup {Never}]

ASSUME ValueAssumption ==
    /\ Ttl \subseteq Nat \ {0}
    /\ Never \notin Nat
    /\ NoEntry \notin Entry /\ NoEntry \notin Nat \cup {Never}
    /\ Timed \subseteq Key
    /\ MaxSets \in Nat /\ MaxTime \in Nat

VARIABLES
    entries,       \* [Key -> Entry \cup {NoEntry}]
    expirations,   \* set of [when, id, key]: the index
    next_id,
    now,           \* the clock: Instant::now()
    background,    \* what purge_expired_tasks does: "purge", "sleep", "wait"
    wake_at,       \* the instant it sleeps until
    notifying,     \* set calls that let go of the lock and have yet to notify
    permit         \* background_task holds a notification nobody has consumed

vars == <<entries, expirations, next_id, now, background, wake_at, notifying, permit>>

Init ==
    /\ entries = [k \in Key |-> NoEntry]
    /\ expirations = {}
    /\ next_id = 0
    /\ now = 0
    /\ background = "purge"
    /\ wake_at = 0
    /\ notifying = 0
    /\ permit = FALSE

-----------------------------------------------------------------------------
Index(k, e) == [when |-> e.at, id |-> e.id, key |-> k]

\* Nothing in the index comes before, or at, this time: the background task does not
\* know yet that it must wake up then.  (Mutant: only the first expiration notifies.)
NotifyIfFirst(when) == expirations = {}
MustNotify(when) == \A x \in expirations : x.when > when

\* The index entry that a set replaces.  (Mutant: it is left where it is.)
KeepReplaced(k) == {}
Replaced(k) == IF entries[k] # NoEntry /\ entries[k].at # Never
               THEN {Index(k, entries[k])} ELSE {}

\* set with an expiration, up to where it lets go of the lock.
Set(k, ttl) ==
    LET e == [id |-> next_id, at |-> now + ttl]
    IN  /\ next_id < MaxSets
        /\ next_id' = next_id + 1
        /\ entries' = [entries EXCEPT ![k] = e]
        /\ expirations' = (expirations \cup {Index(k, e)}) \ Replaced(k)
        /\ notifying' = IF MustNotify(e.at) THEN notifying + 1 ELSE notifying
        /\ UNCHANGED <<now, background, wake_at, permit>>

\* set without one.
SetUntimed(k) ==
    /\ next_id < MaxSets
    /\ next_id' = next_id + 1
    /\ entries' = [entries EXCEPT ![k] = [id |-> next_id, at |-> Never]]
    /\ expirations' = expirations \ Replaced(k)
    /\ UNCHANGED <<now, background, wake_at, notifying, permit>>

\* The rest of set: notify_one wakes the task, or leaves a permit if it is busy.
Notify ==
    /\ notifying > 0
    /\ notifying' = notifying - 1
    /\ permit' = TRUE
    /\ UNCHANGED <<entries, expirations, next_id, now, background, wake_at>>

\* remove leaves the index alone: its callers, the tracker's tasks, only remove keys
\* that are never set with an expiration.
Remove(k) ==
    /\ k \notin Timed
    /\ entries' = [entries EXCEPT ![k] = NoEntry]
    /\ UNCHANGED <<expirations, next_id, now, background, wake_at, notifying, permit>>

-----------------------------------------------------------------------------
(* purge_expired_tasks                                                      *)

\* (Mutant: an expiration is due one tick early.)
AlmostDue(x) == x.when <= now + 1
Due(x) == x.when <= now

Earliest(S) == {x \in S : \A y \in S : x.when <= y.when}

\* purge_expired_keys, under the lock: the due expirations go, each with the entry of
\* its key; what is left tells how long to sleep.
Purge ==
    LET due  == {x \in expirations : Due(x)}
        left == expirations \ due
    IN  /\ background = "purge"
        /\ entries' = [k \in Key |-> IF \E x \in due : x.key = k THEN NoEntry ELSE entries[k]]
        /\ expirations' = left
        /\ \/ /\ left = {}
              /\ background' = "wait"
              /\ UNCHANGED wake_at
           \/ \E x \in Earliest(left) :
                 background' = "sleep" /\ wake_at' = x.when
        /\ UNCHANGED <<next_id, now, notifying, permit>>

WakeByNotify ==
    /\ background \in {"sleep", "wait"}
    /\ permit
    /\ permit' = FALSE
    /\ background' = "purge"
    /\ UNCHANGED <<entries, expirations, next_id, now, wake_at, notifying>>

WakeByTimer ==
    /\ background = "sleep"
    /\ now >= wake_at
    /\ background' = "purge"
    /\ UNCHANGED <<entries, expirations, next_id, now, wake_at, notifying, permit>>

Tick ==
    /\ now < MaxTime
    /\ now' = now + 1
    /\ UNCHANGED <<entries, expirations, next_id, background, wake_at, notifying, permit>>

-----------------------------------------------------------------------------
Next ==
    \/ \E k \in Timed : \E ttl \in Ttl : Set(k, ttl)
    \/ \E k \in Key : SetUntimed(k) \/ Remove(k)
    \/ Notify \/ Purge \/ WakeByNotify \/ WakeByTimer \/ Tick

Spec == Init /\ [][Next]_vars

\* A set that has begun is finished, and the runtime runs the background task and its
\* timer; nobody must set anything, and time need not pass.
Fairness == WF_vars(Notify) /\ WF_vars(Purge) /\ WF_vars(WakeByNotify \/ WakeByTimer)

FairSpec == Spec /\ Fairness

-----------------------------------------------------------------------------
(* What must hold.                                                         *)

\* Every variable holds a value of its type.
TypeOK ==
    /\ entries \in [Key -> Entry \cup {NoEntry}]
    /\ expirations \in SUBSET [when : Nat, id : Nat, key : Key]
    /\ next_id \in Nat
    /\ now \in Nat
    /\ background \in {"purge", "sleep", "wait"}
    /\ wake_at \in Nat
    /\ notifying \in Nat
    /\ permit \in BOOLEAN

\* The index holds exactly the expirations of the entries in the map: none is left of
\* a replaced entry, whose purge would take the new entry with it, none is missing.
IndexMatches ==
    /\ \A k \in Key : entries[k] # NoEntry /\ entries[k].at # Never
                        => Index(k, entries[k]) \in expirations
    /\ \A x \in expirations : entries[x.key] # NoEntry /\ Index(x.key, entries[x.key]) = x

\* No expiration is slept through: while there is one, the task is about to look, will
\* be notified, or wakes up no later than it.
NoLostWakeup ==
    \A x \in expirations :
        \/ background = "purge" \/ permit \/ notifying > 0
        \/ background = "sleep" /\ wake_at <= x.when

\* Why it holds: with these, the above is preserved by every step.
IdsBelow ==
    /\ \A k \in Key : entries[k] # NoEntry => entries[k].id < next_id
    /\ \A x \in expirations : x.id < next_id
OnlyTimed == \A x \in expirations : x.key \in Timed
IInv == TypeOK /\ IdsBelow /\ OnlyTimed /\ IndexMatches /\ NoLostWakeup

\* An entry past its time is eventually removed, or replaced by one that is not.
Overdue(k) == entries[k] # NoEntry /\ entries[k].at # Never /\ entries[k].at <= now
ExpiredGo == \A k \in Key : Overdue(k) ~> ~ Overdue(k)

\* TtlMap implements the map with deadlines: no entry goes before its own time.
Map == INSTANCE ExpiringMap WITH
           Absent <- NoEntry,
           deadline <- [k \in Key |-> IF entries[k] = NoEntry THEN NoEntry ELSE entries[k].at]
ImplementsExpiringMap == Map!Spec
=============================================================================
