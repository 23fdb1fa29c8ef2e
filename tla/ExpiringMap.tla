----------------------------- MODULE ExpiringMap -----------------------------
(***************************************************************************)
(* What TtlMap promises: a map whose entries may have a deadline.  An      *)
(* entry goes away when it is removed or replaced, or at some point after  *)
(* its own deadline, never before, whatever deadlines the key had earlier. *)
(***************************************************************************)
EXTENDS Integers

CONSTANTS
    Key,
    Ttl,       \* the durations entries are set with
    Never,     \* the deadline of an entry set without a duration
    Absent     \* the key has no entry

VARIABLES
    deadline,  \* [Key -> Nat \cup {Never, Absent}]
    now        \* the clock

mapVars == <<deadline, now>>

Init == deadline = [k \in Key |-> Absent] /\ now = 0

Set(k, at) ==
    /\ at \in {now + t : t \in Ttl} \cup {Never}
    /\ deadline' = [deadline EXCEPT ![k] = at]
    /\ UNCHANGED now

Remove(k) ==
    /\ deadline[k] \in {Never, Absent}
    /\ deadline' = [deadline EXCEPT ![k] = Absent]
    /\ UNCHANGED now

Overdue(k) == deadline[k] \notin {Never, Absent} /\ deadline[k] <= now

Expire ==
    /\ \A k \in Key : deadline'[k] # deadline[k] => Overdue(k)
    /\ deadline' = [k \in Key |-> IF deadline'[k] = deadline[k] THEN deadline[k] ELSE Absent]
    /\ UNCHANGED now

Tick == now' = now + 1 /\ UNCHANGED deadline

Next == \/ \E k \in Key : Set(k, deadline'[k]) \/ Remove(k)
        \/ Expire
        \/ Tick

Spec == Init /\ [][Next]_mapVars
=============================================================================
