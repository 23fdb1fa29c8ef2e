------------------------------ MODULE MCTracker ------------------------------
(* Who is started, with which names and addresses, for the runs of Tracker. *)
EXTENDS Tracker, TLC

CONSTANTS p1, p2, p3, p4,  \* runs of the program
          ann, bob,        \* names
          A, B, C          \* addresses

\* One peer with a name that nobody else wants, and three runs that want the same name,
\* two of them at one address.
Names == (p1 :> ann) @@ (p2 :> bob) @@ (p3 :> bob) @@ (p4 :> bob)
Addrs == (p1 :> A) @@ (p2 :> B) @@ (p3 :> C) @@ (p4 :> B)
OneName  == (p1 :> ann) @@ (p2 :> ann)
TwoAddrs == (p1 :> A) @@ (p2 :> B)
=============================================================================
