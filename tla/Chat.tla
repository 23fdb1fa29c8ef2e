-------------------------------- MODULE Chat ---------------------------------
(***************************************************************************)
(* What the network promises its users, with no links, queues or caches:   *)
(* commands get made, each under a number of its maker's own, a pong only  *)
(* in answer to a ping; and a user may be shown a command made by someone  *)
(* else and, when it is directed, addressed to that user.  It promises     *)
(* neither order nor that a command is shown only once: two paths of a     *)
(* flood may race to one peer.                                             *)
(*                                                                         *)
(* The steps constrain a given pair of states (the set of numbers has no   *)
(* end), so this module is used as what other modules implement.           *)
(***************************************************************************)
EXTENDS Integers, Sequences

CONSTANTS Peer, Command, Directed

VARIABLES
    made,     \* every command made so far
    shown     \* [Peer -> Seq(Command)]: what each user has been shown

chatVars == <<made, shown>>

Init == made = {} /\ shown = [p \in Peer |-> <<>>]

Fresh(f) == \A g \in made : ~ (g.source = f.source /\ g.seq = f.seq)

Answers(f, g) == /\ g.kind = "ping"
                 /\ g.source = f.dest /\ g.dest = f.source /\ g.body = f.body

Make(f) ==
    /\ f \in Command
    /\ Fresh(f)
    /\ f.kind = "pong" => \E g \in made : Answers(f, g)
    /\ made' = made \cup {f}
    /\ UNCHANGED shown

Show(q, f) ==
    /\ f \in made
    /\ f.source # q
    /\ f.kind \in Directed => f.dest = q
    /\ shown' = [shown EXCEPT ![q] = Append(@, f)]
    /\ UNCHANGED made

Next == \/ \E f \in made' : Make(f)
        \/ \E q \in Peer : \E f \in made : Show(q, f)

Spec == Init /\ [][Next]_chatVars
=============================================================================
