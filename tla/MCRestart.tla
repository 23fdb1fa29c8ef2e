------------------------------- MODULE MCRestart -------------------------------
(* A line of three peers, any of which may be started again.                 *)
EXTENDS Restart

CONSTANTS a, b, c, m, n1

Line == {<<a, b>>, <<b, a>>, <<b, c>>, <<c, b>>}

Says(s, x)    == [kind |-> "say", source |-> s, dest |-> NoPeer, ext |-> 0, body |-> x]
Pings(s, t, x) == [kind |-> "ping", source |-> s, dest |-> t, ext |-> 0, body |-> x]
Asked == {Says(a, m), Says(a, n1), Pings(c, a, n1)}
NoMatches == {}
=============================================================================
