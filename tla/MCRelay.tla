------------------------------- MODULE MCRelay -------------------------------
(* Small networks and small sets of requests for the runs of Relay.         *)
EXTENDS Relay

CONSTANTS a, b, c, d,      \* peers
          m, n1, n2        \* a body and two ping times

\* Networks.  Every peer of the mesh dials both others; on the line what a sends could
\* go to and fro between b and c for ever.
Mesh  == {l \in {a, b, c} \X {a, b, c} : l[1] # l[2]}
Line  == {<<a, b>>, <<b, a>>, <<b, c>>, <<c, b>>}

Ask(kind, s, t, e, x) == [kind |-> kind, source |-> s, dest |-> t, ext |-> e, body |-> x]
Say(s)          == Ask("say", s, NoPeer, 0, m)
Data(s)         == Ask("broadcast", s, NoPeer, 0, m)
Deliver(s, t)   == Ask("deliver", s, t, 0, m)
Whisper(s, t)   == Ask("whisper", s, t, 0, m)
Ping(s, t, x)   == Ask("ping", s, t, 0, x)
Extension(s, e) == Ask("extension", s, NoPeer, e, m)

Extensions == {Extension(a, e) : e \in 1..7}

AskMixed   == {Say(a), Ping(a, b, n1), Ping(c, b, n2), Deliver(b, c), Whisper(b, c)}
\* d is on no link of the line.
AskLine    == {Say(a), Data(c), Deliver(a, c), Deliver(a, d), Ping(a, c, n1),
               Ping(c, a, n2), Whisper(b, a)}
AskMesh    == AskMixed \cup Extensions

\* The line is one of the networks on which a sender's messages stay in order.
ASSUME LineIsOnePath == Link = Line => OnePath

NoMatches  == {}
AllMatches == {2, 5, 6} \X {m}
=============================================================================
