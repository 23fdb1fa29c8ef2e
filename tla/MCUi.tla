--------------------------------- MODULE MCUi ---------------------------------
(* What users type, and what frames hold, for the runs of Ui.               *)
EXTENDS Ui

-----------------------------------------------------------------------------
(* Frames.  A text is a sequence of words; these are enough for the names to *)
(* differ from each other and from what is no name.                         *)

Texts    == {<<k>> : k \in CommandName \cup {"b", "SAY"}}
SpeltOut == [k \in CommandName |-> <<k>>]
Named    == [t \in Texts |-> CASE t[1] \in CommandName -> t[1]
                               [] t[1] = "SAY"         -> "say"
                               [] OTHER                -> "none"]

NeighbourLists == {<<>>, <<<<"b">>>>}
Peers == {[name |-> <<"b">>, ip |-> <<"say">>, port |-> <<"SAY">>],
          [name |-> <<"SAY">>, ip |-> <<"b">>, port |-> <<"say">>]}
Answers  == UNION {[1..n -> Peers] : n \in 0..2}
Payloads == {Text(<<"b">>), Number(1), Array(<<Text(<<"b">>)>>)}

\* Parts of any kind in any order, after a name or something else.
Leaf == {Text(<<"b">>), Number(1), Bulk("bytes"), Array(<<Text(<<"b">>), Number(1)>>)}
Rows == {<<>>, <<Number(1)>>}
          \cup {<<Text(t)>> \o p : t \in Texts, p \in UNION {[1..n -> Leaf] : n \in 0..5}}

\* Evaluated on the sets above; for all others it is proved (FramesProofs).
ASSUME ReadAsWritten == RoundTrip /\ PassedOnWhole /\ ReplyRead

-----------------------------------------------------------------------------
(* Users.                                                                   *)

Words    == {" ", "/say", "/whisper", "/ping", "/extension", "/deliver", "/broadcast",
             "/quit", "b", "hi", "7", "e", "q", "h", "l"}
Numerals == [w \in {"7"} |-> 7]

\* To type a line in the fancy front end, and to leave it.
Line(ws) == <<"e">> \o ws \o <<"Enter", "Esc">>
Fancy(ks) == <<"fancy", ks \o <<"q">>>>
Simple(ls) == <<"simple", ls>>

Whisper2  == <<"/whisper", " ", "b", " ", "hi", " ", "b">>
Ping1     == <<"/ping", " ", "b">>
Deliver1  == <<"/deliver", " ", "b", " ", "hi">>
Extend1   == <<"/extension", " ", "7", " ", "b">>
\* Lines that lack something.
Whisper0  == <<"/whisper", " ", "b">>
Extend0   == <<"/extension", " ", "hi", " ", "b">>
\* What the fancy front end takes for something to say.
Broadcast1 == <<"/broadcast", " ", "hi">>

UsersDo ==
    {Fancy(Line(Whisper2)), Fancy(Line(Broadcast1)),
     Fancy(Line(<<"hi", "b", "Backspace">>) \o <<"l", "h">>),
     Fancy(<<"e">> \o Ping1 \o <<"Enter">> \o Deliver1 \o <<"Enter", "Esc">>),
     Fancy(Line(Extend1)), Fancy(Line(Extend0)),
     Simple(<<<<"/say", " ", "hi">>, Whisper2, Ping1, <<"/quit">>>>),
     Simple(<<Extend1, Deliver1, <<"/extension", " ", "b">>>>),
     Simple(<<<<"hi", " ", "b">>, Broadcast1, Whisper0, <<"hi">>>>)}

\* A user of each front end who broadcasts.
UsersBroadcast == {Fancy(Line(Broadcast1)), Simple(<<Broadcast1, <<"/quit">>>>)}
=============================================================================
