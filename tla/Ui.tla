---------------------------------- MODULE Ui ----------------------------------
(***************************************************************************)
(* One run of the chat program: a front end, fancy_tui.rs or simple_tui.rs, *)
(* with its tasks and threads, the client, and the server as far as it      *)
(* answers the client.                                                      *)
(*                                                                         *)
(* A key goes from the reader thread to the task that handles keys, a line  *)
(* from there to the task that calls the client, from the client to the     *)
(* server's client_message_handler, which numbers it and writes it as a     *)
(* frame (Frames).  What happens to that frame is Relay.  What comes in from *)
(* other peers goes to a list of messages that another thread draws.        *)
(*                                                                         *)
(* A text is a sequence of words; a space is a word of its own, and a word  *)
(* is typed with one key.                                                   *)
(***************************************************************************)
EXTENDS Frames, SequencesExt

CONSTANTS
    Script,        \* front end and what its user types, as pairs <<front, keys>>
    Word,          \* the words, and the keys that type them
    Numeral,       \* the words that are numbers, with their values
    Me,            \* the name of this peer
    Now,           \* what the clock says when the user pings
    Lines,         \* messages there is room for on the screen
    MaxArrivals,   \* bound: messages from other peers
    MaxOther       \* bound: numbers drawn by other tasks of the server

\* Keys that type no word.
ControlKey == {"Enter", "Backspace", "Esc"}

ASSUME ScriptAssumption ==
    /\ \A s \in Script : \/ s[1] = "fancy" /\ s[2] \in Seq(Word \cup ControlKey)
                         \/ s[1] = "simple" /\ s[2] \in Seq(Seq(Word))
    /\ ControlKey \cap Word = {}

ASSUME NumeralAssumption ==
    DOMAIN Numeral \subseteq Word /\ \A w \in DOMAIN Numeral : Numeral[w] \in Nat

ASSUME UiBoundAssumption == Lines \in Nat /\ MaxArrivals \in Nat /\ MaxOther \in Nat

VARIABLES
    front,             \* which front end runs: "fancy" or "simple"
    typed,             \* what the user is still to type
    events,            \* the reader's channel to the key task; lines on stdin
    keys,              \* the key task: "reading", "quitting", "ended" or "panicked"
    input_mode,        \* of App, as are the next four
    active_menu_item,
    input_string,
    messages,
    shut_down,
    drawer,            \* where the draw loop is, and how many messages it will drop
    screen,            \* the messages drawn last
    ui_client,         \* the channel from the key task to the forwarding task
    forward,           \* the forwarding task: "running" or "panicked"
    to_server,         \* the channel from the client to the server
    server,            \* Server::start: "starting", "up" or "failed"
    sequence_number,   \* the number the server's generator gives next
    sent,              \* the frames the handler has passed to its peers (history)
    entered,           \* the lines the user has entered (history)
    added,             \* every message ever added to the list (history)
    arrivals, others   \* used up of MaxArrivals and MaxOther

input   == <<typed, events>>
app     == <<input_mode, active_menu_item, input_string, shut_down>>
list    == <<messages, added>>
drawing == <<drawer, screen>>
network == <<server, sequence_number, sent>>
bounds  == <<arrivals, others>>

vars == <<front, input, keys, app, list, drawing, ui_client, forward, to_server,
          network, entered, bounds>>

Init ==
    /\ \E s \in Script : front = s[1] /\ typed = s[2]
    /\ events = <<>>
    /\ keys = "reading"
    /\ input_mode = "Normal" /\ active_menu_item = "Home" /\ input_string = <<>>
    /\ messages = <<>> /\ added = <<>>
    /\ shut_down = FALSE
    /\ drawer = [pc |-> "check", n |-> 0] /\ screen = <<>>
    /\ ui_client = <<>> /\ forward = "running" /\ to_server = <<>>
    /\ server = "starting" /\ sequence_number = 0 /\ sent = <<>>
    /\ entered = <<>>
    /\ arrivals = 0 /\ others = 0

\* The process has ended: main returns when the draw loop has, or when the task that
\* reads stdin has ended or panicked.
Exited == \/ front = "fancy" /\ drawer.pc = "exited"
          \/ front = "simple" /\ keys \in {"ended", "panicked"}

-----------------------------------------------------------------------------
(* Reading a line.                                                         *)

Space == " "

ASSUME SpaceAssumption == Space \notin DOMAIN Numeral

\* starts_with and strip_prefix of a command word and a space.
Prefixed(line, w) == Len(line) >= 2 /\ line[1] = w /\ line[2] = Space
After(line) == SubSeq(line, 3, Len(line))

\* split_once(' ').  (Mutant: split at the last space.)
Spaces(t) == {i \in 1..Len(t) : t[i] = Space}
LastSpace(t)  == CHOOSE i \in Spaces(t) : \A j \in Spaces(t) : j <= i
FirstSpace(t) == CHOOSE i \in Spaces(t) : \A j \in Spaces(t) : i <= j
Before(t) == SubSeq(t, 1, FirstSpace(t) - 1)
Behind(t) == SubSeq(t, FirstSpace(t) + 1, Len(t))

\* The texts that parse as a u64.
IsNumber(t) == Len(t) = 1 /\ t[1] \in DOMAIN Numeral

as_bytes(t) == <<"bytes", t>>

\* The unwraps of split_once and parse: the lines at which the task panics.
Unsplit(line, w) == Prefixed(line, w) /\ Spaces(After(line)) = {}

FancyPanics(line) ==
    \/ Unsplit(line, "/whisper") \/ Unsplit(line, "/extension") \/ Unsplit(line, "/deliver")
    \/ /\ Prefixed(line, "/extension") /\ Spaces(After(line)) # {}
       /\ ~ IsNumber(Before(After(line)))

SimplePanics(line) == Unsplit(line, "/whisper") \/ Unsplit(line, "/deliver")

\* The UiClientMessage for a line at which the task does not panic.
FancyMessage(line) ==
    LET t == After(line)
    IN  CASE Prefixed(line, "/whisper") ->
               [kind |-> "whisper", dest |-> Before(t), message |-> Behind(t)]
          [] Prefixed(line, "/ping") ->
               [kind |-> "ping", dest |-> t, sent_at |-> Now]
          [] Prefixed(line, "/extension") ->
               [kind |-> "extension", ext |-> Numeral[Before(t)[1]], payload |-> Behind(t)]
          [] Prefixed(line, "/deliver") ->
               [kind |-> "deliver", dest |-> Before(t), data |-> as_bytes(Behind(t))]
          [] OTHER -> [kind |-> "say", message |-> line]

\* An extension without a number, or without a payload, is taken as one.
SimpleExtension(t) ==
    [kind |-> "extension",
     ext |-> IF Spaces(t) # {} /\ IsNumber(Before(t)) THEN Numeral[Before(t)[1]] ELSE 0,
     payload |-> IF Spaces(t) # {} THEN Behind(t) ELSE <<>>]

SimpleMessage(line) ==
    LET t == After(line)
    IN  CASE Prefixed(line, "/say") -> [kind |-> "say", message |-> t]
          [] Prefixed(line, "/whisper") ->
               [kind |-> "whisper", dest |-> Before(t), message |-> Behind(t)]
          [] Prefixed(line, "/ping") ->
               [kind |-> "ping", dest |-> t, sent_at |-> Now]
          [] Prefixed(line, "/extension") -> SimpleExtension(t)
          [] Prefixed(line, "/deliver") ->
               [kind |-> "deliver", dest |-> Before(t), data |-> as_bytes(Behind(t))]
          [] Prefixed(line, "/broadcast") -> [kind |-> "broadcast", data |-> as_bytes(t)]
          [] OTHER -> [kind |-> "say", message |-> line]

-----------------------------------------------------------------------------
(* The front ends.                                                         *)

\* The user types: the reader thread passes the key on while there is a task to take it.
Press ==
    /\ ~ Exited /\ typed # <<>>
    /\ typed' = Tail(typed)
    /\ events' = IF keys \in {"reading", "quitting"} THEN Append(events, Head(typed))
                 ELSE events
    /\ UNCHANGED <<front, keys, app, list, drawing, ui_client, forward, to_server, network,
                   entered, bounds>>

\* The key task of front end f has a key, or a line, to take.
Waiting(f) == ~ Exited /\ front = f /\ keys = "reading" /\ events # <<>>

\* The task ends, and with it the receiver of its channel.
EndKeys(how) == keys' = how /\ events' = <<>>

\* ui_client_tx.send(m).unwrap() panics when the forwarding task is gone.
Send(m) ==
    \/ /\ forward = "running"
       /\ ui_client' = Append(ui_client, m)
       /\ events' = Tail(events)
       /\ UNCHANGED keys
    \/ /\ forward = "panicked"
       /\ EndKeys("panicked")
       /\ UNCHANGED ui_client

Add(m) == messages' = Append(messages, m) /\ added' = Append(added, m)

\* A key that only touches App.
Handled ==
    /\ Waiting("fancy")
    /\ events' = Tail(events)
    /\ UNCHANGED <<front, typed, keys, shut_down, list, drawing, ui_client, forward,
                   to_server, network, entered, bounds>>

Edit ==
    LET k == Head(events)
    IN  /\ Handled
        /\ input_mode = "Editing"
        /\ \/ /\ k \in Word
              /\ input_string' = Append(input_string, k)
              /\ UNCHANGED input_mode
           \/ /\ k = "Backspace"
              /\ input_string' = IF input_string = <<>> THEN <<>> ELSE Front(input_string)
              /\ UNCHANGED input_mode
           \/ /\ k = "Esc"
              /\ input_mode' = "Normal"
              /\ UNCHANGED input_string
        /\ UNCHANGED active_menu_item

Browse ==
    LET k == Head(events)
    IN  /\ Handled
        /\ input_mode = "Normal" /\ k # "q"
        /\ input_mode' = IF k = "e" THEN "Editing" ELSE "Normal"
        /\ active_menu_item' = CASE k = "h" -> "Home"
                                 [] k = "l" -> "Logs"
                                 [] OTHER   -> active_menu_item
        /\ UNCHANGED input_string

\* The line is shown, then read, then sent.
Enter ==
    /\ Waiting("fancy") /\ Head(events) = "Enter"
    /\ input_mode = "Editing"
    /\ input_string' = <<>>
    /\ entered' = Append(entered, input_string)
    /\ Add(input_string)
    /\ \/ FancyPanics(input_string) /\ EndKeys("panicked") /\ UNCHANGED ui_client
       \/ ~ FancyPanics(input_string) /\ Send(FancyMessage(input_string))
    /\ UNCHANGED <<front, typed, input_mode, active_menu_item, shut_down, drawing, forward,
                   to_server, network, bounds>>

\* 'q' waits for the terminal, which the draw loop holds while it draws, then tells the
\* loop to stop.  (Mutant: it does not.)
Quit ==
    /\ Waiting("fancy") /\ Head(events) = "q"
    /\ input_mode = "Normal"
    /\ keys' = "quitting"
    /\ events' = Tail(events)
    /\ UNCHANGED <<front, typed, app, list, drawing, ui_client, forward, to_server, network,
                   entered, bounds>>

ShutDownSilently ==
    /\ ~ Exited /\ keys = "quitting"
    /\ drawer.pc \in {"check", "lock"}
    /\ EndKeys("ended")
    /\ UNCHANGED <<front, typed, app, list, drawing, ui_client, forward, to_server, network,
                   entered, bounds>>
ShutDown ==
    /\ ~ Exited /\ keys = "quitting"
    /\ drawer.pc \in {"check", "lock"}
    /\ shut_down' = TRUE
    /\ EndKeys("ended")
    /\ UNCHANGED <<front, typed, input_mode, active_menu_item, input_string, list, drawing,
                   ui_client, forward, to_server, network, entered, bounds>>

\* simple_tui: the task that reads stdin takes a line.
SimpleLine ==
    LET line == Head(events)
    IN  /\ Waiting("simple")
        /\ \/ line = <<"/quit">> /\ EndKeys("ended") /\ UNCHANGED <<ui_client, entered>>
           \/ /\ line # <<"/quit">>
              /\ entered' = Append(entered, line)
              /\ \/ SimplePanics(line) /\ EndKeys("panicked") /\ UNCHANGED ui_client
                 \/ ~ SimplePanics(line) /\ Send(SimpleMessage(line))
        /\ UNCHANGED <<front, typed, app, list, drawing, forward, to_server, network, bounds>>

\* The user closes stdin.
EndOfInput ==
    /\ ~ Exited /\ front = "simple"
    /\ keys = "reading" /\ typed = <<>> /\ events = <<>>
    /\ EndKeys("ended")
    /\ UNCHANGED <<front, typed, app, list, drawing, ui_client, forward, to_server, network,
                   entered, bounds>>

-----------------------------------------------------------------------------
(* Between the front end and the network.                                  *)

\* A record with one more field.
With(r, field, v) == [x \in DOMAIN r \cup {field} |-> IF x = field THEN v ELSE r[x]]

\* The client's method for m: the payload of an extension becomes a frame, and the
\* message names its sender.
Called(m) ==
    With(IF m.kind = "extension" THEN [m EXCEPT !.payload = Text(@)] ELSE m, "source", Me)

\* The task that calls the client; server_tx.send().unwrap() panics when the server is gone.
\* (Mutant: no arm for pings.)
ForwardNoPing ==
    /\ ~ Exited /\ forward = "running" /\ ui_client # <<>> /\ server # "failed"
    /\ to_server' = IF Head(ui_client).kind = "ping" THEN to_server
                    ELSE Append(to_server, Called(Head(ui_client)))
    /\ ui_client' = Tail(ui_client)
    /\ UNCHANGED <<front, input, keys, app, list, drawing, forward, network, entered, bounds>>
Forward ==
    /\ ~ Exited /\ forward = "running" /\ ui_client # <<>>
    /\ \/ /\ server # "failed"
          /\ to_server' = Append(to_server, Called(Head(ui_client)))
          /\ ui_client' = Tail(ui_client)
          /\ UNCHANGED forward
       \/ /\ server = "failed"
          /\ forward' = "panicked"
          /\ ui_client' = <<>>
          /\ UNCHANGED to_server
    /\ UNCHANGED <<front, input, keys, app, list, drawing, network, entered, bounds>>

\* Server::start: registering, whose number is 0, succeeds or not.  If it does not, the
\* server and its end of the channel are dropped.
ServerUp ==
    /\ ~ Exited /\ server = "starting"
    /\ server' = "up"
    /\ sequence_number' = sequence_number + 1
    /\ UNCHANGED <<front, input, keys, app, list, drawing, ui_client, forward, to_server,
                   sent, entered, bounds>>

ServerFails ==
    /\ ~ Exited /\ server = "starting"
    /\ server' = "failed"
    /\ to_server' = <<>>
    /\ UNCHANGED <<front, input, keys, app, list, drawing, ui_client, forward,
                   sequence_number, sent, entered, bounds>>

\* client_message_handler numbers the message and passes it to every peer.
Handle ==
    /\ ~ Exited /\ server = "up" /\ to_server # <<>>
    /\ sent' = Append(sent, into_frame(With(Head(to_server), "seq", sequence_number)))
    /\ sequence_number' = sequence_number + 1
    /\ to_server' = Tail(to_server)
    /\ UNCHANGED <<front, input, keys, app, list, drawing, ui_client, forward, server,
                   entered, bounds>>

\* Announcements, pongs and extensions draw numbers too.
OtherNumber ==
    /\ ~ Exited /\ server = "up" /\ others < MaxOther
    /\ others' = others + 1
    /\ sequence_number' = sequence_number + 1
    /\ UNCHANGED <<front, input, keys, app, list, drawing, ui_client, forward, to_server,
                   server, sent, entered, arrivals>>

\* The display task has a message from next_message.
Arrive ==
    /\ ~ Exited /\ server = "up" /\ arrivals < MaxArrivals
    /\ arrivals' = arrivals + 1
    /\ UNCHANGED <<front, input, keys, app, drawing, ui_client, forward, to_server, network,
                   entered, others>>

\* The fancy front end adds it to the list, the simple one prints it.
ArriveFancy  == front = "fancy" /\ Arrive /\ Add(<<"news", arrivals>>)
ArriveSimple == front = "simple" /\ Arrive /\ UNCHANGED list

-----------------------------------------------------------------------------
(* The draw loop.  It holds the terminal from Lock to Show, and takes the   *)
(* lock of App anew for every question it asks.                             *)

DrawStep(from, to) ==
    /\ front = "fancy" /\ drawer.pc = from
    /\ drawer' = [drawer EXCEPT !.pc = to]
    /\ UNCHANGED <<front, input, keys, app, ui_client, forward, to_server, network, entered,
                   bounds>>

CheckShutDown ==
    /\ DrawStep("check", IF shut_down THEN "exited" ELSE "lock")
    /\ UNCHANGED <<list, screen>>

\* Is there more than fits?  (Mutants: not asked; one more let pass.)
LockUnasked ==
    /\ DrawStep("lock", "count")
    /\ UNCHANGED <<list, screen>>
LockLate ==
    /\ DrawStep("lock", IF Lines + 1 < Len(messages) THEN "count" ELSE "show")
    /\ UNCHANGED <<list, screen>>
Lock ==
    /\ DrawStep("lock", IF Lines < Len(messages) THEN "count" ELSE "show")
    /\ UNCHANGED <<list, screen>>

Count ==
    /\ front = "fancy" /\ drawer.pc = "count"
    /\ drawer' = [pc |-> "drain", n |-> Len(messages) - Lines]
    /\ UNCHANGED <<front, input, keys, app, list, screen, ui_client, forward, to_server,
                   network, entered, bounds>>

\* drain(..n) takes the oldest.  (Mutant: the newest.)
DrainedBack(ms, n) == SubSeq(ms, 1, Len(ms) - n)
Drained(ms, n)     == SubSeq(ms, n + 1, Len(ms))

Drain ==
    /\ DrawStep("drain", "show")
    /\ messages' = Drained(messages, drawer.n)
    /\ UNCHANGED <<added, screen>>

Show ==
    /\ DrawStep("show", "check")
    /\ screen' = IF active_menu_item = "Home" THEN messages ELSE <<>>
    /\ UNCHANGED list

Draw == CheckShutDown \/ Lock \/ Count \/ Drain \/ Show

-----------------------------------------------------------------------------
KeyTask == Edit \/ Browse \/ Enter \/ Quit \/ SimpleLine

Next == \/ Press \/ KeyTask \/ ShutDown \/ EndOfInput
        \/ Forward \/ ServerUp \/ ServerFails \/ Handle \/ OtherNumber
        \/ ArriveFancy \/ ArriveSimple
        \/ Draw

Spec == Init /\ [][Next]_vars

\* The runtime runs every task that can go on.  ShutDown competes for the terminal with a
\* loop that takes it again at once; the mutex promises no order, and what is assumed is
\* that who asks for it again and again while it is free now and then gets it.  Nobody
\* has to type, and the tracker need not answer.
Fairness == /\ WF_vars(KeyTask) /\ SF_vars(ShutDown)
            /\ WF_vars(Forward) /\ WF_vars(Handle) /\ WF_vars(Draw)

FairSpec == Spec /\ Fairness

-----------------------------------------------------------------------------
(* What must hold.                                                         *)

\* Every variable holds a value of its type.
TypeOK ==
    /\ front \in {"fancy", "simple"}
    /\ keys \in {"reading", "quitting", "ended", "panicked"}
    /\ input_mode \in {"Normal", "Editing"} /\ active_menu_item \in {"Home", "Logs"}
    /\ input_string \in Seq(Word)
    /\ shut_down \in BOOLEAN
    /\ drawer \in [pc : {"check", "lock", "count", "drain", "show", "exited"}, n : Nat]
    /\ forward \in {"running", "panicked"} /\ server \in {"starting", "up", "failed"}
    /\ sequence_number \in Nat
    /\ arrivals \in 0..MaxArrivals /\ others \in 0..MaxOther

\* The words that make a line a command, as the repository's README lists them for its users.
Slash == {"/say", "/whisper", "/ping", "/extension", "/deliver", "/broadcast"}

\* An extension with its number and the space behind it.
NumberedExtension(line) == Len(line) >= 4 /\ line[3] \in DOMAIN Numeral /\ line[4] = Space

\* The line is what a user types to have the command c sent, in either front end.  (The
\* simple one takes an extension that lacks its number, or its payload, for one of number 0.)
AsksFor(line, c) ==
    CASE c.kind = "say" ->
           \/ line = c.message /\ \A w \in Slash : ~ Prefixed(line, w)
           \/ line = <<"/say", Space>> \o c.message
      [] c.kind = "ping" ->
           line = <<"/ping", Space>> \o c.dest /\ c.sent_at = Now
      [] c.kind = "whisper" ->
           /\ Space \notin ToSet(c.dest)
           /\ line = <<"/whisper", Space>> \o c.dest \o <<Space>> \o c.message
      [] c.kind = "deliver" ->
           /\ Space \notin ToSet(c.dest)
           /\ line = <<"/deliver", Space>> \o c.dest \o <<Space>> \o c.data[2]
      [] c.kind = "broadcast" ->
           line = <<"/broadcast", Space>> \o c.data[2]
      [] c.kind = "extension" ->
           \/ \E w \in DOMAIN Numeral :
                 /\ Numeral[w] = c.ext
                 /\ line = <<"/extension", Space, w, Space>> \o Content(c.payload)
           \/ c.ext = 0 /\ Prefixed(line, "/extension") /\ ~ NumberedExtension(line)
      [] OTHER -> FALSE

\* Two of the commands the fancy front end does not know: it says the line as it stands.
Misread(line) == front = "fancy" /\ (Prefixed(line, "/say") \/ Prefixed(line, "/broadcast"))

\* What goes out is what was entered, line for line and in that order, each with a number
\* above the one before, however the queues and the three tasks between take turns: a
\* line is lost only from the end.  Only those two commands of the fancy front end go out as
\* what they are not.
SentAsTyped ==
    /\ Len(sent) <= Len(entered)
    /\ \A i \in 1..Len(sent) :
          LET c == from_frame(sent[i])
          IN  /\ Misread(entered[i]) => c.kind = "say" /\ c.message = entered[i]
              /\ ~ Misread(entered[i]) => AsksFor(entered[i], c)
              /\ c.source = Me /\ c.seq < sequence_number
    /\ \A i \in 2..Len(sent) : from_frame(sent[i - 1]).seq < from_frame(sent[i]).seq

\* What the README promises a user of the fancy front end: every command it lists is sent as
\* that command.  The program does not keep it for /say and /broadcast.
SentAsListed == \A i \in 1..Len(sent) : AsksFor(entered[i], from_frame(sent[i]))

\* The list is measured, counted and drained under one lock after another, while messages
\* are added; yet only the oldest ever go, and never one of the newest that fit.
LatestKept ==
    \E n \in 0..Len(added) :
        /\ messages = SubSeq(added, n + 1, Len(added))
        /\ n > 0 => Len(messages) >= Lines

\* The places of lines among those entered: no user of the runs enters more than three.
Place == 1..3

\* A line that was entered while the server runs is sent, unless the program ends first
\* or the line is one the task panics at.
EnteredIsSent ==
    \A i \in Place :
        (Len(entered) >= i /\ server = "up")
          ~> (Len(sent) >= i \/ Exited \/ (keys = "panicked" /\ Len(entered) = i))

\* Once the user has typed all, 'q' last, the program ends, unless the key task has
\* panicked: and it only does at a line it cannot read, or when the server has failed.
QuitsOrPanics ==
    (front = "fancy" /\ typed = <<>>)
      ~> (Exited \/ (keys = "panicked" /\ (FancyPanics(Last(entered)) \/ server = "failed")))

\* The user comes to see the latest messages, as many as there is room for.
Settled == /\ Len(screen) <= Lines
           /\ screen = messages
NewestDrawn == <>[](front = "simple" \/ Exited \/ active_menu_item = "Logs" \/ Settled)

-----------------------------------------------------------------------------
(* Why it holds: the invariant that every step preserves.                  *)

\* A sequence, whatever its items.
IsList(q) == q \in Seq({q[i] : i \in 1..Len(q)})

\* What a user types: keys in the one front end, whole lines in the other.
Input == IF front = "fancy" THEN Word \cup ControlKey ELSE Seq(Word)
InputOK == typed \in Seq(Input) /\ events \in Seq(Input) /\ entered \in Seq(Seq(Word))

\* Between the locks the list only grows, so what was found too much still is.
DrawerOK ==
    /\ IsList(messages) /\ IsList(added)
    /\ drawer.pc = "count" => Lines < Len(messages)
    /\ drawer.pc = "drain" => drawer.n \in 1..(Len(messages) - Lines)

\* What becomes of a line in front end f.
Panics(f, line)  == IF f = "fancy" THEN FancyPanics(line) ELSE SimplePanics(line)
Message(f, line) == IF f = "fancy" THEN FancyMessage(line) ELSE SimpleMessage(line)
Numbered(f, line, n) == With(Called(Message(f, line)), "seq", n)

\* The i-th frame sent is made of the i-th line entered.
SentInOrder ==
    /\ IsList(sent) /\ Len(sent) <= Len(entered)
    /\ \A i \in 1..Len(sent) :
          LET n == from_frame(sent[i]).seq
          IN  /\ n \in Nat /\ n < sequence_number
              /\ ~ Panics(front, entered[i])
              /\ sent[i] = into_frame(Numbered(front, entered[i], n))
    /\ \A i \in 2..Len(sent) : from_frame(sent[i - 1]).seq < from_frame(sent[i]).seq

\* The messages under way are those of the lines that follow: as long as the server has
\* not failed they are all there, but for a line the key task has panicked at.
Underway ==
    LET s == Len(sent)
        t == s + Len(to_server)
        u == t + Len(ui_client)
    IN  /\ IsList(to_server) /\ IsList(ui_client)
        /\ server # "failed" =>
              /\ forward = "running"
              /\ Len(entered) = u \/ (keys = "panicked" /\ Len(entered) = u + 1)
              /\ \A i \in 1..u : ~ Panics(front, entered[i])
              /\ \A i \in 1..Len(to_server) :
                    to_server[i] = Called(Message(front, entered[s + i]))
              /\ \A i \in 1..Len(ui_client) :
                    ui_client[i] = Message(front, entered[t + i])

UiInv == TypeOK /\ InputOK /\ DrawerOK /\ LatestKept /\ SentInOrder /\ Underway
=============================================================================
