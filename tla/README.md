# bing2bing in TLA+

bing2bing is a peer-to-peer chat: every peer is a client (the user's side) and a
server; servers open TCP connections to each other, flood commands over them, and
find each other with the help of a tracker. This directory holds its verification:
TLA+ modules translated from the Rust sources, TLC configurations that check them on
small instances, and proofs, checked by TLAPS, that hold for every size.

## The system

| Component | State | Operations | Interacts by |
|---|---|---|---|
| Client (`client.rs`) | name, two channels | `say`, `whisper`, `ping`, `send_extension`, `deliver`, `broadcast`, `next_message` | queues to and from its server |
| Server, outgoing (`server.rs`, `peer.rs`, `peer_map.rs`) | `PeerMap`: name to channel; one `Peer` task per entry | `client_message_handler`, `PeerMap::broadcast`, `connect_to_peer` | a channel to each `Peer` task, TCP from there |
| Server, incoming (`server.rs`, `cmd/*`) | `processed_commands`, `adjacency_list`, one task per connection | `handle_connection`, `apply` of each command | shared maps, `PeerMap`, `client_tx` |
| Sequence numbers (`util/counters.rs`) | one counter per server | `next` | shared by the client handler, the connection tasks and the announcer |
| `TtlMap` (`util/ttl_map.rs`) | entries, index of expirations, background task | `get`, `set`, `remove`, `random_keys_vals`, purge | one lock, one `Notify` |
| Links and announcements (`cmd/announce.rs`, `server.rs`) | `PeerMap`, connection counter | `start_announce` every 5 s, `Announce::apply` | floods, new connections |
| Tracker (`tracker.rs`, `cmd/register.rs`) | `known_peers`, one task per connection | `Register::apply`, removal at the end of a connection | request and reply |
| Parser and frames (`parser.rs`, `cmd.rs`, `lib.rs`) | none | `from_frame`, `into_frame`, `parse_frames` | called on every frame |
| Connection (`connection.rs`) | a socket | `read_frame`, `write_frame` | TCP |
| Front ends (`cli/`) | `App` (mode, tab, input, messages, shut-down flag), channels | key presses, lines, drawing, quitting | the client; a thread for keys, one that draws, tasks between |

What is hard here:

* *Concurrency.* A server has one task per incoming connection, one for its client,
  one per outgoing connection and an announcer thread. They share three maps and a
  counter, each behind a lock held for one call at a time; every check-then-act
  (`check_duplicate` then `set_processed`, `get` then `set` in `Register::apply`,
  `contains_peer` then `insert`) has a gap.
* *Ordering.* A flood reaches a peer over several paths at different speeds.
* *Failure.* A frame that does not parse, a log that cannot be written or a lost
  connection ends a task, with its cleanup done, half done or skipped.
* *Time.* Entries last 30 seconds whatever is still in flight.
* *Blocking.* A write to a connection nobody reads waits for ever once its buffer is full.
* *Panics.* `unwrap` ends one task of many: the others go on without it, and the next to use
  its channel panics in turn.
* *Restarts.* A peer that comes back has forgotten its numbers; the others have not.

Correctness, per component. Flooding: a command reaches every peer the links lead to,
is skipped only by those who have taken it, is shown only to those it is for; pings are
answered by the right peer with the right time; floods end; a connection is only dropped
for a reason. `TtlMap`: no entry goes before its own time, and each goes some time after
it. Tracker: who is in the network is listed, who is gone is not, registrations are answered,
and peers that register learn of each other. Links: an entry in a `PeerMap` leads somewhere, the
capacity that is advertised is the capacity there is, and no peer stays without an incoming
connection. Frames: what is read is what was written. Front ends: what is entered goes out, in
order and as typed; quitting ends the program; the newest messages are on the screen.

`PROJECT.json` lists each component with its status, the hazards with their source lines
and the properties aimed at them, and, for every definition, the source lines it models.

## Modules

| Module | Models |
|---|---|
| `Chat` | what the network promises its users, with no links, queues or caches |
| `Relay` | how peers pass commands on over established links; implements `Chat` |
| `MCRelay` | the networks and requests its runs use |
| `RelayProofs` | its theorems |
| `ExpiringMap` | a map whose entries may have a deadline |
| `TtlMap` | the code of `TtlMap`, with its index and background task; implements `ExpiringMap` |
| `TtlMapProofs` | its theorems |
| `Tracker` | the tracker's tasks and the part of `Server::start` that registers |
| `MCTracker` | who is started, with which name and address, in its runs |
| `TrackerProofs` | its theorems |
| `Links` | how links come and go: `connect_to_peer`, `PeerMap`, `listen`'s counter, announcements, crashes and restarts of peers |
| `MCLinks` | who may dial whom in its runs |
| `LinksProofs` | its theorems |
| `Routes` | how the network grows: registrations, first connections, announcements and the connections they cause, as a graph of links |
| `RoutesProofs` | its theorems |
| `Restart`, `MCRestart` | `Relay` with peers that are started again, and the line of its run |
| `RestartProofs` | its theorems |
| `Frames` | what a command is written as, and how it is read: `into_frame`, `Parser`, `from_frame`, `parse_frames`, the tracker's list |
| `FramesProofs` | its theorems |
| `Ui` | one run of the chat program: both front ends, the client, the server as far as it answers the client |
| `MCUi` | what its users type, and the strings and parts the frames are made of |
| `UiProofs` | its theorems |

How they fit together: `Relay` takes a set of links as given and says what travels over
them; `Links` says how such links come and go and takes it as given that announcements
travel; `Tracker` says whom a peer dials first; `Routes` puts
the three together, with one step for each of their operations. `TtlMap` is the map that `Relay` uses as
`processed_commands` (with `Expire` for its purge) and `Tracker` as `known_peers` (whose
entries have no expiration). `Ui` is what happens inside one peer before a command becomes
`ClientMessage` of `Relay`, and after one has been shown; it writes and reads with `Frames`,
the encoding that `Relay` takes as given. `Chat` and `ExpiringMap` are what `Relay` and `TtlMap`
implement.

### Relay

A link `<<p, q>>` stands for the connection `p` opened to `q`: the entry for `q` in `p`'s
`PeerMap`, the channel to the `Peer` task, that task and the TCP stream are one queue,
`wire[l]`, since nothing observes a frame between them. The task that runs
`handle_connection` at the far end is `task[l]`; its steps are those between which another
task of the same peer can run:

| Code | Action |
|---|---|
| `client_message_handler` | `ClientMessage` |
| `read_frame`, `try_into`, `check_duplicate` | `ReadFrame` |
| `set_processed` | `SetProcessed` |
| an arm of the `match`, with the `apply` it calls | `ApplyOpen`, `ApplyDirected`, `ApplyPing`, `ApplyWhisper`, `ApplyExtension` |
| the write of a whisper back to its connection | `WriteBack` |
| an entry of `processed_commands` purged after 30 s | `Expire` |
| a write to a connection the far end has dropped | `WriteLost`, `WriteFails` |

The queue between client and server is merged into `ClientMessage`: a request waits there
and no other task sees it. A command is a record; what it carries is a model value, and
which payloads pass the filters of extensions 2, 5 and 6 is the constant `Matches`. Of
parsing there remains whether a frame is a command (`Text` is not). Whether
`adjacency_list` knows the destination of a whisper is a free choice, since announcements
are not in this module. `client_tx`, `taken` and `issued` are histories.

Left out of `Relay`: `Announce`, which is flooded like `Say` and makes links (see `Links`);
a server's end; `Register`, which a peer only logs.

### TtlMap

`set` is two steps, because it notifies the background task after releasing the lock;
`permit` is the permit that `Notify::notify_one` leaves when nobody waits. Time is a clock of
whole ticks. The background task is in one of three places: about to purge, asleep until
`wake_at`, or waiting for a notification. What an entry holds is left out.
`Timed` says what the code relies on without saying so: a key that is ever set with an
expiration is never removed by a caller (only the tracker removes, and its entries have
none), as `remove` leaves the index alone.

### Tracker

A `Proc` is one run of the peer program; a restart is another `Proc` of the same name and
address. `task[p]` is what the tracker's task for its connection does next: `check` (`get`),
`set`, `list` or `refuse` (the reply), `serve` (read until the connection ends), then
`done`, or `panicked` when the reply could not be written. A reply may fail once the peer's
end is gone; it may also be accepted by TCP and lost. `Start` requires that no connected run
has the address, which `Server::new` has bound. A second `Register` on one connection is left
out: no peer of the repository sends one.

### Links

`<<p, q, i>>` is a task that `p` spawned for `q` in `connect_to_peer`, together with the TCP
connection it opens and the task at `q` that serves it:

| `task[t]`, at the dialler | | `conn[t]`, at the other end | |
|---|---|---|---|
| `spawned` | before `insert` | `accept` | connected, `listen` has not come to it |
| `connect` | in `TcpStream::connect` | `serve` | counted, in `handle_connection` |
| `open` | in the loop of `Peer::start` | `end` | returned, the stream closed, before `dec` |

`peers[p][q]` says whose channel the entry of `q` has: a task's, `None`, or `Dead` when the
task panicked in `start` and so never removed it. Two tasks for one name arise when two
announcements of it are heard before either task has inserted its entry; the second `insert`
drops the first one's channel, and the first task ends in `Orphan` (the `select!` has no
branch left and panics) or, if a write fails first, in `WriteFails`, which removes the entry
of the second. A process that has bound its address is connected to before it accepts
anything (`bound`); `Crash` takes a process away with all its ends of connections; nobody
tells the others.

`announced` holds every pair of a peer and a capacity ever announced. Any peer with an
incoming connection may hear any of it, late, again or never, which covers every path the
flood may take, and more. The roll of the dice in `Announce::apply` is a free choice. The
look at the `PeerMap` (`contains_peer`, `is_empty`) and the spawning are one step, the
`insert` is another. `adjacency_list` is left out: nothing but the first hop of a whisper
and the display of the network reads it.

### Routes

| Code | Action |
|---|---|
| the tracker's `get` and `set` of a new name | `Register` |
| the tracker's list, `connect_to_peer` for all on it, the start of `listen` and of the announcer | `Join` |
| `start_announce` with room left | `Announce` |
| `Announce::apply` at `q` of what `p` announces, with a roll of 0 and `connect_to_peer` | `HearNow(q, p)`; `HearLate(q, p)` for one that is out of date |

`links` is the contents of all `PeerMap`s, and with it, as nobody leaves, of all counters:
`Incoming(p)` are those who have `p` in theirs. An announcement of `p` is heard where the links
lead from `p` (`Route`), which is what `Relay` shows of floods (`SayReaches`). Between
`Register` and `Join` another peer may register, join, and dial the one that has not joined, whose
address is bound. Dialling is one step: the entry, the connection and its count, so that two
tasks for one name, refused connections and ends of connections are left to `Links`; so are
crashes. The module asks what the graph of links is like: whether it is in one piece, and whether
it ends up with a route from each to each, as the comment of `Announce::apply` has it.

### Restart

`Restart(p)` is the end of `p`'s process and `Server::new` of the next one: numbers from the
start, an empty `processed_commands`, new connections. What `p` had written and its
neighbours had not read arrives up to some point of each connection, or all of it (`Cut`), as
TCP may have it; what was on its way to `p` is gone. The neighbours keep their entries of
`processed_commands`: that is the hazard. Two simplifications: the connections are there
again at once (coming back to be dialled is `Links` and `Tracker`), and the far end is done
with the old connection before it reads from the new one. `before` remembers what was issued
before the last restart.

### Frames

A string, number or float is a member of a small set in the run and of any set in the
proofs. `to_lowercase` is `NameOf`, the command a string names whatever its case. Writing
(`SayParts` and its likes) and reading (`Say` and its likes, with what the parser must find in
`Wanted`) are translated from separate code, on purpose: that they agree is the property. The
order in which the parser meets an error makes no difference to any caller, so there is one
`Failed`. `Bool` and `Null` frames, which no code writes, fit nowhere, like any wrong tag.

### Ui

| Code | Action |
|---|---|
| the thread that polls for keys; stdin | `Press` |
| the key task, an arm for each mode and key | `Edit`, `Browse`, `Enter`, `Quit`, `ShutDown` |
| the task of the simple front end that reads lines | `SimpleLine`, `EndOfInput` |
| the task that calls the client, with the client's method | `Forward` |
| `Server::start`, as far as the tracker | `ServerUp`, `ServerFails` |
| `client_message_handler` | `Handle` |
| others that draw a number | `OtherNumber` |
| the task that awaits `next_message`, in each front end | `ArriveFancy`, `ArriveSimple` |
| the draw loop, one action for each lock it takes | `CheckShutDown`, `Lock`, `Count`, `Drain`, `Show` |

A line is a sequence of words, spaces among them; a key types a word. `drawer` says where the
draw loop is: from `lock` to `show` it holds the terminal, which `ShutDown` needs; the lock of
`App` it takes for each question anew, so tasks get in between. A panic ends the task it is
in, and the receiver of its channel with it: `FancyPanics` and `SimplePanics` are the lines
with a missing part (the `unwrap`s of `split_once` and `parse`), and a send to a task that is
gone panics in turn, from the server to the client's task to the key task. In the simple front
end the panic of the task that reads lines ends the program. The two front ends differ, and
the model with them: only the simple one knows `/say` and `/broadcast`, and only
the fancy one panics at an `/extension` without a number. What a line asks for (`AsksFor`) is
the same in both, any word that is a command in one of them included; `SentAsTyped` names the two
commands that the fancy front end says as they stand instead (`Misread`), and `ui_listed` shows
that this is not what the repository's README promises (`SentAsListed`).

## Runs

| Run | Shows |
|---|---|
| `relay_mesh` | three peers dialling each other, two requests of any kind (say, deliver, whisper, two pings, and all extensions), logs that fail, connections that drop: numbering, duplicate suppression, addressing, answers, reasons for drops, the inductive invariant, and that `Relay` implements `Chat` |
| `relay_line` | a line of three peers and one off it: what is said, delivered, pinged and whispered next door arrives, messages in order, and floods end; an entry may expire |
| `restart` | a line of three peers, one of them started again at any moment: a command is skipped only for one of another run with its number, and what is said under a number not given before arrives |
| `ui` | nine sessions with the front ends: what is entered is sent as typed, but for the two commands the fancy one does not know, the program ends, the newest messages are drawn |
| `ttl` | two timed keys and one that is not, four sets, three ticks: index, wake-ups, expiry, implements `ExpiringMap` |
| `tracker` | four runs of the program, three of which claim one name, two of them from one address: who is in the network under a name nobody else has claimed is listed, of two of those one dials the other, leavers are forgotten, entries are held, registrations answered |
| `links` | two peers, two tasks for one name, a crash and a restart, connections that end in errors: entries are served or dead for a reason, the counter is exact, and, while nobody has crashed, who has an outgoing connection gets an incoming one |
| `routes_room` | four peers with room for two each: one network throughout, and a route from each to each in the end |

Bounds, and why they suffice. Three peers are the least with a peer that is neither source
nor destination. In the mesh every command has two paths to everyone, so copies race. On the
line, links go both ways between `b` and `c`, a cycle that does not go through `a`: a flood
of `a` could go to and fro on it, and a delivery to a peer on no link does so without ever
being shown. Two requests make a pair of
commands of one source, or of two, and a ping with its pong interfering with another
request (`MaxAsks`). One expired entry lets one copy be taken again (`MaxExpiries`). A
buffer of one frame (`BackCap`) fills at once; a larger one fills later. Two timed keys and
two durations make an expiration come before, with, or after another; four sets replace an
entry while another set has yet to notify; three ticks (`MaxTime`) pass every deadline of
entries set early. The tracker's four runs are a holder of
a name, a rival, a holder restarted at its old address, and a bystander with a name of its own. As long as
only one of the three has started, it and the bystander are the two peers that must find each
other; with `Fanout` 2 a list has room for both, the code lists 5. More names are left to the
theorems. Of `Links`, two
tasks for one name (`Slot`) are enough for one to replace the other, and one restart
(`MayCrash`) for an entry to be stale. With two peers the dialler of an announcement has no other
entry, so that capacity hardly matters there; it does in `Routes`. Its four peers are the least
at which peers with room for one can be cut off; with room for two, two of four have joined and
two have yet to come when the first may be full, and announcements that are out of date, heard
over one link or two, race with those that are not. A list of four (`Fanout`) has all of them, as the
code's list of 5 has in a network of up to five; what happens in larger ones is said below.

One restart (`MaxRestarts`) and three requests make a peer give a number, come back, give it again
and give a new one. The sessions of `ui` contain every command in both front ends, lines
with more spaces than the command needs and with fewer, editing, both tabs, and `q` or
`/quit`, or the end of stdin, after it; at most two lines each, for the fancy front end, keep
the state space small, four for the simple one. With room for one message (`Lines`) two are too
many; one from outside (`MaxArrivals`) comes before, between or after those the user enters.
One number drawn by another task (`MaxOther`) makes a gap. `MCUi` also has TLC evaluate
what `FramesProofs` proves (`ReadAsWritten`), on small sets: the parts that may arrive (`Rows`) are
all rows of up to five of four kinds of parts after any name or none.

Runs that show where program and documentation disagree; each is expected to find a
violation (the quoted lines are in `PROJECT.json`, `findings`):

| Run | Disagreement |
|---|---|
| `routes_full` | four peers with room for one: two fill each other's room, and no route ever leads to the two that join later |
| `tracker_evict` | the end of a refused registration removes the holder of the name |
| `links_stale` | a peer dialled while it was down leaves an entry that is never removed; back again, it is never dialled |
| `ui_listed` | `/broadcast hi` in the fancy front end is said to everybody, as it stands |

More consequences of the code are in the models without a run of their own. A whisper for a peer
two links away is written back to the connection it came in on (`WriteBack`) and sent to nobody else, although
the comment of `Whisper::apply` has it arrive some time: `WhisperNextDoor` is as far as they get.
When more peers register at a time than the tracker lists, each may be told of others of its own
part only, and the network comes up in several that never hear of each other: `Fanout` below
the number of peers, which the mutant of `OneNetwork` shows. `check_duplicate` and
`set_processed` are two steps, so one message may be shown twice: once per incoming connection, and
as often again for every entry that has expired (`DuplicatesBounded`). Extension 4 broadcasts a bare text, at which receivers drop the
connection and what is in flight on it: `DropsExplained` says that nothing else does. A line of
the fancy front end that lacks a part, such as `/whisper bob`, panics the key task in raw mode:
`q` does nothing from then on (`QuitsOrPanics` has the case). The repository's README, and the help
text of `--simple` (`main.rs`), have the simple front end respond to `/say` and `/quit` only; it
takes the other commands just as well, as the sessions of `ui` show. Lines still queued when the
program ends are lost (`EnteredIsSent` excepts them). Whispers
that are passed through are written to a connection nobody reads; when its buffer is full the
task waits for ever, with what is said behind it (`FloodEnds` sets such tasks aside, and
`relay_line` makes too few requests for a message to be stuck behind one). A peer that is
restarted before the end of its old connection is noticed loses its entry to that end: the
mechanism of `tracker_evict`. A reply that cannot be written panics the tracker's task, and
the entry it has just set stays for good: the case that `EntryHeld` admits. The tracker is assumed to run: `start` waits for
its reply without a timeout. Two peers that
register one name at a time are both accepted, because `Register::apply` looks up and sets in
two steps. An unknown extension is not passed on by a receiver whose own next number equals
the extension's, because the arm for extensions compares the two. Everybody who hears an
announcement decides alone whether to connect, so more may connect than there is room for.

Deadlock checking is off throughout: a network whose users ask for nothing more comes to
rest, as do the tracker when everybody has gone and a chat program that was quit.

### Fairness

`Relay`: weak fairness of `HandleConnection(l)` for each link: the runtime polls every task
that can make progress, and the task waits for nothing but a frame, or room in a buffer.
No fairness for users, expiry, or the disk. `TtlMap`: weak fairness of the background task,
its timer, and the second half of `set`; none for callers, nor for time: `ExpiredGo` is
about entries whose time has come. `Tracker`: weak fairness of each connection's task and of
a peer reading the reply it waits for; none for starting or leaving. `Links`: weak fairness of
each task at either end (a write fails at the latest when the next announcement is written),
and of announcing, which the announcer does every 5 seconds; none for starting, crashing or
errors. Strong fairness of `HearSource(t)`: a peer that is connected announces over its own
connection again and again, each hearing rolls 0 with a probability that does not shrink, so
it happens some time. That a copy of the announcement came first by another way, and was heard
by another task, has the same effect. `Routes`: weak
fairness of `Join`, since the tracker answers (`Answered`), and of `HearNow`: while a peer hears of
another, every 5 seconds, it rolls again, and the chance of a 0 does not shrink; none for
registering. `Restart`: as `Relay`. `Ui`: weak fairness of the key task, the forwarding task,
the server's handler and the draw loop; none for typing, arrivals, nor for the server to start
or fail. Strong fairness of `ShutDown`: the draw loop gives the terminal back after every
frame and takes it again at once, and `q` waits for it meanwhile. `Mutex` promises no order;
what is assumed is that the waiting task gets it some time.

## Theorems

All are proved without bounds on the constants.

`RelayProofs`. The invariant `IInv` says why the relay's safety properties hold together:
numbers given are below the generator's next one, so keys identify commands
(`KeysIdentify`); every frame queued or held is a command really made by someone other than
the peer it is heading for (`MayCarry`: broadcasting spares the source), so nobody is shown
an own message; every key in `processed_commands` belongs to a command that was taken, and
with unique keys that is the command at hand, so nothing is swallowed (`NoneSwallowed`); a
Text frame on a wire is blamed on an extension, so dropped connections are explained; each
pong answers a ping (`PongsMatch`). None of these is inductive alone: the key argument needs
that wires carry only issued commands, which needs that tasks do. `IInv` is in two parts,
because `Restart` has only one of them: what is made, taken and shown for a reason, whatever
the numbers (`Accounted`, preserved by `AccountStep`), and the numbers (`NumberStep`).
`Refinement` maps `issued` and `client_tx` to `Chat`'s variables and shows that each step is
one of `Chat`'s or changes nothing there.

`DuplicatesAreBounded` counts. Between the look-up and the marking each incoming
connection's task may hold a copy, so the bound is about copies shown plus tasks that may
still show theirs (`Counted`): while the key is marked, nobody starts anew, and those past
the look-up count; while it is not, only those past the marking do, and an expiry, which is
the only way from marked to unmarked, has paid for them with one more round of the
connections (`MarksLost`).

`MessagesInOrder` holds where one path leads to each peer (`OnePath`: for each sender `s`
there is a map `up`, and any connection into a peer is from the one `up` names or from one
whose own `up` is that peer). `MCRelay` has TLC check that the line is such a network
(`LineIsOnePath`), and `relay_mesh`'s is not. `OrderInv` follows the messages of `s` along
`up`: a peer has only what the one before it has (`ShownOnTheWay`), a connection against
`up` brings only what its far end has already (`Returns`), and over one along `up` nothing
the near end has is missing and nothing overtakes (`NoneMissing`, `WaitsInOrder`,
`HeldInOrder`), unless it has been dropped, after which nothing comes at all. It is about
what users say or broadcast: that goes through one task, which draws a number and queues the
command before it takes the next (one step in the model), while a pong draws its number in
another task.

`RestartProofs`. Across any number of restarts `Accounted` goes on to hold: a restart takes
frames and marks away and adds none. The numbers identify commands only until the first one.
So a command that is skipped without having been taken shares source and number with one
taken, and somebody has restarted (`OnlyForOlder`); pongs still match pings, users still see
only what is for them, and not even their own messages from before the restart
(`OnlyTheRightAcrossRestarts`). To the count of duplicates a restart is what an expiry is: it
loses marks, and of the tasks it only ends some. So `RepeatsAreBounded` is the same argument
with the restarts counted in. No run has this bound (`RepeatsBounded`): with the one restart
of `restart` the restarts make no difference to it. With `MaxRestarts = 2` and without `HeardAgain`, which would
take too long, TLC confirms it in 660,888 states, and finds it violated when the
restarts are left out of it.

`TtlMapProofs`. `IInv`: ids below `next_id` keep index entries apart; index and entries
match; and while there is an expiration the task is about to look, has a notification
coming, or wakes no later. The step that matters is a `set` behind an earlier expiration: it
does not notify, and the invariant for the earlier one covers it. `Refinement` to
`ExpiringMap` needs the index to match: then what a purge removes is past its own deadline.
A `Remove` keeps the index matching because no removed key is in it (`OnlyTimed`).

`TrackerProofs`. Whatever the names, every entry was made by a connection that has not
ended, or whose task panicked (`NoneOrphaned`). A run is alone with its
name until another is started under it (`Alone`), however others fight over other names. One that is
alone is not refused, and when it is connected and has been served, or is about to be, it is
in the map, so that it is listed once it has joined (`JoinedAlwaysListed`). Assuming that a reply has
room for all names, a reply lists the whole map (a subset of full cardinality), so of two
such peers the one served later was told of the other (`AllBootstrap`). That a step of
somebody else leaves the entry of a run alone with its name as it is (`Others`), and that nobody
comes to be alone who was not (`AloneBefore`), are the lemmas it all rests on.

`LinksProofs`. The entry in a `PeerMap` was inserted by a task that is still there, for as
long as the entry is (`EntriesServed`): a task that ends either takes the name's entry with
it, whoever's it is, or had been replaced, or leaves a dead one, and that only when nobody
listened at the other end, who must have crashed (`DeadHaveCrashed`), which needs that only
peers that registered are dialled or heard of (`Known`). The counter of incoming connections
is exact (`CounterExact`), with as many peers as one likes: that only finitely many
connections are open is part of the invariant and not an assumption.

`RoutesProofs`. With a tracker that lists everybody (`ListsAll`), who joins dials all who
have joined before, so of any two one has dialled the other (`Acquainted`, inductive with
`TypeOK`), and no set of peers is without a link to the rest (`NeverSplit`). `RestHasRoutes`
needs one more assumption, `RoomForMost`: at most two peers more than each takes
connections. If there were no route from `p` to `q` at rest, then `q` has dialled `p`, which
hears it, so `p` must have another entry, for an `x`, and `q` no room; but neither `p` nor
`x` nor `q` itself has dialled `q`, and all the others are too few to fill it. The
assumption is the weakest of its kind: `routes_full` has three peers more than room, which
with the code's default of 5 are eight.

`FramesProofs`. For any strings, numbers and payloads: reading what was written gives the
command back (`WrittenIsRead`), and what is read as a command is, but for the case of its
name, the frame the command writes (`ReadIsWritten`): peers write a command anew to pass it
on, so nothing is lost or added however many hops it takes. The proofs go by kind of
command; the one list of variable length, the neighbours in an announcement, is a lemma of
its own each way. `ReplyIsRead` is the same for the tracker's list.

`UiProofs`. For any script, words and numerals, any room on the screen and any number of
arrivals. `UiInv` has three parts. Types and where the draw loop is (`DrawerOK`): between
the locks under which the list is measured, counted and drained only additions get in, so
what was found too much still is, and `LatestAreKept` follows, as a rest of a rest of the
list. Where every line is (`Underway`): as long as the server has not failed, the lines
entered are those sent, those before the server and those before the forwarding task, in
that order, but for one the key task has panicked at; when the server has failed nothing is
claimed, since nothing more is sent. And what was sent (`SentInOrder`). `SentIsTyped` then
needs that a line says what its command is read as: `LineIsAskedFor` splits the line at its
first space, as the front ends do, and uses `WholeIsRead`, the lemma behind `WrittenIsRead`
of `FramesProofs` for commands of the right shape, whatever sets their fields are from; a
`/say` or `/broadcast` line of the fancy front end is said as it stands (`MisreadIsSaid`).

Only model-checked: liveness (`AlwaysRoute`, `HeardAgain`, `EnteredIsSent`, `QuitsOrPanics`,
`NewestDrawn`, `ReachedBack`, `FloodEnds`, `SayReaches`, `DeliverReaches`, `PingAnswered`,
`WhisperNextDoor`, `ExpiredGo`, `Answered`, `LeaversForgotten`), which is out of the
prover's reach. Every invariant that a run checks is a theorem as well.

## Not modelled, and the plan

To be proved next: what `Reach` stands for. The peers a flood gets to are defined by a
recursive function, about which nothing is proved. The library's induction theorems cannot be
used with the provers at hand, but `Least` of `UiProofs` (a set of numbers has a least) can.

Left out:

* `Connection`: length-delimited JSON over TCP, input and output of two libraries. The wires of
  `Relay` and the replies of `Tracker` stand for it.
* From a registration to a connected network with every step of `Tracker` and `Links`, and
  with peers that leave: the product has more states than can be searched. `Routes` has one step for
  each operation.
* `adjacency_list`: nothing but the first hop of a whisper reads it, where `Relay` has a free
  choice.
* In `Restart`, a new connection served while the old one is not yet at its end, and a restart of
  the tracker in `Tracker`.
* Of the front ends: layout, colours and the log view; key modifiers; a terminal of fewer than
  two lines, at which the height computed in `draw` underflows; the text of messages, latencies
  included, which are wrong when a pong arrives after midnight; `next_message`, which spins once
  the server is gone.
* The entry points: command line parsing.
