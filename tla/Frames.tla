------------------------------- MODULE Frames -------------------------------
(***************************************************************************)
(* What the peers and the tracker of bing2bing write to each other: the    *)
(* frames (Bing2BingFrame, lib.rs), the frame each command turns itself    *)
(* into (into_frame, cmd/), the reading of a frame as a command (Parser,   *)
(* parser.rs; from_frame, cmd.rs; parse_frames, cmd/), and the tracker's   *)
(* list of peers (cmd/register.rs) with its reading (server.rs).           *)
(*                                                                         *)
(* The writing and the reading of a command are separate code and so are   *)
(* separate definitions here.  The JSON text of a frame and the framing of *)
(* the TCP stream are the libraries' (connection.rs) and left out.         *)
(***************************************************************************)
EXTENDS Integers, Sequences

CONSTANTS
    Str,           \* the strings in frames
    Num,           \* the numbers
    Flt,           \* the floats
    Byt,           \* the byte strings
    Lists,         \* lists of names an announcement may carry
    Payload,       \* frames an extension may carry
    Replies,       \* lists of peers the tracker may answer with
    Arriving,      \* the part lists of arrays that may arrive
    Spelling,      \* the string that is a command's name, in lower case
    NameOf         \* the command a string names once lower-cased, or "none"

\* The names from_frame knows; a command's kind is its name.
CommandName == {"broadcast", "ping", "pong", "register", "say", "deliver",
                "announce", "whisper", "extension"}

ASSUME StringAssumption ==
    /\ Spelling \in [CommandName -> Str]
    /\ NameOf \in [Str -> CommandName \cup {"none"}]
    /\ \A k \in CommandName : NameOf[Spelling[k]] = k

ASSUME ListAssumption ==
    /\ Lists \subseteq Seq(Str)
    /\ Replies \subseteq Seq([name : Str, ip : Str, port : Str])

-----------------------------------------------------------------------------
(* Bing2BingFrame: a tag and what it carries.                              *)

Text(s)   == <<"text", s>>
Error(s)  == <<"error", s>>
Number(n) == <<"number", n>>
Bulk(b)   == <<"bulk", b>>
Float(x)  == <<"float", x>>
Array(fs) == <<"array", fs>>

Tag(f)     == f[1]
Content(f) == f[2]

\* Frames in a row.
IsRow(fs) == /\ fs \in Seq({fs[i] : i \in 1..Len(fs)})
             /\ \A i \in 1..Len(fs) : fs[i] = <<Tag(fs[i]), Content(fs[i])>>

\* Parts are frames, and those that are arrays are arrays of frames.
ASSUME ArrivingAssumption ==
    \A parts \in Arriving :
        /\ IsRow(parts)
        /\ \A i \in 1..Len(parts) :
              /\ Tag(parts[i]) = "text"  => Content(parts[i]) \in Str
              /\ Tag(parts[i]) = "array" => IsRow(Content(parts[i]))

-----------------------------------------------------------------------------
(* The commands and their fields.                                          *)

\* What every command has: its kind, whom it is from and its number.
Commands ==
    [kind : {"say"}, source : Str, seq : Num, message : Str]
    \cup [kind : {"whisper"}, source : Str, seq : Num, dest : Str, message : Str]
    \cup [kind : {"broadcast"}, source : Str, seq : Num, data : Byt]
    \cup [kind : {"deliver"}, source : Str, seq : Num, dest : Str, data : Byt]
    \cup [kind : {"ping", "pong"}, source : Str, dest : Str, seq : Num, sent_at : Num]
    \cup [kind : {"extension"}, source : Str, seq : Num, ext : Num, payload : Payload]
    \cup [kind : {"register"}, source : Str, seq : Num, ip : Str, port : Str]
    \cup [kind : {"announce"}, source : Str, seq : Num, ip : Str, port : Num,
          available : Num, city : Str, lat : Flt, lng : Flt, peers : Lists]

-----------------------------------------------------------------------------
(* Writing: the parts of into_frame's array after the name.                *)

SayParts(c)       == <<Text(c.source), Number(c.seq), Text(c.message)>>
WhisperParts(c)   == <<Text(c.source), Number(c.seq), Text(c.dest), Text(c.message)>>
BroadcastParts(c) == <<Text(c.source), Number(c.seq), Bulk(c.data)>>
DeliverParts(c)   == <<Text(c.source), Number(c.seq), Text(c.dest), Bulk(c.data)>>
ExtensionParts(c) == <<Text(c.source), Number(c.seq), Number(c.ext), c.payload>>
RegisterParts(c)  == <<Text(c.source), Number(c.seq), Text(c.ip), Text(c.port)>>

\* A ping and a pong have their fields in an order of their own.
PingParts(c)      == <<Text(c.source), Text(c.dest), Number(c.seq), Number(c.sent_at)>>
PongParts(c)      == <<Text(c.source), Text(c.dest), Number(c.seq), Number(c.sent_at)>>

\* An announcement's neighbours are an array of texts.
PeersFrame(peers) == Array([i \in 1..Len(peers) |-> Text(peers[i])])

AnnounceParts(c) ==
    <<Text(c.source), Number(c.seq), Text(c.ip), Number(c.port), Number(c.available),
      Text(c.city), Float(c.lat), Float(c.lng), PeersFrame(c.peers)>>

Parts(c) ==
    CASE c.kind = "say"       -> SayParts(c)
      [] c.kind = "whisper"   -> WhisperParts(c)
      [] c.kind = "broadcast" -> BroadcastParts(c)
      [] c.kind = "deliver"   -> DeliverParts(c)
      [] c.kind = "extension" -> ExtensionParts(c)
      [] c.kind = "register"  -> RegisterParts(c)
      [] c.kind = "ping"      -> PingParts(c)
      [] c.kind = "pong"      -> PongParts(c)
      [] c.kind = "announce"  -> AnnounceParts(c)

into_frame(c) == Array(<<Text(Spelling[c.kind])>> \o Parts(c))

-----------------------------------------------------------------------------
(* Reading.  Every error of the parser is an error of the command: which   *)
(* part it met first makes no difference to the caller.                    *)

Failed  == [kind |-> "error"]
Unknown == [kind |-> "unknown"]

\* next_text, next_number, next_bytes, next_float, next and parse_peer_info_frames: may
\* the part f be read where want is asked for?
Fits(f, want) ==
    CASE want = "any"   -> TRUE
      [] want = "names" -> /\ Tag(f) = "array"
                           /\ \A i \in 1..Len(Content(f)) : Tag(Content(f)[i]) = "text"
      [] OTHER          -> Tag(f) = want

\* What parse_frames asks for, part by part.
Wanted(kind) ==
    CASE kind = "say"       -> <<"text", "number", "text">>
      [] kind = "whisper"   -> <<"text", "number", "text", "text">>
      [] kind = "broadcast" -> <<"text", "number", "bulk">>
      [] kind = "deliver"   -> <<"text", "number", "text", "bulk">>
      [] kind \in {"ping", "pong"} -> <<"text", "text", "number", "number">>
      [] kind = "extension" -> <<"text", "number", "number", "any">>
      [] kind = "register"  -> <<"text", "number", "text", "text">>
      [] kind = "announce"  -> <<"text", "number", "text", "number", "number", "text",
                                 "float", "float", "names">>

\* Every part is there and fits, and finish finds nothing left.
Accepts(parts, want) ==
    /\ Len(parts) = Len(want)
    /\ \A i \in 1..Len(want) : Fits(parts[i], want[i])

\* parse_frames of each command: the command the parts p make up.
Say(p) == [kind |-> "say", source |-> Content(p[1]), seq |-> Content(p[2]),
           message |-> Content(p[3])]

Whisper(p) == [kind |-> "whisper", source |-> Content(p[1]), seq |-> Content(p[2]),
               dest |-> Content(p[3]), message |-> Content(p[4])]

Broadcast(p) == [kind |-> "broadcast", source |-> Content(p[1]), seq |-> Content(p[2]),
                 data |-> Content(p[3])]

Deliver(p) == [kind |-> "deliver", source |-> Content(p[1]), seq |-> Content(p[2]),
               dest |-> Content(p[3]), data |-> Content(p[4])]

Extension(p) == [kind |-> "extension", source |-> Content(p[1]), seq |-> Content(p[2]),
                 ext |-> Content(p[3]), payload |-> p[4]]

Register(p) == [kind |-> "register", source |-> Content(p[1]), seq |-> Content(p[2]),
                ip |-> Content(p[3]), port |-> Content(p[4])]

Ping(p) == [kind |-> "ping", source |-> Content(p[1]), dest |-> Content(p[2]),
            seq |-> Content(p[3]), sent_at |-> Content(p[4])]

Pong(p) == [kind |-> "pong", source |-> Content(p[1]), dest |-> Content(p[2]),
            seq |-> Content(p[3]), sent_at |-> Content(p[4])]

\* parse_peer_info_frames: the names in the array.
Names(f) == [i \in 1..Len(Content(f)) |-> Content(Content(f)[i])]

Announce(p) == [kind |-> "announce", source |-> Content(p[1]), seq |-> Content(p[2]),
                ip |-> Content(p[3]), port |-> Content(p[4]), available |-> Content(p[5]),
                city |-> Content(p[6]), lat |-> Content(p[7]), lng |-> Content(p[8]),
                peers |-> Names(p[9])]

Command(kind, p) ==
    CASE kind = "say"       -> Say(p)
      [] kind = "whisper"   -> Whisper(p)
      [] kind = "broadcast" -> Broadcast(p)
      [] kind = "deliver"   -> Deliver(p)
      [] kind = "extension" -> Extension(p)
      [] kind = "register"  -> Register(p)
      [] kind = "ping"      -> Ping(p)
      [] kind = "pong"      -> Pong(p)
      [] kind = "announce"  -> Announce(p)

\* Parser::new takes an array, and its first part, a text, is the name.
HasName(f) == /\ Tag(f) = "array"
              /\ Content(f) # <<>>
              /\ Tag(Content(f)[1]) = "text"
KindOf(f) == NameOf[Content(Content(f)[1])]

\* A frame with a name nobody knows is Unknown, whatever else it holds.
from_frame(f) ==
    LET parts == Tail(Content(f))
    IN  IF ~ HasName(f) THEN Failed
        ELSE IF KindOf(f) = "none" THEN Unknown
        ELSE IF Accepts(parts, Wanted(KindOf(f))) THEN Command(KindOf(f), parts)
        ELSE Failed

-----------------------------------------------------------------------------
(* The tracker's answer to a register command.                             *)

\* Register::apply: an array for each peer.
PeerInfoFrame(e) == Array(<<Text(e.name), Text(e.ip), Text(e.port)>>)
RandomPeersFrame(list) == Array([i \in 1..Len(list) |-> PeerInfoFrame(list[i])])

\* Server::parse_register_response.
IsPeerInfo(f) == Tag(f) = "array" /\ Accepts(Content(f), <<"text", "text", "text">>)
PeerInfo(f) == LET V(i) == Content(Content(f)[i])
               IN  [name |-> V(1), ip |-> V(2), port |-> V(3)]

parse_register_response(f) ==
    LET infos == Content(f)
    IN  IF Tag(f) = "array" /\ \A i \in 1..Len(infos) : IsPeerInfo(infos[i])
        THEN [kind |-> "peers", list |-> [i \in 1..Len(infos) |-> PeerInfo(infos[i])]]
        ELSE Failed

-----------------------------------------------------------------------------
(* What must hold.                                                         *)

\* What a peer or the tracker reads is the very command that was written, in every
\* field, whichever code wrote it and whichever reads it.
RoundTrip == \A c \in Commands : from_frame(into_frame(c)) = c

\* A command is read only from the frame into_frame makes of it, however the name is
\* spelt: a peer that takes a command passes on every part it was sent and no other,
\* and a frame with too little, too much or something else in it is none.
AsSent(f) == Array(<<Text(Spelling[KindOf(f)])>> \o Tail(Content(f)))
PassedOnWhole ==
    \A parts \in Arriving :
        LET f == Array(parts)
        IN  from_frame(f).kind \in CommandName => into_frame(from_frame(f)) = AsSent(f)

\* A peer reads the tracker's list as the tracker wrote it, and never takes a refusal
\* for a list.
ReplyRead ==
    /\ \A list \in Replies :
          parse_register_response(RandomPeersFrame(list)) = [kind |-> "peers", list |-> list]
    /\ \A s \in Str : parse_register_response(Error(s)) = Failed
=============================================================================
