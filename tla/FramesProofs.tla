----------------------------- MODULE FramesProofs -----------------------------
(***************************************************************************)
(* Proofs about Frames, for all strings, numbers and frames: what is       *)
(* written is read back, what is read is passed on whole, and the          *)
(* tracker's list arrives.                                                 *)
(***************************************************************************)
EXTENDS Frames, TLAPS

-----------------------------------------------------------------------------
(* Sequences.                                                              *)

\* A sequence is the function of its elements.
LEMMA SeqIsFunction ==
    ASSUME NEW S, NEW q \in Seq(S)
    PROVE  [i \in 1..Len(q) |-> q[i]] = q
OBVIOUS

\* The neighbours of an announcement are read back.
LEMMA PeersRead ==
    ASSUME NEW q \in Seq(Str)
    PROVE  LET r == Content(PeersFrame(q))
           IN  /\ Fits(PeersFrame(q), "names")
               /\ [i \in 1..Len(r) |-> Content(r[i])] = q
<1> DEFINE r == [i \in 1..Len(q) |-> Text(q[i])]
<1>1. PeersFrame(q) = <<"array", r>> BY DEF PeersFrame, Array
<1>2. Tag(PeersFrame(q)) = "array" /\ Content(PeersFrame(q)) = r
  BY <1>1 DEF Tag, Content
<1>3. Len(r) = Len(q) /\ \A i \in 1..Len(q) : r[i] = Text(q[i])
  OBVIOUS
<1> HIDE DEF r
<1>4. Fits(PeersFrame(q), "names")
  BY <1>2, <1>3 DEF Fits, Tag, Text
<1>5. [i \in 1..Len(r) |-> Content(r[i])] = [i \in 1..Len(q) |-> q[i]]
  BY <1>3 DEF Content, Text
<1> QED
  BY <1>2, <1>4, <1>5, SeqIsFunction

\* A sequence is one over its own elements.
LEMMA SeqOfItsElements ==
    ASSUME NEW S, NEW q \in Seq(S)
    PROVE  q \in Seq({q[i] : i \in 1..Len(q)})
<1> DEFINE E == {q[i] : i \in 1..Len(q)}
<1>1. \A i \in 1..Len(q) : q[i] \in E
  OBVIOUS
<1>2. [i \in 1..Len(q) |-> q[i]] \in [1..Len(q) -> E]
  BY <1>1
<1>3. q \in [1..Len(q) -> E] /\ Len(q) \in Nat
  BY <1>2, SeqIsFunction
<1> HIDE DEF E
<1> QED
  BY <1>3 DEF E

\* An element of a sequence.
LEMMA ElementOfSeq ==
    ASSUME NEW S, NEW q \in Seq(S), NEW i \in 1..Len(q)
    PROVE  q[i] \in S
OBVIOUS

\* Taking the first part off what was put in front.
LEMMA TailOfPrefixed ==
    ASSUME NEW S, NEW q \in Seq(S), NEW x
    PROVE  /\ Tail(<<x>> \o q) = q
           /\ (<<x>> \o q)[1] = x
           /\ <<x>> \o q # <<>>
OBVIOUS

-----------------------------------------------------------------------------
(* Written, then read.                                                     *)

\* A command of the right shape, whatever its fields hold.
Whole(c) ==
    \/ \E s, n, t : c = [kind |-> "say", source |-> s, seq |-> n, message |-> t]
    \/ \E s, n, d, t :
          c = [kind |-> "whisper", source |-> s, seq |-> n, dest |-> d, message |-> t]
    \/ \E s, n, b : c = [kind |-> "broadcast", source |-> s, seq |-> n, data |-> b]
    \/ \E s, n, d, b :
          c = [kind |-> "deliver", source |-> s, seq |-> n, dest |-> d, data |-> b]
    \/ \E s, n, e, f :
          c = [kind |-> "extension", source |-> s, seq |-> n, ext |-> e, payload |-> f]
    \/ \E s, n, i, p :
          c = [kind |-> "register", source |-> s, seq |-> n, ip |-> i, port |-> p]
    \/ \E k \in {"ping", "pong"} : \E s, d, n, t :
          c = [kind |-> k, source |-> s, dest |-> d, seq |-> n, sent_at |-> t]
    \/ \E s, n, i, p, a, t, x, y : \E q \in Seq(Str) :
          c = [kind |-> "announce", source |-> s, seq |-> n, ip |-> i, port |-> p,
               available |-> a, city |-> t, lat |-> x, lng |-> y, peers |-> q]

\* Every command has the shape of its kind.
LEMMA CommandsWhole ==
    ASSUME NEW c \in Commands
    PROVE  Whole(c)
<1>1. ASSUME c \in [kind : {"say"}, source : Str, seq : Num, message : Str] PROVE Whole(c)
  <2>1. c = [kind |-> "say", source |-> c.source, seq |-> c.seq, message |-> c.message]
    BY <1>1
  <2> QED BY <2>1 DEF Whole
<1>2. ASSUME c \in [kind : {"whisper"}, source : Str, seq : Num, dest : Str, message : Str]
      PROVE  Whole(c)
  <2>1. c = [kind |-> "whisper", source |-> c.source, seq |-> c.seq, dest |-> c.dest,
             message |-> c.message]
    BY <1>2
  <2> QED BY <2>1 DEF Whole
<1>3. ASSUME c \in [kind : {"broadcast"}, source : Str, seq : Num, data : Byt]
      PROVE  Whole(c)
  <2>1. c = [kind |-> "broadcast", source |-> c.source, seq |-> c.seq, data |-> c.data]
    BY <1>3
  <2> QED BY <2>1 DEF Whole
<1>4. ASSUME c \in [kind : {"deliver"}, source : Str, seq : Num, dest : Str, data : Byt]
      PROVE  Whole(c)
  <2>1. c = [kind |-> "deliver", source |-> c.source, seq |-> c.seq, dest |-> c.dest,
             data |-> c.data]
    BY <1>4
  <2> QED BY <2>1 DEF Whole
<1>5. ASSUME c \in [kind : {"extension"}, source : Str, seq : Num, ext : Num, payload : Payload]
      PROVE  Whole(c)
  <2>1. c = [kind |-> "extension", source |-> c.source, seq |-> c.seq, ext |-> c.ext,
             payload |-> c.payload]
    BY <1>5
  <2> QED BY <2>1 DEF Whole
<1>6. ASSUME c \in [kind : {"register"}, source : Str, seq : Num, ip : Str, port : Str]
      PROVE  Whole(c)
  <2>1. c = [kind |-> "register", source |-> c.source, seq |-> c.seq, ip |-> c.ip,
             port |-> c.port]
    BY <1>6
  <2> QED BY <2>1 DEF Whole
<1>7. ASSUME c \in [kind : {"ping", "pong"}, source : Str, dest : Str, seq : Num, sent_at : Num]
      PROVE  Whole(c)
  <2>1. /\ c = [kind |-> c.kind, source |-> c.source, dest |-> c.dest, seq |-> c.seq,
                sent_at |-> c.sent_at]
        /\ c.kind \in {"ping", "pong"}
    BY <1>7
  <2> QED BY <2>1 DEF Whole
<1>8. ASSUME c \in [kind : {"announce"}, source : Str, seq : Num, ip : Str, port : Num,
                   available : Num, city : Str, lat : Flt, lng : Flt, peers : Lists]
      PROVE  Whole(c)
  <2>1. /\ c = [kind |-> "announce", source |-> c.source, seq |-> c.seq, ip |-> c.ip,
                port |-> c.port, available |-> c.available, city |-> c.city,
                lat |-> c.lat, lng |-> c.lng, peers |-> c.peers]
        /\ c.peers \in Seq(Str)
    BY <1>8, ListAssumption
  <2> QED BY <2>1 DEF Whole
<1> QED BY <1>1, <1>2, <1>3, <1>4, <1>5, <1>6, <1>7, <1>8 DEF Commands

\* The parts a command is written as fit what its reading asks for, and make up the same
\* command.
LEMMA PartsRead ==
    ASSUME NEW c, Whole(c)
    PROVE  /\ c.kind \in CommandName
           /\ Parts(c) \in Seq({Parts(c)[i] : i \in 1..Len(Parts(c))})
           /\ Accepts(Parts(c), Wanted(c.kind))
           /\ Command(c.kind, Parts(c)) = c
<1> USE DEF Tag, Content, Text, Number, Bulk, Float, Array
<1>1. CASE \E s, n, t : c = [kind |-> "say", source |-> s, seq |-> n, message |-> t]
  <2>1. PICK s, n, t : c = [kind |-> "say", source |-> s, seq |-> n, message |-> t]
    BY <1>1
  <2>2. Parts(c) \in Seq({Parts(c)[j] : j \in 1..Len(Parts(c))})
    BY <2>1 DEF Parts, SayParts
  <2>3. Accepts(Parts(c), Wanted(c.kind))
    BY <2>1 DEF Parts, SayParts, Accepts, Wanted, Fits
  <2>4. Command(c.kind, Parts(c)) = c
    BY <2>1 DEF Parts, SayParts, Command, Say
  <2> QED BY <2>1, <2>2, <2>3, <2>4 DEF CommandName
<1>2. CASE \E s, n, d, t :
              c = [kind |-> "whisper", source |-> s, seq |-> n, dest |-> d, message |-> t]
  <2>1. PICK s, n, d, t :
              c = [kind |-> "whisper", source |-> s, seq |-> n, dest |-> d, message |-> t]
    BY <1>2
  <2>2. Parts(c) \in Seq({Parts(c)[j] : j \in 1..Len(Parts(c))})
    BY <2>1 DEF Parts, WhisperParts
  <2>3. Accepts(Parts(c), Wanted(c.kind))
    BY <2>1 DEF Parts, WhisperParts, Accepts, Wanted, Fits
  <2>4. Command(c.kind, Parts(c)) = c
    BY <2>1 DEF Parts, WhisperParts, Command, Whisper
  <2> QED BY <2>1, <2>2, <2>3, <2>4 DEF CommandName
<1>3. CASE \E s, n, b : c = [kind |-> "broadcast", source |-> s, seq |-> n, data |-> b]
  <2>1. PICK s, n, b : c = [kind |-> "broadcast", source |-> s, seq |-> n, data |-> b]
    BY <1>3
  <2>2. Parts(c) \in Seq({Parts(c)[j] : j \in 1..Len(Parts(c))})
    BY <2>1 DEF Parts, BroadcastParts
  <2>3. Accepts(Parts(c), Wanted(c.kind))
    BY <2>1 DEF Parts, BroadcastParts, Accepts, Wanted, Fits
  <2>4. Command(c.kind, Parts(c)) = c
    BY <2>1 DEF Parts, BroadcastParts, Command, Broadcast
  <2> QED BY <2>1, <2>2, <2>3, <2>4 DEF CommandName
<1>4. CASE \E s, n, d, b :
              c = [kind |-> "deliver", source |-> s, seq |-> n, dest |-> d, data |-> b]
  <2>1. PICK s, n, d, b :
              c = [kind |-> "deliver", source |-> s, seq |-> n, dest |-> d, data |-> b]
    BY <1>4
  <2>2. Parts(c) \in Seq({Parts(c)[j] : j \in 1..Len(Parts(c))})
    BY <2>1 DEF Parts, DeliverParts
  <2>3. Accepts(Parts(c), Wanted(c.kind))
    BY <2>1 DEF Parts, DeliverParts, Accepts, Wanted, Fits
  <2>4. Command(c.kind, Parts(c)) = c
    BY <2>1 DEF Parts, DeliverParts, Command, Deliver
  <2> QED BY <2>1, <2>2, <2>3, <2>4 DEF CommandName
<1>5. CASE \E s, n, e, f :
              c = [kind |-> "extension", source |-> s, seq |-> n, ext |-> e, payload |-> f]
  <2>1. PICK s, n, e, f :
              c = [kind |-> "extension", source |-> s, seq |-> n, ext |-> e, payload |-> f]
    BY <1>5
  <2>2. Parts(c) \in Seq({Parts(c)[j] : j \in 1..Len(Parts(c))})
    BY <2>1 DEF Parts, ExtensionParts
  <2>3. Accepts(Parts(c), Wanted(c.kind))
    BY <2>1 DEF Parts, ExtensionParts, Accepts, Wanted, Fits
  <2>4. Command(c.kind, Parts(c)) = c
    BY <2>1 DEF Parts, ExtensionParts, Command, Extension
  <2> QED BY <2>1, <2>2, <2>3, <2>4 DEF CommandName
<1>6. CASE \E s, n, i, p :
              c = [kind |-> "register", source |-> s, seq |-> n, ip |-> i, port |-> p]
  <2>1. PICK s, n, i, p :
              c = [kind |-> "register", source |-> s, seq |-> n, ip |-> i, port |-> p]
    BY <1>6
  <2>2. Parts(c) \in Seq({Parts(c)[j] : j \in 1..Len(Parts(c))})
    BY <2>1 DEF Parts, RegisterParts
  <2>3. Accepts(Parts(c), Wanted(c.kind))
    BY <2>1 DEF Parts, RegisterParts, Accepts, Wanted, Fits
  <2>4. Command(c.kind, Parts(c)) = c
    BY <2>1 DEF Parts, RegisterParts, Command, Register
  <2> QED BY <2>1, <2>2, <2>3, <2>4 DEF CommandName
<1>7. CASE \E k \in {"ping", "pong"} : \E s, d, n, t :
              c = [kind |-> k, source |-> s, dest |-> d, seq |-> n, sent_at |-> t]
  <2>a. PICK k \in {"ping", "pong"} : \E s, d, n, t :
              c = [kind |-> k, source |-> s, dest |-> d, seq |-> n, sent_at |-> t]
    BY <1>7
  <2>1. PICK s, d, n, t :
              c = [kind |-> k, source |-> s, dest |-> d, seq |-> n, sent_at |-> t]
    BY <2>a
  <2>2. Parts(c) = <<Text(s), Text(d), Number(n), Number(t)>>
    BY <2>1 DEF Parts, PingParts, PongParts
  <2>3. Parts(c) \in Seq({Parts(c)[i] : i \in 1..Len(Parts(c))})
    BY <2>2
  <2>4. Accepts(Parts(c), Wanted(c.kind))
    <3>1. c.kind \in {"ping", "pong"}
      BY <2>1
    <3> QED BY <2>2, <3>1 DEF Accepts, Wanted, Fits
  <2>5. Command(c.kind, Parts(c)) = c
    BY <2>1, <2>2 DEF Command, Ping, Pong
  <2> QED BY <2>1, <2>3, <2>4, <2>5 DEF CommandName
<1>8. CASE \E s, n, i, p, a, t, x, y : \E q \in Seq(Str) :
              c = [kind |-> "announce", source |-> s, seq |-> n, ip |-> i, port |-> p,
                   available |-> a, city |-> t, lat |-> x, lng |-> y, peers |-> q]
  <2>1. PICK s, n, i, p, a, t, x, y :
              \E q \in Seq(Str) :
                 c = [kind |-> "announce", source |-> s, seq |-> n, ip |-> i, port |-> p,
                      available |-> a, city |-> t, lat |-> x, lng |-> y, peers |-> q]
    BY <1>8
  <2>2. PICK q \in Seq(Str) :
                 c = [kind |-> "announce", source |-> s, seq |-> n, ip |-> i, port |-> p,
                      available |-> a, city |-> t, lat |-> x, lng |-> y, peers |-> q]
    BY <2>1
  <2>3. PICK pf, r : /\ pf = PeersFrame(q) /\ r = Content(pf)
                     /\ Fits(pf, "names")
                     /\ [j \in 1..Len(r) |-> Content(r[j])] = q
    BY PeersRead
  <2>4. Parts(c) = <<Text(s), Number(n), Text(i), Number(p), Number(a), Text(t), Float(x),
                     Float(y), pf>>
    BY <2>2, <2>3 DEF Parts, AnnounceParts
  <2>5. Parts(c) \in Seq({Parts(c)[j] : j \in 1..Len(Parts(c))})
    BY <2>4
  <2>6. Accepts(Parts(c), Wanted(c.kind))
    <3>1. c.kind = "announce"
      BY <2>2
    <3> QED BY <2>3, <2>4, <3>1 DEF Accepts, Wanted, Fits
  <2>7. Command(c.kind, Parts(c)) =
            [kind |-> "announce", source |-> s, seq |-> n, ip |-> i, port |-> p,
             available |-> a, city |-> t, lat |-> x, lng |-> y,
             peers |-> [j \in 1..Len(r) |-> Content(r[j])]]
    <3>1. c.kind = "announce"
      BY <2>2
    <3> QED BY <2>3, <2>4, <3>1 DEF Command, Announce, Names
  <2>8. Command(c.kind, Parts(c)) = c
    BY <2>2, <2>3, <2>7
  <2> QED BY <2>2, <2>5, <2>6, <2>8 DEF CommandName
<1> QED BY <1>1, <1>2, <1>3, <1>4, <1>5, <1>6, <1>7, <1>8 DEF Whole

\* A command that is written is read back.
LEMMA WholeIsRead ==
    ASSUME NEW c, Whole(c)
    PROVE  from_frame(into_frame(c)) = c
<1> DEFINE f == into_frame(c)
<1>1. Tag(f) = "array" /\ Content(f) = <<Text(Spelling[c.kind])>> \o Parts(c)
  BY DEF into_frame, Tag, Content, Array
<1>2. /\ Content(f) # <<>>
      /\ Content(f)[1] = Text(Spelling[c.kind])
      /\ Tail(Content(f)) = Parts(c)
  BY <1>1, PartsRead, TailOfPrefixed
<1>3. HasName(f) /\ KindOf(f) = NameOf[Spelling[c.kind]]
  BY <1>1, <1>2 DEF HasName, KindOf, Tag, Content, Text
<1>4. KindOf(f) = c.kind /\ KindOf(f) # "none"
  <2>1. c.kind \in CommandName
    BY PartsRead
  <2>2. NameOf[Spelling[c.kind]] = c.kind
    BY <2>1, StringAssumption
  <2> QED BY <1>3, <2>1, <2>2 DEF CommandName
<1> QED
  BY <1>2, <1>3, <1>4, PartsRead DEF from_frame

\* What a peer or the tracker reads is the very command that was written.
THEOREM WrittenIsRead == RoundTrip
BY CommandsWhole, WholeIsRead DEF RoundTrip

-----------------------------------------------------------------------------
(* Read, then written again.                                               *)

\* The neighbours read from an announcement are written as they came.
LEMMA PeersWritten ==
    ASSUME NEW f, f = <<Tag(f), Content(f)>>, Fits(f, "names"), IsRow(Content(f))
    PROVE  PeersFrame([i \in 1..Len(Content(f)) |-> Content(Content(f)[i])]) = f
<1> DEFINE r == Content(f)
           names == [i \in 1..Len(r) |-> Content(r[i])]
<1>1. Tag(f) = "array" /\ \A i \in 1..Len(r) : Tag(r[i]) = "text"
  BY DEF Fits
<1>2. r \in Seq({r[i] : i \in 1..Len(r)}) /\ \A i \in 1..Len(r) : r[i] = <<Tag(r[i]), Content(r[i])>>
  BY DEF IsRow
<1>3. Len(names) = Len(r) /\ \A i \in 1..Len(r) : names[i] = Content(r[i])
  BY <1>2
<1>4. \A i \in 1..Len(r) : Text(names[i]) = r[i]
  BY <1>1, <1>2, <1>3 DEF Text
<1>5. [i \in 1..Len(names) |-> Text(names[i])] = [i \in 1..Len(r) |-> r[i]]
  BY <1>3, <1>4
<1>6. [i \in 1..Len(names) |-> Text(names[i])] = r
  BY <1>2, <1>5, SeqIsFunction
<1> QED
  BY <1>1, <1>6 DEF PeersFrame, Array

\* The command the parts p make up is written as p.
LEMMA PartsWritten ==
    ASSUME NEW kind \in CommandName, NEW p, IsRow(p), Accepts(p, Wanted(kind)),
           \A i \in 1..Len(p) : Tag(p[i]) = "array" => IsRow(Content(p[i]))
    PROVE  Command(kind, p).kind = kind /\ Parts(Command(kind, p)) = p
<1>0. p \in Seq({p[i] : i \in 1..Len(p)}) /\ \A i \in 1..Len(p) : p[i] = <<Tag(p[i]), Content(p[i])>>
  BY DEF IsRow
<1>1. CASE kind = "say"
  <2>1. Len(p) = 3 /\ Tag(p[1]) = "text" /\ Tag(p[2]) = "number" /\ Tag(p[3]) = "text"
    BY <1>1 DEF Accepts, Wanted, Fits
  <2>2. p = <<p[1], p[2], p[3]>>
    BY <1>0, <2>1
  <2>a. p[1] = Text(Content(p[1])) /\ p[2] = Number(Content(p[2])) /\ p[3] = Text(Content(p[3]))
    BY <1>0, <2>1 DEF Text, Number, Bulk
  <2>3. p = <<Text(Content(p[1])), Number(Content(p[2])), Text(Content(p[3]))>>
    BY <2>2, <2>a
  <2>4. Command(kind, p).kind = kind
    BY <1>1 DEF Command, Say
  <2>5. Parts(Command(kind, p)) = <<Text(Content(p[1])), Number(Content(p[2])), Text(Content(p[3]))>>
    BY <1>1 DEF Command, Say, Parts, SayParts
  <2> QED
    BY <2>3, <2>4, <2>5
<1>2. CASE kind = "whisper"
  <2>1. Len(p) = 4 /\ Tag(p[1]) = "text" /\ Tag(p[2]) = "number" /\ Tag(p[3]) = "text" /\ Tag(p[4]) = "text"
    BY <1>2 DEF Accepts, Wanted, Fits
  <2>2. p = <<p[1], p[2], p[3], p[4]>>
    BY <1>0, <2>1
  <2>a. p[1] = Text(Content(p[1])) /\ p[2] = Number(Content(p[2])) /\ p[3] = Text(Content(p[3])) /\ p[4] = Text(Content(p[4]))
    BY <1>0, <2>1 DEF Text, Number, Bulk
  <2>3. p = <<Text(Content(p[1])), Number(Content(p[2])), Text(Content(p[3])), Text(Content(p[4]))>>
    BY <2>2, <2>a
  <2>4. Command(kind, p).kind = kind
    BY <1>2 DEF Command, Whisper
  <2>5. Parts(Command(kind, p)) = <<Text(Content(p[1])), Number(Content(p[2])), Text(Content(p[3])), Text(Content(p[4]))>>
    BY <1>2 DEF Command, Whisper, Parts, WhisperParts
  <2> QED
    BY <2>3, <2>4, <2>5
<1>3. CASE kind = "broadcast"
  <2>1. Len(p) = 3 /\ Tag(p[1]) = "text" /\ Tag(p[2]) = "number" /\ Tag(p[3]) = "bulk"
    BY <1>3 DEF Accepts, Wanted, Fits
  <2>2. p = <<p[1], p[2], p[3]>>
    BY <1>0, <2>1
  <2>a. p[1] = Text(Content(p[1])) /\ p[2] = Number(Content(p[2])) /\ p[3] = Bulk(Content(p[3]))
    BY <1>0, <2>1 DEF Text, Number, Bulk
  <2>3. p = <<Text(Content(p[1])), Number(Content(p[2])), Bulk(Content(p[3]))>>
    BY <2>2, <2>a
  <2>4. Command(kind, p).kind = kind
    BY <1>3 DEF Command, Broadcast
  <2>5. Parts(Command(kind, p)) = <<Text(Content(p[1])), Number(Content(p[2])), Bulk(Content(p[3]))>>
    BY <1>3 DEF Command, Broadcast, Parts, BroadcastParts
  <2> QED
    BY <2>3, <2>4, <2>5
<1>4. CASE kind = "deliver"
  <2>1. Len(p) = 4 /\ Tag(p[1]) = "text" /\ Tag(p[2]) = "number" /\ Tag(p[3]) = "text" /\ Tag(p[4]) = "bulk"
    BY <1>4 DEF Accepts, Wanted, Fits
  <2>2. p = <<p[1], p[2], p[3], p[4]>>
    BY <1>0, <2>1
  <2>a. p[1] = Text(Content(p[1])) /\ p[2] = Number(Content(p[2])) /\ p[3] = Text(Content(p[3])) /\ p[4] = Bulk(Content(p[4]))
    BY <1>0, <2>1 DEF Text, Number, Bulk
  <2>3. p = <<Text(Content(p[1])), Number(Content(p[2])), Text(Content(p[3])), Bulk(Content(p[4]))>>
    BY <2>2, <2>a
  <2>4. Command(kind, p).kind = kind
    BY <1>4 DEF Command, Deliver
  <2>5. Parts(Command(kind, p)) = <<Text(Content(p[1])), Number(Content(p[2])), Text(Content(p[3])), Bulk(Content(p[4]))>>
    BY <1>4 DEF Command, Deliver, Parts, DeliverParts
  <2> QED
    BY <2>3, <2>4, <2>5
<1>5. CASE kind = "extension"
  <2>1. Len(p) = 4 /\ Tag(p[1]) = "text" /\ Tag(p[2]) = "number" /\ Tag(p[3]) = "number"
    BY <1>5 DEF Accepts, Wanted, Fits
  <2>2. p = <<p[1], p[2], p[3], p[4]>>
    BY <1>0, <2>1
  <2>a. p[1] = Text(Content(p[1])) /\ p[2] = Number(Content(p[2])) /\ p[3] = Number(Content(p[3]))
    BY <1>0, <2>1 DEF Text, Number, Bulk
  <2>3. p = <<Text(Content(p[1])), Number(Content(p[2])), Number(Content(p[3])), p[4]>>
    BY <2>2, <2>a
  <2>4. Command(kind, p).kind = kind
    BY <1>5 DEF Command, Extension
  <2>5. Parts(Command(kind, p)) = <<Text(Content(p[1])), Number(Content(p[2])), Number(Content(p[3])), p[4]>>
    BY <1>5 DEF Command, Extension, Parts, ExtensionParts
  <2> QED
    BY <2>3, <2>4, <2>5
<1>6. CASE kind = "register"
  <2>1. Len(p) = 4 /\ Tag(p[1]) = "text" /\ Tag(p[2]) = "number" /\ Tag(p[3]) = "text" /\ Tag(p[4]) = "text"
    BY <1>6 DEF Accepts, Wanted, Fits
  <2>2. p = <<p[1], p[2], p[3], p[4]>>
    BY <1>0, <2>1
  <2>a. p[1] = Text(Content(p[1])) /\ p[2] = Number(Content(p[2])) /\ p[3] = Text(Content(p[3])) /\ p[4] = Text(Content(p[4]))
    BY <1>0, <2>1 DEF Text, Number, Bulk
  <2>3. p = <<Text(Content(p[1])), Number(Content(p[2])), Text(Content(p[3])), Text(Content(p[4]))>>
    BY <2>2, <2>a
  <2>4. Command(kind, p).kind = kind
    BY <1>6 DEF Command, Register
  <2>5. Parts(Command(kind, p)) = <<Text(Content(p[1])), Number(Content(p[2])), Text(Content(p[3])), Text(Content(p[4]))>>
    BY <1>6 DEF Command, Register, Parts, RegisterParts
  <2> QED
    BY <2>3, <2>4, <2>5
<1>7. CASE kind \in {"ping", "pong"}
  <2>1. Len(p) = 4 /\ Tag(p[1]) = "text" /\ Tag(p[2]) = "text" /\ Tag(p[3]) = "number" /\ Tag(p[4]) = "number"
    BY <1>7 DEF Accepts, Wanted, Fits
  <2>2. p = <<p[1], p[2], p[3], p[4]>>
    BY <1>0, <2>1
  <2>a. p[1] = Text(Content(p[1])) /\ p[2] = Text(Content(p[2])) /\ p[3] = Number(Content(p[3])) /\ p[4] = Number(Content(p[4]))
    BY <1>0, <2>1 DEF Text, Number, Bulk
  <2>3. p = <<Text(Content(p[1])), Text(Content(p[2])), Number(Content(p[3])), Number(Content(p[4]))>>
    BY <2>2, <2>a
  <2>4. Command(kind, p).kind = kind
    BY <1>7 DEF Command, Ping, Pong
  <2>5. Parts(Command(kind, p)) = <<Text(Content(p[1])), Text(Content(p[2])), Number(Content(p[3])), Number(Content(p[4]))>>
    BY <1>7 DEF Command, Ping, Pong, Parts, PingParts, PongParts
  <2> QED
    BY <2>3, <2>4, <2>5
<1>8. CASE kind = "announce"
  <2>1. /\ Len(p) = 9
        /\ Tag(p[1]) = "text" /\ Tag(p[2]) = "number" /\ Tag(p[3]) = "text"
        /\ Tag(p[4]) = "number" /\ Tag(p[5]) = "number" /\ Tag(p[6]) = "text"
        /\ Tag(p[7]) = "float" /\ Tag(p[8]) = "float" /\ Fits(p[9], "names")
    BY <1>8 DEF Accepts, Wanted, Fits
  <2>2. p = <<p[1], p[2], p[3], p[4], p[5], p[6], p[7], p[8], p[9]>>
    BY <1>0, <2>1
  <2> DEFINE names == Names(p[9])
  <2>3. PeersFrame(names) = p[9]
    <3>1. Tag(p[9]) = "array"
      BY <2>1 DEF Fits
    <3>2. p[9] = <<Tag(p[9]), Content(p[9])>> /\ IsRow(Content(p[9]))
      BY <1>0, <2>1, <3>1
    <3> QED
      BY <2>1, <3>2, PeersWritten DEF Names
  <2>4. Command(kind, p).kind = kind /\ Command(kind, p).peers = names
    BY <1>8 DEF Command, Announce, Names
  <2> DEFINE c == Command(kind, p)
  <2>5. /\ c.source = Content(p[1]) /\ c.seq = Content(p[2]) /\ c.ip = Content(p[3])
        /\ c.port = Content(p[4]) /\ c.available = Content(p[5]) /\ c.city = Content(p[6])
        /\ c.lat = Content(p[7]) /\ c.lng = Content(p[8])
    BY <1>8 DEF Command, Announce, Names
  <2> HIDE DEF names, c
  <2>6. Parts(c) = <<Text(c.source), Number(c.seq), Text(c.ip), Number(c.port),
                     Number(c.available), Text(c.city), Float(c.lat), Float(c.lng),
                     PeersFrame(c.peers)>>
    BY <1>8, <2>4 DEF Parts, AnnounceParts, c
  <2>7. /\ p[1] = Text(c.source) /\ p[2] = Number(c.seq) /\ p[3] = Text(c.ip)
        /\ p[4] = Number(c.port) /\ p[5] = Number(c.available) /\ p[6] = Text(c.city)
        /\ p[7] = Float(c.lat) /\ p[8] = Float(c.lng)
    BY <1>0, <2>1, <2>5 DEF Text, Number, Float
  <2>8. c.peers = names
    BY <2>4 DEF c
  <2>9. Parts(c) = p
    BY <2>2, <2>3, <2>6, <2>7, <2>8
  <2> QED
    BY <2>4, <2>9 DEF c
<1> QED
  BY <1>1, <1>2, <1>3, <1>4, <1>5, <1>6, <1>7, <1>8 DEF CommandName

\* A command is read only from the frame into_frame makes of it: what a peer passes on is
\* what it was sent, part for part.
THEOREM ReadIsWritten == PassedOnWhole
<1> SUFFICES ASSUME NEW parts \in Arriving,
                    from_frame(Array(parts)).kind \in CommandName
             PROVE  into_frame(from_frame(Array(parts))) = AsSent(Array(parts))
  BY DEF PassedOnWhole
<1> DEFINE f == Array(parts)
           p == Tail(parts)
           k == KindOf(f)
<1>1. Tag(f) = "array" /\ Content(f) = parts
  BY DEF Tag, Content, Array
<1>2. HasName(f) /\ k # "none" /\ Accepts(p, Wanted(k)) /\ from_frame(f) = Command(k, p)
  BY <1>1 DEF from_frame, Failed, Unknown, CommandName
<1>3. /\ parts \in Seq({parts[i] : i \in 1..Len(parts)}) /\ parts # <<>>
      /\ \A i \in 1..Len(parts) : parts[i] = <<Tag(parts[i]), Content(parts[i])>>
      /\ \A i \in 1..Len(parts) : Tag(parts[i]) = "array" => IsRow(Content(parts[i]))
  BY <1>1, <1>2, ArrivingAssumption DEF IsRow, HasName
<1>9. Content(parts[1]) \in Str
  <2>1. 1 \in 1..Len(parts)
    BY <1>3
  <2> QED
    BY <1>1, <1>2, <2>1, ArrivingAssumption DEF HasName
<1>4. k \in CommandName
  BY <1>1, <1>2, <1>9, StringAssumption DEF KindOf
<1>5. Len(p) = Len(parts) - 1 /\ \A i \in 1..Len(p) : p[i] = parts[i + 1] /\ i + 1 \in 1..Len(parts)
  BY <1>3
<1>6. IsRow(p)
  <2>1. p \in Seq({p[i] : i \in 1..Len(p)})
    <3>1. p \in Seq({parts[i] : i \in 1..Len(parts)})
      BY <1>3
    <3> QED
      BY <3>1, SeqOfItsElements
  <2> QED
    BY <1>3, <1>5, <2>1 DEF IsRow
<1>7. \A i \in 1..Len(p) : Tag(p[i]) = "array" => IsRow(Content(p[i]))
  BY <1>3, <1>5
<1>8. Command(k, p).kind = k /\ Parts(Command(k, p)) = p
  BY <1>2, <1>4, <1>6, <1>7, PartsWritten
<1> QED
  BY <1>1, <1>2, <1>8 DEF into_frame, AsSent

-----------------------------------------------------------------------------
(* The tracker's list.                                                     *)

\* A peer reads the tracker's list as the tracker wrote it, and never takes a refusal
\* for one.
THEOREM ReplyIsRead == ReplyRead
<1>1. ASSUME NEW list \in Replies
      PROVE  parse_register_response(RandomPeersFrame(list)) = [kind |-> "peers", list |-> list]
  <2> DEFINE f == RandomPeersFrame(list)
             infos == Content(f)
  <2>1. list \in Seq([name : Str, ip : Str, port : Str])
    BY ListAssumption
  <2>2. Tag(f) = "array" /\ infos = [i \in 1..Len(list) |-> PeerInfoFrame(list[i])]
    BY DEF RandomPeersFrame, Tag, Content, Array
  <2>3. Len(infos) = Len(list) /\ \A i \in 1..Len(list) : infos[i] = PeerInfoFrame(list[i])
    BY <2>1, <2>2
  <2>4. ASSUME NEW e \in [name : Str, ip : Str, port : Str]
        PROVE  IsPeerInfo(PeerInfoFrame(e)) /\ PeerInfo(PeerInfoFrame(e)) = e
    <3>1. IsPeerInfo(PeerInfoFrame(e))
      BY DEF IsPeerInfo, PeerInfoFrame, Accepts, Fits, Tag, Content, Array, Text
    <3>2. PeerInfo(PeerInfoFrame(e)) = e
      BY DEF PeerInfo, PeerInfoFrame, Content, Array, Text
    <3> QED
      BY <3>1, <3>2
  <2>5. \A i \in 1..Len(list) : IsPeerInfo(infos[i]) /\ PeerInfo(infos[i]) = list[i]
    <3> SUFFICES ASSUME NEW i \in 1..Len(list)
                 PROVE  IsPeerInfo(infos[i]) /\ PeerInfo(infos[i]) = list[i]
      OBVIOUS
    <3>1. list[i] \in [name : Str, ip : Str, port : Str]
      BY <2>1, ElementOfSeq
    <3>2. infos[i] = PeerInfoFrame(list[i])
      BY <2>3
    <3> HIDE DEF infos
    <3> QED
      BY <2>4, <3>1, <3>2
  <2>6. [i \in 1..Len(infos) |-> PeerInfo(infos[i])] = [i \in 1..Len(list) |-> list[i]]
    BY <2>3, <2>5
  <2>7. [i \in 1..Len(infos) |-> PeerInfo(infos[i])] = list
    BY <2>1, <2>6, SeqIsFunction
  <2> QED
    BY <2>2, <2>3, <2>5, <2>7 DEF parse_register_response
<1>2. ASSUME NEW s \in Str PROVE parse_register_response(Error(s)) = Failed
  BY DEF parse_register_response, Error, Tag
<1> QED
  BY <1>1, <1>2 DEF ReplyRead
=============================================================================
