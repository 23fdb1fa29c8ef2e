-------------------------------- MODULE UiProofs --------------------------------
(* What Ui guarantees for every script, every set of words, any room on the  *)
(* screen and any number of messages from others: what is typed is what is   *)
(* sent, and the list keeps the latest messages.                             *)
EXTENDS Ui, FramesProofs, WellFoundedInduction

USE ScriptAssumption, NumeralAssumption, UiBoundAssumption

-----------------------------------------------------------------------------
(* Sequences.                                                              *)

\* A sequence is a list of its items.
LEMMA SeqIsList ==
    ASSUME NEW S, NEW q \in Seq(S)
    PROVE  IsList(q)
BY SeqOfItsElements DEF IsList

\* One more item at the end.
LEMMA ListAppend ==
    ASSUME NEW q, IsList(q), NEW x
    PROVE  /\ IsList(Append(q, x))
           /\ Len(q) \in Nat /\ Len(Append(q, x)) = Len(q) + 1
           /\ \A i \in 1..Len(q) : Append(q, x)[i] = q[i]
           /\ Append(q, x)[Len(q) + 1] = x
<1> DEFINE E == {q[i] : i \in 1..Len(q)} \cup {x}
<1>1. q \in Seq(E) /\ x \in E
  <2>1. q \in Seq({q[i] : i \in 1..Len(q)})
    BY DEF IsList
  <2>2. \A i \in 1..Len(q) : q[i] \in E
    OBVIOUS
  <2>3. [i \in 1..Len(q) |-> q[i]] \in Seq(E)
    BY <2>1, <2>2
  <2> QED BY <2>1, <2>3, SeqIsFunction
<1> HIDE DEF E
<1>2. /\ Append(q, x) \in Seq(E)
      /\ Len(q) \in Nat /\ Len(Append(q, x)) = Len(q) + 1
      /\ \A i \in 1..Len(q) : Append(q, x)[i] = q[i]
      /\ Append(q, x)[Len(q) + 1] = x
  BY <1>1
<1>3. IsList(Append(q, x))
  BY <1>2, SeqIsList
<1> QED BY <1>2, <1>3

\* Without the first item.
LEMMA ListTail ==
    ASSUME NEW q, IsList(q), q # <<>>
    PROVE  /\ IsList(Tail(q)) /\ Head(q) = q[1]
           /\ Len(q) \in Nat \ {0} /\ Len(Tail(q)) = Len(q) - 1
           /\ \A i \in 1..Len(Tail(q)) : Tail(q)[i] = q[i + 1]
<1> DEFINE E == {q[i] : i \in 1..Len(q)}
<1>1. q \in Seq(E)
  BY DEF IsList
<1> HIDE DEF E
<1>2. /\ Tail(q) \in Seq(E) /\ Head(q) = q[1]
      /\ Len(q) \in Nat \ {0} /\ Len(Tail(q)) = Len(q) - 1
      /\ \A i \in 1..Len(Tail(q)) : Tail(q)[i] = q[i + 1]
  BY <1>1
<1>3. IsList(Tail(q))
  BY <1>2, SeqIsList
<1> QED BY <1>2, <1>3

\* From one of the items, or from behind the last, to the end.
LEMMA ListRest ==
    ASSUME NEW q, IsList(q), NEW n \in 0..Len(q)
    PROVE  LET r == SubSeq(q, n + 1, Len(q))
           IN  /\ IsList(r) /\ Len(r) = Len(q) - n
               /\ \A i \in 1..Len(r) : r[i] = q[n + i]
<1> DEFINE E == {q[i] : i \in 1..Len(q)}
           r == SubSeq(q, n + 1, Len(q))
<1>1. q \in Seq(E)
  BY DEF IsList
<1> HIDE DEF E
<1>2. r \in Seq(E) /\ Len(r) = Len(q) - n /\ \A i \in 1..Len(r) : r[i] = q[n + i]
  BY <1>1
<1> QED BY <1>2, SeqIsList

\* Lists with the same items are the same.
LEMMA SameItems ==
    ASSUME NEW q, IsList(q), NEW r, IsList(r), Len(q) = Len(r),
           \A i \in 1..Len(q) : q[i] = r[i]
    PROVE  q = r
<1>1. /\ [i \in 1..Len(q) |-> q[i]] = q
      /\ [i \in 1..Len(r) |-> r[i]] = r
  BY SeqIsFunction DEF IsList
<1>2. [i \in 1..Len(q) |-> q[i]] = [i \in 1..Len(r) |-> r[i]]
  OBVIOUS
<1> QED BY <1>1, <1>2

\* The rest of a rest.
LEMMA RestOfRest ==
    ASSUME NEW q, IsList(q), NEW n \in 0..Len(q), NEW m \in 0..(Len(q) - n)
    PROVE  LET r == SubSeq(q, n + 1, Len(q))
           IN  SubSeq(r, m + 1, Len(r)) = SubSeq(q, n + m + 1, Len(q))
<1> DEFINE r == SubSeq(q, n + 1, Len(q))
           a == SubSeq(r, m + 1, Len(r))
           b == SubSeq(q, (n + m) + 1, Len(q))
<1>1. IsList(r) /\ Len(r) = Len(q) - n /\ \A i \in 1..Len(r) : r[i] = q[n + i]
  BY ListRest
<1>2. Len(q) \in Nat
  BY DEF IsList
<1>3. m \in 0..Len(r) /\ n + m \in 0..Len(q)
  BY <1>1, <1>2
<1> HIDE DEF r
<1>4. IsList(a) /\ Len(a) = Len(r) - m /\ \A i \in 1..Len(a) : a[i] = r[m + i]
  BY <1>1, <1>3, ListRest
<1>5. IsList(b) /\ Len(b) = Len(q) - (n + m) /\ \A i \in 1..Len(b) : b[i] = q[(n + m) + i]
  BY <1>3, ListRest
<1> HIDE DEF a, b
<1>6. Len(a) = Len(b) /\ \A i \in 1..Len(a) : a[i] = b[i]
  BY <1>1, <1>2, <1>3, <1>4, <1>5
<1>7. a = b
  BY <1>4, <1>5, <1>6, SameItems
<1>8. (n + m) + 1 = n + m + 1
  BY <1>2
<1> QED BY <1>7, <1>8 DEF a, b, r

\* The rest of a list that has one item more.
LEMMA RestOfMore ==
    ASSUME NEW q, IsList(q), NEW n \in 0..Len(q), NEW x
    PROVE  SubSeq(Append(q, x), n + 1, Len(Append(q, x)))
             = Append(SubSeq(q, n + 1, Len(q)), x)
<1> DEFINE r == SubSeq(q, n + 1, Len(q))
           p == Append(q, x)
           a == SubSeq(p, n + 1, Len(p))
           b == Append(r, x)
<1>1. IsList(r) /\ Len(r) = Len(q) - n /\ \A i \in 1..Len(r) : r[i] = q[n + i]
  BY ListRest
<1>2. /\ IsList(p) /\ Len(q) \in Nat /\ Len(p) = Len(q) + 1
      /\ \A i \in 1..Len(q) : p[i] = q[i]
      /\ p[Len(q) + 1] = x
  BY ListAppend
<1> HIDE DEF r, p
<1>3. IsList(a) /\ Len(a) = Len(p) - n /\ \A i \in 1..Len(a) : a[i] = p[n + i]
  BY <1>2, ListRest
<1>4. /\ IsList(b) /\ Len(b) = Len(r) + 1
      /\ \A i \in 1..Len(r) : b[i] = r[i]
      /\ b[Len(r) + 1] = x
  BY <1>1, ListAppend
<1> HIDE DEF a, b
<1>5. Len(a) = Len(b) /\ \A i \in 1..Len(a) : a[i] = b[i]
  <2>1. Len(a) = Len(b)
    BY <1>1, <1>2, <1>3, <1>4
  <2>2. ASSUME NEW i \in 1..Len(a) PROVE a[i] = b[i]
    <3>1. CASE i \in 1..Len(r)
      BY <1>1, <1>2, <1>3, <1>4, <3>1
    <3>2. CASE i = Len(r) + 1
      BY <1>1, <1>2, <1>3, <1>4, <3>2
    <3> QED BY <1>1, <1>2, <1>3, <3>1, <3>2
  <2> QED BY <2>1, <2>2
<1>6. a = b
  BY <1>3, <1>4, <1>5, SameItems
<1> QED BY <1>6 DEF a, b, r, p

-----------------------------------------------------------------------------
(* Types.                                                                  *)

\* The front end is the same all along.
LEMMA FrontStays == [Next]_vars => front' = front
BY DEF Next, Press, KeyTask, Handled, Edit, Browse, Enter, Quit, SimpleLine, ShutDown,
       EndOfInput, Forward, ServerUp, ServerFails, Handle, OtherNumber, Arrive,
       ArriveFancy, ArriveSimple, Draw, DrawStep, CheckShutDown, Lock, Count, Drain, Show,
       vars

\* What the user has typed passes through the channel as it is.
LEMMA InputStep ==
    ASSUME InputOK, TypeOK, [Next]_vars
    PROVE  InputOK'
<1> DEFINE K == Input
<1>1. typed \in Seq(K) /\ events \in Seq(K) /\ entered \in Seq(Seq(Word)) /\ Input' = K
  BY FrontStays DEF InputOK, Input
<1>2. front = "simple" => K = Seq(Word)
  BY DEF Input
<1> HIDE DEF K
<1>3. SUFFICES /\ typed' \in Seq(K) /\ events' \in Seq(K)
               /\ entered' \in Seq(Seq(Word))
  BY <1>1 DEF InputOK
<1>4. /\ <<>> \in Seq(K)
      /\ \A q \in Seq(K) : q # <<>> => Head(q) \in K /\ Tail(q) \in Seq(K)
      /\ \A q \in Seq(K) : \A x \in K : Append(q, x) \in Seq(K)
  OBVIOUS
<1>5. \A x \in Seq(Word) : Append(entered, x) \in Seq(Seq(Word))
  BY <1>1
<1> USE DEF input, app, list, drawing, network, bounds
<1>6. CASE Press
  BY <1>1, <1>4, <1>6 DEF Press
<1>7. CASE Edit \/ Browse
  BY <1>1, <1>4, <1>7 DEF Edit, Browse, Handled, Waiting
<1>8. CASE Enter
  <2>1. entered' = Append(entered, input_string) /\ UNCHANGED typed
        /\ (events' = <<>> \/ events' = Tail(events)) /\ events # <<>>
    BY <1>8 DEF Enter, Waiting, EndKeys, Send
  <2> QED BY <1>1, <1>4, <1>5, <2>1 DEF TypeOK
<1>9. CASE SimpleLine
  <2>1. /\ UNCHANGED entered \/ entered' = Append(entered, Head(events))
        /\ UNCHANGED typed /\ front = "simple"
        /\ (events' = <<>> \/ events' = Tail(events)) /\ events # <<>>
    BY <1>9 DEF SimpleLine, Waiting, EndKeys, Send
  <2>2. Head(events) \in Seq(Word)
    BY <1>1, <1>2, <1>4, <2>1
  <2> QED BY <1>1, <1>4, <1>5, <2>1, <2>2
<1>10. CASE Quit \/ ShutDown \/ EndOfInput
  BY <1>1, <1>4, <1>10 DEF Quit, ShutDown, EndOfInput, EndKeys, Waiting
<1>11. CASE Forward \/ ServerUp \/ ServerFails \/ Handle \/ OtherNumber \/ ArriveFancy \/ ArriveSimple
  BY <1>1, <1>11
     DEF Forward, ServerUp, ServerFails, Handle, OtherNumber, Arrive, ArriveFancy, ArriveSimple
<1>12. CASE Draw
  BY <1>1, <1>12 DEF Draw, DrawStep, CheckShutDown, Lock, Count, Drain, Show
<1>13. CASE UNCHANGED vars
  BY <1>1, <1>13 DEF vars
<1> QED BY <1>6, <1>7, <1>8, <1>9, <1>10, <1>11, <1>12, <1>13 DEF Next, KeyTask

\* Between two of the draw loop's locks the list can only grow.
LEMMA DrawerStep ==
    ASSUME TypeOK, DrawerOK, [Next]_vars
    PROVE  DrawerOK'
<1> USE DEF input, app, list, drawing, network, bounds
<1>0. IsList(messages) /\ IsList(added) /\ Len(messages) \in Nat
  BY DEF DrawerOK, IsList
<1>1. ASSUME UNCHANGED <<messages, added, drawer>> PROVE DrawerOK'
  BY <1>1 DEF DrawerOK, IsList
<1>2. ASSUME NEW m, Add(m), UNCHANGED drawer PROVE DrawerOK'
  <2>1. /\ IsList(messages') /\ IsList(added')
        /\ Len(messages') = Len(messages) + 1
    BY <1>0, <1>2, ListAppend DEF Add
  <2>2. DrawerOK!2' /\ DrawerOK!3'
    BY <1>0, <1>2, <2>1 DEF DrawerOK
  <2> QED BY <2>1, <2>2 DEF DrawerOK, IsList
<1>3. CASE Press \/ Edit \/ Browse \/ Quit \/ SimpleLine \/ ShutDown \/ EndOfInput
           \/ Forward \/ ServerUp \/ ServerFails \/ Handle \/ OtherNumber \/ ArriveSimple
  BY <1>1, <1>3
     DEF Press, Edit, Browse, Handled, Quit, SimpleLine, ShutDown, EndOfInput, Forward,
         ServerUp, ServerFails, Handle, OtherNumber, Arrive, ArriveSimple
<1>4. CASE Enter
  BY <1>2, <1>4 DEF Enter
<1>5. CASE ArriveFancy
  BY <1>2, <1>5 DEF ArriveFancy, Arrive
<1>6. CASE CheckShutDown \/ Lock \/ Show
  <2>1. /\ UNCHANGED <<messages, added>>
        /\ drawer'.pc \in {"exited", "lock", "count", "show", "check"}
        /\ drawer'.pc = "count" => Lines < Len(messages)
    BY <1>6 DEF CheckShutDown, Lock, Show, DrawStep, TypeOK
  <2> QED BY <1>0, <2>1 DEF DrawerOK, IsList
<1>7. CASE Count
  <2>1. /\ UNCHANGED <<messages, added>> /\ Lines < Len(messages)
        /\ drawer' = [pc |-> "drain", n |-> Len(messages) - Lines]
    BY <1>7 DEF Count, DrawerOK
  <2>2. drawer'.pc = "drain" /\ drawer'.n \in 1..(Len(messages') - Lines)
    BY <1>0, <2>1
  <2> QED BY <1>0, <2>1, <2>2 DEF DrawerOK, IsList
<1>8. CASE Drain
  <2>1. /\ messages' = SubSeq(messages, drawer.n + 1, Len(messages)) /\ UNCHANGED added
        /\ drawer'.pc = "show" /\ drawer.n \in 0..Len(messages)
    BY <1>0, <1>8 DEF Drain, DrawStep, Drained, TypeOK, DrawerOK
  <2>2. IsList(messages')
    BY <1>0, <2>1, ListRest
  <2> QED BY <1>0, <2>1, <2>2 DEF DrawerOK, IsList
<1>9. CASE UNCHANGED vars
  BY <1>1, <1>9 DEF vars
<1> QED BY <1>3, <1>4, <1>5, <1>6, <1>7, <1>8, <1>9 DEF Next, KeyTask, Draw

\* Every step keeps every variable in its type.
LEMMA TypeStep ==
    ASSUME TypeOK, InputOK, DrawerOK, [Next]_vars
    PROVE  TypeOK'
<1> USE DEF input, app, list, drawing, network, bounds, TypeOK
<1>1. CASE Press \/ Quit \/ ShutDown \/ EndOfInput
  BY <1>1 DEF Press, Quit, ShutDown, EndOfInput, EndKeys
<1>2. CASE Edit
  <2>1. /\ \A k \in Word : Append(input_string, k) \in Seq(Word)
        /\ <<>> \in Seq(Word)
        /\ input_string # <<>> => Front(input_string) \in Seq(Word)
    <3>1. ASSUME input_string # <<>> PROVE Front(input_string) \in Seq(Word)
      <4>1. Len(input_string) \in Nat
            /\ \A i \in 1..Len(input_string) - 1 : input_string[i] \in Word
        OBVIOUS
      <4> QED BY <4>1 DEF Front
    <3> QED BY <3>1
  <2>2. input_string' \in Seq(Word) /\ input_mode' \in {"Normal", "Editing"}
    BY <1>2, <2>1 DEF Edit
  <2>3. UNCHANGED <<front, keys, shut_down, active_menu_item, drawer, forward, network, bounds>>
    BY <1>2 DEF Edit, Handled
  <2> QED BY <2>2, <2>3
<1>3. CASE Browse
  BY <1>3 DEF Browse, Handled
<1>4. CASE Enter
  <2>1. <<>> \in Seq(Word)
    OBVIOUS
  <2> QED BY <1>4, <2>1 DEF Enter, EndKeys, Send
<1>5. CASE SimpleLine
  BY <1>5 DEF SimpleLine, EndKeys, Send
<1>6. CASE Forward \/ ServerUp \/ ServerFails \/ Handle
  BY <1>6 DEF Forward, ServerUp, ServerFails, Handle
<1>7. CASE OtherNumber \/ ArriveFancy \/ ArriveSimple
  BY <1>7 DEF OtherNumber, Arrive, ArriveFancy, ArriveSimple
<1>8. CASE CheckShutDown \/ Lock \/ Drain \/ Show
  BY <1>8 DEF CheckShutDown, Lock, Drain, Show, DrawStep
<1>9. CASE Count
  <2>1. Len(messages) - Lines \in Nat
    BY <1>9 DEF Count, DrawerOK, IsList
  <2> QED BY <1>9, <2>1 DEF Count
<1>10. CASE UNCHANGED vars
  BY <1>10 DEF vars
<1> QED BY <1>1, <1>2, <1>3, <1>4, <1>5, <1>6, <1>7, <1>8, <1>9, <1>10
        DEF Next, KeyTask, Draw

-----------------------------------------------------------------------------
(* The messages on the screen.                                             *)

\* Whatever is added meanwhile, what is drained is the oldest that do not fit.
LEMMA KeptStep ==
    ASSUME TypeOK, DrawerOK, LatestKept, [Next]_vars
    PROVE  LatestKept'
<1> USE DEF input, app, list, drawing, network, bounds
<1>0. /\ IsList(messages) /\ IsList(added)
      /\ Len(messages) \in Nat /\ Len(added) \in Nat
  BY DEF DrawerOK, IsList
<1>1. PICK n \in 0..Len(added) :
          /\ messages = SubSeq(added, n + 1, Len(added))
          /\ n > 0 => Len(messages) >= Lines
  BY DEF LatestKept
<1>2. ASSUME UNCHANGED <<messages, added>> PROVE LatestKept'
  BY <1>1, <1>2 DEF LatestKept
<1>3. ASSUME NEW m, Add(m) PROVE LatestKept'
  <2>1. /\ messages' = SubSeq(added', n + 1, Len(added'))
        /\ Len(messages') = Len(messages) + 1 /\ Len(added') = Len(added) + 1
    BY <1>0, <1>1, <1>3, RestOfMore, ListAppend DEF Add
  <2>2. n \in 0..Len(added') /\ (n > 0 => Len(messages') >= Lines)
    BY <1>0, <1>1, <2>1
  <2> QED BY <2>1, <2>2 DEF LatestKept
<1>4. CASE Drain
  <2>1. /\ messages' = SubSeq(messages, drawer.n + 1, Len(messages)) /\ UNCHANGED added
        /\ drawer.n \in 1..(Len(messages) - Lines)
    BY <1>4 DEF Drain, DrawStep, Drained, DrawerOK
  <2>2. Len(messages) = Len(added) - n
    BY <1>0, <1>1, ListRest
  <2>3. /\ drawer.n \in 0..Len(messages) /\ drawer.n \in 0..(Len(added) - n)
        /\ n + drawer.n \in 0..Len(added)
    BY <1>0, <2>1, <2>2
  <2>4. messages' = SubSeq(added, n + drawer.n + 1, Len(added))
    BY <1>0, <1>1, <2>1, <2>3, RestOfRest
  <2>5. Len(messages') = Len(messages) - drawer.n
    BY <1>0, <2>1, <2>3, ListRest
  <2>6. Len(messages') >= Lines
    BY <1>0, <2>1, <2>5
  <2> QED BY <2>1, <2>3, <2>4, <2>6 DEF LatestKept
<1>5. CASE Enter
  BY <1>3, <1>5 DEF Enter
<1>6. CASE ArriveFancy
  BY <1>3, <1>6 DEF ArriveFancy
<1>7. CASE Press \/ Edit \/ Browse \/ Quit \/ SimpleLine \/ ShutDown \/ EndOfInput
           \/ Forward \/ ServerUp \/ ServerFails \/ Handle \/ OtherNumber \/ ArriveSimple
  BY <1>2, <1>7
     DEF Press, Edit, Browse, Handled, Quit, SimpleLine, ShutDown, EndOfInput, Forward,
         ServerUp, ServerFails, Handle, OtherNumber, Arrive, ArriveSimple
<1>8. CASE CheckShutDown \/ Lock \/ Show \/ Count
  BY <1>2, <1>8 DEF CheckShutDown, Lock, Show, Count, DrawStep
<1>9. CASE UNCHANGED vars
  BY <1>2, <1>9 DEF vars
<1> QED BY <1>4, <1>5, <1>6, <1>7, <1>8, <1>9 DEF Next, KeyTask, Draw

\* At the start the lists are empty.
LEMMA EmptyIsList == IsList(<<>>) /\ Len(<<>>) = 0
<1>1. <<>> \in Seq({}) /\ Len(<<>>) = 0
  OBVIOUS
<1> QED BY <1>1, SeqIsList

LEMMA ScreenStarts == Init => TypeOK /\ InputOK /\ DrawerOK /\ LatestKept
<1> SUFFICES ASSUME Init PROVE TypeOK /\ InputOK /\ DrawerOK /\ LatestKept
  OBVIOUS
<1>1. TypeOK
  <2>1. <<>> \in Seq(Word)
    OBVIOUS
  <2>2. front \in {"fancy", "simple"}
    BY DEF Init
  <2>3. drawer \in [pc : {"check", "lock", "count", "drain", "show", "exited"}, n : Nat]
    BY DEF Init
  <2>4. arrivals \in 0..MaxArrivals /\ others \in 0..MaxOther
    BY DEF Init
  <2>5. /\ keys = "reading" /\ input_mode = "Normal" /\ active_menu_item = "Home"
        /\ input_string = <<>> /\ shut_down = FALSE
        /\ forward = "running" /\ server = "starting" /\ sequence_number = 0
    BY DEF Init
  <2> QED BY <2>1, <2>2, <2>3, <2>4, <2>5 DEF TypeOK
<1>2. InputOK
  BY DEF Init, InputOK, Input
<1>3. DrawerOK
  BY EmptyIsList DEF Init, DrawerOK
<1>4. LatestKept
  <2>1. SubSeq(<<>>, 1, 0) = <<>>
    OBVIOUS
  <2> QED BY <2>1 DEF Init, LatestKept
<1> QED BY <1>1, <1>2, <1>3, <1>4

-----------------------------------------------------------------------------
(* Reading a line.                                                         *)

\* A set of numbers has a least.
LEMMA Least ==
    ASSUME NEW T \in SUBSET Nat, T # {}
    PROVE  \E x \in T : \A y \in T : x <= y
<1> DEFINE R == {ss \in Nat \X Nat : ss[1] < ss[2]}
<1>1. IsWellFoundedOn(R, Nat)
  BY NatLessThanWellFounded DEF OpToRel
<1>2. PICK x \in T : \A y \in T : <<y, x>> \notin R
  BY <1>1, WFMin
<1>3. ASSUME NEW y \in T PROVE x <= y
  <2>1. <<y, x>> \in Nat \X Nat /\ <<y, x>>[1] = y /\ <<y, x>>[2] = x
    OBVIOUS
  <2> QED BY <1>2, <2>1
<1> QED BY <1>3

\* A line with a command's prefix is the prefix and what follows.
LEMMA PrefixOfLine ==
    ASSUME NEW line \in Seq(Word), NEW w, Prefixed(line, w)
    PROVE  After(line) \in Seq(Word) /\ line = <<w, Space>> \o After(line)
<1>1. Len(line) \in Nat /\ Len(line) >= 2 /\ line[1] = w /\ line[2] = Space
  BY DEF Prefixed
<1>2. SubSeq(line, 3, Len(line)) \in Seq(Word)
  BY <1>1
<1>3. w \in Word /\ Space \in Word
  BY <1>1
<1>4. line = <<w, Space>> \o SubSeq(line, 3, Len(line))
  BY <1>1, <1>2, <1>3
<1> QED BY <1>2, <1>4 DEF After

\* A text is split at its first space.
LEMMA SplitAtSpace ==
    ASSUME NEW t \in Seq(Word), Spaces(t) # {}
    PROVE  /\ Before(t) \in Seq(Word) /\ Behind(t) \in Seq(Word)
           /\ Space \notin ToSet(Before(t))
           /\ t = Before(t) \o <<Space>> \o Behind(t)
<1> DEFINE f == FirstSpace(t)
<1>1. f \in Spaces(t) /\ \A j \in Spaces(t) : f <= j
  <2>1. Spaces(t) \subseteq Nat
    BY DEF Spaces
  <2>2. \E i \in Spaces(t) : \A j \in Spaces(t) : i <= j
    BY <2>1, Least
  <2> QED BY <2>2 DEF FirstSpace
<1>2. Len(t) \in Nat /\ f \in 1..Len(t) /\ t[f] = Space
  BY <1>1 DEF Spaces
<1>3. \A i \in 1..(f - 1) : t[i] # Space
  <2> SUFFICES ASSUME NEW i \in 1..(f - 1), t[i] = Space PROVE FALSE
    OBVIOUS
  <2>1. i \in Spaces(t)
    BY <1>2 DEF Spaces
  <2> QED BY <1>1, <1>2, <2>1
<1> HIDE DEF f
<1> DEFINE a == SubSeq(t, 1, f - 1)
           b == SubSeq(t, f + 1, Len(t))
<1>4. /\ a \in Seq(Word) /\ Len(a) = f - 1
      /\ \A i \in 1..Len(a) : a[i] = t[i]
  BY <1>2
<1>5. /\ b \in Seq(Word) /\ Len(b) = Len(t) - f
      /\ \A i \in 1..Len(b) : b[i] = t[f + i]
  BY <1>2
<1>6. Space \in Word
  BY <1>2
<1> HIDE DEF a, b
<1>7. Space \notin ToSet(a)
  BY <1>2, <1>3, <1>4 DEF ToSet
<1>8. t = a \o <<Space>> \o b
  <2> DEFINE s == a \o <<Space>>
             r == s \o b
  <2>1. /\ s \in Seq(Word) /\ Len(s) = f
        /\ \A i \in 1..(f - 1) : s[i] = t[i]
        /\ s[f] = t[f]
    BY <1>2, <1>4, <1>6
  <2> HIDE DEF s
  <2>2. /\ r \in Seq(Word) /\ Len(r) = Len(s) + Len(b)
        /\ \A i \in 1..Len(s) : r[i] = s[i]
        /\ \A i \in 1..Len(b) : r[Len(s) + i] = b[i]
    <3>1. s \in Seq(Word) /\ b \in Seq(Word)
      BY <1>5, <2>1
    <3>2. r \in Seq(Word) /\ Len(r) = Len(s) + Len(b)
      BY <3>1
    <3>3. \A i \in 1..Len(s) : r[i] = s[i]
      BY <3>1
    <3>4. ASSUME NEW i \in 1..Len(b) PROVE r[Len(s) + i] = b[i]
      BY <3>1
    <3> QED BY <3>2, <3>3, <3>4
  <2> HIDE DEF r
  <2>3. Len(r) = Len(t)
    BY <1>2, <1>5, <2>1, <2>2
  <2>4. ASSUME NEW i \in 1..Len(t) PROVE r[i] = t[i]
    <3>1. CASE i \in 1..f
      BY <1>2, <2>1, <2>2, <3>1
    <3>2. CASE i \in (f + 1)..Len(t)
      <4>1. i - f \in 1..Len(b) /\ i = f + (i - f)
        BY <1>2, <1>5, <3>2
      <4>2. r[Len(s) + (i - f)] = b[i - f] /\ b[i - f] = t[f + (i - f)]
        BY <1>5, <2>2, <4>1
      <4>3. Len(s) = f
        BY <2>1
      <4> QED BY <4>1, <4>2, <4>3
    <3> QED BY <1>2, <3>1, <3>2
  <2>5. IsList(t) /\ IsList(r)
    BY <2>2, SeqIsList
  <2>6. t = r
    BY <2>3, <2>4, <2>5, SameItems
  <2> QED BY <2>6 DEF r, s
<1> QED BY <1>4, <1>5, <1>7, <1>8 DEF a, b, f, Before, Behind

\* What the handler makes of a line's message, kind by kind.
LEMMA NumberedFields ==
    /\ \A t, n : With(Called([kind |-> "say", message |-> t]), "seq", n)
                  = [kind |-> "say", source |-> Me, seq |-> n, message |-> t]
    /\ \A d, t, n : With(Called([kind |-> "whisper", dest |-> d, message |-> t]), "seq", n)
                  = [kind |-> "whisper", source |-> Me, seq |-> n, dest |-> d, message |-> t]
    /\ \A d, t, n : With(Called([kind |-> "ping", dest |-> d, sent_at |-> t]), "seq", n)
                  = [kind |-> "ping", source |-> Me, seq |-> n, dest |-> d, sent_at |-> t]
    /\ \A d, t, n : With(Called([kind |-> "deliver", dest |-> d, data |-> t]), "seq", n)
                  = [kind |-> "deliver", source |-> Me, seq |-> n, dest |-> d, data |-> t]
    /\ \A t, n : With(Called([kind |-> "broadcast", data |-> t]), "seq", n)
                  = [kind |-> "broadcast", source |-> Me, seq |-> n, data |-> t]
    /\ \A e, t, n : With(Called([kind |-> "extension", ext |-> e, payload |-> t]), "seq", n)
                  = [kind |-> "extension", source |-> Me, seq |-> n, ext |-> e,
                     payload |-> Text(t)]
<1>1. ASSUME NEW t, NEW n
      PROVE  With(Called([kind |-> "say", message |-> t]), "seq", n)
               = [kind |-> "say", source |-> Me, seq |-> n, message |-> t]
  <2>1. Called([kind |-> "say", message |-> t]) = [kind |-> "say", message |-> t, source |-> Me]
    BY DEF Called, With
  <2>2. With([kind |-> "say", message |-> t, source |-> Me], "seq", n) = [kind |-> "say", source |-> Me, seq |-> n, message |-> t]
    BY DEF With
  <2> QED BY <2>1, <2>2
<1>2. ASSUME NEW d, NEW t, NEW n
      PROVE  With(Called([kind |-> "whisper", dest |-> d, message |-> t]), "seq", n)
               = [kind |-> "whisper", source |-> Me, seq |-> n, dest |-> d, message |-> t]
  <2>1. Called([kind |-> "whisper", dest |-> d, message |-> t]) = [kind |-> "whisper", dest |-> d, message |-> t, source |-> Me]
    BY DEF Called, With
  <2>2. With([kind |-> "whisper", dest |-> d, message |-> t, source |-> Me], "seq", n) = [kind |-> "whisper", source |-> Me, seq |-> n, dest |-> d, message |-> t]
    BY DEF With
  <2> QED BY <2>1, <2>2
<1>3. ASSUME NEW d, NEW t, NEW n
      PROVE  With(Called([kind |-> "ping", dest |-> d, sent_at |-> t]), "seq", n)
               = [kind |-> "ping", source |-> Me, seq |-> n, dest |-> d, sent_at |-> t]
  <2>1. Called([kind |-> "ping", dest |-> d, sent_at |-> t]) = [kind |-> "ping", dest |-> d, sent_at |-> t, source |-> Me]
    BY DEF Called, With
  <2>2. With([kind |-> "ping", dest |-> d, sent_at |-> t, source |-> Me], "seq", n) = [kind |-> "ping", source |-> Me, seq |-> n, dest |-> d, sent_at |-> t]
    BY DEF With
  <2> QED BY <2>1, <2>2
<1>4. ASSUME NEW d, NEW t, NEW n
      PROVE  With(Called([kind |-> "deliver", dest |-> d, data |-> t]), "seq", n)
               = [kind |-> "deliver", source |-> Me, seq |-> n, dest |-> d, data |-> t]
  <2>1. Called([kind |-> "deliver", dest |-> d, data |-> t]) = [kind |-> "deliver", dest |-> d, data |-> t, source |-> Me]
    BY DEF Called, With
  <2>2. With([kind |-> "deliver", dest |-> d, data |-> t, source |-> Me], "seq", n) = [kind |-> "deliver", source |-> Me, seq |-> n, dest |-> d, data |-> t]
    BY DEF With
  <2> QED BY <2>1, <2>2
<1>5. ASSUME NEW t, NEW n
      PROVE  With(Called([kind |-> "broadcast", data |-> t]), "seq", n)
               = [kind |-> "broadcast", source |-> Me, seq |-> n, data |-> t]
  <2>1. Called([kind |-> "broadcast", data |-> t]) = [kind |-> "broadcast", data |-> t, source |-> Me]
    BY DEF Called, With
  <2>2. With([kind |-> "broadcast", data |-> t, source |-> Me], "seq", n) = [kind |-> "broadcast", source |-> Me, seq |-> n, data |-> t]
    BY DEF With
  <2> QED BY <2>1, <2>2
<1>6. ASSUME NEW e, NEW t, NEW n
      PROVE  With(Called([kind |-> "extension", ext |-> e, payload |-> t]), "seq", n)
               = [kind |-> "extension", source |-> Me, seq |-> n, ext |-> e, payload |-> Text(t)]
  <2>1. Called([kind |-> "extension", ext |-> e, payload |-> t]) = [kind |-> "extension", ext |-> e, payload |-> Text(t), source |-> Me]
    BY DEF Called, With
  <2>2. With([kind |-> "extension", ext |-> e, payload |-> Text(t), source |-> Me], "seq", n) = [kind |-> "extension", source |-> Me, seq |-> n, ext |-> e, payload |-> Text(t)]
    BY DEF With
  <2> QED BY <2>1, <2>2
<1> QED BY <1>1, <1>2, <1>3, <1>4, <1>5, <1>6

\* A whisper's or a packet's line is its name, the space, and the text split at the next.
LEMMA SplitLine ==
    ASSUME NEW line \in Seq(Word), NEW w, Prefixed(line, w), ~ Unsplit(line, w)
    PROVE  LET t == After(line)
           IN  /\ Spaces(t) # {}
               /\ Space \notin ToSet(Before(t))
               /\ line = <<w, Space>> \o Before(t) \o <<Space>> \o Behind(t)
<1> DEFINE t == After(line)
<1>1. t \in Seq(Word) /\ line = <<w, Space>> \o t
  BY PrefixOfLine
<1>2. Spaces(t) # {}
  BY DEF Unsplit
<1>3. /\ Before(t) \in Seq(Word) /\ Behind(t) \in Seq(Word)
      /\ Space \notin ToSet(Before(t))
      /\ t = Before(t) \o <<Space>> \o Behind(t)
  BY <1>1, <1>2, SplitAtSpace
<1>4. w \in Word /\ Space \in Word
  BY DEF Prefixed
<1>5. ASSUME NEW a \in Seq(Word), NEW b \in Seq(Word)
      PROVE  <<w, Space>> \o (a \o <<Space>> \o b) = <<w, Space>> \o a \o <<Space>> \o b
  BY <1>4
<1> HIDE DEF t
<1>6. line = <<w, Space>> \o Before(t) \o <<Space>> \o Behind(t)
  <2>1. line = <<w, Space>> \o (Before(t) \o <<Space>> \o Behind(t))
    BY ONLY <1>1, <1>3, Zenon
  <2>2. <<w, Space>> \o (Before(t) \o <<Space>> \o Behind(t))
          = <<w, Space>> \o Before(t) \o <<Space>> \o Behind(t)
    BY ONLY <1>3, <1>5, Zenon
  <2> QED BY ONLY <2>1, <2>2, Zenon
<1> QED BY <1>2, <1>3, <1>6 DEF t

\* The extension's number is the word behind the name.
LEMMA SplitExtension ==
    ASSUME NEW line \in Seq(Word), Prefixed(line, "/extension"),
           Spaces(After(line)) # {}, IsNumber(Before(After(line)))
    PROVE  LET t == After(line)
               w == Before(t)[1]
           IN  /\ w \in DOMAIN Numeral
               /\ line = <<"/extension", Space, w, Space>> \o Behind(t)
<1> DEFINE t == After(line)
           b == Before(t)
           w == b[1]
<1>1. ~ Unsplit(line, "/extension")
  BY DEF Unsplit
<1>2. line = <<"/extension", Space>> \o b \o <<Space>> \o Behind(t)
  BY <1>1, SplitLine
<1>3. t \in Seq(Word)
  BY PrefixOfLine
<1>4. b \in Seq(Word) /\ Behind(t) \in Seq(Word)
  BY <1>3, SplitAtSpace
<1>5. Len(b) = 1 /\ w \in DOMAIN Numeral
  BY DEF IsNumber
<1>6. "/extension" \in Word /\ Space \in Word
  BY DEF Prefixed
<1> HIDE DEF b
<1>7. b = <<w>> /\ w \in Word
  BY <1>4, <1>5
<1> HIDE DEF w
<1>8. ASSUME NEW r \in Seq(Word)
      PROVE  <<"/extension", Space>> \o <<w>> \o <<Space>> \o r
               = <<"/extension", Space, w, Space>> \o r
  BY <1>6, <1>7
<1>9. line = <<"/extension", Space, w, Space>> \o Behind(t)
  BY ONLY <1>2, <1>4, <1>7, <1>8, Zenon
<1> QED BY <1>5, <1>9 DEF w, b, t

\* An extension that has its number is not taken for one that lacks it.
LEMMA NumberFound ==
    ASSUME NEW line \in Seq(Word), Prefixed(line, "/extension"), NumberedExtension(line)
    PROVE  Spaces(After(line)) # {} /\ IsNumber(Before(After(line)))
<1> DEFINE t == After(line)
<1>1. t \in Seq(Word) /\ line = <<"/extension", Space>> \o t
  BY PrefixOfLine
<1>2. Len(line) \in Nat /\ Len(line) >= 4 /\ line[3] \in DOMAIN Numeral /\ line[4] = Space
  BY DEF NumberedExtension
<1>3. Len(t) >= 2 /\ t[1] = line[3] /\ t[2] = Space
  BY <1>2 DEF After
<1> HIDE DEF t
<1>4. t[1] # Space
  BY <1>2, <1>3, SpaceAssumption
<1>5. 2 \in Spaces(t) /\ \A j \in Spaces(t) : 2 <= j
  BY <1>1, <1>3, <1>4 DEF Spaces
<1>6. FirstSpace(t) = 2
  <2>1. /\ FirstSpace(t) \in Spaces(t)
        /\ \A j \in Spaces(t) : FirstSpace(t) <= j
    BY <1>5 DEF FirstSpace
  <2>2. FirstSpace(t) \in Int
    BY <1>1, <2>1 DEF Spaces
  <2> QED BY <1>5, <2>1, <2>2
<1>7. Len(Before(t)) = 1 /\ Before(t)[1] = t[1]
  BY <1>1, <1>3, <1>6 DEF Before
<1> QED BY <1>2, <1>3, <1>5, <1>7 DEF IsNumber, t

\* A line of one of the two commands that the fancy front end does not know is said.
LEMMA MisreadIsSaid ==
    ASSUME NEW line \in Seq(Word), Misread(line), NEW n
    PROVE  LET c == Numbered(front, line, n)
           IN  /\ Whole(c) /\ c.seq = n /\ c.source = Me
               /\ c.kind = "say" /\ c.message = line
<1> DEFINE c == Numbered(front, line, n)
<1>1. front = "fancy" /\ (Prefixed(line, "/say") \/ Prefixed(line, "/broadcast"))
  BY DEF Misread
<1>2. Message(front, line) = [kind |-> "say", message |-> line]
  BY <1>1 DEF Message, FancyMessage, Prefixed
<1>3. c = [kind |-> "say", source |-> Me, seq |-> n, message |-> line]
  BY <1>2, NumberedFields DEF Numbered
<1> SUFFICES Whole(c) /\ c.seq = n /\ c.source = Me /\ c.kind = "say" /\ c.message = line
  OBVIOUS
<1> HIDE DEF c
<1> QED BY <1>3 DEF Whole

\* Any other line the task can read becomes a command that is read back as it was numbered,
\* and that the line asks for.
LEMMA LineIsAskedFor ==
    ASSUME NEW line \in Seq(Word), ~ Panics(front, line), ~ Misread(line), NEW n,
           front \in {"fancy", "simple"}
    PROVE  LET c == Numbered(front, line, n)
           IN  Whole(c) /\ c.seq = n /\ c.source = Me /\ AsksFor(line, c)
<1> DEFINE c == Numbered(front, line, n)
           t == After(line)
           m == Message(front, line)
           Goal == Whole(c) /\ c.seq = n /\ c.source = Me /\ AsksFor(line, c)
<1>1. c = With(Called(m), "seq", n)
  BY DEF Numbered
<1> SUFFICES Goal
  OBVIOUS
<1> HIDE DEF m
<1>2. ASSUME NEW x, m = [kind |-> "say", message |-> x],
             \/ line = x /\ \A w \in Slash : ~ Prefixed(line, w)
             \/ line = <<"/say", Space>> \o x
      PROVE  Goal
  <2>1. c = [kind |-> "say", source |-> Me, seq |-> n, message |-> x]
    BY <1>1, <1>2, NumberedFields
  <2> HIDE DEF c
  <2>2. AsksFor(line, c)
    BY <1>2, <2>1 DEF AsksFor
  <2> QED BY <2>1, <2>2 DEF Whole
<1>3. ASSUME m = [kind |-> "ping", dest |-> t, sent_at |-> Now],
             line = <<"/ping", Space>> \o t
      PROVE  Goal
  <2>1. c = [kind |-> "ping", source |-> Me, seq |-> n, dest |-> t, sent_at |-> Now]
    BY <1>1, <1>3, NumberedFields
  <2> HIDE DEF c
  <2>2. AsksFor(line, c)
    BY <1>3, <2>1 DEF AsksFor
  <2> QED BY <2>1, <2>2 DEF Whole
<1>4. ASSUME m = [kind |-> "whisper", dest |-> Before(t), message |-> Behind(t)],
             Prefixed(line, "/whisper"), ~ Unsplit(line, "/whisper")
      PROVE  Goal
  <2>1. c = [kind |-> "whisper", source |-> Me, seq |-> n, dest |-> Before(t),
             message |-> Behind(t)]
    BY <1>1, <1>4, NumberedFields
  <2>2. /\ Space \notin ToSet(Before(t))
        /\ line = <<"/whisper", Space>> \o Before(t) \o <<Space>> \o Behind(t)
    BY <1>4, SplitLine
  <2> HIDE DEF c
  <2>3. AsksFor(line, c)
    BY <2>1, <2>2 DEF AsksFor
  <2> QED BY <2>1, <2>3 DEF Whole
<1>5. ASSUME m = [kind |-> "deliver", dest |-> Before(t), data |-> as_bytes(Behind(t))],
             Prefixed(line, "/deliver"), ~ Unsplit(line, "/deliver")
      PROVE  Goal
  <2>1. c = [kind |-> "deliver", source |-> Me, seq |-> n, dest |-> Before(t),
             data |-> as_bytes(Behind(t))]
    BY <1>1, <1>5, NumberedFields
  <2>2. /\ Space \notin ToSet(Before(t))
        /\ line = <<"/deliver", Space>> \o Before(t) \o <<Space>> \o Behind(t)
    BY <1>5, SplitLine
  <2> HIDE DEF c
  <2>3. c.data[2] = Behind(t)
    BY <2>1 DEF as_bytes
  <2>4. AsksFor(line, c)
    BY <2>1, <2>2, <2>3 DEF AsksFor
  <2> QED BY <2>1, <2>4 DEF Whole
<1>6. ASSUME m = [kind |-> "broadcast", data |-> as_bytes(t)],
             line = <<"/broadcast", Space>> \o t
      PROVE  Goal
  <2>1. c = [kind |-> "broadcast", source |-> Me, seq |-> n, data |-> as_bytes(t)]
    BY <1>1, <1>6, NumberedFields
  <2> HIDE DEF c
  <2>2. c.data[2] = t
    BY <2>1 DEF as_bytes
  <2>3. AsksFor(line, c)
    BY <1>6, <2>1, <2>2 DEF AsksFor
  <2> QED BY <2>1, <2>3 DEF Whole
<1>7. ASSUME NEW e, NEW x, m = [kind |-> "extension", ext |-> e, payload |-> x],
             \/ \E w \in DOMAIN Numeral :
                   Numeral[w] = e /\ line = <<"/extension", Space, w, Space>> \o x
             \/ e = 0 /\ Prefixed(line, "/extension") /\ ~ NumberedExtension(line)
      PROVE  Goal
  <2>1. c = [kind |-> "extension", source |-> Me, seq |-> n, ext |-> e,
             payload |-> Text(x)]
    BY <1>1, <1>7, NumberedFields
  <2> HIDE DEF c
  <2>2. Content(c.payload) = x
    BY <2>1 DEF Content, Text
  <2>3. AsksFor(line, c)
    BY <1>7, <2>1, <2>2 DEF AsksFor
  <2> QED BY <2>1, <2>3 DEF Whole
<1> HIDE DEF Goal
<1>8. ASSUME NEW w, Prefixed(line, w) PROVE line = <<w, Space>> \o t
  BY <1>8, PrefixOfLine
<1>9. ASSUME NEW v, NEW w, Prefixed(line, v), Prefixed(line, w) PROVE v = w
  BY <1>9 DEF Prefixed
<1>10. CASE front = "fancy"
  <2>1. m = FancyMessage(line) /\ ~ FancyPanics(line)
    BY <1>10 DEF m, Message, Panics
  <2>2. \/ \E w \in {"/whisper", "/ping", "/extension", "/deliver"} : Prefixed(line, w)
        \/ \A w \in Slash : ~ Prefixed(line, w)
    BY <1>10 DEF Slash, Misread
  <2>3. CASE Prefixed(line, "/whisper")
    <3>1. m = [kind |-> "whisper", dest |-> Before(t), message |-> Behind(t)]
      BY <1>9, <2>1, <2>3 DEF FancyMessage
    <3> QED BY <1>4, <2>1, <2>3, <3>1 DEF FancyPanics
  <2>4. CASE Prefixed(line, "/ping")
    <3>1. m = [kind |-> "ping", dest |-> t, sent_at |-> Now]
      BY <1>9, <2>1, <2>4 DEF FancyMessage
    <3> QED BY <1>3, <1>8, <2>4, <3>1
  <2>5. CASE Prefixed(line, "/extension")
    <3>1. m = [kind |-> "extension", ext |-> Numeral[Before(t)[1]], payload |-> Behind(t)]
      BY <1>9, <2>1, <2>5 DEF FancyMessage
    <3>2. Spaces(t) # {} /\ IsNumber(Before(t))
      BY <2>1, <2>5 DEF FancyPanics, Unsplit
    <3> QED BY <1>7, <2>5, <3>1, <3>2, SplitExtension
  <2>6. CASE Prefixed(line, "/deliver")
    <3>1. m = [kind |-> "deliver", dest |-> Before(t), data |-> as_bytes(Behind(t))]
      BY <1>9, <2>1, <2>6 DEF FancyMessage
    <3> QED BY <1>5, <2>1, <2>6, <3>1 DEF FancyPanics
  <2>7. CASE \A w \in Slash : ~ Prefixed(line, w)
    <3>1. m = [kind |-> "say", message |-> line]
      BY <2>1, <2>7 DEF FancyMessage, Slash
    <3> QED BY <1>2, <2>7, <3>1
  <2> QED BY <2>2, <2>3, <2>4, <2>5, <2>6, <2>7
<1>11. CASE front = "simple"
  <2>1. m = SimpleMessage(line) /\ ~ SimplePanics(line)
    BY <1>11 DEF m, Message, Panics
  <2>2. Slash = {"/whisper", "/ping", "/extension", "/deliver", "/say", "/broadcast"}
    BY DEF Slash
  <2>3. CASE Prefixed(line, "/say")
    <3>1. m = [kind |-> "say", message |-> t]
      BY <1>9, <2>1, <2>3 DEF SimpleMessage
    <3> QED BY <1>2, <1>8, <2>3, <3>1
  <2>4. CASE Prefixed(line, "/whisper")
    <3>1. m = [kind |-> "whisper", dest |-> Before(t), message |-> Behind(t)]
      BY <1>9, <2>1, <2>4 DEF SimpleMessage
    <3> QED BY <1>4, <2>1, <2>4, <3>1 DEF SimplePanics
  <2>5. CASE Prefixed(line, "/ping")
    <3>1. m = [kind |-> "ping", dest |-> t, sent_at |-> Now]
      BY <1>9, <2>1, <2>5 DEF SimpleMessage
    <3> QED BY <1>3, <1>8, <2>5, <3>1
  <2>6. CASE Prefixed(line, "/extension")
    <3>1. m = SimpleExtension(t)
      BY <1>9, <2>1, <2>6 DEF SimpleMessage
    <3>2. CASE Spaces(t) # {} /\ IsNumber(Before(t))
      <4>1. m = [kind |-> "extension", ext |-> Numeral[Before(t)[1]],
                 payload |-> Behind(t)]
        BY <3>1, <3>2 DEF SimpleExtension
      <4> QED BY <1>7, <2>6, <3>2, <4>1, SplitExtension
    <3>3. CASE ~ (Spaces(t) # {} /\ IsNumber(Before(t)))
      <4>1. PICK x : m = [kind |-> "extension", ext |-> 0, payload |-> x]
        BY <3>1, <3>3 DEF SimpleExtension
      <4>2. ~ NumberedExtension(line)
        BY <2>6, <3>3, NumberFound
      <4> QED BY <1>7, <2>6, <4>1, <4>2
    <3> QED BY <3>2, <3>3
  <2>7. CASE Prefixed(line, "/deliver")
    <3>1. m = [kind |-> "deliver", dest |-> Before(t), data |-> as_bytes(Behind(t))]
      BY <1>9, <2>1, <2>7 DEF SimpleMessage
    <3> QED BY <1>5, <2>1, <2>7, <3>1 DEF SimplePanics
  <2>8. CASE Prefixed(line, "/broadcast")
    <3>1. m = [kind |-> "broadcast", data |-> as_bytes(t)]
      BY <1>9, <2>1, <2>8 DEF SimpleMessage
    <3> QED BY <1>6, <1>8, <2>8, <3>1
  <2>9. CASE \A w \in Slash : ~ Prefixed(line, w)
    <3>1. m = [kind |-> "say", message |-> line]
      BY <2>1, <2>2, <2>9 DEF SimpleMessage
    <3> QED BY <1>2, <2>9, <3>1
  <2> QED BY <2>2, <2>3, <2>4, <2>5, <2>6, <2>7, <2>8, <2>9
<1> QED BY <1>10, <1>11

-----------------------------------------------------------------------------
(* From the keyboard to the network.                                       *)

\* Lines entered are never taken back.
LEMMA EnteredGrows ==
    ASSUME InputOK, SentInOrder, NEW line \in Seq(Word), entered' = Append(entered, line),
           UNCHANGED <<front, sent, sequence_number>>
    PROVE  SentInOrder'
<1>1. /\ Len(entered) \in Nat /\ Len(entered') = Len(entered) + 1
      /\ \A i \in 1..Len(entered) : entered'[i] = entered[i]
  BY DEF InputOK
<1>2. IsList(sent) /\ Len(sent) \in Nat /\ Len(sent) <= Len(entered)
  BY DEF SentInOrder, IsList
<1>3. \A i \in 1..Len(sent) : entered'[i] = entered[i]
  BY <1>1, <1>2
<1>4. IsList(sent)' /\ Len(sent') <= Len(entered')
  BY <1>1, <1>2 DEF IsList
<1> QED BY <1>3, <1>4 DEF SentInOrder

\* So do the numbers drawn.
LEMMA NumbersGrow ==
    ASSUME TypeOK, SentInOrder, sequence_number' \in {sequence_number, sequence_number + 1},
           UNCHANGED <<front, sent, entered>>
    PROVE  SentInOrder'
<1>1. sequence_number \in Nat
  BY DEF TypeOK
<1>2. \A n \in Nat : n < sequence_number => n < sequence_number'
  BY <1>1
<1>3. IsList(sent)'
  BY DEF SentInOrder, IsList
<1> QED BY <1>2, <1>3 DEF SentInOrder

\* The key task enters a line: its message is the last under way, or there is none.
LEMMA LineEntered ==
    ASSUME InputOK, Underway, IsList(sent), NEW line \in Seq(Word), keys = "reading",
           entered' = Append(entered, line),
           UNCHANGED <<front, forward, server, to_server, sent>>,
           \/ /\ Panics(front, line) \/ forward = "panicked"
              /\ keys' = "panicked" /\ UNCHANGED ui_client
           \/ /\ ~ Panics(front, line)
              /\ ui_client' = Append(ui_client, Message(front, line))
    PROVE  Underway'
<1> DEFINE s == Len(sent)
           t == s + Len(to_server)
           u == t + Len(ui_client)
<1>1. /\ Len(entered) \in Nat /\ Len(entered') = Len(entered) + 1
      /\ \A i \in 1..Len(entered) : entered'[i] = entered[i]
      /\ entered'[Len(entered) + 1] = line
  BY DEF InputOK
<1>2. /\ IsList(to_server) /\ IsList(ui_client)
      /\ Len(to_server) \in Nat /\ Len(ui_client) \in Nat /\ Len(sent) \in Nat
  BY DEF Underway, IsList
<1>3. IsList(to_server') /\ IsList(ui_client')
  <2>1. /\ to_server' = to_server
        /\ ui_client' = ui_client \/ ui_client' = Append(ui_client, Message(front, line))
    OBVIOUS
  <2>2. \A q : q = to_server \/ q = ui_client => IsList(q)
    BY <1>2
  <2>3. \A q : q = Append(ui_client, Message(front, line)) => IsList(q)
    BY <1>2, ListAppend
  <2> QED BY ONLY <2>1, <2>2, <2>3
<1>4. CASE server = "failed"
  BY <1>3, <1>4 DEF Underway
<1>5. CASE server # "failed"
  <2>1. /\ forward = "running" /\ Len(entered) = u
        /\ \A i \in 1..u : ~ Panics(front, entered[i])
        /\ \A i \in 1..Len(to_server) :
              to_server[i] = Called(Message(front, entered[s + i]))
        /\ \A i \in 1..Len(ui_client) : ui_client[i] = Message(front, entered[t + i])
    BY <1>5 DEF Underway
  <2>2. s \in Nat /\ t \in Nat /\ u \in Nat
    BY <1>2
  <2>3. /\ \A i \in 1..u : ~ Panics(front, entered'[i])
        /\ \A i \in 1..Len(to_server) :
              to_server[i] = Called(Message(front, entered'[s + i]))
        /\ \A i \in 1..Len(ui_client) : ui_client[i] = Message(front, entered'[t + i])
    BY <1>1, <1>2, <2>1
  <2>4. CASE keys' = "panicked" /\ UNCHANGED ui_client
    BY <1>1, <1>3, <2>1, <2>3, <2>4 DEF Underway
  <2>5. CASE ~ Panics(front, line) /\ ui_client' = Append(ui_client, Message(front, line))
    <3>1. /\ Len(ui_client') = Len(ui_client) + 1
          /\ \A i \in 1..Len(ui_client) : ui_client'[i] = ui_client[i]
          /\ ui_client'[Len(ui_client) + 1] = Message(front, line)
      BY <1>2, <2>5, ListAppend
    <3>2. t + Len(ui_client') = u + 1 /\ entered'[u + 1] = line
      BY <1>1, <1>2, <2>1, <3>1
    <3>3. \A i \in 1..(t + Len(ui_client')) : ~ Panics(front, entered'[i])
      <4>1. \A i \in 1..(u + 1) : i \in 1..u \/ i = u + 1
        BY <2>2
      <4>2. t + Len(ui_client') = u + 1
        BY <3>2
      <4> HIDE DEF t, u
      <4> QED BY <2>3, <2>5, <3>2, <4>1, <4>2
    <3>4. \A i \in 1..Len(ui_client') : ui_client'[i] = Message(front, entered'[t + i])
      <4>1. t + (Len(ui_client) + 1) = u + 1
        BY <1>2, <2>2
      <4>2. \A i \in 1..Len(ui_client') : i \in 1..Len(ui_client) \/ i = Len(ui_client) + 1
        BY <1>2, <3>1
      <4> HIDE DEF t, u
      <4> QED BY <2>3, <3>1, <3>2, <4>1, <4>2
    <3> QED BY <1>1, <1>3, <2>1, <2>3, <3>1, <3>2, <3>3, <3>4 DEF Underway
  <2> QED BY <2>1, <2>4, <2>5
<1> QED BY <1>4, <1>5

\* The forwarding task passes the next message on.
LEMMA MessageForwarded ==
    ASSUME TypeOK, Underway, IsList(sent), ui_client # <<>>,
           to_server' = Append(to_server, Called(Head(ui_client))),
           ui_client' = Tail(ui_client),
           UNCHANGED <<front, keys, forward, server, sent, entered>>
    PROVE  Underway'
<1> DEFINE s == Len(sent)
           t == s + Len(to_server)
           u == t + Len(ui_client)
<1>1. /\ IsList(to_server) /\ IsList(ui_client)
      /\ Len(to_server) \in Nat /\ Len(ui_client) \in Nat /\ Len(sent) \in Nat
  BY DEF Underway, IsList
<1>2. /\ IsList(to_server') /\ Len(to_server') = Len(to_server) + 1
      /\ \A i \in 1..Len(to_server) : to_server'[i] = to_server[i]
      /\ to_server'[Len(to_server) + 1] = Called(Head(ui_client))
  BY <1>1, ListAppend
<1>3. /\ IsList(ui_client') /\ Head(ui_client) = ui_client[1]
      /\ Len(ui_client) \in Nat \ {0} /\ Len(ui_client') = Len(ui_client) - 1
      /\ \A i \in 1..Len(ui_client') : ui_client'[i] = ui_client[i + 1]
  BY <1>1, ListTail
<1>4. CASE server = "failed"
  BY <1>2, <1>3, <1>4 DEF Underway
<1>5. CASE server # "failed"
  <2>1. /\ forward = "running"
        /\ Len(entered) = u \/ (keys = "panicked" /\ Len(entered) = u + 1)
        /\ \A i \in 1..u : ~ Panics(front, entered[i])
        /\ \A i \in 1..Len(to_server) :
              to_server[i] = Called(Message(front, entered[s + i]))
        /\ \A i \in 1..Len(ui_client) : ui_client[i] = Message(front, entered[t + i])
    BY <1>5 DEF Underway
  <2>2. (s + Len(to_server')) + Len(ui_client') = u /\ s + Len(to_server') = t + 1
    BY <1>1, <1>2, <1>3
  <2>3. \A i \in 1..Len(to_server') : to_server'[i] = Called(Message(front, entered[s + i]))
    <3>1. ui_client[1] = Message(front, entered[t + 1])
      BY <1>3, <2>1
    <3>2. t + 1 = s + (Len(to_server) + 1)
      BY <1>1
    <3>3. \A i \in 1..Len(to_server') : i \in 1..Len(to_server) \/ i = Len(to_server) + 1
      BY <1>1, <1>2
    <3> HIDE DEF t
    <3> QED BY <1>2, <1>3, <2>1, <3>1, <3>2, <3>3
  <2>4. \A i \in 1..Len(ui_client') : ui_client'[i] = Message(front, entered[(t + 1) + i])
    <3>1. \A i \in 1..Len(ui_client') : i + 1 \in 1..Len(ui_client) /\ (t + 1) + i = t + (i + 1)
      BY <1>1, <1>3
    <3> HIDE DEF t
    <3> QED BY <1>3, <2>1, <3>1
  <2> HIDE DEF t, u
  <2> QED BY <1>2, <1>3, <1>5, <2>1, <2>2, <2>3, <2>4 DEF Underway
<1> QED BY <1>4, <1>5

\* The handler numbers the next message and passes it to the peers.
LEMMA MessageSent ==
    ASSUME TypeOK, InputOK, SentInOrder, Underway, server = "up", to_server # <<>>,
           sent' = Append(sent, into_frame(With(Head(to_server), "seq", sequence_number))),
           sequence_number' = sequence_number + 1,
           to_server' = Tail(to_server),
           UNCHANGED <<front, keys, forward, server, ui_client, entered>>
    PROVE  SentInOrder' /\ Underway'
<1> DEFINE s == Len(sent)
           t == s + Len(to_server)
           u == t + Len(ui_client)
           f == into_frame(With(Head(to_server), "seq", sequence_number))
<1>1. /\ IsList(to_server) /\ IsList(ui_client) /\ IsList(sent)
      /\ Len(to_server) \in Nat /\ Len(ui_client) \in Nat /\ s \in Nat
      /\ Len(entered) \in Nat /\ sequence_number \in Nat
  <2>1. IsList(to_server) /\ IsList(ui_client) /\ IsList(sent)
    BY DEF Underway, SentInOrder
  <2>2. Len(entered) \in Nat /\ sequence_number \in Nat
    BY DEF TypeOK, InputOK
  <2> QED BY <2>1, <2>2 DEF IsList
<1>2. /\ IsList(sent') /\ Len(sent') = s + 1
      /\ \A i \in 1..s : sent'[i] = sent[i]
      /\ sent'[s + 1] = f
  BY <1>1, ListAppend
<1>3. /\ IsList(to_server') /\ Head(to_server) = to_server[1]
      /\ Len(to_server) \in Nat \ {0} /\ Len(to_server') = Len(to_server) - 1
      /\ \A i \in 1..Len(to_server') : to_server'[i] = to_server[i + 1]
  BY <1>1, ListTail
<1>4. /\ forward = "running"
      /\ Len(entered) = u \/ (keys = "panicked" /\ Len(entered) = u + 1)
      /\ \A i \in 1..u : ~ Panics(front, entered[i])
      /\ \A i \in 1..Len(to_server) :
            to_server[i] = Called(Message(front, entered[s + i]))
      /\ \A i \in 1..Len(ui_client) : ui_client[i] = Message(front, entered[t + i])
  BY DEF Underway
<1>5. s + 1 \in 1..Len(entered) /\ s + 1 \in 1..u
  BY <1>1, <1>3, <1>4
<1>6. /\ f = into_frame(Numbered(front, entered[s + 1], sequence_number))
      /\ ~ Panics(front, entered[s + 1])
  BY <1>3, <1>4, <1>5 DEF Numbered
<1>7. from_frame(f).seq = sequence_number
  <2>1. entered[s + 1] \in Seq(Word) /\ front \in {"fancy", "simple"}
    BY <1>5, ElementOfSeq DEF InputOK, TypeOK
  <2> DEFINE c == Numbered(front, entered[s + 1], sequence_number)
  <2>2. Whole(c) /\ c.seq = sequence_number
    <3>1. CASE Misread(entered[s + 1])
      BY <2>1, <3>1, MisreadIsSaid
    <3>2. CASE ~ Misread(entered[s + 1])
      BY <1>6, <2>1, <3>2, LineIsAskedFor
    <3> QED BY <3>1, <3>2
  <2> QED BY <1>6, <2>2, WholeIsRead
<1> HIDE DEF f
<1>8. SentInOrder'
  <2>1. /\ s <= Len(entered)
        /\ \A i \in 1..s :
              /\ from_frame(sent[i]).seq \in Nat
              /\ from_frame(sent[i]).seq < sequence_number
              /\ ~ Panics(front, entered[i])
              /\ sent[i] = into_frame(Numbered(front, entered[i], from_frame(sent[i]).seq))
        /\ \A i \in 2..s : from_frame(sent[i - 1]).seq < from_frame(sent[i]).seq
    BY DEF SentInOrder
  <2>2. \A i \in 1..(s + 1) : i \in 1..s \/ i = s + 1
    BY <1>1
  <2>3. \A n \in Nat : n < sequence_number => n < sequence_number + 1
    BY <1>1
  <2>4. ASSUME NEW i \in 1..(s + 1)
        PROVE  /\ from_frame(sent'[i]).seq \in Nat
               /\ from_frame(sent'[i]).seq < sequence_number'
               /\ ~ Panics(front, entered[i])
               /\ sent'[i] = into_frame(Numbered(front, entered[i], from_frame(sent'[i]).seq))
    <3>1. CASE i \in 1..s
      BY <1>2, <2>1, <2>3, <3>1
    <3>2. CASE i = s + 1
      BY <1>1, <1>2, <1>6, <1>7, <3>2
    <3> QED BY <2>2, <3>1, <3>2
  <2>5. ASSUME NEW i \in 2..(s + 1)
        PROVE  from_frame(sent'[i - 1]).seq < from_frame(sent'[i]).seq
    <3>1. CASE i \in 2..s
      <4>1. i - 1 \in 1..s /\ i \in 1..s
        BY <1>1, <3>1
      <4> QED BY <1>2, <2>1, <3>1, <4>1
    <3>2. CASE i = s + 1
      <4>1. i - 1 = s /\ s \in 1..s
        BY <1>1, <3>2
      <4> QED BY <1>2, <1>7, <2>1, <3>2, <4>1
    <3> QED BY <1>1, <3>1, <3>2
  <2>6. Len(sent') = s + 1 /\ s + 1 <= Len(entered')
    BY <1>1, <1>2, <1>5
  <2> HIDE DEF s
  <2> QED BY <1>2, <2>4, <2>5, <2>6 DEF SentInOrder
<1>9. Underway'
  <2>1. /\ (s + 1) + Len(to_server') = t
        /\ \A i \in 1..Len(to_server') :
              i + 1 \in 1..Len(to_server) /\ (s + 1) + i = s + (i + 1)
    BY <1>1, <1>3
  <2>2. \A i \in 1..Len(to_server') :
            to_server'[i] = Called(Message(front, entered[(s + 1) + i]))
    BY <1>3, <1>4, <2>1
  <2>3. Len(sent') = s + 1
    BY <1>2
  <2>4. IsList(ui_client')
    BY <1>1
  <2> HIDE DEF s, t
  <2> QED BY <1>3, <1>4, <2>1, <2>2, <2>3, <2>4 DEF Underway
<1> QED BY <1>8, <1>9

\* Every step keeps what is under way, and what has been sent, in the order entered.
LEMMA SentStep ==
    ASSUME TypeOK, InputOK, SentInOrder, Underway, [Next]_vars
    PROVE  SentInOrder' /\ Underway'
<1> USE DEF input, app, list, drawing, network, bounds
<1>1. IsList(sent) /\ IsList(to_server) /\ IsList(ui_client)
  BY DEF SentInOrder, Underway
<1>2. ASSUME UNCHANGED <<front, server, ui_client, forward, to_server, sent, entered>>,
             keys = "panicked" => keys' = "panicked"
      PROVE  Underway'
  <2>1. \A q : q = to_server \/ q = ui_client => IsList(q)
    BY <1>1
  <2> QED BY <1>2, <2>1 DEF Underway
<1>3. ASSUME UNCHANGED <<front, server, ui_client, forward, to_server, network, entered>>,
             keys = "panicked" => keys' = "panicked"
      PROVE  SentInOrder' /\ Underway'
  BY <1>2, <1>3, NumbersGrow
<1>4. CASE Press \/ Edit \/ Browse \/ Quit \/ ShutDown \/ EndOfInput
  <2>1. UNCHANGED <<front, server, ui_client, forward, to_server, network, entered>>
    BY <1>4 DEF Press, Edit, Browse, Handled, Quit, ShutDown, EndOfInput
  <2>2. keys = "panicked" => keys' = "panicked"
    BY <1>4 DEF Press, Edit, Browse, Handled, Waiting, Quit, ShutDown, EndOfInput
  <2> QED BY <1>3, <2>1, <2>2
<1>5. CASE ArriveFancy \/ ArriveSimple \/ Draw
  BY <1>3, <1>5
     DEF ArriveFancy, ArriveSimple, Arrive, Draw, DrawStep, CheckShutDown, Lock, Count,
         Drain, Show
<1>6. ASSUME NEW line \in Seq(Word), keys = "reading", entered' = Append(entered, line),
             UNCHANGED <<front, forward, to_server, network>>,
             \/ Panics(front, line) /\ EndKeys("panicked") /\ UNCHANGED ui_client
             \/ ~ Panics(front, line) /\ Send(Message(front, line))
      PROVE  SentInOrder' /\ Underway'
  <2>1. \/ /\ Panics(front, line) \/ forward = "panicked"
           /\ keys' = "panicked" /\ UNCHANGED ui_client
        \/ /\ ~ Panics(front, line)
           /\ ui_client' = Append(ui_client, Message(front, line))
    BY <1>6 DEF EndKeys, Send
  <2>2. Underway'
    BY <1>1, <1>6, <2>1, LineEntered
  <2>3. SentInOrder'
    BY <1>6, EnteredGrows
  <2> QED BY <2>2, <2>3
<1>7. CASE Enter
  <2>1. front = "fancy" /\ keys = "reading" /\ input_string \in Seq(Word)
    BY <1>7 DEF Enter, Waiting, TypeOK
  <2>2. \/ Panics(front, input_string) /\ EndKeys("panicked") /\ UNCHANGED ui_client
        \/ ~ Panics(front, input_string) /\ Send(Message(front, input_string))
    BY <1>7, <2>1 DEF Enter, Panics, Message
  <2> QED BY <1>6, <1>7, <2>1, <2>2 DEF Enter
<1>8. CASE SimpleLine
  <2> DEFINE line == Head(events)
  <2>1. front = "simple" /\ keys = "reading" /\ events # <<>>
    BY <1>8 DEF SimpleLine, Waiting
  <2>2. line \in Seq(Word)
    <3>1. events \in Seq(Seq(Word))
      BY <2>1 DEF InputOK, Input
    <3> QED BY <2>1, <3>1
  <2>3. CASE line = <<"/quit">>
    <3>1. UNCHANGED <<front, server, ui_client, forward, to_server, network, entered>>
      BY <1>8, <2>3 DEF SimpleLine
    <3> QED BY <1>3, <2>1, <3>1
  <2>4. CASE line # <<"/quit">>
    <3>1. \/ Panics(front, line) /\ EndKeys("panicked") /\ UNCHANGED ui_client
          \/ ~ Panics(front, line) /\ Send(Message(front, line))
      BY <1>8, <2>1, <2>4 DEF SimpleLine, Panics, Message
    <3>2. entered' = Append(entered, line) /\ UNCHANGED <<front, forward, to_server, network>>
      BY <1>8, <2>4 DEF SimpleLine
    <3> QED BY <1>6, <2>1, <2>2, <3>1, <3>2
  <2> QED BY <2>3, <2>4
<1>9. CASE Forward
  <2>1. UNCHANGED <<front, keys, network, entered>>
    BY <1>9 DEF Forward
  <2>2. SentInOrder'
    BY <2>1, NumbersGrow
  <2>3. CASE server # "failed"
    <3>1. /\ ui_client # <<>> /\ to_server' = Append(to_server, Called(Head(ui_client)))
          /\ ui_client' = Tail(ui_client) /\ UNCHANGED forward
      BY <1>9, <2>3 DEF Forward
    <3>2. Underway'
      BY <1>1, <2>1, <3>1, MessageForwarded
    <3> QED BY <2>2, <3>2
  <2>4. CASE server = "failed"
    <3>1. to_server' = to_server /\ ui_client' = <<>>
      BY <1>9, <2>4 DEF Forward
    <3>2. \A q : q = to_server \/ q = <<>> => IsList(q)
      BY <1>1, EmptyIsList
    <3> QED BY <2>1, <2>2, <2>4, <3>1, <3>2 DEF Underway
  <2> QED BY <2>2, <2>3, <2>4
<1>10. CASE ServerUp
  <2>1. /\ UNCHANGED <<front, keys, ui_client, forward, to_server, sent, entered>>
        /\ sequence_number' = sequence_number + 1
        /\ server = "starting" /\ server' = "up"
    BY <1>10 DEF ServerUp
  <2>2. \A q : q = to_server \/ q = ui_client => IsList(q)
    BY <1>1
  <2>3. Underway'
    BY <2>1, <2>2 DEF Underway
  <2> QED BY <2>1, <2>3, NumbersGrow
<1>11. CASE ServerFails
  <2>1. /\ UNCHANGED <<front, keys, ui_client, sequence_number, sent, entered>>
        /\ to_server' = <<>> /\ server' = "failed"
    BY <1>11 DEF ServerFails
  <2>2. \A q : q = <<>> \/ q = ui_client => IsList(q)
    BY <1>1, EmptyIsList
  <2>3. Underway'
    BY <2>1, <2>2 DEF Underway
  <2> QED BY <2>1, <2>3, NumbersGrow
<1>12. CASE Handle
  BY <1>12, MessageSent DEF Handle
<1>13. CASE OtherNumber
  <2>1. /\ UNCHANGED <<front, server, keys, ui_client, forward, to_server, sent, entered>>
        /\ sequence_number' = sequence_number + 1
    BY <1>13 DEF OtherNumber
  <2> QED BY <1>2, <2>1, NumbersGrow
<1>14. CASE UNCHANGED vars
  BY <1>3, <1>14 DEF vars
<1> QED BY <1>4, <1>5, <1>7, <1>8, <1>9, <1>10, <1>11, <1>12, <1>13, <1>14
        DEF Next, KeyTask

-----------------------------------------------------------------------------
(* The theorems.                                                           *)

LEMMA UiStarts == Init => UiInv
<1> SUFFICES ASSUME Init PROVE UiInv
  OBVIOUS
<1>1. TypeOK /\ InputOK /\ DrawerOK /\ LatestKept
  BY ScreenStarts
<1>2. sent = <<>> /\ to_server = <<>> /\ ui_client = <<>> /\ entered = <<>>
      /\ forward = "running"
  BY DEF Init
<1>3. SentInOrder
  BY <1>2, EmptyIsList DEF SentInOrder
<1>4. Underway
  BY <1>2, EmptyIsList DEF Underway
<1> QED BY <1>1, <1>3, <1>4 DEF UiInv

LEMMA UiStep == UiInv /\ [Next]_vars => UiInv'
<1> SUFFICES ASSUME UiInv, [Next]_vars PROVE UiInv'
  OBVIOUS
<1> USE DEF UiInv
<1>1. TypeOK' /\ InputOK' /\ DrawerOK'
  BY TypeStep, InputStep, DrawerStep
<1>2. LatestKept'
  BY KeptStep
<1>3. SentInOrder' /\ Underway'
  BY SentStep
<1> QED BY <1>1, <1>2, <1>3

\* The invariant that holds all along: types, the draw loop's measure of the list, and
\* where every line entered is on its way.
THEOREM UiInvariance == Spec => []UiInv
<1>1. Init => UiInv
  BY UiStarts
<1>2. UiInv /\ [Next]_vars => UiInv'
  BY UiStep
<1> QED BY <1>1, <1>2, PTL DEF Spec

\* Every variable holds a value of its type, whatever the user types.
THEOREM UiTypeCorrect == Spec => []TypeOK
<1>1. UiInv => TypeOK
  BY DEF UiInv
<1> QED BY <1>1, UiInvariance, PTL

\* However the draw loop's locks and the tasks that add messages take turns, only the
\* oldest messages go, and never one of the newest that fit on the screen.
THEOREM LatestAreKept == Spec => []LatestKept
<1>1. UiInv => LatestKept
  BY DEF UiInv
<1> QED BY <1>1, UiInvariance, PTL

\* What goes out is what was entered, line for line, in that order and with growing
\* numbers; the two commands that the fancy front end does not know are said.
THEOREM SentIsTyped == Spec => []SentAsTyped
<1>1. UiInv => SentAsTyped
  <2> SUFFICES ASSUME UiInv PROVE SentAsTyped
    OBVIOUS
  <2>1. ASSUME NEW i \in 1..Len(sent)
        PROVE  LET c == from_frame(sent[i])
               IN  /\ Misread(entered[i]) => c.kind = "say" /\ c.message = entered[i]
                   /\ ~ Misread(entered[i]) => AsksFor(entered[i], c)
                   /\ c.source = Me /\ c.seq < sequence_number
    <3> DEFINE n == from_frame(sent[i]).seq
               c == Numbered(front, entered[i], n)
    <3>1. n < sequence_number /\ ~ Panics(front, entered[i]) /\ sent[i] = into_frame(c)
      BY DEF UiInv, SentInOrder
    <3>2. entered[i] \in Seq(Word) /\ front \in {"fancy", "simple"}
      <4>1. i \in 1..Len(entered)
        BY DEF UiInv, SentInOrder, InputOK, IsList
      <4> QED BY <4>1, ElementOfSeq DEF UiInv, InputOK, TypeOK
    <3> HIDE DEF n
    <3>3. /\ Whole(c) /\ c.source = Me
          /\ Misread(entered[i]) => c.kind = "say" /\ c.message = entered[i]
          /\ ~ Misread(entered[i]) => AsksFor(entered[i], c)
      <4>1. CASE Misread(entered[i])
        BY <3>2, <4>1, MisreadIsSaid
      <4>2. CASE ~ Misread(entered[i])
        BY <3>1, <3>2, <4>2, LineIsAskedFor
      <4> QED BY <4>1, <4>2
    <3>4. from_frame(sent[i]) = c
      BY <3>1, <3>3, WholeIsRead
    <3> HIDE DEF c
    <3> QED BY <3>1, <3>3, <3>4 DEF n
  <2> QED BY <2>1 DEF SentAsTyped, UiInv, SentInOrder
<1> QED BY <1>1, UiInvariance, PTL
=============================================================================
